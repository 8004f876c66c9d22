-------------------------------- MODULE Disk --------------------------------
(***************************************************************************)
(* The boot floppy and how both loaders read it: disk_read of              *)
(* bootloader/stage1/boot.asm and DISK_ReadSectors of stage2/disk.c.  The  *)
(* unit of data is 32 bytes, a directory entry.  What a sector holds is    *)
(* told by its number, so that a buffer holds the number of the sector it  *)
(* was filled from; the directories and the FAT are given by the image.    *)
(***************************************************************************)
EXTENDS Integers, Sequences

CONSTANTS
  SectorSize,         \* units in a sector (16)
  SectorsPerCluster, ReservedSectors, SectorsPerFat, FatCount, DirEntryCount,
  MAX_FILE_HANDLES,
  Floppy,             \* its geometry: sectors per track, heads, cylinders
  Drives,             \* the geometries the BIOS knows, of any drive
  Images,             \* file systems: the FAT and the directory entries
  MaxFaults           \* bound: the faults of the drive in one run

EndOfChain == 4088    \* 0xFF8
Junk == -1            \* the contents of a buffer after a failed read
NoEntry == [name |-> "-", dir |-> FALSE, first |-> 0, size |-> 0]

FatLba == ReservedSectors
RootLba == ReservedSectors + SectorsPerFat * FatCount
RootSectors == (DirEntryCount + SectorSize - 1) \div SectorSize
g_DataSectionLba == RootLba + RootSectors
Lbas == 0 .. Floppy.spt * Floppy.heads * Floppy.cyls - 1

\* Whichever drive answers, the FAT and the beginning of the root directory lie
\* in the first track.
ASSUME DiskAssumption ==
  /\ {SectorSize, SectorsPerCluster, SectorsPerFat, FatCount, DirEntryCount,
      MAX_FILE_HANDLES} \subseteq Nat \ {0}
  /\ DirEntryCount % SectorSize = 0
  /\ {ReservedSectors, MaxFaults} \subseteq Nat
  /\ \A g \in Drives : {g.spt, g.heads, g.cyls} \subseteq Nat \ {0} /\ g.spt > RootLba
  /\ Floppy \in Drives

\* The buffers: those of the files, the root directory's, the FAT (and stage 1's
\* general buffer), and the sector that stage 1 is loading.
ROOT_DIRECTORY_HANDLE == -1
FatBuffer == -2
SectorBuffer == -3
Buffers == SectorBuffer .. MAX_FILE_HANDLES - 1

VARIABLES
  image,     \* the file system on the floppy
  pc,        \* the statement of the loaders; "disk" while a read is under way
  geom,      \* the geometry the loader has been told
  buf,       \* the sector each buffer was filled from
  io,        \* the read under way, and where it returns to
  faults,    \* how often the drive has failed
  failed     \* ghost: a DISK_ReadSectors has returned false

diskVars == <<image, pc, geom, buf, io, faults, failed>>

NoIO == [lba |-> 0, buf |-> FatBuffer, tries |-> 0, ok |-> "none", bad |-> "none"]

-----------------------------------------------------------------------------
(* Addresses. *)

\* DISK_LBA2CHS and lba_to_chs.
LBA2CHS(g, lba) == [sector   |-> (lba % g.spt) + 1,
                    cylinder |-> (lba \div g.spt) \div g.heads,
                    head     |-> (lba \div g.spt) % g.heads]

\* The sector the floppy drive finds at an address, if there is one.
OnFloppy(chs) == /\ chs.sector \in 1 .. Floppy.spt
                 /\ chs.head < Floppy.heads /\ chs.cylinder < Floppy.cyls
SectorAt(chs) == (chs.cylinder * Floppy.heads + chs.head) * Floppy.spt + chs.sector - 1

-----------------------------------------------------------------------------
(* Reading. *)

\* Start to read the sector lba (or several from there on) into the buffer b,
\* and go on at ok or at bad.
Read(lba, b, ok, bad) ==
  /\ pc' = "disk"
  /\ io' = [lba |-> lba, buf |-> b, tries |-> 0, ok |-> ok, bad |-> bad]
  /\ UNCHANGED <<image, buf, faults, failed>>

\* int 13h succeeds.
Arrive ==
  /\ pc = "disk" /\ OnFloppy(LBA2CHS(geom, io.lba))
  /\ buf' = [buf EXCEPT ![io.buf] = SectorAt(LBA2CHS(geom, io.lba))]
  /\ pc' = io.ok /\ io' = NoIO
  /\ UNCHANGED <<image, geom, faults, failed>>

\* int 13h reports an error, and may have spoilt the buffer.
Fault ==
  /\ pc = "disk"
  /\ IF OnFloppy(LBA2CHS(geom, io.lba))
     THEN faults < MaxFaults /\ faults' = faults + 1
     ELSE faults' = faults
  /\ buf' \in {buf, [buf EXCEPT ![io.buf] = Junk]}
  /\ UNCHANGED <<image, geom>>

\* Mutant: one try too many.
RetryMut ==
  /\ Fault
  /\ IF io.tries < 3
     THEN io' = [io EXCEPT !.tries = @ + 1] /\ UNCHANGED <<pc, failed>>
     ELSE pc' = io.bad /\ io' = NoIO /\ failed' = TRUE

\* Mutant: the tries are not counted.
RetryForeverMut ==
  /\ Fault
  /\ IF io.tries < 2 THEN UNCHANGED <<io, pc, failed>>
     ELSE pc' = io.bad /\ io' = NoIO /\ failed' = TRUE

\* Three tries, then the caller is told.
Retry ==
  /\ Fault
  /\ IF io.tries < 2
     THEN io' = [io EXCEPT !.tries = @ + 1] /\ UNCHANGED <<pc, failed>>
     ELSE pc' = io.bad /\ io' = NoIO /\ failed' = TRUE

DISK_ReadSectors == Arrive \/ Retry

-----------------------------------------------------------------------------
(* The FAT: 12 bits per cluster, two entries in three bytes.               *)

Clusters == DOMAIN image.fat

FatByte(i) ==
  LET even == image.fat[2 * (i \div 3)]
      odd == image.fat[2 * (i \div 3) + 1]
  IN CASE i % 3 = 0 -> even % 256
       [] i % 3 = 1 -> even \div 256 + 16 * (odd % 16)
       [] OTHER -> odd \div 16

FAT_NextCluster(cluster) ==
  LET word == FatByte((cluster * 3) \div 2) + 256 * FatByte((cluster * 3) \div 2 + 1)
  IN IF cluster % 2 = 0 THEN word % 4096 ELSE word \div 16

FAT_ClusterToLba(cluster) == g_DataSectionLba + (cluster - 2) * SectorsPerCluster

\* The directory entry that the unit u of a buffer filled from a sector holds.
EntryAt(u) == IF u \in DOMAIN image.entries THEN image.entries[u] ELSE NoEntry

-----------------------------------------------------------------------------
(* What the image holds, for the properties.                               *)

\* The n-th cluster of the file of the image m that begins at first, or the end
\* of its chain.
ClusterOf(m, first, n) ==
  LET at[k \in 0 .. n] == IF k = 0 THEN first
                          ELSE IF at[k - 1] >= EndOfChain THEN at[k - 1]
                          ELSE m.fat[at[k - 1]]
  IN at[n]
Cluster(first, n) == ClusterOf(image, first, n)
HasLength(m, first, n) == \A k \in 0 .. n : ClusterOf(m, first, k) < EndOfChain <=> k < n

\* The sector that holds the unit at position pos of a file: the data begin
\* behind the root directory with cluster 2.
SectorOf(first, pos) ==
  LET s == pos \div SectorSize
      c == Cluster(first, s \div SectorsPerCluster)
  IN RootLba + RootSectors + SectorsPerCluster * (c - 2) + (s % SectorsPerCluster)

\* All units of a file, in order.
Content(e) == [p \in 1 .. e.size |-> <<SectorOf(e.first, p - 1), (p - 1) % SectorSize>>]

RootUnits == (RootLba .. g_DataSectionLba - 1) \X (0 .. SectorSize - 1)

\* A file system without errors.  The FAT has an even number of entries, chains
\* do not leave it, and what is in a directory begins in it; chains are as long
\* as the files; a directory has no size of its own; names are unique in the root
\* directory, and nothing has the name that stands for garbage.
ASSUME ImageAssumption ==
  \A m \in Images :
    /\ DOMAIN m.fat \subseteq 0 .. EndOfChain - 1
    /\ \A c \in DOMAIN m.fat : /\ m.fat[c] \in DOMAIN m.fat \cup EndOfChain .. 4095
                              /\ c + 1 - 2 * (c % 2) \in DOMAIN m.fat
    /\ \A u \in DOMAIN m.entries :
         LET e == m.entries[u]
         IN /\ e.dir \in BOOLEAN /\ e.size \in Nat /\ e.first \in DOMAIN m.fat
            /\ e.name \notin {"garbled", NoEntry.name}
            /\ e.name = "STAGE2" => ~e.dir /\ e.size > 0
            /\ ~e.dir /\ e.size > 0 =>
                 LET bytes == SectorSize * SectorsPerCluster
                 IN HasLength(m, e.first, (e.size + bytes - 1) \div bytes)
            /\ e.dir => /\ e.size = 0
                        /\ \E n \in DOMAIN m.fat : 0 .. n \subseteq DOMAIN m.fat
                                                  /\ HasLength(m, e.first, n)
    /\ \A u, v \in RootUnits \cap DOMAIN m.entries :
         m.entries[u].name = m.entries[v].name => u = v

\* The entries of that name in the directory whose units are given.
Named(name, units) == {e \in {EntryAt(u) : u \in units} : e.name = name}

\* The units of the directory that begins at first.
UnitsOf(first) ==
  LET clusters == {Cluster(first, n) : n \in Clusters} \ EndOfChain .. 4095
  IN {<<RootLba + RootSectors + SectorsPerCluster * (c - 2) + s, o>> :
        c \in clusters, s \in 0 .. SectorsPerCluster - 1, o \in 0 .. SectorSize - 1}

\* The files that a path names.
Resolved(p) ==
  IF Len(p) = 1 THEN Named(p[1], RootUnits)
  ELSE UNION {Named(p[2], UnitsOf(d.first)) : d \in Named(p[1], RootUnits)}
=============================================================================
