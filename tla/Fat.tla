--------------------------------- MODULE Fat ---------------------------------
(***************************************************************************)
(* bootloader/stage2/fat.c and main.c: the FAT12 driver and the loop that  *)
(* loads the kernel with it.  There is one thread and no interrupts; an    *)
(* action goes from one disk read or call to the next.  Where the program  *)
(* uses a NULL FAT_File* the model stops, in "null".                       *)
(***************************************************************************)
EXTENDS Disk

CONSTANTS
  Paths,      \* what start() may open: sequences of names
  Dotted,     \* the names with an extension of three letters
  LoadSize    \* MEMORY_LOAD_SIZE, in units

\* What is opened is a file, in the root directory or in a directory of it.
ASSUME FatAssumption ==
  /\ LoadSize \in Nat \ {0}
  /\ \A p \in Paths :
       /\ p \in Seq(STRING) /\ Len(p) \in 1 .. 2
       /\ \A k \in 1 .. Len(p) : p[k] \notin {"garbled", NoEntry.name}
       /\ \A m \in Images : \A u \in DOMAIN m.entries :
            /\ m.entries[u].name = p[Len(p)] => ~m.entries[u].dir
            /\ Len(p) = 2 /\ m.entries[u].name = p[1] => m.entries[u].dir

VARIABLES
  file,       \* RootDirectory and OpenedFiles
  path,       \* what is left of the path
  current,    \* the handle of the directory being searched, then of the file
  sought,     \* the name FAT_FindFile compares with
  rd,         \* FAT_Read: the handle, the units still wanted and those delivered
  kernel,     \* what has been copied to MEMORY_KERNEL_ADDR
  opening     \* ghost: the path that start() asked for

fatVars == <<file, path, current, sought, rd, kernel, opening>>

Handles == ROOT_DIRECTORY_HANDLE .. MAX_FILE_HANDLES - 1
Closed == [Opened |-> FALSE, IsDirectory |-> FALSE, Position |-> 0, Size |-> 0,
           FirstCluster |-> 0, CurrentCluster |-> 0, CurrentSectorInCluster |-> 0]
NoRead == [h |-> ROOT_DIRECTORY_HANDLE, left |-> 0, out |-> <<>>, ret |-> "none"]

Least(a, b) == IF a < b THEN a ELSE b
KeepDisk == UNCHANGED <<image, geom, buf, io, faults, failed>>

-----------------------------------------------------------------------------
(* FAT_Initialize.                                                         *)

\* DISK_Initialize asks for the parameters of drive disk->id before it has
\* assigned it: an error, or the parameters of any drive.
DISK_Initialize ==
  /\ pc = "start"
  /\ \/ pc' = "hang" /\ KeepDisk
     \/ \E g \in Drives : geom' = g /\ Read(0, FatBuffer, "fat", "hang")
  /\ UNCHANGED fatVars

FAT_ReadFat ==
  /\ pc = "fat"
  /\ Read(FatLba, FatBuffer, "root", "hang")
  /\ UNCHANGED <<geom, fatVars>>

\* Mutant: the root directory ends one entry too early.
OpenRootMut ==
  /\ pc = "root"
  /\ Read(RootLba, ROOT_DIRECTORY_HANDLE, "open", "hang")
  /\ file' = [h \in Handles |->
       IF h # ROOT_DIRECTORY_HANDLE THEN Closed
       ELSE [Closed EXCEPT !.Opened = TRUE, !.IsDirectory = TRUE, !.Size = DirEntryCount - 1,
                           !.FirstCluster = RootLba, !.CurrentCluster = RootLba]]
  /\ UNCHANGED <<geom, path, current, sought, rd, kernel, opening>>

OpenRoot ==
  /\ pc = "root"
  /\ Read(RootLba, ROOT_DIRECTORY_HANDLE, "open", "hang")
  /\ file' = [h \in Handles |->
       IF h # ROOT_DIRECTORY_HANDLE THEN Closed
       ELSE [Closed EXCEPT !.Opened = TRUE, !.IsDirectory = TRUE, !.Size = DirEntryCount,
                           !.FirstCluster = RootLba, !.CurrentCluster = RootLba]]
  /\ UNCHANGED <<geom, path, current, sought, rd, kernel, opening>>

-----------------------------------------------------------------------------
(* FAT_Read.                                                               *)

\* A call of FAT_Read that returns to ret.  A directory other than the root
\* has size 0 and is not limited by it.
FAT_Read(h, count, ret) ==
  /\ pc' = "read"
  /\ rd' = [h |-> h, out |-> <<>>, ret |-> ret,
            left |-> IF ~file[h].IsDirectory \/ file[h].Size # 0
                     THEN Least(count, file[h].Size - file[h].Position) ELSE count]

ReadDone == /\ pc = "read" /\ rd.left = 0
            /\ pc' = rd.ret
            /\ KeepDisk /\ UNCHANGED fatVars

\* Mutant: one sector too many is taken from a cluster.
AdvancedMut(f) ==
  IF f.CurrentSectorInCluster < SectorsPerCluster
  THEN [f EXCEPT !.CurrentSectorInCluster = @ + 1]
  ELSE [f EXCEPT !.CurrentSectorInCluster = 0, !.CurrentCluster = FAT_NextCluster(@)]

\* The file f after its last unit of a sector: the sector in the cluster and
\* the cluster move on.
Advanced(f) ==
  IF f.CurrentSectorInCluster + 1 < SectorsPerCluster
  THEN [f EXCEPT !.CurrentSectorInCluster = @ + 1]
  ELSE [f EXCEPT !.CurrentSectorInCluster = 0, !.CurrentCluster = FAT_NextCluster(@)]

\* Mutant: the position is rounded up to a sector.
TakenMut(f, take) == [f EXCEPT !.Position = @ + SectorSize - (@ % SectorSize)]

\* The file f when take more units have been copied.
Taken(f, take) == [f EXCEPT !.Position = @ + take]

\* Units come from the buffer; when it is used up, the next sector is read, if
\* there is one.  A read that fails ends the call with what there is.
ReadMore ==
  /\ pc = "read" /\ rd.left > 0
  /\ LET h == rd.h
         at == file[h].Position % SectorSize
         take == Least(rd.left, SectorSize - at)
         taken == Taken(file[h], take)
         next == Advanced(taken)
         units == [k \in 1 .. take |-> <<buf[h], at + k - 1>>]
     IN /\ rd' = [rd EXCEPT !.left = @ - take, !.out = @ \o units]
        /\ \/ /\ at + take < SectorSize
              /\ file' = [file EXCEPT ![h] = taken]
              /\ pc' = "read" /\ UNCHANGED <<image, buf, io, faults, failed>>
           \/ /\ at + take = SectorSize /\ h = ROOT_DIRECTORY_HANDLE
              /\ file' = [file EXCEPT ![h] = [taken EXCEPT !.CurrentCluster = @ + 1]]
              /\ Read(file'[h].CurrentCluster, h, "read", rd.ret)
           \/ /\ at + take = SectorSize /\ h # ROOT_DIRECTORY_HANDLE
              /\ next.CurrentCluster < EndOfChain
              /\ file' = [file EXCEPT ![h] = next]
              /\ Read(FAT_ClusterToLba(next.CurrentCluster) + next.CurrentSectorInCluster,
                      h, "read", rd.ret)
           \/ /\ at + take = SectorSize /\ h # ROOT_DIRECTORY_HANDLE
              /\ next.CurrentCluster >= EndOfChain
              /\ file' = [file EXCEPT ![h] = [next EXCEPT !.Size = next.Position]]
              /\ pc' = rd.ret /\ UNCHANGED <<image, buf, io, faults, failed>>
  /\ UNCHANGED <<geom, path, current, sought, kernel, opening>>

\* FAT_Close.  The buffer of the root directory stays as it is.
ClosedFile(h) ==
  IF h = ROOT_DIRECTORY_HANDLE
  THEN [file EXCEPT ![h].Position = 0, ![h].CurrentCluster = file[h].FirstCluster]
  ELSE [file EXCEPT ![h].Opened = FALSE]

-----------------------------------------------------------------------------
(* FAT_Open: from directory to directory.                                  *)

\* start() opens a path; the program's is <<"KERNEL">>.
FAT_Open ==
  /\ pc = "open"
  /\ \E p \in Paths : path' = p /\ opening' = p
  /\ current' = ROOT_DIRECTORY_HANDLE
  /\ pc' = "find"
  /\ KeepDisk /\ UNCHANGED <<file, sought, rd, kernel>>

\* The terminator is written one place too far: a name that has no extension of
\* three letters ends in a byte that nobody has set.
FAT_FindFile ==
  /\ pc = "find"
  /\ sought' \in {Head(path)} \cup IF Head(path) \in Dotted THEN {} ELSE {"garbled"}
  /\ path' = Tail(path)
  /\ FAT_Read(current, 1, "entry")
  /\ KeepDisk /\ UNCHANGED <<file, current, kernel, opening>>

\* An entry that is not the one sought.
FindNext ==
  /\ pc = "entry" /\ rd.out # <<>> /\ EntryAt(rd.out[1]).name # sought
  /\ FAT_Read(current, 1, "entry")
  /\ KeepDisk /\ UNCHANGED <<file, path, current, sought, kernel, opening>>

\* "not found", and FAT_Open returns NULL.
NotFound ==
  /\ pc = "entry" /\ rd.out = <<>>
  /\ file' = ClosedFile(current)
  /\ pc' = "null"
  /\ rd' = NoRead
  /\ KeepDisk /\ UNCHANGED <<path, current, sought, kernel, opening>>

\* FAT_OpenEntry: the first free handle of the table t, and its first sector.
FAT_OpenEntry(t, e) ==
  LET free == {h \in Handles : h >= 0 /\ ~t[h].Opened}
  IN IF free = {}
     THEN file' = t /\ pc' = "null" /\ UNCHANGED <<image, buf, io, faults, failed, current>>
     ELSE \E h \in free :
            /\ \A k \in free : h <= k
            /\ file' = [t EXCEPT ![h] =
                 [Closed EXCEPT !.IsDirectory = e.dir, !.Size = e.size,
                                !.FirstCluster = e.first, !.CurrentCluster = e.first]]
            /\ current' = h
            /\ Read(FAT_ClusterToLba(e.first), h, "opened", "null")

\* Mutant: the directory searched is left open.
FoundMut ==
  /\ pc = "entry" /\ rd.out # <<>> /\ EntryAt(rd.out[1]).name = sought
  /\ FAT_OpenEntry(file, EntryAt(rd.out[1]))
  /\ rd' = NoRead
  /\ UNCHANGED <<geom, path, sought, kernel, opening>>

\* The entry has been found.  The test for a directory that follows in the code
\* is never true: == binds closer than &.
Found ==
  /\ pc = "entry" /\ rd.out # <<>> /\ EntryAt(rd.out[1]).name = sought
  /\ FAT_OpenEntry(ClosedFile(current), EntryAt(rd.out[1]))
  /\ rd' = NoRead
  /\ UNCHANGED <<geom, path, sought, kernel, opening>>

Opened ==
  /\ pc = "opened"
  /\ file' = [file EXCEPT ![current].Opened = TRUE]
  /\ pc' = IF path = <<>> THEN "load" ELSE "find"
  /\ sought' = "garbled"
  /\ KeepDisk /\ UNCHANGED <<path, current, rd, kernel, opening>>

-----------------------------------------------------------------------------
(* The loop of start().                                                    *)

Load == /\ pc = "load"
        /\ FAT_Read(current, LoadSize, "copy")
        /\ KeepDisk /\ UNCHANGED <<file, path, current, sought, kernel, opening>>

\* Whatever was read is appended; nothing read ends the loop.
Copy ==
  /\ pc = "copy"
  /\ rd' = NoRead
  /\ IF rd.out = <<>>
     THEN pc' = "jump" /\ file' = ClosedFile(current) /\ UNCHANGED kernel
     ELSE pc' = "load" /\ kernel' = kernel \o rd.out /\ UNCHANGED file
  /\ KeepDisk /\ UNCHANGED <<path, current, sought, opening>>

Stage2 == \/ DISK_Initialize \/ FAT_ReadFat \/ OpenRoot \/ ReadDone \/ ReadMore
          \/ FAT_Open \/ FAT_FindFile \/ FindNext \/ NotFound \/ Found \/ Opened
          \/ Load \/ Copy
=============================================================================
