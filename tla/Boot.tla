-------------------------------- MODULE Boot --------------------------------
(***************************************************************************)
(* From power-on to the jump into the kernel: stage 1 loads stage 2, which *)
(* loads the kernel, from one floppy drive that may fail at any read.      *)
(***************************************************************************)
EXTENDS Stage1, Fat

bootVars == <<diskVars, stage1Vars, fatVars>>

Statements ==
  {"disk", "power", "search", "next", "got", "wait",
   "start", "fat", "root", "open", "find", "read", "entry", "opened", "load", "copy",
   "hang", "null", "jump", "kernel"}

FileType == [Opened : BOOLEAN, IsDirectory : BOOLEAN, Position : Nat, Size : Nat,
             FirstCluster : Nat, CurrentCluster : Nat,
             CurrentSectorInCluster : 0 .. SectorsPerCluster - 1]

DiskTypeOK ==
  /\ image \in Images /\ geom \in Drives /\ buf \in [Buffers -> Lbas \cup {Junk}]
  /\ faults \in 0 .. MaxFaults /\ failed \in BOOLEAN
IoTypeOK ==
  io \in [lba : Nat, buf : Buffers, tries : 0 .. 2,
          ok : Statements \cup {"none"}, bad : Statements \cup {"none"}]
Stage1TypeOK == stage2_cluster \in 0 .. 4095 /\ stage2 \in Seq(Lbas)
FatTypeOK ==
  /\ file \in [Handles -> FileType] /\ current \in Handles
  /\ rd.h \in Handles /\ rd.left \in Nat
  /\ kernel \in Seq((Lbas \cup {Junk}) \X (0 .. SectorSize - 1))
BootTypeOK == pc \in Statements /\ DiskTypeOK /\ IoTypeOK /\ Stage1TypeOK /\ FatTypeOK

-----------------------------------------------------------------------------
\* The machine is switched on.
Init ==
  /\ image \in Images /\ pc = "power" /\ geom = Floppy
  /\ buf = [b \in Buffers |-> Junk] /\ io = NoIO /\ faults = 0 /\ failed = FALSE
  /\ stage2_cluster = 0 /\ stage2 = <<>>
  /\ file = [h \in Handles |-> Closed]
  /\ path = <<>> /\ current = ROOT_DIRECTORY_HANDLE /\ sought = "garbled"
  /\ rd = NoRead /\ kernel = <<>> /\ opening = <<>>

Processor == \/ DISK_ReadSectors /\ UNCHANGED <<stage1Vars, fatVars>>
             \/ Stage1 /\ UNCHANGED fatVars
             \/ Stage2 /\ UNCHANGED stage1Vars

Next == Processor \/ (wait_key_and_reboot /\ UNCHANGED fatVars)

BootSpec == Init /\ [][Next]_bootVars

-----------------------------------------------------------------------------
(* Properties.                                                             *)

\* Whatever the drive does, stage 2 is entered only when all its clusters are
\* in memory, in order (load_kernel_loop).
Stage2Whole ==
  pc = "start" =>
    \E e \in Named("STAGE2", RootUnits) :
      stage2 = [k \in 1 .. (e.size + SectorSize - 1) \div SectorSize |->
                  SectorOf(e.first, (k - 1) * SectorSize)]

\* No read has failed for good, and the driver works with the right geometry.
Healthy == ~failed /\ geom = Floppy

\* Faults that a retry has got over do no harm: what start() jumps into is the
\* file, every unit once and in order, whatever its size and its fragments.
KernelWhole ==
  pc = "jump" /\ Healthy => \E e \in Resolved(opening) : kernel = Content(e)

\* Between two calls the buffer of the file holds the sector that the position
\* lies in: FAT_Read fetches it ahead of the next call.
BufferCurrent ==
  pc \in {"find", "entry", "load", "copy"} /\ Healthy =>
    LET f == file[current]
    IN (f.IsDirectory /\ f.Size = 0) \/ f.Position < f.Size =>
         buf[current] = IF current = ROOT_DIRECTORY_HANDLE
                        THEN RootLba + f.Position \div SectorSize
                        ELSE SectorOf(f.FirstCluster, f.Position)

\* FAT_Open fails only for a file that is not there.
NullMeansAbsent ==
  pc = "null" /\ Healthy /\ sought # "garbled" => Resolved(opening) = {}

\* The driver uses up no handle: only the directory or file in use is open, and
\* none once start() is done or has failed.
HandlesBalanced ==
  LET open == {h \in Handles : h >= 0 /\ file[h].Opened}
  IN open \subseteq IF pc \in {"jump", "null", "hang"} THEN {} ELSE {current}

\* "load kernel" and "execute kernel": what is executed is the kernel.
KernelLoaded ==
  pc = "jump" => \E e \in Resolved(opening) : kernel = Content(e)
=============================================================================
