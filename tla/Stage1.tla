------------------------------- MODULE Stage1 -------------------------------
(***************************************************************************)
(* bootloader/stage1/boot.asm: it looks for STAGE2.BIN in the root         *)
(* directory and loads it cluster by cluster.  Any error ends in           *)
(* floppy_error, which waits for a key and starts again.                   *)
(***************************************************************************)
EXTENDS Disk

CONSTANT DataBias      \* the "hardcoded value" 31

\* What stage 1 takes for granted about the file system.
ASSUME Stage1Assumption ==
  SectorsPerCluster = 1 /\ DataBias = g_DataSectionLba - 2

VARIABLES
  stage2_cluster,
  stage2     \* the sectors in memory from STAGE2_LOAD_OFFSET on

stage1Vars == <<stage2_cluster, stage2>>

\* int 13h, function 8, may fail like every other.
GetDriveParams ==
  /\ pc = "power"
  /\ \/ geom' = Floppy /\ Read(RootLba, FatBuffer, "search", "wait")
     \/ /\ faults < MaxFaults /\ faults' = faults + 1
        /\ pc' = "wait"
        /\ UNCHANGED <<image, geom, buf, io, failed>>
  /\ UNCHANGED stage1Vars

\* The first entry of that name in the buffer; then the FAT is read over it.
search_kernel ==
  /\ pc = "search"
  /\ LET found == Named("STAGE2", {u \in RootUnits : buf[FatBuffer] = RootLba})
     IN IF found = {}
        THEN pc' = "wait" /\ UNCHANGED <<image, buf, io, faults, failed, stage2_cluster>>
        ELSE /\ \E e \in found : stage2_cluster' = e.first
             /\ Read(FatLba, FatBuffer, "next", "wait")
  /\ UNCHANGED <<geom, stage2>>

load_kernel_loop ==
  /\ pc = "next"
  /\ Read(stage2_cluster + DataBias, SectorBuffer, "got", "wait")
  /\ UNCHANGED <<geom, stage1Vars>>

\* Mutant: the chain is left one cluster too early.
next_cluster_afterMut ==
  /\ pc = "got"
  /\ stage2' = Append(stage2, buf[SectorBuffer])
  /\ LET next == FAT_NextCluster(stage2_cluster)
     IN IF next >= EndOfChain \/ FAT_NextCluster(next) >= EndOfChain
        THEN pc' = "start" /\ stage2_cluster' = 0
        ELSE pc' = "next" /\ stage2_cluster' = next
  /\ UNCHANGED <<image, geom, buf, io, faults, failed>>

\* The next cluster, or the jump to stage 2.
next_cluster_after ==
  /\ pc = "got"
  /\ stage2' = Append(stage2, buf[SectorBuffer])
  /\ LET next == FAT_NextCluster(stage2_cluster)
     IN IF next >= EndOfChain
        THEN pc' = "start" /\ stage2_cluster' = 0
        ELSE pc' = "next" /\ stage2_cluster' = next
  /\ UNCHANGED <<image, geom, buf, io, faults, failed>>

\* disk_reset, between two tries, fails: no further try.
ResetFails ==
  /\ pc = "disk" /\ io.bad = "wait" /\ io.tries > 0
  /\ faults < MaxFaults /\ faults' = faults + 1
  /\ pc' = "wait" /\ io' = NoIO
  /\ UNCHANGED <<image, geom, buf, failed, stage1Vars>>

Stage1 == \/ GetDriveParams \/ search_kernel \/ load_kernel_loop
          \/ next_cluster_after \/ ResetFails

\* The user presses a key.
wait_key_and_reboot ==
  /\ pc = "wait"
  /\ pc' = "power" /\ stage2_cluster' = 0 /\ stage2' = <<>>
  /\ failed' = FALSE /\ buf' = [b \in Buffers |-> Junk]
  /\ UNCHANGED <<image, geom, io, faults>>
=============================================================================
