------------------------------ MODULE PowerOn -------------------------------
(***************************************************************************)
(* From power-on to the desktop: the loaders, then the kernel they loaded. *)
(***************************************************************************)
EXTENDS Boot, Startup

powerVars == <<bootVars, startVars>>

PowerInit == Init /\ KernelInit

Loading == pc # "kernel" /\ UNCHANGED startVars

\* The jump to the kernel, if that is what has been loaded.  The loaders' memory
\* is not used any more.
EnterKernel ==
  /\ pc = "jump" /\ opening = <<"KERNEL">>
  /\ \E e \in Resolved(opening) : kernel = Content(e)
  /\ pc' = "kernel"
  /\ geom' = Floppy /\ buf' = [b \in Buffers |-> Junk] /\ io' = NoIO
  /\ faults' = 0 /\ failed' = FALSE
  /\ stage2_cluster' = 0 /\ stage2' = <<>>
  /\ file' = [h \in Handles |-> Closed]
  /\ path' = <<>> /\ current' = ROOT_DIRECTORY_HANDLE /\ sought' = "garbled"
  /\ rd' = NoRead /\ kernel' = <<>> /\ opening' = <<>>
  /\ UNCHANGED <<image, startVars>>

Kernel(A) == pc = "kernel" /\ A /\ UNCHANGED bootVars

PowerNext == \/ Loading /\ Next
             \/ EnterKernel
             \/ Kernel(KernelNext)

\* The processor does not stop between two statements, nor the BIOS in a read,
\* nor the serial port before its byte is sent.
PowerSpec == /\ PowerInit /\ [][PowerNext]_powerVars
             /\ WF_powerVars(Loading /\ Processor) /\ WF_powerVars(EnterKernel)
             /\ WF_powerVars(Kernel(Main \/ HandlerStep)) /\ WF_powerVars(Kernel(Transmit))

-----------------------------------------------------------------------------
\* Types, of the loaders' variables and of the kernel's.
PowerTypeOK == BootTypeOK /\ StartTypeOK

\* The machine comes to rest: the loaders with an error, with a program that is
\* not the kernel, or the kernel at its desktop or in a panic.  No wait for the
\* drive or the serial port, and no interrupt, holds it up for ever.
Stops == []<>(pc \in {"jump", "null", "hang", "wait"} \/ at \in Ends)
=============================================================================
