---------------------------- MODULE StartupProofs ----------------------------
(***************************************************************************)
(* Proofs about the start of the kernel, for screens, messages, addresses  *)
(* and interrupts of every number: the cursor, the serial port and the     *)
(* interrupts in service.                                                  *)
(***************************************************************************)
EXTENDS Startup, FiniteSetTheorems, TLAPS

(* The inductive invariant, in five parts.                                 *)

\* Where the main thread can be.  After a halt it is not anywhere.
Stores == {"flags", "high"}
ControlInv ==
  /\ out \in Seq(STRING)
  /\ at \notin Halts =>
       /\ put \in Stores => at \in {"gate44", "gate33"}
       /\ put \notin Stores \cup {"idle"} => at \in Messages
       /\ at = "direct" => out # <<>>

\* What the cursor and the main thread's copies of it may be, place by place.
CursorInv ==
  /\ g_VgaX \in 0 .. VGA_WIDTH /\ g_VgaY \in 0 .. VGA_HEIGHT
  /\ put \notin {"width", "wrap"} => g_VgaX < VGA_WIDTH
  /\ put \notin {"wait2", "send2", "width", "height", "scroll", "up"} => g_VgaY < VGA_HEIGHT
  /\ put = "width" => g_VgaX < VGA_WIDTH \/ g_VgaY < VGA_HEIGHT
  /\ put = "scroll" => g_VgaY >= VGA_HEIGHT - 1
  /\ put \in {"next", "wrapnext", "col", "cell"} => r \in 0 .. VGA_HEIGHT - 1
  /\ put \in {"cell", "step"} => k \in 0 .. VGA_WIDTH - 1
  /\ put = "up" => r \in VGA_HEIGHT - 1 .. VGA_HEIGHT

\* What has been set up before a statement is reached.
Disabled == {"boot", "direct", "gates", "enable", "pic", "register", "sti", "reset", "panic"}
Late == {"hook", "done"}
GateOK(v) == /\ g_IDT[v].present /\ g_IDT[v].high = Address["generated"].high
             /\ \E s \in Stubs : g_IDT[v].low = Address[s].low
             /\ v \notin {33, 44} => g_IDT[v].low = Address["generated"].low
TablesInv ==
  /\ g_IDT \in [Vectors -> [low : {0} \cup {Address[s].low : s \in Stubs},
                            high : {0, Address["generated"].high}, present : BOOLEAN]]
  /\ enabled \/ at \in Disabled
  /\ enabled => at \notin Disabled \ {"panic"}
  /\ at # "wild"
  /\ at = "enable" => \A v \in Vectors : /\ g_IDT[v].low = Address["generated"].low
                                         /\ g_IDT[v].high = Address["generated"].high
  /\ enabled \/ at \in {"pic", "register", "sti"} => \A v \in Vectors : GateOK(v)
  /\ \/ \A v \in Vectors : ~g_IDT[v].present
     \/ \A v \in Vectors : GateOK(v)
  /\ NMI \notin g_ISRHandlers
  /\ enabled \/ at = "sti" => g_ISRHandlers = Vectors \ {NMI}
  /\ enabled \/ at \in {"register", "sti"} => imr = {}
  /\ enabled /\ at # "timer" /\ at # "panic" => timer
  /\ (put \in Stores /\ at = "gate44")
       \/ at \in {"unmask12", "keyboard", "init", "gate33", "unmask1"} \cup Late
       => g_IDT[44].low = Address["mouse"].low
  /\ (put \in Stores /\ at = "gate33") \/ at \in {"unmask1"} \cup Late
       => g_IDT[33].low = Address["keyboard"].low

\* Only the interrupt that is being handled is in service.
Phases == {"none", "eoi", "iret", "panic", "reset"}
Handling == [vector : Nat, say : Seq(Characters), then : Phases]
ServiceInv ==
  /\ handler \in Handling
  /\ irr \subseteq 0 .. 15
  /\ \/ handler = Idle
     \/ handler.then \in {"eoi", "iret", "reset", "panic"}
  /\ handler.then = "eoi" => /\ handler.vector \in {Offset + i : i \in 0 .. 15}
                             /\ LET i == handler.vector - Offset
                                IN isr = {} \/ isr = {i, Level(i)}
  /\ handler.then # "eoi" => isr = {}
  /\ handler.then = "reset" => ~enabled

\* The bytes lost, and those that may still be: one for each interrupt that is
\* requested, one for the handler at work or for a byte that the next one meets in
\* the transmitter, and what "Boot" still has to overrun.
Exposed == at \in {"boot", "direct"} \/ put \in {"send", "send2"}
Met == IF handler # Idle \/ (Exposed /\ thr) THEN 1 ELSE 0
BootLength == Len(Text.boot)
Owed == CASE at = "boot" -> BootLength - 1 [] at = "direct" -> Len(out) - 1 [] OTHER -> 0
SerialInv ==
  /\ lost \in Nat /\ events \in Nat
  /\ lost + Cardinality(irr) + Met + Owed <= BootLength - 1 + events
StartInv == ControlInv /\ CursorInv /\ TablesInv /\ ServiceInv /\ SerialInv

-----------------------------------------------------------------------------
LEMMA HandlingOK ==
  /\ <<>> \in Seq(Characters)
  /\ Seq(STRING) \subseteq Seq(Characters)
  /\ \A v \in Nat, say \in Seq(Characters), then \in Phases :
       [vector |-> v, say |-> say, then |-> then] \in Handling
  /\ \A h \in Handling : /\ h.vector \in Nat /\ h.say \in Seq(Characters) /\ h.then \in Phases
                         /\ \A say \in Seq(Characters), then \in Phases :
                              /\ [h EXCEPT !.say = say] \in Handling
                              /\ [h EXCEPT !.then = then] \in Handling
                              /\ [h EXCEPT !.say = say].vector = h.vector
                              /\ [h EXCEPT !.say = say].then = h.then
                              /\ [h EXCEPT !.then = then].then = then
<1>1. <<>> \in Seq(Characters)
  OBVIOUS
<1>2. \A S, T : S \subseteq T => Seq(S) \subseteq Seq(T)
  OBVIOUS
<1>3. STRING \subseteq Characters
  BY DEF Characters
<1>4. ASSUME NEW S
      PROVE  /\ \A v \in Nat, say \in S, then \in Phases :
                  [vector |-> v, say |-> say, then |-> then]
                  \in [vector : Nat, say : S, then : Phases]
             /\ \A h \in [vector : Nat, say : S, then : Phases] :
                  /\ h.vector \in Nat /\ h.say \in S /\ h.then \in Phases
                  /\ \A say \in S, then \in Phases :
                       /\ [h EXCEPT !.say = say] \in [vector : Nat, say : S, then : Phases]
                       /\ [h EXCEPT !.then = then] \in [vector : Nat, say : S, then : Phases]
                       /\ [h EXCEPT !.say = say].vector = h.vector
                       /\ [h EXCEPT !.say = say].then = h.then
                       /\ [h EXCEPT !.then = then].then = then
  OBVIOUS
<1>. QED BY <1>1, <1>2, <1>3, <1>4, Zenon DEF Handling

LEMMA IdleOK == Idle \in Handling /\ Idle.then = "none"
<1>1. 0 \in Nat /\ "none" \in Phases
  BY DEF Phases
<1>. QED BY <1>1, HandlingOK DEF Idle

LEMMA StartInvInit == KernelInit => StartInv
<1>. SUFFICES ASSUME KernelInit PROVE StartInv
  OBVIOUS
<1>0. at = "boot" /\ put = "idle" /\ out = <<>> /\ g_VgaX = 0 /\ g_VgaY = 0
  BY DEF KernelInit
<1>1. ControlInv
  BY <1>0 DEF ControlInv, Stores, Halts
<1>2. CursorInv
  BY <1>0, StartupAssumption DEF CursorInv, StartupAssumption
<1>3. TablesInv
  <2>1. g_IDT = [v \in Vectors |-> NoGate] /\ ~enabled /\ g_ISRHandlers = {}
    BY DEF KernelInit
  <2>. QED BY <1>0, <2>1 DEF TablesInv, NoGate, Disabled, Stores, Late
<1>4. ServiceInv
  <2>1. handler = Idle /\ isr = {} /\ irr = {}
    BY DEF KernelInit
  <2>. QED BY <2>1, IdleOK DEF ServiceInv, Idle
<1>5. SerialInv
  <2>1. lost = 0 /\ events = 0 /\ irr = {} /\ handler = Idle /\ ~thr
    BY DEF KernelInit
  <2>2. Met = 0 /\ Owed = BootLength - 1 /\ Cardinality(irr) = 0
    BY <1>0, <2>1, FS_EmptySet DEF Met, Owed
  <2>3. BootLength \in Nat
    BY StartupAssumption DEF StartupAssumption, BootLength
  <2>. QED BY <2>1, <2>2, <2>3 DEF SerialInv
<1>. QED BY <1>1, <1>2, <1>3, <1>4, <1>5 DEF StartInv

-----------------------------------------------------------------------------
(* Where the main thread is.                                               *)

\* vga_putc stays in its statement.
LEMMA PutcPlace ==
  ASSUME vga_putc
  PROVE  /\ Running /\ at' = at /\ out' = out /\ KeepRest
         /\ put \notin Stores \cup {"idle"} /\ put' \notin Stores
<1>. USE DEF vga_putc, WaitChar, SendChar, NewLine, WaitReturn, SendReturn, PutEntry,
     TestWidth, Wrap, TestHeight, vga_scroll, Ready, Send, LoadX, LoadY, StoreX, StoreY,
     Place
<1>1. at' = at /\ out' = out
  BY DEF KeepText
<1>2. Running /\ KeepRest
  OBVIOUS
<1>3. put \notin Stores \cup {"idle"} /\ put' \notin Stores
  BY DEF Stores
<1>. QED BY <1>1, <1>2, <1>3

LEMMA ControlStep == StartInv /\ [KernelNext]_startVars => ControlInv'
<1>. SUFFICES ASSUME StartInv, [KernelNext]_startVars PROVE ControlInv'
  OBVIOUS
<1>. USE StartupAssumption DEF StartupAssumption, StartInv, ControlInv, Stores, Halts
<1>1. CASE UNCHANGED startVars
  BY <1>1 DEF startVars, mainVars
<1>9. CASE ClearMemory
  BY <1>9 DEF ClearMemory, Statement
<1>10. CASE DirectWrite
  <2>1. out # <<>> /\ out' = Tail(out) /\ put' = "idle" /\ at' \notin Halts
        /\ at' = (IF Len(out) = 1 THEN "gates" ELSE "direct")
    BY <1>10 DEF DirectWrite, Statement
  <2>2. Tail(out) \in Seq(STRING) /\ Len(Tail(out)) = Len(out) - 1 /\ Len(out) \in Nat
    BY <2>1
  <2>3. Len(out) # 1 => Tail(out) # <<>>
    BY <2>2
  <2>. QED BY <2>1, <2>2, <2>3 DEF Messages
<1>2. CASE \/ i686_ISR_InitializeGates \/ i686_IDT_EnableGate
           \/ i686_PIC_Configure \/ i686_ISR_RegisterHandler \/ i686_EnableInterrupts
           \/ i686_IRQ_RegisterHandler \/ vga_clrscr \/ vga_set_putc_hook
  BY <1>2 DEF i686_ISR_InitializeGates, i686_IDT_EnableGate,
     i686_PIC_Configure, i686_ISR_RegisterHandler, i686_EnableInterrupts,
     i686_IRQ_RegisterHandler, vga_clrscr, vga_set_putc_hook, Statement, KeepPutc
<1>3. CASE Drivers
  BY <1>3 DEF Drivers, SetGate, i686_PIC_Unmask, Statement, KeepPutc
<1>4. CASE Say
  <2>1. at \in Messages /\ Text[at] \in Seq(STRING)
    BY <1>4 DEF Say
  <2>. QED BY <1>4, <2>1 DEF Say, Place, Messages
<1>5. CASE vga_puts
  <2>1. out # <<>> => Head(out) \in STRING /\ Tail(out) \in Seq(STRING)
    OBVIOUS
  <2>2. at \in Messages /\ at' \in {at, After[at]} /\ put' \in {"idle", "wait"}
        /\ (put' = "wait" => at' = at) /\ out' \in Seq(STRING)
    BY <1>5, <2>1 DEF vga_puts, Running, Alive, Ends, Halts
  <2>3. at' # "direct"
    BY <2>2 DEF Messages, After
  <2>. QED BY <2>2, <2>3
<1>6. CASE vga_putc
  BY <1>6, PutcPlace DEF Running, Alive, Ends, Halts
<1>7. CASE HandlerPutc \/ EndOfInterrupt \/ Return \/ Transmit \/ Interrupts
  BY <1>7 DEF HandlerPutc, EndOfInterrupt, Return, Transmit, Interrupts, Request, Accept,
     Spurious, NonMaskable, Enter, KeepMain, mainVars
<1>8. CASE Halt
  BY <1>8 DEF Halt, Halts
<1>. QED BY <1>1, <1>2, <1>3, <1>4, <1>5, <1>6, <1>7, <1>8, <1>9, <1>10
         DEF KernelNext, Main, HandlerStep

-----------------------------------------------------------------------------
(* The cursor.                                                             *)

\* A handler's character, wherever it finds the cursor.
LEMMA HandlerCursor ==
  ASSUME CursorInv, HandlerPutc
  PROVE  /\ put' = put /\ r' = r /\ k' = k
         /\ \/ g_VgaX' = g_VgaX /\ g_VgaY' = g_VgaY
            \/ /\ g_VgaX' \in 0 .. VGA_WIDTH - 1
               /\ g_VgaY' \in 0 .. VGA_HEIGHT
               /\ g_VgaY < VGA_HEIGHT => g_VgaY' < VGA_HEIGHT
               /\ g_VgaY >= VGA_HEIGHT - 1 => g_VgaY' >= VGA_HEIGHT - 1
<1>. USE StartupAssumption DEF StartupAssumption, CursorInv
<1>1. put' = put /\ r' = r /\ k' = k
  BY DEF HandlerPutc, KeepMain, mainVars
<1>2. CASE UNCHANGED screen
  BY <1>1, <1>2 DEF screen
<1>3. CASE /\ g_VgaX' = IF Column >= VGA_WIDTH THEN 0 ELSE Column
           /\ g_VgaY' = IF Row >= VGA_HEIGHT THEN Row - 1 ELSE Row
  <2>1. Column \in 0 .. VGA_WIDTH + 1 /\ Row \in g_VgaY .. g_VgaY + 1
    BY DEF Column, Row
  <2>. HIDE DEF Column, Row
  <2>. QED BY <1>1, <1>3, <2>1
<1>. QED BY <1>2, <1>3 DEF HandlerPutc

LEMMA CursorPutc == ASSUME CursorInv, vga_putc PROVE CursorInv'
<1>. USE StartupAssumption DEF StartupAssumption, CursorInv, Place
<1>1. CASE WaitChar \/ WaitReturn
  BY <1>1 DEF WaitChar, WaitReturn, Ready, KeepRegisters, screen
<1>2. CASE SendChar \/ SendReturn
  <2>1. /\ UNCHANGED <<r, k, screen>>
        /\ \/ put = "send" /\ put' \in {"home", "row"}
           \/ put = "send2" /\ put' = "width"
    BY <1>2 DEF SendChar, SendReturn, Send, KeepRegisters, Newline
  <2>. QED BY <2>1 DEF screen
<1>3. CASE NewLine
  BY <1>3 DEF NewLine, StoreX, LoadY, StoreY, KeepRegisters, screen
<1>4. CASE PutEntry
  BY <1>4 DEF PutEntry, LoadX, LoadY, StoreX, KeepRegisters, screen
<1>5. CASE TestWidth
  BY <1>5 DEF TestWidth, KeepRegisters, screen
<1>6. CASE Wrap
  BY <1>6 DEF Wrap, StoreX, LoadY, StoreY, KeepRegisters, screen
<1>7. CASE TestHeight
  <2>1. /\ g_VgaX' = g_VgaX /\ g_VgaY' = g_VgaY /\ put = "height"
        /\ \/ g_VgaY >= VGA_HEIGHT /\ put' = "scroll"
           \/ ~(g_VgaY >= VGA_HEIGHT) /\ put' = "char"
    BY <1>7 DEF TestHeight, screen
  <2>. QED BY <2>1
<1>8. CASE vga_scroll
  BY <1>8 DEF vga_scroll, LoadY, screen
<1>. QED BY <1>1, <1>2, <1>3, <1>4, <1>5, <1>6, <1>7, <1>8 DEF vga_putc

LEMMA CursorStep == StartInv /\ [KernelNext]_startVars => CursorInv'
<1>. SUFFICES ASSUME StartInv, [KernelNext]_startVars PROVE CursorInv'
  OBVIOUS
<1>. USE StartupAssumption DEF StartupAssumption
<1>1. CASE UNCHANGED <<put, r, k, screen>>
  BY <1>1 DEF StartInv, CursorInv, screen
<1>2. CASE UNCHANGED startVars
  BY <1>1, <1>2 DEF startVars, mainVars
<1>3. CASE ClearMemory \/ DirectWrite \/ vga_clrscr
  BY <1>3 DEF ClearMemory, DirectWrite, vga_clrscr, screen, Statement, KeepPutc, StartInv, CursorInv
<1>4. CASE \/ i686_ISR_InitializeGates \/ i686_IDT_EnableGate
           \/ i686_PIC_Configure \/ i686_ISR_RegisterHandler \/ i686_EnableInterrupts
           \/ i686_IRQ_RegisterHandler \/ vga_set_putc_hook
  BY <1>1, <1>4 DEF i686_ISR_InitializeGates, i686_IDT_EnableGate,
     i686_PIC_Configure, i686_ISR_RegisterHandler, i686_EnableInterrupts,
     i686_IRQ_RegisterHandler, vga_set_putc_hook, KeepPutc
<1>5. CASE Drivers
  BY <1>5 DEF Drivers, SetGate, i686_PIC_Unmask, Statement, KeepPutc, screen, StartInv, CursorInv
<1>6. CASE Say \/ vga_puts
  BY <1>6 DEF Say, vga_puts, Place, screen, StartInv, CursorInv
<1>7. CASE vga_putc
  BY <1>7, CursorPutc DEF StartInv
<1>8. CASE HandlerPutc
  BY <1>8, HandlerCursor DEF StartInv, CursorInv
<1>9. CASE EndOfInterrupt \/ Return \/ Halt \/ Transmit \/ Interrupts
  BY <1>1, <1>9 DEF EndOfInterrupt, Return, Halt, Transmit, Interrupts, Request, Accept,
     Spurious, NonMaskable, Enter, KeepMain, mainVars
<1>. QED BY <1>2, <1>3, <1>4, <1>5, <1>6, <1>7, <1>8, <1>9 DEF KernelNext, Main, HandlerStep

-----------------------------------------------------------------------------
(* The serial port.                                                        *)

\* The interrupts requested are few.
LEMMA RequestedFinite ==
  ASSUME ServiceInv
  PROVE  /\ IsFiniteSet(irr) /\ Cardinality(irr) \in Nat
         /\ \A i : /\ Cardinality(irr \cup {i}) <= Cardinality(irr) + 1
                   /\ i \in irr => Cardinality(irr \ {i}) = Cardinality(irr) - 1
                   /\ Cardinality(irr \cup {i}) \in Nat /\ Cardinality(irr \ {i}) \in Nat
<1>1. IsFiniteSet(irr)
  <2>1. 0 \in Int /\ 15 \in Int
    OBVIOUS
  <2>2. IsFiniteSet(0 .. 15)
    BY <2>1, FS_Interval, Zenon
  <2>. QED BY <2>2, FS_Subset DEF ServiceInv
<1>2. ASSUME NEW i
      PROVE  /\ Cardinality(irr \cup {i}) = IF i \in irr THEN Cardinality(irr)
                                           ELSE Cardinality(irr) + 1
             /\ Cardinality(irr \ {i}) = IF i \in irr THEN Cardinality(irr) - 1
                                         ELSE Cardinality(irr)
             /\ IsFiniteSet(irr \cup {i}) /\ IsFiniteSet(irr \ {i})
  BY <1>1, FS_AddElement, FS_RemoveElement
<1>3. Cardinality(irr) \in Nat
  BY <1>1, FS_CardinalityType
<1>4. ASSUME NEW i PROVE Cardinality(irr \cup {i}) \in Nat /\ Cardinality(irr \ {i}) \in Nat
  BY <1>2, FS_CardinalityType
<1>. QED BY <1>1, <1>2, <1>3, <1>4

LEMMA SerialStep == StartInv /\ [KernelNext]_startVars => SerialInv'
<1>. SUFFICES ASSUME StartInv, [KernelNext]_startVars PROVE SerialInv'
  OBVIOUS
<1>0. /\ SerialInv /\ ServiceInv /\ ControlInv
      /\ Cardinality(irr) \in Nat /\ BootLength \in Nat \ {0}
      /\ Met \in 0 .. 1 /\ Met' \in 0 .. 1
  BY RequestedFinite, StartupAssumption DEF StartInv, StartupAssumption, Met, BootLength
<1>a. Running => handler = Idle
  BY DEF Running
<1>b. Owed \in Nat
  <2>1. at = "direct" => Len(out) \in Nat \ {0}
    BY <1>0 DEF ControlInv, Halts
  <2>. QED BY <1>0, <2>1 DEF Owed
<1>c. /\ lost \in Nat /\ events \in Nat /\ Met \in Nat /\ Met <= 1
      /\ Met' \in Nat /\ Met' <= 1
      /\ Cardinality(irr) \in Nat /\ BootLength \in Nat /\ Owed \in Nat
      /\ lost + Cardinality(irr) + Met + Owed <= BootLength - 1 + events
  BY <1>0, <1>b DEF SerialInv
\* What is to be shown.
<1>d. ASSUME lost' \in Nat, events' \in Nat,
             lost' + Cardinality(irr)' + Met' + Owed' <= BootLength - 1 + events'
      PROVE  SerialInv'
  BY <1>d DEF SerialInv
<1>1. CASE UNCHANGED <<at, put, out, uart, irr, handler, events>>
  <2>1. Met' = Met /\ Owed' = Owed
    BY <1>1 DEF uart, Met, Exposed, Owed
  <2>. QED BY <1>0, <1>1, <2>1 DEF uart, SerialInv
<1>2. CASE UNCHANGED startVars
  BY <1>1, <1>2 DEF startVars, mainVars, pic
\* Away from "boot" and from the places before a byte, nothing is lost, and there
\* is nothing to meet.
<1>3. ASSUME UNCHANGED <<lost, handler, events>>, Running, irr' = irr \/ irr' = {},
             at' \notin {"boot", "direct"}, put' \notin {"send", "send2"}
      PROVE  SerialInv'
  <2>1. Met' = 0 /\ Owed' = 0
    BY <1>3, <1>a DEF Met, Exposed, Owed
  <2>2. Cardinality(irr)' \in Nat /\ Cardinality(irr)' <= Cardinality(irr)
    <3>1. CASE irr' = irr
      BY <1>c, <3>1
    <3>2. CASE irr' = {}
      <4>1. Cardinality(irr)' = 0
        BY <3>2, FS_EmptySet
      <4>. QED BY <1>c, <4>1
    <3>. QED BY <1>3, <3>1, <3>2
  <2>. QED BY <1>c, <1>d, <1>3, <2>1, <2>2
<1>4. CASE ClearMemory
  <2>1. /\ at = "boot" /\ at' = "direct" /\ out' = Text.boot
        /\ UNCHANGED <<put, thr, lost, irr, handler, events>>
    BY <1>4 DEF ClearMemory, Statement, uart, pic
  <2>2. Owed = BootLength - 1 /\ Owed' = BootLength - 1 /\ Met' = Met
    BY <2>1 DEF Owed, Met, Exposed, BootLength
  <2>. QED BY <1>c, <1>d, <2>1, <2>2
<1>5. CASE DirectWrite
  <2>1. /\ at = "direct" /\ at' = (IF Len(out) = 1 THEN "gates" ELSE "direct")
        /\ out' = Tail(out) /\ Transmitted /\ put = "idle" /\ put' = "idle" /\ handler = Idle
        /\ UNCHANGED <<irr, handler, events>>
    BY <1>5, <1>a DEF DirectWrite, Statement, pic
  <2>2. Len(out) \in Nat \ {0} /\ Len(Tail(out)) = Len(out) - 1
    BY <1>0, <2>1 DEF ControlInv, Halts
  <2>3. Met = IF thr THEN 1 ELSE 0
    BY <2>1 DEF Met, Exposed
  <2>4. lost' = lost + Met
    BY <1>c, <2>1, <2>3 DEF Transmitted
  <2>5. /\ Cardinality(irr)' \in Nat /\ events' \in Nat
        /\ Cardinality(irr)' = Cardinality(irr) /\ events' = events
    BY <1>c, <2>1
  <2>6. CASE Len(out) = 1
    <3>1. Owed = 0 /\ Owed' = 0 /\ Met' = 0
      BY <2>1, <2>6 DEF Owed, Met, Exposed
    <3>. QED BY <1>c, <1>d, <2>4, <2>5, <3>1
  <2>7. CASE Len(out) # 1
    <3>1. Len(out') = Len(out) - 1 /\ at' = "direct"
      BY <2>1, <2>2, <2>7
    <3>2. Owed' = Owed - 1 /\ Owed' \in Nat
      BY <2>1, <2>2, <2>7, <3>1 DEF Owed
    <3>. QED BY <1>c, <1>d, <2>4, <2>5, <3>2
  <2>. QED BY <2>6, <2>7
<1>6. CASE WaitChar \/ WaitReturn
  <2>1. UNCHANGED <<at, out, thr, lost, irr, handler, events>> /\ ~thr /\ Running
    BY <1>6 DEF WaitChar, WaitReturn, Ready, Place, KeepText, KeepRest, uart, pic
  <2>2. Met' = 0 /\ Owed' = Owed
    BY <1>a, <2>1 DEF Met, Owed
  <2>. QED BY <1>c, <1>d, <2>1, <2>2
<1>7. CASE SendChar \/ SendReturn
  <2>1. /\ put \in {"send", "send2"} /\ put' \notin {"send", "send2"}
        /\ UNCHANGED <<at, out, irr, handler, events>> /\ Transmitted /\ Running
    BY <1>7 DEF SendChar, SendReturn, Send, Place, KeepText, KeepRest, pic
  <2>2. at \notin {"boot", "direct"}
    BY <1>0, <2>1 DEF ControlInv, Stores, Messages, Running, Alive, Ends
  <2>3. Met = (IF thr THEN 1 ELSE 0) /\ Met' = 0 /\ Owed' = 0
    BY <1>a, <2>1, <2>2 DEF Met, Exposed, Owed
  <2>4. lost' = lost + Met
    BY <1>c, <2>1, <2>3 DEF Transmitted
  <2>. QED BY <1>c, <1>d, <2>1, <2>3, <2>4
<1>8. CASE NewLine \/ PutEntry \/ TestWidth \/ Wrap \/ TestHeight \/ vga_scroll
  <2>1. /\ put' \notin {"send", "send2"} /\ UNCHANGED <<at, lost, irr, handler, events>>
        /\ put \notin Stores \cup {"idle"} /\ Running
    BY <1>8 DEF NewLine, PutEntry, TestWidth, Wrap, TestHeight, vga_scroll, LoadX, LoadY,
       StoreX, StoreY, Place, KeepText, KeepRest, uart, pic, Stores
  <2>2. at \notin {"boot", "direct"}
    BY <1>0, <2>1 DEF ControlInv, Messages, Running, Alive, Ends
  <2>. QED BY <1>3, <2>1, <2>2
<1>9. CASE Say \/ vga_puts
  <2>1. /\ put' \notin {"send", "send2"} /\ UNCHANGED <<lost, irr, handler, events>> /\ Running
        /\ at \in Messages /\ at' \in {at, After[at]}
    BY <1>0, <1>9 DEF Say, vga_puts, Place, KeepRest, uart, pic, ControlInv, Stores, Running, Alive,
       Ends
  <2>2. at' \notin {"boot", "direct"}
    BY <2>1 DEF Messages, After
  <2>. QED BY <1>3, <2>1, <2>2
<1>10. CASE \/ i686_ISR_InitializeGates \/ i686_IDT_EnableGate
            \/ i686_PIC_Configure \/ i686_ISR_RegisterHandler \/ i686_EnableInterrupts
            \/ i686_IRQ_RegisterHandler \/ vga_clrscr \/ vga_set_putc_hook
  <2>1. /\ put' = "idle" /\ at' \notin {"boot", "direct"} /\ Running
        /\ UNCHANGED <<lost, handler, events>> /\ (irr' = irr \/ irr' = {})
    BY <1>10 DEF i686_ISR_InitializeGates, i686_IDT_EnableGate,
       i686_PIC_Configure, i686_ISR_RegisterHandler, i686_EnableInterrupts,
       i686_IRQ_RegisterHandler, vga_clrscr, vga_set_putc_hook, Statement, KeepPutc, uart, pic
  <2>. QED BY <1>3, <2>1
<1>11. CASE Drivers
  <2>1. /\ put' \in {"idle", "flags", "high"} /\ at' \notin {"boot", "direct"} /\ Running
        /\ UNCHANGED <<lost, irr, handler, events>>
    BY <1>11 DEF Drivers, SetGate, i686_PIC_Unmask, Statement, KeepPutc, uart, pic
  <2>. QED BY <1>3, <2>1
\* A handler at work counts for one byte already.
<1>12. ASSUME handler # Idle, UNCHANGED <<lost, irr, events>>, Owed' <= Owed, Owed' \in Nat
       PROVE  SerialInv'
  <2>1. Met = 1
    BY <1>12 DEF Met
  <2>. QED BY <1>c, <1>d, <1>12, <2>1
<1>13. CASE HandlerPutc
  <2>1. handler # Idle /\ ~thr /\ Transmitted /\ UNCHANGED <<at, out, irr, events>>
    BY <1>13 DEF HandlerPutc, Printing, KeepMain, mainVars, pic, Idle
  <2>2. Owed' = Owed
    BY <2>1 DEF Owed
  <2>. QED BY <1>12, <1>c, <2>1, <2>2 DEF Transmitted
<1>14. CASE EndOfInterrupt \/ Return
  <2>1. handler # Idle /\ UNCHANGED <<at, out, lost, irr, events>>
    BY <1>14 DEF EndOfInterrupt, Return, At, KeepMain, mainVars, uart, pic, Idle
  <2>2. Owed' = Owed
    BY <2>1 DEF Owed
  <2>. QED BY <1>12, <1>c, <2>1, <2>2
<1>15. CASE Halt
  <2>1. handler # Idle /\ UNCHANGED <<lost, irr, events>> /\ at' \notin {"boot", "direct"}
    BY <1>15 DEF Halt, Halts, Idle, uart, pic
  <2>2. Owed' = 0
    BY <2>1 DEF Owed
  <2>. QED BY <1>12, <1>c, <2>1, <2>2
<1>16. CASE Transmit
  <2>1. UNCHANGED <<at, put, out, lost, irr, handler, events>> /\ thr /\ ~thr'
    BY <1>16 DEF Transmit, KeepMain, mainVars, pic
  <2>2. Met' <= Met /\ Owed' = Owed
    BY <2>1 DEF Met, Exposed, Owed
  <2>. QED BY <1>c, <1>d, <2>1, <2>2
<1>17. CASE Interrupts
  <2>1. UNCHANGED <<at, put, out, thr, lost>>
    BY <1>17 DEF Interrupts, Request, Accept, Spurious, NonMaskable, Enter, KeepMain, mainVars, uart
  <2>2. Owed' = Owed
    BY <2>1 DEF Owed
  <2>3. CASE Request
    <3>1. PICK i \in Lines : irr' = irr \cup {i}
      BY <2>3 DEF Request
    <3>2. Met' = Met /\ events' = events + 1
      BY <2>1, <2>3 DEF Request, Event, Met, Exposed
    <3>3. Cardinality(irr)' \in Nat /\ Cardinality(irr)' <= Cardinality(irr) + 1
      <4>1. /\ Cardinality(irr \cup {i}) <= Cardinality(irr) + 1
            /\ Cardinality(irr \cup {i}) \in Nat
        BY <1>0, <3>1, RequestedFinite, Zenon
      <4>. QED BY <3>1, <4>1
    <3>4. lost' = lost
      BY <2>1
    <3>5. lost' + Cardinality(irr)' + Met' + Owed' <= BootLength - 1 + events'
      BY <1>c, <2>2, <3>2, <3>3, <3>4
    <3>. QED BY <1>c, <1>d, <3>2, <3>4, <3>5
  <2>4. CASE Accept
    <3>1. PICK i \in irr : irr' = irr \ {i}
      BY <2>4 DEF Accept
    <3>2. events' = events
      BY <2>4 DEF Accept
    <3>3. Cardinality(irr)' = Cardinality(irr) - 1 /\ Cardinality(irr)' \in Nat
      <4>1. /\ Cardinality(irr \ {i}) = Cardinality(irr) - 1
            /\ Cardinality(irr \ {i}) \in Nat
        BY <1>0, <3>1, RequestedFinite, Zenon
      <4>. QED BY <3>1, <4>1
    <3>4. lost' = lost
      BY <2>1
    <3>5. lost' + Cardinality(irr)' + Met' + Owed' <= BootLength - 1 + events'
      BY <1>c, <2>2, <3>2, <3>3, <3>4
    <3>. QED BY <1>c, <1>d, <3>2, <3>4, <3>5
  <2>5. CASE Spurious \/ NonMaskable
    <3>1. irr' = irr /\ events' = events + 1
      BY <2>5 DEF Spurious, NonMaskable, Event, pic
    <3>2. lost' = lost /\ Cardinality(irr)' = Cardinality(irr) /\ Cardinality(irr)' \in Nat
      BY <1>c, <2>1, <3>1
    <3>3. lost' + Cardinality(irr)' + Met' + Owed' <= BootLength - 1 + events'
      BY <1>c, <2>2, <3>1, <3>2
    <3>. QED BY <1>c, <1>d, <3>1, <3>2, <3>3
  <2>. QED BY <1>17, <2>3, <2>4, <2>5 DEF Interrupts
<1>. QED BY <1>2, <1>4, <1>5, <1>6, <1>7, <1>8, <1>9, <1>10, <1>11, <1>13, <1>14, <1>15,
            <1>16, <1>17 DEF KernelNext, Main, HandlerStep, vga_putc

-----------------------------------------------------------------------------
(* Gates, handlers, masks.                                                 *)

\* Neither what prints nor an interrupt changes a table.
LEMMA TablesKept ==
  ASSUME ControlInv, TablesInv, UNCHANGED <<tables, imr, at>>,
         put' = put \/ put' \notin Stores
  PROVE  TablesInv'
BY DEF TablesInv, tables, GateOK

\* Where a gate leads to.
LEMMA TargetOK ==
  ASSUME TablesInv, NEW v \in Vectors
  PROVE  /\ Target(g_IDT[v]) \in Stubs \cup {"none"}
         /\ GateOK(v) => Target(g_IDT[v]) \in Stubs
         /\ \A s \in Stubs : GateOK(v) /\ g_IDT[v].low = Address[s].low
                             => Target(g_IDT[v]) = s
<1>. USE SegmentAssumption DEF SegmentAssumption
<1>1. CASE ~g_IDT[v].present
  BY <1>1 DEF Target, GateOK
<1>2. CASE GateOK(v)
  <2>. DEFINE A == [low |-> g_IDT[v].low, high |-> g_IDT[v].high]
  <2>1. PICK s \in Stubs : g_IDT[v].low = Address[s].low
    BY <1>2 DEF GateOK
  <2>2. \A t \in Stubs : Address[t] = A => t = s
    BY <2>1
  <2>3. Address[s] = A
    BY <1>2, <2>1 DEF GateOK, Stubs
  <2>4. Target(g_IDT[v]) = s
    BY <1>2, <2>2, <2>3 DEF Target, GateOK
  <2>. QED BY <2>1, <2>4
<1>. QED BY <1>1, <1>2 DEF TablesInv

LEMMA TablesStep == StartInv /\ [KernelNext]_startVars => TablesInv'
<1>. SUFFICES ASSUME StartInv, [KernelNext]_startVars PROVE TablesInv'
  OBVIOUS
<1>0. ControlInv /\ TablesInv /\ ServiceInv
  BY DEF StartInv
<1>1. CASE /\ UNCHANGED <<tables, imr, at>>
           /\ put' = put \/ put' \notin Stores
  BY <1>0, <1>1, TablesKept
<1>2. CASE UNCHANGED startVars
  BY <1>1, <1>2 DEF startVars, mainVars, pic
<1>3. CASE vga_putc
  BY <1>1, <1>3, PutcPlace DEF KeepRest, pic
<1>4. CASE Say
  BY <1>1, <1>4 DEF Say, Place, KeepRest, pic, Stores
<1>5. CASE HandlerPutc \/ EndOfInterrupt \/ Return \/ Transmit \/ Interrupts
  BY <1>1, <1>5 DEF HandlerPutc, EndOfInterrupt, Return, Transmit, Interrupts, Request,
     Accept, Spurious, NonMaskable, Enter, KeepMain, mainVars, pic
<1>6. CASE ClearMemory
  <2>1. /\ at' = "direct" /\ g_IDT' = [v \in Vectors |-> NoGate] /\ at = "boot"
        /\ UNCHANGED <<enabled, imr, put>> /\ put' = "idle" /\ g_ISRHandlers' = {}
    BY <1>6 DEF ClearMemory, Statement, pic
  <2>2. ~enabled
    BY <1>0, <2>1 DEF TablesInv, Disabled
  <2>. QED BY <2>1, <2>2 DEF TablesInv, NMI, NoGate, Disabled, Stores, Late
<1>17. CASE DirectWrite
  <2>1. /\ at = "direct" /\ at' \in {"direct", "gates"} /\ put = "idle" /\ put' = "idle"
        /\ UNCHANGED <<tables, imr>>
    BY <1>17 DEF DirectWrite, Statement, pic
  <2>2. ~enabled
    BY <1>0, <2>1 DEF TablesInv, Disabled
  <2>. QED BY <1>0, <2>1, <2>2 DEF TablesInv, tables, GateOK, Disabled, Stores, Late
<1>7. CASE i686_ISR_InitializeGates
  <2>. DEFINE g == [low |-> Address["generated"].low, high |-> Address["generated"].high,
                    present |-> FALSE]
  <2>1. /\ at' = "enable" /\ at = "gates" /\ g_IDT' = [v \in Vectors |-> g]
        /\ UNCHANGED <<enabled, imr, put, g_ISRHandlers, timer>> /\ put' = "idle"
    BY <1>7 DEF i686_ISR_InitializeGates, Statement, KeepPutc, pic
  <2>2. ~enabled
    BY <1>0, <2>1 DEF TablesInv, Disabled
  <2>3. "generated" \in Stubs
    BY DEF Stubs
  <2>. QED BY <1>0, <2>1, <2>2, <2>3 DEF TablesInv, NMI, Disabled, Stores, Late
<1>8. CASE i686_IDT_EnableGate
  <2>1. /\ at' = "pic" /\ at = "enable"
        /\ g_IDT' = [v \in Vectors |-> [g_IDT[v] EXCEPT !.present = TRUE]]
        /\ UNCHANGED <<enabled, imr, put, g_ISRHandlers, timer>> /\ put' = "idle"
    BY <1>8 DEF i686_IDT_EnableGate, Statement, KeepPutc, pic
  <2>2. ~enabled
    BY <1>0, <2>1 DEF TablesInv, Disabled
  <2>3. \A v \in Vectors : GateOK(v)'
    BY <1>0, <2>1 DEF TablesInv, GateOK, Stubs
  <2>4. g_IDT' \in [Vectors -> [low : {0} \cup {Address[s].low : s \in Stubs},
                                high : {0, Address["generated"].high}, present : BOOLEAN]]
    BY <1>0, <2>1 DEF TablesInv
  <2>. QED BY <1>0, <2>1, <2>2, <2>3, <2>4 DEF TablesInv, NMI, Disabled, Stores, Late
<1>9. CASE i686_PIC_Configure
  BY <1>0, <1>9 DEF i686_PIC_Configure, Statement, KeepPutc, tables, TablesInv, GateOK,
     Disabled, Stores, Late
<1>10. CASE i686_ISR_RegisterHandler
  <2>1. Vectors \ {NMI} = {Offset + i : i \in 0 .. 15}
    BY DEF Vectors, NMI, Offset
  <2>. QED BY <1>0, <1>10, <2>1 DEF i686_ISR_RegisterHandler, Statement, KeepPutc, pic,
     TablesInv, GateOK, Disabled, Stores, Late
<1>11. CASE i686_EnableInterrupts
  BY <1>0, <1>11 DEF i686_EnableInterrupts, Statement, KeepPutc, pic, TablesInv, GateOK,
     Disabled, Stores, Late
<1>12. CASE i686_IRQ_RegisterHandler
  BY <1>0, <1>12 DEF i686_IRQ_RegisterHandler, Statement, KeepPutc, pic, TablesInv, GateOK,
     Disabled, Stores, Late
<1>13. CASE vga_clrscr \/ vga_set_putc_hook
  BY <1>0, <1>13 DEF vga_clrscr, vga_set_putc_hook, Statement, KeepPutc, pic, tables,
     TablesInv, GateOK, Disabled, Stores, Late
<1>14. CASE vga_puts
  <2>1. /\ UNCHANGED <<tables, imr>> /\ put' \notin Stores /\ at \in Messages
        /\ at' = at \/ at' = After[at]
    BY <1>0, <1>14 DEF vga_puts, KeepRest, pic, Running, Alive, Ends, ControlInv, Stores
  <2>2. CASE at' = at
    BY <1>1, <2>1, <2>2
  <2>3. CASE at' = After[at]
    BY <1>0, <2>1, <2>3 DEF After, Messages, tables, TablesInv, GateOK, Disabled, Late
  <2>. QED BY <2>1, <2>2, <2>3
<1>15. CASE Drivers
  <2>1. enabled /\ at \notin Disabled
    BY <1>0, <1>15 DEF Drivers, SetGate, i686_PIC_Unmask, Statement, TablesInv, Disabled
  <2>2. ASSUME NEW irq \in {1, 12}, NEW here, NEW there,
               i686_PIC_Unmask(irq, here, there),
               <<here, there>> \in {<<"unmask12", "keyboard">>, <<"unmask1", "hook">>}
        PROVE  TablesInv'
    BY <1>0, <2>1, <2>2 DEF i686_PIC_Unmask, Statement, KeepPutc, tables, TablesInv, GateOK,
       Disabled, Stores, Late
  <2>3. ASSUME NEW v \in {33, 44}, NEW stub \in Stubs, NEW here, NEW there,
               SetGate(v, stub, here, there),
               <<v, stub, here, there>> \in {<<44, "mouse", "gate44", "unmask12">>,
                                             <<33, "keyboard", "gate33", "unmask1">>}
        PROVE  TablesInv'
    <3>1. {33, 44} \subseteq Vectors
      BY DEF Vectors, Offset
    <3>2. \A w \in Vectors : GateOK(w)
      BY <1>0, <2>1 DEF TablesInv
    <3>3. Address[stub].high = Address["generated"].high
      BY SegmentAssumption DEF SegmentAssumption, Stubs
    <3>4. /\ \A w \in Vectors : GateOK(w)'
          /\ g_IDT' \in [Vectors -> [low : {0} \cup {Address[s].low : s \in Stubs},
                                     high : {0, Address["generated"].high},
                                     present : BOOLEAN]]
          /\ \A w \in Vectors \ {v} : g_IDT'[w] = g_IDT[w]
          /\ IF put = "idle" THEN g_IDT'[v].low = Address[stub].low
             ELSE g_IDT'[v].low = g_IDT[v].low
      <4>1. CASE g_IDT' = [g_IDT EXCEPT ![v].low = Address[stub].low] /\ put = "idle"
        BY <1>0, <3>1, <3>2, <4>1 DEF TablesInv, GateOK
      <4>2. CASE g_IDT' = [g_IDT EXCEPT ![v].present = TRUE] /\ put = "flags"
        <5>. DEFINE g == [g_IDT[v] EXCEPT !.present = TRUE]
        <5>1. g_IDT[v] \in [low : {0} \cup {Address[s].low : s \in Stubs},
                            high : {0, Address["generated"].high}, present : BOOLEAN]
          BY <1>0, <3>1 DEF TablesInv
        <5>2. /\ g.low = g_IDT[v].low /\ g.high = g_IDT[v].high /\ g.present
              /\ g \in [low : {0} \cup {Address[s].low : s \in Stubs},
                        high : {0, Address["generated"].high}, present : BOOLEAN]
          BY <5>1
        <5>3. g_IDT' = [g_IDT EXCEPT ![v] = g]
          BY <4>2
        <5>. HIDE DEF g
        <5>4. /\ \A w \in Vectors : g_IDT'[w] = IF w = v THEN g ELSE g_IDT[w]
              /\ g_IDT' \in [Vectors -> [low : {0} \cup {Address[s].low : s \in Stubs},
                                         high : {0, Address["generated"].high},
                                         present : BOOLEAN]]
          BY <1>0, <3>1, <5>2, <5>3 DEF TablesInv
        <5>5. \A w \in Vectors : /\ g_IDT'[w].present = g_IDT[w].present \/ g_IDT'[w].present
                                 /\ g_IDT'[w].low = g_IDT[w].low
                                 /\ g_IDT'[w].high = g_IDT[w].high
          BY <5>2, <5>4
        <5>6. \A w \in Vectors : GateOK(w)'
          BY <3>2, <5>5 DEF GateOK
        <5>. QED BY <3>1, <4>2, <5>4, <5>5, <5>6
      <4>3. CASE g_IDT' = [g_IDT EXCEPT ![v].high = Address[stub].high] /\ put = "high"
        BY <1>0, <3>1, <3>2, <3>3, <4>3 DEF TablesInv, GateOK
      <4>. QED BY <2>3, <4>1, <4>2, <4>3 DEF SetGate
    <3>5. /\ UNCHANGED <<g_ISRHandlers, timer, enabled, imr>>
          /\ at = here /\ put \in {"idle"} \cup Stores
          /\ put' \in {"idle"} \cup Stores
          /\ IF put = "high" THEN at' = there /\ put' = "idle" ELSE at' = at
      BY <2>3 DEF SetGate, pic, Stores
    <3>. HIDE DEF GateOK
    <3>. QED BY <1>0, <2>1, <2>3, <3>1, <3>4, <3>5 DEF TablesInv, Disabled, Stores, Late
  <2>. QED BY <1>15, <2>2, <2>3 DEF Drivers, Stubs
<1>16. CASE Halt
  <2>1. /\ UNCHANGED <<tables, imr, put>> /\ at' \in {"reset", "panic"}
        /\ at' = "reset" => ~enabled
    BY <1>0, <1>16 DEF Halt, Halts, Idle, pic, ServiceInv
  <2>. QED BY <1>0, <2>1 DEF TablesInv, tables, GateOK, Disabled, Stores, Late
<1>. QED BY <1>2, <1>3, <1>4, <1>5, <1>6, <1>7, <1>8, <1>9, <1>10, <1>11, <1>12, <1>13,
            <1>14, <1>15, <1>16, <1>17 DEF KernelNext, Main, HandlerStep

-----------------------------------------------------------------------------
(* The interrupts in service.                                              *)

\* What an interrupt leads to, once they are enabled and before.
LEMMA HandlersOK ==
  ASSUME TablesInv, NEW v \in Vectors, NEW h \in Handlers(v)
  PROVE  /\ h \in Handling /\ h.vector = v
         /\ enabled /\ v # NMI => h.then = "eoi"
         /\ v = NMI => h.then \in {"panic", "reset"}
         /\ h.then = "reset" => ~enabled
         /\ v = NMI \/ enabled => h.then \in {"eoi", "panic", "reset"}
<1>1. /\ Text.irq \in Seq(Characters) /\ Text.interrupt \in Seq(Characters)
      /\ Text.exception \in Seq(Characters) /\ Text.minimize \in Seq(Characters)
      /\ <<>> \in Seq(Characters)
  BY StartupAssumption, HandlingOK DEF StartupAssumption, ToHandlers
<1>2. v \in Nat /\ (v # NMI => v >= Offset)
  BY DEF Vectors, NMI, Offset
<1>3. enabled => GateOK(v) /\ g_ISRHandlers = Vectors \ {NMI}
  BY DEF TablesInv
<1>4. GateOK(v) \/ ~g_IDT[v].present
  BY DEF TablesInv
<1>5. CASE ~GateOK(v)
  <2>1. h = [vector |-> v, say |-> <<>>, then |-> "reset"]
    BY <1>4, <1>5 DEF Handlers, Target
  <2>. QED BY <1>1, <1>2, <1>3, <1>5, <2>1, HandlingOK DEF Phases
<1>6. CASE GateOK(v)
  <2>1. Target(g_IDT[v]) \in Stubs /\ (v = NMI => Target(g_IDT[v]) = "generated")
    BY <1>6, TargetOK DEF GateOK, Stubs, NMI
  <2>2. CASE Target(g_IDT[v]) = "generated"
    <3>1. h = i686_ISR_Handler(v)
      BY <2>2 DEF Handlers
    <3>2. i686_ISR_Handler(v) =
             IF v \in g_ISRHandlers
             THEN [vector |-> v, say |-> IF v - Offset = 0 /\ timer THEN <<>> ELSE Text.irq,
                   then |-> "eoi"]
             ELSE IF v >= Offset THEN [vector |-> v, say |-> Text.interrupt, then |-> "iret"]
             ELSE [vector |-> v, say |-> Text.exception, then |-> "panic"]
      BY <1>2 DEF i686_ISR_Handler, i686_IRQ_Handler, Offset
    <3>3. v = NMI => v \notin g_ISRHandlers /\ ~(v >= Offset)
      BY DEF TablesInv, NMI, Offset
    <3>4. enabled /\ v # NMI => v \in g_ISRHandlers
      BY <1>3
    <3>5. CASE v \in g_ISRHandlers
      <4>1. PICK say \in Seq(Characters) : h = [vector |-> v, say |-> say, then |-> "eoi"]
        BY <1>1, <3>1, <3>2, <3>5
      <4>2. h \in Handling
        BY <1>2, <4>1, HandlingOK DEF Phases
      <4>. QED BY <3>3, <3>5, <4>1, <4>2
    <3>6. CASE v \notin g_ISRHandlers /\ v # NMI
      <4>1. h = [vector |-> v, say |-> Text.interrupt, then |-> "iret"] /\ ~enabled
        BY <1>2, <3>1, <3>2, <3>4, <3>6
      <4>. QED BY <1>1, <1>2, <3>6, <4>1, HandlingOK DEF Phases
    <3>7. CASE v = NMI
      <4>1. h = [vector |-> v, say |-> Text.exception, then |-> "panic"]
        BY <3>1, <3>2, <3>3, <3>7
      <4>. QED BY <1>1, <1>2, <3>7, <4>1, HandlingOK DEF Phases
    <3>. QED BY <3>5, <3>6, <3>7
  <2>3. CASE Target(g_IDT[v]) \in {"mouse", "keyboard"}
    <3>1. PICK say \in Seq(Characters) : h = [vector |-> v, say |-> say, then |-> "eoi"]
      BY <1>1, <2>3 DEF Handlers
    <3>2. h \in Handling
      BY <1>2, <3>1, HandlingOK DEF Phases
    <3>. QED BY <2>1, <2>3, <3>1, <3>2
  <2>. QED BY <2>1, <2>2, <2>3 DEF Stubs
<1>. QED BY <1>5, <1>6

LEMMA ServiceStep == StartInv /\ [KernelNext]_startVars => ServiceInv'
<1>. SUFFICES ASSUME StartInv, [KernelNext]_startVars PROVE ServiceInv'
  OBVIOUS
<1>0. TablesInv /\ ServiceInv
  BY DEF StartInv
<1>a. Running => handler = Idle /\ isr = {} /\ handler.then = "none"
  BY <1>0 DEF Running, ServiceInv, Idle
<1>1. CASE UNCHANGED <<handler, irr, isr, enabled>>
  BY <1>0, <1>1 DEF ServiceInv
<1>2. CASE UNCHANGED startVars
  BY <1>1, <1>2 DEF startVars, tables, pic
<1>3. CASE \/ ClearMemory \/ DirectWrite \/ i686_ISR_InitializeGates \/ i686_IDT_EnableGate
           \/ i686_ISR_RegisterHandler \/ i686_IRQ_RegisterHandler \/ vga_clrscr
           \/ vga_set_putc_hook \/ Drivers
  BY <1>1, <1>3 DEF ClearMemory, DirectWrite, i686_ISR_InitializeGates, i686_IDT_EnableGate,
     i686_ISR_RegisterHandler, i686_IRQ_RegisterHandler, vga_clrscr, vga_set_putc_hook,
     Drivers, SetGate, i686_PIC_Unmask, tables, pic
<1>4. CASE Say \/ vga_puts
  BY <1>1, <1>4 DEF Say, vga_puts, Place, KeepRest, tables, pic
<1>5. CASE vga_putc
  BY <1>1, <1>5, PutcPlace DEF KeepRest, tables, pic
<1>6. CASE i686_PIC_Configure \/ i686_EnableInterrupts
  BY <1>0, <1>a, <1>6 DEF i686_PIC_Configure, i686_EnableInterrupts, Statement, ServiceInv, pic
<1>7. CASE HandlerPutc
  <2>1. handler # Idle /\ handler.say # <<>>
    BY <1>7 DEF HandlerPutc, Printing, Idle
  <2>2. /\ Head(handler.say) \in Characters /\ Tail(handler.say) \in Seq(Characters)
    BY <1>0, <2>1, HandlingOK DEF ServiceInv
  <2>3. /\ <<"\r">> \o Tail(handler.say) \in Seq(Characters)
    <3>1. \A S : \A c \in S, s \in Seq(S) : <<c>> \o s \in Seq(S)
      OBVIOUS
    <3>. QED BY <2>2, <3>1 DEF Characters
  <2>4. \E say \in Seq(Characters) : handler' = [handler EXCEPT !.say = say]
    BY <1>7, <2>2, <2>3 DEF HandlerPutc
  <2>5. UNCHANGED <<irr, isr, enabled>>
    BY <1>7 DEF HandlerPutc, KeepMain, tables, pic
  <2>6. handler' \in Handling /\ handler'.vector = handler.vector /\ handler'.then = handler.then
    <3>1. PICK say \in Seq(Characters) : handler' = [handler EXCEPT !.say = say]
      BY <2>4
    <3>2. "none" \in Phases /\ handler \in Handling
      BY <1>0 DEF ServiceInv, Phases
    <3>. QED BY <3>1, <3>2, HandlingOK, Zenon
  <2>. QED BY <1>0, <2>1, <2>5, <2>6 DEF ServiceInv, Offset, Level
<1>8. CASE EndOfInterrupt
  <2>. DEFINE i == handler.vector - Offset
  <2>1. /\ handler.then = "eoi" /\ i \in 0 .. 15 /\ isr \in {{}, {i, Level(i)}}
    BY <1>0, <1>8 DEF EndOfInterrupt, At, ServiceInv, Offset
  <2>2. isr' = {}
    <3>1. isr' = isr \ (Highest(isr \cap 0 .. 7)
                        \cup IF i >= 8 THEN Highest(isr \cap 8 .. 15) ELSE {})
      BY <1>8 DEF EndOfInterrupt, i686_PIC_SendEndOfInterrupt
    <3>2. \A j \in Int : Highest({j}) = {j}
      BY DEF Highest
    <3>3. CASE i < 8 /\ isr # {}
      <4>1. isr = {i} /\ isr \cap 0 .. 7 = {i}
        BY <2>1, <3>3 DEF Level
      <4>. QED BY <2>1, <3>1, <3>2, <4>1
    <3>4. CASE i >= 8 /\ isr # {}
      <4>1. isr = {i, 2} /\ isr \cap 0 .. 7 = {2} /\ isr \cap 8 .. 15 = {i}
        BY <2>1, <3>4 DEF Level
      <4>. QED BY <2>1, <3>1, <3>2, <3>4, <4>1
    <3>. QED BY <2>1, <3>1, <3>3, <3>4
  <2>3. handler' = [handler EXCEPT !.then = "iret"] /\ UNCHANGED <<irr, enabled>>
    BY <1>8 DEF EndOfInterrupt, KeepMain, tables
  <2>. QED BY <1>0, <2>2, <2>3, HandlingOK DEF ServiceInv, Phases
<1>9. CASE Return \/ Halt
  <2>1. handler' = Idle /\ UNCHANGED <<irr, isr, enabled>> /\ handler.then # "eoi"
    BY <1>9 DEF Return, Halt, Halts, At, KeepMain, tables, pic
  <2>. QED BY <1>0, <2>1, IdleOK DEF ServiceInv
<1>10. CASE Transmit
  BY <1>1, <1>10 DEF Transmit, KeepMain, tables, pic
<1>11. CASE Request
  BY <1>0, <1>11, StartupAssumption DEF Request, KeepMain, tables, ServiceInv, StartupAssumption
<1>12. CASE Accept
  <2>1. PICK i \in irr : isr' = isr \cup {i, Level(i)} /\ irr' = irr \ {i}
                         /\ handler' \in Handlers(Offset + i)
    BY <1>12 DEF Accept, Enter
  <2>2. isr = {} /\ enabled /\ UNCHANGED enabled
    BY <1>a, <1>12 DEF Accept, Enter, KeepMain, tables
  <2>3. Offset + i \in Vectors /\ Offset + i # NMI /\ i \in 0 .. 15
    BY <1>0, <2>1 DEF ServiceInv, Vectors, Offset, NMI
  <2>4. handler' \in Handling /\ handler'.vector = Offset + i /\ handler'.then = "eoi"
    BY <1>0, <2>1, <2>2, <2>3, HandlersOK
  <2>5. handler'.vector - Offset = i /\ isr' = {i, Level(i)} /\ irr' \subseteq 0 .. 15
    <3>1. handler'.vector - Offset = i
      BY <2>3, <2>4 DEF Offset
    <3>2. isr' = {i, Level(i)}
      BY <2>1, <2>2
    <3>3. irr' \subseteq 0 .. 15
      BY <1>0, <2>1 DEF ServiceInv
    <3>. QED BY <3>1, <3>2, <3>3
  <2>6. handler'.vector \in {Offset + j : j \in 0 .. 15}
    BY <2>3, <2>4
  <2>. QED BY <2>4, <2>5, <2>6 DEF ServiceInv, Offset, Level
<1>13. CASE Spurious
  <2>1. isr = {} /\ enabled /\ UNCHANGED <<enabled, irr, isr>>
        /\ handler' \in Handlers(Offset + 7)
    BY <1>a, <1>13 DEF Spurious, Enter, KeepMain, tables, pic
  <2>2. Offset + 7 \in Vectors /\ Offset + 7 # NMI
    BY DEF Vectors, Offset, NMI
  <2>3. handler' \in Handling /\ handler'.vector = Offset + 7 /\ handler'.then = "eoi"
    BY <1>0, <2>1, <2>2, HandlersOK
  <2>. QED BY <1>0, <2>1, <2>3 DEF ServiceInv, Offset
<1>14. CASE NonMaskable
  <2>1. isr = {} /\ UNCHANGED <<enabled, irr, isr>> /\ handler' \in Handlers(NMI)
    BY <1>a, <1>14 DEF NonMaskable, Enter, KeepMain, tables, pic
  <2>2. NMI \in Vectors
    BY DEF Vectors
  <2>3. handler' \in Handling /\ handler'.then \in {"panic", "reset"} /\ (handler'.then = "reset" => ~enabled)
    BY <1>0, <2>1, <2>2, HandlersOK
  <2>. QED BY <1>0, <2>1, <2>3 DEF ServiceInv
<1>. QED BY <1>2, <1>3, <1>4, <1>5, <1>6, <1>7, <1>8, <1>9, <1>10, <1>11, <1>12, <1>13,
            <1>14 DEF KernelNext, Main, HandlerStep, Interrupts

\* The invariant answers for the gates and for the controllers.
LEMMA Returned == StartInv => InterruptsReturn
<1>. SUFFICES ASSUME StartInv PROVE InterruptsReturn
  OBVIOUS
<1>1. at \notin {"wild", "reset"} \/ ~enabled
  BY DEF StartInv, TablesInv, Disabled
<1>2. Running => isr = {}
  BY DEF StartInv, ServiceInv, Running, Idle
<1>3. ASSUME at = "done"
      PROVE  /\ {0, 1, 2, 12} \cap imr = {}
             /\ Target(g_IDT[33]) = "keyboard" /\ Target(g_IDT[44]) = "mouse"
             /\ g_ISRHandlers = Vectors \ {NMI} /\ timer
  <2>1. TablesInv /\ enabled
    BY <1>3 DEF StartInv, TablesInv, Disabled
  <2>2. 33 \in Vectors /\ 44 \in Vectors
    BY DEF Vectors, Offset
  <2>3. /\ GateOK(33) /\ g_IDT[33].low = Address["keyboard"].low
        /\ GateOK(44) /\ g_IDT[44].low = Address["mouse"].low
    BY <1>3, <2>1, <2>2 DEF TablesInv, Late
  <2>4. Target(g_IDT[33]) = "keyboard" /\ Target(g_IDT[44]) = "mouse"
    BY <2>1, <2>2, <2>3, TargetOK DEF Stubs
  <2>. QED BY <1>3, <2>1, <2>4 DEF TablesInv
<1>. QED BY <1>1, <1>2, <1>3 DEF InterruptsReturn

\* The invariant bounds the bytes lost.
LEMMA FewLost == StartInv => SerialLosses
<1>. SUFFICES ASSUME StartInv PROVE SerialLosses
  OBVIOUS
<1>1. Cardinality(irr) \in Nat /\ BootLength \in Nat \ {0} /\ Met \in 0 .. 1
  BY RequestedFinite, StartupAssumption DEF StartInv, StartupAssumption, Met, BootLength
<1>2. Owed \in Nat
  <2>1. at = "direct" => Len(out) \in Nat \ {0}
    BY DEF StartInv, ControlInv, Halts
  <2>. QED BY <1>1, <2>1 DEF Owed
<1>. QED BY <1>1, <1>2 DEF StartInv, SerialInv, SerialLosses, BootLength

\* The types: they need the other parts, for a handler's text and its lines.
LEMMA TypesInit == KernelInit => StartTypeOK
<1>. SUFFICES ASSUME KernelInit PROVE StartTypeOK
  OBVIOUS
<1>1. /\ put = "idle" /\ out = <<>> /\ ch = "" /\ handler = Idle
      /\ imr \in {{}, Lines} /\ irr = {} /\ isr = {} /\ g_ISRHandlers = {}
      /\ thr = FALSE /\ lost = 0 /\ timer = FALSE /\ enabled = FALSE
  BY DEF KernelInit
<1>2. Lines \subseteq 0 .. 15
  BY StartupAssumption DEF StartupAssumption
<1>3. "" \in Characters /\ <<>> \in Seq(Characters) /\ Idle.say = <<>> /\ <<>> \in Seq(STRING)
  BY DEF Characters, Idle
<1>. QED BY <1>1, <1>2, <1>3 DEF StartTypeOK

\* The places of vga_putc and of a gate.
Places == {"idle", "char", "wait", "send", "home", "line", "next", "wait2", "send2", "row", "col",
           "cell", "right", "step", "width", "wrap", "wrapline", "wrapnext", "height", "scroll",
           "up", "flags", "high"}

LEMMA TypesStep ==
  StartTypeOK /\ StartInv /\ StartInv' /\ [KernelNext]_startVars => StartTypeOK'
<1>. SUFFICES ASSUME StartTypeOK, StartInv, StartInv', [KernelNext]_startVars PROVE StartTypeOK'
  OBVIOUS
<1>0. /\ put \in Places /\ out \in Seq(STRING) /\ ch \in Characters
      /\ {thr, timer, enabled} \subseteq BOOLEAN
      /\ imr \subseteq 0 .. 15 /\ irr \subseteq Lines /\ isr \subseteq 0 .. 15
      /\ g_ISRHandlers \subseteq Vectors
  BY DEF StartTypeOK, Places
<1>1. out' \in Seq(STRING) /\ handler'.say \in Seq(Characters)
  <2>1. handler' \in Handling
    BY DEF StartInv, ServiceInv
  <2>. QED BY <2>1, HandlingOK DEF StartInv, ControlInv
<1>2. put' \in Places /\ ch' \in Characters
  <2>1. CASE UNCHANGED <<put, ch>>
    BY <1>0, <2>1
  <2>2. CASE Drivers
    BY <1>0, <2>2 DEF Drivers, SetGate, i686_PIC_Unmask, Statement, KeepPutc, Places
  <2>3. CASE Say
    BY <1>0, <2>3 DEF Say, Place, Places
  <2>4. CASE vga_puts
    <3>1. out # <<>> => Head(out) \in STRING
      BY <1>0
    <3>2. put' \in {"idle", "wait"} /\ ch' \in {ch, Head(out)} /\ (out = <<>> => ch' = ch)
      BY <2>4 DEF vga_puts
    <3>. QED BY <1>0, <3>1, <3>2 DEF Places, Characters
  <2>5. CASE vga_putc
    <3>1. put' \in Places
      BY <2>5 DEF vga_putc, WaitChar, SendChar, NewLine, WaitReturn, SendReturn, PutEntry, TestWidth,
                  Wrap, TestHeight, vga_scroll, Ready, Send, LoadX, LoadY, StoreX, StoreY, Place, Places
    <3>2. ch' \in {ch, ""}
      BY <2>5 DEF vga_putc, WaitChar, SendChar, NewLine, WaitReturn, SendReturn, PutEntry, TestWidth,
                  Wrap, TestHeight, vga_scroll, Ready, Send, LoadX, LoadY, StoreX, StoreY, KeepText
    <3>. QED BY <1>0, <3>1, <3>2 DEF Characters
  <2>6. CASE \/ ClearMemory \/ DirectWrite \/ i686_ISR_InitializeGates \/ i686_IDT_EnableGate
             \/ i686_PIC_Configure \/ i686_ISR_RegisterHandler \/ i686_EnableInterrupts
             \/ i686_IRQ_RegisterHandler \/ vga_clrscr \/ vga_set_putc_hook
    BY <2>1, <2>6 DEF ClearMemory, DirectWrite, i686_ISR_InitializeGates, i686_IDT_EnableGate,
       i686_PIC_Configure, i686_ISR_RegisterHandler, i686_EnableInterrupts,
       i686_IRQ_RegisterHandler, vga_clrscr, vga_set_putc_hook, KeepPutc
  <2>7. CASE HandlerStep \/ Transmit \/ Interrupts \/ UNCHANGED startVars
    BY <2>1, <2>7 DEF HandlerStep, HandlerPutc, EndOfInterrupt, Return, Halt, Transmit, Interrupts,
       Request, Accept, Spurious, NonMaskable, Enter, KeepMain, mainVars, startVars
  <2>. QED BY <2>2, <2>3, <2>4, <2>5, <2>6, <2>7 DEF KernelNext, Main
<1>3. thr' \in BOOLEAN /\ lost' \in Nat
  <2>1. CASE UNCHANGED thr
    BY <1>0, <2>1 DEF StartInv, SerialInv
  <2>2. CASE thr' \in BOOLEAN
    BY <2>2 DEF StartInv, SerialInv
  <2>3. CASE SendChar \/ SendReturn \/ HandlerPutc \/ Transmit \/ DirectWrite
    BY <2>2, <2>3 DEF SendChar, SendReturn, Send, HandlerPutc, Transmitted, Transmit, DirectWrite
  <2>5. CASE \/ WaitChar \/ WaitReturn \/ NewLine \/ PutEntry \/ TestWidth \/ Wrap \/ TestHeight
             \/ vga_scroll \/ Say \/ vga_puts
    BY <2>1, <2>5 DEF WaitChar, WaitReturn, NewLine, PutEntry, TestWidth, Wrap, TestHeight, vga_scroll,
       Ready, LoadX, LoadY, StoreX, StoreY, Say, vga_puts, uart
  <2>6. CASE \/ ClearMemory \/ i686_ISR_InitializeGates \/ i686_IDT_EnableGate
             \/ i686_PIC_Configure \/ i686_ISR_RegisterHandler \/ i686_EnableInterrupts
             \/ i686_IRQ_RegisterHandler \/ vga_clrscr \/ vga_set_putc_hook \/ Drivers
    BY <2>1, <2>6 DEF ClearMemory, i686_ISR_InitializeGates, i686_IDT_EnableGate,
       i686_PIC_Configure, i686_ISR_RegisterHandler, i686_EnableInterrupts,
       i686_IRQ_RegisterHandler, vga_clrscr, vga_set_putc_hook, Drivers, SetGate, i686_PIC_Unmask, uart
  <2>7. CASE EndOfInterrupt \/ Return \/ Halt \/ Interrupts \/ UNCHANGED startVars
    BY <2>1, <2>7 DEF EndOfInterrupt, Return, Halt, Interrupts,
       Request, Accept, Spurious, NonMaskable, Enter, startVars, uart
  <2>. QED BY <2>3, <2>5, <2>6, <2>7 DEF KernelNext, Main, HandlerStep, vga_putc
<1>4. {timer, enabled}' \subseteq BOOLEAN /\ g_ISRHandlers' \subseteq Vectors
  <2>1. CASE UNCHANGED tables
    BY <1>0, <2>1 DEF tables
  <2>2. CASE \/ ClearMemory \/ DirectWrite \/ i686_ISR_InitializeGates \/ i686_IDT_EnableGate
             \/ i686_ISR_RegisterHandler \/ i686_EnableInterrupts \/ i686_IRQ_RegisterHandler
             \/ Drivers
    BY <1>0, <2>2 DEF ClearMemory, DirectWrite, i686_ISR_InitializeGates, i686_IDT_EnableGate,
       i686_ISR_RegisterHandler, i686_EnableInterrupts, i686_IRQ_RegisterHandler, Drivers, SetGate,
       i686_PIC_Unmask, tables, Vectors
  <2>3. CASE vga_putc \/ Say \/ vga_puts
    BY <2>1, <2>3, PutcPlace DEF Say, vga_puts, Place, KeepRest
  <2>4. CASE i686_PIC_Configure \/ vga_clrscr \/ vga_set_putc_hook
    BY <2>1, <2>4 DEF i686_PIC_Configure, vga_clrscr, vga_set_putc_hook
  <2>5. CASE HandlerStep \/ Transmit \/ Interrupts \/ UNCHANGED startVars
    BY <2>1, <2>5 DEF HandlerStep, HandlerPutc, EndOfInterrupt, Return, Halt, Transmit, Interrupts,
       Request, Accept, Spurious, NonMaskable, Enter, KeepMain, startVars
  <2>. QED BY <2>2, <2>3, <2>4, <2>5 DEF KernelNext, Main
<1>5. imr' \subseteq 0 .. 15 /\ irr' \subseteq Lines /\ isr' \subseteq 0 .. 15
  <2>1. CASE UNCHANGED pic
    BY <1>0, <2>1 DEF pic
  <2>2. CASE i686_PIC_Configure \/ Drivers
    BY <1>0, <2>2 DEF i686_PIC_Configure, Drivers, SetGate, i686_PIC_Unmask, pic
  <2>3. CASE \/ ClearMemory \/ DirectWrite \/ i686_ISR_InitializeGates \/ i686_IDT_EnableGate
             \/ i686_ISR_RegisterHandler \/ i686_EnableInterrupts
             \/ i686_IRQ_RegisterHandler \/ vga_clrscr \/ vga_set_putc_hook
    BY <2>1, <2>3 DEF ClearMemory, DirectWrite, i686_ISR_InitializeGates, i686_IDT_EnableGate,
       i686_ISR_RegisterHandler, i686_EnableInterrupts, i686_IRQ_RegisterHandler, vga_clrscr,
       vga_set_putc_hook
  <2>4. CASE vga_putc \/ Say \/ vga_puts
    BY <2>1, <2>4, PutcPlace DEF Say, vga_puts, Place, KeepRest
  <2>5. CASE HandlerPutc \/ Return \/ Halt \/ Transmit \/ Spurious \/ NonMaskable \/ UNCHANGED startVars
    BY <2>1, <2>5 DEF HandlerPutc, Return, Halt, Transmit, Spurious, NonMaskable, startVars
  <2>6. CASE EndOfInterrupt
    BY <1>0, <2>6 DEF EndOfInterrupt, i686_PIC_SendEndOfInterrupt
  <2>7. CASE Request
    BY <1>0, <2>7 DEF Request
  <2>8. CASE Accept
    <3>1. PICK i \in irr : irr' = irr \ {i} /\ isr' = isr \cup {i, Level(i)} /\ imr' = imr
      BY <2>8 DEF Accept
    <3>2. i \in 0 .. 15 /\ Level(i) \in 0 .. 15
      BY <1>0, <3>1, StartupAssumption DEF StartupAssumption, Level
    <3>. QED BY <1>0, <3>1, <3>2
  <2>. QED BY <2>2, <2>3, <2>4, <2>5, <2>6, <2>7, <2>8 DEF KernelNext, Main, HandlerStep, Interrupts
<1>. QED BY <1>1, <1>2, <1>3, <1>4, <1>5 DEF StartTypeOK, Places

-----------------------------------------------------------------------------
(* The properties.                                                         *)

\* All five parts hold at every step of the start, whatever is printed and
\* whichever interrupts arrive.
THEOREM StartInvInvariant == StartSpec => []StartInv
<1>1. StartInv /\ [KernelNext]_startVars => StartInv'
  BY ControlStep, CursorStep, TablesStep, ServiceStep, SerialStep DEF StartInv
<1>. QED BY <1>1, StartInvInit, PTL DEF StartSpec

\* The main thread's copies of the cursor may be stale, but no interleaving with
\* a printing handler makes vga_putc store outside the text screen.
THEOREM ConsoleIntactHolds == StartSpec => []ConsoleIntact
<1>1. StartInv => ConsoleIntact
  BY StartupAssumption DEF StartInv, CursorInv, ConsoleIntact, StartupAssumption
<1>. QED BY <1>1, StartInvInvariant, PTL

\* The port loses no more than the unchecked bytes of "Boot" and one byte for each
\* interrupt, whatever is printed.
THEOREM SerialLossesHolds == StartSpec => []SerialLosses
BY FewLost, StartInvInvariant, PTL

\* Gates are changed while interrupts are enabled, a store at a time; no
\* interrupt is led astray by one that is half written, and none stays in service.
THEOREM InterruptsReturnHolds == StartSpec => []InterruptsReturn
BY Returned, StartInvInvariant, PTL
=============================================================================
