------------------------------ MODULE Startup -------------------------------
(***************************************************************************)
(* The start of the kernel, from start() in kernel/main.c to the terminal: *)
(* interrupt gates, the two interrupt controllers, and what is printed on  *)
(* the text screen and the serial port.  From i686_IRQ_Initialize on, a    *)
(* handler may run between any two loads and stores of the main thread,    *)
(* and prints through the same vga_putc.                                   *)
(***************************************************************************)
EXTENDS Integers, Sequences

CONSTANTS
  VGA_WIDTH, VGA_HEIGHT,
  Text,        \* what is printed: by start() first of all ("boot") and at each of
               \* Messages, by the handlers
  Address,     \* of the stubs: the low and the high half
  Lines,       \* the interrupt lines that devices use
  MaxEvents    \* bound: the interrupts of one start

Newline == "\n"

\* The statements that print, each with the one after it.
After == [memory |-> "fb", fb |-> "bga", bga |-> "wm", wm |-> "mouse", mouse |-> "gate44",
          keyboard |-> "init", init |-> "gate33"]
Messages == {"memory", "fb", "bga", "wm", "mouse", "keyboard", "init"}
ToHandlers == {"irq", "interrupt", "exception", "minimize"}

Stubs == {"generated", "mouse", "keyboard"}

ASSUME StartupAssumption ==
  /\ VGA_WIDTH \in Nat \ {0} /\ VGA_HEIGHT \in Nat \ {0, 1}
  /\ \A m \in Messages \cup ToHandlers : Text[m] \in Seq(STRING)
  /\ Text.boot \in Seq(STRING) \ {<<>>}
  /\ Lines \subseteq 0 .. 15 /\ 2 \notin Lines /\ MaxEvents \in Nat

\* The kernel's code is smaller than 64 KiB and begins on such a boundary; stubs
\* that do the same differ in the low half.
ASSUME SegmentAssumption ==
  /\ Address \in [Stubs -> [low : Nat, high : Nat]]
  /\ \A s, t \in Stubs : Address[s].high = Address[t].high
  /\ \A s, t \in Stubs : Address[s].low = Address[t].low => s = t

\* The vectors that are raised: NMI, and the lines from 0x20 on.
NMI == 2
Offset == 32
Vectors == {NMI} \cup {Offset + i : i \in 0 .. 15}

VARIABLES
  (* The main thread: statement, place in vga_putc or SetGate, the text left, *)
  (* the character, and two registers.                                        *)
  at, put, out, ch, r, k,
  g_VgaX, g_VgaY,
  thr,             \* the serial port's transmitter holds a byte
  lost,            \* ghost: the bytes sent to a transmitter that held one already
  g_IDT,           \* the gates: low and high half of the address, present
  g_ISRHandlers,   \* the vectors that i686_IRQ_Handler is registered for
  timer,           \* is the timer's handler in g_IRQHandlers?
  enabled,         \* the interrupt flag
  imr, irr, isr,   \* of both controllers: masked, requested, in service
  handler,         \* the handler at work: vector, text left, what follows
  events

mainVars == <<at, put, out, ch, r, k>>
screen == <<g_VgaX, g_VgaY>>
uart == <<thr, lost>>
tables == <<g_IDT, g_ISRHandlers, timer, enabled>>
pic == <<imr, irr, isr>>
startVars == <<mainVars, screen, uart, tables, pic, handler, events>>

Idle == [vector |-> 0, say |-> <<>>, then |-> "none"]
NoGate == [low |-> 0, high |-> 0, present |-> FALSE]

\* A character, or none.
Characters == STRING \cup {"", "\r"}

\* Types, and where the main thread can be in its statement.
StartTypeOK ==
  /\ put \in {"idle", "char", "wait", "send", "home", "line", "next", "wait2", "send2",
              "row", "col", "cell", "right", "step", "width", "wrap", "wrapline", "wrapnext",
              "height", "scroll", "up", "flags", "high"}
  /\ out \in Seq(STRING) /\ ch \in Characters
  /\ {thr, timer, enabled} \subseteq BOOLEAN /\ lost \in Nat
  /\ imr \subseteq 0 .. 15 /\ irr \subseteq Lines /\ isr \subseteq 0 .. 15
  /\ g_ISRHandlers \subseteq Vectors
  /\ handler.say \in Seq(Characters)

-----------------------------------------------------------------------------
(* The main thread between and in its statements.                          *)

Halts == {"panic", "reset", "wild"}
Ends == {"done"} \cup Halts
Alive == at \notin Ends
Running == Alive /\ handler = Idle
Statement(here, there) == Running /\ put = "idle" /\ at = here /\ at' = there
KeepPutc == UNCHANGED <<put, out, ch, r, k>>

\* A byte for the transmitter takes the place of one that is still there.
Transmitted == thr' = TRUE /\ lost' = IF thr THEN lost + 1 ELSE lost

\* memset.
ClearMemory ==
  /\ Statement("boot", "direct")
  /\ g_VgaX' = 0 /\ g_VgaY' = 0
  /\ g_IDT' = [v \in Vectors |-> NoGate] /\ g_ISRHandlers' = {} /\ timer' = FALSE
  /\ out' = Text.boot
  /\ UNCHANGED <<put, ch, r, k, uart, enabled, pic, handler, events>>

\* "Boot", byte by byte without a look at the transmitter.
DirectWrite ==
  /\ Statement("direct", IF Len(out) = 1 THEN "gates" ELSE "direct")
  /\ out' = Tail(out) /\ Transmitted
  /\ UNCHANGED <<put, ch, r, k, screen, tables, pic, handler, events>>

i686_ISR_InitializeGates ==
  /\ Statement("gates", "enable")
  /\ g_IDT' = [v \in Vectors |-> [low |-> Address["generated"].low,
                                  high |-> Address["generated"].high, present |-> FALSE]]
  /\ UNCHANGED <<screen, uart, g_ISRHandlers, timer, enabled, pic, handler, events>>
  /\ KeepPutc

\* Every gate but that of 0x80, which nobody raises.
i686_IDT_EnableGate ==
  /\ Statement("enable", "pic")
  /\ g_IDT' = [v \in Vectors |-> [g_IDT[v] EXCEPT !.present = TRUE]]
  /\ UNCHANGED <<screen, uart, g_ISRHandlers, timer, enabled, pic, handler, events>>
  /\ KeepPutc

\* The last two words written clear the masks.
i686_PIC_Configure ==
  /\ Statement("pic", "register")
  /\ imr' = {} /\ irr' = {} /\ isr' = {}
  /\ UNCHANGED <<screen, uart, tables, handler, events>> /\ KeepPutc

i686_ISR_RegisterHandler ==
  /\ Statement("register", "sti")
  /\ g_ISRHandlers' = {Offset + i : i \in 0 .. 15}
  /\ UNCHANGED <<screen, uart, g_IDT, timer, enabled, pic, handler, events>> /\ KeepPutc

i686_EnableInterrupts ==
  /\ Statement("sti", "timer")
  /\ enabled' = TRUE
  /\ UNCHANGED <<screen, uart, g_IDT, g_ISRHandlers, timer, pic, handler, events>>
  /\ KeepPutc

i686_IRQ_RegisterHandler ==
  /\ Statement("timer", "clear")
  /\ timer' = TRUE
  /\ UNCHANGED <<screen, uart, g_IDT, g_ISRHandlers, enabled, pic, handler, events>>
  /\ KeepPutc

\* The cells, then one store for each coordinate.
vga_clrscr ==
  /\ \/ Statement("clear", "clear2") /\ g_VgaX' = 0 /\ UNCHANGED g_VgaY
     \/ Statement("clear2", "memory") /\ g_VgaY' = 0 /\ UNCHANGED g_VgaX
  /\ UNCHANGED <<uart, tables, pic, handler, events>> /\ KeepPutc

\* Store by store; the segment and the flags are those that the gate has already.
SetGate(v, stub, here, there) ==
  /\ Running /\ at = here
  /\ \/ /\ put = "idle" /\ put' = "flags" /\ UNCHANGED at
        /\ g_IDT' = [g_IDT EXCEPT ![v].low = Address[stub].low]
     \/ /\ put = "flags" /\ put' = "high" /\ UNCHANGED at
        /\ g_IDT' = [g_IDT EXCEPT ![v].present = TRUE]
     \/ /\ put = "high" /\ put' = "idle" /\ at' = there
        /\ g_IDT' = [g_IDT EXCEPT ![v].high = Address[stub].high]
  /\ UNCHANGED <<out, ch, r, k, screen, uart, g_ISRHandlers, timer, enabled, pic, handler,
                 events>>

\* The port is chosen, but the mask is read from and written to the first
\* controller in any case.
i686_PIC_Unmask(irq, here, there) ==
  /\ Statement(here, there)
  /\ imr' = imr \ {IF irq < 8 THEN irq ELSE irq - 8}
  /\ UNCHANGED <<screen, uart, tables, irr, isr, handler, events>> /\ KeepPutc

\* What the two drivers do for their interrupts.
Drivers == \/ SetGate(44, "mouse", "gate44", "unmask12")
           \/ i686_PIC_Unmask(12, "unmask12", "keyboard")
           \/ SetGate(33, "keyboard", "gate33", "unmask1")
           \/ i686_PIC_Unmask(1, "unmask1", "hook")

\* terminal_init: from now on vga_putc hands every character to the terminal.
vga_set_putc_hook ==
  /\ Statement("hook", "done")
  /\ UNCHANGED <<screen, uart, tables, pic, handler, events>> /\ KeepPutc

-----------------------------------------------------------------------------
(* vga_puts and vga_putc on the main thread, as the compiler orders their   *)
(* loads and stores.  The messages have no other control character.         *)

KeepRest == UNCHANGED <<tables, pic, handler, events>>
Place(here, there) == Running /\ put = here /\ put' = there /\ KeepRest
KeepText == UNCHANGED <<at, out, ch>>
KeepRegisters == UNCHANGED <<r, k>>

Say == /\ at \in Messages /\ Place("idle", "char")
       /\ out' = Text[at]
       /\ UNCHANGED <<at, ch, r, k, screen, uart>>

vga_puts ==
  /\ Running /\ put = "char"
  /\ IF out = <<>> THEN put' = "idle" /\ at' = After[at] /\ UNCHANGED <<out, ch>>
     ELSE put' = "wait" /\ ch' = Head(out) /\ out' = Tail(out) /\ UNCHANGED at
  /\ UNCHANGED <<r, k, screen, uart>> /\ KeepRest

\* The transmitter must be empty; then a byte is sent.
Ready(here, there) ==
  /\ Place(here, there) /\ ~thr
  /\ KeepText /\ KeepRegisters /\ UNCHANGED <<screen, uart>>

Send(there) ==
  /\ Place(IF put = "send2" THEN "send2" ELSE "send", there)
  /\ Transmitted
  /\ KeepText /\ KeepRegisters /\ UNCHANGED screen

SendChar == put = "send" /\ Send(IF ch = Newline THEN "home" ELSE "row")
SendReturn == put = "send2" /\ Send("width")
WaitChar == Ready("wait", "send")
WaitReturn == Ready("wait2", "send2")

LoadY(here, there) ==
  /\ Place(here, there) /\ r' = g_VgaY
  /\ KeepText /\ UNCHANGED <<k, screen, uart>>
LoadX(here, there) ==
  /\ Place(here, there) /\ k' = g_VgaX
  /\ KeepText /\ UNCHANGED <<r, screen, uart>>
StoreY(here, there, v) ==
  /\ Place(here, there) /\ g_VgaY' = v
  /\ KeepText /\ KeepRegisters /\ UNCHANGED <<g_VgaX, uart>>
StoreX(here, there, v) ==
  /\ Place(here, there) /\ g_VgaX' = v
  /\ KeepText /\ KeepRegisters /\ UNCHANGED <<g_VgaY, uart>>

\* Mutant: the line feed is followed by the carriage return at once.
NewLineMut == \/ StoreX("home", "line", 0) \/ LoadY("line", "next")
              \/ StoreY("next", "send2", r + 1)

NewLine == \/ StoreX("home", "line", 0) \/ LoadY("line", "next")
           \/ StoreY("next", "wait2", r + 1)

\* vga_putentry, and g_VgaX++.
PutEntry ==
  \/ LoadY("row", "col") \/ LoadX("col", "cell")
  \/ Place("cell", "right") /\ KeepText /\ KeepRegisters /\ UNCHANGED <<screen, uart>>
  \/ LoadX("right", "step") \/ StoreX("step", "width", k + 1)

\* Mutant: the last column is not the end of the line.
TestWidthMut ==
  /\ Place("width", IF g_VgaX > VGA_WIDTH THEN "wrap" ELSE "height")
  /\ KeepText /\ KeepRegisters /\ UNCHANGED <<screen, uart>>

TestWidth ==
  /\ Place("width", IF g_VgaX >= VGA_WIDTH THEN "wrap" ELSE "height")
  /\ KeepText /\ KeepRegisters /\ UNCHANGED <<screen, uart>>

Wrap == \/ StoreX("wrap", "wrapline", 0) \/ LoadY("wrapline", "wrapnext")
        \/ StoreY("wrapnext", "height", r + 1)

\* The end of a character; the registers are not used any more.
TestHeight ==
  /\ Place("height", IF g_VgaY >= VGA_HEIGHT THEN "scroll" ELSE "char")
  /\ ch' = "" /\ r' = 0 /\ k' = 0
  /\ UNCHANGED <<at, out, screen, uart>>

\* vga_scroll(1): the rows, then the cursor.
vga_scroll ==
  \/ LoadY("scroll", "up")
  \/ /\ Place("up", "char") /\ g_VgaY' = r - 1 /\ r' = 0
     /\ KeepText /\ UNCHANGED <<k, g_VgaX, uart>>

vga_putc == \/ WaitChar \/ SendChar \/ NewLine \/ WaitReturn \/ SendReturn
            \/ PutEntry \/ TestWidth \/ Wrap \/ TestHeight \/ vga_scroll

Main == \/ ClearMemory \/ DirectWrite
        \/ i686_ISR_InitializeGates \/ i686_IDT_EnableGate
        \/ i686_PIC_Configure \/ i686_ISR_RegisterHandler \/ i686_EnableInterrupts
        \/ i686_IRQ_RegisterHandler \/ vga_clrscr \/ Drivers \/ vga_set_putc_hook
        \/ Say \/ vga_puts \/ vga_putc

-----------------------------------------------------------------------------
(* Interrupts.                                                             *)

KeepMain == UNCHANGED <<mainVars, tables>>

\* The stub a gate leads to: an address that is put together of two leads astray.
Target(gate) ==
  IF ~gate.present THEN "none"
  ELSE IF \E s \in Stubs : Address[s] = [low |-> gate.low, high |-> gate.high]
  THEN CHOOSE s \in Stubs : Address[s] = [low |-> gate.low, high |-> gate.high]
  ELSE "wild"

\* What i686_IRQ_Handler does before it ends the interrupt: only the timer has a
\* handler, and that prints nothing.
i686_IRQ_Handler(irq) ==
  [vector |-> Offset + irq, say |-> IF irq = 0 /\ timer THEN <<>> ELSE Text.irq,
   then |-> "eoi"]

i686_ISR_Handler(v) ==
  IF v \in g_ISRHandlers THEN i686_IRQ_Handler(v - Offset)
  ELSE IF v >= Offset THEN [vector |-> v, say |-> Text.interrupt, then |-> "iret"]
  ELSE [vector |-> v, say |-> Text.exception, then |-> "panic"]

\* The drivers print nothing, but a click may minimize the notepad, which is
\* there a little before the terminal.
Handlers(v) ==
  LET target == Target(g_IDT[v])
  IN CASE target = "generated" -> {i686_ISR_Handler(v)}
       [] target = "none" -> {[vector |-> v, say |-> <<>>, then |-> "reset"]}
       [] target = "wild" -> {[vector |-> v, say |-> <<>>, then |-> "wild"]}
       [] OTHER -> {[vector |-> v, say |-> <<>>, then |-> "eoi"]} \cup
                   IF target = "mouse" /\ at = "hook"
                   THEN {[vector |-> v, say |-> Text.minimize, then |-> "eoi"]} ELSE {}

Enter(v) == handler' \in Handlers(v) /\ KeepMain /\ UNCHANGED <<screen, uart>>

Event == Alive /\ events < MaxEvents /\ events' = events + 1

\* A device raises its line; the controller requests it until it is accepted.
Request ==
  /\ Event
  /\ \E i \in Lines : irr' = irr \cup {i}
  /\ KeepMain /\ UNCHANGED <<screen, uart, imr, isr, handler>>

\* The second controller's lines arrive on line 2 of the first.
Level(i) == IF i < 8 THEN i ELSE 2
Before(i, j) == Level(i) < Level(j) \/ (Level(i) = Level(j) /\ i < j)

\* The line before all others that are in service or requested.
Accept ==
  /\ Running /\ enabled
  /\ \E i \in {l \in irr : {l, Level(l)} \cap imr = {}} :
       /\ \A j \in isr \cup (irr \ (imr \cup {i})) : Before(i, j)
       /\ irr' = irr \ {i} /\ isr' = isr \cup {i, Level(i)}
       /\ Enter(Offset + i)
  /\ UNCHANGED <<imr, events>>

\* A line that drops again before it is accepted counts as line 7, and is not in
\* service.
Spurious ==
  /\ Event /\ Running /\ enabled /\ 7 \notin imr
  /\ Enter(Offset + 7) /\ UNCHANGED pic

\* The interrupt that no flag holds back.
NonMaskable ==
  /\ Event /\ Running
  /\ Enter(NMI) /\ UNCHANGED pic

-----------------------------------------------------------------------------
(* The handlers, with interrupts disabled.                                 *)

At(then) == Alive /\ handler.say = <<>> /\ handler.then = then
Printing == handler.say # <<>> /\ ~thr

\* A character goes to the port and to the screen, at the cursor, wherever the
\* main thread has left that.
Column == IF Head(handler.say) = Newline THEN 0 ELSE g_VgaX + 1
Row == IF Head(handler.say) = Newline \/ Column >= VGA_WIDTH THEN g_VgaY + 1 ELSE g_VgaY

HandlerPutc ==
  /\ Printing
  /\ Transmitted
  /\ IF Head(handler.say) = "\r" THEN UNCHANGED screen
     ELSE /\ g_VgaX' = IF Column >= VGA_WIDTH THEN 0 ELSE Column
          /\ g_VgaY' = IF Row >= VGA_HEIGHT THEN Row - 1 ELSE Row
  /\ handler' = [handler EXCEPT !.say =
       IF Head(@) = Newline THEN <<"\r">> \o Tail(@) ELSE Tail(@)]
  /\ KeepMain /\ UNCHANGED <<pic, events>>

Highest(S) == {i \in S : \A j \in S : i <= j}

\* Mutant: the second controller is left out.
i686_PIC_SendEndOfInterruptMut(irq) == isr' = isr \ Highest(isr \cap 0 .. 7)

i686_PIC_SendEndOfInterrupt(irq) ==
  isr' = isr \ (Highest(isr \cap 0 .. 7)
                \cup IF irq >= 8 THEN Highest(isr \cap 8 .. 15) ELSE {})

EndOfInterrupt ==
  /\ At("eoi")
  /\ i686_PIC_SendEndOfInterrupt(handler.vector - Offset)
  /\ handler' = [handler EXCEPT !.then = "iret"]
  /\ KeepMain /\ UNCHANGED <<screen, uart, imr, irr, events>>

Return ==
  /\ At("iret")
  /\ handler' = Idle
  /\ KeepMain /\ UNCHANGED <<screen, uart, pic, events>>

\* i686_Panic, or the end of the machine.
Halt ==
  /\ Alive /\ handler.say = <<>> /\ handler.then \in Halts
  /\ at' = handler.then /\ handler' = Idle
  /\ UNCHANGED <<put, out, ch, r, k, tables, screen, uart, pic, events>>

HandlerStep == HandlerPutc \/ EndOfInterrupt \/ Return \/ Halt

\* The port has sent its byte.
Transmit == /\ thr /\ thr' = FALSE
            /\ KeepMain /\ UNCHANGED <<lost, screen, pic, handler, events>>

-----------------------------------------------------------------------------
\* As the loader leaves the machine: interrupts disabled, the controllers as the
\* firmware has set them up.
KernelInit ==
  /\ at = "boot" /\ put = "idle" /\ out = <<>> /\ ch = "" /\ r = 0 /\ k = 0
  /\ g_VgaX = 0 /\ g_VgaY = 0 /\ thr = FALSE /\ lost = 0
  /\ g_IDT = [v \in Vectors |-> NoGate] /\ g_ISRHandlers = {}
  /\ timer = FALSE /\ enabled = FALSE
  /\ imr \in {{}, Lines} /\ irr = {} /\ isr = {} /\ handler = Idle /\ events = 0

Interrupts == Request \/ Accept \/ Spurious \/ NonMaskable
KernelNext == Main \/ HandlerStep \/ Transmit \/ Interrupts

StartSpec == KernelInit /\ [][KernelNext]_startVars

-----------------------------------------------------------------------------
(* Properties.                                                             *)

\* A handler that prints, and so moves the cursor, between any two instructions
\* of vga_putc leaves a cursor on the screen, but for the column and the row
\* that vga_putc itself is about to leave; the main thread stores on the screen,
\* and a handler at most in the row after it.
ConsoleIntact ==
  /\ g_VgaX \in 0 .. VGA_WIDTH /\ g_VgaY \in 0 .. VGA_HEIGHT
  /\ put = "cell" => k < VGA_WIDTH /\ r < VGA_HEIGHT
  /\ Running /\ put \in {"idle", "char"} => g_VgaX < VGA_WIDTH /\ g_VgaY < VGA_HEIGHT

\* Of all that start() and the handlers send, the serial port loses at most the
\* bytes of "Boot" but one, which are sent without a look at the transmitter, and one
\* byte for each interrupt: its handler may print after the main thread has looked and
\* before it sends (vga_putc).  Neither a line's second byte nor a long message of a
\* handler costs another.
SerialLosses == lost <= Len(Text.boot) - 1 + events

\* Every interrupt finds a handler, and leaves nothing in service that would keep
\* the next one away; in the end the devices in use are unmasked and lead to
\* their drivers.
InterruptsReturn ==
  /\ at \notin {"wild", "reset"} \/ ~enabled
  /\ Running => isr = {}
  /\ at = "done" => /\ {0, 1, 2, 12} \cap imr = {}
                    /\ Target(g_IDT[33]) = "keyboard" /\ Target(g_IDT[44]) = "mouse"
                    /\ g_ISRHandlers = Vectors \ {NMI} /\ timer
=============================================================================
