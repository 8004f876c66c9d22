-------------------------------- MODULE Input --------------------------------
(***************************************************************************)
(* drivers/ps2mouse.c and drivers/keyboard.c.  Both devices share the one  *)
(* output buffer of the 8042 controller; the main thread polls it while it *)
(* brings up the mouse, with interrupts already enabled, and the handlers  *)
(* of IRQ1 and IRQ12 read it afterwards.  The controller, the devices and  *)
(* the interrupt controller are modelled from how the drivers use them.    *)
(***************************************************************************)
EXTENDS Integers, Sequences, FiniteSets

CONSTANTS
  W, H,          \* fb_width(), fb_height()
  Packets,       \* what the mouse sends: triples of bytes
  TimesOut,      \* may mouse_wait run out before the answer comes?
  Keys,          \* the scan codes of the keys the user has
  MaxKeys,       \* bound: the scan codes the keyboard holds back
  MaxDown        \* bound: the keys held down at once

ACK == 250       \* 0xFA
LShift == 42     \* 0x2A
RShift == 54     \* 0x36
CapsLock == 58   \* 0x3A
Shifts == {LShift, RShift}
Letters == (16 .. 25) \cup (30 .. 38) \cup (44 .. 50)
\* 1 9 0 - = [ ] ; ' , . /, whose shifted characters the driver knows ...
Symbols == {2, 10, 11, 12, 13, 26, 27, 39, 40, 51, 52, 53}
\* ... and 2 to 8, backquote and backslash, whose shifted characters it lacks.
Lacking == (3 .. 9) \cup {41, 43}
Printing == Letters \cup Symbols \cup Lacking

Bit(v, n) == (v \div 2 ^ n) % 2 = 1
Signed8(v) == IF v >= 128 THEN v - 256 ELSE v

\* Bit 3 is always set in the first byte of a packet.
ASSUME InputAssumption ==
  /\ W \in Nat \ {0} /\ H \in Nat \ {0} /\ MaxKeys \in Nat /\ MaxDown \in Nat /\ TimesOut \in BOOLEAN
  /\ Packets \subseteq [1 .. 3 -> 0 .. 255]
  /\ \A p \in Packets : Bit(p[1], 3)
  /\ Keys \subseteq 1 .. 58

VARIABLES
  (* The kernel. *)
  pc,              \* the statement of mouse_init, keyboard_init; "ready" after them
  status,          \* the local of mouse_init
  gates,           \* the interrupts whose final handler is in the IDT
  g_MouseCycle, g_MouseByte, g_MouseX, g_MouseY, g_MouseButtons,
  g_ShiftDown, g_CapsLock,
  (* The hardware. *)
  obf,             \* is the output buffer full?
  data,            \* its byte; read again, it keeps its value
  config,          \* the controller's configuration byte
  ctlQ, kbdQ, auxQ,   \* bytes waiting for the output buffer
  streaming,       \* has the mouse been told to send packets?
  irr,             \* the interrupts requested
  (* Ghosts. *)
  down, caps,      \* the keys held down; what CapsLock should be
  early,           \* input came before "ready", or a wait timed out
  muddled,         \* both shift keys have been down at once, or CapsLock until it
                   \* repeats, or early: from then on caps is not kept
  mistyped         \* not muddled, and yet the latest key gave another character than
                   \* meant, or a key of Lacking not its plain one

mouseVars == <<g_MouseCycle, g_MouseByte, g_MouseX, g_MouseY, g_MouseButtons>>
keyVars == <<g_ShiftDown, g_CapsLock, mistyped>>
initVars == <<pc, status, gates>>
queues == <<ctlQ, kbdQ, auxQ>>
userVars == <<down, caps, muddled>>
vars == <<initVars, mouseVars, keyVars, obf, data, config, queues, streaming, irr,
          userVars, early>>

\* A byte and, as a ghost, where it belongs: the source and, for a packet, the
\* position in it; for a key, whether the shifted character is meant.
Byte == [src : {"kbd", "aux", "ctl"}, v : 0 .. 255, tag : 0 .. 3]
NoByte == [src |-> "kbd", v |-> 0, tag |-> 0]
AckByte == [src |-> "aux", v |-> ACK, tag |-> 3]

InputTypeOK ==
  /\ pc \in {"enable", "ask", "config", "write", "default", "ack1", "stream", "ack2",
             "gate12", "center", "gate1", "ready"}
  /\ status \in 0 .. 255 /\ config \in 0 .. 255
  /\ gates \subseteq {1, 12} /\ irr \subseteq {1, 12}
  /\ g_MouseCycle \in 0 .. 2 /\ g_MouseByte \in [0 .. 2 -> Byte]
  /\ g_MouseX \in Int /\ g_MouseY \in Int /\ g_MouseButtons \in 0 .. 7
  /\ data \in Byte /\ ctlQ \in Seq(Byte) /\ kbdQ \in Seq(Byte) /\ auxQ \in Seq(Byte)
  /\ {g_ShiftDown, g_CapsLock, obf, streaming, caps, early, muddled, mistyped} \subseteq BOOLEAN
  /\ down \subseteq Keys

-----------------------------------------------------------------------------
(* mouse_init and keyboard_init, on the main thread.  A requested interrupt *)
(* is taken before the next statement.                                     *)

Goto(from, to) == irr = {} /\ pc = from /\ pc' = to
KeepHandlers == UNCHANGED <<mouseVars, keyVars, userVars>>

Enable ==  \* command 0xA8
  /\ Goto("enable", "ask")
  /\ config' = IF Bit(config, 5) THEN config - 32 ELSE config
  /\ UNCHANGED <<status, gates, obf, data, queues, streaming, irr, early>>
  /\ KeepHandlers

Ask ==     \* command 0x20: the configuration byte, please
  /\ Goto("ask", "config")
  /\ ctlQ' = Append(ctlQ, [src |-> "ctl", v |-> config, tag |-> 0])
  /\ UNCHANGED <<status, gates, obf, data, config, kbdQ, auxQ, streaming, irr, early>>
  /\ KeepHandlers

\* mouse_wait(0) and a read of the port: when the wait times out, the read
\* returns what the port held before.
Polled == /\ obf \/ TimesOut
          /\ obf' = FALSE
          /\ early' = (early \/ ~obf)
          /\ UNCHANGED <<gates, data, config, queues, streaming, irr>>
          /\ KeepHandlers

ReadConfig ==
  /\ Goto("config", "write")
  /\ status' = IF Bit(data.v, 1) THEN data.v ELSE data.v + 2
  /\ Polled

WriteConfig ==  \* command 0x60
  /\ Goto("write", "default")
  /\ config' = status /\ status' = 0
  /\ UNCHANGED <<gates, obf, data, queues, streaming, irr, early>>
  /\ KeepHandlers

\* mouse_write: the mouse acknowledges every command byte.
Command(from, to, on) ==
  /\ Goto(from, to)
  /\ auxQ' = Append(auxQ, AckByte)
  /\ streaming' = on
  /\ UNCHANGED <<status, gates, obf, data, config, ctlQ, kbdQ, irr, early>>
  /\ KeepHandlers

SetDefault == Command("default", "ack1", FALSE)   \* 0xF6
Stream == Command("stream", "ack2", TRUE)         \* 0xF4

\* Mutant: the second acknowledgement is left in the output buffer.
mouse_readMut ==
  /\ \/ Goto("ack1", "stream") /\ Polled
     \/ /\ Goto("ack2", "gate12")
        /\ UNCHANGED <<gates, obf, data, config, queues, streaming, irr, early>>
        /\ KeepHandlers
  /\ UNCHANGED status

mouse_read ==
  /\ Goto("ack1", "stream") \/ Goto("ack2", "gate12")
  /\ Polled /\ UNCHANGED status

\* i686_IDT_SetGate.
SetGate(from, to, irq) ==
  /\ Goto(from, to)
  /\ gates' = gates \cup {irq}
  /\ UNCHANGED <<status, obf, data, config, queues, streaming, irr, early>>
  /\ KeepHandlers

MouseGate == SetGate("gate12", "center", 12)
keyboard_init == SetGate("gate1", "ready", 1)

Center ==
  /\ Goto("center", "gate1")
  /\ g_MouseX' = W \div 2 /\ g_MouseY' = H \div 2
  /\ UNCHANGED <<status, gates, g_MouseCycle, g_MouseByte, g_MouseButtons, keyVars,
                 obf, data, config, queues, streaming, irr, userVars, early>>

Main == \/ Enable \/ Ask \/ ReadConfig \/ WriteConfig \/ SetDefault \/ Stream
        \/ mouse_read \/ MouseGate \/ Center \/ keyboard_init

-----------------------------------------------------------------------------
(* The interrupt handlers, each in one step with interrupts disabled.      *)

\* i686_IRQ_Handler before the driver has set its gate: "Unhandled IRQ".  The
\* byte stays in the output buffer.
Unhandled ==
  /\ \E irq \in irr \ gates : irr' = irr \ {irq}
  /\ UNCHANGED <<initVars, obf, data, config, queues, streaming, early>>
  /\ KeepHandlers

\* Mutant: only the left shift key's release counts.
ModifiersMut(v) ==
  /\ g_ShiftDown' = IF v \in {LShift, RShift} THEN TRUE
                    ELSE IF v = LShift + 128 THEN FALSE ELSE g_ShiftDown
  /\ g_CapsLock' = IF v = CapsLock THEN ~g_CapsLock ELSE g_CapsLock

Modifiers(v) ==
  /\ g_ShiftDown' = IF v \in {LShift, RShift} THEN TRUE
                    ELSE IF v \in {LShift + 128, RShift + 128} THEN FALSE ELSE g_ShiftDown
  /\ g_CapsLock' = IF v = CapsLock THEN ~g_CapsLock ELSE g_CapsLock

\* Does the key give its shifted character?  Capitals follow from both modifiers,
\* the twelve symbols from Shift; every other key has one character only.
Shifted(v) == IF v \in Letters THEN g_ShiftDown # g_CapsLock
              ELSE v \in Symbols /\ g_ShiftDown

\* The handler does not ask whose byte it reads.
keyboard_handler_c ==
  /\ 1 \in irr \cap gates
  /\ irr' = irr \ {1} /\ obf' = FALSE
  /\ Modifiers(data.v)
  /\ mistyped' = /\ data.v \in Printing /\ ~muddled
                  /\ Shifted(data.v) # (data.tag = 1 /\ data.v \notin Lacking)
  /\ UNCHANGED <<initVars, mouseVars, data, config, queues, streaming, userVars, early>>

\* Mutant: the upper limit is not applied.
ClampMut(n, size) == IF n < 0 THEN 0 ELSE n

Clamp(n, size) == IF n < 0 THEN 0 ELSE IF n >= size THEN size - 1 ELSE n

\* Does the byte start a packet?
First == g_MouseCycle = 0 /\ Bit(data.v, 3)

\* Mutant: the mask lets bit 3 through to the buttons.
ThirdMut ==
  /\ g_MouseCycle = 2
  /\ g_MouseByte' = [n \in 0 .. 2 |-> NoByte]
  /\ g_MouseCycle' = 0
  /\ g_MouseButtons' = g_MouseByte[0].v % 16
  /\ g_MouseX' = Clamp(g_MouseX + Signed8(g_MouseByte[1].v), W)
  /\ g_MouseY' = Clamp(g_MouseY - Signed8(data.v), H)

\* The third byte: the packet is complete.  The model forgets its bytes, as it
\* does the local of mouse_init after its last use.
Third ==
  /\ g_MouseCycle = 2
  /\ g_MouseByte' = [n \in 0 .. 2 |-> NoByte]
  /\ g_MouseCycle' = 0
  /\ g_MouseButtons' = g_MouseByte[0].v % 8
  /\ g_MouseX' = Clamp(g_MouseX + Signed8(g_MouseByte[1].v), W)
  /\ g_MouseY' = Clamp(g_MouseY - Signed8(data.v), H)

\* Mutant: after the second byte the cycle starts again.
StoreMut(n) ==
  /\ g_MouseByte' = [g_MouseByte EXCEPT ![n] = data]
  /\ g_MouseCycle' = IF n = 1 THEN 0 ELSE n + 1
  /\ UNCHANGED <<g_MouseX, g_MouseY, g_MouseButtons>>

Store(n) ==
  /\ g_MouseByte' = [g_MouseByte EXCEPT ![n] = data]
  /\ g_MouseCycle' = n + 1
  /\ UNCHANGED <<g_MouseX, g_MouseY, g_MouseButtons>>

mouse_handler ==
  /\ 12 \in irr \cap gates
  /\ irr' = irr \ {12}
  /\ IF data.src # "aux" THEN UNCHANGED <<mouseVars, obf>>  \* status bit 5
     ELSE /\ obf' = FALSE
          /\ \/ First /\ Store(0)
             \/ g_MouseCycle = 0 /\ ~First /\ UNCHANGED mouseVars
             \/ g_MouseCycle = 1 /\ Store(1)
             \/ Third
  /\ UNCHANGED <<initVars, keyVars, data, config, queues, streaming, userVars, early>>

Handlers == Unhandled \/ keyboard_handler_c \/ mouse_handler

-----------------------------------------------------------------------------
(* The controller and the user.                                            *)

\* The next byte of the sequence q goes into the empty output buffer, and
\* requests the interrupt irq if bit b of the configuration enables it.
Deliver(q, irq, b) ==
  /\ ~obf /\ q # <<>>
  /\ obf' = TRUE /\ data' = Head(q)
  /\ irr' = IF Bit(config, b) THEN irr \cup {irq} ELSE irr

Controller ==
  /\ \/ Deliver(ctlQ, 1, 0) /\ ctlQ' = Tail(ctlQ) /\ UNCHANGED <<kbdQ, auxQ>>
     \/ /\ ctlQ = <<>> /\ ~Bit(config, 4)
        /\ Deliver(kbdQ, 1, 0) /\ kbdQ' = Tail(kbdQ) /\ UNCHANGED <<ctlQ, auxQ>>
     \/ /\ ctlQ = <<>> /\ ~Bit(config, 5)
        /\ Deliver(auxQ, 12, 1) /\ auxQ' = Tail(auxQ) /\ UNCHANGED <<ctlQ, kbdQ>>
  /\ UNCHANGED <<initVars, config, streaming, early>>
  /\ KeepHandlers

UserInput == /\ early' = (early \/ pc # "ready")
             /\ UNCHANGED <<initVars, mouseVars, keyVars, obf, data, config, ctlQ,
                            streaming, irr>>

\* Does the user mean the shifted character of the key?  Every printing key of a
\* keyboard has one.
Meant(k) == LET shift == down \cap Shifts # {}
            IN IF k \in Letters THEN caps # shift ELSE k \in Symbols \cup Lacking /\ shift

\* The keyboard sends a byte for the key k.
Scan(k, v) ==
  /\ Len(kbdQ) < MaxKeys
  /\ kbdQ' = Append(kbdQ, [src |-> "kbd", v |-> v,
                           tag |-> IF Meant(k) /\ ~muddled' THEN 1 ELSE 0])
  /\ UserInput /\ UNCHANGED auxQ

\* The user presses a key, or releases it.
Key(k) ==
  /\ down' = IF k \in down THEN down \ {k} ELSE down \cup {k}
  /\ Cardinality(down') <= MaxDown
  /\ muddled' = (muddled \/ early \/ pc # "ready" \/ Shifts \subseteq down')
  /\ caps' = (~muddled' /\ (caps # (k = CapsLock /\ k \notin down)))
  /\ Scan(k, IF k \in down THEN k + 128 ELSE k)

\* A key that is held down repeats, in the eyes of the kernel a press like others.
Repeat(k) ==
  /\ k \in down
  /\ muddled' = (muddled \/ early \/ pc # "ready" \/ k = CapsLock)
  /\ caps' = (caps /\ ~muddled')
  /\ Scan(k, k) /\ UNCHANGED down

\* The user moves the mouse or presses its buttons.
Mouse ==
  /\ streaming /\ auxQ = <<>>
  /\ \E p \in Packets :
       auxQ' = [n \in 1 .. 3 |-> [src |-> "aux", v |-> p[n], tag |-> n - 1]]
  /\ UserInput /\ UNCHANGED <<kbdQ, userVars>>

-----------------------------------------------------------------------------
\* As the firmware leaves the hardware: keyboard interrupts on, the mouse's off.
Init ==
  /\ pc = "enable" /\ status = 0 /\ gates = {}
  /\ g_MouseCycle = 0 /\ g_MouseX = 0 /\ g_MouseY = 0 /\ g_MouseButtons = 0
  /\ data = NoByte /\ g_MouseByte = [n \in 0 .. 2 |-> NoByte]
  /\ g_ShiftDown = FALSE /\ g_CapsLock = FALSE
  /\ mistyped = FALSE
  /\ obf = FALSE /\ config = 65 /\ irr = {} /\ streaming = FALSE
  /\ ctlQ = <<>> /\ kbdQ = <<>> /\ auxQ = <<>>
  /\ down = {} /\ caps = FALSE /\ muddled = FALSE /\ early = FALSE

Next == Main \/ Handlers \/ Controller \/ Mouse \/ \E k \in Keys : Key(k) \/ Repeat(k)

\* The processor and the controller keep working; the user need not.
InputSpec == /\ Init /\ [][Next]_vars
             /\ WF_vars(Main) /\ WF_vars(Handlers) /\ WF_vars(Controller)

-----------------------------------------------------------------------------
(* Properties.                                                             *)

\* The three bytes put together are those of one packet, in order, if nothing
\* was typed or moved while the drivers came up.
PacketsFramed ==
  ~early => /\ \A n \in 0 .. g_MouseCycle - 1 : g_MouseByte[n].src = "aux"
                                               /\ g_MouseByte[n].tag = n
            /\ 12 \in irr \cap gates => data.src = "aux" /\ data.tag = g_MouseCycle

\* Whatever bytes arrive, wm_handle_mouse_event gets a point on the screen.
PointerOnScreen == g_MouseX \in 0 .. W - 1 /\ g_MouseY \in 0 .. H - 1

\* However the keys are pressed, repeated and released in between: a letter is a
\* capital if exactly one of Shift and CapsLock is on; the twelve keys 1 9 0 - = [ ]
\* ; ' , . / give their shifted character exactly with Shift; and the nine keys 2 to 8,
\* backquote and backslash give their plain character even when the user means the
\* other, which the driver lacks (keyboard_handler_c).  Excepted: the two shift keys
\* were once held together, CapsLock until it repeated, or a key was pressed before
\* the drivers were up.
CaseRight == ~mistyped

\* No byte stays in the output buffer, where it would block both devices.
BufferDrained == []<>(early \/ ~obf)

\* "Acknowledge": what mouse_read() returns is the mouse's answer.
AckRead == pc \in {"ack1", "ack2"} /\ irr = {} /\ obf => data.v = ACK
=============================================================================
