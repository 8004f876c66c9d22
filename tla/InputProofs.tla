----------------------------- MODULE InputProofs -----------------------------
(* Theorems about Input for every size of the screen, every packet a mouse *)
(* may send, and any number of scan codes held back.                       *)
EXTENDS Input, TLAPS

-----------------------------------------------------------------------------
(* The inductive invariant.                                                *)

\* An interrupt is requested only for the byte in the output buffer, and by
\* the device that it is from.
Requested == irr # {} => obf /\ irr = {IF data.src = "aux" THEN 12 ELSE 1}

\* The controller's only answer is no scan code of a key in the model.
Answered ==
  /\ pc \in {"enable", "ask"} => config = 65
  /\ \A n \in 1 .. Len(ctlQ) : ctlQ[n].src = "ctl" /\ ctlQ[n].v = 65
  /\ \A n \in 1 .. Len(kbdQ) : kbdQ[n].src = "kbd"
  /\ \A n \in 1 .. Len(auxQ) : auxQ[n].src = "aux"
  /\ data.src = "ctl" => data.v = 65

Nothing == ctlQ = <<>> /\ kbdQ = <<>> /\ auxQ = <<>> /\ ~obf /\ irr = {}

\* The byte b, from the sequence q, is waiting or in the output buffer.
Coming(q, b) == \/ q = <<b>> /\ ~obf /\ irr = {}
                \/ q = <<>> /\ obf /\ data = b

\* The drivers come up undisturbed: each answer is asked for and read.
ComingUp ==
  /\ g_MouseCycle = 0 /\ kbdQ = <<>>
  /\ gates = IF pc \in {"center", "gate1"} THEN {12} ELSE {}
  /\ config = IF pc \in {"enable", "ask", "config", "write"} THEN 65 ELSE 67
  /\ pc \notin {"config", "ack1", "ack2"} => Nothing
  /\ pc = "config" => auxQ = <<>> /\ Coming(ctlQ, [src |-> "ctl", v |-> 65, tag |-> 0])
  /\ pc \in {"ack1", "ack2"} => ctlQ = <<>> /\ Coming(auxQ, AckByte)
  /\ pc = "write" => status = 67

\* A byte of the mouse in the output buffer.
Buffered == IF obf /\ data.src = "aux" THEN 1 ELSE 0

\* Afterwards the packets of the mouse go through the buffer byte by byte.
Running ==
  /\ gates = {1, 12} /\ config = 67 /\ ctlQ = <<>>
  /\ obf => irr # {} /\ data.src # "ctl"
  /\ g_MouseCycle + Buffered + Len(auxQ) \in {0, 3, 6} /\ Len(auxQ) <= 3
  /\ \A n \in 1 .. Len(auxQ) : /\ auxQ[n].tag = n + 2 - Len(auxQ)
                               /\ auxQ[n].tag = 0 => Bit(auxQ[n].v, 3)
  /\ Buffered = 1 => /\ data.tag = g_MouseCycle
                     /\ data.tag = 0 => Bit(data.v, 3)
  /\ \A n \in 0 .. g_MouseCycle - 1 : g_MouseByte[n].src = "aux" /\ g_MouseByte[n].tag = n

Framed == ~early => IF pc = "ready" THEN Running ELSE ComingUp

Held == obf /\ data.src = "kbd"

\* Whether the scan code v turns the state of a modifier from b to c.
ShiftTurns(b, v, c) == c <=> v \in Shifts \/ (b /\ v \notin {LShift + 128, RShift + 128})
CapsTurns(b, v, c) == c <=> (b <=> v # CapsLock)

\* Is the byte x tagged as it will be read with Shift at s and CapsLock at c?
Tagged(x, s, c) == x.v \in Printing =>
                     (x.tag = 1 <=> IF x.v \in Letters THEN ~(s <=> c) ELSE s)

\* The scan codes under way lead from the state of the driver to the keys held
\* down, and each is tagged for the state in which it will be handled: S and C
\* are where Shift and CapsLock are on, 0 after the byte in the output buffer.
Explained(S, C) ==
  /\ IF Held
     THEN /\ ShiftTurns(g_ShiftDown, data.v, 0 \in S)
          /\ CapsTurns(g_CapsLock, data.v, 0 \in C)
          /\ Tagged(data, g_ShiftDown, g_CapsLock)
     ELSE (0 \in S <=> g_ShiftDown) /\ (0 \in C <=> g_CapsLock)
  /\ \A n \in 1 .. Len(kbdQ) :
       /\ ShiftTurns(n - 1 \in S, kbdQ[n].v, n \in S)
       /\ CapsTurns(n - 1 \in C, kbdQ[n].v, n \in C)
       /\ Tagged(kbdQ[n], n - 1 \in S, n - 1 \in C)
  /\ Len(kbdQ) \in S <=> down \cap Shifts # {}
  /\ Len(kbdQ) \in C <=> caps

InStep ==
  ~muddled =>
    /\ pc # "ready" => kbdQ = <<>> /\ ~Held
    /\ ~(Shifts \subseteq down)
    /\ \E S, C \in SUBSET (0 .. Len(kbdQ)) : Explained(S, C)

IInv == /\ InputTypeOK /\ PointerOnScreen /\ Requested /\ Answered
        /\ Framed
        /\ InStep /\ ~mistyped

-----------------------------------------------------------------------------
(* Lemmas about bits and the pointer.                                      *)

\* The bits of the configuration bytes that the drivers write.
LEMMA ConfigBits ==
  /\ Bit(65, 0) /\ ~Bit(65, 1) /\ ~Bit(65, 4) /\ ~Bit(65, 5)
  /\ Bit(67, 0) /\ Bit(67, 1) /\ ~Bit(67, 4) /\ ~Bit(67, 5)
  /\ \A v \in 0 .. 255 : ~Bit(v, 1) => v + 2 \in 0 .. 255
  /\ \A v \in 0 .. 255 : Bit(v, 5) => v - 32 \in 0 .. 255
BY DEF Bit

\* Clamp returns a point of the screen.
LEMMA ClampInside ==
  ASSUME NEW n \in Int, NEW size \in Nat \ {0}
  PROVE  Clamp(n, size) \in 0 .. size - 1
BY DEF Clamp

-----------------------------------------------------------------------------
(* Types, and the point on the screen.                                     *)

Flags == /\ g_ShiftDown \in BOOLEAN /\ g_CapsLock \in BOOLEAN /\ obf \in BOOLEAN
         /\ streaming \in BOOLEAN /\ caps \in BOOLEAN /\ early \in BOOLEAN
         /\ muddled \in BOOLEAN /\ mistyped \in BOOLEAN

\* The bring-up and the main thread's share of the state.
PlacesOK ==
  /\ pc \in {"enable", "ask", "config", "write", "default", "ack1", "stream", "ack2",
             "gate12", "center", "gate1", "ready"}
  /\ status \in 0 .. 255 /\ config \in 0 .. 255
  /\ gates \subseteq {1, 12} /\ irr \subseteq {1, 12}
  /\ down \subseteq Keys

PointerOK ==
  /\ g_MouseCycle \in 0 .. 2 /\ g_MouseByte \in [0 .. 2 -> Byte]
  /\ g_MouseX \in Int /\ g_MouseY \in Int /\ g_MouseButtons \in 0 .. 7
  /\ PointerOnScreen

BytesOK == data \in Byte /\ ctlQ \in Seq(Byte) /\ kbdQ \in Seq(Byte) /\ auxQ \in Seq(Byte)

LEMMA TypeParts ==
  InputTypeOK /\ PointerOnScreen <=> Flags /\ PlacesOK /\ PointerOK /\ BytesOK
BY DEF InputTypeOK, Flags, PlacesOK, PointerOK, BytesOK

LEMMA FlagsStep == ASSUME Flags, [Next]_vars PROVE Flags'
<1>. USE DEF Flags, Goto, KeepHandlers, mouseVars, keyVars, initVars, queues, userVars
<1>1. CASE Main
  <2>1. CASE ReadConfig \/ mouse_read
    <3>1. obf' = FALSE /\ early' = (early \/ ~obf) /\ streaming' = streaming /\ KeepHandlers
      BY <2>1 DEF ReadConfig, mouse_read, Polled
    <3>. QED BY <3>1
  <2>2. CASE ~(ReadConfig \/ mouse_read)
    BY <1>1, <2>2 DEF Main, Enable, Ask, WriteConfig, Command, SetDefault, Stream,
                      SetGate, MouseGate, keyboard_init, Center
  <2>. QED BY <2>1, <2>2
<1>2. CASE Unhandled \/ mouse_handler
  BY <1>2 DEF Unhandled, mouse_handler
<1>3. CASE keyboard_handler_c
  <2>1. g_ShiftDown' \in BOOLEAN
    BY <1>3 DEF keyboard_handler_c, Modifiers
  <2>2. g_CapsLock' \in BOOLEAN
    BY <1>3 DEF keyboard_handler_c, Modifiers
  <2>3. mistyped' \in BOOLEAN
    BY <1>3, Zenon DEF keyboard_handler_c
  <2>4. /\ obf' = FALSE /\ streaming' = streaming /\ caps' = caps /\ early' = early
        /\ muddled' = muddled
    BY <1>3 DEF keyboard_handler_c
  <2>. QED BY <2>1, <2>2, <2>3, <2>4
<1>4. CASE Controller
  BY <1>4 DEF Controller, Deliver
<1>5. CASE Mouse
  <2>1. early' \in BOOLEAN
    BY <1>5, Zenon DEF Mouse, UserInput
  <2>. QED BY <1>5, <2>1 DEF Mouse, UserInput
<1>6. ASSUME NEW k \in Keys, Key(k) \/ Repeat(k) PROVE Flags'
  <2>1. early' \in BOOLEAN
    BY <1>6, Zenon DEF Key, Repeat, Scan, UserInput
  <2>2. muddled' \in BOOLEAN
    BY <1>6, Zenon DEF Key, Repeat
  <2>3. caps' \in BOOLEAN
    BY <1>6, Zenon DEF Key, Repeat
  <2>. QED BY <1>6, <2>1, <2>2, <2>3 DEF Key, Repeat, Scan, UserInput
<1>7. CASE UNCHANGED vars
  BY <1>7 DEF vars
<1>. QED BY <1>1, <1>2, <1>3, <1>4, <1>5, <1>6, <1>7 DEF Next, Handlers

LEMMA PlacesStep == ASSUME PlacesOK, BytesOK, [Next]_vars PROVE PlacesOK'
<1>. USE DEF PlacesOK, Goto, KeepHandlers, initVars, userVars
<1>1. CASE Main
  <2>1. CASE Enable
    BY <2>1, ConfigBits DEF Enable
  <2>2. CASE ReadConfig
    <3>1. data.v \in 0 .. 255
      BY DEF BytesOK, Byte
    <3>. QED BY <2>2, <3>1, ConfigBits DEF ReadConfig, Polled
  <2>3. CASE Ask \/ Center \/ SetDefault \/ Stream
    <3>1. /\ UNCHANGED <<status, gates, config, irr, down>>
          /\ pc' \in {"config", "gate1", "ack1", "ack2"}
      BY <2>3 DEF Ask, Center, SetDefault, Stream, Command
    <3>. QED BY <3>1
  <2>6. CASE WriteConfig
    BY <2>6 DEF WriteConfig
  <2>4. CASE mouse_read
    <3>1. UNCHANGED <<status, gates, config, irr, down>> /\ pc' \in {"stream", "gate12"}
      BY <2>4 DEF mouse_read, Polled
    <3>. QED BY <3>1
  <2>5. CASE MouseGate \/ keyboard_init
    BY <2>5 DEF MouseGate, keyboard_init, SetGate
  <2>. QED BY <1>1, <2>1, <2>2, <2>3, <2>4, <2>5, <2>6 DEF Main
<1>2. CASE Handlers
  <2>1. UNCHANGED <<pc, status, gates, config, down>> /\ \E irq : irr' = irr \ {irq}
    <3>1. CASE Unhandled
      BY <3>1 DEF Unhandled
    <3>2. CASE mouse_handler
      BY <3>2 DEF mouse_handler
    <3>3. CASE keyboard_handler_c
      BY <3>3 DEF keyboard_handler_c
    <3>. QED BY <1>2, <3>1, <3>2, <3>3 DEF Handlers
  <2>. QED BY <2>1
<1>3. CASE Controller
  BY <1>3 DEF Controller, Deliver
<1>4. CASE Mouse
  BY <1>4 DEF Mouse, UserInput
<1>5. ASSUME NEW k \in Keys, Key(k) \/ Repeat(k) PROVE PlacesOK'
  BY <1>5 DEF Key, Repeat, Scan, UserInput
<1>6. CASE UNCHANGED vars
  BY <1>6 DEF vars
<1>. QED BY <1>1, <1>2, <1>3, <1>4, <1>5, <1>6 DEF Next

LEMMA PointerStep == ASSUME PointerOK, BytesOK, [Next]_vars PROVE PointerOK'
<1>. USE DEF PointerOK, PointerOnScreen
<1>1. /\ W \in Nat \ {0} /\ H \in Nat \ {0} /\ data \in Byte
      /\ g_MouseByte[0].v \in 0 .. 255 /\ g_MouseByte[1].v \in 0 .. 255 /\ data.v \in 0 .. 255
  BY InputAssumption DEF InputAssumption, BytesOK, Byte
<1>2. CASE UNCHANGED mouseVars
  BY <1>2 DEF mouseVars
<1>3. CASE Center
  BY <1>1, <1>3 DEF Center
<1>4. CASE Store(0) \/ Store(1)
  BY <1>1, <1>4 DEF Store
<1>5. CASE Third
  <2>. DEFINE x == g_MouseX + Signed8(g_MouseByte[1].v)
              y == g_MouseY - Signed8(data.v)
  <2>1. x \in Int /\ y \in Int
    BY <1>1 DEF Signed8
  <2>2. g_MouseX' = Clamp(x, W) /\ g_MouseY' = Clamp(y, H)
    BY <1>5 DEF Third
  <2>. HIDE DEF x, y
  <2>3. g_MouseX' \in 0 .. W - 1 /\ g_MouseY' \in 0 .. H - 1
    BY <1>1, <2>1, <2>2, ClampInside
  <2>4. g_MouseButtons' \in 0 .. 7 /\ g_MouseCycle' = 0
    BY <1>1, <1>5 DEF Third
  <2>5. g_MouseByte' \in [0 .. 2 -> Byte]
    BY <1>5 DEF Third, NoByte, Byte
  <2>. QED BY <1>1, <2>3, <2>4, <2>5
<1>. QED
  BY <1>2, <1>3, <1>4, <1>5
     DEF Next, Main, Enable, Ask, ReadConfig, WriteConfig, Command, SetDefault, Stream,
         mouse_read, Polled, SetGate, MouseGate, keyboard_init, KeepHandlers,
         Handlers, Unhandled, keyboard_handler_c, mouse_handler, Controller, Deliver,
         Mouse, Key, Repeat, Scan, UserInput, vars

\* The packet that the mouse sends, byte by byte.
LEMMA PacketBytes ==
  ASSUME NEW p \in Packets,
         NEW q, q = [n \in 1 .. 3 |-> [src |-> "aux", v |-> p[n], tag |-> n - 1]]
  PROVE  /\ q \in Seq(Byte) /\ Len(q) = 3
         /\ \A n \in 1 .. 3 : q[n].src = "aux" /\ q[n].tag = n - 1
         /\ Bit(q[1].v, 3)
<1>1. \A n \in 1 .. 3 : q[n] \in Byte
  BY InputAssumption DEF InputAssumption, Byte
<1>2. q \in Seq(Byte) /\ Len(q) = 3
  BY <1>1
<1>3. Bit(p[1], 3) /\ q[1].v = p[1]
  BY InputAssumption DEF InputAssumption
<1>. QED BY <1>2, <1>3

\* What a key sends.
LEMMA KeySends ==
  ASSUME NEW k \in Keys, Key(k) \/ Repeat(k)
  PROVE  \E v \in {k, k + 128}, t \in {0, 1} :
           /\ [src |-> "kbd", v |-> v, tag |-> t] \in Byte
           /\ kbdQ' = Append(kbdQ, [src |-> "kbd", v |-> v, tag |-> t])
<1>1. PICK v \in {k, k + 128}, t \in {0, 1} :
        kbdQ' = Append(kbdQ, [src |-> "kbd", v |-> v, tag |-> t])
  BY DEF Key, Repeat, Scan
<1>2. v \in 0 .. 255
  BY InputAssumption
<1>3. [src |-> "kbd", v |-> v, tag |-> t] \in Byte
  BY <1>2 DEF Byte
<1>. QED BY <1>1, <1>3

LEMMA BytesStep ==
  ASSUME PlacesOK, BytesOK, [Next]_vars
  PROVE  BytesOK'
<1>. USE DEF BytesOK, queues
<1>1. CASE UNCHANGED <<data, queues>>
  BY <1>1
<1>2. CASE Ask
  <2>1. [src |-> "ctl", v |-> config, tag |-> 0] \in Byte
    BY DEF PlacesOK, Byte
  <2>. QED BY <1>2, <2>1 DEF Ask
<1>3. CASE SetDefault \/ Stream
  <2>1. AckByte \in Byte
    BY DEF AckByte, ACK, Byte
  <2>2. auxQ' = Append(auxQ, AckByte) /\ UNCHANGED <<data, ctlQ, kbdQ>>
    BY <1>3 DEF SetDefault, Stream, Command
  <2>. QED BY <2>1, <2>2
<1>4. CASE Controller
  <2>1. ASSUME NEW q \in Seq(Byte), NEW irq, NEW b, Deliver(q, irq, b)
        PROVE  data' \in Byte /\ Tail(q) \in Seq(Byte)
    BY <2>1 DEF Deliver
  <2>. QED BY <1>4, <2>1 DEF Controller
<1>5. CASE Mouse
  <2>1. /\ UNCHANGED <<data, ctlQ, kbdQ>>
        /\ \E p \in Packets :
             auxQ' = [n \in 1 .. 3 |-> [src |-> "aux", v |-> p[n], tag |-> n - 1]]
    BY <1>5 DEF Mouse, UserInput
  <2>2. auxQ' \in Seq(Byte)
    BY <2>1, PacketBytes
  <2>. QED BY <2>1, <2>2
<1>6. ASSUME NEW k \in Keys, Key(k) \/ Repeat(k) PROVE BytesOK'
  <2>1. PICK v \in {k, k + 128}, t \in {0, 1} :
          /\ [src |-> "kbd", v |-> v, tag |-> t] \in Byte
          /\ kbdQ' = Append(kbdQ, [src |-> "kbd", v |-> v, tag |-> t])
    BY <1>6, KeySends
  <2>. QED BY <1>6, <2>1 DEF Key, Repeat, Scan, UserInput
<1>. QED
  BY <1>1, <1>2, <1>3, <1>4, <1>5, <1>6
     DEF Next, Main, Enable, ReadConfig, WriteConfig, mouse_read, Polled, SetGate,
         MouseGate, Center, keyboard_init, Handlers, Unhandled, keyboard_handler_c,
         mouse_handler, vars

-----------------------------------------------------------------------------
(* Whose byte is in the output buffer.                                     *)

\* The byte that the controller delivers is from the device it is taken for.
LEMMA Delivered ==
  ASSUME BytesOK, Answered, Controller
  PROVE  \/ /\ ctlQ # <<>> /\ Deliver(ctlQ, 1, 0) /\ ctlQ' = Tail(ctlQ)
            /\ UNCHANGED <<kbdQ, auxQ>> /\ data'.src = "ctl" /\ data'.v = 65
         \/ /\ kbdQ # <<>> /\ Deliver(kbdQ, 1, 0) /\ kbdQ' = Tail(kbdQ)
            /\ UNCHANGED <<ctlQ, auxQ>> /\ data'.src = "kbd" /\ ctlQ = <<>>
         \/ /\ auxQ # <<>> /\ Deliver(auxQ, 12, 1) /\ auxQ' = Tail(auxQ)
            /\ UNCHANGED <<ctlQ, kbdQ>> /\ data'.src = "aux" /\ ctlQ = <<>>
<1>1. ASSUME NEW q \in Seq(Byte), q # <<>>
      PROVE  1 \in 1 .. Len(q) /\ Head(q) = q[1]
  BY <1>1
<1>2. CASE Deliver(ctlQ, 1, 0) /\ ctlQ' = Tail(ctlQ) /\ UNCHANGED <<kbdQ, auxQ>>
  BY <1>1, <1>2 DEF BytesOK, Answered, Deliver
<1>3. CASE /\ ctlQ = <<>>
           /\ Deliver(kbdQ, 1, 0) /\ kbdQ' = Tail(kbdQ) /\ UNCHANGED <<ctlQ, auxQ>>
  BY <1>1, <1>3 DEF BytesOK, Answered, Deliver
<1>4. CASE /\ ctlQ = <<>>
           /\ Deliver(auxQ, 12, 1) /\ auxQ' = Tail(auxQ) /\ UNCHANGED <<ctlQ, kbdQ>>
  BY <1>1, <1>4 DEF BytesOK, Answered, Deliver
<1>. QED BY <1>2, <1>3, <1>4 DEF Controller

LEMMA RequestedStep ==
  ASSUME BytesOK, Requested, Answered, [Next]_vars
  PROVE  Requested'
<1>. USE DEF Requested
<1>1. CASE Main
  <2>1. irr = {} /\ irr' = irr
    BY <1>1 DEF Main, Enable, Ask, ReadConfig, WriteConfig, Command, SetDefault, Stream,
                mouse_read, Polled, SetGate, MouseGate, keyboard_init, Center, Goto
  <2>. QED BY <2>1
<1>2. CASE Handlers
  <2>1. irr' = {}
    <3>1. CASE Unhandled
      BY <3>1 DEF Unhandled
    <3>2. CASE keyboard_handler_c
      BY <3>2 DEF keyboard_handler_c
    <3>3. CASE mouse_handler
      BY <3>3 DEF mouse_handler
    <3>. QED BY <1>2, <3>1, <3>2, <3>3 DEF Handlers
  <2>. QED BY <2>1
<1>3. CASE Controller
  <2>1. irr = {} /\ obf'
    BY <1>3 DEF Controller, Deliver
  <2>2. irr' # {} => irr' = {IF data'.src = "aux" THEN 12 ELSE 1}
    BY <1>3, <2>1, Delivered DEF Deliver
  <2>. QED BY <2>1, <2>2
<1>4. CASE UNCHANGED <<irr, obf, data>>
  BY <1>4
<1>. QED BY <1>1, <1>2, <1>3, <1>4 DEF Next, Mouse, Key, Repeat, Scan, UserInput, vars

\* What is put at the end of a sequence and what is taken from its beginning.
LEMMA QueueMoves ==
  ASSUME NEW q \in Seq(Byte)
  PROVE  /\ \A x \in Byte : /\ Len(Append(q, x)) = Len(q) + 1
                            /\ \A n \in 1 .. Len(q) : Append(q, x)[n] = q[n]
                            /\ Append(q, x)[Len(q) + 1] = x
         /\ q # <<>> => /\ Len(q) > 0 /\ Len(Tail(q)) = Len(q) - 1
                        /\ \A n \in 1 .. Len(q) - 1 : Tail(q)[n] = q[n + 1]
                        /\ Head(q) = q[1]
OBVIOUS

LEMMA AnsweredStep ==
  ASSUME PlacesOK, BytesOK, Answered, [Next]_vars
  PROVE  Answered'
<1>. USE DEF queues
<1>1. ctlQ \in Seq(Byte) /\ kbdQ \in Seq(Byte) /\ auxQ \in Seq(Byte)
  BY DEF BytesOK
<1>2. CASE Enable
  <2>1. config = 65 /\ config' = 65 /\ UNCHANGED <<data, queues>> /\ pc' = "ask"
    BY <1>2, ConfigBits DEF Answered, Enable, Goto
  <2>. QED BY <2>1 DEF Answered
<1>3. CASE Ask
  <2>. DEFINE x == [src |-> "ctl", v |-> config, tag |-> 0]
  <2>1. /\ config = 65 /\ ctlQ' = Append(ctlQ, x) /\ UNCHANGED <<data, kbdQ, auxQ>>
        /\ pc' = "config" /\ x \in Byte
    BY <1>3 DEF Answered, Ask, Goto, Byte
  <2>. QED BY <1>1, <2>1, QueueMoves DEF Answered
<1>4. CASE SetDefault \/ Stream
  <2>1. /\ auxQ' = Append(auxQ, AckByte) /\ UNCHANGED <<data, ctlQ, kbdQ>>
        /\ pc' \in {"ack1", "ack2"} /\ AckByte \in Byte /\ AckByte.src = "aux"
    BY <1>4 DEF SetDefault, Stream, Command, Goto, AckByte, ACK, Byte
  <2>. QED BY <1>1, <2>1, QueueMoves DEF Answered
<1>5. CASE Controller
  <2>1. UNCHANGED <<pc, config>>
    BY <1>5 DEF Controller, initVars
  <2>2. ASSUME NEW q \in Seq(Byte), NEW q1, q1 = q \/ (q # <<>> /\ q1 = Tail(q)),
               NEW n \in 1 .. Len(q1)
        PROVE  \E m \in 1 .. Len(q) : q1[n] = q[m]
    <3>1. CASE q1 = q
      BY <3>1
    <3>2. CASE q # <<>> /\ q1 = Tail(q)
      <4>1. Len(q) \in Nat /\ n \in 1 .. Len(q) - 1
        BY <3>2, QueueMoves
      <4>2. n + 1 \in 1 .. Len(q) /\ q1[n] = q[n + 1]
        BY <3>2, <4>1, QueueMoves
      <4>. QED BY <4>2
    <3>. QED BY <2>2, <3>1, <3>2
  <2>3. /\ ctlQ' = ctlQ \/ (ctlQ # <<>> /\ ctlQ' = Tail(ctlQ))
        /\ kbdQ' = kbdQ \/ (kbdQ # <<>> /\ kbdQ' = Tail(kbdQ))
        /\ auxQ' = auxQ \/ (auxQ # <<>> /\ auxQ' = Tail(auxQ))
        /\ data'.src = "ctl" => data'.v = 65
    BY <1>5, Delivered
  <2>4. \A n \in 1 .. Len(ctlQ') : ctlQ'[n].src = "ctl" /\ ctlQ'[n].v = 65
    <3>1. \A n \in 1 .. Len(ctlQ') : \E m \in 1 .. Len(ctlQ) : ctlQ'[n] = ctlQ[m]
      BY <1>1, <2>2, <2>3
    <3>. QED BY <3>1 DEF Answered
  <2>5. \A n \in 1 .. Len(kbdQ') : kbdQ'[n].src = "kbd"
    <3>1. \A n \in 1 .. Len(kbdQ') : \E m \in 1 .. Len(kbdQ) : kbdQ'[n] = kbdQ[m]
      BY <1>1, <2>2, <2>3
    <3>. QED BY <3>1 DEF Answered
  <2>6. \A n \in 1 .. Len(auxQ') : auxQ'[n].src = "aux"
    <3>1. \A n \in 1 .. Len(auxQ') : \E m \in 1 .. Len(auxQ) : auxQ'[n] = auxQ[m]
      BY <1>1, <2>2, <2>3
    <3>. QED BY <3>1 DEF Answered
  <2>. QED BY <2>1, <2>3, <2>4, <2>5, <2>6 DEF Answered
<1>6. CASE Mouse
  <2>1. /\ UNCHANGED <<pc, config, data, ctlQ, kbdQ>>
        /\ \E p \in Packets :
             auxQ' = [n \in 1 .. 3 |-> [src |-> "aux", v |-> p[n], tag |-> n - 1]]
    BY <1>6 DEF Mouse, UserInput, initVars
  <2>2. \A n \in 1 .. Len(auxQ') : auxQ'[n].src = "aux"
    BY <2>1, PacketBytes
  <2>. QED BY <2>1, <2>2 DEF Answered
<1>7. ASSUME NEW k \in Keys, Key(k) \/ Repeat(k) PROVE Answered'
  <2>1. UNCHANGED <<pc, config, data, ctlQ, auxQ>>
    BY <1>7 DEF Key, Repeat, Scan, UserInput, initVars
  <2>2. PICK v \in {k, k + 128}, t \in {0, 1} :
           /\ [src |-> "kbd", v |-> v, tag |-> t] \in Byte
           /\ kbdQ' = Append(kbdQ, [src |-> "kbd", v |-> v, tag |-> t])
    BY <1>7, KeySends
  <2>3. \A n \in 1 .. Len(kbdQ') : kbdQ'[n].src = "kbd"
    BY <1>1, <2>2, QueueMoves DEF Answered
  <2>. QED BY <2>1, <2>3 DEF Answered
<1>8. CASE ReadConfig \/ WriteConfig \/ mouse_read \/ MouseGate \/ Center \/ keyboard_init
  <2>1. UNCHANGED <<data, queues>> /\ pc' \notin {"enable", "ask"}
    BY <1>8 DEF ReadConfig, WriteConfig, mouse_read, Polled, SetGate, MouseGate, Center,
                keyboard_init, Goto
  <2>. QED BY <2>1 DEF Answered
<1>9. CASE Handlers \/ UNCHANGED vars
  <2>1. UNCHANGED <<pc, config, data, queues>>
    BY <1>9 DEF Handlers, Unhandled, keyboard_handler_c, mouse_handler, initVars, vars
  <2>. QED BY <2>1 DEF Answered
<1>. QED BY <1>2, <1>3, <1>4, <1>5, <1>6, <1>7, <1>8, <1>9 DEF Next, Main

-----------------------------------------------------------------------------
(* The packets.                                                            *)

LEMMA EarlyStays == ASSUME [Next]_vars, ~early' PROVE ~early
<1>1. CASE ReadConfig \/ mouse_read
  <2>1. early' = (early \/ ~obf)
    BY <1>1 DEF ReadConfig, mouse_read, Polled
  <2>. QED BY <2>1, Zenon
<1>2. CASE Mouse \/ \E k \in Keys : Key(k) \/ Repeat(k)
  <2>1. early' = (early \/ pc # "ready")
    BY <1>2 DEF Mouse, Key, Repeat, Scan, UserInput
  <2>. QED BY <2>1, Zenon
<1>3. CASE UNCHANGED early
  BY <1>3
<1>. QED
  BY <1>1, <1>2, <1>3
     DEF Next, Main, Enable, Ask, WriteConfig, Command, SetDefault, Stream, SetGate,
         MouseGate, Center, keyboard_init, Handlers, Unhandled, keyboard_handler_c,
         mouse_handler, Controller, vars

\* The one byte of a queue goes into the output buffer.
LEMMA OneByte ==
  ASSUME NEW x \in Byte, NEW q, q = <<x>>
  PROVE  q # <<>> /\ Head(q) = x /\ Tail(q) = <<>>
OBVIOUS

LEMMA UndisturbedMain ==
  ASSUME ~early, ~early', pc # "ready", ComingUp, Main
  PROVE  IF pc' = "ready" THEN Running' ELSE ComingUp'
<1>. USE DEF ComingUp, Nothing, Goto, KeepHandlers, mouseVars, queues
<1>1. CASE Enable
  <2>1. /\ pc' = "ask" /\ pc = "enable" /\ config' = 65
        /\ UNCHANGED <<g_MouseCycle, gates, obf, queues, irr>>
    BY <1>1, ConfigBits DEF Enable
  <2>. QED BY <2>1
<1>2. CASE Ask
  <2>. DEFINE x == [src |-> "ctl", v |-> 65, tag |-> 0]
  <2>1. /\ pc' = "config" /\ pc = "ask" /\ ctlQ' = Append(ctlQ, x)
        /\ UNCHANGED <<g_MouseCycle, gates, obf, kbdQ, auxQ, irr, config>>
    BY <1>2 DEF Ask
  <2>2. Append(<<>>, x) = <<x>>
    OBVIOUS
  <2>3. Coming(ctlQ, x)'
    BY <2>1, <2>2 DEF Coming
  <2>. QED BY <2>1, <2>3
<1>3. CASE ReadConfig
  <2>1. /\ pc' = "write" /\ pc = "config" /\ obf /\ obf' = FALSE /\ irr = {}
        /\ status' = IF Bit(data.v, 1) THEN data.v ELSE data.v + 2
        /\ UNCHANGED <<g_MouseCycle, gates, queues, irr, config>>
    BY <1>3 DEF ReadConfig, Polled
  <2>2. data.v = 65 /\ ctlQ = <<>>
    BY <2>1 DEF Coming
  <2>. QED BY <2>1, <2>2, ConfigBits
<1>4. CASE WriteConfig
  <2>1. /\ pc' = "default" /\ pc = "write" /\ config' = 67
        /\ UNCHANGED <<g_MouseCycle, gates, obf, queues, irr>>
    BY <1>4 DEF WriteConfig
  <2>. QED BY <2>1
<1>5. CASE SetDefault \/ Stream
  <2>1. /\ pc' \in {"ack1", "ack2"} /\ pc \in {"default", "stream"}
        /\ auxQ' = Append(auxQ, AckByte)
        /\ UNCHANGED <<g_MouseCycle, gates, obf, ctlQ, kbdQ, irr, config>>
    BY <1>5 DEF SetDefault, Stream, Command
  <2>2. Append(<<>>, AckByte) = <<AckByte>>
    OBVIOUS
  <2>3. Coming(auxQ, AckByte)'
    BY <2>1, <2>2 DEF Coming
  <2>. QED BY <2>1, <2>3
<1>6. CASE mouse_read
  <2>1. /\ pc' \in {"stream", "gate12"} /\ pc \in {"ack1", "ack2"} /\ obf /\ obf' = FALSE
        /\ irr = {} /\ UNCHANGED <<g_MouseCycle, gates, queues, irr, config>>
    BY <1>6 DEF mouse_read, Polled
  <2>. QED BY <2>1 DEF Coming
<1>7. CASE MouseGate
  <2>1. /\ pc' = "center" /\ pc = "gate12" /\ gates' = gates \cup {12}
        /\ UNCHANGED <<g_MouseCycle, obf, queues, irr, config>>
    BY <1>7 DEF MouseGate, SetGate
  <2>. QED BY <2>1
<1>8. CASE Center
  <2>1. /\ pc' = "gate1" /\ pc = "center"
        /\ UNCHANGED <<g_MouseCycle, gates, obf, queues, irr, config>>
    BY <1>8 DEF Center
  <2>. QED BY <2>1
<1>9. CASE keyboard_init
  <2>1. /\ pc' = "ready" /\ pc = "gate1" /\ gates' = gates \cup {1}
        /\ UNCHANGED <<g_MouseCycle, obf, queues, irr, config>>
    BY <1>9 DEF keyboard_init, SetGate
  <2>2. Buffered' = 0
    BY <2>1 DEF Buffered
  <2>. QED BY <2>1, <2>2 DEF Running
<1>. QED BY <1>1, <1>2, <1>3, <1>4, <1>5, <1>6, <1>7, <1>8, <1>9 DEF Main

LEMMA UndisturbedRest ==
  ASSUME BytesOK, Answered, ~early, ~early', pc # "ready", ComingUp,
         [Handlers \/ Controller \/ Mouse \/ (\E k \in Keys : Key(k) \/ Repeat(k))]_vars
  PROVE  pc' = pc /\ ComingUp'
<1>. USE DEF ComingUp, Nothing, KeepHandlers, mouseVars, initVars, queues
<1>1. CASE Handlers
  <2>1. ~keyboard_handler_c /\ ~mouse_handler
    BY DEF keyboard_handler_c, mouse_handler
  <2>2. /\ UNCHANGED <<pc, status, gates, g_MouseCycle, obf, data, queues, config>>
        /\ irr # {} /\ irr' \subseteq irr
    BY <1>1, <2>1 DEF Handlers, Unhandled
  <2>. QED BY <2>2 DEF Coming
<1>2. CASE Controller
  <2>1. UNCHANGED <<pc, status, gates, g_MouseCycle, config>>
    BY <1>2 DEF Controller
  <2>2. CASE ctlQ # <<>>
    <3>1. /\ Deliver(ctlQ, 1, 0) /\ ctlQ' = Tail(ctlQ) /\ UNCHANGED <<kbdQ, auxQ>>
      BY <1>2, <2>2, Delivered
    <3>. DEFINE x == [src |-> "ctl", v |-> 65, tag |-> 0]
    <3>2. pc = "config" /\ ctlQ = <<x>>
      BY <2>2 DEF Coming
    <3>3. x \in Byte
      BY DEF Byte
    <3>4. ctlQ' = <<>> /\ obf' /\ data' = x
      BY <3>1, <3>2, <3>3, OneByte DEF Deliver
    <3>. QED BY <2>1, <3>1, <3>2, <3>4 DEF Coming
  <2>3. CASE ctlQ = <<>>
    <3>1. auxQ # <<>> /\ Deliver(auxQ, 12, 1) /\ auxQ' = Tail(auxQ) /\ UNCHANGED <<ctlQ, kbdQ>>
      BY <1>2, <2>3, Delivered
    <3>2. pc \in {"ack1", "ack2"} /\ auxQ = <<AckByte>>
      BY <3>1 DEF Coming
    <3>3. AckByte \in Byte
      BY DEF AckByte, ACK, Byte
    <3>4. auxQ' = <<>> /\ obf' /\ data' = AckByte
      BY <3>1, <3>2, <3>3, OneByte DEF Deliver
    <3>. QED BY <2>1, <2>3, <3>1, <3>2, <3>4 DEF Coming
  <2>. QED BY <2>2, <2>3
<1>3. CASE Mouse \/ \E k \in Keys : Key(k) \/ Repeat(k)
  <2>1. early' = (early \/ pc # "ready")
    BY <1>3 DEF Mouse, Key, Repeat, Scan, UserInput
  <2>. QED BY <2>1
<1>4. CASE UNCHANGED vars
  BY <1>4 DEF vars, Coming
<1>. QED BY <1>1, <1>2, <1>3, <1>4

LEMMA RunningHandlers ==
  ASSUME PlacesOK, PointerOK, BytesOK, Requested, Running, Handlers
  PROVE  Running'
<1>. USE DEF initVars, queues, keyVars, KeepHandlers
<1>1. /\ Len(auxQ) \in Nat /\ g_MouseCycle \in 0 .. 2 /\ g_MouseByte \in [0 .. 2 -> Byte]
      /\ data \in Byte
  BY DEF BytesOK, PointerOK
<1>2. ~Unhandled
  BY DEF Unhandled, Running, PlacesOK
<1>3. CASE keyboard_handler_c
  <2>1. /\ obf /\ data.src # "aux" /\ obf' = FALSE /\ irr' = {}
        /\ UNCHANGED <<pc, gates, mouseVars, data, config, queues>>
    BY <1>3 DEF keyboard_handler_c, Requested
  <2>2. Buffered = 0 /\ Buffered' = 0
    BY <2>1 DEF Buffered
  <2>. QED BY <2>1, <2>2 DEF Running, mouseVars
<1>4. CASE mouse_handler
  <2>1. /\ obf /\ data.src = "aux" /\ obf' = FALSE /\ irr' = {}
        /\ UNCHANGED <<pc, gates, data, config, queues>>
        /\ \/ First /\ Store(0)
           \/ g_MouseCycle = 0 /\ ~First /\ UNCHANGED mouseVars
           \/ g_MouseCycle = 1 /\ Store(1)
           \/ Third
    BY <1>4 DEF mouse_handler, Requested
  <2>2. Buffered = 1 /\ Buffered' = 0
    BY <2>1 DEF Buffered
  <2>3. data.tag = g_MouseCycle /\ (data.tag = 0 => Bit(data.v, 3))
    BY <2>2 DEF Running
  <2>4. CASE Third
    <3>1. g_MouseCycle = 2 /\ g_MouseCycle' = 0
      BY <2>4 DEF Third
    <3>2. g_MouseCycle' + Buffered' + Len(auxQ') \in {0, 3, 6}
      <4>1. g_MouseCycle + Buffered + Len(auxQ) \in {0, 3, 6}
        BY DEF Running
      <4>2. Len(auxQ) \in Nat
        BY <1>1
      <4>3. Len(auxQ) \in {0, 3}
        BY <2>2, <3>1, <4>1, <4>2
      <4>4. auxQ' = auxQ
        BY <2>1
      <4>. QED BY <2>2, <3>1, <4>3, <4>4
    <3>3. \A j \in 0 .. g_MouseCycle' - 1 : FALSE
      BY <3>1
    <3>. QED BY <2>1, <2>2, <3>2, <3>3 DEF Running
  <2>5. CASE ~Third
    <3>1. PICK n \in {0, 1} : g_MouseCycle = n /\ Store(n)
      BY <1>1, <2>1, <2>3, <2>5 DEF First
    <3>2. /\ g_MouseCycle' = n + 1
          /\ g_MouseByte'[n] = data /\ \A j \in 0 .. n - 1 : g_MouseByte'[j] = g_MouseByte[j]
      BY <1>1, <3>1 DEF Store
    <3>3. \A j \in 0 .. g_MouseCycle' - 1 :
            g_MouseByte'[j].src = "aux" /\ g_MouseByte'[j].tag = j
      BY <2>1, <2>3, <3>1, <3>2 DEF Running
    <3>. QED BY <1>1, <2>1, <2>2, <3>1, <3>2, <3>3 DEF Running
  <2>. QED BY <2>4, <2>5
<1>. QED BY <1>2, <1>3, <1>4 DEF Handlers

LEMMA RunningController ==
  ASSUME PlacesOK, PointerOK, BytesOK, Answered, Running, Controller
  PROVE  Running'
<1>1. Len(auxQ) \in Nat /\ g_MouseCycle \in 0 .. 2 /\ auxQ \in Seq(Byte)
  BY DEF BytesOK, PointerOK
<1>2. UNCHANGED <<pc, gates, config, g_MouseCycle, g_MouseByte>> /\ ~obf /\ obf'
  BY DEF Controller, Deliver, initVars, KeepHandlers, mouseVars
<1>3. Buffered = 0
  BY <1>2 DEF Buffered
<1>4. CASE kbdQ # <<>> /\ Deliver(kbdQ, 1, 0) /\ UNCHANGED <<ctlQ, auxQ>> /\ data'.src = "kbd"
  <2>1. Buffered' = 0 /\ 1 \in irr'
    BY <1>4, ConfigBits DEF Buffered, Deliver, Running
  <2>. QED BY <1>2, <1>3, <1>4, <2>1 DEF Running
<1>5. CASE /\ auxQ # <<>> /\ Deliver(auxQ, 12, 1) /\ auxQ' = Tail(auxQ)
           /\ UNCHANGED <<ctlQ, kbdQ>> /\ data'.src = "aux"
  <2>1. Buffered' = 1 /\ 12 \in irr'
    BY <1>2, <1>5, ConfigBits DEF Buffered, Deliver, Running
  <2>2. /\ Len(auxQ) > 0 /\ Len(auxQ') = Len(auxQ) - 1 /\ data' = auxQ[1]
        /\ \A n \in 1 .. Len(auxQ') : auxQ'[n] = auxQ[n + 1]
    BY <1>1, <1>5, QueueMoves DEF Deliver
  <2>3. Len(auxQ) <= 3 /\ g_MouseCycle + Len(auxQ) = 3
    BY <1>1, <1>3, <2>2 DEF Running
  <2>4. data'.tag = g_MouseCycle /\ (data'.tag = 0 => Bit(data'.v, 3))
    BY <1>1, <2>2, <2>3 DEF Running
  <2>5. \A n \in 1 .. Len(auxQ') : /\ auxQ'[n].tag = n + 2 - Len(auxQ')
                                   /\ auxQ'[n].tag = 0 => Bit(auxQ'[n].v, 3)
    <3>. SUFFICES ASSUME NEW n \in 1 .. Len(auxQ')
                  PROVE  /\ auxQ'[n].tag = n + 2 - Len(auxQ')
                         /\ auxQ'[n].tag = 0 => Bit(auxQ'[n].v, 3)
      OBVIOUS
    <3>1. n + 1 \in 1 .. Len(auxQ) /\ auxQ'[n] = auxQ[n + 1]
      BY <1>1, <2>2
    <3>2. /\ auxQ[n + 1].tag = (n + 1) + 2 - Len(auxQ)
          /\ auxQ[n + 1].tag = 0 => Bit(auxQ[n + 1].v, 3)
      BY <3>1 DEF Running
    <3>. QED BY <1>1, <2>2, <3>1, <3>2
  <2>6. \A n \in 0 .. g_MouseCycle' - 1 : g_MouseByte'[n].src = "aux" /\ g_MouseByte'[n].tag = n
    BY <1>2 DEF Running
  <2>7. gates' = {1, 12} /\ config' = 67 /\ ctlQ' = <<>>
    BY <1>2, <1>5 DEF Running
  <2>. QED BY <1>1, <1>2, <1>5, <2>1, <2>2, <2>3, <2>4, <2>5, <2>6, <2>7 DEF Running
<1>6. ctlQ = <<>>
  BY DEF Running
<1>. QED BY <1>4, <1>5, <1>6, Delivered

LEMMA RunningUser ==
  ASSUME PointerOK, BytesOK, Running,
         Mouse \/ (\E k \in Keys : Key(k) \/ Repeat(k)) \/ UNCHANGED vars
  PROVE  Running'
<1>. USE DEF initVars, mouseVars, queues
<1>1. CASE Mouse
  <2>1. /\ UNCHANGED <<gates, g_MouseCycle, g_MouseByte, obf, data, config, ctlQ, irr>>
        /\ auxQ = <<>>
    BY <1>1 DEF Mouse, UserInput
  <2>2. PICK p \in Packets :
          auxQ' = [n \in 1 .. 3 |-> [src |-> "aux", v |-> p[n], tag |-> n - 1]]
    BY <1>1 DEF Mouse
  <2>3. /\ Len(auxQ') = 3 /\ Len(auxQ) = 0
        /\ \A n \in 1 .. 3 : auxQ'[n].tag = n - 1
        /\ Bit(auxQ'[1].v, 3)
    BY <2>1, <2>2, PacketBytes
  <2>4. Buffered \in {0, 1} /\ Buffered' = Buffered /\ g_MouseCycle \in 0 .. 2
    BY <2>1 DEF Buffered, PointerOK
  <2>5. g_MouseCycle' + Buffered' + Len(auxQ') \in {0, 3, 6}
    BY <2>1, <2>3, <2>4 DEF Running
  <2>6. \A n \in 1 .. Len(auxQ') : /\ auxQ'[n].tag = n + 2 - Len(auxQ')
                                   /\ auxQ'[n].tag = 0 => Bit(auxQ'[n].v, 3)
    BY <2>3
  <2>. QED BY <2>1, <2>3, <2>4, <2>5, <2>6 DEF Running
<1>2. CASE UNCHANGED <<gates, g_MouseCycle, g_MouseByte, obf, data, config, ctlQ, auxQ, irr>>
  BY <1>2 DEF Running, Buffered
<1>. QED BY <1>1, <1>2 DEF Key, Repeat, Scan, UserInput, vars

LEMMA FramedStep ==
  ASSUME PlacesOK, PointerOK, BytesOK, Requested, Answered, Framed, [Next]_vars
  PROVE  Framed'
<1>. SUFFICES ASSUME ~early' PROVE IF pc' = "ready" THEN Running' ELSE ComingUp'
  BY DEF Framed
<1>1. ~early
  BY EarlyStays
<1>2. CASE pc # "ready"
  <2>1. ComingUp
    BY <1>1, <1>2 DEF Framed
  <2>2. CASE Main
    BY <1>1, <1>2, <2>1, <2>2, UndisturbedMain
  <2>3. CASE [Handlers \/ Controller \/ Mouse \/ (\E k \in Keys : Key(k) \/ Repeat(k))]_vars
    BY <1>1, <1>2, <2>1, <2>3, UndisturbedRest
  <2>. QED BY <2>2, <2>3 DEF Next
<1>3. CASE pc = "ready"
  <2>1. Running
    BY <1>1, <1>3 DEF Framed
  <2>2. ~Main
    BY <1>3 DEF Main, Enable, Ask, ReadConfig, WriteConfig, Command, SetDefault, Stream,
                mouse_read, SetGate, MouseGate, keyboard_init, Center, Goto
  <2>3. pc' = pc
    BY <2>2 DEF Next, Handlers, Unhandled, keyboard_handler_c, mouse_handler, Controller,
                Mouse, Key, Repeat, Scan, UserInput, initVars, vars
  <2>4. Running'
    BY <2>1, <2>2, RunningHandlers, RunningController, RunningUser DEF Next
  <2>. QED BY <1>3, <2>3, <2>4
<1>. QED BY <1>2, <1>3

-----------------------------------------------------------------------------
(* The scan codes.                                                         *)

LEMMA MuddledStays == ASSUME [Next]_vars, ~muddled' PROVE ~muddled
<1>1. ASSUME NEW k \in Keys, Key(k) \/ Repeat(k) PROVE ~muddled
  <2>1. CASE Key(k)
    BY <2>1, Zenon DEF Key
  <2>2. CASE Repeat(k)
    BY <2>2, Zenon DEF Repeat
  <2>. QED BY <1>1, <2>1, <2>2
<1>2. CASE UNCHANGED muddled
  BY <1>2
<1>. QED
  BY <1>1, <1>2
     DEF Next, Main, Enable, Ask, ReadConfig, WriteConfig, Command, SetDefault, Stream,
         mouse_read, Polled, SetGate, MouseGate, Center, keyboard_init, KeepHandlers,
         Handlers, Unhandled, keyboard_handler_c, mouse_handler, Controller, Mouse,
         userVars, vars

\* A step that neither handles a scan code nor sends one.
LEMMA KeysUntouched ==
  ASSUME InStep, ~muddled, UNCHANGED <<g_ShiftDown, g_CapsLock, userVars, kbdQ>>,
         Held' <=> Held, Held => data' = data, pc' # "ready" => pc # "ready"
  PROVE  InStep'
<1>. USE DEF userVars
<1>1. PICK S, C \in SUBSET (0 .. Len(kbdQ)) : Explained(S, C)
  BY DEF InStep
<1>2. Explained(S, C)'
  BY <1>1 DEF Explained
<1>. QED BY <1>2 DEF InStep

\* No key is of two classes, and no release has the code of a printing key.
LEMMA KeyClasses ==
  /\ \A v \in Letters : v \notin Lacking /\ v \notin Symbols
  /\ \A v \in Symbols : v \notin Letters /\ v \notin Lacking
  /\ \A v \in Lacking : v \notin Letters /\ v \notin Symbols
  /\ \A k \in Keys : k + 128 \notin Printing
<1>1. \A v \in Letters : v \in 16 .. 50 /\ v \notin Lacking /\ v \notin Symbols
  BY DEF Letters, Symbols, Lacking
<1>2. \A v \in Symbols : v \notin Letters /\ v \notin Lacking
  BY DEF Letters, Symbols, Lacking
<1>3. \A v \in Lacking : v \notin Letters /\ v \notin Symbols
  BY DEF Letters, Symbols, Lacking
<1>4. Printing \subseteq 1 .. 58
  BY DEF Printing, Letters, Symbols, Lacking
<1>5. \A k \in Keys : k + 128 \notin 1 .. 58
  BY InputAssumption
<1>. QED BY <1>1, <1>2, <1>3, <1>4, <1>5

\* The handler does what was announced when the key was pressed.
LEMMA HandledRight ==
  ASSUME Flags, PlacesOK, BytesOK, Requested, Answered, InStep, ~muddled,
         keyboard_handler_c
  PROVE  InStep' /\ ~mistyped'
<1>1. /\ 1 \in irr /\ obf' = FALSE /\ data' = data
      /\ UNCHANGED <<pc, kbdQ, userVars>> /\ muddled' = muddled
      /\ g_ShiftDown' = IF data.v \in {LShift, RShift} THEN TRUE
                        ELSE IF data.v \in {LShift + 128, RShift + 128} THEN FALSE
                        ELSE g_ShiftDown
      /\ g_CapsLock' = IF data.v = CapsLock THEN ~g_CapsLock ELSE g_CapsLock
  BY DEF keyboard_handler_c, Modifiers, initVars, queues, userVars
<1>2. obf /\ data.src \in {"kbd", "ctl"} /\ ~Held'
  BY <1>1 DEF Requested, BytesOK, Byte, Held
<1>3. mistyped' = (data.v \in Printing /\ ~muddled /\
                    Shifted(data.v) # (data.tag = 1 /\ data.v \notin Lacking))
  BY DEF keyboard_handler_c
<1>4. CASE data.src = "ctl"
  <2>1. data.v = 65
    BY <1>4 DEF Answered
  <2>2. g_ShiftDown' = g_ShiftDown /\ g_CapsLock' = g_CapsLock
    BY <1>1, <2>1 DEF LShift, RShift, CapsLock
  <2>3. InStep'
    BY <1>1, <1>2, <1>4, <2>2, KeysUntouched DEF Held
  <2>4. data.v \notin Printing
    BY <2>1 DEF Printing, Letters, Symbols, Lacking
  <2>. QED BY <1>3, <2>3, <2>4
<1>5. CASE data.src = "kbd"
  <2>1. PICK S, C \in SUBSET (0 .. Len(kbdQ)) : Explained(S, C)
    BY DEF InStep
  <2>2. /\ ShiftTurns(g_ShiftDown, data.v, 0 \in S)
        /\ CapsTurns(g_CapsLock, data.v, 0 \in C)
        /\ Tagged(data, g_ShiftDown, g_CapsLock)
    BY <1>2, <1>5, <2>1 DEF Explained, Held
  <2>3. 0 \in S <=> g_ShiftDown'
    BY <1>1, <2>2 DEF ShiftTurns, Shifts, Flags
  <2>4. 0 \in C <=> g_CapsLock'
    BY <1>1, <2>2 DEF CapsTurns, Flags
  <2>5. Explained(S, C)'
    BY <1>1, <1>2, <2>1, <2>3, <2>4 DEF Explained, userVars
  <2>6. InStep'
    BY <1>1, <1>2, <2>5 DEF InStep, userVars
  <2>7. data.v \in Printing => Shifted(data.v) = (data.tag = 1 /\ data.v \notin Lacking)
    <3>1. /\ data.v \in Letters => data.v \notin Lacking
          /\ data.v \in Symbols => data.v \notin Letters /\ data.v \notin Lacking
          /\ data.v \in Lacking => data.v \notin Letters /\ data.v \notin Symbols
      BY KeyClasses
    <3>2. g_ShiftDown \in BOOLEAN /\ g_CapsLock \in BOOLEAN
      BY DEF Flags
    <3>3. CASE data.v \in Letters
      BY <2>2, <3>1, <3>2, <3>3 DEF Tagged, Shifted, Printing
    <3>4. CASE data.v \in Symbols
      BY <2>2, <3>1, <3>2, <3>4 DEF Tagged, Shifted, Printing
    <3>5. CASE data.v \in Lacking
      BY <3>1, <3>5 DEF Shifted
    <3>. QED BY <3>3, <3>4, <3>5 DEF Printing
  <2>8. ~mistyped'
    BY <1>3, <2>7, Zenon
  <2>. QED BY <2>6, <2>8
<1>. QED BY <1>2, <1>4, <1>5

\* The scan code that the controller delivers is the next that was explained.
LEMMA DeliveredRight ==
  ASSUME BytesOK, Answered, InStep, ~muddled, Controller
  PROVE  InStep'
<1>1. /\ UNCHANGED <<pc, g_ShiftDown, g_CapsLock, userVars>> /\ ~obf
      /\ down' = down /\ caps' = caps /\ muddled' = muddled
  BY DEF Controller, Deliver, initVars, KeepHandlers, keyVars, userVars
<1>2. ~Held
  BY <1>1 DEF Held
<1>3. CASE UNCHANGED kbdQ /\ data'.src # "kbd"
  <2>1. ~Held'
    BY <1>3 DEF Held
  <2>. QED BY <1>1, <1>2, <1>3, <2>1, KeysUntouched
<1>4. CASE kbdQ # <<>> /\ Deliver(kbdQ, 1, 0) /\ kbdQ' = Tail(kbdQ) /\ data'.src = "kbd"
  <2>. DEFINE L == Len(kbdQ)
  <2>1. PICK S, C \in SUBSET (0 .. L) : Explained(S, C)
    BY DEF InStep
  <2>2. /\ L \in Nat /\ L > 0 /\ Len(kbdQ') = L - 1 /\ data' = kbdQ[1] /\ obf'
        /\ \A n \in 1 .. L - 1 : kbdQ'[n] = kbdQ[n + 1]
    BY <1>4, QueueMoves DEF BytesOK, Deliver
  <2>3. Held'
    BY <1>4, <2>2 DEF Held
  <2>4. PICK S2, C2 \in SUBSET (0 .. L - 1) :
          \A n \in 0 .. L - 1 : (n \in S2 <=> n + 1 \in S) /\ (n \in C2 <=> n + 1 \in C)
    <3>. DEFINE Shift(X) == {n \in 0 .. L - 1 : n + 1 \in X}
    <3>1. \A X : /\ Shift(X) \in SUBSET (0 .. L - 1)
                 /\ \A n \in 0 .. L - 1 : n \in Shift(X) <=> n + 1 \in X
      OBVIOUS
    <3>. HIDE DEF Shift
    <3>. QED BY <3>1
  <2>5. \A n \in 1 .. L : /\ ShiftTurns(n - 1 \in S, kbdQ[n].v, n \in S)
                          /\ CapsTurns(n - 1 \in C, kbdQ[n].v, n \in C)
                          /\ Tagged(kbdQ[n], n - 1 \in S, n - 1 \in C)
    BY <2>1 DEF Explained
  <2>6. (0 \in S <=> g_ShiftDown) /\ (0 \in C <=> g_CapsLock)
    BY <1>2, <2>1 DEF Explained
  <2>7. /\ ShiftTurns(g_ShiftDown, kbdQ[1].v, 0 \in S2)
        /\ CapsTurns(g_CapsLock, kbdQ[1].v, 0 \in C2)
        /\ Tagged(kbdQ[1], g_ShiftDown, g_CapsLock)
    <3>1. 1 \in 1 .. L /\ 1 - 1 = 0 /\ 0 \in 0 .. L - 1 /\ 0 + 1 = 1
      BY <2>2
    <3>2. /\ ShiftTurns(0 \in S, kbdQ[1].v, 1 \in S) /\ CapsTurns(0 \in C, kbdQ[1].v, 1 \in C)
          /\ Tagged(kbdQ[1], 0 \in S, 0 \in C)
      BY <2>5, <3>1
    <3>3. (0 \in S2 <=> 1 \in S) /\ (0 \in C2 <=> 1 \in C)
      BY <2>4, <3>1
    <3>. QED BY <2>6, <3>2, <3>3 DEF ShiftTurns, CapsTurns, Tagged
  <2>8. ASSUME NEW n \in 1 .. L - 1
        PROVE  /\ ShiftTurns(n - 1 \in S2, kbdQ'[n].v, n \in S2)
               /\ CapsTurns(n - 1 \in C2, kbdQ'[n].v, n \in C2)
               /\ Tagged(kbdQ'[n], n - 1 \in S2, n - 1 \in C2)
    <3>1. /\ n + 1 \in 1 .. L /\ (n + 1) - 1 = n /\ n \in 0 .. L - 1
          /\ n - 1 \in 0 .. L - 1 /\ (n - 1) + 1 = n
      BY <2>2
    <3>2. /\ ShiftTurns(n \in S, kbdQ[n + 1].v, n + 1 \in S)
          /\ CapsTurns(n \in C, kbdQ[n + 1].v, n + 1 \in C)
          /\ Tagged(kbdQ[n + 1], n \in S, n \in C)
      BY <2>5, <3>1
    <3>3. /\ n \in S2 <=> n + 1 \in S
          /\ n \in C2 <=> n + 1 \in C
          /\ n - 1 \in S2 <=> n \in S
          /\ n - 1 \in C2 <=> n \in C
      BY <2>4, <3>1
    <3>4. kbdQ'[n] = kbdQ[n + 1]
      BY <2>2
    <3>. QED BY <3>2, <3>3, <3>4 DEF ShiftTurns, CapsTurns, Tagged
  <2>9. /\ L - 1 \in S2 <=> down \cap Shifts # {}
        /\ L - 1 \in C2 <=> caps
    <3>1. L - 1 \in 0 .. L - 1 /\ (L - 1) + 1 = L
      BY <2>2
    <3>2. (L \in S <=> down \cap Shifts # {}) /\ (L \in C <=> caps)
      BY <2>1 DEF Explained
    <3>. QED BY <2>4, <3>1, <3>2
  <2>10. Explained(S2, C2)'
    <3>1. /\ ShiftTurns(g_ShiftDown', data'.v, 0 \in S2)
          /\ CapsTurns(g_CapsLock', data'.v, 0 \in C2)
          /\ Tagged(data', g_ShiftDown', g_CapsLock')
      BY <1>1, <2>2, <2>7 DEF ShiftTurns, CapsTurns, Tagged
    <3>2. \A n \in 1 .. Len(kbdQ') :
            /\ ShiftTurns(n - 1 \in S2, kbdQ'[n].v, n \in S2)
            /\ CapsTurns(n - 1 \in C2, kbdQ'[n].v, n \in C2)
            /\ Tagged(kbdQ'[n], n - 1 \in S2, n - 1 \in C2)
      BY <2>2, <2>8
    <3>3. /\ Len(kbdQ') \in S2 <=> down' \cap Shifts # {}
          /\ Len(kbdQ') \in C2 <=> caps'
      BY <1>1, <2>2, <2>9
    <3>. QED BY <2>3, <3>1, <3>2, <3>3 DEF Explained, ShiftTurns, CapsTurns, Tagged
  <2>11. S2 \in SUBSET (0 .. Len(kbdQ')) /\ C2 \in SUBSET (0 .. Len(kbdQ'))
    BY <2>2
  <2>12. pc' = "ready" /\ ~(Shifts \subseteq down')
    BY <1>1, <1>4 DEF InStep
  <2>. QED BY <2>10, <2>11, <2>12 DEF InStep
<1>. QED BY <1>3, <1>4, Delivered

\* A scan code is sent that turns the modifiers as the user turned them, and is
\* tagged with what the user saw.
LEMMA SentRight ==
  ASSUME BytesOK, NEW S \in SUBSET (0 .. Len(kbdQ)), NEW C \in SUBSET (0 .. Len(kbdQ)),
         Explained(S, C), UNCHANGED <<g_ShiftDown, g_CapsLock, obf, data>>,
         NEW x \in Byte, kbdQ' = Append(kbdQ, x),
         ShiftTurns(down \cap Shifts # {}, x.v, down' \cap Shifts # {}),
         CapsTurns(caps, x.v, caps'),
         Tagged(x, down \cap Shifts # {}, caps)
  PROVE  \E S2, C2 \in SUBSET (0 .. Len(kbdQ')) : Explained(S2, C2)'
<1>. DEFINE L == Len(kbdQ)
<1>1. /\ L \in Nat /\ Len(kbdQ') = L + 1 /\ kbdQ'[L + 1] = x
      /\ \A n \in 1 .. L : kbdQ'[n] = kbdQ[n]
  BY QueueMoves DEF BytesOK
<1>2. PICK S2, C2 \in SUBSET (0 .. L + 1) :
        /\ \A n \in 0 .. L : (n \in S2 <=> n \in S) /\ (n \in C2 <=> n \in C)
        /\ L + 1 \in S2 <=> down' \cap Shifts # {}
        /\ L + 1 \in C2 <=> caps'
  <2>1. ASSUME NEW X \in SUBSET (0 .. L), NEW b \in BOOLEAN
        PROVE  \E Y \in SUBSET (0 .. L + 1) :
                 (\A n \in 0 .. L : n \in Y <=> n \in X) /\ (L + 1 \in Y <=> b)
    <3>1. L + 1 \notin X /\ X \in SUBSET (0 .. L + 1)
      BY <1>1
    <3>2. CASE b
      <4>1. L + 1 \in 0 .. L + 1 /\ \A n \in 0 .. L : n # L + 1
        BY <1>1
      <4>. HIDE DEF L
      <4>2. X \cup {L + 1} \in SUBSET (0 .. L + 1)
        BY <3>1, <4>1
      <4>3. \A n \in 0 .. L : n \in X \cup {L + 1} <=> n \in X
        BY <4>1
      <4>. QED BY <3>2, <4>2, <4>3
    <3>3. CASE ~b
      BY <3>1, <3>3
    <3>. QED BY <3>2, <3>3
  <2>2. PICK b \in BOOLEAN : b <=> down' \cap Shifts # {}
    OBVIOUS
  <2>3. PICK c \in BOOLEAN : c <=> caps'
    OBVIOUS
  <2>4. PICK S2 \in SUBSET (0 .. L + 1) :
          (\A n \in 0 .. L : n \in S2 <=> n \in S) /\ (L + 1 \in S2 <=> b)
    BY <2>1
  <2>5. PICK C2 \in SUBSET (0 .. L + 1) :
          (\A n \in 0 .. L : n \in C2 <=> n \in C) /\ (L + 1 \in C2 <=> c)
    BY <2>1
  <2>. QED BY <2>2, <2>3, <2>4, <2>5
<1>3. Held' <=> Held
  BY DEF Held
<1>4. IF Held
      THEN /\ ShiftTurns(g_ShiftDown, data.v, 0 \in S2)
           /\ CapsTurns(g_CapsLock, data.v, 0 \in C2)
           /\ Tagged(data, g_ShiftDown, g_CapsLock)
      ELSE (0 \in S2 <=> g_ShiftDown) /\ (0 \in C2 <=> g_CapsLock)
  <2>1. (0 \in S2 <=> 0 \in S) /\ (0 \in C2 <=> 0 \in C)
    BY <1>1, <1>2
  <2>. QED BY <2>1 DEF Explained, ShiftTurns, CapsTurns
<1>5. ASSUME NEW n \in 1 .. L
      PROVE  /\ ShiftTurns(n - 1 \in S2, kbdQ'[n].v, n \in S2)
             /\ CapsTurns(n - 1 \in C2, kbdQ'[n].v, n \in C2)
             /\ Tagged(kbdQ'[n], n - 1 \in S2, n - 1 \in C2)
  <2>1. n \in 0 .. L /\ n - 1 \in 0 .. L
    BY <1>1
  <2>2. /\ ShiftTurns(n - 1 \in S, kbdQ[n].v, n \in S)
        /\ CapsTurns(n - 1 \in C, kbdQ[n].v, n \in C)
        /\ Tagged(kbdQ[n], n - 1 \in S, n - 1 \in C)
    BY DEF Explained
  <2>3. /\ (n \in S2 <=> n \in S) /\ (n - 1 \in S2 <=> n - 1 \in S)
        /\ (n \in C2 <=> n \in C) /\ (n - 1 \in C2 <=> n - 1 \in C)
        /\ kbdQ'[n] = kbdQ[n]
    BY <1>1, <1>2, <2>1
  <2>. QED BY <2>2, <2>3 DEF ShiftTurns, CapsTurns, Tagged
<1>6. /\ ShiftTurns(L \in S2, x.v, L + 1 \in S2)
      /\ CapsTurns(L \in C2, x.v, L + 1 \in C2)
      /\ Tagged(x, L \in S2, L \in C2)
  <2>1. (L \in S2 <=> down \cap Shifts # {}) /\ (L \in C2 <=> caps)
    <3>1. (L \in S <=> down \cap Shifts # {}) /\ (L \in C <=> caps)
      BY DEF Explained
    <3>2. (L \in S2 <=> L \in S) /\ (L \in C2 <=> L \in C)
      BY <1>1, <1>2
    <3>. QED BY <3>1, <3>2
  <2>. QED BY <1>2, <2>1 DEF ShiftTurns, CapsTurns, Tagged
<1>7. ASSUME NEW n \in 1 .. L + 1
      PROVE  /\ ShiftTurns(n - 1 \in S2, kbdQ'[n].v, n \in S2)
             /\ CapsTurns(n - 1 \in C2, kbdQ'[n].v, n \in C2)
             /\ Tagged(kbdQ'[n], n - 1 \in S2, n - 1 \in C2)
  <2>1. CASE n = L + 1
    <3>1. n - 1 = L
      BY <1>1, <2>1
    <3>. QED BY <1>1, <1>6, <2>1, <3>1
  <2>2. CASE n \in 1 .. L
    BY <1>5, <2>2
  <2>. QED BY <1>1, <2>1, <2>2
<1>8. Explained(S2, C2)'
  <2>1. IF Held'
        THEN /\ ShiftTurns(g_ShiftDown', data'.v, 0 \in S2)
             /\ CapsTurns(g_CapsLock', data'.v, 0 \in C2)
             /\ Tagged(data', g_ShiftDown', g_CapsLock')
        ELSE (0 \in S2 <=> g_ShiftDown') /\ (0 \in C2 <=> g_CapsLock')
    BY <1>3, <1>4 DEF ShiftTurns, CapsTurns, Tagged
  <2>2. \A n \in 1 .. Len(kbdQ') :
          /\ ShiftTurns(n - 1 \in S2, kbdQ'[n].v, n \in S2)
          /\ CapsTurns(n - 1 \in C2, kbdQ'[n].v, n \in C2)
          /\ Tagged(kbdQ'[n], n - 1 \in S2, n - 1 \in C2)
    BY <1>1, <1>7
  <2>3. /\ Len(kbdQ') \in S2 <=> down' \cap Shifts # {}
        /\ Len(kbdQ') \in C2 <=> caps'
    BY <1>1, <1>2
  <2>. QED BY <2>1, <2>2, <2>3 DEF Explained, ShiftTurns, CapsTurns, Tagged
<1>. QED BY <1>1, <1>2, <1>8

\* The user types, and both the driver and the user take it as one does.
LEMMA TypedRight ==
  ASSUME Flags, PlacesOK, BytesOK, InStep, ~muddled, ~muddled',
         NEW k \in Keys, Key(k) \/ Repeat(k)
  PROVE  InStep'
<1>. USE DEF Shifts, LShift, RShift, CapsLock
<1>1. PICK S, C \in SUBSET (0 .. Len(kbdQ)) : Explained(S, C)
  BY DEF InStep
<1>2. ~(Shifts \subseteq down) /\ down \subseteq Keys /\ caps \in BOOLEAN
  BY DEF InStep, PlacesOK, Flags
<1>0. k \in 1 .. 58 /\ \A j \in down : j \in 1 .. 58
  BY <1>2, InputAssumption
<1>3. UNCHANGED <<pc, g_ShiftDown, g_CapsLock, obf, data>>
  BY DEF Key, Repeat, Scan, UserInput, initVars, keyVars
<1>4. pc = "ready"
  <2>1. CASE Key(k)
    BY <2>1, Zenon DEF Key
  <2>2. CASE Repeat(k)
    BY <2>2, Zenon DEF Repeat
  <2>. QED BY <2>1, <2>2
<1>. DEFINE shift == down \cap Shifts # {}
<1>5. ASSUME NEW v, v \in {k, k + 128},
             kbdQ' = Append(kbdQ, [src |-> "kbd", v |-> v,
                                   tag |-> IF Meant(k) /\ ~muddled' THEN 1 ELSE 0]),
             v \in Printing => v = k,
             ShiftTurns(shift, v, down' \cap Shifts # {}), CapsTurns(caps, v, caps'),
             ~(Shifts \subseteq down')
      PROVE  InStep'
  <2>. DEFINE x == [src |-> "kbd", v |-> v, tag |-> IF Meant(k) THEN 1 ELSE 0]
  <2>1. kbdQ' = Append(kbdQ, x) /\ x \in Byte /\ x.v = v
    BY <1>0, <1>5 DEF Byte
  <2>2. x.tag = 1 <=> Meant(k)
    OBVIOUS
  <2>3. v \in Printing => (Meant(k) <=> IF v \in Letters THEN ~(shift <=> caps) ELSE shift)
    <3>1. v \in Printing => v = k /\ (k \notin Letters => k \in Symbols \cup Lacking)
      BY <1>5, Zenon DEF Printing
    <3>2. Meant(k) <=> IF k \in Letters THEN ~(shift <=> caps)
                       ELSE k \in Symbols \cup Lacking /\ shift
      BY <1>2 DEF Meant
    <3>. HIDE DEF shift
    <3>. QED BY <3>1, <3>2
  <2>4. Tagged(x, shift, caps)
    BY <2>1, <2>2, <2>3 DEF Tagged
  <2>. HIDE DEF x
  <2>5. \E S2, C2 \in SUBSET (0 .. Len(kbdQ')) : Explained(S2, C2)'
    BY <1>1, <1>3, <1>5, <2>1, <2>4, SentRight
  <2>. QED BY <1>3, <1>4, <1>5, <2>5 DEF InStep
<1>6. CASE Key(k)
  <2>. DEFINE v == IF k \in down THEN k + 128 ELSE k
  <2>1. /\ down' = IF k \in down THEN down \ {k} ELSE down \cup {k}
        /\ kbdQ' = Append(kbdQ, [src |-> "kbd", v |-> v,
                                 tag |-> IF Meant(k) /\ ~muddled' THEN 1 ELSE 0])
    BY <1>6 DEF Key, Scan
  <2>2. ~(Shifts \subseteq down')
    BY <1>6, Zenon DEF Key
  <2>3. caps' = (caps # (k = CapsLock /\ k \notin down))
    <3>1. caps' = (~muddled' /\ (caps # (k = CapsLock /\ k \notin down)))
      BY <1>6 DEF Key
    <3>. QED BY <3>1, Zenon
  <2>4. ShiftTurns(shift, v, down' \cap Shifts # {})
    <3>1. CASE k \in down
      BY <1>0, <1>2, <2>1, <3>1 DEF ShiftTurns
    <3>2. CASE k \notin down
      BY <1>0, <1>2, <2>1, <3>2 DEF ShiftTurns
    <3>. QED BY <3>1, <3>2
  <2>5. CapsTurns(caps, v, caps')
    <3>1. v # CapsLock <=> ~(k = CapsLock /\ k \notin down)
      BY <1>0
    <3>. QED BY <1>2, <2>3, <3>1 DEF CapsTurns
  <2>6. v \in Printing => v = k
    <3>1. CASE k \in down
      BY <3>1, KeyClasses, Zenon
    <3>2. CASE k \notin down
      BY <3>2, Zenon
    <3>. HIDE DEF v
    <3>. QED BY <3>1, <3>2, Zenon
  <2>7. v \in {k, k + 128}
    OBVIOUS
  <2>. HIDE DEF v
  <2>. QED BY <1>5, <2>1, <2>2, <2>4, <2>5, <2>6, <2>7, Zenon
<1>7. CASE Repeat(k)
  <2>1. /\ k \in down /\ down' = down
        /\ kbdQ' = Append(kbdQ, [src |-> "kbd", v |-> k,
                                 tag |-> IF Meant(k) /\ ~muddled' THEN 1 ELSE 0])
    BY <1>7 DEF Repeat, Scan
  <2>2. k # CapsLock
    BY <1>7, Zenon DEF Repeat
  <2>3. caps' = caps
    <3>1. caps' = (caps /\ ~muddled')
      BY <1>7 DEF Repeat
    <3>. QED BY <1>2, <3>1, Zenon
  <2>4. ShiftTurns(shift, k, down' \cap Shifts # {})
    BY <1>0, <2>1 DEF ShiftTurns
  <2>5. CapsTurns(caps, k, caps')
    BY <2>2, <2>3 DEF CapsTurns
  <2>. QED BY <1>2, <1>5, <2>1, <2>4, <2>5
<1>. QED BY <1>6, <1>7

LEMMA InStepStep ==
  ASSUME Flags, PlacesOK, BytesOK, Requested, Answered, InStep, ~mistyped, [Next]_vars
  PROVE  InStep' /\ ~mistyped'
<1>1. CASE keyboard_handler_c
  <2>1. CASE ~muddled
    BY <1>1, <2>1, HandledRight
  <2>2. CASE muddled
    <3>1. /\ mistyped' = (data.v \in Printing /\ ~muddled /\
                        Shifted(data.v) # (data.tag = 1 /\ data.v \notin Lacking))
          /\ muddled' = muddled
      BY <1>1 DEF keyboard_handler_c, userVars
    <3>2. ~mistyped'
      BY <2>2, <3>1, Zenon
    <3>. QED BY <2>2, <3>1, <3>2 DEF InStep
  <2>. QED BY <2>1, <2>2
<1>2. CASE ~keyboard_handler_c
  <2>1. ~mistyped'
    BY <1>2 DEF Next, Main, Enable, Ask, ReadConfig, WriteConfig, Command, SetDefault,
                Stream, mouse_read, Polled, SetGate, MouseGate, Center, keyboard_init,
                KeepHandlers, Handlers, Unhandled, mouse_handler, Controller, Mouse, Key,
                Repeat, Scan, UserInput, keyVars, vars
  <2>. SUFFICES ASSUME ~muddled' PROVE InStep'
    BY <2>1 DEF InStep
  <2>2. ~muddled
    BY MuddledStays
  <2>3. CASE Controller
    BY <2>2, <2>3, DeliveredRight
  <2>4. CASE \E k \in Keys : Key(k) \/ Repeat(k)
    BY <2>2, <2>4, TypedRight
  <2>5. CASE Main
    <3>1. /\ UNCHANGED <<g_ShiftDown, g_CapsLock, userVars, kbdQ, data>> /\ pc # "ready"
          /\ obf' = obf \/ obf' = FALSE
      BY <2>5 DEF Main, Enable, Ask, ReadConfig, WriteConfig, Command, SetDefault, Stream,
                  mouse_read, Polled, SetGate, MouseGate, Center, keyboard_init, Goto,
                  KeepHandlers, keyVars, queues
    <3>2. ~Held /\ ~Held'
      BY <2>2, <3>1 DEF InStep, Held
    <3>. QED BY <2>2, <3>1, <3>2, KeysUntouched
  <2>6. CASE mouse_handler
    <3>1. /\ UNCHANGED <<pc, g_ShiftDown, g_CapsLock, userVars, kbdQ, data>>
          /\ data.src # "aux" => obf' = obf
      BY <2>6 DEF mouse_handler, initVars, keyVars, queues
    <3>2. data.src = "aux" => ~Held /\ ~Held'
      BY <3>1 DEF Held
    <3>3. Held' <=> Held
      BY <3>1, <3>2 DEF Held
    <3>. QED BY <2>2, <3>1, <3>3, KeysUntouched
  <2>7. CASE Unhandled \/ Mouse \/ UNCHANGED vars
    <3>1. UNCHANGED <<pc, g_ShiftDown, g_CapsLock, userVars, kbdQ, data, obf>>
      BY <2>7 DEF Unhandled, Mouse, UserInput, KeepHandlers, initVars, keyVars, userVars,
                  queues, vars
    <3>2. Held' <=> Held
      BY <3>1 DEF Held
    <3>. QED BY <2>2, <3>1, <3>2, KeysUntouched
  <2>. QED BY <1>2, <2>3, <2>4, <2>5, <2>6, <2>7 DEF Next, Handlers
<1>. QED BY <1>1, <1>2

-----------------------------------------------------------------------------
(* Theorems.                                                               *)

LEMMA IInvInit == Init => IInv
<1>. SUFFICES ASSUME Init PROVE IInv
  OBVIOUS
<1>. USE DEF Init
<1>1. NoByte \in Byte /\ NoByte.src = "kbd"
  BY DEF NoByte, Byte
<1>2. W \in Nat \ {0} /\ H \in Nat \ {0}
  BY InputAssumption DEF InputAssumption
<1>3. Flags /\ PlacesOK /\ BytesOK
  BY <1>1 DEF Flags, PlacesOK, BytesOK
<1>4. PointerOK
  BY <1>1, <1>2 DEF PointerOK, PointerOnScreen
<1>5. Requested /\ Answered
  BY <1>1 DEF Requested, Answered
<1>6. Framed
  BY DEF Framed, ComingUp, Nothing
<1>7. InStep
  <2>1. ~Held /\ Len(kbdQ) = 0
    BY DEF Held
  <2>2. Explained({}, {})
    BY <2>1 DEF Explained
  <2>. QED BY <2>1, <2>2 DEF InStep, Shifts
<1>. QED BY <1>3, <1>4, <1>5, <1>6, <1>7, TypeParts DEF IInv

LEMMA IInvStep == IInv /\ [Next]_vars => IInv'
<1>. SUFFICES ASSUME IInv, [Next]_vars PROVE IInv'
  OBVIOUS
<1>1. /\ Flags /\ PlacesOK /\ PointerOK /\ BytesOK
      /\ Requested /\ Answered /\ Framed /\ InStep /\ ~mistyped
  BY TypeParts DEF IInv
<1>2. Flags' /\ PlacesOK' /\ PointerOK' /\ BytesOK'
  BY <1>1, FlagsStep, PlacesStep, PointerStep, BytesStep
<1>3. (InputTypeOK /\ PointerOnScreen)'
  BY <1>2 DEF InputTypeOK, Flags, PlacesOK, PointerOK, BytesOK
<1>4. Requested' /\ Answered'
  BY <1>1, RequestedStep, AnsweredStep
<1>5. Framed'
  BY <1>1, FramedStep
<1>6. InStep' /\ ~mistyped'
  BY <1>1, InStepStep
<1>. QED BY <1>3, <1>4, <1>5, <1>6 DEF IInv

LEMMA IInvAlways == InputSpec => []IInv
BY IInvInit, IInvStep, PTL DEF InputSpec

\* Every variable of the drivers and of the controller keeps its type, with any
\* number of scan codes held back and any packets.
THEOREM InputTypeCorrect == InputSpec => []InputTypeOK
BY IInvAlways, PTL DEF IInv

\* mouse_handler never hands on a point outside the screen, however large the
\* movement in the packet and whatever bytes it takes for one.
THEOREM PointerCorrect == InputSpec => []PointerOnScreen
BY IInvAlways, PTL DEF IInv

\* If no input comes and no wait runs out before the drivers are up, the three
\* bytes that mouse_handler puts together are always those of one packet.
THEOREM PacketsCorrect == InputSpec => []PacketsFramed
<1>1. IInv => PacketsFramed
  <2>. SUFFICES ASSUME IInv, ~early PROVE PacketsFramed
    BY DEF PacketsFramed
  <2>1. CASE pc = "ready"
    <3>1. Running
      BY <2>1 DEF IInv, Framed
    <3>2. 12 \in irr => data.src = "aux" /\ data.tag = g_MouseCycle
      BY <3>1 DEF IInv, Requested, Running, Buffered
    <3>. QED BY <3>1, <3>2 DEF PacketsFramed, Running
  <2>2. CASE pc # "ready"
    <3>1. ComingUp
      BY <2>2 DEF IInv, Framed
    <3>2. 12 \notin irr \cap gates
      BY <3>1 DEF ComingUp, Nothing
    <3>3. \A n \in 0 .. g_MouseCycle - 1 : FALSE
      BY <3>1 DEF ComingUp
    <3>. QED BY <3>2, <3>3 DEF PacketsFramed
  <2>. QED BY <2>1, <2>2
<1>. QED BY <1>1, IInvAlways, PTL

\* keyboard_handler_c gives the character that was meant, with any number of scan
\* codes between the user's fingers and the handler.
THEOREM CaseCorrect == InputSpec => []CaseRight
<1>1. IInv => CaseRight
  BY DEF IInv, CaseRight
<1>. QED BY <1>1, IInvAlways, PTL

=============================================================================
