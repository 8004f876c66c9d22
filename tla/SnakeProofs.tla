----------------------------- MODULE SnakeProofs -----------------------------
(* Theorems about Snake for every grid, every capacity of the array and    *)
(* every pace that its assumption admits.                                  *)
EXTENDS Snake, FiniteSetTheorems, TLAPS

-----------------------------------------------------------------------------
(* The inductive invariant.                                                *)

\* The segments that make up the snake: while the body is shifted there is
\* one more than its length, and a hole that goes from the tail to the head.
Live == IF pc = "shift" THEN (0 .. length) \ {i}
        ELSE IF pc \in {"eat", "grow"} THEN 0 .. length ELSE 0 .. length - 1

\* Two live segments with no other between them.
Linked(s, t) == t = s + 1 \/ (pc = "shift" /\ s = i - 1 /\ t = i + 1)

HeadSeg == IF pc = "shift" /\ i = 0 THEN 1 ELSE 0

\* What the bounds of the array rest on.
Sound ==
  /\ SnakeTypeOK
  /\ pc = "shift" => next_head \in Cell
  /\ disturbed => length <= IF pc \in {"score", "spawn", "test", "idle"} THEN 4 ELSE 3
  /\ pc # "idle" => alive

\* The body in every statement of a move that no reset has disturbed.
Chain ==
  /\ pc = "shift" => i <= length
  /\ \A s, t \in Live : s # t => body[s] # body[t]
  /\ \A s, t \in Live : Linked(s, t) => Adjacent(body[s], body[t])
  /\ pc = "shift" => \A s \in Live : body[s] # next_head

\* The head goes on from the neck in the direction of the move.
Heading ==
  /\ alive /\ pc \notin {"look", "check", "die", "shift"} => body[0] = Ahead(body[1], dir)
  /\ pc \in {"check", "shift"} => next_head = Ahead(body[HeadSeg], dir)
  /\ pc = "eat" => next_head = body[0]

\* Only the new head can be on the food, until the food is moved.
Apart ==
  /\ pc \in {"idle", "load", "turn", "look", "check", "die", "shift"} =>
       \A s \in Live : body[s] # food
  /\ pc = "eat" => \A s \in 1 .. length : body[s] # food

Counted == score = 10 * (length - IF pc = "score" THEN 4 ELSE 3)

\* No turn that is stored or on its way leads back into the neck.
Steering ==
  /\ alive => next_dir # Opposite(dir)
  /\ pc = "turn" => reg = next_dir
  /\ pc \in {"look", "check"} => Ahead(body[0], dir) # body[1]

IInv ==
  /\ Sound
  /\ ~disturbed => Chain /\ Heading /\ Apart /\ Counted
  /\ ~disturbed /\ ~late => Steering

-----------------------------------------------------------------------------
(* Lemmas about the grid and the directions.                               *)

\* The grid has room for the snake of a new game and the array for the grid.
LEMMA Grid ==
  /\ GRID_W \in Nat /\ GRID_H \in Nat /\ MAX_SNAKE_LEN \in Nat
  /\ GRID_W * GRID_H \in Nat /\ GRID_W * GRID_H >= 5
  /\ GRID_W * GRID_H < MAX_SNAKE_LEN
<1>1. GRID_W \in Nat /\ GRID_H \in Nat /\ GRID_W >= 1 /\ GRID_H >= 5
  BY SnakeAssumption DEF SnakeAssumption
<1>2. GRID_W * GRID_H >= 1 * GRID_H
  BY <1>1
<1>. QED BY <1>1, <1>2, SnakeAssumption DEF SnakeAssumption

\* The snake of a new game is one piece on the grid and looks up.
LEMMA NewBodyFits ==
  /\ \A s \in 0 .. 2 : NewBody(s) \in Cell
  /\ \A s, t \in 0 .. 2 : s # t => NewBody(s) # NewBody(t)
  /\ \A s, t \in 0 .. 2 : t = s + 1 => NewBody(t) = Ahead(NewBody(s), "down")
  /\ NewBody(0) = Ahead(NewBody(1), "up")
<1>1. GRID_W \in Nat /\ GRID_H \in Nat /\ GRID_W >= 1 /\ GRID_H >= 5
  BY SnakeAssumption DEF SnakeAssumption
<1>2. /\ GRID_W \div 2 \in 0 .. GRID_W - 1
      /\ GRID_H \div 2 \in 0 .. GRID_H - 3
  BY <1>1
<1>. QED BY <1>1, <1>2 DEF NewBody, Cell, Ahead

\* One step from a cell leads at most into the border around the grid.
LEMMA AheadType ==
  ASSUME NEW c \in Cell, NEW d \in Directions
  PROVE  Ahead(c, d) \in [x : -1 .. GRID_W, y : -1 .. GRID_H]
BY Grid DEF Ahead, Cell, Directions

\* Only the opposite direction leads back, and it does.
LEMMA AheadBack ==
  ASSUME NEW c \in Cell, NEW d \in Directions
  PROVE  /\ Opposite(d) \in Directions
         /\ Ahead(Ahead(c, d), Opposite(d)) = c
         /\ \A e \in Directions : e # Opposite(d) => Ahead(Ahead(c, d), e) # c
BY Grid DEF Ahead, Cell, Directions, Opposite

\* A snake of different cells is no longer than the grid has cells.
LEMMA SnakeFits ==
  ASSUME NEW n \in Nat, NEW b, \A s \in 0 .. n : b[s] \in Cell,
         \A s, t \in 0 .. n : s # t => b[s] # b[t]
  PROVE  n + 1 <= GRID_W * GRID_H
<1>. DEFINE X == 0 .. GRID_W - 1
            Y == 0 .. GRID_H - 1
            f == [s \in 0 .. n |-> <<b[s].x, b[s].y>>]
<1>1. IsFiniteSet(X) /\ Cardinality(X) = GRID_W
  BY FS_Interval, Grid
<1>2. IsFiniteSet(Y) /\ Cardinality(Y) = GRID_H
  BY FS_Interval, Grid
<1>3. IsFiniteSet(X \X Y) /\ Cardinality(X \X Y) = GRID_W * GRID_H
  BY <1>1, <1>2, FS_Product
<1>4. IsFiniteSet(0 .. n) /\ Cardinality(0 .. n) = n + 1
  BY FS_Interval
<1>5. f \in [0 .. n -> X \X Y]
  BY DEF Cell
<1>6. ASSUME NEW s \in 0 .. n, NEW t \in 0 .. n, s # t PROVE f[s] # f[t]
  <2>1. b[s] \in Cell /\ b[t] \in Cell /\ b[s] # b[t]
    BY <1>6
  <2>2. b[s] = [x |-> b[s].x, y |-> b[s].y] /\ b[t] = [x |-> b[t].x, y |-> b[t].y]
    BY <2>1 DEF Cell
  <2>. QED BY <2>1, <2>2
<1>. HIDE DEF X, Y, f
<1>7. ~ Cardinality(0 .. n) > Cardinality(X \X Y)
  BY <1>3, <1>4, <1>5, <1>6, FS_PigeonHole
<1>. QED BY <1>3, <1>4, <1>7, Grid

-----------------------------------------------------------------------------
(* The beginning and the steps.                                            *)

\* The three segments of a new game, wherever the array was.
LEMMA NewSnake ==
  ASSUME NEW b, \A s \in 0 .. 2 : b[s] = NewBody(s)
  PROVE  /\ \A s, t \in 0 .. 2 : s # t => b[s] # b[t]
         /\ \A s, t \in 0 .. 2 : t = s + 1 => Adjacent(b[s], b[t])
         /\ b[0] = Ahead(b[1], "up")
         /\ \A c \in {c \in Cell : \A s \in 0 .. 2 : c # NewBody(s)} :
              \A s \in 0 .. 2 : b[s] # c
BY NewBodyFits DEF Adjacent, Directions

LEMMA IInvInit == game_reset => IInv
<1>. SUFFICES ASSUME game_reset PROVE IInv
  OBVIOUS
<1>. USE DEF game_reset
<1>1. /\ body \in [Segs -> Cell]
      /\ \A s \in 0 .. 2 : body[s] = NewBody(s)
  BY NewBodyFits, Grid, SnakeAssumption DEF Segs, Junk, Cell, SnakeAssumption
<1>2. Sound
  <2>1. {alive, paused, disturbed, late} \subseteq BOOLEAN
    OBVIOUS
  <2>2. next_head \in [x : -1 .. GRID_W, y : -1 .. GRID_H]
    BY Grid DEF Junk
  <2>3. last_tick \in 0 .. Skip - 1
    BY SnakeAssumption DEF SnakeAssumption
  <2>4. {dir, next_dir, reg} \subseteq Directions /\ pc \in Statements \cup {"idle"}
    BY DEF Directions, Statements
  <2>. QED BY <1>1, <2>1, <2>2, <2>3, <2>4, Grid DEF Sound, SnakeTypeOK
<1>3. Live = 0 .. 2
  BY DEF Live
<1>4. Chain
  BY <1>1, <1>3, NewSnake DEF Chain, Linked
<1>5. Heading /\ Apart /\ Counted /\ Steering
  BY <1>1, <1>3, NewSnake DEF Heading, Apart, Counted, Steering, Opposite
<1>. QED BY <1>2, <1>4, <1>5 DEF IInv

\* A segment that is kept stays in the grid.
LEMMA TrimKeeps ==
  ASSUME NEW b \in [Segs -> Cell], NEW n \in Nat, n <= GRID_W * GRID_H
  PROVE  /\ Trim(b, n) \in [Segs -> Cell]
         /\ \A s \in 0 .. n - 1 : Trim(b, n)[s] = b[s]
BY Grid, SnakeAssumption DEF Trim, Segs, Junk, Cell, SnakeAssumption

\* The snake is nowhere longer than the grid has cells, so that no statement
\* writes beyond the array.
LEMMA GrowthFits == IInv /\ pc = "grow" => length + 1 <= GRID_W * GRID_H
<1>. SUFFICES ASSUME IInv, pc = "grow" PROVE length + 1 <= GRID_W * GRID_H
  OBVIOUS
<1>1. CASE disturbed
  BY <1>1, Grid DEF IInv, Sound, SnakeTypeOK
<1>2. CASE ~disturbed
  <2>1. length \in Nat /\ length < MAX_SNAKE_LEN /\ body \in [Segs -> Cell]
    BY Grid DEF IInv, Sound, SnakeTypeOK
  <2>2. \A s \in 0 .. length : body[s] \in Cell
    BY <2>1, Grid DEF Segs
  <2>3. \A s, t \in 0 .. length : s # t => body[s] # body[t]
    BY <1>2 DEF IInv, Chain, Live
  <2>. QED BY <2>1, <2>2, <2>3, SnakeFits
<1>. QED BY <1>1, <1>2

Next == snake_tick \/ snake_on_key

LEMMA FlagsStep ==
  ASSUME Sound, [Next]_vars
  PROVE  ({alive, paused, disturbed, late} \subseteq BOOLEAN)'
<1>1. alive \in BOOLEAN /\ paused \in BOOLEAN /\ disturbed \in BOOLEAN /\ late \in BOOLEAN
  BY DEF Sound, SnakeTypeOK
<1>. USE DEF gameVars, ghosts
<1>2. CASE snake_tick
  BY <1>1, <1>2 DEF snake_tick, Wait, Move, Load, Turn, Look, Check, Die, Shift, Eat,
                    Grow, Score, Spawn, Test
<1>3. CASE Reset
  <2>1. alive' \in BOOLEAN /\ paused' \in BOOLEAN
    BY <1>3 DEF Reset
  <2>2. disturbed' \in BOOLEAN /\ late' \in BOOLEAN
    BY <1>1, <1>3 DEF Reset
  <2>. QED BY <2>1, <2>2
<1>4. CASE Pause
  BY <1>1, <1>4 DEF Pause
<1>5. CASE \E d \in Directions : Steer(d)
  BY <1>1, <1>5 DEF Steer
<1>6. CASE UNCHANGED vars
  BY <1>1, <1>6 DEF vars
<1>. QED BY <1>2, <1>3, <1>4, <1>5, <1>6 DEF Next, snake_on_key

LEMMA SoundStep == IInv /\ [Next]_vars => Sound'
<1>. SUFFICES ASSUME IInv, [Next]_vars PROVE Sound'
  OBVIOUS
<1>. DEFINE Near == [x : -1 .. GRID_W, y : -1 .. GRID_H]
            Room == GRID_W * GRID_H
<1>1. Sound /\ SnakeTypeOK
  BY DEF IInv, Sound
<1>2. ({alive, paused, disturbed, late} \subseteq BOOLEAN)'
  BY <1>1, FlagsStep
<1>3. /\ Room \in Nat /\ Room >= 5 /\ Room < MAX_SNAKE_LEN /\ MAX_SNAKE_LEN \in Nat
      /\ Junk \in Near /\ Skip \in Nat \ {0}
  BY Grid, SnakeAssumption DEF SnakeAssumption, Junk
<1>4. /\ body \in [Segs -> Cell] /\ food \in Cell /\ length \in 3 .. Room
      /\ dir \in Directions /\ next_dir \in Directions /\ reg \in Directions
      /\ score \in Nat /\ last_tick \in 0 .. Skip - 1
      /\ pc \in Statements \cup {"idle"}
      /\ next_head \in Near /\ i \in 0 .. Room
      /\ pc = "shift" => next_head \in Cell
      /\ disturbed => length <= IF pc \in {"score", "spawn", "test", "idle"} THEN 4 ELSE 3
      /\ pc # "idle" => alive
  BY <1>1 DEF Sound, SnakeTypeOK
<1>5. "up" \in Directions /\ Segs = 0 .. MAX_SNAKE_LEN - 1
  BY DEF Directions, Segs
<1>. HIDE DEF Near, Room
<1>. DEFINE Typed ==
       /\ body \in [Segs -> Cell] /\ food \in Cell /\ length \in 3 .. Room
       /\ dir \in Directions /\ next_dir \in Directions /\ reg \in Directions
       /\ score \in Nat /\ last_tick \in 0 .. Skip - 1
       /\ pc \in Statements \cup {"idle"}
       /\ next_head \in Near /\ i \in 0 .. Room
            Reach ==
       /\ pc = "shift" => next_head \in Cell
       /\ disturbed => length <= IF pc \in {"score", "spawn", "test", "idle"} THEN 4 ELSE 3
       /\ pc # "idle" => alive
<1>6. SUFFICES Typed' /\ Reach'
  BY <1>2 DEF Sound, SnakeTypeOK, Near, Room
<1>. USE <1>3, <1>4, <1>5 DEF Goto, gameVars, localVars, ghosts, Statements
<1>7. CASE Wait \/ Move
  BY <1>7 DEF Wait, Move
<1>8. CASE Load \/ Turn
  BY <1>8 DEF Load, Turn
<1>9. CASE Look
  <2>1. body[0] \in Cell
    OBVIOUS
  <2>2. next_head' \in Near
    BY <1>9, <2>1, AheadType DEF Look, Near
  <2>. QED BY <1>9, <2>2 DEF Look
<1>10. CASE Check
  BY <1>10 DEF Check
<1>11. CASE Die
  BY <1>11 DEF Die
<1>12. CASE Shift
  BY <1>12 DEF Shift
<1>13. CASE Eat
  <2>1. body' \in [Segs -> Cell]
    BY <1>13, TrimKeeps DEF Eat, Room
  <2>. QED BY <1>13, <2>1 DEF Eat
<1>14. CASE Grow
  <2>1. length + 1 <= Room /\ length' = length + 1
    BY <1>14, GrowthFits DEF Grow, Room
  <2>. QED BY <1>14, <2>1 DEF Grow
<1>15. CASE Score \/ Spawn
  BY <1>15 DEF Score, Spawn
<1>16. CASE Test
  <2>1. body' \in [Segs -> Cell]
    BY <1>16, TrimKeeps DEF Test, Room
  <2>. QED BY <1>16, <2>1 DEF Test
<1>17. CASE Reset
  <2>. DEFINE b == [s \in Segs |-> IF s < 3 THEN NewBody(s) ELSE body[s]]
  <2>1. b \in [Segs -> Cell]
    BY NewBodyFits
  <2>4. body' = Trim(b, 3) \/ body' = b
    BY <1>17 DEF Reset
  <2>. HIDE DEF b
  <2>5. Trim(b, 3) \in [Segs -> Cell]
    BY <2>1, TrimKeeps DEF Room
  <2>2. body' \in [Segs -> Cell]
    BY <2>1, <2>4, <2>5
  <2>3. /\ food' \in Cell /\ length' = 3 /\ dir' = "up" /\ next_dir' = "up"
        /\ score' = 0 /\ last_tick' = 0 /\ alive'
        /\ pc' = pc /\ reg' = reg /\ next_head' = next_head /\ i' = i
    BY <1>17 DEF Reset
  <2>. QED BY <2>2, <2>3
<1>18. CASE Pause
  BY <1>18 DEF Pause
<1>19. CASE \E d \in Directions : Steer(d)
  BY <1>19 DEF Steer
<1>20. CASE UNCHANGED vars
  BY <1>20 DEF vars
<1>. QED
  BY <1>7, <1>8, <1>9, <1>10, <1>11, <1>12, <1>13, <1>14, <1>15, <1>16, <1>17,
     <1>18, <1>19, <1>20 DEF Next, snake_tick, snake_on_key

\* What the provers see of a state that no reset has disturbed.
Ordered == Chain /\ Heading /\ Apart /\ Counted

\* A reset between two moves begins a new game, whatever was before.
LEMMA ResetOrdered ==
  ASSUME IInv, Reset, ~disturbed'
  PROVE  (Ordered /\ Steering)'
<1>. USE DEF Reset, localVars
<1>. DEFINE b == [s \in Segs |-> IF s < 3 THEN NewBody(s) ELSE body[s]]
<1>1. pc = "idle" /\ pc' = "idle" /\ length' = 3
  OBVIOUS
<1>2. body' = Trim(b, 3)
  BY <1>1
<1>3. b \in [Segs -> Cell] /\ \A s \in 0 .. 2 : b[s] = NewBody(s)
  BY NewBodyFits, Grid DEF IInv, Sound, SnakeTypeOK, Segs
<1>. HIDE DEF b
<1>4. \A s \in 0 .. 2 : body'[s] = NewBody(s)
  BY <1>2, <1>3, TrimKeeps, Grid
<1>5. Live' = 0 .. 2
  BY <1>1 DEF Live
<1>6. Chain'
  BY <1>1, <1>4, <1>5, NewSnake DEF Chain, Linked
<1>7. (Heading /\ Apart /\ Counted /\ Steering)'
  BY <1>1, <1>4, <1>5, NewSnake DEF Heading, Apart, Counted, Steering, Opposite
<1>. QED BY <1>6, <1>7 DEF Ordered

\* The steps that leave the body alone.
LEMMA PlainOrdered ==
  ASSUME IInv, ~disturbed,
         \/ Wait \/ Move \/ Load \/ Turn \/ Die \/ Score \/ Spawn
         \/ Pause \/ (\E d \in Directions : Steer(d)) \/ UNCHANGED vars
  PROVE  Ordered'
<1>1. Sound /\ Ordered
  BY DEF IInv, Ordered
<1>2. length \in Nat /\ score \in Nat
  BY <1>1 DEF Sound, SnakeTypeOK
<1>. USE DEF Wait, Move, Load, Turn, Die, Score, Spawn, Pause, Steer, vars,
             gameVars, localVars, ghosts, Goto
<1>3. /\ body' = body /\ length' = length /\ Live' = Live
      /\ pc \in {"shift", "check", "eat"} => pc' = pc /\ next_head' = next_head
      /\ pc = "shift" => i' = i
      /\ pc' \in {"shift", "check", "eat"} => pc' = pc
  BY DEF Live
<1>4. \A s, t : Linked(s, t)' <=> Linked(s, t)
  BY <1>3 DEF Linked
<1>5. Chain'
  BY <1>1, <1>3, <1>4 DEF Ordered, Chain
<1>6. Heading'
  <2>1. pc \in {"check", "shift"} => HeadSeg' = HeadSeg /\ dir' = dir
    BY <1>3 DEF HeadSeg
  <2>2. alive' /\ pc' \notin {"look", "check", "die", "shift"}
        => alive /\ pc \notin {"look", "check", "die", "shift"} /\ dir' = dir
    BY <1>1 DEF Sound
  <2>. QED BY <1>1, <1>3, <2>1, <2>2 DEF Ordered, Heading
<1>7. Apart'
  BY <1>1, <1>3 DEF Ordered, Apart
<1>8. Counted'
  BY <1>1, <1>2, <1>3 DEF Ordered, Counted
<1>. QED BY <1>5, <1>6, <1>7, <1>8 DEF Ordered

\* The new head is looked at, and then the walls and the body.
LEMMA LookOrdered ==
  ASSUME IInv, ~disturbed, Look \/ Check
  PROVE  Ordered'
<1>1. Sound /\ Ordered
  BY DEF IInv, Ordered
<1>2. length \in Nat /\ length >= 3 /\ score \in Nat
  BY <1>1 DEF Sound, SnakeTypeOK
<1>. USE DEF gameVars, ghosts, Goto
<1>3. CASE Look
  <2>1. Live' = Live /\ HeadSeg' = 0
    BY <1>3 DEF Look, Live, HeadSeg
  <2>2. Chain'
    BY <1>1, <1>3, <2>1 DEF Ordered, Chain, Linked, Look
  <2>. QED BY <1>1, <1>3, <2>1, <2>2 DEF Ordered, Heading, Apart, Counted, Look
<1>4. CASE Check
  <2>1. Live = 0 .. length - 1 /\ Live' = Live
    <3>1. (0 .. length) \ {length} = 0 .. length - 1
      BY <1>2
    <3>. QED BY <1>4, <3>1 DEF Check, Live
  <2>2. HeadSeg = 0 /\ HeadSeg' = 0
    BY <1>2, <1>4 DEF Check, HeadSeg
  <2>3. \A s, t \in Live : Linked(s, t)' => Linked(s, t)
    BY <1>2, <1>4, <2>1 DEF Check, Linked
  <2>4. pc' = "shift" => i' = length /\ \A s \in Live : body[s] # next_head
    BY <1>4, <2>1 DEF Check, OnSnake
  <2>5. Chain'
    BY <1>1, <1>2, <1>4, <2>1, <2>3, <2>4 DEF Ordered, Chain, Check
  <2>. QED BY <1>1, <1>4, <2>1, <2>2, <2>5 DEF Ordered, Heading, Apart, Counted, Check
<1>. QED BY <1>3, <1>4

\* A segment takes the place of the one before it: the hole goes on.
LEMMA ShiftOrdered ==
  ASSUME IInv, ~disturbed, Shift
  PROVE  Ordered'
<1>1. Sound /\ Ordered
  BY DEF IInv, Ordered
<1>2. /\ length \in Nat /\ length >= 3 /\ length < MAX_SNAKE_LEN /\ MAX_SNAKE_LEN \in Nat
      /\ body \in [Segs -> Cell] /\ score \in Nat /\ dir \in Directions
  BY <1>1, Grid DEF Sound, SnakeTypeOK
<1>3. /\ pc = "shift" /\ i \in 0 .. length /\ alive
      /\ length' = length /\ dir' = dir /\ food' = food /\ score' = score
      /\ alive' = alive /\ next_head' = next_head
  BY <1>1, <1>2 DEF Shift, Sound, SnakeTypeOK, Ordered, Chain
<1>4. Live = (0 .. length) \ {i}
  BY <1>3 DEF Live
<1>5. Segs = 0 .. MAX_SNAKE_LEN - 1
  BY DEF Segs
<1>6. CASE i > 0
  <2>. DEFINE old(s) == IF s = i THEN i - 1 ELSE s
  <2>1. pc' = "shift" /\ i' = i - 1
    BY <1>6 DEF Shift
  <2>2. Live' = (0 .. length) \ {i - 1}
    BY <1>3, <2>1 DEF Live
  <2>3. \A s \in Live' : old(s) \in Live /\ body'[s] = body[old(s)]
    BY <1>2, <1>3, <1>4, <1>5, <1>6, <2>2 DEF Shift
  <2>4. \A s, t \in Live' : s # t => old(s) # old(t)
    BY <1>2, <1>3, <1>6, <2>2
  <2>5. \A s, t \in Live' : Linked(s, t)' => Linked(old(s), old(t))
    BY <1>2, <1>3, <1>6, <2>1, <2>2 DEF Linked
  <2>6. body'[HeadSeg'] = body[HeadSeg]
    BY <1>2, <1>3, <1>5, <1>6, <2>1 DEF HeadSeg, Shift
  <2>. HIDE DEF old
  <2>7. Chain'
    <3>1. i' <= length'
      BY <1>2, <1>3, <2>1
    <3>2. \A s, t \in Live' : s # t => body'[s] # body'[t]
      BY <1>1, <2>3, <2>4 DEF Ordered, Chain
    <3>3. \A s, t \in Live' : Linked(s, t)' => Adjacent(body'[s], body'[t])
      BY <1>1, <2>3, <2>5 DEF Ordered, Chain
    <3>4. \A s \in Live' : body'[s] # next_head'
      BY <1>1, <1>3, <2>3 DEF Ordered, Chain
    <3>. QED BY <3>1, <3>2, <3>3, <3>4 DEF Chain
  <2>8. Heading'
    BY <1>1, <1>3, <2>1, <2>6 DEF Ordered, Heading
  <2>9. Apart'
    BY <1>1, <1>3, <2>1, <2>3 DEF Ordered, Apart
  <2>10. Counted'
    BY <1>1, <1>3, <2>1 DEF Ordered, Counted
  <2>. QED BY <2>7, <2>8, <2>9, <2>10 DEF Ordered
<1>7. CASE i = 0
  <2>1. pc' = "eat" /\ body' = [body EXCEPT ![0] = next_head]
    BY <1>7 DEF Shift
  <2>2. Live' = 0 .. length /\ Live = 1 .. length
    <3>1. (0 .. length) \ {0} = 1 .. length
      BY <1>2
    <3>. QED BY <1>3, <1>4, <1>7, <2>1, <3>1 DEF Live
  <2>3. body'[0] = next_head /\ \A s \in 1 .. length : body'[s] = body[s]
    BY <1>2, <1>5, <2>1
  <2>4. next_head = Ahead(body[1], dir)
    BY <1>1, <1>3, <1>7 DEF Ordered, Heading, HeadSeg
  <2>5. Adjacent(next_head, body[1])
    <3>1. body[1] \in Cell
      BY <1>2, <1>5
    <3>. QED BY <1>2, <2>4, <3>1, AheadBack DEF Adjacent
  <2>6. Chain'
    <3>1. \A s, t \in 0 .. length : s # t => body'[s] # body'[t]
      <4>1. \A s, t \in 1 .. length : s # t => body[s] # body[t]
        BY <1>1, <2>2 DEF Ordered, Chain
      <4>2. \A s \in 1 .. length : body[s] # next_head
        BY <1>1, <1>3, <2>2 DEF Ordered, Chain
      <4>3. \A s \in 0 .. length : s = 0 \/ s \in 1 .. length
        BY <1>2
      <4>. QED BY <2>3, <4>1, <4>2, <4>3
    <3>2. \A s, t \in 0 .. length : t = s + 1 => Adjacent(body'[s], body'[t])
      <4>1. \A s, t \in 1 .. length : t = s + 1 => Adjacent(body[s], body[t])
        BY <1>1, <2>2 DEF Ordered, Chain, Linked
      <4>2. 1 \in 1 .. length
        BY <1>2
      <4>3. \A s, t \in 0 .. length :
              t = s + 1 => t \in 1 .. length /\ ((s = 0 /\ t = 1) \/ s \in 1 .. length)
        BY <1>2
      <4>. QED BY <2>3, <2>5, <4>1, <4>2, <4>3
    <3>. QED BY <2>1, <2>2, <3>1, <3>2 DEF Chain, Linked
  <2>7. Heading'
    BY <1>2, <1>3, <2>1, <2>3, <2>4 DEF Heading
  <2>8. Apart'
    BY <1>1, <1>3, <2>1, <2>2, <2>3 DEF Ordered, Apart
  <2>9. Counted'
    BY <1>1, <1>3, <2>1 DEF Ordered, Counted
  <2>. QED BY <2>6, <2>7, <2>8, <2>9 DEF Ordered
<1>. QED BY <1>3, <1>6, <1>7

\* The snake eats and grows by the old tail, or the tail is left behind.
LEMMA EatOrdered ==
  ASSUME IInv, ~disturbed, Eat \/ Grow \/ Test
  PROVE  Ordered'
<1>1. Sound /\ Ordered
  BY DEF IInv, Ordered
<1>2. /\ length \in Nat /\ length >= 3 /\ length <= GRID_W * GRID_H /\ score \in Nat
      /\ body \in [Segs -> Cell]
  BY <1>1, Grid DEF Sound, SnakeTypeOK
<1>3. \A s \in 0 .. length - 1 : Trim(body, length)[s] = body[s]
  BY <1>2, TrimKeeps
<1>4. 0 .. length - 1 \subseteq 0 .. length /\ 0 \in 0 .. length - 1 /\ 1 \in 0 .. length - 1
  BY <1>2
<1>. USE DEF Goto
<1>5. CASE Eat
  <2>1. Live = 0 .. length /\ Live' = IF next_head = food THEN 0 .. length ELSE 0 .. length - 1
    BY <1>5 DEF Eat, Live
  <2>2. \A s \in Live' : s \in Live /\ body'[s] = body[s]
    BY <1>3, <1>4, <1>5, <2>1 DEF Eat
  <2>3. Chain'
    BY <1>1, <1>5, <2>2 DEF Ordered, Chain, Linked, Eat
  <2>4. Heading'
    BY <1>1, <1>4, <1>5, <2>1, <2>2 DEF Ordered, Heading, Eat, Sound
  <2>5. Apart'
    <3>1. \A s \in 0 .. length - 1 : s = 0 \/ s \in 1 .. length
      BY <1>2
    <3>2. next_head # food => \A s \in 0 .. length - 1 : body[s] # food
      BY <1>1, <1>5, <3>1 DEF Ordered, Apart, Heading, Eat
    <3>. QED BY <1>5, <2>1, <2>2, <3>2 DEF Apart, Eat
  <2>6. Counted'
    BY <1>1, <1>5 DEF Ordered, Counted, Eat
  <2>. QED BY <2>3, <2>4, <2>5, <2>6 DEF Ordered
<1>6. CASE Grow
  <2>1. length' = length + 1
    BY <1>2, <1>6, Grid DEF Grow
  <2>2. Live = 0 .. length /\ Live' = 0 .. length /\ body' = body
    BY <1>2, <1>6, <2>1 DEF Grow, Live
  <2>3. Chain'
    BY <1>1, <1>6, <2>2 DEF Ordered, Chain, Linked, Grow
  <2>4. Heading' /\ Apart'
    BY <1>1, <1>6, <2>2 DEF Ordered, Heading, Apart, Grow, Sound
  <2>5. Counted'
    BY <1>1, <1>2, <1>6, <2>1 DEF Ordered, Counted, Grow
  <2>. QED BY <2>3, <2>4, <2>5 DEF Ordered
<1>7. CASE Test
  <2>1. Live = 0 .. length - 1 /\ Live' = 0 .. length - 1
    BY <1>7 DEF Test, Live
  <2>2. \A s \in Live' : s \in Live /\ body'[s] = body[s]
    BY <1>3, <1>7, <2>1 DEF Test
  <2>3. Chain'
    BY <1>1, <1>7, <2>2 DEF Ordered, Chain, Linked, Test
  <2>4. Heading'
    BY <1>1, <1>4, <1>7, <2>1, <2>2 DEF Ordered, Heading, Test, Sound
  <2>5. Apart'
    BY <1>7, <2>1, <2>2 DEF Apart, Test, Free, OnSnake
  <2>6. Counted'
    BY <1>1, <1>7 DEF Ordered, Counted, Test
  <2>. QED BY <2>3, <2>4, <2>5, <2>6 DEF Ordered
<1>. QED BY <1>5, <1>6, <1>7

\* A key is compared with the last move, and a move takes the last key.
LEMMA SteeringStep ==
  ASSUME IInv, snake_tick \/ Pause \/ (\E d \in Directions : Steer(d)) \/ UNCHANGED vars,
         ~disturbed', ~late'
  PROVE  Steering'
<1>. USE DEF gameVars, localVars, ghosts, Goto
<1>1. ~disturbed /\ ~late
  <2>1. CASE \E d \in Directions : Steer(d)
    <3>1. disturbed' = disturbed /\ late' = (late \/ pc = "turn")
      BY <2>1 DEF Steer
    <3>. QED BY <3>1, Zenon
  <2>2. CASE ~ \E d \in Directions : Steer(d)
    BY <2>2 DEF snake_tick, Wait, Move, Load, Turn, Look, Check, Die, Shift, Eat, Grow,
                Score, Spawn, Test, Pause, vars
  <2>. QED BY <2>1, <2>2
<1>2. Sound /\ Heading /\ Steering
  BY <1>1 DEF IInv
<1>3. dir \in Directions /\ next_dir \in Directions /\ (pc # "idle" => alive)
  BY <1>2 DEF Sound, SnakeTypeOK
<1>4. \A d, e \in Directions : (d # Opposite(e) <=> e # Opposite(d)) /\ d # Opposite(d)
  BY DEF Directions, Opposite
<1>5. CASE Turn
  <2>1. dir' = next_dir /\ next_dir' = next_dir /\ body' = body /\ pc' = "look"
    BY <1>2, <1>5 DEF Turn, Steering
  <2>2. body[0] = Ahead(body[1], dir) /\ next_dir # Opposite(dir)
    BY <1>2, <1>3, <1>5 DEF Turn, Heading, Steering
  <2>3. body[1] \in Cell
    BY <1>2, Grid DEF Sound, SnakeTypeOK, Segs
  <2>4. Ahead(body[0], next_dir) # body[1]
    BY <1>3, <2>2, <2>3, AheadBack
  <2>. QED BY <1>3, <1>4, <2>1, <2>4 DEF Steering
<1>6. CASE \E d \in Directions : Steer(d)
  <2>1. PICK d \in Directions : Steer(d)
    BY <1>6
  <2>2. /\ next_dir' = d /\ d # Opposite(dir) /\ pc # "turn"
        /\ dir' = dir /\ body' = body /\ pc' = pc
    BY <1>1, <1>3, <1>4, <2>1 DEF Steer
  <2>. QED BY <1>2, <2>2 DEF Steering
<1>7. CASE Wait \/ Move \/ Load \/ Look \/ Check
  BY <1>2, <1>7 DEF Wait, Move, Load, Look, Check, Steering
<1>8. CASE Die \/ Shift \/ Eat \/ Grow \/ Score \/ Spawn \/ Test
  BY <1>2, <1>8 DEF Die, Shift, Eat, Grow, Score, Spawn, Test, Steering
<1>9. CASE Pause \/ UNCHANGED vars
  BY <1>2, <1>9 DEF Pause, vars, Steering
<1>. QED BY <1>5, <1>6, <1>7, <1>8, <1>9 DEF snake_tick

LEMMA IInvStep == IInv /\ [Next]_vars => IInv'
<1>. SUFFICES ASSUME IInv, [Next]_vars PROVE IInv'
  OBVIOUS
<1>1. Sound'
  BY SoundStep
<1>2. ~disturbed' => Ordered'
  <2>1. CASE Reset
    BY <2>1, ResetOrdered
  <2>2. CASE ~Reset
    <3>1. disturbed' = disturbed
      BY <2>2 DEF Next, snake_on_key, snake_tick, Wait, Move, Load, Turn, Look, Check, Die,
                  Shift, Eat, Grow, Score, Spawn, Test, Pause, Steer, vars, ghosts
    <3>. QED
      BY <2>2, <3>1, PlainOrdered, LookOrdered, ShiftOrdered, EatOrdered
         DEF Next, snake_on_key, snake_tick
  <2>. QED BY <2>1, <2>2
<1>3. ~disturbed' /\ ~late' => Steering'
  BY ResetOrdered, SteeringStep DEF Next, snake_on_key
<1>. QED BY <1>1, <1>2, <1>3 DEF IInv, Ordered

LEMMA IInvAlways == SnakeSpec => []IInv
BY IInvInit, IInvStep, PTL DEF SnakeSpec, Next

-----------------------------------------------------------------------------
(* Theorems.                                                               *)

\* snake_tick and snake_on_key leave every variable in its range, whatever the
\* grid: with an array longer than the grid has cells no segment is written
\* beyond its end, even by a move that a reset has cut short.
THEOREM SnakeTypeCorrect == SnakeSpec => []SnakeTypeOK
<1>1. IInv => SnakeTypeOK
  BY DEF IInv, Sound
<1>. QED BY <1>1, IInvAlways, PTL

\* Between two moves the snake is one piece of different cells, whatever keys
\* interrupted the statements of the moves, for a snake of any length.
THEOREM BodyConnectedCorrect == SnakeSpec => []BodyConnected
<1>1. IInv => BodyConnected
  <2>. SUFFICES ASSUME IInv, Quiet PROVE BodyConnected
    BY DEF BodyConnected
  <2>1. Chain /\ Live = 0 .. length - 1 /\ length \in Nat
    BY DEF IInv, Quiet, Live, Sound, SnakeTypeOK
  <2>2. \A s \in 1 .. length - 1 :
          s - 1 \in 0 .. length - 1 /\ s \in 0 .. length - 1 /\ s = (s - 1) + 1
    BY <2>1
  <2>. QED BY <2>1, <2>2 DEF BodyConnected, Chain, Linked
<1>. QED BY <1>1, IInvAlways, PTL

\* The food that spawn_food places is never under the snake.
THEOREM FoodFreeCorrect == SnakeSpec => []FoodFree
<1>1. IInv => FoodFree
  BY DEF IInv, FoodFree, Quiet, Apart, Live, OnSnake
<1>. QED BY <1>1, IInvAlways, PTL

\* Ten points for each segment that the snake has grown by.
THEOREM ScoreHonestCorrect == SnakeSpec => []ScoreHonest
<1>1. IInv => ScoreHonest
  BY DEF IInv, ScoreHonest, Quiet, Counted
<1>. QED BY <1>1, IInvAlways, PTL

\* The test against the last move keeps the snake off its neck, unless a key
\* came in between the load of next_dir and the store to dir.
THEOREM NeckSafeCorrect == SnakeSpec => []NeckSafe
<1>1. IInv => NeckSafe
  BY DEF IInv, NeckSafe, Heading, Steering, HeadSeg
<1>. QED BY <1>1, IInvAlways, PTL

=============================================================================
