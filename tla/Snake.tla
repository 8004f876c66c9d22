-------------------------------- MODULE Snake --------------------------------
(***************************************************************************)
(* apps/snake.c.  The main loop moves the snake (snake_tick, statement by  *)
(* statement); the keys arrive from interrupt handlers (snake_on_key, in   *)
(* one step) between any two of its statements.  The random numbers of     *)
(* rand_next are any numbers.                                              *)
(***************************************************************************)
EXTENDS Integers

CONSTANTS
  GRID_W, GRID_H, MAX_SNAKE_LEN,
  Skip,        \* the ticks per move (5 in the code)
  MaxLength    \* bound: the length at which the model stops moving the snake;
               \* nor does it move a snake that a reset in a move has spoilt

ASSUME SnakeAssumption ==
  /\ {GRID_W, GRID_H, MAX_SNAKE_LEN, MaxLength} \subseteq Nat
  /\ GRID_W > 0 /\ GRID_H > 4
  /\ GRID_W * GRID_H < MAX_SNAKE_LEN
  /\ Skip \in Nat \ {0}

VARIABLES
  body, length, dir, next_dir, alive, paused, food, score, last_tick,
  pc,         \* where snake_tick is; "idle" outside it
  reg,        \* the register between the load of next_dir and the store to dir
  next_head, i,
  disturbed,  \* ghost: the game was reset in the middle of a move
  late        \* ghost: a direction key came in between that load and that store

gameVars == <<body, length, dir, next_dir, alive, paused, food, score, last_tick>>
localVars == <<pc, reg, next_head, i>>
ghosts == <<disturbed, late>>
vars == <<gameVars, localVars, ghosts>>

Cell == [x : 0 .. GRID_W - 1, y : 0 .. GRID_H - 1]
Segs == 0 .. MAX_SNAKE_LEN - 1
Directions == {"up", "right", "down", "left"}
Junk == [x |-> 0, y |-> 0]

\* Segments at and beyond the length are written before they are read again:
\* the model forgets them, as it does the locals that are no longer needed.
Trim(b, n) == [s \in Segs |-> IF s < n THEN b[s] ELSE Junk]

Opposite(d) == CASE d = "up" -> "down" [] d = "down" -> "up"
                 [] d = "left" -> "right" [] d = "right" -> "left"

Ahead(c, d) == CASE d = "up" -> [c EXCEPT !.y = @ - 1]
                 [] d = "down" -> [c EXCEPT !.y = @ + 1]
                 [] d = "left" -> [c EXCEPT !.x = @ - 1]
                 [] d = "right" -> [c EXCEPT !.x = @ + 1]

OnSnake(b, n, c) == \E s \in 0 .. n - 1 : b[s] = c

\* The three segments of a new game.
NewBody(s) == [x |-> GRID_W \div 2, y |-> GRID_H \div 2 + s]

Statements == {"load", "turn", "look", "check", "die", "shift", "eat", "grow",
               "score", "spawn", "test"}

SnakeTypeOK ==
  /\ body \in [Segs -> Cell] /\ food \in Cell
  /\ length \in 3 .. GRID_W * GRID_H
  /\ {dir, next_dir, reg} \subseteq Directions
  /\ {alive, paused, disturbed, late} \subseteq BOOLEAN
  /\ score \in Nat /\ last_tick \in 0 .. Skip - 1
  /\ pc \in Statements \cup {"idle"}
  /\ next_head \in [x : -1 .. GRID_W, y : -1 .. GRID_H]
  /\ i \in 0 .. GRID_W * GRID_H

-----------------------------------------------------------------------------
(* snake_tick, on the main thread.                                         *)

Goto(from, to) == pc = from /\ pc' = to

\* The early returns: the game is over or paused, or it is not yet time.
Wait ==
  /\ pc = "idle" /\ alive /\ ~paused /\ last_tick + 1 < Skip
  /\ last_tick' = last_tick + 1
  /\ UNCHANGED <<body, length, dir, next_dir, alive, paused, food, score, localVars, ghosts>>

Move ==
  /\ Goto("idle", "load") /\ alive /\ ~paused /\ last_tick + 1 >= Skip
  /\ length < MaxLength /\ ~disturbed
  /\ last_tick' = 0
  /\ UNCHANGED <<body, length, dir, next_dir, alive, paused, food, score, reg, next_head, i, ghosts>>

\* game.dir = game.next_dir.
Load == Goto("load", "turn") /\ reg' = next_dir /\ UNCHANGED <<gameVars, next_head, i, ghosts>>

Turn == /\ Goto("turn", "look")
        /\ dir' = reg /\ reg' = "up"
        /\ UNCHANGED <<body, length, next_dir, alive, paused, food, score, last_tick,
                       next_head, i, ghosts>>

Look == /\ Goto("look", "check")
        /\ next_head' = Ahead(body[0], dir)
        /\ UNCHANGED <<gameVars, reg, i, ghosts>>

\* Mutant: the first column beyond the right wall passes for a part of the grid.
CheckMut ==
  /\ Goto("check", IF \/ next_head \notin [x : 0 .. GRID_W, y : 0 .. GRID_H - 1]
                      \/ OnSnake(body, length, next_head)
                   THEN "die" ELSE "shift")
  /\ i' = IF pc' = "shift" THEN length ELSE 0
  /\ UNCHANGED <<gameVars, reg, next_head, ghosts>>

\* The walls, then the snake's own body, the tip of the tail included.
Check ==
  /\ Goto("check", IF next_head \notin Cell \/ OnSnake(body, length, next_head)
                   THEN "die" ELSE "shift")
  /\ i' = IF pc' = "shift" THEN length ELSE 0
  /\ UNCHANGED <<gameVars, reg, next_head, ghosts>>

Die == /\ Goto("die", "idle")
       /\ alive' = FALSE
       /\ next_head' = Junk
       /\ UNCHANGED <<body, length, dir, next_dir, paused, food, score, last_tick,
                      reg, i, ghosts>>

\* Mutant: the body is shifted from the head on.
ShiftMut ==
  /\ pc = "shift"
  /\ body' = IF i > 0 THEN [body EXCEPT ![length - i + 1] = body[length - i]]
             ELSE [body EXCEPT ![0] = next_head]
  /\ i' = IF i > 0 THEN i - 1 ELSE 0
  /\ pc' = IF i > 0 THEN "shift" ELSE "eat"
  /\ UNCHANGED <<length, dir, next_dir, alive, paused, food, score, last_tick,
                 reg, next_head, ghosts>>

\* body[i] = body[i - 1], from the tail on; in the end the new head.
Shift ==
  /\ pc = "shift"
  /\ body' = IF i > 0 THEN [body EXCEPT ![i] = body[i - 1]]
             ELSE [body EXCEPT ![0] = next_head]
  /\ i' = IF i > 0 THEN i - 1 ELSE 0
  /\ pc' = IF i > 0 THEN "shift" ELSE "eat"
  /\ UNCHANGED <<length, dir, next_dir, alive, paused, food, score, last_tick,
                 reg, next_head, ghosts>>

Eat == /\ Goto("eat", IF next_head = food THEN "grow" ELSE "idle")
       /\ body' = IF next_head = food THEN body ELSE Trim(body, length)
       /\ next_head' = Junk
       /\ UNCHANGED <<length, dir, next_dir, alive, paused, food, score, last_tick,
                      reg, i, ghosts>>

\* Mutant: the first food does not make the snake longer.
GrowMut == /\ Goto("grow", "score")
           /\ length' = IF score = 0 THEN length ELSE length + 1
           /\ UNCHANGED <<body, dir, next_dir, alive, paused, food, score, last_tick,
                          reg, next_head, i, ghosts>>

Grow == /\ Goto("grow", "score")
        /\ length' = IF length < MAX_SNAKE_LEN THEN length + 1 ELSE length
        /\ UNCHANGED <<body, dir, next_dir, alive, paused, food, score, last_tick,
                       reg, next_head, i, ghosts>>

Score == /\ Goto("score", "spawn")
         /\ score' = score + 10
         /\ UNCHANGED <<body, length, dir, next_dir, alive, paused, food, last_tick,
                        reg, next_head, i, ghosts>>

\* spawn_food: guess a cell until one is free.
Spawn == /\ Goto("spawn", "test")
         /\ food' \in Cell
         /\ UNCHANGED <<body, length, dir, next_dir, alive, paused, score, last_tick,
                        reg, next_head, i, ghosts>>

\* Mutant: the food may lie under the head.
FreeMut == ~\E s \in 1 .. length - 1 : body[s] = food

Free == ~OnSnake(body, length, food)

Test == /\ Goto("test", IF Free THEN "idle" ELSE "spawn")
        /\ body' = IF Free THEN Trim(body, length) ELSE body
        /\ UNCHANGED <<length, dir, next_dir, alive, paused, food, score, last_tick,
                       reg, next_head, i, ghosts>>

snake_tick == \/ Wait \/ Move \/ Load \/ Turn \/ Look \/ Check \/ Die \/ Shift
              \/ Eat \/ Grow \/ Score \/ Spawn \/ Test

-----------------------------------------------------------------------------
(* snake_on_key, in an interrupt handler.                                  *)

\* 'r': game_reset.  A move under way carries on with its local variables.
Reset ==
  /\ body' = LET b == [s \in Segs |-> IF s < 3 THEN NewBody(s) ELSE body[s]]
             IN IF pc = "idle" THEN Trim(b, 3) ELSE b
  /\ length' = 3
  /\ dir' = "up" /\ next_dir' = "up"
  /\ alive' = TRUE /\ paused' = FALSE
  /\ score' = 0 /\ last_tick' = 0
  /\ food' \in {c \in Cell : \A s \in 0 .. 2 : c # NewBody(s)}
  /\ disturbed' = (pc # "idle") /\ late' = (late /\ pc # "idle")
  /\ UNCHANGED localVars

Pause ==
  /\ paused' = ~paused
  /\ UNCHANGED <<body, length, dir, next_dir, alive, food, score, last_tick, localVars, ghosts>>

\* Mutant: a turn is compared with the last key and not with the last move.
SteerMut(d) ==
  /\ alive /\ next_dir # Opposite(d)
  /\ next_dir' = d
  /\ late' = (late \/ pc = "turn")
  /\ UNCHANGED <<body, length, dir, alive, paused, food, score, last_tick, localVars, disturbed>>

\* 'w', 'a', 's', 'd': the snake never turns back on itself.
Steer(d) ==
  /\ alive /\ dir # Opposite(d)
  /\ next_dir' = d
  /\ late' = (late \/ pc = "turn")
  /\ UNCHANGED <<body, length, dir, alive, paused, food, score, last_tick, localVars, disturbed>>

snake_on_key == Reset \/ Pause \/ \E d \in Directions : Steer(d)

-----------------------------------------------------------------------------
\* game_reset() in snake_init().
game_reset ==
  /\ body = [s \in Segs |-> IF s < 3 THEN NewBody(s) ELSE Junk]
  /\ length = 3 /\ dir = "up" /\ next_dir = "up"
  /\ alive = TRUE /\ paused = FALSE /\ score = 0 /\ last_tick = 0
  /\ food \in {c \in Cell : \A s \in 0 .. 2 : c # NewBody(s)}
  /\ pc = "idle" /\ reg = "up" /\ next_head = Junk /\ i = 0
  /\ disturbed = FALSE /\ late = FALSE

SnakeSpec == game_reset /\ [][snake_tick \/ snake_on_key]_vars

-----------------------------------------------------------------------------
(* Properties.                                                             *)

Quiet == pc = "idle" /\ ~disturbed

Adjacent(c, d) == \E e \in Directions : d = Ahead(c, e)

\* Between two moves the snake is one piece: its segments are different cells,
\* each beside the next, whatever was pressed during the moves but 'r'.  A
\* reset between two moves puts right what one in the middle has spoilt.
BodyConnected ==
  Quiet => /\ \A s, t \in 0 .. length - 1 : s # t => body[s] # body[t]
           /\ \A s \in 1 .. length - 1 : Adjacent(body[s - 1], body[s])

\* The food can be reached: it does not lie under the snake.
FoodFree == Quiet => ~OnSnake(body, length, food)

\* The score counts what the snake has eaten, and it has grown by as much.
ScoreHonest == Quiet => score = 10 * (length - 3)

\* However many keys come in between two moves, the snake does not turn back
\* into its neck, unless a key was late.
NeckSafe == pc = "check" /\ ~disturbed /\ ~late => next_head # body[1]

\* "Prevents 180 turn in same tick".
No180 == pc = "check" /\ ~disturbed => next_head # body[1]
=============================================================================
