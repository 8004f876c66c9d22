------------------------------- MODULE MCSnake -------------------------------
(* A grid of 3 by 5 cells, the smallest that holds a new game's snake.      *)
EXTENDS Snake
==============================================================================
