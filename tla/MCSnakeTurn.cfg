\* The same game; a key may come in while the direction is being copied.
SPECIFICATION SnakeSpec
CONSTANTS
  GRID_W = 3
  GRID_H = 5
  MAX_SNAKE_LEN = 16
  Skip = 2
  MaxLength = 5
INVARIANT
  No180
