\* Snakes of up to five segments on a 3x5 grid.
SPECIFICATION SnakeSpec
CONSTANTS
  GRID_W = 3
  GRID_H = 5
  MAX_SNAKE_LEN = 16
  Skip = 2
  MaxLength = 5
INVARIANTS
  SnakeTypeOK
  BodyConnected
  FoodFree
  ScoreHonest
  NeckSafe
