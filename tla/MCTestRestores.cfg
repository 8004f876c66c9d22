\* The script as it is, all five applications, and nobody at the mouse.
SPECIFICATION LoopSpec
CONSTANTS
  TotalRam = 33554432
  KernelStart = 1048576
  KernelEnd = 2097152
  FbSize = 1920000
  g_BackBuffer = 10485760
  Word = 1073741824
  MAX_WINDOWS = 10
  MAX_TASKBAR_ITEMS = 10
  ScreenW = 800
  ScreenH = 600
  TITLE_BAR_HEIGHT = 20
  BtnSize = 12
  BtnInset = 4
  TaskbarHeight = 24
  ItemW = 100
  ItemMargin = 2
  AppRects <- AllApps
  Points <- NoPoints
  FrameMinimize = 50
  FrameRestore = 150
  LastFrame = 200
  MaxPresses = 0
  Apps = 5
  ClickMin <- Minimize
  ClickRestore <- Restore
INVARIANT
  TestRestores
CHECK_DEADLOCK FALSE
