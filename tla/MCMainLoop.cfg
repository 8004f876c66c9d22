\* Notepad and Terminal on the real screen, and a user at the mouse.
SPECIFICATION LoopSpec
CONSTANTS
  TotalRam = 33554432
  KernelStart = 1048576
  KernelEnd = 2097152
  FbSize = 1920000
  g_BackBuffer = 10485760
  Word = 1073741824
  MAX_WINDOWS = 2
  MAX_TASKBAR_ITEMS = 10
  ScreenW = 800
  ScreenH = 600
  TITLE_BAR_HEIGHT = 20
  BtnSize = 12
  BtnInset = 4
  TaskbarHeight = 24
  ItemW = 100
  ItemMargin = 2
  AppRects <- TwoApps
  Points <- UserPoints
  FrameMinimize = 1
  FrameRestore = 2
  LastFrame = 2
  MaxPresses = 2
  Apps = 2
  ClickMin <- Minimize
  ClickRestore <- Restore
INVARIANTS
  MainTypeOK
  QuietConsistent
  QuietDragHeld
  NoNullWrite
PROPERTIES
  CallReturns
