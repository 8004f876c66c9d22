\* The instance of MCWindowManager.cfg, for one property of the click test.
SPECIFICATION Spec
CONSTANTS
  TotalRam = 80
  KernelStart = 4
  KernelEnd = 9
  FbSize = 16
  g_BackBuffer = 120
  Word = 256
  MAX_WINDOWS = 3
  MAX_TASKBAR_ITEMS = 3
  ScreenW = 3
  ScreenH = 4
  TITLE_BAR_HEIGHT = 1
  BtnSize = 1
  BtnInset = 0
  TaskbarHeight = 1
  ItemW = 1
  ItemMargin = 0
  AppRects <- MCAppRects
  Points <- MCPoints
PROPERTY PressRestoresOnce
