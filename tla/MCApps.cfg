\* Sessions with the terminal, the notepad and the calculator, one message of the
\* main loop, and printf's formats.  A session ends with its last input, or with a reboot.
SPECIFICATION AppsSpec
CONSTANTS
  TERM_ROWS = 2
  TERM_COLS = 4
  CMD_SIZE = 4
  WordMax = 2
  MaxPrints = 1
  NOTEPAD_BUF_SIZE = 5
  MaxDigits = 2
  DigitKeys = {0, 5, 9}
  Words <- MCWords
  Text <- MCText
  Keys <- MCKeys
  Greeting <- MCGreeting
  MaxInputs <- MCMaxInputs
  IntBits = 4
  SCREEN_WIDTH = 3
  SCREEN_HEIGHT = 2
  Formats <- MCFormats
INVARIANTS
  ScreenIntact
  PromptShown
  TextKept
  FormatsRight
PROPERTIES
  CalcImplements
CHECK_DEADLOCK FALSE
