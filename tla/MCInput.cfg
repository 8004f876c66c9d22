\* Two packets; both shift keys, CapsLock, a letter, a key with a shifted character
\* in the driver (1) and one without (2); two keys held down, one scan code held back.
\* A key pressed too early can stop both devices for good: the system may then come
\* to a halt.
SPECIFICATION InputSpec
CONSTANTS
  W = 3
  H = 1
  Packets <- MCPackets
  TimesOut = TRUE
  Keys = {42, 54, 58, 30, 2, 3}
  MaxKeys = 1
  MaxDown = 2
INVARIANTS
  InputTypeOK
  PacketsFramed
  PointerOnScreen
  CaseRight
PROPERTIES
  BufferDrained
CHECK_DEADLOCK FALSE
