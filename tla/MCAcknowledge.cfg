\* A key pressed while mouse_init waits for the mouse's answer.
SPECIFICATION InputSpec
CONSTANTS
  W = 3
  H = 1
  Packets <- MCPackets
  TimesOut = FALSE
  Keys = {42, 54, 58, 30, 2, 3}
  MaxKeys = 1
  MaxDown = 2
INVARIANT
  AckRead
