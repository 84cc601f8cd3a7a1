SPECIFICATION Spec
CONSTANTS
  First = 2
  FirstInOrder = FALSE
  MaxFrames = 3
INVARIANT AckedNotLost
CHECK_DEADLOCK FALSE
