SPECIFICATION FairSpec
CONSTANTS
  First = 2
  FirstInOrder = TRUE
  MaxFrames = 4
INVARIANTS TypeOK AckedNotLost
PROPERTIES EventuallyDelivered ImplementsReliableStream
CHECK_DEADLOCK FALSE
