\* A bridge whose TCP clients may stop reading, with a window of one message.
SPECIFICATION FairSpec
CONSTANTS
  InboundCap = 1
  BufSize = 1
  MaxPayloads = 3
PROPERTY LossNoticed
CHECK_DEADLOCK FALSE
