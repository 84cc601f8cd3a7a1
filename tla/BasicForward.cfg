\* A connection and two that wait for it, a window of one message.
SPECIFICATION FairSpec
CONSTANTS
  Clients = {c1, c2, c3}
  BufSize = 1
  MaxPayloads = 3
INVARIANT TypeOK
PROPERTIES CancelEnds ClientsAnswered
CHECK_DEADLOCK FALSE
