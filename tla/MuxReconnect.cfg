\* A session with up to two reconnections, or none, and three clients.
SPECIFICATION FairSpec
CONSTANTS
  Clients = {c1, c2, c3}
  MaxReconnects = {0, 1}
  LastBridge = 3
INVARIANTS TypeOK ChannelsClosed
PROPERTIES ClientsAnswered CancelEnds
CHECK_DEADLOCK FALSE
