\* The same session, for what the accept loop of a dead bridge may take.
SPECIFICATION FairSpec
CONSTANTS
  Clients = {c1, c2, c3}
  MaxReconnects = {0, 1}
  LastBridge = 3
PROPERTY NoStaleDispatch
CHECK_DEADLOCK FALSE
