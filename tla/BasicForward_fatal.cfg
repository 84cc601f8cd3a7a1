\* The websocket ends while a connection is served.
SPECIFICATION FairSpec
CONSTANTS
  Clients = {c1, c2}
  BufSize = 1
  MaxPayloads = 1
PROPERTY FatalEnds
CHECK_DEADLOCK FALSE
