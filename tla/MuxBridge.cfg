\* One multiplexed bridge, with room for two payloads in inboundCh and two
\* messages in the window, whose TCP clients may stop reading.
SPECIFICATION FairSpec
CONSTANTS
  InboundCap = 2
  BufSize = 2
  MaxPayloads = 4
INVARIANTS TypeOK NothingDropped
PROPERTIES ImplementsReliableStream HandsSessionBack GoroutinesEnd
CHECK_DEADLOCK FALSE
