\* A shell session, whose writer does not wait for the handshake.
SPECIFICATION FairSpec
CONSTANTS
  Writers = {w1}
  Shell = TRUE
  MaxKeys = 2
  MaxQueue = 2
  MaxWrites = 2
  MaxOutputs = 1
INVARIANT EncryptedAfterAnswer
CHECK_DEADLOCK FALSE
