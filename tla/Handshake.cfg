\* A port or ssh session, with and without encryption.
SPECIFICATION FairSpec
CONSTANTS
  Writers = {w1}
  Shell = FALSE
  MaxKeys = 2
  MaxQueue = 2
  MaxWrites = 1
  MaxOutputs = 1
INVARIANTS TypeOK BothReadable OutputKept
PROPERTY WaitReturns
CHECK_DEADLOCK FALSE
