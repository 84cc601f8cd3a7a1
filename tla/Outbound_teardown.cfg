\* A port session whose reader exits while the window is full.
SPECIFICATION FairSpec
CONSTANTS
  BufSize = 1
  Writers = {w1}
  Main = main
  Signal = signal
  Enders = {main}
  SynDone = TRUE
  TerminateFirst = TRUE
  AckKinds = {"payload"}
  ResendTicks = 1
  MaxWrites = 2
  MaxWire = 1
  MaxAcks = 1
PROPERTY SessionCloses
CHECK_DEADLOCK FALSE
