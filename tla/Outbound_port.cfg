\* A port or ssh session after its handshake: two writers, and the goroutine
\* that sends TerminateSession and closes the channel when the reader exits.
SPECIFICATION Spec
CONSTANTS
  BufSize = 2
  Writers = {w1, w2}
  Main = main
  Signal = signal
  Enders = {main}
  SynDone = TRUE
  TerminateFirst = TRUE
  AckKinds = {"payload"}
  ResendTicks = 1
  MaxWrites = 1
  MaxWire = 2
  MaxAcks = 1
INVARIANTS TypeOK NoneLost
PROPERTY ImplementsReliableStream
CHECK_DEADLOCK FALSE
