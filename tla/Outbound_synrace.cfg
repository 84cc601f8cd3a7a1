\* A shell session with two writers, as ShellSession starts them: the stdin
\* copier and the terminal resizer.
SPECIFICATION Spec
CONSTANTS
  BufSize = 1
  Writers = {w1, w2}
  Main = main
  Signal = signal
  Enders = {main}
  SynDone = FALSE
  TerminateFirst = FALSE
  AckKinds = {"payload"}
  ResendTicks = 1
  MaxWrites = 2
  MaxWire = 1
  MaxAcks = 1
INVARIANT NoneLost
CHECK_DEADLOCK FALSE
