\* A shell session with one writer: it sends the SYN itself, and the session is
\* ended by the reader's exit or a signal, without TerminateSession.
SPECIFICATION FairSpec
CONSTANTS
  BufSize = 1
  Writers = {w1}
  Main = main
  Signal = signal
  Enders = {main, signal}
  SynDone = FALSE
  TerminateFirst = FALSE
  AckKinds = {"payload", "header"}
  ResendTicks = 2
  MaxWrites = 2
  MaxWire = 2
  MaxAcks = 1
INVARIANTS CopiesIdentical NoLostWakeup
PROPERTIES WriteReturns EventuallyReceived
CHECK_DEADLOCK FALSE
