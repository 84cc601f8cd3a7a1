\* The ssh replacement: command lines of up to four arguments, files of up to
\* three lines and twelve names over two instances.
SPECIFICATION Spec
CONSTANTS
  x = x
  y = y
  None = None
  NoName = NoName
  Junk = Junk
  Instances = {x, y}
  MaxFaults = 1
  Proxied = {"a", "ab"}
  ProxyUsers = {"u5"}
  EqualsValues = {"k=1"}
  Keywords = {"hostname", "user", "port", "identityfile", "stricthostkeychecking", "userknownhostsfile", "connecttimeout"}
  Shape <- MCShape
  LongFlags <- MCLongFlags
  Edits <- MCEdits
  Letters <- MCLetters
  Split <- MCSplit
  OptionOf <- MCOptionOf
  Number <- MCNumber
  Lower <- MCLower
  Chars <- MCChars
  Meaning <- MCNamed
  OtherFiles <- MCOtherFiles
  Invocations <- MCInvocations
INVARIANTS ArgsAsWritten EffectiveOptions ResolvedInOrder UpsertKeepsOthers
CHECK_DEADLOCK FALSE
