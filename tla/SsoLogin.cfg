\* Two logins and a logout that share one cache file.
SPECIFICATION FairSpec
CONSTANTS
  Logins = {l1, l2}
  Logouts = {o1}
  Config <- MCConfig
  Keys <- MCKeys
  Required <- MCRequired
  Profiles = {"dev", "ops"}
  Intervals = {0, 2}
  DefaultInterval = 1
  SlowDown = 1
  Timeout = 2
  Lifetimes = {1}
  MaxTime = 0
INVARIANTS TypeOK OnlyOthersSpoil
PROPERTIES PollsPaced InvocationsEnd
CHECK_DEADLOCK FALSE
