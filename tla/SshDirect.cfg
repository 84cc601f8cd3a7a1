\* Two sessions to one host that share a known_hosts file, or one with a SOCKS5 proxy
\* whose host lists any methods.
SPECIFICATION FairSpec
CONSTANTS
  Sessions = {s1, s2}
  Owner = s1
  Proxies = {c1}
  HostKeys = {k1, k2}
  SavedKey = k1
  FileStates <- MCFiles
  Asked <- MCAsked
  Requests <- MCRequests
INVARIANTS TypeOK KnownKeyGuards EndsProperly
PROPERTIES GrowsByConsent LossEnds
CHECK_DEADLOCK FALSE
