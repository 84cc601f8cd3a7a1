\* One session that has an SSH agent and a key file.
SPECIFICATION Spec
CONSTANTS
  Sessions = {s1}
  Owner = s1
  Proxies = {}
  HostKeys = {k1, k2}
  SavedKey = k1
  FileStates <- MCFiles
  Asked <- MCAsked
  Requests <- MCRequests
INVARIANT AllMethodsTried
CHECK_DEADLOCK FALSE
