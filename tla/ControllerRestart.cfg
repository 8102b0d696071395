SPECIFICATION FairSpec
CONSTANTS
  Ids = {e1}
  Agents = {alice}
  Terms <- ShortKind
  MaxTime = 1
  Workers = {w1}
  Daemons = {"timer", "watcher"}
  Nonces = {n1, n2}
  NonceTTL = 0
  Failures = {"apply", "teardown", "callback"}
  CanRestart = TRUE
  Null = Null
INVARIANTS
  NoDoubleBooking
  ActiveIsConfigured
PROPERTIES
  SessionsEnd
