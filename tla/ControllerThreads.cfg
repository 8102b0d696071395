SPECIFICATION Spec
CONSTANTS
  Ids = {e1}
  Agents = {alice}
  Terms <- ShortKind
  MaxTime = 1
  Workers = {w1, w2}
  Daemons = {"timer", "watcher"}
  Nonces = {n1, n2}
  NonceTTL = 0
  Failures = {"apply"}
  CanRestart = FALSE
  Null = Null
SYMMETRY Symmetry
INVARIANTS
  TypeOK
  NonceAuthorisesOnce
  NoOrphanConfig
  ActiveIsConfigured
  RevocationMissesOnlyLateSessions
PROPERTIES
  EndsOnlyForCause
  EndedStaysEnded
