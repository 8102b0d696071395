SPECIFICATION Spec
CONSTANTS
  Ids = {e1}
  Agents = {alice}
  Terms <- OneKind
  MaxTime = 2
  Workers = {w1}
  Daemons = {"timer", "watcher"}
  Nonces = {n1}
  NonceTTL = 1
  Failures = {}
  CanRestart = FALSE
  Null = Null
INVARIANTS
  RevocationEnforced
