SPECIFICATION Spec
CONSTANTS
  Ids = {e1, e2}
  Agents = {alice, bob}
  Terms <- AllKinds
  MaxTime = 2
  Workers = {w1}
  Daemons = {"watcher"}
  Nonces = {n1, n2}
  NonceTTL = 0
  Failures = {}
  CanRestart = FALSE
  Null = Null
SYMMETRY Symmetry
INVARIANTS
  StandsOnItsTicket
PROPERTIES
  EndsOnlyForCause
