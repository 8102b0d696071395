SPECIFICATION Spec
CONSTANTS
  Ids = {e1}
  Agents = {alice}
  Terms <- OneKind
  MaxTime = 2
  Workers = {w1, w2}
  Daemons = {}
  Nonces = {n1, n2}
  NonceTTL = 1
  Failures = {}
  CanRestart = FALSE
  Null = Null
SYMMETRY Symmetry
INVARIANTS
  NoDoubleBooking
