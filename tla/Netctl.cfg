SPECIFICATION Spec
CONSTANTS
  s1 = s1
  s2 = s2
  s3 = s3
  s4 = s4
  srl1 = srl1
  srl2 = srl2
  c1 = c1
  c2 = c2
  Sessions = {s1, s2, s3, s4}
  Plan <- MCPlan
  Targets <- TwoRouters
  Callers = {c1, c2}
SYMMETRY Symmetry
INVARIANTS
  TypeOK
  NeverRefused
  ExportsAreReal
  LiveIsShaped
  OkMeansGone
PROPERTIES
  OwnConfigOnly
  ImplementsPort
