CONSTANTS
  j1 = j1
  j2 = j2
  m1 = m1
  m2 = m2
  Jobs = {j1, j2}
  Kind <- MCKind
  Movers = {m1, m2}
  Runners = {r1, r2}
  MaxTopic = 2
  Nobody = Nobody
  Faults <- MCSingle
SPECIFICATION Spec
INVARIANTS TypeOK AtMostOneRunner
PROPERTY ImplementsLife
