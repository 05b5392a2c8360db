SPECIFICATION Spec
CONSTANTS
  m1 = m1
  m2 = m2
  Movers <- MCOne
  PartSize = 2
  Requests <- MCToObs
INVARIANT
  PassedIsMigrated
