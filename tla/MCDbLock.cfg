CONSTANTS
  Procs = {p1, p2, p3}
  Free = Free
  Orphan = Orphan
  MaxLock = 2
  Style = "manager"
  MaxCrash = 0
  Faults <- MCFailing
SPECIFICATION Spec
SYMMETRY Symmetry
INVARIANTS TypeOK MutualExclusion ReleasedOnReturn
