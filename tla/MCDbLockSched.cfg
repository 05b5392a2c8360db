CONSTANTS
  Procs = {p1, p2}
  Free = Free
  Orphan = Orphan
  MaxLock = 1
  Style = "sched"
  MaxCrash = 0
  Faults <- MCNoFaults
SPECIFICATION Spec
INVARIANT MutualExclusion
