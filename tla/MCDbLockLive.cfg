CONSTANTS
  Procs = {p1, p2}
  Free = Free
  Orphan = Orphan
  MaxLock = 2
  Style = "sched"
  MaxCrash = 2
  Faults <- MCSlow
SPECIFICATION LiveSpec
PROPERTY LockRecovers
