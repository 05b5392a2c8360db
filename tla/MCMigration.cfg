SPECIFICATION LiveSpec
CONSTANTS
  N = 3
  SimuRoutines = 1
  Size <- MCSize
  BigJob = 2
  Steps = 2
  Requests <- RequestsTried
INVARIANT TypeOK
INVARIANT RoutineBound
INVARIANT SucceedMeansMoved
INVARIANT RecordAgrees
INVARIANT NoDataLoss
INVARIANT SourceFindable
INVARIANT PanicOnlyWhenLate
PROPERTY ProgressNeverFalls
PROPERTY ImplementsBatch
PROPERTY ImplementsRunjob
PROPERTY JobEnds
PROPERTY AllReportsArrive
