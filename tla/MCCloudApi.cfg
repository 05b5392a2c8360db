SPECIFICATION ApiSpec
CONSTANTS
  a = a
  b = b
  Callers = {a, b}
  Locations <- MCLocations
  Backends <- MCBackends
  NameOf <- MCNameOf
  TypeOf <- MCTypeOf
  PartLists <- MCPartLists
  PartNumbers = {1, 2}
  MaxUpload = 1
  Worlds <- MCWorlds
  MaxHiccups = 1
  MaxAnyTokens = 4
  MaxSensibleTokens = 7
  Visitors = {a, b}
  Actions <- MCActions
  Files <- MCFiles
  Strategies <- MCStrategies
  MaxNesting = 12
  MaxVisits = 2
  MaxTroubles = 2
  Clerks = {a, b}
  MaxPlans = 4
  Creations <- MCCreations
  Changes <- MCChanges
  PolicyTexts <- MCPolicyTexts
  GoodNames = {"n1", "n2", "p", "all"}
  Shifts <- MCShifts
  MaxUpsets = 1
  Keys = {1, 2, 3, 4, 5}
  InPrefix = {1, 2, 4, 5}
  RegexpKeys = {1, 2, 3, 4, 5}
  LowKeys = {1}
  PageSize = 2
  Sources = {"aws", "obs", "azure", "ceph", "osds", "cloud"}
  Limits <- MCLimits
  MaxLimit = 3
  MaxMoves = 3
  Pieces = 3
  MaxRetry = 3
  MaxRedirects = 2
INVARIANT ApiTypeOK
INVARIANT AgreesWithRequests
INVARIANT PutsSurvive
PROPERTY ReadsAgree
INVARIANT RuleMeansText
INVARIANT OnlyAllowedReachHandlers
INVARIANT RefusedForAReason
INVARIANT DeskAgrees
INVARIANT ListsAndRemoves
INVARIANT ObsStoresWhole
SYMMETRY TwoClients
CHECK_DEADLOCK FALSE
