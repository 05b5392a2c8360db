SPECIFICATION Spec
CONSTANTS
  m1 = m1
  m2 = m2
  Movers <- MCMovers
  PartSize = 2
  Requests <- MCRequests
SYMMETRY MCSymmetry
INVARIANTS
  TypeOK
  PassedIsThere
PROPERTIES
  OpenUploadsAccounted
  MovesObject
