CONSTANTS
  Plans = {q1}
  Policies = {p1, p2}
  Foreign = {p2}
  Schedules = {"daily", "other", "broken"}
  Untyped = {"other"}
  Broken = {"broken"}
  None = ""
  Callers = {c1, c2}
  MaxCrons = 3
SPECIFICATION Spec
SYMMETRY Symmetry
INVARIANTS TypeOK CleanPlansKeepTheirEntry EnabledPlansFire OnlyEnabledPlansFire
