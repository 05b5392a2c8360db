CONSTANTS
  Plans = {q1}
  Policies = {p1, p2}
  Foreign = {p2}
  Schedules = {"daily", "weekly", "other", "broken"}
  Untyped = {"other"}
  Broken = {"broken"}
  None = ""
  Callers = {c1}
  MaxCrons = 3
SPECIFICATION Spec
INVARIANT FiresByPolicy
