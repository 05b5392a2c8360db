--------------------------- MODULE MCPlanTrigger ---------------------------
\* A plan, a policy and a policy of another tenant, and schedules of every kind.
EXTENDS PlanTrigger, TLC

Symmetry == Permutations(Callers)
=============================================================================
