--------------------------- MODULE MCJobPipeline ---------------------------
\* Two jobs, the first without and the second with assistant work.
EXTENDS JobPipeline, TLC

CONSTANTS j1, j2, m1, m2

MCKind == (j1 :> "none") @@ (j2 :> "analysis")
MCKindPlain == (j1 :> "none") @@ (j2 :> "none")

\* Everything that leaves a job to a single goroutine.
MCSingle == {"late", "db", "send", "crash"}
MCAgain == FaultNames \ {"send"}
MCDuplicate == {"dup"}

ProcessSymmetry == Permutations(Movers) \cup Permutations(Runners)
=============================================================================
