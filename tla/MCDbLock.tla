------------------------------ MODULE MCDbLock ------------------------------
\* A few processes and a lock that is respected for two ticks of the clock.
EXTENDS DbLock, TLC

MCNoFaults == {}
MCFailing == {"insert", "find"}
MCSlow == {"crash", "slow"}

Symmetry == Permutations(Procs)
=============================================================================
