---------------------------- MODULE MCMigration ----------------------------
\* Small jobs: an empty object among others, fewer tokens than objects.
EXTENDS Migration

MCSize == [o \in 1..N |-> IF o = 2 THEN 0 ELSE o]

\* Copies and moves with at most one virtual bucket.  Nothing reads the metadata
\* that a job adds to its destination, so a second virtual bucket only multiplies
\* the states.
RequestsTried == {r \in MoveRequest : r.srcVir => ~r.destVir /\ ~r.remainSrc}
=============================================================================
