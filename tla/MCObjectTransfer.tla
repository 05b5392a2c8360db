-------------------------- MODULE MCObjectTransfer --------------------------
(* Small instances of ObjectTransfer: parts of two bytes. *)
EXTENDS ObjectTransfer, TLC

CONSTANTS m1, m2
MCMovers == {m1, m2}
MCOne == {m1}
MCSymmetry == Permutations(MCMovers)

\* An empty object, one that fits in a part, and three parts with a short last
\* one.  The keys of the parts do not depend on srcVir, and ranges are read from
\* azure as they are from aws.
MCRequests ==
  {r \in [src : StorType, dest : StorType, srcVir : BOOLEAN, destVir : BOOLEAN, size : {0, 2, 5}] :
     r.size = 5 => r.srcVir /\ r.src # "azure"}
\* A small object from a cloud bucket to a bucket of OBS.
MCToObs == [src : {"aws"}, dest : {"obs"}, srcVir : {FALSE}, destVir : {FALSE}, size : {2}]
=============================================================================
