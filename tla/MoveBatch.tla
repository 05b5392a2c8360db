----------------------------- MODULE MoveBatch -----------------------------
(***************************************************************************)
(* What moving a batch of objects promises to the owner of the data and to *)
(* the reader of the job record: no source object is removed before it was *)
(* copied, and the one verdict on the batch is "succeed" only if all its   *)
(* objects were copied.  Copying may go on after a verdict.                *)
(***************************************************************************)
CONSTANT Items

VARIABLES
  copied,   \* the items copied to the destination
  removed,  \* the items removed from the source
  verdict   \* what is recorded of the batch

vars == <<copied, removed, verdict>>

TypeOK == copied \subseteq Items /\ removed \subseteq Items
          /\ verdict \in {"running", "succeed", "failed"}

Init == copied = {} /\ removed = {} /\ verdict = "running"

Copy(i) ==
  /\ copied' = copied \cup {i}
  /\ UNCHANGED <<removed, verdict>>

Remove(i) ==
  /\ i \in copied
  /\ removed' = removed \cup {i}
  /\ UNCHANGED <<copied, verdict>>

Judge ==
  /\ verdict = "running"
  /\ verdict' \in {"failed"} \cup (IF copied = Items THEN {"succeed"} ELSE {})
  /\ UNCHANGED <<copied, removed>>

Next == Judge \/ \E i \in Items : Copy(i) \/ Remove(i)

Spec == Init /\ [][Next]_vars
=============================================================================
