------------------------------ MODULE JobLife ------------------------------
(***************************************************************************)
(* The life of a migration job as the reader of its record expects it: it  *)
(* is pending, may be running, and ends succeeded or failed once for all.  *)
(***************************************************************************)
CONSTANT Jobs

VARIABLE status

Ended == {"succeed", "failed"}

TypeOK == status \in [Jobs -> {"absent", "pending", "running"} \cup Ended]

Init == status = [j \in Jobs |-> "absent"]

Create(j) == status[j] = "absent" /\ status' = [status EXCEPT ![j] = "pending"]

Begin(j) == status[j] = "pending" /\ status' = [status EXCEPT ![j] = "running"]

\* A job with nothing to move, or that cannot be prepared, never runs.
End(j) ==
  /\ status[j] \in {"pending", "running"}
  /\ \E s \in Ended : status' = [status EXCEPT ![j] = s]

Next == \E j \in Jobs : Create(j) \/ Begin(j) \/ End(j)

Spec == Init /\ [][Next]_status
=============================================================================
