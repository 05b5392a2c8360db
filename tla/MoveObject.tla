----------------------------- MODULE MoveObject -----------------------------
(***************************************************************************)
(* What moving one object promises to the job it belongs to, which is what *)
(* Migration takes its step Transfer to do: the object appears at the      *)
(* destination whole and stays, and a transfer answers once, with "passed" *)
(* only when the object is there.  One that fails may have brought it all  *)
(* the same.  Several may run for the same object.                         *)
(***************************************************************************)
CONSTANT Transfers

VARIABLES
  there,  \* what is found at the destination: "nothing", "part" or "whole"
  answer  \* what each transfer has answered

vars == <<there, answer>>

TypeOK == there \in {"nothing", "part", "whole"}
          /\ answer \in [Transfers -> {"none", "passed", "failed"}]

Running(t) == answer[t] = "none"

Init == there \in {"nothing", "whole"} /\ answer = [t \in Transfers |-> "none"]

\* Only a transfer brings the object; an answer given may go with it.
Bring == there' = there \/ there' = "whole"

Work(t) ==
  /\ Running(t) /\ Bring
  /\ UNCHANGED answer

Fail(t) ==
  /\ Running(t) /\ Bring
  /\ answer' = [answer EXCEPT ![t] = "failed"]

Pass(t) ==
  /\ Running(t) /\ Bring
  /\ there' = "whole"
  /\ answer' = [answer EXCEPT ![t] = "passed"]

Next == \E t \in Transfers : Work(t) \/ Fail(t) \/ Pass(t)

Spec == Init /\ [][Next]_vars
=============================================================================
