------------------------------- MODULE DbLock -------------------------------
(***************************************************************************)
(* The lock that the dataflow services keep in the database: a document    *)
(* with the name of the locked object, unique by an index, and the time of *)
(* the call that took it (dataflow/pkg/db/drivers/mongo/mongo.go).         *)
(*                                                                         *)
(* Style "manager" is how policies and plans are changed: four calls, the  *)
(* last result decides.  Style "sched" is how a plan is run (Run in        *)
(* dataflow/pkg/plan/plan.go): up to three results are looked at, the one  *)
(* of the fourth call is not.                                              *)
(*                                                                         *)
(* Time is kept as ages, which stop one above MaxLock, the age from which  *)
(* on a lock counts as left behind.                                        *)
(***************************************************************************)
EXTENDS Integers

CONSTANTS
  Procs,    \* goroutines that want the lock
  Free,     \* there is no lock document
  Orphan,   \* the document of a process that died
  MaxLock,  \* the time a lock is respected (30 s for Run, 5 s for the manager)
  Style,    \* "manager" or "sched"
  MaxCrash, \* bound on the number of crashes
  Faults    \* what may go wrong, a subset of FaultNames

\* insert, find, remove: that operation fails;  crash: a process dies;
\* slow: a process needs more than MaxLock from its call of lock to the end.
FaultNames == {"insert", "find", "remove", "crash", "slow"}

ASSUME ValuesAssumption == Free \notin Procs /\ Orphan \notin Procs /\ Free # Orphan
ASSUME MaxLockAssumption == MaxLock \in Nat \ {0}
ASSUME StyleAssumption == Style \in {"manager", "sched"}
ASSUME MaxCrashAssumption == MaxCrash \in Nat
ASSUME FaultNamesAssumption == Faults \subseteq FaultNames

VARIABLES
  pc,       \* what each process does next
  calls,    \* how often it has called lock
  since,    \* the time since its last call of lock
  deferred, \* it will unlock before it returns
  by,       \* whose document is in the database, Free or Orphan
  age,      \* the age of that document
  crashes   \* crashes so far

vars == <<pc, calls, since, deferred, by, age, crashes>>

Step == {"idle", "insert", "find", "remove", "reinsert", "work", "unlock"}
MaxCalls == 4

Goto(p, step) == pc' = [pc EXCEPT ![p] = step]

Init ==
  /\ pc = [p \in Procs |-> "idle"]
  /\ calls = [p \in Procs |-> 0]
  /\ since = [p \in Procs |-> 0]
  /\ deferred = [p \in Procs |-> FALSE]
  /\ by = Free /\ age = 0 /\ crashes = 0

-----------------------------------------------------------------------------
\* dur > maxLockTime
Expired_AtLimit == age >= MaxLock
Expired_Never == FALSE
Expired == age > MaxLock

\* Whether the caller looks at the result of its current call.
Examined_NotLast(p) == calls[p] < MaxCalls
Examined(p) == Style = "manager" \/ calls[p] < MaxCalls

MayCallAgain_OneMore(p) == calls[p] <= MaxCalls
MayCallAgain(p) == calls[p] < MaxCalls

\* lock() calls are as long as the caller likes apart: its time starts anew.
CallLock(p, n) ==
  /\ Goto(p, "insert")
  /\ calls' = [calls EXCEPT ![p] = n]
  /\ since' = [since EXCEPT ![p] = 0]
  /\ UNCHANGED deferred

\* lock returns LockSuccess: unlock is deferred, if the result is looked at.
Locked(p) ==
  /\ by = Free
  /\ by' = p /\ age' = since[p]
  /\ Goto(p, "work")
  /\ deferred' = [deferred EXCEPT ![p] = Examined(p)]
  /\ UNCHANGED <<calls, since, crashes>>

\* The caller gives up: busy for Run, an inner error for the manager.
Return(p) == Goto(p, "idle") /\ UNCHANGED <<calls, since, deferred>>

\* lock returns another result.
NotLocked(p, result) ==
  \/ /\ Style = "sched" /\ Examined(p) /\ result = "busy"
     /\ Return(p)
  \/ /\ Examined(p) /\ MayCallAgain(p) /\ ~(Style = "sched" /\ result = "busy")
     /\ CallLock(p, calls[p] + 1)
  \/ /\ Style = "manager" /\ ~MayCallAgain(p)
     /\ Return(p)
  \/ /\ ~Examined(p)
     /\ Goto(p, "work") /\ UNCHANGED <<calls, since, deferred>>

-----------------------------------------------------------------------------
Start(p) ==
  /\ pc[p] = "idle"
  /\ CallLock(p, 1)
  /\ UNCHANGED <<by, age, crashes>>

Insert(p) ==
  /\ pc[p] = "insert"
  /\ Locked(p)

InsertFails(p) ==
  /\ pc[p] = "insert" /\ (by # Free \/ "insert" \in Faults)
  /\ Goto(p, "find")
  /\ UNCHANGED <<calls, since, deferred, by, age, crashes>>

Find(p) ==
  /\ pc[p] = "find" /\ by # Free
  /\ IF Expired
     THEN Goto(p, "remove") /\ UNCHANGED <<calls, since, deferred>>
     ELSE NotLocked(p, "busy")
  /\ UNCHANGED <<by, age, crashes>>

\* Also when the document has been removed since the insertion failed.
FindFails(p) ==
  /\ pc[p] = "find" /\ (by = Free \/ "find" \in Faults)
  /\ NotLocked(p, "error")
  /\ UNCHANGED <<by, age, crashes>>

\* Removes the document by its name, whoever has inserted it in the meantime.
Remove(p) ==
  /\ pc[p] = "remove" /\ by # Free
  /\ by' = Free /\ age' = 0
  /\ Goto(p, "reinsert")
  /\ UNCHANGED <<calls, since, deferred, crashes>>

RemoveFails(p) ==
  /\ pc[p] = "remove" /\ (by = Free \/ "remove" \in Faults)
  /\ NotLocked(p, "error")
  /\ UNCHANGED <<by, age, crashes>>

InsertAgain(p) ==
  /\ pc[p] = "reinsert"
  /\ Locked(p)

InsertAgainFails(p) ==
  /\ pc[p] = "reinsert" /\ (by # Free \/ "insert" \in Faults)
  /\ NotLocked(p, "error")
  /\ UNCHANGED <<by, age, crashes>>

\* The work that the lock protects; Run returns without unlocking when the
\* loop has not seen LockSuccess.
Work(p) ==
  /\ pc[p] = "work"
  /\ Goto(p, IF deferred[p] THEN "unlock" ELSE "idle")
  /\ UNCHANGED <<calls, since, deferred, by, age, crashes>>

Unlock(p) ==
  /\ pc[p] = "unlock"
  /\ \/ by' = Free /\ age' = 0
     \/ "remove" \in Faults /\ UNCHANGED <<by, age>>
  /\ Goto(p, "idle")
  /\ deferred' = [deferred EXCEPT ![p] = FALSE]
  /\ UNCHANGED <<calls, since, crashes>>

Crash(p) ==
  /\ "crash" \in Faults /\ pc[p] # "idle" /\ crashes < MaxCrash
  /\ crashes' = crashes + 1
  /\ Goto(p, "idle")
  /\ deferred' = [deferred EXCEPT ![p] = FALSE]
  /\ by' = IF by = p THEN Orphan ELSE by
  /\ UNCHANGED <<calls, since, age>>

\* Time passes.  Without "slow" everybody is done MaxLock after his call.
Older(t) == IF t <= MaxLock THEN t + 1 ELSE t

Tick ==
  /\ "slow" \in Faults \/ \A p \in Procs : pc[p] # "idle" => since[p] < MaxLock
  /\ age' = IF by = Free THEN 0 ELSE Older(age)
  /\ since' = [p \in Procs |-> IF pc[p] = "idle" THEN since[p] ELSE Older(since[p])]
  /\ UNCHANGED <<pc, calls, deferred, by, crashes>>

Lock(p) ==
  \/ Insert(p) \/ InsertFails(p) \/ Find(p) \/ FindFails(p) \/ Remove(p) \/ RemoveFails(p)
  \/ InsertAgain(p) \/ InsertAgainFails(p)

Next ==
  \/ Tick
  \/ \E p \in Procs : Start(p) \/ Lock(p) \/ Work(p) \/ Unlock(p) \/ Crash(p)

Spec == Init /\ [][Next]_vars

\* Goroutines run, time passes, and the trigger of the plan fires again.
Fairness ==
  /\ WF_vars(Tick)
  /\ \A p \in Procs : WF_vars(Start(p)) /\ WF_vars(Lock(p) \/ Work(p) \/ Unlock(p))

LiveSpec == Spec /\ Fairness

-----------------------------------------------------------------------------
(* Properties.                                                             *)

Inside(p) == pc[p] \in {"work", "unlock"}

TypeOK ==
  /\ pc \in [Procs -> Step] /\ calls \in [Procs -> 0..MaxCalls]
  /\ since \in [Procs -> 0..MaxLock + 1] /\ deferred \in [Procs -> BOOLEAN]
  /\ by \in Procs \cup {Free, Orphan} /\ age \in 0..MaxLock + 1
  /\ crashes \in 0..MaxCrash

\* "scheduling must be mutual excluded among several schedulers"
\* (dataflow/pkg/plan/plan.go:296); the manager's lock is meant likewise.
MutualExclusion == \A p, q \in Procs : Inside(p) /\ Inside(q) => p = q

\* "Make sure unlock before return" (plan.go:301, mongo.go:233): nobody who
\* has returned has left his document behind.
ReleasedOnReturn == \A p \in Procs : pc[p] = "idle" => by # p

\* A lock that a dead process has left behind does not block for ever.
LockRecovers == by = Orphan ~> by # Orphan
=============================================================================
