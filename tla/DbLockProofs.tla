---------------------------- MODULE DbLockProofs ----------------------------
(***************************************************************************)
(* The manager's lock excludes, for any number of goroutines and any       *)
(* MaxLock, as long as everybody is done in time, nobody crashes and       *)
(* documents can be removed: a lock never gets old enough to be taken away *)
(* and a process is inside exactly while its document is there.  The types  *)
(* hold whatever fails and for both callers.                               *)
(***************************************************************************)
EXTENDS DbLock, TLAPS

Reliable == /\ Style = "manager"
            /\ "remove" \notin Faults /\ "crash" \notin Faults /\ "slow" \notin Faults

PlaceTypes ==
  /\ pc \in [Procs -> Step] /\ by \in Procs \cup {Free, Orphan}
  /\ deferred \in [Procs -> BOOLEAN]
TimeTypes ==
  /\ calls \in [Procs -> 0..MaxCalls] /\ since \in [Procs -> 0..MaxLock + 1]
  /\ age \in 0..MaxLock + 1 /\ crashes \in 0..MaxCrash

\* Inside exactly while the document is one's own, and then with a deferred
\* unlock.
Holds ==
  /\ by # Orphan
  /\ \A p \in Procs : Inside(p) <=> by = p
  /\ \A p \in Procs : pc[p] = "work" => deferred[p] = TRUE

\* Nobody ever sees an old document.
Young ==
  /\ \A p \in Procs : pc[p] # "idle" => since[p] <= MaxLock
  /\ \A p \in Procs : by = p => age = since[p]
  /\ \A p \in Procs : pc[p] \notin {"remove", "reinsert"}

IInv == PlaceTypes /\ TimeTypes /\ Holds /\ Young

-----------------------------------------------------------------------------
LEMMA InitIInv == Init => IInv
<1>. SUFFICES ASSUME Init PROVE IInv
  OBVIOUS
<1>1. PlaceTypes
  BY DEF Init, PlaceTypes, Step
<1>2. TimeTypes
  BY MaxLockAssumption, MaxCrashAssumption DEF Init, TimeTypes, MaxCalls
<1>3. Holds
  BY ValuesAssumption DEF Init, Holds, Inside
<1>4. Young
  BY ValuesAssumption DEF Init, Young
<1>. QED  BY <1>1, <1>2, <1>3, <1>4 DEF IInv

\* The manager calls lock again or returns.
LEMMA ManagerRetries ==
  ASSUME NEW p \in Procs, NEW result, NotLocked(p, result), Style = "manager"
  PROVE  /\ UNCHANGED deferred
         /\ \/ Goto(p, "idle") /\ UNCHANGED <<calls, since>>
            \/ /\ Goto(p, "insert") /\ calls[p] < MaxCalls
               /\ calls' = [calls EXCEPT ![p] = calls[p] + 1]
               /\ since' = [since EXCEPT ![p] = 0]
BY DEF NotLocked, Return, CallLock, Examined, MayCallAgain

\* A step to a place outside, with the document as it was.
LEMMA OutsideStep ==
  ASSUME IInv, NEW p \in Procs, UNCHANGED <<deferred, by, age, crashes>>,
         NEW s \in {"idle", "insert", "find"}, Goto(p, s), ~Inside(p),
         \/ UNCHANGED <<calls, since>> /\ pc[p] # "idle"
         \/ /\ since' = [since EXCEPT ![p] = 0]
            /\ \E n \in 0..MaxCalls : calls' = [calls EXCEPT ![p] = n]
  PROVE  IInv'
<1>. USE DEF IInv
<1>0. \A q \in Procs : pc'[q] = IF q = p THEN s ELSE pc[q]
  BY DEF Goto, PlaceTypes
<1>1. PlaceTypes'
  BY DEF PlaceTypes, Goto, Step
<1>2. TimeTypes'
  BY MaxLockAssumption DEF TimeTypes
<1>3. Holds'
  BY <1>0 DEF Holds, Inside
<1>4. by # p
  BY DEF Holds
<1>5. \A q \in Procs : q # p => since'[q] = since[q]
  BY DEF TimeTypes
<1>6. pc'[p] # "idle" => since'[p] <= MaxLock
  BY MaxLockAssumption DEF TimeTypes, Young
<1>7. Young'
  BY <1>0, <1>4, <1>5, <1>6 DEF Young
<1>. QED  BY <1>1, <1>2, <1>3, <1>7

LEMMA IInvStep ==
  ASSUME IInv, [Next]_vars, Reliable
  PROVE  IInv'
<1>0. /\ PlaceTypes /\ TimeTypes /\ Holds /\ Young /\ MaxLock \in Nat \ {0}
      /\ Style = "manager"
  BY MaxLockAssumption DEF IInv, Reliable
<1>1. CASE UNCHANGED vars
  BY <1>0, <1>1 DEF vars, IInv, PlaceTypes, TimeTypes, Holds, Young, Inside
<1>2. CASE Tick
  <2>1. /\ \A p \in Procs : pc[p] # "idle" => since[p] < MaxLock
        /\ age' = IF by = Free THEN 0 ELSE Older(age)
        /\ since' = [p \in Procs |-> IF pc[p] = "idle" THEN since[p] ELSE Older(since[p])]
        /\ UNCHANGED <<pc, calls, deferred, by, crashes>>
    BY <1>2 DEF Tick, Reliable
  <2>2. \A t \in 0..MaxLock + 1 : Older(t) \in 0..MaxLock + 1 /\ (t < MaxLock => Older(t) <= MaxLock)
    BY <1>0 DEF Older
  <2>3. PlaceTypes' /\ Holds'
    BY <1>0, <2>1 DEF PlaceTypes, Holds, Inside
  <2>4. TimeTypes'
    BY <1>0, <2>1, <2>2 DEF TimeTypes
  <2>5. \A p \in Procs : by = p => pc[p] # "idle" /\ p # Free
    BY <1>0, ValuesAssumption DEF Holds, Inside
  <2>6. Young'
    BY <1>0, <2>1, <2>2, <2>5 DEF Young, TimeTypes
  <2>. QED  BY <2>3, <2>4, <2>6 DEF IInv
<1>3. ASSUME NEW p \in Procs, Start(p) PROVE IInv'
  <2>1. /\ pc[p] = "idle" /\ Goto(p, "insert") /\ UNCHANGED <<deferred, by, age, crashes>>
        /\ calls' = [calls EXCEPT ![p] = 1] /\ since' = [since EXCEPT ![p] = 0]
    BY <1>3 DEF Start, CallLock
  <2>2. 1 \in 0..MaxCalls /\ ~Inside(p)
    BY <2>1 DEF MaxCalls, Inside
  <2>. QED  BY <2>1, <2>2, OutsideStep
<1>4. ASSUME NEW p \in Procs, Insert(p) PROVE IInv'
  <2>1. /\ pc[p] = "insert" /\ by = Free /\ by' = p /\ age' = since[p]
        /\ pc' = [pc EXCEPT ![p] = "work"] /\ deferred' = [deferred EXCEPT ![p] = TRUE]
        /\ UNCHANGED <<calls, since, crashes>>
    BY <1>0, <1>4 DEF Insert, Locked, Goto, Examined
  <2>2. \A q \in Procs : pc'[q] = IF q = p THEN "work" ELSE pc[q]
    BY <1>0, <2>1 DEF PlaceTypes
  <2>3. PlaceTypes'
    BY <1>0, <2>1 DEF PlaceTypes, Step
  <2>4. TimeTypes'
    BY <1>0, <2>1 DEF TimeTypes
  <2>5. \A q \in Procs : ~Inside(q)
    BY <1>0, <2>1, ValuesAssumption DEF Holds
  <2>6. Holds'
    BY <1>0, <2>1, <2>2, <2>5, ValuesAssumption DEF Holds, Inside, PlaceTypes
  <2>7. Young'
    BY <1>0, <2>1, <2>2 DEF Young
  <2>. QED  BY <2>3, <2>4, <2>6, <2>7 DEF IInv
<1>5. ASSUME NEW p \in Procs, InsertFails(p) PROVE IInv'
  BY <1>0, <1>5, OutsideStep DEF InsertFails, Inside
<1>6. ASSUME NEW p \in Procs, Find(p) \/ FindFails(p) PROVE IInv'
  <2>1. pc[p] = "find" /\ UNCHANGED <<by, age, crashes>>
    BY <1>6 DEF Find, FindFails
  <2>2. CASE Find(p)
    <3>1. by \in Procs
      BY <1>0, <2>2 DEF Find, Holds, PlaceTypes
    <3>2. age <= MaxLock
      BY <1>0, <3>1 DEF Holds, Young, Inside
    <3>3. ~Expired
      BY <1>0, <3>2 DEF Expired, TimeTypes
    <3>. QED  BY <2>2, <3>3, <1>0, <2>1, ManagerRetries, OutsideStep DEF Find, Inside, TimeTypes, MaxCalls
  <2>3. CASE FindFails(p)
    BY <2>3, <1>0, <2>1, ManagerRetries, OutsideStep DEF FindFails, Inside, TimeTypes, MaxCalls
  <2>. QED  BY <1>6, <2>2, <2>3
<1>7. ASSUME NEW p \in Procs, Remove(p) \/ RemoveFails(p) \/ InsertAgain(p) \/ InsertAgainFails(p)
      PROVE  IInv'
  BY <1>0, <1>7 DEF Young, Remove, RemoveFails, InsertAgain, InsertAgainFails
<1>8. ASSUME NEW p \in Procs, Work(p) PROVE IInv'
  <2>1. /\ pc[p] = "work" /\ pc' = [pc EXCEPT ![p] = "unlock"]
        /\ UNCHANGED <<calls, since, deferred, by, age, crashes>>
    BY <1>0, <1>8 DEF Work, Goto, Holds
  <2>2. \A q \in Procs : pc'[q] = IF q = p THEN "unlock" ELSE pc[q]
    BY <1>0, <2>1 DEF PlaceTypes
  <2>3. PlaceTypes' /\ TimeTypes'
    BY <1>0, <2>1 DEF PlaceTypes, TimeTypes, Step
  <2>4. Holds' /\ Young'
    BY <1>0, <2>1, <2>2 DEF Holds, Young, Inside
  <2>. QED  BY <2>3, <2>4 DEF IInv
<1>9. ASSUME NEW p \in Procs, Unlock(p) PROVE IInv'
  <2>1. /\ pc[p] = "unlock" /\ by' = Free /\ age' = 0 /\ pc' = [pc EXCEPT ![p] = "idle"]
        /\ deferred' = [deferred EXCEPT ![p] = FALSE] /\ UNCHANGED <<calls, since, crashes>>
    BY <1>9 DEF Unlock, Goto, Reliable
  <2>2. \A q \in Procs : pc'[q] = IF q = p THEN "idle" ELSE pc[q]
    BY <1>0, <2>1 DEF PlaceTypes
  <2>3. PlaceTypes'
    BY <1>0, <2>1 DEF PlaceTypes, Step
  <2>4. TimeTypes'
    BY <1>0, <2>1 DEF TimeTypes
  <2>5. by = p
    BY <1>0, <2>1 DEF Holds, Inside
  <2>6. \A q \in Procs : q # p => ~Inside(q) /\ deferred'[q] = deferred[q]
    BY <1>0, <2>1, <2>5 DEF Holds, PlaceTypes
  <2>7. Holds'
    BY <1>0, <2>1, <2>2, <2>6, ValuesAssumption DEF Holds, Inside
  <2>8. Young'
    BY <1>0, <2>1, <2>2, ValuesAssumption DEF Young
  <2>. QED  BY <2>3, <2>4, <2>7, <2>8 DEF IInv
<1>10. ASSUME NEW p \in Procs PROVE ~Crash(p)
  BY DEF Crash, Reliable
<1>. QED
  BY <1>1, <1>2, <1>3, <1>4, <1>5, <1>6, <1>7, <1>8, <1>9, <1>10 DEF Next, Lock

-----------------------------------------------------------------------------
\* Changes of policies and plans exclude each other although insertions and
\* reads of the lock may fail.
THEOREM ManagerExcludes ==
  ASSUME Reliable
  PROVE  Spec => []MutualExclusion
<1>1. IInv /\ [Next]_vars => IInv'
  BY IInvStep
<1>2. IInv => MutualExclusion
  BY DEF IInv, Holds, MutualExclusion
<1>. QED  BY <1>1, <1>2, InitIInv, PTL DEF Spec

\* ... and each removes its lock document before it returns.
THEOREM ManagerReleases ==
  ASSUME Reliable
  PROVE  Spec => []ReleasedOnReturn
<1>1. IInv /\ [Next]_vars => IInv'
  BY IInvStep
<1>2. IInv => ReleasedOnReturn
  BY DEF IInv, Holds, ReleasedOnReturn, Inside
<1>. QED  BY <1>1, <1>2, InitIInv, PTL DEF Spec

-----------------------------------------------------------------------------
\* A call of lock that does not take it changes a place, a counter and a time.
LEMMA NotLockedTypes ==
  ASSUME TypeOK, NEW p \in Procs, NEW result, NotLocked(p, result)
  PROVE  /\ pc' \in [Procs -> Step] /\ calls' \in [Procs -> 0..MaxCalls]
         /\ since' \in [Procs -> 0..MaxLock + 1] /\ deferred' \in [Procs -> BOOLEAN]
<1>1. CASE Return(p) \/ (Goto(p, "work") /\ UNCHANGED <<calls, since, deferred>>)
  BY <1>1 DEF TypeOK, Return, Goto, Step
<1>2. CASE CallLock(p, calls[p] + 1) /\ MayCallAgain(p)
  BY <1>2, MaxLockAssumption DEF TypeOK, CallLock, Goto, Step, MayCallAgain, MaxCalls
<1>. QED  BY <1>1, <1>2 DEF NotLocked

LEMMA TypesStep == TypeOK /\ [Next]_vars => TypeOK'
<1>. SUFFICES ASSUME TypeOK, [Next]_vars PROVE TypeOK'
  OBVIOUS
<1>1. ASSUME NEW p \in Procs, Start(p) PROVE TypeOK'
  BY <1>1, MaxLockAssumption DEF TypeOK, Start, CallLock, Goto, Step, MaxCalls
<1>2. ASSUME NEW p \in Procs, Locked(p) PROVE TypeOK'
  BY <1>2 DEF TypeOK, Locked, Goto, Step, Examined
<1>3. ASSUME NEW p \in Procs, Find(p) \/ FindFails(p) \/ RemoveFails(p) \/ InsertAgainFails(p)
      PROVE TypeOK'
  <2>1. UNCHANGED <<by, age, crashes>>
    BY <1>3 DEF Find, FindFails, RemoveFails, InsertAgainFails
  <2>2. CASE NotLocked(p, "busy") \/ NotLocked(p, "error")
    BY <2>1, <2>2, NotLockedTypes DEF TypeOK
  <2>3. CASE Goto(p, "remove") /\ UNCHANGED <<calls, since, deferred>>
    BY <2>1, <2>3 DEF TypeOK, Goto, Step
  <2>. QED  BY <1>3, <2>2, <2>3 DEF Find, FindFails, RemoveFails, InsertAgainFails
<1>4. ASSUME NEW p \in Procs, InsertFails(p) \/ Work(p) PROVE TypeOK'
  BY <1>4 DEF TypeOK, InsertFails, Work, Goto, Step
<1>5. ASSUME NEW p \in Procs, Remove(p) PROVE TypeOK'
  BY <1>5, MaxLockAssumption DEF TypeOK, Remove, Goto, Step
<1>6. ASSUME NEW p \in Procs, Unlock(p) PROVE TypeOK'
  <2>1. /\ pc' \in [Procs -> Step] /\ by' \in Procs \cup {Free, Orphan}
        /\ age' \in 0..MaxLock + 1
    BY <1>6, MaxLockAssumption DEF TypeOK, Unlock, Goto, Step
  <2>2. deferred' \in [Procs -> BOOLEAN] /\ UNCHANGED <<calls, since, crashes>>
    BY <1>6 DEF TypeOK, Unlock
  <2>. QED  BY <2>1, <2>2 DEF TypeOK
<1>7. ASSUME NEW p \in Procs, Crash(p) PROVE TypeOK'
  BY <1>7, MaxCrashAssumption DEF TypeOK, Crash, Goto, Step
<1>8. CASE Tick
  BY <1>8, MaxLockAssumption DEF TypeOK, Tick, Older
<1>9. CASE UNCHANGED vars
  BY <1>9 DEF TypeOK, vars
<1>. QED  BY <1>1, <1>2, <1>3, <1>4, <1>7, <1>8, <1>9, <1>5, <1>6 DEF Next, Lock, Insert, InsertAgain

(* Whatever fails or crashes, and for both callers: nobody calls lock more   *)
(* than four times, ages stay within the bounds that stand for "too old",    *)
(* and a document belongs to a goroutine, to a dead one, or is not there.    *)
THEOREM TypesHold == Spec => []TypeOK
<1>1. Init => TypeOK
  BY MaxLockAssumption, MaxCrashAssumption DEF Init, TypeOK, Step, MaxCalls
<1>. QED  BY <1>1, TypesStep, PTL DEF Spec
=============================================================================
