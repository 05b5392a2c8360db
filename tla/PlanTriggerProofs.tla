------------------------- MODULE PlanTriggerProofs -------------------------
(***************************************************************************)
(* Proofs about PlanTrigger, for any sets of plans, policies, schedules    *)
(* and callers and any number of cron entries.                             *)
(*                                                                         *)
(* A plan that is clean has at most one call, which finds what it needs:   *)
(* the map knows what fires for the plan when the call removes its entry,  *)
(* nothing fires when the call makes a new one, and what the call writes   *)
(* to the database in the end is what it has told the trigger.  A step is  *)
(* about one plan and leaves the others as they are, so the invariant is   *)
(* stated plan by plan (PlanInv).                                          *)
(***************************************************************************)
EXTENDS PlanTrigger, TLAPS

\* What a call r is busy with, step by step.
Shape(r) ==
  /\ r.plan = None <=> r.step \in {"idle", "save"}
  /\ r.plan # None => r.policy \in Issued /\ plans[r.plan].life # "unborn"
  /\ r.step = "save" => r.policy \in Policies /\ r.sched \in Schedules
  /\ r.step = "start" => r.sched \in Schedules
  /\ r.step \in {"remove", "stop"} => r.op \in {"update", "delete"}
  /\ r.step \in {"lookup", "start"} =>
       r.op \in {"create", "update"} /\ Scheduled(r.policy, r.enabled)
  /\ r.step = "write" => r.op = "update"
  /\ r.step = "erase" => r.op = "delete"

CallShape == \A c \in Callers : Shape(call[c])

UnbornQuiet == \A q \in Plans : plans[q].life = "unborn" => ~Fires(q)

\* A plan that is clean has at most one call, which is ready for what comes next ...
Ready(r) ==
  \* nothing fires for a plan whose entry is about to be made;
  /\ r.step = "start" \/ (r.step = "lookup" /\ HasTrigger(r.policy)) => ~Fires(r.plan)
  \* what is about to be written is what the trigger knows;
  /\ r.step = "write" /\ Scheduled(r.policy, r.enabled) => Fires(r.plan)
  /\ r.plan \notin stuck =>
       /\ r.step = "write" /\ Fires(r.plan) => Scheduled(r.policy, r.enabled)
       /\ r.step = "erase" => ~Fires(r.plan)
       /\ r.op = "create" => Due(r.plan)

\* ... and between calls the trigger agrees with the database.
Agrees(q) ==
  /\ Due(q) => Fires(q)
  /\ q \notin stuck /\ Fires(q) => Due(q)

Mapped(q) == \A k \in running : k.plan = q => entry[q] = k.id
OneCall(q) == \A c, d \in Callers : call[c].plan = q /\ call[d].plan = q => c = d

PlanInv(q) ==
  q \in clean => /\ Mapped(q) /\ OneCall(q)
                 /\ \A c \in Callers : call[c].plan = q => Ready(call[c])
                 /\ ~InCall(q) => Agrees(q)

\* No plan has the number of another plan's entry.
EntryIsOwn == \A k \in running, q \in Plans : entry[q] = k.id => k.plan = q

Inv1 == TypeOK /\ CallShape /\ UnbornQuiet
Inv2 == EntryIsOwn /\ \A q \in Plans : PlanInv(q)

-----------------------------------------------------------------------------
DbTypes ==
  /\ policies \in [Policies -> Schedules \cup {"unborn", "deleted"}]
  /\ plans \in [Plans -> [life : Life, policy : PolicyId, enabled : BOOLEAN]]
TriggerTypes ==
  /\ made \in 0..MaxCrons /\ entry \in [Plans -> 0..made]
  /\ running \subseteq [id : 1..made, plan : Plans, sched : Schedules \ Broken]
CallTypes == call \in [Callers -> CallType]
HistoryTypes == clean \subseteq Plans /\ stuck \subseteq Plans

LEMMA TypeSplit == TypeOK <=> DbTypes /\ TriggerTypes /\ CallTypes /\ HistoryTypes
BY DEF TypeOK, DbTypes, TriggerTypes, CallTypes, HistoryTypes

LEMMA InitTypes == Init => Inv1
<1>. SUFFICES ASSUME Init PROVE Inv1
  OBVIOUS
<1>1. DbTypes
  BY DEF Init, DbTypes, Life, PolicyId
<1>2. TriggerTypes
  BY MaxCronsAssumption DEF Init, TriggerTypes
<1>3. CallTypes /\ HistoryTypes
  BY DEF Init, CallTypes, CallType, HistoryTypes, Idle, Op, Step, PolicyId
<1>4. CallShape
  BY DEF Init, CallShape, Shape, Idle
<1>5. UnbornQuiet
  BY DEF Init, UnbornQuiet, Fires
<1>. QED  BY <1>1, <1>2, <1>3, <1>4, <1>5, TypeSplit DEF Inv1

\* The database changes by these actions only.
LEMMA DbTypesStep == Inv1 /\ [Next]_vars => DbTypes'
<1>. SUFFICES ASSUME Inv1, [Next]_vars PROVE DbTypes'
  OBVIOUS
<1>0. DbTypes /\ CallTypes /\ CallShape
  BY TypeSplit DEF Inv1
<1>. USE <1>0
<1>1. ASSUME NEW p \in Policies, NEW s \in Schedules, CreatePolicy(p, s) PROVE DbTypes'
  BY <1>1 DEF CreatePolicy, DbTypes
<1>2. ASSUME NEW p \in Policies, DeletePolicy(p) PROVE DbTypes'
  BY <1>2 DEF DeletePolicy, DbTypes
<1>3. ASSUME NEW c \in Callers, SavePolicy(c) PROVE DbTypes'
  BY <1>3 DEF SavePolicy, DbTypes, CallShape, Shape
<1>4. ASSUME NEW c \in Callers, NEW q \in Plans, NEW p \in PolicyId, NEW en \in BOOLEAN,
             CreatePlan(c, q, p, en)
      PROVE  DbTypes'
  BY <1>4 DEF CreatePlan, DbTypes, Life
<1>5. ASSUME NEW c \in Callers, WritePlan(c) PROVE DbTypes'
  <2>1. PICK q, p, en : q = call[c].plan /\ p = call[c].policy /\ en = call[c].enabled
    OBVIOUS
  <2>2. p \in PolicyId /\ en \in BOOLEAN
    BY <2>1 DEF CallTypes, CallType
  <2>3. plans' = [plans EXCEPT ![q].policy = p, ![q].enabled = en] /\ UNCHANGED policies
    BY <1>5, <2>1 DEF WritePlan
  <2>4. plans' \in [Plans -> [life : Life, policy : PolicyId, enabled : BOOLEAN]]
    BY <2>2, <2>3 DEF DbTypes
  <2>. QED  BY <2>3, <2>4 DEF DbTypes
<1>6. ASSUME NEW c \in Callers, ErasePlan(c) PROVE DbTypes'
  BY <1>6 DEF ErasePlan, DbTypes, Life
<1>7. ASSUME UNCHANGED <<policies, plans>> PROVE DbTypes'
  BY <1>7 DEF DbTypes
<1>8. CASE UNCHANGED vars
  BY <1>7, <1>8 DEF vars
<1>9. ASSUME NEW c \in Callers,
             \/ RemoveFromTrigger(c) \/ RemoveRefused(c) \/ StopEntry(c) \/ AddToTrigger(c)
             \/ AddRefused(c) \/ LookupFails(c) \/ StartEntry(c) \/ EntryBroken(c)
             \/ DbRefuses(c) \/ SaveFails(c)
      PROVE  DbTypes'
  BY <1>7, <1>9 DEF RemoveFromTrigger, RemoveRefused, StopEntry, AddToTrigger, AddRefused,
     LookupFails,
     StartEntry, EntryBroken, DbRefuses, SaveFails
<1>10. ASSUME NEW c \in Callers,
              \/ \E p \in Policies, s \in Schedules : ReadPolicy(c, p, s)
              \/ \E q \in Plans : BeginDelete(c, q) \/ DeleteMisread(c, q)
              \/ \E q \in Plans, p \in PolicyId, en, named \in BOOLEAN : BeginUpdate(c, q, p, en, named)
       PROVE  DbTypes'
  BY <1>7, <1>10 DEF ReadPolicy, BeginDelete, DeleteMisread, BeginUpdate
<1>11. CASE Restart
  BY <1>7, <1>11 DEF Restart
<1>. QED
  BY <1>1, <1>2, <1>3, <1>4, <1>5, <1>6, <1>8, <1>9, <1>10, <1>11 DEF Next, PolicyCall,
     PlanCall

LEMMA TriggerTypesStep == Inv1 /\ [Next]_vars => TriggerTypes'
<1>. SUFFICES ASSUME Inv1, [Next]_vars PROVE TriggerTypes'
  OBVIOUS
<1>0. TriggerTypes /\ CallTypes /\ CallShape
  BY TypeSplit DEF Inv1
<1>1. ASSUME NEW c \in Callers, StopEntry(c) PROVE TriggerTypes'
  <2>1. made \in Nat /\ made' = made /\ 0 \in 0..made
    BY <1>0, <1>1, MaxCronsAssumption DEF StopEntry, TriggerTypes
  <2>2. entry' \in [Plans -> 0..made]
    BY <1>0, <1>1, <2>1 DEF StopEntry, TriggerTypes
  <2>3. running' \subseteq running
    BY <1>1 DEF StopEntry, Stopped
  <2>. QED  BY <1>0, <2>1, <2>2, <2>3 DEF TriggerTypes
<1>2. ASSUME NEW c \in Callers, call[c].step = "start", made < MaxCrons,
             made' = made + 1, entry' = [entry EXCEPT ![call[c].plan] = NewEntry],
             \/ running' = running
             \/ /\ call[c].sched \notin Broken
                /\ running' = running \cup {[id |-> NewEntry, plan |-> call[c].plan,
                                             sched |-> call[c].sched]}
      PROVE  TriggerTypes'
  <2>1. call[c].plan \in Plans /\ call[c].sched \in Schedules
    BY <1>0, <1>2 DEF CallShape, Shape, CallTypes, CallType
  <2>2. made \in Nat /\ made' \in 0..MaxCrons /\ NewEntry \in 1..made'
    BY <1>0, <1>2, MaxCronsAssumption DEF TriggerTypes, NewEntry
  <2>3. entry \in [Plans -> 0..made']
    BY <1>0, <1>2, <2>2 DEF TriggerTypes
  <2>4. running \subseteq [id : 1..made', plan : Plans, sched : Schedules \ Broken]
    BY <1>0, <1>2, <2>2 DEF TriggerTypes
  <2>5. entry' \in [Plans -> 0..made']
    <3>1. NewEntry \in 0..made'
      BY <2>2
    <3>. QED  BY <1>2, <2>3, <3>1
  <2>6. running' \subseteq [id : 1..made', plan : Plans, sched : Schedules \ Broken]
    BY <1>2, <2>1, <2>2, <2>4
  <2>. QED  BY <2>2, <2>5, <2>6 DEF TriggerTypes
<1>3. ASSUME NEW c \in Callers, StartEntry(c) \/ EntryBroken(c) PROVE TriggerTypes'
  BY <1>2, <1>3 DEF StartEntry, EntryBroken
<1>4. ASSUME UNCHANGED trigger PROVE TriggerTypes'
  BY <1>0, <1>4 DEF TriggerTypes, trigger
<1>5. CASE UNCHANGED vars
  BY <1>4, <1>5 DEF vars, trigger
<1>6. ASSUME NEW c \in Callers,
             \/ RemoveFromTrigger(c) \/ RemoveRefused(c) \/ AddToTrigger(c) \/ AddRefused(c)
             \/ LookupFails(c)
             \/ WritePlan(c) \/ ErasePlan(c) \/ DbRefuses(c) \/ SavePolicy(c) \/ SaveFails(c)
      PROVE  TriggerTypes'
  BY <1>4, <1>6 DEF RemoveFromTrigger, RemoveRefused, AddToTrigger, AddRefused, LookupFails,
     WritePlan,
     ErasePlan, DbRefuses, SavePolicy, SaveFails
<1>7. ASSUME \/ \E p \in Policies, s \in Schedules : CreatePolicy(p, s)
             \/ \E p \in Policies : DeletePolicy(p)
      PROVE  TriggerTypes'
  BY <1>4, <1>7 DEF CreatePolicy, DeletePolicy
<1>8. ASSUME NEW c \in Callers,
             \/ \E p \in Policies, s \in Schedules : ReadPolicy(c, p, s)
             \/ \E q \in Plans : BeginDelete(c, q) \/ DeleteMisread(c, q)
             \/ \E q \in Plans, p \in PolicyId, en \in BOOLEAN : CreatePlan(c, q, p, en)
             \/ \E q \in Plans, p \in PolicyId, en, named \in BOOLEAN : BeginUpdate(c, q, p, en, named)
      PROVE  TriggerTypes'
  BY <1>4, <1>8 DEF ReadPolicy, BeginDelete, DeleteMisread, BeginUpdate, CreatePlan
<1>9. CASE Restart
  BY <1>9, MaxCronsAssumption DEF Restart, TriggerTypes
<1>. QED
  BY <1>1, <1>3, <1>5, <1>6, <1>7, <1>8, <1>9 DEF Next, PolicyCall, PlanCall

\* Each step of a call puts a well-formed record in its place.
LEMMA CallTypesStep == Inv1 /\ [Next]_vars => CallTypes'
<1>. SUFFICES ASSUME Inv1, [Next]_vars PROVE CallTypes'
  OBVIOUS
<1>0. DbTypes /\ CallTypes /\ CallShape
  BY TypeSplit DEF Inv1
<1>1. Idle \in CallType
  BY DEF Idle, CallType, Op, Step, PolicyId
<1>2. ASSUME NEW c \in Callers, NEW r \in CallType, call' = [call EXCEPT ![c] = r]
      PROVE  CallTypes'
  BY <1>0, <1>2 DEF CallTypes
<1>3. ASSUME NEW c \in Callers, NEW s \in Step, Goto(c, s) PROVE CallTypes'
  BY <1>0, <1>3 DEF Goto, CallTypes, CallType
<1>4. ASSUME NEW c \in Callers, NEW r, Return(c, r) PROVE CallTypes'
  BY <1>1, <1>2, <1>4 DEF Return
<1>5. ASSUME UNCHANGED call PROVE CallTypes'
  BY <1>0, <1>5 DEF CallTypes
<1>6. ASSUME NEW c \in Callers, NEW op \in Op, NEW s \in Step, NEW q \in Plans,
             NEW p \in PolicyId, NEW en \in BOOLEAN, Begin(c, op, s, q, p, en)
      PROVE  CallTypes'
  <2>1. [op |-> op, step |-> s, plan |-> q, policy |-> p, enabled |-> en, sched |-> None]
          \in CallType
    BY DEF CallType
  <2>. QED  BY <1>2, <1>6, <2>1 DEF Begin
<1>7. ASSUME NEW c \in Callers, call[c].step \in {"remove", "stop"} PROVE AfterRemove(c) \in Step
  BY <1>0, <1>7 DEF AfterRemove, CallShape, Shape, Step
<1>8. ASSUME \/ \E p \in Policies, s \in Schedules : CreatePolicy(p, s)
             \/ \E p \in Policies : DeletePolicy(p)
             \/ UNCHANGED vars
      PROVE  CallTypes'
  BY <1>5, <1>8 DEF CreatePolicy, DeletePolicy, vars
<1>9. ASSUME NEW c \in Callers, NEW p \in Policies, NEW s \in Schedules, ReadPolicy(c, p, s)
      PROVE  CallTypes'
  <2>1. [op |-> "policy", step |-> "save", plan |-> None, policy |-> p, enabled |-> FALSE,
         sched |-> s] \in CallType
    BY DEF CallType, Op, Step, PolicyId
  <2>. QED  BY <1>2, <1>9, <2>1 DEF ReadPolicy
<1>10. ASSUME NEW c \in Callers, NEW q \in Plans, NEW p \in PolicyId, NEW en \in BOOLEAN,
              CreatePlan(c, q, p, en)
       PROVE  CallTypes'
  <2>1. "create" \in Op /\ "lookup" \in Step
    BY DEF Op, Step
  <2>. QED  BY <1>5, <1>6, <1>10, <2>1 DEF CreatePlan
<1>11. ASSUME NEW c \in Callers, NEW q \in Plans, NEW p \in PolicyId, NEW en \in BOOLEAN,
              NEW named \in BOOLEAN, BeginUpdate(c, q, p, en, named)
       PROVE  CallTypes'
  <2>1. "update" \in Op /\ (IF named THEN "remove" ELSE "write") \in Step
    BY DEF Op, Step
  <2>. QED  BY <1>6, <1>11, <2>1 DEF BeginUpdate
<1>12. ASSUME NEW c \in Callers, NEW q \in Plans, BeginDelete(c, q) PROVE CallTypes'
  <2>1. "delete" \in Op /\ DeleteBegins(q) \in Step
    BY DEF Op, Step, DeleteBegins
  <2>2. plans[q].policy \in PolicyId /\ plans[q].enabled \in BOOLEAN
    BY <1>0 DEF DbTypes
  <2>. QED  BY <1>6, <1>12, <2>1, <2>2 DEF BeginDelete
<1>a. ASSUME NEW c \in Callers, NEW q \in Plans, DeleteMisread(c, q) PROVE CallTypes'
  <2>1. "delete" \in Op /\ "erase" \in Step /\ None \in PolicyId
    BY DEF Op, Step, PolicyId
  <2>. QED  BY <1>6, <1>a, <2>1 DEF DeleteMisread
<1>13. ASSUME NEW c \in Callers, SavePolicy(c) \/ SaveFails(c) PROVE CallTypes'
  BY <1>1, <1>2, <1>13 DEF SavePolicy, SaveFails
<1>14. ASSUME NEW c \in Callers, RemoveFromTrigger(c) PROVE CallTypes'
  <2>1. "stop" \in Step
    BY DEF Step
  <2>. QED  BY <1>3, <1>14, <2>1 DEF RemoveFromTrigger
<1>15. ASSUME NEW c \in Callers, RemoveRefused(c) \/ StopEntry(c) \/ LookupFails(c) PROVE CallTypes'
  BY <1>3, <1>4, <1>7, <1>15 DEF RemoveRefused, StopEntry, LookupFails
<1>16. ASSUME NEW c \in Callers, AddToTrigger(c) PROVE CallTypes'
  <2>1. policies[call[c].policy] \in Schedules
    BY <1>16 DEF AddToTrigger, HasTrigger, Visible, Exists, Existing
  <2>2. PICK x : x = policies[call[c].policy]
    OBVIOUS
  <2>3. PICK r : r = [call[c] EXCEPT !.step = "start", !.sched = x]
    OBVIOUS
  <2>4. "start" \in Step /\ call[c] \in CallType
    BY <1>0 DEF CallTypes, Step
  <2>5. r \in CallType
    BY <2>1, <2>2, <2>3, <2>4 DEF CallType
  <2>6. call' = [call EXCEPT ![c] = r]
    BY <1>0, <1>16, <2>2, <2>3 DEF AddToTrigger, CallTypes
  <2>. QED  BY <1>2, <2>5, <2>6
<1>17. ASSUME NEW c \in Callers, StartEntry(c) PROVE CallTypes'
  <2>1. "write" \in Step
    BY DEF Step
  <2>. QED  BY <1>3, <1>4, <1>17, <2>1 DEF StartEntry
<1>18. ASSUME NEW c \in Callers,
              AddRefused(c) \/ EntryBroken(c) \/ WritePlan(c) \/ ErasePlan(c) \/ DbRefuses(c)
       PROVE  CallTypes'
  BY <1>4, <1>18 DEF AddRefused, LookupFails, EntryBroken, WritePlan, ErasePlan, DbRefuses
<1>19. CASE Restart
  BY <1>1, <1>19 DEF Restart, CallTypes
<1>. QED
  BY <1>8, <1>9, <1>10, <1>11, <1>12, <1>a, <1>13, <1>14, <1>15, <1>16, <1>17, <1>18, <1>19
  DEF Next, PolicyCall, PlanCall

-----------------------------------------------------------------------------
\* What a step of a call on a plan writes, and which step does ...
LEMMA PlanCallWrites ==
  ASSUME NEW c \in Callers, PlanCall(c)
  PROVE  /\ clean' \subseteq clean /\ UNCHANGED policies
         /\ UNCHANGED stuck \/ RemoveRefused(c)
         /\ UNCHANGED plans \/ WritePlan(c) \/ ErasePlan(c)
         /\ running' \subseteq running \/ StartEntry(c)
<1>1. CASE RemoveFromTrigger(c)
  BY <1>1 DEF RemoveFromTrigger, trigger
<1>2. CASE RemoveRefused(c)
  BY <1>2 DEF RemoveRefused, Return, trigger
<1>3. CASE StopEntry(c)
  BY <1>3 DEF StopEntry, Stopped
<1>4. CASE AddToTrigger(c)
  BY <1>4 DEF AddToTrigger, trigger
<1>5. CASE AddRefused(c)
  BY <1>5 DEF AddRefused, Return, trigger
<1>6. CASE LookupFails(c)
  BY <1>6 DEF LookupFails, Return, trigger
<1>7. CASE StartEntry(c)
  BY <1>7 DEF StartEntry, Return
<1>8. CASE EntryBroken(c)
  BY <1>8 DEF EntryBroken, Return
<1>9. CASE WritePlan(c)
  BY <1>9 DEF WritePlan, Return, trigger
<1>10. CASE ErasePlan(c)
  BY <1>10 DEF ErasePlan, Return, trigger
<1>11. CASE DbRefuses(c)
  BY <1>11 DEF DbRefuses, Return, trigger
<1>. QED
  BY <1>1, <1>2, <1>3, <1>4, <1>5, <1>6, <1>7, <1>8, <1>9, <1>10, <1>11 DEF PlanCall

\* ... and what any other step writes.
LEMMA OtherWrites ==
  ASSUME [Next]_vars, \A c \in Callers : ~PlanCall(c)
  PROVE  /\ clean' \subseteq clean /\ running' \subseteq running
         /\ UNCHANGED trigger \/ Restart
         /\ UNCHANGED stuck \/ \E q \in Plans : stuck' = stuck \cup {q}
         /\ \/ UNCHANGED policies
            \/ \E p \in Policies, s \in Schedules : CreatePolicy(p, s)
            \/ \E p \in Policies : DeletePolicy(p)
            \/ \E c \in Callers : SavePolicy(c)
         /\ \/ UNCHANGED plans
            \/ \E c \in Callers, q \in Plans, p \in PolicyId, en \in BOOLEAN :
                 CreatePlan(c, q, p, en)
<1>1. CASE \/ \E p \in Policies, s \in Schedules : CreatePolicy(p, s)
           \/ \E p \in Policies : DeletePolicy(p)
  BY <1>1 DEF CreatePolicy, DeletePolicy, trigger
<1>2. CASE \E c \in Callers, p \in Policies, s \in Schedules : ReadPolicy(c, p, s)
  BY <1>2 DEF ReadPolicy, trigger
<1>3. CASE \E c \in Callers, q \in Plans, p \in PolicyId, en \in BOOLEAN : CreatePlan(c, q, p, en)
  BY <1>3 DEF CreatePlan, trigger
<1>4. CASE \E c \in Callers, q \in Plans, p \in PolicyId, en \in BOOLEAN, named \in BOOLEAN :
             BeginUpdate(c, q, p, en, named)
  BY <1>4 DEF BeginUpdate, trigger
<1>5. CASE \E c \in Callers, q \in Plans : BeginDelete(c, q)
  BY <1>5 DEF BeginDelete, trigger
<1>a. CASE \E c \in Callers, q \in Plans : DeleteMisread(c, q)
  BY <1>a DEF DeleteMisread, trigger
<1>6. CASE \E c \in Callers : SavePolicy(c)
  BY <1>6 DEF SavePolicy, trigger
<1>7. CASE \E c \in Callers : SaveFails(c)
  BY <1>7 DEF SaveFails, trigger
<1>8. CASE Restart
  BY <1>8 DEF Restart
<1>9. CASE UNCHANGED vars
  BY <1>9 DEF vars, trigger
<1>. QED
  BY <1>1, <1>2, <1>3, <1>4, <1>5, <1>a, <1>6, <1>7, <1>8, <1>9 DEF Next, PolicyCall

\* No plan becomes clean again.
LEMMA CleanShrinks == [Next]_vars => clean' \subseteq clean
BY PlanCallWrites, OtherWrites

LEMMA HistoryTypesStep == Inv1 /\ [Next]_vars => HistoryTypes'
<1>. SUFFICES ASSUME Inv1, [Next]_vars PROVE HistoryTypes'
  OBVIOUS
<1>0. CallTypes /\ CallShape /\ HistoryTypes
  BY TypeSplit DEF Inv1
<1>1. clean' \subseteq clean
  BY CleanShrinks
<1>2. ASSUME NEW c \in Callers, RemoveRefused(c) PROVE stuck' \subseteq Plans
  <2>1. call[c].plan \in Plans
    BY <1>0, <1>2 DEF RemoveRefused, CallShape, Shape, CallTypes, CallType
  <2>. QED  BY <1>0, <1>2, <2>1 DEF RemoveRefused, HistoryTypes
<1>3. \/ \E c \in Callers : RemoveRefused(c)
      \/ stuck' = stuck \/ \E q \in Plans : stuck' = stuck \cup {q}
  BY PlanCallWrites, OtherWrites
<1>. QED  BY <1>0, <1>1, <1>2, <1>3 DEF HistoryTypes

\* Plans and policies that were created stay known.
LEMMA Grows ==
  Inv1 /\ [Next]_vars => /\ Issued \subseteq Issued'
                        /\ \A q \in Plans : plans[q].life # "unborn" => plans'[q].life # "unborn"
<1>. SUFFICES ASSUME Inv1, [Next]_vars
     PROVE  /\ \A p \in Policies : policies[p] # "unborn" => policies'[p] # "unborn"
            /\ \A q \in Plans : plans[q].life # "unborn" => plans'[q].life # "unborn"
  BY DEF Issued
<1>0. DbTypes /\ CallTypes /\ CallShape
  BY TypeSplit DEF Inv1
<1>1. \/ UNCHANGED policies
      \/ \E p \in Policies, s \in Schedules : policies' = [policies EXCEPT ![p] = s]
      \/ \E p \in Policies : policies' = [policies EXCEPT ![p] = "deleted"]
  <2>1. ASSUME NEW c \in Callers, SavePolicy(c)
        PROVE  \E p \in Policies, s \in Schedules : policies' = [policies EXCEPT ![p] = s]
    BY <1>0, <2>1 DEF SavePolicy, CallShape, Shape
  <2>2. ASSUME NEW p \in Policies, NEW s \in Schedules, CreatePolicy(p, s)
        PROVE  policies' = [policies EXCEPT ![p] = s]
    BY <2>2 DEF CreatePolicy
  <2>3. ASSUME NEW p \in Policies, DeletePolicy(p)
        PROVE  policies' = [policies EXCEPT ![p] = "deleted"]
    BY <2>3 DEF DeletePolicy
  <2>. QED  BY <2>1, <2>2, <2>3, PlanCallWrites, OtherWrites
<1>2. \A p \in Policies : policies[p] # "unborn" => policies'[p] # "unborn"
  BY <1>0, <1>1, ScheduleAssumption DEF DbTypes
<1>3. ASSUME NEW c \in Callers, NEW q \in Plans, NEW p \in PolicyId, NEW en \in BOOLEAN,
             CreatePlan(c, q, p, en)
      PROVE  \A x \in Plans : plans[x].life # "unborn" => plans'[x].life # "unborn"
  BY <1>0, <1>3 DEF CreatePlan, DbTypes
<1>4. ASSUME NEW c \in Callers, WritePlan(c) \/ ErasePlan(c)
      PROVE  \A x \in Plans : plans[x].life # "unborn" => plans'[x].life # "unborn"
  BY <1>0, <1>4 DEF WritePlan, ErasePlan, DbTypes
<1>5. \/ UNCHANGED plans
      \/ \E c \in Callers, q \in Plans, p \in PolicyId, en \in BOOLEAN : CreatePlan(c, q, p, en)
      \/ \E c \in Callers : WritePlan(c) \/ ErasePlan(c)
  BY PlanCallWrites, OtherWrites
<1>. QED  BY <1>2, <1>3, <1>4, <1>5

LEMMA CallShapeStep == Inv1 /\ [Next]_vars => CallShape'
<1>. SUFFICES ASSUME Inv1, [Next]_vars PROVE CallShape'
  OBVIOUS
<1>0. DbTypes /\ CallTypes /\ CallShape
  BY TypeSplit DEF Inv1
<1>1. ASSUME NEW r \in CallType, Shape(r) PROVE Shape(r)'
  BY <1>1, Grows DEF Shape, CallType
<1>2. ASSUME NEW c \in Callers, NEW r, Shape(r)', call' = [call EXCEPT ![c] = r] PROVE CallShape'
  BY <1>0, <1>2, <1>1 DEF CallShape, CallTypes
<1>3. ASSUME UNCHANGED call PROVE CallShape'
  BY <1>0, <1>1, <1>3 DEF CallShape, CallTypes
<1>4. ASSUME NEW c \in Callers, NEW s \in Step, Goto(c, s), Shape([call[c] EXCEPT !.step = s])
      PROVE  CallShape'
  <2>1. PICK r \in CallType : r = [call[c] EXCEPT !.step = s]
    BY <1>0 DEF CallTypes, CallType
  <2>2. Shape(r)'
    BY <1>1, <1>4, <2>1
  <2>3. call' = [call EXCEPT ![c] = r]
    BY <1>0, <1>4, <2>1 DEF Goto, CallTypes
  <2>. QED  BY <1>2, <2>2, <2>3
<1>5. ASSUME NEW c \in Callers, NEW r, Return(c, r) PROVE CallShape'
  <2>1. Shape(Idle)'
    BY DEF Shape, Idle
  <2>. QED  BY <1>2, <1>5, <2>1 DEF Return
<1>6. ASSUME \/ \E p \in Policies, s \in Schedules : CreatePolicy(p, s)
             \/ \E p \in Policies : DeletePolicy(p)
             \/ UNCHANGED vars
      PROVE  CallShape'
  BY <1>3, <1>6 DEF CreatePolicy, DeletePolicy, vars
<1>7. ASSUME NEW c \in Callers, NEW p \in Policies, NEW s \in Schedules, ReadPolicy(c, p, s)
      PROVE  CallShape'
  <2>1. PICK r : r = [op |-> "policy", step |-> "save", plan |-> None, policy |-> p,
                      enabled |-> FALSE, sched |-> s]
    OBVIOUS
  <2>2. Shape(r)'
    BY <2>1 DEF Shape
  <2>. QED  BY <1>2, <1>7, <2>1, <2>2 DEF ReadPolicy
<1>8. ASSUME NEW c \in Callers, NEW op, NEW s, NEW q \in Plans,
             NEW p \in Issued', NEW en, Begin(c, op, s, q, p, en), plans'[q].life # "unborn",
             \/ s = "remove" /\ op \in {"update", "delete"}
             \/ s = "lookup" /\ op = "create" /\ Scheduled(p, en)
             \/ s = "write" /\ op = "update"
             \/ s = "erase" /\ op = "delete"
      PROVE  CallShape'
  <2>1. PICK r : r = [op |-> op, step |-> s, plan |-> q, policy |-> p, enabled |-> en,
                      sched |-> None]
    OBVIOUS
  <2>2. Shape(r)'
    BY <1>8, <2>1, NoneAssumption DEF Shape, Scheduled
  <2>. QED  BY <1>2, <1>8, <2>1, <2>2 DEF Begin
<1>9. ASSUME NEW c \in Callers, NEW q \in Plans, NEW p \in PolicyId, NEW en \in BOOLEAN,
             CreatePlan(c, q, p, en)
      PROVE  CallShape'
  <2>1. p \in Issued'
    BY <1>9, Grows, ScheduleAssumption DEF CreatePlan, Existing, Issued
  <2>2. plans'[q].life # "unborn"
    BY <1>0, <1>9 DEF CreatePlan, DbTypes
  <2>. QED  BY <1>3, <1>8, <1>9, <2>1, <2>2 DEF CreatePlan
<1>10. ASSUME NEW c \in Callers, NEW q \in Plans, NEW p \in PolicyId, NEW en \in BOOLEAN,
              NEW named \in BOOLEAN, BeginUpdate(c, q, p, en, named)
       PROVE  CallShape'
  <2>1. p \in Issued' /\ plans'[q].life # "unborn"
    BY <1>10, Grows DEF BeginUpdate, Readable
  <2>. QED  BY <1>8, <1>10, <2>1 DEF BeginUpdate
<1>11. ASSUME NEW c \in Callers, NEW q \in Plans, BeginDelete(c, q) PROVE CallShape'
  <2>1. plans[q].policy \in Issued' /\ plans'[q].life # "unborn"
    BY <1>11, Grows, ScheduleAssumption DEF BeginDelete, Readable, Existing, Issued
  <2>. QED  BY <1>8, <1>11, <2>1 DEF BeginDelete, DeleteBegins
<1>a. ASSUME NEW c \in Callers, NEW q \in Plans, DeleteMisread(c, q) PROVE CallShape'
  <2>1. None \in Issued' /\ plans'[q].life # "unborn"
    BY <1>a DEF DeleteMisread, Issued
  <2>. QED  BY <1>8, <1>a, <2>1 DEF DeleteMisread
<1>12. ASSUME NEW c \in Callers, SavePolicy(c) \/ SaveFails(c) PROVE CallShape'
  <2>1. Shape(Idle)'
    BY DEF Shape, Idle
  <2>. QED  BY <1>2, <1>12, <2>1 DEF SavePolicy, SaveFails
<1>13. ASSUME NEW c \in Callers, RemoveFromTrigger(c) PROVE CallShape'
  <2>1. "stop" \in Step /\ Shape([call[c] EXCEPT !.step = "stop"])
    BY <1>0, <1>13 DEF RemoveFromTrigger, CallShape, Shape, CallTypes, CallType, Step
  <2>. QED  BY <1>4, <1>13, <2>1 DEF RemoveFromTrigger
<1>14. ASSUME NEW c \in Callers, RemoveRefused(c) \/ StopEntry(c) \/ LookupFails(c) PROVE CallShape'
  <2>1. call[c].step \in {"remove", "stop"} \/ Return(c, "error")
    BY <1>14 DEF RemoveRefused, StopEntry, LookupFails
  <2>2. ASSUME call[c].step \in {"remove", "stop"}
        PROVE  AfterRemove(c) \in Step /\ Shape([call[c] EXCEPT !.step = AfterRemove(c)])
    BY <1>0, <2>2 DEF AfterRemove, CallShape, Shape, CallTypes, CallType, Step
  <2>. QED  BY <1>4, <1>5, <1>14, <2>1, <2>2 DEF RemoveRefused, StopEntry, LookupFails
<1>15. ASSUME NEW c \in Callers, AddToTrigger(c) PROVE CallShape'
  <2>1. policies[call[c].policy] \in Schedules
    BY <1>15 DEF AddToTrigger, HasTrigger, Visible, Exists, Existing
  <2>2. PICK r \in CallType :
          r = [call[c] EXCEPT !.step = "start", !.sched = policies[call[c].policy]]
    BY <1>0, <2>1 DEF CallTypes, CallType, Step
  <2>3. Shape(r)
    BY <1>0, <1>15, <2>1, <2>2 DEF AddToTrigger, CallShape, Shape, CallTypes, CallType
  <2>4. call' = [call EXCEPT ![c] = r]
    BY <1>0, <1>15, <2>2 DEF AddToTrigger, CallTypes
  <2>. QED  BY <1>1, <1>2, <2>3, <2>4
<1>16. ASSUME NEW c \in Callers, StartEntry(c) PROVE CallShape'
  <2>1. CASE call[c].op = "create"
    BY <1>5, <1>16, <2>1 DEF StartEntry
  <2>2. CASE call[c].op # "create"
    <3>1. "write" \in Step /\ Shape([call[c] EXCEPT !.step = "write"])
      BY <1>0, <1>16, <2>2 DEF StartEntry, CallShape, Shape, CallTypes, CallType, Step
    <3>. QED  BY <1>4, <1>16, <2>2, <3>1 DEF StartEntry
  <2>. QED  BY <2>1, <2>2
<1>17. ASSUME NEW c \in Callers,
              AddRefused(c) \/ EntryBroken(c) \/ WritePlan(c) \/ ErasePlan(c) \/ DbRefuses(c)
       PROVE  CallShape'
  BY <1>5, <1>17 DEF AddRefused, LookupFails, EntryBroken, WritePlan, ErasePlan, DbRefuses
<1>18. CASE Restart
  BY <1>18 DEF Restart, CallShape, Shape, Idle
<1>. QED
  BY <1>6, <1>7, <1>9, <1>10, <1>11, <1>a, <1>12, <1>13, <1>14, <1>15, <1>16, <1>17, <1>18
  DEF Next, PolicyCall, PlanCall

LEMMA UnbornQuietStep == Inv1 /\ [Next]_vars => UnbornQuiet'
<1>. SUFFICES ASSUME Inv1, [Next]_vars, NEW q \in Plans, plans'[q].life = "unborn", Fires(q)'
     PROVE  FALSE
  BY DEF UnbornQuiet
<1>0. CallShape /\ UnbornQuiet
  BY DEF Inv1
<1>1. plans[q].life = "unborn" /\ ~Fires(q)
  BY <1>0, Grows DEF UnbornQuiet
<1>2. PICK k \in running' : k.plan = q
  BY DEF Fires
<1>3. PICK c \in Callers : StartEntry(c)
  BY <1>1, <1>2, PlanCallWrites, OtherWrites DEF Fires
<1>. QED  BY <1>0, <1>1, <1>2, <1>3 DEF StartEntry, Fires, CallShape, Shape

LEMMA Inv1Step == Inv1 /\ [Next]_vars => Inv1'
BY DbTypesStep, TriggerTypesStep, CallTypesStep, HistoryTypesStep, CallShapeStep,
   UnbornQuietStep, TypeSplit DEF Inv1, TypeOK, DbTypes, TriggerTypes, CallTypes, HistoryTypes

\* The types of the variables, for any number of plans and callers.
THEOREM TypeCorrect == Spec => []TypeOK
<1>1. Inv1 => TypeOK
  BY DEF Inv1
<1>. QED  BY InitTypes, Inv1Step, <1>1, PTL DEF Spec

-----------------------------------------------------------------------------
\* A step that is not about plan q leaves everything about q as it is.
Untouched(q) ==
  /\ \A k : k.plan = q => (k \in running' <=> k \in running)
  /\ entry'[q] = entry[q] /\ plans'[q] = plans[q]
  /\ q \in clean' => q \in clean
  /\ q \in stuck => q \in stuck'
  /\ \A d \in Callers : call[d].plan = q \/ call'[d].plan = q => call'[d] = call[d]
  /\ \A d \in Callers, p \in PolicyId :
       call[d].plan = q /\ call[d].policy = p /\ q \in clean' /\ HasTrigger(p)' => HasTrigger(p)

LEMMA UntouchedKeeps ==
  ASSUME NEW q \in Plans, CallTypes, Untouched(q), PlanInv(q)
  PROVE  PlanInv(q)'
<1>. SUFFICES ASSUME q \in clean' PROVE PlanInv(q)'
  BY DEF PlanInv
<1>1. q \in clean /\ plans'[q] = plans[q] /\ entry'[q] = entry[q] /\ (q \in stuck => q \in stuck')
  BY DEF Untouched
<1>2. (Fires(q)' <=> Fires(q)) /\ (Due(q)' <=> Due(q))
  BY <1>1 DEF Untouched, Fires, Due
<1>3. Mapped(q)'
  BY <1>1 DEF Untouched, PlanInv, Mapped
<1>4. OneCall(q)' /\ (InCall(q)' <=> InCall(q))
  BY <1>1 DEF Untouched, PlanInv, OneCall, InCall
<1>5. Agrees(q) => Agrees(q)'
  BY <1>1, <1>2 DEF Agrees
<1>6. ASSUME NEW d \in Callers, call'[d].plan = q PROVE Ready(call[d])'
  <2>1. PICK r : r = call[d] /\ r = call'[d] /\ r.plan = q
    BY <1>6 DEF Untouched
  <2>2. Ready(r)
    BY <1>1, <2>1 DEF PlanInv
  <2>3. HasTrigger(r.policy)' => HasTrigger(r.policy)
    BY <1>6, <2>1 DEF Untouched, CallTypes, CallType
  <2>4. Ready(r)'
    BY <1>1, <1>2, <2>1, <2>2, <2>3 DEF Ready
  <2>. QED  BY <2>1, <2>4
<1>. QED  BY <1>1, <1>3, <1>4, <1>5, <1>6 DEF PlanInv

\* The steps that are about plan q.
PlanStep(q) ==
  \/ \E c \in Callers, p \in PolicyId, en \in BOOLEAN :
       CreatePlan(c, q, p, en) \/ \E named \in BOOLEAN : BeginUpdate(c, q, p, en, named)
  \/ \E c \in Callers : BeginDelete(c, q) \/ DeleteMisread(c, q)
  \/ \E c \in Callers : call[c].plan = q /\ PlanCall(c)

\* Policies only change for calls on other plans, or before the calls that name
\* them, or to no effect but that a trigger is missing.
LEMMA PolicyCalls ==
  ASSUME Inv1, [Next]_vars, NEW q \in Plans, NEW d \in Callers, NEW p \in PolicyId,
         call[d].plan = q, call[d].policy = p, q \in clean', HasTrigger(p)'
  PROVE  HasTrigger(p)
<1>0. DbTypes /\ CallShape
  BY TypeSplit DEF Inv1
<1>1. p \in Policies /\ policies[p] # "unborn" /\ policies'[p] \in Schedules
  BY <1>0, NoneAssumption DEF CallShape, Shape, Issued, HasTrigger, Visible, Exists, Existing
<1>2. ASSUME NEW x \in Policies, NEW s \in Schedules, CreatePolicy(x, s)
      PROVE  policies'[p] = policies[p]
  BY <1>0, <1>1, <1>2 DEF CreatePolicy, DbTypes
<1>3. ASSUME NEW x \in Policies, DeletePolicy(x) PROVE policies'[p] = policies[p]
  BY <1>0, <1>1, <1>3, ScheduleAssumption DEF DeletePolicy, DbTypes
<1>4. ASSUME NEW c \in Callers, SavePolicy(c) PROVE policies'[p] = policies[p]
  BY <1>0, <1>1, <1>4 DEF SavePolicy, Between, DbTypes
<1>5. policies'[p] = policies[p]
  BY <1>2, <1>3, <1>4, PlanCallWrites, OtherWrites
<1>. QED  BY <1>1, <1>5 DEF HasTrigger, Visible, Exists, Existing

\* Any other step leaves plan q alone, or is a restart.
LEMMA Elsewhere ==
  ASSUME Inv1, EntryIsOwn, [Next]_vars, NEW q \in Plans, ~PlanStep(q), ~Restart
  PROVE  Untouched(q)
<1>0. DbTypes /\ TriggerTypes /\ CallTypes /\ CallShape /\ HistoryTypes
  BY TypeSplit DEF Inv1
<1>1. ASSUME NEW c \in Callers, NEW r, r.plan # q, call[c].plan # q, call' = [call EXCEPT ![c] = r]
      PROVE  \A d \in Callers : call[d].plan = q \/ call'[d].plan = q => call'[d] = call[d]
  BY <1>0, <1>1 DEF CallTypes
<1>a. Idle.plan # q
  BY NoneAssumption DEF Idle
<1>2. ASSUME NEW c \in Callers, NEW r, Return(c, r), call[c].plan # q
      PROVE  \A d \in Callers : call[d].plan = q \/ call'[d].plan = q => call'[d] = call[d]
  BY <1>1, <1>2, <1>a DEF Return
<1>3. ASSUME NEW c \in Callers, NEW s, Goto(c, s), call[c].plan # q
      PROVE  \A d \in Callers : call[d].plan = q \/ call'[d].plan = q => call'[d] = call[d]
  BY <1>0, <1>3 DEF Goto, CallTypes, CallType
<1>4. ASSUME NEW c \in Callers, PlanCall(c)
      PROVE  \A d \in Callers : call[d].plan = q \/ call'[d].plan = q => call'[d] = call[d]
  <2>1. call[c].plan # q
    BY <1>4 DEF PlanStep
  <2>2. CASE AddToTrigger(c)
    BY <1>0, <2>1, <2>2 DEF AddToTrigger, CallTypes, CallType
  <2>. QED
    BY <1>2, <1>3, <1>4, <2>1, <2>2 DEF PlanCall, RemoveFromTrigger, RemoveRefused, StopEntry,
       AddRefused, LookupFails, StartEntry, EntryBroken, WritePlan, ErasePlan, DbRefuses
<1>5. ASSUME NEW c \in Callers, PolicyCall(c)
      PROVE  \A d \in Callers : call[d].plan = q \/ call'[d].plan = q => call'[d] = call[d]
  <2>1. call[c].plan # q
    BY <1>0, <1>5, NoneAssumption DEF PolicyCall, SavePolicy, SaveFails, CallShape, Shape
  <2>. QED  BY <1>1, <1>5, <1>a, <2>1 DEF PolicyCall, SavePolicy, SaveFails
<1>6. ASSUME NEW c \in Callers, ~Working(c), NEW r, r.plan # q, call' = [call EXCEPT ![c] = r]
      PROVE  \A d \in Callers : call[d].plan = q \/ call'[d].plan = q => call'[d] = call[d]
  BY <1>0, <1>1, <1>6, NoneAssumption DEF Working, CallShape, Shape
<1>b. ASSUME NEW c \in Callers, ~Working(c), NEW op, NEW s, NEW x, x # q, NEW p, NEW en,
             Begin(c, op, s, x, p, en)
      PROVE  \A d \in Callers : call[d].plan = q \/ call'[d].plan = q => call'[d] = call[d]
  <2>1. PICK r : r = [op |-> op, step |-> s, plan |-> x, policy |-> p, enabled |-> en,
                      sched |-> None]
    OBVIOUS
  <2>2. r.plan # q
    BY <1>b, <2>1
  <2>. QED  BY <1>6, <1>b, <2>1, <2>2 DEF Begin
<1>7. ASSUME NEW c \in Callers, NEW x \in Plans, NEW p \in PolicyId, NEW en \in BOOLEAN,
             CreatePlan(c, x, p, en) \/ \E named \in BOOLEAN : BeginUpdate(c, x, p, en, named)
      PROVE  \A d \in Callers : call[d].plan = q \/ call'[d].plan = q => call'[d] = call[d]
  <2>1. x # q
    BY <1>7 DEF PlanStep
  <2>. QED  BY <1>b, <1>7, <2>1 DEF CreatePlan, BeginUpdate
<1>8. ASSUME NEW c \in Callers, NEW x \in Plans, BeginDelete(c, x) \/ DeleteMisread(c, x)
      PROVE  \A d \in Callers : call[d].plan = q \/ call'[d].plan = q => call'[d] = call[d]
  <2>1. x # q
    BY <1>8 DEF PlanStep
  <2>. QED  BY <1>b, <1>8, <2>1 DEF BeginDelete, DeleteMisread
<1>9. ASSUME NEW c \in Callers, NEW p \in Policies, NEW s \in Schedules, ReadPolicy(c, p, s)
      PROVE  \A d \in Callers : call[d].plan = q \/ call'[d].plan = q => call'[d] = call[d]
  <2>1. PICK r : r = [op |-> "policy", step |-> "save", plan |-> None, policy |-> p,
                      enabled |-> FALSE, sched |-> s]
    OBVIOUS
  <2>2. r.plan # q
    BY <2>1, NoneAssumption
  <2>. QED  BY <1>6, <1>9, <2>1, <2>2 DEF ReadPolicy
<1>10. \A d \in Callers : call[d].plan = q \/ call'[d].plan = q => call'[d] = call[d]
  BY <1>4, <1>5, <1>7, <1>8, <1>9 DEF Next, CreatePolicy, DeletePolicy, vars
<1>11. ASSUME NEW c \in Callers, PlanCall(c)
       PROVE  (\A k : k.plan = q => (k \in running' <=> k \in running)) /\ entry'[q] = entry[q]
  <2>1. call[c].plan # q
    BY <1>11 DEF PlanStep
  <2>2. CASE StopEntry(c)
    <3>1. call[c].plan \in Plans
      BY <1>0, <2>2 DEF StopEntry, CallShape, Shape, CallTypes, CallType
    <3>. QED  BY <1>0, <2>1, <2>2, <3>1 DEF StopEntry, Stopped, EntryIsOwn, TriggerTypes
  <2>3. CASE StartEntry(c) \/ EntryBroken(c)
    BY <1>0, <2>1, <2>3 DEF StartEntry, EntryBroken, TriggerTypes
  <2>. QED
    BY <1>11, <2>2, <2>3 DEF PlanCall, trigger, RemoveFromTrigger, RemoveRefused,
       AddToTrigger,
       AddRefused, LookupFails, WritePlan, ErasePlan, DbRefuses
<1>12. (\A k : k.plan = q => (k \in running' <=> k \in running)) /\ entry'[q] = entry[q]
  BY <1>11, OtherWrites DEF trigger
<1>13. ASSUME NEW c \in Callers, NEW x \in Plans, NEW p \in PolicyId, NEW en \in BOOLEAN,
              CreatePlan(c, x, p, en)
       PROVE  plans'[q] = plans[q]
  BY <1>0, <1>13 DEF CreatePlan, PlanStep, DbTypes
<1>14. ASSUME NEW c \in Callers, PlanCall(c) PROVE plans'[q] = plans[q]
  BY <1>0, <1>14 DEF PlanStep, DbTypes, PlanCall, RemoveFromTrigger, RemoveRefused, StopEntry,
     AddToTrigger, AddRefused, LookupFails, StartEntry, EntryBroken, WritePlan, ErasePlan,
     DbRefuses
<1>15. plans'[q] = plans[q]
  BY <1>13, <1>14 DEF Next, vars, PolicyCall, CreatePolicy, DeletePolicy, ReadPolicy,
     SavePolicy,
     SaveFails, BeginUpdate, BeginDelete, DeleteMisread
<1>16. stuck \subseteq stuck'
  <2>1. ASSUME NEW c \in Callers, RemoveRefused(c) PROVE stuck \subseteq stuck'
    BY <2>1 DEF RemoveRefused
  <2>. QED  BY <2>1, PlanCallWrites, OtherWrites
<1>. QED  BY <1>10, <1>12, <1>15, <1>16, CleanShrinks, PolicyCalls DEF Untouched

\* Every step about plan q leaves its call ready, or q as the trigger has it.
LEMMA PlanSteps ==
  ASSUME Inv1, EntryIsOwn, NEW q \in Plans, PlanInv(q), PlanStep(q)
  PROVE  PlanInv(q)'
<1>0. DbTypes /\ TriggerTypes /\ CallTypes /\ CallShape /\ HistoryTypes /\ UnbornQuiet
  BY TypeSplit DEF Inv1
<1>. SUFFICES ASSUME q \in clean' PROVE PlanInv(q)'
  BY DEF PlanInv
<1>a. q \in clean
  BY DEF PlanStep, PlanCall, RemoveFromTrigger, RemoveRefused, StopEntry, AddToTrigger,
     AddRefused, LookupFails,
     StartEntry, EntryBroken, WritePlan, ErasePlan, DbRefuses, CreatePlan, BeginUpdate,
     BeginDelete, DeleteMisread, Return
<1>1. Mapped(q) /\ OneCall(q) /\ (\A c \in Callers : call[c].plan = q => Ready(call[c]))
      /\ (~InCall(q) => Agrees(q))
  BY <1>a DEF PlanInv
<1>2. ASSUME NEW c \in Callers, call[c].plan = q \/ ~InCall(q), NEW r, r.plan = q,
             call' = [call EXCEPT ![c] = r], Mapped(q)', Ready(r)'
      PROVE  PlanInv(q)'
  <2>1. \A d \in Callers : d # c => call'[d].plan # q
    BY <1>0, <1>1, <1>2 DEF OneCall, InCall, CallTypes
  <2>2. call'[c] = r
    BY <1>0, <1>2 DEF CallTypes
  <2>3. OneCall(q)' /\ InCall(q)'
    BY <1>2, <2>1, <2>2 DEF OneCall, InCall
  <2>4. \A d \in Callers : call'[d].plan = q => Ready(call[d])'
    BY <1>2, <2>1, <2>2
  <2>. QED  BY <1>2, <2>3, <2>4 DEF PlanInv
<1>3. ASSUME NEW c \in Callers, call[c].plan = q, call' = [call EXCEPT ![c] = Idle],
             Mapped(q)', Agrees(q)'
      PROVE  PlanInv(q)'
  <2>1. \A d \in Callers : call'[d].plan # q
    BY <1>0, <1>1, <1>3, NoneAssumption DEF OneCall, CallTypes, Idle
  <2>. QED  BY <1>3, <2>1 DEF PlanInv, OneCall, InCall
<1>4. ASSUME NEW c \in Callers, call[c].plan = q, Return(c, "error") PROVE FALSE
  BY <1>4 DEF Return
<1>5. ASSUME UNCHANGED trigger PROVE Mapped(q)' /\ (Fires(q)' <=> Fires(q))
  BY <1>1, <1>5 DEF trigger, Mapped, Fires
<1>6. ASSUME NEW c \in Callers, NEW p \in PolicyId, NEW en \in BOOLEAN, CreatePlan(c, q, p, en)
      PROVE  PlanInv(q)'
  <2>1. ~InCall(q) /\ ~Fires(q)
    BY <1>0, <1>6, NoneAssumption DEF CreatePlan, CallShape, Shape, InCall, UnbornQuiet
  <2>2. Mapped(q)' /\ ~Fires(q)'
    BY <1>5, <1>6, <2>1 DEF CreatePlan
  <2>3. Due(q)' <=> Scheduled(p, en)
    BY <1>0, <1>6 DEF CreatePlan, Due, DbTypes
  <2>4. CASE Scheduled(p, en)
    <3>1. PICK r : r = [op |-> "create", step |-> "lookup", plan |-> q, policy |-> p,
                        enabled |-> en, sched |-> None]
      OBVIOUS
    <3>2. Ready(r)'
      BY <2>2, <2>3, <2>4, <3>1 DEF Ready
    <3>. QED  BY <1>2, <1>6, <2>1, <2>2, <2>4, <3>1, <3>2 DEF CreatePlan, Begin
  <2>5. CASE ~Scheduled(p, en)
    <3>1. UNCHANGED call
      BY <1>6, <2>5 DEF CreatePlan
    <3>. QED  BY <2>1, <2>2, <2>3, <2>5, <3>1 DEF PlanInv, OneCall, InCall, Agrees
  <2>. QED  BY <2>4, <2>5
<1>7. ASSUME NEW c \in Callers, NEW p \in PolicyId, NEW en \in BOOLEAN, NEW named \in BOOLEAN,
             BeginUpdate(c, q, p, en, named)
      PROVE  PlanInv(q)'
  <2>1. ~InCall(q) /\ Agrees(q)
    BY <1>1, <1>7 DEF BeginUpdate
  <2>2. Mapped(q)' /\ (Fires(q)' <=> Fires(q)) /\ stuck' = stuck
    BY <1>5, <1>7 DEF BeginUpdate
  <2>3. PICK r : r = [op |-> "update", step |-> IF named THEN "remove" ELSE "write", plan |-> q,
                      policy |-> p, enabled |-> en, sched |-> None]
    OBVIOUS
  <2>4. ~named => (Due(q) <=> Scheduled(p, en))
    BY <1>7 DEF BeginUpdate, Due, Readable
  <2>5. Ready(r)'
    BY <2>1, <2>2, <2>3, <2>4 DEF Ready, Agrees
  <2>6. call' = [call EXCEPT ![c] = r]
    BY <1>7, <2>3 DEF BeginUpdate, Begin
  <2>. QED  BY <1>2, <2>1, <2>2, <2>3, <2>5, <2>6
<1>8. ASSUME NEW c \in Callers, BeginDelete(c, q) PROVE PlanInv(q)'
  <2>1. ~InCall(q) /\ Agrees(q)
    BY <1>1, <1>8 DEF BeginDelete
  <2>2. Mapped(q)' /\ (Fires(q)' <=> Fires(q)) /\ stuck' = stuck
    BY <1>5, <1>8 DEF BeginDelete
  <2>3. PICK r : r = [op |-> "delete", step |-> DeleteBegins(q), plan |-> q,
                      policy |-> plans[q].policy, enabled |-> plans[q].enabled, sched |-> None]
    OBVIOUS
  <2>4. DeleteBegins(q) = "remove" \/ (DeleteBegins(q) = "erase" /\ ~Due(q))
    BY DEF DeleteBegins, Due, Scheduled
  <2>5. Ready(r)'
    BY <2>1, <2>2, <2>3, <2>4 DEF Ready, Agrees
  <2>6. call' = [call EXCEPT ![c] = r]
    BY <1>8, <2>3 DEF BeginDelete, Begin
  <2>. QED  BY <1>2, <2>1, <2>2, <2>3, <2>5, <2>6
<1>b. ASSUME NEW c \in Callers, DeleteMisread(c, q) PROVE PlanInv(q)'
  <2>1. ~InCall(q) /\ Mapped(q)' /\ q \in stuck'
    BY <1>5, <1>b DEF DeleteMisread
  <2>2. PICK r : r = [op |-> "delete", step |-> "erase", plan |-> q, policy |-> None,
                      enabled |-> FALSE, sched |-> None]
    OBVIOUS
  <2>3. Ready(r)'
    BY <2>1, <2>2 DEF Ready
  <2>4. call' = [call EXCEPT ![c] = r]
    BY <1>b, <2>2 DEF DeleteMisread, Begin
  <2>. QED  BY <1>2, <2>1, <2>2, <2>3, <2>4
<1>9. ASSUME NEW c \in Callers, call[c].plan = q, RemoveFromTrigger(c) PROVE PlanInv(q)'
  <2>1. PICK r : r = [call[c] EXCEPT !.step = "stop"]
    OBVIOUS
  <2>2. call' = [call EXCEPT ![c] = r] /\ r.plan = q /\ r.step = "stop" /\ r.op # "create"
    BY <1>0, <1>9, <2>1 DEF RemoveFromTrigger, Goto, CallTypes, CallType, CallShape, Shape
  <2>3. Ready(r)'
    BY <2>2 DEF Ready
  <2>. QED  BY <1>2, <1>5, <1>9, <2>2, <2>3 DEF RemoveFromTrigger
<1>10. ASSUME NEW c \in Callers, call[c].plan = q, StopEntry(c) PROVE PlanInv(q)'
  <2>1. PICK r : r = [call[c] EXCEPT !.step = AfterRemove(c)]
    OBVIOUS
  <2>2. /\ call' = [call EXCEPT ![c] = r] /\ r.plan = q /\ r.op # "create"
        /\ r.step \in {"erase", "lookup", "write"}
        /\ r.step = "write" => ~Scheduled(r.policy, r.enabled)
    BY <1>0, <1>10, <2>1
    DEF StopEntry, AfterRemove, Goto, CallTypes, CallType, CallShape, Shape
  <2>3. ~Fires(q)'
    BY <1>1, <1>10 DEF StopEntry, Stopped, Mapped, Fires
  <2>4. Mapped(q)'
    BY <2>3 DEF Mapped, Fires
  <2>5. Ready(r)'
    BY <2>2, <2>3 DEF Ready
  <2>. QED  BY <1>2, <1>10, <2>2, <2>4, <2>5
<1>11. ASSUME NEW c \in Callers, call[c].plan = q, RemoveRefused(c) PROVE PlanInv(q)'
  <2>1. CASE call[c].op = "delete"
    BY <1>4, <1>11, <2>1 DEF RemoveRefused
  <2>2. CASE call[c].op # "delete"
    <3>1. PICK r : r = [call[c] EXCEPT !.step = AfterRemove(c)]
      OBVIOUS
    <3>2. /\ call' = [call EXCEPT ![c] = r] /\ r.plan = q /\ r.policy = call[c].policy
          /\ r.step \in {"lookup", "write"}
          /\ r.step = "write" => ~Scheduled(r.policy, r.enabled)
      BY <1>0, <1>11, <2>2, <3>1
      DEF RemoveRefused, AfterRemove, Goto, CallTypes, CallType, CallShape, Shape
    <3>3. q \in stuck' /\ ~HasTrigger(r.policy)'
      BY <1>11, <2>2, <3>2 DEF RemoveRefused, HasTrigger, Visible, Exists, Existing
    <3>4. Ready(r)'
      BY <3>2, <3>3 DEF Ready
    <3>. QED  BY <1>2, <1>5, <1>11, <3>2, <3>4 DEF RemoveRefused
  <2>. QED  BY <2>1, <2>2
<1>12. ASSUME NEW c \in Callers, call[c].plan = q, AddToTrigger(c) PROVE PlanInv(q)'
  <2>1. PICK r : r = [call[c] EXCEPT !.step = "start", !.sched = policies[call[c].policy]]
    OBVIOUS
  <2>2. call' = [call EXCEPT ![c] = r] /\ r.plan = q /\ r.step = "start" /\ r.op = call[c].op
    BY <1>0, <1>12, <2>1 DEF AddToTrigger, CallTypes, CallType
  <2>3. ~Fires(q) /\ (q \notin stuck /\ r.op = "create" => Due(q))
    BY <1>1, <1>12, <2>2 DEF AddToTrigger, Ready
  <2>4. ~Fires(q)' /\ (Due(q)' <=> Due(q)) /\ stuck' = stuck
    BY <1>5, <1>12, <2>3 DEF AddToTrigger, Due
  <2>5. Ready(r)'
    BY <2>2, <2>3, <2>4 DEF Ready
  <2>. QED  BY <1>2, <1>5, <1>12, <2>2, <2>5 DEF AddToTrigger
<1>13. ASSUME NEW c \in Callers, call[c].plan = q, StartEntry(c) PROVE PlanInv(q)'
  <2>1. ~Fires(q) /\ (q \notin stuck /\ call[c].op = "create" => Due(q))
    BY <1>1, <1>13 DEF StartEntry, Ready
  <2>2. Fires(q)'
    <3>1. PICK k : k = [id |-> NewEntry, plan |-> call[c].plan, sched |-> call[c].sched]
      OBVIOUS
    <3>2. k \in running' /\ k.plan = q
      BY <1>13, <3>1 DEF StartEntry
    <3>. QED  BY <3>2 DEF Fires
  <2>3. Mapped(q)'
    BY <1>0, <1>13, <2>1 DEF StartEntry, Mapped, Fires, TriggerTypes
  <2>4. CASE call[c].op = "create"
    <3>1. stuck' = stuck /\ (Due(q)' <=> Due(q))
      BY <1>13 DEF StartEntry, Due
    <3>2. Agrees(q)'
      BY <2>1, <2>2, <2>4, <3>1 DEF Agrees
    <3>. QED  BY <1>3, <1>13, <2>3, <2>4, <3>2 DEF StartEntry, Return
  <2>5. CASE call[c].op # "create"
    <3>1. PICK r : r = [call[c] EXCEPT !.step = "write"]
      OBVIOUS
    <3>2. /\ call' = [call EXCEPT ![c] = r] /\ r.plan = q /\ r.step = "write" /\ r.op # "create"
          /\ Scheduled(r.policy, r.enabled)
      BY <1>0, <1>13, <2>5, <3>1 DEF StartEntry, Goto, CallTypes, CallType, CallShape, Shape
    <3>3. Ready(r)'
      BY <2>2, <3>2 DEF Ready
    <3>. QED  BY <1>2, <1>13, <2>3, <3>2, <3>3
  <2>. QED  BY <2>4, <2>5
<1>14. ASSUME NEW c \in Callers, call[c].plan = q, WritePlan(c) PROVE PlanInv(q)'
  <2>1. Mapped(q)' /\ (Fires(q)' <=> Fires(q)) /\ stuck' = stuck
    BY <1>5, <1>14 DEF WritePlan
  <2>2. Due(q)' <=> Scheduled(call[c].policy, call[c].enabled)
    BY <1>0, <1>14 DEF WritePlan, Due, DbTypes
  <2>3. Agrees(q)'
    BY <1>1, <1>14, <2>1, <2>2 DEF WritePlan, Ready, Agrees
  <2>. QED  BY <1>3, <1>14, <2>1, <2>3 DEF WritePlan, Return
<1>15. ASSUME NEW c \in Callers, call[c].plan = q, ErasePlan(c) PROVE PlanInv(q)'
  <2>1. Mapped(q)' /\ (Fires(q)' <=> Fires(q)) /\ stuck' = stuck
    BY <1>5, <1>15 DEF ErasePlan
  <2>2. ~Due(q)'
    BY <1>0, <1>15 DEF ErasePlan, Due, DbTypes
  <2>3. Agrees(q)'
    BY <1>1, <1>15, <2>1, <2>2 DEF ErasePlan, Ready, Agrees
  <2>. QED  BY <1>3, <1>15, <2>1, <2>3 DEF ErasePlan, Return
<1>16. ASSUME NEW c \in Callers, call[c].plan = q,
              AddRefused(c) \/ LookupFails(c) \/ EntryBroken(c) \/ DbRefuses(c)
       PROVE  FALSE
  BY <1>4, <1>16 DEF AddRefused, LookupFails, EntryBroken, DbRefuses
<1>. QED
  BY <1>6, <1>7, <1>8, <1>b, <1>9, <1>10, <1>11, <1>12, <1>13, <1>14, <1>15, <1>16
  DEF PlanStep, PlanCall

LEMMA EntryIsOwnStep == Inv1 /\ EntryIsOwn /\ [Next]_vars => EntryIsOwn'
<1>. SUFFICES ASSUME Inv1, EntryIsOwn, [Next]_vars PROVE EntryIsOwn'
  OBVIOUS
<1>0. TriggerTypes /\ CallTypes /\ CallShape
  BY TypeSplit DEF Inv1
<1>1. ASSUME NEW c \in Callers, StopEntry(c) PROVE EntryIsOwn'
  <2>1. \A k \in running : k.id # 0
    BY <1>0 DEF TriggerTypes
  <2>. QED  BY <1>0, <1>1, <2>1 DEF StopEntry, Stopped, EntryIsOwn, TriggerTypes
<1>2. ASSUME NEW c \in Callers, StartEntry(c) \/ EntryBroken(c) PROVE EntryIsOwn'
  <2>1. /\ \A k \in running : k.id # NewEntry
        /\ \A q \in Plans : entry[q] # NewEntry
    BY <1>0, MaxCronsAssumption DEF TriggerTypes, NewEntry
  <2>. QED  BY <1>0, <1>2, <2>1 DEF StartEntry, EntryBroken, EntryIsOwn, TriggerTypes
<1>3. CASE UNCHANGED trigger
  BY <1>3 DEF trigger, EntryIsOwn
<1>4. CASE Restart
  BY <1>4 DEF Restart, EntryIsOwn
<1>5. ASSUME NEW c \in Callers, PlanCall(c)
      PROVE  UNCHANGED trigger \/ StopEntry(c) \/ StartEntry(c) \/ EntryBroken(c)
  BY <1>5 DEF PlanCall, trigger, RemoveFromTrigger, RemoveRefused, AddToTrigger, AddRefused,
     LookupFails,
     WritePlan, ErasePlan, DbRefuses
<1>6. UNCHANGED trigger \/ Restart \/ \E c \in Callers : PlanCall(c)
  BY OtherWrites
<1>. QED  BY <1>1, <1>2, <1>3, <1>4, <1>5, <1>6

LEMMA Inv2Step == Inv1 /\ Inv2 /\ [Next]_vars => Inv2'
<1>. SUFFICES ASSUME Inv1, Inv2, [Next]_vars, NEW q \in Plans PROVE PlanInv(q)'
  BY EntryIsOwnStep DEF Inv2
<1>0. DbTypes /\ CallTypes /\ EntryIsOwn /\ PlanInv(q)
  BY TypeSplit DEF Inv1, Inv2
<1>1. CASE PlanStep(q)
  BY <1>0, <1>1, PlanSteps
<1>2. CASE Restart
  <2>1. \A c \in Callers : call'[c].plan # q
    BY <1>2, NoneAssumption DEF Restart, Idle
  <2>2. ~Fires(q)' /\ (q \in clean' => ~Due(q)')
    BY <1>2 DEF Restart, Fires, Due
  <2>. QED  BY <2>1, <2>2 DEF PlanInv, Mapped, Fires, OneCall, InCall, Agrees
<1>3. CASE ~PlanStep(q) /\ ~Restart
  BY <1>0, <1>3, Elsewhere, UntouchedKeeps
<1>. QED  BY <1>1, <1>2, <1>3

LEMMA Inv2Init == Init => Inv2
<1>. SUFFICES ASSUME Init PROVE Inv2
  OBVIOUS
<1>1. EntryIsOwn
  BY DEF Init, EntryIsOwn
<1>2. ASSUME NEW q \in Plans PROVE PlanInv(q)
  BY NoneAssumption DEF Init, Idle, PlanInv, Mapped, Fires, OneCall, InCall, Agrees, Due
<1>. QED  BY <1>1, <1>2 DEF Inv2

\* The inductive invariant, plan by plan, from which the three properties follow.
THEOREM PlansInvariant == Spec => [](Inv1 /\ Inv2)
BY InitTypes, Inv1Step, Inv2Init, Inv2Step, PTL DEF Spec

\* What fires for a plan whose calls came one after the other can be stopped.
THEOREM EntriesKept == Spec => []CleanPlansKeepTheirEntry
<1>1. Inv1 /\ Inv2 => CleanPlansKeepTheirEntry
  BY DEF Inv1, TypeOK, Inv2, PlanInv, Mapped, CleanPlansKeepTheirEntry
<1>. QED  BY PlansInvariant, <1>1, PTL

\* Such a plan fires whenever the database says it should ...
THEOREM EnabledFire == Spec => []EnabledPlansFire
<1>1. Inv1 /\ Inv2 => EnabledPlansFire
  BY DEF Inv1, TypeOK, Inv2, PlanInv, Agrees, EnabledPlansFire
<1>. QED  BY PlansInvariant, <1>1, PTL

\* ... and only then, unless an update of it found no trigger or a delete of it
\* could not read it.
THEOREM OnlyEnabledFire == Spec => []OnlyEnabledPlansFire
<1>1. Inv1 /\ Inv2 => OnlyEnabledPlansFire
  BY DEF Inv1, TypeOK, Inv2, PlanInv, Agrees, OnlyEnabledPlansFire
<1>. QED  BY PlansInvariant, <1>1, PTL
=============================================================================
