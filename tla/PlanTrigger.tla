---------------------------- MODULE PlanTrigger ----------------------------
(***************************************************************************)
(* Plans, the policies that say when they run, and the cron entries that   *)
(* run them: the calls of the dataflow service that change them            *)
(* (dataflow/pkg/plan/plan.go, policy/policy.go), the database below       *)
(* (db/drivers/mongo/mongo.go) and the trigger manager above               *)
(* (scheduler/trigger/manager.go, crontrigger/crontrigger.go).             *)
(*                                                                         *)
(* Calls run concurrently, one goroutine each.  A write to the database    *)
(* that takes the manager's lock is one step (DbLock shows that the lock   *)
(* excludes); what a call does between its reads and writes is not.  The   *)
(* cron entries live in the memory of the one process.  An entry that      *)
(* fires calls Run, which JobPipeline models.                              *)
(***************************************************************************)
EXTENDS Integers

CONSTANTS
  Plans, Policies, \* the ids the database may hand out
  Foreign,         \* policies of another tenant than the callers'
  Schedules,       \* what policies say about time
  Untyped,         \* schedules of a type no trigger is registered for
  Broken,          \* cron expressions that do not parse
  None,            \* the empty policy id; no plan and no schedule, too
  Callers,         \* bound on the calls in progress
  MaxCrons         \* bound on the entries made by one process

ASSUME NoneAssumption == None \notin Policies /\ None \notin Plans /\ None \notin Schedules
ASSUME ScheduleAssumption == "unborn" \notin Schedules /\ "deleted" \notin Schedules
ASSUME MaxCronsAssumption == MaxCrons \in Nat

VARIABLES
  policies, \* each policy: its schedule, or unborn or deleted
  plans,    \* each plan: unborn, there with policy and switch, or deleted
  running,  \* the cron entries that fire: number, plan and schedule
  entry,    \* CronTrigger.plans, the number of each plan's entry or 0
  made,     \* entries made since the process started
  call,     \* what each caller is doing, with the plan or policy it has read
  clean,    \* plans whose calls succeeded one after the other, none while the
            \* policy changed or could not be read, and none before a restart
            \* (history)
  stuck     \* plans a call on which went on without removing the entry: an
            \* update that found no trigger for the policy id it names, a
            \* delete that could not read the plan (history)

vars == <<policies, plans, running, entry, made, call, clean, stuck>>
trigger == <<running, entry, made>>

Life == {"unborn", "there", "deleted"}
PolicyId == Policies \cup {None}
Op == {"none", "create", "update", "delete", "policy"}
Step == {"idle", "remove", "stop", "lookup", "start", "write", "erase", "save"}

Idle == [op |-> "none", step |-> "idle", plan |-> None, policy |-> None,
         enabled |-> FALSE, sched |-> None]
Working(c) == call[c].step # "idle"
InCall(q) == \E c \in Callers : call[c].plan = q

Goto(c, s) == call' = [call EXCEPT ![c].step = s]

\* A call returns.  A plan is clean no longer when its caller got an error.
Return(c, result) ==
  /\ call' = [call EXCEPT ![c] = Idle]
  /\ clean' = IF result = "ok" THEN clean ELSE clean \ {call[c].plan}

Init ==
  /\ policies = [p \in Policies |-> "unborn"]
  /\ plans = [q \in Plans |-> [life |-> "unborn", policy |-> None, enabled |-> FALSE]]
  /\ running = {} /\ entry = [q \in Plans |-> 0] /\ made = 0
  /\ call = [c \in Callers |-> Idle]
  /\ clean = Plans /\ stuck = {}

-----------------------------------------------------------------------------
(* The database.                                                           *)

Existing == {p \in Policies : policies[p] \in Schedules}
Exists(p) == p \in Existing
\* The policy ids a caller can know.
Issued == {None} \cup {p \in Policies : policies[p] # "unborn"}

\* GetPolicy looks for the caller's tenant, checkPlanRelateObj does not.
Visible(p) == Exists(p) /\ p \notin Foreign

\* GetPlan fails when the plan's policy is gone.  A read of the plan that fails
\* is no error but an empty plan: see DeleteMisread.
Readable(q) ==
  plans[q].life = "there" /\ plans[q].policy \in Existing \cup {None}

\* The query of DeletePolicy for the plans that use a policy names the field
\* "policy_ref:$ref", which no plan has: it counts none.
UsedBy(p) == {}

-----------------------------------------------------------------------------
(* Policies.                                                               *)

CreatePolicy(p, s) ==
  /\ policies[p] = "unborn"
  /\ policies' = [policies EXCEPT ![p] = s]
  /\ UNCHANGED <<plans, trigger, call, clean, stuck>>

DeletePolicy(p) ==
  /\ Visible(p) /\ UsedBy(p) = {}
  /\ policies' = [policies EXCEPT ![p] = "deleted"]
  /\ UNCHANGED <<plans, trigger, call, clean, stuck>>

\* Update reads the policy, with a new schedule in the request or without ...
ReadPolicy(c, p, s) ==
  /\ ~Working(c) /\ Visible(p)
  /\ call' = [call EXCEPT ![c] = [op |-> "policy", step |-> "save", plan |-> None,
                                  policy |-> p, enabled |-> FALSE, sched |-> s]]
  /\ UNCHANGED <<policies, plans, trigger, clean, stuck>>

\* ... and writes all of it back.  updatePolicyInTrigger is next, but the
\* filter GetPlanByPolicy passes has a type doListPlan does not take: it
\* returns an error and no entry is touched.  A call on a plan that is between
\* two lookups of this policy sees two schedules.
Between(p) == {q \in Plans : \E c \in Callers : call[c].plan = q /\ call[c].policy = p}

SavePolicy(c) ==
  /\ call[c].step = "save" /\ Exists(call[c].policy)
  /\ policies' = [policies EXCEPT ![call[c].policy] = call[c].sched]
  /\ call' = [call EXCEPT ![c] = Idle]
  /\ clean' = clean \ Between(call[c].policy)
  /\ UNCHANGED <<plans, trigger, stuck>>

\* The policy is gone, or the database or its lock cannot be had.
SaveFails(c) ==
  /\ call[c].step = "save"
  /\ call' = [call EXCEPT ![c] = Idle]
  /\ UNCHANGED <<policies, plans, trigger, clean, stuck>>

-----------------------------------------------------------------------------
(* Calls on plans.                                                         *)

Begin(c, op, step, q, p, en) ==
  call' = [call EXCEPT ![c] = [op |-> op, step |-> step, plan |-> q, policy |-> p,
                               enabled |-> en, sched |-> None]]

\* Whether an enabled plan with this policy is to be added to the trigger.
Scheduled(p, en) == p # None /\ en

\* CreatePlan in the database; the trigger is next if there is to be one.
CreatePlan(c, q, p, en) ==
  /\ ~Working(c) /\ plans[q].life = "unborn"
  /\ p \in Existing \cup {None}
  /\ plans' = [plans EXCEPT ![q] = [life |-> "there", policy |-> p, enabled |-> en]]
  /\ IF Scheduled(p, en) THEN Begin(c, "create", "lookup", q, p, en) ELSE UNCHANGED call
  /\ UNCHANGED <<policies, trigger, clean, stuck>>

\* Update reads the plan and changes the copy; the trigger is next if the
\* request names the policy or the switch.
BeginUpdate(c, q, p, en, named) ==
  /\ ~Working(c) /\ Readable(q) /\ p \in Issued
  /\ named \/ (p = plans[q].policy /\ en = plans[q].enabled)
  /\ Begin(c, "update", IF named THEN "remove" ELSE "write", q, p, en)
  /\ clean' = IF InCall(q) THEN clean \ {q} ELSE clean
  /\ UNCHANGED <<policies, plans, trigger, stuck>>

\* Delete reads the plan; the trigger is next if the plan has a policy.
DeleteBegins_NoTrigger(q) == "erase"
DeleteBegins(q) == IF plans[q].policy = None THEN "erase" ELSE "remove"

BeginDelete(c, q) ==
  /\ ~Working(c) /\ Readable(q)
  /\ Begin(c, "delete", DeleteBegins(q), q, plans[q].policy, plans[q].enabled)
  /\ clean' = IF InCall(q) THEN clean \ {q} ELSE clean
  /\ UNCHANGED <<policies, plans, trigger, stuck>>

\* The read has failed and Delete holds an empty plan: it has no policy, so the
\* trigger is left alone, and the record of the request's id is next.  (What an
\* Update does with an empty plan is about no plan: its entry has an empty id and
\* runs nothing, and the write without an id fails.)
DeleteMisread(c, q) ==
  /\ ~Working(c) /\ plans[q].life # "unborn"
  /\ Begin(c, "delete", "erase", q, None, FALSE)
  /\ clean' = IF InCall(q) THEN clean \ {q} ELSE clean
  /\ stuck' = stuck \cup {q}
  /\ UNCHANGED <<policies, plans, trigger>>

\* Manager: the plan's policy and the trigger for its type are looked up.
HasTrigger(p) == Visible(p) /\ policies[p] \notin Untyped

\* Where a call goes when the old entry is gone, or was not to be had.
AfterRemove_NoAdd(c) == IF call[c].op = "delete" THEN "erase" ELSE "write"
AfterRemove(c) ==
  CASE call[c].op = "delete" -> "erase"
    [] call[c].op = "update" /\ Scheduled(call[c].policy, call[c].enabled) -> "lookup"
    [] call[c].op = "update" /\ ~Scheduled(call[c].policy, call[c].enabled) -> "write"

RemoveFromTrigger(c) ==
  /\ call[c].step = "remove" /\ HasTrigger(call[c].policy)
  /\ Goto(c, "stop")
  /\ UNCHANGED <<policies, plans, trigger, clean, stuck>>

\* Update ignores the error, Delete returns it.
RemoveRefused(c) ==
  /\ call[c].step = "remove" /\ ~HasTrigger(call[c].policy)
  /\ IF call[c].op = "delete"
     THEN Return(c, "error") /\ UNCHANGED stuck
     ELSE /\ Goto(c, AfterRemove(c)) /\ UNCHANGED clean
          /\ stuck' = stuck \cup {call[c].plan}
  /\ UNCHANGED <<policies, plans, trigger>>

\* CronTrigger.Remove
Stopped_KeptRunning(q) == running
Stopped(q) == {k \in running : k.id # entry[q]}

StopEntry(c) ==
  /\ call[c].step = "stop"
  /\ running' = Stopped(call[c].plan)
  /\ entry' = [entry EXCEPT ![call[c].plan] = 0]
  /\ Goto(c, AfterRemove(c))
  /\ UNCHANGED <<policies, plans, made, clean, stuck>>

AddToTrigger(c) ==
  /\ call[c].step = "lookup" /\ HasTrigger(call[c].policy)
  /\ call' = [call EXCEPT ![c].step = "start", ![c].sched = policies[call[c].policy]]
  /\ UNCHANGED <<policies, plans, trigger, clean, stuck>>

AddRefused(c) ==
  /\ call[c].step = "lookup" /\ ~HasTrigger(call[c].policy)
  /\ Return(c, "error")
  /\ UNCHANGED <<policies, plans, trigger, stuck>>

\* GetPolicy takes a read that fails for a policy without a schedule, for which
\* there is no trigger.  No plan is clean after that.
LookupFails(c) ==
  /\ call[c].step \in {"remove", "lookup"}
  /\ IF call[c].step = "remove" /\ call[c].op = "update"
     THEN Goto(c, AfterRemove(c)) /\ clean' = clean \ {call[c].plan}
     ELSE Return(c, "error")
  /\ UNCHANGED <<policies, plans, trigger, stuck>>

NewEntry_Next == made + 2
NewEntry == made + 1

\* CronTrigger.Add: the new entry takes the plan's place in the map, whatever
\* was there, and starts if its expression parses.
StartEntry(c) ==
  /\ call[c].step = "start" /\ call[c].sched \notin Broken /\ made < MaxCrons
  /\ made' = made + 1
  /\ entry' = [entry EXCEPT ![call[c].plan] = NewEntry]
  /\ running' = running \cup {[id |-> NewEntry, plan |-> call[c].plan, sched |-> call[c].sched]}
  /\ IF call[c].op = "create" THEN Return(c, "ok") ELSE Goto(c, "write") /\ UNCHANGED clean
  /\ UNCHANGED <<policies, plans, stuck>>

EntryBroken(c) ==
  /\ call[c].step = "start" /\ call[c].sched \in Broken /\ made < MaxCrons
  /\ made' = made + 1
  /\ entry' = [entry EXCEPT ![call[c].plan] = NewEntry]
  /\ Return(c, "error")
  /\ UNCHANGED <<policies, plans, running, stuck>>

\* UpdatePlan in the database writes the whole copy.
WritePlan(c) ==
  /\ call[c].step = "write"
  /\ plans[call[c].plan].life = "there"
  /\ call[c].policy \in Existing \cup {None}
  /\ plans' = [plans EXCEPT ![call[c].plan].policy = call[c].policy,
                            ![call[c].plan].enabled = call[c].enabled]
  /\ Return(c, "ok")
  /\ UNCHANGED <<policies, trigger, stuck>>

ErasePlan(c) ==
  /\ call[c].step = "erase" /\ plans[call[c].plan].life = "there"
  /\ plans' = [plans EXCEPT ![call[c].plan].life = "deleted"]
  /\ Return(c, "ok")
  /\ UNCHANGED <<policies, trigger, stuck>>

\* Plan or policy are gone, or the database or its lock cannot be had: the
\* error is returned, the trigger stays as the call has left it.
DbRefuses(c) ==
  /\ call[c].step \in {"write", "erase"}
  /\ Return(c, "error")
  /\ UNCHANGED <<policies, plans, trigger, stuck>>

-----------------------------------------------------------------------------
\* LoadAllPlans lists the plans with a nil filter, for which doListPlan makes
\* no query: a process that starts again loads none.
Restart ==
  /\ running' = {} /\ entry' = [q \in Plans |-> 0] /\ made' = 0
  /\ call' = [c \in Callers |-> Idle]
  /\ clean' = clean \ {q \in Plans : plans[q].life = "there" \/ InCall(q)}
  /\ UNCHANGED <<policies, plans, stuck>>

PolicyCall(c) == SavePolicy(c) \/ SaveFails(c)
PlanCall(c) ==
  \/ RemoveFromTrigger(c) \/ RemoveRefused(c) \/ StopEntry(c)
  \/ AddToTrigger(c) \/ AddRefused(c) \/ LookupFails(c)
  \/ StartEntry(c) \/ EntryBroken(c) \/ WritePlan(c) \/ ErasePlan(c) \/ DbRefuses(c)

Next ==
  \/ \E p \in Policies, s \in Schedules : CreatePolicy(p, s)
  \/ \E p \in Policies : DeletePolicy(p)
  \/ \E c \in Callers, p \in Policies, s \in Schedules : ReadPolicy(c, p, s)
  \/ \E c \in Callers, q \in Plans, p \in PolicyId, en \in BOOLEAN :
       CreatePlan(c, q, p, en) \/ \E named \in BOOLEAN : BeginUpdate(c, q, p, en, named)
  \/ \E c \in Callers, q \in Plans : BeginDelete(c, q) \/ DeleteMisread(c, q)
  \/ \E c \in Callers : PolicyCall(c) \/ PlanCall(c)
  \/ Restart

Spec == Init /\ [][Next]_vars

-----------------------------------------------------------------------------
(* Properties.                                                             *)

CallType ==
  [op : Op, step : Step, plan : Plans \cup {None}, policy : PolicyId,
   enabled : BOOLEAN, sched : Schedules \cup {None}]

TypeOK ==
  /\ policies \in [Policies -> Schedules \cup {"unborn", "deleted"}]
  /\ plans \in [Plans -> [life : Life, policy : PolicyId, enabled : BOOLEAN]]
  /\ made \in 0..MaxCrons /\ entry \in [Plans -> 0..made]
  /\ running \subseteq [id : 1..made, plan : Plans, sched : Schedules \ Broken]
  /\ call \in [Callers -> CallType]
  /\ clean \subseteq Plans /\ stuck \subseteq Plans

\* Whatever fires for a clean plan can still be stopped: the trigger's map has
\* it.  Two overlapping updates of a plan do leave an entry behind that
\* nothing stops before the process does.
CleanPlansKeepTheirEntry == \A k \in running : k.plan \in clean => entry[k.plan] = k.id

Fires(q) == \E k \in running : k.plan = q
Due(q) == plans[q].life = "there" /\ Scheduled(plans[q].policy, plans[q].enabled)

\* "plan will be scheduled automatically according this policy if PolicyEnabled
\* is true" (openapi-spec/swagger.yaml:844), between calls, for a clean plan.
EnabledPlansFire == \A q \in clean : ~InCall(q) /\ Due(q) => Fires(q)

\* And no other plan is, with two exceptions (stuck).  An update that cannot find
\* the trigger of the policy it names goes on, so a plan whose policy id is set
\* to "" is run on and on; and so does a delete that could not read the plan,
\* so the entry of a plan that is gone fires until the process ends.
OnlyEnabledPlansFire == \A q \in clean \ stuck : ~InCall(q) /\ Fires(q) => Due(q)

Usable(p) == HasTrigger(p) /\ policies[p] \notin Broken
Quiet(q) == ~InCall(q) /\ \A c \in Callers : call[c].policy # plans[q].policy

\* "according this policy" (openapi-spec/swagger.yaml:844): while no call is busy
\* with it or its policy, a clean plan fires at the times the policy now gives,
\* if a trigger takes them and they parse.
FiresByPolicy ==
  \A q \in clean : Quiet(q) /\ Due(q) /\ Usable(plans[q].policy) =>
    \E k \in running : k.plan = q /\ k.sched = policies[plans[q].policy]
=============================================================================
