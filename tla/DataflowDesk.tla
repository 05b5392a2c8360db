---------------------------- MODULE DataflowDesk ----------------------------
(***************************************************************************)
(* The requests about policies, plans and jobs: the routes of the api      *)
(* service (api/pkg/dataflow), the handlers of the dataflow service they   *)
(* call (dataflow/pkg/service.go), and what those do to the documents in   *)
(* the database.  The api service sends every request in the name of one   *)
(* tenant, an admin.  The service goes on with a call when the api service *)
(* has stopped waiting.  A write that takes the manager's lock is one step *)
(* (DbLock); what the triggers do is in PlanTrigger, and one that refuses  *)
(* ends a call here as a database does that fails.                         *)
(***************************************************************************)
EXTENDS Integers, Sequences, FiniteSets

CONSTANTS
  Clerks,      \* requests that may be in progress together
  MaxPlans,    \* bound on the plans, the policies and the jobs made
  Creations,   \* the plans a client may ask for
  Changes,     \* what an update of a plan may say: the fields it names
  PolicyTexts, \* policies a client may ask for
  GoodNames,   \* names with a letter, a digit, "-", "_" or "." in them
  Shifts,      \* the requests to come
  MaxUpsets    \* bound on what fails

Routes == {"createPolicy", "updatePolicy", "deletePolicy", "getPolicy", "listPolicy",
           "createPlan", "updatePlan", "deletePlan", "getPlan", "listPlan", "runPlan",
           "getJob", "listJob"}
ASSUME DeskAssumption ==
  /\ MaxPlans \in Nat /\ MaxUpsets \in Nat /\ "all" \in GoodNames
  /\ Shifts \subseteq [Routes -> Nat]

VARIABLES
  base,    \* the collections, and the plans a scheduler is at work on
  desk,    \* the request of each clerk
  strays,  \* calls whose clerk has stopped waiting
  orders,  \* requests still to come
  upsets,  \* failures so far
  agreed   \* what the acknowledged calls have said of each plan (history)

deskVars == <<base, desk, strays, orders, upsets, agreed>>

PlanIds == 1..MaxPlans
ConnKeys == {"region", "endpoint", "bucketname", "access", "security"}
Filters == {"", "/", "x"}

-----------------------------------------------------------------------------
(* Connectors *)

OpenSDS == "opensds-obj"
ConfigTypes == {"aws-s3", "ceph-s3", "hw-obs", "fusionstorage-object", "fusioncloud-object", "azure-blob"}
Connector == [type : {OpenSDS, "gcp"} \cup ConfigTypes, bucket : {"", "b1", "b2"}, keys : SUBSET ConnKeys]

\* A connector of opensds keeps its bucket, one of another store its settings.
KnownType(conn) == conn.type \in {OpenSDS} \cup ConfigTypes
fillReqConnector(conn) ==
  IF conn.type = OpenSDS THEN [conn EXCEPT !.keys = {}] ELSE [conn EXCEPT !.bucket = ""]
fillRspConnector(conn) ==
  [type |-> conn.type, bucket |-> IF conn.type = OpenSDS THEN conn.bucket ELSE "",
   keys |-> IF conn.type \in ConfigTypes THEN conn.keys ELSE {}]

isEqual(src, dest) == src.type = OpenSDS /\ dest.type = OpenSDS /\ src.bucket = dest.bucket
checkConnValidation(conn) ==
  \/ conn.type = OpenSDS
  \/ conn.keys \cup (IF conn.type = "ceph-s3" THEN {"region"} ELSE {}) = ConnKeys
\* getLocation finds a bucket.
HasLocation(conn) == conn.type = OpenSDS \/ (conn.type \in ConfigTypes /\ "bucketname" \in conn.keys)

-----------------------------------------------------------------------------
(* Documents.  A collection is a sequence in which a document that was       *)
(* removed leaves <<>> behind; the place is the id.                          *)

Plan == [name : STRING, src : Connector, dest : Connector, filter : Filters,
         policy : Nat, enabled : BOOLEAN, remain : BOOLEAN, asist : {"none", "analysis"}]
NoPolicy == 0

\* What a request may say of a plan: all of it, or some of its fields.
OfField(f, value) ==
  CASE f = "name" -> value \in STRING
    [] f \in {"src", "dest"} -> value \in Connector
    [] f = "filter" -> value \in Filters
    [] f = "policy" -> value \in Nat
    [] f \in {"enabled", "remain"} -> value \in BOOLEAN
    [] f = "asist" -> value \in {"none", "analysis"}
Fields == {"name", "src", "dest", "filter", "policy", "enabled", "remain", "asist"}
ASSUME RequestsAssumption ==
  /\ Creations \subseteq Plan
  /\ \A change \in Changes : \A f \in DOMAIN change : f \in Fields /\ OfField(f, change[f])

PolicyThere(d, p) == p \in DOMAIN d.policies /\ d.policies[p] # <<>>
\* checkPlanRelateObj
PolicyFits(d, plan) == plan.policy = NoPolicy \/ PolicyThere(d, plan.policy)
Holds(d, q) == q \in DOMAIN d.plans /\ d.plans[q] # <<>>
\* GetPlan fails when the plan's policy is gone.
Legible(d, q) == PolicyFits(d, d.plans[q][1])

\* CreatePlan of the service: the plan that the request describes.
Described(want) == [want EXCEPT !.src = fillReqConnector(@), !.dest = fillReqConnector(@)]
Describable(want) == KnownType(want.src) /\ KnownType(want.dest) /\ want.name # ""
\* Create in plan.go.
Valid(plan) ==
  /\ plan.name \in GoodNames /\ ~isEqual(plan.src, plan.dest)
  /\ checkConnValidation(plan.src) /\ checkConnValidation(plan.dest)
\* The index of the collection on the name is unique, too.
NameTaken(d, name, q) == \E r \in DOMAIN d.plans \ {q} : Holds(d, r) /\ d.plans[r][1].name = name

\* Update in plan.go.  A filter without a prefix gets one, and the assistance
\* is decoded into a copy: whatever the request says, there is none after it.
Changed_WithoutFilter(plan, change) ==
  [f \in DOMAIN plan |->
     CASE f \notin DOMAIN change \/ f = "filter" -> plan[f]
       [] f = "asist" /\ f \in DOMAIN change -> "none"
       [] OTHER -> change[f]]
Changed(plan, change) ==
  [f \in DOMAIN plan |->
     CASE f \notin DOMAIN change -> plan[f]
       [] f = "filter" /\ f \in DOMAIN change -> IF change[f] = "" THEN "/" ELSE change[f]
       [] f = "asist" /\ f \in DOMAIN change -> "none"
       [] OTHER -> change[f]]
\* No connector is validated again.
Acceptable(plan, change) ==
  ("name" \in DOMAIN change => plan.name \in GoodNames) /\ ~isEqual(plan.src, plan.dest)

\* The database (mongo.go).
InsertPolicy(d, pol) == [d EXCEPT !.policies = Append(@, <<pol>>)]
ReplacePolicy(d, p, pol) == [d EXCEPT !.policies[p] = <<pol>>]
RemovePolicy(d, p) == [d EXCEPT !.policies[p] = <<>>]
InsertPlan(d, plan) == [d EXCEPT !.plans = Append(@, <<plan>>)]
ReplacePlan(d, q, plan) == [d EXCEPT !.plans[q] = <<plan>>]
RemovePlan(d, q) == [d EXCEPT !.plans[q] = <<>>]
InsertJob(d, job) == [d EXCEPT !.jobs = Append(@, job)]
JobThere(d, j) == j \in DOMAIN d.jobs

planModel2Resp(plan) == [plan EXCEPT !.src = fillRspConnector(@), !.dest = fillRspConnector(@)]

-----------------------------------------------------------------------------
(* Calls of the service.  A step ends in the documents and the call after it. *)

Errand(op, id, want) ==
  [op |-> op, id |-> id, want |-> want, step |-> "begin", doc |-> <<>>, got |-> <<>>,
   upset |-> FALSE, attempt |-> 1]
NoErrand == [op |-> "none", id |-> 0, want |-> <<>>, step |-> "idle", doc |-> <<>>, got |-> <<>>,
             upset |-> FALSE, attempt |-> 1]
Underway(k) == k.step \in {"begin", "lock", "write"}

Now(d, k) == [base |-> d, call |-> k]
Reply(d, k, answer) == Now(d, [k EXCEPT !.step = answer])
Give(d, k, got) == Now(d, [k EXCEPT !.step = "ok", !.got = got])
Onward(d, k, step, doc) == Now(d, [k EXCEPT !.step = step, !.doc = doc])

\* Create in policy.go.
PolicyNamed(name) == name \in GoodNames \ {"all"}
\* A name that is no name is an error, and the error gets lost.
CreatePolicy(d, k) ==
  IF k.want.name = "" \/ k.want.schedule = "none" THEN Reply(d, k, "error")
  ELSE IF ~PolicyNamed(k.want.name) THEN Reply(d, k, "ok")
  ELSE Give(InsertPolicy(d, k.want), k, <<k.want>>)

GetPolicy(d, k) ==
  IF PolicyThere(d, k.id) THEN Give(d, k, d.policies[k.id]) ELSE Reply(d, k, "error")
ListPolicy(d, k) == Give(d, k, SelectSeq(d.policies, LAMBDA p : p # <<>>))

\* The policy is read, changed and written as a whole.  With a new schedule the
\* triggers are to be brought up to date next, which fails.
Merged(pol, want) ==
  [name |-> want.name, schedule |-> IF want.schedule = "none" THEN pol.schedule ELSE want.schedule]
UpdatePolicy(d, k) ==
  IF k.step = "begin"
  THEN IF ~PolicyThere(d, k.id) \/ k.want.name \notin GoodNames THEN Reply(d, k, "error")
       ELSE Onward(d, k, "write", <<Merged(d.policies[k.id][1], k.want)>>)
  ELSE IF ~PolicyThere(d, k.id) THEN Reply(d, k, "error")
       ELSE Reply(ReplacePolicy(d, k.id, k.doc[1]), k,
                  IF k.want.schedule = "none" THEN "ok" ELSE "error")

\* The query for the plans that use it finds none.
DeletePolicy(d, k) ==
  IF PolicyThere(d, k.id) THEN Reply(RemovePolicy(d, k.id), k, "ok")
  ELSE Reply(d, k, "error")

\* Every request has an assistance, if only one of no type, and a type of plan.
\* One without the first panics (service.go:336), one without the second is
\* refused (service.go:417), and neither reaches the database.
CreatePlan(d, k) ==
  LET plan == Described(k.want) IN
  IF ~Describable(k.want) \/ ~Valid(plan) \/ NameTaken(d, plan.name, 0) \/ ~PolicyFits(d, plan)
  THEN Reply(d, k, "error")
  ELSE Now(InsertPlan(d, plan),
           [k EXCEPT !.id = Len(d.plans) + 1, !.step = "ok", !.got = <<planModel2Resp(plan)>>])

\* The plan is read, changed and written as a whole.
UpdatePlan(d, k) ==
  IF k.step = "begin"
  THEN IF ~Holds(d, k.id) \/ ~Legible(d, k.id) THEN Reply(d, k, "error")
       ELSE LET plan == Changed(d.plans[k.id][1], k.want) IN
            IF Acceptable(plan, k.want) THEN Onward(d, k, "write", <<plan>>) ELSE Reply(d, k, "error")
  ELSE IF ~Holds(d, k.id) \/ ~PolicyFits(d, k.doc[1]) \/ NameTaken(d, k.doc[1].name, k.id)
       THEN Reply(d, k, "error")
       ELSE Give(ReplacePlan(d, k.id, k.doc[1]), k, <<planModel2Resp(k.doc[1])>>)

\* Delete in plan.go: to delete what is not there is no error, unless it has
\* gone in between.
Sought(d, k) ==
  CASE ~Holds(d, k.id) -> Reply(d, k, "ok")
    [] Holds(d, k.id) /\ ~Legible(d, k.id) -> Reply(d, k, "error")
    [] Holds(d, k.id) /\ Legible(d, k.id) -> Onward(d, k, "write", <<>>)
DeletePlan(d, k) ==
  IF k.step = "begin" THEN Sought(d, k)
  ELSE IF Holds(d, k.id) THEN Reply(RemovePlan(d, k.id), k, "ok")
       ELSE Reply(d, k, "error")

GetPlan(d, k) ==
  IF Holds(d, k.id) /\ Legible(d, k.id) THEN Give(d, k, <<planModel2Resp(d.plans[k.id][1])>>)
  ELSE Reply(d, k, "error")

\* doListPlan: in the order of insertion, from an offset on, up to a limit that
\* is none if it is 0.
Window(s, offset, limit) ==
  SubSeq(s, offset + 1, IF limit = 0 \/ offset + limit > Len(s) THEN Len(s) ELSE offset + limit)
OfBucket(d, q, bucket) ==
  bucket = "" \/ d.plans[q][1].src.bucket = bucket \/ d.plans[q][1].dest.bucket = bucket
ListPlan(d, k) ==
  LET ids == Window(SelectSeq([i \in DOMAIN d.plans |-> i],
                              LAMBDA q : Holds(d, q) /\ OfBucket(d, q, k.want.bucket)),
                    k.want.offset, k.want.limit) IN
  IF k.want.limit < 0 \/ k.want.offset < 0 \/ \E i \in DOMAIN ids : ~Legible(d, ids[i])
  THEN Reply(d, k, "error")
  ELSE Give(d, k, [i \in DOMAIN ids |-> planModel2Resp(d.plans[ids[i]][1])])

\* Run: one run of a plan at a time.
Unlocked(d, k) == [d EXCEPT !.locked = @ \ {k.id}]
RunPlan(d, k) ==
  CASE k.step = "begin" ->
         IF Holds(d, k.id) /\ Legible(d, k.id) THEN Onward(d, k, "lock", d.plans[k.id])
         ELSE Reply(d, k, "error")
    [] k.step = "lock" ->
         IF k.id \in d.locked THEN Reply(d, k, "error")
         ELSE Onward([d EXCEPT !.locked = @ \cup {k.id}], k, "write", k.doc)
    [] k.step = "write" ->
         IF ~HasLocation(k.doc[1].src) \/ ~HasLocation(k.doc[1].dest)
         THEN Reply(Unlocked(d, k), k, "error")
         ELSE Reply(InsertJob(Unlocked(d, k), [plan |-> k.id, remain |-> k.doc[1].remain]), k, "ok")

GetJob(d, k) ==
  IF JobThere(d, k.id) THEN Give(d, k, <<d.jobs[k.id]>>) ELSE Reply(d, k, "error")
ListJob(d, k) ==
  IF k.want.limit < 0 \/ k.want.offset < 0 THEN Reply(d, k, "error")
  ELSE Give(d, k, Window(d.jobs, k.want.offset, k.want.limit))

Served(d, k) ==
  CASE k.op = "createPolicy" -> CreatePolicy(d, k)
    [] k.op = "updatePolicy" -> UpdatePolicy(d, k)
    [] k.op = "deletePolicy" -> DeletePolicy(d, k)
    [] k.op = "getPolicy" -> GetPolicy(d, k)
    [] k.op = "listPolicy" -> ListPolicy(d, k)
    [] k.op = "createPlan" -> CreatePlan(d, k)
    [] k.op = "updatePlan" -> UpdatePlan(d, k)
    [] k.op = "deletePlan" -> DeletePlan(d, k)
    [] k.op = "getPlan" -> GetPlan(d, k)
    [] k.op = "listPlan" -> ListPlan(d, k)
    [] k.op = "runPlan" -> RunPlan(d, k)
    [] k.op = "getJob" -> GetJob(d, k)
    [] k.op = "listJob" -> ListJob(d, k)

\* The database fails at a step.  A write may have taken effect nevertheless.
\* A read that fails finds an empty document: to delete goes on and gets the
\* plan away without its trigger, and who reads is shown nothing.  A job that
\* cannot be made is not noticed, and no lock is as good as one.
Faulted(d, k) ==
  CASE k.op \in {"getPlan", "getPolicy", "getJob", "listPlan", "listPolicy", "listJob"} ->
         {Reply(d, k, "ok"), Reply(d, k, "error")}
    [] k.op = "createPolicy" -> {Reply(d, k, "ok")}
    [] k.op = "runPlan" /\ k.step = "lock" -> {Onward(d, k, "write", k.doc)}
    [] k.op = "runPlan" /\ k.step = "write" -> {Reply(Unlocked(d, k), k, "ok")}
    [] k.op = "deletePlan" /\ k.step = "begin" -> {Onward(d, k, "write", <<>>), Reply(d, k, "error")}
    [] k.op \in {"updatePlan", "updatePolicy", "runPlan"} /\ k.step = "begin" -> {Reply(d, k, "error")}
    [] OTHER -> {Reply(d, k, "error"), Reply(Served(d, k).base, k, "error")}

-----------------------------------------------------------------------------
(* History *)

Writing == {"createPlan", "updatePlan", "deletePlan"}
OnPlan(k, q) == k.op \in Writing /\ k.id = q
Alone(q) == /\ \A c \in Clerks : ~OnPlan(desk[c], q)
            /\ \A k \in strays : ~OnPlan(k, q)
NotSure == [sure |-> FALSE, doc |-> <<>>]
Sure(doc) == [sure |-> TRUE, doc |-> doc]

\* The plan that an acknowledgement speaks of, given what was known of it.
Promise(k, was) ==
  CASE k.op = "createPlan" -> Sure(<<Described(k.want)>>)
    [] k.op = "deletePlan" -> Sure(<<>>)
    [] k.op = "updatePlan" ->
         IF was.sure /\ was.doc # <<>>
         THEN Sure(<<[f \in DOMAIN was.doc[1] |->
                       IF f \notin DOMAIN k.want THEN was.doc[1][f]
                       ELSE IF f = "filter" /\ k.want[f] = "" THEN "/" ELSE k.want[f]]>>)
         ELSE NotSure

-----------------------------------------------------------------------------
(* The routes of the api service.  A body or a parameter that cannot be read  *)
(* is answered at once, with an error; an error of the service is one of the  *)
(* route, and everything else is sent back as it came.                        *)

Ask(c, op, id, want) ==
  /\ desk[c] = NoErrand /\ orders[op] > 0
  /\ orders' = [orders EXCEPT ![op] = @ - 1]
  /\ LET k == Errand(op, id, want)
         busy == op \in Writing /\ id # 0 /\ ~Alone(id) IN
     /\ desk' = [b \in Clerks |->
                  IF b = c THEN [k EXCEPT !.upset = busy]
                  ELSE IF busy /\ OnPlan(desk[b], id) THEN [desk[b] EXCEPT !.upset = TRUE] ELSE desk[b]]
     /\ agreed' = IF busy THEN [agreed EXCEPT ![id] = NotSure] ELSE agreed
  /\ UNCHANGED <<base, strays, upsets>>

PolicyIds == DOMAIN base.policies
APICreatePolicy(c) == \E want \in PolicyTexts : Ask(c, "createPolicy", 0, want)
APIUpdatePolicy(c) == \E p \in PolicyIds, want \in PolicyTexts : Ask(c, "updatePolicy", p, want)
APIDeletePolicy(c) == \E p \in PolicyIds : Ask(c, "deletePolicy", p, <<>>)
APIGetPolicy(c) == \E p \in PolicyIds : Ask(c, "getPolicy", p, <<>>)
APIListPolicy(c) == Ask(c, "listPolicy", 0, <<>>)
APICreatePlan(c) == \E want \in Creations : Ask(c, "createPlan", 0, want)
APIUpdatePlan(c) == \E q \in DOMAIN base.plans, want \in Changes : Ask(c, "updatePlan", q, want)
APIDeletePlan(c) == \E q \in DOMAIN base.plans : Ask(c, "deletePlan", q, <<>>)
APIGetPlan(c) == \E q \in DOMAIN base.plans : Ask(c, "getPlan", q, <<>>)
APIRunPlan(c) == \E q \in DOMAIN base.plans : Ask(c, "runPlan", q, <<>>)
APIGetJob(c) == \E j \in DOMAIN base.jobs : Ask(c, "getJob", j, <<>>)
\* GetPaginationParam: at most so many, and no less than nothing.
MaxPage == 2
Pages == [limit : -1..MaxPage, offset : -1..1]
APIListPlan(c) ==
  \E page \in Pages, bucket \in {"", "b1"} :
    Ask(c, "listPlan", 0, [limit |-> page.limit, offset |-> page.offset, bucket |-> bucket])
APIListJob(c) == \E page \in Pages : Ask(c, "listJob", 0, page)

-----------------------------------------------------------------------------
(* What happens to a call *)

DeskStep(c) ==
  /\ Underway(desk[c])
  /\ LET n == Served(base, desk[c]) IN base' = n.base /\ desk' = [desk EXCEPT ![c] = n.call]
  /\ UNCHANGED <<strays, orders, upsets, agreed>>

StrayStep ==
  /\ \E k \in strays :
       LET n == Served(base, k) IN
       base' = n.base /\ strays' = (strays \ {k}) \cup {m \in {n.call} : Underway(m)}
  /\ UNCHANGED <<desk, orders, upsets, agreed>>

Unsure(q) == [agreed EXCEPT ![q] = NotSure]
Upset == upsets < MaxUpsets /\ upsets' = upsets + 1
DeskFails(c) ==
  /\ Underway(desk[c]) /\ Upset
  /\ \E n \in Faulted(base, desk[c]) :
       base' = n.base /\ desk' = [desk EXCEPT ![c] = [n.call EXCEPT !.upset = TRUE]]
  /\ UNCHANGED <<strays, orders, agreed>>

\* The clerk gives up after its timeout; when the connection breaks it asks
\* once more.  Either way the service goes on with the call.
DeskLost(c) ==
  /\ desk[c] # NoErrand /\ desk[c].step # "error" /\ Upset
  /\ strays' = strays \cup {k \in {desk[c]} : Underway(k)}
  /\ \/ desk' = [desk EXCEPT ![c].step = "error", ![c].upset = TRUE]
     \/ /\ desk[c].attempt = 1
        /\ desk' = [desk EXCEPT ![c] = [Errand(@.op, @.id, @.want) EXCEPT !.upset = TRUE, !.attempt = 2]]
  /\ UNCHANGED <<base, orders, agreed>>

\* The answer gets to the client.
Answered(c) ==
  LET k == desk[c] IN
  /\ k.step \in {"ok", "error"}
  /\ desk' = [desk EXCEPT ![c] = NoErrand]
  /\ agreed' = CASE k.op \notin Writing \/ k.id = 0 -> agreed
                 [] k.op \in Writing /\ k.id # 0 /\ k.upset -> Unsure(k.id)
                 [] k.op \in Writing /\ k.id # 0 /\ ~k.upset ->
                      IF k.step = "ok" THEN [agreed EXCEPT ![k.id] = Promise(k, @)] ELSE agreed
  /\ UNCHANGED <<base, strays, orders, upsets>>

DeskStart(shift) ==
  /\ base = [plans |-> <<>>, policies |-> <<>>, jobs |-> <<>>, locked |-> {}]
  /\ desk = [c \in Clerks |-> NoErrand]
  /\ strays = {} /\ upsets = 0
  /\ orders = shift
  /\ agreed = [q \in PlanIds |-> NotSure]
NoShift == [r \in Routes |-> 0]
DeskInit == \E shift \in Shifts : DeskStart(shift)

DeskRequest(c) ==
  \/ APICreatePolicy(c) \/ APIUpdatePolicy(c) \/ APIDeletePolicy(c) \/ APIGetPolicy(c) \/ APIListPolicy(c)
  \/ APICreatePlan(c) \/ APIUpdatePlan(c) \/ APIDeletePlan(c) \/ APIGetPlan(c) \/ APIListPlan(c)
  \/ APIRunPlan(c) \/ APIGetJob(c) \/ APIListJob(c)
DeskNext ==
  \/ \E c \in Clerks : DeskRequest(c) \/ DeskStep(c) \/ DeskFails(c) \/ DeskLost(c) \/ Answered(c)
  \/ StrayStep

DeskSpec == DeskInit /\ [][DeskNext]_deskVars

-----------------------------------------------------------------------------

\* Locks, jobs and calls are about plans that there are or have been.
DeskTypeOK ==
  /\ \A q \in DOMAIN base.plans : Holds(base, q) => base.plans[q][1] \in Plan
  /\ base.locked \subseteq DOMAIN base.plans
  /\ \A j \in DOMAIN base.jobs : base.jobs[j] \in [plan : DOMAIN base.plans, remain : BOOLEAN]
  /\ \A k \in {desk[c] : c \in Clerks} \cup strays :
       /\ k.op \in Routes \cup {"none"} /\ k.id \in Nat
       /\ k.op \in {"updatePlan", "deletePlan", "runPlan"} => k.id \in DOMAIN base.plans
       /\ k.op \in {"updatePlan", "runPlan"} /\ k.step \in {"lock", "write"} => k.doc[1] \in Plan
  /\ upsets \in 0..MaxUpsets /\ DOMAIN agreed = PlanIds

Documented(q) == IF Holds(base, q) THEN <<[base.plans[q][1] EXCEPT !.asist = "none"]>> ELSE <<>>
Said(q) == IF agreed[q].doc = <<>> THEN <<>> ELSE <<[agreed[q].doc[1] EXCEPT !.asist = "none"]>>

(* A plan whose calls came one after the other, and met no failure, has the  *)
(* document that they were acknowledged to give it (its assistance aside),   *)
(* also when policies come and go, other plans take and leave names, and     *)
(* calls that were refused or are about other plans run late or twice.       *)
DeskAgrees == \A q \in PlanIds : agreed[q].sure /\ Alone(q) => Documented(q) = Said(q)
=============================================================================
