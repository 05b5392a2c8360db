----------------------------- MODULE ApiProofs ------------------------------
(***************************************************************************)
(* Proofs about two parts of the API.  The desk: for any clerks, requests  *)
(* and failures, a plan is recorded as its acknowledged calls have said,   *)
(* and locks, jobs and writes are of plans that there are or have been.    *)
(* The filter and the enforcer: for any policy files, a request that       *)
(* reaches its handler is one the whole of the rules allows, however few   *)
(* of them were loaded when it asked.                                      *)
(***************************************************************************)
EXTENDS DataflowDesk, Authorization, SequenceTheorems, WellFoundedInduction, TLAPS

-----------------------------------------------------------------------------
(* The invariant of the desk *)

Steps == {"idle", "begin", "lock", "write", "ok", "error"}
IsCall(k) ==
  /\ k = [op |-> k.op, id |-> k.id, want |-> k.want, step |-> k.step, doc |-> k.doc, got |-> k.got,
          upset |-> k.upset, attempt |-> k.attempt]
  /\ k.op \in Routes \cup {"none"} /\ (k.op \in Writing => k.id \in Nat) /\ k.step \in Steps /\ k.upset \in BOOLEAN
IsSeq(s) == \E S : s \in Seq(S)
IsBase(d) ==
  /\ d = [plans |-> d.plans, policies |-> d.policies, jobs |-> d.jobs, locked |-> d.locked]
  /\ IsSeq(d.plans)

\* Calls are about plans that there are.
DeskShape ==
  /\ IsBase(base) /\ DOMAIN desk = Clerks /\ DOMAIN agreed = PlanIds
  /\ \A c \in Clerks : /\ IsCall(desk[c]) /\ (desk[c].op = "none" => desk[c] = NoErrand)
                       /\ desk[c].op \in Writing => desk[c].id <= Len(base.plans)
  /\ \A k \in strays : /\ IsCall(k) /\ Underway(k) /\ k.op # "none"
                       /\ k.op \in Writing => k.id <= Len(base.plans)

\* A plan and what was said of it are the same, the assistance aside.
Stripped(doc) == IF doc = <<>> THEN <<>> ELSE <<[doc[1] EXCEPT !.asist = "none"]>>
Same(doc, said) == Stripped(doc) = Stripped(said)

\* What the call of a clerk that nothing has disturbed finds, or has left.
Undisturbed(c, q) ==
  LET k == desk[c]
      was == agreed[q] IN
  /\ k.op = "createPlan" => k.step = "ok" /\ base.plans[q] = <<Described(k.want)>>
  /\ k.op = "deletePlan" /\ k.step = "ok" => base.plans[q] = <<>>
  /\ was.sure /\ k.step # "ok" => Same(base.plans[q], was.doc)
  /\ was.sure /\ k.op = "updatePlan" /\ k.step \in {"lock", "write"} =>
       k.doc # <<>> /\ was.doc # <<>> /\ Same(<<k.doc[1]>>, Promise(k, was).doc)
  /\ was.sure /\ k.op = "updatePlan" /\ k.step = "ok" =>
       was.doc # <<>> /\ Same(base.plans[q], Promise(k, was).doc)

\* Of one plan: what is said of it is said of a plan there is (1), and not
\* before the call that makes it is over (2); a call that runs on without its
\* clerk leaves a disturbed call behind until nothing is said any more (3); an
\* undisturbed call is the only one (4) and knows what is recorded (5); and
\* when nothing is under way that is what was said (6).
Kept(q) ==
  LET sure == agreed[q].sure IN
  /\ sure => q <= Len(base.plans)
  /\ \A c \in Clerks : OnPlan(desk[c], q) /\ desk[c].op = "createPlan" => ~sure
  /\ \A k \in strays : OnPlan(k, q) =>
       /\ k.op = "createPlan" => ~sure
       /\ sure => \E c \in Clerks : OnPlan(desk[c], q) /\ desk[c].upset
  /\ \A c \in Clerks : OnPlan(desk[c], q) /\ ~desk[c].upset =>
       /\ \A b \in Clerks \ {c} : ~OnPlan(desk[b], q)
       /\ \A k \in strays : ~OnPlan(k, q)
       /\ Undisturbed(c, q)
  /\ sure /\ Alone(q) => Same(base.plans[q], agreed[q].doc)
DeskInv == DeskShape /\ \A q \in PlanIds : Kept(q)

-----------------------------------------------------------------------------
(* What a step of the service does to the plans *)

\* A call stays the one it was.
SameCall(m, k) ==
  IsCall(m) /\ m.op = k.op /\ m.want = k.want /\ m.upset = k.upset /\ m.attempt = k.attempt

LEMMA CallEdits ==
  ASSUME NEW k, IsCall(k), NEW step \in Steps, NEW d, NEW doc, NEW got
  PROVE  /\ Reply(d, k, step).base = d /\ Give(d, k, got).base = d /\ Onward(d, k, step, doc).base = d
         /\ SameCall(Reply(d, k, step).call, k) /\ Reply(d, k, step).call.id = k.id
         /\ Reply(d, k, step).call.step = step /\ Reply(d, k, step).call.doc = k.doc
         /\ SameCall(Give(d, k, got).call, k) /\ Give(d, k, got).call.id = k.id
         /\ Give(d, k, got).call.step = "ok" /\ Give(d, k, got).call.doc = k.doc
         /\ SameCall(Onward(d, k, step, doc).call, k) /\ Onward(d, k, step, doc).call.id = k.id
         /\ Onward(d, k, step, doc).call.step = step /\ Onward(d, k, step, doc).call.doc = doc
BY DEF Reply, Give, Onward, Now, IsCall, SameCall, Steps

LEMMA SeqEdits ==
  ASSUME NEW s, IsSeq(s), NEW e
  PROVE  /\ DOMAIN s = 1..Len(s) /\ Len(s) \in Nat
         /\ IsSeq(Append(s, e)) /\ Len(Append(s, e)) = Len(s) + 1 /\ Append(s, e)[Len(s) + 1] = e
         /\ \A i \in 1..Len(s) : Append(s, e)[i] = s[i]
         /\ \A j \in 1..Len(s) :
              LET t == [s EXCEPT ![j] = e] IN
              IsSeq(t) /\ Len(t) = Len(s) /\ t[j] = e /\ \A i \in 1..Len(s) : i # j => t[i] = s[i]
<1>1. PICK S : s \in Seq(S)
  BY DEF IsSeq
<1>2. s \in Seq(S \cup {e}) /\ e \in S \cup {e}
  BY <1>1
<1>3. Append(s, e) \in Seq(S \cup {e})
  BY <1>2
<1>4. ASSUME NEW j \in 1..Len(s) PROVE [s EXCEPT ![j] = e] \in Seq(S \cup {e})
  BY <1>2, <1>4, ExceptSeq
<1>5. \A j \in 1..Len(s) : Len([s EXCEPT ![j] = e]) = Len(s)
  BY <1>2, ExceptSeq
<1>. QED  BY <1>1, <1>2, <1>3, <1>4, <1>5 DEF IsSeq

\* What the calls that write a plan may come to.
EffectOnPlans(d, k, n) ==
  \/ /\ n.base.plans = d.plans /\ n.call.id = k.id
     /\ k.op = "createPlan" => n.call.step = "error"
     /\ k.op = "updatePlan" =>
          \/ n.call.step = "error"
          \/ /\ Holds(d, k.id) /\ n.call.step = "write"
             /\ n.call.doc = <<Changed(d.plans[k.id][1], k.want)>>
     /\ k.op = "deletePlan" => n.call.step = "error" \/ n.call.step = "write" \/ (~Holds(d, k.id) /\ n.call.step = "ok")
  \/ /\ k.op = "createPlan" /\ n.base.plans = Append(d.plans, <<Described(k.want)>>)
     /\ n.call.id = Len(d.plans) + 1 /\ n.call.step = "ok"
  \/ /\ k.op = "updatePlan" /\ k.step # "begin" /\ k.id \in DOMAIN d.plans
     /\ n.base.plans = [d.plans EXCEPT ![k.id] = <<k.doc[1]>>]
     /\ n.call.id = k.id /\ n.call.step = "ok"
  \/ /\ k.op = "deletePlan" /\ k.step # "begin" /\ k.id \in DOMAIN d.plans
     /\ n.base.plans = [d.plans EXCEPT ![k.id] = <<>>]
     /\ n.call.id = k.id /\ n.call.step = "ok"

LEMMA BaseEdits ==
  ASSUME NEW d, IsBase(d), NEW x
  PROVE  /\ IsBase([d EXCEPT !.policies = x]) /\ [d EXCEPT !.policies = x].plans = d.plans
         /\ IsBase([d EXCEPT !.jobs = x]) /\ [d EXCEPT !.jobs = x].plans = d.plans
         /\ IsBase([d EXCEPT !.locked = x]) /\ [d EXCEPT !.locked = x].plans = d.plans
         /\ IsSeq(x) => IsBase([d EXCEPT !.plans = x]) /\ [d EXCEPT !.plans = x].plans = x
BY DEF IsBase

\* The requests that write no plan.
LEMMA OthersWriteNone ==
  ASSUME NEW d, IsBase(d), NEW k, IsCall(k), Underway(k), k.op \notin Writing, k.op # "none",
         NEW n, n = Served(d, k)
  PROVE  IsBase(n.base) /\ SameCall(n.call, k) /\ n.base.plans = d.plans /\ n.call.id = k.id
<1>. DEFINE Fits(x) == IsBase(x.base) /\ SameCall(x.call, k) /\ x.base.plans = d.plans /\ x.call.id = k.id
<1>1. ASSUME NEW e, IsBase(e), e.plans = d.plans, NEW got
      PROVE  /\ Fits(Reply(e, k, "ok")) /\ Fits(Reply(e, k, "error")) /\ Fits(Give(e, k, got))
             /\ \A doc : Fits(Onward(e, k, "write", doc)) /\ Fits(Onward(e, k, "lock", doc))
  <2>1. \A step \in Steps : Fits(Reply(e, k, step))
    BY <1>1, CallEdits
  <2>2. Fits(Give(e, k, got))
    BY <1>1, CallEdits DEF Steps
  <2>3. \A doc : \A step \in Steps : Fits(Onward(e, k, step, doc))
    BY <1>1, CallEdits
  <2>. HIDE DEF Fits
  <2>. QED  BY <2>1, <2>2, <2>3 DEF Steps
<1>2. /\ \A x : IsBase([d EXCEPT !.policies = x]) /\ [d EXCEPT !.policies = x].plans = d.plans
      /\ \A x : IsBase([d EXCEPT !.jobs = x]) /\ [d EXCEPT !.jobs = x].plans = d.plans
      /\ \A x : IsBase([d EXCEPT !.locked = x]) /\ [d EXCEPT !.locked = x].plans = d.plans
  BY BaseEdits
<1>3. IsBase(Unlocked(d, k)) /\ Unlocked(d, k).plans = d.plans
  BY <1>2 DEF Unlocked
<1>4. \A job : IsBase(InsertJob(Unlocked(d, k), job)) /\ InsertJob(Unlocked(d, k), job).plans = d.plans
  BY <1>3, BaseEdits DEF InsertJob
<1>5. \A pol : /\ IsBase(InsertPolicy(d, pol)) /\ InsertPolicy(d, pol).plans = d.plans
               /\ IsBase(ReplacePolicy(d, k.id, pol)) /\ ReplacePolicy(d, k.id, pol).plans = d.plans
               /\ IsBase(RemovePolicy(d, k.id)) /\ RemovePolicy(d, k.id).plans = d.plans
  BY <1>2 DEF InsertPolicy, ReplacePolicy, RemovePolicy
<1>. SUFFICES Fits(n)
  OBVIOUS
<1>. HIDE DEF Fits
<1>6. CASE k.op = "createPolicy"
  <2>1. n = CreatePolicy(d, k)
    BY <1>6 DEF Served
  <2>. QED  BY <1>1, <1>5, <2>1, Zenon DEF CreatePolicy
<1>7. CASE k.op = "updatePolicy"
  <2>1. n = UpdatePolicy(d, k)
    BY <1>7 DEF Served
  <2>. QED  BY <1>1, <1>5, <2>1, Zenon DEF UpdatePolicy
<1>8. CASE k.op = "deletePolicy"
  <2>1. n = DeletePolicy(d, k)
    BY <1>8 DEF Served
  <2>. QED  BY <1>1, <1>5, <2>1, Zenon DEF DeletePolicy
<1>9. CASE k.op = "getPolicy"
  <2>1. n = GetPolicy(d, k)
    BY <1>9 DEF Served
  <2>. QED  BY <1>1, <2>1, Zenon DEF GetPolicy
<1>10. CASE k.op = "listPolicy"
  <2>1. n = ListPolicy(d, k)
    BY <1>10 DEF Served
  <2>. QED  BY <1>1, <2>1, Zenon DEF ListPolicy
<1>11. CASE k.op = "getPlan"
  <2>1. n = GetPlan(d, k)
    BY <1>11 DEF Served
  <2>. QED  BY <1>1, <2>1, Zenon DEF GetPlan
<1>12. CASE k.op = "getJob"
  <2>1. n = GetJob(d, k)
    BY <1>12 DEF Served
  <2>. QED  BY <1>1, <2>1, Zenon DEF GetJob
<1>13. CASE k.op = "listJob"
  <2>1. n = ListJob(d, k)
    BY <1>13 DEF Served
  <2>. QED  BY <1>1, <2>1, Zenon DEF ListJob
<1>14. CASE k.op = "listPlan"
  <2>1. n = ListPlan(d, k)
    BY <1>14 DEF Served
  <2>. QED  BY <1>1, <2>1, Zenon DEF ListPlan
<1>15. CASE k.op = "runPlan"
  <2>1. n = RunPlan(d, k)
    BY <1>15 DEF Served
  <2>2. \A doc : Fits(Onward([d EXCEPT !.locked = @ \cup {k.id}], k, "write", doc))
    BY <1>1, <1>2, Zenon
  <2>3. k.step \in {"begin", "lock", "write"}
    BY DEF Underway
  <2>. QED  BY <1>1, <1>3, <1>4, <2>1, <2>2, <2>3, Zenon DEF RunPlan
<1>. QED
  BY <1>6, <1>7, <1>8, <1>9, <1>10, <1>11, <1>12, <1>13, <1>14, <1>15 DEF IsCall, Writing, Routes

LEMMA ServedIs ==
  ASSUME NEW d, IsBase(d), NEW k, IsCall(k), Underway(k), k.op # "none", NEW n, n = Served(d, k)
  PROVE  IsBase(n.base) /\ SameCall(n.call, k) /\ EffectOnPlans(d, k, n)
<1>1. CASE k.op \notin Writing
  BY <1>1, OthersWriteNone DEF EffectOnPlans, Writing
<1>2. /\ Reply(d, k, "ok").base = d /\ SameCall(Reply(d, k, "ok").call, k)
      /\ Reply(d, k, "ok").call.id = k.id /\ Reply(d, k, "ok").call.step = "ok"
      /\ Reply(d, k, "error").base = d /\ SameCall(Reply(d, k, "error").call, k)
      /\ Reply(d, k, "error").call.id = k.id /\ Reply(d, k, "error").call.step = "error"
      /\ \A doc : /\ Onward(d, k, "write", doc).base = d /\ SameCall(Onward(d, k, "write", doc).call, k)
                   /\ Onward(d, k, "write", doc).call.id = k.id
                   /\ Onward(d, k, "write", doc).call.step = "write" /\ Onward(d, k, "write", doc).call.doc = doc
  <2>1. "ok" \in Steps /\ "error" \in Steps /\ "write" \in Steps
    BY DEF Steps
  <2>. QED  BY <2>1, CallEdits
<1>3. CASE k.op = "createPlan"
  <2>1. CASE n = Reply(d, k, "error")
    BY <1>2, <1>3, <2>1 DEF EffectOnPlans
  <2>2. ASSUME NEW plan, plan = Described(k.want), NEW got,
               n = Now(InsertPlan(d, plan), [k EXCEPT !.id = Len(d.plans) + 1, !.step = "ok", !.got = got])
        PROVE  IsBase(n.base) /\ SameCall(n.call, k) /\ EffectOnPlans(d, k, n)
    <3>1. IsSeq(d.plans)
      BY DEF IsBase
    <3>2. IsSeq(Append(d.plans, <<plan>>)) /\ Len(d.plans) + 1 \in Nat
      BY <3>1, SeqEdits
    <3>3. IsBase(n.base) /\ n.base.plans = Append(d.plans, <<plan>>)
      <4>1. PICK s : s = Append(d.plans, <<plan>>)
        OBVIOUS
      <4>2. n.base = [d EXCEPT !.plans = s]
        BY <2>2, <4>1 DEF Now, InsertPlan
      <4>3. IsSeq(s)
        BY <3>2, <4>1
      <4>4. IsBase(n.base) /\ n.base.plans = s
        BY <4>2, <4>3 DEF IsBase
      <4>. QED  BY <4>1, <4>4
    <3>4. SameCall(n.call, k) /\ n.call.id = Len(d.plans) + 1 /\ n.call.step = "ok"
      <4>1. PICK id \in Nat : id = Len(d.plans) + 1
        BY <3>2
      <4>2. n.call = [k EXCEPT !.id = id, !.step = "ok", !.got = got]
        BY <2>2, <4>1 DEF Now
      <4>3. SameCall(n.call, k) /\ n.call.id = id /\ n.call.step = "ok"
        BY <4>2 DEF SameCall, IsCall, Steps
      <4>. QED  BY <4>1, <4>3
    <3>. QED  BY <1>3, <2>2, <3>3, <3>4 DEF EffectOnPlans
  <2>. QED  BY <1>3, <2>1, <2>2 DEF Served, CreatePlan
<1>4. k.op \in {"updatePlan", "deletePlan"} /\ k.step # "begin" /\ Holds(d, k.id) =>
        \A slot : LET e == [d EXCEPT !.plans[k.id] = slot] IN
          IsBase(e) /\ e.plans = [d.plans EXCEPT ![k.id] = slot] /\ k.id \in DOMAIN d.plans
  <2>1. IsSeq(d.plans)
    BY DEF IsBase
  <2>2. Holds(d, k.id) => k.id \in DOMAIN d.plans /\ k.id \in 1..Len(d.plans)
    BY <2>1, SeqEdits DEF Holds
  <2>3. \A slot : k.id \in 1..Len(d.plans) => IsSeq([d.plans EXCEPT ![k.id] = slot])
    BY <2>1, SeqEdits
  <2>4. ASSUME NEW slot, k.id \in 1..Len(d.plans)
        PROVE  LET e == [d EXCEPT !.plans[k.id] = slot] IN
               IsBase(e) /\ e.plans = [d.plans EXCEPT ![k.id] = slot]
    <3>1. PICK s : s = [d.plans EXCEPT ![k.id] = slot]
      OBVIOUS
    <3>2. IsSeq(s)
      BY <2>3, <2>4, <3>1
    <3>3. [d EXCEPT !.plans[k.id] = slot] = [d EXCEPT !.plans = s]
      BY <3>1
    <3>4. PICK e : e = [d EXCEPT !.plans = s]
      OBVIOUS
    <3>5. IsBase(e) /\ e.plans = s
      BY <3>2, <3>4 DEF IsBase
    <3>. QED  BY <3>1, <3>3, <3>4, <3>5
  <2>. QED  BY <2>2, <2>4
<1>5. CASE k.op = "updatePlan"
  <2>1. \/ n = Reply(d, k, "error")
        \/ Holds(d, k.id) /\ n = Onward(d, k, "write", <<Changed(d.plans[k.id][1], k.want)>>)
        \/ /\ k.step # "begin" /\ Holds(d, k.id)
           /\ \E got : n = Give(ReplacePlan(d, k.id, k.doc[1]), k, got)
    BY <1>5 DEF Served, UpdatePlan
  <2>2. CASE n = Reply(d, k, "error")
    BY <1>2, <1>5, <2>2 DEF EffectOnPlans
  <2>3. CASE Holds(d, k.id) /\ n = Onward(d, k, "write", <<Changed(d.plans[k.id][1], k.want)>>)
    <3>1. PICK doc : doc = <<Changed(d.plans[k.id][1], k.want)>>
      OBVIOUS
    <3>2. n.base = d /\ SameCall(n.call, k) /\ n.call.id = k.id /\ n.call.step = "write"
          /\ n.call.doc = doc
      BY <1>2, <2>3, <3>1
    <3>. QED  BY <1>5, <2>3, <3>1, <3>2 DEF EffectOnPlans
  <2>4. ASSUME NEW got, k.step # "begin", Holds(d, k.id), n = Give(ReplacePlan(d, k.id, k.doc[1]), k, got)
        PROVE  IsBase(n.base) /\ SameCall(n.call, k) /\ EffectOnPlans(d, k, n)
    <3>1. n.base = ReplacePlan(d, k.id, k.doc[1]) /\ SameCall(n.call, k) /\ n.call.id = k.id /\ n.call.step = "ok"
      BY <2>4, CallEdits DEF Steps
    <3>. QED  BY <1>4, <1>5, <2>4, <3>1 DEF EffectOnPlans, ReplacePlan
  <2>. QED  BY <2>1, <2>2, <2>3, <2>4
<1>6. CASE k.op = "deletePlan"
  <2>1. \/ n = Reply(d, k, "error") \/ (n = Reply(d, k, "ok") /\ ~Holds(d, k.id))
        \/ n = Onward(d, k, "write", <<>>)
        \/ k.step # "begin" /\ Holds(d, k.id) /\ n = Reply(RemovePlan(d, k.id), k, "ok")
    BY <1>6 DEF Served, DeletePlan, Sought
  <2>2. CASE n = Reply(d, k, "error") \/ (n = Reply(d, k, "ok") /\ ~Holds(d, k.id)) \/ n = Onward(d, k, "write", <<>>)
    BY <1>2, <1>6, <2>2 DEF EffectOnPlans
  <2>3. CASE k.step # "begin" /\ Holds(d, k.id) /\ n = Reply(RemovePlan(d, k.id), k, "ok")
    <3>1. n.base = RemovePlan(d, k.id) /\ SameCall(n.call, k) /\ n.call.id = k.id /\ n.call.step = "ok"
      BY <2>3, CallEdits DEF Steps
    <3>. QED  BY <1>4, <1>6, <2>3, <3>1 DEF EffectOnPlans, RemovePlan
  <2>. QED  BY <2>1, <2>2, <2>3
<1>. QED  BY <1>1, <1>3, <1>5, <1>6 DEF Writing

LEMMA FaultedIs ==
  ASSUME NEW d, IsBase(d), NEW k, IsCall(k), Underway(k), k.op # "none", NEW n \in Faulted(d, k)
  PROVE  /\ IsBase(n.base) /\ SameCall(n.call, k) /\ n.call.id = k.id
         /\ n.base.plans = d.plans \/ n.base.plans = Served(d, k).base.plans
<1>. DEFINE Fits(x) == /\ IsBase(x.base) /\ SameCall(x.call, k) /\ x.call.id = k.id
                       /\ x.base.plans = d.plans \/ x.base.plans = Served(d, k).base.plans
<1>1. ASSUME NEW e, IsBase(e), e.plans = d.plans \/ e.plans = Served(d, k).base.plans
      PROVE  /\ \A step \in Steps : Fits(Reply(e, k, step))
             /\ \A doc : \A step \in Steps : Fits(Onward(e, k, step, doc))
  <2>1. ASSUME NEW x, x.base = e, SameCall(x.call, k), x.call.id = k.id PROVE Fits(x)
    BY <1>1, <2>1
  <2>. HIDE DEF Fits
  <2>2. ASSUME NEW step \in Steps PROVE Fits(Reply(e, k, step))
    BY <2>1, CallEdits
  <2>3. ASSUME NEW step \in Steps, NEW doc PROVE Fits(Onward(e, k, step, doc))
    BY <2>1, CallEdits
  <2>. QED  BY <2>2, <2>3
<1>2. IsBase(Unlocked(d, k)) /\ Unlocked(d, k).plans = d.plans
  BY BaseEdits DEF Unlocked
<1>3. IsBase(Served(d, k).base)
  BY ServedIs
<1>4. "ok" \in Steps /\ "error" \in Steps /\ "write" \in Steps
  BY DEF Steps
<1>5. /\ Fits(Reply(d, k, "ok")) /\ Fits(Reply(d, k, "error"))
      /\ \A doc : Fits(Onward(d, k, "write", doc))
      /\ Fits(Reply(Unlocked(d, k), k, "ok")) /\ Fits(Reply(Served(d, k).base, k, "error"))
  <2>. HIDE DEF Fits
  <2>. QED  BY <1>1, <1>2, <1>3, <1>4
<1>. HIDE DEF Fits
<1>6. Fits(n)
  BY <1>5, Zenon DEF Faulted
<1>. QED  BY <1>6 DEF Fits

\* The plans that a step leaves, and the plan its call is about.
LEMMA CallOutcome ==
  ASSUME NEW d, IsBase(d), NEW k, IsCall(k), NEW n, IsBase(n.base), SameCall(n.call, k), EffectOnPlans(d, k, n)
  PROVE  /\ DOMAIN d.plans = 1..Len(d.plans) /\ DOMAIN n.base.plans = 1..Len(n.base.plans)
         /\ Len(d.plans) \in Nat /\ Len(n.base.plans) \in Nat /\ Len(n.base.plans) >= Len(d.plans)
         /\ \A q \in 1..Len(d.plans) : n.base.plans[q] = d.plans[q] \/ OnPlan(k, q)
         /\ n.call.id # k.id =>
              /\ k.op = "createPlan" /\ n.call.step = "ok" /\ n.call.id = Len(d.plans) + 1
              /\ n.base.plans[n.call.id] = <<Described(k.want)>>
         /\ k.op \in Writing /\ k.id <= Len(d.plans) => n.call.id <= Len(n.base.plans)
<1>1. IsSeq(d.plans) /\ IsSeq(n.base.plans)
  BY DEF IsBase
<1>2. /\ DOMAIN d.plans = 1..Len(d.plans) /\ Len(d.plans) \in Nat
      /\ DOMAIN n.base.plans = 1..Len(n.base.plans) /\ Len(n.base.plans) \in Nat
  BY <1>1, SeqEdits
<1>3. k.op \in Writing => k.id \in Nat
  BY DEF IsCall
<1>4. CASE n.base.plans = d.plans /\ n.call.id = k.id
  BY <1>2, <1>3, <1>4
<1>5. CASE /\ k.op = "createPlan" /\ n.base.plans = Append(d.plans, <<Described(k.want)>>)
           /\ n.call.id = Len(d.plans) + 1 /\ n.call.step = "ok"
  <2>1. /\ Len(n.base.plans) = Len(d.plans) + 1
        /\ n.base.plans[Len(d.plans) + 1] = <<Described(k.want)>>
        /\ \A i \in 1..Len(d.plans) : n.base.plans[i] = d.plans[i]
    BY <1>1, <1>5, SeqEdits
  <2>. QED  BY <1>2, <1>3, <1>5, <2>1
<1>6. ASSUME NEW slot, k.op \in Writing, k.id \in DOMAIN d.plans, n.base.plans = [d.plans EXCEPT ![k.id] = slot],
             n.call.id = k.id
      PROVE  /\ Len(n.base.plans) = Len(d.plans)
             /\ \A q \in 1..Len(d.plans) : n.base.plans[q] = d.plans[q] \/ OnPlan(k, q)
  <2>1. /\ Len(n.base.plans) = Len(d.plans)
        /\ \A i \in 1..Len(d.plans) : i # k.id => n.base.plans[i] = d.plans[i]
    BY <1>1, <1>2, <1>6, SeqEdits
  <2>. QED  BY <1>6, <2>1 DEF OnPlan
<1>7. CASE \E slot : /\ k.op \in Writing /\ k.id \in DOMAIN d.plans
                      /\ n.base.plans = [d.plans EXCEPT ![k.id] = slot] /\ n.call.id = k.id
  <2>1. /\ Len(n.base.plans) = Len(d.plans) /\ n.call.id = k.id
        /\ \A q \in 1..Len(d.plans) : n.base.plans[q] = d.plans[q] \/ OnPlan(k, q)
    BY <1>6, <1>7
  <2>. QED  BY <1>2, <1>3, <2>1
<1>8. "updatePlan" \in Writing /\ "deletePlan" \in Writing
  BY DEF Writing
<1>. QED  BY <1>4, <1>5, <1>7, <1>8 DEF EffectOnPlans

-----------------------------------------------------------------------------
(* What an update makes of a plan, and what its acknowledgement says of it *)

LEMMA StrippedEmpty ==
  ASSUME NEW a, NEW b, Same(a, b)
  PROVE  a = <<>> <=> b = <<>>
BY DEF Same, Stripped

LEMMA ChangedAsPromised ==
  ASSUME NEW plan, NEW was, was.sure, was.doc # <<>>, NEW k, k.op = "updatePlan",
         Same(<<plan>>, was.doc)
  PROVE  Same(<<Changed(plan, k.want)>>, Promise(k, was).doc)
<1>. DEFINE said == was.doc[1]
            want == k.want
            next == [f \in DOMAIN said |->
                       IF f \notin DOMAIN want THEN said[f]
                       ELSE IF f = "filter" /\ want[f] = "" THEN "/" ELSE want[f]]
            made == Changed(plan, want)
<1>1. Promise(k, was).doc = <<next>>
  BY DEF Promise, Sure
<1>2. [plan EXCEPT !.asist = "none"] = [said EXCEPT !.asist = "none"]
  BY DEF Same, Stripped
<1>3. DOMAIN plan = DOMAIN said
  BY <1>2
<1>4. \A f \in DOMAIN plan : f # "asist" => plan[f] = said[f]
  BY <1>2
<1>5. DOMAIN made = DOMAIN plan /\ DOMAIN next = DOMAIN plan
  BY <1>3 DEF Changed
<1>6. ASSUME NEW f \in DOMAIN plan, f # "asist"
      PROVE  made[f] = next[f]
  BY <1>3, <1>4, <1>6 DEF Changed
<1>7. [made EXCEPT !.asist = "none"] = [next EXCEPT !.asist = "none"]
  <2>. DEFINE A == [made EXCEPT !.asist = "none"]
              B == [next EXCEPT !.asist = "none"]
  <2>1. A = [f \in DOMAIN plan |-> A[f]] /\ B = [f \in DOMAIN plan |-> B[f]]
    BY <1>5
  <2>2. \A f \in DOMAIN plan : A[f] = B[f]
    BY <1>5, <1>6
  <2>. QED  BY <2>1, <2>2
<1>8. Stripped(<<made>>) = <<[made EXCEPT !.asist = "none"]>> /\ Stripped(<<next>>) = <<[next EXCEPT !.asist = "none"]>>
  <2>. HIDE DEF made, next
  <2>. QED  BY DEF Stripped
<1>9. Stripped(<<made>>) = Stripped(<<next>>)
  BY <1>7, <1>8, Zenon
<1>. QED  BY <1>1, <1>9, Zenon DEF Same

-----------------------------------------------------------------------------
(* What keeps what is known of a plan *)

\* Nothing about the plan changes but that it may come into being.
LEMMA Untouched ==
  ASSUME NEW q \in PlanIds, Kept(q), agreed'[q] = agreed[q],
         DOMAIN desk = Clerks, DOMAIN desk' = Clerks,
         \A c \in Clerks : /\ OnPlan(desk'[c], q) => OnPlan(desk[c], q)
                           /\ OnPlan(desk[c], q) => desk'[c] = desk[c],
         \A k \in strays' : OnPlan(k, q) => k \in strays,
         \A k \in strays : OnPlan(k, q) => k \in strays',
         Len(base.plans) \in Nat, Len(base'.plans) \in Nat, Len(base'.plans) >= Len(base.plans),
         base'.plans[q] = base.plans[q] \/ (q > Len(base.plans) /\ \A c \in Clerks : ~OnPlan(desk[c], q))
  PROVE  Kept(q)'
<1>. DEFINE sure == agreed[q].sure
<1>0. q \in Nat
  BY DEF PlanIds
<1>1. sure => q <= Len(base.plans) /\ q <= Len(base'.plans)
  BY <1>0 DEF Kept
<1>2. \A c \in Clerks : OnPlan(desk'[c], q) /\ desk'[c].op = "createPlan" => ~sure
  BY DEF Kept
<1>3. \A k \in strays' : OnPlan(k, q) =>
        /\ k.op = "createPlan" => ~sure
        /\ sure => \E c \in Clerks : OnPlan(desk'[c], q) /\ desk'[c].upset
  BY DEF Kept
<1>4. ASSUME NEW c \in Clerks, OnPlan(desk'[c], q), ~desk'[c].upset
      PROVE  /\ \A b \in Clerks \ {c} : ~OnPlan(desk'[b], q)
             /\ \A k \in strays' : ~OnPlan(k, q)
             /\ Undisturbed(c, q)'
  <2>1. desk'[c] = desk[c] /\ OnPlan(desk[c], q) /\ ~desk[c].upset /\ base'.plans[q] = base.plans[q]
    BY <1>4
  <2>2. Undisturbed(c, q) /\ \A b \in Clerks \ {c} : ~OnPlan(desk[b], q)
    BY <2>1 DEF Kept
  <2>3. Undisturbed(c, q)'
    BY <2>1, <2>2 DEF Undisturbed
  <2>4. \A k \in strays : ~OnPlan(k, q)
    BY <2>1 DEF Kept
  <2>. QED  BY <2>2, <2>3, <2>4
<1>5. sure /\ Alone(q)' => Same(base'.plans[q], agreed[q].doc)
  <2>1. SUFFICES ASSUME sure, Alone(q)' PROVE Same(base'.plans[q], agreed[q].doc)
    OBVIOUS
  <2>2. Alone(q) /\ base'.plans[q] = base.plans[q]
    BY <1>0, <1>1, <2>1 DEF Alone
  <2>. QED  BY <2>1, <2>2 DEF Kept
<1>. QED  BY <1>1, <1>2, <1>3, <1>4, <1>5 DEF Kept

\* A clerk is on the plan with a call that was disturbed.
LEMMA Disturbed ==
  ASSUME NEW q \in PlanIds, Kept(q), agreed'[q] = agreed[q],
         NEW c \in Clerks, OnPlan(desk[c], q), OnPlan(desk'[c], q), desk'[c].upset,
         desk'[c].op = desk[c].op, \A b \in Clerks \ {c} : desk'[b] = desk[b],
         \A k \in strays' : OnPlan(k, q) => k \in strays \/ k.op = desk[c].op,
         Len(base.plans) \in Nat, Len(base'.plans) \in Nat, Len(base'.plans) >= Len(base.plans)
  PROVE  Kept(q)'
<1>. DEFINE sure == agreed[q].sure
<1>0. q \in Nat
  BY DEF PlanIds
<1>1. sure => q <= Len(base'.plans)
  BY <1>0 DEF Kept
<1>2. \A b \in Clerks : OnPlan(desk'[b], q) /\ desk'[b].op = "createPlan" => ~sure
  BY DEF Kept
<1>3. \A k \in strays' : OnPlan(k, q) =>
        /\ k.op = "createPlan" => ~sure
        /\ sure => \E b \in Clerks : OnPlan(desk'[b], q) /\ desk'[b].upset
  BY DEF Kept
<1>4. \A b \in Clerks : ~(OnPlan(desk'[b], q) /\ ~desk'[b].upset)
  <2>1. SUFFICES ASSUME NEW b \in Clerks, OnPlan(desk'[b], q), ~desk'[b].upset PROVE FALSE
    OBVIOUS
  <2>2. b # c
    BY <2>1
  <2>3. OnPlan(desk[b], q) /\ ~desk[b].upset
    BY <2>1, <2>2
  <2>. QED  BY <2>2, <2>3 DEF Kept
<1>5. ~Alone(q)'
  BY DEF Alone
<1>. QED  BY <1>1, <1>2, <1>3, <1>4, <1>5 DEF Kept

\* Nothing is said of the plan, and who is on it is alone there or disturbed.
LEMMA Unsaid ==
  ASSUME NEW q \in PlanIds, ~agreed'[q].sure,
         \A c \in Clerks : OnPlan(desk'[c], q) /\ ~desk'[c].upset =>
           /\ \A b \in Clerks \ {c} : ~OnPlan(desk'[b], q)
           /\ \A k \in strays' : ~OnPlan(k, q)
           /\ Undisturbed(c, q)'
  PROVE  Kept(q)'
BY DEF Kept

-----------------------------------------------------------------------------
(* The invariant, of each step *)

LEMMA DeskStarts ==
  ASSUME NEW shift, DeskStart(shift)
  PROVE  DeskInv
<1>1. DeskStart(shift)
  OBVIOUS
<1>2. /\ base = [plans |-> <<>>, policies |-> <<>>, jobs |-> <<>>, locked |-> {}]
      /\ desk = [c \in Clerks |-> NoErrand] /\ strays = {}
      /\ agreed = [q \in PlanIds |-> NotSure]
  BY <1>1 DEF DeskStart
<1>3. IsBase(base)
  <2>1. <<>> \in Seq({})
    OBVIOUS
  <2>2. IsSeq(<<>>)
    BY <2>1 DEF IsSeq
  <2>. QED  BY <1>2, <2>2 DEF IsBase
<1>4. IsCall(NoErrand) /\ NoErrand.op = "none"
  BY DEF NoErrand, IsCall, Steps
<1>5. \A c \in Clerks : desk[c] = NoErrand
  BY <1>2
<1>6. "none" \notin Writing
  BY DEF Writing
<1>7. DeskShape
  <2>1. \A c \in Clerks : IsCall(desk[c]) /\ desk[c].op \notin Writing /\ desk[c] = NoErrand
    BY <1>4, <1>5, <1>6
  <2>. QED  BY <1>2, <1>3, <2>1 DEF DeskShape
<1>8. ASSUME NEW q \in PlanIds PROVE Kept(q)
  <2>1. ~agreed[q].sure
    BY <1>2 DEF NotSure
  <2>2. \A c \in Clerks : ~OnPlan(desk[c], q)
    BY <1>4, <1>5, <1>6 DEF OnPlan
  <2>. QED  BY <1>2, <2>1, <2>2 DEF Kept
<1>. QED  BY <1>7, <1>8 DEF DeskInv

\* The calls of DeskShape, after a step.
CallFits(k, d) ==
  /\ IsCall(k) /\ (k.op = "none" => k = NoErrand)
  /\ k.op \in Writing => k.id <= Len(d.plans)

LEMMA ShapeStays ==
  ASSUME DeskShape, IsBase(base'), Len(base.plans) \in Nat, Len(base'.plans) \in Nat,
         Len(base'.plans) >= Len(base.plans), DOMAIN desk' = Clerks, DOMAIN agreed' = PlanIds,
         \A c \in Clerks : desk'[c] = desk[c] \/ CallFits(desk'[c], base'),
         \A k \in strays' : k \in strays \/ (CallFits(k, base') /\ Underway(k) /\ k.op # "none")
  PROVE  DeskShape'
<1>1. \A k : IsCall(k) => (k.op \in Writing => k.id \in Nat)
  BY DEF IsCall
<1>2. \A c \in Clerks : CallFits(desk'[c], base')
  BY <1>1 DEF DeskShape, CallFits
<1>3. \A k \in strays' : CallFits(k, base') /\ Underway(k) /\ k.op # "none"
  BY <1>1 DEF DeskShape, CallFits
<1>. QED  BY <1>2, <1>3 DEF DeskShape, CallFits

LEMMA PlanIdsCount ==
  ASSUME NEW q \in PlanIds
  PROVE  q \in Nat /\ q # 0
BY DEF PlanIds

\* A request comes in.
LEMMA AskKeeps ==
  ASSUME DeskInv, NEW c \in Clerks, NEW op \in Routes, NEW id, NEW want, Ask(c, op, id, want),
         op = "createPlan" => id = 0, op \in Writing => id \in 0..Len(base.plans)
  PROVE  DeskInv'
<1>. DEFINE k == Errand(op, id, want)
            busy == op \in Writing /\ id # 0 /\ ~Alone(id)
            asked == [k EXCEPT !.upset = busy]
            After(b) == IF b = c THEN asked
                        ELSE IF busy /\ OnPlan(desk[b], id) THEN [desk[b] EXCEPT !.upset = TRUE] ELSE desk[b]
<1>0. /\ DeskShape /\ DOMAIN desk = Clerks /\ DOMAIN agreed = PlanIds /\ IsBase(base)
      /\ \A b \in Clerks : CallFits(desk[b], base)
      /\ \A q \in PlanIds : Kept(q)
  BY DEF DeskInv, DeskShape, CallFits
<1>1. Len(base.plans) \in Nat
  <2>1. IsSeq(base.plans)
    BY <1>0 DEF IsBase
  <2>. QED  BY <2>1, SeqEdits
<1>2. /\ base' = base /\ strays' = strays /\ desk' = [b \in Clerks |-> After(b)]
      /\ agreed' = IF busy THEN [agreed EXCEPT ![id] = NotSure] ELSE agreed
      /\ desk[c] = NoErrand
  BY DEF Ask
<1>3. DOMAIN desk' = Clerks /\ DOMAIN agreed' = PlanIds /\ \A b \in Clerks : desk'[b] = After(b)
  <2>. HIDE DEF After, busy
  <2>. QED  BY <1>0, <1>2
<1>4. busy \in BOOLEAN
  OBVIOUS
<1>5. /\ IsCall(asked) /\ asked.op = op /\ asked.id = id /\ asked.upset = busy /\ asked.step = "begin"
      /\ op # "none"
  <2>1. op # "none"
    BY DEF Routes
  <2>. HIDE DEF busy
  <2>. QED  BY <1>4, <2>1 DEF Errand, IsCall, Steps
<1>6. ASSUME NEW x, IsCall(x)
      PROVE  /\ IsCall([x EXCEPT !.upset = TRUE]) /\ [x EXCEPT !.upset = TRUE].upset
             /\ [x EXCEPT !.upset = TRUE].op = x.op /\ [x EXCEPT !.upset = TRUE].id = x.id
  <2>1. PICK y : y = [x EXCEPT !.upset = TRUE]
    OBVIOUS
  <2>2. /\ y.op = x.op /\ y.id = x.id /\ y.step = x.step /\ y.upset = TRUE
        /\ y = [op |-> y.op, id |-> y.id, want |-> y.want, step |-> y.step, doc |-> y.doc, got |-> y.got,
                upset |-> y.upset, attempt |-> y.attempt]
    BY <1>6, <2>1 DEF IsCall
  <2>3. IsCall(y)
    BY <1>6, <2>2 DEF IsCall
  <2>. QED  BY <2>1, <2>2, <2>3
<1>. HIDE DEF asked, busy
<1>7. desk'[c] = asked
  BY <1>3
<1>8. ASSUME NEW b \in Clerks \ {c}
      PROVE  /\ desk'[b] = IF busy /\ OnPlan(desk[b], id) THEN [desk[b] EXCEPT !.upset = TRUE] ELSE desk[b]
             /\ desk'[b].op = desk[b].op /\ desk'[b].id = desk[b].id /\ IsCall(desk'[b])
  <2>1. desk'[b] = After(b) /\ b \in Clerks
    BY <1>3
  <2>2. desk'[b] = IF busy /\ OnPlan(desk[b], id) THEN [desk[b] EXCEPT !.upset = TRUE] ELSE desk[b]
    BY <2>1
  <2>3. IsCall(desk[b])
    BY <1>0, <2>1 DEF CallFits
  <2>. QED  BY <1>6, <2>2, <2>3
<1>. HIDE DEF After
<1>9. DeskShape'
  <2>1. \A b \in Clerks : desk'[b] = desk[b] \/ CallFits(desk'[b], base')
    <3>1. ASSUME NEW b \in Clerks, b # c PROVE desk'[b] = desk[b] \/ CallFits(desk'[b], base')
      <4>1. CASE busy /\ OnPlan(desk[b], id)
        BY <1>0, <1>2, <1>8, <3>1, <4>1 DEF CallFits, OnPlan, Writing
      <4>2. CASE ~(busy /\ OnPlan(desk[b], id))
        BY <1>8, <3>1, <4>2
      <4>. QED  BY <4>1, <4>2
    <3>2. CallFits(desk'[c], base')
      BY <1>2, <1>5, <1>7 DEF CallFits
    <3>. QED  BY <3>1, <3>2
  <2>. QED  BY <1>0, <1>1, <1>2, <1>3, <2>1, ShapeStays
<1>10. ASSUME NEW q \in PlanIds, ~(op \in Writing /\ q = id) PROVE Kept(q)'
  <2>1. agreed'[q] = agreed[q]
    BY <1>0, <1>2, <1>10 DEF busy
  <2>2. ~OnPlan(desk'[c], q) /\ ~OnPlan(desk[c], q)
    BY <1>2, <1>5, <1>7, <1>10 DEF OnPlan, NoErrand, Writing
  <2>3. ASSUME NEW b \in Clerks
        PROVE  /\ OnPlan(desk'[b], q) => OnPlan(desk[b], q)
               /\ OnPlan(desk[b], q) => desk'[b] = desk[b]
    <3>1. CASE b = c
      BY <2>2, <3>1
    <3>2. CASE b # c
      BY <1>8, <1>10, <3>2 DEF OnPlan, busy
    <3>. QED  BY <3>1, <3>2
  <2>. QED  BY <1>0, <1>1, <1>2, <1>3, <2>1, <2>3, Untouched
<1>11. ASSUME NEW q \in PlanIds, op \in Writing, q = id, busy PROVE Kept(q)'
  <2>1. ~agreed'[q].sure
    BY <1>0, <1>2, <1>11 DEF NotSure
  <2>2. \A b \in Clerks : OnPlan(desk'[b], q) => desk'[b].upset
    <3>1. ASSUME NEW b \in Clerks, b # c, OnPlan(desk'[b], q) PROVE desk'[b].upset
      <4>1. OnPlan(desk[b], q) /\ IsCall(desk[b])
        BY <1>0, <1>8, <3>1 DEF OnPlan, CallFits
      <4>. QED  BY <1>6, <1>8, <1>11, <3>1, <4>1
    <3>2. desk'[c].upset
      BY <1>5, <1>7, <1>11
    <3>. QED  BY <3>1, <3>2
  <2>. QED  BY <2>1, <2>2, Unsaid
<1>12. ASSUME NEW q \in PlanIds, op \in Writing, q = id, ~busy PROVE Kept(q)'
  <2>1. q # 0 /\ q \in Nat
    BY PlanIdsCount
  <2>2. Alone(q) /\ agreed' = agreed /\ op # "createPlan"
    BY <1>2, <1>12, <2>1 DEF busy
  <2>3. \A b \in Clerks \ {c} : desk'[b] = desk[b] /\ ~OnPlan(desk'[b], q)
    BY <1>8, <1>12, <2>2 DEF Alone
  <2>4. \A k_1 \in strays' : ~OnPlan(k_1, q)
    BY <1>2, <2>2 DEF Alone
  <2>5. OnPlan(desk'[c], q) /\ ~desk'[c].upset /\ desk'[c].step = "begin" /\ desk'[c].op # "createPlan"
    BY <1>5, <1>7, <1>12, <2>2 DEF OnPlan
  <2>6. agreed[q].sure => Same(base.plans[q], agreed[q].doc)
    BY <1>0, <2>2 DEF Kept
  <2>7. Undisturbed(c, q)'
    BY <1>2, <2>2, <2>5, <2>6 DEF Undisturbed
  <2>8. agreed'[q].sure => q <= Len(base'.plans)
    BY <1>2, <1>12
  <2>9. ~Alone(q)'
    BY <2>5 DEF Alone
  <2>. QED  BY <2>3, <2>4, <2>5, <2>7, <2>8, <2>9 DEF Kept
<1>. QED  BY <1>9, <1>10, <1>11, <1>12 DEF DeskInv

LEMMA RequestKeeps ==
  ASSUME DeskInv, NEW c \in Clerks, DeskRequest(c)
  PROVE  DeskInv'
<1>1. DOMAIN base.plans = 1..Len(base.plans) /\ Len(base.plans) \in Nat
  <2>1. IsSeq(base.plans)
    BY DEF DeskInv, DeskShape, IsBase
  <2>. QED  BY <2>1, SeqEdits
<1>2. \A q \in DOMAIN base.plans : q \in 0..Len(base.plans)
  BY <1>1
<1>3. 0 \in 0..Len(base.plans)
  BY <1>1
<1>. DEFINE Good(op, id) == /\ op \in Routes /\ (op = "createPlan" => id = 0)
                            /\ op \in Writing => id \in 0..Len(base.plans)
<1>4. \E op, id, want : Good(op, id) /\ Ask(c, op, id, want)
  <2>1. /\ \A id : /\ Good("createPolicy", id) /\ Good("updatePolicy", id) /\ Good("deletePolicy", id)
                    /\ Good("getPolicy", id) /\ Good("listPolicy", id) /\ Good("getPlan", id)
                    /\ Good("listPlan", id) /\ Good("runPlan", id) /\ Good("getJob", id) /\ Good("listJob", id)
        /\ Good("createPlan", 0)
        /\ \A q \in DOMAIN base.plans : Good("updatePlan", q) /\ Good("deletePlan", q)
    BY <1>2, <1>3 DEF Routes, Writing
  <2>. HIDE DEF Good
  <2>. QED
    BY <2>1, Zenon DEF DeskRequest, APICreatePolicy, APIUpdatePolicy, APIDeletePolicy, APIGetPolicy, APIListPolicy,
         APICreatePlan, APIUpdatePlan, APIDeletePlan, APIGetPlan, APIListPlan, APIRunPlan, APIGetJob, APIListJob
<1>. QED  BY <1>4, AskKeeps

\* The service takes a step with the call of a clerk.
LEMMA DeskStepKeeps ==
  ASSUME DeskInv, NEW c \in Clerks, DeskStep(c)
  PROVE  DeskInv'
<1>0. /\ DeskShape /\ DOMAIN desk = Clerks /\ DOMAIN agreed = PlanIds /\ IsBase(base)
      /\ \A b \in Clerks : CallFits(desk[b], base)
      /\ \A q \in PlanIds : Kept(q)
  BY DEF DeskInv, DeskShape, CallFits
<1>1. PICK k : k = desk[c]
  OBVIOUS
<1>2. PICK n : n = Served(base, k)
  OBVIOUS
<1>3. /\ Underway(k) /\ base' = n.base /\ desk' = [desk EXCEPT ![c] = n.call]
      /\ strays' = strays /\ agreed' = agreed
  BY <1>1, <1>2 DEF DeskStep
<1>4. IsCall(k) /\ k.op # "none" /\ (k.op \in Writing => k.id <= Len(base.plans))
  BY <1>0, <1>1, <1>3 DEF CallFits, NoErrand, Underway
<1>5. IsBase(n.base) /\ SameCall(n.call, k) /\ EffectOnPlans(base, k, n)
  BY <1>0, <1>2, <1>3, <1>4, ServedIs
<1>6. /\ DOMAIN base.plans = 1..Len(base.plans) /\ DOMAIN base'.plans = 1..Len(base'.plans)
      /\ Len(base.plans) \in Nat /\ Len(base'.plans) \in Nat /\ Len(base'.plans) >= Len(base.plans)
      /\ \A q \in 1..Len(base.plans) : base'.plans[q] = base.plans[q] \/ OnPlan(k, q)
      /\ n.call.id # k.id =>
           /\ k.op = "createPlan" /\ n.call.step = "ok" /\ n.call.id = Len(base.plans) + 1
           /\ base'.plans[n.call.id] = <<Described(k.want)>>
      /\ k.op \in Writing /\ k.id <= Len(base.plans) => n.call.id <= Len(base'.plans)
  BY <1>0, <1>3, <1>4, <1>5, CallOutcome
<1>7. /\ IsCall(n.call) /\ n.call.op = k.op /\ n.call.want = k.want /\ n.call.upset = k.upset
      /\ k.upset \in BOOLEAN
  BY <1>4, <1>5 DEF SameCall, IsCall
<1>8. /\ DOMAIN desk' = Clerks /\ desk'[c] = n.call
      /\ \A b \in Clerks \ {c} : desk'[b] = desk[b]
  BY <1>0, <1>3
<1>9. DeskShape'
  <2>1. CallFits(n.call, base')
    BY <1>4, <1>6, <1>7 DEF CallFits
  <2>. QED  BY <1>0, <1>3, <1>5, <1>6, <1>8, <2>1, ShapeStays
<1>10. ASSUME NEW q \in PlanIds, ~OnPlan(k, q), ~OnPlan(n.call, q) PROVE Kept(q)'
  <2>1. q \in Nat /\ q # 0
    BY PlanIdsCount
  <2>2. \A b \in Clerks : /\ OnPlan(desk'[b], q) => OnPlan(desk[b], q)
                          /\ OnPlan(desk[b], q) => desk'[b] = desk[b]
    BY <1>1, <1>8, <1>10
  <2>3. q <= Len(base.plans) => base'.plans[q] = base.plans[q]
    BY <1>6, <1>10, <2>1
  <2>4. q > Len(base.plans) => \A b \in Clerks : ~OnPlan(desk[b], q)
    BY <1>0, <1>6, <2>1 DEF CallFits, OnPlan
  <2>5. q <= Len(base.plans) \/ q > Len(base.plans)
    BY <1>6, <2>1
  <2>. QED  BY <1>0, <1>3, <1>6, <1>8, <2>2, <2>3, <2>4, <2>5, Untouched
<1>11. ASSUME NEW q \in PlanIds, ~OnPlan(k, q), OnPlan(n.call, q) PROVE Kept(q)'
  <2>1. /\ n.call.id = q /\ n.call.id # k.id
    BY <1>7, <1>11 DEF OnPlan
  <2>2. /\ k.op = "createPlan" /\ n.call.step = "ok" /\ q = Len(base.plans) + 1
        /\ base'.plans[q] = <<Described(k.want)>>
    BY <1>6, <2>1
  <2>3. ~agreed'[q].sure
    BY <1>0, <1>3, <1>6, <2>2 DEF Kept
  <2>4. \A b \in Clerks : OnPlan(desk'[b], q) => b = c
    <3>1. \A b \in Clerks \ {c} : desk'[b] = desk[b] /\ CallFits(desk[b], base)
      BY <1>0, <1>8
    <3>. QED  BY <1>6, <2>2, <3>1 DEF CallFits, OnPlan
  <2>5. \A s \in strays' : ~OnPlan(s, q)
    BY <1>0, <1>3, <1>6, <2>2 DEF DeskShape, OnPlan
  <2>6. Undisturbed(c, q)'
    BY <1>7, <1>8, <2>2, <2>3 DEF Undisturbed
  <2>. QED  BY <2>3, <2>4, <2>5, <2>6, Unsaid
<1>12. ASSUME NEW q \in PlanIds, OnPlan(k, q), k.upset, OnPlan(n.call, q) PROVE Kept(q)'
  BY <1>0, <1>1, <1>3, <1>6, <1>7, <1>8, <1>12, Disturbed
<1>13. ASSUME NEW q \in PlanIds, OnPlan(k, q), ~OnPlan(n.call, q) PROVE Kept(q)'
  <2>1. k.op = "createPlan"
    BY <1>6, <1>7, <1>13 DEF OnPlan
  <2>2. ~agreed'[q].sure
    BY <1>0, <1>1, <1>3, <1>13, <2>1 DEF Kept
  <2>3. \A b \in Clerks : OnPlan(desk'[b], q) => desk'[b].upset
    <3>1. SUFFICES ASSUME NEW b \in Clerks, OnPlan(desk'[b], q), ~desk'[b].upset PROVE FALSE
      OBVIOUS
    <3>2. b # c /\ OnPlan(desk[b], q) /\ ~desk[b].upset
      BY <1>8, <1>13, <3>1
    <3>. QED  BY <1>0, <1>1, <1>13, <3>2 DEF Kept
  <2>. QED  BY <2>2, <2>3, Unsaid
<1>14. ASSUME NEW q \in PlanIds, OnPlan(k, q), ~k.upset, OnPlan(n.call, q) PROVE Kept(q)'
  <2>. DEFINE was == agreed[q]
  <2>1. /\ \A b \in Clerks \ {c} : ~OnPlan(desk[b], q)
        /\ \A s \in strays : ~OnPlan(s, q)
        /\ Undisturbed(c, q)
    BY <1>0, <1>1, <1>14 DEF Kept
  <2>2. k.id = q /\ n.call.id = q /\ k.op \in Writing /\ q \in 1..Len(base.plans)
    <3>1. q \in Nat /\ q # 0
      BY PlanIdsCount
    <3>. QED  BY <1>4, <1>6, <1>14, <3>1 DEF OnPlan
  <2>3. k.op # "createPlan" /\ k.step \notin {"ok", "error"}
    BY <1>1, <1>3, <2>1 DEF Undisturbed, Underway
  <2>4. was.sure => Same(base.plans[q], was.doc)
    BY <1>1, <2>1, <2>3 DEF Undisturbed
  <2>5. Promise(n.call, was) = Promise(k, was)
    BY <1>7 DEF Promise
  <2>6. Undisturbed(c, q)'
    <3>1. CASE k.op = "deletePlan"
      <4>1. \/ base'.plans = base.plans /\ n.call.step \in {"error", "write"}
            \/ base'.plans = base.plans /\ n.call.step = "ok" /\ ~Holds(base, q)
            \/ base'.plans = [base.plans EXCEPT ![q] = <<>>] /\ n.call.step = "ok"
        BY <1>3, <1>5, <2>2, <3>1 DEF EffectOnPlans
      <4>2. n.call.step = "ok" => base'.plans[q] = <<>>
        BY <1>6, <2>2, <4>1 DEF Holds
      <4>3. n.call.step # "ok" => base'.plans = base.plans
        BY <4>1
      <4>. QED  BY <1>3, <1>7, <1>8, <2>4, <3>1, <4>2, <4>3 DEF Undisturbed
    <3>2. CASE k.op = "updatePlan"
      <4>1. \/ base'.plans = base.plans /\ n.call.step = "error"
            \/ /\ base'.plans = base.plans /\ Holds(base, q) /\ n.call.step = "write"
               /\ n.call.doc = <<Changed(base.plans[q][1], k.want)>>
            \/ /\ base'.plans = [base.plans EXCEPT ![q] = <<k.doc[1]>>] /\ n.call.step = "ok"
               /\ k.step # "begin"
        BY <1>3, <1>5, <2>2, <3>2 DEF EffectOnPlans
      <4>2. CASE base'.plans = base.plans /\ n.call.step = "error"
        BY <1>3, <1>7, <1>8, <2>4, <3>2, <4>2 DEF Undisturbed
      <4>3. CASE /\ base'.plans = base.plans /\ Holds(base, q) /\ n.call.step = "write"
                 /\ n.call.doc = <<Changed(base.plans[q][1], k.want)>>
        <5>1. ASSUME was.sure
              PROVE  was.doc # <<>> /\ Same(<<n.call.doc[1]>>, Promise(k, was).doc)
          <6>1. was.doc # <<>>
            BY <2>4, <4>3, <5>1, StrippedEmpty DEF Holds
          <6>2. Same(<<base.plans[q][1]>>, was.doc)
            BY <2>4, <4>3, <5>1 DEF Holds, Same, Stripped
          <6>3. n.call.doc[1] = Changed(base.plans[q][1], k.want)
            BY <4>3
          <6>. QED  BY <3>2, <5>1, <6>1, <6>2, <6>3, ChangedAsPromised
        <5>2. n.call.doc # <<>>
          BY <4>3
        <5>. QED  BY <1>3, <1>7, <1>8, <2>4, <2>5, <3>2, <4>3, <5>1, <5>2 DEF Undisturbed
      <4>4. CASE /\ base'.plans = [base.plans EXCEPT ![q] = <<k.doc[1]>>] /\ n.call.step = "ok"
                 /\ k.step # "begin"
        <5>1. base'.plans[q] = <<k.doc[1]>>
          BY <1>6, <2>2, <4>4
        <5>2. k.step \in {"lock", "write"}
          BY <1>3, <4>4 DEF Underway
        <5>3. was.sure => was.doc # <<>> /\ Same(<<k.doc[1]>>, Promise(k, was).doc)
          BY <1>1, <2>1, <3>2, <5>2 DEF Undisturbed
        <5>. QED  BY <1>3, <1>7, <1>8, <2>5, <3>2, <4>4, <5>1, <5>3 DEF Undisturbed
      <4>. QED  BY <4>1, <4>2, <4>3, <4>4
    <3>. QED  BY <2>2, <2>3, <3>1, <3>2 DEF Writing
  <2>7. /\ \A b \in Clerks \ {c} : ~OnPlan(desk'[b], q)
        /\ \A s \in strays' : ~OnPlan(s, q)
        /\ OnPlan(desk'[c], q) /\ desk'[c].op # "createPlan"
    BY <1>3, <1>7, <1>8, <1>14, <2>1, <2>3
  <2>8. q <= Len(base'.plans)
    BY <1>6, <2>2
  <2>9. ~Alone(q)'
    BY <2>7 DEF Alone
  <2>. QED  BY <2>6, <2>7, <2>8, <2>9 DEF Kept
<1>. QED  BY <1>7, <1>9, <1>10, <1>11, <1>12, <1>13, <1>14 DEF DeskInv

\* The database fails at a step.
LEMMA DeskFailsKeeps ==
  ASSUME DeskInv, NEW c \in Clerks, DeskFails(c)
  PROVE  DeskInv'
<1>0. /\ DeskShape /\ DOMAIN desk = Clerks /\ DOMAIN agreed = PlanIds /\ IsBase(base)
      /\ \A b \in Clerks : CallFits(desk[b], base)
      /\ \A q \in PlanIds : Kept(q)
  BY DEF DeskInv, DeskShape, CallFits
<1>1. PICK k : k = desk[c]
  OBVIOUS
<1>2. PICK n \in Faulted(base, k) : base' = n.base /\ desk' = [desk EXCEPT ![c] = [n.call EXCEPT !.upset = TRUE]]
  BY <1>1 DEF DeskFails
<1>3. Underway(k) /\ strays' = strays /\ agreed' = agreed
  BY <1>1 DEF DeskFails
<1>4. IsCall(k) /\ k.op # "none" /\ (k.op \in Writing => k.id <= Len(base.plans))
  BY <1>0, <1>1, <1>3 DEF CallFits, NoErrand, Underway
<1>5. PICK m : m = Served(base, k)
  OBVIOUS
<1>6. IsBase(m.base) /\ SameCall(m.call, k) /\ EffectOnPlans(base, k, m)
  BY <1>0, <1>3, <1>4, <1>5, ServedIs
<1>7. /\ IsBase(base') /\ SameCall(n.call, k) /\ n.call.id = k.id
      /\ base'.plans = base.plans \/ base'.plans = m.base.plans
  <2>1. n.base.plans = base.plans \/ n.base.plans = Served(base, k).base.plans
    BY <1>0, <1>2, <1>3, <1>4, FaultedIs
  <2>2. IsBase(n.base) /\ SameCall(n.call, k) /\ n.call.id = k.id
    BY <1>0, <1>2, <1>3, <1>4, FaultedIs
  <2>. QED  BY <1>2, <1>5, <2>1, <2>2
<1>8. /\ Len(base.plans) \in Nat /\ Len(m.base.plans) \in Nat /\ Len(m.base.plans) >= Len(base.plans)
      /\ \A q \in 1..Len(base.plans) : m.base.plans[q] = base.plans[q] \/ OnPlan(k, q)
  BY <1>0, <1>4, <1>6, CallOutcome
<1>9. /\ Len(base'.plans) \in Nat /\ Len(base'.plans) >= Len(base.plans)
      /\ \A q \in 1..Len(base.plans) : base'.plans[q] = base.plans[q] \/ OnPlan(k, q)
  BY <1>7, <1>8
<1>10. PICK x : x = [n.call EXCEPT !.upset = TRUE]
  OBVIOUS
<1>11. IsCall(x) /\ x.op = k.op /\ x.id = k.id /\ x.upset
  <2>1. /\ x.op = n.call.op /\ x.id = n.call.id /\ x.step = n.call.step /\ x.upset = TRUE
        /\ x = [op |-> x.op, id |-> x.id, want |-> x.want, step |-> x.step, doc |-> x.doc, got |-> x.got,
                upset |-> x.upset, attempt |-> x.attempt]
    BY <1>7, <1>10 DEF SameCall, IsCall
  <2>2. IsCall(x)
    BY <1>7, <2>1 DEF SameCall, IsCall
  <2>. QED  BY <1>7, <2>1, <2>2 DEF SameCall
<1>12. DOMAIN desk' = Clerks /\ desk'[c] = x /\ \A b \in Clerks \ {c} : desk'[b] = desk[b]
  BY <1>0, <1>2, <1>10
<1>13. DeskShape'
  <2>1. CallFits(x, base')
    BY <1>4, <1>8, <1>9, <1>11 DEF CallFits, IsCall
  <2>. QED  BY <1>0, <1>3, <1>7, <1>8, <1>9, <1>12, <2>1, ShapeStays
<1>14. ASSUME NEW q \in PlanIds, ~OnPlan(k, q) PROVE Kept(q)'
  <2>1. q \in Nat /\ q # 0
    BY PlanIdsCount
  <2>2. \A b \in Clerks : /\ OnPlan(desk'[b], q) => OnPlan(desk[b], q)
                          /\ OnPlan(desk[b], q) => desk'[b] = desk[b]
    BY <1>1, <1>11, <1>12, <1>14 DEF OnPlan
  <2>3. q <= Len(base.plans) => base'.plans[q] = base.plans[q]
    BY <1>8, <1>9, <1>14, <2>1
  <2>4. q > Len(base.plans) => \A b \in Clerks : ~OnPlan(desk[b], q)
    BY <1>0, <1>8, <2>1 DEF CallFits, OnPlan
  <2>5. q <= Len(base.plans) \/ q > Len(base.plans)
    BY <1>8, <2>1
  <2>. QED  BY <1>0, <1>3, <1>8, <1>9, <1>12, <2>2, <2>3, <2>4, <2>5, Untouched
<1>15. ASSUME NEW q \in PlanIds, OnPlan(k, q) PROVE Kept(q)'
  <2>1. OnPlan(desk'[c], q) /\ desk'[c].upset /\ desk'[c].op = desk[c].op
    BY <1>1, <1>11, <1>12, <1>15 DEF OnPlan
  <2>. QED  BY <1>0, <1>1, <1>3, <1>8, <1>9, <1>12, <1>15, <2>1, Disturbed
<1>. QED  BY <1>13, <1>14, <1>15 DEF DeskInv

\* A clerk gives up, or asks once more.
LEMMA DeskLostKeeps ==
  ASSUME DeskInv, NEW c \in Clerks, DeskLost(c)
  PROVE  DeskInv'
<1>0. /\ DeskShape /\ DOMAIN desk = Clerks /\ DOMAIN agreed = PlanIds /\ IsBase(base)
      /\ \A b \in Clerks : CallFits(desk[b], base)
      /\ \A q \in PlanIds : Kept(q)
  BY DEF DeskInv, DeskShape, CallFits
<1>1. PICK k : k = desk[c]
  OBVIOUS
<1>2. /\ k # NoErrand /\ base' = base /\ agreed' = agreed
      /\ strays' = strays \cup {s \in {k} : Underway(s)}
  BY <1>1 DEF DeskLost
<1>3. CallFits(k, base) /\ k.op # "none"
  BY <1>0, <1>1, <1>2 DEF CallFits
<1>4. PICK x : /\ desk' = [desk EXCEPT ![c] = x]
               /\ \/ x = [k EXCEPT !.step = "error", !.upset = TRUE]
                  \/ x = [Errand(k.op, k.id, k.want) EXCEPT !.upset = TRUE, !.attempt = 2]
  <2>1. ASSUME desk' = [desk EXCEPT ![c].step = "error", ![c].upset = TRUE]
        PROVE  desk' = [desk EXCEPT ![c] = [k EXCEPT !.step = "error", !.upset = TRUE]]
    <3>. DEFINE y == [k EXCEPT !.step = "error"]
    <3>1. desk' = [[desk EXCEPT ![c] = [desk[c] EXCEPT !.step = "error"]]
                     EXCEPT ![c] = [@ EXCEPT !.upset = TRUE]]
      BY <2>1
    <3>2. desk' = [[desk EXCEPT ![c] = y] EXCEPT ![c] = [@ EXCEPT !.upset = TRUE]]
      BY <1>1, <3>1
    <3>3. [desk EXCEPT ![c] = y][c] = y
      BY <1>0
    <3>4. desk' = [[desk EXCEPT ![c] = y] EXCEPT ![c] = [y EXCEPT !.upset = TRUE]]
      BY <3>2, <3>3
    <3>5. \A z : [[desk EXCEPT ![c] = y] EXCEPT ![c] = z] = [desk EXCEPT ![c] = z]
      <4>. HIDE DEF y
      <4>. QED  BY <1>0
    <3>6. [y EXCEPT !.upset = TRUE] = [k EXCEPT !.step = "error", !.upset = TRUE]
      OBVIOUS
    <3>. QED  BY <3>4, <3>5, <3>6
  <2>. QED  BY <1>1, <2>1 DEF DeskLost
<1>5. IsCall(x) /\ x.op = k.op /\ x.id = k.id /\ x.upset
  <2>1. IsCall(k)
    BY <1>3 DEF CallFits
  <2>2. CASE x = [k EXCEPT !.step = "error", !.upset = TRUE]
    <3>1. /\ x.op = k.op /\ x.id = k.id /\ x.step = "error" /\ x.upset = TRUE
          /\ x = [op |-> x.op, id |-> x.id, want |-> x.want, step |-> x.step, doc |-> x.doc, got |-> x.got,
                  upset |-> x.upset, attempt |-> x.attempt]
      BY <2>1, <2>2 DEF IsCall
    <3>. QED  BY <2>1, <3>1 DEF IsCall, Steps
  <2>3. CASE x = [Errand(k.op, k.id, k.want) EXCEPT !.upset = TRUE, !.attempt = 2]
    <3>1. /\ x.op = k.op /\ x.id = k.id /\ x.step = "begin" /\ x.upset = TRUE
          /\ x = [op |-> x.op, id |-> x.id, want |-> x.want, step |-> x.step, doc |-> x.doc, got |-> x.got,
                  upset |-> x.upset, attempt |-> x.attempt]
      BY <2>3 DEF Errand
    <3>. QED  BY <2>1, <3>1 DEF IsCall, Steps
  <2>. QED  BY <1>4, <2>2, <2>3
<1>6. DOMAIN desk' = Clerks /\ desk'[c] = x /\ \A b \in Clerks \ {c} : desk'[b] = desk[b]
  BY <1>0, <1>4
<1>7. Len(base.plans) \in Nat /\ Len(base.plans) >= Len(base.plans)
  <2>1. IsSeq(base.plans)
    BY <1>0 DEF IsBase
  <2>. QED  BY <2>1, SeqEdits
<1>8. DeskShape'
  <2>1. CallFits(x, base')
    BY <1>2, <1>3, <1>5 DEF CallFits
  <2>2. \A s \in strays' : s \in strays \/ (CallFits(s, base') /\ Underway(s) /\ s.op # "none")
    BY <1>2, <1>3
  <2>. QED  BY <1>0, <1>2, <1>6, <1>7, <2>1, <2>2, ShapeStays
<1>9. ASSUME NEW q \in PlanIds, ~OnPlan(k, q) PROVE Kept(q)'
  <2>1. \A b \in Clerks : /\ OnPlan(desk'[b], q) => OnPlan(desk[b], q)
                          /\ OnPlan(desk[b], q) => desk'[b] = desk[b]
    BY <1>1, <1>5, <1>6, <1>9 DEF OnPlan
  <2>. QED  BY <1>0, <1>2, <1>6, <1>7, <1>9, <2>1, Untouched
<1>10. ASSUME NEW q \in PlanIds, OnPlan(k, q) PROVE Kept(q)'
  <2>1. OnPlan(desk'[c], q) /\ desk'[c].upset /\ desk'[c].op = desk[c].op
    BY <1>1, <1>5, <1>6, <1>10 DEF OnPlan
  <2>2. \A s \in strays' : OnPlan(s, q) => s \in strays \/ s.op = desk[c].op
    BY <1>1, <1>2
  <2>. QED  BY <1>0, <1>1, <1>2, <1>6, <1>7, <1>10, <2>1, <2>2, Disturbed
<1>. QED  BY <1>8, <1>9, <1>10 DEF DeskInv

\* The answer gets to the client.
LEMMA AnsweredKeeps ==
  ASSUME DeskInv, NEW c \in Clerks, Answered(c)
  PROVE  DeskInv'
<1>0. /\ DeskShape /\ DOMAIN desk = Clerks /\ DOMAIN agreed = PlanIds /\ IsBase(base)
      /\ \A b \in Clerks : CallFits(desk[b], base)
      /\ \A q \in PlanIds : Kept(q)
  BY DEF DeskInv, DeskShape, CallFits
<1>1. PICK k : k = desk[c]
  OBVIOUS
<1>2. /\ k.step \in {"ok", "error"} /\ base' = base /\ strays' = strays
      /\ desk' = [desk EXCEPT ![c] = NoErrand]
  BY <1>1 DEF Answered
<1>3. /\ k.op \notin Writing \/ k.id = 0 => agreed' = agreed
      /\ k.op \in Writing /\ k.id # 0 /\ k.upset => agreed' = [agreed EXCEPT ![k.id] = NotSure]
      /\ k.op \in Writing /\ k.id # 0 /\ ~k.upset /\ k.step = "ok" =>
           agreed' = [agreed EXCEPT ![k.id] = Promise(k, @)]
      /\ k.op \in Writing /\ k.id # 0 /\ ~k.upset /\ k.step # "ok" => agreed' = agreed
  BY <1>1 DEF Answered, Unsure
<1>4. CallFits(k, base) /\ k.upset \in BOOLEAN
  BY <1>0, <1>1 DEF CallFits, IsCall
<1>5. /\ DOMAIN desk' = Clerks /\ DOMAIN agreed' = PlanIds
      /\ desk'[c] = NoErrand /\ \A b \in Clerks \ {c} : desk'[b] = desk[b]
  BY <1>0, <1>2, <1>3, <1>4
<1>6. NoErrand.op = "none" /\ NoErrand.op \notin Writing /\ IsCall(NoErrand)
  BY DEF NoErrand, Writing, IsCall, Steps
<1>7. Len(base.plans) \in Nat /\ Len(base.plans) >= Len(base.plans)
  <2>1. IsSeq(base.plans)
    BY <1>0 DEF IsBase
  <2>. QED  BY <2>1, SeqEdits
<1>8. DeskShape'
  <2>1. CallFits(NoErrand, base')
    BY <1>6 DEF CallFits
  <2>. QED  BY <1>0, <1>2, <1>5, <1>7, <2>1, ShapeStays
<1>9. \A q : ~OnPlan(desk'[c], q)
  BY <1>5, <1>6 DEF OnPlan
<1>10. ASSUME NEW q \in PlanIds, ~OnPlan(k, q) PROVE Kept(q)'
  <2>1. agreed'[q] = agreed[q]
    BY <1>0, <1>3, <1>4, <1>10 DEF OnPlan
  <2>2. \A b \in Clerks : /\ OnPlan(desk'[b], q) => OnPlan(desk[b], q)
                          /\ OnPlan(desk[b], q) => desk'[b] = desk[b]
    BY <1>1, <1>5, <1>9, <1>10
  <2>. QED  BY <1>0, <1>2, <1>5, <1>7, <1>10, <2>1, <2>2, Untouched
<1>11. ASSUME NEW q \in PlanIds, OnPlan(k, q), k.upset PROVE Kept(q)'
  <2>1. q # 0 /\ k.id = q /\ k.op \in Writing
    BY <1>11, PlanIdsCount DEF OnPlan
  <2>2. ~agreed'[q].sure
    BY <1>0, <1>3, <1>11, <2>1 DEF NotSure
  <2>3. \A b \in Clerks : OnPlan(desk'[b], q) => desk'[b].upset
    <3>1. SUFFICES ASSUME NEW b \in Clerks, OnPlan(desk'[b], q), ~desk'[b].upset PROVE FALSE
      OBVIOUS
    <3>2. b # c /\ OnPlan(desk[b], q) /\ ~desk[b].upset
      BY <1>5, <1>9, <3>1
    <3>. QED  BY <1>0, <1>1, <1>11, <3>2 DEF Kept
  <2>. QED  BY <2>2, <2>3, Unsaid
<1>12. ASSUME NEW q \in PlanIds, OnPlan(k, q), ~k.upset PROVE Kept(q)'
  <2>. DEFINE was == agreed[q]
  <2>1. q # 0 /\ q \in Nat /\ k.id = q /\ k.op \in Writing /\ q <= Len(base.plans)
    BY <1>4, <1>12, PlanIdsCount DEF OnPlan, CallFits
  <2>2. /\ \A b \in Clerks \ {c} : ~OnPlan(desk[b], q)
        /\ \A s \in strays : ~OnPlan(s, q)
        /\ Undisturbed(c, q)
    BY <1>0, <1>1, <1>12 DEF Kept
  <2>3. \A b \in Clerks : ~OnPlan(desk'[b], q)
    BY <1>5, <1>9, <2>2
  <2>4. \A s \in strays' : ~OnPlan(s, q)
    BY <1>2, <2>2
  <2>5. agreed'[q].sure => Same(base.plans[q], agreed'[q].doc)
    <3>1. CASE k.step # "ok"
      <4>1. agreed' = agreed
        BY <1>3, <1>12, <2>1, <3>1
      <4>. QED  BY <1>1, <2>2, <3>1, <4>1 DEF Undisturbed
    <3>2. CASE k.step = "ok"
      <4>1. agreed'[q] = Promise(k, was)
        BY <1>0, <1>3, <1>12, <2>1, <3>2
      <4>2. CASE k.op = "createPlan"
        <5>1. agreed'[q].doc = <<Described(k.want)>> /\ base.plans[q] = <<Described(k.want)>>
          BY <1>1, <2>2, <4>1, <4>2 DEF Undisturbed, Promise, Sure
        <5>. QED  BY <5>1 DEF Same
      <4>3. CASE k.op = "deletePlan"
        <5>1. agreed'[q].doc = <<>> /\ base.plans[q] = <<>>
          BY <1>1, <2>2, <3>2, <4>1, <4>3 DEF Undisturbed, Promise, Sure
        <5>. QED  BY <5>1 DEF Same
      <4>4. CASE k.op = "updatePlan"
        <5>1. agreed'[q].sure => was.sure
          <6>1. ~was.sure => Promise(k, was) = NotSure
            BY <4>4 DEF Promise
          <6>2. ~NotSure.sure
            BY DEF NotSure
          <6>. QED  BY <4>1, <6>1, <6>2
        <5>2. was.sure => Same(base.plans[q], Promise(k, was).doc)
          BY <1>1, <2>2, <3>2, <4>4 DEF Undisturbed
        <5>. QED  BY <4>1, <5>1, <5>2
      <4>. QED  BY <2>1, <4>2, <4>3, <4>4 DEF Writing
    <3>. QED  BY <3>1, <3>2
  <2>. QED  BY <1>2, <2>1, <2>3, <2>4, <2>5 DEF Kept
<1>. QED  BY <1>4, <1>8, <1>10, <1>11, <1>12 DEF DeskInv

\* The service takes a step with a call that nobody waits for.
LEMMA StrayStepKeeps ==
  ASSUME DeskInv, StrayStep
  PROVE  DeskInv'
<1>0. /\ DeskShape /\ DOMAIN desk = Clerks /\ DOMAIN agreed = PlanIds /\ IsBase(base)
      /\ \A b \in Clerks : CallFits(desk[b], base)
      /\ \A q \in PlanIds : Kept(q)
  BY DEF DeskInv, DeskShape, CallFits
<1>1. PICK k \in strays : LET n == Served(base, k) IN
         base' = n.base /\ strays' = (strays \ {k}) \cup {m \in {n.call} : Underway(m)}
  BY DEF StrayStep
<1>2. PICK n : n = Served(base, k)
  OBVIOUS
<1>3. /\ base' = n.base /\ strays' = (strays \ {k}) \cup {m \in {n.call} : Underway(m)}
      /\ desk' = desk /\ agreed' = agreed
  BY <1>1, <1>2 DEF StrayStep
<1>4. IsCall(k) /\ Underway(k) /\ k.op # "none" /\ (k.op \in Writing => k.id <= Len(base.plans))
  BY <1>0 DEF DeskShape
<1>5. IsBase(n.base) /\ SameCall(n.call, k) /\ EffectOnPlans(base, k, n)
  BY <1>0, <1>2, <1>4, ServedIs
<1>6. /\ Len(base.plans) \in Nat /\ Len(base'.plans) \in Nat /\ Len(base'.plans) >= Len(base.plans)
      /\ \A q \in 1..Len(base.plans) : base'.plans[q] = base.plans[q] \/ OnPlan(k, q)
      /\ n.call.id # k.id =>
           k.op = "createPlan" /\ n.call.step = "ok" /\ n.call.id = Len(base.plans) + 1
      /\ k.op \in Writing /\ k.id <= Len(base.plans) => n.call.id <= Len(base'.plans)
  BY <1>0, <1>3, <1>4, <1>5, CallOutcome
<1>7. IsCall(n.call) /\ n.call.op = k.op
  BY <1>5 DEF SameCall
<1>8. DeskShape'
  <2>1. \A s \in strays' : s \in strays \/ (CallFits(s, base') /\ Underway(s) /\ s.op # "none")
    BY <1>3, <1>4, <1>6, <1>7 DEF CallFits
  <2>. QED  BY <1>0, <1>3, <1>5, <1>6, <2>1, ShapeStays
<1>9. Underway(n.call) => n.call.id = k.id
  BY <1>6 DEF Underway
<1>10. ASSUME NEW q \in PlanIds, ~OnPlan(k, q) PROVE Kept(q)'
  <2>1. q \in Nat /\ q # 0
    BY PlanIdsCount
  <2>2. /\ \A s \in strays' : OnPlan(s, q) => s \in strays
        /\ \A s \in strays : OnPlan(s, q) => s \in strays'
    BY <1>3, <1>7, <1>9, <1>10 DEF OnPlan
  <2>3. q <= Len(base.plans) => base'.plans[q] = base.plans[q]
    BY <1>6, <1>10, <2>1
  <2>4. q > Len(base.plans) => \A b \in Clerks : ~OnPlan(desk[b], q)
    BY <1>0, <1>6, <2>1 DEF CallFits, OnPlan
  <2>5. q <= Len(base.plans) \/ q > Len(base.plans)
    BY <1>6, <2>1
  <2>. QED  BY <1>0, <1>3, <1>6, <2>2, <2>3, <2>4, <2>5, Untouched
<1>11. ASSUME NEW q \in PlanIds, OnPlan(k, q) PROVE Kept(q)'
  <2>. DEFINE sure == agreed[q].sure
  <2>1. /\ k.op = "createPlan" => ~sure
        /\ sure => \E c \in Clerks : OnPlan(desk[c], q) /\ desk[c].upset
    BY <1>0, <1>11 DEF Kept
  <2>2. \A c \in Clerks : ~(OnPlan(desk[c], q) /\ ~desk[c].upset)
    BY <1>0, <1>11 DEF Kept
  <2>3. \A s \in strays' : OnPlan(s, q) /\ s.op = "createPlan" => ~sure
    BY <1>0, <1>3, <1>7, <2>1 DEF Kept
  <2>4. sure => q <= Len(base'.plans)
    <3>1. sure => q <= Len(base.plans)
      BY <1>0 DEF Kept
    <3>. QED  BY <1>6, <3>1, PlanIdsCount
  <2>5. sure => ~Alone(q)'
    BY <1>3, <2>1 DEF Alone
  <2>6. \A c \in Clerks : OnPlan(desk[c], q) /\ desk[c].op = "createPlan" => ~sure
    BY <1>0 DEF Kept
  <2>. QED  BY <1>3, <2>1, <2>2, <2>3, <2>4, <2>5, <2>6 DEF Kept
<1>. QED  BY <1>8, <1>10, <1>11 DEF DeskInv

-----------------------------------------------------------------------------

LEMMA DeskKeeps == DeskInv /\ [DeskNext]_deskVars => DeskInv'
<1>1. SUFFICES ASSUME DeskInv, [DeskNext]_deskVars PROVE DeskInv'
  OBVIOUS
<1>2. CASE DeskNext
  BY <1>1, <1>2, RequestKeeps, DeskStepKeeps, DeskFailsKeeps, DeskLostKeeps, AnsweredKeeps, StrayStepKeeps
     DEF DeskNext
<1>3. CASE UNCHANGED deskVars
  <2>1. \A q \in PlanIds : Kept(q)'
    <3>1. SUFFICES ASSUME NEW q \in PlanIds PROVE Kept(q)'
      OBVIOUS
    <3>2. Kept(q)
      BY <1>1 DEF DeskInv
    <3>. QED  BY <1>3, <3>2 DEF deskVars, Kept, Undisturbed, Alone
  <2>2. DeskShape'
    BY <1>1, <1>3 DEF deskVars, DeskInv, DeskShape
  <2>. QED  BY <2>1, <2>2 DEF DeskInv
<1>. QED  BY <1>1, <1>2, <1>3

(* For any clerks, any requests and any failures, the calls about a plan     *)
(* keep to the invariant.                                                    *)
THEOREM DeskInvariant == DeskSpec => []DeskInv
<1>1. DeskInit => DeskInv
  BY DeskStarts DEF DeskInit
<1>. QED  BY <1>1, DeskKeeps, PTL DEF DeskSpec

LEMMA DeskTells == DeskInv => DeskAgrees
<1>1. SUFFICES ASSUME DeskInv, NEW q \in PlanIds, agreed[q].sure, Alone(q) PROVE Documented(q) = Said(q)
  BY DEF DeskAgrees
<1>2. Same(base.plans[q], agreed[q].doc) /\ q <= Len(base.plans)
  BY <1>1 DEF DeskInv, Kept
<1>3. q \in DOMAIN base.plans
  <2>1. IsSeq(base.plans)
    BY <1>1 DEF DeskInv, DeskShape, IsBase
  <2>2. DOMAIN base.plans = 1..Len(base.plans) /\ Len(base.plans) \in Nat
    BY <2>1, SeqEdits
  <2>. QED  BY <1>2, <2>2, PlanIdsCount
<1>4. Documented(q) = Stripped(base.plans[q]) /\ Said(q) = Stripped(agreed[q].doc)
  BY <1>3 DEF Documented, Said, Stripped, Holds
<1>. QED  BY <1>2, <1>4 DEF Same

(* A plan whose calls came one after the other, and met no failure, has the  *)
(* document that they were acknowledged to give it: UpdatePlan, which writes *)
(* the whole of what it read, loses nothing then, and no other plan, refused *)
(* call or late one of another plan gets in between.                         *)
THEOREM PlansAgree == DeskSpec => []DeskAgrees
BY DeskInvariant, DeskTells, PTL

-----------------------------------------------------------------------------
(* The types of the desk *)

Job(d) == [plan : DOMAIN d.plans, remain : BOOLEAN]
Docs(d) ==
  /\ IsBase(d) /\ IsSeq(d.policies) /\ IsSeq(d.jobs)
  /\ \A q \in DOMAIN d.plans : d.plans[q] # <<>> => d.plans[q][1] \in Plan
  /\ d.locked \subseteq DOMAIN d.plans
  /\ \A j \in DOMAIN d.jobs : d.jobs[j] \in Job(d)
\* A call is about a plan there is or has been, and has one in hand when it is
\* to write it or to run it.
Carries == {"updatePlan", "runPlan"}
OfPlan == {"updatePlan", "deletePlan", "runPlan"}
ProperCall(k, d) ==
  /\ IsCall(k) /\ k.id \in Nat
  /\ k.op = "createPlan" => k.want \in Creations
  /\ k.op = "updatePlan" => k.want \in Changes
  /\ k.op \in OfPlan => k.id \in DOMAIN d.plans
  /\ k.op \in Carries /\ k.step \in {"lock", "write"} => k.doc[1] \in Plan
Grown(d, e) == DOMAIN d.plans \subseteq DOMAIN e.plans
Fine(e, d) == Docs(e) /\ Grown(d, e)
\* What a step of the service comes to.
WellServed(n, d) == Fine(n.base, d) /\ ProperCall(n.call, n.base)

LEMMA ProperStays ==
  ASSUME NEW k, NEW d, NEW e, ProperCall(k, d), Grown(d, e)
  PROVE  ProperCall(k, e)
BY DEF ProperCall, Grown

LEMMA ChangedIsPlan ==
  ASSUME NEW plan \in Plan, NEW change \in Changes
  PROVE  Changed(plan, change) \in Plan
<1>. DEFINE made == Changed(plan, change)
<1>1. \A f \in DOMAIN change : f \in Fields /\ OfField(f, change[f])
  BY RequestsAssumption
<1>2. DOMAIN plan = Fields /\ \A f \in Fields : OfField(f, plan[f])
  BY DEF Plan, Fields, OfField
<1>3. made = [f \in Fields |-> made[f]]
  BY <1>2 DEF Changed
<1>4. ASSUME NEW f \in Fields PROVE OfField(f, made[f])
  <2>1. CASE f \notin DOMAIN change
    BY <1>2, <2>1 DEF Changed
  <2>2. CASE f \in DOMAIN change /\ f = "filter"
    BY <1>1, <1>2, <2>2 DEF Changed, OfField, Filters
  <2>3. CASE f \in DOMAIN change /\ f = "asist"
    BY <1>2, <2>3 DEF Changed, OfField
  <2>4. CASE f \in DOMAIN change /\ f \notin {"filter", "asist"}
    BY <1>1, <1>2, <2>4 DEF Changed
  <2>. QED  BY <2>1, <2>2, <2>3, <2>4
<1>. HIDE DEF made
<1>5. /\ made.name \in STRING /\ made.src \in Connector /\ made.dest \in Connector
      /\ made.filter \in Filters /\ made.policy \in Nat /\ made.enabled \in BOOLEAN
      /\ made.remain \in BOOLEAN /\ made.asist \in {"none", "analysis"}
  BY <1>4 DEF Fields, OfField
<1>6. made = [name |-> made.name, src |-> made.src, dest |-> made.dest, filter |-> made.filter,
              policy |-> made.policy, enabled |-> made.enabled, remain |-> made.remain, asist |-> made.asist]
  BY <1>3 DEF Fields
<1>7. made \in Plan
  BY <1>5, <1>6 DEF Plan
<1>. QED  BY <1>7 DEF made

LEMMA DescribedIsPlan ==
  ASSUME NEW plan \in Plan
  PROVE  Described(plan) \in Plan
<1>1. \A conn \in Connector : fillReqConnector(conn) \in Connector
  BY DEF Connector, fillReqConnector
<1>. QED  BY <1>1 DEF Described, Plan

\* The answers, and going on with a plan in hand.
LEMMA SoundAnswers ==
  ASSUME NEW d, NEW e, Fine(e, d), NEW k, ProperCall(k, e)
  PROVE  /\ WellServed(Reply(e, k, "ok"), d) /\ WellServed(Reply(e, k, "error"), d)
         /\ \A got : WellServed(Give(e, k, got), d)
         /\ \A doc : (k.op \notin Carries \/ doc[1] \in Plan) =>
              WellServed(Onward(e, k, "write", doc), d) /\ WellServed(Onward(e, k, "lock", doc), d)
<1>1. ASSUME NEW step \in {"ok", "error"} PROVE WellServed(Reply(e, k, step), d)
  <2>1. PICK m : m = Reply(e, k, step)
    OBVIOUS
  <2>2. step \in Steps
    BY DEF Steps
  <2>3. /\ m.base = e /\ IsCall(m.call) /\ m.call.op = k.op /\ m.call.want = k.want
        /\ m.call.id = k.id /\ m.call.step = step
    BY <2>1, <2>2, CallEdits DEF ProperCall, SameCall
  <2>. QED  BY <2>1, <2>3 DEF WellServed, Fine, ProperCall
<1>2. ASSUME NEW got PROVE WellServed(Give(e, k, got), d)
  <2>1. PICK m : m = Give(e, k, got)
    OBVIOUS
  <2>2. /\ m.base = e /\ IsCall(m.call) /\ m.call.op = k.op /\ m.call.want = k.want
        /\ m.call.id = k.id /\ m.call.step = "ok"
    BY <2>1, CallEdits DEF ProperCall, SameCall, Steps
  <2>. QED  BY <2>1, <2>2 DEF WellServed, Fine, ProperCall
<1>3. ASSUME NEW doc, k.op \notin Carries \/ doc[1] \in Plan, NEW step \in {"lock", "write"}
      PROVE  WellServed(Onward(e, k, step, doc), d)
  <2>1. PICK m : m = Onward(e, k, step, doc)
    OBVIOUS
  <2>2. step \in Steps
    BY DEF Steps
  <2>3. /\ m.base = e /\ IsCall(m.call) /\ m.call.op = k.op /\ m.call.want = k.want
        /\ m.call.id = k.id /\ m.call.doc = doc
    BY <2>1, <2>2, CallEdits DEF ProperCall, SameCall
  <2>. QED  BY <1>3, <2>1, <2>3 DEF WellServed, Fine, ProperCall
<1>. QED  BY <1>1, <1>2, <1>3

\* What the database does to the documents.
LEMMA PoliciesEdited ==
  ASSUME NEW d, Docs(d), NEW x, IsSeq(x), NEW e, e = [d EXCEPT !.policies = x]
  PROVE  Fine(e, d)
BY DEF Fine, Docs, Grown, IsBase, Job

LEMMA PlansEdited ==
  ASSUME NEW d, Docs(d), NEW x, IsSeq(x), DOMAIN d.plans \subseteq DOMAIN x,
         \A q \in DOMAIN x : x[q] # <<>> => x[q][1] \in Plan,
         NEW e, e = [d EXCEPT !.plans = x]
  PROVE  Fine(e, d)
<1>1. IsBase(e) /\ e.plans = x /\ e.policies = d.policies /\ e.jobs = d.jobs /\ e.locked = d.locked
  BY DEF Docs, IsBase
<1>2. Job(d) \subseteq Job(e)
  BY <1>1 DEF Job
<1>. QED  BY <1>1, <1>2 DEF Fine, Docs, Grown

LEMMA LocksEdited ==
  ASSUME NEW d, Docs(d), NEW x, x \subseteq DOMAIN d.plans, NEW e, e = [d EXCEPT !.locked = x]
  PROVE  Fine(e, d)
BY DEF Fine, Docs, Grown, IsBase, Job

LEMMA JobInserted ==
  ASSUME NEW d, Docs(d), NEW job \in Job(d), NEW e, e = InsertJob(d, job)
  PROVE  Fine(e, d)
<1>1. PICK x : x = Append(d.jobs, job)
  OBVIOUS
<1>2. IsSeq(d.jobs)
  BY DEF Docs
<1>3. /\ DOMAIN d.jobs = 1..Len(d.jobs) /\ Len(d.jobs) \in Nat
      /\ IsSeq(x) /\ Len(x) = Len(d.jobs) + 1 /\ x[Len(d.jobs) + 1] = job
      /\ \A i \in 1..Len(d.jobs) : x[i] = d.jobs[i]
  BY <1>1, <1>2, SeqEdits
<1>4. DOMAIN x = 1..Len(x)
  BY <1>3, SeqEdits
<1>5. \A j \in DOMAIN x : x[j] \in Job(d)
  BY <1>3, <1>4 DEF Docs
<1>6. e = [d EXCEPT !.jobs = x]
  BY <1>1 DEF InsertJob
<1>7. IsBase(e) /\ e.plans = d.plans /\ e.policies = d.policies /\ e.jobs = x /\ e.locked = d.locked
  BY <1>6 DEF Docs, IsBase
<1>. QED  BY <1>3, <1>5, <1>7 DEF Fine, Docs, Grown, Job

\* One plan more, or another document in the place of one.
LEMMA PlanWritten ==
  ASSUME NEW d, Docs(d), NEW plan \in Plan
  PROVE  /\ Fine(InsertPlan(d, plan), d)
         /\ \A q \in DOMAIN d.plans : Fine(ReplacePlan(d, q, plan), d)
<1>1. IsSeq(d.plans) /\ DOMAIN d.plans = 1..Len(d.plans) /\ Len(d.plans) \in Nat
  BY SeqEdits DEF Docs, IsBase
<1>2. Fine(InsertPlan(d, plan), d)
  <2>1. PICK x : x = Append(d.plans, <<plan>>)
    OBVIOUS
  <2>2. /\ IsSeq(x) /\ Len(x) = Len(d.plans) + 1 /\ x[Len(d.plans) + 1] = <<plan>>
        /\ \A i \in 1..Len(d.plans) : x[i] = d.plans[i]
    BY <1>1, <2>1, SeqEdits
  <2>3. DOMAIN x = 1..Len(x)
    BY <2>2, SeqEdits
  <2>4. \A q \in DOMAIN x : x[q] # <<>> => x[q][1] \in Plan
    BY <1>1, <2>2, <2>3 DEF Docs
  <2>5. InsertPlan(d, plan) = [d EXCEPT !.plans = x]
    BY <2>1 DEF InsertPlan
  <2>6. DOMAIN d.plans \subseteq DOMAIN x
    BY <1>1, <2>2, <2>3
  <2>. QED  BY <2>2, <2>4, <2>5, <2>6, PlansEdited
<1>3. ASSUME NEW q \in DOMAIN d.plans PROVE Fine(ReplacePlan(d, q, plan), d)
  <2>1. PICK x : x = [d.plans EXCEPT ![q] = <<plan>>]
    OBVIOUS
  <2>2. IsSeq(x) /\ Len(x) = Len(d.plans) /\ x[q] = <<plan>> /\ \A i \in 1..Len(d.plans) : q # i => x[i] = d.plans[i]
    BY <1>1, <1>3, <2>1, SeqEdits
  <2>3. DOMAIN x = DOMAIN d.plans
    BY <2>1
  <2>4. \A i \in DOMAIN x : x[i] # <<>> => x[i][1] \in Plan
    BY <1>1, <2>2, <2>3 DEF Docs
  <2>5. ReplacePlan(d, q, plan) = [d EXCEPT !.plans = x]
    BY <2>1 DEF ReplacePlan
  <2>. QED  BY <2>2, <2>3, <2>4, <2>5, PlansEdited
<1>. QED  BY <1>2, <1>3

LEMMA PlanRemoved ==
  ASSUME NEW d, Docs(d), NEW q \in DOMAIN d.plans
  PROVE  Fine(RemovePlan(d, q), d)
<1>1. IsSeq(d.plans) /\ DOMAIN d.plans = 1..Len(d.plans)
  BY SeqEdits DEF Docs, IsBase
<1>2. PICK x : x = [d.plans EXCEPT ![q] = <<>>]
  OBVIOUS
<1>3. IsSeq(x) /\ x[q] = <<>> /\ \A i \in 1..Len(d.plans) : q # i => x[i] = d.plans[i]
  BY <1>1, <1>2, SeqEdits
<1>4. DOMAIN x = DOMAIN d.plans
  BY <1>2
<1>5. \A i \in DOMAIN x : x[i] # <<>> => x[i][1] \in Plan
  BY <1>1, <1>3, <1>4 DEF Docs
<1>6. RemovePlan(d, q) = [d EXCEPT !.plans = x]
  BY <1>2 DEF RemovePlan
<1>. QED  BY <1>3, <1>4, <1>5, <1>6, PlansEdited

LEMMA PolicyWritten ==
  ASSUME NEW d, Docs(d), NEW pol
  PROVE  /\ Fine(InsertPolicy(d, pol), d)
         /\ \A p \in DOMAIN d.policies : Fine(ReplacePolicy(d, p, pol), d) /\ Fine(RemovePolicy(d, p), d)
<1>1. IsSeq(d.policies) /\ DOMAIN d.policies = 1..Len(d.policies)
  BY SeqEdits DEF Docs
<1>2. Fine(InsertPolicy(d, pol), d)
  <2>1. PICK x : x = Append(d.policies, <<pol>>)
    OBVIOUS
  <2>2. IsSeq(x)
    BY <1>1, <2>1, SeqEdits
  <2>. QED  BY <2>1, <2>2, PoliciesEdited DEF InsertPolicy
<1>3. ASSUME NEW p \in DOMAIN d.policies, NEW slot PROVE Fine([d EXCEPT !.policies[p] = slot], d)
  <2>1. PICK x : x = [d.policies EXCEPT ![p] = slot]
    OBVIOUS
  <2>2. IsSeq(x)
    BY <1>1, <1>3, <2>1, SeqEdits
  <2>3. [d EXCEPT !.policies[p] = slot] = [d EXCEPT !.policies = x]
    BY <2>1
  <2>. QED  BY <2>2, <2>3, PoliciesEdited
<1>. QED  BY <1>2, <1>3 DEF ReplacePolicy, RemovePolicy

LEMMA Locking ==
  ASSUME NEW d, Docs(d), NEW k, k.id \in DOMAIN d.plans
  PROVE  Fine([d EXCEPT !.locked = @ \cup {k.id}], d) /\ Fine(Unlocked(d, k), d)
<1>1. d.locked \subseteq DOMAIN d.plans
  BY DEF Docs
<1>2. d.locked \cup {k.id} \subseteq DOMAIN d.plans /\ d.locked \ {k.id} \subseteq DOMAIN d.plans
  BY <1>1
<1>. QED  BY <1>2, LocksEdited DEF Unlocked

\* A step of the service leaves plans, locks and jobs of plans, and a call
\* that has a plan in hand where it needs one.
LEMMA ServedWell ==
  ASSUME NEW d, Docs(d), NEW k, ProperCall(k, d), Underway(k), k.op # "none", NEW n, n = Served(d, k)
  PROVE  WellServed(n, d)
<1>1. ASSUME NEW e, Fine(e, d)
      PROVE  /\ WellServed(Reply(e, k, "ok"), d) /\ WellServed(Reply(e, k, "error"), d)
             /\ \A got : WellServed(Give(e, k, got), d)
             /\ \A doc : (k.op \notin Carries \/ doc[1] \in Plan) =>
                  WellServed(Onward(e, k, "write", doc), d) /\ WellServed(Onward(e, k, "lock", doc), d)
  <2>1. ProperCall(k, e)
    BY <1>1, ProperStays DEF Fine
  <2>. QED  BY <1>1, <2>1, SoundAnswers
<1>2. Fine(d, d)
  BY DEF Fine, Grown
<1>3. /\ \A pol : Fine(InsertPolicy(d, pol), d)
      /\ PolicyThere(d, k.id) => /\ \A pol : Fine(ReplacePolicy(d, k.id, pol), d)
                                 /\ Fine(RemovePolicy(d, k.id), d)
  BY PolicyWritten DEF PolicyThere
<1>4. CASE k.op = "createPolicy"
  <2>1. n = CreatePolicy(d, k)
    BY <1>4 DEF Served
  <2>2. k.op \notin Carries
    BY <1>4 DEF Carries
  <2>. QED  BY <1>1, <1>2, <1>3, <2>1, <2>2, Zenon DEF CreatePolicy
<1>5. CASE k.op = "updatePolicy"
  <2>1. n = UpdatePolicy(d, k)
    BY <1>5 DEF Served
  <2>2. k.op \notin Carries
    BY <1>5 DEF Carries
  <2>. QED  BY <1>1, <1>2, <1>3, <2>1, <2>2, Zenon DEF UpdatePolicy
<1>6. CASE k.op = "deletePolicy"
  <2>1. n = DeletePolicy(d, k)
    BY <1>6 DEF Served
  <2>2. k.op \notin Carries
    BY <1>6 DEF Carries
  <2>. QED  BY <1>1, <1>2, <1>3, <2>1, <2>2, Zenon DEF DeletePolicy
<1>7. CASE k.op = "getPolicy"
  <2>1. n = GetPolicy(d, k)
    BY <1>7 DEF Served
  <2>2. k.op \notin Carries
    BY <1>7 DEF Carries
  <2>. QED  BY <1>1, <1>2, <2>1, <2>2, Zenon DEF GetPolicy
<1>8. CASE k.op = "listPolicy"
  <2>1. n = ListPolicy(d, k)
    BY <1>8 DEF Served
  <2>2. k.op \notin Carries
    BY <1>8 DEF Carries
  <2>. QED  BY <1>1, <1>2, <2>1, <2>2, Zenon DEF ListPolicy
<1>9. CASE k.op = "getPlan"
  <2>1. n = GetPlan(d, k)
    BY <1>9 DEF Served
  <2>2. k.op \notin Carries
    BY <1>9 DEF Carries
  <2>. QED  BY <1>1, <1>2, <2>1, <2>2, Zenon DEF GetPlan
<1>10. CASE k.op = "listPlan"
  <2>1. n = ListPlan(d, k)
    BY <1>10 DEF Served
  <2>2. k.op \notin Carries
    BY <1>10 DEF Carries
  <2>. QED  BY <1>1, <1>2, <2>1, <2>2, Zenon DEF ListPlan
<1>11. CASE k.op = "getJob"
  <2>1. n = GetJob(d, k)
    BY <1>11 DEF Served
  <2>2. k.op \notin Carries
    BY <1>11 DEF Carries
  <2>. QED  BY <1>1, <1>2, <2>1, <2>2, Zenon DEF GetJob
<1>12. CASE k.op = "listJob"
  <2>1. n = ListJob(d, k)
    BY <1>12 DEF Served
  <2>2. k.op \notin Carries
    BY <1>12 DEF Carries
  <2>. QED  BY <1>1, <1>2, <2>1, <2>2, Zenon DEF ListJob
<1>13. CASE k.op = "createPlan"
  <2>1. CASE n = Reply(d, k, "error")
    BY <1>1, <1>2, <2>1
  <2>2. ASSUME NEW plan, plan = Described(k.want), NEW got,
               n = Now(InsertPlan(d, plan), [k EXCEPT !.id = Len(d.plans) + 1, !.step = "ok", !.got = got])
        PROVE  WellServed(n, d)
    <3>1. plan \in Plan
      BY <1>13, <2>2, DescribedIsPlan, RequestsAssumption DEF ProperCall
    <3>2. Fine(n.base, d)
      BY <2>2, <3>1, PlanWritten DEF Now
    <3>3. PICK id \in Nat : id = Len(d.plans) + 1
      BY SeqEdits DEF Docs, IsBase
    <3>4. n.call = [k EXCEPT !.id = id, !.step = "ok", !.got = got]
      BY <2>2, <3>3 DEF Now
    <3>5. IsCall(n.call) /\ n.call.op = k.op /\ n.call.id \in Nat /\ n.call.want = k.want
      BY <3>4 DEF ProperCall, IsCall, Steps
    <3>6. k.op \notin OfPlan /\ k.op \notin Carries
      BY <1>13 DEF OfPlan, Carries
    <3>. QED  BY <1>13, <3>2, <3>5, <3>6 DEF WellServed, ProperCall
  <2>. QED  BY <1>13, <2>1, <2>2 DEF Served, CreatePlan
<1>14. Holds(d, k.id) => k.id \in DOMAIN d.plans /\ d.plans[k.id][1] \in Plan
  BY DEF Docs, Holds
<1>15. CASE k.op = "updatePlan"
  <2>1. n = UpdatePlan(d, k)
    BY <1>15 DEF Served
  <2>2. \/ n = Reply(d, k, "error")
        \/ \E doc : doc[1] \in Plan /\ n = Onward(d, k, "write", doc)
        \/ k.step # "begin" /\ Holds(d, k.id) /\ \E got : n = Give(ReplacePlan(d, k.id, k.doc[1]), k, got)
    <3>1. CASE k.step = "begin" /\ Holds(d, k.id)
      <4>1. PICK plan : plan = Changed(d.plans[k.id][1], k.want)
        OBVIOUS
      <4>2. plan \in Plan /\ <<plan>>[1] = plan
        BY <1>14, <1>15, <3>1, <4>1, ChangedIsPlan DEF ProperCall
      <4>. QED  BY <2>1, <3>1, <4>1, <4>2, Zenon DEF UpdatePlan
    <3>2. CASE ~(k.step = "begin" /\ Holds(d, k.id))
      BY <2>1, <3>2, Zenon DEF UpdatePlan
    <3>. QED  BY <3>1, <3>2
  <2>3. ASSUME k.step # "begin", Holds(d, k.id) PROVE Fine(ReplacePlan(d, k.id, k.doc[1]), d)
    <3>1. k.doc[1] \in Plan
      BY <1>15, <2>3 DEF ProperCall, Underway, Carries
    <3>. QED  BY <1>14, <2>3, <3>1, PlanWritten
  <2>. QED  BY <1>1, <1>2, <2>2, <2>3
<1>16. CASE k.op = "deletePlan"
  <2>1. n = DeletePlan(d, k)
    BY <1>16 DEF Served
  <2>2. k.op \notin Carries
    BY <1>16 DEF Carries
  <2>3. Holds(d, k.id) => Fine(RemovePlan(d, k.id), d)
    BY <1>14, PlanRemoved
  <2>. QED  BY <1>1, <1>2, <2>1, <2>2, <2>3, Zenon DEF DeletePlan, Sought
<1>17. CASE k.op = "runPlan"
  <2>1. n = RunPlan(d, k)
    BY <1>17 DEF Served
  <2>2. k.id \in DOMAIN d.plans /\ k.op \in Carries
    BY <1>17 DEF ProperCall, OfPlan, Carries
  <2>3. Fine([d EXCEPT !.locked = @ \cup {k.id}], d) /\ Fine(Unlocked(d, k), d)
    BY <2>2, Locking
  <2>4. CASE k.step = "begin"
    BY <1>1, <1>2, <1>14, <2>1, <2>4, Zenon DEF RunPlan
  <2>5. k.step # "begin" => k.step \in {"lock", "write"} /\ k.doc[1] \in Plan
    BY <2>2 DEF ProperCall, Underway
  <2>6. CASE k.step = "lock"
    <3>1. n = Reply(d, k, "error") \/ n = Onward([d EXCEPT !.locked = @ \cup {k.id}], k, "write", k.doc)
      BY <2>1, <2>6 DEF RunPlan
    <3>. QED  BY <1>1, <1>2, <2>3, <2>5, <2>6, <3>1
  <2>7. CASE k.step = "write"
    <3>1. PICK e : e = Unlocked(d, k)
      OBVIOUS
    <3>2. PICK job : job = [plan |-> k.id, remain |-> k.doc[1].remain]
      OBVIOUS
    <3>3. Docs(e) /\ Grown(d, e)
      BY <2>3, <3>1 DEF Fine
    <3>4. job \in Job(e)
      <4>1. k.doc[1].remain \in BOOLEAN
        BY <2>5, <2>7 DEF Plan
      <4>. QED  BY <2>2, <3>2, <3>3, <4>1 DEF Job, Grown
    <3>5. Fine(InsertJob(e, job), d)
      <4>1. Fine(InsertJob(e, job), e)
        BY <3>3, <3>4, JobInserted
      <4>. QED  BY <3>3, <4>1 DEF Fine, Grown
    <3>6. n = Reply(e, k, "error") \/ n = Reply(InsertJob(e, job), k, "ok")
      BY <2>1, <2>7, <3>1, <3>2 DEF RunPlan
    <3>. QED  BY <1>1, <2>3, <3>1, <3>5, <3>6
  <2>. QED  BY <2>4, <2>5, <2>6, <2>7
<1>. QED
  BY <1>4, <1>5, <1>6, <1>7, <1>8, <1>9, <1>10, <1>11, <1>12, <1>13, <1>15, <1>16, <1>17
     DEF ProperCall, IsCall, Routes

LEMMA FaultedWell ==
  ASSUME NEW d, Docs(d), NEW k, ProperCall(k, d), Underway(k), k.op # "none", NEW n \in Faulted(d, k)
  PROVE  WellServed(n, d)
<1>1. ASSUME NEW e, Fine(e, d)
      PROVE  /\ WellServed(Reply(e, k, "ok"), d) /\ WellServed(Reply(e, k, "error"), d)
             /\ \A doc : (k.op \notin Carries \/ doc[1] \in Plan) => WellServed(Onward(e, k, "write", doc), d)
  <2>1. ProperCall(k, e)
    BY <1>1, ProperStays DEF Fine
  <2>. QED  BY <1>1, <2>1, SoundAnswers
<1>2. Fine(d, d)
  BY DEF Fine, Grown
<1>3. Fine(Served(d, k).base, d)
  BY ServedWell DEF WellServed
<1>4. k.op = "runPlan" => Fine(Unlocked(d, k), d) /\ (k.step = "lock" => k.doc[1] \in Plan)
  BY Locking DEF ProperCall, OfPlan, Carries
<1>5. k.op = "deletePlan" => k.op \notin Carries
  BY DEF Carries
<1>. QED  BY <1>1, <1>2, <1>3, <1>4, <1>5, Zenon DEF Faulted

\* The inductive invariant of the types: the documents are what they should be,
\* and so is every call, a clerk's or one that runs on without its clerk.
DeskTypes ==
  /\ Docs(base)
  /\ \A c \in Clerks : ProperCall(desk[c], base)
  /\ \A k \in strays : ProperCall(k, base)
  /\ upsets \in 0..MaxUpsets /\ DOMAIN agreed = PlanIds

\* A call that a failure has disturbed is the call it was.
LEMMA ProperUpset ==
  ASSUME NEW k, NEW d, ProperCall(k, d), NEW u \in BOOLEAN
  PROVE  ProperCall([k EXCEPT !.upset = u], d)
<1>1. PICK x : x = [k EXCEPT !.upset = u]
  OBVIOUS
<1>2. /\ x.op = k.op /\ x.id = k.id /\ x.want = k.want /\ x.step = k.step /\ x.doc = k.doc /\ x.upset = u
      /\ x = [op |-> x.op, id |-> x.id, want |-> x.want, step |-> x.step, doc |-> x.doc, got |-> x.got,
              upset |-> x.upset, attempt |-> x.attempt]
  BY <1>1 DEF ProperCall, IsCall
<1>3. IsCall(x)
  BY <1>2 DEF ProperCall, IsCall
<1>. QED  BY <1>1, <1>2, <1>3 DEF ProperCall

LEMMA TypesBegin ==
  ASSUME NEW shift, DeskStart(shift)
  PROVE  DeskTypes
<1>1. /\ base = [plans |-> <<>>, policies |-> <<>>, jobs |-> <<>>, locked |-> {}]
      /\ desk = [c \in Clerks |-> NoErrand] /\ strays = {} /\ upsets = 0
      /\ agreed = [q \in PlanIds |-> NotSure]
  BY DEF DeskStart
<1>2. <<>> \in Seq({}) /\ DOMAIN <<>> = {}
  OBVIOUS
<1>3. IsSeq(<<>>)
  BY <1>2 DEF IsSeq
<1>4. Docs(base)
  BY <1>1, <1>2, <1>3 DEF Docs, IsBase
<1>5. ProperCall(NoErrand, base)
  BY DEF ProperCall, NoErrand, IsCall, Steps, OfPlan, Carries, Writing
<1>6. 0 \in 0..MaxUpsets
  BY DeskAssumption
<1>7. \A c \in Clerks : desk[c] = NoErrand
  BY <1>1
<1>. QED  BY <1>1, <1>4, <1>5, <1>6, <1>7 DEF DeskTypes

\* A request comes in for what there is.
LEMMA AskTyped ==
  ASSUME DeskTypes, NEW c \in Clerks, NEW op \in Routes, NEW id \in Nat, NEW want, Ask(c, op, id, want),
         op = "createPlan" => want \in Creations, op = "updatePlan" => want \in Changes,
         op \in OfPlan => id \in DOMAIN base.plans
  PROVE  DeskTypes'
<1>. DEFINE busy == op \in Writing /\ id # 0 /\ ~Alone(id)
<1>1. /\ base' = base /\ strays' = strays /\ upsets' = upsets
      /\ desk' = [b \in Clerks |->
                   IF b = c THEN [Errand(op, id, want) EXCEPT !.upset = busy]
                   ELSE IF busy /\ OnPlan(desk[b], id) THEN [desk[b] EXCEPT !.upset = TRUE] ELSE desk[b]]
      /\ agreed' = IF busy THEN [agreed EXCEPT ![id] = NotSure] ELSE agreed
  BY DEF Ask
<1>2. ProperCall(Errand(op, id, want), base)
  <2>1. PICK k : k = Errand(op, id, want)
    OBVIOUS
  <2>2. /\ k.op = op /\ k.id = id /\ k.want = want /\ k.step = "begin" /\ k.upset = FALSE
        /\ k = [op |-> k.op, id |-> k.id, want |-> k.want, step |-> k.step, doc |-> k.doc, got |-> k.got,
                upset |-> k.upset, attempt |-> k.attempt]
    BY <2>1 DEF Errand
  <2>3. IsCall(k)
    BY <2>2 DEF IsCall, Steps
  <2>. QED  BY <2>1, <2>2, <2>3 DEF ProperCall
<1>3. busy \in BOOLEAN /\ TRUE \in BOOLEAN
  OBVIOUS
<1>. HIDE DEF busy
<1>4. ProperCall([Errand(op, id, want) EXCEPT !.upset = busy], base)
  BY <1>2, <1>3, ProperUpset
<1>5. ASSUME NEW b \in Clerks PROVE ProperCall(desk'[b], base)
  <2>1. ProperCall(desk[b], base) /\ ProperCall([desk[b] EXCEPT !.upset = TRUE], base)
    BY <1>3, ProperUpset DEF DeskTypes
  <2>. QED  BY <1>1, <1>4, <2>1
<1>6. DOMAIN agreed' = PlanIds
  BY <1>1 DEF DeskTypes
<1>. QED  BY <1>1, <1>5, <1>6 DEF DeskTypes

LEMMA RequestTyped ==
  ASSUME DeskTypes, NEW c \in Clerks, DeskRequest(c)
  PROVE  DeskTypes'
<1>1. DOMAIN base.plans \subseteq Nat /\ DOMAIN base.policies \subseteq Nat /\ DOMAIN base.jobs \subseteq Nat
  <2>1. IsSeq(base.plans) /\ IsSeq(base.policies) /\ IsSeq(base.jobs)
    BY DEF DeskTypes, Docs, IsBase
  <2>2. /\ DOMAIN base.plans = 1..Len(base.plans) /\ DOMAIN base.policies = 1..Len(base.policies)
        /\ DOMAIN base.jobs = 1..Len(base.jobs)
    BY <2>1, SeqEdits
  <2>. QED  BY <2>2
<1>. DEFINE Good(op, id, want) ==
              /\ op \in Routes /\ id \in Nat
              /\ op = "createPlan" => want \in Creations
              /\ op = "updatePlan" => want \in Changes
              /\ op \in OfPlan => id \in DOMAIN base.plans
<1>2. \E op, id, want : Good(op, id, want) /\ Ask(c, op, id, want)
  <2>1. /\ \A want : /\ Good("createPolicy", 0, want) /\ Good("listPolicy", 0, want)
                      /\ Good("listPlan", 0, want) /\ Good("listJob", 0, want)
        /\ \A p \in DOMAIN base.policies : \A want :
             /\ Good("updatePolicy", p, want) /\ Good("deletePolicy", p, want) /\ Good("getPolicy", p, want)
        /\ \A want \in Creations : Good("createPlan", 0, want)
        /\ \A q \in DOMAIN base.plans, want \in Changes : Good("updatePlan", q, want)
        /\ \A q \in DOMAIN base.plans : \A want :
             Good("deletePlan", q, want) /\ Good("getPlan", q, want) /\ Good("runPlan", q, want)
        /\ \A j \in DOMAIN base.jobs : \A want : Good("getJob", j, want)
    BY <1>1 DEF Routes, OfPlan
  <2>. HIDE DEF Good
  <2>. QED
    BY <2>1, Zenon DEF DeskRequest, APICreatePolicy, APIUpdatePolicy, APIDeletePolicy, APIGetPolicy, APIListPolicy,
         APICreatePlan, APIUpdatePlan, APIDeletePlan, APIGetPlan, APIListPlan, APIRunPlan, APIGetJob, APIListJob,
         PolicyIds
<1>. QED  BY <1>2, AskTyped

\* A call that is under way has an operation.
LEMMA UnderwayIsAsked ==
  ASSUME DeskShape, NEW c \in Clerks, Underway(desk[c])
  PROVE  desk[c].op # "none"
BY DEF DeskShape, NoErrand, Underway

LEMMA DeskStepTyped ==
  ASSUME DeskShape, DeskTypes, NEW c \in Clerks, DeskStep(c) \/ DeskFails(c)
  PROVE  DeskTypes'
<1>1. PICK k : k = desk[c]
  OBVIOUS
<1>2. Docs(base) /\ ProperCall(k, base) /\ Underway(k) /\ k.op # "none"
  BY <1>1, UnderwayIsAsked DEF DeskTypes, DeskStep, DeskFails
<1>3. ASSUME NEW n, WellServed(n, base), NEW x, ProperCall(x, n.base),
             base' = n.base, desk' = [desk EXCEPT ![c] = x], strays' = strays, agreed' = agreed,
             upsets' \in 0..MaxUpsets
      PROVE  DeskTypes'
  <2>1. Docs(base') /\ Grown(base, base') /\ ProperCall(x, base')
    BY <1>3 DEF WellServed, Fine
  <2>2. /\ \A b \in Clerks : ProperCall(desk[b], base')
        /\ \A s \in strays : ProperCall(s, base')
    BY <2>1, ProperStays DEF DeskTypes
  <2>3. \A b \in Clerks : desk'[b] = x \/ desk'[b] = desk[b]
    BY <1>3 DEF DeskShape
  <2>4. \A b \in Clerks : ProperCall(desk'[b], base')
    BY <2>1, <2>2, <2>3
  <2>. QED  BY <1>3, <2>1, <2>2, <2>4 DEF DeskTypes
<1>4. CASE DeskStep(c)
  <2>1. PICK n : n = Served(base, k)
    OBVIOUS
  <2>2. WellServed(n, base) /\ ProperCall(n.call, n.base)
    BY <1>2, <2>1, ServedWell DEF WellServed
  <2>3. /\ base' = n.base /\ desk' = [desk EXCEPT ![c] = n.call]
        /\ strays' = strays /\ agreed' = agreed /\ upsets' \in 0..MaxUpsets
    BY <1>1, <1>4, <2>1 DEF DeskStep, DeskTypes
  <2>. QED  BY <1>3, <2>2, <2>3
<1>5. CASE DeskFails(c)
  <2>1. PICK n \in Faulted(base, k) : base' = n.base /\ desk' = [desk EXCEPT ![c] = [n.call EXCEPT !.upset = TRUE]]
    BY <1>1, <1>5 DEF DeskFails
  <2>2. WellServed(n, base)
    BY <1>2, <2>1, FaultedWell
  <2>3. ProperCall([n.call EXCEPT !.upset = TRUE], n.base)
    BY <2>2, ProperUpset DEF WellServed
  <2>4. strays' = strays /\ agreed' = agreed
    BY <1>5 DEF DeskFails
  <2>5. upsets' \in 0..MaxUpsets
    BY <1>5, DeskAssumption DEF DeskFails, Upset, DeskTypes
  <2>. QED  BY <1>3, <2>1, <2>2, <2>3, <2>4, <2>5
<1>. QED  BY <1>4, <1>5

LEMMA StrayStepTyped ==
  ASSUME DeskShape, DeskTypes, StrayStep
  PROVE  DeskTypes'
<1>1. PICK k \in strays : LET n == Served(base, k) IN
         base' = n.base /\ strays' = (strays \ {k}) \cup {m \in {n.call} : Underway(m)}
  BY DEF StrayStep
<1>2. PICK n : n = Served(base, k)
  OBVIOUS
<1>3. /\ base' = n.base /\ strays' = (strays \ {k}) \cup {m \in {n.call} : Underway(m)}
      /\ desk' = desk /\ agreed' = agreed /\ upsets' = upsets
  BY <1>1, <1>2 DEF StrayStep
<1>4. WellServed(n, base)
  BY <1>2, ServedWell DEF DeskTypes, DeskShape
<1>5. Docs(base') /\ Grown(base, base') /\ ProperCall(n.call, base')
  BY <1>3, <1>4 DEF WellServed, Fine
<1>6. /\ \A b \in Clerks : ProperCall(desk[b], base')
      /\ \A s \in strays : ProperCall(s, base')
  BY <1>5, ProperStays DEF DeskTypes
<1>. QED  BY <1>3, <1>5, <1>6 DEF DeskTypes

LEMMA DeskLostTyped ==
  ASSUME DeskShape, DeskTypes, NEW c \in Clerks, DeskLost(c)
  PROVE  DeskTypes'
<1>1. PICK k : k = desk[c]
  OBVIOUS
<1>2. /\ base' = base /\ agreed' = agreed /\ upsets' \in 0..MaxUpsets
      /\ strays' = strays \cup {s \in {k} : Underway(s)}
  BY <1>1, DeskAssumption DEF DeskLost, Upset, DeskTypes
<1>3. ProperCall(k, base)
  BY <1>1 DEF DeskTypes
<1>4. CASE desk' = [desk EXCEPT ![c].step = "error", ![c].upset = TRUE]
  <2>1. PICK y : y = [k EXCEPT !.step = "error"]
    OBVIOUS
  <2>2. PICK x : x = [y EXCEPT !.upset = TRUE]
    OBVIOUS
  <2>3. ProperCall(y, base)
    <3>1. /\ y.op = k.op /\ y.id = k.id /\ y.want = k.want /\ y.step = "error" /\ y.doc = k.doc /\ y.upset = k.upset
          /\ y = [op |-> y.op, id |-> y.id, want |-> y.want, step |-> y.step, doc |-> y.doc, got |-> y.got,
                  upset |-> y.upset, attempt |-> y.attempt]
      BY <1>3, <2>1 DEF ProperCall, IsCall
    <3>2. IsCall(y)
      BY <1>3, <3>1 DEF ProperCall, IsCall, Steps
    <3>. QED  BY <1>3, <3>1, <3>2 DEF ProperCall
  <2>4. ProperCall(x, base)
    BY <2>2, <2>3, ProperUpset
  <2>5. desk' = [[desk EXCEPT ![c] = [desk[c] EXCEPT !.step = "error"]] EXCEPT ![c] = [@ EXCEPT !.upset = TRUE]]
    BY <1>4
  <2>6. desk' = [[desk EXCEPT ![c] = y] EXCEPT ![c] = [@ EXCEPT !.upset = TRUE]]
    BY <1>1, <2>1, <2>5
  <2>7. [desk EXCEPT ![c] = y][c] = y
    BY DEF DeskShape
  <2>8. desk' = [[desk EXCEPT ![c] = y] EXCEPT ![c] = x]
    BY <2>2, <2>6, <2>7
  <2>9. \A b \in Clerks : desk'[b] = x \/ desk'[b] = desk[b]
    BY <2>8 DEF DeskShape
  <2>. QED  BY <1>2, <1>3, <2>4, <2>9 DEF DeskTypes
<1>5. CASE desk' = [desk EXCEPT ![c] = [Errand(@.op, @.id, @.want) EXCEPT !.upset = TRUE, !.attempt = 2]]
  <2>1. PICK x : x = [Errand(k.op, k.id, k.want) EXCEPT !.upset = TRUE, !.attempt = 2]
    OBVIOUS
  <2>2. ProperCall(x, base)
    <3>1. /\ x.op = k.op /\ x.id = k.id /\ x.want = k.want /\ x.step = "begin" /\ x.upset = TRUE
          /\ x = [op |-> x.op, id |-> x.id, want |-> x.want, step |-> x.step, doc |-> x.doc, got |-> x.got,
                  upset |-> x.upset, attempt |-> x.attempt]
      BY <2>1 DEF Errand
    <3>2. IsCall(x)
      BY <1>3, <3>1 DEF ProperCall, IsCall, Steps
    <3>. QED  BY <1>3, <3>1, <3>2 DEF ProperCall
  <2>3. desk' = [desk EXCEPT ![c] = x]
    BY <1>1, <1>5, <2>1
  <2>4. \A b \in Clerks : desk'[b] = x \/ desk'[b] = desk[b]
    BY <2>3 DEF DeskShape
  <2>. QED  BY <1>2, <1>3, <2>2, <2>4 DEF DeskTypes
<1>. QED  BY <1>4, <1>5 DEF DeskLost

LEMMA AnsweredTyped ==
  ASSUME DeskShape, DeskTypes, NEW c \in Clerks, Answered(c)
  PROVE  DeskTypes'
<1>1. /\ base' = base /\ strays' = strays /\ upsets' = upsets /\ desk' = [desk EXCEPT ![c] = NoErrand]
  BY DEF Answered
<1>2. PICK k : k = desk[c]
  OBVIOUS
<1>3. k.upset \in BOOLEAN
  BY <1>2 DEF DeskTypes, ProperCall, IsCall
<1>4. agreed' = agreed \/ \E said : agreed' = [agreed EXCEPT ![k.id] = said]
  <2>1. \/ k.op \notin Writing \/ k.id = 0
        \/ k.op \in Writing /\ k.id # 0 /\ k.upset
        \/ k.op \in Writing /\ k.id # 0 /\ ~k.upset
    BY <1>3
  <2>. QED  BY <1>2, <2>1 DEF Answered, Unsure
<1>5. DOMAIN agreed' = PlanIds
  BY <1>4 DEF DeskTypes
<1>6. ProperCall(NoErrand, base)
  BY DEF ProperCall, NoErrand, IsCall, Steps, OfPlan, Carries, Writing
<1>7. \A b \in Clerks : desk'[b] = NoErrand \/ desk'[b] = desk[b]
  BY <1>1 DEF DeskShape
<1>. QED  BY <1>1, <1>5, <1>6, <1>7 DEF DeskTypes

LEMMA DeskTypesKept == DeskInv /\ DeskTypes /\ [DeskNext]_deskVars => DeskTypes'
<1>1. SUFFICES ASSUME DeskInv, DeskShape, DeskTypes, [DeskNext]_deskVars PROVE DeskTypes'
  BY DEF DeskInv
<1>2. CASE DeskNext
  BY <1>1, <1>2, RequestTyped, DeskStepTyped, DeskLostTyped, AnsweredTyped, StrayStepTyped DEF DeskNext
<1>3. CASE UNCHANGED deskVars
  BY <1>1, <1>3 DEF deskVars, DeskTypes
<1>. QED  BY <1>1, <1>2, <1>3

LEMMA TypesOfDesk == DeskTypes => DeskTypeOK
<1>1. SUFFICES ASSUME DeskTypes PROVE DeskTypeOK
  OBVIOUS
<1>2. /\ \A q \in DOMAIN base.plans : Holds(base, q) => base.plans[q][1] \in Plan
      /\ base.locked \subseteq DOMAIN base.plans
      /\ \A j \in DOMAIN base.jobs : base.jobs[j] \in [plan : DOMAIN base.plans, remain : BOOLEAN]
  BY <1>1 DEF DeskTypes, Docs, Holds, Job
<1>3. ASSUME NEW k \in {desk[c] : c \in Clerks} \cup strays
      PROVE  /\ k.op \in Routes \cup {"none"} /\ k.id \in Nat
             /\ k.op \in {"updatePlan", "deletePlan", "runPlan"} => k.id \in DOMAIN base.plans
             /\ k.op \in {"updatePlan", "runPlan"} /\ k.step \in {"lock", "write"} => k.doc[1] \in Plan
  <2>1. ProperCall(k, base)
    BY <1>1, <1>3 DEF DeskTypes
  <2>. QED  BY <2>1 DEF ProperCall, IsCall, OfPlan, Carries
<1>. QED  BY <1>1, <1>2, <1>3 DEF DeskTypes, DeskTypeOK

\* For any clerks, requests and failures: a lock, a job and a call are of plans
\* that there are or have been, and what is written over a plan is a plan.
THEOREM DeskTypesHold == DeskSpec => []DeskTypeOK
<1>1. DeskInit => DeskInv /\ DeskTypes
  BY DeskStarts, TypesBegin DEF DeskInit
<1>. QED  BY <1>1, DeskKeeps, DeskTypesKept, TypesOfDesk, PTL DEF DeskSpec

-----------------------------------------------------------------------------

\* A set of numbers has a least one.
LEMMA LeastOf ==
  ASSUME NEW S, S \subseteq Nat, S # {}
  PROVE  \E n \in S : \A m \in S : n <= m
<1>1. \E n \in S : \A m \in S : ~(<<m, n>> \in OpToRel(<, Nat))
  BY WFMin, NatLessThanWellFounded, Zenon
<1>2. PICK n \in S : \A m \in S : ~(m < n)
  BY <1>1, Zenon DEF OpToRel
<1>3. \A m \in S : m \in Nat /\ n \in Nat
  OBVIOUS
<1>4. \A m \in S : n <= m
  BY <1>2, <1>3
<1>. QED  BY <1>4

-----------------------------------------------------------------------------
(* The parser *)

\* What the tokens of a handle are: those at the end of the state.
LEMMA HandleIs ==
  ASSUME NEW S, NEW s \in Seq(S), NEW key \in Handles(s)
  PROVE  \/ /\ key = <<"not", "check">> /\ Len(s) >= 2
            /\ s[Len(s) - 1].token = "not"
         \/ /\ key = <<key[1], key[2], key[3]>> /\ Len(key) = 3 /\ Len(s) >= 3
            /\ s[Len(s) - 2].token = key[1] /\ s[Len(s) - 1].token = key[2] /\ s[Len(s)].token = key[3]
            /\ key[2] # "not"
<1>1. key \in ReduceFuncMap /\ Len(key) <= Len(s) /\ \A i \in DOMAIN key : Top(s, Len(key))[i].token = key[i]
  BY DEF Handles
<1>2. key = <<"not", "check">> \/ (key = <<key[1], key[2], key[3]>> /\ Len(key) = 3 /\ key[2] # "not")
  BY <1>1 DEF ReduceFuncMap
<1>3. CASE key = <<"not", "check">>
  <2>1. Len(key) = 2 /\ 1 \in DOMAIN key /\ key[1] = "not"
    BY <1>3
  <2>2. Top(s, 2)[1] = s[Len(s) - 1]
    BY <1>1, <2>1 DEF Top
  <2>3. Top(s, 2)[1].token = "not"
    BY <1>1, <2>1
  <2>. QED  BY <1>1, <1>3, <2>1, <2>2, <2>3
<1>4. CASE key = <<key[1], key[2], key[3]>> /\ Len(key) = 3 /\ key[2] # "not"
  <2>1. 1 \in DOMAIN key /\ 2 \in DOMAIN key /\ 3 \in DOMAIN key
    BY <1>4
  <2>2. Top(s, 3)[1] = s[Len(s) - 2] /\ Top(s, 3)[2] = s[Len(s) - 1] /\ Top(s, 3)[3] = s[Len(s)]
    BY <1>1, <1>4 DEF Top
  <2>3. Top(s, 3)[1].token = key[1] /\ Top(s, 3)[2].token = key[2] /\ Top(s, 3)[3].token = key[3]
    BY <1>1, <1>4, <2>1
  <2>. QED  BY <1>1, <1>4, <2>2, <2>3
<1>. QED  BY <1>2, <1>3, <1>4

\* A state ends in one handle or in none.
LEMMA OneHandle ==
  ASSUME NEW S, NEW s \in Seq(S), NEW key1 \in Handles(s), NEW key2 \in Handles(s)
  PROVE  key1 = key2
<1>1. CASE s[Len(s) - 1].token = "not"
  <2>1. key1 = <<"not", "check">> /\ key2 = <<"not", "check">>
    BY <1>1, HandleIs
  <2>. QED  BY <2>1
<1>2. CASE s[Len(s) - 1].token # "not"
  <2>. DEFINE found == <<s[Len(s) - 2].token, s[Len(s) - 1].token, s[Len(s)].token>>
  <2>1. key1 = found
    BY <1>2, HandleIs
  <2>2. key2 = found
    BY <1>2, HandleIs
  <2>. QED  BY <2>1, <2>2
<1>. QED  BY <1>1, <1>2

LEMMA OneReduction ==
  ASSUME NEW S, NEW s \in Seq(S)
  PROVE  \E T, t : t \in Seq(T) /\ Reduce(s) = {t}
<1>1. CASE Handles(s) = {}
  BY <1>1 DEF Reduce
<1>2. CASE Handles(s) # {}
  <2>1. PICK key \in Handles(s) : TRUE
    BY <1>2
  <2>2. Handles(s) = {key}
    BY <2>1, OneHandle
  <2>. DEFINE kept == SubSeq(s, 1, Len(s) - Len(key))
              made == Reduced(key, Top(s, Len(key)))
              T == S \cup {made}
  <2>3. Reduce(s) = {Append(kept, made)}
    BY <1>2, <2>2 DEF Reduce
  <2>4. kept \in Seq(T)
    <3>1. Len(key) \in {2, 3} /\ Len(s) >= Len(key)
      BY <2>1, HandleIs
    <3>2. Len(s) - Len(key) \in 0..Len(s)
      BY <3>1
    <3>3. PICK n \in 0..Len(s) : n = Len(s) - Len(key)
      BY <3>2
    <3>4. SubSeq(s, 1, n) \in Seq(S)
      <4>1. \A i \in 1..n : s[i] \in S
        OBVIOUS
      <4>. QED  BY <4>1
    <3>5. Seq(S) \subseteq Seq(T)
      OBVIOUS
    <3>. QED  BY <3>3, <3>4, <3>5
  <2>. HIDE DEF kept, made
  <2>5. Append(kept, made) \in Seq(T)
    <3>1. made \in T
      OBVIOUS
    <3>. QED  BY <2>4, <3>1
  <2>. QED  BY <2>3, <2>5
<1>. QED  BY <1>1, <1>2

\* after has what the reductions of s lead to, one after another.
Reducing(after, s, n) == after = [i \in 0..n |-> IF i = 0 THEN {s} ELSE UNION {Reduce(t) : t \in after[i - 1]}]

LEMMA SomeReducing ==
  ASSUME NEW s, NEW n \in Nat
  PROVE  \E after : Reducing(after, s, n)
<1>. DEFINE Has(m) == \E after : Reducing(after, s, m)
            Lacking == {m \in Nat : ~Has(m)}
<1>1. ASSUME Lacking # {} PROVE FALSE
  <2>1. PICK m \in Lacking : \A i \in Lacking : m <= i
    <3>1. Lacking \subseteq Nat
      OBVIOUS
    <3>. QED  BY <1>1, <3>1, LeastOf
  <2>2. m \in Nat /\ ~Has(m)
    BY <2>1
  <2>3. CASE m = 0
    <3>. DEFINE after == [i \in 0..0 |-> {s}]
    <3>1. Reducing(after, s, 0)
      BY DEF Reducing
    <3>. QED  BY <2>2, <2>3, <3>1
  <2>4. CASE m # 0
    <3>1. m - 1 \in Nat /\ m - 1 \notin Lacking
      <4>1. m - 1 \in Nat /\ ~(m <= m - 1)
        BY <2>2, <2>4
      <4>. QED  BY <2>1, <4>1
    <3>2. PICK before : Reducing(before, s, m - 1)
      BY <3>1
    <3>. DEFINE more == UNION {Reduce(r) : r \in before[m - 1]}
                after == [i \in 0..m |-> IF i = m THEN more ELSE before[i]]
    <3>3. \A i \in 0..(m - 1) : after[i] = before[i] /\ i \in 0..m
      BY <2>2
    <3>4. ASSUME NEW i \in 0..m
          PROVE  after[i] = IF i = 0 THEN {s} ELSE UNION {Reduce(r) : r \in after[i - 1]}
      <4>1. CASE i = m
        <5>1. after[i - 1] = before[m - 1] /\ after[i] = more
          BY <2>2, <2>4, <3>3, <4>1
        <5>. QED  BY <2>4, <4>1, <5>1
      <4>2. CASE i # m
        <5>1. i \in 0..(m - 1) /\ (i # 0 => i - 1 \in 0..(m - 1))
          BY <2>2, <4>2
        <5>2. before[i] = IF i = 0 THEN {s} ELSE UNION {Reduce(r) : r \in before[i - 1]}
          BY <3>2, <5>1 DEF Reducing
        <5>. QED  BY <3>3, <5>1, <5>2
      <4>. QED  BY <4>1, <4>2
    <3>. HIDE DEF after
    <3>5. Reducing(after, s, m)
      <4>1. after = [i \in 0..m |-> after[i]]
        BY DEF after
      <4>. QED  BY <3>4, <4>1 DEF Reducing
    <3>. QED  BY <2>2, <3>5
  <2>. QED  BY <2>3, <2>4
<1>. QED  BY <1>1

\* Whatever the order in which the handles are tried, and however often, the
\* state after a word is the same: parseRule's choice is one of one.
THEOREM OrderDoesNotMatter ==
  ASSUME NEW S, NEW s \in Seq(S)
  PROVE  \E t : Reductions(s) = {t}
<1>. DEFINE after == CHOOSE f : Reducing(f, s, Len(s))
            Single(n) == \E T, t : t \in Seq(T) /\ after[n] = {t}
            Lacking == {n \in 0..Len(s) : ~Single(n)}
<1>1. Reducing(after, s, Len(s))
  <2>1. Len(s) \in Nat
    OBVIOUS
  <2>. QED  BY <2>1, SomeReducing, Zenon
<1>2. Reductions(s) = after[Len(s)]
  BY Zenon DEF Reductions, Reducing
<1>. HIDE DEF after
<1>3. \A i \in 0..Len(s) : after[i] = IF i = 0 THEN {s} ELSE UNION {Reduce(r) : r \in after[i - 1]}
  BY <1>1 DEF Reducing
<1>4. ASSUME Lacking # {} PROVE FALSE
  <2>1. PICK n \in Lacking : \A m \in Lacking : n <= m
    <3>1. Lacking \subseteq Nat
      OBVIOUS
    <3>. QED  BY <1>4, <3>1, LeastOf
  <2>2. n \in 0..Len(s) /\ ~Single(n)
    BY <2>1
  <2>3. n # 0
    BY <1>3, <2>2
  <2>4. n - 1 \in 0..Len(s) /\ n - 1 \notin Lacking
    <3>1. n - 1 \in 0..Len(s) /\ ~(n <= n - 1)
      BY <2>2, <2>3
    <3>. QED  BY <2>1, <3>1
  <2>5. PICK T, t : t \in Seq(T) /\ after[n - 1] = {t}
    BY <2>4
  <2>6. PICK U, u : u \in Seq(U) /\ Reduce(t) = {u}
    BY <2>5, OneReduction
  <2>7. after[n] = UNION {Reduce(r) : r \in after[n - 1]}
    BY <1>3, <2>2, <2>3
  <2>8. after[n] = {u}
    BY <2>5, <2>6, <2>7
  <2>. QED  BY <2>2, <2>6, <2>8
<1>5. Len(s) \in 0..Len(s) /\ Len(s) \notin Lacking
  BY <1>4
<1>. QED  BY <1>2, <1>5

-----------------------------------------------------------------------------
(* What a check answers *)

\* w has the checks within others, by depth.
Reaches(w, checks, depth) ==
  w = [n \in 0..depth |-> IF n = 0 THEN checks ELSE w[n - 1] \cup UNION {Inside(c) : c \in w[n - 1]}]

LEMMA WithinIs ==
  ASSUME NEW checks, NEW depth \in Nat
  PROVE  Reaches(Within(checks, depth), checks, depth)
<1>1. Within(checks, depth) = CHOOSE w : Reaches(w, checks, depth)
  BY Zenon DEF Within, Reaches
<1>. DEFINE Has(n) == \E w : Reaches(w, checks, n)
            Lacking == {n \in Nat : ~Has(n)}
<1>2. ASSUME Lacking # {} PROVE FALSE
  <2>1. PICK n \in Lacking : \A m \in Lacking : n <= m
    <3>1. Lacking \subseteq Nat
      OBVIOUS
    <3>. QED  BY <1>2, <3>1, LeastOf
  <2>2. n \in Nat /\ ~Has(n)
    BY <2>1
  <2>3. CASE n = 0
    <3>. DEFINE w == [i \in 0..0 |-> checks]
    <3>1. Reaches(w, checks, 0)
      BY DEF Reaches
    <3>. QED  BY <2>2, <2>3, <3>1
  <2>4. CASE n # 0
    <3>1. n - 1 \in Nat /\ n - 1 \notin Lacking
      BY <2>1, <2>2, <2>4
    <3>2. PICK w : Reaches(w, checks, n - 1)
      BY <3>1
    <3>. DEFINE more == w[n - 1] \cup UNION {Inside(c) : c \in w[n - 1]}
    <3>. DEFINE g == [i \in 0..n |-> IF i = n THEN more ELSE w[i]]
    <3>3. \A i \in 0..(n - 1) : g[i] = w[i] /\ i \in 0..n
      BY <2>2
    <3>4. ASSUME NEW i \in 0..n
          PROVE  g[i] = IF i = 0 THEN checks ELSE g[i - 1] \cup UNION {Inside(c) : c \in g[i - 1]}
      <4>1. CASE i = n
        <5>1. g[i - 1] = w[n - 1] /\ g[i] = more
          BY <2>2, <2>4, <3>3, <4>1
        <5>. QED  BY <2>4, <4>1, <5>1
      <4>2. CASE i # n
        <5>1. i \in 0..(n - 1) /\ (i # 0 => i - 1 \in 0..(n - 1))
          BY <2>2, <4>2
        <5>2. w[i] = IF i = 0 THEN checks ELSE w[i - 1] \cup UNION {Inside(c) : c \in w[i - 1]}
          BY <3>2, <5>1 DEF Reaches
        <5>. QED  BY <3>3, <5>1, <5>2
      <4>. QED  BY <4>1, <4>2
    <3>. HIDE DEF g
    <3>5. Reaches(g, checks, n)
      <4>1. g = [i \in 0..n |-> g[i]]
        BY DEF g
      <4>. QED  BY <3>4, <4>1 DEF Reaches
    <3>. QED  BY <2>2, <3>5
  <2>. QED  BY <2>3, <2>4
<1>3. Has(depth)
  BY <1>2
<1>. QED  BY <1>1, <1>3, Zenon

\* ... and a check that is within is followed by those inside it.
LEMMA WithinGrows ==
  ASSUME NEW checks, NEW depth \in Nat, NEW w, w = Within(checks, depth)
  PROVE  /\ \A n \in 0..depth : checks \subseteq w[n]
         /\ \A n \in 1..depth : \A c \in w[n - 1] : Inside(c) \subseteq w[n]
<1>1. Reaches(w, checks, depth)
  BY WithinIs
<1>2. \A n \in 0..depth : w[n] = IF n = 0 THEN checks ELSE w[n - 1] \cup UNION {Inside(c) : c \in w[n - 1]}
  BY <1>1 DEF Reaches
<1>3. w[0] = checks
  <2>1. 0 \in 0..depth
    OBVIOUS
  <2>. QED  BY <1>2, <2>1
<1>4. ASSUME NEW n \in 1..depth
      PROVE  w[n - 1] \subseteq w[n] /\ \A c \in w[n - 1] : Inside(c) \subseteq w[n]
  <2>1. w[n] = w[n - 1] \cup UNION {Inside(c) : c \in w[n - 1]}
    <3>1. n \in 0..depth /\ n # 0
      OBVIOUS
    <3>. QED  BY <1>2, <3>1
  <2>2. \A c \in w[n - 1] : Inside(c) \subseteq UNION {Inside(d) : d \in w[n - 1]}
    OBVIOUS
  <2>. QED  BY <2>1, <2>2
<1>. DEFINE Lacking == {n \in 0..depth : ~(checks \subseteq w[n])}
<1>5. ASSUME Lacking # {} PROVE FALSE
  <2>1. PICK n \in Lacking : \A m \in Lacking : n <= m
    <3>1. Lacking \subseteq Nat
      OBVIOUS
    <3>. QED  BY <1>5, <3>1, LeastOf
  <2>2. n # 0
    BY <1>3, <2>1
  <2>3. n - 1 \in 0..depth /\ n \in 1..depth /\ n - 1 \notin Lacking
    BY <2>1, <2>2
  <2>. QED  BY <1>4, <2>1, <2>3
<1>. QED  BY <1>4, <1>5

LEMMA WithinMore ==
  ASSUME NEW some, NEW all, some \subseteq all, NEW depth \in Nat, NEW n \in 0..depth
  PROVE  Within(some, depth)[n] \subseteq Within(all, depth)[n]
<1>. DEFINE v == Within(some, depth)
            w == Within(all, depth)
<1>1. Reaches(v, some, depth) /\ Reaches(w, all, depth)
  BY WithinIs
<1>. HIDE DEF v, w
<1>2. /\ v[0] = some /\ w[0] = all
      /\ \A i \in 1..depth : v[i] = v[i - 1] \cup UNION {Inside(c) : c \in v[i - 1]}
      /\ \A i \in 1..depth : w[i] = w[i - 1] \cup UNION {Inside(c) : c \in w[i - 1]}
  BY <1>1 DEF Reaches
<1>. DEFINE Lacking == {i \in 0..depth : ~(v[i] \subseteq w[i])}
<1>3. ASSUME Lacking # {} PROVE FALSE
  <2>1. PICK i \in Lacking : \A m \in Lacking : i <= m
    <3>1. Lacking \subseteq Nat
      OBVIOUS
    <3>. QED  BY <1>3, <3>1, LeastOf
  <2>2. i # 0
    BY <1>2, <2>1
  <2>3. i - 1 \in 0..depth /\ i \in 1..depth /\ i - 1 \notin Lacking
    BY <2>1, <2>2
  <2>4. v[i - 1] \subseteq w[i - 1]
    BY <2>3
  <2>5. v[i] \subseteq w[i]
    BY <1>2, <2>3, <2>4
  <2>. QED  BY <2>1, <2>5
<1>. QED  BY <1>3 DEF v, w

\* ExecAll answers what the first check does that does not answer `go'.
FirstOther(go, checks, z, k) ==
  /\ k \in 1..Len(checks) /\ z[checks[k]] # go
  /\ \A j \in 1..(k - 1) : z[checks[j]] = go
LEMMA FirstAnswer ==
  ASSUME NEW go, NEW checks, NEW z, NEW k, FirstOther(go, checks, z, k)
  PROVE  ExecAll(go, checks, z) = z[checks[k]]
<1>. USE DEF FirstOther
<1>1. z[checks[k]] \in Answers(go, checks, z)
  BY DEF Answers
<1>2. ASSUME NEW answer \in Answers(go, checks, z), answer # go
      PROVE  answer = z[checks[k]]
  <2>1. PICK i \in 1..Len(checks) : answer = z[checks[i]] /\ \A j \in 1..(i - 1) : z[checks[j]] = go
    BY <1>2 DEF Answers
  <2>2. ~(i < k)
    <3>1. i < k => i \in 1..(k - 1)
      OBVIOUS
    <3>. QED  BY <1>2, <2>1, <3>1
  <2>3. ~(k < i)
    <3>1. k < i => k \in 1..(i - 1)
      OBVIOUS
    <3>. QED  BY <2>1, <3>1
  <2>4. i = k
    BY <2>2, <2>3
  <2>. QED  BY <2>1, <2>4
<1>3. ~(Answers(go, checks, z) \subseteq {go})
  BY <1>1
<1>. QED  BY <1>1, <1>2, <1>3, Zenon DEF ExecAll

LEMMA AllGo ==
  ASSUME NEW go, NEW checks, NEW z, \A i \in 1..Len(checks) : z[checks[i]] = go
  PROVE  ExecAll(go, checks, z) = go
<1>1. Answers(go, checks, z) \subseteq {go}
  BY DEF Answers
<1>. QED  BY <1>1, Zenon DEF ExecAll

\* y answers what x does, of the checks that x answers without a panic.
Extends(y, x, checks) == \A c \in checks : x[c] # MissingRule => y[c] = x[c]

LEMMA ExecAllMore ==
  ASSUME NEW go, go # MissingRule, NEW checks, NEW x, NEW y,
         Extends(y, x, {checks[i] : i \in 1..Len(checks)}),
         ExecAll(go, checks, x) # MissingRule
  PROVE  ExecAll(go, checks, y) = ExecAll(go, checks, x)
<1>. DEFINE Others == {i \in 1..Len(checks) : x[checks[i]] # go}
<1>1. \A i \in 1..Len(checks) : x[checks[i]] # MissingRule => y[checks[i]] = x[checks[i]]
  BY DEF Extends
<1>2. CASE Others = {}
  <2>1. \A i \in 1..Len(checks) : x[checks[i]] = go
    BY <1>2
  <2>2. \A i \in 1..Len(checks) : y[checks[i]] = go
    BY <1>1, <2>1
  <2>3. ExecAll(go, checks, x) = go
    BY <2>1, AllGo
  <2>4. ExecAll(go, checks, y) = go
    BY <2>2, AllGo
  <2>. QED  BY <2>3, <2>4
<1>3. CASE Others # {}
  <2>1. PICK k \in Others : \A m \in Others : k <= m
    <3>1. Others \subseteq Nat
      OBVIOUS
    <3>. QED  BY <1>3, <3>1, LeastOf
  <2>2. k \in 1..Len(checks) /\ x[checks[k]] # go
    BY <2>1
  <2>3. ASSUME NEW j \in 1..(k - 1)
        PROVE  x[checks[j]] = go /\ j \in 1..Len(checks)
    <3>1. j \in 1..Len(checks) /\ ~(k <= j)
      BY <2>2
    <3>. QED  BY <2>1, <3>1
  <2>4. ExecAll(go, checks, x) = x[checks[k]]
    <3>1. FirstOther(go, checks, x, k)
      BY <2>2, <2>3 DEF FirstOther
    <3>. QED  BY <3>1, FirstAnswer
  <2>5. y[checks[k]] = x[checks[k]]
    BY <1>1, <2>2, <2>4
  <2>6. \A j \in 1..(k - 1) : y[checks[j]] = go
    BY <1>1, <2>3
  <2>7. ExecAll(go, checks, y) = y[checks[k]]
    <3>1. FirstOther(go, checks, y, k)
      BY <2>2, <2>5, <2>6 DEF FirstOther
    <3>. QED  BY <3>1, FirstAnswer
  <2>. QED  BY <2>4, <2>5, <2>7
<1>. QED  BY <1>2, <1>3

\* The rules so far are some of all.
Included(part, full) == DOMAIN part \subseteq DOMAIN full /\ \A n \in DOMAIN part : full[n] = part[n]
AskedBy(check, rls) == Inside(check) \cup {rls[n] : n \in DOMAIN rls}

\* A check that answers without a panic by some of the rules answers the same by all.
LEMMA ExecOneMore ==
  ASSUME NEW check, NEW part, NEW full, NEW cred, NEW x, NEW y,
         DOMAIN part # {}, Included(part, full), Extends(y, x, AskedBy(check, part)),
         ExecOne(check, part, cred, x) # MissingRule
  PROVE  ExecOne(check, full, cred, y) = ExecOne(check, part, cred, x)
<1>0. \A c \in Inside(check) : x[c] # MissingRule => y[c] = x[c]
  BY DEF Extends, AskedBy
<1>1. CASE check.is = "true" \/ check.is = "false" \/ check.is = "role"
  BY <1>1 DEF ExecOne
<1>2. CASE check.is = "not"
  <2>1. check.rule \in Inside(check)
    BY <1>2 DEF Inside
  <2>2. ExecOne(check, part, cred, x) = Not(x[check.rule]) /\ ExecOne(check, full, cred, y) = Not(y[check.rule])
    BY <1>2 DEF ExecOne
  <2>3. Not(MissingRule) = MissingRule
    BY DEF Not, MissingRule
  <2>4. y[check.rule] = x[check.rule]
    BY <1>0, <2>1, <2>2, <2>3
  <2>. QED  BY <2>2, <2>4
<1>3. CASE check.is \in {"and", "or"}
  <2>1. PICK go : go = IF check.is = "and" THEN "yes" ELSE "no"
    OBVIOUS
  <2>2. go # MissingRule
    BY <2>1 DEF MissingRule
  <2>3. /\ ExecOne(check, part, cred, x) = ExecAll(go, check.rules, x)
        /\ ExecOne(check, full, cred, y) = ExecAll(go, check.rules, y)
    BY <1>3, <2>1 DEF ExecOne
  <2>4. Inside(check) = {check.rules[i] : i \in 1..Len(check.rules)}
    BY <1>3 DEF Inside
  <2>5. Extends(y, x, {check.rules[i] : i \in 1..Len(check.rules)})
    BY <1>0, <2>4 DEF Extends
  <2>. QED  BY <2>2, <2>3, <2>5, ExecAllMore
<1>4. CASE check.is = "rule"
  <2>1. ExecOne(check, part, cred, x) = IF check.match \notin DOMAIN part THEN MissingRule ELSE x[part[check.match]]
    BY <1>4 DEF ExecOne
  <2>2. check.match \in DOMAIN part /\ x[part[check.match]] # MissingRule
    BY <2>1
  <2>3. check.match \in DOMAIN full /\ full[check.match] = part[check.match] /\ DOMAIN full # {}
    BY <2>2 DEF Included
  <2>4. ExecOne(check, full, cred, y) = y[full[check.match]]
    BY <1>4, <2>3 DEF ExecOne
  <2>5. y[part[check.match]] = x[part[check.match]]
    BY <2>2 DEF Extends, AskedBy
  <2>. QED  BY <2>1, <2>2, <2>3, <2>4, <2>5
<1>5. CASE check.is \notin {"true", "false", "role", "not", "and", "or", "rule"}
  BY <1>5 DEF ExecOne
<1>. QED  BY <1>1, <1>2, <1>3, <1>4, <1>5

\* e has what the checks answer, by the depth that is left to them.
Executes(e, w, rls, cred, depth, n) ==
  e = [d \in 0..n |->
        [c \in w[depth - d] |-> IF d = 0 THEN "overflow" ELSE ExecOne(c, rls, cred, e[d - 1])]]

LEMMA SomeExecutes ==
  ASSUME NEW w, NEW rls, NEW cred, NEW depth \in Nat
  PROVE  \E e : Executes(e, w, rls, cred, depth, depth)
<1>. DEFINE Has(n) == \E e : Executes(e, w, rls, cred, depth, n)
            Lacking == {n \in Nat : ~Has(n)}
<1>2. ASSUME Lacking # {} PROVE FALSE
  <2>1. PICK n \in Lacking : \A m \in Lacking : n <= m
    <3>1. Lacking \subseteq Nat
      OBVIOUS
    <3>. QED  BY <1>2, <3>1, LeastOf
  <2>2. n \in Nat /\ ~Has(n)
    BY <2>1
  <2>3. CASE n = 0
    <3>. DEFINE e == [d \in 0..0 |-> [c \in w[depth - d] |-> "overflow"]]
    <3>1. Executes(e, w, rls, cred, depth, 0)
      BY DEF Executes
    <3>. QED  BY <2>2, <2>3, <3>1
  <2>4. CASE n # 0
    <3>1. n - 1 \in Nat /\ n - 1 \notin Lacking
      BY <2>1, <2>2, <2>4
    <3>2. PICK e : Executes(e, w, rls, cred, depth, n - 1)
      BY <3>1
    <3>. DEFINE more == [c \in w[depth - n] |-> ExecOne(c, rls, cred, e[n - 1])]
    <3>. DEFINE g == [i \in 0..n |-> IF i = n THEN more ELSE e[i]]
    <3>3. \A i \in 0..(n - 1) : g[i] = e[i] /\ i \in 0..n
      BY <2>2
    <3>4. ASSUME NEW i \in 0..n
          PROVE  g[i] = [c \in w[depth - i] |-> IF i = 0 THEN "overflow" ELSE ExecOne(c, rls, cred, g[i - 1])]
      <4>1. CASE i = n
        <5>1. g[i - 1] = e[n - 1] /\ g[i] = more
          BY <2>2, <2>4, <3>3, <4>1
        <5>. QED  BY <2>4, <4>1, <5>1
      <4>2. CASE i # n
        <5>1. i \in 0..(n - 1) /\ (i # 0 => i - 1 \in 0..(n - 1))
          BY <2>2, <4>2
        <5>2. e[i] = [c \in w[depth - i] |-> IF i = 0 THEN "overflow" ELSE ExecOne(c, rls, cred, e[i - 1])]
          BY <3>2, <5>1 DEF Executes
        <5>. QED  BY <3>3, <5>1, <5>2
      <4>. QED  BY <4>1, <4>2
    <3>. HIDE DEF g
    <3>5. Executes(g, w, rls, cred, depth, n)
      <4>1. g = [i \in 0..n |-> g[i]]
        BY DEF g
      <4>. QED  BY <3>4, <4>1 DEF Executes
    <3>. QED  BY <2>2, <3>5
  <2>. QED  BY <2>3, <2>4
<1>. QED  BY <1>2

Pool(check, rls) == {check} \cup {rls[n] : n \in DOMAIN rls}
LEMMA ExecIs ==
  ASSUME NEW check, NEW rls, NEW cred, NEW depth \in Nat,
         NEW all, all = Pool(check, rls)
  PROVE  \E e : /\ Executes(e, Within(all, depth), rls, cred, depth, depth)
                /\ Exec(check, rls, cred, depth) = e[depth][check]
<1>. DEFINE w == Within(all, depth)
<1>. DEFINE e == CHOOSE f : Executes(f, w, rls, cred, depth, depth)
<1>1. Executes(e, w, rls, cred, depth, depth)
  BY SomeExecutes, Zenon
<1>2. Exec(check, rls, cred, depth) = e[depth][check]
  BY Zenon DEF Exec, Executes, Pool
<1>. QED  BY <1>1, <1>2, Zenon

\* What some of the rules allow or deny without a panic, all of them do.
LEMMA MoreRules ==
  ASSUME NEW check, NEW part, NEW full, NEW cred, NEW depth \in Nat,
         DOMAIN part # {}, Included(part, full),
         Exec(check, part, cred, depth) # MissingRule
  PROVE  Exec(check, full, cred, depth) = Exec(check, part, cred, depth)
<1>1. PICK some : some = Pool(check, part)
  OBVIOUS
<1>2. PICK all : all = Pool(check, full)
  OBVIOUS
<1>3. some \subseteq all
  BY <1>1, <1>2 DEF Included, Pool
<1>4. PICK v : v = Within(some, depth)
  OBVIOUS
<1>5. PICK w : w = Within(all, depth)
  OBVIOUS
<1>6. PICK e : Executes(e, v, part, cred, depth, depth) /\ Exec(check, part, cred, depth) = e[depth][check]
  <2>1. \E g : /\ Executes(g, Within(some, depth), part, cred, depth, depth)
               /\ Exec(check, part, cred, depth) = g[depth][check]
    BY <1>1, ExecIs
  <2>. QED  BY <1>4, <2>1
<1>7. PICK f : Executes(f, w, full, cred, depth, depth) /\ Exec(check, full, cred, depth) = f[depth][check]
  <2>1. \E g : /\ Executes(g, Within(all, depth), full, cred, depth, depth)
               /\ Exec(check, full, cred, depth) = g[depth][check]
    BY <1>2, ExecIs
  <2>. QED  BY <1>5, <2>1
<1>8. /\ \A n \in 0..depth : some \subseteq v[n] /\ v[n] \subseteq w[n]
      /\ \A n \in 1..depth : \A c \in v[n - 1] : Inside(c) \subseteq v[n]
  <2>1. \A n \in 0..depth : v[n] \subseteq w[n]
    BY <1>3, <1>4, <1>5, WithinMore
  <2>. QED  BY <1>4, <2>1, WithinGrows
<1>9. \A d \in 0..depth : \A c \in v[depth - d] :
        /\ e[d][c] = IF d = 0 THEN "overflow" ELSE ExecOne(c, part, cred, e[d - 1])
        /\ f[d][c] = IF d = 0 THEN "overflow" ELSE ExecOne(c, full, cred, f[d - 1])
  <2>. SUFFICES ASSUME NEW d \in 0..depth, NEW c \in v[depth - d]
                PROVE  /\ e[d][c] = IF d = 0 THEN "overflow" ELSE ExecOne(c, part, cred, e[d - 1])
                       /\ f[d][c] = IF d = 0 THEN "overflow" ELSE ExecOne(c, full, cred, f[d - 1])
    OBVIOUS
  <2>1. depth - d \in 0..depth
    OBVIOUS
  <2>2. c \in w[depth - d]
    BY <1>8, <2>1
  <2>3. e[d][c] = IF d = 0 THEN "overflow" ELSE ExecOne(c, part, cred, e[d - 1])
    <3>1. e[d] = [b \in v[depth - d] |-> IF d = 0 THEN "overflow" ELSE ExecOne(b, part, cred, e[d - 1])]
      BY <1>6 DEF Executes
    <3>. QED  BY <3>1
  <2>4. f[d][c] = IF d = 0 THEN "overflow" ELSE ExecOne(c, full, cred, f[d - 1])
    <3>1. f[d] = [b \in w[depth - d] |-> IF d = 0 THEN "overflow" ELSE ExecOne(b, full, cred, f[d - 1])]
      BY <1>7 DEF Executes
    <3>. QED  BY <2>2, <3>1
  <2>. QED  BY <2>3, <2>4
<1>. DEFINE Lacking == {d \in 0..depth : ~Extends(f[d], e[d], v[depth - d])}
<1>10. ASSUME Lacking # {} PROVE FALSE
  <2>1. PICK d \in Lacking : \A m \in Lacking : d <= m
    <3>1. Lacking \subseteq Nat
      OBVIOUS
    <3>. QED  BY <1>10, <3>1, LeastOf
  <2>2. PICK c \in v[depth - d] : e[d][c] # MissingRule /\ f[d][c] # e[d][c]
    BY <2>1 DEF Extends
  <2>3. d # 0
    BY <1>9, <2>1, <2>2
  <2>4. d - 1 \in 0..depth /\ d - 1 \notin Lacking /\ depth - (d - 1) \in 1..depth /\ depth - (d - 1) - 1 = depth - d
    BY <2>1, <2>3
  <2>5. Extends(f[d - 1], e[d - 1], v[depth - (d - 1)])
    BY <2>4
  <2>6. AskedBy(c, part) \subseteq v[depth - (d - 1)]
    <3>1. Inside(c) \subseteq v[depth - (d - 1)]
      BY <1>8, <2>2, <2>4
    <3>2. some \subseteq v[depth - (d - 1)]
      <4>1. depth - (d - 1) \in 0..depth
        BY <2>4
      <4>. QED  BY <1>8, <4>1
    <3>. QED  BY <1>1, <3>1, <3>2 DEF AskedBy, Pool
  <2>7. Extends(f[d - 1], e[d - 1], AskedBy(c, part))
    BY <2>5, <2>6 DEF Extends
  <2>8. e[d][c] = ExecOne(c, part, cred, e[d - 1]) /\ f[d][c] = ExecOne(c, full, cred, f[d - 1])
    BY <1>9, <2>1, <2>2, <2>3
  <2>. QED  BY <2>2, <2>7, <2>8, ExecOneMore
<1>11. Extends(f[depth], e[depth], v[depth - depth])
  <2>1. depth \in 0..depth /\ depth \notin Lacking
    BY <1>10
  <2>. QED  BY <2>1
<1>12. check \in v[depth - depth]
  <2>1. depth - depth = 0 /\ 0 \in 0..depth
    OBVIOUS
  <2>. QED  BY <1>1, <1>8, <2>1 DEF Pool
<1>. QED  BY <1>6, <1>7, <1>11, <1>12 DEF Extends

-----------------------------------------------------------------------------
(* Requests, their tokens and the rules *)

AllRules == Loaded(WithDefaults(disk.texts))
\* The rules, and those that a request is loading, are the file's.
RulesOfFile == Included(rules, AllRules) /\ \A v \in Visitors : visit[v].loading \subseteq DOMAIN AllRules
\* Nobody is past the filter without a token that keystone took.
TokensTaken ==
  \A v \in Visitors :
    strategy.filter = "keystone" /\ place[v] \in {"enforce", "fill", "lookup", "handler"}
      => visit[v].token = "valid"
\* The second attempt has a fresh service token, or a reason not to.
RenewedOrTroubled == \A v \in Visitors : place[v] = "again" => identity = "valid" \/ v \in troubled

AuthInv ==
  /\ AuthTypeOK /\ RulesOfFile /\ TokensTaken /\ RenewedOrTroubled
  /\ OnlyAllowedReachHandlers /\ RefusedForAReason

LEMMA AllNamed ==
  ASSUME AuthTypeOK
  PROVE  /\ DOMAIN AllRules = DOMAIN WithDefaults(disk.texts)
         /\ DOMAIN AllRules \subseteq Actions \cup {"context_is_admin"}
         /\ \A a \in DOMAIN AllRules : AllRules[a] = parseRule(WithDefaults(disk.texts)[a])
<1>1. DOMAIN disk.texts \subseteq Actions
  <2>1. disk.texts \in Files \cup {<<>>}
    BY DEF AuthTypeOK, NoFile
  <2>. QED  BY <2>1, AuthorizationAssumption
<1>2. DOMAIN WithDefaults(disk.texts) = DOMAIN disk.texts \cup {"context_is_admin"}
  BY DEF WithDefaults
<1>. QED  BY <1>1, <1>2 DEF AllRules, Loaded

\* Only the operator changes the file, and not its texts.
LEMMA SameTexts ==
  ASSUME AuthTypeOK, [AuthNext]_authVars
  PROVE  disk' = disk \/ (\E kind \in {"file", "missing"} : disk' = [disk EXCEPT !.is = kind])
<1>1. CASE ChangeFile
  BY <1>1 DEF ChangeFile
<1>2. CASE UNCHANGED disk
  BY <1>2
<1>. QED  BY <1>1, <1>2 DEF AuthNext, authVars, Arrive, VerifyToken, KeystoneFails, SetUp, SetUpFails,
                            Authorize, UpdateRules, Collides, Enforce, Expire

LEMMA TypesStep ==
  ASSUME AuthTypeOK, [AuthNext]_authVars
  PROVE  AuthTypeOK'
<1>. DEFINE Loadable == SUBSET (Actions \cup {"context_is_admin"})
            Visit == [action : Actions \cup {"none"}, token : Tokens, loading : Loadable]
<1>0. /\ strategy' = strategy /\ disk' \in [is : {"file", "directory", "missing"}, texts : Files \cup {NoFile.texts}]
  <2>1. strategy' = strategy
    BY DEF AuthNext, authVars, Arrive, VerifyToken, KeystoneFails, SetUp, SetUpFails,
           Authorize, UpdateRules, Collides, Enforce, Expire, ChangeFile
  <2>. QED  BY <2>1, SameTexts DEF AuthTypeOK
<1>1. identity' \in {"valid", "expired"}
  BY DEF AuthTypeOK, AuthNext, authVars, Arrive, VerifyToken, KeystoneFails, SetUp, SetUpFails,
         Authorize, UpdateRules, Collides, Enforce, Expire, ChangeFile
<1>2. place' \in [Visitors -> Places]
  <2>1. ASSUME NEW v \in Visitors, NEW to \in Places, Go(v, to)
        PROVE  place' \in [Visitors -> Places]
    BY <2>1 DEF AuthTypeOK, Go
  <2>2. ASSUME place' = [w \in Visitors |-> "dead"]
        PROVE  place' \in [Visitors -> Places]
    BY <2>2 DEF Places
  <2>3. ASSUME NEW v \in Visitors, NEW action, NEW token, Arrive(v, action, token)
        PROVE  \E to \in Places : Go(v, to)
    BY <2>3 DEF Arrive, Places
  <2>4. ASSUME NEW v \in Visitors, VerifyToken(v)
        PROVE  \E to \in Places : Go(v, to)
    BY <2>4 DEF VerifyToken, Judged, AfterFirst, Places
  <2>5. ASSUME NEW v \in Visitors, KeystoneFails(v) \/ SetUp(v) \/ SetUpFails(v)
        PROVE  \E to \in Places : Go(v, to)
    BY <2>5 DEF KeystoneFails, SetUp, SetUpFails, Places
  <2>6. ASSUME NEW v \in Visitors, Authorize(v) \/ UpdateRules(v)
        PROVE  \E to \in Places : Go(v, to)
    BY <2>6 DEF Authorize, UpdateRules, Places
  <2>7. ASSUME NEW v \in Visitors, Enforce(v)
        PROVE  place' = [w \in Visitors |-> "dead"] \/ \E to \in Places : Go(v, to)
    BY <2>7 DEF Enforce, Enforced, Places
  <2>8. CASE UNCHANGED place
    BY <2>8 DEF AuthTypeOK
  <2>. QED  BY <2>1, <2>2, <2>3, <2>4, <2>5, <2>6, <2>7, <2>8 DEF AuthNext, authVars, Collides, Expire, ChangeFile
<1>3. troubled' \subseteq Visitors
  BY DEF AuthTypeOK, AuthNext, authVars, Arrive, VerifyToken, KeystoneFails, SetUp, SetUpFails,
         Authorize, UpdateRules, Collides, Enforce, Expire, ChangeFile, Trouble, NoTrouble
<1>4. visit' \in [Visitors -> Visit]
  <2>1. visit \in [Visitors -> Visit]
    BY DEF AuthTypeOK
  <2>2. ASSUME NEW v \in Visitors, NEW action \in Actions, NEW token \in Tokens, Arrive(v, action, token)
        PROVE  visit' \in [Visitors -> Visit]
    <3>1. [action |-> action, token |-> token, loading |-> {}] \in Visit
      OBVIOUS
    <3>. QED  BY <2>1, <2>2, <3>1 DEF Arrive
  <2>3. ASSUME NEW v \in Visitors, NEW l \in Loadable, visit' = [visit EXCEPT ![v].loading = l]
        PROVE  visit' \in [Visitors -> Visit]
    BY <2>1, <2>3
  <2>4. ASSUME NEW v \in Visitors, Authorize(v)
        PROVE  visit' \in [Visitors -> Visit]
    BY <2>1, <2>3, <2>4, AllNamed DEF Authorize
  <2>5. ASSUME NEW v \in Visitors, UpdateRules(v)
        PROVE  visit' \in [Visitors -> Visit]
    <3>1. PICK a \in visit[v].loading : visit' = [visit EXCEPT ![v].loading = @ \ {a}]
      BY <2>5 DEF UpdateRules
    <3>2. visit[v].loading \ {a} \in Loadable
      BY <2>1
    <3>3. visit' = [visit EXCEPT ![v].loading = visit[v].loading \ {a}]
      BY <3>1
    <3>4. PICK l \in Loadable : l = visit[v].loading \ {a}
      BY <3>2
    <3>5. visit' = [visit EXCEPT ![v].loading = l]
      BY <3>3, <3>4
    <3>. HIDE DEF Loadable, Visit
    <3>. QED  BY <2>3, <3>5
  <2>6. CASE UNCHANGED visit
    BY <2>1, <2>6
  <2>. QED  BY <2>2, <2>4, <2>5, <2>6 DEF AuthNext, authVars, VerifyToken, KeystoneFails, SetUp, SetUpFails,
                                            Collides, Enforce, Expire, ChangeFile
<1>5. DOMAIN rules' \subseteq Actions \cup {"context_is_admin"}
  <2>1. ASSUME NEW v \in Visitors, UpdateRules(v)
        PROVE  DOMAIN rules' \subseteq Actions \cup {"context_is_admin"}
    <3>1. PICK a \in visit[v].loading : DOMAIN rules' = DOMAIN rules \cup {a}
      BY <2>1 DEF UpdateRules
    <3>2. a \in Actions \cup {"context_is_admin"}
      BY <3>1 DEF AuthTypeOK
    <3>. QED  BY <3>1, <3>2 DEF AuthTypeOK
  <2>2. CASE UNCHANGED rules
    BY <2>2 DEF AuthTypeOK
  <2>. QED  BY <2>1, <2>2 DEF AuthNext, authVars, Arrive, VerifyToken, KeystoneFails, SetUp, SetUpFails,
                              Authorize, Collides, Enforce, Expire, ChangeFile
<1>6. visits' \in 0..MaxVisits /\ troubles' \in 0..MaxTroubles
  <2>1. visits \in 0..MaxVisits /\ troubles \in 0..MaxTroubles /\ MaxVisits \in Nat /\ MaxTroubles \in Nat
    BY AuthorizationAssumption DEF AuthTypeOK
  <2>2. visits' \in {visits, visits + 1} /\ (visits' # visits => visits < MaxVisits)
    BY DEF AuthNext, authVars, Arrive, VerifyToken, KeystoneFails, SetUp, SetUpFails,
           Authorize, UpdateRules, Collides, Enforce, Expire, ChangeFile
  <2>3. troubles' \in {troubles, troubles + 1} /\ (troubles' # troubles => troubles < MaxTroubles)
    BY DEF AuthNext, authVars, Arrive, VerifyToken, KeystoneFails, SetUp, SetUpFails,
           Authorize, UpdateRules, Collides, Enforce, Expire, ChangeFile, Trouble, NoTrouble
  <2>. QED  BY <2>1, <2>2, <2>3
<1>. QED  BY <1>0, <1>1, <1>2, <1>3, <1>4, <1>5, <1>6 DEF AuthTypeOK

LEMMA SameRules ==
  ASSUME AuthTypeOK, [AuthNext]_authVars
  PROVE  AllRules' = AllRules /\ strategy' = strategy
<1>1. disk'.texts = disk.texts
  BY SameTexts DEF AuthTypeOK
<1>2. strategy' = strategy
  BY DEF AuthNext, authVars, Arrive, VerifyToken, KeystoneFails, SetUp, SetUpFails,
         Authorize, UpdateRules, Collides, Enforce, Expire, ChangeFile
<1>. QED  BY <1>1, <1>2, Zenon DEF AllRules

LEMMA RulesStep ==
  ASSUME AuthTypeOK, RulesOfFile, [AuthNext]_authVars
  PROVE  RulesOfFile'
<1>. DEFINE Whole == \A v \in Visitors : visit'[v].loading \subseteq DOMAIN AllRules
<1>1. Included(rules', AllRules)
  <2>1. ASSUME NEW v \in Visitors, UpdateRules(v)
        PROVE  Included(rules', AllRules)
    <3>1. PICK a \in visit[v].loading :
            rules' = [b \in DOMAIN rules \cup {a} |->
                        IF b = a THEN parseRule(WithDefaults(disk.texts)[a]) ELSE rules[b]]
      BY <2>1 DEF UpdateRules
    <3>2. a \in DOMAIN AllRules
      BY <3>1 DEF RulesOfFile
    <3>3. AllRules[a] = parseRule(WithDefaults(disk.texts)[a])
      BY <3>2, AllNamed
    <3>. QED  BY <3>1, <3>2, <3>3 DEF RulesOfFile, Included
  <2>2. CASE UNCHANGED rules
    BY <2>2 DEF RulesOfFile, Included
  <2>. QED  BY <2>1, <2>2 DEF AuthNext, authVars, Arrive, VerifyToken, KeystoneFails, SetUp, SetUpFails,
                              Authorize, Collides, Enforce, Expire, ChangeFile
<1>2. Whole
  <2>1. ASSUME NEW v \in Visitors, NEW action, NEW token, Arrive(v, action, token)
        PROVE  Whole
    BY <2>1 DEF Arrive, RulesOfFile, AuthTypeOK
  <2>2. ASSUME NEW v \in Visitors, Authorize(v)
        PROVE  Whole
    <3>1. visit' = visit \/ visit' = [visit EXCEPT ![v].loading = DOMAIN AllRules]
      BY <2>2, AllNamed DEF Authorize
    <3>. QED  BY <3>1 DEF RulesOfFile, AuthTypeOK
  <2>3. ASSUME NEW v \in Visitors, UpdateRules(v)
        PROVE  Whole
    <3>1. PICK a \in visit[v].loading : visit' = [visit EXCEPT ![v].loading = @ \ {a}]
      BY <2>3 DEF UpdateRules
    <3>. QED  BY <3>1 DEF RulesOfFile, AuthTypeOK
  <2>4. CASE UNCHANGED visit
    BY <2>4 DEF RulesOfFile
  <2>. QED  BY <2>1, <2>2, <2>3, <2>4 DEF AuthNext, authVars, VerifyToken, KeystoneFails, SetUp, SetUpFails,
                                            Collides, Enforce, Expire, ChangeFile
<1>. QED  BY <1>1, <1>2, SameRules DEF RulesOfFile

LEMMA TokensStep ==
  ASSUME AuthTypeOK, TokensTaken, [AuthNext]_authVars
  PROVE  TokensTaken'
<1>0. strategy' = strategy
  BY SameRules
<1>. DEFINE Past == {"enforce", "fill", "lookup", "handler"}
<1>1. ASSUME NEW v \in Visitors, NEW action, NEW token \in Tokens, Arrive(v, action, token)
      PROVE  TokensTaken'
  <2>1. visit' = [visit EXCEPT ![v] = [action |-> action, token |-> token, loading |-> {}]]
    BY <1>1 DEF Arrive
  <2>2. \E to : Go(v, to) /\ (strategy.filter = "keystone" => to \notin Past)
    BY <1>1 DEF Arrive
  <2>. QED  BY <1>0, <2>1, <2>2 DEF TokensTaken, AuthTypeOK, Go
<1>2. ASSUME NEW v \in Visitors, NEW to, Go(v, to), visit' = visit,
             to \in Past => place[v] \in Past \/ visit[v].token = "valid"
      PROVE  TokensTaken'
  BY <1>0, <1>2 DEF TokensTaken, AuthTypeOK, Go
<1>3. ASSUME NEW v \in Visitors, VerifyToken(v)
      PROVE  TokensTaken'
  <2>1. \E to : Go(v, to) /\ (to \in Past => visit[v].token = "valid")
    BY <1>3 DEF VerifyToken, Judged, AfterFirst
  <2>2. visit' = visit
    BY <1>3 DEF VerifyToken
  <2>. QED  BY <1>2, <2>1, <2>2
<1>4. ASSUME NEW v \in Visitors, KeystoneFails(v) \/ SetUp(v) \/ SetUpFails(v)
      PROVE  TokensTaken'
  <2>1. \E to : Go(v, to) /\ to \notin Past
    BY <1>4 DEF KeystoneFails, SetUp, SetUpFails
  <2>2. visit' = visit
    BY <1>4 DEF KeystoneFails, SetUp, SetUpFails
  <2>. QED  BY <1>2, <2>1, <2>2
<1>5. ASSUME NEW v \in Visitors, Authorize(v) \/ UpdateRules(v)
      PROVE  TokensTaken'
  <2>1. PICK to : Go(v, to) /\ place[v] \in Past
    BY <1>5 DEF Authorize, UpdateRules
  <2>2. visit' = visit \/ \E l : visit' = [visit EXCEPT ![v].loading = l]
    BY <1>5 DEF Authorize, UpdateRules
  <2>3. \A w \in Visitors : visit'[w].token = visit[w].token
    BY <2>2 DEF AuthTypeOK
  <2>4. \A w \in Visitors : place'[w] \in Past => place[w] \in Past
    BY <2>1 DEF Go, AuthTypeOK
  <2>. QED  BY <1>0, <2>3, <2>4 DEF TokensTaken
<1>6. ASSUME NEW v \in Visitors, Enforce(v) \/ Collides(v)
      PROVE  TokensTaken'
  <2>1. visit' = visit
    BY <1>6 DEF Enforce, Collides
  <2>2. CASE place' = [w \in Visitors |-> "dead"]
    BY <2>2 DEF TokensTaken
  <2>3. CASE \E to : Go(v, to) /\ place[v] \in Past
    BY <1>2, <2>1, <2>3
  <2>. QED  BY <1>6, <2>2, <2>3 DEF Enforce, Collides
<1>7. CASE UNCHANGED <<place, visit>>
  BY <1>0, <1>7 DEF TokensTaken
<1>. QED  BY <1>1, <1>3, <1>4, <1>5, <1>6, <1>7 DEF AuthNext, authVars, Expire, ChangeFile

\* A request reaches its handler past the filter, and past the rules of the file.
LEMMA AllowedStep ==
  ASSUME AuthTypeOK, RulesOfFile, OnlyAllowedReachHandlers, [AuthNext]_authVars, TokensTaken'
  PROVE  OnlyAllowedReachHandlers'
<1>. DEFINE Says(action) == FileSays(action) = "yes"
<1>1. strategy' = strategy /\ \A action : FileSays(action)' = FileSays(action)
  <2>1. disk'.texts = disk.texts
    BY SameTexts DEF AuthTypeOK
  <2>2. strategy' = strategy
    BY SameRules
  <2>. QED  BY <2>1, <2>2 DEF FileSays
<1>2. ASSUME NEW action \in DOMAIN rules, Exec(rules[action], rules, credentials, MaxNesting) = "yes"
      PROVE  Says(action)
  <2>1. /\ DOMAIN rules # {} /\ Included(rules, AllRules)
        /\ action \in DOMAIN AllRules /\ rules[action] = AllRules[action]
    BY <1>2 DEF RulesOfFile, Included
  <2>2. Exec(rules[action], rules, credentials, MaxNesting) # MissingRule
    BY <1>2 DEF MissingRule
  <2>3. Exec(rules[action], AllRules, credentials, MaxNesting) = "yes"
    BY <1>2, <2>1, <2>2, MoreRules, AuthorizationAssumption
  <2>4. action \in DOMAIN WithDefaults(disk.texts) /\ AllRules[action] = parseRule(WithDefaults(disk.texts)[action])
    BY <2>1, AllNamed
  <2>5. Exec(parseRule(WithDefaults(disk.texts)[action]), AllRules, credentials, MaxNesting) = "yes"
    BY <2>1, <2>3, <2>4
  <2>. QED  BY <2>4, <2>5 DEF FileSays, AllRules
<1>3. ASSUME NEW v \in Visitors, place'[v] = "handler"
      PROVE  strategy.policy = "keystone" => Says(visit'[v].action)
  <2>1. ASSUME place[v] = "handler", visit'[v] = visit[v]
        PROVE  strategy.policy = "keystone" => Says(visit'[v].action)
    BY <2>1 DEF OnlyAllowedReachHandlers
  <2>2. ASSUME NEW w \in Visitors, NEW to, Go(w, to), to # "handler", \A u \in Visitors : u # w => visit'[u] = visit[u]
        PROVE  place[v] = "handler" /\ visit'[v] = visit[v]
    BY <1>3, <2>2 DEF Go, AuthTypeOK
  <2>3. ASSUME NEW w \in Visitors, NEW action, NEW token, Arrive(w, action, token)
        PROVE  place[v] = "handler" /\ visit'[v] = visit[v]
    <3>1. \E to : Go(w, to) /\ to # "handler"
      BY <2>3 DEF Arrive
    <3>2. \A u \in Visitors : u # w => visit'[u] = visit[u]
      BY <2>3 DEF Arrive, AuthTypeOK
    <3>. QED  BY <2>2, <3>1, <3>2
  <2>4. ASSUME NEW w \in Visitors, VerifyToken(w) \/ KeystoneFails(w) \/ SetUp(w) \/ SetUpFails(w)
        PROVE  place[v] = "handler" /\ visit'[v] = visit[v]
    <3>1. \E to : Go(w, to) /\ to # "handler"
      BY <2>4 DEF VerifyToken, Judged, AfterFirst, KeystoneFails, SetUp, SetUpFails
    <3>2. visit' = visit
      BY <2>4 DEF VerifyToken, KeystoneFails, SetUp, SetUpFails
    <3>. QED  BY <2>2, <3>1, <3>2
  <2>5. ASSUME NEW w \in Visitors, Authorize(w)
        PROVE  strategy.policy = "noauth" \/ (place[v] = "handler" /\ visit'[v] = visit[v])
    <3>1. strategy.policy # "noauth" => \E to : Go(w, to) /\ to # "handler"
      BY <2>5 DEF Authorize
    <3>2. \A u \in Visitors : u # w => visit'[u] = visit[u]
      BY <2>5 DEF Authorize, AuthTypeOK
    <3>. QED  BY <2>2, <3>1, <3>2
  <2>6. ASSUME NEW w \in Visitors, UpdateRules(w)
        PROVE  place[v] = "handler" /\ visit'[v] = visit[v]
    <3>1. \E to : Go(w, to) /\ to # "handler"
      BY <2>6 DEF UpdateRules
    <3>2. \A u \in Visitors : u # w => visit'[u] = visit[u]
      BY <2>6 DEF UpdateRules, AuthTypeOK
    <3>. QED  BY <2>2, <3>1, <3>2
  <2>7. ASSUME NEW w \in Visitors, Collides(w)
        PROVE  FALSE
    BY <1>3, <2>7 DEF Collides
  <2>8. ASSUME NEW w \in Visitors, Enforce(w)
        PROVE  Says(visit'[v].action) \/ (place[v] = "handler" /\ visit'[v] = visit[v])
    <3>. DEFINE to == Enforced(visit[w].action)
    <3>1. visit' = visit
      BY <2>8 DEF Enforce
    <3>2. to # "dead" /\ Go(w, to)
      BY <1>3, <2>8 DEF Enforce
    <3>3. CASE to # "handler"
      BY <2>2, <3>1, <3>2, <3>3
    <3>4. CASE to = "handler"
      <4>1. visit[w].action \in DOMAIN rules /\ Exec(rules[visit[w].action], rules, credentials, MaxNesting) = "yes"
        BY <3>4 DEF Enforced
      <4>2. Says(visit[w].action)
        BY <1>2, <4>1
      <4>3. v = w \/ place[v] = "handler"
        BY <1>3, <3>2 DEF Go, AuthTypeOK
      <4>. QED  BY <3>1, <4>2, <4>3
    <3>. QED  BY <3>3, <3>4
  <2>9. CASE UNCHANGED <<place, visit>>
    BY <1>3, <2>1, <2>9
  <2>10. strategy.policy = "noauth" => strategy.policy # "keystone"
    OBVIOUS
  <2>. QED  BY <2>1, <2>3, <2>4, <2>5, <2>6, <2>7, <2>8, <2>9, <2>10 DEF AuthNext, authVars, Expire, ChangeFile
<1>. QED  BY <1>1, <1>3 DEF OnlyAllowedReachHandlers, TokensTaken

LEMMA RenewedStep ==
  ASSUME AuthTypeOK, RenewedOrTroubled, [AuthNext]_authVars
  PROVE  RenewedOrTroubled'
<1>1. ASSUME NEW v \in Visitors, NEW action, NEW token, Arrive(v, action, token)
      PROVE  RenewedOrTroubled'
  <2>1. \E to : Go(v, to) /\ to # "again"
    BY <1>1 DEF Arrive
  <2>. QED  BY <1>1, <2>1 DEF RenewedOrTroubled, Arrive, Go, AuthTypeOK
<1>2. ASSUME NEW v \in Visitors, SetUp(v)
      PROVE  RenewedOrTroubled'
  BY <1>2 DEF RenewedOrTroubled, SetUp
<1>3. ASSUME NEW v \in Visitors, SetUpFails(v)
      PROVE  RenewedOrTroubled'
  BY <1>3 DEF RenewedOrTroubled, SetUpFails, Trouble, Go, AuthTypeOK
<1>4. ASSUME NEW v \in Visitors, VerifyToken(v) \/ KeystoneFails(v) \/ Authorize(v) \/ UpdateRules(v)
      PROVE  RenewedOrTroubled'
  <2>1. \E to : Go(v, to) /\ to # "again"
    <3>1. CASE VerifyToken(v) \/ KeystoneFails(v)
      BY <3>1 DEF VerifyToken, Judged, AfterFirst, KeystoneFails
    <3>2. CASE Authorize(v)
      BY <3>2 DEF Authorize
    <3>3. CASE UpdateRules(v)
      BY <3>3 DEF UpdateRules
    <3>. QED  BY <1>4, <3>1, <3>2, <3>3
  <2>2. identity' = identity /\ troubled \subseteq troubled'
    BY <1>4 DEF VerifyToken, KeystoneFails, Authorize, UpdateRules, Trouble, NoTrouble
  <2>. QED  BY <2>1, <2>2 DEF RenewedOrTroubled, Go, AuthTypeOK
<1>5. ASSUME NEW v \in Visitors, Collides(v) \/ Enforce(v)
      PROVE  RenewedOrTroubled'
  <2>1. place' = [w \in Visitors |-> "dead"] \/ \E to : Go(v, to) /\ to # "again"
    BY <1>5 DEF Collides, Enforce, Enforced
  <2>2. identity' = identity /\ troubled' = troubled
    BY <1>5 DEF Collides, Enforce, NoTrouble
  <2>. QED  BY <2>1, <2>2 DEF RenewedOrTroubled, Go, AuthTypeOK
<1>6. CASE Expire
  BY <1>6 DEF RenewedOrTroubled, Expire
<1>7. CASE UNCHANGED <<place, identity, troubled>>
  BY <1>7 DEF RenewedOrTroubled
<1>. QED  BY <1>1, <1>2, <1>3, <1>4, <1>5, <1>6, <1>7 DEF AuthNext, authVars, ChangeFile

LEMMA RefusedStep ==
  ASSUME AuthTypeOK, RenewedOrTroubled, RefusedForAReason, [AuthNext]_authVars
  PROVE  RefusedForAReason'
<1>1. ASSUME NEW v \in Visitors, NEW action, NEW token, Arrive(v, action, token)
      PROVE  RefusedForAReason'
  <2>1. \E to : Go(v, to) /\ (to = "401" => token = "none")
    BY <1>1 DEF Arrive
  <2>2. visit' = [visit EXCEPT ![v] = [action |-> action, token |-> token, loading |-> {}]] /\ troubled' = troubled \ {v}
    BY <1>1 DEF Arrive
  <2>. QED  BY <2>1, <2>2 DEF RefusedForAReason, Go, AuthTypeOK
<1>2. ASSUME NEW v \in Visitors, NEW to, Go(v, to), \A w \in Visitors : visit'[w].token = visit[w].token,
             troubled \subseteq troubled', to = "401" /\ visit[v].token = "valid" => v \in troubled'
      PROVE  RefusedForAReason'
  BY <1>2 DEF RefusedForAReason, Go, AuthTypeOK
<1>3. ASSUME NEW v \in Visitors, VerifyToken(v)
      PROVE  RefusedForAReason'
  <2>1. \E to : Go(v, to) /\ (to = "401" /\ visit[v].token = "valid" => v \in troubled)
    <3>1. CASE identity = "valid"
      BY <1>3, <3>1 DEF VerifyToken, Judged
    <3>2. CASE identity # "valid"
      BY <1>3, <3>2 DEF VerifyToken, AfterFirst, RenewedOrTroubled
    <3>. QED  BY <3>1, <3>2
  <2>2. visit' = visit /\ troubled' = troubled
    BY <1>3 DEF VerifyToken, NoTrouble
  <2>. QED  BY <1>2, <2>1, <2>2
<1>4. ASSUME NEW v \in Visitors, KeystoneFails(v) \/ SetUpFails(v)
      PROVE  RefusedForAReason'
  <2>1. \E to : Go(v, to)
    BY <1>4 DEF KeystoneFails, SetUpFails
  <2>2. visit' = visit /\ troubled' = troubled \cup {v}
    BY <1>4 DEF KeystoneFails, SetUpFails, Trouble
  <2>. QED  BY <1>2, <2>1, <2>2
<1>5. ASSUME NEW v \in Visitors, SetUp(v) \/ Authorize(v) \/ UpdateRules(v)
      PROVE  RefusedForAReason'
  <2>1. \E to : Go(v, to) /\ to # "401"
    <3>1. CASE SetUp(v)
      BY <3>1 DEF SetUp
    <3>2. CASE Authorize(v)
      BY <3>2 DEF Authorize
    <3>3. CASE UpdateRules(v)
      BY <3>3 DEF UpdateRules
    <3>. QED  BY <1>5, <3>1, <3>2, <3>3
  <2>2. visit' = visit \/ \E l : visit' = [visit EXCEPT ![v].loading = l]
    BY <1>5 DEF SetUp, Authorize, UpdateRules
  <2>3. \A w \in Visitors : visit'[w].token = visit[w].token
    BY <2>2 DEF AuthTypeOK
  <2>4. troubled' = troubled
    BY <1>5 DEF SetUp, Authorize, UpdateRules, NoTrouble
  <2>. QED  BY <1>2, <2>1, <2>3, <2>4
<1>6. ASSUME NEW v \in Visitors, Collides(v) \/ Enforce(v)
      PROVE  RefusedForAReason'
  <2>1. visit' = visit /\ troubled' = troubled
    BY <1>6 DEF Collides, Enforce, NoTrouble
  <2>2. CASE place' = [w \in Visitors |-> "dead"]
    BY <2>2 DEF RefusedForAReason
  <2>3. CASE \E to : Go(v, to) /\ to # "401"
    BY <1>2, <2>1, <2>3
  <2>. QED  BY <1>6, <2>2, <2>3 DEF Collides, Enforce, Enforced
<1>7. CASE Expire
  BY <1>7 DEF RefusedForAReason, Expire
<1>8. CASE UNCHANGED <<place, visit, troubled>>
  BY <1>8 DEF RefusedForAReason
<1>. QED  BY <1>1, <1>3, <1>4, <1>5, <1>6, <1>7, <1>8 DEF AuthNext, authVars, ChangeFile

LEMMA AuthStarts ==
  ASSUME NEW chosen \in Strategy, NEW token \in {"valid", "expired"},
         NEW found \in [is : {"file", "directory", "missing"}, texts : Files \cup {NoFile.texts}],
         AuthStart(chosen, found, token)
  PROVE  AuthInv
<1>1. AuthStart(chosen, found, token)
  OBVIOUS
<1>2. DOMAIN rules = {} \/ rules = AllRules
  BY <1>1 DEF AuthStart, AllRules, Unloaded
<1>3. DOMAIN AllRules \subseteq Actions \cup {"context_is_admin"}
  <2>1. DOMAIN disk.texts \subseteq Actions
    <3>1. disk.texts \in Files \cup {<<>>}
      BY <1>1 DEF AuthStart, NoFile
    <3>. QED  BY <3>1, AuthorizationAssumption
  <2>. QED  BY <2>1 DEF AllRules, Loaded, WithDefaults
<1>4. AuthTypeOK
  BY <1>1, <1>2, <1>3, AuthorizationAssumption DEF AuthStart, AuthTypeOK, Places, NoVisit, Tokens
<1>5. RulesOfFile
  BY <1>1, <1>2 DEF AuthStart, RulesOfFile, Included, NoVisit
<1>6. TokensTaken /\ RenewedOrTroubled /\ OnlyAllowedReachHandlers /\ RefusedForAReason
  BY <1>1 DEF AuthStart, TokensTaken, RenewedOrTroubled, OnlyAllowedReachHandlers, RefusedForAReason
<1>. QED  BY <1>4, <1>5, <1>6 DEF AuthInv

LEMMA AuthKeeps == AuthInv /\ [AuthNext]_authVars => AuthInv'
BY TypesStep, RulesStep, TokensStep, AllowedStep, RenewedStep, RefusedStep DEF AuthInv

\* The inductive invariant: what the enforcer has is from the file, what has
\* passed the filter has a token, and a second attempt a reason to fail.
THEOREM AuthInvariant == AuthSpec => []AuthInv
<1>1. AuthInit => AuthInv
  BY AuthStarts, AuthorizationAssumption DEF AuthInit
<1>. QED  BY <1>1, AuthKeeps, PTL DEF AuthSpec

\* The variables of the filter and the enforcer have their types.
THEOREM AuthTypes == AuthSpec => []AuthTypeOK
<1>1. AuthInv => AuthTypeOK
  BY DEF AuthInv
<1>. QED  BY <1>1, AuthInvariant, PTL

\* OnlyAllowedReachHandlers, for any policy files, requests and strategies: a
\* half-filled map of rules lets nobody in whom the whole of it refuses.
THEOREM AllowedOnly == AuthSpec => []OnlyAllowedReachHandlers
<1>1. AuthInv => OnlyAllowedReachHandlers
  BY DEF AuthInv
<1>. QED  BY <1>1, AuthInvariant, PTL

\* RefusedForAReason, for any requests: a valid token is refused only if
\* keystone failed or the service token expired as it was verified.
THEOREM Refusals == AuthSpec => []RefusedForAReason
<1>1. AuthInv => RefusedForAReason
  BY DEF AuthInv
<1>. QED  BY <1>1, AuthInvariant, PTL

=============================================================================
