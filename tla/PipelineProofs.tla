--------------------------- MODULE PipelineProofs ---------------------------
(***************************************************************************)
(* Proofs about JobPipeline, for any sets of jobs, datamovers and          *)
(* goroutines and any length of the topic.                                 *)
(*                                                                         *)
(* A job has one goroutine at most because it has one message, and that is *)
(* handed to the owner once: the messages of live goroutines lie before    *)
(* the one in HandleMsg, which is the last one received.  Hence a pending  *)
(* job stays pending from the moment its status is read to the start of    *)
(* its goroutine, and nobody but this goroutine writes its record.         *)
(***************************************************************************)
EXTENDS JobPipeline, TLAPS

\* Faults under which a message is neither stored twice nor delivered again
\* while the goroutine it started lives.
Single == "dup" \notin Faults /\ "rebalance" \notin Faults

-----------------------------------------------------------------------------
RecordTypes ==
  /\ db \in [Jobs -> Recorded \cup {"absent"}]
  /\ sending \subseteq Jobs /\ moved \subseteq Jobs
TopicTypes ==
  /\ topic \in Seq(Jobs) /\ Len(topic) <= MaxTopic
  /\ committed \in -1..Len(topic) /\ marked \in -1..Len(topic) /\ pos \in 0..Len(topic)
  /\ called \subseteq 1..Len(topic) /\ skipped \subseteq 1..Len(topic)
HandlingTypes ==
  /\ owner \in Movers \cup {Nobody}
  /\ handling \in [Movers -> [at : 0..Len(topic), seen : Recorded \cup {"absent", ""}]]
RunnerTypes ==
  runner \in [Runners -> [step : RunStep \cup {"gone"}, at : 0..Len(topic),
                          mover : Movers \cup {Nobody}]]

LEMMA TypeSplit == TypeOK <=> RecordTypes /\ TopicTypes /\ HandlingTypes /\ RunnerTypes
  BY DEF TypeOK, RecordTypes, TopicTypes, HandlingTypes, RunnerTypes

LEMMA Counts ==
  ASSUME TopicTypes
  PROVE  /\ Len(topic) \in Nat
         /\ pos \in Nat /\ pos <= Len(topic)
         /\ committed \in Int /\ -1 <= committed /\ committed <= Len(topic)
         /\ marked \in Int /\ -1 <= marked /\ marked <= Len(topic)
<1>1. Len(topic) \in Nat
  BY DEF TopicTypes
<1>. QED  BY <1>1 DEF TopicTypes

LEMMA MessageType ==
  ASSUME TopicTypes, NEW k \in 1..Len(topic)
  PROVE  topic[k] \in Jobs
BY DEF TopicTypes

\* A goroutine that runs has its message and its datamover.
LiveHasMessage ==
  \A r \in Runners : Live(r) => runner[r].at # 0 /\ runner[r].mover \in Movers

LEMMA JobOfType ==
  ASSUME TopicTypes, RunnerTypes, LiveHasMessage, NEW r \in Runners, Live(r)
  PROVE  runner[r].at \in 1..Len(topic) /\ JobOf(r) \in Jobs
<1>1. runner[r].at \in 0..Len(topic) /\ runner[r].at # 0
  BY DEF RunnerTypes, LiveHasMessage
<1>2. runner[r].at \in 1..Len(topic)
  BY <1>1, Counts
<1>. QED  BY <1>2, MessageType DEF JobOf

Inv0 == RecordTypes /\ TopicTypes /\ HandlingTypes /\ RunnerTypes /\ LiveHasMessage

-----------------------------------------------------------------------------
(* What the steps of runjob have in common.                                *)

RunnerStep(r) == RunJob(r) \/ WriteProgress(r)

LEMMA RunnerStepLive ==
  ASSUME NEW r \in Runners, RunnerStep(r)
  PROVE  Live(r)
BY DEF RunnerStep, RunJob, Live, PrepareFails, NothingToMove, Prepared, BeginMigration,
   WriteProgress, AllMoved, SomeNotMoved, WriteFailed, WriteSucceed, BeginAnalysis,
   AnalysisFails, GetResult, NoResult, MigrateResult

LEMMA AfterMigrationSteps ==
  ASSUME NEW j \in Jobs
  PROVE  AfterMigration(j) \subseteq {"succeed", "analyse"}
BY KindAssumption DEF AfterMigration

\* runjob writes one record and moves on by itself.
LEMMA RunFrame ==
  ASSUME Inv0, NEW r \in Runners, RunnerStep(r)
  PROVE  /\ UNCHANGED <<sending, topic, committed, owner, pos, marked, called, skipped,
                        handling>>
         /\ Live(r) /\ JobOf(r) \in Jobs
         /\ moved' \in {moved, moved \cup {JobOf(r)}}
         /\ \/ UNCHANGED runner
            \/ runner' = [runner EXCEPT ![r] = Gone]
            \/ \E s \in RunStep : runner' = [runner EXCEPT ![r].step = s]
         /\ \/ UNCHANGED db
            \/ \E s \in Recorded : db' = [db EXCEPT ![JobOf(r)] = s]
<1>. USE DEF Goto, Exit, Record, Recorded, Ended, RunStep, consumer
<1>0. Live(r) /\ JobOf(r) \in Jobs
  BY RunnerStepLive, JobOfType DEF Inv0
<1>1. CASE PrepareFails(r) \/ NothingToMove(r) \/ Prepared(r) \/ BeginMigration(r)
  BY <1>0, <1>1 DEF PrepareFails, NothingToMove, Prepared, BeginMigration
<1>2. CASE WriteProgress(r) \/ SomeNotMoved(r) \/ WriteFailed(r) \/ WriteSucceed(r)
  BY <1>0, <1>2 DEF WriteProgress, SomeNotMoved, WriteFailed, WriteSucceed, OutcomeOfFailure
<1>3. CASE AllMoved(r)
  BY <1>0, <1>3, AfterMigrationSteps DEF AllMoved
<1>4. CASE BeginAnalysis(r) \/ AnalysisFails(r) \/ GetResult(r) \/ NoResult(r)
  BY <1>0, <1>4 DEF BeginAnalysis, AnalysisFails, GetResult, NoResult
<1>5. CASE MigrateResult(r)
  BY <1>0, <1>5 DEF MigrateResult
<1>. QED  BY <1>1, <1>2, <1>3, <1>4, <1>5 DEF RunnerStep, RunJob

-----------------------------------------------------------------------------
(* Type correctness.                                                       *)

\* The topic only grows.
LEMMA TopicGrows ==
  ASSUME Inv0, [Next]_vars
  PROVE  /\ topic' \in Seq(Jobs) /\ Len(topic') \in Nat
         /\ Len(topic') >= Len(topic) /\ Len(topic') <= MaxTopic
         /\ \A k \in 1..Len(topic) : topic'[k] = topic[k]
<1>0. topic \in Seq(Jobs) /\ Len(topic) <= MaxTopic /\ Len(topic) \in Nat /\ MaxTopic \in Nat
  BY Counts, MaxTopicAssumption DEF Inv0, TopicTypes
<1>1. CASE UNCHANGED topic
  BY <1>0, <1>1
<1>2. ASSUME NEW j \in Jobs, SendJob(j) PROVE topic' = Append(topic, j) /\ Len(topic) < MaxTopic
  BY <1>2 DEF SendJob
<1>3. CASE \E j \in Jobs : SendJob(j)
  BY <1>0, <1>2, <1>3
<1>4. ASSUME NEW j \in Jobs, SendTwice(j)
      PROVE  topic' = Append(Append(topic, j), j) /\ Len(topic) + 1 < MaxTopic
  BY <1>4 DEF SendTwice
<1>5. ASSUME NEW j \in Jobs, SendTwice(j)
      PROVE  /\ topic' \in Seq(Jobs) /\ Len(topic') = Len(topic) + 2
             /\ \A k \in 1..Len(topic) : topic'[k] = topic[k]
  <2>. DEFINE t == Append(topic, j)
  <2>1. t \in Seq(Jobs) /\ Len(t) = Len(topic) + 1 /\ \A k \in 1..Len(topic) : t[k] = topic[k]
    BY <1>0
  <2>. HIDE DEF t
  <2>2. topic' = Append(t, j)
    BY <1>4, <1>5 DEF t
  <2>. QED  BY <1>0, <2>1, <2>2
<1>6. CASE \E j \in Jobs : SendTwice(j)
  BY <1>0, <1>4, <1>5, <1>6
<1>7. CASE \E r \in Runners : RunnerStep(r)
  BY <1>1, <1>7, RunFrame
<1>. QED
  BY <1>1, <1>3, <1>6, <1>7 DEF Next, RunnerStep, vars, RunPlan, SendFails, Join, Rebalance,
     Crash, GetJobStatus, HandleMsg, StartRunner, Refuse, Commit, Quiet

LEMMA InitInv0 == Init => Inv0
<1>. SUFFICES ASSUME Init PROVE Inv0
  OBVIOUS
<1>1. RecordTypes
  BY DEF Init, RecordTypes
<1>2. topic = <<>> /\ Len(topic) = 0
  BY DEF Init
<1>3. TopicTypes
  BY <1>2, MaxTopicAssumption DEF Init, TopicTypes
<1>4. HandlingTypes
  <2>1. Idle \in [at : 0..Len(topic), seen : Recorded \cup {"absent", ""}]
    BY <1>2 DEF Idle
  <2>. QED  BY <2>1 DEF Init, HandlingTypes
<1>5. \A r \in Runners : runner[r] = Gone
  BY DEF Init
<1>6. RunnerTypes
  BY <1>2 DEF Init, RunnerTypes, Gone
<1>7. LiveHasMessage
  BY <1>5 DEF LiveHasMessage, Live, Gone
<1>. QED  BY <1>1, <1>3, <1>4, <1>6, <1>7 DEF Inv0

LEMMA RecordTypesStep ==
  ASSUME Inv0, [Next]_vars
  PROVE  RecordTypes'
<1>. USE DEF RecordTypes
<1>1. ASSUME NEW j \in Jobs, RunPlan(j) \/ SendJob(j) \/ SendFails(j) \/ SendTwice(j)
      PROVE  RecordTypes'
  BY <1>1 DEF RunPlan, SendJob, SendFails, SendTwice, Unsent, Recorded, Inv0
<1>2. CASE \E r \in Runners : RunnerStep(r)
  BY <1>2, RunFrame DEF Inv0
<1>3. CASE UNCHANGED <<db, sending, moved>>
  BY <1>3 DEF Inv0
<1>. QED
  BY <1>1, <1>2, <1>3 DEF Next, RunnerStep, vars, Join, Rebalance,
     Crash, GetJobStatus, HandleMsg, StartRunner, Refuse, Commit, Quiet

\* Positions in the topic stay in it.
Positions ==
  /\ committed' \in -1..Len(topic) /\ marked' \in -1..Len(topic) /\ pos' \in 0..Len(topic)
  /\ called' \subseteq 1..Len(topic) /\ skipped' \subseteq 1..Len(topic)

LEMMA PositionsSuffice ==
  ASSUME Inv0, [Next]_vars, Positions
  PROVE  TopicTypes'
<1>1. Len(topic) \in Nat /\ Len(topic)' \in Nat /\ Len(topic) <= Len(topic)'
  BY TopicGrows, Counts DEF Inv0
<1>. QED  BY <1>1, TopicGrows DEF Positions, TopicTypes

LEMMA TopicTypesStep ==
  ASSUME Inv0, [Next]_vars
  PROVE  TopicTypes'
<1>1. CASE UNCHANGED <<committed, marked, pos, called, skipped>>
  BY <1>1, PositionsSuffice DEF Inv0, TopicTypes, Positions
<1>2. ASSUME NEW m \in Movers, Join(m) \/ Rebalance(m) PROVE TopicTypes'
  <2>1. UNCHANGED <<committed, called>> /\ marked' = committed
        /\ pos' \in {committed, Len(topic)} /\ (pos' = committed => committed # -1 \/ pos' = Len(topic))
        /\ skipped' \in {skipped, 1..Len(topic)}
    BY <1>2 DEF Join, Rebalance, ClaimBy, StartPos
  <2>2. pos' \in 0..Len(topic)
    BY <2>1, Counts DEF Inv0
  <2>. QED  BY <2>1, <2>2, PositionsSuffice DEF Inv0, TopicTypes, Positions
<1>3. ASSUME NEW m \in Movers, GetJobStatus(m) PROVE TopicTypes'
  <2>1. pos < Len(topic) /\ pos' = pos + 1 /\ UNCHANGED <<committed, marked, called, skipped>>
    BY <1>3 DEF GetJobStatus
  <2>2. pos' \in 0..Len(topic)
    BY <2>1, Counts DEF Inv0
  <2>. QED  BY <2>1, <2>2, PositionsSuffice DEF Inv0, TopicTypes, Positions
<1>4. ASSUME NEW m \in Movers, HandleMsg(m) PROVE TopicTypes'
  <2>1. handling[m].at \in 0..Len(topic) /\ handling[m].at # 0
    BY <1>4 DEF Inv0, HandlingTypes, HandleMsg, StartRunner, Refuse, Busy
  <2>2. handling[m].at \in 1..Len(topic)
    BY <2>1, Counts DEF Inv0
  <2>3. /\ UNCHANGED <<committed, pos, skipped>>
        /\ called' = called \cup {handling[m].at} /\ marked' \in {marked, handling[m].at}
    BY <1>4 DEF HandleMsg, StartRunner, Refuse, MarkedAfter
  <2>4. handling[m].at \in -1..Len(topic)
    BY <2>2, Counts DEF Inv0
  <2>. QED  BY <2>2, <2>3, <2>4, PositionsSuffice DEF Inv0, TopicTypes, Positions
<1>5. CASE Commit
  BY <1>5, PositionsSuffice DEF Inv0, TopicTypes, Positions, Commit
<1>6. CASE \E r \in Runners : RunnerStep(r)
  BY <1>6, <1>1, RunFrame
<1>. QED
  BY <1>1, <1>2, <1>3, <1>4, <1>5, <1>6 DEF Next, RunnerStep, vars, consumer, RunPlan,
     SendJob, SendFails, SendTwice, Crash, Quiet

LEMMA HandlingTypesStep ==
  ASSUME Inv0, [Next]_vars
  PROVE  HandlingTypes'
<1>. DEFINE H(n) == [at : 0..n, seen : Recorded \cup {"absent", ""}]
<1>0. Len(topic) \in Nat /\ Len(topic)' \in Nat /\ Len(topic) <= Len(topic)'
  BY TopicGrows, Counts DEF Inv0
<1>1. H(Len(topic)) \subseteq H(Len(topic)')
  <2>1. 0..Len(topic) \subseteq 0..Len(topic)'
    BY <1>0
  <2>. QED  BY <2>1
<1>2. HandlingTypes <=> owner \in Movers \cup {Nobody} /\ handling \in [Movers -> H(Len(topic))]
  BY DEF HandlingTypes
<1>3. HandlingTypes' <=> owner' \in Movers \cup {Nobody} /\ handling' \in [Movers -> H(Len(topic)')]
  BY DEF HandlingTypes
<1>4. Idle \in H(Len(topic))
  BY <1>0 DEF Idle
<1>5. ASSUME NEW m \in Movers, GetJobStatus(m)
      PROVE  UNCHANGED owner /\ \E h \in H(Len(topic)) : handling' = [handling EXCEPT ![m] = h]
  <2>1. pos < Len(topic) /\ UNCHANGED owner
    BY <1>5 DEF GetJobStatus
  <2>2. pos + 1 \in 1..Len(topic) /\ pos + 1 \in 0..Len(topic)
    BY <2>1, Counts DEF Inv0
  <2>3. topic[pos + 1] \in Jobs
    BY <2>2, MessageType DEF Inv0
  <2>4. StatusRead(topic[pos + 1]) \subseteq Recorded \cup {"absent", ""}
    BY <2>3 DEF StatusRead, Inv0, RecordTypes
  <2>. QED  BY <1>5, <2>1, <2>2, <2>4 DEF GetJobStatus
<1>6. ASSUME NEW m \in Movers, Crash(m) \/ HandleMsg(m)
      PROVE  owner' \in {owner, Nobody} /\ handling' = [handling EXCEPT ![m] = Idle]
  BY <1>6 DEF Crash, HandleMsg, StartRunner, Refuse
<1>7. ASSUME NEW m \in Movers, Join(m) \/ Rebalance(m) PROVE owner' = m /\ UNCHANGED handling
  BY <1>7 DEF Join, Rebalance, ClaimBy
<1>. HIDE DEF H
<1>8. CASE UNCHANGED <<owner, handling>>
  BY <1>1, <1>2, <1>3, <1>8 DEF Inv0
<1>9. CASE \E m \in Movers : GetJobStatus(m)
  BY <1>1, <1>2, <1>3, <1>5, <1>9 DEF Inv0
<1>10. CASE \E m \in Movers : Crash(m) \/ HandleMsg(m)
  BY <1>1, <1>2, <1>3, <1>4, <1>6, <1>10 DEF Inv0
<1>11. CASE \E m \in Movers : Join(m) \/ Rebalance(m)
  BY <1>1, <1>2, <1>3, <1>7, <1>11 DEF Inv0
<1>12. CASE \E r \in Runners : RunnerStep(r)
  BY <1>8, <1>12, RunFrame
<1>. QED
  BY <1>8, <1>9, <1>10, <1>11, <1>12 DEF Next, RunnerStep, vars, consumer, RunPlan,
     SendJob, SendFails, SendTwice, Commit, Quiet

LEMMA RunnerTypesStep ==
  ASSUME Inv0, [Next]_vars
  PROVE  RunnerTypes' /\ LiveHasMessage'
<1>. DEFINE G(n) == [step : RunStep \cup {"gone"}, at : 0..n, mover : Movers \cup {Nobody}]
            Sound(x) == x.step # "gone" => x.at # 0 /\ x.mover \in Movers
<1>0. Len(topic) \in Nat /\ Len(topic)' \in Nat /\ Len(topic) <= Len(topic)'
  BY TopicGrows, Counts DEF Inv0
<1>1. G(Len(topic)) \subseteq G(Len(topic)')
  <2>1. 0..Len(topic) \subseteq 0..Len(topic)'
    BY <1>0
  <2>. QED  BY <2>1
<1>2. runner \in [Runners -> G(Len(topic))] /\ \A r \in Runners : Sound(runner[r])
  BY DEF Inv0, RunnerTypes, LiveHasMessage, Live
<1>3. SUFFICES runner' \in [Runners -> G(Len(topic))] /\ \A r \in Runners : Sound(runner'[r])
  <2>1. ASSUME runner' \in [Runners -> G(Len(topic))] /\ \A r \in Runners : Sound(runner'[r])
        PROVE  runner' \in [Runners -> G(Len(topic)')] /\ \A r \in Runners : Sound(runner'[r])
    BY <1>1, <2>1
  <2>. QED  BY <2>1 DEF RunnerTypes, LiveHasMessage, Live
<1>4. Gone \in G(Len(topic)) /\ Sound(Gone)
  BY <1>0 DEF Gone
<1>5. ASSUME NEW m \in Movers, StartRunner(m)
      PROVE  \E r \in Runners : \E x \in G(Len(topic)) :
               Sound(x) /\ runner' = [runner EXCEPT ![r] = x]
  <2>1. handling[m].at \in 0..Len(topic) /\ handling[m].at # 0
    BY <1>5 DEF Inv0, HandlingTypes, StartRunner, Busy
  <2>2. PICK r \in Runners :
          runner' = [runner EXCEPT ![r] = [step |-> "prepare", at |-> handling[m].at, mover |-> m]]
    BY <1>5 DEF StartRunner
  <2>. QED  BY <2>1, <2>2 DEF RunStep
<1>6. ASSUME NEW m \in Movers, Crash(m)
      PROVE  runner' = [r \in Runners |-> IF runner[r].mover = m THEN Gone ELSE runner[r]]
  BY <1>6 DEF Crash
<1>7. ASSUME NEW r \in Runners, RunnerStep(r)
      PROVE  \E x \in G(Len(topic)) : Sound(x) /\ runner' = [runner EXCEPT ![r] = x]
  <2>1. CASE UNCHANGED runner
    BY <1>2, <2>1
  <2>2. CASE runner' = [runner EXCEPT ![r] = Gone]
    BY <1>4, <2>2
  <2>3. ASSUME NEW s \in RunStep, runner' = [runner EXCEPT ![r].step = s]
        PROVE  \E x \in G(Len(topic)) : Sound(x) /\ runner' = [runner EXCEPT ![r] = x]
    <3>1. [runner[r] EXCEPT !.step = s] \in G(Len(topic)) /\ Sound([runner[r] EXCEPT !.step = s])
      BY <1>2, <1>7, RunFrame DEF Live
    <3>2. runner' = [runner EXCEPT ![r] = [runner[r] EXCEPT !.step = s]]
      BY <2>3
    <3>. QED  BY <3>1, <3>2
  <2>. QED  BY <1>7, <2>1, <2>2, <2>3, RunFrame
<1>. HIDE DEF G, Sound
<1>8. CASE UNCHANGED runner
  BY <1>2, <1>8
<1>9. CASE \E m \in Movers : StartRunner(m)
  BY <1>2, <1>5, <1>9
<1>10. CASE \E m \in Movers : Crash(m)
  BY <1>2, <1>4, <1>6, <1>10
<1>11. CASE \E r \in Runners : RunnerStep(r)
  BY <1>2, <1>7, <1>11
<1>. QED
  BY <1>8, <1>9, <1>10, <1>11 DEF Next, RunnerStep, vars, consumer, RunPlan, SendJob,
     SendFails, SendTwice, Join, Rebalance, GetJobStatus, HandleMsg, Refuse, Commit, Quiet

LEMMA Inv0Step == Inv0 /\ [Next]_vars => Inv0'
BY RecordTypesStep, TopicTypesStep, HandlingTypesStep, RunnerTypesStep DEF Inv0

\* Every variable keeps its type, and a goroutine that runs has a message,
\* whatever goes wrong.
THEOREM TypeCorrect == Spec => []TypeOK
<1>1. Inv0 => TypeOK
  BY TypeSplit DEF Inv0
<1>. QED  BY <1>1, InitInv0, Inv0Step, PTL DEF Spec

-----------------------------------------------------------------------------
(* One goroutine for a job.                                                *)

\* Every job has one message, sent after its record was stored.
OneMessage ==
  /\ \A k, l \in 1..Len(topic) : topic[k] = topic[l] => k = l
  /\ \A k \in 1..Len(topic) : topic[k] \notin sending /\ db[topic[k]] # "absent"
  /\ \A j \in sending : db[j] # "absent"

\* HandleMsg has the last message that was received, and the goroutines of
\* the owner, there are no others, have earlier ones.
InOrder ==
  /\ \A m \in Movers : Busy(m) => m = owner /\ handling[m].at = pos
  /\ \A r \in Runners : Live(r) =>
       /\ runner[r].mover = owner /\ runner[r].at <= pos
       /\ Busy(owner) => runner[r].at # pos

OwnMessage == \A r, s \in Runners : Live(r) /\ Live(s) /\ runner[r].at = runner[s].at => r = s

Inv1 == Inv0 /\ OneMessage /\ InOrder /\ OwnMessage

LEMMA InitInv1 == Init => Inv1
<1>. SUFFICES ASSUME Init PROVE Inv1
  OBVIOUS
<1>1. topic = <<>> /\ Len(topic) = 0 /\ sending = {}
  BY DEF Init
<1>2. OneMessage
  BY <1>1 DEF OneMessage
<1>3. (\A m \in Movers : ~Busy(m)) /\ \A r \in Runners : ~Live(r)
  BY DEF Init, Busy, Idle, Live, Gone
<1>. QED  BY <1>2, <1>3, InitInv0 DEF Inv1, InOrder, OwnMessage

\* Without the two faults a message is appended once, by SendJob only.
LEMMA OneMessageStep ==
  ASSUME Inv1, [Next]_vars, Single
  PROVE  OneMessage'
<1>1. ASSUME NEW j \in Jobs, RunPlan(j) PROVE OneMessage'
  <2>1. /\ db[j] = "absent" /\ db' = [db EXCEPT ![j] = "pending"]
        /\ sending' = sending \cup {j} /\ UNCHANGED topic
    BY <1>1 DEF RunPlan
  <2>2. \A k \in 1..Len(topic) : topic[k] # j
    BY <2>1 DEF Inv1, OneMessage
  <2>3. \A i \in Jobs : i # j => db'[i] = db[i]
    BY <2>1 DEF Inv1, Inv0, RecordTypes
  <2>4. db'[j] = "pending"
    BY <2>1 DEF Inv1, Inv0, RecordTypes
  <2>5. \A k \in 1..Len(topic) : topic[k] \in Jobs
    BY MessageType DEF Inv1, Inv0
  <2>6. sending \subseteq Jobs
    BY DEF Inv1, Inv0, RecordTypes
  <2>. QED  BY <2>1, <2>2, <2>3, <2>4, <2>5, <2>6 DEF Inv1, OneMessage
<1>2. ASSUME NEW j \in Jobs, SendJob(j) PROVE OneMessage'
  <2>1. /\ j \in sending /\ sending' = sending \ {j}
        /\ topic' = Append(topic, j) /\ UNCHANGED db
    BY <1>2 DEF SendJob, Unsent
  <2>2. topic \in Seq(Jobs) /\ Len(topic) \in Nat
    BY Counts DEF Inv1, Inv0, TopicTypes
  <2>3. /\ Len(topic') = Len(topic) + 1 /\ topic'[Len(topic) + 1] = j
        /\ \A k \in 1..Len(topic) : topic'[k] = topic[k]
    BY <2>1, <2>2
  <2>4. \A k \in 1..Len(topic') : k \in 1..Len(topic) \/ k = Len(topic) + 1
    BY <2>2, <2>3
  <2>5. \A k \in 1..Len(topic) : topic'[k] # j
    BY <2>1, <2>3 DEF Inv1, OneMessage
  <2>6. \A k, l \in 1..Len(topic') : topic'[k] = topic'[l] => k = l
    BY <2>3, <2>4, <2>5 DEF Inv1, OneMessage
  <2>7. \A k \in 1..Len(topic') : topic'[k] \notin sending' /\ db'[topic'[k]] # "absent"
    BY <2>1, <2>3, <2>4 DEF Inv1, OneMessage
  <2>. QED  BY <2>1, <2>6, <2>7 DEF Inv1, OneMessage
<1>3. CASE \E r \in Runners : RunnerStep(r)
  <2>1. UNCHANGED <<topic, sending>>
    BY <1>3, RunFrame DEF Inv1
  <2>2. \A j \in Jobs : db[j] # "absent" => db'[j] # "absent"
    BY <1>3, RunFrame DEF Inv1, Inv0, RecordTypes, Recorded, Ended
  <2>3. (\A k \in 1..Len(topic) : topic[k] \in Jobs) /\ sending \subseteq Jobs
    BY MessageType DEF Inv1, Inv0, RecordTypes
  <2>. QED  BY <2>1, <2>2, <2>3 DEF Inv1, OneMessage
<1>4. CASE sending' \subseteq sending /\ UNCHANGED <<topic, db>>
  BY <1>4 DEF Inv1, OneMessage
<1>. QED
  BY <1>1, <1>2, <1>3, <1>4 DEF Next, RunnerStep, vars, consumer, Single, SendFails,
     SendTwice, Join, Rebalance, Crash, GetJobStatus, HandleMsg, StartRunner, Refuse, Commit,
     Quiet

\* A step of runjob leaves every goroutine its message or ends it.
LEMMA RunnerKeeps ==
  ASSUME Inv0, NEW r \in Runners, RunnerStep(r), NEW q \in Runners, Live(q)'
  PROVE  Live(q) /\ runner'[q].at = runner[q].at /\ runner'[q].mover = runner[q].mover
<1>1. runner \in [Runners -> [step : RunStep \cup {"gone"}, at : 0..Len(topic),
                              mover : Movers \cup {Nobody}]]
  BY DEF Inv0, RunnerTypes
<1>2. CASE UNCHANGED runner
  BY <1>2 DEF Live
<1>3. CASE runner' = [runner EXCEPT ![r] = Gone]
  BY <1>1, <1>3 DEF Live, Gone
<1>4. ASSUME NEW s \in RunStep, runner' = [runner EXCEPT ![r].step = s]
      PROVE  Live(q) /\ runner'[q].at = runner[q].at /\ runner'[q].mover = runner[q].mover
  <2>1. Live(r)
    BY RunFrame
  <2>2. runner'[q] = IF q = r THEN [runner[r] EXCEPT !.step = s] ELSE runner[q]
    BY <1>1, <1>4
  <2>3. CASE q = r
    BY <1>1, <2>1, <2>2, <2>3
  <2>4. CASE q # r
    BY <2>2, <2>4 DEF Live
  <2>. QED  BY <2>3, <2>4
<1>. QED  BY <1>2, <1>3, <1>4, RunFrame

LEMMA InOrderStep ==
  ASSUME Inv1, [Next]_vars, Single
  PROVE  InOrder' /\ OwnMessage'
<1>. USE DEF InOrder, OwnMessage
<1>0. Inv0 /\ InOrder /\ OwnMessage
  BY DEF Inv1
<1>1. CASE UNCHANGED <<owner, pos, handling, runner>>
  BY <1>0, <1>1 DEF Busy, Live
<1>2. ASSUME NEW m \in Movers, Join(m) PROVE InOrder' /\ OwnMessage'
  <2>1. (\A n \in Movers : ~Busy(n)) /\ \A r \in Runners : ~Live(r)
    BY <1>0, <1>2, NobodyAssumption DEF Join, Inv0, LiveHasMessage
  <2>2. UNCHANGED <<handling, runner>>
    BY <1>2 DEF Join
  <2>. QED  BY <2>1, <2>2 DEF Busy, Live
<1>3. ASSUME NEW m \in Movers, Crash(m) PROVE InOrder' /\ OwnMessage'
  <2>1. /\ handling' = [handling EXCEPT ![m] = Idle] /\ UNCHANGED pos
        /\ runner' = [r \in Runners |-> IF runner[r].mover = m THEN Gone ELSE runner[r]]
        /\ owner' = IF owner = m THEN Nobody ELSE owner
    BY <1>3 DEF Crash
  <2>2. \A n \in Movers : Busy(n)' => n # m /\ Busy(n) /\ handling'[n] = handling[n]
    BY <2>1, <1>0 DEF Busy, Idle, Inv0, HandlingTypes
  <2>3. \A r \in Runners : Live(r)' =>
          Live(r) /\ runner'[r] = runner[r] /\ runner[r].mover # m
    BY <2>1 DEF Live, Gone
  <2>4. \A r \in Runners : Live(r)' => owner' = owner /\ (Busy(owner)' => Busy(owner))
    BY <1>0, <2>1, <2>2, <2>3 DEF Inv0, LiveHasMessage
  <2>5. \A n \in Movers : Busy(n)' => owner' = owner
    BY <1>0, <2>1, <2>2
  <2>. QED  BY <1>0, <2>1, <2>2, <2>3, <2>4, <2>5
<1>4. ASSUME NEW m \in Movers, GetJobStatus(m) PROVE InOrder' /\ OwnMessage'
  <2>1. /\ owner = m /\ ~Busy(m) /\ pos' = pos + 1 /\ UNCHANGED <<owner, runner>>
        /\ \E s \in StatusRead(topic[pos + 1]) :
             handling' = [handling EXCEPT ![m] = [at |-> pos + 1, seen |-> s]]
    BY <1>4 DEF GetJobStatus
  <2>2. \A n \in Movers : ~Busy(n)
    BY <1>0, <2>1
  <2>3. \A n \in Movers : Busy(n)' => n = m /\ handling'[n].at = pos + 1
    <3>1. PICK s : handling' = [handling EXCEPT ![m] = [at |-> pos + 1, seen |-> s]]
      BY <2>1
    <3>2. \A n \in Movers : n # m => handling'[n] = handling[n]
      BY <3>1, <1>0 DEF Inv0, HandlingTypes
    <3>3. handling'[m] = [at |-> pos + 1, seen |-> s]
      BY <3>1, <1>0 DEF Inv0, HandlingTypes
    <3>. QED  BY <2>2, <3>2, <3>3 DEF Busy
  <2>4. \A r \in Runners : Live(r) => runner[r].at \in Nat
    BY <1>0 DEF Inv0, RunnerTypes
  <2>5. \A r \in Runners : Live(r) => runner[r].at <= pos + 1 /\ runner[r].at # pos + 1
    BY <1>0, <2>4, Counts DEF Inv0
  <2>. QED  BY <1>0, <2>1, <2>3, <2>5 DEF Live
<1>5. ASSUME NEW m \in Movers, HandleMsg(m) PROVE InOrder' /\ OwnMessage'
  <2>1. /\ Busy(m) /\ m = owner /\ handling[m].at = pos
        /\ handling' = [handling EXCEPT ![m] = Idle] /\ UNCHANGED <<owner, pos>>
    BY <1>0, <1>5 DEF HandleMsg, StartRunner, Refuse
  <2>2. \A n \in Movers : ~Busy(n)'
    BY <1>0, <2>1 DEF Busy, Idle, Inv0, HandlingTypes
  <2>3. CASE UNCHANGED runner
    BY <1>0, <2>1, <2>2, <2>3 DEF Live
  <2>4. ASSUME NEW r \in Runners,
               runner' = [runner EXCEPT ![r] = [step |-> "prepare", at |-> pos, mover |-> m]]
        PROVE  InOrder' /\ OwnMessage'
    <3>1. runner'[r].at = pos /\ runner'[r].mover = m
      BY <1>0, <2>4 DEF Inv0, RunnerTypes
    <3>2. \A q \in Runners : q # r => runner'[q] = runner[q] /\ (Live(q)' => Live(q))
      BY <1>0, <2>4 DEF Inv0, RunnerTypes, Live
    <3>3. pos <= pos
      BY Counts, <1>0 DEF Inv0
    <3>4. InOrder'
      BY <1>0, <2>1, <2>2, <3>1, <3>2, <3>3
    <3>. QED  BY <1>0, <2>1, <3>1, <3>2, <3>4
  <2>. QED  BY <1>5, <2>1, <2>3, <2>4 DEF HandleMsg, StartRunner, Refuse
<1>6. ASSUME NEW r \in Runners, RunnerStep(r) PROVE InOrder' /\ OwnMessage'
  <2>1. UNCHANGED <<owner, pos, handling>>
    BY <1>0, <1>6, RunFrame
  <2>2. \A q \in Runners : Live(q)' =>
          Live(q) /\ runner'[q].at = runner[q].at /\ runner'[q].mover = runner[q].mover
    BY <1>0, <1>6, RunnerKeeps
  <2>. QED  BY <1>0, <2>1, <2>2 DEF Busy
<1>. QED
  BY <1>1, <1>2, <1>3, <1>4, <1>5, <1>6 DEF Next, RunnerStep, vars, consumer, Single, RunPlan,
     SendJob, SendFails, SendTwice, Rebalance, Commit, Quiet

LEMMA Inv1Step == Inv1 /\ [Next]_vars /\ Single => Inv1'
BY Inv0Step, OneMessageStep, InOrderStep DEF Inv1

LEMMA OneRunnerFollows == Inv1 => AtMostOneRunner
<1>. SUFFICES ASSUME Inv1, NEW r \in Runners, NEW q \in Runners,
                     Live(r), Live(q), JobOf(r) = JobOf(q)
              PROVE  r = q
  BY DEF AtMostOneRunner
<1>1. runner[r].at \in 1..Len(topic) /\ runner[q].at \in 1..Len(topic)
  BY JobOfType DEF Inv1, Inv0
<1>. QED  BY <1>1 DEF Inv1, OneMessage, OwnMessage, JobOf

\* No job is executed by two goroutines, through any number of crashes,
\* failed calls and lost messages, if messages are neither stored twice nor
\* delivered again to a living group.
THEOREM OneRunner ==
  ASSUME Single
  PROVE  Spec => []AtMostOneRunner
<1>1. Inv1 /\ [Next]_vars => Inv1'
  BY Inv1Step
<1>. QED  BY <1>1, InitInv1, OneRunnerFollows, PTL DEF Spec

-----------------------------------------------------------------------------
(* The record of a job without assistant work.                             *)

PlainStep == {"prepare", "begin", "migrate", "succeed", "fail"}

\* The record a goroutine works on has not ended, and neither has the one
\* HandleMsg has read as pending changed.
OpenRecords ==
  /\ \A j \in Plain : db[j] # "Running"
  /\ \A r \in Runners : Live(r) /\ JobOf(r) \in Plain =>
       runner[r].step \in PlainStep /\ db[JobOf(r)] \in {"pending", "running"}
  /\ \A m \in Movers : Busy(m) /\ handling[m].seen = "pending" =>
       db[topic[handling[m].at]] = "pending"

Inv2 == Inv1 /\ OpenRecords

LEMMA PlainAfterMigration ==
  ASSUME NEW j \in Plain
  PROVE  AfterMigration(j) = {"succeed"}
BY DEF Plain, AfterMigration

\* What a goroutine does to the record of such a job.
LEMMA PlainFrame ==
  ASSUME Inv2, NEW r \in Runners, RunnerStep(r), JobOf(r) \in Plain
  PROVE  \/ /\ UNCHANGED db
            /\ \/ UNCHANGED runner \/ runner' = [runner EXCEPT ![r] = Gone]
               \/ \E s \in PlainStep : runner' = [runner EXCEPT ![r].step = s]
         \/ /\ db' = [db EXCEPT ![JobOf(r)] = "running"]
            /\ \/ UNCHANGED runner
               \/ \E s \in PlainStep : runner' = [runner EXCEPT ![r].step = s]
         \/ /\ \E s \in Ended : db' = [db EXCEPT ![JobOf(r)] = s]
            /\ runner' = [runner EXCEPT ![r] = Gone]
<1>. USE DEF Goto, Exit, Record, Ended, PlainStep
<1>1. runner[r].step \in PlainStep
  BY RunnerStepLive DEF Inv2, OpenRecords
<1>2. CASE PrepareFails(r) \/ NothingToMove(r) \/ Prepared(r) \/ BeginMigration(r)
  BY <1>2 DEF PrepareFails, NothingToMove, Prepared, BeginMigration
<1>3. CASE WriteProgress(r) \/ SomeNotMoved(r) \/ WriteFailed(r) \/ WriteSucceed(r)
  BY <1>3 DEF WriteProgress, SomeNotMoved, WriteFailed, WriteSucceed, OutcomeOfFailure
<1>4. CASE AllMoved(r)
  BY <1>4, PlainAfterMigration DEF AllMoved
<1>5. CASE BeginAnalysis(r) \/ AnalysisFails(r) \/ GetResult(r) \/ NoResult(r) \/ MigrateResult(r)
  BY <1>1, <1>5 DEF BeginAnalysis, AnalysisFails, GetResult, NoResult, MigrateResult
<1>. QED  BY <1>2, <1>3, <1>4, <1>5 DEF RunnerStep, RunJob

\* Two messages are two jobs: the step of one goroutine changes no record
\* another one or HandleMsg relies on.
LEMMA OtherRecords ==
  ASSUME Inv1, NEW r \in Runners, RunnerStep(r)
  PROVE  /\ \A q \in Runners : Live(q) /\ q # r => JobOf(q) # JobOf(r)
         /\ \A m \in Movers : Busy(m) => topic[handling[m].at] # JobOf(r)
<1>0. Live(r) /\ runner[r].at \in 1..Len(topic)
  BY RunFrame, JobOfType DEF Inv1, Inv0
<1>1. ASSUME NEW q \in Runners, Live(q), q # r PROVE JobOf(q) # JobOf(r)
  <2>1. runner[q].at \in 1..Len(topic)
    BY <1>1, JobOfType DEF Inv1, Inv0
  <2>. QED  BY <1>0, <1>1, <2>1 DEF Inv1, OneMessage, OwnMessage, JobOf
<1>2. ASSUME NEW m \in Movers, Busy(m) PROVE topic[handling[m].at] # JobOf(r)
  <2>1. m = owner /\ handling[m].at = pos /\ pos # 0
    BY <1>2 DEF Inv1, InOrder, Busy
  <2>2. pos \in 1..Len(topic)
    BY <2>1, Counts DEF Inv1, Inv0
  <2>3. runner[r].at # pos
    BY <1>0, <1>2, <2>1 DEF Inv1, InOrder
  <2>. QED  BY <1>0, <2>1, <2>2, <2>3 DEF Inv1, OneMessage, JobOf
<1>. QED  BY <1>1, <1>2

LEMMA InitInv2 == Init => Inv2
<1>. SUFFICES ASSUME Init PROVE Inv2
  OBVIOUS
<1>1. (\A m \in Movers : ~Busy(m)) /\ \A r \in Runners : ~Live(r)
  BY DEF Init, Busy, Idle, Live, Gone
<1>2. \A j \in Plain : db[j] # "Running"
  BY DEF Init, Plain
<1>. QED  BY <1>1, <1>2, InitInv1 DEF Inv2, OpenRecords

\* A step of a goroutine leaves every record open that must be.
LEMMA OpenRecordsRunner ==
  ASSUME Inv2, Inv1', NEW r \in Runners, RunnerStep(r)
  PROVE  OpenRecords'
<1>0. /\ Inv0 /\ Inv1 /\ UNCHANGED <<topic, handling>> /\ Live(r) /\ JobOf(r) \in Jobs
      /\ db \in [Jobs -> Recorded \cup {"absent"}]
      /\ runner \in [Runners -> [step : RunStep \cup {"gone"}, at : 0..Len(topic),
                                 mover : Movers \cup {Nobody}]]
  BY RunFrame DEF Inv2, Inv1, Inv0, RecordTypes, RunnerTypes
<1>1. \A j \in Jobs : j # JobOf(r) => db'[j] = db[j]
  <2>1. UNCHANGED db \/ \E s \in Recorded : db' = [db EXCEPT ![JobOf(r)] = s]
    BY <1>0, RunFrame, Zenon
  <2>. QED  BY <1>0, <2>1
<1>2. \A q \in Runners : q # r => runner'[q] = runner[q]
  <2>1. \/ UNCHANGED runner
        \/ runner' = [runner EXCEPT ![r] = Gone]
        \/ \E s \in RunStep : runner' = [runner EXCEPT ![r].step = s]
    BY <1>0, RunFrame, Zenon
  <2>. QED  BY <1>0, <2>1
<1>3. ASSUME JobOf(r) \in Plain
      PROVE  /\ db'[JobOf(r)] # "Running"
             /\ Live(r)' => runner'[r].step \in PlainStep
                            /\ db'[JobOf(r)] \in {"pending", "running"}
  <2>0. runner[r].step \in PlainStep /\ db[JobOf(r)] \in {"pending", "running"}
    BY <1>0, <1>3 DEF Inv2, OpenRecords
  <2>1. CASE runner' = [runner EXCEPT ![r] = Gone]
    <3>1. ~Live(r)'
      BY <1>0, <2>1 DEF Live, Gone
    <3>2. db'[JobOf(r)] # "Running"
      BY <1>0, <1>3, <2>0, PlainFrame DEF Ended
    <3>. QED  BY <3>1, <3>2
  <2>2. CASE UNCHANGED runner \/ \E s \in PlainStep : runner' = [runner EXCEPT ![r].step = s]
    <3>1. runner'[r].step \in PlainStep /\ Live(r)'
      BY <1>0, <2>0, <2>2 DEF PlainStep, Live
    <3>2. runner' # [runner EXCEPT ![r] = Gone]
      BY <1>0, <3>1 DEF Live, Gone
    <3>3. db'[JobOf(r)] \in {"pending", "running"}
      BY <1>0, <1>3, <2>0, <3>2, PlainFrame
    <3>. QED  BY <3>1, <3>3
  <2>. QED  BY <1>3, <2>1, <2>2, PlainFrame DEF Inv2
<1>4. \A j \in Plain : db'[j] # "Running"
  BY <1>1, <1>3 DEF Inv2, OpenRecords, Plain
<1>5. ASSUME NEW q \in Runners, Live(q)', JobOf(q)' \in Plain
      PROVE  runner'[q].step \in PlainStep /\ db'[JobOf(q)'] \in {"pending", "running"}
  <2>1. Live(q) /\ JobOf(q)' = JobOf(q) /\ JobOf(q) \in Jobs
    BY <1>0, <1>5, RunnerKeeps, JobOfType DEF JobOf, Inv0
  <2>2. CASE q = r
    BY <1>3, <1>5, <2>1, <2>2
  <2>3. CASE q # r
    BY <1>0, <1>1, <1>2, <1>5, <2>1, <2>3, OtherRecords DEF Inv2, OpenRecords
  <2>. QED  BY <2>2, <2>3
<1>6. ASSUME NEW m \in Movers, Busy(m)', handling'[m].seen = "pending"
      PROVE  db'[topic'[handling'[m].at]] = "pending"
  <2>1. Busy(m) /\ db[topic[handling[m].at]] = "pending"
    BY <1>0, <1>6 DEF Busy, Inv2, OpenRecords
  <2>2. topic[handling[m].at] # JobOf(r)
    BY <1>0, <2>1, OtherRecords
  <2>3. handling[m].at \in 0..Len(topic) /\ handling[m].at # 0
    BY <1>0, <2>1 DEF Inv0, HandlingTypes, Busy
  <2>4. topic[handling[m].at] \in Jobs
    BY <1>0, <2>3, Counts, MessageType DEF Inv0
  <2>. QED  BY <1>0, <1>1, <2>1, <2>2, <2>4
<1>. QED  BY <1>4, <1>5, <1>6 DEF OpenRecords

\* Steps that leave goroutines and HandleMsg their messages, or end them.
LEMMA OpenRecordsKept ==
  ASSUME Inv2, [Next]_vars,
         \A r \in Runners : Live(r)' => Live(r) /\ runner'[r] = runner[r],
         \A m \in Movers : Busy(m)' => Busy(m) /\ handling'[m] = handling[m],
         \A j \in Jobs : db[j] # "absent" => db'[j] = db[j],
         \A j \in Jobs : db'[j] \in {db[j], "pending"}
  PROVE  OpenRecords'
<1>0. /\ Inv0 /\ OneMessage
      /\ \A k \in 1..Len(topic) : topic'[k] = topic[k] /\ topic[k] \in Jobs
      /\ \A k \in 1..Len(topic) : db'[topic[k]] = db[topic[k]]
  BY TopicGrows, MessageType DEF Inv2, Inv1, Inv0, OneMessage
<1>1. \A j \in Plain : db'[j] # "Running"
  BY DEF Inv2, OpenRecords, Plain
<1>2. ASSUME NEW r \in Runners, Live(r)', JobOf(r)' \in Plain
      PROVE  runner'[r].step \in PlainStep /\ db'[JobOf(r)'] \in {"pending", "running"}
  <2>1. Live(r) /\ runner'[r] = runner[r] /\ runner[r].at \in 1..Len(topic)
    BY <1>0, <1>2, JobOfType DEF Inv0
  <2>2. JobOf(r)' = JobOf(r) /\ db'[JobOf(r)] = db[JobOf(r)]
    BY <1>0, <2>1 DEF JobOf
  <2>. QED  BY <1>2, <2>1, <2>2 DEF Inv2, OpenRecords
<1>3. ASSUME NEW m \in Movers, Busy(m)', handling'[m].seen = "pending"
      PROVE  db'[topic'[handling'[m].at]] = "pending"
  <2>1. Busy(m) /\ handling'[m] = handling[m]
    BY <1>3
  <2>2. handling[m].at \in 0..Len(topic) /\ handling[m].at # 0
    BY <1>0, <2>1 DEF Inv0, HandlingTypes, Busy
  <2>3. handling[m].at \in 1..Len(topic)
    BY <1>0, <2>2, Counts DEF Inv0
  <2>. QED  BY <1>0, <1>3, <2>1, <2>3 DEF Inv2, OpenRecords
<1>. QED  BY <1>1, <1>2, <1>3 DEF OpenRecords

LEMMA OpenRecordsStep ==
  ASSUME Inv2, Inv1', [Next]_vars, Single
  PROVE  OpenRecords'
<1>0. /\ Inv0 /\ handling \in [Movers -> [at : 0..Len(topic), seen : Recorded \cup {"absent", ""}]]
      /\ db \in [Jobs -> Recorded \cup {"absent"}]
      /\ runner \in [Runners -> [step : RunStep \cup {"gone"}, at : 0..Len(topic),
                                 mover : Movers \cup {Nobody}]]
  BY DEF Inv2, Inv1, Inv0, HandlingTypes, RunnerTypes, RecordTypes
<1>1. CASE UNCHANGED <<db, handling, runner>>
  BY <1>1, OpenRecordsKept DEF Busy, Live
<1>2. ASSUME NEW j \in Jobs, RunPlan(j) PROVE OpenRecords'
  <2>1. db[j] = "absent" /\ db' = [db EXCEPT ![j] = "pending"] /\ UNCHANGED <<handling, runner>>
    BY <1>2 DEF RunPlan
  <2>2. \A i \in Jobs : db'[i] = IF i = j THEN "pending" ELSE db[i]
    BY <1>0, <2>1
  <2>. QED  BY <2>1, <2>2, OpenRecordsKept DEF Busy, Live
<1>3. ASSUME NEW m \in Movers, Crash(m) PROVE OpenRecords'
  <2>1. /\ handling' = [handling EXCEPT ![m] = Idle] /\ UNCHANGED db
        /\ runner' = [r \in Runners |-> IF runner[r].mover = m THEN Gone ELSE runner[r]]
    BY <1>3 DEF Crash
  <2>2. \A n \in Movers : Busy(n)' => Busy(n) /\ handling'[n] = handling[n]
    BY <1>0, <2>1 DEF Busy, Idle
  <2>3. \A r \in Runners : Live(r)' => Live(r) /\ runner'[r] = runner[r]
    BY <2>1 DEF Live, Gone
  <2>. QED  BY <2>1, <2>2, <2>3, OpenRecordsKept
<1>4. ASSUME NEW m \in Movers, GetJobStatus(m) PROVE OpenRecords'
  <2>1. pos < Len(topic) /\ UNCHANGED <<db, topic, runner>>
    BY <1>4 DEF GetJobStatus
  <2>2. PICK s \in StatusRead(topic[pos + 1]) :
          handling' = [handling EXCEPT ![m] = [at |-> pos + 1, seen |-> s]]
    BY <1>4 DEF GetJobStatus
  <2>3. handling'[m] = [at |-> pos + 1, seen |-> s]
        /\ \A n \in Movers : n # m => handling'[n] = handling[n]
    BY <1>0, <2>2
  <2>4. s = "pending" => db[topic[pos + 1]] = "pending"
    BY DEF StatusRead
  <2>. QED  BY <2>1, <2>3, <2>4 DEF Inv2, OpenRecords, Busy, Live, JobOf
<1>5. ASSUME NEW m \in Movers, HandleMsg(m) PROVE OpenRecords'
  <2>1. Busy(m) /\ handling' = [handling EXCEPT ![m] = Idle] /\ UNCHANGED <<db, topic>>
    BY <1>5 DEF HandleMsg, StartRunner, Refuse
  <2>2. \A n \in Movers : Busy(n)' => Busy(n) /\ handling'[n] = handling[n]
    BY <1>0, <2>1 DEF Busy, Idle
  <2>3. CASE UNCHANGED runner
    BY <2>1, <2>2, <2>3, OpenRecordsKept DEF Live
  <2>4. CASE StartRunner(m)
    <3>1. PICK r \in Runners :
            runner' = [runner EXCEPT ![r] = [step |-> "prepare", at |-> handling[m].at, mover |-> m]]
      BY <2>4 DEF StartRunner
    <3>2. /\ runner'[r].step = "prepare" /\ runner'[r].at = handling[m].at
          /\ \A q \in Runners : q # r => runner'[q] = runner[q]
      BY <1>0, <3>1
    <3>3. db[topic[handling[m].at]] = "pending"
      BY <2>1, <2>4 DEF StartRunner, MayStart, Inv2, OpenRecords
    <3>. QED  BY <2>1, <2>2, <3>2, <3>3 DEF Inv2, OpenRecords, PlainStep, Live, JobOf
  <2>. QED  BY <1>5, <2>3, <2>4 DEF HandleMsg, Refuse
<1>6. CASE \E r \in Runners : RunnerStep(r)
  BY <1>6, OpenRecordsRunner
<1>. QED
  BY <1>1, <1>2, <1>3, <1>4, <1>5, <1>6 DEF Next, RunnerStep, vars, consumer, Single,
     SendJob, SendFails, SendTwice, Join, Rebalance, Commit, Quiet

LEMMA Inv2Step == Inv2 /\ [Next]_vars /\ Single => Inv2'
BY Inv1Step, OpenRecordsStep DEF Inv2

-----------------------------------------------------------------------------
(* The records implement JobLife.                                          *)

PlainStatus == [j \in Plain |-> db[j]]

LEMMA StatusUpdate ==
  ASSUME NEW j \in Plain, NEW s, db \in [Jobs -> Recorded \cup {"absent"}],
         db' = [db EXCEPT ![j] = s]
  PROVE  PlainStatus' = [PlainStatus EXCEPT ![j] = s]
BY DEF PlainStatus, Plain

LEMMA LifeStep ==
  ASSUME Inv2, [Next]_vars, Single
  PROVE  [Life!Next]_PlainStatus
<1>0. Inv1 /\ Inv0 /\ db \in [Jobs -> Recorded \cup {"absent"}]
      /\ \A j \in Plain : j \in Jobs /\ PlainStatus[j] = db[j]
  BY DEF Inv2, Inv1, Inv0, RecordTypes, PlainStatus, Plain
<1>1. CASE \A j \in Plain : db'[j] = db[j]
  <2>1. PlainStatus' = PlainStatus
    BY <1>1 DEF PlainStatus
  <2>. QED  BY <2>1
<1>2. ASSUME NEW j \in Jobs, RunPlan(j) PROVE [Life!Next]_PlainStatus
  <2>1. db[j] = "absent" /\ db' = [db EXCEPT ![j] = "pending"]
    BY <1>2 DEF RunPlan
  <2>2. CASE j \in Plain
    <3>1. Life!Create(j)
      BY <1>0, <2>1, <2>2, StatusUpdate DEF Life!Create, PlainStatus
    <3>. QED  BY <2>2, <3>1 DEF Life!Next
  <2>3. CASE j \notin Plain
    <3>1. \A i \in Plain : db'[i] = db[i]
      BY <1>0, <2>1, <2>3
    <3>. QED  BY <1>1, <3>1
  <2>. QED  BY <2>2, <2>3
<1>3. ASSUME NEW r \in Runners, RunnerStep(r) PROVE [Life!Next]_PlainStatus
  <2>1. Live(r) /\ JobOf(r) \in Jobs
    BY <1>0, <1>3, RunFrame
  <2>2. CASE JobOf(r) \notin Plain
    <3>1. \A i \in Plain : db'[i] = db[i]
      BY <1>0, <1>3, <2>2, RunFrame
    <3>. QED  BY <1>1, <3>1
  <2>3. CASE JobOf(r) \in Plain
    <3>1. db[JobOf(r)] \in {"pending", "running"}
      BY <2>1, <2>3 DEF Inv2, OpenRecords
    <3>2. CASE UNCHANGED db
      BY <1>1, <3>2
    <3>3. CASE db' = [db EXCEPT ![JobOf(r)] = "running"]
      <4>1. PlainStatus' = [PlainStatus EXCEPT ![JobOf(r)] = "running"]
        BY <1>0, <2>3, <3>3, StatusUpdate
      <4>2. CASE db[JobOf(r)] = "pending"
        BY <1>0, <2>3, <4>1, <4>2 DEF Life!Next, Life!Begin, PlainStatus
      <4>3. CASE db[JobOf(r)] = "running"
        <5>1. \A i \in Plain : db'[i] = db[i]
          BY <1>0, <3>3, <4>3
        <5>. QED  BY <1>1, <5>1
      <4>. QED  BY <3>1, <4>2, <4>3
    <3>4. ASSUME NEW s \in Ended, db' = [db EXCEPT ![JobOf(r)] = s]
          PROVE  [Life!Next]_PlainStatus
      <4>0. PICK j \in Plain : j = JobOf(r)
        BY <2>3
      <4>1. PlainStatus' = [PlainStatus EXCEPT ![j] = s]
        BY <1>0, <2>3, <3>4, <4>0, StatusUpdate
      <4>2. PlainStatus[j] \in {"pending", "running"}
        BY <1>0, <3>1, <4>0
      <4>3. s \in Life!Ended
        BY DEF Ended, Life!Ended
      <4>4. Life!End(j)
        BY <4>1, <4>2, <4>3 DEF Life!End, PlainStatus
      <4>. QED  BY <4>4 DEF Life!Next
    <3>. QED  BY <1>3, <2>3, <3>2, <3>3, <3>4, PlainFrame
  <2>. QED  BY <2>2, <2>3
<1>. QED
  BY <1>1, <1>2, <1>3 DEF Next, RunnerStep, vars, SendJob, SendFails, SendTwice,
     Join, Rebalance, Crash, GetJobStatus, HandleMsg, StartRunner, Refuse, Commit, Quiet

\* The verdict on a job without assistant work is given once and stays,
\* through crashes, failed calls and lost messages.
THEOREM RecordsImplementLife ==
  ASSUME Single
  PROVE  Spec => ImplementsLife
<1>1. Init => Life!Init
  BY DEF Init, Life!Init, Plain
<1>2. Inv2 /\ [Next]_vars => Inv2'
  BY Inv2Step
<1>3. Inv2 /\ [Next]_vars => [Life!Next]_PlainStatus
  BY LifeStep
<1>. QED  BY <1>1, <1>2, <1>3, InitInv2, PTL DEF Spec, ImplementsLife, Life!Spec, PlainStatus

-----------------------------------------------------------------------------
(* What a success means, and what a commit means.  These hold under every    *)
(* fault, messages that come twice included.                                 *)

MovedStep == {"succeed", "analyse", "analysed", "getresult", "collect"}

\* A goroutine beyond its migration, and a record that says so, have moved all.
MovedBefore ==
  /\ \A j \in Jobs : db[j] = "succeed" => j \in moved
  /\ \A r \in Runners : runner[r].step \in MovedStep => JobOf(r) \in moved

\* What a step of a goroutine does to what MovedBefore says of its job.
LEMMA MovedFrame ==
  ASSUME Inv0, MovedBefore, NEW r \in Runners, RunnerStep(r)
  PROVE  /\ moved \subseteq moved' /\ moved' \subseteq moved \cup {JobOf(r)}
         /\ db'[JobOf(r)] = "succeed" => JobOf(r) \in moved'
         /\ runner'[r].step \in MovedStep => JobOf(r) \in moved'
<1>. USE DEF Goto, Exit, Record, Ended, MovedStep, Gone
<1>0. /\ Live(r) /\ JobOf(r) \in Jobs
      /\ db \in [Jobs -> Recorded \cup {"absent"}]
      /\ runner \in [Runners -> [step : RunStep \cup {"gone"}, at : 0..Len(topic),
                                 mover : Movers \cup {Nobody}]]
      /\ db[JobOf(r)] = "succeed" => JobOf(r) \in moved
      /\ runner[r].step \in MovedStep => JobOf(r) \in moved
  BY RunFrame DEF Inv0, RecordTypes, RunnerTypes, MovedBefore
<1>1. CASE PrepareFails(r) \/ Prepared(r) \/ BeginMigration(r) \/ WriteProgress(r)
  BY <1>0, <1>1 DEF PrepareFails, Prepared, BeginMigration, WriteProgress
<1>2. CASE NothingToMove(r) \/ AllMoved(r)
  <2>1. moved' = moved \cup {JobOf(r)}
    BY <1>2 DEF NothingToMove, AllMoved
  <2>. QED  BY <2>1
<1>3. CASE SomeNotMoved(r) \/ WriteFailed(r)
  BY <1>0, <1>3 DEF SomeNotMoved, WriteFailed, OutcomeOfFailure
<1>4. CASE WriteSucceed(r) \/ MigrateResult(r) \/ NoResult(r)
  BY <1>0, <1>4 DEF WriteSucceed, MigrateResult, NoResult
<1>5. CASE BeginAnalysis(r) \/ AnalysisFails(r) \/ GetResult(r)
  BY <1>0, <1>5 DEF BeginAnalysis, AnalysisFails, GetResult
<1>. QED  BY <1>1, <1>2, <1>3, <1>4, <1>5 DEF RunnerStep, RunJob

LEMMA MovedBeforeRunner ==
  ASSUME Inv0, MovedBefore, NEW r \in Runners, RunnerStep(r)
  PROVE  MovedBefore'
<1>0. /\ UNCHANGED topic /\ JobOf(r) \in Jobs
      /\ db \in [Jobs -> Recorded \cup {"absent"}]
      /\ runner \in [Runners -> [step : RunStep \cup {"gone"}, at : 0..Len(topic),
                                 mover : Movers \cup {Nobody}]]
  BY RunFrame DEF Inv0, RecordTypes, RunnerTypes
<1>1. \A j \in Jobs : j # JobOf(r) => db'[j] = db[j]
  <2>1. UNCHANGED db \/ \E s \in Recorded : db' = [db EXCEPT ![JobOf(r)] = s]
    BY <1>0, RunFrame, Zenon
  <2>. QED  BY <1>0, <2>1
<1>2. \A q \in Runners : q # r => runner'[q] = runner[q]
  <2>1. \/ UNCHANGED runner
        \/ runner' = [runner EXCEPT ![r] = Gone]
        \/ \E s \in RunStep : runner' = [runner EXCEPT ![r].step = s]
    BY <1>0, RunFrame, Zenon
  <2>. QED  BY <1>0, <2>1
<1>3. ASSUME NEW j \in Jobs, db'[j] = "succeed" PROVE j \in moved'
  BY <1>1, <1>3, MovedFrame DEF MovedBefore
<1>4. ASSUME NEW q \in Runners, runner'[q].step \in MovedStep PROVE JobOf(q)' \in moved'
  <2>1. CASE q = r
    <3>1. runner'[r].at = runner[r].at
      BY <1>0, <1>4, <2>1, RunFrame DEF Gone, MovedStep
    <3>. QED  BY <1>0, <1>4, <2>1, <3>1, MovedFrame DEF JobOf
  <2>2. CASE q # r
    BY <1>0, <1>2, <1>4, <2>2, MovedFrame DEF MovedBefore, JobOf
  <2>. QED  BY <2>1, <2>2
<1>. QED  BY <1>3, <1>4 DEF MovedBefore

LEMMA MovedBeforeStep ==
  ASSUME Inv0, MovedBefore, [Next]_vars
  PROVE  MovedBefore'
<1>0. /\ db \in [Jobs -> Recorded \cup {"absent"}]
      /\ runner \in [Runners -> [step : RunStep \cup {"gone"}, at : 0..Len(topic),
                                 mover : Movers \cup {Nobody}]]
  BY DEF Inv0, RecordTypes, RunnerTypes
<1>1. CASE \E r \in Runners : RunnerStep(r)
  BY <1>1, MovedBeforeRunner
\* Steps that write no success and take no goroutine beyond its migration.
<1>2. ASSUME UNCHANGED moved,
             \A j \in Jobs : db'[j] = "succeed" => db[j] = "succeed",
             \A r \in Runners : runner'[r].step \in MovedStep => runner'[r] = runner[r]
      PROVE  MovedBefore'
  <2>1. ASSUME NEW r \in Runners, runner'[r].step \in MovedStep PROVE JobOf(r)' \in moved'
    <3>1. runner'[r] = runner[r] /\ Live(r)
      BY <1>2, <2>1 DEF Live, MovedStep
    <3>2. topic'[runner[r].at] = topic[runner[r].at]
      BY <3>1, JobOfType, TopicGrows DEF Inv0
    <3>. QED  BY <1>2, <2>1, <3>1, <3>2 DEF MovedBefore, JobOf
  <2>. QED  BY <1>2, <2>1 DEF MovedBefore
<1>3. CASE UNCHANGED <<db, runner, moved>>
  BY <1>2, <1>3
<1>4. ASSUME NEW j \in Jobs, RunPlan(j) PROVE MovedBefore'
  <2>1. db' = [db EXCEPT ![j] = "pending"] /\ UNCHANGED <<runner, moved>>
    BY <1>4 DEF RunPlan
  <2>. QED  BY <1>0, <1>2, <2>1
<1>5. ASSUME NEW m \in Movers, StartRunner(m) PROVE MovedBefore'
  <2>1. UNCHANGED <<db, moved>>
    BY <1>5 DEF StartRunner
  <2>2. PICK r \in Runners :
          runner' = [runner EXCEPT ![r] = [step |-> "prepare", at |-> handling[m].at, mover |-> m]]
    BY <1>5 DEF StartRunner
  <2>. QED  BY <1>0, <1>2, <2>1, <2>2 DEF MovedStep
<1>6. ASSUME NEW m \in Movers, Crash(m) PROVE MovedBefore'
  <2>1. /\ UNCHANGED <<db, moved>>
        /\ runner' = [r \in Runners |-> IF runner[r].mover = m THEN Gone ELSE runner[r]]
    BY <1>6 DEF Crash
  <2>. QED  BY <1>0, <1>2, <2>1 DEF Gone, MovedStep
<1>. QED
  BY <1>1, <1>3, <1>4, <1>5, <1>6 DEF Next, RunnerStep, vars, SendJob, SendFails, SendTwice,
     Join, Rebalance, GetJobStatus, HandleMsg, Refuse, Commit, Quiet

\* A record says "succeed" only if some goroutine of the job had moved all there
\* was to move, however often messages and datamovers come and go.
THEOREM SuccessWasMoved == Spec => []SucceedWasMoved
<1>1. Init => MovedBefore
  BY DEF Init, MovedBefore, MovedStep, Gone
<1>2. Inv0 /\ MovedBefore /\ [Next]_vars => MovedBefore'
  BY MovedBeforeStep
<1>3. MovedBefore => SucceedWasMoved
  BY DEF MovedBefore, SucceedWasMoved
<1>. QED  BY <1>1, <1>2, <1>3, InitInv0, Inv0Step, PTL DEF Spec

-----------------------------------------------------------------------------
Handed(k) == k \in called \cup skipped

\* Everything before what is committed or marked, and before the message that
\* a datamover is at, was handed over; of what the owner has received all but
\* the message it is at.
HandedInTurn ==
  /\ \A k \in 1..committed : Handed(k)
  /\ \A k \in 1..marked : Handed(k)
  /\ \A m \in Movers : Busy(m) => \A k \in 1..handling[m].at : Handed(k) \/ k = handling[m].at
  /\ owner # Nobody => \A k \in 1..pos : Handed(k) \/ (Busy(owner) /\ k = handling[owner].at)

LEMMA HandedInTurnStep ==
  ASSUME Inv0, HandedInTurn, [Next]_vars
  PROVE  HandedInTurn'
<1>0. /\ handling \in [Movers -> [at : 0..Len(topic), seen : Recorded \cup {"absent", ""}]]
      /\ owner \in Movers \cup {Nobody} /\ Nobody \notin Movers
      /\ called \subseteq 1..Len(topic) /\ skipped \subseteq 1..Len(topic)
      /\ Len(topic) \in Nat /\ pos \in Nat /\ committed \in Int /\ marked \in Int
  BY Counts, NobodyAssumption DEF Inv0, HandlingTypes, TopicTypes
<1>1. CASE UNCHANGED <<committed, marked, owner, pos, handling, called, skipped>>
  BY <1>1 DEF HandedInTurn, Handed, Busy
<1>2. ASSUME NEW m \in Movers, Join(m) \/ Rebalance(m) PROVE HandedInTurn'
  <2>1. /\ UNCHANGED <<committed, handling, called>> /\ marked' = committed
        /\ pos' = (IF committed = -1 THEN Len(topic) ELSE committed)
        /\ skipped' = IF committed = -1 THEN 1..Len(topic) ELSE skipped
    BY <1>2 DEF Join, Rebalance, ClaimBy, StartPos
  <2>2. \A k : Handed(k) => Handed(k)'
    BY <1>0, <2>1 DEF Handed
  <2>3. \A k \in 1..pos' : Handed(k)'
    BY <1>0, <2>1 DEF Handed, HandedInTurn
  <2>. QED  BY <2>1, <2>2, <2>3 DEF HandedInTurn, Busy
<1>3. ASSUME NEW m \in Movers, GetJobStatus(m) PROVE HandedInTurn'
  <2>0. pos \in Nat
    BY <1>0
  <2>1. /\ UNCHANGED <<committed, marked, owner, called, skipped>>
        /\ owner = m /\ ~Busy(m) /\ pos' = pos + 1
    BY <1>3 DEF GetJobStatus
  <2>2. PICK s \in StatusRead(topic[pos + 1]) :
          handling' = [handling EXCEPT ![m] = [at |-> pos + 1, seen |-> s]]
    BY <1>3 DEF GetJobStatus
  <2>3. handling'[m].at = pos + 1 /\ \A n \in Movers : n # m => handling'[n] = handling[n]
    BY <1>0, <2>2
  <2>4. \A k \in 1..pos : Handed(k)
    BY <1>0, <2>1 DEF HandedInTurn
  <2>5. \A k \in 1..(pos + 1) : k \in 1..pos \/ k = pos + 1
    BY <2>0
  <2>6. Busy(m)'
    BY <2>0, <2>3 DEF Busy
  <2>. QED  BY <1>0, <2>1, <2>3, <2>4, <2>5, <2>6 DEF HandedInTurn, Handed, Busy
<1>4. ASSUME NEW m \in Movers, HandleMsg(m) PROVE HandedInTurn'
  <2>1. /\ Busy(m) /\ UNCHANGED <<committed, owner, pos, skipped>>
        /\ called' = called \cup {handling[m].at}
        /\ handling' = [handling EXCEPT ![m] = Idle]
        /\ marked' \in {marked, handling[m].at}
    BY <1>4 DEF HandleMsg, StartRunner, Refuse, MarkedAfter
  <2>2. \A k : Handed(k) \/ k = handling[m].at => Handed(k)'
    BY <2>1 DEF Handed
  <2>3. \A k \in 1..handling[m].at : Handed(k)'
    BY <2>1, <2>2 DEF HandedInTurn
  <2>4. ~Busy(m)' /\ \A n \in Movers : n # m => handling'[n] = handling[n]
    BY <1>0, <2>1 DEF Busy, Idle
  <2>5. ASSUME owner # Nobody, NEW k \in 1..pos
        PROVE  Handed(k)' \/ (handling'[owner].at # 0 /\ k = handling'[owner].at)
    <3>1. owner \in Movers /\ (Handed(k) \/ (handling[owner].at # 0 /\ k = handling[owner].at))
      BY <1>0, <2>5 DEF HandedInTurn, Busy
    <3>2. CASE owner = m
      BY <2>2, <3>1, <3>2
    <3>3. CASE owner # m
      BY <2>2, <2>4, <3>1, <3>3
    <3>. QED  BY <3>2, <3>3
  <2>. QED  BY <2>1, <2>2, <2>3, <2>4, <2>5 DEF HandedInTurn, Busy
<1>5. ASSUME NEW m \in Movers, Crash(m) PROVE HandedInTurn'
  <2>1. /\ UNCHANGED <<committed, marked, pos, called, skipped>>
        /\ handling' = [handling EXCEPT ![m] = Idle]
        /\ owner' = IF owner = m THEN Nobody ELSE owner
    BY <1>5 DEF Crash
  <2>2. ~Busy(m)' /\ \A n \in Movers : n # m => handling'[n] = handling[n]
    BY <1>0, <2>1 DEF Busy, Idle
  <2>. QED  BY <1>0, <2>1, <2>2 DEF HandedInTurn, Handed, Busy
<1>6. CASE Commit
  BY <1>6 DEF Commit, HandedInTurn, Handed, Busy
<1>7. CASE \E r \in Runners : RunnerStep(r)
  BY <1>1, <1>7, RunFrame
<1>. QED
  BY <1>1, <1>2, <1>3, <1>4, <1>5, <1>6, <1>7 DEF Next, RunnerStep, vars, consumer, RunPlan,
     SendJob, SendFails, SendTwice, Quiet

\* Nothing is committed that HandleMsg has not had or a group without a commit
\* has not skipped, through crashes, rebalances and datamovers that go on with
\* a message when the partition is no longer theirs.
THEOREM CommitsWereCalled == Spec => []CommittedWasCalled
<1>1. ASSUME Init PROVE HandedInTurn
  <2>1. committed = -1 /\ marked = -1 /\ pos = 0 /\ \A m \in Movers : ~Busy(m)
    BY <1>1 DEF Init, Busy, Idle
  <2>2. (\A k \in 1..-1 : Handed(k)) /\ \A k \in 1..0 : FALSE
    OBVIOUS
  <2>. QED  BY <2>1, <2>2 DEF HandedInTurn
<1>2. Inv0 /\ HandedInTurn /\ [Next]_vars => HandedInTurn'
  BY HandedInTurnStep
<1>3. HandedInTurn => CommittedWasCalled
  BY DEF HandedInTurn, Handed, CommittedWasCalled
<1>. QED  BY <1>1, <1>2, <1>3, InitInv0, Inv0Step, PTL DEF Spec
=============================================================================
