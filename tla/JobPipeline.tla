---------------------------- MODULE JobPipeline ----------------------------
(***************************************************************************)
(* A job on its way from the dataflow service to its end: the record in    *)
(* the database, the message in the Kafka topic "migration", the consumer  *)
(* group of the datamovers and the goroutines they start for each message. *)
(*                                                                         *)
(* Run (dataflow/pkg/plan/plan.go) stores a pending job and sends a        *)
(* message from a goroutine of its own; the consumer loop of a datamover   *)
(* (datamover/pkg/kafka/consumer.go) calls HandleMsg, which starts runjob  *)
(* (datamover/pkg/drivers/https/migration.go) if the job is pending; only  *)
(* then the offset is marked, and marked offsets are committed from time   *)
(* to time.  runjob writes the status of the job as it goes.               *)
(***************************************************************************)
EXTENDS Integers, Sequences

CONSTANTS
  Jobs,     \* the jobs that plans may create
  Kind,     \* the assistant work each job asks for after its migration
  Movers,   \* the datamover processes, one consumer group
  Nobody,   \* the owner of the partition when no datamover is
  Runners,  \* the goroutines that may execute runjob at a time
  MaxTopic, \* bound on the length of the topic
  Faults    \* what may go wrong, a subset of FaultNames

\* late: datamovers join after messages were sent;  db: a database call fails;
\* send: a message is never sent;  dup: a retry of the producer stores it twice;
\* crash: a datamover dies;  rebalance: the partition is given to a datamover
\* before its owner has committed what it has marked.
FaultNames == {"late", "db", "send", "dup", "crash", "rebalance"}

ASSUME KindAssumption == Kind \in [Jobs -> {"none", "analysis", "other"}]
ASSUME FaultsAssumption == Faults \subseteq FaultNames
ASSUME NobodyAssumption == Nobody \notin Movers
ASSUME MaxTopicAssumption == MaxTopic \in Nat

VARIABLES
  db,         \* status of each job in the database, "absent" before it is there
  sending,    \* jobs whose sendJob goroutine has not run yet
  topic,      \* the messages of the topic, each the id of a job
  committed,  \* messages the group has committed, -1 before the first commit
  owner,      \* the datamover that consumes the partition, Nobody while there is none
  pos,        \* messages the owner has received or skipped
  marked,     \* messages the owner has marked, -1 when there was no commit
  handling,   \* the message each datamover is in HandleMsg with, and the status read
  runner,     \* the goroutines: what runjob does next, for which message, where
  moved,      \* jobs some runjob has migrated in full (history)
  called,     \* messages HandleMsg has returned for (history)
  skipped     \* messages a joining group has skipped (history)

vars == <<db, sending, topic, committed, owner, pos, marked, handling, runner,
          moved, called, skipped>>
consumer == <<committed, owner, pos, marked, called, skipped>>

Ended == {"succeed", "failed"}
\* "Running" is what package mrs calls it, "running" what the jobs table does.
Recorded == {"pending", "running", "Running"} \cup Ended
RunStep == {"prepare", "begin", "migrate", "succeed", "fail", "analyse",
            "analysed", "getresult", "collect"}

Idle == [at |-> 0, seen |-> ""]
Gone == [step |-> "gone", at |-> 0, mover |-> Nobody]

Busy(m) == handling[m].at # 0
Live(r) == runner[r].step # "gone"
JobOf(r) == topic[runner[r].at]
Plain == {j \in Jobs : Kind[j] = "none"}

\* A write of a job's status; a write that fails is only logged.
Record(j, s) ==
  \/ db' = [db EXCEPT ![j] = s]
  \/ "db" \in Faults /\ UNCHANGED db

Goto(r, step) == runner' = [runner EXCEPT ![r].step = step]
Exit(r) == runner' = [runner EXCEPT ![r] = Gone]

-----------------------------------------------------------------------------
Init ==
  /\ db = [j \in Jobs |-> "absent"]
  /\ sending = {} /\ topic = <<>>
  /\ committed = -1 /\ marked = -1 /\ pos = 0
  /\ owner \in IF "late" \in Faults THEN {Nobody} ELSE Movers
  /\ handling = [m \in Movers |-> Idle]
  /\ runner = [r \in Runners |-> Gone]
  /\ moved = {} /\ called = {} /\ skipped = {}

-----------------------------------------------------------------------------
(* The dataflow service and its producer.                                  *)

\* Run stores the job and leaves the message to a goroutine.  When CreateJob
\* fails there is neither, and the caller gets the new id all the same.
RunPlan(j) ==
  /\ db[j] = "absent"
  /\ db' = [db EXCEPT ![j] = "pending"]
  /\ sending' = sending \cup {j}
  /\ UNCHANGED <<topic, consumer, handling, runner, moved>>

\* A job whose message is stored is not sent again.
Unsent_Retry(j) == sending
Unsent(j) == sending \ {j}

SendJob(j) ==
  /\ j \in sending /\ Len(topic) < MaxTopic
  /\ sending' = Unsent(j)
  /\ topic' = Append(topic, j)
  /\ UNCHANGED <<db, consumer, handling, runner, moved>>

\* Nobody looks at the error of sendJob, and a crash of dataflow is the same.
SendFails(j) ==
  /\ "send" \in Faults /\ j \in sending
  /\ sending' = sending \ {j}
  /\ UNCHANGED <<db, topic, consumer, handling, runner, moved>>

\* The acknowledgement was lost, the producer sends again.
SendTwice(j) ==
  /\ "dup" \in Faults /\ j \in sending /\ Len(topic) + 1 < MaxTopic
  /\ sending' = Unsent(j)
  /\ topic' = Append(Append(topic, j), j)
  /\ UNCHANGED <<db, consumer, handling, runner, moved>>

-----------------------------------------------------------------------------
(* The consumer group.  Offsets.Initial is OffsetNewest: without a commit a  *)
(* consumer starts behind the last message.                                  *)

StartPos == IF committed = -1 THEN Len(topic) ELSE committed

ClaimBy(m) ==
  /\ owner' = m
  /\ pos' = StartPos
  /\ marked' = committed
  /\ skipped' = IF committed = -1 THEN 1..Len(topic) ELSE skipped

Join(m) ==
  /\ owner = Nobody
  /\ ClaimBy(m)
  /\ UNCHANGED <<db, sending, topic, committed, handling, runner, moved, called>>

Rebalance(m) ==
  /\ "rebalance" \in Faults /\ owner # Nobody
  /\ ClaimBy(m)
  /\ UNCHANGED <<db, sending, topic, committed, handling, runner, moved, called>>

Commit ==
  /\ owner # Nobody /\ marked > committed
  /\ committed' = marked
  /\ UNCHANGED <<db, sending, topic, owner, pos, marked, handling, runner, moved,
                 called, skipped>>

\* A process dies with its goroutines; its partition is free.
Crash(m) ==
  /\ "crash" \in Faults
  /\ handling' = [handling EXCEPT ![m] = Idle]
  /\ runner' = [r \in Runners |-> IF runner[r].mover = m THEN Gone ELSE runner[r]]
  /\ owner' = IF owner = m THEN Nobody ELSE owner
  /\ UNCHANGED <<db, sending, topic, committed, pos, marked, moved, called, skipped>>

-----------------------------------------------------------------------------
(* LoopConsume and HandleMsg.                                              *)

\* A database error reads as the empty status.
StatusRead(j) == {db[j]} \cup (IF "db" \in Faults THEN {""} ELSE {})

\* The offset of a message is marked when HandleMsg has accepted it.
MayStart_Unread(m) == handling[m].seen # ""
MayStart(m) == handling[m].seen = "pending"
MarkedAfter_Next(m) ==
  IF m = owner /\ handling[m].at < Len(topic) THEN handling[m].at + 1 ELSE marked
MarkedAfter(m) ==
  IF m = owner /\ handling[m].at > marked THEN handling[m].at ELSE marked

GetJobStatus(m) ==
  /\ owner = m /\ ~Busy(m) /\ pos < Len(topic)
  /\ pos' = pos + 1
  /\ \E s \in StatusRead(topic[pos + 1]) :
       handling' = [handling EXCEPT ![m] = [at |-> pos + 1, seen |-> s]]
  /\ UNCHANGED <<db, sending, topic, committed, owner, marked, runner, moved,
                 called, skipped>>

StartRunner(m) ==
  /\ Busy(m) /\ MayStart(m)
  /\ \E r \in Runners :
       /\ ~Live(r)
       /\ runner' = [runner EXCEPT ![r] =
                       [step |-> "prepare", at |-> handling[m].at, mover |-> m]]
  /\ marked' = MarkedAfter(m)
  /\ called' = called \cup {handling[m].at}
  /\ handling' = [handling EXCEPT ![m] = Idle]
  /\ UNCHANGED <<db, sending, topic, committed, owner, pos, moved, skipped>>

Refuse(m) ==
  /\ Busy(m) /\ ~MayStart(m)
  /\ called' = called \cup {handling[m].at}
  /\ handling' = [handling EXCEPT ![m] = Idle]
  /\ UNCHANGED <<db, sending, topic, committed, owner, pos, marked, runner, moved,
                 skipped>>

-----------------------------------------------------------------------------
(* runjob.                                                                 *)

\* Where runjob goes after a migration that moved every object.
AfterMigration_Silent(j) == IF Kind[j] = "analysis" THEN {"analyse"} ELSE {}
AfterMigration(j) ==
  CASE Kind[j] = "none" -> {"succeed"}
    [] Kind[j] = "analysis" -> {"analyse"}
    [] Kind[j] = "other" -> {}          \* returns, the job stays running

\* What a failed migration is recorded as.
OutcomeOfFailure_Succeed == "succeed"
OutcomeOfFailure_Misspelt == "fail"
OutcomeOfFailure == "failed"

\* prepare4Run: connectors or objects cannot be had, or nothing needs moving,
\* or the job runs.  The result is written once.
PrepareFails(r) ==
  /\ runner[r].step = "prepare"
  /\ Record(JobOf(r), "failed") /\ Exit(r)
  /\ UNCHANGED <<sending, topic, consumer, handling, moved>>

NothingToMove(r) ==
  /\ runner[r].step = "prepare"
  /\ Record(JobOf(r), "succeed") /\ Exit(r)
  /\ moved' = moved \cup {JobOf(r)}
  /\ UNCHANGED <<sending, topic, consumer, handling>>

Prepared(r) ==
  /\ runner[r].step = "prepare"
  /\ Record(JobOf(r), "running") /\ Goto(r, "begin")
  /\ UNCHANGED <<sending, topic, consumer, handling, moved>>

BeginMigration(r) ==
  /\ runner[r].step = "begin"
  /\ Record(JobOf(r), "running") /\ Goto(r, "migrate")
  /\ UNCHANGED <<sending, topic, consumer, handling, moved>>

\* Every progress update writes the whole record, its status included.
WriteProgress(r) ==
  /\ runner[r].step = "migrate"
  /\ Record(JobOf(r), "running")
  /\ UNCHANGED <<sending, topic, consumer, handling, runner, moved>>

AllMoved(r) ==
  /\ runner[r].step = "migrate"
  /\ IF AfterMigration(JobOf(r)) = {}
     THEN Exit(r)
     ELSE \E s \in AfterMigration(JobOf(r)) : Goto(r, s)
  /\ moved' = moved \cup {JobOf(r)}
  /\ UNCHANGED <<db, sending, topic, consumer, handling>>

SomeNotMoved(r) ==
  /\ runner[r].step = "migrate"
  /\ Goto(r, "fail")
  /\ UNCHANGED <<db, sending, topic, consumer, handling, moved>>

WriteFailed(r) ==
  /\ runner[r].step = "fail"
  /\ Record(JobOf(r), OutcomeOfFailure) /\ Exit(r)
  /\ UNCHANGED <<sending, topic, consumer, handling, moved>>

WriteSucceed(r) ==
  /\ runner[r].step = "succeed"
  /\ Record(JobOf(r), "succeed") /\ Exit(r)
  /\ UNCHANGED <<sending, topic, consumer, handling, moved>>

BeginAnalysis(r) ==
  /\ runner[r].step = "analyse"
  /\ Record(JobOf(r), "Running") /\ Goto(r, "analysed")
  /\ UNCHANGED <<sending, topic, consumer, handling, moved>>

\* The handler always fails: either the storage has none, or createAnalysisJob
\* decodes its answer into a value that is not a pointer.  asistHandle drops
\* the error, so the result is fetched all the same.
AnalysisFails(r) ==
  /\ runner[r].step = "analysed"
  /\ Record(JobOf(r), "failed") /\ Goto(r, "getresult")
  /\ UNCHANGED <<sending, topic, consumer, handling, moved>>

GetResult(r) ==
  /\ runner[r].step = "getresult"
  /\ Record(JobOf(r), "running") /\ Goto(r, "collect")
  /\ UNCHANGED <<sending, topic, consumer, handling, moved>>

\* dataAnalysisPostHandle returns an error that nobody records.
NoResult(r) ==
  /\ runner[r].step = "collect"
  /\ Exit(r)
  /\ UNCHANGED <<db, sending, topic, consumer, handling, moved>>

MigrateResult(r) ==
  /\ runner[r].step = "collect"
  /\ \E s \in Ended : Record(JobOf(r), s)
  /\ Exit(r)
  /\ UNCHANGED <<sending, topic, consumer, handling, moved>>

-----------------------------------------------------------------------------
RunJob(r) ==
  \/ PrepareFails(r) \/ NothingToMove(r) \/ Prepared(r) \/ BeginMigration(r)
  \/ AllMoved(r) \/ SomeNotMoved(r) \/ WriteFailed(r) \/ WriteSucceed(r)
  \/ BeginAnalysis(r) \/ AnalysisFails(r) \/ GetResult(r) \/ NoResult(r)
  \/ MigrateResult(r)

HandleMsg(m) == StartRunner(m) \/ Refuse(m)

\* Nothing left to do until the next plan is run.
Quiet ==
  /\ owner # Nobody /\ sending = {} /\ pos = Len(topic)
  /\ \A m \in Movers : ~Busy(m)
  /\ \A r \in Runners : ~Live(r)
  /\ UNCHANGED vars

Next ==
  \/ \E j \in Jobs : RunPlan(j) \/ SendJob(j) \/ SendFails(j) \/ SendTwice(j)
  \/ \E m \in Movers :
       Join(m) \/ Rebalance(m) \/ Crash(m) \/ GetJobStatus(m) \/ HandleMsg(m)
  \/ Commit
  \/ \E r \in Runners : RunJob(r) \/ WriteProgress(r)
  \/ Quiet

Spec == Init /\ [][Next]_vars

\* Goroutines run, the group gets an owner, and a migration comes to an end
\* (Migration!JobEnds); progress updates do not go on for ever.
Fairness ==
  /\ \A j \in Jobs : WF_vars(SendJob(j))
  /\ WF_vars(\E m \in Movers : Join(m))
  /\ \A m \in Movers : WF_vars(GetJobStatus(m)) /\ WF_vars(HandleMsg(m))
  /\ \A r \in Runners : WF_vars(RunJob(r))

LiveSpec == Spec /\ Fairness

-----------------------------------------------------------------------------
(* Properties.                                                             *)

TypeOK ==
  /\ db \in [Jobs -> Recorded \cup {"absent"}]
  /\ sending \subseteq Jobs /\ topic \in Seq(Jobs) /\ Len(topic) <= MaxTopic
  /\ committed \in -1..Len(topic) /\ marked \in -1..Len(topic) /\ pos \in 0..Len(topic)
  /\ owner \in Movers \cup {Nobody}
  /\ handling \in [Movers -> [at : 0..Len(topic), seen : Recorded \cup {"absent", ""}]]
  /\ runner \in [Runners -> [step : RunStep \cup {"gone"}, at : 0..Len(topic),
                             mover : Movers \cup {Nobody}]]
  /\ moved \subseteq Jobs
  /\ called \subseteq 1..Len(topic) /\ skipped \subseteq 1..Len(topic)

\* "Check the status of job, and run it if needed": no job is executed by two
\* goroutines at a time.  True as long as messages are neither stored twice
\* nor delivered again to a group that lives.
AtMostOneRunner ==
  \A r, s \in Runners : Live(r) /\ Live(s) /\ JobOf(r) = JobOf(s) => r = s

\* A job is recorded as succeeded only if one of its runs has moved all there
\* was to move, however often and by whomever it was run.
SucceedWasMoved == \A j \in Jobs : db[j] = "succeed" => j \in moved

\* At least once: what the group has committed was handed to HandleMsg, save
\* the messages that a group without commits skips.
CommittedWasCalled == \A k \in 1..committed : k \in called \cup skipped

\* The records of jobs without assistant work lead the life of JobLife: the
\* verdict of such a job is never revised.
Life == INSTANCE JobLife WITH Jobs <- Plain, status <- [j \in Plain |-> db[j]]
ImplementsLife == Life!Spec

\* Without faults each pending job without assistant work ends for good.
PlainJobsEnd == \A j \in Plain : (db[j] = "pending") ~> [](db[j] \in Ended)
=============================================================================
