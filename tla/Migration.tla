----------------------------- MODULE Migration -----------------------------
(***************************************************************************)
(* doMigration and the goroutines it starts in the datamover               *)
(* (datamover/pkg/drivers/https/migration.go).                             *)
(*                                                                         *)
(* One goroutine (doMove) starts a mover per object and then puts a token  *)
(* in the buffered channel th; a mover transfers its object, registers it  *)
(* in the destination bucket, deletes the source, reports its size (or -1) *)
(* on the unbuffered channel capa and takes a token out of th.  The job's  *)
(* own goroutine collects the reports, writes the progress to the database *)
(* and closes both channels when it has counted every object or when the   *)
(* timer of its select fires.  A send on a closed channel and a concurrent *)
(* write of the shared location map end the whole process.                 *)
(***************************************************************************)
EXTENDS Integers, FiniteSets, FiniteSetsExt

CONSTANTS
  N,            \* number of objects to move, len(objs)
  SimuRoutines, \* capacity of the channel th (10 in the code)
  Size,         \* size of each object, in the order of objs
  BigJob,       \* from this many objects on, progress is written now and then (100)
  Steps,        \* ... namely this many times (10)
  Requests      \* the kinds of move requests considered

Obj == 1..N
TotalCapacity == MapThenSumSet(LAMBDA o : Size[o], Obj)

ASSUME NAssumption == N \in Nat \ {0} /\ SimuRoutines \in Nat \ {0}
ASSUME SizeAssumption == Size \in [Obj -> Nat]
\* prepare4Run ends a job with nothing to move before doMigration is called
ASSUME CapacityAssumption == TotalCapacity \in Nat \ {0}
ASSUME StepsAssumption == Steps \in Nat \ {0} /\ BigJob \in Nat /\ Steps <= BigJob

\* What matters of a moveRequest: is the source kept, and are the buckets
\* virtual buckets with metadata or plain buckets of a cloud?
MoveRequest == [remainSrc : BOOLEAN, srcVir : BOOLEAN, destVir : BOOLEAN]
ASSUME RequestsAssumption == Requests \subseteq MoveRequest

VARIABLES
  req,       \* the request, mvReq
  own,       \* the objects stored in another backend than their bucket's
  pc,        \* what the mover of each object does next
  failed,    \* the objects whose mover has set succeed to false
  src,       \* the objects whose data is in the source backend
  srcMeta,   \* ... and whose metadata is in the source bucket
  dest,      \* the objects whose data is in the destination backend
  destMeta,  \* ... and whose metadata is in the destination bucket
  started,   \* how many movers doMove has started
  acquired,  \* how many tokens doMove has put in th
  th,        \* tokens in th
  col,       \* what the collecting goroutine does next
  count, passed, capacity, tmout,  \* its local variables
  j,         \* the progress fields of its job record
  db,        \* the job record in the database
  crash      \* why the process died, "none" while it lives

store == <<src, srcMeta, dest, destMeta>>
locals == <<count, passed, capacity, tmout>>
vars == <<req, own, pc, failed, src, srcMeta, dest, destMeta, started, acquired,
          th, col, count, passed, capacity, tmout, j, db, crash>>

MoverStep == {"idle", "refresh", "transfer", "meta", "delete", "delmeta",
              "report", "release", "exited"}
Progress == [passed : Nat, capacity : Nat, progress : Nat]
NoProgress == [passed |-> 0, capacity |-> 0, progress |-> 0]

-----------------------------------------------------------------------------
(* Helpers.  A name with an underscore is a faulty variant of the definition *)
(* that follows it; nothing in the specification uses one.                   *)

Alive == crash = "none"

\* The collector closes both channels when it leaves its loop.
Closed == col \in {"return", "returned"}

\* Goroutines that exist: started and not yet past the receive from th.
InFlight == {o \in Obj : pc[o] \notin {"idle", "exited"}}
\* Movers whose report the collector has received.
Reported == {o \in Obj : pc[o] \in {"release", "exited"}}

Goto(o, step) == pc' = [pc EXCEPT ![o] = step]

\* doMove takes the next object once the token of the last one is in th.
DoMoveReady_NoWait == started < N
DoMoveReady == started < N /\ started = acquired

\* th <- 1 waits while the channel is full.
RoomInTh_OneMore == th <= SimuRoutines
RoomInTh == th < SimuRoutines

\* if succeed && !remainSource
MayDelete_AnyOutcome(ok) == ~req.remainSrc
MayDelete(ok) == ok /\ ~req.remainSrc

\* deleteObj leaves the metadata alone when the data could not be deleted.
MayDeleteMeta_AnyOutcome(ok) == req.srcVir
MayDeleteMeta(ok) == ok /\ req.srcVir

AfterMeta(ok) == IF MayDelete(ok) THEN "delete" ELSE "report"
AfterTransfer(ok) == IF ok /\ req.destVir THEN "meta" ELSE AfterMeta(ok)

\* What a mover sends on capa, and which values count as moved.
Report_FailureAsZero(o) == IF o \in failed THEN 0 ELSE Size[o]
Report(o) == IF o \in failed THEN -1 ELSE Size[o]
Passes_Positive(c) == c > 0
Passes(c) == c >= 0

CapacityAfter_Last(c) == c
CapacityAfter(c) == capacity + c

\* A mover takes a token; from a closed channel it receives at once.
TokenToTake == th > 0 \/ Closed
TokensLeft_KeptOnFailure(o) == IF th > 0 /\ o \notin failed THEN th - 1 ELSE th
TokensLeft(o) == IF th > 0 THEN th - 1 ELSE 0

\* The collector has heard of every object.
AllCounted_OneEarly == count >= N - 1
AllCounted == count >= N

\* Progress is written for every report of a small job, and for the reports
\* that complete a tenth of a big one.
WritesProgress == N < BigJob \/ count = N \/ count % (N \div Steps) = 0
Percent == (capacity * 100) \div TotalCapacity
CurrentProgress == [passed |-> passed, capacity |-> capacity, progress |-> Percent]

\* UpdateJob overwrites only the fields that are not zero.
NonZero(new, old) == IF new # 0 THEN new ELSE old
Merge(new) == [passed   |-> NonZero(new.passed, db.prog.passed),
               capacity |-> NonZero(new.capacity, db.prog.capacity),
               progress |-> NonZero(new.progress, db.prog.progress)]

Init ==
  /\ req \in Requests
  /\ own \in IF req.srcVir THEN SUBSET Obj ELSE {{}}
  /\ pc = [o \in Obj |-> "idle"]
  /\ failed = {}
  /\ src = Obj
  /\ srcMeta = IF req.srcVir THEN Obj ELSE {}
  /\ dest = {} /\ destMeta = {}
  /\ started = 0 /\ acquired = 0
  /\ th = 0
  /\ col = "select"
  /\ count = 0 /\ passed = 0 /\ capacity = 0 /\ tmout = FALSE
  /\ j = NoProgress
  /\ db = [status |-> "running", prog |-> NoProgress]
  /\ crash = "none"

-----------------------------------------------------------------------------
(* doMove *)

\* go move(...): the mover exists before its token is in th.
StartMover ==
  /\ Alive /\ DoMoveReady
  /\ started' = started + 1
  /\ Goto(started + 1, "refresh")
  /\ UNCHANGED <<req, own, failed, store, acquired, th, col, locals, j, db, crash>>

AcquireToken ==
  /\ Alive /\ ~Closed
  /\ acquired < started /\ RoomInTh
  /\ acquired' = acquired + 1
  /\ th' = th + 1
  /\ UNCHANGED <<req, own, pc, failed, store, started, col, locals, j, db, crash>>

Panic(why) ==
  /\ crash' = why
  /\ UNCHANGED <<req, own, pc, failed, store, started, acquired, th, col, locals, j, db>>

AcquireOnClosed ==
  /\ Alive /\ Closed /\ acquired < started
  /\ Panic("send on closed th")

-----------------------------------------------------------------------------
(* move, for object o *)

\* Where the object is: its bucket's backend or one looked up (and remembered
\* in the shared map) because the object names another.
RefreshSrcLocation(o) ==
  /\ Alive /\ pc[o] = "refresh"
  /\ \/ Goto(o, "transfer") /\ UNCHANGED failed
     \/ /\ o \in own
        /\ failed' = failed \cup {o}
        /\ Goto(o, AfterTransfer(FALSE))
  /\ UNCHANGED <<req, own, store, started, acquired, th, col, locals, j, db, crash>>

\* The map is neither locked nor per mover: two movers inside it at once are a
\* data race that the Go runtime may turn into a fatal error.
ConcurrentMapAccess ==
  /\ Alive
  /\ Cardinality({o \in own : pc[o] = "refresh"}) > 1
  /\ Panic("concurrent map access")

\* moveObj or multipartMoveObj.  An empty object is not copied at all; a
\* failed upload may have stored the object all the same.
Transfer(o) ==
  /\ Alive /\ pc[o] = "transfer"
  /\ \/ /\ dest' = IF Size[o] > 0 THEN dest \cup {o} ELSE dest
        /\ Goto(o, AfterTransfer(TRUE))
        /\ UNCHANGED failed
     \/ /\ Size[o] > 0
        /\ dest' \in {dest, dest \cup {o}}
        /\ failed' = failed \cup {o}
        /\ Goto(o, AfterTransfer(FALSE))
  /\ UNCHANGED <<req, own, src, srcMeta, destMeta, started, acquired, th,
                 col, locals, j, db, crash>>

\* s3client.CreateObject; its error is only logged.
AddMetadata(o) ==
  /\ Alive /\ pc[o] = "meta"
  /\ destMeta' \in {destMeta, destMeta \cup {o}}
  /\ Goto(o, AfterMeta(TRUE))
  /\ UNCHANGED <<req, own, failed, src, srcMeta, dest, started, acquired, th,
                 col, locals, j, db, crash>>

\* deleteObj: first the data ...
DeleteData(o) ==
  /\ Alive /\ pc[o] = "delete"
  /\ \E ok \in BOOLEAN :
       /\ src' \in IF ok THEN {src \ {o}} ELSE {src, src \ {o}}
       /\ Goto(o, IF MayDeleteMeta(ok) THEN "delmeta" ELSE "report")
  /\ UNCHANGED <<req, own, failed, srcMeta, dest, destMeta, started, acquired, th,
                 col, locals, j, db, crash>>

\* ... then the metadata.  move ignores what deleteObj returns.
DeleteMetadata(o) ==
  /\ Alive /\ pc[o] = "delmeta"
  /\ srcMeta' \in {srcMeta, srcMeta \ {o}}
  /\ Goto(o, "report")
  /\ UNCHANGED <<req, own, failed, src, dest, destMeta, started, acquired, th,
                 col, locals, j, db, crash>>

ReportOnClosed(o) ==
  /\ Alive /\ Closed /\ pc[o] = "report"
  /\ Panic("send on closed capa")

\* t := <-th
ReleaseToken(o) ==
  /\ Alive /\ pc[o] = "release" /\ TokenToTake
  /\ th' = TokensLeft(o)
  /\ Goto(o, "exited")
  /\ UNCHANGED <<req, own, failed, store, started, acquired, col, locals, j, db, crash>>

-----------------------------------------------------------------------------
(* The loop of doMigration, and what runjob makes of its result. *)

\* c := <-capa meets the send of mover o.
Collect(o) ==
  /\ Alive /\ col = "select" /\ ~Closed /\ pc[o] = "report"
  /\ Goto(o, "release")
  /\ count' = count + 1
  /\ IF Passes(Report(o))
     THEN passed' = passed + 1 /\ capacity' = CapacityAfter(Report(o))
     ELSE UNCHANGED <<passed, capacity>>
  /\ col' = "update"
  /\ UNCHANGED <<req, own, failed, store, started, acquired, th, tmout, j, db, crash>>

\* The progress update, whose error is ignored, and the test that ends the loop.
UpdateProgress ==
  /\ Alive /\ col = "update"
  /\ IF WritesProgress
     THEN /\ j' = CurrentProgress
          /\ db' \in {db, [db EXCEPT !.prog = Merge(j')]}
     ELSE UNCHANGED <<j, db>>
  /\ col' = IF AllCounted THEN "return" ELSE "select"
  /\ UNCHANGED <<req, own, pc, failed, store, started, acquired, th, locals, crash>>

\* time.After is armed anew in every turn of the loop, so it measures the time
\* since the last report and can fire in any turn.
TimerArmed_Never == FALSE
TimerArmed == col = "select"
TimeOut ==
  /\ Alive /\ TimerArmed
  /\ tmout' = TRUE
  /\ col' = "return"
  /\ UNCHANGED <<req, own, pc, failed, store, started, acquired, th, count, passed, capacity,
                 j, db, crash>>

\* if passedCount < totalObjs
Verdict_SomePassed == IF passed = 0 THEN "failed" ELSE "succeed"
Verdict == IF passed < N THEN "failed" ELSE "succeed"

\* updateJob writes the verdict of a job without an analysis step; it gives up
\* after three failed attempts.
Return ==
  /\ Alive /\ col = "return"
  /\ j' = [j EXCEPT !.passed = passed]
  /\ db' \in {db, [status |-> Verdict, prog |-> Merge(j')]}
  /\ col' = "returned"
  /\ UNCHANGED <<req, own, pc, failed, store, started, acquired, th, locals, crash>>

-----------------------------------------------------------------------------

\* Nothing is left to do: the process is dead, or the job and its goroutines ended.
Terminated ==
  /\ ~Alive \/ (col = "returned" /\ acquired = N /\ InFlight = {})
  /\ UNCHANGED vars

DoMove == StartMover \/ AcquireToken \/ AcquireOnClosed
MoveOn(o) == \/ RefreshSrcLocation(o) \/ AddMetadata(o) \/ DeleteData(o)
             \/ DeleteMetadata(o) \/ ReportOnClosed(o) \/ ReleaseToken(o)
Collector == (\E o \in Obj : Collect(o)) \/ UpdateProgress \/ Return

Next ==
  \/ DoMove
  \/ \E o \in Obj : MoveOn(o) \/ Transfer(o)
  \/ ConcurrentMapAccess
  \/ Collector \/ TimeOut
  \/ Terminated

Spec == Init /\ [][Next]_vars

\* Goroutines that can run do run.  Neither the timer of the select nor the end
\* of a transfer is promised here (no mover sets a deadline on its calls): the
\* liveness properties say which of the two they rely on.
GoroutinesRun ==
  WF_vars(DoMove) /\ WF_vars(Collector) /\ \A o \in Obj : WF_vars(MoveOn(o))
LiveSpec == Spec /\ GoroutinesRun
TimerFires == WF_vars(TimeOut)
TransfersEnd == \A o \in Obj : WF_vars(Transfer(o))

-----------------------------------------------------------------------------
(* What a batch of moves promises, and how this implements it: an object     *)
(* counts as copied when its mover has finished the transfer without error.  *)

Moved == {o \in Obj \ failed : pc[o] \notin {"idle", "refresh", "transfer"}}
Batch == INSTANCE MoveBatch WITH
           Items <- Obj, copied <- Moved, removed <- Obj \ src, verdict <- db.status

\* The job as JobPipeline sees it: a message that a datamover has handed to
\* runjob, which migrates until the loop is left.
Runjob ==
  IF ~Alive \/ col = "returned" THEN [step |-> "gone", at |-> 0, mover |-> "nobody"]
  ELSE [at |-> 1, mover |-> "datamover",
        step |-> IF ~Closed THEN "migrate" ELSE IF passed < N THEN "fail" ELSE "succeed"]
Pipeline == INSTANCE JobPipeline WITH
              Jobs <- {"job"}, Kind <- [i \in {"job"} |-> "none"], Movers <- {"datamover"},
              Nobody <- "nobody", Runners <- {"runjob"}, MaxTopic <- 1, Faults <- {"db", "crash"},
              db <- [i \in {"job"} |-> db.status], runner <- [r \in {"runjob"} |-> Runjob],
              moved <- IF Closed /\ passed >= N THEN {"job"} ELSE {},
              owner <- IF Alive THEN "datamover" ELSE "nobody",
              handling <- [m \in {"datamover"} |-> [at |-> 0, seen |-> ""]],
              sending <- {}, topic <- <<"job">>, committed <- 1, pos <- 1, marked <- 1,
              called <- {1}, skipped <- {}

-----------------------------------------------------------------------------
(* Properties *)

ObjectTypes ==
  /\ req \in MoveRequest
  /\ own \subseteq Obj
  /\ pc \in [Obj -> MoverStep]
  /\ failed \subseteq Obj
  /\ src \subseteq Obj /\ srcMeta \subseteq Obj
  /\ dest \subseteq Obj /\ destMeta \subseteq Obj
  /\ tmout \in BOOLEAN
  /\ crash \in {"none", "send on closed th", "send on closed capa", "concurrent map access"}
CounterTypes ==
  /\ started \in 0..N /\ acquired \in 0..N
  /\ th \in 0..SimuRoutines
  /\ count \in 0..N /\ passed \in 0..N /\ capacity \in Nat
RecordTypes ==
  /\ col \in {"select", "update", "return", "returned"}
  /\ j \in Progress
  /\ db \in [status : {"running", "succeed", "failed"}, prog : Progress]
TypeOK == ObjectTypes /\ CounterTypes /\ RecordTypes

\* The channel th keeps all but one of the movers waiting: however movers and
\* doMove interleave, and also after the channels are closed, at most one mover
\* more than the capacity of th exists.  (It is one more than the comments at
\* migration.go:72 and 686 say: a mover starts before its token is in th.)
RoutineBound == Cardinality(InFlight) <= SimuRoutines + 1

\* The collector's counters tell the truth about the movers: each report was
\* counted once, as moved exactly when its mover did not fail.
CountsAgree ==
  /\ count = Cardinality(Reported)
  /\ passed = Cardinality(Reported \ failed)

\* A job recorded as succeeded has moved every object, whatever timed out,
\* failed or crashed on the way.
SucceedMeansMoved ==
  db.status = "succeed" =>
    /\ failed = {} /\ Reported = Obj
    /\ \A o \in Obj : Size[o] > 0 => o \in dest

\* The collector's counters are true, and the capacity is that of the objects
\* reported as moved; the record of a job shows all of it when it has succeeded,
\* and 100 percent only when all objects with any bytes have been moved, although
\* updates of the record may have been lost.
RecordAgrees ==
  /\ CountsAgree
  /\ capacity = MapThenSumSet(LAMBDA o : Size[o], Reported \ failed)
  /\ db.status = "succeed" =>
       db.prog = [passed |-> N, capacity |-> TotalCapacity, progress |-> 100]
  /\ db.prog.progress = 100 => \A o \in Obj : Size[o] > 0 => o \in dest

\* The data of an object with any bytes is never in neither place.
NoDataLoss == \A o \in Obj : Size[o] > 0 => o \in src \cup dest

\* Data still in the source bucket can still be found there: metadata is
\* deleted last, also when deletes fail or the process dies between the two.
SourceFindable == req.srcVir => src \subseteq srcMeta

\* Where the closed channels can bite: without a timeout no report is lost to
\* them, and doMove can only be late with the token of its last mover.
PanicOnlyWhenLate ==
  /\ crash = "send on closed capa" => tmout
  /\ crash = "send on closed th" => tmout \/ (started = N /\ acquired = N - 1)

\* What the database shows of a job never goes backwards.
ProgressNeverFalls ==
  [][/\ db'.prog.passed >= db.prog.passed
     /\ db'.prog.capacity >= db.prog.capacity
     /\ db'.prog.progress >= db.prog.progress]_vars

\* The job comes to a verdict even when a transfer hangs for ever, unless the
\* process dies.
JobEnds == TimerFires => <>(col = "returned" \/ ~Alive)

\* When transfers end, the collector hears of all objects without the help of
\* the timer: the two channels cannot block each other.
AllReportsArrive == TransfersEnd => <>(AllCounted \/ tmout \/ ~Alive)

\* Every step of the goroutines is a step of the batch of moves or invisible
\* to it: sources go only after their copies, a verdict falls once, and it is
\* "succeed" only when everything has been copied.
ImplementsBatch == Batch!Spec

\* Every step is one that JobPipeline lets runjob and its process take, or is
\* invisible to it: what the record of a job says while it is migrated, that the
\* job counts as moved and gets its verdict after that, once and in its turn.
ImplementsRunjob == [][Pipeline!Next]_(Pipeline!vars)
=============================================================================
