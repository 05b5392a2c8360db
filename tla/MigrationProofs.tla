-------------------------- MODULE MigrationProofs --------------------------
(***************************************************************************)
(* Theorems about Migration, for any number of objects and any capacity of *)
(* the channel th.                                                         *)
(***************************************************************************)
EXTENDS Migration, FiniteSetTheorems, WellFoundedInduction, TLAPS

-----------------------------------------------------------------------------
(* The inductive invariant *)

Exited == {o \in Obj : pc[o] = "exited"}

\* doMove starts movers in order and owes at most one token.
SpawnOrder ==
  /\ acquired <= started /\ started <= acquired + 1
  /\ \A o \in Obj : pc[o] = "idle" <=> o > started

\* Every token that left th was taken by a mover that exited.
TokensCovered == acquired <= th + Cardinality(Exited)

\* A mover that failed deletes nothing; one that did not has left its object
\* at the destination before it deletes.
MoverOrder ==
  \A o \in Obj :
    /\ pc[o] \in {"meta", "delete", "delmeta"} => o \notin failed
    /\ pc[o] \in {"idle", "refresh", "transfer"} => o \notin failed
    /\ o \in Moved /\ Size[o] > 0 => o \in dest
    /\ o \notin src => o \in Moved
    /\ req.srcVir /\ o \notin srcMeta => o \notin src
    /\ pc[o] = "delmeta" => o \notin src

\* Without a timeout the collector leaves its loop with everything counted.
CollectorOrder ==
  /\ Closed /\ ~tmout => count = N
  /\ col # "returned" => db.status = "running"
  /\ db.status = "succeed" => passed = N

IInv == /\ TypeOK /\ SpawnOrder /\ TokensCovered /\ CountsAgree
        /\ MoverOrder /\ CollectorOrder /\ PanicOnlyWhenLate

-----------------------------------------------------------------------------
(* Facts about sets of objects *)

LEMMA ObjSets ==
  ASSUME NEW S, S \subseteq Obj
  PROVE  /\ IsFiniteSet(S)
         /\ Cardinality(S) \in 0..N
         /\ Cardinality(S) = N => S = Obj
<1>1. IsFiniteSet(Obj) /\ Cardinality(Obj) = N
  BY FS_Interval, NAssumption DEF Obj
<1>2. IsFiniteSet(S) /\ Cardinality(S) <= Cardinality(Obj)
      /\ (Cardinality(S) = Cardinality(Obj) => S = Obj)
  BY <1>1, FS_Subset
<1>3. Cardinality(S) \in Nat
  BY <1>2, FS_CardinalityType
<1>. QED  BY <1>1, <1>2, <1>3, NAssumption

LEMMA ObjAdd ==
  ASSUME NEW S, S \subseteq Obj, NEW o \in Obj, o \notin S
  PROVE  Cardinality(S \cup {o}) = Cardinality(S) + 1
BY ObjSets, FS_AddElement

-----------------------------------------------------------------------------
(* Type correctness *)

LEMMA InitType == Init => TypeOK
<1>. SUFFICES ASSUME Init PROVE TypeOK
  OBVIOUS
<1>1. ObjectTypes
  BY RequestsAssumption DEF Init, ObjectTypes, MoverStep
<1>2. CounterTypes
  BY NAssumption DEF Init, CounterTypes
<1>3. RecordTypes
  BY DEF Init, RecordTypes, Progress, NoProgress
<1>. QED  BY <1>1, <1>2, <1>3 DEF TypeOK

\* What the collector writes to the database is a progress record.
LEMMA MergeType ==
  ASSUME RecordTypes, NEW new \in Progress
  PROVE  Merge(new) \in Progress
BY DEF Merge, NonZero, Progress, RecordTypes

LEMMA CurrentProgressType ==
  ASSUME CounterTypes
  PROVE  CurrentProgress \in Progress
<1>1. capacity * 100 \in Nat /\ TotalCapacity \in Nat \ {0}
  BY CapacityAssumption DEF CounterTypes
<1>2. \A a \in Nat : \A b \in Nat \ {0} : a \div b \in Nat
  OBVIOUS
<1>3. Percent \in Nat
  BY <1>1, <1>2 DEF Percent
<1>4. passed \in Nat /\ capacity \in Nat
  BY NAssumption DEF CounterTypes
<1>. QED  BY <1>3, <1>4 DEF CurrentProgress, Progress

\* The steps by which a mover works on its object.
WorkOn(o) == \/ RefreshSrcLocation(o) \/ Transfer(o) \/ AddMetadata(o)
             \/ DeleteData(o) \/ DeleteMetadata(o)

LEMMA AfterSteps ==
  ASSUME NEW ok
  PROVE  /\ AfterMeta(ok) \in {"delete", "report"}
         /\ AfterTransfer(ok) \in {"meta", "delete", "report"}
BY DEF AfterMeta, AfterTransfer

\* Work changes where the mover is, the objects and nothing else.
LEMMA WorkFrame ==
  ASSUME NEW o \in Obj, WorkOn(o)
  PROVE  /\ \E s \in {"transfer", "meta", "delete", "delmeta", "report"} :
              pc' = [pc EXCEPT ![o] = s]
         /\ pc[o] \in {"refresh", "transfer", "meta", "delete", "delmeta"}
         /\ failed' \in {failed, failed \cup {o}}
         /\ src' \in {src, src \ {o}} /\ srcMeta' \in {srcMeta, srcMeta \ {o}}
         /\ dest' \in {dest, dest \cup {o}} /\ destMeta' \in {destMeta, destMeta \cup {o}}
         /\ UNCHANGED <<req, own, started, acquired, th, col, locals, j, db, crash>>
<1>1. CASE RefreshSrcLocation(o)
  BY <1>1, AfterSteps DEF RefreshSrcLocation, Goto, store
<1>2. CASE Transfer(o)
  BY <1>2, AfterSteps DEF Transfer, Goto
<1>3. CASE AddMetadata(o)
  BY <1>3, AfterSteps DEF AddMetadata, Goto
<1>4. CASE DeleteData(o)
  BY <1>4 DEF DeleteData, Goto
<1>5. CASE DeleteMetadata(o)
  BY <1>5 DEF DeleteMetadata, Goto
<1>. QED  BY <1>1, <1>2, <1>3, <1>4, <1>5 DEF WorkOn

LEMMA ObjectTypesStep ==
  ASSUME ObjectTypes, [Next]_vars
  PROVE  ObjectTypes'
<1>. USE DEF ObjectTypes
<1>1. CASE StartMover \/ AcquireToken
  BY <1>1 DEF StartMover, AcquireToken, Goto, MoverStep, store, locals
<1>2. CASE AcquireOnClosed \/ ConcurrentMapAccess \/ \E o \in Obj : ReportOnClosed(o)
  BY <1>2 DEF AcquireOnClosed, ConcurrentMapAccess, ReportOnClosed, Panic, store, locals
<1>3. ASSUME NEW o \in Obj, WorkOn(o) PROVE ObjectTypes'
  <2>1. pc' \in [Obj -> MoverStep]
    BY <1>3, WorkFrame DEF MoverStep
  <2>2. failed' \subseteq Obj /\ src' \subseteq Obj /\ srcMeta' \subseteq Obj
        /\ dest' \subseteq Obj /\ destMeta' \subseteq Obj
    <3>1. /\ failed' \in {failed, failed \cup {o}}
          /\ src' \in {src, src \ {o}} /\ srcMeta' \in {srcMeta, srcMeta \ {o}}
          /\ dest' \in {dest, dest \cup {o}} /\ destMeta' \in {destMeta, destMeta \cup {o}}
      BY <1>3, WorkFrame
    <3>. QED  BY <3>1
  <2>. QED  BY <1>3, <2>1, <2>2, WorkFrame DEF locals
<1>4. ASSUME NEW o \in Obj, ReleaseToken(o) \/ Collect(o) PROVE ObjectTypes'
  BY <1>4 DEF ReleaseToken, Collect, Goto, MoverStep, store, locals
<1>5. CASE UpdateProgress \/ TimeOut \/ Return
  BY <1>5 DEF UpdateProgress, TimeOut, Return, store, locals
<1>6. CASE UNCHANGED vars
  BY <1>6 DEF vars
<1>. QED  BY <1>1, <1>2, <1>3, <1>4, <1>5, <1>6
          DEF Next, DoMove, MoveOn, WorkOn, Collector, Terminated

LEMMA RecordTypesStep ==
  ASSUME RecordTypes, CounterTypes, [Next]_vars
  PROVE  RecordTypes'
<1>1. CASE UpdateProgress
  <2>1. j' \in Progress
    BY <1>1, CurrentProgressType DEF UpdateProgress, RecordTypes
  <2>2. db' \in [status : {"running", "succeed", "failed"}, prog : Progress]
    BY <1>1, <2>1, MergeType DEF UpdateProgress, RecordTypes
  <2>3. col' \in {"select", "update", "return", "returned"}
    BY <1>1 DEF UpdateProgress
  <2>. QED  BY <2>1, <2>2, <2>3 DEF RecordTypes
<1>2. CASE Return
  <2>1. j' \in Progress
    BY <1>2, NAssumption DEF Return, RecordTypes, CounterTypes, Progress
  <2>2. Verdict \in {"succeed", "failed"}
    BY DEF Verdict
  <2>3. db' \in [status : {"running", "succeed", "failed"}, prog : Progress]
    BY <1>2, <2>1, <2>2, MergeType DEF Return, RecordTypes
  <2>. QED  BY <1>2, <2>1, <2>3 DEF Return, RecordTypes
<1>3. CASE TimeOut \/ \E o \in Obj : Collect(o)
  BY <1>3 DEF TimeOut, Collect, RecordTypes
<1>4. CASE UNCHANGED <<col, j, db>>
  BY <1>4 DEF RecordTypes
<1>5. CASE \E o \in Obj : WorkOn(o)
  BY <1>4, <1>5, WorkFrame
<1>. QED  BY <1>1, <1>2, <1>3, <1>4, <1>5
          DEF Next, DoMove, MoveOn, WorkOn, Collector, Terminated, vars,
              StartMover, AcquireToken, AcquireOnClosed, ConcurrentMapAccess,
              ReportOnClosed, Panic, ReleaseToken

-----------------------------------------------------------------------------
(* The counters *)

\* A report is counted once.
LEMMA CollectCounts ==
  ASSUME ObjectTypes, CounterTypes, CountsAgree, NEW o \in Obj, Collect(o)
  PROVE  CountsAgree' /\ count' \in 0..N /\ passed' \in 0..N /\ capacity' \in Nat
<1>1. o \notin Reported /\ Reported \subseteq Obj
  BY DEF Collect, Reported
<1>2. Reported' = Reported \cup {o} /\ failed' = failed
  BY DEF Collect, Reported, Goto, ObjectTypes
<1>3. Cardinality(Reported') \in 0..N /\ Cardinality(Reported') = count + 1
  BY <1>1, <1>2, ObjSets, ObjAdd DEF CountsAgree
<1>4. Passes(Report(o)) <=> o \notin failed
  BY SizeAssumption DEF Passes, Report
<1>5. CASE o \notin failed
  <2>1. Reported' \ failed' = (Reported \ failed) \cup {o}
    BY <1>2, <1>5
  <2>2. Cardinality(Reported' \ failed') \in 0..N
        /\ Cardinality(Reported' \ failed') = passed + 1
    BY <1>1, <2>1, ObjSets, ObjAdd DEF CountsAgree
  <2>3. count' = count + 1 /\ passed' = passed + 1 /\ capacity' = capacity + Size[o]
    BY <1>4, <1>5 DEF Collect, CapacityAfter, Report
  <2>4. capacity' \in Nat
    BY <2>3, SizeAssumption DEF CounterTypes
  <2>. QED  BY <1>3, <2>2, <2>3, <2>4 DEF CountsAgree
<1>6. CASE o \in failed
  <2>1. Reported' \ failed' = Reported \ failed
    BY <1>2, <1>6
  <2>2. count' = count + 1 /\ passed' = passed /\ capacity' = capacity
    BY <1>4, <1>6 DEF Collect
  <2>. QED  BY <1>3, <2>1, <2>2 DEF CountsAgree, CounterTypes
<1>. QED  BY <1>5, <1>6

LEMMA CountersStep ==
  ASSUME ObjectTypes, CounterTypes, SpawnOrder, CountsAgree, [Next]_vars
  PROVE  CounterTypes' /\ SpawnOrder' /\ CountsAgree'
<1>1. CASE StartMover
  <2>1. started + 1 \in Obj /\ started' = started + 1 /\ started' \in 0..N
        /\ started = acquired /\ acquired' = acquired
    BY <1>1, NAssumption DEF StartMover, DoMoveReady, CounterTypes, Obj
  <2>2. pc[started + 1] = "idle"
    BY <2>1, NAssumption DEF SpawnOrder, CounterTypes, Obj
  <2>3. pc' = [pc EXCEPT ![started + 1] = "refresh"]
    BY <1>1 DEF StartMover, Goto
  <2>4. \A o \in Obj : pc'[o] = "idle" <=> o > started'
    <3>1. \A o \in Obj : pc'[o] = IF o = started + 1 THEN "refresh" ELSE pc[o]
      BY <2>3 DEF ObjectTypes
    <3>2. \A o \in Obj : o > started + 1 <=> o > started /\ o # started + 1
      BY NAssumption DEF CounterTypes, Obj
    <3>. QED  BY <2>1, <3>1, <3>2 DEF SpawnOrder
  <2>5. SpawnOrder'
    BY <2>1, <2>4 DEF SpawnOrder, CounterTypes
  <2>6. Reported' = Reported /\ failed' = failed
    BY <1>1, <2>1, <2>2, <2>3 DEF StartMover, Reported, ObjectTypes
  <2>7. UNCHANGED <<th, count, passed, capacity>>
    BY <1>1 DEF StartMover, locals
  <2>. QED  BY <2>1, <2>5, <2>6, <2>7 DEF CounterTypes, CountsAgree
<1>2. CASE AcquireToken
  <2>1. acquired' = acquired + 1 /\ acquired < started /\ th' = th + 1 /\ th < SimuRoutines
        /\ UNCHANGED <<pc, failed, started, count, passed, capacity>>
    BY <1>2 DEF AcquireToken, RoomInTh, locals
  <2>2. CounterTypes'
    BY <2>1, NAssumption DEF CounterTypes
  <2>3. SpawnOrder'
    BY <2>1 DEF SpawnOrder, CounterTypes
  <2>. QED  BY <2>1, <2>2, <2>3 DEF CountsAgree, Reported
<1>3. CASE AcquireOnClosed \/ ConcurrentMapAccess \/ \E o \in Obj : ReportOnClosed(o)
  <2>1. UNCHANGED <<pc, failed, started, acquired, th, count, passed, capacity>>
    BY <1>3 DEF AcquireOnClosed, ConcurrentMapAccess, ReportOnClosed, Panic, locals
  <2>. QED  BY <2>1 DEF CounterTypes, SpawnOrder, CountsAgree, Reported
<1>4. ASSUME NEW o \in Obj, WorkOn(o)
      PROVE  CounterTypes' /\ SpawnOrder' /\ CountsAgree'
  <2>1. UNCHANGED <<started, acquired, th, count, passed, capacity>>
    BY <1>4, WorkFrame DEF locals
  <2>2. Reported' = Reported /\ o \notin Reported
    BY <1>4, WorkFrame DEF Reported, ObjectTypes
  <2>3. Reported' \ failed' = Reported \ failed
    BY <1>4, <2>2, WorkFrame
  <2>4. \A p \in Obj : pc'[p] = "idle" <=> pc[p] = "idle"
    BY <1>4, WorkFrame DEF ObjectTypes
  <2>. QED  BY <2>1, <2>2, <2>3, <2>4 DEF CounterTypes, SpawnOrder, CountsAgree
<1>5. ASSUME NEW o \in Obj, ReleaseToken(o)
      PROVE  CounterTypes' /\ SpawnOrder' /\ CountsAgree'
  <2>1. UNCHANGED <<failed, started, acquired, count, passed, capacity>>
        /\ pc[o] = "release" /\ pc' = [pc EXCEPT ![o] = "exited"]
        /\ th' = IF th > 0 THEN th - 1 ELSE 0
    BY <1>5 DEF ReleaseToken, Goto, TokensLeft, store, locals
  <2>2. Reported' = Reported
    BY <2>1 DEF Reported, ObjectTypes
  <2>3. \A p \in Obj : pc'[p] = "idle" <=> pc[p] = "idle"
    BY <2>1 DEF ObjectTypes
  <2>4. th' \in 0..SimuRoutines
    BY <2>1, NAssumption DEF CounterTypes
  <2>. QED  BY <2>1, <2>2, <2>3, <2>4 DEF CounterTypes, SpawnOrder, CountsAgree
<1>6. ASSUME NEW o \in Obj, Collect(o)
      PROVE  CounterTypes' /\ SpawnOrder' /\ CountsAgree'
  <2>1. UNCHANGED <<started, acquired, th>> /\ pc[o] = "report"
        /\ pc' = [pc EXCEPT ![o] = "release"]
    BY <1>6 DEF Collect, Goto
  <2>2. \A p \in Obj : pc'[p] = "idle" <=> pc[p] = "idle"
    BY <2>1 DEF ObjectTypes
  <2>. QED  BY <1>6, <2>1, <2>2, CollectCounts DEF CounterTypes, SpawnOrder
<1>7. CASE UpdateProgress \/ TimeOut \/ Return \/ UNCHANGED vars
  <2>1. UNCHANGED <<pc, failed, started, acquired, th, count, passed, capacity>>
    BY <1>7 DEF UpdateProgress, TimeOut, Return, vars, locals
  <2>. QED  BY <2>1 DEF CounterTypes, SpawnOrder, CountsAgree, Reported
<1>. QED  BY <1>1, <1>2, <1>3, <1>4, <1>5, <1>6, <1>7
          DEF Next, DoMove, MoveOn, WorkOn, Collector, Terminated

-----------------------------------------------------------------------------
(* The tokens *)

LEMMA TokensStep ==
  ASSUME ObjectTypes, CounterTypes, SpawnOrder, TokensCovered, [Next]_vars
  PROVE  TokensCovered'
<1>0. Exited \subseteq Obj /\ Cardinality(Exited) \in Nat
  <2>1. Exited \subseteq Obj
    BY DEF Exited
  <2>. QED  BY <2>1, ObjSets, NAssumption
<1>1. CASE StartMover
  <2>1. started + 1 \in Obj /\ pc[started + 1] = "idle"
    BY <1>1, NAssumption DEF StartMover, DoMoveReady, SpawnOrder, CounterTypes, Obj
  <2>2. pc' = [pc EXCEPT ![started + 1] = "refresh"] /\ UNCHANGED <<acquired, th>>
    BY <1>1 DEF StartMover, Goto
  <2>3. Exited' = Exited
    BY <2>1, <2>2 DEF Exited, ObjectTypes
  <2>. QED  BY <2>2, <2>3 DEF TokensCovered
<1>2. CASE AcquireToken
  <2>1. acquired' = acquired + 1 /\ th' = th + 1 /\ Exited' = Exited
    BY <1>2 DEF AcquireToken, Exited
  <2>. QED  BY <1>0, <2>1 DEF TokensCovered, CounterTypes
<1>3. ASSUME NEW o \in Obj, ReleaseToken(o) PROVE TokensCovered'
  <2>1. acquired' = acquired /\ o \notin Exited
        /\ th' = (IF th > 0 THEN th - 1 ELSE 0)
    BY <1>3 DEF ReleaseToken, TokensLeft, Exited
  <2>2. Exited' = Exited \cup {o}
    BY <1>3 DEF ReleaseToken, Goto, Exited, ObjectTypes
  <2>3. Cardinality(Exited') = Cardinality(Exited) + 1
    BY <1>0, <2>1, <2>2, ObjAdd
  <2>. QED  BY <1>0, <2>1, <2>3, NAssumption DEF TokensCovered, CounterTypes
<1>4. CASE \E o \in Obj : WorkOn(o) \/ Collect(o)
  <2>1. PICK o \in Obj : WorkOn(o) \/ Collect(o)
    BY <1>4
  <2>2. UNCHANGED <<acquired, th>> /\ pc[o] # "exited"
        /\ \E s \in MoverStep \ {"exited"} : pc' = [pc EXCEPT ![o] = s]
    <3>1. CASE WorkOn(o)
      BY <3>1, WorkFrame DEF MoverStep
    <3>2. CASE Collect(o)
      BY <3>2 DEF Collect, Goto, MoverStep
    <3>. QED  BY <2>1, <3>1, <3>2
  <2>3. Exited' = Exited
    BY <2>2 DEF Exited, ObjectTypes
  <2>. QED  BY <2>2, <2>3 DEF TokensCovered
<1>5. CASE UNCHANGED <<pc, acquired, th>>
  BY <1>5 DEF TokensCovered, Exited
<1>. QED  BY <1>1, <1>2, <1>3, <1>4, <1>5
          DEF Next, DoMove, MoveOn, WorkOn, Collector, Terminated, vars, AcquireOnClosed,
              ConcurrentMapAccess, ReportOnClosed, Panic, UpdateProgress, TimeOut, Return

\* The movers alive are those started and not exited, hence at most one more
\* than there are tokens in th.
LEMMA BoundFromTokens ==
  ASSUME CounterTypes, SpawnOrder, TokensCovered
  PROVE  RoutineBound
<1>1. /\ InFlight \subseteq Obj /\ Exited \subseteq Obj
      /\ InFlight \cup Exited = 1..started /\ InFlight \cap Exited = {}
  BY NAssumption DEF InFlight, Exited, SpawnOrder, CounterTypes, Obj
<1>2. /\ IsFiniteSet(InFlight) /\ IsFiniteSet(Exited)
      /\ Cardinality(InFlight) \in Nat /\ Cardinality(Exited) \in Nat
  BY <1>1, ObjSets, NAssumption
<1>3. Cardinality(1..started) = started
  BY FS_Interval, NAssumption DEF CounterTypes
<1>4. Cardinality(InFlight) + Cardinality(Exited) = started
  <2>1. Cardinality(InFlight \cup Exited)
          = Cardinality(InFlight) + Cardinality(Exited) - Cardinality(InFlight \cap Exited)
    BY <1>2, FS_Union
  <2>2. Cardinality(InFlight \cap Exited) = 0
    BY <1>1, FS_EmptySet
  <2>3. Cardinality(InFlight \cup Exited) = started
    BY <1>1, <1>3
  <2>. QED  BY <1>2, <2>1, <2>2, <2>3
<1>. QED  BY <1>2, <1>4, NAssumption DEF RoutineBound, CounterTypes, SpawnOrder, TokensCovered

-----------------------------------------------------------------------------
(* The objects *)

LEMMA MoverOrderStep ==
  ASSUME ObjectTypes, CounterTypes, SpawnOrder, MoverOrder, [Next]_vars
  PROVE  MoverOrder'
<1>1. CASE StartMover
  <2>1. started + 1 \in Obj /\ pc[started + 1] = "idle"
    BY <1>1, NAssumption DEF StartMover, DoMoveReady, SpawnOrder, CounterTypes, Obj
  <2>2. pc' = [pc EXCEPT ![started + 1] = "refresh"] /\ UNCHANGED <<req, failed, store>>
    BY <1>1 DEF StartMover, Goto
  <2>3. Moved' = Moved
    BY <2>1, <2>2 DEF Moved, ObjectTypes
  <2>. QED  BY <2>1, <2>2, <2>3 DEF MoverOrder, ObjectTypes, store
<1>2. ASSUME NEW o \in Obj, RefreshSrcLocation(o) PROVE MoverOrder'
  BY <1>2 DEF MoverOrder, Moved, RefreshSrcLocation, AfterTransfer, AfterMeta, MayDelete,
              Goto, ObjectTypes, store
<1>3. ASSUME NEW o \in Obj, Transfer(o) PROVE MoverOrder'
  BY <1>3 DEF MoverOrder, Moved, Transfer, AfterTransfer, AfterMeta, MayDelete,
              Goto, ObjectTypes
<1>4. ASSUME NEW o \in Obj, AddMetadata(o) PROVE MoverOrder'
  BY <1>4 DEF MoverOrder, Moved, AddMetadata, AfterMeta, MayDelete, Goto, ObjectTypes
<1>5. ASSUME NEW o \in Obj, DeleteData(o) PROVE MoverOrder'
  BY <1>5 DEF MoverOrder, Moved, DeleteData, MayDeleteMeta, Goto, ObjectTypes
<1>6. ASSUME NEW o \in Obj, DeleteMetadata(o) PROVE MoverOrder'
  BY <1>6 DEF MoverOrder, Moved, DeleteMetadata, Goto, ObjectTypes
<1>7. ASSUME NEW o \in Obj, ReleaseToken(o) \/ Collect(o) PROVE MoverOrder'
  BY <1>7 DEF MoverOrder, Moved, ReleaseToken, Collect, Goto, ObjectTypes, store
<1>8. CASE UNCHANGED <<req, pc, failed, store>>
  BY <1>8 DEF MoverOrder, Moved, store
<1>. QED  BY <1>1, <1>2, <1>3, <1>4, <1>5, <1>6, <1>7, <1>8
          DEF Next, DoMove, MoveOn, Collector, Terminated, vars, AcquireToken, AcquireOnClosed,
              ConcurrentMapAccess, ReportOnClosed, Panic, UpdateProgress, TimeOut, Return, store

-----------------------------------------------------------------------------
(* The collector and the closed channels *)

LEMMA AllReported ==
  ASSUME CounterTypes, SpawnOrder, CountsAgree, count = N
  PROVE  Reported = Obj /\ started = N
<1>1. Reported = Obj
  <2>1. Reported \subseteq Obj
    BY DEF Reported
  <2>. QED  BY <2>1, ObjSets DEF CountsAgree
<1>2. N \in Obj
  BY NAssumption DEF Obj
<1>3. pc[N] # "idle"
  BY <1>1, <1>2 DEF Reported
<1>. QED  BY <1>1, <1>2, <1>3, NAssumption DEF SpawnOrder, CounterTypes

LEMMA CollectorOrderStep ==
  ASSUME CounterTypes, RecordTypes, CollectorOrder, [Next]_vars
  PROVE  CollectorOrder'
<1>1. ASSUME NEW o \in Obj, Collect(o) PROVE CollectorOrder'
  BY <1>1 DEF CollectorOrder, Collect, Closed
<1>2. CASE UpdateProgress
  <2>1. db'.status = db.status /\ UNCHANGED <<count, passed, tmout>> /\ col = "update"
    BY <1>2 DEF UpdateProgress, RecordTypes, locals
  <2>2. Closed' => count >= N
    BY <1>2 DEF UpdateProgress, Closed, AllCounted
  <2>3. Closed' => count = N
    BY <2>2, NAssumption DEF CounterTypes
  <2>4. col' # "returned"
    BY <1>2 DEF UpdateProgress
  <2>. QED  BY <2>1, <2>3, <2>4 DEF CollectorOrder
<1>3. CASE TimeOut
  BY <1>3 DEF TimeOut, TimerArmed, CollectorOrder, Closed
<1>4. CASE Return
  <2>1. UNCHANGED <<count, passed, tmout>> /\ col = "return" /\ col' = "returned"
        /\ db' \in {db, [status |-> Verdict, prog |-> Merge(j')]}
    BY <1>4 DEF Return, locals
  <2>2. Verdict = "succeed" => passed = N
    BY NAssumption DEF Verdict, CounterTypes
  <2>3. db'.status = "succeed" => passed = N
    BY <2>1, <2>2 DEF CollectorOrder
  <2>. QED  BY <2>1, <2>3 DEF CollectorOrder, Closed
<1>5. CASE UNCHANGED <<col, locals, db>>
  BY <1>5 DEF CollectorOrder, Closed, locals
<1>6. CASE \E o \in Obj : WorkOn(o)
  BY <1>5, <1>6, WorkFrame
<1>. QED  BY <1>1, <1>2, <1>3, <1>4, <1>5, <1>6
          DEF Next, DoMove, MoveOn, WorkOn, Collector, Terminated, vars, locals, StartMover,
              AcquireToken, AcquireOnClosed, ConcurrentMapAccess, ReportOnClosed, Panic,
              ReleaseToken

LEMMA PanicStep ==
  ASSUME CounterTypes, SpawnOrder, CountsAgree, CollectorOrder, PanicOnlyWhenLate, [Next]_vars
  PROVE  PanicOnlyWhenLate'
<1>1. CASE AcquireOnClosed
  <2>1. crash' = "send on closed th" /\ UNCHANGED <<tmout, started, acquired>>
        /\ Closed /\ acquired < started
    BY <1>1 DEF AcquireOnClosed, Panic, locals
  <2>2. CASE tmout
    BY <2>1, <2>2 DEF PanicOnlyWhenLate
  <2>3. CASE ~tmout
    <3>1. started = N
      BY <2>1, <2>3, AllReported DEF CollectorOrder
    <3>2. acquired < started /\ started <= acquired + 1
      BY <2>1 DEF SpawnOrder
    <3>3. acquired = N - 1
      BY <3>1, <3>2, NAssumption DEF CounterTypes
    <3>. QED  BY <2>1, <3>1, <3>3 DEF PanicOnlyWhenLate
  <2>. QED  BY <2>2, <2>3
<1>2. ASSUME NEW o \in Obj, ReportOnClosed(o) PROVE PanicOnlyWhenLate'
  <2>1. crash' = "send on closed capa" /\ tmout' = tmout /\ Closed /\ o \notin Reported
    BY <1>2 DEF ReportOnClosed, Panic, locals, Reported
  <2>2. tmout
    BY <2>1, AllReported DEF CollectorOrder
  <2>. QED  BY <2>1, <2>2 DEF PanicOnlyWhenLate
<1>3. CASE ConcurrentMapAccess
  BY <1>3 DEF ConcurrentMapAccess, Panic, PanicOnlyWhenLate
<1>4. CASE Next /\ crash' = "none"
  BY <1>4 DEF PanicOnlyWhenLate
<1>5. CASE UNCHANGED vars
  BY <1>5 DEF PanicOnlyWhenLate, vars
<1>6. ASSUME NEW o \in Obj, WorkOn(o) PROVE crash' = crash /\ crash = "none"
  BY <1>6, WorkFrame DEF WorkOn, RefreshSrcLocation, Transfer, AddMetadata, DeleteData,
                         DeleteMetadata, Alive
<1>. QED  BY <1>1, <1>2, <1>3, <1>4, <1>5, <1>6
          DEF Next, DoMove, MoveOn, WorkOn, Collector, Terminated, vars, Alive, StartMover,
              AcquireToken, ReleaseToken, Collect, UpdateProgress, TimeOut, Return

-----------------------------------------------------------------------------
(* The theorems *)

LEMMA InitInv == Init => IInv
<1>. SUFFICES ASSUME Init PROVE IInv
  OBVIOUS
<1>1. TypeOK
  BY InitType
<1>2. SpawnOrder
  BY DEF Init, SpawnOrder, Obj
<1>3. Reported = {} /\ Exited = {} /\ Moved = {}
  BY DEF Init, Reported, Exited, Moved
<1>4. CountsAgree
  <2>1. Reported \ failed = {}
    BY <1>3
  <2>. QED  BY <1>3, <2>1, FS_EmptySet DEF Init, CountsAgree
<1>5. TokensCovered
  BY <1>3, FS_EmptySet DEF Init, TokensCovered
<1>6. MoverOrder
  BY <1>3 DEF Init, MoverOrder
<1>7. CollectorOrder /\ PanicOnlyWhenLate
  BY DEF Init, CollectorOrder, PanicOnlyWhenLate, Closed
<1>. QED  BY <1>1, <1>2, <1>4, <1>5, <1>6, <1>7 DEF IInv

LEMMA NextInv == IInv /\ [Next]_vars => IInv'
BY ObjectTypesStep, CountersStep, RecordTypesStep, TokensStep, MoverOrderStep,
   CollectorOrderStep, PanicStep DEF IInv, TypeOK

LEMMA Invariance == Spec => []IInv
BY InitInv, NextInv, PTL DEF Spec

\* The variables have their types.
THEOREM TypeCorrect == Spec => []TypeOK
<1>1. IInv => TypeOK
  BY DEF IInv
<1>. QED  BY <1>1, Invariance, PTL

\* For any number of objects, at most SimuRoutines + 1 movers exist at a time.
THEOREM BoundedRoutines == Spec => []RoutineBound
<1>1. IInv => RoutineBound
  BY BoundFromTokens DEF IInv, TypeOK
<1>. QED  BY <1>1, Invariance, PTL

\* An object that is not yet moved, or that failed, is still in the source, so
\* no object with any bytes is ever lost.
THEOREM NothingLost == Spec => []NoDataLoss
<1>1. IInv => NoDataLoss
  BY DEF IInv, MoverOrder, NoDataLoss
<1>. QED  BY <1>1, Invariance, PTL

\* Data left in the source bucket keeps its metadata.
THEOREM SourceKeepsMetadata == Spec => []SourceFindable
<1>1. IInv => SourceFindable
  BY DEF IInv, TypeOK, ObjectTypes, MoverOrder, SourceFindable
<1>. QED  BY <1>1, Invariance, PTL

\* The process dies of a closed channel only after a timeout, or when doMove
\* is late with the very last token.
THEOREM LatePanics == Spec => []PanicOnlyWhenLate
<1>1. IInv => PanicOnlyWhenLate
  BY DEF IInv
<1>. QED  BY <1>1, Invariance, PTL

\* When all have passed, all have been reported and none failed.
LEMMA AllPassed ==
  ASSUME IInv, passed = N
  PROVE  failed = {} /\ Reported = Obj /\ Moved = Obj
<1>1. Reported \ failed = Obj
  <2>1. Reported \ failed \subseteq Obj
    BY DEF Reported
  <2>. QED  BY <2>1, ObjSets DEF IInv, CountsAgree
<1>2. failed \subseteq Obj /\ Reported \subseteq Obj
  BY DEF IInv, TypeOK, ObjectTypes, Reported
<1>3. failed = {} /\ Reported = Obj
  BY <1>1, <1>2
<1>. QED  BY <1>3 DEF Moved, Reported

\* A job recorded as succeeded has moved everything.
THEOREM SuccessIsTrue == Spec => []SucceedMeansMoved
<1>1. IInv => SucceedMeansMoved
  BY AllPassed DEF IInv, CollectorOrder, MoverOrder, SucceedMeansMoved
<1>. QED  BY <1>1, Invariance, PTL

-----------------------------------------------------------------------------
(* What the record shows of a job                                          *)

LEMMA QuotientsGrow ==
  ASSUME NEW T \in Nat \ {0}, NEW x \in Nat, NEW y \in Nat, x <= y
  PROVE  x \div T <= y \div T
<1>. DEFINE p == x \div T
            q == y \div T
<1>1. p \in Nat /\ q \in Nat /\ T * p <= x /\ y < T * q + T
  OBVIOUS
<1>. HIDE DEF p, q
<1>2. ASSUME p >= q + 1 PROVE FALSE
  <2>1. T * p >= T * (q + 1)
    BY <1>1, <1>2
  <2>2. T * (q + 1) = T * q + T
    BY <1>1
  <2>3. T * q \in Nat /\ T * p \in Nat
    BY <1>1
  <2>. QED  BY <1>1, <2>1, <2>2, <2>3
<1>. QED  BY <1>1, <1>2

UpTo(old, new) ==
  old.passed <= new.passed /\ old.capacity <= new.capacity /\ old.progress <= new.progress

\* The record shows an earlier state of the job, and that one of the counters.
ShownBefore == UpTo(db.prog, j) /\ UpTo(j, CurrentProgress)

\* A field that is zero overwrites nothing, but then the old one was zero too.
LEMMA MergeOverwrites ==
  ASSUME RecordTypes, NEW new \in Progress, UpTo(db.prog, new)
  PROVE  Merge(new) = new
<1>1. db.prog \in Progress
  BY DEF RecordTypes
<1>. QED  BY <1>1 DEF Merge, NonZero, Progress, UpTo

LEMMA HundredfoldGrows ==
  ASSUME NEW a \in Nat, NEW b \in Nat, a <= b
  PROVE  a * 100 <= b * 100 /\ a * 100 \in Nat /\ b * 100 \in Nat
OBVIOUS

LEMMA ShownStep ==
  ASSUME TypeOK, ShownBefore, [Next]_vars
  PROVE  /\ ShownBefore' /\ UpTo(db.prog, db'.prog)
<1>0. /\ db.prog \in Progress /\ j \in Progress /\ CurrentProgress \in Progress
      /\ RecordTypes /\ passed \in Nat /\ capacity \in Nat
      /\ db \in [status : {"running", "succeed", "failed"}, prog : Progress]
  BY CurrentProgressType, NAssumption DEF TypeOK, RecordTypes, CounterTypes
<1>1. CASE UNCHANGED <<passed, capacity, j, db>>
  BY <1>0, <1>1 DEF ShownBefore, UpTo, CurrentProgress, Percent, Progress
<1>2. ASSUME NEW o \in Obj, Collect(o) PROVE ShownBefore' /\ UpTo(db.prog, db'.prog)
  <2>1. passed <= passed' /\ capacity <= capacity' /\ passed' \in Nat /\ capacity' \in Nat
    BY <1>0, <1>2, SizeAssumption DEF Collect, Passes, CapacityAfter, Report
  <2>2. capacity * 100 <= capacity' * 100 /\ capacity * 100 \in Nat /\ capacity' * 100 \in Nat
    BY <1>0, <2>1, HundredfoldGrows, Zenon
  <2>3. Percent <= Percent'
    BY <2>2, QuotientsGrow, CapacityAssumption DEF Percent
  <2>4. Percent \in Nat /\ Percent' \in Nat
    BY <2>2, CapacityAssumption DEF Percent
  <2>5. UNCHANGED <<j, db>>
    BY <1>2 DEF Collect
  <2>6. UpTo(j, CurrentProgress)'
    BY <1>0, <2>1, <2>3, <2>4, <2>5 DEF ShownBefore, UpTo, CurrentProgress, Progress
  <2>. QED  BY <1>0, <2>5, <2>6 DEF ShownBefore, UpTo, Progress
<1>3. ASSUME NEW new \in Progress, UpTo(j, new), UpTo(new, CurrentProgress), j' = new,
             db'.prog \in {db.prog, Merge(new)}, UNCHANGED <<passed, capacity>>
      PROVE  ShownBefore' /\ UpTo(db.prog, db'.prog)
  <2>1. UpTo(db.prog, new)
    BY <1>0, <1>3 DEF ShownBefore, UpTo, Progress
  <2>2. db'.prog \in {db.prog, new}
    BY <1>0, <1>3, <2>1, MergeOverwrites
  <2>3. CurrentProgress' = CurrentProgress
    BY <1>3 DEF CurrentProgress, Percent
  <2>. QED  BY <1>0, <1>3, <2>1, <2>2, <2>3 DEF ShownBefore, UpTo, Progress
<1>4. CASE UpdateProgress
  <2>1. UNCHANGED <<passed, capacity>>
    BY <1>4 DEF UpdateProgress, locals
  <2>2. CASE WritesProgress
    <3>1. j' = CurrentProgress /\ db' \in {db, [db EXCEPT !.prog = Merge(j')]}
      BY <1>4, <2>2 DEF UpdateProgress
    <3>2. db'.prog \in {db.prog, Merge(CurrentProgress)}
      BY <1>0, <3>1
    <3>3. UpTo(CurrentProgress, CurrentProgress)
      BY <1>0 DEF UpTo, Progress
    <3>. QED  BY <1>0, <1>3, <2>1, <3>1, <3>2, <3>3 DEF ShownBefore
  <2>3. CASE ~WritesProgress
    BY <1>1, <1>4, <2>1, <2>3 DEF UpdateProgress
  <2>. QED  BY <2>2, <2>3
<1>5. CASE Return
  <2>1. /\ UNCHANGED <<passed, capacity>> /\ j' = [j EXCEPT !.passed = passed]
        /\ db' \in {db, [status |-> Verdict, prog |-> Merge(j')]}
    BY <1>5 DEF Return, locals
  <2>. DEFINE new == [j EXCEPT !.passed = passed]
  <2>2. new \in Progress /\ UpTo(j, new) /\ UpTo(new, CurrentProgress)
    BY <1>0 DEF ShownBefore, UpTo, CurrentProgress, Progress
  <2>3. db'.prog \in {db.prog, Merge(new)}
    BY <2>1
  <2>. QED  BY <1>3, <2>1, <2>2, <2>3
<1>6. CASE \E o \in Obj : WorkOn(o)
  BY <1>1, <1>6, WorkFrame DEF locals
<1>. QED
  BY <1>1, <1>2, <1>4, <1>5, <1>6 DEF Next, DoMove, MoveOn, WorkOn, Collector, vars, locals, store,
     StartMover, AcquireToken, AcquireOnClosed, ConcurrentMapAccess, ReportOnClosed,
     Panic, ReleaseToken, TimeOut, Terminated

\* Although updates of the record may be lost and those that are zero are left
\* out, what it shows of a job never falls.
THEOREM RecordNeverFalls == Spec => ProgressNeverFalls
<1>1. Init => ShownBefore
  <2>. SUFFICES ASSUME Init PROVE ShownBefore
    OBVIOUS
  <2>1. passed = 0 /\ capacity = 0 /\ j = NoProgress /\ db.prog = NoProgress
    BY DEF Init
  <2>2. CurrentProgress \in Progress
    BY InitType, CurrentProgressType DEF TypeOK
  <2>. QED  BY <2>1, <2>2 DEF ShownBefore, UpTo, NoProgress, CurrentProgress, Progress
<1>2. TypeOK /\ ShownBefore /\ [Next]_vars => ShownBefore'
  BY ShownStep
<1>3. TypeOK /\ TypeOK' /\ ShownBefore /\ [Next]_vars =>
        [/\ db'.prog.passed >= db.prog.passed
         /\ db'.prog.capacity >= db.prog.capacity
         /\ db'.prog.progress >= db.prog.progress]_vars
  <2>. SUFFICES ASSUME TypeOK, ShownBefore, [Next]_vars, TypeOK'
                PROVE  /\ db'.prog.passed >= db.prog.passed
                       /\ db'.prog.capacity >= db.prog.capacity
                       /\ db'.prog.progress >= db.prog.progress
    OBVIOUS
  <2>1. db.prog \in Progress /\ db'.prog \in Progress
    BY DEF TypeOK, RecordTypes
  <2>. QED  BY <2>1, ShownStep DEF UpTo, Progress
<1>. QED  BY <1>1, <1>2, <1>3, TypeCorrect, PTL DEF Spec, ProgressNeverFalls

-----------------------------------------------------------------------------
(* Sums of sizes.  What a sum is, and that it grows by the size of an object *)
(* that is added, is shown by the least counterexample.                      *)

LEMMA LeastOf ==
  ASSUME NEW S, S \subseteq Nat, S # {}
  PROVE  \E n \in S : \A m \in S : n <= m
<1>1. \E n \in S : \A m \in S : ~(<<m, n>> \in OpToRel(<, Nat))
  BY WFMin, NatLessThanWellFounded, Zenon
<1>2. PICK n \in S : \A m \in S : ~(m < n)
  BY <1>1, Zenon DEF OpToRel
<1>3. \A m \in S : m \in Nat /\ n \in Nat
  OBVIOUS
<1>4. \A m \in S : n <= m
  BY <1>2, <1>3
<1>. QED  BY <1>4

Bytes(S) == MapThenSumSet(LAMBDA o : Size[o], S)
First(s) == CHOOSE o \in s : TRUE

\* f has the sum of each of the sets.
SumsUp(f, Sets) ==
  f = [s \in Sets |-> IF s = {} THEN 0 ELSE Size[First(s)] + f[s \ {First(s)}]]

LEMMA BytesAre ==
  ASSUME NEW S
  PROVE  Bytes(S) = (CHOOSE f : SumsUp(f, SUBSET S))[S]
BY Zenon DEF Bytes, MapThenSumSet, MapThenFoldSet, SumsUp, First

LEMMA FirstOf ==
  ASSUME NEW s, s \subseteq Obj, s # {}
  PROVE  /\ First(s) \in s /\ First(s) \in Obj /\ s \ {First(s)} \subseteq Obj
         /\ Cardinality(s) \in Nat /\ Cardinality(s \ {First(s)}) = Cardinality(s) - 1
<1>1. First(s) \in s
  BY DEF First
<1>2. IsFiniteSet(s) /\ Cardinality(s) \in Nat
  BY ObjSets, NAssumption
<1>. QED  BY <1>1, <1>2, FS_RemoveElement

UpToSize(n) == {s \in SUBSET Obj : Cardinality(s) <= n}

LEMMA SumsExist ==
  \E f \in [SUBSET Obj -> Nat] : SumsUp(f, SUBSET Obj)
<1>. DEFINE Has(n) == \E f \in [UpToSize(n) -> Nat] : SumsUp(f, UpToSize(n))
            Lacking == {n \in Nat : ~Has(n)}
<1>1. ASSUME Lacking # {} PROVE FALSE
  <2>1. PICK n \in Lacking : \A m \in Lacking : n <= m
    <3>1. Lacking \subseteq Nat
      OBVIOUS
    <3>. QED  BY <1>1, <3>1, LeastOf
  <2>2. n \in Nat /\ ~Has(n)
    BY <2>1
  <2>3. CASE n = 0
    <3>1. \A s \in UpToSize(0) : s = {}
      <4>1. SUFFICES ASSUME NEW s \in UpToSize(0), s # {} PROVE FALSE
        OBVIOUS
      <4>2. s \subseteq Obj /\ Cardinality(s) <= 0
        BY DEF UpToSize
      <4>3. Cardinality(s) - 1 \in Nat
        <5>1. s \ {First(s)} \subseteq Obj /\ Cardinality(s \ {First(s)}) = Cardinality(s) - 1
          BY <4>1, <4>2, FirstOf
        <5>2. Cardinality(s \ {First(s)}) \in 0..N
          BY <5>1, ObjSets
        <5>. QED  BY <5>1, <5>2, NAssumption
      <4>4. Cardinality(s) \in 0..N
        BY <4>2, ObjSets
      <4>. QED  BY <4>2, <4>3, <4>4, NAssumption
    <3>. DEFINE f == [s \in UpToSize(0) |-> 0]
    <3>2. f \in [UpToSize(0) -> Nat] /\ SumsUp(f, UpToSize(0))
      BY <3>1 DEF SumsUp
    <3>. QED  BY <2>2, <2>3, <3>2
  <2>4. CASE n # 0
    <3>1. n - 1 \in Nat /\ n - 1 \notin Lacking
      BY <2>1, <2>2, <2>4
    <3>2. PICK f \in [UpToSize(n - 1) -> Nat] : SumsUp(f, UpToSize(n - 1))
      BY <3>1
    <3>. DEFINE g == [s \in UpToSize(n) |-> IF s = {} THEN 0 ELSE Size[First(s)] + f[s \ {First(s)}]]
    <3>3. ASSUME NEW s \in UpToSize(n), s # {}
          PROVE  s \ {First(s)} \in UpToSize(n - 1) /\ s \ {First(s)} \in UpToSize(n) /\ First(s) \in Obj
      <4>1. /\ First(s) \in Obj /\ s \ {First(s)} \subseteq Obj
            /\ Cardinality(s) \in Nat /\ Cardinality(s \ {First(s)}) = Cardinality(s) - 1
        BY <3>3, FirstOf DEF UpToSize
      <4>2. Cardinality(s) <= n
        BY DEF UpToSize
      <4>. QED  BY <2>2, <4>1, <4>2 DEF UpToSize
    <3>4. g \in [UpToSize(n) -> Nat]
      <4>1. \A s \in UpToSize(n) : s # {} => Size[First(s)] \in Nat /\ f[s \ {First(s)}] \in Nat
        BY <3>2, <3>3, SizeAssumption
      <4>. QED  BY <4>1
    <3>5. \A s \in UpToSize(n - 1) : s \in UpToSize(n) /\ g[s] = f[s]
      <4>1. \A s \in UpToSize(n - 1) : s \in UpToSize(n)
        BY <2>2, ObjSets, NAssumption DEF UpToSize
      <4>2. \A s \in UpToSize(n - 1) : f[s] = IF s = {} THEN 0 ELSE Size[First(s)] + f[s \ {First(s)}]
        BY <3>2 DEF SumsUp
      <4>. QED  BY <4>1, <4>2
    <3>6. SumsUp(g, UpToSize(n))
      <4>1. \A s \in UpToSize(n) : s # {} => f[s \ {First(s)}] = g[s \ {First(s)}]
        BY <3>3, <3>5
      <4>2. \A s \in UpToSize(n) : g[s] = IF s = {} THEN 0 ELSE Size[First(s)] + g[s \ {First(s)}]
        BY <4>1
      <4>3. g = [s \in UpToSize(n) |-> g[s]]
        BY <3>4
      <4>. HIDE DEF g
      <4>. QED  BY <4>2, <4>3 DEF SumsUp
    <3>. HIDE DEF g
    <3>. QED  BY <2>2, <3>4, <3>6
  <2>. QED  BY <2>3, <2>4
<1>2. Has(N)
  BY <1>1, NAssumption
<1>3. UpToSize(N) = SUBSET Obj
  <2>1. \A s \in SUBSET Obj : Cardinality(s) \in 0..N
    BY ObjSets
  <2>. QED  BY <2>1, NAssumption DEF UpToSize
<1>. QED  BY <1>2, <1>3

\* There is one such function at most, whatever the sets that are closed under it.
LEMMA SumsAgree ==
  ASSUME NEW f, SumsUp(f, SUBSET Obj), NEW S, S \subseteq Obj, NEW g, SumsUp(g, SUBSET S)
  PROVE  g[S] = f[S]
<1>. DEFINE Differ == {n \in Nat : \E s \in SUBSET S : Cardinality(s) = n /\ g[s] # f[s]}
<1>1. ASSUME Differ # {} PROVE FALSE
  <2>1. PICK n \in Differ : \A m \in Differ : n <= m
    <3>1. Differ \subseteq Nat
      OBVIOUS
    <3>. QED  BY <1>1, <3>1, LeastOf
  <2>2. PICK s \in SUBSET S : Cardinality(s) = n /\ g[s] # f[s]
    BY <2>1
  <2>3. /\ g[s] = IF s = {} THEN 0 ELSE Size[First(s)] + g[s \ {First(s)}]
        /\ f[s] = IF s = {} THEN 0 ELSE Size[First(s)] + f[s \ {First(s)}]
    BY DEF SumsUp
  <2>4. s # {} /\ g[s \ {First(s)}] # f[s \ {First(s)}]
    BY <2>2, <2>3
  <2>5. /\ s \ {First(s)} \in SUBSET S /\ Cardinality(s) \in Nat
        /\ Cardinality(s \ {First(s)}) = Cardinality(s) - 1 /\ Cardinality(s \ {First(s)}) \in Nat
    <3>1. s \subseteq Obj
      OBVIOUS
    <3>2. /\ s \ {First(s)} \subseteq Obj
          /\ Cardinality(s \ {First(s)}) = Cardinality(s) - 1 /\ Cardinality(s) \in Nat
      BY <2>4, <3>1, FirstOf
    <3>. QED  BY <3>2, ObjSets, NAssumption
  <2>6. n - 1 \in Differ
    BY <2>2, <2>4, <2>5
  <2>. QED  BY <2>1, <2>6
<1>2. Cardinality(S) \in Nat
  BY ObjSets, NAssumption
<1>3. Cardinality(S) \notin Differ
  BY <1>1, <1>2
<1>. QED  BY <1>2, <1>3

LEMMA BytesSum ==
  \E f \in [SUBSET Obj -> Nat] : SumsUp(f, SUBSET Obj) /\ \A S \in SUBSET Obj : Bytes(S) = f[S]
<1>1. PICK f \in [SUBSET Obj -> Nat] : SumsUp(f, SUBSET Obj)
  BY SumsExist
<1>2. ASSUME NEW S \in SUBSET Obj PROVE Bytes(S) = f[S]
  <2>. DEFINE g == [s \in SUBSET S |-> f[s]]
  <2>1. SumsUp(g, SUBSET S)
    <3>1. \A s \in SUBSET S : f[s] = IF s = {} THEN 0 ELSE Size[First(s)] + f[s \ {First(s)}]
      BY <1>1 DEF SumsUp
    <3>2. \A s \in SUBSET S : g[s] = IF s = {} THEN 0 ELSE Size[First(s)] + g[s \ {First(s)}]
      BY <3>1
    <3>3. g = [s \in SUBSET S |-> g[s]]
      OBVIOUS
    <3>. HIDE DEF g
    <3>. QED  BY <3>2, <3>3 DEF SumsUp
  <2>2. SumsUp(CHOOSE h : SumsUp(h, SUBSET S), SUBSET S)
    BY <2>1, Zenon
  <2>. QED  BY <1>1, <2>2, BytesAre, SumsAgree
<1>. QED  BY <1>1, <1>2

LEMMA BytesAdd ==
  ASSUME NEW S, S \subseteq Obj, NEW o \in Obj, o \notin S
  PROVE  Bytes(S) \in Nat /\ Bytes(S \cup {o}) = Bytes(S) + Size[o]
<1>1. PICK f \in [SUBSET Obj -> Nat] : SumsUp(f, SUBSET Obj) /\ \A s \in SUBSET Obj : Bytes(s) = f[s]
  BY BytesSum
<1>2. \A s \in SUBSET Obj : f[s] \in Nat /\ f[s] = IF s = {} THEN 0 ELSE Size[First(s)] + f[s \ {First(s)}]
  BY <1>1 DEF SumsUp
<1>. DEFINE Wrong == {n \in Nat : \E s \in SUBSET Obj : \E p \in Obj \ s :
                                    Cardinality(s) = n /\ f[s \cup {p}] # f[s] + Size[p]}
<1>3. ASSUME Wrong # {} PROVE FALSE
  <2>1. PICK n \in Wrong : \A m \in Wrong : n <= m
    <3>1. Wrong \subseteq Nat
      OBVIOUS
    <3>. QED  BY <1>3, <3>1, LeastOf
  <2>2. PICK s \in SUBSET Obj : \E p \in Obj \ s : Cardinality(s) = n /\ f[s \cup {p}] # f[s] + Size[p]
    BY <2>1
  <2>3. PICK p \in Obj \ s : Cardinality(s) = n /\ f[s \cup {p}] # f[s] + Size[p]
    BY <2>2
  <2>. DEFINE t == s \cup {p}
              q == First(t)
  <2>4. q \in t /\ t \subseteq Obj /\ t # {}
    BY FirstOf
  <2>5. f[t] = Size[q] + f[t \ {q}]
    BY <1>2, <2>4
  <2>6. q # p
    <3>1. SUFFICES ASSUME q = p PROVE FALSE
      OBVIOUS
    <3>2. t \ {q} = s
      BY <3>1
    <3>3. Size[p] \in Nat /\ f[s] \in Nat
      BY <1>2, SizeAssumption
    <3>4. f[t] = Size[p] + f[s]
      BY <2>5, <3>1, <3>2
    <3>. QED  BY <2>3, <3>3, <3>4
  <2>. HIDE DEF q
  <2>7. q \in s /\ t \ {q} = (s \ {q}) \cup {p} /\ p \notin s \ {q} /\ s = (s \ {q}) \cup {q} /\ q \notin s \ {q}
    BY <2>4, <2>6
  <2>8. Cardinality(s \ {q}) = n - 1 /\ n - 1 \in Nat
    <3>1. IsFiniteSet(s) /\ Cardinality(s) \in Nat
      BY ObjSets, NAssumption
    <3>2. Cardinality(s \ {q}) = Cardinality(s) - 1
      BY <2>7, <3>1, FS_RemoveElement
    <3>3. Cardinality(s \ {q}) \in 0..N
      BY ObjSets
    <3>. QED  BY <2>3, <3>1, <3>2, <3>3, NAssumption
  <2>9. n - 1 \notin Wrong
    <3>1. n \in Nat
      BY <2>1
    <3>. HIDE DEF Wrong
    <3>. QED  BY <2>1, <2>8, <3>1
  <2>10. \A r \in Obj \ (s \ {q}) : f[(s \ {q}) \cup {r}] = f[s \ {q}] + Size[r]
    BY <2>8, <2>9
  <2>11. f[t \ {q}] = f[s \ {q}] + Size[p] /\ f[s] = f[s \ {q}] + Size[q]
    BY <2>4, <2>7, <2>10
  <2>12. Size[p] \in Nat /\ Size[q] \in Nat /\ f[s \ {q}] \in Nat
    BY <1>2, <2>4, SizeAssumption
  <2>. QED  BY <2>3, <2>5, <2>11, <2>12
<1>4. Cardinality(S) \in Nat
  BY ObjSets, NAssumption
<1>5. Cardinality(S) \notin Wrong
  <2>. HIDE DEF Wrong
  <2>. QED  BY <1>3
<1>6. f[S \cup {o}] = f[S] + Size[o]
  BY <1>4, <1>5
<1>. QED  BY <1>1, <1>2, <1>6

LEMMA BytesOfNone == Bytes({}) = 0
<1>1. PICK f \in [SUBSET Obj -> Nat] : SumsUp(f, SUBSET Obj) /\ \A s \in SUBSET Obj : Bytes(s) = f[s]
  BY BytesSum
<1>. QED  BY <1>1 DEF SumsUp

LEMMA BytesType ==
  ASSUME NEW S, S \subseteq Obj
  PROVE  Bytes(S) \in Nat
BY BytesSum

\* Not more than all, and all only with every object that has any.
LEMMA BytesOfAll ==
  ASSUME NEW S, S \subseteq Obj
  PROVE  /\ Bytes(S) <= TotalCapacity
         /\ Bytes(S) = TotalCapacity => \A o \in Obj : Size[o] > 0 => o \in S
<1>0. Bytes(Obj) = TotalCapacity
  BY DEF Bytes, TotalCapacity
<1>. DEFINE Over == {n \in Nat : \E s \in SUBSET Obj : Cardinality(Obj \ s) = n /\ Bytes(s) > Bytes(Obj)}
<1>1. ASSUME Over # {} PROVE FALSE
  <2>1. PICK n \in Over : \A m \in Over : n <= m
    <3>1. Over \subseteq Nat
      OBVIOUS
    <3>. QED  BY <1>1, <3>1, LeastOf
  <2>2. PICK s \in SUBSET Obj : Cardinality(Obj \ s) = n /\ Bytes(s) > Bytes(Obj)
    BY <2>1
  <2>3. s # Obj
    BY <2>2, BytesType
  <2>4. PICK o \in Obj : o \notin s
    BY <2>3
  <2>5. Bytes(s \cup {o}) = Bytes(s) + Size[o] /\ Bytes(s) \in Nat /\ Size[o] \in Nat
    BY <2>4, BytesAdd, SizeAssumption
  <2>6. Bytes(s \cup {o}) > Bytes(Obj)
    BY <2>2, <2>5, BytesType
  <2>7. Cardinality(Obj \ (s \cup {o})) = n - 1 /\ n - 1 \in Nat
    <3>1. IsFiniteSet(Obj \ s) /\ Cardinality(Obj \ s) \in Nat /\ o \in Obj \ s
      BY <2>4, ObjSets, NAssumption
    <3>2. Obj \ (s \cup {o}) = (Obj \ s) \ {o}
      OBVIOUS
    <3>3. Cardinality((Obj \ s) \ {o}) = Cardinality(Obj \ s) - 1
      BY <3>1, FS_RemoveElement
    <3>4. Cardinality((Obj \ s) \ {o}) \in 0..N
      BY ObjSets
    <3>. QED  BY <2>2, <3>1, <3>2, <3>3, <3>4, NAssumption
  <2>8. n - 1 \in Over
    BY <2>6, <2>7
  <2>. QED  BY <2>1, <2>7, <2>8
<1>2. ASSUME NEW s \in SUBSET Obj PROVE Bytes(s) <= Bytes(Obj)
  <2>1. Cardinality(Obj \ s) \in Nat
    BY ObjSets, NAssumption
  <2>2. Cardinality(Obj \ s) \notin Over
    <3>. HIDE DEF Over
    <3>. QED  BY <1>1
  <2>3. ~(Bytes(s) > Bytes(Obj))
    BY <2>1, <2>2
  <2>. QED  BY <2>3, BytesType
<1>3. ASSUME Bytes(S) = TotalCapacity, NEW o \in Obj, Size[o] > 0, o \notin S PROVE FALSE
  <2>1. Bytes(S \cup {o}) = Bytes(S) + Size[o] /\ Bytes(S) \in Nat /\ Size[o] \in Nat
    BY <1>3, BytesAdd, SizeAssumption
  <2>2. Bytes(S \cup {o}) <= Bytes(Obj)
    BY <1>2
  <2>. QED  BY <1>0, <1>3, <2>1, <2>2
<1>. QED  BY <1>0, <1>2, <1>3

-----------------------------------------------------------------------------
(* What the record tells of the bytes *)

LEMMA Hundred ==
  ASSUME NEW T \in Nat \ {0}, NEW c \in Nat, c <= T
  PROVE  (c * 100) \div T = 100 <=> c = T
<1>. DEFINE p == (c * 100) \div T
<1>1. c * 100 \in Nat /\ p \in Nat /\ T * p <= c * 100 /\ c * 100 < T * p + T
  OBVIOUS
<1>. HIDE DEF p
<1>2. p = 100 => c = T
  BY <1>1
<1>3. ASSUME c = T PROVE p = 100
  <2>1. ASSUME p >= 101 PROVE FALSE
    <3>1. T * p >= T * 101
      BY <1>1, <2>1
    <3>. QED  BY <1>1, <1>3, <3>1
  <2>2. ASSUME p <= 99 PROVE FALSE
    <3>1. T * p <= T * 99
      BY <1>1, <2>2
    <3>. QED  BY <1>1, <1>3, <3>1
  <2>. QED  BY <1>1, <2>1, <2>2
<1>4. p = 100 <=> c = T
  BY <1>2, <1>3
<1>. QED  BY <1>4 DEF p

\* The collector has added up the bytes of the objects reported as moved; once
\* it has counted every object, its record says so, and so does what stands in
\* the database when the job has succeeded; 100 percent is only ever all.
AllThere == \A o \in Obj : Size[o] > 0 => o \in dest
BytesTrue ==
  /\ capacity = Bytes(Reported \ failed)
  /\ count = N /\ col # "update" => UpTo(CurrentProgress, j)
  /\ j.progress = 100 \/ db.prog.progress = 100 => AllThere
  /\ db.status = "succeed" => col = "returned" /\ UpTo(CurrentProgress, db.prog)

\* Who says 100 percent has everything.
LEMMA PercentOfAll ==
  ASSUME IInv, capacity = Bytes(Reported \ failed)
  PROVE  /\ Percent = 100 => AllThere
         /\ passed = N => capacity = TotalCapacity /\ Percent = 100
<1>. DEFINE S == Reported \ failed
<1>1. S \subseteq Obj /\ S \subseteq Moved /\ capacity \in Nat
  BY DEF Reported, Moved, IInv, TypeOK, CounterTypes
<1>2. /\ capacity <= TotalCapacity
      /\ capacity = TotalCapacity => \A o \in Obj : Size[o] > 0 => o \in S
  BY <1>1, BytesOfAll
<1>3. Percent = 100 <=> capacity = TotalCapacity
  BY <1>1, <1>2, Hundred, CapacityAssumption DEF Percent
<1>4. Percent = 100 => AllThere
  BY <1>1, <1>2, <1>3 DEF IInv, MoverOrder, AllThere
<1>5. passed = N => capacity = TotalCapacity
  <2>1. passed = N => S = Obj
    BY AllPassed
  <2>. QED  BY <2>1 DEF Bytes, TotalCapacity
<1>. QED  BY <1>3, <1>4, <1>5

\* What is in the destination stays there, and what was reported was.
LEMMA DestGrows ==
  ASSUME AllThere, [Next]_vars
  PROVE  AllThere'
<1>1. dest \subseteq dest'
  BY DEF Next, DoMove, MoveOn, Collector, vars, locals, store, StartMover, AcquireToken, AcquireOnClosed,
     ConcurrentMapAccess, ReportOnClosed, Panic, ReleaseToken, TimeOut, Terminated, RefreshSrcLocation,
     Transfer, AddMetadata, DeleteData, DeleteMetadata, Collect, UpdateProgress, Return
<1>. QED  BY <1>1 DEF AllThere

\* Steps that leave the collector and the record alone.
LEMMA BytesApart ==
  ASSUME BytesTrue, [Next]_vars, UNCHANGED <<j, db, passed, capacity, count>>,
         Reported' \ failed' = Reported \ failed,
         col' = col \/ (db.status # "succeed" /\ col # "update")
  PROVE  BytesTrue'
<1>1. CurrentProgress' = CurrentProgress /\ Percent' = Percent
  BY DEF CurrentProgress, Percent
<1>2. Bytes(Reported \ failed)' = Bytes(Reported \ failed)
  <2>1. Bytes(Reported \ failed)' = Bytes(Reported' \ failed')
    OBVIOUS
  <2>. QED  BY <2>1
<1>3. AllThere => AllThere'
  BY DestGrows
<1>. QED  BY <1>1, <1>2, <1>3 DEF BytesTrue, UpTo

LEMMA BytesStep ==
  ASSUME IInv, ShownBefore, BytesTrue, [Next]_vars
  PROVE  BytesTrue'
<1>0. /\ db.prog \in Progress /\ j \in Progress /\ CurrentProgress \in Progress
      /\ RecordTypes /\ CounterTypes /\ ObjectTypes /\ passed \in Nat /\ capacity \in Nat
      /\ db \in [status : {"running", "succeed", "failed"}, prog : Progress]
  BY CurrentProgressType, NAssumption DEF IInv, TypeOK, RecordTypes, CounterTypes
<1>1. ASSUME NEW o \in Obj, Collect(o) PROVE BytesTrue'
  <2>1. /\ col = "select" /\ col' = "update" /\ UNCHANGED <<failed, j, db>>
        /\ pc[o] = "report" /\ pc' = [pc EXCEPT ![o] = "release"]
        /\ IF Passes(Report(o)) THEN capacity' = CapacityAfter(Report(o)) ELSE capacity' = capacity
    BY <1>1 DEF Collect, Goto
  <2>2. o \notin Reported /\ Reported \subseteq Obj /\ Reported' = Reported \cup {o}
    BY <1>0, <2>1 DEF Reported, ObjectTypes
  <2>3. Passes(Report(o)) <=> o \notin failed
    BY SizeAssumption DEF Passes, Report
  <2>4. Bytes(Reported \ failed)' = Bytes(Reported' \ failed)
    BY <2>1
  <2>5. CASE o \notin failed
    <3>1. Reported' \ failed = (Reported \ failed) \cup {o} /\ o \notin Reported \ failed
      BY <2>2, <2>5
    <3>2. Bytes(Reported' \ failed) = Bytes(Reported \ failed) + Size[o]
      BY <2>2, <3>1, BytesAdd
    <3>3. capacity' = capacity + Size[o]
      BY <2>1, <2>3, <2>5 DEF CapacityAfter, Report
    <3>4. capacity' = Bytes(Reported \ failed)'
      BY <2>4, <3>2, <3>3 DEF BytesTrue
    <3>. QED  BY <2>1, <3>4, DestGrows DEF BytesTrue
  <2>6. CASE o \in failed
    <3>1. Reported' \ failed = Reported \ failed
      BY <2>2, <2>6
    <3>2. capacity' = Bytes(Reported \ failed)'
      BY <2>1, <2>3, <2>4, <2>6, <3>1 DEF BytesTrue
    <3>. QED  BY <2>1, <3>2, DestGrows DEF BytesTrue
  <2>. QED  BY <2>5, <2>6
<1>2. CASE UpdateProgress
  <2>1. /\ UNCHANGED <<pc, failed, passed, capacity, count>> /\ db.status # "succeed"
        /\ db'.status = db.status
    BY <1>0, <1>2 DEF UpdateProgress, locals, BytesTrue
  <2>2. CurrentProgress' = CurrentProgress /\ Percent' = Percent
    BY <2>1 DEF CurrentProgress, Percent
  <2>3. Bytes(Reported \ failed)' = Bytes(Reported \ failed)
    BY <2>1 DEF Reported
  <2>4. WritesProgress => j' = CurrentProgress /\ db'.prog \in {db.prog, CurrentProgress}
    <3>1. UpTo(db.prog, CurrentProgress)
      BY <1>0 DEF ShownBefore, UpTo, Progress
    <3>2. Merge(CurrentProgress) = CurrentProgress
      BY <1>0, <3>1, MergeOverwrites
    <3>. QED  BY <1>0, <1>2, <3>2 DEF UpdateProgress
  <2>5. ~WritesProgress => j' = j /\ db' = db
    BY <1>2 DEF UpdateProgress
  <2>6. count' = N => UpTo(CurrentProgress, j)'
    <3>1. count = N => WritesProgress
      BY DEF WritesProgress
    <3>2. UpTo(CurrentProgress, CurrentProgress)
      BY <1>0 DEF UpTo, Progress
    <3>. QED  BY <2>1, <2>2, <2>4, <3>1, <3>2 DEF UpTo
  <2>7. j'.progress = 100 \/ db'.prog.progress = 100 => AllThere'
    <3>1. CurrentProgress.progress = 100 => AllThere
      BY PercentOfAll DEF CurrentProgress, BytesTrue
    <3>. QED  BY <2>4, <2>5, <3>1, DestGrows DEF BytesTrue
  <2>. QED  BY <2>1, <2>3, <2>6, <2>7 DEF BytesTrue
<1>3. CASE TimeOut
  <2>1. UNCHANGED <<pc, failed, j, db, passed, capacity, count>> /\ col = "select"
    BY <1>3 DEF TimeOut, TimerArmed
  <2>2. db.status # "succeed"
    BY <2>1 DEF BytesTrue
  <2>. QED  BY <2>1, <2>2, BytesApart DEF Reported
<1>4. CASE Return
  <2>1. /\ UNCHANGED <<pc, failed, passed, capacity, count>> /\ j' = [j EXCEPT !.passed = passed]
        /\ col = "return" /\ col' = "returned" /\ db.status # "succeed"
        /\ db' = db \/ (db'.status = Verdict /\ db'.prog = Merge(j'))
    BY <1>4 DEF Return, locals, BytesTrue
  <2>2. CurrentProgress' = CurrentProgress /\ Percent' = Percent
    BY <2>1 DEF CurrentProgress, Percent
  <2>3. Bytes(Reported \ failed)' = Bytes(Reported \ failed)
    BY <2>1 DEF Reported
  <2>4. /\ j' \in Progress /\ UpTo(db.prog, j') /\ j'.progress = j.progress
        /\ UpTo(CurrentProgress, j) => UpTo(CurrentProgress, j')
    BY <1>0, <2>1 DEF ShownBefore, UpTo, CurrentProgress, Progress
  <2>5. Merge(j') = j'
    BY <1>0, <2>4, MergeOverwrites
  <2>6. count' = N => UpTo(CurrentProgress, j)'
    BY <2>1, <2>2, <2>4 DEF BytesTrue, UpTo
  <2>7. j'.progress = 100 \/ db'.prog.progress = 100 => AllThere'
    <3>1. db'.prog = db.prog \/ db'.prog = j'
      BY <2>1, <2>5
    <3>2. j'.progress = 100 \/ db'.prog.progress = 100 => AllThere
      BY <2>4, <3>1 DEF BytesTrue
    <3>. QED  BY <3>2, DestGrows
  <2>8. db'.status = "succeed" => UpTo(CurrentProgress, db.prog)'
    <3>1. SUFFICES ASSUME db'.status = "succeed" PROVE UpTo(CurrentProgress, db.prog)'
      OBVIOUS
    <3>2. passed = N /\ db'.prog = j'
      BY <1>0, <2>1, <2>5, <3>1, NAssumption DEF Verdict, CounterTypes
    <3>3. count = N
      <4>1. Reported = Obj
        BY <3>2, AllPassed
      <4>2. Cardinality(Obj) = N
        BY FS_Interval, NAssumption DEF Obj
      <4>. QED  BY <4>1, <4>2 DEF IInv, CountsAgree
    <3>4. UpTo(CurrentProgress, j')
      BY <2>1, <2>4, <3>3 DEF BytesTrue
    <3>. QED  BY <2>2, <3>2, <3>4 DEF UpTo
  <2>. QED  BY <2>1, <2>3, <2>6, <2>7, <2>8 DEF BytesTrue
<1>5. ASSUME NEW o \in Obj, WorkOn(o) PROVE BytesTrue'
  <2>1. UNCHANGED <<j, db, passed, capacity, count, col>> /\ o \notin Reported
        /\ failed' \in {failed, failed \cup {o}}
    BY <1>5, WorkFrame DEF locals, Reported
  <2>2. Reported' = Reported
    BY <1>0, <1>5, WorkFrame DEF Reported, ObjectTypes
  <2>3. Reported' \ failed' = Reported \ failed
    BY <2>1, <2>2
  <2>. QED  BY <2>1, <2>3, BytesApart
<1>6. CASE StartMover
  <2>1. started + 1 \in Obj /\ pc[started + 1] = "idle"
    BY <1>0, <1>6, NAssumption DEF StartMover, DoMoveReady, IInv, SpawnOrder, CounterTypes, Obj
  <2>2. pc' = [pc EXCEPT ![started + 1] = "refresh"] /\ UNCHANGED <<failed, j, db, passed, capacity, count, col>>
    BY <1>6 DEF StartMover, Goto, locals
  <2>3. Reported' = Reported
    BY <1>0, <2>1, <2>2 DEF Reported, ObjectTypes
  <2>. QED  BY <2>2, <2>3, BytesApart
<1>7. ASSUME NEW o \in Obj, ReleaseToken(o) PROVE BytesTrue'
  <2>1. /\ pc[o] = "release" /\ pc' = [pc EXCEPT ![o] = "exited"]
        /\ UNCHANGED <<failed, j, db, passed, capacity, count, col>>
    BY <1>7 DEF ReleaseToken, Goto, locals
  <2>2. Reported' = Reported
    BY <1>0, <2>1 DEF Reported, ObjectTypes
  <2>. QED  BY <2>1, <2>2, BytesApart
<1>8. CASE UNCHANGED <<pc, failed, j, db, passed, capacity, count, col>>
  BY <1>8, BytesApart DEF Reported
<1>. QED
  BY <1>1, <1>2, <1>3, <1>4, <1>5, <1>6, <1>7, <1>8 DEF Next, DoMove, MoveOn, WorkOn, Collector, vars, locals,
     store, AcquireToken, AcquireOnClosed, ConcurrentMapAccess, ReportOnClosed, Panic, Terminated

LEMMA BytesAtFirst ==
  ASSUME Init
  PROVE  ShownBefore /\ BytesTrue
<1>1. /\ passed = 0 /\ capacity = 0 /\ count = 0 /\ j = NoProgress /\ db.prog = NoProgress
      /\ db.status = "running"
  BY DEF Init
<1>2. CurrentProgress \in Progress
  BY InitType, CurrentProgressType DEF TypeOK
<1>3. ShownBefore
  BY <1>1, <1>2 DEF ShownBefore, UpTo, NoProgress, CurrentProgress, Progress
<1>4. Reported \ failed = {}
  BY DEF Init, Reported
<1>. QED  BY <1>1, <1>3, <1>4, BytesOfNone, NAssumption DEF BytesTrue, NoProgress

\* The counters are true, the capacity is that of the objects reported as moved,
\* the record of a job that has succeeded shows all of it, and one that shows 100 percent is of a
\* job whose objects are all there, for any number of objects of any sizes.
THEOREM RecordsTrue == Spec => []RecordAgrees
<1>1. Init => ShownBefore /\ BytesTrue
  BY BytesAtFirst
<1>2. IInv /\ ShownBefore /\ BytesTrue /\ [Next]_vars => ShownBefore' /\ BytesTrue'
  BY BytesStep, ShownStep DEF IInv
<1>3. IInv /\ ShownBefore /\ BytesTrue => RecordAgrees
  <2>1. SUFFICES ASSUME IInv, ShownBefore, BytesTrue PROVE RecordAgrees
    OBVIOUS
  <2>2. capacity = MapThenSumSet(LAMBDA o : Size[o], Reported \ failed)
    BY <2>1 DEF BytesTrue, Bytes
  <2>3. db.status = "succeed" => db.prog = [passed |-> N, capacity |-> TotalCapacity, progress |-> 100]
    <3>1. SUFFICES ASSUME db.status = "succeed"
                   PROVE  db.prog = [passed |-> N, capacity |-> TotalCapacity, progress |-> 100]
      OBVIOUS
    <3>2. passed = N /\ capacity = TotalCapacity /\ Percent = 100
      BY <2>1, <3>1, PercentOfAll DEF IInv, CollectorOrder, BytesTrue
    <3>3. UpTo(CurrentProgress, db.prog) /\ UpTo(db.prog, j) /\ UpTo(j, CurrentProgress)
      BY <2>1, <3>1 DEF BytesTrue, ShownBefore
    <3>4. db.prog \in Progress /\ j \in Progress /\ CurrentProgress \in Progress
      BY <2>1, CurrentProgressType DEF IInv, TypeOK, RecordTypes
    <3>5. db.prog = CurrentProgress
      BY <3>3, <3>4 DEF UpTo, Progress
    <3>. QED  BY <3>2, <3>5 DEF CurrentProgress
  <2>4. db.prog.progress = 100 => \A o \in Obj : Size[o] > 0 => o \in dest
    BY <2>1 DEF BytesTrue, AllThere
  <2>5. CountsAgree
    BY <2>1 DEF IInv
  <2>. QED  BY <2>2, <2>3, <2>4, <2>5 DEF RecordAgrees
<1>. QED  BY <1>1, <1>2, <1>3, Invariance, PTL DEF Spec

-----------------------------------------------------------------------------
(* Migration implements MoveBatch *)

LEMMA BatchStep ==
  ASSUME IInv, [Next]_vars
  PROVE  [Batch!Next]_(Batch!vars)
<1>. USE DEF IInv, TypeOK
<1>1. CASE StartMover
  <2>1. started + 1 \in Obj /\ pc[started + 1] = "idle"
    BY <1>1, NAssumption DEF StartMover, DoMoveReady, SpawnOrder, CounterTypes, Obj
  <2>2. pc' = [pc EXCEPT ![started + 1] = "refresh"] /\ UNCHANGED <<failed, src, db>>
    BY <1>1 DEF StartMover, Goto, store
  <2>3. Moved' = Moved
    BY <2>1, <2>2 DEF Moved, ObjectTypes
  <2>. QED  BY <2>2, <2>3 DEF Batch!vars
<1>2. ASSUME NEW o \in Obj, RefreshSrcLocation(o) PROVE [Batch!Next]_(Batch!vars)
  <2>1. Moved' = Moved \/ Moved' = Moved \cup {o}
    BY <1>2 DEF RefreshSrcLocation, AfterTransfer, AfterMeta, MayDelete, Goto, Moved, ObjectTypes
  <2>2. UNCHANGED <<src, db>>
    BY <1>2 DEF RefreshSrcLocation, store
  <2>. QED  BY <2>1, <2>2 DEF Batch!Next, Batch!Copy, Batch!vars
<1>3. ASSUME NEW o \in Obj, Transfer(o) PROVE [Batch!Next]_(Batch!vars)
  <2>1. Moved' = Moved \/ Moved' = Moved \cup {o}
    <3>1. PICK s \in {"meta", "delete", "report"} : pc' = [pc EXCEPT ![o] = s]
      BY <1>3, AfterSteps DEF Transfer, Goto
    <3>2. pc[o] = "transfer" /\ failed' \in {failed, failed \cup {o}}
      BY <1>3 DEF Transfer
    <3>. QED  BY <3>1, <3>2 DEF Moved, ObjectTypes
  <2>2. UNCHANGED <<src, db>>
    BY <1>3 DEF Transfer
  <2>. QED  BY <2>1, <2>2 DEF Batch!Next, Batch!Copy, Batch!vars
<1>4. ASSUME NEW o \in Obj, DeleteData(o) PROVE [Batch!Next]_(Batch!vars)
  <2>1. Moved' = Moved /\ db' = db
    BY <1>4 DEF DeleteData, MayDeleteMeta, Goto, Moved, ObjectTypes
  <2>2. o \in Moved
    BY <1>4 DEF DeleteData, MoverOrder, Moved
  <2>3. src' = src \/ Obj \ src' = (Obj \ src) \cup {o}
    BY <1>4 DEF DeleteData, ObjectTypes
  <2>. QED  BY <2>1, <2>2, <2>3 DEF Batch!Next, Batch!Remove, Batch!vars
<1>5. ASSUME NEW o \in Obj,
             AddMetadata(o) \/ DeleteMetadata(o) \/ ReleaseToken(o) \/ Collect(o)
      PROVE  [Batch!Next]_(Batch!vars)
  <2>1. Moved' = Moved
    BY <1>5 DEF AddMetadata, AfterMeta, DeleteMetadata, ReleaseToken, Collect, Goto, Moved,
                ObjectTypes
  <2>2. UNCHANGED <<src, db>>
    BY <1>5 DEF AddMetadata, DeleteMetadata, ReleaseToken, Collect, store
  <2>. QED  BY <2>1, <2>2 DEF Batch!vars
<1>6. CASE UpdateProgress
  <2>1. UNCHANGED <<pc, failed, src>> /\ db'.status = db.status
    BY <1>6 DEF UpdateProgress, RecordTypes, store
  <2>. QED  BY <2>1 DEF Batch!vars, Moved
<1>7. CASE Return
  <2>1. UNCHANGED <<pc, failed, src>> /\ db.status = "running"
        /\ (db' = db \/ db'.status = Verdict)
    BY <1>7 DEF Return, CollectorOrder, store
  <2>2. Verdict \in {"succeed", "failed"} /\ (Verdict = "succeed" => passed = N)
    BY NAssumption DEF Verdict, CounterTypes
  <2>3. Verdict = "succeed" => Moved = Obj
    BY <2>2, AllPassed
  <2>. QED  BY <2>1, <2>2, <2>3 DEF Batch!Next, Batch!Judge, Batch!vars, Moved
<1>8. CASE UNCHANGED <<pc, failed, src, db>>
  BY <1>8 DEF Batch!vars, Moved
<1>. QED  BY <1>1, <1>2, <1>3, <1>4, <1>5, <1>6, <1>7, <1>8
          DEF Next, DoMove, MoveOn, Collector, Terminated, vars, AcquireToken, AcquireOnClosed,
              ConcurrentMapAccess, ReportOnClosed, Panic, TimeOut, store

\* A migration, whatever its goroutines do and whenever they die, does no more
\* and no less than its abstract description allows.
THEOREM Implements == Spec => ImplementsBatch
<1>1. Init => Batch!Init
  BY DEF Init, Batch!Init, Moved
<1>. QED  BY <1>1, BatchStep, Invariance, PTL DEF Spec, ImplementsBatch, Batch!Spec

-----------------------------------------------------------------------------
(* Migration implements what JobPipeline has of it *)

Done == IF Closed /\ passed >= N THEN {"job"} ELSE {}
Records == [i \in {"job"} |-> db.status]
Runs == [r \in {"runjob"} |-> Runjob]

\* What does not touch these is invisible to the pipeline.
LEMMA PipelineRests ==
  ASSUME Runjob' = Runjob, Done' = Done, db'.status = db.status, crash' = crash
  PROVE  UNCHANGED Pipeline!vars
<1>1. Runs' = Runs /\ Records' = Records /\ Alive' = Alive
  BY DEF Runs, Records, Alive
<1>. QED  BY <1>1 DEF Pipeline!vars, Runs, Records, Done

\* The loop is left: the migration is over, with all objects or without.
LEMMA LoopLeft ==
  ASSUME TypeOK, Alive, ~Closed, col' = "return", crash' = crash, passed' = passed, db'.status = db.status
  PROVE  Pipeline!Next
<1>1. /\ Runjob = [at |-> 1, mover |-> "datamover", step |-> "migrate"]
      /\ Runjob' = [at |-> 1, mover |-> "datamover", step |-> IF passed < N THEN "fail" ELSE "succeed"]
      /\ Done = {} /\ Done' = IF passed >= N THEN {"job"} ELSE {}
  BY DEF Runjob, Done, Closed, Alive
<1>2. Records' = Records /\ Alive' = Alive
  BY DEF Records, Alive
<1>3. Runs["runjob"] = Runjob /\ Runs["runjob"].step = "migrate" /\ Runs["runjob"].at = 1
  BY <1>1 DEF Runs
<1>4. \A step : Runjob' = [Runjob EXCEPT !.step = step] => Runs' = [Runs EXCEPT !["runjob"].step = step]
  BY DEF Runs
<1>5. CASE passed < N
  <2>1. Runjob' = [Runjob EXCEPT !.step = "fail"] /\ Done' = Done
    BY <1>1, <1>5, NAssumption DEF TypeOK, CounterTypes
  <2>2. Pipeline!SomeNotMoved("runjob")
    BY <1>2, <1>3, <1>4, <2>1 DEF Pipeline!SomeNotMoved, Pipeline!Goto, Pipeline!consumer, Runs, Records, Done
  <2>. QED  BY <2>2 DEF Pipeline!Next, Pipeline!RunJob
<1>6. CASE ~(passed < N)
  <2>1. Runjob' = [Runjob EXCEPT !.step = "succeed"] /\ Done' = Done \cup {"job"}
    BY <1>1, <1>6, NAssumption DEF TypeOK, CounterTypes
  <2>2. Pipeline!JobOf("runjob") = "job"
    BY <1>3 DEF Pipeline!JobOf, Runs
  <2>3. Pipeline!AfterMigration("job") = {"succeed"}
    BY DEF Pipeline!AfterMigration
  <2>4. Pipeline!AllMoved("runjob")
    BY <1>2, <1>3, <1>4, <2>1, <2>2, <2>3 DEF Pipeline!AllMoved, Pipeline!Goto, Pipeline!consumer, Runs, Records, Done
  <2>. QED  BY <2>4 DEF Pipeline!Next, Pipeline!RunJob
<1>. QED  BY <1>5, <1>6

\* The verdict is recorded, or could not be, and runjob is over.
LEMMA VerdictWritten ==
  ASSUME TypeOK, Return
  PROVE  Pipeline!Next
<1>1. /\ Alive /\ col = "return" /\ col' = "returned" /\ crash' = crash /\ passed' = passed
      /\ db' = db \/ db'.status = Verdict
  BY DEF Return, locals
<1>2. /\ Runjob = [at |-> 1, mover |-> "datamover", step |-> IF passed < N THEN "fail" ELSE "succeed"]
      /\ Runjob' = [step |-> "gone", at |-> 0, mover |-> "nobody"]
      /\ Done' = Done /\ Alive' = Alive
  BY <1>1 DEF Runjob, Done, Closed, Alive
<1>3. Runs["runjob"] = Runjob /\ Runs["runjob"].at = 1
  BY <1>2 DEF Runs
<1>4. Pipeline!JobOf("runjob") = "job"
  BY <1>3 DEF Pipeline!JobOf, Runs
<1>5. Pipeline!Exit("runjob")
  <2>1. Runs' = [Runs EXCEPT !["runjob"] = [step |-> "gone", at |-> 0, mover |-> "nobody"]]
    BY <1>2 DEF Runs
  <2>. QED  BY <2>1 DEF Pipeline!Exit, Pipeline!Gone, Runs
<1>6. Records' = Records \/ Records' = [Records EXCEPT !["job"] = Verdict]
  BY <1>1 DEF Records
<1>7. Pipeline!Record("job", Verdict)
  BY <1>6 DEF Pipeline!Record, Records
<1>8. CASE passed < N
  <2>1. Verdict = "failed" /\ Runs["runjob"].step = "fail"
    BY <1>2, <1>3, <1>8 DEF Verdict
  <2>2. Pipeline!WriteFailed("runjob")
    BY <1>2, <1>4, <1>5, <1>7, <2>1 DEF Pipeline!WriteFailed, Pipeline!OutcomeOfFailure, Pipeline!consumer, Runs, Done
  <2>. QED  BY <2>2 DEF Pipeline!Next, Pipeline!RunJob
<1>9. CASE ~(passed < N)
  <2>1. Verdict = "succeed" /\ Runs["runjob"].step = "succeed"
    BY <1>2, <1>3, <1>9 DEF Verdict
  <2>2. Pipeline!WriteSucceed("runjob")
    BY <1>2, <1>4, <1>5, <1>7, <2>1 DEF Pipeline!WriteSucceed, Pipeline!consumer, Runs, Done
  <2>. QED  BY <2>2 DEF Pipeline!Next, Pipeline!RunJob
<1>. QED  BY <1>8, <1>9

\* A panic of any goroutine ends the datamover.
LEMMA ProcessDies ==
  ASSUME NEW why, why # "none", Panic(why)
  PROVE  Pipeline!Next
<1>1. UNCHANGED <<col, passed, db>> /\ ~Alive'
  BY DEF Panic, locals, Alive
<1>2. Runjob' = [step |-> "gone", at |-> 0, mover |-> "nobody"] /\ Done' = Done /\ Records' = Records
  BY <1>1 DEF Runjob, Done, Closed, Records
<1>3. Runjob.mover = "datamover" \/ Runjob = [step |-> "gone", at |-> 0, mover |-> "nobody"]
  BY DEF Runjob
<1>4. Runs' = [r \in {"runjob"} |-> IF Runs[r].mover = "datamover" THEN Pipeline!Gone ELSE Runs[r]]
  BY <1>2, <1>3 DEF Runs, Pipeline!Gone
<1>5. Pipeline!Crash("datamover")
  BY <1>1, <1>2, <1>4 DEF Pipeline!Crash, Pipeline!Idle, Runs, Records, Done
<1>. QED  BY <1>5 DEF Pipeline!Next

LEMMA RunjobStep ==
  ASSUME TypeOK, [Next]_vars
  PROVE  [Pipeline!Next]_(Pipeline!vars)
<1>1. CASE UNCHANGED <<col, passed, db, crash>>
  <2>1. Runjob' = Runjob /\ Done' = Done
    BY <1>1 DEF Runjob, Done, Closed, Alive
  <2>. QED  BY <1>1, <2>1, PipelineRests
<1>2. ASSUME NEW o \in Obj, Collect(o) PROVE [Pipeline!Next]_(Pipeline!vars)
  <2>1. ~Closed /\ ~Closed' /\ UNCHANGED <<db, crash>> /\ col # "returned" /\ col' # "returned"
    BY <1>2 DEF Collect, Closed
  <2>2. Runjob' = Runjob /\ Done' = Done
    BY <2>1 DEF Runjob, Done, Alive
  <2>. QED  BY <2>1, <2>2, PipelineRests
<1>3. CASE UpdateProgress
  <2>1. Alive /\ ~Closed /\ col # "returned" /\ UNCHANGED <<passed, crash>> /\ db'.status = db.status
    BY <1>3 DEF UpdateProgress, Closed, locals, TypeOK, RecordTypes
  <2>2. CASE col' = "return"
    BY <2>1, <2>2, LoopLeft
  <2>3. CASE col' = "select"
    <3>1. Runjob' = Runjob /\ Done' = Done
      BY <2>1, <2>3 DEF Runjob, Done, Alive, Closed
    <3>. QED  BY <2>1, <3>1, PipelineRests
  <2>. QED  BY <1>3, <2>2, <2>3 DEF UpdateProgress
<1>4. CASE TimeOut
  BY <1>4, LoopLeft DEF TimeOut, TimerArmed, Closed
<1>5. CASE Return
  BY <1>5, VerdictWritten
<1>6. ASSUME NEW why \in {"send on closed th", "send on closed capa", "concurrent map access"}, Panic(why)
      PROVE  [Pipeline!Next]_(Pipeline!vars)
  BY <1>6, ProcessDies
<1>7. CASE DoMove
  <2>1. UNCHANGED <<col, passed, db, crash>> \/ Panic("send on closed th")
    BY <1>7 DEF DoMove, StartMover, AcquireToken, AcquireOnClosed, locals
  <2>. QED  BY <1>1, <1>6, <2>1
<1>8. ASSUME NEW o \in Obj, MoveOn(o) \/ Transfer(o) PROVE [Pipeline!Next]_(Pipeline!vars)
  <2>1. UNCHANGED <<col, passed, db, crash>> \/ Panic("send on closed capa")
    BY <1>8 DEF MoveOn, Transfer, RefreshSrcLocation, AddMetadata, DeleteData, DeleteMetadata,
                ReportOnClosed, ReleaseToken, locals
  <2>. QED  BY <1>1, <1>6, <2>1
<1>9. CASE ConcurrentMapAccess
  BY <1>6, <1>9 DEF ConcurrentMapAccess
<1>10. CASE Terminated \/ UNCHANGED vars
  BY <1>1, <1>10 DEF Terminated, vars, locals
<1>. QED  BY <1>2, <1>3, <1>4, <1>5, <1>7, <1>8, <1>9, <1>10 DEF Next, Collector

\* What JobPipeline assumes runjob and its process to do while a job is migrated
\* is all they do, with any number of movers and whatever times out or panics.
THEOREM RunsAsInPipeline == Spec => ImplementsRunjob
BY RunjobStep, TypeCorrect, PTL DEF Spec, ImplementsRunjob
=============================================================================
