# TLA+ models of multi-cloud (OpenSDS Gelato)

TLA+ modules, model-checking configurations and proofs kept beside the Go code of `multi-cloud`.
All paths below are relative to the repository (`src/`).

## 1. The system

Five processes talk through go-micro calls, one Kafka topic and one MongoDB database:

```
 client --HTTP--> api ----rpc----> backend   (MongoDB: backends)
                   |-----rpc----> s3         (MongoDB: buckets, object metadata)
                   |-----rpc----> dataflow   (MongoDB: policies, plans, jobs, mylock)
                   |--cloud API-> object stores (AWS, Azure, OBS, Ceph, ...)
 dataflow --Kafka topic "migration"--> datamover --cloud API--> object stores
                                           |-----rpc----> s3 (metadata), MongoDB (jobs, backends)
```

| component | state it keeps | operations |
|---|---|---|
| api/pkg/s3 | none (requests run concurrently) | bucket and object put, get, delete, list; multipart init, part, complete, abort: object store first, metadata second |
| api/pkg/backend, api/pkg/dataflow | none | authorise, convert, forward to the service |
| api/pkg/policy | rules read at start | tokenise, parse and evaluate the authorisation rules |
| backend | backends | create, get, list, update, delete, list of types |
| s3 | buckets, objects (metadata) | create, get, list, delete buckets; create, update, get, list, delete objects |
| dataflow | policies, plans, jobs, the lock table; cron entries in memory | CRUD of policies and plans, run a plan, jobs, triggers, loading plans at start |
| datamover | consumer offset, goroutines of the running jobs | consume job messages, prepare, migrate, analyse, report |
| movers | none | download, upload, multipart transfers with three attempts each |

What a component keeps and does is read from its code; line numbers are of the files named. `script/` holds two
Python scripts that talk to the analysis service and the `proto` directories are generated: these are taken as given.
`api/pkg/utils/obs` is the client for Huawei's stores, kept in the repository and compiled into api and datamover.

### What is hard in it

* **datamover, a job**: one goroutine starts movers, movers report on an unbuffered channel and give tokens back on a
  buffered one, a third goroutine collects and closes both channels, possibly while others still send; a map is shared
  without a lock; the source is deleted object by object while others fail.
  *Correct* means: counts, verdict and what was deleted agree; no object is lost; the job ends.
* **datamover, an object**: three tries of every call, answers that are lost, parts of a large object, two movers of the
  same object. *Correct* means: what counts as moved is there, with all its bytes, and never there in part.
* **job messages**: the record is in MongoDB and the message in Kafka; sends may fail or be stored twice, the consumer
  may come late, die, or get a message again. *Correct* means: one goroutine per job, verdicts that stay, no message
  committed unhandled, jobs that end.
* **database lock**: a unique document with a time, taken over when it is too old, with retries on error.
  *Correct* means: exclusion, nothing left behind, recovery after a crash.
* **plans and triggers**: the same fact is in a policy, a plan and a cron entry in memory, changed one after the other
  by calls that overlap and fail. *Correct* means: a plan fires exactly when the database says so.
* **api, s3 service, datastores**: every operation changes a store and then the catalogue (or the other way round); either
  can fail, an answer can come too late, the body can break off, requests overlap, and the backend an object lies in can
  be given other keys or go. *Correct* means: what is listed is what is stored, where its document says.
* **authorisation**: a shift-reduce parser whose reductions are tried in the order of a Go map; rules loaded into a shared
  map by one request while another evaluates them; a service token that expires under a request. *Correct* means: one rule
  text has one meaning, and whoever reaches a handler is allowed to.
* **requests about plans**: every update writes the whole document it has read, a call goes on when its caller has given
  up, and a database that fails often reads as an empty one. *Correct* means: what was acknowledged is what is recorded.
* **lists**: pages, while others add and remove. *Correct* means: what was there all the time is in the list, once.
* **the OBS client**: requests are sent again after errors and redirects, with bodies that have been read. *Correct*
  means: what is reported as stored is stored whole.

## 2. Plan

In the order of what matters most to an owner of data; all of these are done.

| # | module | models | abstract specification | proofs |
|---|---|---|---|---|
| 1 | `Migration` | doMigration, doMove, move | `MoveBatch`; runjob in `JobPipeline` | `MigrationProofs` |
| 2 | `JobPipeline` | Run's record and message, consumer, runjob | `JobLife` | `PipelineProofs` |
| 3 | `DbLock` | lock, unlock and their callers | – | `DbLockProofs` |
| 4 | `PlanTrigger` | policies, plans, trigger manager, cron | – | `PlanTriggerProofs` |
| 5 | `ObjectTransfer` | moveObj, multipartMoveObj, four movers | `MoveObject` | `TransferProofs` |
| 6 | `S3Gateway` with `S3Documents` and `Datastores` | api/pkg/s3, the s3 service, the four adapters, backends | `truth`: what acknowledged requests said | `GatewayProofs` |
| 7 | `RuleParser`, `RuleMeaning`, `Authorization` | api/pkg/policy, the filters | `Meanings`: the grammar of rules | `ApiProofs` |
| 8 | `DataflowDesk` | routes and handlers of policies, plans, jobs | `agreed`: what acknowledged calls said | `ApiProofs` |
| 9 | `Listing` | ListObjs of the movers, DeleteObj, lists of backends and types | – | `CloudProofs` |
| 10 | `ObsHttp` | doHttp of the OBS client and the calls with a body | – | `CloudProofs` |
| 11 | `CloudApi` | 6 to 10 side by side | – | `CloudProofs` |

How they fit together: `PlanTrigger` ends where a cron entry fires and calls Run; `DbLock` is the lock that Run and every
change of a plan take (one step in `PlanTrigger`, whose writes rely on the exclusion that `DbLock` shows); `JobPipeline`
takes over at the record that Run stores; its step from "migrate" to a verdict is the whole of `Migration`, whose
liveness (`JobEnds`) is the fairness `JobPipeline` assumes of it, and every step of `Migration` is one that `JobPipeline`
lets runjob and its process take, or is invisible to it (`ImplementsRunjob`: one job, one runner, with the failures and
the crash of `JobPipeline`); and `Migration`'s step `Transfer` is the whole of `ObjectTransfer`, with the assumption "no
error means the object is there". `MoveObject` states that assumption, with what a failed transfer may leave, and
`ObjectTransfer` implements it (`MovesObject`) for the requests it calls `Reliable`; for others it is false.

`DataflowDesk` sees the same policies and plans as `PlanTrigger`, from the documents' side: what each call writes of a
whole record, where `PlanTrigger` follows the cron entries. In `Datastores` a put to Huawei's store takes from `ObsHttp`
what a second attempt sends (`Leftover`), as `ObjectTransfer` does for the movers. `Listing` is where `JobPipeline`'s
preparation gets its objects from. The parts in `CloudApi` have no variable in common, so its behaviours are those of one
part while the others rest: what holds of each holds of all, which `CloudProofs` proves (`PartsKeepTheirs`).

Not done: sources that change while they are moved (`ObjectTransfer`), a refinement of `S3Gateway` to a bucket
of objects where the requests permit one, and a composition of `JobPipeline` with two `Migration`s of one job.

## 3. The modules

A definition whose name has an underscore (`Passes_Positive`) is a faulty variant of the definition that follows it.
Nothing in a specification uses one; exchanging the two must make the named property fail, which shows that the property
says something about the code. `MC*` modules hold the values of constants for TLC, `PROJECT.json` maps every definition
to the lines it models.

### Migration

State: `pc` is where each mover (function move) stands, `failed` its local `succeed`; `src, srcMeta, dest, destMeta` are
the objects with data and metadata in either bucket; `started, acquired, th` are doMove's loop and the buffered channel;
`col, count, passed, capacity, tmout` are the collector's loop and locals; `j` and `db` are the job's progress fields in
memory and in the database; `crash` is the reason the process died.
Actions: `StartMover`, `AcquireToken` (the two statements of doMove's loop), per mover `RefreshSrcLocation`, `Transfer`,
`AddMetadata`, `DeleteData`, `DeleteMetadata`, `Collect` (the rendezvous on capa), `ReleaseToken`; `UpdateProgress`,
`TimeOut`, `Return` of the collector; and the three ways to die: a send on either closed channel, and two movers in the
shared map at once (a data race that the Go runtime may make fatal, so it may happen but need not).
Every call may fail, and a failed call may have taken effect. `UpdateJob` writes only fields that are not zero (`Merge`).
`MoveBatch` is what a batch of moves promises: sources go after their copies, one verdict, "succeed" only when all is copied.
`Pipeline` maps the state to that of `JobPipeline` with this job alone: its message is handed over, its goroutine is at
"migrate" until the loop is left, then at the verdict, which is the count's, and is gone after it or with the process.

### JobPipeline

State: `db` (status of each job), `sending` (the `go sendJob` goroutines), `topic`, `committed`, `owner`, `pos`, `marked`
(the consumer group), `handling` (a message in HandleMsg and the status read before the decision), `runner` (runjob
goroutines), and three history variables. Actions follow Run, ProduceMsg, Init, LoopConsume, HandleMsg and runjob
statement by statement as far as status writes and messages go; `Faults` says what may go wrong. A runner's status write
may fail, as its errors are only logged. `JobLife` is the life of a record: pending, perhaps running, one verdict.
The analysis jobs are in the model with the outcomes the code can produce; `ImplementsLife` and `PlainJobsEnd` are about the
jobs without one, because a failed analysis is fetched all the same (migration.go:807) and may leave its job running for ever.

### DbLock

State: the lock document (`by`, `age`) and for each goroutine where it is in `lock`/`unlock`, how often it has called, the
time since its last call, and whether it has deferred an unlock. `Style` tells the two callers apart: the manager's four
calls, whose last result decides, and Run's loop, which ignores the fourth. Clocks of different machines are taken to agree.

### PlanTrigger

State: policies, plans (as in the database), the running cron entries, the map of `CronTrigger`, and what each call in
progress holds. Each call of the service is cut where another one may come in between: read, Remove from the trigger, stop
the entry, look the policy up, start an entry, write. Policies of other tenants, schedules without a trigger type and cron
texts that do not parse are members of constant sets. `DeleteMisread` is the deletion whose read fails in the database:
GetPlan returns an empty plan and no error (mongo.go:575-593), so Delete sees no policy, leaves the trigger alone
(plan.go:151) and erases the record with ok (:159). `clean` (plans whose calls came one after the other and succeeded) and
`stuck` (plans whose entry fires on because an update found no trigger to remove from, or a deletion could not read the
plan) are history variables: the properties are about what the code can be held to, and these two sets name the exceptions.

### ObjectTransfer

State: `req` (kinds of the two stores, whether they are virtual buckets, size), and for each mover of the same object
where it is (`at`), the try it is at, the part number, what its buffer holds, the parts it has listed, and its result; in
the store its multipart upload, the parts, and the object. Bytes are ranges of the source (`Pieces`); `Mixed` stands for
bytes in the wrong place. Each call of a mover is an operator that gives the outcomes of one try (`S3UploadPart`,
`ObsDownloadRange`, ...), read from the mover and from the client it uses: which errors are tried again, which are
returned at once, what a refusal that the client does not recognise does, what the second try finds in the reader. The
actions of `moveObj` and `multipartMoveObj` do one try each. `Reliable` names the requests for which the code keeps its
word: to AWS or Azure, a small object under the right key, and not in parts from OBS. `Object` maps the state to that of
`MoveObject`: nothing, a part or the whole is at the destination, and a transfer has answered or has not.

### S3Gateway, S3Documents, Datastores

One bucket and one object, several requests. `S3Documents` is the s3 service: `docs` are the documents that match, `svc`
the service call each request waits for, `late` the calls nobody waits for any more; a call is several calls of mongo
(`look`, `find`, `insert`, `update`), between which others run. `Datastores` gives for each adapter and operation the ways
it may end (`Ends`, `Fails`): refused, done, done with an error for an answer, or, with a body that breaks off, whatever
that adapter stores of it. Contents are sequences of pieces, numbered by the request that sent them. `S3Gateway` has the
handlers, one action per call they make: `ObjectPut`, `ObjectGet`, `ObjectDelete`, `MultiPartUploadInit`,
`UploadPartRequest`, `CompleteRequest`, `AbortRequest`, `BucketPut`, `BucketDelete`, and the operator's requests that
register, change and remove backends in between. `truth`, `safe` and `solo` are history variables: what the requests that
were alone and acknowledged have said.

*Sizes.* The recorded size is what the content-length header says (`Declared`), 0 for a body in chunks (`sized` is FALSE),
and for an upload the sum of its parts' (objectput.go:52, uploadpart.go:21 and :68). `AgreesWithRequests` holds the
document to that; that it is the length of what is stored is false of a body in chunks. The body of a part
arrives whole in the model, that of a put may break off (`whole`); AWS and Ceph may refuse a part without a length.

*Ranges.* ObjectGet makes two numbers of a Range header, and an end that is missing is 0 (objectget.go:41-47). `Ranges` has
no range, bytes=0-1, one unit (1-1), and the open 1- and 2-; the suffix form bytes=-1 is read as 0-1, in the model too, so
no property is about what it asks for. Other ranges that end before they begin are left out. The four adapters put that to
their stores in four ways: the client for OBS sends a range only if it ends after it begins (`HwsGET`), AWS sends N-0
for an open range (`AwsOpenGET`), the one for Ceph leaves out an end of 0, and Azure's makes a buffer of the range's length
(`AzureRangeGET`), where a negative length is a panic of the handler, and a failed request one of a goroutine in the
library, which ends the process (`Fatal`). `ReadsAgree` gives an adapter that cannot ask for the range (`Honoured`)
the choice between the range and the whole object, and of a whole blob, which is read into a buffer of the
recorded size with one Read, it asks for that many bytes, of which any may be zero.

*Keys* that are not right make the store refuse everything, which each adapter turns into what it makes of an error
(`WrongKeys`); Azure's adapter, if it could not be made at all, is nil.

Three exceptions are in the definitions the properties use: only the first document of two is looked at (`Shows`); a
deletion whose metadata cannot be read answers 200 and changes nothing (objectdelete.go:41-50), so it does not count as
acknowledged; and the size of an object whose parts overlapped is held to nothing.

### RuleParser, RuleMeaning, Authorization

`RuleParser` writes a rule word by word and keeps the parser's stack; `Reductions` are all outcomes of `reduce`, whichever
way the map is walked. `Exec` evaluates a tree, as a function of how many checks may still wait for one another, which
stands for the stack (`MaxNesting`). `RuleMeaning` has the grammar read as a definition, `Meanings`: the sets of roles that a
text allows; it is recursive and a module of its own, which only `MCCloudApi` extends, since nothing with a recursive operator can be
proved about. `Authorization` has the requests on their way: `Arrive`, `VerifyToken` and `SetUp` of the keystone filter, with the token
all requests share, `Authorize`, the loading of rules (`UpdateRules`, one name at a time, `Collides` when two write the map) and
`Enforce`. The credentials that the enforcer gets are empty: the filter sets attributes that the context never reads.

### DataflowDesk

`base` is the database, `desk` the request of each clerk, `strays` the calls that run on. Each route is an action that
begins a call; what only reads answers in one step, the others read, check and write in several. The manager's lock is one step
(`DbLock`); the trigger's part is in `PlanTrigger`. `agreed` says of each plan what acknowledged calls made of it, and
whether it can still be held to that (`sure`): calls that overlap, fail, or run late take it away.

### Listing

`shelf` is what is there, `lister` a list under way, `removal` a DeleteObj, with moves of others in between. `Wanted` says
what each list can be held to: of AWS nothing when the list has more than one page (ListObjs returns its last page), of OBS the keys above the marker "0", of Ceph
one page, of the s3 service the keys that the prefix matches as a regular expression.

### ObsHttp

`call` is one doHttp: the body, where its reader stands, its count and mark, the retries left, the redirects followed, the
error and response in hand; `held` is what the store has. Each kind of body says how it is set back (`rewinds`), and
`Restarts` names those that are set back to where they began.

## 4. What is checked

Two workers, a few seconds to three minutes for each run.

| run | what it shows | instance and why it is enough |
|---|---|---|
| `migration` | all safety properties of a job, that it implements `MoveBatch` and what `JobPipeline` has of runjob, that it ends (`JobEnds`) and its reports arrive (`AllReportsArrive`) | 3 objects of sizes 1, 0, 3 and one token: a mover waits, one runs beyond the token, one holds it; progress written every time and at tenths (BigJob 2); copies and moves with at most one virtual bucket. Between two virtual buckets each side has the steps it has with one; the theorems are about all requests |
| `pipeline` | `AtMostOneRunner`, `ImplementsLife` with crashes, late consumers, failing writes, lost sends | 2 jobs (with and without analysis), 2 datamovers, 2 goroutines, 2 messages |
| `pipeline_again` | `SucceedWasMoved`, `CommittedWasCalled` with stored duplicates and rebalances on top | 2 jobs, 2 datamovers, 2 goroutines, 2 messages: one job twice or two jobs |
| `pipeline_live` | `PlainJobsEnd` with duplicates | 1 datamover, 4 messages, 3 goroutines (one more than can be needed for a job at once) |
| `lock_manager` | exclusion and release of the manager's lock when insertions and reads fail | 3 goroutines, a lease of 2 ticks: one holds, one removes an old lock, one comes third |
| `lock_recovers` | `LockRecovers` with a crash and a slow holder | 2 schedulers, at most 2 crashes |
| `lock_sched` | *violated*: Run is not exclusive | 2 schedulers, no faults |
| `schedule` | the three properties of plans and their entries, with failing calls, misread plans, overlaps and restarts | 1 plan, 2 policies (one foreign), a daily, an untyped and a broken schedule, 2 callers, 3 entries |
| `schedule_policy` | *violated*: entries follow their policy | the same with one caller and a second usable schedule (weekly): the property exempts schedules that cannot fire, and the trace changes daily to weekly |
| `transfer` | `PassedIsThere`, `OpenUploadsAccounted`, `MovesObject` for all kinds of stores and keys | 2 movers, parts of 2 bytes, sizes 0, 2 and 5: nothing, one part, three parts with a short (one byte) last one |
| `transfer_obs` | *violated*: `PassedIsMigrated`, that is `PassedIsThere` without `Reliable` | 1 mover, AWS to OBS |
| `api` | each of the parts of `CloudApi`: `PutsSurvive`, `AgreesWithRequests`, `ReadsAgree` of the gateway; `RuleMeansText`; `OnlyAllowedReachHandlers`, `RefusedForAReason`; `DeskAgrees`; `ListsAndRemoves`; `ObsStoresWhole`; their types | see below |

The instance of `api`. *Gateway*: two callers, one failure or late answer, bodies with and without a length, every range, and
twenty-eight worlds, each with the backends that are registered and the requests to come: two puts and a deletion, two puts
over two storage classes, a put with a get and a put with a deletion on each type of store, an upload of two parts on AWS and
of one part on each, one that is aborted and one whose backend gets other keys on each, the bucket's own requests beside a
put, a type without an adapter, and backends that are
registered, changed or removed between the calls. Two racing requests and one sequential one suffice for every lost update
and orphan that we know of.
*Rules*: every text of up to four words, and up to seven where operators and operands take turns: all combinations
of `not`, `and`, `or` on either side of each other and parentheses around the pair. *Authorisation*: two requests, seven files
(chains and rings of names, constants, texts that do not parse), two troubles. *Desk*: two clerks, seven mixes of up
to five requests, one failure. *Lists*: five keys, pages of two, three moves by others. *Client*: three pieces, three retries, two redirects;
a source of three pieces has a beginning, a part behind it and an end. Symmetry exchanges the two clients. No deadlock is
checked: a world ends when its requests are over.

Symmetry is used for goroutines, callers, datamovers and movers, in safety runs only.

**Fairness.** Goroutines that can run do run (weak fairness of each goroutine's steps). `JobEnds` assumes in addition that
the timer fires, and nothing of the transfers; `AllReportsArrive` assumes that transfers end, and nothing of the timer.
`api` assumes no fairness and claims no liveness: the answers come from stores and services of which nothing is assumed.
`PlainJobsEnd` assumes that the group gets an owner and that a migration ends (which is `JobEnds`); nothing is assumed of
failures, crashes or progress updates. `LockRecovers` assumes that time passes and that the trigger of the plan fires again.

**Findings.** Three places where the code does what its documents deny; each has a run that shows it.

1. `lock_sched`: Run's loop (dataflow/pkg/plan/plan.go:297-310) calls LockSched a fourth time and does not look at the
   result, against "scheduling must be mutual excluded" (:296). No fault is needed.
2. `schedule_policy`: `updatePolicyInTrigger` hands a `bson.M` to a function that accepts a `map[string]string`, after the
   policy has been written; the entries of its plans keep their old times.
3. `transfer_obs`: a put to OBS that is tried a second time sends what the first try has left in the shared reader, usually
   nothing, and counts as migrated; with a move, the source is deleted.

Seen while modelling and kept in the models, without a run: a message that is stored or delivered twice before the first
goroutine has written the status starts the job twice (`AtMostOneRunner` is checked without duplicates for this reason);
the query for the plans that use a policy (mongo.go:251) has a colon for a dot and finds none, so a used policy can be
deleted; a lock that two processes find expired can be taken by both; SimuRoutines + 1 movers exist, one more than the
comments at migration.go:72 and :686 say; a report of 0 counts as moved although the comment at :701 says failed;
a plan whose read fails is erased and its entry fires on (mongo.go:575, plan.go:151-159);
analysis jobs set a status "Running" that swagger.yaml:904-908 does not list; docker-compose sets JOB_MAX_RUN_TIME where
the code reads JOB_RUN_TIME_MAX.

Seen in the parts of `CloudApi`, likewise without a run: a body in chunks is stored whole, acknowledged and listed with size 0,
where openapi-spec/swagger.yaml:1020 says "The size of object" (objectput.go:40, :52); bytes=1-1 and bytes=1- bring the
whole object from OBS, as its client sends a range only if RangeEnd > RangeStart (api/pkg/utils/obs/trait.go:364), so that
a last part of one byte is the whole object again; a range of a blob beyond its end ends the process (azure.go:104); two puts of a new object insert two documents, and a deletion
leaves the second listed; a put to another storage class leaves the data in the old store; overlapping parts lose a size;
the Azure and Ceph adapters store a body that broke off; an error of Init ends the process with AWS and Ceph; the keystone
filter swaps the attributes for roles and tenant (keystone.go:139-142) and the enforcer sees neither; a missing policy
file refuses everything, also when rules are loaded; an update of a policy with a schedule always answers with an
error after it was written; ListPlan fails as a whole when the policy of one plan is gone; AWS lists of several pages
give the last one and may never end; a client that sends a request again repeats a counted reader without what it
has counted, and a file part from its beginning; it follows redirects without end, and it keeps a transport
error after a successful second try.

## 5. What is proved

TLAPS checks these for every value of the constants that their named assumptions allow. Each follows from an inductive
invariant, as none of the properties is inductive alone.

* **Migration** (`MigrationProofs`): `TypeOK`, `RoutineBound`, `NoDataLoss`, `SourceFindable`,
  `PanicOnlyWhenLate`, `SucceedMeansMoved`, `ProgressNeverFalls`, `RecordAgrees`, and the two refinements
  `ImplementsBatch` and `ImplementsRunjob`. The invariant
  relates the four actors: `SpawnOrder` (movers start in order, at most one without a token), `TokensCovered` (tokens in
  th match movers that have yet to take one), `CountsAgree`, `MoverOrder` (what must be true of an object where its
  mover stands) and `CollectorOrder` (what the counters are where the collector stands). The verdict follows because N
  reports without a failure leave no object out. `ProgressNeverFalls`, with lost updates and with fields of zero left
  out of an update, because the record shows an earlier state of the job's fields, and these an earlier state of the
  counters (`ShownBefore`). `RecordAgrees` is about sums over sets of objects. What the module for sums defines by
  recursion is unfolded one element at a time (`SumsUp`), and that sums exist, agree and add up for all finite sets is
  shown by a least counterexample, with the library's theorem that a set of numbers has a least one. The invariant
  `BytesTrue` then says that the capacity is the sum of what was reported, that a percentage is one of the whole, and
  that 100 is reached with all bytes only. `ImplementsRunjob` goes step by step: leaving the loop is SomeNotMoved or
  AllMoved of `JobPipeline` (`LoopLeft`), the end of runjob WriteFailed or WriteSucceed (`VerdictWritten`), a panic of any
  goroutine Crash (`ProcessDies`), and all else leaves its variables alone (`PipelineRests`).
* **JobPipeline** (`PipelineProofs`): `TypeOK` under any faults; `AtMostOneRunner` and `ImplementsLife` without
  duplicated messages and rebalances, through any crashes and failures. The invariant has four parts: `OneMessage` (a
  job has one message at most, sent after its record was made), `InOrder` (HandleMsg has the last message that was
  received, and the live goroutines are the owner's and have earlier ones), `OwnMessage` (no two goroutines have the
  same message) and `OpenRecords` (for a job without analysis: while its goroutine runs, and from the moment HandleMsg
  reads "pending" to the start, the record has not ended). One runner follows from the first three, the life of the
  record (`JobLife`, for the jobs without analysis) from all. `SucceedWasMoved` and `CommittedWasCalled` hold under
  every fault, duplicates and rebalances included: the first because no goroutine gets beyond its migration without
  having moved all (`MovedBefore`), the second because all that lies before a mark or before the message in hand was
  handed over (`HandedInTurn`), also by datamovers that go on with a message after the partition was taken from them.
* **DbLock** (`DbLockProofs`): `TypeOK` under any faults and for both callers; `MutualExclusion` and `ReleasedOnReturn`
  of the manager's style without crashes, slow holders and failing removals. The invariant: whoever is inside owns the
  document, and the document is not older than the time since its owner's call, so nobody finds it expired.
* **PlanTrigger** (`PlanTriggerProofs`): `TypeOK`, `CleanPlansKeepTheirEntry`, `EnabledPlansFire`,
  `OnlyEnabledPlansFire` for any numbers of plans, policies and callers. The invariant is stated plan by plan: a clean
  plan has at most one call, and where that call stands says which entry exists and whether the database agrees with it.
  Frame lemmas show that steps on other plans leave it alone.
* **ObjectTransfer** (`TransferProofs`): `TypeOK`, `PassedIsThere`, `OpenUploadsAccounted`, and the refinement
  `MovesObject`, for any number of movers, any size and part size. The invariant: a mover's buffer and list are
  determined by where it is (`Moving`), a part in the store is the right one whoever sent it (`PartsRight`), the object
  is absent or whole (`DestWhole`), and a success was answered after the object was there (`Landed`). That the parts make the whole is `PartsMakeWhole`, a
  lemma on the offsets. For `OpenUploadsAccounted`, which holds of all stores but ceph and needs no `Reliable`, the
  invariant says where a mover with an open upload may stand (`Handled`: nowhere before its first part was read, and
  never with a blob) and that what is aborted has failed; two lemmas say what the answers to a completion and an abort
  mean for the upload.
* **S3Gateway** (`GatewayProofs`): `GatewayTypeOK`, `AgreesWithRequests`, `PutsSurvive`, `ReadsAgree` of `GatewaySpec`,
  for any numbers of callers, backends, requests, parts, failures and late calls. Eight parts make the invariant:
  `Standing` (which request is at which step), `OpenIds` (no upload has the number that stands for blocks of a blob),
  `Solitude` (who is alone is the only one that modifies, and nothing comes late), `Truthful` (the state fits what is
  known, or the service call of the one that is alone is about to make it fit: `Fitting`), `Calm` (the same among puts
  only, where the order is open but every document leads to a store that has the object), `Prepared` (what a handler has
  read is still so and its adapter is for that store), `SoFar` (what a download has is the beginning of the object), and
  the types. Lemmas say of each operation of each adapter what it does to the object and the parts and what its answer
  is worth, and of each mongo call of the s3 service what it does to the first document. Assumed of the constants
  (`GatewayAssumption`, `DatastoresAssumption`): backends have names, which are not the empty one, parts are numbered
  from 1, and a client lists the parts of an upload in their order.
* **RuleParser, Authorization** (`ApiProofs`): `OnlyAllowedReachHandlers` and `RefusedForAReason` of `AuthSpec`, for any
  policy files, rules, requests and bound on nesting. The invariant says that the rules which are loaded are the file's
  (`RulesOfFile`), that whoever is past the filter has a token that keystone took (`TokensTaken`), and that a second
  attempt has a fresh service token or a reason to fail (`RenewedOrTroubled`). What carries the first is `MoreRules`: a
  check that answers without a panic by some of the rules answers the same by all of them. That is so because a name
  without a rule is a panic and never an answer, which passes through `not`, `and` and `or` (`ExecOneMore`); the one
  case that does answer, no rules at all, is no case of a request whose action has one. Evaluation is a recursive function
  over the depth, so the lemma goes by the least depth at which it could fail (`LeastOf`). Of the parser,
  `OrderDoesNotMatter`: a state ends in one handle or none, so the order of Go's map makes no difference. Assumed of the
  constants (`AuthorizationAssumption`): files have rules for known names, and the strategies are those there are.
* **DataflowDesk** (`ApiProofs`): `DeskAgrees` of `DeskSpec`, for any clerks, plans, requests and failures. The
  invariant is stated plan by plan (`Kept`): what is said is said of a plan there is; a call that runs on without its
  clerk leaves a disturbed call behind until nothing is said any more; a call that nothing has disturbed is the only one
  about its plan and knows what is recorded (`Undisturbed`); and when nothing is under way the record is what was said.
  An update keeps this because documents that are the same but for their assistance are changed to documents that are.
  `DeskTypeOK` follows from a second invariant beside it (`DeskTypes`): the documents are of their types, locks and jobs are
  of plans that there are or have been, and a call that is to write or run a plan has one in hand (`ProperCall`); a step of
  the service, failed or not, leaves them so (`ServedWell`, `FaultedWell`). Assumed of the constants (`RequestsAssumption`):
  what a client asks for has the types of the request's fields.
* **ObsHttp** (`CloudProofs`): `ObsStoresWhole` for bodies of any length and any number of retries and redirects. The
  invariant relates the reader to what has been sent: before an attempt, a body that restarts stands where it began, and
  what the store holds is all of it or nothing; the count of attempts is bounded by retries and redirects together.
* **Listing** (`CloudProofs`): `ListsAndRemoves` of `ListSpec`, for any keys, size of a page, limits and changes by
  others. The invariant says what a list has while it is being made (`SoFar`): of Azure and OBS, all that stayed up to
  the marker and nothing beyond it; of backends, as long as none was removed, the rows between the offset asked for and
  the one reached, which stay where they are because new rows come last; of types the same, from a list that never
  changes; of AWS, that the marker is still the first one unless there was more than a page. The lemmas under it are about
  sets of numbers in their order: every member has its place (`PlaceIs`, an injection between finite sets of one size), a
  run of places is a run of the sequence (`RunIs`), and a page with no other after it has all that follows its marker
  (`PageIs`). Assumed of the constants (`ListingAssumption`): keys are finitely many and positive, and the keys up to
  "0" are below the others.
* **CloudApi** (`CloudProofs`): `ApiTypeOK` and `ReadsAgree` of `ApiSpec`, and the conjunction of the other safety
  properties of its parts (`CloudHolds`). `PartsInv` is the conjunction of the parts' invariants. It holds at first because
  a part that rests begins as one with nothing to do, which is an initial state of its specification or of one that differs
  in constants only; and it stays because a step of the whole is for every part one of its own or none (`ApiSteps`).

TLC has checked each invariant on small instances as well: that of the gateway on 1720000 states of `GatewaySpec` alone (with two-part uploads on every store), that of the desk on
772000 of `DeskSpec`, that of the lists on 279000 of `ListSpec`, that of the authorisation on 379000 of `AuthSpec`.

Only model-checked: all liveness, which is out of the prover's reach, and `RuleMeansText`, that a rule means what its text
says. It compares a parser with a grammar over texts of any length, an induction over data with a recursive definition on
one side; `RuleMeaning`, which has it, joins `CloudApi` in `MCCloudApi` only. The assumptions of the theorems are named in the modules: those on
constants (`...Assumption`), and `Single`, `Reliable` where a theorem is about some faults or requests only.

## 6. What is not modelled

Sections of `PROJECT.json` list every component. Left out on purpose: deadlines of the contexts and differing clocks;
validation of requests beyond what `DataflowDesk` has (a request that is refused changes nothing); the wording of answers;
parts whose creation's answer is lost (an upload nobody knows of); sources that change while a job moves them; an answer of
keystone without a project or a user, on which the filter panics, while one without roles is accepted (keystone.go:130-141,
`KeystoneFails`); a plan request without assistance, which panics, and the check of an empty type (dataflow/pkg/service.go:336,
:417), neither of which gets to the database (`CreatePlan` of `DataflowDesk`); ranges that end before they begin, but for the
open ones.
Of the OBS client, signatures, headers, the conversion of answers, and calls without a body, which differ in their parameters
only; of the analysis jobs, the REST calls and the two scripts (their outcomes are in `JobPipeline`). Not modelled at
all: configuration and constants, read once at start, and the generated stubs with the interface description.
