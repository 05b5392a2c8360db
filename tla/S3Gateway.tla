------------------------------ MODULE S3Gateway ------------------------------
(***************************************************************************)
(* The object requests of the api service (api/pkg/s3): one bucket and one *)
(* object in it, several requests at a time.  Each handler is a sequence   *)
(* of calls: of the s3 service (S3Documents), of the backend service, and  *)
(* of the object store its backend stands for (Datastores).  Requests are  *)
(* those the authorisation has let through.                                *)
(***************************************************************************)
EXTENDS Datastores, S3Documents, Integers, FiniteSetsExt

CONSTANTS
  Backends,    \* backends that may be registered, each with a store of its own
  NameOf,      \* the name of each
  TypeOf,      \* its type
  PartLists,   \* what a client may ask to complete, ascending
  Worlds,      \* the backends registered at first and the requests to come
  MaxHiccups   \* bound on the calls that fail

Ops == {"put", "get", "delete", "init", "part", "complete", "abort", "bput", "bdelete"}
Edits == {"register", "rekey", "unregister"}
Kinds == Ops \cup Edits

ASSUME GatewayAssumption ==
  /\ NameOf \in [Backends -> Locations \ {""}] /\ "" \in Locations /\ "nil" \notin Backends
  /\ PartLists \subseteq Seq(PartNumbers) /\ 1 \in PartNumbers /\ MaxHiccups \in Nat
  /\ \A asked \in PartLists : \A i, j \in DOMAIN asked : i < j => asked[i] < asked[j]
  /\ Worlds \subseteq [registered : Seq(Backends), quota : [Kinds -> Nat]]

VARIABLES
  backends,  \* the documents of the backend service, in the order of insertion
  stores,    \* the stores behind them
  at,        \* what each request does next
  req,       \* the request
  seen,      \* the metadata the handler has in hand
  client,    \* the backend its adapter was made for
  body,      \* what a download has got, kept until the next request
  quota,     \* requests still to come
  count,     \* requests so far
  given,     \* the upload ids that clients know
  hiccups,   \* calls that have failed
  \* History, for the properties only:
  solo,      \* requests that have been alone so far, and without failures
  calm,      \* requests beside which there have been puts and gets only
  truth,     \* what follows from the requests that were alone
  safe       \* a put was acknowledged, and since then there have been only puts

serviceVars == <<backends, stores>>
requestVars == <<at, req, seen, client, body, quota, count, given, hiccups>>
historyVars == <<solo, calm, truth, safe>>
gatewayVars == <<docVars, serviceVars, requestVars, historyVars>>

\* What ObjectGet makes of a Range header: none, bytes=0-1, 1-1, 1- and 2-.  It
\* reads bytes=-1 as 0-1; ends that are crossed otherwise are left out.
Ranges == {g \in [from : 0..2, to : 0..1] : g.to = 0 \/ g.from <= g.to}
\* A chunked body (~sized) comes without a content-length.
Request == [op : Ops, r : Nat, class : Locations, range : Ranges, whole : BOOLEAN, sized : BOOLEAN,
            part : PartNumbers, upload : UploadIds, asked : Seq(PartNumbers)]
NoRequest == [op |-> "none"]
Failed == <<-1>>  \* in place of a body
NoBackend == [id |-> "nil", good |-> FALSE]

-----------------------------------------------------------------------------
(* The backend service *)

\* getBackendByName: ListBackend with a filter on the name, of which the first
\* is taken.
Named(name) == {i \in DOMAIN backends : NameOf[backends[i].id] = name}
Chosen(name) == backends[Min(Named(name))]
Kind(b) == Adapter(TypeOf[b.id])
Registered(id) == \E i \in DOMAIN backends : backends[i].id = id

-----------------------------------------------------------------------------
(* History *)

Modifying == Ops \ {"get"}
Busy(c) == at[c] # "idle" /\ req[c].op \in Modifying
Active == {c \in Callers : Busy(c)}

Unknown == [is |-> "unknown", content |-> <<>>, size |-> 0, upload |-> 0, parts |-> NoParts]
There(content, size) == [Unknown EXCEPT !.is = "there", !.content = content, !.size = size]
Gone == [Unknown EXCEPT !.is = "gone"]

Acked == {p \in PartNumbers : truth.parts[p] # 0}
\* What the header of a request says of the length of its body.  The handlers
\* take a header that is not there for 0.
Declared(q, length) == IF q.sized THEN length ELSE 0
\* What the acknowledgement of a request says when it was alone.
Promised(q) ==
  CASE q.op = "put" -> IF q.whole THEN There(<<q.r, q.r>>, Declared(q, 2)) ELSE Unknown
    [] q.op = "delete" -> Gone
    [] q.op \in {"bput", "bdelete"} -> truth
    [] q.op = "init" -> [Unknown EXCEPT !.is = "upload"]
    [] q.op = "part" ->
         IF truth.is = "upload" /\ truth.upload \in {q.upload, 0} /\ truth.parts[q.part] = 0
         THEN [truth EXCEPT !.upload = q.upload, !.parts[q.part] = q.r, !.size = @ + Declared(q, 1)] ELSE Unknown
    [] q.op = "complete" ->
         IF /\ truth.is = "upload" /\ truth.upload = q.upload
            /\ Acked = {q.asked[i] : i \in DOMAIN q.asked}
         THEN There([i \in DOMAIN q.asked |-> truth.parts[q.asked[i]]], truth.size) ELSE Unknown
    [] q.op = "abort" -> [Unknown EXCEPT !.is = "hidden"]

Begun(c, op) ==
  LET alone == Active = {} /\ late = {} IN
  /\ solo' = (IF op = "get" THEN solo \ {c} ELSE {}) \cup (IF alone THEN {c} ELSE {})
  /\ calm' = IF op \notin {"put", "get"} THEN {}
             ELSE IF op = "put" /\ late = {} /\ Active \subseteq calm
                  THEN calm \cup {c} ELSE calm
  /\ safe' = (safe /\ op \in {"put", "get"})
  /\ truth' = truth

\* trusted: the request has been alone, and nothing it did has failed.
Ended(c, answer, trusted) ==
  /\ truth' = CASE req[c].op = "get" -> truth
                [] req[c].op # "get" /\ trusted /\ answer = "ok" -> Promised(req[c])
                [] OTHER -> Unknown
  /\ safe' = (safe \/ (req[c].op = "put" /\ answer = "ok" /\ c \in calm))
  /\ solo' = solo \ {c} /\ calm' = calm \ {c}

Quiet == UNCHANGED historyVars

-----------------------------------------------------------------------------
(* Requests *)

\* The handler a request reaches by its query.  For the access lists, the tags
\* and what else a bucket may have there is none, and the answer is empty.
Queries == SUBSET {"acl", "uploads", "partNumber", "uploadId"}
RouteObjectPut(query) ==
  CASE "acl" \in query -> "none"
    [] "acl" \notin query /\ "uploads" \in query -> "init"
    [] query = {"partNumber", "uploadId"} -> "part"
    [] query = {"uploadId"} -> "complete"
    [] OTHER -> "put"
RouteObjectDelete(query) == IF "uploadId" \in query THEN "abort" ELSE "delete"
RouteBucketPut(query) == IF "acl" \in query THEN "none" ELSE "bput"
Routed == {"get", "bdelete"} \cup {RouteObjectPut(query) : query \in Queries} \cup
          {RouteObjectDelete(query) : query \in Queries} \cup {RouteBucketPut(query) : query \in Queries}

\* A caller takes the next request.
\* A body that cannot be read stands for no body, and no backend.
BucketPut(whole) == IF whole THEN "client" ELSE "record"
BucketDelete == "record"
FirstStep(q) ==
  CASE q.op \in {"put", "init"} -> IF q.class = "" THEN "bucket" ELSE "client"
    [] q.op = "bput" -> BucketPut(q.whole)
    [] q.op = "bdelete" -> BucketDelete
    [] OTHER -> "md"

Start(c, q) ==
  /\ at[c] = "idle" /\ quota[q.op] > 0
  /\ quota' = [quota EXCEPT ![q.op] = @ - 1]
  /\ count' = count + 1
  /\ at' = [at EXCEPT ![c] = FirstStep(q)]
  /\ req' = [req EXCEPT ![c] = q]
  /\ body' = [body EXCEPT ![c] = <<>>]
  /\ svc' = [svc EXCEPT ![c] =
       IF FirstStep(q) # "record" THEN NoCall
       ELSE Calling(IF q.op = "bput" THEN "create" ELSE "delete", "bucket", NoDoc(""))]
  /\ UNCHANGED <<docs, late, serviceVars, seen, client, given, hiccups>>
  /\ Begun(c, q.op)

Goes(c, step) == at' = [at EXCEPT ![c] = step]

Stop(c, answer, got, trusted) ==
  /\ at' = [at EXCEPT ![c] = "idle"]
  /\ body' = [body EXCEPT ![c] = IF answer = "ok" THEN got ELSE Failed]
  /\ req' = [req EXCEPT ![c] = NoRequest]
  /\ seen' = [seen EXCEPT ![c] = NoDoc("")]
  /\ client' = [client EXCEPT ![c] = NoBackend]
  /\ svc' = [svc EXCEPT ![c] = NoCall]
  /\ Ended(c, answer, trusted)
Finish(c, answer, got) == Stop(c, answer, got, c \in solo)
\* An answer that hides a failure must not be taken for what it says.
FinishAfter(c, answer, got, fault) == Stop(c, answer, got, c \in solo /\ ~fault)

\* A call fails, for reasons outside of the program.
Hiccup == hiccups < MaxHiccups /\ hiccups' = hiccups + 1

-----------------------------------------------------------------------------
(* Finding the store *)

\* What the handlers make of a nil answer of GetObject, whatever the reason.
NoMetadata(op) ==
  CASE op = "get" -> "error"
    \* The deletion of nothing is answered with an empty 200,
    [] op = "delete" -> "ok"
    \* and the others go on with a nil object after writing the error.
    [] OTHER -> "panic"

GetMetadata(c) ==
  /\ at[c] = "md"
  /\ IF Found("object")
     THEN /\ seen' = [seen EXCEPT ![c] = First("object")]
          /\ Goes(c, "client") /\ Quiet
          /\ UNCHANGED <<svc, req, client, body>>
     ELSE Finish(c, NoMetadata(req[c].op), <<>>)
  /\ UNCHANGED <<docs, late, serviceVars, quota, count, given, hiccups>>

\* Without a storage class the object goes to the backend of the bucket.
GetBucket(c) ==
  /\ at[c] = "bucket"
  /\ IF Found("bucket")
     THEN /\ seen' = [seen EXCEPT ![c] = NewDoc(First("bucket").backend, "", 0)]
          /\ Goes(c, "client") /\ Quiet
          /\ UNCHANGED <<svc, req, client, body>>
     ELSE Finish(c, "panic", <<>>)
  /\ UNCHANGED <<docs, late, serviceVars, quota, count, given, hiccups>>

ReadFails(c) ==
  /\ at[c] \in {"md", "bucket"} /\ Hiccup
  /\ FinishAfter(c, NoMetadata(req[c].op), <<>>, TRUE)
  /\ UNCHANGED <<docs, late, serviceVars, quota, count, given>>

\* getBackendByName or getBackendClient, which reads the bucket (again).
ByName(c) ==
  CASE req[c].op \in {"put", "init", "bput"} -> req[c].class
    [] OTHER -> seen[c].backend
ReadsBucket(c) == ByName(c) = "" /\ req[c].op \in {"put", "init", "get"}
NoClient(c) == Finish(c, IF req[c].op = "delete" THEN "panic" ELSE "error", <<>>)

\* client == nil, for a type that has no adapter.
Usable_Always(b) == TRUE
Usable(b) == Kind(b) # "nil"

GetClient(c) ==
  /\ at[c] = "client"
  /\ LET name == IF ReadsBucket(c) /\ Found("bucket") THEN First("bucket").backend ELSE ByName(c)
         found == Chosen(name) IN
     IF (ReadsBucket(c) /\ ~Found("bucket")) \/ (name = "" /\ req[c].op = "bput") THEN NoClient(c)
     ELSE IF Named(name) = {} THEN Finish(c, "panic", <<>>)
     ELSE IF ~Usable(found) THEN NoClient(c)
     ELSE /\ client' = [client EXCEPT ![c] = found]
          /\ IF req[c].op = "bput"
             THEN /\ svc' = [svc EXCEPT ![c] = Calling("create", "bucket", NewDoc(name, "", 0))]
                  /\ Goes(c, "record")
             ELSE Goes(c, "store") /\ UNCHANGED svc
          /\ UNCHANGED <<req, seen, body>> /\ Quiet
  /\ UNCHANGED <<docs, late, serviceVars, quota, count, given, hiccups>>

ClientFails(c) ==
  /\ at[c] = "client" /\ Hiccup
  /\ NoClient(c)
  /\ UNCHANGED <<docs, late, serviceVars, quota, count, given>>

-----------------------------------------------------------------------------
(* Calling the store *)

Id(c) == client[c].id
\* With keys that are not right the store refuses what it is asked.  A download
\* ends as when there is no object; azure's uploads ask nothing as they begin
\* and when they are given up; and an adapter that could not be made is nil.
WrongKeys(c) ==
  LET kind == Kind(client[c])
      op == req[c].op IN
  (IF kind = "azure" THEN {"panic"} ELSE {}) \cup
  CASE op = "get" -> {o.answer : o \in GET(kind, EmptyStore, 0, req[c].range, <<>>)}
    [] op = "init" /\ kind \in {"aws", "ceph"} -> {"fatal"}
    [] op = "complete" /\ kind = "hws" -> {"panic"}
    [] op \in {"init", "abort"} /\ kind = "azure" -> {"ok"}
    [] OTHER -> {"error"}
Outcomes(c, outcomes) ==
  IF client[c].good THEN {o \in outcomes : o.fault => hiccups < MaxHiccups}
  ELSE {Ends(answer, stores[Id(c)]) : answer \in WrongKeys(c)}

\* What a call leaves in the store; a failure is remembered.
Stores(c, o) ==
  /\ stores' = [stores EXCEPT ![Id(c)] = o.store]
  /\ hiccups' = IF o.fault THEN hiccups + 1 ELSE hiccups

\* The handler goes on to write the document, or ends with an error.
Stored_OrNot(o) == o.answer \in {"ok", "error"}
Stored(o) == o.answer = "ok"
Records(c, o, op, doc) ==
  IF Stored(o)
  THEN /\ svc' = [svc EXCEPT ![c] = Calling(op, "object", doc)]
       /\ Goes(c, "record")
       /\ solo' = (IF o.fault THEN solo \ {c} ELSE solo)
       /\ UNCHANGED <<req, seen, client, body, calm, truth, safe>>
  ELSE Finish(c, o.answer, <<>>)

Location(c) == IF req[c].class # "" THEN req[c].class ELSE seen[c].backend

\* log.Fatalf in an adapter, or a panic in a goroutine of its client: every
\* request of the process is gone.
Fatal ==
  /\ at' = [c \in Callers |-> "idle"]
  /\ body' = [c \in Callers |-> Failed]
  /\ req' = [c \in Callers |-> NoRequest]
  /\ seen' = [c \in Callers |-> NoDoc("")]
  /\ client' = [c \in Callers |-> NoBackend]
  /\ late' = late \cup {call \in {svc[c] : c \in Callers} : Running(call)}
  /\ svc' = [c \in Callers |-> NoCall]
  /\ solo' = {} /\ calm' = {} /\ truth' = Unknown /\ UNCHANGED safe

ObjectPut(c) ==
  /\ at[c] = "store" /\ req[c].op = "put"
  /\ \E o \in Outcomes(c, PUT(Kind(client[c]), stores[Id(c)], <<req[c].r, req[c].r>>, req[c].whole)) :
       /\ Stores(c, o)
       /\ Records(c, o, "create", NewDoc(Location(c), "", Declared(req[c], 2)))
  /\ UNCHANGED <<docs, late, backends, quota, count, given>>

ObjectGet(c) ==
  /\ at[c] = "store" /\ req[c].op = "get"
  /\ \E o \in Outcomes(c, GET(Kind(client[c]), stores[Id(c)], seen[c].size, req[c].range, body[c])) :
       /\ Stores(c, o)
       /\ CASE o.answer = "fatal" -> Fatal
            [] o.answer = "more" -> /\ body' = [body EXCEPT ![c] = o.got]
                                    /\ UNCHANGED <<late, at, req, seen, client, svc>> /\ Quiet
            [] OTHER -> FinishAfter(c, o.answer, o.got, o.fault) /\ UNCHANGED late
  /\ UNCHANGED <<docs, backends, quota, count, given>>

ObjectDelete(c) ==
  /\ at[c] = "store" /\ req[c].op = "delete"
  /\ \E o \in Outcomes(c, DELETE(Kind(client[c]), stores[Id(c)])) :
       Stores(c, o) /\ Records(c, o, "delete", NoDoc(""))
  /\ UNCHANGED <<docs, late, backends, quota, count, given>>

\* The document of an upload in progress is the same whether there is an
\* object already or not.
MultiPartUploadInit(c) ==
  /\ at[c] = "store" /\ req[c].op = "init"
  /\ \E o \in Outcomes(c, InitMultipartUpload(Kind(client[c]), stores[Id(c)], req[c].upload)) :
       /\ Stores(c, o)
       /\ IF o.answer = "fatal" THEN Fatal /\ UNCHANGED given
          ELSE /\ Records(c, o, "create", NewDoc(Location(c), "0", 0))
               /\ given' = (IF o.answer = "ok" THEN given \cup
                              {IF Kind(client[c]) = "azure" THEN 0 ELSE req[c].upload} ELSE given)
               /\ UNCHANGED late
  /\ UNCHANGED <<docs, backends, quota, count>>

\* The metadata was read before the part was sent.
Longer(doc, q) == [doc EXCEPT !.size = @ + Declared(q, 1)]
UploadPartRequest(c) ==
  /\ at[c] = "store" /\ req[c].op = "part"
  /\ \E o \in Outcomes(c, UploadPart(Kind(client[c]), stores[Id(c)], req[c].upload, req[c].part, req[c].r, req[c].sized)) :
       Stores(c, o) /\ Records(c, o, "create", Longer(seen[c], req[c]))
  /\ UNCHANGED <<docs, late, backends, quota, count, given>>

CompleteRequest(c) ==
  /\ at[c] = "store" /\ req[c].op = "complete"
  /\ \E o \in Outcomes(c, CompleteMultipartUpload(Kind(client[c]), stores[Id(c)], req[c].upload, req[c].asked)) :
       Stores(c, o) /\ Records(c, o, "create", [seen[c] EXCEPT !.init = "1"])
  /\ UNCHANGED <<docs, late, backends, quota, count, given>>

AbortRequest(c) ==
  /\ at[c] = "store" /\ req[c].op = "abort"
  /\ \E o \in Outcomes(c, AbortMultipartUpload(Kind(client[c]), stores[Id(c)], req[c].upload)) :
       Stores(c, o) /\ Records(c, o, "delete", NoDoc(""))
  /\ UNCHANGED <<docs, late, backends, quota, count, given>>

-----------------------------------------------------------------------------
(* Writing the metadata, and the end of the handlers that do *)

Serve(c) ==
  /\ ServiceStep(c)
  /\ Quiet /\ UNCHANGED <<serviceVars, requestVars>>

ServeLate ==
  /\ \E call \in late : LateStep(call)
  /\ Quiet /\ UNCHANGED <<serviceVars, requestVars>>

ServiceFails(c) ==
  /\ Hiccup /\ DbFails(c)
  /\ solo' = solo \ {c} /\ UNCHANGED <<calm, truth, safe>>
  /\ UNCHANGED <<serviceVars, at, req, seen, client, body, quota, count, given>>

ServiceLost(c) ==
  /\ Hiccup /\ CallLost(c)
  /\ solo' = {} /\ truth' = Unknown /\ UNCHANGED <<calm, safe>>
  /\ UNCHANGED <<serviceVars, at, req, seen, client, body, quota, count, given>>

Recorded(c) ==
  /\ at[c] = "record" /\ svc[c].at \in {"ok", "error"}
  /\ Finish(c, IF req[c].op = "part" /\ ~Found("object") THEN "panic" ELSE svc[c].at, <<>>)
  /\ UNCHANGED <<docs, late, serviceVars, quota, count, given, hiccups>>

\* UploadPart reads the document again and uses it whatever the answer was.
ReadAgainFails(c) ==
  /\ at[c] = "record" /\ svc[c].at \in {"ok", "error"} /\ req[c].op = "part"
  /\ Hiccup /\ FinishAfter(c, "panic", <<>>, TRUE)
  /\ UNCHANGED <<docs, late, serviceVars, quota, count, given>>

-----------------------------------------------------------------------------
(* The backend service, which the operator's requests reach through the      *)
(* routes of api/pkg/backend.  Update reads the document first and writes it  *)
(* as a whole, but only the keys of it ever change.                           *)

Inserted(b) == Append(backends, b)
Replaced(i, b) == [backends EXCEPT ![i] = b]
Removed(i) == SubSeq(backends, 1, i - 1) \o SubSeq(backends, i + 1, Len(backends))

CreateBackend(id) == ~Registered(id) /\ backends' = Inserted([id |-> id, good |-> TRUE])
UpdateBackend(i) == \E good \in BOOLEAN : backends' = Replaced(i, [backends[i] EXCEPT !.good = good])
DeleteBackend(i) == backends' = Removed(i)

Edit(kind) ==
  /\ quota[kind] > 0 /\ quota' = [quota EXCEPT ![kind] = @ - 1]
  /\ solo' = {} /\ calm' = {} /\ truth' = Unknown /\ safe' = FALSE
  /\ UNCHANGED <<docVars, stores, at, req, seen, client, body, count, given, hiccups>>

APICreateBackend(id) == CreateBackend(id) /\ Edit("register")
APIUpdateBackend(i) == UpdateBackend(i) /\ Edit("rekey")
APIDeleteBackend(i) == DeleteBackend(i) /\ Edit("unregister")

-----------------------------------------------------------------------------

\* A request: the fields that its kind has no use for stay as here.
Plain(op) ==
  [op |-> op, r |-> count + 1, class |-> "", range |-> Whole, whole |-> TRUE, sized |-> TRUE,
   part |-> 1, upload |-> 0, asked |-> <<>>]
Fresh == {u \in 1..MaxUpload : /\ u \notin given
                               /\ \A id \in Backends : u \notin stores[id].open
                               /\ \A c \in Callers : at[c] # "idle" => req[c].upload # u}
Storing(q, l, w, z) == [q EXCEPT !.class = l, !.whole = w, !.sized = z]
Opening(q, l, u) == [q EXCEPT !.class = l, !.upload = u]
Sending(q, p, u, z) == [q EXCEPT !.part = p, !.upload = u, !.sized = z]
Joining(q, a, u) == [q EXCEPT !.asked = a, !.upload = u]
Requests(op) ==
  LET q == Plain(op) IN
  CASE op = "put" -> {Storing(q, l, w, z) : l \in Locations, w, z \in BOOLEAN}
    [] op = "bput" -> {Storing(q, l, w, q.sized) : l \in Locations, w \in BOOLEAN}
    [] op = "init" -> {Opening(q, l, u) : l \in Locations, u \in Fresh}
    [] op = "get" -> {[q EXCEPT !.range = g] : g \in Ranges}
    [] op = "part" -> {Sending(q, p, u, z) : p \in PartNumbers, u \in given, z \in BOOLEAN}
    [] op = "complete" -> {Joining(q, a, u) : a \in PartLists, u \in given}
    [] op = "abort" -> {[q EXCEPT !.upload = u] : u \in given}
    [] op \in {"delete", "bdelete"} -> {q}

GatewayStart(w) ==
  /\ InitDocs
  /\ quota = w.quota
  /\ backends = [i \in DOMAIN w.registered |-> [id |-> w.registered[i], good |-> TRUE]]
  /\ stores = [id \in Backends |-> EmptyStore]
  /\ at = [c \in Callers |-> "idle"]
  /\ req = [c \in Callers |-> NoRequest]
  /\ seen = [c \in Callers |-> NoDoc("")]
  /\ client = [c \in Callers |-> NoBackend]
  /\ body = [c \in Callers |-> <<>>]
  /\ count = 0 /\ given = {} /\ hiccups = 0
  /\ solo = {} /\ calm = {} /\ truth = Unknown /\ safe = FALSE
NoWorld == [registered |-> <<>>, quota |-> [k \in Kinds |-> 0]]
GatewayInit == \E w \in Worlds : GatewayStart(w)

Handler(c) ==
  \/ GetMetadata(c) \/ GetBucket(c) \/ ReadFails(c)
  \/ GetClient(c) \/ ClientFails(c)
  \/ ObjectPut(c) \/ ObjectGet(c) \/ ObjectDelete(c)
  \/ MultiPartUploadInit(c) \/ UploadPartRequest(c) \/ CompleteRequest(c) \/ AbortRequest(c)
  \/ Serve(c) \/ ServiceFails(c) \/ ServiceLost(c)
  \/ Recorded(c) \/ ReadAgainFails(c)

Client(c) == \E op \in Routed \ {"none"} : \E q \in Requests(op) : Start(c, q)

Operator ==
  \/ \E id \in Backends : APICreateBackend(id)
  \/ \E i \in DOMAIN backends : APIUpdateBackend(i) \/ APIDeleteBackend(i)

GatewayNext ==
  \/ \E c \in Callers : Client(c) \/ Handler(c)
  \/ ServeLate
  \/ Operator

GatewaySpec == GatewayInit /\ [][GatewayNext]_gatewayVars

-----------------------------------------------------------------------------

(* Every variable keeps its type.  A handler that is about to call a store *)
(* has an adapter for it (service.go's client == nil), and one that waits  *)
(* for the s3 service has a call there.                                    *)
GatewayTypeOK ==
  /\ docs \in [Collections -> Seq(Doc)] /\ late \subseteq Call
  /\ svc \in [Callers -> Call \cup {NoCall}]
  /\ backends \in Seq([id : Backends, good : BOOLEAN]) /\ stores \in [Backends -> Store]
  /\ at \in [Callers -> {"idle", "bucket", "md", "client", "store", "record"}]
  /\ req \in [Callers -> Request \cup {NoRequest}] /\ seen \in [Callers -> Doc]
  /\ client \in [Callers -> [id : Backends, good : BOOLEAN] \cup {NoBackend}]
  /\ given \subseteq UploadIds /\ count \in Nat /\ hiccups \in 0..MaxHiccups
  /\ \A c \in Callers :
       /\ at[c] = "store" => client[c] # NoBackend /\ Kind(client[c]) # "nil"
       /\ at[c] = "record" => svc[c] # NoCall

Quiescent == Active = {} /\ late = {}
\* Racing creations can leave a second document, which no request reaches:
\* here only the first counts.
Shows == Found("object") /\ 1 \in ListObjects
\* The store the metadata of the object leads to.
Home == stores[Chosen(First("object").backend).id]

(* When everything has come to rest, the catalogue and the stores say what *)
(* the requests that were alone and acknowledged said: the object is listed *)
(* with the size their headers gave, and its data is in the store its        *)
(* document names; or it is neither listed nor stored; or it is still being *)
(* uploaded and not listed.  A body that came without a length counts as 0, *)
(* however much of it is stored (objectput.go:52).                          *)
AgreesWithRequests ==
  Quiescent =>
    CASE truth.is = "there" ->
           /\ Shows /\ First("object").size = truth.size
           /\ Home.object = truth.content
      [] truth.is = "gone" -> ~Shows /\ (Found("object") => Home.object = NoObject)
      [] truth.is \in {"upload", "hidden"} -> ~Shows
      [] OTHER -> TRUE

(* After a put that met no other requests than puts and gets and was        *)
(* acknowledged, an object is listed and the store it leads to holds data,  *)
(* whatever further puts fail, break off, race or come late.                *)
PutsSurvive == safe => Shows /\ Home.object # NoObject

\* What a header asks of an object: the bytes between its ends, or from its
\* beginning on.
Requested(content, range) ==
  CASE ~IsRange(range) -> content
    [] Open(range) -> Slice(content, range.from + 1, Len(content))
    [] OTHER -> Slice(content, range.from + 1, range.to + 1)
\* Whether what comes from an adapter is the range, if anything comes.
Honoured(kind, range) ==
  \/ kind \in {"azure", "ceph"} \/ ~IsRange(range) \/ range.from < range.to
  \/ kind = "aws" /\ range.from = range.to
Prefix(got, want) == \A i \in DOMAIN got : got[i] \in {want[i], 0}
(* A download that no change runs beside and in which nothing failed gives   *)
(* the range that was asked of what was stored.  Where the adapter cannot    *)
(* put the range to its store it gives that or the whole object, and never   *)
(* another part (obs/trait.go:364).  Of a whole blob as many bytes come      *)
(* as were recorded; its one Read may be short, and zeros stand for the rest. *)
GivesWhatIsThere ==
  \A c \in solo : (/\ at[c] = "store" /\ req[c].op = "get" /\ truth.is = "there"
                   /\ at'[c] = "idle" /\ body'[c] # Failed /\ hiccups' = hiccups) =>
    LET kind == Kind(client[c])
        range == req[c].range
        want == Requested(truth.content, range)
        got == body'[c] IN
    IF kind = "azure" /\ ~IsRange(range) THEN Len(got) = truth.size /\ Prefix(got, want)
    ELSE got = want \/ (~Honoured(kind, range) /\ got = truth.content)
ReadsAgree == [][GivesWhatIsThere]_gatewayVars

=============================================================================
