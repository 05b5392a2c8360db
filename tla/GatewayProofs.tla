---------------------------- MODULE GatewayProofs ----------------------------
(***************************************************************************)
(* Proofs about S3Gateway, for any backends, requests, failures and part   *)
(* lists: what the catalogue and the stores agree on.                      *)
(***************************************************************************)
EXTENDS S3Gateway, FiniteSetTheorems, SequenceTheorems, WellFoundedInduction, TLAPS

-----------------------------------------------------------------------------
(* The invariant *)

Answer == [is : {"unknown", "there", "gone", "upload", "hidden"}, content : Content,
           size : Nat, upload : UploadIds, parts : [PartNumbers -> Nat]]

\* The rest of the types; what comes late is still running.
HistoryTypes ==
  /\ body \in [Callers -> Seq(Int)]
  /\ solo \subseteq Callers /\ calm \subseteq Callers /\ truth \in Answer /\ safe \in BOOLEAN
  /\ \A call \in late : Running(call)

\* Which requests are where, and what they wait for.
BucketOps == {"bput", "bdelete"}
ReadingOps == {"get", "delete", "part", "complete", "abort"}
Stands(c) ==
  /\ at[c] # "idle" => req[c] \in Request /\ req[c].r > 0
  /\ at[c] = "bucket" => req[c].op \in {"put", "init"} /\ req[c].class = ""
  /\ at[c] = "md" => req[c].op \in ReadingOps
  /\ at[c] = "client" => req[c].op # "bdelete"
  /\ at[c] = "store" => req[c].op \notin BucketOps
  /\ at[c] = "record" => /\ svc[c].coll = (IF req[c].op \in BucketOps THEN "bucket" ELSE "object")
                         /\ req[c].op # "get"
  /\ at[c] = "record" /\ svc[c].at = "update" => Found(svc[c].coll)
  /\ at[c] # "record" => svc[c] = NoCall
  /\ at[c] # "idle" /\ req[c].op = "init" => req[c].upload # 0
  /\ at[c] # "idle" /\ req[c].op = "complete" => req[c].asked \in PartLists
  /\ c \in solo => at[c] # "idle"
  /\ c \in calm => at[c] # "idle" /\ req[c].op = "put"
Standing == \A c \in Callers : Stands(c)

\* Upload ids are not 0, which stands for the blocks of a blob.
OpenIds == \A id \in Backends : 0 \notin stores[id].open

\* Who is alone is the only one that modifies, and nothing comes late; and as
\* long as something may come late nothing is said.
Solitude ==
  /\ \A c \in solo : late = {} /\ Active \subseteq {c}
  /\ late # {} => truth.is = "unknown"

\* The store that a document leads to.
Leads(doc) == Named(doc.backend) # {}
StoreOf(doc) == stores[Chosen(doc.backend).id]

\* A document and its store are what an answer says.
Parted(t) == {p \in PartNumbers : t.parts[p] # 0}
Blocks(doc, t) == IF Kind(Chosen(doc.backend)) = "azure" THEN 0 ELSE t.upload
HasParts(t, doc) ==
  /\ doc.size = t.size
  /\ \A p \in Parted(t) : StoreOf(doc).parts[Blocks(doc, t)][p] = t.parts[p]
  /\ Kind(Chosen(doc.backend)) # "azure" /\ t.upload = 0 => Parted(t) = {}
Fits(t, doc) ==
  CASE t.is = "there" -> /\ Shown(doc) /\ doc.size = t.size
                         /\ Leads(doc) /\ StoreOf(doc).object = t.content
    [] t.is = "gone" -> ~Shown(doc) /\ Leads(doc) /\ StoreOf(doc).object = NoObject
    [] t.is = "upload" -> doc.init = "0" /\ ~doc.deleted /\ Leads(doc) /\ HasParts(t, doc)
    [] t.is = "hidden" -> ~Shown(doc)
    [] t.is = "unknown" -> TRUE
Agrees(t) == IF Found("object") THEN Fits(t, First("object")) ELSE t.is \in {"gone", "unknown"}

\* While the s3 service writes, the document under way fits what the answer
\* will say, and in the end the first document does.
Marked(doc) == [doc EXCEPT !.deleted = TRUE]
Fitting(c) ==
  LET call == svc[c]
      t == Promised(req[c]) IN
  /\ call.op = IF req[c].op \in {"delete", "abort"} THEN "delete" ELSE "create"
  /\ call.op = "delete" => call.at \notin {"find", "insert"}
  /\ call.op = "create" /\ call.at \in CallStep => Fits(t, call.doc)
  /\ call.op = "delete" /\ call.at = "look" => Found("object") /\ Fits(t, Marked(First("object")))
  /\ call.op = "delete" /\ call.at = "update" => Fits(t, call.doc)
  /\ call.at = "insert" => ~Found("object")
  /\ call.at = "update" => Found("object")
  /\ call.at = "ok" => Found("object") /\ Fits(t, First("object"))

\* When nothing is being modified the state fits what is known; and when one
\* that is alone modifies, it still does or is about to fit its answer.
Truthful ==
  /\ Active = {} => Agrees(truth)
  /\ \A c \in solo : at[c] \in {"bucket", "md", "client", "store"} => Agrees(truth)
  /\ \A c \in solo : at[c] = "record" /\ req[c].op \in BucketOps => Agrees(truth)
  /\ \A c \in solo : at[c] = "record" /\ req[c].op \notin BucketOps => Fitting(c)

\* Puts that follow puts and gets only, or that run when one was acknowledged
\* and nothing else was begun.
PutsOnly == calm # {} \/ safe
Good(doc) == Shown(doc) /\ Leads(doc) /\ StoreOf(doc).object # NoObject
GoodFirst == Found("object") /\ Good(First("object"))
Sound(call) == call.op = "create" /\ call.coll = "object" /\ Good(call.doc)
Calm ==
  PutsOnly =>
    /\ \A c \in Active : req[c].op = "put"
    /\ \A call \in late : Sound(call)
    /\ \A c \in Active : at[c] = "record" => svc[c].at = "error" \/ Sound(svc[c])
    /\ \A c \in Active : at[c] = "record" /\ svc[c].at = "insert" => ~Found("object") \/ GoodFirst
    /\ \A c \in Active : at[c] = "record" /\ svc[c].at = "ok" => GoodFirst
    /\ safe => GoodFirst

\* What a handler has read is still so, and its adapter is for the store that
\* the document it has read, or will write, leads to.
Steady(c) == c \in solo \/ (PutsOnly /\ Busy(c))
Where(c) == IF req[c].op \in {"put", "init"} THEN Location(c) ELSE seen[c].backend
Ready(c) ==
  /\ at[c] \in {"client", "store"} /\ req[c].op \in {"put", "init"} /\ req[c].class = ""
       => Found("bucket") /\ seen[c].backend = First("bucket").backend
  /\ at[c] \in {"client", "store"} /\ req[c].op \in ReadingOps
       => Found("object") /\ seen[c] = First("object")
  /\ at[c] = "store" /\ (req[c].op = "get" => seen[c].backend # "")
       => Named(Where(c)) # {} /\ client[c] = Chosen(Where(c))
Prepared == \A c \in Callers : Steady(c) => Ready(c)

\* What a download in pieces has so far.
SoFar ==
  \A c \in Callers :
    /\ at[c] \in {"bucket", "md", "client"} => body[c] = <<>>
    /\ c \in solo /\ at[c] = "store" /\ req[c].op = "get" /\ truth.is = "there" =>
         /\ Len(body[c]) <= Len(truth.content)
         /\ body[c] = SubSeq(truth.content, 1, Len(body[c]))

Inv ==
  /\ GatewayTypeOK /\ HistoryTypes /\ Standing /\ OpenIds
  /\ Solitude /\ Truthful /\ Calm /\ Prepared /\ SoFar

-----------------------------------------------------------------------------
(* The stores *)

AnyOutcome == [answer : {"ok", "error", "panic", "fatal", "more"}, store : Store,
            got : Seq(Int), fault : BOOLEAN]

\* One step of a store keeps the types, opens no upload with the id 0, and
\* nothing is answered well although it failed.
Proper(o, s) ==
  /\ o \in AnyOutcome
  /\ 0 \notin s.open => 0 \notin o.store.open
Clean(o) == o.answer = "ok" => ~o.fault

LEMMA EndsProper ==
  ASSUME NEW answer \in {"ok", "error", "panic", "fatal", "more"}, NEW s \in Store, NEW t \in Store,
         0 \notin s.open => 0 \notin t.open
  PROVE  /\ Proper(Ends(answer, t), s) /\ Proper(Fails(answer, t), s)
         /\ Ends(answer, t).store = t /\ Ends(answer, t).answer = answer /\ ~Ends(answer, t).fault
         /\ Fails(answer, t).store = t /\ Fails(answer, t).answer = answer /\ Fails(answer, t).fault
<1>1. <<>> \in Seq(Int)
  OBVIOUS
<1>. QED  BY <1>1 DEF Proper, Ends, Fails, AnyOutcome

\* What Tried and Refused give.
LEMMA TriedProper ==
  ASSUME NEW s \in Store, NEW t \in Store, 0 \notin s.open => 0 \notin t.open
  PROVE  \A o \in Tried(s, t) \cup Refused(s) :
           /\ Proper(o, s) /\ Clean(o) /\ o.answer \in {"ok", "error"}
           /\ o.store \in {s, t} /\ (o.answer = "ok" => o.store = t)
<1>1. /\ Proper(Ends("ok", t), s) /\ Ends("ok", t).store = t
      /\ Ends("ok", t).answer = "ok" /\ ~Ends("ok", t).fault
  BY EndsProper
<1>2. /\ Proper(Fails("error", t), s) /\ Fails("error", t).store = t /\ Fails("error", t).answer = "error"
  BY EndsProper
<1>3. /\ Proper(Fails("error", s), s) /\ Fails("error", s).store = s /\ Fails("error", s).answer = "error"
  BY EndsProper
<1>4. /\ Proper(Ends("error", s), s) /\ Ends("error", s).store = s /\ Ends("error", s).answer = "error"
  BY EndsProper
<1>. QED  BY <1>1, <1>2, <1>3, <1>4 DEF Tried, Refused, Clean

LEMMA WrittenType ==
  ASSUME NEW s \in Store, NEW data \in Content
  PROVE  /\ Written(s, data) \in Store /\ Written(s, data).object = data /\ Written(s, data).open = s.open
         /\ BlobWritten(s, data) \in Store /\ BlobWritten(s, data).object = data
         /\ BlobWritten(s, data).open = s.open
         /\ S3Deleted(s) \in Store /\ S3Deleted(s).object = NoObject /\ S3Deleted(s).open = s.open
<1>1. NoParts \in [PartNumbers -> Nat] /\ NoObject \in Content /\ 0 \in UploadIds
  BY DatastoresAssumption DEF NoParts, NoObject, Content, UploadIds
<1>. QED  BY <1>1 DEF Written, BlobWritten, S3Deleted, Store

LEMMA PieceTypes ==
  ASSUME NEW r \in Nat
  PROVE  /\ <<r, r>> \in Content /\ Cut(<<r, r>>) = <<r>> /\ Leftover(<<r, r>>) = <<r>>
         /\ <<r>> \in Content
<1>. DEFINE data == <<r, r>>
<1>1. /\ data \in Seq(Nat) /\ Len(data) = 2 /\ data[1] = r /\ data[2] = r
      /\ <<r>> \in Seq(Nat) /\ Len(<<r>>) = 1 /\ <<r>>[1] = r
  OBVIOUS
<1>. HIDE DEF data
<1>2. SubSeq(data, 1, 1) \in Seq(Nat) /\ Len(SubSeq(data, 1, 1)) = 1 /\ SubSeq(data, 1, 1)[1] = r
  BY <1>1, SubSeqProperties, Z3
<1>3. SubSeq(data, 2, 2) \in Seq(Nat) /\ Len(SubSeq(data, 2, 2)) = 1 /\ SubSeq(data, 2, 2)[1] = r
  BY <1>1, SubSeqProperties, Z3
<1>4. ASSUME NEW t \in Seq(Nat), Len(t) = 1, t[1] = r PROVE t = <<r>>
  BY <1>4, <1>1, SeqEqual, Z3
<1>5. SubSeq(data, 1, 1) = <<r>> /\ SubSeq(data, 2, 2) = <<r>>
  BY <1>2, <1>3, <1>4
<1>. QED  BY <1>1, <1>5 DEF Content, Cut, Leftover, data

LEMMA PutOutcome ==
  ASSUME NEW kind \in Adapters, NEW s \in Store, NEW r \in Nat, NEW whole \in BOOLEAN,
         NEW o \in PUT(kind, s, <<r, r>>, whole)
  PROVE  /\ Proper(o, s) /\ Clean(o) /\ o.answer \in {"ok", "error"}
         /\ o.store.object \in {s.object, <<r, r>>, <<r>>}
         /\ o.answer = "ok" => o.store.object \in {<<r, r>>, <<r>>}
         /\ o.answer = "ok" /\ whole => o.store.object = <<r, r>>
<1>. DEFINE data == <<r, r>>
            some == IF whole THEN data ELSE <<r>>
<1>1. data \in Content /\ some \in Content /\ Cut(data) = <<r>> /\ Leftover(data) = <<r>> /\ <<r>> \in Content
  BY PieceTypes
<1>. HIDE DEF data
<1>2. /\ Written(s, some) \in Store /\ Written(s, some).object = some /\ Written(s, some).open = s.open
      /\ BlobWritten(s, some) \in Store /\ BlobWritten(s, some).object = some /\ BlobWritten(s, some).open = s.open
  BY <1>1, WrittenType
<1>3. Written(s, <<r>>) \in Store /\ Written(s, <<r>>).object = <<r>> /\ Written(s, <<r>>).open = s.open
  BY <1>1, WrittenType
<1>4. CASE o = Fails("error", Written(s, <<r>>))
  <2>1. Proper(o, s) /\ o.store = Written(s, <<r>>) /\ o.answer = "error"
    BY <1>3, <1>4, EndsProper
  <2>. QED  BY <2>1, <1>3 DEF Clean, data
<1>5. CASE o \in Tried(s, Written(s, some)) \cup Refused(s)
  <2>1. /\ Proper(o, s) /\ Clean(o) /\ o.answer \in {"ok", "error"}
        /\ o.store \in {s, Written(s, some)} /\ (o.answer = "ok" => o.store = Written(s, some))
    BY <1>2, <1>5, TriedProper
  <2>. QED  BY <2>1, <1>2 DEF data
<1>6. CASE o \in Tried(s, BlobWritten(s, some)) \cup Refused(s)
  <2>1. /\ Proper(o, s) /\ Clean(o) /\ o.answer \in {"ok", "error"}
        /\ o.store \in {s, BlobWritten(s, some)} /\ (o.answer = "ok" => o.store = BlobWritten(s, some))
    BY <1>2, <1>6, TriedProper
  <2>. QED  BY <2>1, <1>2 DEF data
<1>7. \/ o = Fails("error", Written(s, <<r>>))
      \/ o \in Tried(s, Written(s, some)) \cup Refused(s)
      \/ o \in Tried(s, BlobWritten(s, some)) \cup Refused(s)
  BY <1>1 DEF PUT, AwsPUT, HwsPUT, AzurePUT, CephPUT, Adapters, data
<1>. QED  BY <1>4, <1>5, <1>6, <1>7

\* What a download gives: of an object that amazon's downloader fetches piece by
\* piece, of a blob with a buffer of the recorded size, and otherwise.
Right(kind, got, object, size, range, sofar) ==
  CASE kind = "aws" /\ ~IsRange(range) ->
         /\ Len(sofar) < Len(object) /\ got = Append(sofar, object[Len(sofar) + 1])
         /\ Len(got) = Len(object)
    [] kind = "azure" /\ ~IsRange(range) ->
         \E k \in 0..Len(object) : got = Padded(SubSeq(object, 1, k), size)
    [] OTHER -> got = Requested(object, range) \/ (~Honoured(kind, range) /\ got = object)

LEMMA RangeNumbers ==
  ASSUME NEW range \in Ranges
  PROVE  range.from \in Nat /\ range.to \in Nat
BY DEF Ranges, Whole

LEMMA SliceType ==
  ASSUME NEW data \in Content, NEW m \in Nat, NEW n \in Nat
  PROVE  /\ Slice(data, m + 1, n) \in Content
         /\ Slice(data, m + 1, n) \in Seq(Int)
<1>. DEFINE last == IF n > Len(data) THEN Len(data) ELSE n
<1>1. last \in Nat /\ last <= Len(data)
  BY DEF Content
<1>. HIDE DEF last
<1>2. \A i \in (m + 1)..last : data[i] \in Nat /\ data[i] \in Int
  BY <1>1 DEF Content
<1>3. SubSeq(data, m + 1, last) \in Seq(Nat) /\ SubSeq(data, m + 1, last) \in Seq(Int)
  BY <1>1, <1>2, SubSeqProperties
<1>. QED  BY <1>3 DEF Slice, last, Content

LEMMA PaddedType ==
  ASSUME NEW data \in Content, NEW size \in Nat, NEW k \in 0..Len(data)
  PROVE  Padded(SubSeq(data, 1, k), size) \in Seq(Int)
<1>1. \A i \in 1..k : data[i] \in Nat
  BY DEF Content
<1>2. SubSeq(data, 1, k) \in Seq(Nat)
  BY <1>1, SubSeqProperties
<1>. QED  BY <1>2 DEF Padded

LEMMA GivesProper ==
  ASSUME NEW s \in Store, NEW got \in Seq(Int)
  PROVE  /\ Proper(Gives(s, got), s) /\ Gives(s, got).store = s /\ Gives(s, got).got = got
         /\ Gives(s, got).answer = "ok" /\ ~Gives(s, got).fault
BY DEF Proper, Gives, Ends, AnyOutcome

\* Each way a range is asked for gives the range, or the whole object where it
\* cannot be asked for.
LEMMA HwsAsks ==
  ASSUME NEW s \in Store, NEW range \in Ranges, NEW asked,
         asked = Asked(s, IF range.to > range.from THEN range ELSE Whole)
  PROVE  asked = Requested(s.object, range) \/ (~Honoured("hws", range) /\ asked = s.object)
<1>1. range.from \in Nat /\ range.to \in Nat
  BY RangeNumbers
<1>2. CASE range.to > range.from
  <2>1. IsRange(range) /\ ~Open(range)
    BY <1>1, <1>2 DEF IsRange, Open
  <2>. QED  BY <1>2, <2>1 DEF Asked, Part, Requested
<1>3. CASE ~(range.to > range.from)
  <2>1. asked = s.object
    BY <1>3 DEF Asked, IsRange, Whole
  <2>2. IsRange(range) => ~Honoured("hws", range)
    BY <1>1, <1>3 DEF Honoured
  <2>. QED  BY <2>1, <2>2 DEF Requested, Open, IsRange
<1>. QED  BY <1>2, <1>3

LEMMA CephAsks ==
  ASSUME NEW s \in Store, NEW range \in Ranges, NEW asked,
         asked = Asked(s, IF Open(range) THEN [range EXCEPT !.to = Len(s.object)] ELSE range)
  PROVE  asked = Requested(s.object, range)
<1>1. range.from \in Nat /\ range.to \in Nat /\ Len(s.object) \in Nat
  BY RangeNumbers DEF Store, Content
<1>2. CASE Open(range)
  <2>1. PICK sent : sent = [range EXCEPT !.to = Len(s.object)]
    OBVIOUS
  <2>2. sent.from = range.from /\ sent.to = Len(s.object)
    BY <1>1, <2>1 DEF Ranges, Whole
  <2>3. IsRange(sent) /\ IsRange(range)
    BY <1>2, <2>2 DEF IsRange, Open
  <2>4. asked = Part(s.object, sent)
    BY <1>2, <2>1, <2>3 DEF Asked
  <2>5. Requested(s.object, range) = Slice(s.object, range.from + 1, Len(s.object))
    BY <1>2, <2>3 DEF Requested
  <2>6. Part(s.object, sent) = Slice(s.object, range.from + 1, Len(s.object) + 1)
    BY <2>2 DEF Part
  <2>7. PICK data, first, last : data = s.object /\ first = range.from + 1 /\ last = Len(s.object)
    OBVIOUS
  <2>8. last \in Nat /\ last = Len(data)
    BY <1>1, <2>7
  <2>9. ~(last > last) /\ last + 1 > last
    BY <2>8
  <2>10. Slice(data, first, last) = SubSeq(data, first, last) /\ Slice(data, first, last + 1) = SubSeq(data, first, last)
    BY <2>8, <2>9, Zenon DEF Slice
  <2>. QED  BY <2>4, <2>5, <2>6, <2>7, <2>10
<1>3. CASE ~Open(range)
  BY <1>3 DEF Asked, Part, Requested
<1>. QED  BY <1>2, <1>3

LEMMA GetOutcome ==
  ASSUME NEW kind \in Adapters, NEW s \in Store, NEW size \in Nat, NEW range \in Ranges,
         NEW sofar \in Seq(Int), NEW o \in GET(kind, s, size, range, sofar)
  PROVE  /\ Proper(o, s) /\ o.store = s
         /\ o.answer = "ok" /\ ~o.fault => Right(kind, o.got, s.object, size, range, sofar)
         /\ o.answer = "more" => /\ ~o.fault /\ kind = "aws" /\ ~IsRange(range)
                                 /\ Len(sofar) < Len(s.object) /\ Len(o.got) # Len(s.object)
                                 /\ o.got = Append(sofar, s.object[Len(sofar) + 1])
<1>. DEFINE next == Append(sofar, s.object[Len(sofar) + 1])
            more == [Gives(s, next) EXCEPT !.answer = "more"]
<1>1. s.object \in Content /\ range.from \in Nat /\ range.to \in Nat /\ s.object \in Seq(Int)
      /\ Len(s.object) \in Nat
  BY RangeNumbers DEF Store, Content
<1>2. Part(s.object, range) \in Seq(Int) /\ Requested(s.object, range) \in Seq(Int)
  <2>1. /\ Slice(s.object, range.from + 1, range.to + 1) \in Seq(Int)
        /\ Slice(s.object, range.from + 1, Len(s.object)) \in Seq(Int)
    BY <1>1, SliceType
  <2>. QED  BY <1>1, <2>1 DEF Part, Requested
<1>3. /\ \A answer \in {"ok", "error", "panic", "fatal"} : Proper(Ends(answer, s), s) /\ Ends(answer, s).store = s /\ Ends(answer, s).answer = answer
      /\ \A answer \in {"ok", "error", "panic", "fatal"} :
            Proper(Fails(answer, s), s) /\ Fails(answer, s).store = s /\ Fails(answer, s).answer = answer /\ Fails(answer, s).fault
  BY EndsProper
<1>4. ASSUME \/ o \in {Ends("error", s), Ends("panic", s), Ends("fatal", s)}
             \/ o \in {Fails("ok", s), Fails("error", s), Fails("panic", s), Fails("fatal", s)}
      PROVE  /\ Proper(o, s) /\ o.store = s /\ o.answer \in {"ok", "error", "panic", "fatal"}
             /\ o.answer = "ok" => o.fault
  BY <1>3, <1>4
<1>5. ASSUME NEW got \in Seq(Int), o = Gives(s, got), Right(kind, got, s.object, size, range, sofar)
      PROVE  /\ Proper(o, s) /\ o.store = s /\ o.answer = "ok"
             /\ Right(kind, o.got, s.object, size, range, sofar)
  BY <1>5, GivesProper
<1>6. CASE kind \in {"hws", "ceph"}
  <2>1. PICK asked : \/ kind = "hws" /\ asked = Asked(s, IF range.to > range.from THEN range ELSE Whole)
                     \/ kind = "ceph" /\ asked = Asked(s, IF Open(range) THEN [range EXCEPT !.to = Len(s.object)] ELSE range)
    BY <1>6
  <2>2. o \in {Ends("error", s), Fails("ok", s), Fails("error", s)} \/ o = Gives(s, asked)
    BY <2>1 DEF GET, HwsGET, CephGET, StreamGET, Refused
  <2>3. asked = Requested(s.object, range) \/ (~Honoured(kind, range) /\ asked = s.object)
    BY <2>1, HwsAsks, CephAsks
  <2>4. asked \in Seq(Int) /\ Right(kind, asked, s.object, size, range, sofar)
    BY <1>1, <1>2, <1>6, <2>3 DEF Right
  <2>. QED  BY <2>2, <2>4, <1>4, <1>5
<1>7. CASE kind = "aws" /\ IsRange(range)
  <2>1. CASE Open(range)
    <3>1. o \in {Ends("error", s), Fails("error", s)} \/ o = Gives(s, s.object)
      BY <1>7, <2>1 DEF GET, AwsGET, AwsOpenGET, Refused
    <3>2. ~Honoured(kind, range)
      BY <1>1, <1>7, <2>1 DEF Honoured, Open
    <3>3. Right(kind, s.object, s.object, size, range, sofar)
      BY <1>7, <3>2 DEF Right
    <3>. QED  BY <1>1, <3>1, <3>3, <1>4, <1>5
  <2>2. CASE ~Open(range)
    <3>1. o \in {Ends("error", s), Fails("error", s)} \/ o = Gives(s, Part(s.object, range))
      BY <1>7, <2>2 DEF GET, AwsGET, AwsRangeGET, Refused
    <3>2. Right(kind, Part(s.object, range), s.object, size, range, sofar)
      BY <1>7, <2>2 DEF Right, Requested, Part
    <3>. QED  BY <3>1, <3>2, <1>2, <1>4, <1>5
  <2>. QED  BY <2>1, <2>2
<1>8. CASE kind = "aws" /\ ~IsRange(range)
  <2>1. o \in AwsPieceGET(s, sofar)
    BY <1>8 DEF GET, AwsGET, Open, IsRange
  <2>2. CASE o \in {Ends("error", s), Fails("error", s)}
    BY <2>2, <1>4
  <2>3. CASE o \notin {Ends("error", s), Fails("error", s)}
    <3>1. Len(sofar) < Len(s.object) /\ Len(sofar) + 1 \in 1..Len(s.object)
      BY <2>1, <2>3, <1>1 DEF AwsPieceGET, Refused
    <3>2. s.object[Len(sofar) + 1] \in Int /\ next \in Seq(Int)
      BY <3>1, <1>1
    <3>3. CASE Len(next) = Len(s.object)
      <4>1. o = Gives(s, next)
        BY <2>1, <2>3, <3>3 DEF AwsPieceGET, Refused
      <4>2. Right(kind, next, s.object, size, range, sofar)
        BY <3>1, <3>3, <1>8 DEF Right
      <4>. QED  BY <4>1, <4>2, <3>2, <1>5
    <3>4. CASE Len(next) # Len(s.object)
      <4>1. o = more
        BY <2>1, <2>3, <3>4 DEF AwsPieceGET, Refused
      <4>2. more.got = next /\ more.store = s /\ more.answer = "more" /\ ~more.fault /\ Proper(more, s)
        BY <3>2 DEF Gives, Ends, Proper, AnyOutcome
      <4>. QED  BY <4>1, <4>2, <3>1, <3>4, <1>8
    <3>. QED  BY <3>3, <3>4
  <2>. QED  BY <2>2, <2>3
<1>9. CASE kind = "azure"
  <2>1. CASE IsRange(range)
    <3>1. \/ o \in {Ends("error", s), Ends("panic", s), Ends("fatal", s), Fails("error", s), Fails("fatal", s)}
          \/ range.to + 1 > range.from /\ o = Gives(s, Part(s.object, range))
      BY <1>1, <2>1, <1>9 DEF GET, AzureGET, AzureRangeGET, Refused
    <3>2. range.to + 1 > range.from => Right(kind, Part(s.object, range), s.object, size, range, sofar)
      BY <1>1, <2>1, <1>9 DEF Right, Requested, Part, Open
    <3>. QED  BY <3>1, <3>2, <1>2, <1>4, <1>5
  <2>2. CASE ~IsRange(range)
    <3>1. \/ o \in {Ends("panic", s), Fails("panic", s)}
          \/ \E got \in ReadOnce(s.object, size) : o = Gives(s, got)
      BY <2>2, <1>9 DEF GET, AzureGET, AzureWholeGET
    <3>2. ASSUME NEW got \in ReadOnce(s.object, size), o = Gives(s, got)
          PROVE  got \in Seq(Int) /\ Right(kind, got, s.object, size, range, sofar)
      <4>1. PICK k \in 0..size : got = Padded(SubSeq(s.object, 1, k), size) /\ k <= Len(s.object)
        BY <3>2 DEF ReadOnce
      <4>2. k \in 0..Len(s.object)
        BY <4>1, <1>1
      <4>. QED  BY <4>1, <4>2, <1>1, <1>9, <2>2, PaddedType DEF Right
    <3>. QED  BY <3>1, <3>2, <1>4, <1>5
  <2>. QED  BY <2>1, <2>2
<1>. QED  BY <1>6, <1>7, <1>8, <1>9 DEF Adapters

\* A download of what is not there.
LEMMA NothingToGet ==
  ASSUME NEW kind \in Adapters, NEW range \in Ranges, NEW o \in GET(kind, EmptyStore, 0, range, <<>>)
  PROVE  o.answer \in {"error", "panic", "fatal"}
<1>1. PICK s : s = EmptyStore
  OBVIOUS
<1>2. s.object = NoObject /\ Len(s.object) = 0 /\ range.from \in Nat /\ range.to \in Nat
  BY <1>1, RangeNumbers DEF EmptyStore, NoObject
<1>3. \A answer : Ends(answer, s).answer = answer
  BY DEF Ends
<1>4. \A any \in Ranges : Missing(s, any)
  BY <1>2, RangeNumbers DEF Missing
<1>5. Open(range) => Missing(s, [range EXCEPT !.to = Len(s.object)])
  BY <1>2 DEF Missing, Ranges, Whole
<1>6. Whole \in Ranges /\ Len(<<>>) = 0
  BY DEF Ranges, Whole
<1>7. CASE kind \in {"hws", "ceph"}
  <2>1. o \in Refused(s)
    BY <1>1, <1>4, <1>5, <1>6, <1>7 DEF GET, HwsGET, CephGET, StreamGET
  <2>. QED  BY <1>3, <2>1 DEF Refused
<1>8. CASE kind = "aws"
  <2>1. o \in Refused(s)
    BY <1>1, <1>2, <1>4, <1>6, <1>8 DEF GET, AwsGET, AwsOpenGET, AwsRangeGET, AwsPieceGET, Open, IsRange
  <2>. QED  BY <1>3, <2>1 DEF Refused
<1>9. CASE kind = "azure"
  <2>1. o \in {Ends("error", s), Ends("panic", s), Ends("fatal", s)}
    BY <1>1, <1>2, <1>4, <1>9 DEF GET, AzureGET, AzureRangeGET, AzureWholeGET, Refused
  <2>. QED  BY <1>3, <2>1
<1>. QED  BY <1>7, <1>8, <1>9 DEF Adapters

LEMMA DeleteOutcome ==
  ASSUME NEW kind \in Adapters, NEW s \in Store, NEW o \in DELETE(kind, s)
  PROVE  /\ Proper(o, s) /\ Clean(o) /\ o.answer \in {"ok", "error"}
         /\ o.answer = "ok" => o.store.object = NoObject
<1>1. NoObject \in Content
  BY DEF NoObject, Content
<1>2. /\ S3Deleted(s) \in Store /\ S3Deleted(s).object = NoObject /\ S3Deleted(s).open = s.open
      /\ BlobWritten(s, NoObject) \in Store /\ BlobWritten(s, NoObject).object = NoObject
      /\ BlobWritten(s, NoObject).open = s.open
  BY <1>1, WrittenType
<1>3. PICK t \in {S3Deleted(s), BlobWritten(s, NoObject)} : o \in Tried(s, t) \cup Refused(s)
  BY DEF DELETE, AwsDELETE, HwsDELETE, CephDELETE, AzureDELETE, Adapters
<1>. QED  BY <1>2, <1>3, TriedProper

LEMMA UploadStores ==
  ASSUME NEW s \in Store, NEW u \in UploadIds, NEW p \in PartNumbers, NEW r \in Nat
  PROVE  /\ Opened(s, u) \in Store /\ Opened(s, u).open = s.open \cup {u}
         /\ Staged(s, u, p, r) \in Store /\ Staged(s, u, p, r).open = s.open
         /\ Closed(s, u) \in Store /\ Closed(s, u).open = s.open \ {u}
<1>1. NoParts \in [PartNumbers -> Nat]
  BY DEF NoParts
<1>. QED  BY <1>1 DEF Opened, Staged, Closed, Store

LEMMA InitOutcome ==
  ASSUME NEW kind \in Adapters, NEW s \in Store, NEW u \in UploadIds \ {0},
         NEW o \in InitMultipartUpload(kind, s, u)
  PROVE  Proper(o, s) /\ Clean(o) /\ o.answer \in {"ok", "error", "fatal"}
<1>. DEFINE t == Opened(s, u)
<1>1. t \in Store /\ (0 \notin s.open => 0 \notin t.open)
  <2>1. NoParts \in [PartNumbers -> Nat]
    BY DEF NoParts
  <2>. QED  BY <2>1 DEF Opened, Store
<1>. HIDE DEF t
<1>2. CASE o \in Tried(s, t) \cup Refused(s)
  BY <1>1, <1>2, TriedProper
<1>3. CASE o \in {Ends("ok", t), Ends("ok", s), Fails("fatal", t), Fails("fatal", s)}
  <2>1. /\ Proper(Ends("ok", t), s) /\ Proper(Ends("ok", s), s)
        /\ Proper(Fails("fatal", t), s) /\ Proper(Fails("fatal", s), s)
        /\ Ends("ok", t).answer = "ok" /\ ~Ends("ok", t).fault
        /\ Ends("ok", s).answer = "ok" /\ ~Ends("ok", s).fault
        /\ Fails("fatal", t).answer = "fatal" /\ Fails("fatal", s).answer = "fatal"
    BY <1>1, EndsProper
  <2>. QED  BY <1>3, <2>1 DEF Clean
<1>. QED  BY <1>2, <1>3 DEF InitMultipartUpload, AwsInit, CephInit, HwsInit, AzureInit, Adapters, t

LEMMA PartOutcome ==
  ASSUME NEW kind \in Adapters, NEW s \in Store, NEW u \in UploadIds, NEW p \in PartNumbers, NEW r \in Nat,
         NEW sized \in BOOLEAN, NEW v, v = (IF kind = "azure" THEN 0 ELSE u),
         NEW o \in UploadPart(kind, s, u, p, r, sized)
  PROVE  /\ Proper(o, s) /\ Clean(o) /\ o.answer \in {"ok", "error"}
         /\ o.answer = "ok" => /\ o.store = Staged(s, v, p, r)
                               /\ kind = "azure" \/ u \in s.open
<1>. DEFINE t == Staged(s, v, p, r)
<1>1. t \in Store /\ t.open = s.open /\ Staged(s, u, p, 0) \in Store /\ Staged(s, u, p, 0).open = s.open
  <2>1. v \in UploadIds /\ 0 \in Nat
    BY DatastoresAssumption DEF UploadIds
  <2>2. t \in Store /\ t.open = s.open
    BY <2>1, UploadStores
  <2>3. Staged(s, u, p, 0) \in Store /\ Staged(s, u, p, 0).open = s.open
    BY <2>1, UploadStores
  <2>. QED  BY <2>2, <2>3
<1>2. CASE o \in Tried(s, t) \cup Refused(s) /\ (kind = "azure" \/ u \in s.open \/ o \in Refused(s))
  <2>1. \A x \in Refused(s) : x.answer = "error"
    BY DEF Refused, Ends
  <2>. QED  BY <1>1, <1>2, <2>1, TriedProper
<1>3. CASE o = Fails("error", Staged(s, u, p, 0))
  <2>1. Proper(o, s) /\ o.answer = "error"
    BY <1>1, <1>3, EndsProper
  <2>. QED  BY <2>1 DEF Clean
<1>. QED  BY <1>2, <1>3 DEF UploadPart, AwsUploadPart, CephUploadPart, SentPart, HwsUploadPart, AzureUploadPart, Adapters

LEMMA TogetherType ==
  ASSUME NEW s \in Store, NEW u \in UploadIds, NEW asked \in Seq(PartNumbers)
  PROVE  Together(s, u, asked) \in Content
<1>1. \A i \in 1..Len(asked) : asked[i] \in PartNumbers /\ s.parts[u][asked[i]] \in Nat
  BY DEF Store
<1>2. DOMAIN asked = 1..Len(asked) /\ Len(asked) \in Nat
  OBVIOUS
<1>. QED  BY <1>1, <1>2 DEF Together, Content

LEMMA CompleteOutcome ==
  ASSUME NEW kind \in Adapters, NEW s \in Store, NEW u \in UploadIds, NEW asked \in Seq(PartNumbers),
         NEW o \in CompleteMultipartUpload(kind, s, u, asked)
  PROVE  /\ Proper(o, s) /\ Clean(o) /\ o.answer \in {"ok", "error", "panic"}
         /\ o.answer = "ok" => o.store.object = Together(s, IF kind = "azure" THEN 0 ELSE u, asked)
<1>. DEFINE all == Together(s, IF kind = "azure" THEN 0 ELSE u, asked)
            t == IF kind = "azure" THEN BlobWritten(s, all) ELSE Closed(Written(s, all), u)
<1>1. all \in Content
  BY TogetherType, DatastoresAssumption DEF UploadIds
<1>. HIDE DEF all
<1>2. t \in Store /\ t.object = all /\ (0 \notin s.open => 0 \notin t.open)
  <2>1. CASE kind = "azure"
    BY <1>1, <2>1, WrittenType
  <2>2. CASE kind # "azure"
    <3>1. Written(s, all) \in Store /\ Written(s, all).object = all /\ Written(s, all).open = s.open
      BY <1>1, WrittenType
    <3>2. /\ Closed(Written(s, all), u) \in Store /\ Closed(Written(s, all), u).object = all
          /\ Closed(Written(s, all), u).open = s.open \ {u}
      BY <3>1 DEF Closed, Store
    <3>. QED  BY <2>2, <3>2
  <2>. QED  BY <2>1, <2>2
<1>3. kind # "azure" => S3Completed(s, u, asked) = t
  BY DEF S3Completed, all
<1>4. kind = "azure" => BlobWritten(s, Together(s, 0, asked)) = t
  BY DEF all
<1>. HIDE DEF t
<1>5. CASE o \in Tried(s, t) \cup Refused(s)
  BY <1>2, <1>5, TriedProper DEF all
<1>6. CASE o \in {Ends("ok", t), Fails("panic", t), Fails("panic", s), Ends("panic", s)}
  <2>1. /\ Proper(Ends("ok", t), s) /\ Ends("ok", t).answer = "ok" /\ Ends("ok", t).store = t /\ ~Ends("ok", t).fault
        /\ Proper(Fails("panic", t), s) /\ Fails("panic", t).answer = "panic"
        /\ Proper(Fails("panic", s), s) /\ Fails("panic", s).answer = "panic"
        /\ Proper(Ends("panic", s), s) /\ Ends("panic", s).answer = "panic"
    BY <1>2, EndsProper
  <2>. QED  BY <1>2, <1>6, <2>1 DEF Clean, all
<1>. QED  BY <1>3, <1>4, <1>5, <1>6
     DEF CompleteMultipartUpload, AwsComplete, CephComplete, HwsComplete, AzureComplete, Adapters

LEMMA AbortOutcome ==
  ASSUME NEW kind \in Adapters, NEW s \in Store, NEW u \in UploadIds,
         NEW o \in AbortMultipartUpload(kind, s, u)
  PROVE  Proper(o, s) /\ Clean(o) /\ o.answer \in {"ok", "error"}
<1>2. Closed(s, u) \in Store /\ (0 \notin s.open => 0 \notin Closed(s, u).open)
  BY DEF Closed, Store
<1>3. CASE o \in Tried(s, Closed(s, u)) \cup Refused(s)
  BY <1>2, <1>3, TriedProper
<1>4. CASE o = Ends("ok", s)
  BY <1>4, EndsProper DEF Clean
<1>. QED  BY <1>3, <1>4 DEF AbortMultipartUpload, AwsAbort, CephAbort, HwsAbort, AzureAbort, Adapters

-----------------------------------------------------------------------------
(* Finding a backend *)

LEMMA LeastNumber ==
  ASSUME NEW S \in SUBSET Nat, S # {}
  PROVE  Min(S) \in S
<1>. DEFINE Least(n) == \A m \in S : n <= m
<1>1. PICK n \in S : \A m \in S : ~(<<m, n>> \in OpToRel(<, Nat))
  BY WFMin, NatLessThanWellFounded, Zenon
<1>2. \A m \in S : ~(m < n)
  BY <1>1, Zenon DEF OpToRel
<1>3. \A m \in S : m \in Nat /\ n \in Nat
  OBVIOUS
<1>4. \A m \in S : n <= m
  BY <1>2, <1>3
<1>5. \E k \in S : Least(k)
  BY <1>4
<1>. HIDE DEF Least
<1>6. (CHOOSE k \in S : Least(k)) \in S
  BY <1>5
<1>. QED  BY <1>6 DEF Min, Least

Backend == [id : Backends, good : BOOLEAN]

LEMMA ChosenIs ==
  ASSUME backends \in Seq(Backend), NEW name, Named(name) # {}
  PROVE  /\ Chosen(name) \in Backend /\ NameOf[Chosen(name).id] = name
         /\ name \in Locations \ {""}
<1>1. Named(name) \subseteq Nat
  BY DEF Named
<1>2. Min(Named(name)) \in Named(name)
  BY <1>1, LeastNumber
<1>3. Min(Named(name)) \in DOMAIN backends /\ NameOf[backends[Min(Named(name))].id] = name
  BY <1>2 DEF Named
<1>4. Chosen(name) \in Backend /\ NameOf[Chosen(name).id] = name
  BY <1>3 DEF Chosen
<1>. QED  BY <1>4, GatewayAssumption DEF Backend

LEMMA KindType ==
  ASSUME NEW b
  PROVE  Kind(b) \in Adapters \cup {"nil"}
BY DEF Kind, Adapter, Adapters

-----------------------------------------------------------------------------
(* Calls of the s3 service *)

Documents == [Collections -> Seq(Doc)]

LEMMA CallMoves ==
  ASSUME docs \in Documents, NEW call \in Call, Running(call)
  PROVE  /\ Moved(call) \in Call /\ Moved(call).coll = call.coll /\ Moved(call).op = call.op
         /\ Effect(call) \in Documents
<1>1. call.coll \in Collections /\ call.doc \in Doc /\ call.op \in {"create", "delete"}
      /\ call.at \in {"look", "find", "insert", "update"}
  BY DEF Call, Running, CallStep
<1>2. \A coll \in Collections : docs[coll] \in Seq(Doc) /\ (Found(coll) => First(coll) \in Doc)
  BY DEF Documents, Found, First
<1>3. \A coll \in Collections : Found(coll) => [First(coll) EXCEPT !.deleted = TRUE] \in Doc
  BY <1>2 DEF Doc
<1>4. \A s \in CallStep \cup {"ok", "error"} :
        At(call, s) \in Call /\ At(call, s).coll = call.coll /\ At(call, s).op = call.op
  BY DEF At, Call
<1>5. ASSUME NEW doc \in Doc
      PROVE  /\ Deleted(call, doc) \in Call /\ Deleted(call, doc).coll = call.coll
             /\ Deleted(call, doc).op = call.op
  <2>1. [doc EXCEPT !.deleted = TRUE] \in Doc
    BY DEF Doc
  <2>. QED  BY <2>1 DEF Deleted, Call, CallStep
<1>6. CASE call.at = "look"
  <2>1. \/ \E s \in {"update", "find", "error"} : Moved(call) = At(call, s)
        \/ \E coll \in Collections : Found(coll) /\ Moved(call) = Deleted(call, First(coll))
    BY <1>1, <1>6 DEF Moved, Look, CreateBucket, CreateObject, DeleteBucket, DeleteObject, Collections
  <2>2. Effect(call) = docs
    BY <1>6 DEF Effect
  <2>. QED  BY <1>2, <1>4, <1>5, <2>1, <2>2 DEF CallStep
<1>7. CASE call.at = "find"
  BY <1>4, <1>7 DEF Moved, Find, Effect, CallStep
<1>8. CASE call.at = "insert"
  <2>1. Effect(call) \in Documents
    BY <1>1, <1>2, <1>8 DEF Effect, Insert, Documents
  <2>. QED  BY <1>4, <1>8, <2>1 DEF Moved
<1>9. CASE call.at = "update"
  <2>1. ASSUME NEW s \in Seq(Doc) PROVE [s EXCEPT ![1] = call.doc] \in Seq(Doc)
    <3>1. CASE s = <<>>
      <4>1. s \in [1..0 -> Doc] /\ 1 \notin 1..0
        BY <3>1, LenProperties, EmptySeq
      <4>2. [s EXCEPT ![1] = call.doc] = s
        BY <4>1
      <4>. QED  BY <4>2
    <3>2. CASE 1 \in 1..Len(s)
      BY <1>1, <3>2, ExceptSeq
    <3>. QED  BY <3>1, <3>2
  <2>2. Effect(call) \in Documents
    BY <1>1, <1>2, <1>9, <2>1 DEF Effect, Update, Documents
  <2>. QED  BY <1>4, <1>9, <2>2 DEF Moved
<1>. QED  BY <1>1, <1>6, <1>7, <1>8, <1>9

\* A collection that has a document keeps having one, and what is to be
\* updated is there.
LEMMA CallFinds ==
  ASSUME docs \in Documents, NEW call \in Call, Running(call), docs' = Effect(call)
  PROVE  /\ \A coll \in Collections : Found(coll) => Found(coll)'
         /\ Moved(call).at = "update" => Found(call.coll)'
         /\ \A coll \in Collections \ {call.coll} : docs'[coll] = docs[coll]
         /\ call.at \notin {"insert", "update"} => docs' = docs
<1>1. call.coll \in Collections /\ call.op \in {"create", "delete"}
      /\ call.at \in {"look", "find", "insert", "update"}
  BY DEF Call, Running, CallStep
<1>2. \A coll \in Collections : docs[coll] \in Seq(Doc)
  BY DEF Documents
<1>3. CASE call.at \in {"look", "find"}
  <2>1. docs' = docs
    BY <1>3 DEF Effect
  <2>2. Moved(call).at = "update" => Found(call.coll)
    BY <1>1, <1>3 DEF Moved, Look, CreateBucket, CreateObject, DeleteBucket, DeleteObject, Find, At, Deleted,
       Collections, Call
  <2>. QED  BY <1>3, <2>1, <2>2 DEF Found
<1>4. CASE call.at = "insert"
  <2>1. Moved(call).at = "ok"
    BY <1>4 DEF Moved, At, Call
  <2>2. docs' = [docs EXCEPT ![call.coll] = Append(@, call.doc)]
    BY <1>4 DEF Effect, Insert
  <2>3. Append(docs[call.coll], call.doc) # <<>>
    BY <1>1, <1>2 DEF Call
  <2>. QED  BY <1>1, <1>2, <1>4, <2>1, <2>2, <2>3 DEF Found, Documents
<1>5. CASE call.at = "update"
  <2>1. Moved(call).at = "ok"
    BY <1>5 DEF Moved, At, Call
  <2>2. docs' = [docs EXCEPT ![call.coll][1] = call.doc]
    BY <1>5 DEF Effect, Update
  <2>3. docs[call.coll] # <<>> => [docs[call.coll] EXCEPT ![1] = call.doc] # <<>>
    BY <1>1, <1>2 DEF Call
  <2>. QED  BY <1>1, <1>2, <1>5, <2>1, <2>2, <2>3 DEF Found, Documents
<1>. QED  BY <1>1, <1>3, <1>4, <1>5

-----------------------------------------------------------------------------
(* Types, and where requests stand *)

Shape == GatewayTypeOK /\ HistoryTypes /\ Standing /\ OpenIds

LEMMA FirstTypes ==
  ASSUME docs \in Documents
  PROVE  \A coll \in Collections : Found(coll) => First(coll) \in Doc
BY DEF Documents, Found, First

LEMMA UnknownType == Unknown \in Answer
<1>1. <<>> \in Content /\ 0 \in UploadIds
  BY DatastoresAssumption DEF Content, UploadIds
<1>2. NoParts \in [PartNumbers -> Nat]
  BY DEF NoParts
<1>. QED  BY <1>1, <1>2 DEF Unknown, Answer

LEMMA PromisedType ==
  ASSUME NEW q \in Request, q.op # "get", truth \in Answer
  PROVE  Promised(q) \in Answer
<1>1. Unknown \in Answer /\ Gone \in Answer
  BY UnknownType DEF Gone, Answer
<1>2. \A content \in Content : \A n \in Nat : There(content, n) \in Answer
  BY <1>1 DEF There, Answer
<1>3. /\ [Unknown EXCEPT !.is = "upload"] \in Answer
      /\ [Unknown EXCEPT !.is = "hidden"] \in Answer
  BY <1>1 DEF Answer
<1>4. [truth EXCEPT !.upload = q.upload, !.parts[q.part] = q.r, !.size = @ + Declared(q, 1)] \in Answer
  <2>1. PICK t \in Answer, n \in Nat : t = truth /\ n = t.size + Declared(q, 1)
    BY DEF Declared, Answer
  <2>2. PICK u \in UploadIds, x \in PartNumbers, r \in Nat : u = q.upload /\ x = q.part /\ r = q.r
    BY DEF Request
  <2>3. [t EXCEPT !.upload = u, !.parts[x] = r, !.size = n] \in Answer
    BY DEF Answer
  <2>. QED  BY <2>1, <2>2, <2>3
<1>5. [i \in DOMAIN q.asked |-> truth.parts[q.asked[i]]] \in Content
  <2>1. q.asked \in Seq(PartNumbers)
    BY DEF Request
  <2>2. \A i \in 1..Len(q.asked) : truth.parts[q.asked[i]] \in Nat
    BY <2>1 DEF Answer
  <2>. QED  BY <2>1, <2>2 DEF Content
<1>6. <<q.r, q.r>> \in Content /\ Declared(q, 2) \in Nat
  BY PieceTypes DEF Request, Declared
<1>7. There(<<q.r, q.r>>, Declared(q, 2)) \in Answer
  BY <1>2, <1>6
<1>8. There([i \in DOMAIN q.asked |-> truth.parts[q.asked[i]]], truth.size) \in Answer
  BY <1>2, <1>5 DEF Answer
<1>. QED  BY <1>1, <1>3, <1>4, <1>7, <1>8 DEF Promised, Request, Ops

\* A step of one request leaves the others where they stand.
LEMMA OthersStand ==
  ASSUME Standing, NEW c \in Callers,
         \A d \in Callers \ {c} : /\ at'[d] = at[d] /\ svc'[d] = svc[d] /\ req'[d] = req[d]
                                 /\ (d \in solo' => d \in solo) /\ (d \in calm' => d \in calm),
         \A coll \in Collections : docs[coll] # <<>> => docs'[coll] # <<>>,
         Stands(c)'
  PROVE  Standing'
<1>1. ASSUME NEW d \in Callers \ {c} PROVE Stands(d)'
  <2>1. Stands(d) /\ d \in Callers
    BY <1>1 DEF Standing
  <2>2. at'[d] = at[d] /\ svc'[d] = svc[d] /\ req'[d] = req[d]
        /\ (d \in solo' => d \in solo) /\ (d \in calm' => d \in calm)
    BY <1>1
  <2>3. at'[d] = "record" /\ svc'[d].at = "update" => Found(svc[d].coll)'
    BY <2>1, <2>2 DEF Stands, Found, Collections
  <2>. QED  BY <2>1, <2>2, <2>3 DEF Stands
<1>. QED  BY <1>1 DEF Standing

\* The end of a request.
LEMMA StopShape ==
  ASSUME Shape, NEW c \in Callers, NEW answer, NEW got \in Seq(Int), NEW trusted \in BOOLEAN,
         at[c] # "idle", Stop(c, answer, got, trusted),
         UNCHANGED <<docs, late, backends, count, given>>,
         stores' \in [Backends -> Store], OpenIds', hiccups' \in 0..MaxHiccups
  PROVE  Shape'
<1>1. req[c] \in Request
  BY DEF Shape, Standing, Stands
<1>2. HistoryTypes'
  <2>1. truth' \in Answer
    <3>1. Unknown \in Answer
      BY UnknownType
    <3>2. req[c].op # "get" => Promised(req[c]) \in Answer
      BY <1>1, PromisedType DEF Shape, HistoryTypes
    <3>. QED  BY <3>1, <3>2 DEF Stop, Ended, Shape, HistoryTypes
  <2>2. body' \in [Callers -> Seq(Int)]
    <3>1. Failed \in Seq(Int)
      <4>1. \A x \in Int : <<x>> \in Seq(Int)
        OBVIOUS
      <4>. QED  BY <4>1 DEF Failed
    <3>. QED  BY <3>1 DEF Stop, Shape, HistoryTypes
  <2>3. solo' \subseteq Callers /\ calm' \subseteq Callers /\ safe' \in BOOLEAN
    BY DEF Stop, Ended, Shape, HistoryTypes
  <2>4. \A call \in late' : Running(call)
    BY DEF Shape, HistoryTypes
  <2>. QED  BY <2>1, <2>2, <2>3, <2>4 DEF HistoryTypes
<1>3. NoDoc("") \in Doc
  BY GatewayAssumption DEF NoDoc, NewDoc, Doc
<1>4. GatewayTypeOK'
  BY <1>3 DEF Stop, Shape, GatewayTypeOK
<1>5. Standing'
  <2>1. Stands(c)'
    BY DEF Stop, Ended, Shape, GatewayTypeOK, HistoryTypes, Stands
  <2>2. \A d \in Callers \ {c} : /\ at'[d] = at[d] /\ svc'[d] = svc[d] /\ req'[d] = req[d]
                                /\ (d \in solo' => d \in solo) /\ (d \in calm' => d \in calm)
    BY DEF Stop, Ended, Shape, GatewayTypeOK
  <2>. QED  BY <2>1, <2>2, OthersStand DEF Shape
<1>. QED  BY <1>2, <1>4, <1>5 DEF Shape

LEMMA SomeTypes ==
  ASSUME Shape
  PROVE  /\ docs \in Documents /\ backends \in Seq(Backend) /\ NoDoc("") \in Doc /\ Failed \in Seq(Int)
         /\ \A coll \in Collections : Found(coll) => First(coll) \in Doc
         /\ \A c \in Callers : at[c] # "idle" => req[c] \in Request
         /\ \A c \in Callers : at[c] = "store" =>
              client[c] \in Backend /\ Kind(client[c]) \in Adapters /\ stores[Id(c)] \in Store
<1>1. docs \in Documents /\ backends \in Seq(Backend)
  BY DEF Shape, GatewayTypeOK, Documents, Backend
<1>2. \A c \in Callers : at[c] = "store" =>
        client[c] \in Backend /\ Kind(client[c]) \in Adapters /\ stores[Id(c)] \in Store
  BY KindType DEF Shape, GatewayTypeOK, Backend, Id
<1>3. NoDoc("") \in Doc
  BY GatewayAssumption DEF NoDoc, NewDoc, Doc
<1>4. Failed \in Seq(Int)
  <2>1. \A x \in Int : <<x>> \in Seq(Int)
    OBVIOUS
  <2>. QED  BY <2>1 DEF Failed
<1>. QED  BY <1>1, <1>2, <1>3, <1>4, FirstTypes DEF Shape, Standing, Stands

\* What a call of a store may end with: what the store does, or how the call
\* ends of one whose keys are not right.
Unanswered(c, o) ==
  /\ o.store = stores[Id(c)] /\ ~o.fault /\ o.answer \in {"ok", "error", "panic", "fatal"}
  /\ o.answer = "ok" => req[c].op \in {"init", "abort"}
  /\ o.answer = "fatal" => req[c].op \in {"get", "init"}

LEMMA RefusalsAre ==
  ASSUME Shape, NEW c \in Callers, at[c] = "store", NEW answer \in WrongKeys(c)
  PROVE  /\ answer \in {"ok", "error", "panic", "fatal"}
         /\ answer = "ok" => req[c].op \in {"init", "abort"}
         /\ answer = "fatal" => req[c].op \in {"get", "init"}
<1>1. Kind(client[c]) \in Adapters /\ req[c].range \in Ranges
  BY SomeTypes DEF Request
<1>2. CASE req[c].op = "get"
  <2>1. PICK set : set = {o.answer : o \in GET(Kind(client[c]), EmptyStore, 0, req[c].range, <<>>)}
    OBVIOUS
  <2>2. \A x \in set : x \in {"error", "panic", "fatal"}
    BY <1>1, <2>1, NothingToGet
  <2>3. answer \in set \cup {"panic"}
    BY <1>2, <2>1 DEF WrongKeys
  <2>. QED  BY <1>2, <2>2, <2>3
<1>3. CASE req[c].op # "get"
  BY <1>3 DEF WrongKeys
<1>. QED  BY <1>2, <1>3

LEMMA OutcomesAre ==
  ASSUME Shape, NEW c \in Callers, at[c] = "store", NEW outcomes,
         \A x \in outcomes : Proper(x, stores[Id(c)]),
         NEW o \in Outcomes(c, outcomes)
  PROVE  /\ Proper(o, stores[Id(c)]) /\ (o.fault => hiccups < MaxHiccups)
         /\ o \in outcomes \/ Unanswered(c, o)
<1>1. client[c] \in Backend /\ stores[Id(c)] \in Store
  BY SomeTypes
<1>2. CASE client[c].good
  BY <1>2 DEF Outcomes
<1>3. CASE ~client[c].good
  <2>1. PICK answer \in WrongKeys(c) : o = Ends(answer, stores[Id(c)])
    BY <1>3 DEF Outcomes
  <2>2. /\ answer \in {"ok", "error", "panic", "fatal"}
        /\ answer = "ok" => req[c].op \in {"init", "abort"}
        /\ answer = "fatal" => req[c].op \in {"get", "init"}
    BY RefusalsAre
  <2>. QED  BY <1>1, <2>1, <2>2, EndsProper DEF Unanswered
<1>. QED  BY <1>2, <1>3

LEMMA StoresShape ==
  ASSUME Shape, NEW c \in Callers, at[c] = "store", NEW o, Proper(o, stores[Id(c)]),
         o.fault => hiccups < MaxHiccups, Stores(c, o)
  PROVE  /\ stores' \in [Backends -> Store] /\ OpenIds' /\ hiccups' \in 0..MaxHiccups
         /\ stores'[Id(c)] = o.store
         /\ \A id \in Backends : id # Id(c) => stores'[id] = stores[id]
         /\ o.store = stores[Id(c)] => stores' = stores
         /\ ~o.fault => hiccups' = hiccups
         /\ hiccups' = hiccups => ~o.fault
<1>1. client[c] \in Backend /\ Id(c) \in Backends
  BY SomeTypes DEF Backend, Id
<1>2. o.store \in Store /\ o.fault \in BOOLEAN /\ o.got \in Seq(Int)
  BY DEF Proper, AnyOutcome
<1>3. stores \in [Backends -> Store] /\ hiccups \in 0..MaxHiccups /\ MaxHiccups \in Nat
  BY GatewayAssumption DEF Shape, GatewayTypeOK
<1>4. stores' = [stores EXCEPT ![Id(c)] = o.store] /\ hiccups' = (IF o.fault THEN hiccups + 1 ELSE hiccups)
  BY DEF Stores
<1>5. OpenIds'
  BY <1>1, <1>2, <1>3, <1>4 DEF Proper, Shape, OpenIds
<1>. QED  BY <1>1, <1>2, <1>3, <1>4, <1>5

\* The handler goes on to write the document.
LEMMA RecordShape ==
  ASSUME Shape, NEW c \in Callers, at[c] = "store", req[c].op # "get",
         NEW op \in {"create", "delete"}, NEW doc \in Doc,
         svc' = [svc EXCEPT ![c] = Calling(op, "object", doc)], Goes(c, "record"), solo' \subseteq solo,
         UNCHANGED <<docs, late, backends, count, req, seen, client, body, calm, truth, safe>>,
         stores' \in [Backends -> Store], OpenIds', hiccups' \in 0..MaxHiccups, given' \subseteq UploadIds
  PROVE  Shape'
<1>1. Calling(op, "object", doc) \in Call /\ Calling(op, "object", doc) # NoCall
      /\ Calling(op, "object", doc).coll = "object" /\ Calling(op, "object", doc).at = "look"
  BY DEF Calling, Call, NoCall, CallStep, Collections
<1>2. GatewayTypeOK'
  BY <1>1 DEF Shape, GatewayTypeOK, Goes, Kind, Adapter
<1>3. HistoryTypes'
  BY DEF Shape, HistoryTypes
<1>4. Standing'
  <2>1. at'[c] = "record" /\ svc'[c] = Calling(op, "object", doc) /\ c \in DOMAIN at
    BY DEF Shape, GatewayTypeOK, Goes
  <2>2. Stands(c)'
    BY <1>1, <2>1 DEF Shape, Standing, Stands, BucketOps
  <2>3. \A d \in Callers \ {c} : /\ at'[d] = at[d] /\ svc'[d] = svc[d] /\ req'[d] = req[d]
                                /\ (d \in solo' => d \in solo) /\ (d \in calm' => d \in calm)
    BY DEF Shape, GatewayTypeOK, Goes
  <2>. QED  BY <2>2, <2>3, OthersStand DEF Shape
<1>. QED  BY <1>2, <1>3, <1>4 DEF Shape

\* It goes on without a call of the s3 service.
LEMMA OnwardShape ==
  ASSUME Shape, NEW c \in Callers, at[c] # "idle", at[c] # "record", NEW step \in {"client", "store"}, Goes(c, step),
         step = "client" => req[c].op # "bdelete",
         step = "store" => /\ req[c].op \notin BucketOps
                           /\ client'[c] # NoBackend /\ Kind(client'[c]) # "nil",
         \A d \in Callers : d # c => client'[d] = client[d],
         client' \in [Callers -> Backend \cup {NoBackend}],
         seen' \in [Callers -> Doc], body' \in [Callers -> Seq(Int)],
         Quiet, UNCHANGED <<docs, late, svc, backends, stores, req, count, given, hiccups>>
  PROVE  Shape'
<1>1. GatewayTypeOK'
  BY DEF Shape, GatewayTypeOK, Goes, Kind, Adapter, Backend
<1>2. HistoryTypes'
  BY DEF Shape, HistoryTypes, Quiet, historyVars
<1>3. Standing'
  <2>1. /\ at'[c] = step /\ c \in DOMAIN at
        /\ UNCHANGED <<solo, calm, svc, req, docs>>
    BY DEF Shape, GatewayTypeOK, Goes, Quiet, historyVars
  <2>2. Stands(c)'
    BY <2>1 DEF Shape, Standing, Stands
  <2>3. \A d \in Callers \ {c} : at'[d] = at[d]
    BY DEF Shape, GatewayTypeOK, Goes
  <2>. QED  BY <2>1, <2>2, <2>3, OthersStand DEF Shape
<1>4. OpenIds'
  BY DEF Shape, OpenIds
<1>. QED  BY <1>1, <1>2, <1>3, <1>4 DEF Shape

LEMMA GivenNames == "" \in Locations /\ "nil" \notin Backends
BY GatewayAssumption, Zenon

LEMMA GivenNumbers == 1 \in PartNumbers /\ PartLists \subseteq Seq(PartNumbers) /\ MaxHiccups \in Nat
BY GatewayAssumption, Zenon

LEMMA RoutedOps == Routed \ {"none"} \subseteq Ops
BY DEF Routed, Ops, RouteObjectPut, RouteObjectDelete, RouteBucketPut

LEMMA RequestIs ==
  ASSUME Shape, NEW op \in Ops, NEW q \in Requests(op)
  PROVE  /\ q \in Request /\ q.op = op /\ q.r > 0
         /\ op = "init" => q.upload # 0
         /\ op = "complete" => q.asked \in PartLists
<1>1. Plain(op) \in Request /\ Plain(op).op = op /\ Plain(op).r > 0
  <2>1. "" \in Locations /\ 1 \in PartNumbers /\ <<>> \in Seq(PartNumbers) /\ Whole \in Ranges
        /\ 0 \in UploadIds /\ count + 1 \in Nat /\ count + 1 > 0
    <3>1. count \in Nat
      BY DEF Shape, GatewayTypeOK
    <3>2. "" \in Locations /\ 1 \in PartNumbers
      BY GivenNames, GivenNumbers, Zenon
    <3>4. 0 \in UploadIds
      BY DatastoresAssumption DEF UploadIds
    <3>3. Whole \in Ranges /\ <<>> \in Seq(PartNumbers)
      BY DEF Ranges, Whole
    <3>5. count + 1 \in Nat /\ count + 1 > 0
      BY <3>1
    <3>. QED  BY <3>2, <3>3, <3>4, <3>5, Zenon
  <2>. QED  BY <2>1 DEF Plain, Request
<1>. DEFINE plain == Plain(op)
<1>. HIDE DEF plain
<1>2. given \subseteq UploadIds /\ Fresh \subseteq UploadIds \ {0} /\ PartLists \subseteq Seq(PartNumbers)
  <2>1. given \subseteq UploadIds
    BY DEF Shape, GatewayTypeOK
  <2>2. Fresh \subseteq 1..MaxUpload /\ 1..MaxUpload \subseteq UploadIds \ {0}
    BY DatastoresAssumption DEF Fresh, UploadIds
  <2>. QED  BY <2>1, <2>2, GivenNumbers
<1>3. plain \in Request /\ plain.op = op /\ plain.r > 0
  BY <1>1 DEF plain
<1>4. CASE op = "put"
  <2>1. PICK l \in Locations, w, z \in BOOLEAN : q = Storing(plain, l, w, z)
    BY <1>4 DEF Requests, plain
  <2>. QED  BY <1>3, <1>4, <2>1 DEF Request, Storing
<1>11. CASE op = "bput"
  <2>1. PICK l \in Locations, w \in BOOLEAN : q = Storing(plain, l, w, plain.sized)
    BY <1>11 DEF Requests, plain
  <2>. QED  BY <1>3, <1>11, <2>1 DEF Request, Storing
<1>5. CASE op = "init"
  <2>1. PICK l \in Locations, u \in Fresh : q = Opening(plain, l, u)
    BY <1>5 DEF Requests, plain
  <2>. QED  BY <1>2, <1>3, <1>5, <2>1 DEF Request, Opening
<1>6. CASE op = "get"
  <2>1. PICK g \in Ranges : q = [plain EXCEPT !.range = g]
    BY <1>6 DEF Requests, plain
  <2>. QED  BY <1>3, <1>6, <2>1 DEF Request
<1>7. CASE op = "part"
  <2>1. PICK p \in PartNumbers, u \in given, z \in BOOLEAN : q = Sending(plain, p, u, z)
    BY <1>7 DEF Requests, plain
  <2>. QED  BY <1>2, <1>3, <1>7, <2>1 DEF Request, Sending
<1>8. CASE op = "complete"
  <2>1. PICK a \in PartLists, u \in given : q = Joining(plain, a, u)
    BY <1>8 DEF Requests, plain
  <2>. QED  BY <1>2, <1>3, <1>8, <2>1 DEF Request, Joining
<1>9. CASE op = "abort"
  <2>1. PICK u \in given : q = [plain EXCEPT !.upload = u]
    BY <1>9 DEF Requests, plain
  <2>. QED  BY <1>2, <1>3, <1>9, <2>1 DEF Request
<1>10. CASE op \in {"delete", "bdelete"}
  <2>1. q = plain
    BY <1>10 DEF Requests, plain
  <2>. QED  BY <1>3, <1>10, <2>1
<1>. QED  BY <1>4, <1>5, <1>6, <1>7, <1>8, <1>9, <1>10, <1>11 DEF Ops

LEMMA StartShape ==
  ASSUME Shape, NEW c \in Callers, NEW op \in Routed \ {"none"}, NEW q \in Requests(op), Start(c, q)
  PROVE  Shape'
<1>1. /\ q \in Request /\ q.op = op /\ q.r > 0 /\ op \in Ops
      /\ op = "init" => q.upload # 0
      /\ op = "complete" => q.asked \in PartLists
  BY RoutedOps, RequestIs
<1>2. FirstStep(q) \in {"bucket", "md", "client", "record"}
      /\ (FirstStep(q) = "record" => op \in BucketOps)
      /\ (FirstStep(q) = "bucket" => op \in {"put", "init"} /\ q.class = "")
      /\ (FirstStep(q) = "md" => op \in ReadingOps)
      /\ (FirstStep(q) = "client" => op # "bdelete")
  BY <1>1 DEF FirstStep, BucketPut, BucketDelete, BucketOps, ReadingOps, Ops
<1>. DEFINE call == Calling(IF op = "bput" THEN "create" ELSE "delete", "bucket", NoDoc(""))
<1>3. call \in Call /\ call # NoCall /\ call.coll = "bucket" /\ call.at = "look"
  <2>. DEFINE doc == NoDoc("")
              o == IF op = "bput" THEN "create" ELSE "delete"
  <2>1. doc \in Doc /\ o \in {"create", "delete"}
    BY SomeTypes
  <2>. HIDE DEF doc, o
  <2>2. /\ Calling(o, "bucket", doc) \in Call /\ Calling(o, "bucket", doc) # NoCall
        /\ Calling(o, "bucket", doc).coll = "bucket" /\ Calling(o, "bucket", doc).at = "look"
    BY <2>1 DEF Calling, Call, NoCall, CallStep, Collections
  <2>. QED  BY <2>2 DEF doc, o
<1>. HIDE DEF call
<1>4. /\ at' = [at EXCEPT ![c] = FirstStep(q)] /\ req' = [req EXCEPT ![c] = q]
      /\ body' = [body EXCEPT ![c] = <<>>] /\ count' = count + 1
      /\ svc' = [svc EXCEPT ![c] = IF FirstStep(q) # "record" THEN NoCall ELSE call]
      /\ UNCHANGED <<docs, late, backends, stores, seen, client, given, hiccups>>
      /\ at[c] = "idle"
  BY <1>1 DEF Start, serviceVars, call
<1>5. GatewayTypeOK'
  <2>1. /\ at' \in [Callers -> {"idle", "bucket", "md", "client", "store", "record"}]
        /\ svc' \in [Callers -> Call \cup {NoCall}] /\ req' \in [Callers -> Request \cup {NoRequest}]
        /\ count' \in Nat
    <3>1. at' \in [Callers -> {"idle", "bucket", "md", "client", "store", "record"}]
      BY <1>2, <1>4 DEF Shape, GatewayTypeOK
    <3>2. svc' \in [Callers -> Call \cup {NoCall}]
      BY <1>3, <1>4 DEF Shape, GatewayTypeOK
    <3>3. req' \in [Callers -> Request \cup {NoRequest}] /\ count' \in Nat
      BY <1>1, <1>4 DEF Shape, GatewayTypeOK
    <3>. QED  BY <3>1, <3>2, <3>3
  <2>2. \A d \in Callers : /\ at'[d] = "store" => at[d] = "store"
                           /\ at'[d] = "record" => svc'[d] # NoCall
    BY <1>2, <1>3, <1>4 DEF Shape, GatewayTypeOK
  <2>. QED  BY <1>4, <2>1, <2>2 DEF Shape, GatewayTypeOK, Kind, Adapter
<1>6. solo' \subseteq solo \cup {c} /\ calm' \subseteq calm \cup {c} /\ (op # "put" => calm' \subseteq calm)
      /\ safe' \in BOOLEAN /\ truth' = truth
  BY <1>1 DEF Start, Begun
<1>7. HistoryTypes'
  <2>1. <<>> \in Seq(Int)
    OBVIOUS
  <2>. QED  BY <1>4, <1>6, <2>1 DEF Shape, HistoryTypes
<1>8. Standing'
  <2>1. at'[c] = FirstStep(q) /\ req'[c] = q /\ svc'[c] = IF FirstStep(q) # "record" THEN NoCall ELSE call
    BY <1>4 DEF Shape, GatewayTypeOK
  <2>2. c \notin calm
    BY <1>4 DEF Shape, Standing, Stands
  <2>3. Stands(c)'
    BY <1>1, <1>2, <1>3, <1>6, <2>1, <2>2 DEF BucketOps, Stands
  <2>4. \A d \in Callers \ {c} : /\ at'[d] = at[d] /\ svc'[d] = svc[d] /\ req'[d] = req[d]
                               /\ (d \in solo' => d \in solo) /\ (d \in calm' => d \in calm)
    BY <1>4, <1>6 DEF Shape, GatewayTypeOK
  <2>. QED  BY <1>4, <2>3, <2>4, OthersStand DEF Shape, Found
<1>9. OpenIds'
  BY <1>4 DEF Shape, OpenIds
<1>. QED  BY <1>5, <1>7, <1>8, <1>9 DEF Shape

\* The handlers before they call a store.
LEMMA ReadingShape ==
  ASSUME Shape, NEW c \in Callers, GetMetadata(c) \/ GetBucket(c) \/ ReadFails(c)
  PROVE  Shape'
<1>0. <<>> \in Seq(Int) /\ (c \in solo) \in BOOLEAN
  OBVIOUS
<1>1. at[c] \in {"md", "bucket"}
  BY DEF GetMetadata, GetBucket, ReadFails
<1>2. stores' = stores => stores' \in [Backends -> Store] /\ OpenIds'
  BY DEF Shape, GatewayTypeOK, OpenIds
<1>3. hiccups' = hiccups \/ Hiccup => hiccups' \in 0..MaxHiccups
  BY GivenNumbers DEF Shape, GatewayTypeOK, Hiccup
<1>4. CASE GetMetadata(c) /\ ~Found("object")
  BY <1>0, <1>1, <1>2, <1>3, <1>4, StopShape DEF GetMetadata, Finish, serviceVars
<1>5. CASE GetBucket(c) /\ ~Found("bucket")
  BY <1>0, <1>1, <1>2, <1>3, <1>5, StopShape DEF GetBucket, Finish, serviceVars
<1>6. CASE ReadFails(c)
  BY <1>0, <1>1, <1>2, <1>3, <1>6, StopShape DEF ReadFails, FinishAfter, serviceVars
<1>7. CASE GetMetadata(c) /\ Found("object")
  <2>1. seen' \in [Callers -> Doc]
    BY <1>7, SomeTypes DEF GetMetadata, Shape, GatewayTypeOK, Collections
  <2>2. req[c].op # "bdelete"
    BY <1>7 DEF GetMetadata, Shape, Standing, Stands, ReadingOps
  <2>. QED  BY <1>1, <1>7, <2>1, <2>2, OnwardShape
            DEF GetMetadata, Shape, GatewayTypeOK, HistoryTypes, serviceVars, Backend
<1>8. CASE GetBucket(c) /\ Found("bucket")
  <2>1. NewDoc(First("bucket").backend, "", 0) \in Doc
    BY <1>8, SomeTypes DEF NewDoc, Doc, Collections
  <2>2. seen' \in [Callers -> Doc]
    BY <1>8, <2>1 DEF GetBucket, Shape, GatewayTypeOK
  <2>3. req[c].op # "bdelete"
    BY <1>8 DEF GetBucket, Shape, Standing, Stands
  <2>. QED  BY <1>1, <1>8, <2>2, <2>3, OnwardShape
            DEF GetBucket, Shape, GatewayTypeOK, HistoryTypes, serviceVars, Backend
<1>. QED  BY <1>4, <1>5, <1>6, <1>7, <1>8

\* The name a handler looks up, and what becomes of it.
NameFor(c) == IF ReadsBucket(c) /\ Found("bucket") THEN First("bucket").backend ELSE ByName(c)

LEMMA ClientSteps ==
  ASSUME Shape, NEW c \in Callers, GetClient(c)
  PROVE  /\ at[c] = "client" /\ UNCHANGED <<docs, late, backends, stores, quota, count, given, hiccups>>
         /\ \/ \E answer : answer # "ok" /\ Finish(c, answer, <<>>)
            \/ /\ Named(NameFor(c)) # {} /\ Chosen(NameFor(c)) \in Backend
               /\ Kind(Chosen(NameFor(c))) # "nil"
               /\ NewDoc(NameFor(c), "", 0) \in Doc
               /\ client' = [client EXCEPT ![c] = Chosen(NameFor(c))]
               /\ UNCHANGED <<req, seen, body, solo, calm, truth, safe>>
               /\ \/ /\ req[c].op = "bput" /\ Goes(c, "record")
                     /\ svc' = [svc EXCEPT ![c] = Calling("create", "bucket", NewDoc(NameFor(c), "", 0))]
                  \/ /\ req[c].op # "bput" /\ Goes(c, "store") /\ UNCHANGED svc
<1>1. at[c] = "client" /\ UNCHANGED <<docs, late, backends, stores, quota, count, given, hiccups>>
  BY DEF GetClient, serviceVars
<1>2. \/ NoClient(c) \/ Finish(c, "panic", <<>>)
      \/ /\ Named(NameFor(c)) # {} /\ Kind(Chosen(NameFor(c))) # "nil"
         /\ client' = [client EXCEPT ![c] = Chosen(NameFor(c))]
         /\ UNCHANGED <<req, seen, body, solo, calm, truth, safe>>
         /\ \/ /\ req[c].op = "bput" /\ Goes(c, "record")
               /\ svc' = [svc EXCEPT ![c] = Calling("create", "bucket", NewDoc(NameFor(c), "", 0))]
            \/ /\ req[c].op # "bput" /\ Goes(c, "store") /\ UNCHANGED svc
  BY DEF GetClient, NameFor, Quiet, historyVars, Usable
<1>3. CASE NoClient(c)
  BY <1>1, <1>3 DEF NoClient
<1>4. CASE Finish(c, "panic", <<>>)
  BY <1>1, <1>4
<1>5. Named(NameFor(c)) # {} => Chosen(NameFor(c)) \in Backend /\ NewDoc(NameFor(c), "", 0) \in Doc
  BY ChosenIs, SomeTypes DEF NewDoc, Doc
<1>. QED  BY <1>1, <1>2, <1>3, <1>4, <1>5

LEMMA ClientShape ==
  ASSUME Shape, NEW c \in Callers, GetClient(c) \/ ClientFails(c)
  PROVE  Shape'
<1>0. <<>> \in Seq(Int) /\ (c \in solo) \in BOOLEAN
  OBVIOUS
<1>1. at[c] = "client"
  BY DEF GetClient, ClientFails
<1>2. stores' = stores => stores' \in [Backends -> Store] /\ OpenIds'
  BY DEF Shape, GatewayTypeOK, OpenIds
<1>3. hiccups' = hiccups \/ Hiccup => hiccups' \in 0..MaxHiccups
  BY GivenNumbers DEF Shape, GatewayTypeOK, Hiccup
<1>4. CASE ClientFails(c)
  BY <1>0, <1>1, <1>2, <1>3, <1>4, StopShape DEF ClientFails, NoClient, Finish, serviceVars
<1>. SUFFICES ASSUME GetClient(c) PROVE Shape'
  BY <1>4
<1>. DEFINE found == Chosen(NameFor(c))
<1>5. CASE \E answer : answer # "ok" /\ Finish(c, answer, <<>>)
  <2>1. PICK answer : Finish(c, answer, <<>>)
    BY <1>5
  <2>2. UNCHANGED <<docs, late, backends, stores, count, given, hiccups>>
    BY ClientSteps
  <2>. QED  BY <1>0, <1>1, <1>2, <1>3, <2>1, <2>2, StopShape DEF Finish
<1>6. CASE /\ found \in Backend /\ Kind(found) # "nil" /\ client' = [client EXCEPT ![c] = found]
           /\ UNCHANGED <<req, seen, body, solo, calm, truth, safe>>
           /\ req[c].op # "bput" /\ Goes(c, "store") /\ UNCHANGED svc
  <2>1. req[c].op \notin BucketOps
    BY <1>1, <1>6 DEF Shape, Standing, Stands, BucketOps
  <2>2. found # NoBackend
    <3>1. found.id \in Backends /\ NoBackend.id = "nil"
      BY <1>6 DEF Backend, NoBackend
    <3>. QED  BY <3>1, GivenNames, Zenon
  <2>3. client' \in [Callers -> Backend \cup {NoBackend}] /\ client'[c] = found
    BY <1>6 DEF Shape, GatewayTypeOK, Backend
  <2>4. UNCHANGED <<docs, late, backends, stores, quota, count, given, hiccups>>
    BY ClientSteps
  <2>5. \A d \in Callers : d # c => client'[d] = client[d]
    BY <1>6 DEF Shape, GatewayTypeOK
  <2>6. seen' \in [Callers -> Doc] /\ body' \in [Callers -> Seq(Int)] /\ Quiet
    BY <1>6 DEF Shape, GatewayTypeOK, HistoryTypes, Quiet, historyVars
  <2>7. Kind(client'[c]) # "nil"
    BY <1>6, <2>3
  <2>. QED  BY <1>1, <1>6, <2>1, <2>2, <2>3, <2>4, <2>5, <2>6, <2>7, OnwardShape
<1>7. CASE /\ NewDoc(NameFor(c), "", 0) \in Doc
           /\ found \in Backend /\ client' = [client EXCEPT ![c] = found]
           /\ UNCHANGED <<req, seen, body, solo, calm, truth, safe>>
           /\ req[c].op = "bput" /\ Goes(c, "record")
           /\ svc' = [svc EXCEPT ![c] = Calling("create", "bucket", NewDoc(NameFor(c), "", 0))]
  <2>. DEFINE call == Calling("create", "bucket", NewDoc(NameFor(c), "", 0))
  <2>1. call \in Call /\ call # NoCall /\ call.coll = "bucket" /\ call.at = "look"
    <3>. DEFINE doc == NewDoc(NameFor(c), "", 0)
    <3>1. doc \in Doc
      BY <1>7
    <3>. HIDE DEF doc
    <3>2. /\ Calling("create", "bucket", doc) \in Call /\ Calling("create", "bucket", doc) # NoCall
          /\ Calling("create", "bucket", doc).coll = "bucket" /\ Calling("create", "bucket", doc).at = "look"
      BY <3>1 DEF Calling, Call, NoCall, CallStep, Collections
    <3>. QED  BY <3>2 DEF doc
  <2>. HIDE DEF call
  <2>2. svc' = [svc EXCEPT ![c] = call]
    BY <1>7 DEF call
  <2>3. UNCHANGED <<docs, late, backends, stores, quota, count, given, hiccups>>
    BY ClientSteps
  <2>4. GatewayTypeOK'
    <3>1. client' \in [Callers -> [id : Backends, good : BOOLEAN] \cup {NoBackend}]
      BY <1>7 DEF Shape, GatewayTypeOK, Backend
    <3>2. \A d \in Callers : at'[d] = "store" => at[d] = "store" /\ client'[d] = client[d]
      BY <1>1, <1>7 DEF Shape, GatewayTypeOK, Goes
    <3>3. \A d \in Callers : at'[d] = "record" => svc'[d] # NoCall
      BY <1>7, <2>1, <2>2 DEF Shape, GatewayTypeOK, Goes
    <3>4. svc' \in [Callers -> Call \cup {NoCall}]
          /\ at' \in [Callers -> {"idle", "bucket", "md", "client", "store", "record"}]
      <4>1. svc \in [Callers -> Call \cup {NoCall}]
            /\ at \in [Callers -> {"idle", "bucket", "md", "client", "store", "record"}]
        BY DEF Shape, GatewayTypeOK
      <4>2. at' = [at EXCEPT ![c] = "record"]
        BY <1>7 DEF Goes
      <4>. QED  BY <2>1, <2>2, <4>1, <4>2
    <3>5. \A d \in Callers : at'[d] = "store" => client'[d] # NoBackend /\ Kind(client'[d]) # "nil"
      BY <3>2 DEF Shape, GatewayTypeOK
    <3>. QED  BY <1>7, <2>3, <3>1, <3>3, <3>4, <3>5 DEF Shape, GatewayTypeOK
  <2>5. HistoryTypes'
    BY <1>7, <2>3 DEF Shape, HistoryTypes
  <2>6. Standing'
    <3>1. /\ at'[c] = "record" /\ svc'[c] = call
          /\ \A d \in Callers : d # c => at'[d] = at[d] /\ svc'[d] = svc[d]
      BY <1>7, <2>2 DEF Shape, GatewayTypeOK, Goes
    <3>2. UNCHANGED <<docs, req, solo, calm>>
      BY <1>7, <2>3
    <3>3. req[c].op = "bput" /\ req[c].op \in BucketOps /\ at[c] # "idle"
      BY <1>1, <1>7 DEF BucketOps
    <3>4. Stands(c)'
      BY <2>1, <3>1, <3>2, <3>3 DEF Shape, Standing, Stands
    <3>. QED  BY <3>1, <3>2, <3>4, OthersStand DEF Shape, Found
  <2>. QED  BY <1>2, <2>3, <2>4, <2>5, <2>6 DEF Shape
<1>. QED  BY <1>5, <1>6, <1>7, ClientSteps

-----------------------------------------------------------------------------
(* The calls of the store and what the handlers write after them *)

Using == {"put", "delete", "init", "part", "complete", "abort"}
WriteOp(c) == IF req[c].op \in {"delete", "abort"} THEN "delete" ELSE "create"
WriteDoc(c) ==
  CASE req[c].op = "put" -> NewDoc(Location(c), "", Declared(req[c], 2))
    [] req[c].op = "init" -> NewDoc(Location(c), "0", 0)
    [] req[c].op = "part" -> Longer(seen[c], req[c])
    [] req[c].op = "complete" -> [seen[c] EXCEPT !.init = "1"]
    [] req[c].op \in {"delete", "abort"} -> NoDoc("")

\* What the store holds when it has acknowledged a call.
Slot(c) == IF Kind(client[c]) = "azure" THEN 0 ELSE req[c].upload
Acknowledged(c, s, t) ==
  LET q == req[c] IN
  /\ q.op = "put" => t.object \in {<<q.r, q.r>>, <<q.r>>} /\ (q.whole => t.object = <<q.r, q.r>>)
  /\ q.op = "delete" => t.object = NoObject
  /\ q.op = "part" => t = Staged(s, Slot(c), q.part, q.r) /\ (Kind(client[c]) = "azure" \/ q.upload \in s.open)
  /\ q.op = "complete" => t.object = Together(s, Slot(c), q.asked)

StoreCall(c) ==
  \/ ObjectPut(c) \/ ObjectDelete(c)
  \/ MultiPartUploadInit(c) \/ UploadPartRequest(c) \/ CompleteRequest(c) \/ AbortRequest(c)

Writes(c) ==
  /\ svc' = [svc EXCEPT ![c] = Calling(WriteOp(c), "object", WriteDoc(c))] /\ Goes(c, "record")
  /\ UNCHANGED <<late, req, seen, client, body, solo, calm, truth, safe>>

LEMMA RecordsOr ==
  ASSUME NEW c, NEW o, NEW op, NEW doc, Clean(o), o.fault \in BOOLEAN, Records(c, o, op, doc)
  PROVE  \/ o.answer # "ok" /\ Finish(c, o.answer, <<>>)
         \/ /\ o.answer = "ok" /\ ~o.fault
            /\ svc' = [svc EXCEPT ![c] = Calling(op, "object", doc)] /\ Goes(c, "record")
            /\ UNCHANGED <<req, seen, client, body, solo, calm, truth, safe>>
BY DEF Records, Stored, Clean

LEMMA WriteDocType ==
  ASSUME Shape, NEW c \in Callers, at[c] = "store", req[c].op \in Using
  PROVE  WriteDoc(c) \in Doc /\ WriteOp(c) \in {"create", "delete"}
<1>1. seen[c] \in Doc /\ req[c] \in Request
  BY DEF Shape, GatewayTypeOK, Standing, Stands
<1>2. Location(c) \in Locations
  BY <1>1 DEF Location, Request, Doc
<1>3. Longer(seen[c], req[c]) \in Doc /\ [seen[c] EXCEPT !.init = "1"] \in Doc
  <2>1. \A doc \in Doc : doc.size \in Nat
    BY DEF Doc
  <2>2. \A doc \in Doc : \A n \in Nat : [doc EXCEPT !.size = n] \in Doc
    BY DEF Doc
  <2>3. Declared(req[c], 1) \in Nat /\ \A n, m \in Nat : n + m \in Nat
    BY DEF Declared
  <2>4. [seen[c] EXCEPT !.init = "1"] \in Doc
    BY <1>1 DEF Doc
  <2>. QED  BY <1>1, <2>1, <2>2, <2>3, <2>4 DEF Longer
<1>4. NewDoc(Location(c), "", Declared(req[c], 2)) \in Doc /\ NewDoc(Location(c), "0", 0) \in Doc
  <2>1. Declared(req[c], 2) \in Nat
    BY DEF Declared
  <2>. QED  BY <1>2, <2>1 DEF NewDoc, Doc
<1>5. NoDoc("") \in Doc
  BY SomeTypes
<1>. QED  BY <1>3, <1>4, <1>5 DEF WriteDoc, WriteOp, Using

Ends_Or_Writes(c, o) ==
  /\ Proper(o, stores[Id(c)]) /\ (o.fault => hiccups < MaxHiccups) /\ Stores(c, o)
  /\ req[c].op = "put" => o.store.object \in {stores[Id(c)].object, <<req[c].r, req[c].r>>, <<req[c].r>>}
  /\ \/ o.answer # "ok" /\ Finish(c, o.answer, <<>>) /\ UNCHANGED <<late, given>>
     \/ /\ o.answer = "ok" /\ ~o.fault /\ Writes(c) /\ given' \subseteq UploadIds
        /\ Acknowledged(c, stores[Id(c)], o.store)
     \/ req[c].op = "init" /\ Fatal /\ UNCHANGED given

LEMMA StoreStep ==
  ASSUME Shape, NEW c \in Callers, at[c] = "store", NEW outcomes,
         \A x \in outcomes :
           /\ Proper(x, stores[Id(c)]) /\ Clean(x) /\ (x.answer = "ok" => Acknowledged(c, stores[Id(c)], x.store))
           /\ req[c].op = "put" => x.store.object \in {stores[Id(c)].object, <<req[c].r, req[c].r>>, <<req[c].r>>},
         NEW o \in Outcomes(c, outcomes), Stores(c, o),
         Records(c, o, WriteOp(c), WriteDoc(c)),
         UNCHANGED late, given' = given \/ (o.answer = "ok" /\ given' \subseteq UploadIds)
  PROVE  Ends_Or_Writes(c, o)
<1>1. /\ Proper(o, stores[Id(c)]) /\ (o.fault => hiccups < MaxHiccups)
      /\ o \in outcomes \/ Unanswered(c, o)
  BY OutcomesAre
<1>2. Clean(o)
  BY <1>1 DEF Clean, Unanswered
<1>3. o.fault \in BOOLEAN
  BY <1>1 DEF Proper, AnyOutcome
<1>4. \/ o.answer # "ok" /\ Finish(c, o.answer, <<>>)
      \/ /\ o.answer = "ok" /\ ~o.fault
         /\ svc' = [svc EXCEPT ![c] = Calling(WriteOp(c), "object", WriteDoc(c))] /\ Goes(c, "record")
         /\ UNCHANGED <<req, seen, client, body, solo, calm, truth, safe>>
  BY <1>2, <1>3, RecordsOr
<1>5. given \subseteq UploadIds
  BY DEF Shape, GatewayTypeOK
<1>6. o.answer = "ok" => Acknowledged(c, stores[Id(c)], o.store)
  BY <1>1 DEF Unanswered, Acknowledged
<1>7. req[c].op = "put" => o.store.object \in {stores[Id(c)].object, <<req[c].r, req[c].r>>, <<req[c].r>>}
  BY <1>1 DEF Unanswered
<1>. QED  BY <1>1, <1>4, <1>5, <1>6, <1>7 DEF Ends_Or_Writes, Writes

LEMMA StoreSteps ==
  ASSUME Shape, NEW c \in Callers, StoreCall(c)
  PROVE  /\ at[c] = "store" /\ req[c].op \in Using
         /\ UNCHANGED <<docs, backends, quota, count>>
         /\ \E o : Ends_Or_Writes(c, o)
<1>. DEFINE s == stores[Id(c)]
            kind == Kind(client[c])
            q == req[c]
<1>1. at[c] = "store" /\ q.op \in Using /\ UNCHANGED <<docs, backends, quota, count>>
  BY DEF StoreCall, Using, ObjectPut, ObjectDelete, MultiPartUploadInit, UploadPartRequest,
     CompleteRequest, AbortRequest
<1>2. s \in Store /\ kind \in Adapters /\ q \in Request
  BY <1>1, SomeTypes
<1>3. /\ q.r \in Nat /\ q.whole \in BOOLEAN /\ q.sized \in BOOLEAN /\ q.part \in PartNumbers /\ q.upload \in UploadIds
      /\ q.asked \in Seq(PartNumbers)
      /\ q.op = "init" => q.upload \in UploadIds \ {0}
  BY <1>1, <1>2 DEF Request, Shape, Standing, Stands
<1>. SUFFICES \E o : Ends_Or_Writes(c, o)
  BY <1>1
<1>4. CASE ObjectPut(c)
  <2>. DEFINE outcomes == PUT(kind, s, <<q.r, q.r>>, q.whole)
  <2>1. q.op = "put"
    BY <1>4 DEF ObjectPut
  <2>2. \A o \in outcomes : 
          /\ Proper(o, s) /\ Clean(o) /\ o.store.object \in {s.object, <<q.r, q.r>>, <<q.r>>}
          /\ o.answer = "ok" => o.store.object \in {<<q.r, q.r>>, <<q.r>>}
          /\ o.answer = "ok" /\ q.whole => o.store.object = <<q.r, q.r>>
    BY <1>2, <1>3, PutOutcome
  <2>3. PICK o \in Outcomes(c, outcomes) :
          Stores(c, o) /\ Records(c, o, "create", NewDoc(Location(c), "", Declared(req[c], 2))) /\ UNCHANGED <<late, given>>
    BY <1>4 DEF ObjectPut
  <2>. HIDE DEF outcomes
  <2>4. WriteOp(c) = "create" /\ WriteDoc(c) = NewDoc(Location(c), "", Declared(req[c], 2))
    BY <2>1 DEF WriteOp, WriteDoc
  <2>5. \A x \in outcomes : x.answer = "ok" => Acknowledged(c, s, x.store)
    BY <2>1, <2>2 DEF Acknowledged, Slot
  <2>. QED  BY <1>1, <2>1, <2>2, <2>3, <2>4, <2>5, StoreStep
<1>5. CASE ObjectDelete(c)
  <2>. DEFINE outcomes == DELETE(kind, s)
  <2>1. q.op = "delete"
    BY <1>5 DEF ObjectDelete
  <2>2. \A o \in outcomes : 
          Proper(o, s) /\ Clean(o) /\ (o.answer = "ok" => o.store.object = NoObject)
    BY <1>2, <1>3, DeleteOutcome
  <2>3. PICK o \in Outcomes(c, outcomes) :
          Stores(c, o) /\ Records(c, o, "delete", NoDoc("")) /\ UNCHANGED <<late, given>>
    BY <1>5 DEF ObjectDelete
  <2>. HIDE DEF outcomes
  <2>4. WriteOp(c) = "delete" /\ WriteDoc(c) = NoDoc("")
    BY <2>1 DEF WriteOp, WriteDoc
  <2>5. \A x \in outcomes : x.answer = "ok" => Acknowledged(c, s, x.store)
    BY <2>1, <2>2 DEF Acknowledged, Slot
  <2>. QED  BY <1>1, <2>1, <2>2, <2>3, <2>4, <2>5, StoreStep
<1>6. CASE UploadPartRequest(c)
  <2>. DEFINE outcomes == UploadPart(kind, s, q.upload, q.part, q.r, q.sized)
  <2>1. q.op = "part"
    BY <1>6 DEF UploadPartRequest
  <2>2. \A o \in outcomes : 
          /\ Proper(o, s) /\ Clean(o)
          /\ o.answer = "ok" => o.store = Staged(s, Slot(c), q.part, q.r)
          /\ o.answer = "ok" => kind = "azure" \/ q.upload \in s.open
    <3>1. Slot(c) = IF kind = "azure" THEN 0 ELSE q.upload
      BY DEF Slot
    <3>. QED  BY <1>2, <1>3, <3>1, PartOutcome
  <2>3. PICK o \in Outcomes(c, outcomes) :
          Stores(c, o) /\ Records(c, o, "create", Longer(seen[c], req[c])) /\ UNCHANGED <<late, given>>
    BY <1>6 DEF UploadPartRequest
  <2>. HIDE DEF outcomes
  <2>4. WriteOp(c) = "create" /\ WriteDoc(c) = Longer(seen[c], req[c])
    BY <2>1 DEF WriteOp, WriteDoc
  <2>5. \A x \in outcomes : x.answer = "ok" => Acknowledged(c, s, x.store)
    BY <2>1, <2>2 DEF Acknowledged
  <2>. QED  BY <1>1, <2>1, <2>2, <2>3, <2>4, <2>5, StoreStep
<1>7. CASE CompleteRequest(c)
  <2>. DEFINE outcomes == CompleteMultipartUpload(kind, s, q.upload, q.asked)
  <2>1. q.op = "complete"
    BY <1>7 DEF CompleteRequest
  <2>2. \A o \in outcomes : 
          /\ Proper(o, s) /\ Clean(o)
          /\ o.answer = "ok" =>
               o.store.object = Together(s, IF kind = "azure" THEN 0 ELSE q.upload, q.asked)
    BY <1>2, <1>3, CompleteOutcome
  <2>3. PICK o \in Outcomes(c, outcomes) :
          Stores(c, o) /\ Records(c, o, "create", [seen[c] EXCEPT !.init = "1"]) /\ UNCHANGED <<late, given>>
    BY <1>7 DEF CompleteRequest
  <2>. HIDE DEF outcomes
  <2>4. WriteOp(c) = "create" /\ WriteDoc(c) = [seen[c] EXCEPT !.init = "1"]
    BY <2>1 DEF WriteOp, WriteDoc
  <2>5. \A x \in outcomes : x.answer = "ok" => Acknowledged(c, s, x.store)
    BY <2>1, <2>2 DEF Acknowledged, Slot
  <2>. QED  BY <1>1, <2>1, <2>2, <2>3, <2>4, <2>5, StoreStep
<1>8. CASE AbortRequest(c)
  <2>. DEFINE outcomes == AbortMultipartUpload(kind, s, q.upload)
  <2>1. q.op = "abort"
    BY <1>8 DEF AbortRequest
  <2>2. \A o \in outcomes : 
          Proper(o, s) /\ Clean(o)
    BY <1>2, <1>3, AbortOutcome
  <2>3. PICK o \in Outcomes(c, outcomes) :
          Stores(c, o) /\ Records(c, o, "delete", NoDoc("")) /\ UNCHANGED <<late, given>>
    BY <1>8 DEF AbortRequest
  <2>. HIDE DEF outcomes
  <2>4. WriteOp(c) = "delete" /\ WriteDoc(c) = NoDoc("")
    BY <2>1 DEF WriteOp, WriteDoc
  <2>5. \A x \in outcomes : x.answer = "ok" => Acknowledged(c, s, x.store)
    BY <2>1, <2>2 DEF Acknowledged, Slot
  <2>. QED  BY <1>1, <2>1, <2>2, <2>3, <2>4, <2>5, StoreStep
<1>9. CASE MultiPartUploadInit(c)
  <2>. DEFINE outcomes == InitMultipartUpload(kind, s, q.upload)
  <2>1. q.op = "init"
    BY <1>9 DEF MultiPartUploadInit
  <2>2. \A o \in outcomes : Proper(o, s) /\ Clean(o)
    BY <1>2, <1>3, <2>1, InitOutcome
  <2>3. PICK o \in Outcomes(c, outcomes) :
          /\ Stores(c, o)
          /\ IF o.answer = "fatal" THEN Fatal /\ UNCHANGED given
             ELSE /\ Records(c, o, "create", NewDoc(Location(c), "0", 0))
                  /\ given' = (IF o.answer = "ok" THEN given \cup
                                 {IF kind = "azure" THEN 0 ELSE q.upload} ELSE given)
                  /\ UNCHANGED late
    BY <1>9 DEF MultiPartUploadInit
  <2>. HIDE DEF outcomes
  <2>4. /\ Proper(o, s) /\ (o.fault => hiccups < MaxHiccups)
    BY <1>1, <2>2, <2>3, OutcomesAre
  <2>5. CASE o.answer = "fatal"
    BY <2>1, <2>3, <2>4, <2>5 DEF Ends_Or_Writes
  <2>6. CASE o.answer # "fatal"
    <3>1. WriteOp(c) = "create" /\ WriteDoc(c) = NewDoc(Location(c), "0", 0)
      BY <2>1 DEF WriteOp, WriteDoc
    <3>2. given' = given \/ (o.answer = "ok" /\ given' \subseteq UploadIds)
      <4>1. given \subseteq UploadIds /\ 0 \in UploadIds
        BY DatastoresAssumption DEF Shape, GatewayTypeOK, UploadIds
      <4>. QED  BY <1>3, <2>3, <2>6, <4>1
    <3>3. \A x \in outcomes : x.answer = "ok" => Acknowledged(c, s, x.store)
      BY <2>1 DEF Acknowledged
    <3>. QED  BY <1>1, <2>1, <2>2, <2>3, <2>6, <3>1, <3>2, <3>3, StoreStep
  <2>. QED  BY <2>5, <2>6
<1>. QED  BY <1>4, <1>5, <1>6, <1>7, <1>8, <1>9 DEF StoreCall

LEMMA FatalShape ==
  ASSUME Shape, Fatal, UNCHANGED <<docs, backends, count, given>>,
         stores' \in [Backends -> Store], OpenIds', hiccups' \in 0..MaxHiccups
  PROVE  Shape'
<1>1. late' \subseteq Call
  <2>1. late \subseteq Call /\ \A c \in Callers : svc[c] # NoCall => svc[c] \in Call
    BY DEF Shape, GatewayTypeOK
  <2>2. ASSUME NEW call \in late', call \notin late PROVE call \in Call
    <3>1. call \in {svc[c] : c \in Callers} /\ Running(call)
      BY <2>2 DEF Fatal
    <3>. QED  BY <2>1, <3>1 DEF Running
  <2>. QED  BY <2>1, <2>2
<1>2. GatewayTypeOK'
  BY <1>1, SomeTypes DEF Fatal, Shape, GatewayTypeOK
<1>3. HistoryTypes'
  BY SomeTypes, UnknownType DEF Fatal, Shape, HistoryTypes, Running
<1>4. Standing'
  BY DEF Fatal, Standing, Stands
<1>. QED  BY <1>2, <1>3, <1>4 DEF Shape

LEMMA StoreCallShape ==
  ASSUME Shape, NEW c \in Callers, StoreCall(c)
  PROVE  Shape'
<1>1. /\ at[c] = "store" /\ req[c].op \in Using /\ UNCHANGED <<docs, backends, quota, count>>
  BY StoreSteps
<1>2. PICK o : Ends_Or_Writes(c, o)
  BY StoreSteps
<1>3. stores' \in [Backends -> Store] /\ OpenIds' /\ hiccups' \in 0..MaxHiccups
  BY <1>1, <1>2, StoresShape DEF Ends_Or_Writes
<1>4. CASE o.answer # "ok" /\ Finish(c, o.answer, <<>>) /\ UNCHANGED <<late, given>>
  <2>1. <<>> \in Seq(Int) /\ (c \in solo) \in BOOLEAN
    OBVIOUS
  <2>. QED  BY <1>1, <1>3, <1>4, <2>1, StopShape DEF Finish
<1>5. CASE Writes(c) /\ given' \subseteq UploadIds
  BY <1>1, <1>3, <1>5, WriteDocType, RecordShape DEF Writes, Using
<1>6. CASE req[c].op = "init" /\ Fatal /\ UNCHANGED given
  BY <1>1, <1>3, <1>6, FatalShape
<1>. QED  BY <1>2, <1>4, <1>5, <1>6 DEF Ends_Or_Writes

\* A download goes on or ends, or the process does; the store stays as it is.
LEMMA GetSteps ==
  ASSUME Shape, NEW c \in Callers, ObjectGet(c)
  PROVE  /\ at[c] = "store" /\ req[c].op = "get"
         /\ UNCHANGED <<docs, backends, stores, quota, count, given>> /\ hiccups' \in 0..MaxHiccups
         /\ Fatal \/ UNCHANGED late
         /\ \E o :
              /\ o.got \in Seq(Int)
              /\ hiccups' = hiccups => ~o.fault
              /\ o.answer = "ok" /\ ~o.fault =>
                   Right(Kind(client[c]), o.got, stores[Id(c)].object, seen[c].size, req[c].range, body[c])
              /\ \/ /\ o.answer = "more" /\ body' = [body EXCEPT ![c] = o.got]
                    /\ Len(body[c]) < Len(stores[Id(c)].object)
                    /\ o.got = Append(body[c], stores[Id(c)].object[Len(body[c]) + 1])
                    /\ UNCHANGED <<late, at, req, seen, client, svc, hiccups, solo, calm, truth, safe>>
                 \/ /\ o.answer # "more" /\ FinishAfter(c, o.answer, o.got, o.fault) /\ o.fault \in BOOLEAN
                    /\ UNCHANGED late
                 \/ Fatal
<1>. DEFINE s == stores[Id(c)]
            outcomes == GET(Kind(client[c]), s, seen[c].size, req[c].range, body[c])
<1>1. /\ at[c] = "store" /\ req[c].op = "get"
      /\ UNCHANGED <<docs, backends, quota, count, given>>
  BY DEF ObjectGet
<1>2. /\ s \in Store /\ Kind(client[c]) \in Adapters /\ seen[c].size \in Nat /\ req[c].range \in Ranges
      /\ body[c] \in Seq(Int)
  <2>1. seen[c] \in Doc /\ req[c] \in Request /\ body[c] \in Seq(Int)
    BY <1>1, SomeTypes DEF Shape, GatewayTypeOK, HistoryTypes
  <2>. QED  BY <1>1, <2>1, SomeTypes DEF Doc, Request
<1>3. \A o \in outcomes :
        /\ Proper(o, s) /\ o.store = s
        /\ o.answer = "ok" /\ ~o.fault =>
             Right(Kind(client[c]), o.got, s.object, seen[c].size, req[c].range, body[c])
        /\ o.answer = "more" => /\ ~o.fault /\ Len(body[c]) < Len(s.object)
                                /\ o.got = Append(body[c], s.object[Len(body[c]) + 1])
  <2>1. PICK kind, store, size, range, sofar :
          kind = Kind(client[c]) /\ store = s /\ size = seen[c].size /\ range = req[c].range /\ sofar = body[c]
    OBVIOUS
  <2>2. outcomes = GET(kind, store, size, range, sofar)
    BY <2>1
  <2>. HIDE DEF outcomes
  <2>3. kind \in Adapters /\ store \in Store /\ size \in Nat /\ range \in Ranges /\ sofar \in Seq(Int)
    BY <1>2, <2>1
  <2>4. ASSUME NEW o \in outcomes
        PROVE  /\ Proper(o, store) /\ o.store = store
               /\ o.answer = "ok" /\ ~o.fault => Right(kind, o.got, store.object, size, range, sofar)
               /\ o.answer = "more" => /\ ~o.fault /\ Len(sofar) < Len(store.object)
                                       /\ o.got = Append(sofar, store.object[Len(sofar) + 1])
    <3>1. o \in GET(kind, store, size, range, sofar)
      BY <2>2, <2>4
    <3>. QED  BY <2>3, <3>1, GetOutcome
  <2>. QED  BY <2>1, <2>4
<1>4. PICK o \in Outcomes(c, outcomes) :
        /\ Stores(c, o)
        /\ CASE o.answer = "fatal" -> Fatal
             [] o.answer = "more" -> /\ body' = [body EXCEPT ![c] = o.got]
                                     /\ UNCHANGED <<late, at, req, seen, client, svc>> /\ Quiet
             [] OTHER -> FinishAfter(c, o.answer, o.got, o.fault) /\ UNCHANGED late
  BY DEF ObjectGet
<1>. HIDE DEF outcomes
<1>5. /\ Proper(o, s) /\ (o.fault => hiccups < MaxHiccups)
      /\ o \in outcomes \/ Unanswered(c, o)
  BY <1>1, <1>3, <1>4, OutcomesAre
<1>6. /\ stores' = stores /\ hiccups' \in 0..MaxHiccups
      /\ ~o.fault => hiccups' = hiccups
      /\ hiccups' = hiccups => ~o.fault
  BY <1>1, <1>3, <1>4, <1>5, StoresShape DEF Unanswered
<1>7. o.got \in Seq(Int) /\ o.fault \in BOOLEAN
  BY <1>5 DEF Proper, AnyOutcome
<1>8. /\ o.answer = "ok" /\ ~o.fault => o \in outcomes
      /\ o.answer = "more" => o \in outcomes /\ ~o.fault
  BY <1>1, <1>3, <1>5 DEF Unanswered
<1>. QED  BY <1>1, <1>3, <1>4, <1>5, <1>6, <1>7, <1>8 DEF Quiet, historyVars

LEMMA GetShape ==
  ASSUME Shape, NEW c \in Callers, ObjectGet(c)
  PROVE  Shape'
<1>1. /\ at[c] = "store" /\ req[c].op = "get" /\ hiccups' \in 0..MaxHiccups
      /\ UNCHANGED <<docs, backends, stores, quota, count, given>>
  BY GetSteps
<1>2. OpenIds' /\ stores' \in [Backends -> Store]
  BY <1>1 DEF Shape, OpenIds, GatewayTypeOK
<1>3. CASE \E o : /\ o.got \in Seq(Int) /\ body' = [body EXCEPT ![c] = o.got]
                  /\ UNCHANGED <<late, at, req, seen, client, svc, hiccups, solo, calm, truth, safe>>
  <2>1. GatewayTypeOK'
    BY <1>1, <1>3 DEF Shape, GatewayTypeOK, Kind, Adapter
  <2>2. HistoryTypes'
    BY <1>1, <1>3 DEF Shape, HistoryTypes
  <2>3. Standing'
    <3>1. UNCHANGED <<at, svc, req, solo, calm, docs>>
      BY <1>1, <1>3
    <3>. QED  BY <3>1 DEF Shape, Standing, Stands, Found
  <2>. QED  BY <1>2, <2>1, <2>2, <2>3 DEF Shape
<1>4. CASE \E o : /\ o.got \in Seq(Int) /\ FinishAfter(c, o.answer, o.got, o.fault) /\ o.fault \in BOOLEAN
                  /\ UNCHANGED late
  <2>1. PICK o : /\ o.got \in Seq(Int) /\ FinishAfter(c, o.answer, o.got, o.fault) /\ o.fault \in BOOLEAN
                 /\ UNCHANGED late
    BY <1>4
  <2>2. (c \in solo /\ ~o.fault) \in BOOLEAN
    OBVIOUS
  <2>. QED  BY <1>1, <1>2, <2>1, <2>2, StopShape DEF FinishAfter
<1>5. CASE Fatal
  BY <1>1, <1>2, <1>5, FatalShape
<1>. QED  BY <1>3, <1>4, <1>5, GetSteps

\* The steps of the s3 service.
LEMMA CallTypes ==
  ASSUME Shape, NEW c \in Callers, svc[c] # NoCall
  PROVE  /\ at[c] = "record" /\ svc[c] \in Call /\ req[c].op # "get"
         /\ svc[c].coll = IF req[c].op \in BucketOps THEN "bucket" ELSE "object"
<1>1. at[c] = "record" /\ svc[c] \in Call
  BY DEF Shape, GatewayTypeOK, Standing, Stands
<1>. QED  BY <1>1 DEF Shape, Standing, Stands

LEMMA ServeShape ==
  ASSUME Shape, NEW c \in Callers, Serve(c)
  PROVE  Shape'
<1>1. Running(svc[c]) /\ svc[c] # NoCall /\ svc' = [svc EXCEPT ![c] = Moved(svc[c])] /\ docs' = Effect(svc[c])
      /\ UNCHANGED <<late, backends, stores, at, req, seen, client, body, quota, count, given, hiccups,
                     solo, calm, truth, safe>>
  BY DEF Serve, ServiceStep, Quiet, historyVars, serviceVars, requestVars, Running
<1>2. /\ at[c] = "record" /\ svc[c] \in Call /\ req[c].op # "get"
      /\ svc[c].coll = IF req[c].op \in BucketOps THEN "bucket" ELSE "object"
  BY <1>1, CallTypes
<1>. DEFINE moved == Moved(svc[c])
<1>3. moved \in Call /\ moved.coll = svc[c].coll /\ docs' \in Documents
  BY <1>1, <1>2, SomeTypes, CallMoves
<1>4. /\ \A coll \in Collections : docs[coll] # <<>> => docs'[coll] # <<>>
      /\ moved.at = "update" => docs'[svc[c].coll] # <<>>
  BY <1>1, <1>2, SomeTypes, CallFinds DEF Found
<1>5. moved # NoCall
  BY <1>3 DEF Call, NoCall
<1>. HIDE DEF moved
<1>6. GatewayTypeOK'
  <2>1. svc' \in [Callers -> Call \cup {NoCall}] /\ \A d \in Callers : at[d] = "record" => svc'[d] # NoCall
    BY <1>1, <1>3, <1>5 DEF Shape, GatewayTypeOK, moved
  <2>2. docs' \in [Collections -> Seq(Doc)]
    BY <1>3 DEF Documents
  <2>. QED  BY <1>1, <2>1, <2>2 DEF Shape, GatewayTypeOK, Kind, Adapter
<1>7. HistoryTypes'
  BY <1>1 DEF Shape, HistoryTypes
<1>8. Standing'
  <2>1. svc'[c] = moved /\ \A d \in Callers \ {c} : svc'[d] = svc[d]
    BY <1>1 DEF Shape, GatewayTypeOK, moved
  <2>2. \A coll \in Collections : docs[coll] # <<>> => docs'[coll] # <<>>
    BY <1>4
  <2>3. Stands(c)'
    <3>1. Stands(c) /\ at'[c] = "record" /\ req'[c] = req[c] /\ solo' = solo /\ calm' = calm
      BY <1>1, <1>2 DEF Shape, Standing
    <3>2. (svc[c].at = "update" => Found(svc[c].coll))'
      <4>1. svc[c].coll \in {"bucket", "object"}
        BY <1>2
      <4>. QED  BY <1>3, <1>4, <2>1, <4>1 DEF Found
    <3>. QED  BY <1>2, <1>3, <2>1, <3>1, <3>2 DEF Stands
  <2>. QED  BY <1>1, <2>1, <2>2, <2>3, OthersStand DEF Shape
<1>9. OpenIds'
  BY <1>1 DEF Shape, OpenIds
<1>. QED  BY <1>6, <1>7, <1>8, <1>9 DEF Shape

LEMMA LateShape ==
  ASSUME Shape, ServeLate
  PROVE  Shape'
<1>1. PICK call \in late : LateStep(call)
  BY DEF ServeLate
<1>2. UNCHANGED <<svc, backends, stores, at, req, seen, client, body, quota, count, given, hiccups,
                  solo, calm, truth, safe>>
  BY <1>1 DEF ServeLate, LateStep, Quiet, historyVars, serviceVars, requestVars
<1>3. call \in Call /\ docs \in Documents
  BY SomeTypes DEF Shape, GatewayTypeOK
<1>4. docs' = Effect(call) /\ late' = (late \ {call}) \cup {m \in {Moved(call)} : Running(m)}
  BY <1>1 DEF LateStep
<1>5. Running(call)
  BY DEF Shape, HistoryTypes
<1>6. CASE Running(call)
  <2>1. Moved(call) \in Call /\ docs' \in Documents
    BY <1>3, <1>4, <1>6, CallMoves
  <2>2. \A coll \in Collections : Found(coll) => Found(coll)'
    BY <1>3, <1>4, <1>6, CallFinds
  <2>3. GatewayTypeOK'
    BY <1>2, <1>4, <2>1 DEF Shape, GatewayTypeOK, Documents, Kind, Adapter
  <2>4. HistoryTypes' /\ OpenIds'
    BY <1>2, <1>4 DEF Shape, HistoryTypes, OpenIds
  <2>5. ASSUME NEW c \in Callers PROVE Stands(c)'
    <3>1. Stands(c)
      BY DEF Shape, Standing
    <3>2. svc'[c] = svc[c] /\ at'[c] = at[c] /\ req'[c] = req[c] /\ solo' = solo /\ calm' = calm
      BY <1>2
    <3>3. at[c] = "record" => svc[c].coll \in Collections
      BY <3>1 DEF Stands, Collections
    <3>4. at[c] = "record" /\ svc[c].at = "update" => docs'[svc[c].coll] # <<>>
      BY <2>2, <3>1, <3>3 DEF Stands, Found
    <3>. QED  BY <3>1, <3>2, <3>4 DEF Stands, Found
  <2>. QED  BY <2>3, <2>4, <2>5 DEF Shape, Standing
<1>. QED  BY <1>5, <1>6

LEMMA FailingShape ==
  ASSUME Shape, NEW c \in Callers, ServiceFails(c) \/ ServiceLost(c)
  PROVE  Shape'
<1>1. /\ svc[c] # NoCall /\ hiccups' \in 0..MaxHiccups /\ docs' = docs
      /\ UNCHANGED <<backends, stores, at, req, seen, client, body, quota, count, given, calm, safe>>
  <2>1. hiccups < MaxHiccups /\ hiccups' = hiccups + 1 /\ hiccups \in 0..MaxHiccups
    BY DEF ServiceFails, ServiceLost, Hiccup, Shape, GatewayTypeOK
  <2>. QED  BY <2>1, GivenNumbers DEF ServiceFails, ServiceLost, DbFails, CallLost, Running, serviceVars
<1>2. at[c] = "record" /\ svc[c] \in Call
  BY <1>1, CallTypes
<1>. DEFINE failed == At(svc[c], "error")
            again == [svc[c] EXCEPT !.at = "look", !.attempt = 2]
<1>3. \A call \in {failed, again} :
        /\ call \in Call /\ call # NoCall /\ call.coll = svc[c].coll
        /\ call.at # "update"
  <2>1. failed \in Call /\ failed.coll = svc[c].coll /\ failed.at = "error"
    BY <1>2 DEF At, Call
  <2>2. again \in Call /\ again.coll = svc[c].coll /\ again.at = "look"
    <3>1. At(svc[c], "look") \in Call /\ At(svc[c], "look").coll = svc[c].coll
          /\ At(svc[c], "look").at = "look"
      BY <1>2 DEF At, Call, CallStep
    <3>2. ASSUME NEW call \in Call, NEW n \in 1..2
          PROVE  /\ [call EXCEPT !.attempt = n] \in Call /\ [call EXCEPT !.attempt = n].coll = call.coll
                 /\ [call EXCEPT !.attempt = n].at = call.at
      BY DEF Call
    <3>3. again = [At(svc[c], "look") EXCEPT !.attempt = 2] /\ 2 \in 1..2
      BY DEF At
    <3>. HIDE DEF again
    <3>. QED  BY <3>1, <3>2, <3>3
  <2>3. \A call \in Call : call # NoCall
    BY DEF Call, NoCall
  <2>. QED  BY <2>1, <2>2, <2>3
<1>4. PICK call \in {failed, again} : svc' = [svc EXCEPT ![c] = call]
  BY DEF ServiceFails, ServiceLost, DbFails, CallLost
<1>5. /\ call \in Call /\ call # NoCall /\ call.coll = svc[c].coll /\ call.at # "update"
  BY <1>3
<1>. HIDE DEF failed, again
<1>6. /\ late' \subseteq Call /\ (\A x \in late' : Running(x)) /\ solo' \subseteq solo
      /\ truth' \in Answer
  <2>1. late \subseteq Call /\ (\A x \in late : Running(x)) /\ truth \in Answer /\ Unknown \in Answer
    BY UnknownType DEF Shape, GatewayTypeOK, HistoryTypes
  <2>2. late' \subseteq late \cup {x \in {svc[c]} : Running(x)}
    BY DEF ServiceFails, ServiceLost, DbFails, CallLost
  <2>. QED  BY <1>2, <2>1, <2>2 DEF ServiceFails, ServiceLost
<1>7. GatewayTypeOK'
  BY <1>1, <1>4, <1>5, <1>6 DEF Shape, GatewayTypeOK, Kind, Adapter
<1>8. HistoryTypes' /\ OpenIds'
  BY <1>1, <1>6 DEF Shape, HistoryTypes, OpenIds
<1>9. Standing'
  <2>1. svc'[c] = call /\ \A d \in Callers \ {c} : svc'[d] = svc[d]
    BY <1>4 DEF Shape, GatewayTypeOK
  <2>2. Stands(c)
    BY DEF Shape, Standing
  <2>3. Stands(c)'
    BY <1>1, <1>2, <1>5, <1>6, <2>1, <2>2 DEF Stands
  <2>. QED  BY <1>1, <1>6, <2>1, <2>3, OthersStand DEF Shape
<1>. QED  BY <1>7, <1>8, <1>9 DEF Shape

LEMMA RecordedShape ==
  ASSUME Shape, NEW c \in Callers, Recorded(c) \/ ReadAgainFails(c)
  PROVE  Shape'
<1>0. <<>> \in Seq(Int) /\ (c \in solo) \in BOOLEAN
  OBVIOUS
<1>1. at[c] = "record" /\ UNCHANGED <<docs, late, backends, stores, count, given>>
  BY DEF Recorded, ReadAgainFails, serviceVars
<1>2. stores' \in [Backends -> Store] /\ OpenIds'
  BY <1>1 DEF Shape, GatewayTypeOK, OpenIds
<1>3. hiccups' = hiccups \/ Hiccup => hiccups' \in 0..MaxHiccups
  BY GivenNumbers DEF Shape, GatewayTypeOK, Hiccup
<1>4. CASE Recorded(c)
  BY <1>0, <1>1, <1>2, <1>3, <1>4, StopShape DEF Recorded, Finish
<1>5. CASE ReadAgainFails(c)
  BY <1>0, <1>1, <1>2, <1>3, <1>5, StopShape DEF ReadAgainFails, FinishAfter
<1>. QED  BY <1>4, <1>5

LEMMA EditShape ==
  ASSUME Shape, Operator
  PROVE  Shape'
<1>. DEFINE bs == backends
<1>1. backends \in Seq(Backend)
  BY SomeTypes
<1>2. \E kind : Edit(kind)
  BY DEF Operator, APICreateBackend, APIUpdateBackend, APIDeleteBackend
<1>3. /\ UNCHANGED <<docs, svc, late, stores, at, req, seen, client, body, count, given, hiccups>>
      /\ solo' = {} /\ calm' = {} /\ truth' = Unknown /\ safe' = FALSE
  BY <1>2 DEF Edit, docVars
<1>4. backends' \in Seq(Backend)
  <2>1. CASE \E id \in Backends : backends' = Inserted([id |-> id, good |-> TRUE])
    BY <1>1, <2>1 DEF Inserted, Backend
  <2>2. ASSUME NEW i \in DOMAIN backends, NEW good \in BOOLEAN,
               backends' = Replaced(i, [backends[i] EXCEPT !.good = good])
        PROVE  backends' \in Seq(Backend)
    <3>1. i \in 1..Len(backends) /\ backends[i] \in Backend
      BY <1>1
    <3>2. [backends[i] EXCEPT !.good = good] \in Backend
      BY <3>1 DEF Backend
    <3>. QED  BY <1>1, <2>2, <3>1, <3>2, ExceptSeq DEF Replaced
  <2>3. ASSUME NEW i \in DOMAIN backends, backends' = Removed(i)
        PROVE  backends' \in Seq(Backend)
    <3>1. i \in 1..Len(backends) /\ Len(backends) \in Nat
      BY <1>1
    <3>2. \A j \in 1..(i - 1) : backends[j] \in Backend
      BY <1>1, <3>1
    <3>3. \A j \in (i + 1)..Len(backends) : backends[j] \in Backend
      BY <1>1, <3>1
    <3>4. SubSeq(backends, 1, i - 1) \in Seq(Backend)
      BY <3>1, <3>2, SubSeqProperties
    <3>5. SubSeq(backends, i + 1, Len(backends)) \in Seq(Backend)
      BY <3>1, <3>3, SubSeqProperties
    <3>. QED  BY <2>3, <3>4, <3>5, ConcatProperties DEF Removed
  <2>. QED  BY <2>1, <2>2, <2>3 DEF Operator, APICreateBackend, APIUpdateBackend, APIDeleteBackend,
            CreateBackend, UpdateBackend, DeleteBackend
<1>5. GatewayTypeOK'
  BY <1>3, <1>4 DEF Shape, GatewayTypeOK, Backend, Kind, Adapter
<1>6. HistoryTypes' /\ OpenIds'
  BY <1>3, UnknownType DEF Shape, HistoryTypes, OpenIds
<1>7. Standing'
  BY <1>3 DEF Shape, Standing, Stands, Found
<1>. QED  BY <1>5, <1>6, <1>7 DEF Shape

\* It begins with one of the worlds, or with none while other parts are at work.
GatewayBegun == \E w \in Worlds \cup {NoWorld} : GatewayStart(w)

LEMMA ShapeFirst ==
  ASSUME GatewayBegun
  PROVE  Shape
<1>1. PICK w \in Worlds \cup {NoWorld} : GatewayStart(w)
  BY DEF GatewayBegun
<1>2. w.registered \in Seq(Backends)
  <2>1. NoWorld.registered = <<>> /\ <<>> \in Seq(Backends)
    BY DEF NoWorld
  <2>. QED  BY <2>1, GatewayAssumption
<1>3. backends \in Seq(Backend)
  <2>1. backends = [i \in DOMAIN w.registered |-> [id |-> w.registered[i], good |-> TRUE]]
    BY <1>1 DEF GatewayStart
  <2>2. DOMAIN w.registered = 1..Len(w.registered) /\ Len(w.registered) \in Nat
    BY <1>2
  <2>3. \A i \in 1..Len(w.registered) : [id |-> w.registered[i], good |-> TRUE] \in Backend
    BY <1>2 DEF Backend
  <2>. QED  BY <2>1, <2>2, <2>3
<1>4. NoDoc("") \in Doc
  BY GatewayAssumption DEF NoDoc, NewDoc, Doc
<1>5. EmptyStore \in Store /\ 0 \notin EmptyStore.open
  <2>1. NoParts \in [PartNumbers -> Nat] /\ NoObject \in Content
    BY DEF NoParts, NoObject, Content
  <2>. QED  BY <2>1 DEF EmptyStore, Store
<1>6. docs \in [Collections -> Seq(Doc)]
  <2>1. docs = [coll \in Collections |-> <<>>] 
    BY <1>1 DEF GatewayStart, InitDocs
  <2>2. <<>> \in Seq(Doc)
    OBVIOUS
  <2>. QED  BY <2>1, <2>2
<1>7. GatewayTypeOK
  <2>1. 0 \in 0..MaxHiccups
    BY GivenNumbers
  <2>2. NoRequest \in Request \cup {NoRequest}
    OBVIOUS
  <2>3. /\ at \in [Callers -> {"idle", "bucket", "md", "client", "store", "record"}]
        /\ \A c \in Callers : at[c] = "idle"
    BY <1>1 DEF GatewayStart
  <2>. QED  BY <1>1, <1>3, <1>4, <1>5, <1>6, <2>1, <2>3 DEF GatewayStart, InitDocs, GatewayTypeOK, Backend
<1>8. HistoryTypes /\ OpenIds
  <2>1. <<>> \in Seq(Int)
    OBVIOUS
  <2>. QED  BY <1>1, <1>5, <2>1, UnknownType DEF GatewayStart, InitDocs, HistoryTypes, OpenIds
<1>9. Standing
  BY <1>1 DEF GatewayStart, InitDocs, Standing, Stands
<1>. QED  BY <1>7, <1>8, <1>9 DEF Shape

LEMMA ShapeStutters ==
  ASSUME Shape, UNCHANGED gatewayVars
  PROVE  Shape'
<1>1. UNCHANGED <<docs, svc, late, backends, stores, at, req, seen, client, body, count, given, hiccups,
                  solo, calm, truth, safe>>
  BY DEF gatewayVars, docVars, serviceVars, requestVars, historyVars
<1>2. GatewayTypeOK'
  BY <1>1 DEF Shape, GatewayTypeOK, Kind, Adapter
<1>3. HistoryTypes' /\ OpenIds'
  BY <1>1 DEF Shape, HistoryTypes, OpenIds
<1>4. Standing'
  BY <1>1 DEF Shape, Standing, Stands, Found
<1>. QED  BY <1>2, <1>3, <1>4 DEF Shape

LEMMA ShapeNext ==
  ASSUME Shape, [GatewayNext]_gatewayVars
  PROVE  Shape'
<1>1. ASSUME NEW c \in Callers, Client(c) PROVE Shape'
  BY <1>1, StartShape DEF Client
<1>2. ASSUME NEW c \in Callers, Handler(c) PROVE Shape'
  BY <1>2, ReadingShape, ClientShape, StoreCallShape, GetShape, ServeShape, FailingShape, RecordedShape
     DEF Handler, StoreCall
<1>. QED  BY <1>1, <1>2, LateShape, EditShape, ShapeStutters DEF GatewayNext

-----------------------------------------------------------------------------
(* What fits stays so while the documents of the object and the stores do *)

LEMMA FitsKept ==
  ASSUME NEW t, NEW doc, UNCHANGED <<stores, backends>>
  PROVE  Fits(t, doc)' <=> Fits(t, doc)
BY DEF Fits, HasParts, Blocks, Parted, StoreOf, Leads, Chosen, Named, Kind, Adapter, Shown

LEMMA AgreesKept ==
  ASSUME NEW t, docs'["object"] = docs["object"], UNCHANGED <<stores, backends>>
  PROVE  Agrees(t)' <=> Agrees(t)
<1>1. \A doc : Fits(t, doc)' <=> Fits(t, doc)
  BY FitsKept
<1>. QED  BY <1>1 DEF Agrees, Found, First

LEMMA AgreesWith ==
  ASSUME NEW t, truth' = t, Agrees(t)'
  PROVE  Agrees(truth)'
BY DEF Agrees, Fits, HasParts, Blocks, Parted, StoreOf, Leads, Chosen, Named, Kind, Adapter, Shown, Found, First

LEMMA UnknownAgrees ==
  ASSUME truth'.is = "unknown"
  PROVE  Agrees(truth)'
BY DEF Agrees, Fits

LEMMA TruthKept ==
  ASSUME Agrees(truth), truth' = truth, docs'["object"] = docs["object"], UNCHANGED <<stores, backends>>
  PROVE  Agrees(truth)'
<1>. DEFINE t == truth
<1>1. PICK u : u = t
  OBVIOUS
<1>2. Agrees(u)
  BY <1>1
<1>3. Agrees(u)'
  BY <1>2, AgreesKept
<1>. QED  BY <1>1, <1>3, AgreesWith

LEMMA GoodKept ==
  ASSUME backends \in Seq(Backend), NEW doc, Good(doc), backends' = backends,
         \A id \in Backends : stores[id].object # NoObject => stores'[id].object # NoObject
  PROVE  Good(doc)'
<1>1. Named(doc.backend) # {} /\ Named(doc.backend)' = Named(doc.backend)
      /\ Chosen(doc.backend)' = Chosen(doc.backend)
  BY DEF Good, Leads, Named, Chosen
<1>2. Chosen(doc.backend).id \in Backends
  BY <1>1, ChosenIs DEF Backend
<1>. QED  BY <1>1, <1>2 DEF Good, Leads, StoreOf, Shown

LEMMA GoodFirstKept ==
  ASSUME backends \in Seq(Backend), GoodFirst, backends' = backends, docs'["object"] = docs["object"],
         \A id \in Backends : stores[id].object # NoObject => stores'[id].object # NoObject
  PROVE  GoodFirst'
<1>1. PICK doc : doc = First("object")
  OBVIOUS
<1>2. Good(doc)'
  BY <1>1, GoodKept DEF GoodFirst
<1>. QED  BY <1>1, <1>2 DEF GoodFirst, Good, Found, First, Leads, Named, Chosen, StoreOf, Shown

LEMMA SoundKept ==
  ASSUME backends \in Seq(Backend), NEW call, Sound(call), backends' = backends,
         \A id \in Backends : stores[id].object # NoObject => stores'[id].object # NoObject
  PROVE  Sound(call)'
BY GoodKept DEF Sound

LEMMA BusyAlone ==
  ASSUME Solitude, NEW c \in Callers, Busy(c)
  PROVE  solo \subseteq {c} /\ (c \in solo => late = {} /\ Active = {c})
BY DEF Solitude, Active

LEMMA AtWork ==
  ASSUME Shape, NEW c \in Callers, at[c] # "idle", req[c].op # "get"
  PROVE  Busy(c) /\ c \in Active
BY SomeTypes DEF Busy, Modifying, Active, Request

LEMMA SoundCarried ==
  ASSUME NEW d, NEW call, svc'[d] = call, Sound(call)'
  PROVE  Sound(svc[d])'
BY DEF Sound, Good, Leads, StoreOf, Chosen, Named, Shown

LEMMA SoundStays ==
  ASSUME backends \in Seq(Backend), NEW d, Sound(svc[d]), svc'[d] = svc[d], backends' = backends,
         \A id \in Backends : stores[id].object # NoObject => stores'[id].object # NoObject
  PROVE  Sound(svc[d])'
<1>1. PICK call : call = svc[d]
  OBVIOUS
<1>. QED  BY <1>1, SoundKept, SoundCarried

LEMMA WritingStays ==
  ASSUME NEW d, Fitting(d), UNCHANGED <<docs, stores, backends, truth>>,
         req'[d] = req[d], svc'[d] = svc[d]
  PROVE  Fitting(d)'
<1>1. Promised(req[d])' = Promised(req[d])
  BY DEF Promised, Acked
<1>2. \A t, doc : Fits(t, doc)' <=> Fits(t, doc)
  BY FitsKept
<1>3. PICK t : t = Promised(req[d])
  OBVIOUS
<1>4. /\ Fits(Promised(req[d]), svc[d].doc)' <=> Fits(t, svc[d].doc)
      /\ Fits(Promised(req[d]), First("object"))' <=> Fits(t, First("object"))
      /\ Fits(Promised(req[d]), Marked(First("object")))' <=> Fits(t, Marked(First("object")))
  BY <1>1, <1>3 DEF Fits, HasParts, Blocks, Parted, StoreOf, Leads, Chosen, Named, Kind, Adapter,
     Shown, First, Marked
<1>. QED  BY <1>3, <1>4 DEF Fitting, Found

-----------------------------------------------------------------------------
(* The end of a request keeps what is known *)

Facts == Solitude /\ Truthful /\ Calm /\ Prepared /\ SoFar

LEMMA StopFacts ==
  ASSUME Shape, Facts, NEW c \in Callers, NEW answer, NEW got, NEW trusted \in BOOLEAN,
         at[c] # "idle", Stop(c, answer, got, trusted), trusted => c \in solo,
         UNCHANGED <<docs, late, backends>>,
         stores' = stores \/ (answer # "ok" /\ req[c].op # "get"),
         PutsOnly => \A id \in Backends : stores[id].object # NoObject => stores'[id].object # NoObject,
         trusted /\ answer = "ok" /\ req[c].op # "get" => \A t : t = Promised(req[c]) => Agrees(t),
         req[c].op = "put" /\ answer = "ok" /\ c \in calm => GoodFirst
  PROVE  Facts'
<1>1. /\ at'[c] = "idle"
      /\ \A d \in Callers \ {c} : /\ at'[d] = at[d] /\ req'[d] = req[d] /\ svc'[d] = svc[d]
                                 /\ seen'[d] = seen[d] /\ client'[d] = client[d] /\ body'[d] = body[d]
  BY DEF Stop, Shape, GatewayTypeOK, HistoryTypes
<1>2. /\ solo' = solo \ {c} /\ calm' = calm \ {c} /\ backends' = backends /\ late' = late /\ docs' = docs
      /\ safe' = (safe \/ (req[c].op = "put" /\ answer = "ok" /\ c \in calm))
  BY DEF Stop, Ended
<1>3. Active' = Active \ {c} /\ \A d \in Callers \ {c} : Busy(d)' <=> Busy(d)
  BY <1>1 DEF Active, Busy
<1>4. PutsOnly' => PutsOnly
  BY <1>2 DEF PutsOnly
<1>5. /\ req[c].op # "get" => c \in Active /\ solo \subseteq {c} /\ solo' = {}
      /\ req[c].op = "get" => truth' = truth /\ c \notin Active /\ Active' = Active /\ stores' = stores
  <2>1. req[c].op # "get" => Busy(c)
    BY AtWork
  <2>2. req[c].op = "get" => truth' = truth /\ ~Busy(c)
    BY DEF Stop, Ended, Busy, Modifying
  <2>. QED  BY <1>2, <1>3, <2>1, <2>2, BusyAlone DEF Facts, Active
<1>6. Solitude'
  <2>1. truth' = truth \/ truth'.is = "unknown" \/ late = {}
    BY <1>5 DEF Stop, Ended, Unknown, Facts, Solitude
  <2>. QED  BY <1>2, <1>3, <2>1 DEF Facts, Solitude
<1>7. Truthful'
  <2>1. CASE req[c].op = "get"
    <3>1. Agrees(truth) => Agrees(truth)'
      BY <1>2, <1>5, <2>1, TruthKept
    <3>2. \A d \in Callers \ {c} : Fitting(d) => Fitting(d)'
      <4>. TAKE d \in Callers \ {c}
      <4>1. /\ truth' = truth /\ stores' = stores /\ backends' = backends /\ docs' = docs
            /\ req'[d] = req[d] /\ svc'[d] = svc[d]
        BY <1>1, <1>2, <1>5, <2>1
      <4>. QED  BY <4>1, WritingStays
    <3>3. \A d \in solo' : d \in solo /\ at'[d] = at[d] /\ req'[d] = req[d] /\ d \in Callers \ {c}
      BY <1>1, <1>2 DEF Shape, HistoryTypes
    <3>. QED  BY <1>5, <2>1, <3>1, <3>2, <3>3 DEF Facts, Truthful
  <2>2. CASE req[c].op # "get" /\ truth'.is = "unknown"
    BY <1>5, <2>2, UnknownAgrees DEF Truthful
  <2>3. CASE req[c].op # "get" /\ truth' = Promised(req[c]) /\ trusted /\ answer = "ok"
    <3>1. PICK t : t = Promised(req[c])
      OBVIOUS
    <3>2. Agrees(t)'
      BY <1>2, <2>3, <3>1, AgreesKept
    <3>3. Agrees(truth)'
      BY <2>3, <3>1, <3>2, AgreesWith
    <3>. QED  BY <1>5, <2>3, <3>3 DEF Truthful
  <2>. QED  BY <2>1, <2>2, <2>3 DEF Stop, Ended, Unknown
<1>8. Calm'
  <2>. SUFFICES ASSUME PutsOnly' PROVE
         /\ \A d \in Active' : req'[d].op = "put"
         /\ \A call \in late' : Sound(call)'
         /\ \A d \in Active' : at'[d] = "record" => svc'[d].at = "error" \/ Sound(svc[d])'
         /\ \A d \in Active' : at'[d] = "record" /\ svc'[d].at = "insert" => ~Found("object")' \/ GoodFirst'
         /\ \A d \in Active' : at'[d] = "record" /\ svc'[d].at = "ok" => GoodFirst'
         /\ safe' => GoodFirst'
    BY DEF Calm
  <2>1. PutsOnly /\ backends \in Seq(Backend)
    BY <1>4, SomeTypes
  <2>2. GoodFirst => GoodFirst'
    BY <1>2, <2>1, GoodFirstKept
  <2>3. \A call : Sound(call) => Sound(call)'
    BY <1>2, <2>1, SoundKept
  <2>4. \A d \in Active' : /\ d \in Active /\ at'[d] = at[d] /\ req'[d] = req[d] /\ svc'[d] = svc[d]
                           /\ (Sound(svc[d]) => Sound(svc[d])')
    <3>. TAKE d \in Active'
    <3>1. d \in Callers \ {c} /\ d \in Active
      BY <1>3 DEF Active
    <3>2. at'[d] = at[d] /\ req'[d] = req[d] /\ svc'[d] = svc[d]
      BY <1>1, <3>1
    <3>3. Sound(svc[d]) => Sound(svc[d])'
      BY <1>2, <2>1, <3>2, SoundStays
    <3>. QED  BY <3>1, <3>2, <3>3
  <2>5. safe' => GoodFirst
    BY <1>2, <2>1 DEF Facts, Calm
  <2>. QED  BY <1>2, <2>1, <2>2, <2>3, <2>4, <2>5 DEF Facts, Calm, Found
<1>9. Prepared'
  <2>. SUFFICES ASSUME NEW d \in Callers, Steady(d)', at'[d] \in {"client", "store"}
       PROVE  /\ req'[d].op \in {"put", "init"} /\ req'[d].class = ""
                   => Found("bucket")' /\ seen'[d].backend = First("bucket")'.backend
              /\ req'[d].op \in ReadingOps => Found("object")' /\ seen'[d] = First("object")'
              /\ at'[d] = "store" /\ (req'[d].op = "get" => seen'[d].backend # "")
                   => Named(Where(d))' # {} /\ client'[d] = Chosen(Where(d))'
    BY DEF Prepared, Ready
  <2>1. d \in Callers \ {c}
    BY <1>1
  <2>2. Steady(d)
    BY <1>2, <1>3, <1>4, <2>1 DEF Steady
  <2>3. /\ at'[d] = at[d] /\ req'[d] = req[d] /\ seen'[d] = seen[d] /\ client'[d] = client[d]
    BY <1>1, <2>1
  <2>4. Where(d)' = Where(d)
    BY <2>3 DEF Where, Location
  <2>5. Named(Where(d))' = Named(Where(d)) /\ Chosen(Where(d))' = Chosen(Where(d))
    BY <1>2, <2>4 DEF Named, Chosen
  <2>. QED  BY <1>2, <2>2, <2>3, <2>5 DEF Facts, Prepared, Ready, Found, First
<1>10. SoFar'
  <2>1. ASSUME NEW d \in Callers \ {c}, d \in solo', at'[d] = "store", req'[d].op = "get" PROVE truth' = truth
    <3>1. d \in solo
      BY <1>2, <2>1
    <3>. QED  BY <1>2, <1>5, <2>1, <3>1
  <2>. QED  BY <1>1, <1>2, <2>1 DEF Facts, SoFar
<1>. QED  BY <1>6, <1>7, <1>8, <1>9, <1>10 DEF Facts

\* So does a request that goes on, from the steps of the others.
LEMMA OnwardFacts ==
  ASSUME Shape, Facts, NEW c \in Callers, at[c] \in {"bucket", "md", "client", "store"},
         NEW step \in {"client", "store", "record"}, Goes(c, step),
         step = "store" => at[c] = "client",
         step = "client" => at[c] \in {"bucket", "md"},
         step = "record" => req[c].op # "get",
         \A d \in Callers \ {c} : svc'[d] = svc[d] /\ seen'[d] = seen[d] /\ client'[d] = client[d],
         UNCHANGED <<docs, late, backends, req, body, solo, calm, truth, safe>>,
         stores' = stores \/ (step = "record" /\ req[c].op \notin BucketOps),
         PutsOnly => \A id \in Backends : stores[id].object # NoObject => stores'[id].object # NoObject,
         step = "record" /\ c \in solo /\ req[c].op \notin BucketOps => Fitting(c)',
         step = "record" /\ PutsOnly => Sound(svc[c])' /\ svc'[c].at = "look",
         Steady(c) => Ready(c)'
  PROVE  Facts'
<1>1. /\ at'[c] = step
      /\ \A d \in Callers \ {c} : at'[d] = at[d]
  BY DEF Goes, Shape, GatewayTypeOK
<1>2. Active' = Active /\ \A d \in Callers : Busy(d)' <=> Busy(d)
  BY <1>1 DEF Active, Busy
<1>3. PutsOnly' <=> PutsOnly
  BY DEF PutsOnly
<1>4. stores' = stores \/ (c \in Active /\ solo \subseteq {c} /\ at'[c] = "record" /\ req[c].op \notin BucketOps)
  BY <1>1, AtWork, BusyAlone DEF Facts
<1>5. Solitude'
  BY <1>2 DEF Facts, Solitude
<1>6. Truthful'
  <2>1. Agrees(truth) => Agrees(truth)' \/ (c \in Active /\ solo \subseteq {c} /\ at'[c] = "record" /\ req[c].op \notin BucketOps)
    BY <1>4, TruthKept
  <2>2. ASSUME NEW d \in Callers \ {c}, d \in solo, Fitting(d), stores' = stores
        PROVE  Fitting(d)'
    BY <2>2, WritingStays
  <2>3. Active' = {} => Agrees(truth)'
    BY <1>2, <2>1 DEF Facts, Truthful
  <2>4. ASSUME NEW d \in solo' \ {c}
        PROVE  /\ at'[d] \in {"bucket", "md", "client", "store"} => Agrees(truth)'
               /\ at'[d] = "record" /\ req'[d].op \in BucketOps => Agrees(truth)'
               /\ at'[d] = "record" /\ req'[d].op \notin BucketOps => Fitting(d)'
    <3>1. d \in solo /\ d \in Callers \ {c} /\ at'[d] = at[d] /\ req'[d] = req[d]
      BY <1>1, <2>4 DEF Shape, HistoryTypes
    <3>2. stores' = stores
      BY <1>4, <3>1
    <3>. QED  BY <2>1, <2>2, <3>1, <3>2 DEF Facts, Truthful
  <2>5. ASSUME c \in solo'
        PROVE  /\ at'[c] \in {"bucket", "md", "client", "store"} => Agrees(truth)'
               /\ at'[c] = "record" /\ req'[c].op \in BucketOps => Agrees(truth)'
               /\ at'[c] = "record" /\ req'[c].op \notin BucketOps => Fitting(c)'
    <3>1. Agrees(truth)
      BY <2>5 DEF Facts, Truthful
    <3>. QED  BY <1>1, <2>1, <2>5, <3>1
  <2>. QED  BY <2>3, <2>4, <2>5 DEF Truthful
<1>7. Calm'
  <2>. SUFFICES ASSUME PutsOnly PROVE
         /\ \A d \in Active' : req'[d].op = "put"
         /\ \A call \in late' : Sound(call)'
         /\ \A d \in Active' : at'[d] = "record" => svc'[d].at = "error" \/ Sound(svc[d])'
         /\ \A d \in Active' : at'[d] = "record" /\ svc'[d].at = "insert" => ~Found("object")' \/ GoodFirst'
         /\ \A d \in Active' : at'[d] = "record" /\ svc'[d].at = "ok" => GoodFirst'
         /\ safe' => GoodFirst'
    BY <1>3 DEF Calm
  <2>1. backends \in Seq(Backend)
    BY SomeTypes
  <2>2. GoodFirst => GoodFirst'
    BY <2>1, GoodFirstKept
  <2>3. \A call : Sound(call) => Sound(call)'
    BY <2>1, SoundKept
  <2>4. \A d \in Active' \ {c} :
          /\ d \in Active /\ at'[d] = at[d] /\ req'[d] = req[d] /\ svc'[d] = svc[d]
          /\ (Sound(svc[d]) => Sound(svc[d])')
    <3>. TAKE d \in Active' \ {c}
    <3>1. d \in Callers \ {c} /\ d \in Active
      BY <1>2 DEF Active
    <3>2. at'[d] = at[d] /\ req'[d] = req[d] /\ svc'[d] = svc[d]
      BY <1>1, <3>1
    <3>3. Sound(svc[d]) => Sound(svc[d])'
      BY <1>2, <2>1, <3>2, SoundStays
    <3>. QED  BY <3>1, <3>2, <3>3
  <2>5. c \in Active' => c \in Active
    BY <1>2
  <2>. QED  BY <1>1, <2>2, <2>3, <2>4, <2>5 DEF Facts, Calm, Found
<1>8. Prepared'
  <2>. SUFFICES ASSUME NEW d \in Callers, Steady(d)' PROVE Ready(d)'
    BY DEF Prepared
  <2>1. Steady(d)
    BY <1>2, <1>3 DEF Steady
  <2>2. CASE d # c
    <3>1. /\ at'[d] = at[d] /\ req'[d] = req[d] /\ seen'[d] = seen[d] /\ client'[d] = client[d]
      BY <1>1, <2>2
    <3>2. Where(d)' = Where(d)
      BY <3>1 DEF Where, Location
    <3>3. Named(Where(d))' = Named(Where(d)) /\ Chosen(Where(d))' = Chosen(Where(d))
      BY <3>2 DEF Named, Chosen
    <3>. QED  BY <2>1, <3>1, <3>3 DEF Facts, Prepared, Ready, Found, First
  <2>. QED  BY <2>1, <2>2
<1>9. SoFar'
  <2>1. ASSUME step = "store" PROVE Len(<<>>) <= Len(truth.content) /\ <<>> = SubSeq(truth.content, 1, Len(<<>>))
    <3>1. truth.content \in Seq(Nat)
      BY DEF Shape, HistoryTypes, Answer, Content
    <3>2. PICK s \in Seq(Nat) : s = truth.content
      BY <3>1
    <3>3. \A i \in 1..0 : s[i] \in Nat
      OBVIOUS
    <3>4. SubSeq(s, 1, 0) \in Seq(Nat) /\ Len(SubSeq(s, 1, 0)) = 0
      BY <3>2, <3>3, SubSeqProperties
    <3>5. SubSeq(s, 1, 0) = <<>>
      BY <3>4, EmptySeq
    <3>. QED  BY <3>2, <3>5
  <2>2. ASSUME NEW d \in Callers \ {c} PROVE
          /\ at'[d] \in {"bucket", "md", "client"} => body'[d] = <<>>
          /\ d \in solo' /\ at'[d] = "store" /\ req'[d].op = "get" /\ truth'.is = "there" =>
               Len(body'[d]) <= Len(truth'.content) /\ body'[d] = SubSeq(truth'.content, 1, Len(body'[d]))
    BY <1>1, <2>2 DEF Facts, SoFar
  <2>3. /\ at'[c] \in {"bucket", "md", "client"} => body'[c] = <<>>
        /\ c \in solo' /\ at'[c] = "store" /\ req'[c].op = "get" /\ truth'.is = "there" =>
               Len(body'[c]) <= Len(truth'.content) /\ body'[c] = SubSeq(truth'.content, 1, Len(body'[c]))
    <3>1. step \in {"client", "store"} => body[c] = <<>>
      BY DEF Facts, SoFar
    <3>. QED  BY <1>1, <2>1, <3>1
  <2>. QED  BY <2>2, <2>3 DEF SoFar
<1>. QED  BY <1>5, <1>6, <1>7, <1>8, <1>9 DEF Facts

-----------------------------------------------------------------------------
(* The steps of the handlers that call no store *)

LEMMA ReadingFacts ==
  ASSUME Shape, Facts, NEW c \in Callers, GetMetadata(c) \/ GetBucket(c) \/ ReadFails(c)
  PROVE  Facts'
<1>0. (c \in solo) \in BOOLEAN /\ FALSE \in BOOLEAN
  OBVIOUS
<1>1. /\ at[c] \in {"md", "bucket"} /\ UNCHANGED <<docs, late, backends, stores>>
      /\ at[c] = "bucket" => req[c].op \in {"put", "init"} /\ req[c].class = ""
      /\ at[c] = "md" => req[c].op \in ReadingOps
  BY DEF GetMetadata, GetBucket, ReadFails, serviceVars, Shape, Standing, Stands
<1>2. NoMetadata(req[c].op) = "ok" => req[c].op = "delete"
  BY DEF NoMetadata
<1>3. CASE GetMetadata(c) /\ ~Found("object")
  <2>1. at[c] = "md" /\ Stop(c, NoMetadata(req[c].op), <<>>, c \in solo)
    BY <1>3 DEF GetMetadata, Finish
  <2>2. req[c].op \in ReadingOps /\ req[c].op # "put"
    BY <1>1, <2>1 DEF ReadingOps
  <2>3. NoMetadata(req[c].op) = "ok" => \A t : t = Promised(req[c]) => Agrees(t)
    BY <1>2, <1>3 DEF Promised, Gone, Unknown, Agrees
  <2>. QED  BY <1>0, <1>1, <2>1, <2>2, <2>3, StopFacts
<1>4. CASE GetBucket(c) /\ ~Found("bucket")
  <2>1. Stop(c, "panic", <<>>, c \in solo)
    BY <1>4 DEF GetBucket, Finish
  <2>. QED  BY <1>0, <1>1, <2>1, StopFacts
<1>5. CASE ReadFails(c)
  <2>1. Stop(c, NoMetadata(req[c].op), <<>>, FALSE)
    BY <1>5 DEF ReadFails, FinishAfter
  <2>. QED  BY <1>0, <1>1, <1>2, <2>1, StopFacts
<1>6. CASE GetMetadata(c) /\ Found("object")
  <2>1. /\ at[c] = "md" /\ seen' = [seen EXCEPT ![c] = First("object")] /\ Goes(c, "client")
        /\ UNCHANGED <<svc, req, client, body, solo, calm, truth, safe>>
    BY <1>6 DEF GetMetadata, Quiet, historyVars
  <2>2. seen'[c] = First("object") /\ \A d \in Callers \ {c} : seen'[d] = seen[d]
    BY <2>1 DEF Shape, GatewayTypeOK
  <2>3. at'[c] = "client"
    BY <2>1 DEF Goes, Shape, GatewayTypeOK
  <2>4. Ready(c)'
    BY <1>1, <1>6, <2>1, <2>2, <2>3 DEF Ready, Found, First, ReadingOps
  <2>. QED  BY <1>1, <2>1, <2>2, <2>4, OnwardFacts
<1>7. CASE GetBucket(c) /\ Found("bucket")
  <2>. DEFINE doc == NewDoc(First("bucket").backend, "", 0)
  <2>1. /\ at[c] = "bucket" /\ seen' = [seen EXCEPT ![c] = doc] /\ Goes(c, "client")
        /\ UNCHANGED <<svc, req, client, body, solo, calm, truth, safe>>
    BY <1>7 DEF GetBucket, Quiet, historyVars
  <2>2. seen'[c] = doc /\ (\A d \in Callers \ {c} : seen'[d] = seen[d])
        /\ doc.backend = First("bucket").backend
    BY <2>1 DEF Shape, GatewayTypeOK, NewDoc
  <2>. HIDE DEF doc
  <2>3. at'[c] = "client"
    BY <2>1 DEF Goes, Shape, GatewayTypeOK
  <2>4. Ready(c)'
    BY <1>1, <1>7, <2>1, <2>2, <2>3 DEF Ready, Found, First, ReadingOps
  <2>. QED  BY <1>1, <2>1, <2>2, <2>4, OnwardFacts
<1>. QED  BY <1>3, <1>4, <1>5, <1>6, <1>7

LEMMA NameIsWhere ==
  ASSUME Shape, Facts, NEW c \in Callers, at[c] = "client", Steady(c),
         req[c].op # "bput", req[c].op = "get" => seen[c].backend # ""
  PROVE  NameFor(c) = Where(c)
<1>1. req[c].op \in {"put", "init"} \cup ReadingOps /\ Ready(c)
  BY SomeTypes DEF Shape, Standing, Stands, Request, Ops, ReadingOps, Facts, Prepared
<1>2. CASE req[c].op \in {"put", "init"} /\ req[c].class # ""
  BY <1>2 DEF NameFor, ReadsBucket, ByName, Where, Location
<1>3. CASE req[c].op \in {"put", "init"} /\ req[c].class = ""
  BY <1>1, <1>3 DEF NameFor, ReadsBucket, ByName, Where, Location, Ready
<1>4. CASE req[c].op \in ReadingOps
  BY <1>4 DEF NameFor, ReadsBucket, ByName, Where, ReadingOps
<1>. QED  BY <1>1, <1>2, <1>3, <1>4

LEMMA ClientFacts ==
  ASSUME Shape, Facts, NEW c \in Callers, GetClient(c) \/ ClientFails(c)
  PROVE  Facts'
<1>0. (c \in solo) \in BOOLEAN
  OBVIOUS
<1>1. at[c] = "client" /\ UNCHANGED <<docs, late, backends, stores>>
  BY DEF GetClient, ClientFails, serviceVars
<1>2. ASSUME NEW answer, answer # "ok", Finish(c, answer, <<>>) PROVE Facts'
  BY <1>0, <1>1, <1>2, StopFacts DEF Finish
<1>3. CASE ClientFails(c)
  <2>1. NoClient(c)
    BY <1>3 DEF ClientFails
  <2>2. \E answer \in {"panic", "error"} : Finish(c, answer, <<>>)
    BY <2>1 DEF NoClient
  <2>. QED  BY <1>2, <2>2
<1>. SUFFICES ASSUME GetClient(c) PROVE Facts'
  BY <1>3
<1>. DEFINE found == Chosen(NameFor(c))
            call == Calling("create", "bucket", NewDoc(NameFor(c), "", 0))
<1>4. CASE /\ Named(NameFor(c)) # {} /\ client' = [client EXCEPT ![c] = found]
           /\ UNCHANGED <<req, seen, body, solo, calm, truth, safe>>
           /\ req[c].op # "bput" /\ Goes(c, "store") /\ UNCHANGED svc
  <2>1. client'[c] = found /\ \A d \in Callers \ {c} : client'[d] = client[d]
    BY <1>4 DEF Shape, GatewayTypeOK
  <2>2. at'[c] = "store"
    BY <1>4 DEF Goes, Shape, GatewayTypeOK
  <2>3. ASSUME Steady(c) PROVE Ready(c)'
    <3>1. Ready(c)
      BY <2>3 DEF Facts, Prepared
    <3>2. Where(c)' = Where(c)
      BY <1>4 DEF Where, Location
    <3>3. Named(Where(c))' = Named(Where(c)) /\ Chosen(Where(c))' = Chosen(Where(c))
      BY <1>1, <3>2 DEF Named, Chosen
    <3>4. (req[c].op = "get" => seen[c].backend # "") => NameFor(c) = Where(c)
      BY <1>1, <1>4, <2>3, NameIsWhere
    <3>. QED  BY <1>1, <1>4, <2>1, <2>2, <3>1, <3>3, <3>4 DEF Ready, Found, First
  <2>4. /\ \A d \in Callers \ {c} : svc'[d] = svc[d] /\ seen'[d] = seen[d] /\ client'[d] = client[d]
        /\ UNCHANGED <<docs, late, backends, req, body, solo, calm, truth, safe, stores>>
    BY <1>1, <1>4, <2>1
  <2>. QED  BY <1>1, <1>4, <2>3, <2>4, OnwardFacts
<1>5. CASE /\ client' = [client EXCEPT ![c] = found]
           /\ UNCHANGED <<req, seen, body, solo, calm, truth, safe>>
           /\ req[c].op = "bput" /\ Goes(c, "record")
           /\ svc' = [svc EXCEPT ![c] = call]
  <2>1. /\ \A d \in Callers \ {c} : svc'[d] = svc[d] /\ seen'[d] = seen[d] /\ client'[d] = client[d]
        /\ UNCHANGED <<docs, late, backends, req, body, solo, calm, truth, safe, stores>>
    BY <1>1, <1>5 DEF Shape, GatewayTypeOK
  <2>2. at'[c] = "record"
    BY <1>5 DEF Goes, Shape, GatewayTypeOK
  <2>3. Ready(c)'
    BY <2>2 DEF Ready
  <2>4. ~PutsOnly
    BY <1>1, <1>5, AtWork DEF Facts, Calm
  <2>5. req[c].op \in BucketOps /\ req[c].op # "get"
    BY <1>5 DEF BucketOps
  <2>. QED  BY <1>1, <1>5, <2>1, <2>3, <2>4, <2>5, OnwardFacts
<1>. QED  BY <1>2, <1>4, <1>5, ClientSteps

LEMMA RecordedFacts ==
  ASSUME Shape, Facts, NEW c \in Callers, Recorded(c) \/ ReadAgainFails(c)
  PROVE  Facts'
<1>0. (c \in solo) \in BOOLEAN /\ FALSE \in BOOLEAN
  OBVIOUS
<1>1. at[c] = "record" /\ svc[c].at \in {"ok", "error"} /\ UNCHANGED <<docs, late, backends, stores>>
  BY DEF Recorded, ReadAgainFails, serviceVars
<1>2. CASE ReadAgainFails(c)
  <2>1. Stop(c, "panic", <<>>, FALSE)
    BY <1>2 DEF ReadAgainFails, FinishAfter
  <2>. QED  BY <1>0, <1>1, <2>1, StopFacts
<1>3. CASE Recorded(c)
  <2>. DEFINE answer == IF req[c].op = "part" /\ ~Found("object") THEN "panic" ELSE svc[c].at
  <2>1. Stop(c, answer, <<>>, c \in solo)
    BY <1>3 DEF Recorded, Finish
  <2>2. answer = "ok" => svc[c].at = "ok"
    OBVIOUS
  <2>. HIDE DEF answer
  <2>3. ASSUME c \in solo, answer = "ok" PROVE \A t : t = Promised(req[c]) => Agrees(t)
    <3>1. CASE req[c].op \in BucketOps
      <4>1. Agrees(truth) /\ Promised(req[c]) = truth
        BY <1>1, <2>3, <3>1 DEF Facts, Truthful, Promised, BucketOps
      <4>. QED  BY <4>1
    <3>2. CASE req[c].op \notin BucketOps
      <4>1. Found("object") /\ Fits(Promised(req[c]), First("object"))
        BY <1>1, <2>2, <2>3, <3>2 DEF Facts, Truthful, Fitting
      <4>. QED  BY <4>1 DEF Agrees
    <3>. QED  BY <3>1, <3>2
  <2>4. ASSUME req[c].op = "put", answer = "ok", c \in calm PROVE GoodFirst
    <3>1. PutsOnly /\ c \in Active
      BY <1>1, <2>4, AtWork DEF PutsOnly
    <3>. QED  BY <1>1, <2>2, <2>4, <3>1 DEF Facts, Calm
  <2>. QED  BY <1>0, <1>1, <2>1, <2>3, <2>4, StopFacts
<1>. QED  BY <1>2, <1>3

-----------------------------------------------------------------------------
(* The steps of the s3 service *)

\* What the first document is after a step.
LEMMA EffectFirst ==
  ASSUME docs \in Documents, NEW call \in Call, Running(call), docs' = Effect(call)
  PROVE  LET s == docs[call.coll]
             t == docs'[call.coll] IN
         /\ call.at \in {"look", "find"} => t = s
         /\ call.at = "insert" => t # <<>> /\ t[1] = IF s # <<>> THEN s[1] ELSE call.doc
         /\ call.at = "update" => IF s # <<>> THEN t # <<>> /\ t[1] = call.doc ELSE t = <<>>
<1>. DEFINE s == docs[call.coll]
            t == docs'[call.coll]
<1>1. call.coll \in Collections /\ call.doc \in Doc /\ s \in Seq(Doc)
  BY DEF Call, Documents
<1>2. call.at \in {"look", "find"} => t = s
  BY DEF Effect
<1>3. CASE call.at = "insert"
  <2>1. t = Append(s, call.doc)
    BY <1>1, <1>3 DEF Effect, Insert, Documents
  <2>. HIDE DEF s, t
  <2>2. s # <<>> => Len(s) > 0
    BY <1>1
  <2>3. s = <<>> => Append(s, call.doc)[1] = call.doc
    BY <1>1
  <2>4. s # <<>> => Append(s, call.doc)[1] = s[1]
    BY <1>1, <2>2
  <2>5. Append(s, call.doc) # <<>>
    BY <1>1
  <2>. QED  BY <1>3, <2>1, <2>3, <2>4, <2>5 DEF s, t
<1>4. CASE call.at = "update"
  <2>1. t = [s EXCEPT ![1] = call.doc]
    BY <1>1, <1>4 DEF Effect, Update, Documents
  <2>. HIDE DEF s, t
  <2>2. CASE s = <<>>
    <3>1. DOMAIN t = {} /\ t = [i \in {} |-> t[i]]
      BY <2>1, <2>2
    <3>2. t = <<>>
      <4>1. s \in [1..0 -> Doc] /\ 1 \notin 1..0
        BY <2>2, LenProperties, EmptySeq
      <4>2. t = s
        BY <2>1, <4>1
      <4>. QED  BY <2>2, <4>2
    <3>. QED  BY <1>4, <2>2, <3>2 DEF s, t
  <2>3. CASE s # <<>>
    <3>1. Len(s) > 0 /\ 1 \in 1..Len(s)
      BY <1>1, <2>3
    <3>2. t[1] = call.doc /\ Len(t) = Len(s) /\ t \in Seq(Doc)
      BY <1>1, <2>1, <3>1, ExceptSeq
    <3>3. t # <<>>
      BY <3>1, <3>2
    <3>. QED  BY <1>4, <2>3, <3>2, <3>3 DEF s, t
  <2>. QED  BY <2>2, <2>3
<1>. QED  BY <1>2, <1>3, <1>4

LEMMA GoodFirstIs ==
  ASSUME NEW doc, docs'["object"] # <<>>, docs'["object"][1] = doc, Good(doc)'
  PROVE  GoodFirst'
BY DEF GoodFirst, Good, Leads, StoreOf, Shown, Chosen, Named, Found, First

LEMMA GoodStep ==
  ASSUME docs \in Documents, backends \in Seq(Backend), NEW call \in Call, Running(call), Sound(call),
         docs' = Effect(call), UNCHANGED <<stores, backends>>
  PROVE  /\ GoodFirst => GoodFirst'
         /\ ~Found("object") \/ GoodFirst => ~Found("object")' \/ GoodFirst'
         /\ call.at = "insert" /\ (~Found("object") \/ GoodFirst) => GoodFirst'
         /\ call.at = "update" /\ Found("object") => GoodFirst'
         /\ docs'["bucket"] = docs["bucket"]
         /\ Sound(call)'
         /\ Moved(call).at \in {"look", "find", "insert", "update", "error", "ok"}
         /\ \A m : m = Moved(call) /\ m.at # "error" => Sound(m)'
         /\ Moved(call).at = "insert" => call.at = "find" /\ ~Found("object")'
         /\ Moved(call).at = "ok" => call.at \in {"insert", "update"}
<1>1. call.coll = "object" /\ Good(call.doc) /\ call.op = "create"
      /\ call.at \in {"look", "find", "insert", "update"}
  BY DEF Sound, Running, CallStep
<1>2. \A doc : Good(doc) => Good(doc)'
  BY GoodKept
<1>. DEFINE s == docs["object"]
            t == docs'["object"]
<1>3. /\ call.at \in {"look", "find"} => t = s
      /\ call.at = "insert" => t # <<>> /\ t[1] = IF s # <<>> THEN s[1] ELSE call.doc
      /\ call.at = "update" => IF s # <<>> THEN t # <<>> /\ t[1] = call.doc ELSE t = <<>>
  BY <1>1, EffectFirst
<1>4. \A doc : t # <<>> /\ t[1] = doc /\ Good(doc) => GoodFirst'
  BY <1>2, GoodFirstIs
<1>5. GoodFirst <=> s # <<>> /\ Good(s[1])
  BY DEF GoodFirst, Found, First
<1>6. Found("object") <=> s # <<>>
  BY DEF Found
<1>7. Found("object")' <=> t # <<>>
  BY DEF Found
<1>8. docs'["bucket"] = docs["bucket"]
  BY <1>1, CallFinds DEF Collections
<1>9. Sound(call)'
  BY SoundKept
<1>11. /\ call.at = "look" => Moved(call) = At(call, IF s # <<>> THEN "update" ELSE "find")
       /\ call.at = "find" => Moved(call) = At(call, IF s # <<>> THEN "error" ELSE "insert")
       /\ call.at \in {"insert", "update"} => Moved(call) = At(call, "ok")
  BY <1>1, <1>6 DEF Moved, Look, CreateObject, Find
<1>12. \A state : At(call, state).at = state
  BY DEF At, Call
<1>. HIDE DEF s, t
<1>13. PICK first : first = s[1]
  OBVIOUS
<1>14. GoodFirst => GoodFirst'
  BY <1>1, <1>3, <1>4, <1>5
<1>15. ~Found("object") \/ GoodFirst => ~Found("object")' \/ GoodFirst'
  BY <1>1, <1>3, <1>4, <1>6, <1>7, <1>14
<1>16. call.at = "insert" /\ (~Found("object") \/ GoodFirst) => GoodFirst'
  BY <1>1, <1>3, <1>4, <1>6, <1>14
<1>17. call.at = "update" /\ Found("object") => GoodFirst'
  BY <1>1, <1>3, <1>4, <1>6
<1>18. /\ Moved(call).at \in {"look", "find", "insert", "update", "error", "ok"}
       /\ \A m : m = Moved(call) /\ m.at # "error" => Sound(m)'
  <2>1. PICK state \in {"look", "find", "insert", "update", "error", "ok"} : Moved(call) = At(call, state)
    BY <1>1, <1>11
  <2>2. state # "error" => \A m : m = At(call, state) => Sound(m)'
    <3>1. PICK m : m = At(call, state)
      OBVIOUS
    <3>2. state # "error" => Sound(m)'
      BY <1>1, <1>2, <3>1 DEF Sound, At, Call
    <3>. QED  BY <3>1, <3>2
  <2>3. Moved(call).at = state
    BY <1>12, <2>1
  <2>. QED  BY <2>1, <2>2, <2>3
<1>19. Moved(call).at = "insert" => call.at = "find" /\ ~Found("object")'
  BY <1>1, <1>3, <1>7, <1>11, <1>12
<1>20. Moved(call).at = "ok" => call.at \in {"insert", "update"}
  BY <1>1, <1>11, <1>12
<1>. QED  BY <1>8, <1>9, <1>14, <1>15, <1>16, <1>17, <1>18, <1>19, <1>20

\* What fits does so by whatever name the next state has for it.
LEMMA FitsOfCall ==
  ASSUME NEW c, NEW t, NEW doc, Promised(req[c])' = t, svc'[c].doc = doc, Fits(t, doc)'
  PROVE  Fits(Promised(req[c]), svc[c].doc)'
<1>1. Leads(doc)' => Leads(svc[c].doc)'
  BY DEF Leads, Named
<1>2. StoreOf(svc[c].doc)' = StoreOf(doc)' /\ Kind(Chosen(svc[c].doc.backend))' = Kind(Chosen(doc.backend))'
  BY DEF StoreOf, Chosen, Named, Kind
<1>3. HasParts(t, doc)' => HasParts(Promised(req[c]), svc[c].doc)'
  BY <1>2 DEF HasParts, Blocks, Parted
<1>4. (svc[c].doc)' = doc
  OBVIOUS
<1>. QED  BY <1>1, <1>2, <1>3, <1>4 DEF Fits, Leads, Shown, Named

LEMMA FitsOfFirst ==
  ASSUME NEW c, NEW t, NEW doc, Promised(req[c])' = t, docs'["object"][1] = doc, Fits(t, doc)'
  PROVE  Fits(Promised(req[c]), First("object"))'
<1>1. Leads(doc)' => Leads(First("object"))'
  BY DEF Leads, Named, First
<1>2. StoreOf(First("object"))' = StoreOf(doc)' /\ Kind(Chosen(First("object").backend))' = Kind(Chosen(doc.backend))'
  BY DEF StoreOf, Chosen, Named, Kind, First
<1>3. HasParts(t, doc)' => HasParts(Promised(req[c]), First("object"))'
  BY <1>2 DEF HasParts, Blocks, Parted, First
<1>4. (First("object"))' = doc
  BY DEF First
<1>. QED  BY <1>1, <1>2, <1>3, <1>4 DEF Fits, Leads, Shown, Named

LEMMA FitsOfMarked ==
  ASSUME NEW c, NEW t, NEW doc, Promised(req[c])' = t, Marked(docs'["object"][1]) = doc, Fits(t, doc)'
  PROVE  Fits(Promised(req[c]), Marked(First("object")))'
<1>1. Leads(doc)' => Leads(Marked(First("object")))'
  BY DEF Leads, Named, First, Marked
<1>2. StoreOf(Marked(First("object")))' = StoreOf(doc)' /\ Kind(Chosen(Marked(First("object")).backend))' = Kind(Chosen(doc.backend))'
  BY DEF StoreOf, Chosen, Named, Kind, First, Marked
<1>3. HasParts(t, doc)' => HasParts(Promised(req[c]), Marked(First("object")))'
  BY <1>2 DEF HasParts, Blocks, Parted, First, Marked
<1>4. (Marked(First("object")))' = doc
  BY DEF First, Marked
<1>. QED  BY <1>1, <1>2, <1>3, <1>4 DEF Fits, Leads, Shown, Named

\* To show that the write under way fits, of what it is in the next state.
LEMMA WritingIs ==
  ASSUME NEW c, NEW m, NEW t, NEW q, svc'[c] = m, req'[c] = q, Promised(req[c])' = t,
         m.op = (IF q.op \in {"delete", "abort"} THEN "delete" ELSE "create"),
         m.op = "delete" => m.at \notin {"find", "insert"},
         m.op = "create" /\ m.at \in CallStep => Fits(t, m.doc)',
         m.op = "delete" /\ m.at = "look" =>
           docs'["object"] # <<>> /\ \A doc : doc = Marked(docs'["object"][1]) => Fits(t, doc)',
         m.op = "delete" /\ m.at = "update" => Fits(t, m.doc)',
         m.at = "insert" => docs'["object"] = <<>>,
         m.at = "update" => docs'["object"] # <<>>,
         m.at = "ok" => docs'["object"] # <<>> /\ \A doc : doc = docs'["object"][1] => Fits(t, doc)'
  PROVE  Fitting(c)'
<1>1. ASSUME NEW doc, Fits(t, doc)' PROVE \A e : e = svc'[c].doc /\ e = doc => Fits(Promised(req[c]), svc[c].doc)'
  BY <1>1, FitsOfCall
<1>2. ASSUME NEW doc, Fits(t, doc)', doc = docs'["object"][1] PROVE Fits(Promised(req[c]), First("object"))'
  BY <1>2, FitsOfFirst
<1>3. ASSUME NEW doc, Fits(t, doc)', doc = Marked(docs'["object"][1])
      PROVE  Fits(Promised(req[c]), Marked(First("object")))'
  BY <1>3, FitsOfMarked
<1>4. Found("object")' <=> docs'["object"] # <<>>
  BY DEF Found
<1>5. /\ svc[c].op' = m.op /\ svc[c].at' = m.at
      /\ Fits(t, m.doc)' => Fits(Promised(req[c]), svc[c].doc)'
  BY <1>1
<1>6. m.op = "delete" /\ m.at = "look" => Found("object")' /\ Fits(Promised(req[c]), Marked(First("object")))'
  BY <1>3, <1>4
<1>7. m.at = "ok" => Found("object")' /\ Fits(Promised(req[c]), First("object"))'
  BY <1>2, <1>4
<1>. HIDE DEF Found
<1>. QED  BY <1>4, <1>5, <1>6, <1>7 DEF Fitting

LEMMA WritingStep ==
  ASSUME Shape, NEW c \in Callers, svc[c] \in Call, Running(svc[c]), svc[c].coll = "object", Fitting(c),
         svc'[c] = Moved(svc[c]), docs' = Effect(svc[c]), UNCHANGED <<stores, backends, truth, req>>
  PROVE  Fitting(c)'
<1>1. PICK call, t, m, q : call = svc[c] /\ t = Promised(req[c]) /\ m = Moved(svc[c]) /\ q = req[c]
  OBVIOUS
<1>2. Promised(req[c])' = t /\ svc'[c] = m /\ req'[c] = q
  BY <1>1 DEF Promised, Acked
<1>3. \A doc : Fits(t, doc) => Fits(t, doc)'
  BY FitsKept
<1>4. call \in Call /\ Running(call) /\ call.coll = "object" /\ docs \in Documents /\ docs' = Effect(call)
      /\ m = Moved(call)
      /\ call.at \in {"look", "find", "insert", "update"} /\ call.op \in {"create", "delete"}
  BY <1>1, SomeTypes DEF Running, CallStep, Call
<1>. DEFINE s == docs["object"]
            n == docs'["object"]
<1>5. /\ call.at \in {"look", "find"} => n = s
      /\ call.at = "insert" => n # <<>> /\ n[1] = IF s # <<>> THEN s[1] ELSE call.doc
      /\ call.at = "update" => IF s # <<>> THEN n # <<>> /\ n[1] = call.doc ELSE n = <<>>
  BY <1>4, EffectFirst
<1>6. /\ call.op = "create" /\ call.at = "look" => m = At(call, IF s # <<>> THEN "update" ELSE "find")
      /\ call.op = "delete" /\ call.at = "look" =>
           IF s # <<>> THEN m = Deleted(call, s[1]) ELSE m = At(call, "error")
      /\ call.at = "find" => m = At(call, IF s # <<>> THEN "error" ELSE "insert")
      /\ call.at \in {"insert", "update"} => m = At(call, "ok")
  BY <1>4 DEF Moved, Look, CreateObject, DeleteObject, Find, Found, First
<1>7. /\ \A state : /\ At(call, state).op = call.op /\ At(call, state).doc = call.doc /\ At(call, state).at = state
      /\ /\ Deleted(call, s[1]).op = call.op /\ Deleted(call, s[1]).at = "update"
         /\ Deleted(call, s[1]).doc = Marked(s[1])
  BY <1>4 DEF At, Deleted, Marked, Call
<1>8. /\ call.op = (IF q.op \in {"delete", "abort"} THEN "delete" ELSE "create")
      /\ call.op = "delete" => call.at \notin {"find", "insert"}
      /\ call.op = "create" => Fits(t, call.doc)
      /\ call.op = "delete" /\ call.at = "look" => s # <<>> /\ Fits(t, Marked(s[1]))
      /\ call.op = "delete" /\ call.at = "update" => Fits(t, call.doc)
      /\ call.at = "insert" => s = <<>>
      /\ call.at = "update" => s # <<>>
  BY <1>1, <1>4 DEF Fitting, Found, First, CallStep
<1>. HIDE DEF s, n
<1>9. CASE call.at = "look" /\ call.op = "create"
  <2>1. m.op = "create" /\ m.doc = call.doc /\ m.at \in {"update", "find"} /\ (m.at = "update" => n # <<>>)
    BY <1>5, <1>6, <1>7, <1>9
  <2>2. Fits(t, m.doc)'
    BY <1>3, <1>8, <1>9, <2>1
  <2>. QED  BY <1>2, <1>8, <1>9, <2>1, <2>2, WritingIs DEF n
<1>10. CASE call.at = "look" /\ call.op = "delete"
  <2>1. m.op = "delete" /\ m.doc = Marked(s[1]) /\ m.at = "update" /\ n # <<>> /\ Fits(t, m.doc)
    BY <1>5, <1>6, <1>7, <1>8, <1>10
  <2>2. Fits(t, m.doc)'
    BY <1>3, <2>1
  <2>. QED  BY <1>2, <1>8, <1>10, <2>1, <2>2, WritingIs DEF n
<1>11. CASE call.at = "find"
  <2>1. m.op = "create" /\ call.op = "create" /\ m.doc = call.doc
        /\ m.at \in {"error", "insert"} /\ (m.at = "insert" => n = <<>>)
    BY <1>4, <1>5, <1>6, <1>7, <1>8, <1>11
  <2>2. Fits(t, m.doc)'
    BY <1>3, <1>8, <2>1
  <2>. QED  BY <1>2, <1>8, <1>11, <2>1, <2>2, WritingIs DEF n
<1>12. CASE call.at \in {"insert", "update"}
  <2>1. m.op = call.op /\ m.at = "ok" /\ n # <<>> /\ n[1] = call.doc /\ Fits(t, call.doc)
    BY <1>4, <1>5, <1>6, <1>7, <1>8, <1>12
  <2>2. Fits(t, call.doc)'
    BY <1>3, <2>1
  <2>. QED  BY <1>2, <1>8, <1>12, <2>1, <2>2, WritingIs DEF n, CallStep
<1>. QED  BY <1>4, <1>9, <1>10, <1>11, <1>12

\* While only puts write, a step of one of them leaves the others as they are.
LEMMA CalmStep ==
  ASSUME Shape, Facts, PutsOnly, NEW call \in Call, Running(call), Sound(call), docs' = Effect(call),
         UNCHANGED <<stores, backends, at, req, calm, safe>>,
         NEW S, \A d \in S : d \in Active /\ svc'[d] = svc[d]
  PROVE  /\ \A d \in S : at'[d] = "record" => svc'[d].at = "error" \/ Sound(svc[d])'
         /\ \A d \in S : at'[d] = "record" /\ svc'[d].at = "insert" => ~Found("object")' \/ GoodFirst'
         /\ \A d \in S : at'[d] = "record" /\ svc'[d].at = "ok" => GoodFirst'
         /\ safe' => GoodFirst'
<1>1. backends \in Seq(Backend) /\ docs \in Documents
  BY SomeTypes
<1>2. /\ GoodFirst => GoodFirst'
      /\ ~Found("object") \/ GoodFirst => ~Found("object")' \/ GoodFirst'
  BY <1>1, GoodStep
<1>3. \A d : Sound(svc[d]) /\ svc'[d] = svc[d] => Sound(svc[d])'
  BY <1>1, SoundStays
<1>. QED  BY <1>2, <1>3 DEF Facts, Calm

\* A step of the service as others see it.
LEMMA PreparedStep ==
  ASSUME Shape, Facts, NEW call \in Call, Running(call), docs' = Effect(call),
         PutsOnly => call.coll = "object",
         NEW c, solo \subseteq {c}, c \in solo => at[c] = "record",
         UNCHANGED <<stores, backends, at, req, seen, client, solo, calm, safe>>
  PROVE  Prepared'
<1>1. docs \in Documents /\ Active' = Active /\ (PutsOnly' <=> PutsOnly) /\ \A d : Busy(d)' <=> Busy(d)
  BY SomeTypes DEF Active, Busy, PutsOnly
<1>. SUFFICES ASSUME NEW d \in Callers, Steady(d)', at[d] \in {"client", "store"} PROVE Ready(d)'
  BY DEF Prepared, Ready
<1>2. Steady(d) /\ Ready(d)
  BY <1>1 DEF Steady, Facts, Prepared
<1>3. d \notin solo /\ PutsOnly /\ Busy(d) /\ req[d].op = "put"
  BY <1>1, <1>2 DEF Steady, Facts, Calm, Active
<1>4. docs'["bucket"] = docs["bucket"]
  BY <1>1, <1>3, CallFinds DEF Collections
<1>5. Where(d)' = Where(d)
  BY DEF Where, Location
<1>6. Named(Where(d))' = Named(Where(d)) /\ Chosen(Where(d))' = Chosen(Where(d))
  BY <1>5 DEF Named, Chosen
<1>. QED  BY <1>2, <1>3, <1>4, <1>6 DEF Ready, Found, First, ReadingOps

LEMMA ServeFacts ==
  ASSUME Shape, Facts, NEW c \in Callers, Serve(c)
  PROVE  Facts'
<1>. DEFINE call == svc[c]
<1>1. Running(call) /\ svc[c] # NoCall /\ svc' = [svc EXCEPT ![c] = Moved(svc[c])] /\ docs' = Effect(svc[c])
      /\ UNCHANGED <<late, backends, stores, at, req, seen, client, body, solo, calm, truth, safe>>
  BY DEF Serve, ServiceStep, Quiet, historyVars, serviceVars, requestVars, Running
<1>2. /\ at[c] = "record" /\ call \in Call /\ req[c].op # "get" /\ docs \in Documents /\ backends \in Seq(Backend)
      /\ call.coll = IF req[c].op \in BucketOps THEN "bucket" ELSE "object"
  BY <1>1, CallTypes, SomeTypes
<1>3. c \in Active /\ solo \subseteq {c}
  BY <1>2, AtWork, BusyAlone DEF Facts
<1>4. svc'[c] = Moved(call) /\ \A d \in Callers \ {c} : svc'[d] = svc[d]
  BY <1>1 DEF Shape, GatewayTypeOK
<1>5. Active' = Active /\ (PutsOnly' <=> PutsOnly)
  BY <1>1 DEF Active, Busy, PutsOnly
<1>6. PutsOnly => req[c].op = "put" /\ call.coll = "object" /\ Sound(call)
  BY <1>1, <1>2, <1>3 DEF Facts, Calm, BucketOps, Running, CallStep
<1>. HIDE DEF call
<1>7. Solitude'
  BY <1>1, <1>5 DEF Facts, Solitude
<1>8. Truthful'
  <2>1. CASE c \notin solo
    BY <1>1, <1>3, <1>5, <2>1 DEF Truthful
  <2>2. CASE c \in solo /\ req[c].op \in BucketOps
    <3>1. docs'["object"] = docs["object"]
      BY <1>1, <1>2, <2>2, CallFinds DEF Collections, call
    <3>2. Agrees(truth)
      BY <1>2, <2>2 DEF Facts, Truthful
    <3>3. Agrees(truth)'
      BY <1>1, <3>1, <3>2, TruthKept
    <3>. QED  BY <1>1, <1>2, <1>3, <2>2, <3>3 DEF Truthful
  <2>3. CASE c \in solo /\ req[c].op \notin BucketOps
    <3>1. Fitting(c)
      BY <1>2, <2>3 DEF Facts, Truthful
    <3>2. Fitting(c)'
      BY <1>1, <1>2, <1>4, <2>3, <3>1, WritingStep DEF call
    <3>. QED  BY <1>1, <1>2, <1>3, <1>5, <2>3, <3>2 DEF Truthful
  <2>. QED  BY <2>1, <2>2, <2>3
<1>9. Calm'
  <2>. SUFFICES ASSUME PutsOnly PROVE
         /\ \A d \in Active : req[d].op = "put"
         /\ \A x \in late : Sound(x)'
         /\ \A d \in Active : at'[d] = "record" => svc'[d].at = "error" \/ Sound(svc[d])'
         /\ \A d \in Active : at'[d] = "record" /\ svc'[d].at = "insert" => ~Found("object")' \/ GoodFirst'
         /\ \A d \in Active : at'[d] = "record" /\ svc'[d].at = "ok" => GoodFirst'
         /\ safe' => GoodFirst'
    BY <1>1, <1>5 DEF Calm
  <2>1. \A x : Sound(x) => Sound(x)'
    BY <1>1, <1>2, SoundKept
  <2>2. \A d \in Active \ {c} : d \in Active /\ svc'[d] = svc[d]
    BY <1>4 DEF Active
  <2>3. /\ \A d \in Active \ {c} : at'[d] = "record" => svc'[d].at = "error" \/ Sound(svc[d])'
        /\ \A d \in Active \ {c} : at'[d] = "record" /\ svc'[d].at = "insert" => ~Found("object")' \/ GoodFirst'
        /\ \A d \in Active \ {c} : at'[d] = "record" /\ svc'[d].at = "ok" => GoodFirst'
        /\ safe' => GoodFirst'
    <3>1. docs' = Effect(call) /\ UNCHANGED <<stores, backends, at, req, calm, safe>> /\ call \in Call /\ Running(call)
      BY <1>1, <1>2 DEF call
    <3>. QED  BY <1>6, <2>2, <3>1, CalmStep
  <2>4. PICK m : m = Moved(call)
    OBVIOUS
  <2>5. svc'[c] = m
    BY <1>4, <2>4
  <2>6. /\ ~Found("object") \/ GoodFirst => ~Found("object")' \/ GoodFirst'
        /\ call.at = "insert" /\ (~Found("object") \/ GoodFirst) => GoodFirst'
        /\ call.at = "update" /\ Found("object") => GoodFirst'
        /\ m.at # "error" => Sound(m)'
        /\ m.at = "insert" => ~Found("object")'
        /\ m.at = "ok" => call.at \in {"insert", "update"}
    <3>1. docs' = Effect(call) /\ UNCHANGED <<stores, backends>> /\ call \in Call /\ Running(call)
      BY <1>1, <1>2 DEF call
    <3>. QED  BY <1>2, <1>6, <2>4, <3>1, GoodStep
  <2>7. svc'[c].at = "error" \/ Sound(svc[c])'
    BY <2>5, <2>6, SoundCarried
  <2>8. /\ call.at = "insert" => ~Found("object") \/ GoodFirst
        /\ call.at = "update" => Found("object")
    <3>1. call.at = "update" => Found(call.coll)
      BY <1>2 DEF Shape, Standing, Stands, call
    <3>2. call.at = "insert" => ~Found("object") \/ GoodFirst
      BY <1>2, <1>3 DEF Facts, Calm, call
    <3>. QED  BY <1>6, <3>1, <3>2
  <2>9. svc'[c].at = "ok" => GoodFirst'
    BY <2>5, <2>6, <2>8
  <2>10. svc'[c].at = "insert" => ~Found("object")'
    BY <2>5, <2>6
  <2>. QED  BY <2>1, <2>3, <2>7, <2>9, <2>10 DEF Facts, Calm
<1>10. Prepared'
  <2>1. docs' = Effect(call) /\ call \in Call /\ Running(call) /\ (c \in solo => at[c] = "record")
    BY <1>1, <1>2 DEF call
  <2>. QED  BY <1>1, <1>3, <1>6, <2>1, PreparedStep
<1>11. SoFar'
  BY <1>1 DEF Facts, SoFar
<1>. QED  BY <1>7, <1>8, <1>9, <1>10, <1>11 DEF Facts

LEMMA LateFacts ==
  ASSUME Shape, Facts, ServeLate
  PROVE  Facts'
<1>1. PICK call \in late : LateStep(call)
  BY DEF ServeLate
<1>2. UNCHANGED <<svc, backends, stores, at, req, seen, client, body, solo, calm, truth, safe>>
  BY <1>1 DEF ServeLate, LateStep, Quiet, historyVars, serviceVars, requestVars
<1>3. call \in Call /\ Running(call) /\ docs \in Documents /\ backends \in Seq(Backend)
  BY SomeTypes DEF Shape, GatewayTypeOK, HistoryTypes
<1>4. docs' = Effect(call) /\ late' = (late \ {call}) \cup {m \in {Moved(call)} : Running(m)}
  BY <1>1 DEF LateStep
<1>5. solo = {} /\ truth.is = "unknown"
  BY DEF Facts, Solitude, Shape, HistoryTypes
<1>6. Active' = Active /\ (PutsOnly' <=> PutsOnly)
  BY <1>2 DEF Active, Busy, PutsOnly
<1>7. PutsOnly => Sound(call) /\ call.coll = "object"
  BY DEF Facts, Calm, Sound
<1>8. Solitude'
  BY <1>2, <1>5 DEF Solitude
<1>9. Truthful'
  BY <1>2, <1>5, UnknownAgrees DEF Truthful
<1>10. Calm'
  <2>. SUFFICES ASSUME PutsOnly PROVE
         /\ \A d \in Active : req[d].op = "put"
         /\ \A x \in late' : Sound(x)'
         /\ \A d \in Active : at'[d] = "record" => svc'[d].at = "error" \/ Sound(svc[d])'
         /\ \A d \in Active : at'[d] = "record" /\ svc'[d].at = "insert" => ~Found("object")' \/ GoodFirst'
         /\ \A d \in Active : at'[d] = "record" /\ svc'[d].at = "ok" => GoodFirst'
         /\ safe' => GoodFirst'
    BY <1>2, <1>6 DEF Calm
  <2>1. \A x \in late : Sound(x)'
    BY <1>2, <1>3, SoundKept DEF Facts, Calm
  <2>2. \A x : x = Moved(call) /\ Running(x) => Sound(x)'
    <3>1. \A x : x = Moved(call) /\ x.at # "error" => Sound(x)'
      BY <1>2, <1>3, <1>4, <1>7, GoodStep
    <3>2. \A x : Running(x) => x.at # "error"
      BY DEF Running, CallStep
    <3>. QED  BY <3>1, <3>2
  <2>3. \A d \in Active : d \in Active /\ svc'[d] = svc[d]
    BY <1>2
  <2>4. /\ \A d \in Active : at'[d] = "record" => svc'[d].at = "error" \/ Sound(svc[d])'
        /\ \A d \in Active : at'[d] = "record" /\ svc'[d].at = "insert" => ~Found("object")' \/ GoodFirst'
        /\ \A d \in Active : at'[d] = "record" /\ svc'[d].at = "ok" => GoodFirst'
        /\ safe' => GoodFirst'
    BY <1>2, <1>3, <1>4, <1>7, <2>3, CalmStep
  <2>. QED  BY <1>4, <2>1, <2>2, <2>4 DEF Facts, Calm
<1>11. Prepared'
  <2>1. PICK c : c \notin solo
    BY <1>5
  <2>. QED  BY <1>2, <1>3, <1>4, <1>5, <1>7, PreparedStep
<1>12. SoFar'
  BY <1>2 DEF Facts, SoFar
<1>. QED  BY <1>8, <1>9, <1>10, <1>11, <1>12 DEF Facts

LEMMA FailingFacts ==
  ASSUME Shape, Facts, NEW c \in Callers, ServiceFails(c) \/ ServiceLost(c)
  PROVE  Facts'
<1>1. /\ svc[c] # NoCall /\ svc[c].at # "error"
      /\ UNCHANGED <<docs, backends, stores, at, req, seen, client, body, calm, safe>>
  BY DEF ServiceFails, ServiceLost, DbFails, CallLost, Running, CallStep, serviceVars
<1>2. /\ at[c] = "record" /\ svc[c] \in Call /\ req[c].op # "get" /\ backends \in Seq(Backend)
  BY <1>1, CallTypes, SomeTypes
<1>3. c \in Active /\ solo \subseteq {c}
  BY <1>2, AtWork, BusyAlone DEF Facts
<1>4. Active' = Active /\ (PutsOnly' <=> PutsOnly) /\ \A d \in Callers : Busy(d)' <=> Busy(d)
  BY <1>1 DEF Active, Busy, PutsOnly
<1>5. solo' = {} /\ ((truth' = truth /\ late' = late) \/ truth'.is = "unknown")
  BY <1>3 DEF ServiceFails, ServiceLost, DbFails, Unknown
<1>6. late' \subseteq late \cup {x \in {svc[c]} : Running(x)}
  BY DEF ServiceFails, ServiceLost, DbFails, CallLost
<1>. DEFINE failed == At(svc[c], "error")
            again == [svc[c] EXCEPT !.at = "look", !.attempt = 2]
<1>7. PICK call : svc' = [svc EXCEPT ![c] = call] /\ call \in {failed, again}
  BY DEF ServiceFails, ServiceLost, DbFails, CallLost
<1>8. \/ call.at = "error"
      \/ call.at = "look" /\ call.doc = svc[c].doc /\ call.op = svc[c].op /\ call.coll = svc[c].coll
  <2>1. failed.at = "error"
    BY <1>2 DEF At, Call
  <2>2. again.at = "look" /\ again.doc = svc[c].doc /\ again.op = svc[c].op /\ again.coll = svc[c].coll
    BY <1>2 DEF Call
  <2>. QED  BY <1>7, <2>1, <2>2
<1>. HIDE DEF failed, again
<1>9. Solitude'
  BY <1>1, <1>5 DEF Facts, Solitude
<1>10. Truthful'
  BY <1>3, <1>4, <1>5 DEF Truthful
<1>11. Calm'
  <2>. SUFFICES ASSUME PutsOnly PROVE
         /\ \A d \in Active : req[d].op = "put"
         /\ \A x \in late' : Sound(x)'
         /\ \A d \in Active : at'[d] = "record" => svc'[d].at = "error" \/ Sound(svc[d])'
         /\ \A d \in Active : at'[d] = "record" /\ svc'[d].at = "insert" => ~Found("object")' \/ GoodFirst'
         /\ \A d \in Active : at'[d] = "record" /\ svc'[d].at = "ok" => GoodFirst'
         /\ safe' => GoodFirst'
    BY <1>1, <1>4 DEF Calm
  <2>1. \A x : Sound(x) => Sound(x)'
    BY <1>1, <1>2, SoundKept
  <2>2. Sound(svc[c])
    BY <1>1, <1>2, <1>3 DEF Facts, Calm
  <2>3. \A x \in late' : Sound(x)'
    BY <1>6, <2>1, <2>2 DEF Facts, Calm
  <2>4. call.at = "error" \/ Sound(call)
    BY <1>8, <2>2 DEF Sound
  <2>5. svc'[c] = call /\ \A d \in Callers \ {c} : svc'[d] = svc[d]
    BY <1>7 DEF Shape, GatewayTypeOK
  <2>6. svc'[c].at = "error" \/ Sound(svc[c])'
    BY <2>1, <2>4, <2>5, SoundCarried
  <2>7. \A d \in Callers \ {c} : Sound(svc[d]) => Sound(svc[d])'
    BY <1>1, <1>2, <2>5, SoundStays
  <2>8. GoodFirst => GoodFirst'
    BY <1>1, <1>2, GoodFirstKept
  <2>9. svc'[c].at \notin {"insert", "ok"}
    BY <1>8, <2>5
  <2>10. \A d \in Active : d \in Callers
    BY DEF Active
  <2>. QED  BY <1>1, <2>3, <2>5, <2>6, <2>7, <2>8, <2>9, <2>10 DEF Facts, Calm, Found
<1>12. Prepared'
  <2>. SUFFICES ASSUME NEW d \in Callers, Steady(d)' PROVE Ready(d)'
    BY DEF Prepared
  <2>1. Ready(d)
    BY <1>4, <1>5 DEF Steady, Facts, Prepared
  <2>2. Where(d)' = Where(d)
    BY <1>1 DEF Where, Location
  <2>3. Named(Where(d))' = Named(Where(d)) /\ Chosen(Where(d))' = Chosen(Where(d))
    BY <1>1, <2>2 DEF Named, Chosen
  <2>. QED  BY <1>1, <2>1, <2>3 DEF Ready, Found, First
<1>13. SoFar'
  BY <1>1, <1>5 DEF Facts, SoFar
<1>. QED  BY <1>9, <1>10, <1>11, <1>12, <1>13 DEF Facts

LEMMA EditFacts ==
  ASSUME Facts, Operator
  PROVE  Facts'
<1>1. \E kind : Edit(kind)
  BY DEF Operator, APICreateBackend, APIUpdateBackend, APIDeleteBackend
<1>2. /\ UNCHANGED <<docs, svc, late, stores, at, req, seen, client, body>>
      /\ solo' = {} /\ calm' = {} /\ truth'.is = "unknown" /\ safe' = FALSE
  BY <1>1 DEF Edit, docVars, Unknown
<1>3. Solitude' /\ Truthful'
  BY <1>2, UnknownAgrees DEF Solitude, Truthful
<1>4. Calm' /\ Prepared'
  BY <1>2 DEF Calm, PutsOnly, Prepared, Steady
<1>5. SoFar'
  BY <1>2 DEF Facts, SoFar
<1>. QED  BY <1>3, <1>4, <1>5 DEF Facts

\* Nothing happens but that a download gets on.
LEMMA SameFacts ==
  ASSUME Shape, Facts, SoFar',
         UNCHANGED <<docs, svc, late, backends, stores, at, req, seen, client, solo, calm, truth, safe>>
  PROVE  Facts'
<1>1. Active' = Active /\ (PutsOnly' <=> PutsOnly) /\ \A d \in Callers : Busy(d)' <=> Busy(d)
  BY DEF Active, Busy, PutsOnly
<1>2. backends \in Seq(Backend)
  BY SomeTypes
<1>3. Solitude'
  BY <1>1 DEF Facts, Solitude
<1>4. Truthful'
  <2>1. Agrees(truth) => Agrees(truth)'
    BY TruthKept
  <2>2. \A d : Fitting(d) => Fitting(d)'
    BY WritingStays
  <2>. QED  BY <1>1, <2>1, <2>2 DEF Facts, Truthful
<1>5. Calm'
  <2>1. \A x : Sound(x) => Sound(x)'
    BY <1>2, SoundKept
  <2>2. \A d : Sound(svc[d]) => Sound(svc[d])'
    BY <1>2, SoundStays
  <2>3. GoodFirst => GoodFirst'
    BY <1>2, GoodFirstKept
  <2>. QED  BY <1>1, <2>1, <2>2, <2>3 DEF Facts, Calm, Found
<1>6. Prepared'
  <2>. SUFFICES ASSUME NEW d \in Callers, Steady(d)' PROVE Ready(d)'
    BY DEF Prepared
  <2>1. Ready(d)
    BY <1>1 DEF Steady, Facts, Prepared
  <2>2. Where(d)' = Where(d)
    BY DEF Where, Location
  <2>3. Named(Where(d))' = Named(Where(d)) /\ Chosen(Where(d))' = Chosen(Where(d))
    BY <2>2 DEF Named, Chosen
  <2>. QED  BY <2>1, <2>3 DEF Ready, Found, First
<1>. QED  BY <1>3, <1>4, <1>5, <1>6 DEF Facts

LEMMA StutterFacts ==
  ASSUME Shape, Facts, UNCHANGED gatewayVars
  PROVE  Facts'
<1>1. UNCHANGED <<docs, svc, late, backends, stores, at, req, seen, client, body, solo, calm, truth, safe>>
  BY DEF gatewayVars, docVars, serviceVars, requestVars, historyVars
<1>2. SoFar'
  BY <1>1 DEF Facts, SoFar
<1>. QED  BY <1>1, <1>2, SameFacts

LEMMA FirstFacts ==
  ASSUME GatewayBegun
  PROVE  Facts
<1>1. PICK w \in Worlds \cup {NoWorld} : GatewayStart(w)
  BY DEF GatewayBegun
<1>2. /\ solo = {} /\ calm = {} /\ safe = FALSE /\ truth.is = "unknown" /\ late = {} /\ body = [c \in Callers |-> <<>>]
  BY <1>1 DEF GatewayStart, InitDocs, Unknown
<1>3. Solitude /\ Prepared /\ SoFar /\ Calm
  BY <1>2 DEF Solitude, Prepared, Steady, SoFar, Calm, PutsOnly
<1>4. Truthful
  BY <1>2 DEF Truthful, Agrees, Fits
<1>. QED  BY <1>3, <1>4 DEF Facts

LEMMA StartFacts ==
  ASSUME Shape, Facts, NEW c \in Callers, NEW op \in Routed \ {"none"}, NEW q \in Requests(op), Start(c, q)
  PROVE  Facts'
<1>1. /\ q \in Request /\ q.op = op /\ op \in Ops
  BY RoutedOps, RequestIs
<1>2. /\ FirstStep(q) \in {"bucket", "md", "client", "record"}
      /\ FirstStep(q) = "record" => op \in BucketOps
      /\ FirstStep(q) = "client" => op = "bput" \/ (op \in {"put", "init"} /\ q.class # "")
  BY <1>1 DEF FirstStep, BucketPut, BucketDelete, BucketOps, Ops
<1>3. /\ at[c] = "idle" /\ c \notin solo /\ c \notin calm /\ c \notin Active
      /\ UNCHANGED <<docs, late, backends, stores, seen, client, truth>>
      /\ at'[c] = FirstStep(q) /\ req'[c] = q /\ body'[c] = <<>>
      /\ \A d \in Callers \ {c} : at'[d] = at[d] /\ req'[d] = req[d] /\ svc'[d] = svc[d] /\ body'[d] = body[d]
  BY <1>1 DEF Start, Begun, serviceVars, Shape, Standing, Stands, GatewayTypeOK, HistoryTypes, Active, Busy
<1>4. /\ solo' = (IF op = "get" THEN solo ELSE {}) \cup (IF Active = {} /\ late = {} THEN {c} ELSE {})
      /\ calm' = (IF op \notin {"put", "get"} THEN {}
                  ELSE IF op = "put" /\ late = {} /\ Active \subseteq calm THEN calm \cup {c} ELSE calm)
      /\ safe' = (safe /\ op \in {"put", "get"})
  BY <1>1, <1>3 DEF Start, Begun
<1>5. /\ Active' = IF op = "get" THEN Active ELSE Active \cup {c}
      /\ \A d \in Callers \ {c} : Busy(d)' <=> Busy(d)
  <2>1. \A d \in Callers \ {c} : Busy(d)' <=> Busy(d)
    BY <1>3 DEF Busy
  <2>2. Busy(c)' <=> op # "get"
    BY <1>1, <1>2, <1>3 DEF Busy, Modifying
  <2>3. \A d \in Callers : d \in Active' <=> IF d = c THEN op # "get" ELSE d \in Active
    BY <2>1, <2>2 DEF Active
  <2>4. Active \subseteq Callers /\ Active' \subseteq Callers
    BY DEF Active
  <2>. QED  BY <1>3, <2>1, <2>3, <2>4
<1>6. \A d \in solo' \ {c} : d \in solo /\ op = "get"
  BY <1>4
<1>7. backends \in Seq(Backend)
  BY SomeTypes
<1>8. Solitude'
  <2>1. \A d \in solo' : late = {}
    BY <1>4 DEF Facts, Solitude
  <2>2. \A d \in solo' : Active' \subseteq {d}
    BY <1>4, <1>5 DEF Facts, Solitude
  <2>. QED  BY <1>3, <2>1, <2>2 DEF Facts, Solitude
<1>9. Truthful'
  <2>1. Agrees(truth) => Agrees(truth)'
    BY <1>3, TruthKept
  <2>2. c \in solo' => Agrees(truth)
    BY <1>3, <1>4 DEF Facts, Truthful
  <2>3. \A d \in Callers \ {c} : Fitting(d) => Fitting(d)'
    BY <1>3, WritingStays
  <2>4. \A d \in solo' \ {c} : d \in solo /\ d \in Callers \ {c}
    BY <1>6 DEF Shape, HistoryTypes
  <2>5. Active' = {} => Agrees(truth)'
    BY <1>3, <1>5, <2>1 DEF Facts, Truthful
  <2>6. ASSUME NEW d \in solo'
        PROVE  /\ at'[d] \in {"bucket", "md", "client", "store"} => Agrees(truth)'
               /\ at'[d] = "record" /\ req'[d].op \in BucketOps => Agrees(truth)'
               /\ at'[d] = "record" /\ req'[d].op \notin BucketOps => Fitting(d)'
    <3>1. CASE d = c
      BY <1>1, <1>2, <1>3, <2>1, <2>2, <2>6, <3>1
    <3>2. CASE d # c
      BY <1>3, <2>1, <2>3, <2>4, <2>6, <3>2 DEF Facts, Truthful
    <3>. QED  BY <3>1, <3>2
  <2>. QED  BY <2>5, <2>6 DEF Truthful
<1>10. Calm'
  <2>. SUFFICES ASSUME PutsOnly' PROVE
         /\ \A d \in Active' : req'[d].op = "put"
         /\ \A x \in late' : Sound(x)'
         /\ \A d \in Active' : at'[d] = "record" => svc'[d].at = "error" \/ Sound(svc[d])'
         /\ \A d \in Active' : at'[d] = "record" /\ svc'[d].at = "insert" => ~Found("object")' \/ GoodFirst'
         /\ \A d \in Active' : at'[d] = "record" /\ svc'[d].at = "ok" => GoodFirst'
         /\ safe' => GoodFirst'
    BY DEF Calm
  <2>1. op \in {"put", "get"} /\ at'[c] # "record" /\ safe' = safe
    <3>1. op \in {"put", "get"}
      BY <1>4 DEF PutsOnly
    <3>2. safe \in BOOLEAN
      BY DEF Shape, HistoryTypes
    <3>3. safe' = safe
      BY <1>4, <3>1, <3>2
    <3>4. FirstStep(q) # "record"
      BY <1>2, <3>1 DEF BucketOps
    <3>. QED  BY <1>3, <3>1, <3>3, <3>4
  <2>2. Active' \subseteq Active \cup {c} /\ (c \in Active' => op = "put") /\ Active \subseteq Callers \ {c}
    BY <1>3, <1>5, <2>1 DEF Active
  <2>3. CASE PutsOnly
    <3>1. \A x : Sound(x) => Sound(x)'
      BY <1>3, <1>7, SoundKept
    <3>2. \A d \in Callers \ {c} : Sound(svc[d]) => Sound(svc[d])'
      BY <1>3, <1>7, SoundStays
    <3>3. GoodFirst => GoodFirst'
      BY <1>3, <1>7, GoodFirstKept
    <3>. QED  BY <1>1, <1>3, <2>1, <2>2, <2>3, <3>1, <3>2, <3>3 DEF Facts, Calm, Found
  <2>4. CASE ~PutsOnly
    <3>1. calm = {} /\ ~safe /\ late = {} /\ Active = {} /\ op = "put"
      BY <1>4, <2>1, <2>4 DEF PutsOnly
    <3>. QED  BY <1>1, <1>3, <2>1, <2>2, <3>1
  <2>. QED  BY <2>3, <2>4
<1>11. Prepared'
  <2>. SUFFICES ASSUME NEW d \in Callers, Steady(d)' PROVE Ready(d)'
    BY DEF Prepared
  <2>1. CASE d = c
    BY <1>1, <1>2, <1>3, <2>1 DEF Ready, ReadingOps
  <2>2. CASE d # c
    <3>1. Steady(d)
      <4>1. d \in solo' => d \in solo
        BY <1>6, <2>2
      <4>2. ASSUME PutsOnly', Busy(d) PROVE PutsOnly
        <5>1. d \in Active
          BY <4>2 DEF Active
        <5>2. safe' => safe
          BY <1>4
        <5>3. calm' # {} => calm # {}
          BY <1>4, <5>1
        <5>. QED  BY <4>2, <5>2, <5>3 DEF PutsOnly
      <4>. QED  BY <1>5, <2>2, <4>1, <4>2 DEF Steady
    <3>2. Ready(d) /\ at'[d] = at[d] /\ req'[d] = req[d]
      BY <1>3, <2>2, <3>1 DEF Facts, Prepared
    <3>3. Where(d)' = Where(d)
      BY <1>3, <3>2 DEF Where, Location
    <3>4. Named(Where(d))' = Named(Where(d)) /\ Chosen(Where(d))' = Chosen(Where(d))
      BY <1>3, <3>3 DEF Named, Chosen
    <3>. QED  BY <1>3, <3>2, <3>4 DEF Ready, Found, First
  <2>. QED  BY <2>1, <2>2
<1>12. SoFar'
  <2>1. at'[c] # "store"
    BY <1>2, <1>3
  <2>. QED  BY <1>3, <1>6, <2>1 DEF Facts, SoFar
<1>. QED  BY <1>8, <1>9, <1>10, <1>11, <1>12 DEF Facts

-----------------------------------------------------------------------------
(* What a store has acknowledged fits what will be written and answered *)

\* What a store and a document must be for an answer, the store apart.
Suits(t, doc, n, kind) ==
  /\ t.is \in {"there", "gone", "upload", "hidden", "unknown"}
  /\ t.is = "there" => Shown(doc) /\ doc.size = t.size /\ n.object = t.content
  /\ t.is = "gone" => ~Shown(doc) /\ n.object = NoObject
  /\ t.is = "upload" =>
       /\ doc.init = "0" /\ ~doc.deleted /\ doc.size = t.size
       /\ \A p \in Parted(t) : n.parts[IF kind = "azure" THEN 0 ELSE t.upload][p] = t.parts[p]
       /\ kind # "azure" /\ t.upload = 0 => Parted(t) = {}
  /\ t.is = "hidden" => ~Shown(doc)

LEMMA FitsNext ==
  ASSUME NEW t, NEW doc, NEW b, NEW n, Suits(t, doc, n, Kind(b)),
         Named(doc.backend)' # {}, Chosen(doc.backend)' = b, stores'[b.id] = n
  PROVE  Fits(t, doc)'
<1>1. Leads(doc)' /\ StoreOf(doc)' = n
  BY DEF Leads, StoreOf
<1>2. Blocks(doc, t)' = IF Kind(b) = "azure" THEN 0 ELSE t.upload
  BY DEF Blocks, Kind, Adapter
<1>3. Kind(Chosen(doc.backend))' = Kind(b)
  BY DEF Kind, Adapter
<1>4. t.is = "upload" => HasParts(t, doc)'
  BY <1>1, <1>2, <1>3 DEF HasParts, Suits, Parted
<1>5. Shown(doc)' <=> Shown(doc)
  BY DEF Shown
<1>. QED  BY <1>1, <1>4, <1>5 DEF Fits, Suits

LEMMA FitsNow ==
  ASSUME NEW t, NEW doc, NEW b, b = Chosen(doc.backend), t.is # "unknown", t.is # "hidden", Fits(t, doc),
         t.is \in {"there", "gone", "upload", "hidden", "unknown"}
  PROVE  Suits(t, doc, stores[b.id], Kind(b)) /\ Named(doc.backend) # {}
BY DEF Suits, Fits, HasParts, Leads, StoreOf, Blocks

LEMMA SuitsPart ==
  ASSUME NEW t, NEW doc \in Doc, NEW s \in Store, NEW kind, NEW u \in UploadIds, NEW p \in PartNumbers,
         NEW r \in Nat \ {0}, t \in Answer, t.is = "upload", t.upload \in {u, 0}, t.parts[p] = 0,
         Suits(t, doc, s, kind), kind = "azure" \/ u # 0, NEW q, NEW add \in Nat, add = Declared(q, 1),
         NEW n, n = Staged(s, IF kind = "azure" THEN 0 ELSE u, p, r),
         NEW new, new.is = "upload", new.upload = u, new.size = t.size + add,
         new.parts[p] = r, \A x \in PartNumbers \ {p} : new.parts[x] = t.parts[x]
  PROVE  Suits(new, Longer(doc, q), n, kind)
<1>. DEFINE v == IF kind = "azure" THEN 0 ELSE u
<1>2. Parted(new) = Parted(t) \cup {p} /\ p \notin Parted(t) /\ Parted(t) \subseteq PartNumbers
  BY DEF Parted
<1>3. doc.size = t.size /\ doc.init = "0" /\ ~doc.deleted
  BY DEF Suits
<1>4. /\ Longer(doc, q).init = "0" /\ ~Longer(doc, q).deleted /\ Longer(doc, q).size = new.size
  BY <1>3 DEF Longer, Doc
<1>5. v \in UploadIds
  BY DatastoresAssumption DEF UploadIds
<1>6. n.parts[v][p] = r /\ \A x \in PartNumbers \ {p} : n.parts[v][x] = s.parts[v][x]
  BY <1>5 DEF Staged, Store
<1>7. \A x \in Parted(t) : s.parts[v][x] = t.parts[x]
  <2>1. \A x \in Parted(t) : s.parts[IF kind = "azure" THEN 0 ELSE t.upload][x] = t.parts[x]
    BY DEF Suits
  <2>2. kind # "azure" /\ t.upload # u => Parted(t) = {}
    BY DEF Suits
  <2>. QED  BY <2>1, <2>2
<1>8. \A x \in Parted(new) : n.parts[v][x] = new.parts[x]
  BY <1>2, <1>6, <1>7
<1>9. kind # "azure" => new.upload # 0
  OBVIOUS
<1>. HIDE DEF v
<1>10. \A x \in Parted(new) : n.parts[IF kind = "azure" THEN 0 ELSE new.upload][x] = new.parts[x]
  BY <1>8 DEF v
<1>11. Suits(new, Longer(doc, q), n, kind)
  BY <1>4, <1>9, <1>10 DEF Suits
<1>. QED  BY <1>11

LEMMA SuitsComplete ==
  ASSUME NEW t, NEW doc \in Doc, NEW s \in Store, NEW kind, NEW u \in UploadIds, NEW asked \in PartLists,
         t \in Answer, t.is = "upload", t.upload = u, Parted(t) = {asked[i] : i \in DOMAIN asked},
         Suits(t, doc, s, kind),
         NEW n, n.object = Together(s, IF kind = "azure" THEN 0 ELSE u, asked)
  PROVE  Suits(There([i \in DOMAIN asked |-> t.parts[asked[i]]], t.size), [doc EXCEPT !.init = "1"], n, kind)
<1>. DEFINE content == [i \in DOMAIN asked |-> t.parts[asked[i]]]
            v == IF kind = "azure" THEN 0 ELSE u
            done == [doc EXCEPT !.init = "1"]
<1>1. /\ There(content, t.size).is = "there" /\ There(content, t.size).content = content
      /\ There(content, t.size).size = t.size
  BY DEF There, Unknown
<1>2. doc.size = t.size
  BY DEF Suits
<1>3. \A i \in DOMAIN asked : s.parts[v][asked[i]] = t.parts[asked[i]]
  BY DEF Suits
<1>4. n.object = content
  BY <1>3 DEF Together
<1>5. done.init = "1" /\ done.deleted = FALSE /\ done.size = doc.size
  BY DEF Suits, Doc
<1>. HIDE DEF content, done
<1>6. Suits(There(content, t.size), done, n, kind)
  BY <1>1, <1>2, <1>4, <1>5 DEF Suits, Shown
<1>. QED  BY <1>6 DEF content, done

Hidden == [Unknown EXCEPT !.is = "hidden"]
Starting == [Unknown EXCEPT !.is = "upload"]

LEMMA SuitsOthers ==
  ASSUME NEW kind, NEW n
  PROVE  /\ \A doc : Suits(Unknown, doc, n, kind)
         /\ \A r, location, size : n.object = <<r, r>> => Suits(There(<<r, r>>, size), NewDoc(location, "", size), n, kind)
         /\ \A doc \in Doc : n.object = NoObject => Suits(Gone, Marked(doc), n, kind)
         /\ \A doc \in Doc : Suits(Hidden, Marked(doc), n, kind)
         /\ \A location : Suits(Starting, NewDoc(location, "0", 0), n, kind)
<1>1. \A doc \in Doc : Marked(doc).deleted = TRUE
  BY DEF Marked, Doc
<1>2. Unknown.is = "unknown" /\ Gone.is = "gone"
  BY DEF Unknown, Gone
<1>3. \A r, size : LET t == There(<<r, r>>, size) IN t.is = "there" /\ t.content = <<r, r>> /\ t.size = size
  BY DEF There, Unknown
<1>4. Hidden.is = "hidden"
  BY DEF Unknown, Hidden
<1>. DEFINE begun == Starting
<1>5. begun.is = "upload" /\ Parted(begun) = {} /\ begun.parts = NoParts /\ begun.size = 0
  BY DEF Unknown, Parted, NoParts, Starting
<1>. HIDE DEF begun
<1>6. \A location, size : LET doc == NewDoc(location, "", size) IN doc.init = "" /\ doc.deleted = FALSE /\ doc.size = size
  BY DEF NewDoc
<1>7. \A location : NewDoc(location, "0", 0).init = "0" /\ NewDoc(location, "0", 0).deleted = FALSE /\ NewDoc(location, "0", 0).size = 0
  BY DEF NewDoc
<1>8. \A location : Suits(begun, NewDoc(location, "0", 0), n, kind)
  BY <1>5, <1>7 DEF Suits
<1>9. ASSUME NEW r, NEW location, NEW size, n.object = <<r, r>>
      PROVE  Suits(There(<<r, r>>, size), NewDoc(location, "", size), n, kind)
  <2>1. PICK t, doc : t = There(<<r, r>>, size) /\ doc = NewDoc(location, "", size)
    OBVIOUS
  <2>2. t.is = "there" /\ t.content = <<r, r>> /\ t.size = size
    BY <1>3, <2>1
  <2>3. doc.init = "" /\ doc.deleted = FALSE /\ doc.size = size
    BY <1>6, <2>1
  <2>4. Suits(t, doc, n, kind)
    BY <1>9, <2>2, <2>3 DEF Suits, Shown
  <2>. QED  BY <2>1, <2>4
<1>10. \A doc \in Doc : Suits(Hidden, Marked(doc), n, kind)
  BY <1>1, <1>4 DEF Suits, Shown
<1>11. \A doc \in Doc : n.object = NoObject => Suits(Gone, Marked(doc), n, kind)
  BY <1>1, <1>2 DEF Suits, Shown
<1>12. \A doc : Suits(Unknown, doc, n, kind)
  BY <1>2 DEF Suits
<1>. QED  BY <1>8, <1>9, <1>10, <1>11, <1>12 DEF begun

LEMMA WrittenSuits ==
  ASSUME Shape, Facts, NEW c \in Callers, at[c] = "store", req[c].op \in Using, c \in solo,
         NEW n, Acknowledged(c, stores[Id(c)], n)
  PROVE  /\ Named(Where(c)) # {} /\ client[c] = Chosen(Where(c))
         /\ req[c].op \notin {"delete", "abort"} =>
              /\ WriteDoc(c).backend = Where(c)
              /\ Suits(Promised(req[c]), WriteDoc(c), n, Kind(client[c]))
         /\ req[c].op \in {"delete", "abort"} =>
              /\ Found("object") /\ Marked(First("object")).backend = Where(c)
              /\ Suits(Promised(req[c]), Marked(First("object")), n, Kind(client[c]))
<1>. DEFINE q == req[c]
            s == stores[Id(c)]
            kind == Kind(client[c])
<1>1. /\ q \in Request /\ q.r > 0 /\ s \in Store /\ seen[c] \in Doc /\ truth \in Answer
      /\ q.op = "complete" => q.asked \in PartLists
  BY SomeTypes DEF Shape, GatewayTypeOK, HistoryTypes, Standing, Stands
<1>2. Ready(c) /\ Agrees(truth)
  BY DEF Facts, Prepared, Steady, Truthful
<1>3. Named(Where(c)) # {} /\ client[c] = Chosen(Where(c))
  BY <1>2 DEF Ready, Using
<1>4. q.op \in ReadingOps => Found("object") /\ seen[c] = First("object") /\ Where(c) = seen[c].backend
  BY <1>2 DEF Ready, Where, ReadingOps
<1>5. q.op \in {"put", "init"} => Where(c) = Location(c)
  BY DEF Where
<1>6. CASE q.op = "put"
  <2>1. WriteDoc(c) = NewDoc(Location(c), "", Declared(req[c], 2)) /\ WriteDoc(c).backend = Where(c)
    BY <1>5, <1>6 DEF WriteDoc, NewDoc
  <2>2. Promised(q) = IF q.whole THEN There(<<q.r, q.r>>, Declared(q, 2)) ELSE Unknown
    BY <1>6 DEF Promised
  <2>3. q.whole => n.object = <<q.r, q.r>>
    BY <1>6 DEF Acknowledged
  <2>. QED  BY <1>3, <1>6, <2>1, <2>2, <2>3, SuitsOthers
<1>7. CASE q.op = "init"
  <2>1. WriteDoc(c) = NewDoc(Location(c), "0", 0) /\ WriteDoc(c).backend = Where(c)
    BY <1>5, <1>7 DEF WriteDoc, NewDoc
  <2>2. Promised(q) = Starting
    BY <1>7 DEF Promised, Starting
  <2>. QED  BY <1>3, <1>7, <2>1, <2>2, SuitsOthers
<1>8. CASE q.op = "delete"
  <2>1. Promised(q) = Gone /\ n.object = NoObject
    BY <1>8 DEF Promised, Acknowledged
  <2>2. Marked(First("object")).backend = Where(c)
    BY <1>1, <1>4, <1>8 DEF Marked, ReadingOps, Doc
  <2>. QED  BY <1>1, <1>3, <1>4, <1>8, <2>1, <2>2, SuitsOthers DEF ReadingOps
<1>9. CASE q.op = "abort"
  <2>1. Promised(q) = Hidden
    BY <1>9 DEF Promised, Hidden
  <2>2. Marked(First("object")).backend = Where(c)
    BY <1>1, <1>4, <1>9 DEF Marked, ReadingOps, Doc
  <2>. QED  BY <1>1, <1>3, <1>4, <1>9, <2>1, <2>2, SuitsOthers DEF ReadingOps
<1>10. ASSUME truth.is = "upload", q.op \in {"part", "complete"} PROVE Suits(truth, seen[c], s, kind)
  <2>1. Fits(truth, seen[c]) /\ client[c] = Chosen(seen[c].backend)
    BY <1>2, <1>3, <1>4, <1>10 DEF Agrees, ReadingOps
  <2>. QED  BY <1>10, <2>1, FitsNow DEF Id
<1>11. CASE q.op = "part"
  <2>1. WriteDoc(c) = Longer(seen[c], req[c]) /\ WriteDoc(c).backend = Where(c)
    BY <1>1, <1>4, <1>11 DEF WriteDoc, Longer, ReadingOps, Doc
  <2>2. CASE truth.is = "upload" /\ truth.upload \in {q.upload, 0} /\ truth.parts[q.part] = 0
    <3>1. Promised(q) = [truth EXCEPT !.upload = q.upload, !.parts[q.part] = q.r, !.size = @ + Declared(q, 1)]
      BY <1>11, <2>2 DEF Promised
    <3>2. n = Staged(s, IF kind = "azure" THEN 0 ELSE q.upload, q.part, q.r) /\ (kind = "azure" \/ q.upload \in s.open)
      BY <1>11 DEF Acknowledged, Slot
    <3>3. kind = "azure" \/ q.upload # 0
      <4>1. Id(c) \in Backends
        BY SomeTypes DEF Backend, Id
      <4>2. 0 \notin s.open
        BY <4>1 DEF Shape, OpenIds
      <4>. QED  BY <3>2, <4>2
    <3>4. Suits(truth, seen[c], s, kind)
      BY <1>10, <1>11, <2>2
    <3>5. q.upload \in UploadIds /\ q.part \in PartNumbers /\ q.r \in Nat \ {0}
      BY <1>1 DEF Request
    <3>6. PICK add \in Nat : add = Declared(q, 1)
      BY DEF Declared
    <3>7. WriteDoc(c) = Longer(seen[c], q)
      BY <2>1
    <3>. HIDE DEF q, s, kind
    <3>8. PICK new : new = [truth EXCEPT !.upload = q.upload, !.parts[q.part] = q.r, !.size = @ + Declared(q, 1)]
      OBVIOUS
    <3>9. PICK u \in UploadIds, x \in PartNumbers, r \in Nat \ {0} : u = q.upload /\ x = q.part /\ r = q.r
      BY <3>5
    <3>10. new = [truth EXCEPT !.upload = u, !.parts[x] = r, !.size = @ + Declared(q, 1)]
      BY <3>8, <3>9
    <3>11. /\ n = Staged(s, IF kind = "azure" THEN 0 ELSE u, x, r) /\ (kind = "azure" \/ u # 0)
           /\ truth.upload \in {u, 0} /\ truth.parts[x] = 0
      BY <2>2, <3>2, <3>3, <3>9
    <3>12. Suits(new, Longer(seen[c], q), n, kind)
      <4>1. /\ new.is = "upload" /\ new.upload = u /\ new.size = truth.size + add
            /\ new.parts[x] = r /\ \A y \in PartNumbers \ {x} : new.parts[y] = truth.parts[y]
        BY <1>1, <2>2, <3>6, <3>10 DEF Answer
      <4>. QED  BY <1>1, <2>2, <3>4, <3>6, <3>11, <4>1, SuitsPart
    <3>13. Promised(q) = new
      BY <3>1, <3>8
    <3>. QED  BY <1>3, <1>11, <2>1, <3>7, <3>12, <3>13 DEF q, kind
  <2>3. CASE ~(truth.is = "upload" /\ truth.upload \in {q.upload, 0} /\ truth.parts[q.part] = 0)
    <3>1. Promised(q) = Unknown
      BY <1>11, <2>3 DEF Promised
    <3>. QED  BY <1>3, <1>11, <2>1, <3>1, SuitsOthers
  <2>. QED  BY <2>2, <2>3
<1>12. CASE q.op = "complete"
  <2>1. WriteDoc(c) = [seen[c] EXCEPT !.init = "1"] /\ WriteDoc(c).backend = Where(c)
    BY <1>1, <1>4, <1>12 DEF WriteDoc, ReadingOps, Doc
  <2>. DEFINE known == /\ truth.is = "upload" /\ truth.upload = q.upload
                       /\ Acked = {q.asked[i] : i \in DOMAIN q.asked}
  <2>2. CASE known
    <3>1. Promised(q) = There([i \in DOMAIN q.asked |-> truth.parts[q.asked[i]]], truth.size)
      BY <1>12, <2>2 DEF Promised
    <3>2. n.object = Together(s, IF kind = "azure" THEN 0 ELSE q.upload, q.asked)
      BY <1>12 DEF Acknowledged, Slot
    <3>3. Suits(truth, seen[c], s, kind)
      BY <1>10, <1>12, <2>2
    <3>4. q.upload \in UploadIds /\ q.asked \in PartLists
      BY <1>1, <1>12 DEF Request
    <3>5. Parted(truth) = {q.asked[i] : i \in DOMAIN q.asked}
      BY <2>2 DEF Parted, Acked
    <3>. HIDE DEF q, s, kind
    <3>6. Suits(There([i \in DOMAIN q.asked |-> truth.parts[q.asked[i]]], truth.size), [seen[c] EXCEPT !.init = "1"], n, kind)
      BY <1>1, <2>2, <3>2, <3>3, <3>4, <3>5, SuitsComplete
    <3>. QED  BY <1>3, <1>12, <2>1, <3>1, <3>6 DEF q, kind
  <2>3. CASE ~known
    <3>1. Promised(q) = Unknown
      BY <1>12, <2>3 DEF Promised
    <3>. QED  BY <1>3, <1>12, <2>1, <3>1, SuitsOthers
  <2>. QED  BY <2>2, <2>3
<1>. QED  BY <1>6, <1>7, <1>8, <1>9, <1>11, <1>12 DEF Using

LEMMA WritesWrite ==
  ASSUME Shape, Facts, NEW c \in Callers, at[c] = "store", req[c].op \in Using, c \in solo,
         NEW o, Stores(c, o), stores'[Id(c)] = o.store, Writes(c), Acknowledged(c, stores[Id(c)], o.store),
         UNCHANGED <<docs, backends>>
  PROVE  Fitting(c)'
<1>1. PICK t, q, b, n, m, name :
        /\ t = Promised(req[c]) /\ q = req[c] /\ b = client[c] /\ n = o.store
        /\ m = Calling(WriteOp(c), "object", WriteDoc(c)) /\ name = Where(c)
  OBVIOUS
<1>2. /\ Named(name) # {} /\ b = Chosen(name)
      /\ q.op \notin {"delete", "abort"} =>
           WriteDoc(c).backend = name /\ Suits(t, WriteDoc(c), n, Kind(b))
      /\ q.op \in {"delete", "abort"} =>
           /\ docs["object"] # <<>> /\ Marked(docs["object"][1]).backend = name
           /\ Suits(t, Marked(docs["object"][1]), n, Kind(b))
  BY <1>1, WrittenSuits DEF Found, First
<1>3. Named(name)' # {} /\ Chosen(name)' = b /\ stores'[b.id] = n
  BY <1>1, <1>2 DEF Named, Chosen, Id
<1>4. \A doc : doc.backend = name /\ Suits(t, doc, n, Kind(b)) => Fits(t, doc)'
  BY <1>3, FitsNext
<1>5. svc'[c] = m /\ req'[c] = q /\ Promised(req[c])' = t
  BY <1>1 DEF Writes, Shape, GatewayTypeOK, Promised, Acked, Declared
<1>6. /\ m.op = (IF q.op \in {"delete", "abort"} THEN "delete" ELSE "create")
      /\ m.at = "look" /\ m.doc = WriteDoc(c)
  BY <1>1 DEF Calling, WriteOp
<1>7. m.op = "create" => Fits(t, m.doc)'
  BY <1>2, <1>4, <1>6
<1>8. m.op = "delete" =>
        docs'["object"] # <<>> /\ \A doc : doc = Marked(docs'["object"][1]) => Fits(t, doc)'
  BY <1>2, <1>4, <1>6
<1>. QED  BY <1>5, <1>6, <1>7, <1>8, WritingIs

\* When the process ends nothing is under way any more but what the s3 service
\* does already, and nothing is known.
LEMMA FatalFacts ==
  ASSUME Shape, Facts, Fatal, UNCHANGED <<docs, backends>>, safe => stores' = stores
  PROVE  Facts'
<1>1. /\ solo' = {} /\ calm' = {} /\ truth'.is = "unknown" /\ safe' = safe
      /\ \A d \in Callers : at'[d] = "idle"
  BY DEF Fatal, Unknown
<1>2. Active' = {} /\ \A d \in Callers : ~Busy(d)'
  BY <1>1 DEF Active, Busy
<1>3. Solitude'
  BY <1>1 DEF Solitude
<1>4. Truthful'
  BY <1>1, UnknownAgrees DEF Truthful
<1>5. Calm'
  <2>. SUFFICES ASSUME safe, PutsOnly PROVE (\A call \in late' : Sound(call)') /\ GoodFirst'
    BY <1>1, <1>2 DEF Calm, PutsOnly
  <2>1. /\ backends \in Seq(Backend) /\ backends' = backends /\ docs'["object"] = docs["object"]
        /\ \A id \in Backends : stores[id].object # NoObject => stores'[id].object # NoObject
    BY SomeTypes
  <2>2. GoodFirst'
    <3>1. GoodFirst
      BY DEF Facts, Calm
    <3>. QED  BY <2>1, <3>1, GoodFirstKept
  <2>3. ASSUME NEW call \in late' PROVE Sound(call)
    <3>1. CASE call \in late
      BY <3>1 DEF Facts, Calm
    <3>2. CASE call \notin late
      <4>1. PICK d \in Callers : call = svc[d] /\ Running(call)
        BY <2>3, <3>2 DEF Fatal
      <4>2. svc[d] # NoCall /\ svc[d].at # "error"
        BY <4>1 DEF Running, CallStep
      <4>3. at[d] = "record" /\ d \in Active
        BY <4>2, CallTypes, AtWork
      <4>. QED  BY <4>1, <4>2, <4>3 DEF Facts, Calm
    <3>. QED  BY <3>1, <3>2
  <2>. QED  BY <2>1, <2>2, <2>3, SoundKept
<1>6. Prepared'
  BY <1>1, <1>2 DEF Prepared, Steady
<1>7. SoFar'
  BY <1>1 DEF SoFar
<1>. QED  BY <1>3, <1>4, <1>5, <1>6, <1>7 DEF Facts

LEMMA StoreCallFacts ==
  ASSUME Shape, Facts, NEW c \in Callers, StoreCall(c)
  PROVE  Facts'
<1>1. at[c] = "store" /\ req[c].op \in Using /\ UNCHANGED <<docs, backends>>
  BY StoreSteps
<1>2. PICK o : Ends_Or_Writes(c, o)
  BY StoreSteps
<1>3. /\ Proper(o, stores[Id(c)]) /\ (o.fault => hiccups < MaxHiccups) /\ Stores(c, o)
      /\ req[c].op = "put" => o.store.object \in {stores[Id(c)].object, <<req[c].r, req[c].r>>, <<req[c].r>>}
  BY <1>2 DEF Ends_Or_Writes
<1>4. stores'[Id(c)] = o.store /\ \A id \in Backends : id # Id(c) => stores'[id] = stores[id]
  BY <1>1, <1>3, StoresShape
<1>5. /\ c \in Active /\ solo \subseteq {c} /\ req[c].op # "get" /\ req[c].op \notin BucketOps
      /\ backends \in Seq(Backend)
  BY <1>1, AtWork, BusyAlone, SomeTypes DEF Facts, Using, BucketOps
<1>6. PutsOnly => req[c].op = "put"
  BY <1>5 DEF Facts, Calm
<1>7. <<req[c].r, req[c].r>> # NoObject /\ <<req[c].r>> # NoObject
  BY DEF NoObject
<1>8. PutsOnly => \A id \in Backends : stores[id].object # NoObject => stores'[id].object # NoObject
  BY <1>3, <1>4, <1>6, <1>7
<1>9. CASE o.answer # "ok" /\ Finish(c, o.answer, <<>>) /\ UNCHANGED <<late, given>>
  <2>1. (c \in solo) \in BOOLEAN /\ at[c] # "idle" /\ Stop(c, o.answer, <<>>, c \in solo)
    BY <1>1, <1>9 DEF Finish
  <2>2. stores' = stores \/ (o.answer # "ok" /\ req[c].op # "get")
    BY <1>5, <1>9
  <2>3. UNCHANGED <<docs, late, backends>>
    BY <1>1, <1>9
  <2>. QED  BY <1>8, <1>9, <2>1, <2>2, <2>3, StopFacts
<1>10. CASE req[c].op = "init" /\ Fatal /\ UNCHANGED given
  <2>1. ~safe
    BY <1>6, <1>10 DEF PutsOnly
  <2>. QED  BY <1>1, <1>10, <2>1, FatalFacts
<1>11. CASE Writes(c) /\ o.answer = "ok" /\ Acknowledged(c, stores[Id(c)], o.store)
  <2>1. /\ Goes(c, "record")
        /\ UNCHANGED <<docs, late, backends, req, body, solo, calm, truth, safe>>
        /\ \A d \in Callers \ {c} : svc'[d] = svc[d] /\ seen'[d] = seen[d] /\ client'[d] = client[d]
    BY <1>1, <1>11 DEF Writes, Shape, GatewayTypeOK
  <2>2. c \in solo => Fitting(c)'
    BY <1>1, <1>3, <1>4, <1>11, WritesWrite
  <2>3. ASSUME PutsOnly PROVE Sound(svc[c])' /\ svc'[c].at = "look"
    <3>. DEFINE m == Calling(WriteOp(c), "object", WriteDoc(c))
                doc == NewDoc(Location(c), "", Declared(req[c], 2))
    <3>1. req[c].op = "put" /\ Steady(c) /\ Ready(c)
      BY <1>5, <1>6, <2>3 DEF Steady, Active, Facts, Prepared
    <3>2. Named(Location(c)) # {} /\ client[c] = Chosen(Location(c))
      BY <1>1, <3>1 DEF Ready, Where
    <3>3. svc'[c] = Calling("create", "object", doc)
      BY <1>11, <3>1 DEF Writes, Shape, GatewayTypeOK, WriteOp, WriteDoc
    <3>4. o.store.object # NoObject
      BY <1>7, <1>11, <3>1 DEF Acknowledged
    <3>5. PICK name, d : name = Location(c) /\ d = doc
      OBVIOUS
    <3>6. Named(name)' # {} /\ Chosen(name)'.id = Id(c)
      BY <1>1, <3>2, <3>5 DEF Named, Chosen, Id
    <3>7. d.backend = name /\ Shown(d)
      BY <3>5 DEF NewDoc, Shown
    <3>8. Good(d)'
      <4>1. StoreOf(d)'.object # NoObject
        BY <1>4, <3>4, <3>6, <3>7 DEF StoreOf
      <4>. QED  BY <3>6, <3>7, <4>1 DEF Good, Leads, Shown
    <3>9. PICK call : call = Calling("create", "object", d)
      OBVIOUS
    <3>10. call.op = "create" /\ call.coll = "object" /\ call.doc = d /\ call.at = "look"
      BY <3>9 DEF Calling
    <3>11. Sound(call)'
      BY <3>8, <3>10 DEF Sound
    <3>12. svc'[c] = call
      BY <3>3, <3>5, <3>9
    <3>. QED  BY <3>10, <3>11, <3>12, SoundCarried
  <2>4. Ready(c)'
    <3>1. at'[c] = "record"
      BY <2>1 DEF Goes, Shape, GatewayTypeOK
    <3>. QED  BY <3>1 DEF Ready
  <2>. QED  BY <1>1, <1>5, <1>8, <2>1, <2>2, <2>3, <2>4, OnwardFacts
<1>. QED  BY <1>2, <1>9, <1>10, <1>11 DEF Ends_Or_Writes

\* A store a download that is alone reads holds what is known.
LEMMA ReadsTruth ==
  ASSUME Shape, Facts, NEW c \in solo, at[c] = "store", req[c].op = "get", truth.is = "there"
  PROVE  /\ stores[Id(c)].object = truth.content /\ seen[c].size = truth.size
<1>1. c \in Callers
  BY DEF Shape, HistoryTypes
<1>2. Ready(c) /\ Agrees(truth)
  BY <1>1 DEF Facts, Prepared, Steady, Truthful
<1>3. Found("object") /\ seen[c] = First("object") /\ Fits(truth, seen[c])
  BY <1>2 DEF Ready, ReadingOps, Agrees
<1>4. seen[c].size = truth.size /\ Leads(seen[c]) /\ StoreOf(seen[c]).object = truth.content
  BY <1>3 DEF Fits
<1>5. seen[c].backend # ""
  <2>1. seen[c].backend \in Locations \ {""}
    BY <1>4, ChosenIs, SomeTypes DEF Leads
  <2>. QED  BY <2>1
<1>6. client[c] = Chosen(seen[c].backend)
  BY <1>2, <1>5 DEF Ready, Where
<1>. QED  BY <1>4, <1>6 DEF StoreOf, Id

LEMMA NextPiece ==
  ASSUME NEW s \in Seq(Nat), NEW sofar \in Seq(Int), Len(sofar) < Len(s), sofar = SubSeq(s, 1, Len(sofar)),
         NEW got \in Seq(Int), got = Append(sofar, s[Len(sofar) + 1])
  PROVE  /\ Len(got) = Len(sofar) + 1 /\ Len(got) <= Len(s)
         /\ got = SubSeq(s, 1, Len(got)) /\ (Len(got) = Len(s) => got = s)
<1>1. PICK k \in Nat : k = Len(sofar)
  BY LenProperties
<1>2. Len(got) = k + 1 /\ k + 1 <= Len(s)
  BY <1>1
<1>3. \A i \in 1..(k + 1) : s[i] \in Nat /\ s[i] \in Int
  BY <1>2
<1>4. /\ SubSeq(s, 1, k + 1) \in Seq(Int) /\ Len(SubSeq(s, 1, k + 1)) = k + 1
      /\ \A i \in 1..(k + 1) : SubSeq(s, 1, k + 1)[i] = s[i]
  BY <1>2, <1>3, SubSeqProperties
<1>5. \A i \in 1..k : sofar[i] = s[i]
  BY <1>1, <1>2, <1>3, SubSeqProperties
<1>6. \A i \in 1..(k + 1) : got[i] = s[i]
  BY <1>1, <1>5
<1>7. got = SubSeq(s, 1, k + 1)
  BY <1>2, <1>4, <1>6, SeqEqual
<1>8. s \in Seq(Int)
  OBVIOUS
<1>9. Len(got) = Len(s) => got = s
  BY <1>2, <1>6, <1>8, SeqEqual
<1>. QED  BY <1>1, <1>2, <1>7, <1>9

LEMMA GetFacts ==
  ASSUME Shape, Facts, NEW c \in Callers, ObjectGet(c)
  PROVE  Facts'
<1>1. /\ at[c] = "store" /\ req[c].op = "get" /\ UNCHANGED <<docs, backends, stores>>
  BY GetSteps
<1>2. ASSUME NEW o, o.answer # "more", FinishAfter(c, o.answer, o.got, o.fault), o.fault \in BOOLEAN,
             UNCHANGED late
      PROVE  Facts'
  <2>1. (c \in solo /\ ~o.fault) \in BOOLEAN /\ Stop(c, o.answer, o.got, c \in solo /\ ~o.fault)
    BY <1>2 DEF FinishAfter
  <2>. QED  BY <1>1, <1>2, <2>1, StopFacts
<1>3. ASSUME NEW o, o.got \in Seq(Int), body' = [body EXCEPT ![c] = o.got],
             Len(body[c]) < Len(stores[Id(c)].object),
             o.got = Append(body[c], stores[Id(c)].object[Len(body[c]) + 1]),
             UNCHANGED <<late, at, req, seen, client, svc, hiccups, solo, calm, truth, safe>>
      PROVE  Facts'
  <2>1. /\ body'[c] = o.got /\ \A d \in Callers \ {c} : body'[d] = body[d]
    BY <1>3 DEF Shape, HistoryTypes
  <2>2. ASSUME c \in solo, truth.is = "there"
        PROVE  Len(o.got) <= Len(truth.content) /\ o.got = SubSeq(truth.content, 1, Len(o.got))
    <3>1. PICK s \in Seq(Nat), sofar \in Seq(Int) : s = truth.content /\ sofar = body[c]
      BY DEF Shape, HistoryTypes, Answer, Content
    <3>2. Len(sofar) < Len(s) /\ o.got = Append(sofar, s[Len(sofar) + 1])
      BY <1>1, <1>3, <2>2, <3>1, ReadsTruth
    <3>3. sofar = SubSeq(s, 1, Len(sofar))
      BY <1>1, <2>2, <3>1 DEF Facts, SoFar
    <3>. QED  BY <1>3, <3>1, <3>2, <3>3, NextPiece
  <2>3. SoFar'
    <3>1. at[c] \notin {"bucket", "md", "client"}
      BY <1>1
    <3>. QED  BY <1>3, <2>1, <2>2, <3>1 DEF Facts, SoFar
  <2>. QED  BY <1>1, <1>3, <2>3, SameFacts
<1>4. CASE Fatal
  BY <1>1, <1>4, FatalFacts
<1>. QED  BY <1>2, <1>3, <1>4, GetSteps

LEMMA FactsNext ==
  ASSUME Shape, Facts, [GatewayNext]_gatewayVars
  PROVE  Facts'
<1>1. ASSUME NEW c \in Callers, Client(c) PROVE Facts'
  BY <1>1, StartFacts DEF Client
<1>2. ASSUME NEW c \in Callers, Handler(c) PROVE Facts'
  BY <1>2, ReadingFacts, ClientFacts, StoreCallFacts, GetFacts, ServeFacts, FailingFacts, RecordedFacts
     DEF Handler, StoreCall
<1>. QED  BY <1>1, <1>2, LateFacts, EditFacts, StutterFacts DEF GatewayNext

LEMMA InvIs == Inv <=> Shape /\ Facts
BY DEF Inv, Shape, Facts

LEMMA FoundFirst ==
  ASSUME GatewayTypeOK, Found("object")
  PROVE  1 \in DOMAIN docs["object"]
<1>1. docs["object"] \in Seq(Doc) /\ docs["object"] # <<>>
  BY DEF GatewayTypeOK, Collections, Found
<1>. QED  BY <1>1

LEMMA GatewayBegins == GatewayBegun => Inv
BY ShapeFirst, FirstFacts, InvIs

LEMMA GatewayKeeps == Inv /\ [GatewayNext]_gatewayVars => Inv'
<1>. SUFFICES ASSUME Inv, [GatewayNext]_gatewayVars PROVE Inv'
  OBVIOUS
<1>1. Shape /\ Facts
  BY InvIs
<1>2. Shape' /\ Facts'
  BY <1>1, ShapeNext, FactsNext
<1>. QED  BY <1>2 DEF Inv, Shape, Facts

(* From the first state on the invariant holds, whatever backends are     *)
(* registered, changed or removed, however many requests race, fail or    *)
(* leave calls behind them.                                               *)
THEOREM GatewayInvariant == GatewaySpec => []Inv
<1>1. GatewayInit => Inv
  BY GatewayBegins DEF GatewayInit, GatewayBegun
<1>. QED  BY <1>1, GatewayKeeps, PTL DEF GatewaySpec

(* Every variable of the gateway keeps its type; a handler about to call a *)
(* store has an adapter for it.                                            *)
THEOREM GatewayTypes == GatewaySpec => []GatewayTypeOK
<1>1. Inv => GatewayTypeOK
  BY DEF Inv
<1>. QED  BY <1>1, GatewayInvariant, PTL

LEMMA PutsKept == Inv => PutsSurvive
<1>. SUFFICES ASSUME Inv, safe PROVE Shows /\ Home.object # NoObject
  BY DEF PutsSurvive
<1>1. GoodFirst
  BY DEF Inv, Calm, PutsOnly
<1>2. 1 \in DOMAIN docs["object"]
  <2>1. GatewayTypeOK /\ Found("object")
    BY <1>1 DEF Inv, GoodFirst
  <2>. QED  BY <2>1, FoundFirst
<1>3. Shows
  BY <1>1, <1>2 DEF GoodFirst, Good, Shows, ListObjects, First
<1>. QED  BY <1>1, <1>3 DEF GoodFirst, Good, StoreOf, Home

(* After a put that met no other requests than puts and gets and was        *)
(* acknowledged, the object stays listed and its store holds data, whatever *)
(* number of further puts fail, break off, race or come late.               *)
THEOREM PutsStay == GatewaySpec => []PutsSurvive
BY GatewayInvariant, PutsKept, PTL

LEMMA CatalogueTrue == Inv => AgreesWithRequests
<1>. SUFFICES ASSUME Inv, Quiescent PROVE
       CASE truth.is = "there" ->
              /\ Shows /\ First("object").size = truth.size
              /\ Home.object = truth.content
         [] truth.is = "gone" -> ~Shows /\ (Found("object") => Home.object = NoObject)
         [] truth.is \in {"upload", "hidden"} -> ~Shows
         [] OTHER -> TRUE
  BY DEF AgreesWithRequests
<1>1. Agrees(truth)
  BY DEF Inv, Truthful, Quiescent
<1>2. Found("object") => 1 \in DOMAIN docs["object"]
  BY FoundFirst DEF Inv
<1>3. Shows <=> Found("object") /\ Shown(First("object"))
  BY <1>2 DEF Shows, ListObjects, First
<1>4. Home = StoreOf(First("object"))
  BY DEF Home, StoreOf
<1>5. CASE Found("object")
  <2>1. Fits(truth, First("object"))
    BY <1>1, <1>5 DEF Agrees
  <2>. QED  BY <1>3, <1>4, <1>5, <2>1 DEF Fits, Shown
<1>6. CASE ~Found("object")
  BY <1>1, <1>3, <1>6 DEF Agrees
<1>. QED  BY <1>5, <1>6

(* Whenever nothing that modifies is under way, the catalogue and the store *)
(* say what the requests that were alone, and acknowledged, have said: the  *)
(* catalogue the lengths in their headers, the store their bodies.          *)
THEOREM CatalogueAgrees == GatewaySpec => []AgreesWithRequests
BY GatewayInvariant, CatalogueTrue, PTL

-----------------------------------------------------------------------------
(* What a download gives *)

\* Each handler moves its own request only, unless it ends the process.
LEMMA OthersStay ==
  ASSUME Shape, NEW c \in Callers, Handler(c), NEW d \in Callers \ {c}
  PROVE  at'[d] = at[d] \/ body'[d] = Failed
<1>1. at \in [Callers -> {"idle", "bucket", "md", "client", "store", "record"}]
  BY DEF Shape, GatewayTypeOK
<1>2. \A x \in Callers : \A step : Goes(x, step) /\ x # d => at'[d] = at[d]
  BY <1>1 DEF Goes
<1>3. \A x \in Callers : \A answer, got, trusted : Stop(x, answer, got, trusted) /\ x # d => at'[d] = at[d]
  BY <1>1 DEF Stop
<1>4. CASE GetMetadata(c) \/ GetBucket(c) \/ ReadFails(c)
  BY <1>2, <1>3, <1>4 DEF GetMetadata, GetBucket, ReadFails, Finish, FinishAfter
<1>5. CASE GetClient(c) \/ ClientFails(c)
  BY <1>2, <1>3, <1>5 DEF GetClient, ClientFails, NoClient, Finish
<1>0. Fatal => body'[d] = Failed
  BY DEF Fatal
<1>6. CASE ObjectGet(c)
  BY <1>0, <1>2, <1>3, <1>6, GetSteps DEF FinishAfter
<1>7. CASE StoreCall(c)
  BY <1>0, <1>2, <1>3, <1>7, StoreSteps DEF Ends_Or_Writes, Finish, Writes
<1>8. CASE Serve(c) \/ ServiceFails(c) \/ ServiceLost(c)
  BY <1>8 DEF Serve, ServiceFails, ServiceLost, requestVars
<1>9. CASE Recorded(c) \/ ReadAgainFails(c)
  BY <1>3, <1>9 DEF Recorded, ReadAgainFails, Finish, FinishAfter
<1>. QED  BY <1>4, <1>5, <1>6, <1>7, <1>8, <1>9 DEF Handler, StoreCall

LEMMA OnlyGetEnds ==
  ASSUME Shape, NEW c \in Callers, at[c] = "store", req[c].op = "get",
         at'[c] = "idle", body'[c] # Failed, [GatewayNext]_gatewayVars
  PROVE  ObjectGet(c)
<1>1. ASSUME NEW d \in Callers, Client(d) PROVE FALSE
  <2>1. PICK q : Start(d, q)
    BY <1>1 DEF Client
  <2>2. at[d] = "idle" /\ at' = [at EXCEPT ![d] = FirstStep(q)]
    BY <2>1 DEF Start
  <2>. QED  BY <2>2 DEF Shape, GatewayTypeOK
<1>2. ASSUME NEW d \in Callers, Handler(d) PROVE d = c
  BY <1>2, OthersStay
<1>3. Handler(c) => ObjectGet(c)
  <2>1. req[c].op \notin Using
    BY DEF Using
  <2>2. ~StoreCall(c)
    BY <2>1, StoreSteps
  <2>3. svc[c] = NoCall
    BY DEF Shape, Standing, Stands
  <2>4. ~Serve(c) /\ ~ServiceFails(c) /\ ~ServiceLost(c)
    BY <2>3 DEF Serve, ServiceStep, ServiceFails, DbFails, ServiceLost, CallLost, Running
  <2>5. /\ ~GetMetadata(c) /\ ~GetBucket(c) /\ ~ReadFails(c) /\ ~GetClient(c) /\ ~ClientFails(c)
        /\ ~Recorded(c) /\ ~ReadAgainFails(c)
    BY DEF GetMetadata, GetBucket, ReadFails, GetClient, ClientFails, Recorded, ReadAgainFails
  <2>. QED  BY <2>2, <2>4, <2>5 DEF Handler, StoreCall
<1>4. ~ServeLate /\ ~Operator /\ ~UNCHANGED gatewayVars
  BY DEF ServeLate, Operator, APICreateBackend, APIUpdateBackend, APIDeleteBackend, Edit, gatewayVars,
     requestVars
<1>. QED  BY <1>1, <1>2, <1>3, <1>4 DEF GatewayNext

LEMMA RightIs ==
  ASSUME NEW kind \in Adapters, NEW s \in Content, NEW size \in Nat, NEW range \in Ranges,
         NEW got \in Seq(Int), NEW sofar \in Seq(Int), sofar = SubSeq(s, 1, Len(sofar)),
         Right(kind, got, s, size, range, sofar)
  PROVE  IF kind = "azure" /\ ~IsRange(range) THEN Len(got) = size /\ Prefix(got, Requested(s, range))
         ELSE got = Requested(s, range) \/ (~Honoured(kind, range) /\ got = s)
<1>1. ~IsRange(range) => Requested(s, range) = s
  BY RangeNumbers DEF Requested, Open, IsRange
<1>2. CASE IsRange(range) \/ kind \in {"hws", "ceph"}
  BY <1>2 DEF Right
<1>3. CASE ~IsRange(range) /\ kind = "aws"
  <2>1. Len(sofar) < Len(s) /\ got = Append(sofar, s[Len(sofar) + 1]) /\ Len(got) = Len(s)
    BY <1>3 DEF Right
  <2>2. got = s
    BY <2>1, NextPiece DEF Content
  <2>. QED  BY <1>1, <1>3, <2>2
<1>4. CASE ~IsRange(range) /\ kind = "azure"
  <2>1. PICK k \in 0..Len(s) : got = Padded(SubSeq(s, 1, k), size)
    BY <1>4 DEF Right
  <2>2. Len(s) \in Nat /\ k \in Nat /\ k <= Len(s)
    BY DEF Content
  <2>3. DOMAIN got = 1..size
    BY <2>1 DEF Padded
  <2>4. Len(got) = size
    BY <2>3, LenProperties
  <2>5. Len(SubSeq(s, 1, k)) = k /\ \A i \in 1..k : SubSeq(s, 1, k)[i] = s[i]
    BY <2>2, SubSeqProperties DEF Content
  <2>6. ASSUME NEW i \in 1..size PROVE got[i] \in {s[i], 0}
    <3>1. got[i] = IF i <= k THEN SubSeq(s, 1, k)[i] ELSE 0
      BY <2>1, <2>5 DEF Padded
    <3>. QED  BY <2>2, <2>5, <3>1
  <2>. QED  BY <1>1, <1>4, <2>3, <2>4, <2>6 DEF Prefix
<1>. QED  BY <1>2, <1>3, <1>4 DEF Adapters

LEMMA GetsAgree ==
  ASSUME Inv, [GatewayNext]_gatewayVars
  PROVE  GivesWhatIsThere
<1>1. ASSUME NEW c \in solo,
             at[c] = "store", req[c].op = "get", truth.is = "there",
             at'[c] = "idle", body'[c] # Failed, hiccups' = hiccups,
             NEW kind, NEW range, NEW want, NEW got,
             kind = Kind(client[c]), range = req[c].range, want = Requested(truth.content, range),
             got = body'[c]
      PROVE  IF kind = "azure" /\ ~IsRange(range) THEN Len(got) = truth.size /\ Prefix(got, want)
             ELSE got = want \/ (~Honoured(kind, range) /\ got = truth.content)
  <2>1. Shape /\ Facts /\ c \in Callers
    BY <1>1, InvIs DEF Inv, HistoryTypes
  <2>2. ObjectGet(c)
    BY <1>1, <2>1, OnlyGetEnds
  <2>3. ~Fatal
    BY <1>1, <2>1 DEF Fatal
  <2>4. PICK o :
          /\ o.got \in Seq(Int) /\ ~o.fault
          /\ o.answer = "ok" =>
               Right(Kind(client[c]), o.got, stores[Id(c)].object, seen[c].size, req[c].range, body[c])
          /\ o.answer # "more" /\ FinishAfter(c, o.answer, o.got, o.fault)
    BY <1>1, <2>1, <2>2, <2>3, GetSteps
  <2>5. body'[c] = o.got /\ o.answer = "ok"
    BY <1>1, <2>1, <2>4 DEF FinishAfter, Stop, Shape, HistoryTypes
  <2>6. stores[Id(c)].object = truth.content /\ seen[c].size = truth.size
    BY <1>1, <2>1, ReadsTruth
  <2>7. /\ kind \in Adapters /\ truth.content \in Content /\ truth.size \in Nat /\ range \in Ranges
        /\ body[c] \in Seq(Int) /\ got \in Seq(Int)
    BY <1>1, <2>1, <2>4, <2>5, SomeTypes DEF Shape, HistoryTypes, Answer, Request
  <2>8. body[c] = SubSeq(truth.content, 1, Len(body[c]))
    BY <1>1, <2>1 DEF Facts, SoFar
  <2>9. PICK s, size, sofar : s = truth.content /\ size = truth.size /\ sofar = body[c]
    OBVIOUS
  <2>10. Right(kind, got, s, size, range, sofar)
    BY <1>1, <2>4, <2>5, <2>6, <2>9
  <2>11. /\ s \in Content /\ size \in Nat /\ sofar \in Seq(Int) /\ sofar = SubSeq(s, 1, Len(sofar))
         /\ want = Requested(s, range)
    BY <1>1, <2>7, <2>8, <2>9
  <2>12. IF kind = "azure" /\ ~IsRange(range) THEN Len(got) = size /\ Prefix(got, Requested(s, range))
         ELSE got = Requested(s, range) \/ (~Honoured(kind, range) /\ got = s)
    BY <2>7, <2>10, <2>11, RightIs
  <2>. QED  BY <2>9, <2>11, <2>12
<1>. QED  BY <1>1 DEF GivesWhatIsThere

(* A download that was alone, and in which nothing failed, gives what the   *)
(* requests before it stored: all of it or the range, from every kind of    *)
(* store.  Where an adapter sends no range to its store it may be the whole *)
(* object instead, and of a whole blob it is as many bytes as were recorded, *)
(* some of them perhaps zeros.                                              *)
THEOREM DownloadsAgree == GatewaySpec => ReadsAgree
<1>1. Inv /\ [GatewayNext]_gatewayVars => [GivesWhatIsThere]_gatewayVars
  BY GetsAgree
<1>. QED  BY <1>1, GatewayInvariant, PTL DEF GatewaySpec, ReadsAgree
=============================================================================
