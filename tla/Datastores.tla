----------------------------- MODULE Datastores -----------------------------
(***************************************************************************)
(* What the adapters of the api service (api/pkg/s3/datastore) do to an    *)
(* object store, for one object.  A call may be refused, and it may take   *)
(* effect although its answer is an error.  Contents are sequences of      *)
(* pieces, a piece being the number of the request that sent it.           *)
(***************************************************************************)
EXTENDS Naturals, Sequences

CONSTANTS
  MaxUpload,   \* upload ids are up to this; 0 stands for the blocks of a blob
  PartNumbers  \* numbers of parts a client may use

ASSUME DatastoresAssumption == MaxUpload \in Nat /\ PartNumbers \subseteq Nat \ {0}

UploadIds == 0..MaxUpload
Content == Seq(Nat)
NoObject == <<>>
NoParts == [p \in PartNumbers |-> 0]
Store == [object : Content, parts : [UploadIds -> [PartNumbers -> Nat]], open : SUBSET UploadIds]
EmptyStore == [object |-> NoObject, parts |-> [u \in UploadIds |-> NoParts], open |-> {}]

\* datastore.Init: the adapter for the type of a backend.
Adapters == {"aws", "azure", "hws", "ceph"}
Adapter(type) ==
  CASE type = "azure-blob" -> "azure"
    [] type \in {"hw-obs", "fusionstorage-object"} -> "hws"
    [] type = "aws-s3" -> "aws"
    [] type = "ceph-s3" -> "ceph"
    [] OTHER -> "nil"

\* How a call ends: its answer, the store after it, what it returns, and
\* whether something failed that need not have.
Ends(answer, s) == [answer |-> answer, store |-> s, got |-> <<>>, fault |-> FALSE]
Fails(answer, s) == [Ends(answer, s) EXCEPT !.fault = TRUE]
Gives(s, got) == [Ends("ok", s) EXCEPT !.got = got]
Tried(s, t) == {Ends("ok", t), Fails("error", t), Fails("error", s)}
Refused(s) == {Ends("error", s)}

-----------------------------------------------------------------------------
(* What the stores do (external). *)

Written(s, data) == [s EXCEPT !.object = data]
\* A blob that is written loses the blocks that are not committed.
BlobWritten(s, data) == [s EXCEPT !.object = data, !.parts[0] = NoParts]
Staged(s, u, p, r) == [s EXCEPT !.parts[u][p] = r]
Closed(s, u) == [s EXCEPT !.open = @ \ {u}]
\* asked lists part numbers in ascending order.
Together(s, u, asked) == [i \in DOMAIN asked |-> s.parts[u][asked[i]]]
AllStaged(s, u, asked) == \A i \in DOMAIN asked : s.parts[u][asked[i]] # 0

-----------------------------------------------------------------------------
(* PUT: the body may break off before its end (~whole). *)

Cut(data) == SubSeq(data, 1, 1)
AwsPUT(s, data, whole) == IF whole THEN Tried(s, Written(s, data)) ELSE Refused(s)
\* The client sends a stream again when its first attempt has had no answer: what
\* the attempt has left of it becomes the object, and the answer is an error.
Leftover(data) == SubSeq(data, 2, Len(data))
HwsPUT(s, data, whole) ==
  IF whole THEN Tried(s, Written(s, data)) \cup {Fails("error", Written(s, Leftover(data)))} ELSE Refused(s)
\* These two read the body first and ignore the error: what has come is stored.
AzurePUT(s, data, whole) == Tried(s, BlobWritten(s, IF whole THEN data ELSE Cut(data)))
CephPUT(s, data, whole) == Tried(s, Written(s, IF whole THEN data ELSE Cut(data)))

PUT(kind, s, data, whole) ==
  CASE kind = "aws" -> AwsPUT(s, data, whole)
    [] kind = "hws" -> HwsPUT(s, data, whole)
    [] kind = "azure" -> AzurePUT(s, data, whole)
    [] kind = "ceph" -> CephPUT(s, data, whole)

-----------------------------------------------------------------------------
(* GET: a range whose ends are both 0 stands for the whole object, and one    *)
(* that ends at 0 for the rest of it: bytes=N- has N and 0.                   *)

Whole == [from |-> 0, to |-> 0]
IsRange(range) == range.from # 0 \/ range.to # 0
Open(range) == range.from # 0 /\ range.to = 0
\* Both ends count, and a range is cut at the end of the object.
Slice(data, first, last) == SubSeq(data, first, IF last > Len(data) THEN Len(data) ELSE last)
Part_EndExclusive(data, range) == Slice(data, range.from + 1, range.to)
Part(data, range) == Slice(data, range.from + 1, range.to + 1)
Asked(s, range) == IF IsRange(range) THEN Part(s.object, range) ELSE s.object
Missing(s, range) == Len(s.object) <= range.from
\* The response is a stream: what is lost of it while it is copied is not noticed.
StreamGET(s, range) ==
  IF Missing(s, range) THEN Refused(s)
  ELSE {Gives(s, Asked(s, range)), Fails("error", s), Fails("ok", s)}
\* The client for obs sends a range only when it ends after it begins.
HwsGET(s, range) == StreamGET(s, IF range.to > range.from THEN range ELSE Whole)
\* The client for ceph leaves out an end of 0.
CephGET(s, range) == StreamGET(s, IF Open(range) THEN [range EXCEPT !.to = Len(s.object)] ELSE range)
\* What is sent for an open range, bytes=N-0, ends before it begins: a store may
\* ignore that, or refuse it.
AwsOpenGET(s) ==
  IF s.object = NoObject THEN Refused(s)
  ELSE {Gives(s, s.object), Ends("error", s), Fails("error", s)}
AwsRangeGET(s, range) ==
  IF Missing(s, range) THEN Refused(s) ELSE {Gives(s, Part(s.object, range)), Fails("error", s)}
\* The downloader fetches an object in pieces, one request after the other.
AwsPieceGET(s, sofar) ==
  IF Len(s.object) <= Len(sofar) THEN Refused(s)
  ELSE {Fails("error", s),
        LET got == Append(sofar, s.object[Len(sofar) + 1]) IN
        IF Len(got) = Len(s.object) THEN Gives(s, got)
        ELSE [Gives(s, got) EXCEPT !.answer = "more"]}
AwsGET(s, range, sofar) ==
  CASE Open(range) -> AwsOpenGET(s)
    [] IsRange(range) /\ ~Open(range) -> AwsRangeGET(s, range)
    [] OTHER -> AwsPieceGET(s, sofar)
\* A range is fetched into a buffer of its length, which must not be negative.
\* A length of 0 asks for the blob's own, which is more than the buffer holds.
\* The goroutine that fetches uses a response it has not got: no handler is
\* above it, and the process ends.
AzureRangeGET(s, range) ==
  CASE range.to + 1 < range.from -> {Ends("panic", s)}
    [] range.to + 1 = range.from ->
         IF s.object = NoObject THEN Refused(s) ELSE {Ends("fatal", s), Fails("error", s)}
    [] range.to + 1 > range.from ->
         IF Missing(s, range) THEN {Ends("fatal", s)}
         ELSE {Fails("fatal", s)} \cup
              (IF Len(s.object) <= range.to THEN Refused(s)
               ELSE {Gives(s, Part(s.object, range)), Fails("error", s)})
\* A buffer of the recorded size, and one Read: the rest of it stays zero.
Padded(data, size) == [i \in 1..size |-> IF i <= Len(data) THEN data[i] ELSE 0]
ReadOnce(data, size) ==
  {Padded(SubSeq(data, 1, k), size) : k \in {n \in 0..size : n <= Len(data) /\ (n > 0 \/ size = 0)}}
AzureWholeGET(s, size) ==
  IF s.object = NoObject THEN {Ends("panic", s)}
  ELSE {Fails("panic", s)} \cup {Gives(s, got) : got \in ReadOnce(s.object, size)}
AzureGET(s, size, range) == IF IsRange(range) THEN AzureRangeGET(s, range) ELSE AzureWholeGET(s, size)

GET(kind, s, size, range, sofar) ==
  CASE kind = "aws" -> AwsGET(s, range, sofar)
    [] kind = "hws" -> HwsGET(s, range)
    [] kind = "azure" -> AzureGET(s, size, range)
    [] kind = "ceph" -> CephGET(s, range)

-----------------------------------------------------------------------------
(* DELETE: only a blob has to be there. *)

S3Deleted(s) == [s EXCEPT !.object = NoObject]
AwsDELETE(s) == Tried(s, S3Deleted(s))
HwsDELETE(s) == Tried(s, S3Deleted(s))
CephDELETE(s) == Tried(s, S3Deleted(s))
AzureDELETE(s) ==
  IF s.object = NoObject THEN Refused(s) ELSE Tried(s, BlobWritten(s, NoObject))

DELETE(kind, s) ==
  CASE kind = "aws" -> AwsDELETE(s)
    [] kind = "hws" -> HwsDELETE(s)
    [] kind = "azure" -> AzureDELETE(s)
    [] kind = "ceph" -> CephDELETE(s)

-----------------------------------------------------------------------------
(* Multipart uploads.  Blocks belong to the blob, so an upload of one needs   *)
(* neither beginning nor end.                                                 *)

Opened(s, u) == [s EXCEPT !.open = @ \cup {u}, !.parts[u] = NoParts]
\* log.Fatalf: an error ends the whole process.
AwsInit(s, u) == {Ends("ok", Opened(s, u)), Fails("fatal", Opened(s, u)), Fails("fatal", s)}
CephInit(s, u) == {Ends("ok", Opened(s, u)), Fails("fatal", Opened(s, u)), Fails("fatal", s)}
HwsInit(s, u) == Tried(s, Opened(s, u))
AzureInit(s) == {Ends("ok", s)}
\* A part of no stated length (~sized) is sent without one to these two stores,
\* which may refuse that.  The three attempts of the first end like one: the part
\* is there or not, whatever is said.
SentPart(s, u, p, r, sized) ==
  IF u \in s.open THEN Tried(s, Staged(s, u, p, r)) \cup (IF sized THEN {} ELSE Refused(s)) ELSE Refused(s)
AwsUploadPart(s, u, p, r, sized) == SentPart(s, u, p, r, sized)
\* The attempts after the first send an empty body, which is refused.
CephUploadPart(s, u, p, r, sized) == SentPart(s, u, p, r, sized)
\* So does this one with a part, which nobody can name then: it counts as missing.
HwsUploadPart(s, u, p, r) ==
  IF u \in s.open THEN Tried(s, Staged(s, u, p, r)) \cup {Fails("error", Staged(s, u, p, 0))} ELSE Refused(s)
AzureUploadPart(s, p, r) == Tried(s, Staged(s, 0, p, r))
Completable(s, u, asked) == u \in s.open /\ AllStaged(s, u, asked)
S3Completed(s, u, asked) == Closed(Written(s, Together(s, u, asked)), u)
AwsComplete(s, u, asked) ==
  IF Completable(s, u, asked) THEN Tried(s, S3Completed(s, u, asked)) ELSE Refused(s)
CephComplete(s, u, asked) ==
  IF Completable(s, u, asked) THEN Tried(s, S3Completed(s, u, asked)) ELSE Refused(s)
\* The response is used before the error is looked at.
HwsComplete(s, u, asked) ==
  IF Completable(s, u, asked)
  THEN LET t == S3Completed(s, u, asked) IN {Ends("ok", t), Fails("panic", t), Fails("panic", s)}
  ELSE {Ends("panic", s)}
AzureComplete(s, asked) ==
  IF AllStaged(s, 0, asked) THEN Tried(s, BlobWritten(s, Together(s, 0, asked))) ELSE Refused(s)
AwsAbort(s, u) == IF u \in s.open THEN Tried(s, Closed(s, u)) ELSE Refused(s)
CephAbort(s, u) == IF u \in s.open THEN Tried(s, Closed(s, u)) ELSE Refused(s)
HwsAbort(s, u) == IF u \in s.open THEN Tried(s, Closed(s, u)) ELSE Refused(s)
AzureAbort(s) == {Ends("ok", s)}

InitMultipartUpload(kind, s, u) ==
  CASE kind = "aws" -> AwsInit(s, u)
    [] kind = "hws" -> HwsInit(s, u)
    [] kind = "azure" -> AzureInit(s)
    [] kind = "ceph" -> CephInit(s, u)
UploadPart(kind, s, u, p, r, sized) ==
  CASE kind = "aws" -> AwsUploadPart(s, u, p, r, sized)
    [] kind = "hws" -> HwsUploadPart(s, u, p, r)
    [] kind = "azure" -> AzureUploadPart(s, p, r)
    [] kind = "ceph" -> CephUploadPart(s, u, p, r, sized)
CompleteMultipartUpload(kind, s, u, asked) ==
  CASE kind = "aws" -> AwsComplete(s, u, asked)
    [] kind = "hws" -> HwsComplete(s, u, asked)
    [] kind = "azure" -> AzureComplete(s, asked)
    [] kind = "ceph" -> CephComplete(s, u, asked)
AbortMultipartUpload(kind, s, u) ==
  CASE kind = "aws" -> AwsAbort(s, u)
    [] kind = "hws" -> HwsAbort(s, u)
    [] kind = "azure" -> AzureAbort(s)
    [] kind = "ceph" -> CephAbort(s, u)
=============================================================================
