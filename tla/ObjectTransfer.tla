--------------------------- MODULE ObjectTransfer ---------------------------
(***************************************************************************)
(* How one object gets from its source to its destination: moveObj and     *)
(* multipartMoveObj (datamover/pkg/drivers/https/migration.go) with the    *)
(* movers of the four kinds of object store.                               *)
(*                                                                         *)
(* Several movers may transfer the same object at the same time (a job     *)
(* that is started twice).  Every call to a store is tried three times; an *)
(* attempt may be refused, and it may take effect although its answer is   *)
(* lost.  What an object holds is the sequence of pieces it was put        *)
(* together from, a piece being a range of the bytes of the source.        *)
(***************************************************************************)
EXTENDS Integers, Sequences

CONSTANTS
  Movers,    \* goroutines that move the object
  PartSize,  \* PART_SIZE
  Requests   \* the kinds of transfers considered

ASSUME PartSizeAssumption == PartSize \in Nat \ {0}

\* aws, hw-obs and fusionstorage, azure-blob, ceph-s3
StorType == {"aws", "obs", "azure", "ceph"}
\* srcLoca.StorType, destLoca.StorType, are their VirBucket set, and obj.Size
Request == [src : StorType, dest : StorType, srcVir : BOOLEAN, destVir : BOOLEAN, size : Nat]
ASSUME RequestsAssumption == Requests \subseteq Request

VARIABLES
  req,     \* what is transferred
  alive,   \* the process has not panicked
  at,      \* what each mover does next
  tries,   \* the attempt its call is at
  part,    \* partNumber
  buf,     \* the bytes in its buffer, a piece
  done,    \* completeParts, by their numbers
  result,  \* what moveObj or multipartMoveObj returns
  upload,  \* its multipart upload in the store
  parts,   \* the parts in the store, by number
  dest     \* the object under the key that belongs to it

vars == <<req, alive, at, tries, part, buf, done, result, upload, parts, dest>>

Pieces == [from : Int, to : Int]
Piece(from, to) == [from |-> from, to |-> to]
NoPiece == Piece(0, -1)
\* Bytes of the source in places where they do not belong.
Mixed == Piece(-1, -1)
Bytes(piece) == piece.to - piece.from + 1
NoObject == <<>>

\* The whole source object, and what is left of it from a byte on.
From(k) == Piece(k, req.size - 1)
All == From(0)

-----------------------------------------------------------------------------
(* multipartMoveObj: parts and keys *)

PartCount == req.size \div PartSize + (IF req.size % PartSize # 0 THEN 1 ELSE 0)
PartNumbers == 1..PartCount
Offset(p) == (p - 1) * PartSize
CurrPartSize(p) == IF p = PartCount THEN req.size - Offset(p) ELSE PartSize
PieceOf_NoOffset(p) == Piece(0, CurrPartSize(p) - 1)
PieceOf(p) == Piece(Offset(p), Offset(p) + CurrPartSize(p) - 1)

\* moveObj chooses the upload key by the source's virtual bucket.
UploadKeyRight == req.srcVir = req.destVir
\* The upload is begun under the key with the virtual bucket, and aborted
\* under the one without.
AbortKeyRight == ~req.destVir

-----------------------------------------------------------------------------
(* The movers.  Each operator gives the ways one attempt may end: answer     *)
(* "ok", "again" (an error that is tried again), "give up" (an error that is *)
(* returned at once) or "panic"; got is what a download leaves in the        *)
(* buffer, read how many bytes it counts, stored whether the store has       *)
(* changed.                                                                  *)

Read(piece, n) == [answer |-> "ok", got |-> piece, read |-> n]
ReadAll(piece) == Read(piece, Bytes(piece))
NotRead(answer) == [answer |-> answer, got |-> NoPiece, read |-> 0]
Sent(answer, piece) == [answer |-> answer, stored |-> TRUE, piece |-> piece]
NotSent(answer) == [answer |-> answer, stored |-> FALSE, piece |-> NoPiece]
\* A store that does what it is asked, says so, or loses the answer, or refuses.
Tried(piece) == {Sent("ok", piece), Sent("again", piece), NotSent("again")}

S3DownloadObj == {ReadAll(All), NotRead("again")}
\* An error of Body.Read is returned without another attempt.
ObsDownloadObj == {ReadAll(All), NotRead("again"), NotRead("give up")}
BlobDownloadObj == {ReadAll(All), NotRead("again"), NotRead("give up")}
\* A failed Get returns no response, whose Body is read all the same.
CephDownloadObj == {ReadAll(All), NotRead("again"), NotRead("panic")}

S3DownloadRange(p) == {ReadAll(PieceOf(p)), NotRead("again")}
\* Body.Read is given the whole buffer every time, so the second read writes
\* over the first; and a range of one byte is not put in the request at all.
ObsDownloadRange(p) ==
  {NotRead("again"), NotRead("give up")} \cup
  IF Bytes(PieceOf(p)) = 1 THEN {Read(Mixed, req.size)}
  ELSE {ReadAll(PieceOf(p)), Read(Mixed, Bytes(PieceOf(p)))}
BlobDownloadRange(p) == {ReadAll(PieceOf(p)), NotRead("again")}
CephDownloadRange(p) == {ReadAll(PieceOf(p)), NotRead("again"), NotRead("panic")}

S3UploadObj(piece) == Tried(piece)
\* All attempts share one reader, which a failed attempt leaves anywhere.
ObsUploadObj(piece, try) ==
  UNION {Tried([piece EXCEPT !.from = k]) : k \in IF try = 1 THEN {0} ELSE 0..req.size}
BlobUploadObj(piece) == Tried(piece)
\* The client takes a status it does not list, such as 503, for success.
CephUploadObj(piece) == Tried(piece) \cup {NotSent("ok")}

\* A store takes a part when the upload is open; blob blocks need none.
S3UploadPart(piece, open) == IF open THEN Tried(piece) ELSE {NotSent("again")}
ObsUploadPart(piece, open) == IF open THEN Tried(piece) ELSE {NotSent("again")}
BlobUploadPart(piece) == Tried(piece)
CephUploadPart(piece, open) ==
  IF open THEN Tried(piece) \cup {NotSent("ok")} ELSE {NotSent("again"), NotSent("ok")}

S3UploadInit == Tried(NoPiece)
ObsUploadInit == Tried(NoPiece)
BlobUploadInit == {NotSent("ok")}
CephUploadInit == Tried(NoPiece) \cup {NotSent("ok")}

\* A store that has all the parts named can put them together; asked again
\* after it has, it may agree or know the upload no more.
Asked(ready, finished) ==
  IF ready THEN Tried(NoPiece)
  ELSE {NotSent("again")} \cup IF finished THEN {NotSent("ok")} ELSE {}
S3Complete(ready, finished) == Asked(ready, finished)
ObsComplete(ready, finished) == Asked(ready, finished)
BlobComplete(ready) == Asked(ready, FALSE)
CephComplete(ready, finished) == Asked(ready, finished) \cup {NotSent("ok")}

S3Abort(open) == IF open THEN Tried(NoPiece) ELSE {NotSent("again")}
ObsAbort(open) == IF open THEN Tried(NoPiece) ELSE {NotSent("again")}
BlobAbort == {NotSent("ok")}
\* It asks the downloader for the bucket, which an uploading mover has not got.
CephAbort == {NotSent("panic")}

-----------------------------------------------------------------------------
(* The mover of the right kind for a call. *)

DownloadObj ==
  [aws |-> S3DownloadObj, obs |-> ObsDownloadObj,
   azure |-> BlobDownloadObj, ceph |-> CephDownloadObj][req.src]

DownloadRange(p) ==
  [aws |-> S3DownloadRange(p), obs |-> ObsDownloadRange(p),
   azure |-> BlobDownloadRange(p), ceph |-> CephDownloadRange(p)][req.src]

UploadObj(m) ==
  [aws |-> S3UploadObj(buf[m]), obs |-> ObsUploadObj(buf[m], tries[m]),
   azure |-> BlobUploadObj(buf[m]), ceph |-> CephUploadObj(buf[m])][req.dest]

MultiPartUploadInit ==
  [aws |-> S3UploadInit, obs |-> ObsUploadInit,
   azure |-> BlobUploadInit, ceph |-> CephUploadInit][req.dest]

UploadPart(m) ==
  LET open == upload[m] = "open" IN
  [aws |-> S3UploadPart(buf[m], open), obs |-> ObsUploadPart(buf[m], open),
   azure |-> BlobUploadPart(buf[m]), ceph |-> CephUploadPart(buf[m], open)][req.dest]

\* The store has every part that is listed.
Named(m) ==
  \A i \in 1..Len(done[m]) : done[m][i] \in PartNumbers /\ parts[m][done[m][i]] # NoPiece

CompleteMultipartUpload(m) ==
  LET ready == Named(m) /\ upload[m] = "open"
      finished == upload[m] = "completed" IN
  [aws |-> S3Complete(ready, finished), obs |-> ObsComplete(ready, finished),
   azure |-> BlobComplete(Named(m)), ceph |-> CephComplete(ready, finished)][req.dest]

AbortMultipartUpload(m) ==
  LET open == upload[m] = "open" /\ AbortKeyRight IN
  [aws |-> S3Abort(open), obs |-> ObsAbort(open),
   azure |-> BlobAbort, ceph |-> CephAbort][req.dest]

-----------------------------------------------------------------------------
(* Steps of a mover *)

Goto(m, step) == at' = [at EXCEPT ![m] = step] /\ tries' = [tries EXCEPT ![m] = 1]
Return(m, r) ==
  /\ at' = [at EXCEPT ![m] = "returned"]
  /\ result' = [result EXCEPT ![m] = r]
  /\ UNCHANGED tries

\* if tries == 3 { return err }
LastTry_OneMore(m) == tries[m] > 3
LastTry(m) == tries[m] = 3
TryAgain(m) ==
  /\ ~LastTry(m)
  /\ tries' = [tries EXCEPT ![m] = @ + 1]
  /\ UNCHANGED <<at, result>>

\* A call is at an end without success: its error is returned at once, or the
\* last attempt has failed.
GivesUp(m, o) == o.answer = "give up" \/ (o.answer = "again" /\ LastTry(m))

Panic ==
  /\ alive' = FALSE
  /\ UNCHANGED <<req, at, tries, part, buf, done, result, upload, parts, dest>>

store == <<upload, parts, dest>>
locals == <<part, buf, done>>

Init ==
  /\ req \in Requests
  /\ alive = TRUE
  /\ at = [m \in Movers |-> "begin"]
  /\ tries = [m \in Movers |-> 1]
  /\ part = [m \in Movers |-> 1]
  /\ buf = [m \in Movers |-> NoPiece]
  /\ done = [m \in Movers |-> <<>>]
  /\ result = [m \in Movers |-> "none"]
  /\ upload = [m \in Movers |-> "none"]
  /\ parts = [m \in Movers |-> [p \in PartNumbers |-> NoPiece]]
  /\ dest = NoObject

\* obj.Size <= PART_SIZE goes to moveObj, which has nothing to do for size 0.
Direct == req.size <= PartSize
Begin(m) ==
  /\ alive /\ at[m] = "begin"
  /\ IF req.size = 0 THEN Return(m, "ok")
     ELSE /\ Goto(m, IF Direct THEN "download" ELSE "range")
          /\ UNCHANGED result
  /\ UNCHANGED <<req, alive, locals, store>>

\* A client of a store is made before its first call, which only the one of
\* ceph does without looking at the credentials.
NewClient(m) ==
  \/ req.src # "ceph" /\ (at[m] = "download" \/ (at[m] = "range" /\ part[m] = 1))
  \/ req.dest # "ceph" /\ at[m] \in {"upload", "init"}
NoClient(m) ==
  /\ alive /\ NewClient(m) /\ tries[m] = 1
  /\ Return(m, "no client")
  /\ UNCHANGED <<req, alive, locals, store>>

\* What a call leads to when it has not succeeded.
Unsuccessful(m, o, r) ==
  IF GivesUp(m, o) THEN Return(m, r) ELSE TryAgain(m)

Download(m) ==
  /\ alive /\ at[m] = "download"
  /\ \E o \in DownloadObj :
       IF o.answer = "panic" THEN Panic
       ELSE /\ IF o.answer = "ok"
               THEN /\ buf' = [buf EXCEPT ![m] = o.got]
                    /\ Goto(m, "upload")
                    /\ UNCHANGED result
               ELSE Unsuccessful(m, o, "download") /\ UNCHANGED buf
            /\ UNCHANGED <<req, alive, part, done, store>>

\* The object appears under the right key or under a wrong one.
Upload(m) ==
  /\ alive /\ at[m] = "upload"
  /\ \E o \in UploadObj(m) :
       /\ dest' = IF o.stored /\ UploadKeyRight THEN <<o.piece>> ELSE dest
       /\ IF o.answer = "ok" THEN Return(m, "ok") ELSE Unsuccessful(m, o, "upload")
  /\ UNCHANGED <<req, alive, locals, upload, parts>>

\* A part that has been read in full goes on to the upload, which is begun
\* with the first part.
ReadPart(m) ==
  /\ alive /\ at[m] = "range"
  /\ \E o \in DownloadRange(part[m]) :
       IF o.answer = "panic" THEN Panic
       ELSE /\ IF o.answer # "ok" THEN Unsuccessful(m, o, "download") /\ UNCHANGED buf
               ELSE /\ buf' = [buf EXCEPT ![m] = o.got]
                    /\ IF o.read # CurrPartSize(part[m]) THEN Return(m, "size")
                       ELSE /\ Goto(m, IF part[m] = 1 THEN "init" ELSE "part")
                            /\ UNCHANGED result
            /\ UNCHANGED <<req, alive, part, done, store>>

\* An upload whose id is lost with the answer stays open, unknown to all.
InitUpload(m) ==
  /\ alive /\ at[m] = "init"
  /\ \E o \in MultiPartUploadInit :
       /\ upload' = [upload EXCEPT ![m] = IF o.stored /\ o.answer = "ok" THEN "open" ELSE @]
       /\ IF o.answer = "ok" THEN Goto(m, "part") /\ UNCHANGED result
          ELSE Unsuccessful(m, o, "init")
  /\ UNCHANGED <<req, alive, locals, parts, dest>>

\* A blob has one list of blocks, whoever has sent them.
InStore(m, x) == x = m \/ req.dest = "azure"
Stored(m, o) ==
  [x \in Movers |-> IF o.stored /\ InStore(m, x)
                    THEN [parts[x] EXCEPT ![part[m]] = o.piece] ELSE parts[x]]

\* A call that fails for good aborts the upload.
AbortAfter_Returns(m, o, r) == Unsuccessful(m, o, r)
AbortAfter(m, o, r) ==
  IF GivesUp(m, o)
  THEN Goto(m, "abort") /\ result' = [result EXCEPT ![m] = r]
  ELSE TryAgain(m)

\* ceph's answer names no part when the store has taken none.
Listed_LastOnly(m, o) == <<part[m]>>
Listed(m, o) == Append(done[m], IF o.stored THEN part[m] ELSE 0)

SendPart(m) ==
  /\ alive /\ at[m] = "part"
  /\ \E o \in UploadPart(m) :
       /\ parts' = Stored(m, o)
       /\ IF o.answer = "ok"
          THEN /\ done' = [done EXCEPT ![m] = Listed(m, o)]
               /\ part' = [part EXCEPT ![m] = @ + 1]
               /\ Goto(m, IF part[m] = PartCount THEN "complete" ELSE "range")
               /\ UNCHANGED result
          ELSE AbortAfter(m, o, "upload") /\ UNCHANGED <<done, part>>
  /\ UNCHANGED <<req, alive, buf, upload, dest>>

\* The store puts the parts together in the order of the list.
Together(m) == [i \in 1..Len(done[m]) |-> parts[m][done[m][i]]]

Complete(m) ==
  /\ alive /\ at[m] = "complete"
  /\ \E o \in CompleteMultipartUpload(m) :
       /\ IF o.stored
          THEN dest' = Together(m) /\ upload' = [upload EXCEPT ![m] = "completed"]
          ELSE UNCHANGED <<dest, upload>>
       /\ IF o.answer = "ok" THEN Return(m, "ok") ELSE AbortAfter(m, o, "complete")
  /\ UNCHANGED <<req, alive, locals, parts>>

\* multipartMoveObj returns the first error, whatever becomes of the abort.
Abort(m) ==
  /\ alive /\ at[m] = "abort"
  /\ \E o \in AbortMultipartUpload(m) :
       IF o.answer = "panic" THEN Panic
       ELSE /\ upload' = [upload EXCEPT ![m] = IF o.stored THEN "aborted" ELSE @]
            /\ IF o.answer = "ok" \/ GivesUp(m, o) THEN Return(m, result[m]) ELSE TryAgain(m)
            /\ UNCHANGED <<req, alive, locals, parts, dest>>

Terminated ==
  /\ ~alive \/ \A m \in Movers : at[m] = "returned"
  /\ UNCHANGED vars

Move(m) == \/ Begin(m) \/ NoClient(m) \/ Download(m) \/ Upload(m) \/ ReadPart(m)
           \/ InitUpload(m) \/ SendPart(m) \/ Complete(m) \/ Abort(m)

Next == (\E m \in Movers : Move(m)) \/ Terminated

Spec == Init /\ [][Next]_vars

-----------------------------------------------------------------------------
(* Properties *)

ControlTypes ==
  /\ req \in Request
  /\ at \in [Movers -> {"begin", "download", "upload", "range", "init", "part",
                        "complete", "abort", "returned"}]
  /\ tries \in [Movers -> 1..3]
  /\ result \in [Movers -> {"none", "ok", "no client", "download", "size", "init",
                            "upload", "complete"}]
  /\ upload \in [Movers -> {"none", "open", "aborted", "completed"}]
DataTypes ==
  /\ part \in [Movers -> Nat]
  /\ buf \in [Movers -> Pieces]
  /\ done \in [Movers -> Seq(Nat)]
  /\ parts \in [Movers -> [PartNumbers -> Pieces]]
  /\ dest \in Seq(Pieces)
TypeOK == alive \in BOOLEAN /\ ControlTypes /\ DataTypes

\* The object holds the bytes of the source, all and in order.
IsWhole(object) ==
  /\ object # NoObject
  /\ object[1].from = 0 /\ object[Len(object)].to = req.size - 1
  /\ \A i \in 1..(Len(object) - 1) : object[i + 1].from = object[i].to + 1

\* What the code can be relied on for: a destination whose client sends every
\* attempt from the first byte and takes no refusal for success; a source that
\* is read into the right place of the buffer; and the right key.
Reliable ==
  /\ req.dest \in {"aws", "azure"}
  /\ Direct => UploadKeyRight
  /\ req.src = "obs" => Direct

\* An object that counts as moved is at the destination with all its bytes,
\* whatever was tried again, answered late or sent by two movers at once.
PassedIsThere ==
  Reliable => \A m \in Movers : result[m] = "ok" /\ req.size > 0 => IsWhole(dest)

\* As PassedIsThere, for all stores and keys: what openapi-spec/swagger.yaml:919
\* says of the objects counted.
PassedIsMigrated ==
  \A m \in Movers : result[m] = "ok" /\ req.size > 0 => IsWhole(dest)

\* A transfer that returns leaves an upload open in the store only when a later
\* part could not be read, when the abort went to another key, or when the
\* abort itself was tried three times (multipartMoveObj aborts after a failed
\* part and a failed completion); one that counts as moved leaves none.
OpenUploadsAccounted ==
  [][\A m \in Movers :
       req.dest # "ceph" /\ at[m] # "returned" /\ at'[m] = "returned" /\ upload'[m] = "open" =>
         /\ result'[m] # "ok"
         /\ at[m] = "range" \/ (at[m] = "abort" /\ (AbortKeyRight => LastTry(m)))]_vars

\* An object of no bytes needs not be brought.
There ==
  IF req.size = 0 \/ IsWhole(dest) THEN "whole" ELSE IF dest = NoObject THEN "nothing" ELSE "part"
AnswerOf(m) ==
  IF at[m] # "returned" THEN "none" ELSE IF result[m] = "ok" THEN "passed" ELSE "failed"
Object == INSTANCE MoveObject WITH
            Transfers <- Movers, there <- There, answer <- [m \in Movers |-> AnswerOf(m)]

\* The calls, attempts, parts and aborts of all movers together do to the object
\* what MoveObject says of a transfer, and Migration of its step Transfer: it is
\* brought whole, in one step, by a transfer that has not answered, also when one
\* fails later or two overlap, and is never taken away or cut; each transfer
\* answers once, and truly.
MovesObject == (Reliable => Object!Init) /\ [][Reliable => Object!Next]_(Object!vars)
=============================================================================
