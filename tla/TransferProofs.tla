--------------------------- MODULE TransferProofs ---------------------------
(***************************************************************************)
(* What moveObj and multipartMoveObj can be relied on for, for any number  *)
(* of movers, any size and any size of the parts.                          *)
(***************************************************************************)
EXTENDS ObjectTransfer, SequenceTheorems, TLAPS

Downloads == [answer : {"ok", "again", "give up", "panic"}, got : Pieces, read : Int]
Uploads == [answer : {"ok", "again", "panic"}, stored : BOOLEAN, piece : Pieces]

LEMMA PieceTypes ==
  ASSUME req \in Request
  PROVE  /\ NoPiece \in Pieces /\ Mixed \in Pieces /\ All \in Pieces
         /\ PartCount \in Int
         /\ \A p \in Nat : /\ PieceOf(p) \in Pieces /\ CurrPartSize(p) \in Int
                           /\ Bytes(PieceOf(p)) = CurrPartSize(p)
         /\ \A k \in Int : [All EXCEPT !.from = k] \in Pieces
<1>. req.size \in Nat
  BY DEF Request
<1>1. NoPiece \in Pieces /\ Mixed \in Pieces /\ All \in Pieces
  BY DEF NoPiece, Mixed, All, From, Piece, Pieces
<1>2. PartCount \in Int
  BY PartSizeAssumption DEF PartCount
<1>3. ASSUME NEW p \in Nat
      PROVE  /\ PieceOf(p) \in Pieces /\ CurrPartSize(p) \in Int
             /\ Bytes(PieceOf(p)) = CurrPartSize(p)
  <2>1. Offset(p) \in Int
    BY PartSizeAssumption DEF Offset
  <2>2. CurrPartSize(p) \in Int
    BY <2>1, PartSizeAssumption DEF CurrPartSize
  <2>. QED  BY <2>1, <2>2 DEF PieceOf, Piece, Pieces, Bytes
<1>4. \A k \in Int : [All EXCEPT !.from = k] \in Pieces
  BY <1>1 DEF Pieces
<1>. QED  BY <1>1, <1>2, <1>3, <1>4

\* A lookup by the kind of store.
LEMMA ByType ==
  ASSUME NEW a, NEW b, NEW c, NEW d, NEW t \in StorType
  PROVE  [aws |-> a, obs |-> b, azure |-> c, ceph |-> d][t] \in {a, b, c, d}
BY DEF StorType

\* What the downloads may end in is of the right kind.
LEMMA DownloadTypes ==
  ASSUME req \in Request
  PROVE  DownloadObj \subseteq Downloads /\ \A p \in Nat : DownloadRange(p) \subseteq Downloads
<1>. req.size \in Nat /\ req.src \in StorType
  BY DEF Request
<1>1. ReadAll(All) \in Downloads
  BY PieceTypes DEF Downloads, ReadAll, Read, Bytes, Pieces
<1>2. NotRead("again") \in Downloads /\ NotRead("give up") \in Downloads /\ NotRead("panic") \in Downloads
  <2>1. NoPiece \in Pieces
    BY PieceTypes
  <2>. QED  BY <2>1 DEF Downloads, NotRead
<1>3. DownloadObj \subseteq Downloads
  <2>1. DownloadObj \in {S3DownloadObj, ObsDownloadObj, BlobDownloadObj, CephDownloadObj}
    BY ByType DEF DownloadObj
  <2>. QED  BY <1>1, <1>2, <2>1 DEF S3DownloadObj, ObsDownloadObj, BlobDownloadObj, CephDownloadObj
<1>4. ASSUME NEW p \in Nat PROVE DownloadRange(p) \subseteq Downloads
  <2>1. ReadAll(PieceOf(p)) \in Downloads
    BY PieceTypes DEF Downloads, ReadAll, Read, Bytes, Pieces
  <2>2. Mixed \in Pieces /\ Bytes(PieceOf(p)) \in Int
    BY PieceTypes
  <2>3. Read(Mixed, req.size) \in Downloads /\ Read(Mixed, Bytes(PieceOf(p))) \in Downloads
    BY <2>2 DEF Downloads, Read
  <2>4. DownloadRange(p) \in {S3DownloadRange(p), ObsDownloadRange(p), BlobDownloadRange(p), CephDownloadRange(p)}
    BY ByType DEF DownloadRange
  <2>. QED  BY <1>2, <2>1, <2>3, <2>4
            DEF S3DownloadRange, ObsDownloadRange, BlobDownloadRange, CephDownloadRange
<1>. QED  BY <1>3, <1>4

LEMMA TriedTypes ==
  ASSUME NEW piece \in Pieces
  PROVE  Tried(piece) \subseteq Uploads
         /\ \A a \in {"ok", "again", "panic"} : NotSent(a) \in Uploads
BY DEF Tried, Sent, NotSent, NoPiece, Piece, Pieces, Uploads

\* ... and so is what the uploads may end in.
LEMMA UploadTypes ==
  ASSUME ControlTypes, DataTypes, NEW m \in Movers
  PROVE  /\ UploadObj(m) \subseteq Uploads /\ MultiPartUploadInit \subseteq Uploads
         /\ UploadPart(m) \subseteq Uploads /\ CompleteMultipartUpload(m) \subseteq Uploads
         /\ AbortMultipartUpload(m) \subseteq Uploads
<1>. req \in Request /\ req.dest \in StorType /\ req.size \in Nat /\ buf[m] \in Pieces
  BY DEF ControlTypes, DataTypes, Request
<1>1. Tried(buf[m]) \subseteq Uploads /\ Tried(NoPiece) \subseteq Uploads
      /\ \A a \in {"ok", "again", "panic"} : NotSent(a) \in Uploads
  BY TriedTypes, PieceTypes
<1>2. ObsUploadObj(buf[m], tries[m]) \subseteq Uploads
  <2>1. \A k \in 0..req.size : Tried([buf[m] EXCEPT !.from = k]) \subseteq Uploads
    <3>. SUFFICES ASSUME NEW k \in 0..req.size PROVE Tried([buf[m] EXCEPT !.from = k]) \subseteq Uploads
      OBVIOUS
    <3>1. [buf[m] EXCEPT !.from = k] \in Pieces
      BY DEF Pieces
    <3>. QED  BY <3>1, TriedTypes
  <2>2. (IF tries[m] = 1 THEN {0} ELSE 0..req.size) \subseteq 0..req.size
    OBVIOUS
  <2>. QED  BY <2>1, <2>2, Zenon DEF ObsUploadObj
<1>3. UploadObj(m) \subseteq Uploads
  BY <1>1, <1>2 DEF UploadObj, S3UploadObj, BlobUploadObj, CephUploadObj, StorType
<1>4. MultiPartUploadInit \subseteq Uploads
  BY <1>1 DEF MultiPartUploadInit, S3UploadInit, ObsUploadInit, BlobUploadInit, CephUploadInit, StorType
<1>5. UploadPart(m) \subseteq Uploads
  BY <1>1 DEF UploadPart, S3UploadPart, ObsUploadPart, BlobUploadPart, CephUploadPart, StorType
<1>6. CompleteMultipartUpload(m) \subseteq Uploads
  <2>1. \A r, f : Asked(r, f) \subseteq Uploads
    BY <1>1 DEF Asked
  <2>2. \E r, f : CompleteMultipartUpload(m) \in {S3Complete(r, f), ObsComplete(r, f), BlobComplete(r), CephComplete(r, f)}
    <3>. DEFINE ready == Named(m) /\ upload[m] = "open"
                finished == upload[m] = "completed"
    <3>1. CompleteMultipartUpload(m) \in
            {S3Complete(ready, finished), ObsComplete(ready, finished), BlobComplete(Named(m)), CephComplete(ready, finished)}
      BY ByType DEF CompleteMultipartUpload
    <3>. QED  BY <3>1 DEF S3Complete, ObsComplete, BlobComplete, CephComplete
  <2>. QED  BY <1>1, <2>1, <2>2 DEF S3Complete, ObsComplete, BlobComplete, CephComplete
<1>7. AbortMultipartUpload(m) \subseteq Uploads
  BY <1>1 DEF AbortMultipartUpload, S3Abort, ObsAbort, BlobAbort, CephAbort, StorType
<1>. QED  BY <1>3, <1>4, <1>5, <1>6, <1>7

-----------------------------------------------------------------------------
(* Types *)

LEMMA TypeInit == Init => TypeOK
<1>. SUFFICES ASSUME Init PROVE TypeOK
  OBVIOUS
<1>1. req \in Request
  BY RequestsAssumption DEF Init
<1>2. ControlTypes
  BY <1>1 DEF Init, ControlTypes
<1>3. DataTypes
  BY <1>1, PieceTypes DEF Init, DataTypes, NoObject
<1>4. alive \in BOOLEAN
  BY DEF Init
<1>. QED  BY <1>2, <1>3, <1>4 DEF TypeOK

\* The small steps that the actions are made of.
LEMMA OneMoreTry == \A n \in 1..3 : n # 3 => n + 1 \in 1..3
OBVIOUS

Uploaded == {"none", "open", "aborted", "completed"}
Results == {"none", "ok", "no client", "download", "size", "init", "upload", "complete"}

LEMMA TryAgainTypes ==
  ASSUME ControlTypes, UNCHANGED req, NEW m \in Movers, upload' \in [Movers -> Uploaded], TryAgain(m)
  PROVE  ControlTypes'
<1>1. tries[m] \in 1..3 /\ tries[m] # 3
  BY DEF ControlTypes, TryAgain, LastTry
<1>2. tries[m] + 1 \in 1..3
  BY <1>1, OneMoreTry
<1>3. tries' \in [Movers -> 1..3]
  BY <1>2 DEF ControlTypes, TryAgain
<1>. QED  BY <1>3 DEF ControlTypes, TryAgain, Uploaded

LEMMA GotoTypes ==
  ASSUME ControlTypes, UNCHANGED req, NEW m \in Movers, upload' \in [Movers -> Uploaded],
         NEW s \in {"download", "upload", "range", "init", "part", "complete", "abort"},
         Goto(m, s), result' \in [Movers -> Results]
  PROVE  ControlTypes'
<1>0. tries \in [Movers -> 1..3]
  BY DEF ControlTypes
<1>1. 1 \in 1..3
  OBVIOUS
<1>2. tries' \in [Movers -> 1..3]
  BY <1>0, <1>1 DEF Goto
<1>3. at' \in [Movers -> {"begin", "download", "upload", "range", "init", "part",
                         "complete", "abort", "returned"}]
  BY DEF ControlTypes, Goto
<1>. QED  BY <1>2, <1>3 DEF ControlTypes, Uploaded, Results

LEMMA ReturnTypes ==
  ASSUME ControlTypes, UNCHANGED req, NEW m \in Movers, upload' \in [Movers -> Uploaded],
         NEW r \in Results, Return(m, r)
  PROVE  ControlTypes'
BY DEF ControlTypes, Return, Uploaded, Results

LEMMA ControlSteps ==
  ASSUME ControlTypes, UNCHANGED req, NEW m \in Movers, upload' \in [Movers -> Uploaded],
         \/ \E s \in {"download", "upload", "range", "init", "part", "complete"} :
              Goto(m, s) /\ UNCHANGED result
         \/ \E r \in Results : Return(m, r) \/ (Goto(m, "abort") /\ result' = [result EXCEPT ![m] = r])
         \/ TryAgain(m)
  PROVE  ControlTypes'
<1>0. result \in [Movers -> Results]
  BY DEF ControlTypes, Results
<1>1. ASSUME NEW s \in {"download", "upload", "range", "init", "part", "complete"}, Goto(m, s), UNCHANGED result
      PROVE  ControlTypes'
  BY <1>0, <1>1, GotoTypes
<1>2. ASSUME NEW r \in Results, Goto(m, "abort"), result' = [result EXCEPT ![m] = r]
      PROVE  ControlTypes'
  BY <1>0, <1>2, GotoTypes
<1>. QED  BY <1>1, <1>2, TryAgainTypes, ReturnTypes

LEMMA PanicTypes == ASSUME TypeOK, Panic PROVE TypeOK'
BY DEF TypeOK, ControlTypes, DataTypes, Panic, PartNumbers, PartCount

LEMMA ControlNext ==
  ASSUME ControlTypes, NEW m \in Movers, Move(m), ~Panic
  PROVE  ControlTypes' /\ UNCHANGED <<req, alive>>
<1>0. upload \in [Movers -> Uploaded] /\ result[m] \in Results
      /\ {"ok", "no client", "download", "size", "init", "upload", "complete"} \subseteq Results
  BY DEF ControlTypes, Uploaded, Results
<1>1. CASE Begin(m)
  BY <1>0, <1>1, ControlSteps DEF Begin, store
<1>2. CASE NoClient(m)
  BY <1>0, <1>2, ControlSteps DEF NoClient, store
<1>3. CASE Download(m)
  BY <1>0, <1>3, ControlSteps DEF Download, Unsuccessful, store
<1>4. CASE Upload(m)
  BY <1>0, <1>4, ControlSteps DEF Upload, Unsuccessful
<1>5. CASE ReadPart(m)
  <2>1. \/ TryAgain(m) \/ Return(m, "download") \/ Return(m, "size")
        \/ (Goto(m, "init") \/ Goto(m, "part")) /\ UNCHANGED result
    BY <1>5 DEF ReadPart, Unsuccessful
  <2>2. UNCHANGED <<req, alive, upload>>
    BY <1>5 DEF ReadPart, store
  <2>. QED  BY <1>0, <2>1, <2>2, ControlSteps
<1>6. CASE InitUpload(m)
  <2>1. upload' \in [Movers -> Uploaded]
    BY <1>0, <1>6 DEF InitUpload, Uploaded
  <2>. QED  BY <1>0, <1>6, <2>1, ControlSteps DEF InitUpload, Unsuccessful
<1>7. CASE SendPart(m)
  BY <1>0, <1>7, ControlSteps DEF SendPart, AbortAfter
<1>8. CASE Complete(m)
  <2>1. upload' \in [Movers -> Uploaded]
    BY <1>0, <1>8 DEF Complete, Uploaded
  <2>. QED  BY <1>0, <1>8, <2>1, ControlSteps DEF Complete, AbortAfter
<1>9. CASE Abort(m)
  <2>1. upload' \in [Movers -> Uploaded]
    BY <1>0, <1>9 DEF Abort, Uploaded
  <2>2. UNCHANGED <<req, alive>> /\ (Return(m, result[m]) \/ TryAgain(m))
    BY <1>9 DEF Abort
  <2>. QED  BY <1>0, <2>1, <2>2, ControlSteps
<1>. QED  BY <1>1, <1>2, <1>3, <1>4, <1>5, <1>6, <1>7, <1>8, <1>9 DEF Move

-----------------------------------------------------------------------------
\* A store that puts parts together has them all.
LEMMA StoredNamed ==
  ASSUME TypeOK, NEW m \in Movers, NEW o \in CompleteMultipartUpload(m), o.stored
  PROVE  Named(m)
<1>. req.dest \in StorType
  BY DEF TypeOK, ControlTypes, Request
<1>1. \A ready, finished \in BOOLEAN : \A x \in Asked(ready, finished) : x.stored => ready
  BY DEF Asked, NotSent
<1>2. CASE o \in BlobComplete(Named(m))
  BY <1>2 DEF BlobComplete, Asked, NotSent
<1>. DEFINE ready == Named(m) /\ upload[m] = "open"
            finished == upload[m] = "completed"
<1>3. CASE o \in Asked(ready, finished)
  BY <1>3, <1>1
<1>4. CASE o = NotSent("ok")
  BY <1>4 DEF NotSent
<1>5. CompleteMultipartUpload(m) \in
        {S3Complete(ready, finished), ObsComplete(ready, finished), BlobComplete(Named(m)), CephComplete(ready, finished)}
  BY ByType DEF CompleteMultipartUpload
<1>. QED  BY <1>2, <1>3, <1>4, <1>5 DEF S3Complete, ObsComplete, CephComplete

\* What the store and the mover hold after a step is of the right type.
LEMMA DestTypes ==
  ASSUME TypeOK, NEW m \in Movers, Move(m), ~Panic
  PROVE  dest' \in Seq(Pieces)
<1>. dest \in Seq(Pieces) /\ ControlTypes /\ DataTypes /\ req \in Request
  BY DEF TypeOK, DataTypes, ControlTypes
<1>1. CASE Upload(m)
  <2>1. PICK o \in UploadObj(m) : dest' = IF o.stored /\ UploadKeyRight THEN <<o.piece>> ELSE dest
    BY <1>1 DEF Upload
  <2>2. o.piece \in Pieces
    BY <2>1, UploadTypes DEF Uploads
  <2>3. <<o.piece>> \in Seq(Pieces)
    BY <2>2
  <2>. QED  BY <2>1, <2>3
<1>2. CASE Complete(m)
  <2>1. dest' = dest \/ (dest' = Together(m) /\ Named(m))
    BY <1>2, StoredNamed DEF Complete
  <2>2. CASE dest' = Together(m) /\ Named(m)
    <3>1. \A i \in 1..Len(done[m]) : parts[m][done[m][i]] \in Pieces
      BY <2>2 DEF Named, DataTypes
    <3>2. Len(done[m]) \in Nat
      BY DEF DataTypes
    <3>. QED  BY <2>2, <3>1, <3>2, IsASeq DEF Together
  <2>. QED BY <2>1, <2>2
<1>. QED  BY <1>1, <1>2 DEF Move, Begin, NoClient, Download, ReadPart, InitUpload, SendPart, Abort, store, Panic

\* PartNumbers is what the step leaves it.
LEMMA SamePartNumbers == req' = req => PartNumbers' = PartNumbers
BY DEF PartNumbers, PartCount

LEMMA PartsTypes ==
  ASSUME TypeOK, NEW m \in Movers, Move(m), ~Panic
  PROVE  parts' \in [Movers -> [PartNumbers -> Pieces]]
<1>. parts \in [Movers -> [PartNumbers -> Pieces]] /\ ControlTypes /\ DataTypes
  BY DEF TypeOK, DataTypes
<1>1. CASE SendPart(m)
  <2>1. PICK o \in UploadPart(m) : parts' = Stored(m, o)
    BY <1>1 DEF SendPart
  <2>2. o.piece \in Pieces
    BY <2>1, UploadTypes DEF Uploads
  <2>3. \A x \in Movers : [parts[x] EXCEPT ![part[m]] = o.piece] \in [PartNumbers -> Pieces]
    BY <2>2
  <2>. QED  BY <2>1, <2>3 DEF Stored
<1>. QED  BY <1>1 DEF Move, Begin, NoClient, Download, Upload, ReadPart, InitUpload, Complete, Abort, store, Panic

LEMMA LocalTypes ==
  ASSUME TypeOK, NEW m \in Movers, Move(m), ~Panic
  PROVE  /\ part' \in [Movers -> Nat]
         /\ buf' \in [Movers -> Pieces]
         /\ done' \in [Movers -> Seq(Nat)]
<1>. /\ ControlTypes /\ DataTypes /\ req \in Request
     /\ part \in [Movers -> Nat] /\ buf \in [Movers -> Pieces] /\ done \in [Movers -> Seq(Nat)]
  BY DEF TypeOK, DataTypes, ControlTypes
<1>1. CASE Download(m)
  <2>1. PICK o \in DownloadObj : buf' = [buf EXCEPT ![m] = o.got] \/ buf' = buf
    BY <1>1 DEF Download
  <2>2. o.got \in Pieces
    BY <2>1, DownloadTypes DEF Downloads
  <2>. QED  BY <1>1, <2>1, <2>2 DEF Download
<1>2. CASE ReadPart(m)
  <2>1. PICK o \in DownloadRange(part[m]) : buf' = [buf EXCEPT ![m] = o.got] \/ buf' = buf
    BY <1>2 DEF ReadPart
  <2>0. o \in Downloads
    <3>1. part[m] \in Nat
      OBVIOUS
    <3>2. DownloadRange(part[m]) \subseteq Downloads
      BY <3>1, DownloadTypes
    <3>. QED  BY <3>2
  <2>2. o.got \in Pieces
    BY <2>0 DEF Downloads
  <2>. QED  BY <1>2, <2>1, <2>2 DEF ReadPart
<1>3. CASE SendPart(m)
  <2>1. PICK o \in UploadPart(m) :
          \/ UNCHANGED <<done, part>>
          \/ done' = [done EXCEPT ![m] = Listed(m, o)] /\ part' = [part EXCEPT ![m] = @ + 1]
    BY <1>3 DEF SendPart
  <2>2. Listed(m, o) \in Seq(Nat)
    BY DEF Listed
  <2>3. part[m] + 1 \in Nat
    OBVIOUS
  <2>. QED  BY <1>3, <2>1, <2>2, <2>3 DEF SendPart
<1>. QED  BY <1>1, <1>2, <1>3
          DEF Move, Begin, NoClient, Upload, InitUpload, Complete, Abort, store, locals, Panic

\* Every step keeps the types.
LEMMA TypeNext == TypeOK /\ [Next]_vars => TypeOK'
<1>. SUFFICES ASSUME TypeOK, [Next]_vars PROVE TypeOK'
  OBVIOUS
<1>1. CASE UNCHANGED vars
  BY <1>1 DEF vars, TypeOK, ControlTypes, DataTypes, PartNumbers, PartCount
<1>2. CASE \E m \in Movers : Move(m) /\ ~Panic
  <2>1. PICK m \in Movers : Move(m) /\ ~Panic
    BY <1>2
  <2>2. ControlTypes' /\ UNCHANGED <<req, alive>>
    BY <2>1, ControlNext DEF TypeOK
  <2>3. DataTypes'
    BY <2>1, <2>2, DestTypes, PartsTypes, LocalTypes, SamePartNumbers DEF DataTypes
  <2>. QED  BY <2>2, <2>3 DEF TypeOK
<1>. QED  BY <1>1, <1>2, PanicTypes DEF Next, Terminated

\* The types hold whatever the stores answer.
THEOREM TypeCorrect == Spec => []TypeOK
<1>. QED  BY TypeInit, TypeNext, PTL DEF Spec

-----------------------------------------------------------------------------
(* The whole object or nothing                                             *)
(*                                                                         *)
(* What is said of all bytes follows from where each mover is: what its    *)
(* buffer holds there and which parts it has listed.  Two movers share     *)
(* nothing but the blocks of a blob and the object itself, and both write  *)
(* the same into them.                                                     *)

\* What a mover holds for where it is.
MovingAt(a, b, p, d) ==
  /\ a = "begin" => p = 1 /\ d = <<>>
  /\ a \in {"download", "upload"} => Direct /\ req.size > 0
  /\ a \in {"range", "init", "part", "complete", "abort"} => ~Direct
  /\ a = "upload" => b = All
  /\ a \in {"init", "part"} => b = PieceOf(p)
  /\ a \in {"range", "init", "part"} => p \in PartNumbers /\ Len(d) = p - 1
  /\ a = "complete" => Len(d) = PartCount
  /\ \A i \in 1..Len(d) : d[i] = i
Moving == \A m \in Movers : MovingAt(at[m], buf[m], part[m], done[m])

\* A part in the store is the right one.
PartsRight == \A x \in Movers : \A p \in PartNumbers : parts[x][p] \in {NoPiece, PieceOf(p)}

DestWhole == dest = NoObject \/ IsWhole(dest)

\* A success is of something that is there.
Landed ==
  \A m \in Movers : (result[m] = "ok" /\ req.size > 0) \/ upload[m] = "completed" => dest # NoObject

Inv == Reliable => Moving /\ PartsRight /\ DestWhole /\ Landed

LEMMA Arithmetic ==
  ASSUME NEW n \in Nat, NEW k \in Nat \ {0}, n > k
  PROVE  n \div k + (IF n % k # 0 THEN 1 ELSE 0) \in Nat \ {0}
<1>1. n \div k \in Int /\ n \div k > 0
  OBVIOUS
<1>. QED  BY <1>1

LEMMA SomePart ==
  ASSUME req \in Request, ~Direct
  PROVE  PartCount \in Nat \ {0}
<1>1. req.size \in Nat /\ req.size > PartSize
  BY PartSizeAssumption DEF Request, Direct
<1>. QED  BY <1>1, Arithmetic, PartSizeAssumption DEF PartCount

LEMMA AllIsWhole ==
  ASSUME req \in Request PROVE IsWhole(<<All>>)
BY DEF IsWhole, NoObject, All, From, Piece, Request

\* The parts, in the order of their numbers, are the whole object.
LEMMA PartsMakeWhole ==
  ASSUME req \in Request, PartCount \in Nat \ {0},
         NEW object, object = [i \in PartNumbers |-> PieceOf(i)]
  PROVE  IsWhole(object)
<1>. req.size \in Nat /\ PartSize \in Nat
  BY PartSizeAssumption DEF Request
<1>1. object \in Seq(Pieces) /\ Len(object) = PartCount
  <2>1. \A i \in 1..PartCount : PieceOf(i) \in Pieces
    BY PieceTypes
  <2>. QED  BY <2>1, IsASeq DEF PartNumbers
<1>2. object # NoObject
  BY <1>1 DEF NoObject
<1>3. object[1].from = 0
  BY DEF PartNumbers, PieceOf, Piece, Offset
<1>4. object[PartCount].to = req.size - 1
  <2>1. object[PartCount] = PieceOf(PartCount) /\ Offset(PartCount) \in Int
    BY DEF PartNumbers, Offset
  <2>. QED  BY <2>1 DEF PieceOf, Piece, CurrPartSize
<1>5. ASSUME NEW i \in 1..(PartCount - 1)
      PROVE  object[i + 1].from = object[i].to + 1
  <2>1. object[i + 1] = PieceOf(i + 1) /\ object[i] = PieceOf(i)
    BY DEF PartNumbers
  <2>2. Offset(i + 1) = Offset(i) + PartSize /\ Offset(i) \in Int
    BY DEF Offset
  <2>. QED  BY <2>1, <2>2 DEF PieceOf, Piece, CurrPartSize
<1>. QED  BY <1>1, <1>2, <1>3, <1>4, <1>5 DEF IsWhole

LEMMA InvInit == Init => Inv
<1>. SUFFICES ASSUME Init, Reliable PROVE Moving /\ PartsRight /\ DestWhole /\ Landed
  BY DEF Inv
<1>1. ASSUME NEW m \in Movers PROVE MovingAt(at[m], buf[m], part[m], done[m])
  <2>1. at[m] = "begin" /\ part[m] = 1 /\ done[m] = <<>>
    BY DEF Init
  <2>. QED  BY <2>1 DEF MovingAt
<1>. QED  BY <1>1 DEF Init, Moving, PartsRight, DestWhole, Landed

\* What a download that succeeds has got.
LEMMA Downloaded ==
  ASSUME req \in Request
  PROVE  /\ \A o \in DownloadObj : o.answer = "ok" => o.got = All
         /\ \A p \in Nat : \A o \in DownloadRange(p) :
              req.src # "obs" /\ o.answer = "ok" => o.got = PieceOf(p)
<1>1. \A p : ReadAll(p).got = p
  BY DEF ReadAll, Read
<1>2. NotRead("again").answer # "ok" /\ NotRead("give up").answer # "ok" /\ NotRead("panic").answer # "ok"
  BY DEF NotRead
<1>3. DownloadObj \subseteq {ReadAll(All), NotRead("again"), NotRead("give up"), NotRead("panic")}
  <2>. req.src \in StorType
    BY DEF Request
  <2>1. DownloadObj \in {S3DownloadObj, ObsDownloadObj, BlobDownloadObj, CephDownloadObj}
    BY ByType DEF DownloadObj
  <2>2. CASE DownloadObj = S3DownloadObj
    BY <2>2 DEF S3DownloadObj
  <2>3. CASE DownloadObj = CephDownloadObj
    BY <2>3 DEF CephDownloadObj
  <2>4. CASE DownloadObj \in {ObsDownloadObj, BlobDownloadObj}
    BY <2>4 DEF ObsDownloadObj, BlobDownloadObj
  <2>. QED  BY <2>1, <2>2, <2>3, <2>4
<1>4. ASSUME NEW p \in Nat, req.src # "obs"
      PROVE  DownloadRange(p) \subseteq {ReadAll(PieceOf(p)), NotRead("again"), NotRead("panic")}
  BY <1>4 DEF Request, StorType, DownloadRange, S3DownloadRange, BlobDownloadRange, CephDownloadRange
<1>. QED  BY <1>1, <1>2, <1>3, <1>4

\* What an upload to a reliable store stores is what was in the buffer.
LEMMA Sends ==
  ASSUME TypeOK, Reliable, NEW m \in Movers
  PROVE  /\ \A o \in UploadObj(m) : /\ o.stored => o.piece = buf[m]
                                    /\ o.answer = "ok" => o.stored
         /\ \A o \in UploadPart(m) : /\ o.stored => o.piece = buf[m]
                                     /\ o.answer = "ok" => o.stored
         /\ \A o \in CompleteMultipartUpload(m) : o.answer = "ok" => o.stored \/ upload[m] = "completed"
<1>1. \A piece : \A o \in Tried(piece) \cup {NotSent("again")} :
        (o.stored => o.piece = piece) /\ (o.answer = "ok" => o.stored)
  BY DEF Tried, Sent, NotSent
<1>2. UploadObj(m) \subseteq Tried(buf[m])
  BY DEF Reliable, UploadObj, S3UploadObj, BlobUploadObj
<1>3. UploadPart(m) \subseteq Tried(buf[m]) \cup {NotSent("again")}
  BY DEF Reliable, UploadPart, S3UploadPart, BlobUploadPart
<1>4. ASSUME NEW o \in CompleteMultipartUpload(m), upload[m] # "completed"
      PROVE  o \in Tried(NoPiece) \cup {NotSent("again")}
  BY <1>4 DEF Reliable, CompleteMultipartUpload, S3Complete, BlobComplete, Asked
<1>. QED  BY <1>1, <1>2, <1>3, <1>4

\* The object changes to a whole one only.
LEMMA DestStep ==
  ASSUME TypeOK, Reliable, Moving, PartsRight, NEW m \in Movers, Move(m), ~Panic
  PROVE  dest' = dest \/ IsWhole(dest')
<1>. req \in Request /\ MovingAt(at[m], buf[m], part[m], done[m])
  BY DEF TypeOK, ControlTypes, Moving
<1>1. CASE Upload(m)
  <2>1. PICK o \in UploadObj(m) : dest' = IF o.stored /\ UploadKeyRight THEN <<o.piece>> ELSE dest
    BY <1>1 DEF Upload
  <2>2. buf[m] = All
    BY <1>1 DEF Upload, MovingAt
  <2>3. o.stored => o.piece = All
    BY <2>1, <2>2, Sends
  <2>. QED  BY <2>1, <2>3, AllIsWhole
<1>2. CASE Complete(m)
  <2>1. dest' = dest \/ (dest' = Together(m) /\ Named(m))
    BY <1>2, StoredNamed DEF Complete
  <2>2. ASSUME dest' = Together(m), Named(m) PROVE IsWhole(dest')
    <3>1. ~Direct /\ Len(done[m]) = PartCount /\ \A i \in PartNumbers : done[m][i] = i
      BY <1>2 DEF Complete, MovingAt, PartNumbers
    <3>2. PartCount \in Nat \ {0}
      BY <3>1, SomePart
    <3>3. \A i \in PartNumbers : parts[m][i] = PieceOf(i)
      BY <2>2, <3>1 DEF Named, PartNumbers, PartsRight
    <3>4. Together(m) = [i \in PartNumbers |-> PieceOf(i)]
      BY <3>1, <3>3 DEF Together, PartNumbers
    <3>. QED  BY <2>2, <3>2, <3>4, PartsMakeWhole
  <2>. QED BY <2>1, <2>2
<1>. QED  BY <1>1, <1>2 DEF Move, Begin, NoClient, Download, ReadPart, InitUpload, SendPart, Abort, store, Panic

LEMMA PartsStep ==
  ASSUME TypeOK, Reliable, Moving, PartsRight, NEW m \in Movers, Move(m), ~Panic
  PROVE  PartsRight'
<1>. /\ parts \in [Movers -> [PartNumbers -> Pieces]]
     /\ MovingAt(at[m], buf[m], part[m], done[m])
  BY DEF TypeOK, DataTypes, Moving
<1>0. req' = req
  BY ControlNext DEF TypeOK
<1>1. \A x \in Movers : \A p \in PartNumbers : parts'[x][p] \in {NoPiece, PieceOf(p)}
  <2>1. CASE SendPart(m)
    <3>1. PICK o \in UploadPart(m) : parts' = Stored(m, o)
      BY <2>1 DEF SendPart
    <3>2. buf[m] = PieceOf(part[m])
      BY <2>1 DEF SendPart, MovingAt
    <3>3. o.stored => o.piece = PieceOf(part[m])
      BY <3>1, <3>2, Sends
    <3>. QED  BY <3>1, <3>3 DEF Stored, PartsRight
  <2>. QED  BY <2>1 DEF PartsRight, Move, Begin, NoClient, Download, Upload, ReadPart,
                        InitUpload, Complete, Abort, store, Panic
<1>2. PartNumbers' = PartNumbers /\ \A p : PieceOf(p)' = PieceOf(p)
  BY <1>0 DEF PartNumbers, PartCount, PieceOf, Piece, Offset, CurrPartSize
<1>. QED  BY <1>1, <1>2 DEF PartsRight, NoPiece, Piece

\* A success is declared after the store has answered that the object is there.
LEMMA LandedStep ==
  ASSUME TypeOK, Reliable, Moving, PartsRight, Landed, NEW m \in Movers, Move(m), ~Panic
  PROVE  Landed'
<1>. /\ result \in [Movers -> Results] /\ upload \in [Movers -> Uploaded]
     /\ MovingAt(at[m], buf[m], part[m], done[m]) /\ req \in Request
  BY DEF TypeOK, ControlTypes, Moving, Results, Uploaded
<1>1. req' = req
  BY ControlNext DEF TypeOK
<1>2. dest' = dest \/ IsWhole(dest')
  BY DestStep
<1>3. dest # NoObject => dest' # NoObject
  BY <1>2 DEF IsWhole
<1>4. /\ \A x \in Movers \ {m} : result'[x] = result[x] /\ upload'[x] = upload[x]
      /\ result'[m] = "ok" => result[m] = "ok" \/ req.size = 0 \/ Upload(m) \/ Complete(m)
      /\ upload'[m] = "completed" => upload[m] = "completed" \/ Complete(m)
  BY DEF Move, Begin, NoClient, Download, Upload, ReadPart, InitUpload, SendPart, Complete, Abort,
         Panic, Unsuccessful, AbortAfter, Return, Goto, TryAgain, store
<1>5. CASE Upload(m)
  <2>1. PICK o \in UploadObj(m) :
          /\ dest' = IF o.stored /\ UploadKeyRight THEN <<o.piece>> ELSE dest
          /\ IF o.answer = "ok" THEN Return(m, "ok") ELSE Unsuccessful(m, o, "upload")
    BY <1>5 DEF Upload
  <2>2. o.answer = "ok" => dest' # NoObject
    <3>1. o.answer = "ok" => o.stored
      BY <2>1, Sends
    <3>2. UploadKeyRight
      BY <1>5 DEF Upload, MovingAt, Reliable
    <3>. QED  BY <2>1, <3>1, <3>2 DEF NoObject
  <2>3. result'[m] = "ok" => result[m] = "ok" \/ o.answer = "ok"
    BY <2>1 DEF Unsuccessful, Return, TryAgain
  <2>4. upload' = upload
    BY <1>5 DEF Upload
  <2>. QED  BY <1>1, <1>3, <1>4, <2>2, <2>3, <2>4 DEF Landed
<1>6. CASE Complete(m)
  <2>1. PICK o \in CompleteMultipartUpload(m) :
          /\ IF o.stored
             THEN dest' = Together(m) /\ upload' = [upload EXCEPT ![m] = "completed"]
             ELSE UNCHANGED <<dest, upload>>
          /\ IF o.answer = "ok" THEN Return(m, "ok") ELSE AbortAfter(m, o, "complete")
    BY <1>6 DEF Complete
  <2>2. o.stored => dest' # NoObject
    <3>. SUFFICES ASSUME o.stored PROVE dest' # NoObject
      OBVIOUS
    <3>1. ~Direct /\ Len(done[m]) = PartCount
      BY <1>6 DEF Complete, MovingAt
    <3>2. PartCount \in Nat \ {0}
      BY <3>1, SomePart
    <3>3. Together(m) \in Seq(Pieces) /\ Len(Together(m)) = PartCount
      <4>1. \A i \in 1..Len(done[m]) : parts[m][done[m][i]] \in Pieces
        <5>1. Named(m)
          BY StoredNamed, <2>1
        <5>. QED  BY <5>1 DEF Named, TypeOK, DataTypes
      <4>. QED  BY <3>1, <3>2, <4>1, IsASeq DEF Together
    <3>. QED  BY <2>1, <3>2, <3>3 DEF NoObject
  <2>3. o.answer = "ok" => o.stored \/ upload[m] = "completed"
    BY <2>1, Sends
  <2>4. /\ result'[m] = "ok" => result[m] = "ok" \/ o.answer = "ok"
        /\ upload'[m] = "completed" => upload[m] = "completed" \/ o.stored
    BY <2>1 DEF AbortAfter, Return, TryAgain, Goto
  <2>. QED  BY <1>1, <1>3, <1>4, <2>2, <2>3, <2>4 DEF Landed
<1>. QED  BY <1>1, <1>3, <1>4, <1>5, <1>6 DEF Landed

\* A step of one mover leaves what the others have.
LEMMA OthersRest ==
  ASSUME TypeOK, NEW m \in Movers, Move(m), ~Panic, NEW x \in Movers, x # m
  PROVE  /\ at'[x] = at[x] /\ buf'[x] = buf[x] /\ part'[x] = part[x] /\ done'[x] = done[x]
         /\ result'[x] = result[x] /\ upload'[x] = upload[x]
<1>0. /\ x \in DOMAIN at /\ x \in DOMAIN buf /\ x \in DOMAIN part
      /\ x \in DOMAIN done /\ x \in DOMAIN result /\ x \in DOMAIN upload
  BY DEF TypeOK, ControlTypes, DataTypes
<1>. USE <1>0 DEF Unsuccessful, AbortAfter, Return, Goto, TryAgain
<1>1. CASE Begin(m)
  BY <1>1 DEF Begin, locals, store
<1>2. CASE NoClient(m)
  BY <1>2 DEF NoClient, locals, store
<1>3. CASE Download(m)
  BY <1>3 DEF Download, store, Panic
<1>4. CASE Upload(m)
  BY <1>4 DEF Upload, locals
<1>5. CASE ReadPart(m)
  BY <1>5 DEF ReadPart, store, Panic
<1>6. CASE InitUpload(m)
  BY <1>6 DEF InitUpload, locals
<1>7. CASE SendPart(m)
  BY <1>7 DEF SendPart
<1>8. CASE Complete(m)
  BY <1>8 DEF Complete, locals
<1>9. CASE Abort(m)
  BY <1>9 DEF Abort, locals, Panic
<1>. QED  BY <1>1, <1>2, <1>3, <1>4, <1>5, <1>6, <1>7, <1>8, <1>9 DEF Move

\* A mover keeps what it holds.
LEMMA MovingAtStep ==
  ASSUME TypeOK, Reliable, NEW m \in Movers, MovingAt(at[m], buf[m], part[m], done[m]),
         Move(m), ~Panic
  PROVE  MovingAt(at'[m], buf'[m], part'[m], done'[m])
<1>. /\ req \in Request /\ req.size \in Nat
     /\ m \in DOMAIN at /\ m \in DOMAIN buf /\ m \in DOMAIN part /\ m \in DOMAIN done
     /\ part[m] \in Nat /\ done[m] \in Seq(Nat)
  BY DEF TypeOK, ControlTypes, DataTypes, Request
<1>0. ASSUME UNCHANGED locals, \/ at'[m] \in {at[m], "returned"}
                               \/ at'[m] = "abort" /\ ~Direct
      PROVE  MovingAt(at'[m], buf'[m], part'[m], done'[m])
  BY <1>0 DEF MovingAt, locals
<1>1. CASE Begin(m)
  <2>1. part[m] = 1 /\ done[m] = <<>> /\ UNCHANGED locals
    BY <1>1 DEF Begin, MovingAt
  <2>2. CASE at'[m] = "range" /\ ~Direct
    <3>1. 1 \in PartNumbers
      BY <2>2, SomePart DEF PartNumbers
    <3>. QED  BY <2>1, <2>2, <3>1 DEF MovingAt, locals
  <2>3. CASE at'[m] = "download" /\ Direct /\ req.size # 0
    BY <2>1, <2>3 DEF MovingAt, locals
  <2>. QED  BY <1>0, <1>1, <2>1, <2>2, <2>3 DEF Begin, Return, Goto
<1>2. CASE NoClient(m)
  BY <1>0, <1>2 DEF NoClient, Return
<1>3. CASE Download(m)
  <2>1. PICK o \in DownloadObj :
          IF o.answer = "ok"
          THEN buf' = [buf EXCEPT ![m] = o.got] /\ Goto(m, "upload")
          ELSE Unsuccessful(m, o, "download") /\ UNCHANGED buf
    BY <1>3 DEF Download
  <2>2. UNCHANGED <<part, done>> /\ at[m] = "download"
    BY <1>3 DEF Download
  <2>3. CASE o.answer = "ok"
    <3>1. o.got = All
      BY <2>1, <2>3, Downloaded
    <3>2. at'[m] = "upload" /\ buf'[m] = All
      BY <2>1, <2>3, <3>1 DEF Goto
    <3>. QED  BY <2>2, <3>2 DEF MovingAt
  <2>. QED  BY <1>0, <2>1, <2>2, <2>3 DEF Unsuccessful, Return, TryAgain, locals
<1>4. CASE Upload(m)
  BY <1>0, <1>4 DEF Upload, Unsuccessful, Return, TryAgain
<1>5. CASE ReadPart(m)
  <2>1. PICK o \in DownloadRange(part[m]) :
          IF o.answer # "ok" THEN Unsuccessful(m, o, "download") /\ UNCHANGED buf
          ELSE /\ buf' = [buf EXCEPT ![m] = o.got]
               /\ IF o.read # CurrPartSize(part[m]) THEN Return(m, "size")
                  ELSE Goto(m, IF part[m] = 1 THEN "init" ELSE "part")
    BY <1>5 DEF ReadPart
  <2>2. UNCHANGED <<part, done>> /\ at[m] = "range" /\ ~Direct
    BY <1>5 DEF ReadPart, MovingAt
  <2>3. CASE o.answer = "ok"
    <3>1. o.got = PieceOf(part[m])
      BY <2>1, <2>2, <2>3, Downloaded DEF Reliable
    <3>2. at'[m] \in {"returned", "init", "part"} /\ buf'[m] = PieceOf(part[m])
      BY <2>1, <2>3, <3>1 DEF Goto, Return
    <3>. QED  BY <2>2, <3>2 DEF MovingAt
  <2>. QED  BY <1>0, <2>1, <2>2, <2>3 DEF Unsuccessful, Return, TryAgain, locals
<1>6. CASE InitUpload(m)
  <2>1. at[m] = "init" /\ at'[m] \in {"part", "init", "returned"} /\ UNCHANGED locals
    BY <1>6 DEF InitUpload, Unsuccessful, Return, TryAgain, Goto
  <2>. QED  BY <2>1 DEF MovingAt, locals
<1>7. CASE SendPart(m)
  <2>1. PICK o \in UploadPart(m) :
          IF o.answer = "ok"
          THEN /\ done' = [done EXCEPT ![m] = Listed(m, o)]
               /\ part' = [part EXCEPT ![m] = @ + 1]
               /\ Goto(m, IF part[m] = PartCount THEN "complete" ELSE "range")
          ELSE AbortAfter(m, o, "upload") /\ UNCHANGED <<done, part>>
    BY <1>7 DEF SendPart
  <2>2. /\ UNCHANGED buf /\ at[m] = "part" /\ ~Direct
        /\ part[m] \in PartNumbers /\ Len(done[m]) = part[m] - 1
        /\ \A i \in 1..Len(done[m]) : done[m][i] = i
    BY <1>7 DEF SendPart, MovingAt
  <2>3. CASE o.answer = "ok"
    <3>1. o.stored
      BY <2>1, <2>3, Sends
    <3>2. done'[m] = Append(done[m], part[m]) /\ part'[m] = part[m] + 1
      BY <2>1, <2>3, <3>1 DEF Listed
    <3>3. Len(done'[m]) = part[m] /\ \A i \in 1..Len(done'[m]) : done'[m][i] = i
      BY <2>2, <3>2
    <3>4. PartCount \in Int
      BY PieceTypes
    <3>5. \/ at'[m] = "complete" /\ part[m] = PartCount
          \/ at'[m] = "range" /\ part[m] # PartCount
      BY <2>1, <2>3 DEF Goto
    <3>6. part[m] # PartCount => part'[m] \in PartNumbers
      BY <2>2, <3>2, <3>4 DEF PartNumbers
    <3>. QED  BY <2>2, <3>2, <3>3, <3>5, <3>6 DEF MovingAt
  <2>. QED  BY <1>0, <2>1, <2>2, <2>3 DEF AbortAfter, Goto, TryAgain, locals
<1>8. CASE Complete(m)
  <2>1. at[m] = "complete" /\ ~Direct /\ at'[m] \in {"complete", "abort", "returned"} /\ UNCHANGED locals
    BY <1>8 DEF Complete, MovingAt, AbortAfter, Return, TryAgain, Goto
  <2>. QED  BY <1>0, <2>1
<1>9. CASE Abort(m)
  BY <1>0, <1>9 DEF Abort, Return, TryAgain
<1>. QED  BY <1>1, <1>2, <1>3, <1>4, <1>5, <1>6, <1>7, <1>8, <1>9 DEF Move

LEMMA MovingStep ==
  ASSUME TypeOK, Reliable, Moving, NEW m \in Movers, Move(m), ~Panic
  PROVE  Moving'
<1>1. req' = req
  BY ControlNext DEF TypeOK
<1>2. \A x \in Movers \ {m} : at'[x] = at[x] /\ buf'[x] = buf[x] /\ part'[x] = part[x] /\ done'[x] = done[x]
  BY OthersRest
<1>3. \A x \in Movers : MovingAt(at'[x], buf'[x], part'[x], done'[x])
  BY <1>2, MovingAtStep DEF Moving
<1>4. \A a, b, p, d : MovingAt(a, b, p, d) => MovingAt(a, b, p, d)'
  BY <1>1 DEF MovingAt, Direct, All, From, PieceOf, Piece, Offset, CurrPartSize, PartNumbers, PartCount
<1>. QED  BY <1>3, <1>4 DEF Moving

-----------------------------------------------------------------------------
LEMMA InvNext == TypeOK /\ Inv /\ [Next]_vars => Inv'
<1>. SUFFICES ASSUME TypeOK, Inv, [Next]_vars, Reliable' PROVE (Moving /\ PartsRight /\ DestWhole /\ Landed)'
  BY DEF Inv
<1>1. req' = req
  BY ControlNext DEF TypeOK, Next, Terminated, vars, Panic
<1>2. Reliable
  BY <1>1 DEF Reliable, Direct, UploadKeyRight
<1>3. Moving /\ PartsRight /\ DestWhole /\ Landed
  BY <1>2 DEF Inv
<1>4. CASE UNCHANGED <<req, at, tries, part, buf, done, result, upload, parts, dest>>
  BY <1>3, <1>4 DEF Moving, MovingAt, Direct, All, From, PieceOf, Piece, Offset, CurrPartSize,
     PartNumbers, PartCount, PartsRight, NoPiece, DestWhole, IsWhole, NoObject, Landed
<1>5. ASSUME NEW m \in Movers, Move(m), ~Panic
      PROVE  (Moving /\ PartsRight /\ DestWhole /\ Landed)'
  <2>1. dest' = dest \/ IsWhole(dest')
    BY <1>2, <1>3, <1>5, DestStep
  <2>2. DestWhole'
    BY <1>1, <1>3, <2>1 DEF DestWhole, IsWhole, NoObject
  <2>. QED  BY <1>2, <1>3, <1>5, <2>2, MovingStep, PartsStep, LandedStep
<1>. QED  BY <1>4, <1>5 DEF Next, Terminated, vars, Panic

LEMMA InvAlways == Spec => [](TypeOK /\ Inv)
<1>. QED  BY TypeInit, TypeNext, InvInit, InvNext, PTL DEF Spec

\* An object that counts as moved is at its destination whole, for any number
\* of movers of the same object and however often calls are tried again.
THEOREM Passed == Spec => []PassedIsThere
<1>1. TypeOK /\ Inv => PassedIsThere
  BY DEF Inv, Landed, DestWhole, PassedIsThere
<1>. QED  BY <1>1, InvAlways, PTL

-----------------------------------------------------------------------------
(* ObjectTransfer implements MoveObject *)

Answers == [m \in Movers |-> AnswerOf(m)]

\* Another mover's answer stays, and this one has not answered yet.
LEMMA AnswerStep ==
  ASSUME TypeOK, NEW m \in Movers, Move(m), ~Panic
  PROVE  /\ Answers[m] = "none"
         /\ Answers' = [Answers EXCEPT ![m] = AnswerOf(m)']
<1>1. at[m] # "returned"
  BY DEF Move, Begin, NoClient, NewClient, Download, Upload, ReadPart, InitUpload, SendPart, Complete, Abort
<1>2. \A x \in Movers \ {m} : at'[x] = at[x] /\ result'[x] = result[x]
  BY OthersRest
<1>3. \A x \in Movers \ {m} : AnswerOf(x)' = AnswerOf(x)
  BY <1>2 DEF AnswerOf
<1>. QED  BY <1>1, <1>3 DEF Answers, AnswerOf

LEMMA ObjectInit == Init /\ Reliable => Object!Init
<1>. SUFFICES ASSUME Init, Reliable PROVE Object!Init
  OBVIOUS
<1>1. There \in {"nothing", "whole"}
  BY DEF Init, There, NoObject
<1>2. Answers = [m \in Movers |-> "none"]
  BY DEF Init, Answers, AnswerOf
<1>. QED  BY <1>1, <1>2 DEF Object!Init, Answers

\* What a mover does is to work, to fail or to pass.
LEMMA ObjectStep ==
  ASSUME TypeOK, Reliable, Inv, NEW m \in Movers, Move(m), ~Panic
  PROVE  Object!Next
<1>1. req' = req
  BY ControlNext DEF TypeOK
<1>2. Moving /\ PartsRight /\ DestWhole /\ Landed
  BY DEF Inv
<1>3. (dest' = dest \/ IsWhole(dest')) /\ (IsWhole(dest') <=> IsWhole(dest)')
  BY <1>1, <1>2, DestStep DEF IsWhole, NoObject
<1>4. There' = There \/ There' = "whole"
  BY <1>1, <1>3 DEF There, NoObject
<1>5. /\ Answers[m] = "none" /\ Answers' = [Answers EXCEPT ![m] = AnswerOf(m)']
      /\ DOMAIN Answers = Movers
  BY AnswerStep DEF Answers
<1>6. CASE AnswerOf(m)' = "none"
  <2>1. Answers' = Answers
    BY <1>5, <1>6 DEF Answers
  <2>. QED  BY <1>4, <1>5, <2>1 DEF Object!Next, Object!Work, Object!Running, Object!Bring, Answers
<1>7. CASE AnswerOf(m)' = "failed"
  BY <1>4, <1>5, <1>7 DEF Object!Next, Object!Fail, Object!Running, Object!Bring, Answers
<1>8. CASE AnswerOf(m)' = "passed"
  <2>1. result'[m] = "ok"
    BY <1>8 DEF AnswerOf
  <2>2. req.size > 0 => IsWhole(dest)'
    <3>1. Landed'
      BY <1>2, LandedStep
    <3>2. req.size > 0 => dest' # NoObject
      BY <1>1, <2>1, <3>1 DEF Landed, NoObject
    <3>. QED  BY <1>1, <1>2, <1>3, <3>2 DEF DestWhole, IsWhole, NoObject
  <2>3. req.size = 0 \/ req.size > 0
    <3>1. req.size \in Nat
      BY DEF TypeOK, ControlTypes, Request
    <3>. QED  BY <3>1
  <2>4. There' = "whole"
    BY <1>1, <2>2, <2>3 DEF There
  <2>. QED  BY <1>5, <1>8, <2>4 DEF Object!Next, Object!Pass, Object!Running, Object!Bring, Answers
<1>. QED  BY <1>6, <1>7, <1>8 DEF AnswerOf

\* All the calls, attempts and parts of any number of movers come to what
\* Migration takes for one step: the object is brought whole or not at all, and
\* each transfer answers once and truly.
THEOREM Moves == Spec => MovesObject
<1>1. TypeOK /\ Inv /\ [Next]_vars => [Reliable => Object!Next]_(Object!vars)
  <2>. SUFFICES ASSUME TypeOK, Inv, [Next]_vars, Reliable
                PROVE  Object!Next \/ UNCHANGED Object!vars
    OBVIOUS
  <2>1. CASE UNCHANGED <<req, at, tries, part, buf, done, result, upload, parts, dest>>
    <3>1. There' = There /\ Answers' = Answers
      BY <2>1 DEF There, IsWhole, NoObject, Answers, AnswerOf
    <3>. QED  BY <3>1 DEF Object!vars, Answers
  <2>. QED  BY <2>1, ObjectStep DEF Next, Terminated, vars, Panic
<1>. QED  BY <1>1, InvAlways, ObjectInit, PTL DEF Spec, MovesObject

-----------------------------------------------------------------------------
(* Uploads that stay open *)

\* Where a mover is with its upload: it is open only from the answer that tells
\* its number on, which is after the first part was read, and blobs have none;
\* what is aborted has failed.
HandledBy(a, p, u, r) ==
  /\ p > 0
  /\ u = "open" => /\ req.dest # "azure"
                   /\ \/ a \in {"part", "complete", "abort", "returned"}
                      \/ a = "range" /\ p > 1
  /\ a = "abort" => r # "ok"
Handled == \A m \in Movers : HandledBy(at[m], part[m], upload[m], result[m])

\* A mover that returns so may leave its upload open.
Excused(m) ==
  req.dest # "ceph" /\ at[m] # "returned" /\ at'[m] = "returned" /\ upload'[m] = "open" =>
    /\ result'[m] # "ok"
    /\ at[m] = "range" \/ (at[m] = "abort" /\ (AbortKeyRight => LastTry(m)))

LEMMA HandledInit == Init => Handled
<1>. SUFFICES ASSUME Init, NEW m \in Movers PROVE HandledBy(at[m], part[m], upload[m], result[m])
  BY DEF Handled
<1>1. at[m] = "begin" /\ part[m] = 1 /\ upload[m] = "none"
  BY DEF Init
<1>. QED  BY <1>1 DEF HandledBy

\* A completion that is answered with success has completed the upload, or
\* found it completed; only ceph's client takes any answer for success.
LEMMA CompletedOk ==
  ASSUME TypeOK, NEW m \in Movers, req.dest # "ceph",
         NEW o \in CompleteMultipartUpload(m), o.answer = "ok", ~o.stored
  PROVE  upload[m] = "completed"
<1>. req.dest \in {"aws", "obs", "azure"}
  BY DEF TypeOK, ControlTypes, Request, StorType
<1>. DEFINE ready == Named(m) /\ upload[m] = "open"
            finished == upload[m] = "completed"
<1>1. \A r, f \in BOOLEAN : \A x \in Asked(r, f) : x.answer = "ok" /\ ~x.stored => f
  BY DEF Asked, Tried, Sent, NotSent
<1>2. o \in Asked(ready, finished) \/ o \in Asked(Named(m), FALSE)
  <2>1. CompleteMultipartUpload(m) \in {S3Complete(ready, finished), ObsComplete(ready, finished), BlobComplete(Named(m))}
    BY DEF CompleteMultipartUpload
  <2>. QED  BY <2>1 DEF S3Complete, ObsComplete, BlobComplete
<1>3. CASE o \in Asked(ready, finished)
  <2>. HIDE DEF ready
  <2>1. \A r : \A x \in Asked(r, finished) : x.answer = "ok" /\ ~x.stored => finished
    BY DEF Asked, Tried, Sent, NotSent
  <2>. QED  BY <1>3, <2>1
<1>4. CASE o \in Asked(Named(m), FALSE)
  <2>1. \A r : \A x \in Asked(r, FALSE) : x.answer = "ok" => x.stored
    BY DEF Asked, Tried, Sent, NotSent
  <2>. QED  BY <1>4, <2>1
<1>. QED  BY <1>2, <1>3, <1>4

\* An abort of an open upload under its own key that is answered at all has
\* aborted it.
LEMMA AbortedOk ==
  ASSUME TypeOK, NEW m \in Movers, req.dest \in {"aws", "obs"}, NEW o \in AbortMultipartUpload(m)
  PROVE  /\ o.answer \in {"ok", "again"}
         /\ upload[m] = "open" /\ AbortKeyRight /\ o.answer = "ok" => o.stored
<1>. DEFINE open == upload[m] = "open" /\ AbortKeyRight
<1>1. AbortMultipartUpload(m) \in {S3Abort(open), ObsAbort(open)}
  BY DEF AbortMultipartUpload
<1>2. \A w : \A x \in S3Abort(w) \cup ObsAbort(w) : x.answer \in {"ok", "again"} /\ (w /\ x.answer = "ok" => x.stored)
  BY DEF S3Abort, ObsAbort, Tried, Sent, NotSent
<1>. QED  BY <1>1, <1>2

LEMMA HandledStep ==
  ASSUME TypeOK, NEW m \in Movers, Move(m), ~Panic, HandledBy(at[m], part[m], upload[m], result[m])
  PROVE  HandledBy(at'[m], part'[m], upload'[m], result'[m]) /\ Excused(m)
<1>0. /\ part[m] \in Nat /\ m \in DOMAIN part
      /\ m \in DOMAIN at /\ m \in DOMAIN upload /\ m \in DOMAIN result
  BY DEF TypeOK, ControlTypes, DataTypes
<1>1. CASE Begin(m)
  BY <1>0, <1>1 DEF Begin, HandledBy, Excused, Return, Goto, locals, store
<1>2. CASE NoClient(m)
  BY <1>0, <1>2 DEF NoClient, NewClient, HandledBy, Excused, Return, locals, store
<1>3. CASE Download(m)
  BY <1>0, <1>3 DEF Download, HandledBy, Excused, Unsuccessful, Return, TryAgain, Goto, store
<1>4. CASE Upload(m)
  BY <1>0, <1>4 DEF Upload, HandledBy, Excused, Unsuccessful, Return, TryAgain, locals
<1>5. CASE ReadPart(m)
  <2>1. at[m] = "range" /\ upload' = upload /\ part' = part
    BY <1>5 DEF ReadPart, store
  <2>2. \/ at' = at /\ result' = result
        \/ \E r \in {"download", "size"} : Return(m, r)
        \/ at' = [at EXCEPT ![m] = IF part[m] = 1 THEN "init" ELSE "part"] /\ result' = result
    BY <1>5 DEF ReadPart, Unsuccessful, TryAgain, Goto
  <2>. QED  BY <1>0, <2>1, <2>2 DEF HandledBy, Excused, Return
<1>6. CASE InitUpload(m)
  <2>1. PICK o \in MultiPartUploadInit :
          /\ upload' = [upload EXCEPT ![m] = IF o.stored /\ o.answer = "ok" THEN "open" ELSE @]
          /\ IF o.answer = "ok" THEN Goto(m, "part") /\ UNCHANGED result
             ELSE Unsuccessful(m, o, "init")
    BY <1>6 DEF InitUpload
  <2>2. at[m] = "init" /\ part' = part
    BY <1>6 DEF InitUpload, locals
  <2>3. req.dest = "azure" => ~o.stored
    BY <2>1 DEF MultiPartUploadInit, BlobUploadInit, NotSent
  <2>. QED  BY <1>0, <2>1, <2>2, <2>3 DEF HandledBy, Excused, Unsuccessful, Return, TryAgain, Goto
<1>7. CASE SendPart(m)
  <2>1. at[m] = "part" /\ upload' = upload
    BY <1>7 DEF SendPart
  <2>2. \/ /\ part' = [part EXCEPT ![m] = @ + 1] /\ result' = result
           /\ at' = [at EXCEPT ![m] = IF part[m] = PartCount THEN "complete" ELSE "range"]
        \/ part' = part /\ at' = [at EXCEPT ![m] = "abort"] /\ result' = [result EXCEPT ![m] = "upload"]
        \/ part' = part /\ at' = at /\ result' = result
    BY <1>7 DEF SendPart, AbortAfter, TryAgain, Goto
  <2>. QED  BY <1>0, <2>1, <2>2 DEF HandledBy, Excused
<1>8. CASE Complete(m)
  <2>1. PICK o \in CompleteMultipartUpload(m) :
          /\ IF o.stored THEN upload' = [upload EXCEPT ![m] = "completed"] ELSE upload' = upload
          /\ IF o.answer = "ok" THEN Return(m, "ok") ELSE AbortAfter(m, o, "complete")
    BY <1>8 DEF Complete
  <2>2. at[m] = "complete" /\ part' = part
    BY <1>8 DEF Complete, locals
  <2>3. req.dest # "ceph" /\ o.answer = "ok" => upload'[m] = "completed"
    BY <1>0, <2>1, CompletedOk
  <2>4. upload'[m] = "open" => upload[m] = "open"
    BY <1>0, <2>1
  <2>5. \/ Return(m, "ok") /\ o.answer = "ok"
        \/ at' = [at EXCEPT ![m] = "abort"] /\ result' = [result EXCEPT ![m] = "complete"]
        \/ at' = at /\ result' = result
    BY <2>1 DEF AbortAfter, TryAgain, Goto
  <2>. QED  BY <1>0, <2>2, <2>3, <2>4, <2>5 DEF HandledBy, Excused, Return
<1>9. CASE Abort(m)
  <2>1. PICK o \in AbortMultipartUpload(m) :
          /\ upload' = [upload EXCEPT ![m] = IF o.stored THEN "aborted" ELSE @]
          /\ IF o.answer = "ok" \/ GivesUp(m, o) THEN Return(m, result[m]) ELSE TryAgain(m)
    BY <1>9 DEF Abort
  <2>2. at[m] = "abort" /\ part' = part
    BY <1>9 DEF Abort, locals
  <2>3. upload'[m] = "open" => upload[m] = "open" /\ ~o.stored
    BY <1>0, <2>1
  <2>4. \/ at' = [at EXCEPT ![m] = "returned"] /\ result' = [result EXCEPT ![m] = result[m]]
        \/ at' = at /\ result' = result
    BY <2>1 DEF Return, TryAgain
  <2>5. HandledBy(at'[m], part'[m], upload'[m], result'[m])
    BY <1>0, <2>2, <2>3, <2>4 DEF HandledBy
  <2>6. ASSUME req.dest # "ceph", at'[m] = "returned", upload'[m] = "open"
        PROVE  AbortKeyRight => LastTry(m)
    <3>1. req.dest \in {"aws", "obs"}
      BY <2>2, <2>3, <2>6 DEF HandledBy, TypeOK, ControlTypes, Request, StorType
    <3>2. o.answer \in {"ok", "again"} /\ (AbortKeyRight => o.answer # "ok")
      BY <2>3, <2>6, <3>1, AbortedOk
    <3>3. o.answer = "ok" \/ GivesUp(m, o)
      BY <2>1, <2>2, <2>6 DEF TryAgain
    <3>. QED  BY <3>2, <3>3 DEF GivesUp
  <2>. QED  BY <1>0, <2>2, <2>4, <2>5, <2>6 DEF Excused, HandledBy
<1>. QED  BY <1>1, <1>2, <1>3, <1>4, <1>5, <1>6, <1>7, <1>8, <1>9 DEF Move

\* A step of one mover leaves the others where they are.
LEMMA HandledNext ==
  ASSUME TypeOK, Handled, NEW m \in Movers, Move(m), ~Panic
  PROVE  Handled' /\ \A x \in Movers : Excused(x)
<1>1. req' = req
  BY ControlNext DEF TypeOK
<1>2. \A x \in Movers \ {m} : at'[x] = at[x] /\ part'[x] = part[x] /\ upload'[x] = upload[x] /\ result'[x] = result[x]
  BY OthersRest
<1>3. HandledBy(at'[m], part'[m], upload'[m], result'[m]) /\ Excused(m)
  BY HandledStep DEF Handled
<1>4. \A x \in Movers : HandledBy(at'[x], part'[x], upload'[x], result'[x])
  BY <1>2, <1>3 DEF Handled
<1>5. Handled'
  BY <1>1, <1>4 DEF Handled, HandledBy
<1>6. \A x \in Movers \ {m} : Excused(x)
  BY <1>2 DEF Excused
<1>. QED  BY <1>3, <1>5, <1>6

\* A transfer leaves an upload open only when a later part could not be read,
\* when the abort went to another key or failed three times, and never when it
\* counts as moved: for any number of movers, any sizes, keys and failures.
THEOREM OpenUploads == Spec => OpenUploadsAccounted
<1>1. TypeOK /\ Handled /\ [Next]_vars => Handled' /\ [\A m \in Movers : Excused(m)]_vars
  <2>. SUFFICES ASSUME TypeOK, Handled, [Next]_vars PROVE Handled' /\ [\A m \in Movers : Excused(m)]_vars
    OBVIOUS
  <2>1. CASE UNCHANGED <<req, at, part, upload, result>>
    BY <2>1 DEF Handled, HandledBy, Excused
  <2>2. ASSUME NEW m \in Movers, Move(m), ~Panic
        PROVE  Handled' /\ [\A x \in Movers : Excused(x)]_vars
    BY <2>2, HandledNext
  <2>. QED  BY <2>1, <2>2 DEF Next, Terminated, vars, Panic
<1>2. Spec => [](TypeOK /\ Handled)
  BY <1>1, TypeInit, TypeNext, HandledInit, PTL DEF Spec
<1>. QED  BY <1>1, <1>2, PTL DEF Spec, OpenUploadsAccounted, Excused
=============================================================================
