----------------------------- MODULE S3Documents -----------------------------
(***************************************************************************)
(* The s3 service (s3/pkg/service.go) and its mongo drivers: the documents *)
(* of buckets and of the objects of a bucket.  A call of the service is    *)
(* several calls of the database, between which other calls run; and a     *)
(* call goes on when the caller has stopped waiting for it.                *)
(***************************************************************************)
EXTENDS Naturals, Sequences

CONSTANTS
  Callers,    \* requests of the api service that may be in progress together
  Locations   \* names of backends

VARIABLES
  docs,  \* the documents under the name of the bucket and the key of the object
  svc,   \* the call each caller waits for
  late   \* calls whose caller has stopped waiting

docVars == <<docs, svc, late>>

\* pb.Bucket and pb.Object: Backend, InitFlag, IsDeleteMarker or Deleted, Size.
Collections == {"bucket", "object"}
Doc == [backend : Locations, init : {"", "0", "1"}, deleted : BOOLEAN, size : Nat]
NewDoc(location, init, size) ==
  [backend |-> location, init |-> init, deleted |-> FALSE, size |-> size]
NoDoc(location) == NewDoc(location, "", 0)

\* A call of CreateBucket or CreateObject, DeleteBucket or DeleteObject: where
\* it is, the document it will write, and which attempt of the client it is.
CallStep == {"look", "find", "insert", "update"}
Call == [op : {"create", "delete"}, coll : Collections, at : CallStep \cup {"ok", "error"},
         doc : Doc, attempt : 1..2]
Calling(op, coll, doc) ==
  [op |-> op, coll |-> coll, at |-> "look", doc |-> doc, attempt |-> 1]
NoCall == [op |-> "none"]

-----------------------------------------------------------------------------
(* Reading: what GetBucket, GetObject, ListBuckets and ListObjects find. *)

Found(coll) == docs[coll] # <<>>
First(coll) == docs[coll][1]
\* ListObjects leaves out uploads in progress and deleted objects, ListBuckets
\* deleted buckets.  A list is given here by the places of what is in it.
Shown(doc) == doc.init # "0" /\ ~doc.deleted
ListObjects == {i \in DOMAIN docs["object"] : Shown(docs["object"][i])}

-----------------------------------------------------------------------------
(* Writing.  A step takes a call to its next step and the documents with it. *)

At(call, at) == [call EXCEPT !.at = at]
\* An update when the document is there.
CreateBucket(call) == At(call, IF Found("bucket") THEN "update" ELSE "find")
CreateObject(call) == At(call, IF Found("object") THEN "update" ELSE "find")
\* What was read, but for the mark, will be written.
Deleted_Unmarked(call, doc) == [call EXCEPT !.at = "update", !.doc = doc]
Deleted(call, doc) == [call EXCEPT !.at = "update", !.doc = [doc EXCEPT !.deleted = TRUE]]
DeleteBucket(call) == IF Found("bucket") THEN Deleted(call, First("bucket")) ELSE At(call, "error")
DeleteObject(call) == IF Found("object") THEN Deleted(call, First("object")) ELSE At(call, "error")
Look(call) ==
  CASE call.op = "create" /\ call.coll = "bucket" -> CreateBucket(call)
    [] call.op = "create" /\ call.coll = "object" -> CreateObject(call)
    [] call.op = "delete" /\ call.coll = "bucket" -> DeleteBucket(call)
    [] call.op = "delete" /\ call.coll = "object" -> DeleteObject(call)
\* The driver looks again, and fails on a document that has come in between.
Find(call) == At(call, IF Found(call.coll) THEN "error" ELSE "insert")
Insert(call) == [docs EXCEPT ![call.coll] = Append(@, call.doc)]
\* Update writes the whole document, as the caller gave it or as it was read.
Update(call) == [docs EXCEPT ![call.coll][1] = call.doc]

Moved(call) ==
  CASE call.at = "look" -> Look(call)
    [] call.at = "find" -> Find(call)
    [] call.at \in {"insert", "update"} -> At(call, "ok")
Effect(call) ==
  CASE call.at \in {"look", "find"} -> docs
    [] call.at = "insert" -> Insert(call)
    [] call.at = "update" -> Update(call)

Running(call) == call # NoCall /\ call.at \in CallStep

ServiceStep(c) ==
  /\ Running(svc[c])
  /\ svc' = [svc EXCEPT ![c] = Moved(@)]
  /\ docs' = Effect(svc[c])
  /\ UNCHANGED late

LateStep(call) ==
  /\ call \in late
  /\ docs' = Effect(call)
  /\ late' = (late \ {call}) \cup {m \in {Moved(call)} : Running(m)}
  /\ UNCHANGED svc

\* The database refuses a step.
DbFails(c) ==
  /\ Running(svc[c])
  /\ svc' = [svc EXCEPT ![c] = At(@, "error")]
  /\ UNCHANGED <<docs, late>>

\* The client gives up after its timeout; when the connection breaks it tries
\* once more.  Either way the service goes on with the call.
CallLost(c) ==
  /\ svc[c] # NoCall /\ svc[c].at # "error"
  /\ late' = late \cup {call \in {svc[c]} : Running(call)}
  /\ \/ svc' = [svc EXCEPT ![c] = At(@, "error")]
     \/ /\ svc[c].attempt = 1
        /\ svc' = [svc EXCEPT ![c] = [@ EXCEPT !.at = "look", !.attempt = 2]]
  /\ UNCHANGED docs

InitDocs ==
  /\ docs = [coll \in Collections |-> <<>>]
  /\ svc = [c \in Callers |-> NoCall]
  /\ late = {}
=============================================================================
