------------------------------- MODULE ObsHttp -------------------------------
(***************************************************************************)
(* One call of the client for huawei's object stores that the api service  *)
(* and the datamover use (api/pkg/utils/obs): what doHttp makes of errors, *)
(* redirects and requests sent again, and what these make of the body.     *)
(* The body comes from a source of some pieces, a reader or a file; the    *)
(* client's reader stands behind one of them.                              *)
(***************************************************************************)
EXTENDS Integers

CONSTANTS
  Pieces,      \* pieces of a source
  MaxRetry,    \* conf.maxRetryCount
  MaxRedirects \* bound on redirects, which the code does not limit

ASSUME ObsAssumption == Pieces \in Nat \ {0} /\ MaxRetry \in Nat /\ MaxRedirects \in Nat

VARIABLES
  call, \* the call: its body, where its reader is, and the locals of doHttp
  held  \* the pieces of which the store has made the object

obsVars == <<call, held>>

Readers == {"strings", "bytes", "stream"}

-----------------------------------------------------------------------------
(* Bodies: the pieces asked for come after "from"; a counted reader ends     *)
(* after "size" pieces; "repeatable" allows another attempt after an answer. *)

NoBody == [from |-> Pieces, size |-> 0, counted |-> FALSE, rewinds |-> "start", repeatable |-> TRUE]

\* PutObject and UploadPart, with a reader and perhaps a length.
ReaderBody(reader, length) ==
  [from |-> 0, size |-> IF length > 0 THEN length ELSE Pieces, counted |-> length > 0,
   rewinds |-> IF reader = "stream" THEN "never" ELSE "start", repeatable |-> reader = "strings"]

\* PutFile, and UploadPart with a file and an offset.  A length of 0 or beyond
\* the end stands for all the rest.
FilePart(offset, length) ==
  [from |-> offset, size |-> IF length = 0 \/ length > Pieces - offset THEN Pieces - offset ELSE length,
   counted |-> TRUE, rewinds |-> "reopen", repeatable |-> TRUE]
WholeFile(length) == FilePart(0, length)

Body == [from : 0..Pieces, size : 0..Pieces, counted : BOOLEAN,
         rewinds : {"start", "reopen", "never"}, repeatable : BOOLEAN]

AskedPieces == call.body.from + 1 .. call.body.from + call.body.size
HasBody == call.body.size > 0

NoObsCall == [body |-> NoBody, at |-> "idle", pos |-> 0, read |-> 0, tries |-> 0, limit |-> 0,
              moved |-> 0, resp |-> FALSE, err |-> "none"]

BeginCall(body, limit, at) ==
  /\ call.at = "idle"
  /\ call' = [NoObsCall EXCEPT !.body = body, !.at = at, !.pos = body.from, !.limit = limit]
  /\ UNCHANGED held

\* doAction...: the names of the bucket and the key must not be empty.
DoAction(body) == \E at \in {"attempt", "error"} : BeginCall(body, MaxRetry, at)
\* With a signed url there is one attempt, whatever the body.
DoWithSignedUrl(body) == BeginCall([body EXCEPT !.repeatable = FALSE], 0, "attempt")

PutReader(reader, length) == DoAction(ReaderBody(reader, length))
PutFile(length) == DoAction(WholeFile(length))
UploadFilePart(offset, length) == DoAction(FilePart(offset, length))
PutObjectWithSignedUrl(reader) == DoWithSignedUrl(ReaderBody(reader, 0))
\* Of a file, that must not be shorter than the length.
PutFileWithSignedUrl(length) == DoWithSignedUrl(WholeFile(length))

-----------------------------------------------------------------------------
(* One turn of the loop of doHttp *)

\* readerWrapper.Read, as often as the transport asks.
CanRead ==
  LET rest == Pieces - call.pos
      due == call.body.size - call.read IN
  IF call.body.counted /\ due < rest THEN due ELSE rest
HasRead(k) == [call EXCEPT !.pos = @ + k, !.read = IF call.body.counted THEN @ + k ELSE 0]

Leaves(c, resp, err) == [c EXCEPT !.at = "done", !.resp = resp, !.err = err]

\* A response that is no success is thrown away before another attempt, and is
\* made the error after the last one.
LastTry(c) == c.tries = c.limit
OnceMore(c, resp) ==
  IF ~LastTry(c) THEN [c EXCEPT !.at = "again", !.resp = FALSE]
  ELSE Leaves(c, FALSE, IF resp THEN "server" ELSE c.err)

Final(c, answer) ==
  \/ answer \in {"refused", "lost"}
  \/ answer \in {"moved", "busy"} /\ ~c.body.repeatable

\* A body that may not be sent again is, after an error of the transport.  That
\* error stays even when a later attempt succeeds.
Outcome(c, answer) ==
  CASE answer = "ok" -> Leaves(c, TRUE, c.err)
    [] answer = "broken" -> OnceMore([c EXCEPT !.err = "transport"], FALSE)
    [] Final(c, answer) -> Leaves(c, FALSE, "server")
    [] answer = "moved" /\ c.body.repeatable ->
         OnceMore([c EXCEPT !.limit = @ + 1, !.moved = @ + 1], TRUE)
    [] answer = "busy" /\ c.body.repeatable -> OnceMore(c, TRUE)

\* The store (external) answers 2xx when it has made the object; 4xx or 304, a
\* redirect with or without a location, and 5xx may come before the body has
\* been read; an answer of 5xx, or none, may come although the object is made.
SendOnce ==
  /\ call.at = "attempt"
  /\ \E k \in 0..CanRead, answer \in {"ok", "refused", "moved", "lost", "busy", "broken"} :
       LET made == IF HasBody THEN call.pos + 1 .. call.pos + k ELSE held IN
       /\ answer = "ok" => k = CanRead
       /\ answer = "moved" => call.moved < MaxRedirects
       /\ held' \in CASE answer = "ok" -> {made}
                      [] answer \in {"busy", "broken"} /\ k = CanRead -> {held, made}
                      [] OTHER -> {held}
       /\ call' = Outcome(HasRead(k), answer)

\* There is no url for the names, or none in the redirect.
CannotSend ==
  /\ call.at = "attempt"
  /\ call.tries = 0 \/ call.moved > 0
  /\ call' = Leaves(call, FALSE, "local")
  /\ UNCHANGED held

\* The reader is rewound if it can be, and a file is opened again at its mark,
\* which nobody sets.  What a counted reader has read is not forgotten.
Rewound_Stays == call
Rewound ==
  CASE call.body.rewinds = "start" -> [call EXCEPT !.pos = IF HasBody THEN 0 ELSE @]
    [] call.body.rewinds = "reopen" -> [call EXCEPT !.pos = 0, !.read = 0]
    [] call.body.rewinds = "never" -> call
Rewind ==
  /\ call.at = "again"
  /\ call' \in {[Rewound EXCEPT !.at = "attempt", !.tries = @ + 1]}
               \cup {c \in {Leaves(call, FALSE, "local")} : call.body.rewinds = "reopen"}
  /\ UNCHANGED held

\* The rest of doAction: a response is parsed, which may fail.
ParseAnswer ==
  /\ call.at = "done"
  /\ \E at \in IF call.err # "none" THEN {"error"} ELSE IF call.resp THEN {"ok", "error"} ELSE {"panic"} :
       call' = [call EXCEPT !.at = at]
  /\ UNCHANGED held

-----------------------------------------------------------------------------

ObsInit == call = NoObsCall /\ held = {}

ObsNext ==
  \/ DoAction(NoBody) \/ DoWithSignedUrl(NoBody)
  \/ \E reader \in Readers, length \in 0..Pieces : PutReader(reader, length)
  \/ \E reader \in Readers : PutObjectWithSignedUrl(reader)
  \/ \E length \in 0..Pieces + 1 : PutFile(length)
  \/ \E length \in 1..Pieces : PutFileWithSignedUrl(length)
  \/ \E offset \in 0..Pieces - 1, length \in 0..Pieces : UploadFilePart(offset, length)
  \/ SendOnce \/ CannotSend \/ Rewind \/ ParseAnswer

ObsSpec == ObsInit /\ [][ObsNext]_obsVars

-----------------------------------------------------------------------------

ObsTypeOK ==
  /\ call.body \in Body
  /\ call.at \in {"idle", "attempt", "again", "done", "ok", "error", "panic"}
  /\ call.pos \in 0..Pieces /\ call.read \in 0..Pieces /\ call.moved \in 0..MaxRedirects
  /\ call.err \in {"none", "transport", "server", "local"} /\ call.resp \in BOOLEAN
  /\ held \subseteq 1..Pieces

\* The bodies that another attempt sends from where the first began: not a stream,
\* not a counted reader (its count goes on), not a part of a file that begins
\* behind the first piece.
Restarts ==
  \/ call.body.rewinds = "start" /\ ~call.body.counted
  \/ call.body.rewinds = "reopen" /\ call.body.from = 0

(* An answered call has an answer or an error, after no more attempts than   *)
(* the retries and the redirects allow; one that says that a body is stored  *)
(* has stored all of it, unless it was sent again and cannot be; and a body  *)
(* that can be is never stored in part, however the call ends.               *)
ObsStoresWhole ==
  /\ call.at # "panic" /\ call.tries <= MaxRetry + call.moved
  /\ call.at = "ok" /\ HasBody /\ (call.tries = 0 \/ Restarts) => held = AskedPieces
  /\ Restarts /\ HasBody => held \in {{}, AskedPieces}
=============================================================================
