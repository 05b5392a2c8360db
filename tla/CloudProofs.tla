----------------------------- MODULE CloudProofs -----------------------------
(***************************************************************************)
(* What is sent to a store, listed of it and removed from it, and the api  *)
(* service as a whole.                                                     *)
(*   ObsHttp: what a call of the client for huawei's stores leaves there,  *)
(* for bodies of any length, any number of retries and of redirects.       *)
(*   Listing: what a list that comes in pages has, and that what is said   *)
(* to be removed is gone, for any keys, pages, limits and other clients.   *)
(*   CloudApi: the invariants of the parts hold together, and with them    *)
(* every property of a part is one of the service that has them all.       *)
(***************************************************************************)
EXTENDS CloudApi, GatewayProofs, ApiProofs

-----------------------------------------------------------------------------
(* The client for huawei's stores (ObsHttp) *)

Ats == {"idle", "attempt", "again", "done", "ok", "error", "panic"}
Errors == {"none", "transport", "server", "local"}
ObsCall == [body : Body, at : Ats, pos : 0..Pieces, read : 0..Pieces, tries : Nat, limit : Nat,
         moved : 0..MaxRedirects, resp : BOOLEAN, err : Errors]

\* A body is a run of pieces of its source, and all the rest of it when it is not
\* counted; a reader starts at its first piece.
BodyInv ==
  /\ call.body.from + call.body.size <= Pieces
  /\ ~call.body.counted => call.read = 0 /\ call.body.from + call.body.size = Pieces
  /\ call.body.counted => call.read <= call.body.size
  /\ HasBody /\ call.body.rewinds = "start" => call.body.from = 0

\* The loop ends in time, and never without a response or an error.
LoopInv ==
  /\ call.tries <= call.limit /\ call.limit <= MaxRetry + call.moved
  /\ call.at = "again" => call.tries < call.limit
  /\ call.at = "done" => call.resp = TRUE \/ call.err # "none"
  /\ call.at # "panic"

\* The reader is where the body begins whenever a body that restarts is sent.
StillFresh == call.tries = 0 \/ Restarts
ReaderInv == call.at = "attempt" /\ HasBody /\ StillFresh => call.pos = call.body.from /\ call.read = 0

Succeeded == call.at = "ok" \/ (call.at = "done" /\ call.err = "none")
StoreInv ==
  /\ Succeeded /\ HasBody /\ StillFresh => held = AskedPieces
  /\ Restarts /\ HasBody => held \in {{}, AskedPieces}
  /\ call.at = "idle" => held = {}

TypeInv == call \in ObsCall /\ held \subseteq 1..Pieces
ObsInv == TypeInv /\ BodyInv /\ LoopInv /\ ReaderInv /\ StoreInv

-----------------------------------------------------------------------------

GoodBody(b) ==
  /\ b \in Body
  /\ b.from + b.size <= Pieces
  /\ ~b.counted => b.from + b.size = Pieces
  /\ b.size > 0 /\ b.rewinds = "start" => b.from = 0

\* Every operation begins with a run of pieces of its source.
LEMMA Bodies ==
  /\ GoodBody(NoBody)
  /\ \A reader \in Readers, length \in 0..Pieces : GoodBody(ReaderBody(reader, length))
  /\ \A length \in 0..Pieces + 1 : GoodBody(WholeFile(length))
  /\ \A offset \in 0..Pieces - 1, length \in 0..Pieces : GoodBody(FilePart(offset, length))
<1>1. GoodBody(NoBody)
  BY ObsAssumption DEF GoodBody, Body, NoBody
<1>2. ASSUME NEW reader \in Readers, NEW length \in 0..Pieces PROVE GoodBody(ReaderBody(reader, length))
  <2>. DEFINE b == ReaderBody(reader, length)
  <2>1. /\ b.from = 0 /\ b.size = (IF length > 0 THEN length ELSE Pieces)
        /\ b.counted = (length > 0)
    BY DEF ReaderBody
  <2>2. b \in Body
    <3>1. (IF length > 0 THEN length ELSE Pieces) \in 0..Pieces /\ 0 \in 0..Pieces
      BY ObsAssumption
    <3>. QED  BY <3>1 DEF Body, ReaderBody
  <2>. HIDE DEF b
  <2>3. GoodBody(b)
    BY <2>1, <2>2, ObsAssumption DEF GoodBody, Body
  <2>. QED  BY <2>3 DEF b
<1>3. ASSUME NEW offset \in 0..Pieces - 1, NEW length \in 0..Pieces + 1 PROVE GoodBody(FilePart(offset, length))
  BY ObsAssumption DEF GoodBody, Body, FilePart
<1>4. ASSUME NEW length \in 0..Pieces + 1 PROVE GoodBody(WholeFile(length))
  <2>1. 0 \in 0..Pieces - 1
    BY ObsAssumption
  <2>. QED  BY <1>3, <2>1 DEF WholeFile
<1>5. \A length \in 0..Pieces : length \in 0..Pieces + 1
  BY ObsAssumption
<1>. QED  BY <1>1, <1>2, <1>3, <1>4, <1>5

LEMMA Initially == ObsInit => ObsInv
<1>. SUFFICES ASSUME ObsInit PROVE ObsInv
  OBVIOUS
<1>1. GoodBody(NoBody)
  BY Bodies
<1>2. call = NoObsCall /\ held = {}
  BY DEF ObsInit
<1>3. TypeInv
  BY <1>1, <1>2, ObsAssumption DEF TypeInv, ObsCall, Ats, Errors, NoObsCall, GoodBody
<1>4. ~HasBody
  BY <1>2 DEF HasBody, NoObsCall, NoBody
<1>5. BodyInv
  BY <1>1, <1>2, <1>4, ObsAssumption DEF BodyInv, GoodBody, NoObsCall, NoBody
<1>6. LoopInv
  BY <1>2, ObsAssumption DEF LoopInv, NoObsCall
<1>. QED  BY <1>2, <1>3, <1>4, <1>5, <1>6 DEF ObsInv, ReaderInv, StoreInv

\* A call begins with its reader at the body; nothing has been stored for it.
LEMMA Begins ==
  ASSUME NEW b, GoodBody(b), NEW limit \in 0..MaxRetry, NEW to \in {"attempt", "error"},
         BeginCall(b, limit, to), held = {}
  PROVE  ObsInv'
<1>1. /\ call' = [NoObsCall EXCEPT !.body = b, !.at = to, !.pos = b.from, !.limit = limit]
      /\ held' = held
  BY DEF BeginCall
<1>2. /\ call'.body = b /\ call'.at = to /\ call'.pos = b.from /\ call'.limit = limit
      /\ call'.read = 0 /\ call'.tries = 0 /\ call'.moved = 0 /\ call'.err = "none"
  BY <1>1 DEF NoObsCall
<1>3. TypeInv'
  <2>1. b.from \in 0..Pieces /\ b \in Body
    BY DEF GoodBody, Body
  <2>2. NoObsCall \in ObsCall
    BY Bodies, ObsAssumption DEF GoodBody, ObsCall, Ats, Errors, NoObsCall
  <2>3. limit \in Nat /\ to \in Ats
    BY ObsAssumption DEF Ats
  <2>4. call' \in ObsCall
    BY <1>1, <2>1, <2>2, <2>3 DEF ObsCall
  <2>. QED  BY <1>1, <2>4 DEF TypeInv
<1>4. BodyInv'
  BY <1>2, ObsAssumption DEF BodyInv, GoodBody, HasBody, Body
<1>5. LoopInv'
  BY <1>2, ObsAssumption DEF LoopInv
<1>6. ReaderInv'
  BY <1>2 DEF ReaderInv
<1>7. StoreInv'
  BY <1>1, <1>2 DEF StoreInv, Succeeded
<1>. QED  BY <1>3, <1>4, <1>5, <1>6, <1>7 DEF ObsInv

-----------------------------------------------------------------------------

\* What the reader still gives.
LEMMA Given ==
  ASSUME TypeInv, BodyInv
  PROVE  /\ CanRead \in Nat /\ call.pos + CanRead <= Pieces
         /\ call.body.counted => call.read + CanRead <= call.body.size
         /\ call.pos = call.body.from /\ call.read = 0 => CanRead = call.body.size
<1>. /\ call.pos \in 0..Pieces /\ call.read \in 0..Pieces
     /\ call.body.from \in 0..Pieces /\ call.body.size \in 0..Pieces
  BY DEF TypeInv, ObsCall, Body
<1>. QED  BY ObsAssumption DEF CanRead, BodyInv

LEMMA HowItReads ==
  ASSUME TypeInv, BodyInv, NEW k \in 0..CanRead
  PROVE  /\ HasRead(k) \in ObsCall
         /\ HasRead(k) = [call EXCEPT !.pos = HasRead(k).pos, !.read = HasRead(k).read]
         /\ call.body.counted => HasRead(k).read <= call.body.size
         /\ ~call.body.counted => HasRead(k).read = 0
<1>. /\ call.pos \in 0..Pieces /\ call.read \in 0..Pieces
     /\ call.body.from \in 0..Pieces /\ call.body.size \in 0..Pieces
     /\ call.body.counted \in BOOLEAN /\ call \in ObsCall
  BY DEF TypeInv, ObsCall, Body
<1>1. /\ k \in Nat /\ call.pos + k \in 0..Pieces
      /\ call.body.counted => call.read + k \in 0..Pieces /\ call.read + k <= call.body.size
  BY Given, ObsAssumption
<1>2. HasRead(k) = [call EXCEPT !.pos = call.pos + k, !.read = IF call.body.counted THEN call.read + k ELSE 0]
  BY DEF HasRead
<1>3. HasRead(k).pos = call.pos + k /\ HasRead(k).read = IF call.body.counted THEN call.read + k ELSE 0
  BY <1>2 DEF ObsCall
<1>4. HasRead(k).read \in 0..Pieces
  BY <1>1, <1>3, ObsAssumption
<1>5. HasRead(k) = [call EXCEPT !.pos = HasRead(k).pos, !.read = HasRead(k).read]
  BY <1>2, <1>3
<1>6. HasRead(k) \in ObsCall
  BY <1>1, <1>3, <1>4, <1>5 DEF ObsCall
<1>. QED  BY <1>1, <1>3, <1>5, <1>6

\* What an attempt makes of the call, apart from what it reads.
GoodOutcome(c, o) ==
  /\ o \in ObsCall /\ o.body = c.body /\ o.pos = c.pos /\ o.read = c.read /\ o.tries = c.tries
  /\ o.tries <= o.limit /\ o.limit <= MaxRetry + o.moved
  /\ \/ o.at = "again" /\ o.tries < o.limit
     \/ o.at = "done" /\ (o.resp = TRUE \/ o.err # "none")

LEMMA Leaving ==
  ASSUME NEW c \in ObsCall, c.tries <= c.limit, c.limit <= MaxRetry + c.moved,
         NEW resp \in BOOLEAN, NEW err \in Errors, resp = TRUE \/ err # "none"
  PROVE  GoodOutcome(c, Leaves(c, resp, err)) /\ Leaves(c, resp, err).err = err
<1>. DEFINE o == Leaves(c, resp, err)
<1>1. o = [c EXCEPT !.at = "done", !.resp = resp, !.err = err]
  BY DEF Leaves
<1>2. o \in ObsCall
  BY <1>1 DEF ObsCall, Ats
<1>3. /\ o.at = "done" /\ o.resp = resp /\ o.err = err
      /\ o.body = c.body /\ o.pos = c.pos /\ o.read = c.read
      /\ o.tries = c.tries /\ o.limit = c.limit /\ o.moved = c.moved
  BY <1>1 DEF ObsCall
<1>. QED  BY <1>2, <1>3 DEF GoodOutcome

LEMMA TryingAgain ==
  ASSUME NEW c \in ObsCall, c.tries <= c.limit, c.limit <= MaxRetry + c.moved,
         NEW resp \in BOOLEAN, resp = TRUE \/ c.err # "none"
  PROVE  /\ GoodOutcome(c, OnceMore(c, resp))
         /\ OnceMore(c, resp).at = "done" => OnceMore(c, resp).err # "none"
<1>1. CASE LastTry(c)
  <2>. DEFINE err == IF resp THEN "server" ELSE c.err
  <2>1. err \in Errors /\ err # "none"
    BY DEF ObsCall, Errors
  <2>2. OnceMore(c, resp) = Leaves(c, FALSE, err)
    BY <1>1 DEF OnceMore
  <2>. HIDE DEF err
  <2>. QED  BY <2>1, <2>2, Leaving
<1>2. CASE ~LastTry(c)
  <2>. DEFINE o == OnceMore(c, resp)
  <2>1. o = [c EXCEPT !.at = "again", !.resp = FALSE]
    BY <1>2 DEF OnceMore
  <2>2. o \in ObsCall
    BY <2>1 DEF ObsCall, Ats
  <2>3. /\ o.at = "again" /\ o.body = c.body /\ o.pos = c.pos /\ o.read = c.read
        /\ o.tries = c.tries /\ o.limit = c.limit /\ o.moved = c.moved
    BY <2>1 DEF ObsCall
  <2>4. c.tries < c.limit
    <3>1. c.tries # c.limit /\ c.tries \in Nat /\ c.limit \in Nat
      BY <1>2 DEF LastTry, ObsCall
    <3>. QED  BY <3>1
  <2>. HIDE DEF o
  <2>5. GoodOutcome(c, o) /\ o.at # "done"
    BY <2>2, <2>3, <2>4 DEF GoodOutcome
  <2>. QED  BY <2>5 DEF o
<1>. QED  BY <1>1, <1>2

LEMMA OutcomeIs ==
  ASSUME NEW c \in ObsCall, NEW answer \in {"ok", "refused", "moved", "lost", "busy", "broken"},
         c.tries <= c.limit, c.limit <= MaxRetry + c.moved,
         answer = "moved" => c.moved < MaxRedirects
  PROVE  /\ GoodOutcome(c, Outcome(c, answer))
         /\ answer # "ok" /\ Outcome(c, answer).at = "done" => Outcome(c, answer).err # "none"
<1>. "transport" \in Errors /\ "server" \in Errors /\ c.err \in Errors
  BY DEF Errors, ObsCall
<1>1. CASE answer = "ok"
  <2>1. Outcome(c, answer) = Leaves(c, TRUE, c.err)
    BY <1>1 DEF Outcome, Final
  <2>. QED  BY <1>1, <2>1, Leaving
<1>2. CASE answer = "broken"
  <2>. DEFINE d == [c EXCEPT !.err = "transport"]
  <2>1. /\ d \in ObsCall /\ d.body = c.body /\ d.pos = c.pos /\ d.read = c.read /\ d.tries = c.tries
        /\ d.limit = c.limit /\ d.moved = c.moved /\ d.err = "transport"
    BY DEF ObsCall
  <2>2. Outcome(c, answer) = OnceMore(d, FALSE)
    BY <1>2 DEF Outcome, Final
  <2>. HIDE DEF d
  <2>3. /\ GoodOutcome(d, OnceMore(d, FALSE))
        /\ OnceMore(d, FALSE).at = "done" => OnceMore(d, FALSE).err # "none"
    BY <2>1, TryingAgain
  <2>. QED  BY <2>1, <2>2, <2>3 DEF GoodOutcome
<1>3. CASE Final(c, answer)
  <2>1. Outcome(c, answer) = Leaves(c, FALSE, "server")
    BY <1>3 DEF Outcome, Final
  <2>. QED  BY <2>1, Leaving
<1>4. CASE answer = "busy" /\ c.body.repeatable
  <2>1. Outcome(c, answer) = OnceMore(c, TRUE)
    BY <1>4 DEF Outcome, Final
  <2>. QED  BY <2>1, TryingAgain
<1>5. CASE answer = "moved" /\ c.body.repeatable
  <2>. DEFINE d == [c EXCEPT !.limit = @ + 1, !.moved = @ + 1]
  <2>1. c.limit \in Nat /\ c.moved \in 0..MaxRedirects /\ c.moved < MaxRedirects /\ c.tries \in Nat
    BY <1>5 DEF ObsCall
  <2>2. c.limit + 1 \in Nat /\ c.moved + 1 \in 0..MaxRedirects
    BY <2>1, ObsAssumption
  <2>3. d \in ObsCall
    BY <2>2 DEF ObsCall
  <2>4. /\ d.body = c.body /\ d.pos = c.pos /\ d.read = c.read /\ d.tries = c.tries
        /\ d.limit = c.limit + 1 /\ d.moved = c.moved + 1
    BY DEF ObsCall
  <2>5. Outcome(c, answer) = OnceMore(d, TRUE)
    BY <1>5 DEF Outcome, Final
  <2>. HIDE DEF d
  <2>6. d.tries <= d.limit /\ d.limit <= MaxRetry + d.moved
    BY <2>1, <2>4, ObsAssumption
  <2>7. /\ GoodOutcome(d, OnceMore(d, TRUE))
        /\ OnceMore(d, TRUE).at = "done" => OnceMore(d, TRUE).err # "none"
    BY <2>3, <2>6, TryingAgain
  <2>. QED  BY <2>4, <2>5, <2>7 DEF GoodOutcome
<1>. QED  BY <1>1, <1>2, <1>3, <1>4, <1>5 DEF Final

-----------------------------------------------------------------------------
(* The steps of a call that has begun; its body stays what it was. *)

\* What is asked for, and whether it restarts, are the body's.
LEMMA SameBody ==
  ASSUME call'.body = call.body
  PROVE  HasBody' = HasBody /\ Restarts' = Restarts /\ AskedPieces' = AskedPieces
BY DEF HasBody, Restarts, AskedPieces

LEMMA Sends == ObsInv /\ SendOnce => ObsInv'
<1>. SUFFICES ASSUME ObsInv, SendOnce PROVE ObsInv'
  OBVIOUS
<1>. TypeInv /\ BodyInv /\ LoopInv /\ ReaderInv /\ StoreInv
  BY DEF ObsInv
<1>1. PICK k \in 0..CanRead, answer \in {"ok", "refused", "moved", "lost", "busy", "broken"} :
        /\ answer = "ok" => k = CanRead
        /\ answer = "moved" => call.moved < MaxRedirects
        /\ held' \in CASE answer = "ok" -> {IF HasBody THEN call.pos + 1 .. call.pos + k ELSE held}
                       [] answer \in {"busy", "broken"} /\ k = CanRead ->
                            {held, IF HasBody THEN call.pos + 1 .. call.pos + k ELSE held}
                       [] OTHER -> {held}
        /\ call' = Outcome(HasRead(k), answer)
  BY DEF SendOnce
<1>. DEFINE c == HasRead(k)
            made == IF HasBody THEN call.pos + 1 .. call.pos + k ELSE held
<1>2. /\ c \in ObsCall /\ c = [call EXCEPT !.pos = c.pos, !.read = c.read]
      /\ call.body.counted => c.read <= call.body.size
      /\ ~call.body.counted => c.read = 0
  BY HowItReads
<1>3. c.body = call.body /\ c.tries = call.tries /\ c.limit = call.limit /\ c.moved = call.moved
  BY <1>2 DEF TypeInv, ObsCall
<1>4. call.at = "attempt"
  BY DEF SendOnce
<1>. HIDE DEF c
<1>5. GoodOutcome(c, call')
  <2>1. c.tries <= c.limit /\ c.limit <= MaxRetry + c.moved /\ (answer = "moved" => c.moved < MaxRedirects)
    BY <1>1, <1>3 DEF LoopInv
  <2>. QED  BY <1>1, <1>2, <2>1, OutcomeIs DEF c
<1>6. answer # "ok" /\ call'.at = "done" => call'.err # "none"
  <2>1. c.tries <= c.limit /\ c.limit <= MaxRetry + c.moved /\ (answer = "moved" => c.moved < MaxRedirects)
    BY <1>1, <1>3 DEF LoopInv
  <2>. QED  BY <1>1, <1>2, <2>1, OutcomeIs DEF c
<1>7. /\ call' \in ObsCall /\ call'.body = call.body /\ call'.tries = call.tries
      /\ call'.read = c.read /\ call'.at \in {"again", "done"}
  BY <1>3, <1>5 DEF GoodOutcome
<1>8. HasBody' = HasBody /\ Restarts' = Restarts /\ AskedPieces' = AskedPieces /\ StillFresh' = StillFresh
  BY <1>7, SameBody DEF StillFresh
<1>9. held' = made \/ held' = held
  BY <1>1
<1>10. held' \subseteq 1..Pieces
  <2>1. call.pos \in Nat /\ k \in Nat /\ call.pos + k <= Pieces
    <3>1. call.pos \in 0..Pieces /\ CanRead \in Nat /\ call.pos + CanRead <= Pieces
      BY Given DEF TypeInv, ObsCall
    <3>. QED  BY <3>1, ObsAssumption
  <2>2. made \subseteq 1..Pieces
    <3>1. call.pos + 1 .. call.pos + k \subseteq 1..Pieces
      BY <2>1, ObsAssumption
    <3>. QED  BY <3>1 DEF TypeInv
  <2>. QED  BY <1>9, <2>2 DEF TypeInv
<1>11. BodyInv'
  BY <1>2, <1>7, <1>8 DEF BodyInv
<1>12. LoopInv'
  BY <1>5, <1>7 DEF LoopInv, GoodOutcome
<1>13. ASSUME k = CanRead, HasBody, StillFresh PROVE made = AskedPieces
  <2>1. call.pos = call.body.from /\ k = call.body.size
    BY <1>4, <1>13, Given DEF ReaderInv
  <2>. QED  BY <1>13, <2>1 DEF AskedPieces
<1>14. StoreInv'
  <2>1. Succeeded' => answer = "ok"
    BY <1>6, <1>7 DEF Succeeded
  <2>2. answer = "ok" => held' = made /\ k = CanRead
    BY <1>1
  <2>3. HasBody /\ StillFresh => held' = held \/ held' = AskedPieces
    <3>1. held' = held \/ (held' = made /\ k = CanRead)
      BY <1>1
    <3>. QED  BY <1>13, <3>1
  <2>4. (Succeeded /\ HasBody /\ StillFresh => held = AskedPieces)'
    BY <1>8, <1>13, <2>1, <2>2
  <2>5. (Restarts /\ HasBody => held \in {{}, AskedPieces})'
    BY <1>8, <2>3 DEF StoreInv, StillFresh
  <2>. QED  BY <1>7, <2>4, <2>5 DEF StoreInv
<1>. QED  BY <1>7, <1>10, <1>11, <1>12, <1>14 DEF ObsInv, TypeInv, ReaderInv

LEMMA CannotSends == ObsInv /\ CannotSend => ObsInv'
<1>. SUFFICES ASSUME ObsInv, CannotSend PROVE ObsInv'
  OBVIOUS
<1>. TypeInv /\ BodyInv /\ LoopInv /\ ReaderInv /\ StoreInv
  BY DEF ObsInv
<1>1. call' = Leaves(call, FALSE, "local") /\ held' = held /\ call.at = "attempt"
  BY DEF CannotSend
<1>2. GoodOutcome(call, call') /\ call'.err = "local"
  <2>1. call \in ObsCall /\ call.tries <= call.limit /\ call.limit <= MaxRetry + call.moved
    BY DEF TypeInv, LoopInv
  <2>2. "local" \in Errors /\ "local" # "none"
    BY DEF Errors
  <2>. QED  BY <1>1, <2>1, <2>2, Leaving
<1>3. call'.at = "done"
  BY <1>1 DEF Leaves, TypeInv, ObsCall
<1>4. HasBody' = HasBody /\ Restarts' = Restarts /\ AskedPieces' = AskedPieces
  BY <1>2, SameBody DEF GoodOutcome
<1>5. BodyInv'
  BY <1>2, <1>4 DEF BodyInv, GoodOutcome
<1>6. LoopInv'
  BY <1>2, <1>3 DEF LoopInv, GoodOutcome
<1>7. StoreInv'
  BY <1>1, <1>2, <1>3, <1>4 DEF StoreInv, Succeeded
<1>. QED  BY <1>1, <1>2, <1>3, <1>5, <1>6, <1>7 DEF ObsInv, TypeInv, ReaderInv, GoodOutcome

\* Another attempt begins where the first did if the body can.
LEMMA Rewinds == ObsInv /\ Rewind => ObsInv'
<1>. SUFFICES ASSUME ObsInv, Rewind PROVE ObsInv'
  OBVIOUS
<1>. TypeInv /\ BodyInv /\ LoopInv /\ ReaderInv /\ StoreInv
  BY DEF ObsInv
<1>. /\ call \in ObsCall /\ call.body \in Body /\ call.at = "again" /\ held' = held
     /\ call.pos \in 0..Pieces /\ call.read \in 0..Pieces /\ call.tries \in Nat /\ call.limit \in Nat
  BY DEF TypeInv, ObsCall, Rewind
<1>1. CASE call' = Leaves(call, FALSE, "local")
  <2>1. GoodOutcome(call, call') /\ call'.err = "local" /\ call'.at = "done"
    <3>1. call.tries <= call.limit /\ call.limit <= MaxRetry + call.moved
      BY DEF LoopInv
    <3>2. "local" \in Errors /\ "local" # "none"
      BY DEF Errors
    <3>. QED  BY <1>1, <3>1, <3>2, Leaving DEF Leaves, ObsCall
  <2>2. HasBody' = HasBody /\ Restarts' = Restarts /\ AskedPieces' = AskedPieces
    BY <2>1, SameBody DEF GoodOutcome
  <2>3. BodyInv'
    BY <2>1, <2>2 DEF BodyInv, GoodOutcome
  <2>4. LoopInv'
    BY <2>1 DEF LoopInv, GoodOutcome
  <2>5. StoreInv'
    BY <2>1, <2>2 DEF StoreInv, Succeeded
  <2>. QED  BY <2>1, <2>3, <2>4, <2>5 DEF ObsInv, TypeInv, ReaderInv, GoodOutcome
<1>2. CASE call' = [Rewound EXCEPT !.at = "attempt", !.tries = @ + 1]
  <2>. DEFINE c == Rewound
  <2>1. /\ c \in ObsCall /\ c.body = call.body /\ c.tries = call.tries /\ c.limit = call.limit
        /\ c.moved = call.moved /\ c.read \in {0, call.read}
        /\ Restarts /\ HasBody => c.pos = call.body.from /\ c.read = 0
    <3>1. CASE call.body.rewinds = "start"
      <4>1. c = [call EXCEPT !.pos = IF HasBody THEN 0 ELSE call.pos]
        BY <3>1 DEF Rewound
      <4>2. (IF HasBody THEN 0 ELSE call.pos) \in 0..Pieces
        BY ObsAssumption
      <4>3. c \in ObsCall
        BY <4>1, <4>2 DEF ObsCall
      <4>4. /\ c.body = call.body /\ c.tries = call.tries /\ c.limit = call.limit
            /\ c.moved = call.moved /\ c.read = call.read /\ (HasBody => c.pos = 0)
        BY <4>1 DEF ObsCall
      <4>. QED  BY <3>1, <4>3, <4>4 DEF BodyInv, Restarts
    <3>2. CASE call.body.rewinds = "reopen"
      <4>1. c = [call EXCEPT !.pos = 0, !.read = 0]
        BY <3>2 DEF Rewound
      <4>2. c \in ObsCall
        <5>1. 0 \in 0..Pieces
          BY ObsAssumption
        <5>. QED  BY <4>1, <5>1 DEF ObsCall
      <4>3. /\ c.body = call.body /\ c.tries = call.tries /\ c.limit = call.limit
            /\ c.moved = call.moved /\ c.read = 0 /\ c.pos = 0
        BY <4>1 DEF ObsCall
      <4>. QED  BY <3>2, <4>2, <4>3 DEF Restarts
    <3>3. CASE call.body.rewinds = "never"
      BY <3>3 DEF Rewound, Restarts
    <3>. QED  BY <3>1, <3>2, <3>3 DEF Body
  <2>2. call' = [c EXCEPT !.at = "attempt", !.tries = call.tries + 1]
    BY <1>2, <2>1
  <2>. HIDE DEF c
  <2>3. call' \in ObsCall
    <3>1. call.tries + 1 \in Nat
      OBVIOUS
    <3>. QED  BY <2>1, <2>2, <3>1 DEF ObsCall, Ats
  <2>4. /\ call'.body = call.body /\ call'.at = "attempt" /\ call'.tries = call.tries + 1
        /\ call'.limit = call.limit /\ call'.moved = call.moved
        /\ call'.read = c.read /\ call'.pos = c.pos
    BY <2>1, <2>2 DEF ObsCall
  <2>5. HasBody' = HasBody /\ Restarts' = Restarts /\ AskedPieces' = AskedPieces
    BY <2>4, SameBody
  <2>6. BodyInv'
    <3>1. call.body.size \in 0..Pieces
      BY DEF Body
    <3>. QED  BY <2>1, <2>4, <2>5, <3>1 DEF BodyInv
  <2>7. LoopInv'
    BY <2>4 DEF LoopInv
  <2>8. ReaderInv'
    BY <2>1, <2>4, <2>5 DEF ReaderInv, StillFresh
  <2>9. StoreInv'
    BY <2>4, <2>5 DEF StoreInv, Succeeded
  <2>. QED  BY <2>3, <2>6, <2>7, <2>8, <2>9 DEF ObsInv, TypeInv
<1>. QED  BY <1>1, <1>2 DEF Rewind

LEMMA AnswerParsed == ObsInv /\ ParseAnswer => ObsInv'
<1>. SUFFICES ASSUME ObsInv, ParseAnswer PROVE ObsInv'
  OBVIOUS
<1>. TypeInv /\ BodyInv /\ LoopInv /\ ReaderInv /\ StoreInv
  BY DEF ObsInv
<1>1. call.at = "done" /\ held' = held /\ call \in ObsCall
  BY DEF ParseAnswer, TypeInv
<1>2. PICK to \in {"ok", "error"} : /\ call' = [call EXCEPT !.at = to]
                                    /\ to = "ok" => call.err = "none"
  <2>1. CASE call.err # "none"
    BY <2>1 DEF ParseAnswer
  <2>2. CASE call.err = "none"
    <3>1. call.resp = TRUE
      BY <1>1, <2>2 DEF LoopInv
    <3>. QED  BY <2>2, <3>1 DEF ParseAnswer
  <2>. QED  BY <2>1, <2>2
<1>3. call' \in ObsCall
  BY <1>1, <1>2 DEF ObsCall, Ats
<1>4. /\ call'.at = to /\ call'.body = call.body /\ call'.tries = call.tries /\ call'.limit = call.limit
      /\ call'.moved = call.moved /\ call'.read = call.read
  BY <1>1, <1>2 DEF ObsCall
<1>5. HasBody' = HasBody /\ Restarts' = Restarts /\ AskedPieces' = AskedPieces
  BY <1>4, SameBody
<1>6. BodyInv'
  BY <1>4, <1>5 DEF BodyInv
<1>7. LoopInv'
  BY <1>4 DEF LoopInv
<1>8. StoreInv'
  <2>1. Succeeded' => Succeeded
    BY <1>1, <1>2, <1>4 DEF Succeeded
  <2>2. StillFresh' = StillFresh
    BY <1>4, <1>5 DEF StillFresh
  <2>. QED  BY <1>1, <1>4, <1>5, <2>1, <2>2 DEF StoreInv
<1>. QED  BY <1>1, <1>3, <1>4, <1>6, <1>7, <1>8 DEF ObsInv, TypeInv, ReaderInv

\* Every operation of the client begins a call.
LEMMA Operations ==
  ASSUME ObsInv, ObsNext, ~(SendOnce \/ CannotSend \/ Rewind \/ ParseAnswer)
  PROVE  ObsInv'
<1>1. ASSUME NEW b, GoodBody(b), DoAction(b) PROVE ObsInv'
  <2>1. PICK to \in {"attempt", "error"} : BeginCall(b, MaxRetry, to)
    BY <1>1 DEF DoAction
  <2>2. held = {}
    BY <2>1 DEF BeginCall, ObsInv, StoreInv
  <2>. QED  BY <1>1, <2>1, <2>2, ObsAssumption, Begins
<1>2. ASSUME NEW b, GoodBody(b), DoWithSignedUrl(b) PROVE ObsInv'
  <2>. DEFINE d == [b EXCEPT !.repeatable = FALSE]
  <2>1. BeginCall(d, 0, "attempt")
    BY <1>2 DEF DoWithSignedUrl
  <2>2. GoodBody(d)
    BY <1>2 DEF GoodBody, Body
  <2>3. held = {}
    BY <2>1 DEF BeginCall, ObsInv, StoreInv
  <2>. HIDE DEF d
  <2>. QED  BY <2>1, <2>2, <2>3, ObsAssumption, Begins
<1>3. CASE DoAction(NoBody) \/ DoWithSignedUrl(NoBody)
  BY <1>1, <1>2, <1>3, Bodies
<1>4. ASSUME NEW reader \in Readers, NEW length \in 0..Pieces, PutReader(reader, length) PROVE ObsInv'
  BY <1>1, <1>4, Bodies DEF PutReader
<1>5. ASSUME NEW reader \in Readers, PutObjectWithSignedUrl(reader) PROVE ObsInv'
  <2>1. 0 \in 0..Pieces
    BY ObsAssumption
  <2>. QED  BY <1>2, <1>5, <2>1, Bodies DEF PutObjectWithSignedUrl
<1>6. ASSUME NEW length \in 0..Pieces + 1, PutFile(length) PROVE ObsInv'
  BY <1>1, <1>6, Bodies DEF PutFile
<1>7. ASSUME NEW length \in 1..Pieces, PutFileWithSignedUrl(length) PROVE ObsInv'
  <2>1. length \in 0..Pieces + 1
    BY ObsAssumption
  <2>. QED  BY <1>2, <1>7, <2>1, Bodies DEF PutFileWithSignedUrl
<1>8. ASSUME NEW offset \in 0..Pieces - 1, NEW length \in 0..Pieces, UploadFilePart(offset, length)
      PROVE ObsInv'
  BY <1>1, <1>8, Bodies DEF UploadFilePart
<1>. QED  BY <1>3, <1>4, <1>5, <1>6, <1>7, <1>8 DEF ObsNext

LEMMA Stutters == ObsInv /\ UNCHANGED obsVars => ObsInv'
<1>. SUFFICES ASSUME ObsInv, UNCHANGED obsVars PROVE ObsInv'
  OBVIOUS
<1>1. call' = call /\ held' = held
  BY DEF obsVars
<1>. QED  BY <1>1 DEF ObsInv, TypeInv, BodyInv, LoopInv, ReaderInv, StoreInv, Succeeded, StillFresh, HasBody,
                      Restarts, AskedPieces

LEMMA ObsKeeps == ObsInv /\ [ObsNext]_obsVars => ObsInv'
BY Sends, CannotSends, Rewinds, AnswerParsed, Operations, Stutters

LEMMA ObsInvGives ==
  ASSUME ObsInv
  PROVE  ObsTypeOK /\ ObsStoresWhole
<1>1. call.tries \in Nat /\ call.limit \in Nat /\ call.moved \in Nat
  BY ObsAssumption DEF ObsInv, TypeInv, ObsCall
<1>2. call.tries <= MaxRetry + call.moved /\ call.at # "panic"
  BY <1>1, ObsAssumption DEF ObsInv, LoopInv
<1>3. ObsTypeOK
  BY DEF ObsInv, TypeInv, ObsCall, Ats, Errors, ObsTypeOK
<1>. QED  BY <1>2, <1>3 DEF ObsInv, StoreInv, Succeeded, StillFresh, ObsStoresWhole

\* A call of the client ends with an answer or an error, after no more attempts
\* than the retries and redirects allow; what it says it has stored is stored
\* whole, unless a body that cannot restart was sent again; and a body that can
\* is never stored in part: for all sizes of bodies and numbers of retries.
THEOREM StoresWhole == ObsSpec => []ObsStoresWhole
<1>1. ObsInv => ObsStoresWhole
  BY ObsInvGives
<1>. QED  BY <1>1, ObsKeeps, Initially, PTL DEF ObsSpec

-----------------------------------------------------------------------------
(* Lists that come in pages (Listing): the invariant *)

\* The keys that stayed, of the prefix, up to a mark.
Covered(keys, from, got) == \A k \in keys : k <= from => k \in Range(got)
UpTo(got, from) == \A k \in Range(got) : k <= from

\* What a list has while it is being made.
AwsSoFar == lister.from \in Nat /\ (~lister.paged => lister.from = 0)
ObsSoFar ==
  /\ lister.from \in Nat /\ UpTo(lister.got, lister.from)
  /\ Covered((steady \cap InPrefix) \ LowKeys, lister.from, lister.got)
AzureSoFar ==
  /\ lister.from \in Nat /\ UpTo(lister.got, lister.from)
  /\ Covered(steady \cap InPrefix, lister.from, lister.got)
\* Rows are counted: the list has those between the offset asked for and the
\* one reached.
Between(S, a, b) == {k \in S : a < Place(k, S) /\ Place(k, S) <= b}
BackendsSoFar ==
  /\ lister.from >= lister.start
  /\ lister.from <= Cardinality(shelf) \/ lister.from = lister.start
  /\ Range(lister.got) = Between(shelf, lister.start, lister.from)
TypesSoFar ==
  /\ lister.from >= lister.start
  /\ lister.from <= Len(AllTypes) \/ lister.from = lister.start
  /\ IF lister.start < 0 THEN lister.from = lister.start
     ELSE Range(lister.got) = (lister.start + 1)..lister.from
ListSoFar ==
  /\ lister.of = "aws" => AwsSoFar
  /\ lister.of = "obs" => ObsSoFar
  /\ lister.of = "azure" => AzureSoFar
  /\ lister.of = "backends" /\ ~shrunk => BackendsSoFar
  /\ lister.of = "types" => TypesSoFar
  /\ ~(lister.of = "backends" /\ shrunk) => IsInjective(lister.got)

ListShape ==
  /\ lister = [of |-> lister.of, at |-> lister.at, from |-> lister.from, limit |-> lister.limit,
               start |-> lister.start, paged |-> lister.paged, got |-> lister.got]
  /\ lister.from \in Int /\ lister.start \in Int /\ lister.limit \in Int /\ lister.paged \in BOOLEAN
  /\ removal = [key |-> removal.key, tries |-> removal.tries, at |-> removal.at]
  /\ removal.at \in {"idle", "trying", "wait", "ok", "error"}
  /\ removal.at # "idle" => removal # NoRemoval
  /\ removal = NoRemoval \/ removal.tries > 0
  /\ lister.at \in {"asking", "idle"} => removal = NoRemoval
  /\ lister.of = "none" <=> lister.at = "idle"
ListInv ==
  /\ ListTypeOK /\ ListShape
  /\ lister.at = "asking" => ListSoFar
  /\ ListsAndRemoves

-----------------------------------------------------------------------------
(* Numbers in their order *)

\* A set of numbers and its members below a bound are counted.
LEMMA PlaceIs ==
  ASSUME NEW S, IsFiniteSet(S), S \subseteq Nat
  PROVE  /\ Cardinality(S) \in Nat
         /\ \A k \in S : Place(k, S) \in 1..Cardinality(S)
         /\ \A j, k \in S : j < k => Place(j, S) < Place(k, S)
         /\ \A i \in 1..Cardinality(S) : \E k \in S : Place(k, S) = i
<1>. DEFINE Below(k) == {j \in S : j <= k}
            n == Cardinality(S)
<1>1. n \in Nat
  BY FS_CardinalityType
<1>2. ASSUME NEW k \in S PROVE IsFiniteSet(Below(k)) /\ Place(k, S) = Cardinality(Below(k)) /\ Place(k, S) \in 1..n
  <2>1. IsFiniteSet(Below(k)) /\ Cardinality(Below(k)) <= n
    BY FS_Subset
  <2>2. Cardinality(Below(k)) \in Nat
    BY <2>1, FS_CardinalityType
  <2>3. k \in Below(k)
    OBVIOUS
  <2>4. Cardinality(Below(k)) # 0
    <3>. HIDE DEF Below
    <3>. QED  BY <2>1, <2>3, FS_EmptySet
  <2>5. Place(k, S) = Cardinality(Below(k))
    BY DEF Place
  <2>. HIDE DEF Below
  <2>. QED  BY <1>1, <2>1, <2>2, <2>4, <2>5
<1>3. ASSUME NEW j \in S, NEW k \in S, j < k PROVE Place(j, S) < Place(k, S)
  <2>1. Below(j) \subseteq Below(k) /\ k \in Below(k) /\ k \notin Below(j)
    <3>1. j \in Nat /\ k \in Nat /\ \A i \in S : i \in Nat
      OBVIOUS
    <3>2. \A i \in Nat : i <= j => i <= k
      BY <1>3, <3>1
    <3>3. k <= k /\ ~(k <= j)
      BY <1>3, <3>1
    <3>. QED  BY <3>1, <3>2, <3>3
  <2>2. Cardinality(Below(j)) <= Cardinality(Below(k)) /\ Cardinality(Below(j)) # Cardinality(Below(k))
    <3>. HIDE DEF Below
    <3>1. IsFiniteSet(Below(k))
      BY <1>2
    <3>. QED  BY <2>1, <3>1, FS_Subset
  <2>3. /\ Place(j, S) = Cardinality(Below(j)) /\ Place(k, S) = Cardinality(Below(k))
        /\ Place(j, S) \in 1..n /\ Place(k, S) \in 1..n
    BY <1>2
  <2>. HIDE DEF Below, n
  <2>4. \A a, b \in 1..n : a <= b /\ a # b => a < b
    OBVIOUS
  <2>. QED  BY <2>2, <2>3, <2>4
<1>4. ASSUME NEW i \in 1..n PROVE \E k \in S : Place(k, S) = i
  <2>. DEFINE f == [k \in S |-> Place(k, S)]
  <2>1. f \in [S -> 1..n]
    BY <1>2
  <2>2. \A j, k \in S : Place(j, S) = Place(k, S) => j = k
    <3>. SUFFICES ASSUME NEW j \in S, NEW k \in S, Place(j, S) = Place(k, S), j # k PROVE FALSE
      OBVIOUS
    <3>1. j < k \/ k < j
      OBVIOUS
    <3>2. ~(j < k) /\ ~(k < j)
      <4>1. Place(j, S) \in 1..n
        BY <1>2
      <4>2. ~(Place(j, S) < Place(j, S))
        BY <4>1
      <4>. QED  BY <1>3, <4>2
    <3>. QED  BY <3>1, <3>2
  <2>3. f \in Injection(S, 1..n)
    BY <2>1, <2>2 DEF Injection, IsInjective
  <2>4. IsFiniteSet(1..n) /\ Cardinality(1..n) = n
    BY <1>1, FS_Interval
  <2>5. f \in Surjection(S, 1..n)
    <3>. HIDE DEF f
    <3>. QED  BY <2>3, <2>4, FS_Injection
  <2>. QED  BY <2>5 DEF Surjection
<1>. QED  BY <1>1, <1>2, <1>3, <1>4

LEMMA OrderedIs ==
  ASSUME NEW S, IsFiniteSet(S), S \subseteq Nat
  PROVE  /\ Ordered(S) \in Seq(S) /\ Len(Ordered(S)) = Cardinality(S)
         /\ Cardinality(S) \in Nat
         /\ \A i \in 1..Cardinality(S) : Ordered(S)[i] \in S /\ Place(Ordered(S)[i], S) = i
         /\ \A k \in S : Place(k, S) \in 1..Cardinality(S) /\ Ordered(S)[Place(k, S)] = k
         /\ \A j, k \in S : j < k <=> Place(j, S) < Place(k, S)
<1>. DEFINE n == Cardinality(S)
            o == Ordered(S)
<1>1. /\ n \in Nat
      /\ \A k \in S : Place(k, S) \in 1..n
      /\ \A j, k \in S : j < k => Place(j, S) < Place(k, S)
      /\ \A i \in 1..n : \E k \in S : Place(k, S) = i
  BY PlaceIs
<1>. HIDE DEF n
<1>2. \A i \in 1..n : o[i] \in S /\ Place(o[i], S) = i
  BY <1>1 DEF Ordered, n
<1>. HIDE DEF o
<1>3. o \in [1..n -> S]
  BY <1>2 DEF o, Ordered, n
<1>4. o \in Seq(S) /\ Len(o) = n
  BY <1>1, <1>3
<1>5. \A j, k \in S : Place(j, S) < Place(k, S) => j < k
  <2>. SUFFICES ASSUME NEW j \in S, NEW k \in S, Place(j, S) < Place(k, S), ~(j < k) PROVE FALSE
    OBVIOUS
  <2>1. Place(j, S) \in 1..n /\ Place(k, S) \in 1..n
    BY <1>1
  <2>2. k < j \/ j = k
    OBVIOUS
  <2>3. CASE k < j
    <3>1. Place(k, S) < Place(j, S)
      BY <1>1, <2>3
    <3>. QED  BY <2>1, <3>1
  <2>4. CASE j = k
    BY <2>1, <2>4
  <2>. QED  BY <2>2, <2>3, <2>4
<1>6. ASSUME NEW k \in S PROVE o[Place(k, S)] = k
  <2>1. Place(k, S) \in 1..n
    BY <1>1
  <2>2. o[Place(k, S)] \in S /\ Place(o[Place(k, S)], S) = Place(k, S)
    BY <1>2, <2>1
  <2>3. PICK j : j = o[Place(k, S)]
    OBVIOUS
  <2>4. j \in S /\ Place(j, S) = Place(k, S)
    BY <2>2, <2>3
  <2>5. ~(j < k) /\ ~(k < j)
    <3>1. ~(Place(j, S) < Place(k, S)) /\ ~(Place(k, S) < Place(j, S))
      BY <2>1, <2>4
    <3>. QED  BY <1>1, <2>4, <3>1
  <2>6. j = k
    BY <2>4, <2>5
  <2>. QED  BY <2>3, <2>6
<1>. QED  BY <1>1, <1>2, <1>4, <1>5, <1>6 DEF o, n

LEMMA MinIs == ASSUME NEW a \in Int, NEW b \in Int PROVE Min({a, b}) = IF a <= b THEN a ELSE b
<1>. DEFINE m == IF a <= b THEN a ELSE b
<1>1. m \in {a, b} /\ \A y \in {a, b} : m <= y
  OBVIOUS
<1>2. \A x \in {a, b} : (\A y \in {a, b} : x <= y) => x = m
  OBVIOUS
<1>3. Min({a, b}) \in {a, b} /\ \A y \in {a, b} : Min({a, b}) <= y
  BY <1>1 DEF Min
<1>. QED  BY <1>2, <1>3

\* A finite set of numbers has a greatest one.
LEMMA GreatestIs ==
  ASSUME NEW S, IsFiniteSet(S), S \subseteq Nat
  PROVE  /\ Max(S \cup {0}) \in Nat /\ Max(S \cup {0}) \in S \cup {0}
         /\ \A k \in S : k <= Max(S \cup {0})
<1>. DEFINE T == S \cup {0}
            n == Cardinality(T)
<1>1. IsFiniteSet(T) /\ T \subseteq Nat /\ 0 \in T
  BY FS_AddElement
<1>. HIDE DEF T
<1>2. /\ n \in Nat /\ \A k \in T : Place(k, T) \in 1..n
      /\ \A j, k \in T : j < k => Place(j, T) < Place(k, T)
      /\ \A i \in 1..n : \E k \in T : Place(k, T) = i
  BY <1>1, PlaceIs
<1>. HIDE DEF n
<1>3. n \in 1..n
  BY <1>1, <1>2
<1>4. PICK m \in T : Place(m, T) = n
  BY <1>2, <1>3
<1>5. ASSUME NEW k \in T PROVE k <= m
  <2>1. ~(m < k)
    <3>1. ~(n < Place(k, T))
      BY <1>2
    <3>. QED  BY <1>2, <1>4, <3>1
  <2>. QED  BY <1>1, <2>1
<1>6. Max(T) \in T /\ \A y \in T : Max(T) >= y
  <2>1. \E x \in T : \A y \in T : x >= y
    BY <1>1, <1>5
  <2>. QED  BY <2>1 DEF Max
<1>. QED  BY <1>1, <1>6 DEF T

-----------------------------------------------------------------------------
(* Pages *)

LEMMA InjectiveConcat ==
  ASSUME NEW s \in Seq(Nat), NEW t \in Seq(Nat), IsInjective(s), IsInjective(t),
         Range(s) \cap Range(t) = {}
  PROVE  IsInjective(s \o t)
<1>. DEFINE u == s \o t
<1>1. /\ u \in Seq(Nat) /\ Len(u) = Len(s) + Len(t)
      /\ \A i \in 1..Len(s) + Len(t) : u[i] = IF i <= Len(s) THEN s[i] ELSE t[i - Len(s)]
  BY ConcatProperties
<1>2. /\ Len(s) \in Nat /\ Len(t) \in Nat /\ DOMAIN s = 1..Len(s) /\ DOMAIN t = 1..Len(t)
      /\ DOMAIN u = 1..Len(s) + Len(t)
  BY <1>1
<1>. HIDE DEF u
<1>3. ASSUME NEW i \in DOMAIN u PROVE \/ i \in DOMAIN s /\ u[i] = s[i]
                                      \/ i - Len(s) \in DOMAIN t /\ u[i] = t[i - Len(s)] /\ i > Len(s)
  BY <1>1, <1>2
<1>4. \A i \in DOMAIN s : \A j \in DOMAIN t : s[i] # t[j]
  BY DEF Range
<1>5. ASSUME NEW i \in DOMAIN u, NEW j \in DOMAIN u, u[i] = u[j] PROVE i = j
  <2>1. CASE i \in DOMAIN s /\ u[i] = s[i] /\ j \in DOMAIN s /\ u[j] = s[j]
    BY <1>5, <2>1 DEF IsInjective
  <2>2. CASE /\ i - Len(s) \in DOMAIN t /\ u[i] = t[i - Len(s)]
             /\ j - Len(s) \in DOMAIN t /\ u[j] = t[j - Len(s)]
    <3>1. i - Len(s) = j - Len(s)
      BY <1>5, <2>2 DEF IsInjective
    <3>. QED  BY <1>2, <3>1
  <2>. QED  BY <1>3, <1>4, <1>5, <2>1, <2>2
<1>. QED  BY <1>5 DEF IsInjective, u

LEMMA OrderedInjective ==
  ASSUME NEW S, IsFiniteSet(S), S \subseteq Nat
  PROVE  Ordered(S) \in Seq(Nat) /\ IsInjective(Ordered(S)) /\ Range(Ordered(S)) = S
<1>. DEFINE o == Ordered(S)
            n == Cardinality(S)
<1>1. /\ o \in Seq(S) /\ Len(o) = n /\ n \in Nat
      /\ \A i \in 1..n : o[i] \in S /\ Place(o[i], S) = i
      /\ \A k \in S : Place(k, S) \in 1..n /\ o[Place(k, S)] = k
  BY OrderedIs
<1>. HIDE DEF o, n
<1>2. DOMAIN o = 1..n
  BY <1>1
<1>3. o \in Seq(Nat)
  BY <1>1, SeqMonotonic
<1>4. IsInjective(o)
  BY <1>1, <1>2 DEF IsInjective
<1>5. Range(o) = S
  BY <1>1, <1>2 DEF Range
<1>. QED  BY <1>3, <1>4, <1>5 DEF o

\* A run of the members: those at the places from a + 1 to b.
LEMMA RunIs ==
  ASSUME NEW S, IsFiniteSet(S), S \subseteq Nat, NEW a \in Nat, NEW b \in Nat, b <= Cardinality(S)
  PROVE  /\ SubSeq(Ordered(S), a + 1, b) \in Seq(Nat)
         /\ Len(SubSeq(Ordered(S), a + 1, b)) = IF a <= b THEN b - a ELSE 0
         /\ IsInjective(SubSeq(Ordered(S), a + 1, b))
         /\ Range(SubSeq(Ordered(S), a + 1, b)) = Between(S, a, b)
<1>. DEFINE o == Ordered(S)
            n == Cardinality(S)
            p == SubSeq(o, a + 1, b)
<1>1. /\ o \in Seq(S) /\ Len(o) = n /\ n \in Nat
      /\ \A i \in 1..n : o[i] \in S /\ Place(o[i], S) = i
      /\ \A k \in S : Place(k, S) \in 1..n /\ o[Place(k, S)] = k
  BY OrderedIs
<1>. HIDE DEF o, n
<1>2. /\ p \in Seq(S) /\ Len(p) = (IF a + 1 <= b THEN b - (a + 1) + 1 ELSE 0)
      /\ \A i \in 1..b - (a + 1) + 1 : p[i] = o[a + 1 + i - 1]
  <2>1. \A i \in (a + 1)..b : o[i] \in S
    BY <1>1 DEF n
  <2>2. a + 1 \in Int /\ b \in Int
    OBVIOUS
  <2>. QED  BY <2>1, <2>2, SubSeqProperties
<1>. HIDE DEF p
<1>3. Len(p) = IF a <= b THEN b - a ELSE 0
  BY <1>2
<1>4. \A i \in 1..Len(p) : p[i] = o[a + i] /\ a + i \in 1..n
  BY <1>1, <1>2, <1>3 DEF n
<1>5. DOMAIN p = 1..Len(p) /\ p \in Seq(Nat)
  <2>1. DOMAIN p = 1..Len(p)
    BY <1>2
  <2>2. p \in Seq(Nat)
    BY <1>2, SeqMonotonic, Zenon
  <2>. QED  BY <2>1, <2>2
<1>6. IsInjective(p)
  <2>. SUFFICES ASSUME NEW i \in 1..Len(p), NEW j \in 1..Len(p), p[i] = p[j] PROVE i = j
    BY <1>5 DEF IsInjective
  <2>1. a + i = a + j
    BY <1>1, <1>4
  <2>. QED  BY <1>3, <2>1
<1>7. \A k \in Range(p) : k \in S /\ a < Place(k, S) /\ Place(k, S) <= b
  <2>. SUFFICES ASSUME NEW i \in 1..Len(p) PROVE p[i] \in S /\ a < Place(p[i], S) /\ Place(p[i], S) <= b
    BY <1>5 DEF Range
  <2>1. p[i] \in S /\ Place(p[i], S) = a + i
    BY <1>1, <1>4
  <2>2. a < a + i /\ a + i <= b
    BY <1>3
  <2>. QED  BY <2>1, <2>2
<1>8. ASSUME NEW k \in S, a < Place(k, S), Place(k, S) <= b PROVE k \in Range(p)
  <2>1. Place(k, S) \in 1..n /\ o[Place(k, S)] = k
    BY <1>1
  <2>2. Place(k, S) - a \in 1..Len(p) /\ a + (Place(k, S) - a) = Place(k, S)
    BY <1>3, <1>8, <2>1
  <2>3. p[Place(k, S) - a] = k
    BY <1>4, <2>1, <2>2
  <2>. QED  BY <1>5, <2>2, <2>3 DEF Range
<1>9. Range(p) = Between(S, a, b)
  BY <1>7, <1>8 DEF Between
<1>. QED  BY <1>3, <1>5, <1>6, <1>9 DEF p, o

\* The shelf is a finite set of numbers, and so is what follows a marker.
LEMMA Shelves ==
  ASSUME ListTypeOK
  PROVE  /\ IsFiniteSet(shelf) /\ shelf \subseteq Nat \ {0}
         /\ \A S \in SUBSET shelf : IsFiniteSet(S) /\ S \subseteq Nat /\ Cardinality(S) \in Nat
         /\ \A m : Following(m) \in SUBSET shelf
<1>1. shelf \subseteq Keys /\ IsFiniteSet(Keys) /\ Keys \subseteq Nat \ {0}
  BY ListingAssumption DEF ListTypeOK
<1>2. IsFiniteSet(shelf)
  BY <1>1, FS_Subset
<1>3. \A S \in SUBSET shelf : IsFiniteSet(S) /\ Cardinality(S) \in Nat
  BY <1>2, FS_Subset, FS_CardinalityType
<1>. QED  BY <1>1, <1>2, <1>3 DEF Following

\* A page after a marker: the next marker is its last key, all up to there are on it, and a page
\* after which there is none has all.
LEMMA PageIs ==
  ASSUME ListTypeOK, NEW m \in Nat
  PROVE  /\ PageFrom(m) \in Seq(Nat) /\ IsInjective(PageFrom(m))
         /\ \A k \in Range(PageFrom(m)) : k > m /\ k <= Last(<<m>> \o PageFrom(m))
         /\ Last(<<m>> \o PageFrom(m)) \in Nat /\ m <= Last(<<m>> \o PageFrom(m))
         /\ \A k \in shelf \cap InPrefix :
              m < k /\ (k <= Last(<<m>> \o PageFrom(m)) \/ ~Truncated(m)) => k \in Range(PageFrom(m))
         /\ Range(PageFrom(m)) \subseteq shelf
<1>. DEFINE F == Following(m)
            n == Cardinality(F)
            o == Ordered(F)
            b == IF PageSize <= n THEN PageSize ELSE n
            p == PageFrom(m)
<1>0. IsFiniteSet(F) /\ F \subseteq Nat /\ n \in Nat /\ PageSize \in Nat \ {0} /\ F \subseteq shelf
  BY Shelves, ListingAssumption
<1>00. F = {k \in shelf \cap InPrefix : k > m}
  BY DEF Following
<1>1. p = SubSeq(o, 1, b)
  BY <1>0, MinIs DEF PageFrom
<1>. HIDE DEF F, n, o, p
<1>2. b \in Nat /\ b <= n
  BY <1>0
<1>3. /\ o \in Seq(F) /\ Len(o) = n
      /\ \A i \in 1..n : o[i] \in F /\ Place(o[i], F) = i
      /\ \A k \in F : Place(k, F) \in 1..n /\ o[Place(k, F)] = k
      /\ \A j, k \in F : j < k <=> Place(j, F) < Place(k, F)
  BY <1>0, OrderedIs DEF n, o
<1>4. /\ p \in Seq(Nat) /\ Len(p) = b /\ IsInjective(p)
      /\ Range(p) = {k \in F : Place(k, F) <= b}
  <2>0. PICK z \in Nat : z = 0
    OBVIOUS
  <2>1. z + 1 = 1 /\ z <= b /\ b - z = b
    BY <1>2, <2>0
  <2>2. /\ SubSeq(o, z + 1, b) \in Seq(Nat) /\ Len(SubSeq(o, z + 1, b)) = (IF z <= b THEN b - z ELSE 0)
        /\ IsInjective(SubSeq(o, z + 1, b))
        /\ Range(SubSeq(o, z + 1, b)) = Between(F, z, b)
    <3>. HIDE DEF b
    <3>. QED  BY <1>0, <1>2, RunIs DEF n, o
  <2>3. \A k \in F : z < Place(k, F)
    BY <1>3, <2>0
  <2>4. p = SubSeq(o, z + 1, b)
    BY <1>1, <2>1
  <2>. QED  BY <2>1, <2>2, <2>3, <2>4 DEF Between
<1>5. \A i \in 1..b : p[i] = o[i]
  <2>1. \A i \in 1..b : o[i] \in F
    BY <1>0, <1>3
  <2>2. \A i \in 1..b - 1 + 1 : SubSeq(o, 1, b)[i] = o[1 + i - 1]
    BY <1>2, <2>1, SubSeqProperties
  <2>3. \A i \in 1..b : i \in 1..b - 1 + 1 /\ 1 + i - 1 = i
    BY <1>2
  <2>. QED  BY <1>1, <2>2, <2>3
<1>. DEFINE l == Last(<<m>> \o p)
<1>6. l = IF b = 0 THEN m ELSE o[b]
  <2>1. <<m>> \in Seq(Nat) /\ Len(<<m>>) = 1 /\ <<m>>[1] = m
    OBVIOUS
  <2>2. /\ Len(<<m>> \o p) = 1 + b
        /\ \A i \in 1..1 + b : (<<m>> \o p)[i] = IF i <= 1 THEN <<m>>[i] ELSE p[i - 1]
    BY <1>4, <2>1, ConcatProperties
  <2>3. PICK i : i = 1 + b
    OBVIOUS
  <2>4. i \in 1..1 + b
    BY <1>2, <2>3
  <2>5. l = (<<m>> \o p)[i]
    BY <2>2, <2>3 DEF Last
  <2>6. CASE b = 0
    <3>1. i = 1
      BY <2>3, <2>6
    <3>2. (<<m>> \o p)[i] = <<m>>[i]
      BY <2>2, <2>4, <3>1
    <3>. QED  BY <2>1, <2>5, <2>6, <3>1, <3>2
  <2>7. CASE b # 0
    <3>1. i - 1 = b /\ b \in 1..b /\ ~(i <= 1)
      BY <1>2, <2>3, <2>7
    <3>2. (<<m>> \o p)[i] = p[i - 1]
      BY <2>2, <2>4, <3>1
    <3>. QED  BY <1>5, <2>5, <2>7, <3>1, <3>2
  <2>. QED  BY <2>6, <2>7
<1>. HIDE DEF l, b
<1>7. ASSUME NEW k \in F PROVE k > m /\ k \in Nat /\ (b # 0 => (Place(k, F) <= b <=> k <= l))
  <2>1. k > m /\ k \in Nat
    BY <1>0, <1>00
  <2>2. ASSUME b # 0 PROVE Place(k, F) <= b <=> k <= l
    <3>1. b \in 1..n
      BY <1>2, <2>2
    <3>2. l = o[b] /\ o[b] \in F /\ Place(o[b], F) = b
      BY <1>3, <1>6, <2>2, <3>1
    <3>3. l \in F /\ Place(l, F) = b
      BY <3>2
    <3>4. l < k <=> b < Place(k, F)
      BY <1>3, <3>3
    <3>5. Place(k, F) \in Int /\ l \in Int /\ k \in Int
      BY <1>0, <1>3, <2>1, <3>3
    <3>. QED  BY <1>2, <3>4, <3>5
  <2>. QED  BY <2>1, <2>2
<1>8. l \in Nat /\ m <= l
  <2>1. CASE b = 0
    BY <1>6, <2>1
  <2>2. CASE b # 0
    <3>1. b \in 1..n
      BY <1>2, <2>2
    <3>2. o[b] \in F
      BY <1>3, <3>1
    <3>3. l \in F
      BY <1>6, <2>2, <3>2
    <3>. QED  BY <1>7, <3>3
  <2>. QED  BY <2>1, <2>2
<1>9. ASSUME NEW k \in Range(p) PROVE k > m /\ k <= l
  <2>1. k \in F /\ Place(k, F) <= b /\ Place(k, F) \in 1..n
    BY <1>3, <1>4
  <2>2. b # 0
    BY <1>2, <2>1
  <2>. QED  BY <1>7, <2>1, <2>2
<1>10. ASSUME NEW k \in shelf \cap InPrefix, m < k, k <= l \/ ~Truncated(m) PROVE k \in Range(p)
  <2>0. k \in Nat
    BY Shelves
  <2>1. k \in F
    BY <1>10, <1>00, <2>0
  <2>2. Place(k, F) \in 1..n
    BY <1>3, <2>1
  <2>3. CASE ~Truncated(m)
    <3>1. ~(n > PageSize)
      BY <2>3 DEF Truncated, n, F
    <3>2. b = n
      BY <1>0, <3>1 DEF b
    <3>3. Place(k, F) <= b
      BY <2>2, <3>2
    <3>. QED  BY <1>4, <2>1, <3>3
  <2>4. CASE k <= l /\ b # 0
    BY <1>4, <1>7, <2>1, <2>4
  <2>5. CASE k <= l /\ b = 0
    BY <1>6, <1>10, <2>0, <2>5
  <2>. QED  BY <1>10, <2>3, <2>4, <2>5
<1>11. Range(p) \subseteq shelf
  BY <1>0, <1>4
<1>. QED  BY <1>4, <1>8, <1>9, <1>10, <1>11 DEF p, l

-----------------------------------------------------------------------------
(* Rows *)

\* The beginning of a run is a run.
LEMMA RunOfRun ==
  ASSUME NEW S, NEW s \in Seq(S), NEW c \in Nat \ {0}, NEW b \in Nat, b <= Len(s), NEW d \in Nat, d <= b, c <= d + 1,
         NEW m, m = d - c + 1
  PROVE  SubSeq(SubSeq(s, c, b), 1, m) = SubSeq(s, c, d)
<1>. DEFINE r == SubSeq(s, c, b)
            u == SubSeq(s, c, d)
            t == SubSeq(r, 1, m)
<1>1. m \in Nat /\ m <= b - c + 1 /\ m - 1 + 1 = m
  OBVIOUS
<1>2. \A i \in 1..Len(s) : s[i] \in S
  OBVIOUS
<1>3. \A i \in 1..b - c + 1 : r[i] \in S /\ r[i] = s[c + i - 1]
  <2>1. \A i \in c..b : s[i] \in S
    BY <1>2
  <2>2. \A i \in 1..b - c + 1 : r[i] = s[c + i - 1]
    BY <2>1, SubSeqProperties
  <2>. HIDE DEF r
  <2>3. \A i \in 1..b - c + 1 : c + i - 1 \in c..b
    OBVIOUS
  <2>. QED  BY <2>1, <2>2, <2>3
<1>4. u \in Seq(S) /\ Len(u) = m /\ \A i \in 1..m : u[i] = s[c + i - 1]
  <2>1. \A i \in c..d : s[i] \in S
    BY <1>2
  <2>2. /\ u \in Seq(S) /\ Len(u) = (IF c <= d THEN d - c + 1 ELSE 0)
        /\ \A i \in 1..d - c + 1 : u[i] = s[c + i - 1]
    BY <2>1, SubSeqProperties
  <2>. QED  BY <1>1, <2>2
<1>. HIDE DEF r, u
<1>5. t \in Seq(S) /\ Len(t) = m /\ \A i \in 1..m : t[i] = r[i]
  <2>1. \A i \in 1..m : r[i] \in S
    BY <1>1, <1>3
  <2>2. /\ t \in Seq(S) /\ Len(t) = (IF 1 <= m THEN m - 1 + 1 ELSE 0)
        /\ \A i \in 1..m - 1 + 1 : t[i] = r[1 + i - 1]
    BY <1>1, <2>1, SubSeqProperties
  <2>. HIDE DEF t
  <2>3. \A i \in 1..m : t[i] = r[i]
    <3>. SUFFICES ASSUME NEW i \in 1..m PROVE t[i] = r[i]
      OBVIOUS
    <3>1. i \in 1..m - 1 + 1 /\ 1 + i - 1 = i
      BY <1>1
    <3>. QED  BY <2>2, <3>1
  <2>. QED  BY <1>1, <2>2, <2>3
<1>. HIDE DEF t
<1>6. \A i \in 1..m : t[i] = u[i]
  <2>. SUFFICES ASSUME NEW i \in 1..m PROVE t[i] = u[i]
    OBVIOUS
  <2>1. i \in 1..b - c + 1
    BY <1>1
  <2>. QED  BY <1>3, <1>4, <1>5, <2>1
<1>7. t = u
  BY <1>4, <1>5, <1>6, SeqEqual
<1>. QED  BY <1>7 DEF r, u, t

\* Upto keeps a run of s from c on, up to an end that b or the limit gives.
CutAt(s, c, b, limit, d) ==
  /\ c <= d + 1 /\ d <= b /\ (d = b \/ d + 1 = c + limit)
  /\ Upto(SubSeq(s, c, b), limit) = SubSeq(s, c, d)

LEMMA UptoIs ==
  ASSUME NEW S, NEW s \in Seq(S), NEW c \in Nat \ {0}, NEW b \in Nat, b <= Len(s), c <= b + 1, NEW limit \in Nat
  PROVE  \E d \in Nat : CutAt(s, c, b, limit, d)
<1>. DEFINE r == SubSeq(s, c, b)
<1>1. Len(r) = b - c + 1
  <2>1. \A i \in c..b : s[i] \in S
    OBVIOUS
  <2>2. Len(r) = IF c <= b THEN b - c + 1 ELSE 0
    BY <2>1, SubSeqProperties
  <2>. HIDE DEF r
  <2>. QED  BY <2>2
<1>. HIDE DEF r
<1>2. PICK m : m = Min({limit, b - c + 1})
  OBVIOUS
<1>3. m = IF limit <= b - c + 1 THEN limit ELSE b - c + 1
  BY <1>2, MinIs
<1>4. PICK d \in Nat : c <= d + 1 /\ d <= b /\ (d = b \/ d + 1 = c + limit) /\ m = d - c + 1
  <2>1. CASE limit <= b - c + 1
    <3>1. c + limit - 1 \in Nat /\ m = limit /\ (c + limit - 1) - c + 1 = limit
      BY <1>3, <2>1
    <3>. QED  BY <2>1, <3>1
  <2>2. CASE ~(limit <= b - c + 1)
    BY <1>3, <2>2
  <2>. QED  BY <2>1, <2>2
<1>5. SubSeq(r, 1, m) = SubSeq(s, c, d)
  BY <1>4, RunOfRun DEF r
<1>6. Upto(r, limit) = SubSeq(r, 1, m)
  BY <1>1, <1>2, Zenon DEF Upto
<1>. QED  BY <1>4, <1>5, <1>6 DEF r, CutAt

\* What ListBackend answers with: the rows from an offset on.
LEMMA RowsIs ==
  ASSUME ListTypeOK, NEW offset \in Nat, NEW limit \in Nat
  PROVE  LET rows == RowsFrom(offset, limit) IN
         /\ rows \in Seq(Nat) /\ IsInjective(rows)
         /\ Range(rows) = Between(shelf, offset, offset + Len(rows))
         /\ rows # <<>> => offset + Len(rows) <= Cardinality(shelf)
         /\ limit = 0 \/ rows = <<>> =>
              \A k \in shelf : offset < Place(k, shelf) => k \in Range(rows)
<1>. DEFINE rows == RowsFrom(offset, limit)
            o == Ordered(shelf)
            n == Cardinality(shelf)
<1>1. /\ IsFiniteSet(shelf) /\ shelf \subseteq Nat /\ n \in Nat
  BY Shelves
<1>2. /\ o \in Seq(shelf) /\ Len(o) = n
      /\ \A k \in shelf : Place(k, shelf) \in 1..n
  BY <1>1, OrderedIs
<1>3. Rest(offset) = SubSeq(o, offset + 1, n)
  BY <1>2 DEF Rest
<1>4. \E c \in Nat : /\ rows = SubSeq(o, offset + 1, c) /\ c <= n
                     /\ limit = 0 => c = n
                     /\ limit # 0 /\ c <= offset => n <= offset
  <2>1. CASE limit = 0
    BY <1>1, <1>3, <2>1 DEF RowsFrom
  <2>2. CASE limit # 0 /\ offset <= n
    <3>1. PICK d \in Nat : /\ offset + 1 <= d + 1 /\ d <= n /\ (d = n \/ d + 1 = offset + 1 + limit)
                          /\ Upto(SubSeq(o, offset + 1, n), limit) = SubSeq(o, offset + 1, d)
      <4>. HIDE DEF n, o
      <4>1. n <= Len(o) /\ offset + 1 \in Nat \ {0} /\ offset + 1 <= n + 1
        BY <1>1, <1>2, <2>2
      <4>2. PICK first : first = offset + 1
        OBVIOUS
      <4>3. \E d \in Nat : CutAt(o, first, n, limit, d)
        <5>1. first \in Nat \ {0} /\ first <= n + 1
          BY <4>1, <4>2
        <5>. QED  BY <1>1, <1>2, <4>1, <5>1, UptoIs
      <4>. QED  BY <4>2, <4>3 DEF CutAt
    <3>2. rows = SubSeq(o, offset + 1, d)
      BY <1>3, <2>2, <3>1 DEF RowsFrom
    <3>. HIDE DEF rows, n, o
    <3>3. d <= n /\ (d <= offset => n <= offset)
      BY <1>1, <2>2, <3>1
    <3>. QED  BY <2>2, <3>2, <3>3
  <2>3. CASE limit # 0 /\ offset > n
    <3>1. n < offset + 1 /\ n + 1 \in Int /\ offset + 1 \in Int
      BY <1>1, <2>3
    <3>2. Rest(offset) = <<>>
      BY <1>1, <1>3, <3>1, SubSeqEmpty
    <3>3. Upto(<<>>, limit) = <<>>
      <4>1. Min({limit, 0}) = 0
        BY <2>3, MinIs
      <4>2. Len(<<>>) = 0
        OBVIOUS
      <4>3. SubSeq(<<>>, 1, 0) = <<>>
        BY SubSeqEmpty
      <4>. QED  BY <4>1, <4>2, <4>3 DEF Upto
    <3>4. rows = SubSeq(o, offset + 1, n)
      BY <1>3, <2>3, <3>2, <3>3 DEF RowsFrom
    <3>5. n <= n /\ n <= offset
      BY <1>1, <2>3
    <3>. QED  BY <1>1, <2>3, <3>4, <3>5
  <2>. QED  BY <1>1, <2>1, <2>2, <2>3
<1>5. PICK c \in Nat : /\ rows = SubSeq(o, offset + 1, c) /\ c <= n
                       /\ limit = 0 => c = n
                       /\ limit # 0 /\ c <= offset => n <= offset
  BY <1>4
<1>6. /\ rows \in Seq(Nat) /\ Len(rows) = (IF offset <= c THEN c - offset ELSE 0)
      /\ IsInjective(rows) /\ Range(rows) = Between(shelf, offset, c)
  <2>. HIDE DEF rows
  <2>. QED  BY <1>1, <1>5, RunIs
<1>. HIDE DEF rows, n, o
<1>7. Between(shelf, offset, c) = Between(shelf, offset, offset + Len(rows))
  <2>1. CASE offset <= c
    <3>1. offset + Len(rows) = c
      BY <1>6, <2>1
    <3>. QED  BY <3>1
  <2>2. CASE c < offset
    <3>1. offset + Len(rows) = offset
      BY <1>6, <2>2
    <3>2. \A x \in Nat : ~(offset < x /\ x <= c) /\ ~(offset < x /\ x <= offset)
      BY <2>2
    <3>3. \A k \in shelf : Place(k, shelf) \in Nat
      BY <1>1, <1>2
    <3>. QED  BY <3>1, <3>2, <3>3 DEF Between
  <2>. QED  BY <2>1, <2>2
<1>8. rows = <<>> <=> Len(rows) = 0
  BY <1>6, EmptySeq
<1>9. rows # <<>> => offset + Len(rows) <= n
  BY <1>1, <1>5, <1>6, <1>8
<1>10. ASSUME limit = 0 \/ rows = <<>>, NEW k \in shelf, offset < Place(k, shelf) PROVE k \in Range(rows)
  <2>1. Place(k, shelf) \in 1..n
    BY <1>2
  <2>2. c = n
    <3>1. CASE limit # 0
      <4>1. c <= offset
        BY <1>6, <1>8, <1>10, <3>1
      <4>. QED  BY <1>1, <1>5, <1>10, <2>1, <3>1, <4>1
    <3>. QED  BY <1>5, <3>1
  <2>. QED  BY <1>1, <1>6, <1>10, <2>1, <2>2 DEF Between
<1>. QED  BY <1>6, <1>7, <1>9, <1>10 DEF rows, n

\* ... and ListType.
LEMMA TypeRowsIs ==
  ASSUME NEW from \in Nat, from <= 5, NEW limit \in Nat
  PROVE  LET rows == Upto(SubSeq(AllTypes, from + 1, 5), limit) IN
         /\ rows \in Seq(Nat) /\ IsInjective(rows)
         /\ Range(rows) = (from + 1)..(from + Len(rows))
         /\ from + Len(rows) <= 5
         /\ rows = <<>> /\ limit # 0 => from = 5
<1>. DEFINE rows == Upto(SubSeq(AllTypes, from + 1, 5), limit)
<1>1. AllTypes \in Seq(Nat) /\ Len(AllTypes) = 5 /\ \A i \in 1..5 : AllTypes[i] = i
  BY DEF AllTypes
<1>2. PICK d \in Nat : /\ from + 1 <= d + 1 /\ d <= 5 /\ (d = 5 \/ d + 1 = from + 1 + limit)
                      /\ rows = SubSeq(AllTypes, from + 1, d)
  <2>. HIDE DEF rows
  <2>1. 5 \in Nat /\ 5 <= Len(AllTypes) /\ from + 1 \in Nat \ {0} /\ from + 1 <= 5 + 1
    BY <1>1
  <2>2. PICK s, c, b : s = AllTypes /\ c = from + 1 /\ b = 5
    OBVIOUS
  <2>3. s \in Seq(Nat) /\ c \in Nat \ {0} /\ b \in Nat /\ b <= Len(s) /\ c <= b + 1
    BY <1>1, <2>1, <2>2
  <2>4. \E d \in Nat : CutAt(s, c, b, limit, d)
    BY <2>3, UptoIs
  <2>. QED  BY <2>2, <2>4 DEF rows, CutAt
<1>. DEFINE u == SubSeq(AllTypes, from + 1, d)
            m == d - from
<1>3. rows = u /\ m \in Nat
  BY <1>2
<1>4. u \in Seq(Nat) /\ Len(u) = m /\ \A i \in 1..m : u[i] = from + i
  <2>1. \A i \in (from + 1)..d : AllTypes[i] \in Nat /\ AllTypes[i] = i
    BY <1>1, <1>2
  <2>2. /\ u \in Seq(Nat) /\ Len(u) = (IF from + 1 <= d THEN d - (from + 1) + 1 ELSE 0)
        /\ \A i \in 1..d - (from + 1) + 1 : u[i] = AllTypes[from + 1 + i - 1]
    BY <2>1, SubSeqProperties
  <2>. HIDE DEF u
  <2>3. \A i \in 1..m : u[i] = from + i
    <3>. SUFFICES ASSUME NEW i \in 1..m PROVE u[i] = from + i
      OBVIOUS
    <3>1. i \in 1..d - (from + 1) + 1 /\ from + 1 + i - 1 = from + i /\ from + i \in (from + 1)..d
      BY <1>2
    <3>. QED  BY <2>1, <2>2, <3>1
  <2>. QED  BY <1>2, <2>2, <2>3
<1>. HIDE DEF u, rows
<1>6. DOMAIN u = 1..m
  BY <1>3, <1>4
<1>7. IsInjective(u)
  BY <1>4, <1>6 DEF IsInjective
<1>8. Range(u) = (from + 1)..(from + m)
  <2>1. ASSUME NEW k \in Range(u) PROVE k \in (from + 1)..(from + m)
    BY <1>4, <1>6 DEF Range
  <2>2. ASSUME NEW k \in (from + 1)..(from + m) PROVE k \in Range(u)
    <3>1. k - from \in 1..m /\ from + (k - from) = k
      BY <1>2
    <3>. QED  BY <1>4, <1>6, <3>1 DEF Range
  <2>. QED  BY <2>1, <2>2
<1>9. u = <<>> /\ limit # 0 => from = 5
  <2>1. u = <<>> => m = 0
    BY <1>4
  <2>. QED  BY <1>2, <2>1
<1>. QED  BY <1>2, <1>3, <1>4, <1>7, <1>8, <1>9 DEF rows

-----------------------------------------------------------------------------
(* Beginning a list, and taking a page *)

\* What a page leaves alone.
Others == <<shelf, removal, moves, steady, shrunk, back>>

LEMMA StartStep ==
  ASSUME ListInv, NEW of \in Source \cup Rows, NEW to \in {"asking", "failed"},
         NEW limit \in Int, limit <= MaxLimit, NEW from \in Int, of \notin Rows => from = 0,
         Starts(NewList(of, to, limit, from))
  PROVE  ListInv'
<1>. DEFINE l == NewList(of, to, limit, from)
<1>1. /\ lister' = l /\ lister = NoList /\ steady' = shelf
      /\ UNCHANGED <<shelf, removal, moves, shrunk, back>>
  BY DEF Starts
<1>2. /\ l.of = of /\ l.at = to /\ l.from = from /\ l.limit = limit /\ l.start = from
      /\ l.paged = FALSE /\ l.got = <<>>
      /\ l = [of |-> l.of, at |-> l.at, from |-> l.from, limit |-> l.limit,
              start |-> l.start, paged |-> l.paged, got |-> l.got]
  BY DEF NewList
<1>. HIDE DEF l
<1>3. ListTypeOK /\ ListShape /\ removal = NoRemoval
  <2>1. lister.at = "idle"
    BY <1>1 DEF NoList, NewList
  <2>. QED  BY <2>1 DEF ListInv, ListShape
<1>4. shelf \subseteq Nat \ {0}
  BY <1>3, Shelves
<1>5. <<>> \in Seq(Nat) /\ Range(<<>>) = {} /\ IsInjective(<<>>)
  BY DEF Range, IsInjective
<1>6. ListTypeOK'
  <2>1. lister'.at = to /\ lister'.of = of /\ lister'.limit = limit /\ lister'.got = <<>>
    BY <1>1, <1>2
  <2>. QED  BY <1>1, <1>3, <1>5, <2>1 DEF ListTypeOK, Source, Rows
<1>7. ListShape'
  <2>1. "none" \notin Source \cup Rows
    BY DEF Source, Rows, Movers
  <2>2. /\ lister' = [of |-> lister'.of, at |-> lister'.at, from |-> lister'.from, limit |-> lister'.limit,
               start |-> lister'.start, paged |-> lister'.paged, got |-> lister'.got]
        /\ lister'.from \in Int /\ lister'.start \in Int /\ lister'.limit \in Int /\ lister'.paged \in BOOLEAN
        /\ lister'.of = of /\ lister'.at = to
    BY <1>1, <1>2
  <2>. QED  BY <1>1, <1>3, <2>1, <2>2 DEF ListShape
<1>8. ListSoFar'
  <2>0. /\ lister'.of = of /\ lister'.from = from /\ lister'.start = from /\ lister'.paged = FALSE
        /\ lister'.got = <<>> /\ steady' \subseteq Nat \ {0} /\ UNCHANGED <<shelf, shrunk>>
    BY <1>1, <1>2, <1>4
  <2>1. of = "aws" => AwsSoFar'
    BY <2>0 DEF AwsSoFar, Rows
  <2>2. of \in {"obs", "azure"} =>
          /\ from \in Nat /\ UpTo(<<>>, from)
          /\ \A keys \in SUBSET (Nat \ {0}) : Covered(keys, from, <<>>)
    BY <1>5 DEF UpTo, Covered, Rows
  <2>3. of = "obs" => ObsSoFar'
    BY <2>0, <2>2 DEF ObsSoFar
  <2>4. of = "azure" => AzureSoFar'
    BY <2>0, <2>2 DEF AzureSoFar
  <2>5. BackendsSoFar'
    <3>1. \A k \in shelf : Place(k, shelf) \in 1..Cardinality(shelf) /\ Cardinality(shelf) \in Nat
      BY <1>3, Shelves, PlaceIs
    <3>2. Between(shelf, from, from) = {}
      BY <3>1 DEF Between
    <3>3. Between(shelf, from, from)' = Between(shelf', from, from)
      BY DEF Between, Place
    <3>. QED  BY <1>5, <2>0, <3>2, <3>3 DEF BackendsSoFar
  <2>6. TypesSoFar'
    <3>1. (from + 1)..from = {}
      OBVIOUS
    <3>2. Range(lister'.got) = {} /\ (lister'.start + 1)..lister'.from = {}
      BY <1>5, <2>0, <3>1
    <3>3. lister'.from >= lister'.start /\ lister'.from = lister'.start
      BY <2>0
    <3>. QED  BY <3>2, <3>3 DEF TypesSoFar
  <2>. QED  BY <1>5, <2>0, <2>1, <2>3, <2>4, <2>5, <2>6 DEF ListSoFar
<1>9. ListsAndRemoves'
  <2>1. lister'.at # "returned" /\ removal'.at = "idle"
    BY <1>1, <1>2, <1>3 DEF NoRemoval
  <2>. QED  BY <2>1 DEF ListsAndRemoves
<1>. QED  BY <1>6, <1>7, <1>8, <1>9 DEF ListInv

LEMMA BeginStep ==
  ASSUME ListInv,
         \/ \E source \in Sources : BeginSource(source)
         \/ \E limit \in Limits, offset \in {-1, 0, Len(AllTypes) + 1} :
              APIListBackend(limit, offset) \/ APIListType(limit, offset)
  PROVE  ListInv'
<1>0. Sources \subseteq Source /\ Limits \subseteq Int /\ MaxLimit \in Nat
  BY ListingAssumption
<1>1. ASSUME NEW source \in Sources, BeginSource(source) PROVE ListInv'
  <2>1. PICK to \in BucketLocated(source) : Starts(NewList(source, to, 0, 0))
    BY <1>1 DEF BeginSource
  <2>2. to \in {"asking", "failed"}
    BY DEF BucketLocated, Located
  <2>4. 0 \in Int /\ 0 <= MaxLimit /\ source \in Source \cup Rows
    BY <1>0
  <2>. QED  BY <2>1, <2>2, <2>4, StartStep
<1>2. ASSUME NEW of \in Rows, NEW limit \in Limits, NEW offset \in {-1, 0, Len(AllTypes) + 1},
             BeginRows(of, limit, offset)
      PROVE  ListInv'
  <2>1. Starts(NewList(of, "asking", Paginated(limit), offset))
    BY <1>2 DEF BeginRows
  <2>3. Paginated(limit) \in Int /\ Paginated(limit) <= MaxLimit /\ offset \in Int
    BY <1>0 DEF Paginated, AllTypes
  <2>4. "asking" \in {"asking", "failed"} /\ of \in Source \cup Rows
    OBVIOUS
  <2>. QED  BY <2>1, <2>3, <2>4, StartStep, Zenon
<1>. QED  BY <1>1, <1>2 DEF APIListBackend, APIListType, Rows

\* What of a page matters: as long as there is more the list is as it should be
\* so far, and else it has what is wanted.
LEMMA PageStep ==
  ASSUME ListInv, lister.at = "asking", NEW got \in Seq(Nat), NEW from \in Int, NEW over \in BOOLEAN,
         Page(got, from, over), UNCHANGED Others,
         NEW l, l = lister', ~over => ListSoFar',
         over => Wanted' \subseteq Range(got) /\ ((shrunk /\ lister.of = "backends") \/ IsInjective(got))
  PROVE  ListInv'
<1>1. ListTypeOK /\ ListShape /\ removal = NoRemoval
  BY DEF ListInv, ListShape
<1>2. /\ l.of = lister.of /\ l.at = (IF over THEN "returned" ELSE "asking") /\ l.from = from
      /\ l.limit = lister.limit /\ l.start = lister.start /\ l.got = got
      /\ l.paged \in BOOLEAN
      /\ l = [of |-> l.of, at |-> l.at, from |-> l.from, limit |-> l.limit,
              start |-> l.start, paged |-> l.paged, got |-> l.got]
  BY <1>1 DEF Page, ListShape
<1>3. ListTypeOK'
  BY <1>1, <1>2 DEF ListTypeOK, Others
<1>4. ListShape'
  BY <1>1, <1>2 DEF ListShape, Others
<1>5. ListsAndRemoves'
  <2>1. removal'.at = "idle"
    BY <1>1 DEF Others, NoRemoval
  <2>2. l.at = "returned" => over
    BY <1>2
  <2>. QED  BY <1>2, <2>1, <2>2 DEF ListsAndRemoves, Others
<1>6. l.at = "asking" => ListSoFar'
  BY <1>2
<1>. QED  BY <1>3, <1>4, <1>5, <1>6 DEF ListInv

\* What a step finds.
LEMMA Asking ==
  ASSUME ListInv, lister.at = "asking"
  PROVE  /\ ListTypeOK /\ ListShape /\ ListSoFar /\ removal = NoRemoval
         /\ steady \subseteq shelf /\ shelf \subseteq Nat \ {0} /\ lister.got \in Seq(Nat)
BY Shelves DEF ListInv, ListShape, ListTypeOK

-----------------------------------------------------------------------------
(* Each page *)

LEMMA Joined ==
  ASSUME NEW s \in Seq(Nat), NEW t \in Seq(Nat)
  PROVE  s \o t \in Seq(Nat) /\ Range(s \o t) = Range(s) \cup Range(t)
<1>. DEFINE u == s \o t
<1>1. /\ u \in Seq(Nat) /\ Len(u) = Len(s) + Len(t) /\ Len(s) \in Nat /\ Len(t) \in Nat
      /\ \A i \in 1..Len(s) + Len(t) : u[i] = IF i <= Len(s) THEN s[i] ELSE t[i - Len(s)]
  BY ConcatProperties
<1>. HIDE DEF u
<1>2. DOMAIN s = 1..Len(s) /\ DOMAIN t = 1..Len(t) /\ DOMAIN u = 1..Len(s) + Len(t)
  BY <1>1
<1>3. ASSUME NEW i \in DOMAIN u PROVE u[i] \in Range(s) \cup Range(t)
  <2>1. CASE i <= Len(s)
    <3>1. u[i] = s[i] /\ i \in DOMAIN s
      BY <1>1, <1>2, <2>1
    <3>. QED  BY <3>1 DEF Range
  <2>2. CASE i > Len(s)
    <3>1. u[i] = t[i - Len(s)] /\ i - Len(s) \in DOMAIN t
      BY <1>1, <1>2, <2>2
    <3>. QED  BY <3>1 DEF Range
  <2>. QED  BY <1>1, <1>2, <2>1, <2>2
<1>4. ASSUME NEW i \in DOMAIN s PROVE s[i] \in Range(u)
  <2>1. u[i] = s[i] /\ i \in DOMAIN u
    BY <1>1, <1>2
  <2>. QED  BY <2>1 DEF Range
<1>5. ASSUME NEW i \in DOMAIN t PROVE t[i] \in Range(u)
  <2>1. i \in 1..Len(t) /\ Len(s) \in Nat /\ Len(t) \in Nat
    BY <1>2, LenProperties
  <2>2. PICK k : k = i + Len(s)
    OBVIOUS
  <2>3. k \in 1..Len(s) + Len(t) /\ k > Len(s) /\ k - Len(s) = i
    BY <2>1, <2>2
  <2>4. u[k] = t[i] /\ k \in DOMAIN u
    BY <1>1, <1>2, <2>3
  <2>. QED  BY <2>4 DEF Range
<1>6. Range(u) \subseteq Range(s) \cup Range(t)
  BY <1>3 DEF Range
<1>7. Range(s) \cup Range(t) \subseteq Range(u)
  BY <1>4, <1>5 DEF Range
<1>. QED  BY <1>1, <1>6, <1>7 DEF u

GoesOn(S, m, all, next) ==
  /\ all \in Seq(Nat) /\ next \in Nat /\ IsInjective(all)
  /\ UpTo(all, next) /\ Covered(S, next, all)
  /\ ~Truncated(m) => S \subseteq Range(all)

\* A list that goes on from a mark has all up to the next one, and all when the store says so.
LEMMA MarkedPage ==
  ASSUME ListTypeOK, NEW got \in Seq(Nat), NEW m \in Nat, NEW S \in SUBSET (shelf \cap InPrefix),
         UpTo(got, m), Covered(S, m, got), IsInjective(got),
         NEW all, all = got \o PageFrom(m), NEW next, next = Last(<<m>> \o PageFrom(m))
  PROVE  GoesOn(S, m, all, next)
<1>. DEFINE p == PageFrom(m)
<1>1. /\ p \in Seq(Nat) /\ IsInjective(p)
      /\ \A k \in Range(p) : k > m /\ k <= next
      /\ next \in Nat /\ m <= next
      /\ \A k \in shelf \cap InPrefix : m < k /\ (k <= next \/ ~Truncated(m)) => k \in Range(p)
  BY PageIs
<1>2. all = got \o p
  OBVIOUS
<1>. HIDE DEF p
<1>3. all \in Seq(Nat) /\ Range(all) = Range(got) \cup Range(p)
  BY <1>1, <1>2, Joined
<1>4. \A k \in Range(got) : k <= m
  BY DEF UpTo
<1>5. \A k \in Range(got) : k \in Nat
  BY DEF Range
<1>6. Range(got) \cap Range(p) = {}
  BY <1>1, <1>4, <1>5
<1>7. IsInjective(all)
  BY <1>1, <1>2, <1>6, InjectiveConcat
<1>50. \A k \in Range(p) : k \in Nat
  BY <1>1 DEF Range
<1>8. UpTo(all, next)
  <2>1. ASSUME NEW k \in Range(all) PROVE k <= next
    <3>1. CASE k \in Range(got)
      <4>1. k <= m /\ k \in Nat /\ m <= next /\ next \in Nat
        BY <1>1, <1>4, <1>5, <3>1
      <4>. QED  BY <4>1
    <3>2. CASE k \in Range(p)
      BY <1>1, <3>2
    <3>. QED  BY <1>3, <3>1, <3>2
  <2>. QED  BY <2>1 DEF UpTo
<1>9. ASSUME NEW k \in S, k <= next \/ ~Truncated(m) PROVE k \in Range(all)
  <2>1. k \in Nat /\ k \in shelf \cap InPrefix
    BY Shelves
  <2>2. k <= m => k \in Range(got)
    BY DEF Covered
  <2>3. CASE m < k
    <3>1. k \in Range(p)
      BY <1>1, <1>9, <2>1, <2>3
    <3>. QED  BY <1>3, <3>1
  <2>. QED  BY <1>3, <2>1, <2>2, <2>3
<1>. QED  BY <1>1, <1>3, <1>7, <1>8, <1>9 DEF Covered, GoesOn

LEMMA AzureStep ==
  ASSUME ListInv, ListAzure PROVE ListInv'
<1>. PICK m : m = lister.from
  OBVIOUS
<1>. PICK all : all = lister.got \o PageFrom(m)
  OBVIOUS
<1>. PICK next : next = Last(<<m>> \o PageFrom(m))
  OBVIOUS
<1>. PICK over \in BOOLEAN : over = ~Truncated(m)
  BY DEF Truncated
<1>. PICK S : S = steady \cap InPrefix
  OBVIOUS
<1>1. /\ lister.of = "azure" /\ lister.at = "asking" /\ Page(all, next, over) /\ UNCHANGED Others
  BY DEF ListAzure, Others
<1>2. /\ ListTypeOK /\ ListShape /\ ListSoFar /\ steady \subseteq shelf /\ lister.got \in Seq(Nat)
  BY <1>1, Asking
<1>3. AzureSoFar /\ IsInjective(lister.got)
  BY <1>1, <1>2 DEF ListSoFar
<1>4. S \in SUBSET (shelf \cap InPrefix) /\ m \in Nat /\ UpTo(lister.got, m) /\ Covered(S, m, lister.got)
  BY <1>2, <1>3 DEF AzureSoFar
<1>5. /\ all \in Seq(Nat) /\ next \in Nat /\ IsInjective(all)
      /\ UpTo(all, next) /\ Covered(S, next, all)
      /\ over => S \subseteq Range(all)
  <2>1. GoesOn(S, m, all, next)
    BY <1>2, <1>3, <1>4, MarkedPage
  <2>. QED  BY <2>1 DEF GoesOn
<1>7. /\ lister'.of = "azure" /\ lister'.from = next /\ lister'.got = all /\ lister'.start = lister.start
      /\ steady' = steady
  BY <1>1, <1>2 DEF Page, ListShape, Others
<1>8. ListSoFar'
  <2>1. AzureSoFar'
    BY <1>5, <1>7 DEF AzureSoFar
  <2>. QED  BY <1>5, <1>7, <2>1 DEF ListSoFar
<1>9. Wanted' \subseteq S
  BY <1>7 DEF Wanted
<1>10. next \in Int
  BY <1>5
<1>. QED  BY <1>1, <1>5, <1>8, <1>9, <1>10, PageStep

LEMMA MarkerIs ==
  ASSUME ListTypeOK, NEW got \in Seq(Nat), NEW from \in Nat, UpTo(got, from), Covered((steady \cap InPrefix) \ LowKeys, from, got)
  PROVE  /\ Marker(from) \in Nat /\ UpTo(got, Marker(from)) 
         /\ Covered((steady \cap InPrefix) \ LowKeys, Marker(from), got)
<1>1. CASE from # 0
  BY <1>1 DEF Marker
<1>2. CASE from = 0
  <2>. DEFINE m == Max(LowKeys \cup {0})
  <2>1. /\ IsFiniteSet(LowKeys) /\ LowKeys \subseteq Nat
        /\ \A low \in LowKeys, k \in Keys \ LowKeys : low < k
        /\ Keys \subseteq Nat \ {0}
    BY ListingAssumption, FS_Subset
  <2>2. m \in Nat /\ m \in LowKeys \cup {0}
    BY <2>1, GreatestIs
  <2>3. Marker(from) = m
    BY <1>2 DEF Marker
  <2>. HIDE DEF m
  <2>4. \A k \in Keys \ LowKeys : m < k
    BY <2>1, <2>2
  <2>5. Covered((steady \cap InPrefix) \ LowKeys, m, got)
    BY <2>1, <2>2, <2>4 DEF Covered, ListTypeOK
  <2>6. ASSUME NEW k \in Range(got) PROVE k <= m
    <3>1. k \in Nat /\ k <= 0
      BY <1>2 DEF UpTo, Range
    <3>. QED  BY <2>2, <3>1
  <2>. QED  BY <2>2, <2>3, <2>5, <2>6 DEF UpTo
<1>. QED  BY <1>1, <1>2

LEMMA ObsStep ==
  ASSUME ListInv, ListObs PROVE ListInv'
<1>. PICK m : m = Marker(lister.from)
  OBVIOUS
<1>. PICK all : all = lister.got \o PageFrom(m)
  OBVIOUS
<1>. PICK next : next = Last(<<m>> \o PageFrom(m))
  OBVIOUS
<1>. PICK over \in BOOLEAN : over = ~Truncated(m)
  BY DEF Truncated
<1>. PICK S : S = (steady \cap InPrefix) \ LowKeys
  OBVIOUS
<1>1. /\ lister.of = "obs" /\ lister.at = "asking" /\ Page(all, next, over) /\ UNCHANGED Others
  BY DEF ListObs, Others
<1>2. /\ ListTypeOK /\ ListShape /\ ListSoFar /\ steady \subseteq shelf /\ lister.got \in Seq(Nat)
  BY <1>1, Asking
<1>3. ObsSoFar /\ IsInjective(lister.got)
  BY <1>1, <1>2 DEF ListSoFar
<1>4. S \in SUBSET (shelf \cap InPrefix) /\ m \in Nat /\ UpTo(lister.got, m) /\ Covered(S, m, lister.got)
  BY <1>2, <1>3, MarkerIs DEF ObsSoFar
<1>5. /\ all \in Seq(Nat) /\ next \in Nat /\ IsInjective(all)
      /\ UpTo(all, next) /\ Covered(S, next, all)
      /\ over => S \subseteq Range(all)
  <2>1. GoesOn(S, m, all, next)
    BY <1>2, <1>3, <1>4, MarkedPage
  <2>. QED  BY <2>1 DEF GoesOn
<1>7. /\ lister'.of = "obs" /\ lister'.from = next /\ lister'.got = all /\ lister'.start = lister.start
      /\ steady' = steady
  BY <1>1, <1>2 DEF Page, ListShape, Others
<1>8. ListSoFar'
  <2>1. ObsSoFar'
    BY <1>5, <1>7 DEF ObsSoFar
  <2>. QED  BY <1>5, <1>7, <2>1 DEF ListSoFar
<1>9. Wanted' \subseteq S
  BY <1>7 DEF Wanted
<1>10. next \in Int
  BY <1>5
<1>. QED  BY <1>1, <1>5, <1>8, <1>9, <1>10, PageStep

LEMMA AwsStep ==
  ASSUME ListInv, ListAws PROVE ListInv'
<1>. PICK m : m = lister.from
  OBVIOUS
<1>. PICK got : got = PageFrom(m)
  OBVIOUS
<1>. PICK over \in BOOLEAN : over = ~Truncated(m)
  BY DEF Truncated
<1>0. PICK next \in {Last(<<0>> \o PageFrom(m)), 0} : Page(got, next, over)
  BY DEF ListAws
<1>1. /\ lister.of = "aws" /\ lister.at = "asking" /\ UNCHANGED Others
  BY DEF ListAws, Others
<1>2. /\ ListTypeOK /\ ListShape /\ ListSoFar /\ steady \subseteq shelf /\ shelf \subseteq Nat \ {0}
  BY <1>1, Asking
<1>3. m \in Nat /\ (~lister.paged => m = 0)
  BY <1>1, <1>2 DEF ListSoFar, AwsSoFar
<1>4. /\ got \in Seq(Nat) /\ IsInjective(got)
      /\ \A k \in shelf \cap InPrefix : m < k /\ ~Truncated(m) => k \in Range(got)
  BY <1>2, <1>3, PageIs
<1>5. next \in Nat
  <2>1. Len(got) \in Nat /\ <<0>> \in Seq(Nat) /\ Len(<<0>>) = 1 /\ <<0>>[1] = 0
    BY <1>4
  <2>. DEFINE u == <<0>> \o got
  <2>2. u \in Seq(Nat) /\ Len(u) = 1 + Len(got)
    BY <1>4, <2>1, ConcatProperties
  <2>. HIDE DEF u
  <2>3. Last(u) \in Nat
    BY <2>1, <2>2 DEF Last
  <2>. QED  BY <2>3 DEF u
<1>6. /\ lister'.of = "aws" /\ lister'.from = next /\ lister'.got = got
      /\ lister'.paged = (~over \/ lister.paged) /\ steady' = steady
  BY <1>0, <1>1, <1>2 DEF Page, ListShape, Others
<1>7. ~over => ListSoFar'
  <2>1. ~over => AwsSoFar'
    BY <1>5, <1>6 DEF AwsSoFar
  <2>. QED  BY <1>4, <1>6, <2>1 DEF ListSoFar
<1>8. ASSUME over PROVE Wanted' \subseteq Range(got)
  <2>1. Wanted' \subseteq IF lister.paged THEN {} ELSE steady \cap InPrefix
    BY <1>6, <1>8 DEF Wanted
  <2>2. ASSUME NEW k \in steady \cap InPrefix, ~lister.paged PROVE k \in Range(got)
    <3>1. k \in shelf \cap InPrefix /\ m < k
      BY <1>2, <1>3, <2>2
    <3>. QED  BY <1>4, <1>8, <3>1
  <2>. QED  BY <2>1, <2>2
<1>9. next \in Int
  BY <1>5
<1>. QED  BY <1>0, <1>1, <1>4, <1>7, <1>8, <1>9, PageStep

LEMMA CephStep ==
  ASSUME ListInv, ListCeph PROVE ListInv'
<1>. PICK got : got = PageFrom(0)
  OBVIOUS
<1>. PICK from \in Int : from = 0
  OBVIOUS
<1>. PICK over \in BOOLEAN : over = TRUE
  OBVIOUS
<1>1. /\ lister.of = "ceph" /\ lister.at = "asking" /\ Page(got, from, over) /\ UNCHANGED Others
  BY DEF ListCeph, Others
<1>2. /\ ListTypeOK /\ ListShape /\ steady \subseteq shelf /\ shelf \subseteq Nat \ {0}
  BY <1>1, Asking
<1>3. /\ got \in Seq(Nat) /\ IsInjective(got)
      /\ \A k \in shelf \cap InPrefix : 0 < k /\ ~Truncated(0) => k \in Range(got)
  BY <1>2, PageIs
<1>4. lister'.of = "ceph" /\ UNCHANGED <<shelf, moves, steady>>
  BY <1>1, <1>2 DEF Page, ListShape, Others
<1>5. Wanted' \subseteq Range(got)
  <2>1. Following(0) = shelf \cap InPrefix
    <3>1. \A k \in shelf : k > 0
      BY <1>2
    <3>. QED  BY <3>1 DEF Following
  <2>2. Cardinality(shelf \cap InPrefix) + moves <= PageSize => ~Truncated(0)
    <3>1. Cardinality(shelf \cap InPrefix) \in Nat /\ moves \in Nat /\ PageSize \in Nat
      BY <1>2, Shelves, ListingAssumption DEF ListTypeOK
    <3>. QED  BY <2>1, <3>1 DEF Truncated
  <2>3. Wanted' \subseteq IF Cardinality(shelf \cap InPrefix) + moves <= PageSize
                          THEN steady \cap InPrefix ELSE {}
    BY <1>4 DEF Wanted
  <2>4. ASSUME NEW k \in steady \cap InPrefix, ~Truncated(0) PROVE k \in Range(got)
    BY <1>2, <1>3, <2>4
  <2>. QED  BY <2>2, <2>3, <2>4
<1>. QED  BY <1>1, <1>3, <1>5, PageStep

LEMMA OsdsStep ==
  ASSUME ListInv, ListOsds PROVE ListInv'
<1>. PICK got : got = Ordered(shelf \cap RegexpKeys)
  OBVIOUS
<1>. PICK from \in Int : from = 0
  OBVIOUS
<1>. PICK over \in BOOLEAN : over = TRUE
  OBVIOUS
<1>1. /\ lister.of = "osds" /\ lister.at = "asking" /\ Page(got, from, over) /\ UNCHANGED Others
  BY DEF ListOsds, Others
<1>2. /\ ListTypeOK /\ ListShape /\ steady \subseteq shelf
  BY <1>1, Asking
<1>3. /\ got \in Seq(Nat) /\ IsInjective(got) /\ Range(got) = shelf \cap RegexpKeys
  <2>1. IsFiniteSet(shelf \cap RegexpKeys) /\ shelf \cap RegexpKeys \subseteq Nat
    BY <1>2, Shelves
  <2>. QED  BY <2>1, OrderedInjective
<1>4. lister'.of = "osds" /\ steady' = steady
  BY <1>1, <1>2 DEF Page, ListShape, Others
<1>5. Wanted' \subseteq Range(got)
  BY <1>2, <1>3, <1>4 DEF Wanted
<1>. QED  BY <1>1, <1>3, <1>5, PageStep

\* A list that ends without a result.
LEMMA EndStep ==
  ASSUME ListInv, lister.at = "asking", UNCHANGED <<shelf, removal, steady, shrunk, back>>, moves' \in 0..MaxMoves,
         NEW a \in {"failed", "panicked"}, NEW l, l = lister',
         l = [lister EXCEPT !.at = a] \/ l = [lister EXCEPT !.at = a, !.got = <<>>]
  PROVE  ListInv'
<1>1. ListTypeOK /\ ListShape /\ removal = NoRemoval
  BY DEF ListInv, ListShape
<1>2. /\ l.of = lister.of /\ l.at = a /\ l.from = lister.from /\ l.limit = lister.limit
      /\ l.start = lister.start /\ l.paged = lister.paged /\ l.got \in {lister.got, <<>>}
      /\ l = [of |-> l.of, at |-> l.at, from |-> l.from, limit |-> l.limit,
              start |-> l.start, paged |-> l.paged, got |-> l.got]
  BY <1>1 DEF ListShape
<1>3. ListTypeOK'
  <2>1. l.got \in Seq(Nat)
    <3>1. lister.got \in Seq(Nat) /\ <<>> \in Seq(Nat)
      BY <1>1 DEF ListTypeOK
    <3>. QED  BY <1>2, <3>1
  <2>. QED  BY <1>1, <1>2, <2>1 DEF ListTypeOK
<1>4. ListShape'
  BY <1>1, <1>2 DEF ListShape
<1>5. ListsAndRemoves'
  BY <1>1, <1>2 DEF NoRemoval, ListsAndRemoves
<1>. QED  BY <1>2, <1>3, <1>4, <1>5 DEF ListInv

LEMMA FailsStep ==
  ASSUME ListInv, ListFails PROVE ListInv'
<1>1. /\ lister.at = "asking" /\ UNCHANGED <<shelf, removal, steady, shrunk, back>> /\ moves' = moves + 1 /\ moves < MaxMoves
  BY DEF ListFails, Move
<1>2. moves' \in 0..MaxMoves
  BY <1>1, ListingAssumption DEF ListInv, ListTypeOK
<1>3. PICK l : l = lister'
  OBVIOUS
<1>4. \E a \in {"failed", "panicked"} : l = [lister EXCEPT !.at = a, !.got = <<>>]
  BY <1>3 DEF ListFails
<1>. QED  BY <1>1, <1>2, <1>3, <1>4, EndStep

LEMMA BackendsStep ==
  ASSUME ListInv, ListBackends PROVE ListInv'
<1>1. /\ lister.of = "backends" /\ lister.at = "asking" /\ UNCHANGED Others
  BY DEF ListBackends, Others
<1>2. /\ ListTypeOK /\ ListShape /\ ListSoFar /\ steady \subseteq shelf /\ lister.got \in Seq(Nat)
  BY <1>1, Asking
<1>3. CASE lister.limit < 0 \/ lister.from < 0
  <2>1. PICK l : l = lister'
    OBVIOUS
  <2>2. \E a \in {"failed", "panicked"} : l = [lister EXCEPT !.at = a]
    BY <1>3, <2>1 DEF ListBackends
  <2>3. UNCHANGED <<shelf, removal, steady, shrunk, back>> /\ moves' \in 0..MaxMoves
    BY <1>1, <1>2 DEF Others, ListTypeOK
  <2>. QED  BY <1>1, <2>1, <2>2, <2>3, EndStep
<1>4. CASE ~(lister.limit < 0 \/ lister.from < 0)
  <2>. PICK m : m = lister.from
    OBVIOUS
  <2>. PICK start : start = lister.start
    OBVIOUS
  <2>. PICK limit : limit = lister.limit
    OBVIOUS
  <2>. PICK rows : rows = RowsFrom(m, limit)
    OBVIOUS
  <2>. PICK got : got = lister.got \o rows
    OBVIOUS
  <2>. PICK from : from = m + Len(rows)
    OBVIOUS
  <2>. PICK over \in BOOLEAN : over = (rows = <<>> \/ limit = 0)
    OBVIOUS
  <2>1. Page(got, from, over)
    BY <1>4 DEF ListBackends
  <2>2. m \in Nat /\ limit \in Nat /\ start \in Int
    BY <1>2, <1>4 DEF ListShape
  <2>3. /\ rows \in Seq(Nat) /\ IsInjective(rows)
        /\ Range(rows) = Between(shelf, m, from)
        /\ rows # <<>> => from <= Cardinality(shelf)
        /\ over => \A k \in shelf : m < Place(k, shelf) => k \in Range(rows)
        /\ Len(rows) \in Nat /\ from \in Nat /\ m <= from
    <3>1. /\ rows \in Seq(Nat) /\ IsInjective(rows)
          /\ Range(rows) = Between(shelf, m, from)
      BY <1>2, <2>2, RowsIs
    <3>2. rows # <<>> => from <= Cardinality(shelf)
      BY <1>2, <2>2, RowsIs
    <3>3. over => \A k \in shelf : m < Place(k, shelf) => k \in Range(rows)
      BY <1>2, <2>2, RowsIs
    <3>4. Len(rows) \in Nat /\ from \in Nat /\ m <= from
      BY <2>2, <3>1
    <3>. QED  BY <3>1, <3>2, <3>3, <3>4
  <2>4. got \in Seq(Nat) /\ Range(got) = Range(lister.got) \cup Range(rows)
    BY <1>2, <2>3, Joined
  <2>5. /\ lister'.of = "backends" /\ lister'.from = from /\ lister'.got = got /\ lister'.start = start
        /\ UNCHANGED <<shelf, steady, shrunk>>
    BY <1>1, <1>2, <2>1 DEF Page, ListShape, Others
  <2>6. \A k \in shelf : Place(k, shelf) \in Nat /\ 0 < Place(k, shelf)
    BY <1>2, Shelves, PlaceIs
  <2>7. ASSUME ~shrunk
        PROVE  /\ from >= start /\ (from <= Cardinality(shelf) \/ from = start)
               /\ Range(got) = Between(shelf, start, from) /\ IsInjective(got)
               /\ start = 0 /\ over => shelf \subseteq Range(got)
    <3>1. /\ m >= start /\ (m <= Cardinality(shelf) \/ m = start)
          /\ Range(lister.got) = Between(shelf, start, m) /\ IsInjective(lister.got)
      BY <1>1, <1>2, <2>7 DEF ListSoFar, BackendsSoFar
    <3>2. Between(shelf, start, m) \cup Between(shelf, m, from) = Between(shelf, start, from)
      <4>1. ASSUME NEW k \in shelf
            PROVE  (start < Place(k, shelf) /\ Place(k, shelf) <= m) \/ (m < Place(k, shelf) /\ Place(k, shelf) <= from)
                   <=> start < Place(k, shelf) /\ Place(k, shelf) <= from
        BY <2>2, <2>3, <2>6, <3>1
      <4>. QED  BY <4>1 DEF Between
    <3>3. Between(shelf, start, m) \cap Between(shelf, m, from) = {}
      <4>1. ASSUME NEW k \in shelf PROVE ~(Place(k, shelf) <= m /\ m < Place(k, shelf))
        BY <2>2, <2>6
      <4>. QED  BY <4>1 DEF Between
    <3>4. IsInjective(got)
      BY <1>2, <2>3, <3>1, <3>3, InjectiveConcat
    <3>5. from >= start /\ (from <= Cardinality(shelf) \/ from = start)
      <4>1. CASE rows = <<>>
        <5>1. Len(rows) = 0
          BY <4>1
        <5>. QED  BY <2>2, <3>1, <5>1
      <4>2. CASE rows # <<>>
        BY <2>2, <2>3, <3>1, <4>2
      <4>. QED  BY <4>1, <4>2
    <3>6. ASSUME start = 0, over, NEW k \in shelf PROVE k \in Range(got)
      <4>1. CASE m < Place(k, shelf)
        BY <2>3, <2>4, <3>6, <4>1
      <4>2. CASE Place(k, shelf) <= m
        <5>1. k \in Between(shelf, start, m)
          BY <2>6, <3>6, <4>2 DEF Between
        <5>. QED  BY <2>4, <3>1, <5>1
      <4>. QED  BY <2>2, <2>6, <4>1, <4>2
    <3>. QED  BY <2>3, <2>4, <3>1, <3>2, <3>4, <3>5, <3>6
  <2>8. ListSoFar'
    <3>1. ASSUME ~shrunk PROVE BackendsSoFar'
      <4>1. Between(shelf, start, from)' = Between(shelf', start, from)
        BY DEF Between, Place
      <4>2. Cardinality(shelf') = Cardinality(shelf)
        BY <2>5
      <4>. QED  BY <2>5, <2>7, <3>1, <4>1, <4>2 DEF BackendsSoFar
    <3>. QED  BY <2>5, <2>7, <3>1 DEF ListSoFar
  <2>9. over => Wanted' \subseteq Range(got) /\ ((shrunk /\ lister.of = "backends") \/ IsInjective(got))
    <3>1. Wanted' \subseteq IF start = 0 /\ ~shrunk THEN steady ELSE {}
      BY <2>5 DEF Wanted
    <3>. QED  BY <1>1, <1>2, <2>7, <3>1
  <2>10. from \in Int
    BY <2>3
  <2>. QED  BY <1>1, <2>1, <2>4, <2>8, <2>9, <2>10, PageStep
<1>. QED  BY <1>3, <1>4

LEMMA TypeListStep ==
  ASSUME ListInv, ListTypes PROVE ListInv'
<1>1. /\ lister.of = "types" /\ lister.at = "asking" /\ UNCHANGED Others
  BY DEF ListTypes, Others
<1>2. /\ ListTypeOK /\ ListShape /\ ListSoFar /\ lister.got \in Seq(Nat)
  BY <1>1, Asking
<1>3. CASE lister.from > Len(AllTypes) \/ lister.from < 0 \/ lister.limit < 0
  <2>1. PICK l : l = lister'
    OBVIOUS
  <2>2. \E a \in {"failed", "panicked"} : l = [lister EXCEPT !.at = a]
    BY <1>3, <2>1 DEF ListTypes
  <2>3. UNCHANGED <<shelf, removal, steady, shrunk, back>> /\ moves' \in 0..MaxMoves
    BY <1>1, <1>2 DEF Others, ListTypeOK
  <2>. QED  BY <1>1, <2>1, <2>2, <2>3, EndStep
<1>4. CASE ~(lister.from > Len(AllTypes) \/ lister.from < 0 \/ lister.limit < 0)
  <2>. PICK m : m = lister.from
    OBVIOUS
  <2>. PICK start : start = lister.start
    OBVIOUS
  <2>. PICK limit : limit = lister.limit
    OBVIOUS
  <2>. PICK rows : rows = Upto(SubSeq(AllTypes, m + 1, 5), limit)
    OBVIOUS
  <2>. PICK got : got = lister.got \o rows
    OBVIOUS
  <2>. PICK from : from = m + Len(rows)
    OBVIOUS
  <2>. PICK over \in BOOLEAN : over = (rows = <<>>)
    OBVIOUS
  <2>1. Page(got, from, over)
    BY <1>4 DEF ListTypes
  <2>2. m \in Nat /\ limit \in Nat /\ start \in Int /\ m <= 5
    BY <1>2, <1>4 DEF ListShape, AllTypes
  <2>3. /\ rows \in Seq(Nat) /\ IsInjective(rows)
        /\ Range(rows) = (m + 1)..from
        /\ from <= 5
        /\ rows = <<>> /\ limit # 0 => m = 5
    BY <2>2, TypeRowsIs
  <2>4. Len(rows) \in Nat /\ from \in Nat /\ m <= from
    BY <2>2, <2>3
  <2>5. got \in Seq(Nat) /\ Range(got) = Range(lister.got) \cup Range(rows)
    BY <1>2, <2>3, Joined
  <2>6. /\ lister'.of = "types" /\ lister'.from = from /\ lister'.got = got /\ lister'.start = start
        /\ lister'.limit = limit
    BY <1>1, <1>2, <2>1 DEF Page, ListShape, Others
  <2>7. /\ start \in Nat /\ start <= m /\ Range(lister.got) = (start + 1)..m /\ IsInjective(lister.got)
    BY <1>1, <1>2, <2>2 DEF ListSoFar, TypesSoFar
  <2>8. IsInjective(got)
    <3>1. ((start + 1)..m) \cap ((m + 1)..from) = {}
      BY <2>2
    <3>. QED  BY <1>2, <2>3, <2>7, <3>1, InjectiveConcat
  <2>9. Range(got) = (start + 1)..from
    <3>1. ((start + 1)..m) \cup ((m + 1)..from) = (start + 1)..from
      BY <2>2, <2>4, <2>7
    <3>. QED  BY <2>3, <2>5, <2>7, <3>1
  <2>10. ListSoFar'
    <3>1. from >= start /\ from <= Len(AllTypes) /\ ~(start < 0)
      BY <2>2, <2>3, <2>4, <2>7 DEF AllTypes
    <3>2. TypesSoFar'
      BY <2>6, <2>9, <3>1 DEF TypesSoFar
    <3>. QED  BY <2>6, <2>8, <3>2 DEF ListSoFar
  <2>11. ASSUME over PROVE Wanted' \subseteq Range(got)
    <3>1. Range(AllTypes) \subseteq 1..5
      BY DEF Range, AllTypes
    <3>2. Wanted' \subseteq IF start # 0 \/ limit = 0 THEN {} ELSE 1..5
      BY <2>6, <3>1 DEF Wanted
    <3>3. start = 0 /\ limit # 0 => Range(got) = 1..5
      <4>1. Len(rows) = 0
        BY <2>11
      <4>2. limit # 0 => from = 5
        BY <2>2, <2>3, <2>11, <4>1
      <4>. QED  BY <2>9, <4>2
    <3>. QED  BY <3>2, <3>3
  <2>12. from \in Int
    BY <2>4
  <2>. QED  BY <1>1, <2>1, <2>5, <2>8, <2>10, <2>11, <2>12, PageStep
<1>. QED  BY <1>3, <1>4

-----------------------------------------------------------------------------
(* Removing, and the others *)

\* A removal goes on while a list is there that has been returned, which is no
\* more looked at then.
LEMMA RemovalStep ==
  ASSUME ListInv, lister.at \notin {"asking", "idle"}, UNCHANGED lister,
         shelf' \subseteq shelf, steady' \subseteq shelf', moves' \in 0..MaxMoves, UNCHANGED shrunk, back' \in BOOLEAN,
         NEW r, r = removal', r.key \in Keys \cup {0}, r.tries \in 1..3, r.at \in {"trying", "wait", "ok", "error"},
         r = [key |-> r.key, tries |-> r.tries, at |-> r.at],
         r.at = "ok" => r.key \notin shelf' \/ back'
  PROVE  ListInv'
<1>1. ListTypeOK /\ ListShape
  BY DEF ListInv
<1>2. r # NoRemoval
  BY DEF NoRemoval
<1>3. ListTypeOK'
  BY <1>1 DEF ListTypeOK
<1>4. ListShape'
  BY <1>1, <1>2 DEF ListShape
<1>5. ListsAndRemoves'
  BY <1>2 DEF ListsAndRemoves
<1>. QED  BY <1>3, <1>4, <1>5 DEF ListInv

LEMMA BeginRemovalStep ==
  ASSUME ListInv, NEW k \in Keys, BeginRemoval(k) PROVE ListInv'
<1>1. ListTypeOK /\ ListShape
  BY DEF ListInv
<1>2. /\ lister.at = "returned" /\ UNCHANGED <<shelf, lister, moves, steady, shrunk>> /\ back' = FALSE
      /\ removal' = [key |-> k, tries |-> 1, at |-> "trying"]
  BY DEF BeginRemoval
<1>3. PICK r : r = removal'
  OBVIOUS
<1>4. r.key = k /\ r.tries = 1 /\ r.at = "trying" /\ r = [key |-> r.key, tries |-> r.tries, at |-> r.at]
  BY <1>2, <1>3
<1>5. shelf' \subseteq shelf /\ steady' \subseteq shelf' /\ moves' \in 0..MaxMoves
  BY <1>1, <1>2 DEF ListTypeOK
<1>6. /\ lister.at \notin {"asking", "idle"} /\ back' \in BOOLEAN
      /\ r.key \in Keys \cup {0} /\ r.tries \in 1..3 /\ r.at \in {"trying", "wait", "ok", "error"}
      /\ (r.at = "ok" => r.key \notin shelf' \/ back')
      /\ UNCHANGED <<lister, shrunk>>
  <2>1. back' \in BOOLEAN
    BY <1>2, Zenon
  <2>2. r.key \in Keys \cup {0} /\ r.tries \in 1..3 /\ r.at \in {"trying", "wait", "ok", "error"}
    BY <1>4
  <2>3. r.at # "ok"
    BY <1>4
  <2>4. lister.at \notin {"asking", "idle"}
    BY <1>2
  <2>. QED  BY <1>2, <2>1, <2>2, <2>3, <2>4, Zenon
<1>. QED  BY <1>3, <1>4, <1>5, <1>6, RemovalStep

\* What the tries of the movers have in common.
LEMMA TryStep ==
  ASSUME ListInv, removal.at \in {"trying", "wait"}, UNCHANGED <<lister, shrunk, back>>,
         Erased \/ UNCHANGED <<shelf, steady>>, Move \/ UNCHANGED moves,
         NEW r, r = removal',
         \/ r = Retried
         \/ r = [removal EXCEPT !.at = "error"]
         \/ (Erased \/ removal.key \notin shelf) /\ (r = [removal EXCEPT !.at = "ok"] \/ r = [removal EXCEPT !.at = "wait"])
  PROVE  ListInv'
<1>1. ListTypeOK /\ ListShape /\ MaxMoves \in Nat
  BY ListingAssumption DEF ListInv
<1>2. /\ lister.at \notin {"asking", "idle"} /\ removal.tries \in 1..3 /\ removal.key \in Keys \cup {0}
      /\ removal = [key |-> removal.key, tries |-> removal.tries, at |-> removal.at]
  BY <1>1 DEF ListTypeOK, ListShape, NoRemoval
<1>3. /\ shelf' \subseteq shelf /\ steady' \subseteq shelf' /\ back' \in BOOLEAN
      /\ Erased => removal.key \notin shelf'
  BY <1>1 DEF ListTypeOK, Erased
<1>4. moves' \in 0..MaxMoves
  BY <1>1 DEF ListTypeOK, Move
<1>5. /\ r.key = removal.key /\ r.tries \in 1..3 /\ r.at \in {"trying", "wait", "ok", "error"}
      /\ r = [key |-> r.key, tries |-> r.tries, at |-> r.at]
      /\ r.at = "ok" => Erased \/ removal.key \notin shelf
  <2>1. CASE r = Retried
    <3>1. CASE removal.tries < 3
      <4>1. r = [removal EXCEPT !.tries = @ + 1]
        BY <2>1, <3>1 DEF Retried
      <4>. QED  BY <1>2, <3>1, <4>1
    <3>2. CASE ~(removal.tries < 3)
      <4>1. r = [removal EXCEPT !.at = "error"]
        BY <2>1, <3>2 DEF Retried
      <4>. QED  BY <1>2, <4>1
    <3>. QED  BY <3>1, <3>2
  <2>2. CASE r = [removal EXCEPT !.at = "error"]
    BY <1>2, <2>2
  <2>3. CASE /\ Erased \/ removal.key \notin shelf
             /\ r = [removal EXCEPT !.at = "ok"] \/ r = [removal EXCEPT !.at = "wait"]
    BY <1>2, <2>3
  <2>. QED  BY <2>1, <2>2, <2>3
<1>6. r.at = "ok" => r.key \notin shelf' \/ back'
  BY <1>3, <1>5
<1>7. r.key \in Keys \cup {0} /\ UNCHANGED <<lister, shrunk>>
  BY <1>2, <1>5
<1>. QED  BY <1>2, <1>3, <1>4, <1>5, <1>6, <1>7, RemovalStep

LEMMA DeleteSteps ==
  ASSUME ListInv, DeleteAws \/ AwsWaits \/ DeleteObs \/ DeleteAzure \/ DeleteCeph
  PROVE  ListInv'
<1>. PICK r : r = removal'
  OBVIOUS
<1>1. removal.at \in {"trying", "wait"} /\ UNCHANGED <<lister, shrunk, back>>
  BY DEF DeleteAws, AwsWaits, DeleteObs, DeleteAzure, DeleteCeph, Trying
<1>2. (Erased \/ UNCHANGED <<shelf, steady>>) /\ (Move \/ UNCHANGED moves)
  BY DEF DeleteAws, AwsWaits, DeleteObs, DeleteAzure, DeleteCeph
<1>3. \/ r = Retried
      \/ r = [removal EXCEPT !.at = "error"]
      \/ /\ Erased \/ removal.key \notin shelf
         /\ r = [removal EXCEPT !.at = "ok"] \/ r = [removal EXCEPT !.at = "wait"]
  BY DEF DeleteAws, AwsWaits, DeleteObs, DeleteAzure, DeleteCeph
<1>. QED  BY <1>1, <1>2, <1>3, TryStep

\* A row that is added comes last.
LEMMA AddedLast ==
  ASSUME NEW S, IsFiniteSet(S), S \subseteq Nat, NEW k \in Nat \ S, \A j \in S : j < k
  PROVE  /\ Cardinality(S \cup {k}) = Cardinality(S) + 1 /\ Cardinality(S) \in Nat
         /\ \A j \in S : Place(j, S \cup {k}) = Place(j, S)
         /\ Place(k, S \cup {k}) = Cardinality(S) + 1
<1>1. Cardinality(S \cup {k}) = Cardinality(S) + 1 /\ Cardinality(S) \in Nat
  BY FS_AddElement, FS_CardinalityType
<1>2. ASSUME NEW j \in S PROVE Place(j, S \cup {k}) = Place(j, S)
  <2>1. {i \in S \cup {k} : i <= j} = {i \in S : i <= j}
    OBVIOUS
  <2>. QED  BY <2>1 DEF Place
<1>3. Place(k, S \cup {k}) = Cardinality(S) + 1
  <2>1. {i \in S \cup {k} : i <= k} = S \cup {k}
    <3>1. \A i \in S \cup {k} : i <= k
      OBVIOUS
    <3>. QED  BY <3>1
  <2>. QED  BY <1>1, <2>1 DEF Place
<1>. QED  BY <1>1, <1>2, <1>3

\* Another row changes nothing of what a list of rows has so far.
LEMMA AddedRow ==
  ASSUME ListTypeOK, ListShape, NEW k \in Keys \ shelf, \A j \in shelf : j < k, shelf' = shelf \cup {k},
         UNCHANGED lister, BackendsSoFar
  PROVE  BackendsSoFar'
<1>. PICK T : T = shelf'
  OBVIOUS
<1>. PICK m : m = lister.from
  OBVIOUS
<1>. PICK start : start = lister.start
  OBVIOUS
<1>1. /\ IsFiniteSet(shelf) /\ shelf \subseteq Nat /\ k \in Nat \ shelf
      /\ \A j \in shelf : Place(j, shelf) \in 1..Cardinality(shelf)
  BY Shelves, PlaceIs, ListingAssumption
<1>2. /\ T = shelf \cup {k} /\ Cardinality(T) = Cardinality(shelf) + 1 /\ Cardinality(shelf) \in Nat
      /\ \A j \in shelf : Place(j, T) = Place(j, shelf)
      /\ Place(k, T) = Cardinality(shelf) + 1
  BY <1>1, AddedLast
<1>3. /\ m >= start /\ (m <= Cardinality(shelf) \/ m = start) /\ m \in Int /\ start \in Int
      /\ Range(lister.got) = Between(shelf, start, m)
  BY DEF BackendsSoFar, ListShape
<1>4. ~(start < Place(k, T) /\ Place(k, T) <= m)
  BY <1>2, <1>3
<1>5. Between(T, start, m) = Between(shelf, start, m)
  BY <1>2, <1>4 DEF Between
<1>6. Between(T, start, m) = Between(shelf, lister.start, lister.from)'
  BY DEF Between, Place
<1>7. m <= Cardinality(T) \/ m = start
  BY <1>2, <1>3
<1>8. Cardinality(shelf)' = Cardinality(T)
  OBVIOUS
<1>. QED  BY <1>3, <1>5, <1>6, <1>7, <1>8 DEF BackendsSoFar

\* What is wanted does not grow by what others do.
LEMMA WantedShrinks ==
  ASSUME ListTypeOK, NEW k \in Keys, Move, UNCHANGED lister,
         \/ shelf' = shelf \cup {k} /\ UNCHANGED <<steady, shrunk>>
         \/ shelf' = shelf \ {k} /\ steady' = steady \ {k} /\ shrunk'
  PROVE  Wanted' \subseteq Wanted
<1>. DEFINE P == shelf \cap InPrefix
            Q == shelf' \cap InPrefix
<1>1. moves' = moves + 1 /\ moves \in Nat /\ PageSize \in Nat
  BY ListingAssumption DEF ListTypeOK, Move
<1>2. IsFiniteSet(P) /\ Cardinality(P) \in Nat
  BY Shelves
<1>3. Q \in {P, P \cup {k}, P \ {k}}
  OBVIOUS
<1>. HIDE DEF P, Q
<1>4. Cardinality(P) <= Cardinality(Q) + 1 /\ Cardinality(Q) \in Nat
  <2>1. Cardinality(P \cup {k}) \in {Cardinality(P), Cardinality(P) + 1}
    BY <1>2, FS_AddElement
  <2>2. Cardinality(P \ {k}) \in {Cardinality(P), Cardinality(P) - 1} /\ Cardinality(P \ {k}) \in Nat
    BY <1>2, FS_RemoveElement, FS_CardinalityType
  <2>3. CASE Q = P
    BY <1>2, <2>3
  <2>4. CASE Q = P \cup {k}
    BY <1>2, <2>1, <2>4
  <2>5. CASE Q = P \ {k}
    BY <1>2, <2>2, <2>5
  <2>. QED  BY <1>3, <2>3, <2>4, <2>5
<1>5. Cardinality(Q) + moves' <= PageSize => Cardinality(P) + moves <= PageSize
  BY <1>1, <1>2, <1>4
<1>6. steady' \subseteq steady /\ (~shrunk' => ~shrunk)
  OBVIOUS
<1>7. Cardinality(shelf \cap InPrefix)' = Cardinality(Q)
  BY DEF Q
<1>. QED  BY <1>5, <1>6, <1>7 DEF Wanted, P

LEMMA AddStep ==
  ASSUME ListInv, NEW k \in Keys, Add(k) PROVE ListInv'
<1>1. ListTypeOK /\ ListShape /\ MaxMoves \in Nat /\ ListsAndRemoves /\ (lister.at = "asking" => ListSoFar)
  BY ListingAssumption DEF ListInv
<1>2. /\ k \in Keys \ shelf /\ Move /\ (lister.of \in Rows => \A j \in shelf : j < k)
      /\ shelf' = shelf \cup {k} /\ back' = (back \/ k = removal.key)
      /\ UNCHANGED <<lister, removal, steady, shrunk>>
  BY DEF Add
<1>3. ListTypeOK'
  <2>1. back' \in BOOLEAN
    BY <1>2, Zenon
  <2>2. moves' \in 0..MaxMoves
    BY <1>1, <1>2 DEF ListTypeOK, Move
  <2>. QED  BY <1>1, <1>2, <2>1, <2>2 DEF ListTypeOK
<1>4. ListShape'
  BY <1>1, <1>2 DEF ListShape
<1>5. ASSUME lister.at = "asking" PROVE ListSoFar'
  <2>1. ListSoFar
    BY <1>1, <1>5
  <2>2. lister.of = "aws" => AwsSoFar'
    BY <1>2, <2>1 DEF ListSoFar, AwsSoFar
  <2>3. lister.of = "obs" => ObsSoFar'
    BY <1>2, <2>1 DEF ListSoFar, ObsSoFar
  <2>4. lister.of = "azure" => AzureSoFar'
    BY <1>2, <2>1 DEF ListSoFar, AzureSoFar
  <2>5. lister.of = "backends" /\ ~shrunk => BackendsSoFar'
    BY <1>1, <1>2, <2>1, AddedRow DEF ListSoFar, Rows
  <2>6. lister.of = "types" => TypesSoFar'
    BY <1>2, <2>1 DEF ListSoFar, TypesSoFar
  <2>. QED  BY <1>2, <2>1, <2>2, <2>3, <2>4, <2>5, <2>6 DEF ListSoFar
<1>6. ListsAndRemoves'
  <2>1. Wanted' \subseteq Wanted
    BY <1>1, <1>2, WantedShrinks
  <2>2. removal.at = "ok" => removal.key \notin shelf' \/ back'
    BY <1>1, <1>2 DEF ListsAndRemoves
  <2>. QED  BY <1>1, <1>2, <2>1, <2>2 DEF ListsAndRemoves
<1>. QED  BY <1>2, <1>3, <1>4, <1>5, <1>6 DEF ListInv

LEMMA TakeStep ==
  ASSUME ListInv, NEW k \in Keys, Take(k) PROVE ListInv'
<1>1. ListTypeOK /\ ListShape /\ MaxMoves \in Nat /\ ListsAndRemoves /\ (lister.at = "asking" => ListSoFar)
  BY ListingAssumption DEF ListInv
<1>2. /\ Move /\ shelf' = shelf \ {k} /\ steady' = steady \ {k} /\ shrunk' = TRUE
      /\ UNCHANGED <<lister, removal, back>>
  BY DEF Take
<1>3. ListTypeOK'
  <2>1. moves' \in 0..MaxMoves
    BY <1>1, <1>2 DEF ListTypeOK, Move
  <2>2. shrunk' \in BOOLEAN
    BY <1>2, Zenon
  <2>. QED  BY <1>1, <1>2, <2>1, <2>2 DEF ListTypeOK
<1>4. ListShape'
  BY <1>1, <1>2 DEF ListShape
<1>5. ASSUME lister.at = "asking" PROVE ListSoFar'
  <2>1. ListSoFar
    BY <1>1, <1>5
  <2>2. lister.of = "aws" => AwsSoFar'
    BY <1>2, <2>1 DEF ListSoFar, AwsSoFar
  <2>3. lister.of = "obs" => ObsSoFar'
    BY <1>2, <2>1 DEF ListSoFar, ObsSoFar, Covered
  <2>4. lister.of = "azure" => AzureSoFar'
    BY <1>2, <2>1 DEF ListSoFar, AzureSoFar, Covered
  <2>5. lister.of = "types" => TypesSoFar'
    BY <1>2, <2>1 DEF ListSoFar, TypesSoFar
  <2>6. ~(lister.of = "backends" /\ shrunk') => IsInjective(lister'.got)
    BY <1>2, <2>1 DEF ListSoFar
  <2>. QED  BY <1>2, <2>2, <2>3, <2>4, <2>5, <2>6 DEF ListSoFar
<1>6. ListsAndRemoves'
  <2>1. Wanted' \subseteq Wanted
    BY <1>1, <1>2, WantedShrinks
  <2>2. removal.at = "ok" => removal.key \notin shelf' \/ back'
    BY <1>1, <1>2 DEF ListsAndRemoves
  <2>. QED  BY <1>1, <1>2, <2>1, <2>2 DEF ListsAndRemoves
<1>. QED  BY <1>2, <1>3, <1>4, <1>5, <1>6 DEF ListInv

-----------------------------------------------------------------------------
(* The theorem *)

LEMMA ListInitially ==
  ASSUME NEW there \in SUBSET Keys, ListStart(there)
  PROVE  ListInv
<1>1. ListStart(there)
  OBVIOUS
<1>2. /\ shelf \subseteq Keys /\ moves = 0 /\ steady = {} /\ shrunk = FALSE /\ back = FALSE
      /\ lister = NoList /\ removal = NoRemoval
  BY <1>1 DEF ListStart
<1>3. MaxMoves \in Nat /\ MaxLimit \in Nat /\ <<>> \in Seq(Nat)
  BY ListingAssumption, EmptySeq
<1>4. /\ NoList.of = "none" /\ NoList.at = "idle" /\ NoList.from = 0 /\ NoList.limit = 0 /\ NoList.start = 0
      /\ NoList.paged = FALSE /\ NoList.got = <<>>
      /\ NoList = [of |-> NoList.of, at |-> NoList.at, from |-> NoList.from, limit |-> NoList.limit,
                   start |-> NoList.start, paged |-> NoList.paged, got |-> NoList.got]
  BY DEF NoList, NewList
<1>5. /\ NoRemoval.key = 0 /\ NoRemoval.tries = 0 /\ NoRemoval.at = "idle"
      /\ NoRemoval = [key |-> NoRemoval.key, tries |-> NoRemoval.tries, at |-> NoRemoval.at]
  BY DEF NoRemoval
<1>6. ListTypeOK
  <2>1. shrunk \in BOOLEAN /\ back \in BOOLEAN
    BY <1>2, Zenon
  <2>2. shelf \subseteq Keys /\ steady \subseteq shelf /\ moves \in 0..MaxMoves
    BY <1>2, <1>3
  <2>3. /\ lister.of \in Source \cup Rows \cup {"none"}
        /\ lister.at \in {"idle", "asking", "returned", "failed", "panicked"}
        /\ lister.got \in Seq(Nat) /\ lister.limit <= MaxLimit
        /\ removal.key \in Keys \cup {0} /\ removal.tries \in 0..3
    BY <1>2, <1>3, <1>4, <1>5
  <2>. QED  BY <2>1, <2>2, <2>3 DEF ListTypeOK
<1>7. ListShape
  <2>1. lister.paged \in BOOLEAN
    BY <1>2, <1>4, Zenon
  <2>2. lister.from \in Int /\ lister.start \in Int /\ lister.limit \in Int
    BY <1>2, <1>4
  <2>. QED  BY <1>2, <1>4, <1>5, <2>1, <2>2 DEF ListShape
<1>8. ListsAndRemoves
  BY <1>2, <1>4, <1>5 DEF ListsAndRemoves
<1>. QED  BY <1>2, <1>4, <1>6, <1>7, <1>8 DEF ListInv

LEMMA ListKeeps ==
  ASSUME ListInv, [ListNext]_listVars
  PROVE  ListInv'
<1>1. CASE UNCHANGED listVars
  <2>0. UNCHANGED <<shelf, lister, removal, moves, steady, shrunk, back>>
    BY <1>1 DEF listVars
  <2>1. ListTypeOK' /\ ListShape'
    BY <2>0 DEF ListInv, ListTypeOK, ListShape
  <2>2. ListsAndRemoves'
    BY <2>0 DEF ListInv, ListsAndRemoves, Wanted
  <2>3. ListSoFar => ListSoFar'
    <3>1. BackendsSoFar => BackendsSoFar'
      BY <2>0 DEF BackendsSoFar, Between, Place
    <3>. QED  BY <2>0, <3>1 DEF ListSoFar, AwsSoFar, ObsSoFar, AzureSoFar, TypesSoFar
  <2>. QED  BY <2>0, <2>1, <2>2, <2>3 DEF ListInv
<1>2. CASE \/ \E source \in Sources : BeginSource(source)
           \/ \E limit \in Limits, offset \in {-1, 0, Len(AllTypes) + 1} :
                APIListBackend(limit, offset) \/ APIListType(limit, offset)
  BY <1>2, BeginStep
<1>3. CASE ListAws \/ ListObs \/ ListAzure \/ ListCeph \/ ListOsds
  BY <1>3, AwsStep, ObsStep, AzureStep, CephStep, OsdsStep
<1>4. CASE ListBackends \/ ListTypes \/ ListFails
  BY <1>4, BackendsStep, TypeListStep, FailsStep
<1>5. CASE \E k \in Keys : BeginRemoval(k) \/ Add(k) \/ Take(k)
  BY <1>5, BeginRemovalStep, AddStep, TakeStep
<1>6. CASE DeleteAws \/ AwsWaits \/ DeleteObs \/ DeleteAzure \/ DeleteCeph
  BY <1>6, DeleteSteps
<1>. QED  BY <1>1, <1>2, <1>3, <1>4, <1>5, <1>6 DEF ListNext

\* The invariant of the lists holds throughout.
LEMMA ListInvHolds == ListSpec => []ListInv
<1>1. ListInit => ListInv
  BY ListInitially DEF ListInit
<1>2. ListInv /\ [ListNext]_listVars => ListInv'
  BY ListKeeps
<1>. QED  BY <1>1, <1>2, PTL DEF ListSpec

(* The variables of the lists have their types. *)
THEOREM ListTypesHold == ListSpec => []ListTypeOK
<1>1. ListInv => ListTypeOK
  BY DEF ListInv
<1>. QED  BY <1>1, ListInvHolds, PTL

(* A list that has been returned has what was there throughout, once; and   *)
(* what a mover says it has removed is gone: for every number of keys, size *)
(* of a page, limit and number of changes by others (the movers' ListObjs   *)
(* and DeleteObj, ListBackend and ListType).                                *)
THEOREM ListsTrue == ListSpec => []ListsAndRemoves
<1>1. ListInv => ListsAndRemoves
  BY DEF ListInv
<1>. QED  BY <1>1, ListInvHolds, PTL

-----------------------------------------------------------------------------
(* The parts together (CloudApi) *)

PartsInv == Inv /\ AuthInv /\ DeskInv /\ DeskTypes /\ ListInv /\ ObsInv

\* Whichever part is at work, the others wait in a state from which theirs begins.
LEMMA ApiBegins == ApiInit => PartsInv
<1>. SUFFICES ASSUME ApiInit PROVE PartsInv
  OBVIOUS
<1>1. GatewayBegun
  BY DEF ApiInit, GatewayRests, GatewayInit, GatewayBegun
<1>2. AuthInv
  <2>1. CASE AuthInit
    BY <2>1, AuthStarts, AuthorizationAssumption DEF AuthInit
  <2>2. CASE AuthRests
    <3>1. PICK chosen, found, token :
            /\ chosen = [filter |-> "noauth", policy |-> "noauth"] /\ found = NoFile /\ token = "expired"
            /\ AuthStart(chosen, found, token)
      BY <2>2 DEF AuthRests
    <3>2. /\ chosen \in Strategy /\ token \in {"valid", "expired"}
          /\ found \in [is : {"file", "directory", "missing"}, texts : Files \cup {NoFile.texts}]
      BY <3>1 DEF Strategy, NoFile
    <3>. QED  BY <3>1, <3>2, AuthStarts
  <2>. QED  BY <2>1, <2>2 DEF ApiInit
<1>3. DeskInv /\ DeskTypes
  BY DeskStarts, TypesBegin DEF ApiInit, DeskRests, DeskInit
<1>4. ListInv
  BY ListInitially DEF ApiInit, ListsRest, ListInit
<1>5. ObsInv
  BY Initially DEF ApiInit
<1>. QED  BY <1>1, <1>2, <1>3, <1>4, <1>5, GatewayBegins DEF PartsInv

\* A step of the whole is one of a part, or nothing to it.
EveryPart ==
  /\ [GatewayNext]_gatewayVars /\ [AuthNext]_authVars /\ [DeskNext]_deskVars
  /\ [ListNext]_listVars /\ [ObsNext]_obsVars

LEMMA ApiSteps == [ApiNext]_apiVars => EveryPart
BY DEF ApiNext, apiVars, EveryPart

LEMMA ApiKeeps == PartsInv /\ [ApiNext]_apiVars => PartsInv'
BY ApiSteps, GatewayKeeps, AuthKeeps, DeskKeeps, DeskTypesKept, ListKeeps, ObsKeeps DEF PartsInv, EveryPart

(* What each part's behaviour rests on holds of all of them together, which *)
(* part of the api service may be at work.                                  *)
THEOREM PartsKeepTheirs == ApiSpec => []PartsInv
BY ApiBegins, ApiKeeps, PTL DEF ApiSpec

\* Whichever part is at work, every variable has its type, a handler about to
\* call a store has an adapter for it, and locks and jobs are of plans.
THEOREM ApiTypes == ApiSpec => []ApiTypeOK
<1>1. PartsInv => ApiTypeOK
  BY TypesOfDesk, ObsInvGives DEF PartsInv, Inv, AuthInv, ListInv, ApiTypeOK
<1>. QED  BY <1>1, PartsKeepTheirs, PTL

(* The safety of the parts, of the service that has them all: objects and    *)
(* their records agree, acknowledged objects stay, only allowed requests     *)
(* reach their handlers and refused ones are for a reason, plans are as      *)
(* acknowledged, lists and removals are whole, and objects are stored whole. *)
THEOREM CloudHolds ==
  ApiSpec => [](/\ AgreesWithRequests /\ PutsSurvive /\ OnlyAllowedReachHandlers /\ RefusedForAReason
                /\ DeskAgrees /\ ListsAndRemoves /\ ObsStoresWhole)
<1>1. PartsInv => /\ AgreesWithRequests /\ PutsSurvive /\ OnlyAllowedReachHandlers /\ RefusedForAReason
                  /\ DeskAgrees /\ ListsAndRemoves /\ ObsStoresWhole
  BY CatalogueTrue, PutsKept, DeskTells, ObsInvGives DEF PartsInv, AuthInv, ListInv
<1>. QED  BY <1>1, PartsKeepTheirs, PTL

\* ReadsAgree, of the whole: whatever the other parts do, a download that was
\* alone and did not fail gives what was asked of what is stored, as
\* DownloadsAgree says.
THEOREM CloudReads == ApiSpec => ReadsAgree
<1>1. PartsInv /\ [ApiNext]_apiVars => [GivesWhatIsThere]_gatewayVars
  BY ApiSteps, GetsAgree DEF PartsInv, EveryPart
<1>. QED  BY <1>1, PartsKeepTheirs, PTL DEF ApiSpec, ReadsAgree
=============================================================================
