------------------------------- MODULE Listing -------------------------------
(***************************************************************************)
(* Lists that come in pages while others add and remove.  A migration job  *)
(* lists the objects of its source (ListObjs of the movers, getSourceObjs  *)
(* of drivers/https/migration.go) and removes those it has moved           *)
(* (DeleteObj); a client of the api service lists backends and types by    *)
(* limit and offset (backend/pkg/service/service.go).  Keys are numbers in *)
(* the order of the store, rows in the order they were inserted in.        *)
(***************************************************************************)
EXTENDS Integers, Sequences, FiniteSets, SequencesExt, FiniteSetsExt

CONSTANTS
  Keys,       \* keys of objects, or numbers of rows
  InPrefix,   \* keys with the prefix of the plan's filter,
  RegexpKeys, \* and those it matches as a regular expression
  LowKeys,    \* keys up to "0"
  PageSize,   \* what a store puts on a page
  Sources,    \* types of connectors to list from
  Limits,     \* what a client asks for at a time,
  MaxLimit,   \* and the most it gets
  MaxMoves    \* bound on the additions and removals by others, and on failures

Movers == {"aws", "obs", "azure", "ceph"}
Rows == {"backends", "types"}
Source == Movers \cup {"osds", "cloud"}

ASSUME ListingAssumption ==
  /\ Keys \subseteq Nat \ {0} /\ IsFiniteSet(Keys)
  /\ InPrefix \subseteq Keys /\ RegexpKeys \subseteq Keys /\ LowKeys \subseteq Keys
  /\ \A low \in LowKeys, k \in Keys \ LowKeys : low < k
  /\ PageSize \in Nat \ {0} /\ MaxMoves \in Nat /\ Sources \subseteq Source
  /\ Limits \subseteq Int /\ MaxLimit \in Nat

VARIABLES
  shelf,   \* the keys that are there
  lister,  \* the list being made: of what, from where on, and what it has
  removal, \* the object being removed
  moves,   \* additions, removals and failures so far
  steady,  \* keys that have been there since the list was begun (history)
  shrunk,  \* a row has been removed meanwhile (history)
  back     \* the object being removed has been put again (history)

listVars == <<shelf, lister, removal, moves, steady, shrunk, back>>

AllTypes == <<1, 2, 3, 4, 5>>
\* The members of a set of numbers in their order: each at the place it has
\* among them (SortSeq means as much, but is nothing to reason about).
Place(k, S) == Cardinality({j \in S : j <= k})
Ordered(S) == [i \in 1..Cardinality(S) |-> CHOOSE k \in S : Place(k, S) = i]
NewList(of, at, limit, offset) ==
  [of |-> of, at |-> at, from |-> offset, limit |-> limit, start |-> offset, paged |-> FALSE, got |-> <<>>]
NoList == NewList("none", "idle", 0, 0)
NoRemoval == [key |-> 0, tries |-> 0, at |-> "idle"]

-----------------------------------------------------------------------------
(* Where a job lists from *)

\* getConnLocation: a connector of fusioncloud is not supported; of the other
\* stores every setting is taken, those that are missing too.
Located(source) == IF source = "cloud" THEN "failed" ELSE "asking"
\* getOsdsLocation, for the bucket and then the backend its document names:
\* either may not be found.
BucketLocated(source) == IF source = "osds" THEN {"asking", "failed"} ELSE {Located(source)}

Starts(list) ==
  /\ lister = NoList /\ lister' = list
  /\ steady' = shelf
  /\ UNCHANGED <<shelf, removal, moves, shrunk, back>>

BeginSource(source) ==
  \E at \in BucketLocated(source) : Starts(NewList(source, at, 0, 0))

\* GetPaginationParam: a limit beyond the largest page is cut; none, and no
\* offset, stand for the largest page from the beginning.
Paginated(limit) == IF limit > MaxLimit THEN MaxLimit ELSE limit
BeginRows(source, limit, offset) == Starts(NewList(source, "asking", Paginated(limit), offset))
APIListBackend(limit, offset) == BeginRows("backends", limit, offset)
APIListType(limit, offset) == BeginRows("types", limit, offset)

-----------------------------------------------------------------------------
(* One page.  A page ends where the next begins, if there is a next.         *)

\* The stores (external): the first keys after a marker.
Following(marker) == {k \in shelf \cap InPrefix : k > marker}
PageFrom(marker) ==
  SubSeq(Ordered(Following(marker)), 1, Min({PageSize, Cardinality(Following(marker))}))
Truncated(marker) == Cardinality(Following(marker)) > PageSize

Page(got, from, over) ==
  lister' = [lister EXCEPT !.got = got, !.from = from, !.paged = ~over \/ @,
                           !.at = IF over THEN "returned" ELSE "asking"]

\* s3mover: what is returned is the last page.  A store that gives no marker
\* for the next page has the first one sent again.
ListAws ==
  /\ lister.of = "aws" /\ lister.at = "asking"
  /\ \E next \in {Last(<<0>> \o PageFrom(lister.from)), 0} :
       Page(PageFrom(lister.from), next, ~Truncated(lister.from))
  /\ UNCHANGED <<shelf, removal, moves, steady, shrunk, back>>

\* obsmover: the list begins after the key "0".
Marker_Kept(from) == Max(LowKeys \cup {0})
Marker(from) == IF from = 0 THEN Max(LowKeys \cup {0}) ELSE from
ListObs ==
  /\ lister.of = "obs" /\ lister.at = "asking"
  /\ LET m == Marker(lister.from) IN
     Page(lister.got \o PageFrom(m), Last(<<m>> \o PageFrom(m)), ~Truncated(m))
  /\ UNCHANGED <<shelf, removal, moves, steady, shrunk, back>>

\* blobmover
ListAzure ==
  /\ lister.of = "azure" /\ lister.at = "asking"
  /\ Page(lister.got \o PageFrom(lister.from), Last(<<lister.from>> \o PageFrom(lister.from)),
          ~Truncated(lister.from))
  /\ UNCHANGED <<shelf, removal, moves, steady, shrunk, back>>

\* cephs3mover: one page.
ListCeph ==
  /\ lister.of = "ceph" /\ lister.at = "asking"
  /\ Page(PageFrom(0), 0, TRUE)
  /\ UNCHANGED <<shelf, removal, moves, steady, shrunk, back>>

\* getOsdsS3Objs: all the documents, whose keys the prefix has to match.
ListOsds ==
  /\ lister.of = "osds" /\ lister.at = "asking"
  /\ Page(Ordered(shelf \cap RegexpKeys), 0, TRUE)
  /\ UNCHANGED <<shelf, removal, moves, steady, shrunk, back>>

\* ListBackend, for a client that asks for more until there is none.  A limit of
\* 0 is none.
Rest(offset) == LET all == Ordered(shelf) IN SubSeq(all, offset + 1, Len(all))
Upto(s, limit) == SubSeq(s, 1, Min({limit, Len(s)}))
RowsFrom(offset, limit) == IF limit = 0 THEN Rest(offset) ELSE Upto(Rest(offset), limit)
ListBackends ==
  /\ lister.of = "backends" /\ lister.at = "asking"
  /\ LET rows == RowsFrom(lister.from, lister.limit) IN
     IF lister.limit < 0 \/ lister.from < 0 THEN lister' = [lister EXCEPT !.at = "failed"]
     ELSE Page(lister.got \o rows, lister.from + Len(rows), rows = <<>> \/ lister.limit = 0)
  /\ UNCHANGED <<shelf, removal, moves, steady, shrunk, back>>

\* ListType: a list that never changes, and a limit of 0 is one.  Bounds below
\* zero are not looked at.
ListTypes ==
  /\ lister.of = "types" /\ lister.at = "asking"
  /\ LET rows == Upto(SubSeq(AllTypes, lister.from + 1, 5), lister.limit) IN
     IF lister.from > Len(AllTypes) THEN lister' = [lister EXCEPT !.at = "failed"]
     ELSE IF lister.from < 0 \/ lister.limit < 0 THEN lister' = [lister EXCEPT !.at = "panicked"]
     ELSE Page(lister.got \o rows, lister.from + Len(rows), rows = <<>>)
  /\ UNCHANGED <<shelf, removal, moves, steady, shrunk, back>>

Move == moves < MaxMoves /\ moves' = moves + 1
\* An error ends the list; that of the s3 service is noticed after its answer,
\* which is none, has been used.
ListFails ==
  /\ lister.at = "asking" /\ lister.of # "types" /\ Move
  /\ lister' = [lister EXCEPT !.at = IF lister.of = "osds" THEN "panicked" ELSE "failed", !.got = <<>>]
  /\ UNCHANGED <<shelf, removal, steady, shrunk, back>>

-----------------------------------------------------------------------------
(* Removing an object of the list *)

BeginRemoval(key) ==
  /\ removal.at \in {"idle", "ok", "error"}
  /\ lister.of \in Movers /\ lister.at = "returned" /\ key \in Range(lister.got)
  /\ removal' = [key |-> key, tries |-> 1, at |-> "trying"]
  /\ back' = FALSE
  /\ UNCHANGED <<shelf, lister, moves, steady, shrunk>>

\* A try of DeleteObj that is refused, or whose answer is lost, is made again
\* up to three times, but by the mover for ceph.
Retried == IF removal.tries < 3
           THEN [removal EXCEPT !.tries = @ + 1] ELSE [removal EXCEPT !.at = "error"]
Erased == /\ shelf' = shelf \ {removal.key} /\ steady' = steady \ {removal.key}
Trying(store) == removal.at = "trying" /\ lister.of = store

\* s3mover waits until it sees that the object is not there.
DeleteAws ==
  /\ Trying("aws")
  /\ \/ Erased /\ removal' = [removal EXCEPT !.at = "wait"] /\ UNCHANGED moves
     \/ Erased /\ Move /\ removal' = Retried
     \/ Move /\ removal' = Retried /\ UNCHANGED <<shelf, steady>>
  /\ UNCHANGED <<lister, shrunk, back>>
AwsWaits ==
  /\ removal.at = "wait"
  /\ \/ removal.key \notin shelf /\ removal' = [removal EXCEPT !.at = "ok"]
     \/ removal' = [removal EXCEPT !.at = "error"]
  /\ UNCHANGED <<shelf, lister, moves, steady, shrunk, back>>

DeleteObs ==
  /\ Trying("obs")
  /\ \/ Erased /\ removal' = [removal EXCEPT !.at = "ok"] /\ UNCHANGED moves
     \/ Erased /\ Move /\ removal' = Retried
     \/ Move /\ removal' = Retried /\ UNCHANGED <<shelf, steady>>
  /\ UNCHANGED <<lister, shrunk, back>>

\* A blob that is not there cannot be deleted.
DeleteAzure ==
  /\ Trying("azure")
  /\ \/ removal.key \in shelf /\ Erased /\ removal' = [removal EXCEPT !.at = "ok"] /\ UNCHANGED moves
     \/ removal.key \in shelf /\ Erased /\ Move /\ removal' = Retried
     \/ removal.key \in shelf /\ Move /\ removal' = Retried /\ UNCHANGED <<shelf, steady>>
     \/ removal.key \notin shelf /\ removal' = Retried /\ UNCHANGED <<shelf, steady, moves>>
  /\ UNCHANGED <<lister, shrunk, back>>

DeleteCeph ==
  /\ Trying("ceph")
  /\ \/ Erased /\ removal' = [removal EXCEPT !.at = "ok"] /\ UNCHANGED moves
     \/ Erased /\ Move /\ removal' = [removal EXCEPT !.at = "error"]
     \/ Move /\ removal' = [removal EXCEPT !.at = "error"] /\ UNCHANGED <<shelf, steady>>
  /\ UNCHANGED <<lister, shrunk, back>>

-----------------------------------------------------------------------------
(* The others *)

Add(k) ==
  /\ k \in Keys \ shelf /\ lister.of # "none" /\ Move
  /\ lister.of \in Rows => \A j \in shelf : j < k
  /\ shelf' = shelf \cup {k}
  /\ back' = (back \/ k = removal.key)
  /\ UNCHANGED <<lister, removal, steady, shrunk>>

Take(k) ==
  /\ k \in shelf /\ lister.of # "none" /\ Move
  /\ shelf' = shelf \ {k} /\ steady' = steady \ {k} /\ shrunk' = TRUE
  /\ UNCHANGED <<lister, removal, back>>

ListStart(there) ==
  /\ shelf = there
  /\ lister = NoList /\ removal = NoRemoval /\ moves = 0
  /\ steady = {} /\ shrunk = FALSE /\ back = FALSE
ListInit == \E there \in SUBSET Keys : ListStart(there)

ListNext ==
  \/ \E source \in Sources : BeginSource(source)
  \/ \E limit \in Limits, offset \in {-1, 0, Len(AllTypes) + 1} :
       APIListBackend(limit, offset) \/ APIListType(limit, offset)
  \/ ListAws \/ ListObs \/ ListAzure \/ ListCeph \/ ListOsds \/ ListBackends \/ ListTypes
  \/ ListFails
  \/ \E k \in Keys : BeginRemoval(k) \/ Add(k) \/ Take(k)
  \/ DeleteAws \/ AwsWaits \/ DeleteObs \/ DeleteAzure \/ DeleteCeph

ListSpec == ListInit /\ [][ListNext]_listVars

-----------------------------------------------------------------------------

ListTypeOK ==
  /\ shelf \subseteq Keys /\ steady \subseteq shelf /\ moves \in 0..MaxMoves
  /\ lister.of \in Source \cup Rows \cup {"none"}
  /\ lister.at \in {"idle", "asking", "returned", "failed", "panicked"}
  /\ lister.got \in Seq(Nat) /\ lister.limit <= MaxLimit /\ shrunk \in BOOLEAN /\ back \in BOOLEAN
  /\ removal.key \in Keys \cup {0} /\ removal.tries \in 0..3

\* What a list is to have, of the keys that stayed.  A source on amazon is listed
\* whole only if it fits a page, and one on ceph up to a page; obs leaves out the
\* low keys; the prefix of a bucket's plan is a regular expression.
Wanted ==
  IF lister.start # 0 THEN {} ELSE
  CASE lister.of = "aws" -> IF ~lister.paged THEN steady \cap InPrefix ELSE {}
    [] lister.of = "obs" -> (steady \cap InPrefix) \ LowKeys
    [] lister.of = "azure" -> steady \cap InPrefix
    [] lister.of = "ceph" -> IF Cardinality(shelf \cap InPrefix) + moves <= PageSize
                             THEN steady \cap InPrefix ELSE {}
    [] lister.of = "osds" -> steady \cap RegexpKeys
    [] lister.of = "backends" -> IF shrunk THEN {} ELSE steady
    [] lister.of = "types" -> IF lister.limit = 0 THEN {} ELSE Range(AllTypes)
    [] OTHER -> {}

(* A list that has been returned names what was there from its beginning to  *)
(* its end, and nothing twice, whatever others put and removed between its   *)
(* pages; and an object that the mover says it has removed is not there,     *)
(* unless somebody put it again.                                             *)
ListsAndRemoves ==
  /\ lister.at = "returned" /\ removal = NoRemoval =>
       /\ Wanted \subseteq Range(lister.got)
       /\ (shrunk /\ lister.of = "backends") \/ IsInjective(lister.got)
  /\ removal.at = "ok" => removal.key \notin shelf \/ back
=============================================================================
