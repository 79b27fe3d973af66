------------------------------- MODULE Listing -------------------------------
(***************************************************************************)
(* GET /batches, next to the transactions that change batches.             *)
(* BatchRepository.list_filtered counts the matching batches and then      *)
(* selects one page of them, newest first.  A client walks through the     *)
(* pages until one is not full.                                            *)
(*                                                                         *)
(* BatchService.list_batches is cached, with one entry for each filter,    *)
(* offset and limit: a page may be what an earlier call with the same      *)
(* arguments read.  How entries come and go is the subject of BatchCache;  *)
(* here an entry may be of any earlier version of the tables, because time *)
(* is not modelled, invalidation does not follow every commit, and an old  *)
(* page may be stored after it.                                            *)
(***************************************************************************)
EXTENDS Production, Sequences

CONSTANTS PageSize,     \* the client's limit
          MaxVersions   \* bound: versions of the tables

ASSUME PageSizeAssumption == PageSize \in Nat \ {0}
ASSUME MaxVersionsAssumption == MaxVersions \in Nat \ {0}

VARIABLES
    versions,    \* history: the batches, and the closed ones, after each commit
    walk         \* what the client asks for and has got

listingVars == <<store, versions, walk>>

-----------------------------------------------------------------------------
\* The filter on is_closed is absent, {}, or has one value.
Filters == {{}, {TRUE}, {FALSE}}

\* at: the version of the page the client got last, 0 before the first; inOrder: no page
\* was of an older version than the page before it; first: the batches there were in the
\* version of the first page.
AtRest == [pc |-> "idle", filter |-> {}, offset |-> 0, total |-> 0, page |-> {},
           seen |-> {}, at |-> 0, inOrder |-> TRUE, first |-> {}]

Tables == [batches |-> batches, closed |-> closed]

ListingInit ==
    /\ StoreInit
    /\ versions = <<Tables>>
    /\ walk = AtRest

Newest == Len(versions)

Matching(v, filter) ==
    {b \in versions[v].batches : filter \subseteq {b \in versions[v].closed}}

\* MUTANT: ORDER BY is forgotten.
NotAfterInAnyOrder(b, c) == TRUE

\* b may come before c: later in time, or at the same time, when the order is not
\* determined.
NotAfter(b, c) == created[b] >= created[c]

\* MUTANT: off by one.
RowsSkippedOneMore(offset) == offset + 1

\* OFFSET.
RowsSkipped(offset) == offset

\* P may be the page at this offset of the batches M.
IsPage(P, M, offset) ==
    LET rest == M \ P IN
    \E skipped \in SUBSET rest :
        /\ Cardinality(skipped) = IF RowsSkipped(offset) < Cardinality(M)
                                  THEN RowsSkipped(offset) ELSE Cardinality(M)
        /\ \/ Cardinality(P) = PageSize
           \/ Cardinality(P) < PageSize /\ rest = skipped
        /\ \A s \in skipped, b \in M \ skipped : NotAfter(s, b)
        /\ \A p \in P, b \in rest \ skipped : NotAfter(p, b)

-----------------------------------------------------------------------------
Commit ==
    /\ Newest < MaxVersions
    /\ StoreNext
    /\ versions' = Append(versions, Tables')
    /\ UNCHANGED walk

StartWalk ==
    /\ walk.pc = "idle"
    /\ \E filter \in Filters : walk' = [AtRest EXCEPT !.pc = "ask", !.filter = filter]
    /\ UNCHANGED <<store, versions>>

\* MUTANT: the table is selected next to the subquery, a row for each pair.
CountedCrosswise(M) == Cardinality(M) * Cardinality(batches)

Counted(M) == Cardinality(M)

\* A miss: the batches are counted, and the page is selected after it.
CountMatching ==
    /\ walk.pc = "ask"
    /\ walk' = [walk EXCEPT !.pc = "select",
                            !.total = Counted(Matching(Newest, walk.filter))]
    /\ UNCHANGED <<store, versions>>

\* The client gets total and a page that was selected from version v.
Answer(total, v) ==
    \E P \in SUBSET Matching(v, walk.filter) :
        /\ IsPage(P, Matching(v, walk.filter), walk.offset)
        /\ walk' = [walk EXCEPT !.pc = "answered", !.total = total, !.page = P,
                       !.seen = walk.seen \cup P, !.at = v,
                       !.inOrder = walk.inOrder /\ walk.at <= v,
                       !.first = IF walk.at = 0 THEN versions[v].batches ELSE walk.first]

SelectPage ==
    /\ walk.pc = "select"
    /\ Answer(walk.total, Newest)
    /\ UNCHANGED <<store, versions>>

\* A hit: total and page are those of a miss of some other time, which counted version m
\* and selected from version n.
CachedPage ==
    /\ walk.pc = "ask"
    /\ \E n \in DOMAIN versions : \E m \in 1..n :
         Answer(Counted(Matching(m, walk.filter)), n)
    /\ UNCHANGED <<store, versions>>

\* A full page is followed by the next one.
NextPage ==
    /\ walk.pc = "answered"
    /\ Cardinality(walk.page) = PageSize
    /\ walk' = [walk EXCEPT !.pc = "ask", !.offset = walk.offset + PageSize]
    /\ UNCHANGED <<store, versions>>

EndOfWalk == walk.pc = "answered" /\ Cardinality(walk.page) < PageSize

WalkEnds == EndOfWalk /\ walk' = AtRest /\ UNCHANGED <<store, versions>>

ListingNext ==
    \/ Commit
    \/ StartWalk \/ CountMatching \/ SelectPage \/ CachedPage \/ NextPage \/ WalkEnds

ListingSpec == ListingInit /\ [][ListingNext]_listingVars

-----------------------------------------------------------------------------
(* Properties *)

\* Tables, versions and walk keep their type.
ListingTypeOK ==
    /\ StoreTypeOK
    /\ Newest \in 1..MaxVersions /\ versions[Newest] = Tables
    /\ walk.pc \in {"idle", "ask", "select", "answered"}
    /\ walk.filter \in Filters
    /\ walk.offset \in Nat /\ walk.total \in 0..Cardinality(batches)
    /\ walk.at \in 0..Newest /\ walk.inOrder \in BOOLEAN
    /\ walk.page \subseteq walk.seen
    /\ walk.seen \cup walk.first \subseteq batches

\* The total promises no more than the page delivers, although batches are committed
\* between the count and the page: unfiltered, a page is shorter than PageSize only if
\* total - offset is no more than its length.
PageHoldsWhatTotalPromises ==
    walk.pc = "answered" /\ walk.filter = {} =>
        \/ Cardinality(walk.page) = PageSize
        \/ walk.total <= walk.offset + Cardinality(walk.page)

HasOwnTime(b) == \A c \in batches : created[c] = created[b] => c = b

\* A client that walks through all pages without a filter, and is given none from the
\* cache that is older than the page before it, sees every batch that was in the tables
\* its first page was read from, however many are committed between the pages and
\* however old their created_at.  Not so batches that share their created_at with another
\* (all batches of one POST do): those may change places between two pages.  And not so
\* if a page is older than the one before: the rows have moved back.
WalkMissesNothing ==
    EndOfWalk /\ walk.filter = {} /\ walk.inOrder =>
        \A b \in walk.first : HasOwnTime(b) => b \in walk.seen

=============================================================================
