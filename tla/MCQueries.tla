------------------------------ MODULE MCQueries ------------------------------
(***************************************************************************)
(* Dashboard and Listing for TLC.  Readers do not disturb one another, so  *)
(* one of them is enough in a behaviour, and each gets the tables it looks *)
(* at: the list does not look at products, nor the dashboard at created_at *)
(* of batches.  Batches can be named in the order of their creation times. *)
(*                                                                         *)
(* Three batches in two shifts and two work centers; one of them may have  *)
(* two products, the others have none.                                     *)
(***************************************************************************)
EXTENDS Dashboard, Listing, TLC

CONSTANTS b1, b2, b3, p1, p2, day, night, c1, c2

VARIABLE reader     \* the one that is at work

MCBatchOf == p1 :> b1 @@ p2 :> b1
MCShiftOf == b1 :> day @@ b2 :> day @@ b3 :> night
MCCenterOf == b1 :> c1 @@ b2 :> c2 @@ b3 :> c1
MCTimes == 1..3

Rank == b1 :> 1 @@ b2 :> 2 @@ b3 :> 3

InOrderOfTime ==
    \A b, c \in batches : Rank[b] < Rank[c] => created[b] <= created[c]

OfOneTime == \A b \in batches : created[b] = 1

MCInit ==
    /\ DashboardInit
    /\ ListingInit
    /\ \/ reader = "dashboard" /\ OfOneTime
       \/ reader = "list" /\ InOrderOfTime /\ products = {}

DashboardIsRead ==
    /\ reader = "dashboard"
    /\ DashboardNext
    /\ OfOneTime'
    /\ versions' = <<Tables'>>
    /\ UNCHANGED <<walk, reader>>

ListIsRead ==
    /\ reader = "list"
    /\ ListingNext
    /\ InOrderOfTime' /\ products' = {}
    /\ UNCHANGED <<dash, earlier, commits, reader>>

MCSpec ==
    /\ MCInit
    /\ [][DashboardIsRead \/ ListIsRead]_<<dashboardVars, listingVars, reader>>

=============================================================================
