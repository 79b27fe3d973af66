------------------------------ MODULE Dashboard ------------------------------
(***************************************************************************)
(* AnalyticsRepository.get_dashboard_statistics: seven SELECTs, one after  *)
(* the other, each of which sees what is committed when it runs.           *)
(*                                                                         *)
(* A COUNT is represented by the set of what it counts: batches, products, *)
(* or rows of a join.  The figure is its cardinality.                      *)
(*                                                                         *)
(* The whole answer is cached for some minutes: see BatchCache.            *)
(***************************************************************************)
EXTENDS Production

CONSTANTS Shifts, ShiftOf,      \* the shift of each batch
          Centers, CenterOf,    \* the work center of each batch
          DatedToday,           \* the batches with today's batch_date
          Limit,                \* length of the list of work centers (10 in the code)
          NoProduct,            \* the NULL of the outer join
          MaxCommits            \* bound: transactions committed

ASSUME ShiftsAssumption == ShiftOf \in [Batches -> Shifts]
ASSUME CentersAssumption == CenterOf \in [Batches -> Centers] /\ IsFiniteSet(Centers)
ASSUME LimitAssumption == Limit \in Nat \ {0} /\ MaxCommits \in Nat
ASSUME NoProductAssumption == NoProduct \notin Products
ASSUME ProductsAssumption == IsFiniteSet(Products)

VARIABLES
    dash,        \* the statement that is next, and the figures so far
    earlier,     \* the products created, and those aggregated, before today by their
                 \* time stamps
    commits      \* transactions committed so far

dashboardVars == <<store, dash, earlier, commits>>

-----------------------------------------------------------------------------
NoFigures == [batches |-> {}, products |-> {}, aggregated |-> {}]

Idle == [pc |-> "idle", since |-> 0, rows |-> {}, active |-> {}, counted |-> {},
         done |-> {}, dated |-> {}, datedClosed |-> {}, added |-> {}, finished |-> {},
         shifts |-> [s \in Shifts |-> NoFigures], centers |-> [c \in {} |-> NoFigures]]

DashboardInit ==
    /\ StoreInit
    /\ dash = Idle
    /\ earlier = [products |-> products, aggregated |-> aggregated]
    /\ commits = 0

Committed == commits < MaxCommits /\ commits' = commits + 1

\* created_at is when the transaction began and aggregated_at when its UPDATE was made:
\* a commit of today may carry a time stamp of yesterday.
StampCommit ==
    \/ UNCHANGED earlier
    \/ earlier' = [products   |-> earlier.products \cup (products' \ products),
                   aggregated |-> earlier.aggregated \cup (aggregated' \ aggregated)]

\* MUTANT: an inner join has no row for a batch without products.
JoinedInner(B) == {<<BatchOf[p], p>> : p \in {q \in products : BatchOf[q] \in B}}

\* batches LEFT OUTER JOIN products, for the batches B.
Joined(B) ==
    LET stocked == {BatchOf[p] : p \in products} IN
    {<<BatchOf[p], p>> : p \in {q \in products : BatchOf[q] \in B}}
        \cup {<<b, NoProduct>> : b \in B \ stocked}

\* COUNT(DISTINCT batches.id), COUNT(products.id), and how many of those are aggregated.
FiguresOf(rows) ==
    LET counted == {row[2] : row \in rows} \ {NoProduct} IN
    [batches |-> {row[1] : row \in rows}, products |-> counted,
     aggregated |-> counted \cap aggregated]

-----------------------------------------------------------------------------
StartDashboard ==
    /\ dash.pc = "idle"
    /\ dash' = [dash EXCEPT !.pc = "summary", !.since = commits]

\* COUNT(batches.id) is without DISTINCT: total_batches counts rows of the join, and so
\* does active_batches.
SelectSummary ==
    /\ dash.pc = "summary"
    /\ LET rows == Joined(batches) IN
         dash' = [dash EXCEPT !.pc = "batches_created",
                              !.rows = rows,
                              !.active = {row \in rows : row[1] \notin closed},
                              !.counted = FiguresOf(rows).products,
                              !.done = FiguresOf(rows).aggregated]

SelectBatchesCreated ==
    /\ dash.pc = "batches_created"
    /\ dash' = [dash EXCEPT !.pc = "batches_closed", !.dated = batches \cap DatedToday]

\* Of the batches of today: when they were closed is not asked.
SelectBatchesClosed ==
    /\ dash.pc = "batches_closed"
    /\ dash' = [dash EXCEPT !.pc = "products_added",
                            !.datedClosed = closed \cap DatedToday]

SelectProductsAdded ==
    /\ dash.pc = "products_added"
    /\ dash' = [dash EXCEPT !.pc = "products_aggregated",
                            !.added = products \ earlier.products]

SelectProductsAggregated ==
    /\ dash.pc = "products_aggregated"
    /\ dash' = [dash EXCEPT !.pc = "shifts",
                            !.finished = aggregated \ earlier.aggregated]

\* MUTANT: products of closed batches are left out.
SelectShiftsOpenOnly ==
    /\ dash.pc = "shifts"
    /\ dash' = [dash EXCEPT !.pc = "centers",
          !.shifts = [s \in Shifts |->
              FiguresOf(Joined({b \in batches \ closed : ShiftOf[b] = s}))]]

SelectShifts ==
    /\ dash.pc = "shifts"
    /\ dash' = [dash EXCEPT !.pc = "centers",
          !.shifts = [s \in Shifts |->
              FiguresOf(Joined({b \in batches : ShiftOf[b] = s}))]]

Size(c) == Cardinality({b \in batches : CenterOf[b] = c})

\* The centers with most batches; which of equals are listed is not determined.
Listed(T) ==
    LET all == {CenterOf[b] : b \in batches} IN
    /\ T \subseteq all
    /\ Cardinality(T) = IF Cardinality(all) < Limit THEN Cardinality(all) ELSE Limit
    /\ \A c \in T, d \in all \ T : Size(c) >= Size(d)

SelectCenters ==
    /\ dash.pc = "centers"
    /\ \E T \in SUBSET Centers :
         /\ Listed(T)
         /\ dash' = [dash EXCEPT !.pc = "done",
               !.centers = [c \in T |->
                   FiguresOf(Joined({b \in batches : CenterOf[b] = c}))]]

DashboardEnds ==
    /\ dash.pc = "done"
    /\ dash' = Idle

DashboardStep ==
    \/ StartDashboard
    \/ SelectSummary
    \/ SelectBatchesCreated \/ SelectBatchesClosed
    \/ SelectProductsAdded \/ SelectProductsAggregated
    \/ SelectShifts
    \/ SelectCenters
    \/ DashboardEnds

DashboardNext ==
    \/ StoreNext /\ Committed /\ StampCommit /\ UNCHANGED dash
    \/ DashboardStep /\ UNCHANGED <<store, earlier, commits>>

DashboardSpec == DashboardInit /\ [][DashboardNext]_dashboardVars

-----------------------------------------------------------------------------
(* Properties *)

ByShift(column) == UNION {dash.shifts[s][column] : s \in Shifts}

ByCenter(column) == UNION {dash.centers[c][column] : c \in DOMAIN dash.centers}

DashboardTypeOK ==
    /\ StoreTypeOK
    /\ dash.pc \in {"idle", "summary", "batches_created", "batches_closed", "products_added",
                   "products_aggregated", "shifts", "centers", "done"}
    /\ commits \in 0..MaxCommits /\ dash.since \in 0..commits
    /\ earlier.products \subseteq products /\ earlier.aggregated \subseteq aggregated
    /\ dash.rows \subseteq Batches \X (Products \cup {NoProduct})
    /\ dash.active \subseteq dash.rows
    /\ dash.dated \cup dash.datedClosed \subseteq DatedToday
    /\ Cardinality(DOMAIN dash.centers) <= Limit

\* The parts of a dashboard are read at different moments and need not agree, but they
\* differ in one direction: what the summary counted is from before today or counted
\* as added today, and both that and the summary are part of what the shifts count;
\* what the shifts count is part of what all the work centers count.  (Of batches this is
\* said for today's: the summary counts rows.)
LaterStatementsSeeMore ==
    dash.pc \in {"centers", "done"} =>
        /\ dash.counted \subseteq earlier.products \cup dash.added
        /\ dash.counted \cup dash.added \subseteq ByShift("products")
        /\ dash.done \subseteq earlier.aggregated \cup dash.finished
        /\ dash.done \cup dash.finished \subseteq ByShift("aggregated")
        /\ dash.dated \cup dash.datedClosed \subseteq ByShift("batches")
        /\ dash.pc = "done" /\ Cardinality(DOMAIN dash.centers) < Limit =>
              /\ ByShift("batches") \subseteq ByCenter("batches")
              /\ ByShift("products") \subseteq ByCenter("products")
              /\ ByShift("aggregated") \subseteq ByCenter("aggregated")

Quiet == dash.pc = "done" /\ dash.since = commits

\* If nothing is committed while a dashboard is read, the summary, the shifts and the work
\* centers, which join and group the tables in different ways, count the same products,
\* and the shifts and the work centers the same batches, those without products included.
\* Of batches the summary leaves none out, but counts one with several products several
\* times.
QuietDashboardAgrees ==
    Quiet =>
        /\ dash.counted = products /\ ByShift("products") = products
        /\ dash.done = aggregated /\ ByShift("aggregated") = aggregated
        /\ ByShift("batches") = batches
        /\ dash.datedClosed = dash.dated \cap closed
        /\ Cardinality(DOMAIN dash.centers) < Limit =>
              ByCenter("batches") = batches /\ ByCenter("products") = products
        /\ Cardinality(dash.rows) >= Cardinality(batches)
        /\ Cardinality(dash.active) >= Cardinality(batches \ closed)

=============================================================================
