---------------------------- MODULE QueriesProofs ----------------------------
(***************************************************************************)
(* What a dashboard that is read with several SELECTs and a walk through   *)
(* the pages of a list still guarantee, for any number of batches,         *)
(* products, shifts and work centers and any transactions between the      *)
(* SELECTs.                                                                *)
(*                                                                         *)
(* The tables only grow (is_closed apart), so what one statement has       *)
(* counted is there for the next. Each query of the dashboard, however it  *)
(* joins and groups, counts every product once, and every batch once or,   *)
(* in the summary, at least once: the lemmas on Joined and FiguresOf. A    *)
(* batch that a walk has still to reach has enough newer ones before it to *)
(* fill all pages so far.                                                  *)
(***************************************************************************)
EXTENDS Dashboard, Listing, FiniteSetTheorems, TLAPS

-----------------------------------------------------------------------------
(* The joins *)

Of(S, B) == {p \in S : BatchOf[p] \in B}

LEMMA JoinedRows ==
    ASSUME NEW B, StoreTypeOK
    PROVE  /\ Joined(B) \subseteq B \X (Products \cup {NoProduct})
           /\ \A b \in B : \E row \in Joined(B) : row[1] = b
           /\ \A p \in Of(products, B) : <<BatchOf[p], p>> \in Joined(B)
           /\ \A row \in Joined(B) : row[2] # NoProduct => row[2] \in Of(products, B)
<1> DEFINE stocked == {BatchOf[p] : p \in products}
           inner == {<<BatchOf[p], p>> : p \in {q \in products : BatchOf[q] \in B}}
           outer == {<<b, NoProduct>> : b \in B \ stocked}
<1>1. Joined(B) = inner \cup outer
  BY DEF Joined
<1>2. products \subseteq Products
  BY DEF StoreTypeOK
<1>3. \A row \in inner : \E p \in Of(products, B) : row = <<BatchOf[p], p>>
  BY DEF Of
<1>4. \A row \in outer : \E b \in B : row = <<b, NoProduct>>
  OBVIOUS
<1>5. Joined(B) \subseteq B \X (Products \cup {NoProduct})
  BY <1>1, <1>2, <1>3, <1>4 DEF Of
<1>6. \A p \in Of(products, B) : <<BatchOf[p], p>> \in inner
  BY DEF Of
<1>7. ASSUME NEW b \in B PROVE \E row \in Joined(B) : row[1] = b
  <2>1. CASE b \in stocked
    <3>1. PICK p \in products : BatchOf[p] = b
      BY <2>1
    <3>2. <<b, p>> \in inner /\ <<b, p>>[1] = b
      BY <1>6, <3>1 DEF Of
    <3> QED
      BY <1>1, <3>2
  <2>2. CASE b \notin stocked
    <3>1. <<b, NoProduct>> \in outer /\ <<b, NoProduct>>[1] = b
      BY <2>2
    <3> QED
      BY <1>1, <3>1
  <2> QED
    BY <2>1, <2>2
<1>8. ASSUME NEW row \in Joined(B), row[2] # NoProduct PROVE row[2] \in Of(products, B)
  BY <1>1, <1>3, <1>4, <1>8
<1> QED
  BY <1>1, <1>5, <1>6, <1>7, <1>8

\* Every batch of the query is counted once and so is every product.
LEMMA FiguresOfJoined ==
    ASSUME NEW B, StoreTypeOK
    PROVE  FiguresOf(Joined(B)) =
              [batches |-> B, products |-> Of(products, B), aggregated |-> Of(aggregated, B)]
<1> DEFINE counted == {row[2] : row \in Joined(B)} \ {NoProduct}
<1>1. products \subseteq Products /\ aggregated \subseteq products
  BY DEF StoreTypeOK
<1>2. {row[1] : row \in Joined(B)} = B
  <2>1. \A row \in Joined(B) : row[1] \in B
    BY JoinedRows
  <2> QED
    BY <2>1, JoinedRows
<1>3. counted = Of(products, B)
  <2>1. ASSUME NEW p \in Of(products, B) PROVE p \in counted
    <3>1. <<BatchOf[p], p>> \in Joined(B) /\ <<BatchOf[p], p>>[2] = p
      BY JoinedRows
    <3>2. p # NoProduct
      BY <1>1, NoProductAssumption DEF Of
    <3> QED
      BY <3>1, <3>2
  <2>2. ASSUME NEW p \in counted PROVE p \in Of(products, B)
    BY JoinedRows
  <2> QED
    BY <2>1, <2>2
<1>4. counted \cap aggregated = Of(aggregated, B)
  BY <1>1, <1>3 DEF Of
<1> QED
  BY <1>2, <1>3, <1>4 DEF FiguresOf

-----------------------------------------------------------------------------
(* The tables *)

LEMMA StoreInitType == StoreInit => StoreTypeOK
  BY TimesAssumption DEF StoreInit, StoreTypeOK

LEMMA StoreStep ==
    ASSUME StoreTypeOK, StoreNext
    PROVE  /\ StoreTypeOK'
           /\ batches \subseteq batches' /\ products \subseteq products'
           /\ aggregated \subseteq aggregated'
           /\ \A b \in batches : created'[b] = created[b]
<1> DEFINE Goal == /\ StoreTypeOK'
                   /\ batches \subseteq batches' /\ products \subseteq products'
                   /\ aggregated \subseteq aggregated'
                   /\ \A b \in batches : created'[b] = created[b]
<1>1. ASSUME NEW S \in SUBSET Batches, CreateBatches(S) PROVE Goal
  <2>1. PICK t \in Times :
          created' = [b \in batches' |-> IF b \in S THEN t ELSE created[b]]
    BY <1>1 DEF CreateBatches
  <2>2. batches' = batches \cup S /\ UNCHANGED <<products, aggregated>>
    BY <1>1 DEF CreateBatches
  <2>3. created' \in [batches' -> Times]
    BY <2>1, <2>2 DEF StoreTypeOK
  <2>4. closed' \subseteq batches'
    BY <1>1, <2>2 DEF CreateBatches, StoreTypeOK
  <2>5. \A b \in batches : created'[b] = created[b]
    BY <1>1, <2>1, <2>2 DEF CreateBatches
  <2> QED
    BY <1>1, <2>2, <2>3, <2>4, <2>5 DEF CreateBatches, StoreTypeOK
<1>2. ASSUME NEW S \in SUBSET Batches, CloseBatches(S) PROVE Goal
  BY <1>2 DEF CloseBatches, StoreTypeOK
<1>3. ASSUME NEW b \in Batches, ReopenBatch(b) PROVE Goal
  BY <1>3 DEF ReopenBatch, StoreTypeOK
<1>4. ASSUME NEW p \in Products, CreateProduct(p) PROVE Goal
  BY <1>4 DEF CreateProduct, BatchExists, StoreTypeOK
<1>5. ASSUME NEW S \in SUBSET Products, AggregateProducts(S) PROVE Goal
  BY <1>5 DEF AggregateProducts, StoreTypeOK
<1> QED
  BY <1>1, <1>2, <1>3, <1>4, <1>5 DEF StoreNext

-----------------------------------------------------------------------------
(* The dashboard *)

Pcs == {"idle", "summary", "batches_created", "batches_closed", "products_added",
        "products_aggregated", "shifts", "centers", "done"}

Figures == [batches : SUBSET Batches, products : SUBSET Products, aggregated : SUBSET Products]

JoinRows == Batches \X (Products \cup {NoProduct})

DashType == [pc : Pcs, since : Nat, rows : SUBSET JoinRows, active : SUBSET JoinRows,
             counted : SUBSET Products, done : SUBSET Products,
             dated : SUBSET Batches, datedClosed : SUBSET Batches,
             added : SUBSET Products, finished : SUBSET Products,
             shifts : [Shifts -> Figures],
             centers : UNION {[T -> Figures] : T \in SUBSET Centers}]

\* What has been counted is in the tables.
CountedExists ==
    /\ earlier.products \subseteq products /\ earlier.aggregated \subseteq aggregated
    /\ dash.dated \cup dash.datedClosed \subseteq batches
    /\ dash.counted \cup dash.added \subseteq products
    /\ dash.done \cup dash.finished \subseteq aggregated
    /\ ByShift("batches") \subseteq batches
    /\ ByShift("products") \subseteq products
    /\ ByShift("aggregated") \subseteq aggregated

\* What was added after the summary is added today.
AddedCovers ==
    /\ dash.pc \in {"products_aggregated", "shifts", "centers", "done"} =>
          dash.counted \subseteq earlier.products \cup dash.added
    /\ dash.pc \in {"shifts", "centers", "done"} =>
          dash.done \subseteq earlier.aggregated \cup dash.finished

\* What a statement has counted, the shifts count and then the centers.
ShiftsCover ==
    dash.pc \in {"centers", "done"} =>
        /\ dash.counted \cup dash.added \subseteq ByShift("products")
        /\ dash.done \cup dash.finished \subseteq ByShift("aggregated")
        /\ dash.dated \cup dash.datedClosed \subseteq ByShift("batches")

CentersCover ==
    dash.pc = "done" /\ Cardinality(DOMAIN dash.centers) < Limit =>
        /\ ByShift("batches") \subseteq ByCenter("batches")
        /\ ByShift("products") \subseteq ByCenter("products")
        /\ ByShift("aggregated") \subseteq ByCenter("aggregated")

\* With nothing committed since it began, what has been read so far is what there is.
QuietSoFar ==
    dash.since = commits =>
        /\ dash.pc \notin {"idle", "summary"} =>
              /\ Cardinality(dash.rows) >= Cardinality(batches)
              /\ Cardinality(dash.active) >= Cardinality(batches \ closed)
              /\ dash.counted = products /\ dash.done = aggregated
        /\ dash.pc \notin {"idle", "summary", "batches_created"} =>
              dash.dated = batches \cap DatedToday
        /\ dash.pc \notin {"idle", "summary", "batches_created", "batches_closed"} =>
              dash.datedClosed = closed \cap DatedToday
        /\ dash.pc \in {"centers", "done"} =>
              /\ ByShift("batches") = batches /\ ByShift("products") = products
              /\ ByShift("aggregated") = aggregated
        /\ dash.pc = "done" /\ Cardinality(DOMAIN dash.centers) < Limit =>
              ByCenter("batches") = batches /\ ByCenter("products") = products

EarlierType == earlier \in [products : SUBSET Products, aggregated : SUBSET Products]

DashIInv == /\ StoreTypeOK /\ commits \in 0..MaxCommits
            /\ dash \in DashType /\ dash.since <= commits /\ EarlierType
            /\ CountedExists /\ AddedCovers /\ ShiftsCover /\ CentersCover
            /\ QuietSoFar

LEMMA IdleType == Idle \in DashType
<1>1. NoFigures \in Figures
  BY DEF NoFigures, Figures
<1>2. [s \in Shifts |-> NoFigures] \in [Shifts -> Figures]
  BY <1>1
<1>3. [c \in {} |-> NoFigures] \in UNION {[T -> Figures] : T \in SUBSET Centers}
  <2>1. [c \in {} |-> NoFigures] \in [{} -> Figures]
    OBVIOUS
  <2>2. {} \in SUBSET Centers
    OBVIOUS
  <2> QED
    BY <2>1, <2>2
<1> QED
  BY <1>2, <1>3 DEF Idle, DashType, Pcs

LEMMA IdleFacts ==
    ASSUME dash = Idle
    PROVE  /\ dash.counted = {} /\ dash.done = {} /\ dash.dated = {}
           /\ dash.datedClosed = {} /\ dash.added = {} /\ dash.finished = {}
           /\ dash.pc = "idle" /\ dash.since = 0
           /\ ByShift("batches") = {} /\ ByShift("products") = {}
           /\ ByShift("aggregated") = {}
<1>1. \A s \in Shifts : dash.shifts[s] = NoFigures
  BY DEF Idle
<1>2. /\ ByShift("batches") = {} /\ ByShift("products") = {} /\ ByShift("aggregated") = {}
  BY <1>1 DEF ByShift, NoFigures
<1> QED
  BY <1>2 DEF Idle

LEMMA DashInitInv == DashboardInit => DashIInv
<1> SUFFICES ASSUME DashboardInit PROVE DashIInv
  OBVIOUS
<1>1. StoreTypeOK /\ commits = 0
  BY StoreInitType DEF DashboardInit
<1>2. dash = Idle
  BY DEF DashboardInit
<1>3. EarlierType /\ earlier.products = products /\ earlier.aggregated = aggregated
  BY <1>1 DEF DashboardInit, EarlierType, StoreTypeOK
<1>4. CountedExists /\ AddedCovers /\ ShiftsCover /\ CentersCover /\ QuietSoFar
  BY <1>2, <1>3, IdleFacts DEF CountedExists, AddedCovers, ShiftsCover, CentersCover,
     QuietSoFar
<1> QED
  BY <1>1, <1>2, <1>3, <1>4, IdleType, IdleFacts, LimitAssumption DEF DashIInv

-----------------------------------------------------------------------------
(* The statements *)

\* A transaction: what was counted stays.
LEMMA CommitInv ==
    ASSUME DashIInv, StoreNext, Committed, StampCommit, UNCHANGED dash
    PROVE  DashIInv'
<1>1. /\ StoreTypeOK'
      /\ batches \subseteq batches' /\ products \subseteq products'
      /\ aggregated \subseteq aggregated'
  BY StoreStep DEF DashIInv
<1>2. /\ dash.since \in Nat /\ dash.since <= commits /\ commits \in Nat
      /\ commits' = commits + 1 /\ commits' \in 0..MaxCommits
  BY LimitAssumption DEF DashIInv, DashType, Committed
<1>3. /\ EarlierType'
      /\ earlier.products \subseteq earlier'.products
      /\ earlier.aggregated \subseteq earlier'.aggregated
      /\ earlier'.products \subseteq products' /\ earlier'.aggregated \subseteq aggregated'
  <2>1. CASE UNCHANGED earlier
    BY <1>1, <2>1 DEF DashIInv, EarlierType, CountedExists
  <2>2. CASE earlier' = [products   |-> earlier.products \cup (products' \ products),
                         aggregated |-> earlier.aggregated \cup (aggregated' \ aggregated)]
    BY <1>1, <2>2 DEF DashIInv, EarlierType, CountedExists, StoreTypeOK
  <2> QED
    BY <2>1, <2>2 DEF StampCommit
<1>4. CountedExists'
  BY <1>1, <1>3 DEF DashIInv, CountedExists, ByShift
<1>5. AddedCovers'
  BY <1>3 DEF DashIInv, AddedCovers
<1>6. ShiftsCover' /\ CentersCover'
  BY DEF DashIInv, ShiftsCover, CentersCover, ByShift, ByCenter
<1>7. QuietSoFar'
  BY <1>1, <1>2 DEF DashIInv, QuietSoFar
<1> QED
  BY <1>1, <1>2, <1>3, <1>4, <1>5, <1>6, <1>7 DEF DashIInv

\* Nothing of the dashboard or the tables changes.
LEMMA ElsewhereInv ==
    ASSUME DashIInv, UNCHANGED dashboardVars
    PROVE  DashIInv'
  BY DEF DashIInv, dashboardVars, store, StoreTypeOK, EarlierType, CountedExists, AddedCovers,
     ShiftsCover, CentersCover, QuietSoFar, ByShift, ByCenter

LEMMA StartInv ==
    ASSUME DashIInv, StartDashboard, UNCHANGED <<store, earlier, commits>>
    PROVE  DashIInv'
<1> DEFINE d == [dash EXCEPT !.pc = "summary", !.since = commits]
<1>1. dash' = d
  BY DEF StartDashboard
<1>2. commits \in Nat
  BY DEF DashIInv
<1>3. d \in DashType
  BY <1>2 DEF DashIInv, DashType, Pcs
<1>4. /\ d.pc = "summary" /\ d.since = commits
      /\ d.rows = dash.rows /\ d.counted = dash.counted /\ d.done = dash.done
      /\ d.dated = dash.dated /\ d.datedClosed = dash.datedClosed
      /\ d.added = dash.added /\ d.finished = dash.finished /\ d.shifts = dash.shifts
  BY DEF DashIInv, DashType
<1> HIDE DEF d
<1>5. CountedExists'
  BY <1>1, <1>4 DEF DashIInv, store, CountedExists, ByShift
<1>6. AddedCovers' /\ ShiftsCover' /\ CentersCover' /\ QuietSoFar'
  BY <1>1, <1>4 DEF AddedCovers, ShiftsCover, CentersCover, QuietSoFar
<1> QED
  BY <1>1, <1>2, <1>3, <1>4, <1>5, <1>6 DEF DashIInv, store, StoreTypeOK, EarlierType

LEMMA EndsInv ==
    ASSUME DashIInv, DashboardEnds, UNCHANGED <<store, earlier, commits>>
    PROVE  DashIInv'
<1>1. dash' = Idle
  BY DEF DashboardEnds
<1>2. /\ dash'.counted = {} /\ dash'.done = {} /\ dash'.dated = {}
      /\ dash'.datedClosed = {} /\ dash'.added = {} /\ dash'.finished = {}
      /\ dash'.pc = "idle" /\ dash'.since = 0
      /\ ByShift("batches")' = {} /\ ByShift("products")' = {}
      /\ ByShift("aggregated")' = {}
  <2>1. \A s \in Shifts : dash'.shifts[s] = NoFigures
    BY <1>1 DEF Idle
  <2>2. /\ ByShift("batches")' = {} /\ ByShift("products")' = {} /\ ByShift("aggregated")' = {}
    BY <2>1 DEF ByShift, NoFigures
  <2> QED
    BY <1>1, <2>2 DEF Idle
<1>3. CountedExists' /\ AddedCovers' /\ ShiftsCover' /\ CentersCover' /\ QuietSoFar'
  BY <1>2 DEF DashIInv, store, CountedExists, AddedCovers, ShiftsCover, CentersCover,
     QuietSoFar
<1>4. commits' \in 0..MaxCommits /\ StoreTypeOK' /\ EarlierType'
  BY DEF DashIInv, store, StoreTypeOK, EarlierType
<1> QED
  BY <1>1, <1>2, <1>3, <1>4, IdleType DEF DashIInv

LEMMA StoreSame ==
    ASSUME DashIInv, UNCHANGED <<store, earlier, commits>>
    PROVE  /\ StoreTypeOK' /\ EarlierType' /\ commits' = commits /\ commits \in 0..MaxCommits
           /\ batches' = batches /\ products' = products /\ aggregated' = aggregated
           /\ closed' = closed /\ earlier' = earlier
  BY DEF DashIInv, store, StoreTypeOK, EarlierType

\* Rows that contain each of some batches are no fewer than these.
LEMMA RowsForBatches ==
    ASSUME StoreTypeOK, NEW R \in SUBSET JoinRows, NEW B \in SUBSET batches,
           \A b \in B : \E row \in R : row[1] = b
    PROVE  Cardinality(R) >= Cardinality(B)
<1> DEFINE pick == [b \in B |-> CHOOSE row \in R : row[1] = b]
<1>1. IsFiniteSet(JoinRows)
  <2>1. IsFiniteSet(Products \cup {NoProduct})
    BY ProductsAssumption, FS_AddElement
  <2> QED
    BY <2>1, BatchesAssumption, FS_Product DEF JoinRows
<1>2. IsFiniteSet(R)
  BY <1>1, FS_Subset
<1>3. pick \in Injection(B, R)
  <2>1. \A b \in B : pick[b] \in R /\ pick[b][1] = b
    OBVIOUS
  <2> HIDE DEF pick
  <2>2. \A a, b \in B : pick[a] = pick[b] => a = b
    BY <2>1
  <2>3. pick \in [B -> R]
    BY <2>1 DEF pick
  <2> QED
    BY <2>2, <2>3 DEF Injection, IsInjective
<1> QED
  BY <1>2, <1>3, FS_Injection DEF ExistsInjection

LEMMA SummaryInv ==
    ASSUME DashIInv, SelectSummary, UNCHANGED <<store, earlier, commits>>
    PROVE  DashIInv'
<1> DEFINE all == Joined(batches)
           open == {row \in all : row[1] \notin closed}
           d == [dash EXCEPT !.pc = "batches_created", !.rows = all, !.active = open,
                             !.counted = FiguresOf(all).products,
                             !.done = FiguresOf(all).aggregated]
<1>0. StoreTypeOK
  BY DEF DashIInv
<1>1. dash' = d /\ dash.pc = "summary"
  BY DEF SelectSummary
<1>2. /\ all \subseteq batches \X (Products \cup {NoProduct})
      /\ \A b \in batches : \E row \in all : row[1] = b
  BY <1>0, JoinedRows
<1>3. FiguresOf(all).products = products /\ FiguresOf(all).aggregated = aggregated
  <2>1. Of(products, batches) = products /\ Of(aggregated, batches) = aggregated
    BY <1>0 DEF Of, StoreTypeOK
  <2> QED
    BY <1>0, <2>1, FiguresOfJoined
<1>4. all \in SUBSET JoinRows /\ open \in SUBSET JoinRows
  BY <1>0, <1>2 DEF JoinRows, StoreTypeOK
<1>5. /\ Cardinality(all) >= Cardinality(batches)
      /\ Cardinality(open) >= Cardinality(batches \ closed)
  BY <1>0, <1>2, <1>4, RowsForBatches
<1> HIDE DEF all, open
<1>6. products \in SUBSET Products /\ aggregated \in SUBSET Products
  BY <1>0 DEF StoreTypeOK
<1>7. d \in DashType
  BY <1>3, <1>4, <1>6 DEF DashIInv, DashType, Pcs
<1>8. /\ d.pc = "batches_created" /\ d.since = dash.since
      /\ d.rows = all /\ d.active = open /\ d.counted = products /\ d.done = aggregated
      /\ d.dated = dash.dated /\ d.datedClosed = dash.datedClosed
      /\ d.added = dash.added /\ d.finished = dash.finished /\ d.shifts = dash.shifts
  BY <1>3 DEF DashIInv, DashType
<1> HIDE DEF d
<1>9. CountedExists'
  BY <1>1, <1>5, <1>8, StoreSame DEF DashIInv, CountedExists, ByShift
<1>10. AddedCovers' /\ ShiftsCover' /\ CentersCover'
  BY <1>1, <1>8 DEF AddedCovers, ShiftsCover, CentersCover
<1>11. QuietSoFar'
  BY <1>1, <1>5, <1>8, StoreSame DEF QuietSoFar
<1> QED
  BY <1>1, <1>7, <1>8, <1>9, <1>10, <1>11, StoreSame DEF DashIInv

LEMMA BatchesCreatedInv ==
    ASSUME DashIInv, SelectBatchesCreated, UNCHANGED <<store, earlier, commits>>
    PROVE  DashIInv'
<1> DEFINE d == [dash EXCEPT !.pc = "batches_closed", !.dated = batches \cap DatedToday]
<1>0. StoreTypeOK
  BY DEF DashIInv
<1>1. dash' = d /\ dash.pc = "batches_created"
  BY DEF SelectBatchesCreated
<1>2. (batches \cap DatedToday) \in SUBSET Batches
  BY <1>0 DEF StoreTypeOK
<1>3. d \in DashType
  BY <1>2 DEF DashIInv, DashType, Pcs
<1>4. /\ d.pc = "batches_closed" /\ d.since = dash.since /\ d.dated = (batches \cap DatedToday)
      /\ d.rows = dash.rows /\ d.active = dash.active /\ d.counted = dash.counted /\ d.done = dash.done
      /\ d.datedClosed = dash.datedClosed /\ d.added = dash.added /\ d.finished = dash.finished /\ d.shifts = dash.shifts
  BY DEF DashIInv, DashType
<1> HIDE DEF d
<1>5. CountedExists'
  BY <1>0, <1>1, <1>4, StoreSame DEF DashIInv, CountedExists, ByShift, StoreTypeOK
<1>6. AddedCovers'
  BY <1>0, <1>1, <1>4, StoreSame DEF DashIInv, CountedExists, AddedCovers
<1>7. ShiftsCover' /\ CentersCover'
  BY <1>1, <1>4 DEF ShiftsCover, CentersCover
<1>8. QuietSoFar'
  BY <1>1, <1>4, StoreSame DEF DashIInv, QuietSoFar
<1> QED
  BY <1>1, <1>3, <1>4, <1>5, <1>6, <1>7, <1>8, StoreSame DEF DashIInv

LEMMA BatchesClosedInv ==
    ASSUME DashIInv, SelectBatchesClosed, UNCHANGED <<store, earlier, commits>>
    PROVE  DashIInv'
<1> DEFINE d == [dash EXCEPT !.pc = "products_added", !.datedClosed = closed \cap DatedToday]
<1>0. StoreTypeOK
  BY DEF DashIInv
<1>1. dash' = d /\ dash.pc = "batches_closed"
  BY DEF SelectBatchesClosed
<1>2. (closed \cap DatedToday) \in SUBSET Batches
  BY <1>0 DEF StoreTypeOK
<1>3. d \in DashType
  BY <1>2 DEF DashIInv, DashType, Pcs
<1>4. /\ d.pc = "products_added" /\ d.since = dash.since /\ d.datedClosed = (closed \cap DatedToday)
      /\ d.rows = dash.rows /\ d.active = dash.active /\ d.counted = dash.counted /\ d.done = dash.done
      /\ d.dated = dash.dated /\ d.added = dash.added /\ d.finished = dash.finished /\ d.shifts = dash.shifts
  BY DEF DashIInv, DashType
<1> HIDE DEF d
<1>5. CountedExists'
  BY <1>0, <1>1, <1>4, StoreSame DEF DashIInv, CountedExists, ByShift, StoreTypeOK
<1>6. AddedCovers'
  BY <1>0, <1>1, <1>4, StoreSame DEF DashIInv, CountedExists, AddedCovers
<1>7. ShiftsCover' /\ CentersCover'
  BY <1>1, <1>4 DEF ShiftsCover, CentersCover
<1>8. QuietSoFar'
  BY <1>1, <1>4, StoreSame DEF DashIInv, QuietSoFar
<1> QED
  BY <1>1, <1>3, <1>4, <1>5, <1>6, <1>7, <1>8, StoreSame DEF DashIInv

LEMMA ProductsAddedInv ==
    ASSUME DashIInv, SelectProductsAdded, UNCHANGED <<store, earlier, commits>>
    PROVE  DashIInv'
<1> DEFINE d == [dash EXCEPT !.pc = "products_aggregated", !.added = products \ earlier.products]
<1>0. StoreTypeOK
  BY DEF DashIInv
<1>1. dash' = d /\ dash.pc = "products_added"
  BY DEF SelectProductsAdded
<1>2. (products \ earlier.products) \in SUBSET Products
  BY <1>0 DEF StoreTypeOK
<1>3. d \in DashType
  BY <1>2 DEF DashIInv, DashType, Pcs
<1>4. /\ d.pc = "products_aggregated" /\ d.since = dash.since /\ d.added = (products \ earlier.products)
      /\ d.rows = dash.rows /\ d.active = dash.active /\ d.counted = dash.counted /\ d.done = dash.done
      /\ d.dated = dash.dated /\ d.datedClosed = dash.datedClosed /\ d.finished = dash.finished /\ d.shifts = dash.shifts
  BY DEF DashIInv, DashType
<1> HIDE DEF d
<1>5. CountedExists'
  BY <1>0, <1>1, <1>4, StoreSame DEF DashIInv, CountedExists, ByShift, StoreTypeOK
<1>6. AddedCovers'
  BY <1>0, <1>1, <1>4, StoreSame DEF DashIInv, CountedExists, AddedCovers
<1>7. ShiftsCover' /\ CentersCover'
  BY <1>1, <1>4 DEF ShiftsCover, CentersCover
<1>8. QuietSoFar'
  BY <1>1, <1>4, StoreSame DEF DashIInv, QuietSoFar
<1> QED
  BY <1>1, <1>3, <1>4, <1>5, <1>6, <1>7, <1>8, StoreSame DEF DashIInv

LEMMA ProductsAggregatedInv ==
    ASSUME DashIInv, SelectProductsAggregated, UNCHANGED <<store, earlier, commits>>
    PROVE  DashIInv'
<1> DEFINE d == [dash EXCEPT !.pc = "shifts", !.finished = aggregated \ earlier.aggregated]
<1>0. StoreTypeOK
  BY DEF DashIInv
<1>1. dash' = d /\ dash.pc = "products_aggregated"
  BY DEF SelectProductsAggregated
<1>2. (aggregated \ earlier.aggregated) \in SUBSET Products
  BY <1>0 DEF StoreTypeOK
<1>3. d \in DashType
  BY <1>2 DEF DashIInv, DashType, Pcs
<1>4. /\ d.pc = "shifts" /\ d.since = dash.since /\ d.finished = (aggregated \ earlier.aggregated)
      /\ d.rows = dash.rows /\ d.active = dash.active /\ d.counted = dash.counted /\ d.done = dash.done
      /\ d.dated = dash.dated /\ d.datedClosed = dash.datedClosed /\ d.added = dash.added /\ d.shifts = dash.shifts
  BY DEF DashIInv, DashType
<1> HIDE DEF d
<1>5. CountedExists'
  BY <1>0, <1>1, <1>4, StoreSame DEF DashIInv, CountedExists, ByShift, StoreTypeOK
<1>6. AddedCovers'
  BY <1>0, <1>1, <1>4, StoreSame DEF DashIInv, CountedExists, AddedCovers
<1>7. ShiftsCover' /\ CentersCover'
  BY <1>1, <1>4 DEF ShiftsCover, CentersCover
<1>8. QuietSoFar'
  BY <1>1, <1>4, StoreSame DEF DashIInv, QuietSoFar
<1> QED
  BY <1>1, <1>3, <1>4, <1>5, <1>6, <1>7, <1>8, StoreSame DEF DashIInv

\* The figures of the batches B.
FiguresFor(B) ==
    [batches |-> B, products |-> Of(products, B), aggregated |-> Of(aggregated, B)]

LEMMA FiguresForType ==
    ASSUME StoreTypeOK, NEW B \in SUBSET batches
    PROVE  FiguresFor(B) \in Figures
  BY DEF StoreTypeOK, FiguresFor, Figures, Of

\* Every batch is of one of the groups x, so the groups together count everything.
LEMMA GroupsCountAll ==
    ASSUME StoreTypeOK, NEW Groups, NEW InGroup \in [Groups -> SUBSET batches],
           \A b \in batches : \E x \in Groups : b \in InGroup[x]
    PROVE  /\ UNION {FiguresFor(InGroup[x]).batches : x \in Groups} = batches
           /\ UNION {FiguresFor(InGroup[x]).products : x \in Groups} = products
           /\ UNION {FiguresFor(InGroup[x]).aggregated : x \in Groups} = aggregated
<1>1. \A x \in Groups : /\ FiguresFor(InGroup[x]).batches = InGroup[x]
                        /\ FiguresFor(InGroup[x]).products = Of(products, InGroup[x])
                        /\ FiguresFor(InGroup[x]).aggregated = Of(aggregated, InGroup[x])
  BY DEF FiguresFor
<1>2. \A p \in products : BatchOf[p] \in batches
  BY DEF StoreTypeOK
<1>3. aggregated \subseteq products
  BY DEF StoreTypeOK
<1>4. UNION {FiguresFor(InGroup[x]).batches : x \in Groups} = batches
  BY <1>1
<1>5. UNION {FiguresFor(InGroup[x]).products : x \in Groups} = products
  <2>1. \A p \in products : \E x \in Groups : p \in Of(products, InGroup[x])
    BY <1>2 DEF Of
  <2>2. \A x \in Groups : Of(products, InGroup[x]) \subseteq products
    BY DEF Of
  <2> QED
    BY <1>1, <2>1, <2>2
<1>6. UNION {FiguresFor(InGroup[x]).aggregated : x \in Groups} = aggregated
  <2>1. \A p \in aggregated : \E x \in Groups : p \in Of(aggregated, InGroup[x])
    BY <1>2, <1>3 DEF Of
  <2>2. \A x \in Groups : Of(aggregated, InGroup[x]) \subseteq aggregated
    BY DEF Of
  <2> QED
    BY <1>1, <2>1, <2>2
<1> QED
  BY <1>4, <1>5, <1>6

LEMMA ShiftsInv ==
    ASSUME DashIInv, SelectShifts, UNCHANGED <<store, earlier, commits>>
    PROVE  DashIInv'
<1> DEFINE In == [s \in Shifts |-> {b \in batches : ShiftOf[b] = s}]
           sh == [s \in Shifts |-> FiguresFor(In[s])]
           d == [dash EXCEPT !.pc = "centers", !.shifts = sh]
<1>0. StoreTypeOK /\ batches \subseteq Batches
  BY DEF DashIInv, StoreTypeOK
<1>1. dash' = d /\ dash.pc = "shifts"
  <2>1. \A s \in Shifts :
          FiguresOf(Joined({b \in batches : ShiftOf[b] = s})) = FiguresFor(In[s])
    BY <1>0, FiguresOfJoined DEF FiguresFor
  <2> QED
    BY <2>1 DEF SelectShifts
<1>2. In \in [Shifts -> SUBSET batches]
  OBVIOUS
<1>3. \A b \in batches : \E s \in Shifts : b \in In[s]
  BY <1>0, ShiftsAssumption
<1>4. /\ UNION {FiguresFor(In[s]).batches : s \in Shifts} = batches
      /\ UNION {FiguresFor(In[s]).products : s \in Shifts} = products
      /\ UNION {FiguresFor(In[s]).aggregated : s \in Shifts} = aggregated
  <2> HIDE DEF In
  <2> QED
    BY <1>0, <1>2, <1>3, GroupsCountAll
<1>5. sh \in [Shifts -> Figures]
  BY <1>0, <1>2, FiguresForType
<1>6. /\ UNION {sh[s].batches : s \in Shifts} = batches
      /\ UNION {sh[s].products : s \in Shifts} = products
      /\ UNION {sh[s].aggregated : s \in Shifts} = aggregated
  BY <1>4
<1> HIDE DEF In, sh
<1>7. d \in DashType
  BY <1>5 DEF DashIInv, DashType, Pcs
<1>8. /\ d.pc = "centers" /\ d.since = dash.since /\ d.shifts = sh
      /\ d.rows = dash.rows /\ d.active = dash.active /\ d.counted = dash.counted
      /\ d.done = dash.done /\ d.dated = dash.dated /\ d.datedClosed = dash.datedClosed
      /\ d.added = dash.added /\ d.finished = dash.finished
  BY DEF DashIInv, DashType
<1> HIDE DEF d
<1>9. /\ ByShift("batches")' = batches /\ ByShift("products")' = products
      /\ ByShift("aggregated")' = aggregated
  BY <1>1, <1>6, <1>8 DEF ByShift
<1>10. CountedExists'
  BY <1>1, <1>8, <1>9, StoreSame DEF DashIInv, CountedExists
<1>11. AddedCovers'
  BY <1>1, <1>8, StoreSame DEF DashIInv, AddedCovers
<1>12. ShiftsCover' /\ CentersCover'
  BY <1>1, <1>8, <1>9 DEF DashIInv, CountedExists, ShiftsCover, CentersCover
<1>13. QuietSoFar'
  BY <1>1, <1>8, <1>9, StoreSame DEF DashIInv, QuietSoFar
<1> QED
  BY <1>1, <1>7, <1>8, <1>10, <1>11, <1>12, <1>13, StoreSame DEF DashIInv

\* A list of centers that is not full lists them all.
LEMMA ListedAll ==
    ASSUME StoreTypeOK, NEW T \in SUBSET Centers, Listed(T), Cardinality(T) < Limit
    PROVE  \A b \in batches : CenterOf[b] \in T
<1> DEFINE all == {CenterOf[b] : b \in batches}
<1>1. all \in SUBSET Centers
  BY CentersAssumption DEF StoreTypeOK
<1>2. IsFiniteSet(all)
  BY <1>1, CentersAssumption, FS_Subset
<1>3. T \in SUBSET all
  BY DEF Listed
<1>4. Cardinality(T) = IF Cardinality(all) < Limit THEN Cardinality(all) ELSE Limit
  BY DEF Listed
<1> HIDE DEF all
<1>5. Cardinality(all) = Cardinality(T)
  BY <1>4, LimitAssumption
<1>6. all = T
  BY <1>2, <1>3, <1>5, FS_Subset
<1> QED
  BY <1>6 DEF all

LEMMA CentersInv ==
    ASSUME DashIInv, SelectCenters, UNCHANGED <<store, earlier, commits>>
    PROVE  DashIInv'
<1>0. StoreTypeOK /\ batches \subseteq Batches
  BY DEF DashIInv, StoreTypeOK
<1>1. PICK T \in SUBSET Centers :
        /\ Listed(T)
        /\ dash' = [dash EXCEPT !.pc = "done",
              !.centers = [c \in T |-> FiguresOf(Joined({b \in batches : CenterOf[b] = c}))]]
  BY DEF SelectCenters
<1> DEFINE In == [c \in T |-> {b \in batches : CenterOf[b] = c}]
           ce == [c \in T |-> FiguresFor(In[c])]
           d == [dash EXCEPT !.pc = "done", !.centers = ce]
<1>2. dash' = d /\ dash.pc = "centers"
  <2>1. \A c \in T :
          FiguresOf(Joined({b \in batches : CenterOf[b] = c})) = FiguresFor(In[c])
    BY <1>0, FiguresOfJoined DEF FiguresFor
  <2> QED
    BY <1>1, <2>1 DEF SelectCenters
<1>3. In \in [T -> SUBSET batches]
  OBVIOUS
<1>4. ASSUME Cardinality(T) < Limit
      PROVE  /\ UNION {ce[c].batches : c \in T} = batches
             /\ UNION {ce[c].products : c \in T} = products
             /\ UNION {ce[c].aggregated : c \in T} = aggregated
  <2>1. \A b \in batches : \E c \in T : b \in In[c]
    BY <1>0, <1>1, <1>4, ListedAll
  <2>2. /\ UNION {FiguresFor(In[c]).batches : c \in T} = batches
        /\ UNION {FiguresFor(In[c]).products : c \in T} = products
        /\ UNION {FiguresFor(In[c]).aggregated : c \in T} = aggregated
    <3> HIDE DEF In
    <3> QED
      BY <1>0, <1>3, <2>1, GroupsCountAll
  <2> QED
    BY <2>2
<1>5. ce \in [T -> Figures] /\ DOMAIN ce = T
  BY <1>0, <1>3, FiguresForType
<1>6. ce \in UNION {[S -> Figures] : S \in SUBSET Centers}
  BY <1>5
<1> HIDE DEF In, ce
<1>7. d \in DashType
  BY <1>6 DEF DashIInv, DashType, Pcs
<1>8. /\ d.pc = "done" /\ d.since = dash.since /\ d.centers = ce /\ d.shifts = dash.shifts
      /\ d.rows = dash.rows /\ d.active = dash.active /\ d.counted = dash.counted
      /\ d.done = dash.done /\ d.dated = dash.dated /\ d.datedClosed = dash.datedClosed
      /\ d.added = dash.added /\ d.finished = dash.finished
  BY DEF DashIInv, DashType
<1> HIDE DEF d
<1>9. ASSUME Cardinality(DOMAIN dash'.centers) < Limit
      PROVE  /\ ByCenter("batches")' = batches /\ ByCenter("products")' = products
             /\ ByCenter("aggregated")' = aggregated
  BY <1>2, <1>4, <1>5, <1>8, <1>9 DEF ByCenter
<1>10. CountedExists'
  BY <1>2, <1>8, StoreSame DEF DashIInv, CountedExists, ByShift
<1>11. AddedCovers' /\ ShiftsCover'
  BY <1>2, <1>8, StoreSame DEF DashIInv, AddedCovers, ShiftsCover, ByShift
<1>12. CentersCover'
  BY <1>2, <1>8, <1>9 DEF DashIInv, CountedExists, CentersCover, ByShift
<1>13. QuietSoFar'
  BY <1>2, <1>8, <1>9, StoreSame DEF DashIInv, QuietSoFar, ByShift
<1> QED
  BY <1>2, <1>7, <1>8, <1>10, <1>11, <1>12, <1>13, StoreSame DEF DashIInv

-----------------------------------------------------------------------------
LEMMA DashNextInv == DashIInv /\ [DashboardNext]_dashboardVars => DashIInv'
<1> SUFFICES ASSUME DashIInv, [DashboardNext]_dashboardVars PROVE DashIInv'
  OBVIOUS
<1>1. CASE StoreNext /\ Committed /\ StampCommit /\ UNCHANGED dash
  BY <1>1, CommitInv
<1>2. CASE DashboardStep /\ UNCHANGED <<store, earlier, commits>>
  BY <1>2, StartInv, SummaryInv, BatchesCreatedInv, BatchesClosedInv, ProductsAddedInv,
     ProductsAggregatedInv, ShiftsInv, CentersInv, EndsInv DEF DashboardStep
<1>3. CASE UNCHANGED dashboardVars
  BY <1>3, ElsewhereInv
<1> QED
  BY <1>1, <1>2, <1>3 DEF DashboardNext, dashboardVars

LEMMA AlwaysDashIInv == DashboardSpec => []DashIInv
  BY DashInitInv, DashNextInv, PTL DEF DashboardSpec

\* The parts of a dashboard differ in one direction only, whatever is committed between
\* its statements.
THEOREM DashboardPartsOrdered == DashboardSpec => []LaterStatementsSeeMore
<1>1. DashIInv => LaterStatementsSeeMore
  BY DEF DashIInv, AddedCovers, ShiftsCover, CentersCover, LaterStatementsSeeMore
<1> QED
  BY <1>1, AlwaysDashIInv, PTL

\* A dashboard that was not overtaken by a commit is consistent: all its queries count the
\* same products, and all that count batches one by one the same batches.  The rows of the
\* summary are at least as many.
THEOREM QuietDashboardConsistent == DashboardSpec => []QuietDashboardAgrees
<1>1. DashIInv => QuietDashboardAgrees
  <2> SUFFICES ASSUME DashIInv, Quiet PROVE QuietDashboardAgrees
    BY DEF QuietDashboardAgrees
  <2>1. dash.pc = "done" /\ dash.since = commits
    BY DEF Quiet
  <2>2. dash.datedClosed = dash.dated \cap closed
    BY <2>1 DEF DashIInv, QuietSoFar, StoreTypeOK
  <2>3. /\ Cardinality(dash.rows) >= Cardinality(batches)
        /\ Cardinality(dash.active) >= Cardinality(batches \ closed)
    BY <2>1 DEF DashIInv, QuietSoFar
  <2>4. /\ dash.counted = products /\ ByShift("products") = products
        /\ dash.done = aggregated /\ ByShift("aggregated") = aggregated
        /\ ByShift("batches") = batches
        /\ Cardinality(DOMAIN dash.centers) < Limit =>
              ByCenter("batches") = batches /\ ByCenter("products") = products
    BY <2>1 DEF DashIInv, QuietSoFar
  <2> QED
    BY <2>2, <2>3, <2>4 DEF QuietDashboardAgrees
<1> QED
  BY <1>1, AlwaysDashIInv, PTL

-----------------------------------------------------------------------------
(* The type of the dashboard *)

DashShape ==
    /\ dash.active \subseteq dash.rows
    /\ dash.dated \cup dash.datedClosed \subseteq DatedToday
    /\ Cardinality(DOMAIN dash.centers) <= Limit

LEMMA IdleShape == ASSUME dash = Idle PROVE DashShape
<1>1. DOMAIN dash.centers = {} /\ Cardinality({}) = 0
  BY FS_EmptySet DEF Idle
<1>2. Cardinality(DOMAIN dash.centers) <= Limit
  BY <1>1, LimitAssumption
<1> QED
  BY <1>2 DEF Idle, DashShape

LEMMA ListedShort ==
    ASSUME StoreTypeOK, NEW T \in SUBSET Centers, Listed(T) PROVE Cardinality(T) <= Limit
<1> DEFINE all == {CenterOf[b] : b \in batches}
<1>1. all \in SUBSET Centers
  BY CentersAssumption DEF StoreTypeOK
<1>2. Cardinality(T) = IF Cardinality(all) < Limit THEN Cardinality(all) ELSE Limit
  BY DEF Listed
<1> HIDE DEF all
<1>3. Cardinality(all) \in Nat
  BY <1>1, CentersAssumption, FS_Subset, FS_CardinalityType
<1> QED
  BY <1>2, <1>3, LimitAssumption

LEMMA DashShapeNext == ASSUME DashIInv, DashShape, [DashboardNext]_dashboardVars PROVE DashShape'
<1>1. CASE UNCHANGED dash
  BY <1>1 DEF DashShape
<1>2. CASE StartDashboard
  BY <1>2 DEF StartDashboard, DashShape, DashIInv, DashType
<1>3. CASE SelectSummary
  <2> DEFINE all == Joined(batches)
             open == {row \in all : row[1] \notin closed}
             counted == FiguresOf(all).products
             done == FiguresOf(all).aggregated
  <2>1. open \subseteq all
    OBVIOUS
  <2>2. dash' = [dash EXCEPT !.pc = "batches_created", !.rows = all, !.active = open,
                             !.counted = counted, !.done = done]
    BY <1>3 DEF SelectSummary
  <2> HIDE DEF all, open, counted, done
  <2>3. /\ dash'.rows = all /\ dash'.active = open /\ dash'.dated = dash.dated
        /\ dash'.datedClosed = dash.datedClosed /\ dash'.centers = dash.centers
    BY <2>2 DEF DashIInv, DashType
  <2> QED
    BY <2>1, <2>3 DEF DashShape
<1>4. CASE SelectBatchesCreated
  BY <1>4 DEF SelectBatchesCreated, DashShape, DashIInv, DashType
<1>5. CASE SelectBatchesClosed
  BY <1>5 DEF SelectBatchesClosed, DashShape, DashIInv, DashType
<1>6. CASE SelectProductsAdded
  BY <1>6 DEF SelectProductsAdded, DashShape, DashIInv, DashType
<1>7. CASE SelectProductsAggregated
  BY <1>7 DEF SelectProductsAggregated, DashShape, DashIInv, DashType
<1>8. CASE SelectShifts
  <2> DEFINE sh == [s \in Shifts |-> FiguresOf(Joined({b \in batches : ShiftOf[b] = s}))]
  <2>1. dash' = [dash EXCEPT !.pc = "centers", !.shifts = sh]
    BY <1>8 DEF SelectShifts
  <2> HIDE DEF sh
  <2> QED
    BY <2>1 DEF DashShape, DashIInv, DashType
<1>9. CASE SelectCenters
  <2>1. PICK T \in SUBSET Centers :
          /\ Listed(T)
          /\ dash' = [dash EXCEPT !.pc = "done",
                !.centers = [c \in T |-> FiguresOf(Joined({b \in batches : CenterOf[b] = c}))]]
    BY <1>9 DEF SelectCenters
  <2> DEFINE ce == [c \in T |-> FiguresOf(Joined({b \in batches : CenterOf[b] = c}))]
  <2>2. DOMAIN ce = T /\ Cardinality(T) <= Limit
    BY <2>1, ListedShort DEF DashIInv
  <2>3. dash' = [dash EXCEPT !.pc = "done", !.centers = ce]
    BY <2>1
  <2> HIDE DEF ce
  <2>4. /\ dash'.rows = dash.rows /\ dash'.active = dash.active /\ dash'.dated = dash.dated
        /\ dash'.datedClosed = dash.datedClosed /\ dash'.centers = ce
    BY <2>3 DEF DashIInv, DashType
  <2> QED
    BY <2>2, <2>4 DEF DashShape
<1>10. CASE DashboardEnds
  <2>1. (dash = Idle)'
    BY <1>10 DEF DashboardEnds
  <2>2. (dash = Idle)' => DashShape'
    BY IdleShape, PTL
  <2> QED
    BY <2>1, <2>2
<1> QED
  BY <1>1, <1>2, <1>3, <1>4, <1>5, <1>6, <1>7, <1>8, <1>9, <1>10
  DEF DashboardNext, DashboardStep, dashboardVars

\* The tables and the figures of a dashboard keep their types.
THEOREM DashboardTypeCorrect == DashboardSpec => []DashboardTypeOK
<1>1. DashIInv /\ DashShape => DashboardTypeOK
  BY DEF DashIInv, DashType, Pcs, JoinRows, CountedExists, DashShape, DashboardTypeOK
<1>2. DashboardInit => DashShape
  BY IdleShape DEF DashboardInit
<1>3. DashIInv /\ DashShape /\ [DashboardNext]_dashboardVars => DashShape'
  BY DashShapeNext
<1> QED
  BY <1>1, <1>2, <1>3, DashInitInv, DashNextInv, PTL DEF DashboardSpec

-----------------------------------------------------------------------------
(* The pages *)

WalkType == [pc : {"idle", "ask", "select", "answered"}, filter : Filters, offset : Nat,
             total : Nat, page : SUBSET Batches, seen : SUBSET Batches,
             at : Nat, inOrder : BOOLEAN, first : SUBSET Batches]

Versions == 1..Newest

\* The last version is what is in the tables, and no batch disappears.
VersionsGrow ==
    /\ versions \in Seq([batches : SUBSET Batches, closed : SUBSET Batches])
    /\ Newest \in 1..MaxVersions /\ versions[Newest] = Tables
    /\ \A m, n \in Versions : m <= n => versions[m].batches \subseteq versions[n].batches

\* The walk is among the batches there are.
WalkShape ==
    /\ walk.total <= Cardinality(batches)
    /\ walk.page \subseteq walk.seen
    /\ walk.seen \cup walk.first \subseteq batches
    /\ walk.at <= Newest

WalkIInv == /\ StoreTypeOK /\ VersionsGrow /\ walk \in WalkType /\ WalkShape
            /\ PageHoldsWhatTotalPromises

LEMMA FiniteBatches ==
    ASSUME NEW S, S \subseteq Batches PROVE IsFiniteSet(S) /\ Cardinality(S) \in Nat
  BY BatchesAssumption, FS_Subset, FS_CardinalityType

LEMMA VersionFacts ==
    ASSUME StoreTypeOK, VersionsGrow
    PROVE  /\ Newest \in Nat \ {0} /\ Newest \in Versions /\ DOMAIN versions = Versions
           /\ versions[Newest].batches = batches
           /\ \A v \in Versions : /\ versions[v].batches \subseteq batches
                                  /\ versions[v].batches \subseteq Batches
<1>1. Newest \in Nat \ {0} /\ Newest \in Versions /\ DOMAIN versions = Versions
  BY MaxVersionsAssumption DEF VersionsGrow, Versions, Newest
<1>2. versions[Newest].batches = batches
  BY DEF VersionsGrow, Tables
<1>3. \A v \in Versions : v <= Newest
  BY <1>1 DEF Versions
<1>4. \A v \in Versions : versions[v].batches \subseteq batches
  BY <1>1, <1>2, <1>3 DEF VersionsGrow
<1> QED
  BY <1>1, <1>2, <1>4 DEF StoreTypeOK

LEMMA MatchingFacts ==
    ASSUME StoreTypeOK, VersionsGrow, NEW v \in Versions, NEW filter
    PROVE  /\ Matching(v, {}) = versions[v].batches
           /\ Matching(v, filter) \subseteq batches
           /\ Cardinality(Matching(v, filter)) \in Nat
           /\ Cardinality(Matching(v, filter)) <= Cardinality(batches)
<1>1. Matching(v, {}) = versions[v].batches /\ Matching(v, filter) \subseteq batches
  BY VersionFacts DEF Matching
<1>2. batches \subseteq Batches
  BY DEF StoreTypeOK
<1> QED
  BY <1>1, <1>2, FiniteBatches, FS_Subset

\* A page that is not full is the end of the batches.
LEMMA ShortPage ==
    ASSUME NEW M, M \subseteq Batches, NEW P \in SUBSET M, NEW offset \in Nat,
           IsPage(P, M, offset), Cardinality(P) # PageSize
    PROVE  Cardinality(M) <= offset + Cardinality(P)
<1>1. PICK skipped \in SUBSET (M \ P) :
        /\ Cardinality(skipped) = IF RowsSkipped(offset) < Cardinality(M)
                                  THEN RowsSkipped(offset) ELSE Cardinality(M)
        /\ M \ P = skipped
  BY DEF IsPage
<1>2. /\ IsFiniteSet(M) /\ Cardinality(M) \in Nat
      /\ Cardinality(P) \in Nat /\ Cardinality(M \ P) \in Nat
  BY FiniteBatches
<1>3. Cardinality(M \ P) <= offset
  BY <1>1, <1>2 DEF RowsSkipped
<1>4. Cardinality(M \ P) = Cardinality(M) - Cardinality(M \cap P)
  BY <1>2, FS_Difference
<1>5. Cardinality(M \cap P) = Cardinality(P)
  <2>1. M \cap P = P
    OBVIOUS
  <2> QED
    BY <2>1
<1> QED
  BY <1>2, <1>3, <1>4, <1>5

LEMMA WalkInitInv == ListingInit => WalkIInv
<1> SUFFICES ASSUME ListingInit PROVE WalkIInv
  OBVIOUS
<1>1. StoreTypeOK /\ walk = AtRest /\ versions = <<Tables>>
  BY StoreInitType DEF ListingInit
<1>2. Tables \in [batches : SUBSET Batches, closed : SUBSET Batches]
  BY <1>1 DEF Tables, StoreTypeOK
<1>3. VersionsGrow
  <2> HIDE DEF Tables
  <2>1. Newest = 1 /\ versions[1] = Tables
    BY <1>1 DEF Newest
  <2> QED
    BY <1>1, <1>2, <2>1, MaxVersionsAssumption DEF VersionsGrow, Versions
<1>4. Cardinality(batches) \in Nat
  BY <1>1, FiniteBatches DEF StoreTypeOK
<1>5. WalkShape
  BY <1>1, <1>3, <1>4, VersionFacts DEF WalkShape, AtRest
<1> QED
  BY <1>1, <1>3, <1>5
  DEF WalkIInv, WalkType, PageHoldsWhatTotalPromises, AtRest, Filters

\* A commit adds a version that has all batches of the earlier ones.
LEMMA VersionsCommit ==
    ASSUME StoreTypeOK, VersionsGrow, Commit
    PROVE  /\ VersionsGrow' /\ Newest' = Newest + 1
           /\ \A v \in Versions : versions'[v] = versions[v]
<1> DEFINE T == [batches : SUBSET Batches, closed : SUBSET Batches]
<1>1. StoreTypeOK' /\ batches \subseteq batches'
  BY StoreStep DEF Commit
<1>2. Newest \in Nat \ {0} /\ Newest < MaxVersions /\ versions' = Append(versions, Tables')
  BY VersionFacts DEF Commit
<1>3. Tables' \in T /\ Tables'.batches = batches'
  BY <1>1 DEF Tables, StoreTypeOK
<1>4. /\ versions' \in Seq(T) /\ Len(versions') = Len(versions) + 1
      /\ versions'[Len(versions) + 1] = Tables'
      /\ \A v \in 1..Len(versions) : versions'[v] = versions[v]
  <2> HIDE DEF T
  <2>1. versions \in Seq(T)
    BY DEF VersionsGrow, T
  <2> QED
    BY <1>2, <1>3, <2>1
<1>5. Newest' = Newest + 1 /\ \A v \in Versions : versions'[v] = versions[v]
  BY <1>4 DEF Newest, Versions
<1>6. versions'[Newest'] = Tables'
  BY <1>4 DEF Newest
<1>7. Newest' \in 1..MaxVersions
  BY <1>2, <1>5, MaxVersionsAssumption
<1>8. ASSUME NEW m \in Versions', NEW n \in Versions', m <= n
      PROVE  versions'[m].batches \subseteq versions'[n].batches
  <2>1. m \in Versions \cup {Newest + 1} /\ n \in Versions \cup {Newest + 1}
    BY <1>2, <1>5 DEF Versions
  <2>2. CASE n \in Versions
    <3>1. m \in Versions
      BY <1>2, <1>8, <2>1, <2>2 DEF Versions
    <3> QED
      BY <1>5, <1>8, <2>2, <3>1 DEF VersionsGrow
  <2>3. CASE n = Newest + 1
    <3>1. versions'[n].batches = batches'
      BY <1>3, <1>5, <1>6, <2>3
    <3>2. CASE m \in Versions
      BY <1>1, <1>5, <3>1, <3>2, VersionFacts
    <3>3. CASE m = Newest + 1
      BY <2>3, <3>3
    <3> QED
      BY <2>1, <3>2, <3>3
  <2> QED
    BY <2>1, <2>2, <2>3
<1> QED
  BY <1>4, <1>5, <1>6, <1>7, <1>8 DEF VersionsGrow

LEMMA WalkCommitInv == ASSUME WalkIInv, Commit PROVE WalkIInv'
<1>1. StoreTypeOK' /\ batches \subseteq batches' /\ walk' = walk
  BY StoreStep DEF WalkIInv, Commit
<1>2. VersionsGrow' /\ Newest' = Newest + 1 /\ Newest \in Nat
  BY VersionsCommit, VersionFacts DEF WalkIInv
<1>3. /\ Cardinality(batches) \in Nat /\ Cardinality(batches') \in Nat
      /\ Cardinality(batches) <= Cardinality(batches')
  BY <1>1, FiniteBatches, FS_Subset DEF WalkIInv, StoreTypeOK
<1>4. walk.total \in Nat /\ walk.at \in Nat
  BY DEF WalkIInv, WalkType
<1>5. WalkShape'
  BY <1>1, <1>2, <1>3, <1>4 DEF WalkIInv, WalkShape
<1> QED
  BY <1>1, <1>2, <1>5 DEF WalkIInv, PageHoldsWhatTotalPromises

\* What an answer does to the walk.
LEMMA AnswerFacts ==
    ASSUME walk \in WalkType, NEW total \in Nat, NEW v, Answer(total, v)
    PROVE  \E P \in SUBSET Matching(v, walk.filter) :
             /\ IsPage(P, Matching(v, walk.filter), walk.offset)
             /\ walk'.pc = "answered" /\ walk'.total = total /\ walk'.page = P
             /\ walk'.seen = walk.seen \cup P /\ walk'.at = v
             /\ (walk'.inOrder => walk.inOrder /\ walk.at <= v)
             /\ walk'.first = (IF walk.at = 0 THEN versions[v].batches ELSE walk.first)
             /\ walk'.filter = walk.filter /\ walk'.offset = walk.offset
             /\ ((P \subseteq Batches /\ versions[v].batches \subseteq Batches /\ v \in Nat) =>
                    walk' \in WalkType)
<1>1. PICK P \in SUBSET Matching(v, walk.filter) :
        /\ IsPage(P, Matching(v, walk.filter), walk.offset)
        /\ walk' = [walk EXCEPT !.pc = "answered", !.total = total, !.page = P,
                       !.seen = walk.seen \cup P, !.at = v,
                       !.inOrder = walk.inOrder /\ walk.at <= v,
                       !.first = IF walk.at = 0 THEN versions[v].batches ELSE walk.first]
  BY DEF Answer
<1> DEFINE seen == walk.seen \cup P
           ordered == (walk.inOrder /\ walk.at <= v)
           first == IF walk.at = 0 THEN versions[v].batches ELSE walk.first
<1>2. /\ ordered \in BOOLEAN
      /\ (P \subseteq Batches /\ versions[v].batches \subseteq Batches =>
            seen \subseteq Batches /\ first \subseteq Batches)
  BY DEF WalkType
<1>3. walk' = [walk EXCEPT !.pc = "answered", !.total = total, !.page = P, !.seen = seen,
                           !.at = v, !.inOrder = ordered, !.first = first]
  BY <1>1
<1> HIDE DEF seen, ordered, first
<1>4. /\ walk'.pc = "answered" /\ walk'.total = total /\ walk'.page = P
      /\ walk'.seen = seen /\ walk'.at = v /\ walk'.inOrder = ordered
      /\ walk'.first = first /\ walk'.filter = walk.filter /\ walk'.offset = walk.offset
  BY <1>3 DEF WalkType
<1>5. P \subseteq Batches /\ versions[v].batches \subseteq Batches /\ v \in Nat =>
        walk' \in WalkType
  BY <1>2, <1>3 DEF WalkType
<1>6. walk'.inOrder => walk.inOrder /\ walk.at <= v
  BY <1>4 DEF ordered
<1> USE DEF seen, first
<1> QED
  BY <1>1, <1>4, <1>5, <1>6

\* An answer whose total was there when the page was selected.
LEMMA AnswerInv ==
    ASSUME WalkIInv, UNCHANGED <<store, versions>>,
           NEW total \in Nat, NEW v \in Versions, Answer(total, v),
           total <= Cardinality(batches),
           walk.filter = {} => total <= Cardinality(versions[v].batches)
    PROVE  WalkIInv'
<1>1. /\ StoreTypeOK /\ VersionsGrow /\ walk \in WalkType /\ walk.offset \in Nat
      /\ batches \subseteq Batches
  BY DEF WalkIInv, WalkType, StoreTypeOK
<1>2. v \in Nat /\ v <= Newest /\ versions[v].batches \subseteq batches
  BY <1>1, VersionFacts DEF Versions
<1>3. PICK P \in SUBSET Matching(v, walk.filter) :
             /\ IsPage(P, Matching(v, walk.filter), walk.offset)
             /\ walk'.pc = "answered" /\ walk'.total = total /\ walk'.page = P
             /\ walk'.seen = walk.seen \cup P /\ walk'.at = v
             /\ walk'.first = (IF walk.at = 0 THEN versions[v].batches ELSE walk.first)
             /\ walk'.filter = walk.filter /\ walk'.offset = walk.offset
             /\ ((P \subseteq Batches /\ versions[v].batches \subseteq Batches /\ v \in Nat) =>
                    walk' \in WalkType)
  BY <1>1, AnswerFacts
<1>4. P \subseteq batches
  BY <1>1, MatchingFacts
<1>5. walk' \in WalkType
  BY <1>1, <1>2, <1>3, <1>4
<1>6. StoreTypeOK' /\ VersionsGrow' /\ batches' = batches /\ Newest' = Newest
  BY <1>1 DEF store, StoreTypeOK, VersionsGrow, Versions, Newest, Tables
<1>7. WalkShape'
  BY <1>2, <1>3, <1>4, <1>6 DEF WalkIInv, WalkShape
<1>8. ASSUME walk.filter = {}, Cardinality(P) # PageSize
      PROVE  total <= walk.offset + Cardinality(P)
  <2> DEFINE M == versions[v].batches
  <2>1. M \subseteq Batches /\ P \in SUBSET M /\ IsPage(P, M, walk.offset)
    BY <1>1, <1>2, <1>3, <1>8, MatchingFacts
  <2>2. Cardinality(M) \in Nat /\ Cardinality(P) \in Nat /\ total <= Cardinality(M)
    BY <1>8, <2>1, FiniteBatches
  <2> HIDE DEF M
  <2>3. Cardinality(M) <= walk.offset + Cardinality(P)
    BY <1>1, <1>8, <2>1, ShortPage
  <2> QED
    BY <1>1, <2>2, <2>3
<1>9. PageHoldsWhatTotalPromises'
  BY <1>3, <1>8 DEF PageHoldsWhatTotalPromises
<1> QED
  BY <1>5, <1>6, <1>7, <1>9 DEF WalkIInv

LEMMA WalkElsewhereInv == ASSUME WalkIInv, UNCHANGED listingVars PROVE WalkIInv'
  BY DEF WalkIInv, listingVars, store, StoreTypeOK, VersionsGrow, Versions, Newest, Tables,
     WalkShape, PageHoldsWhatTotalPromises

LEMMA WalkNextInv == WalkIInv /\ [ListingNext]_listingVars => WalkIInv'
<1> SUFFICES ASSUME WalkIInv, [ListingNext]_listingVars PROVE WalkIInv'
  OBVIOUS
<1>1. /\ StoreTypeOK /\ VersionsGrow /\ walk \in WalkType /\ WalkShape
      /\ Newest \in Versions /\ Newest \in Nat \ {0}
  BY VersionFacts DEF WalkIInv
<1>2. Cardinality(batches) \in Nat
  BY <1>1, FiniteBatches DEF StoreTypeOK
<1>3. ASSUME UNCHANGED <<store, versions>>
      PROVE  StoreTypeOK' /\ VersionsGrow' /\ batches' = batches /\ Newest' = Newest
  BY <1>1, <1>3 DEF store, StoreTypeOK, VersionsGrow, Versions, Newest, Tables
<1>4. CASE Commit
  BY <1>4, WalkCommitInv
<1>5. CASE UNCHANGED listingVars
  BY <1>5, WalkElsewhereInv
<1>6. CASE StartWalk
  <2>1. PICK filter \in Filters : walk' = [AtRest EXCEPT !.pc = "ask", !.filter = filter]
    BY <1>6 DEF StartWalk
  <2>2. /\ walk' \in WalkType /\ walk'.pc = "ask" /\ walk'.total = 0 /\ walk'.at = 0
        /\ walk'.page = {} /\ walk'.seen = {} /\ walk'.first = {}
    BY <2>1 DEF AtRest, WalkType
  <2>3. WalkShape'
    BY <1>1, <1>2, <1>3, <1>6, <2>2 DEF WalkShape, StartWalk
  <2> QED
    BY <1>3, <1>6, <2>2, <2>3 DEF WalkIInv, PageHoldsWhatTotalPromises, StartWalk
<1>7. CASE CountMatching
  <2> DEFINE total == Cardinality(Matching(Newest, walk.filter))
  <2>1. total \in Nat /\ total <= Cardinality(batches)
    BY <1>1, MatchingFacts
  <2>2. walk' = [walk EXCEPT !.pc = "select", !.total = total]
    BY <1>7 DEF CountMatching, Counted
  <2> HIDE DEF total
  <2>3. /\ walk' \in WalkType /\ walk'.pc = "select" /\ walk'.total = total
        /\ walk'.page = walk.page /\ walk'.seen = walk.seen /\ walk'.first = walk.first
        /\ walk'.at = walk.at
    BY <1>1, <2>1, <2>2 DEF WalkType
  <2>4. WalkShape'
    BY <1>1, <1>3, <1>7, <2>1, <2>3 DEF WalkShape, CountMatching, Counted
  <2> QED
    BY <1>3, <1>7, <2>3, <2>4 DEF WalkIInv, PageHoldsWhatTotalPromises, CountMatching, Counted
<1>8. CASE SelectPage
  <2>1. walk.total \in Nat /\ walk.total <= Cardinality(batches)
    BY <1>1 DEF WalkType, WalkShape
  <2>2. versions[Newest].batches = batches
    BY <1>1, VersionFacts
  <2> QED
    BY <1>1, <1>8, <2>1, <2>2, AnswerInv DEF SelectPage
<1>9. CASE CachedPage
  <2>0. PICK n \in DOMAIN versions :
          \E m \in 1..n : Answer(Cardinality(Matching(m, walk.filter)), n)
    BY <1>9 DEF CachedPage, Counted
  <2>1. PICK m \in 1..n : Answer(Cardinality(Matching(m, walk.filter)), n)
    BY <2>0
  <2> DEFINE total == Cardinality(Matching(m, walk.filter))
  <2>2. n \in Versions /\ m \in Versions /\ m <= n
    BY <1>1, <2>1, VersionFacts DEF Versions
  <2>3. total \in Nat /\ total <= Cardinality(batches)
    BY <1>1, <2>2, MatchingFacts
  <2>4. ASSUME walk.filter = {} PROVE total <= Cardinality(versions[n].batches)
    <3>1. total = Cardinality(versions[m].batches)
      BY <1>1, <2>2, <2>4, MatchingFacts
    <3>2. versions[m].batches \subseteq versions[n].batches /\ versions[n].batches \subseteq Batches
      BY <1>1, <2>2, VersionFacts DEF VersionsGrow
    <3> HIDE DEF total
    <3> QED
      BY <3>1, <3>2, FiniteBatches, FS_Subset
  <2>5. Answer(total, n)
    BY <2>1
  <2> HIDE DEF total
  <2> QED
    BY <1>9, <2>2, <2>3, <2>4, <2>5, AnswerInv DEF CachedPage, Counted
<1>10. CASE NextPage
  <2> DEFINE offset == walk.offset + PageSize
  <2>1. offset \in Nat
    BY <1>1, PageSizeAssumption DEF WalkType
  <2>2. walk' = [walk EXCEPT !.pc = "ask", !.offset = offset]
    BY <1>10 DEF NextPage
  <2> HIDE DEF offset
  <2>3. /\ walk' \in WalkType /\ walk'.pc = "ask" /\ walk'.total = walk.total
        /\ walk'.page = walk.page /\ walk'.seen = walk.seen /\ walk'.first = walk.first
        /\ walk'.at = walk.at
    BY <1>1, <2>1, <2>2 DEF WalkType
  <2>4. WalkShape'
    BY <1>1, <1>3, <1>10, <2>3 DEF WalkShape, NextPage
  <2> QED
    BY <1>3, <1>10, <2>3, <2>4 DEF WalkIInv, PageHoldsWhatTotalPromises, NextPage
<1>11. CASE WalkEnds
  <2>1. /\ walk' \in WalkType /\ walk'.pc = "idle" /\ walk'.total = 0 /\ walk'.at = 0
        /\ walk'.page = {} /\ walk'.seen = {} /\ walk'.first = {}
    BY <1>11 DEF WalkEnds, AtRest, WalkType, Filters
  <2>2. WalkShape'
    BY <1>1, <1>2, <1>3, <1>11, <2>1 DEF WalkShape, WalkEnds
  <2> QED
    BY <1>3, <1>11, <2>1, <2>2 DEF WalkIInv, PageHoldsWhatTotalPromises, WalkEnds
<1> QED
  BY <1>4, <1>5, <1>6, <1>7, <1>8, <1>9, <1>10, <1>11 DEF ListingNext

\* A page that is not full holds all that the total, counted before, has promised, for
\* any number of batches committed in between and wherever the answer comes from.
THEOREM PageKeepsPromise == ListingSpec => []PageHoldsWhatTotalPromises
<1>1. WalkIInv => PageHoldsWhatTotalPromises
  BY DEF WalkIInv
<1> QED
  BY <1>1, WalkInitInv, WalkNextInv, PTL DEF ListingSpec

\* The tables, their versions and the walk keep their types.
THEOREM ListingTypeCorrect == ListingSpec => []ListingTypeOK
<1>1. WalkIInv => ListingTypeOK
  <2> SUFFICES ASSUME WalkIInv PROVE ListingTypeOK
    OBVIOUS
  <2>1. Cardinality(batches) \in Nat
    BY FiniteBatches DEF WalkIInv, StoreTypeOK
  <2>2. Newest \in Nat
    BY VersionFacts DEF WalkIInv
  <2>3. walk.total \in 0..Cardinality(batches) /\ walk.at \in 0..Newest
    BY <2>1, <2>2 DEF WalkIInv, WalkType, WalkShape
  <2> QED
    BY <2>3 DEF WalkIInv, WalkType, WalkShape, VersionsGrow, ListingTypeOK
<1> QED
  BY <1>1, WalkInitInv, WalkNextInv, PTL DEF ListingSpec

-----------------------------------------------------------------------------
(* The walk as a whole *)

\* The batches of B that are before b in the list.
Newer(b, B) == {c \in B : created[c] > created[b]}

Filled == IF walk.pc = "answered" THEN walk.offset + PageSize ELSE walk.offset

\* In the version of the last page, the batches before b fill the pages so far.
Behind(b) ==
    /\ walk.pc = "answered" => Cardinality(walk.page) = PageSize
    /\ Cardinality(Newer(b, versions[walk.at].batches)) >= Filled

\* What the first page could show, a page that is no older can show too.
FirstIsThere ==
    /\ walk.at = 0 => walk.first = {} /\ walk.offset = 0 /\ walk.pc # "answered"
    /\ walk.at > 0 /\ walk.inOrder => walk.first \subseteq versions[walk.at].batches

UnseenIsBehind ==
    walk.at > 0 /\ walk.filter = {} /\ walk.inOrder =>
        \A b \in walk.first \ walk.seen : HasOwnTime(b) => Behind(b)

WalkOrder == FirstIsThere /\ UnseenIsBehind

\* A page of the batches B does not skip a batch of which it is known that the offset is
\* filled by newer ones.  If it is not on the page, the page is full, of newer ones too.
LEMMA PageBehind ==
    ASSUME StoreTypeOK, NEW B \in SUBSET batches, NEW P \in SUBSET B, NEW offset \in Nat,
           IsPage(P, B, offset),
           NEW b \in B \ P, HasOwnTime(b), Cardinality(Newer(b, B)) >= offset
    PROVE  Cardinality(P) = PageSize /\ Cardinality(Newer(b, B)) >= offset + PageSize
<1>1. PICK skipped \in SUBSET (B \ P) :
        /\ Cardinality(skipped) = IF offset < Cardinality(B) THEN offset ELSE Cardinality(B)
        /\ Cardinality(P) = PageSize \/ B \ P = skipped
        /\ \A s \in skipped, c \in B \ skipped : NotAfter(s, c)
        /\ \A p \in P, c \in (B \ P) \ skipped : NotAfter(p, c)
  BY DEF IsPage, RowsSkipped
<1>2. B \subseteq Batches /\ \A c \in B : created[c] \in Nat
  BY TimesAssumption DEF StoreTypeOK
<1>3. /\ IsFiniteSet(B) /\ IsFiniteSet(P) /\ IsFiniteSet(skipped)
      /\ Cardinality(B) \in Nat /\ Cardinality(P) \in Nat /\ Cardinality(skipped) \in Nat
  BY <1>2, FiniteBatches
<1>4. /\ Newer(b, B) \subseteq B /\ b \notin Newer(b, B)
      /\ IsFiniteSet(Newer(b, B)) /\ Cardinality(Newer(b, B)) \in Nat
  BY <1>2, FiniteBatches DEF Newer
<1>5. Cardinality(Newer(b, B)) < Cardinality(B)
  BY <1>3, <1>4, FS_Subset
<1>6. Cardinality(skipped) = offset
  BY <1>1, <1>3, <1>4, <1>5
<1>7. b \notin skipped
  <2> SUFFICES ASSUME b \in skipped PROVE FALSE
    OBVIOUS
  <2>1. Newer(b, B) \in SUBSET skipped
    BY <1>1, <1>2 DEF Newer, NotAfter
  <2>2. Cardinality(Newer(b, B)) < Cardinality(skipped)
    BY <1>3, <1>4, <2>1, FS_Subset
  <2> QED
    BY <1>4, <1>6, <2>2
<1>8. Cardinality(P) = PageSize
  BY <1>1, <1>7
<1>9. (skipped \cup P) \in SUBSET Newer(b, B)
  BY <1>1, <1>2, <1>7 DEF Newer, NotAfter, HasOwnTime
<1>10. Cardinality(skipped \cup P) = Cardinality(skipped) + Cardinality(P)
  <2>1. skipped \cap P = {}
    OBVIOUS
  <2>2. Cardinality(skipped \cup P) =
           Cardinality(skipped) + Cardinality(P) - Cardinality(skipped \cap P)
    BY <1>3, FS_Union
  <2>3. Cardinality(skipped \cap P) = 0
    BY <2>1, FS_EmptySet
  <2> QED
    BY <1>3, <2>2, <2>3
<1>11. Cardinality(skipped \cup P) <= Cardinality(Newer(b, B))
  BY <1>4, <1>9, FS_Subset
<1> QED
  BY <1>3, <1>4, <1>6, <1>8, <1>10, <1>11

LEMMA OrderInit == ListingInit => WalkOrder
  BY DEF ListingInit, AtRest, WalkOrder, FirstIsThere, UnseenIsBehind

\* Transactions change nothing of the versions there were and take no time back.
LEMMA OrderCommit ==
    ASSUME WalkIInv, WalkOrder, Commit PROVE WalkOrder'
<1>1. /\ StoreTypeOK /\ VersionsGrow /\ walk \in WalkType /\ walk.at <= Newest
      /\ walk.first \subseteq batches
  BY DEF WalkIInv, WalkShape
<1>2. /\ walk' = walk /\ batches \subseteq batches'
      /\ \A c \in batches : created'[c] = created[c]
  BY <1>1, StoreStep DEF Commit
<1>3. ASSUME walk.at > 0
      PROVE  /\ versions'[walk.at].batches = versions[walk.at].batches
             /\ versions[walk.at].batches \subseteq batches
  <2>1. walk.at \in Versions
    BY <1>1, <1>3, VersionFacts DEF Versions, WalkType
  <2> QED
    BY <1>1, <2>1, VersionsCommit, VersionFacts
<1>4. FirstIsThere'
  BY <1>2, <1>3 DEF WalkOrder, FirstIsThere
<1>5. ASSUME walk.at > 0, walk.filter = {}, walk.inOrder,
             NEW b \in walk.first \ walk.seen, HasOwnTime(b)'
      PROVE  Behind(b)'
  <2>1. HasOwnTime(b)
    BY <1>1, <1>2, <1>5 DEF HasOwnTime
  <2>2. Newer(b, versions[walk.at].batches)' = Newer(b, versions[walk.at].batches)
    BY <1>1, <1>2, <1>3, <1>5 DEF Newer
  <2>3. Behind(b)
    BY <1>5, <2>1 DEF WalkOrder, UnseenIsBehind
  <2> QED
    BY <1>2, <2>2, <2>3 DEF Behind, Filled
<1>6. UnseenIsBehind'
  BY <1>2, <1>5 DEF UnseenIsBehind
<1> QED
  BY <1>4, <1>6 DEF WalkOrder

\* A page: if it is no older than the one before, what was before a batch then is still.
LEMMA OrderAnswer ==
    ASSUME WalkIInv, WalkOrder, UNCHANGED <<store, versions>>, walk.pc \in {"ask", "select"},
           NEW total \in Nat, NEW v \in Versions, Answer(total, v)
    PROVE  WalkOrder'
<1> DEFINE B == versions[v].batches
<1>1. /\ StoreTypeOK /\ VersionsGrow /\ walk \in WalkType /\ walk.at <= Newest
      /\ walk.offset \in Nat /\ walk.at \in Nat /\ PageSize \in Nat /\ v \in Nat /\ v > 0
      /\ Newest \in Nat
  BY PageSizeAssumption, VersionFacts DEF WalkIInv, WalkShape, WalkType, Versions
<1>2. B \subseteq batches /\ B \subseteq Batches
  BY <1>1, VersionFacts
<1>3. PICK P \in SUBSET Matching(v, walk.filter) :
             /\ IsPage(P, Matching(v, walk.filter), walk.offset)
             /\ walk'.pc = "answered" /\ walk'.page = P
             /\ walk'.seen = walk.seen \cup P /\ walk'.at = v
             /\ (walk'.inOrder => walk.inOrder /\ walk.at <= v)
             /\ walk'.first = (IF walk.at = 0 THEN B ELSE walk.first)
             /\ walk'.filter = walk.filter /\ walk'.offset = walk.offset
  BY <1>1, AnswerFacts
<1>4. versions' = versions /\ batches' = batches /\ created' = created
  BY DEF store
<1>5. ASSUME walk.at > 0, walk.at <= v
      PROVE  versions[walk.at].batches \subseteq B
  <2>1. walk.at \in Versions
    BY <1>1, <1>5 DEF Versions
  <2> QED
    BY <1>1, <1>5, <2>1 DEF VersionsGrow
<1>6. walk'.inOrder => walk'.first \subseteq B
  BY <1>1, <1>3, <1>5 DEF WalkOrder, FirstIsThere
<1>7. ASSUME walk.filter = {}, walk'.inOrder, NEW b \in walk'.first \ walk'.seen, HasOwnTime(b)
      PROVE  Cardinality(P) = PageSize /\ Cardinality(Newer(b, B)) >= walk.offset + PageSize
  <2>1. P \in SUBSET B /\ IsPage(P, B, walk.offset)
    BY <1>1, <1>3, <1>7, MatchingFacts
  <2>2. b \in B \ P
    BY <1>3, <1>6, <1>7
  <2>3. Cardinality(Newer(b, B)) \in Nat
    BY <1>2, FiniteBatches DEF Newer
  <2>4. Cardinality(Newer(b, B)) >= walk.offset
    <3>1. CASE walk.at = 0
      BY <1>1, <2>3, <3>1 DEF WalkOrder, FirstIsThere
    <3>2. CASE walk.at > 0
      <4> DEFINE A == versions[walk.at].batches
      <4>1. b \in walk.first \ walk.seen /\ walk.inOrder /\ walk.at <= v
        BY <1>1, <1>3, <1>7, <3>2
      <4>2. Cardinality(Newer(b, A)) >= walk.offset
        BY <1>7, <3>2, <4>1 DEF WalkOrder, UnseenIsBehind, Behind, Filled
      <4>3. A \subseteq B
        BY <1>5, <3>2, <4>1
      <4>4. Newer(b, A) \subseteq Newer(b, B) /\ Newer(b, B) \subseteq Batches
        BY <1>2, <4>3 DEF Newer
      <4>5. /\ Cardinality(Newer(b, A)) <= Cardinality(Newer(b, B))
            /\ Cardinality(Newer(b, A)) \in Nat
        BY <4>4, FiniteBatches, FS_Subset
      <4> QED
        BY <1>1, <2>3, <4>2, <4>5
    <3> QED
      BY <1>1, <3>1, <3>2
  <2> HIDE DEF B
  <2> QED
    BY <1>1, <1>2, <1>7, <2>1, <2>2, <2>4, PageBehind
<1>8. FirstIsThere'
  BY <1>1, <1>3, <1>4, <1>6 DEF FirstIsThere
<1>9. ASSUME walk'.filter = {}, walk'.inOrder, NEW b \in walk'.first \ walk'.seen, HasOwnTime(b)'
      PROVE  Behind(b)'
  <2>1. HasOwnTime(b) /\ Newer(b, versions[walk.at].batches)' = Newer(b, B)
    BY <1>3, <1>4, <1>9 DEF HasOwnTime, Newer
  <2>2. Cardinality(P) = PageSize /\ Cardinality(Newer(b, B)) >= walk.offset + PageSize
    BY <1>3, <1>7, <1>9, <2>1
  <2> QED
    BY <1>3, <2>1, <2>2 DEF Behind, Filled
<1>10. UnseenIsBehind'
  BY <1>9 DEF UnseenIsBehind
<1> QED
  BY <1>8, <1>10 DEF WalkOrder

LEMMA OrderNext ==
    ASSUME WalkIInv, WalkOrder, [ListingNext]_listingVars PROVE WalkOrder'
<1>1. walk \in WalkType /\ StoreTypeOK /\ VersionsGrow
  BY DEF WalkIInv
<1>2. ASSUME UNCHANGED <<store, versions>>, walk'.filter = walk.filter, walk'.at = walk.at,
             walk'.inOrder = walk.inOrder, walk'.first = walk.first, walk'.seen = walk.seen,
             walk'.at = 0 => walk'.offset = 0,
             Filled' = Filled, walk'.pc # "answered"
      PROVE  WalkOrder'
  <2>1. versions' = versions /\ batches' = batches /\ created' = created
    BY <1>2 DEF store
  <2>2. FirstIsThere'
    BY <1>2, <2>1 DEF WalkOrder, FirstIsThere
  <2>3. \A b : /\ HasOwnTime(b)' = HasOwnTime(b)
               /\ Newer(b, versions[walk.at].batches)' = Newer(b, versions[walk.at].batches)
    BY <1>2, <2>1 DEF HasOwnTime, Newer
  <2>4. UnseenIsBehind'
    BY <1>2, <2>1, <2>3 DEF WalkOrder, UnseenIsBehind, Behind
  <2> QED
    BY <2>2, <2>4 DEF WalkOrder
<1>3. CASE Commit
  BY <1>3, OrderCommit
<1>4. CASE UNCHANGED listingVars
  BY <1>4 DEF WalkOrder, FirstIsThere, UnseenIsBehind, Behind, Filled, HasOwnTime, Newer,
     listingVars, store
<1>5. CASE StartWalk
  <2>1. walk'.at = 0 /\ walk'.offset = 0 /\ walk'.first = {} /\ walk'.pc # "answered"
    BY <1>5 DEF StartWalk, AtRest
  <2> QED
    BY <2>1 DEF WalkOrder, FirstIsThere, UnseenIsBehind
<1>6. CASE CountMatching
  <2>1. /\ walk.pc = "ask" /\ walk'.pc = "select" /\ walk'.filter = walk.filter
        /\ walk'.offset = walk.offset /\ walk'.first = walk.first /\ walk'.seen = walk.seen
        /\ walk'.at = walk.at /\ walk'.inOrder = walk.inOrder
    BY <1>1, <1>6 DEF CountMatching, Counted, WalkType
  <2>2. Filled' = Filled /\ (walk'.at = 0 => walk'.offset = 0)
    BY <2>1 DEF Filled, WalkOrder, FirstIsThere
  <2> QED
    BY <1>2, <1>6, <2>1, <2>2 DEF CountMatching, Counted
<1>7. CASE SelectPage
  <2>1. walk.total \in Nat /\ Newest \in Versions
    BY <1>1, VersionFacts DEF WalkType
  <2> QED
    BY <1>7, <2>1, OrderAnswer DEF SelectPage
<1>8. CASE CachedPage
  <2>1. PICK n \in DOMAIN versions :
          \E m \in 1..n : Answer(Cardinality(Matching(m, walk.filter)), n)
    BY <1>8 DEF CachedPage, Counted
  <2>2. PICK m \in 1..n : Answer(Cardinality(Matching(m, walk.filter)), n)
    BY <2>1
  <2>3. n \in Versions /\ m \in Versions
    BY <1>1, <2>1, <2>2, VersionFacts DEF Versions
  <2>4. Cardinality(Matching(m, walk.filter)) \in Nat
    BY <1>1, <2>3, MatchingFacts
  <2> QED
    BY <1>8, <2>2, <2>3, <2>4, OrderAnswer DEF CachedPage, Counted
<1>9. CASE NextPage
  <2>1. /\ walk.pc = "answered" /\ walk'.pc = "ask" /\ walk'.filter = walk.filter
        /\ walk'.offset = walk.offset + PageSize
        /\ walk'.first = walk.first /\ walk'.seen = walk.seen
        /\ walk'.at = walk.at /\ walk'.inOrder = walk.inOrder
    BY <1>1, <1>9 DEF NextPage, WalkType
  <2>2. Filled' = Filled
    BY <2>1 DEF Filled
  <2>3. walk.at # 0
    BY <2>1 DEF WalkOrder, FirstIsThere
  <2> QED
    BY <1>2, <1>9, <2>1, <2>2, <2>3 DEF NextPage
<1>10. CASE WalkEnds
  <2>1. walk'.at = 0 /\ walk'.offset = 0 /\ walk'.first = {} /\ walk'.pc # "answered"
    BY <1>10 DEF WalkEnds, AtRest
  <2> QED
    BY <2>1 DEF WalkOrder, FirstIsThere, UnseenIsBehind
<1> QED
  BY <1>3, <1>4, <1>5, <1>6, <1>7, <1>8, <1>9, <1>10 DEF ListingNext

\* A client that walks through all pages, from the database or from the cache but none
\* older than the one before, misses no batch that the tables of its first page have and
\* that shares its time with no other, for any number of batches and commits and any page
\* size.
THEOREM WalkComplete == ListingSpec => []WalkMissesNothing
<1>1. WalkIInv /\ WalkOrder => WalkMissesNothing
  <2> SUFFICES ASSUME WalkIInv, WalkOrder, EndOfWalk, walk.filter = {}, walk.inOrder,
                      NEW b \in walk.first, HasOwnTime(b), b \notin walk.seen
               PROVE  FALSE
    BY DEF WalkMissesNothing
  <2>1. walk.at > 0
    BY DEF WalkOrder, FirstIsThere, WalkIInv, WalkType
  <2>2. Cardinality(walk.page) = PageSize /\ Cardinality(walk.page) < PageSize
    BY <2>1 DEF WalkOrder, UnseenIsBehind, Behind, EndOfWalk
  <2> QED
    BY <2>2, PageSizeAssumption
<1>2. WalkIInv /\ WalkOrder /\ [ListingNext]_listingVars => WalkOrder'
  BY OrderNext
<1> QED
  BY <1>1, <1>2, OrderInit, WalkInitInv, WalkNextInv, PTL DEF ListingSpec

=============================================================================
