----------------------------- MODULE Production -----------------------------
(***************************************************************************)
(* Batches and products as they are committed, for the handlers that read  *)
(* them with several SELECTs. Every action is one committed transaction;   *)
(* how transactions get there is the subject of BatchCreation,             *)
(* ClosingStatistics and Aggregation, each of which implements this        *)
(* module. Rows are never deleted, a product stays in its batch, and an    *)
(* aggregated product stays aggregated.                                    *)
(***************************************************************************)
EXTENDS Integers, FiniteSets

CONSTANTS Batches,      \* ids of batches
          Products,     \* ids of products
          BatchOf,      \* the batch of each product
          Times         \* values of created_at: when a transaction began

ASSUME BatchesAssumption == IsFiniteSet(Batches)
ASSUME BatchOfAssumption == BatchOf \in [Products -> Batches]
ASSUME TimesAssumption == Times \subseteq Nat /\ Times # {}

VARIABLES
    batches,       \* table batches
    created,       \* created_at of each batch
    closed,        \* the batches with is_closed
    products,      \* table products
    aggregated     \* the products with is_aggregated

store == <<batches, created, closed, products, aggregated>>

-----------------------------------------------------------------------------
StoreInit ==
    /\ batches \in SUBSET Batches
    /\ created \in [batches -> Times]
    /\ closed \in SUBSET batches
    /\ products \in SUBSET {p \in Products : BatchOf[p] \in batches}
    /\ aggregated \in SUBSET products

\* POST /batches: all its batches get the time at which the transaction began, which may
\* be earlier than that of a transaction committed before.  An import creates one at a time.
CreateBatches(S) ==
    /\ S # {} /\ S \cap batches = {}
    /\ batches' = batches \cup S
    /\ \E t \in Times : created' = [b \in batches' |-> IF b \in S THEN t ELSE created[b]]
    /\ \E C \in SUBSET S : closed' = closed \cup C
    /\ UNCHANGED <<products, aggregated>>

\* PATCH closes one batch, the auto-close task several.
CloseBatches(S) ==
    /\ S # {} /\ S \subseteq batches \ closed
    /\ closed' = closed \cup S
    /\ UNCHANGED <<batches, created, products, aggregated>>

ReopenBatch(b) ==
    /\ b \in closed
    /\ closed' = closed \ {b}
    /\ UNCHANGED <<batches, created, products, aggregated>>

\* MUTANT: neither the service nor a foreign key asks for the batch.
BatchExistsUnchecked(p) == TRUE

BatchExists(p) == BatchOf[p] \in batches

\* POST /products: closed batches get products too.
CreateProduct(p) ==
    /\ p \notin products /\ BatchExists(p)
    /\ products' = products \cup {p}
    /\ UNCHANGED <<batches, created, closed, aggregated>>

\* One product, all of a batch, or a chunk of a list.
AggregateProducts(S) ==
    /\ S # {} /\ S \subseteq products \ aggregated
    /\ aggregated' = aggregated \cup S
    /\ UNCHANGED <<batches, created, closed, products>>

StoreNext ==
    \/ \E S \in SUBSET Batches : CreateBatches(S) \/ CloseBatches(S)
    \/ \E b \in Batches : ReopenBatch(b)
    \/ \E p \in Products : CreateProduct(p)
    \/ \E S \in SUBSET Products : AggregateProducts(S)

StoreSpec == StoreInit /\ [][StoreNext]_store

StoreTypeOK ==
    /\ batches \subseteq Batches
    /\ created \in [batches -> Times]
    /\ closed \subseteq batches
    /\ products \subseteq Products
    /\ \A p \in products : BatchOf[p] \in batches
    /\ aggregated \subseteq products

=============================================================================
