----------------------------- MODULE Aggregation -----------------------------
(***************************************************************************)
(* Aggregation of the products of one batch.  Four kinds of transactions   *)
(* meet in the products table:                                             *)
(*   - create_product adds a product;                                      *)
(*   - ProductService.aggregate_product (a scan) aggregates one product by *)
(*     a conditional UPDATE and publishes product_aggregated; no router    *)
(*     and no task calls it at this commit;                                *)
(*   - POST /batches/{id}/aggregate counts the products, refuses more than *)
(*     a limit, and aggregates all of them by a conditional UPDATE;        *)
(*   - the task aggregate_products_batch goes through a list of codes in   *)
(*     chunks, each a SELECT, an UPDATE by id and a commit.                *)
(* Sessions are READ COMMITTED.  An UPDATE locks its rows one after the    *)
(* other, waits for rows of other transactions and then looks at its WHERE *)
(* clause again.                                                           *)
(***************************************************************************)
EXTENDS Integers, Sequences, FiniteSets, SequencesExt, WaitGraph

CONSTANTS Codes,         \* unique codes
          Additions,     \* create_product requests
          Scans,         \* aggregate_product calls
          Requests,      \* POST /batches/{id}/aggregate requests
          Tasks,         \* aggregate_products_batch tasks
          CodesOf,       \* the codes each job was given, a sequence
          Limit,         \* products a request may aggregate (100 in the code)
          ChunkSize,     \* codes per transaction of a task (200 in the code)
          MaxFailures    \* bound: transactions that fail

Jobs == Additions \cup Scans \cup Requests \cup Tasks

ASSUME KindsAssumption ==
    /\ Additions \cap (Scans \cup Requests \cup Tasks) = {}
    /\ Scans \cap (Requests \cup Tasks) = {}
    /\ Requests \cap Tasks = {}
    /\ IsFiniteSet(Jobs)
ASSUME CodesOfAssumption ==
    /\ CodesOf \in [Jobs -> Seq(Codes)]
    /\ \A j \in Additions \cup Scans : Len(CodesOf[j]) = 1
    /\ \A t \in Tasks : CodesOf[t] # <<>>
ASSUME BoundsAssumption ==
    Limit \in Nat /\ ChunkSize \in Nat \ {0} /\ MaxFailures \in Nat

VARIABLES
    product,      \* table products, as committed
    job,          \* control state of each job and what its transaction holds
    report,       \* what each job has counted so far
    announced,    \* product_aggregated events committed per code
    failures

vars == <<product, job, report, announced, failures>>

-----------------------------------------------------------------------------
\* pos: codes handled; found: products its SELECTs returned; todo: rows its UPDATE has
\* still to visit; held: rows it has written and not committed.
NewJob == [pc |-> "read", pos |-> 0, found |-> {}, todo |-> {}, held |-> {}]

NewReport == [aggregated |-> 0, failed |-> 0]

Present == {c \in Codes : product[c] # "absent"}

Init ==
    /\ product \in [Codes -> {"absent", "open", "aggregated"}]
    /\ IsFiniteSet(Present)
    /\ job = [j \in Jobs |-> NewJob]
    /\ report = [j \in Jobs |-> NewReport]
    /\ announced = [c \in Codes |-> 0]
    /\ failures = 0

\* MUTANT: rows that another transaction has locked are skipped.
OpenSkipLocked ==
    {c \in Codes : product[c] = "open" /\ \A j \in Jobs : c \notin job[j].held}

Open == {c \in Codes : product[c] = "open"}

\* MUTANT: the code is not unique, an insert replaces the row.
CodeTakenNever(c) == FALSE

CodeTaken(c) == c \in Present

\* MUTANT: a transaction that ends keeps its row locks.
EndsHolding(j, how) == job' = [job EXCEPT ![j].pc = how, ![j].todo = {}]

Ends(j, how) == job' = [job EXCEPT ![j].pc = how, ![j].todo = {}, ![j].held = {}]

\* The rows the statement of j is about to write.
Updates(j, found, rows) ==
    job' = [job EXCEPT ![j].pc = "write", ![j].found = found, ![j].todo = rows]

-----------------------------------------------------------------------------
(* The reads each job begins with *)

CreateProduct(a) ==
    /\ job[a].pc = "read"
    /\ LET c == CodesOf[a][1] IN
         IF CodeTaken(c) THEN Ends(a, "failed") ELSE Updates(a, {}, {c})
    /\ UNCHANGED <<product, report, announced, failures>>

AggregateProduct(s) ==
    /\ job[s].pc = "read"
    /\ LET c == CodesOf[s][1] IN
         CASE product[c] = "absent"     -> Ends(s, "failed")
           [] product[c] = "aggregated" -> Ends(s, "done")
           [] product[c] = "open"       -> Updates(s, {c}, {c})
    /\ UNCHANGED <<product, report, announced, failures>>

\* MUTANT: off by one.
TooManyOffByOne == Cardinality(Present) > Limit + 1

TooMany == Cardinality(Present) > Limit

CountProducts(r) ==
    /\ job[r].pc = "read"
    /\ IF TooMany
       THEN Ends(r, "failed")
       ELSE job' = [job EXCEPT ![r].pc = "counted", ![r].found = Present]
    /\ UNCHANGED <<product, report, announced, failures>>

\* UPDATE products SET is_aggregated WHERE batch_id AND NOT is_aggregated.
AggregateBatch(r) ==
    /\ job[r].pc = "counted"
    /\ Updates(r, job[r].found, Open)
    /\ UNCHANGED <<product, report, announced, failures>>

Smaller(m, n) == IF m < n THEN m ELSE n

\* The chunk that begins at pos ends after ChunkSize codes or with the list.
ChunkEnd(t, pos) == Smaller(pos + ChunkSize, Len(CodesOf[t]))

\* MUTANT: each chunk begins one code late.
ChunkOffByOne(t) == SubSeq(CodesOf[t], job[t].pos + 2, ChunkEnd(t, job[t].pos))

Chunk(t) == SubSeq(CodesOf[t], job[t].pos + 1, ChunkEnd(t, job[t].pos))

\* Codes that are not found are reported with repetitions, the others once.
SelectChunk(t) ==
    /\ job[t].pc = "read"
    /\ LET found == ToSet(Chunk(t)) \cap Present
           missing == {n \in DOMAIN Chunk(t) : Chunk(t)[n] \notin Present}
       IN  /\ Updates(t, job[t].found \cup found, found \cap Open)
           /\ report' = [report EXCEPT ![t].failed =
                 @ + Cardinality(found \ Open) + Cardinality(missing)]
    /\ UNCHANGED <<product, announced, failures>>

-----------------------------------------------------------------------------
(* Row locks *)

Holds(j, c) == c \in job[j].held

LockedByOther(j, c) == \E k \in Jobs \ {j} : Holds(k, c)

\* MUTANT: the WHERE clause of a conditional UPDATE is not looked at again.
StillMatchesAlways(j, c) == TRUE

\* The row still satisfies the statement's WHERE clause once it can be locked; a task
\* selects by id alone.
StillMatches(j, c) == j \in Tasks \/ product[c] = "open"

VisitRow(j, c) ==
    /\ job[j].pc = "write"
    /\ c \in job[j].todo
    /\ ~LockedByOther(j, c)
    /\ IF j \in Additions
       THEN IF CodeTaken(c)
            THEN Ends(j, "failed")
            ELSE job' = [job EXCEPT ![j].todo = {}, ![j].held = {c}]
       ELSE job' = [job EXCEPT ![j].todo = @ \ {c},
                               ![j].held = IF StillMatches(j, c) THEN @ \cup {c} ELSE @]
    /\ UNCHANGED <<product, report, announced, failures>>

-----------------------------------------------------------------------------
(* Ends of transactions *)

Written(j) == job[j].pc = "write" /\ job[j].todo = {}

CommitAddition(a) ==
    /\ Written(a)
    /\ product' = [c \in Codes |-> IF Holds(a, c) THEN "open" ELSE product[c]]
    /\ Ends(a, "done")
    /\ UNCHANGED <<report, announced, failures>>

\* The row was aggregated by someone else after it was read: the UPDATE returns no
\* product, and the attribute access that follows raises.
LoseProduct(s) ==
    /\ Written(s)
    /\ job[s].held = {}
    /\ Ends(s, "failed")
    /\ UNCHANGED <<product, report, announced, failures>>

Aggregated(j) == [c \in Codes |-> IF Holds(j, c) THEN "aggregated" ELSE product[c]]

CommitProduct(s) ==
    /\ Written(s)
    /\ job[s].held # {}
    /\ product' = Aggregated(s)
    /\ announced' = [c \in Codes |-> IF Holds(s, c) THEN announced[c] + 1 ELSE announced[c]]
    /\ Ends(s, "done")
    /\ UNCHANGED <<report, failures>>

CommitBatch(r) ==
    /\ Written(r)
    /\ product' = Aggregated(r)
    /\ report' = [report EXCEPT ![r].aggregated = Cardinality(job[r].held)]
    /\ Ends(r, "done")
    /\ UNCHANGED <<announced, failures>>

\* MUTANT: a list that fills its last chunk gets an empty chunk more.
MoreChunksOffByOne(t) == job[t].pos + ChunkSize <= Len(CodesOf[t])

MoreChunks(t) == job[t].pos + ChunkSize < Len(CodesOf[t])

\* The chunk is committed, and the next one begins.
CommitChunk(t) ==
    /\ Written(t)
    /\ product' = Aggregated(t)
    /\ report' = [report EXCEPT ![t].aggregated = @ + Cardinality(job[t].held)]
    /\ job' = [job EXCEPT ![t].pc = IF MoreChunks(t) THEN "read" ELSE "done",
                          ![t].pos = @ + ChunkSize,
                          ![t].held = {}]
    /\ UNCHANGED <<announced, failures>>

Running(j) == job[j].pc \in {"read", "counted", "write"}

\* An error of the database, the broker or the process; a task keeps its committed
\* chunks and is not retried.
Fail(j) ==
    /\ Running(j)
    /\ failures < MaxFailures
    /\ failures' = failures + 1
    /\ Ends(j, "failed")
    /\ UNCHANGED <<product, report, announced>>

Blocked(j) ==
    job[j].todo # {} /\ \A c \in job[j].todo : LockedByOther(j, c)

WaitsFor(j, k) == Blocked(j) /\ j # k /\ \E c \in job[j].todo : Holds(k, c)

Deadlocked(j) == Blocked(j) /\ OnCycle(j, {w \in Jobs \X Jobs : WaitsFor(w[1], w[2])})

AbortDeadlock(j) ==
    /\ Deadlocked(j)
    /\ Ends(j, "failed")
    /\ UNCHANGED <<product, report, announced, failures>>

-----------------------------------------------------------------------------
AdditionStep(a) == CreateProduct(a) \/ CommitAddition(a)
ScanStep(s) == AggregateProduct(s) \/ CommitProduct(s) \/ LoseProduct(s)
RequestStep(r) == CountProducts(r) \/ AggregateBatch(r) \/ CommitBatch(r)
TaskStep(t) == SelectChunk(t) \/ CommitChunk(t)

JobStep(j) ==
    \/ j \in Additions /\ AdditionStep(j)
    \/ j \in Scans /\ ScanStep(j)
    \/ j \in Requests /\ RequestStep(j)
    \/ j \in Tasks /\ TaskStep(j)
    \/ \E c \in Codes : VisitRow(j, c)
    \/ AbortDeadlock(j)

Next == \E j \in Jobs : JobStep(j) \/ Fail(j)

Spec == Init /\ [][Next]_vars

\* A started transaction goes on; nothing but a lock holds it up, and PostgreSQL
\* breaks deadlocks.
FairSpec == Spec /\ \A j \in Jobs : WF_vars(JobStep(j))

-----------------------------------------------------------------------------
(* Properties *)

\* The table, the jobs and their counts keep their type, and a task is never further
\* than the chunk that contains its last code.
TypeOK ==
    /\ product \in [Codes -> {"absent", "open", "aggregated"}]
    /\ job \in [Jobs -> [pc : {"read", "counted", "write", "done", "failed"},
                         pos : Nat, found : SUBSET Codes, todo : SUBSET Codes,
                         held : SUBSET Codes]]
    /\ \A t \in Tasks : job[t].pos < Len(CodesOf[t]) + ChunkSize
    /\ report \in [Jobs -> [aggregated : Nat, failed : Nat]]
    /\ announced \in [Codes -> Nat]
    /\ failures \in 0..MaxFailures

\* However many scans, requests and tasks overlap on a product, at most one
\* product_aggregated event is published for it, and only if it is aggregated.
AnnouncedOnce ==
    \A c \in Codes : announced[c] > 0 => announced[c] = 1 /\ product[c] = "aggregated"

\* When a scan, a request or a task ends well, every product it found (the request
\* counted, the task looked up) is aggregated, whoever did it.
DoneMeansAggregated ==
    \A j \in Scans \cup Requests \cup Tasks :
        job[j].pc = "done" => \A c \in job[j].found : product[c] = "aggregated"

SameChunk(m, n) == (m - 1) \div ChunkSize = (n - 1) \div ChunkSize

RepeatsInChunk(t) ==
    \E m, n \in DOMAIN CodesOf[t] :
        m # n /\ SameChunk(m, n) /\ CodesOf[t][m] = CodesOf[t][n]

\* The result of a finished task accounts for every code it was given: aggregated +
\* failed = total, although products are aggregated by others between its SELECT and
\* its UPDATE and a code may come again in a later chunk.  (A code that comes twice in
\* one chunk is counted once.)
ReportAddsUp ==
    \A t \in Tasks :
        job[t].pc = "done" /\ ~RepeatsInChunk(t) =>
            report[t].aggregated + report[t].failed = Len(CodesOf[t])

\* Products that were added by jobs of this behaviour.
Added == {CodesOf[a][1] : a \in {a \in Additions : job[a].pc = "done"}}

\* The limit is compared with a count that was taken before the UPDATE, and products may be
\* added in between.  A request exceeds its limit by no more than those products: scans,
\* tasks, other requests and lock waits do not add to it.
OnlyAdditionsExceedLimit ==
    \A r \in Requests :
        report[r].aggregated <= Limit + Cardinality(Added \ job[r].found)

\* Jobs never wait for each other's rows, nor for those of one that has ended, without
\* somebody being able to go on or being on a cycle of waits, which PostgreSQL breaks.
SomeJobCanGoOn ==
    (\E j \in Jobs : Running(j)) =>
        \E j \in Jobs : Running(j) /\ (Blocked(j) => Deadlocked(j))

\* The tables as Production has them, with the one batch of the products.
Store == INSTANCE Production WITH
    Batches <- {"batch"}, Products <- Codes, BatchOf <- [c \in Codes |-> "batch"],
    Times <- {0}, batches <- {"batch"}, created <- [b \in {"batch"} |-> 0], closed <- {},
    products <- Present, aggregated <- {c \in Codes : product[c] = "aggregated"}

\* All that the other components see of the four kinds of transactions is that products
\* are added, one by one, and that products in the table are aggregated: none is lost,
\* replaced or set back, and none is aggregated before it is there.
ImplementsProduction == Store!StoreSpec

\* Every job ends, even if two UPDATEs have locked each other's rows.
EveryJobEnds == \A j \in Jobs : Running(j) ~> ~Running(j)

=============================================================================
