-------------------------- MODULE ClosingStatistics --------------------------
(***************************************************************************)
(* BatchLifecycle together with the products of the batches: the           *)
(* batch_closed event tells how many products the batch has and how many   *)
(* of them are aggregated.                                                 *)
(*                                                                         *)
(* A PATCH reads them after its UPDATE, while it holds the row lock.  The  *)
(* auto-close task reads them with its SELECT, before it has any lock.     *)
(* Products are created and aggregated meanwhile: neither asks whether the *)
(* batch is closed, and neither is undone.                                 *)
(***************************************************************************)
EXTENDS BatchLifecycle

CONSTANTS Products, BatchOf     \* the products and the batch of each

ASSUME BatchOfAssumption == BatchOf \in [Products -> Batches]
ASSUME ProcessesAssumption == Requests \cap Tasks = {}

VARIABLES
    stage,        \* each product is absent (0), in its batch (1) or aggregated (2)
    counted,      \* by each request or task: no statistics, {}, or those it has read
    reported      \* history: the furthest stage of each product in committed events

closingVars == <<batch, now, request, task, announced, bornClosed, failures,
                 stage, counted, reported>>

-----------------------------------------------------------------------------
Stages == [Products -> 0..2]

NotCounted == [x \in Requests \cup Tasks |-> {}]

ClosingInit ==
    /\ Init
    /\ stage \in Stages
    /\ counted = NotCounted
    /\ reported = [p \in Products |-> 0]

\* POST /products, and any of the ways to aggregate.
AdvanceProduct(p) ==
    /\ stage[p] < 2
    /\ stage' = [stage EXCEPT ![p] = stage[p] + 1]
    /\ UNCHANGED <<batch, now, request, task, announced, bornClosed, failures,
                   counted, reported>>

\* The batch_closed events of x for the batches ids, with the statistics it has read,
\* are committed.
Report(x, ids) ==
    \E s \in counted[x] :
        reported' = [p \in Products |->
            IF BatchOf[p] \in ids /\ s[p] > reported[p] THEN s[p] ELSE reported[p]]

\* MUTANT: the statistics are read with the batch, before the UPDATE.
ReadWhenLoaded(pc) == pc = "loaded"

ReadWhen(pc) == pc = "flushed"

\* get_by_id_with_products, in the transaction that has updated the row.
ReadStatistics(r) ==
    /\ request[r].pc \in {"loaded", "flushed"} /\ ReadWhen(request[r].pc)
    /\ WillClose(request[r])
    /\ counted[r] = {}
    /\ counted' = [counted EXCEPT ![r] = {stage}]
    /\ UNCHANGED <<batch, now, request, task, announced, bornClosed, failures,
                   stage, reported>>

CommitWithStatistics(r) ==
    /\ CommitRequest(r)
    /\ \/ WillClose(request[r]) /\ Report(r, {request[r].batch})
       \/ ~WillClose(request[r]) /\ UNCHANGED reported
    /\ counted' = [counted EXCEPT ![r] = {}]
    /\ UNCHANGED stage

FailWithStatistics(r) ==
    /\ FailRequest(r)
    /\ counted' = [counted EXCEPT ![r] = {}]
    /\ UNCHANGED <<stage, reported>>

-----------------------------------------------------------------------------
\* selectinload: a second SELECT, after the one that chose the batches.
ReadSelected(t) ==
    /\ task[t].pc = "selected"
    /\ counted[t] = {}
    /\ counted' = [counted EXCEPT ![t] = {stage}]
    /\ UNCHANGED <<batch, now, request, task, announced, bornClosed, failures,
                   stage, reported>>

CloseCounted(t) ==
    /\ CloseSelected(t)
    /\ counted[t] # {}
    /\ UNCHANGED <<stage, counted, reported>>

CommitClosingWithStatistics(t) ==
    /\ CommitClosing(t)
    /\ Report(t, task[t].ids)
    /\ counted' = [counted EXCEPT ![t] = {}]
    /\ UNCHANGED stage

FailClosingWithStatistics(t) ==
    /\ FailClosing(t)
    /\ counted' = [counted EXCEPT ![t] = {}]
    /\ UNCHANGED <<stage, reported>>

-----------------------------------------------------------------------------
ProductsUnchanged == UNCHANGED <<stage, counted, reported>>

ClosingRequestStep(r) ==
    \/ FlushUpdate(r) /\ ProductsUnchanged
    \/ ReadStatistics(r)
    \/ CommitWithStatistics(r)

ClosingTaskStep(t) ==
    \/ SelectExpired(t) /\ ProductsUnchanged
    \/ ReadSelected(t)
    \/ CloseCounted(t)
    \/ CommitClosingWithStatistics(t)

ClosingNext ==
    \/ Tick /\ ProductsUnchanged
    \/ \E p \in Products : AdvanceProduct(p)
    \/ \E r \in Requests : \/ LoadBatch(r) /\ ProductsUnchanged
                           \/ ClosingRequestStep(r)
                           \/ FailWithStatistics(r)
    \/ \E t \in Tasks : ClosingTaskStep(t) \/ FailClosingWithStatistics(t)

ClosingSpec == ClosingInit /\ [][ClosingNext]_closingVars

\* As in BatchLifecycle: what is in progress goes on and the beat keeps starting tasks.
FairClosingSpec ==
    /\ ClosingSpec
    /\ \A r \in Requests : WF_closingVars(ClosingRequestStep(r))
    /\ \A t \in Tasks : WF_closingVars(ClosingTaskStep(t))

-----------------------------------------------------------------------------
(* Properties *)

\* Lifecycle state, products and statistics keep their type.
ClosingTypeOK ==
    /\ TypeOK
    /\ stage \in Stages /\ reported \in Stages
    /\ counted \in [Requests \cup Tasks -> {{}} \cup {{s} : s \in Stages}]

\* The batch_closed event of a PATCH reports at least the products and aggregations that
\* any batch_closed event committed before has reported for the batch, although several
\* closings of it overlap: a receiver that keeps the figures of a manual closing never
\* goes back.  (The auto-close task has no such property: it reads before it locks.)
ManualClosingReportsLatest ==
    [][\A r \in Requests :
         CommitWithStatistics(r) /\ WillClose(request[r]) =>
            \A p \in Products : \A s \in counted[r] :
                BatchOf[p] = request[r].batch => s[p] >= reported[p]]_closingVars

=============================================================================
