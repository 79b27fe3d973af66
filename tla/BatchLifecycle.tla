--------------------------- MODULE BatchLifecycle ---------------------------
(***************************************************************************)
(* Opening and closing of batches: PATCH /batches/{id} and the beat task   *)
(* tasks.auto_close_expired_batches, in READ COMMITTED transactions of     *)
(* their own.                                                              *)
(*                                                                         *)
(* A PATCH loads the row, decides from the loaded values, and flushes an   *)
(* UPDATE of only those columns whose new value differs from the loaded    *)
(* one.  The UPDATE takes the row lock, which is held until the            *)
(* transaction ends, and is applied to the row as last committed.  The     *)
(* deliveries publish_event inserts belong to the same transaction.        *)
(***************************************************************************)
EXTENDS Integers

CONSTANTS Batches,       \* ids of the batches
          Requests,      \* PATCH requests
          Tasks,         \* auto-close tasks that may run at the same time
          MaxTime,       \* bound: the clock stops here
          MaxFailures    \* bound: transactions that fail

ASSUME BoundsAssumption == MaxTime \in Nat /\ MaxFailures \in Nat

VARIABLES
    batch,          \* table batches, as committed
    now,            \* the clock
    request,        \* what each PATCH request is doing
    task,           \* what each auto-close task is doing
    announced,      \* number of batch_closed events committed per batch
    bornClosed,     \* history: the batches created with is_closed = TRUE
    failures        \* transactions failed so far

vars == <<batch, now, request, task, announced, bornClosed, failures>>

-----------------------------------------------------------------------------
Times == 0..MaxTime

\* closed_at is set or NULL.
Rows == [is_closed : BOOLEAN, closed_at : BOOLEAN, shift_end : Times]

\* A field of the request body is absent, {}, or has one value.
Optional(S) == {{}} \cup {{v} : v \in S}

Bodies == [is_closed : Optional(BOOLEAN), shift_end : Optional(Times)]

NewRequest == [pc |-> "new"]
Finished == [pc |-> "finished"]
ActiveRequests == [pc : {"loaded", "flushed"}, batch : Batches, body : Bodies,
                   loaded : Rows]

IdleTask == [pc |-> "idle"]
ActiveTasks == [pc : {"selected", "flushed"}, ids : SUBSET Batches]

\* create_batch stores the is_closed of its input and leaves closed_at NULL.
Init ==
    /\ batch \in [Batches -> {row \in Rows : ~row.closed_at}]
    /\ now = 0
    /\ request = [r \in Requests |-> NewRequest]
    /\ task = [t \in Tasks |-> IdleTask]
    /\ announced = [b \in Batches |-> 0]
    /\ bornClosed = {b \in Batches : batch[b].is_closed}
    /\ failures = 0

Tick == /\ now < MaxTime
        /\ now' = now + 1
        /\ UNCHANGED <<batch, request, task, announced, bornClosed, failures>>

-----------------------------------------------------------------------------
(* update_batch *)

WillClose(q) == TRUE \in q.body.is_closed /\ ~q.loaded.is_closed

WillOpen(q) == FALSE \in q.body.is_closed

\* MUTANT: reopening forgets to reset closed_at.
WriteForgetsClosedAt(q) ==
    [is_closed |-> q.body.is_closed \ {q.loaded.is_closed},
     closed_at |-> IF WillClose(q) THEN {TRUE} ELSE {},
     shift_end |-> q.body.shift_end \ {q.loaded.shift_end}]

\* MUTANT: a requested value is written even if it equals the loaded one.
WriteUnconditionally(q) ==
    [is_closed |-> q.body.is_closed,
     closed_at |-> IF WillClose(q) THEN {TRUE} ELSE IF WillOpen(q) THEN {FALSE} ELSE {},
     shift_end |-> q.body.shift_end]

\* MUTANT: the UPDATE writes the whole loaded row.
WriteWholeRow(q) ==
    [is_closed |-> IF q.body.is_closed = {} THEN {q.loaded.is_closed} ELSE q.body.is_closed,
     closed_at |-> IF WillClose(q) THEN {TRUE}
                   ELSE IF WillOpen(q) THEN {FALSE} ELSE {q.loaded.closed_at},
     shift_end |-> IF q.body.shift_end = {} THEN {q.loaded.shift_end} ELSE q.body.shift_end]

\* The columns of the UPDATE, each with its value or absent: an assigned value that
\* equals the loaded one is not written, and a fresh closed_at always differs.
Write(q) ==
    [is_closed |-> q.body.is_closed \ {q.loaded.is_closed},
     closed_at |-> IF WillClose(q) THEN {TRUE}
                   ELSE IF WillOpen(q) THEN {FALSE} \ {q.loaded.closed_at} ELSE {},
     shift_end |-> q.body.shift_end \ {q.loaded.shift_end}]

WritesNothing(q) ==
    LET w == Write(q) IN w.is_closed = {} /\ w.closed_at = {} /\ w.shift_end = {}

Column(old, new) == IF new = {} THEN old ELSE CHOOSE v \in new : TRUE

\* MUTANT: a field missing from the body is reset (-1 stands for NULL).
UpdatedNullingShiftEnd(row, q) ==
    LET w == Write(q) IN
    [is_closed |-> Column(row.is_closed, w.is_closed),
     closed_at |-> Column(row.closed_at, w.closed_at),
     shift_end |-> Column(-1, w.shift_end)]

\* The row after the UPDATE of q, when the committed row is row.
Updated(row, q) ==
    LET w == Write(q) IN
    [is_closed |-> Column(row.is_closed, w.is_closed),
     closed_at |-> Column(row.closed_at, w.closed_at),
     shift_end |-> Column(row.shift_end, w.shift_end)]

\* Another transaction has updated b and not ended yet.
Locked(b) ==
    \/ \E r \in Requests : /\ request[r].pc = "flushed"
                           /\ request[r].batch = b
                           /\ ~WritesNothing(request[r])
    \/ \E t \in Tasks : task[t].pc = "flushed" /\ b \in task[t].ids

LoadBatch(r) ==
    /\ request[r].pc = "new"
    /\ \E b \in Batches, body \in Bodies :
         request' = [request EXCEPT ![r] =
             [pc |-> "loaded", batch |-> b, body |-> body, loaded |-> batch[b]]]
    /\ UNCHANGED <<batch, now, task, announced, bornClosed, failures>>

FlushUpdate(r) ==
    /\ request[r].pc = "loaded"
    /\ WritesNothing(request[r]) \/ ~Locked(request[r].batch)
    /\ request' = [request EXCEPT ![r].pc = "flushed"]
    /\ UNCHANGED <<batch, now, task, announced, bornClosed, failures>>

\* The events are part of the transaction: batch_closed is published if the loaded row
\* was open and the body closes it.
CommitRequest(r) ==
    /\ request[r].pc = "flushed"
    /\ LET b == request[r].batch
           row == Updated(batch[b], request[r])
       IN  /\ batch' = [batch EXCEPT ![b] = row]
           /\ announced' = [announced EXCEPT ![b] =
                 IF WillClose(request[r]) THEN @ + 1 ELSE @]
    /\ request' = [request EXCEPT ![r] = Finished]
    /\ UNCHANGED <<now, task, bornClosed, failures>>

FailRequest(r) ==
    /\ request[r].pc \in {"loaded", "flushed"}
    /\ failures < MaxFailures
    /\ failures' = failures + 1
    /\ request' = [request EXCEPT ![r] = Finished]
    /\ UNCHANGED <<batch, now, task, announced, bornClosed>>

-----------------------------------------------------------------------------
(* auto_close_expired_batches *)

Expired(b) == ~batch[b].is_closed /\ batch[b].shift_end < now

\* MUTANT: only shifts that ended one tick earlier are looked for.
SelectLongExpired(t) ==
    LET ids == {b \in Batches : Expired(b) /\ batch[b].shift_end + 1 < now} IN
    /\ task[t].pc = "idle"
    /\ ids # {}
    /\ task' = [task EXCEPT ![t] = [pc |-> "selected", ids |-> ids]]
    /\ UNCHANGED <<batch, now, request, announced, bornClosed, failures>>

SelectExpired(t) ==
    /\ task[t].pc = "idle"
    /\ \E b \in Batches : Expired(b)
    /\ task' = [task EXCEPT ![t] = [pc |-> "selected", ids |-> {b \in Batches : Expired(b)}]]
    /\ UNCHANGED <<batch, now, request, announced, bornClosed, failures>>

\* UPDATE ... WHERE id IN ids: neither is_closed nor shift_end is looked at again.
CloseSelected(t) ==
    /\ task[t].pc = "selected"
    /\ \A b \in task[t].ids : ~Locked(b)
    /\ task' = [task EXCEPT ![t].pc = "flushed"]
    /\ UNCHANGED <<batch, now, request, announced, bornClosed, failures>>

CommitClosing(t) ==
    /\ task[t].pc = "flushed"
    /\ batch' = [b \in Batches |->
          IF b \in task[t].ids
          THEN [batch[b] EXCEPT !.is_closed = TRUE, !.closed_at = TRUE]
          ELSE batch[b]]
    /\ announced' = [b \in Batches |->
          IF b \in task[t].ids THEN announced[b] + 1 ELSE announced[b]]
    /\ task' = [task EXCEPT ![t] = IdleTask]
    /\ UNCHANGED <<now, request, bornClosed, failures>>

FailClosing(t) ==
    /\ task[t].pc \in {"selected", "flushed"}
    /\ failures < MaxFailures
    /\ failures' = failures + 1
    /\ task' = [task EXCEPT ![t] = IdleTask]
    /\ UNCHANGED <<batch, now, request, announced, bornClosed>>

-----------------------------------------------------------------------------
RequestStep(r) == FlushUpdate(r) \/ CommitRequest(r)

TaskStep(t) == SelectExpired(t) \/ CloseSelected(t) \/ CommitClosing(t)

Next ==
    \/ Tick
    \/ \E r \in Requests : LoadBatch(r) \/ RequestStep(r) \/ FailRequest(r)
    \/ \E t \in Tasks : TaskStep(t) \/ FailClosing(t)

Spec == Init /\ [][Next]_vars

\* A request in progress ends, the beat keeps starting the task and a started task
\* goes on.  Nobody has to send a request.
FairSpec == /\ Spec
            /\ \A r \in Requests : WF_vars(RequestStep(r))
            /\ \A t \in Tasks : WF_vars(TaskStep(t))

-----------------------------------------------------------------------------
(* Properties *)

\* Rows, requests and tasks keep their type and the counter its range.
TypeOK ==
    /\ batch \in [Batches -> Rows]
    /\ now \in Times
    /\ request \in [Requests -> {NewRequest, Finished} \cup ActiveRequests]
    /\ task \in [Tasks -> {IdleTask} \cup ActiveTasks]
    /\ announced \in [Batches -> Nat]
    /\ bornClosed \subseteq Batches
    /\ failures \in 0..MaxFailures

\* Whatever a PATCH decided from a stale row, every committed transition from open to
\* closed is announced by a batch_closed event of the same transaction.
EveryClosingIsAnnounced ==
    [][\A b \in Batches :
         ~batch[b].is_closed /\ batch'[b].is_closed => announced'[b] = announced[b] + 1]_vars

Consistent(row) == row.is_closed <=> row.closed_at

\* is_closed and closed_at agree in every batch that was created open, although
\* concurrent PATCHes write the two columns from different snapshots.
ClosedAtMatches == \A b \in Batches \ bornClosed : Consistent(batch[b])

\* A PATCH changes no column its body does not ask for: what another transaction
\* committed after the load is not overwritten with the loaded value.
NoStaleOverwrite ==
    [][\A r \in Requests :
         CommitRequest(r) =>
             LET b == request[r].batch IN
             /\ request[r].body.shift_end = {} =>
                  batch'[b].shift_end = batch[b].shift_end
             /\ request[r].body.is_closed = {} =>
                  /\ batch'[b].is_closed = batch[b].is_closed
                  /\ batch'[b].closed_at = batch[b].closed_at]_vars

\* A batch whose shift has ended is closed eventually, unless its shift is extended.
ExpiredIsClosed == \A b \in Batches : Expired(b) ~> ~Expired(b)

=============================================================================
