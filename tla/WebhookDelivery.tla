--------------------------- MODULE WebhookDelivery ---------------------------
(***************************************************************************)
(* Webhook subscriptions, publish_event, the Celery task that delivers one *)
(* row, and the beat task that retries.                                    *)
(*                                                                         *)
(* A publisher is one call of WebhookService.publish_event together with   *)
(* the transaction it runs in.  Rows become visible to other sessions when *)
(* that transaction commits, but publish_event sends the Celery messages   *)
(* before.  Publishers in Unsaved run in a celery_db_session that is       *)
(* closed without a commit after the call.                                 *)
(*                                                                         *)
(* A delivery row is identified by <<publisher, subscription>>.  A worker  *)
(* keeps the row as it was loaded (SQLAlchemy's identity map) and writes   *)
(* only the columns whose value differs from the loaded one.               *)
(***************************************************************************)
EXTENDS Integers

CONSTANTS Subscriptions,   \* ids of webhook_subscriptions
          Publishers,      \* publish_event calls
          Unsaved,         \* the publishers whose session never commits
          EventTypes,
          EventOf,         \* the event type each publisher publishes
          Workers,         \* processes of the Celery worker pool
          RetryCounts,     \* values of retry_count that clients choose
          MaxCopies,       \* bound: messages in the queue for one delivery
          MaxAbandons      \* bound: tasks that end without writing a result

ASSUME PublishersAssumption == Unsaved \subseteq Publishers
ASSUME EventsAssumption == EventOf \in [Publishers -> EventTypes]
ASSUME RetryCountsAssumption == RetryCounts \subseteq Nat
ASSUME BoundsAssumption == MaxCopies \in Nat /\ MaxAbandons \in Nat

VARIABLES
    subscription,    \* table webhook_subscriptions
    pc,              \* control state of each publisher's transaction
    targets,         \* subscriptions publish_event selected
    inserted,        \* subscriptions it has flushed a delivery for
    enqueued,        \* subscriptions it has called .delay() for
    delivery,        \* table webhook_deliveries
    queue,           \* number of messages per delivery in the Celery queue
    worker,          \* what each worker process is doing
    posted,          \* history: deliveries POSTed at least once
    accepted,        \* history: deliveries the receiver took with 2xx
    abandons         \* tasks ended without a result so far

publisherVars == <<pc, targets, inserted, enqueued>>
historyVars == <<posted, accepted>>
vars == <<subscription, pc, targets, inserted, enqueued, delivery, queue,
          worker, posted, accepted, abandons>>

-----------------------------------------------------------------------------
Deliveries == Publishers \X Subscriptions

NewRow == [status |-> "pending", attempts |-> 0, delivered |-> FALSE,
           last_attempt |-> "never"]

\* last_attempt abstracts last_attempt_at: unset, less than the backoff ago, or more.
Rows == [status : {"pending", "success", "failed"}, attempts : Nat,
         delivered : BOOLEAN, last_attempt : {"never", "recent", "elapsed"}]

NoSubscription == [state |-> "none", is_active |-> FALSE, events |-> {},
                   retry_count |-> 0]

SubscriptionRows == [state : {"none", "live", "deleted"}, is_active : BOOLEAN,
                     events : SUBSET EventTypes, retry_count : RetryCounts \cup {0}]

Idle == [pc |-> "idle"]

Busy == [pc : {"loaded", "posting", "accepted", "rejected"},
         delivery : Deliveries, status : {"pending", "failed"}, attempts : Nat]

Init ==
    /\ subscription = [s \in Subscriptions |-> NoSubscription]
    /\ pc = [p \in Publishers |-> "begin"]
    /\ targets = [p \in Publishers |-> {}]
    /\ inserted = [p \in Publishers |-> {}]
    /\ enqueued = [p \in Publishers |-> {}]
    /\ delivery = [d \in Deliveries |-> NewRow]
    /\ queue = [d \in Deliveries |-> 0]
    /\ worker = [w \in Workers |-> Idle]
    /\ posted = {}
    /\ accepted = {}
    /\ abandons = 0

Live(s) == subscription[s].state = "live"

\* The row of d is committed: other sessions see it.
Visible(d) == pc[d[1]] = "committed" /\ d[2] \in inserted[d[1]]

-----------------------------------------------------------------------------
(* The /webhooks router: each request is one committed transaction. *)

CreateSubscription(s) ==
    /\ subscription[s].state = "none"
    /\ \E events \in SUBSET EventTypes, n \in RetryCounts :
         subscription' = [subscription EXCEPT ![s] =
             [state |-> "live", is_active |-> TRUE, events |-> events,
              retry_count |-> n]]
    /\ UNCHANGED <<publisherVars, delivery, queue, worker, historyVars, abandons>>

UpdateSubscription(s) ==
    /\ Live(s)
    /\ \E active \in BOOLEAN, events \in SUBSET EventTypes, n \in RetryCounts :
         subscription' = [subscription EXCEPT ![s] =
             [state |-> "live", is_active |-> active, events |-> events,
              retry_count |-> n]]
    /\ UNCHANGED <<publisherVars, delivery, queue, worker, historyVars, abandons>>

\* MUTANT: only committed rows hold the subscription, no lock for the others.
ReferencedByCommitted(s) ==
    \E p \in Publishers : s \in inserted[p] /\ pc[p] = "committed"

\* Rows that reference s, committed or still uncommitted: with a committed one the
\* DELETE fails (subscription_id may not become NULL), for an uncommitted one it
\* waits on the inserter's key-share lock.
Referenced(s) ==
    \E p \in Publishers : s \in inserted[p] /\ pc[p] \in {"insert", "committed"}

DeleteSubscription(s) ==
    /\ Live(s)
    /\ ~Referenced(s)
    /\ subscription' = [subscription EXCEPT ![s] = [NoSubscription EXCEPT !.state = "deleted"]]
    /\ UNCHANGED <<publisherVars, delivery, queue, worker, historyVars, abandons>>

-----------------------------------------------------------------------------
(* publish_event, inside the transaction of the business operation. *)

SubscribedTo(p) ==
    {s \in Subscriptions : /\ Live(s)
                           /\ subscription[s].is_active
                           /\ EventOf[p] \in subscription[s].events}

SelectSubscriptions(p) ==
    /\ pc[p] = "begin"
    /\ pc' = [pc EXCEPT ![p] = "insert"]
    /\ targets' = [targets EXCEPT ![p] = SubscribedTo(p)]
    /\ UNCHANGED <<subscription, inserted, enqueued, delivery, queue, worker,
                   historyVars, abandons>>

InsertDelivery(p, s) ==
    /\ pc[p] = "insert"
    /\ s \in targets[p] \ inserted[p]
    /\ Live(s)
    /\ inserted' = [inserted EXCEPT ![p] = @ \cup {s}]
    /\ UNCHANGED <<subscription, pc, targets, enqueued, delivery, queue, worker,
                   historyVars, abandons>>

\* All rows are flushed before the first message is sent, and the messages are
\* sent while the rows are still uncommitted.
EnqueueDelivery(p, s) ==
    /\ pc[p] = "insert"
    /\ inserted[p] = targets[p]
    /\ s \in targets[p] \ enqueued[p]
    /\ queue[<<p, s>>] < MaxCopies
    /\ enqueued' = [enqueued EXCEPT ![p] = @ \cup {s}]
    /\ queue' = [queue EXCEPT ![<<p, s>>] = @ + 1]
    /\ UNCHANGED <<subscription, pc, targets, inserted, delivery, worker,
                   historyVars, abandons>>

\* get_db commits when the request handler returns (a Celery task commits itself).
CommitRequest(p) ==
    /\ p \notin Unsaved
    /\ pc[p] = "insert"
    /\ enqueued[p] = targets[p]
    /\ pc' = [pc EXCEPT ![p] = "committed"]
    /\ UNCHANGED <<subscription, targets, inserted, enqueued, delivery, queue,
                   worker, historyVars, abandons>>

\* An exception anywhere in the transaction: the foreign key of an insert whose
\* subscription is gone, the broker, or a later step of the business operation.
RollbackRequest(p) ==
    /\ pc[p] = "insert"
    /\ pc' = [pc EXCEPT ![p] = "rolledback"]
    /\ UNCHANGED <<subscription, targets, inserted, enqueued, delivery, queue,
                   worker, historyVars, abandons>>

\* celery_db_session closes the session, which discards what was not committed.
CloseSession(p) ==
    /\ p \in Unsaved
    /\ pc[p] = "insert"
    /\ enqueued[p] = targets[p]
    /\ pc' = [pc EXCEPT ![p] = "closed"]
    /\ UNCHANGED <<subscription, targets, inserted, enqueued, delivery, queue,
                   worker, historyVars, abandons>>

-----------------------------------------------------------------------------
(* The task tasks.send_webhook_delivery.  The message is acknowledged when  *)
(* it is received: a task that dies is not redelivered.                     *)

\* MUTANT: a receive that does not need a message.
HasMessageOrNot(d) == queue[d] >= 0

HasMessage(d) == queue[d] > 0

\* MUTANT: the task reads uncommitted rows.
DeliverableUncommitted(d) == delivery[d].status # "success"

\* The row is found and is not yet delivered.
Deliverable(d) == Visible(d) /\ delivery[d].status # "success"

ReceiveTask(w, d) ==
    /\ worker[w] = Idle
    /\ HasMessage(d)
    /\ queue' = [queue EXCEPT ![d] = @ - 1]
    /\ worker' = [worker EXCEPT ![w] =
          IF Deliverable(d)
          THEN [pc |-> "loaded", delivery |-> d, status |-> delivery[d].status,
                attempts |-> delivery[d].attempts]
          ELSE Idle]
    /\ UNCHANGED <<subscription, publisherVars, delivery, historyVars, abandons>>

MayPostTo(s) == Live(s) /\ subscription[s].is_active

\* The subscription is read: missing or inactive fails the attempt, otherwise POST.
CheckSubscription(w) ==
    /\ worker[w].pc = "loaded"
    /\ LET d == worker[w].delivery
           go == MayPostTo(d[2])
       IN  /\ worker' = [worker EXCEPT ![w].pc = IF go THEN "posting" ELSE "rejected"]
           /\ posted' = IF go THEN posted \cup {d} ELSE posted
    /\ UNCHANGED <<subscription, publisherVars, delivery, queue, accepted, abandons>>

ReceiverAccepts(w) ==
    /\ worker[w].pc = "posting"
    /\ worker' = [worker EXCEPT ![w].pc = "accepted"]
    /\ accepted' = accepted \cup {worker[w].delivery}
    /\ UNCHANGED <<subscription, publisherVars, delivery, queue, posted, abandons>>

\* MUTANT: any answer counts as success.
ReceiverRejectsUnchecked(w) ==
    /\ worker[w].pc = "posting"
    /\ worker' = [worker EXCEPT ![w].pc = "accepted"]
    /\ UNCHANGED <<subscription, publisherVars, delivery, queue, historyVars, abandons>>

\* An answer outside 200..299.
ReceiverRejects(w) ==
    /\ worker[w].pc = "posting"
    /\ worker' = [worker EXCEPT ![w].pc = "rejected"]
    /\ UNCHANGED <<subscription, publisherVars, delivery, queue, historyVars, abandons>>

\* MUTANT: a timeout counts as a success.
AnswerLostIsSuccess(w) ==
    /\ worker[w].pc = "posting"
    /\ worker' = [worker EXCEPT ![w].pc = "accepted"]
    /\ accepted' \in {accepted, accepted \cup {worker[w].delivery}}
    /\ UNCHANGED <<subscription, publisherVars, delivery, queue, posted, abandons>>

\* httpx.HTTPError, after the receiver has or has not processed the request.
AnswerLost(w) ==
    /\ worker[w].pc = "posting"
    /\ worker' = [worker EXCEPT ![w].pc = "rejected"]
    /\ accepted' \in {accepted, accepted \cup {worker[w].delivery}}
    /\ UNCHANGED <<subscription, publisherVars, delivery, queue, posted, abandons>>

SuccessRow(row) ==
    [row EXCEPT !.status = "success", !.delivered = TRUE, !.last_attempt = "recent"]

MarkSuccess(w) ==
    /\ worker[w].pc = "accepted"
    /\ delivery' = [delivery EXCEPT ![worker[w].delivery] =
          SuccessRow(@)]
    /\ worker' = [worker EXCEPT ![w] = Idle]
    /\ UNCHANGED <<subscription, publisherVars, queue, historyVars, abandons>>

\* attempts becomes the loaded value plus one; status is written only if the loaded
\* status was not already "failed".
FailedRow(row, loaded) ==
    [row EXCEPT !.status = IF loaded.status = "failed" THEN row.status ELSE "failed",
                !.attempts = loaded.attempts + 1,
                !.last_attempt = "recent"]

MarkFailed(w) ==
    /\ worker[w].pc = "rejected"
    /\ delivery' = [delivery EXCEPT ![worker[w].delivery] =
          FailedRow(@, worker[w])]
    /\ worker' = [worker EXCEPT ![w] = Idle]
    /\ UNCHANGED <<subscription, publisherVars, queue, historyVars, abandons>>

\* The task ends without a result: worker killed, time limit, database error or an
\* exception that is not an httpx.HTTPError.
AbandonTask(w) ==
    /\ worker[w] # Idle
    /\ abandons < MaxAbandons
    /\ abandons' = abandons + 1
    /\ worker' = [worker EXCEPT ![w] = Idle]
    /\ UNCHANGED <<subscription, publisherVars, delivery, queue, historyVars>>

-----------------------------------------------------------------------------
(* The beat task tasks.retry_failed_webhooks. *)

\* MUTANT: only rows that have failed once are looked for.
RetriableOnlyFailed == {"failed"}

Retriable == {"failed", "pending"}

AttemptsLeft(d) == delivery[d].attempts < subscription[d[2]].retry_count

Ready(d) == /\ Visible(d)
            /\ delivery[d].status \in Retriable
            /\ AttemptsLeft(d)
            /\ delivery[d].last_attempt # "recent"

Enqueue(ds) == queue' = [d \in Deliveries |-> IF d \in ds THEN queue[d] + 1 ELSE queue[d]]

RetryFailedWebhooks ==
    LET ready == {d \in Deliveries : Ready(d)} IN
    /\ \A d \in ready : queue[d] < MaxCopies
    /\ Enqueue(ready)
    /\ UNCHANGED <<subscription, publisherVars, delivery, worker, historyVars, abandons>>

\* The beat task dies after it has sent some of its messages.
RetryCutShort ==
    /\ abandons < MaxAbandons
    /\ abandons' = abandons + 1
    /\ \E sent \in SUBSET {d \in Deliveries : Ready(d)} :
         /\ \A d \in sent : queue[d] < MaxCopies
         /\ Enqueue(sent)
    /\ UNCHANGED <<subscription, publisherVars, delivery, worker, historyVars>>

\* min(2^attempts, 60) minutes have passed since the last attempt.
BackoffElapses(d) ==
    /\ delivery[d].last_attempt = "recent"
    /\ delivery' = [delivery EXCEPT ![d].last_attempt = "elapsed"]
    /\ UNCHANGED <<subscription, publisherVars, queue, worker, historyVars, abandons>>

-----------------------------------------------------------------------------
ClientNext == \E s \in Subscriptions :
    CreateSubscription(s) \/ UpdateSubscription(s) \/ DeleteSubscription(s)

PublisherNext(p) ==
    \/ SelectSubscriptions(p)
    \/ \E s \in Subscriptions : InsertDelivery(p, s) \/ EnqueueDelivery(p, s)
    \/ CommitRequest(p)
    \/ RollbackRequest(p)
    \/ CloseSession(p)

\* What a task in progress does next by itself (AbandonTask is not its choice).
TaskStep(w) ==
    \/ CheckSubscription(w)
    \/ ReceiverAccepts(w)
    \/ ReceiverRejects(w)
    \/ AnswerLost(w)
    \/ MarkSuccess(w)
    \/ MarkFailed(w)

Next ==
    \/ ClientNext
    \/ \E p \in Publishers : PublisherNext(p)
    \/ \E w \in Workers : TaskStep(w) \/ AbandonTask(w)
    \/ \E w \in Workers, d \in Deliveries : ReceiveTask(w, d)
    \/ RetryFailedWebhooks
    \/ RetryCutShort
    \/ \E d \in Deliveries : BackoffElapses(d)

Spec == Init /\ [][Next]_vars

\* Running tasks finish (HTTP calls have a timeout), the broker queue is first in
\* first out so every message is received, the beat schedule fires every 15 minutes
\* and time passes.  Clients and business operations are under no obligation.
Fairness ==
    /\ \A w \in Workers : WF_vars(TaskStep(w))
    /\ \A d \in Deliveries : /\ SF_vars(\E w \in Workers : ReceiveTask(w, d))
                             /\ WF_vars(BackoffElapses(d))
    /\ WF_vars(RetryFailedWebhooks)

FairSpec == Spec /\ Fairness

-----------------------------------------------------------------------------
(* Properties *)

\* Every variable keeps its type; the queue and the number of abandoned tasks keep
\* their bounds, and a worker never holds the row of a delivered or unknown delivery.
TypeOK ==
    /\ subscription \in [Subscriptions -> SubscriptionRows]
    /\ pc \in [Publishers -> {"begin", "insert", "committed", "rolledback", "closed"}]
    /\ targets \in [Publishers -> SUBSET Subscriptions]
    /\ inserted \in [Publishers -> SUBSET Subscriptions]
    /\ enqueued \in [Publishers -> SUBSET Subscriptions]
    /\ delivery \in [Deliveries -> Rows]
    /\ queue \in [Deliveries -> 0..MaxCopies]
    /\ worker \in [Workers -> Busy \cup {Idle}]
    /\ posted \subseteq Deliveries
    /\ accepted \subseteq Deliveries
    /\ abandons \in 0..MaxAbandons

\* A receiver is only told of an event whose transaction is committed: a message
\* sent by publish_event before a rollback never turns into a POST.
OnlyCommittedArePosted == \A d \in posted : Visible(d)

\* A row says "success", or carries delivered_at, only if the receiver answered 2xx
\* to a POST of that very delivery, whatever tasks overlapped on the row.
SuccessWasAccepted ==
    \A d \in Deliveries :
        delivery[d].status = "success" \/ delivery[d].delivered => d \in accepted

\* No committed delivery refers to a deleted subscription, although publish_event
\* inserts it after another request may have deleted the subscription.
NoOrphanDelivery == \A d \in Deliveries : Visible(d) => Live(d[2])

\* A committed delivery is delivered or has used up retry_count attempts.
Settled(d) == \/ delivery[d].delivered
              \/ ~AttemptsLeft(d)

\* Every committed delivery settles for good once the clients stop changing the
\* subscriptions: a lost message, a killed task or a beat that dies half way delays
\* it, and overlapping tasks may take attempts back, but not for ever.
EveryDeliverySettles ==
    <>[][UNCHANGED subscription]_vars =>
        \A d \in Deliveries : Visible(d) ~> []Settled(d)

Contract == INSTANCE WebhookContract
    WITH recorded <- {d \in Deliveries : Visible(d)},
         confirmed <- {d \in Deliveries : delivery[d].delivered}

\* The task, the transactions and the retries implement the contract: rows of one
\* event appear all at once, and post, accept, confirm happen in this order.
ImplementsContract == Contract!Spec

\* "Failed deliveries are repeated": no message is sent for one that was delivered.
DeliveredIsNotRetried ==
    [][\A d \in Deliveries : delivery[d].delivered => queue'[d] <= queue[d]]_vars

\* "creates a delivery for every active subscription": the rows publish_event
\* inserted exist after the task or request that called it has ended without error.
PublishedIsRecorded ==
    \A p \in Publishers : pc[p] = "closed" =>
        \A s \in targets[p] : Visible(<<p, s>>)

=============================================================================
