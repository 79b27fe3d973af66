----------------------- MODULE WebhookDeliveryProofs -----------------------
(***************************************************************************)
(* The invariants of WebhookDelivery, and that it implements               *)
(* WebhookContract, for any number of subscriptions, publishers and        *)
(* workers and any bounds.                                                 *)
(***************************************************************************)
EXTENDS WebhookDelivery, TLAPS

-----------------------------------------------------------------------------
(* The inductive invariant *)

\* Before publish_event has selected anything it has inserted nothing.
NothingInsertedAtBegin == \A p \in Publishers : pc[p] = "begin" => inserted[p] = {}

\* A row that is or may still become visible refers to an existing subscription.
ReferencesAreLive ==
    \A p \in Publishers : pc[p] \in {"insert", "committed"} =>
        \A s \in inserted[p] : Live(s)

\* A task in progress works on a committed row.
WorkersHoldVisible == \A w \in Workers : worker[w] # Idle => Visible(worker[w].delivery)

\* What a task is about to report is in the history.
TasksAreHonest ==
    \A w \in Workers :
        /\ worker[w].pc \in {"posting", "accepted"} => worker[w].delivery \in posted
        /\ worker[w].pc = "accepted" => worker[w].delivery \in accepted

IInv == /\ TypeOK
        /\ NothingInsertedAtBegin
        /\ ReferencesAreLive
        /\ WorkersHoldVisible
        /\ TasksAreHonest
        /\ OnlyCommittedArePosted
        /\ SuccessWasAccepted

-----------------------------------------------------------------------------
(* Facts about the state *)

\* A worker that is not idle holds a snapshot of a row.
LEMMA BusyWorker ==
    ASSUME TypeOK, NEW w \in Workers, worker[w] # Idle \/ worker[w].pc # "idle"
    PROVE  worker[w] \in Busy
  BY DEF TypeOK, Idle

-----------------------------------------------------------------------------
(* Type correctness *)

LEMMA InitType == Init => TypeOK
  BY BoundsAssumption DEF Init, TypeOK, SubscriptionRows, NoSubscription, Rows, NewRow,
     Deliveries, Idle

LEMMA NextType == TypeOK /\ [Next]_vars => TypeOK'
<1> SUFFICES ASSUME TypeOK, [Next]_vars PROVE TypeOK'
  OBVIOUS
<1> USE DEF publisherVars, historyVars
<1>1. ASSUME NEW s \in Subscriptions, CreateSubscription(s) PROVE TypeOK'
  BY <1>1 DEF TypeOK, CreateSubscription, SubscriptionRows
<1>2. ASSUME NEW s \in Subscriptions, UpdateSubscription(s) PROVE TypeOK'
  BY <1>2 DEF TypeOK, UpdateSubscription, SubscriptionRows
<1>3. ASSUME NEW s \in Subscriptions, DeleteSubscription(s) PROVE TypeOK'
  BY <1>3 DEF TypeOK, DeleteSubscription, SubscriptionRows, NoSubscription
<1>4. ASSUME NEW p \in Publishers, SelectSubscriptions(p) PROVE TypeOK'
  BY <1>4 DEF TypeOK, SelectSubscriptions, SubscribedTo
<1>5. ASSUME NEW p \in Publishers, NEW s \in Subscriptions, InsertDelivery(p, s) PROVE TypeOK'
  BY <1>5 DEF TypeOK, InsertDelivery
<1>6. ASSUME NEW p \in Publishers, NEW s \in Subscriptions, EnqueueDelivery(p, s) PROVE TypeOK'
  BY <1>6, BoundsAssumption DEF TypeOK, EnqueueDelivery, Deliveries
<1>7. ASSUME NEW p \in Publishers, CommitRequest(p) PROVE TypeOK'
  BY <1>7 DEF TypeOK, CommitRequest
<1>8. ASSUME NEW p \in Publishers, RollbackRequest(p) PROVE TypeOK'
  BY <1>8 DEF TypeOK, RollbackRequest
<1>9. ASSUME NEW p \in Publishers, CloseSession(p) PROVE TypeOK'
  BY <1>9 DEF TypeOK, CloseSession
<1>10. ASSUME NEW w \in Workers, NEW d \in Deliveries, ReceiveTask(w, d) PROVE TypeOK'
  <2>1. queue' \in [Deliveries -> 0..MaxCopies]
    BY <1>10, BoundsAssumption DEF TypeOK, ReceiveTask, HasMessage
  <2>2. delivery[d] \in Rows
    BY DEF TypeOK
  <2>3. Deliverable(d) =>
          [pc |-> "loaded", delivery |-> d, status |-> delivery[d].status,
           attempts |-> delivery[d].attempts] \in Busy
    BY <2>2 DEF Deliverable, Busy, Rows
  <2>4. worker' \in [Workers -> Busy \cup {Idle}]
    BY <1>10, <2>3 DEF TypeOK, ReceiveTask
  <2> QED
    BY <1>10, <2>1, <2>4 DEF TypeOK, ReceiveTask
<1>11. ASSUME NEW w \in Workers, TaskStep(w) PROVE TypeOK'
  <2> DEFINE d == worker[w].delivery
  <2>1. worker[w] \in Busy /\ d \in Deliveries /\ delivery[d] \in Rows
    <3>1. worker[w] \in Busy
      BY <1>11, BusyWorker DEF TaskStep, CheckSubscription, ReceiverAccepts,
         ReceiverRejects, AnswerLost, MarkSuccess, MarkFailed
    <3> QED
      BY <3>1 DEF Busy, TypeOK
  <2>2. \A c \in {"posting", "accepted", "rejected"} : [worker[w] EXCEPT !.pc = c] \in Busy
    BY <2>1 DEF Busy
  <2>3. CASE CheckSubscription(w)
    BY <2>1, <2>2, <2>3 DEF TypeOK, CheckSubscription
  <2>4. CASE ReceiverAccepts(w)
    BY <2>1, <2>2, <2>4 DEF TypeOK, ReceiverAccepts
  <2>5. CASE ReceiverRejects(w)
    BY <2>1, <2>2, <2>5 DEF TypeOK, ReceiverRejects
  <2>6. CASE AnswerLost(w)
    BY <2>1, <2>2, <2>6 DEF TypeOK, AnswerLost
  <2>7. CASE MarkSuccess(w)
    <3>1. SuccessRow(delivery[d]) \in Rows
      BY <2>1 DEF Rows, SuccessRow
    <3> QED
      BY <3>1, <2>1, <2>7 DEF TypeOK, MarkSuccess
  <2>8. CASE MarkFailed(w)
    <3>1. worker[w].attempts + 1 \in Nat
      BY <2>1 DEF Busy
    <3>2. FailedRow(delivery[d], worker[w]) \in Rows
      BY <2>1, <3>1 DEF Rows, FailedRow
    <3> QED
      BY <3>2, <2>1, <2>8 DEF TypeOK, MarkFailed
  <2> QED
    BY <1>11, <2>3, <2>4, <2>5, <2>6, <2>7, <2>8 DEF TaskStep
<1>12. ASSUME NEW w \in Workers, AbandonTask(w) PROVE TypeOK'
  BY <1>12, BoundsAssumption DEF TypeOK, AbandonTask
<1>13. CASE RetryFailedWebhooks
  BY <1>13, BoundsAssumption DEF TypeOK, RetryFailedWebhooks, Enqueue
<1>14. CASE RetryCutShort
  <2>1. PICK sent \in SUBSET {d \in Deliveries : Ready(d)} :
          /\ \A d \in sent : queue[d] < MaxCopies
          /\ Enqueue(sent)
    BY <1>14 DEF RetryCutShort
  <2>2. queue' \in [Deliveries -> 0..MaxCopies]
    BY <2>1, BoundsAssumption DEF TypeOK, Enqueue
  <2> QED
    BY <1>14, <2>2, BoundsAssumption DEF TypeOK, RetryCutShort
<1>15. ASSUME NEW d \in Deliveries, BackoffElapses(d) PROVE TypeOK'
  <2>1. [delivery[d] EXCEPT !.last_attempt = "elapsed"] \in Rows
    BY DEF TypeOK, Rows
  <2> QED
    BY <1>15, <2>1 DEF TypeOK, BackoffElapses
<1>16. CASE UNCHANGED vars
  BY <1>16 DEF TypeOK, vars
<1> QED
  BY <1>1, <1>2, <1>3, <1>4, <1>5, <1>6, <1>7, <1>8, <1>9, <1>10, <1>11, <1>12,
     <1>13, <1>14, <1>15, <1>16 DEF Next, ClientNext, PublisherNext

\* Type correctness of the tables, the queue and the workers.
THEOREM TypeCorrect == Spec => []TypeOK
  BY InitType, NextType, PTL DEF Spec

-----------------------------------------------------------------------------
(* Visibility *)

\* A committed row is never taken back.
LEMMA VisibleStable ==
    ASSUME TypeOK, [Next]_vars, NEW d \in Deliveries, Visible(d)
    PROVE  Visible(d)'
<1> USE DEF publisherVars, historyVars
<1>1. d[1] \in Publishers /\ d[2] \in Subscriptions
  BY DEF Deliveries
<1>2. ASSUME NEW p \in Publishers, PublisherNext(p) PROVE Visible(d)'
  BY <1>1, <1>2 DEF PublisherNext, SelectSubscriptions, InsertDelivery, EnqueueDelivery,
     CommitRequest, RollbackRequest, CloseSession, Visible, TypeOK
<1>3. CASE UNCHANGED publisherVars
  BY <1>3 DEF Visible
<1>4. [Next]_vars => UNCHANGED publisherVars \/ \E p \in Publishers : PublisherNext(p)
  BY DEF Next, vars, ClientNext, CreateSubscription, UpdateSubscription,
     DeleteSubscription, TaskStep, CheckSubscription, ReceiverAccepts, ReceiverRejects,
     AnswerLost, MarkSuccess, MarkFailed, AbandonTask, ReceiveTask,
     RetryFailedWebhooks, RetryCutShort, BackoffElapses
<1> QED
  BY <1>2, <1>3, <1>4

-----------------------------------------------------------------------------
(* The inductive step *)

LEMMA InitInv == Init => IInv
<1> SUFFICES ASSUME Init PROVE IInv
  OBVIOUS
<1>1. TypeOK
  BY InitType
<1>2. NothingInsertedAtBegin /\ ReferencesAreLive
  BY DEF Init, NothingInsertedAtBegin, ReferencesAreLive
<1>3. WorkersHoldVisible /\ TasksAreHonest
  BY DEF Init, WorkersHoldVisible, TasksAreHonest, Idle
<1>4. OnlyCommittedArePosted /\ SuccessWasAccepted
  BY DEF Init, OnlyCommittedArePosted, SuccessWasAccepted, NewRow
<1> QED
  BY <1>1, <1>2, <1>3, <1>4 DEF IInv

\* The rows of an uncommitted or committed transaction keep their subscription.
LEMMA ReferencesStep ==
    ASSUME IInv, [Next]_vars
    PROVE  NothingInsertedAtBegin' /\ ReferencesAreLive'
<1> USE DEF publisherVars, historyVars, NothingInsertedAtBegin, ReferencesAreLive, Live
<1>0. TypeOK /\ NothingInsertedAtBegin /\ ReferencesAreLive
  BY DEF IInv
<1>1. ASSUME NEW s \in Subscriptions, CreateSubscription(s) \/ UpdateSubscription(s)
      PROVE NothingInsertedAtBegin' /\ ReferencesAreLive'
  BY <1>0, <1>1 DEF CreateSubscription, UpdateSubscription, TypeOK
<1>2. ASSUME NEW s \in Subscriptions, DeleteSubscription(s)
      PROVE NothingInsertedAtBegin' /\ ReferencesAreLive'
  BY <1>0, <1>2 DEF DeleteSubscription, Referenced, TypeOK
<1>3. ASSUME NEW p \in Publishers, SelectSubscriptions(p)
      PROVE NothingInsertedAtBegin' /\ ReferencesAreLive'
  BY <1>0, <1>3 DEF SelectSubscriptions, TypeOK
<1>4. ASSUME NEW p \in Publishers, NEW s \in Subscriptions, InsertDelivery(p, s)
      PROVE NothingInsertedAtBegin' /\ ReferencesAreLive'
  BY <1>0, <1>4 DEF InsertDelivery, TypeOK
<1>5. ASSUME NEW p \in Publishers, NEW s \in Subscriptions, EnqueueDelivery(p, s)
      PROVE NothingInsertedAtBegin' /\ ReferencesAreLive'
  BY <1>0, <1>5 DEF EnqueueDelivery, TypeOK
<1>6. ASSUME NEW p \in Publishers,
             CommitRequest(p) \/ RollbackRequest(p) \/ CloseSession(p)
      PROVE NothingInsertedAtBegin' /\ ReferencesAreLive'
  BY <1>0, <1>6 DEF CommitRequest, RollbackRequest, CloseSession, TypeOK
<1>7. CASE UNCHANGED <<subscription, publisherVars>>
  BY <1>0, <1>7
<1>8. \/ UNCHANGED <<subscription, publisherVars>>
      \/ \E s \in Subscriptions : CreateSubscription(s) \/ UpdateSubscription(s)
                                  \/ DeleteSubscription(s)
      \/ \E p \in Publishers : PublisherNext(p)
  BY DEF Next, vars, ClientNext, TaskStep, CheckSubscription, ReceiverAccepts,
     ReceiverRejects, AnswerLost, MarkSuccess, MarkFailed, AbandonTask, ReceiveTask,
     RetryFailedWebhooks, RetryCutShort, BackoffElapses
<1> QED
  BY <1>1, <1>2, <1>3, <1>4, <1>5, <1>6, <1>7, <1>8 DEF PublisherNext

\* Steps that leave the tasks, the rows and the history alone keep what is said of
\* them, because rows only ever become visible.
LEMMA OtherStep ==
    ASSUME IInv, [Next]_vars, UNCHANGED <<worker, delivery, historyVars>>
    PROVE  /\ WorkersHoldVisible' /\ TasksAreHonest'
           /\ OnlyCommittedArePosted' /\ SuccessWasAccepted'
<1>0. IInv /\ TypeOK
  BY DEF IInv
<1>1. WorkersHoldVisible'
  <2> SUFFICES ASSUME NEW w \in Workers, worker[w] # Idle
               PROVE  Visible(worker[w].delivery)'
    BY DEF WorkersHoldVisible
  <2>1. worker[w].delivery \in Deliveries /\ Visible(worker[w].delivery)
    BY <1>0, BusyWorker DEF IInv, WorkersHoldVisible, Busy
  <2> QED
    BY <1>0, <2>1, VisibleStable
<1>2. TasksAreHonest' /\ SuccessWasAccepted'
  BY <1>0 DEF IInv, TasksAreHonest, SuccessWasAccepted, historyVars
<1>3. OnlyCommittedArePosted'
  BY <1>0, VisibleStable DEF IInv, TypeOK, OnlyCommittedArePosted, historyVars
<1> QED
  BY <1>1, <1>2, <1>3

\* The steps of the tasks: what they post is committed, what they mark as a success
\* has been accepted, whoever else works on the same row.
LEMMA TaskInv ==
    ASSUME IInv, NEW w \in Workers, TaskStep(w)
    PROVE  /\ WorkersHoldVisible' /\ TasksAreHonest'
           /\ OnlyCommittedArePosted' /\ SuccessWasAccepted'
<1> DEFINE d == worker[w].delivery
<1> USE DEF publisherVars, historyVars
<1>0. TypeOK /\ WorkersHoldVisible /\ TasksAreHonest /\ OnlyCommittedArePosted
      /\ SuccessWasAccepted
  BY DEF IInv
<1>1. worker[w] \in Busy /\ worker[w] # Idle
  BY <1>0, BusyWorker DEF TaskStep, CheckSubscription, ReceiverAccepts,
     ReceiverRejects, AnswerLost, MarkSuccess, MarkFailed, Idle
<1>2. d \in Deliveries /\ Visible(d)
  BY <1>0, <1>1 DEF Busy, WorkersHoldVisible
<1>3. \A e : Visible(e)' <=> Visible(e)
  BY DEF TaskStep, CheckSubscription, ReceiverAccepts, ReceiverRejects, AnswerLost,
     MarkSuccess, MarkFailed, Visible
<1>4. ASSUME NEW c \in {"posting", "accepted", "rejected"},
             worker' = [worker EXCEPT ![w].pc = c],
             posted \subseteq posted', accepted \subseteq accepted',
             posted' \subseteq posted \cup {d},
             c \in {"posting", "accepted"} => d \in posted',
             c = "accepted" => d \in accepted',
             UNCHANGED delivery
      PROVE  /\ WorkersHoldVisible' /\ TasksAreHonest'
             /\ OnlyCommittedArePosted' /\ SuccessWasAccepted'
  <2>1. /\ worker'[w].pc = c /\ worker'[w].delivery = d
        /\ \A v \in Workers : v # w => worker'[v] = worker[v]
    BY <1>0, <1>1, <1>4 DEF TypeOK, Busy
  <2>2. WorkersHoldVisible'
    <3> SUFFICES ASSUME NEW v \in Workers, worker'[v] # Idle
                 PROVE  Visible(worker'[v].delivery)
      BY <1>3 DEF WorkersHoldVisible
    <3> QED
      BY <1>0, <1>2, <2>1 DEF WorkersHoldVisible
  <2>3. TasksAreHonest'
    BY <1>0, <1>4, <2>1 DEF TasksAreHonest
  <2>4. OnlyCommittedArePosted' /\ SuccessWasAccepted'
    BY <1>0, <1>2, <1>3, <1>4 DEF OnlyCommittedArePosted, SuccessWasAccepted
  <2> QED
    BY <2>2, <2>3, <2>4
<1>5. ASSUME NEW row, delivery' = [delivery EXCEPT ![d] = row],
             row.status = "success" \/ row.delivered => d \in accepted,
             worker' = [worker EXCEPT ![w] = Idle], UNCHANGED historyVars
      PROVE  /\ WorkersHoldVisible' /\ TasksAreHonest'
             /\ OnlyCommittedArePosted' /\ SuccessWasAccepted'
  <2>1. WorkersHoldVisible' /\ TasksAreHonest'
    BY <1>0, <1>3, <1>5 DEF TypeOK, WorkersHoldVisible, TasksAreHonest, Idle
  <2>2. OnlyCommittedArePosted' /\ SuccessWasAccepted'
    BY <1>0, <1>2, <1>3, <1>5 DEF TypeOK, OnlyCommittedArePosted, SuccessWasAccepted
  <2> QED
    BY <2>1, <2>2
<1>6. CASE CheckSubscription(w)
  BY <1>4, <1>6 DEF CheckSubscription
<1>7. CASE ReceiverAccepts(w)
  BY <1>0, <1>4, <1>7 DEF ReceiverAccepts, TasksAreHonest
<1>8. CASE ReceiverRejects(w)
  BY <1>4, <1>8 DEF ReceiverRejects
<1>9. CASE AnswerLost(w)
  BY <1>4, <1>9 DEF AnswerLost
<1>10. CASE MarkSuccess(w)
  <2>1. d \in accepted
    BY <1>0, <1>10 DEF MarkSuccess, TasksAreHonest
  <2> QED
    BY <1>0, <1>2, <1>5, <1>10, <2>1 DEF MarkSuccess, TypeOK
<1>11. CASE MarkFailed(w)
  <2>1. delivery[d] \in Rows
    BY <1>0, <1>2 DEF TypeOK
  <2>2. LET row == FailedRow(delivery[d], worker[w])
        IN  row.status = "success" \/ row.delivered =>
              delivery[d].status = "success" \/ delivery[d].delivered
    BY <2>1 DEF FailedRow, Rows
  <2> QED
    BY <1>0, <1>2, <1>5, <1>11, <2>2 DEF MarkFailed, SuccessWasAccepted
<1> QED
  BY <1>6, <1>7, <1>8, <1>9, <1>10, <1>11 DEF TaskStep

LEMMA NextInv == IInv /\ [Next]_vars => IInv'
<1> SUFFICES ASSUME IInv, [Next]_vars PROVE IInv'
  OBVIOUS
<1> DEFINE Kept == /\ WorkersHoldVisible /\ TasksAreHonest
                   /\ OnlyCommittedArePosted /\ SuccessWasAccepted
<1> USE DEF publisherVars, historyVars
<1>0. TypeOK /\ Kept
  BY DEF IInv
<1>1. TypeOK' /\ NothingInsertedAtBegin' /\ ReferencesAreLive'
  BY <1>0, NextType, ReferencesStep
<1>2. ASSUME NEW w \in Workers, TaskStep(w) PROVE Kept'
  BY <1>2, TaskInv
<1>3. ASSUME NEW w \in Workers, NEW d \in Deliveries, ReceiveTask(w, d) PROVE Kept'
  <2>1. OnlyCommittedArePosted' /\ SuccessWasAccepted'
    BY <1>0, <1>3 DEF ReceiveTask, OnlyCommittedArePosted, SuccessWasAccepted, Visible
  <2>2. \/ worker' = [worker EXCEPT ![w] = Idle]
        \/ /\ Visible(d)
           /\ worker' = [worker EXCEPT ![w] =
                 [pc |-> "loaded", delivery |-> d, status |-> delivery[d].status,
                  attempts |-> delivery[d].attempts]]
    BY <1>3 DEF ReceiveTask, Deliverable
  <2>3. WorkersHoldVisible'
    BY <1>0, <1>3, <2>2 DEF ReceiveTask, WorkersHoldVisible, TypeOK, Visible
  <2>4. TasksAreHonest'
    BY <1>0, <1>3, <2>2 DEF ReceiveTask, TasksAreHonest, TypeOK, Idle
  <2> QED
    BY <2>1, <2>3, <2>4
<1>4. ASSUME NEW w \in Workers, AbandonTask(w) PROVE Kept'
  BY <1>0, <1>4 DEF AbandonTask, TypeOK, WorkersHoldVisible, TasksAreHonest,
     OnlyCommittedArePosted, SuccessWasAccepted, Visible, Idle
<1>5. ASSUME NEW d \in Deliveries, BackoffElapses(d) PROVE Kept'
  <2>1. \A e \in Deliveries : /\ delivery'[e].status = delivery[e].status
                             /\ delivery'[e].delivered = delivery[e].delivered
    BY <1>0, <1>5 DEF BackoffElapses, TypeOK, Rows
  <2> QED
    BY <1>0, <1>5, <2>1 DEF BackoffElapses, WorkersHoldVisible, TasksAreHonest,
       OnlyCommittedArePosted, SuccessWasAccepted, Visible
<1>6. ASSUME UNCHANGED <<worker, delivery, historyVars>> PROVE Kept'
  BY <1>6, OtherStep
<1>7. \/ UNCHANGED <<worker, delivery, historyVars>>
      \/ \E w \in Workers : TaskStep(w) \/ AbandonTask(w)
      \/ \E w \in Workers, d \in Deliveries : ReceiveTask(w, d)
      \/ \E d \in Deliveries : BackoffElapses(d)
  BY DEF Next, vars, ClientNext, PublisherNext, CreateSubscription, UpdateSubscription,
     DeleteSubscription, SelectSubscriptions, InsertDelivery, EnqueueDelivery,
     CommitRequest, RollbackRequest, CloseSession, RetryFailedWebhooks, RetryCutShort
<1>8. Kept'
  BY <1>2, <1>3, <1>4, <1>5, <1>6, <1>7
<1> QED
  BY <1>1, <1>8 DEF IInv

LEMMA Invariance == Spec => []IInv
  BY InitInv, NextInv, PTL DEF Spec

-----------------------------------------------------------------------------
(* The safety theorems *)

\* No POST is ever made for an event whose transaction has not committed.
THEOREM OnlyCommitted == Spec => []OnlyCommittedArePosted
<1>1. IInv => OnlyCommittedArePosted
  BY DEF IInv
<1> QED
  BY <1>1, Invariance, PTL

\* A row marked delivered was accepted by its receiver, for any number of tasks
\* overlapping on it.
THEOREM SuccessAccepted == Spec => []SuccessWasAccepted
<1>1. IInv => SuccessWasAccepted
  BY DEF IInv
<1> QED
  BY <1>1, Invariance, PTL

\* A committed delivery never loses its subscription.
THEOREM NoOrphan == Spec => []NoOrphanDelivery
<1>1. IInv => NoOrphanDelivery
  BY DEF IInv, ReferencesAreLive, NoOrphanDelivery, Visible, Deliveries
<1> QED
  BY <1>1, Invariance, PTL

-----------------------------------------------------------------------------
(* Refinement of WebhookContract *)

Recorded == {d \in Deliveries : Visible(d)}
Confirmed == {d \in Deliveries : delivery[d].delivered}

LEMMA InitContract == Init => Contract!Init
<1> SUFFICES ASSUME Init PROVE Contract!Init
  OBVIOUS
<1>1. \A d \in Deliveries : ~Visible(d) /\ ~delivery[d].delivered
  BY DEF Init, Visible, NewRow, Deliveries
<1> QED
  BY <1>1 DEF Init, Contract!Init

\* A commit records the event of one publisher for all its subscriptions; a POST, a
\* 2xx answer and mark_success are Post, Accept and Confirm; the rest stutters.
LEMMA NextContract == IInv /\ [Next]_vars => [Contract!Next]_Contract!contractVars
<1> SUFFICES ASSUME IInv, [Next]_vars
             PROVE  Contract!Next \/ UNCHANGED <<Recorded, posted, accepted, Confirmed>>
  BY DEF Contract!contractVars, Recorded, Confirmed
<1> USE DEF publisherVars, historyVars
<1>0. TypeOK /\ TasksAreHonest /\ WorkersHoldVisible
  BY DEF IInv
<1>1. ASSUME NEW p \in Publishers, PublisherNext(p)
      PROVE  Contract!Next \/ UNCHANGED <<Recorded, posted, accepted, Confirmed>>
  <2>1. UNCHANGED <<posted, accepted, delivery>>
    BY <1>1 DEF PublisherNext, SelectSubscriptions, InsertDelivery, EnqueueDelivery,
       CommitRequest, RollbackRequest, CloseSession
  <2>2. CASE CommitRequest(p)
    <3>1. \A d \in Recorded : d[1] # p
      BY <2>2 DEF Recorded, Visible, CommitRequest
    <3>2. inserted[p] \subseteq Subscriptions /\ pc' = [pc EXCEPT ![p] = "committed"]
          /\ inserted' = inserted
      BY <1>0, <2>2 DEF CommitRequest, TypeOK
    <3>3. Recorded' = Recorded \cup ({p} \X inserted[p])
      <4>1. ASSUME NEW d \in Deliveries
            PROVE  Visible(d)' <=> Visible(d) \/ d \in {p} \X inserted[p]
        <5>1. d = <<d[1], d[2]>> /\ d[1] \in Publishers /\ d[2] \in Subscriptions
          BY DEF Deliveries
        <5>2. d \in {p} \X inserted[p] <=> d[1] = p /\ d[2] \in inserted[p]
          BY <5>1
        <5> QED
          BY <1>0, <3>2, <5>1, <5>2 DEF Visible, TypeOK
      <4>2. {p} \X inserted[p] \subseteq Deliveries
        BY <3>2 DEF Deliveries
      <4> QED
        BY <4>1, <4>2 DEF Recorded
    <3>4. Contract!Record(p, inserted[p])
      BY <2>1, <3>1, <3>3 DEF Contract!Record, Recorded, Confirmed
    <3> QED
      BY <3>2, <3>4 DEF Contract!Next
  <2>3. CASE ~CommitRequest(p)
    <3>1. \A d \in Deliveries : Visible(d)' <=> Visible(d)
      BY <1>0, <1>1, <2>3 DEF PublisherNext, SelectSubscriptions, InsertDelivery,
         EnqueueDelivery, RollbackRequest, CloseSession, Visible, TypeOK, Deliveries
    <3> QED
      BY <2>1, <3>1 DEF Recorded, Confirmed
  <2> QED
    BY <2>2, <2>3
<1>2. ASSUME NEW w \in Workers, TaskStep(w)
      PROVE  Contract!Next \/ UNCHANGED <<Recorded, posted, accepted, Confirmed>>
  <2> DEFINE d == worker[w].delivery
  <2>1. worker[w] \in Busy /\ worker[w] # Idle
    BY <1>0, <1>2, BusyWorker DEF TaskStep, CheckSubscription, ReceiverAccepts,
       ReceiverRejects, AnswerLost, MarkSuccess, MarkFailed, Idle
  <2>2. d \in Deliveries /\ d \in Recorded
    BY <1>0, <2>1 DEF Busy, WorkersHoldVisible, Recorded
  <2>3. Recorded' = Recorded
    BY <1>2 DEF TaskStep, CheckSubscription, ReceiverAccepts, ReceiverRejects,
       AnswerLost, MarkSuccess, MarkFailed, Recorded, Visible
  <2>4. CASE CheckSubscription(w)
    <3>1. Contract!Post(d) \/ UNCHANGED <<Recorded, posted, accepted, Confirmed>>
      BY <2>2, <2>3, <2>4 DEF CheckSubscription, Contract!Post, Recorded, Confirmed
    <3> QED
      BY <2>2, <3>1 DEF Contract!Next, Contract!Deliveries, Deliveries
  <2>5. CASE ReceiverAccepts(w) \/ AnswerLost(w)
    <3>1. d \in posted
      BY <1>0, <2>5 DEF ReceiverAccepts, AnswerLost, TasksAreHonest
    <3>2. Contract!Accept(d) \/ UNCHANGED <<Recorded, posted, accepted, Confirmed>>
      BY <2>3, <2>5, <3>1 DEF ReceiverAccepts, AnswerLost, Contract!Accept, Recorded, Confirmed
    <3> QED
      BY <2>2, <3>2 DEF Contract!Next, Contract!Deliveries, Deliveries
  <2>6. CASE ReceiverRejects(w)
    BY <2>3, <2>6 DEF ReceiverRejects, Confirmed
  <2>7. CASE MarkSuccess(w)
    <3>1. d \in accepted
      BY <1>0, <2>7 DEF MarkSuccess, TasksAreHonest
    <3>2. \A e \in Deliveries : delivery'[e].delivered <=> delivery[e].delivered \/ e = d
      BY <1>0, <2>2, <2>7 DEF MarkSuccess, SuccessRow, TypeOK, Rows
    <3>3. Confirmed' = Confirmed \cup {d}
      BY <2>2, <3>2 DEF Confirmed
    <3>4. PICK e \in Contract!Deliveries : e = d
      BY <2>2 DEF Contract!Deliveries, Deliveries
    <3>5. Contract!Confirm(e)
      BY <2>3, <2>7, <3>1, <3>3, <3>4 DEF MarkSuccess, Contract!Confirm, Recorded, Confirmed
    <3> QED
      BY <3>5 DEF Contract!Next
  <2>8. CASE MarkFailed(w)
    <3>1. \A e \in Deliveries : delivery'[e].delivered = delivery[e].delivered
      BY <1>0, <2>2, <2>8 DEF MarkFailed, FailedRow, TypeOK, Rows
    <3> QED
      BY <2>3, <2>8, <3>1 DEF MarkFailed, Confirmed
  <2> QED
    BY <1>2, <2>4, <2>5, <2>6, <2>7, <2>8 DEF TaskStep
<1>3. ASSUME NEW d \in Deliveries, BackoffElapses(d)
      PROVE  UNCHANGED <<Recorded, posted, accepted, Confirmed>>
  <2>1. \A e \in Deliveries : delivery'[e].delivered = delivery[e].delivered
    BY <1>0, <1>3 DEF BackoffElapses, TypeOK, Rows
  <2> QED
    BY <1>3, <2>1 DEF BackoffElapses, Recorded, Confirmed, Visible
<1>4. CASE UNCHANGED <<publisherVars, delivery, historyVars>>
  BY <1>4 DEF Recorded, Confirmed, Visible
<1>5. \/ UNCHANGED <<publisherVars, delivery, historyVars>>
      \/ \E p \in Publishers : PublisherNext(p)
      \/ \E w \in Workers : TaskStep(w)
      \/ \E d \in Deliveries : BackoffElapses(d)
  BY DEF Next, vars, ClientNext, CreateSubscription, UpdateSubscription,
     DeleteSubscription, AbandonTask, ReceiveTask, RetryFailedWebhooks, RetryCutShort
<1> QED
  BY <1>1, <1>2, <1>3, <1>4, <1>5

\* The delivery pipeline implements the contract of webhook delivery.
THEOREM Refinement == Spec => ImplementsContract
  BY InitContract, NextContract, Invariance, PTL DEF Spec, ImplementsContract, Contract!Spec

=============================================================================
