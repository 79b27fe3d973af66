--------------------------- MODULE WebhookContract ---------------------------
(***************************************************************************)
(* What webhook delivery promises to a subscriber, stated without queue,   *)
(* workers, transactions or retries.  An event is recorded for a set of    *)
(* subscriptions at once; only what is recorded is ever posted; the        *)
(* receiver can only accept what was posted to it; and a delivery is       *)
(* confirmed (delivered_at is set) only if the receiver accepted it.       *)
(* Posting is at least once: Post, Accept may happen again after Confirm.  *)
(***************************************************************************)

CONSTANTS Publishers,      \* the business operations that publish an event
          Subscriptions

VARIABLES recorded,        \* deliveries whose row is committed
          posted,          \* deliveries POSTed at least once
          accepted,        \* deliveries the receiver answered with 2xx
          confirmed        \* deliveries with delivered_at set

contractVars == <<recorded, posted, accepted, confirmed>>

Deliveries == Publishers \X Subscriptions

Init == /\ recorded = {}
        /\ posted = {}
        /\ accepted = {}
        /\ confirmed = {}

\* The event of p becomes known for all its subscriptions in one step, once.
Record(p, targets) ==
    /\ \A d \in recorded : d[1] # p
    /\ recorded' = recorded \cup ({p} \X targets)
    /\ UNCHANGED <<posted, accepted, confirmed>>

Post(d) == /\ d \in recorded
           /\ posted' = posted \cup {d}
           /\ UNCHANGED <<recorded, accepted, confirmed>>

Accept(d) == /\ d \in posted
             /\ accepted' = accepted \cup {d}
             /\ UNCHANGED <<recorded, posted, confirmed>>

Confirm(d) == /\ d \in accepted
              /\ confirmed' = confirmed \cup {d}
              /\ UNCHANGED <<recorded, posted, accepted>>

Next == \/ \E p \in Publishers, targets \in SUBSET Subscriptions : Record(p, targets)
        \/ \E d \in Deliveries : Post(d) \/ Accept(d) \/ Confirm(d)

Spec == Init /\ [][Next]_contractVars

==============================================================================
