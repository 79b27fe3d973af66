------------------------- MODULE MCWebhookDelivery -------------------------
(***************************************************************************)
(* Instances of WebhookDelivery for TLC.  Subscriptions and workers are    *)
(* interchangeable; publishers are not (Unsaved).                          *)
(***************************************************************************)
EXTENDS WebhookDelivery, TLC

CONSTANTS batch_closed

MCEventTypes == {batch_closed}
MCEventOf == [p \in Publishers |-> batch_closed]

SafetySymmetry == Permutations(Subscriptions) \cup Permutations(Workers)

=============================================================================
