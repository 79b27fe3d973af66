---------------------------- MODULE MCBatchCache ----------------------------
(* BatchCache for TLC: times to live in the proportion of 60, 300 and 600 s. *)
EXTENDS BatchCache, TLC

CONSTANTS w1, w2, w3

MCTtl == [k \in Keys |-> CASE k = "batches_list"    -> 1
                           [] k = "dashboard_stats" -> 2
                           [] k = "batch_detail"    -> 3]

MCMixedKinds == [w \in Writers |-> CASE w = w1 -> "update"
                                     [] w = w2 -> "aggregate"
                                     [] w = w3 -> "add_product"]

MCUpdates == [w \in Writers |-> "update"]

=============================================================================
