-------------------------- MODULE MCBatchCreation --------------------------
(***************************************************************************)
(* BatchCreation for TLC: two requests that create the same two batches in *)
(* opposite order, and an import that repeats one of them, has an invalid  *)
(* row and a row of its own.  All of them meet in two work centers.        *)
(***************************************************************************)
EXTENDS BatchCreation, TLC

CONSTANTS k1, k2, k3, c1, c2, q1, q2, m1, m2

MCKeys == {k1, k2, k3}
MCCenters == {c1, c2}

Row(k, c) == [key |-> k, center |-> c, valid |-> TRUE]
InvalidRow == [key |-> k3, center |-> c1, valid |-> FALSE]

MCItems == [p \in Jobs |->
    CASE p = q1 -> <<Row(k1, c1), Row(k2, c2)>>
      [] p = q2 -> <<Row(k2, c1), Row(k1, c2)>>
      [] p = m1 -> <<Row(k1, c2), InvalidRow, Row(k3, c1)>>
      [] p = m2 -> <<Row(k3, c1), Row(k2, c2)>>]

=============================================================================
