------------------------ MODULE MCClosingStatistics ------------------------
(* ClosingStatistics for TLC: one batch with one product. *)
EXTENDS ClosingStatistics, TLC

CONSTANTS b1, p1

MCBatchOf == p1 :> b1

=============================================================================
