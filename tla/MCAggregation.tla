---------------------------- MODULE MCAggregation ----------------------------
(***************************************************************************)
(* Aggregation for TLC: every job that can meet another on a product does. *)
(* The task's list has two chunks, the second repeats a code of the first, *)
(* and every initial table is tried.                                       *)
(***************************************************************************)
EXTENDS Aggregation, TLC

CONSTANTS c1, c2, c3, a1, s1, s2, r1, t1

MCCodes == {c1, c2, c3}

MCCodesOf == [j \in Jobs |->
    CASE j = a1 -> <<c3>>
      [] j \in {s1, s2} -> <<c1>>
      [] j = r1 -> <<>>
      [] j = t1 -> <<c1, c2, c3, c1>>]

=============================================================================
