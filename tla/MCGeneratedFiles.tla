-------------------------- MODULE MCGeneratedFiles --------------------------
(***************************************************************************)
(* GeneratedFiles for TLC: two exports of one format, two reports of one   *)
(* batch, and a report that nobody else makes.                             *)
(***************************************************************************)
EXTENDS GeneratedFiles, TLC

CONSTANTS x1, x2, r1, r2, r3, export, report, other_report

MCFiles == {FileOf[j] : j \in Jobs}

MCFileOf == [j \in Jobs |-> CASE j \in {x1, x2} -> export
                              [] j \in {r1, r2} -> report
                              [] j = r3         -> other_report]

=============================================================================
