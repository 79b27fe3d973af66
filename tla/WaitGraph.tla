------------------------------ MODULE WaitGraph ------------------------------
(***************************************************************************)
(* Which transactions the deadlock detector of PostgreSQL aborts: those    *)
(* that wait, directly or not, for themselves.  A graph of waits is a set  *)
(* of pairs of a transaction and one it waits for.                         *)
(***************************************************************************)

\* p waits for itself: one cannot, without meeting p again, list all that p waits for and
\* all that those wait for.
OnCycle(p, waits) ==
    ~\E T \in SUBSET ({w[2] : w \in waits} \ {p}) :
        \A w \in waits : w[1] \in T \cup {p} => w[2] \in T

=============================================================================
