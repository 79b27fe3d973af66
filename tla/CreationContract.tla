-------------------------- MODULE CreationContract --------------------------
(***************************************************************************)
(* What the creation of batches promises, stated without transactions,     *)
(* lookups, waits, retries or failures: a request creates all its batches  *)
(* in one step or never, an import creates one row at a time, a batch and  *)
(* the work center it needs become known together, and so does the report  *)
(* that it was created.  An import may lose its report and begin again;    *)
(* what it has created stays.                                              *)
(***************************************************************************)

CONSTANTS Requests, Imports,
          Items,         \* what each of them creates, a sequence of records
          Keys, NoOne

VARIABLES owner,         \* who created the batch of a key, or NoOne
          centers,       \* the work centers there are
          created        \* the items reported as created

contractVars == <<owner, centers, created>>

Init == /\ owner = [k \in Keys |-> NoOne]
        /\ centers = {}
        /\ created = {}

\* The items I of p become batches: valid ones, with keys that are new and all different.
Create(p, I) ==
    /\ \A i \in I : Items[p][i].valid /\ owner[Items[p][i].key] = NoOne
    /\ \A i, j \in I : Items[p][i].key = Items[p][j].key => i = j
    /\ owner' = [k \in Keys |-> IF \E i \in I : Items[p][i].key = k THEN p ELSE owner[k]]
    /\ centers' = centers \cup {Items[p][i].center : i \in I}
    /\ created' = created \cup {<<p, i>> : i \in I}

StartOver(p) ==
    /\ created' = {c \in created : c[1] # p}
    /\ UNCHANGED <<owner, centers>>

Next == \/ \E p \in Requests : Create(p, DOMAIN Items[p])
        \/ \E p \in Imports : StartOver(p) \/ \E i \in DOMAIN Items[p] : Create(p, {i})

Spec == Init /\ [][Next]_contractVars

=============================================================================
