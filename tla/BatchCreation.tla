--------------------------- MODULE BatchCreation ---------------------------
(***************************************************************************)
(* Creation of batches by POST /batches and by the import task.            *)
(*                                                                         *)
(* A job is one request or one import.  Each of its items names a batch    *)
(* key (batch_number, batch_date) and a work center identifier, which is   *)
(* created when it is unknown.  A request runs in one transaction; the     *)
(* import commits or rolls back row by row and reports what happened to    *)
(* each.  Both keys are unique in the database: an insert waits while      *)
(* another transaction holds the same key uncommitted, fails if the key is *)
(* committed, and a cycle of waits is broken by PostgreSQL.                *)
(***************************************************************************)
EXTENDS Integers, Sequences, FiniteSets, WaitGraph

CONSTANTS Requests,      \* POST /batches requests
          Imports,       \* import tasks
          Items,         \* what each of them creates, a sequence of records
          Keys,          \* (batch_number, batch_date) pairs
          Centers,       \* work center identifiers
          NoOne,         \* the owner of a key that is not in the table
          MaxFailures    \* bound: database errors, killed tasks, failed tasks

Jobs == Requests \cup Imports

ASSUME JobsAssumption == Requests \cap Imports = {} /\ NoOne \notin Jobs /\ IsFiniteSet(Jobs)
ASSUME ItemsAssumption ==
    /\ Items \in [Jobs -> Seq([key : Keys, center : Centers, valid : BOOLEAN])]
    /\ \A p \in Jobs : Len(Items[p]) > 0
ASSUME BoundsAssumption == MaxFailures \in Nat

VARIABLES
    owner,      \* table batches: the job that committed the row of a key
    centers,    \* table work_centers: the committed identifiers
    job,        \* control state and uncommitted inserts of each job
    result,     \* what became of each item
    retried,    \* the imports that have used their one retry
    failures

vars == <<owner, centers, job, result, retried, failures>>

-----------------------------------------------------------------------------
Item(p) == Items[p][job[p].row]

Pending(p) == [i \in DOMAIN Items[p] |-> "pending"]

FirstRow == [pc |-> "exists", row |-> 1, keys |-> {}, centers |-> {}]

Init ==
    /\ owner = [k \in Keys |-> NoOne]
    /\ centers = {}
    /\ job = [p \in Jobs |-> FirstRow]
    /\ result = [p \in Jobs |-> Pending(p)]
    /\ retried = {}
    /\ failures = 0

\* MUTANT: the SELECT sees uncommitted rows of other transactions.
KeyVisibleDirty(p) ==
    owner[Item(p).key] # NoOne \/ \E q \in Jobs : Item(p).key \in job[q].keys

\* A SELECT sees committed rows and the transaction's own.
KeyVisible(p) == owner[Item(p).key] # NoOne \/ Item(p).key \in job[p].keys

CenterVisible(p) == Item(p).center \in centers \cup job[p].centers

\* The insert p is about to make waits for q.
WaitsFor(p, q) ==
    /\ p # q
    /\ \/ job[p].pc = "insert_center" /\ Item(p).center \in job[q].centers
       \/ job[p].pc = "insert_batch" /\ Item(p).key \in job[q].keys

Waiting(p) == \E q \in Jobs : WaitsFor(p, q)

\* MUTANT: one row too many.
LastRowOffByOne(p) == job[p].row > Len(Items[p])

LastRow(p) == job[p].row = Len(Items[p])

Goto(p, label) == job' = [job EXCEPT ![p].pc = label]

\* MUTANT: a failed transaction is not rolled back.
StoppedHolding(p) == [job[p] EXCEPT !.pc = "failed"]

Stopped(p) == [FirstRow EXCEPT !.pc = "failed", !.row = job[p].row]

\* The transaction ends; what it had inserted is committed or not, by the caller.
EndRow(p) ==
    job' = [job EXCEPT ![p] =
        [pc |-> IF LastRow(p) THEN "done" ELSE "exists",
         row |-> IF LastRow(p) THEN job[p].row ELSE job[p].row + 1, keys |-> {}, centers |-> {}]]

\* The item is not created: a request fails as a whole, an import rolls back the row,
\* notes it and goes on.
Refuse(p, why) ==
    /\ result' = [result EXCEPT ![p][job[p].row] = why]
    /\ IF p \in Imports
       THEN EndRow(p)
       ELSE job' = [job EXCEPT ![p] = Stopped(p)]
    /\ UNCHANGED <<owner, centers>>

-----------------------------------------------------------------------------
\* Validation (imports only; a request is validated as a whole before) and
\* exists_by_number_and_date.
CheckExists(p) ==
    /\ job[p].pc = "exists"
    /\ CASE ~Item(p).valid -> Refuse(p, "invalid")
         [] Item(p).valid /\ KeyVisible(p) -> Refuse(p, "duplicate")
         [] OTHER -> Goto(p, "center") /\ UNCHANGED <<owner, centers, result>>
    /\ UNCHANGED <<retried, failures>>

ResolveCenter(p) ==
    /\ job[p].pc = "center"
    /\ Goto(p, IF CenterVisible(p) THEN "insert_batch" ELSE "insert_center")
    /\ UNCHANGED <<owner, centers, result, retried, failures>>

InsertCenter(p) ==
    /\ job[p].pc = "insert_center"
    /\ ~Waiting(p)
    /\ IF Item(p).center \in centers
       THEN Refuse(p, "integrity")
       ELSE /\ job' = [job EXCEPT ![p].pc = "insert_batch",
                                  ![p].centers = @ \cup {Item(p).center}]
            /\ UNCHANGED <<owner, centers, result>>
    /\ UNCHANGED <<retried, failures>>

\* MUTANT: every item is committed by itself.
CommitsAfterEveryRow(p) == TRUE

CommitsAfterRow(p) == p \in Imports \/ LastRow(p)

InsertBatch(p) ==
    /\ job[p].pc = "insert_batch"
    /\ ~Waiting(p)
    /\ IF owner[Item(p).key] # NoOne
       THEN Refuse(p, "integrity")
       ELSE /\ job' = [job EXCEPT ![p] =
                  [pc |-> IF CommitsAfterRow(p) THEN "commit" ELSE "exists",
                   row |-> IF CommitsAfterRow(p) THEN job[p].row ELSE job[p].row + 1,
                   keys |-> job[p].keys \cup {Item(p).key},
                   centers |-> job[p].centers]]
            /\ UNCHANGED <<owner, centers, result>>
    /\ UNCHANGED <<retried, failures>>

\* The rows of the transaction become visible and are reported as created.
CommitRow(p) ==
    /\ job[p].pc = "commit"
    /\ owner' = [k \in Keys |-> IF k \in job[p].keys THEN p ELSE owner[k]]
    /\ centers' = centers \cup job[p].centers
    /\ result' = [result EXCEPT ![p] =
          [i \in DOMAIN Items[p] |->
              IF p \in Requests \/ i = job[p].row THEN "created" ELSE @[i]]]
    /\ EndRow(p)
    /\ UNCHANGED <<retried, failures>>

-----------------------------------------------------------------------------
(* Failures *)

Deadlocked(p) == Waiting(p) /\ OnCycle(p, {w \in Jobs \X Jobs : WaitsFor(w[1], w[2])})

AbortDeadlock(p) ==
    /\ Deadlocked(p)
    /\ Refuse(p, "error")
    /\ UNCHANGED <<retried, failures>>

Running(p) == job[p].pc \notin {"done", "failed"}

\* A database error while an item is being processed.
FailRow(p) ==
    /\ Running(p)
    /\ failures < MaxFailures
    /\ failures' = failures + 1
    /\ Refuse(p, "error")
    /\ UNCHANGED retried

\* An error outside the rows (download, progress report, publish_event): the import is
\* retried once from its first row and its counts start again.
RetryImport(p) ==
    /\ p \in Imports \ retried
    /\ job[p].pc # "failed"
    /\ failures < MaxFailures
    /\ failures' = failures + 1
    /\ retried' = retried \cup {p}
    /\ job' = [job EXCEPT ![p] = FirstRow]
    /\ result' = [result EXCEPT ![p] = Pending(p)]
    /\ UNCHANGED <<owner, centers>>

\* The process dies, or the import fails again: what is committed stays.
Crash(p) ==
    /\ Running(p)
    /\ failures < MaxFailures
    /\ failures' = failures + 1
    /\ job' = [job EXCEPT ![p] = Stopped(p)]
    /\ UNCHANGED <<owner, centers, result, retried>>

-----------------------------------------------------------------------------
JobStep(p) ==
    \/ CheckExists(p)
    \/ ResolveCenter(p)
    \/ InsertCenter(p)
    \/ InsertBatch(p)
    \/ CommitRow(p)
    \/ AbortDeadlock(p)

Next == \E p \in Jobs : JobStep(p) \/ FailRow(p) \/ RetryImport(p) \/ Crash(p)

Spec == Init /\ [][Next]_vars

\* A job that can go on does, and PostgreSQL breaks deadlocks.
FairSpec == Spec /\ \A p \in Jobs : WF_vars(JobStep(p))

-----------------------------------------------------------------------------
(* Properties *)

Outcomes == {"pending", "created", "duplicate", "integrity", "invalid", "error"}

\* The tables, the jobs and their reports keep their type.
TypeOK ==
    /\ owner \in [Keys -> Jobs \cup {NoOne}]
    /\ centers \subseteq Centers
    /\ \A p \in Jobs :
         /\ job[p].pc \in {"exists", "center", "insert_center", "insert_batch", "commit",
                           "done", "failed"}
         /\ job[p].row \in DOMAIN Items[p]
         /\ job[p].keys \subseteq Keys
         /\ job[p].centers \subseteq Centers
         /\ result[p] \in [DOMAIN Items[p] -> Outcomes]
    /\ retried \subseteq Imports
    /\ failures \in 0..MaxFailures

\* A request creates all its batches or none of them, whatever it collides with.
AllOrNothing ==
    \A p \in Requests :
        (\E k \in Keys : owner[k] = p) =>
            \A i \in DOMAIN Items[p] : owner[Items[p][i].key] = p

\* The report of an import tells the truth about the table: a row reported created was
\* committed by this import and a row reported duplicate is in the table.
ReportIsTrue ==
    \A p \in Imports : \A i \in DOMAIN Items[p] :
        /\ result[p][i] = "created" => owner[Items[p][i].key] = p
        /\ result[p][i] = "duplicate" => owner[Items[p][i].key] # NoOne

\* Jobs never wait for each other, nor for one that has ended, without somebody being able
\* to go on or being on a cycle of waits, which PostgreSQL breaks: a transaction gives up
\* its keys however it ends.
SomeJobCanGoOn ==
    (\E p \in Jobs : Running(p)) =>
        \E p \in Jobs : Running(p) /\ (Waiting(p) => Deadlocked(p))

ReportedCreated ==
    UNION {{<<p, i>> : i \in {n \in DOMAIN Items[p] : result[p][n] = "created"}} : p \in Jobs}

Contract == INSTANCE CreationContract WITH created <- ReportedCreated

\* Creation is serializable: whatever lookups, inserts, waits and failures of the jobs
\* come in between, the tables and the reports change as if every request had created all
\* its batches in one step, and every import one row after the other, each with its work
\* center; and a key is never taken over, not even by another item of the same request.
ImplementsContract == Contract!Spec

\* Every job ends, even if two of them wait for each other's keys.
EveryJobEnds == \A p \in Jobs : Running(p) ~> ~Running(p)

=============================================================================
