-------------------------- MODULE BatchCreationProofs --------------------------
(***************************************************************************)
(* What overlapping requests and imports keep true, for any items and any  *)
(* number of failures: requests are all or nothing, batches have work      *)
(* centers, reports are true, creation is serial as CreationContract has   *)
(* it and the table changes as Production has it, and no wait hides from   *)
(* PostgreSQL.                                                             *)
(*                                                                         *)
(* The argument is about the keys that are inserted and not committed:     *)
(* they are not in the table and no two jobs have the same, so that a      *)
(* commit never takes a row over from another job; and a job that commits  *)
(* has the keys of the items of its transaction, all of them and no        *)
(* others.                                                                 *)
(***************************************************************************)
EXTENDS BatchCreation, WaitGraphProofs, TLAPS

Preparing == {"exists", "center", "insert_center", "insert_batch"}

JobType == [pc : Preparing \cup {"commit", "done", "failed"}, row : Int,
            keys : SUBSET Keys, centers : SUBSET Centers]

Types ==
    /\ owner \in [Keys -> Jobs \cup {NoOne}]
    /\ centers \subseteq Centers
    /\ job \in [Jobs -> JobType]
    /\ result = [p \in Jobs |-> result[p]]
    /\ \A p \in Jobs : result[p] \in [DOMAIN Items[p] -> Outcomes]

\* A key that is inserted and not committed belongs to one job and is not in the table.
Exclusive ==
    \A p \in Jobs : \A k \in job[p].keys :
        owner[k] = NoOne /\ \A q \in Jobs : k \in job[q].keys => p = q

\* Item i of p is inserted by the transaction of p.
Inserted(p, r, i) ==
    Items[p][i].key \in r.keys /\ Items[p][i].center \in centers \cup r.centers

\* What the transaction of p has inserted when p is at r.
Orderly(p, r) ==
    /\ r.row \in DOMAIN Items[p]
    /\ p \in Requests /\ r.pc \in Preparing =>
         \A i \in DOMAIN Items[p] : i < r.row => Inserted(p, r, i)
    /\ p \in Requests /\ r.pc = "commit" =>
         r.row = Len(Items[p]) /\ \A i \in DOMAIN Items[p] : Inserted(p, r, i)
    /\ p \in Imports /\ r.pc \in Preparing => r.keys = {}
    /\ p \in Imports /\ r.pc = "commit" => Inserted(p, r, r.row)
    /\ r.pc = "insert_batch" => Items[p][r.row].center \in centers \cup r.centers

AllOrderly == \A p \in Jobs : Orderly(p, job[p])

\* A request that owns a row has ended and owns all of them.
OwnersAreDone ==
    \A p \in Requests :
        (\E k \in Keys : owner[k] = p) =>
            job[p].pc = "done" /\ \A i \in DOMAIN Items[p] : owner[Items[p][i].key] = p

TrueOutcome(p, i) ==
    /\ result[p][i] = "created" => /\ owner[Items[p][i].key] = p
                                   /\ Items[p][i].center \in centers
    /\ p \in Imports /\ result[p][i] = "duplicate" => owner[Items[p][i].key] # NoOne

AllTrue == \A p \in Jobs : \A i \in DOMAIN Items[p] : TrueOutcome(p, i)

IInv == Types /\ Exclusive /\ AllOrderly /\ OwnersAreDone /\ AllTrue

-----------------------------------------------------------------------------
LEMMA ItemTypes ==
  ASSUME NEW p \in Jobs
  PROVE  /\ DOMAIN Items[p] = 1..Len(Items[p]) /\ Len(Items[p]) \in Nat \ {0}
         /\ \A i \in DOMAIN Items[p] : Items[p][i].key \in Keys /\ Items[p][i].center \in Centers
<1> DEFINE ItemType == [key : Keys, center : Centers, valid : BOOLEAN]
<1>1. Items[p] \in Seq(ItemType) /\ Len(Items[p]) > 0
  BY ItemsAssumption
<1>2. \A i \in ItemType : i.key \in Keys /\ i.center \in Centers
  OBVIOUS
<1> HIDE DEF ItemType
<1>3. DOMAIN Items[p] = 1..Len(Items[p]) /\ Len(Items[p]) \in Nat
  BY <1>1
<1>4. \A i \in DOMAIN Items[p] : Items[p][i] \in ItemType
  BY <1>1
<1> QED
  BY <1>1, <1>2, <1>3, <1>4

LEMMA InitInv == Init => IInv
<1> SUFFICES ASSUME Init PROVE IInv
  OBVIOUS
<1>1. FirstRow \in JobType /\ FirstRow.keys = {} /\ FirstRow.pc = "exists" /\ FirstRow.row = 1
  BY DEF FirstRow, JobType, Preparing
<1>2. \A p \in Jobs : job[p] = FirstRow
  BY DEF Init
<1>3. Types
  BY <1>1 DEF Init, Types, Pending, Outcomes
<1>4. Exclusive
  BY <1>1, <1>2 DEF Exclusive
<1>5. AllOrderly
  <2> SUFFICES ASSUME NEW p \in Jobs PROVE Orderly(p, FirstRow)
    BY <1>2 DEF AllOrderly
  <2> QED
    BY <1>1, ItemTypes DEF Orderly, Preparing
<1>6. OwnersAreDone
  BY JobsAssumption DEF Init, OwnersAreDone, Jobs
<1>7. AllTrue
  BY DEF Init, AllTrue, TrueOutcome, Pending
<1> QED
  BY <1>3, <1>4, <1>5, <1>6, <1>7 DEF IInv

-----------------------------------------------------------------------------
(* Steps that commit nothing *)

\* p goes to r, and item i, if any, gets outcome why; no key is inserted but k.
LEMMA QuietStep ==
  ASSUME IInv, NEW p \in Jobs, Running(p) \/ p \in Imports,
         NEW r \in JobType, Orderly(p, r),
         NEW k \in Keys, r.keys \subseteq job[p].keys \cup {k},
         k \in r.keys => owner[k] = NoOne /\ \A q \in Jobs \ {p} : k \notin job[q].keys,
         job' = [job EXCEPT ![p] = r],
         NEW s \in [DOMAIN Items[p] -> Outcomes],
         \A i \in DOMAIN Items[p] :
             \/ s[i] = result[p][i]
             \/ s[i] # "created" /\ (p \in Imports /\ s[i] = "duplicate" =>
                                        owner[Items[p][i].key] # NoOne),
         result' = [result EXCEPT ![p] = s],
         UNCHANGED <<owner, centers>>
  PROVE  IInv'
<1>1. \A q \in Jobs : job'[q] = IF q = p THEN r ELSE job[q]
  BY DEF IInv, Types
<1>2. \A q \in Jobs : result'[q] = IF q = p THEN s ELSE result[q]
  BY DEF IInv, Types
<1>3. Types'
  <2>1. job' \in [Jobs -> JobType]
    BY DEF IInv, Types
  <2>2. result' = [q \in Jobs |-> result'[q]]
    BY DEF IInv, Types
  <2>3. \A q \in Jobs : result'[q] \in [DOMAIN Items[q] -> Outcomes]
    BY <1>2 DEF IInv, Types
  <2> QED
    BY <2>1, <2>2, <2>3 DEF IInv, Types
<1>4. Exclusive'
  BY <1>1 DEF IInv, Exclusive
<1>5. AllOrderly'
  BY <1>1 DEF IInv, AllOrderly, Orderly, Inserted
<1>6. OwnersAreDone'
  <2>1. ASSUME NEW q \in Requests, NEW l \in Keys, owner[l] = q PROVE job'[q].pc = "done"
    <3>1. job[q].pc = "done" /\ q \in Jobs
      BY <2>1 DEF IInv, OwnersAreDone, Jobs
    <3>2. q # p
      BY <3>1, JobsAssumption DEF Running
    <3> QED
      BY <1>1, <3>1, <3>2
  <2> QED
    BY <2>1 DEF IInv, OwnersAreDone
<1>7. AllTrue'
  BY <1>2 DEF IInv, AllTrue, TrueOutcome
<1> QED
  BY <1>3, <1>4, <1>5, <1>6, <1>7 DEF IInv

\* p moves on, or stops, with no more keys than it has.
LEMMA MoveStep ==
  ASSUME IInv, NEW p \in Jobs, Running(p) \/ p \in Imports,
         NEW r \in JobType, Orderly(p, r), r.keys \subseteq job[p].keys,
         job' = [job EXCEPT ![p] = r], UNCHANGED <<owner, centers, result>>
  PROVE  IInv'
<1>1. result[p] \in [DOMAIN Items[p] -> Outcomes] /\ result' = [result EXCEPT ![p] = result[p]]
  BY DEF IInv, Types
<1>2. job[p].row \in DOMAIN Items[p] /\ Items[p][job[p].row].key \in Keys
  BY ItemTypes DEF IInv, AllOrderly, Orderly
<1>3. CASE Items[p][job[p].row].key \in r.keys
  <2>1. /\ owner[Items[p][job[p].row].key] = NoOne
        /\ \A q \in Jobs \ {p} : Items[p][job[p].row].key \notin job[q].keys
    BY <1>3 DEF IInv, Exclusive
  <2> QED
    BY <1>1, <1>2, <2>1, QuietStep
<1>4. CASE Items[p][job[p].row].key \notin r.keys
  BY <1>1, <1>2, <1>4, QuietStep
<1> QED
  BY <1>3, <1>4

\* The end of the transaction of p.
EndedRow(p) ==
    [pc |-> IF LastRow(p) THEN "done" ELSE "exists",
     row |-> IF LastRow(p) THEN job[p].row ELSE job[p].row + 1, keys |-> {}, centers |-> {}]

LEMMA EndedRowOrderly ==
  ASSUME IInv, NEW p \in Jobs, p \in Imports \/ LastRow(p)
  PROVE  /\ EndedRow(p) \in JobType /\ EndedRow(p).keys = {}
         /\ EndedRow(p).pc \in {"done", "exists"} /\ EndedRow(p).row \in DOMAIN Items[p]
         /\ p \in Requests => EndedRow(p).pc = "done"
<1>1. job[p].row \in DOMAIN Items[p] /\ job[p].row \in Int
  BY DEF IInv, Types, JobType, AllOrderly, Orderly
<1>2. (IF LastRow(p) THEN job[p].row ELSE job[p].row + 1) \in DOMAIN Items[p]
  BY <1>1, ItemTypes DEF LastRow
<1>3. (IF LastRow(p) THEN job[p].row ELSE job[p].row + 1) \in Int
  BY <1>1
<1> QED
  BY <1>2, <1>3, JobsAssumption DEF EndedRow, JobType, Preparing

LEMMA RefuseStep ==
  ASSUME IInv, NEW p \in Jobs, Running(p), NEW why \in Outcomes \ {"created"}, Refuse(p, why),
         p \in Imports /\ why = "duplicate" => owner[Item(p).key] # NoOne
  PROVE  IInv'
<1> DEFINE s == [result[p] EXCEPT ![job[p].row] = why]
<1>1. job[p].row \in DOMAIN Items[p] /\ Items[p][job[p].row].key \in Keys
  BY ItemTypes DEF IInv, AllOrderly, Orderly
<1>2. result' = [result EXCEPT ![p] = s] /\ UNCHANGED <<owner, centers>>
  BY DEF Refuse
<1>3. s \in [DOMAIN Items[p] -> Outcomes]
  BY DEF IInv, Types
<1>4. \A i \in DOMAIN Items[p] :
          \/ s[i] = result[p][i]
          \/ s[i] # "created" /\ (p \in Imports /\ s[i] = "duplicate" =>
                                     owner[Items[p][i].key] # NoOne)
  BY DEF IInv, Types, Item
<1> HIDE DEF s
<1>5. ASSUME NEW r \in JobType, Orderly(p, r), r.keys = {}, job' = [job EXCEPT ![p] = r]
      PROVE  IInv'
  BY <1>1, <1>2, <1>3, <1>4, <1>5, QuietStep
<1>6. CASE p \in Imports
  <2>1. job' = [job EXCEPT ![p] = EndedRow(p)]
    BY <1>6 DEF Refuse, EndRow, EndedRow
  <2>2. Orderly(p, EndedRow(p)) /\ EndedRow(p) \in JobType /\ EndedRow(p).keys = {}
    BY <1>6, EndedRowOrderly, JobsAssumption DEF Orderly
  <2> QED
    BY <1>5, <2>1, <2>2
<1>7. CASE p \notin Imports
  <2>1. job' = [job EXCEPT ![p] = Stopped(p)]
    BY <1>7 DEF Refuse
  <2>2. /\ Stopped(p) \in JobType /\ Stopped(p).keys = {} /\ Stopped(p).pc = "failed"
        /\ Stopped(p).row = job[p].row
    BY DEF Stopped, FirstRow, JobType, IInv, Types
  <2>3. Orderly(p, Stopped(p))
    BY <1>1, <2>2 DEF Orderly, Preparing
  <2> QED
    BY <1>5, <2>1, <2>2, <2>3
<1> QED
  BY <1>6, <1>7

-----------------------------------------------------------------------------
(* The actions *)

\* What the steps below use of the invariant.
LEMMA JobFacts ==
  ASSUME IInv, NEW p \in Jobs
  PROVE  /\ job[p] \in JobType /\ Orderly(p, job[p]) /\ job[p].row \in 1..Len(Items[p])
         /\ Item(p).key \in Keys /\ Item(p).center \in Centers
  BY ItemTypes DEF IInv, Types, AllOrderly, Orderly, Item

LEMMA GotoStep ==
  ASSUME IInv, NEW p \in Jobs, job[p].pc \in Preparing,
         NEW label \in {"center", "insert_center", "insert_batch"}, Goto(p, label),
         label = "insert_batch" => Item(p).center \in centers \cup job[p].centers,
         UNCHANGED <<owner, centers, result>>
  PROVE  IInv'
<1> DEFINE r == [job[p] EXCEPT !.pc = label]
<1>1. /\ r \in JobType /\ r.pc = label /\ r.row = job[p].row /\ r.keys = job[p].keys
      /\ r.centers = job[p].centers
  BY JobFacts DEF JobType, Preparing
<1>2. job' = [job EXCEPT ![p] = r]
  BY DEF Goto, IInv, Types, JobType
<1> HIDE DEF r
<1>3. Orderly(p, r)
  BY <1>1, JobFacts DEF Orderly, Inserted, Preparing, Item
<1> QED
  BY <1>1, <1>2, <1>3, MoveStep DEF Running, Preparing

LEMMA CheckInv == ASSUME IInv, NEW p \in Jobs, CheckExists(p) PROVE IInv'
<1>1. Running(p) /\ job[p].pc \in Preparing
  BY DEF CheckExists, Running, Preparing
<1>2. CASE Refuse(p, "invalid")
  BY <1>1, <1>2, RefuseStep DEF Outcomes
<1>3. CASE KeyVisible(p) /\ Refuse(p, "duplicate")
  <2>1. p \in Imports => owner[Item(p).key] # NoOne
    BY <1>1, <1>3, JobFacts DEF KeyVisible, Orderly
  <2> QED
    BY <1>1, <1>3, <2>1, RefuseStep DEF Outcomes
<1>4. CASE Goto(p, "center") /\ UNCHANGED <<owner, centers, result>>
  BY <1>1, <1>4, GotoStep
<1> QED
  BY <1>2, <1>3, <1>4 DEF CheckExists

LEMMA ResolveInv == ASSUME IInv, NEW p \in Jobs, ResolveCenter(p) PROVE IInv'
<1>1. job[p].pc \in Preparing /\ UNCHANGED <<owner, centers, result>>
  BY DEF ResolveCenter, Preparing
<1>2. CASE CenterVisible(p)
  BY <1>1, <1>2, GotoStep DEF ResolveCenter, CenterVisible
<1>3. CASE ~CenterVisible(p)
  BY <1>1, <1>3, GotoStep DEF ResolveCenter
<1> QED
  BY <1>2, <1>3

LEMMA InsertCenterInv == ASSUME IInv, NEW p \in Jobs, InsertCenter(p) PROVE IInv'
<1>1. Running(p) /\ job[p].pc = "insert_center"
  BY DEF InsertCenter, Running
<1>2. CASE Refuse(p, "integrity")
  BY <1>1, <1>2, RefuseStep DEF Outcomes
<1>3. CASE ~Refuse(p, "integrity")
  <2> DEFINE r == [job[p] EXCEPT !.pc = "insert_batch",
                                 !.centers = job[p].centers \cup {Item(p).center}]
  <2>1. /\ r \in JobType /\ r.pc = "insert_batch" /\ r.row = job[p].row
        /\ r.keys = job[p].keys /\ r.centers = job[p].centers \cup {Item(p).center}
    BY JobFacts DEF JobType, Preparing
  <2>2. job' = [job EXCEPT ![p] = r] /\ UNCHANGED <<owner, centers, result>>
    BY <1>3 DEF InsertCenter, IInv, Types, JobType
  <2> HIDE DEF r
  <2>3. Orderly(p, r)
    BY <1>1, <2>1, JobFacts DEF Orderly, Inserted, Preparing, Item
  <2> QED
    BY <1>1, <2>1, <2>2, <2>3, MoveStep
<1> QED
  BY <1>2, <1>3

LEMMA InsertBatchInv == ASSUME IInv, NEW p \in Jobs, InsertBatch(p) PROVE IInv'
<1>1. Running(p) /\ job[p].pc = "insert_batch"
  BY DEF InsertBatch, Running
<1>2. CASE Refuse(p, "integrity")
  BY <1>1, <1>2, RefuseStep DEF Outcomes
<1>3. CASE ~Refuse(p, "integrity")
  <2> DEFINE last == CommitsAfterRow(p)
             r == [pc |-> IF last THEN "commit" ELSE "exists",
                   row |-> IF last THEN job[p].row ELSE job[p].row + 1,
                   keys |-> job[p].keys \cup {Item(p).key}, centers |-> job[p].centers]
  <2>1. /\ job' = [job EXCEPT ![p] = r] /\ UNCHANGED <<owner, centers, result>>
        /\ owner[Item(p).key] = NoOne /\ ~Waiting(p)
    BY <1>3 DEF InsertBatch
  <2>2. \A q \in Jobs \ {p} : Item(p).key \notin job[q].keys
    BY <1>1, <2>1 DEF Waiting, WaitsFor
  <2>3. r \in JobType
    <3>1. job[p].row + 1 \in Int
      BY JobFacts DEF JobType
    <3> QED
      BY <3>1, JobFacts DEF JobType, Preparing
  <2>4. /\ last => r.pc = "commit" /\ r.row = job[p].row
        /\ ~last => r.pc = "exists" /\ r.row = job[p].row + 1
        /\ r.keys = job[p].keys \cup {Item(p).key} /\ r.centers = job[p].centers
    OBVIOUS
  <2>5. result[p] \in [DOMAIN Items[p] -> Outcomes] /\ result' = [result EXCEPT ![p] = result[p]]
    BY <2>1 DEF IInv, Types
  <2>6. Item(p).key \in Keys /\ r.keys \subseteq job[p].keys \cup {Item(p).key}
    BY JobFacts
  <2>7. last => p \in Imports \/ job[p].row = Len(Items[p])
    BY DEF CommitsAfterRow, LastRow
  <2>8. ~last => p \notin Imports /\ job[p].row # Len(Items[p])
    BY DEF CommitsAfterRow, LastRow
  <2> HIDE DEF r, last
  <2>9. Orderly(p, r)
    <3>1. Inserted(p, r, job[p].row)
      BY <1>1, <2>4, JobFacts DEF Orderly, Inserted, Item
    <3>2. p \in Requests => \A i \in DOMAIN Items[p] : i < job[p].row => Inserted(p, r, i)
      BY <1>1, <2>4, JobFacts DEF Orderly, Inserted, Preparing
    <3>3. CASE last
      <4>1. p \in Requests => job[p].row = Len(Items[p])
        BY <2>7, <3>3, JobsAssumption
      <4>2. p \in Requests => \A i \in DOMAIN Items[p] : Inserted(p, r, i)
        BY <3>1, <3>2, <4>1, ItemTypes
      <4> QED
        BY <2>4, <3>1, <3>3, <4>1, <4>2, JobFacts, ItemTypes DEF Orderly, Preparing
    <3>4. CASE ~last
      <4>1. job[p].row + 1 \in DOMAIN Items[p]
        BY <2>8, <3>4, JobFacts, ItemTypes
      <4>2. p \in Requests => \A i \in DOMAIN Items[p] : i < job[p].row + 1 => Inserted(p, r, i)
        BY <3>1, <3>2, JobFacts, ItemTypes
      <4> QED
        BY <2>4, <2>8, <3>4, <4>1, <4>2 DEF Orderly, Preparing
    <3> QED
      BY <3>3, <3>4
  <2> QED
    BY <1>1, <2>1, <2>2, <2>3, <2>5, <2>6, <2>9, QuietStep
<1> QED
  BY <1>2, <1>3

LEMMA CommitInv == ASSUME IInv, NEW p \in Jobs, CommitRow(p) PROVE IInv'
<1>1. /\ job[p].pc = "commit" /\ job[p].row \in DOMAIN Items[p] /\ Inserted(p, job[p], job[p].row)
      /\ p \in Requests => LastRow(p) /\ \A i \in DOMAIN Items[p] : Inserted(p, job[p], i)
  BY JobFacts, ItemTypes DEF CommitRow, Orderly, LastRow, Jobs
<1>2. \A q \in Jobs : job'[q] = IF q = p THEN EndedRow(p) ELSE job[q]
  BY DEF CommitRow, EndRow, EndedRow, IInv, Types
<1>3. /\ EndedRow(p) \in JobType /\ EndedRow(p).keys = {}
      /\ EndedRow(p).pc \in {"done", "exists"} /\ EndedRow(p).row \in DOMAIN Items[p]
      /\ p \in Requests => EndedRow(p).pc = "done"
  BY <1>1, EndedRowOrderly DEF Jobs
<1>4. /\ \A k \in Keys : owner'[k] = IF k \in job[p].keys THEN p ELSE owner[k]
      /\ centers' = centers \cup job[p].centers
  BY DEF CommitRow
<1>5. \A k \in Keys : owner[k] # NoOne => owner'[k] = owner[k]
  BY <1>4 DEF IInv, Exclusive
<1>6. \A i \in DOMAIN Items[p] : Inserted(p, job[p], i) =>
          owner'[Items[p][i].key] = p /\ Items[p][i].center \in centers'
  BY <1>4, ItemTypes DEF Inserted
<1> DEFINE s == [i \in DOMAIN Items[p] |->
                    IF p \in Requests \/ i = job[p].row THEN "created" ELSE result[p][i]]
<1>7. /\ s \in [DOMAIN Items[p] -> Outcomes] /\ result' = [result EXCEPT ![p] = s]
      /\ \A i \in DOMAIN Items[p] :
           s[i] = IF p \in Requests \/ i = job[p].row THEN "created" ELSE result[p][i]
  BY DEF CommitRow, IInv, Types, Outcomes
<1> HIDE DEF s
<1>8. \A q \in Jobs : result'[q] = IF q = p THEN s ELSE result[q]
  BY <1>7 DEF IInv, Types
<1>9. Types'
  <2>1. owner' \in [Keys -> Jobs \cup {NoOne}] /\ centers' \subseteq Centers
    BY <1>4, JobFacts DEF CommitRow, IInv, Types, JobType
  <2>2. job' \in [Jobs -> JobType]
    BY <1>3 DEF CommitRow, EndRow, EndedRow, IInv, Types
  <2>3. result' = [q \in Jobs |-> result'[q]]
    BY <1>7 DEF IInv, Types
  <2>4. \A q \in Jobs : result'[q] \in [DOMAIN Items[q] -> Outcomes]
    BY <1>7, <1>8 DEF IInv, Types
  <2> QED
    BY <2>1, <2>2, <2>3, <2>4 DEF Types
<1>10. Exclusive'
  <2> SUFFICES ASSUME NEW q \in Jobs, NEW k \in job'[q].keys
               PROVE  owner'[k] = NoOne /\ \A x \in Jobs : k \in job'[x].keys => q = x
    BY DEF Exclusive
  <2>1. q # p /\ k \in job[q].keys /\ k \in Keys
    BY <1>2, <1>3 DEF IInv, Types, JobType
  <2>2. k \notin job[p].keys /\ owner[k] = NoOne
    BY <2>1 DEF IInv, Exclusive
  <2> QED
    BY <1>2, <1>3, <1>4, <2>1, <2>2 DEF IInv, Exclusive
<1>11. AllOrderly'
  <2> SUFFICES ASSUME NEW q \in Jobs PROVE Orderly(q, job[q])'
    BY DEF AllOrderly
  <2>1. CASE q = p
    <3>1. job'[q] = EndedRow(p)
      BY <1>2, <2>1
    <3> QED
      BY <1>3, <2>1, <3>1, JobsAssumption DEF Orderly, Preparing, Jobs
  <2>2. CASE q # p
    <3>1. job'[q] = job[q] /\ Orderly(q, job[q])
      BY <1>2, <2>2 DEF IInv, AllOrderly
    <3>2. \A i : Inserted(q, job[q], i) => Inserted(q, job[q], i)'
      BY <1>4, <3>1 DEF Inserted
    <3> QED
      BY <1>4, <3>1, <3>2 DEF Orderly
  <2> QED
    BY <2>1, <2>2
<1>12. OwnersAreDone'
  <2> SUFFICES ASSUME NEW q \in Requests, NEW k \in Keys, owner'[k] = q
               PROVE  job'[q].pc = "done" /\ \A i \in DOMAIN Items[q] : owner'[Items[q][i].key] = q
    BY DEF OwnersAreDone
  <2>1. q \in Jobs /\ q # NoOne
    BY JobsAssumption DEF Jobs
  <2>2. CASE q = p
    BY <1>1, <1>2, <1>3, <1>6, <2>1, <2>2
  <2>3. CASE q # p
    <3>1. job[q].pc = "done" /\ \A i \in DOMAIN Items[q] : owner[Items[q][i].key] = q
      BY <1>4, <2>3 DEF IInv, OwnersAreDone
    <3> QED
      BY <1>2, <1>5, <2>1, <2>3, <3>1, ItemTypes
  <2> QED
    BY <2>2, <2>3
<1>13. AllTrue'
  <2> SUFFICES ASSUME NEW q \in Jobs, NEW i \in DOMAIN Items[q] PROVE TrueOutcome(q, i)'
    BY DEF AllTrue
  <2>1. TrueOutcome(q, i) /\ Items[q][i].key \in Keys /\ q # NoOne
    BY ItemTypes, JobsAssumption DEF IInv, AllTrue
  <2>2. CASE result'[q][i] = result[q][i]
    BY <1>4, <1>5, <2>1, <2>2 DEF TrueOutcome
  <2>3. CASE result'[q][i] # result[q][i]
    <3>1. q = p /\ result'[q][i] = "created" /\ Inserted(p, job[p], i)
      BY <1>1, <1>7, <1>8, <2>3
    <3> QED
      BY <1>6, <3>1 DEF TrueOutcome
  <2> QED
    BY <2>2, <2>3
<1> QED
  BY <1>9, <1>10, <1>11, <1>12, <1>13 DEF IInv

LEMMA RetryInv == ASSUME IInv, NEW p \in Jobs, RetryImport(p) PROVE IInv'
<1>1. p \in Imports /\ job' = [job EXCEPT ![p] = FirstRow] /\ UNCHANGED <<owner, centers>>
  BY DEF RetryImport
<1>2. /\ FirstRow \in JobType /\ FirstRow.keys = {} /\ FirstRow.pc = "exists"
      /\ FirstRow.row = 1
  BY DEF FirstRow, JobType, Preparing
<1>3. Orderly(p, FirstRow)
  BY <1>1, <1>2, ItemTypes, JobsAssumption DEF Orderly
<1>4. /\ Pending(p) \in [DOMAIN Items[p] -> Outcomes]
      /\ \A i \in DOMAIN Items[p] : Pending(p)[i] = "pending"
      /\ result' = [result EXCEPT ![p] = Pending(p)]
  BY DEF Pending, Outcomes, RetryImport
<1>5. Item(p).key \in Keys
  BY JobFacts
<1> QED
  BY <1>1, <1>2, <1>3, <1>4, <1>5, QuietStep

LEMMA CrashInv == ASSUME IInv, NEW p \in Jobs, Crash(p) PROVE IInv'
<1>1. /\ Stopped(p) \in JobType /\ Stopped(p).keys = {} /\ Stopped(p).pc = "failed"
      /\ Stopped(p).row = job[p].row
  BY DEF Stopped, FirstRow, JobType, IInv, Types
<1>2. Orderly(p, Stopped(p))
  BY <1>1, JobFacts DEF Orderly, Preparing
<1> QED
  BY <1>1, <1>2, MoveStep DEF Crash

LEMMA NextInv == IInv /\ [Next]_vars => IInv'
<1> SUFFICES ASSUME IInv, [Next]_vars PROVE IInv'
  OBVIOUS
<1>1. CASE UNCHANGED vars
  BY <1>1 DEF vars, IInv, Types, Exclusive, AllOrderly, Orderly, Inserted, OwnersAreDone, AllTrue,
     TrueOutcome
<1>2. ASSUME NEW p \in Jobs, AbortDeadlock(p) \/ FailRow(p) PROVE IInv'
  <2>1. Running(p) /\ Refuse(p, "error")
    BY <1>2 DEF AbortDeadlock, FailRow, Deadlocked, Waiting, WaitsFor, Running
  <2> QED
    BY <2>1, RefuseStep DEF Outcomes
<1> QED
  BY <1>1, <1>2, CheckInv, ResolveInv, InsertCenterInv, InsertBatchInv, CommitInv, RetryInv,
     CrashInv DEF Next, JobStep

-----------------------------------------------------------------------------
LEMMA AlwaysIInv == Spec => []IInv
  BY InitInv, NextInv, PTL DEF Spec

\* A request creates all its batches or none, however it overlaps and fails.
THEOREM RequestsAreAtomic == Spec => []AllOrNothing
<1>1. IInv => AllOrNothing
  BY DEF IInv, OwnersAreDone, AllOrNothing
<1> QED
  BY <1>1, AlwaysIInv, PTL

\* What an import reports as created it has committed, and what it reports as duplicate is in
\* the table, also after the import was retried.
THEOREM ReportsAreTrue == Spec => []ReportIsTrue
<1>1. IInv => ReportIsTrue
  BY DEF IInv, AllTrue, TrueOutcome, ReportIsTrue, Jobs
<1> QED
  BY <1>1, AlwaysIInv, PTL

\* Only imports are retried, and failures are counted up to their bound.
Counters == retried \subseteq Imports /\ failures \in 0..MaxFailures

LEMMA CountersInv == Counters /\ [Next]_vars => Counters'
<1> SUFFICES ASSUME Counters, [Next]_vars PROVE Counters'
  OBVIOUS
<1>1. \/ UNCHANGED <<retried, failures>>
      \/ /\ failures < MaxFailures /\ failures' = failures + 1
         /\ \/ UNCHANGED retried
            \/ \E p \in Imports : retried' = retried \cup {p}
  BY DEF Next, JobStep, CheckExists, ResolveCenter, InsertCenter, InsertBatch, CommitRow,
     AbortDeadlock, FailRow, RetryImport, Crash, vars
<1> QED
  BY <1>1, BoundsAssumption DEF Counters

\* Table, jobs and results keep their type: a job never runs past its last item.
THEOREM TypeCorrect == Spec => []TypeOK
<1>1. Init => Counters
  BY BoundsAssumption DEF Init, Counters
<1>2. IInv /\ Counters => TypeOK
  BY DEF IInv, Types, JobType, Preparing, AllOrderly, Orderly, Counters, TypeOK
<1> QED
  BY <1>1, <1>2, CountersInv, AlwaysIInv, PTL DEF Spec

-----------------------------------------------------------------------------
(* Waiting *)

\* However a job ends, it gives up what it has inserted and not committed.
Released(r) == r.pc \in {"done", "failed"} => r.keys = {} /\ r.centers = {}

AllReleased == \A p \in Jobs : Released(job[p])

LEMMA ReleasedInit == Init => AllReleased
  BY DEF Init, FirstRow, AllReleased, Released

LEMMA ReleasedStep ==
    ASSUME IInv, AllReleased, NEW p \in Jobs, NEW r, job' = [job EXCEPT ![p] = r], Released(r)
    PROVE  AllReleased'
<1>1. \A q \in Jobs : job'[q] = IF q = p THEN r ELSE job[q]
  BY DEF IInv, Types
<1> QED
  BY <1>1 DEF AllReleased

LEMMA ReleasedStopped == \A p : Released(Stopped(p))
  BY DEF Released, Stopped, FirstRow

LEMMA ReleasedEndRow ==
    ASSUME IInv, AllReleased, NEW p \in Jobs, EndRow(p) PROVE AllReleased'
<1> DEFINE r == [pc |-> IF LastRow(p) THEN "done" ELSE "exists",
                 row |-> IF LastRow(p) THEN job[p].row ELSE job[p].row + 1,
                 keys |-> {}, centers |-> {}]
<1>1. Released(r)
  BY DEF Released
<1>2. job' = [job EXCEPT ![p] = r]
  BY DEF EndRow
<1> HIDE DEF r
<1> QED
  BY <1>1, <1>2, ReleasedStep

LEMMA ReleasedRefuse ==
    ASSUME IInv, AllReleased, NEW p \in Jobs, NEW why, Refuse(p, why) PROVE AllReleased'
<1>1. EndRow(p) \/ job' = [job EXCEPT ![p] = Stopped(p)]
  BY DEF Refuse
<1> QED
  BY <1>1, ReleasedEndRow, ReleasedStep, ReleasedStopped

LEMMA ReleasedGoto ==
    ASSUME IInv, AllReleased, NEW p \in Jobs, NEW label, Goto(p, label),
           label \notin {"done", "failed"}
    PROVE  AllReleased'
<1>1. job' = [job EXCEPT ![p] = [job[p] EXCEPT !.pc = label]]
  BY DEF Goto
<1>2. Released([job[p] EXCEPT !.pc = label])
  BY DEF Released, IInv, Types, JobType
<1> QED
  BY <1>1, <1>2, ReleasedStep

LEMMA ReleasedNext == IInv /\ AllReleased /\ [Next]_vars => AllReleased'
<1> SUFFICES ASSUME IInv, AllReleased, [Next]_vars PROVE AllReleased'
  OBVIOUS
<1>1. CASE UNCHANGED vars
  BY <1>1 DEF vars, AllReleased
<1>2. ASSUME NEW p \in Jobs, CheckExists(p) \/ ResolveCenter(p) PROVE AllReleased'
  <2>1. \/ \E why : Refuse(p, why)
        \/ \E label \in {"center", "insert_batch", "insert_center"} : Goto(p, label)
    BY <1>2 DEF CheckExists, ResolveCenter
  <2> QED
    BY <2>1, ReleasedRefuse, ReleasedGoto
<1>3. ASSUME NEW p \in Jobs, InsertCenter(p) PROVE AllReleased'
  <2> DEFINE r == [job[p] EXCEPT !.pc = "insert_batch",
                                 !.centers = @ \cup {Item(p).center}]
  <2>1. Refuse(p, "integrity") \/ job' = [job EXCEPT ![p] = r]
    BY <1>3 DEF InsertCenter, IInv, Types, JobType
  <2>2. r.pc = "insert_batch"
    BY DEF IInv, Types, JobType
  <2> HIDE DEF r
  <2>3. Released(r)
    BY <2>2 DEF Released
  <2> QED
    BY <2>1, <2>3, ReleasedRefuse, ReleasedStep
<1>4. ASSUME NEW p \in Jobs, InsertBatch(p) PROVE AllReleased'
  <2> DEFINE r == [pc |-> IF CommitsAfterRow(p) THEN "commit" ELSE "exists",
                   row |-> IF CommitsAfterRow(p) THEN job[p].row ELSE job[p].row + 1,
                   keys |-> job[p].keys \cup {Item(p).key},
                   centers |-> job[p].centers]
  <2>1. Refuse(p, "integrity") \/ job' = [job EXCEPT ![p] = r]
    BY <1>4 DEF InsertBatch
  <2>2. Released(r)
    BY DEF Released
  <2> HIDE DEF r
  <2> QED
    BY <2>1, <2>2, ReleasedRefuse, ReleasedStep
<1>5. ASSUME NEW p \in Jobs, CommitRow(p) \/ AbortDeadlock(p) \/ FailRow(p) PROVE AllReleased'
  BY <1>5, ReleasedEndRow, ReleasedRefuse DEF CommitRow, AbortDeadlock, FailRow
<1>6. ASSUME NEW p \in Jobs, RetryImport(p) \/ Crash(p) PROVE AllReleased'
  <2>1. Released(FirstRow)
    BY DEF Released, FirstRow
  <2> QED
    BY <1>6, <2>1, ReleasedStep, ReleasedStopped DEF RetryImport, Crash
<1> QED
  BY <1>1, <1>2, <1>3, <1>4, <1>5, <1>6 DEF Next, JobStep

\* A job that waits runs, and so does the one it waits for.
LEMMA WaitersRun ==
    ASSUME AllReleased, NEW p \in Jobs, NEW q \in Jobs, WaitsFor(p, q)
    PROVE  Running(p) /\ Running(q)
  BY DEF WaitsFor, AllReleased, Released, Running

\* Were all running jobs to wait, finitely many would wait for each other alone.
LEMMA NobodyStuck == AllReleased => SomeJobCanGoOn
<1> SUFFICES ASSUME AllReleased, NEW p0 \in Jobs, Running(p0),
                    \A p \in Jobs : Running(p) => Waiting(p)
             PROVE  \E p \in Jobs : Running(p) /\ Deadlocked(p)
  BY DEF SomeJobCanGoOn
<1> DEFINE W == {p \in Jobs : Running(p)}
           waits == {w \in Jobs \X Jobs : WaitsFor(w[1], w[2])}
<1>1. IsFiniteSet(W) /\ W # {}
  BY JobsAssumption, FS_Subset
<1>2. waits \in SUBSET (W \X W)
  BY WaitersRun
<1>3. \A x \in W : \E y \in W : <<x, y>> \in waits
  <2> SUFFICES ASSUME NEW x \in W PROVE \E y \in W : <<x, y>> \in waits
    OBVIOUS
  <2>1. PICK y \in Jobs : WaitsFor(x, y)
    BY DEF Waiting
  <2> QED
    BY <2>1, WaitersRun
<1> HIDE DEF W, waits
<1>4. PICK p \in W : OnCycle(p, waits)
  BY <1>1, <1>2, <1>3, SomeoneOnCycle
<1> QED
  BY <1>4 DEF W, waits, Deadlocked

\* For any number of requests and imports: while one of them runs, some running job can go on
\* or is aborted by PostgreSQL.
THEOREM NoHiddenDeadlock == Spec => []SomeJobCanGoOn
  BY ReleasedInit, ReleasedNext, NobodyStuck, AlwaysIInv, PTL DEF Spec

-----------------------------------------------------------------------------
(* Advancing *)

Stage == [exists |-> 0, center |-> 1, insert_center |-> 2, insert_batch |-> 3, commit |-> 4,
          done |-> 5, failed |-> 5]

\* s is later in the list of items than r, or further with the same item.
Later(r, s) == s.row > r.row \/ (s.row = r.row /\ Stage[s.pc] > Stage[r.pc])

\* The one way back is the retry of an import, which it has once.
JobsAdvance ==
    \A p \in Jobs : job'[p] # job[p] =>
        Later(job[p], job'[p]) \/ (p \in Imports \ retried /\ p \in retried')

LEMMA AdvanceStep ==
    ASSUME IInv, NEW p \in Jobs, NEW r, job' = [job EXCEPT ![p] = r], Later(job[p], r)
    PROVE  JobsAdvance
<1>1. \A q \in Jobs : job'[q] = IF q = p THEN r ELSE job[q]
  BY DEF IInv, Types
<1> QED
  BY <1>1 DEF JobsAdvance

LEMMA LaterStopped ==
    ASSUME IInv, NEW p \in Jobs, Running(p) PROVE Later(job[p], Stopped(p))
<1>1. job[p].pc \in Preparing \cup {"commit"} /\ job[p].row \in Int
  BY DEF IInv, Types, JobType, Running
<1>2. Stopped(p).row = job[p].row /\ Stopped(p).pc = "failed"
  BY DEF Stopped, FirstRow
<1> QED
  BY <1>1, <1>2 DEF Later, Stage, Preparing

LEMMA AdvanceEndRow ==
    ASSUME IInv, NEW p \in Jobs, Running(p), EndRow(p) PROVE JobsAdvance
<1> DEFINE r == [pc |-> IF LastRow(p) THEN "done" ELSE "exists",
                 row |-> IF LastRow(p) THEN job[p].row ELSE job[p].row + 1,
                 keys |-> {}, centers |-> {}]
<1>1. job[p].pc \in Preparing \cup {"commit"} /\ job[p].row \in Int
  BY DEF IInv, Types, JobType, Running
<1>2. Later(job[p], r)
  BY <1>1 DEF Later, Stage, Preparing
<1>3. job' = [job EXCEPT ![p] = r]
  BY DEF EndRow
<1> HIDE DEF r
<1> QED
  BY <1>2, <1>3, AdvanceStep

LEMMA AdvanceRefuse ==
    ASSUME IInv, NEW p \in Jobs, Running(p), NEW why, Refuse(p, why) PROVE JobsAdvance
<1>1. EndRow(p) \/ job' = [job EXCEPT ![p] = Stopped(p)]
  BY DEF Refuse
<1> QED
  BY <1>1, AdvanceEndRow, AdvanceStep, LaterStopped

LEMMA AdvanceGoto ==
    ASSUME IInv, NEW p \in Jobs, NEW label, Goto(p, label), Stage[label] > Stage[job[p].pc]
    PROVE  JobsAdvance
<1> DEFINE r == [job[p] EXCEPT !.pc = label]
<1>1. r.row = job[p].row /\ r.pc = label
  BY DEF IInv, Types, JobType
<1>2. job' = [job EXCEPT ![p] = r]
  BY DEF Goto
<1> HIDE DEF r
<1> QED
  BY <1>1, <1>2, AdvanceStep DEF Later

LEMMA NextAdvances == IInv /\ Next => JobsAdvance
<1> SUFFICES ASSUME IInv, NEW p \in Jobs,
                    JobStep(p) \/ FailRow(p) \/ RetryImport(p) \/ Crash(p)
             PROVE  JobsAdvance
  BY DEF Next
<1>1. job[p] \in JobType /\ job[p].row \in Int
  BY DEF IInv, Types, JobType
<1>2. ASSUME Running(p), NEW why, Refuse(p, why) PROVE JobsAdvance
  BY <1>2, AdvanceRefuse
<1>3. CASE CheckExists(p)
  <2>1. Running(p) /\ ((\E why : Refuse(p, why)) \/ Goto(p, "center"))
    BY <1>3 DEF CheckExists, Running
  <2>2. Stage["center"] > Stage[job[p].pc]
    BY <1>3 DEF CheckExists, Stage
  <2> QED
    BY <1>2, <2>1, <2>2, AdvanceGoto
<1>4. CASE ResolveCenter(p)
  <2>1. Goto(p, "insert_batch") \/ Goto(p, "insert_center")
    BY <1>4 DEF ResolveCenter
  <2>2. Stage["insert_batch"] > Stage[job[p].pc] /\ Stage["insert_center"] > Stage[job[p].pc]
    BY <1>4 DEF ResolveCenter, Stage
  <2> QED
    BY <2>1, <2>2, AdvanceGoto
<1>5. CASE InsertCenter(p)
  <2> DEFINE r == [job[p] EXCEPT !.pc = "insert_batch", !.centers = @ \cup {Item(p).center}]
  <2>1. Running(p) /\ job[p].pc = "insert_center"
    BY <1>5 DEF InsertCenter, Running
  <2>2. Refuse(p, "integrity") \/ job' = [job EXCEPT ![p] = r]
    BY <1>5 DEF InsertCenter, IInv, Types, JobType
  <2>3. r.row = job[p].row /\ r.pc = "insert_batch"
    BY <1>1 DEF JobType
  <2> HIDE DEF r
  <2>4. Later(job[p], r)
    BY <2>1, <2>3 DEF Later, Stage
  <2> QED
    BY <1>2, <2>1, <2>2, <2>4, AdvanceStep
<1>6. CASE InsertBatch(p)
  <2> DEFINE r == [pc |-> IF CommitsAfterRow(p) THEN "commit" ELSE "exists",
                   row |-> IF CommitsAfterRow(p) THEN job[p].row ELSE job[p].row + 1,
                   keys |-> job[p].keys \cup {Item(p).key},
                   centers |-> job[p].centers]
  <2>1. Running(p) /\ job[p].pc = "insert_batch"
    BY <1>6 DEF InsertBatch, Running
  <2>2. Refuse(p, "integrity") \/ job' = [job EXCEPT ![p] = r]
    BY <1>6 DEF InsertBatch
  <2>3. Later(job[p], r)
    BY <1>1, <2>1 DEF Later, Stage
  <2> HIDE DEF r
  <2> QED
    BY <1>2, <2>1, <2>2, <2>3, AdvanceStep
<1>7. CASE CommitRow(p)
  BY <1>7, AdvanceEndRow DEF CommitRow, Running
<1>8. CASE AbortDeadlock(p) \/ FailRow(p)
  <2>1. Running(p) /\ Refuse(p, "error")
    BY <1>8 DEF AbortDeadlock, FailRow, Deadlocked, Waiting, WaitsFor, Running
  <2> QED
    BY <1>2, <2>1
<1>9. CASE RetryImport(p)
  BY <1>9 DEF RetryImport, JobsAdvance, IInv, Types
<1>10. CASE Crash(p)
  BY <1>10, LaterStopped, AdvanceStep DEF Crash
<1> QED
  BY <1>3, <1>4, <1>5, <1>6, <1>7, <1>8, <1>9, <1>10 DEF JobStep

\* Every step of a job brings it closer to its end, or is the one retry of an import.  With
\* NoHiddenDeadlock this is what EveryJobEnds rests on: no job runs for ever, and while one
\* runs some job can go on.
THEOREM NoStepBack == Spec => [][JobsAdvance]_vars
<1>1. IInv /\ [Next]_vars => [JobsAdvance]_vars
  BY NextAdvances
<1> QED
  BY <1>1, AlwaysIInv, PTL DEF Spec

-----------------------------------------------------------------------------
(* The contract *)

\* The items that the transaction of p, at r, has inserted.
Txn(p, r) == {i \in DOMAIN Items[p] :
                 \/ p \in Requests /\ (i < r.row \/ r.pc = "commit")
                 \/ p \in Imports /\ i = r.row /\ r.pc = "commit"}

\* The transaction of p holds nothing but its items, all valid and with different keys; the
\* items it has still to create are not reported as created.
Exact(p, r, s) ==
    r.pc \in Preparing \cup {"commit"} =>
        /\ r.keys \subseteq {Items[p][i].key : i \in Txn(p, r)}
        /\ r.centers \subseteq {Items[p][i].center : i \in Txn(p, r) \cup {r.row}}
        /\ \A i, j \in Txn(p, r) : Items[p][i].key = Items[p][j].key => i = j
        /\ \A i \in Txn(p, r) : Items[p][i].valid
        /\ r.pc # "exists" => Items[p][r.row].valid
        /\ r.pc \in {"center", "insert_center", "insert_batch"} =>
              Items[p][r.row].key \notin r.keys
        /\ \A i \in DOMAIN Items[p] : i >= r.row => s[i] # "created"

AllExact == \A p \in Jobs : Exact(p, job[p], result[p])

LEMMA ExactInit == Init => AllExact
<1> SUFFICES ASSUME Init, NEW p \in Jobs PROVE Exact(p, job[p], result[p])
  BY DEF AllExact
<1>1. /\ job[p].pc = "exists" /\ job[p].row = 1 /\ job[p].keys = {} /\ job[p].centers = {}
      /\ \A i \in DOMAIN Items[p] : result[p][i] = "pending"
  BY DEF Init, FirstRow, Pending
<1>2. Txn(p, job[p]) = {}
  BY <1>1, ItemTypes DEF Txn
<1> QED
  BY <1>1, <1>2 DEF Exact

\* A step of p that leaves it with the record r and the results s.
LEMMA ExactStep ==
    ASSUME IInv, AllExact, NEW p \in Jobs, NEW r, NEW s,
           job' = [job EXCEPT ![p] = r], result' = [result EXCEPT ![p] = s], Exact(p, r, s)
    PROVE  AllExact'
<1>1. \A q \in Jobs : /\ job'[q] = IF q = p THEN r ELSE job[q]
                      /\ result'[q] = IF q = p THEN s ELSE result[q]
  BY DEF IInv, Types
<1> QED
  BY <1>1 DEF AllExact, Exact, Txn

\* The next row of an import, or the end of a job.
LEMMA EndedRowExact ==
    ASSUME IInv, AllExact, NEW p \in Jobs, p \in Imports \/ LastRow(p),
           job[p].pc \in Preparing \cup {"commit"}, NEW s,
           \A i \in DOMAIN Items[p] : i > job[p].row => s[i] = result[p][i]
    PROVE  Exact(p, EndedRow(p), s)
<1>1. job[p].row \in 1..Len(Items[p])
  BY JobFacts
<1>2. CASE LastRow(p)
  BY <1>2 DEF EndedRow, Exact, Preparing
<1>3. CASE ~LastRow(p)
  <2>1. /\ EndedRow(p).pc = "exists" /\ EndedRow(p).row = job[p].row + 1
        /\ EndedRow(p).keys = {} /\ EndedRow(p).centers = {}
    BY <1>3 DEF EndedRow
  <2>2. Txn(p, EndedRow(p)) = {}
    BY <1>3, <2>1, JobsAssumption DEF Txn
  <2>3. \A i \in DOMAIN Items[p] : i >= job[p].row + 1 => s[i] # "created"
    BY <1>1, ItemTypes DEF AllExact, Exact
  <2> QED
    BY <2>1, <2>2, <2>3 DEF Exact
<1> QED
  BY <1>2, <1>3

LEMMA RefuseExact ==
    ASSUME IInv, AllExact, NEW p \in Jobs, Running(p), NEW why, Refuse(p, why)
    PROVE  AllExact'
<1> DEFINE s == [result[p] EXCEPT ![job[p].row] = why]
<1>1. result' = [result EXCEPT ![p] = s]
  BY DEF Refuse
<1>2. \A i \in DOMAIN Items[p] : i > job[p].row => s[i] = result[p][i]
  BY JobFacts, ItemTypes DEF IInv, Types
<1>3. job[p].pc \in Preparing \cup {"commit"}
  BY JobFacts DEF Running, JobType
<1> HIDE DEF s
<1>4. CASE p \in Imports
  <2>1. job' = [job EXCEPT ![p] = EndedRow(p)]
    BY <1>4 DEF Refuse, EndRow, EndedRow
  <2> QED
    BY <1>1, <1>2, <1>3, <1>4, <2>1, EndedRowExact, ExactStep
<1>5. CASE p \notin Imports
  <2>1. job' = [job EXCEPT ![p] = Stopped(p)]
    BY <1>5 DEF Refuse
  <2>2. Exact(p, Stopped(p), s)
    BY DEF Stopped, FirstRow, Exact, Preparing
  <2> QED
    BY <1>1, <2>1, <2>2, ExactStep
<1> QED
  BY <1>4, <1>5

\* A step of p within its transaction.
LEMMA MoveExact ==
    ASSUME IInv, AllExact, NEW p \in Jobs, NEW r, job' = [job EXCEPT ![p] = r],
           UNCHANGED result, Exact(p, r, result[p])
    PROVE  AllExact'
<1>1. result' = [result EXCEPT ![p] = result[p]]
  BY DEF IInv, Types
<1> QED
  BY <1>1, ExactStep

LEMMA GotoExact ==
    ASSUME IInv, AllExact, NEW p \in Jobs, job[p].pc \in {"exists", "center"},
           NEW label \in {"center", "insert_center", "insert_batch"}, Goto(p, label),
           UNCHANGED result, Item(p).valid, Item(p).key \notin job[p].keys
    PROVE  AllExact'
<1> DEFINE r == [job[p] EXCEPT !.pc = label]
<1>1. /\ job' = [job EXCEPT ![p] = r] /\ r.pc = label /\ r.row = job[p].row
      /\ r.keys = job[p].keys /\ r.centers = job[p].centers
  BY DEF Goto, IInv, Types, JobType
<1> HIDE DEF r
<1>2. Txn(p, r) = Txn(p, job[p])
  BY <1>1 DEF Txn
<1>3. Exact(p, r, result[p])
  BY <1>1, <1>2 DEF AllExact, Exact, Item, Preparing
<1> QED
  BY <1>1, <1>3, MoveExact

LEMMA CheckExact == ASSUME IInv, AllExact, NEW p \in Jobs, CheckExists(p) PROVE AllExact'
<1>1. job[p].pc = "exists" /\ Running(p) /\ Item(p).valid \in BOOLEAN
  <2> DEFINE ItemType == [key : Keys, center : Centers, valid : BOOLEAN]
  <2>1. Items[p] \in Seq(ItemType) /\ job[p].row \in DOMAIN Items[p]
    BY ItemsAssumption, JobFacts, ItemTypes
  <2>2. \A x \in ItemType : x.valid \in BOOLEAN
    OBVIOUS
  <2> HIDE DEF ItemType
  <2>3. Items[p][job[p].row] \in ItemType
    BY <2>1
  <2> QED
    BY <2>2, <2>3 DEF CheckExists, Running, Item
<1>2. CASE \E why : Refuse(p, why)
  BY <1>1, <1>2, RefuseExact
<1>3. CASE Item(p).valid /\ ~KeyVisible(p)
  BY <1>1, <1>3, GotoExact DEF CheckExists, KeyVisible
<1> QED
  BY <1>1, <1>2, <1>3 DEF CheckExists

LEMMA ResolveExact == ASSUME IInv, AllExact, NEW p \in Jobs, ResolveCenter(p) PROVE AllExact'
<1>1. job[p].pc = "center" /\ UNCHANGED result
  BY DEF ResolveCenter
<1>2. Item(p).valid /\ Item(p).key \notin job[p].keys
  BY <1>1 DEF AllExact, Exact, Item, Preparing
<1>3. \E label \in {"center", "insert_center", "insert_batch"} : Goto(p, label)
  BY DEF ResolveCenter
<1> QED
  BY <1>1, <1>2, <1>3, GotoExact

LEMMA InsertCenterExact ==
    ASSUME IInv, AllExact, NEW p \in Jobs, InsertCenter(p) PROVE AllExact'
<1>1. Running(p) /\ job[p].pc = "insert_center"
  BY DEF InsertCenter, Running
<1>2. CASE Refuse(p, "integrity")
  BY <1>1, <1>2, RefuseExact
<1>3. CASE ~Refuse(p, "integrity")
  <2> DEFINE r == [job[p] EXCEPT !.pc = "insert_batch",
                                 !.centers = job[p].centers \cup {Item(p).center}]
  <2>1. /\ job' = [job EXCEPT ![p] = r] /\ UNCHANGED result
        /\ r.pc = "insert_batch" /\ r.row = job[p].row
        /\ r.keys = job[p].keys /\ r.centers = job[p].centers \cup {Item(p).center}
    BY <1>3 DEF InsertCenter, IInv, Types, JobType
  <2> HIDE DEF r
  <2>2. Txn(p, r) = Txn(p, job[p])
    BY <1>1, <2>1 DEF Txn
  <2>3. Exact(p, r, result[p])
    BY <1>1, <2>1, <2>2 DEF AllExact, Exact, Item, Preparing
  <2> QED
    BY <2>1, <2>3, MoveExact
<1> QED
  BY <1>2, <1>3

LEMMA InsertBatchExact ==
    ASSUME IInv, AllExact, NEW p \in Jobs, InsertBatch(p) PROVE AllExact'
<1>1. Running(p) /\ job[p].pc = "insert_batch" /\ job[p].row \in 1..Len(Items[p])
  BY JobFacts DEF InsertBatch, Running
<1>2. CASE Refuse(p, "integrity")
  BY <1>1, <1>2, RefuseExact
<1>3. CASE ~Refuse(p, "integrity")
  <2> DEFINE last == CommitsAfterRow(p)
             r == [pc |-> IF last THEN "commit" ELSE "exists",
                   row |-> IF last THEN job[p].row ELSE job[p].row + 1,
                   keys |-> job[p].keys \cup {Item(p).key}, centers |-> job[p].centers]
  <2>1. job' = [job EXCEPT ![p] = r] /\ UNCHANGED result
    BY <1>3 DEF InsertBatch
  <2>2. /\ last => r.pc = "commit" /\ r.row = job[p].row
        /\ ~last => r.pc = "exists" /\ r.row = job[p].row + 1
        /\ r.keys = job[p].keys \cup {Item(p).key} /\ r.centers = job[p].centers
    OBVIOUS
  <2>3. /\ p \in Requests /\ last => job[p].row = Len(Items[p])
        /\ p \in Imports => last
    BY JobsAssumption DEF CommitsAfterRow, LastRow
  <2> HIDE DEF r, last
  <2>4. Txn(p, r) = Txn(p, job[p]) \cup {job[p].row}
    BY <1>1, <2>2, <2>3, ItemTypes, JobsAssumption DEF Txn, Jobs
  <2>5. /\ job[p].keys \subseteq {Items[p][i].key : i \in Txn(p, job[p])}
        /\ job[p].centers \subseteq {Items[p][i].center : i \in Txn(p, job[p]) \cup {job[p].row}}
        /\ \A i, j \in Txn(p, job[p]) : Items[p][i].key = Items[p][j].key => i = j
        /\ \A i \in Txn(p, job[p]) : Items[p][i].valid
        /\ Item(p).valid /\ Item(p).key \notin job[p].keys
        /\ \A i \in DOMAIN Items[p] : i >= job[p].row => result[p][i] # "created"
    BY <1>1 DEF AllExact, Exact, Preparing, Item
  <2>6. \A i \in Txn(p, job[p]) : Items[p][i].key # Item(p).key
    <3>1. \A i \in Txn(p, job[p]) : Items[p][i].key \in job[p].keys
      BY <1>1, JobFacts DEF Txn, Orderly, Inserted, Preparing
    <3> QED
      BY <2>5, <3>1
  <2>7. \A i, j \in Txn(p, r) : Items[p][i].key = Items[p][j].key => i = j
    BY <2>4, <2>5, <2>6 DEF Item
  <2>8. \A i \in DOMAIN Items[p] : i >= r.row => result[p][i] # "created"
    BY <1>1, <2>2, <2>5, ItemTypes
  <2>9. Exact(p, r, result[p])
    BY <2>2, <2>4, <2>5, <2>7, <2>8 DEF Exact, Item
  <2> QED
    BY <2>1, <2>9, MoveExact
<1> QED
  BY <1>2, <1>3

LEMMA CommitExact == ASSUME IInv, AllExact, NEW p \in Jobs, CommitRow(p) PROVE AllExact'
<1> DEFINE s == [i \in DOMAIN Items[p] |->
                    IF p \in Requests \/ i = job[p].row THEN "created" ELSE result[p][i]]
<1>1. /\ job[p].pc = "commit" /\ result' = [result EXCEPT ![p] = s]
      /\ job' = [job EXCEPT ![p] = EndedRow(p)]
  BY DEF CommitRow, EndRow, EndedRow, IInv, Types
<1>2. p \in Imports \/ LastRow(p)
  BY <1>1, JobFacts DEF Orderly, LastRow, Jobs
<1>3. Exact(p, EndedRow(p), s)
  <2>1. CASE p \in Requests
    <3>1. EndedRow(p).pc = "done"
      BY <1>2, <2>1, EndedRowOrderly
    <3> QED
      BY <3>1 DEF Exact, Preparing
  <2>2. CASE p \notin Requests
    <3>1. \A i \in DOMAIN Items[p] : i > job[p].row => s[i] = result[p][i]
      BY <2>2, JobFacts, ItemTypes
    <3> QED
      BY <1>1, <1>2, <3>1, EndedRowExact
  <2> QED
    BY <2>1, <2>2
<1> QED
  BY <1>1, <1>3, ExactStep

LEMMA ExactNext == IInv /\ AllExact /\ [Next]_vars => AllExact'
<1> SUFFICES ASSUME IInv, AllExact, [Next]_vars PROVE AllExact'
  OBVIOUS
<1>1. CASE UNCHANGED vars
  BY <1>1 DEF vars, AllExact, Exact, Txn
<1>2. ASSUME NEW p \in Jobs, AbortDeadlock(p) \/ FailRow(p) PROVE AllExact'
  <2>1. Running(p) /\ Refuse(p, "error")
    BY <1>2 DEF AbortDeadlock, FailRow, Deadlocked, Waiting, WaitsFor, Running
  <2> QED
    BY <2>1, RefuseExact
<1>3. ASSUME NEW p \in Jobs, RetryImport(p) PROVE AllExact'
  <2>1. job' = [job EXCEPT ![p] = FirstRow] /\ result' = [result EXCEPT ![p] = Pending(p)]
    BY <1>3 DEF RetryImport
  <2>2. p \in Imports /\ p \notin Requests
    BY <1>3, JobsAssumption DEF RetryImport
  <2>3. Txn(p, FirstRow) = {}
    BY <2>2 DEF Txn, FirstRow
  <2>4. Exact(p, FirstRow, Pending(p))
    BY <2>3 DEF Exact, FirstRow, Pending
  <2> QED
    BY <2>1, <2>4, ExactStep
<1>4. ASSUME NEW p \in Jobs, Crash(p) PROVE AllExact'
  <2>1. Exact(p, Stopped(p), result[p])
    BY DEF Stopped, FirstRow, Exact, Preparing
  <2> QED
    BY <1>4, <2>1, MoveExact DEF Crash
<1> QED
  BY <1>1, <1>2, <1>3, <1>4, CheckExact, ResolveExact, InsertCenterExact, InsertBatchExact,
     CommitExact DEF Next, JobStep

-----------------------------------------------------------------------------
(* Steps of the contract *)

LEMMA Reported ==
    /\ \A x \in ReportedCreated : \E p \in Jobs : \E i \in DOMAIN Items[p] :
          x = <<p, i>> /\ result[p][i] = "created"
    /\ \A p \in Jobs : \A i \in DOMAIN Items[p] :
          result[p][i] = "created" => <<p, i>> \in ReportedCreated
  BY DEF ReportedCreated

\* A step that reports nothing as created and takes no such report back.
LEMMA ReportedSame ==
    ASSUME \A p \in Jobs : \A i \in DOMAIN Items[p] :
              result'[p][i] = "created" <=> result[p][i] = "created"
    PROVE  ReportedCreated' = ReportedCreated
  BY DEF ReportedCreated

LEMMA RefuseStutters ==
    ASSUME IInv, AllExact, NEW p \in Jobs, Running(p), NEW why, why # "created", Refuse(p, why)
    PROVE  UNCHANGED Contract!contractVars
<1>1. /\ job[p].row \in DOMAIN Items[p] /\ job[p].row \in Int
      /\ result[p][job[p].row] # "created"
  BY JobFacts, ItemTypes DEF Running, JobType, AllExact, Exact
<1>2. \A q \in Jobs : \A i \in DOMAIN Items[q] :
        result'[q][i] = IF q = p /\ i = job[p].row THEN why ELSE result[q][i]
  BY DEF Refuse, IInv, Types
<1> QED
  BY <1>1, <1>2, ReportedSame DEF Refuse, Contract!contractVars

LEMMA CommitCreates ==
    ASSUME IInv, AllExact, NEW p \in Jobs, CommitRow(p)
    PROVE  Contract!Next
<1>1. /\ job[p].pc = "commit" /\ job[p].row \in DOMAIN Items[p]
      /\ p \in Requests => LastRow(p) /\ \A i \in DOMAIN Items[p] : Inserted(p, job[p], i)
      /\ Inserted(p, job[p], job[p].row)
  BY JobFacts, ItemTypes DEF CommitRow, Orderly, LastRow, Jobs
<1>2. PICK I : I = Txn(p, job[p])
  OBVIOUS
<1>3. /\ I \subseteq DOMAIN Items[p]
      /\ p \in Requests => I = DOMAIN Items[p]
      /\ p \in Imports => I = {job[p].row}
      /\ \A i \in I : Inserted(p, job[p], i)
  BY <1>1, <1>2, JobsAssumption DEF Txn, Jobs
<1>4. /\ job[p].keys \subseteq {Items[p][i].key : i \in I}
      /\ job[p].centers \subseteq {Items[p][i].center : i \in I}
      /\ \A i, j \in I : Items[p][i].key = Items[p][j].key => i = j
      /\ \A i \in I : Items[p][i].valid
  <2>1. job[p].row \in I
    BY <1>1, <1>3 DEF Jobs
  <2>2. I \cup {job[p].row} = I
    BY <2>1
  <2> QED
    BY <1>1, <1>2, <2>2 DEF AllExact, Exact
<1>5. \A i \in I : Items[p][i].valid /\ owner[Items[p][i].key] = NoOne
  BY <1>3, <1>4 DEF Inserted, IInv, Exclusive
<1>6. owner' = [k \in Keys |-> IF \E i \in I : Items[p][i].key = k THEN p ELSE owner[k]]
  <2>1. \A k \in Keys : k \in job[p].keys <=> \E i \in I : Items[p][i].key = k
    BY <1>3, <1>4 DEF Inserted
  <2> QED
    BY <2>1 DEF CommitRow
<1>7. centers' = centers \cup {Items[p][i].center : i \in I}
  BY <1>3, <1>4 DEF Inserted, CommitRow
<1>8. ReportedCreated' = ReportedCreated \cup {<<p, i>> : i \in I}
  <2>1. \A q \in Jobs : \A i \in DOMAIN Items[q] :
          result'[q][i] = IF q = p /\ i \in I THEN "created" ELSE result[q][i]
    BY <1>3 DEF CommitRow, IInv, Types, Jobs
  <2>2. ASSUME NEW x \in ReportedCreated'
        PROVE  x \in ReportedCreated \cup {<<p, i>> : i \in I}
    <3>1. PICK q \in Jobs : x \in {<<q, i>> : i \in {n \in DOMAIN Items[q] : result'[q][n] = "created"}}
      BY DEF ReportedCreated
    <3>2. PICK i \in DOMAIN Items[q] : x = <<q, i>> /\ result'[q][i] = "created"
      BY <3>1
    <3> QED
      BY <2>1, <3>2, Reported
  <2>3. ASSUME NEW q \in Jobs, NEW i \in DOMAIN Items[q], result'[q][i] = "created"
        PROVE  <<q, i>> \in ReportedCreated'
    BY <2>3 DEF ReportedCreated
  <2>4. ReportedCreated \subseteq ReportedCreated'
    BY <2>1, <2>3, Reported
  <2>5. {<<p, i>> : i \in I} \subseteq ReportedCreated'
    BY <1>3, <2>1, <2>3
  <2> QED
    BY <2>2, <2>4, <2>5
<1>9. Contract!Create(p, I)
  BY <1>4, <1>5, <1>6, <1>7, <1>8 DEF Contract!Create
<1>10. CASE p \in Requests
  BY <1>3, <1>9, <1>10 DEF Contract!Next
<1>11. CASE p \in Imports
  <2>1. PICK n \in DOMAIN Items[p] : n = job[p].row
    BY <1>1
  <2>2. Contract!Create(p, {n})
    BY <1>3, <1>9, <1>11, <2>1
  <2> QED
    BY <1>11, <2>2 DEF Contract!Next
<1> QED
  BY <1>10, <1>11 DEF Jobs

LEMMA RetryStartsOver ==
    ASSUME IInv, NEW p \in Jobs, RetryImport(p) PROVE Contract!Next
<1>1. /\ p \in Imports /\ UNCHANGED <<owner, centers>>
      /\ \A q \in Jobs : \A i \in DOMAIN Items[q] :
            result'[q][i] = IF q = p THEN "pending" ELSE result[q][i]
  BY DEF RetryImport, Pending, IInv, Types
<1>2. ReportedCreated' = {x \in ReportedCreated : x[1] # p}
  <2>1. ASSUME NEW x \in ReportedCreated' PROVE x \in ReportedCreated /\ x[1] # p
    <3>1. PICK q \in Jobs : x \in {<<q, i>> : i \in {n \in DOMAIN Items[q] : result'[q][n] = "created"}}
      BY DEF ReportedCreated
    <3>2. PICK i \in DOMAIN Items[q] : x = <<q, i>> /\ result'[q][i] = "created"
      BY <3>1
    <3> QED
      BY <1>1, <3>2, Reported
  <2>2. ASSUME NEW x \in ReportedCreated, x[1] # p PROVE x \in ReportedCreated'
    <3>1. PICK q \in Jobs : \E i \in DOMAIN Items[q] : x = <<q, i>> /\ result[q][i] = "created"
      BY Reported
    <3>2. PICK i \in DOMAIN Items[q] : x = <<q, i>> /\ result[q][i] = "created"
      BY <3>1
    <3>3. result'[q][i] = "created"
      BY <1>1, <2>2, <3>2
    <3> QED
      BY <3>2, <3>3 DEF ReportedCreated
  <2> QED
    BY <2>1, <2>2
<1>3. Contract!StartOver(p)
  BY <1>1, <1>2 DEF Contract!StartOver
<1> QED
  BY <1>1, <1>3 DEF Contract!Next

LEMMA NextContract == IInv /\ AllExact /\ [Next]_vars => [Contract!Next]_Contract!contractVars
<1> SUFFICES ASSUME IInv, AllExact, [Next]_vars PROVE [Contract!Next]_Contract!contractVars
  OBVIOUS
<1>1. CASE UNCHANGED <<owner, centers, result>>
  BY <1>1 DEF Contract!contractVars, ReportedCreated
<1>2. ASSUME NEW p \in Jobs, Running(p),
             NEW why \in {"invalid", "duplicate", "integrity", "error"}, Refuse(p, why)
      PROVE  UNCHANGED Contract!contractVars
  BY <1>2, RefuseStutters
<1>3. ASSUME NEW p \in Jobs, AbortDeadlock(p) \/ FailRow(p) PROVE UNCHANGED Contract!contractVars
  <2>1. Running(p) /\ Refuse(p, "error")
    BY <1>3 DEF AbortDeadlock, FailRow, Deadlocked, Waiting, WaitsFor, Running
  <2> QED
    BY <1>2, <2>1
<1>4. ASSUME NEW p \in Jobs, CheckExists(p) \/ InsertCenter(p) \/ InsertBatch(p)
      PROVE  [Contract!Next]_Contract!contractVars
  <2>1. Running(p)
    BY <1>4 DEF CheckExists, InsertCenter, InsertBatch, Running
  <2>2. \/ UNCHANGED <<owner, centers, result>>
        \/ \E why \in {"invalid", "duplicate", "integrity", "error"} : Refuse(p, why)
    BY <1>4 DEF CheckExists, InsertCenter, InsertBatch
  <2> QED
    BY <1>1, <1>2, <2>1, <2>2
<1>5. ASSUME NEW p \in Jobs, ResolveCenter(p) \/ Crash(p) PROVE UNCHANGED <<owner, centers, result>>
  BY <1>5 DEF ResolveCenter, Crash
<1> QED
  BY <1>1, <1>3, <1>4, <1>5, CommitCreates, RetryStartsOver DEF Next, JobStep, vars

\* However requests and imports overlap, wait for each other, fail and are retried, the
\* tables and reports change as if each request and each row were created in one step.
THEOREM CreationIsSerial == Spec => ImplementsContract
<1>1. Init => Contract!Init
  <2> SUFFICES ASSUME Init PROVE ReportedCreated = {}
    BY DEF Init, Contract!Init
  <2>1. \A p \in Jobs : \A i \in DOMAIN Items[p] : result[p][i] = "pending"
    BY DEF Init, Pending
  <2> QED
    BY <2>1, Reported
<1> QED
  BY <1>1, ExactInit, ExactNext, NextContract, AlwaysIInv, PTL
  DEF Spec, ImplementsContract, Contract!Spec

-----------------------------------------------------------------------------
(* The table as the other components see it *)

InTable == {k \in Keys : owner[k] # NoOne}

\* The batches that are listed and counted are those this module commits; when they were
\* created, whether as closed ones, and their products do not matter here.
Store == INSTANCE Production WITH
    Batches <- Keys,
    Products <- {},
    BatchOf <- [p \in {} |-> NoOne],
    Times <- {0},
    batches <- InTable,
    created <- [k \in InTable |-> 0],
    closed <- {},
    products <- {},
    aggregated <- {}

ImplementsProduction == Store!StoreSpec

\* What is committed is new: no key is taken over and none is lost.
LEMMA CommitStores ==
    ASSUME IInv, NEW p \in Jobs, CommitRow(p) PROVE [Store!StoreNext]_(Store!store)
<1>1. /\ job[p].keys \subseteq Keys /\ p # NoOne
      /\ \A k \in job[p].keys : owner[k] = NoOne
  BY JobsAssumption DEF IInv, Types, JobType, Exclusive
<1>2. owner' = [k \in Keys |-> IF k \in job[p].keys THEN p ELSE owner[k]]
  BY DEF CommitRow
<1>3. PICK S \in SUBSET Keys : S = job[p].keys
  BY <1>1
<1>4. InTable' = InTable \cup S /\ S \cap InTable = {}
  BY <1>1, <1>2, <1>3 DEF InTable
<1>5. CASE S = {}
  BY <1>4, <1>5 DEF Store!store
<1>6. CASE S # {}
  <2>1. \E C \in SUBSET S : {} = {} \cup C
    <3>1. {} \in SUBSET S /\ {} = {} \cup {}
      OBVIOUS
    <3> QED
      BY <3>1
  <2>2. \E t \in {0} : [k \in InTable' |-> 0] =
            [b \in InTable' |-> IF b \in S THEN t ELSE [k \in InTable |-> 0][b]]
    BY <1>4
  <2>3. Store!CreateBatches(S)
    BY <1>4, <1>6, <2>1, <2>2 DEF Store!CreateBatches
  <2> QED
    BY <2>3 DEF Store!StoreNext
<1> QED
  BY <1>5, <1>6

\* The transactions that create batches implement Production: however requests and imports
\* collide, deadlock, fail and are retried, a row that is in the table stays there and a
\* commit only adds rows.
THEOREM CreationImplementsProduction == Spec => ImplementsProduction
<1>1. Init => Store!StoreInit
  <2> SUFFICES ASSUME Init PROVE Store!StoreInit
    OBVIOUS
  <2>1. InTable = {}
    BY DEF Init, InTable
  <2>2. [k \in InTable |-> 0] \in [InTable -> {0}]
    OBVIOUS
  <2> QED
    BY <2>1, <2>2 DEF Store!StoreInit
<1>2. IInv /\ [Next]_vars => [Store!StoreNext]_(Store!store)
  <2> SUFFICES ASSUME IInv, [Next]_vars PROVE [Store!StoreNext]_(Store!store)
    OBVIOUS
  <2>1. CASE UNCHANGED owner
    BY <2>1 DEF Store!store, InTable
  <2>2. ASSUME NEW p \in Jobs,
               \/ CheckExists(p) \/ ResolveCenter(p) \/ InsertCenter(p) \/ InsertBatch(p)
               \/ AbortDeadlock(p) \/ FailRow(p) \/ RetryImport(p) \/ Crash(p)
        PROVE  UNCHANGED owner
    BY <2>2 DEF CheckExists, ResolveCenter, InsertCenter, InsertBatch, AbortDeadlock, FailRow,
       RetryImport, Crash, Refuse
  <2> QED
    BY <2>1, <2>2, CommitStores DEF Next, JobStep, vars
<1> QED
  BY <1>1, <1>2, AlwaysIInv, PTL DEF Spec, ImplementsProduction, Store!StoreSpec

==============================================================================
