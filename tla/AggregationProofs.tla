-------------------------- MODULE AggregationProofs --------------------------
(***************************************************************************)
(* What the transactions that add and aggregate products keep true, for    *)
(* any products and any number of overlapping jobs: every product is       *)
(* announced once, finished jobs have aggregated what they found, a task's *)
(* counts add up, a request exceeds its limit only by products that were   *)
(* added meanwhile, the tables change as Production has it, and no wait    *)
(* hides from PostgreSQL.                                                  *)
(*                                                                         *)
(* The argument is about row locks. A row is held by one job at a time,    *)
(* and while it is held nobody else changes it: what an addition or a scan *)
(* saw when it got the lock is still true when it commits. A product a job *)
(* has found is never lost, and until the job ends it is aggregated, still *)
(* to be visited, or held; those that a task has still to visit or holds   *)
(* are what its counts are short of at the end of the chunk.               *)
(***************************************************************************)
EXTENDS Aggregation, WaitGraphProofs, FunctionTheorems, TLAPS

JobType == [pc : {"read", "counted", "write", "done", "failed"},
            pos : Int, found : SUBSET Codes, todo : SUBSET Codes, held : SUBSET Codes]

Types ==
    /\ product \in [Codes -> {"absent", "open", "aggregated"}]
    /\ job \in [Jobs -> JobType]
    /\ announced \in [Codes -> Nat]

\* A row is held by one job.
Exclusive ==
    \A j, k \in Jobs : \A c \in Codes : Holds(j, c) /\ Holds(k, c) => j = k

\* What the holder saw when it locked the row is still true.
HeldUnchanged ==
    /\ \A a \in Additions : \A c \in Codes : Holds(a, c) => product[c] = "absent"
    /\ \A s \in Scans : \A c \in Codes : Holds(s, c) => product[c] = "open"

\* Between transactions a job has no rows to visit and holds none.
AtRest(r) == r.pc \in {"read", "counted", "done"} => r.todo = {} /\ r.held = {}

\* A product that was found is aggregated, or the running UPDATE takes care of it.
TakenCareOf(r, c) ==
    /\ product[c] # "absent"
    /\ r.pc \in {"read", "write", "done"} =>
         product[c] = "aggregated" \/ c \in r.todo \/ c \in r.held

Orderly(r) == AtRest(r) /\ \A c \in r.found : TakenCareOf(r, c)

Aggregators == Scans \cup Requests \cup Tasks

FoundIsTakenCareOf == \A j \in Aggregators : Orderly(job[j])

IInv == Types /\ Exclusive /\ HeldUnchanged /\ FoundIsTakenCareOf /\ AnnouncedOnce

-----------------------------------------------------------------------------
LEMMA InitInv == Init => IInv
<1> SUFFICES ASSUME Init PROVE IInv
  OBVIOUS
<1>1. Types
  BY DEF Init, Types, JobType, NewJob
<1>2. \A j \in Jobs : job[j].held = {} /\ job[j].todo = {} /\ job[j].found = {}
  BY DEF Init, NewJob
<1>3. Exclusive /\ HeldUnchanged
  BY <1>2 DEF Exclusive, HeldUnchanged, Holds, Jobs
<1>4. FoundIsTakenCareOf
  BY <1>2 DEF FoundIsTakenCareOf, Aggregators, Orderly, AtRest, TakenCareOf, Jobs
<1>5. AnnouncedOnce
  BY DEF Init, AnnouncedOnce
<1> QED
  BY <1>1, <1>3, <1>4, <1>5 DEF IInv

\* A step that changes only j, and takes no lock.
LEMMA QuietStep ==
  ASSUME IInv, NEW j \in Jobs, NEW r \in JobType, r.held \subseteq job[j].held,
         j \in Aggregators => Orderly(r),
         job' = [job EXCEPT ![j] = r], UNCHANGED <<product, announced>>
  PROVE  IInv'
<1>1. Types'
  BY DEF IInv, Types
<1>2. \A k \in Jobs : job'[k] = IF k = j THEN r ELSE job[k]
  BY DEF IInv, Types
<1>3. \A k \in Jobs : \A c \in Codes : Holds(k, c)' => Holds(k, c)
  BY <1>2 DEF Holds
<1>4. Exclusive'
  BY <1>3 DEF IInv, Exclusive
<1>5. HeldUnchanged'
  BY <1>3 DEF IInv, HeldUnchanged, Jobs
<1>6. AnnouncedOnce'
  BY DEF IInv, AnnouncedOnce
<1>7. FoundIsTakenCareOf'
  BY <1>2 DEF IInv, FoundIsTakenCareOf, Aggregators, Jobs, Orderly, AtRest, TakenCareOf
<1> QED
  BY <1>1, <1>4, <1>5, <1>6, <1>7 DEF IInv

\* A job that fails lets go of everything.
LEMMA FailingStep ==
  ASSUME IInv, NEW j \in Jobs, Ends(j, "failed"), UNCHANGED <<product, announced>>
  PROVE  IInv'
<1> DEFINE r == [job[j] EXCEPT !.pc = "failed", !.todo = {}, !.held = {}]
<1>1. job[j] \in JobType
  BY DEF IInv, Types
<1>2. r \in JobType /\ r.held = {} /\ r.pc = "failed" /\ r.found = job[j].found
  BY <1>1 DEF JobType
<1>3. job' = [job EXCEPT ![j] = r]
  BY <1>1 DEF Ends, IInv, Types, JobType
<1>4. j \in Aggregators => Orderly(r)
  BY <1>2 DEF IInv, FoundIsTakenCareOf, Orderly, AtRest, TakenCareOf
<1> HIDE DEF r
<1> QED
  BY <1>2, <1>3, <1>4, QuietStep


\* j takes the lock of the row of c, which nobody else holds.
LEMMA LockTaken ==
  ASSUME IInv, NEW j \in Jobs, NEW c \in Codes, VisitRow(j, c),
         NEW r \in JobType, r.held \subseteq job[j].held \cup {c},
         j \in Additions => product[c] = "absent",
         j \in Scans => product[c] = "open",
         j \in Aggregators => Orderly(r),
         job' = [job EXCEPT ![j] = r], UNCHANGED <<product, announced>>
  PROVE  IInv'
<1>1. Types'
  BY DEF IInv, Types
<1>2. \A k \in Jobs : job'[k] = IF k = j THEN r ELSE job[k]
  BY DEF IInv, Types
<1>3. \A k \in Jobs : \A d \in Codes : Holds(k, d)' => Holds(k, d) \/ (k = j /\ d = c)
  BY <1>2 DEF Holds
<1>4. \A k \in Jobs : Holds(k, c) => k = j
  BY DEF VisitRow, LockedByOther
<1>5. Exclusive'
  BY <1>3, <1>4 DEF IInv, Exclusive
<1>6. HeldUnchanged'
  BY <1>3 DEF IInv, HeldUnchanged, Jobs
<1>7. AnnouncedOnce'
  BY DEF IInv, AnnouncedOnce
<1>8. FoundIsTakenCareOf'
  BY <1>2 DEF IInv, FoundIsTakenCareOf, Aggregators, Jobs, Orderly, AtRest, TakenCareOf
<1> QED
  BY <1>1, <1>5, <1>6, <1>7, <1>8 DEF IInv

\* Additions and scans are given a code.
LEMMA CodesAreGiven == \A j \in Additions \cup Scans : CodesOf[j][1] \in Codes
<1> SUFFICES ASSUME NEW j \in Additions \cup Scans PROVE CodesOf[j][1] \in Codes
  OBVIOUS
<1>1. CodesOf[j] \in Seq(Codes) /\ Len(CodesOf[j]) = 1
  BY CodesOfAssumption DEF Jobs
<1> QED
  BY <1>1

\* A commit: the rows that j holds become v, and j lets go of them.
LEMMA CommitStep ==
  ASSUME IInv, NEW j \in Jobs, Written(j), announced' \in [Codes -> Nat],
         NEW v, \/ j \in Additions /\ v = "open"
                \/ j \in Aggregators /\ v = "aggregated",
         NEW r \in JobType, r.held = {}, r.todo = {}, r.found = job[j].found,
         product' = [c \in Codes |-> IF Holds(j, c) THEN v ELSE product[c]],
         job' = [job EXCEPT ![j] = r]
  PROVE  Types' /\ Exclusive' /\ HeldUnchanged' /\ FoundIsTakenCareOf'
<1>1. Types'
  BY DEF IInv, Types
<1>2. \A k \in Jobs : job'[k] = IF k = j THEN r ELSE job[k]
  BY DEF IInv, Types
<1>3. \A c \in Codes : product'[c] = IF Holds(j, c) THEN v ELSE product[c]
  OBVIOUS
<1>4. \A k \in Jobs : \A c \in Codes : Holds(k, c)' => k # j /\ Holds(k, c) /\ ~Holds(j, c)
  BY <1>2 DEF Holds, IInv, Exclusive
<1>5. Exclusive'
  BY <1>4 DEF IInv, Exclusive
<1>6. HeldUnchanged'
  BY <1>3, <1>4 DEF IInv, HeldUnchanged, Jobs
<1>7. \A c \in Codes : /\ product[c] # "absent" => product'[c] # "absent"
                       /\ product[c] = "aggregated" => product'[c] = "aggregated"
  BY <1>3 DEF IInv, HeldUnchanged
<1>8. ASSUME NEW k \in Aggregators PROVE Orderly(job[k])'
  <2>1. k \in Jobs /\ Orderly(job[k])
    BY DEF Aggregators, Jobs, IInv, FoundIsTakenCareOf
  <2>2. job[k].found \subseteq Codes
    BY <2>1 DEF IInv, Types, JobType
  <2>3. CASE k # j
    BY <2>1, <2>2, <2>3, <1>2, <1>7 DEF Orderly, AtRest, TakenCareOf
  <2>4. CASE k = j
    <3>1. v = "aggregated" /\ job'[k] = r
      BY <2>4, <1>2, KindsAssumption DEF Aggregators
    <3>2. \A c \in r.found : product'[c] = "aggregated"
      BY <3>1, <2>1, <2>2, <2>4, <1>3 DEF Orderly, TakenCareOf, Written, Holds
    <3> QED
      BY <3>1, <3>2 DEF Orderly, AtRest, TakenCareOf
  <2> QED
    BY <2>3, <2>4
<1> QED
  BY <1>1, <1>5, <1>6, <1>8 DEF FoundIsTakenCareOf

\* Aggregating the rows one holds announces nothing that was announced before.
LEMMA AnnouncedAfter ==
  ASSUME IInv, NEW j \in Jobs,
         \/ UNCHANGED announced
         \/ /\ j \in Scans
            /\ announced' = [c \in Codes |-> IF Holds(j, c) THEN announced[c] + 1
                                                            ELSE announced[c]],
         product' = Aggregated(j)
  PROVE  announced' \in [Codes -> Nat] /\ AnnouncedOnce'
<1>1. announced' \in [Codes -> Nat]
  BY DEF IInv, Types
<1>2. \A c \in Codes : product'[c] = IF Holds(j, c) THEN "aggregated" ELSE product[c]
  BY DEF Aggregated
<1>3. CASE UNCHANGED announced
  BY <1>1, <1>2, <1>3 DEF IInv, AnnouncedOnce
<1>4. CASE ~UNCHANGED announced
  <2>1. \A c \in Codes : announced'[c] = IF Holds(j, c) THEN announced[c] + 1 ELSE announced[c]
    BY <1>4
  <2>2. \A c \in Codes : Holds(j, c) => announced[c] = 0
    BY <1>4 DEF IInv, Types, HeldUnchanged, AnnouncedOnce
  <2> QED
    BY <1>2, <2>1, <2>2 DEF IInv, Types, AnnouncedOnce
<1> QED
  BY <1>1, <1>3, <1>4

-----------------------------------------------------------------------------
(* The steps of Next *)

LEMMA ReadSteps ==
  ASSUME IInv, NEW j \in Jobs,
         \/ j \in Additions /\ CreateProduct(j)
         \/ j \in Scans /\ AggregateProduct(j)
         \/ j \in Requests /\ (CountProducts(j) \/ AggregateBatch(j))
         \/ j \in Tasks /\ SelectChunk(j)
  PROVE  IInv'
<1>1. job[j] \in JobType /\ (j \in Aggregators => Orderly(job[j]))
  BY DEF IInv, Types, FoundIsTakenCareOf
<1>2. UNCHANGED <<product, announced>>
  BY DEF CreateProduct, AggregateProduct, CountProducts, AggregateBatch, SelectChunk
<1>3. CASE Ends(j, "failed")
  BY <1>2, <1>3, FailingStep
<1>4. ASSUME NEW found \in SUBSET Codes, NEW rows \in SUBSET Codes,
             Updates(j, found, rows),
             j \in Aggregators => \A c \in found : /\ product[c] # "absent"
                                                   /\ product[c] = "aggregated" \/ c \in rows
      PROVE  IInv'
  <2> DEFINE r == [job[j] EXCEPT !.pc = "write", !.found = found, !.todo = rows]
  <2>1. r \in JobType /\ r.held = job[j].held /\ r.pc = "write" /\ r.found = found /\ r.todo = rows
    BY <1>1 DEF JobType
  <2>2. job' = [job EXCEPT ![j] = r]
    BY <1>4 DEF Updates, IInv, Types, JobType
  <2>3. j \in Aggregators => Orderly(r)
    BY <1>4, <2>1 DEF Orderly, AtRest, TakenCareOf
  <2> HIDE DEF r
  <2> QED
    BY <2>1, <2>2, <2>3, <1>2, QuietStep
<1>5. CASE j \in Additions /\ CreateProduct(j)
  <2>1. j \notin Aggregators
    BY <1>5, KindsAssumption DEF Aggregators
  <2>2. CodesOf[j][1] \in Codes
    BY <1>5, CodesAreGiven
  <2> QED
    BY <1>3, <1>4, <1>5, <2>1, <2>2 DEF CreateProduct
<1>6. CASE j \in Scans /\ AggregateProduct(j)
  <2>1. CodesOf[j][1] \in Codes
    BY <1>6, CodesAreGiven
  <2>2. product[CodesOf[j][1]] \in {"absent", "open", "aggregated"}
    BY <2>1 DEF IInv, Types
  <2>3. CASE product[CodesOf[j][1]] = "absent"
    BY <1>3, <1>6, <2>3 DEF AggregateProduct
  <2>4. CASE product[CodesOf[j][1]] = "aggregated"
    <3> DEFINE r == [job[j] EXCEPT !.pc = "done", !.todo = {}, !.held = {}]
    <3>1. r \in JobType /\ r.held = {} /\ r.todo = {} /\ r.pc = "done" /\ r.found = job[j].found
      BY <1>1 DEF JobType
    <3>2. Ends(j, "done")
      BY <1>6, <2>4 DEF AggregateProduct
    <3>3. job' = [job EXCEPT ![j] = r]
      BY <1>1, <3>2 DEF Ends, IInv, Types, JobType
    <3>4. Orderly(r)
      BY <1>1, <1>6, <3>1 DEF AggregateProduct, Orderly, AtRest, TakenCareOf, Aggregators
    <3> HIDE DEF r
    <3> QED
      BY <1>2, <3>1, <3>3, <3>4, QuietStep
  <2>5. CASE product[CodesOf[j][1]] = "open"
    <3>1. Updates(j, {CodesOf[j][1]}, {CodesOf[j][1]})
      BY <1>6, <2>5 DEF AggregateProduct
    <3> QED
      BY <1>4, <2>1, <2>5, <3>1
  <2> QED
    BY <2>2, <2>3, <2>4, <2>5
<1>7. CASE j \in Requests /\ CountProducts(j)
  <2> DEFINE r == [job[j] EXCEPT !.pc = "counted", !.found = Present]
  <2>1. CASE ~Ends(j, "failed")
    <3>1. /\ r \in JobType /\ r.held = job[j].held /\ r.todo = job[j].todo
          /\ r.pc = "counted" /\ r.found = Present
      BY <1>1 DEF JobType, Present
    <3>2. job' = [job EXCEPT ![j] = r]
      BY <1>1, <1>7, <2>1 DEF CountProducts, IInv, Types, JobType
    <3>3. Orderly(r)
      BY <1>1, <1>7, <3>1
         DEF CountProducts, Orderly, AtRest, TakenCareOf, Aggregators, Present
    <3> HIDE DEF r
    <3> QED
      BY <1>2, <3>1, <3>2, <3>3, QuietStep
  <2> QED
    BY <1>3, <2>1
<1>8. CASE j \in Requests /\ AggregateBatch(j)
  <2>1. Updates(j, job[j].found, Open)
    BY <1>8 DEF AggregateBatch
  <2>2. \A c \in job[j].found : product[c] # "absent"
    BY <1>1, <1>8 DEF Orderly, TakenCareOf, Aggregators
  <2>3. \A c \in job[j].found : product[c] = "aggregated" \/ c \in Open
    BY <1>1, <2>2 DEF JobType, IInv, Types, Open
  <2> QED
    BY <1>1, <1>4, <2>1, <2>2, <2>3 DEF JobType, Open
<1>9. CASE j \in Tasks /\ SelectChunk(j)
  <2> DEFINE found == ToSet(Chunk(j)) \cap Present
  <2>1. Updates(j, job[j].found \cup found, found \cap Open)
    BY <1>9 DEF SelectChunk
  <2>2. \A c \in job[j].found : product[c] = "aggregated"
    BY <1>1, <1>9 DEF SelectChunk, Orderly, AtRest, TakenCareOf, Aggregators
  <2>3. found \subseteq Codes /\ \A c \in found : /\ product[c] # "absent"
                                                  /\ product[c] = "aggregated" \/ c \in Open
    BY DEF Present, Open, IInv, Types
  <2> HIDE DEF found
  <2>4. job[j].found \cup found \in SUBSET Codes /\ found \cap Open \in SUBSET Codes
    BY <1>1, <2>3 DEF JobType
  <2>5. \A c \in job[j].found \cup found :
          product[c] # "absent" /\ (product[c] = "aggregated" \/ c \in found \cap Open)
    BY <2>2, <2>3
  <2> QED
    BY <1>4, <2>1, <2>4, <2>5
<1> QED
  BY <1>5, <1>6, <1>7, <1>8, <1>9

LEMMA LockStep == ASSUME IInv, NEW j \in Jobs, NEW c \in Codes, VisitRow(j, c) PROVE IInv'
<1>1. job[j] \in JobType /\ (j \in Aggregators => Orderly(job[j]))
  BY DEF IInv, Types, FoundIsTakenCareOf
<1>2. UNCHANGED <<product, announced>> /\ c \in job[j].todo /\ job[j].pc = "write"
  BY DEF VisitRow
<1>3. CASE Ends(j, "failed")
  BY <1>2, <1>3, FailingStep
<1>4. CASE j \in Additions /\ ~Ends(j, "failed")
  <2> DEFINE r == [job[j] EXCEPT !.todo = {}, !.held = {c}]
  <2>1. r \in JobType /\ r.held = {c}
    BY <1>1 DEF JobType
  <2>2. job' = [job EXCEPT ![j] = r]
    BY <1>1, <1>4 DEF VisitRow, IInv, Types, JobType
  <2>3. product[c] = "absent" /\ j \notin Aggregators
    BY <1>4, KindsAssumption DEF VisitRow, CodeTaken, Present, Aggregators
  <2> HIDE DEF r
  <2> QED
    BY <1>2, <2>1, <2>2, <2>3, KindsAssumption, LockTaken DEF Aggregators
<1>5. CASE j \notin Additions
  <2> DEFINE r == [job[j] EXCEPT !.todo = job[j].todo \ {c},
                                 !.held = IF StillMatches(j, c) THEN job[j].held \cup {c}
                                                                ELSE job[j].held]
  <2>1. /\ r \in JobType /\ r.todo = job[j].todo \ {c} /\ r.found = job[j].found
        /\ r.pc = "write"
        /\ r.held = IF StillMatches(j, c) THEN job[j].held \cup {c} ELSE job[j].held
    BY <1>1, <1>2 DEF JobType
  <2>2. job' = [job EXCEPT ![j] = r]
    BY <1>1, <1>5 DEF VisitRow, IInv, Types, JobType
  <2>3. j \in Aggregators
    BY <1>5 DEF Jobs, Aggregators
  <2>4. Orderly(r)
    <3>1. ~StillMatches(j, c) /\ product[c] # "absent" => product[c] = "aggregated"
      BY DEF StillMatches, IInv, Types
    <3>2. ASSUME NEW d \in job[j].found PROVE TakenCareOf(r, d)
      <4>1. TakenCareOf(job[j], d)
        BY <1>1, <2>3 DEF Orderly
      <4> QED
        BY <1>2, <2>1, <3>1, <4>1 DEF TakenCareOf
    <3> QED
      BY <2>1, <3>2 DEF Orderly, AtRest
  <2>5. j \in Scans /\ StillMatches(j, c) => product[c] = "open"
    BY KindsAssumption DEF StillMatches
  <2> HIDE DEF r
  <2>6. CASE StillMatches(j, c)
    BY <1>2, <1>5, <2>1, <2>2, <2>4, <2>5, <2>6, LockTaken
  <2>7. CASE ~StillMatches(j, c)
    BY <1>2, <2>1, <2>2, <2>4, <2>7, QuietStep
  <2> QED
    BY <2>6, <2>7
<1> QED
  BY <1>3, <1>4, <1>5

LEMMA EndSteps ==
  ASSUME IInv, NEW j \in Jobs,
         \/ j \in Additions /\ CommitAddition(j)
         \/ j \in Scans /\ (CommitProduct(j) \/ LoseProduct(j))
         \/ j \in Requests /\ CommitBatch(j)
         \/ j \in Tasks /\ CommitChunk(j)
  PROVE  IInv'
<1>1. job[j] \in JobType
  BY DEF IInv, Types
<1> DEFINE ended == [job[j] EXCEPT !.pc = "done", !.todo = {}, !.held = {}]
<1>2. ended \in JobType /\ ended.held = {} /\ ended.todo = {} /\ ended.found = job[j].found
  BY <1>1 DEF JobType
<1>3. Ends(j, "done") => job' = [job EXCEPT ![j] = ended]
  BY <1>1 DEF Ends, IInv, Types, JobType
<1> HIDE DEF ended
<1>4. CASE j \in Additions /\ CommitAddition(j)
  <2>1. /\ Written(j) /\ Ends(j, "done") /\ announced' = announced
        /\ product' = [c \in Codes |-> IF Holds(j, c) THEN "open" ELSE product[c]]
    BY <1>4 DEF CommitAddition
  <2>2. Types' /\ Exclusive' /\ HeldUnchanged' /\ FoundIsTakenCareOf'
    BY <1>2, <1>3, <1>4, <2>1, CommitStep DEF IInv, Types
  <2>3. AnnouncedOnce'
    <3>1. \A c \in Codes : product'[c] = IF Holds(j, c) THEN "open" ELSE product[c]
      BY <2>1
    <3>2. \A c \in Codes : Holds(j, c) => product[c] = "absent"
      BY <1>4 DEF IInv, HeldUnchanged
    <3> QED
      BY <2>1, <3>1, <3>2 DEF IInv, AnnouncedOnce
  <2> QED
    BY <2>2, <2>3 DEF IInv
<1>5. CASE j \in Scans /\ LoseProduct(j)
  BY <1>5, FailingStep DEF LoseProduct
<1>6. CASE j \in Scans /\ CommitProduct(j)
  <2>1. Written(j) /\ Ends(j, "done") /\ product' = Aggregated(j) /\ j \in Aggregators
    BY <1>6 DEF CommitProduct, Aggregators
  <2>2. announced' \in [Codes -> Nat] /\ AnnouncedOnce'
    BY <1>6, AnnouncedAfter DEF CommitProduct
  <2>3. Types' /\ Exclusive' /\ HeldUnchanged' /\ FoundIsTakenCareOf'
    BY <1>2, <1>3, <2>1, <2>2, CommitStep DEF Aggregated
  <2> QED
    BY <2>2, <2>3 DEF IInv
<1>7. CASE j \in Requests /\ CommitBatch(j)
  <2>1. Written(j) /\ Ends(j, "done") /\ product' = Aggregated(j) /\ j \in Aggregators
    BY <1>7 DEF CommitBatch, Aggregators
  <2>2. announced' \in [Codes -> Nat] /\ AnnouncedOnce'
    BY <1>7, AnnouncedAfter DEF CommitBatch
  <2>3. Types' /\ Exclusive' /\ HeldUnchanged' /\ FoundIsTakenCareOf'
    BY <1>2, <1>3, <2>1, <2>2, CommitStep DEF Aggregated
  <2> QED
    BY <2>2, <2>3 DEF IInv
<1>8. CASE j \in Tasks /\ CommitChunk(j)
  <2> DEFINE r == [job[j] EXCEPT !.pc = IF MoreChunks(j) THEN "read" ELSE "done",
                                 !.pos = job[j].pos + ChunkSize, !.held = {}]
  <2>1. Written(j) /\ product' = Aggregated(j) /\ j \in Aggregators
    BY <1>8 DEF CommitChunk, Aggregators
  <2>2. r \in JobType /\ r.held = {} /\ r.todo = {} /\ r.found = job[j].found
    <3>1. job[j].pos + ChunkSize \in Int
      BY <1>1, BoundsAssumption DEF JobType
    <3>2. (IF MoreChunks(j) THEN "read" ELSE "done") \in {"read", "done"}
      OBVIOUS
    <3> QED
      BY <1>1, <2>1, <3>1, <3>2 DEF JobType, Written
  <2>3. job' = [job EXCEPT ![j] = r]
    BY <1>1, <1>8 DEF CommitChunk, IInv, Types, JobType
  <2>4. announced' \in [Codes -> Nat] /\ AnnouncedOnce'
    BY <1>8, AnnouncedAfter DEF CommitChunk
  <2> HIDE DEF r
  <2>5. Types' /\ Exclusive' /\ HeldUnchanged' /\ FoundIsTakenCareOf'
    BY <2>1, <2>2, <2>3, <2>4, CommitStep DEF Aggregated
  <2> QED
    BY <2>4, <2>5 DEF IInv
<1> QED
  BY <1>4, <1>5, <1>6, <1>7, <1>8

LEMMA NextInv == IInv /\ [Next]_vars => IInv'
<1> SUFFICES ASSUME IInv, [Next]_vars PROVE IInv'
  OBVIOUS
<1>1. CASE UNCHANGED vars
  BY <1>1 DEF vars, IInv, Types, Exclusive, HeldUnchanged, Holds, FoundIsTakenCareOf, Orderly,
     AtRest, TakenCareOf, AnnouncedOnce
<1>2. ASSUME NEW j \in Jobs, AbortDeadlock(j) \/ Fail(j) PROVE IInv'
  BY <1>2, FailingStep DEF AbortDeadlock, Fail
<1>3. ASSUME NEW j \in Jobs, NEW c \in Codes, VisitRow(j, c) PROVE IInv'
  BY <1>3, LockStep
<1>4. ASSUME NEW j \in Jobs,
             \/ j \in Additions /\ AdditionStep(j)
             \/ j \in Scans /\ ScanStep(j)
             \/ j \in Requests /\ RequestStep(j)
             \/ j \in Tasks /\ TaskStep(j)
      PROVE IInv'
  BY <1>4, ReadSteps, EndSteps DEF AdditionStep, ScanStep, RequestStep, TaskStep
<1> QED
  BY <1>1, <1>2, <1>3, <1>4 DEF Next, JobStep

-----------------------------------------------------------------------------
LEMMA AlwaysIInv == Spec => []IInv
  BY InitInv, NextInv, PTL DEF Spec

\* Every product is announced at most once and only once it is aggregated, however many
\* scans, requests and tasks overlap: the conditional UPDATE lets one of them write it.
THEOREM AnnouncedAtMostOnce == Spec => []AnnouncedOnce
<1>1. IInv => AnnouncedOnce
  BY DEF IInv
<1> QED
  BY <1>1, AlwaysIInv, PTL

\* Whatever a scan, a request or a task found is aggregated when it ends well, by itself
\* or by the job that was faster.
THEOREM FoundIsAggregated == Spec => []DoneMeansAggregated
<1>1. IInv => DoneMeansAggregated
  BY DEF IInv, FoundIsTakenCareOf, Aggregators, Orderly, AtRest, TakenCareOf, DoneMeansAggregated
<1> QED
  BY <1>1, AlwaysIInv, PTL

-----------------------------------------------------------------------------
(* Chunks *)

\* In a sequence without repetitions every element is counted where it stands.
LEMMA CountedOnce ==
  ASSUME NEW s \in Seq(Codes), NEW P, \A m, n \in DOMAIN s : s[m] = s[n] => m = n
  PROVE  Cardinality(ToSet(s) \cap P) + Cardinality({n \in DOMAIN s : s[n] \notin P}) = Len(s)
<1> DEFINE in == {n \in DOMAIN s : s[n] \in P}
           out == {n \in DOMAIN s : s[n] \notin P}
           f == [n \in in |-> s[n]]
<1>1. DOMAIN s = 1..Len(s) /\ Len(s) \in Nat
  OBVIOUS
<1>2. IsFiniteSet(DOMAIN s) /\ Cardinality(DOMAIN s) = Len(s)
  BY <1>1, FS_Interval
<1>3. IsFiniteSet(in) /\ Cardinality(in) \in Nat
  BY <1>2, FS_Subset, FS_CardinalityType
<1>4. Cardinality(out) = Len(s) - Cardinality(in)
  <2>1. out = DOMAIN s \ in /\ DOMAIN s \cap in = in
    OBVIOUS
  <2> HIDE DEF in, out
  <2> QED
    BY <1>2, <2>1, FS_Difference
<1>5. f \in Bijection(in, ToSet(s) \cap P)
  <2>1. f \in [in -> ToSet(s) \cap P]
    BY DEF ToSet
  <2>2. \A m, n \in in : f[m] = f[n] => m = n
    OBVIOUS
  <2>3. \A c \in ToSet(s) \cap P : \E n \in in : f[n] = c
    BY DEF ToSet
  <2> HIDE DEF f, in
  <2> QED
    BY <2>1, <2>2, <2>3, Fun_IsBij
<1>6. Cardinality(ToSet(s) \cap P) = Cardinality(in)
  <2> HIDE DEF f, in
  <2> QED
    BY <1>3, <1>5, FS_Bijection DEF ExistsBijection
<1> QED
  BY <1>1, <1>3, <1>4, <1>6

LEMMA Quotient ==
  ASSUME NEW d \in Nat \ {0}, NEW k \in Nat, NEW n \in Int, k * d <= n, n < k * d + d
  PROVE  n \div d = k
  OBVIOUS

\* A chunk is the part of its list that begins after pos, and the whole of it is in one
\* chunk of RepeatsInChunk.
LEMMA ChunkProperties ==
  ASSUME NEW t \in Tasks, NEW k \in Nat, job[t].pos = k * ChunkSize,
         job[t].pos < Len(CodesOf[t])
  PROVE  /\ Chunk(t) \in Seq(Codes)
         /\ ChunkEnd(t, job[t].pos) \in Nat
         /\ Len(Chunk(t)) = ChunkEnd(t, job[t].pos) - job[t].pos
         /\ ~RepeatsInChunk(t) =>
               \A m, n \in DOMAIN Chunk(t) : Chunk(t)[m] = Chunk(t)[n] => m = n
<1> DEFINE s == CodesOf[t]
           pos == job[t].pos
           end == ChunkEnd(t, pos)
<1>1. s \in Seq(Codes) /\ Len(s) \in Nat /\ ChunkSize \in Nat \ {0}
  BY CodesOfAssumption, BoundsAssumption DEF Jobs
<1>2. pos \in Nat /\ end \in Nat /\ pos < end /\ end <= Len(s) /\ end <= pos + ChunkSize
  BY <1>1 DEF ChunkEnd, Smaller
<1> HIDE DEF end
<1>3. Chunk(t) = SubSeq(s, pos + 1, end)
  BY DEF Chunk, end
<1>4. /\ Chunk(t) \in Seq(Codes) /\ Len(Chunk(t)) = end - pos
      /\ \A n \in 1..end - pos : Chunk(t)[n] = s[pos + n]
  BY <1>1, <1>2, <1>3
<1>5. ASSUME NEW m \in DOMAIN Chunk(t), NEW n \in DOMAIN Chunk(t),
             Chunk(t)[m] = Chunk(t)[n], m # n
      PROVE  RepeatsInChunk(t)
  <2>1. m \in 1..end - pos /\ n \in 1..end - pos
    BY <1>4
  <2> DEFINE x == pos + m
             y == pos + n
  <2>2. DOMAIN s = 1..Len(s)
    BY <1>1
  <2>3. /\ x \in Int /\ k * ChunkSize <= x - 1 /\ x - 1 < k * ChunkSize + ChunkSize
        /\ y \in Int /\ k * ChunkSize <= y - 1 /\ y - 1 < k * ChunkSize + ChunkSize
    BY <1>1, <1>2, <2>1
  <2>4. s[x] = s[y]
    BY <1>4, <1>5, <2>1
  <2> HIDE DEF s, pos
  <2>5. x \in DOMAIN s /\ y \in DOMAIN s /\ x # y
    BY <1>1, <1>2, <1>5, <2>1, <2>2
  <2> HIDE DEF x, y
  <2>6. (x - 1) \div ChunkSize = k /\ (y - 1) \div ChunkSize = k
    <3>1. x - 1 \in Int /\ y - 1 \in Int
      BY <2>3
    <3> QED
      BY <1>1, <2>3, <3>1, Quotient
  <2> QED
    BY <2>4, <2>5, <2>6 DEF RepeatsInChunk, SameChunk, s
<1> QED
  BY <1>2, <1>4, <1>5 DEF end

-----------------------------------------------------------------------------
(* The accounts of the tasks *)

JobRecords == [pc : {"read", "counted", "write", "done", "failed"}, pos : Nat,
               found : SUBSET Codes, todo : SUBSET Codes, held : SUBSET Codes]

Counts == [aggregated : Nat, failed : Nat]

\* A task whose record is r is at the beginning of a chunk, which is not empty while the
\* task runs.
AtChunk(t, r) ==
    /\ \E k \in Nat : r.pos = k * ChunkSize
    /\ r.pos < Len(CodesOf[t]) + ChunkSize
    /\ r.pc \in {"read", "write"} => r.pos < Len(CodesOf[t])

\* Every code up to pos is in the counts q; while the chunk's UPDATE runs, its rows are
\* still to come.
Accounted(t, r, q) ==
    ~RepeatsInChunk(t) =>
        /\ r.pc = "read" => q.aggregated + q.failed = r.pos
        /\ r.pc = "write" =>
              /\ r.todo \cap r.held = {}
              /\ q.aggregated + q.failed + Cardinality(r.todo) + Cardinality(r.held)
                    = ChunkEnd(t, r.pos)
        /\ r.pc = "done" => q.aggregated + q.failed = Len(CodesOf[t])

FiniteRows ==
    /\ IsFiniteSet(Present)
    /\ \A j \in Jobs : IsFiniteSet(job[j].todo) /\ IsFiniteSet(job[j].held)

CountIInv ==
    /\ job \in [Jobs -> JobRecords] /\ report \in [Jobs -> Counts]
    /\ failures \in 0..MaxFailures
    /\ FiniteRows
    /\ \A t \in Tasks : AtChunk(t, job[t]) /\ Accounted(t, job[t], report[t])

LEMMA ListLength == \A t \in Tasks : Len(CodesOf[t]) \in Nat \ {0}
<1> SUFFICES ASSUME NEW t \in Tasks PROVE Len(CodesOf[t]) \in Nat \ {0}
  OBVIOUS
<1>1. CodesOf[t] \in Seq(Codes) /\ CodesOf[t] # <<>>
  BY CodesOfAssumption DEF Jobs
<1> QED
  BY <1>1

LEMMA CountInit == Init => CountIInv
<1> SUFFICES ASSUME Init PROVE CountIInv
  OBVIOUS
<1>1. job = [j \in Jobs |-> NewJob] /\ report = [j \in Jobs |-> NewReport]
  BY DEF Init
<1>2. NewJob \in JobRecords /\ NewReport \in Counts
  BY DEF NewJob, JobRecords, NewReport, Counts
<1>3. FiniteRows
  <2>1. IsFiniteSet(Present)
    BY DEF Init
  <2>2. \A j \in Jobs : job[j].todo = {} /\ job[j].held = {}
    BY <1>1 DEF NewJob
  <2> QED
    BY <2>1, <2>2, FS_EmptySet DEF FiniteRows
<1>4. ASSUME NEW t \in Tasks PROVE AtChunk(t, job[t]) /\ Accounted(t, job[t], report[t])
  <2>1. job[t] = NewJob /\ report[t] = NewReport
    BY <1>1 DEF Jobs
  <2>2. 0 = 0 * ChunkSize /\ ChunkSize \in Nat \ {0}
    BY BoundsAssumption
  <2> QED
    BY <2>1, <2>2, ListLength DEF NewJob, NewReport, AtChunk, Accounted
<1> QED
  BY <1>1, <1>2, <1>3, <1>4, BoundsAssumption DEF Init, CountIInv

\* A step that changes the record of j and its counts.
LEMMA CountStep ==
  ASSUME CountIInv, NEW j \in Jobs, NEW r \in JobRecords, NEW q \in Counts,
         job' = [job EXCEPT ![j] = r], report' = [report EXCEPT ![j] = q],
         failures' \in 0..MaxFailures, IsFiniteSet(Present'),
         IsFiniteSet(r.todo), IsFiniteSet(r.held),
         j \in Tasks => AtChunk(j, r) /\ Accounted(j, r, q)
  PROVE  CountIInv'
<1>1. /\ job' \in [Jobs -> JobRecords] /\ report' \in [Jobs -> Counts]
      /\ \A k \in Jobs : /\ job'[k] = IF k = j THEN r ELSE job[k]
                         /\ report'[k] = IF k = j THEN q ELSE report[k]
  BY DEF CountIInv
<1>2. FiniteRows'
  BY <1>1 DEF CountIInv, FiniteRows
<1>3. ASSUME NEW t \in Tasks PROVE AtChunk(t, job[t])' /\ Accounted(t, job[t], report[t])'
  <2>1. t \in Jobs
    BY DEF Jobs
  <2>2. CASE t = j
    BY <1>1, <2>1, <2>2 DEF AtChunk, Accounted
  <2>3. CASE t # j
    BY <1>1, <2>1, <2>3 DEF CountIInv, AtChunk, Accounted
  <2> QED
    BY <2>2, <2>3
<1> QED
  BY <1>1, <1>2, <1>3 DEF CountIInv

\* A step that leaves the table and the counts alone.
LEMMA QuietCount ==
  ASSUME CountIInv, NEW j \in Jobs, NEW r \in JobRecords, job' = [job EXCEPT ![j] = r],
         UNCHANGED <<product, report>>, failures' \in 0..MaxFailures,
         IsFiniteSet(r.todo), IsFiniteSet(r.held),
         j \in Tasks => AtChunk(j, r) /\ Accounted(j, r, report[j])
  PROVE  CountIInv'
<1>1. report[j] \in Counts /\ report' = [report EXCEPT ![j] = report[j]]
  BY DEF CountIInv
<1>2. IsFiniteSet(Present')
  BY DEF CountIInv, FiniteRows, Present
<1> QED
  BY <1>1, <1>2, CountStep

\* Jobs that fail account for nothing.
LEMMA FailingCount ==
  ASSUME CountIInv, NEW j \in Jobs, NEW how \in {"done", "failed"},
         j \in Tasks => how = "failed",
         Ends(j, how), UNCHANGED <<product, report>>, failures' \in 0..MaxFailures
  PROVE  CountIInv'
<1> DEFINE r == [job[j] EXCEPT !.pc = how, !.todo = {}, !.held = {}]
<1>1. job[j] \in JobRecords
  BY DEF CountIInv
<1>2. /\ r \in JobRecords /\ r.pc = how /\ r.pos = job[j].pos
      /\ r.todo = {} /\ r.held = {}
  BY <1>1 DEF JobRecords
<1>3. job' = [job EXCEPT ![j] = r]
  BY <1>1 DEF Ends, CountIInv, JobRecords
<1>4. j \in Tasks => AtChunk(j, r) /\ Accounted(j, r, report[j])
  BY <1>2 DEF CountIInv, AtChunk, Accounted
<1> HIDE DEF r
<1> QED
  BY <1>2, <1>3, <1>4, FS_EmptySet, QuietCount

LEMMA ReadCounts ==
  ASSUME IInv, CountIInv, NEW j \in Jobs,
         \/ j \in Additions /\ CreateProduct(j)
         \/ j \in Scans /\ AggregateProduct(j)
         \/ j \in Requests /\ (CountProducts(j) \/ AggregateBatch(j))
  PROVE  CountIInv'
<1>1. job[j] \in JobRecords /\ IsFiniteSet(job[j].todo) /\ IsFiniteSet(job[j].held)
  BY DEF CountIInv, FiniteRows
<1>2. UNCHANGED <<product, report>> /\ failures' \in 0..MaxFailures /\ j \notin Tasks
  BY KindsAssumption
     DEF CountIInv, CreateProduct, AggregateProduct, CountProducts, AggregateBatch
<1>3. CASE Ends(j, "failed") \/ Ends(j, "done")
  BY <1>2, <1>3, FailingCount
<1>4. ASSUME NEW found \in SUBSET Codes, NEW rows \in SUBSET Codes, IsFiniteSet(rows),
             Updates(j, found, rows)
      PROVE  CountIInv'
  <2> DEFINE r == [job[j] EXCEPT !.pc = "write", !.found = found, !.todo = rows]
  <2>1. r \in JobRecords /\ r.held = job[j].held /\ r.todo = rows
    BY <1>1 DEF JobRecords
  <2>2. job' = [job EXCEPT ![j] = r]
    BY <1>4 DEF Updates, CountIInv, JobRecords
  <2> HIDE DEF r
  <2> QED
    BY <1>1, <1>2, <1>4, <2>1, <2>2, QuietCount
<1>5. CASE j \in Additions /\ CreateProduct(j)
  <2>1. CodesOf[j][1] \in Codes /\ IsFiniteSet({CodesOf[j][1]})
    BY <1>5, CodesAreGiven, FS_Singleton
  <2> QED
    BY <1>3, <1>4, <1>5, <2>1 DEF CreateProduct
<1>6. CASE j \in Scans /\ AggregateProduct(j)
  <2>1. CodesOf[j][1] \in Codes /\ IsFiniteSet({CodesOf[j][1]})
    BY <1>6, CodesAreGiven, FS_Singleton
  <2>2. product[CodesOf[j][1]] \in {"absent", "open", "aggregated"}
    BY <2>1 DEF IInv, Types
  <2>3. \/ Ends(j, "failed") \/ Ends(j, "done")
        \/ Updates(j, {CodesOf[j][1]}, {CodesOf[j][1]})
    BY <1>6, <2>2 DEF AggregateProduct
  <2> QED
    BY <1>3, <1>4, <2>1, <2>3
<1>7. CASE j \in Requests /\ CountProducts(j)
  <2> DEFINE r == [job[j] EXCEPT !.pc = "counted", !.found = Present]
  <2>1. r \in JobRecords /\ r.held = job[j].held /\ r.todo = job[j].todo
    BY <1>1 DEF JobRecords, Present
  <2>2. ~Ends(j, "failed") => job' = [job EXCEPT ![j] = r]
    BY <1>7 DEF CountProducts, CountIInv, JobRecords
  <2> HIDE DEF r
  <2> QED
    BY <1>1, <1>2, <1>3, <2>1, <2>2, QuietCount
<1>8. CASE j \in Requests /\ AggregateBatch(j)
  <2>1. Open \in SUBSET Present
    BY DEF Open, Present
  <2>2. IsFiniteSet(Open) /\ Open \in SUBSET Codes
    BY <2>1, FS_Subset DEF CountIInv, FiniteRows, Present
  <2> QED
    BY <1>1, <1>4, <1>8, <2>2 DEF AggregateBatch, JobRecords
<1> QED
  BY <1>5, <1>6, <1>7, <1>8

\* What the SELECT of a chunk finds open is still to be counted, the rest is counted now.
LEMMA SelectCounts ==
  ASSUME IInv, CountIInv, NEW t \in Tasks, SelectChunk(t)
  PROVE  CountIInv'
<1> DEFINE found == ToSet(Chunk(t)) \cap Present
           missing == {n \in DOMAIN Chunk(t) : Chunk(t)[n] \notin Present}
           rows == found \cap Open
           rest == found \ Open
           r == [job[t] EXCEPT !.pc = "write", !.found = job[t].found \cup found,
                               !.todo = rows]
           q == [report[t] EXCEPT !.failed = report[t].failed + Cardinality(rest)
                                                + Cardinality(missing)]
<1>1. t \in Jobs /\ job[t] \in JobRecords /\ report[t] \in Counts
  BY DEF Jobs, CountIInv
<1>2. job[t].pc = "read" /\ job[t].held = {}
  BY <1>1 DEF SelectChunk, IInv, FoundIsTakenCareOf, Aggregators, Orderly, AtRest
<1>3. PICK k \in Nat : job[t].pos = k * ChunkSize
  BY DEF CountIInv, AtChunk
<1>4. job[t].pos < Len(CodesOf[t])
  BY <1>2 DEF CountIInv, AtChunk
<1>5. /\ Chunk(t) \in Seq(Codes) /\ ChunkEnd(t, job[t].pos) \in Nat
      /\ Len(Chunk(t)) = ChunkEnd(t, job[t].pos) - job[t].pos
      /\ ~RepeatsInChunk(t) =>
            \A m, n \in DOMAIN Chunk(t) : Chunk(t)[m] = Chunk(t)[n] => m = n
  BY <1>3, <1>4, ChunkProperties
<1>6. /\ IsFiniteSet(found) /\ IsFiniteSet(rows) /\ IsFiniteSet(rest)
      /\ Cardinality(rows) \in Nat /\ Cardinality(rest) \in Nat
      /\ Cardinality(found) = Cardinality(rows) + Cardinality(rest)
  <2>1. found \in SUBSET Present /\ IsFiniteSet(Present)
    BY DEF CountIInv, FiniteRows
  <2> HIDE DEF found
  <2>2. IsFiniteSet(found)
    BY <2>1, FS_Subset
  <2>3. IsFiniteSet(rows) /\ Cardinality(rows) \in Nat /\ Cardinality(found) \in Nat
    BY <2>2, FS_Subset, FS_CardinalityType
  <2>4. IsFiniteSet(rest) /\ Cardinality(rest) = Cardinality(found) - Cardinality(rows)
    BY <2>2, FS_Difference
  <2> QED
    BY <2>2, <2>3, <2>4, FS_CardinalityType
<1>7. Cardinality(missing) \in Nat
  <2>1. DOMAIN Chunk(t) = 1..Len(Chunk(t)) /\ Len(Chunk(t)) \in Int
    BY <1>5
  <2>2. IsFiniteSet(DOMAIN Chunk(t))
    BY <2>1, FS_Interval
  <2> QED
    BY <2>2, FS_Subset, FS_CardinalityType
<1>8. ~RepeatsInChunk(t) => Cardinality(found) + Cardinality(missing) = Len(Chunk(t))
  BY <1>5, CountedOnce
<1>9. found \subseteq Codes
  BY DEF Present
<1> HIDE DEF found, missing, rows, rest
<1>10. /\ r \in JobRecords /\ r.pc = "write" /\ r.todo = rows /\ r.held = {}
       /\ r.pos = job[t].pos
  BY <1>1, <1>2, <1>9 DEF JobRecords, rows
<1>11. /\ q \in Counts /\ q.aggregated = report[t].aggregated
       /\ q.failed = report[t].failed + Cardinality(rest) + Cardinality(missing)
  <2>1. report[t].failed + Cardinality(rest) + Cardinality(missing) \in Nat
    BY <1>1, <1>6, <1>7 DEF Counts
  <2> QED
    BY <1>1, <2>1 DEF Counts
<1>12. job' = [job EXCEPT ![t] = r] /\ report' = [report EXCEPT ![t] = q]
  BY <1>1 DEF SelectChunk, Updates, CountIInv, JobRecords, Counts, found, missing, rows, rest
<1>13. AtChunk(t, r)
  BY <1>3, <1>4, <1>10, BoundsAssumption DEF AtChunk, CountIInv
<1>14. Accounted(t, r, q)
  <2>1. ASSUME ~RepeatsInChunk(t)
        PROVE  q.aggregated + q.failed + Cardinality(rows) + 0 = ChunkEnd(t, job[t].pos)
    <3>1. report[t].aggregated + report[t].failed = job[t].pos
      BY <1>2, <2>1 DEF CountIInv, Accounted
    <3>2. Cardinality(rows) + Cardinality(rest) + Cardinality(missing)
            = ChunkEnd(t, job[t].pos) - job[t].pos
      BY <1>5, <1>6, <1>8, <2>1
    <3>3. report[t].aggregated \in Nat /\ report[t].failed \in Nat /\ job[t].pos \in Nat
      BY <1>1 DEF Counts, JobRecords
    <3>4. ChunkEnd(t, job[t].pos) \in Nat
      BY <1>5
    <3> QED
      BY <1>6, <1>7, <1>11, <3>1, <3>2, <3>3, <3>4
  <2> QED
    BY <1>10, <2>1, FS_EmptySet DEF Accounted
<1>15. IsFiniteSet(Present') /\ failures' \in 0..MaxFailures
  BY DEF SelectChunk, CountIInv, FiniteRows, Present
<1> HIDE DEF r, q
<1> QED
  BY <1>1, <1>6, <1>10, <1>11, <1>12, <1>13, <1>14, <1>15, FS_EmptySet, CountStep

LEMMA VisitCounts ==
  ASSUME IInv, CountIInv, NEW j \in Jobs, NEW c \in Codes, VisitRow(j, c)
  PROVE  CountIInv'
<1>1. /\ job[j] \in JobRecords /\ IsFiniteSet(job[j].todo) /\ IsFiniteSet(job[j].held)
      /\ IsFiniteSet({c}) /\ IsFiniteSet({})
  BY FS_Singleton, FS_EmptySet DEF CountIInv, FiniteRows
<1>2. /\ UNCHANGED <<product, report>> /\ failures' \in 0..MaxFailures
      /\ c \in job[j].todo /\ job[j].pc = "write"
  BY DEF VisitRow, CountIInv
<1>3. j \in Additions => j \notin Tasks
  BY KindsAssumption
<1>4. CASE Ends(j, "failed")
  BY <1>2, <1>4, FailingCount
<1>5. CASE j \in Additions /\ ~Ends(j, "failed")
  <2> DEFINE r == [job[j] EXCEPT !.todo = {}, !.held = {c}]
  <2>1. r \in JobRecords /\ r.todo = {} /\ r.held = {c}
    BY <1>1 DEF JobRecords
  <2>2. job' = [job EXCEPT ![j] = r]
    BY <1>1, <1>5 DEF VisitRow, CountIInv, JobRecords
  <2> HIDE DEF r
  <2> QED
    BY <1>1, <1>2, <1>3, <1>5, <2>1, <2>2, QuietCount
<1>6. CASE j \notin Additions
  <2> DEFINE held == IF StillMatches(j, c) THEN job[j].held \cup {c} ELSE job[j].held
             r == [job[j] EXCEPT !.todo = job[j].todo \ {c}, !.held = held]
  <2>1. /\ r \in JobRecords /\ r.todo = job[j].todo \ {c} /\ r.held = held
        /\ r.pc = "write" /\ r.pos = job[j].pos
    BY <1>1, <1>2 DEF JobRecords
  <2>2. job' = [job EXCEPT ![j] = r]
    BY <1>1, <1>6 DEF VisitRow, CountIInv, JobRecords
  <2>3. /\ IsFiniteSet(job[j].todo \ {c}) /\ IsFiniteSet(held)
        /\ Cardinality(job[j].todo \ {c}) = Cardinality(job[j].todo) - 1
    BY <1>1, <1>2, FS_RemoveElement, FS_AddElement
  <2>4. ASSUME j \in Tasks PROVE AtChunk(j, r) /\ Accounted(j, r, report[j])
    <3>1. held = job[j].held \cup {c}
      BY <2>4 DEF StillMatches
    <3> HIDE DEF held, r
    <3>2. AtChunk(j, job[j]) /\ Accounted(j, job[j], report[j])
      BY <2>4 DEF CountIInv
    <3>3. AtChunk(j, r)
      BY <1>2, <2>1, <3>2 DEF AtChunk
    <3>4. ASSUME ~RepeatsInChunk(j)
          PROVE  /\ r.todo \cap r.held = {}
                 /\ report[j].aggregated + report[j].failed + Cardinality(r.todo)
                       + Cardinality(r.held) = ChunkEnd(j, r.pos)
      <4>1. job[j].todo \cap job[j].held = {} /\ c \notin job[j].held
        BY <1>2, <3>2, <3>4 DEF Accounted
      <4>2. Cardinality(r.held) = Cardinality(job[j].held) + 1
        <5>1. Cardinality(job[j].held \cup {c}) = Cardinality(job[j].held) + 1
          BY <1>1, <4>1, FS_AddElement
        <5> QED
          BY <2>1, <3>1, <5>1
      <4>3. r.todo \cap r.held = {}
        BY <2>1, <3>1, <4>1
      <4>4. report[j].aggregated + report[j].failed + Cardinality(job[j].todo)
                + Cardinality(job[j].held) = ChunkEnd(j, job[j].pos)
        BY <1>2, <3>2, <3>4 DEF Accounted
      <4>5. /\ report[j].aggregated \in Nat /\ report[j].failed \in Nat
            /\ Cardinality(job[j].todo) \in Nat /\ Cardinality(job[j].held) \in Nat
        BY <1>1, FS_CardinalityType DEF CountIInv, Counts
      <4> QED
        BY <2>1, <2>3, <4>2, <4>3, <4>4, <4>5
    <3> QED
      BY <2>1, <3>3, <3>4 DEF Accounted
  <2> HIDE DEF r, held
  <2> QED
    BY <1>2, <2>1, <2>2, <2>3, <2>4, QuietCount
<1> QED
  BY <1>4, <1>5, <1>6

\* The rows a transaction adds to the table are rows it holds.
LEMMA FiniteAfterCommit ==
  ASSUME CountIInv, NEW j \in Jobs, NEW v,
         product' = [c \in Codes |-> IF Holds(j, c) THEN v ELSE product[c]]
  PROVE  IsFiniteSet(Present')
<1>1. IsFiniteSet(Present \cup job[j].held)
  BY FS_Union DEF CountIInv, FiniteRows
<1>2. Present' \in SUBSET (Present \cup job[j].held)
  BY DEF Present, Holds
<1> QED
  BY <1>1, <1>2, FS_Subset

LEMMA CommitCounts ==
  ASSUME IInv, CountIInv, NEW j \in Jobs,
         \/ j \in Additions /\ CommitAddition(j)
         \/ j \in Scans /\ (CommitProduct(j) \/ LoseProduct(j))
         \/ j \in Requests /\ CommitBatch(j)
  PROVE  CountIInv'
<1>1. job[j] \in JobRecords /\ report[j] \in Counts /\ Cardinality(job[j].held) \in Nat
  BY FS_CardinalityType DEF CountIInv, FiniteRows
<1>2. j \notin Tasks /\ failures' \in 0..MaxFailures
  BY KindsAssumption DEF CountIInv, CommitAddition, CommitProduct, LoseProduct, CommitBatch
<1>3. CASE LoseProduct(j)
  BY <1>2, <1>3, FailingCount DEF LoseProduct
<1>4. CASE ~LoseProduct(j)
  <2> DEFINE r == [job[j] EXCEPT !.pc = "done", !.todo = {}, !.held = {}]
             n == Cardinality(job[j].held)
             q == IF j \in Requests THEN [report[j] EXCEPT !.aggregated = n] ELSE report[j]
  <2>1. r \in JobRecords /\ r.todo = {} /\ r.held = {}
    BY <1>1 DEF JobRecords
  <2>2. job' = [job EXCEPT ![j] = r]
    BY <1>1, <1>4 DEF CommitAddition, CommitProduct, CommitBatch, Ends, CountIInv, JobRecords
  <2>3. n \in Nat
    BY <1>1
  <2>4. report' = [report EXCEPT ![j] = q]
    BY <1>1, <1>4, KindsAssumption
       DEF CommitAddition, CommitProduct, CommitBatch, CountIInv, Counts
  <2> HIDE DEF n
  <2>5. q \in Counts
    BY <1>1, <2>3 DEF Counts
  <2>6. IsFiniteSet(Present')
    BY <1>4, FiniteAfterCommit DEF CommitAddition, CommitProduct, CommitBatch, Aggregated
  <2> HIDE DEF r, q
  <2> QED
    BY <1>2, <2>1, <2>2, <2>4, <2>5, <2>6, FS_EmptySet, CountStep
<1> QED
  BY <1>3, <1>4

\* The chunk's UPDATE is through: its rows are counted, and with them the chunk.
LEMMA ChunkCounts ==
  ASSUME IInv, CountIInv, NEW t \in Tasks, CommitChunk(t)
  PROVE  CountIInv'
<1> DEFINE len == Len(CodesOf[t])
           pos == job[t].pos + ChunkSize
           n == Cardinality(job[t].held)
           next == IF MoreChunks(t) THEN "read" ELSE "done"
           r == [job[t] EXCEPT !.pc = next, !.pos = pos, !.held = {}]
           q == [report[t] EXCEPT !.aggregated = report[t].aggregated + n]
<1>1. t \in Jobs /\ job[t] \in JobRecords /\ report[t] \in Counts
  BY DEF Jobs, CountIInv
<1>2. job[t].pc = "write" /\ job[t].todo = {}
  BY DEF CommitChunk, Written
<1>3. ChunkSize \in Nat \ {0} /\ len \in Nat /\ job[t].pos \in Nat /\ n \in Nat
  BY <1>1, BoundsAssumption, ListLength, FS_CardinalityType
     DEF JobRecords, CountIInv, FiniteRows
<1>4. AtChunk(t, job[t]) /\ Accounted(t, job[t], report[t])
  BY DEF CountIInv
<1>5. job[t].pos < len
  BY <1>2, <1>4 DEF AtChunk
<1>6. next = IF pos < len THEN "read" ELSE "done"
  BY DEF MoreChunks
<1>7. job' = [job EXCEPT ![t] = r] /\ report' = [report EXCEPT ![t] = q]
  BY <1>1 DEF CommitChunk, CountIInv, JobRecords, Counts
<1> HIDE DEF next, n, pos, len
<1>8. pos \in Nat
  BY <1>3 DEF pos
<1>9. /\ r \in JobRecords /\ r.pc = next /\ r.pos = pos /\ r.todo = {} /\ r.held = {}
  BY <1>1, <1>2, <1>6, <1>8 DEF JobRecords
<1>10. /\ q \in Counts /\ q.aggregated = report[t].aggregated + n
       /\ q.failed = report[t].failed
  <2>1. report[t].aggregated + n \in Nat
    BY <1>1, <1>3 DEF Counts
  <2> QED
    BY <1>1, <2>1 DEF Counts
<1>11. AtChunk(t, r)
  <2>1. PICK k \in Nat : job[t].pos = k * ChunkSize
    BY <1>4 DEF AtChunk
  <2>2. k + 1 \in Nat /\ pos = (k + 1) * ChunkSize
    BY <1>3, <2>1 DEF pos
  <2>3. pos < len + ChunkSize
    BY <1>3, <1>5 DEF pos
  <2> HIDE DEF r
  <2> QED
    BY <1>6, <1>9, <2>2, <2>3 DEF AtChunk, len
<1>12. Accounted(t, r, q)
  <2>1. ASSUME ~RepeatsInChunk(t) PROVE q.aggregated + q.failed = ChunkEnd(t, job[t].pos)
    <3>1. report[t].aggregated + report[t].failed + 0 + n = ChunkEnd(t, job[t].pos)
      BY <1>2, <1>4, <2>1, FS_EmptySet DEF Accounted, n
    <3>2. report[t].aggregated \in Nat /\ report[t].failed \in Nat
      BY <1>1 DEF Counts
    <3> HIDE DEF q
    <3> QED
      BY <1>3, <1>10, <3>1, <3>2
  <2>2. ChunkEnd(t, job[t].pos) = IF pos < len THEN pos ELSE len
    BY DEF ChunkEnd, Smaller, pos, len
  <2> HIDE DEF r, q
  <2> QED
    BY <1>6, <1>9, <2>1, <2>2 DEF Accounted, len
<1>13. IsFiniteSet(Present') /\ failures' \in 0..MaxFailures
  BY <1>1, FiniteAfterCommit DEF CommitChunk, Aggregated, CountIInv
<1> HIDE DEF r, q
<1> QED
  BY <1>1, <1>7, <1>9, <1>10, <1>11, <1>12, <1>13, FS_EmptySet, CountStep

LEMMA CountNext == IInv /\ CountIInv /\ [Next]_vars => CountIInv'
<1> SUFFICES ASSUME IInv, CountIInv, [Next]_vars PROVE CountIInv'
  OBVIOUS
<1>1. CASE UNCHANGED vars
  BY <1>1 DEF vars, CountIInv, FiniteRows, Present
<1>2. ASSUME NEW j \in Jobs, AbortDeadlock(j) \/ Fail(j) PROVE CountIInv'
  <2>1. failures' \in 0..MaxFailures
    BY <1>2, BoundsAssumption DEF AbortDeadlock, Fail, CountIInv
  <2> QED
    BY <1>2, <2>1, FailingCount DEF AbortDeadlock, Fail
<1>3. ASSUME NEW j \in Jobs, NEW c \in Codes, VisitRow(j, c) PROVE CountIInv'
  BY <1>3, VisitCounts
<1>4. ASSUME NEW j \in Jobs,
             \/ j \in Additions /\ AdditionStep(j)
             \/ j \in Scans /\ ScanStep(j)
             \/ j \in Requests /\ RequestStep(j)
             \/ j \in Tasks /\ TaskStep(j)
      PROVE  CountIInv'
  BY <1>4, ReadCounts, SelectCounts, CommitCounts, ChunkCounts
     DEF AdditionStep, ScanStep, RequestStep, TaskStep
<1> QED
  BY <1>1, <1>2, <1>3, <1>4 DEF Next, JobStep

LEMMA AlwaysCountIInv == Spec => []CountIInv
  BY AlwaysIInv, CountInit, CountNext, PTL DEF Spec

\* The table, the jobs and their counts keep their type, and no task goes further than the
\* chunk that holds the last of its codes.
THEOREM TypeCorrect == Spec => []TypeOK
<1>1. IInv /\ CountIInv => TypeOK
  BY DEF IInv, Types, CountIInv, AtChunk, JobRecords, Counts, TypeOK
<1> QED
  BY <1>1, AlwaysIInv, AlwaysCountIInv, PTL

\* The result of a finished task accounts for every code it was given, for any list, any
\* chunk size and whatever others aggregate between its SELECTs and UPDATEs.
THEOREM ReportsAddUp == Spec => []ReportAddsUp
<1>1. CountIInv => ReportAddsUp
  BY DEF CountIInv, Accounted, ReportAddsUp
<1> QED
  BY <1>1, AlwaysCountIInv, PTL

-----------------------------------------------------------------------------
(* Waiting *)

\* Only a running UPDATE or insert has rows, however the last one ended.
Released(r) == r.pc # "write" => r.todo = {} /\ r.held = {}

AllReleased == \A j \in Jobs : Released(job[j])

LEMMA ReleasedStep ==
    ASSUME IInv, AllReleased, NEW j \in Jobs, NEW r, job' = [job EXCEPT ![j] = r], Released(r)
    PROVE  AllReleased'
<1>1. \A k \in Jobs : job'[k] = IF k = j THEN r ELSE job[k]
  BY DEF IInv, Types
<1> QED
  BY <1>1 DEF AllReleased

LEMMA ReleasedEnds ==
    ASSUME IInv, AllReleased, NEW j \in Jobs, NEW how, Ends(j, how) PROVE AllReleased'
<1> DEFINE r == [job[j] EXCEPT !.pc = how, !.todo = {}, !.held = {}]
<1>1. job' = [job EXCEPT ![j] = r] /\ r.todo = {} /\ r.held = {}
  BY DEF Ends, IInv, Types, JobType
<1> HIDE DEF r
<1> QED
  BY <1>1, ReleasedStep DEF Released

LEMMA ReleasedUpdates ==
    ASSUME IInv, AllReleased, NEW j \in Jobs, NEW found, NEW rows, Updates(j, found, rows)
    PROVE  AllReleased'
<1> DEFINE r == [job[j] EXCEPT !.pc = "write", !.found = found, !.todo = rows]
<1>1. job' = [job EXCEPT ![j] = r] /\ r.pc = "write"
  BY DEF Updates, IInv, Types, JobType
<1> HIDE DEF r
<1> QED
  BY <1>1, ReleasedStep DEF Released

LEMMA ReleasedNext == IInv /\ AllReleased /\ [Next]_vars => AllReleased'
<1> SUFFICES ASSUME IInv, AllReleased, [Next]_vars PROVE AllReleased'
  OBVIOUS
<1>1. CASE UNCHANGED vars
  BY <1>1 DEF vars, AllReleased
<1>2. ASSUME NEW a \in Additions, AdditionStep(a) PROVE AllReleased'
  BY <1>2, ReleasedEnds, ReleasedUpdates DEF AdditionStep, CreateProduct, CommitAddition, Jobs
<1>3. ASSUME NEW s \in Scans, ScanStep(s) PROVE AllReleased'
  <2>1. s \in Jobs /\ product[CodesOf[s][1]] \in {"absent", "open", "aggregated"}
    BY CodesAreGiven DEF Jobs, IInv, Types
  <2>2. \/ \E how : Ends(s, how)
        \/ Updates(s, {CodesOf[s][1]}, {CodesOf[s][1]})
    BY <1>3, <2>1 DEF ScanStep, AggregateProduct, CommitProduct, LoseProduct
  <2> QED
    BY <2>1, <2>2, ReleasedEnds, ReleasedUpdates
<1>4. ASSUME NEW q \in Requests, RequestStep(q) PROVE AllReleased'
  <2>1. q \in Jobs
    BY DEF Jobs
  <2>2. CASE CountProducts(q) /\ ~TooMany
    <3> DEFINE r == [job[q] EXCEPT !.pc = "counted", !.found = Present]
    <3>1. job[q].pc = "read" /\ job' = [job EXCEPT ![q] = r]
      BY <2>1, <2>2 DEF CountProducts, IInv, Types, JobType
    <3>2. r.todo = job[q].todo /\ r.held = job[q].held
      BY <2>1 DEF IInv, Types, JobType
    <3> HIDE DEF r
    <3> QED
      BY <2>1, <3>1, <3>2, ReleasedStep DEF AllReleased, Released
  <2>3. CASE CountProducts(q) /\ TooMany
    BY <2>1, <2>3, ReleasedEnds DEF CountProducts
  <2>4. CASE AggregateBatch(q) \/ CommitBatch(q)
    BY <2>1, <2>4, ReleasedEnds, ReleasedUpdates DEF AggregateBatch, CommitBatch
  <2> QED
    BY <1>4, <2>2, <2>3, <2>4 DEF RequestStep
<1>5. ASSUME NEW t \in Tasks, TaskStep(t) PROVE AllReleased'
  <2>1. t \in Jobs
    BY DEF Jobs
  <2>2. CASE CommitChunk(t)
    <3> DEFINE r == [job[t] EXCEPT !.pc = IF MoreChunks(t) THEN "read" ELSE "done",
                                   !.pos = job[t].pos + ChunkSize, !.held = {}]
    <3>1. job' = [job EXCEPT ![t] = r] /\ r.todo = {} /\ r.held = {}
      BY <2>1, <2>2 DEF CommitChunk, Written, IInv, Types, JobType
    <3> HIDE DEF r
    <3> QED
      BY <2>1, <3>1, ReleasedStep DEF Released
  <2> QED
    BY <1>5, <2>1, <2>2, ReleasedUpdates DEF TaskStep, SelectChunk
<1>6. ASSUME NEW j \in Jobs, NEW c \in Codes, VisitRow(j, c) PROVE AllReleased'
  <2>1. job[j].pc = "write" /\ job[j] \in JobType
    BY <1>6 DEF VisitRow, IInv, Types
  <2>2. ASSUME NEW todo, NEW held,
               job' = [job EXCEPT ![j] = [job[j] EXCEPT !.todo = todo, !.held = held]]
        PROVE  AllReleased'
    <3> DEFINE r == [job[j] EXCEPT !.todo = todo, !.held = held]
    <3>1. r.pc = "write"
      BY <2>1 DEF JobType
    <3> HIDE DEF r
    <3>2. Released(r)
      BY <3>1 DEF Released
    <3> QED
      BY <2>2, <3>2, ReleasedStep DEF r
  <2>3. CASE j \in Additions /\ ~CodeTaken(c)
    <3>1. job' = [job EXCEPT ![j] = [job[j] EXCEPT !.todo = {}, !.held = {c}]]
      BY <1>6, <2>1, <2>3 DEF VisitRow, JobType
    <3> QED
      BY <2>2, <3>1
  <2>4. CASE j \notin Additions
    <3> DEFINE held == IF StillMatches(j, c) THEN job[j].held \cup {c} ELSE job[j].held
    <3>1. job' = [job EXCEPT ![j] = [job[j] EXCEPT !.todo = job[j].todo \ {c}, !.held = held]]
      BY <1>6, <2>1, <2>4 DEF VisitRow, JobType
    <3> HIDE DEF held
    <3> QED
      BY <2>2, <3>1
  <2> QED
    BY <1>6, <2>3, <2>4, ReleasedEnds DEF VisitRow
<1>7. ASSUME NEW j \in Jobs, AbortDeadlock(j) \/ Fail(j) PROVE AllReleased'
  BY <1>7, ReleasedEnds DEF AbortDeadlock, Fail
<1> QED
  BY <1>1, <1>2, <1>3, <1>4, <1>5, <1>6, <1>7 DEF Next, JobStep

\* A job that waits runs, and so does the one it waits for.
LEMMA WaitersRun ==
    ASSUME AllReleased, NEW j \in Jobs, NEW k \in Jobs, WaitsFor(j, k)
    PROVE  Running(j) /\ Running(k)
  BY DEF WaitsFor, Blocked, Holds, AllReleased, Released, Running

\* Were all running jobs to wait, finitely many would wait for each other alone.
LEMMA NobodyStuck == AllReleased => SomeJobCanGoOn
<1> SUFFICES ASSUME AllReleased, NEW j0 \in Jobs, Running(j0),
                    \A j \in Jobs : Running(j) => Blocked(j)
             PROVE  \E j \in Jobs : Running(j) /\ Deadlocked(j)
  BY DEF SomeJobCanGoOn
<1> DEFINE W == {j \in Jobs : Running(j)}
           waits == {w \in Jobs \X Jobs : WaitsFor(w[1], w[2])}
<1>1. IsFiniteSet(W) /\ W # {}
  BY KindsAssumption, FS_Subset
<1>2. waits \in SUBSET (W \X W)
  BY WaitersRun
<1>3. \A x \in W : \E y \in W : <<x, y>> \in waits
  <2> SUFFICES ASSUME NEW x \in W PROVE \E y \in W : <<x, y>> \in waits
    OBVIOUS
  <2>1. Blocked(x)
    OBVIOUS
  <2>2. PICK c \in job[x].todo : LockedByOther(x, c)
    BY <2>1 DEF Blocked
  <2>3. PICK y \in Jobs \ {x} : Holds(y, c)
    BY <2>2 DEF LockedByOther
  <2>4. WaitsFor(x, y)
    BY <2>1, <2>3 DEF WaitsFor
  <2> QED
    BY <2>3, <2>4, WaitersRun
<1> HIDE DEF W, waits
<1>4. PICK j \in W : OnCycle(j, waits)
  BY <1>1, <1>2, <1>3, SomeoneOnCycle
<1> QED
  BY <1>4 DEF W, waits, Deadlocked

\* For any number of jobs and products: while a job runs, some running job can go on or is
\* aborted by PostgreSQL.
THEOREM NoHiddenDeadlock == Spec => []SomeJobCanGoOn
<1>1. Init => AllReleased
  BY DEF Init, NewJob, AllReleased, Released
<1> QED
  BY <1>1, ReleasedNext, NobodyStuck, AlwaysIInv, PTL DEF Spec

-----------------------------------------------------------------------------
(* Advancing *)

Stage == [read |-> 0, counted |-> 1, write |-> 2, done |-> 3, failed |-> 3]

\* s is in a later chunk than r, or further in the same one, or has fewer rows to visit.
Later(r, s) ==
    \/ s.pos > r.pos
    \/ /\ s.pos = r.pos
       /\ \/ Stage[s.pc] > Stage[r.pc]
          \/ s.pc = r.pc /\ s.todo \subseteq r.todo /\ s.todo # r.todo

JobsAdvance == \A j \in Jobs : job'[j] # job[j] => Later(job[j], job'[j])

LEMMA AdvanceStep ==
    ASSUME IInv, NEW j \in Jobs, NEW r, job' = [job EXCEPT ![j] = r], Later(job[j], r)
    PROVE  JobsAdvance
<1>1. \A k \in Jobs : job'[k] = IF k = j THEN r ELSE job[k]
  BY DEF IInv, Types
<1> QED
  BY <1>1 DEF JobsAdvance

LEMMA AdvanceEnds ==
    ASSUME IInv, NEW j \in Jobs, NEW how \in {"done", "failed"}, Ends(j, how), Running(j)
    PROVE  JobsAdvance
<1> DEFINE r == [job[j] EXCEPT !.pc = how, !.todo = {}, !.held = {}]
<1>1. job' = [job EXCEPT ![j] = r] /\ r.pc = how /\ r.pos = job[j].pos
  BY DEF Ends, IInv, Types, JobType
<1> HIDE DEF r
<1>2. Later(job[j], r)
  BY <1>1 DEF Later, Stage, Running
<1> QED
  BY <1>1, <1>2, AdvanceStep

LEMMA AdvanceUpdates ==
    ASSUME IInv, NEW j \in Jobs, NEW found, NEW rows, Updates(j, found, rows),
           job[j].pc \in {"read", "counted"}
    PROVE  JobsAdvance
<1> DEFINE r == [job[j] EXCEPT !.pc = "write", !.found = found, !.todo = rows]
<1>1. job' = [job EXCEPT ![j] = r] /\ r.pc = "write" /\ r.pos = job[j].pos
  BY DEF Updates, IInv, Types, JobType
<1> HIDE DEF r
<1>2. Later(job[j], r)
  BY <1>1 DEF Later, Stage
<1> QED
  BY <1>1, <1>2, AdvanceStep

LEMMA NextAdvances == IInv /\ AllReleased /\ Next => JobsAdvance
<1> SUFFICES ASSUME IInv, AllReleased, NEW j \in Jobs, JobStep(j) \/ Fail(j)
             PROVE  JobsAdvance
  BY DEF Next
<1>1. ASSUME j \in Additions, AdditionStep(j) PROVE JobsAdvance
  BY <1>1, AdvanceEnds, AdvanceUpdates
     DEF AdditionStep, CreateProduct, CommitAddition, Written, Running
<1>2. ASSUME j \in Scans, ScanStep(j) PROVE JobsAdvance
  <2>1. product[CodesOf[j][1]] \in {"absent", "open", "aggregated"}
    BY <1>2, CodesAreGiven DEF IInv, Types
  <2>2. \/ Running(j) /\ \E how \in {"done", "failed"} : Ends(j, how)
        \/ job[j].pc = "read" /\ Updates(j, {CodesOf[j][1]}, {CodesOf[j][1]})
    BY <1>2, <2>1 DEF ScanStep, AggregateProduct, CommitProduct, LoseProduct, Written, Running
  <2> QED
    BY <2>2, AdvanceEnds, AdvanceUpdates
<1>3. ASSUME j \in Requests, RequestStep(j) PROVE JobsAdvance
  <2>1. CASE CountProducts(j) /\ ~TooMany
    <3> DEFINE r == [job[j] EXCEPT !.pc = "counted", !.found = Present]
    <3>1. job[j].pc = "read" /\ job' = [job EXCEPT ![j] = r]
      BY <2>1 DEF CountProducts, IInv, Types, JobType
    <3>2. r.pc = "counted" /\ r.pos = job[j].pos
      BY DEF IInv, Types, JobType
    <3> HIDE DEF r
    <3>3. Later(job[j], r)
      BY <3>1, <3>2 DEF Later, Stage
    <3> QED
      BY <3>1, <3>3, AdvanceStep
  <2>2. CASE CountProducts(j) /\ TooMany
    BY <2>2, AdvanceEnds DEF CountProducts, Running
  <2>3. CASE AggregateBatch(j) \/ CommitBatch(j)
    BY <2>3, AdvanceEnds, AdvanceUpdates DEF AggregateBatch, CommitBatch, Written, Running
  <2> QED
    BY <1>3, <2>1, <2>2, <2>3 DEF RequestStep
<1>4. ASSUME j \in Tasks, TaskStep(j) PROVE JobsAdvance
  <2>1. CASE CommitChunk(j)
    <3> DEFINE r == [job[j] EXCEPT !.pc = IF MoreChunks(j) THEN "read" ELSE "done",
                                   !.pos = job[j].pos + ChunkSize, !.held = {}]
    <3>1. job' = [job EXCEPT ![j] = r] /\ r.pos = job[j].pos + ChunkSize /\ job[j].pos \in Int
      BY <2>1 DEF CommitChunk, IInv, Types, JobType
    <3> HIDE DEF r
    <3>2. Later(job[j], r)
      BY <3>1, BoundsAssumption DEF Later
    <3> QED
      BY <3>1, <3>2, AdvanceStep
  <2>2. CASE SelectChunk(j)
    BY <2>2, AdvanceUpdates DEF SelectChunk
  <2> QED
    BY <1>4, <2>1, <2>2 DEF TaskStep
<1>5. ASSUME NEW c \in Codes, VisitRow(j, c) PROVE JobsAdvance
  <2>1. job[j].pc = "write" /\ c \in job[j].todo /\ Running(j)
    BY <1>5 DEF VisitRow, Running
  <2>2. CASE j \in Additions /\ ~CodeTaken(c)
    <3> DEFINE r == [job[j] EXCEPT !.todo = {}, !.held = {c}]
    <3>1. job' = [job EXCEPT ![j] = r]
      BY <1>5, <2>1, <2>2 DEF VisitRow, IInv, Types, JobType
    <3>2. r.pc = job[j].pc /\ r.pos = job[j].pos /\ r.todo = {}
      BY DEF IInv, Types, JobType
    <3> HIDE DEF r
    <3>3. Later(job[j], r)
      BY <2>1, <3>2 DEF Later
    <3> QED
      BY <3>1, <3>3, AdvanceStep
  <2>3. CASE j \notin Additions
    <3> DEFINE r == [job[j] EXCEPT !.todo = job[j].todo \ {c},
                                   !.held = IF StillMatches(j, c) THEN job[j].held \cup {c}
                                                                  ELSE job[j].held]
    <3>1. job' = [job EXCEPT ![j] = r]
      BY <1>5, <2>1, <2>3 DEF VisitRow, IInv, Types, JobType
    <3>2. r.pc = job[j].pc /\ r.pos = job[j].pos /\ r.todo = job[j].todo \ {c}
      BY DEF IInv, Types, JobType
    <3> HIDE DEF r
    <3>3. Later(job[j], r)
      BY <2>1, <3>2 DEF Later
    <3> QED
      BY <3>1, <3>3, AdvanceStep
  <2> QED
    BY <1>5, <2>1, <2>2, <2>3, AdvanceEnds DEF VisitRow
<1>6. CASE AbortDeadlock(j) \/ Fail(j)
  <2>1. Running(j) /\ Ends(j, "failed")
    BY <1>6 DEF AbortDeadlock, Fail, Deadlocked, Blocked, AllReleased, Released, Running
  <2> QED
    BY <2>1, AdvanceEnds
<1> QED
  BY <1>1, <1>2, <1>3, <1>4, <1>5, <1>6 DEF JobStep

\* Every step of a job brings it closer to its end: to a later chunk of its list, a later
\* statement, or a row less to visit of those that were there.  With NoHiddenDeadlock this is
\* what EveryJobEnds rests on.
THEOREM NoStepBack == Spec => [][JobsAdvance]_vars
<1>1. Init => AllReleased
  BY DEF Init, NewJob, AllReleased, Released
<1>2. IInv /\ AllReleased /\ [Next]_vars => [JobsAdvance]_vars
  BY NextAdvances
<1> QED
  BY <1>1, <1>2, ReleasedNext, AlwaysIInv, PTL DEF Spec

-----------------------------------------------------------------------------
(* The tables as the other components see them *)

\* A job whose record is r writes rows of its kind only: an addition the one product it
\* adds, every other job products that are in the table.
WritesItsRows(j, r) ==
    IF j \in Additions THEN r.todo \cup r.held \subseteq {CodesOf[j][1]}
                       ELSE r.todo \cup r.held \subseteq Present

RowsAreTheirs == \A j \in Jobs : WritesItsRows(j, job[j])

\* The only steps that write the table are commits.
LEMMA TableStep ==
    ASSUME IInv, [Next]_vars
    PROVE  \/ UNCHANGED product
           \/ \E a \in Additions :
                 /\ product' = [c \in Codes |-> IF Holds(a, c) THEN "open" ELSE product[c]]
                 /\ Ends(a, "done")
           \/ \E j \in Aggregators : product' = Aggregated(j)
<1>1. ASSUME NEW j \in Jobs, AbortDeadlock(j) \/ Fail(j) \/ \E c \in Codes : VisitRow(j, c)
      PROVE  UNCHANGED product
  BY <1>1 DEF AbortDeadlock, Fail, VisitRow
<1>2. ASSUME NEW a \in Additions, AdditionStep(a)
      PROVE  \/ UNCHANGED product
             \/ /\ product' = [c \in Codes |-> IF Holds(a, c) THEN "open" ELSE product[c]]
                /\ Ends(a, "done")
  BY <1>2 DEF AdditionStep, CreateProduct, CommitAddition
<1>3. ASSUME NEW j \in Aggregators,
             \/ j \in Scans /\ ScanStep(j)
             \/ j \in Requests /\ RequestStep(j)
             \/ j \in Tasks /\ TaskStep(j)
      PROVE  UNCHANGED product \/ product' = Aggregated(j)
  BY <1>3 DEF ScanStep, AggregateProduct, CommitProduct, LoseProduct, RequestStep, CountProducts,
     AggregateBatch, CommitBatch, TaskStep, SelectChunk, CommitChunk
<1> QED
  BY <1>1, <1>2, <1>3 DEF Next, JobStep, Aggregators, vars

LEMMA PresentStays == ASSUME IInv, [Next]_vars PROVE Present \subseteq Present'
<1> SUFFICES ASSUME NEW c \in Codes, product[c] # "absent" PROVE product'[c] # "absent"
  BY DEF Present
<1> QED
  BY TableStep DEF Aggregated

LEMMA RowsInit == Init => RowsAreTheirs
  BY DEF Init, NewJob, RowsAreTheirs, WritesItsRows

\* A step of j that leaves it with the record r.
LEMMA RowsStep ==
    ASSUME IInv, RowsAreTheirs, [Next]_vars, NEW j \in Jobs, NEW r,
           job' = [job EXCEPT ![j] = r], WritesItsRows(j, r)
    PROVE  RowsAreTheirs'
<1>1. \A k \in Jobs : job'[k] = IF k = j THEN r ELSE job[k]
  BY DEF IInv, Types
<1> QED
  BY <1>1, PresentStays DEF RowsAreTheirs, WritesItsRows

LEMMA RowsEnd ==
    ASSUME IInv, RowsAreTheirs, [Next]_vars, NEW j \in Jobs, NEW how, Ends(j, how)
    PROVE  RowsAreTheirs'
<1> DEFINE r == [job[j] EXCEPT !.pc = how, !.todo = {}, !.held = {}]
<1>1. job' = [job EXCEPT ![j] = r] /\ r.todo = {} /\ r.held = {}
  BY DEF Ends, IInv, Types, JobType
<1> HIDE DEF r
<1> QED
  BY <1>1, RowsStep DEF WritesItsRows

LEMMA RowsUpdate ==
    ASSUME IInv, RowsAreTheirs, [Next]_vars, NEW j \in Jobs, NEW found, NEW rows,
           Updates(j, found, rows),
           rows \subseteq IF j \in Additions THEN {CodesOf[j][1]} ELSE Present
    PROVE  RowsAreTheirs'
<1> DEFINE r == [job[j] EXCEPT !.pc = "write", !.found = found, !.todo = rows]
<1>1. job' = [job EXCEPT ![j] = r] /\ r.todo = rows /\ r.held = job[j].held
  BY DEF Updates, IInv, Types, JobType
<1>2. WritesItsRows(j, r)
  BY <1>1 DEF RowsAreTheirs, WritesItsRows
<1> HIDE DEF r
<1> QED
  BY <1>1, <1>2, RowsStep

LEMMA RowsNext == IInv /\ RowsAreTheirs /\ [Next]_vars => RowsAreTheirs'
<1> SUFFICES ASSUME IInv, RowsAreTheirs, [Next]_vars PROVE RowsAreTheirs'
  OBVIOUS
<1>1. CASE UNCHANGED vars
  BY <1>1 DEF vars, RowsAreTheirs, WritesItsRows, Present
<1>2. ASSUME NEW j \in Jobs, NEW how, Ends(j, how) PROVE RowsAreTheirs'
  BY <1>2, RowsEnd
<1>3. ASSUME NEW a \in Additions, AdditionStep(a) PROVE RowsAreTheirs'
  BY <1>2, <1>3, RowsUpdate DEF AdditionStep, CreateProduct, CommitAddition, Jobs
<1>4. ASSUME NEW s \in Scans, ScanStep(s) PROVE RowsAreTheirs'
  <2>1. CASE Updates(s, {CodesOf[s][1]}, {CodesOf[s][1]}) /\ product[CodesOf[s][1]] = "open"
    <3>1. CodesOf[s][1] \in Present /\ s \in Jobs /\ s \notin Additions
      BY <2>1, CodesAreGiven, KindsAssumption DEF Present, Jobs
    <3> QED
      BY <2>1, <3>1, RowsUpdate
  <2>2. s \in Jobs /\ product[CodesOf[s][1]] \in {"absent", "open", "aggregated"}
    BY CodesAreGiven DEF Jobs, IInv, Types
  <2>3. CASE AggregateProduct(s)
    <3>1. \/ Ends(s, "failed") \/ Ends(s, "done")
          \/ /\ Updates(s, {CodesOf[s][1]}, {CodesOf[s][1]})
             /\ product[CodesOf[s][1]] = "open"
      BY <2>2, <2>3 DEF AggregateProduct
    <3> QED
      BY <1>2, <2>1, <2>2, <3>1
  <2>4. CASE CommitProduct(s) \/ LoseProduct(s)
    BY <1>2, <2>2, <2>4 DEF CommitProduct, LoseProduct
  <2> QED
    BY <1>4, <2>3, <2>4 DEF ScanStep
<1>5. ASSUME NEW q \in Requests, RequestStep(q) PROVE RowsAreTheirs'
  <2>1. q \in Jobs /\ q \notin Additions
    BY KindsAssumption DEF Jobs
  <2>2. CASE job' = [job EXCEPT ![q].pc = "counted", ![q].found = Present]
    <3> DEFINE r == [job[q] EXCEPT !.pc = "counted", !.found = Present]
    <3>1. job' = [job EXCEPT ![q] = r] /\ r.todo = job[q].todo /\ r.held = job[q].held
      BY <2>1, <2>2 DEF IInv, Types, JobType
    <3> HIDE DEF r
    <3> QED
      BY <2>1, <3>1, RowsStep DEF RowsAreTheirs, WritesItsRows
  <2>3. CASE Updates(q, job[q].found, Open)
    <3>1. Open \subseteq Present
      BY DEF Open, Present
    <3> QED
      BY <2>1, <2>3, <3>1, RowsUpdate
  <2> QED
    BY <1>2, <1>5, <2>1, <2>2, <2>3 DEF RequestStep, CountProducts, AggregateBatch, CommitBatch
<1>6. ASSUME NEW t \in Tasks, TaskStep(t) PROVE RowsAreTheirs'
  <2>1. t \in Jobs /\ t \notin Additions
    BY KindsAssumption DEF Jobs
  <2>2. CASE SelectChunk(t)
    <3>1. (ToSet(Chunk(t)) \cap Present) \cap Open \subseteq Present
      OBVIOUS
    <3> QED
      BY <2>1, <2>2, <3>1, RowsUpdate DEF SelectChunk
  <2>3. CASE CommitChunk(t)
    <3> DEFINE r == [job[t] EXCEPT !.pc = IF MoreChunks(t) THEN "read" ELSE "done",
                                   !.pos = job[t].pos + ChunkSize, !.held = {}]
    <3>1. job' = [job EXCEPT ![t] = r] /\ r.todo = {} /\ r.held = {}
      BY <2>1, <2>3 DEF CommitChunk, Written, IInv, Types, JobType
    <3> HIDE DEF r
    <3> QED
      BY <2>1, <3>1, RowsStep DEF WritesItsRows
  <2> QED
    BY <1>6, <2>2, <2>3 DEF TaskStep
<1>7. ASSUME NEW j \in Jobs, NEW c \in Codes, VisitRow(j, c) PROVE RowsAreTheirs'
  <2>1. c \in job[j].todo /\ WritesItsRows(j, job[j])
    BY <1>7 DEF VisitRow, RowsAreTheirs
  <2>2. CASE j \in Additions /\ ~CodeTaken(c)
    <3> DEFINE r == [job[j] EXCEPT !.todo = {}, !.held = {c}]
    <3>1. job' = [job EXCEPT ![j] = r] /\ r.todo = {} /\ r.held = {c}
      BY <1>7, <2>2 DEF VisitRow, CodeTaken, IInv, Types, JobType
    <3> HIDE DEF r
    <3> QED
      BY <2>1, <2>2, <3>1, RowsStep DEF WritesItsRows
  <2>3. CASE j \notin Additions
    <3> DEFINE r == [job[j] EXCEPT !.todo = job[j].todo \ {c},
                                   !.held = IF StillMatches(j, c) THEN job[j].held \cup {c}
                                                                  ELSE job[j].held]
    <3>1. /\ job' = [job EXCEPT ![j] = r] /\ r.todo \subseteq job[j].todo
          /\ r.held \subseteq job[j].held \cup {c}
      BY <1>7, <2>3 DEF VisitRow, IInv, Types, JobType
    <3> HIDE DEF r
    <3> QED
      BY <2>1, <2>3, <3>1, RowsStep DEF WritesItsRows
  <2> QED
    BY <1>2, <1>7, <2>2, <2>3 DEF VisitRow, CodeTaken
<1>8. ASSUME NEW j \in Jobs, AbortDeadlock(j) \/ Fail(j) PROVE RowsAreTheirs'
  BY <1>2, <1>8 DEF AbortDeadlock, Fail
<1> QED
  BY <1>1, <1>3, <1>4, <1>5, <1>6, <1>7, <1>8 DEF Next, JobStep

LEMMA StoreInitially == Init => Store!StoreInit
  BY DEF Init, Present, Store!StoreInit

\* A commit is an addition to Production, an aggregation, or changes nothing.
LEMMA StoreStep ==
    ASSUME IInv, RowsAreTheirs, [Next]_vars PROVE [Store!StoreNext]_(Store!store)
<1> DEFINE done == {c \in Codes : product[c] = "aggregated"}
<1>1. CASE UNCHANGED product
  BY <1>1 DEF Store!store, Present
<1>2. ASSUME NEW a \in Additions,
             product' = [c \in Codes |-> IF Holds(a, c) THEN "open" ELSE product[c]]
      PROVE  [Store!StoreNext]_(Store!store)
  <2>1. /\ \A c \in Codes : Holds(a, c) => c = CodesOf[a][1] /\ product[c] = "absent"
        /\ CodesOf[a][1] \in Codes
    BY CodesAreGiven DEF RowsAreTheirs, WritesItsRows, Holds, Jobs, IInv, HeldUnchanged
  <2>2. CASE Holds(a, CodesOf[a][1])
    <3>1. /\ Present' = Present \cup {CodesOf[a][1]} /\ CodesOf[a][1] \notin Present
          /\ {c \in Codes : product'[c] = "aggregated"} = done
      BY <1>2, <2>1, <2>2 DEF Present
    <3>2. Store!CreateProduct(CodesOf[a][1])
      BY <2>1, <3>1 DEF Store!CreateProduct, Store!BatchExists
    <3> QED
      BY <2>1, <3>2 DEF Store!StoreNext
  <2>3. CASE ~Holds(a, CodesOf[a][1])
    <3>1. \A c \in Codes : product'[c] = product[c]
      BY <1>2, <2>1, <2>3
    <3> QED
      BY <3>1 DEF Store!store, Present
  <2> QED
    BY <2>2, <2>3
<1>3. ASSUME NEW j \in Aggregators, product' = Aggregated(j)
      PROVE  [Store!StoreNext]_(Store!store)
  <2> DEFINE S == {c \in Codes : Holds(j, c)} \ done
  <2>1. S \subseteq Present \ done /\ \A c \in Codes : Holds(j, c) => product[c] # "absent"
    BY KindsAssumption DEF Aggregators, RowsAreTheirs, WritesItsRows, Holds, Jobs, Present
  <2>2. Present' = Present /\ {c \in Codes : product'[c] = "aggregated"} = done \cup S
    BY <1>3, <2>1 DEF Aggregated, Present
  <2>3. CASE S = {}
    BY <2>2, <2>3 DEF Store!store
  <2>4. CASE S # {}
    <3>1. PICK T \in SUBSET Codes : T = S
      OBVIOUS
    <3>2. Store!AggregateProducts(T)
      BY <2>1, <2>2, <2>4, <3>1 DEF Store!AggregateProducts
    <3> QED
      BY <3>2 DEF Store!StoreNext
  <2> QED
    BY <2>3, <2>4
<1> QED
  BY <1>1, <1>2, <1>3, TableStep

\* The transactions on products implement Production, on which the dashboard and the list
\* of batches rest: however they overlap, fail and deadlock, what is committed is products
\* added one by one and products in the table aggregated, and nothing else.
THEOREM ProductsImplementProduction == Spec => ImplementsProduction
<1>1. IInv /\ RowsAreTheirs /\ [Next]_vars => [Store!StoreNext]_(Store!store)
  BY StoreStep
<1> QED
  BY <1>1, StoreInitially, RowsInit, RowsNext, AlwaysIInv, PTL
  DEF Spec, ImplementsProduction, Store!StoreSpec

-----------------------------------------------------------------------------
(* The limit of a request *)

\* A request counts no more than Limit products, and until it commits every product in the
\* table was counted or added since; it reports what it has written only when it is done.
WithinLimit(q) ==
    /\ IsFiniteSet(job[q].found) /\ Cardinality(job[q].found) <= Limit
    /\ job[q].pc \in {"counted", "write"} => Present \subseteq job[q].found \cup Added
    /\ Running(q) => report[q].aggregated = 0

LimitIInv == (\A q \in Requests : WithinLimit(q)) /\ OnlyAdditionsExceedLimit

LEMMA GivenCodesFinite ==
    ASSUME NEW S \in SUBSET Additions PROVE IsFiniteSet({CodesOf[a][1] : a \in S})
<1> DEFINE F == [a \in S |-> CodesOf[a][1]]
<1>1. IsFiniteSet(S)
  BY KindsAssumption, FS_Subset DEF Jobs
<1>2. F \in Surjection(S, {CodesOf[a][1] : a \in S})
  BY Fun_IsSurj
<1> QED
  BY <1>1, <1>2, FS_Surjection

LEMMA AddedIsFinite == IsFiniteSet(Added) /\ IsFiniteSet(Added')
  BY GivenCodesFinite DEF Added

\* A step of one job changes the records of no other.
LEMMA OnlyItsRecord ==
    ASSUME IInv, CountIInv, NEW j \in Jobs, JobStep(j) \/ Fail(j), NEW k \in Jobs, k # j
    PROVE  job'[k] = job[k] /\ report'[k] = report[k]
<1>1. job \in [Jobs -> JobType] /\ report \in [Jobs -> Counts]
  BY DEF IInv, Types, CountIInv
<1>2. ASSUME NEW how, Ends(j, how) PROVE job'[k] = job[k]
  BY <1>1, <1>2 DEF Ends
<1>3. ASSUME NEW rows, NEW found, Updates(j, found, rows) PROVE job'[k] = job[k]
  BY <1>1, <1>3 DEF Updates
<1>4. CASE AdditionStep(j)
  BY <1>2, <1>3, <1>4 DEF AdditionStep, CreateProduct, CommitAddition
<1>5. CASE j \in Scans /\ ScanStep(j)
  <2>1. product[CodesOf[j][1]] \in {"absent", "open", "aggregated"}
    BY <1>5, CodesAreGiven DEF IInv, Types
  <2> QED
    BY <1>2, <1>3, <1>5, <2>1 DEF ScanStep, AggregateProduct, CommitProduct, LoseProduct
<1>6. CASE CountProducts(j)
  BY <1>1, <1>2, <1>6 DEF CountProducts
<1>7. CASE AggregateBatch(j) \/ CommitBatch(j)
  BY <1>1, <1>2, <1>3, <1>7 DEF AggregateBatch, CommitBatch
<1>8. CASE TaskStep(j)
  BY <1>1, <1>3, <1>8 DEF TaskStep, SelectChunk, CommitChunk
<1>9. ASSUME NEW c \in Codes, VisitRow(j, c) PROVE job'[k] = job[k] /\ report'[k] = report[k]
  BY <1>1, <1>2, <1>9 DEF VisitRow
<1>10. CASE AbortDeadlock(j) \/ Fail(j)
  BY <1>2, <1>10 DEF AbortDeadlock, Fail
<1> QED
  BY <1>4, <1>5, <1>6, <1>7, <1>8, <1>9, <1>10 DEF JobStep, RequestStep

\* No job leaves the end it came to.
LEMMA DoneForEver ==
    ASSUME IInv, CountIInv, AllReleased, [Next]_vars, NEW a \in Additions, job[a].pc = "done"
    PROVE  job'[a].pc = "done"
<1>1. a \in Jobs /\ job[a].todo = {}
  BY DEF Jobs, AllReleased, Released
<1>2. CASE UNCHANGED vars
  BY <1>2 DEF vars
<1>3. ASSUME NEW j \in Jobs, JobStep(j) \/ Fail(j) PROVE job'[a].pc = "done"
  <2>1. j # a
    BY <1>1, <1>3, KindsAssumption
    DEF JobStep, AdditionStep, CreateProduct, CommitAddition, Written, VisitRow, AbortDeadlock,
        Deadlocked, Blocked, Fail, Running
  <2>2. job'[a] = job[a]
    BY <1>1, <1>3, <2>1, OnlyItsRecord
  <2> QED
    BY <2>2
<1> QED
  BY <1>2, <1>3 DEF Next

LEMMA AddedStays == ASSUME IInv, CountIInv, AllReleased, [Next]_vars PROVE Added \subseteq Added'
  BY DoneForEver DEF Added

\* What is new in the table was added by a job that is done.
LEMMA NewIsAdded ==
    ASSUME IInv, RowsAreTheirs, [Next]_vars PROVE Present' \subseteq Present \cup Added'
<1> SUFFICES ASSUME NEW c \in Codes, product[c] = "absent", product'[c] # "absent"
             PROVE  c \in Added'
  BY DEF Present
<1>1. ASSUME NEW j \in Aggregators, product' = Aggregated(j) PROVE FALSE
  BY <1>1, KindsAssumption
  DEF Aggregators, Aggregated, RowsAreTheirs, WritesItsRows, Holds, Jobs, Present
<1>2. PICK a \in Additions :
         /\ product' = [d \in Codes |-> IF Holds(a, d) THEN "open" ELSE product[d]]
         /\ Ends(a, "done")
  BY <1>1, TableStep
<1>3. c = CodesOf[a][1]
  BY <1>2 DEF RowsAreTheirs, WritesItsRows, Holds, Jobs
<1>4. job'[a].pc = "done"
  BY <1>2 DEF Ends, IInv, Types, JobType, Jobs
<1> QED
  BY <1>3, <1>4 DEF Added

\* A request counts, commits, or keeps what it has counted.
LEMMA RequestMoves ==
    ASSUME IInv, CountIInv, [Next]_vars, NEW q \in Requests
    PROVE  \/ /\ job'[q].found = job[q].found /\ report'[q] = report[q]
              /\ \/ job'[q].pc \in {job[q].pc, "failed"}
                 \/ job[q].pc = "counted" /\ job'[q].pc = "write"
           \/ /\ job[q].pc = "read" /\ job'[q].found = Present /\ ~TooMany
              /\ UNCHANGED product /\ report'[q] = report[q]
           \/ /\ job[q].pc = "write" /\ job'[q].pc = "done"
              /\ job'[q].found = job[q].found
              /\ report'[q].aggregated = Cardinality(job[q].held)
<1>1. /\ q \in Jobs /\ q \notin Additions /\ q \notin Scans /\ q \notin Tasks
      /\ job[q] \in JobType
  BY KindsAssumption DEF Jobs, IInv, Types
<1>2. CASE UNCHANGED vars
  BY <1>2 DEF vars
<1>3. ASSUME NEW j \in Jobs, JobStep(j) \/ Fail(j), j # q
      PROVE  job'[q] = job[q] /\ report'[q] = report[q]
  BY <1>1, <1>3, OnlyItsRecord
<1>4. ASSUME NEW how, Ends(q, how)
      PROVE  job'[q].pc = how /\ job'[q].found = job[q].found
  BY <1>1, <1>4 DEF Ends, IInv, Types, JobType
<1>5. CASE CountProducts(q)
  <2>1. CASE TooMany
    BY <1>4, <1>5, <2>1 DEF CountProducts
  <2>2. CASE ~TooMany
    <3>1. job'[q].found = Present
      BY <1>1, <1>5, <2>2 DEF CountProducts, IInv, Types, JobType
    <3> QED
      BY <1>5, <2>2, <3>1 DEF CountProducts
  <2> QED
    BY <2>1, <2>2
<1>6. CASE AggregateBatch(q)
  <2>1. job'[q].pc = "write" /\ job'[q].found = job[q].found
    BY <1>1, <1>6 DEF AggregateBatch, Updates, IInv, Types, JobType
  <2> QED
    BY <1>6, <2>1 DEF AggregateBatch
<1>7. CASE CommitBatch(q)
  <2>1. report'[q].aggregated = Cardinality(job[q].held)
    BY <1>1, <1>7 DEF CommitBatch, CountIInv, Counts
  <2> QED
    BY <1>4, <1>7, <2>1 DEF CommitBatch, Written
<1>8. ASSUME NEW c \in Codes, VisitRow(q, c)
      PROVE  /\ job'[q].found = job[q].found /\ report'[q] = report[q]
             /\ job'[q].pc = job[q].pc
  BY <1>1, <1>8 DEF VisitRow, IInv, Types, JobType
<1>9. CASE AbortDeadlock(q) \/ Fail(q)
  BY <1>4, <1>9 DEF AbortDeadlock, Fail
<1>10. CASE JobStep(q) \/ Fail(q)
  BY <1>1, <1>5, <1>6, <1>7, <1>8, <1>9, <1>10 DEF JobStep, RequestStep
<1> QED
  BY <1>2, <1>3, <1>10 DEF Next

LEMMA LimitInit == Init => LimitIInv
<1> SUFFICES ASSUME Init, NEW q \in Requests
             PROVE  WithinLimit(q) /\ report[q].aggregated <= Limit + Cardinality(Added \ job[q].found)
  BY DEF LimitIInv, OnlyAdditionsExceedLimit
<1>1. job[q] = NewJob /\ report[q] = NewReport
  BY DEF Init, Jobs
<1>2. Cardinality(Added \ job[q].found) \in Nat
  BY AddedIsFinite, FS_Subset, FS_CardinalityType
<1> QED
  BY <1>1, <1>2, FS_EmptySet, BoundsAssumption DEF WithinLimit, NewJob, NewReport

LEMMA LimitNext ==
    IInv /\ CountIInv /\ AllReleased /\ RowsAreTheirs /\ LimitIInv /\ [Next]_vars => LimitIInv'
<1> SUFFICES ASSUME IInv, CountIInv, AllReleased, RowsAreTheirs, LimitIInv, [Next]_vars,
                    NEW q \in Requests
             PROVE  /\ WithinLimit(q)'
                    /\ report'[q].aggregated <= Limit + Cardinality(Added' \ job'[q].found)
  BY DEF LimitIInv, OnlyAdditionsExceedLimit
<1> DEFINE found == job[q].found
           new == Added \ found
           new2 == Added' \ found
<1>1. /\ IsFiniteSet(found) /\ Cardinality(found) \in Nat /\ Cardinality(found) <= Limit
      /\ WithinLimit(q)
  BY FS_CardinalityType DEF LimitIInv, WithinLimit
<1>2. report[q].aggregated \in Nat /\ report[q].aggregated <= Limit + Cardinality(new)
  BY DEF CountIInv, Counts, Jobs, LimitIInv, OnlyAdditionsExceedLimit
<1>3. IsFiniteSet(Added) /\ IsFiniteSet(Added') /\ Added \subseteq Added'
  BY AddedIsFinite, AddedStays
<1>4. /\ IsFiniteSet(new2) /\ Cardinality(new2) \in Nat /\ Cardinality(new) \in Nat
      /\ Cardinality(new) <= Cardinality(new2)
  BY <1>3, FS_Subset, FS_CardinalityType
<1>5. Present' \subseteq Present \cup Added' /\ Limit \in Nat
  BY NewIsAdded, BoundsAssumption
<1>6. CASE /\ job'[q].found = found /\ report'[q] = report[q]
           /\ \/ job'[q].pc \in {job[q].pc, "failed"}
              \/ job[q].pc = "counted" /\ job'[q].pc = "write"
  <2>1. report'[q].aggregated <= Limit + Cardinality(new2)
    BY <1>2, <1>4, <1>5, <1>6
  <2>2. WithinLimit(q)'
    BY <1>1, <1>3, <1>5, <1>6 DEF WithinLimit, Running
  <2> QED
    BY <1>6, <2>1, <2>2
<1>7. CASE /\ job[q].pc = "read" /\ job'[q].found = Present /\ ~TooMany
           /\ UNCHANGED product /\ report'[q] = report[q]
  <2>1. IsFiniteSet(Present) /\ Cardinality(Present) \in Nat /\ Present' = Present
    BY <1>7, FS_CardinalityType DEF CountIInv, FiniteRows, Present
  <2>2. Cardinality(Present) <= Limit
    BY <1>5, <1>7, <2>1 DEF TooMany
  <2>3. report'[q].aggregated = 0
    BY <1>1, <1>7 DEF WithinLimit, Running
  <2>4. Cardinality(Added' \ Present) \in Nat
    BY <1>3, FS_Subset, FS_CardinalityType
  <2>5. WithinLimit(q)'
    BY <1>7, <2>1, <2>2, <2>3 DEF WithinLimit
  <2> QED
    BY <1>5, <1>7, <2>3, <2>4, <2>5
<1>8. CASE /\ job[q].pc = "write" /\ job'[q].pc = "done" /\ job'[q].found = found
           /\ report'[q].aggregated = Cardinality(job[q].held)
  <2>1. job[q].held \subseteq Present
    BY KindsAssumption DEF RowsAreTheirs, WritesItsRows, Jobs
  <2>2. job[q].held \subseteq found \cup new2
    BY <1>1, <1>3, <1>8, <2>1 DEF WithinLimit
  <2> HIDE DEF new2, found
  <2>3. /\ IsFiniteSet(found \cup new2)
        /\ Cardinality(found \cup new2)
             = Cardinality(found) + Cardinality(new2) - Cardinality(found \cap new2)
    BY <1>1, <1>4, FS_Union
  <2>4. Cardinality(found \cap new2) \in Nat /\ Cardinality(found \cup new2) \in Nat
    BY <1>1, <2>3, FS_Intersection, FS_CardinalityType
  <2>5. /\ Cardinality(job[q].held) \in Nat
        /\ Cardinality(job[q].held) <= Cardinality(found \cup new2)
    BY <2>2, <2>3, FS_Subset, FS_CardinalityType
  <2>6. report'[q].aggregated <= Limit + Cardinality(new2)
    BY <1>1, <1>4, <1>5, <1>8, <2>3, <2>4, <2>5
  <2>7. WithinLimit(q)'
    BY <1>1, <1>8 DEF WithinLimit, Running, found
  <2> QED
    BY <1>8, <2>6, <2>7 DEF new2
<1> QED
  <2>1. \/ /\ job'[q].found = found /\ report'[q] = report[q]
           /\ \/ job'[q].pc \in {job[q].pc, "failed"}
              \/ job[q].pc = "counted" /\ job'[q].pc = "write"
        \/ /\ job[q].pc = "read" /\ job'[q].found = Present /\ ~TooMany
           /\ UNCHANGED product /\ report'[q] = report[q]
        \/ /\ job[q].pc = "write" /\ job'[q].pc = "done" /\ job'[q].found = found
           /\ report'[q].aggregated = Cardinality(job[q].held)
    BY RequestMoves
  <2> QED
    BY <1>6, <1>7, <1>8, <2>1

\* A request for which the batch was small enough aggregates more than Limit products only by
\* those that were added after it counted: whatever scans, tasks and other requests do while
\* it waits for rows, each row it writes was counted or is new.
THEOREM LimitExceededByAdditions == Spec => []OnlyAdditionsExceedLimit
<1>1. Init => AllReleased
  BY DEF Init, NewJob, AllReleased, Released
<1>2. LimitIInv => OnlyAdditionsExceedLimit
  BY DEF LimitIInv
<1> QED
  BY <1>1, <1>2, LimitInit, LimitNext, RowsInit, RowsNext, ReleasedNext, AlwaysIInv,
     AlwaysCountIInv, PTL DEF Spec

=============================================================================
