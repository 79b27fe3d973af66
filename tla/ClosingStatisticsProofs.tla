----------------------- MODULE ClosingStatisticsProofs -----------------------
(***************************************************************************)
(* What concurrent PATCHes and auto-close tasks keep true of a batch, for  *)
(* any number of batches, requests and tasks: the theorems of              *)
(* BatchLifecycle come first.  With the products of the batches beside it, *)
(* BatchLifecycle is still BatchLifecycle, the event of a PATCH never      *)
(* reports less than an earlier one, and the tables change as Production   *)
(* has it.                                                                 *)
(*                                                                         *)
(* A request decides from the row it has loaded, and that row was          *)
(* consistent.  For the statistics the argument is the row lock: what was  *)
(* reported for a batch does not change between the UPDATE of a PATCH that *)
(* closes it and the commit, and the statistics are read in between, from  *)
(* products that only advance.                                             *)
(***************************************************************************)
EXTENDS ClosingStatistics, TLAPS

\* A request decides from a row that was consistent when it was loaded.
SnapshotsMatch ==
    \A r \in Requests :
        request[r] \in ActiveRequests /\ request[r].batch \notin bornClosed =>
            Consistent(request[r].loaded)

IInv == TypeOK /\ ClosedAtMatches /\ SnapshotsMatch

-----------------------------------------------------------------------------
(* The UPDATE of a PATCH *)

LEMMA ColumnValue ==
    ASSUME NEW old, NEW new
    PROVE  /\ new = {} => Column(old, new) = old
           /\ \A v : new = {v} => Column(old, new) = v
  BY DEF Column

LEMMA ColumnBoolean ==
    ASSUME NEW old
    PROVE  /\ Column(old, {}) = old
           /\ Column(old, {TRUE}) = TRUE
           /\ Column(old, {FALSE}) = FALSE
  BY ColumnValue

LEMMA OptionalCases ==
    ASSUME NEW S, NEW f \in Optional(S)
    PROVE  f = {} \/ \E v \in S : f = {v}
  BY DEF Optional

\* The UPDATE keeps the type of the row.
LEMMA UpdatedType ==
    ASSUME NEW row \in Rows, NEW q \in ActiveRequests
    PROVE  Updated(row, q) \in Rows
<1> DEFINE w == Write(q)
<1>1. q.loaded \in Rows /\ q.body.is_closed \in Optional(BOOLEAN)
      /\ q.body.shift_end \in Optional(Times)
  BY DEF ActiveRequests, Bodies
<1>2. w.is_closed = {} \/ \E v \in BOOLEAN : w.is_closed = {v}
  BY <1>1, OptionalCases DEF Write
<1>3. w.closed_at \in {{}, {TRUE}, {FALSE}}
  BY DEF Write
<1>4. w.shift_end = {} \/ \E v \in Times : w.shift_end = {v}
  BY <1>1, OptionalCases DEF Write
<1>5. Column(row.is_closed, w.is_closed) \in BOOLEAN
  BY <1>2, ColumnValue DEF Rows
<1>6. Column(row.closed_at, w.closed_at) \in BOOLEAN
  BY <1>3, ColumnValue DEF Rows
<1>7. Column(row.shift_end, w.shift_end) \in Times
  BY <1>4, ColumnValue DEF Rows
<1> QED
  BY <1>5, <1>6, <1>7 DEF Updated, Rows

\* Both columns are written or neither is, if the loaded row was consistent.
LEMMA UpdatedConsistent ==
    ASSUME NEW row \in Rows, NEW q \in ActiveRequests,
           Consistent(row), Consistent(q.loaded)
    PROVE  Consistent(Updated(row, q))
<1> DEFINE w == Write(q)
<1>0. q.loaded \in Rows /\ q.loaded.is_closed \in BOOLEAN /\ q.loaded.closed_at \in BOOLEAN
  BY DEF ActiveRequests, Rows
<1>1. q.body.is_closed \in {{}, {TRUE}, {FALSE}}
  BY DEF ActiveRequests, Bodies, Optional
<1>2. \/ w.is_closed = {TRUE} /\ w.closed_at = {TRUE}
      \/ w.is_closed = {FALSE} /\ w.closed_at = {FALSE}
      \/ w.is_closed = {} /\ w.closed_at = {}
  <2>1. CASE q.body.is_closed = {}
    BY <2>1 DEF Write, WillClose, WillOpen
  <2>2. CASE q.body.is_closed = {TRUE}
    BY <1>0, <2>2 DEF Write, WillClose, WillOpen
  <2>3. CASE q.body.is_closed = {FALSE}
    BY <1>0, <2>3 DEF Write, WillClose, WillOpen, Consistent
  <2> QED
    BY <1>1, <2>1, <2>2, <2>3
<1>3. /\ Updated(row, q).is_closed = Column(row.is_closed, w.is_closed)
      /\ Updated(row, q).closed_at = Column(row.closed_at, w.closed_at)
  BY DEF Updated
<1>4. CASE w.is_closed = {TRUE} /\ w.closed_at = {TRUE}
  BY <1>3, <1>4, ColumnBoolean DEF Consistent
<1>5. CASE w.is_closed = {FALSE} /\ w.closed_at = {FALSE}
  BY <1>3, <1>5, ColumnBoolean DEF Consistent
<1>6. CASE w.is_closed = {} /\ w.closed_at = {}
  BY <1>3, <1>6, ColumnBoolean DEF Consistent
<1> QED
  BY <1>2, <1>4, <1>5, <1>6

\* An UPDATE that closes an open row belongs to a request that publishes batch_closed.
LEMMA ClosingIsDecided ==
    ASSUME NEW row \in Rows, NEW q \in ActiveRequests,
           ~row.is_closed, Updated(row, q).is_closed
    PROVE  WillClose(q)
<1>1. q.body.is_closed \in {{}, {TRUE}, {FALSE}} /\ q.loaded.is_closed \in BOOLEAN
  BY DEF ActiveRequests, Bodies, Optional, Rows
<1>2. Updated(row, q).is_closed = Column(row.is_closed, q.body.is_closed \ {q.loaded.is_closed})
  BY DEF Updated, Write
<1>3. CASE q.body.is_closed \ {q.loaded.is_closed} = {}
  BY <1>2, <1>3, ColumnBoolean
<1>4. CASE q.body.is_closed \ {q.loaded.is_closed} = {FALSE}
  BY <1>2, <1>4, ColumnBoolean
<1>5. CASE q.body.is_closed \ {q.loaded.is_closed} = {TRUE}
  BY <1>1, <1>5 DEF WillClose
<1> QED
  BY <1>1, <1>3, <1>4, <1>5

-----------------------------------------------------------------------------
(* The invariant *)

LEMMA ActiveRequest ==
    ASSUME TypeOK, NEW r \in Requests, request[r].pc \in {"loaded", "flushed"}
    PROVE  request[r] \in ActiveRequests
  BY DEF TypeOK, NewRequest, Finished

LEMMA ActiveTask ==
    ASSUME TypeOK, NEW t \in Tasks, task[t].pc \in {"selected", "flushed"}
    PROVE  task[t] \in ActiveTasks
  BY DEF TypeOK, IdleTask

LEMMA InitInv == Init => IInv
<1> SUFFICES ASSUME Init PROVE IInv
  OBVIOUS
<1>1. batch \in [Batches -> Rows] /\ \A b \in Batches : ~batch[b].closed_at
  BY DEF Init
<1>2. TypeOK
  BY <1>1, BoundsAssumption DEF Init, TypeOK, Times
<1>3. ClosedAtMatches
  BY <1>1 DEF Init, ClosedAtMatches, Consistent
<1>4. SnapshotsMatch
  BY DEF Init, SnapshotsMatch, NewRequest, ActiveRequests
<1> QED
  BY <1>2, <1>3, <1>4 DEF IInv

LEMMA NextInv == IInv /\ [Next]_vars => IInv'
<1> SUFFICES ASSUME IInv, [Next]_vars PROVE IInv'
  OBVIOUS
<1>0. TypeOK /\ ClosedAtMatches /\ SnapshotsMatch
  BY DEF IInv
<1>1. CASE Tick
  BY <1>0, <1>1, BoundsAssumption DEF Tick, IInv, TypeOK, ClosedAtMatches, SnapshotsMatch, Times
<1>2. ASSUME NEW r \in Requests, LoadBatch(r) PROVE IInv'
  <2>1. PICK b \in Batches, body \in Bodies :
          request' = [request EXCEPT ![r] =
             [pc |-> "loaded", batch |-> b, body |-> body, loaded |-> batch[b]]]
    BY <1>2 DEF LoadBatch
  <2>2. [pc |-> "loaded", batch |-> b, body |-> body, loaded |-> batch[b]] \in ActiveRequests
    BY <1>0 DEF TypeOK, ActiveRequests
  <2>3. TypeOK'
    BY <1>0, <1>2, <2>1, <2>2 DEF LoadBatch, TypeOK
  <2>4. ClosedAtMatches' /\ SnapshotsMatch'
    BY <1>0, <1>2, <2>1 DEF LoadBatch, TypeOK, ClosedAtMatches, SnapshotsMatch
  <2> QED
    BY <2>3, <2>4 DEF IInv
<1>3. ASSUME NEW r \in Requests, FlushUpdate(r) PROVE IInv'
  <2>1. request[r] \in ActiveRequests
    BY <1>0, <1>3, ActiveRequest DEF FlushUpdate
  <2>2. /\ [request[r] EXCEPT !.pc = "flushed"] \in ActiveRequests
        /\ [request[r] EXCEPT !.pc = "flushed"].batch = request[r].batch
        /\ [request[r] EXCEPT !.pc = "flushed"].loaded = request[r].loaded
    BY <2>1 DEF ActiveRequests
  <2>3. TypeOK'
    BY <1>0, <1>3, <2>2 DEF FlushUpdate, TypeOK
  <2>4. ClosedAtMatches' /\ SnapshotsMatch'
    BY <1>0, <1>3, <2>1, <2>2 DEF FlushUpdate, TypeOK, ClosedAtMatches, SnapshotsMatch
  <2> QED
    BY <2>3, <2>4 DEF IInv
<1>4. ASSUME NEW r \in Requests, CommitRequest(r) PROVE IInv'
  <2> DEFINE q == request[r]
             b == q.batch
             row == Updated(batch[b], q)
  <2>1. q \in ActiveRequests /\ b \in Batches /\ batch[b] \in Rows
    <3>1. q \in ActiveRequests
      BY <1>0, <1>4, ActiveRequest DEF CommitRequest
    <3> QED
      BY <1>0, <3>1 DEF ActiveRequests, TypeOK
  <2>2. row \in Rows
    BY <2>1, UpdatedType
  <2>3. b \notin bornClosed => Consistent(row)
    BY <1>0, <2>1, UpdatedConsistent DEF ClosedAtMatches, SnapshotsMatch
  <2>4. /\ batch' = [batch EXCEPT ![b] = row]
        /\ announced' \in [Batches -> Nat]
        /\ request' = [request EXCEPT ![r] = Finished]
        /\ UNCHANGED <<now, task, bornClosed, failures>>
    BY <1>0, <1>4, <2>1 DEF CommitRequest, TypeOK
  <2> HIDE DEF row
  <2>5. TypeOK'
    BY <1>0, <2>1, <2>2, <2>4 DEF TypeOK
  <2>6. ClosedAtMatches' /\ SnapshotsMatch'
    BY <1>0, <2>1, <2>3, <2>4 DEF TypeOK, ClosedAtMatches, SnapshotsMatch, Finished,
       ActiveRequests
  <2> QED
    BY <2>5, <2>6 DEF IInv
<1>5. ASSUME NEW r \in Requests, FailRequest(r) PROVE IInv'
  BY <1>0, <1>5, BoundsAssumption DEF FailRequest, IInv, TypeOK, ClosedAtMatches,
     SnapshotsMatch, Finished, ActiveRequests
<1>6. ASSUME NEW t \in Tasks, SelectExpired(t) PROVE IInv'
  BY <1>0, <1>6 DEF SelectExpired, IInv, TypeOK, ActiveTasks, ClosedAtMatches,
     SnapshotsMatch
<1>7. ASSUME NEW t \in Tasks, CloseSelected(t) PROVE IInv'
  <2>1. [task[t] EXCEPT !.pc = "flushed"] \in ActiveTasks
    BY <1>0, <1>7, ActiveTask DEF CloseSelected, ActiveTasks
  <2> QED
    BY <1>0, <1>7, <2>1 DEF CloseSelected, IInv, TypeOK, ClosedAtMatches, SnapshotsMatch
<1>8. ASSUME NEW t \in Tasks, CommitClosing(t) PROVE IInv'
  <2>1. \A b \in Batches :
          LET row == [batch[b] EXCEPT !.is_closed = TRUE, !.closed_at = TRUE]
          IN  row \in Rows /\ Consistent(row)
    BY <1>0 DEF TypeOK, Rows, Consistent
  <2>2. TypeOK'
    <3>1. batch' \in [Batches -> Rows]
      BY <1>0, <1>8, <2>1 DEF CommitClosing, TypeOK
    <3>2. announced \in [Batches -> Nat]
      BY <1>0 DEF TypeOK
    <3>3. announced' = [b \in Batches |->
            IF b \in task[t].ids THEN announced[b] + 1 ELSE announced[b]]
      BY <1>8 DEF CommitClosing
    <3>5. announced' \in [Batches -> Nat]
      BY <3>2, <3>3
    <3> QED
      BY <1>0, <1>8, <3>1, <3>5 DEF CommitClosing, TypeOK
  <2>3. ClosedAtMatches' /\ SnapshotsMatch'
    BY <1>0, <1>8, <2>1 DEF CommitClosing, ClosedAtMatches, SnapshotsMatch
  <2> QED
    BY <2>2, <2>3 DEF IInv
<1>9. ASSUME NEW t \in Tasks, FailClosing(t) PROVE IInv'
  BY <1>0, <1>9, BoundsAssumption DEF FailClosing, IInv, TypeOK, ClosedAtMatches, SnapshotsMatch
<1>10. CASE UNCHANGED vars
  BY <1>0, <1>10 DEF vars, IInv, TypeOK, ClosedAtMatches, SnapshotsMatch
<1> QED
  BY <1>1, <1>2, <1>3, <1>4, <1>5, <1>6, <1>7, <1>8, <1>9, <1>10
     DEF Next, RequestStep, TaskStep

LEMMA Invariance == Spec => []IInv
  BY InitInv, NextInv, PTL DEF Spec

-----------------------------------------------------------------------------
(* The theorems *)

\* is_closed and closed_at stay in step for every batch that was created open.
THEOREM ClosedAtInStep == Spec => []ClosedAtMatches
<1>1. IInv => ClosedAtMatches
  BY DEF IInv
<1> QED
  BY <1>1, Invariance, PTL

\* No committed open -> closed transition goes without its batch_closed event.
THEOREM ClosingsAnnounced == Spec => EveryClosingIsAnnounced
<1> DEFINE A == \A b \in Batches :
                  ~batch[b].is_closed /\ batch'[b].is_closed =>
                      announced'[b] = announced[b] + 1
<1>1. IInv /\ [Next]_vars => [A]_vars
  <2> SUFFICES ASSUME IInv, Next PROVE A
    OBVIOUS
  <2>0. TypeOK
    BY DEF IInv
  <2>1. ASSUME NEW r \in Requests, CommitRequest(r) PROVE A
    <3> DEFINE q == request[r]
               c == q.batch
    <3>1. q \in ActiveRequests /\ c \in Batches /\ batch[c] \in Rows
      <4>1. q \in ActiveRequests
        BY <2>0, <2>1, ActiveRequest DEF CommitRequest
      <4> QED
        BY <2>0, <4>1 DEF ActiveRequests, TypeOK
    <3>2. ASSUME ~batch[c].is_closed, batch'[c].is_closed
          PROVE  announced'[c] = announced[c] + 1
      <4>1. batch'[c] = Updated(batch[c], q)
        BY <2>0, <2>1, <3>1 DEF CommitRequest, TypeOK
      <4>2. WillClose(q)
        BY <3>1, <3>2, <4>1, ClosingIsDecided
      <4> QED
        BY <2>0, <2>1, <3>1, <4>2 DEF CommitRequest, TypeOK
    <3>3. \A b \in Batches : b # c => batch'[b] = batch[b]
      BY <2>0, <2>1 DEF CommitRequest, TypeOK
    <3> QED
      BY <3>2, <3>3
  <2>2. ASSUME NEW t \in Tasks, CommitClosing(t) PROVE A
    BY <2>0, <2>2 DEF CommitClosing, TypeOK
  <2>3. CASE UNCHANGED batch
    BY <2>3
  <2>4. \/ UNCHANGED batch
        \/ \E r \in Requests : CommitRequest(r)
        \/ \E t \in Tasks : CommitClosing(t)
    BY DEF Next, Tick, LoadBatch, RequestStep, FlushUpdate, FailRequest, TaskStep,
       SelectExpired, CloseSelected, FailClosing
  <2> QED
    BY <2>1, <2>2, <2>3, <2>4
<1> QED
  BY <1>1, Invariance, PTL DEF Spec, EveryClosingIsAnnounced

\* Rows, requests, tasks and the bounded counter keep their type.
THEOREM LifecycleTypeCorrect == Spec => []TypeOK
<1>1. IInv => TypeOK
  BY DEF IInv
<1> QED
  BY <1>1, Invariance, PTL

\* A PATCH leaves alone the columns its body does not name, whatever was committed since
\* it loaded the row.
THEOREM NothingStaleWritten == Spec => NoStaleOverwrite
<1> DEFINE A == \A r \in Requests :
                  CommitRequest(r) =>
                      LET b == request[r].batch IN
                      /\ request[r].body.shift_end = {} =>
                           batch'[b].shift_end = batch[b].shift_end
                      /\ request[r].body.is_closed = {} =>
                           /\ batch'[b].is_closed = batch[b].is_closed
                           /\ batch'[b].closed_at = batch[b].closed_at
<1>1. IInv /\ [Next]_vars => [A]_vars
  <2> SUFFICES ASSUME IInv, NEW r \in Requests, CommitRequest(r)
               PROVE  LET b == request[r].batch IN
                      /\ request[r].body.shift_end = {} =>
                           batch'[b].shift_end = batch[b].shift_end
                      /\ request[r].body.is_closed = {} =>
                           /\ batch'[b].is_closed = batch[b].is_closed
                           /\ batch'[b].closed_at = batch[b].closed_at
    OBVIOUS
  <2> DEFINE q == request[r]
             b == q.batch
  <2>1. q \in ActiveRequests /\ b \in Batches /\ batch[b] \in Rows
    <3>1. q \in ActiveRequests
      BY ActiveRequest DEF CommitRequest, IInv
    <3> QED
      BY <3>1 DEF ActiveRequests, IInv, TypeOK
  <2>2. batch'[b] = Updated(batch[b], q)
    BY <2>1 DEF CommitRequest, IInv, TypeOK
  <2>3. /\ batch'[b].is_closed = Column(batch[b].is_closed, Write(q).is_closed)
        /\ batch'[b].closed_at = Column(batch[b].closed_at, Write(q).closed_at)
        /\ batch'[b].shift_end = Column(batch[b].shift_end, Write(q).shift_end)
    BY <2>2 DEF Updated
  <2>4. ASSUME q.body.shift_end = {} PROVE Write(q).shift_end = {}
    BY <2>4 DEF Write
  <2>5. ASSUME q.body.is_closed = {} PROVE Write(q).is_closed = {} /\ Write(q).closed_at = {}
    BY <2>5 DEF Write, WillClose, WillOpen
  <2> QED
    BY <2>3, <2>4, <2>5, ColumnValue
<1> QED
  BY <1>1, Invariance, PTL DEF Spec, NoStaleOverwrite

-----------------------------------------------------------------------------
(* Refinement of BatchLifecycle *)

LEMMA ClosingStepIsPlain == [ClosingNext]_closingVars => [Next]_vars
<1> SUFFICES ASSUME [ClosingNext]_closingVars PROVE [Next]_vars
  OBVIOUS
<1>1. ASSUME NEW r \in Requests,
             LoadBatch(r) \/ ClosingRequestStep(r) \/ FailWithStatistics(r)
      PROVE  [Next]_vars
  BY <1>1 DEF ClosingRequestStep, ReadStatistics, CommitWithStatistics, FailWithStatistics,
     Next, RequestStep, vars
<1>2. ASSUME NEW t \in Tasks, ClosingTaskStep(t) \/ FailClosingWithStatistics(t)
      PROVE  [Next]_vars
  BY <1>2 DEF ClosingTaskStep, ReadSelected, CloseCounted, CommitClosingWithStatistics,
     FailClosingWithStatistics, Next, TaskStep, vars
<1>3. ASSUME NEW p \in Products, AdvanceProduct(p) PROVE [Next]_vars
  BY <1>3 DEF AdvanceProduct, vars
<1>4. CASE Tick
  BY <1>4 DEF Next
<1>5. CASE UNCHANGED closingVars
  BY <1>5 DEF closingVars, vars
<1> QED
  BY <1>1, <1>2, <1>3, <1>4, <1>5 DEF ClosingNext

\* Publishing statistics does not get in the way of opening and closing: the composition
\* implements BatchLifecycle, and so keeps its promises.
THEOREM ClosingImplementsLifecycle == ClosingSpec => Spec
<1>1. ClosingInit => Init
  BY DEF ClosingInit
<1> QED
  BY <1>1, ClosingStepIsPlain, PTL DEF ClosingSpec, Spec

-----------------------------------------------------------------------------
(* The invariant *)

StatisticsType ==
    /\ stage \in Stages /\ reported \in Stages
    /\ counted \in [Requests \cup Tasks -> {{}} \cup {{s} : s \in Stages}]

\* The transactions of x and y do not update the same row at once.
LockIsExclusive ==
    /\ \A r, q \in Requests :
         /\ request[r].pc = "flushed" /\ ~WritesNothing(request[r])
         /\ request[q].pc = "flushed" /\ ~WritesNothing(request[q])
         /\ request[r].batch = request[q].batch
         => r = q
    /\ \A r \in Requests, t \in Tasks :
         ~ /\ request[r].pc = "flushed" /\ ~WritesNothing(request[r])
           /\ task[t].pc = "flushed" /\ request[r].batch \in task[t].ids

\* Statistics and reports are of a moment that has been.
NothingAhead ==
    \A p \in Products :
        /\ reported[p] <= stage[p]
        /\ \A x \in Requests \cup Tasks : \A s \in counted[x] : s[p] <= stage[p]

\* A request has statistics only while it holds the row lock, and they cover all reports.
CountedCovers ==
    \A r \in Requests : \A s \in counted[r] :
        /\ request[r].pc = "flushed" /\ WillClose(request[r])
        /\ \A p \in Products : BatchOf[p] = request[r].batch => reported[p] <= s[p]

ClosingIInv == IInv /\ StatisticsType /\ LockIsExclusive /\ NothingAhead /\ CountedCovers

LEMMA ClosingInitInv == ClosingInit => ClosingIInv
<1> SUFFICES ASSUME ClosingInit PROVE ClosingIInv
  OBVIOUS
<1>1. IInv
  BY InitInv DEF ClosingInit
<1>2. StatisticsType
  BY DEF ClosingInit, StatisticsType, NotCounted, Stages
<1>3. LockIsExclusive
  BY DEF ClosingInit, Init, LockIsExclusive, NewRequest
<1>4. NothingAhead /\ CountedCovers
  BY DEF ClosingInit, NothingAhead, CountedCovers, NotCounted, Stages
<1> QED
  BY <1>1, <1>2, <1>3, <1>4 DEF ClosingIInv

LEMMA ClosingWrites == \A q : WillClose(q) => ~WritesNothing(q)
  BY DEF WritesNothing, Write

\* What an UPDATE writes does not depend on whether it was made.
LEMMA SameWrite ==
    ASSUME NEW q \in ActiveRequests
    PROVE  LET f == [q EXCEPT !.pc = "flushed"] IN
           /\ f.pc = "flushed" /\ f.batch = q.batch
           /\ WritesNothing(f) <=> WritesNothing(q)
           /\ WillClose(f) <=> WillClose(q)
<1> DEFINE f == [q EXCEPT !.pc = "flushed"]
<1>1. f.pc = "flushed" /\ f.batch = q.batch /\ f.body = q.body /\ f.loaded = q.loaded
  BY DEF ActiveRequests
<1> HIDE DEF f
<1>2. WillClose(f) <=> WillClose(q)
  BY <1>1 DEF WillClose
<1>3. WillOpen(f) <=> WillOpen(q)
  BY <1>1 DEF WillOpen
<1>4. Write(f) = Write(q)
  BY <1>1, <1>2, <1>3 DEF Write
<1> QED
  BY <1>1, <1>2, <1>4 DEF WritesNothing, f

LEMMA NextLock == TypeOK /\ LockIsExclusive /\ [Next]_vars => LockIsExclusive'
<1> SUFFICES ASSUME TypeOK, LockIsExclusive, [Next]_vars PROVE LockIsExclusive'
  OBVIOUS
<1>1. CASE UNCHANGED <<request, task>>
  BY <1>1 DEF LockIsExclusive
<1>2. ASSUME NEW r \in Requests,
             \/ LoadBatch(r) \/ CommitRequest(r) \/ FailRequest(r)
      PROVE  LockIsExclusive'
  <2>1. /\ UNCHANGED task
        /\ request'[r].pc # "flushed"
        /\ \A k \in Requests : k # r => request'[k] = request[k]
    BY <1>2 DEF TypeOK, LoadBatch, CommitRequest, FailRequest, Finished
  <2> QED
    BY <2>1 DEF LockIsExclusive
<1>3. ASSUME NEW r \in Requests, FlushUpdate(r) PROVE LockIsExclusive'
  <2>1. request[r] \in ActiveRequests
    BY <1>3, ActiveRequest DEF FlushUpdate
  <2>2. request'[r] = [request[r] EXCEPT !.pc = "flushed"]
    BY <1>3 DEF FlushUpdate, TypeOK
  <2>3. /\ UNCHANGED task
        /\ \A k \in Requests : k # r => request'[k] = request[k]
    BY <1>3 DEF FlushUpdate, TypeOK
  <2>4. /\ request'[r].batch = request[r].batch
        /\ WritesNothing(request'[r]) <=> WritesNothing(request[r])
    BY <2>1, <2>2, SameWrite
  <2>5. WritesNothing(request[r]) \/ ~Locked(request[r].batch)
    BY <1>3 DEF FlushUpdate
  <2> QED
    BY <2>3, <2>4, <2>5 DEF LockIsExclusive, Locked
<1>4. ASSUME NEW t \in Tasks, SelectExpired(t) \/ CommitClosing(t) \/ FailClosing(t)
      PROVE  LockIsExclusive'
  <2>1. /\ UNCHANGED request
        /\ task'[t].pc # "flushed"
        /\ \A u \in Tasks : u # t => task'[u] = task[u]
    <3>1. CASE SelectExpired(t)
      BY <3>1 DEF TypeOK, SelectExpired
    <3>2. CASE CommitClosing(t)
      BY <3>2 DEF TypeOK, CommitClosing, IdleTask
    <3>3. CASE FailClosing(t)
      BY <3>3 DEF TypeOK, FailClosing, IdleTask
    <3> QED
      BY <1>4, <3>1, <3>2, <3>3
  <2> QED
    BY <2>1 DEF LockIsExclusive
<1>5. ASSUME NEW t \in Tasks, CloseSelected(t) PROVE LockIsExclusive'
  <2>1. task[t] \in ActiveTasks
    BY <1>5, ActiveTask DEF CloseSelected
  <2>2. /\ UNCHANGED request
        /\ task'[t].ids = task[t].ids
        /\ \A u \in Tasks : u # t => task'[u] = task[u]
    BY <1>5, <2>1 DEF CloseSelected, TypeOK, ActiveTasks
  <2>3. \A b \in task[t].ids : ~Locked(b)
    BY <1>5 DEF CloseSelected
  <2> QED
    BY <2>2, <2>3 DEF LockIsExclusive, Locked
<1> QED
  BY <1>1, <1>2, <1>3, <1>4, <1>5 DEF Next, RequestStep, TaskStep, Tick, vars

-----------------------------------------------------------------------------
(* Statistics *)

\* A request or task starts over: its statistics are gone.
LEMMA Forget ==
    ASSUME ClosingIInv, NEW x \in Requests \cup Tasks,
           counted' = [counted EXCEPT ![x] = {}]
    PROVE  /\ counted' \in [Requests \cup Tasks -> {{}} \cup {{s} : s \in Stages}]
           /\ counted'[x] = {}
           /\ \A y \in Requests \cup Tasks : y # x => counted'[y] = counted[y]
  BY DEF ClosingIInv, StatisticsType

\* The reports after x, a step that holds statistics, publishes for the batches ids.
LEMMA ReportGrows ==
    ASSUME ClosingIInv, NEW x \in Requests \cup Tasks, NEW ids, Report(x, ids)
    PROVE  /\ reported' \in Stages
           /\ \A p \in Products : reported'[p] <= stage[p]
           /\ \A p \in Products : BatchOf[p] \notin ids => reported'[p] = reported[p]
<1>1. PICK s \in counted[x] :
        reported' = [p \in Products |->
            IF BatchOf[p] \in ids /\ s[p] > reported[p] THEN s[p] ELSE reported[p]]
  BY DEF Report
<1>2. s \in Stages /\ reported \in Stages
  BY DEF ClosingIInv, StatisticsType
<1>3. \A p \in Products : s[p] <= stage[p] /\ reported[p] <= stage[p]
  BY DEF ClosingIInv, NothingAhead
<1> QED
  BY <1>1, <1>2, <1>3 DEF Stages

\* A step that changes neither products nor reports, and no request that has statistics.
LEMMA LifecycleStep ==
    ASSUME ClosingIInv, UNCHANGED <<stage, counted, reported>>,
           \A r \in Requests : request'[r] = request[r] \/ counted[r] = {}
    PROVE  StatisticsType' /\ NothingAhead' /\ CountedCovers'
<1>1. StatisticsType' /\ NothingAhead'
  BY DEF ClosingIInv, StatisticsType, NothingAhead
<1>2. CountedCovers'
  BY DEF ClosingIInv, CountedCovers
<1> QED
  BY <1>1, <1>2

LEMMA AdvanceInv ==
    ASSUME ClosingIInv, NEW p \in Products, AdvanceProduct(p)
    PROVE  StatisticsType' /\ NothingAhead' /\ CountedCovers'
<1>0. UNCHANGED <<request, counted, reported>>
  BY DEF AdvanceProduct
<1>1. stage \in Stages /\ stage[p] < 2 /\ stage' = [stage EXCEPT ![p] = stage[p] + 1]
  BY DEF AdvanceProduct, ClosingIInv, StatisticsType
<1>2. stage' \in Stages /\ \A o \in Products : stage[o] <= stage'[o]
  BY <1>1 DEF Stages
<1>3. reported \in Stages /\ \A x \in Requests \cup Tasks : counted[x] \subseteq Stages
  BY DEF ClosingIInv, StatisticsType
<1>4. StatisticsType'
  BY <1>0, <1>2 DEF ClosingIInv, StatisticsType
<1>5. NothingAhead'
  <2>1. ASSUME NEW o \in Products PROVE reported[o] <= stage'[o]
    <3>1. reported[o] <= stage[o] /\ stage[o] <= stage'[o]
      BY <1>2 DEF ClosingIInv, NothingAhead
    <3>2. reported[o] \in Int /\ stage[o] \in Int /\ stage'[o] \in Int
      BY <1>1, <1>2, <1>3 DEF Stages
    <3> QED
      BY <3>1, <3>2
  <2>2. ASSUME NEW o \in Products, NEW x \in Requests \cup Tasks, NEW s \in counted[x]
        PROVE  s[o] <= stage'[o]
    <3>1. s[o] <= stage[o] /\ stage[o] <= stage'[o]
      BY <1>2 DEF ClosingIInv, NothingAhead
    <3>2. s[o] \in Int /\ stage[o] \in Int /\ stage'[o] \in Int
      BY <1>1, <1>2, <1>3 DEF Stages
    <3> QED
      BY <3>1, <3>2
  <2> QED
    BY <1>0, <2>1, <2>2 DEF NothingAhead
<1>6. CountedCovers'
  BY <1>0 DEF ClosingIInv, CountedCovers
<1> QED
  BY <1>4, <1>5, <1>6

\* x reads the statistics.
LEMMA ReadInv ==
    ASSUME ClosingIInv, NEW x \in Requests \cup Tasks,
           counted' = [counted EXCEPT ![x] = {stage}],
           UNCHANGED <<request, stage, reported>>,
           x \in Requests => request[x].pc = "flushed" /\ WillClose(request[x])
    PROVE  StatisticsType' /\ NothingAhead' /\ CountedCovers'
<1>1. /\ counted'[x] = {stage}
      /\ \A y \in Requests \cup Tasks : y # x => counted'[y] = counted[y]
  BY DEF ClosingIInv, StatisticsType
<1>2. stage \in Stages
  BY DEF ClosingIInv, StatisticsType
<1>3. StatisticsType'
  BY <1>2 DEF ClosingIInv, StatisticsType
<1>4. NothingAhead'
  <2>1. \A p \in Products : stage[p] <= stage[p]
    BY <1>2 DEF Stages
  <2> QED
    BY <1>1, <2>1 DEF ClosingIInv, NothingAhead
<1>5. CountedCovers'
  BY <1>1 DEF ClosingIInv, CountedCovers, NothingAhead
<1> QED
  BY <1>3, <1>4, <1>5

\* x forgets its statistics; if it reported them, no other request that has statistics is
\* about a batch of that report.
LEMMA EndInv ==
    ASSUME ClosingIInv, NEW x \in Requests \cup Tasks,
           counted' = [counted EXCEPT ![x] = {}], UNCHANGED stage,
           \A r \in Requests : r # x => request'[r] = request[r],
           \/ UNCHANGED reported
           \/ \E ids : /\ Report(x, ids)
                       /\ \A r \in Requests : r # x /\ counted[r] # {} =>
                             request[r].batch \notin ids
    PROVE  StatisticsType' /\ NothingAhead' /\ CountedCovers'
<1>1. /\ counted' \in [Requests \cup Tasks -> {{}} \cup {{s} : s \in Stages}]
      /\ counted'[x] = {}
      /\ \A y \in Requests \cup Tasks : y # x => counted'[y] = counted[y]
  BY Forget
<1>2. /\ reported' \in Stages
      /\ \A p \in Products : reported'[p] <= stage[p]
      /\ \A r \in Requests, p \in Products :
            r # x /\ counted[r] # {} /\ BatchOf[p] = request[r].batch =>
                reported'[p] = reported[p]
  <2>1. CASE UNCHANGED reported
    BY <2>1 DEF ClosingIInv, StatisticsType, NothingAhead
  <2>2. ASSUME NEW ids, Report(x, ids),
               \A r \in Requests : r # x /\ counted[r] # {} => request[r].batch \notin ids
        PROVE  /\ reported' \in Stages
               /\ \A p \in Products : reported'[p] <= stage[p]
               /\ \A r \in Requests, p \in Products :
                     r # x /\ counted[r] # {} /\ BatchOf[p] = request[r].batch =>
                         reported'[p] = reported[p]
    BY <2>2, ReportGrows
  <2> QED
    BY <2>1, <2>2
<1>3. StatisticsType'
  BY <1>1, <1>2 DEF ClosingIInv, StatisticsType
<1>4. NothingAhead'
  BY <1>1, <1>2 DEF ClosingIInv, NothingAhead
<1>5. CountedCovers'
  BY <1>1, <1>2 DEF ClosingIInv, CountedCovers
<1> QED
  BY <1>3, <1>4, <1>5

-----------------------------------------------------------------------------
\* A request with statistics holds its row: nobody else is about to commit a closing of it.
LEMMA HoldsRow ==
    ASSUME ClosingIInv, NEW r \in Requests, counted[r] # {}
    PROVE  request[r].pc = "flushed" /\ ~WritesNothing(request[r])
<1>1. PICK s \in counted[r] : TRUE
  OBVIOUS
<1>2. request[r].pc = "flushed" /\ WillClose(request[r])
  BY <1>1 DEF ClosingIInv, CountedCovers
<1> QED
  BY <1>2, ClosingWrites

LEMMA ClosingNextInv == ClosingIInv /\ [ClosingNext]_closingVars => ClosingIInv'
<1> SUFFICES ASSUME ClosingIInv, [ClosingNext]_closingVars PROVE ClosingIInv'
  OBVIOUS
<1> USE ProcessesAssumption
<1>0. TypeOK
  BY DEF ClosingIInv, IInv
<1>1. IInv' /\ LockIsExclusive'
  BY <1>0, ClosingStepIsPlain, NextInv, NextLock DEF ClosingIInv
<1>2. SUFFICES StatisticsType' /\ NothingAhead' /\ CountedCovers'
  BY <1>1 DEF ClosingIInv
<1>3. ASSUME NEW r \in Requests, (LoadBatch(r) \/ FlushUpdate(r)) /\ ProductsUnchanged
      PROVE  StatisticsType' /\ NothingAhead' /\ CountedCovers'
  <2>1. request[r].pc # "flushed" /\ \A k \in Requests : k # r => request'[k] = request[k]
    BY <1>0, <1>3 DEF LoadBatch, FlushUpdate, TypeOK
  <2>2. counted[r] = {}
    BY <2>1, HoldsRow
  <2> QED
    BY <1>3, <2>1, <2>2, LifecycleStep DEF ProductsUnchanged
<1>4. ASSUME NEW r \in Requests, ReadStatistics(r)
      PROVE  StatisticsType' /\ NothingAhead' /\ CountedCovers'
  BY <1>4, ReadInv DEF ReadStatistics, ReadWhen
<1>5. ASSUME NEW r \in Requests, CommitWithStatistics(r)
      PROVE  StatisticsType' /\ NothingAhead' /\ CountedCovers'
  <2>1. \A k \in Requests : k # r => request'[k] = request[k]
    BY <1>0, <1>5 DEF CommitWithStatistics, CommitRequest, TypeOK
  <2>2. counted' = [counted EXCEPT ![r] = {}] /\ UNCHANGED stage
    BY <1>5 DEF CommitWithStatistics
  <2>3. CASE UNCHANGED reported
    BY <2>1, <2>2, <2>3, EndInv
  <2>4. CASE WillClose(request[r]) /\ Report(r, {request[r].batch})
    <3>1. request[r].pc = "flushed" /\ ~WritesNothing(request[r])
      BY <1>5, <2>4, ClosingWrites DEF CommitWithStatistics, CommitRequest
    <3>2. \A k \in Requests : k # r /\ counted[k] # {} => request[k].batch # request[r].batch
      BY <3>1, HoldsRow DEF ClosingIInv, LockIsExclusive
    <3>3. \A k \in Requests :
             k # r /\ counted[k] # {} => request[k].batch \notin {request[r].batch}
      BY <3>2
    <3> QED
      BY <2>1, <2>2, <2>4, <3>3, EndInv
  <2> QED
    BY <1>5, <2>3, <2>4 DEF CommitWithStatistics
<1>6. ASSUME NEW r \in Requests, FailWithStatistics(r)
      PROVE  StatisticsType' /\ NothingAhead' /\ CountedCovers'
  <2>1. \A k \in Requests : k # r => request'[k] = request[k]
    BY <1>0, <1>6 DEF FailWithStatistics, FailRequest, TypeOK
  <2> QED
    BY <1>6, <2>1, EndInv DEF FailWithStatistics
<1>7. ASSUME NEW t \in Tasks, (SelectExpired(t) /\ ProductsUnchanged) \/ CloseCounted(t)
      PROVE  StatisticsType' /\ NothingAhead' /\ CountedCovers'
  BY <1>7, LifecycleStep DEF SelectExpired, CloseCounted, CloseSelected, ProductsUnchanged
<1>8. ASSUME NEW t \in Tasks, ReadSelected(t)
      PROVE  StatisticsType' /\ NothingAhead' /\ CountedCovers'
  BY <1>8, ReadInv DEF ReadSelected
<1>9. ASSUME NEW t \in Tasks, CommitClosingWithStatistics(t)
      PROVE  StatisticsType' /\ NothingAhead' /\ CountedCovers'
  <2>1. UNCHANGED <<request, stage>> /\ counted' = [counted EXCEPT ![t] = {}]
        /\ Report(t, task[t].ids) /\ task[t].pc = "flushed"
    BY <1>9 DEF CommitClosingWithStatistics, CommitClosing
  <2>2. \A k \in Requests : k # t /\ counted[k] # {} => request[k].batch \notin task[t].ids
    BY <2>1, HoldsRow DEF ClosingIInv, LockIsExclusive
  <2> QED
    BY <2>1, <2>2, EndInv
<1>10. ASSUME NEW t \in Tasks, FailClosingWithStatistics(t)
       PROVE  StatisticsType' /\ NothingAhead' /\ CountedCovers'
  BY <1>10, EndInv DEF FailClosingWithStatistics, FailClosing
<1>11. CASE Tick /\ ProductsUnchanged
  BY <1>11, LifecycleStep DEF Tick, ProductsUnchanged
<1>12. CASE UNCHANGED closingVars
  BY <1>12, LifecycleStep DEF closingVars
<1> QED
  BY <1>3, <1>4, <1>5, <1>6, <1>7, <1>8, <1>9, <1>10, <1>11, <1>12, AdvanceInv
     DEF ClosingNext, ClosingRequestStep, ClosingTaskStep

LEMMA AlwaysClosingIInv == ClosingSpec => []ClosingIInv
  BY ClosingInitInv, ClosingNextInv, PTL DEF ClosingSpec

-----------------------------------------------------------------------------
(* The theorems *)

\* Lifecycle state, products and statistics keep their type.
THEOREM ClosingTypeCorrect == ClosingSpec => []ClosingTypeOK
<1>1. ClosingIInv => ClosingTypeOK
  BY DEF ClosingIInv, IInv, StatisticsType, ClosingTypeOK
<1> QED
  BY <1>1, AlwaysClosingIInv, PTL

\* The batch_closed event of a PATCH reports at least what every earlier batch_closed
\* event of the batch has reported, however many closings overlap.
THEOREM ManualClosingsCover == ClosingSpec => ManualClosingReportsLatest
<1> DEFINE A == \A r \in Requests :
                  CommitWithStatistics(r) /\ WillClose(request[r]) =>
                     \A p \in Products : \A s \in counted[r] :
                         BatchOf[p] = request[r].batch => s[p] >= reported[p]
<1>1. ClosingIInv => A
  <2> SUFFICES ASSUME ClosingIInv, NEW r \in Requests, NEW p \in Products, NEW s \in counted[r],
                      BatchOf[p] = request[r].batch
               PROVE  s[p] >= reported[p]
    OBVIOUS
  <2>1. reported[p] <= s[p]
    BY DEF ClosingIInv, CountedCovers
  <2>2. reported[p] \in Int /\ s[p] \in Int
    BY DEF ClosingIInv, StatisticsType, Stages
  <2> QED
    BY <2>1, <2>2
<1>2. ClosingIInv /\ [ClosingNext]_closingVars => [A]_closingVars
  BY <1>1
<1> QED
  BY <1>2, AlwaysClosingIInv, PTL DEF ClosingSpec, ManualClosingReportsLatest

\* What BatchLifecycle promises holds with the products beside it.
THEOREM LifecyclePromisesKept == ClosingSpec => []ClosedAtMatches /\ EveryClosingIsAnnounced
  BY ClosingImplementsLifecycle, ClosedAtInStep, ClosingsAnnounced, PTL

-----------------------------------------------------------------------------
(* The tables as the other components see them *)

\* A batch that is listed or counted is open or closed by a commit of this module; its
\* time of creation does not matter here.
Store == INSTANCE Production WITH
    Times <- {0},
    batches <- Batches,
    created <- [b \in Batches |-> 0],
    closed <- {b \in Batches : batch[b].is_closed},
    products <- {p \in Products : stage[p] >= 1},
    aggregated <- {p \in Products : stage[p] = 2}

ImplementsProduction == Store!StoreSpec

LEMMA StoreInitially == ClosingInit => Store!StoreInit
<1> SUFFICES ASSUME ClosingInit PROVE Store!StoreInit
  OBVIOUS
<1>1. stage \in Stages /\ \A p \in Products : stage[p] = 2 => stage[p] >= 1
  BY DEF ClosingInit, Stages
<1>2. \A p \in Products : BatchOf[p] \in Batches
  BY BatchOfAssumption
<1> QED
  BY <1>1, <1>2 DEF Store!StoreInit

\* A step that writes neither products nor is_closed.
LEMMA StoreStays ==
    ASSUME UNCHANGED stage, \A b \in Batches : batch'[b].is_closed = batch[b].is_closed
    PROVE  UNCHANGED Store!store
  BY DEF Store!store

\* The batches that a step closes are open before it.
LEMMA StoreCloses ==
    ASSUME UNCHANGED stage, NEW S \in SUBSET Batches,
           \A b \in S : batch'[b].is_closed,
           \A b \in Batches \ S : batch'[b].is_closed = batch[b].is_closed
    PROVE  [Store!StoreNext]_(Store!store)
<1> DEFINE closed == {b \in Batches : batch[b].is_closed}
<1>1. {b \in Batches : batch'[b].is_closed} = closed \cup (S \ closed)
  OBVIOUS
<1>2. CASE S \subseteq closed
  BY <1>1, <1>2 DEF Store!store
<1>3. CASE ~(S \subseteq closed)
  <2>1. PICK T \in SUBSET Batches : T = S \ closed
    OBVIOUS
  <2>2. Store!CloseBatches(T)
    BY <1>1, <1>3, <2>1 DEF Store!CloseBatches
  <2> QED
    BY <2>2 DEF Store!StoreNext
<1> QED
  BY <1>2, <1>3

LEMMA StoreReopens ==
    ASSUME UNCHANGED stage, NEW b \in Batches, ~batch'[b].is_closed,
           \A c \in Batches \ {b} : batch'[c].is_closed = batch[c].is_closed
    PROVE  [Store!StoreNext]_(Store!store)
<1> DEFINE closed == {c \in Batches : batch[c].is_closed}
<1>1. {c \in Batches : batch'[c].is_closed} = closed \ {b}
  OBVIOUS
<1>2. CASE b \notin closed
  BY <1>1, <1>2 DEF Store!store
<1>3. CASE b \in closed
  <2>1. Store!ReopenBatch(b)
    BY <1>1, <1>3 DEF Store!ReopenBatch
  <2> QED
    BY <2>1 DEF Store!StoreNext
<1> QED
  BY <1>2, <1>3

LEMMA StoreAdvances ==
    ASSUME ClosingIInv, NEW p \in Products, AdvanceProduct(p)
    PROVE  [Store!StoreNext]_(Store!store)
<1>1. /\ stage \in Stages /\ stage[p] \in {0, 1}
      /\ \A o \in Products : stage'[o] = IF o = p THEN stage[p] + 1 ELSE stage[o]
      /\ UNCHANGED batch
  BY DEF AdvanceProduct, ClosingIInv, StatisticsType, Stages
<1> DEFINE present == {o \in Products : stage[o] >= 1}
           aggregated == {o \in Products : stage[o] = 2}
<1>2. CASE stage[p] = 0
  <2>1. /\ p \notin present
        /\ {o \in Products : stage'[o] >= 1} = present \cup {p}
        /\ {o \in Products : stage'[o] = 2} = aggregated
    BY <1>1, <1>2
  <2>2. Store!CreateProduct(p)
    BY <1>1, <2>1, BatchOfAssumption DEF Store!CreateProduct, Store!BatchExists
  <2> QED
    BY <2>2 DEF Store!StoreNext
<1>3. CASE stage[p] = 1
  <2>1. /\ p \in present \ aggregated
        /\ {o \in Products : stage'[o] >= 1} = present
        /\ {o \in Products : stage'[o] = 2} = aggregated \cup {p}
    BY <1>1, <1>3
  <2>2. Store!AggregateProducts({p})
    BY <1>1, <2>1 DEF Store!AggregateProducts
  <2> QED
    BY <2>2 DEF Store!StoreNext
<1> QED
  BY <1>1, <1>2, <1>3

LEMMA StoreStep ==
    ASSUME ClosingIInv, ClosingIInv', [ClosingNext]_closingVars
    PROVE  [Store!StoreNext]_(Store!store)
<1>0. TypeOK /\ TypeOK'
  BY DEF ClosingIInv, IInv
<1>1. CASE UNCHANGED <<batch, stage>>
  BY <1>1, StoreStays
<1>2. ASSUME NEW r \in Requests, CommitWithStatistics(r)
      PROVE  [Store!StoreNext]_(Store!store)
  <2>1. /\ CommitRequest(r) /\ UNCHANGED stage
        /\ request[r].pc = "flushed" /\ request[r].batch \in Batches
    BY <1>0, <1>2 DEF CommitWithStatistics, CommitRequest, TypeOK, NewRequest, Finished,
       ActiveRequests
  <2> DEFINE b == request[r].batch
  <2>2. \A c \in Batches \ {b} : batch'[c] = batch[c]
    BY <1>0, <2>1 DEF CommitRequest, TypeOK
  <2>3. batch'[b].is_closed \in BOOLEAN
    BY <1>0, <2>1 DEF TypeOK, Rows
  <2>4. CASE batch'[b].is_closed
    <3>1. \A c \in {b} : batch'[c].is_closed
      BY <2>4
    <3>2. PICK S \in SUBSET Batches : S = {b}
      BY <2>1
    <3> QED
      BY <2>1, <2>2, <3>1, <3>2, StoreCloses
  <2>5. CASE ~batch'[b].is_closed
    <3>1. PICK c \in Batches : c = b
      BY <2>1
    <3> QED
      BY <2>1, <2>2, <2>5, <3>1, StoreReopens
  <2> QED
    BY <2>3, <2>4, <2>5
<1>3. ASSUME NEW t \in Tasks, CommitClosingWithStatistics(t)
      PROVE  [Store!StoreNext]_(Store!store)
  <2>1. CommitClosing(t) /\ UNCHANGED stage
    BY <1>3 DEF CommitClosingWithStatistics
  <2>2. PICK S \in SUBSET Batches : S = task[t].ids \cap Batches
    OBVIOUS
  <2>3. /\ \A c \in S : batch'[c] = [batch[c] EXCEPT !.is_closed = TRUE, !.closed_at = TRUE]
        /\ \A c \in Batches \ S : batch'[c] = batch[c]
    BY <2>1, <2>2 DEF CommitClosing
  <2>4. \A c \in S : batch'[c].is_closed
    <3>1. ASSUME NEW row \in Rows
          PROVE  [row EXCEPT !.is_closed = TRUE, !.closed_at = TRUE].is_closed
      BY DEF Rows
    <3>2. \A c \in S : batch[c] \in Rows
      BY <1>0 DEF TypeOK
    <3> QED
      BY <2>3, <3>1, <3>2, Zenon
  <2>5. \A c \in Batches \ S : batch'[c].is_closed = batch[c].is_closed
    BY <2>3
  <2> QED
    BY <2>1, <2>4, <2>5, StoreCloses
<1>4. ASSUME NEW r \in Requests,
             \/ LoadBatch(r) /\ ProductsUnchanged
             \/ FlushUpdate(r) /\ ProductsUnchanged
             \/ ReadStatistics(r) \/ FailWithStatistics(r)
      PROVE  UNCHANGED <<batch, stage>>
  BY <1>4 DEF LoadBatch, FlushUpdate, ProductsUnchanged, ReadStatistics, FailWithStatistics,
     FailRequest
<1>5. ASSUME NEW t \in Tasks,
             \/ SelectExpired(t) /\ ProductsUnchanged
             \/ ReadSelected(t) \/ CloseCounted(t) \/ FailClosingWithStatistics(t)
      PROVE  UNCHANGED <<batch, stage>>
  BY <1>5 DEF SelectExpired, ProductsUnchanged, ReadSelected, CloseCounted, CloseSelected,
     FailClosingWithStatistics, FailClosing
<1>6. CASE (Tick /\ ProductsUnchanged) \/ UNCHANGED closingVars
  BY <1>1, <1>6 DEF Tick, ProductsUnchanged, closingVars
<1> QED
  BY <1>1, <1>2, <1>3, <1>4, <1>5, <1>6, StoreAdvances
     DEF ClosingNext, ClosingRequestStep, ClosingTaskStep

\* Opening, closing, adding and aggregating implement Production, on which the dashboard and
\* the list of batches rest: however PATCHes and auto-close tasks overlap and fail, what is
\* committed closes open batches, reopens a closed one, or advances one product.
THEOREM ClosingsImplementProduction == ClosingSpec => ImplementsProduction
<1>1. ClosingIInv /\ ClosingIInv' /\ [ClosingNext]_closingVars => [Store!StoreNext]_(Store!store)
  BY StoreStep
<1> QED
  BY <1>1, StoreInitially, AlwaysClosingIInv, PTL
  DEF ClosingSpec, ImplementsProduction, Store!StoreSpec

=============================================================================
