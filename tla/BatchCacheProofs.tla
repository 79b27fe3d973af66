--------------------------- MODULE BatchCacheProofs ---------------------------
(***************************************************************************)
(* TypeOK and OnlyCommittedIsCached for any number of transactions,        *)
(* readers and refreshers and any times to live.  What reaches the cache   *)
(* is what a SELECT saw, and the database only grows.                      *)
(***************************************************************************)
EXTENDS BatchCache, TLAPS

\* A client past its look-up has a key, and saw nothing that is not committed.
ClientsAreHonest ==
    \A c \in Clients : /\ client[c].writes \subseteq database
                       /\ client[c].pc # "idle" => client[c].key \in Keys

IInv == TypeOK /\ OnlyCommittedIsCached /\ ClientsAreHonest

-----------------------------------------------------------------------------
\* An operation deletes at most three keys.
LEMMA KeysDeleted ==
  ASSUME NEW w \in Writers
  PROVE  Len(KeysToDelete(w)) \in 0..3
<1>1. KindOf[w] \in {"create", "update", "auto_close", "aggregate", "aggregate_task", "import",
                     "add_product"}
  BY KindOfAssumption DEF Invalidations
<1> QED
  BY <1>1 DEF KeysToDelete, Invalidations

LEMMA EntryTypes == NoEntry \in Entries /\ \A e \in Entries : e.writes \subseteq Writers
  BY DEF NoEntry, Entries

LEMMA InitInv == Init => IInv
<1> SUFFICES ASSUME Init PROVE IInv
  OBVIOUS
<1>1. TypeOK
  BY EntryTypes DEF Init, TypeOK, Idle
<1>2. OnlyCommittedIsCached
  BY DEF Init, OnlyCommittedIsCached, NoEntry
<1>3. ClientsAreHonest
  BY DEF Init, ClientsAreHonest, Idle
<1> QED
  BY <1>1, <1>2, <1>3 DEF IInv

LEMMA WriterInv == ASSUME IInv, NEW w \in Writers, WriterStep(w) PROVE IInv'
<1>1. CASE FlushWrite(w)
  BY <1>1 DEF FlushWrite, IInv, TypeOK, OnlyCommittedIsCached, ClientsAreHonest
<1>2. CASE InvalidateKey(w)
  <2>1. PICK key : cache' = [cache EXCEPT ![key] = NoEntry]
    BY <1>2 DEF InvalidateKey
  <2>2. writer[w].deleted + 1 \in 0..3
    BY <1>2, KeysDeleted DEF InvalidateKey, IInv, TypeOK
  <2>3. TypeOK'
    <3>1. cache' \in [Keys -> Entries]
      BY <2>1, EntryTypes DEF IInv, TypeOK
    <3>2. writer' = [writer EXCEPT ![w].deleted = writer[w].deleted + 1]
          /\ UNCHANGED <<database, client>>
      BY <1>2 DEF InvalidateKey
    <3>3. writer' \in [Writers -> [pc : {"new", "flushed", "ended"}, deleted : 0..3]]
      BY <2>2, <3>2 DEF IInv, TypeOK
    <3> QED
      BY <3>1, <3>2, <3>3 DEF IInv, TypeOK
  <2>4. \A k \in Keys : cache'[k] = NoEntry \/ cache'[k] = cache[k]
    BY <2>1 DEF IInv, TypeOK
  <2>5. OnlyCommittedIsCached'
    BY <1>2, <2>4 DEF InvalidateKey, IInv, OnlyCommittedIsCached, NoEntry
  <2> QED
    BY <1>2, <2>3, <2>5 DEF InvalidateKey, IInv, ClientsAreHonest
<1>3. CASE CommitWrite(w)
  BY <1>3 DEF CommitWrite, IInv, TypeOK, OnlyCommittedIsCached, ClientsAreHonest
<1>4. CASE RollbackWrite(w)
  BY <1>4 DEF RollbackWrite, IInv, TypeOK, OnlyCommittedIsCached, ClientsAreHonest
<1> QED
  BY <1>1, <1>2, <1>3, <1>4 DEF WriterStep

\* A look-up answers, or begins a SELECT for its key.
LEMMA LookUpInv ==
  ASSUME IInv, NEW r \in Clients, NEW k \in Keys,
         \/ Hit(r, k) \/ Miss(r, k)
         \/ k = "dashboard_stats" /\ Refresh(r)
  PROVE  IInv'
<1>1. CASE Hit(r, k)
  BY <1>1 DEF Hit, AfterHit, IInv, TypeOK, OnlyCommittedIsCached, ClientsAreHonest
<1>2. CASE ~Hit(r, k)
  <2>1. /\ client' = [client EXCEPT ![r] = [pc |-> "select", key |-> k, writes |-> {}]]
        /\ UNCHANGED <<database, cache, writer>>
    BY <1>2 DEF Miss, Refresh
  <2>2. TypeOK'
    BY <2>1 DEF IInv, TypeOK
  <2> QED
    BY <2>1, <2>2 DEF IInv, TypeOK, OnlyCommittedIsCached, ClientsAreHonest
<1> QED
  BY <1>1, <1>2

LEMMA ClientInv == ASSUME IInv, NEW c \in Clients, ClientStep(c) PROVE IInv'
<1>1. CASE Select(c)
  BY <1>1 DEF Select, Selected, IInv, TypeOK, OnlyCommittedIsCached, ClientsAreHonest
<1>2. CASE Store(c)
  <2> DEFINE key == client[c].key
             entry == [writes |-> client[c].writes, ttl |-> Ttl[key]]
  <2>1. /\ cache' = [cache EXCEPT ![key] = entry]
        /\ client' = [client EXCEPT ![c] = Idle]
        /\ UNCHANGED <<database, writer>>
    BY <1>2 DEF Store, StoredTtl
  <2>2. key \in Keys /\ client[c].writes \subseteq database /\ database \subseteq Writers
    BY <1>2 DEF Store, IInv, TypeOK, ClientsAreHonest
  <2>3. entry \in Entries /\ entry.writes \subseteq database
    BY <2>2, TtlAssumption DEF Entries
  <2> HIDE DEF entry, key
  <2>4. TypeOK'
    BY <2>1, <2>2, <2>3 DEF IInv, TypeOK, Idle
  <2>5. OnlyCommittedIsCached'
    BY <2>1, <2>2, <2>3 DEF IInv, TypeOK, OnlyCommittedIsCached
  <2>6. ClientsAreHonest'
    BY <2>1 DEF IInv, TypeOK, ClientsAreHonest, Idle
  <2> QED
    BY <2>4, <2>5, <2>6 DEF IInv
<1>3. CASE FailRead(c)
  BY <1>3 DEF FailRead, IInv, TypeOK, OnlyCommittedIsCached, ClientsAreHonest, Idle
<1> QED
  BY <1>1, <1>2, <1>3 DEF ClientStep

LEMMA TickInv == ASSUME IInv, Tick PROVE IInv'
<1>1. ASSUME NEW k \in Keys
      PROVE  cache'[k] \in Entries /\ cache'[k].writes \subseteq database
  <2>1. cache'[k] = IF cache[k].ttl > 1 THEN [cache[k] EXCEPT !.ttl = cache[k].ttl - 1]
                                        ELSE NoEntry
    BY DEF Tick
  <2>2. cache[k] \in Entries /\ cache[k].writes \subseteq database
    BY DEF IInv, TypeOK, OnlyCommittedIsCached
  <2>3. CASE cache[k].ttl > 1
    <3>1. cache[k] \in [writes : SUBSET Writers, ttl : Nat \ {0}]
      BY <2>2, <2>3 DEF Entries, NoEntry
    <3> QED
      BY <2>1, <2>2, <2>3, <3>1 DEF Entries
  <2>4. CASE ~(cache[k].ttl > 1)
    BY <2>1, <2>4, EntryTypes DEF NoEntry
  <2> QED
    BY <2>3, <2>4
<1>2. UNCHANGED <<database, writer, client>> /\ cache' = [k \in Keys |-> cache'[k]]
  BY DEF Tick
<1>3. cache' \in [Keys -> Entries]
  BY <1>1, <1>2
<1> QED
  BY <1>1, <1>2, <1>3 DEF IInv, TypeOK, OnlyCommittedIsCached, ClientsAreHonest

LEMMA NextInv == IInv /\ [Next]_vars => IInv'
<1> SUFFICES ASSUME IInv, [Next]_vars PROVE IInv'
  OBVIOUS
<1>1. CASE UNCHANGED vars
  BY <1>1 DEF vars, IInv, TypeOK, OnlyCommittedIsCached, ClientsAreHonest
<1>2. ASSUME NEW r \in Clients, NEW k \in Keys, Hit(r, k) \/ Miss(r, k) PROVE IInv'
  BY <1>2, LookUpInv
<1>3. ASSUME NEW r \in Clients, Refresh(r) PROVE IInv'
  <2>1. "dashboard_stats" \in Keys
    BY DEF Keys
  <2> QED
    BY <1>3, <2>1, LookUpInv
<1> QED
  BY <1>1, <1>2, <1>3, WriterInv, ClientInv, TickInv DEF Next, Clients

LEMMA AlwaysIInv == Spec => []IInv
  BY InitInv, NextInv, PTL DEF Spec

-----------------------------------------------------------------------------
\* The entries, the transactions and the clients keep their type: no entry is stored
\* without a time to live.
THEOREM TypeCorrect == Spec => []TypeOK
<1>1. IInv => TypeOK
  BY DEF IInv
<1> QED
  BY <1>1, AlwaysIInv, PTL

\* However SELECTs, deletions, commits and roll-backs are ordered, no cached answer shows a
\* write that is not committed.
THEOREM CommittedOnly == Spec => []OnlyCommittedIsCached
<1>1. IInv => OnlyCommittedIsCached
  BY DEF IInv
<1> QED
  BY <1>1, AlwaysIInv, PTL

=============================================================================
