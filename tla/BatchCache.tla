----------------------------- MODULE BatchCache -----------------------------
(***************************************************************************)
(* The Redis cache in front of the database.  GET requests look a key up   *)
(* and on a miss select and store the result with a time to live; the beat *)
(* task update_cached_statistics selects and stores without looking.       *)
(* Transactions that change a batch delete keys one after the other BEFORE *)
(* they commit, so a reader may store what it selected before the commit.  *)
(*                                                                         *)
(* A value stands for the set of writes it reflects: the database is the   *)
(* set of committed writes, a cached entry the set that its SELECT saw     *)
(* (the first one, where a response takes several: the others see as much  *)
(* or more).                                                               *)
(***************************************************************************)
EXTENDS Integers, Sequences

CONSTANTS Writers,       \* transactions that change batch b or its products
          KindOf,        \* which operation each of them is
          Readers,       \* GET requests being served
          Refreshers,    \* update_cached_statistics tasks
          Ttl            \* time to live per key

Keys == {"batch_detail", "batches_list", "dashboard_stats"}

\* The keys each operation deletes, in this order.  Adding a product, the import and the
\* aggregation task delete none.
Invalidations ==
    [create          |-> <<"dashboard_stats", "batches_list">>,
     update          |-> <<"batch_detail", "dashboard_stats", "batches_list">>,
     auto_close      |-> <<"batch_detail", "batches_list", "dashboard_stats">>,
     aggregate       |-> <<"batch_detail", "dashboard_stats">>,
     aggregate_task  |-> << >>,
     import          |-> << >>,
     add_product     |-> << >>]

ASSUME KindOfAssumption == KindOf \in [Writers -> DOMAIN Invalidations]
ASSUME TtlAssumption == Ttl \in [Keys -> Nat \ {0}]

VARIABLES
    database,    \* the committed writes
    cache,       \* the entry under each key
    writer,      \* keys each transaction has deleted, or how it ended
    client       \* what each reader and refresher is doing

vars == <<database, cache, writer, client>>

-----------------------------------------------------------------------------
Clients == Readers \cup Refreshers

NoEntry == [writes |-> {}, ttl |-> 0]
Entries == [writes : SUBSET Writers, ttl : Nat \ {0}] \cup {NoEntry}

Idle == [pc |-> "idle", key |-> "none", writes |-> {}]

Cached(k) == cache[k].ttl > 0

Init ==
    /\ database = {}
    /\ cache = [k \in Keys |-> NoEntry]
    /\ writer = [w \in Writers |-> [pc |-> "new", deleted |-> 0]]
    /\ client = [c \in Clients |-> Idle]

-----------------------------------------------------------------------------
(* Writers *)

KeysToDelete(w) == Invalidations[KindOf[w]]

FlushWrite(w) ==
    /\ writer[w].pc = "new"
    /\ writer' = [writer EXCEPT ![w].pc = "flushed"]
    /\ UNCHANGED <<database, cache, client>>

\* invalidate_cache_key or invalidate_cache_pattern.
InvalidateKey(w) ==
    /\ writer[w].pc = "flushed"
    /\ writer[w].deleted < Len(KeysToDelete(w))
    /\ cache' = [cache EXCEPT ![KeysToDelete(w)[writer[w].deleted + 1]] = NoEntry]
    /\ writer' = [writer EXCEPT ![w].deleted = @ + 1]
    /\ UNCHANGED <<database, client>>

CommitWrite(w) ==
    /\ writer[w].pc = "flushed"
    /\ writer[w].deleted = Len(KeysToDelete(w))
    /\ database' = database \cup {w}
    /\ writer' = [writer EXCEPT ![w].pc = "ended"]
    /\ UNCHANGED <<cache, client>>

\* An error, of Redis for example: what was deleted stays deleted.
RollbackWrite(w) ==
    /\ writer[w].pc = "flushed"
    /\ writer' = [writer EXCEPT ![w].pc = "ended"]
    /\ UNCHANGED <<database, cache, client>>

-----------------------------------------------------------------------------
(* Readers *)

\* MUTANT: a hit prolongs the entry.
AfterHitProlonged(k) == [cache EXCEPT ![k].ttl = Ttl[k]]

AfterHit(k) == cache

\* The request answers from the entry and ends.
Hit(r, k) ==
    /\ client[r] = Idle
    /\ Cached(k)
    /\ cache' = AfterHit(k)
    /\ UNCHANGED <<database, writer, client>>

Miss(r, k) ==
    /\ client[r] = Idle
    /\ ~Cached(k)
    /\ client' = [client EXCEPT ![r] = [pc |-> "select", key |-> k, writes |-> {}]]
    /\ UNCHANGED <<database, cache, writer>>

\* The beat task does not look the key up.
Refresh(r) ==
    /\ client[r] = Idle
    /\ client' = [client EXCEPT ![r] =
          [pc |-> "select", key |-> "dashboard_stats", writes |-> {}]]
    /\ UNCHANGED <<database, cache, writer>>

\* MUTANT: uncommitted writes are seen.
SelectedDirty == database \cup {w \in Writers : writer[w].pc = "flushed"}

Selected == database

Select(c) ==
    /\ client[c].pc = "select"
    /\ client' = [client EXCEPT ![c].pc = "store", ![c].writes = Selected]
    /\ UNCHANGED <<database, cache, writer>>

\* MUTANT: set instead of setex, the key keeps the time to live it has.
TtlLeftAsIs(k) == cache[k].ttl

StoredTtl(k) == Ttl[k]

\* setex.
Store(c) ==
    /\ client[c].pc = "store"
    /\ LET k == client[c].key IN
         cache' = [cache EXCEPT ![k] = [writes |-> client[c].writes, ttl |-> StoredTtl(k)]]
    /\ client' = [client EXCEPT ![c] = Idle]
    /\ UNCHANGED <<database, writer>>

\* The request or the task fails before it has stored anything.
FailRead(c) ==
    /\ client[c] # Idle
    /\ client' = [client EXCEPT ![c] = Idle]
    /\ UNCHANGED <<database, cache, writer>>

\* Time passes, and Redis drops the entries whose time is over.
Tick ==
    /\ cache' = [k \in Keys |->
          IF cache[k].ttl > 1 THEN [cache[k] EXCEPT !.ttl = @ - 1] ELSE NoEntry]
    /\ UNCHANGED <<database, writer, client>>

-----------------------------------------------------------------------------
WriterStep(w) == FlushWrite(w) \/ InvalidateKey(w) \/ CommitWrite(w) \/ RollbackWrite(w)

ClientStep(c) == Select(c) \/ Store(c) \/ FailRead(c)

Next ==
    \/ \E w \in Writers : WriterStep(w)
    \/ \E r \in Readers, k \in Keys : Hit(r, k) \/ Miss(r, k)
    \/ \E r \in Refreshers : Refresh(r)
    \/ \E c \in Clients : ClientStep(c)
    \/ Tick

Spec == Init /\ [][Next]_vars

\* Requests and tasks in progress end, and time passes.
FairSpec == Spec /\ WF_vars(Tick) /\ \A c \in Clients : WF_vars(ClientStep(c))

-----------------------------------------------------------------------------
(* Properties *)

\* The entries, the transactions and the clients keep their type; a stored entry has a
\* time to live.
TypeOK ==
    /\ database \subseteq Writers
    /\ cache \in [Keys -> Entries]
    /\ writer \in [Writers -> [pc : {"new", "flushed", "ended"}, deleted : 0..3]]
    /\ client \in [Clients -> [pc : {"idle", "select", "store"}, key : Keys \cup {"none"},
                               writes : SUBSET Writers]]

\* A cached answer never shows a write that was rolled back or is not committed,
\* although keys are deleted and stored again in the middle of transactions.
OnlyCommittedIsCached == \A k \in Keys : cache[k].writes \subseteq database

\* What is cached agrees with the database for good once no more writes commit: an entry
\* stored by a reader that was overtaken by a commit is gone after its time to live.
StaleEntriesExpire ==
    \A k \in Keys : <>[](Cached(k) => cache[k].writes = database)

\* "Invalidation happens automatically on changes": when no transaction and no reader
\* is in progress, a cached entry shows every committed write.
NothingStaleAtRest ==
    (/\ \A w \in Writers : writer[w].pc # "flushed"
     /\ \A c \in Clients : client[c] = Idle) =>
        \A k \in Keys : Cached(k) => cache[k].writes = database

=============================================================================
