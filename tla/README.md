# TLA+ models of product-control

product-control keeps track of production batches (shift tasks) and of the products
aggregated in them. A FastAPI application and Celery workers share a PostgreSQL
database, a Redis cache, a message broker and a MinIO object store; external systems
subscribe to webhooks. Every request handler and most Celery tasks are short
transactions, so nearly everything that can go wrong goes wrong *between* two of them:
an event sent before its commit, a decision made from a row that has changed, a cache
key deleted too early, two tasks writing one file. These models are about that.

Paths below are relative to the repository (`src/...` is its Python package).

## 1. Inventory

| Component | State it keeps | Operations | What is hard |
|---|---|---|---|
| Webhooks (`src/domain/services/webhook_service.py`, `src/tasks/webhooks.py`, two repositories) | `webhook_subscriptions`, `webhook_deliveries`, messages in the broker | create, update, delete a subscription; `publish_event`; `send_webhook_delivery`; `retry_failed_webhooks` | messages are sent before the commit; original message and retries overlap; answers are lost; tasks die; a subscription is deleted while an event is being recorded |
| Batch lifecycle (`update_batch` in `src/domain/services/batch_service.py`, `close_expired`, `src/tasks/scheduled.py`) | `batches.is_closed`, `closed_at`, `shift_end`; the statistics in `batch_closed` events | PATCH, auto-close | decisions from stale rows; column-wise UPDATEs of overlapping sessions; select-then-update without a lock; products that change while a closing counts them |
| Batch creation and import (`create_batches`, `src/tasks/imports.py`, work center repository) | `batches`, `work_centers`, report of an import | POST /batches, import task | unique keys checked before they are inserted; waits and deadlocks on them; a transaction per row next to a transaction per request; retry of half an import |
| Products and aggregation (`src/domain/services/product_service.py`, `aggregate_batch`, `src/tasks/aggregation.py`) | `products.is_aggregated`, results of tasks | create, aggregate one / all of a batch / a list in chunks | writers of one row with different UPDATEs; a limit checked on an old count; chunk commits; row-lock deadlocks |
| Redis cache (`src/utils/cache.py`, users in `batch_service.py`, `analytics_service.py`, `scheduled.py`) | entries `batch_detail`, `batches_list`, `dashboard_stats` | cached reads, invalidation, refresh by the beat | invalidation precedes the commit; old selects stored late |
| Reports, exports, import files, storage (`src/tasks/reports.py`, `src/tasks/exports.py`, `batch_export_service.py`, `start_import`, the download in `src/tasks/imports.py`, `minio_service.py`) | temporary files, objects, links | generate, upload, link, send, download, retry, clean up | names shared by concurrent tasks; deletion by name of what was listed as old; a link that expires in the queue; cleanup in `finally` blocks that do not see every file |
| Dashboard (`src/data/repositories/analytics_repository.py`) | none of its own | seven SELECTs | every statement sees another database; joins that repeat or lose rows |
| List of batches (`list_filtered`, `list_batches`) | none of its own; an entry of the cache per page | a count and a page | pages shift under the client; pages of different ages make up one walk |
| Routers, schemas, dependencies, start-up, configuration, logging, HMAC, PDF layout, parsing | none | - | - |

How they meet: every service that changes something calls `publish_event` inside its own
transaction, then deletes cache keys, then returns, and only then `get_db` commits
(`src/core/database.py:25`). Celery tasks use `celery_db_session`
(`src/core/celery_database.py:9`), which does *not* commit; each task does so itself, or
forgets to. The beat starts four tasks (`src/celery_app.py:20`); nothing prevents two runs
of one task, and `docker-compose.yml` runs four worker processes.

## 2. Modules

| Module | Models | Checked through | Proofs |
|---|---|---|---|
| `WebhookContract` | what delivery promises, without queue, workers, transactions or retries (abstract) | `WebhookDelivery` | - |
| `WebhookDelivery` | the webhook component | `MCWebhookDelivery` | `WebhookDeliveryProofs` |
| `BatchLifecycle` | PATCH and auto-close (the abstract one of the next) | `ClosingStatistics` | `ClosingStatisticsProofs` |
| `ClosingStatistics` | the same with the products and the statistics of the events | `MCClosingStatistics` | `ClosingStatisticsProofs` |
| `CreationContract` | what creation promises: a request is one step, so is a row of an import (abstract) | `BatchCreation` | `BatchCreationProofs` |
| `BatchCreation` | POST /batches and the import task | `MCBatchCreation` | `BatchCreationProofs` |
| `WaitGraph` | which waiting transactions PostgreSQL aborts | `BatchCreation`, `Aggregation` | `WaitGraphProofs` |
| `Aggregation` | creation and aggregation of products | `MCAggregation` | `AggregationProofs` |
| `BatchCache` | the cache in front of the database | `MCBatchCache` | `BatchCacheProofs` |
| `GeneratedFiles` | temporary files, objects and links of exports and reports | `MCGeneratedFiles` | `GeneratedFilesProofs` |
| `FileStorage` | the same with the files of imports | `MCFileStorage` | `GeneratedFilesProofs` |
| `Production` | batches and products as committed: the abstract one of `BatchCreation`, `ClosingStatistics` and `Aggregation`, and what the readers below read | `MCAggregation`, `MCQueries` | `BatchCreationProofs`, `ClosingStatisticsProofs`, `AggregationProofs`, `QueriesProofs` |
| `Dashboard` | the statements of the dashboard | `MCQueries` | `QueriesProofs` |
| `Listing` | the statements of GET /batches, its cached pages, and a client that turns pages | `MCQueries` | `QueriesProofs` |

Operators marked `MUTANT` are altered forms of the operator below them; they are used to
check that each property depends on the code, and by nothing else.

### How a transaction is modelled

All sessions are READ COMMITTED. A SELECT sees what is committed when it runs and the
transaction's own writes. An UPDATE takes row locks, waits for those of others, is applied
to the row as last committed, and becomes visible at the commit. An insert waits for an
uncommitted row with the same unique key and fails once that is committed. A transaction
that fails leaves nothing behind. Steps between two awaits that touch only local data are
one action.

### WebhookDelivery

A *publisher* is one call of `publish_event` and the transaction around it: select the
subscriptions, flush a row for each, send a message for each, and later commit or roll
back. Publishers in `Unsaved` are calls from Celery tasks that never commit
(`src/tasks/imports.py:151`, `src/tasks/reports.py:73`). A delivery is the pair of
publisher and subscription. A *worker* goes through `send_webhook_delivery`: receive the
message (which is thereby acknowledged) and load the row, read the subscription, POST,
and write `success` or `failed` with the attempts it had loaded plus one; as in
SQLAlchemy, only columns that differ from the loaded ones are written. The receiver may
accept, refuse, or accept or not with its answer lost. `RetryFailedWebhooks` sends one
more message for each row that is ready; `last_attempt` says whether the backoff has
passed and does not count minutes. `attempts` is exact.

`WebhookContract` says: an event is recorded for a set of subscriptions in one step; only
what is recorded is posted; only what is posted is accepted; only what is accepted is
confirmed. The mapping reads `recorded` as the committed rows and `confirmed` as the rows
with `delivered_at`.

### BatchLifecycle

A request has a body in which `is_closed` and `shift_end` may each be absent. It loads the
row, computes its columns (`Write`), flushes (row lock) and commits; the events it
publishes are part of its transaction, and `announced` counts the committed
`batch_closed` events. An auto-close task selects the expired batches, updates them by
id, and commits. A batch may be created closed with `closed_at` empty
(`create_batch`, `src/domain/services/batch_service.py:80`), which is why `ClosedAtMatches`
is about the others. Other columns of a batch behave like `shift_end`.

### ClosingStatistics

Extends `BatchLifecycle`: each of its actions is one of that module with, where the code
does it, the reading of the products. A PATCH that closes reads them after its UPDATE
(`get_by_id_with_products`, line 202), so while it holds the row lock; auto-close reads
them with its SELECT, before any lock. Products go from absent to open to aggregated at any
time, because neither creation nor aggregation looks at `is_closed`. `counted` holds what a
transaction has read; `reported` remembers, per product, the furthest stage any committed
event has told. A figure of an event (`total_products`, `aggregated`) is the number of
products at that stage, so comparing stages product by product is stronger than comparing
figures.

### BatchCreation

A job is a request or an import with a list of items. Each item passes `exists`, `center`,
`insert_center`, `insert_batch`; a request commits after its last item, an import after
each. `Refuse` is what happens to an item that cannot be created: the request fails, the
import rolls the row back, notes why and goes on. The task's retry starts the list again
with new counts. `Deadlocked` is PostgreSQL's detector, which aborts a transaction that
waits, directly or not, for itself (`WaitGraph!OnCycle`); one that waits for such a
transaction is left alone.

`CreationContract` says: a request creates all its batches in one step or never, an import
one row at a time, with the work center and the report in the same step; an import may
forget its report and start over. The mapping reads `owner` and `centers` as they are and
`created` as the items a job's results call created; `CommitRow` is `Create`, `RetryImport` is
`StartOver`, and everything else is a stutter.

### Aggregation

Four kinds of jobs work on the products of one batch. `VisitRow` is one row of an UPDATE or
the insert of one product: it waits for the row lock and looks at the WHERE clause again,
which for a task is the id alone. `found` collects what a job's SELECTs returned, `report`
its counts. Codes of other batches are, for this batch, absent. `Deadlocked` is as above, for
row locks. A scan is `ProductService.aggregate_product`, which publishes `product_aggregated`; no
router or task calls it at this commit (`src/api/v1/routers/products.py` only creates). It is
modelled because the service offers it; `AnnouncedOnce` is about nothing else, and the other
properties hold for any number of scans, none included. Read as `Production` with a single batch, an addition's commit is `CreateProduct`, a
commit that aggregates is `AggregateProducts`, and locks, waits and failures are stutters.

### BatchCache

The database is the set of committed writes and a value is the set of writes its SELECT
saw, so staleness is a comparison of sets. `Invalidations` lists the keys each operation
deletes and in which order; adding a product, importing batches and the aggregation task delete
none. TTLs are 1, 2 and 3 ticks for 60, 300 and 600 seconds. The list
has one entry per filter in the code and one entry here; the deletion by pattern takes
effect on a key at one moment, so it is one step per key.

### GeneratedFiles

A temporary file is the set of jobs whose output it holds. Opening truncates it under the
tasks that have it open, removing it detaches them. Upload, link, removal and the cleanup's
list-then-delete are separate steps; days pass up to a bound.

### FileStorage

Extends `GeneratedFiles` with imports: write the upload to a temporary file of the API
container, store it, remove the file in the `finally` block, send the link, and in the
worker create another temporary file, download, read the rows, remove it in another
`finally` block, with one retry (`max_retries=1`). Names are unique here, so no file is
shared; the one thing the parts share is the clock. Any of the steps may fail, the
processes may die, the message may wait in the queue for days. `temps` counts temporary
files and `misses`, a history, failed downloads.

### Production, Dashboard, Listing

`Production` is the database as the readers see it: each action commits one transaction of
another module, which the refinements of `BatchCreation`, `ClosingStatistics` and `Aggregation`
show to be all that those modules commit (a request creates several batches at once, with one
`created_at`, which is the time the transaction *began* and may lie before that of an earlier
commit). A reader performs one SELECT per step. How many transactions are committed beside it
is bounded in `Dashboard` (`MaxCommits`) and `Listing` (`MaxVersions`), not in `Production`,
which is the one to be implemented.

In `Dashboard` a COUNT is represented by the set it counts: for the summary the rows of the
outer join, which is what `COUNT(batches.id)` without DISTINCT counts, elsewhere batches or
products. The figure is the cardinality of the set. `earlier` marks the products whose time
stamps lie before today, which a commit of today may well have.

`Listing` gives `ORDER BY created_at DESC` its real meaning: of rows with the same
`created_at` any order, and another one in the next statement. `IsPage(P, M, offset)` says
that `P` may be the page of the matching batches `M`. `versions` is the history of the tables.
A page of a walk is either counted and selected now (`CountMatching`, `SelectPage`) or comes
from the cache (`CachedPage`): `list_batches` is `@cached(ttl=60)` with an entry per filter and
offset (`src/domain/services/batch_service.py:239`), and such an entry was counted in any earlier
version and selected in the same or a later one. That is more than the code can do: an entry
lives for 60 seconds, and some commits delete it (`BatchCache`); what holds for entries of any
age holds for those. `walk.inOrder` remembers whether the pages were of versions that never
went back.

## 3. Runs

| Run | Shows |
|---|---|
| `webhook_overlap` | one delivery, two workers, retries, one lost task or half-finished beat: types, success only after acceptance, every delivery settles |
| `webhook_fan_out` | two subscriptions that come and go, a publisher that commits and one that does not: only committed events are posted, no orphaned delivery, the contract is implemented |
| `webhook_repeated_delivery` | *violated*: a delivered event is sent again |
| `webhook_unsaved_event` | *violated*: an event of an import or report task is never recorded |
| `lifecycle_concurrent` | two PATCHes with every body and two auto-close tasks on a batch whose product changes: closings are announced, `closed_at` follows `is_closed`, no stale overwrite, manual closings report the latest figures, expired batches get closed |
| `creation_concurrent` | two requests in opposite order and two imports, with one failure: all or nothing, reports are true, creation is serializable (the contract is implemented), some job can always go on, everybody ends |
| `aggregation_overlap` | two scans, a request, a task of two chunks and a new product, from all 27 tables of three products: one event per product, finished jobs have aggregated what they found, counts add up, the request exceeds its limit only by products added meanwhile, `Production` is implemented, some job can always go on, everybody ends |
| `cache_concurrent` | three writers, a reader, the beat: only committed data is cached, stale entries expire |
| `cache_stale_at_rest` | *violated*: an entry that an invalidation should have removed is put back |
| `files_shared` | two exports of one name, a report, an import and the cleanup: temporary files are removed but for failed downloads, a task with a name of its own returns a good link, an import finds its file |
| `files_export_link` | *violated*: a link serves another export |
| `queries_concurrent` | a dashboard, or a client turning pages that are read afresh or come from the cache, with two transactions of any kind in between: later statements of the dashboard see more, a quiet dashboard agrees with itself; a short page holds what the total promised, a walk that never steps back in time misses no batch with a creation time of its own |

A run marked *violated* checks a sentence of the repository's own documentation against the
model and finds a behaviour of the code that contradicts it (section 6).

### Bounds, and why they are enough

* **Webhooks.** Two messages for a delivery (`MaxCopies = 2`) is the overlap of the first
  message with one of the beat, and two workers process them at once; more of either
  repeats the same interference. `retry_count` 1 and 2 gives a last attempt and one before.
  With two subscriptions a publisher can be cut short between two rows or two messages. One
  event type suffices, because a subscription may list it or not.
* **Lifecycle.** Two requests and two tasks give every pair of overlapping transactions on
  one batch; batches only share a task's commit, which the proofs cover for any number.
  Two clock values and `shift_end` among them make a shift that runs, has ended, and is
  extended again. One product goes through all its stages; the proofs cover more.
* **Creation.** The items are chosen so that requests wait for each other in opposite
  order, share work centers, and collide with imports that have a duplicate, an invalid
  and a new row.
* **Aggregation.** Chunks of two and a list of four codes make a full last chunk and a code
  that comes back; two scans, a request and the task share `c1`.
* **Cache.** One reader per race is enough, since readers do not interact except through
  entries, and the beat is the second one.
* **Files.** Links live for two days (one for an import), objects for three, the clock runs
  to four: a link expires, an object becomes old, and a file is made again in between. The
  two exports are interchangeable, hence the symmetry; there is no liveness property in
  that run. One import suffices, imports share nothing.
* **Dashboard and list.** Readers change nothing, so a behaviour has one of them: `reader` says
  which, and with it whether the behaviour is one of `DashboardSpec` or of `ListingSpec`, which
  the theorems are about. Either begins with any table of three batches, and two transactions
  are committed between its statements, undoing each other or building on each other.
  * The dashboard: three batches in two shifts and two centers separate all groupings, a batch
    with two products and batches without any separate the joins; `Limit = 3` exceeds the
    centers, so that the list is complete (the cases in which it is cut off have no claim
    about the centers, and the proofs cover both). It does not look at `created_at`, so there
    is one time.
  * The list: any creation times out of three; with two commits there are three versions that a
    page may be of.
    Pages of one batch make a walk of up to four pages. It does not look at products, and
    there are none. A batch is nothing but its time and whether it is closed, so the batches
    may be numbered in the order of their times (`InOrderOfTime`), which loses no behaviour
    up to names.
* **Failures** are counted (`MaxAbandons`, `MaxFailures`, `MaxCrashes`) because they may
  happen at any point of any transaction; two would only combine the effects of one.

`CHECK_DEADLOCK FALSE` is set where the modelled jobs are finite and all of them end, or
the clock reaches its bound; progress is checked by the liveness properties there.

### Fairness

* Webhooks: a task in progress takes its next step (HTTP calls time out), a queued message
  is received although the workers may be busy with others (strong fairness: the queue is
  first in, first out), the beat fires, the backoff passes. Subscribers and business
  operations owe nothing, and `EveryDeliverySettles` is only about runs in which clients
  stop changing the subscriptions: raising `retry_count` for ever postpones settlement.
* Lifecycle, creation, aggregation: a transaction that is not waiting goes on, PostgreSQL
  breaks deadlocks, and the auto-close task is started again. Nobody has to send a request.
* Cache: time passes and a started read ends. The beat need not run.
* Files, dashboard and list have safety properties only.

## 4. Properties

The ones that took several actors to get wrong:

* `OnlyCommittedArePosted`: the message is in the queue before the commit and may be
  consumed before it, or after a rollback. It holds because the task looks the row up.
* `NoOrphanDelivery`: holds thanks to the foreign key alone; `publish_event` selects long
  before it inserts.
* `EveryDeliverySettles`: overlapping tasks take `attempts` *back* (each writes its own
  loaded value plus one) and overwrite `success`, messages vanish, and yet every committed
  delivery is delivered or exhausted in the end.
* `ClosedAtMatches`, `NoStaleOverwrite`, `EveryClosingIsAnnounced`: consequences of writing
  only changed columns. If an unchanged `is_closed` were written too, a closing could go
  unannounced; if whole rows were written, columns would be lost.
* `ManualClosingReportsLatest`: overlapping closings of a batch each send an event. Since a
  PATCH reads the products while it holds the row lock, and the lock orders the closings,
  its event never falls behind an earlier one. Reading them with the batch would break
  this, and for auto-close, which does, it does not hold.
* `AllOrNothing`, `ReportIsTrue`: they depend on what SELECTs can see of other transactions and
  on where each job commits.
* `ImplementsContract` of `BatchCreation`: lookups, inserts, waits and commits of several
  jobs are interleaved, and yet what becomes visible is one request or one row at a time. It
  would be wrong for a request that commits after each row, although every single batch
  would still be right.
* `SomeJobCanGoOn`, in `BatchCreation` and `Aggregation`: a wait for a transaction that has ended
  is a deadlock no detector finds. It holds because every way in which a transaction ends
  gives up what it holds.
* `AnnouncedOnce`: depends on the WHERE clause being looked at again after the lock wait (for
  `ProductService.aggregate_product`, once something calls it).
  `ReportAddsUp`, on the contrary, depends on the task's UPDATE *not* looking again: a
  product aggregated in between is counted twice by two jobs, but never dropped from the
  task's result.
* `OnlyAdditionsExceedLimit`: the limit is compared with a count that may be old when the UPDATE
  runs. That the request stays within it is false (section 6); that nothing but products added
  in between takes it beyond is what the lock waits and the other writers could break.
* `DoneMeansAggregated`: whoever finishes may rely on the products it found, even if
  another transaction was writing them, because nobody skips locked rows.
* `ImplementsProduction` of `Aggregation`: four kinds of overlapping transactions, of which a
  task's UPDATE does not look again, only ever add a product or aggregate one that is there.
* `StaleEntriesExpire`: no entry's life is prolonged by being read.
* `NoTempFileLeft`: whoever removes last removes all, in every order of two tasks on one
  file.
* `LeftoversAreFailedDownloads`: accounts for the temporary files of an import over any
  number of failures, in two containers. It is an equality: it also says that the code
  *does* leave a file for every failed download (section 6).
* `ImportFindsItsFile`: depends on the link expiring before the cleanup may take the object,
  through queueing, retries and a cleanup that acts on an old listing.
* `LaterStatementsSeeMore`: a dashboard may be inconsistent, but its parts can be compared:
  what an earlier statement counted is part of what a later one counts.
* `QuietDashboardAgrees`: outer joins, groupings and DISTINCT, each in another place, must
  count the same products, and of batches shifts and centers must count the same. The summary
  counts rows of a join, and all that is claimed of its figure is that it is at least the
  number of batches; that it is exactly that is false (section 6).
* `PageHoldsWhatTotalPromises`, `WalkMissesNothing`: pages are cut by OFFSET from a list that
  grows, and not only at its front, and each page may come from the cache. The second is about
  walks in which no page is older than the page before it, and about the batches its first
  page could have shown; without that condition it is false (section 6).

## 5. Proofs

TLAPS checks the following for every value of the constants.

* `WebhookDeliveryProofs`
  * `TypeCorrect`, `OnlyCommitted`, `SuccessAccepted`, `NoOrphan`: one inductive invariant.
    To `TypeOK` it adds what workers hold (a worker past `loaded` holds a committed
    delivery; one that is about to mark success has been accepted) and what publishers have
    done (inserted rows are among the selected ones; a live subscription is held by every
    row that references it).
  * `Refinement`: `WebhookDelivery!Spec` implements `WebhookContract!Spec`; each action maps
    to one contract step or to a stutter, `CommitRequest` being `Record`.
  * Assumptions: `Unsaved` is a subset of the publishers, `EventOf` a function into the event
    types, `RetryCounts` and the bounds are naturals.
* `ClosingStatisticsProofs`
  * `ClosedAtInStep` (`ClosedAtMatches`): the invariant needs that the row each request
    *loaded* was consistent too (`SnapshotsMatch`). Then whatever the committed row has
    become since, the columns the request writes are either both written to agreeing values
    or not written at all.
  * `ClosingsAnnounced` (`EveryClosingIsAnnounced`): a request that turns an open committed
    row into a closed one has written `is_closed`, so it loaded it open, so `WillClose` held.
  * `LifecycleTypeCorrect` (`TypeOK`) and `NothingStaleWritten` (`NoStaleOverwrite`).
  * `ClosingImplementsLifecycle`: every step of `ClosingStatistics` is one of `BatchLifecycle` or
    changes nothing of it, so that the theorems above hold for it (`LifecyclePromisesKept`).
  * `ClosingTypeCorrect` (`ClosingTypeOK`).
  * `ManualClosingsCover` (`ManualClosingReportsLatest`): the invariant says that nothing was
    reported that is not so (`reported` never exceeds `stage`), and that what a PATCH has read
    covers what was reported for its batch: it holds the lock, so no other closing of the
    batch can commit before it does.
  * `ClosingsImplementProduction`: a commit closes open batches, reopens a closed one, or
    changes neither; a product advances one stage at a time. The set an auto-close commit
    closes is what it selected less what was closed meanwhile, which is why it is a set of
    open batches.
  * Assumptions: each product has a batch; requests and tasks are disjoint; the bounds are
    naturals.
* `WaitGraphProofs`
  * `SomeoneOnCycle`, a lemma for the next two: if finitely many transactions all wait, and
    for each other only, one of them is on a cycle. Of the non-empty sets that contain whoever
    their members wait for, take one of the smallest. Each of its members is on a cycle, or
    what it leads to without itself would be a smaller such set.
* `BatchCreationProofs`
  * `RequestsAreAtomic` (`AllOrNothing`), `ReportsAreTrue` (`ReportIsTrue`). `AllOrNothing` is not inductive: one has to know that a
    key inserted and not committed is in no other transaction and not in the table
    (`Exclusive`), so that no commit takes a row over, and that a request about to commit has
    inserted all its keys (`Orderly`).
  * `CreationIsSerial` (`ImplementsContract`): the converse of `Orderly` is needed too, that a
    transaction holds nothing *but* what its items say (`AllExact`: `Txn` are the items it has
    inserted, valid and with different keys, and no item still to come is reported as
    created). Then a commit is `Create` of exactly those items.
  * `CreationImplementsProduction`: what a commit adds is new (`Exclusive`), so it is
    `CreateBatches`.
  * `NoHiddenDeadlock` (`SomeJobCanGoOn`): a job that has ended holds nothing (`AllReleased`),
    hence whoever is waited for runs; if all that run wait, `SomeoneOnCycle` applies.
  * `NoStepBack`: a step takes its job to a later item or a later step with the same item, or
    it is the one retry of an import.
  * `TypeCorrect` (`TypeOK`): no job runs past its last item.
  * Assumptions: there are finitely many jobs, requests and imports are disjoint, `NoOne` is
    not a job, every job has at least one item (an empty list changes nothing).
* `AggregationProofs`
  * `AnnouncedAtMostOnce` (`AnnouncedOnce`) and `FoundIsAggregated` (`DoneMeansAggregated`). The
    invariant says that a row is held by one job, that what an addition or a scan saw when it
    locked the row is still true (`HeldUnchanged`), and that a product a job has found is
    aggregated, still to be visited, or held (`FoundIsTakenCareOf`).
  * `ReportsAddUp` (`ReportAddsUp`) and `TypeCorrect` (`TypeOK`). The invariant (`CountIInv`) says
    that a task stands at the beginning of a chunk, that its counts add up to that position,
    and, while the UPDATE of the chunk runs, that they and the rows visited or still to be
    visited add up to the chunk's end. The length of the part of the chunk that is not open
    is the number of its positions, and positions map one to one to the codes
    (`CountedOnce`), so that no sum over the list is needed.
  * `ProductsImplementProduction` (`ImplementsProduction`): an addition writes the product it
    adds and everybody else products that are in the table (`RowsAreTheirs`).
  * `LimitExceededByAdditions` (`OnlyAdditionsExceedLimit`): between count and commit, every
    product in the table was counted or added since (`WithinLimit`), because the table grows by
    commits of additions alone (`NewIsAdded`); and what a request writes is in the table.
  * `NoHiddenDeadlock` (`SomeJobCanGoOn`) and `NoStepBack`, as above; a step of a running UPDATE
    leaves a row less to visit.
  * Assumptions: there are finitely many jobs and, at first, products, the four kinds of jobs
    are disjoint, chunks are not empty, additions and scans are given one code, tasks at least
    one (the schema asks for it).
* `BatchCacheProofs`
  * `TypeCorrect`, `CommittedOnly` (`OnlyCommittedIsCached`): the invariant adds that what a
    client has selected is committed, which stays so because the database only grows.
  * Assumptions: each writer is one of the operations, times to live are positive.
* `GeneratedFilesProofs`
  * `TypeCorrect`, `TempFilesRemoved` (`NoTempFileLeft`, inductive with the types) and
    `LinkServes` (`LinkServesItsFileAlone`): for a task alone with its name, the object is what it
    uploaded or older than `KeepDays`, and the cleanup lists it in the second case only.
  * `ImportsDoNotDisturb`: `FileStorage` implements `GeneratedFiles`, so both hold next to
    imports. `StorageTypeCorrect`, `ImportsFindTheirFiles` (`ImportFindsItsFile`),
    `LeftoversAccounted` (`LeftoversAreFailedDownloads`): the invariant knows, for each control
    state of an import, how many temporary files it has, that its object is as old as its
    link, and that the cleanup lists old objects only.
  * Assumptions: `LinkDays < KeepDays`, `ImportLinkDays < KeepDays`.
* `QueriesProofs`
  * `DashboardPartsOrdered` (`LaterStatementsSeeMore`), `QuietDashboardConsistent`
    (`QuietDashboardAgrees`): lemmas on the join and the groupings (every batch and product is
    counted once, and the join has a row for every batch, `RowsForBatches`), and the fact
    that the tables only grow. The invariant (`DashIInv`) adds that what was counted is still
    there, and, while nothing is committed, is all there is.
  * `PageKeepsPromise` (`PageHoldsWhatTotalPromises`): of two versions the later has all
    batches of the earlier (`VersionsGrow`), and no answer, fresh or cached, has a total of a
    later version than its page.
  * `WalkComplete` (`WalkMissesNothing`): a batch of the first page's version is in that of every
    page that is no older (`FirstIsThere`); and if the client has not seen it, it has there at
    least as many newer ones before it as the next page skips (`UnseenIsBehind`). Later versions
    only put more of them there; and a page on which it is still missing is full, so that its
    rows and those skipped before it are newer ones (`PageBehind`).
  * `DashboardTypeCorrect` (`DashboardTypeOK`) and `ListingTypeCorrect` (`ListingTypeOK`).
  * Assumptions: batches, products and work centers are finite sets; each batch has a shift and
    a center, each product a batch; `PageSize`, `MaxVersions` and `Limit` are positive.

Every invariant and every action property of the passing runs is among these theorems, and
so is every refinement. Only model-checked is what must eventually happen:
`EveryDeliverySettles`, `ExpiredIsClosed`, `StaleEntriesExpire` and `EveryJobEnds` in `BatchCreation` and in
`Aggregation`, since fairness speaks of ENABLED, which the prover does not handle. Of
`EveryJobEnds` the two facts that can fail are proved for all sizes: nobody steps back
(`NoStepBack`), and somebody can go on (`NoHiddenDeadlock`). That a job which can go on does, and
that finitely many steps are enough, is what the run adds. The properties of the *violated*
runs are false, of course, and have no theorem.

The library's induction theorems take an operator as a parameter, which the provers cannot
instantiate. Where an induction was needed (a cycle in a finite graph) it is stated as the
existence of a smallest counterexample (`LeastNatural`), for which the library has a theorem
about sets.

`NoStepBack`, `CreationImplementsProduction` and `ClosingsImplementProduction` are theorems only: no
run lists them.

## 6. Where code and documentation disagree

* **A delivered event is sent again** (`webhook_repeated_delivery`). Two tasks load a row as
  pending, the first delivers it, the second fails and writes `failed` over `success`
  (`src/data/repositories/webhook_deliveries_repository.py:100`); the beat then retries it.
* **Events of import and report tasks are lost** (`webhook_unsaved_event`).
  `publish_event` flushes rows and sends messages in a session nobody commits.
* **Stale cache entries survive an update** (`cache_stale_at_rest`): keys are deleted before
  the commit.
* **An export's link serves another export** (`files_export_link`): fixed names.

Seen while modelling; no run is about them:

* A delivery may get more attempts than `retry_count`. With its first message still queued, the
  beat enqueues a pending row again (`src/data/repositories/webhook_deliveries_repository.py:64`),
  and the task does not compare `attempts` with `retry_count`. With `retry_count = 0` a message
  consumed before the commit is the only one there is.
* Auto-close may close a batch whose shift was extended after its SELECT: the UPDATE is by id
  alone (`src/data/repositories/batch_repository.py:183`).
* A request may aggregate more than its limit. The limit of 100 is checked on a count taken
  before the UPDATE (`src/domain/services/batch_service.py:268-272`); with products added in
  between, more are aggregated and `already_aggregated` is negative. By how much is
  `OnlyAdditionsExceedLimit`.
* The dashboard's total of batches is not their number. The summary joins batches with
  products and counts `Batch.id` without DISTINCT
  (`src/data/repositories/analytics_repository.py:16`): `total_batches`, `active_batches` and
  `closed_batches` count a batch once per product, unlike the query per shift (line 101).
* Two transactions that need the same unknown work center both find it missing
  (`src/domain/services/batch_service.py:60`); one fails on the unique key. A request then
  ends with an error although none of its batches exists, an import skips a valid row as a
  "likely duplicate" (`src/tasks/imports.py:122`).
* `batches_closed` of today counts the batches *dated* today that are closed, whenever that
  was (line 70).
* An auto-close event may tell smaller figures than an earlier event of the same batch.
* A download that fails leaves its temporary file in the worker: `file_path` is assigned only
  when `_download_file` returns (`src/tasks/imports.py:48`, `172`).
* An import whose message could not be sent leaves its object until the cleanup.
* Batches of one POST share `created_at`, so that they may change places between two pages
  (`src/data/repositories/batch_repository.py:94`). A client that stops at `total`, or filters by
  `is_closed` while batches are closed, can miss batches.
* The pages of one walk may come from cache entries of different ages. If an import commits a
  batch (it deletes no key), the first page is read afresh with it, and the second comes from
  an entry made before, or the first comes from an older entry than the second, rows have
  moved between the pages and the walk can miss a batch that was there all the time
  (`src/domain/services/batch_service.py:239`). `WalkMissesNothing` is therefore about walks that
  are `inOrder`, which excludes the first, and about the batches the first page's entry knew,
  which excludes the second.
* No router or task calls `ProductService.aggregate_product`, so `product_aggregated` is never
  published.
* Overlapping closings publish `batch_closed` once each (`src/domain/services/batch_service.py:166`).
* A code that comes twice in one chunk of the aggregation task is counted once, so
  aggregated + failed is less than total.
* `README.md:216` lists a cached batch statistics entry; the key is deleted but never written.

## 7. Plan

1. Done: webhooks, lifecycle with the statistics of its events, creation, aggregation,
   cache, files of exports, reports and imports, dashboard and list, with the runs above.
2. Open: compose `BatchCache` and `Listing`, so that the age of a page is bounded by its time to
   live and by the commits that delete it; `Listing` allows any age.
3. Done: the abstract specifications, each implemented by the detailed one:
   `WebhookContract`, `CreationContract`, `BatchLifecycle`, `GeneratedFiles` (by `FileStorage`), and
   `Production` (by the three modules that write its tables).
4. Done: a theorem for every safety property and refinement the runs check.
5. Open in the proofs: the bounds that TLC needs (`MaxFailures`, `MaxCopies`, `MaxCommits`, `MaxVersions`) are
   constants of the theorems too, arbitrary but finite; and the ingredients of
   `EveryDeliverySettles` and `ExpiredIsClosed` are not stated as theorems, as those of `EveryJobEnds`
   are.

## 8. Not modelled

* **Routers, schemas, dependencies**: validation and wiring. What they let through is what
  the models take as input.
* **Task status** (`src/api/v1/routers/tasks.py`): reads Celery's result backend.
* **HMAC signatures, parsing, PDF and Excel layout, rates and rounding**: functions of their
  input.
* **`batch_updated` and `product_aggregated` payloads**: copies of what the transaction wrote.
* **Configuration, logging, start-up, migrations, containers**: no behaviour of their own.
