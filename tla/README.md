# A TLA+ model of cocodb

cocodb is an embedded multi-model database written in Go: one `.coco` file with
pages and two metadata slots, a write-ahead log beside it, MVCC records, B+Trees,
and on top of them key/value buckets, documents, queues, pub/sub, full-text,
vector and time-series stores. Two React applications come with it: Studio, in
which a user browses and changes data, and a dashboard. This directory models the
part the rest stands on (metadata, transactions, logging and recovery, record
versions), the task queue, and the two applications, checks them with TLC and
proves their safety with TLAPS.

`PROJECT.json` lists the components, the runs, the source lines of every
definition, the findings, the hazards and the theorems. All paths below are
relative to the repository.

## Inventory

| Part | State | Operations | Shared with |
|---|---|---|---|
| Metadata slots (`internal/storage/pager.go`, `page.go`) | two slot images, `meta`, `activeMetaSlot` | OpenPager, SaveMeta, FlushAll, Close | everybody who changes `Meta()` |
| Page cache (`shard.go`, `cache.go`) | entries, dirty flags, pins, LRU order | Get, Put, MarkDirty, Remove, evict | pager, writer, checkpoint |
| Write-ahead log (`internal/wal`) | buffer, file, `durableLSN` | Append, Flush, Sync, Truncate, ReadAll, Recover | Commit, Flush, scheduler, Open |
| Transaction manager (`internal/txn`) | `lastTxnID`, `writeLock`, `committedTxns`, reader table | Begin, Commit, Rollback, Savepoint | every store |
| Record store (`internal/record`) | version chains, directory, `activePages` | WriteRecord, ReadRecord, DeleteRecord | transactions, pager |
| Allocator and freelist (`allocator.go`, `freelist.go`) | `NextPageID`, free pages | Allocate, Free | meta page |
| B+Tree (`internal/btree`), catalog (`internal/catalog`) | pages, root; objects | Insert, Delete, cursors; PutObject | directory, queues, indexes |
| Database handle (`db.go`, `tx.go`) | trees by root, queues, child databases, pooled `Tx` | Open, Close, Update, View, Backup | all of the above |
| Scheduler, backup, check (`internal/maintenance`, `backup`, `integrity`) | none of their own | FlushAll, Truncate, file copy | log and pages, with the writer |
| Queue (`internal/queue`, `queue`) | ready heap, in-flight map, one-token channel, dedup entries, tree | Enqueue, Dequeue, Ack, Nack, Extend, worker, Close | B+Tree, dead-letter queue |
| Pub/sub (`internal/pubsub`) | topics, subscriber channels | Publish, Subscribe, Unsubscribe | - |
| Cluster (`internal/cluster`) | ring, connections, pending requests | forward, Enqueue, Dequeue, Ack | queues, topics |
| Documents and indexes (`document`, `internal/index`), key/value (`kv`), text (`internal/text`), vectors, time series | indexes over records and trees | inserts, updates, queries | record store, B+Tree |
| Studio (`studio/frontend/src`) | App's catalog and current view; the mounted view's `useState` and `useRef` values; requests in flight | polling, navigation, the handlers and effects of ten views | `studio/handlers.go`, other clients |
| Dashboard (`dashboard`) | the event stream, five histories; the last totals at the server | connect, message, error, probe; collectTelemetry | every open page |
| CSON, query executor, crypto | none | conversions | - |

What is hard about it: goroutines between the atomics and mutexes of the
transaction manager; power loss, torn writes and crashes during recovery;
checkpoints and backups that run beside the writer; page granularity of rollback
against record granularity of transactions; leases, late acknowledgements and a
lossy wake-up channel in the queue; in the applications, answers in any order,
callbacks that keep the state of the render they were made in, polls that fail,
forms that are open while the catalog changes.

What should be true of it: metadata never goes back; an acknowledged commit
survives; page ids are not reused; snapshots are stable; writers are serial and
lose no update; a queued message is in one place and leaves in the end; the log
is ahead of the pages; what the user sees and where their writes go agrees with what
is selected; an overtaken answer is never shown; nothing spins for ever.

## Modules

**MetaSlots** models `OpenPager`, `FlushAll` (as far as the slots are concerned),
`SaveMeta` and `Close`. `file` is what `ReadAt` returns and `stable` what is on the
medium; a loss of power leaves of every unsynced slot the old, the new or a torn
image. `meta.body` is the version of everything in the meta page but `Generation`;
`Change` lets the rest of the program modify it at any time, because `Meta()`
hands out a pointer. Recovery's second `SaveMeta` is a caller that continues in
state `synced`. `anchor`, `acked`, `attempts` and `created` are history: the slot
known to be on the medium, what it says, and which saves began since.

**TxnManager** models `Begin`, `Commit`, `Rollback`, `IsCommitted` and the reader
table. `pc[c]` is the place of goroutine `c`; a step ends where another goroutine
can run, so loading `lastTxnID` and registering it are two steps, and unlocking and
deregistering are two. `OldestActiveSnapshot` is the set of results the code may
return, because Go iterates a map in any order.

**RecordStore** extends it by the version chain of one record and the visibility
rule. `ReadRecord(c)` is what the code would return to `c` in the current state.
`EndTxn` is absent: `WriteRecord` sets it on a copy of the header, so every stored
header has 0. A transaction that wrote is not rolled back in this module.

**WalRecovery** models pages, log, cache, the writer, `FlushAll` by the scheduler,
by `Backup`/`Check` and by `Close`, the four phases of `Recover`, and three endings of a
process: `Close`, a kill, a loss of power (also in the middle of `Close` or `Recover`).
A loss of power keeps of the log what was synced and some of the rest, and of a page
written since the last `Sync` the old or the new image or, with `TornPages`, one whose
checksum fails. A page's content is the set of transactions with a record in it. `detached` holds the page
objects that `Rollback` took out of the cache while `Store.activePages` still points
to them. The writer is one transaction at a time (`TxnManagerProofs`), and
saving the meta page is one step (`MetaSlotsProofs`).

**QueueEngine** models a queue and its dead-letter queue. Times are kept as time
left and `Tick` lets them run down; a step is one section under `q.mu`. Consumers
may die, acknowledge late, extend, or give up on their context. `bound[m]` is the
engine the callbacks of a message lead to.

**Studio** is the application: `currentView`, the component that is mounted, and
`ErrorBoundary`. It extends **DataViews** (the three views with data) and **ToolViews**
(the others, with the server's queues and events), which extend
**StudioShell**: App's `fetchData` (`names` is what the server has, `catalog` what App
knows, `fetches` the calls that have not ended), the mounted component, `local`, and
its requests in flight, `calls`. One module per view says what `local` and `calls` are
while it is mounted: **CollectionsView**, **BucketsView** and **TimeSeriesView**;
**QueueView**, **PubSubView**, **MaintenanceView**, **PlaygroundViews** (query console,
vector and full-text playground, which share their shape) and **StudioDashboard**.
Studio joins them by mounting, navigation, and the arrival of a catalog, which is one
step with the effects it causes in the mounted view.

Browser code runs one callback at a time, so a step is an event handler up to its
await, or what follows an await, with the rendering and the effects it causes. A
call carries what its continuation reads from its closure (`name`), which is how a
reload after a save can be for a collection that is no longer selected. Fields
marked history (`failed`, `stale`, `overlap`, `of`, `unsure`) are not in the code: they
record what the properties need to name their exceptions. A name is its place in the
server's order and 0 is the empty string, because `collections[0]?.name` is
the smallest. Leaving a view drops its state and its calls.

**LatestRequest** is the promise of a view that numbers its requests: `asked` only
grows, and what is shown is the newest request there was when its answer arrived.
Studio implements it (`ShowsLatest`), with `latestRequest.current` of the collections
and the time-series view for `asked`; the other views map to 0.

**Dashboard** models `App.tsx` of the dashboard with `collectTelemetry` and
`handleStream`: a collector reads the statistics before it takes `throughputMu`, and
handlers of closed connections go on until their next tick. `ops` counts the
operations of the engine; `counted` adds up what the samples report.

An operator commented "A faulty ..." is a variant of the definition after it with
a plausible mistake. No specification uses it; put in the place of the real
definition, it makes TLC report the property that is meant to exclude the mistake.

## Runs

| Run | Shows | States |
|---|---|---|
| MetaSlots | with two callers, failing I/O and losses of power, reopening never goes behind a reported save | 118 thousand |
| TxnManager | writers are serial, the reader table is exact, `IsCommitted` neither forgets commits nor runs ahead, and a waiting writer gets the lock and ends, failures of others included | 126 thousand |
| WalRecovery | with whole page writes, acknowledged commits survive kills and losses of power, also during Recover and Close, beside the FlushAll of Backup and Check, which writes uncommitted and half-inserted pages; their pages are not allocated again | 1.4 million |
| WalAll | with the scheduler, rollbacks and torn pages, a page is written only after the log is durable up to its LSN, and a commit is lost only in the three ways named below | 2.2 million |
| RecordStore | a reader that began while no writer was at work keeps its snapshot; a writer reads the last commit and its own writes | 1.4 million |
| QueueEngine | no message is lost or doubled, deliveries are bounded and respect priority, and where consumers poll every message leaves the main engine | 145 thousand |
| QueueClosing | with deduplication, TTL, extensions and Close, the tree is exactly the unfinished work, one message passes per window, and consumers never all sleep beside a visible message | 1.4 million |
| StudioData | the overview, collections, buckets, time series and queues: rows and writes belong to what is selected but for the named exceptions, overtaken answers are not shown, typed names stay, spinners end, a task is enqueued once | 628 thousand |
| StudioTools | the overview, playgrounds, storage tools and event stream: a search uses the collection on display, the newest event and catalog come through in the end, and the boundary stands in for a view that threw | 75 thousand |
| Dashboard | one event stream at a time, five histories of the same samples, operations counted once, counters that do not go back, and a page that goes live again | 221 thousand |

Two runs end with a violation; each states what a comment or document of the
repository says, quoted in `findings`:

| Run | What happens |
|---|---|
| WalScheduler | `RunOnce` truncates log records that its `FlushAll` did not cover: a commit in between is lost by a crash |
| RecordUncommitted | a reader that begins during a write shares the writer's id and sees its versions |

`DurableUnlessExposed` names every way to lose a commit in the modelled part. `exposed`
collects the transactions to which one of three things happened:

- the scheduler truncated their log records before their pages were on the medium;
- a Rollback dropped from the cache a page with their unwritten records, or they
  inserted into such a page afterwards;
- a page with their records was torn and the log that is left has no committed image
  of it. This takes two crashes: a commit whose record is not yet synced is killed,
  `Recover` finds the record in the operating system's cache and redoes the page, and
  the power fails before that page is synced. The page is torn, the record is gone,
  and with it earlier commits in that page. `Recover` does not sync the log it reads
  (`recovery.go:17`), which `Commit` and `Flush` do.

WalRecovery has therefore whole page writes, no scheduler and no Rollback, and there
nothing is ever exposed (proved, see below).

### Bounds

- MetaSlots: `MaxGeneration` 5 and `MaxBody` 3 allow every order of two saves with a
  change between them and a retry after each kind of failure. The theorems need
  no bound.
- TxnManager: three goroutines and three ids give a writer, a waiting writer and a
  reader of an older snapshot. The theorems hold for every finite set of goroutines.
- RecordStore: two goroutines, four ids, three versions: an old reader with two
  commits behind its back, deletions included. `MaxVisited`, 1000 in the code, is above
  `MaxVersions`: a snapshot older than that many versions loses its record.
  `Failures` is off in the passing run: what a failed Commit wrote stays in the chain
  and becomes visible, as with an uncommitted version.
- WalRecovery: two pages and two transactions are a page shared by commits, a
  second page that only the log knows, and a transaction after a recovery. WalAll uses
  one page, on which everything meets, and three transactions.
- QueueEngine: two messages of different priority, two deliveries, two consumers and
  one of the dead-letter queue; one unit of lease, delay, TTL and window each, since only
  "time is left" and "time is over" are told apart.
- Studio: two names tell a selection from another; two scans and three numbered
  requests let an answer overtake and be overtaken; one write or other request beside
  them is enough for every closure that is out of date; two fetches (StudioTools) let polls
  overtake each other. The two runs divide the views, so that each of them meets
  navigation, the boundary and failing polls. The theorems need no bound.
- Dashboard: two connections beside the handlers of closed ones and of another page, and a
  history of a few samples instead of 30; samples are numbered modulo a constant
  that is larger than the history.

### Fairness

- TxnManager: every goroutine that has begun goes on (`Update` and `View` end their
  transactions on every path), and strong fairness of the lock stands for
  `sync.Mutex`'s starvation mode.
- QueueEngine: the clock runs, the worker's ticker fires, and a goroutine in
  `Dequeue` that can go on does so. `PollingSpec`, for `MessagesLeave` only, adds
  consumers that call `Dequeue` repeatedly with contexts that end.
- Studio: the intervals fire (`setInterval` is cleared only when the view is left),
  and of the requests in flight, each of which may fail, not every one does: weak
  fairness of Poll and LoadHistory, strong fairness of a good answer. Nothing is
  assumed of the user or of other clients.
- Dashboard: timers fire and the browser reports a stream as open or broken; `Reconnects`
  is about behaviours in which connections are lost only finitely often.

Deadlock checking is on in every run: WalRecovery, MetaSlots and QueueEngine always
have an environment step, in TxnManager readers come and go for ever, Studio polls and
the dashboard reconnects.

## Proofs

`MetaSlotsProofs` proves, for every set of callers, that `IInv` is inductive and that
it implies `PowerLossRecovers` and `OpenNeverGoesBack`. The properties themselves are
not inductive: they say nothing of the slot about to be overwritten. `IInv` names
an anchor, a slot equal in file and medium, and says that any image that beats it is
of a save begun later (`AnchorHolds`); that the open pager works from the slot a
reopening would choose until the first Sync makes it the anchor (`PagerHolds`);
and that a caller past FlushAll's Sync writes to the slot that is not the anchor
(`SavingHolds`). The argument shows what the code relies on: `OpenPager` syncs nothing,
so `SaveMeta` is safe because every caller comes from `FlushAll`, which syncs first.

`TxnManagerProofs` proves `IInv` for every finite set of goroutines: the holder of
`writeLock` is the one between Lock and Unlock (`LockHolds`), ids are handed out,
decided and published in order (`OrderHolds`), and the reader table counts exactly
the open transactions. `CommittedStaysCommitted`, `NoEarlyCommit`, `WriterIsNewest` and
`ReaderTableExact` follow. That pruning forgets no commit does not depend on
which snapshot `OldestActiveSnapshot` returns: every committed id is at most `Meta().LastTxnID`.

Its second half is about RecordStore. `Chained` (every version links to the one
before and ids grow along the chain) holds whatever fails. `SnapshotInv` adds that the chain
is a committed part followed by versions of the one writer at work (`Boundary`), that the
last commit is the end of the first part (`LatestHolds`), and that the versions in the
snapshot of a reader that met no writer are a prefix that ends with what it is expected
to read (`ReadersHold`). The walk of `ReadRecord` is followed by a least element: of the
steps at which it stands behind the slot it looks for, the first one is impossible. `StableSnapshot` and `WriterReadsLatest`
assume `~Failures`, because a Commit that fails leaves its versions on the chain, where no
boundary describes them; `StableSnapshot` also assumes `MaxVersions <= MaxVisited`, because
`ReadRecord` gives up after that many versions.

`WalInvariant` and `WalRecoveryProofs` prove the invariant of WalRecovery for any number
of pages and transactions and every choice of `Maintenance`, `Rollbacks` and `TornPages`.
`DurableUnlessExposed` speaks of what a running database reads; `IInv` says what makes it so
at every other moment. `Recoverable`: with every log and every image a loss of power may leave,
the redo would bring back what is committed (`Holders`), and the page is below the saved
`NextPageID` or in the log. `Present`: from the redo on it is in the cache or the file, and on the
medium before `Recover` truncates. `WriterOK`: whatever the transaction at work inserted and nothing exposed is
in a cached page that `dirtyPages` points to. `OwnLogOK`: each of its records in the log is an image
with all that is committed in that page, and what it has logged is still there, unless a
checkpoint has put the page on the medium (`Settled`). `JobOK`: after the Sync of
a checkpoint the file is on the medium. The main lemmas say what the redo of a log makes of a
page: an image of the last committed transaction that logged it (`RedoneImage`), whose
record no prefix that keeps the commit record loses. It follows that `PageLsnDurable` and
`DurableUnlessExposed` hold in general, and `Durable` and `NoPageReuse` where nothing is exposed:
`~TornPages`, no scheduler, `~Rollbacks` (`Unexposed` is inductive then).

`QueueEngineProofs` proves, for every number of messages, consumers, deliveries and every lease,
delay and window, that each message is in one place with the delivery count and the tree image that fit it
(`Placed`), that the deduplicator's entry lasts exactly as long as the window of the
message that set it (`WindowOpen`), that nothing in a heap is invisible when there are no
delays (`VisibleAtOnce`), and that wakeups are kept. `ExactlyOnePlace`, `AttemptsBounded`,
`TreeFollowsQueue`, `OnePerWindow` and `NoLostWakeup` follow, and from the same
invariant `PriorityRespected`, a property of steps. The count has to be tied to the place: that deliveries are bounded depends on
messages with `MaxRetries` deliveries never going back to the main heap.

`DashboardProofs` proves `OneStream`, `HistoriesAligned`, `CountedOnce` and `NeverGoesBack`
for any number of connections, restarts and operations and any length of a history.
`NeverGoesBack` compares what is shown with the next message, so the invariant follows
a sample on its way: what a collector has read and what is on a wire is not ahead of the
engine (`NotAhead`), a handler collects only when its last sample is gone (`WirePaced`),
and nothing on the page's own connection is behind the display (`NotBehind`).
`CountedOnce` needs that without overlap a single collector is between `Stats` and its
lock, and has read no less than the last rate was computed from (`OneReads`).

`StudioProofs` proves, for any number of names, requests, scans and writes, that
`SInv` is inductive and implies `RowsBelong`, `WritesGoHome`, `EnqueuedOnce` and
`SearchUsesDisplayed`, and derives from it and the shape of a step that only typing replaces a
name in the series field (`TypedIsKept`) and that Studio implements LatestRequest
(`ShowsLatest`). `RowsBelong` alone is not inductive: it says nothing of the answer
about to arrive. The views' invariants do: the newest query is of the selected
collection or series unless it is stale (`CRows`, `TRows`); all scans in flight are of the
selected bucket unless they overlap (`BRows`); an open form is about what is selected
unless it is in doubt (`CBase`, `BBase`). `ViewProofs` shows, view by view, that mounting,
catalogs, user and answers preserve them. The argument is
one lemma per function that loads (`LoadDocumentsRows`, `LoadEntriesRows`,
`LoadPointsRows`): a load establishes the part about rows from
nothing, so that it only has to be preserved where nothing is loaded. A step of Studio
then either lets the mounted component go on (`GoesOn`: it asks, or shows its newest
answer) or begins another one (`Begins`), which are the steps of LatestRequest.

`SpinnersExact` is proved in the same modules, with an invariant per view: a flag says that the request
which resets it is in flight, and that request is unique where the flag is reset by whichever answer
comes first (`Exact` for the numbered requests, `BLoads`, and `OFlag`, `QFlag`, `EFlag`,
`PFlag`, `MFlag` of the tool views). Without the uniqueness an answer could clear the
flag under another request's feet. `SFlag` joins them with the fetches of the shell.

Assumptions are those named in the modules (`BoundsAssumption`, `TxnAssumption`,
`StoreAssumption`, `WalAssumption`, `QueueAssumption`, `ShellAssumption`, `StudioAssumption`,
`DashboardAssumption`): bounds are natural numbers, `Client` is finite. Where a proof descends along a chain, a log or a sequence, it
takes the least element of a set of natural numbers (`WFMin` of
WellFoundedInduction), since the induction theorems that take a predicate are out of the provers' reach.

Model-checked only are the liveness properties (`WriterEnds`, `MessagesLeave`,
`PublishedIsShown`, `CatalogFollows`, `Reconnects`), which the provers do not support, and the types of
Studio's `local` and `calls` (`TypeOK`), a union of records of ten views; its part that
matters, that the mounted component is the selected one or the boundary's message, belongs to `SInv`.

## What is left out of the modelled parts

- `SyncOff`, which gives no durability by its own documentation; the log's `TxnBegin`
  and `TxnAbort` records, which recovery ignores; LSNs themselves, kept as "durable
  or not"; write errors that `Recover` skips during the redo.
- Log corruption other than a lost tail. `ReadAll` stops at the first record that does
  not check, so a torn last record is a lost one.
- Interleavings inside `Flush` of one page: the flusher does not hold the page while it
  writes, so a concurrent insert may have its dirty flag cleared; a flush of a page is one step.
- Eviction: the cache evicts only clean pages, which are read again.
- B+Tree and catalog pages, which no log record covers; `Durable` is about record pages.
- Savepoints, overflow chains, multi-process writers.
- `restoreFromTree` of a queue, and the order of two visible messages of one priority.
- Studio: what documents, entries, points and tasks contain, hence filters (Clear reloads
  with the old filter), times and limits; messages and their wording (the storage tools
  say that a checkpoint truncates the log, while `handleCheckpoint` of
  `studio/handlers.go` runs an empty transaction); statistics, theme and layout.
- Dashboard: gauges other than the operations' rate, the tabs, the copy buttons, and
  the drawing of the histories (`Sparkline.tsx`).

## Plan

1. Object registry: trees by root page, catalog roots, `Queue`, Close and Open with
   `restoreFromTree`. Recovered visibility: RecordStore after a crash, with
   `LastTxnID` as Recover leaves it. Pooled `Tx` handles and child transactions, one of which fails.
   Savepoints.
2. Pub/sub broker; multi-process file lock, with a process that dies holding it; cluster
   protocol and ring, with answers that are lost.
3. Allocator and freelist, page cache with pins and eviction, slotted pages, B+Tree and
   cursors, each against a map or set as its abstract specification.
4. Documents with secondary indexes, key/value operations, inverted index, time
   series aggregation.
5. Refinement: WalRecovery (without the scheduler's truncation) and RecordStore to an
   abstract store of committed records; QueueEngine to a bag of messages.
6. Proofs: the types of Studio; the refinements of 5.

Floating-point vector search, encodings and encryption stay outside: no state that
these tools can say something about.
