----------------------------- MODULE WalRecovery -----------------------------
(***************************************************************************)
(* Write-ahead logging, checkpoints and crash recovery of record pages:    *)
(* Commit and Rollback (internal/txn/manager.go), the log                  *)
(* (internal/wal/wal.go, recovery.go), the page cache as the pager uses it *)
(* (internal/storage/pager.go, shard.go), the scheduler's checkpoint       *)
(* (internal/maintenance/scheduler.go), the record store's choice of pages *)
(* (internal/record/version.go), and Open and Close of db.go.              *)
(*                                                                         *)
(* The content of a page is the set of transactions whose records are in   *)
(* it.  There is one writer at a time (TxnManager), and a saved meta page  *)
(* is replaced atomically (MetaSlots).  As in MetaSlots, osPage and wal    *)
(* are what the program reads back and medPage and medWal what is on the   *)
(* medium.                                                                 *)
(***************************************************************************)
EXTENDS Integers, Sequences, FiniteSets, FiniteSetsExt

CONSTANTS
  MaxPage,       \* bound on page ids, for TLC
  MaxTxn,        \* bound on the number of transactions, for TLC
  Maintenance,   \* who calls FlushAll while the database runs
  Rollbacks,     \* whether transactions are ever rolled back
  TornPages      \* whether a page write can be torn

ASSUME WalAssumption ==
  /\ MaxPage \in Nat
  /\ MaxTxn \in Nat
  /\ Maintenance \subseteq {"scheduler", "backup"}
  /\ Rollbacks \in BOOLEAN
  /\ TornPages \in BOOLEAN

VARIABLES
  phase,      \* Open's progress, and running
  osPage,     \* page -> image, as ReadAt returns it
  medPage,    \* page -> image, on the medium
  unsynced,   \* the pages written since the file was last synced
  wal,        \* the log, as ReadAll returns it
  medWal,     \* the log, on the medium
  nextPage,   \* Meta().NextPageID
  savedNext,  \* NextPageID in the saved meta page
  cache,      \* page -> cache entry
  active,     \* Store.activePages, as page ids
  detached,   \* page -> content of an object that left the cache but not activePages
  tx,         \* the writer's transaction
  job,        \* the FlushAll in progress
  last,       \* history: the number of transactions begun
  wrote,      \* history: acknowledged transaction -> pages it inserted into
  acked,      \* history: transactions whose Commit returned nil
  exposed     \* history: transactions that may have been undone, by a checkpoint,
              \* by a rollback or by a torn page

store == <<active, detached>>
file == <<osPage, medPage, unsynced>>
log == <<wal, medWal>>
history == <<last, wrote, acked, exposed>>
vars == <<phase, file, log, nextPage, savedNext, cache, store, tx, job, history>>

Page == 1..MaxPage
Txn == 1..MaxTxn
NoTxn == 0

\* An image past the end of the file and a torn one are the same to pager.Get.
Image == [kind: {"unreadable", "data"}, by: SUBSET Txn]
Unreadable == [kind |-> "unreadable", by |-> {}]
Data(by) == [kind |-> "data", by |-> by]

\* A cache entry: whether there is one, its page's content, page.Dirty, the
\* entry's own Dirty (which nothing clears), and PageLSN <= DurableLSN.
Entry == [in: BOOLEAN, by: SUBSET Txn, dirty: BOOLEAN, marked: BOOLEAN, synced: BOOLEAN]
NoEntry == [in |-> FALSE, by |-> {}, dirty |-> FALSE, marked |-> FALSE, synced |-> TRUE]
Loaded(by) == [in |-> TRUE, by |-> by, dirty |-> FALSE, marked |-> FALSE, synced |-> TRUE]

Redirtied(by) == [in |-> TRUE, by |-> by, dirty |-> TRUE, marked |-> TRUE, synced |-> TRUE]

Record == [type: {"update", "commit"}, txn: Txn, page: Page \cup {0}, by: SUBSET Txn]

\* tx.dirtyPages maps a page id to the object in the cache or to a detached one;
\* wrote is the history variable of the transaction at work.
Pointer == {"none", "cached", "detached"}
NoPages == [p \in Page |-> "none"]
NoTx == [id |-> NoTxn, stage |-> "none", dirty |-> NoPages, todo |-> {}, wrote |-> {}]
Idle == [who |-> "none", stage |-> "idle", left |-> {}]

TypeOK ==
  /\ phase \in {"closed", "redo", "flush", "save", "truncate", "running", "closing"}
  /\ osPage \in [Page -> Image]
  /\ medPage \in [Page -> Image]
  /\ unsynced \in SUBSET Page
  /\ wal \in Seq(Record)
  /\ medWal \in Seq(Record)
  /\ nextPage \in 1..(MaxPage + 1)
  /\ savedNext \in 1..(MaxPage + 1)
  /\ cache \in [Page -> Entry]
  /\ active \in SUBSET Page
  /\ detached \in [Page -> [in: BOOLEAN, by: SUBSET Txn]]
  /\ tx \in [id: Txn \cup {NoTxn}, stage: {"none", "writing", "logging", "committed"},
             dirty: [Page -> Pointer], todo: SUBSET Page, wrote: SUBSET Page]
  /\ job \in [who: {"none", "close"} \cup Maintenance,
              stage: {"idle", "flush", "save", "truncate", "close"}, left: SUBSET Page]
  /\ last \in 0..MaxTxn
  /\ wrote \in [Txn -> SUBSET Page]
  /\ acked \in SUBSET Txn
  /\ exposed \in SUBSET Txn

NotInCache == [p \in Page |-> NoEntry]
NoObject == [p \in Page |-> [in |-> FALSE, by |-> {}]]

Init ==
  /\ phase = "closed"
  /\ osPage = [p \in Page |-> Unreadable]
  /\ medPage = [p \in Page |-> Unreadable]
  /\ unsynced = {}
  /\ wal = <<>>
  /\ medWal = <<>>
  /\ nextPage = 1
  /\ savedNext = 1
  /\ cache = NotInCache
  /\ active = {}
  /\ detached = NoObject
  /\ tx = NoTx
  /\ job = Idle
  /\ last = 0
  /\ wrote = [t \in Txn |-> {}]
  /\ acked = {}
  /\ exposed = {}

-----------------------------------------------------------------------------
(* Primitives of the pager, the cache and the log *)

\* WAL.Sync, and WAL.Flush beyond durableLSN: every page's record is durable.
AllSynced(c) == [p \in Page |-> [c[p] EXCEPT !.synced = TRUE]]

\* pager.Get finds the page in the cache, or reads an image that validates.
Readable(p) == cache[p].in \/ osPage[p].kind = "data"

\* What pager.Get returns.
Content(p) == IF cache[p].in THEN cache[p].by ELSE osPage[p].by

\* The cache after pager.Get(p).
Got(p) == IF cache[p].in THEN cache ELSE [cache EXCEPT ![p] = Loaded(osPage[p].by)]

\* The content behind a pointer of tx.dirtyPages.
Behind(p) == IF tx.dirty[p] = "cached" THEN cache[p].by ELSE detached[p].by

\* The writer may be changing the bytes of page p: it inserts into it, or Commit
\* seals it.
Changing(p) ==
  /\ tx.dirty[p] = "cached"
  /\ \/ tx.stage = "writing" /\ p \in tx.wrote
     \/ tx.stage = "logging" /\ p \in tx.todo

\* What WriteAt of page p may leave for ReadAt.  The writer does not hold p.mu,
\* so the image may be inconsistent with its checksum.
Written(p) ==
  {Data(cache[p].by)} \cup (IF TornPages /\ Changing(p) THEN {Unreadable} ELSE {})

Prefixes(w) == {SubSeq(w, 1, n) : n \in 0..Len(w)}

\* What a loss of power may leave of the log w of which m is on the medium: a
\* prefix of what was appended since the last Sync, or the log from before an
\* unsynced truncation.
LogsAfterPowerLoss(w, m) ==
  IF m \in Prefixes(w) THEN {v \in Prefixes(w) : Len(v) >= Len(m)} ELSE Prefixes(w) \cup {m}

-----------------------------------------------------------------------------
(* Open: the pager, the log, Recover *)

Committed(recs) == {recs[i].txn : i \in {j \in DOMAIN recs : recs[j].type = "commit"}}

\* The positions of the updates of page p that Recover redoes, in log order.
Redone(recs, p) ==
  {i \in DOMAIN recs : /\ recs[i].type = "update"
                       /\ recs[i].page = p
                       /\ recs[i].txn \in Committed(recs)}

\* A faulty RedoneImage: the first image wins.
RedoneFirstImage(recs, p) == recs[Min(Redone(recs, p))].by

\* The image Recover leaves of such a page: the last one wins.
RedoneImage(recs, p) == recs[Max(Redone(recs, p))].by

RedonePages(recs) == {p \in Page : Redone(recs, p) # {}}

\* A faulty NextAfterRedo: NextPageID is not moved.
NextNotMoved(recs, n) == n

\* A faulty NextAfterRedo: NextPageID is one too high.
NextSkipped(recs, n) == Max({n} \cup {p + 2 : p \in RedonePages(recs)})

\* Where the redo leaves the meta page's NextPageID, which was n.
NextAfterRedo(recs, n) == Max({n} \cup {p + 1 : p \in RedonePages(recs)})

Open ==
  /\ phase = "closed"
  /\ nextPage' = savedNext
  /\ phase' = IF wal = <<>> THEN "running" ELSE "redo"
  /\ UNCHANGED <<file, log, savedNext, cache, store, tx, job, history>>

\* Phases 1 and 2: every update goes to the file, and its page to the cache.
RecoverRedo ==
  /\ phase = "redo"
  /\ nextPage' = NextAfterRedo(wal, nextPage)
  /\ osPage' = [p \in Page |-> IF p \in RedonePages(wal)
                                 THEN Data(RedoneImage(wal, p)) ELSE osPage[p]]
  /\ cache' = [p \in Page |-> IF p \in RedonePages(wal)
                                 THEN Redirtied(RedoneImage(wal, p)) ELSE cache[p]]
  /\ unsynced' = unsynced \cup RedonePages(wal)
  /\ phase' = "flush"
  /\ UNCHANGED <<medPage, log, savedNext, store, tx, job, history>>

\* Phase 3: FlushAll up to its Sync (the pages are in the file already), then
\* the meta page, twice, then the log, whose truncation is not synced.
RecoverFlush ==
  /\ phase = "flush"
  /\ medPage' = osPage
  /\ unsynced' = {}
  /\ cache' = [p \in Page |-> [cache[p] EXCEPT !.dirty = FALSE]]
  /\ phase' = "save"
  /\ UNCHANGED <<osPage, log, nextPage, savedNext, store, tx, job, history>>

RecoverSave ==
  /\ phase = "save"
  /\ savedNext' = nextPage
  /\ phase' = "truncate"
  /\ UNCHANGED <<file, log, nextPage, cache, store, tx, job, history>>

RecoverTruncate ==
  /\ phase = "truncate"
  /\ wal' = <<>>
  /\ phase' = "running"
  /\ UNCHANGED <<file, medWal, nextPage, savedNext, cache, store, tx, job, history>>
-----------------------------------------------------------------------------
(* The writer *)

Begin ==
  /\ phase = "running"
  /\ tx = NoTx
  /\ last < MaxTxn
  /\ last' = last + 1
  /\ tx' = [NoTx EXCEPT !.id = last + 1, !.stage = "writing"]
  /\ UNCHANGED <<phase, file, log, nextPage, savedNext, cache, store, job, wrote, acked, exposed>>

\* Allocator.Allocate when p is the next page id, else the page as it is cached.
WithPage(c, p) == IF p \in active THEN c ELSE [c EXCEPT ![p] = Redirtied({})]

\* WriteRecord.  An update (old # 0) tracks the page of the old version, which
\* it does not change; a page that cannot be read is passed over.  The new
\* version goes to an active page or to a new one, and a page that is full
\* leaves activePages.
WriteRecord(old, p, full) ==
  /\ tx.stage = "writing"
  /\ old < nextPage
  /\ p \in active \/ p = nextPage
  /\ LET c1 == IF old # 0 /\ Readable(old) THEN Got(old) ELSE cache
         c2 == WithPage(c1, p)
         d1 == IF old # 0 /\ Readable(old) THEN [tx.dirty EXCEPT ![old] = "cached"]
                                           ELSE tx.dirty
         gone == p \in active /\ detached[p].in
     IN /\ cache' = IF gone THEN c2
                    ELSE [c2 EXCEPT ![p].by = @ \cup {tx.id}, ![p].dirty = TRUE]
        /\ detached' = IF gone THEN [detached EXCEPT ![p].by = @ \cup {tx.id}]
                       ELSE detached
        /\ tx' = [tx EXCEPT !.dirty = [d1 EXCEPT ![p] = IF gone THEN "detached" ELSE "cached"],
                             !.wrote = @ \cup {p}]
        /\ exposed' = IF gone THEN exposed \cup {tx.id} ELSE exposed
  /\ nextPage' = IF p \in active THEN nextPage ELSE nextPage + 1
  /\ active' = IF full THEN active \ {p} ELSE active \cup {p}
  /\ UNCHANGED <<phase, file, log, savedNext, job, last, wrote, acked>>

\* ReadRecord of any transaction: pager.Get.
ReadRecord(p) ==
  /\ phase = "running"
  /\ p < nextPage
  /\ Readable(p)
  /\ ~cache[p].in
  /\ cache' = Got(p)
  /\ UNCHANGED <<phase, file, log, nextPage, savedNext, store, tx, job, history>>

\* Commit: one PageUpdate record for each tracked page, in any order, and
\* MarkDirty, which marks whatever object the cache holds for the page.
CommitBegin ==
  /\ tx.stage = "writing"
  /\ tx' = [tx EXCEPT !.stage = "logging", !.todo = {p \in Page : tx.dirty[p] # "none"}]
  /\ UNCHANGED <<phase, file, log, nextPage, savedNext, cache, store, job, history>>

CommitUpdate(p) ==
  /\ tx.stage = "logging"
  /\ p \in tx.todo
  /\ wal' = Append(wal, [type |-> "update", txn |-> tx.id, page |-> p, by |-> Behind(p)])
  /\ cache' = IF cache[p].in
                THEN [cache EXCEPT ![p].dirty = TRUE, ![p].marked = TRUE, ![p].synced = FALSE]
                ELSE cache
  /\ tx' = [tx EXCEPT !.todo = @ \ {p}]
  /\ UNCHANGED <<phase, file, medWal, nextPage, savedNext, store, job, history>>

CommitRecord ==
  /\ tx.stage = "logging"
  /\ tx.todo = {}
  /\ wal' = Append(wal, [type |-> "commit", txn |-> tx.id, page |-> 0, by |-> {}])
  /\ tx' = [tx EXCEPT !.stage = "committed"]
  /\ UNCHANGED <<phase, file, medWal, nextPage, savedNext, cache, store, job, history>>

\* A faulty CommitSync: the log is not synced.
CommitWithoutSync ==
  /\ tx.stage = "committed"
  /\ acked' = acked \cup {tx.id}
  /\ wrote' = [wrote EXCEPT ![tx.id] = tx.wrote]
  /\ tx' = NoTx
  /\ UNCHANGED <<phase, file, log, nextPage, savedNext, cache, store, job, last, exposed>>

\* SyncFull and SyncNormal: the log is synced before Commit returns.
CommitSync ==
  /\ tx.stage = "committed"
  /\ medWal' = wal
  /\ cache' = AllSynced(cache)
  /\ acked' = acked \cup {tx.id}
  /\ wrote' = [wrote EXCEPT ![tx.id] = tx.wrote]
  /\ tx' = NoTx
  /\ UNCHANGED <<phase, file, wal, nextPage, savedNext, store, job, last, exposed>>

\* An append or the sync fails: Commit returns the error and the pages stay.
CommitFails ==
  /\ tx.stage \in {"logging", "committed"}
  /\ tx' = NoTx
  /\ UNCHANGED <<phase, file, log, nextPage, savedNext, cache, store, job, history>>

\* The transactions of S with a record that is not in the images f.
Missing(S, f) ==
  {t \in S : \E p \in (IF t = tx.id THEN tx.wrote ELSE wrote[t]) : t \notin f[p].by}

\* Rollback: the tracked pages leave the cache; activePages keeps their objects.
Rollback ==
  /\ Rollbacks
  /\ tx.stage = "writing"
  /\ LET tracked == {p \in Page : tx.dirty[p] # "none"}
     IN /\ cache' = [p \in Page |-> IF p \in tracked THEN NoEntry ELSE cache[p]]
        /\ detached' = [p \in Page |->
             IF p \in tracked \cap active /\ ~detached[p].in
               THEN [in |-> TRUE, by |-> cache[p].by] ELSE detached[p]]
        /\ exposed' = exposed \cup
             {t \in Missing(acked, osPage) : wrote[t] \cap tracked # {}}
  /\ tx' = NoTx
  /\ UNCHANGED <<phase, file, log, nextPage, savedNext, active, job, last, wrote, acked>>
-----------------------------------------------------------------------------
(* FlushAll: the scheduler's RunOnce, Backup and Check, and Close *)

\* GetDirtyEntries
DirtyPages == {p \in Page : cache[p].in /\ (cache[p].dirty \/ cache[p].marked)}

FlushAll(who) ==
  /\ phase = "running"
  /\ job = Idle
  /\ job' = [who |-> who, stage |-> "flush", left |-> DirtyPages]
  /\ UNCHANGED <<phase, file, log, nextPage, savedNext, cache, store, tx, history>>

\* A faulty Flush: the log is not made durable up to the page's LSN.
FlushUnlogged(p) ==
  /\ job.stage = "flush"
  /\ p \in job.left
  /\ job' = [job EXCEPT !.left = @ \ {p}]
  /\ IF cache[p].in /\ cache[p].dirty
       THEN /\ osPage' = [osPage EXCEPT ![p] = Data(cache[p].by)]
            /\ unsynced' = unsynced \cup {p}
            /\ cache' = [cache EXCEPT ![p].dirty = FALSE]
       ELSE UNCHANGED <<osPage, unsynced, cache>>
  /\ UNCHANGED <<phase, medPage, log, nextPage, savedNext, store, tx, history>>

\* The acknowledged transactions with a record in page p, of which one of the
\* logs has no committed image.
Unlogged(p, logs) ==
  {t \in acked : p \in wrote[t] /\ \E w \in logs : Redone(w, p) = {}}

\* Pager.Flush: a dirty page is written once the log is durable up to its LSN.
Flush(p) ==
  /\ job.stage = "flush"
  /\ p \in job.left
  /\ job' = [job EXCEPT !.left = @ \ {p}]
  /\ IF cache[p].in /\ cache[p].dirty
       THEN /\ medWal' = IF cache[p].synced THEN medWal ELSE wal
            /\ LET c == IF cache[p].synced THEN cache ELSE AllSynced(cache)
               IN cache' = [c EXCEPT ![p].dirty = FALSE]
            /\ unsynced' = unsynced \cup {p}
            /\ \E img \in Written(p) :
                 /\ osPage' = [osPage EXCEPT ![p] = img]
                 /\ exposed' = IF img = Unreadable
                                 THEN exposed \cup Unlogged(p, LogsAfterPowerLoss(wal, medWal'))
                                 ELSE exposed
       ELSE UNCHANGED <<osPage, unsynced, cache, medWal, exposed>>
  /\ UNCHANGED <<phase, medPage, wal, nextPage, savedNext, store, tx, last, wrote, acked>>

FlushAllSync ==
  /\ job.stage = "flush"
  /\ job.left = {}
  /\ medPage' = osPage
  /\ unsynced' = {}
  /\ job' = [job EXCEPT !.stage = "save"]
  /\ UNCHANGED <<phase, osPage, log, nextPage, savedNext, cache, store, tx, history>>

FlushAllSave ==
  /\ job.stage = "save"
  /\ savedNext' = nextPage
  /\ job' = CASE job.who = "scheduler" -> [job EXCEPT !.stage = "truncate"]
              [] job.who = "close" -> [job EXCEPT !.stage = "close"]
              [] OTHER -> Idle
  /\ UNCHANGED <<phase, file, log, nextPage, cache, store, tx, history>>

Committing == IF tx.stage \in {"logging", "committed"} THEN {tx.id} ELSE {}

\* RunOnce truncates the log after its FlushAll, and does not sync the log.
RunOnceTruncate ==
  /\ job.stage = "truncate"
  /\ wal' = <<>>
  /\ job' = Idle
  /\ exposed' = exposed \cup Missing(acked \cup Committing, medPage)
  /\ UNCHANGED <<phase, file, medWal, nextPage, savedNext, cache, store, tx, last, wrote, acked>>

-----------------------------------------------------------------------------
(* The end of a process *)

Volatile ==
  /\ phase' = "closed"
  /\ nextPage' = savedNext
  /\ cache' = NotInCache
  /\ active' = {}
  /\ detached' = NoObject
  /\ tx' = NoTx
  /\ job' = Idle

\* DB.Close stops the scheduler and calls FlushAll; no transaction is open.
CloseBegin ==
  /\ phase = "running"
  /\ tx = NoTx
  /\ job = Idle
  /\ phase' = "closing"
  /\ job' = [who |-> "close", stage |-> "flush", left |-> DirtyPages]
  /\ UNCHANGED <<file, log, nextPage, savedNext, cache, store, tx, history>>

\* The end of DB.Close: the log is synced, and not truncated.
CloseEnd ==
  /\ job.stage = "close"
  /\ medWal' = wal
  /\ UNCHANGED <<file, wal, savedNext, history>>
  /\ Volatile

\* The process dies; the operating system keeps what was written.
Kill ==
  /\ phase # "closed"
  /\ UNCHANGED <<file, log, savedNext, history>>
  /\ Volatile

ImagesAfterPowerLoss(p) ==
  {osPage[p], medPage[p]} \cup (IF TornPages /\ p \in unsynced THEN {Unreadable} ELSE {})

\* Power fails.  The processes are gone (Kill, at any point), and of what they
\* wrote the medium keeps what was synced and some of the rest.
PowerLoss ==
  /\ phase = "closed"
  /\ \E w \in LogsAfterPowerLoss(wal, medWal),
        f \in [Page -> UNION {ImagesAfterPowerLoss(p) : p \in Page}] :
       /\ \A p \in Page : f[p] \in ImagesAfterPowerLoss(p)
       /\ wal' = w /\ medWal' = w
       /\ osPage' = f /\ medPage' = f /\ unsynced' = {}
       /\ exposed' = exposed \cup
            UNION {Unlogged(p, {w}) : p \in {q \in Page : f[q] \notin {osPage[q], medPage[q]}}}
  /\ UNCHANGED <<phase, nextPage, savedNext, cache, store, tx, job, last, wrote, acked>>

Recover == RecoverRedo \/ RecoverFlush \/ RecoverSave \/ RecoverTruncate

Writer ==
  \/ Begin
  \/ \E old \in {0} \cup Page, p \in Page, full \in BOOLEAN : WriteRecord(old, p, full)
  \/ CommitBegin \/ (\E p \in Page : CommitUpdate(p)) \/ CommitRecord
  \/ CommitSync \/ CommitFails
  \/ Rollback

Maintain ==
  \/ \E who \in Maintenance : FlushAll(who)
  \/ \E p \in Page : Flush(p)
  \/ FlushAllSync \/ FlushAllSave \/ RunOnceTruncate

Next ==
  \/ Open \/ Recover
  \/ Writer
  \/ \E p \in Page : ReadRecord(p)
  \/ Maintain
  \/ CloseBegin \/ CloseEnd
  \/ Kill \/ PowerLoss

Spec == Init /\ [][Next]_vars

-----------------------------------------------------------------------------
(* Properties *)

\* README: "ACID transactions with crash recovery".  Whenever the database is
\* open, what a Commit that returned nil wrote is in its pages, however many
\* crashes, also during recovery, have happened since.
Durable ==
  phase = "running" =>
    \A t \in acked : \A p \in wrote[t] : Readable(p) /\ t \in Content(p)

\* The three ways to lose a commit are the only ones: a transaction stays unless
\* a checkpoint truncated its log records before its pages were on the medium, a
\* Rollback took a page with its records out of the cache before they were
\* written (or it inserted into such a page), or a page with its records was torn
\* while the log that is left has no committed image of the page.  Checkpoints,
\* rollbacks and torn pages that meet no such page are safe.
DurableUnlessExposed ==
  phase = "running" =>
    \A t \in acked \ exposed : \A p \in wrote[t] : Readable(p) /\ t \in Content(p)

\* The page ids Recover and the saved meta page give out are new ones: a page
\* that holds a committed record is never allocated a second time.
NoPageReuse ==
  phase = "running" => \A t \in acked : \A p \in wrote[t] : p < nextPage

\* handoff.md: "DurableWAL >= PageLSN".  A page whose last PageUpdate record is
\* not yet durable has not been written to the file since it was logged.
PageLsnDurable == \A p \in Page : cache[p].in /\ ~cache[p].synced => cache[p].dirty
=============================================================================
