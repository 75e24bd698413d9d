------------------------------ MODULE TxnManager ------------------------------
(***************************************************************************)
(* The transaction manager: internal/txn/manager.go with its reader table, *)
(* internal/txn/reader_table.go.  Goroutines begin, commit and roll back   *)
(* transactions; a step is what one goroutine does between two points      *)
(* where another one can run (an atomic operation, a mutex).  What a       *)
(* transaction does to pages is left out here.                             *)
(***************************************************************************)
EXTENDS Integers, FiniteSets, FiniteSetsExt

CONSTANTS Client,     \* goroutines
          NoClient,   \* not a goroutine: writeLock is free
          StartTxn,   \* Meta().LastTxnID when the database was opened
          MaxTxn      \* bound on transaction ids, for TLC

ASSUME TxnAssumption ==
  /\ IsFiniteSet(Client)
  /\ NoClient \notin Client
  /\ StartTxn \in Nat
  /\ MaxTxn \in Nat
  /\ StartTxn <= MaxTxn

VARIABLES
  lastTxnID,       \* tm.lastTxnID, an atomic
  writeLock,       \* the goroutine that holds tm.writeLock, or NoClient
  metaLastTxnID,   \* tm.pager.Meta().LastTxnID
  committedTxns,   \* tm.committedTxns
  readers,         \* readerTable.readers; a key that is not in the map counts 0
  pc,              \* where each goroutine is
  snapshotTxn,     \* tx.snapshotTxn of each goroutine's transaction
  txnID,           \* tx.txnID of each goroutine's transaction
  committed,       \* history: ids whose Commit reached its last section
  abandoned        \* history: ids rolled back, or whose Commit returned an error

manager == <<lastTxnID, writeLock, metaLastTxnID, committedTxns, readers>>
history == <<committed, abandoned>>
vars == <<manager, pc, snapshotTxn, txnID, history>>

TxnId == 0..MaxTxn

\* Where a writer is in Begin, Commit or Rollback.  `ending' is the deferred
\* function of Commit and Rollback, which unlocks first and deregisters second.
WriterHolding == {"locked", "numbered", "writing", "logged", "synced", "ending"}
WriterUndecided == {"numbered", "writing", "logged", "synced"}
Registered == {"reading", "writing", "logged", "synced", "ending", "unlocked"}

TypeOK ==
  /\ lastTxnID \in TxnId
  /\ writeLock \in Client \cup {NoClient}
  /\ metaLastTxnID \in TxnId
  /\ committedTxns \in SUBSET TxnId
  /\ readers \in [TxnId -> Nat]
  /\ pc \in [Client -> {"idle", "loaded", "reading", "waiting", "unlocked"}
                         \cup WriterHolding]
  /\ snapshotTxn \in [Client -> TxnId]
  /\ txnID \in [Client -> TxnId]
  /\ committed \in SUBSET TxnId
  /\ abandoned \in SUBSET TxnId

\* NewTxnManager
Init ==
  /\ lastTxnID = StartTxn
  /\ writeLock = NoClient
  /\ metaLastTxnID = StartTxn
  /\ committedTxns = {}
  /\ readers = [id \in TxnId |-> 0]
  /\ pc = [c \in Client |-> "idle"]
  /\ snapshotTxn = [c \in Client |-> 0]
  /\ txnID = [c \in Client |-> 0]
  /\ committed = {}
  /\ abandoned = {}

Goto(c, place) == pc' = [pc EXCEPT ![c] = place]

-----------------------------------------------------------------------------
(* ReaderTable *)

Register(id) == readers' = [readers EXCEPT ![id] = @ + 1]

\* A faulty Deregister: the key is deleted while others hold it.
DeregisterAll(id) == readers' = [readers EXCEPT ![id] = 0]

Deregister(id) == readers' = [readers EXCEPT ![id] = IF @ <= 1 THEN 0 ELSE @ - 1]

ActiveSnapshots == {id \in TxnId : readers[id] > 0}

\* The results OldestActiveSnapshot may return.  Its `oldest' starts as
\* InvalidTxnID, which is 0, and is replaced whenever it is 0: once the scan has
\* met snapshot 0 it starts afresh with the next key, and Go's order of a map is
\* arbitrary.
OldestActiveSnapshot(fallback) ==
  IF ActiveSnapshots = {} THEN {fallback}
  ELSE IF 0 \in ActiveSnapshots THEN ActiveSnapshots
  ELSE {Min(ActiveSnapshots)}

-----------------------------------------------------------------------------
(* TxnManager *)

IsCommitted(id) == id \in committedTxns \/ id <= metaLastTxnID

\* Begin(true): the load of lastTxnID and the registration are two steps.
BeginReadLoad(c) ==
  /\ pc[c] = "idle"
  /\ snapshotTxn' = [snapshotTxn EXCEPT ![c] = lastTxnID]
  /\ txnID' = [txnID EXCEPT ![c] = lastTxnID]
  /\ Goto(c, "loaded")
  /\ UNCHANGED <<manager, history>>

BeginReadRegister(c) ==
  /\ pc[c] = "loaded"
  /\ Register(snapshotTxn[c])
  /\ Goto(c, "reading")
  /\ UNCHANGED <<lastTxnID, writeLock, metaLastTxnID, committedTxns, snapshotTxn, txnID, history>>

\* Commit or Rollback of a read-only transaction.
EndRead(c) ==
  /\ pc[c] = "reading"
  /\ Deregister(snapshotTxn[c])
  /\ Goto(c, "idle")
  /\ UNCHANGED <<lastTxnID, writeLock, metaLastTxnID, committedTxns, snapshotTxn, txnID, history>>

\* Begin(false)
BeginWrite(c) ==
  /\ pc[c] = "idle"
  /\ lastTxnID + Cardinality({d \in Client : pc[d] \in {"waiting", "locked"}}) < MaxTxn
  /\ Goto(c, "waiting")
  /\ UNCHANGED <<manager, snapshotTxn, txnID, history>>

AcquireWriteLock(c) ==
  /\ pc[c] = "waiting"
  /\ writeLock = NoClient
  /\ writeLock' = c
  /\ Goto(c, "locked")
  /\ UNCHANGED <<lastTxnID, metaLastTxnID, committedTxns, readers, snapshotTxn, txnID, history>>

\* lastTxnID.Add(1) and the TxnBegin record, whose error is ignored.
BeginWriteNumber(c) ==
  /\ pc[c] = "locked"
  /\ lastTxnID < MaxTxn
  /\ lastTxnID' = lastTxnID + 1
  /\ txnID' = [txnID EXCEPT ![c] = lastTxnID + 1]
  /\ snapshotTxn' = [snapshotTxn EXCEPT ![c] = lastTxnID]
  /\ Goto(c, "numbered")
  /\ UNCHANGED <<writeLock, metaLastTxnID, committedTxns, readers, history>>

BeginWriteRegister(c) ==
  /\ pc[c] = "numbered"
  /\ Register(snapshotTxn[c])
  /\ Goto(c, "writing")
  /\ UNCHANGED <<lastTxnID, writeLock, metaLastTxnID, committedTxns, snapshotTxn, txnID, history>>

\* Commit: the PageUpdate and TxnCommit records.
CommitLog(c) ==
  /\ pc[c] = "writing"
  /\ Goto(c, "logged")
  /\ UNCHANGED <<manager, snapshotTxn, txnID, history>>

\* A faulty CommitSync: the write lock is released before the sync.
CommitSyncUnlocking(c) ==
  /\ pc[c] = "logged"
  /\ writeLock' = NoClient
  /\ Goto(c, "synced")
  /\ UNCHANGED <<lastTxnID, metaLastTxnID, committedTxns, readers, snapshotTxn, txnID, history>>

\* Commit: Flush, Sync or nothing, by SyncMode.
CommitSync(c) ==
  /\ pc[c] = "logged"
  /\ Goto(c, "synced")
  /\ UNCHANGED <<manager, snapshotTxn, txnID, history>>

\* A faulty CommitFails: the error path keeps the write lock.
CommitFailsHoldingLock(c) ==
  /\ pc[c] \in {"writing", "logged"}
  /\ abandoned' = abandoned \cup {txnID[c]}
  /\ Goto(c, "unlocked")
  /\ UNCHANGED <<manager, snapshotTxn, txnID, committed>>

\* An append or the sync fails: Commit returns the error through its deferred
\* function.
CommitFails(c) ==
  /\ pc[c] \in {"writing", "logged"}
  /\ abandoned' = abandoned \cup {txnID[c]}
  /\ Goto(c, "ending")
  /\ UNCHANGED <<manager, snapshotTxn, txnID, committed>>

\* A faulty CommitPublish: LastTxnID is one too high.
CommitPublishAhead(c) ==
  /\ pc[c] = "synced"
  /\ metaLastTxnID' = txnID[c] + 1
  /\ \E oldest \in OldestActiveSnapshot(lastTxnID) :
       committedTxns' = {id \in committedTxns \cup {txnID[c]} : id > oldest}
  /\ committed' = committed \cup {txnID[c]}
  /\ Goto(c, "ending")
  /\ UNCHANGED <<lastTxnID, writeLock, readers, snapshotTxn, txnID, abandoned>>

\* A faulty CommitPublish: LastTxnID is not updated.
CommitPublishMapOnly(c) ==
  /\ pc[c] = "synced"
  /\ \E oldest \in OldestActiveSnapshot(lastTxnID) :
       committedTxns' = {id \in committedTxns \cup {txnID[c]} : id > oldest}
  /\ committed' = committed \cup {txnID[c]}
  /\ Goto(c, "ending")
  /\ UNCHANGED <<lastTxnID, writeLock, metaLastTxnID, readers, snapshotTxn, txnID, abandoned>>

\* Commit: the section under tm.mu, with the pruning of committedTxns.
CommitPublish(c) ==
  /\ pc[c] = "synced"
  /\ metaLastTxnID' = txnID[c]
  /\ \E oldest \in OldestActiveSnapshot(lastTxnID) :
       committedTxns' = {id \in committedTxns \cup {txnID[c]} : id > oldest}
  /\ committed' = committed \cup {txnID[c]}
  /\ Goto(c, "ending")
  /\ UNCHANGED <<lastTxnID, writeLock, readers, snapshotTxn, txnID, abandoned>>

\* Rollback: the TxnAbort record, whose error is ignored, and the pages.
Rollback(c) ==
  /\ pc[c] = "writing"
  /\ abandoned' = abandoned \cup {txnID[c]}
  /\ Goto(c, "ending")
  /\ UNCHANGED <<manager, snapshotTxn, txnID, committed>>

\* The deferred function of Commit and Rollback.
Unlock(c) ==
  /\ pc[c] = "ending"
  /\ writeLock' = NoClient
  /\ Goto(c, "unlocked")
  /\ UNCHANGED <<lastTxnID, metaLastTxnID, committedTxns, readers, snapshotTxn, txnID, history>>

EndWrite(c) ==
  /\ pc[c] = "unlocked"
  /\ Deregister(snapshotTxn[c])
  /\ Goto(c, "idle")
  /\ UNCHANGED <<lastTxnID, writeLock, metaLastTxnID, committedTxns, snapshotTxn, txnID, history>>

Start(c) == BeginReadLoad(c) \/ BeginWrite(c)

\* What a goroutine does on its own once it has begun.
Proceed(c) ==
  \/ BeginReadRegister(c) \/ EndRead(c)
  \/ BeginWriteNumber(c) \/ BeginWriteRegister(c)
  \/ CommitLog(c) \/ CommitSync(c) \/ CommitFails(c) \/ CommitPublish(c)
  \/ Rollback(c)
  \/ Unlock(c) \/ EndWrite(c)

Next == \E c \in Client : Start(c) \/ AcquireWriteLock(c) \/ Proceed(c)

Spec == Init /\ [][Next]_vars

\* Every transaction ends (db.Update and db.View end theirs), and sync.Mutex
\* hands the lock to a goroutine that has waited long (its starvation mode).
Fairness == \A c \in Client : WF_vars(Proceed(c)) /\ SF_vars(AcquireWriteLock(c))

FairSpec == Spec /\ Fairness

-----------------------------------------------------------------------------
(* Properties *)

\* Commit prunes committedTxns with whatever OldestActiveSnapshot returns, yet
\* IsCommitted never forgets a transaction that committed.
CommittedStaysCommitted == \A id \in committed : IsCommitted(id)

\* IsCommitted does not answer yes for a writer before its Commit publishes.
NoEarlyCommit ==
  \A c \in Client : pc[c] \in WriterUndecided => ~IsCommitted(txnID[c])

\* From its Begin to its Commit a writer has the newest id, and its snapshot
\* covers every committed transaction: writers are serial, in the order of
\* their ids.
WriterIsNewest ==
  \A c \in Client : pc[c] \in WriterUndecided =>
     /\ txnID[c] = lastTxnID
     /\ snapshotTxn[c] = txnID[c] - 1
     /\ \A id \in committed \cup abandoned : id <= snapshotTxn[c]

Holders(id) == {c \in Client : pc[c] \in Registered /\ snapshotTxn[c] = id}

\* The reader table counts, for every snapshot, exactly the transactions that
\* registered it and have not ended: Deregister never drops another's snapshot.
ReaderTableExact == \A id \in TxnId : readers[id] = Cardinality(Holders(id))

\* A goroutine that waits for the write lock gets it and ends its transaction,
\* also when the transactions before it fail to commit.
WriterEnds == \A c \in Client : pc[c] = "waiting" ~> pc[c] = "idle"

-----------------------------------------------------------------------------
(* The inductive invariant behind the safety properties *)

\* A goroutine between Lock and Unlock is the holder of writeLock.
LockHolds == \A c \in Client : pc[c] \in WriterHolding <=> writeLock = c

\* Ids are handed out, decided and published in order.
OrderHolds ==
  /\ metaLastTxnID <= lastTxnID
  /\ \A id \in committed \cup committedTxns : id <= metaLastTxnID
  /\ \A id \in abandoned : id <= lastTxnID
  /\ \A c \in Client : pc[c] \in WriterUndecided =>
       /\ txnID[c] = lastTxnID
       /\ snapshotTxn[c] = txnID[c] - 1
       /\ metaLastTxnID <= snapshotTxn[c]
       /\ \A id \in abandoned : id <= snapshotTxn[c]

IInv == TypeOK /\ LockHolds /\ OrderHolds /\ ReaderTableExact
=============================================================================
