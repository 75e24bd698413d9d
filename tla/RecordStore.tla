----------------------------- MODULE RecordStore -----------------------------
(***************************************************************************)
(* What transactions read of one record: the version chains of             *)
(* internal/record/version.go and the visibility rule of record.go, on top *)
(* of the transaction manager, whose steps interleave as in TxnManager.    *)
(*                                                                         *)
(* A slot is the place of a version in the order of writing; PrevVersion   *)
(* is kept as the slot its directory entry leads to, an entry that is      *)
(* written once.  A transaction that wrote is not rolled back here: what a *)
(* rollback does to pages is in WalRecovery.                               *)
(***************************************************************************)
EXTENDS TxnManager, Sequences

CONSTANTS MaxVersions,   \* bound on the number of versions, for TLC
          MaxVisited,    \* how many versions a read visits: 1000 in the code
          Failures       \* whether Commit may fail after a write

ASSUME StoreAssumption ==
  MaxVersions \in Nat /\ MaxVisited \in Nat \ {0} /\ Failures \in BOOLEAN

VARIABLES
  versions,    \* the headers of the record's versions, by slot
  directory,   \* the slot the record directory has for the record, or 0
  latest,      \* history: what the record was after the last commit
  expect,      \* history: what it was when a transaction took its snapshot
  quiet        \* history: no writer was undecided at that moment

store == <<versions, directory>>
recorded == <<latest, expect, quiet>>
storeVars == <<vars, store, recorded>>

Slot == 1..MaxVersions

StoreTypeOK ==
  /\ versions \in Seq([begin : TxnId, prev : 0..MaxVersions, deleted : BOOLEAN])
  /\ Len(versions) <= MaxVersions
  /\ directory \in 0..Len(versions)
  /\ latest \in 0..MaxVersions
  /\ expect \in [Client -> 0..MaxVersions]
  /\ quiet \in [Client -> BOOLEAN]

StoreInit ==
  /\ Init
  /\ versions = <<>>
  /\ directory = 0
  /\ latest = 0
  /\ expect = [c \in Client |-> 0]
  /\ quiet = [c \in Client |-> FALSE]

\* A faulty IsVisible: the commit state is ignored.
IsVisibleByOrder(c, hdr) == hdr.begin <= snapshotTxn[c]

\* Header.IsVisible.  EndTxn is 0 in every stored header: WriteRecord sets it on
\* the copy of the header that SlottedPage.Get returns.
IsVisible(c, hdr) ==
  \/ hdr.begin = txnID[c]
  \/ hdr.begin <= snapshotTxn[c] /\ IsCommitted(hdr.begin)

\* The loop of ReadRecord ends at slot: there is no older version, or it is visible.
Stops(c, slot) == slot = 0 \/ IsVisible(c, versions[slot])

\* The slot ReadRecord is at after n steps along the chain.
Visits(c) ==
  LET walk[n \in 0..MaxVisited - 1] ==
        IF n = 0 THEN directory
        ELSE IF Stops(c, walk[n - 1]) THEN walk[n - 1] ELSE versions[walk[n - 1]].prev
  IN walk

\* The slot ReadRecord returns, or 0 for ErrSlotNotFound.
ReadRecord(c) ==
  LET last == Visits(c)[MaxVisited - 1]
  IN IF last # 0 /\ Stops(c, last) /\ ~versions[last].deleted THEN last ELSE 0

\* A faulty NextSlot: one too far.
SlotAfterNext == Len(versions) + 2

\* allocateRecordSlot
NextSlot == Len(versions) + 1

\* A faulty PrevVersion: the old version is not linked.
Unlinked == 0

\* The PrevVersion of a new version: none, or the version it supersedes.
PrevVersion == directory

\* WriteRecord of a payload, or of none: DeleteRecord.
WriteRecord(c, delete) ==
  /\ pc[c] = "writing"
  /\ Len(versions) < MaxVersions
  /\ versions' = Append(versions, [begin |-> txnID[c], prev |-> PrevVersion, deleted |-> delete])
  /\ directory' = NextSlot
  /\ UNCHANGED <<vars, recorded>>

Wrote(c) == \E slot \in DOMAIN versions : versions[slot].begin = txnID[c]

\* The slot of the version the writer wrote last, or 0 if it is a deletion.
Own(c) ==
  LET slot == Max({s \in DOMAIN versions : versions[s].begin = txnID[c]})
  IN IF versions[slot].deleted THEN 0 ELSE slot

Snapshot(c) ==
  /\ expect' = [expect EXCEPT ![c] = latest]
  /\ quiet' = [quiet EXCEPT ![c] = \A d \in Client : pc[d] \notin WriterUndecided]
  /\ UNCHANGED <<store, latest>>

Publish(c) ==
  /\ latest' = IF Wrote(c) THEN Own(c) ELSE latest
  /\ UNCHANGED <<store, expect, quiet>>

Keep == UNCHANGED <<store, recorded>>

StoreNext ==
  \E c \in Client :
    \/ \E delete \in BOOLEAN : WriteRecord(c, delete)
    \/ BeginReadLoad(c) /\ Snapshot(c)
    \/ BeginReadRegister(c) /\ Keep
    \/ EndRead(c) /\ Keep
    \/ BeginWrite(c) /\ Keep
    \/ AcquireWriteLock(c) /\ Keep
    \/ BeginWriteNumber(c) /\ Snapshot(c)
    \/ BeginWriteRegister(c) /\ Keep
    \/ CommitLog(c) /\ Keep
    \/ CommitSync(c) /\ Keep
    \/ CommitFails(c) /\ (Wrote(c) => Failures) /\ Keep
    \/ CommitPublish(c) /\ Publish(c)
    \/ Rollback(c) /\ ~Wrote(c) /\ Keep
    \/ Unlock(c) /\ Keep
    \/ EndWrite(c) /\ Keep

StoreSpec == StoreInit /\ [][StoreNext]_storeVars

-----------------------------------------------------------------------------
(* Properties *)

\* A read-only transaction whose Begin met no writer at work reads, for as long
\* as it lasts and whatever commits meanwhile, what the record was at its Begin.
StableSnapshot ==
  \A c \in Client : pc[c] = "reading" /\ quiet[c] => ReadRecord(c) = expect[c]

\* A writer reads its own last version, and before it has one, what the last
\* commit left: no update is lost between two writers.
WriterReadsLatest ==
  \A c \in Client : pc[c] \in WriterUndecided =>
    ReadRecord(c) = IF Wrote(c) THEN Own(c) ELSE latest

\* handoff.md: "Read transactions should not observe uncommitted state."
NoUncommittedRead ==
  \A c \in Client : pc[c] = "reading" /\ ReadRecord(c) # 0 =>
    versions[ReadRecord(c)].begin \in committed
==============================================================================
