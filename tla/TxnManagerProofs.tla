--------------------------- MODULE TxnManagerProofs ---------------------------
(***************************************************************************)
(* Proofs about TxnManager, for any finite set of goroutines, any starting *)
(* transaction id and any bound on the ids, and about RecordStore on top   *)
(* of it, for any bound on the versions.                                   *)
(***************************************************************************)
EXTENDS RecordStore, FiniteSetTheorems, WellFoundedInduction, TLAPS

\* The provers, with their limits in seconds, of the leaves that name none.
USE SMTT(30), ZenonT(20), SMTT(40), SMTT(50)

\* The invariant holds when NewTxnManager returns.
LEMMA InitInductive == Init => IInv
  <1> SUFFICES ASSUME Init PROVE IInv
    OBVIOUS
  <1> USE TxnAssumption
  <1>1. TypeOK
    BY DEF Init, TypeOK, TxnId
  <1>2. LockHolds
    BY DEF Init, LockHolds, WriterHolding
  <1>3. OrderHolds
    BY DEF Init, OrderHolds, WriterUndecided
  <1>4. ReaderTableExact
    <2> SUFFICES ASSUME NEW id \in TxnId
                 PROVE  readers[id] = Cardinality(Holders(id))
      BY DEF ReaderTableExact
    <2>1. Holders(id) = {}
      BY DEF Init, Holders, Registered
    <2> QED
      BY <2>1, FS_EmptySet DEF Init
  <1> QED
    BY <1>1, <1>2, <1>3, <1>4 DEF IInv

\* Register by a goroutine that was not counted before keeps the table exact.
LEMMA RegisterExact ==
  ASSUME TypeOK, ReaderTableExact, NEW c \in Client,
         pc[c] \notin Registered, Register(snapshotTxn[c]),
         NEW place \in Registered, Goto(c, place), UNCHANGED snapshotTxn
  PROVE  ReaderTableExact'
  <1> SUFFICES ASSUME NEW id \in TxnId
               PROVE  readers'[id] = Cardinality(Holders(id)')
    BY DEF ReaderTableExact
  <1>1. readers[id] = Cardinality(Holders(id)) /\ IsFiniteSet(Holders(id))
    BY TxnAssumption, FS_Subset DEF ReaderTableExact, Holders
  <1>2. CASE id = snapshotTxn[c]
    <2>1. Holders(id)' = Holders(id) \cup {c} /\ c \notin Holders(id)
      BY <1>2 DEF Holders, Goto, TypeOK
    <2>2. readers'[id] = readers[id] + 1
      BY <1>2 DEF Register, TypeOK
    <2> QED
      BY <1>1, <2>1, <2>2, FS_AddElement, Zenon
  <1>3. CASE id # snapshotTxn[c]
    <2>1. Holders(id)' = Holders(id)
      BY <1>3 DEF Holders, Goto, TypeOK
    <2>2. readers'[id] = readers[id]
      BY <1>3 DEF Register, TypeOK
    <2> QED
      BY <1>1, <2>1, <2>2
  <1> QED
    BY <1>2, <1>3

\* Deregister by a goroutine that was counted keeps the table exact.
LEMMA DeregisterExact ==
  ASSUME TypeOK, ReaderTableExact, NEW c \in Client,
         pc[c] \in Registered, Deregister(snapshotTxn[c]),
         Goto(c, "idle"), UNCHANGED snapshotTxn
  PROVE  ReaderTableExact'
  <1> SUFFICES ASSUME NEW id \in TxnId
               PROVE  readers'[id] = Cardinality(Holders(id)')
    BY DEF ReaderTableExact
  <1>1. readers[id] = Cardinality(Holders(id)) /\ IsFiniteSet(Holders(id))
    BY TxnAssumption, FS_Subset DEF ReaderTableExact, Holders
  <1>2. CASE id = snapshotTxn[c]
    <2>1. Holders(id)' = Holders(id) \ {c} /\ c \in Holders(id)
      BY <1>2 DEF Holders, Goto, TypeOK, Registered
    <2>2. Cardinality(Holders(id)') = readers[id] - 1 /\ IsFiniteSet(Holders(id)')
      BY <1>1, <2>1, FS_RemoveElement
    <2>3. Cardinality(Holders(id)') \in Nat
      BY <2>2, FS_CardinalityType
    <2>4. readers'[id] = IF readers[id] <= 1 THEN 0 ELSE readers[id] - 1
      BY <1>2 DEF Deregister, TypeOK
    <2>5. readers[id] \in Nat
      BY DEF TypeOK
    <2> QED
      BY <2>2, <2>3, <2>4, <2>5
  <1>3. CASE id # snapshotTxn[c]
    <2>1. Holders(id)' = Holders(id)
      BY <1>3 DEF Holders, Goto, TypeOK, Registered
    <2>2. readers'[id] = readers[id]
      BY <1>3 DEF Deregister, TypeOK
    <2> QED
      BY <1>1, <2>1, <2>2
  <1> QED
    BY <1>2, <1>3

\* A step that neither registers nor deregisters leaves the table exact.
LEMMA SameHoldersExact ==
  ASSUME TypeOK, ReaderTableExact, NEW c \in Client, NEW place, Goto(c, place),
         pc[c] \in Registered <=> place \in Registered,
         \A d \in Client : d # c \/ pc[c] \in Registered => snapshotTxn'[d] = snapshotTxn[d],
         UNCHANGED readers
  PROVE  ReaderTableExact'
  <1>1. ASSUME NEW id \in TxnId PROVE Holders(id)' = Holders(id)
    BY DEF Holders, Goto, TypeOK
  <1> QED
    BY <1>1 DEF ReaderTableExact

\* Every step of every goroutine preserves the invariant.
LEMMA StepInductive == IInv /\ [Next]_vars => IInv'
  <1> SUFFICES ASSUME IInv, [Next]_vars PROVE IInv'
    OBVIOUS
  <1> USE TxnAssumption
      DEF IInv, WriterHolding, WriterUndecided, Registered, Goto, history, manager
  <1>1. ASSUME NEW c \in Client, BeginReadLoad(c) PROVE IInv'
    <2>1. TypeOK'
      BY <1>1, Zenon DEF BeginReadLoad, TypeOK, TxnId
    <2>2. LockHolds'
      BY <1>1 DEF BeginReadLoad, LockHolds, TypeOK
    <2>3. OrderHolds'
      BY <1>1 DEF BeginReadLoad, OrderHolds, LockHolds, TypeOK, TxnId
    <2>4. ReaderTableExact'
      BY <1>1, SameHoldersExact, Zenon DEF BeginReadLoad, TypeOK
    <2> QED
      BY <2>1, <2>2, <2>3, <2>4
  <1>2. ASSUME NEW c \in Client, BeginReadRegister(c) PROVE IInv'
    <2>1. TypeOK'
      <3>1. readers' \in [TxnId -> Nat]
        BY <1>2 DEF BeginReadRegister, Register, TypeOK
      <3> QED
        BY <1>2, <3>1 DEF BeginReadRegister, TypeOK
    <2>2. LockHolds'
      BY <1>2 DEF BeginReadRegister, LockHolds, TypeOK
    <2>3. OrderHolds'
      BY <1>2 DEF BeginReadRegister, OrderHolds, LockHolds, TypeOK, TxnId
    <2>4. ReaderTableExact'
      BY <1>2, RegisterExact, Zenon DEF BeginReadRegister
    <2> QED
      BY <2>1, <2>2, <2>3, <2>4
  <1>3. ASSUME NEW c \in Client, EndRead(c) PROVE IInv'
    <2>1. TypeOK'
      <3>1. readers' \in [TxnId -> Nat]
        BY <1>3 DEF EndRead, Deregister, TypeOK
      <3> QED
        BY <1>3, <3>1 DEF EndRead, TypeOK
    <2>2. LockHolds'
      BY <1>3 DEF EndRead, LockHolds, TypeOK
    <2>3. OrderHolds'
      BY <1>3 DEF EndRead, OrderHolds, LockHolds, TypeOK, TxnId
    <2>4. ReaderTableExact'
      BY <1>3, DeregisterExact, Zenon DEF EndRead
    <2> QED
      BY <2>1, <2>2, <2>3, <2>4
  <1>4. ASSUME NEW c \in Client, BeginWrite(c) PROVE IInv'
    <2>1. TypeOK'
      BY <1>4 DEF BeginWrite, TypeOK, TxnId
    <2>2. LockHolds'
      BY <1>4 DEF BeginWrite, LockHolds, TypeOK
    <2>3. OrderHolds'
      BY <1>4 DEF BeginWrite, OrderHolds, LockHolds, TypeOK, TxnId
    <2>4. ReaderTableExact'
      BY <1>4, SameHoldersExact, Zenon DEF BeginWrite, TypeOK
    <2> QED
      BY <2>1, <2>2, <2>3, <2>4
  <1>5. ASSUME NEW c \in Client, AcquireWriteLock(c) PROVE IInv'
    <2>1. TypeOK'
      BY <1>5 DEF AcquireWriteLock, TypeOK, TxnId
    <2>2. LockHolds'
      BY <1>5 DEF AcquireWriteLock, LockHolds, TypeOK
    <2>3. OrderHolds'
      BY <1>5 DEF AcquireWriteLock, OrderHolds, LockHolds, TypeOK, TxnId
    <2>4. ReaderTableExact'
      BY <1>5, SameHoldersExact, Zenon DEF AcquireWriteLock, TypeOK
    <2> QED
      BY <2>1, <2>2, <2>3, <2>4
  <1>6. ASSUME NEW c \in Client, BeginWriteNumber(c) PROVE IInv'
    <2>1. TypeOK'
      <3>1. lastTxnID + 1 \in TxnId
        BY <1>6 DEF BeginWriteNumber, TypeOK, TxnId
      <3> QED
        BY <1>6, <3>1 DEF BeginWriteNumber, TypeOK
    <2>2. LockHolds'
      BY <1>6 DEF BeginWriteNumber, LockHolds, TypeOK
    <2>3. OrderHolds'
      BY <1>6 DEF BeginWriteNumber, OrderHolds, LockHolds, TypeOK, TxnId
    <2>4. ReaderTableExact'
      BY <1>6, SameHoldersExact, Zenon DEF BeginWriteNumber, TypeOK
    <2> QED
      BY <2>1, <2>2, <2>3, <2>4
  <1>7. ASSUME NEW c \in Client, BeginWriteRegister(c) PROVE IInv'
    <2>1. TypeOK'
      <3>1. readers' \in [TxnId -> Nat]
        BY <1>7 DEF BeginWriteRegister, Register, TypeOK
      <3> QED
        BY <1>7, <3>1 DEF BeginWriteRegister, TypeOK
    <2>2. LockHolds'
      BY <1>7 DEF BeginWriteRegister, LockHolds, TypeOK
    <2>3. OrderHolds'
      BY <1>7 DEF BeginWriteRegister, OrderHolds, LockHolds, TypeOK, TxnId
    <2>4. ReaderTableExact'
      BY <1>7, RegisterExact, Zenon DEF BeginWriteRegister
    <2> QED
      BY <2>1, <2>2, <2>3, <2>4
  <1>8. ASSUME NEW c \in Client, CommitLog(c) PROVE IInv'
    <2>1. TypeOK'
      BY <1>8 DEF CommitLog, TypeOK, TxnId
    <2>2. LockHolds'
      BY <1>8 DEF CommitLog, LockHolds, TypeOK
    <2>3. OrderHolds'
      BY <1>8 DEF CommitLog, OrderHolds, LockHolds, TypeOK, TxnId
    <2>4. ReaderTableExact'
      BY <1>8, SameHoldersExact, Zenon DEF CommitLog, TypeOK
    <2> QED
      BY <2>1, <2>2, <2>3, <2>4
  <1>9. ASSUME NEW c \in Client, CommitSync(c) PROVE IInv'
    <2>1. TypeOK'
      BY <1>9 DEF CommitSync, TypeOK, TxnId
    <2>2. LockHolds'
      BY <1>9 DEF CommitSync, LockHolds, TypeOK
    <2>3. OrderHolds'
      BY <1>9 DEF CommitSync, OrderHolds, LockHolds, TypeOK, TxnId
    <2>4. ReaderTableExact'
      BY <1>9, SameHoldersExact, Zenon DEF CommitSync, TypeOK
    <2> QED
      BY <2>1, <2>2, <2>3, <2>4
  <1>10. ASSUME NEW c \in Client, CommitFails(c) PROVE IInv'
    <2>1. TypeOK'
      BY <1>10, Zenon DEF CommitFails, TypeOK, TxnId
    <2>2. LockHolds'
      BY <1>10 DEF CommitFails, LockHolds, TypeOK
    <2>3. OrderHolds'
      BY <1>10 DEF CommitFails, OrderHolds, LockHolds, TypeOK, TxnId
    <2>4. ReaderTableExact'
      BY <1>10, SameHoldersExact, Zenon DEF CommitFails, TypeOK
    <2> QED
      BY <2>1, <2>2, <2>3, <2>4
  <1>11. ASSUME NEW c \in Client, CommitPublish(c) PROVE IInv'
    <2>1. TypeOK'
      BY <1>11, Zenon DEF CommitPublish, TypeOK, TxnId
    <2>2. LockHolds'
      BY <1>11 DEF CommitPublish, LockHolds, TypeOK
    <2>3. OrderHolds'
      BY <1>11 DEF CommitPublish, OrderHolds, LockHolds, TypeOK, TxnId
    <2>4. ReaderTableExact'
      BY <1>11, SameHoldersExact, Zenon DEF CommitPublish, TypeOK
    <2> QED
      BY <2>1, <2>2, <2>3, <2>4
  <1>12. ASSUME NEW c \in Client, Rollback(c) PROVE IInv'
    <2>1. TypeOK'
      BY <1>12, Zenon DEF Rollback, TypeOK, TxnId
    <2>2. LockHolds'
      BY <1>12 DEF Rollback, LockHolds, TypeOK
    <2>3. OrderHolds'
      BY <1>12 DEF Rollback, OrderHolds, LockHolds, TypeOK, TxnId
    <2>4. ReaderTableExact'
      BY <1>12, SameHoldersExact, Zenon DEF Rollback, TypeOK
    <2> QED
      BY <2>1, <2>2, <2>3, <2>4
  <1>13. ASSUME NEW c \in Client, Unlock(c) PROVE IInv'
    <2>1. TypeOK'
      BY <1>13 DEF Unlock, TypeOK, TxnId
    <2>2. LockHolds'
      BY <1>13 DEF Unlock, LockHolds, TypeOK
    <2>3. OrderHolds'
      BY <1>13 DEF Unlock, OrderHolds, LockHolds, TypeOK, TxnId
    <2>4. ReaderTableExact'
      BY <1>13, SameHoldersExact, Zenon DEF Unlock, TypeOK
    <2> QED
      BY <2>1, <2>2, <2>3, <2>4
  <1>14. ASSUME NEW c \in Client, EndWrite(c) PROVE IInv'
    <2>1. TypeOK'
      <3>1. readers' \in [TxnId -> Nat]
        BY <1>14 DEF EndWrite, Deregister, TypeOK
      <3> QED
        BY <1>14, <3>1 DEF EndWrite, TypeOK
    <2>2. LockHolds'
      BY <1>14 DEF EndWrite, LockHolds, TypeOK
    <2>3. OrderHolds'
      BY <1>14 DEF EndWrite, OrderHolds, LockHolds, TypeOK, TxnId
    <2>4. ReaderTableExact'
      BY <1>14, DeregisterExact, Zenon DEF EndWrite
    <2> QED
      BY <2>1, <2>2, <2>3, <2>4
  <1>15. CASE UNCHANGED vars
    BY <1>15 DEF vars, manager, history, TypeOK, LockHolds, OrderHolds, ReaderTableExact,
                 Holders
  <1> QED
    BY <1>1, <1>2, <1>3, <1>4, <1>5, <1>6, <1>7, <1>8, <1>9, <1>10, <1>11, <1>12, <1>13, <1>14, <1>15
       DEF Next, Start, Proceed

-----------------------------------------------------------------------------
\* Types, mutual exclusion of writers, the order of ids and the reader table
\* hold in every reachable state of the transaction manager.
THEOREM Inductive == Spec => []IInv
  BY InitInductive, StepInductive, PTL DEF Spec

\* Pruning never makes IsCommitted forget a committed transaction.
THEOREM CommittedStays == Spec => []CommittedStaysCommitted
  <1>1. IInv => CommittedStaysCommitted
    BY DEF IInv, OrderHolds, CommittedStaysCommitted, IsCommitted
  <1> QED
    BY <1>1, Inductive, PTL

\* IsCommitted denies every writer that has not published its commit.
THEOREM NotCommittedEarly == Spec => []NoEarlyCommit
  <1>1. IInv => NoEarlyCommit
    BY TxnAssumption DEF IInv, OrderHolds, TypeOK, TxnId, NoEarlyCommit, IsCommitted
  <1> QED
    BY <1>1, Inductive, PTL

\* Writers are serial: the undecided writer has the newest id and its snapshot
\* covers everything decided before it.
THEOREM WritersAreSerial == Spec => []WriterIsNewest
  <1>1. IInv => WriterIsNewest
    BY TxnAssumption DEF IInv, OrderHolds, TypeOK, TxnId, WriterIsNewest
  <1> QED
    BY <1>1, Inductive, PTL

\* The reader table counts exactly the open transactions of every snapshot.
THEOREM ReaderTableCounts == Spec => []ReaderTableExact
  <1>1. IInv => ReaderTableExact
    BY DEF IInv
  <1> QED
    BY <1>1, Inductive, PTL

-----------------------------------------------------------------------------
(* The record store: the inductive invariants *)

\* The chain: the directory has the newest version, every version links to the
\* one before, and ids only grow along it.
Chained ==
  /\ directory = Len(versions)
  /\ \A s \in DOMAIN versions : versions[s].prev = s - 1 /\ versions[s].begin <= lastTxnID
  /\ \A s, t \in DOMAIN versions : s <= t => versions[s].begin <= versions[t].begin

\* What a read that ends at slot s returns.
Shown(s) == IF s = 0 \/ versions[s].deleted THEN 0 ELSE s

\* The versions up to slot k are committed, those after it are of a writer.
Boundary(k) ==
  \A s \in DOMAIN versions :
    /\ s <= k => versions[s].begin \in committed
    /\ s > k => \E d \in Client : pc[d] \in WriterUndecided /\ versions[s].begin = txnID[d]

\* What the last commit left is what the committed part of the chain ends with.
LatestHolds == \E k \in 0..Len(versions) : Boundary(k) /\ latest = Shown(k)

\* The snapshot of reader c ends at slot k.
SnapshotEnds(c, k) ==
  \A s \in DOMAIN versions :
    /\ s <= k => versions[s].begin <= snapshotTxn[c] /\ versions[s].begin \in committed
    /\ s > k => versions[s].begin > snapshotTxn[c]

\* A reader that met no writer: every later writer has a higher id, and its
\* snapshot ends at the version it is expected to read.
ReaderHolds(c) ==
  /\ txnID[c] = snapshotTxn[c] /\ snapshotTxn[c] <= lastTxnID
  /\ \A d \in Client : pc[d] \in WriterUndecided => txnID[d] > snapshotTxn[c]
  /\ \E k \in 0..Len(versions) : SnapshotEnds(c, k) /\ expect[c] = Shown(k)

ReadersHold == \A c \in Client : pc[c] \in {"loaded", "reading"} /\ quiet[c] => ReaderHolds(c)

\* What holds whatever fails.
StoreInv == IInv /\ StoreTypeOK /\ Chained

\* What holds where no writer fails after a write: a failed commit leaves its
\* versions on the chain, neither committed nor of a writer.
SnapshotInv == StoreInv /\ LatestHolds /\ ReadersHold

\* The order of the natural numbers, as a relation.
NatLess == {ss \in Nat \X Nat : ss[1] < ss[2]}

\* There is no infinite descent among the natural numbers.
LEMMA NatLessWellFounded == IsWellFoundedOn(NatLess, Nat)
  BY NatLessThanWellFounded, Zenon DEF OpToRel, NatLess

\* A set of natural numbers has a least element.
LEMMA LeastNat ==
  ASSUME NEW D \in SUBSET Nat, D # {}
  PROVE  \E x \in D : \A y \in D : x <= y
  <1>1. PICK x \in D : \A y \in D : ~(<<y, x>> \in NatLess)
    BY NatLessWellFounded, WFMin, Zenon
  <1>2. \A y \in D : ~(y < x)
    BY <1>1, Zenon DEF NatLess
  <1> QED
    BY <1>2

\* Where a walk of the chain ends.
LEMMA WalkArithmetic ==
  ASSUME NEW n \in Nat, NEW k \in 0..n
  PROVE  /\ k \in Nat /\ k <= n
         /\ k = 0 \/ (k \in 1..n /\ k <= k)
         /\ (\A s \in 1..n : ~(s > k)) => k = n
  OBVIOUS

\* No version is after the last one.
LEMMA EndArithmetic ==
  ASSUME NEW n \in Nat
  PROVE  n \in 0..n /\ (\A s \in 1..n : ~(s > n)) /\ (n = 0 \/ (n \in 1..n /\ n <= n))
  OBVIOUS

\* The last of the v versions that a walk visits.
LEMMA LastVisited ==
  ASSUME NEW n \in Nat, NEW k \in 0..n, NEW v \in Nat \ {0}, NEW bound \in Nat, n <= bound,
         k = n \/ bound <= v
  PROVE  /\ v - 1 \in 0..v - 1
         /\ k # 0 => k = IF n - (v - 1) >= k THEN n - (v - 1) ELSE k
         /\ k = 0 => \/ 0 = IF n - (v - 1) >= k THEN n - (v - 1) ELSE k
                     \/ /\ (IF n - (v - 1) >= k THEN n - (v - 1) ELSE k) \in 1..n
                        /\ (IF n - (v - 1) >= k THEN n - (v - 1) ELSE k) > k
  OBVIOUS

\* A step of StoreNext is a step of the transaction manager, or leaves it alone.
LEMMA StoreStepIsStep == StoreNext => [Next]_vars
  BY Zenon DEF StoreNext, Next, Start, Proceed, WriteRecord

\* At most one goroutine is an undecided writer.
LEMMA OneWriter ==
  ASSUME IInv, NEW c \in Client, NEW d \in Client,
         pc[c] \in WriterUndecided, pc[d] \in WriterUndecided
  PROVE  c = d
  BY DEF IInv, LockHolds, WriterUndecided, WriterHolding

\* The begin of a version is a transaction id.
LEMMA BeginsAreIds ==
  ASSUME versions \in Seq([begin : TxnId, prev : 0..MaxVersions, deleted : BOOLEAN])
  PROVE  \A s \in DOMAIN versions : versions[s].begin \in TxnId
  <1> DEFINE R == [begin : TxnId, prev : 0..MaxVersions, deleted : BOOLEAN]
  <1>1. \A r \in R : r.begin \in TxnId
    OBVIOUS
  <1>2. versions \in Seq(R)
    OBVIOUS
  <1> HIDE DEF R
  <1>3. \A s \in DOMAIN versions : versions[s] \in R
    BY <1>2
  <1> QED
    BY <1>1, <1>3

\* What an undecided writer wrote is at the end of the chain.
LEMMA OwnIsLast ==
  ASSUME StoreInv, NEW c \in Client, pc[c] \in WriterUndecided, Wrote(c)
  PROVE  /\ Len(versions) > 0 /\ versions[Len(versions)].begin = txnID[c]
         /\ Own(c) = Shown(Len(versions))
  <1>1. /\ txnID[c] = lastTxnID /\ lastTxnID \in Nat
        /\ \A s \in DOMAIN versions : versions[s].begin \in Nat
        /\ versions \in Seq([begin : TxnId, prev : 0..MaxVersions, deleted : BOOLEAN])
    <2>1. /\ versions \in Seq([begin : TxnId, prev : 0..MaxVersions, deleted : BOOLEAN])
          /\ txnID[c] = lastTxnID /\ lastTxnID \in TxnId
      BY Zenon DEF StoreInv, StoreTypeOK, IInv, OrderHolds, TypeOK
    <2>2. \A s \in DOMAIN versions : versions[s].begin \in TxnId
      BY <2>1, BeginsAreIds
    <2> QED
      BY <2>1, <2>2, TxnAssumption DEF TxnId
  <1>2. PICK s \in DOMAIN versions : versions[s].begin = txnID[c]
    BY DEF Wrote
  <1>3. DOMAIN versions = 1..Len(versions) /\ Len(versions) \in Nat
    BY <1>1
  <1>4. Len(versions) \in DOMAIN versions /\ s <= Len(versions)
    BY <1>2, <1>3
  <1>5. versions[s].begin <= versions[Len(versions)].begin /\ versions[Len(versions)].begin <= lastTxnID
    BY <1>4, Zenon DEF StoreInv, Chained
  <1>6. versions[Len(versions)].begin = txnID[c]
    BY <1>1, <1>2, <1>4, <1>5
  <1> DEFINE S == {t \in DOMAIN versions : versions[t].begin = txnID[c]}
  <1>7. Len(versions) \in S /\ \A t \in S : t \in Int /\ Len(versions) >= t
    BY <1>3, <1>4, <1>6
  <1> HIDE DEF S
  <1>8. Max(S) = Len(versions)
    <2>1. \A t \in S : (\A u \in S : t >= u) => t = Len(versions)
      BY <1>7
    <2> QED
      BY <1>7, <2>1 DEF Max
  <1> QED
    <2>1. Len(versions) > 0 /\ Len(versions) # 0
      BY <1>3, <1>4
    <2>2. Own(c) = IF versions[Len(versions)].deleted THEN 0 ELSE Len(versions)
      BY <1>8, Zenon DEF Own, S
    <2> QED
      BY <1>6, <2>1, <2>2, Zenon DEF Shown

\* What WriteRecord leaves: the chain grows by one version at its end.
LEMMA WriteEffect ==
  ASSUME StoreInv, NEW c \in Client, NEW delete \in BOOLEAN, WriteRecord(c, delete)
  PROVE  /\ UNCHANGED <<vars, recorded>> /\ pc[c] = "writing"
         /\ versions' \in Seq([begin : TxnId, prev : 0..MaxVersions, deleted : BOOLEAN])
         /\ Len(versions') = Len(versions) + 1 /\ Len(versions') <= MaxVersions
         /\ Len(versions) \in Nat
         /\ DOMAIN versions = 1..Len(versions) /\ DOMAIN versions' = 1..Len(versions')
         /\ \A s \in 1..Len(versions) : versions'[s] = versions[s]
         /\ versions'[Len(versions')] = [begin |-> txnID[c], prev |-> Len(versions), deleted |-> delete]
         /\ directory' = Len(versions')
  <1>1. /\ versions \in Seq([begin : TxnId, prev : 0..MaxVersions, deleted : BOOLEAN])
        /\ txnID[c] \in TxnId /\ directory = Len(versions) /\ Len(versions) <= MaxVersions
    BY Zenon DEF StoreInv, StoreTypeOK, Chained, IInv, TypeOK
  <1> DEFINE r == [begin |-> txnID[c], prev |-> Len(versions), deleted |-> delete]
  <1>2. /\ versions' = Append(versions, r) /\ directory' = Len(versions) + 1
        /\ pc[c] = "writing" /\ UNCHANGED <<vars, recorded>> /\ Len(versions) < MaxVersions
    BY <1>1, Zenon DEF WriteRecord, PrevVersion, NextSlot
  <1>3. r \in [begin : TxnId, prev : 0..MaxVersions, deleted : BOOLEAN]
    <2>1. Len(versions) \in 0..MaxVersions
      BY <1>1, StoreAssumption
    <2> QED
      BY <1>1, <2>1
  <1> DEFINE R == [begin : TxnId, prev : 0..MaxVersions, deleted : BOOLEAN]
  <1>4. versions \in Seq(R) /\ r \in R
    BY <1>1, <1>3
  <1> HIDE DEF r, R
  <1>5. /\ versions' \in Seq(R) /\ Len(versions') = Len(versions) + 1
        /\ Len(versions) \in Nat
        /\ DOMAIN versions = 1..Len(versions) /\ DOMAIN versions' = 1..Len(versions')
        /\ \A s \in 1..Len(versions) : versions'[s] = versions[s]
        /\ versions'[Len(versions')] = r
    BY <1>2, <1>4
  <1>6. Len(versions') <= MaxVersions
    BY <1>2, <1>5, StoreAssumption
  <1> QED
    BY <1>2, <1>5, <1>6 DEF r, R

\* The steps but WriteRecord leave the chain alone.
LEMMA OthersKeepStore ==
  ASSUME StoreNext
  PROVE  \/ \E c \in Client : \E delete \in BOOLEAN : WriteRecord(c, delete)
         \/ UNCHANGED store
  BY Zenon DEF StoreNext, Snapshot, Publish, Keep

\* lastTxnID never decreases.
LEMMA LastTxnGrows ==
  ASSUME TypeOK, [Next]_vars
  PROVE  lastTxnID \in Int /\ lastTxnID' \in Int /\ lastTxnID <= lastTxnID'
  <1>1. lastTxnID' = lastTxnID \/ lastTxnID' = lastTxnID + 1
    BY Zenon DEF Next, Start, Proceed, BeginReadLoad, BeginReadRegister, EndRead, BeginWrite, AcquireWriteLock,
         BeginWriteNumber, BeginWriteRegister, CommitLog, CommitSync, CommitFails, CommitPublish,
         Rollback, Unlock, EndWrite, vars, manager
  <1> QED
    BY <1>1, TxnAssumption DEF TypeOK, TxnId

\* The chain stays ordered and linked.
LEMMA StoreInvStep == StoreInv /\ [StoreNext]_storeVars => StoreInv'
  <1> SUFFICES ASSUME StoreInv, [StoreNext]_storeVars PROVE StoreInv'
    OBVIOUS
  <1>0. [Next]_vars
    BY StoreStepIsStep DEF storeVars
  <1>1. IInv' /\ IInv /\ TypeOK
    BY <1>0, StepInductive DEF StoreInv, IInv
  <1>2. lastTxnID \in Int /\ lastTxnID' \in Int /\ lastTxnID <= lastTxnID'
    BY <1>0, <1>1, LastTxnGrows
  <1>3. CASE \E c \in Client : \E delete \in BOOLEAN : WriteRecord(c, delete)
    <2>1. PICK c \in Client : \E delete \in BOOLEAN : WriteRecord(c, delete)
      BY <1>3
    <2>2. PICK delete \in BOOLEAN : WriteRecord(c, delete)
      BY <2>1
    <2>3. /\ UNCHANGED <<vars, recorded>> /\ pc[c] = "writing"
          /\ versions' \in Seq([begin : TxnId, prev : 0..MaxVersions, deleted : BOOLEAN])
          /\ Len(versions') = Len(versions) + 1 /\ Len(versions') <= MaxVersions
          /\ Len(versions) \in Nat
          /\ DOMAIN versions = 1..Len(versions) /\ DOMAIN versions' = 1..Len(versions')
          /\ \A s \in 1..Len(versions) : versions'[s] = versions[s]
          /\ versions'[Len(versions')] = [begin |-> txnID[c], prev |-> Len(versions), deleted |-> delete]
          /\ directory' = Len(versions')
      BY <2>2, WriteEffect, Zenon
    <2>4. txnID[c] = lastTxnID /\ lastTxnID' = lastTxnID
      BY <1>1, <2>3 DEF IInv, OrderHolds, WriterUndecided, vars, manager
    <2>5. StoreTypeOK'
      <3>1. directory' \in 0..Len(versions')
        BY <2>3
      <3> QED
        BY <2>3, <3>1, Zenon DEF StoreInv, StoreTypeOK, recorded
    <2>6. ASSUME NEW s \in DOMAIN versions'
          PROVE  versions'[s].prev = s - 1 /\ versions'[s].begin <= lastTxnID'
      <3>1. CASE s \in 1..Len(versions)
        BY <2>3, <2>4, <3>1 DEF StoreInv, Chained
      <3>2. CASE s = Len(versions')
        BY <1>2, <2>3, <2>4, <3>2
      <3> QED
        BY <2>3, <3>1, <3>2
    <2>7. ASSUME NEW s \in DOMAIN versions', NEW t \in DOMAIN versions', s <= t
          PROVE  versions'[s].begin <= versions'[t].begin
      <3>1. CASE t \in 1..Len(versions)
        <4>1. s \in 1..Len(versions)
          BY <2>3, <2>7, <3>1
        <4> QED
          BY <2>3, <2>7, <3>1, <4>1 DEF StoreInv, Chained
      <3>2. CASE t = Len(versions')
        <4>1. versions'[t].begin = lastTxnID'
          BY <2>3, <2>4, <3>2
        <4> QED
          BY <2>6, <4>1
      <3> QED
        BY <2>3, <3>1, <3>2
    <2>8. Chained'
      BY <2>3, <2>6, <2>7, Zenon DEF Chained
    <2> QED
      BY <1>1, <2>5, <2>8 DEF StoreInv
  <1>4. CASE UNCHANGED store
    <2>1. versions' = versions /\ directory' = directory
      BY <1>4 DEF store
    <2>2. \A s \in DOMAIN versions : versions[s].begin \in Int
      <3>1. versions \in Seq([begin : TxnId, prev : 0..MaxVersions, deleted : BOOLEAN])
        BY Zenon DEF StoreInv, StoreTypeOK
      <3>2. \A s \in DOMAIN versions : versions[s].begin \in TxnId
        BY <3>1, BeginsAreIds
      <3> QED
        BY <3>2, TxnAssumption DEF TxnId
    <2>3. Chained'
      BY <1>2, <2>1, <2>2 DEF StoreInv, Chained
    <2>4. latest' \in 0..MaxVersions /\ expect' \in [Client -> 0..MaxVersions] /\ quiet' \in [Client -> BOOLEAN]
      <3>1. /\ latest \in 0..MaxVersions /\ expect \in [Client -> 0..MaxVersions]
            /\ quiet \in [Client -> BOOLEAN]
        BY Zenon DEF StoreInv, StoreTypeOK
      <3>2. CASE UNCHANGED recorded
        BY <3>1, <3>2 DEF recorded
      <3>3. ASSUME NEW c \in Client, Snapshot(c)
            PROVE  latest' \in 0..MaxVersions /\ expect' \in [Client -> 0..MaxVersions] /\ quiet' \in [Client -> BOOLEAN]
        <4>1. (\A d \in Client : pc[d] \notin WriterUndecided) \in BOOLEAN
          OBVIOUS
        <4>2. quiet' \in [Client -> BOOLEAN]
          BY <3>1, <3>3, <4>1, Zenon DEF Snapshot
        <4> QED
          BY <3>1, <3>3, <4>2 DEF Snapshot
      <3>4. ASSUME NEW c \in Client, CommitPublish(c), Publish(c)
            PROVE  latest' \in 0..MaxVersions /\ expect' \in [Client -> 0..MaxVersions] /\ quiet' \in [Client -> BOOLEAN]
        <4>1. pc[c] \in WriterUndecided
          BY <3>4 DEF CommitPublish, WriterUndecided
        <4>2. Wrote(c) => Own(c) \in 0..MaxVersions
          <5>1. Wrote(c) => Own(c) = Shown(Len(versions))
            BY <4>1, OwnIsLast
          <5>2. Len(versions) \in 0..MaxVersions
            BY StoreAssumption DEF StoreInv, StoreTypeOK
          <5> QED
            BY <5>1, <5>2, StoreAssumption DEF Shown
        <4> QED
          BY <3>1, <3>4, <4>2, Zenon DEF Publish
      <3> QED
        BY <1>4, <3>2, <3>3, <3>4, Zenon DEF StoreNext, Keep, storeVars, WriteRecord
    <2>5. StoreTypeOK'
      BY <2>1, <2>4 DEF StoreInv, StoreTypeOK
    <2> QED
      BY <1>1, <2>3, <2>5 DEF StoreInv
  <1> QED
    BY <1>3, <1>4, OthersKeepStore, Zenon DEF storeVars

\* The steps that neither take a snapshot, write nor publish.
KeepStep(c) ==
  \/ BeginReadRegister(c) \/ EndRead(c) \/ BeginWrite(c) \/ AcquireWriteLock(c)
  \/ BeginWriteRegister(c) \/ CommitLog(c) \/ CommitSync(c)
  \/ CommitFails(c) /\ (Wrote(c) => Failures)
  \/ Rollback(c) /\ ~Wrote(c)
  \/ Unlock(c) \/ EndWrite(c)

\* They leave the store alone, take no transaction that wrote out of its
\* undecided places, and bring none into them or to a snapshot.
LEMMA KeepEffect ==
  ASSUME TypeOK, ~Failures, NEW c \in Client, KeepStep(c), Keep
  PROVE  /\ UNCHANGED <<versions, directory, latest, expect, quiet, committed, lastTxnID, txnID, snapshotTxn>>
         /\ \A d \in Client : pc[d] \in WriterUndecided /\ Wrote(d) => pc'[d] \in WriterUndecided
         /\ \A d \in Client : pc'[d] \in WriterUndecided => pc[d] \in WriterUndecided
         /\ \A d \in Client : pc'[d] \in {"loaded", "reading"} => pc[d] \in {"loaded", "reading"}
  <1>1. UNCHANGED <<versions, directory, latest, expect, quiet, committed, lastTxnID, txnID, snapshotTxn>>
    BY Zenon DEF Keep, KeepStep, store, recorded, BeginReadRegister, EndRead, BeginWrite, AcquireWriteLock,
         BeginWriteRegister, CommitLog, CommitSync, CommitFails, Rollback, Unlock, EndWrite,
         manager, history
  <1> DEFINE Moves(place) ==
        /\ Goto(c, place)
        /\ place \in WriterUndecided => pc[c] \in WriterUndecided
        /\ place \in {"loaded", "reading"} => pc[c] \in {"loaded", "reading"}
        /\ pc[c] \in WriterUndecided /\ Wrote(c) => place \in WriterUndecided
  <1>2. \E place \in {"idle", "loaded", "reading", "waiting", "unlocked"} \cup WriterHolding : Moves(place)
    <2>1. CASE BeginReadRegister(c)
      <3>1. Moves("reading")
        BY <2>1 DEF BeginReadRegister, WriterUndecided
      <3> QED
        BY <3>1, Zenon
    <2>2. CASE EndRead(c) \/ EndWrite(c)
      <3>1. Moves("idle")
        BY <2>2 DEF EndRead, EndWrite, WriterUndecided
      <3> QED
        BY <3>1, Zenon
    <2>3. CASE BeginWrite(c)
      <3>1. Moves("waiting")
        BY <2>3 DEF BeginWrite, WriterUndecided
      <3> QED
        BY <3>1, Zenon
    <2>4. CASE AcquireWriteLock(c)
      <3>1. Moves("locked")
        BY <2>4 DEF AcquireWriteLock, WriterUndecided
      <3> QED
        BY <3>1, Zenon DEF WriterHolding
    <2>5. CASE BeginWriteRegister(c)
      <3>1. Moves("writing")
        BY <2>5 DEF BeginWriteRegister, WriterUndecided
      <3> QED
        BY <3>1, Zenon DEF WriterHolding
    <2>6. CASE CommitLog(c)
      <3>1. Moves("logged")
        BY <2>6 DEF CommitLog, WriterUndecided
      <3> QED
        BY <3>1, Zenon DEF WriterHolding
    <2>7. CASE CommitSync(c)
      <3>1. Moves("synced")
        BY <2>7 DEF CommitSync, WriterUndecided
      <3> QED
        BY <3>1, Zenon DEF WriterHolding
    <2>8. CASE (CommitFails(c) \/ Rollback(c)) /\ ~Wrote(c)
      <3>1. Moves("ending")
        BY <2>8 DEF CommitFails, Rollback, WriterUndecided
      <3> QED
        BY <3>1, Zenon DEF WriterHolding
    <2>9. CASE Unlock(c)
      <3>1. Moves("unlocked")
        BY <2>9 DEF Unlock, WriterUndecided
      <3> QED
        BY <3>1, Zenon
    <2> QED
      BY <2>1, <2>2, <2>3, <2>4, <2>5, <2>6, <2>7, <2>8, <2>9, Zenon DEF KeepStep
  <1>3. PICK place \in {"idle", "loaded", "reading", "waiting", "unlocked"} \cup WriterHolding : Moves(place)
    BY <1>2, Zenon
  <1>4. pc'[c] = place /\ \A d \in Client : d # c => pc'[d] = pc[d]
    BY <1>3 DEF Goto, TypeOK
  <1> QED
    BY <1>1, <1>3, <1>4, Zenon

\* What a step must do to keep the snapshots where the chain stays as it is.
LEMMA SameChainHolds ==
  ASSUME SnapshotInv,
         UNCHANGED <<versions, latest>>,
         \A s \in DOMAIN versions : versions[s].begin \in committed => versions[s].begin \in committed',
         \A d \in Client : pc[d] \in WriterUndecided /\ Wrote(d) =>
                             pc'[d] \in WriterUndecided /\ txnID'[d] = txnID[d]
  PROVE  LatestHolds'
  <1>1. PICK k \in 0..Len(versions) : Boundary(k) /\ latest = Shown(k)
    BY Zenon DEF SnapshotInv, LatestHolds
  <1>2. Boundary(k)'
    <2> SUFFICES ASSUME NEW s \in DOMAIN versions
                 PROVE  /\ s <= k => versions[s].begin \in committed'
                        /\ s > k => \E d \in Client : pc'[d] \in WriterUndecided /\ versions[s].begin = txnID'[d]
      BY Zenon DEF Boundary
    <2>1. s <= k => versions[s].begin \in committed'
      BY <1>1, Zenon DEF Boundary
    <2>2. ASSUME s > k
          PROVE  \E d \in Client : pc'[d] \in WriterUndecided /\ versions[s].begin = txnID'[d]
      <3>1. PICK d \in Client : pc[d] \in WriterUndecided /\ versions[s].begin = txnID[d]
        BY <1>1, <2>2, Zenon DEF Boundary
      <3>2. Wrote(d)
        BY <3>1, Zenon DEF Wrote
      <3> QED
        BY <3>1, <3>2, Zenon
    <2> QED
      BY <2>1, <2>2, Zenon
  <1>3. Shown(k)' = Shown(k)
    BY Zenon DEF Shown
  <1> QED
    BY <1>1, <1>2, <1>3, Zenon DEF LatestHolds

\* The same for a reader whose snapshot a step leaves alone.
LEMMA SameReaderHolds ==
  ASSUME NEW c \in Client, ReaderHolds(c), UNCHANGED versions,
         lastTxnID \in Int, lastTxnID' \in Int, lastTxnID <= lastTxnID',
         snapshotTxn[c] \in Int,
         txnID'[c] = txnID[c], snapshotTxn'[c] = snapshotTxn[c], expect'[c] = expect[c],
         \A s \in DOMAIN versions : versions[s].begin \in committed => versions[s].begin \in committed',
         \A d \in Client : pc'[d] \in WriterUndecided =>
                             \/ pc[d] \in WriterUndecided /\ txnID'[d] = txnID[d]
                             \/ txnID'[d] > lastTxnID /\ txnID'[d] \in Int
  PROVE  ReaderHolds(c)'
  <1>1. PICK k \in 0..Len(versions) : SnapshotEnds(c, k) /\ expect[c] = Shown(k)
    BY Zenon DEF ReaderHolds
  <1>2. SnapshotEnds(c, k)'
    BY <1>1, Zenon DEF SnapshotEnds
  <1>3. Shown(k)' = Shown(k)
    BY Zenon DEF Shown
  <1>4. txnID'[c] = snapshotTxn'[c] /\ snapshotTxn'[c] <= lastTxnID' /\ snapshotTxn[c] <= lastTxnID
    <2>1. snapshotTxn[c] <= lastTxnID /\ txnID[c] = snapshotTxn[c]
      BY Zenon DEF ReaderHolds
    <2> QED
      BY <2>1
  <1>5. ASSUME NEW d \in Client, pc'[d] \in WriterUndecided PROVE txnID'[d] > snapshotTxn'[c]
    <2>1. pc[d] \in WriterUndecided => txnID[d] > snapshotTxn[c]
      BY Zenon DEF ReaderHolds
    <2>2. CASE pc[d] \in WriterUndecided /\ txnID'[d] = txnID[d]
      BY <2>1, <2>2
    <2>3. CASE txnID'[d] > lastTxnID /\ txnID'[d] \in Int
      BY <1>4, <2>3
    <2> QED
      BY <1>5, <2>2, <2>3, Zenon
  <1>6. \E j \in 0..Len(versions') : SnapshotEnds(c, j)' /\ expect'[c] = Shown(j)'
    BY <1>1, <1>2, <1>3, Zenon
  <1> QED
    BY <1>4, <1>5, <1>6, Zenon DEF ReaderHolds

\* The types the steps below use.
LEMMA StoreTypes ==
  ASSUME StoreInv
  PROVE  /\ lastTxnID \in Int /\ metaLastTxnID \in Int
         /\ \A d \in Client : txnID[d] \in Int /\ snapshotTxn[d] \in Int
         /\ \A s \in DOMAIN versions : versions[s].begin \in Int
         /\ Len(versions) \in Nat /\ DOMAIN versions = 1..Len(versions)
  <1>1. /\ versions \in Seq([begin : TxnId, prev : 0..MaxVersions, deleted : BOOLEAN])
        /\ TypeOK
    BY Zenon DEF StoreInv, StoreTypeOK, IInv
  <1>2. \A s \in DOMAIN versions : versions[s].begin \in TxnId
    BY <1>1, BeginsAreIds
  <1>3. TxnId \subseteq Int
    BY TxnAssumption DEF TxnId
  <1>4. lastTxnID \in Int /\ metaLastTxnID \in Int /\ \A d \in Client : txnID[d] \in Int /\ snapshotTxn[d] \in Int
    BY <1>1, <1>3, Zenon DEF TypeOK
  <1>5. Len(versions) \in Nat /\ DOMAIN versions = 1..Len(versions)
    BY <1>1
  <1> QED
    BY <1>2, <1>3, <1>4, <1>5, Zenon

\* A step that neither takes a snapshot, writes nor publishes.
LEMMA KeepHolds ==
  ASSUME SnapshotInv, ~Failures, NEW c \in Client, KeepStep(c), Keep
  PROVE  LatestHolds' /\ ReadersHold'
  <1>1. /\ UNCHANGED <<versions, directory, latest, expect, quiet, committed, lastTxnID, txnID, snapshotTxn>>
        /\ \A d \in Client : pc[d] \in WriterUndecided /\ Wrote(d) => pc'[d] \in WriterUndecided
        /\ \A d \in Client : pc'[d] \in WriterUndecided => pc[d] \in WriterUndecided
        /\ \A d \in Client : pc'[d] \in {"loaded", "reading"} => pc[d] \in {"loaded", "reading"}
    BY KeepEffect, Zenon DEF SnapshotInv, StoreInv, IInv
  <1>2. LatestHolds'
    BY <1>1, SameChainHolds, Zenon
  <1>3. ASSUME NEW r \in Client, pc'[r] \in {"loaded", "reading"}, quiet'[r] PROVE ReaderHolds(r)'
    <2>1. ReaderHolds(r)
      BY <1>1, <1>3, Zenon DEF SnapshotInv, ReadersHold
    <2>2. lastTxnID \in Int /\ snapshotTxn[r] \in Int /\ lastTxnID' = lastTxnID
      BY <1>1, StoreTypes, Zenon DEF SnapshotInv
    <2>3. lastTxnID <= lastTxnID' /\ lastTxnID' \in Int
      BY <2>2
    <2> QED
      BY <1>1, <2>1, <2>2, <2>3, SameReaderHolds, Zenon
  <1> QED
    BY <1>2, <1>3, Zenon DEF ReadersHold

\* Begin(true) that meets no writer: the chain up to its end is committed, and
\* what it ends with is what the last commit left.
LEMMA BeginReadHolds ==
  ASSUME SnapshotInv, NEW c \in Client, BeginReadLoad(c), Snapshot(c)
  PROVE  LatestHolds' /\ ReadersHold'
  <1>0. /\ versions' = versions /\ latest' = latest /\ committed' = committed /\ lastTxnID' = lastTxnID
        /\ pc[c] = "idle" /\ pc' = [pc EXCEPT ![c] = "loaded"]
        /\ snapshotTxn' = [snapshotTxn EXCEPT ![c] = lastTxnID]
        /\ txnID' = [txnID EXCEPT ![c] = lastTxnID]
        /\ expect' = [expect EXCEPT ![c] = latest]
        /\ quiet' = [quiet EXCEPT ![c] = \A d \in Client : pc[d] \notin WriterUndecided]
    BY Zenon DEF BeginReadLoad, Snapshot, Goto, store, manager, history
  <1>1. /\ lastTxnID \in Int
        /\ \A d \in Client : txnID[d] \in Int /\ snapshotTxn[d] \in Int
        /\ \A s \in DOMAIN versions : versions[s].begin \in Int
        /\ Len(versions) \in Nat /\ DOMAIN versions = 1..Len(versions)
    BY StoreTypes, Zenon DEF SnapshotInv
  <1>2. /\ pc'[c] = "loaded" /\ snapshotTxn'[c] = lastTxnID /\ txnID'[c] = lastTxnID /\ expect'[c] = latest
        /\ quiet'[c] = (\A d \in Client : pc[d] \notin WriterUndecided)
        /\ \A d \in Client : d # c => /\ pc'[d] = pc[d] /\ snapshotTxn'[d] = snapshotTxn[d]
                                      /\ txnID'[d] = txnID[d] /\ expect'[d] = expect[d] /\ quiet'[d] = quiet[d]
    <2>1. /\ pc \in [Client -> {"idle", "loaded", "reading", "waiting", "unlocked"} \cup WriterHolding]
          /\ snapshotTxn \in [Client -> TxnId] /\ txnID \in [Client -> TxnId]
          /\ expect \in [Client -> 0..MaxVersions] /\ quiet \in [Client -> BOOLEAN]
      BY Zenon DEF SnapshotInv, StoreInv, StoreTypeOK, IInv, TypeOK
    <2> QED
      BY <1>0, <2>1, Zenon
  <1>3. \A d \in Client : pc[d] \in WriterUndecided => d # c
    BY <1>0 DEF WriterUndecided
  <1>4. LatestHolds'
    BY <1>0, <1>2, <1>3, SameChainHolds, Zenon
  <1>5. ASSUME NEW r \in Client, r # c, pc'[r] \in {"loaded", "reading"}, quiet'[r] PROVE ReaderHolds(r)'
    <2>1. ReaderHolds(r)
      BY <1>2, <1>5, Zenon DEF SnapshotInv, ReadersHold
    <2>2. lastTxnID <= lastTxnID' /\ lastTxnID' \in Int
      BY <1>0, <1>1
    <2>3. \A d \in Client : pc'[d] \in WriterUndecided => pc[d] \in WriterUndecided /\ txnID'[d] = txnID[d]
      BY <1>2 DEF WriterUndecided
    <2>4. /\ txnID'[r] = txnID[r] /\ snapshotTxn'[r] = snapshotTxn[r] /\ expect'[r] = expect[r]
          /\ snapshotTxn[r] \in Int
      BY <1>1, <1>2, <1>5, Zenon
    <2> QED
      BY <1>0, <1>1, <2>1, <2>2, <2>3, <2>4, SameReaderHolds, Zenon
  <1>6. ASSUME quiet'[c] PROVE ReaderHolds(c)'
    <2>1. \A d \in Client : pc[d] \notin WriterUndecided
      BY <1>2, <1>6, Zenon
    <2>2. PICK k \in 0..Len(versions) : Boundary(k) /\ latest = Shown(k)
      BY Zenon DEF SnapshotInv, LatestHolds
    <2>3. \A s \in DOMAIN versions : versions[s].begin \in committed /\ s <= k
      <3> TAKE s \in DOMAIN versions
      <3>1. ~(s > k)
        BY <2>1, <2>2, Zenon DEF Boundary
      <3>2. s <= k
        BY <1>1, <2>2, <3>1
      <3> QED
        BY <2>2, <3>2, Zenon DEF Boundary
    <2>4. SnapshotEnds(c, k)'
      <3> SUFFICES ASSUME NEW s \in DOMAIN versions
                   PROVE  /\ versions[s].begin <= lastTxnID /\ versions[s].begin \in committed
                          /\ ~(s > k)
        BY <1>0, <1>2, Zenon DEF SnapshotEnds
      <3>1. versions[s].begin <= lastTxnID
        BY Zenon DEF SnapshotInv, StoreInv, Chained
      <3> QED
        BY <1>1, <2>2, <2>3, <3>1
    <2>5. Shown(k)' = Shown(k)
      BY <1>0, Zenon DEF Shown
    <2>6. \E j \in 0..Len(versions') : SnapshotEnds(c, j)' /\ expect'[c] = Shown(j)'
      BY <1>0, <1>2, <2>2, <2>4, <2>5, Zenon
    <2>7. \A d \in Client : pc'[d] \notin WriterUndecided
      BY <1>2, <2>1 DEF WriterUndecided
    <2>8. snapshotTxn'[c] <= lastTxnID' /\ txnID'[c] = snapshotTxn'[c]
      BY <1>0, <1>1, <1>2
    <2> QED
      BY <2>6, <2>7, <2>8, Zenon DEF ReaderHolds
  <1> QED
    BY <1>4, <1>5, <1>6, Zenon DEF ReadersHold

\* Begin(false): the new id is above every snapshot.
LEMMA BeginWriteHolds ==
  ASSUME SnapshotInv, NEW c \in Client, BeginWriteNumber(c), Snapshot(c)
  PROVE  LatestHolds' /\ ReadersHold'
  <1>0. /\ versions' = versions /\ latest' = latest /\ committed' = committed /\ lastTxnID' = lastTxnID + 1
        /\ pc[c] = "locked" /\ pc' = [pc EXCEPT ![c] = "numbered"]
        /\ snapshotTxn' = [snapshotTxn EXCEPT ![c] = lastTxnID]
        /\ txnID' = [txnID EXCEPT ![c] = lastTxnID + 1]
        /\ expect' = [expect EXCEPT ![c] = latest]
        /\ quiet' = [quiet EXCEPT ![c] = \A d \in Client : pc[d] \notin WriterUndecided]
    BY Zenon DEF BeginWriteNumber, Snapshot, Goto, store, manager, history
  <1>1. /\ lastTxnID \in Int
        /\ \A d \in Client : snapshotTxn[d] \in Int
    BY StoreTypes, Zenon DEF SnapshotInv
  <1>2. /\ pc'[c] = "numbered" /\ txnID'[c] = lastTxnID + 1
        /\ \A d \in Client : d # c => /\ pc'[d] = pc[d] /\ snapshotTxn'[d] = snapshotTxn[d]
                                      /\ txnID'[d] = txnID[d] /\ expect'[d] = expect[d] /\ quiet'[d] = quiet[d]
    <2>1. /\ pc \in [Client -> {"idle", "loaded", "reading", "waiting", "unlocked"} \cup WriterHolding]
          /\ snapshotTxn \in [Client -> TxnId] /\ txnID \in [Client -> TxnId]
          /\ expect \in [Client -> 0..MaxVersions] /\ quiet \in [Client -> BOOLEAN]
      BY Zenon DEF SnapshotInv, StoreInv, StoreTypeOK, IInv, TypeOK
    <2> QED
      BY <1>0, <2>1, Zenon
  <1>3. \A d \in Client : pc[d] \in WriterUndecided => d # c
    BY <1>0 DEF WriterUndecided
  <1>4. LatestHolds'
    BY <1>0, <1>2, <1>3, SameChainHolds, Zenon
  <1>5. ASSUME NEW r \in Client, pc'[r] \in {"loaded", "reading"}, quiet'[r] PROVE ReaderHolds(r)'
    <2>0. r # c
      BY <1>2, <1>5
    <2>1. ReaderHolds(r)
      BY <1>2, <1>5, <2>0, Zenon DEF SnapshotInv, ReadersHold
    <2>2. lastTxnID <= lastTxnID' /\ lastTxnID' \in Int
      BY <1>0, <1>1
    <2>3. \A d \in Client : pc'[d] \in WriterUndecided =>
                             \/ pc[d] \in WriterUndecided /\ txnID'[d] = txnID[d]
                             \/ txnID'[d] > lastTxnID /\ txnID'[d] \in Int
      BY <1>1, <1>2
    <2>4. /\ txnID'[r] = txnID[r] /\ snapshotTxn'[r] = snapshotTxn[r] /\ expect'[r] = expect[r]
          /\ snapshotTxn[r] \in Int
      BY <1>1, <1>2, <2>0, Zenon
    <2> QED
      BY <1>0, <1>1, <2>1, <2>2, <2>3, <2>4, SameReaderHolds, Zenon
  <1> QED
    BY <1>4, <1>5, Zenon DEF ReadersHold

\* Commit: the versions of the writer join the committed ones.
LEMMA CommitHolds ==
  ASSUME SnapshotInv, NEW c \in Client, CommitPublish(c), Publish(c)
  PROVE  LatestHolds' /\ ReadersHold'
  <1>0. /\ versions' = versions /\ latest' = (IF Wrote(c) THEN Own(c) ELSE latest)
        /\ committed' = committed \cup {txnID[c]} /\ lastTxnID' = lastTxnID
        /\ pc[c] = "synced" /\ pc' = [pc EXCEPT ![c] = "ending"]
        /\ snapshotTxn' = snapshotTxn /\ txnID' = txnID /\ expect' = expect /\ quiet' = quiet
    BY Zenon DEF CommitPublish, Publish, Goto, store
  <1>1. /\ lastTxnID \in Int
        /\ \A d \in Client : snapshotTxn[d] \in Int
        /\ \A s \in DOMAIN versions : versions[s].begin \in Int
        /\ Len(versions) \in Nat /\ DOMAIN versions = 1..Len(versions)
    BY StoreTypes, Zenon DEF SnapshotInv
  <1>2. pc'[c] = "ending" /\ \A d \in Client : d # c => pc'[d] = pc[d]
    <2>1. pc \in [Client -> {"idle", "loaded", "reading", "waiting", "unlocked"} \cup WriterHolding]
      BY Zenon DEF SnapshotInv, StoreInv, IInv, TypeOK
    <2> QED
      BY <1>0, <2>1, Zenon
  <1>3. pc[c] \in WriterUndecided
    BY <1>0 DEF WriterUndecided
  <1>4. LatestHolds'
    <2>1. CASE ~Wrote(c)
      <3>1. \A d \in Client : pc[d] \in WriterUndecided /\ Wrote(d) => pc'[d] \in WriterUndecided
        BY <1>2, <2>1, Zenon
      <3> QED
        BY <1>0, <2>1, <3>1, SameChainHolds, Zenon
    <2>2. CASE Wrote(c)
      <3>1. PICK k \in 0..Len(versions) : Boundary(k) /\ latest = Shown(k)
        BY Zenon DEF SnapshotInv, LatestHolds
      <3>2. ASSUME NEW s \in DOMAIN versions PROVE versions[s].begin \in committed' /\ ~(s > Len(versions))
        <4>0. ~(s > Len(versions))
          BY <1>1
        <4>1. CASE s <= k
          BY <1>0, <3>1, <4>0, <4>1, Zenon DEF Boundary
        <4>2. CASE s > k
          <5>1. PICK d \in Client : pc[d] \in WriterUndecided /\ versions[s].begin = txnID[d]
            BY <3>1, <4>2, Zenon DEF Boundary
          <5>2. d = c
            BY <1>3, <5>1, OneWriter, Zenon DEF SnapshotInv, StoreInv
          <5> QED
            BY <1>0, <4>0, <5>1, <5>2, Zenon
        <4>3. s <= k \/ s > k
          BY <1>1, <3>1
        <4> QED
          BY <4>1, <4>2, <4>3, Zenon
      <3>3. Boundary(Len(versions))'
        BY <1>0, <3>2, Zenon DEF Boundary
      <3>4. latest' = Shown(Len(versions))
        BY <1>0, <1>3, <2>2, OwnIsLast, Zenon DEF SnapshotInv
      <3>5. Shown(Len(versions))' = Shown(Len(versions))
        BY <1>0, Zenon DEF Shown
      <3>6. Len(versions) \in 0..Len(versions')
        BY <1>0, <1>1
      <3> QED
        BY <1>0, <3>3, <3>4, <3>5, <3>6, Zenon DEF LatestHolds
    <2> QED
      BY <2>1, <2>2
  <1>5. ASSUME NEW r \in Client, pc'[r] \in {"loaded", "reading"}, quiet'[r] PROVE ReaderHolds(r)'
    <2>0. r # c
      BY <1>2, <1>5
    <2>1. ReaderHolds(r)
      BY <1>0, <1>2, <1>5, <2>0, Zenon DEF SnapshotInv, ReadersHold
    <2>2. lastTxnID <= lastTxnID' /\ lastTxnID' \in Int
      BY <1>0, <1>1
    <2>3. \A d \in Client : pc'[d] \in WriterUndecided => pc[d] \in WriterUndecided
      BY <1>2 DEF WriterUndecided
    <2> QED
      BY <1>0, <1>1, <2>1, <2>2, <2>3, SameReaderHolds, Zenon
  <1> QED
    BY <1>4, <1>5, Zenon DEF ReadersHold

\* WriteRecord: the new version is after every snapshot.
LEMMA WriteHolds ==
  ASSUME SnapshotInv, NEW c \in Client, NEW delete \in BOOLEAN, WriteRecord(c, delete)
  PROVE  LatestHolds' /\ ReadersHold'
  <1>0. /\ UNCHANGED <<vars, recorded>> /\ pc[c] = "writing"
        /\ Len(versions') = Len(versions) + 1 /\ Len(versions) \in Nat
        /\ DOMAIN versions = 1..Len(versions) /\ DOMAIN versions' = 1..Len(versions')
        /\ \A s \in 1..Len(versions) : versions'[s] = versions[s]
        /\ versions'[Len(versions')].begin = txnID[c]
    <2>1. [begin |-> txnID[c], prev |-> Len(versions), deleted |-> delete].begin = txnID[c]
      OBVIOUS
    <2> QED
      BY <2>1, WriteEffect, Zenon DEF SnapshotInv
  <1>1. /\ pc' = pc /\ txnID' = txnID /\ snapshotTxn' = snapshotTxn /\ lastTxnID' = lastTxnID
        /\ committed' = committed /\ latest' = latest /\ expect' = expect /\ quiet' = quiet
    BY <1>0, Zenon DEF vars, manager, history, recorded
  <1>2. pc[c] \in WriterUndecided
    BY <1>0 DEF WriterUndecided
  <1>3. \A s \in DOMAIN versions' : s \in DOMAIN versions \/ s = Len(versions')
    BY <1>0
  <1>4. ASSUME NEW k \in 0..Len(versions) PROVE Shown(k)' = Shown(k) /\ Len(versions') > k /\ k \in 0..Len(versions')
    <2>1. k = 0 \/ k \in 1..Len(versions)
      BY <1>0
    <2>2. Len(versions') > k /\ k \in 0..Len(versions')
      BY <1>0
    <2>3. Shown(k)' = Shown(k)
      BY <1>0, <2>1, Zenon DEF Shown
    <2> QED
      BY <2>2, <2>3
  <1>5. LatestHolds'
    <2>1. PICK k \in 0..Len(versions) : Boundary(k) /\ latest = Shown(k)
      BY Zenon DEF SnapshotInv, LatestHolds
    <2>2. ASSUME NEW s \in DOMAIN versions'
          PROVE  /\ s <= k => versions'[s].begin \in committed
                 /\ s > k => \E d \in Client : pc[d] \in WriterUndecided /\ versions'[s].begin = txnID[d]
      <3>1. CASE s \in DOMAIN versions
        BY <1>0, <2>1, <3>1, Zenon DEF Boundary
      <3>2. CASE s = Len(versions')
        <4>1. ~(s <= k)
          BY <1>0, <3>2
        <4> QED
          BY <1>0, <1>2, <3>2, <4>1, Zenon
      <3> QED
        BY <1>3, <3>1, <3>2, Zenon
    <2>3. Boundary(k)'
      BY <1>1, <2>2, Zenon DEF Boundary
    <2> QED
      BY <1>1, <1>4, <2>1, <2>3, Zenon DEF LatestHolds
  <1>6. ASSUME NEW r \in Client, pc'[r] \in {"loaded", "reading"}, quiet'[r] PROVE ReaderHolds(r)'
    <2>1. ReaderHolds(r)
      BY <1>1, <1>6, Zenon DEF SnapshotInv, ReadersHold
    <2>2. PICK k \in 0..Len(versions) : SnapshotEnds(r, k) /\ expect[r] = Shown(k)
      BY <2>1, Zenon DEF ReaderHolds
    <2>3. txnID[c] > snapshotTxn[r]
      BY <1>2, <2>1, Zenon DEF ReaderHolds
    <2>4. ASSUME NEW s \in DOMAIN versions'
          PROVE  /\ s <= k => versions'[s].begin <= snapshotTxn[r] /\ versions'[s].begin \in committed
                 /\ s > k => versions'[s].begin > snapshotTxn[r]
      <3>1. CASE s \in DOMAIN versions
        BY <1>0, <2>2, <3>1, Zenon DEF SnapshotEnds
      <3>2. CASE s = Len(versions')
        <4>1. ~(s <= k)
          BY <1>0, <3>2
        <4> QED
          BY <1>0, <2>3, <3>2, <4>1, Zenon
      <3> QED
        BY <1>3, <3>1, <3>2, Zenon
    <2>5. SnapshotEnds(r, k)'
      BY <1>1, <2>4, Zenon DEF SnapshotEnds
    <2>6. \E j \in 0..Len(versions') : SnapshotEnds(r, j)' /\ expect'[r] = Shown(j)'
      BY <1>1, <1>4, <2>2, <2>5, Zenon
    <2> QED
      BY <1>1, <2>1, <2>6, Zenon DEF ReaderHolds
  <1> QED
    BY <1>5, <1>6, Zenon DEF ReadersHold

\* Every step keeps the snapshots, where no writer fails after a write.
LEMMA SnapshotInvStep ==
  ASSUME ~Failures PROVE SnapshotInv /\ [StoreNext]_storeVars => SnapshotInv'
  <1> SUFFICES ASSUME SnapshotInv, [StoreNext]_storeVars PROVE SnapshotInv'
    OBVIOUS
  <1>1. StoreInv'
    BY StoreInvStep, Zenon DEF SnapshotInv
  <1>2. CASE UNCHANGED storeVars
    <2>1. /\ pc' = pc /\ txnID' = txnID /\ snapshotTxn' = snapshotTxn /\ lastTxnID' = lastTxnID
          /\ committed' = committed /\ latest' = latest /\ expect' = expect /\ quiet' = quiet
          /\ versions' = versions
      BY <1>2, Zenon DEF storeVars, vars, manager, history, recorded, store
    <2>2. \A k : Shown(k)' = Shown(k) /\ Boundary(k)' = Boundary(k)
      BY <2>1, Zenon DEF Shown, Boundary
    <2>3. LatestHolds'
      BY <2>1, <2>2, Zenon DEF SnapshotInv, LatestHolds
    <2>4. \A c \in Client : \A k : SnapshotEnds(c, k)' = SnapshotEnds(c, k)
      BY <2>1, Zenon DEF SnapshotEnds
    <2>5. \A c \in Client : ReaderHolds(c) => ReaderHolds(c)'
      BY <2>1, <2>2, <2>4, Zenon DEF ReaderHolds
    <2>6. ReadersHold'
      BY <2>1, <2>5, Zenon DEF SnapshotInv, ReadersHold
    <2> QED
      BY <1>1, <2>3, <2>6 DEF SnapshotInv
  <1>3. ASSUME StoreNext PROVE LatestHolds' /\ ReadersHold'
    <2>1. PICK c \in Client :
            \/ \E delete \in BOOLEAN : WriteRecord(c, delete)
            \/ BeginReadLoad(c) /\ Snapshot(c)
            \/ BeginWriteNumber(c) /\ Snapshot(c)
            \/ CommitPublish(c) /\ Publish(c)
            \/ KeepStep(c) /\ Keep
      BY <1>3, Zenon DEF StoreNext, KeepStep
    <2> QED
      BY <2>1, WriteHolds, BeginReadHolds, BeginWriteHolds, CommitHolds, KeepHolds, Zenon
  <1> QED
    BY <1>1, <1>2, <1>3, Zenon DEF SnapshotInv

\* The invariants hold of an empty store.
LEMMA StoreInitHolds == StoreInit => SnapshotInv
  <1> SUFFICES ASSUME StoreInit PROVE SnapshotInv
    OBVIOUS
  <1>1. IInv
    BY InitInductive DEF StoreInit
  <1>2. versions = <<>> /\ directory = 0 /\ latest = 0 /\ expect = [c \in Client |-> 0] /\ quiet = [c \in Client |-> FALSE]
    BY DEF StoreInit
  <1>3. Len(versions) = 0 /\ DOMAIN versions = {}
    BY <1>2
  <1>4. StoreTypeOK
    BY <1>2, <1>3, StoreAssumption DEF StoreTypeOK
  <1>5. Chained
    BY <1>2, <1>3 DEF Chained
  <1>6. LatestHolds
    <2>1. 0 \in 0..Len(versions)
      BY <1>3
    <2>2. Boundary(0) /\ Shown(0) = 0
      BY <1>3, Zenon DEF Boundary, Shown
    <2> QED
      BY <1>2, <2>1, <2>2, Zenon DEF LatestHolds
  <1>7. ReadersHold
    BY <1>2 DEF ReadersHold
  <1> QED
    BY <1>1, <1>4, <1>5, <1>6, <1>7 DEF SnapshotInv, StoreInv

\* StoreInv is an invariant, failed commits and all.
LEMMA StoreInductive == StoreSpec => []StoreInv
  <1>1. StoreInit => StoreInv
    BY StoreInitHolds DEF SnapshotInv
  <1> QED
    BY <1>1, StoreInvStep, PTL DEF StoreSpec

\* The store keeps its types whatever fails.
THEOREM StoreTypeCorrect == StoreSpec => []StoreTypeOK
  <1>1. StoreInv => StoreTypeOK
    BY DEF StoreInv
  <1> QED
    BY <1>1, StoreInductive, PTL

\* SnapshotInv is an invariant where no writer fails after a write.
LEMMA SnapshotInductive == ASSUME ~Failures PROVE StoreSpec => []SnapshotInv
  BY StoreInitHolds, SnapshotInvStep, PTL DEF StoreSpec

\* The walk of a read: from the directory along the chain, until it stops.
Walked(c, w) ==
  w = [n \in 0..MaxVisited - 1 |->
         IF n = 0 THEN directory
         ELSE IF Stops(c, w[n - 1]) THEN w[n - 1] ELSE versions[w[n - 1]].prev]

\* Visits is a walk if there is one.
LEMMA VisitsChoose ==
  ASSUME NEW c PROVE Visits(c) = CHOOSE w : Walked(c, w)
  BY Zenon DEF Visits, Walked

\* Where a walk is after n steps if it meets slot k first that stops it.
Position(k, n) == IF Len(versions) - n >= k THEN Len(versions) - n ELSE k

\* The read meets the first version that is visible to it, and stays there.
LEMMA VisitsReach ==
  ASSUME StoreInv, NEW c \in Client, NEW k \in 0..Len(versions),
         k = 0 \/ IsVisible(c, versions[k]),
         \A s \in DOMAIN versions : s > k => ~IsVisible(c, versions[s])
  PROVE  \A n \in 0..MaxVisited - 1 : Visits(c)[n] = Position(k, n)
  <1>0. /\ directory = Len(versions) /\ Len(versions) \in Nat /\ DOMAIN versions = 1..Len(versions)
        /\ \A s \in 1..Len(versions) : versions[s].prev = s - 1
    <2>1. Len(versions) \in Nat /\ DOMAIN versions = 1..Len(versions)
      BY StoreTypes, Zenon
    <2> QED
      BY <2>1, Zenon DEF StoreInv, Chained
  <1>1. k \in Nat /\ k <= Len(versions) /\ MaxVisited \in Nat \ {0}
    BY <1>0, StoreAssumption
  <1>2. Stops(c, k)
    BY Zenon DEF Stops
  <1>3. ASSUME NEW n \in Nat
        PROVE  Position(k, n + 1) = IF Stops(c, Position(k, n)) THEN Position(k, n) ELSE versions[Position(k, n)].prev
    <2>1. CASE Len(versions) - n > k
      <3>1. Position(k, n) = Len(versions) - n /\ Position(k, n + 1) = Len(versions) - n - 1
        BY <1>0, <1>1, <2>1 DEF Position
      <3>2. Len(versions) - n \in 1..Len(versions) /\ Len(versions) - n # 0
        BY <1>0, <1>1, <2>1
      <3>3. ~Stops(c, Len(versions) - n)
        BY <1>0, <2>1, <3>2, Zenon DEF Stops
      <3> QED
        BY <1>0, <3>1, <3>2, <3>3, Zenon
    <2>2. CASE Len(versions) - n <= k
      <3>1. Position(k, n) = k /\ Position(k, n + 1) = k
        BY <1>0, <1>1, <2>2 DEF Position
      <3> QED
        BY <1>2, <3>1, Zenon
    <2> QED
      BY <1>0, <1>1, <2>1, <2>2
  <1>4. Position(k, 0) = directory
    BY <1>0, <1>1 DEF Position
  <1> DEFINE W == [n \in 0..MaxVisited - 1 |-> Position(k, n)]
  <1>5. Walked(c, W)
    <2>1. ASSUME NEW n \in 0..MaxVisited - 1
          PROVE  Position(k, n) = IF n = 0 THEN directory
                                  ELSE IF Stops(c, W[n - 1]) THEN W[n - 1] ELSE versions[W[n - 1]].prev
      <3>1. CASE n = 0
        BY <1>4, <3>1
      <3>2. CASE n # 0
        <4>1. n - 1 \in Nat /\ n - 1 \in 0..MaxVisited - 1 /\ (n - 1) + 1 = n
          BY <1>1, <3>2
        <4>2. W[n - 1] = Position(k, n - 1)
          BY <4>1, Zenon
        <4>3. Position(k, n) = IF Stops(c, Position(k, n - 1)) THEN Position(k, n - 1)
                               ELSE versions[Position(k, n - 1)].prev
          BY <1>3, <4>1, Zenon
        <4> QED
          BY <3>2, <4>2, <4>3, Zenon
      <3> QED
        BY <3>1, <3>2
    <2> QED
      BY <2>1, Zenon DEF Walked
  <1> DEFINE V == Visits(c)
  <1>6. Walked(c, V)
    BY <1>5, VisitsChoose, Zenon
  <1> HIDE DEF V, W
  <1>7. V[0] = directory /\ \A n \in 1..MaxVisited - 1 :
          V[n] = IF Stops(c, V[n - 1]) THEN V[n - 1] ELSE versions[V[n - 1]].prev
    <2>1. \A n \in 0..MaxVisited - 1 : V[n] = IF n = 0 THEN directory
            ELSE IF Stops(c, V[n - 1]) THEN V[n - 1] ELSE versions[V[n - 1]].prev
      BY <1>6, Zenon DEF Walked
    <2>2. 0 \in 0..MaxVisited - 1 /\ \A n \in 1..MaxVisited - 1 : n \in 0..MaxVisited - 1 /\ n # 0
      BY <1>1
    <2> QED
      BY <2>1, <2>2, Zenon
  <1> DEFINE Bad == {n \in 0..MaxVisited - 1 : V[n] # Position(k, n)}
  <1>8. Bad = {}
    <2> SUFFICES ASSUME Bad # {} PROVE FALSE
      OBVIOUS
    <2>1. Bad \in SUBSET Nat
      BY <1>1
    <2>2. PICK x \in Bad : \A y \in Bad : x <= y
      BY <2>1, LeastNat, Zenon
    <2>3. x # 0
      BY <1>4, <1>7, <2>2, Zenon
    <2>4. x \in 1..MaxVisited - 1 /\ x - 1 \in 0..MaxVisited - 1 /\ x - 1 \in Nat /\ (x - 1) + 1 = x /\ ~(x <= x - 1)
      BY <1>1, <2>1, <2>2, <2>3
    <2>5. V[x - 1] = Position(k, x - 1)
      BY <2>2, <2>4, Zenon
    <2>6. V[x] = Position(k, x)
      BY <1>3, <1>7, <2>4, <2>5, Zenon
    <2> QED
      BY <2>2, <2>6, Zenon
  <1> QED
    BY <1>8, Zenon DEF V

\* What ReadRecord returns, where the chain is no longer than a read may visit
\* or the read need not leave the newest version.
LEMMA ReadShows ==
  ASSUME StoreInv, NEW c \in Client, NEW k \in 0..Len(versions),
         k = 0 \/ IsVisible(c, versions[k]),
         \A s \in DOMAIN versions : s > k => ~IsVisible(c, versions[s]),
         k = Len(versions) \/ MaxVersions <= MaxVisited
  PROVE  ReadRecord(c) = Shown(k)
  <1>0. Len(versions) \in Nat /\ DOMAIN versions = 1..Len(versions) /\ Len(versions) <= MaxVersions
    BY StoreTypes, Zenon DEF StoreInv, StoreTypeOK
  <1>1. MaxVisited \in Nat \ {0} /\ MaxVersions \in Nat
    BY StoreAssumption, Zenon
  <1> DEFINE last == Visits(c)[MaxVisited - 1]
  <1>2. last = Position(k, MaxVisited - 1)
    <2>1. MaxVisited - 1 \in 0..MaxVisited - 1
      BY <1>0, <1>1, LastVisited, Zenon
    <2> QED
      BY <2>1, VisitsReach, Zenon
  <1> HIDE DEF last
  <1>3. ReadRecord(c) = IF last # 0 /\ Stops(c, last) /\ ~versions[last].deleted THEN last ELSE 0
    BY Zenon DEF ReadRecord, last
  <1>4. CASE k # 0
    <2>1. last = k
      BY <1>0, <1>1, <1>2, <1>4, LastVisited, Zenon DEF Position
    <2> QED
      BY <1>3, <1>4, <2>1, Zenon DEF Stops, Shown
  <1>5. CASE k = 0
    <2>1. last = 0 \/ (last \in DOMAIN versions /\ last > k)
      BY <1>0, <1>1, <1>2, <1>5, LastVisited, Zenon DEF Position
    <2> QED
      BY <1>3, <1>5, <2>1, Zenon DEF Stops, Shown
  <1> QED
    BY <1>4, <1>5

\* A read-only transaction whose Begin met no writer reads what the record was
\* then, where no writer fails after a write and the record has no more versions
\* than a read visits.
THEOREM SnapshotsAreStable ==
  ASSUME ~Failures, MaxVersions <= MaxVisited PROVE StoreSpec => []StableSnapshot
  <1>1. SnapshotInv => StableSnapshot
    <2> SUFFICES ASSUME SnapshotInv, NEW c \in Client, pc[c] = "reading", quiet[c]
                 PROVE  ReadRecord(c) = expect[c]
      BY Zenon DEF StableSnapshot
    <2>1. ReaderHolds(c)
      BY Zenon DEF SnapshotInv, ReadersHold
    <2>2. PICK k \in 0..Len(versions) : SnapshotEnds(c, k) /\ expect[c] = Shown(k)
      BY <2>1, Zenon DEF ReaderHolds
    <2>3. /\ metaLastTxnID \in Int /\ txnID[c] \in Int /\ snapshotTxn[c] \in Int
          /\ \A s \in DOMAIN versions : versions[s].begin \in Int
          /\ Len(versions) \in Nat /\ DOMAIN versions = 1..Len(versions)
      BY StoreTypes, Zenon DEF SnapshotInv
    <2>4. k = 0 \/ IsVisible(c, versions[k])
      <3>1. k = 0 \/ (k \in DOMAIN versions /\ k <= k)
        BY <2>2, <2>3, WalkArithmetic, Zenon
      <3>2. \A id \in committed : id <= metaLastTxnID
        BY Zenon DEF SnapshotInv, StoreInv, IInv, OrderHolds
      <3> QED
        BY <2>2, <3>1, <3>2, Zenon DEF SnapshotEnds, IsVisible, IsCommitted
    <2>5. ASSUME NEW s \in DOMAIN versions, s > k PROVE ~IsVisible(c, versions[s])
      <3>1. versions[s].begin > snapshotTxn[c] /\ txnID[c] = snapshotTxn[c]
        BY <2>1, <2>2, <2>5, Zenon DEF SnapshotEnds, ReaderHolds
      <3>2. versions[s].begin # txnID[c] /\ ~(versions[s].begin <= snapshotTxn[c])
        BY <2>3, <3>1
      <3> QED
        BY <3>2, Zenon DEF IsVisible
    <2> QED
      BY <2>2, <2>4, <2>5, ReadShows, Zenon DEF SnapshotInv
  <1> QED
    BY <1>1, SnapshotInductive, PTL

\* A writer reads its own last version, and before that what the last commit
\* left, where no writer fails after a write.
THEOREM WritersReadLatest ==
  ASSUME ~Failures PROVE StoreSpec => []WriterReadsLatest
  <1>1. SnapshotInv => WriterReadsLatest
    <2> SUFFICES ASSUME SnapshotInv, NEW c \in Client, pc[c] \in WriterUndecided
                 PROVE  ReadRecord(c) = IF Wrote(c) THEN Own(c) ELSE latest
      BY Zenon DEF WriterReadsLatest
    <2> DEFINE n == Len(versions)
    <2>0. /\ metaLastTxnID \in Int /\ snapshotTxn[c] \in Int
          /\ \A s \in DOMAIN versions : versions[s].begin \in Int
          /\ n \in Nat /\ DOMAIN versions = 1..n
      BY StoreTypes, Zenon DEF SnapshotInv
    <2>1. n \in 0..n /\ (\A s \in DOMAIN versions : ~(s > n)) /\ (n = 0 \/ n \in DOMAIN versions)
      BY <2>0, EndArithmetic, Zenon
    <2>2. CASE Wrote(c)
      <3>1. versions[n].begin = txnID[c] /\ Own(c) = Shown(n)
        BY <2>2, OwnIsLast, Zenon DEF SnapshotInv
      <3>2. IsVisible(c, versions[n])
        BY <3>1, Zenon DEF IsVisible
      <3>3. ReadRecord(c) = Shown(n)
        BY <2>1, <3>2, ReadShows, Zenon DEF SnapshotInv
      <3> QED
        BY <2>2, <3>1, <3>3, Zenon
    <2>3. CASE ~Wrote(c)
      <3>1. PICK k \in 0..n : Boundary(k) /\ latest = Shown(k)
        BY Zenon DEF SnapshotInv, LatestHolds
      <3>2. \A s \in DOMAIN versions : ~(s > k)
        <4> SUFFICES ASSUME NEW s \in DOMAIN versions, s > k PROVE FALSE
          BY Zenon
        <4>1. PICK d \in Client : pc[d] \in WriterUndecided /\ versions[s].begin = txnID[d]
          BY <3>1, Zenon DEF Boundary
        <4>2. d = c
          BY <4>1, OneWriter, Zenon DEF SnapshotInv, StoreInv
        <4> QED
          BY <2>3, <4>1, <4>2, Zenon DEF Wrote
      <3>3. k = n /\ (n = 0 \/ (n \in DOMAIN versions /\ n <= k))
        <4>1. k = n
          BY <2>0, <3>1, <3>2, WalkArithmetic, Zenon
        <4> QED
          BY <2>0, <4>1, EndArithmetic, Zenon
      <3>4. n = 0 \/ IsVisible(c, versions[n])
        <4>1. ASSUME n # 0 PROVE IsVisible(c, versions[n])
          <5>1. versions[n].begin \in committed
            BY <3>1, <3>3, <4>1, Zenon DEF Boundary
          <5>2. versions[n].begin <= metaLastTxnID /\ metaLastTxnID <= snapshotTxn[c]
            BY <5>1, Zenon DEF SnapshotInv, StoreInv, IInv, OrderHolds
          <5>3. versions[n].begin <= snapshotTxn[c]
            BY <2>0, <3>3, <4>1, <5>2
          <5> QED
            BY <5>2, <5>3, Zenon DEF IsVisible, IsCommitted
        <4> QED
          BY <4>1
      <3>5. ReadRecord(c) = Shown(n)
        BY <2>1, <3>4, ReadShows, Zenon DEF SnapshotInv
      <3> QED
        BY <2>3, <3>1, <3>3, <3>5, Zenon
    <2> QED
      BY <2>2, <2>3
  <1> QED
    BY <1>1, SnapshotInductive, PTL
==============================================================================
