-------------------------- MODULE WalRecoveryProofs --------------------------
(***************************************************************************)
(* The proofs that every step of WalRecovery keeps the transactions named  *)
(* in the pages and in the log, what is committed in sight of the readers, *)
(* and what is committed recoverable; and the theorems about WalRecovery   *)
(* for every number of pages and transactions.                             *)
(***************************************************************************)
EXTENDS WalInvariant

\* The provers, with their limits in seconds, of the leaves that name none.
USE SMTT(30), ZenonT(20), SMTT(40), SMTT(50)

------------------------------------------------------------------------------
(* What the pages and logs may name *)

\* Recover and a loss of power leave no record that the log did not have.
LEMMA LogsKnown ==
  ASSUME TypeOK, NEW w \in Logs
  PROVE  w = medWal \/ (DOMAIN w \subseteq DOMAIN wal /\ \A i \in DOMAIN w : w[i] = wal[i])
<1>1. wal \in Seq(Record) /\ medWal \in Seq(Record)
  BY DEF TypeOK
<1>2. CASE w # medWal
  <2>1. w \in Prefixes(wal)
    BY <1>2 DEF Logs, LogsAfterPowerLoss
  <2>2. PICK n \in 0..Len(wal) : w = SubSeq(wal, 1, n)
    BY <2>1 DEF Prefixes
  <2> QED BY <1>1, <2>2
<1> QED BY <1>2

\* The steps that write to the log or sync it.
LEMMA LogChanges ==
  [Next]_vars =>
    \/ UNCHANGED <<wal, medWal>>
    \/ RecoverTruncate \/ CommitRecord \/ CommitSync \/ RunOnceTruncate \/ CloseEnd \/ PowerLoss
    \/ \E p \in Page : CommitUpdate(p) \/ Flush(p)
<1> SUFFICES ASSUME [Next]_vars,
                    ~(RecoverTruncate \/ CommitRecord \/ CommitSync \/ RunOnceTruncate \/ CloseEnd
                        \/ PowerLoss),
                    ~\E p \in Page : CommitUpdate(p) \/ Flush(p)
             PROVE  UNCHANGED <<wal, medWal>>
  OBVIOUS
<1>1. CASE Writer
  BY <1>1, WriteFrame, RollbackFrame DEF Writer, log, Begin, CommitBegin, CommitFails
<1>2. CASE ~Writer
  BY <1>2 DEF Next, Recover, Maintain, vars, log, Open, RecoverRedo, RecoverFlush, RecoverSave, ReadRecord,
     FlushAll, FlushAllSync, FlushAllSave, CloseBegin, Kill
<1> QED BY <1>1, <1>2

\* Nothing comes from a transaction that has not begun.
LEMMA KnownStep == TypeOK /\ Known /\ StoreOK /\ WriterOK /\ [Next]_vars => Known'
<1> SUFFICES ASSUME TypeOK, Known, StoreOK, WriterOK, [Next]_vars PROVE Known'
  OBVIOUS
<1>1. 1..last \subseteq 1..last' /\ last \in Nat /\ last' \in Nat /\ last <= last'
  <2>1. last \in Nat
    BY DEF TypeOK
  <2>2. last' = last \/ last' = last + 1
    BY HistoryGrows DEF Begin
  <2> QED BY <2>1, <2>2
<1>0. \A p \in RedonePages(wal) : RedoneImage(wal, p) \subseteq 1..last'
  <2> TAKE p \in RedonePages(wal)
  <2>1. p \in Page /\ Redone(wal, p) # {} /\ wal \in Seq(Record)
    BY DEF RedonePages, TypeOK
  <2>2. PICK i \in Redone(wal, p) : RedoneImage(wal, p) = wal[i].by
    BY <2>1, RedoneImageIsLast
  <2>3. wal[i].by \subseteq 1..last
    BY <2>2 DEF Known, Redone
  <2> QED BY <1>1, <2>2, <2>3
<1>2. \A p \in Page : osPage'[p].by \subseteq 1..last' /\ medPage'[p].by \subseteq 1..last'
  <2>0. \A p \in Page : osPage[p].by \subseteq 1..last' /\ medPage[p].by \subseteq 1..last'
                        /\ cache[p].by \subseteq 1..last'
    BY <1>1 DEF Known
  <2>1. CASE UNCHANGED <<osPage, medPage>>
    BY <2>0, <2>1
  <2>2. CASE RecoverRedo
    <3>2. \A p \in Page : osPage'[p] = osPage[p] \/ (p \in RedonePages(wal) /\ osPage'[p].by = RedoneImage(wal, p))
      BY <2>2 DEF RecoverRedo, Data
    <3>3. medPage' = medPage
      BY <2>2, Zenon DEF RecoverRedo
    <3> QED BY <1>0, <2>0, <3>2, <3>3
  <2>3. CASE RecoverFlush \/ FlushAllSync
    BY <2>0, <2>3 DEF RecoverFlush, FlushAllSync
  <2>4. ASSUME NEW p \in Page, Flush(p)
        PROVE  \A q \in Page : osPage'[q].by \subseteq 1..last' /\ medPage'[q].by \subseteq 1..last'
    <3>1. /\ \A q \in Page \ {p} : osPage'[q] = osPage[q]
          /\ osPage' = osPage \/ osPage'[p] = Data(cache[p].by) \/ osPage'[p] = Unreadable
      BY <2>4, FlushEffect
    <3>2. medPage' = medPage
      BY <2>4 DEF Flush
    <3>3. Data(cache[p].by).by = cache[p].by /\ Unreadable.by = {}
      BY DEF Data, Unreadable
    <3> QED BY <2>0, <3>1, <3>2, <3>3
  <2>5. CASE PowerLoss
    <3>1. Unreadable.by = {}
      BY DEF Unreadable
    <3> QED BY <2>0, <2>5, <3>1, PowerLossEffect, ZenonT(60)
  <2> QED BY <2>1, <2>2, <2>3, <2>4, <2>5, FileChanges
<1>3. ASSUME NEW q \in Page
      PROVE  cache'[q].by \subseteq 1..last'
  <2>0. /\ osPage[q].by \subseteq 1..last' /\ cache[q].by \subseteq 1..last'
        /\ Content(q) \subseteq 1..last' /\ cache \in [Page -> Entry]
    BY <1>1, ZenonT(60) DEF Known, Content, TypeOK
  <2>1. CASE UNCHANGED cache
    BY <2>0, <2>1
  <2>2. CASE RecoverRedo
    <3>1. cache'[q] = cache[q] \/ (q \in RedonePages(wal) /\ cache'[q].by = RedoneImage(wal, q))
      BY <2>2, ZenonT(60) DEF RecoverRedo, Redirtied
    <3> QED BY <1>0, <2>0, <3>1
  <2>3. CASE RecoverFlush
    <3>1. cache'[q] = [cache[q] EXCEPT !.dirty = FALSE] /\ cache[q] \in Entry
      BY <2>0, <2>3 DEF RecoverFlush
    <3>2. cache'[q].by = cache[q].by
      BY <3>1 DEF Entry
    <3> QED BY <2>0, <3>2
  <2>4. CASE CommitSync
    BY <2>0, <2>4, AllSyncedEffect DEF CommitSync
  <2>5. CASE Rollback \/ CloseEnd \/ Kill
    <3>1. cache'[q] = cache[q] \/ cache'[q] = NoEntry
      BY <2>5, Zenon DEF Rollback, CloseEnd, Kill, Volatile, NotInCache
    <3>2. NoEntry.by = {}
      BY DEF NoEntry
    <3> QED BY <2>0, <3>1, <3>2
  <2>6. ASSUME NEW p \in Page, CommitUpdate(p)
        PROVE  cache'[q].by \subseteq 1..last'
    BY <2>0, <2>6, CommitUpdateEffect, Zenon
  <2>7. ASSUME NEW p \in Page, ReadRecord(p)
        PROVE  cache'[q].by \subseteq 1..last'
    BY <2>0, <2>7, GotEffect, ZenonT(60) DEF ReadRecord
  <2>8. ASSUME NEW p \in Page, Flush(p)
        PROVE  cache'[q].by \subseteq 1..last'
    BY <2>0, <2>8, FlushEffect
  <2>9. ASSUME NEW old \in {0} \cup Page, NEW p \in Page, NEW full \in BOOLEAN, WriteRecord(old, p, full)
        PROVE  cache'[q].by \subseteq 1..last'
    <3>1. tx.id \in Txn /\ {tx.id} \subseteq 1..last'
      BY <1>1, <2>9, WriterAtWork, WriteFrame DEF Txn
    <3>2. CASE p \in active /\ ~detached[p].in /\ q = p
      <4>1. cache[p].in
        BY <3>2 DEF StoreOK
      <4>2. cache'[p].by = cache[p].by \cup {tx.id}
        BY <2>9, <3>1, <3>2, <4>1, WriteCached
      <4> QED BY <2>0, <3>1, <3>2, <4>2
    <3>3. CASE ~(p \in active /\ ~detached[p].in /\ q = p)
      <4>1. cache'[q] = cache[q] \/ cache'[q].by = osPage[q].by \/ cache'[q].by = {tx.id}
        <5>1. CASE q # p
          BY <2>9, <3>1, <5>1, WriteOther DEF OtherWritten
        <5>2. CASE q = p /\ p \in active
          BY <2>9, <3>1, <3>3, <5>2, WriteDetached DEF DetachedWritten
        <5>3. CASE q = p /\ p \notin active
          BY <2>9, <3>1, <5>3, WriteCached, ZenonT(60)
        <5> QED BY <5>1, <5>2, <5>3
      <4> QED BY <2>0, <3>1, <4>1
    <3> QED BY <3>2, <3>3
  <2> QED BY <2>1, <2>2, <2>3, <2>4, <2>5, <2>6, <2>7, <2>8, <2>9, CacheChanges
<1>4. ASSUME NEW q \in Page
      PROVE  detached'[q].by \subseteq 1..last'
  <2>0. cache[q].by \subseteq 1..last' /\ detached[q].by \subseteq 1..last'
    BY <1>1 DEF Known
  <2>1. CASE UNCHANGED detached
    BY <2>0, <2>1
  <2>2. CASE Rollback
    BY <2>0, <2>2 DEF Rollback
  <2>3. CASE CloseEnd \/ Kill
    <3>1. detached'[q].by = {}
      BY <2>3 DEF CloseEnd, Kill, Volatile, NoObject
    <3> QED BY <3>1
  <2>4. ASSUME NEW old \in {0} \cup Page, NEW p \in Page, NEW full \in BOOLEAN, WriteRecord(old, p, full)
        PROVE  detached'[q].by \subseteq 1..last'
    <3>1. tx.id \in Txn /\ {tx.id} \subseteq 1..last'
      BY <1>1, <2>4, WriterAtWork, WriteFrame DEF Txn
    <3>2. detached'[q].by = detached[q].by \/ detached'[q].by = detached[q].by \cup {tx.id}
      <4>1. CASE q # p
        BY <2>4, <3>1, <4>1, WriteOther DEF OtherWritten
      <4>2. CASE q = p /\ p \in active /\ detached[p].in
        BY <2>4, <3>1, <4>2, WriteDetached DEF DetachedWritten
      <4>3. CASE q = p /\ ~(p \in active /\ detached[p].in)
        BY <2>4, <3>1, <4>3, WriteCached, Zenon
      <4> QED BY <4>1, <4>2, <4>3
    <3> QED BY <2>0, <3>1, <3>2
  <2>5. CASE Open \/ RecoverRedo
    BY <2>1, <2>5 DEF Open, RecoverRedo, store
  <2> QED BY <2>1, <2>2, <2>3, <2>4, <2>5, StoreChanges
<1>5. /\ \A i \in DOMAIN wal' : wal'[i].txn <= last' /\ wal'[i].by \subseteq 1..last'
      /\ \A i \in DOMAIN medWal' : medWal'[i].txn <= last' /\ medWal'[i].by \subseteq 1..last'
  <2> DEFINE Fine(w) == \A i \in DOMAIN w : w[i].txn <= last' /\ w[i].by \subseteq 1..last'
  <2>0. wal \in Seq(Record) /\ medWal \in Seq(Record)
    BY DEF TypeOK
  <2>1. Fine(wal) /\ Fine(medWal)
    <3>1. \A r \in Record : r.txn <= last => r.txn <= last'
      BY <1>1 DEF Record, Txn
    <3>2. /\ \A i \in DOMAIN wal : wal[i] \in Record
          /\ \A i \in DOMAIN medWal : medWal[i] \in Record
      BY <2>0
    <3> QED BY <1>1, <3>1, <3>2 DEF Known
  <2>2. Fine(<<>>)
    OBVIOUS
  <2>3. \A w \in Logs : Fine(w)
    BY <2>1, LogsKnown
  <2>4. ASSUME NEW r \in Record, r.txn = tx.id, r.by \subseteq 1..last, tx.stage # "none"
        PROVE  Fine(Append(wal, r))
    <3>1. r.txn <= last' /\ r.by \subseteq 1..last'
      BY <1>1, <2>4, WriterAtWork
    <3> QED BY <2>0, <2>1, <3>1, Appended
  <2> SUFFICES Fine(wal') /\ Fine(medWal')
    OBVIOUS
  <2>5. ASSUME NEW p \in Page, CommitUpdate(p)
        PROVE  Fine(wal') /\ Fine(medWal')
    <3> DEFINE r == [type |-> "update", txn |-> tx.id, page |-> p, by |-> Behind(p)]
    <3>1. tx.stage # "none" /\ tx.id \in Txn
      BY <2>5, WriterAtWork DEF CommitUpdate
    <3>2. Behind(p) \subseteq 1..last /\ Behind(p) \in SUBSET Txn
      BY Zenon DEF Behind, Known, TypeOK, Entry
    <3>3. r \in Record /\ r.txn = tx.id /\ r.by \subseteq 1..last
      BY <3>1, <3>2, Zenon DEF Record
    <3>4. wal' = Append(wal, r) /\ medWal' = medWal
      BY <2>5 DEF CommitUpdate
    <3> HIDE DEF r, Fine
    <3> QED BY <2>1, <2>4, <3>1, <3>3, <3>4
  <2>6. CASE CommitRecord
    <3> DEFINE r == [type |-> "commit", txn |-> tx.id, page |-> 0, by |-> {}]
    <3>1. tx.stage # "none" /\ tx.id \in Txn
      BY <2>6, WriterAtWork DEF CommitRecord
    <3>3. r \in Record /\ r.txn = tx.id /\ r.by \subseteq 1..last
      BY <3>1 DEF Record
    <3>4. wal' = Append(wal, r) /\ medWal' = medWal
      BY <2>6 DEF CommitRecord
    <3> HIDE DEF r, Fine
    <3> QED BY <2>1, <2>4, <3>1, <3>3, <3>4
  <2>7. CASE PowerLoss
    <3> HIDE DEF Fine
    <3> QED BY <2>3, <2>7, PowerLossEffect
  <2>8. ASSUME NEW p \in Page, Flush(p)
        PROVE  Fine(wal') /\ Fine(medWal')
    <3>1. wal' = wal /\ medWal' \in {wal, medWal}
      BY <2>8, FlushEffect DEF Flush
    <3> HIDE DEF Fine
    <3> QED BY <2>1, <3>1
  <2>9. CASE ~PowerLoss /\ ~CommitRecord /\ ~\E p \in Page : CommitUpdate(p) \/ Flush(p)
    <3>1. wal' \in {<<>>, wal} /\ medWal' \in {wal, medWal}
      BY <2>9, LogChanges DEF RecoverTruncate, CommitSync, RunOnceTruncate, CloseEnd
    <3> HIDE DEF Fine
    <3> QED BY <2>1, <2>2, <3>1
  <2> HIDE DEF Fine
  <2> QED BY <2>5, <2>6, <2>7, <2>8, <2>9
<1>6. acked' \subseteq 1..last'
  <2>1. CASE CommitSync
    <3>1. tx.id \in 1..last
      BY <2>1, WriterAtWork DEF CommitSync, Txn
    <3> QED BY <1>1, <2>1, <3>1, Zenon DEF CommitSync, Known
  <2>2. CASE acked' = acked
    BY <1>1, <2>2 DEF Known
  <2> QED BY <2>1, <2>2, HistoryGrows
<1> QED BY <1>2, <1>3, <1>4, <1>5, <1>6 DEF Known

------------------------------------------------------------------------------
(* What is committed stays in sight *)

\* While the database runs, a step keeps what is committed in sight if it does so
\* page by page.
LEMMA PresentKept ==
  ASSUME phase' \in {"running", "closing"},
         \A p \in Page : \A t \in Holders(p)' :
           t \in Content(p)' /\ p < nextPage' /\ (detached'[p].in => t \in detached'[p].by)
  PROVE  Present'
  BY DEF Present

\* Once the redo is done, what is committed is read, whoever loads, drops or
\* writes pages.
LEMMA PresentStep == IInv /\ [Next]_vars => Present'
<1> SUFFICES ASSUME IInv, [Next]_vars PROVE Present'
  OBVIOUS
<1>0. /\ TypeOK /\ Known /\ Phases /\ StoreOK /\ Recoverable /\ Present /\ WriterOK /\ LogOK /\ JobOK
      /\ wal \in Seq(Record) /\ medWal \in Seq(Record) /\ cache \in [Page -> Entry]
      /\ wal \in Logs
  <2>1. wal \in Seq(Record) /\ medWal \in Seq(Record) /\ cache \in [Page -> Entry]
    BY DEF IInv, TypeOK
  <2> QED BY <2>1, LogsInclude DEF IInv, Logs
<1> DEFINE Shrunk == \A p \in Page : Holders(p)' \subseteq Holders(p)
<1>1. acked' = acked => Shrunk
  BY <1>0, HoldersStep
<1>2. CASE Open
  <2>1. /\ acked' = acked /\ cache' = NotInCache /\ osPage' = osPage /\ nextPage' = savedNext
        /\ detached' = NoObject /\ phase' \in {"running", "redo"}
        /\ phase' = "running" => wal = <<>>
    BY <1>0, <1>2 DEF Open, Phases, history, store, file
  <2>2. CASE wal = <<>>
    <3>1. \A p \in Page : \A t \in Holders(p) : t \in osPage[p].by /\ p < savedNext
      BY <1>0, <2>2, NothingRedone DEF Recoverable, Recovers
    <3>2. \A p \in Page : Content(p)' = osPage[p].by /\ ~detached'[p].in
      BY <2>1 DEF Content, NotInCache, NoEntry, NoObject
    <3> QED BY <1>1, <2>1, <2>2, <3>1, <3>2, PresentKept DEF Present
  <2> QED BY <2>1, <2>2 DEF Present
<1>3. CASE RecoverRedo
  <2>1. /\ acked' = acked /\ phase' = "flush" /\ nextPage' = NextAfterRedo(wal, nextPage)
        /\ cache = NotInCache /\ detached' = NoObject /\ nextPage = savedNext
    BY <1>0, <1>3 DEF RecoverRedo, Phases, history, store
  <2>2. ASSUME NEW p \in Page, NEW t \in Holders(p)
        PROVE  t \in Content(p)' /\ p < nextPage' /\ t \in osPage'[p].by /\ ~detached'[p].in
    <3>0. /\ ~detached'[p].in /\ p \in Nat
          /\ nextPage \in 1..(MaxPage + 1) /\ NextAfterRedo(wal, nextPage) \in 1..(MaxPage + 1)
          /\ nextPage <= NextAfterRedo(wal, nextPage)
      BY <1>0, <2>1, RedoneType DEF NoObject, Page, TypeOK
    <3>1. CASE p \in RedonePages(wal)
      <4>1. t \in RedoneImage(wal, p)
        BY <1>0, <3>1 DEF Recoverable, Recovers, RedonePages
      <4>2. osPage'[p] = Data(RedoneImage(wal, p)) /\ cache'[p] = Redirtied(RedoneImage(wal, p))
        BY <1>3, <3>1 DEF RecoverRedo
      <4>3. p < nextPage'
        BY <1>0, <2>1, <3>1, RedoneType DEF TypeOK
      <4> QED BY <3>0, <4>1, <4>2, <4>3 DEF Data, Redirtied, Content
    <3>2. CASE p \notin RedonePages(wal)
      <4>1. t \in osPage[p].by /\ p < savedNext
        BY <1>0, <3>2 DEF Recoverable, Recovers, RedonePages
      <4>2. osPage'[p] = osPage[p] /\ cache'[p] = NoEntry
        BY <1>3, <2>1, <3>2 DEF RecoverRedo, NotInCache
      <4>3. p < nextPage'
        BY <2>1, <3>0, <4>1
      <4>4. ~NoEntry.in
        BY DEF NoEntry
      <4> QED BY <3>0, <4>1, <4>2, <4>3, <4>4, ZenonT(60) DEF Content
    <3> QED BY <3>1, <3>2
  <2> QED BY <1>1, <2>1, <2>2 DEF Present
<1>4. CASE RecoverFlush
  <2>1. acked' = acked /\ phase = "flush" /\ phase' = "save" /\ medPage' = osPage
        /\ UNCHANGED <<osPage, nextPage, detached>>
    BY <1>4 DEF RecoverFlush, history, store
  <2>2. ASSUME NEW p \in Page
        PROVE  Content(p)' = Content(p)
    <3>1. cache'[p] = [cache[p] EXCEPT !.dirty = FALSE] /\ cache[p] \in Entry
      BY <1>0, <1>4 DEF RecoverFlush
    <3>2. cache'[p].in = cache[p].in /\ cache'[p].by = cache[p].by
      BY <3>1 DEF Entry
    <3> QED BY <2>1, <3>2 DEF Content
  <2> QED BY <1>0, <1>1, <2>1, <2>2 DEF Present
<1>5. CASE RecoverSave \/ RecoverTruncate
  <2>1. acked' = acked /\ UNCHANGED <<osPage, medPage, cache, nextPage, detached>>
        /\ \/ phase = "save" /\ phase' = "truncate" /\ savedNext' = nextPage
           \/ phase = "truncate" /\ phase' = "running"
    BY <1>5 DEF RecoverSave, RecoverTruncate, history, store, file
  <2> QED BY <1>0, <1>1, <2>1 DEF Present, Content
<1>6. ASSUME NEW old \in {0} \cup Page, NEW p \in Page, NEW full \in BOOLEAN, WriteRecord(old, p, full)
      PROVE  Present'
  <2>1. tx # NoTx /\ tx.id \in Txn
    BY <1>0, <1>6, WriterAtWork, WriteFrame
  <2>2. phase = "running"
    BY <1>0, <2>1 DEF Phases
  <2>3. /\ acked' = acked /\ phase' = phase /\ osPage' = osPage
        /\ p \in active \/ p = nextPage
        /\ nextPage' = IF p \in active THEN nextPage ELSE nextPage + 1
    BY <1>6, WriteFrame, ZenonT(60) DEF WriteRecord
  <2>5. /\ \A q \in Page \ {p} : detached'[q] = detached[q]
        /\ \/ detached'[p] = detached[p]
           \/ detached[p].in /\ detached'[p].by = detached[p].by \cup {tx.id}
    <3>1. \A q \in Page \ {p} : detached'[q] = detached[q]
      BY <1>0, <1>6, <2>1, WriteOther DEF OtherWritten
    <3>2. \/ detached'[p] = detached[p]
          \/ detached[p].in /\ detached'[p].by = detached[p].by \cup {tx.id}
      BY <1>0, <1>6, <2>1, WriteDetached, WriteCached DEF DetachedWritten
    <3> QED BY <3>1, <3>2
  <2>6. ~detached[p].in /\ p \in active /\ cache[p].in =>
          cache'[p].in /\ cache'[p].by = cache[p].by \cup {tx.id}
    BY <1>0, <1>6, <2>1, WriteCached
  <2>4. ASSUME NEW q \in Page, NEW t \in Holders(q)
        PROVE  t \in Content(q)' /\ q < nextPage' /\ (detached'[q].in => t \in detached'[q].by)
    <3>1. t \in Content(q) /\ q < nextPage /\ (detached[q].in => t \in detached[q].by)
      BY <1>0, <2>2 DEF Present
    <3>2. q < nextPage'
      BY <1>0, <2>3, <3>1 DEF TypeOK, Page
    <3>3. detached'[q].in => t \in detached'[q].by
      BY <2>5, <3>1
    <3>4. CASE q # p
      <4>1. cache[q].in => cache'[q] = cache[q]
        BY <1>0, <1>6, <2>1, <3>4, WriteOther DEF OtherWritten
      <4>2. ~cache[q].in /\ cache'[q].in => cache'[q].by = Content(q)
        BY <1>0, <1>6, <2>1, <3>4, WriteOther DEF OtherWritten
      <4> QED BY <2>3, <3>1, <3>2, <3>3, <4>1, <4>2 DEF Content
    <3>5. CASE q = p /\ detached[p].in
      <4>1. p \in active
        BY <1>0, <2>3, <3>1, <3>5 DEF TypeOK
      <4>2. cache'[p].in <=> cache[p].in \/ (p = old /\ Readable(p))
        BY <1>0, <1>6, <2>1, <3>5, <4>1, WriteDetached DEF DetachedWritten
      <4>3. cache'[p].in => cache'[p].by = Content(p)
        BY <1>0, <1>6, <2>1, <3>5, <4>1, WriteDetached DEF DetachedWritten
      <4>4. ~cache'[p].in => ~cache[p].in
        BY <4>2
      <4> QED BY <2>3, <3>1, <3>2, <3>3, <3>5, <4>3, <4>4 DEF Content
    <3>6. CASE q = p /\ ~detached[p].in
      <4>1. p \in active
        BY <1>0, <2>3, <3>1, <3>6 DEF TypeOK
      <4>2. cache[p].in
        BY <1>0, <3>6, <4>1 DEF StoreOK
      <4>3. cache'[p].in /\ cache'[p].by = cache[p].by \cup {tx.id}
        BY <2>6, <3>6, <4>1, <4>2
      <4> QED BY <3>1, <3>2, <3>3, <3>6, <4>2, <4>3 DEF Content
    <3> QED BY <3>4, <3>5, <3>6
  <2> QED BY <1>1, <2>2, <2>3, <2>4, PresentKept
<1>7. CASE CommitSync
  <2>1. tx # NoTx /\ tx.id \in Txn /\ tx.stage = "committed"
    BY <1>0, <1>7, WriterAtWork DEF CommitSync
  <2>2. phase = "running"
    BY <1>0, <2>1 DEF Phases
  <2>3. phase' = phase /\ cache' = AllSynced(cache) /\ UNCHANGED <<osPage, nextPage, detached>>
    BY <1>7 DEF CommitSync, file, store
  <2>4. \A p \in Page : Content(p)' = Content(p)
    BY <1>0, <2>3, AllSyncedEffect DEF Content
  <2>5. ASSUME NEW p \in Page, NEW t \in Writes(p)
        PROVE  t \in Content(p) /\ p < nextPage /\ ~detached[p].in
    <3>1. t = tx.id /\ p \in tx.wrote
      BY DEF Writes
    <3> QED BY <1>0, <2>1, <3>1 DEF WriterOK, PointersOK, Content
  <2>6. \A p \in Page : Holders(p)' \subseteq Holders(p) \cup Writes(p)
    BY <1>0, <1>7, HoldersStep
  <2>7. \A p \in Page : \A t \in Holders(p) :
          t \in Content(p) /\ p < nextPage /\ (detached[p].in => t \in detached[p].by)
    BY <1>0, <2>2 DEF Present
  <2> QED BY <2>2, <2>3, <2>4, <2>5, <2>6, <2>7, PresentKept
<1>8. CASE Rollback
  <2> DEFINE tracked == {p \in Page : tx.dirty[p] # "none"}
  <2>1. tx # NoTx /\ phase = "running" /\ tx.id \notin acked
    BY <1>0, <1>8, WriterAtWork, ZenonT(60) DEF Rollback, Phases
  <2>2. /\ phase' = phase /\ UNCHANGED <<osPage, nextPage, acked, wrote>>
        /\ exposed' = exposed \cup {t \in Missing(acked, osPage) : wrote[t] \cap tracked # {}}
        /\ \A p \in Page : cache'[p] = IF p \in tracked THEN NoEntry ELSE cache[p]
        /\ \A p \in Page : \/ detached'[p] = detached[p]
                           \/ p \in active /\ ~detached[p].in /\ detached'[p].by = cache[p].by
    BY <1>8 DEF Rollback, file
  <2> HIDE DEF tracked
  <2>3. ASSUME NEW p \in Page, NEW t \in Holders(p)'
        PROVE  t \in Content(p)' /\ p < nextPage' /\ (detached'[p].in => t \in detached'[p].by)
    <3>1. t \in Holders(p) /\ t \in acked /\ t \notin exposed' /\ p \in wrote[t]
      BY <1>1, <2>2 DEF Holders
    <3>2. t \in Content(p) /\ p < nextPage /\ (detached[p].in => t \in detached[p].by)
      BY <1>0, <2>1, <3>1 DEF Present
    <3>3. detached'[p].in => t \in detached'[p].by
      BY <1>0, <2>2, <3>2, Zenon DEF StoreOK, Content
    <3>4. CASE p \in tracked
      <4>1. t \notin Missing(acked, osPage)
        BY <2>2, <3>1, <3>4, Zenon
      <4>2. t \in osPage[p].by
        BY <2>1, <3>1, <4>1 DEF Missing
      <4>3. ~NoEntry.in
        BY DEF NoEntry
      <4> QED BY <2>2, <3>2, <3>3, <3>4, <4>2, <4>3, Zenon DEF Content
    <3>5. CASE p \notin tracked
      BY <2>2, <3>2, <3>3, <3>5, Zenon DEF Content
    <3> QED BY <3>4, <3>5
  <2> QED BY <2>1, <2>2, <2>3, PresentKept
<1>9. CASE CloseEnd \/ Kill \/ PowerLoss
  BY <1>9 DEF CloseEnd, Kill, Volatile, PowerLoss, Present
<1>10. ASSUME NEW p \in Page, CommitUpdate(p) \/ ReadRecord(p) \/ Flush(p)
       PROVE  Present'
  <2>1. phase' = phase /\ phase \in {"running", "closing"} /\ acked' = acked
        /\ UNCHANGED <<nextPage, detached>>
    BY <1>0, <1>10, WriterAtWork DEF CommitUpdate, ReadRecord, Flush, Phases, history, store, Idle
  <2>2. ASSUME NEW q \in Page
        PROVE  /\ cache[q].in => cache'[q].in /\ cache'[q].by = cache[q].by
               /\ ~cache[q].in /\ cache'[q].in => cache'[q].by = osPage[q].by
               /\ ~cache[q].in => osPage'[q] = osPage[q]
    <3>1. CASE CommitUpdate(p)
      <4>1. osPage' = osPage
        BY <3>1 DEF CommitUpdate, file
      <4> QED BY <1>0, <3>1, <4>1, CommitUpdateEffect
    <3>2. CASE ReadRecord(p)
      <4>1. osPage' = osPage /\ cache' = Got(p)
        BY <3>2 DEF ReadRecord, file
      <4> QED BY <1>0, <4>1, GotEffect DEF Content
    <3>3. CASE Flush(p)
      <4>1. ~cache[p].in => osPage' = osPage
        BY <3>3, Zenon DEF Flush
      <4>2. cache'[q].in = cache[q].in /\ cache'[q].by = cache[q].by
        BY <1>0, <3>3, FlushEffect
      <4>3. q # p => osPage'[q] = osPage[q]
        BY <1>0, <3>3, FlushEffect
      <4> QED BY <4>1, <4>2, <4>3
    <3> QED BY <1>10, <3>1, <3>2, <3>3, Zenon
  <2>3. \A q \in Page : Content(q)' = Content(q)
    BY <2>2 DEF Content
  <2>4. \A q \in Page : \A t \in Holders(q) :
          t \in Content(q) /\ q < nextPage /\ (detached[q].in => t \in detached[q].by)
    BY <1>0, <2>1, Zenon DEF Present
  <2> QED BY <1>1, <2>1, <2>3, <2>4, PresentKept
<1>11. CASE UNCHANGED <<osPage, cache, nextPage, detached, acked>> /\ phase \in {"running", "closing"}
              /\ phase' \in {"running", "closing"}
  <2>1. \A q \in Page : \A t \in Holders(q) :
          t \in Content(q) /\ q < nextPage /\ (detached[q].in => t \in detached[q].by)
    BY <1>0, <1>11 DEF Present
  <2> QED BY <1>1, <1>11, <2>1, PresentKept DEF Content
<1>12. CASE Begin \/ CommitBegin \/ CommitRecord \/ CommitFails
  <2>1. UNCHANGED <<osPage, cache, nextPage, detached, acked>> /\ phase = "running" /\ phase' = phase
    BY <1>0, <1>12, WriterAtWork DEF Begin, CommitBegin, CommitRecord, CommitFails, Phases, file, store, history
  <2> QED BY <1>11, <2>1
<1>13. CASE (\E who \in Maintenance : FlushAll(who)) \/ FlushAllSync \/ FlushAllSave \/ RunOnceTruncate \/ CloseBegin
  <2>1. /\ UNCHANGED <<osPage, cache, nextPage, detached, acked>>
        /\ phase \in {"running", "closing"} /\ phase' \in {"running", "closing"}
    BY <1>0, <1>13 DEF FlushAll, FlushAllSync, FlushAllSave, RunOnceTruncate, CloseBegin, Phases, Idle, file, store, history
  <2> QED BY <1>11, <2>1
<1>14. CASE UNCHANGED vars
  BY <1>0, <1>14 DEF vars, file, store, history, Present, Holders, Content
<1> QED BY <1>2, <1>3, <1>4, <1>5, <1>6, <1>7, <1>8, <1>9, <1>10, <1>12, <1>13, <1>14
     DEF Next, Recover, Writer, Maintain

------------------------------------------------------------------------------
(* What is redone from a log that grows or is cut *)

\* An update of a transaction that has no commit record changes nothing for
\* Recover.
LEMMA UpdateAppended ==
  ASSUME NEW w \in Seq(Record), NEW r \in Record, NEW p \in Page,
         r.type = "update", r.txn \notin Committed(w)
  PROVE  /\ Committed(Append(w, r)) = Committed(w)
         /\ Redone(Append(w, r), p) = Redone(w, p)
         /\ Redone(w, p) # {} => RedoneImage(Append(w, r), p) = RedoneImage(w, p)
<1> DEFINE v == Append(w, r)
<1>1. /\ Len(w) \in Nat /\ DOMAIN w = 1..Len(w) /\ DOMAIN v = 1..(Len(w) + 1)
      /\ \A i \in 1..Len(w) : v[i] = w[i]
      /\ v[Len(w) + 1] = r
  BY Appended
<1> HIDE DEF v
<1>2. {j \in DOMAIN v : v[j].type = "commit"} = {j \in DOMAIN w : w[j].type = "commit"}
  BY <1>1
<1>3. Committed(v) = Committed(w)
  BY <1>1, <1>2 DEF Committed
<1>4. Redone(v, p) = Redone(w, p)
  <2>1. \A i \in DOMAIN v : i \in Redone(v, p) => i # Len(w) + 1
    BY <1>1, <1>3 DEF Redone
  <2> QED BY <1>1, <1>3, <2>1 DEF Redone
<1>5. ASSUME Redone(w, p) # {}
      PROVE  RedoneImage(v, p) = RedoneImage(w, p)
  <2>1. Redone(w, p) \in SUBSET (0..Len(w)) /\ Redone(w, p) \subseteq DOMAIN w
    BY <1>1 DEF Redone
  <2>2. Max(Redone(w, p)) \in Redone(w, p)
    BY <1>1, <1>5, <2>1, MaxExists, Zenon
  <2> QED BY <1>1, <1>4, <2>1, <2>2 DEF RedoneImage
<1> QED BY <1>3, <1>4, <1>5 DEF v

\* A commit record adds the updates of its transaction to what is redone.
LEMMA CommitAppended ==
  ASSUME NEW w \in Seq(Record), NEW r \in Record, NEW p \in Page, r.type = "commit"
  PROVE  /\ Committed(Append(w, r)) = Committed(w) \cup {r.txn}
         /\ Redone(Append(w, r), p) = Redone(w, p) \cup
              {i \in DOMAIN w : w[i].type = "update" /\ w[i].page = p /\ w[i].txn = r.txn}
<1> DEFINE v == Append(w, r)
<1>1. /\ Len(w) \in Nat /\ DOMAIN w = 1..Len(w) /\ DOMAIN v = 1..(Len(w) + 1)
      /\ \A i \in 1..Len(w) : v[i] = w[i]
      /\ v[Len(w) + 1] = r
  BY Appended
<1> HIDE DEF v
<1>2. Committed(v) = Committed(w) \cup {r.txn}
  BY <1>1 DEF Committed
<1>3. r.type # "update"
  OBVIOUS
<1>4. ASSUME NEW i
      PROVE  i \in Redone(v, p) <=>
               \/ i \in Redone(w, p)
               \/ i \in DOMAIN w /\ w[i].type = "update" /\ w[i].page = p /\ w[i].txn = r.txn
  BY <1>1, <1>2, <1>3 DEF Redone
<1>5. Redone(v, p) = Redone(w, p) \cup
        {i \in DOMAIN w : w[i].type = "update" /\ w[i].page = p /\ w[i].txn = r.txn}
  BY <1>4
<1> QED BY <1>2, <1>5 DEF v

\* After a Sync there is one log.
LEMMA LogsSynced ==
  ASSUME NEW w \in Seq(Record)
  PROVE  LogsAfterPowerLoss(w, w) = {w}
<1>1. ASSUME NEW v \in Prefixes(w), Len(v) >= Len(w)
      PROVE  v = w
  <2>1. PICK n \in 0..Len(w) : v = SubSeq(w, 1, n)
    BY DEF Prefixes
  <2>2. n = Len(w)
    BY <1>1, <2>1
  <2> QED BY <2>1, <2>2
<1>2. Len(w) >= Len(w)
  OBVIOUS
<1>3. w \in Prefixes(w)
  BY PrefixesOfLog
<1>4. LogsAfterPowerLoss(w, w) = {v \in Prefixes(w) : Len(v) >= Len(w)}
  BY <1>3 DEF LogsAfterPowerLoss
<1> QED BY <1>1, <1>2, <1>3, <1>4, Zenon

\* After a truncation there are the empty log and the one on the medium.
LEMMA LogsTruncated ==
  ASSUME NEW m \in Seq(Record)
  PROVE  LogsAfterPowerLoss(<<>>, m) \subseteq {<<>>, m}
<1>1. \A n \in 0..Len(<<>>) : SubSeq(<<>>, 1, n) = <<>>
  OBVIOUS
<1>2. Prefixes(<<>>) \subseteq {<<>>}
  BY <1>1, Zenon DEF Prefixes
<1> QED BY <1>2 DEF LogsAfterPowerLoss

\* An appended record adds one log.
LEMMA LogsAppended ==
  ASSUME NEW w \in Seq(Record), NEW m \in Seq(Record), NEW r \in Record
  PROVE  LogsAfterPowerLoss(Append(w, r), m) \subseteq LogsAfterPowerLoss(w, m) \cup {Append(w, r)}
<1>1. Prefixes(Append(w, r)) = Prefixes(w) \cup {Append(w, r)}
  BY PrefixesOfLog
<1> QED BY <1>1 DEF LogsAfterPowerLoss

------------------------------------------------------------------------------
(* The order of the log *)

\* A record of the last transaction keeps the log in order.
LEMMA InOrderAppended ==
  ASSUME NEW w \in Seq(Record), NEW r \in Record, InOrder(w),
         \A i \in DOMAIN w : w[i].txn <= r.txn
  PROVE  /\ InOrder(Append(w, r))
         /\ \A i \in DOMAIN Append(w, r) : Append(w, r)[i].txn <= r.txn
<1> DEFINE v == Append(w, r)
<1>1. /\ Len(w) \in Nat /\ DOMAIN w = 1..Len(w) /\ DOMAIN v = 1..(Len(w) + 1)
      /\ \A i \in 1..Len(w) : v[i] = w[i]
      /\ v[Len(w) + 1] = r
  BY Appended
<1> HIDE DEF v
<1>2. r.txn <= r.txn
  BY DEF Record, Txn
<1>3. \A i \in DOMAIN v : v[i].txn <= r.txn
  BY <1>1, <1>2
<1>4. ASSUME NEW i \in DOMAIN v, NEW j \in DOMAIN v, i < j
      PROVE  v[i].txn <= v[j].txn
  <2>1. CASE j = Len(w) + 1
    BY <1>1, <1>3, <2>1
  <2>2. CASE j # Len(w) + 1
    <3>1. i \in DOMAIN w /\ j \in DOMAIN w
      BY <1>1, <1>4, <2>2
    <3> QED BY <1>1, <1>4, <3>1 DEF InOrder
  <2> QED BY <2>1, <2>2
<1> QED BY <1>3, <1>4 DEF InOrder, v

\* Both the log and its durable part stay in order.
LEMMA InOrderStep == IInv /\ [Next]_vars => InOrder(wal') /\ InOrder(medWal')
<1> SUFFICES ASSUME IInv, [Next]_vars PROVE InOrder(wal') /\ InOrder(medWal')
  OBVIOUS
<1>0. /\ TypeOK /\ Known /\ WriterOK /\ wal \in Seq(Record) /\ medWal \in Seq(Record)
      /\ InOrder(wal) /\ InOrder(medWal)
  BY DEF IInv, TypeOK, LogOK
<1>1. InOrder(<<>>)
  BY DEF InOrder
<1>2. ASSUME NEW r \in Record, r.txn = tx.id, tx.stage # "none"
      PROVE  InOrder(Append(wal, r))
  <2>1. \A i \in DOMAIN wal : wal[i].txn <= r.txn
    BY <1>0, <1>2, WriterAtWork DEF Known
  <2> QED BY <1>0, <2>1, InOrderAppended, ZenonT(60)
<1>3. ASSUME NEW p \in Page, CommitUpdate(p)
      PROVE  InOrder(wal') /\ InOrder(medWal')
  <2> DEFINE r == [type |-> "update", txn |-> tx.id, page |-> p, by |-> Behind(p)]
  <2>1. tx.stage # "none" /\ tx.id \in Txn
    BY <1>0, <1>3, WriterAtWork DEF CommitUpdate
  <2>2. Behind(p) \in SUBSET Txn
    BY <1>0 DEF Behind, TypeOK, Entry
  <2>3. r \in Record /\ r.txn = tx.id
    BY <2>1, <2>2 DEF Record
  <2>4. wal' = Append(wal, r) /\ medWal' = medWal
    BY <1>3 DEF CommitUpdate
  <2> HIDE DEF r
  <2> QED BY <1>0, <1>2, <2>1, <2>3, <2>4
<1>4. CASE CommitRecord
  <2> DEFINE r == [type |-> "commit", txn |-> tx.id, page |-> 0, by |-> {}]
  <2>1. tx.stage # "none" /\ tx.id \in Txn
    BY <1>0, <1>4, WriterAtWork DEF CommitRecord
  <2>2. r \in Record /\ r.txn = tx.id
    BY <2>1 DEF Record
  <2>3. wal' = Append(wal, r) /\ medWal' = medWal
    BY <1>4 DEF CommitRecord
  <2> HIDE DEF r
  <2> QED BY <1>0, <1>2, <2>1, <2>2, <2>3
<1>5. CASE PowerLoss
  <2>1. wal' \in Logs /\ medWal' = wal'
    BY <1>5, PowerLossEffect
  <2>2. wal' = medWal \/ (DOMAIN wal' \subseteq DOMAIN wal /\ \A i \in DOMAIN wal' : wal'[i] = wal[i])
    BY <1>0, <2>1, LogsKnown
  <2>3. InOrder(wal')
    BY <1>0, <2>2 DEF InOrder
  <2> QED BY <2>1, <2>3
<1>6. ASSUME NEW p \in Page, Flush(p)
      PROVE  InOrder(wal') /\ InOrder(medWal')
  <2>1. wal' = wal /\ medWal' \in {wal, medWal}
    BY <1>0, <1>6, FlushEffect DEF Flush
  <2> QED BY <1>0, <2>1
<1>7. CASE ~PowerLoss /\ ~CommitRecord /\ ~\E p \in Page : CommitUpdate(p) \/ Flush(p)
  <2>1. wal' \in {<<>>, wal} /\ medWal' \in {wal, medWal}
    BY <1>7, LogChanges DEF RecoverTruncate, CommitSync, RunOnceTruncate, CloseEnd
  <2> QED BY <1>0, <1>1, <2>1
<1> QED BY <1>3, <1>4, <1>5, <1>6, <1>7

\* The image Recover leaves of a page that the last transaction has logged is one
\* of that transaction.
LEMMA LastWins ==
  ASSUME NEW w \in Seq(Record), NEW p \in Page, NEW n \in Nat, InOrder(w),
         \A i \in DOMAIN w : w[i].txn <= n,
         NEW i \in Redone(w, p), w[i].txn = n
  PROVE  \E j \in Redone(w, p) : w[j].txn = n /\ RedoneImage(w, p) = w[j].by
<1>1. PICK j \in Redone(w, p) : /\ \A k \in Redone(w, p) : k <= j
                               /\ RedoneImage(w, p) = w[j].by
  BY RedoneImageIsLast
<1>2. i <= j /\ i \in DOMAIN w /\ j \in DOMAIN w /\ w[j] \in Record /\ DOMAIN w \subseteq Nat
  BY <1>1 DEF Redone
<1>3. i # j => w[i].txn <= w[j].txn
  BY <1>2 DEF InOrder
<1>4. w[j].txn <= n /\ w[j].txn \in Nat
  BY <1>2 DEF Record, Txn
<1>5. w[j].txn = n
  BY <1>3, <1>4
<1> QED BY <1>1, <1>5

------------------------------------------------------------------------------
(* What is committed stays recoverable *)

\* The steps that write the meta page.
LEMMA SavedChanges ==
  [Next]_vars => savedNext' = savedNext \/ RecoverSave \/ FlushAllSave
<1> SUFFICES ASSUME [Next]_vars, ~(RecoverSave \/ FlushAllSave)
             PROVE  savedNext' = savedNext
  OBVIOUS
<1>1. CASE Writer
  BY <1>1, WriteFrame, RollbackFrame, Zenon DEF Writer, Begin, CommitBegin, CommitUpdate, CommitRecord,
     CommitSync, CommitFails
<1>2. CASE ~Writer
  BY <1>2, ZenonT(60) DEF Next, Recover, Maintain, vars, Open, RecoverRedo, RecoverFlush, RecoverTruncate,
     ReadRecord, FlushAll, Flush, FlushAllSync, RunOnceTruncate, CloseBegin, CloseEnd, Kill, PowerLoss
<1> QED BY <1>1, <1>2

\* A step that adds no log keeps the invariant if every page keeps its images, or
\* gets one that has the records, or is redone whatever its image.
LEMMA RecoverableKept ==
  ASSUME Recoverable, Logs' \subseteq Logs,
         \A p \in Page : \A t \in Holders(p)' :
           /\ t \in Holders(p)
           /\ \/ \A w \in Logs' : Redone(w, p) # {}
              \/ /\ osPage'[p] \in {osPage[p], medPage[p]} \/ t \in osPage'[p].by
                 /\ medPage'[p] \in {osPage[p], medPage[p]} \/ t \in medPage'[p].by
           /\ savedNext' = savedNext \/ p < savedNext'
  PROVE  Recoverable'
<1> SUFFICES ASSUME NEW w \in Logs', NEW p \in Page, NEW t \in Holders(p)'
             PROVE  /\ Recovers(w, p, osPage'[p], t)
                    /\ Recovers(w, p, medPage'[p], t)
                    /\ Redone(w, p) = {} => p < savedNext'
  BY DEF Recoverable
<1>1. /\ Recovers(w, p, osPage[p], t)
      /\ Recovers(w, p, medPage[p], t)
      /\ Redone(w, p) = {} => p < savedNext
  BY DEF Recoverable
<1> QED BY <1>1 DEF Recovers

\* The same when neither the pages nor the meta page change.
LEMMA RecoverableUnchanged ==
  ASSUME Recoverable, Logs' \subseteq Logs, \A p \in Page : Holders(p)' \subseteq Holders(p),
         UNCHANGED <<osPage, medPage, savedNext>>
  PROVE  Recoverable'
  BY RecoverableKept

\* A truncated log is safe when what is committed is on the medium.
LEMMA RecoverableTruncated ==
  ASSUME TypeOK, Recoverable, wal' = <<>>, UNCHANGED <<osPage, medPage, medWal, savedNext>>,
         \A p \in Page : Holders(p)' \subseteq Holders(p),
         \A p \in Page : \A t \in Holders(p)' :
           t \in osPage[p].by /\ t \in medPage[p].by /\ p < savedNext
  PROVE  Recoverable'
<1>1. Logs' \subseteq {<<>>, medWal}
  BY LogsTruncated DEF Logs, TypeOK
<1>2. medWal \in Logs
  BY LogsInclude DEF Logs, TypeOK
<1> SUFFICES ASSUME NEW w \in Logs', NEW p \in Page, NEW t \in Holders(p)'
             PROVE  /\ Recovers(w, p, osPage[p], t)
                    /\ Recovers(w, p, medPage[p], t)
                    /\ Redone(w, p) = {} => p < savedNext
  BY DEF Recoverable
<1>3. CASE w = <<>>
  BY <1>3, NothingRedone DEF Recovers
<1>4. CASE w = medWal
  BY <1>2, <1>4 DEF Recoverable
<1> QED BY <1>1, <1>3, <1>4

\* A log with another record is safe when Recover makes of it what it made of the
\* log without, or finds an image with what is committed.
LEMMA RecoverableAppended ==
  ASSUME TypeOK, Recoverable, NEW r \in Record, wal' = Append(wal, r),
         UNCHANGED <<osPage, medPage, medWal, savedNext>>,
         \A p \in Page : Holders(p)' \subseteq Holders(p),
         \A p \in Page :
           \/ /\ Redone(wal', p) = Redone(wal, p)
              /\ Redone(wal, p) # {} => RedoneImage(wal', p) = RedoneImage(wal, p)
           \/ Redone(wal', p) # {} /\ Holders(p) \subseteq RedoneImage(wal', p)
  PROVE  Recoverable'
<1>1. Logs' \subseteq Logs \cup {wal'}
  BY LogsAppended DEF Logs, TypeOK
<1>2. wal \in Logs
  BY LogsInclude DEF Logs, TypeOK
<1> SUFFICES ASSUME NEW w \in Logs', NEW p \in Page, NEW t \in Holders(p)'
             PROVE  /\ Recovers(w, p, osPage[p], t)
                    /\ Recovers(w, p, medPage[p], t)
                    /\ Redone(w, p) = {} => p < savedNext
  BY DEF Recoverable
<1>3. t \in Holders(p)
  OBVIOUS
<1>4. CASE w = wal'
  <2>1. /\ Recovers(wal, p, osPage[p], t)
        /\ Recovers(wal, p, medPage[p], t)
        /\ Redone(wal, p) = {} => p < savedNext
    BY <1>2, <1>3 DEF Recoverable
  <2> QED BY <1>3, <1>4, <2>1 DEF Recovers
<1>5. CASE w \in Logs
  BY <1>3, <1>5 DEF Recoverable
<1> QED BY <1>1, <1>4, <1>5

\* Whatever a crash leaves, Recover finds what is committed.
LEMMA RecoverableStep == IInv /\ [Next]_vars => Recoverable'
<1> SUFFICES ASSUME IInv, [Next]_vars PROVE Recoverable'
  OBVIOUS
<1>0. /\ TypeOK /\ Known /\ Phases /\ Recoverable /\ Present /\ WriterOK /\ LogOK /\ JobOK
      /\ wal \in Seq(Record) /\ medWal \in Seq(Record)
      /\ wal \in Logs
  <2>1. wal \in Seq(Record) /\ medWal \in Seq(Record)
    BY DEF IInv, TypeOK
  <2> QED BY <2>1, LogsInclude DEF IInv, Logs
<1> DEFINE Shrunk == \A p \in Page : Holders(p)' \subseteq Holders(p)
<1>1. acked' = acked => Shrunk
  BY <1>0, HoldersStep
<1>2. CASE RecoverRedo
  <2>1. Logs' = Logs /\ UNCHANGED <<medPage, savedNext>> /\ Shrunk
    BY <1>1, <1>2 DEF RecoverRedo, Logs, log, history
  <2>2. ASSUME NEW p \in Page, NEW t \in Holders(p)
        PROVE  osPage'[p] = osPage[p] \/ t \in osPage'[p].by
    <3>1. CASE p \in RedonePages(wal)
      <4>1. t \in RedoneImage(wal, p)
        BY <1>0, <3>1 DEF Recoverable, Recovers, RedonePages
      <4>2. osPage'[p] = Data(RedoneImage(wal, p))
        BY <1>2, <3>1 DEF RecoverRedo
      <4> QED BY <4>1, <4>2 DEF Data
    <3>2. CASE p \notin RedonePages(wal)
      BY <1>2, <3>2 DEF RecoverRedo
    <3> QED BY <3>1, <3>2
  <2> QED BY <1>0, <2>1, <2>2, RecoverableKept
<1>3. CASE RecoverFlush \/ FlushAllSync
  <2>1. Logs' = Logs /\ UNCHANGED <<osPage, savedNext>> /\ medPage' = osPage /\ acked' = acked
    BY <1>0, <1>3 DEF RecoverFlush, FlushAllSync, history, Logs, log
  <2> QED BY <1>0, <1>1, <2>1, RecoverableKept
<1>4. CASE RecoverSave \/ FlushAllSave
  <2>1. Logs' = Logs /\ UNCHANGED <<osPage, medPage>> /\ savedNext' = nextPage /\ acked' = acked
    BY <1>4 DEF RecoverSave, FlushAllSave, history, Logs, log, file
  <2>2. phase \notin {"closed", "redo"}
    BY <1>0, <1>4 DEF RecoverSave, FlushAllSave, Phases, Idle
  <2>3. \A p \in Page : \A t \in Holders(p) : p < savedNext'
    BY <1>0, <2>1, <2>2 DEF Present
  <2> QED BY <1>0, <1>1, <2>1, <2>3, RecoverableKept
<1>5. CASE RecoverTruncate
  <2>1. wal' = <<>> /\ UNCHANGED <<osPage, medPage, medWal, savedNext>> /\ acked' = acked
    BY <1>5 DEF RecoverTruncate, history, file
  <2>2. \A p \in Page : \A t \in Holders(p) : t \in osPage[p].by /\ t \in medPage[p].by /\ p < savedNext
    BY <1>0, <1>5 DEF RecoverTruncate, Present
  <2> QED BY <1>0, <1>1, <2>1, <2>2, RecoverableTruncated
<1>6. ASSUME NEW p \in Page, CommitUpdate(p)
      PROVE  Recoverable'
  <2> DEFINE r == [type |-> "update", txn |-> tx.id, page |-> p, by |-> Behind(p)]
  <2>1. tx # NoTx /\ tx.id \in Txn /\ tx.stage = "logging"
    BY <1>0, <1>6, WriterAtWork DEF CommitUpdate
  <2>2. wal' = Append(wal, r) /\ UNCHANGED <<osPage, medPage, medWal, savedNext, acked>>
    BY <1>6 DEF CommitUpdate, file, history
  <2>3. r \in Record /\ r.type = "update" /\ r.txn = tx.id
    <3>1. Behind(p) \in SUBSET Txn
      BY <1>0 DEF Behind, TypeOK, Entry
    <3> QED BY <2>1, <3>1 DEF Record
  <2>4. tx.id \notin Committed(wal)
    BY <1>0, <2>1 DEF LogOK, OwnLogOK, Committed
  <2> HIDE DEF r
  <2>5. \A q \in Page : /\ Redone(wal', q) = Redone(wal, q)
                        /\ Redone(wal, q) # {} => RedoneImage(wal', q) = RedoneImage(wal, q)
    BY <1>0, <2>2, <2>3, <2>4, UpdateAppended
  <2> QED BY <1>0, <1>1, <2>2, <2>3, <2>5, RecoverableAppended
<1>7. CASE CommitRecord
  <2> DEFINE r == [type |-> "commit", txn |-> tx.id, page |-> 0, by |-> {}]
  <2>1. tx # NoTx /\ tx.id \in Txn /\ tx.id = last /\ tx.stage = "logging" /\ tx.id \in Nat
    BY <1>0, <1>7, WriterAtWork DEF CommitRecord, Txn
  <2>2. wal' = Append(wal, r) /\ UNCHANGED <<osPage, medPage, medWal, savedNext, acked>>
    BY <1>7 DEF CommitRecord, file, history
  <2>3. r \in Record /\ r.type = "commit" /\ r.txn = tx.id
    BY <2>1 DEF Record
  <2> HIDE DEF r
  <2>4. wal' \in Seq(Record) /\ DOMAIN wal = 1..Len(wal) /\ Len(wal) \in Nat
        /\ DOMAIN wal' = 1..(Len(wal) + 1) /\ wal'[Len(wal) + 1] = r
        /\ \A i \in 1..Len(wal) : wal'[i] = wal[i]
    BY <1>0, <2>2, <2>3, Appended
  <2>5. InOrder(wal') /\ \A i \in DOMAIN wal' : wal'[i].txn <= tx.id
    BY <1>0, <2>1, <2>2, <2>3, InOrderAppended DEF Known, LogOK
  <2>6. ASSUME NEW p \in Page
        PROVE  \/ /\ Redone(wal', p) = Redone(wal, p)
                  /\ Redone(wal, p) # {} => RedoneImage(wal', p) = RedoneImage(wal, p)
               \/ Redone(wal', p) # {} /\ Holders(p) \subseteq RedoneImage(wal', p)
    <3> DEFINE Own == {i \in DOMAIN wal : wal[i].type = "update" /\ wal[i].page = p /\ wal[i].txn = tx.id}
    <3>1. Redone(wal', p) = Redone(wal, p) \cup Own
      BY <1>0, <2>2, <2>3, CommitAppended
    <3>2. CASE Own = {}
      <4>1. Redone(wal', p) = Redone(wal, p)
        BY <3>1, <3>2
      <4>2. ASSUME Redone(wal, p) # {}
            PROVE  RedoneImage(wal', p) = RedoneImage(wal, p)
        <5>1. Redone(wal, p) \in SUBSET (0..Len(wal)) /\ Redone(wal, p) \subseteq 1..Len(wal)
          BY <2>4 DEF Redone
        <5>2. Max(Redone(wal, p)) \in Redone(wal, p)
          BY <2>4, <4>2, <5>1, MaxExists, ZenonT(60)
        <5> QED BY <2>4, <4>1, <5>1, <5>2 DEF RedoneImage
      <4> QED BY <4>1, <4>2
    <3>3. CASE Own # {}
      <4>1. PICK i \in Own : TRUE
        BY <3>3
      <4>2. i \in Redone(wal', p) /\ wal'[i].txn = tx.id
        BY <2>4, <3>1, <4>1
      <4>3. PICK j \in Redone(wal', p) : wal'[j].txn = tx.id /\ RedoneImage(wal', p) = wal'[j].by
        BY <2>1, <2>4, <2>5, <4>2, LastWins
      <4>4. j \in DOMAIN wal /\ wal[j].type = "update" /\ wal[j].txn = tx.id /\ wal[j].page = p
            /\ wal'[j] = wal[j]
        BY <2>3, <2>4, <4>3 DEF Redone
      <4>5. Holders(p) \subseteq wal[j].by
        BY <1>0, <2>1, <4>4, ZenonT(60) DEF LogOK, OwnLogOK
      <4> QED BY <4>2, <4>3, <4>4, <4>5
    <3> QED BY <3>2, <3>3
  <2> QED BY <1>0, <1>1, <2>2, <2>3, <2>6, RecoverableAppended
<1>8. CASE CommitSync
  <2>1. tx # NoTx /\ tx.id \in Txn /\ tx.id = last /\ tx.stage = "committed" /\ tx.id \in Nat
    BY <1>0, <1>8, WriterAtWork DEF CommitSync, Txn
  <2>2. Logs' = {wal} /\ UNCHANGED <<osPage, medPage, savedNext>>
    BY <1>0, <1>8, LogsSynced DEF CommitSync, Logs, file
  <2>3. ASSUME NEW p \in Page, NEW t \in Writes(p)
        PROVE  /\ Recovers(wal, p, osPage[p], t)
               /\ Recovers(wal, p, medPage[p], t)
               /\ Redone(wal, p) = {} => p < savedNext
    <3>1. t = tx.id
      BY DEF Writes
    <3>2. LoggedBy(tx.id, p) \/ Settled(p)
      BY <1>0, <2>1, <3>1 DEF LogOK, OwnLogOK, WriterOK
    <3>3. ASSUME NEW i \in Redone(wal, p), wal[i].txn = tx.id
          PROVE  t \in RedoneImage(wal, p)
      <4>1. InOrder(wal) /\ \A k \in DOMAIN wal : wal[k].txn <= tx.id
        BY <1>0, <2>1 DEF LogOK, Known
      <4>2. PICK j \in Redone(wal, p) : wal[j].txn = tx.id /\ RedoneImage(wal, p) = wal[j].by
        BY <1>0, <2>1, <3>3, <4>1, LastWins, ZenonT(60)
      <4>3. j \in DOMAIN wal /\ wal[j].type = "update" /\ wal[j].page = p
        BY <4>2 DEF Redone
      <4>4. Writes(p) \subseteq wal[j].by
        BY <1>0, <2>1, <4>2, <4>3, ZenonT(60) DEF LogOK, OwnLogOK
      <4> QED BY <4>2, <4>4
    <3>4. CASE LoggedBy(tx.id, p)
      <4>1. PICK i \in DOMAIN wal : wal[i].type = "update" /\ wal[i].txn = tx.id /\ wal[i].page = p
        BY <3>4 DEF LoggedBy
      <4>2. tx.id \in Committed(wal)
        BY <1>0, <2>1, <4>1 DEF LogOK, OwnLogOK
      <4>3. i \in Redone(wal, p)
        BY <4>1, <4>2 DEF Redone
      <4> QED BY <3>3, <4>1, <4>3 DEF Recovers
    <3>5. CASE Settled(p)
      <4>1. \A i \in Redone(wal, p) : wal[i].txn = tx.id
        BY <3>5 DEF Settled, Redone
      <4>2. Redone(wal, p) # {} => t \in RedoneImage(wal, p)
        BY <3>3, <4>1
      <4>3. t \in osPage[p].by /\ t \in medPage[p].by /\ p < savedNext
        BY <3>1, <3>5 DEF Settled
      <4> QED BY <4>2, <4>3 DEF Recovers
    <3> QED BY <3>2, <3>4, <3>5
  <2>4. \A p \in Page : Holders(p)' \subseteq Holders(p) \cup Writes(p)
    BY <1>0, <1>8, HoldersStep
  <2> QED BY <1>0, <2>2, <2>3, <2>4 DEF Recoverable
<1>9. ASSUME NEW p \in Page, Flush(p)
      PROVE  Recoverable'
  <2>1. UNCHANGED <<wal, medPage, savedNext, acked, wrote>> /\ medWal' \in {medWal, wal}
    BY <1>0, <1>9, FlushEffect DEF Flush
  <2>2. Logs' \subseteq Logs
    BY <1>0, <2>1, LogsSynced DEF Logs
  <2>3. phase \notin {"closed", "redo"}
    BY <1>0, <1>9 DEF Flush, Phases, Idle
  <2>4. ASSUME NEW q \in Page, NEW t \in Holders(q)'
        PROVE  \/ \A w \in Logs' : Redone(w, q) # {}
               \/ osPage'[q] = osPage[q] \/ t \in osPage'[q].by
    <3>1. t \in Holders(q)
      BY <1>1, <2>1
    <3>2. CASE q # p \/ osPage' = osPage
      BY <1>0, <1>9, <3>2, FlushEffect
    <3>3. CASE q = p /\ cache[p].in /\ osPage'[p] = Data(cache[p].by)
      <4>1. t \in cache[p].by
        BY <1>0, <2>3, <3>1, <3>3 DEF Present, Content
      <4>2. Data(cache[p].by).by = cache[p].by
        BY DEF Data
      <4> QED BY <3>3, <4>1, <4>2, ZenonT(60)
    <3>4. CASE q = p /\ exposed' = exposed \cup Unlogged(p, LogsAfterPowerLoss(wal, medWal'))
      <4>1. t \in acked /\ p \in wrote[t] /\ t \notin exposed'
        BY <2>1, <3>4 DEF Holders
      <4>2. Logs' = LogsAfterPowerLoss(wal, medWal')
        BY <2>1 DEF Logs
      <4> QED BY <3>4, <4>1, <4>2 DEF Unlogged
    <3> QED BY <1>0, <1>9, <3>2, <3>3, <3>4, FlushEffect, Zenon
  <2> QED BY <1>0, <1>1, <2>1, <2>2, <2>4, RecoverableKept
<1>10. CASE RunOnceTruncate
  <2>1. wal' = <<>> /\ UNCHANGED <<osPage, medPage, medWal, savedNext, acked, wrote>>
    BY <1>10 DEF RunOnceTruncate, file
  <2>2. osPage = medPage
    BY <1>0, <1>10 DEF RunOnceTruncate, JobOK
  <2>3. ASSUME NEW p \in Page, NEW t \in Holders(p)'
        PROVE  t \in osPage[p].by /\ t \in medPage[p].by /\ p < savedNext
    <3>1. t \in Holders(p) /\ t \in acked /\ p \in wrote[t] /\ t \notin Missing(acked \cup Committing, medPage)
      BY <1>1, <1>10, <2>1, Zenon DEF Holders, RunOnceTruncate
    <3>2. t # tx.id
      <4>1. CASE tx = NoTx
        <5>1. NoTx.id = 0 /\ 0 \notin Txn
          BY DEF NoTx, NoTxn, Txn
        <5>2. t \in Txn
          BY <1>0, <3>1, Zenon DEF TypeOK
        <5> QED BY <4>1, <5>1, <5>2, Zenon
      <4>2. CASE tx # NoTx
        BY <1>0, <3>1, <4>2, Zenon DEF WriterOK
      <4> QED BY <4>1, <4>2
    <3>3. t \in medPage[p].by
      BY <3>1, <3>2 DEF Missing
    <3> QED BY <1>0, <1>10, <2>2, <3>1, <3>3, Zenon DEF JobOK, RunOnceTruncate
  <2> QED BY <1>0, <1>1, <2>1, <2>3, RecoverableTruncated
<1>11. CASE CloseEnd
  <2>1. Logs' = {wal} /\ UNCHANGED <<osPage, medPage, savedNext>> /\ acked' = acked
    BY <1>0, <1>11, LogsSynced DEF CloseEnd, Logs, file, history
  <2> QED BY <1>0, <1>1, <2>1, RecoverableUnchanged
<1>12. CASE PowerLoss
  <2>1. UNCHANGED <<savedNext, acked, wrote>>
    BY <1>12 DEF PowerLoss
  <2>2. Logs' = {wal'} /\ wal' \in Logs
    <3>1. wal' \in Logs /\ medWal' = wal'
      BY <1>12, PowerLossEffect
    <3>2. wal' \in Seq(Record)
      BY <1>0, <3>1, LogsInclude DEF Logs
    <3> QED BY <3>1, <3>2, LogsSynced DEF Logs
  <2>3. ASSUME NEW p \in Page, NEW t \in Holders(p)'
        PROVE  \/ \A w \in Logs' : Redone(w, p) # {}
               \/ osPage'[p] \in {osPage[p], medPage[p]} /\ medPage'[p] \in {osPage[p], medPage[p]}
    <3>1. CASE osPage'[p] \in {osPage[p], medPage[p]}
      BY <1>12, <3>1, PowerLossEffect
    <3>2. CASE Unlogged(p, {wal'}) \subseteq exposed'
      <4>1. t \in acked /\ p \in wrote[t] /\ t \notin exposed'
        BY <2>1 DEF Holders
      <4> QED BY <2>2, <3>2, <4>1 DEF Unlogged
    <3> QED BY <1>12, <3>1, <3>2, PowerLossEffect, ZenonT(60)
  <2> QED BY <1>0, <1>1, <2>1, <2>2, <2>3, RecoverableKept
<1>13. CASE UNCHANGED <<osPage, medPage, wal, medWal, savedNext>> /\ acked' = acked
  <2>1. Logs' = Logs
    BY <1>13 DEF Logs
  <2> QED BY <1>0, <1>1, <1>13, <2>1, RecoverableUnchanged
<1>14. ASSUME ~(RecoverRedo \/ RecoverFlush \/ FlushAllSync \/ RecoverSave \/ FlushAllSave
                 \/ RecoverTruncate \/ CommitRecord \/ CommitSync \/ RunOnceTruncate \/ CloseEnd \/ PowerLoss),
              ~\E p \in Page : CommitUpdate(p) \/ Flush(p)
       PROVE  UNCHANGED <<osPage, medPage, wal, medWal, savedNext>> /\ acked' = acked
  <2>1. UNCHANGED <<osPage, medPage, wal, medWal>>
    BY <1>14, FileChanges, LogChanges
  <2>2. savedNext' = savedNext
    BY <1>14, SavedChanges
  <2>3. acked' = acked
    BY <1>14, HistoryGrows
  <2> QED BY <2>1, <2>2, <2>3
<1> QED BY <1>2, <1>3, <1>4, <1>5, <1>6, <1>7, <1>8, <1>9, <1>10, <1>11, <1>12, <1>13, <1>14

------------------------------------------------------------------------------
(* The theorems *)

\* The inductive invariant holds in every state.
THEOREM Inductive == Spec => []IInv
<1>1. IInv /\ [Next]_vars => IInv'
  <2> SUFFICES ASSUME IInv, [Next]_vars PROVE IInv'
    OBVIOUS
  <2>0. TypeOK /\ ImagesOK /\ Known /\ Phases /\ StoreOK /\ PageLsnDurable /\ WriterOK
    BY DEF IInv
  <2>1. TypeOK'
    BY <2>0, TypeStep
  <2>2. ImagesOK'
    BY <2>0, ImagesStep
  <2>3. Known'
    BY <2>0, KnownStep
  <2>4. Phases'
    BY <2>0, PhasesStep
  <2>5. StoreOK'
    BY <2>0, StoreStep
  <2>6. PageLsnDurable'
    BY <2>0, PageLsnStep
  <2>7. Recoverable'
    BY RecoverableStep
  <2>8. Present'
    BY PresentStep
  <2>9. WriterOK'
    BY WriterStep
  <2>10. LogOK'
    BY InOrderStep, OwnLogStep DEF LogOK
  <2>11. JobOK'
    BY JobStep
  <2> QED BY <2>1, <2>2, <2>3, <2>4, <2>5, <2>6, <2>7, <2>8, <2>9, <2>10, <2>11 DEF IInv
<1> QED BY <1>1, InitHolds, PTL DEF Spec

\* Type correctness.
THEOREM TypeCorrect == Spec => []TypeOK
<1>1. IInv => TypeOK
  BY DEF IInv
<1> QED BY <1>1, Inductive, PTL

\* WAL before data: a page whose last PageUpdate record is not durable is not
\* written (Pager.Flush syncs the log up to the page's LSN first).
THEOREM LogBeforeData == Spec => []PageLsnDurable
<1>1. IInv => PageLsnDurable
  BY DEF IInv
<1> QED BY <1>1, Inductive, PTL

\* Whatever the crashes, checkpoints, backups and rollbacks, the record of an
\* acknowledged transaction is read unless one of the events that expose it
\* happened to it.
THEOREM OnlyExposedLost == Spec => []DurableUnlessExposed
<1>1. IInv => DurableUnlessExposed
  <2> SUFFICES ASSUME IInv, phase = "running",
                      NEW t \in acked \ exposed, NEW p \in wrote[t]
               PROVE  Readable(p) /\ t \in Content(p)
    BY DEF DurableUnlessExposed
  <2>1. TypeOK /\ ImagesOK /\ Present
    BY DEF IInv
  <2>2. p \in Page /\ t \in Holders(p)
    BY <2>1 DEF TypeOK, Holders
  <2>3. t \in Content(p)
    BY <2>1, <2>2 DEF Present
  <2>4. Readable(p)
    BY <2>1, <2>2, <2>3 DEF Readable, Content, ImagesOK
  <2> QED BY <2>3, <2>4
<1> QED BY <1>1, Inductive, PTL

\* A page with the record of an acknowledged transaction that is not exposed is
\* below NextPageID whenever pages are allocated, so it is not allocated again.
THEOREM NoReuseUnlessExposed ==
  Spec => [](phase = "running" => \A t \in acked \ exposed : \A p \in wrote[t] : p < nextPage)
<1>1. IInv => (phase = "running" => \A t \in acked \ exposed : \A p \in wrote[t] : p < nextPage)
  <2> SUFFICES ASSUME IInv, phase = "running",
                      NEW t \in acked \ exposed, NEW p \in wrote[t]
               PROVE  p < nextPage
    OBVIOUS
  <2>1. TypeOK /\ Present
    BY DEF IInv
  <2>2. p \in Page /\ t \in Holders(p)
    BY <2>1 DEF TypeOK, Holders
  <2> QED BY <2>1, <2>2 DEF Present
<1> QED BY <1>1, Inductive, PTL

\* Nothing is exposed when page writes are whole, no checkpoint truncates the log
\* and nothing is rolled back.
Unexposed ==
  /\ exposed = {}
  /\ \A p \in Page : ~detached[p].in
  /\ job.stage # "truncate"

\* No step exposes a transaction then.
LEMMA UnexposedStep ==
  ASSUME ~TornPages, "scheduler" \notin Maintenance, ~Rollbacks,
         TypeOK, WriterOK, Unexposed, [Next]_vars
  PROVE  Unexposed'
<1>1. ASSUME NEW old \in {0} \cup Page, NEW p \in Page, NEW full \in BOOLEAN, WriteRecord(old, p, full)
      PROVE  Unexposed'
  <2>1. tx.id \in Txn
    BY <1>1, WriterAtWork, WriteFrame
  <2>2. detached' = detached /\ exposed' = exposed
    BY <1>1, <2>1, WriteCached, Zenon DEF Unexposed
  <2>3. job' = job
    BY <1>1, WriteFrame
  <2> QED BY <2>2, <2>3 DEF Unexposed
<1>2. ASSUME NEW p \in Page, Flush(p)
      PROVE  Unexposed'
  <2>1. detached' = detached /\ job'.stage # "truncate"
    BY <1>2 DEF Flush, store, TypeOK
  <2>2. exposed' = exposed
    BY <1>2 DEF Flush, Written, Changing, Data, Unreadable
  <2> QED BY <2>1, <2>2 DEF Unexposed
<1>3. CASE FlushAllSave
  <2>1. job.who # "scheduler" /\ UNCHANGED <<exposed, detached>>
    BY <1>3 DEF FlushAllSave, store, history, TypeOK
  <2>2. job'.stage # "truncate"
    BY <1>3, <2>1 DEF FlushAllSave, Idle, TypeOK
  <2> QED BY <2>1, <2>2 DEF Unexposed
<1>4. CASE FlushAllSync \/ \E who \in Maintenance : FlushAll(who)
  BY <1>4 DEF FlushAllSync, FlushAll, store, history, TypeOK, Unexposed
<1>5. CASE RunOnceTruncate \/ Rollback
  BY <1>5 DEF RunOnceTruncate, Rollback, Unexposed
<1>6. CASE PowerLoss
  <2>1. UNCHANGED <<detached, job>> /\ exposed' = exposed
    BY <1>6, Zenon DEF PowerLoss, ImagesAfterPowerLoss, store
  <2> QED BY <2>1 DEF Unexposed
<1>7. CASE CloseEnd \/ Kill
  <2>1. exposed' = exposed
    BY <1>7, Zenon DEF CloseEnd, Kill, history, Unexposed
  <2>2. detached' = NoObject /\ job' = Idle
    BY <1>7, Zenon DEF CloseEnd, Kill, Volatile
  <2>3. (\A p \in Page : ~NoObject[p].in) /\ Idle.stage # "truncate"
    BY DEF NoObject, Idle
  <2> QED BY <2>1, <2>2, <2>3, Zenon DEF Unexposed
<1>8. CASE Begin \/ CommitBegin \/ CommitRecord \/ CommitSync \/ CommitFails
           \/ (\E p \in Page : CommitUpdate(p)) \/ (\E p \in Page : ReadRecord(p))
  BY <1>8, Zenon DEF Begin, CommitBegin, CommitRecord, CommitSync, CommitFails, CommitUpdate, ReadRecord,
     store, history, Unexposed
<1>9. CASE Open \/ Recover \/ CloseBegin \/ UNCHANGED vars
  BY <1>9 DEF Open, Recover, RecoverRedo, RecoverFlush, RecoverSave, RecoverTruncate, CloseBegin,
     vars, store, history, Unexposed
<1> QED BY <1>1, <1>2, <1>3, <1>4, <1>5, <1>6, <1>7, <1>8, <1>9 DEF Next, Writer, Maintain

\* With page writes that are never torn, no log truncation and no Rollback,
\* nothing is ever exposed.
LEMMA NothingExposed ==
  ASSUME ~TornPages, "scheduler" \notin Maintenance, ~Rollbacks
  PROVE  Spec => []Unexposed
<1>1. Init => Unexposed
  BY DEF Init, Unexposed, NoObject, Idle
<1>2. TypeOK /\ WriterOK /\ Unexposed /\ [Next]_vars => Unexposed'
  BY UnexposedStep
<1>3. IInv => TypeOK /\ WriterOK
  BY DEF IInv
<1> QED BY <1>1, <1>2, <1>3, Inductive, PTL DEF Spec

\* Then no acknowledged transaction is lost, however often the process dies or
\* the power fails, in Recover too, and whatever Backup or Check flushes beside
\* the writer.
THEOREM DurableCommits ==
  ASSUME ~TornPages, "scheduler" \notin Maintenance, ~Rollbacks
  PROVE  Spec => []Durable
<1>1. Unexposed /\ DurableUnlessExposed => Durable
  BY DEF Unexposed, DurableUnlessExposed, Durable
<1> QED BY <1>1, NothingExposed, OnlyExposedLost, PTL

\* Nor is a page with the record of an acknowledged transaction allocated again.
THEOREM PagesNotReused ==
  ASSUME ~TornPages, "scheduler" \notin Maintenance, ~Rollbacks
  PROVE  Spec => []NoPageReuse
<1>1. Unexposed /\ (phase = "running" => \A t \in acked \ exposed : \A p \in wrote[t] : p < nextPage)
      => NoPageReuse
  BY DEF Unexposed, NoPageReuse
<1> QED BY <1>1, NothingExposed, NoReuseUnlessExposed, PTL
==============================================================================
