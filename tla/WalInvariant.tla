---------------------------- MODULE WalInvariant -----------------------------
(***************************************************************************)
(* The inductive invariant of WalRecovery, what its actions do to the      *)
(* cache, and the proofs that every step keeps the conjuncts about the     *)
(* running system (the phases, the store, the page LSNs, the writer, its   *)
(* records in the log and the checkpoint), the images in the file and the  *)
(* types; and what the redo of a log computes.                             *)
(***************************************************************************)
EXTENDS WalRecovery, WellFoundedInduction, TLAPS

\* The provers, with their limits in seconds, of the leaves that name none.
USE SMTT(30), ZenonT(20), SMTT(40), SMTT(50)

------------------------------------------------------------------------------
(* The inductive invariant *)

\* The acknowledged transactions with a record in page p that nothing exposed.
Holders(p) == {t \in acked \ exposed : p \in wrote[t]}

\* The same of the transaction at work.
Writes(p) == {t \in {tx.id} \ exposed : tx.stage # "none" /\ p \in tx.wrote}

\* What Recover makes of page p, with the log w and the image img, has t.
Recovers(w, p, img, t) ==
  IF Redone(w, p) # {} THEN t \in RedoneImage(w, p) ELSE t \in img.by

\* The logs a loss of power may leave.
Logs == LogsAfterPowerLoss(wal, medWal)

\* A page that cannot be read has no records.
ImagesOK ==
  \A p \in Page : /\ osPage[p].by # {} => osPage[p].kind = "data"
                  /\ medPage[p].by # {} => medPage[p].kind = "data"

\* Only transactions that have begun have left anything.
Known ==
  /\ \A p \in Page : /\ osPage[p].by \subseteq 1..last
                     /\ medPage[p].by \subseteq 1..last
                     /\ cache[p].by \subseteq 1..last
                     /\ detached[p].by \subseteq 1..last
  /\ \A i \in DOMAIN wal : wal[i].txn <= last /\ wal[i].by \subseteq 1..last
  /\ \A i \in DOMAIN medWal : medWal[i].txn <= last /\ medWal[i].by \subseteq 1..last
  /\ acked \subseteq 1..last

\* What is still as Open found it, phase by phase.
Phases ==
  /\ phase # "running" => tx = NoTx
  /\ phase \notin {"running", "closing"} =>
       /\ job = Idle /\ active = {} /\ detached = NoObject
       /\ \A p \in Page : cache[p].synced
  /\ phase \in {"closed", "redo"} => cache = NotInCache /\ nextPage = savedNext

\* The objects of activePages are allocated pages, in the cache or detached.
StoreOK ==
  \A p \in Page : /\ p \in active \/ detached[p].in => p < nextPage
                  /\ p \in active => detached[p].in \/ cache[p].in

\* Whatever log and whichever image of a page are left, Recover finds what is
\* committed, and the page below NextPageID.
Recoverable ==
  \A w \in Logs, p \in Page : \A t \in Holders(p) :
    /\ Recovers(w, p, osPage[p], t)
    /\ Recovers(w, p, medPage[p], t)
    /\ Redone(w, p) = {} => p < savedNext

\* Once the redo is done, what is committed is read; before the log is truncated
\* it is also on the medium.
Present ==
  phase \notin {"closed", "redo"} => \A p \in Page : \A t \in Holders(p) :
    /\ t \in Content(p)
    /\ p < nextPage
    /\ phase \in {"flush", "save", "truncate"} => t \in osPage[p].by
    /\ phase \in {"save", "truncate"} => t \in medPage[p].by
    /\ phase = "truncate" => p < savedNext
    /\ detached[p].in => t \in detached[p].by

\* What tx.dirtyPages, the cache and the file say of the writer's inserts into
\* page p.
PointersOK(p) ==
  /\ tx.dirty[p] = "cached" => cache[p].in
  /\ tx.dirty[p] = "detached" => detached[p].in
  /\ p \in tx.wrote => p < nextPage
  /\ p \in tx.wrote \cup tx.todo => tx.dirty[p] # "none"
  /\ tx.id \in osPage[p].by \cup medPage[p].by \cup cache[p].by => p \in tx.wrote
  /\ tx.id \in Writes(p) =>
       tx.dirty[p] = "cached" /\ tx.id \in cache[p].by /\ ~detached[p].in

\* The writer's transaction is the last one, and its pointers are valid.
WriterOK ==
  tx # NoTx =>
    /\ tx.id = last /\ tx.id # NoTxn /\ tx.stage # "none" /\ tx.id \notin acked
    /\ tx.stage = "committed" => tx.todo = {}
    /\ \A p \in Page : PointersOK(p)

LoggedBy(t, p) ==
  \E i \in DOMAIN wal : wal[i].type = "update" /\ wal[i].txn = t /\ wal[i].page = p

\* A checkpoint in the middle of Commit has put page p on the medium.
Settled(p) ==
  /\ tx.id \in osPage[p].by /\ tx.id \in medPage[p].by /\ p < savedNext
  /\ \A i \in DOMAIN wal : wal[i].txn = tx.id

InOrder(w) == \A i, j \in DOMAIN w : i < j => w[i].txn <= w[j].txn

\* The log has the pages of the transaction that commits, each with all that is
\* committed there, unless a checkpoint has truncated them.
OwnLogOK ==
  /\ tx.stage = "writing" => \A i \in DOMAIN wal : wal[i].txn # tx.id
  /\ tx.stage = "logging" => \A i \in DOMAIN wal : wal[i].txn = tx.id => wal[i].type = "update"
  /\ tx.stage = "committed" => \A i \in DOMAIN wal : wal[i].txn = tx.id => tx.id \in Committed(wal)
  /\ \A i \in DOMAIN wal : wal[i].type = "update" /\ wal[i].txn = tx.id =>
       Holders(wal[i].page) \cup Writes(wal[i].page) \subseteq wal[i].by
  /\ tx.stage \in {"logging", "committed"} =>
       \A p \in Page : tx.id \in Writes(p) /\ p \notin tx.todo =>
         LoggedBy(tx.id, p) \/ Settled(p)

\* Transactions are in the log in the order they began.
LogOK == InOrder(wal) /\ InOrder(medWal) /\ (tx # NoTx => OwnLogOK)

\* After its Sync a checkpoint leaves the file alone, and after the save the
\* pages on the medium are below the saved NextPageID.
JobOK ==
  /\ job.stage \in {"save", "truncate"} => osPage = medPage
  /\ job.stage = "truncate" => \A p \in Page : \A t \in Holders(p) \cup Writes(p) :
        t \in medPage[p].by => p < savedNext

IInv ==
  /\ TypeOK /\ ImagesOK /\ Known /\ Phases /\ StoreOK /\ PageLsnDurable
  /\ Recoverable /\ Present /\ WriterOK /\ LogOK /\ JobOK

------------------------------------------------------------------------------
(* What the steps do to the cache *)

\* A flushed entry is as it was, and clean.
LEMMA EntryCleaned ==
  ASSUME NEW e \in Entry, NEW d, d = [e EXCEPT !.dirty = FALSE]
  PROVE  d \in Entry /\ d.in = e.in /\ d.by = e.by /\ d.synced = e.synced
  BY Zenon DEF Entry

\* An entry whose record becomes durable is as it was.
LEMMA EntrySynced ==
  ASSUME NEW e \in Entry, NEW d, d = [e EXCEPT !.synced = TRUE]
  PROVE  d \in Entry /\ d.in = e.in /\ d.by = e.by /\ d.synced /\ d.dirty = e.dirty
  BY Zenon DEF Entry

\* MarkDirty leaves the content.
LEMMA EntryLogged ==
  ASSUME NEW e \in Entry, NEW d,
         d = [e EXCEPT !.dirty = TRUE, !.marked = TRUE, !.synced = FALSE]
  PROVE  d \in Entry /\ d.in = e.in /\ d.by = e.by /\ d.dirty
  BY Zenon DEF Entry

\* An insertion adds its transaction.
LEMMA EntryInserted ==
  ASSUME NEW e \in Entry, NEW t \in Txn, NEW d,
         d = [e EXCEPT !.by = @ \cup {t}, !.dirty = TRUE]
  PROVE  d \in Entry /\ d.in = e.in /\ d.by = e.by \cup {t} /\ d.dirty
  BY Zenon DEF Entry

\* The whole cache is made durable: nothing else changes.
LEMMA AllSyncedEffect ==
  ASSUME NEW c \in [Page -> Entry]
  PROVE  /\ AllSynced(c) \in [Page -> Entry]
         /\ \A p \in Page : /\ AllSynced(c)[p].in = c[p].in
                            /\ AllSynced(c)[p].by = c[p].by
                            /\ AllSynced(c)[p].synced
                            /\ AllSynced(c)[p].dirty = c[p].dirty
<1>1. \A p \in Page : AllSynced(c)[p] = [c[p] EXCEPT !.synced = TRUE]
  BY DEF AllSynced
<1>2. AllSynced(c) \in [Page -> Entry]
  BY <1>1, EntrySynced DEF AllSynced
<1> QED BY <1>1, <1>2, EntrySynced

\* The records of a loaded page are those of its image.
LEMMA GotEffect ==
  ASSUME TypeOK, NEW p \in Page
  PROVE  /\ Got(p) \in [Page -> Entry]
         /\ \A q \in Page : /\ Got(p)[q].in <=> cache[q].in \/ q = p
                            /\ Got(p)[q].by = IF q = p THEN Content(q) ELSE cache[q].by
                            /\ cache[q].in \/ q # p => Got(p)[q] = cache[q]
                            /\ ~cache[q].in /\ q = p => Got(p)[q].synced
<1>1. cache \in [Page -> Entry] /\ osPage[p].by \in SUBSET Txn
  BY DEF TypeOK, Image
<1>2. Loaded(osPage[p].by) \in Entry
  BY <1>1 DEF Loaded, Entry
<1>3. Got(p) \in [Page -> Entry]
  BY <1>1, <1>2 DEF Got
<1>4. ASSUME NEW q \in Page, cache[q].in \/ q # p
      PROVE  Got(p)[q] = cache[q]
  BY <1>1, <1>4 DEF Got
<1>5. ~cache[p].in => Got(p)[p] = Loaded(osPage[p].by)
  BY <1>1 DEF Got
<1> QED BY <1>1, <1>3, <1>4, <1>5 DEF Content, Loaded

\* WriteRecord loads the page of the old version, and inserts into the object of
\* activePages or into a new page.
LEMMA WriteEffect ==
  ASSUME TypeOK, tx.id \in Txn,
         NEW old \in {0} \cup Page, NEW p \in Page, NEW full \in BOOLEAN, WriteRecord(old, p, full)
  PROVE  LET gone == p \in active /\ detached[p].in
             got == {q \in Page : q = old /\ Readable(q)}
         IN /\ cache' \in [Page -> Entry]
            /\ detached' \in [Page -> [in: BOOLEAN, by: SUBSET Txn]]
            /\ \A q \in Page \ {p} :
                 /\ cache'[q].in <=> cache[q].in \/ q \in got
                 /\ cache[q].in => cache'[q] = cache[q]
                 /\ cache'[q] = cache[q] \/ (cache'[q].by = osPage[q].by /\ cache'[q].synced)
                 /\ q \in got => cache'[q].by = Content(q)
                 /\ detached'[q] = detached[q]
                 /\ tx'.dirty[q] = IF q \in got THEN "cached" ELSE tx.dirty[q]
            /\ gone => /\ cache'[p].in <=> cache[p].in \/ p \in got
                       /\ cache[p].in => cache'[p] = cache[p]
                       /\ cache[p].in \/ p \in got => cache'[p].by = Content(p)
                       /\ cache'[p] = cache[p] \/ (cache'[p].by = osPage[p].by /\ cache'[p].synced)
                       /\ detached'[p].in /\ detached'[p].by = detached[p].by \cup {tx.id}
                       /\ tx'.dirty[p] = "detached" /\ exposed' = exposed \cup {tx.id}
            /\ ~gone => /\ cache'[p].dirty /\ tx.id \in cache'[p].by
                        /\ detached' = detached
                        /\ tx'.dirty[p] = "cached" /\ exposed' = exposed
            /\ ~gone /\ p \in active /\ cache[p].in =>
                 cache'[p].in /\ cache'[p].by = cache[p].by \cup {tx.id}
            /\ p \notin active => cache'[p].in /\ cache'[p].by = {tx.id}
            /\ tx'.id = tx.id /\ tx'.stage = "writing" /\ tx'.todo = tx.todo
            /\ tx'.wrote = tx.wrote \cup {p}
            /\ tx' \in [id: Txn \cup {NoTxn}, stage: {"none", "writing", "logging", "committed"},
                        dirty: [Page -> Pointer], todo: SUBSET Page, wrote: SUBSET Page]
<1> DEFINE gone == p \in active /\ detached[p].in
           got == {q \in Page : q = old /\ Readable(q)}
           c1 == IF old # 0 /\ Readable(old) THEN Got(old) ELSE cache
           c2 == WithPage(c1, p)
           d1 == IF old # 0 /\ Readable(old) THEN [tx.dirty EXCEPT ![old] = "cached"]
                                             ELSE tx.dirty
<1>1. /\ cache' = IF gone THEN c2
                  ELSE [c2 EXCEPT ![p].by = @ \cup {tx.id}, ![p].dirty = TRUE]
      /\ detached' = IF gone THEN [detached EXCEPT ![p].by = @ \cup {tx.id}] ELSE detached
      /\ tx' = [tx EXCEPT !.dirty = [d1 EXCEPT ![p] = IF gone THEN "detached" ELSE "cached"],
                           !.wrote = @ \cup {p}]
      /\ exposed' = IF gone THEN exposed \cup {tx.id} ELSE exposed
      /\ tx.stage = "writing"
  BY Zenon DEF WriteRecord
<1>2. /\ cache \in [Page -> Entry]
      /\ detached \in [Page -> [in: BOOLEAN, by: SUBSET Txn]]
      /\ tx \in [id: Txn \cup {NoTxn}, stage: {"none", "writing", "logging", "committed"},
                 dirty: [Page -> Pointer], todo: SUBSET Page, wrote: SUBSET Page]
      /\ 0 \notin Page
  BY DEF TypeOK, Page
<1>3. d1 \in [Page -> Pointer] /\ \A q \in Page : d1[q] = IF q \in got THEN "cached" ELSE tx.dirty[q]
  BY <1>2 DEF Pointer
<1>4. /\ c1 \in [Page -> Entry]
      /\ \A q \in Page : /\ c1[q].in <=> cache[q].in \/ q \in got
                         /\ cache[q].in => c1[q] = cache[q]
                         /\ c1[q] = cache[q] \/ (c1[q].by = osPage[q].by /\ c1[q].synced)
                         /\ q \in got => c1[q].by = Content(q)
  <2>1. CASE old # 0 /\ Readable(old)
    <3>1. old \in Page /\ got = {old} /\ c1 = Got(old)
      BY <2>1
    <3> HIDE DEF c1, got
    <3>2. /\ c1 \in [Page -> Entry]
          /\ \A q \in Page : /\ c1[q].in <=> cache[q].in \/ q = old
                             /\ c1[q].by = IF q = old THEN Content(q) ELSE cache[q].by
                             /\ cache[q].in \/ q # old => c1[q] = cache[q]
                             /\ ~cache[q].in /\ q = old => c1[q].synced
      BY <3>1, GotEffect
    <3> QED BY <3>1, <3>2 DEF Content
  <2>2. CASE ~(old # 0 /\ Readable(old))
    <3>1. c1 = cache /\ got = {}
      BY <1>2, <2>2
    <3> HIDE DEF c1, got
    <3> QED BY <1>2, <3>1
  <2> QED BY <2>1, <2>2
<1>5. /\ c2 \in [Page -> Entry]
      /\ \A q \in Page \ {p} : c2[q] = c1[q]
      /\ p \in active => c2[p] = c1[p]
      /\ p \notin active => c2[p] = Redirtied({})
  BY <1>4 DEF WithPage, Redirtied, Entry
<1>6. /\ cache' \in [Page -> Entry]
      /\ \A q \in Page \ {p} : cache'[q] = c2[q]
      /\ gone => cache'[p] = c2[p]
      /\ ~gone => cache'[p] = [c2[p] EXCEPT !.by = @ \cup {tx.id}, !.dirty = TRUE]
  <2> DEFINE d == [c2[p] EXCEPT !.by = @ \cup {tx.id}, !.dirty = TRUE]
  <2> HIDE DEF c1, c2, gone
  <2>1. d \in Entry
    BY <1>5, EntryInserted, Zenon
  <2>2. [c2 EXCEPT ![p].by = @ \cup {tx.id}, ![p].dirty = TRUE] = [c2 EXCEPT ![p] = d]
    BY <1>5, Zenon
  <2> HIDE DEF d
  <2>3. cache' = IF gone THEN c2 ELSE [c2 EXCEPT ![p] = d]
    BY <1>1, <2>2
  <2>4. /\ cache' \in [Page -> Entry]
        /\ \A q \in Page \ {p} : cache'[q] = c2[q]
        /\ gone => cache'[p] = c2[p]
        /\ ~gone => cache'[p] = d
    BY <1>5, <2>1, <2>3
  <2> QED BY <2>4 DEF d
<1>7. /\ detached' \in [Page -> [in: BOOLEAN, by: SUBSET Txn]]
      /\ \A q \in Page \ {p} : detached'[q] = detached[q]
      /\ gone => detached'[p].in /\ detached'[p].by = detached[p].by \cup {tx.id}
  BY <1>1, <1>2
<1>8. /\ tx' \in [id: Txn \cup {NoTxn}, stage: {"none", "writing", "logging", "committed"},
                  dirty: [Page -> Pointer], todo: SUBSET Page, wrote: SUBSET Page]
      /\ tx'.id = tx.id /\ tx'.stage = "writing" /\ tx'.todo = tx.todo
      /\ tx'.wrote = tx.wrote \cup {p}
      /\ \A q \in Page \ {p} : tx'.dirty[q] = d1[q]
      /\ tx'.dirty[p] = IF gone THEN "detached" ELSE "cached"
  <2> HIDE DEF d1, gone
  <2> QED BY <1>1, <1>2, <1>3, Zenon DEF Pointer
<1>9. /\ cache'[p] \in Entry
      /\ ~gone => cache'[p].in = c2[p].in /\ cache'[p].by = c2[p].by \cup {tx.id} /\ cache'[p].dirty
  <2> HIDE DEF c1, c2, gone
  <2>1. c2[p] \in Entry /\ cache'[p] \in Entry
    BY <1>5, <1>6
  <2>2. CASE ~gone
    <3> DEFINE e == c2[p]
    <3>1. e \in Entry /\ cache'[p] = [e EXCEPT !.by = @ \cup {tx.id}, !.dirty = TRUE]
      BY <1>6, <2>1, <2>2
    <3> HIDE DEF e
    <3>2. cache'[p].in = e.in /\ cache'[p].by = e.by \cup {tx.id} /\ cache'[p].dirty
      BY <3>1 DEF Entry
    <3> QED BY <2>1, <3>2, Zenon DEF e
  <2> QED BY <2>1, <2>2
<1> HIDE DEF c1, c2, d1, got
<1>10. \A q \in Page \ {p} :
         /\ cache'[q].in <=> cache[q].in \/ q \in got
         /\ cache[q].in => cache'[q] = cache[q]
         /\ cache'[q] = cache[q] \/ (cache'[q].by = osPage[q].by /\ cache'[q].synced)
         /\ q \in got => cache'[q].by = Content(q)
         /\ detached'[q] = detached[q]
         /\ tx'.dirty[q] = IF q \in got THEN "cached" ELSE tx.dirty[q]
  BY <1>3, <1>4, <1>5, <1>6, <1>7, <1>8
<1>11. gone => /\ cache'[p].in <=> cache[p].in \/ p \in got
               /\ cache[p].in => cache'[p] = cache[p]
               /\ cache[p].in \/ p \in got => cache'[p].by = Content(p)
               /\ cache'[p] = cache[p] \/ (cache'[p].by = osPage[p].by /\ cache'[p].synced)
  BY <1>4, <1>5, <1>6 DEF Content
<1>12. p \notin active => cache'[p].in /\ cache'[p].by = {tx.id}
  BY <1>5, <1>9 DEF Redirtied
<1>13. ~gone /\ p \in active /\ cache[p].in => cache'[p].in /\ cache'[p].by = cache[p].by \cup {tx.id}
  BY <1>4, <1>5, <1>9
<1>14. ~gone => tx.id \in cache'[p].by
  BY <1>9
<1> HIDE DEF gone
<1>15. detached' \in [Page -> [in: BOOLEAN, by: SUBSET Txn]] /\ (~gone => detached' = detached)
  BY <1>1, <1>7
<1>16. (gone => exposed' = exposed \cup {tx.id}) /\ (~gone => exposed' = exposed)
  BY <1>1
<1> QED BY <1>6, <1>7, <1>8, <1>9, <1>10, <1>11, <1>12, <1>13, <1>14, <1>15, <1>16, Zenon DEF gone, got

\* WriteEffect in parts.  The transaction, and the types of what changes.
LEMMA WriteTx ==
  ASSUME TypeOK, tx.id \in Txn,
         NEW old \in {0} \cup Page, NEW p \in Page, NEW full \in BOOLEAN, WriteRecord(old, p, full)
  PROVE  /\ cache' \in [Page -> Entry]
         /\ detached' \in [Page -> [in: BOOLEAN, by: SUBSET Txn]]
         /\ tx'.id = tx.id /\ tx'.stage = "writing" /\ tx'.todo = tx.todo
         /\ tx'.wrote = tx.wrote \cup {p}
         /\ tx' \in [id: Txn \cup {NoTxn}, stage: {"none", "writing", "logging", "committed"},
                     dirty: [Page -> Pointer], todo: SUBSET Page, wrote: SUBSET Page]
  BY WriteEffect, SMTT(20)

\* What WriteRecord does to a page q the record does not go into.
OtherWritten(old, q) ==
  /\ cache'[q].in <=> cache[q].in \/ (q = old /\ Readable(q))
  /\ cache[q].in => cache'[q] = cache[q]
  /\ cache'[q] = cache[q] \/ (cache'[q].by = osPage[q].by /\ cache'[q].synced)
  /\ cache'[q].in => cache'[q].by = Content(q)
  /\ detached'[q] = detached[q]
  /\ tx'.dirty[q] = IF q = old /\ Readable(q) THEN "cached" ELSE tx.dirty[q]

\* The pages the record does not go into.
LEMMA WriteOther ==
  ASSUME TypeOK, tx.id \in Txn,
         NEW old \in {0} \cup Page, NEW p \in Page, NEW full \in BOOLEAN, WriteRecord(old, p, full),
         NEW q \in Page, q # p
  PROVE  OtherWritten(old, q)
<1>1. q \in Page \ {p} /\ (q = old /\ Readable(q) <=> q \in {r \in Page : r = old /\ Readable(r)})
  BY ZenonT(60)
<1>2. /\ cache'[q].in <=> cache[q].in \/ (q = old /\ Readable(q))
      /\ cache[q].in => cache'[q] = cache[q]
      /\ cache'[q] = cache[q] \/ (cache'[q].by = osPage[q].by /\ cache'[q].synced)
      /\ q = old /\ Readable(q) => cache'[q].by = Content(q)
      /\ detached'[q] = detached[q]
      /\ tx'.dirty[q] = IF q = old /\ Readable(q) THEN "cached" ELSE tx.dirty[q]
  BY <1>1, WriteEffect, SMTT(20)
<1>3. cache'[q].in => cache'[q].by = Content(q)
  BY <1>2, ZenonT(60) DEF Content
<1> QED BY <1>2, <1>3, Zenon DEF OtherWritten

\* What WriteRecord does to a page p of activePages whose object is not in the cache.
DetachedWritten(old, p) ==
  /\ cache'[p].in <=> cache[p].in \/ (p = old /\ Readable(p))
  /\ cache[p].in => cache'[p] = cache[p]
  /\ cache'[p].in => cache'[p].by = Content(p)
  /\ cache'[p] = cache[p] \/ (cache'[p].by = osPage[p].by /\ cache'[p].synced)
  /\ detached'[p].in /\ detached'[p].by = detached[p].by \cup {tx.id}
  /\ tx'.dirty[p] = "detached" /\ exposed' = exposed \cup {tx.id}

\* A page of activePages whose object is not in the cache.
LEMMA WriteDetached ==
  ASSUME TypeOK, tx.id \in Txn,
         NEW old \in {0} \cup Page, NEW p \in Page, NEW full \in BOOLEAN, WriteRecord(old, p, full),
         p \in active, detached[p].in
  PROVE  DetachedWritten(old, p)
<1>1. p = old /\ Readable(p) <=> p \in {r \in Page : r = old /\ Readable(r)}
  BY ZenonT(60)
<1> QED BY <1>1, WriteEffect, SMTT(20) DEF DetachedWritten

\* Any other page, cached or new.
LEMMA WriteCached ==
  ASSUME TypeOK, tx.id \in Txn,
         NEW old \in {0} \cup Page, NEW p \in Page, NEW full \in BOOLEAN, WriteRecord(old, p, full),
         ~(p \in active /\ detached[p].in)
  PROVE  /\ cache'[p].dirty /\ tx.id \in cache'[p].by
         /\ detached' = detached
         /\ tx'.dirty[p] = "cached" /\ exposed' = exposed
         /\ p \in active /\ cache[p].in => cache'[p].in /\ cache'[p].by = cache[p].by \cup {tx.id}
         /\ p \notin active => cache'[p].in /\ cache'[p].by = {tx.id}
  BY WriteEffect, SMTT(20)

\* What WriteRecord leaves alone.
LEMMA WriteFrame ==
  ASSUME NEW old, NEW p, NEW full, WriteRecord(old, p, full)
  PROVE  /\ tx.stage = "writing" /\ exposed \subseteq exposed'
         /\ UNCHANGED <<phase, osPage, medPage, unsynced, wal, medWal, savedNext, job, last, wrote, acked>>
<1>1. exposed' = exposed \/ exposed' = exposed \cup {tx.id}
  BY Zenon DEF WriteRecord
<1>2. /\ tx.stage = "writing"
      /\ UNCHANGED <<phase, osPage, medPage, unsynced, wal, medWal, savedNext, job, last, wrote, acked>>
  BY Zenon DEF WriteRecord, file, log
<1> QED BY <1>1, <1>2

\* What Rollback leaves alone.
LEMMA RollbackFrame ==
  ASSUME Rollback
  PROVE  /\ tx.stage = "writing" /\ tx' = NoTx /\ exposed \subseteq exposed'
         /\ UNCHANGED <<phase, osPage, medPage, unsynced, wal, medWal, nextPage, savedNext, active, job,
                        last, wrote, acked>>
<1>1. exposed \subseteq exposed'
  BY DEF Rollback
<1>2. /\ tx.stage = "writing" /\ tx' = NoTx
      /\ UNCHANGED <<phase, osPage, medPage, unsynced, wal, medWal, nextPage, savedNext, active, job,
                     last, wrote, acked>>
  BY Zenon DEF Rollback, file, log
<1> QED BY <1>1, <1>2

\* CommitUpdate's MarkDirty leaves the content of the cache.
LEMMA CommitUpdateEffect ==
  ASSUME TypeOK, NEW p \in Page, CommitUpdate(p)
  PROVE  /\ cache' \in [Page -> Entry]
         /\ \A q \in Page : /\ cache'[q].in = cache[q].in /\ cache'[q].by = cache[q].by
                            /\ cache'[q] = cache[q] \/ cache'[q].dirty
<1>1. cache \in [Page -> Entry]
  BY DEF TypeOK
<1>2. CASE cache[p].in
  <2> DEFINE d == [cache[p] EXCEPT !.dirty = TRUE, !.marked = TRUE, !.synced = FALSE]
  <2>1. d \in Entry /\ d.in = cache[p].in /\ d.by = cache[p].by /\ d.dirty
    BY <1>1, EntryLogged, Zenon
  <2>2. cache' = [cache EXCEPT ![p] = d]
    BY <1>1, <1>2, Zenon DEF CommitUpdate
  <2> HIDE DEF d
  <2> QED BY <1>1, <2>1, <2>2
<1>3. CASE ~cache[p].in
  BY <1>1, <1>3 DEF CommitUpdate
<1> QED BY <1>2, <1>3

\* Flush leaves the content of the cache, and writes that of the page, or a torn
\* image, unless the page is clean.
LEMMA FlushEffect ==
  ASSUME TypeOK, NEW p \in Page, Flush(p)
  PROVE  /\ cache' \in [Page -> Entry]
         /\ \A q \in Page : cache'[q].in = cache[q].in /\ cache'[q].by = cache[q].by
         /\ \A q \in Page : cache'[q] = cache[q] \/ cache'[q].synced
         /\ medWal' \in {medWal, wal}
         /\ osPage' \in [Page -> Image]
         /\ \A q \in Page \ {p} : osPage'[q] = osPage[q]
         /\ \/ osPage' = osPage /\ exposed' = exposed
            \/ cache[p].in /\ osPage'[p] = Data(cache[p].by) /\ exposed' = exposed
            \/ /\ osPage'[p] = Unreadable /\ Changing(p)
               /\ exposed' = exposed \cup Unlogged(p, LogsAfterPowerLoss(wal, medWal'))
<1>1. cache \in [Page -> Entry] /\ osPage \in [Page -> Image]
  BY DEF TypeOK
<1>2. CASE cache[p].in /\ cache[p].dirty
  <2> DEFINE c == IF cache[p].synced THEN cache ELSE AllSynced(cache)
             d == [c[p] EXCEPT !.dirty = FALSE]
  <2>1. /\ c \in [Page -> Entry]
        /\ \A q \in Page : c[q].in = cache[q].in /\ c[q].by = cache[q].by
        /\ \A q \in Page : c[q] = cache[q] \/ c[q].synced
        /\ c[p].synced
    BY <1>1, AllSyncedEffect
  <2> HIDE DEF c
  <2>2. d \in Entry /\ d.in = c[p].in /\ d.by = c[p].by /\ d.synced
    <3>1. c[p] \in Entry
      BY <2>1
    <3> QED BY <2>1, <3>1, EntryCleaned
  <2>3. cache' = [c EXCEPT ![p] = d]
    BY <1>2, <2>1 DEF Flush, c
  <2> HIDE DEF d
  <2>4. /\ cache' \in [Page -> Entry]
        /\ \A q \in Page : cache'[q].in = cache[q].in /\ cache'[q].by = cache[q].by
        /\ \A q \in Page : cache'[q] = cache[q] \/ cache'[q].synced
    BY <2>1, <2>2, <2>3
  <2>5. PICK img \in Written(p) :
           /\ osPage' = [osPage EXCEPT ![p] = img]
           /\ exposed' = IF img = Unreadable
                           THEN exposed \cup Unlogged(p, LogsAfterPowerLoss(wal, medWal'))
                           ELSE exposed
    BY <1>2 DEF Flush
  <2>6. img \in Image /\ (img = Data(cache[p].by) \/ (img = Unreadable /\ Changing(p)))
    BY <1>1 DEF Written, Data, Unreadable, Image, Entry
  <2>7. Data(cache[p].by) # Unreadable
    BY DEF Data, Unreadable
  <2>8. medWal' \in {medWal, wal}
    BY <1>2 DEF Flush
  <2>9. osPage' \in [Page -> Image] /\ osPage'[p] = img /\ \A q \in Page \ {p} : osPage'[q] = osPage[q]
    BY <1>1, <2>5, <2>6
  <2> QED BY <1>2, <2>4, <2>5, <2>6, <2>7, <2>8, <2>9
<1>3. CASE ~(cache[p].in /\ cache[p].dirty)
  BY <1>1, <1>3 DEF Flush
<1> QED BY <1>2, <1>3

------------------------------------------------------------------------------
(* The log *)

NatLess == {ss \in Nat \X Nat : ss[1] < ss[2]}

\* There is no infinite descent among the natural numbers.
LEMMA NatLessWellFounded == IsWellFoundedOn(NatLess, Nat)
  BY NatLessThanWellFounded, Zenon DEF OpToRel, NatLess

\* A set of natural numbers has a least element.
LEMMA LeastExists ==
  ASSUME NEW D \in SUBSET Nat, D # {}
  PROVE  \E x \in D : \A y \in D : x <= y
<1>1. PICK x \in D : \A y \in D : ~(<<y, x>> \in NatLess)
  BY NatLessWellFounded, WFMin, Zenon
<1>2. \A y \in D : ~(y < x)
  BY <1>1, Zenon DEF NatLess
<1> QED BY <1>2

\* Max is the greatest element of a bounded set.
LEMMA MaxExists ==
  ASSUME NEW n \in Nat, NEW S \in SUBSET (0..n), S # {}
  PROVE  /\ Max(S) \in S
         /\ \A i \in S : i <= Max(S)
<1> DEFINE D == {n - i : i \in S}
<1>1. D \in SUBSET Nat /\ D # {}
  <2>1. \A i \in S : n - i \in Nat
    OBVIOUS
  <2>2. D \subseteq Nat
    BY <2>1
  <2>3. \A i \in S : n - i \in D
    OBVIOUS
  <2> QED BY <2>2, <2>3, Zenon
<1>2. PICK x \in D : \A y \in D : x <= y
  <2> HIDE DEF D
  <2> QED BY <1>1, LeastExists
<1>3. PICK m \in S : x = n - m
  OBVIOUS
<1>4. \A i \in S : m >= i
  <2> TAKE i \in S
  <2>1. x <= n - i
    BY <1>2
  <2> QED BY <2>1, <1>3
<1>5. Max(S) \in S /\ \A y \in S : Max(S) >= y
  BY <1>4, Zenon DEF Max
<1> QED BY <1>5

\* The image Recover leaves is that of the last redone update.
LEMMA RedoneImageIsLast ==
  ASSUME NEW w \in Seq(Record), NEW p \in Page, Redone(w, p) # {}
  PROVE  \E i \in Redone(w, p) : /\ \A j \in Redone(w, p) : j <= i
                                /\ RedoneImage(w, p) = w[i].by
<1>1. Redone(w, p) \in SUBSET (0..Len(w)) /\ Len(w) \in Nat
  BY DEF Redone
<1>2. Max(Redone(w, p)) \in Redone(w, p) /\ \A j \in Redone(w, p) : j <= Max(Redone(w, p))
  BY <1>1, MaxExists, Zenon
<1> QED BY <1>2 DEF RedoneImage

\* An empty log redoes nothing.
LEMMA NothingRedone == \A p \in Page : Redone(<<>>, p) = {}
  BY DEF Redone

\* Recover leaves a known image, and NextPageID above the pages it redid.
LEMMA RedoneType ==
  ASSUME TypeOK
  PROVE  /\ \A p \in RedonePages(wal) : RedoneImage(wal, p) \in SUBSET Txn
         /\ \A n \in 1..(MaxPage + 1) : /\ NextAfterRedo(wal, n) \in 1..(MaxPage + 1)
                                        /\ n <= NextAfterRedo(wal, n)
                                        /\ \A p \in RedonePages(wal) : p < NextAfterRedo(wal, n)
<1>1. ASSUME NEW p \in RedonePages(wal)
      PROVE  RedoneImage(wal, p) \in SUBSET Txn
  <2>1. p \in Page /\ Redone(wal, p) # {} /\ wal \in Seq(Record)
    BY DEF RedonePages, TypeOK
  <2>2. PICK i \in Redone(wal, p) : RedoneImage(wal, p) = wal[i].by
    BY <2>1, RedoneImageIsLast
  <2>3. wal[i] \in Record
    BY <2>1, <2>2 DEF Redone
  <2> QED BY <2>2, <2>3 DEF Record
<1>2. ASSUME NEW n \in 1..(MaxPage + 1)
      PROVE  /\ NextAfterRedo(wal, n) \in 1..(MaxPage + 1)
             /\ n <= NextAfterRedo(wal, n)
             /\ \A p \in RedonePages(wal) : p < NextAfterRedo(wal, n)
  <2> DEFINE S == {n} \cup {p + 1 : p \in RedonePages(wal)}
  <2>1. MaxPage + 1 \in Nat /\ \A p \in RedonePages(wal) : p \in 1..MaxPage
    BY WalAssumption DEF RedonePages, Page
  <2>2. S \in SUBSET (1..(MaxPage + 1)) /\ S # {}
    <3>1. \A i \in 1..MaxPage : i + 1 \in 1..(MaxPage + 1)
      BY WalAssumption
    <3> QED BY <2>1, <3>1, Zenon
  <2>3. n \in S /\ \A p \in RedonePages(wal) : p + 1 \in S
    OBVIOUS
  <2> HIDE DEF S
  <2>4. S \in SUBSET (0..(MaxPage + 1))
    BY <2>1, <2>2
  <2>5. Max(S) \in S /\ \A i \in S : i <= Max(S)
    BY <2>1, <2>2, <2>4, MaxExists, Zenon
  <2>6. NextAfterRedo(wal, n) = Max(S)
    BY DEF NextAfterRedo, S
  <2>7. Max(S) \in 1..(MaxPage + 1) /\ n <= Max(S)
    BY <2>2, <2>3, <2>5, Zenon
  <2>8. ASSUME NEW p \in RedonePages(wal)
        PROVE  p < Max(S)
    <3>1. p + 1 <= Max(S)
      BY <2>3, <2>5, Zenon
    <3> QED BY <2>1, <2>7, <3>1
  <2> QED BY <2>6, <2>7, <2>8
<1> QED BY <1>1, <1>2

\* Prefixes of a log, and of one with another record.
LEMMA PrefixesOfLog ==
  ASSUME NEW w \in Seq(Record)
  PROVE  /\ w \in Prefixes(w)
         /\ Prefixes(w) \subseteq Seq(Record)
         /\ \A r \in Record : Prefixes(Append(w, r)) = Prefixes(w) \cup {Append(w, r)}
<1>1. \A n \in 0..Len(w) : SubSeq(w, 1, n) \in Seq(Record)
  OBVIOUS
<1>2. SubSeq(w, 1, Len(w)) = w /\ Len(w) \in 0..Len(w)
  OBVIOUS
<1>3. ASSUME NEW r \in Record
      PROVE  Prefixes(Append(w, r)) = Prefixes(w) \cup {Append(w, r)}
  <2> DEFINE v == Append(w, r)
  <2>1. v \in Seq(Record) /\ Len(v) = Len(w) + 1 /\ SubSeq(v, 1, Len(v)) = v
    OBVIOUS
  <2>2. \A n \in 0..Len(w) : SubSeq(v, 1, n) = SubSeq(w, 1, n)
    OBVIOUS
  <2>3. 0..Len(v) = (0..Len(w)) \cup {Len(v)}
    BY <2>1
  <2> HIDE DEF v
  <2>4. {SubSeq(v, 1, n) : n \in 0..Len(v)} = {SubSeq(w, 1, n) : n \in 0..Len(w)} \cup {v}
    BY <2>1, <2>2, <2>3, ZenonT(60)
  <2> QED BY <2>4 DEF Prefixes, v
<1>4. w \in Prefixes(w)
  BY <1>2, Zenon DEF Prefixes
<1>5. Prefixes(w) \subseteq Seq(Record)
  BY <1>1, Zenon DEF Prefixes
<1> QED BY <1>3, <1>4, <1>5

\* A prefix is not longer than the log.
LEMMA PrefixIsShorter ==
  ASSUME NEW w \in Seq(Record), NEW v \in Prefixes(w)
  PROVE  Len(v) <= Len(w)
<1>1. PICK n \in 0..Len(w) : v = SubSeq(w, 1, n)
  BY DEF Prefixes
<1> QED BY <1>1

\* The log itself and the one on the medium may be left, and only logs.
LEMMA LogsInclude ==
  ASSUME NEW w \in Seq(Record), NEW m \in Seq(Record)
  PROVE  /\ w \in LogsAfterPowerLoss(w, m)
         /\ m \in LogsAfterPowerLoss(w, m)
         /\ LogsAfterPowerLoss(w, m) \subseteq Seq(Record)
<1>1. m \in Prefixes(w) => Len(w) >= Len(m) /\ Len(m) >= Len(m)
  BY PrefixIsShorter
<1> QED BY <1>1, PrefixesOfLog DEF LogsAfterPowerLoss

------------------------------------------------------------------------------
(* The initial state and the types *)

\* The invariant holds when nothing has happened yet.
LEMMA InitHolds == Init => IInv
<1> SUFFICES ASSUME Init PROVE IInv
  OBVIOUS
<1> USE DEF Init
<1>1. TypeOK
  BY WalAssumption DEF TypeOK, Page, Txn, Image, Unreadable, Entry, NoEntry, NotInCache, NoObject,
     NoTx, NoTxn, NoPages, Pointer, Idle
<1>2. ImagesOK
  BY DEF ImagesOK, Unreadable
<1>3. Known
  BY DEF Known, Unreadable, NotInCache, NoEntry, NoObject
<1>4. Phases
  BY DEF Phases, NotInCache, NoEntry
<1>5. StoreOK
  BY DEF StoreOK, NoObject
<1>6. PageLsnDurable
  BY DEF PageLsnDurable, NotInCache, NoEntry
<1>7. Recoverable /\ Present
  BY DEF Recoverable, Present, Holders
<1>8. WriterOK
  BY DEF WriterOK
<1>9. LogOK
  BY DEF LogOK, InOrder
<1>10. JobOK
  BY DEF JobOK, Idle
<1> QED BY <1>1, <1>2, <1>3, <1>4, <1>5, <1>6, <1>7, <1>8, <1>9, <1>10 DEF IInv

\* No transaction is a value of tx.
LEMMA NoTxType ==
  NoTx \in [id: Txn \cup {NoTxn}, stage: {"none", "writing", "logging", "committed"},
            dirty: [Page -> Pointer], todo: SUBSET Page, wrote: SUBSET Page]
  BY DEF NoTx, NoPages, Pointer

\* Every step leaves the variables in their types.
LEMMA TypeStep == TypeOK /\ WriterOK /\ [Next]_vars => TypeOK'
<1> SUFFICES ASSUME TypeOK, WriterOK, [Next]_vars PROVE TypeOK'
  OBVIOUS
<1>0. tx.stage # "none" => tx.id \in Txn
  BY DEF TypeOK, WriterOK, NoTx
<1> USE WalAssumption DEF file, log, store, history
<1>1. CASE Open
  BY <1>1 DEF Open, TypeOK
<1>2. CASE RecoverRedo
  <2>1. nextPage' \in 1..(MaxPage + 1)
    BY <1>2, RedoneType DEF RecoverRedo, TypeOK
  <2>2. osPage' \in [Page -> Image]
    BY <1>2, RedoneType DEF RecoverRedo, TypeOK, Image, Data
  <2>3. cache' \in [Page -> Entry]
    BY <1>2, RedoneType DEF RecoverRedo, TypeOK, Entry, Redirtied
  <2>4. unsynced' \in SUBSET Page
    BY <1>2 DEF RecoverRedo, TypeOK, RedonePages
  <2> QED BY <1>2, <2>1, <2>2, <2>3, <2>4 DEF RecoverRedo, TypeOK
<1>3. CASE RecoverFlush
  <2>1. \A p \in Page : cache'[p] = [cache[p] EXCEPT !.dirty = FALSE] /\ cache[p] \in Entry
    BY <1>3 DEF RecoverFlush, TypeOK
  <2>2. cache' \in [Page -> Entry]
    BY <1>3, <2>1, EntryCleaned DEF RecoverFlush
  <2> QED BY <1>3, <2>2 DEF RecoverFlush, TypeOK
<1>4. CASE RecoverSave
  BY <1>4 DEF RecoverSave, TypeOK
<1>5. CASE RecoverTruncate
  BY <1>5 DEF RecoverTruncate, TypeOK
<1>6. CASE Begin
  <2>1. last + 1 \in 1..MaxTxn
    BY <1>6 DEF Begin, TypeOK
  <2>2. tx' = [id |-> last + 1, stage |-> "writing", dirty |-> NoPages, todo |-> {}, wrote |-> {}]
    BY <1>6, Zenon DEF Begin, NoTx
  <2>3. NoPages \in [Page -> Pointer]
    BY DEF NoPages, Pointer
  <2> QED BY <1>6, <2>1, <2>2, <2>3 DEF Begin, TypeOK, Txn
<1>7. ASSUME NEW old \in {0} \cup Page, NEW p \in Page, NEW full \in BOOLEAN,
             WriteRecord(old, p, full)
      PROVE  TypeOK'
  <2>1. tx.id \in Txn
    BY <1>0, <1>7 DEF WriteRecord
  <2>2. /\ cache' \in [Page -> Entry]
        /\ detached' \in [Page -> [in: BOOLEAN, by: SUBSET Txn]]
        /\ tx' \in [id: Txn \cup {NoTxn}, stage: {"none", "writing", "logging", "committed"},
                    dirty: [Page -> Pointer], todo: SUBSET Page, wrote: SUBSET Page]
        /\ exposed' = exposed \/ exposed' = exposed \cup {tx.id}
    BY <1>7, <2>1, WriteEffect
  <2>3. nextPage' \in 1..(MaxPage + 1) /\ active' \in SUBSET Page
    BY <1>7 DEF WriteRecord, TypeOK, Page
  <2>4. UNCHANGED <<phase, file, log, savedNext, job, last, wrote, acked>>
    BY <1>7 DEF WriteRecord
  <2> QED BY <2>1, <2>2, <2>3, <2>4 DEF TypeOK
<1>8. CASE CommitBegin
  BY <1>8, Zenon DEF CommitBegin, TypeOK
<1>9. ASSUME NEW p \in Page, CommitUpdate(p)
      PROVE  TypeOK'
  <2>1. Behind(p) \in SUBSET Txn
    BY DEF Behind, TypeOK, Entry
  <2>2. tx.id \in Txn
    BY <1>9, <1>0 DEF CommitUpdate
  <2>3. [type |-> "update", txn |-> tx.id, page |-> p, by |-> Behind(p)] \in Record
    BY <2>1, <2>2 DEF Record
  <2>4. wal' \in Seq(Record)
    BY <1>9, <2>3 DEF CommitUpdate, TypeOK
  <2>5. cache' \in [Page -> Entry]
    BY <1>9, CommitUpdateEffect
  <2> QED BY <1>9, <2>4, <2>5, ZenonT(60) DEF CommitUpdate, TypeOK
<1>10. CASE CommitRecord
  <2>1. tx.id \in Txn
    BY <1>10, <1>0 DEF CommitRecord
  <2>2. [type |-> "commit", txn |-> tx.id, page |-> 0, by |-> {}] \in Record
    BY <2>1 DEF Record
  <2>3. wal' \in Seq(Record)
    BY <1>10, <2>2 DEF CommitRecord, TypeOK
  <2> QED BY <1>10, <2>3, Zenon DEF CommitRecord, TypeOK
<1>11. CASE CommitSync
  <2>1. tx.id \in Txn
    BY <1>11, <1>0 DEF CommitSync
  <2>2. cache' \in [Page -> Entry]
    BY <1>11, AllSyncedEffect, ZenonT(60) DEF CommitSync, TypeOK
  <2> QED BY <1>11, <2>1, <2>2, NoTxType DEF CommitSync, TypeOK
<1>12. CASE CommitFails
  BY <1>12 DEF CommitFails, TypeOK, NoTx, NoTxn, NoPages, Pointer
<1>13. CASE Rollback
  <2>1. cache' \in [Page -> Entry]
    BY <1>13 DEF Rollback, TypeOK, NoEntry, Entry
  <2>2. detached' \in [Page -> [in: BOOLEAN, by: SUBSET Txn]]
    BY <1>13 DEF Rollback, TypeOK, Entry
  <2>3. exposed' \in SUBSET Txn
    BY <1>13 DEF Rollback, TypeOK, Missing
  <2>4. tx' = NoTx /\ UNCHANGED <<phase, file, log, nextPage, savedNext, active, job, last, wrote, acked>>
    BY <1>13 DEF Rollback
  <2> QED BY <2>1, <2>2, <2>3, <2>4, NoTxType DEF TypeOK
<1>14. ASSUME NEW p \in Page, ReadRecord(p)
      PROVE  TypeOK'
  BY <1>14 DEF ReadRecord, TypeOK, Got, Loaded, Entry, Image
<1>15. ASSUME NEW who \in Maintenance, FlushAll(who)
      PROVE  TypeOK'
  BY <1>15 DEF FlushAll, TypeOK, DirtyPages
<1>16. ASSUME NEW p \in Page, Flush(p)
      PROVE  TypeOK'
  <2>1. job' \in [who: {"none", "close"} \cup Maintenance,
                  stage: {"idle", "flush", "save", "truncate", "close"}, left: SUBSET Page]
    BY <1>16 DEF Flush, TypeOK
  <2>2. medWal' \in Seq(Record) /\ unsynced' \in SUBSET Page
    BY <1>16 DEF Flush, TypeOK
  <2>3. cache' \in [Page -> Entry] /\ osPage' \in [Page -> Image]
    BY <1>16, FlushEffect
  <2>4. exposed' \in SUBSET Txn
    BY <1>16, FlushEffect DEF Unlogged, TypeOK
  <2> QED BY <1>16, <2>1, <2>2, <2>3, <2>4 DEF Flush, TypeOK
<1>17. CASE FlushAllSync
  BY <1>17, Zenon DEF FlushAllSync, TypeOK
<1>18. CASE FlushAllSave
  BY <1>18, ZenonT(60) DEF FlushAllSave, TypeOK, Idle
<1>19. CASE RunOnceTruncate
  <2>1. Committing \subseteq Txn
    BY <1>0 DEF Committing
  <2>2. Missing(acked \cup Committing, medPage) \subseteq Txn
    BY <2>1 DEF Missing, TypeOK
  <2>3. exposed' \in SUBSET Txn
    BY <1>19, <2>2, Zenon DEF RunOnceTruncate, TypeOK
  <2>4. wal' = <<>> /\ job' = Idle
        /\ UNCHANGED <<phase, file, medWal, nextPage, savedNext, cache, store, tx, last, wrote, acked>>
    BY <1>19 DEF RunOnceTruncate
  <2> QED BY <2>3, <2>4 DEF TypeOK, Idle
<1>20. CASE CloseBegin
  BY <1>20 DEF CloseBegin, TypeOK, DirtyPages
<1>21. CASE CloseEnd
  BY <1>21 DEF CloseEnd, Volatile, TypeOK, NotInCache, NoEntry, Entry, NoObject, NoTx, NoTxn, NoPages, Pointer, Idle
<1>22. CASE Kill
  BY <1>22, Zenon DEF Kill, Volatile, TypeOK, NotInCache, NoEntry, Entry, NoObject, NoTx, NoTxn, NoPages, Pointer, Idle
<1>23. CASE PowerLoss
  <2>1. PICK w \in Logs, f \in [Page -> UNION {ImagesAfterPowerLoss(p) : p \in Page}] :
           /\ \A p \in Page : f[p] \in ImagesAfterPowerLoss(p)
           /\ wal' = w /\ medWal' = w
           /\ osPage' = f /\ medPage' = f /\ unsynced' = {}
           /\ exposed' = exposed \cup
                UNION {Unlogged(p, {w}) : p \in {q \in Page : f[q] \notin {osPage[q], medPage[q]}}}
    BY <1>23, Zenon DEF PowerLoss, Logs
  <2>2. w \in Seq(Record)
    BY LogsInclude DEF TypeOK, Logs
  <2>3. Unreadable \in Image /\ \A p \in Page : osPage[p] \in Image /\ medPage[p] \in Image
    BY DEF TypeOK, Unreadable, Image
  <2>4. f \in [Page -> Image]
    BY <2>1, <2>3 DEF ImagesAfterPowerLoss
  <2>5. \A p \in Page : Unlogged(p, {w}) \subseteq Txn
    BY DEF Unlogged, TypeOK
  <2>6. exposed' \in SUBSET Txn
    <3>1. exposed \subseteq Txn
      BY DEF TypeOK
    <3> QED BY <2>1, <2>5, <3>1, Zenon
  <2> QED BY <1>23, <2>1, <2>2, <2>4, <2>6, Zenon DEF PowerLoss, TypeOK
<1>24. CASE UNCHANGED vars
  BY <1>24 DEF vars, TypeOK
<1> QED BY <1>1, <1>2, <1>3, <1>4, <1>5, <1>6, <1>7, <1>8, <1>9, <1>10, <1>11, <1>12, <1>13, <1>14,
           <1>15, <1>16, <1>17, <1>18, <1>19, <1>20, <1>21, <1>22, <1>23, <1>24
     DEF Next, Recover, Writer, Maintain

------------------------------------------------------------------------------
(* The file *)

\* The steps that write to the file.
LEMMA FileChanges ==
  [Next]_vars =>
    \/ UNCHANGED <<osPage, medPage>>
    \/ RecoverRedo \/ RecoverFlush \/ FlushAllSync \/ PowerLoss
    \/ \E p \in Page : Flush(p)
<1> SUFFICES ASSUME [Next]_vars,
                    ~(RecoverRedo \/ RecoverFlush \/ FlushAllSync \/ PowerLoss),
                    ~\E p \in Page : Flush(p)
             PROVE  UNCHANGED <<osPage, medPage>>
  OBVIOUS
<1>1. CASE Writer
  BY <1>1, WriteFrame, RollbackFrame, ZenonT(60) DEF Writer, file, Begin, CommitBegin, CommitUpdate, CommitRecord,
     CommitSync, CommitFails
<1>2. CASE ~Writer
  BY <1>2 DEF Next, Recover, Maintain, vars, file, Open, RecoverSave, RecoverTruncate,
     ReadRecord, FlushAll, FlushAllSave, RunOnceTruncate, CloseBegin, CloseEnd, Kill
<1> QED BY <1>1, <1>2

\* PowerLoss leaves one log, and of each page one of its images or a torn one.
LEMMA PowerLossEffect ==
  ASSUME PowerLoss
  PROVE  /\ wal' \in Logs /\ medWal' = wal'
         /\ \A p \in Page : osPage'[p] \in {osPage[p], medPage[p], Unreadable} /\ medPage'[p] = osPage'[p]
         /\ exposed \subseteq exposed'
         /\ \A p \in Page : osPage'[p] \in {osPage[p], medPage[p]} \/ Unlogged(p, {wal'}) \subseteq exposed'
<1>1. PICK w \in Logs, f \in [Page -> UNION {ImagesAfterPowerLoss(p) : p \in Page}] :
         /\ \A p \in Page : f[p] \in ImagesAfterPowerLoss(p)
         /\ wal' = w /\ medWal' = w
         /\ osPage' = f /\ medPage' = f /\ unsynced' = {}
         /\ exposed' = exposed \cup
              UNION {Unlogged(p, {w}) : p \in {q \in Page : f[q] \notin {osPage[q], medPage[q]}}}
  BY Zenon DEF PowerLoss, Logs
<1>2. wal' \in Logs /\ medWal' = wal'
  BY <1>1
<1>3. \A p \in Page : osPage'[p] \in {osPage[p], medPage[p], Unreadable} /\ medPage'[p] = osPage'[p]
  BY <1>1 DEF ImagesAfterPowerLoss
<1>4. exposed \subseteq exposed'
  BY <1>1
<1>5. \A p \in Page : osPage'[p] \in {osPage[p], medPage[p]} \/ Unlogged(p, {wal'}) \subseteq exposed'
  BY <1>1, Zenon
<1> QED BY <1>2, <1>3, <1>4, <1>5

\* A page that cannot be read has no records.
LEMMA ImagesStep == TypeOK /\ ImagesOK /\ [Next]_vars => ImagesOK'
<1> SUFFICES ASSUME TypeOK, ImagesOK, [Next]_vars PROVE ImagesOK'
  OBVIOUS
<1>1. CASE UNCHANGED <<osPage, medPage>>
  BY <1>1 DEF ImagesOK
<1>2. CASE RecoverRedo
  BY <1>2 DEF RecoverRedo, ImagesOK, Data
<1>3. CASE RecoverFlush \/ FlushAllSync
  BY <1>3 DEF RecoverFlush, FlushAllSync, ImagesOK
<1>4. ASSUME NEW p \in Page, Flush(p)
      PROVE  ImagesOK'
  <2>1. \A q \in Page : osPage'[q] = osPage[q] \/ osPage'[q].kind = "data" \/ osPage'[q].by = {}
    <3>1. /\ \A q \in Page \ {p} : osPage'[q] = osPage[q]
          /\ osPage' = osPage \/ osPage'[p] = Data(cache[p].by) \/ osPage'[p] = Unreadable
      BY <1>4, FlushEffect
    <3> QED BY <3>1 DEF Data, Unreadable
  <2>2. medPage' = medPage
    BY <1>4 DEF Flush
  <2> QED BY <2>1, <2>2 DEF ImagesOK
<1>5. CASE PowerLoss
  <2>1. \A p \in Page : osPage'[p] \in {osPage[p], medPage[p], Unreadable} /\ medPage'[p] = osPage'[p]
    BY <1>5, PowerLossEffect
  <2> QED BY <2>1 DEF ImagesOK, Unreadable
<1> QED BY <1>1, <1>2, <1>3, <1>4, <1>5, FileChanges

------------------------------------------------------------------------------
(* The phases, the store and the page LSNs *)

\* What is still as Open found it stays so until the database runs.
LEMMA PhasesStep == TypeOK /\ Phases /\ [Next]_vars => Phases'
<1> SUFFICES ASSUME TypeOK, Phases, [Next]_vars PROVE Phases'
  OBVIOUS
<1> USE DEF Phases, file, log, store, history
<1>1. CASE Open
  BY <1>1 DEF Open
<1>2. CASE RecoverRedo
  <2>1. \A p \in Page : cache'[p].synced
    BY <1>2 DEF RecoverRedo, Redirtied
  <2> QED BY <1>2, <2>1 DEF RecoverRedo
<1>3. CASE RecoverFlush
  <2>1. \A p \in Page : cache'[p].synced
    <3>1. \A p \in Page : cache'[p] = [cache[p] EXCEPT !.dirty = FALSE] /\ cache[p] \in Entry
      BY <1>3 DEF RecoverFlush, TypeOK
    <3>2. \A p \in Page : cache[p].synced
      BY <1>3 DEF RecoverFlush
    <3> QED BY <3>1, <3>2, Zenon DEF Entry
  <2> QED BY <1>3, <2>1 DEF RecoverFlush
<1>4. CASE RecoverSave \/ RecoverTruncate
  BY <1>4 DEF RecoverSave, RecoverTruncate
<1>5. CASE Writer
  <2>1. phase = "running" /\ phase' = "running"
    <3>1. NoTx.stage = "none"
      BY DEF NoTx
    <3>2. ASSUME NEW old \in {0} \cup Page, NEW p \in Page, NEW full \in BOOLEAN, WriteRecord(old, p, full)
          PROVE  tx.stage = "writing" /\ phase' = phase
      BY <3>2, WriteFrame
    <3> QED BY <1>5, <3>1, <3>2, Zenon DEF Writer, Begin, CommitBegin, CommitUpdate, CommitRecord, CommitSync,
         CommitFails, Rollback
  <2> QED BY <2>1
<1>6. CASE Maintain
  <2>1. phase \in {"running", "closing"} /\ phase' = phase /\ tx' = tx
    BY <1>6 DEF Maintain, FlushAll, Flush, FlushAllSync, FlushAllSave, RunOnceTruncate, Idle
  <2> QED BY <2>1
<1>7. ASSUME NEW p \in Page, ReadRecord(p)
      PROVE  Phases'
  BY <1>7 DEF ReadRecord
<1>8. CASE CloseBegin
  BY <1>8 DEF CloseBegin
<1>9. CASE CloseEnd \/ Kill
  BY <1>9 DEF CloseEnd, Kill, Volatile, NotInCache, NoEntry
<1>10. CASE PowerLoss
  BY <1>10 DEF PowerLoss
<1>11. CASE UNCHANGED vars
  BY <1>11 DEF vars
<1> QED BY <1>1, <1>2, <1>3, <1>4, <1>5, <1>6, <1>7, <1>8, <1>9, <1>10, <1>11 DEF Next, Recover

\* A transaction at work has a number.
LEMMA WriterAtWork ==
  ASSUME TypeOK, WriterOK, tx.stage # "none"
  PROVE  tx # NoTx /\ tx.id \in Txn /\ tx.id = last /\ tx.id \notin acked
  BY DEF TypeOK, WriterOK, NoTx

\* The steps that change the cache.
LEMMA CacheChanges ==
  [Next]_vars =>
    \/ UNCHANGED cache
    \/ RecoverRedo \/ RecoverFlush \/ CommitSync \/ Rollback \/ CloseEnd \/ Kill
    \/ \E p \in Page : CommitUpdate(p) \/ ReadRecord(p) \/ Flush(p)
    \/ \E old \in {0} \cup Page, p \in Page, full \in BOOLEAN : WriteRecord(old, p, full)
<1> SUFFICES ASSUME [Next]_vars,
                    ~(RecoverRedo \/ RecoverFlush \/ CommitSync \/ Rollback \/ CloseEnd \/ Kill),
                    ~\E p \in Page : CommitUpdate(p) \/ ReadRecord(p) \/ Flush(p),
                    ~\E old \in {0} \cup Page, p \in Page, full \in BOOLEAN : WriteRecord(old, p, full)
             PROVE  UNCHANGED cache
  OBVIOUS
<1> QED BY Zenon DEF Next, Recover, Writer, Maintain, vars, Open, RecoverSave, RecoverTruncate, Begin,
     CommitBegin, CommitRecord, CommitFails, FlushAll, FlushAllSync, FlushAllSave, RunOnceTruncate,
     CloseBegin, PowerLoss

\* The steps that change activePages, its objects, or NextPageID.
LEMMA StoreChanges ==
  [Next]_vars =>
    \/ UNCHANGED <<active, detached, nextPage>>
    \/ Open \/ RecoverRedo \/ Rollback \/ CloseEnd \/ Kill
    \/ \E old \in {0} \cup Page, p \in Page, full \in BOOLEAN : WriteRecord(old, p, full)
<1> SUFFICES ASSUME [Next]_vars,
                    ~(Open \/ RecoverRedo \/ Rollback \/ CloseEnd \/ Kill),
                    ~\E old \in {0} \cup Page, p \in Page, full \in BOOLEAN : WriteRecord(old, p, full)
             PROVE  UNCHANGED <<active, detached, nextPage>>
  OBVIOUS
<1> QED BY Zenon DEF Next, Recover, Writer, Maintain, vars, store, RecoverFlush, RecoverSave, RecoverTruncate,
     Begin, CommitBegin, CommitUpdate, CommitRecord, CommitSync, CommitFails, ReadRecord, FlushAll, Flush,
     FlushAllSync, FlushAllSave, RunOnceTruncate, CloseBegin, PowerLoss

\* The objects of activePages stay allocated, and leave the cache only detached.
LEMMA StoreStep == TypeOK /\ Phases /\ StoreOK /\ WriterOK /\ [Next]_vars => StoreOK'
<1> SUFFICES ASSUME TypeOK, Phases, StoreOK, WriterOK, [Next]_vars PROVE StoreOK'
  OBVIOUS
<1>1. ASSUME active = {}, detached = NoObject, active' = active, detached' = detached
      PROVE  StoreOK'
  BY <1>1 DEF StoreOK, NoObject
<1>2. ASSUME active' = {}, detached' = NoObject
      PROVE  StoreOK'
  BY <1>2 DEF StoreOK, NoObject
<1>3. ASSUME NEW old \in {0} \cup Page, NEW p \in Page, NEW full \in BOOLEAN, WriteRecord(old, p, full)
      PROVE  StoreOK'
  <2>1. tx.id \in Txn
    BY <1>3, WriterAtWork, WriteFrame
  <2>2. /\ \A q \in Page \ {p} : /\ detached'[q] = detached[q]
                                 /\ cache[q].in => cache'[q].in
        /\ p \in active /\ ~detached[p].in /\ cache[p].in => cache'[p].in
        /\ p \in active /\ detached[p].in => detached'[p].in
        /\ ~(p \in active /\ detached[p].in) => detached'[p] = detached[p]
        /\ p \notin active => cache'[p].in
    <3>1. ASSUME NEW q \in Page, q # p
          PROVE  detached'[q] = detached[q] /\ (cache[q].in => cache'[q].in)
      <4>1. detached'[q] = detached[q] /\ (cache'[q].in <=> cache[q].in \/ (q = old /\ Readable(q)))
        BY <1>3, <2>1, <3>1, WriteOther DEF OtherWritten
      <4> QED BY <4>1
    <3>2. p \in active /\ detached[p].in => detached'[p].in
      BY <1>3, <2>1, WriteDetached DEF DetachedWritten
    <3>3. ~(p \in active /\ detached[p].in) =>
            /\ detached' = detached
            /\ p \in active /\ cache[p].in => cache'[p].in
            /\ p \notin active => cache'[p].in
      BY <1>3, <2>1, WriteCached
    <3> QED BY <3>1, <3>2, <3>3
  <2>3. /\ p \in active \/ p = nextPage
        /\ nextPage' = IF p \in active THEN nextPage ELSE nextPage + 1
        /\ active' \subseteq active \cup {p}
    BY <1>3 DEF WriteRecord
  <2>4. nextPage \in Nat /\ p \in Nat
    BY WalAssumption DEF TypeOK, Page
  <2>5. p < nextPage' /\ nextPage <= nextPage'
    BY <2>3, <2>4 DEF StoreOK
  <2>6. ASSUME NEW q \in Page
        PROVE  /\ q \in active' \/ detached'[q].in => q < nextPage'
               /\ q \in active' => detached'[q].in \/ cache'[q].in
    <3>1. CASE q = p
      BY <2>2, <2>5, <3>1 DEF StoreOK
    <3>2. CASE q # p
      <4>1. q \in active' => q \in active
        BY <2>3, <3>2
      <4>2. q \in active \/ detached[q].in => q < nextPage'
        BY <2>3, <2>4, <2>5 DEF StoreOK, Page
      <4> QED BY <2>2, <3>2, <4>1, <4>2 DEF StoreOK
    <3> QED BY <3>1, <3>2
  <2> QED BY <2>6 DEF StoreOK
<1>4. CASE Rollback
  <2>1. /\ active' = active /\ nextPage' = nextPage
        /\ \A p \in Page : /\ detached'[p].in => detached[p].in \/ p \in active
                           /\ detached[p].in => detached'[p].in
                           /\ p \in active => detached'[p].in \/ cache'[p] = cache[p]
    BY <1>4 DEF Rollback
  <2> QED BY <2>1 DEF StoreOK
<1>5. CASE /\ UNCHANGED <<active, detached, nextPage>>
           /\ \A p \in Page : cache[p].in => cache'[p].in
  BY <1>5 DEF StoreOK
<1>6. CASE UNCHANGED <<active, detached, nextPage>> /\ ~(RecoverFlush \/ Rollback \/ CloseEnd \/ Kill \/ RecoverRedo)
           /\ (~\E old \in {0} \cup Page, p \in Page, full \in BOOLEAN : WriteRecord(old, p, full))
  <2>1. CASE UNCHANGED cache
    BY <1>5, <1>6, <2>1
  <2>2. CASE CommitSync
    BY <1>5, <1>6, <2>2, AllSyncedEffect DEF CommitSync, TypeOK
  <2>3. ASSUME NEW p \in Page, CommitUpdate(p)
        PROVE  StoreOK'
    BY <1>5, <1>6, <2>3, CommitUpdateEffect
  <2>4. ASSUME NEW p \in Page, ReadRecord(p)
        PROVE  StoreOK'
    BY <1>5, <1>6, <2>4, GotEffect DEF ReadRecord
  <2>5. ASSUME NEW p \in Page, Flush(p)
        PROVE  StoreOK'
    BY <1>5, <1>6, <2>5, FlushEffect
  <2> QED BY <1>6, <2>1, <2>2, <2>3, <2>4, <2>5, CacheChanges
<1>7. CASE Open \/ RecoverRedo \/ RecoverFlush
  <2>1. active = {} /\ detached = NoObject /\ active' = active /\ detached' = detached
    BY <1>7 DEF Open, RecoverRedo, RecoverFlush, Phases, store
  <2> QED BY <1>1, <2>1
<1>8. CASE CloseEnd \/ Kill
  <2>1. active' = {} /\ detached' = NoObject
    BY <1>8 DEF CloseEnd, Kill, Volatile
  <2> QED BY <1>2, <2>1
<1> QED BY <1>3, <1>4, <1>6, <1>7, <1>8, StoreChanges

\* handoff.md's DurableWAL >= PageLSN: only a dirty page has a record that is not
\* durable yet.
LEMMA PageLsnStep ==
  TypeOK /\ Phases /\ WriterOK /\ PageLsnDurable /\ [Next]_vars => PageLsnDurable'
<1> SUFFICES ASSUME TypeOK, Phases, WriterOK, PageLsnDurable, [Next]_vars PROVE PageLsnDurable'
  OBVIOUS
<1> SUFFICES ASSUME NEW q \in Page
             PROVE  cache'[q].in /\ ~cache'[q].synced => cache'[q].dirty
  BY DEF PageLsnDurable
<1>1. cache[q].in /\ ~cache[q].synced => cache[q].dirty
  BY DEF PageLsnDurable
<1>2. cache \in [Page -> Entry]
  BY DEF TypeOK
<1>3. CASE UNCHANGED cache
  BY <1>1, <1>3
<1>4. CASE RecoverRedo \/ RecoverFlush \/ CloseEnd \/ Kill
  <2>1. phase' \notin {"running", "closing"}
    BY <1>4 DEF RecoverRedo, RecoverFlush, CloseEnd, Kill, Volatile
  <2> QED BY <2>1, PhasesStep DEF Phases
<1>5. CASE CommitSync
  BY <1>2, <1>5, AllSyncedEffect DEF CommitSync
<1>6. CASE Rollback
  BY <1>1, <1>6 DEF Rollback, NoEntry
<1>7. ASSUME NEW p \in Page, CommitUpdate(p)
      PROVE  cache'[q].in /\ ~cache'[q].synced => cache'[q].dirty
  BY <1>1, <1>7, CommitUpdateEffect
<1>8. ASSUME NEW p \in Page, ReadRecord(p)
      PROVE  cache'[q].in /\ ~cache'[q].synced => cache'[q].dirty
  <2>1. cache'[q] = cache[q] \/ cache'[q].synced
    BY <1>8, GotEffect DEF ReadRecord
  <2> QED BY <1>1, <2>1
<1>9. ASSUME NEW p \in Page, Flush(p)
      PROVE  cache'[q].in /\ ~cache'[q].synced => cache'[q].dirty
  BY <1>1, <1>9, FlushEffect
<1>10. ASSUME NEW old \in {0} \cup Page, NEW p \in Page, NEW full \in BOOLEAN, WriteRecord(old, p, full)
       PROVE  cache'[q].in /\ ~cache'[q].synced => cache'[q].dirty
  <2>1. tx.id \in Txn
    BY <1>10, WriterAtWork, WriteFrame
  <2>2. cache'[q] = cache[q] \/ cache'[q].synced \/ cache'[q].dirty
    <3>1. CASE q # p
      BY <1>10, <2>1, <3>1, WriteOther DEF OtherWritten
    <3>2. CASE q = p /\ p \in active /\ detached[p].in
      BY <1>10, <2>1, <3>2, WriteDetached DEF DetachedWritten
    <3>3. CASE q = p /\ ~(p \in active /\ detached[p].in)
      BY <1>10, <2>1, <3>3, WriteCached, Zenon
    <3> QED BY <3>1, <3>2, <3>3
  <2> QED BY <1>1, <2>2
<1> QED BY <1>3, <1>4, <1>5, <1>6, <1>7, <1>8, <1>9, <1>10, CacheChanges

------------------------------------------------------------------------------
(* The writer *)

\* The history: transactions begin and are acknowledged, and stay so.
LEMMA HistoryGrows ==
  [Next]_vars => /\ last' = last \/ Begin
                 /\ UNCHANGED <<wrote, acked>> \/ CommitSync
                 /\ exposed \subseteq exposed'
<1> SUFFICES ASSUME [Next]_vars
             PROVE  /\ last' = last \/ Begin
                    /\ UNCHANGED <<wrote, acked>> \/ CommitSync
                    /\ exposed \subseteq exposed'
  OBVIOUS
<1> USE DEF history
<1>1. CASE Writer
  <2>1. ASSUME NEW old \in {0} \cup Page, NEW p \in Page, NEW full \in BOOLEAN, WriteRecord(old, p, full)
        PROVE  UNCHANGED <<last, wrote, acked>> /\ exposed \subseteq exposed'
    BY <2>1, WriteFrame
  <2>2. CASE Rollback
    BY <2>2, RollbackFrame
  <2> QED BY <1>1, <2>1, <2>2, Zenon DEF Writer, Begin, CommitBegin, CommitUpdate, CommitRecord, CommitSync,
       CommitFails
<1>2. CASE Maintain
  BY <1>2 DEF Maintain, FlushAll, Flush, FlushAllSync, FlushAllSave, RunOnceTruncate
<1>3. CASE PowerLoss
  BY <1>3 DEF PowerLoss
<1>4. CASE ~(Writer \/ Maintain \/ PowerLoss)
  BY <1>4 DEF Next, vars, Recover, Open, RecoverRedo, RecoverFlush, RecoverSave, RecoverTruncate,
     ReadRecord, CloseBegin, CloseEnd, Kill
<1> QED BY <1>1, <1>2, <1>3, <1>4

\* A step beside the writer's, or one of Commit's, keeps the pointers valid if it
\* drops nothing from the cache and adds no records to a page.
LEMMA WriterKept ==
  ASSUME TypeOK, WriterOK, tx # NoTx,
         tx'.id = tx.id, tx'.dirty = tx.dirty, tx'.wrote = tx.wrote, tx'.stage # "none",
         \A p \in tx'.todo : p \in tx.todo \/ tx.dirty[p] # "none",
         tx'.stage = "committed" => tx'.todo = {},
         UNCHANGED <<last, acked, nextPage, detached>>, exposed \subseteq exposed',
         \A p \in Page :
           /\ cache[p].in => cache'[p].in /\ cache'[p].by = cache[p].by
           /\ osPage'[p].by \cup medPage'[p].by \cup cache'[p].by
                \subseteq osPage[p].by \cup medPage[p].by \cup cache[p].by
  PROVE  WriterOK'
<1>1. tx.id = last /\ tx.id # NoTxn /\ tx.stage # "none" /\ tx.id \notin acked
  BY Zenon DEF WriterOK
<1>2. ASSUME NEW p \in Page
      PROVE  PointersOK(p)'
  <2>1. PointersOK(p)
    BY Zenon DEF WriterOK
  <2>2. tx.id \in Writes(p)' => tx.id \in Writes(p)
    BY <1>1, ZenonT(60) DEF Writes
  <2>3. /\ tx.dirty[p] = "cached" => cache'[p].in
        /\ tx.dirty[p] = "detached" => detached'[p].in
        /\ p \in tx.wrote => p < nextPage'
        /\ p \in tx.wrote \cup tx'.todo => tx.dirty[p] # "none"
    BY <2>1 DEF PointersOK
  <2>4. tx.id \in osPage'[p].by \cup medPage'[p].by \cup cache'[p].by => p \in tx.wrote
    BY <2>1 DEF PointersOK
  <2>5. tx.id \in Writes(p)' =>
          tx.dirty[p] = "cached" /\ tx.id \in cache'[p].by /\ ~detached'[p].in
    BY <2>1, <2>2 DEF PointersOK
  <2> QED BY <2>3, <2>4, <2>5, Zenon DEF PointersOK
<1> QED BY <1>1, <1>2, Zenon DEF WriterOK

\* The writer's transaction is the last one, and its pointers are valid.
LEMMA WriterStep == IInv /\ [Next]_vars => WriterOK'
<1> SUFFICES ASSUME IInv, [Next]_vars PROVE WriterOK'
  OBVIOUS
<1>0. TypeOK /\ Known /\ Phases /\ StoreOK /\ WriterOK /\ cache \in [Page -> Entry]
  BY DEF IInv, TypeOK
<1>16. tx # NoTx => tx.stage # "none" /\ (tx.stage = "committed" => tx.todo = {})
  BY <1>0 DEF WriterOK
<1>1. CASE tx' = NoTx
  BY <1>1 DEF WriterOK
<1>2. CASE Begin
  <2>1. tx' = [id |-> last + 1, stage |-> "writing", dirty |-> NoPages, todo |-> {}, wrote |-> {}]
    BY <1>2, Zenon DEF Begin, NoTx
  <2>2. /\ last' = last + 1 /\ last \in Nat /\ UNCHANGED <<osPage, medPage, cache, acked>>
        /\ ~(last + 1 \in 1..last)
    BY <1>0, <1>2 DEF Begin, TypeOK, file
  <2>3. last + 1 \notin acked /\ last + 1 # NoTxn
    BY <1>0, <2>2 DEF Known, NoTxn
  <2>4. ASSUME NEW p \in Page
        PROVE  PointersOK(p)'
    <3>1. last + 1 \notin osPage[p].by /\ last + 1 \notin medPage[p].by /\ last + 1 \notin cache[p].by
      BY <1>0, <2>2 DEF Known
    <3>2. NoPages[p] = "none"
      BY DEF NoPages
    <3> QED BY <2>1, <2>2, <3>1, <3>2, Zenon DEF PointersOK, Writes
  <2> QED BY <2>1, <2>2, <2>3, <2>4 DEF WriterOK
<1>3. ASSUME NEW old \in {0} \cup Page, NEW p \in Page, NEW full \in BOOLEAN, WriteRecord(old, p, full)
      PROVE  WriterOK'
  <2>1. tx # NoTx /\ tx.id \in Txn /\ tx.id = last /\ tx.id \notin acked /\ tx.stage = "writing"
    BY <1>0, <1>3, WriterAtWork, WriteFrame
  <2>2. /\ tx'.id = tx.id /\ tx'.stage = "writing" /\ tx'.todo = tx.todo
        /\ tx'.wrote = tx.wrote \cup {p}
    BY <1>0, <1>3, <2>1, WriteTx
  <2>3. UNCHANGED <<osPage, medPage, last, acked>>
    BY <1>3, WriteFrame
  <2>4. /\ nextPage \in Nat /\ nextPage' \in Nat /\ Page \subseteq Nat /\ nextPage <= nextPage' /\ p < nextPage'
        /\ p \in active \/ (p = nextPage /\ ~detached[p].in)
    <3>1. nextPage \in Nat /\ Page \subseteq Nat
      BY <1>0, WalAssumption DEF TypeOK, Page
    <3>2. /\ p \in active \/ p = nextPage
          /\ nextPage' = IF p \in active THEN nextPage ELSE nextPage + 1
      BY <1>3 DEF WriteRecord
    <3>3. (p \in active \/ detached[p].in) => p < nextPage
      BY <1>0 DEF StoreOK
    <3> QED BY <3>1, <3>2, <3>3
  <2>5. exposed \subseteq exposed'
    BY HistoryGrows
  <2>6. ASSUME NEW q \in Page, q # p
        PROVE  PointersOK(q)'
    <3>1. PointersOK(q)
      BY <1>0, <2>1 DEF WriterOK
    <3>2. /\ cache'[q].in <=> cache[q].in \/ (q = old /\ Readable(q))
          /\ cache[q].in => cache'[q] = cache[q]
          /\ cache'[q] = cache[q] \/ (cache'[q].by = osPage[q].by /\ cache'[q].synced)
          /\ detached'[q] = detached[q]
          /\ tx'.dirty[q] = IF q = old /\ Readable(q) THEN "cached" ELSE tx.dirty[q]
      <4>1. OtherWritten(old, q)
        BY <1>0, <1>3, <2>1, <2>6, WriteOther, Zenon
      <4> QED BY <4>1, Zenon DEF OtherWritten
    <3>3. tx.id \in Writes(q)' => tx.id \in Writes(q)
      BY <2>1, <2>2, <2>5, <2>6 DEF Writes
    <3>4. q \in tx'.wrote => q \in tx.wrote
      BY <2>2, <2>6
    <3>5. q < nextPage => q < nextPage'
      BY <2>4
    <3>6. /\ tx'.dirty[q] = "cached" => cache'[q].in
          /\ tx'.dirty[q] = "detached" => detached'[q].in
          /\ q \in tx'.wrote => q < nextPage'
          /\ q \in tx'.wrote \cup tx'.todo => tx'.dirty[q] # "none"
      BY <2>2, <3>1, <3>2, <3>4, <3>5, ZenonT(60) DEF PointersOK
    <3>7. tx.id \in osPage[q].by \cup medPage[q].by \cup cache'[q].by => q \in tx'.wrote
      BY <2>2, <3>1, <3>2 DEF PointersOK
    <3>8. tx.id \in Writes(q)' =>
            tx'.dirty[q] = "cached" /\ tx.id \in cache'[q].by /\ ~detached'[q].in
      BY <3>1, <3>2, <3>3 DEF PointersOK
    <3> QED BY <2>2, <2>3, <3>6, <3>7, <3>8 DEF PointersOK
  <2>7. PointersOK(p)'
    <3>1. tx'.dirty[p] # "none"
      <4>1. CASE p \in active /\ detached[p].in
        <5>1. DetachedWritten(old, p)
          BY <1>0, <1>3, <2>1, <4>1, WriteDetached, Zenon
        <5> QED BY <5>1, Zenon DEF DetachedWritten
      <4>2. CASE ~(p \in active /\ detached[p].in)
        BY <1>0, <1>3, <2>1, <4>2, WriteCached, ZenonT(60)
      <4> QED BY <4>1, <4>2
    <3>2. CASE p \in active /\ detached[p].in
      <4>1. tx'.dirty[p] = "detached" /\ detached'[p].in /\ tx.id \in exposed'
        <5>1. tx'.dirty[p] = "detached" /\ detached'[p].in /\ exposed' = exposed \cup {tx.id}
          <6>1. DetachedWritten(old, p)
            BY <1>0, <1>3, <2>1, <3>2, WriteDetached, Zenon
          <6> QED BY <6>1, ZenonT(60) DEF DetachedWritten
        <5> QED BY <5>1
      <4>2. tx.id \notin Writes(p)'
        BY <2>2, <4>1 DEF Writes
      <4> QED BY <2>2, <2>3, <2>4, <4>1, <4>2 DEF PointersOK
    <3>3. CASE ~(p \in active /\ detached[p].in)
      <4>1. ~detached[p].in
        BY <2>4, <3>3
      <4>2. tx'.dirty[p] = "cached" /\ tx.id \in cache'[p].by /\ detached' = detached
        BY <1>0, <1>3, <2>1, <3>3, WriteCached, Zenon
      <4>3. cache'[p].in
        <5>1. CASE p \in active
          <6>1. cache[p].in
            BY <1>0, <4>1, <5>1 DEF StoreOK
          <6> QED BY <1>0, <1>3, <2>1, <3>3, <5>1, <6>1, WriteCached
        <5>2. CASE p \notin active
          <6>1. p \notin active => cache'[p].in /\ cache'[p].by = {tx.id}
            BY <1>0, <1>3, <2>1, WriteCached
          <6> QED BY <5>2, <6>1
        <5> QED BY <5>1, <5>2
      <4> QED BY <2>2, <2>3, <2>4, <4>1, <4>2, <4>3 DEF PointersOK
    <3> QED BY <3>2, <3>3
  <2>8. tx'.stage # "committed" /\ tx'.stage # "none" /\ tx'.id # NoTxn
    BY <1>0, <2>1, <2>2 DEF WriterOK
  <2> QED BY <2>1, <2>2, <2>3, <2>6, <2>7, <2>8 DEF WriterOK
<1>4. CASE CommitBegin
  <2>1. tx # NoTx
    BY <1>0, <1>4, WriterAtWork DEF CommitBegin
  <2>2. /\ tx'.id = tx.id /\ tx'.dirty = tx.dirty /\ tx'.wrote = tx.wrote /\ tx'.stage = "logging"
        /\ \A p \in tx'.todo : tx.dirty[p] # "none"
    BY <1>0, <1>4 DEF CommitBegin, TypeOK
  <2>3. UNCHANGED <<osPage, medPage, cache, last, acked, nextPage, detached, exposed>>
    BY <1>4 DEF CommitBegin, file, store, history
  <2> QED BY <1>0, <2>1, <2>2, <2>3, WriterKept, Zenon
<1>5. ASSUME NEW p \in Page, CommitUpdate(p)
      PROVE  WriterOK'
  <2>1. tx # NoTx
    BY <1>0, <1>5, WriterAtWork DEF CommitUpdate
  <2>2. /\ tx'.id = tx.id /\ tx'.dirty = tx.dirty /\ tx'.wrote = tx.wrote /\ tx'.stage = "logging"
        /\ tx'.todo \subseteq tx.todo
    BY <1>0, <1>5 DEF CommitUpdate, TypeOK
  <2>3. UNCHANGED <<osPage, medPage, last, acked, nextPage, detached, exposed>>
    BY <1>5 DEF CommitUpdate, file, store, history
  <2>4. \A q \in Page : cache'[q].in = cache[q].in /\ cache'[q].by = cache[q].by
    BY <1>0, <1>5, CommitUpdateEffect
  <2> QED BY <1>0, <2>1, <2>2, <2>3, <2>4, WriterKept
<1>6. CASE CommitRecord
  <2>1. tx # NoTx
    BY <1>0, <1>6, WriterAtWork DEF CommitRecord
  <2>2. /\ tx'.id = tx.id /\ tx'.dirty = tx.dirty /\ tx'.wrote = tx.wrote /\ tx'.stage = "committed"
        /\ tx'.todo = {}
    BY <1>0, <1>6 DEF CommitRecord, TypeOK
  <2>3. UNCHANGED <<osPage, medPage, cache, last, acked, nextPage, detached, exposed>>
    BY <1>6 DEF CommitRecord, file, store, history
  <2> QED BY <1>0, <2>1, <2>2, <2>3, WriterKept
<1>7. ASSUME NEW p \in Page, ReadRecord(p), tx # NoTx
      PROVE  WriterOK'
  <2>1. UNCHANGED <<tx, osPage, medPage, last, acked, nextPage, detached, exposed>> /\ cache' = Got(p)
    BY <1>7 DEF ReadRecord, file, store, history
  <2>2. \A q \in Page : /\ cache[q].in => cache'[q].in /\ cache'[q].by = cache[q].by
                        /\ cache'[q].by = cache[q].by \/ cache'[q].by = osPage[q].by
    BY <1>0, <2>1, GotEffect DEF Content
  <2> QED BY <1>0, <1>16, <1>7, <2>1, <2>2, WriterKept, Zenon
<1>8. ASSUME NEW p \in Page, Flush(p), tx # NoTx
      PROVE  WriterOK'
  <2>1. UNCHANGED <<tx, medPage, last, acked, nextPage, detached>> /\ exposed \subseteq exposed'
    BY <1>8, HistoryGrows DEF Flush, store
  <2>2. \A q \in Page : cache'[q].in = cache[q].in /\ cache'[q].by = cache[q].by
    BY <1>0, <1>8, FlushEffect
  <2>3. \A q \in Page : osPage'[q].by \subseteq osPage[q].by \cup cache[q].by
    <3>1. /\ \A q \in Page \ {p} : osPage'[q] = osPage[q]
          /\ osPage' = osPage \/ osPage'[p] = Data(cache[p].by) \/ osPage'[p] = Unreadable
      BY <1>0, <1>8, FlushEffect
    <3>2. Data(cache[p].by).by = cache[p].by /\ Unreadable.by = {}
      BY DEF Data, Unreadable
    <3> QED BY <3>1, <3>2
  <2> QED BY <1>0, <1>16, <1>8, <2>1, <2>2, <2>3, WriterKept
<1>9. ASSUME FlushAllSync, tx # NoTx
      PROVE  WriterOK'
  <2>1. UNCHANGED <<tx, osPage, cache, last, acked, nextPage, detached, exposed>> /\ medPage' = osPage
    BY <1>9 DEF FlushAllSync, store, history
  <2> QED BY <1>0, <1>16, <1>9, <2>1, WriterKept
<1>10. CASE UNCHANGED <<osPage, medPage, cache, tx, last, acked, nextPage, detached>>
  <2>1. CASE tx # NoTx
    BY <1>0, <1>16, <1>10, <2>1, HistoryGrows, WriterKept, ZenonT(60)
  <2> QED BY <1>1, <1>10, <2>1
<1>11. CASE CommitSync \/ CommitFails \/ Rollback \/ CloseEnd \/ Kill
  BY <1>1, <1>11 DEF CommitSync, CommitFails, Rollback, CloseEnd, Kill, Volatile
<1>12. CASE Open \/ Recover \/ CloseBegin \/ PowerLoss
  BY <1>0, <1>1, <1>12 DEF Phases, Recover, Open, RecoverRedo, RecoverFlush, RecoverSave,
     RecoverTruncate, CloseBegin, PowerLoss
<1>13. CASE (\E who \in Maintenance : FlushAll(who)) \/ FlushAllSave \/ RunOnceTruncate \/ UNCHANGED vars
  BY <1>10, <1>13 DEF FlushAll, FlushAllSave, RunOnceTruncate, vars, file, store, history
<1>14. ASSUME NEW p \in Page, ReadRecord(p) \/ Flush(p), tx = NoTx
       PROVE  WriterOK'
  BY <1>1, <1>14 DEF ReadRecord, Flush
<1>15. ASSUME FlushAllSync, tx = NoTx
       PROVE  WriterOK'
  BY <1>1, <1>15 DEF FlushAllSync
<1> QED BY <1>2, <1>3, <1>4, <1>5, <1>6, <1>7, <1>8, <1>9, <1>11, <1>12, <1>13, <1>14, <1>15
     DEF Next, Writer, Maintain

------------------------------------------------------------------------------
(* The writer's own log and the checkpoint *)

\* No transaction but the one Commit acknowledges becomes a holder.
LEMMA HoldersStep ==
  ASSUME TypeOK, WriterOK, [Next]_vars
  PROVE  /\ acked' = acked => \A p \in Page : Holders(p)' \subseteq Holders(p)
         /\ CommitSync => \A p \in Page : Holders(p)' \subseteq Holders(p) \cup Writes(p)
<1>1. exposed \subseteq exposed' /\ (UNCHANGED <<wrote, acked>> \/ CommitSync)
  BY HistoryGrows
<1>2. CASE CommitSync
  <2>1. tx.id \in Txn /\ tx.id \notin acked /\ tx.stage # "none"
    BY <1>2, WriterAtWork DEF CommitSync
  <2>2. acked' = acked \cup {tx.id} /\ exposed' = exposed /\ wrote' = [wrote EXCEPT ![tx.id] = tx.wrote]
    BY <1>2 DEF CommitSync
  <2>3. \A t \in acked : wrote'[t] = wrote[t]
    BY <2>1, <2>2 DEF TypeOK
  <2>4. wrote'[tx.id] = tx.wrote
    BY <2>1, <2>2 DEF TypeOK
  <2> QED BY <1>2, <2>1, <2>2, <2>3, <2>4 DEF Holders, Writes
<1>3. CASE ~CommitSync
  BY <1>1, <1>3 DEF Holders
<1> QED BY <1>2, <1>3

\* After its Sync a checkpoint leaves the file alone, and after the save the pages
\* on the medium are below the saved NextPageID.
LEMMA JobStep == IInv /\ [Next]_vars => JobOK'
<1> SUFFICES ASSUME IInv, [Next]_vars PROVE JobOK'
  OBVIOUS
<1>0. TypeOK /\ Phases /\ Present /\ WriterOK /\ JobOK
  BY DEF IInv
<1>1. acked' = acked => \A p \in Page : Holders(p)' \subseteq Holders(p)
  BY <1>0, HoldersStep
<1>2. exposed \subseteq exposed'
  BY HistoryGrows
<1>3. CASE job'.stage \notin {"save", "truncate"}
  BY <1>3 DEF JobOK
<1>4. ASSUME UNCHANGED <<job, osPage, medPage, savedNext>>,
             \A p \in Page : \A t \in Holders(p)' \cup Writes(p)' :
               t \in medPage[p].by => t \in Holders(p) \cup Writes(p)
      PROVE  JobOK'
  BY <1>0, <1>4 DEF JobOK
<1>5. CASE FlushAllSync
  <2>1. job'.stage = "save" /\ osPage' = osPage /\ medPage' = osPage
    BY <1>0, <1>5 DEF FlushAllSync, TypeOK
  <2> QED BY <2>1 DEF JobOK
<1>6. CASE FlushAllSave
  <2>1. UNCHANGED <<osPage, medPage, acked, tx, wrote>> /\ savedNext' = nextPage /\ job.stage = "save"
    BY <1>6 DEF FlushAllSave, file, history
  <2>2. osPage = medPage /\ phase \in {"running", "closing"}
    BY <1>0, <2>1 DEF JobOK, Phases, Idle
  <2>3. ASSUME NEW p \in Page, NEW t \in Holders(p)' \cup Writes(p)'
        PROVE  p < savedNext'
    <3>1. CASE t \in Holders(p)'
      BY <1>0, <1>1, <2>1, <2>2, <3>1, ZenonT(60) DEF Present
    <3>2. CASE t \in Writes(p)'
      <4>1. p \in tx.wrote /\ tx.stage # "none"
        BY <2>1, <3>2 DEF Writes
      <4>2. tx # NoTx
        BY <1>0, <4>1, WriterAtWork
      <4> QED BY <1>0, <2>1, <4>1, <4>2 DEF WriterOK, PointersOK
    <3> QED BY <2>3, <3>1, <3>2
  <2> QED BY <2>1, <2>2, <2>3 DEF JobOK
<1>7. CASE CommitSync
  <2>1. UNCHANGED <<job, osPage, medPage, savedNext>> /\ tx' = NoTx
    BY <1>7 DEF CommitSync, file
  <2>2. \A p \in Page : Holders(p)' \subseteq Holders(p) \cup Writes(p) /\ Writes(p)' = {}
    BY <1>0, <1>7, <2>1, HoldersStep, Zenon DEF Writes, NoTx
  <2> QED BY <1>4, <2>1, <2>2
<1>8. ASSUME NEW old \in {0} \cup Page, NEW p \in Page, NEW full \in BOOLEAN, WriteRecord(old, p, full)
      PROVE  JobOK'
  <2>1. tx # NoTx /\ tx.id \in Txn /\ tx.stage = "writing"
    BY <1>0, <1>8, WriterAtWork, WriteFrame
  <2>2. tx'.id = tx.id
    BY <1>0, <1>8, <2>1, WriteTx
  <2>3. UNCHANGED <<job, osPage, medPage, savedNext, acked>>
    BY <1>8, WriteFrame
  <2>4. ASSUME NEW q \in Page, NEW t \in Writes(q)', t \in medPage[q].by
        PROVE  t \in Writes(q)
    <3>1. t = tx.id /\ t \notin exposed
      BY <1>2, <2>2 DEF Writes
    <3>2. q \in tx.wrote
      BY <1>0, <2>1, <2>4, <3>1 DEF WriterOK, PointersOK
    <3> QED BY <2>1, <3>1, <3>2 DEF Writes
  <2> QED BY <1>1, <1>4, <2>3, <2>4, Zenon
<1>9. CASE Begin \/ CommitFails \/ Rollback
  <2>1. UNCHANGED <<job, osPage, medPage, savedNext, acked>> /\ tx'.wrote = {}
    <3>1. CASE Begin
      BY <3>1 DEF Begin, file, NoTx
    <3>2. CASE CommitFails \/ Rollback
      BY <3>2, RollbackFrame DEF CommitFails, file, history, NoTx
    <3> QED BY <1>9, <3>1, <3>2, Zenon
  <2>2. \A p \in Page : Writes(p)' = {}
    BY <2>1 DEF Writes
  <2> QED BY <1>1, <1>4, <2>1, <2>2
<1>10. CASE CommitBegin \/ CommitRecord \/ \E p \in Page : CommitUpdate(p)
  <2>1. /\ UNCHANGED <<job, osPage, medPage, savedNext, acked>>
        /\ tx'.id = tx.id /\ tx'.wrote = tx.wrote /\ tx.stage # "none"
    BY <1>0, <1>10, ZenonT(60) DEF CommitBegin, CommitRecord, CommitUpdate, file, history, TypeOK
  <2>2. \A p \in Page : Writes(p)' \subseteq Writes(p)
    BY <1>2, <2>1 DEF Writes
  <2> QED BY <1>1, <1>4, <2>1, <2>2
<1>11. CASE UNCHANGED <<job, osPage, medPage, savedNext, acked, tx>>
  <2>2. \A p \in Page : Writes(p)' \subseteq Writes(p)
    BY <1>2, <1>11 DEF Writes
  <2> QED BY <1>1, <1>4, <1>11, <2>2
<1>12. CASE (\E p \in Page : ReadRecord(p)) \/ UNCHANGED vars
  BY <1>11, <1>12 DEF ReadRecord, vars, file, history
<1>13. CASE (\E who \in Maintenance : FlushAll(who)) \/ (\E p \in Page : Flush(p)) \/ RunOnceTruncate \/ CloseBegin
  <2>1. job'.stage \notin {"save", "truncate"}
    BY <1>0, <1>13 DEF FlushAll, Flush, RunOnceTruncate, CloseBegin, TypeOK, Idle
  <2> QED BY <1>3, <2>1
<1>14. CASE Open \/ Recover \/ PowerLoss \/ CloseEnd \/ Kill
  <2>1. job' = Idle
    BY <1>0, <1>14 DEF Phases, Recover, Open, RecoverRedo, RecoverFlush, RecoverSave,
       RecoverTruncate, PowerLoss, CloseEnd, Kill, Volatile
  <2> QED BY <1>3, <2>1 DEF Idle
<1> QED BY <1>5, <1>6, <1>7, <1>8, <1>9, <1>10, <1>12, <1>13, <1>14 DEF Next, Writer, Maintain

\* What is appended comes after the rest.
LEMMA Appended ==
  ASSUME NEW w \in Seq(Record), NEW r \in Record
  PROVE  /\ Append(w, r) \in Seq(Record)
         /\ Len(w) \in Nat
         /\ DOMAIN w = 1..Len(w)
         /\ DOMAIN Append(w, r) = 1..(Len(w) + 1)
         /\ \A i \in 1..Len(w) : Append(w, r)[i] = w[i]
         /\ Append(w, r)[Len(w) + 1] = r
  OBVIOUS

\* A step that leaves the log keeps the transaction's records as they should be.
LEMMA OwnLogKept ==
  ASSUME OwnLogOK, wal' = wal, tx' = tx, exposed \subseteq exposed',
         \A p \in Page : Holders(p)' \subseteq Holders(p), acked' = acked, wrote' = wrote,
         \A p \in Page : /\ tx.stage \in {"logging", "committed"}
                         /\ tx.id \in Writes(p) /\ p \notin tx.todo /\ Settled(p)
                         => Settled(p)'
  PROVE  OwnLogOK'
<1>1. \A p : Holders(p)' \subseteq Holders(p) /\ Writes(p)' \subseteq Writes(p)
  BY DEF Holders, Writes
<1>2. \A i \in DOMAIN wal : wal[i].type = "update" /\ wal[i].txn = tx.id =>
        Holders(wal[i].page)' \cup Writes(wal[i].page)' \subseteq wal[i].by
  BY <1>1, Zenon DEF OwnLogOK
<1>3. ASSUME tx.stage \in {"logging", "committed"}, NEW p \in Page, tx.id \in Writes(p)', p \notin tx.todo
      PROVE  LoggedBy(tx.id, p)' \/ Settled(p)'
  <2>1. LoggedBy(tx.id, p) \/ Settled(p)
    BY <1>1, <1>3, ZenonT(60) DEF OwnLogOK
  <2>2. LoggedBy(tx.id, p) => LoggedBy(tx.id, p)'
    BY DEF LoggedBy
  <2> QED BY <1>1, <1>3, <2>1, <2>2, Zenon
<1> QED BY <1>2, <1>3, ZenonT(60) DEF OwnLogOK

\* Commit's records stay as they should be, also when a checkpoint runs beside it.
LEMMA OwnLogStep == IInv /\ [Next]_vars => (tx' # NoTx => OwnLogOK')
<1> SUFFICES ASSUME IInv, [Next]_vars, tx' # NoTx PROVE OwnLogOK'
  OBVIOUS
<1>0. /\ TypeOK /\ Known /\ Phases /\ Present /\ WriterOK /\ JobOK
      /\ wal \in Seq(Record) /\ cache \in [Page -> Entry]
      /\ tx # NoTx => OwnLogOK
      /\ last \in Nat
  BY DEF IInv, TypeOK, LogOK
<1>1. acked' = acked => \A p \in Page : Holders(p)' \subseteq Holders(p)
  BY <1>0, HoldersStep
<1>2. exposed \subseteq exposed'
  BY HistoryGrows
<1>3. CASE Begin
  <2>1. tx'.id = last + 1 /\ tx'.stage = "writing" /\ wal' = wal
    BY <1>3 DEF Begin, NoTx, log
  <2>2. \A i \in DOMAIN wal : wal[i].txn # tx'.id
    <3>1. \A i \in DOMAIN wal : wal[i] \in Record /\ wal[i].txn <= last
      BY <1>0 DEF Known
    <3> QED BY <1>0, <2>1, <3>1 DEF Record, Txn
  <2> QED BY <2>1, <2>2, Zenon DEF OwnLogOK
<1>4. ASSUME NEW old \in {0} \cup Page, NEW p \in Page, NEW full \in BOOLEAN, WriteRecord(old, p, full)
      PROVE  OwnLogOK'
  <2>1. tx # NoTx /\ tx.id \in Txn /\ tx.stage = "writing"
    BY <1>0, <1>4, WriterAtWork, WriteFrame
  <2>2. tx'.id = tx.id /\ tx'.stage = "writing"
    BY <1>0, <1>4, <2>1, WriteTx, Zenon
  <2>3. wal' = wal
    BY <1>4, WriteFrame
  <2>4. \A i \in DOMAIN wal : wal[i].txn # tx.id
    BY <1>0, <2>1 DEF OwnLogOK
  <2> QED BY <2>2, <2>3, <2>4 DEF OwnLogOK
<1>5. CASE CommitBegin
  <2>1. tx # NoTx /\ tx.stage = "writing" /\ \A p \in Page : PointersOK(p)
    BY <1>0, <1>5, WriterAtWork DEF CommitBegin, WriterOK
  <2>2. /\ tx'.id = tx.id /\ tx'.stage = "logging" /\ tx'.wrote = tx.wrote
        /\ tx'.todo = {p \in Page : tx.dirty[p] # "none"}
    BY <1>0, <1>5 DEF CommitBegin, TypeOK
  <2>3. wal' = wal
    BY <1>5 DEF CommitBegin, log
  <2>4. \A i \in DOMAIN wal : wal[i].txn # tx.id
    BY <1>0, <2>1, ZenonT(60) DEF OwnLogOK
  <2>5. \A p \in Page : tx.id \in Writes(p)' => p \in tx'.todo
    BY <2>1, <2>2 DEF Writes, PointersOK
  <2> QED BY <2>2, <2>3, <2>4, <2>5, Zenon DEF OwnLogOK
<1>6. ASSUME NEW p \in Page, CommitUpdate(p)
      PROVE  OwnLogOK'
  <2> DEFINE r == [type |-> "update", txn |-> tx.id, page |-> p, by |-> Behind(p)]
             n == Len(wal) + 1
  <2>1. /\ tx # NoTx /\ tx.stage = "logging" /\ tx.id \in Txn /\ p \in tx.todo
        /\ OwnLogOK /\ \A q \in Page : PointersOK(q)
    BY <1>0, <1>6, WriterAtWork DEF CommitUpdate, WriterOK
  <2>2. /\ tx'.id = tx.id /\ tx'.stage = "logging" /\ tx'.wrote = tx.wrote /\ tx'.todo = tx.todo \ {p}
    BY <1>0, <1>6, <2>1 DEF CommitUpdate, TypeOK
  <2>3. wal' = Append(wal, r) /\ UNCHANGED <<osPage, medPage, savedNext, acked, wrote, exposed>>
    BY <1>6 DEF CommitUpdate, file, history
  <2>4. r \in Record /\ r.type = "update" /\ r.txn = tx.id /\ r.page = p /\ r.by = Behind(p)
    <3>1. Behind(p) \in SUBSET Txn
      BY <1>0 DEF Behind, TypeOK, Entry
    <3> QED BY <2>1, <3>1 DEF Record
  <2> HIDE DEF r
  <2>5. /\ Len(wal) \in Nat /\ DOMAIN wal = 1..Len(wal) /\ DOMAIN wal' = 1..n
        /\ \A i \in 1..Len(wal) : wal'[i] = wal[i]
        /\ wal'[n] = r
    BY <1>0, <2>3, <2>4, Appended, Zenon
  <2>6. \A q : Holders(q)' = Holders(q) /\ Writes(q)' = Writes(q)
    BY <2>1, <2>2, <2>3, Zenon DEF Holders, Writes
  <2>7. Holders(p) \cup Writes(p) \subseteq Behind(p)
    <3>1. phase = "running" /\ tx.dirty[p] # "none" /\ tx.dirty[p] \in Pointer
      BY <1>0, <2>1, Zenon DEF Phases, PointersOK, TypeOK
    <3>2. Holders(p) \subseteq Behind(p)
      BY <1>0, <2>1, <3>1, Zenon DEF Present, PointersOK, Behind, Content, Pointer
    <3>3. Writes(p) \subseteq Behind(p)
      <4>1. \A t \in Writes(p) : t = tx.id
        BY DEF Writes
      <4> QED BY <2>1, <4>1 DEF PointersOK, Behind
    <3> QED BY <3>2, <3>3
  <2>8. \A i \in DOMAIN wal' : wal'[i].txn = tx.id => wal'[i].type = "update"
    <3>1. \A i \in DOMAIN wal : wal[i].txn = tx.id => wal[i].type = "update"
      BY <2>1, Zenon DEF OwnLogOK
    <3>2. \A i \in DOMAIN wal' : i = n \/ (i \in DOMAIN wal /\ wal'[i] = wal[i])
      BY <2>5
    <3> QED BY <2>4, <2>5, <3>1, <3>2, Zenon
  <2>9. ASSUME NEW i \in DOMAIN wal', wal'[i].type = "update", wal'[i].txn = tx.id
        PROVE  Holders(wal'[i].page) \cup Writes(wal'[i].page) \subseteq wal'[i].by
    <3>1. CASE i = n
      BY <2>4, <2>5, <2>7, <3>1
    <3>2. CASE i # n
      <4>1. i \in DOMAIN wal /\ wal'[i] = wal[i]
        BY <2>5, <3>2
      <4>2. \A j \in DOMAIN wal : wal[j].type = "update" /\ wal[j].txn = tx.id =>
              Holders(wal[j].page) \cup Writes(wal[j].page) \subseteq wal[j].by
        BY <2>1, Zenon DEF OwnLogOK
      <4> QED BY <2>9, <4>1, <4>2, Zenon
    <3> QED BY <3>1, <3>2, Zenon
  <2>10. ASSUME NEW q \in Page, tx.id \in Writes(q), q \notin tx'.todo
         PROVE  LoggedBy(tx.id, q)' \/ Settled(q)'
    <3>1. CASE q = p
      <4>1. n \in DOMAIN wal' /\ wal'[n].type = "update" /\ wal'[n].txn = tx.id /\ wal'[n].page = q
        BY <2>4, <2>5, <3>1
      <4> QED BY <2>2, <4>1 DEF LoggedBy
    <3>2. CASE q # p
      <4>1. LoggedBy(tx.id, q) \/ Settled(q)
        BY <2>1, <2>2, <2>10, <3>2, Zenon DEF OwnLogOK
      <4>2. LoggedBy(tx.id, q) => LoggedBy(tx.id, q)'
        BY <2>2, <2>5 DEF LoggedBy
      <4>3. ASSUME Settled(q)
            PROVE  Settled(q)'
        <5>1. \A i \in DOMAIN wal' : wal'[i].txn = tx.id
          BY <2>4, <2>5, <4>3 DEF Settled
        <5> QED BY <2>2, <2>3, <4>3, <5>1 DEF Settled
      <4> QED BY <4>1, <4>2, <4>3
    <3> QED BY <3>1, <3>2
  <2> QED BY <2>2, <2>6, <2>8, <2>9, <2>10, Zenon DEF OwnLogOK
<1>7. CASE CommitRecord
  <2> DEFINE r == [type |-> "commit", txn |-> tx.id, page |-> 0, by |-> {}]
             n == Len(wal) + 1
  <2>1. tx # NoTx /\ tx.stage = "logging" /\ tx.id \in Txn /\ tx.todo = {} /\ OwnLogOK
    BY <1>0, <1>7, WriterAtWork DEF CommitRecord
  <2>2. tx'.id = tx.id /\ tx'.stage = "committed" /\ tx'.wrote = tx.wrote /\ tx'.todo = {}
    BY <1>0, <1>7, <2>1 DEF CommitRecord, TypeOK
  <2>3. wal' = Append(wal, r) /\ UNCHANGED <<osPage, medPage, savedNext, acked, wrote, exposed>>
    BY <1>7 DEF CommitRecord, file, history
  <2>4. r \in Record /\ r.type = "commit" /\ r.txn = tx.id
    BY <2>1 DEF Record
  <2> HIDE DEF r
  <2>5. /\ Len(wal) \in Nat /\ DOMAIN wal = 1..Len(wal) /\ DOMAIN wal' = 1..n
        /\ \A i \in 1..Len(wal) : wal'[i] = wal[i]
        /\ wal'[n] = r
    BY <1>0, <2>3, <2>4, Appended
  <2>6. \A q : Holders(q)' = Holders(q) /\ Writes(q)' = Writes(q)
    BY <2>1, <2>2, <2>3 DEF Holders, Writes
  <2>7. tx.id \in Committed(wal')
    BY <2>4, <2>5 DEF Committed
  <2>8. ASSUME NEW i \in DOMAIN wal', wal'[i].type = "update", wal'[i].txn = tx.id
        PROVE  Holders(wal'[i].page) \cup Writes(wal'[i].page) \subseteq wal'[i].by
    <3>1. i \in DOMAIN wal /\ wal'[i] = wal[i]
      BY <2>4, <2>5, <2>8
    <3> QED BY <2>1, <2>8, <3>1, Zenon DEF OwnLogOK
  <2>9. ASSUME NEW q \in Page, tx.id \in Writes(q)
        PROVE  LoggedBy(tx.id, q)' \/ Settled(q)'
    <3>1. LoggedBy(tx.id, q) \/ Settled(q)
      BY <2>1, <2>9, Zenon DEF OwnLogOK
    <3>2. ASSUME LoggedBy(tx.id, q)
          PROVE  LoggedBy(tx.id, q)'
      <4>1. PICK i \in DOMAIN wal : wal[i].type = "update" /\ wal[i].txn = tx.id /\ wal[i].page = q
        BY <3>2, Zenon DEF LoggedBy
      <4>2. i \in DOMAIN wal' /\ wal'[i] = wal[i]
        BY <2>5
      <4> QED BY <2>2, <4>1, <4>2, Zenon DEF LoggedBy
    <3>3. ASSUME Settled(q)
          PROVE  Settled(q)'
      <4>1. \A i \in DOMAIN wal' : wal'[i].txn = tx.id
        BY <2>4, <2>5, <3>3 DEF Settled
      <4> QED BY <2>2, <2>3, <3>3, <4>1 DEF Settled
    <3> QED BY <3>1, <3>2, <3>3
  <2> QED BY <2>2, <2>6, <2>7, <2>8, <2>9, Zenon DEF OwnLogOK
<1>8. ASSUME NEW p \in Page, Flush(p)
      PROVE  OwnLogOK'
  <2>1. UNCHANGED <<tx, wal, medPage, savedNext, acked, wrote>>
    BY <1>8 DEF Flush
  <2>2. ASSUME NEW q \in Page, tx.stage \in {"logging", "committed"},
               tx.id \in Writes(q), q \notin tx.todo, Settled(q)
        PROVE  Settled(q)'
    <3>1. PointersOK(q)
      BY <1>0, <2>1, Zenon DEF WriterOK
    <3>2. tx.id \in osPage'[q].by
      <4>1. CASE q # p \/ osPage' = osPage
        <5>1. osPage'[q] = osPage[q]
          BY <1>0, <1>8, <4>1, FlushEffect, Zenon
        <5> QED BY <2>2, <5>1, Zenon DEF Settled
      <4>2. CASE q = p /\ osPage'[p] = Data(cache[p].by)
        <5>1. tx.id \in cache[q].by
          BY <2>2, <3>1, Zenon DEF PointersOK
        <5>2. Data(cache[p].by).by = cache[p].by
          BY DEF Data
        <5> QED BY <4>2, <5>1, <5>2, Zenon
      <4>3. CASE q = p /\ Changing(p)
        BY <2>2, <4>3, ZenonT(60) DEF Changing
      <4> QED BY <1>0, <1>8, <4>1, <4>2, <4>3, FlushEffect, Zenon
    <3> QED BY <2>1, <2>2, <3>2, Zenon DEF Settled
  <2> QED BY <1>0, <1>1, <1>2, <2>1, <2>2, OwnLogKept, Zenon
<1>9. CASE FlushAllSync
  <2>1. UNCHANGED <<tx, wal, osPage, savedNext, acked, wrote>> /\ medPage' = osPage
    BY <1>9 DEF FlushAllSync, log, history
  <2>2. \A p \in Page : Settled(p) => Settled(p)'
    BY <2>1 DEF Settled
  <2> QED BY <1>0, <1>1, <1>2, <2>1, <2>2, OwnLogKept
<1>10. CASE FlushAllSave
  <2>1. UNCHANGED <<tx, wal, osPage, medPage, acked, wrote>> /\ savedNext' = nextPage
    BY <1>10 DEF FlushAllSave, log, history, file
  <2>2. ASSUME NEW p \in Page, tx.id \in Writes(p), Settled(p)
        PROVE  Settled(p)'
    <3>1. p < nextPage
      BY <1>0, <2>1, <2>2, Zenon DEF WriterOK, PointersOK, Writes
    <3> QED BY <2>1, <2>2, <3>1 DEF Settled
  <2> QED BY <1>0, <1>1, <1>2, <2>1, <2>2, OwnLogKept
<1>11. CASE RunOnceTruncate
  <2>1. UNCHANGED <<tx, osPage, medPage, savedNext, acked, wrote>> /\ wal' = <<>> /\ job.stage = "truncate"
    BY <1>11 DEF RunOnceTruncate, file
  <2>2. DOMAIN wal' = {}
    BY <2>1
  <2>3. ASSUME tx.stage \in {"logging", "committed"}, NEW p \in Page, tx.id \in Writes(p)'
        PROVE  Settled(p)'
    <3>1. p \in tx.wrote /\ tx.id \notin exposed' /\ tx.id \in Writes(p)
      BY <1>2, <2>1, <2>3 DEF Writes
    <3>2. tx.id \notin Missing(acked \cup Committing, medPage) /\ tx.id \in Committing
      BY <1>11, <2>3, <3>1, Zenon DEF RunOnceTruncate, Committing
    <3>3. tx.id \in medPage[p].by
      BY <3>1, <3>2 DEF Missing
    <3>4. osPage = medPage /\ p < savedNext
      BY <1>0, <2>1, <3>1, <3>3 DEF JobOK
    <3> QED BY <2>1, <2>2, <3>3, <3>4 DEF Settled
  <2> QED BY <2>1, <2>2, <2>3, Zenon DEF OwnLogOK
<1>12. CASE UNCHANGED <<tx, wal, osPage, medPage, savedNext, acked, wrote>>
  <2>1. \A p \in Page : Settled(p) => Settled(p)'
    BY <1>12 DEF Settled
  <2> QED BY <1>0, <1>1, <1>2, <1>12, <2>1, OwnLogKept, ZenonT(60)
<1>13. CASE CommitSync \/ CommitFails \/ Rollback \/ CloseEnd \/ Kill
  BY <1>13 DEF CommitSync, CommitFails, Rollback, CloseEnd, Kill, Volatile
<1>14. CASE Open \/ Recover \/ CloseBegin \/ PowerLoss
  BY <1>0, <1>14 DEF Phases, Recover, Open, RecoverRedo, RecoverFlush, RecoverSave,
     RecoverTruncate, CloseBegin, PowerLoss
<1>15. CASE (\E who \in Maintenance : FlushAll(who)) \/ (\E p \in Page : ReadRecord(p)) \/ UNCHANGED vars
  BY <1>12, <1>15 DEF FlushAll, ReadRecord, vars, file, log, history
<1> QED BY <1>3, <1>4, <1>5, <1>6, <1>7, <1>8, <1>9, <1>10, <1>11, <1>13, <1>14, <1>15
     DEF Next, Writer, Maintain

==============================================================================
