--------------------------- MODULE MetaSlotsProofs ---------------------------
(***************************************************************************)
(* Proofs about MetaSlots, for any number of callers and any bounds.       *)
(***************************************************************************)
EXTENDS MetaSlots, TLAPS

\* The provers, with their limits in seconds, of the leaves that name none.
USE SMTT(30), ZenonT(20), SMTT(40)

\* The slot OpenPager selects decodes, and the other slot does not beat it.
LEMMA SelectedWins ==
  ASSUME NEW f \in [Slot -> Image], ~Corrupt(f)
  PROVE  /\ Selected(f) \in Slot
         /\ 1 - Selected(f) \in Slot
         /\ Valid(f[Selected(f)])
         /\ Valid(f[1 - Selected(f)])
              => ~Beats(f[1 - Selected(f)], 1 - Selected(f), f[Selected(f)])
  <1>1. f[0] \in Image /\ f[1] \in Image
    BY DEF Slot
  <1>2. f[0].gen \in Nat /\ f[1].gen \in Nat
    BY <1>1 DEF Image
  <1>3. CASE Selected(f) = 0
    BY <1>2, <1>3 DEF Slot, Corrupt, Selected, Beats
  <1>4. CASE Selected(f) = 1
    BY <1>2, <1>4 DEF Slot, Corrupt, Selected, Beats
  <1> QED
    BY <1>3, <1>4 DEF Selected

\* What Encode writes decodes again.
LEMMA EncodeValid ==
  ASSUME NEW m \in [gen: Nat, body: Nat]
  PROVE  /\ Encode(m) \in Image
         /\ Valid(Encode(m))
         /\ Encode(m).gen = m.gen
         /\ Encode(m).body = m.body
  BY DEF Encode, Image, Valid

\* The slot OpenPager selects holds the last reported save or a later one.
LEMMA SelectedIsRecent ==
  ASSUME IInv, ~Corrupt(file)
  PROVE  /\ acked <= file[Selected(file)].body
         /\ file[Selected(file)].body <= body
  <1> DEFINE s == Selected(file)
  <1>1. /\ s \in Slot
        /\ Valid(file[s])
        /\ Valid(file[1 - s]) => ~Beats(file[1 - s], 1 - s, file[s])
    BY SelectedWins DEF IInv, TypeOK
  <1>2. /\ file[0].gen \in Nat /\ file[1].gen \in Nat
        /\ file[0].body \in Nat /\ file[1].body \in Nat
    BY DEF IInv, TypeOK, Slot, Image
  <1> HIDE DEF s
  <1>3. CASE created /\ s # anchor
    <2>1. s = 1 - anchor /\ anchor = 1 - s
      BY <1>1, <1>3 DEF IInv, TypeOK, Slot
    <2>2. ASSUME ~Beats(file[s], s, file[anchor]) PROVE FALSE
      BY <1>1, <1>2, <1>3, <2>1, <2>2 DEF IInv, AnchorHolds, Beats, TypeOK, Slot
    <2>3. file[s].body \in attempts
      BY <1>1, <1>3, <2>1, <2>2 DEF IInv, AnchorHolds
    <2> QED
      BY <2>3 DEF IInv, AnchorHolds, s
  <1>4. CASE created /\ s = anchor
    BY <1>1, <1>4 DEF IInv, AnchorHolds, TypeOK, s
  <1>5. CASE ~created
    BY <1>1, <1>5 DEF IInv, AnchorHolds, TypeOK, s
  <1> QED
    BY <1>3, <1>4, <1>5 DEF IInv, TypeOK

\* The invariant holds before the file exists.
LEMMA InitInductive == Init => IInv
  <1> SUFFICES ASSUME Init PROVE IInv
    OBVIOUS
  <1>1. Absent \in Image /\ ~Valid(Absent)
    BY DEF Absent, Image, Valid
  <1>2. TypeOK
    BY <1>1, Zenon DEF Init, TypeOK, Slot
  <1>3. AnchorHolds
    BY <1>1 DEF Init, AnchorHolds, Slot
  <1>4. PagerHolds
    BY DEF Init, PagerHolds
  <1>5. SavingHolds
    BY DEF Init, SavingHolds
  <1> QED
    BY <1>2, <1>3, <1>4, <1>5 DEF IInv

\* Every step of the pager, of a caller and of the environment preserves it.
LEMMA StepInductive == IInv /\ [Next]_vars => IInv'
  <1> SUFFICES ASSUME IInv, [Next]_vars PROVE IInv'
    OBVIOUS
  <1> USE DEF IInv
  <1>typ. /\ \A s \in Slot : file[s] \in Image /\ stable[s] \in Image
          /\ \A s \in Slot : 1 - s \in Slot /\ 1 - (1 - s) = s
          /\ \A img \in Image : img.gen \in Nat /\ img.body \in Nat
          /\ meta.gen \in Nat /\ meta.body \in Nat
          /\ Absent \in Image /\ Torn \in Image /\ ~Valid(Absent) /\ ~Valid(Torn)
    BY DEF TypeOK, Slot, Image, Absent, Torn, Valid
  <1>1. CASE CreateWrite
    <2>1. ~created
      BY <1>1, <1>typ DEF CreateWrite, AnchorHolds, TypeOK
    <2>2. \A s \in Slot : [gen |-> 1 - s, body |-> 0] \in [gen: Nat, body: Nat]
      BY DEF Slot
    <2>3. \A s \in Slot : file'[s] \in Image /\ file'[s].body = 0
      BY <1>1, <2>2, EncodeValid, Zenon DEF CreateWrite
    <2>4. TypeOK'
      BY <1>1, <2>2, EncodeValid DEF CreateWrite, TypeOK, history
    <2>5. AnchorHolds'
      BY <1>1, <2>1, <2>3 DEF CreateWrite, AnchorHolds, history
    <2>6. PagerHolds' /\ SavingHolds'
      BY <1>1, <2>1 DEF CreateWrite, PagerHolds, SavingHolds, history
    <2> QED
      BY <2>4, <2>5, <2>6
  <1>2. CASE CreateSync
    <2>1. /\ Valid(file[0]) /\ file[0].gen = 1 /\ file[0].body = 0
          /\ Valid(file[1]) /\ file[1].gen = 0 /\ file[1].body = 0
      BY <1>2 DEF CreateSync, PagerHolds, Slot, Encode, Valid
    <2>2. TypeOK'
      BY <1>2 DEF CreateSync, TypeOK, Slot
    <2>3. AnchorHolds'
      BY <1>2, <2>1 DEF CreateSync, AnchorHolds, Beats, TypeOK
    <2>4. PagerHolds' /\ SavingHolds'
      BY <1>2, <2>1 DEF CreateSync, PagerHolds, SavingHolds, Slot, TypeOK
    <2> QED
      BY <2>2, <2>3, <2>4
  <1>3. CASE CreateFails
    <2>1. ~created
      BY <1>3 DEF CreateFails, PagerHolds
    <2>2. PICK n \in 0..2, torn \in BOOLEAN :
            file' = [s \in Slot |-> IF s < n THEN file[s]
                                    ELSE IF s = n /\ torn THEN Torn ELSE Absent]
      BY <1>3 DEF CreateFails
    <2>3. \A s \in Slot : file'[s] \in {file[s], Torn, Absent}
      BY <2>2
    <2>4. file' \in [Slot -> Image]
      BY <2>2, <1>typ
    <2>5. TypeOK'
      BY <1>3, <2>4 DEF CreateFails, TypeOK, history
    <2>6. AnchorHolds'
      BY <1>3, <2>1, <2>3, <1>typ DEF CreateFails, AnchorHolds, history
    <2>7. PagerHolds' /\ SavingHolds'
      BY <1>3 DEF CreateFails, PagerHolds, SavingHolds, history
    <2> QED
      BY <2>5, <2>6, <2>7
  <1>4. CASE OpenPager
    <2> DEFINE s == Selected(file)
    <2>1. /\ s \in Slot
          /\ Valid(file[s])
          /\ Valid(file[1 - s]) => ~Beats(file[1 - s], 1 - s, file[s])
      BY <1>4, SelectedWins DEF OpenPager, TypeOK
    <2>2. file[s].gen \in Nat /\ file[s].body \in Nat
      BY <2>1, <1>typ
    <2> HIDE DEF s
    <2>3. /\ meta' = [gen |-> file[s].gen, body |-> file[s].body]
          /\ active' = s
          /\ phase' = "open"
          /\ UNCHANGED <<file, stable, pc, body>>
          /\ \A c \in Caller : pc[c] = "idle"
      BY <1>4 DEF OpenPager, s, PagerHolds
    <2>5. acked <= file[s].body /\ file[s].body <= body
      BY <1>4, SelectedIsRecent DEF OpenPager, s
    <2>6. CASE file = stable
      <3>1. anchor' = s /\ acked' = file[s].body /\ attempts' = {} /\ created' = TRUE
        BY <1>4, <2>6 DEF OpenPager, s
      <3>2. TypeOK'
        BY <2>1, <2>2, <2>3, <3>1 DEF TypeOK
      <3>3. AnchorHolds'
        BY <2>1, <2>3, <2>5, <2>6, <3>1 DEF AnchorHolds
      <3>4. PagerHolds' /\ SavingHolds'
        BY <2>1, <2>2, <2>3, <2>5, <3>1 DEF PagerHolds, SavingHolds
      <3> QED
        BY <3>2, <3>3, <3>4
    <2>7. CASE file # stable
      <3>1. UNCHANGED <<anchor, acked, attempts, created>>
        BY <1>4, <2>7 DEF OpenPager
      <3>2. TypeOK'
        BY <2>1, <2>2, <2>3, <3>1 DEF TypeOK
      <3>3. AnchorHolds'
        BY <2>3, <3>1 DEF AnchorHolds
      <3>4. Selected(file)' = active'
        BY <2>3 DEF s, Selected, Valid
      <3>5. PagerHolds' /\ SavingHolds'
        BY <2>1, <2>2, <2>3, <2>5, <3>1, <3>4 DEF PagerHolds, SavingHolds
      <3> QED
        BY <3>2, <3>3, <3>5
    <2> QED
      BY <2>6, <2>7
  <1>5. CASE OpenCorrupt
    BY <1>5 DEF OpenCorrupt, history, TypeOK, AnchorHolds, PagerHolds, SavingHolds
  <1>6. CASE Change
    <2>1. TypeOK'
      BY <1>6 DEF Change, TypeOK
    <2>2. meta'.gen = meta.gen /\ meta'.body = body + 1
      BY <1>6 DEF Change, TypeOK
    <2>3. AnchorHolds'
      BY <1>6, <2>2 DEF Change, AnchorHolds, TypeOK
    <2>4. phase = "open" => file[active].body \in Nat /\ file[active].body <= body + 1
      BY <1>typ DEF PagerHolds, TypeOK
    <2>5. PagerHolds'
      BY <1>6, <2>2, <2>4 DEF Change, PagerHolds, AnchorHolds, TypeOK, Selected
    <2>6. \A c \in Caller : pc[c] = "saving" => file[1 - active].body <= body + 1
      BY <1>6, <1>typ DEF SavingHolds, AnchorHolds, TypeOK
    <2>7. SavingHolds'
      BY <1>6, <2>2, <2>6 DEF Change, SavingHolds
    <2> QED
      BY <2>1, <2>3, <2>5, <2>7
  <1>7. ASSUME NEW c \in Caller, FlushAll(c) PROVE IInv'
    <2>o. phase = "open"
      BY <1>7 DEF FlushAll, FlushAllSync, SaveMetaWrite, SaveMetaWriteFails,
                  SaveMetaSync, SaveMetaSyncFails, PagerHolds
    <2>a. /\ Valid(file[active]) /\ file[active] \in Image
          /\ file[1 - active] \in Image
          /\ active \in Slot /\ 1 - active \in Slot /\ active # 1 - active
      BY <2>o, <1>typ DEF PagerHolds, TypeOK, Slot
    <2>1. CASE FlushAllSync(c)
      <3>1. TypeOK'
        BY <2>1, <2>a, <1>typ DEF FlushAllSync, TypeOK
      <3>2. CASE anchor = active /\ created
        <4>1. UNCHANGED <<anchor, acked, attempts, created>>
          BY <2>1, <3>2 DEF FlushAllSync, AnchorHolds
        <4>2. AnchorHolds'
          BY <2>1, <3>2, <4>1 DEF FlushAllSync, AnchorHolds
        <4> QED
          BY <2>1, <3>1, <3>2, <4>1, <4>2
             DEF FlushAllSync, PagerHolds, SavingHolds, TypeOK
      <3>3. CASE ~(anchor = active /\ created)
        <4>1. Selected(file) = active
          BY <2>o, <3>3 DEF PagerHolds
        <4>2. Valid(file[1 - active]) => ~Beats(file[1 - active], 1 - active, file[active])
          BY <4>1, <2>a, SelectedWins DEF TypeOK, Corrupt, Slot
        <4>3. /\ anchor' = active /\ acked' = file[active].body /\ attempts' = {}
              /\ created' = TRUE /\ stable' = file
              /\ UNCHANGED <<file, meta, active, phase, body>>
          BY <2>1, <3>3 DEF FlushAllSync
        <4>4. file[active].body <= body
          BY <2>o, <2>a, <1>typ DEF PagerHolds, TypeOK
        <4>5. AnchorHolds'
          BY <4>2, <4>3, <4>4, <2>a DEF AnchorHolds
        <4>6. PagerHolds'
          BY <4>3, <2>o DEF PagerHolds
        <4>7. \A d \in Caller : pc[d] = "idle"
          BY <3>3 DEF SavingHolds
        <4>8. SavingHolds'
          BY <2>1, <4>3, <4>7 DEF FlushAllSync, SavingHolds, TypeOK
        <4> QED
          BY <3>1, <4>5, <4>6, <4>8
      <3> QED
        BY <3>2, <3>3
    <2> DEFINE m == [meta EXCEPT !.gen = @ + 1]
    <2>m. m \in [gen: Nat, body: Nat] /\ m.gen = meta.gen + 1 /\ m.body = meta.body
      BY DEF TypeOK
    <2>e. /\ Encode(m) \in Image /\ Valid(Encode(m))
          /\ Encode(m).gen = meta.gen + 1 /\ Encode(m).body = meta.body
      BY <2>m, EncodeValid
    <2> HIDE DEF m
    <2>w. ASSUME NEW img \in {file[1 - active], Torn, Encode(m)},
                 pc[c] = "synced", \A d \in Caller : pc[d] # "saving",
                 file' = [file EXCEPT ![1 - active] = img],
                 meta' = m, attempts' = attempts \cup {meta.body},
                 pc' \in [Caller -> {"idle", "synced", "saving"}],
                 \A d \in Caller \ {c} : pc'[d] = pc[d],
                 pc'[c] = "idle" \/ (pc'[c] = "saving" /\ img = Encode(m)),
                 UNCHANGED <<stable, active, phase, body, anchor, acked, created>>
          PROVE  IInv'
      <3>1. anchor = active /\ created
        BY <2>w DEF SavingHolds
      <3>2. img \in Image /\ file'[1 - active] = img /\ file'[active] = file[active]
        BY <2>w, <2>a, <2>e, <1>typ DEF TypeOK
      <3>3. TypeOK'
        BY <2>w, <2>m, <3>2, <1>typ, ZenonT(60) DEF TypeOK
      <3>4. AnchorHolds'
        <4>1. ASSUME NEW x \in {img, stable[1 - anchor]}, Valid(x),
                     Beats(x, 1 - anchor, file[anchor])
              PROVE  x.body \in attempts \cup {meta.body}
          <5>1. CASE x = Encode(m)
            BY <5>1, <2>e
          <5>2. CASE x \in {file[1 - anchor], stable[1 - anchor]}
            BY <5>2, <4>1, <3>1 DEF AnchorHolds
          <5> QED
            BY <4>1, <5>1, <5>2, <3>1, <1>typ, <2>w
        <4>2. acked <= meta.body /\ meta.body <= body
          BY <2>o DEF PagerHolds
        <4> QED
          BY <2>w, <3>1, <3>2, <4>1, <4>2 DEF AnchorHolds, Beats
      <3>5. PagerHolds'
        BY <2>w, <2>o, <2>m, <3>1, <3>2, <2>a, <1>typ DEF PagerHolds, TypeOK
      <3>6. SavingHolds'
        <4>1. file[active].gen < meta.gen + 1
          BY <2>o, <2>a, <1>typ DEF PagerHolds
        <4>2. \A d \in Caller : pc'[d] = "saving" => d = c /\ img = Encode(m)
          BY <2>w
        <4> QED
          BY <2>w, <2>e, <2>m, <3>1, <3>2, <4>1, <4>2, <1>typ DEF SavingHolds, Valid
      <3> QED
        BY <3>3, <3>4, <3>5, <3>6
    <2>2. CASE SaveMetaWrite(c)
      <3>1. /\ pc' \in [Caller -> {"idle", "synced", "saving"}]
            /\ pc'[c] = "saving"
            /\ \A d \in Caller \ {c} : pc'[d] = pc[d]
        BY <2>2 DEF SaveMetaWrite, TypeOK
      <3> QED
        BY <2>2, <2>w, <3>1 DEF SaveMetaWrite, m
    <2>3. CASE SaveMetaWriteFails(c)
      <3>1. /\ pc' \in [Caller -> {"idle", "synced", "saving"}]
            /\ pc'[c] = "idle"
            /\ \A d \in Caller \ {c} : pc'[d] = pc[d]
        BY <2>3 DEF SaveMetaWriteFails, TypeOK
      <3> QED
        BY <2>3, <2>w, <3>1, Zenon DEF SaveMetaWriteFails, m
    <2>4. CASE SaveMetaSync(c)
      <3>1. /\ created /\ Valid(file[1 - active])
            /\ file[1 - active].gen = meta.gen /\ file[active].gen < meta.gen
            /\ file[1 - active].body \in attempts /\ file[1 - active].body <= meta.body
            /\ \A d \in Caller : pc[d] = "saving" => d = c
        BY <2>4 DEF SaveMetaSync, SavingHolds, Valid
      <3>2. TypeOK'
        BY <2>4, <2>a, <1>typ DEF SaveMetaSync, TypeOK
      <3>3. ~Beats(file[active], active, file[1 - active])
        BY <3>1, <2>a, <1>typ DEF Beats
      <3>4. 1 - (1 - active) = active
        BY <2>a DEF Slot
      <3>5. AnchorHolds'
        BY <2>4, <3>1, <3>3, <3>4 DEF SaveMetaSync, AnchorHolds
      <3>6. PagerHolds'
        BY <2>4, <2>o, <3>1, <2>a, <1>typ DEF SaveMetaSync, PagerHolds
      <3>7. \A d \in Caller : pc'[d] # "saving"
        BY <2>4, <3>1 DEF SaveMetaSync, TypeOK
      <3>8. SavingHolds'
        BY <2>4, <3>1, <3>7 DEF SaveMetaSync, SavingHolds
      <3> QED
        BY <3>2, <3>5, <3>6, <3>8
    <2>5. CASE SaveMetaSyncFails(c)
      BY <2>5, <2>o DEF SaveMetaSyncFails, history, TypeOK, AnchorHolds, PagerHolds,
                        SavingHolds, Selected
    <2> QED
      BY <1>7, <2>1, <2>2, <2>3, <2>4, <2>5 DEF FlushAll
  <1>8. CASE Close
    BY <1>8 DEF Close, history, TypeOK, AnchorHolds, PagerHolds, SavingHolds
  <1>9. CASE PowerLoss
    <2>1. PICK f \in AfterPowerLoss : file' = f /\ stable' = f
      BY <1>9 DEF PowerLoss
    <2>2. /\ f \in [Slot -> Image]
          /\ \A s \in Slot : \/ f[s] \in {file[s], stable[s]}
                             \/ f[s] = Torn /\ file[s] # stable[s]
      BY <1>typ DEF AfterPowerLoss
    <2>3. TypeOK'
      BY <1>9, <2>1, <2>2 DEF PowerLoss, TypeOK, history
    <2>4. AnchorHolds'
      <3>1. CASE created
        <4>1. f[anchor] = file[anchor]
          BY <3>1, <2>2 DEF AnchorHolds, TypeOK
        <4>2. f[1 - anchor] \in {file[1 - anchor], stable[1 - anchor], Torn}
          BY <2>2, <1>typ DEF TypeOK
        <4> QED
          BY <1>9, <2>1, <3>1, <4>1, <4>2, <1>typ DEF PowerLoss, AnchorHolds, history, Beats
      <3>2. CASE ~created
        BY <1>9, <2>1, <2>2, <3>2, <1>typ DEF PowerLoss, AnchorHolds, history
      <3> QED
        BY <3>1, <3>2
    <2>5. PagerHolds' /\ SavingHolds'
      BY <1>9 DEF PowerLoss, PagerHolds, SavingHolds, history
    <2> QED
      BY <2>3, <2>4, <2>5
  <1>10. CASE UNCHANGED vars
    BY <1>10 DEF vars, pager, history, TypeOK, AnchorHolds, PagerHolds, SavingHolds,
                 Selected
  <1> QED
    BY <1>1, <1>2, <1>3, <1>4, <1>5, <1>6, <1>7, <1>8, <1>9, <1>10 DEF Next

-----------------------------------------------------------------------------
\* The state of the slots has its type, and the anchor slot survives, in every
\* reachable state of the pager.
THEOREM Inductive == Spec => []IInv
  BY InitInductive, StepInductive, PTL DEF Spec

\* A loss of power at any instant leaves the last reported save or a later one.
THEOREM PowerLossSafe == Spec => []PowerLossRecovers
  <1>1. IInv => PowerLossRecovers
    <2> SUFFICES ASSUME IInv, created, NEW f \in AfterPowerLoss
                 PROVE  ~Corrupt(f) /\ f[Selected(f)].body \in {acked} \cup attempts
      BY DEF PowerLossRecovers
    <2>1. /\ \A s \in Slot : file[s] \in Image /\ stable[s] \in Image
          /\ Torn \in Image /\ ~Valid(Torn)
          /\ anchor \in Slot /\ 1 - anchor \in Slot
      BY DEF IInv, TypeOK, Slot, Torn, Image, Valid
    <2>2. f \in [Slot -> Image]
      BY <2>1 DEF AfterPowerLoss
    <2>3. f[anchor] = file[anchor] /\ Valid(f[anchor]) /\ f[anchor].body = acked
      BY <2>1 DEF AfterPowerLoss, IInv, AnchorHolds
    <2>4. ~Corrupt(f)
      BY <2>1, <2>3 DEF Corrupt, Slot
    <2>5. CASE Selected(f) = anchor
      BY <2>3, <2>4, <2>5
    <2>6. CASE Selected(f) # anchor
      <3>1. Selected(f) = 1 - anchor /\ anchor = 1 - Selected(f)
        BY <2>1, <2>2, <2>4, <2>6, SelectedWins DEF Slot
      <3>2. Valid(f[1 - anchor]) /\ ~Beats(f[anchor], anchor, f[1 - anchor])
        BY <3>1, <2>2, <2>3, <2>4, SelectedWins
      <3>3. f[1 - anchor].gen \in Nat /\ f[anchor].gen \in Nat
        BY <2>1, <2>2 DEF Image
      <3>4. Beats(f[1 - anchor], 1 - anchor, file[anchor])
        BY <3>2, <3>3, <2>1, <2>3 DEF Beats, Slot
      <3>5. f[1 - anchor] \in {file[1 - anchor], stable[1 - anchor]}
        BY <2>1, <3>2 DEF AfterPowerLoss
      <3> QED
        BY <2>4, <3>1, <3>2, <3>4, <3>5 DEF IInv, AnchorHolds
    <2> QED
      BY <2>5, <2>6
  <1> QED
    BY <1>1, Inductive, PTL

\* OpenPager never hands out metadata older than the last reported save.
THEOREM OpenSafe == Spec => OpenNeverGoesBack
  <1>1. IInv /\ IInv' /\ [Next]_vars
          => [phase = "closed" /\ phase' = "open" => meta'.body >= acked]_vars
    <2> SUFFICES ASSUME IInv, IInv', [Next]_vars, phase = "closed", phase' = "open"
                 PROVE  meta'.body >= acked
      OBVIOUS
    <2>1. OpenPager
      BY DEF Next, vars, pager, CreateWrite, CreateSync, CreateFails, OpenCorrupt,
             Change, FlushAll, FlushAllSync, SaveMetaWrite, SaveMetaWriteFails,
             SaveMetaSync, SaveMetaSyncFails, Close, PowerLoss
    <2>2. meta'.body = file[Selected(file)].body
      BY <2>1 DEF OpenPager
    <2>3. acked <= file[Selected(file)].body
      BY <2>1, SelectedIsRecent DEF OpenPager
    <2>4. acked \in Nat /\ meta'.body \in Nat
      BY DEF IInv, TypeOK
    <2> QED
      BY <2>2, <2>3, <2>4
  <1> QED
    BY <1>1, Inductive, PTL DEF Spec, OpenNeverGoesBack
=============================================================================
