-------------------------- MODULE QueueEngineProofs --------------------------
(***************************************************************************)
(* The invariants of QueueEngine for every number of messages and          *)
(* consumers and every limit, delay and lease.                             *)
(***************************************************************************)
EXTENDS QueueEngine, TLAPS

\* The provers, with their limits in seconds, of the leaves that name none.
USE SMTT(30), SMTT(40), SMTT(50), ZenonT(20)

-----------------------------------------------------------------------------
(* The inductive invariant *)

\* What is known of a message: it is in one place, the deliveries it had fit
\* that place, and so does its image in the tree.
Placed(m) ==
  /\ Places(m) = IF sent[m] = "accepted" THEN 1 ELSE 0
  /\ ready["main"][m] > 0 => retry[m] < MaxRetries
  /\ m \in inFlight["main"] => retry[m] <= MaxRetries
  /\ ready["dlq"][m] > 0 => retry[m] <= MaxRetries
  /\ sent[m] # "accepted" => retry[m] = 0
  /\ tree[m] = IF m \in inFlight["main"] THEN [state |-> "invisible", retry |-> retry[m]]
               ELSE IF ready["main"][m] > 0 THEN [state |-> "ready", retry |-> retry[m]]
               ELSE NoImage

\* A consumer that works, works on a message.
Holding == \A c \in Consumer : pc[c] = "busy" => held[c] \in Message

\* The entry of the deduplicator lasts as long as the window of the message
\* that set it.
WindowOpen ==
  \A a \in Tagged : age[a] < DedupWindow => entry = DedupWindow - age[a]

\* Where nothing is delayed, what is in a heap is visible.
VisibleAtOnce ==
  Delays = {0} => \A e \in Engine : \A m \in Message : ready[e][m] > 0 => due[m] = 0

IInv ==
  /\ TypeOK
  /\ \A m \in Message : Placed(m)
  /\ Holding
  /\ OnePerWindow /\ WindowOpen
  /\ VisibleAtOnce /\ NoLostWakeup

-----------------------------------------------------------------------------
(* The initial state *)

\* Counting where an engine holds nothing, or nothing more.
LEMMA SmallCounts == ~(0 > 0) /\ \A x \in 0..2 : x + 0 = x
  OBVIOUS

\* NewQueueEngine establishes the invariant.
LEMMA InitIInv == Init => IInv
  <1> SUFFICES ASSUME Init PROVE IInv
    OBVIOUS
  <1>1. TypeOK
    BY QueueAssumption DEF Init, TypeOK, Engine, NoTTL, NoImage
  <1>2. ASSUME NEW m \in Message PROVE Placed(m)
    <2>1. /\ ready["main"][m] = 0 /\ ready["dlq"][m] = 0 /\ retry[m] = 0 /\ sent[m] = "new"
          /\ inFlight["main"] = {} /\ inFlight["dlq"] = {} /\ tree[m] = NoImage
          /\ acked = {} /\ expired = {} /\ dropped = {}
      BY DEF Init, Engine
    <2>2. Places(m) = 0
      BY <2>1 DEF Places, Count
    <2>3. m \notin inFlight["main"]
      BY <2>1
    <2> QED
      BY <2>1, <2>2, <2>3, QueueAssumption DEF Placed
  <1>3. Holding
    BY DEF Init, Holding
  <1>4. OnePerWindow /\ WindowOpen
    BY QueueAssumption DEF Init, OnePerWindow, WindowOpen
  <1>5. VisibleAtOnce /\ NoLostWakeup
    BY DEF Init, VisibleAtOnce, NoLostWakeup, Available, InHeap, Engine
  <1> QED
    BY <1>1, <1>2, <1>3, <1>4, <1>5 DEF IInv

-----------------------------------------------------------------------------
(* What most steps leave alone *)

\* A message stays placed where the containers and its count do not change.
LEMMA PlacedKept ==
  ASSUME NEW m \in Message, Placed(m), UNCHANGED <<ready, inFlight, tree, retry, sent, history>>
  PROVE  Placed(m)'
  BY DEF Placed, Places, Count, history

\* The deduplication window is only disturbed by CheckOrSet and by time.
LEMMA WindowKept ==
  ASSUME OnePerWindow, WindowOpen, UNCHANGED <<entry, age>>
  PROVE  OnePerWindow' /\ WindowOpen'
  BY DEF OnePerWindow, WindowOpen

\* A step of a consumer that ends up awake loses no wakeup on its own engine;
\* where the other engine is left alone, on none.
LEMMA AwakeKept ==
  ASSUME NoLostWakeup, NEW c \in Consumer, pc'[c] # "wait",
         \A e \in Engine : e # Serves(c) =>
           /\ closed[e] <=> closed'[e]
           /\ notifyCh[e] => notifyCh'[e]
           /\ Available(e)' => Available(e) \/ notifyCh'[e],
         \A d \in Consumer : d # c => pc'[d] = pc[d]
  PROVE  NoLostWakeup'
  <1> SUFFICES ASSUME Delays = {0}, NEW e \in Engine, ~closed'[e],
                      \A d \in Consumer : Serves(d) = e => pc'[d] = "wait",
                      Available(e)'
               PROVE  notifyCh'[e]
    BY Zenon DEF NoLostWakeup, Serves
  <1>1. e # Serves(c)
    OBVIOUS
  <1>2. \A d \in Consumer : Serves(d) = e => pc[d] = "wait"
    BY <1>1
  <1> QED
    BY <1>1, <1>2, Zenon DEF NoLostWakeup

-----------------------------------------------------------------------------
(* Enqueue *)

\* The deduplication of Enqueue preserves the invariant.
LEMMA EnqueueCheckStep ==
  ASSUME IInv, NEW n \in Message, EnqueueCheck(n)
  PROVE  IInv'
  <1>0. /\ age' = age \/ (age' = [age EXCEPT ![n] = 0])
        /\ sent' = [sent EXCEPT ![n] = "refused"] \/ sent' = [sent EXCEPT ![n] = "admitted"]
        /\ entry' = entry \/ entry' = DedupWindow
    BY DEF IInv, TypeOK, EnqueueCheck, CheckOrSet
  <1>a. /\ entry \in 0..DedupWindow
        /\ age \in [Message -> 0..DedupWindow]
        /\ sent \in [Message -> {"new", "admitted", "accepted", "refused"}]
        /\ OnePerWindow /\ WindowOpen
    BY DEF IInv, TypeOK
  <1>1. TypeOK'
    <2>1. /\ age' \in [Message -> 0..DedupWindow]
          /\ sent' \in [Message -> {"new", "admitted", "accepted", "refused"}]
          /\ entry' \in 0..DedupWindow
      BY <1>0, <1>a, QueueAssumption
    <2> QED
      BY <2>1 DEF IInv, TypeOK, EnqueueCheck, engines, fields, history
  <1>2. ASSUME NEW m \in Message PROVE Placed(m)'
    BY QueueAssumption DEF IInv, TypeOK, EnqueueCheck, engines, fields, history, Placed, Places, Count, Engine
  <1>3. Holding'
    BY DEF IInv, Holding, EnqueueCheck
  <1>4. OnePerWindow' /\ WindowOpen'
    <2>1. CASE n \in Tagged /\ entry = 0
      <3>1. entry' = DedupWindow /\ age' = [age EXCEPT ![n] = 0]
        BY <2>1 DEF IInv, TypeOK, EnqueueCheck, CheckOrSet
      <3>2. \A a \in Tagged : age[a] = DedupWindow
        BY <1>a, <2>1, QueueAssumption DEF WindowOpen
      <3> QED
        BY <1>a, <3>1, <3>2, QueueAssumption DEF OnePerWindow, WindowOpen
    <2>2. CASE ~(n \in Tagged /\ entry = 0)
      <3>1. entry' = entry /\ age' = age
        BY <2>2, QueueAssumption DEF IInv, TypeOK, EnqueueCheck, CheckOrSet
      <3> QED
        BY <3>1 DEF IInv, OnePerWindow, WindowOpen
    <2> QED
      BY <2>1, <2>2
  <1>5. VisibleAtOnce' /\ NoLostWakeup'
    BY DEF IInv, EnqueueCheck, engines, fields, VisibleAtOnce, NoLostWakeup, Available, InHeap, Expired
  <1> QED
    BY <1>1, <1>2, <1>3, <1>4, <1>5 DEF IInv

\* Enqueue under q.mu preserves the invariant.
LEMMA EnqueueStep ==
  ASSUME IInv, NEW n \in Message, NEW delay \in Delays, NEW life \in TTLs \cup {NoTTL},
         Enqueue(n, delay, life)
  PROVE  IInv'
  <1>0. Placed(n)
    BY DEF IInv
  <1>1. /\ ready["main"][n] = 0 /\ ready["dlq"][n] = 0 /\ retry[n] = 0
        /\ n \notin inFlight["main"]
    BY <1>0 DEF IInv, TypeOK, Enqueue, Placed, Places, Count, Engine
  <1>2. TypeOK'
    BY <1>1, QueueAssumption DEF IInv, TypeOK, Enqueue, Engine, NoTTL, history
  <1>3. ASSUME NEW m \in Message PROVE Placed(m)'
    <2>1. Placed(m)
      BY DEF IInv
    <2> QED
      BY <1>1, <2>1, QueueAssumption DEF IInv, TypeOK, Enqueue, Placed, Places, Count, Engine, history
  <1>4. Holding'
    BY DEF IInv, Holding, Enqueue
  <1>5. OnePerWindow' /\ WindowOpen'
    BY DEF IInv, Enqueue, OnePerWindow, WindowOpen
  <1>6. VisibleAtOnce'
    BY QueueAssumption DEF IInv, TypeOK, Enqueue, VisibleAtOnce, Engine
  <1>7. NoLostWakeup'
    BY <1>1, QueueAssumption DEF IInv, TypeOK, Enqueue, NoLostWakeup, Available, InHeap, Expired, Engine
  <1> QED
    BY <1>2, <1>3, <1>4, <1>5, <1>6, <1>7 DEF IInv

\* Enqueue on a closed engine preserves the invariant.
LEMMA EnqueueClosedStep ==
  ASSUME IInv, NEW n \in Message, EnqueueClosed(n)
  PROVE  IInv'
  <1>1. TypeOK'
    BY DEF IInv, TypeOK, EnqueueClosed, engines, fields, history
  <1>2. ASSUME NEW m \in Message PROVE Placed(m)'
    BY DEF IInv, TypeOK, EnqueueClosed, engines, fields, history, Placed, Places, Count, Engine
  <1>3. Holding'
    BY DEF IInv, Holding, EnqueueClosed
  <1>4. OnePerWindow' /\ WindowOpen'
    BY DEF IInv, EnqueueClosed, OnePerWindow, WindowOpen
  <1>5. VisibleAtOnce' /\ NoLostWakeup'
    BY DEF IInv, EnqueueClosed, engines, fields, VisibleAtOnce, NoLostWakeup, Available, InHeap, Expired
  <1> QED
    BY <1>1, <1>2, <1>3, <1>4, <1>5 DEF IInv

-----------------------------------------------------------------------------
(* Dequeue *)

\* Dequeue is called, finds its engine closed, or finds its context done.
LEMMA ConsumerMoves ==
  ASSUME IInv, NEW c \in Consumer, Dequeue(c) \/ DequeueClosed(c) \/ CtxDone(c)
  PROVE  IInv'
  <1>0. /\ UNCHANGED <<engines, entry, fields, sent, held, age, history>>
        /\ \E p \in {"idle", "scan"} : pc' = [pc EXCEPT ![c] = p]
    BY DEF Dequeue, DequeueClosed, CtxDone
  <1>1. TypeOK'
    BY <1>0 DEF IInv, TypeOK, engines, fields, history
  <1>2. ASSUME NEW m \in Message PROVE Placed(m)'
    BY <1>0, PlacedKept DEF IInv, engines, fields
  <1>3. Holding'
    BY <1>0 DEF IInv, TypeOK, Holding
  <1>4. OnePerWindow' /\ WindowOpen'
    BY <1>0, WindowKept DEF IInv
  <1>5. VisibleAtOnce'
    BY <1>0 DEF IInv, engines, fields, VisibleAtOnce
  <1>6. NoLostWakeup'
    <2>1. pc'[c] # "wait" /\ \A d \in Consumer : d # c => pc'[d] = pc[d]
      BY <1>0 DEF IInv, TypeOK
    <2>2. \A e \in Engine : Available(e)' => Available(e)
      BY <1>0 DEF Available, InHeap, Expired, engines, fields
    <2>3. UNCHANGED <<closed, notifyCh>> /\ NoLostWakeup
      BY <1>0 DEF engines, IInv
    <2> QED
      BY <2>1, <2>2, <2>3, AwakeKept
  <1> QED
    BY <1>1, <1>2, <1>3, <1>4, <1>5, <1>6 DEF IInv

\* The select of Dequeue takes the token and scans again.
LEMMA WakeStep ==
  ASSUME IInv, NEW c \in Consumer, Wake(c)
  PROVE  IInv'
  <1>0. Serves(c) \in Engine
    BY DEF Serves, Engine
  <1>1. TypeOK'
    BY <1>0 DEF IInv, TypeOK, Wake, fields, history
  <1>2. ASSUME NEW m \in Message PROVE Placed(m)'
    BY PlacedKept DEF IInv, Wake, fields
  <1>3. Holding'
    BY DEF IInv, TypeOK, Holding, Wake
  <1>4. OnePerWindow' /\ WindowOpen'
    BY WindowKept DEF IInv, Wake
  <1>5. VisibleAtOnce'
    BY DEF IInv, Wake, fields, VisibleAtOnce
  <1>6. NoLostWakeup'
    <2>1. pc'[c] # "wait" /\ \A d \in Consumer : d # c => pc'[d] = pc[d]
      BY DEF IInv, TypeOK, Wake
    <2>2. \A e \in Engine : Available(e)' => Available(e)
      BY DEF Available, InHeap, Expired, Wake, fields
    <2>3. closed' = closed /\ \A e \in Engine : e # Serves(c) => notifyCh'[e] = notifyCh[e]
      BY DEF Wake, IInv, TypeOK
    <2> QED
      BY <2>1, <2>2, <2>3, AwakeKept DEF IInv
  <1> QED
    BY <1>1, <1>2, <1>3, <1>4, <1>5, <1>6 DEF IInv

\* A message in one of the heaps is nowhere else.
LEMMA OnlyInHeap ==
  ASSUME TypeOK, NEW m \in Message, Placed(m), NEW e \in Engine, ready[e][m] > 0
  PROVE  /\ ready[e][m] = 1 /\ \A o \in Engine : o # e => ready[o][m] = 0
         /\ \A o \in Engine : m \notin inFlight[o]
         /\ m \notin acked /\ m \notin expired /\ m \notin dropped
         /\ sent[m] = "accepted"
  BY DEF TypeOK, Placed, Places, Count, Engine

\* A message in flight is nowhere else.
LEMMA OnlyInFlight ==
  ASSUME TypeOK, NEW m \in Message, Placed(m), NEW e \in Engine, m \in inFlight[e]
  PROVE  /\ \A o \in Engine : ready[o][m] = 0
         /\ \A o \in Engine : o # e => m \notin inFlight[o]
         /\ m \notin acked /\ m \notin expired /\ m \notin dropped
         /\ sent[m] = "accepted"
  BY DEF TypeOK, Placed, Places, Count, Engine

\* The scan of Dequeue leases a message: the invariant is preserved.
LEMMA DequeueTakesStep ==
  ASSUME IInv, NEW c \in Consumer, DequeueTakes(c)
  PROVE  IInv'
  <1> DEFINE e == Serves(c)
  <1>0. e \in Engine
    BY DEF Serves, Engine
  <1>a. PICK head \in Heads(e) : \E P \in Pops(e, head) :
          /\ due[head] = 0
          /\ ready' = [ready EXCEPT ![e] = [m \in Message |->
                         IF m \in P THEN 0 ELSE IF m = head THEN @[m] - 1 ELSE @[m]]]
          /\ inFlight' = [inFlight EXCEPT ![e] = @ \cup {head}]
          /\ retry' = [retry EXCEPT ![head] = @ + 1]
          /\ due' = [due EXCEPT ![head] = Lease]
          /\ bound' = [bound EXCEPT ![head] = e]
          /\ tree' = [Gone(e, P) EXCEPT ![head] =
                        IF e = "main" THEN [state |-> "invisible", retry |-> retry[head] + 1] ELSE @]
          /\ expired' = expired \cup P
          /\ Take(c, head)
    BY Zenon DEF DequeueTakes
  <1>1. PICK P \in Pops(e, head) :
          /\ due[head] = 0
          /\ ready' = [ready EXCEPT ![e] = [m \in Message |->
                         IF m \in P THEN 0 ELSE IF m = head THEN @[m] - 1 ELSE @[m]]]
          /\ inFlight' = [inFlight EXCEPT ![e] = @ \cup {head}]
          /\ retry' = [retry EXCEPT ![head] = @ + 1]
          /\ due' = [due EXCEPT ![head] = Lease]
          /\ bound' = [bound EXCEPT ![head] = e]
          /\ tree' = [Gone(e, P) EXCEPT ![head] =
                        IF e = "main" THEN [state |-> "invisible", retry |-> retry[head] + 1] ELSE @]
          /\ expired' = expired \cup P
          /\ Take(c, head)
    BY <1>a, Zenon
  <1>2. UNCHANGED <<notifyCh, closed, entry, ttl, sent, age, acked, dropped>>
    BY DEF DequeueTakes
  <1> HIDE DEF e
  <1>3. TypeOK /\ \A m \in Message : Placed(m)
    BY DEF IInv
  <1>4. /\ head \in Message /\ ready[e][head] > 0
        /\ P \subseteq Message /\ head \notin P
        /\ \A m \in P : ready[e][m] > 0
    BY DEF Heads, Pops, InHeap
  <1>5. /\ \A m \in Message : ready'[e][m] = IF m \in P THEN 0 ELSE IF m = head THEN ready[e][m] - 1 ELSE ready[e][m]
        /\ \A o \in Engine : o # e => ready'[o] = ready[o]
    BY <1>0, <1>1, <1>3 DEF TypeOK
  <1>6. /\ inFlight'[e] = inFlight[e] \cup {head}
        /\ \A o \in Engine : o # e => inFlight'[o] = inFlight[o]
    BY <1>0, <1>1, <1>3 DEF TypeOK
  <1>7. /\ retry'[head] = retry[head] + 1 /\ \A m \in Message : m # head => retry'[m] = retry[m]
        /\ retry' \in [Message -> Int]
        /\ retry[head] \in Nat /\ retry[head] <= MaxRetries /\ (e = "main" => retry[head] < MaxRetries)
    BY <1>0, <1>1, <1>3, <1>4 DEF TypeOK, Placed, Engine
  <1>8. /\ tree'[head] = IF e = "main" THEN [state |-> "invisible", retry |-> retry[head] + 1] ELSE tree[head]
        /\ \A m \in Message : m # head => tree'[m] = IF e = "main" /\ m \in P THEN NoImage ELSE tree[m]
        /\ DOMAIN tree' = Message /\ tree' = [m \in Message |-> tree'[m]]
    BY <1>1, <1>4, Zenon DEF Gone
  <1>9. TypeOK'
    <2>1. ready' \in [Engine -> [Message -> 0..2]]
      <3>1. ready[e][head] = 1
        BY <1>0, <1>3, <1>4, OnlyInHeap
      <3> QED
        BY <1>0, <1>1, <1>3, <3>1 DEF TypeOK
    <2>2. inFlight' \in [Engine -> SUBSET Message]
      BY <1>0, <1>1, <1>3, <1>4 DEF TypeOK
    <2>3. tree' \in [Message -> [state : {"none", "ready", "invisible"}, retry : 0..MaxRetries]]
      <3> DEFINE Images == [state : {"none", "ready", "invisible"}, retry : 0..MaxRetries]
      <3>1. NoImage \in Images
        BY QueueAssumption DEF NoImage
      <3>2. e = "main" => [state |-> "invisible", retry |-> retry[head] + 1] \in Images
        BY <1>7, QueueAssumption
      <3>3. \A m \in Message : tree[m] \in Images
        BY <1>3, Zenon DEF TypeOK
      <3> HIDE DEF Images
      <3>4. \A m \in Message : tree'[m] \in Images
        BY <1>8, <3>1, <3>2, <3>3, Zenon
      <3>5. tree' \in [Message -> Images]
        BY <1>8, <3>4, Zenon
      <3> QED
        BY <3>5 DEF Images
    <2>4. due' \in [Message -> Nat] /\ bound' \in [Message -> Engine]
      BY <1>0, <1>1, <1>3, <1>4, QueueAssumption DEF TypeOK
    <2>5. retry' \in [Message -> 0..MaxRetries + 1]
      BY <1>1, <1>3, <1>7, QueueAssumption DEF TypeOK
    <2>6. pc' \in [Consumer -> {"idle", "scan", "wait", "busy"}] /\ held' \in [Consumer -> Message \cup {NoMessage}]
      BY <1>1, <1>3, <1>4 DEF TypeOK, Take
    <2>7. expired' \subseteq Message
      BY <1>1, <1>3, <1>4 DEF TypeOK
    <2> QED
      BY <1>2, <1>3, <2>1, <2>2, <2>3, <2>4, <2>5, <2>6, <2>7 DEF TypeOK
  <1>10. ASSUME NEW m \in Message PROVE Placed(m)'
    <2>0. Placed(m)
      BY <1>3
    <2>1. CASE m = head
      <3>1. /\ ready[e][m] = 1 /\ \A o \in Engine : o # e => ready[o][m] = 0
            /\ \A o \in Engine : m \notin inFlight[o]
            /\ m \notin acked /\ m \notin expired /\ m \notin dropped
            /\ sent[m] = "accepted"
        BY <1>0, <1>3, <1>4, <2>1, OnlyInHeap
      <3>2. m \notin expired' /\ m \notin acked' /\ m \notin dropped' /\ sent'[m] = "accepted"
        BY <1>1, <1>2, <1>4, <2>1, <3>1
      <3>3. \A o \in Engine : ready'[o][m] = 0
        BY <1>4, <1>5, <2>1, <3>1
      <3>4. m \in inFlight'[e] /\ \A o \in Engine : o # e => m \notin inFlight'[o]
        BY <1>6, <2>1, <3>1
      <3>5. Places(m)' = 1
        BY <1>0, <3>2, <3>3, <3>4 DEF Places, Count, Engine
      <3>6. CASE e = "main"
        <4>1. m \in inFlight'["main"] /\ ready'["main"][m] = 0 /\ ready'["dlq"][m] = 0
          BY <3>3, <3>4, <3>6 DEF Engine
        <4>2. retry'[m] <= MaxRetries
          BY <1>7, <2>1, <3>6, QueueAssumption
        <4>3. tree'[m] = [state |-> "invisible", retry |-> retry'[m]]
          BY <1>7, <1>8, <2>1, <3>6
        <4> QED
          BY <3>2, <3>5, <4>1, <4>2, <4>3 DEF Placed
      <3>7. CASE e = "dlq"
        BY <1>7, <1>8, <2>0, <2>1, <3>1, <3>2, <3>3, <3>4, <3>5, <3>7 DEF Placed, Engine
      <3> QED
        BY <1>0, <3>6, <3>7 DEF Engine
    <2>2. CASE m \in P
      <3>1. /\ ready[e][m] = 1 /\ \A o \in Engine : o # e => ready[o][m] = 0
            /\ \A o \in Engine : m \notin inFlight[o]
            /\ m \notin acked /\ m \notin expired /\ m \notin dropped
            /\ sent[m] = "accepted"
        BY <1>0, <1>3, <1>4, <2>2, OnlyInHeap
      <3>2. m \in expired' /\ m \notin acked' /\ m \notin dropped' /\ sent'[m] = "accepted"
        BY <1>1, <1>2, <2>2, <3>1
      <3>3. \A o \in Engine : ready'[o][m] = 0 /\ m \notin inFlight'[o]
        BY <1>4, <1>5, <1>6, <2>2, <3>1
      <3>4. Places(m)' = 1
        BY <3>2, <3>3 DEF Places, Count, Engine
      <3>5. tree'[m] = NoImage
        BY <1>0, <1>4, <1>8, <2>0, <2>2, <3>1 DEF Placed, Engine
      <3> QED
        BY <3>2, <3>3, <3>4, <3>5, SmallCounts, ZenonT(60) DEF Placed, Engine
    <2>3. CASE m # head /\ m \notin P
      <3>1. \A o \in Engine : ready'[o][m] = ready[o][m] /\ (m \in inFlight'[o] <=> m \in inFlight[o])
        BY <1>5, <1>6, <2>3, Zenon
      <3>2. /\ retry'[m] = retry[m] /\ tree'[m] = tree[m] /\ sent'[m] = sent[m]
            /\ m \in expired' <=> m \in expired
            /\ m \in acked' <=> m \in acked
            /\ m \in dropped' <=> m \in dropped
        BY <1>1, <1>2, <1>7, <1>8, <2>3
      <3> QED
        BY <2>0, <3>1, <3>2, ZenonT(60) DEF Placed, Places, Count, Engine
    <2> QED
      BY <2>1, <2>2, <2>3
  <1>11. Holding'
    BY <1>1, <1>3, <1>4 DEF IInv, TypeOK, Holding, Take
  <1>12. OnePerWindow' /\ WindowOpen'
    BY <1>2, WindowKept DEF IInv
  <1>13. VisibleAtOnce'
    <2>1. \A o \in Engine : ready'[o][head] = 0
      BY <1>0, <1>3, <1>4, <1>5, OnlyInHeap
    <2>2. \A o \in Engine, m \in Message : ready'[o][m] > 0 => m # head /\ ready[o][m] > 0 /\ due'[m] = due[m]
      <3>1. \A m \in Message : m # head => due'[m] = due[m]
        BY <1>1, <1>3, <1>4 DEF TypeOK
      <3> QED
        BY <1>5, <2>1, <3>1
    <2> QED
      BY <2>2 DEF IInv, VisibleAtOnce
  <1>14. NoLostWakeup'
    <2>1. pc'[c] # "wait" /\ \A d \in Consumer : d # c => pc'[d] = pc[d]
      BY <1>1, <1>3 DEF TypeOK, Take
    <2>2. \A o \in Engine : o # e => (Available(o)' => Available(o))
      BY <1>1, <1>2, <1>3, <1>4, <1>5, QueueAssumption DEF TypeOK, Available, InHeap, Expired
    <2> QED
      BY <1>2, <2>1, <2>2, AwakeKept DEF IInv, e
  <1> QED
    BY <1>9, <1>10, <1>11, <1>12, <1>13, <1>14 DEF IInv

\* The scan of Dequeue finds nothing to lease: the invariant is preserved.
LEMMA DequeueBlocksStep ==
  ASSUME IInv, NEW c \in Consumer, DequeueBlocks(c)
  PROVE  IInv'
  <1> DEFINE e == Serves(c)
  <1>0. e \in Engine
    BY DEF Serves, Engine
  <1>1. PICK P \in SUBSET InHeap(e) :
          /\ ready' = [ready EXCEPT ![e] = [m \in Message |-> IF m \in P THEN 0 ELSE @[m]]]
          /\ Popped(e, P)
          /\ P = InHeap(e) \/ (\E head \in InHeap(e) : due[head] > 0)
    <2>1. CASE /\ Heads(e) = {}
               /\ ready' = [ready EXCEPT ![e] = [m \in Message |-> 0]]
               /\ Popped(e, InHeap(e))
      <3>1. [m \in Message |-> 0] = [m \in Message |-> IF m \in InHeap(e) THEN 0 ELSE ready[e][m]]
        <4>0. ready \in [Engine -> [Message -> 0..2]]
          BY Zenon DEF IInv, TypeOK
        <4>1. \A m \in Message : ready[e][m] \in 0..2
          BY <1>0, <4>0
        <4>2. \A m \in Message : m \notin InHeap(e) => ready[e][m] = 0
          BY <4>1 DEF InHeap
        <4>3. \A m \in Message : 0 = IF m \in InHeap(e) THEN 0 ELSE ready[e][m]
          BY <4>2, Zenon
        <4> QED
          BY <4>3, Zenon
      <3>2. ready' = [ready EXCEPT ![e] = [m \in Message |-> IF m \in InHeap(e) THEN 0 ELSE @[m]]]
        BY <2>1, <3>1, Zenon
      <3> QED
        BY <2>1, <3>2, Zenon
    <2>2. CASE \E head \in Heads(e) : \E P \in Pops(e, head) :
                 /\ due[head] > 0
                 /\ ready' = [ready EXCEPT ![e] = [m \in Message |-> IF m \in P THEN 0 ELSE @[m]]]
                 /\ Popped(e, P)
      BY <2>2 DEF Heads, Pops
    <2> QED
      BY <2>1, <2>2 DEF DequeueBlocks
  <1>2. /\ UNCHANGED <<inFlight, notifyCh, closed, entry, fields, sent, held, age, acked, dropped>>
        /\ pc' = [pc EXCEPT ![c] = "wait"]
    BY DEF DequeueBlocks
  <1> HIDE DEF e
  <1>3. TypeOK /\ \A m \in Message : Placed(m)
    BY DEF IInv
  <1>4. P \subseteq Message /\ \A m \in P : ready[e][m] > 0
    BY DEF InHeap
  <1>5. /\ \A m \in Message : ready'[e][m] = IF m \in P THEN 0 ELSE ready[e][m]
        /\ \A o \in Engine : o # e => ready'[o] = ready[o]
    BY <1>0, <1>1, <1>3 DEF TypeOK
  <1>6. /\ \A m \in Message : tree'[m] = IF e = "main" /\ m \in P THEN NoImage ELSE tree[m]
        /\ tree' = [m \in Message |-> tree'[m]]
        /\ expired' = expired \cup P
    BY <1>1 DEF Popped, Gone
  <1>7. TypeOK'
    <2>1. ready' \in [Engine -> [Message -> 0..2]]
      BY <1>0, <1>1, <1>3 DEF TypeOK
    <2>2. tree' \in [Message -> [state : {"none", "ready", "invisible"}, retry : 0..MaxRetries]]
      <3>1. NoImage \in [state : {"none", "ready", "invisible"}, retry : 0..MaxRetries]
        BY QueueAssumption DEF NoImage
      <3> QED
        BY <1>3, <1>6, <3>1, Zenon DEF TypeOK
    <2>3. expired' \subseteq Message /\ pc' \in [Consumer -> {"idle", "scan", "wait", "busy"}]
      BY <1>2, <1>3, <1>4, <1>6 DEF TypeOK
    <2> QED
      BY <1>2, <1>3, <2>1, <2>2, <2>3 DEF TypeOK, fields
  <1>8. ASSUME NEW m \in Message PROVE Placed(m)'
    <2>0. Placed(m)
      BY <1>3
    <2>1. CASE m \in P
      <3>1. /\ ready[e][m] = 1 /\ \A o \in Engine : o # e => ready[o][m] = 0
            /\ \A o \in Engine : m \notin inFlight[o]
            /\ m \notin acked /\ m \notin expired /\ m \notin dropped
            /\ sent[m] = "accepted"
        BY <1>0, <1>3, <1>4, <2>1, OnlyInHeap
      <3>2. m \in expired' /\ m \notin acked' /\ m \notin dropped' /\ sent'[m] = "accepted"
        BY <1>2, <1>6, <2>1, <3>1
      <3>3. \A o \in Engine : ready'[o][m] = 0 /\ m \notin inFlight'[o]
        BY <1>2, <1>5, <2>1, <3>1
      <3>4. Places(m)' = 1
        BY <3>2, <3>3 DEF Places, Count, Engine
      <3>5. tree'[m] = NoImage
        BY <1>0, <1>6, <2>0, <2>1, <3>1 DEF Placed, Engine
      <3> QED
        BY <3>2, <3>3, <3>4, <3>5 DEF Placed, Engine
    <2>2. CASE m \notin P
      <3>1. \A o \in Engine : ready'[o][m] = ready[o][m] /\ inFlight'[o] = inFlight[o]
        BY <1>2, <1>5, <2>2
      <3>2. /\ retry'[m] = retry[m] /\ tree'[m] = tree[m] /\ sent'[m] = sent[m]
            /\ m \in expired' <=> m \in expired
            /\ m \in acked' <=> m \in acked
            /\ m \in dropped' <=> m \in dropped
        BY <1>2, <1>6, <2>2 DEF fields
      <3> QED
        BY <2>0, <3>1, <3>2, ZenonT(60) DEF Placed, Places, Count, Engine
    <2> QED
      BY <2>1, <2>2
  <1>9. Holding'
    BY <1>2, <1>3 DEF IInv, TypeOK, Holding
  <1>10. OnePerWindow' /\ WindowOpen'
    BY <1>2, WindowKept DEF IInv
  <1>11. \A o \in Engine, m \in Message : ready'[o][m] > 0 => ready[o][m] > 0
    BY <1>5
  <1>12. VisibleAtOnce'
    BY <1>2, <1>11 DEF IInv, VisibleAtOnce, fields
  <1>13. NoLostWakeup'
    <2> SUFFICES ASSUME Delays = {0}, NEW o \in Engine, ~closed'[o],
                        \A d \in Consumer : Serves(d) = o => pc'[d] = "wait",
                        Available(o)'
                 PROVE  notifyCh'[o]
      BY Zenon DEF NoLostWakeup, Serves
    <2>1. PICK m \in Message : ready'[o][m] > 0 /\ due[m] = 0 /\ ~Expired(m)
      BY <1>2 DEF Available, InHeap, Expired, fields
    <2>2. o # e
      <3>1. \A h \in InHeap(e) : due[h] = 0
        BY <1>0 DEF IInv, VisibleAtOnce, InHeap
      <3>2. P = InHeap(e)
        BY <1>1, <3>1
      <3>3. \A n \in Message : ready'[e][n] = 0
        <4>1. \A n \in Message : ready[e][n] \in 0..2
          BY <1>0, <1>3 DEF TypeOK
        <4>2. \A n \in Message : n \notin InHeap(e) => ready[e][n] = 0
          BY <4>1 DEF InHeap
        <4> QED
          BY <1>5, <3>2, <4>2
      <3> QED
        BY <2>1, <3>3
    <2>3. Available(o)
      BY <1>11, <2>1 DEF Available, InHeap
    <2>4. \A d \in Consumer : Serves(d) = o => pc[d] = "wait"
      BY <1>2, <1>3, <2>2 DEF TypeOK, e
    <2> QED
      BY <1>2, <2>3, <2>4, Zenon DEF IInv, NoLostWakeup
  <1> QED
    BY <1>7, <1>8, <1>9, <1>10, <1>12, <1>13 DEF IInv

-----------------------------------------------------------------------------
(* Ack, Nack, Extend and the visibility worker *)

\* The dead messages the dead-letter queue takes in.
Routed(e, dead) == IF e = "main" /\ ~closed["dlq"] THEN dead ELSE {}

\* What Settle does to each message.
Settled(e, dead, back) ==
  /\ \A m \in Message :
       /\ ready'["main"][m] = ready["main"][m] + IF e = "main" /\ m \in back THEN 1 ELSE 0
       /\ ready'["dlq"][m] =
            ready["dlq"][m] + IF (e = "dlq" /\ m \in back) \/ m \in Routed(e, dead) THEN 1 ELSE 0
       /\ tree'[m] = IF e = "main" /\ m \in back THEN [state |-> "ready", retry |-> retry[m]]
                     ELSE IF e = "main" /\ m \in dead THEN NoImage ELSE tree[m]
       /\ due'[m] = IF m \in Routed(e, dead) \cup back THEN 0 ELSE due[m]
       /\ bound'[m] = IF m \in Routed(e, dead) THEN "dlq" ELSE bound[m]
  /\ inFlight'[e] = inFlight[e] \ (dead \cup back)
  /\ \A o \in Engine : o # e => inFlight'[o] = inFlight[o]
  /\ dropped' = dropped \cup (dead \ Routed(e, dead))
  /\ \A o \in Engine : notifyCh[o] => notifyCh'[o]
  /\ back # {} => notifyCh'[e]
  /\ Routed(e, dead) # {} => notifyCh'["dlq"]

\* Settle does this, and gives its variables values of their types.
LEMMA SettleEffect ==
  ASSUME TypeOK, NEW e \in Engine, NEW dead, NEW back,
         dead \subseteq inFlight[e], back \subseteq inFlight[e],
         \A m \in back : retry[m] < MaxRetries,
         \A m \in dead \cup back : \A o \in Engine : ready[o][m] = 0,
         dead \cap back = {},
         Settle(e, dead, back)
  PROVE  /\ Settled(e, dead, back)
         /\ ready' \in [Engine -> [Message -> 0..2]]
         /\ inFlight' \in [Engine -> SUBSET Message]
         /\ notifyCh' \in [Engine -> BOOLEAN]
         /\ tree' \in [Message -> [state : {"none", "ready", "invisible"}, retry : 0..MaxRetries]]
         /\ due' \in [Message -> Nat] /\ bound' \in [Message -> Engine]
         /\ dropped' \subseteq Message
  <1> DEFINE routed == Routed(e, dead)
             joins(f, m) == (f = e /\ m \in back) \/ (f = "dlq" /\ m \in routed)
  <1>0. /\ routed \subseteq dead /\ (e = "dlq" => routed = {})
        /\ dead \subseteq Message /\ back \subseteq Message
    BY DEF Routed, TypeOK
  <1>1. /\ inFlight' = [inFlight EXCEPT ![e] = @ \ (dead \cup back)]
        /\ ready' = [f \in Engine |-> [m \in Message |-> IF joins(f, m) THEN ready[f][m] + 1 ELSE ready[f][m]]]
        /\ notifyCh' = [f \in Engine |-> notifyCh[f] \/ (f = e /\ back # {}) \/ (f = "dlq" /\ routed # {})]
        /\ due' = [m \in Message |-> IF m \in routed \cup back THEN 0 ELSE due[m]]
        /\ bound' = [m \in Message |-> IF m \in routed THEN "dlq" ELSE bound[m]]
        /\ tree' = [m \in Message |-> IF e = "main" /\ m \in back
                                       THEN [state |-> "ready", retry |-> retry[m]]
                                       ELSE Gone(e, dead)[m]]
        /\ dropped' = dropped \cup (dead \ routed)
    BY ZenonT(60) DEF Settle, Leaving, Notified, Routed
  <1> HIDE DEF routed
  <1>2. /\ inFlight'[e] = inFlight[e] \ (dead \cup back)
        /\ \A o \in Engine : o # e => inFlight'[o] = inFlight[o]
        /\ inFlight' \in [Engine -> SUBSET Message]
    <2>1. inFlight \in [Engine -> SUBSET Message]
      BY Zenon DEF TypeOK
    <2>2. inFlight' = [inFlight EXCEPT ![e] = @ \ (dead \cup back)]
      BY <1>1, Zenon
    <2> QED
      BY <2>1, <2>2
  <1>r. ready \in [Engine -> [Message -> 0..2]]
    BY Zenon DEF TypeOK
  <1>a. \A f \in Engine, m \in Message : ready'[f][m] = IF joins(f, m) THEN ready[f][m] + 1 ELSE ready[f][m]
    BY <1>1, Zenon
  <1>3. \A m \in Message :
          /\ ready'["main"][m] = ready["main"][m] + IF e = "main" /\ m \in back THEN 1 ELSE 0
          /\ ready'["dlq"][m] =
               ready["dlq"][m] + IF (e = "dlq" /\ m \in back) \/ m \in routed THEN 1 ELSE 0
    <2>0. \A m \in Message : ready["main"][m] \in Int /\ ready["dlq"][m] \in Int
      BY <1>r DEF Engine
    <2> QED
      BY <1>0, <1>a, <2>0 DEF Engine
  <1>4. ready' \in [Engine -> [Message -> 0..2]]
    <2>1. \A f \in Engine, m \in Message : ready'[f][m] \in 0..2
      <3> TAKE f \in Engine, m \in Message
      <3>1. CASE joins(f, m)
        <4>1. ready[f][m] = 0
          BY <1>0, <3>1
        <4> QED
          BY <1>a, <3>1, <4>1
      <3>2. CASE ~joins(f, m)
        BY <1>a, <1>r, <3>2
      <3> QED
        BY <3>1, <3>2
    <2>2. /\ ready' = [f \in Engine |-> ready'[f]]
          /\ \A f \in Engine : ready'[f] = [m \in Message |-> ready'[f][m]]
      BY <1>1, Zenon
    <2> QED
      BY <2>1, <2>2, Zenon
  <1>5. /\ notifyCh' \in [Engine -> BOOLEAN]
        /\ \A o \in Engine : notifyCh[o] => notifyCh'[o]
        /\ back # {} => notifyCh'[e]
        /\ routed # {} => notifyCh'["dlq"]
    BY <1>1, Zenon DEF Engine
  <1>6. /\ \A m \in Message : tree'[m] = IF e = "main" /\ m \in back THEN [state |-> "ready", retry |-> retry[m]]
                     ELSE IF e = "main" /\ m \in dead THEN NoImage ELSE tree[m]
        /\ tree' = [m \in Message |-> tree'[m]]
    BY <1>1, Zenon DEF Gone
  <1>7. tree' \in [Message -> [state : {"none", "ready", "invisible"}, retry : 0..MaxRetries]]
    <2> DEFINE Images == [state : {"none", "ready", "invisible"}, retry : 0..MaxRetries]
    <2>1. NoImage \in Images
      BY QueueAssumption DEF NoImage
    <2>2. \A m \in back : [state |-> "ready", retry |-> retry[m]] \in Images
      <3>1. \A m \in back : retry[m] \in 0..MaxRetries
        BY <1>0, QueueAssumption DEF TypeOK
      <3> QED
        BY <3>1
    <2>3. \A m \in Message : tree[m] \in Images
      BY Zenon DEF TypeOK
    <2> HIDE DEF Images
    <2>4. \A m \in Message : tree'[m] \in Images
      BY <1>6, <2>1, <2>2, <2>3, ZenonT(60)
    <2>5. tree' \in [Message -> Images]
      BY <1>6, <2>4, Zenon
    <2> QED
      BY <2>5 DEF Images
  <1>8. /\ due' \in [Message -> Nat] /\ bound' \in [Message -> Engine]
        /\ dropped' \subseteq Message
    <2>1. due \in [Message -> Nat] /\ bound \in [Message -> Engine] /\ dropped \subseteq Message
      BY Zenon DEF TypeOK
    <2>2. /\ due' = [m \in Message |-> IF m \in routed \cup back THEN 0 ELSE due[m]]
          /\ bound' = [m \in Message |-> IF m \in routed THEN "dlq" ELSE bound[m]]
          /\ dropped' = dropped \cup (dead \ routed)
      BY <1>1, Zenon
    <2> QED
      BY <1>0, <2>1, <2>2 DEF Engine
  <1>9. \A m \in Message : /\ due'[m] = IF m \in routed \cup back THEN 0 ELSE due[m]
                           /\ bound'[m] = IF m \in routed THEN "dlq" ELSE bound[m]
    BY <1>1, Zenon
  <1> QED
    BY <1>1, <1>2, <1>3, <1>4, <1>5, <1>6, <1>7, <1>8, <1>9, Zenon DEF Settled, routed

\* Settle moves messages between the places that are known, keeps the tree in
\* step, and leaves a token wherever it makes a message available.
LEMMA SettleKeeps ==
  ASSUME IInv, NEW e \in Engine, NEW dead, NEW back,
         dead \subseteq inFlight[e], back \subseteq inFlight[e], dead \cap back = {},
         \A m \in back : retry[m] < MaxRetries,
         Settle(e, dead, back), UNCHANGED <<ttl, retry, sent, acked, expired>>
  PROVE  /\ \A m \in Message : Placed(m)'
         /\ ready' \in [Engine -> [Message -> 0..2]]
         /\ inFlight' \in [Engine -> SUBSET Message]
         /\ notifyCh' \in [Engine -> BOOLEAN]
         /\ tree' \in [Message -> [state : {"none", "ready", "invisible"}, retry : 0..MaxRetries]]
         /\ due' \in [Message -> Nat] /\ bound' \in [Message -> Engine]
         /\ dropped' \subseteq Message
         /\ VisibleAtOnce'
         /\ \A o \in Engine : notifyCh[o] => notifyCh'[o]
         /\ \A o \in Engine : Available(o)' => Available(o) \/ notifyCh'[o]
  <1>0. TypeOK /\ (\A m \in Message : Placed(m)) /\ dead \subseteq Message /\ back \subseteq Message
    BY DEF IInv, TypeOK
  <1>1. \A m \in dead \cup back :
          /\ \A o \in Engine : ready[o][m] = 0
          /\ \A o \in Engine : o # e => m \notin inFlight[o]
          /\ m \notin acked /\ m \notin expired /\ m \notin dropped
          /\ sent[m] = "accepted"
    BY <1>0, OnlyInFlight
  <1>2. /\ Settled(e, dead, back)
        /\ ready' \in [Engine -> [Message -> 0..2]]
        /\ inFlight' \in [Engine -> SUBSET Message]
        /\ notifyCh' \in [Engine -> BOOLEAN]
        /\ tree' \in [Message -> [state : {"none", "ready", "invisible"}, retry : 0..MaxRetries]]
        /\ due' \in [Message -> Nat] /\ bound' \in [Message -> Engine]
        /\ dropped' \subseteq Message
    BY <1>0, <1>1, SettleEffect, ZenonT(60)
  <1>3. ASSUME NEW m \in Message PROVE Placed(m)'
    <2>0. /\ Placed(m) /\ retry'[m] = retry[m] /\ sent'[m] = sent[m]
          /\ m \in acked' <=> m \in acked
          /\ m \in expired' <=> m \in expired
      BY <1>0
    <2>a. ASSUME m \in dead \cup back
          PROVE  \A o \in Engine : m \notin inFlight'[o]
      <3>1. m \notin inFlight'[e]
        BY <1>2, <2>a, Zenon DEF Settled
      <3>2. \A o \in Engine : o # e => m \notin inFlight'[o]
        BY <1>1, <1>2, <2>a, Zenon DEF Settled
      <3> QED
        BY <3>1, <3>2, Zenon
    <2>b. dropped' = dropped \cup (dead \ Routed(e, dead))
      BY <1>2, Zenon DEF Settled
    <2>1. CASE m \in back
      <3>1. ready'[e][m] = 1 /\ \A o \in Engine : o # e => ready'[o][m] = 0
        <4>1. m \notin Routed(e, dead)
          BY <2>1 DEF Routed
        <4>2. /\ ready'["main"][m] = ready["main"][m] + IF e = "main" THEN 1 ELSE 0
              /\ ready'["dlq"][m] = ready["dlq"][m] + IF e = "dlq" THEN 1 ELSE 0
          BY <1>2, <2>1, <4>1, Zenon DEF Settled
        <4>3. ready["main"][m] = 0 /\ ready["dlq"][m] = 0
          BY <1>1, <2>1, Zenon DEF Engine
        <4> QED
          BY <4>2, <4>3 DEF Engine
      <3>2. /\ \A o \in Engine : m \notin inFlight'[o]
            /\ m \notin dropped'
        BY <1>1, <2>1, <2>a, <2>b
      <3>3. Places(m)' = 1 /\ sent'[m] = "accepted"
        BY <1>1, <2>0, <2>1, <3>1, <3>2 DEF Places, Count, Engine
      <3>4. retry[m] < MaxRetries
        BY <2>1
      <3>5. tree'[m] = IF e = "main" THEN [state |-> "ready", retry |-> retry[m]] ELSE tree[m]
        BY <1>2, <2>1, ZenonT(60) DEF Settled
      <3>6. CASE e = "main"
        BY <2>0, <3>1, <3>2, <3>3, <3>4, <3>5, <3>6, QueueAssumption DEF Placed, Engine
      <3>7. CASE e = "dlq"
        <4>1. tree[m] = NoImage
          BY <1>1, <2>0, <2>1, <3>7 DEF Placed, Engine
        <4>2. retry'[m] <= MaxRetries
          BY <1>0, <2>0, <3>4, QueueAssumption DEF TypeOK
        <4> QED
          BY <2>0, <3>1, <3>2, <3>3, <3>5, <3>7, <4>1, <4>2 DEF Placed, Engine
      <3> QED
        BY <3>6, <3>7 DEF Engine
    <2>2. CASE m \in Routed(e, dead)
      <3>0. m \in dead /\ e = "main" /\ m \notin back
        BY <2>2 DEF Routed
      <3>1. ready'["dlq"][m] = 1 /\ ready'["main"][m] = 0
        <4>1. ready'["dlq"][m] = ready["dlq"][m] + 1 /\ ready'["main"][m] = ready["main"][m] + 0
          BY <1>2, <2>2, <3>0, Zenon DEF Settled
        <4>2. ready["main"][m] = 0 /\ ready["dlq"][m] = 0
          BY <1>1, <3>0, Zenon DEF Engine
        <4> QED
          BY <4>1, <4>2
      <3>2. /\ \A o \in Engine : m \notin inFlight'[o]
            /\ m \notin dropped'
        BY <1>1, <2>2, <2>a, <2>b, <3>0, Zenon
      <3>3. Places(m)' = 1 /\ sent'[m] = "accepted"
        BY <1>1, <2>0, <3>0, <3>1, <3>2 DEF Places, Count, Engine
      <3>4. tree'[m] = NoImage
        BY <1>2, <3>0, Zenon DEF Settled
      <3>5. retry'[m] <= MaxRetries
        BY <2>0, <3>0 DEF Placed
      <3> QED
        BY <3>1, <3>2, <3>3, <3>4, <3>5 DEF Placed, Engine
    <2>3. CASE m \in dead /\ m \notin Routed(e, dead)
      <3>0. m \notin back
        BY <2>3
      <3>1. \A o \in Engine : ready'[o][m] = 0
        <4>1. ready'["dlq"][m] = ready["dlq"][m] + 0 /\ ready'["main"][m] = ready["main"][m] + 0
          BY <1>2, <2>3, <3>0, Zenon DEF Settled
        <4>2. ready["main"][m] = 0 /\ ready["dlq"][m] = 0
          BY <1>1, <2>3, Zenon DEF Engine
        <4> QED
          BY <4>1, <4>2 DEF Engine
      <3>2. /\ \A o \in Engine : m \notin inFlight'[o]
            /\ m \in dropped'
        BY <2>3, <2>a, <2>b, Zenon
      <3>3. Places(m)' = 1 /\ sent'[m] = "accepted"
        BY <1>1, <2>0, <2>3, <3>1, <3>2 DEF Places, Count, Engine
      <3>4. tree'[m] = IF e = "main" THEN NoImage ELSE tree[m]
        BY <1>2, <2>3, <3>0, ZenonT(60) DEF Settled
      <3>5. e = "dlq" => tree[m] = NoImage
        BY <1>1, <2>0, <2>3 DEF Placed, Engine
      <3>6. tree'[m] = NoImage
        BY <3>4, <3>5 DEF Engine
      <3> QED
        BY <3>1, <3>2, <3>3, <3>6 DEF Placed, Engine
    <2>4. CASE m \notin dead /\ m \notin back
      <3>0. m \notin Routed(e, dead)
        BY <2>4 DEF Routed
      <3>1. \A o \in Engine : ready'[o][m] = ready[o][m]
        <4>1. /\ ready'["main"][m] = ready["main"][m] + 0
              /\ ready'["dlq"][m] = ready["dlq"][m] + 0
          BY <1>2, <2>4, <3>0, Zenon DEF Settled
        <4>2. ready["main"][m] \in 0..2 /\ ready["dlq"][m] \in 0..2
          BY <1>0, ZenonT(60) DEF Engine, TypeOK
        <4> QED
          BY <4>1, <4>2, SmallCounts, Zenon DEF Engine
      <3>2. /\ \A o \in Engine : m \in inFlight'[o] <=> m \in inFlight[o]
            /\ m \in dropped' <=> m \in dropped
        BY <1>2, <2>4, Zenon DEF Settled
      <3>3. tree'[m] = tree[m]
        BY <1>2, <2>4, Zenon DEF Settled
      <3> QED
        BY <2>0, <3>1, <3>2, <3>3 DEF Placed, Places, Count, Engine
    <2> QED
      BY <2>1, <2>2, <2>3, <2>4
  <1>4. \A o \in Engine, m \in Message :
          \/ ready'[o][m] = ready[o][m] /\ (due'[m] = due[m] \/ ready[o][m] = 0)
          \/ due'[m] = 0 /\ ready'[o][m] > 0 /\ notifyCh'[o]
    <2> TAKE o \in Engine, m \in Message
    <2>0. /\ ready'["main"][m] = ready["main"][m] + IF e = "main" /\ m \in back THEN 1 ELSE 0
          /\ ready'["dlq"][m] =
               ready["dlq"][m] + IF (e = "dlq" /\ m \in back) \/ m \in Routed(e, dead) THEN 1 ELSE 0
          /\ back # {} => notifyCh'[e]
          /\ Routed(e, dead) # {} => notifyCh'["dlq"]
      BY <1>2, Zenon DEF Settled
    <2>a. ready["main"][m] \in 0..2 /\ ready["dlq"][m] \in 0..2
      BY <1>0 DEF TypeOK, Engine
    <2>1. CASE m \in back
      <3>1. due'[m] = 0
        BY <1>2, <2>1, Zenon DEF Settled
      <3>2. CASE o = e
        <4>1. notifyCh'[o]
          BY <2>0, <2>1, <3>2, Zenon
        <4>2. ready'[o][m] > 0
          BY <2>0, <2>a, <2>1, <3>2 DEF Engine
        <4> QED
          BY <3>1, <4>1, <4>2
      <3>3. CASE o # e
        <4>1. m \notin Routed(e, dead)
          BY <2>1, Zenon DEF Routed
        <4>2. ready[o][m] = 0
          BY <1>1, <2>1, Zenon
        <4>3. ready'[o][m] = ready[o][m]
          BY <2>0, <2>a, <3>3, <4>1 DEF Engine
        <4> QED
          BY <4>2, <4>3
      <3> QED
        BY <3>2, <3>3
    <2>2. CASE m \in Routed(e, dead)
      <3>0. m \in dead /\ e = "main" /\ m \notin back
        BY <2>2 DEF Routed
      <3>1. due'[m] = 0
        BY <1>2, <2>2, Zenon DEF Settled
      <3>2. CASE o = "dlq"
        <4>1. notifyCh'[o]
          BY <2>0, <2>2, <3>2, Zenon
        <4>2. ready'[o][m] > 0
          BY <2>0, <2>a, <2>2, <3>2
        <4> QED
          BY <3>1, <4>1, <4>2
      <3>3. CASE o = "main"
        <4>1. ready[o][m] = 0
          BY <1>1, <3>0, Zenon
        <4>2. ready'[o][m] = ready[o][m]
          BY <2>0, <2>a, <3>0, <3>3
        <4> QED
          BY <4>1, <4>2
      <3> QED
        BY <3>2, <3>3 DEF Engine
    <2>3. CASE m \notin Routed(e, dead) \cup back
      <3>1. due'[m] = due[m]
        BY <1>2, <2>3, Zenon DEF Settled
      <3>2. ready'["main"][m] = ready["main"][m] + 0 /\ ready'["dlq"][m] = ready["dlq"][m] + 0
        BY <2>0, <2>3, Zenon
      <3>3. ready'[o][m] = ready[o][m]
        BY <2>a, <3>2 DEF Engine
      <3> QED
        BY <3>1, <3>3
    <2> QED
      BY <2>1, <2>2, <2>3
  <1>5. VisibleAtOnce'
    <2> SUFFICES ASSUME Delays = {0}, NEW o \in Engine, NEW m \in Message, ready'[o][m] > 0
                 PROVE  due'[m] = 0
      BY Zenon DEF VisibleAtOnce
    <2>1. ready[o][m] > 0 => due[m] = 0
      BY DEF IInv, VisibleAtOnce
    <2> QED
      BY <1>4, <2>1, SmallCounts, Zenon
  <1>6. ASSUME NEW o \in Engine, Available(o)' PROVE Available(o) \/ notifyCh'[o]
    <2>1. PICK m \in Message : ready'[o][m] > 0 /\ due'[m] = 0 /\ ttl[m] # 0
      BY <1>6 DEF Available, InHeap, Expired
    <2> QED
      BY <1>4, <2>1 DEF Available, InHeap, Expired
  <1>7. \A o \in Engine : notifyCh[o] => notifyCh'[o]
    BY <1>2, Zenon DEF Settled
  <1> QED
    BY <1>2, <1>3, <1>5, <1>6, <1>7, Zenon

\* Ack takes the message out of the map and the tree, whichever lease it was.
LEMMA AckStep ==
  ASSUME IInv, NEW c \in Consumer, Ack(c)
  PROVE  IInv'
  <1> DEFINE n == held[c]
             e == bound[n]
  <1>0. /\ n \in Message /\ e \in Engine /\ n \in inFlight[e]
        /\ TypeOK /\ \A m \in Message : Placed(m)
    BY DEF Ack, Finds, IInv, TypeOK, Holding
  <1>1. /\ inFlight' = [inFlight EXCEPT ![e] = @ \ {n}]
        /\ tree' = Gone(e, {n})
        /\ acked' = acked \cup {n}
        /\ pc' = [pc EXCEPT ![c] = "idle"] /\ held' = [held EXCEPT ![c] = NoMessage]
        /\ UNCHANGED <<ready, notifyCh, closed, entry, fields, sent, age, expired, dropped>>
    BY DEF Ack, Release
  <1> HIDE DEF n, e
  <1>2. /\ inFlight'[e] = inFlight[e] \ {n}
        /\ \A o \in Engine : o # e => inFlight'[o] = inFlight[o]
        /\ inFlight' \in [Engine -> SUBSET Message]
    BY <1>0, <1>1 DEF TypeOK
  <1>3. /\ \A m \in Message : tree'[m] = IF e = "main" /\ m = n THEN NoImage ELSE tree[m]
        /\ tree' = [m \in Message |-> tree'[m]]
    BY <1>1, Zenon DEF Gone
  <1>4. TypeOK'
    <2>1. tree' \in [Message -> [state : {"none", "ready", "invisible"}, retry : 0..MaxRetries]]
      <3> DEFINE Images == [state : {"none", "ready", "invisible"}, retry : 0..MaxRetries]
      <3>1. NoImage \in Images
        BY QueueAssumption DEF NoImage
      <3>2. \A m \in Message : tree[m] \in Images
        BY <1>0, Zenon DEF TypeOK
      <3> HIDE DEF Images
      <3>3. tree' \in [Message -> Images]
        BY <1>3, <3>1, <3>2, Zenon
      <3> QED
        BY <3>3 DEF Images
    <2>2. /\ acked' \subseteq Message
          /\ pc' \in [Consumer -> {"idle", "scan", "wait", "busy"}]
          /\ held' \in [Consumer -> Message \cup {NoMessage}]
      BY <1>0, <1>1 DEF TypeOK
    <2> QED
      BY <1>0, <1>1, <1>2, <2>1, <2>2, Zenon DEF TypeOK, fields
  <1>5. ASSUME NEW m \in Message PROVE Placed(m)'
    <2>0. Placed(m) /\ retry'[m] = retry[m]
      BY <1>0, <1>1 DEF fields
    <2>1. CASE m = n
      <3>1. /\ \A o \in Engine : ready[o][m] = 0
            /\ \A o \in Engine : o # e => m \notin inFlight[o]
            /\ m \notin acked /\ m \notin expired /\ m \notin dropped
            /\ sent[m] = "accepted"
        BY <1>0, <2>1, OnlyInFlight
      <3>2. /\ \A o \in Engine : ready'[o][m] = 0 /\ m \notin inFlight'[o]
            /\ m \in acked' /\ m \notin expired' /\ m \notin dropped' /\ sent'[m] = "accepted"
        BY <1>1, <1>2, <2>1, <3>1
      <3>3. Places(m)' = 1
        BY <3>2 DEF Places, Count, Engine
      <3>4. e = "dlq" => tree[m] = NoImage
        BY <2>0, <3>1 DEF Placed, Engine
      <3>5. tree'[m] = NoImage
        BY <1>0, <1>3, <2>1, <3>4 DEF Engine
      <3> QED
        BY <3>2, <3>3, <3>5 DEF Placed, Engine
    <2>2. CASE m # n
      <3>1. /\ ready' = ready /\ sent' = sent /\ expired' = expired /\ dropped' = dropped
            /\ \A o \in Engine : m \in inFlight'[o] <=> m \in inFlight[o]
            /\ m \in acked' <=> m \in acked
            /\ tree'[m] = tree[m]
        BY <1>1, <1>2, <1>3, <2>2, Zenon
      <3> QED
        BY <2>0, <3>1, ZenonT(60) DEF Placed, Places, Count, Engine
    <2> QED
      BY <2>1, <2>2
  <1>6. Holding'
    BY <1>0, <1>1 DEF IInv, TypeOK, Holding
  <1>7. OnePerWindow' /\ WindowOpen'
    BY <1>1, WindowKept DEF IInv
  <1>8. VisibleAtOnce'
    BY <1>1 DEF IInv, VisibleAtOnce, fields
  <1>9. NoLostWakeup'
    <2>1. pc'[c] # "wait" /\ \A d \in Consumer : d # c => pc'[d] = pc[d]
      BY <1>0, <1>1 DEF TypeOK
    <2>2. \A o \in Engine : Available(o)' => Available(o)
      BY <1>1, Zenon DEF Available, InHeap, Expired, fields
    <2> QED
      BY <1>1, <2>1, <2>2, AwakeKept DEF IInv
  <1> QED
    BY <1>4, <1>5, <1>6, <1>7, <1>8, <1>9 DEF IInv

\* Nack gives the message back or gives it up.
LEMMA NackStep ==
  ASSUME IInv, NEW c \in Consumer, NEW requeue \in BOOLEAN, Nack(c, requeue)
  PROVE  IInv'
  <1> DEFINE n == held[c]
             e == bound[n]
  <1>0. /\ n \in Message /\ e \in Engine /\ n \in inFlight[e]
        /\ TypeOK /\ \A m \in Message : Placed(m)
    BY DEF Nack, Finds, IInv, TypeOK, Holding
  <1>1. \E dead, back \in SUBSET inFlight[e] :
          /\ dead \cap back = {}
          /\ \A m \in back : retry[m] < MaxRetries
          /\ Settle(e, dead, back)
    <2>1. CASE ~requeue \/ retry[n] >= MaxRetries
      BY <1>0, <2>1 DEF Nack
    <2>2. CASE ~(~requeue \/ retry[n] >= MaxRetries)
      <3>1. Settle(e, {}, {n})
        BY <2>2, Zenon DEF Nack
      <3>2. retry[n] < MaxRetries
        BY <1>0, <2>2, QueueAssumption DEF TypeOK
      <3> QED
        BY <1>0, <3>1, <3>2
    <2> QED
      BY <2>1, <2>2, ZenonT(60)
  <1>2. /\ pc' = [pc EXCEPT ![c] = "idle"] /\ held' = [held EXCEPT ![c] = NoMessage]
        /\ UNCHANGED <<closed, entry, ttl, retry, sent, age, acked, expired>>
    BY Zenon DEF Nack, Release
  <1> HIDE DEF n, e
  <1>3. /\ \A m \in Message : Placed(m)'
        /\ ready' \in [Engine -> [Message -> 0..2]]
        /\ inFlight' \in [Engine -> SUBSET Message]
        /\ notifyCh' \in [Engine -> BOOLEAN]
        /\ tree' \in [Message -> [state : {"none", "ready", "invisible"}, retry : 0..MaxRetries]]
        /\ due' \in [Message -> Nat] /\ bound' \in [Message -> Engine]
        /\ dropped' \subseteq Message
        /\ VisibleAtOnce'
        /\ \A o \in Engine : notifyCh[o] => notifyCh'[o]
        /\ \A o \in Engine : Available(o)' => Available(o) \/ notifyCh'[o]
    BY <1>0, <1>1, <1>2, SettleKeeps, Zenon
  <1>4. /\ pc' \in [Consumer -> {"idle", "scan", "wait", "busy"}]
        /\ held' \in [Consumer -> Message \cup {NoMessage}]
    BY <1>0, <1>2 DEF TypeOK
  <1>5. TypeOK'
    BY <1>0, <1>2, <1>3, <1>4 DEF TypeOK
  <1>6. Holding'
    BY <1>0, <1>2 DEF IInv, TypeOK, Holding
  <1>7. OnePerWindow' /\ WindowOpen'
    BY <1>2, WindowKept DEF IInv
  <1>8. NoLostWakeup'
    <2>1. pc'[c] # "wait" /\ \A d \in Consumer : d # c => pc'[d] = pc[d]
      BY <1>0, <1>2 DEF TypeOK
    <2> QED
      BY <1>2, <1>3, <2>1, AwakeKept, Zenon DEF IInv
  <1> QED
    BY <1>3, <1>5, <1>6, <1>7, <1>8 DEF IInv

\* The message is not found, or its consumer dies.
LEMMA ForgetStep ==
  ASSUME IInv, NEW c \in Consumer, Forget(c)
  PROVE  IInv'
  <1>0. /\ pc' = [pc EXCEPT ![c] = "idle"] /\ held' = [held EXCEPT ![c] = NoMessage]
        /\ UNCHANGED <<engines, entry, fields, sent, age, history>>
    BY DEF Forget, Release
  <1>1. TypeOK'
    BY <1>0 DEF IInv, TypeOK, engines, fields, history
  <1>2. ASSUME NEW m \in Message PROVE Placed(m)'
    BY <1>0, PlacedKept DEF IInv, engines, fields
  <1>3. Holding'
    BY <1>0 DEF IInv, TypeOK, Holding
  <1>4. OnePerWindow' /\ WindowOpen'
    BY <1>0, WindowKept DEF IInv
  <1>5. VisibleAtOnce'
    BY <1>0, ZenonT(60) DEF IInv, engines, fields, VisibleAtOnce
  <1>6. NoLostWakeup'
    <2>1. pc'[c] # "wait" /\ \A d \in Consumer : d # c => pc'[d] = pc[d]
      BY <1>0 DEF IInv, TypeOK
    <2>2. \A e \in Engine : Available(e)' => Available(e)
      BY <1>0 DEF Available, InHeap, Expired, engines, fields
    <2>3. UNCHANGED <<closed, notifyCh>> /\ NoLostWakeup
      BY <1>0 DEF engines, IInv
    <2> QED
      BY <2>1, <2>2, <2>3, AwakeKept
  <1> QED
    BY <1>1, <1>2, <1>3, <1>4, <1>5, <1>6 DEF IInv

\* Extend prolongs the lease of a message in flight, which is in no heap.
LEMMA ExtendStep ==
  ASSUME IInv, NEW c \in Consumer, NEW d \in Extensions, Extend(c, d)
  PROVE  IInv'
  <1>0. /\ held[c] \in Message /\ bound[held[c]] \in Engine /\ held[c] \in inFlight[bound[held[c]]]
        /\ TypeOK /\ \A m \in Message : Placed(m)
    BY DEF Extend, Finds, IInv, TypeOK, Holding
  <1>1. /\ due' = [due EXCEPT ![held[c]] = d]
        /\ UNCHANGED <<engines, entry, ttl, retry, bound, sent, pc, held, age, history>>
    BY DEF Extend
  <1>2. \A o \in Engine, m \in Message : ready[o][m] > 0 => due'[m] = due[m]
    <2>1. \A o \in Engine : ready[o][held[c]] = 0
      BY <1>0, OnlyInFlight
    <2>2. \A m \in Message : m # held[c] => due'[m] = due[m]
      BY <1>0, <1>1 DEF TypeOK
    <2> QED
      BY <2>1, <2>2
  <1>3. TypeOK'
    <2>1. due' \in [Message -> Nat]
      BY <1>0, <1>1, QueueAssumption DEF TypeOK
    <2> QED
      BY <1>0, <1>1, <2>1 DEF TypeOK, engines, history
  <1>4. ASSUME NEW m \in Message PROVE Placed(m)'
    BY <1>0, <1>1, PlacedKept DEF engines
  <1>5. Holding'
    BY <1>1 DEF IInv, Holding
  <1>6. OnePerWindow' /\ WindowOpen'
    BY <1>1, WindowKept DEF IInv
  <1>7. VisibleAtOnce'
    BY <1>1, <1>2, Zenon DEF IInv, engines, VisibleAtOnce
  <1>8. NoLostWakeup'
    <2>1. \A e \in Engine : Available(e)' => Available(e)
      BY <1>1, <1>2, Zenon DEF Available, InHeap, Expired, engines
    <2> QED
      BY <1>1, <2>1, Zenon DEF IInv, engines, NoLostWakeup
  <1> QED
    BY <1>3, <1>4, <1>5, <1>6, <1>7, <1>8 DEF IInv

\* The visibility worker gives up every lease that ran out, in one section.
LEMMA WorkerStep ==
  ASSUME IInv, NEW e \in Engine, Worker(e)
  PROVE  IInv'
  <1> DEFINE over == {m \in inFlight[e] : due[m] = 0}
             dead == {m \in over : retry[m] >= MaxRetries}
  <1>0. /\ Settle(e, dead, over \ dead)
        /\ UNCHANGED <<closed, entry, ttl, retry, sent, pc, held, age, acked, expired>>
    BY ZenonT(60) DEF Worker
  <1>1. /\ dead \subseteq inFlight[e] /\ over \ dead \subseteq inFlight[e]
        /\ dead \cap (over \ dead) = {}
    OBVIOUS
  <1>2. \A m \in over \ dead : retry[m] < MaxRetries
    <2>1. /\ inFlight \in [Engine -> SUBSET Message]
          /\ retry \in [Message -> 0..MaxRetries + 1]
      BY Zenon DEF IInv, TypeOK
    <2> QED
      BY <2>1, QueueAssumption
  <1> HIDE DEF over, dead
  <1>3. /\ \A m \in Message : Placed(m)'
        /\ ready' \in [Engine -> [Message -> 0..2]]
        /\ inFlight' \in [Engine -> SUBSET Message]
        /\ notifyCh' \in [Engine -> BOOLEAN]
        /\ tree' \in [Message -> [state : {"none", "ready", "invisible"}, retry : 0..MaxRetries]]
        /\ due' \in [Message -> Nat] /\ bound' \in [Message -> Engine]
        /\ dropped' \subseteq Message
        /\ VisibleAtOnce'
        /\ \A o \in Engine : notifyCh[o] => notifyCh'[o]
        /\ \A o \in Engine : Available(o)' => Available(o) \/ notifyCh'[o]
    BY <1>0, <1>1, <1>2, SettleKeeps, ZenonT(60)
  <1>4. TypeOK'
    BY <1>0, <1>3 DEF IInv, TypeOK
  <1>5. Holding'
    BY <1>0 DEF IInv, Holding
  <1>6. OnePerWindow' /\ WindowOpen'
    BY <1>0, WindowKept DEF IInv
  <1>7. NoLostWakeup'
    BY <1>0, <1>3, Zenon DEF IInv, NoLostWakeup
  <1> QED
    BY <1>3, <1>4, <1>5, <1>6, <1>7 DEF IInv

\* Close stops an engine where it is.
LEMMA CloseStep ==
  ASSUME IInv, NEW e \in Engine, Close(e)
  PROVE  IInv'
  <1>0. /\ closed' = [closed EXCEPT ![e] = TRUE]
        /\ UNCHANGED <<ready, inFlight, notifyCh, tree, entry, fields, sent, pc, held, age, history>>
    BY DEF Close
  <1>1. TypeOK'
    BY <1>0 DEF IInv, TypeOK, fields, history
  <1>2. ASSUME NEW m \in Message PROVE Placed(m)'
    BY <1>0, PlacedKept DEF IInv, fields
  <1>3. Holding'
    BY <1>0, Zenon DEF IInv, Holding
  <1>4. OnePerWindow' /\ WindowOpen'
    BY <1>0, WindowKept DEF IInv
  <1>5. VisibleAtOnce'
    BY <1>0 DEF IInv, fields, VisibleAtOnce
  <1>6. NoLostWakeup'
    <2>1. \A o \in Engine : /\ closed[o] => closed'[o]
                            /\ Available(o)' => Available(o)
      BY <1>0 DEF IInv, TypeOK, Available, InHeap, Expired, fields
    <2> QED
      BY <1>0, <2>1, Zenon DEF IInv, NoLostWakeup
  <1> QED
    BY <1>1, <1>2, <1>3, <1>4, <1>5, <1>6 DEF IInv

\* Time passes: the entry and the window of the message that set it run down
\* together, and what is visible stays so.
LEMMA TickStep ==
  ASSUME IInv, Tick
  PROVE  IInv'
  <1>0. /\ due' = [m \in Message |-> Less1(due[m])]
        /\ ttl' = [m \in Message |-> Less1(ttl[m])]
        /\ entry' = Less1(entry)
        /\ age' = [m \in Message |-> IF age[m] < DedupWindow THEN age[m] + 1 ELSE age[m]]
        /\ UNCHANGED <<engines, retry, bound, sent, pc, held, history>>
    BY DEF Tick
  <1>a. /\ due \in [Message -> Nat] /\ ttl \in [Message -> Nat \cup {NoTTL}]
        /\ entry \in 0..DedupWindow /\ age \in [Message -> 0..DedupWindow]
    BY DEF IInv, TypeOK
  <1>1. TypeOK'
    <2>1. due' \in [Message -> Nat] /\ entry' \in 0..DedupWindow
      BY <1>0, <1>a, QueueAssumption DEF Less1
    <2>2. ttl' \in [Message -> Nat \cup {NoTTL}]
      BY <1>0, <1>a DEF Less1, NoTTL
    <2>3. age' \in [Message -> 0..DedupWindow]
      BY <1>0, <1>a, QueueAssumption
    <2> QED
      BY <1>0, <2>1, <2>2, <2>3 DEF IInv, TypeOK, engines, history
  <1>2. ASSUME NEW m \in Message PROVE Placed(m)'
    BY <1>0, PlacedKept DEF IInv, engines
  <1>3. Holding'
    BY <1>0, Zenon DEF IInv, Holding
  <1>4. \A a \in Tagged : age'[a] < DedupWindow => age[a] < DedupWindow /\ age'[a] = age[a] + 1
    BY <1>0, <1>a, QueueAssumption
  <1>5. OnePerWindow'
    BY <1>4 DEF IInv, OnePerWindow
  <1>6. WindowOpen'
    <2> SUFFICES ASSUME NEW a \in Tagged, age'[a] < DedupWindow
                 PROVE  entry' = DedupWindow - age'[a]
      BY DEF WindowOpen
    <2>1. entry = DedupWindow - age[a] /\ age[a] \in 0..DedupWindow
      BY <1>4, <1>a, QueueAssumption DEF IInv, WindowOpen
    <2> QED
      BY <1>0, <1>4, <2>1, QueueAssumption DEF Less1
  <1>7. VisibleAtOnce'
    <2>1. \A m \in Message : due[m] = 0 => due'[m] = 0
      BY <1>0 DEF Less1
    <2> QED
      BY <1>0, <2>1 DEF IInv, VisibleAtOnce, engines
  <1>8. NoLostWakeup'
    <2> SUFFICES ASSUME Delays = {0} PROVE NoLostWakeup'
      BY DEF NoLostWakeup
    <2>1. \A m \in Message : ttl'[m] # 0 => ttl[m] # 0
      BY <1>0 DEF Less1
    <2>2. \A o \in Engine : Available(o)' => Available(o)
      BY <1>0, <2>1, Zenon DEF IInv, VisibleAtOnce, Available, InHeap, Expired, engines
    <2> QED
      BY <1>0, <2>2, Zenon DEF IInv, NoLostWakeup, engines
  <1> QED
    BY <1>1, <1>2, <1>3, <1>5, <1>6, <1>7, <1>8 DEF IInv

-----------------------------------------------------------------------------
(* The theorems *)

\* Every step preserves the invariant.
LEMMA NextIInv == IInv /\ [Next]_vars => IInv'
  <1> SUFFICES ASSUME IInv, [Next]_vars PROVE IInv'
    OBVIOUS
  <1>1. ASSUME NEW m \in Message, Producer(m) PROVE IInv'
    BY <1>1, EnqueueCheckStep, EnqueueStep, EnqueueClosedStep, Zenon DEF Producer
  <1>2. ASSUME NEW c \in Consumer,
               Dequeue(c) \/ Scan(c) \/ Wake(c) \/ CtxDone(c) \/ Finish(c)
                 \/ (\E d \in Extensions : Extend(c, d))
        PROVE  IInv'
    <2>1. CASE Dequeue(c) \/ DequeueClosed(c) \/ CtxDone(c)
      BY <2>1, ConsumerMoves, Zenon
    <2>2. CASE DequeueTakes(c)
      BY <2>2, DequeueTakesStep, Zenon
    <2>3. CASE DequeueBlocks(c)
      BY <2>3, DequeueBlocksStep, Zenon
    <2>4. CASE Wake(c)
      BY <2>4, WakeStep, Zenon
    <2>5. CASE Finish(c)
      BY <2>5, AckStep, NackStep, ForgetStep, Zenon DEF Finish
    <2>6. CASE \E d \in Extensions : Extend(c, d)
      BY <2>6, ExtendStep, Zenon
    <2> QED
      BY <1>2, <2>1, <2>2, <2>3, <2>4, <2>5, <2>6, Zenon DEF Scan
  <1>3. ASSUME NEW e \in Engine, Worker(e) \/ Close(e) PROVE IInv'
    BY <1>3, WorkerStep, CloseStep, Zenon
  <1>4. CASE UNCHANGED vars
    <2>1. UNCHANGED <<engines, entry, fields, sent, pc, held, age, history>>
      BY <1>4, Zenon DEF vars
    <2>2. TypeOK'
      BY <2>1 DEF IInv, TypeOK, engines, fields, history
    <2>3. ASSUME NEW m \in Message PROVE Placed(m)'
      BY <2>1, PlacedKept DEF IInv, engines, fields
    <2>4. Holding' /\ OnePerWindow' /\ WindowOpen'
      BY <2>1, WindowKept DEF IInv, Holding
    <2>5. VisibleAtOnce' /\ NoLostWakeup'
      BY <2>1 DEF IInv, VisibleAtOnce, NoLostWakeup, Available, InHeap, Expired, engines, fields
    <2> QED
      BY <2>2, <2>3, <2>4, <2>5 DEF IInv
  <1> QED
    BY <1>1, <1>2, <1>3, <1>4, TickStep, Zenon DEF Next

\* IInv holds in every reachable state of the queue.
THEOREM Inductive == Spec => []IInv
  BY InitIInv, NextIInv, PTL DEF Spec

\* What IInv says of each message is what the three invariants say of all.
LEMMA IInvImplies ==
  IInv => ExactlyOnePlace /\ AttemptsBounded /\ TreeFollowsQueue
  <1> SUFFICES ASSUME IInv PROVE ExactlyOnePlace /\ AttemptsBounded /\ TreeFollowsQueue
    OBVIOUS
  <1>1. ExactlyOnePlace /\ TreeFollowsQueue
    BY Zenon DEF IInv, Placed, ExactlyOnePlace, TreeFollowsQueue
  <1>2. AttemptsBounded
    <2>1. retry \in [Message -> 0..MaxRetries + 1]
      BY Zenon DEF IInv, TypeOK
    <2>2. \A m \in Message : /\ ready["main"][m] > 0 => retry[m] < MaxRetries
                             /\ m \in inFlight["main"] => retry[m] <= MaxRetries
      BY Zenon DEF IInv, Placed
    <2>3. \A m \in Message : retry[m] <= MaxRetries + 1
      BY <2>1, QueueAssumption
    <2> QED
      BY <2>2, <2>3, Zenon DEF AttemptsBounded
  <1> QED
    BY <1>1, <1>2

\* The state is well typed; in particular the image of a message in the tree
\* never counts more than MaxRetries deliveries.
THEOREM TypeCorrect == Spec => []TypeOK
  <1>1. IInv => TypeOK
    BY DEF IInv
  <1> QED
    BY <1>1, Inductive, PTL

\* Whatever leases run out, callbacks come late and engines close, an accepted
\* message is in exactly one heap or in-flight map, or left exactly once.
THEOREM NeitherLostNorDoubled == Spec => []ExactlyOnePlace
  BY IInvImplies, Inductive, PTL

\* Nack and the worker count deliveries alike: at most MaxRetries by the main
\* engine and one more by the dead-letter queue.
THEOREM DeliveriesBounded == Spec => []AttemptsBounded
  BY IInvImplies, Inductive, PTL

\* Every operation leaves the tree with what restoreFromTree would need.
THEOREM TreeIsTheQueue == Spec => []TreeFollowsQueue
  BY IInvImplies, Inductive, PTL

\* CheckOrSet lets one message with a DedupID through per window.
THEOREM DedupPerWindow == Spec => []OnePerWindow
  <1>1. IInv => OnePerWindow
    BY DEF IInv
  <1> QED
    BY <1>1, Inductive, PTL

\* The single place of notifyCh suffices where nothing is delayed.
THEOREM WakeupsKept == Spec => []NoLostWakeup
  <1>1. IInv => NoLostWakeup
    BY DEF IInv
  <1> QED
    BY <1>1, Inductive, PTL

\* The heap's order carries over to deliveries, expired messages included.
THEOREM PriorityOfDeliveries == Spec => PriorityRespected
  <1> DEFINE Respected ==
        \A c \in Consumer : pc[c] = "scan" /\ pc'[c] = "busy" /\ held'[c] \notin High =>
          \A m \in High : ready[Serves(c)][m] > 0 => due[m] > 0 \/ Expired(m)
  <1>1. TypeOK /\ [Next]_vars => [Respected]_vars
    <2> SUFFICES ASSUME TypeOK, Next, NEW c \in Consumer,
                        pc[c] = "scan", pc'[c] = "busy", held'[c] \notin High,
                        NEW m \in High, ready[Serves(c)][m] > 0
                 PROVE  due[m] > 0 \/ Expired(m)
      BY ZenonT(60)
    <2>0. due[m] \in Nat
      BY QueueAssumption DEF TypeOK
    <2> SUFFICES ASSUME due[m] = 0, ~Expired(m) PROVE FALSE
      BY <2>0
    <2>1. DequeueTakes(c)
      <3>1. pc \in [Consumer -> {"idle", "scan", "wait", "busy"}]
        BY ZenonT(60) DEF TypeOK
      <3>2. ASSUME NEW n \in Message, Producer(n) PROVE FALSE
        BY <3>2 DEF Producer, EnqueueCheck, Enqueue, EnqueueClosed
      <3>3. ASSUME NEW d \in Consumer,
                   Dequeue(d) \/ Scan(d) \/ Wake(d) \/ CtxDone(d) \/ Finish(d)
                     \/ (\E x \in Extensions : Extend(d, x))
            PROVE  DequeueTakes(c)
        <4>1. CASE DequeueTakes(d)
          <5>1. \E head \in Heads(Serves(d)) : Take(d, head)
            BY <4>1, Zenon DEF DequeueTakes
          <5>2. d = c
            BY <3>1, <5>1 DEF Take
          <5> QED
            BY <4>1, <5>2
        <4>2. CASE Dequeue(d) \/ Wake(d) \/ CtxDone(d)
          <5>1. pc' = [pc EXCEPT ![d] = "scan"] \/ pc' = [pc EXCEPT ![d] = "idle"]
            BY <4>2, Zenon DEF Dequeue, Wake, CtxDone
          <5> QED
            BY <3>1, <5>1
        <4>3. CASE DequeueBlocks(d) \/ DequeueClosed(d)
          <5>1. pc' = [pc EXCEPT ![d] = "wait"] \/ pc' = [pc EXCEPT ![d] = "idle"]
            BY <4>3, Zenon DEF DequeueBlocks, DequeueClosed
          <5> QED
            BY <3>1, <5>1
        <4>4. CASE Finish(d)
          <5>1. pc' = [pc EXCEPT ![d] = "idle"]
            BY <4>4, Zenon DEF Finish, Ack, Nack, Forget, Release
          <5> QED
            BY <3>1, <5>1
        <4>5. CASE \E x \in Extensions : Extend(d, x)
          <5>1. pc' = pc
            BY <4>5, Zenon DEF Extend
          <5> QED
            BY <5>1
        <4> QED
          BY <3>3, <4>1, <4>2, <4>3, <4>4, <4>5, ZenonT(60) DEF Scan
      <3>4. ASSUME NEW e \in Engine, Worker(e) \/ Close(e) PROVE FALSE
        <4>1. pc' = pc
          BY <3>4, ZenonT(60) DEF Worker, Close
        <4> QED
          BY <4>1
      <3>5. ~Tick
        BY DEF Tick
      <3> QED
        BY <3>2, <3>3, <3>4, <3>5, Zenon DEF Next
    <2>2. PICK head \in Heads(Serves(c)) : Take(c, head)
      BY <2>1, Zenon DEF DequeueTakes
    <2>3. held'[c] = head
      BY <2>2 DEF TypeOK, Take
    <2>4. m \in {n \in InHeap(Serves(c)) : ~Expired(n)}
      BY QueueAssumption, Zenon DEF InHeap
    <2>5. ~Less(m, head)
      BY <2>2, <2>4, Zenon DEF Heads
    <2> QED
      BY <2>3, <2>5 DEF Less
  <1>2. Spec => [][Respected]_vars
    BY <1>1, TypeCorrect, PTL DEF Spec
  <1> QED
    BY <1>2, Zenon DEF PriorityRespected
==============================================================================
