----------------------------- MODULE QueueEngine -----------------------------
(***************************************************************************)
(* A task queue with its dead-letter queue: internal/queue/queue.go and    *)
(* dedup.go, behind queue/queue.go.  Producers enqueue, consumers dequeue, *)
(* acknowledge, reject, extend or forget; a worker per engine gives leases *)
(* up that ran out.  A step is one section under q.mu, or what a goroutine *)
(* does between two of them.                                               *)
(*                                                                         *)
(* Time is relative: VisibleAt and ExpireAt are kept as the time left, and *)
(* Tick lets it run down to 0.  So the order of two visible messages of    *)
(* one priority is left open.                                              *)
(***************************************************************************)
EXTENDS Integers

CONSTANTS
  Message,        \* the messages producers may enqueue
  High,           \* those of the higher of two priorities
  Tagged,         \* those enqueued with one and the same DedupID
  Consumer,       \* goroutines that call Dequeue
  DlqConsumer,    \* those that do so on the dead-letter queue
  NoMessage,      \* not a message
  MaxRetries,     \* msg.MaxRetries
  DedupWindow,    \* cfg.DedupWindow
  Lease,          \* the visibility timeout
  Delays,         \* the delays messages are enqueued with
  TTLs,           \* the times to live messages are enqueued with, besides none
  Extensions,     \* the durations Extend is called with
  Closing         \* whether Close is called

ASSUME QueueAssumption ==
  /\ High \subseteq Message /\ Tagged \subseteq Message
  /\ DlqConsumer \subseteq Consumer
  /\ NoMessage \notin Message
  /\ MaxRetries \in Nat \ {0} /\ DedupWindow \in Nat \ {0} /\ Lease \in Nat \ {0}
  /\ Delays \subseteq Nat /\ TTLs \subseteq Nat \ {0} /\ Extensions \subseteq Nat \ {0}
  /\ Closing \in BOOLEAN

Engine == {"main", "dlq"}

\* ExpireAt is 0: the message does not expire.
NoTTL == -1

VARIABLES
  ready,      \* readyHeap of each engine: how often a message is in it
  inFlight,   \* inFlight of each engine
  notifyCh,   \* whether the channel of each engine holds its one token
  closed,     \* closed of each engine
  tree,       \* the B+Tree of the main engine: the message images in it
  entry,      \* dedup.entries of the main engine: time left, 0 if none
  due,        \* msg.VisibleAt, as time left
  ttl,        \* msg.ExpireAt, as time left, or NoTTL
  retry,      \* msg.RetryCount
  bound,      \* the engine the callbacks of the message lead to
  sent,       \* where the producer of the message is in Enqueue
  pc,         \* where each consumer is in Dequeue
  held,       \* the message a consumer works on
  age,        \* history: time since a tagged message passed CheckOrSet
  acked,      \* history: messages an Ack removed
  expired,    \* history: messages removed because their TTL ran out
  dropped     \* history: messages that left without an Ack or a queue to go to

engines == <<ready, inFlight, notifyCh, closed, tree>>
fields == <<due, ttl, retry, bound>>
history == <<acked, expired, dropped>>
vars == <<engines, entry, fields, sent, pc, held, age, history>>

NoImage == [state |-> "none", retry |-> 0]

TypeOK ==
  /\ ready \in [Engine -> [Message -> 0..2]]
  /\ inFlight \in [Engine -> SUBSET Message]
  /\ notifyCh \in [Engine -> BOOLEAN]
  /\ closed \in [Engine -> BOOLEAN]
  /\ tree \in [Message -> [state : {"none", "ready", "invisible"}, retry : 0..MaxRetries]]
  /\ entry \in 0..DedupWindow
  /\ due \in [Message -> Nat]
  /\ ttl \in [Message -> Nat \cup {NoTTL}]
  /\ retry \in [Message -> 0..MaxRetries + 1]
  /\ bound \in [Message -> Engine]
  /\ sent \in [Message -> {"new", "admitted", "accepted", "refused"}]
  /\ pc \in [Consumer -> {"idle", "scan", "wait", "busy"}]
  /\ held \in [Consumer -> Message \cup {NoMessage}]
  /\ age \in [Message -> 0..DedupWindow]
  /\ acked \subseteq Message /\ expired \subseteq Message /\ dropped \subseteq Message

\* NewQueueEngine with an empty tree.
Init ==
  /\ ready = [e \in Engine |-> [m \in Message |-> 0]]
  /\ inFlight = [e \in Engine |-> {}]
  /\ notifyCh = [e \in Engine |-> FALSE]
  /\ closed = [e \in Engine |-> FALSE]
  /\ tree = [m \in Message |-> NoImage]
  /\ entry = 0
  /\ due = [m \in Message |-> 0]
  /\ ttl = [m \in Message |-> NoTTL]
  /\ retry = [m \in Message |-> 0]
  /\ bound = [m \in Message |-> "main"]
  /\ sent = [m \in Message |-> "new"]
  /\ pc = [c \in Consumer |-> "idle"]
  /\ held = [c \in Consumer |-> NoMessage]
  /\ age = [m \in Message |-> DedupWindow]
  /\ acked = {} /\ expired = {} /\ dropped = {}

Serves(c) == IF c \in DlqConsumer THEN "dlq" ELSE "main"

\* The tree after engine e removed the messages S.
Gone(e, S) == [m \in Message |-> IF e = "main" /\ m \in S THEN NoImage ELSE tree[m]]

-----------------------------------------------------------------------------
(* Enqueue *)

\* A faulty CheckOrSet: the entry is not recorded.
CheckWithoutSet(m) == entry' = entry

\* Deduplicator.CheckOrSet.  Its cleanup removes only entries with no time left.
CheckOrSet(m) == entry' = IF entry > 0 THEN entry ELSE DedupWindow

\* Enqueue up to q.mu: the deduplication.
EnqueueCheck(m) ==
  /\ sent[m] = "new"
  /\ IF m \in Tagged
       THEN /\ CheckOrSet(m)
            /\ sent' = [sent EXCEPT ![m] = IF entry > 0 THEN "refused" ELSE "admitted"]
            /\ age' = [age EXCEPT ![m] = IF entry > 0 THEN @ ELSE 0]
       ELSE /\ sent' = [sent EXCEPT ![m] = "admitted"]
            /\ UNCHANGED <<entry, age>>
  /\ UNCHANGED <<engines, fields, pc, held, history>>

\* Enqueue under q.mu.
Enqueue(m, delay, life) ==
  /\ sent[m] = "admitted"
  /\ ~closed["main"]
  /\ sent' = [sent EXCEPT ![m] = "accepted"]
  /\ due' = [due EXCEPT ![m] = delay]
  /\ ttl' = [ttl EXCEPT ![m] = life]
  /\ bound' = [bound EXCEPT ![m] = "main"]
  /\ tree' = [tree EXCEPT ![m] = [state |-> "ready", retry |-> retry[m]]]
  /\ ready' = [ready EXCEPT !["main"][m] = @ + 1]
  /\ notifyCh' = [notifyCh EXCEPT !["main"] = TRUE]
  /\ UNCHANGED <<inFlight, closed, entry, retry, pc, held, age, history>>

EnqueueClosed(m) ==
  /\ sent[m] = "admitted"
  /\ closed["main"]
  /\ sent' = [sent EXCEPT ![m] = "refused"]
  /\ UNCHANGED <<engines, entry, fields, pc, held, age, history>>

-----------------------------------------------------------------------------
(* Dequeue *)

Dequeue(c) ==
  /\ pc[c] = "idle"
  /\ pc' = [pc EXCEPT ![c] = "scan"]
  /\ UNCHANGED <<engines, entry, fields, sent, held, age, history>>

InHeap(e) == {m \in Message : ready[e][m] > 0}

Expired(m) == ttl[m] = 0

\* A faulty Less: the priority is ignored.
LessByTime(a, b) == due[a] < due[b]

\* priorityHeap.Less: the higher priority, then the earlier VisibleAt.
Less(a, b) ==
  \/ a \in High /\ b \notin High
  \/ (a \in High <=> b \in High) /\ due[a] < due[b]

\* What the scan of Dequeue pops of the expired messages before it stops at
\* head: those ahead of it, and perhaps those that tie with it.
Pops(e, head) ==
  LET old == {m \in InHeap(e) : Expired(m)}
  IN {P \in SUBSET old : \A m \in old : /\ Less(m, head) => m \in P
                                        /\ Less(head, m) => m \notin P}

\* The messages the scan may stop at.
Heads(e) ==
  LET live == {m \in InHeap(e) : ~Expired(m)}
  IN {m \in live : \A other \in live : ~Less(other, m)}

Popped(e, P) ==
  /\ tree' = Gone(e, P)
  /\ expired' = expired \cup P

Take(c, m) ==
  /\ pc' = [pc EXCEPT ![c] = "busy"]
  /\ held' = [held EXCEPT ![c] = m]

\* The scan ends with a message that is visible: it is leased to the consumer.
DequeueTakes(c) ==
  LET e == Serves(c)
  IN /\ pc[c] = "scan" /\ ~closed[e]
     /\ \E head \in Heads(e) : \E P \in Pops(e, head) :
          /\ due[head] = 0
          /\ ready' = [ready EXCEPT ![e] = [m \in Message |->
                         IF m \in P THEN 0 ELSE IF m = head THEN @[m] - 1 ELSE @[m]]]
          /\ inFlight' = [inFlight EXCEPT ![e] = @ \cup {head}]
          /\ retry' = [retry EXCEPT ![head] = @ + 1]
          /\ due' = [due EXCEPT ![head] = Lease]
          /\ bound' = [bound EXCEPT ![head] = e]
          /\ tree' = [Gone(e, P) EXCEPT ![head] =
                        IF e = "main" THEN [state |-> "invisible", retry |-> retry[head] + 1] ELSE @]
          /\ expired' = expired \cup P
          /\ Take(c, head)
     /\ UNCHANGED <<notifyCh, closed, entry, ttl, sent, age, acked, dropped>>

\* The scan ends with a delayed message or with none: Dequeue goes to its select.
DequeueBlocks(c) ==
  LET e == Serves(c)
  IN /\ pc[c] = "scan" /\ ~closed[e]
     /\ \/ /\ Heads(e) = {}
           /\ ready' = [ready EXCEPT ![e] = [m \in Message |-> 0]]
           /\ Popped(e, InHeap(e))
        \/ \E head \in Heads(e) : \E P \in Pops(e, head) :
             /\ due[head] > 0
             /\ ready' = [ready EXCEPT ![e] = [m \in Message |-> IF m \in P THEN 0 ELSE @[m]]]
             /\ Popped(e, P)
     /\ pc' = [pc EXCEPT ![c] = "wait"]
     /\ UNCHANGED <<inFlight, notifyCh, closed, entry, fields, sent, held, age, acked, dropped>>

DequeueClosed(c) ==
  /\ pc[c] = "scan" /\ closed[Serves(c)]
  /\ pc' = [pc EXCEPT ![c] = "idle"]
  /\ UNCHANGED <<engines, entry, fields, sent, held, age, history>>

\* The select of Dequeue receives from notifyCh.
Wake(c) ==
  /\ pc[c] = "wait"
  /\ notifyCh[Serves(c)]
  /\ notifyCh' = [notifyCh EXCEPT ![Serves(c)] = FALSE]
  /\ pc' = [pc EXCEPT ![c] = "scan"]
  /\ UNCHANGED <<ready, inFlight, closed, tree, entry, fields, sent, held, age, history>>

\* The select of Dequeue finds its context done.
CtxDone(c) ==
  /\ pc[c] = "wait"
  /\ pc' = [pc EXCEPT ![c] = "idle"]
  /\ UNCHANGED <<engines, entry, fields, sent, held, age, history>>

-----------------------------------------------------------------------------
(* Ack, Nack, Extend and the visibility worker *)

Release(c) ==
  /\ pc' = [pc EXCEPT ![c] = "idle"]
  /\ held' = [held EXCEPT ![c] = NoMessage]

\* A faulty Leaving: a dead message stays in the map.
LeavingBackOnly(dead, back) == back

\* The messages that leave the in-flight map.
Leaving(dead, back) == dead \cup back

\* A faulty Notified: what goes back to the heap wakes no one.
NotifiedDlqOnly(e, back, routed) == [notifyCh EXCEPT !["dlq"] = @ \/ routed # {}]

\* notify, where messages go back to the heap of e or on to the dead-letter queue
Notified(e, back, routed) ==
  [f \in Engine |-> notifyCh[f] \/ (f = e /\ back # {}) \/ (f = "dlq" /\ routed # {})]

\* Engine e gives up its messages dead and back: the first go to the dead-letter
\* queue, which refuses them when it is closed and which has none of its own;
\* the second go back to the ready heap.
Settle(e, dead, back) ==
  LET routed == IF e = "main" /\ ~closed["dlq"] THEN dead ELSE {}
      joins(f, m) == (f = e /\ m \in back) \/ (f = "dlq" /\ m \in routed)
  IN /\ inFlight' = [inFlight EXCEPT ![e] = @ \ Leaving(dead, back)]
     /\ ready' = [f \in Engine |-> [m \in Message |-> IF joins(f, m) THEN ready[f][m] + 1 ELSE ready[f][m]]]
     /\ notifyCh' = Notified(e, back, routed)
     /\ due' = [m \in Message |-> IF m \in routed \cup back THEN 0 ELSE due[m]]
     /\ bound' = [m \in Message |-> IF m \in routed THEN "dlq" ELSE bound[m]]
     /\ tree' = [m \in Message |-> IF e = "main" /\ m \in back
                                    THEN [state |-> "ready", retry |-> retry[m]]
                                    ELSE Gone(e, dead)[m]]
     /\ dropped' = dropped \cup (dead \ routed)

\* The callbacks look the message up by its id: a consumer whose lease ran out
\* finds the message of a later lease.
Finds(c) == held[c] \in inFlight[bound[held[c]]]

\* A faulty Ack: the tree keeps the message.
AckKeepingImage(c) ==
  LET m == held[c]
      e == bound[m]
  IN /\ pc[c] = "busy" /\ Finds(c)
     /\ inFlight' = [inFlight EXCEPT ![e] = @ \ {m}]
     /\ acked' = acked \cup {m}
     /\ Release(c)
     /\ UNCHANGED <<ready, notifyCh, closed, tree, entry, fields, sent, age, expired, dropped>>

Ack(c) ==
  LET m == held[c]
      e == bound[m]
  IN /\ pc[c] = "busy" /\ Finds(c)
     /\ inFlight' = [inFlight EXCEPT ![e] = @ \ {m}]
     /\ tree' = Gone(e, {m})
     /\ acked' = acked \cup {m}
     /\ Release(c)
     /\ UNCHANGED <<ready, notifyCh, closed, entry, fields, sent, age, expired, dropped>>

\* A faulty Nack: the count of deliveries is ignored.
NackUnlimited(c, requeue) ==
  LET m == held[c]
      e == bound[m]
  IN /\ pc[c] = "busy" /\ Finds(c)
     /\ IF requeue THEN Settle(e, {}, {m}) ELSE Settle(e, {m}, {})
     /\ Release(c)
     /\ UNCHANGED <<closed, entry, ttl, retry, sent, age, acked, expired>>

\* Nack(requeue)
Nack(c, requeue) ==
  LET m == held[c]
      e == bound[m]
  IN /\ pc[c] = "busy" /\ Finds(c)
     /\ IF ~requeue \/ retry[m] >= MaxRetries THEN Settle(e, {m}, {}) ELSE Settle(e, {}, {m})
     /\ Release(c)
     /\ UNCHANGED <<closed, entry, ttl, retry, sent, age, acked, expired>>

\* Ack or Nack returns ErrMessageNotFound, or the consumer dies.
Forget(c) ==
  /\ pc[c] = "busy"
  /\ Release(c)
  /\ UNCHANGED <<engines, entry, fields, sent, age, history>>

\* VisibleAt is part of the image too, but not of the one kept here.
Extend(c, d) ==
  /\ pc[c] = "busy" /\ Finds(c)
  /\ due' = [due EXCEPT ![held[c]] = d]
  /\ UNCHANGED <<engines, entry, ttl, retry, bound, sent, pc, held, age, history>>

\* A faulty Worker: the count of deliveries is ignored.
WorkerRequeues(e) ==
  LET over == {m \in inFlight[e] : due[m] = 0}
  IN /\ ~closed[e]
     /\ over # {}
     /\ Settle(e, {}, over)
     /\ UNCHANGED <<closed, entry, ttl, retry, sent, pc, held, age, acked, expired>>

\* A faulty Worker: the last lease is not given up.
WorkerSkipsLast(e) ==
  LET over == {m \in inFlight[e] : due[m] = 0 /\ retry[m] < MaxRetries}
  IN /\ ~closed[e]
     /\ over # {}
     /\ Settle(e, {}, over)
     /\ UNCHANGED <<closed, entry, ttl, retry, sent, pc, held, age, acked, expired>>

\* checkInFlightAndDelayed
Worker(e) ==
  LET over == {m \in inFlight[e] : due[m] = 0}
      dead == {m \in over : retry[m] >= MaxRetries}
  IN /\ ~closed[e]
     /\ over # {}
     /\ Settle(e, dead, over \ dead)
     /\ UNCHANGED <<closed, entry, ttl, retry, sent, pc, held, age, acked, expired>>

\* Close; the one of the main engine goes on to close the dead-letter queue,
\* which its own handle may close earlier.
Close(e) ==
  /\ Closing
  /\ ~closed[e]
  /\ closed' = [closed EXCEPT ![e] = TRUE]
  /\ UNCHANGED <<ready, inFlight, notifyCh, tree, entry, fields, sent, pc, held, age, history>>

Less1(n) == IF n > 0 THEN n - 1 ELSE n

\* Time passes.
Tick ==
  /\ due' = [m \in Message |-> Less1(due[m])]
  /\ ttl' = [m \in Message |-> Less1(ttl[m])]
  /\ entry' = Less1(entry)
  /\ age' = [m \in Message |-> IF age[m] < DedupWindow THEN age[m] + 1 ELSE age[m]]
  /\ UNCHANGED <<engines, retry, bound, sent, pc, held, history>>

Producer(m) ==
  \/ EnqueueCheck(m)
  \/ \E delay \in Delays, life \in TTLs \cup {NoTTL} : Enqueue(m, delay, life)
  \/ EnqueueClosed(m)

Scan(c) == DequeueTakes(c) \/ DequeueBlocks(c) \/ DequeueClosed(c)

Finish(c) == Ack(c) \/ (\E requeue \in BOOLEAN : Nack(c, requeue)) \/ Forget(c)

Next ==
  \/ \E m \in Message : Producer(m)
  \/ \E c \in Consumer : \/ Dequeue(c) \/ Scan(c) \/ Wake(c) \/ CtxDone(c) \/ Finish(c)
                         \/ \E d \in Extensions : Extend(c, d)
  \/ \E e \in Engine : Worker(e) \/ Close(e)
  \/ Tick

Spec == Init /\ [][Next]_vars

\* The clock runs, the workers tick, and a goroutine in Dequeue goes on.
EngineFairness ==
  /\ WF_vars(Tick)
  /\ \A e \in Engine : WF_vars(Worker(e))
  /\ \A c \in Consumer : WF_vars(Scan(c) \/ Wake(c))

FairSpec == Spec /\ EngineFairness

\* The consumers poll: they call Dequeue again and again, with a context that
\* ends, and do not work on a message for ever.
PollingSpec ==
  /\ FairSpec
  /\ \A c \in Consumer : WF_vars(Dequeue(c) \/ CtxDone(c) \/ Finish(c))

-----------------------------------------------------------------------------
(* Properties *)

Count(m, S) == IF m \in S THEN 1 ELSE 0

Places(m) ==
  ready["main"][m] + ready["dlq"][m] + Count(m, inFlight["main"]) + Count(m, inFlight["dlq"])
    + Count(m, acked) + Count(m, expired) + Count(m, dropped)

\* Whatever leases run out, acknowledgements come late and engines close: an
\* accepted message is in exactly one heap or in-flight map, or left once.
ExactlyOnePlace ==
  \A m \in Message : Places(m) = IF sent[m] = "accepted" THEN 1 ELSE 0

\* The B+Tree holds exactly the messages that are ready or in flight in the
\* main engine, with the state and the count they have in memory: what
\* restoreFromTree would bring back is what was unfinished.
TreeFollowsQueue ==
  \A m \in Message :
    tree[m] = IF m \in inFlight["main"] THEN [state |-> "invisible", retry |-> retry[m]]
              ELSE IF ready["main"][m] > 0 THEN [state |-> "ready", retry |-> retry[m]]
              ELSE NoImage

\* A message is delivered at most MaxRetries times by the main engine and, all
\* in all, at most once more by the dead-letter queue, however its leases end.
AttemptsBounded ==
  \A m \in Message :
    /\ retry[m] <= MaxRetries + 1
    /\ ready["main"][m] > 0 => retry[m] < MaxRetries
    /\ m \in inFlight["main"] => retry[m] <= MaxRetries

\* CheckOrSet: of the messages with one DedupID, one passes per window.
OnePerWindow ==
  \A a, b \in Tagged : age[a] < DedupWindow /\ age[b] < DedupWindow => a = b

\* A delivery never overtakes a visible message of higher priority.
PriorityRespected ==
  [][\A c \in Consumer : pc[c] = "scan" /\ pc'[c] = "busy" /\ held'[c] \notin High =>
       \A m \in High : ready[Serves(c)][m] > 0 => due[m] > 0 \/ Expired(m)]_vars

\* Where consumers poll, every accepted message leaves the main engine: it is
\* acknowledged, expires, or its deliveries run out.
MessagesLeave ==
  \A m \in Message :
    sent[m] = "accepted" ~> ready["main"][m] = 0 /\ m \notin inFlight["main"]

Available(e) == \E m \in InHeap(e) : due[m] = 0 /\ ~Expired(m)

\* Where nothing is delayed, the consumers of an engine never all sleep beside a
\* visible message: the one place of notifyCh, the leases that run out and Nack
\* between them always leave a token, however many messages share it.
NoLostWakeup ==
  Delays = {0} =>
    \A e \in Engine :
      /\ ~closed[e]
      /\ \A c \in Consumer : Serves(c) = e => pc[c] = "wait"
      /\ Available(e)
      => notifyCh[e]
==============================================================================
