--------------------------- MODULE DashboardProofs ---------------------------
(***************************************************************************)
(* Proofs about Dashboard, for any number of connections, any length of a  *)
(* history and any number of operations and restarts.                      *)
(***************************************************************************)
EXTENDS Dashboard, TLAPS

\* The provers, with their limits in seconds, of the leaves that name none.
USE SMTT(30), SMTT(40)

-----------------------------------------------------------------------------
(* The inductive invariant *)

\* While collectors do not overlap, one is between its Stats and its lock, and
\* has read no less than the last rate was computed from.
OneReads ==
  ~overlapped =>
    \A k \in Collector : collector[k].at = "read" =>
      /\ last <= collector[k].ops
      /\ \A j \in Collector : collector[j].at = "read" => j = k

\* What a collector has read, and what is on a wire or on display, is not ahead
\* of the engine.
NotAhead ==
  /\ \A k \in Collector : collector[k].at = "read" => collector[k].ops <= ops
  /\ telemetry.run <= run
  /\ telemetry.run = run => telemetry.ops <= ops
  /\ \A k \in Conn : wire[k].full => wire[k].sample.run = run /\ wire[k].sample.ops <= ops

\* A handler collects the next sample when the last was sent; without one there
\* is nothing on the wire.
WirePaced ==
  \A k \in Conn : collector[k].at \in {"read", "free"} => ~wire[k].full

\* What comes over the page's connection is not behind what it shows.
NotBehind ==
  source # 0 /\ ~broken /\ telemetry.run = run =>
    /\ collector[source].at = "read" => telemetry.ops <= collector[source].ops
    /\ wire[source].full => telemetry.ops <= wire[source].sample.ops

\* The button is disabled for as long as its request is in flight.
OneProbe == probing = IF benchmarking THEN 1 ELSE 0

IInv ==
  /\ TypeOK /\ OneStream /\ HistoriesAligned /\ CountedOnce
  /\ OneReads /\ NotAhead /\ WirePaced /\ NotBehind /\ OneProbe

-----------------------------------------------------------------------------
(* The histories *)

\* A remainder that is the number itself.
LEMMA ModSmall ==
  ASSUME NEW m \in Nat, NEW a \in Int, 0 <= a, a < m
  PROVE  a % m = a
  OBVIOUS

\* The remainder of a small negative number.
LEMMA ModBelow ==
  ASSUME NEW m \in Nat, NEW a \in Int, a < 0, 0 <= a + m
  PROVE  a % m = a + m
  OBVIOUS

\* The message number that follows st is one further from an earlier one.
LEMMA ModNext ==
  ASSUME NEW m \in Nat, NEW st \in 0..(m - 1), NEW d \in Nat, d + 1 < m
  PROVE  /\ (((st + 1) % m) - (d + 1)) % m = (st - d) % m
         /\ (st + 1) % m \in 0..(m - 1)
  <1>1. CASE st + 1 < m
    <2>1. (st + 1) % m = st + 1
      BY <1>1, ModSmall
    <2>2. (st + 1) - (d + 1) = st - d
      OBVIOUS
    <2> QED
      BY <1>1, <2>1, <2>2
  <1>2. CASE st + 1 = m
    <2>1. (st + 1) % m = 0
      BY <1>2
    <2>2. (0 - (d + 1)) % m = (0 - (d + 1)) + m
      BY ModBelow
    <2>3. (st - d) % m = st - d
      BY <1>2, ModSmall
    <2> QED
      BY <1>2, <2>1, <2>2, <2>3
  <1> QED
    BY <1>1, <1>2

\* The number of the message after st, and of the one d before it.
Following(st) == (st + 1) % Modulus
Before(st, d) == (st - d) % Modulus

\* How the two combine.
LEMMA NumbersCombine ==
  ASSUME NEW st \in 0..(Modulus - 1)
  PROVE  /\ Following(st) \in 0..(Modulus - 1)
         /\ Before(Following(st), 0) = Following(st)
         /\ \A d \in Nat : d + 1 < Modulus => Before(Following(st), d + 1) = Before(st, d)
  <1>0. Modulus \in Nat /\ Modulus > 1 /\ 0 \in Nat /\ 0 + 1 < Modulus
    BY DashboardAssumption
  <1>1. Following(st) \in 0..(Modulus - 1)
    BY <1>0, ModNext, Zenon DEF Following
  <1>2. Before(Following(st), 0) = Following(st)
    <2> DEFINE f == Following(st)
    <2> HIDE DEF f
    <2>1. f \in 0..(Modulus - 1)
      BY <1>1 DEF f
    <2>2. f - 0 = f /\ f \in Int /\ 0 <= f /\ f < Modulus
      BY <1>0, <2>1
    <2>3. f % Modulus = f
      BY <1>0, <2>2, ModSmall, Zenon
    <2> QED
      BY <2>2, <2>3, Zenon DEF Before, f
  <1>3. \A d \in Nat : d + 1 < Modulus => Before(Following(st), d + 1) = Before(st, d)
    BY <1>0, ModNext, Zenon DEF Before, Following
  <1> QED
    BY <1>1, <1>2, <1>3

\* History h holds the last g messages up to number st.
Aligned(h, g, st) == Len(h) = g /\ \A i \in 1..g : h[i] = Before(st, g - i)

\* How many messages a history holds after one more.
More(g) == IF g < HistoryLength THEN g + 1 ELSE g

\* A message pushed on a history that holds the last ones.
LEMMA PushedAligned ==
  ASSUME NEW h \in Seq(0..(Modulus - 1)), NEW g \in 0..HistoryLength,
         NEW st \in 0..(Modulus - 1), Aligned(h, g, st)
  PROVE  /\ Pushed(h, Following(st)) \in Seq(0..(Modulus - 1))
         /\ Aligned(Pushed(h, Following(st)), More(g), Following(st))
  <1> DEFINE st1 == Following(st)
             g1 == More(g)
  <1>a. /\ Len(h) = g /\ \A i \in 1..g : h[i] = Before(st, g - i)
        /\ g1 = IF g < HistoryLength THEN g + 1 ELSE g
    BY Zenon DEF Aligned, More
  <1>0. Modulus \in Nat /\ HistoryLength \in Nat /\ HistoryLength > 1 /\ Modulus > HistoryLength + 1
    BY DashboardAssumption
  <1>1. st1 \in 0..(Modulus - 1)
    BY NumbersCombine
  <1>2. \A d \in Nat : d + 1 < Modulus => Before(st1, d + 1) = Before(st, d)
    BY NumbersCombine
  <1>3. Before(st1, 0) = st1
    BY NumbersCombine
  <1> HIDE DEF st1, g1
  <1>4. CASE g = HistoryLength
    <2> DEFINE t == SubSeq(h, 2, g)
    <2>1. t \in Seq(0..(Modulus - 1)) /\ Len(t) = g - 1 /\ \A i \in 1..g - 1 : t[i] = h[i + 1]
      BY <1>a, <1>0, <1>4
    <2>2. Pushed(h, st1) = Append(t, st1)
      BY <1>a, <1>4, Zenon DEF Pushed
    <2> HIDE DEF t
    <2>3. /\ Pushed(h, st1) \in Seq(0..(Modulus - 1)) /\ Len(Pushed(h, st1)) = g
          /\ \A i \in 1..g - 1 : Pushed(h, st1)[i] = t[i]
          /\ Pushed(h, st1)[g] = st1
      BY <1>0, <1>1, <1>4, <2>1, <2>2
    <2>4. g1 = g
      BY <1>a, <1>0, <1>4
    <2>5. ASSUME NEW i \in 1..g1 PROVE Pushed(h, st1)[i] = Before(st1, g1 - i)
      <3>1. CASE i = g
        <4>1. g1 - i = 0
          BY <1>0, <2>4, <3>1
        <4> QED
          BY <1>3, <2>3, <3>1, <4>1
      <3>2. CASE i # g
        <4> DEFINE d == g - (i + 1)
        <4>1. i \in 1..g - 1 /\ i + 1 \in 1..g /\ d \in Nat /\ d + 1 < Modulus /\ d + 1 = g1 - i
          BY <1>0, <1>4, <2>4, <3>2
        <4>2. Pushed(h, st1)[i] = Before(st, d)
          BY <1>a, <2>1, <2>3, <4>1
        <4> QED
          BY <1>2, <4>1, <4>2
      <3> QED
        BY <3>1, <3>2
    <2> QED
      BY <2>3, <2>4, <2>5, Zenon DEF Aligned, st1, g1
  <1>5. CASE g # HistoryLength
    <2>1. SubSeq(h, 1, g) = h
      BY <1>a, <1>0
    <2>2. Pushed(h, st1) = Append(h, st1)
      BY <1>a, <1>5, <2>1, Zenon DEF Pushed
    <2>3. g1 = g + 1
      BY <1>a, <1>0, <1>5
    <2>4. /\ Pushed(h, st1) \in Seq(0..(Modulus - 1)) /\ Len(Pushed(h, st1)) = g1
          /\ \A i \in 1..g : Pushed(h, st1)[i] = h[i]
          /\ Pushed(h, st1)[g1] = st1
      BY <1>a, <1>0, <1>1, <2>2, <2>3
    <2>5. ASSUME NEW i \in 1..g1 PROVE Pushed(h, st1)[i] = Before(st1, g1 - i)
      <3>1. CASE i = g1
        <4>1. g1 - i = 0
          BY <1>0, <2>3, <3>1
        <4> QED
          BY <1>3, <2>4, <3>1, <4>1
      <3>2. CASE i # g1
        <4> DEFINE d == g - i
        <4>1. i \in 1..g /\ d \in Nat /\ d + 1 < Modulus /\ d + 1 = g1 - i
          BY <1>0, <1>5, <2>3, <3>2
        <4>2. Pushed(h, st1)[i] = Before(st, d)
          BY <1>a, <2>4, <4>1
        <4> QED
          BY <1>2, <4>1, <4>2
      <3> QED
        BY <3>1, <3>2
    <2> QED
      BY <2>4, <2>5, Zenon DEF Aligned, st1, g1
  <1> QED
    BY <1>4, <1>5

-----------------------------------------------------------------------------
(* Types *)

\* The constants are numbers.
LEMMA Bounds ==
  /\ Conns \in Nat /\ Conns > 0 /\ MaxOps \in Nat /\ MaxRestarts \in Nat
  /\ HistoryLength \in Nat /\ HistoryLength > 1 /\ Modulus \in Nat /\ Modulus > 1
  BY DashboardAssumption

\* What TypeOK says of the fields.
LEMMA Fields ==
  ASSUME TypeOK
  PROVE  /\ ops \in Int /\ last \in Int /\ run \in Int /\ counted \in Int /\ timers \in Int
         /\ \A k \in Collector : collector[k].at \in {"free", "idle", "read"} /\ collector[k].ops \in 0..MaxOps
         /\ \A k \in Collector : collector[k].ops \in Int
         /\ \A k \in Conn : wire[k].full \in BOOLEAN /\ wire[k].sample \in Sample
         /\ \A k \in Conn : wire[k].sample.run \in Int /\ wire[k].sample.ops \in Int
         /\ telemetry.run \in Int /\ telemetry.ops \in Int
         /\ \A k \in Conn : k \in Collector /\ k # 0
         /\ source # 0 => source \in Conn
  <1>1. ops \in Int /\ last \in Int /\ run \in Int /\ counted \in Int /\ timers \in Int
    BY Bounds DEF TypeOK
  <1>2. collector \in [Collector -> [at : {"free", "idle", "read"}, ops : 0..MaxOps]]
    BY Zenon DEF TypeOK
  <1>3. wire \in [Conn -> [full : BOOLEAN, sample : Sample]] /\ telemetry \in Sample
    BY Zenon DEF TypeOK
  <1>4. \A k \in Collector : collector[k].at \in {"free", "idle", "read"} /\ collector[k].ops \in 0..MaxOps
    BY <1>2
  <1>5. \A k \in Conn : wire[k].full \in BOOLEAN /\ wire[k].sample \in Sample
    BY <1>3
  <1>6. \A s \in Sample : s.run \in Int /\ s.ops \in Int
    BY Bounds DEF Sample
  <1>7. 0..MaxOps \subseteq Int
    BY Bounds
  <1>8. (\A k \in Conn : k \in Collector /\ k # 0) /\ (source # 0 => source \in Conn)
    BY Bounds DEF Conn, Collector, TypeOK
  <1> QED
    BY <1>1, <1>3, <1>4, <1>5, <1>6, <1>7, <1>8, Zenon

\* The initial state
LEMMA InitIInv == Init => IInv
  <1> SUFFICES ASSUME Init PROVE IInv
    OBVIOUS
  <1>1. /\ ops = 0 /\ last = 0 /\ counted = 0 /\ overlapped = FALSE /\ run = 0
        /\ source = 1 /\ broken = FALSE /\ timers = 0 /\ connected = FALSE
        /\ fresh = FALSE /\ got = 0 /\ stamp = 0 /\ benchmarking = FALSE /\ probing = 0
        /\ history = [s \in Series |-> <<>>] /\ telemetry = NoSample
    BY DEF Init
  <1>2. \A k \in Collector : collector[k] \in {Idle, Free}
    BY DEF Init
  <1>3. \A k \in Conn : wire[k] = Empty
    BY DEF Init
  <1>4. Idle.at = "idle" /\ Free.at = "free" /\ ~Empty.full /\ NoSample.run = 0 /\ NoSample.ops = 0
    BY DEF Idle, Free, Empty, NoSample
  <1>5. TypeOK
    <2>1. Idle \in [at : {"free", "idle", "read"}, ops : 0..MaxOps] /\ Free \in [at : {"free", "idle", "read"}, ops : 0..MaxOps]
      BY Bounds DEF Idle, Free
    <2>2. collector \in [Collector -> [at : {"free", "idle", "read"}, ops : 0..MaxOps]]
      BY <2>1, Zenon DEF Init
    <2>3. NoSample \in Sample /\ Empty \in [full : BOOLEAN, sample : Sample]
      BY Bounds DEF NoSample, Sample, Empty
    <2>4. wire \in [Conn -> [full : BOOLEAN, sample : Sample]]
      BY <2>3, Zenon DEF Init
    <2>5. history \in [Series -> Seq(0..(Modulus - 1))]
      BY <1>1
    <2>6. 0 \in 0..MaxOps /\ 0 \in 0..MaxRestarts /\ 1 \in 0..Conns /\ 0 \in 0..HistoryLength /\ 0 \in 0..(Modulus - 1)
          /\ 0 \in Nat /\ 0 \in 0..1
      BY Bounds
    <2> QED
      BY <1>1, <2>2, <2>3, <2>4, <2>5, <2>6, Zenon DEF TypeOK
  <1>6. OneStream /\ CountedOnce /\ OneProbe
    BY <1>1 DEF OneStream, CountedOnce, OneProbe
  <1>7. HistoriesAligned
    BY <1>1 DEF HistoriesAligned
  <1>8. OneReads
    BY <1>2, <1>4 DEF OneReads
  <1>9. NotAhead
    BY <1>1, <1>2, <1>3, <1>4 DEF NotAhead
  <1>10. WirePaced
    BY <1>3, <1>4 DEF WirePaced
  <1>11. NotBehind
    <2>1. source \in Collector /\ source \in Conn
      BY <1>1, Bounds DEF Collector, Conn
    <2> QED
      BY <1>2, <1>3, <1>4, <2>1, Zenon DEF NotBehind
  <1> QED
    BY <1>5, <1>6, <1>7, <1>8, <1>9, <1>10, <1>11 DEF IInv

-----------------------------------------------------------------------------
(* The server *)

\* The conjuncts a step of the server can disturb.
ServerHolds ==
  TypeOK /\ CountedOnce /\ OneReads /\ NotAhead /\ WirePaced /\ NotBehind

\* What the steps of the server leave alone keeps the rest of the invariant.
LEMMA PageKept ==
  ASSUME IInv, ServerHolds',
         UNCHANGED <<source, timers, connected, got, stamp, history, benchmarking, probing>>
  PROVE  IInv'
  <1>1. OneStream' /\ HistoriesAligned' /\ OneProbe'
    BY Zenon DEF IInv, OneStream, HistoriesAligned, OneProbe
  <1> QED
    BY <1>1 DEF ServerHolds, IInv

\* An operation of the engine puts it further ahead.
LEMMA OperationHolds == ASSUME IInv, Operation PROVE IInv'
  <1>0. /\ ops' = ops + 1 /\ ops < MaxOps
        /\ last' = last /\ collector' = collector /\ wire' = wire /\ run' = run /\ counted' = counted
        /\ overlapped' = overlapped /\ source' = source /\ broken' = broken /\ timers' = timers
        /\ connected' = connected /\ telemetry' = telemetry /\ fresh' = fresh /\ got' = got
        /\ stamp' = stamp /\ history' = history /\ benchmarking' = benchmarking /\ probing' = probing
    BY Zenon DEF Operation, pageVars, controls
  <1>1. TypeOK'
    <2>1. ops' \in 0..MaxOps
      BY <1>0, Bounds DEF IInv, TypeOK
    <2> QED
      BY <1>0, <2>1, Zenon DEF IInv, TypeOK
  <1>2. TypeOK /\ ops \in Int /\ last \in Int
    BY Fields DEF IInv
  <1>3. \A k \in Collector : collector[k].ops \in Int
    BY <1>2, Fields
  <1>4. telemetry.ops \in Int /\ \A k \in Conn : wire[k].sample.ops \in Int
    BY <1>2, Fields
  <1>5. CountedOnce' /\ OneReads'
    BY <1>0, <1>2 DEF IInv, CountedOnce, OneReads
  <1>6. \A x \in Int : x <= ops => x <= ops'
    BY <1>0, <1>2
  <1>7. NotAhead'
    BY <1>0, <1>3, <1>4, <1>6, Zenon DEF IInv, NotAhead
  <1>8. WirePaced' /\ NotBehind'
    BY <1>0, Zenon DEF IInv, WirePaced, NotBehind
  <1> QED
    BY <1>0, <1>1, <1>5, <1>7, <1>8, PageKept, Zenon DEF ServerHolds

\* A collector reads what the engine has: no less than what was counted or shown.
LEMMA ReadStatsHolds == ASSUME IInv, NEW k \in Collector, ReadStats(k) PROVE IInv'
  <1>0. /\ collector[k] = Idle /\ (k \in Conn => ~wire[k].full)
        /\ collector' = [collector EXCEPT ![k] = [at |-> "read", ops |-> ops]]
        /\ overlapped' = (overlapped \/ \E j \in Collector \ {k} : collector[j].at = "read")
        /\ counted' = (IF overlapped' THEN 0 ELSE counted)
        /\ ops' = ops /\ last' = last /\ wire' = wire /\ run' = run
        /\ source' = source /\ broken' = broken /\ timers' = timers
        /\ connected' = connected /\ telemetry' = telemetry /\ fresh' = fresh /\ got' = got
        /\ stamp' = stamp /\ history' = history /\ benchmarking' = benchmarking /\ probing' = probing
    BY Zenon DEF ReadStats, pageVars, controls
  <1>1. TypeOK /\ ops \in Int /\ last \in Int
    BY Fields DEF IInv
  <1>2. collector \in [Collector -> [at : {"free", "idle", "read"}, ops : 0..MaxOps]] /\ ops \in 0..MaxOps
    BY <1>1, Zenon DEF TypeOK
  <1>3. /\ collector'[k].at = "read" /\ collector'[k].ops = ops
        /\ \A j \in Collector : j # k => collector'[j] = collector[j]
    BY <1>0, <1>2
  <1>4. TypeOK'
    <2>1. [at |-> "read", ops |-> ops] \in [at : {"free", "idle", "read"}, ops : 0..MaxOps]
      BY <1>2
    <2>2. collector' \in [Collector -> [at : {"free", "idle", "read"}, ops : 0..MaxOps]]
      BY <1>0, <1>2, <2>1, Zenon
    <2>3. overlapped' \in BOOLEAN /\ counted' \in Nat
      <3>1. overlapped \in BOOLEAN /\ counted \in Nat /\ 0 \in Nat
        BY <1>1 DEF TypeOK
      <3> QED
        BY <1>0, <3>1, Zenon
    <2> QED
      BY <1>0, <1>1, <2>2, <2>3, Zenon DEF TypeOK
  <1>5. ~overlapped' => ~overlapped /\ counted' = counted /\ \A j \in Collector : j # k => collector[j].at # "read"
    BY <1>0, Zenon
  <1>6. CountedOnce'
    BY <1>0, <1>5, Zenon DEF IInv, CountedOnce
  <1>7. ~overlapped => last <= ops
    BY Zenon DEF IInv, CountedOnce
  <1>8. OneReads'
    BY <1>0, <1>3, <1>5, <1>7, Zenon DEF OneReads
  <1>9. NotAhead'
    <2>1. ops <= ops
      BY <1>1
    <2> QED
      BY <1>0, <1>3, <2>1, Zenon DEF IInv, NotAhead
  <1>10. WirePaced'
    <2>1. \A j \in Conn : j \in Collector
      BY <1>1, Fields
    <2> QED
      BY <1>0, <1>3, <2>1, Zenon DEF IInv, WirePaced
  <1>11. NotBehind'
    <2>1. source # 0 => source \in Collector
      BY <1>1, Fields
    <2>2. telemetry.run = run => telemetry.ops <= ops
      BY Zenon DEF IInv, NotAhead
    <2> QED
      BY <1>0, <1>3, <2>1, <2>2, Zenon DEF IInv, NotBehind
  <1> QED
    BY <1>0, <1>4, <1>6, <1>8, <1>9, <1>10, <1>11, PageKept, Zenon DEF ServerHolds

\* What was read goes into the rate and onto the wire.
LEMMA ComputeHolds == ASSUME IInv, NEW k \in Collector, Compute(k) PROVE IInv'
  <1> DEFINE current == collector[k].ops
             sent == [full |-> TRUE, sample |-> [run |-> run, ops |-> current]]
  <1>0. /\ collector[k].at = "read" /\ last' = current
        /\ counted' = (IF current >= last /\ ~overlapped THEN counted + (current - last) ELSE counted)
        /\ collector' = [collector EXCEPT ![k] = Idle]
        /\ wire' = (IF k = 0 THEN wire ELSE [wire EXCEPT ![k] = sent])
        /\ ops' = ops /\ run' = run /\ overlapped' = overlapped
        /\ source' = source /\ broken' = broken /\ timers' = timers
        /\ connected' = connected /\ telemetry' = telemetry /\ fresh' = fresh /\ got' = got
        /\ stamp' = stamp /\ history' = history /\ benchmarking' = benchmarking /\ probing' = probing
    BY Zenon DEF Compute, pageVars, controls
  <1>1. /\ TypeOK /\ ops \in Int /\ last \in Int /\ counted \in Int
        /\ current \in 0..MaxOps /\ current \in Int /\ run \in 0..MaxRestarts
        /\ telemetry.ops \in Int
    <2>1. TypeOK /\ run \in 0..MaxRestarts
      BY Zenon DEF IInv, TypeOK
    <2> QED
      BY <2>1, Fields, Zenon
  <1>2. /\ collector \in [Collector -> [at : {"free", "idle", "read"}, ops : 0..MaxOps]]
        /\ wire \in [Conn -> [full : BOOLEAN, sample : Sample]]
    BY <1>1, Zenon DEF TypeOK
  <1>3. /\ collector'[k].at = "idle"
        /\ \A j \in Collector : j # k => collector'[j] = collector[j]
    BY <1>0, <1>2 DEF Idle
  <1>4. sent.full /\ sent.sample.run = run /\ sent.sample.ops = current /\ sent \in [full : BOOLEAN, sample : Sample]
    <2>1. [run |-> run, ops |-> current] \in Sample
      BY <1>1, Zenon DEF Sample
    <2> QED
      BY <2>1
  <1> HIDE DEF sent, current
  <1>5. \A j \in Conn : wire'[j] = wire[j] \/ (j = k /\ wire'[j] = sent)
    BY <1>0, <1>2, Zenon
  <1>6. \A j \in Conn : j # k => wire'[j] = wire[j]
    BY <1>0, <1>2, Zenon
  <1>7. current <= ops
    BY <1>0, Zenon DEF IInv, NotAhead, current
  <1>8. ~overlapped => last <= current /\ \A j \in Collector : collector[j].at = "read" => j = k
    BY <1>0, Zenon DEF IInv, OneReads, current
  <1>9. TypeOK'
    <2>1. Idle \in [at : {"free", "idle", "read"}, ops : 0..MaxOps]
      BY Bounds DEF Idle
    <2>2. collector' \in [Collector -> [at : {"free", "idle", "read"}, ops : 0..MaxOps]]
      BY <1>0, <1>2, <2>1, Zenon
    <2>3. wire' \in [Conn -> [full : BOOLEAN, sample : Sample]]
      BY <1>0, <1>2, <1>4, Zenon
    <2>4. counted' \in Nat
      <3>1. counted \in Nat
        BY <1>1 DEF TypeOK
      <3> QED
        BY <1>0, <1>1, <3>1
    <2> QED
      BY <1>0, <1>1, <2>2, <2>3, <2>4, Zenon DEF TypeOK
  <1>10. CountedOnce'
    <2>1. ~overlapped => counted = last
      BY Zenon DEF IInv, CountedOnce
    <2>2. ~overlapped => counted' = current
      BY <1>0, <1>1, <1>8, <2>1
    <2> QED
      BY <1>0, <1>7, <2>2, Zenon DEF CountedOnce
  <1>11. OneReads'
    <2>1. ~overlapped => \A j \in Collector : collector'[j].at # "read"
      BY <1>3, <1>8
    <2> QED
      BY <1>0, <2>1, Zenon DEF OneReads
  <1>12. NotAhead'
    <2>1. \A j \in Collector : collector'[j].at = "read" => collector'[j].ops <= ops
      <3>1. \A j \in Collector : collector[j].at = "read" => collector[j].ops <= ops
        BY Zenon DEF IInv, NotAhead
      <3>2. "idle" # "read"
        OBVIOUS
      <3> QED
        BY <1>3, <3>1, <3>2, Zenon
    <2>2. \A j \in Conn : wire'[j].full => wire'[j].sample.run = run /\ wire'[j].sample.ops <= ops
      BY <1>4, <1>5, <1>7, Zenon DEF IInv, NotAhead
    <2> QED
      BY <1>0, <2>1, <2>2, Zenon DEF IInv, NotAhead
  <1>13. WirePaced'
    <2>1. \A j \in Conn : j \in Collector
      BY <1>1, Fields, Zenon
    <2>2. "idle" \notin {"read", "free"}
      OBVIOUS
    <2> QED
      BY <1>3, <1>6, <2>1, <2>2, Zenon DEF IInv, WirePaced
  <1>14. NotBehind'
    <2>1. source # 0 => source \in Collector /\ source \in Conn
      BY <1>1, Fields, Zenon
    <2>2. "idle" # "read"
      OBVIOUS
    <2>3. source = k /\ source # 0 /\ ~broken /\ telemetry.run = run => telemetry.ops <= current
      BY <1>0, Zenon DEF IInv, NotBehind, current
    <2> QED
      BY <1>0, <1>3, <1>4, <1>5, <1>6, <2>1, <2>2, <2>3, ZenonT(60) DEF IInv, NotBehind
  <1> QED
    BY <1>0, <1>9, <1>10, <1>11, <1>12, <1>13, <1>14, PageKept, Zenon DEF ServerHolds

\* A handler that ends leaves nothing on its wire.
LEMMA HandlerEndsHolds == ASSUME IInv, NEW k \in Conn, HandlerEnds(k) PROVE IInv'
  <1>0. /\ (k # source \/ broken) /\ collector[k] = Idle
        /\ collector' = [collector EXCEPT ![k] = Free] /\ wire' = [wire EXCEPT ![k] = Empty]
        /\ ops' = ops /\ last' = last /\ run' = run /\ counted' = counted /\ overlapped' = overlapped
        /\ source' = source /\ broken' = broken /\ timers' = timers
        /\ connected' = connected /\ telemetry' = telemetry /\ fresh' = fresh /\ got' = got
        /\ stamp' = stamp /\ history' = history /\ benchmarking' = benchmarking /\ probing' = probing
    BY Zenon DEF HandlerEnds, pageVars, controls
  <1>1. TypeOK /\ (\A j \in Conn : j \in Collector) /\ (source # 0 => source \in Conn)
    <2>1. TypeOK
      BY DEF IInv
    <2> QED
      BY <2>1, Fields, Zenon
  <1>2. /\ collector \in [Collector -> [at : {"free", "idle", "read"}, ops : 0..MaxOps]]
        /\ wire \in [Conn -> [full : BOOLEAN, sample : Sample]]
    BY <1>1, Zenon DEF TypeOK
  <1>3. Free.at = "free" /\ "free" # "read" /\ ~Empty.full
    BY DEF Free, Empty
  <1>4. /\ collector'[k] = Free /\ wire'[k] = Empty
        /\ \A j \in Collector : j # k => collector'[j] = collector[j]
        /\ \A j \in Conn : j # k => wire'[j] = wire[j]
    BY <1>0, <1>1, <1>2, Zenon
  <1>5. TypeOK'
    <2>1. Free \in [at : {"free", "idle", "read"}, ops : 0..MaxOps] /\ Empty \in [full : BOOLEAN, sample : Sample]
      BY Bounds DEF Free, Empty, NoSample, Sample
    <2>2. /\ collector' \in [Collector -> [at : {"free", "idle", "read"}, ops : 0..MaxOps]]
          /\ wire' \in [Conn -> [full : BOOLEAN, sample : Sample]]
      BY <1>0, <1>2, <2>1, Zenon
    <2> QED
      BY <1>0, <1>1, <2>2, Zenon DEF TypeOK
  <1>6. CountedOnce'
    BY <1>0, Zenon DEF IInv, CountedOnce
  <1>7. OneReads'
    BY <1>0, <1>3, <1>4, ZenonT(60) DEF IInv, OneReads
  <1>8. NotAhead'
    BY <1>0, <1>3, <1>4, ZenonT(60) DEF IInv, NotAhead
  <1>9. WirePaced'
    BY <1>1, <1>3, <1>4, Zenon DEF IInv, WirePaced
  <1>10. NotBehind'
    BY <1>0, <1>1, <1>4, ZenonT(60) DEF IInv, NotBehind
  <1> QED
    BY <1>0, <1>5, <1>6, <1>7, <1>8, <1>9, <1>10, PageKept, Zenon DEF ServerHolds

\* A new process has a higher run than all that was shown, and no connection.
LEMMA RestartHolds == ASSUME IInv, Restart PROVE IInv'
  <1>0. /\ run < MaxRestarts /\ run' = run + 1
        /\ ops' = 0 /\ last' = 0 /\ counted' = 0 /\ overlapped' = FALSE
        /\ collector' = [k \in Collector |-> IF k = 0 THEN Idle ELSE Free]
        /\ wire' = [k \in Conn |-> Empty] /\ broken' = (source # 0)
        /\ source' = source /\ timers' = timers
        /\ connected' = connected /\ telemetry' = telemetry /\ fresh' = fresh /\ got' = got
        /\ stamp' = stamp /\ history' = history /\ benchmarking' = benchmarking /\ probing' = probing
    BY Zenon DEF Restart, controls
  <1>1. TypeOK /\ run \in Int /\ telemetry.run \in Int
    BY Fields DEF IInv
  <1>2. Free.at = "free" /\ Idle.at = "idle" /\ "free" # "read" /\ "idle" # "read" /\ ~Empty.full
    BY DEF Free, Idle, Empty
  <1>3. /\ \A j \in Collector : collector'[j].at # "read"
        /\ \A j \in Conn : ~wire'[j].full
    BY <1>0, <1>2, Zenon
  <1>4. TypeOK'
    <2>1. /\ Free \in [at : {"free", "idle", "read"}, ops : 0..MaxOps]
          /\ Idle \in [at : {"free", "idle", "read"}, ops : 0..MaxOps]
          /\ Empty \in [full : BOOLEAN, sample : Sample]
      BY Bounds DEF Free, Idle, Empty, NoSample, Sample
    <2>2. /\ collector' \in [Collector -> [at : {"free", "idle", "read"}, ops : 0..MaxOps]]
          /\ wire' \in [Conn -> [full : BOOLEAN, sample : Sample]]
      BY <1>0, <2>1, Zenon
    <2>3. 0 \in 0..MaxOps /\ 0 \in Nat /\ FALSE \in BOOLEAN /\ (source # 0) \in BOOLEAN
      BY Bounds
    <2>4. run' \in 0..MaxRestarts
      BY <1>0, <1>1, Bounds DEF TypeOK
    <2> QED
      BY <1>0, <1>1, <2>2, <2>3, <2>4, Zenon DEF TypeOK
  <1>5. CountedOnce'
    BY <1>0 DEF CountedOnce
  <1>6. OneReads'
    BY <1>3, Zenon DEF OneReads
  <1>7. telemetry.run <= run' /\ telemetry.run # run'
    <2>1. telemetry.run <= run
      BY Zenon DEF IInv, NotAhead
    <2> QED
      BY <1>0, <1>1, <2>1
  <1>8. NotAhead'
    BY <1>0, <1>3, <1>7, Zenon DEF NotAhead
  <1>9. WirePaced' /\ NotBehind'
    BY <1>0, <1>3, <1>7, Zenon DEF WirePaced, NotBehind
  <1> QED
    BY <1>0, <1>4, <1>5, <1>6, <1>8, <1>9, PageKept, Zenon DEF ServerHolds

-----------------------------------------------------------------------------
(* The page *)

\* A new connection begins with an empty wire and a handler that has read nothing.
LEMMA ConnectSSEHolds == ASSUME IInv, ConnectSSE PROVE IInv'
  <1>a. PICK k \in Conn : collector[k] = Free /\ source' = k /\ collector' = [collector EXCEPT ![k] = Idle]
    BY Zenon DEF ConnectSSE
  <1>0. /\ timers > 0 /\ timers' = timers - 1 /\ broken' = FALSE /\ fresh' = FALSE
        /\ ops' = ops /\ last' = last /\ wire' = wire /\ run' = run /\ counted' = counted
        /\ overlapped' = overlapped /\ connected' = connected /\ telemetry' = telemetry
        /\ got' = got /\ stamp' = stamp /\ history' = history
        /\ benchmarking' = benchmarking /\ probing' = probing
    BY Zenon DEF ConnectSSE, controls
  <1>1. TypeOK /\ (\A j \in Conn : j \in Collector /\ j # 0) /\ timers \in Int
    <2>1. TypeOK
      BY DEF IInv
    <2> QED
      BY <2>1, Fields, Zenon
  <1>2. collector \in [Collector -> [at : {"free", "idle", "read"}, ops : 0..MaxOps]]
    BY <1>1, Zenon DEF TypeOK
  <1>3. Free.at = "free" /\ Idle.at = "idle" /\ "idle" \notin {"read", "free"} /\ "free" \in {"read", "free"}
        /\ "idle" # "read"
    BY DEF Free, Idle
  <1>4. collector'[k] = Idle /\ \A j \in Collector : j # k => collector'[j] = collector[j]
    BY <1>a, <1>1, <1>2, Zenon
  <1>5. ~wire[k].full
    BY <1>a, <1>3, Zenon DEF IInv, WirePaced
  <1>6. TypeOK'
    <2>1. Idle \in [at : {"free", "idle", "read"}, ops : 0..MaxOps]
      BY Bounds DEF Idle
    <2>2. collector' \in [Collector -> [at : {"free", "idle", "read"}, ops : 0..MaxOps]]
      BY <1>a, <1>2, <2>1, Zenon
    <2>3. source' \in 0..Conns /\ timers' \in Nat /\ FALSE \in BOOLEAN
      BY <1>a, <1>0, <1>1, Bounds DEF TypeOK, Conn
    <2> QED
      BY <1>0, <1>1, <2>2, <2>3, Zenon DEF TypeOK
  <1>7. OneStream'
    <2>1. timers + (IF source = 0 THEN 0 ELSE 1) = 1
      BY Zenon DEF IInv, OneStream
    <2>2. timers' = 0 /\ source' # 0
      BY <1>a, <1>0, <1>1, <2>1
    <2> QED
      BY <2>2 DEF OneStream
  <1>8. HistoriesAligned' /\ OneProbe' /\ CountedOnce'
    BY <1>0, Zenon DEF IInv, HistoriesAligned, OneProbe, CountedOnce
  <1>9. OneReads'
    BY <1>0, <1>3, <1>4, Zenon DEF IInv, OneReads
  <1>10. NotAhead'
    BY <1>0, <1>3, <1>4, Zenon DEF IInv, NotAhead
  <1>11. WirePaced'
    BY <1>0, <1>1, <1>3, <1>4, Zenon DEF IInv, WirePaced
  <1>12. NotBehind'
    BY <1>a, <1>0, <1>3, <1>4, <1>5, Zenon DEF NotBehind
  <1> QED
    BY <1>6, <1>7, <1>8, <1>9, <1>10, <1>11, <1>12 DEF IInv

\* What is shown came over the wire, which is empty then.
LEMMA OnMessageHolds == ASSUME IInv, OnMessage PROVE IInv'
  <1>0. /\ connected /\ ~broken /\ wire[source].full
        /\ wire' = [wire EXCEPT ![source] = Empty]
        /\ telemetry' = wire[source].sample /\ fresh' = TRUE
        /\ got' = (IF got < HistoryLength THEN got + 1 ELSE got)
        /\ stamp' = (stamp + 1) % Modulus
        /\ history' = [s \in Series |-> Pushed(history[s], stamp')]
        /\ ops' = ops /\ last' = last /\ collector' = collector /\ run' = run /\ counted' = counted
        /\ overlapped' = overlapped /\ source' = source /\ broken' = broken /\ timers' = timers
        /\ connected' = connected /\ benchmarking' = benchmarking /\ probing' = probing
    BY Zenon DEF OnMessage, controls
  <1>1. TypeOK /\ source \in Conn /\ source \in Collector /\ source # 0 /\ wire[source].sample \in Sample
    <2>1. TypeOK /\ source # 0
      BY <1>0, Zenon DEF IInv, OneStream
    <2> QED
      BY <2>1, Fields, Zenon
  <1>2. wire \in [Conn -> [full : BOOLEAN, sample : Sample]]
    BY <1>1, Zenon DEF TypeOK
  <1>3. ~Empty.full
    BY DEF Empty
  <1>4. wire'[source] = Empty /\ \A j \in Conn : j # source => wire'[j] = wire[j]
    BY <1>0, <1>1, <1>2, Zenon
  <1>5. collector[source].at # "read"
    <2>1. "read" \in {"read", "free"}
      OBVIOUS
    <2> QED
      BY <1>0, <1>1, <2>1, Zenon DEF IInv, WirePaced
  <1>6. telemetry'.run = run /\ telemetry'.ops <= ops
    BY <1>0, <1>1, Zenon DEF IInv, NotAhead
  <1>7. /\ \A s \in Series : history'[s] \in Seq(0..(Modulus - 1)) /\ Aligned(history'[s], got', stamp')
        /\ stamp' \in 0..(Modulus - 1)
    <2>1. /\ history \in [Series -> Seq(0..(Modulus - 1))] /\ got \in 0..HistoryLength
          /\ stamp \in 0..(Modulus - 1)
      BY <1>1, Zenon DEF TypeOK
    <2>2. stamp' = Following(stamp) /\ got' = More(got)
      BY <1>0, Zenon DEF Following, More
    <2>3. \A s \in Series : Aligned(history[s], got, stamp)
      BY Zenon DEF IInv, HistoriesAligned, Aligned, Before
    <2>4. \A s \in Series : history'[s] = Pushed(history[s], Following(stamp)) /\ history[s] \in Seq(0..(Modulus - 1))
      BY <1>0, <2>1, <2>2, Zenon
    <2>5. \A s \in Series : history'[s] \in Seq(0..(Modulus - 1)) /\ Aligned(history'[s], got', stamp')
      BY <2>1, <2>2, <2>3, <2>4, PushedAligned, Zenon
    <2>6. stamp' \in 0..(Modulus - 1)
      BY <2>1, <2>2, NumbersCombine, Zenon
    <2> QED
      BY <2>5, <2>6
  <1>8. HistoriesAligned'
    BY <1>7, Zenon DEF HistoriesAligned, Aligned, Before
  <1>9. TypeOK'
    <2>1. Empty \in [full : BOOLEAN, sample : Sample]
      BY Bounds DEF Empty, NoSample, Sample
    <2>2. wire' \in [Conn -> [full : BOOLEAN, sample : Sample]]
      BY <1>0, <1>2, <2>1, Zenon
    <2>3. got' \in 0..HistoryLength
      <3>1. got \in 0..HistoryLength
        BY <1>1, Zenon DEF TypeOK
      <3> QED
        BY <1>0, <3>1, Bounds
    <2>4. history' \in [Series -> Seq(0..(Modulus - 1))]
      <3> DEFINE H == [s \in Series |-> Pushed(history[s], stamp')]
      <3>1. history' = H /\ \A s \in Series : H[s] \in Seq(0..(Modulus - 1))
        BY <1>0, <1>7, Zenon
      <3> QED
        BY <3>1, Zenon
    <2>5. TRUE \in BOOLEAN
      OBVIOUS
    <2> QED
      BY <1>0, <1>1, <1>7, <2>2, <2>3, <2>4, <2>5, Zenon DEF TypeOK
  <1>10. OneStream' /\ CountedOnce' /\ OneReads' /\ OneProbe'
    BY <1>0, Zenon DEF IInv, OneStream, CountedOnce, OneReads, OneProbe
  <1>11. NotAhead'
    <2>1. run <= run
      BY <1>1, Fields
    <2> QED
      BY <1>0, <1>3, <1>4, <1>6, <2>1, ZenonT(60) DEF IInv, NotAhead
  <1>12. WirePaced'
    BY <1>0, <1>3, <1>4, Zenon DEF IInv, WirePaced
  <1>13. NotBehind'
    BY <1>0, <1>3, <1>4, <1>5, Zenon DEF NotBehind
  <1> QED
    BY <1>8, <1>9, <1>10, <1>11, <1>12, <1>13 DEF IInv

\* The steps of the page that touch neither the server nor a message.
LEMMA OnOpenHolds == ASSUME IInv, OnOpen PROVE IInv'
  <1>0. /\ source # 0 /\ connected' = TRUE
        /\ ops' = ops /\ last' = last /\ collector' = collector /\ wire' = wire /\ run' = run
        /\ counted' = counted /\ overlapped' = overlapped
        /\ source' = source /\ broken' = broken /\ timers' = timers
        /\ telemetry' = telemetry /\ fresh' = fresh /\ got' = got
        /\ stamp' = stamp /\ history' = history /\ benchmarking' = benchmarking /\ probing' = probing
    BY Zenon DEF OnOpen, serverVars, controls
  <1>1. TypeOK'
    BY <1>0, Zenon DEF IInv, TypeOK
  <1>2. OneStream'
    BY <1>0, Zenon DEF IInv, OneStream
  <1>3. CountedOnce' /\ OneReads' /\ NotAhead' /\ WirePaced'
    BY <1>0, Zenon DEF IInv, CountedOnce, OneReads, NotAhead, WirePaced
  <1>4. NotBehind' /\ HistoriesAligned' /\ OneProbe'
    BY <1>0, Zenon DEF IInv, NotBehind, HistoriesAligned, OneProbe
  <1> QED
    BY <1>1, <1>2, <1>3, <1>4 DEF IInv

\* A connection that is lost brings nothing.
LEMMA ConnectionLostHolds == ASSUME IInv, ConnectionLost PROVE IInv'
  <1>0. /\ broken' = TRUE
        /\ ops' = ops /\ last' = last /\ collector' = collector /\ wire' = wire /\ run' = run
        /\ counted' = counted /\ overlapped' = overlapped
        /\ source' = source /\ timers' = timers /\ connected' = connected
        /\ telemetry' = telemetry /\ fresh' = fresh /\ got' = got
        /\ stamp' = stamp /\ history' = history /\ benchmarking' = benchmarking /\ probing' = probing
    BY Zenon DEF ConnectionLost, serverVars, controls
  <1>1. TypeOK'
    BY <1>0, Zenon DEF IInv, TypeOK
  <1>2. CountedOnce' /\ OneReads' /\ NotAhead' /\ WirePaced'
    BY <1>0, Zenon DEF IInv, CountedOnce, OneReads, NotAhead, WirePaced
  <1>3. NotBehind'
    BY <1>0, Zenon DEF NotBehind
  <1> QED
    BY <1>0, <1>1, <1>2, <1>3, PageKept, Zenon DEF ServerHolds

\* onerror trades the source for a timer.
LEMMA OnErrorHolds == ASSUME IInv, OnError PROVE IInv'
  <1>0. /\ source # 0 /\ connected' = FALSE /\ source' = 0 /\ broken' = FALSE /\ timers' = timers + 1
        /\ ops' = ops /\ last' = last /\ collector' = collector /\ wire' = wire /\ run' = run
        /\ counted' = counted /\ overlapped' = overlapped
        /\ telemetry' = telemetry /\ fresh' = fresh /\ got' = got
        /\ stamp' = stamp /\ history' = history /\ benchmarking' = benchmarking /\ probing' = probing
    BY Zenon DEF OnError, serverVars, controls
  <1>1. TypeOK /\ timers \in Int
    BY Fields DEF IInv
  <1>2. TypeOK'
    <2>1. timers' \in Nat /\ source' \in 0..Conns /\ FALSE \in BOOLEAN
      BY <1>0, <1>1, Bounds DEF TypeOK
    <2> QED
      BY <1>0, <1>1, <2>1, Zenon DEF TypeOK
  <1>3. OneStream'
    <2>1. timers + (IF source = 0 THEN 0 ELSE 1) = 1
      BY Zenon DEF IInv, OneStream
    <2> QED
      BY <1>0, <1>1, <2>1 DEF OneStream
  <1>4. CountedOnce' /\ OneReads' /\ NotAhead' /\ WirePaced'
    BY <1>0, Zenon DEF IInv, CountedOnce, OneReads, NotAhead, WirePaced
  <1>5. NotBehind' /\ HistoriesAligned' /\ OneProbe'
    BY <1>0, Zenon DEF IInv, NotBehind, HistoriesAligned, OneProbe
  <1> QED
    BY <1>2, <1>3, <1>4, <1>5 DEF IInv

\* The probe's button and its request
LEMMA ControlsHold == ASSUME IInv, Controls PROVE IInv'
  <1>0. /\ ops' = ops /\ last' = last /\ collector' = collector /\ wire' = wire /\ run' = run
        /\ counted' = counted /\ overlapped' = overlapped
        /\ source' = source /\ broken' = broken /\ timers' = timers /\ connected' = connected
        /\ telemetry' = telemetry /\ fresh' = fresh /\ got' = got
        /\ stamp' = stamp /\ history' = history
    BY Zenon DEF Controls, RunBenchmarkProbe, ProbeEnds, serverVars, pageVars
  <1>1. benchmarking \in BOOLEAN /\ probing = IF benchmarking THEN 1 ELSE 0
    BY Zenon DEF IInv, TypeOK, OneProbe
  <1>2. \/ ~benchmarking /\ benchmarking' = TRUE /\ probing' = probing + 1
        \/ probing > 0 /\ benchmarking' = FALSE /\ probing' = probing - 1
    BY Zenon DEF Controls, RunBenchmarkProbe, ProbeEnds
  <1>3. benchmarking' \in BOOLEAN /\ probing' \in 0..1 /\ (probing' = IF benchmarking' THEN 1 ELSE 0)
    <2>1. 0 + 1 = 1 /\ 1 - 1 = 0 /\ ~(0 > 0) /\ 0 \in 0..1 /\ 1 \in 0..1
      OBVIOUS
    <2> QED
      BY <1>1, <1>2, <2>1, Zenon
  <1>4. TypeOK' /\ OneProbe'
    BY <1>0, <1>3, Zenon DEF IInv, TypeOK, OneProbe
  <1>5. CountedOnce' /\ OneReads' /\ NotAhead' /\ WirePaced'
    BY <1>0, Zenon DEF IInv, CountedOnce, OneReads, NotAhead, WirePaced
  <1>6. NotBehind' /\ HistoriesAligned' /\ OneStream'
    BY <1>0, Zenon DEF IInv, NotBehind, HistoriesAligned, OneStream
  <1> QED
    BY <1>4, <1>5, <1>6 DEF IInv

-----------------------------------------------------------------------------
(* The theorems *)

\* Every step keeps the invariant.
LEMMA StepIInv == IInv /\ [Next]_vars => IInv'
  <1> SUFFICES ASSUME IInv, [Next]_vars PROVE IInv'
    OBVIOUS
  <1>1. CASE Server
    BY <1>1, OperationHolds, RestartHolds, ReadStatsHolds, ComputeHolds, HandlerEndsHolds, Zenon DEF Server
  <1>2. CASE Stream
    BY <1>2, ConnectSSEHolds, OnOpenHolds, OnMessageHolds, ConnectionLostHolds, OnErrorHolds, Zenon DEF Stream
  <1>3. CASE Controls
    BY <1>3, ControlsHold
  <1>4. CASE UNCHANGED vars
    <2>0. /\ ops' = ops /\ last' = last /\ collector' = collector /\ wire' = wire /\ run' = run
          /\ counted' = counted /\ overlapped' = overlapped
          /\ source' = source /\ broken' = broken /\ timers' = timers /\ connected' = connected
          /\ telemetry' = telemetry /\ fresh' = fresh /\ got' = got
          /\ stamp' = stamp /\ history' = history /\ benchmarking' = benchmarking /\ probing' = probing
      BY <1>4, Zenon DEF vars, serverVars, pageVars, controls
    <2>1. TypeOK'
      BY <2>0, Zenon DEF IInv, TypeOK
    <2>2. CountedOnce' /\ OneReads' /\ NotAhead' /\ WirePaced' /\ NotBehind'
      BY <2>0, Zenon DEF IInv, CountedOnce, OneReads, NotAhead, WirePaced, NotBehind
    <2> QED
      BY <2>0, <2>1, <2>2, PageKept, Zenon DEF ServerHolds
  <1> QED
    BY <1>1, <1>2, <1>3, <1>4, Zenon DEF Next

\* The invariant holds of every reachable state.
THEOREM Inductive == Spec => []IInv
  BY InitIInv, StepIInv, PTL DEF Spec

\* The variables keep their types.
THEOREM TypeCorrect == Spec => []TypeOK
  <1>1. IInv => TypeOK
    BY DEF IInv
  <1> QED
    BY <1>1, Inductive, PTL

\* The page has one EventSource or one timer that will make one, however often
\* connections break and the server restarts.
THEOREM AlwaysOneStream == Spec => []OneStream
  <1>1. IInv => OneStream
    BY DEF IInv
  <1> QED
    BY <1>1, Inductive, PTL

\* The five histories hold the last messages, for every length of a history.
THEOREM AlignedHistories == Spec => []HistoriesAligned
  <1>1. IInv => HistoriesAligned
    BY DEF IInv
  <1> QED
    BY <1>1, Inductive, PTL

\* Every operation goes into one rate while collectors do not overlap.
THEOREM OperationsCountedOnce == Spec => []CountedOnce
  <1>1. IInv => CountedOnce
    BY DEF IInv
  <1> QED
    BY <1>1, Inductive, PTL

\* The counters on display do not go back while the server runs.
THEOREM CountersNeverGoBack == Spec => NeverGoesBack
  <1> DEFINE Forward ==
        telemetry'.run > telemetry.run
          \/ (telemetry'.run = telemetry.run /\ telemetry'.ops >= telemetry.ops)
  <1>1. IInv /\ [Next]_vars => [Forward]_vars
    <2> SUFFICES ASSUME IInv, Next PROVE Forward
      BY Zenon
    <2>1. /\ run \in Int /\ telemetry.run \in Int /\ telemetry.ops \in Int /\ telemetry.run <= run
          /\ \A k \in Conn : wire[k].sample.ops \in Int
          /\ source # 0 => source \in Conn
      BY Fields, Zenon DEF IInv, NotAhead
    <2>2. CASE telemetry' = telemetry
      BY <2>1, <2>2
    <2>3. CASE OnMessage
      <3>1. /\ connected /\ ~broken /\ wire[source].full /\ telemetry' = wire[source].sample
        BY <2>3, Zenon DEF OnMessage
      <3>2. source # 0 /\ source \in Conn
        BY <2>1, <3>1, Zenon DEF IInv, OneStream
      <3>3. telemetry'.run = run /\ telemetry'.ops \in Int
        BY <2>1, <3>1, <3>2, Zenon DEF IInv, NotAhead
      <3>4. telemetry.run = run => telemetry.ops <= telemetry'.ops
        BY <3>1, <3>2, Zenon DEF IInv, NotBehind
      <3> QED
        BY <2>1, <3>3, <3>4
    <2>4. telemetry' = telemetry \/ OnMessage
      BY Zenon DEF Next, Server, Stream, Controls, Operation, Restart, ReadStats, Compute, HandlerEnds,
           ConnectSSE, OnOpen, ConnectionLost, OnError, RunBenchmarkProbe, ProbeEnds, pageVars
    <2> QED
      BY <2>2, <2>3, <2>4
  <1> QED
    BY <1>1, Inductive, PTL DEF Spec, NeverGoesBack
=============================================================================
