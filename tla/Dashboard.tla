------------------------------- MODULE Dashboard -------------------------------
(***************************************************************************)
(* The observability dashboard: dashboard/frontend/src/App.tsx, which      *)
(* follows the server's stream of telemetry, and collectTelemetry and      *)
(* handleStream of dashboard/handlers.go, which produce it.                *)
(*                                                                         *)
(* Of the telemetry, the number of cache operations is modelled, from      *)
(* which the server computes its rate and which stands for the counters    *)
(* on display.  A point of a history is the number of its message, modulo  *)
(* Modulus.  The page's only stream has one of a few connections; those    *)
(* it has closed keep their handler at the server until that notices.      *)
(***************************************************************************)
EXTENDS Integers, Sequences, FiniteSets

CONSTANTS Conns,         \* how many connections there can be at once
          HistoryLength, \* 30 in the code
          Modulus,       \* message numbers are taken modulo this
          MaxOps,        \* bound on the engine's operations, for TLC
          MaxRestarts    \* bound on the restarts of the server, for TLC

ASSUME DashboardAssumption ==
  /\ {Conns, HistoryLength, Modulus, MaxOps, MaxRestarts} \subseteq Nat
  /\ Conns > 0
  /\ HistoryLength > 1
  /\ Modulus > HistoryLength + 1

VARIABLES
  ops,        \* the engine: operations of the cache, CacheHits + CacheMisses
  last,       \* the server: lastHits + lastMisses
  collector,  \* the goroutines that collect telemetry
  wire,       \* the sample on its way to the page, by connection
  run,        \* how often the server was restarted
  counted,    \* history: the operations that went into a rate, until overlapped
  overlapped, \* history: two collectors were between their Stats and their lock
  source,     \* the page: the connection of its EventSource, or 0
  broken,     \* that connection is gone
  timers,     \* the timers that will call connectSSE
  connected,  \* state of that name
  telemetry,  \* state of that name; NoSample: null
  fresh,      \* history: it came over the present connection
  got,        \* history: the messages received, up to HistoryLength
  stamp,      \* history: the number of the last message
  history     \* qpsHistory, cacheHitHistory, allocatedMbHistory, ...

serverVars == <<ops, last, collector, wire, run, counted, overlapped>>
pageVars == <<source, broken, timers, connected, telemetry, fresh, got, stamp, history>>

VARIABLES
  benchmarking, \* state of that name
  probing       \* requests of runBenchmarkProbe in flight

controls == <<benchmarking, probing>>
vars == <<serverVars, pageVars, controls>>

Conn == 1..Conns

\* A handler per connection, and one for whoever else asks: another page, or a
\* client of /api/metrics/realtime.
Collector == 0..Conns

Series == {"qps", "cacheHit", "allocatedMb", "queueReady", "pubsub"}

Sample == [run : 0..MaxRestarts, ops : 0..MaxOps]
NoSample == [run |-> 0, ops |-> 0]

Idle == [at |-> "idle", ops |-> 0]
Free == [at |-> "free", ops |-> 0]

\* The variables have the types their declarations give them.
TypeOK ==
  /\ ops \in 0..MaxOps /\ last \in 0..MaxOps /\ counted \in Nat
  /\ collector \in [Collector -> [at : {"free", "idle", "read"}, ops : 0..MaxOps]]
  /\ wire \in [Conn -> [full : BOOLEAN, sample : Sample]]
  /\ run \in 0..MaxRestarts /\ overlapped \in BOOLEAN
  /\ source \in 0..Conns /\ timers \in Nat
  /\ broken \in BOOLEAN /\ connected \in BOOLEAN /\ fresh \in BOOLEAN
  /\ telemetry \in Sample
  /\ got \in 0..HistoryLength /\ stamp \in 0..(Modulus - 1)
  /\ history \in [Series -> Seq(0..(Modulus - 1))]
  /\ benchmarking \in BOOLEAN /\ probing \in 0..1

Empty == [full |-> FALSE, sample |-> NoSample]

-----------------------------------------------------------------------------
(* The server *)

\* The engine works.
Operation ==
  /\ ops < MaxOps
  /\ ops' = ops + 1
  /\ UNCHANGED <<last, collector, wire, run, counted, overlapped, pageVars, controls>>

\* collectTelemetry up to its lock: Stats is read.  A handler of a stream begins
\* with one, and another follows with each tick, once the last was sent.
ReadStats(k) ==
  /\ collector[k] = Idle
  /\ k \in Conn => ~wire[k].full
  /\ collector' = [collector EXCEPT ![k] = [at |-> "read", ops |-> ops]]
  /\ overlapped' = (overlapped \/ \E j \in Collector \ {k} : collector[j].at = "read")
  /\ counted' = IF overlapped' THEN 0 ELSE counted
  /\ UNCHANGED <<ops, last, wire, run, pageVars, controls>>

\* A faulty Compute: what was counted is not noted.
ComputeForgetting(k) ==
  /\ collector[k].at = "read"
  /\ LET current == collector[k].ops
     IN counted' = IF current >= last /\ ~overlapped THEN counted + (current - last)
                   ELSE counted
  /\ collector' = [collector EXCEPT ![k] = Idle]
  /\ wire' = IF k = 0 THEN wire
             ELSE [wire EXCEPT ![k] = [full |-> TRUE,
                                       sample |-> [run |-> run, ops |-> collector[k].ops]]]
  /\ UNCHANGED <<ops, last, run, overlapped, pageVars, controls>>

\* The rest of collectTelemetry, from its lock on, and what is written to the
\* stream.  The first sample takes the headers with it.
Compute(k) ==
  /\ collector[k].at = "read"
  /\ LET current == collector[k].ops
     IN /\ counted' = IF current >= last /\ ~overlapped THEN counted + (current - last)
                      ELSE counted
        /\ last' = current
  /\ collector' = [collector EXCEPT ![k] = Idle]
  /\ wire' = IF k = 0 THEN wire
             ELSE [wire EXCEPT ![k] = [full |-> TRUE,
                                       sample |-> [run |-> run, ops |-> collector[k].ops]]]
  /\ UNCHANGED <<ops, run, overlapped, pageVars, controls>>

\* handleStream finds its context done, in its select.
HandlerEnds(k) ==
  /\ k # source \/ broken
  /\ collector[k] = Idle
  /\ collector' = [collector EXCEPT ![k] = Free]
  /\ wire' = [wire EXCEPT ![k] = Empty]
  /\ UNCHANGED <<ops, last, run, counted, overlapped, pageVars, controls>>

\* The process is restarted: its counters begin again.
Restart ==
  /\ run < MaxRestarts
  /\ run' = run + 1
  /\ ops' = 0 /\ last' = 0 /\ counted' = 0 /\ overlapped' = FALSE
  /\ collector' = [k \in Collector |-> IF k = 0 THEN Idle ELSE Free]
  /\ wire' = [k \in Conn |-> Empty]
  /\ broken' = (source # 0)
  /\ UNCHANGED <<source, timers, connected, telemetry, fresh, got, stamp, history, controls>>

-----------------------------------------------------------------------------
(* The page's stream *)

\* A faulty ConnectSSE: an old connection is taken up again, with what is on it.
ConnectSSEResuming ==
  /\ timers > 0
  /\ timers' = timers - 1
  /\ \E k \in Conn :
       /\ source' = k
       /\ collector' = [collector EXCEPT ![k] = Idle]
  /\ broken' = FALSE
  /\ fresh' = FALSE
  /\ UNCHANGED <<ops, last, wire, run, counted, overlapped, connected, telemetry, got,
                 stamp, history, controls>>

\* connectSSE, called by the timer of onerror: a new EventSource, whose request
\* reaches the server.
ConnectSSE ==
  /\ timers > 0
  /\ timers' = timers - 1
  /\ \E k \in Conn :
       /\ collector[k] = Free
       /\ source' = k
       /\ collector' = [collector EXCEPT ![k] = Idle]
  /\ broken' = FALSE
  /\ fresh' = FALSE
  /\ UNCHANGED <<ops, last, wire, run, counted, overlapped, connected, telemetry, got,
                 stamp, history, controls>>

\* onopen
OnOpen ==
  /\ source # 0
  /\ ~broken
  /\ wire[source].full
  /\ ~connected
  /\ connected' = TRUE
  /\ UNCHANGED <<serverVars, source, broken, timers, telemetry, fresh, got, stamp,
                 history, controls>>

\* A faulty Pushed: one point too many is kept.
PushedOneMore(prev, point) ==
  Append(SubSeq(prev, IF Len(prev) > HistoryLength THEN 2 ELSE 1, Len(prev)), point)

\* [...prev.slice(-29), point]
Pushed(prev, point) ==
  Append(SubSeq(prev, IF Len(prev) = HistoryLength THEN 2 ELSE 1, Len(prev)), point)

\* onmessage
OnMessage ==
  /\ connected
  /\ ~broken
  /\ wire[source].full
  /\ wire' = [wire EXCEPT ![source] = Empty]
  /\ telemetry' = wire[source].sample
  /\ fresh' = TRUE
  /\ got' = IF got < HistoryLength THEN got + 1 ELSE got
  /\ stamp' = (stamp + 1) % Modulus
  /\ history' = [s \in Series |-> Pushed(history[s], stamp')]
  /\ UNCHANGED <<ops, last, collector, run, counted, overlapped, source, broken, timers,
                 connected, controls>>

\* The connection is lost.
ConnectionLost ==
  /\ source # 0
  /\ ~broken
  /\ broken' = TRUE
  /\ UNCHANGED <<serverVars, source, timers, connected, telemetry, fresh, got, stamp,
                 history, controls>>

\* A faulty OnError: the source is not closed, and connects again by itself.
OnErrorUnclosed ==
  /\ source # 0
  /\ broken
  /\ connected' = FALSE
  /\ timers' = timers + 1
  /\ UNCHANGED <<serverVars, source, broken, telemetry, fresh, got, stamp, history, controls>>

\* A faulty OnError: no timer is started.
OnErrorGivesUp ==
  /\ source # 0
  /\ broken
  /\ connected' = FALSE
  /\ source' = 0
  /\ broken' = FALSE
  /\ UNCHANGED <<serverVars, timers, telemetry, fresh, got, stamp, history, controls>>

\* onerror: the source is closed before the browser connects it again by itself.
OnError ==
  /\ source # 0
  /\ broken
  /\ connected' = FALSE
  /\ source' = 0
  /\ broken' = FALSE
  /\ timers' = timers + 1
  /\ UNCHANGED <<serverVars, telemetry, fresh, got, stamp, history, controls>>

-----------------------------------------------------------------------------
(* The page's controls *)

\* A faulty RunBenchmarkProbe: the button is not disabled.
RunBenchmarkProbeAgain ==
  /\ benchmarking' = TRUE
  /\ probing' = probing + 1
  /\ UNCHANGED <<serverVars, pageVars>>

\* runBenchmarkProbe up to its await; the button is disabled meanwhile.
RunBenchmarkProbe ==
  /\ ~benchmarking
  /\ benchmarking' = TRUE
  /\ probing' = probing + 1
  /\ UNCHANGED <<serverVars, pageVars>>

\* Its end, by an answer or by an error
ProbeEnds ==
  /\ probing > 0
  /\ probing' = probing - 1
  /\ benchmarking' = FALSE
  /\ UNCHANGED <<serverVars, pageVars>>

-----------------------------------------------------------------------------
(* Specification *)

\* The first render: its effect has called connectSSE.
Init ==
  /\ ops = 0 /\ last = 0 /\ counted = 0 /\ overlapped = FALSE /\ run = 0
  /\ collector = [k \in Collector |-> IF k \in {0, 1} THEN Idle ELSE Free]
  /\ wire = [k \in Conn |-> Empty]
  /\ source = 1 /\ broken = FALSE /\ timers = 0 /\ connected = FALSE
  /\ telemetry = NoSample /\ fresh = FALSE /\ got = 0 /\ stamp = 0
  /\ history = [s \in Series |-> <<>>]
  /\ benchmarking = FALSE /\ probing = 0

Server ==
  \/ Operation \/ Restart
  \/ \E k \in Collector : ReadStats(k) \/ Compute(k)
  \/ \E k \in Conn : HandlerEnds(k)

Stream == ConnectSSE \/ OnOpen \/ OnMessage \/ ConnectionLost \/ OnError

Controls == RunBenchmarkProbe \/ ProbeEnds

Next == Server \/ Stream \/ Controls

Spec == Init /\ [][Next]_vars

\* The server's handlers go on, the browser's timers fire and its events are
\* delivered.
FairSpec ==
  /\ Spec
  /\ \A k \in Conn : WF_vars(ReadStats(k)) /\ WF_vars(Compute(k)) /\ WF_vars(HandlerEnds(k))
  /\ WF_vars(ConnectSSE) /\ WF_vars(OnOpen) /\ WF_vars(OnMessage) /\ WF_vars(OnError)

-----------------------------------------------------------------------------
(* Properties *)

\* However streams break, the page has one EventSource or one timer that will
\* make one, never two and never none; and it says that it is live only while
\* its EventSource is open.
OneStream ==
  /\ timers + (IF source = 0 THEN 0 ELSE 1) = 1
  /\ connected => source # 0

\* The five histories are aligned: each holds the last messages received, up to
\* the buffer's length, in order and without gaps, across reconnections.
HistoriesAligned ==
  \A s \in Series :
    /\ Len(history[s]) = got
    /\ \A i \in 1..got : history[s][i] = (stamp - (got - i)) % Modulus

\* While collectors do not overlap, every operation goes into the rate of one
\* sample, whoever asks for samples.
CountedOnce == ~overlapped => counted = last /\ last <= ops

\* The counters on display never go back while the server is not restarted, also
\* when the page has reconnected while a handler of an old connection goes on.
NeverGoesBack ==
  [][telemetry'.run > telemetry.run
       \/ (telemetry'.run = telemetry.run /\ telemetry'.ops >= telemetry.ops)]_vars

\* Once connections are no longer lost, the page goes live and stays so, showing
\* samples of its connection: no loss, restart or handler left over stops it.
Reconnects == <>[]~broken => <>[](connected /\ fresh)
==============================================================================
