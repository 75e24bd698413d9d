------------------------------ MODULE ViewProofs ------------------------------
(***************************************************************************)
(* What every step of the views of Studio preserves while one of them is   *)
(* mounted.  StudioProofs puts the views' invariants together.             *)
(***************************************************************************)
EXTENDS DataViews, ToolViews, TLAPS

\* The provers, with their limits in seconds, of the leaves that name none.
USE SMTT(30), ZenonT(20), SMTT(40)

------------------------------------------------------------------------------
(* The tool views: the playgrounds have an invariant, the queues have one with the
   server, and the rest keep to themselves *)

\* The views without an invariant of their own.
Plain == {"dashboard", "queues", "pubsub", "maintenance", "crashed"}

PFields == {"view", "selected", "loading", "error", "zero", "result"}

\* The full-text playground's selection is the option its select displays, and
\* the searches in flight were sent to the one that was displayed.
PInv ==
  /\ DOMAIN local = PFields
  /\ local.view = "search" => local.selected = Playgrounds!Displayed(local)
  /\ \A c \in calls : c.op = "search" => c.name = c.displayed

-----------------------------------------------------------------------------

\* A plain view is mounted.
LEMMA MountPlain ==
  /\ Overview!Mount => "view" \in DOMAIN local' /\ local'.view = "dashboard"
  /\ Queues!Mount => "view" \in DOMAIN local' /\ local'.view = "queues"
  /\ Events!Mount => "view" \in DOMAIN local' /\ local'.view = "pubsub"
  /\ Tools!Mount => "view" \in DOMAIN local' /\ local'.view = "maintenance"
<1>1. Overview!Mount => "view" \in DOMAIN local' /\ local'.view = "dashboard"
  BY DEF Overview!Mount, Overview!Fresh
<1>2. Queues!Mount => "view" \in DOMAIN local' /\ local'.view = "queues"
  BY DEF Queues!Mount, Queues!Fresh
<1>3. Events!Mount => "view" \in DOMAIN local' /\ local'.view = "pubsub"
  BY DEF Events!Mount, Events!Fresh
<1>4. Tools!Mount => "view" \in DOMAIN local' /\ local'.view = "maintenance"
  BY DEF Tools!Mount, Tools!Fresh
<1> QED BY <1>1, <1>2, <1>3, <1>4

\* A playground is mounted.
LEMMA MountPlayground ==
  ASSUME NEW view, Playgrounds!Mount(view), catalog' = catalog
  PROVE  PInv' /\ "view" \in DOMAIN local' /\ local'.view = view
<1>1. /\ local' = [view |-> view, selected |-> Playgrounds!First(catalog), loading |-> FALSE,
                   error |-> FALSE, zero |-> FALSE, result |-> "nothing"]
      /\ calls' = {}
  BY DEF Playgrounds!Mount
<1>2. /\ DOMAIN local' = PFields /\ local'.view = view
      /\ local'.selected = Playgrounds!First(catalog)
  BY <1>1 DEF PFields
<1>3. PInv'
  BY <1>1, <1>2 DEF PInv, Playgrounds!Displayed
<1> QED BY <1>2, <1>3 DEF PFields

\* A catalog arrives at a playground.
LEMMA CatalogPlayground ==
  ASSUME PInv, Playgrounds!CatalogEffect(catalog')
  PROVE  PInv' /\ local'.view = local.view
<1>1. CASE local.view = "search"
  <2>1. /\ local' = [local EXCEPT !.selected = Playgrounds!Synced(local, catalog')]
        /\ calls' = calls
    BY <1>1 DEF Playgrounds!CatalogEffect
  <2>2. /\ DOMAIN local' = PFields /\ local'.view = local.view
        /\ local'.selected = Playgrounds!Synced(local, catalog')
    BY <2>1 DEF PInv, PFields
  <2>3. PInv'
    BY <2>1, <2>2 DEF PInv, Playgrounds!Synced, Playgrounds!Displayed
  <2> QED BY <2>2, <2>3
<1>2. CASE local.view # "search"
  <2>1. local' = local /\ calls' = calls
    BY <1>2 DEF Playgrounds!CatalogEffect
  <2> QED BY <1>2, <2>1 DEF PInv
<1> QED BY <1>1, <1>2

\* The steps of the plain views are about themselves.
LEMMA PlainStep ==
  ASSUME "view" \in DOMAIN local,
         Overview!ViewNext \/ Queues!ViewNext \/ Events!ViewNext \/ Tools!ViewNext
  PROVE  /\ "view" \in DOMAIN local'
         /\ local'.view = local.view /\ local.view \in Plain \ {"crashed"}
<1>1. CASE Overview!ViewNext
  BY <1>1, Zenon DEF Plain, Overview!ViewNext, Overview!ToggleDrawer, Overview!HandleCopyMetrics,
              Overview!TimerFires, Overview!Mounted
<1>2. CASE Queues!ViewNext
  <2>1. Queues!Mounted
    BY <1>2, Zenon DEF Queues!ViewNext, Queues!PollQueues, Queues!RefreshQueues, Queues!SelectQueue,
                Queues!EditForm, Queues!HandleEnqueue, Queues!HandleDequeue, Queues!Answer
  <2>2. "view" \in DOMAIN local' /\ local'.view = local.view
    BY <1>2, Zenon DEF Queues!ViewNext, Queues!PollQueues, Queues!RefreshQueues, Queues!SelectQueue,
                Queues!EditForm, Queues!HandleEnqueue, Queues!HandleDequeue, Queues!Answer,
                Queues!LoadQueues, Queues!Send, Queues!QueuesArrive, Queues!QueuesFail,
                Queues!CallDone, Queues!CallFails
  <2> QED BY <2>1, <2>2 DEF Plain, Queues!Mounted
<1>3. CASE Events!ViewNext
  BY <1>3 DEF Plain, Events!ViewNext, Events!LoadHistory, Events!HandlePublish, Events!Answer,
              Events!PublishDone, Events!PublishFails, Events!HistoryArrives,
              Events!HistoryFails, Events!Mounted
<1>4. CASE Tools!ViewNext
  BY <1>4, Zenon DEF Plain, Tools!ViewNext, Tools!Start, Tools!Done, Tools!Fails, Tools!Mounted
<1> QED BY <1>1, <1>2, <1>3, <1>4

\* The playgrounds keep their invariant, or crash.
LEMMA PlaygroundStep ==
  ASSUME PInv, Playgrounds!ViewNext
  PROVE  /\ Playgrounds!Mounted
         /\ \/ PInv' /\ local'.view = local.view
            \/ local' = Playgrounds!Crashed
<1>0. DOMAIN local = PFields
  BY DEF PInv
<1>1. Playgrounds!Mounted
  BY Zenon DEF Playgrounds!ViewNext, Playgrounds!SelectOption, Playgrounds!EditLimit,
         Playgrounds!HandleExecute, Playgrounds!HandleSearch, Playgrounds!HandleSearchInvalid,
         Playgrounds!Mounted, Playgrounds!Playground
<1>2. catalog' = catalog
  BY Zenon DEF Playgrounds!ViewNext, Playgrounds!SelectOption, Playgrounds!EditLimit,
         Playgrounds!HandleExecute, Playgrounds!HandleSearch, Playgrounds!HandleSearchInvalid,
         Playgrounds!Send, Playgrounds!Arrives, Playgrounds!Fails, Playgrounds!shell
<1>d. Playgrounds!Displayed(local)' =
        IF local'.selected \in catalog THEN local'.selected ELSE Playgrounds!First(catalog)
  BY <1>2 DEF Playgrounds!Displayed, Playgrounds!First, Playgrounds!Nothing
<1>3. ASSUME NEW n, Playgrounds!SelectOption(n)
      PROVE  PInv' /\ local'.view = local.view
  <2>1. n \in catalog /\ local' = [local EXCEPT !.selected = n] /\ calls' = calls
    BY <1>3 DEF Playgrounds!SelectOption
  <2>2. DOMAIN local' = PFields /\ local'.view = local.view /\ local'.selected = n
    BY <1>0, <2>1 DEF PFields
  <2> QED BY <1>d, <2>1, <2>2 DEF PInv
\* Everything else leaves the selection.
<1>4. ASSUME DOMAIN local' = PFields, local'.view = local.view,
             local'.selected = local.selected,
             \A c \in calls' : c \in calls \/ (c.op = "search" => c.name = c.displayed)
      PROVE  PInv'
  BY <1>d, <1>4 DEF PInv, Playgrounds!Displayed
<1>5. ASSUME NEW zero, Playgrounds!EditLimit(zero)
      PROVE  PInv' /\ local'.view = local.view
  <2>1. local' = [local EXCEPT !.zero = zero] /\ calls' = calls
    BY <1>5 DEF Playgrounds!EditLimit
  <2>2. /\ DOMAIN local' = PFields /\ local'.view = local.view
        /\ local'.selected = local.selected
    BY <1>0, <2>1 DEF PFields
  <2> QED BY <1>4, <2>1, <2>2
<1>6. ASSUME NEW nil, Playgrounds!Send(nil)
      PROVE  PInv' /\ local'.view = local.view
  <2> DEFINE q == [op |-> local.view, name |-> local.selected,
                   displayed |-> Playgrounds!Displayed(local), nil |-> nil]
  <2>1. local' = [local EXCEPT !.loading = TRUE, !.error = FALSE] /\ calls' = calls \cup {q}
    BY <1>6 DEF Playgrounds!Send
  <2>2. /\ DOMAIN local' = PFields /\ local'.view = local.view
        /\ local'.selected = local.selected
    BY <1>0, <2>1 DEF PFields
  <2>3. q.op = "search" => q.name = q.displayed
    BY DEF PInv
  <2> HIDE DEF q
  <2> QED BY <1>4, <2>1, <2>2, <2>3
<1>7. CASE Playgrounds!HandleSearchInvalid
  <2>1. local' = [local EXCEPT !.error = TRUE] /\ calls' = calls
    BY <1>7 DEF Playgrounds!HandleSearchInvalid
  <2>2. /\ DOMAIN local' = PFields /\ local'.view = local.view
        /\ local'.selected = local.selected
    BY <1>0, <2>1 DEF PFields
  <2> QED BY <1>1, <1>4, <2>1, <2>2
<1>8. ASSUME NEW c \in calls, Playgrounds!Arrives(c)
      PROVE  \/ PInv' /\ local'.view = local.view
             \/ local' = Playgrounds!Crashed
  <2>1. PICK result :
          local' = Playgrounds!Rendered([local EXCEPT !.loading = FALSE, !.result = result])
    BY <1>8, Zenon DEF Playgrounds!Arrives
  <2> DEFINE m == [local EXCEPT !.loading = FALSE, !.result = result]
  <2>2. CASE local' = m
    <3>1. /\ DOMAIN local' = PFields /\ local'.view = local.view
          /\ local'.selected = local.selected
      BY <1>0, <2>2 DEF PFields
    <3>2. calls' = calls \ {c}
      BY <1>8 DEF Playgrounds!Arrives
    <3> QED BY <1>4, <3>1, <3>2
  <2> QED BY <2>1, <2>2 DEF Playgrounds!Rendered
<1>9. ASSUME NEW c \in calls, Playgrounds!Fails(c)
      PROVE  PInv' /\ local'.view = local.view
  <2>1. local' = [local EXCEPT !.loading = FALSE, !.error = TRUE] /\ calls' = calls \ {c}
    BY <1>9 DEF Playgrounds!Fails
  <2>2. /\ DOMAIN local' = PFields /\ local'.view = local.view
        /\ local'.selected = local.selected
    BY <1>0, <2>1 DEF PFields
  <2> QED BY <1>4, <2>1, <2>2
<1> QED BY <1>1, <1>3, <1>5, <1>6, <1>7, <1>8, <1>9, Zenon
        DEF Playgrounds!ViewNext, Playgrounds!HandleExecute, Playgrounds!HandleSearch

\* The id is in the server's window once a task was enqueued with it.
LEMMA EnqueueStep ==
  ASSUME once \in {0, 1}, once = 1 => window, Queues!ViewNext
  PROVE  once' \in {0, 1} /\ (once' = 1 => window')
<1>1. CASE Queues!HandleEnqueue
  <2> DEFINE counts == Queues!Accepts(local) /\ local.dedup
  <2>1. once' = IF counts THEN once + 1 ELSE once
    BY <1>1 DEF Queues!HandleEnqueue
  <2>2. window \/ counts => window'
    BY <1>1, Zenon DEF Queues!HandleEnqueue, Queues!DedupSent
  <2>3. counts => ~window
    BY DEF Queues!Accepts, Queues!DedupSent
  <2> HIDE DEF counts
  <2> QED BY <2>1, <2>2, <2>3
<1>2. CASE ~Queues!HandleEnqueue
  <2>1. UNCHANGED <<window, once>>
    BY <1>2, Zenon
            DEF Queues!ViewNext, Queues!PollQueues, Queues!RefreshQueues, Queues!SelectQueue,
                Queues!EditForm, Queues!HandleDequeue, Queues!Answer, Queues!QueuesArrive,
                Queues!QueuesFail, Queues!CallDone, Queues!CallFails, Queues!server
  <2> QED BY <2>1
<1> QED BY <1>1, <1>2

\* Only the mounted playground takes a step.
LEMMA PlaygroundMounted ==
  ASSUME Playgrounds!ViewNext
  PROVE  local.view \in {"query", "vector", "search"}
BY Zenon DEF Playgrounds!ViewNext, Playgrounds!SelectOption, Playgrounds!EditLimit,
       Playgrounds!HandleExecute, Playgrounds!HandleSearch, Playgrounds!HandleSearchInvalid,
       Playgrounds!Mounted, Playgrounds!Playground

\* Only the mounted view takes a step.
LEMMA ToolsMounted ==
  /\ Overview!ViewNext => Overview!Mounted
  /\ Queues!ViewNext => Queues!Mounted
  /\ Events!ViewNext => Events!Mounted
  /\ Tools!ViewNext => Tools!Mounted
<1>1. Overview!ViewNext => Overview!Mounted
  BY Zenon DEF Overview!ViewNext, Overview!ToggleDrawer, Overview!HandleCopyMetrics,
               Overview!TimerFires
<1>2. Queues!ViewNext => Queues!Mounted
  BY Zenon DEF Queues!ViewNext, Queues!PollQueues, Queues!RefreshQueues, Queues!SelectQueue,
               Queues!EditForm, Queues!HandleEnqueue, Queues!HandleDequeue, Queues!Answer
<1>3. Events!ViewNext => Events!Mounted
  BY Zenon DEF Events!ViewNext, Events!LoadHistory, Events!HandlePublish, Events!Answer
<1>4. Tools!ViewNext => Tools!Mounted
  BY Zenon DEF Tools!ViewNext, Tools!Start
<1> QED BY <1>1, <1>2, <1>3, <1>4

------------------------------------------------------------------------------
(* The spinners of the tool views: each flag is backed by what will reset it *)

\* The overview's note has a timer.
OFlag ==
  /\ DOMAIN local = {"view", "drawer", "copied", "timers"}
  /\ local.timers \in Nat
  /\ local.copied => local.timers > 0

\* A list of queues is in flight.
QFlag ==
  /\ DOMAIN local = {"view", "selected", "loading", "dedup"}
  /\ local.loading => \E c \in calls : c.op = "list"

\* A publication is in flight, of which there is at most one.
EFlag ==
  /\ DOMAIN local = {"view", "newest", "loading"}
  /\ \A c, d \in calls : c.op = "publish" /\ d.op = "publish" => c = d
  /\ local.loading <=> \E c \in calls : c.op = "publish"

\* A playground's only request is in flight.
PFlag ==
  \/ local.loading = TRUE /\ \E c : calls = {c}
  \/ local.loading = FALSE /\ calls = {}

\* A tool's only request is in flight.
MFlag ==
  /\ DOMAIN local = {"view", "running", "report"}
  /\ \A c \in calls : c = [op |-> c.op]
  /\ local.running = {c.op : c \in calls}

-----------------------------------------------------------------------------

\* The overview.
LEMMA OverviewFlag ==
  ASSUME Overview!Mount \/ (OFlag /\ Overview!ViewNext)
  PROVE  OFlag'
<1>1. CASE Overview!Mount
  BY <1>1 DEF Overview!Mount, Overview!Fresh, OFlag
<1>2. CASE OFlag /\ Overview!ToggleDrawer
  <2>1. local' = [local EXCEPT !.drawer = ~@]
    BY <1>2 DEF Overview!ToggleDrawer
  <2>2. DOMAIN local' = DOMAIN local /\ local'.copied = local.copied /\ local'.timers = local.timers
    BY <1>2, <2>1 DEF OFlag
  <2> QED BY <1>2, <2>2 DEF OFlag
<1>3. CASE OFlag /\ Overview!HandleCopyMetrics
  <2>1. local' = [local EXCEPT !.copied = TRUE, !.timers = @ + 1]
    BY <1>3 DEF Overview!HandleCopyMetrics
  <2>2. DOMAIN local' = DOMAIN local /\ local'.timers = local.timers + 1
    BY <1>3, <2>1 DEF OFlag
  <2> QED BY <1>3, <2>2 DEF OFlag
<1>4. CASE OFlag /\ Overview!TimerFires
  <2>1. local' = [local EXCEPT !.copied = FALSE, !.timers = @ - 1] /\ local.timers > 0
    BY <1>4 DEF Overview!TimerFires
  <2>2. DOMAIN local' = DOMAIN local /\ local'.timers = local.timers - 1
    BY <1>4, <2>1 DEF OFlag
  <2>3. ~local'.copied
    BY <1>4, <2>1, Zenon DEF OFlag
  <2> QED BY <1>4, <2>1, <2>2, <2>3 DEF OFlag
<1> QED BY <1>1, <1>2, <1>3, <1>4 DEF Overview!ViewNext

\* loadQueues sets the flag when it asks.
LEMMA LoadQueuesFlag ==
  ASSUME NEW others, NEW empty, QFlag, Queues!LoadQueues(others, empty)
  PROVE  QFlag'
<1>1. PICK id : calls' = others \cup {Queues!List(id, empty)}
  BY Zenon DEF Queues!LoadQueues
<1>2. local' = [local EXCEPT !.loading = TRUE]
  BY DEF Queues!LoadQueues
<1>3. Queues!List(id, empty).op = "list"
  BY DEF Queues!List
<1>4. DOMAIN local' = DOMAIN local
  BY <1>2 DEF QFlag
<1> QED BY <1>1, <1>3, <1>4, Zenon DEF QFlag

\* The queues.
LEMMA QueuesFlag ==
  ASSUME Queues!Mount \/ (QFlag /\ Queues!ViewNext)
  PROVE  QFlag'
<1>1. CASE Queues!Mount
  <2>1. local' = Queues!Fresh /\ calls' = {Queues!List(1, FALSE)}
    BY <1>1 DEF Queues!Mount
  <2>2. Queues!List(1, FALSE).op = "list"
    BY DEF Queues!List
  <2>3. DOMAIN local' = {"view", "selected", "loading", "dedup"}
    BY <2>1 DEF Queues!Fresh
  <2> QED BY <2>1, <2>2, <2>3, ZenonT(60) DEF QFlag
<1>s. ASSUME QFlag, DOMAIN local' = DOMAIN local, local'.loading = local.loading,
             \A c \in calls : c.op = "list" => c \in calls'
      PROVE  QFlag'
  BY <1>s, Zenon DEF QFlag
<1>2. CASE QFlag /\ (Queues!PollQueues \/ Queues!RefreshQueues)
  BY <1>2, LoadQueuesFlag, Zenon DEF Queues!PollQueues, Queues!RefreshQueues
<1>3. ASSUME QFlag, NEW n, Queues!SelectQueue(n)
      PROVE  QFlag'
  <2>1. local' = [local EXCEPT !.selected = n] /\ calls' = calls
    BY <1>3 DEF Queues!SelectQueue
  <2>2. DOMAIN local' = DOMAIN local /\ local'.loading = local.loading
    BY <1>3, <2>1 DEF QFlag
  <2> QED BY <1>3, <1>s, <2>1, <2>2
<1>4. CASE QFlag /\ Queues!EditForm
  <2>1. local' = [local EXCEPT !.dedup = ~@] /\ calls' = calls
    BY <1>4 DEF Queues!EditForm
  <2>2. DOMAIN local' = DOMAIN local /\ local'.loading = local.loading
    BY <1>4, <2>1 DEF QFlag
  <2> QED BY <1>4, <1>s, <2>1, <2>2
<1>5. CASE QFlag /\ (Queues!HandleEnqueue \/ Queues!HandleDequeue)
  <2>1. local' = local /\ calls \subseteq calls'
    BY <1>5, Zenon DEF Queues!HandleEnqueue, Queues!HandleDequeue, Queues!Send
  <2> QED BY <1>5, <1>s, <2>1
<1>6. ASSUME QFlag, NEW c \in calls, Queues!Answer(c)
      PROVE  QFlag'
  <2>1. CASE Queues!QueuesArrive(c) \/ Queues!QueuesFail(c)
    <3>1. \/ \E n : local' = [local EXCEPT !.loading = FALSE, !.selected = n]
          \/ local' = [local EXCEPT !.loading = FALSE]
      BY <2>1, Zenon DEF Queues!QueuesArrive, Queues!QueuesFail
    <3>2. DOMAIN local' = DOMAIN local
      BY <3>1, Zenon
    <3>3. ~local'.loading
      BY <1>6, <3>1, ZenonT(60) DEF QFlag
    <3> QED BY <1>6, <3>2, <3>3, Zenon DEF QFlag
  <2>2. CASE Queues!CallDone(c)
    BY <1>6, <2>2, LoadQueuesFlag DEF Queues!CallDone
  <2>3. CASE c.op # "list" /\ Queues!CallFails(c)
    <3>1. local' = local /\ calls' = calls \ {c}
      BY <2>3 DEF Queues!CallFails
    <3> QED BY <1>6, <1>s, <2>3, <3>1, ZenonT(60)
  <2> QED BY <1>6, <2>1, <2>2, <2>3 DEF Queues!Answer
<1> QED BY <1>1, <1>2, <1>3, <1>4, <1>5, <1>6, Zenon DEF Queues!ViewNext

\* The event stream.
LEMMA EventsFlag ==
  ASSUME Events!Mount \/ (EFlag /\ Events!ViewNext)
  PROVE  EFlag'
<1>h. \A cs : Events!History(cs).op = "history"
  BY DEF Events!History
<1>1. CASE Events!Mount
  <2>1. local' = Events!Fresh /\ calls' = {Events!History({})}
    BY <1>1 DEF Events!Mount
  <2>2. DOMAIN local' = {"view", "newest", "loading"} /\ local'.loading = FALSE
    BY <2>1 DEF Events!Fresh
  <2> QED BY <1>h, <2>1, <2>2 DEF EFlag
\* The publications in flight
<1> DEFINE P(cs) == {c \in cs : c.op = "publish"}
<1>s. ASSUME EFlag, DOMAIN local' = DOMAIN local, local'.loading = local.loading,
             P(calls') = P(calls)
      PROVE  EFlag'
  <2>1. \A c : c \in calls' /\ c.op = "publish" <=> c \in calls /\ c.op = "publish"
    BY <1>s
  <2> QED BY <1>s, <2>1, ZenonT(60) DEF EFlag
<1>2. CASE EFlag /\ Events!LoadHistory
  <2>1. local' = local /\ calls' = calls \cup {Events!History(calls)}
    BY <1>2 DEF Events!LoadHistory
  <2>2. P(calls') = P(calls)
    BY <1>h, <2>1
  <2> QED BY <1>2, <1>s, <2>1, <2>2
<1>3. CASE EFlag /\ Events!HandlePublish
  <2>1. ~local.loading /\ local' = [local EXCEPT !.loading = TRUE]
    BY <1>3, Zenon DEF Events!HandlePublish
  <2>2. PICK n, ok : calls' = calls \cup {[op |-> "publish", id |-> 0, newest |-> n, ok |-> ok]}
    BY <1>3, Zenon DEF Events!HandlePublish
  <2> DEFINE q == [op |-> "publish", id |-> 0, newest |-> n, ok |-> ok]
  <2>3. q.op = "publish" /\ calls' = calls \cup {q}
    BY <2>2
  <2> HIDE DEF q
  <2>4. \A c \in calls : c.op # "publish"
    BY <1>3, <2>1, ZenonT(60) DEF EFlag
  <2>5. DOMAIN local' = DOMAIN local
    BY <2>1
  <2>6. local'.loading
    BY <1>3, <2>1, ZenonT(60) DEF EFlag
  <2>7. \A c \in calls' : c.op = "publish" => c = q
    BY <2>3, <2>4
  <2>8. q \in calls'
    BY <2>3
  <2> QED BY <1>3, <2>3, <2>5, <2>6, <2>7, <2>8, Zenon DEF EFlag
<1>4. ASSUME EFlag, NEW c \in calls, Events!Answer(c)
      PROVE  EFlag'
  <2>1. CASE c.op = "publish" /\ (Events!PublishDone(c) \/ Events!PublishFails(c))
    <3>1. local' = [local EXCEPT !.loading = FALSE]
      BY <2>1, Zenon DEF Events!PublishDone, Events!PublishFails
    <3>2. \/ calls' = (calls \ {c}) \cup {Events!History(calls)}
          \/ calls' = calls \ {c}
      BY <2>1, Zenon DEF Events!PublishDone, Events!PublishFails
    <3>3. DOMAIN local' = DOMAIN local
      BY <3>1
    <3>4. ~local'.loading
      BY <1>4, <3>1, Zenon DEF EFlag
    <3>5. \A d \in calls' : d.op # "publish"
      BY <1>4, <1>h, <2>1, <3>2 DEF EFlag
    <3> QED BY <1>4, <3>3, <3>4, <3>5, Zenon DEF EFlag
  <2>2. CASE c.op = "history" /\ (Events!HistoryArrives(c) \/ Events!HistoryFails(c))
    <3>1. local' = [local EXCEPT !.newest = c.newest] \/ local' = local
      BY <2>2, Zenon DEF Events!HistoryArrives, Events!HistoryFails
    <3>2. calls' = calls \ {c}
      BY <2>2, Zenon DEF Events!HistoryArrives, Events!HistoryFails
    <3>3. DOMAIN local' = DOMAIN local /\ local'.loading = local.loading
      BY <1>4, <3>1 DEF EFlag
    <3>4. P(calls') = P(calls)
      BY <2>2, <3>2
    <3> QED BY <1>4, <1>s, <3>3, <3>4
  <2> QED BY <1>4, <2>1, <2>2 DEF Events!Answer
<1> QED BY <1>1, <1>2, <1>3, <1>4, ZenonT(60) DEF Events!ViewNext

\* A playground is mounted, sees a catalog, or takes a step and is not gone.
LEMMA PlaygroundFlag ==
  ASSUME \/ \E view : Playgrounds!Mount(view)
         \/ /\ PFlag /\ DOMAIN local = PFields
            /\ Playgrounds!ViewNext \/ \E list : Playgrounds!CatalogEffect(list)
  PROVE  PFlag' \/ local' = Playgrounds!Crashed
<1>s. ASSUME PFlag, local'.loading = local.loading, calls' = calls
      PROVE  PFlag'
  BY <1>s, Zenon DEF PFlag
<1>a. ASSUME PFlag, NEW c \in calls, local'.loading = FALSE, calls' = calls \ {c}
      PROVE  PFlag'
  <2>1. calls = {c}
    BY <1>a, Zenon DEF PFlag
  <2>2. calls' = {}
    BY <1>a, <2>1
  <2> QED BY <1>a, <2>2, Zenon DEF PFlag
<1>1. ASSUME NEW view, Playgrounds!Mount(view)
      PROVE  PFlag'
  BY <1>1 DEF Playgrounds!Mount, PFlag
<1> DEFINE Q == PFlag /\ DOMAIN local = PFields
<1>2. ASSUME Q, NEW n, Playgrounds!SelectOption(n)
      PROVE  PFlag'
  <2>1. local' = [local EXCEPT !.selected = n] /\ calls' = calls
    BY <1>2 DEF Playgrounds!SelectOption
  <2>2. local'.loading = local.loading
    BY <1>2, <2>1 DEF PFields
  <2> QED BY <1>2, <1>s, <2>1, <2>2
<1>3. ASSUME Q, NEW zero, Playgrounds!EditLimit(zero)
      PROVE  PFlag'
  <2>1. local' = [local EXCEPT !.zero = zero] /\ calls' = calls
    BY <1>3 DEF Playgrounds!EditLimit
  <2>2. local'.loading = local.loading
    BY <1>3, <2>1 DEF PFields
  <2> QED BY <1>3, <1>s, <2>1, <2>2
<1>4. ASSUME Q, NEW nil, Playgrounds!Send(nil), ~local.loading
      PROVE  PFlag'
  <2>1. local' = [local EXCEPT !.loading = TRUE, !.error = FALSE]
    BY <1>4 DEF Playgrounds!Send
  <2>2. PICK q : calls' = calls \cup {q}
    BY <1>4, Zenon DEF Playgrounds!Send
  <2>3. calls = {}
    BY <1>4, Zenon DEF PFlag
  <2>4. local'.loading = TRUE
    BY <1>4, <2>1 DEF PFields
  <2>5. calls' = {q}
    BY <2>2, <2>3
  <2> QED BY <2>4, <2>5, Zenon DEF PFlag
<1>5. CASE Q /\ Playgrounds!HandleSearchInvalid
  <2>1. local' = [local EXCEPT !.error = TRUE] /\ calls' = calls
    BY <1>5 DEF Playgrounds!HandleSearchInvalid
  <2>2. local'.loading = local.loading
    BY <1>5, <2>1 DEF PFields
  <2> QED BY <1>5, <1>s, <2>1, <2>2
<1>6. ASSUME Q, NEW c \in calls, Playgrounds!Arrives(c)
      PROVE  PFlag' \/ local' = Playgrounds!Crashed
  <2>1. PICK result :
          local' = Playgrounds!Rendered([local EXCEPT !.loading = FALSE, !.result = result])
    BY <1>6, Zenon DEF Playgrounds!Arrives
  <2>2. calls' = calls \ {c}
    BY <1>6 DEF Playgrounds!Arrives
  <2> DEFINE m == [local EXCEPT !.loading = FALSE, !.result = result]
  <2>3. m.loading = FALSE
    BY <1>6 DEF PFields
  <2>4. local' = m \/ local' = Playgrounds!Crashed
    BY <2>1, Zenon DEF Playgrounds!Rendered
  <2> HIDE DEF m
  <2>5. CASE local' = m
    <3>1. local'.loading = FALSE
      BY <2>3, <2>5
    <3> QED BY <1>6, <1>a, <2>2, <3>1, ZenonT(60)
  <2> QED BY <2>4, <2>5
<1>7. ASSUME Q, NEW c \in calls, Playgrounds!Fails(c)
      PROVE  PFlag'
  <2>1. local' = [local EXCEPT !.loading = FALSE, !.error = TRUE] /\ calls' = calls \ {c}
    BY <1>7 DEF Playgrounds!Fails
  <2>2. local'.loading = FALSE
    BY <1>7, <2>1 DEF PFields
  <2> QED BY <1>7, <1>a, <2>1, <2>2
<1>8. ASSUME Q, NEW list, Playgrounds!CatalogEffect(list)
      PROVE  PFlag'
  <2>1. calls' = calls
    BY <1>8 DEF Playgrounds!CatalogEffect
  <2>2. PICK n : local' = [local EXCEPT !.selected = n] \/ local' = local
    BY <1>8, Zenon DEF Playgrounds!CatalogEffect
  <2>3. local'.loading = local.loading
    BY <1>8, <2>2 DEF PFields
  <2> QED BY <1>8, <1>s, <2>1, <2>3
<1>9. ASSUME Q, Playgrounds!ViewNext
      PROVE  PFlag' \/ local' = Playgrounds!Crashed
  <2> HIDE DEF Q
  <2> QED BY <1>2, <1>3, <1>4, <1>5, <1>6, <1>7, <1>9, Zenon
          DEF Playgrounds!ViewNext, Playgrounds!HandleExecute, Playgrounds!HandleSearch
<1> HIDE DEF Q
<1>10. Q \/ \E view : Playgrounds!Mount(view)
  BY Zenon DEF Q
<1> QED BY <1>1, <1>8, <1>9, <1>10, Zenon

\* The storage tools.
LEMMA ToolsFlag ==
  ASSUME Tools!Mount \/ (MFlag /\ Tools!ViewNext)
  PROVE  MFlag'
<1>1. CASE Tools!Mount
  BY <1>1 DEF Tools!Mount, Tools!Fresh, MFlag
<1>2. ASSUME MFlag, NEW tool, Tools!Start(tool)
      PROVE  MFlag'
  <2> DEFINE q == [op |-> tool]
  <2>1. local' = [local EXCEPT !.running = @ \cup {tool}] /\ calls' = calls \cup {q}
    BY <1>2 DEF Tools!Start
  <2>2. DOMAIN local' = DOMAIN local /\ local'.running = local.running \cup {tool}
    BY <1>2, <2>1 DEF MFlag
  <2>3. q.op = tool /\ q = [op |-> q.op]
    OBVIOUS
  <2> HIDE DEF q
  <2>4. {c.op : c \in calls'} = {c.op : c \in calls} \cup {tool}
    BY <2>1, <2>3
  <2>5. \A c \in calls' : c = [op |-> c.op]
    BY <1>2, <2>1, <2>3, Zenon DEF MFlag
  <2> QED BY <1>2, <2>2, <2>4, <2>5, Zenon DEF MFlag
<1>3. ASSUME MFlag, NEW c \in calls, Tools!Done(c) \/ Tools!Fails(c)
      PROVE  MFlag'
  <2>1. calls' = calls \ {c}
    BY <1>3, Zenon DEF Tools!Done, Tools!Fails
  <2>2. \/ \E r : local' = [local EXCEPT !.running = @ \ {c.op}, !.report = r]
        \/ local' = [local EXCEPT !.running = @ \ {c.op}]
    BY <1>3, Zenon DEF Tools!Done, Tools!Fails
  <2>3. DOMAIN local' = DOMAIN local /\ local'.running = local.running \ {c.op}
    BY <1>3, <2>2, Zenon DEF MFlag
  <2>4. \A d \in calls : d.op = c.op => d = c
    BY <1>3, Zenon DEF MFlag
  <2>5. {d.op : d \in calls'} = {d.op : d \in calls} \ {c.op}
    BY <2>1, <2>4
  <2>6. \A d \in calls' : d = [op |-> d.op]
    BY <1>3, <2>1, Zenon DEF MFlag
  <2> QED BY <1>3, <2>3, <2>5, <2>6, ZenonT(60) DEF MFlag
<1> QED BY <1>1, <1>2, <1>3, ZenonT(60) DEF Tools!ViewNext

------------------------------------------------------------------------------
(* The key/value browser *)

BFields ==
  {"view", "selected", "loading", "error", "shown", "modal", "failed", "stale",
   "overlap", "of"}

\* The form and the writes in flight are about the selected bucket.
BBase(l, cs) ==
  /\ DOMAIN l = BFields
  /\ l.view = "buckets"
  /\ l.modal => l.of = l.selected /\ l.selected # Buckets!Nothing
  /\ \A c \in cs : c.op # "scan" /\ ~c.unsure => c.name = c.of

\* The scans in flight and the rows are of the selected bucket.
BRows(l, cs) ==
  /\ ~l.stale /\ ~l.overlap => \A c \in cs : c.op = "scan" => c.name = l.selected
  /\ ~l.loading /\ l.shown # Buckets!Nothing /\ ~l.failed /\ ~l.stale /\ ~l.overlap
       => l.shown = l.selected

BInv(l, cs) == BBase(l, cs) /\ BRows(l, cs)

-----------------------------------------------------------------------------

\* loadEntries establishes BRows when it sends a scan: the scan is of the selected
\* bucket or stale, and alone in flight or overlapping.
LEMMA LoadEntriesRows ==
  ASSUME NEW l, NEW others, NEW name,
         BBase(l, others),
         name = Buckets!Nothing => BRows(l, others),
         Buckets!LoadEntries(l, others, name)
  PROVE  BInv(local', calls')
<1>1. CASE name = Buckets!Nothing
  <2>1. local' = l /\ calls' = others
    BY <1>1 DEF Buckets!LoadEntries
  <2> QED BY <1>1, <2>1 DEF BInv
<1>2. CASE name # Buckets!Nothing
  <2>1. local' = [l EXCEPT !.loading = TRUE, !.error = FALSE,
                           !.stale = name # l.selected,
                           !.overlap = Buckets!Scans(others) # {}]
    BY <1>2 DEF Buckets!LoadEntries
  <2>2. PICK id : calls' = others \cup {[op |-> "scan", id |-> id, name |-> name,
                                         of |-> name, unsure |-> FALSE]}
    BY <1>2, Zenon DEF Buckets!LoadEntries
  <2> DEFINE q == [op |-> "scan", id |-> id, name |-> name, of |-> name, unsure |-> FALSE]
  <2>3. q.op = "scan" /\ q.name = name
    OBVIOUS
  <2>4. calls' = others \cup {q}
    BY <2>2
  <2> HIDE DEF q
  <2>5. DOMAIN local' = BFields
    BY <2>1 DEF BBase
  <2>6. /\ local'.view = l.view /\ local'.selected = l.selected
        /\ local'.modal = l.modal /\ local'.of = l.of
    BY <2>1 DEF BBase, BFields
  <2>7. local'.loading
    BY <2>1 DEF BBase, BFields
  <2>8. ~local'.stale => l.selected = name
    BY <2>1, Zenon DEF BBase, BFields
  <2>9. ~local'.overlap => Buckets!Scans(others) = {}
    BY <2>1, Zenon DEF BBase, BFields
  <2>10. BBase(local', calls')
    BY <2>3, <2>4, <2>5, <2>6 DEF BBase
  <2>11. ~local'.overlap => \A c \in calls' : c.op = "scan" => c = q
    BY <2>4, <2>9 DEF Buckets!Scans
  <2>12. BRows(local', calls')
    BY <2>3, <2>6, <2>7, <2>8, <2>11 DEF BRows
  <2> QED BY <2>10, <2>12 DEF BInv
<1> QED BY <1>1, <1>2

\* A change of the selection scans what is newly selected.
LEMMA SelectBucketRows ==
  ASSUME NEW l, NEW name, BInv(l, calls),
         name # l.selected => name # Buckets!Nothing /\ ~l.modal,
         Buckets!Select(l, name)
  PROVE  BInv(local', calls')
<1>1. CASE name = l.selected
  BY <1>1 DEF Buckets!Select
<1>2. CASE name # l.selected
  <2> DEFINE m == [l EXCEPT !.selected = name]
  <2>1. Buckets!LoadEntries(m, calls, name)
    BY <1>2 DEF Buckets!Select
  <2>2. DOMAIN m = BFields
    BY DEF BInv, BBase
  <2>3. m.view = l.view /\ m.modal = l.modal
    BY DEF BInv, BBase, BFields
  <2> HIDE DEF m
  <2>4. BBase(m, calls)
    BY <1>2, <2>2, <2>3 DEF BInv, BBase
  <2> QED BY <1>2, <2>1, <2>4, LoadEntriesRows
<1> QED BY <1>1, <1>2

\* Fewer requests in flight leave the invariant as it is.
LEMMA FewerBucketCalls ==
  ASSUME NEW l, NEW cs, NEW ds, BInv(l, cs), ds \subseteq cs
  PROVE  BInv(l, ds)
BY DEF BInv, BBase, BRows

\* A state that differs in its messages and its form only.
BAlike(l, m) ==
  /\ DOMAIN m = BFields
  /\ m.view = l.view /\ m.selected = l.selected /\ m.loading = l.loading
  /\ m.shown = l.shown /\ m.failed = l.failed /\ m.stale = l.stale
  /\ m.overlap = l.overlap

\* Such a change keeps the invariant if an open form is about the selected bucket.
LEMMA BAlikeRows ==
  ASSUME NEW l, NEW m, NEW cs, BInv(l, cs), BAlike(l, m),
         m.modal => m.of = m.selected /\ m.selected # Buckets!Nothing
  PROVE  BInv(m, cs)
<1>1. BBase(m, cs)
  BY DEF BInv, BBase, BAlike
<1>2. BRows(m, cs)
  BY DEF BInv, BRows, BAlike
<1> QED BY <1>1, <1>2 DEF BInv

\* The component is mounted.
LEMMA MountBuckets ==
  ASSUME Buckets!Mount
  PROVE  BInv(local', calls')
<1> DEFINE f == Buckets!First(catalog)
           m == [Buckets!Fresh EXCEPT !.selected = f]
<1>1. Buckets!LoadEntries(m, {}, f)
  BY DEF Buckets!Mount
<1>2. DOMAIN m = BFields
  BY DEF Buckets!Fresh, BFields
<1>3. m.view = "buckets" /\ m.shown = Buckets!Nothing /\ ~m.modal
  BY DEF Buckets!Fresh
<1> HIDE DEF m
<1>4. BBase(m, {})
  BY <1>2, <1>3 DEF BBase
<1>5. BRows(m, {})
  BY <1>3 DEF BRows
<1> QED BY <1>1, <1>4, <1>5, LoadEntriesRows

\* A catalog arrives: it selects a bucket only if none is selected, so it leaves an
\* open form alone.
LEMMA CatalogBuckets ==
  ASSUME NEW list, BInv(local, calls), Buckets!CatalogEffect(list)
  PROVE  BInv(local', calls')
<1> DEFINE kept == Buckets!Kept(local, list)
<1>1. Buckets!Select(local, kept)
  BY DEF Buckets!CatalogEffect
<1>2. kept # local.selected => kept # Buckets!Nothing /\ ~local.modal
  BY DEF Buckets!Kept, BInv, BBase
<1> QED BY <1>1, <1>2, SelectBucketRows

-----------------------------------------------------------------------------

\* A write is sent.
LEMMA SendBuckets ==
  ASSUME NEW op, NEW of, NEW unsure, op # "scan",
         BInv(local, calls), ~unsure => of = local.selected,
         Buckets!Send(op, of, unsure)
  PROVE  BInv(local, calls')
<1>1. PICK id : calls' = calls \cup {[op |-> op, id |-> id, name |-> local.selected,
                                      of |-> of, unsure |-> unsure]}
  BY DEF Buckets!Send
<1> DEFINE w == [op |-> op, id |-> id, name |-> local.selected, of |-> of, unsure |-> unsure]
<1>2. w.op = op /\ w.name = local.selected /\ w.of = of /\ w.unsure = unsure
  OBVIOUS
<1>3. calls' = calls \cup {w}
  BY <1>1
<1> HIDE DEF w
<1>4. BBase(local, calls')
  BY <1>2, <1>3 DEF BInv, BBase
<1>5. BRows(local, calls')
  BY <1>2, <1>3 DEF BInv, BRows
<1> QED BY <1>4, <1>5 DEF BInv

\* The answers preserve the invariant, in whichever order they arrive.
LEMMA AnswerBuckets ==
  ASSUME NEW c \in calls, BInv(local, calls), Buckets!Answer(c)
  PROVE  BInv(local', calls')
<1>0. DOMAIN local = BFields
  BY DEF BInv, BBase
<1>f. BInv(local, calls \ {c})
  BY FewerBucketCalls
<1>1. CASE c.op = "scan" /\ Buckets!EntriesArrive(c)
  <2>1. /\ calls' = calls \ {c}
        /\ local' = [local EXCEPT !.loading = FALSE, !.shown = c.name, !.failed = FALSE]
    BY <1>1 DEF Buckets!EntriesArrive
  <2>2. /\ DOMAIN local' = BFields
        /\ local'.view = local.view /\ local'.selected = local.selected
        /\ local'.shown = c.name /\ local'.modal = local.modal /\ local'.of = local.of
    BY <1>0, <2>1 DEF BFields
  <2>3. local'.stale = local.stale /\ local'.overlap = local.overlap
    BY <1>0, <2>1 DEF BFields
  <2>4. BBase(local', calls')
    BY <1>f, <2>1, <2>2 DEF BInv, BBase
  <2>5. ~local.stale /\ ~local.overlap => c.name = local.selected
    BY <1>1 DEF BInv, BRows
  <2>6. BRows(local', calls')
    BY <1>f, <2>1, <2>2, <2>3, <2>5 DEF BInv, BRows
  <2> QED BY <2>4, <2>6 DEF BInv
<1>2. CASE Buckets!EntriesFail(c)
  <2>1. /\ calls' = calls \ {c}
        /\ local' = [local EXCEPT !.loading = FALSE, !.error = TRUE, !.failed = TRUE]
    BY <1>2 DEF Buckets!EntriesFail
  <2>2. /\ DOMAIN local' = BFields
        /\ local'.view = local.view /\ local'.selected = local.selected
        /\ local'.modal = local.modal /\ local'.of = local.of
    BY <1>0, <2>1 DEF BFields
  <2>3. local'.stale = local.stale /\ local'.overlap = local.overlap /\ local'.failed
    BY <1>0, <2>1 DEF BFields
  <2>4. BBase(local', calls')
    BY <1>f, <2>1, <2>2 DEF BInv, BBase
  <2>5. BRows(local', calls')
    BY <1>f, <2>1, <2>2, <2>3 DEF BInv, BRows
  <2> QED BY <2>4, <2>5 DEF BInv
<1>3. CASE Buckets!PutDone(c)
  <2> DEFINE m == [local EXCEPT !.modal = FALSE, !.of = Buckets!Nothing]
  <2>1. Buckets!LoadEntries(m, calls \ {c}, c.name)
    BY <1>3 DEF Buckets!PutDone
  <2>2. BAlike(local, m) /\ ~m.modal
    BY <1>0 DEF BAlike, BFields
  <2> HIDE DEF m
  <2>3. BInv(m, calls \ {c})
    BY <1>f, <2>2, BAlikeRows
  <2> QED BY <2>1, <2>3, LoadEntriesRows DEF BInv
<1>4. CASE Buckets!RowDone(c)
  <2>1. Buckets!LoadEntries(local, calls \ {c}, c.name)
    BY <1>4 DEF Buckets!RowDone
  <2> QED BY <1>f, <2>1, LoadEntriesRows DEF BInv
<1>5. CASE Buckets!WriteFails(c)
  <2>1. calls' = calls \ {c} /\ local' = [local EXCEPT !.error = TRUE]
    BY <1>5 DEF Buckets!WriteFails
  <2>2. BAlike(local, local') /\ local'.modal = local.modal /\ local'.of = local.of
    BY <1>0, <2>1 DEF BAlike, BFields
  <2>3. local'.modal => local'.of = local'.selected /\ local'.selected # Buckets!Nothing
    BY <2>2 DEF BAlike, BInv, BBase
  <2> QED BY <1>f, <2>1, <2>2, <2>3, BAlikeRows, Zenon
<1> QED BY <1>1, <1>2, <1>3, <1>4, <1>5 DEF Buckets!Answer

\* Every step of the key/value browser preserves its invariant.
LEMMA BucketsStep ==
  ASSUME BInv(local, calls), Buckets!ViewNext
  PROVE  BInv(local', calls')
<1>0. DOMAIN local = BFields
  BY DEF BInv, BBase
<1>1. ASSUME NEW n \in Buckets!Name, Buckets!SelectBucket(n)
      PROVE  BInv(local', calls')
  <2>1. n # Buckets!Nothing
    BY DEF Buckets!Name, Buckets!Nothing
  <2> QED BY <1>1, <2>1, SelectBucketRows DEF Buckets!SelectBucket, Buckets!Uncovered
<1>2. CASE Buckets!Scan
  BY <1>2, LoadEntriesRows DEF Buckets!Scan, BInv
<1>3. CASE Buckets!OpenForm
  <2>1. /\ calls' = calls /\ local.selected # Buckets!Nothing
        /\ local' = [local EXCEPT !.modal = TRUE, !.of = local.selected]
    BY <1>3 DEF Buckets!OpenForm
  <2>2. BAlike(local, local') /\ local'.of = local.selected
    BY <1>0, <2>1 DEF BAlike, BFields
  <2>3. local'.of = local'.selected /\ local'.selected # Buckets!Nothing
    BY <2>1, <2>2 DEF BAlike
  <2> QED BY <2>1, <2>2, <2>3, BAlikeRows, Zenon
<1>4. CASE Buckets!CloseForm
  <2>1. calls' = calls /\ local' = [local EXCEPT !.modal = FALSE, !.of = Buckets!Nothing]
    BY <1>4 DEF Buckets!CloseForm
  <2>2. BAlike(local, local') /\ ~local'.modal
    BY <1>0, <2>1 DEF BAlike, BFields
  <2> QED BY <2>1, <2>2, BAlikeRows, Zenon
<1>5. CASE Buckets!HandlePut
  <2>1. Buckets!Send("put", local.of, FALSE) /\ local.modal
    BY <1>5, Zenon DEF Buckets!HandlePut
  <2>2. local' = [local EXCEPT !.error = FALSE]
    BY <1>5 DEF Buckets!HandlePut
  <2>3. local.of = local.selected /\ local.selected # Buckets!Nothing
    BY <2>1 DEF BInv, BBase
  <2>4. BInv(local, calls')
    BY <2>1, <2>3, SendBuckets, Zenon
  <2>5. BAlike(local, local') /\ local'.of = local.of
    BY <1>0, <2>2 DEF BAlike, BFields
  <2>6. local'.of = local'.selected /\ local'.selected # Buckets!Nothing
    BY <2>3, <2>5 DEF BAlike
  <2> QED BY <2>4, <2>5, <2>6, BAlikeRows
<1>6. CASE Buckets!HandlePutEmpty
  <2>1. calls' = calls /\ local.modal /\ local' = [local EXCEPT !.error = TRUE]
    BY <1>6 DEF Buckets!HandlePutEmpty
  <2>2. BAlike(local, local') /\ local'.of = local.of
    BY <1>0, <2>1 DEF BAlike, BFields
  <2>3. local'.of = local'.selected /\ local'.selected # Buckets!Nothing
    BY <2>1, <2>2 DEF BAlike, BInv, BBase
  <2> QED BY <2>1, <2>2, <2>3, BAlikeRows, Zenon
<1>7. ASSUME NEW op \in {"delete", "increment"}, Buckets!HandleRow(op)
      PROVE  BInv(local', calls')
  <2>1. /\ Buckets!Send(op, local.shown, Buckets!Doubtful(local))
        /\ Buckets!Rows(local)
        /\ local' = local
    BY <1>7 DEF Buckets!HandleRow
  <2>2. ~Buckets!Doubtful(local) => local.shown = local.selected
    BY <2>1 DEF Buckets!Doubtful, Buckets!Rows, BInv, BRows
  <2>3. BInv(local, calls')
    BY <2>1, <2>2, SendBuckets
  <2> QED BY <2>1, <2>3
<1>8. ASSUME NEW c \in calls, Buckets!Answer(c)
      PROVE  BInv(local', calls')
  BY <1>8, AnswerBuckets
<1> QED BY <1>1, <1>2, <1>3, <1>4, <1>5, <1>6, <1>7, <1>8 DEF Buckets!ViewNext

\* Only the mounted browser takes a step.
LEMMA BucketsMounted ==
  ASSUME Buckets!ViewNext
  PROVE  local.view = "buckets"
BY Zenon DEF Buckets!ViewNext, Buckets!SelectBucket, Buckets!Scan, Buckets!OpenForm,
       Buckets!CloseForm, Buckets!HandlePut, Buckets!HandlePutEmpty, Buckets!HandleRow,
       Buckets!Answer, Buckets!Uncovered, Buckets!Mounted

\* The invariant tells which view it is about.
LEMMA BView ==
  ASSUME NEW l, NEW cs, BInv(l, cs)
  PROVE  "view" \in DOMAIN l /\ l.view = "buckets"
BY DEF BInv, BBase, BFields

------------------------------------------------------------------------------
(* The document browser *)

Fields ==
  {"view", "selected", "loading", "error", "latest", "shown", "from", "modal",
   "failed", "stale", "of", "unsure"}

\* Requests are numbered up to the newest, and what is shown comes from one of
\* them; the form and the writes in flight are about the selected collection.
CBase(l, cs) ==
  /\ DOMAIN l = Fields
  /\ l.view = "collections"
  /\ l.latest \in Nat /\ l.from \in Nat /\ l.from <= l.latest
  /\ \A c \in cs : c.op = "query" => c.id \in Nat /\ c.id <= l.latest
  /\ l.modal = "form" /\ ~l.unsure => l.of = l.selected
  /\ \A c \in cs : c.op \in {"save", "delete"} /\ ~c.unsure => c.name = c.of

\* The newest query and the rows are of the selected collection.
CRows(l, cs) ==
  /\ \A c \in cs : c.op = "query" /\ c.id = l.latest /\ ~l.stale /\ l.selected # Collections!Nothing
                     => c.name = l.selected
  /\ ~l.loading /\ l.shown # Collections!Nothing /\ ~l.failed /\ ~l.stale /\ l.selected # Collections!Nothing
       => l.shown = l.selected

CInv(l, cs) == CBase(l, cs) /\ CRows(l, cs)

\* The component goes on asking, or shows the answer to its newest request.
Advances(l, m) ==
  /\ m.view = l.view
  /\ m.latest \in Nat /\ m.from \in Nat /\ m.from <= m.latest
  /\ \/ m.from = l.from /\ m.latest >= l.latest
     \/ m.from = l.latest /\ m.latest = l.latest

-----------------------------------------------------------------------------

\* loadDocuments establishes what it is called without: the newest query, whose
\* answer alone can be shown from now on, is the one it sends.
LEMMA LoadDocumentsRows ==
  ASSUME NEW l, NEW others, NEW name,
         CBase(l, others),
         name = Collections!Nothing => CRows(l, others),
         Collections!LoadDocuments(l, others, name)
  PROVE  CInv(local', calls') /\ Advances(l, local') /\ local'.selected = l.selected
<1>1. CASE name = Collections!Nothing
  <2>1. local' = l /\ calls' = others
    BY <1>1 DEF Collections!LoadDocuments
  <2> QED BY <1>1, <2>1 DEF CInv, CBase, Advances
<1>2. CASE name # Collections!Nothing
  <2> DEFINE q == Collections!Query(l.latest + 1, name)
  <2>1. local' = [l EXCEPT !.latest = @ + 1, !.loading = TRUE, !.error = FALSE,
                           !.failed = FALSE, !.stale = name # l.selected]
    BY <1>2 DEF Collections!LoadDocuments
  <2>2. calls' = others \cup {q}
    BY <1>2 DEF Collections!LoadDocuments
  <2>3. DOMAIN local' = Fields
    BY <2>1 DEF CBase
  <2>4. /\ local'.view = l.view /\ local'.from = l.from
        /\ local'.latest = l.latest + 1 /\ local'.selected = l.selected
        /\ local'.modal = l.modal /\ local'.of = l.of /\ local'.unsure = l.unsure
    BY <2>1 DEF CBase, Fields
  <2>5. local'.loading
    BY <2>1 DEF CBase, Fields
  <2>6. ~local'.stale => l.selected = name
    BY <2>1, Zenon DEF CBase, Fields
  <2>7. q.op = "query" /\ q.id = l.latest + 1 /\ q.name = name
    BY DEF Collections!Query
  <2>8. CBase(local', calls')
    BY <2>2, <2>3, <2>4, <2>7 DEF CBase
  <2>9. CRows(local', calls')
    BY <2>2, <2>4, <2>5, <2>6, <2>7 DEF CRows, CBase
  <2>10. Advances(l, local')
    BY <2>4 DEF Advances, CBase
  <2> QED BY <2>4, <2>8, <2>9, <2>10 DEF CInv
<1> QED BY <1>1, <1>2

\* A change of the selection loads what is newly selected; a selection that goes
\* away leaves rows that are in doubt.
LEMMA SelectRows ==
  ASSUME NEW l, NEW name, CInv(l, calls),
         name # l.selected /\ l.modal = "form" => l.unsure,
         Collections!Select(l, name)
  PROVE  CInv(local', calls') /\ Advances(l, local')
<1>1. CASE name = l.selected
  <2>1. local' = l /\ calls' = calls
    BY <1>1 DEF Collections!Select
  <2> QED BY <2>1 DEF CInv, CBase, Advances
<1>2. CASE name # l.selected
  <2> DEFINE m == [l EXCEPT !.selected = name]
  <2>1. Collections!LoadDocuments(m, calls, name)
    BY <1>2 DEF Collections!Select
  <2>2. DOMAIN m = Fields
    BY DEF CInv, CBase
  <2>3. /\ m.view = l.view /\ m.from = l.from /\ m.latest = l.latest
        /\ m.selected = name /\ m.modal = l.modal /\ m.of = l.of /\ m.unsure = l.unsure
    BY DEF CInv, CBase, Fields
  <2> HIDE DEF m
  <2>4. CBase(m, calls)
    BY <1>2, <2>2, <2>3 DEF CInv, CBase
  <2>5. name = Collections!Nothing => CRows(m, calls)
    BY <2>3 DEF CRows
  <2>6. CInv(local', calls') /\ Advances(m, local')
    BY <2>1, <2>4, <2>5, LoadDocumentsRows
  <2> QED BY <2>3, <2>6 DEF Advances
<1> QED BY <1>1, <1>2

\* Fewer requests in flight leave the invariant as it is.
LEMMA FewerCalls ==
  ASSUME NEW l, NEW cs, NEW ds, CInv(l, cs), ds \subseteq cs
  PROVE  CInv(l, ds)
BY DEF CInv, CBase, CRows

\* A state that differs in its messages and its modal only.
Alike(l, m) ==
  /\ DOMAIN m = Fields
  /\ m.view = l.view /\ m.selected = l.selected /\ m.loading = l.loading
  /\ m.latest = l.latest /\ m.from = l.from /\ m.shown = l.shown
  /\ m.failed = l.failed /\ m.stale = l.stale

LEMMA AlikeRows ==
  ASSUME NEW l, NEW m, NEW cs, CInv(l, cs), Alike(l, m),
         m.modal = "form" /\ ~m.unsure => m.of = m.selected
  PROVE  CInv(m, cs) /\ Advances(l, m)
<1>1. CBase(m, cs)
  BY DEF CInv, CBase, Alike
<1>2. CRows(m, cs)
  BY DEF CInv, CRows, Alike
<1> QED BY <1>1, <1>2 DEF CInv, CBase, Advances, Alike

\* The modal is closed.
LEMMA ClosedAlike ==
  ASSUME NEW l, DOMAIN l = Fields
  PROVE  Alike(l, Collections!Closed(l)) /\ Collections!Closed(l).modal = "closed"
BY DEF Collections!Closed, Alike, Fields

\* The component is mounted.
LEMMA MountRows ==
  ASSUME Collections!Mount
  PROVE  CInv(local', calls') /\ local'.latest \in {0, 1} /\ local'.from = 0
<1> DEFINE f == Collections!First(catalog)
           m == [Collections!Fresh EXCEPT !.selected = f]
<1>1. Collections!LoadDocuments(m, {}, f)
  BY DEF Collections!Mount
<1>2. DOMAIN m = Fields
  BY DEF Collections!Fresh, Fields
<1>3. /\ m.view = "collections" /\ m.from = 0 /\ m.latest = 0 /\ m.shown = Collections!Nothing
      /\ m.modal = "closed" /\ m.selected = f
  BY DEF Collections!Fresh
<1> HIDE DEF m
<1>4. CBase(m, {})
  BY <1>2, <1>3 DEF CBase
<1>5. CRows(m, {})
  BY <1>3 DEF CRows
<1>6. CInv(local', calls') /\ Advances(m, local')
  BY <1>1, <1>4, <1>5, LoadDocumentsRows
<1>7. local'.from = 0
  BY <1>3, <1>6 DEF Advances
<1>8. local'.latest \in {0, 1}
  <2>1. CASE f = Collections!Nothing
    <3>1. local' = m
      BY <1>1, <2>1 DEF Collections!LoadDocuments
    <3> QED BY <1>3, <3>1
  <2>2. CASE f # Collections!Nothing
    <3>1. local' = [m EXCEPT !.latest = @ + 1, !.loading = TRUE, !.error = FALSE,
                             !.failed = FALSE, !.stale = f # m.selected]
      BY <1>1, <2>2 DEF Collections!LoadDocuments
    <3> QED BY <1>2, <1>3, <3>1 DEF Fields
  <2> QED BY <2>1, <2>2
<1> QED BY <1>6, <1>7, <1>8

\* A catalog arrives.
LEMMA CatalogEffectRows ==
  ASSUME NEW list, CInv(local, calls), Collections!CatalogEffect(list)
  PROVE  CInv(local', calls') /\ Advances(local, local')
<1> DEFINE m == [local EXCEPT !.unsure = @ \/ (local.modal = "form" /\ local.selected \notin list)]
           kept == Collections!Kept(local, list)
<1>1. Collections!Select(m, kept)
  BY DEF Collections!CatalogEffect
<1>2. Alike(local, m) /\ m.modal = local.modal /\ m.of = local.of
  BY DEF Alike, Fields, CInv, CBase
<1>3. ~m.unsure => ~local.unsure /\ (local.modal = "form" => local.selected \in list)
  BY Zenon DEF CInv, CBase, Fields
<1> HIDE DEF m
<1>4. m.modal = "form" /\ ~m.unsure => m.of = m.selected
  BY <1>2, <1>3 DEF CInv, CBase, Alike
<1>5. CInv(m, calls) /\ Advances(local, m)
  BY <1>2, <1>4, AlikeRows
<1>6. kept # m.selected /\ m.modal = "form" => m.unsure
  BY <1>2, <1>3 DEF Alike, Collections!Kept
<1>7. CInv(local', calls') /\ Advances(m, local')
  BY <1>1, <1>5, <1>6, SelectRows
<1> QED BY <1>2, <1>7 DEF Advances, Alike

-----------------------------------------------------------------------------

\* A save or a deletion is sent.
LEMMA WritingRows ==
  ASSUME NEW op, NEW of, NEW unsure, op \in {"save", "delete"},
         CInv(local, calls), ~unsure => of = local.selected,
         Collections!Writing(op, of, unsure)
  PROVE  CInv(local, calls')
<1>1. PICK id : calls' = calls \cup {[op |-> op, id |-> id, name |-> local.selected,
                                      of |-> of, unsure |-> unsure]}
  BY DEF Collections!Writing
<1> DEFINE w == [op |-> op, id |-> id, name |-> local.selected, of |-> of, unsure |-> unsure]
<1>2. w.op = op /\ w.name = local.selected /\ w.of = of /\ w.unsure = unsure
  OBVIOUS
<1>3. calls' = calls \cup {w}
  BY <1>1
<1> HIDE DEF w
<1>4. CBase(local, calls')
  BY <1>2, <1>3 DEF CInv, CBase
<1>5. CRows(local, calls')
  BY <1>2, <1>3 DEF CInv, CRows
<1> QED BY <1>4, <1>5 DEF CInv

\* What the user does preserves the invariant.
LEMMA UserRows ==
  ASSUME CInv(local, calls), Collections!UserNext
  PROVE  CInv(local', calls') /\ Advances(local, local')
<1> USE DEF Collections!Uncovered
<1>0. DOMAIN local = Fields
  BY DEF CInv, CBase
<1>s. CInv(local, calls) /\ Advances(local, local)
  BY DEF CInv, CBase, Advances
<1>1. ASSUME NEW n \in Collections!Name, Collections!SelectCollection(n)
      PROVE  CInv(local', calls') /\ Advances(local, local')
  BY <1>1, SelectRows DEF Collections!SelectCollection
<1>2. CASE Collections!Reload
  <2>1. CBase(local, calls) /\ CRows(local, calls)
    BY DEF CInv
  <2> QED BY <1>2, <2>1, LoadDocumentsRows DEF Collections!Reload
<1>3. CASE Collections!View
  <2>1. calls' = calls /\ local' = [local EXCEPT !.modal = "viewer"]
    BY <1>3 DEF Collections!View
  <2>2. Alike(local, local') /\ local'.modal = "viewer"
    BY <1>0, <2>1 DEF Alike, Fields
  <2> QED BY <2>1, <2>2, AlikeRows, Zenon
<1>4. CASE Collections!HandleOpenCreate
  <2>1. calls' = calls /\ local' = [local EXCEPT !.modal = "form", !.of = local.selected,
                                                 !.unsure = FALSE]
    BY <1>4 DEF Collections!HandleOpenCreate
  <2>2. Alike(local, local') /\ local'.of = local.selected
    BY <1>0, <2>1 DEF Alike, Fields
  <2>3. local'.of = local'.selected
    BY <2>2 DEF Alike
  <2> QED BY <2>1, <2>2, <2>3, AlikeRows, Zenon
<1>5. CASE Collections!HandleOpenEdit
  <2>1. /\ calls' = calls
        /\ local' = [local EXCEPT !.modal = "form", !.of = local.shown,
                                  !.unsure = Collections!Doubtful(local)]
        /\ Collections!Rows(local)
    BY <1>5 DEF Collections!HandleOpenEdit
  <2>2. Alike(local, local') /\ local'.of = local.shown
    BY <1>0, <2>1 DEF Alike, Fields
  <2>3. ~local'.unsure => ~Collections!Doubtful(local)
    BY <1>0, <2>1, Zenon DEF Fields, Collections!Doubtful
  <2>4. ~local'.unsure => local.shown = local.selected
    BY <2>1, <2>3 DEF Collections!Doubtful, Collections!Rows, CInv, CRows
  <2>5. ~local'.unsure => local'.of = local'.selected
    BY <2>2, <2>4 DEF Alike
  <2> QED BY <2>1, <2>2, <2>5, AlikeRows, Zenon
<1>6. CASE Collections!CloseModal
  <2>1. calls' = calls /\ local' = Collections!Closed(local)
    BY <1>6 DEF Collections!CloseModal
  <2> QED BY <1>0, <2>1, ClosedAlike, AlikeRows
<1>7. CASE Collections!HandleSaveDocument
  <2>1. /\ Collections!Writing("save", local.of, local.unsure)
        /\ local.modal = "form"
        /\ local' = [local EXCEPT !.error = FALSE]
    BY <1>7 DEF Collections!HandleSaveDocument
  <2>2. ~local.unsure => local.of = local.selected
    BY <2>1 DEF CInv, CBase
  <2>3. CInv(local, calls')
    BY <2>1, <2>2, WritingRows
  <2>4. /\ Alike(local, local') /\ local'.modal = local.modal
        /\ local'.of = local.of /\ local'.unsure = local.unsure
    BY <1>0, <2>1 DEF Alike, Fields
  <2>5. ~local'.unsure => local'.of = local'.selected
    BY <2>2, <2>4 DEF Alike
  <2> QED BY <2>3, <2>4, <2>5, AlikeRows
<1>8. CASE Collections!HandleSaveInvalid
  <2>1. calls' = calls /\ local' = [local EXCEPT !.error = TRUE]
    BY <1>8 DEF Collections!HandleSaveInvalid
  <2>2. /\ Alike(local, local') /\ local'.modal = local.modal
        /\ local'.of = local.of /\ local'.unsure = local.unsure
    BY <1>0, <2>1 DEF Alike, Fields
  <2>3. local'.modal = "form" /\ ~local'.unsure => local'.of = local'.selected
    BY <2>2 DEF Alike, CInv, CBase
  <2> QED BY <2>1, <2>2, <2>3, AlikeRows, Zenon
<1>9. CASE Collections!HandleDelete
  <2>1. /\ Collections!Writing("delete", local.shown, Collections!Doubtful(local))
        /\ Collections!Rows(local)
        /\ local' = local
    BY <1>9 DEF Collections!HandleDelete
  <2>2. ~Collections!Doubtful(local) => local.shown = local.selected
    BY <2>1 DEF Collections!Doubtful, Collections!Rows, CInv, CRows
  <2>3. CInv(local, calls')
    BY <2>1, <2>2, WritingRows
  <2> QED BY <1>s, <2>1, <2>3
<1> QED BY <1>1, <1>2, <1>3, <1>4, <1>5, <1>6, <1>7, <1>8, <1>9 DEF Collections!UserNext

\* So do the answers, in whichever order they arrive.
LEMMA AnswerRows ==
  ASSUME NEW c \in calls, CInv(local, calls), Collections!Answer(c)
  PROVE  CInv(local', calls') /\ Advances(local, local')
<1>0. DOMAIN local = Fields
  BY DEF CInv, CBase
<1>s. Advances(local, local)
  BY DEF CInv, CBase, Advances
<1>f. CInv(local, calls \ {c})
  BY FewerCalls
<1>1. CASE c.op = "query" /\ Collections!DocumentsArrive(c)
  <2>1. calls' = calls \ {c}
    BY <1>1 DEF Collections!DocumentsArrive
  <2>2. CASE c.id # local.latest
    <3>1. local' = local
      BY <1>1, <2>2 DEF Collections!DocumentsArrive
    <3> QED BY <1>f, <1>s, <2>1, <3>1
  <2>3. CASE c.id = local.latest
    <3>1. local' = [local EXCEPT !.loading = FALSE, !.shown = c.name, !.from = c.id]
      BY <1>1, <2>3 DEF Collections!DocumentsArrive
    <3>2. DOMAIN local' = Fields
      BY <1>0, <3>1
    <3>3. /\ local'.view = local.view /\ local'.selected = local.selected
          /\ local'.latest = local.latest /\ local'.from = c.id /\ local'.shown = c.name
          /\ local'.modal = local.modal /\ local'.of = local.of
      BY <1>0, <3>1 DEF Fields
    <3>4. /\ local'.unsure = local.unsure /\ local'.failed = local.failed
          /\ local'.stale = local.stale
      BY <1>0, <3>1 DEF Fields
    <3>5. CBase(local', calls')
      BY <1>f, <2>1, <2>3, <3>2, <3>3, <3>4 DEF CInv, CBase
    <3>6. ~local.stale /\ local.selected # Collections!Nothing => c.name = local.selected
      BY <1>1, <2>3 DEF CInv, CRows
    <3>7. CRows(local', calls')
      BY <1>f, <2>1, <3>3, <3>4, <3>6 DEF CInv, CRows
    <3>8. Advances(local, local')
      BY <2>3, <3>3 DEF Advances, CInv, CBase
    <3> QED BY <3>5, <3>7, <3>8 DEF CInv
  <2> QED BY <2>2, <2>3
<1>2. CASE c.op = "query" /\ Collections!DocumentsFail(c)
  <2>1. calls' = calls \ {c}
    BY <1>2 DEF Collections!DocumentsFail
  <2>2. CASE c.id # local.latest
    <3>1. local' = local
      BY <1>2, <2>2 DEF Collections!DocumentsFail
    <3> QED BY <1>f, <1>s, <2>1, <3>1
  <2>3. CASE c.id = local.latest
    <3>1. local' = [local EXCEPT !.loading = FALSE, !.error = TRUE, !.failed = TRUE]
      BY <1>2, <2>3 DEF Collections!DocumentsFail
    <3>2. DOMAIN local' = Fields
      BY <1>0, <3>1
    <3>3. /\ local'.view = local.view /\ local'.selected = local.selected
          /\ local'.latest = local.latest /\ local'.from = local.from
          /\ local'.modal = local.modal /\ local'.of = local.of
      BY <1>0, <3>1 DEF Fields
    <3>4. local'.unsure = local.unsure /\ local'.failed /\ local'.stale = local.stale
      BY <1>0, <3>1 DEF Fields
    <3>5. CBase(local', calls')
      BY <1>f, <2>1, <3>2, <3>3, <3>4 DEF CInv, CBase
    <3>6. CRows(local', calls')
      BY <1>f, <2>1, <3>3, <3>4 DEF CInv, CRows
    <3>7. Advances(local, local')
      BY <3>3 DEF Advances, CInv, CBase
    <3> QED BY <3>5, <3>6, <3>7 DEF CInv
  <2> QED BY <2>2, <2>3
<1>3. CASE Collections!SaveDone(c)
  <2> DEFINE m == IF local.modal = "form" THEN Collections!Closed(local) ELSE local
  <2>1. Collections!LoadDocuments(m, calls \ {c}, c.name)
    BY <1>3 DEF Collections!SaveDone
  <2>2. Alike(local, m) /\ m.modal # "form"
    BY <1>0, ClosedAlike DEF Alike
  <2> HIDE DEF m
  <2>3. CInv(m, calls \ {c})
    BY <1>f, <2>2, AlikeRows
  <2>4. CInv(local', calls') /\ Advances(m, local')
    BY <2>1, <2>3, LoadDocumentsRows DEF CInv
  <2> QED BY <2>2, <2>4 DEF Advances, Alike
<1>4. CASE Collections!DeleteDone(c)
  <2>1. Collections!LoadDocuments(local, calls \ {c}, c.name)
    BY <1>4 DEF Collections!DeleteDone
  <2> QED BY <1>f, <2>1, LoadDocumentsRows DEF CInv
<1>5. CASE Collections!WriteFails(c)
  <2>1. calls' = calls \ {c} /\ local' = [local EXCEPT !.error = TRUE]
    BY <1>5 DEF Collections!WriteFails
  <2>2. /\ Alike(local, local') /\ local'.modal = local.modal
        /\ local'.of = local.of /\ local'.unsure = local.unsure
    BY <1>0, <2>1 DEF Alike, Fields
  <2>3. local'.modal = "form" /\ ~local'.unsure => local'.of = local'.selected
    BY <2>2 DEF Alike, CInv, CBase
  <2> QED BY <1>f, <2>1, <2>2, <2>3, AlikeRows, Zenon
<1> QED BY <1>1, <1>2, <1>3, <1>4, <1>5 DEF Collections!Answer

\* Every step of the document browser preserves its invariant.
LEMMA CollectionsStep ==
  ASSUME CInv(local, calls), Collections!ViewNext
  PROVE  CInv(local', calls') /\ Advances(local, local')
BY UserRows, AnswerRows DEF Collections!ViewNext

\* Only the mounted browser takes a step.
LEMMA CollectionsMounted ==
  ASSUME Collections!ViewNext
  PROVE  local.view = "collections"
BY DEF Collections!ViewNext, Collections!UserNext, Collections!SelectCollection,
       Collections!Reload, Collections!View, Collections!HandleOpenCreate,
       Collections!HandleOpenEdit, Collections!CloseModal, Collections!HandleSaveDocument,
       Collections!HandleSaveInvalid, Collections!HandleDelete, Collections!Answer,
       Collections!Uncovered, Collections!Mounted

\* The invariant tells which view it is about.
LEMMA CView ==
  ASSUME NEW l, NEW cs, CInv(l, cs)
  PROVE  "view" \in DOMAIN l /\ l.view = "collections"
BY DEF CInv, CBase, Fields

------------------------------------------------------------------------------
(* The time-series explorer *)

TFields ==
  {"view", "selected", "loading", "error", "latest", "shown", "from", "failed", "stale"}

\* Requests are numbered up to the newest, and what is shown comes from one of
\* them.
TBase(l, cs) ==
  /\ DOMAIN l = TFields
  /\ l.view = "timeseries"
  /\ l.latest \in Nat /\ l.from \in Nat /\ l.from <= l.latest
  /\ \A c \in cs : c.op = "query" => c.id \in Nat /\ c.id <= l.latest

\* The newest query and the points are of the series in the field.
TRows(l, cs) ==
  /\ \A c \in cs : c.op = "query" /\ c.id = l.latest /\ ~l.stale
                     /\ l.selected # Series!Nothing => c.name = l.selected
  /\ ~l.loading /\ l.shown # Series!Nothing /\ ~l.failed /\ ~l.stale
       /\ l.selected # Series!Nothing => l.shown = l.selected

TInv(l, cs) == TBase(l, cs) /\ TRows(l, cs)

\* The field keeps what was typed into it.
Keeps(l, m) == l.selected \in {Series!Nothing, m.selected}

Pair == {"l", "cs"}

-----------------------------------------------------------------------------

\* loadPoints establishes TRows when there is a series: the query it sends is the
\* newest, or it has failed at once.
LEMMA LoadPointsRows ==
  ASSUME NEW s, NEW name, NEW parses \in BOOLEAN, NEW r,
         DOMAIN s = Pair,
         TBase(s.l, s.cs),
         name = Series!Nothing => TRows(s.l, s.cs),
         r = Series!LoadPoints(s, name, parses)
  PROVE  /\ DOMAIN r = Pair
         /\ TInv(r.l, r.cs)
         /\ Advances(s.l, r.l) /\ r.l.from = s.l.from
         /\ r.l.selected = s.l.selected
<1>1. CASE name = Series!Nothing
  <2>1. r = s
    BY <1>1 DEF Series!LoadPoints
  <2> QED BY <1>1, <2>1 DEF TInv, TBase, Advances
<1>2. CASE name # Series!Nothing
  <2> DEFINE id == s.l.latest + 1
             q == [op |-> "query", id |-> id, name |-> name]
  <2>1. r = [l |-> [s.l EXCEPT !.latest = id, !.loading = parses, !.error = ~parses,
                               !.failed = ~parses, !.stale = name # s.l.selected],
             cs |-> s.cs \cup IF parses THEN {q} ELSE {}]
    BY <1>2 DEF Series!LoadPoints
  <2>2. /\ DOMAIN r = Pair
        /\ r.l = [s.l EXCEPT !.latest = id, !.loading = parses, !.error = ~parses,
                             !.failed = ~parses, !.stale = name # s.l.selected]
    BY <2>1 DEF Pair
  <2>3. r.cs = s.cs \cup IF parses THEN {q} ELSE {}
    BY <2>1
  <2>4. q.op = "query" /\ q.id = id /\ q.name = name
    OBVIOUS
  <2>5. DOMAIN s.l = TFields /\ s.l.latest \in Nat
    BY DEF TBase
  <2>6. /\ DOMAIN r.l = TFields
        /\ r.l.view = s.l.view /\ r.l.from = s.l.from
        /\ r.l.latest = id /\ r.l.selected = s.l.selected
    BY <2>2, <2>5 DEF TFields
  <2>7. r.l.loading \/ r.l.failed
    BY <2>2, <2>5, Zenon DEF TFields
  <2>8. ~r.l.stale => s.l.selected = name
    BY <2>2, <2>5, Zenon DEF TFields
  <2>9. \A c \in r.cs : c \in s.cs \/ c = q
    BY <2>3
  <2> HIDE DEF q
  <2>10. TBase(r.l, r.cs)
    BY <2>4, <2>6, <2>9 DEF TBase
  <2>11. TRows(r.l, r.cs)
    BY <2>4, <2>6, <2>7, <2>8, <2>9 DEF TRows, TBase
  <2>12. Advances(s.l, r.l)
    BY <2>6 DEF Advances, TBase
  <2> QED BY <2>2, <2>6, <2>10, <2>11, <2>12 DEF TInv
<1> QED BY <1>1, <1>2

\* A change of the field loads what is newly selected.
LEMMA SelectSeries ==
  ASSUME NEW s, NEW name, NEW parses \in BOOLEAN, NEW r,
         DOMAIN s = Pair,
         TInv(s.l, s.cs),
         r = Series!Select(s, name, parses)
  PROVE  /\ TInv(r.l, r.cs)
         /\ Advances(s.l, r.l) /\ r.l.from = s.l.from
         /\ r.l.selected = name
<1>1. CASE name = s.l.selected
  <2>1. r = s
    BY <1>1 DEF Series!Select
  <2> QED BY <1>1, <2>1 DEF TInv, TBase, Advances
<1>2. CASE name # s.l.selected
  <2> DEFINE t == [s EXCEPT !.l.selected = name]
  <2>1. r = Series!LoadPoints(t, name, parses)
    BY <1>2 DEF Series!Select
  <2>2. DOMAIN t = Pair /\ t.cs = s.cs /\ t.l = [s.l EXCEPT !.selected = name]
    BY DEF Pair
  <2> HIDE DEF t
  <2>3. /\ DOMAIN t.l = TFields
        /\ t.l.view = s.l.view /\ t.l.from = s.l.from /\ t.l.latest = s.l.latest
        /\ t.l.selected = name
    BY <2>2 DEF TInv, TBase, TFields
  <2>4. TBase(t.l, t.cs)
    BY <2>2, <2>3 DEF TInv, TBase
  <2>5. name = Series!Nothing => TRows(t.l, t.cs)
    BY <2>3 DEF TRows
  <2>6. /\ TInv(r.l, r.cs) /\ Advances(t.l, r.l) /\ r.l.from = t.l.from
        /\ r.l.selected = t.l.selected
    <3>1. parses \in BOOLEAN
      OBVIOUS
    <3>2. DOMAIN t = Pair
      BY <2>2
    <3> QED BY <2>1, <2>4, <2>5, <3>1, <3>2, LoadPointsRows
  <2> QED BY <2>3, <2>6 DEF Advances
<1> QED BY <1>1, <1>2

\* Other requests in flight than queries leave the invariant as it is.
LEMMA OtherCalls ==
  ASSUME NEW l, NEW cs, NEW ds, TInv(l, cs),
         \A d \in ds : d \in cs \/ d.op # "query"
  PROVE  TInv(l, ds)
BY DEF TInv, TBase, TRows

\* So does the message of an error.
LEMMA ErrorOnly ==
  ASSUME NEW l, NEW cs, NEW e, NEW m, TInv(l, cs), m = [l EXCEPT !.error = e]
  PROVE  TInv(m, cs) /\ Advances(l, m) /\ Keeps(l, m)
<1>0. DOMAIN l = TFields
  BY DEF TInv, TBase
<1>1. /\ DOMAIN m = TFields /\ m.view = l.view /\ m.selected = l.selected
      /\ m.latest = l.latest /\ m.from = l.from /\ m.shown = l.shown
  BY <1>0 DEF TFields
<1>2. m.loading = l.loading /\ m.failed = l.failed /\ m.stale = l.stale
  BY <1>0 DEF TFields
<1>3. TBase(m, cs)
  BY <1>1 DEF TInv, TBase
<1>4. TRows(m, cs)
  BY <1>1, <1>2 DEF TInv, TRows
<1> QED BY <1>1, <1>3, <1>4 DEF TInv, TBase, Advances, Keeps

\* The component is mounted.
LEMMA MountSeries ==
  ASSUME Series!Mount
  PROVE  TInv(local', calls') /\ local'.latest = 0 /\ local'.from = 0
<1> DEFINE c == [op |-> "list", id |-> MaxRequests + 1, name |-> Series!Nothing]
<1>1. local' = Series!Fresh /\ calls' = {c}
  BY DEF Series!Mount
<1>2. c.op = "list"
  OBVIOUS
<1> HIDE DEF c
<1>3. /\ DOMAIN local' = TFields /\ local'.view = "timeseries" /\ local'.latest = 0
      /\ local'.from = 0 /\ local'.selected = Series!Nothing
  BY <1>1 DEF Series!Fresh, TFields
<1>4. TBase(local', calls')
  BY <1>1, <1>2, <1>3 DEF TBase
<1>5. TRows(local', calls')
  BY <1>3 DEF TRows
<1> QED BY <1>3, <1>4, <1>5 DEF TInv

-----------------------------------------------------------------------------

\* A request other than a query is sent.
LEMMA SendSeries ==
  ASSUME NEW op, NEW name, op # "query", TInv(local, calls), Series!Send(op, name)
  PROVE  TInv(local, calls')
<1>1. PICK id : calls' = calls \cup {[op |-> op, id |-> id, name |-> name]}
  BY DEF Series!Send
<1>2. \A d \in calls' : d \in calls \/ d.op # "query"
  BY <1>1
<1> QED BY <1>2, OtherCalls

\* What every answer does: the field keeps what was typed into it.
LEMMA AnswerSeries ==
  ASSUME NEW c \in calls, TInv(local, calls), Series!Answer(c)
  PROVE  TInv(local', calls') /\ Advances(local, local') /\ Keeps(local, local')
<1>0. DOMAIN local = TFields
  BY DEF TInv, TBase
<1>s. Advances(local, local) /\ Keeps(local, local)
  BY DEF TInv, TBase, Advances, Keeps
<1>f. TInv(local, calls \ {c})
  BY OtherCalls
<1> DEFINE w == Series!Without(c)
<1>w. DOMAIN w = Pair /\ w.l = local /\ w.cs = calls \ {c}
  BY DEF Series!Without, Pair
<1>k. ASSUME NEW name, name = Series!Chosen(local, names)
      PROVE  local.selected \in {Series!Nothing, name}
  BY <1>k DEF Series!Chosen
<1> HIDE DEF w
<1>1. CASE c.op = "query" /\ Series!PointsArrive(c)
  <2>1. CASE c.id # local.latest
    <3>1. local' = local /\ calls' = calls \ {c}
      BY <1>1, <2>1, <1>w DEF Series!PointsArrive, Series!Becomes, w
    <3> QED BY <1>f, <1>s, <3>1
  <2>2. CASE c.id = local.latest
    <3>1. /\ local' = [local EXCEPT !.loading = FALSE, !.shown = c.name, !.from = c.id]
          /\ calls' = calls \ {c}
      BY <1>1, <2>2 DEF Series!PointsArrive, Series!Becomes, Series!Without
    <3>2. /\ DOMAIN local' = TFields /\ local'.view = local.view
          /\ local'.selected = local.selected /\ local'.latest = local.latest
          /\ local'.from = c.id /\ local'.shown = c.name
      BY <1>0, <3>1 DEF TFields
    <3>3. local'.failed = local.failed /\ local'.stale = local.stale
      BY <1>0, <3>1 DEF TFields
    <3>4. TBase(local', calls')
      BY <1>f, <2>2, <3>1, <3>2 DEF TInv, TBase
    <3>5. ~local.stale /\ local.selected # Series!Nothing => c.name = local.selected
      BY <1>1, <2>2 DEF TInv, TRows
    <3>6. TRows(local', calls')
      BY <1>f, <3>1, <3>2, <3>3, <3>5 DEF TInv, TRows
    <3> QED BY <2>2, <3>2, <3>4, <3>6 DEF TInv, TBase, Advances, Keeps
  <2> QED BY <2>1, <2>2
<1>2. CASE c.op = "query" /\ Series!PointsFail(c)
  <2>1. CASE c.id # local.latest
    <3>1. local' = local /\ calls' = calls \ {c}
      BY <1>2, <2>1, <1>w DEF Series!PointsFail, Series!Becomes, w
    <3> QED BY <1>f, <1>s, <3>1
  <2>2. CASE c.id = local.latest
    <3>1. /\ local' = [local EXCEPT !.loading = FALSE, !.error = TRUE, !.failed = TRUE]
          /\ calls' = calls \ {c}
      BY <1>2, <2>2 DEF Series!PointsFail, Series!Becomes, Series!Without
    <3>2. /\ DOMAIN local' = TFields /\ local'.view = local.view
          /\ local'.selected = local.selected /\ local'.latest = local.latest
          /\ local'.from = local.from
      BY <1>0, <3>1 DEF TFields
    <3>3. local'.failed /\ local'.stale = local.stale
      BY <1>0, <3>1 DEF TFields
    <3>4. TBase(local', calls')
      BY <1>f, <3>1, <3>2 DEF TInv, TBase
    <3>5. TRows(local', calls')
      BY <1>f, <3>1, <3>2, <3>3 DEF TInv, TRows
    <3> QED BY <3>2, <3>4, <3>5 DEF TInv, TBase, Advances, Keeps
  <2> QED BY <2>1, <2>2
<1>3. CASE Series!SeriesArrive(c)
  <2> DEFINE name == Series!Chosen(local, names)
  <2>1. PICK parses \in BOOLEAN : Series!Becomes(Series!Select(w, name, parses))
    BY <1>3 DEF Series!SeriesArrive, w
  <2> DEFINE r == Series!Select(w, name, parses)
  <2>2. local' = r.l /\ calls' = r.cs
    BY <2>1 DEF Series!Becomes
  <2>3. TInv(r.l, r.cs) /\ Advances(w.l, r.l) /\ r.l.selected = name
    BY <1>f, <1>w, SelectSeries
  <2> HIDE DEF r
  <2> QED BY <1>k, <1>w, <2>2, <2>3 DEF Keeps
<1>4. CASE Series!WrittenSeriesArrive(c)
  <2> DEFINE name == Series!Chosen(local, names)
  <2>1. PICK p \in BOOLEAN, q \in BOOLEAN :
          Series!Becomes(Series!Select(Series!LoadPoints(w, c.name, p), name, q))
    BY <1>4 DEF Series!WrittenSeriesArrive, w
  <2> DEFINE t == Series!LoadPoints(w, c.name, p)
             r == Series!Select(t, name, q)
  <2>2. local' = r.l /\ calls' = r.cs
    BY <2>1 DEF Series!Becomes
  <2>3. DOMAIN t = Pair /\ TInv(t.l, t.cs) /\ Advances(w.l, t.l) /\ t.l.from = w.l.from
    <3>1. TBase(w.l, w.cs) /\ TRows(w.l, w.cs)
      BY <1>f, <1>w DEF TInv
    <3> QED BY <1>w, <3>1, LoadPointsRows
  <2> HIDE DEF t
  <2>4. TInv(r.l, r.cs) /\ Advances(t.l, r.l) /\ r.l.from = t.l.from /\ r.l.selected = name
    BY <2>3, SelectSeries
  <2> HIDE DEF r
  <2>5. Advances(local, local')
    BY <1>w, <2>2, <2>3, <2>4 DEF Advances, TInv, TBase
  <2> QED BY <1>k, <2>2, <2>4, <2>5 DEF Keeps
<1>5. CASE Series!SeriesFail(c)
  <2>1. calls' = calls \ {c} /\ local' = [local EXCEPT !.error = @ \/ c.op # "refresh"]
    BY <1>5 DEF Series!SeriesFail
  <2> QED BY <1>f, <2>1, ErrorOnly
<1>6. CASE Series!WriteDone(c)
  <2>1. /\ local' = local
        /\ calls' = (calls \ {c}) \cup {[op |-> "listed", id |-> c.id, name |-> c.name]}
    BY <1>6 DEF Series!WriteDone
  <2>2. \A d \in calls' : d \in calls \/ d.op # "query"
    BY <2>1
  <2> QED BY <1>s, <2>1, <2>2, OtherCalls
<1>7. CASE Series!PruneDone(c)
  <2>1. PICK parses \in BOOLEAN : Series!Becomes(Series!LoadPoints(w, c.name, parses))
    BY <1>7 DEF Series!PruneDone, w
  <2> DEFINE r == Series!LoadPoints(w, c.name, parses)
  <2>2. local' = r.l /\ calls' = r.cs
    BY <2>1 DEF Series!Becomes
  <2>3. TInv(r.l, r.cs) /\ Advances(w.l, r.l) /\ r.l.selected = w.l.selected
    <3>1. TBase(w.l, w.cs) /\ TRows(w.l, w.cs)
      BY <1>f, <1>w DEF TInv
    <3> QED BY <1>w, <3>1, LoadPointsRows
  <2> HIDE DEF r
  <2> QED BY <1>w, <2>2, <2>3 DEF Keeps
<1>8. CASE Series!WriteFails(c)
  <2>1. calls' = calls \ {c} /\ local' = [local EXCEPT !.error = TRUE]
    BY <1>8 DEF Series!WriteFails
  <2> QED BY <1>f, <2>1, ErrorOnly
<1> QED BY <1>1, <1>2, <1>3, <1>4, <1>5, <1>6, <1>7, <1>8 DEF Series!Answer

\* Every step of the time-series explorer preserves its invariant, and only typing
\* changes a name in the field.
LEMMA SeriesStep ==
  ASSUME TInv(local, calls), Series!ViewNext
  PROVE  /\ TInv(local', calls') /\ Advances(local, local')
         /\ \/ Keeps(local, local')
            \/ \E n \in Series!Name \cup {Series!Nothing} : Series!TypeSeries(n)
<1>0. Advances(local, local) /\ Keeps(local, local)
  BY DEF TInv, TBase, Advances, Keeps
<1>s. DOMAIN Series!State = Pair /\ Series!State.l = local /\ Series!State.cs = calls
  BY DEF Series!State, Pair
<1>1. ASSUME NEW n \in Series!Name \cup {Series!Nothing}, Series!TypeSeries(n)
      PROVE  TInv(local', calls') /\ Advances(local, local')
  <2>1. PICK parses \in BOOLEAN : Series!Becomes(Series!Select(Series!State, n, parses))
    BY <1>1 DEF Series!TypeSeries
  <2> DEFINE r == Series!Select(Series!State, n, parses)
  <2>2. local' = r.l /\ calls' = r.cs
    BY <2>1 DEF Series!Becomes
  <2>3. TInv(r.l, r.cs) /\ Advances(Series!State.l, r.l)
    BY <1>s, SelectSeries
  <2> QED BY <1>s, <2>2, <2>3
<1>2. CASE Series!RefreshSeries
  <2>1. Series!Send("refresh", Series!Nothing) /\ local' = local
    BY <1>2 DEF Series!RefreshSeries
  <2> QED BY <1>0, <2>1, SendSeries
<1>3. CASE Series!RunQuery
  <2>1. PICK parses \in BOOLEAN :
          Series!Becomes(Series!LoadPoints(Series!State, local.selected, parses))
    BY <1>3 DEF Series!RunQuery
  <2> DEFINE r == Series!LoadPoints(Series!State, local.selected, parses)
  <2>2. local' = r.l /\ calls' = r.cs
    BY <2>1 DEF Series!Becomes
  <2>3. TInv(r.l, r.cs) /\ Advances(Series!State.l, r.l) /\ r.l.selected = Series!State.l.selected
    <3>1. TBase(Series!State.l, Series!State.cs) /\ TRows(Series!State.l, Series!State.cs)
      BY <1>s DEF TInv
    <3> QED BY <1>s, <3>1, LoadPointsRows
  <2> HIDE DEF r
  <2> QED BY <1>s, <2>2, <2>3 DEF Keeps
<1>4. CASE Series!HandleWrite
  <2>1. Series!Send("write", local.selected) /\ local' = [local EXCEPT !.error = FALSE]
    BY <1>4 DEF Series!HandleWrite
  <2>2. TInv(local, calls')
    BY <2>1, SendSeries
  <2> QED BY <2>1, <2>2, ErrorOnly, Zenon
<1>5. CASE Series!HandleWriteInvalid
  BY <1>5, ErrorOnly DEF Series!HandleWriteInvalid
<1>6. CASE Series!HandlePrune
  <2>1. Series!Send("prune", local.selected) /\ local' = [local EXCEPT !.error = FALSE]
    BY <1>6 DEF Series!HandlePrune
  <2>2. TInv(local, calls')
    BY <2>1, SendSeries
  <2> QED BY <2>1, <2>2, ErrorOnly, Zenon
<1>7. ASSUME NEW c \in calls, Series!Answer(c)
      PROVE  TInv(local', calls') /\ Advances(local, local') /\ Keeps(local, local')
  BY <1>7, AnswerSeries
<1> QED BY <1>1, <1>2, <1>3, <1>4, <1>5, <1>6, <1>7 DEF Series!ViewNext

\* Only the mounted explorer takes a step.
LEMMA SeriesMounted ==
  ASSUME Series!ViewNext
  PROVE  local.view = "timeseries"
BY DEF Series!ViewNext, Series!TypeSeries, Series!RefreshSeries, Series!RunQuery,
       Series!HandleWrite, Series!HandleWriteInvalid, Series!HandlePrune, Series!Answer,
       Series!Mounted

\* The invariant tells which view it is about.
LEMMA TView ==
  ASSUME NEW l, NEW cs, TInv(l, cs)
  PROVE  "view" \in DOMAIN l /\ l.view = "timeseries"
BY DEF TInv, TBase, TFields


------------------------------------------------------------------------------
(* The spinners of the three views *)

Queries(cs) == {c \in cs : c.op = "query"}

\* A view that numbers its requests says that it is loading exactly while the
\* newest is in flight; numbers tell the queries in flight apart.
Exact(l, cs) ==
  /\ l.latest \in Nat
  /\ \A c \in Queries(cs) : c.id \in Nat /\ c.id <= l.latest
  /\ \A c, d \in Queries(cs) : c.id = d.id => c = d
  /\ l.loading <=> \E c \in Queries(cs) : c.id = l.latest

\* Neither the flag nor the queries change.
LEMMA ExactSame ==
  ASSUME NEW l, NEW cs, NEW m, NEW ds, Exact(l, cs),
         m.latest = l.latest, m.loading = l.loading, Queries(ds) = Queries(cs)
  PROVE  Exact(m, ds)
BY Zenon DEF Exact

\* A new request is sent.
LEMMA ExactAsks ==
  ASSUME NEW l, NEW cs, NEW m, NEW q, Exact(l, cs),
         m.latest = l.latest + 1, m.loading = TRUE, q.op = "query", q.id = l.latest + 1
  PROVE  Exact(m, cs \cup {q})
<1>1. Queries(cs \cup {q}) = Queries(cs) \cup {q}
  BY DEF Queries
<1>2. l.latest \in Nat /\ \A c \in Queries(cs) : c.id \in Nat /\ c.id <= l.latest
  BY DEF Exact
<1>3. \A c, d \in Queries(cs) : c.id = d.id => c = d
  BY DEF Exact
<1>4. \A c \in Queries(cs) : c.id # q.id
  BY <1>2
<1>5. \A c \in Queries(cs) \cup {q} : c.id \in Nat /\ c.id <= m.latest
  BY <1>2
<1>6. \A c, d \in Queries(cs) \cup {q} : c.id = d.id => c = d
  BY <1>3, <1>4, ZenonT(60)
<1>7. m.loading <=> \E c \in Queries(cs) \cup {q} : c.id = m.latest
  BY Zenon
<1>8. m.latest \in Nat
  BY <1>2
<1> QED BY <1>1, <1>5, <1>6, <1>7, <1>8, Zenon DEF Exact

\* A new request ends before it is sent.
LEMMA ExactGivesUp ==
  ASSUME NEW l, NEW cs, NEW m, Exact(l, cs),
         m.latest = l.latest + 1, m.loading = FALSE
  PROVE  Exact(m, cs)
<1>1. l.latest \in Nat /\ \A c \in Queries(cs) : c.id \in Nat /\ c.id <= l.latest
  BY DEF Exact
<1>2. m.latest \in Nat /\ \A c \in Queries(cs) : c.id \in Nat /\ c.id <= m.latest
  BY <1>1
<1>3. \A c \in Queries(cs) : c.id # m.latest
  BY <1>1
<1> QED BY <1>2, <1>3, ZenonT(60) DEF Exact

\* A query is answered: the newest, or one that was overtaken.
LEMMA ExactAnswered ==
  ASSUME NEW l, NEW cs, NEW m, NEW c \in cs, c.op = "query", Exact(l, cs),
         m.latest = l.latest,
         c.id = l.latest => m.loading = FALSE,
         c.id # l.latest => m.loading = l.loading
  PROVE  Exact(m, cs \ {c})
<1>1. c \in Queries(cs) /\ Queries(cs \ {c}) = Queries(cs) \ {c}
  BY DEF Queries
<1>2. \A d, e \in Queries(cs) : d.id = e.id => d = e
  BY DEF Exact
<1>3. CASE c.id = l.latest
  <2>1. \A d \in Queries(cs) \ {c} : d.id # m.latest
    BY <1>1, <1>2, <1>3, ZenonT(60)
  <2> QED BY <1>1, <1>3, <2>1, ZenonT(60) DEF Exact
<1>4. CASE c.id # l.latest
  <2>1. (\E d \in Queries(cs) \ {c} : d.id = l.latest) <=> \E d \in Queries(cs) : d.id = l.latest
    BY <1>4, ZenonT(60)
  <2> QED BY <1>1, <1>4, <2>1, ZenonT(60) DEF Exact
<1> QED BY <1>3, <1>4

-----------------------------------------------------------------------------

\* loadDocuments sets the flag when it sends a query.
LEMMA LoadDocumentsExact ==
  ASSUME NEW l, NEW others, NEW name, DOMAIN l = Fields, Exact(l, others),
         Collections!LoadDocuments(l, others, name)
  PROVE  Exact(local', calls')
<1>1. CASE name = Collections!Nothing
  BY <1>1 DEF Collections!LoadDocuments
<1>2. CASE name # Collections!Nothing
  <2> DEFINE q == Collections!Query(l.latest + 1, name)
  <2>1. /\ local' = [l EXCEPT !.latest = @ + 1, !.loading = TRUE, !.error = FALSE,
                              !.failed = FALSE, !.stale = name # l.selected]
        /\ calls' = others \cup {q}
    BY <1>2 DEF Collections!LoadDocuments
  <2>2. local'.latest = l.latest + 1 /\ local'.loading = TRUE
    BY <2>1 DEF Fields
  <2>3. q.op = "query" /\ q.id = l.latest + 1
    BY DEF Collections!Query
  <2> HIDE DEF q
  <2> QED BY <2>1, <2>2, <2>3, ExactAsks, ZenonT(60)
<1> QED BY <1>1, <1>2

\* So does a change of the selection.
LEMMA SelectExact ==
  ASSUME NEW l, NEW name, DOMAIN l = Fields, Exact(l, calls), Collections!Select(l, name)
  PROVE  Exact(local', calls')
<1>1. CASE name = l.selected
  BY <1>1 DEF Collections!Select
<1>2. CASE name # l.selected
  <2> DEFINE m == [l EXCEPT !.selected = name]
  <2>1. Collections!LoadDocuments(m, calls, name)
    BY <1>2 DEF Collections!Select
  <2>2. DOMAIN m = Fields /\ m.latest = l.latest /\ m.loading = l.loading
    BY DEF Fields
  <2> HIDE DEF m
  <2>3. Exact(m, calls)
    BY <2>2, ExactSame
  <2> QED BY <2>1, <2>2, <2>3, LoadDocumentsExact
<1> QED BY <1>1, <1>2

\* The document browser is mounted, or a catalog arrives.
LEMMA MountExact ==
  ASSUME Collections!Mount
  PROVE  Exact(local', calls')
<1> DEFINE m == [Collections!Fresh EXCEPT !.selected = Collections!First(catalog)]
<1>1. Collections!LoadDocuments(m, {}, Collections!First(catalog))
  BY DEF Collections!Mount
<1>2. DOMAIN m = Fields /\ m.latest = 0 /\ m.loading = FALSE
  BY DEF Collections!Fresh, Fields
<1> HIDE DEF m
<1>3. Exact(m, {})
  BY <1>2 DEF Exact, Queries
<1> QED BY <1>1, <1>2, <1>3, LoadDocumentsExact

LEMMA CatalogExact ==
  ASSUME NEW list, DOMAIN local = Fields, Exact(local, calls), Collections!CatalogEffect(list)
  PROVE  Exact(local', calls')
<1> DEFINE m == [local EXCEPT !.unsure = @ \/ (local.modal = "form" /\ local.selected \notin list)]
<1>1. Collections!Select(m, Collections!Kept(local, list))
  BY DEF Collections!CatalogEffect
<1>2. DOMAIN m = Fields /\ m.latest = local.latest /\ m.loading = local.loading
  BY DEF Fields
<1> HIDE DEF m
<1>3. Exact(m, calls)
  BY <1>2, ExactSame
<1> QED BY <1>1, <1>2, <1>3, SelectExact

\* A write in flight is no query.
LEMMA WritingQueries ==
  ASSUME NEW op, NEW of, NEW unsure, op # "query", Collections!Writing(op, of, unsure)
  PROVE  Queries(calls') = Queries(calls)
<1>1. PICK id : calls' = calls \cup {[op |-> op, id |-> id, name |-> local.selected,
                                      of |-> of, unsure |-> unsure]}
  BY DEF Collections!Writing
<1> DEFINE w == [op |-> op, id |-> id, name |-> local.selected, of |-> of, unsure |-> unsure]
<1>2. calls' = calls \cup {w} /\ w.op = op
  BY <1>1
<1> HIDE DEF w
<1> QED BY <1>2 DEF Queries

\* Every step of the document browser keeps its flag exact.
LEMMA CollectionsExact ==
  ASSUME DOMAIN local = Fields, Exact(local, calls), Collections!ViewNext
  PROVE  Exact(local', calls')
\* Most steps leave the flag and the queries.
<1>s. ASSUME local'.latest = local.latest, local'.loading = local.loading,
             Queries(calls') = Queries(calls)
      PROVE  Exact(local', calls')
  BY <1>s, ExactSame
<1>1. ASSUME NEW n \in Collections!Name, Collections!SelectCollection(n)
      PROVE  Exact(local', calls')
  BY <1>1, SelectExact DEF Collections!SelectCollection
<1>2. CASE Collections!Reload
  BY <1>2, LoadDocumentsExact DEF Collections!Reload
<1>3. CASE Collections!View \/ Collections!HandleOpenCreate \/ Collections!HandleOpenEdit
             \/ Collections!CloseModal \/ Collections!HandleSaveInvalid
  <2>1. calls' = calls
    BY <1>3 DEF Collections!View, Collections!HandleOpenCreate, Collections!HandleOpenEdit,
                Collections!CloseModal, Collections!HandleSaveInvalid
  <2>2. local'.latest = local.latest /\ local'.loading = local.loading
    BY <1>3, ZenonT(60) DEF Collections!View, Collections!HandleOpenCreate, Collections!HandleOpenEdit,
                Collections!CloseModal, Collections!HandleSaveInvalid, Collections!Closed, Fields
  <2> QED BY <1>s, <2>1, <2>2
<1>4. CASE Collections!HandleSaveDocument
  <2>1. /\ Collections!Writing("save", local.of, local.unsure)
        /\ local' = [local EXCEPT !.error = FALSE]
    BY <1>4 DEF Collections!HandleSaveDocument
  <2>2. local'.latest = local.latest /\ local'.loading = local.loading
    BY <2>1 DEF Fields
  <2>3. Queries(calls') = Queries(calls)
    BY <2>1, WritingQueries
  <2> QED BY <1>s, <2>2, <2>3
<1>5. CASE Collections!HandleDelete
  <2>1. /\ Collections!Writing("delete", local.shown, Collections!Doubtful(local))
        /\ local' = local
    BY <1>5 DEF Collections!HandleDelete
  <2>2. Queries(calls') = Queries(calls)
    BY <2>1, WritingQueries
  <2> QED BY <1>s, <2>1, <2>2
<1>6. ASSUME NEW c \in calls, Collections!Answer(c)
      PROVE  Exact(local', calls')
  <2>f. ASSUME c.op # "query"
        PROVE  Queries(calls \ {c}) = Queries(calls) /\ Exact(local, calls \ {c})
    <3>1. Queries(calls \ {c}) = Queries(calls)
      BY <2>f DEF Queries
    <3> QED BY <3>1, ExactSame
  <2>1. CASE c.op = "query" /\ (Collections!DocumentsArrive(c) \/ Collections!DocumentsFail(c))
    <3>1. calls' = calls \ {c}
      BY <2>1 DEF Collections!DocumentsArrive, Collections!DocumentsFail
    <3>2. /\ local'.latest = local.latest
          /\ c.id = local.latest => local'.loading = FALSE
          /\ c.id # local.latest => local'.loading = local.loading
      BY <2>1, Zenon DEF Collections!DocumentsArrive, Collections!DocumentsFail, Fields
    <3> QED BY <2>1, <3>1, <3>2, ExactAnswered, ZenonT(60)
  <2>2. CASE c.op = "save" /\ Collections!SaveDone(c)
    <3> DEFINE m == IF local.modal = "form" THEN Collections!Closed(local) ELSE local
    <3>1. Collections!LoadDocuments(m, calls \ {c}, c.name)
      BY <2>2 DEF Collections!SaveDone
    <3>2. DOMAIN m = Fields /\ m.latest = local.latest /\ m.loading = local.loading
      BY DEF Fields, Collections!Closed
    <3> HIDE DEF m
    <3>3. Exact(m, calls \ {c})
      BY <2>2, <2>f, <3>2, ExactSame
    <3> QED BY <3>1, <3>2, <3>3, LoadDocumentsExact
  <2>3. CASE c.op = "delete" /\ Collections!DeleteDone(c)
    <3>1. Collections!LoadDocuments(local, calls \ {c}, c.name)
      BY <2>3 DEF Collections!DeleteDone
    <3> QED BY <2>3, <2>f, <3>1, LoadDocumentsExact
  <2>4. CASE c.op # "query" /\ Collections!WriteFails(c)
    <3>1. calls' = calls \ {c} /\ local' = [local EXCEPT !.error = TRUE]
      BY <2>4 DEF Collections!WriteFails
    <3>2. local'.latest = local.latest /\ local'.loading = local.loading
      BY <3>1 DEF Fields
    <3> QED BY <1>s, <2>4, <2>f, <3>1, <3>2
  <2> QED BY <1>6, <2>1, <2>2, <2>3, <2>4 DEF Collections!Answer
<1> QED BY <1>1, <1>2, <1>3, <1>4, <1>5, <1>6 DEF Collections!ViewNext, Collections!UserNext

-----------------------------------------------------------------------------

\* loadPoints sets the flag when it sends a query, and resets it when it gives up.
LEMMA LoadPointsExact ==
  ASSUME NEW s, NEW name, NEW parses \in BOOLEAN,
         DOMAIN s = Pair, DOMAIN s.l = TFields, Exact(s.l, s.cs)
  PROVE  /\ DOMAIN Series!LoadPoints(s, name, parses) = Pair
         /\ DOMAIN Series!LoadPoints(s, name, parses).l = TFields
         /\ Exact(Series!LoadPoints(s, name, parses).l, Series!LoadPoints(s, name, parses).cs)
<1> DEFINE r == Series!LoadPoints(s, name, parses)
<1>1. CASE name = Series!Nothing
  <2>1. r = s
    BY <1>1 DEF Series!LoadPoints
  <2> QED BY <2>1
<1>2. CASE name # Series!Nothing
  <2> DEFINE id == s.l.latest + 1
             q == [op |-> "query", id |-> id, name |-> name]
  <2>1. r = [l |-> [s.l EXCEPT !.latest = id, !.loading = parses, !.error = ~parses,
                               !.failed = ~parses, !.stale = name # s.l.selected],
             cs |-> s.cs \cup IF parses THEN {q} ELSE {}]
    BY <1>2 DEF Series!LoadPoints
  <2> HIDE DEF r
  <2>2. /\ DOMAIN r = Pair
        /\ r.l = [s.l EXCEPT !.latest = id, !.loading = parses, !.error = ~parses,
                             !.failed = ~parses, !.stale = name # s.l.selected]
    BY <2>1 DEF Pair
  <2>3. r.cs = s.cs \cup IF parses THEN {q} ELSE {}
    BY <2>1
  <2>4. DOMAIN r.l = TFields /\ r.l.latest = s.l.latest + 1
    BY <2>2 DEF TFields
  <2>5. r.l.loading = parses
    BY <2>2 DEF TFields
  <2>6. q.op = "query" /\ q.id = s.l.latest + 1
    OBVIOUS
  <2> HIDE DEF q
  <2>7. CASE parses = TRUE
    <3>1. r.cs = s.cs \cup {q}
      BY <2>3, <2>7
    <3>2. Exact(r.l, s.cs \cup {q})
      BY <2>4, <2>5, <2>6, <2>7, ExactAsks, ZenonT(60)
    <3> QED BY <2>2, <2>4, <3>1, <3>2 DEF r
  <2>8. CASE parses = FALSE
    <3>1. r.cs = s.cs
      BY <2>3, <2>8
    <3>2. Exact(r.l, s.cs)
      BY <2>4, <2>5, <2>8, ExactGivesUp, Zenon
    <3> QED BY <2>2, <2>4, <3>1, <3>2 DEF r
  <2> QED BY <2>7, <2>8, ZenonT(60)
<1> QED BY <1>1, <1>2

\* So does a change of the field.
LEMMA SelectSeriesExact ==
  ASSUME NEW s, NEW name, NEW parses \in BOOLEAN,
         DOMAIN s = Pair, DOMAIN s.l = TFields, Exact(s.l, s.cs)
  PROVE  Exact(Series!Select(s, name, parses).l, Series!Select(s, name, parses).cs)
<1>1. CASE name = s.l.selected
  BY <1>1 DEF Series!Select
<1>2. CASE name # s.l.selected
  <2> DEFINE t == [s EXCEPT !.l.selected = name]
  <2>1. Series!Select(s, name, parses) = Series!LoadPoints(t, name, parses)
    BY <1>2 DEF Series!Select
  <2>2. DOMAIN t = Pair /\ t.cs = s.cs /\ t.l = [s.l EXCEPT !.selected = name]
    BY DEF Pair
  <2> HIDE DEF t
  <2>3. DOMAIN t.l = TFields /\ t.l.latest = s.l.latest /\ t.l.loading = s.l.loading
    BY <2>2 DEF TFields
  <2>4. Exact(t.l, t.cs)
    BY <2>2, <2>3, ExactSame, ZenonT(60)
  <2> QED BY <2>1, <2>2, <2>3, <2>4, LoadPointsExact
<1> QED BY <1>1, <1>2

\* The time-series explorer is mounted.
LEMMA MountSeriesExact ==
  ASSUME Series!Mount
  PROVE  Exact(local', calls')
<1> DEFINE c == [op |-> "list", id |-> MaxRequests + 1, name |-> Series!Nothing]
<1>1. local' = Series!Fresh /\ calls' = {c}
  BY DEF Series!Mount
<1>2. c.op = "list"
  OBVIOUS
<1> HIDE DEF c
<1>3. local'.latest = 0 /\ local'.loading = FALSE
  BY <1>1 DEF Series!Fresh
<1>4. Queries(calls') = {}
  BY <1>1, <1>2 DEF Queries
<1> QED BY <1>3, <1>4 DEF Exact

\* A request other than a query is sent.
LEMMA SendSeriesQueries ==
  ASSUME NEW op, NEW name, op # "query", Series!Send(op, name)
  PROVE  Queries(calls') = Queries(calls)
<1>1. PICK id : calls' = calls \cup {[op |-> op, id |-> id, name |-> name]}
  BY DEF Series!Send
<1> DEFINE w == [op |-> op, id |-> id, name |-> name]
<1>2. calls' = calls \cup {w} /\ w.op = op
  BY <1>1
<1> HIDE DEF w
<1> QED BY <1>2 DEF Queries

\* Every step of the time-series explorer keeps its flag exact.
LEMMA SeriesExact ==
  ASSUME DOMAIN local = TFields, Exact(local, calls), Series!ViewNext
  PROVE  Exact(local', calls')
<1>s. ASSUME local'.latest = local.latest, local'.loading = local.loading,
             Queries(calls') = Queries(calls)
      PROVE  Exact(local', calls')
  BY <1>s, ExactSame
<1>e. ASSUME NEW e, local' = [local EXCEPT !.error = e]
      PROVE  local'.latest = local.latest /\ local'.loading = local.loading
  BY <1>e DEF TFields
<1>t. DOMAIN Series!State = Pair /\ Series!State.l = local /\ Series!State.cs = calls
  BY DEF Series!State, Pair
<1>1. ASSUME NEW n \in Series!Name \cup {Series!Nothing}, Series!TypeSeries(n)
      PROVE  Exact(local', calls')
  <2>1. PICK parses \in BOOLEAN : Series!Becomes(Series!Select(Series!State, n, parses))
    BY <1>1 DEF Series!TypeSeries
  <2> QED BY <1>t, <2>1, SelectSeriesExact DEF Series!Becomes
<1>2. CASE Series!RefreshSeries
  <2>1. Series!Send("refresh", Series!Nothing) /\ local' = local
    BY <1>2 DEF Series!RefreshSeries
  <2>2. Queries(calls') = Queries(calls)
    BY <2>1, SendSeriesQueries
  <2> QED BY <1>s, <2>1, <2>2
<1>3. CASE Series!RunQuery
  <2>1. PICK parses \in BOOLEAN :
          Series!Becomes(Series!LoadPoints(Series!State, local.selected, parses))
    BY <1>3 DEF Series!RunQuery
  <2> QED BY <1>t, <2>1, LoadPointsExact DEF Series!Becomes
<1>4. CASE Series!HandleWrite \/ Series!HandlePrune
  <2>1. /\ local' = [local EXCEPT !.error = FALSE]
        /\ Series!Send("write", local.selected) \/ Series!Send("prune", local.selected)
    BY <1>4, ZenonT(60) DEF Series!HandleWrite, Series!HandlePrune
  <2>2. Queries(calls') = Queries(calls)
    BY <2>1, SendSeriesQueries
  <2> QED BY <1>s, <1>e, <2>1, <2>2
<1>5. CASE Series!HandleWriteInvalid
  <2>1. local' = [local EXCEPT !.error = TRUE] /\ calls' = calls
    BY <1>5 DEF Series!HandleWriteInvalid
  <2> QED BY <1>s, <1>e, <2>1
<1>6. ASSUME NEW c \in calls, Series!Answer(c)
      PROVE  Exact(local', calls')
  <2>f. ASSUME c.op # "query"
        PROVE  Queries(calls \ {c}) = Queries(calls) /\ Exact(local, calls \ {c})
    <3>1. Queries(calls \ {c}) = Queries(calls)
      BY <2>f DEF Queries
    <3> QED BY <3>1, ExactSame
  <2> DEFINE w == Series!Without(c)
  <2>w. DOMAIN w = Pair /\ w.l = local /\ w.cs = calls \ {c}
    BY DEF Series!Without, Pair
  <2> HIDE DEF w
  <2>1. CASE c.op = "query" /\ (Series!PointsArrive(c) \/ Series!PointsFail(c))
    <3>1. calls' = calls \ {c}
      BY <2>1 DEF Series!PointsArrive, Series!PointsFail, Series!Becomes, Series!Without
    <3>2. \/ c.id # local.latest /\ local' = local
          \/ c.id = local.latest /\ local' = [local EXCEPT !.loading = FALSE, !.shown = c.name,
                                                           !.from = c.id]
          \/ c.id = local.latest /\ local' = [local EXCEPT !.loading = FALSE, !.error = TRUE,
                                                           !.failed = TRUE]
      BY <2>1 DEF Series!PointsArrive, Series!PointsFail, Series!Becomes, Series!Without
    <3>3. /\ local'.latest = local.latest
          /\ c.id = local.latest => local'.loading = FALSE
          /\ c.id # local.latest => local'.loading = local.loading
      BY <3>2, ZenonT(60) DEF TFields
    <3> QED BY <2>1, <3>1, <3>3, ExactAnswered, Zenon
  <2>2. CASE c.op \in {"list", "refresh"} /\ Series!SeriesArrive(c)
    <3>1. PICK parses \in BOOLEAN :
            Series!Becomes(Series!Select(w, Series!Chosen(local, names), parses))
      BY <2>2 DEF Series!SeriesArrive, w
    <3>2. Exact(w.l, w.cs) /\ DOMAIN w.l = TFields
      BY <2>2, <2>f, <2>w
    <3> QED BY <2>w, <3>1, <3>2, SelectSeriesExact DEF Series!Becomes
  <2>3. CASE c.op = "listed" /\ Series!WrittenSeriesArrive(c)
    <3>1. PICK p \in BOOLEAN, q \in BOOLEAN :
            Series!Becomes(Series!Select(Series!LoadPoints(w, c.name, p),
                                         Series!Chosen(local, names), q))
      BY <2>3 DEF Series!WrittenSeriesArrive, w
    <3> DEFINE t == Series!LoadPoints(w, c.name, p)
    <3>2. Exact(w.l, w.cs) /\ DOMAIN w.l = TFields
      BY <2>3, <2>f, <2>w
    <3>3. DOMAIN t = Pair /\ DOMAIN t.l = TFields /\ Exact(t.l, t.cs)
      BY <2>w, <3>2, LoadPointsExact
    <3> HIDE DEF t
    <3>4. Series!Becomes(Series!Select(t, Series!Chosen(local, names), q))
      BY <3>1 DEF t
    <3> QED BY <3>3, <3>4, SelectSeriesExact DEF Series!Becomes
  <2>4. CASE c.op # "query" /\ Series!SeriesFail(c)
    <3>1. calls' = calls \ {c} /\ local' = [local EXCEPT !.error = @ \/ c.op # "refresh"]
      BY <2>4 DEF Series!SeriesFail
    <3> QED BY <1>s, <1>e, <2>4, <2>f, <3>1
  <2>5. CASE c.op = "write" /\ Series!WriteDone(c)
    <3> DEFINE d == [op |-> "listed", id |-> c.id, name |-> c.name]
    <3>1. local' = local /\ calls' = (calls \ {c}) \cup {d} /\ d.op = "listed"
      BY <2>5 DEF Series!WriteDone
    <3> HIDE DEF d
    <3>2. Queries(calls') = Queries(calls)
      BY <2>5, <3>1 DEF Queries
    <3> QED BY <1>s, <3>1, <3>2
  <2>6. CASE c.op = "prune" /\ Series!PruneDone(c)
    <3>1. PICK parses \in BOOLEAN : Series!Becomes(Series!LoadPoints(w, c.name, parses))
      BY <2>6 DEF Series!PruneDone, w
    <3>2. Exact(w.l, w.cs) /\ DOMAIN w.l = TFields
      BY <2>6, <2>f, <2>w
    <3> QED BY <2>w, <3>1, <3>2, LoadPointsExact DEF Series!Becomes
  <2>7. CASE c.op # "query" /\ Series!WriteFails(c)
    <3>1. calls' = calls \ {c} /\ local' = [local EXCEPT !.error = TRUE]
      BY <2>7 DEF Series!WriteFails
    <3> QED BY <1>s, <1>e, <2>7, <2>f, <3>1
  <2> QED BY <1>6, <2>1, <2>2, <2>3, <2>4, <2>5, <2>6, <2>7 DEF Series!Answer
<1> QED BY <1>1, <1>2, <1>3, <1>4, <1>5, <1>6 DEF Series!ViewNext

-----------------------------------------------------------------------------

\* The key/value browser says that it is scanning only while a scan is in flight.
BLoads(l, cs) == l.loading => \E c \in cs : c.op = "scan"

\* loadEntries sets the flag when it sends a scan.
LEMMA LoadEntriesLoads ==
  ASSUME NEW l, NEW others, NEW name, DOMAIN l = BFields, BLoads(l, others),
         Buckets!LoadEntries(l, others, name)
  PROVE  BLoads(local', calls')
<1>1. CASE name = Buckets!Nothing
  BY <1>1 DEF Buckets!LoadEntries
<1>2. CASE name # Buckets!Nothing
  <2>1. PICK id : calls' = others \cup {[op |-> "scan", id |-> id, name |-> name,
                                         of |-> name, unsure |-> FALSE]}
    BY <1>2, ZenonT(60) DEF Buckets!LoadEntries
  <2> DEFINE q == [op |-> "scan", id |-> id, name |-> name, of |-> name, unsure |-> FALSE]
  <2>2. q \in calls' /\ q.op = "scan"
    BY <2>1
  <2> HIDE DEF q
  <2> QED BY <2>2, Zenon DEF BLoads
<1> QED BY <1>1, <1>2

\* So does a change of the selection.
LEMMA SelectLoads ==
  ASSUME NEW l, NEW name, DOMAIN l = BFields, BLoads(l, calls), Buckets!Select(l, name)
  PROVE  BLoads(local', calls')
<1>1. CASE name = l.selected
  BY <1>1 DEF Buckets!Select
<1>2. CASE name # l.selected
  <2> DEFINE m == [l EXCEPT !.selected = name]
  <2>1. Buckets!LoadEntries(m, calls, name)
    BY <1>2 DEF Buckets!Select
  <2>2. DOMAIN m = BFields /\ m.loading = l.loading
    BY DEF BFields
  <2> HIDE DEF m
  <2>3. BLoads(m, calls)
    BY <2>2, Zenon DEF BLoads
  <2> QED BY <2>1, <2>2, <2>3, LoadEntriesLoads
<1> QED BY <1>1, <1>2

\* The key/value browser is mounted.
LEMMA MountLoads ==
  ASSUME Buckets!Mount
  PROVE  BLoads(local', calls')
<1> DEFINE m == [Buckets!Fresh EXCEPT !.selected = Buckets!First(catalog)]
<1>1. Buckets!LoadEntries(m, {}, Buckets!First(catalog))
  BY DEF Buckets!Mount
<1>2. DOMAIN m = BFields /\ m.loading = FALSE
  BY DEF Buckets!Fresh, BFields
<1> HIDE DEF m
<1>3. BLoads(m, {})
  BY <1>2, Zenon DEF BLoads
<1> QED BY <1>1, <1>2, <1>3, LoadEntriesLoads

\* Every step of the key/value browser, and every catalog, keeps the flag backed.
LEMMA BucketsLoads ==
  ASSUME DOMAIN local = BFields, BLoads(local, calls),
         Buckets!ViewNext \/ \E list : Buckets!CatalogEffect(list)
  PROVE  BLoads(local', calls')
<1>s. ASSUME local'.loading = local.loading, \A c \in calls : c.op = "scan" => c \in calls'
      PROVE  BLoads(local', calls')
  BY <1>s, Zenon DEF BLoads
<1>1. ASSUME NEW n, Buckets!SelectBucket(n)
      PROVE  BLoads(local', calls')
  BY <1>1, SelectLoads DEF Buckets!SelectBucket
<1>2. CASE Buckets!Scan
  BY <1>2, LoadEntriesLoads DEF Buckets!Scan
<1>3. CASE Buckets!OpenForm \/ Buckets!CloseForm \/ Buckets!HandlePutEmpty
  <2>1. calls' = calls
    BY <1>3 DEF Buckets!OpenForm, Buckets!CloseForm, Buckets!HandlePutEmpty
  <2>2. local'.loading = local.loading
    BY <1>3, ZenonT(60) DEF Buckets!OpenForm, Buckets!CloseForm, Buckets!HandlePutEmpty, BFields
  <2> QED BY <1>s, <2>1, <2>2
<1>4. CASE Buckets!HandlePut
  <2>1. local' = [local EXCEPT !.error = FALSE] /\ calls \subseteq calls'
    BY <1>4, ZenonT(60) DEF Buckets!HandlePut, Buckets!Send
  <2>2. local'.loading = local.loading
    BY <2>1 DEF BFields
  <2> QED BY <1>s, <2>1, <2>2
<1>5. ASSUME NEW op, Buckets!HandleRow(op)
      PROVE  BLoads(local', calls')
  <2>1. local' = local /\ calls \subseteq calls'
    BY <1>5, Zenon DEF Buckets!HandleRow, Buckets!Send
  <2> QED BY <1>s, <2>1
<1>6. ASSUME NEW c \in calls, Buckets!Answer(c)
      PROVE  BLoads(local', calls')
  <2>f. c.op # "scan" => BLoads(local, calls \ {c})
    BY ZenonT(60) DEF BLoads
  <2>1. CASE Buckets!EntriesArrive(c) \/ Buckets!EntriesFail(c)
    <3>1. \/ local' = [local EXCEPT !.loading = FALSE, !.shown = c.name, !.failed = FALSE]
          \/ local' = [local EXCEPT !.loading = FALSE, !.error = TRUE, !.failed = TRUE]
      BY <2>1, Zenon DEF Buckets!EntriesArrive, Buckets!EntriesFail
    <3>2. ~local'.loading
      BY <3>1, Zenon DEF BFields
    <3> QED BY <3>2, Zenon DEF BLoads
  <2>2. CASE c.op = "put" /\ Buckets!PutDone(c)
    <3> DEFINE m == [local EXCEPT !.modal = FALSE, !.of = Buckets!Nothing]
    <3>1. Buckets!LoadEntries(m, calls \ {c}, c.name)
      BY <2>2 DEF Buckets!PutDone
    <3>2. DOMAIN m = BFields /\ m.loading = local.loading
      BY DEF BFields
    <3> HIDE DEF m
    <3>3. BLoads(m, calls \ {c})
      BY <2>2, <2>f, <3>2, ZenonT(60) DEF BLoads
    <3> QED BY <3>1, <3>2, <3>3, LoadEntriesLoads
  <2>3. CASE c.op \in {"delete", "increment"} /\ Buckets!RowDone(c)
    <3>1. Buckets!LoadEntries(local, calls \ {c}, c.name)
      BY <2>3 DEF Buckets!RowDone
    <3> QED BY <2>3, <2>f, <3>1, LoadEntriesLoads
  <2>4. CASE c.op # "scan" /\ Buckets!WriteFails(c)
    <3>1. calls' = calls \ {c} /\ local' = [local EXCEPT !.error = TRUE]
      BY <2>4 DEF Buckets!WriteFails
    <3>2. local'.loading = local.loading
      BY <3>1 DEF BFields
    <3> QED BY <1>s, <2>4, <3>1, <3>2, Zenon
  <2> QED BY <1>6, <2>1, <2>2, <2>3, <2>4 DEF Buckets!Answer
<1>7. ASSUME NEW list, Buckets!CatalogEffect(list)
      PROVE  BLoads(local', calls')
  BY <1>7, SelectLoads DEF Buckets!CatalogEffect
<1> QED BY <1>1, <1>2, <1>3, <1>4, <1>5, <1>6, <1>7, Zenon DEF Buckets!ViewNext
===============================================================================
