-------------------------------- MODULE Studio --------------------------------
(***************************************************************************)
(* CocoDB Studio, the browser application of studio/frontend/src: App.tsx  *)
(* with the catalog it polls (StudioShell), the view it shows, and the     *)
(* boundary around the view.                                               *)
(*                                                                         *)
(* `local' is the state of the component that is mounted and `calls' its   *)
(* requests in flight; a view's module says what they are.  Leaving a view *)
(* drops both: its answers find no component, and what is left of a        *)
(* handler then, a call of fetchData, is no different from a poll.         *)
(***************************************************************************)
EXTENDS DataViews, ToolViews

CONSTANT Views   \* the views the user visits, "dashboard" among them

ASSUME StudioAssumption ==
  /\ "dashboard" \in Views
  /\ {MaxWrites, MaxScans, MaxPuts, MaxOthers, MaxQueueCalls, MaxEvents,
      MaxHistories, MaxTimers} \subseteq Nat

VARIABLE currentView   \* App's currentView

vars == <<shell, currentView, local, calls, server>>

\* The view is mounted, with its effects.
Mount(view) ==
  \/ view = "dashboard" /\ Overview!Mount
  \/ view = "collections" /\ Collections!Mount
  \/ view = "buckets" /\ Buckets!Mount
  \/ view = "timeseries" /\ Series!Mount
  \/ view = "queues" /\ Queues!Mount
  \/ view = "pubsub" /\ Events!Mount
  \/ view \in Playgrounds!Playground /\ Playgrounds!Mount(view)
  \/ view = "maintenance" /\ Tools!Mount

\* ErrorBoundary's hasError: it shows its message in place of the view.
HasError == local = Playgrounds!Crashed

\* A faulty Navigate: the component stays as it is.
NavigateUnmounted(view) ==
  /\ view # currentView
  /\ currentView' = view
  /\ UNCHANGED <<shell, local, calls, server>>

\* setCurrentView.  The boundary stays as it is.
Navigate(view) ==
  /\ view # currentView
  /\ currentView' = view
  /\ IF HasError THEN UNCHANGED <<local, calls>> ELSE Mount(view)
  /\ UNCHANGED <<shell, server>>

\* An entry of Sidebar
SelectView(view) == Navigate(view)

\* onNavigate of the overview
FollowLink(view) == Overview!Mounted /\ view \in Overview!Links /\ Navigate(view)

\* The boundary's Retry
Retry ==
  /\ HasError
  /\ Mount(currentView)
  /\ UNCHANGED <<shell, currentView, server>>

\* What the mounted view does when it is rendered with a new catalog.
CatalogEffect(list) ==
  \/ Collections!Mounted /\ Collections!CatalogEffect(list)
  \/ Buckets!Mounted /\ Buckets!CatalogEffect(list)
  \/ Playgrounds!Mounted /\ Playgrounds!CatalogEffect(list)
  \/ ~(Collections!Mounted \/ Buckets!Mounted \/ Playgrounds!Mounted)
       /\ UNCHANGED <<local, calls>>

\* fetchData after its await
CatalogArrives(f) ==
  /\ SetCatalog(f)
  /\ CatalogEffect(catalog')
  /\ UNCHANGED <<currentView, server>>

ViewNext ==
  /\ \/ (Overview!ViewNext \/ Collections!ViewNext \/ Buckets!ViewNext
           \/ Series!ViewNext \/ Playgrounds!ViewNext \/ Tools!ViewNext)
           /\ UNCHANGED server
     \/ Queues!ViewNext /\ UNCHANGED published
     \/ Events!ViewNext /\ UNCHANGED <<window, once>>
  /\ UNCHANGED currentView

Init ==
  /\ ShellInit
  /\ currentView = "dashboard"
  /\ local = Overview!Fresh
  /\ calls = {}
  /\ window = FALSE /\ once = 0 /\ published = 0

Next ==
  \/ \E view \in Views : SelectView(view) \/ FollowLink(view)
  \/ Retry
  \/ ViewNext
  \/ \E f \in Fetch : CatalogArrives(f)
  \/ ShellNext /\ UNCHANGED <<currentView, local, calls, server>>
  \/ Queues!WindowEnds /\ UNCHANGED <<currentView, published>>

Spec == Init /\ [][Next]_vars

-----------------------------------------------------------------------------
(* Fairness *)

\* App and the event stream keep polling, and not every answer is lost.
HistoryAnswered(id) == Events!Arrives(id) /\ UNCHANGED <<currentView, window, once>>

FairPolls ==
  /\ Spec
  /\ WF_vars(Poll /\ UNCHANGED <<currentView, local, calls, server>>)
  /\ \A f \in Fetch :
       /\ SF_vars(AnswerCatalog(f) /\ UNCHANGED <<currentView, local, calls, server>>)
       /\ WF_vars(CatalogArrives(f))
  /\ WF_vars(Events!LoadHistory /\ UNCHANGED <<currentView, window, once>>)
  /\ \A id \in 1..MaxHistories : SF_vars(HistoryAnswered(id))

-----------------------------------------------------------------------------
(* Properties *)

Local ==
  Overview!Local \cup Collections!Local \cup Buckets!Local \cup Series!Local
    \cup Queues!Local \cup Events!Local \cup Playgrounds!Local \cup Tools!Local
    \cup {Playgrounds!Crashed}

Call ==
  Collections!Call \cup Buckets!Call \cup Series!Call \cup Queues!Call
    \cup Events!Call \cup Playgrounds!Call \cup Tools!Call

\* The variables have the types their declarations give them, and the component
\* that is mounted is the one App selected, unless the boundary shows an error.
TypeOK ==
  /\ ShellTypeOK
  /\ local \in Local
  /\ calls \subseteq Call
  /\ currentView \in Views
  /\ HasError \/ local.view = currentView
  /\ window \in BOOLEAN /\ once \in 0..2 /\ published \in 0..MaxEvents

\* No spinner turns, no button stays disabled and no note stays on for nothing:
\* each flag is backed by the request or the timer that will reset it, whatever
\* overlaps with it, fails or is overtaken.
SpinnersExact ==
  /\ refreshing => \E f \in Fetch : fetches[f] # Ended
  /\ Overview!CopiedEnds
  /\ Collections!LoadingExact
  /\ Buckets!LoadingEnds
  /\ Series!LoadingExact
  /\ Queues!LoadingEnds
  /\ Events!LoadingExact
  /\ Playgrounds!LoadingExact
  /\ Tools!FlagsExact

\* latestRequest.current of the view that is mounted, and the request whose
\* answer it shows
Latest ==
  INSTANCE LatestRequest WITH
    mounted <- local.view,
    asked <- IF Numbered THEN local.latest ELSE 0,
    shown <- IF Numbered THEN local.from ELSE 0

\* Collections and time series keep the promise of LatestRequest: an answer that
\* was overtaken by a newer request of the mounted view is never shown.
ShowsLatest == Latest!Spec

\* Overlapping polls, of which some fail, may set the catalog back, but again and
\* again it is what the server has.
CatalogFollows == []<>(catalog = names)
==============================================================================
