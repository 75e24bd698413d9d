---------------------------- MODULE TimeSeriesView ----------------------------
(***************************************************************************)
(* Studio's time-series explorer: studio/frontend/src/views/               *)
(* TimeSeriesView.tsx.  State and requests as in CollectionsView.  The     *)
(* names are those of series; the text of the series field is one of them, *)
(* existing or not.  Times, limits and points are left out; what is typed  *)
(* as JSON parses or does not.                                             *)
(***************************************************************************)
EXTENDS StudioShell

CONSTANT MaxOthers   \* bound on the other requests in flight at once, for TLC

\* As in CollectionsView; the message of success is left out.
Local ==
  [view : {"timeseries"}, selected : Name \cup {Nothing}, loading : BOOLEAN,
   error : BOOLEAN, latest : 0..MaxRequests,
   shown : Name \cup {Nothing}, from : 0..MaxRequests, failed : BOOLEAN,
   stale : BOOLEAN]

\* listed: a list that handleWrite waits for, after its write
Call ==
  [op : {"query", "list", "refresh", "listed", "write", "prune"},
   id : 1..(MaxRequests + MaxOthers), name : Name \cup {Nothing}]

Fresh ==
  [view |-> "timeseries", selected |-> Nothing, loading |-> FALSE,
   error |-> FALSE, latest |-> 0, shown |-> Nothing,
   from |-> 0, failed |-> FALSE, stale |-> FALSE]

Mounted == local.view = "timeseries"

\* The state of the component together with its requests.
State == [l |-> local, cs |-> calls]

Becomes(s) ==
  /\ s.l.latest <= MaxRequests
  /\ local' = s.l
  /\ calls' = s.cs

\* loadPoints up to its await, for the series of a closure; a tag filter that
\* does not parse ends it in its catch.
LoadPoints(s, name, parses) ==
  IF name = Nothing THEN s
  ELSE LET id == s.l.latest + 1
       IN [l |-> [s.l EXCEPT !.latest = id, !.loading = parses, !.error = ~parses,
                             !.failed = ~parses, !.stale = name # s.l.selected],
           cs |-> s.cs \cup IF parses THEN {[op |-> "query", id |-> id, name |-> name]}
                            ELSE {}]

\* setSelected, with the effect that loads what is newly selected
Select(s, name, parses) ==
  IF name = s.l.selected THEN s
  ELSE LoadPoints([s EXCEPT !.l.selected = name], name, parses)

\* A faulty Chosen: the answer decides, whatever has been typed meanwhile.
ChosenAnew(l, list) == First(list)

\* loadSeries: current || response.series[0] || ''
Chosen(l, list) == IF l.selected # Nothing THEN l.selected ELSE First(list)

FreeOthers == (MaxRequests + 1..MaxRequests + MaxOthers) \ {c.id : c \in calls}

Send(op, name) ==
  /\ FreeOthers # {}
  /\ calls' = calls \cup {[op |-> op, id |-> Min(FreeOthers), name |-> name]}

\* The component is mounted; the effect of its first render is loadSeries.
Mount ==
  /\ local' = Fresh
  /\ calls' = {[op |-> "list", id |-> MaxRequests + 1, name |-> Nothing]}

-----------------------------------------------------------------------------
(* What the user does *)

\* The series field
TypeSeries(n) ==
  /\ Mounted
  /\ \E parses \in BOOLEAN : Becomes(Select(State, n, parses))
  /\ UNCHANGED shell

RefreshSeries ==
  /\ Mounted
  /\ Send("refresh", Nothing)
  /\ UNCHANGED <<shell, local>>

RunQuery ==
  /\ Mounted
  /\ ~local.loading
  /\ local.selected # Nothing
  /\ \E parses \in BOOLEAN : Becomes(LoadPoints(State, local.selected, parses))
  /\ UNCHANGED shell

\* handleWrite up to its first await
HandleWrite ==
  /\ Mounted
  /\ local.selected # Nothing
  /\ Send("write", local.selected)
  /\ local' = [local EXCEPT !.error = FALSE]
  /\ UNCHANGED shell

\* There is no series name, or tags or fields do not parse.
HandleWriteInvalid ==
  /\ Mounted
  /\ local' = [local EXCEPT !.error = TRUE]
  /\ UNCHANGED <<shell, calls>>

HandlePrune ==
  /\ Mounted
  /\ local.selected # Nothing
  /\ Send("prune", local.selected)
  /\ local' = [local EXCEPT !.error = FALSE]
  /\ UNCHANGED shell

-----------------------------------------------------------------------------
(* Answers *)

Without(c) == [l |-> local, cs |-> calls \ {c}]

\* A faulty PointsArrive: an answer that was overtaken is shown as well.
PointsArriveAnyway(c) ==
  /\ Becomes([Without(c) EXCEPT !.l = [@ EXCEPT !.loading = FALSE, !.shown = c.name,
                                                !.from = c.id]])
  /\ UNCHANGED shell

\* loadPoints after its await
PointsArrive(c) ==
  /\ Becomes(IF c.id = local.latest
               THEN [Without(c) EXCEPT !.l = [@ EXCEPT !.loading = FALSE, !.shown = c.name,
                                                       !.from = c.id]]
               ELSE Without(c))
  /\ UNCHANGED shell

PointsFail(c) ==
  /\ Becomes(IF c.id = local.latest
               THEN [Without(c) EXCEPT !.l = [@ EXCEPT !.loading = FALSE, !.error = TRUE,
                                                       !.failed = TRUE]]
               ELSE Without(c))
  /\ UNCHANGED shell

\* loadSeries after its await, of the first render or of Refresh series
SeriesArrive(c) ==
  /\ \E parses \in BOOLEAN : Becomes(Select(Without(c), Chosen(local, names), parses))
  /\ UNCHANGED shell

\* The same in handleWrite, which goes on before the new state is rendered:
\* onRefreshCatalog, loadPoints of its closure, and then the effect, if any.
WrittenSeriesArrive(c) ==
  /\ \E parses, parsesNow \in BOOLEAN :
       Becomes(Select(LoadPoints(Without(c), c.name, parses),
                      Chosen(local, names), parsesNow))
  /\ FetchData

\* Refresh series has no catch.
SeriesFail(c) ==
  /\ calls' = calls \ {c}
  /\ local' = [local EXCEPT !.error = @ \/ c.op # "refresh"]
  /\ UNCHANGED shell

\* handleWrite after its first await: the series exists now, and loadSeries is
\* called.
WriteDone(c) ==
  /\ names' = names \cup {c.name}
  /\ calls' = (calls \ {c}) \cup {[op |-> "listed", id |-> c.id, name |-> c.name]}
  /\ UNCHANGED <<catalog, fetches, refreshing, local>>

PruneDone(c) ==
  /\ \E parses \in BOOLEAN :
       Becomes(LoadPoints(Without(c), c.name, parses))
  /\ UNCHANGED shell

WriteFails(c) ==
  /\ calls' = calls \ {c}
  /\ local' = [local EXCEPT !.error = TRUE]
  /\ UNCHANGED shell

Answer(c) ==
  /\ Mounted
  /\ \/ c.op = "query" /\ (PointsArrive(c) \/ PointsFail(c))
     \/ c.op \in {"list", "refresh"} /\ SeriesArrive(c)
     \/ c.op = "listed" /\ WrittenSeriesArrive(c)
     \/ c.op \in {"list", "refresh", "listed"} /\ SeriesFail(c)
     \/ c.op = "write" /\ WriteDone(c)
     \/ c.op = "prune" /\ PruneDone(c)
     \/ c.op \in {"write", "prune"} /\ WriteFails(c)

ViewNext ==
  \/ \E n \in Name \cup {Nothing} : TypeSeries(n)
  \/ RefreshSeries \/ RunQuery
  \/ HandleWrite \/ HandleWriteInvalid \/ HandlePrune
  \/ \E c \in calls : Answer(c)

-----------------------------------------------------------------------------
(* Properties *)

\* The view says that it is loading exactly while the newest query is in flight,
\* also when a tag filter that does not parse ends a newer one at once.
LoadingExact ==
  Mounted => (local.loading <=> \E c \in calls : c.op = "query" /\ c.id = local.latest)

\* The points on display are of the series in the field, unless the field is
\* empty, the newest query failed, or it was sent after a write or a pruning for
\* the series of an old closure.
PointsBelong ==
  /\ Mounted
  /\ ~local.loading
  /\ local.shown # Nothing
  /\ local.selected # Nothing
  /\ ~local.failed
  /\ ~local.stale
  => local.shown = local.selected

\* A list of series that arrives late never replaces what the user has typed.
TypedIsKept ==
  [][Mounted /\ local'.view = "timeseries" /\ local.selected \notin {Nothing, local'.selected}
       => \E n \in Name \cup {Nothing} : TypeSeries(n)]_<<shell, local, calls>>
==============================================================================
