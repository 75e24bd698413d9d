------------------------------ MODULE QueueView ------------------------------
(***************************************************************************)
(* Studio's task queues: studio/frontend/src/views/QueueView.tsx with      *)
(* handleQueueEnqueue of studio/handlers.go.                               *)
(*                                                                         *)
(* Names are those of queues, which the user types or picks.  A request is *)
(* handled when it is sent; its answer arrives later, in any order, or is  *)
(* lost.  What a task carries, and which task a worker is given, is left   *)
(* out (QueueEngine is about that), and so are the messages; the form's    *)
(* deduplication id is there or is empty.                                  *)
(***************************************************************************)
EXTENDS StudioShell

CONSTANT MaxQueueCalls  \* bound on the requests in flight at once, for TLC

VARIABLES
  window,   \* the server: the id is in its deduplication window, of 5 minutes
  once      \* history: the tasks enqueued in it by submissions that have the id

server == <<window, once>>

\* dedup: the field of the id is not empty
Local ==
  [view : {"queues"}, selected : Name \cup {Nothing}, loading : BOOLEAN,
   dedup : BOOLEAN]

\* empty: selectedQueue was empty in the closure of loadQueues
\* ok: the server did what was asked
Call ==
  [op : {"list", "enqueue", "dequeue"}, id : 1..MaxQueueCalls, empty : BOOLEAN,
   ok : BOOLEAN]

Fresh ==
  [view |-> "queues", selected |-> Min(Name), loading |-> TRUE, dedup |-> TRUE]

Mounted == local.view = "queues"

FreeCalls(cs) == (1..MaxQueueCalls) \ {c.id : c \in cs}

List(id, empty) == [op |-> "list", id |-> id, empty |-> empty, ok |-> TRUE]

\* The component is mounted; the effect of its first render is loadQueues.
Mount ==
  /\ local' = Fresh
  /\ calls' = {List(1, FALSE)}

\* loadQueues up to its await
LoadQueues(others, empty) ==
  /\ FreeCalls(others) # {}
  /\ local' = [local EXCEPT !.loading = TRUE]
  /\ calls' = others \cup {List(Min(FreeCalls(others)), empty)}

\* The deduplication window ends at the server.
WindowEnds ==
  /\ window
  /\ window' = FALSE
  /\ once' = 0
  /\ UNCHANGED <<shell, local, calls>>

-----------------------------------------------------------------------------
(* What the user does, and the interval of 3 seconds *)

\* The interval calls the loadQueues of the first render.
PollQueues ==
  /\ Mounted
  /\ LoadQueues(calls, FALSE)
  /\ UNCHANGED <<shell, server>>

RefreshQueues ==
  /\ Mounted
  /\ ~local.loading
  /\ LoadQueues(calls, local.selected = Nothing)
  /\ UNCHANGED <<shell, server>>

\* The field of the active queue, or a queue of the catalog
SelectQueue(n) ==
  /\ Mounted
  /\ local' = [local EXCEPT !.selected = n]
  /\ UNCHANGED <<shell, calls, server>>

\* The form's deduplication id; its other fields change nothing here.
EditForm ==
  /\ Mounted
  /\ local' = [local EXCEPT !.dedup = ~@]
  /\ UNCHANGED <<shell, calls, server>>

\* A submission: the request goes out.
Send(op, ok) ==
  /\ FreeCalls(calls) # {}
  /\ calls' = calls \cup {[op |-> op, id |-> Min(FreeCalls(calls)),
                           empty |-> local.selected = Nothing, ok |-> ok]}
  /\ UNCHANGED <<shell, local>>

\* A faulty DedupSent: the id is not sent.
DedupNotSent(l) == FALSE

\* dedupId || undefined
DedupSent(l) == l.dedup

\* handleQueueEnqueue accepts: there is a queue name, and it is no duplicate.
Accepts(l) == l.selected # Nothing /\ ~(DedupSent(l) /\ window)

\* handleEnqueue up to its await, and its handling by the server.
HandleEnqueue ==
  /\ Mounted
  /\ once < 2
  /\ Send("enqueue", Accepts(local))
  /\ window' = (window \/ (Accepts(local) /\ DedupSent(local)))
  /\ once' = IF Accepts(local) /\ local.dedup THEN once + 1 ELSE once

HandleDequeue ==
  /\ Mounted
  /\ Send("dequeue", local.selected # Nothing)
  /\ UNCHANGED server

-----------------------------------------------------------------------------
(* Answers *)

\* loadQueues after its await.  An empty field is filled in, but the one that is
\* looked at is the closure's.
QueuesArrive(c) ==
  /\ calls' = calls \ {c}
  /\ local' = [local EXCEPT !.loading = FALSE,
                            !.selected = IF c.empty /\ names # {} THEN First(names) ELSE @]
  /\ UNCHANGED <<shell, server>>

QueuesFail(c) ==
  /\ calls' = calls \ {c}
  /\ local' = [local EXCEPT !.loading = FALSE]
  /\ UNCHANGED <<shell, server>>

\* handleEnqueue and handleDequeue after their await
CallDone(c) ==
  /\ c.ok
  /\ LoadQueues(calls \ {c}, c.empty)
  /\ UNCHANGED <<shell, server>>

\* The server's refusal, or the loss of its answer
CallFails(c) ==
  /\ calls' = calls \ {c}
  /\ UNCHANGED <<shell, local, server>>

Answer(c) ==
  /\ Mounted
  /\ \/ c.op = "list" /\ (QueuesArrive(c) \/ QueuesFail(c))
     \/ c.op # "list" /\ (CallDone(c) \/ CallFails(c))

ViewNext ==
  \/ PollQueues \/ RefreshQueues
  \/ \E n \in Name \cup {Nothing} : SelectQueue(n)
  \/ EditForm \/ HandleEnqueue \/ HandleDequeue
  \/ \E c \in calls : Answer(c)

-----------------------------------------------------------------------------
(* Properties *)

\* The view never says that it is loading when no list of queues is in flight.
LoadingEnds == Mounted /\ local.loading => \E c \in calls : c.op = "list"

\* The view's badge, "Exactly-Once Dedup": however often the form is submitted
\* with its id again, after lost answers and refusals, one task is enqueued
\* while the window lasts.
EnqueuedOnce == once <= 1
==============================================================================
