------------------------------ MODULE PubSubView ------------------------------
(***************************************************************************)
(* Studio's event stream: studio/frontend/src/views/PubSubView.tsx with    *)
(* handlePubSubPublish and handlePubSubHistory of studio/handlers.go.      *)
(*                                                                         *)
(* Events are numbered in the order of their publication.  The server      *)
(* keeps the newest 50, newest first: its history, and what the view       *)
(* shows of it, is given by the number of its newest event.  A request is  *)
(* handled when it is sent; its answer arrives later, in any order.  The   *)
(* messages are left out.                                                  *)
(***************************************************************************)
EXTENDS StudioShell

CONSTANTS MaxEvents,     \* bound on the events published, for TLC
          MaxHistories   \* bound on the requests for the history in flight

VARIABLE
  published   \* the server: the newest event of pubsubHistory

Local ==
  [view : {"pubsub"}, newest : 0..MaxEvents, loading : BOOLEAN]

Call ==
  [op : {"history", "publish"}, id : 0..MaxHistories, newest : 0..MaxEvents,
   ok : BOOLEAN]

Fresh == [view |-> "pubsub", newest |-> 0, loading |-> FALSE]

Mounted == local.view = "pubsub"

FreeIds(cs) == (1..MaxHistories) \ {c.id : c \in cs}

\* loadHistory up to its await
History(cs) ==
  [op |-> "history", id |-> Min(FreeIds(cs)), newest |-> published, ok |-> TRUE]

\* The component is mounted; the effect of its first render is loadHistory.
Mount ==
  /\ local' = Fresh
  /\ calls' = {History({})}

\* The interval of 2 seconds, or Refresh
LoadHistory ==
  /\ Mounted
  /\ FreeIds(calls) # {}
  /\ calls' = calls \cup {History(calls)}
  /\ UNCHANGED <<shell, local, published>>

\* handlePublish up to its await, with its handling by the server, which refuses
\* a missing topic or a duplicate.  The button is disabled while it lasts.
HandlePublish ==
  /\ Mounted
  /\ ~local.loading
  /\ published < MaxEvents
  /\ local' = [local EXCEPT !.loading = TRUE]
  /\ \E ok \in BOOLEAN :
       /\ published' = IF ok THEN published + 1 ELSE published
       /\ calls' = calls \cup {[op |-> "publish", id |-> 0, newest |-> published', ok |-> ok]}
  /\ UNCHANGED shell

PublishDone(c) ==
  /\ c.ok
  /\ FreeIds(calls) # {}
  /\ calls' = (calls \ {c}) \cup {History(calls)}
  /\ local' = [local EXCEPT !.loading = FALSE]
  /\ UNCHANGED <<shell, published>>

\* The server's refusal, or the loss of its answer
PublishFails(c) ==
  /\ calls' = calls \ {c}
  /\ local' = [local EXCEPT !.loading = FALSE]
  /\ UNCHANGED <<shell, published>>

\* A faulty HistoryArrives: an answer is dropped while another is awaited.
HistoryArrivesAlone(c) ==
  /\ calls' = calls \ {c}
  /\ local' = [local EXCEPT !.newest = IF calls' = {} THEN c.newest ELSE @]
  /\ UNCHANGED <<shell, published>>

\* loadHistory after its await: whichever answer comes last stays.
HistoryArrives(c) ==
  /\ calls' = calls \ {c}
  /\ local' = [local EXCEPT !.newest = c.newest]
  /\ UNCHANGED <<shell, published>>

\* An error is ignored.
HistoryFails(c) ==
  /\ calls' = calls \ {c}
  /\ UNCHANGED <<shell, local, published>>

Answer(c) ==
  /\ Mounted
  /\ \/ c.op = "publish" /\ (PublishDone(c) \/ PublishFails(c))
     \/ c.op = "history" /\ (HistoryArrives(c) \/ HistoryFails(c))

ViewNext ==
  \/ LoadHistory \/ HandlePublish
  \/ \E c \in calls : Answer(c)

\* The answer to one of the requests for the history.
Arrives(id) ==
  /\ Mounted
  /\ \E c \in calls : c.op = "history" /\ c.id = id /\ HistoryArrives(c)

-----------------------------------------------------------------------------
(* Properties *)

\* The button is disabled exactly while a publication is in flight.
LoadingExact == Mounted => (local.loading <=> \E c \in calls : c.op = "publish")

\* Histories that overtake each other may take events off the display again, but
\* the polling puts the newest event on it while the view stays mounted.
PublishedIsShown ==
  \A n \in 1..MaxEvents :
    (Mounted /\ published = n) ~> (~Mounted \/ published # n \/ local.newest = n)
==============================================================================
