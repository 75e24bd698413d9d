------------------------------ MODULE ToolViews ------------------------------
(***************************************************************************)
(* The other views of Studio: the overview, the queues, the event stream,  *)
(* the playgrounds and the storage tools, with what they do to the server. *)
(***************************************************************************)
EXTENDS StudioShell

CONSTANTS MaxQueueCalls, MaxEvents, MaxHistories, MaxTimers   \* see the views

VARIABLES window, once,   \* the server's queues: see QueueView
          published       \* the server's events: see PubSubView

server == <<window, once, published>>

Overview == INSTANCE StudioDashboard
Queues == INSTANCE QueueView
Events == INSTANCE PubSubView
Playgrounds == INSTANCE PlaygroundViews
Tools == INSTANCE MaintenanceView

\* However often the form of a task is submitted with its id, it is enqueued
\* once while the server's deduplication window lasts.
EnqueuedOnce == Queues!EnqueuedOnce

\* A full-text search goes to the collection displayed in the select.
SearchUsesDisplayed == Playgrounds!SearchUsesDisplayed

\* The newest event is shown in the end while the event stream is mounted.
PublishedIsShown == Events!PublishedIsShown
==============================================================================
