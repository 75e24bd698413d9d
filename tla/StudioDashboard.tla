--------------------------- MODULE StudioDashboard ---------------------------
(***************************************************************************)
(* Studio's overview: studio/frontend/src/views/DashboardView.tsx.  What   *)
(* it shows comes from App; its own state is the drawer with the address   *)
(* of the exporter, and the note that the address was copied.              *)
(***************************************************************************)
EXTENDS StudioShell

CONSTANT MaxTimers   \* bound on the timers of handleCopyMetrics, for TLC

Local ==
  [view : {"dashboard"}, drawer : BOOLEAN, copied : BOOLEAN, timers : 0..MaxTimers]

Fresh == [view |-> "dashboard", drawer |-> FALSE, copied |-> FALSE, timers |-> 0]

Mounted == local.view = "dashboard"

Mount == local' = Fresh /\ calls' = {}

\* The views its button, its cards of telemetry and its cards of storage lead to
HeaderLinks == {"query"}
TelemetryLinks == {"queues", "pubsub"}
StorageLinks == {"collections", "buckets", "maintenance"}
Links == HeaderLinks \cup TelemetryLinks \cup StorageLinks

ToggleDrawer ==
  /\ Mounted
  /\ local' = [local EXCEPT !.drawer = ~@]
  /\ UNCHANGED <<shell, calls>>

\* handleCopyMetrics: an earlier timer is not cleared.
HandleCopyMetrics ==
  /\ Mounted
  /\ local.drawer
  /\ local.timers < MaxTimers
  /\ local' = [local EXCEPT !.copied = TRUE, !.timers = @ + 1]
  /\ UNCHANGED <<shell, calls>>

TimerFires ==
  /\ Mounted
  /\ local.timers > 0
  /\ local' = [local EXCEPT !.copied = FALSE, !.timers = @ - 1]
  /\ UNCHANGED <<shell, calls>>

ViewNext == ToggleDrawer \/ HandleCopyMetrics \/ TimerFires

\* The note that the address was copied is always on its way off.
CopiedEnds == Mounted /\ local.copied => local.timers > 0
==============================================================================
