--------------------------- MODULE MaintenanceView ---------------------------
(***************************************************************************)
(* Studio's storage tools: studio/frontend/src/views/MaintenanceView.tsx.  *)
(* Three operations, each with a flag of its own.  The messages they share *)
(* are left out; the report of the check is there or is not.               *)
(***************************************************************************)
EXTENDS StudioShell

Tool == {"check", "checkpoint", "backup"}

\* running: the tools whose loading flag is set;  report: there is a report
Local ==
  [view : {"maintenance"}, running : SUBSET Tool, report : BOOLEAN]

Call == [op : Tool]

Fresh == [view |-> "maintenance", running |-> {}, report |-> FALSE]

Mounted == local.view = "maintenance"

Mount == local' = Fresh /\ calls' = {}

\* handleRunCheck, handleCheckpoint or handleBackup up to its await; its button
\* is disabled while it runs.
Start(tool) ==
  /\ Mounted
  /\ tool \notin local.running
  /\ local' = [local EXCEPT !.running = @ \cup {tool}]
  /\ calls' = calls \cup {[op |-> tool]}
  /\ UNCHANGED shell

\* A faulty Done: the flags of all the tools are reset.
DoneAll(c) ==
  /\ calls' = calls \ {c}
  /\ local' = [local EXCEPT !.running = {}, !.report = @ \/ c.op = "check"]
  /\ UNCHANGED shell

\* The check leaves a report.
Done(c) ==
  /\ calls' = calls \ {c}
  /\ local' = [local EXCEPT !.running = @ \ {c.op}, !.report = @ \/ c.op = "check"]
  /\ UNCHANGED shell

Fails(c) ==
  /\ calls' = calls \ {c}
  /\ local' = [local EXCEPT !.running = @ \ {c.op}]
  /\ UNCHANGED shell

ViewNext ==
  \/ \E tool \in Tool : Start(tool)
  \/ \E c \in calls : Mounted /\ (Done(c) \/ Fails(c))

-----------------------------------------------------------------------------
(* Properties *)

\* A tool's button is disabled exactly while that tool runs, whatever the others
\* that overlap with it do.
FlagsExact == Mounted => local.running = {c.op : c \in calls}
==============================================================================
