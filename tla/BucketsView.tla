----------------------------- MODULE BucketsView -----------------------------
(***************************************************************************)
(* Studio's key/value browser: studio/frontend/src/views/BucketsView.tsx.  *)
(* State and requests as in CollectionsView; here requests are not         *)
(* numbered by the code: `id' only tells those in flight apart.            *)
(***************************************************************************)
EXTENDS StudioShell

CONSTANTS MaxScans,   \* bound on the scans in flight at once, for TLC
          MaxPuts     \* bound on the writes in flight at once, for TLC

\* shown: the bucket of `entries'
\* history: failed: the last answer to a scan was an error;  stale: the last
\* scan was not for the selected bucket;  overlap: it was sent while another
\* was in flight;  of: the bucket whose form is open
Local ==
  [view : {"buckets"}, selected : Name \cup {Nothing}, loading : BOOLEAN,
   error : BOOLEAN, shown : Name \cup {Nothing}, modal : BOOLEAN,
   failed : BOOLEAN, stale : BOOLEAN, overlap : BOOLEAN, of : Name \cup {Nothing}]

Call ==
  [op : {"scan", "put", "delete", "increment"}, id : 1..(MaxScans + MaxPuts),
   name : Name \cup {Nothing}, of : Name \cup {Nothing}, unsure : BOOLEAN]

Fresh ==
  [view |-> "buckets", selected |-> Nothing, loading |-> FALSE, error |-> FALSE,
   shown |-> Nothing, modal |-> FALSE, failed |-> FALSE, stale |-> FALSE,
   overlap |-> FALSE, of |-> Nothing]

Mounted == local.view = "buckets"

Scans(cs) == {c \in cs : c.op = "scan"}

FreeId(cs, ids) == ids \ {c.id : c \in cs}

\* loadEntries up to its await
LoadEntries(l, others, name) ==
  IF name = Nothing
    THEN local' = l /\ calls' = others
    ELSE LET ids == FreeId(others, 1..MaxScans)
         IN /\ ids # {}
            /\ local' = [l EXCEPT !.loading = TRUE, !.error = FALSE,
                                  !.stale = name # l.selected,
                                  !.overlap = Scans(others) # {}]
            /\ calls' = others \cup {[op |-> "scan", id |-> Min(ids), name |-> name,
                                      of |-> name, unsure |-> FALSE]}

\* setSelectedBucket, with the effect that scans what is newly selected
Select(l, name) ==
  IF name = l.selected
    THEN local' = l /\ calls' = calls
    ELSE LoadEntries([l EXCEPT !.selected = name], calls, name)

\* The effect on [buckets, selectedBucket]
Kept(l, list) == IF list # {} /\ l.selected = Nothing THEN First(list) ELSE l.selected

\* The component is mounted, and runs its effects.
Mount ==
  LoadEntries([Fresh EXCEPT !.selected = First(catalog)], {}, First(catalog))

CatalogEffect(list) == Select(local, Kept(local, list))

-----------------------------------------------------------------------------
(* What the user does.  The form covers the page. *)

Uncovered == Mounted /\ ~local.modal

SelectBucket(n) ==
  /\ Uncovered
  /\ n \in catalog
  /\ Select(local, n)
  /\ UNCHANGED shell

\* The prefix bar
Scan ==
  /\ Uncovered
  /\ LoadEntries(local, calls, local.selected)
  /\ UNCHANGED shell

Rows(l) == ~l.loading /\ l.shown # Nothing

Doubtful(l) == l.failed \/ l.stale \/ l.overlap

OpenForm ==
  /\ Uncovered
  /\ local.selected # Nothing
  /\ local' = [local EXCEPT !.modal = TRUE, !.of = local.selected]
  /\ UNCHANGED <<shell, calls>>

CloseForm ==
  /\ Mounted
  /\ local.modal
  /\ local' = [local EXCEPT !.modal = FALSE, !.of = Nothing]
  /\ UNCHANGED <<shell, calls>>

Send(op, of, unsure) ==
  LET ids == FreeId(calls, MaxScans + 1..MaxScans + MaxPuts)
  IN /\ ids # {}
     /\ calls' = calls \cup {[op |-> op, id |-> Min(ids), name |-> local.selected,
                              of |-> of, unsure |-> unsure]}

\* handlePut up to its await
HandlePut ==
  /\ Mounted
  /\ local.modal
  /\ Send("put", local.of, FALSE)
  /\ local' = [local EXCEPT !.error = FALSE]
  /\ UNCHANGED shell

\* Key cannot be empty
HandlePutEmpty ==
  /\ Mounted
  /\ local.modal
  /\ local' = [local EXCEPT !.error = TRUE]
  /\ UNCHANGED <<shell, calls>>

\* handleDelete, confirmed, or handleIncrement, on a row
HandleRow(op) ==
  /\ Uncovered
  /\ Rows(local)
  /\ Send(op, local.shown, Doubtful(local))
  /\ UNCHANGED <<shell, local>>

-----------------------------------------------------------------------------
(* Answers *)

\* A faulty EntriesArrive: the end of the scan is not noted.
EntriesArriveLoading(c) ==
  /\ calls' = calls \ {c}
  /\ local' = [local EXCEPT !.shown = c.name, !.failed = FALSE]
  /\ UNCHANGED shell

\* loadEntries after its await: whichever answer comes last stays.
EntriesArrive(c) ==
  /\ calls' = calls \ {c}
  /\ local' = [local EXCEPT !.loading = FALSE, !.shown = c.name, !.failed = FALSE]
  /\ UNCHANGED shell

EntriesFail(c) ==
  /\ calls' = calls \ {c}
  /\ local' = [local EXCEPT !.loading = FALSE, !.error = TRUE, !.failed = TRUE]
  /\ UNCHANGED shell

PutDone(c) ==
  /\ LoadEntries([local EXCEPT !.modal = FALSE, !.of = Nothing], calls \ {c}, c.name)
  /\ FetchData

RowDone(c) ==
  /\ LoadEntries(local, calls \ {c}, c.name)
  /\ UNCHANGED shell

WriteFails(c) ==
  /\ calls' = calls \ {c}
  /\ local' = [local EXCEPT !.error = TRUE]
  /\ UNCHANGED shell

Answer(c) ==
  /\ Mounted
  /\ \/ c.op = "scan" /\ (EntriesArrive(c) \/ EntriesFail(c))
     \/ c.op = "put" /\ PutDone(c)
     \/ c.op \in {"delete", "increment"} /\ RowDone(c)
     \/ c.op # "scan" /\ WriteFails(c)

ViewNext ==
  \/ \E n \in Name : SelectBucket(n)
  \/ Scan \/ OpenForm \/ CloseForm \/ HandlePut \/ HandlePutEmpty
  \/ \E op \in {"delete", "increment"} : HandleRow(op)
  \/ \E c \in calls : Answer(c)

-----------------------------------------------------------------------------
(* Properties *)

\* The table never says that it is scanning when no scan is in flight.
LoadingEnds == Mounted /\ local.loading => Scans(calls) # {}

\* The rows under a tab are of its bucket, unless scans overlapped, the last
\* one failed, or it was sent after a write for the bucket of an old closure.
RowsBelong == Mounted /\ Rows(local) /\ ~Doubtful(local) => local.shown = local.selected

\* A put goes to the bucket its form was opened for whatever catalogs arrive
\* meanwhile; a deletion or an increment goes to the bucket of the row, unless
\* the rows were in doubt.
WritesGoHome ==
  Mounted => \A c \in calls : c.op # "scan" /\ ~c.unsure => c.name = c.of
==============================================================================
