--------------------------- MODULE CollectionsView ---------------------------
(***************************************************************************)
(* Studio's document browser: studio/frontend/src/views/CollectionsView.tsx. *)
(*                                                                         *)
(* `local' is the state of the mounted component (useState, useRef) and    *)
(* `calls' the requests it waits for, which are answered in any order.     *)
(* What a callback reads of the state, it reads as it was when the         *)
(* callback was made: a request keeps the collection of its closure.       *)
(* Documents are abstracted to the collection and the request they came    *)
(* from; what is typed into filters and forms, to whether it parses.       *)
(***************************************************************************)
EXTENDS StudioShell

CONSTANT MaxWrites   \* bound on the saves and deletions in flight at once

Request == 1..MaxRequests
Write == 1..MaxWrites

\* selected, loading, error: the states of these names
\* latest: latestRequest.current
\* shown, from: the collection of `documents', and the request that loaded them
\* modal: closed, the viewer (viewDoc), or the form (isModalOpen)
\* history: failed: the newest request failed;  stale: it was not for the
\* selected collection;  of: the collection whose document the form is about;
\* unsure: what that is was not certain when the form was opened, or since
Local ==
  [view : {"collections"}, selected : Name \cup {Nothing}, loading : BOOLEAN,
   error : BOOLEAN, latest : {0} \cup Request, shown : Name \cup {Nothing},
   from : {0} \cup Request, modal : {"closed", "viewer", "form"},
   failed : BOOLEAN, stale : BOOLEAN, of : Name \cup {Nothing}, unsure : BOOLEAN]

\* A request: a query, or a write from the form or from a row.
Call ==
  [op : {"query", "save", "delete"}, id : Request \cup Write,
   name : Name \cup {Nothing}, of : Name \cup {Nothing}, unsure : BOOLEAN]

Fresh ==
  [view |-> "collections", selected |-> Nothing, loading |-> FALSE,
   error |-> FALSE, latest |-> 0, shown |-> Nothing, from |-> 0,
   modal |-> "closed", failed |-> FALSE, stale |-> FALSE, of |-> Nothing,
   unsure |-> FALSE]

Mounted == local.view = "collections"

Query(id, name) ==
  [op |-> "query", id |-> id, name |-> name, of |-> name, unsure |-> FALSE]

\* loadDocuments up to its await, called from state l; a filter always makes a
\* query.
LoadDocuments(l, others, name) ==
  IF name = Nothing
    THEN local' = l /\ calls' = others
    ELSE /\ l.latest < MaxRequests
         /\ local' = [l EXCEPT !.latest = @ + 1, !.loading = TRUE, !.error = FALSE,
                               !.failed = FALSE, !.stale = name # l.selected]
         /\ calls' = others \cup {Query(l.latest + 1, name)}

\* setSelectedCollection, with the effect that loads what is newly selected.
Select(l, name) ==
  IF name = l.selected
    THEN local' = l /\ calls' = calls
    ELSE LoadDocuments([l EXCEPT !.selected = name], calls, name)

\* A faulty Kept: every catalog selects its first collection.
KeptFirst(l, list) == First(list)

\* The selection after a catalog has arrived.
Kept(l, list) == IF l.selected \in list THEN l.selected ELSE First(list)

\* The component is mounted: the effect on [catalog], and the one on the selection.
Mount ==
  LoadDocuments([Fresh EXCEPT !.selected = First(catalog)], {}, First(catalog))

\* The effect on [catalog]
CatalogEffect(list) ==
  Select([local EXCEPT !.unsure = @ \/ (local.modal = "form" /\ local.selected \notin list)],
         Kept(local, list))

-----------------------------------------------------------------------------
(* What the user does.  The viewer and the form cover the page. *)

Uncovered == Mounted /\ local.modal = "closed"

\* A tab
SelectCollection(n) ==
  /\ Uncovered
  /\ n \in catalog
  /\ Select(local, n)
  /\ UNCHANGED shell

\* The filter bar: Apply Filter, or Clear, whose reload still has the filter.
Reload ==
  /\ Uncovered
  /\ LoadDocuments(local, calls, local.selected)
  /\ UNCHANGED shell

\* The table has rows to view, edit or delete.
Rows(l) == ~l.loading /\ l.shown # Nothing

\* The rows may be of another collection than the one that is selected.
Doubtful(l) == l.failed \/ l.stale \/ l.selected = Nothing

View ==
  /\ Uncovered
  /\ Rows(local)
  /\ local' = [local EXCEPT !.modal = "viewer"]
  /\ UNCHANGED <<shell, calls>>

HandleOpenCreate ==
  /\ Uncovered
  /\ local.selected # Nothing
  /\ local' = [local EXCEPT !.modal = "form", !.of = local.selected, !.unsure = FALSE]
  /\ UNCHANGED <<shell, calls>>

HandleOpenEdit ==
  /\ Uncovered
  /\ Rows(local)
  /\ local' = [local EXCEPT !.modal = "form", !.of = local.shown, !.unsure = Doubtful(local)]
  /\ UNCHANGED <<shell, calls>>

\* The component with its form closed; what the form was about is forgotten.
Closed(l) == [l EXCEPT !.modal = "closed", !.of = Nothing, !.unsure = FALSE]

\* Close or Cancel
CloseModal ==
  /\ Mounted
  /\ local.modal # "closed"
  /\ local' = Closed(local)
  /\ UNCHANGED <<shell, calls>>

\* A write in flight, with a number that tells it from the others.
Writing(op, of, unsure) ==
  LET free == Write \ {c.id : c \in {d \in calls : d.op # "query"}}
  IN /\ free # {}
     /\ calls' = calls \cup {[op |-> op, id |-> Min(free), name |-> local.selected,
                              of |-> of, unsure |-> unsure]}

\* handleSaveDocument up to its await; the button is not disabled meanwhile.
HandleSaveDocument ==
  /\ Mounted
  /\ local.modal = "form"
  /\ Writing("save", local.of, local.unsure)
  /\ local' = [local EXCEPT !.error = FALSE]
  /\ UNCHANGED shell

\* JSON.parse throws, or an edited document has lost its _id.
HandleSaveInvalid ==
  /\ Mounted
  /\ local.modal = "form"
  /\ local' = [local EXCEPT !.error = TRUE]
  /\ UNCHANGED <<shell, calls>>

\* handleDelete, confirmed
HandleDelete ==
  /\ Uncovered
  /\ Rows(local)
  /\ Writing("delete", local.shown, Doubtful(local))
  /\ UNCHANGED <<shell, local>>

-----------------------------------------------------------------------------
(* Answers *)

\* A faulty DocumentsArrive: an answer that was overtaken is shown as well.
DocumentsArriveAnyway(c) ==
  /\ calls' = calls \ {c}
  /\ local' = [local EXCEPT !.loading = FALSE, !.shown = c.name, !.from = c.id]
  /\ UNCHANGED shell

\* loadDocuments after its await
DocumentsArrive(c) ==
  /\ calls' = calls \ {c}
  /\ local' = IF c.id = local.latest
                THEN [local EXCEPT !.loading = FALSE, !.shown = c.name, !.from = c.id]
                ELSE local
  /\ UNCHANGED shell

DocumentsFail(c) ==
  /\ calls' = calls \ {c}
  /\ local' = IF c.id = local.latest
                THEN [local EXCEPT !.loading = FALSE, !.error = TRUE, !.failed = TRUE]
                ELSE local
  /\ UNCHANGED shell

\* handleSaveDocument after its await.  The server has no collection ''.
SaveDone(c) ==
  /\ c.name # Nothing
  /\ LoadDocuments(IF local.modal = "form" THEN Closed(local) ELSE local,
                   calls \ {c}, c.name)
  /\ FetchData

DeleteDone(c) ==
  /\ c.name # Nothing
  /\ LoadDocuments(local, calls \ {c}, c.name)
  /\ UNCHANGED shell

\* A save or a deletion fails, or its answer is lost.
WriteFails(c) ==
  /\ calls' = calls \ {c}
  /\ local' = [local EXCEPT !.error = TRUE]
  /\ UNCHANGED shell

Answer(c) ==
  /\ Mounted
  /\ \/ c.op = "query" /\ (DocumentsArrive(c) \/ DocumentsFail(c))
     \/ c.op = "save" /\ SaveDone(c)
     \/ c.op = "delete" /\ DeleteDone(c)
     \/ c.op # "query" /\ WriteFails(c)

UserNext ==
  \/ \E n \in Name : SelectCollection(n)
  \/ Reload \/ View \/ HandleOpenCreate \/ HandleOpenEdit \/ CloseModal
  \/ HandleSaveDocument \/ HandleSaveInvalid \/ HandleDelete

ViewNext == UserNext \/ \E c \in calls : Answer(c)

-----------------------------------------------------------------------------
(* Properties *)

\* The table says that it is loading exactly while the newest request is in
\* flight: overlapping answers neither end the message early nor leave it on.
LoadingExact ==
  Mounted => (local.loading <=> \E c \in calls : c.op = "query" /\ c.id = local.latest)

\* The rows under a tab are of its collection, unless the newest request failed
\* or was sent, after a save or a deletion, for the collection of an old closure.
RowsBelong ==
  Mounted /\ Rows(local) /\ ~Doubtful(local) => local.shown = local.selected

\* A save or a deletion goes to the collection the document was taken from,
\* unless the rows were in doubt, or a catalog without the selected collection
\* (a failed poll) arrived while the form was open.
WritesGoHome ==
  Mounted => \A c \in calls : c.op \in {"save", "delete"} /\ ~c.unsure => c.name = c.of
==============================================================================
