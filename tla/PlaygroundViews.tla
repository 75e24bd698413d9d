--------------------------- MODULE PlaygroundViews ---------------------------
(***************************************************************************)
(* Studio's query console, vector playground and full-text playground:     *)
(* QueryConsoleView.tsx, VectorPlaygroundView.tsx and                      *)
(* SearchPlaygroundView.tsx in studio/frontend/src/views.  Each sends one  *)
(* request at a time to the collection in its state, and shows a select    *)
(* whose options are the collections of the catalog.  Predicates, vectors  *)
(* and keywords are left out, but for whether they can be sent.            *)
(***************************************************************************)
EXTENDS StudioShell

Playground == {"query", "vector", "search"}

\* selected: the collection in the state;  zero: the console's limit is 0
\* result: nothing yet, or what the last answer holds; null is JSON's null
Local ==
  [view : Playground, selected : Name \cup {Nothing}, loading : BOOLEAN,
   error : BOOLEAN, zero : BOOLEAN, result : {"nothing", "rows", "none", "null"}]

\* displayed: the option the select showed when the request was sent
\* nil: if nothing matches, the server answers with null for the documents
Call ==
  [op : Playground, name : Name, displayed : Name \cup {Nothing}, nil : BOOLEAN]

Mounted == local.view \in Playground

\* A select whose value is not among its options shows the first of them.
Displayed(l) == IF l.selected \in catalog THEN l.selected ELSE First(catalog)

\* useState(collections[0]?.name || '') in the console and the vector playground;
\* an effect does the same for the full-text playground.
Mount(view) ==
  /\ local' = [view |-> view, selected |-> First(catalog), loading |-> FALSE,
               error |-> FALSE, zero |-> FALSE, result |-> "nothing"]
  /\ calls' = {}

\* A faulty Synced: the selection is only filled in when it is empty.
SyncedWhenEmpty(l, list) == IF l.selected = Nothing THEN First(list) ELSE l.selected

\* The effect of the full-text playground on [collection, collections]
Synced(l, list) == IF l.selected \in list THEN l.selected ELSE First(list)

CatalogEffect(list) ==
  /\ local' = IF local.view = "search"
                THEN [local EXCEPT !.selected = Synced(local, list)] ELSE local
  /\ UNCHANGED calls

-----------------------------------------------------------------------------
(* What the user does *)

\* The select reports a change only when the option is another one.
SelectOption(n) ==
  /\ Mounted
  /\ n \in catalog
  /\ n # Displayed(local)
  /\ local' = [local EXCEPT !.selected = n]
  /\ UNCHANGED <<shell, calls>>

\* The console's limit; an empty field is 0.
EditLimit(zero) ==
  /\ local.view = "query"
  /\ local' = [local EXCEPT !.zero = zero]
  /\ UNCHANGED <<shell, calls>>

Send(nil) ==
  /\ local' = [local EXCEPT !.loading = TRUE, !.error = FALSE]
  /\ calls' = calls \cup {[op |-> local.view, name |-> local.selected,
                           displayed |-> Displayed(local), nil |-> nil]}
  /\ UNCHANGED shell

\* Execute or Explain Plan of the console; the plan comes with no documents,
\* as an empty list.
HandleExecute(explainOnly) ==
  /\ local.view = "query"
  /\ ~local.loading
  /\ local.selected # Nothing
  /\ Send(local.zero /\ ~explainOnly)

\* handleSearch of the two playgrounds, where there is something to search for
HandleSearch ==
  /\ local.view \in {"vector", "search"}
  /\ ~local.loading
  /\ catalog # {}
  /\ local.selected # Nothing
  /\ Send(FALSE)

\* No collection, no coordinates or no keywords
HandleSearchInvalid ==
  /\ local.view \in {"vector", "search"}
  /\ ~local.loading
  /\ catalog # {}
  /\ local' = [local EXCEPT !.error = TRUE]
  /\ UNCHANGED <<shell, calls>>

-----------------------------------------------------------------------------
(* Answers *)

\* A component whose rendering threw is gone; ErrorBoundary has taken its place.
Crashed == [view |-> "crashed"]

\* The console reads the length of the documents once it is not loading.
Rendered(l) == IF l.view = "query" /\ l.result = "null" THEN Crashed ELSE l

Arrives(c) ==
  /\ calls' = calls \ {c}
  /\ \E result \in {"rows", IF c.nil THEN "null" ELSE "none"} :
       local' = Rendered([local EXCEPT !.loading = FALSE, !.result = result])
  /\ UNCHANGED shell

Fails(c) ==
  /\ calls' = calls \ {c}
  /\ local' = [local EXCEPT !.loading = FALSE, !.error = TRUE]
  /\ UNCHANGED shell

ViewNext ==
  \/ \E n \in Name : SelectOption(n)
  \/ \E zero \in BOOLEAN : EditLimit(zero)
  \/ \E explainOnly \in BOOLEAN : HandleExecute(explainOnly)
  \/ HandleSearch \/ HandleSearchInvalid
  \/ \E c \in calls : Mounted /\ (Arrives(c) \/ Fails(c))

-----------------------------------------------------------------------------
(* Properties *)

\* The button is disabled exactly while a request is in flight, of which there
\* is at most one.
LoadingExact ==
  Mounted => IF local.loading THEN \E c \in calls : calls = {c} ELSE calls = {}

\* SearchPlaygroundView.tsx: "Keep the selected collection in sync so the first
\* search uses the collection displayed in the select."  Every search does,
\* whatever catalogs arrive, a failed one included.
SearchUsesDisplayed ==
  Mounted => \A c \in calls : c.op = "search" => c.name = c.displayed
==============================================================================
