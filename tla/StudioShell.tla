----------------------------- MODULE StudioShell -----------------------------
(***************************************************************************)
(* The part of Studio's App component (studio/frontend/src/App.tsx) that   *)
(* its views rely on: the catalog it fetches and polls, and the component  *)
(* it has mounted.                                                         *)
(*                                                                         *)
(* A name is its place in the order in which the server lists names, and   *)
(* 0 is the empty string.  A view looks at one of the catalog's lists      *)
(* (collections, buckets); `catalog' is that list, and a catalog that has  *)
(* not arrived counts as an empty one, as in `catalog?.collections || []'. *)
(* Browser code runs one callback at a time: a step is an event handler,   *)
(* or what a promise runs when its answer arrives, with the rendering and  *)
(* the effects it causes.                                                  *)
(***************************************************************************)
EXTENDS Integers

CONSTANTS NumNames,     \* how many names there can be
          MaxFetch,     \* bound on the fetches in flight at once, for TLC
          MaxRequests   \* bound on the latestRequest of a view, for TLC

ASSUME ShellAssumption ==
  NumNames \in Nat \ {0} /\ MaxFetch \in Nat \ {0} /\ MaxRequests \in Nat

VARIABLES
  names,      \* the server: the names that exist
  catalog,    \* App's catalog
  fetches,    \* calls of fetchData that have not ended
  refreshing  \* App's loading

VARIABLES
  local,      \* the state of the mounted component: see the views
  calls       \* its requests in flight

shell == <<names, catalog, fetches, refreshing>>

Name == 1..NumNames
Nothing == 0
Fetch == 1..MaxFetch

\* As in FiniteSetsExt, of which every instance of a view would repeat all the rest.
Min(S) == CHOOSE n \in S : \A m \in S : n <= m

\* collections[0]?.name ?? ''
First(list) == IF list = {} THEN Nothing ELSE Min(list)

Ended == [at |-> "ended", catalog |-> {}]

ShellTypeOK ==
  /\ names \in SUBSET Name
  /\ catalog \in SUBSET Name
  /\ fetches \in [Fetch -> [at : {"ended", "sent", "read"}, catalog : SUBSET Name]]
  /\ refreshing \in BOOLEAN

\* fetchData: the three requests go out.
FetchData ==
  /\ \E f \in Fetch : fetches[f] = Ended
  /\ LET f == CHOOSE f \in Fetch : fetches[f] = Ended
     IN fetches' = [fetches EXCEPT ![f] = [at |-> "sent", catalog |-> {}]]
  /\ refreshing' = TRUE
  /\ UNCHANGED <<names, catalog>>

\* App's first render and its effect, with some names on the server.
ShellInit ==
  /\ names \in SUBSET Name
  /\ catalog = {}
  /\ fetches = [f \in Fetch |-> IF f = 1 THEN [at |-> "sent", catalog |-> {}] ELSE Ended]
  /\ refreshing = TRUE

\* The interval of 5 seconds.
Poll == FetchData

\* The Refresh button of Header.
Refresh == ~refreshing /\ FetchData

\* The server answers getCatalog.
AnswerCatalog(f) ==
  /\ fetches[f].at = "sent"
  /\ fetches' = [fetches EXCEPT ![f] = [at |-> "read", catalog |-> names]]
  /\ UNCHANGED <<names, catalog, refreshing>>

\* getCatalog fails, and `catch' puts an empty catalog in its place.
FailCatalog(f) ==
  /\ fetches[f].at = "sent"
  /\ fetches' = [fetches EXCEPT ![f] = [at |-> "read", catalog |-> {}]]
  /\ UNCHANGED <<names, catalog, refreshing>>

\* A faulty SetCatalog: a catalog that is not empty stays.
SetCatalogOnce(f) ==
  /\ fetches[f].at = "read"
  /\ catalog' = IF catalog = {} THEN fetches[f].catalog ELSE catalog
  /\ fetches' = [fetches EXCEPT ![f] = Ended]
  /\ refreshing' = FALSE
  /\ UNCHANGED names

\* Promise.all has its three answers: fetchData sets App's state.  The view
\* that is mounted renders with the new catalog.
SetCatalog(f) ==
  /\ fetches[f].at = "read"
  /\ catalog' = fetches[f].catalog
  /\ fetches' = [fetches EXCEPT ![f] = Ended]
  /\ refreshing' = FALSE
  /\ UNCHANGED names

\* Another client creates a collection or a bucket.
Create(n) ==
  /\ n \in Name \ names
  /\ names' = names \cup {n}
  /\ UNCHANGED <<catalog, fetches, refreshing>>

\* What the shell does without the view taking part.
ShellNext ==
  \/ Poll \/ Refresh
  \/ \E f \in Fetch : AnswerCatalog(f) \/ FailCatalog(f)
  \/ \E n \in Name : Create(n)
==============================================================================
