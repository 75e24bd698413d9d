------------------------------ MODULE DataViews ------------------------------
(***************************************************************************)
(* The three views in which the user of Studio browses and changes data.   *)
(***************************************************************************)
EXTENDS StudioShell

CONSTANTS MaxWrites, MaxScans, MaxPuts, MaxOthers   \* see the views

Collections == INSTANCE CollectionsView
Buckets == INSTANCE BucketsView
Series == INSTANCE TimeSeriesView

\* Rows and points on display are of the collection, the bucket or the series
\* that is selected, but for the cases the three views' properties name.
RowsBelong == Collections!RowsBelong /\ Buckets!RowsBelong /\ Series!PointsBelong

\* A write goes to the collection or the bucket the user saw when writing, but
\* for the cases the two views' properties name.
WritesGoHome == Collections!WritesGoHome /\ Buckets!WritesGoHome

\* A list of series that arrives late never replaces what the user has typed.
TypedIsKept == Series!TypedIsKept

\* The view numbers its requests, in latestRequest.current.
Numbered == Collections!Mounted \/ Series!Mounted
==============================================================================
