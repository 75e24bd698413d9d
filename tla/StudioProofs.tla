----------------------------- MODULE StudioProofs -----------------------------
(***************************************************************************)
(* Studio keeps the promises it makes to its user whatever the bounds, the *)
(* names and the order of the answers.                                     *)
(***************************************************************************)
EXTENDS Studio, ViewProofs

\* The provers, with their limits in seconds, of the leaves that name none.
USE SMTT(30), ZenonT(20), SMTT(40)

------------------------------------------------------------------------------
(* Studio *)

\* The invariant of the view that is mounted.
VInv ==
  /\ "view" \in DOMAIN local
  /\ Collections!Mounted => CInv(local, calls)
  /\ Buckets!Mounted => BInv(local, calls)
  /\ Series!Mounted => TInv(local, calls)
  /\ Playgrounds!Mounted => PInv

\* The inductive invariant.
SInv ==
  /\ VInv
  /\ HasError \/ local.view = currentView
  /\ once \in {0, 1} /\ (once = 1 => window)

\* A new component: it has asked at most once, and shows nothing.
Begins ==
  /\ local'.view # local.view
  /\ Numbered' => local'.latest \in {0, 1} /\ local'.from = 0

\* The same component, which goes on.
GoesOn ==
  /\ local'.view = local.view
  /\ Numbered => Advances(local, local')
  /\ Series!Mounted => \/ Keeps(local, local')
                       \/ \E n \in Series!Name \cup {Series!Nothing} : Series!TypeSeries(n)

-----------------------------------------------------------------------------

\* A plain view has no invariant to keep.
LEMMA PlainVInv ==
  ASSUME "view" \in DOMAIN local', local'.view \in Plain
  PROVE  VInv' /\ ~Numbered'
BY DEF VInv, Plain, Collections!Mounted, Buckets!Mounted, Series!Mounted,
       Playgrounds!Mounted, Playgrounds!Playground, Numbered

\* What a mounted component starts with.
LEMMA MountStep ==
  ASSUME NEW view, Mount(view), catalog' = catalog
  PROVE  /\ VInv'
         /\ local'.view = view /\ view # "crashed"
         /\ Numbered' => local'.latest \in {0, 1} /\ local'.from = 0
<1> USE DEF Collections!Mounted, Buckets!Mounted, Series!Mounted, Playgrounds!Mounted,
            Playgrounds!Playground, Numbered
<1>1. CASE view = "dashboard" /\ Overview!Mount
  <2>1. "view" \in DOMAIN local' /\ local'.view = view
    BY <1>1, MountPlain
  <2> QED BY <1>1, <2>1, PlainVInv DEF Plain
<1>2. CASE view = "collections" /\ Collections!Mount
  <2>1. CInv(local', calls') /\ local'.latest \in {0, 1} /\ local'.from = 0
    BY <1>2, MountRows
  <2>2. "view" \in DOMAIN local' /\ local'.view = "collections"
    BY <2>1, CView
  <2> QED BY <1>2, <2>1, <2>2 DEF VInv
<1>3. CASE view = "buckets" /\ Buckets!Mount
  <2>1. BInv(local', calls')
    BY <1>3, MountBuckets
  <2>2. "view" \in DOMAIN local' /\ local'.view = "buckets"
    BY <2>1, BView
  <2> QED BY <1>3, <2>1, <2>2 DEF VInv
<1>4. CASE view = "timeseries" /\ Series!Mount
  <2>1. TInv(local', calls') /\ local'.latest = 0 /\ local'.from = 0
    BY <1>4, MountSeries
  <2>2. "view" \in DOMAIN local' /\ local'.view = "timeseries"
    BY <2>1, TView
  <2> QED BY <1>4, <2>1, <2>2 DEF VInv
<1>5. CASE view = "queues" /\ Queues!Mount
  <2>1. "view" \in DOMAIN local' /\ local'.view = view
    BY <1>5, MountPlain
  <2> QED BY <1>5, <2>1, PlainVInv DEF Plain
<1>6. CASE view = "pubsub" /\ Events!Mount
  <2>1. "view" \in DOMAIN local' /\ local'.view = view
    BY <1>6, MountPlain
  <2> QED BY <1>6, <2>1, PlainVInv DEF Plain
<1>7. CASE view \in Playgrounds!Playground /\ Playgrounds!Mount(view)
  <2>1. PInv' /\ "view" \in DOMAIN local' /\ local'.view = view
    BY <1>7, MountPlayground
  <2> QED BY <1>7, <2>1 DEF VInv
<1>8. CASE view = "maintenance" /\ Tools!Mount
  <2>1. "view" \in DOMAIN local' /\ local'.view = view
    BY <1>8, MountPlain
  <2> QED BY <1>8, <2>1, PlainVInv DEF Plain
<1> QED BY <1>1, <1>2, <1>3, <1>4, <1>5, <1>6, <1>7, <1>8 DEF Mount


-----------------------------------------------------------------------------

\* A step of the mounted view: it goes on, or another component takes its place.
LEMMA ViewStep ==
  ASSUME VInv, ViewNext
  PROVE  /\ VInv'
         /\ ~HasError
         /\ GoesOn \/ (Begins /\ HasError')
<1> USE DEF Collections!Mounted, Buckets!Mounted, Series!Mounted, Playgrounds!Mounted,
            Playgrounds!Playground, Numbered
<1>h. HasError => local.view = "crashed"
  BY DEF HasError, Playgrounds!Crashed
<1>1. CASE Overview!ViewNext \/ Queues!ViewNext \/ Events!ViewNext \/ Tools!ViewNext
  <2>1. /\ "view" \in DOMAIN local'
        /\ local'.view = local.view /\ local.view \in Plain \ {"crashed"}
    BY <1>1, PlainStep DEF VInv
  <2>2. VInv'
    BY <2>1, PlainVInv
  <2> QED BY <1>h, <2>1, <2>2 DEF GoesOn, Plain
<1>2. CASE Collections!ViewNext
  <2>1. local.view = "collections"
    BY <1>2, CollectionsMounted
  <2>2. CInv(local', calls') /\ Advances(local, local')
    BY <1>2, <2>1, CollectionsStep DEF VInv
  <2>3. "view" \in DOMAIN local' /\ local'.view = "collections"
    BY <2>2, CView
  <2> QED BY <1>h, <2>1, <2>2, <2>3 DEF GoesOn, VInv
<1>3. CASE Buckets!ViewNext
  <2>1. local.view = "buckets"
    BY <1>3, BucketsMounted
  <2>2. BInv(local', calls')
    BY <1>3, <2>1, BucketsStep DEF VInv
  <2>3. "view" \in DOMAIN local' /\ local'.view = "buckets"
    BY <2>2, BView
  <2> QED BY <1>h, <2>1, <2>2, <2>3 DEF GoesOn, VInv
<1>4. CASE Series!ViewNext
  <2>1. local.view = "timeseries"
    BY <1>4, SeriesMounted
  <2>2. /\ TInv(local', calls') /\ Advances(local, local')
        /\ \/ Keeps(local, local')
           \/ \E n \in Series!Name \cup {Series!Nothing} : Series!TypeSeries(n)
    BY <1>4, <2>1, SeriesStep DEF VInv
  <2>3. "view" \in DOMAIN local' /\ local'.view = "timeseries"
    BY <2>2, TView
  <2> QED BY <1>h, <2>1, <2>2, <2>3 DEF GoesOn, VInv
<1>5. CASE Playgrounds!ViewNext
  <2>1. local.view \in {"query", "vector", "search"}
    BY <1>5, PlaygroundMounted
  <2>2. \/ PInv' /\ local'.view = local.view
        \/ local' = Playgrounds!Crashed
    BY <1>5, <2>1, PlaygroundStep DEF VInv
  <2>3. CASE PInv' /\ local'.view = local.view
    <3>1. "view" \in DOMAIN local'
      BY <2>3 DEF PInv, PFields
    <3> QED BY <1>h, <2>1, <2>3, <3>1 DEF GoesOn, VInv
  <2>4. CASE local' = Playgrounds!Crashed
    <3>1. "view" \in DOMAIN local' /\ local'.view = "crashed"
      BY <2>4 DEF Playgrounds!Crashed
    <3>2. VInv' /\ ~Numbered'
      BY <3>1, PlainVInv DEF Plain
    <3>3. HasError'
      BY <2>4 DEF HasError, Playgrounds!Crashed
    <3> QED BY <1>h, <2>1, <3>1, <3>2, <3>3 DEF Begins
  <2> QED BY <2>2, <2>3, <2>4
<1> QED BY <1>1, <1>2, <1>3, <1>4, <1>5 DEF ViewNext

\* A catalog arrives: the mounted view goes on.
LEMMA CatalogStep ==
  ASSUME VInv, CatalogEffect(catalog')
  PROVE  VInv' /\ GoesOn /\ (HasError => HasError')
<1> USE DEF Collections!Mounted, Buckets!Mounted, Series!Mounted, Playgrounds!Mounted,
            Playgrounds!Playground, Numbered
<1>h. HasError => local.view = "crashed"
  BY DEF HasError, Playgrounds!Crashed
<1>1. CASE Collections!Mounted /\ Collections!CatalogEffect(catalog')
  <2>1. CInv(local', calls') /\ Advances(local, local')
    BY <1>1, CatalogEffectRows DEF VInv
  <2>2. "view" \in DOMAIN local' /\ local'.view = "collections"
    BY <2>1, CView
  <2> QED BY <1>h, <1>1, <2>1, <2>2 DEF GoesOn, VInv
<1>2. CASE Buckets!Mounted /\ Buckets!CatalogEffect(catalog')
  <2>1. BInv(local', calls')
    BY <1>2, CatalogBuckets DEF VInv
  <2>2. "view" \in DOMAIN local' /\ local'.view = "buckets"
    BY <2>1, BView
  <2> QED BY <1>h, <1>2, <2>1, <2>2 DEF GoesOn, VInv
<1>3. CASE Playgrounds!Mounted /\ Playgrounds!CatalogEffect(catalog')
  <2>1. PInv
    BY <1>3 DEF VInv
  <2>2. PInv' /\ local'.view = local.view
    BY <1>3, <2>1, CatalogPlayground
  <2>3. "view" \in DOMAIN local'
    BY <2>2 DEF PInv, PFields
  <2> QED BY <1>h, <1>3, <2>2, <2>3 DEF GoesOn, VInv
<1>4. CASE /\ ~(Collections!Mounted \/ Buckets!Mounted \/ Playgrounds!Mounted)
           /\ UNCHANGED <<local, calls>>
  <2>1. VInv'
    BY <1>4 DEF VInv
  <2>2. Series!Mounted => Advances(local, local') /\ Keeps(local, local')
    BY <1>4 DEF VInv, TInv, TBase, Advances, Keeps
  <2>3. HasError => HasError'
    BY <1>4 DEF HasError, Playgrounds!Crashed
  <2> QED BY <1>4, <2>1, <2>2, <2>3 DEF GoesOn
<1> QED BY <1>1, <1>2, <1>3, <1>4 DEF CatalogEffect

\* Nothing happens in the mounted component.
LEMMA IdleStep ==
  ASSUME VInv, local' = local, calls' = calls, catalog' = catalog
  PROVE  VInv' /\ GoesOn /\ (HasError <=> HasError')
<1>1. VInv'
  BY DEF VInv, PInv, Collections!Mounted, Buckets!Mounted, Series!Mounted,
         Playgrounds!Mounted, Playgrounds!Displayed, Playgrounds!First, Playgrounds!Nothing
<1>2. Numbered => Advances(local, local')
  BY DEF VInv, Numbered, CInv, CBase, TInv, TBase, Advances
<1>3. Keeps(local, local')
  BY DEF Keeps
<1>4. HasError <=> HasError'
  BY DEF HasError, Playgrounds!Crashed
<1> QED BY <1>1, <1>2, <1>3, <1>4 DEF GoesOn

-----------------------------------------------------------------------------

\* Every step preserves the invariant, and the mounted component goes on, or
\* another one takes its place and begins.
LEMMA StudioStep ==
  ASSUME SInv, Next
  PROVE  SInv' /\ (GoesOn \/ Begins)
<1>v. VInv /\ (HasError \/ local.view = currentView) /\ once \in {0, 1} /\ (once = 1 => window)
  BY DEF SInv
<1>1. ASSUME NEW view, Navigate(view)
      PROVE  SInv' /\ (GoesOn \/ Begins)
  <2>1. /\ view # currentView /\ currentView' = view /\ UNCHANGED <<shell, server>>
        /\ IF HasError THEN UNCHANGED <<local, calls>> ELSE Mount(view)
    BY <1>1 DEF Navigate
  <2>2. catalog' = catalog /\ window' = window /\ once' = once
    BY <2>1 DEF shell, server
  <2>3. CASE HasError
    <3>1. VInv' /\ GoesOn /\ HasError'
      BY <1>v, <2>1, <2>2, <2>3, IdleStep
    <3> QED BY <1>v, <2>2, <3>1 DEF SInv
  <2>4. CASE ~HasError
    <3>1. /\ VInv' /\ local'.view = view
          /\ Numbered' => local'.latest \in {0, 1} /\ local'.from = 0
      BY <2>1, <2>2, <2>4, MountStep
    <3>2. Begins
      BY <1>v, <2>1, <2>4, <3>1 DEF Begins
    <3> QED BY <1>v, <2>1, <2>2, <3>1, <3>2 DEF SInv
  <2> QED BY <2>3, <2>4
<1>2. CASE Retry
  <2>1. HasError /\ Mount(currentView) /\ UNCHANGED <<shell, currentView, server>>
    BY <1>2 DEF Retry
  <2>2. catalog' = catalog /\ window' = window /\ once' = once
    BY <2>1 DEF shell, server
  <2>3. /\ VInv' /\ local'.view = currentView /\ currentView # "crashed"
        /\ Numbered' => local'.latest \in {0, 1} /\ local'.from = 0
    BY <2>1, <2>2, MountStep
  <2>4. local.view = "crashed"
    BY <2>1 DEF HasError, Playgrounds!Crashed
  <2>5. Begins
    BY <2>3, <2>4 DEF Begins
  <2> QED BY <1>v, <2>1, <2>2, <2>3, <2>5 DEF SInv
<1>3. CASE ViewNext
  <2>1. VInv' /\ ~HasError /\ (GoesOn \/ (Begins /\ HasError'))
    BY <1>3, <1>v, ViewStep
  <2>2. currentView' = currentView
    BY <1>3 DEF ViewNext
  <2>3. HasError' \/ local'.view = currentView'
    BY <1>v, <2>1, <2>2 DEF GoesOn
  <2>4. once' \in {0, 1} /\ (once' = 1 => window')
    <3>1. CASE Queues!ViewNext
      BY <1>v, <3>1, EnqueueStep
    <3>2. CASE UNCHANGED <<window, once>>
      BY <1>v, <3>2
    <3> QED BY <1>3, <3>1, <3>2 DEF ViewNext, server
  <2> QED BY <2>1, <2>3, <2>4 DEF SInv
<1>4. ASSUME NEW f \in Fetch, CatalogArrives(f)
      PROVE  SInv' /\ GoesOn
  <2>1. CatalogEffect(catalog') /\ UNCHANGED <<currentView, server>>
    BY <1>4 DEF CatalogArrives
  <2>2. VInv' /\ GoesOn /\ (HasError => HasError')
    BY <1>v, <2>1, CatalogStep
  <2> QED BY <1>v, <2>1, <2>2 DEF SInv, GoesOn, server
<1>5. CASE ShellNext /\ UNCHANGED <<currentView, local, calls, server>>
  <2>1. catalog' = catalog
    BY <1>5 DEF ShellNext, Poll, Refresh, FetchData, AnswerCatalog, FailCatalog, Create
  <2>2. VInv' /\ GoesOn /\ (HasError <=> HasError')
    BY <1>v, <1>5, <2>1, IdleStep
  <2> QED BY <1>v, <1>5, <2>2 DEF SInv, server
<1>6. CASE Queues!WindowEnds /\ UNCHANGED <<currentView, published>>
  <2>1. /\ local' = local /\ calls' = calls /\ catalog' = catalog
        /\ currentView' = currentView /\ once' = 0
    BY <1>6 DEF Queues!WindowEnds, Queues!shell
  <2>2. VInv' /\ GoesOn /\ (HasError <=> HasError')
    BY <1>v, <2>1, IdleStep
  <2> QED BY <1>v, <2>1, <2>2 DEF SInv
<1> QED BY <1>1, <1>2, <1>3, <1>4, <1>5, <1>6 DEF Next, SelectView, FollowLink

\* A stuttering step is idle.
LEMMA StudioStutters ==
  ASSUME SInv, UNCHANGED vars
  PROVE  SInv' /\ GoesOn
<1>1. /\ local' = local /\ calls' = calls /\ catalog' = catalog
      /\ currentView' = currentView /\ window' = window /\ once' = once
  BY DEF vars, shell, server
<1>2. VInv' /\ GoesOn /\ (HasError <=> HasError')
  BY <1>1, IdleStep DEF SInv
<1> QED BY <1>1, <1>2 DEF SInv

\* The overview that App starts with.
LEMMA StudioInit ==
  ASSUME Init
  PROVE  SInv /\ local.view = "dashboard"
<1>1. /\ "view" \in DOMAIN local /\ local.view = "dashboard"
      /\ currentView = "dashboard" /\ once = 0
  BY DEF Init, Overview!Fresh
<1>2. VInv
  BY <1>1 DEF VInv, Collections!Mounted, Buckets!Mounted, Series!Mounted,
              Playgrounds!Mounted, Playgrounds!Playground
<1> QED BY <1>1, <1>2 DEF SInv

\* The invariant holds throughout.
THEOREM StudioInvariant == Spec => []SInv
<1>1. Init => SInv
  BY StudioInit
<1>2. SInv /\ [Next]_vars => SInv'
  BY StudioStep, StudioStutters
<1> QED BY <1>1, <1>2, PTL DEF Spec

\* Rows and points on display are of what is selected, in each of the three views
\* that show data, for any number of names, requests and overlapping answers.
THEOREM RowsAlwaysBelong == Spec => []RowsBelong
<1>1. SInv => RowsBelong
  <2> SUFFICES ASSUME SInv PROVE RowsBelong
    OBVIOUS
  <2>1. Collections!RowsBelong
    BY DEF SInv, VInv, CInv, CRows, Collections!RowsBelong, Collections!Rows,
           Collections!Doubtful
  <2>2. Buckets!RowsBelong
    BY DEF SInv, VInv, BInv, BRows, Buckets!RowsBelong, Buckets!Rows, Buckets!Doubtful
  <2>3. Series!PointsBelong
    BY DEF SInv, VInv, TInv, TRows, Series!PointsBelong
  <2> QED BY <2>1, <2>2, <2>3 DEF RowsBelong
<1> QED BY <1>1, StudioInvariant, PTL

\* Saves, deletions, puts and increments go to the collection or the bucket the
\* user saw, however catalogs, failures and other writes interleave with them.
THEOREM WritesAlwaysGoHome == Spec => []WritesGoHome
<1>1. SInv => WritesGoHome
  <2> SUFFICES ASSUME SInv PROVE WritesGoHome
    OBVIOUS
  <2>1. Collections!WritesGoHome
    BY DEF SInv, VInv, CInv, CBase, Collections!WritesGoHome
  <2>2. Buckets!WritesGoHome
    BY DEF SInv, VInv, BInv, BBase, Buckets!WritesGoHome
  <2> QED BY <2>1, <2>2 DEF WritesGoHome
<1> QED BY <1>1, StudioInvariant, PTL

\* The form's id enqueues one task while the server's window lasts.
THEOREM AlwaysEnqueuedOnce == Spec => []EnqueuedOnce
<1>1. SInv => EnqueuedOnce
  BY DEF SInv, EnqueuedOnce, Queues!EnqueuedOnce
<1> QED BY <1>1, StudioInvariant, PTL

\* Every full-text search goes to the collection its select displays.
THEOREM SearchAlwaysDisplayed == Spec => []SearchUsesDisplayed
<1>1. SInv => SearchUsesDisplayed
  BY DEF SInv, VInv, PInv, SearchUsesDisplayed, Playgrounds!SearchUsesDisplayed
<1> QED BY <1>1, StudioInvariant, PTL

\* What was typed into the series field stays until the user types again.
THEOREM TypedAlwaysKept == Spec => TypedIsKept
<1>1. SInv /\ [Next]_vars =>
        [Series!Mounted /\ local'.view = "timeseries"
           /\ local.selected \notin {Series!Nothing, local'.selected}
           => \E n \in Series!Name \cup {Series!Nothing} : Series!TypeSeries(n)]_<<Series!shell, local, calls>>
  <2> SUFFICES ASSUME SInv, [Next]_vars, Series!Mounted, local'.view = "timeseries",
                      local.selected \notin {Series!Nothing, local'.selected}
               PROVE  \E n \in Series!Name \cup {Series!Nothing} : Series!TypeSeries(n)
    OBVIOUS
  <2>1. GoesOn \/ Begins
    BY StudioStep, StudioStutters
  <2>2. GoesOn
    BY <2>1 DEF Begins, Series!Mounted
  <2> QED BY <2>2 DEF GoesOn, Keeps
<1> QED BY <1>1, StudioInvariant, PTL DEF Spec, TypedIsKept, Series!TypedIsKept

\* Studio implements LatestRequest: a mounted component that goes on asks, or shows
\* the answer to its newest request; one that begins is a Mount.
THEOREM AlwaysShowsLatest == Spec => ShowsLatest
<1>1. Init => Latest!Init
  <2> SUFFICES ASSUME Init PROVE Latest!Init
    OBVIOUS
  <2>1. ~Numbered
    BY StudioInit DEF Numbered, Collections!Mounted, Series!Mounted
  <2> QED BY <2>1 DEF Latest!Init
<1>2. SInv /\ [Next]_vars =>
        [Latest!Next]_<<local.view, IF Numbered THEN local.latest ELSE 0,
                        IF Numbered THEN local.from ELSE 0>>
  <2> SUFFICES ASSUME SInv, [Next]_vars
               PROVE  [Latest!Next]_<<local.view, IF Numbered THEN local.latest ELSE 0,
                                      IF Numbered THEN local.from ELSE 0>>
    OBVIOUS
  <2>1. GoesOn \/ Begins
    BY StudioStep, StudioStutters
  <2>2. CASE Begins
    <3>1. Latest!Mount
      BY <2>2 DEF Begins, Latest!Mount
    <3> QED BY <3>1 DEF Latest!Next
  <2>3. CASE GoesOn
    <3>1. local'.view = local.view /\ (Numbered' <=> Numbered)
      BY <2>3 DEF GoesOn, Numbered, Collections!Mounted, Series!Mounted
    <3>2. CASE ~Numbered
      BY <3>1, <3>2
    <3>3. CASE Numbered
      <4>1. Advances(local, local')
        BY <2>3, <3>3 DEF GoesOn
      <4>2. local.latest \in Nat /\ local.from \in Nat /\ local.from <= local.latest
        BY <3>3 DEF SInv, VInv, Numbered, CInv, CBase, TInv, TBase
      <4>3. CASE local'.from = local.from /\ local'.latest = local.latest
        BY <3>1, <3>3, <4>3
      <4>4. CASE local'.from = local.from /\ local'.latest > local.latest
        <5>1. Latest!Ask
          BY <3>1, <3>3, <4>4 DEF Latest!Ask
        <5> QED BY <5>1 DEF Latest!Next
      <4>5. CASE /\ local'.from = local.latest /\ local'.latest = local.latest
                 /\ local'.from # local.from
        <5>1. Latest!Show
          BY <3>1, <3>3, <4>2, <4>5 DEF Latest!Show
        <5> QED BY <5>1 DEF Latest!Next
      <4>6. \/ local'.from = local.from /\ local'.latest = local.latest
            \/ local'.from = local.from /\ local'.latest > local.latest
            \/ /\ local'.from = local.latest /\ local'.latest = local.latest
               /\ local'.from # local.from
        BY <4>1, <4>2 DEF Advances
      <4> QED BY <4>3, <4>4, <4>5, <4>6, Zenon
    <3> QED BY <3>2, <3>3
  <2> QED BY <2>1, <2>2, <2>3
<1> QED BY <1>1, <1>2, StudioInvariant, PTL DEF Spec, ShowsLatest, Latest!Spec

------------------------------------------------------------------------------
(* The spinners: each flag is backed by what will reset it *)

\* App's own flag: a fetch is under way.
SFlag ==
  /\ DOMAIN fetches = Fetch
  /\ refreshing => \E f \in Fetch : fetches[f] # Ended

-----------------------------------------------------------------------------

\* The steps of a view that call onRefreshCatalog start a fetch; the others leave
\* App's flag and its fetches.
LEMMA ViewFetches ==
  ASSUME ViewNext
  PROVE  FetchData \/ UNCHANGED <<fetches, refreshing>>
<1>1. CASE Overview!ViewNext
  BY <1>1, Zenon DEF Overview!ViewNext, Overview!ToggleDrawer, Overview!HandleCopyMetrics,
                     Overview!TimerFires, Overview!shell
<1>2. CASE Collections!ViewNext
  BY <1>2, Zenon DEF Collections!ViewNext, Collections!UserNext, Collections!SelectCollection,
       Collections!Reload, Collections!View, Collections!HandleOpenCreate,
       Collections!HandleOpenEdit, Collections!CloseModal, Collections!HandleSaveDocument,
       Collections!HandleSaveInvalid, Collections!HandleDelete, Collections!Answer,
       Collections!DocumentsArrive, Collections!DocumentsFail, Collections!SaveDone,
       Collections!DeleteDone, Collections!WriteFails, Collections!FetchData,
       Collections!Fetch, Collections!Ended, FetchData, Fetch, Ended, Collections!shell
<1>3. CASE Buckets!ViewNext
  BY <1>3, Zenon DEF Buckets!ViewNext, Buckets!SelectBucket, Buckets!Scan, Buckets!OpenForm,
       Buckets!CloseForm, Buckets!HandlePut, Buckets!HandlePutEmpty, Buckets!HandleRow,
       Buckets!Answer, Buckets!EntriesArrive, Buckets!EntriesFail, Buckets!PutDone,
       Buckets!RowDone, Buckets!WriteFails, Buckets!FetchData,
       Buckets!Fetch, Buckets!Ended, FetchData, Fetch, Ended, Buckets!shell
<1>4. CASE Series!ViewNext
  BY <1>4, Zenon DEF Series!ViewNext, Series!TypeSeries, Series!RefreshSeries, Series!RunQuery,
       Series!HandleWrite, Series!HandleWriteInvalid, Series!HandlePrune, Series!Answer,
       Series!PointsArrive, Series!PointsFail, Series!SeriesArrive,
       Series!WrittenSeriesArrive, Series!SeriesFail, Series!WriteDone, Series!PruneDone,
       Series!WriteFails, Series!FetchData,
       Series!Fetch, Series!Ended, FetchData, Fetch, Ended, Series!shell
<1>5. CASE Queues!ViewNext
  BY <1>5, Zenon DEF Queues!ViewNext, Queues!PollQueues, Queues!RefreshQueues,
       Queues!SelectQueue, Queues!EditForm, Queues!HandleEnqueue, Queues!HandleDequeue,
       Queues!Send, Queues!Answer, Queues!QueuesArrive, Queues!QueuesFail, Queues!CallDone,
       Queues!CallFails, Queues!shell
<1>6. CASE Events!ViewNext
  BY <1>6, Zenon DEF Events!ViewNext, Events!LoadHistory, Events!HandlePublish, Events!Answer,
       Events!PublishDone, Events!PublishFails, Events!HistoryArrives, Events!HistoryFails,
       Events!shell
<1>7. CASE Playgrounds!ViewNext
  BY <1>7, Zenon DEF Playgrounds!ViewNext, Playgrounds!SelectOption, Playgrounds!EditLimit,
       Playgrounds!HandleExecute, Playgrounds!HandleSearch, Playgrounds!HandleSearchInvalid,
       Playgrounds!Send, Playgrounds!Arrives, Playgrounds!Fails, Playgrounds!shell
<1>8. CASE Tools!ViewNext
  BY <1>8, Zenon DEF Tools!ViewNext, Tools!Start, Tools!Done, Tools!Fails, Tools!shell
<1> QED BY <1>1, <1>2, <1>3, <1>4, <1>5, <1>6, <1>7, <1>8, Zenon DEF ViewNext

\* A fetch that begins or is answered keeps App's flag backed, and one that ends
\* resets it.
LEMMA ShellFlag ==
  ASSUME SFlag,
         \/ FetchData \/ UNCHANGED <<fetches, refreshing>> \/ ShellNext
         \/ \E f \in Fetch : SetCatalog(f)
  PROVE  SFlag'
<1>s. ASSUME NEW r, r.at # "ended", NEW f \in Fetch, fetches' = [fetches EXCEPT ![f] = r]
      PROVE  SFlag'
  <2>1. Ended.at = "ended"
    BY DEF Ended
  <2>2. r # Ended
    BY <1>s, <2>1
  <2>3. DOMAIN fetches' = Fetch /\ fetches'[f] = r
    BY <1>s DEF SFlag
  <2> QED BY <2>2, <2>3, Zenon DEF SFlag, Ended
<1>1. CASE FetchData
  <2> DEFINE r == [at |-> "sent", catalog |-> {}]
  <2>1. PICK f \in Fetch : fetches' = [fetches EXCEPT ![f] = r]
    <3> DEFINE f == CHOOSE f \in Fetch : fetches[f] = Ended
    <3>1. f \in Fetch
      BY <1>1 DEF FetchData
    <3>2. fetches' = [fetches EXCEPT ![f] = r]
      BY <1>1, Zenon DEF FetchData
    <3> HIDE DEF f
    <3> QED BY <3>1, <3>2, Zenon
  <2>2. r.at # "ended"
    OBVIOUS
  <2> HIDE DEF r
  <2> QED BY <1>s, <2>1, <2>2, Zenon
<1>2. CASE UNCHANGED <<fetches, refreshing>>
  BY <1>2, Zenon DEF SFlag, Ended
<1>3. ASSUME NEW f \in Fetch, AnswerCatalog(f) \/ FailCatalog(f)
      PROVE  SFlag'
  <2>1. PICK list : fetches' = [fetches EXCEPT ![f] = [at |-> "read", catalog |-> list]]
    BY <1>3, Zenon DEF AnswerCatalog, FailCatalog
  <2> DEFINE r == [at |-> "read", catalog |-> list]
  <2>2. r.at # "ended" /\ fetches' = [fetches EXCEPT ![f] = r]
    BY <2>1
  <2> HIDE DEF r
  <2> QED BY <1>s, <2>2, Zenon
<1>4. ASSUME NEW n, Create(n)
      PROVE  UNCHANGED <<fetches, refreshing>>
  BY <1>4 DEF Create
<1>5. ASSUME NEW f \in Fetch, SetCatalog(f)
      PROVE  SFlag'
  <2>1. DOMAIN fetches' = DOMAIN fetches /\ refreshing' = FALSE
    BY <1>5 DEF SetCatalog
  <2> QED BY <2>1, Zenon DEF SFlag
<1> QED BY <1>1, <1>2, <1>3, <1>4, <1>5, Zenon DEF ShellNext, Poll, Refresh

-----------------------------------------------------------------------------

\* The flag of the view that is mounted.
VFlag ==
  /\ Overview!Mounted => OFlag
  /\ Collections!Mounted => Exact(local, calls)
  /\ Buckets!Mounted => BLoads(local, calls)
  /\ Series!Mounted => Exact(local, calls)
  /\ Queues!Mounted => QFlag
  /\ Events!Mounted => EFlag
  /\ Playgrounds!Mounted => PFlag
  /\ Tools!Mounted => MFlag

\* It is enough to know the flag of the view that is mounted next.
LEMMA NextFlag ==
  ASSUME \/ local'.view = "dashboard" /\ OFlag'
         \/ local'.view \in {"collections", "timeseries"} /\ Exact(local', calls')
         \/ local'.view = "buckets" /\ BLoads(local', calls')
         \/ local'.view = "queues" /\ QFlag'
         \/ local'.view = "pubsub" /\ EFlag'
         \/ local'.view \in {"query", "vector", "search"} /\ PFlag'
         \/ local'.view = "maintenance" /\ MFlag'
         \/ local'.view = "crashed"
  PROVE  VFlag'
BY DEF VFlag, Overview!Mounted, Collections!Mounted, Buckets!Mounted, Series!Mounted,
       Queues!Mounted, Events!Mounted, Playgrounds!Mounted, Playgrounds!Playground,
       Tools!Mounted

\* A view is mounted.
LEMMA MountFlag ==
  ASSUME NEW view, Mount(view), catalog' = catalog
  PROVE  VFlag'
<1>0. local'.view = view
  BY MountStep
<1>1. CASE view = "dashboard" /\ Overview!Mount
  BY <1>0, <1>1, OverviewFlag, NextFlag, Zenon
<1>2. CASE view = "collections" /\ Collections!Mount
  BY <1>0, <1>2, MountExact, NextFlag, Zenon
<1>3. CASE view = "buckets" /\ Buckets!Mount
  BY <1>0, <1>3, MountLoads, NextFlag, Zenon
<1>4. CASE view = "timeseries" /\ Series!Mount
  BY <1>0, <1>4, MountSeriesExact, NextFlag, ZenonT(60)
<1>5. CASE view = "queues" /\ Queues!Mount
  BY <1>0, <1>5, QueuesFlag, NextFlag, Zenon
<1>6. CASE view = "pubsub" /\ Events!Mount
  BY <1>0, <1>6, EventsFlag, NextFlag, ZenonT(60)
<1>7. CASE view \in Playgrounds!Playground /\ Playgrounds!Mount(view)
  <2>1. view \in {"query", "vector", "search"}
    BY <1>7 DEF Playgrounds!Playground
  <2>2. PFlag' \/ local' = Playgrounds!Crashed
    BY <1>7, PlaygroundFlag, Zenon
  <2>3. Playgrounds!Crashed.view = "crashed"
    BY DEF Playgrounds!Crashed
  <2>4. local' # Playgrounds!Crashed
    BY <1>0, <2>1, <2>3
  <2> QED BY <1>0, <2>1, <2>2, <2>4, NextFlag, Zenon
<1>8. CASE view = "maintenance" /\ Tools!Mount
  BY <1>0, <1>8, ToolsFlag, NextFlag, ZenonT(60)
<1> QED BY <1>1, <1>2, <1>3, <1>4, <1>5, <1>6, <1>7, <1>8, Zenon DEF Mount

\* A step of the mounted view.
LEMMA ViewFlag ==
  ASSUME VInv, VFlag, ViewNext
  PROVE  VFlag'
<1>0. local'.view = local.view \/ local' = Playgrounds!Crashed
  BY ViewStep, Zenon DEF GoesOn, HasError
<1>c. ASSUME local' = Playgrounds!Crashed
      PROVE  VFlag'
  <2>1. local'.view = "crashed"
    BY <1>c DEF Playgrounds!Crashed
  <2> QED BY <2>1, NextFlag, Zenon
<1> SUFFICES ASSUME local'.view = local.view, local' # Playgrounds!Crashed
             PROVE  VFlag'
  BY <1>0, <1>c, Zenon
<1>1. CASE Overview!ViewNext
  <2>1. local.view = "dashboard" /\ OFlag
    BY <1>1, ToolsMounted, Zenon DEF VFlag, Overview!Mounted
  <2> QED BY <1>1, <2>1, OverviewFlag, NextFlag, Zenon
<1>2. CASE Collections!ViewNext
  <2>1. local.view = "collections"
    BY <1>2, CollectionsMounted
  <2>2. Exact(local, calls) /\ DOMAIN local = Fields
    BY <2>1, Zenon DEF VFlag, VInv, CInv, CBase, Collections!Mounted
  <2> QED BY <1>2, <2>1, <2>2, CollectionsExact, NextFlag, Zenon
<1>3. CASE Buckets!ViewNext
  <2>1. local.view = "buckets"
    BY <1>3, BucketsMounted
  <2>2. BLoads(local, calls) /\ DOMAIN local = BFields
    BY <2>1, Zenon DEF VFlag, VInv, BInv, BBase, Buckets!Mounted
  <2> QED BY <1>3, <2>1, <2>2, BucketsLoads, NextFlag, ZenonT(60)
<1>4. CASE Series!ViewNext
  <2>1. local.view = "timeseries"
    BY <1>4, SeriesMounted
  <2>2. Exact(local, calls) /\ DOMAIN local = TFields
    BY <2>1, Zenon DEF VFlag, VInv, TInv, TBase, Series!Mounted
  <2> QED BY <1>4, <2>1, <2>2, SeriesExact, NextFlag, ZenonT(60)
<1>5. CASE Queues!ViewNext
  <2>1. local.view = "queues" /\ QFlag
    BY <1>5, ToolsMounted, Zenon DEF VFlag, Queues!Mounted
  <2> QED BY <1>5, <2>1, QueuesFlag, NextFlag, Zenon
<1>6. CASE Events!ViewNext
  <2>1. local.view = "pubsub" /\ EFlag
    BY <1>6, ToolsMounted, Zenon DEF VFlag, Events!Mounted
  <2> QED BY <1>6, <2>1, EventsFlag, NextFlag, Zenon
<1>7. CASE Playgrounds!ViewNext
  <2>1. local.view \in {"query", "vector", "search"}
    BY <1>7, PlaygroundMounted
  <2>2. PFlag /\ DOMAIN local = PFields
    BY <2>1, Zenon DEF VFlag, VInv, PInv, Playgrounds!Mounted, Playgrounds!Playground
  <2>3. PFlag'
    BY <1>7, <2>2, PlaygroundFlag, Zenon
  <2> QED BY <2>1, <2>3, NextFlag, Zenon
<1>8. CASE Tools!ViewNext
  <2>1. local.view = "maintenance" /\ MFlag
    BY <1>8, ToolsMounted, Zenon DEF VFlag, Tools!Mounted
  <2> QED BY <1>8, <2>1, ToolsFlag, NextFlag, Zenon
<1> QED BY <1>1, <1>2, <1>3, <1>4, <1>5, <1>6, <1>7, <1>8, Zenon DEF ViewNext

\* Nothing happens in the mounted view.
LEMMA IdleFlag ==
  ASSUME VFlag, local' = local, calls' = calls
  PROVE  VFlag'
BY ZenonT(60) DEF VFlag, OFlag, QFlag, EFlag, PFlag, MFlag, Overview!Mounted, Collections!Mounted,
   Buckets!Mounted, Series!Mounted, Queues!Mounted, Events!Mounted, Playgrounds!Mounted,
   Tools!Mounted

\* A catalog arrives.
LEMMA CatalogFlag ==
  ASSUME VInv, VFlag, CatalogEffect(catalog')
  PROVE  VFlag'
<1>0. local'.view = local.view
  BY CatalogStep, Zenon DEF GoesOn
<1>1. CASE Collections!Mounted /\ Collections!CatalogEffect(catalog')
  <2>1. /\ local.view = "collections"
        /\ Exact(local, calls) /\ DOMAIN local = Fields
    BY <1>1, Zenon DEF VFlag, VInv, CInv, CBase, Collections!Mounted
  <2> QED BY <1>0, <1>1, <2>1, CatalogExact, NextFlag, Zenon
<1>2. CASE Buckets!Mounted /\ Buckets!CatalogEffect(catalog')
  <2>1. /\ local.view = "buckets"
        /\ BLoads(local, calls) /\ DOMAIN local = BFields
    BY <1>2, Zenon DEF VFlag, VInv, BInv, BBase, Buckets!Mounted
  <2> QED BY <1>0, <1>2, <2>1, BucketsLoads, NextFlag, Zenon
<1>3. CASE Playgrounds!Mounted /\ Playgrounds!CatalogEffect(catalog')
  <2>1. /\ local.view \in {"query", "vector", "search"}
        /\ PFlag /\ DOMAIN local = PFields
    BY <1>3, Zenon DEF VFlag, VInv, PInv, Playgrounds!Mounted, Playgrounds!Playground
  <2>2. PFlag' \/ local' = Playgrounds!Crashed
    BY <1>3, <2>1, PlaygroundFlag, Zenon
  <2>3. Playgrounds!Crashed.view = "crashed"
    BY DEF Playgrounds!Crashed
  <2>4. local' # Playgrounds!Crashed
    BY <1>0, <2>1, <2>3
  <2> QED BY <1>0, <2>1, <2>2, <2>4, NextFlag, Zenon
<1>4. CASE UNCHANGED <<local, calls>>
  BY <1>4, IdleFlag, Zenon
<1> QED BY <1>1, <1>2, <1>3, <1>4, Zenon DEF CatalogEffect

\* App's flag and that of the mounted view stay backed.
LEMMA FlagsStep ==
  ASSUME SInv, SFlag, VFlag, [Next]_vars
  PROVE  SFlag' /\ VFlag'
<1>v. VInv
  BY Zenon DEF SInv
<1>i. ASSUME local' = local, calls' = calls
      PROVE  VFlag'
  BY <1>i, IdleFlag
<1>u. ASSUME UNCHANGED shell
      PROVE  SFlag' /\ catalog' = catalog
  <2>1. UNCHANGED <<fetches, refreshing>> /\ catalog' = catalog
    BY <1>u, Zenon DEF shell
  <2> QED BY <2>1, ShellFlag, Zenon
<1>1. ASSUME NEW view, Navigate(view)
      PROVE  SFlag' /\ VFlag'
  <2>1. UNCHANGED shell /\ (UNCHANGED <<local, calls>> \/ Mount(view))
    BY <1>1, Zenon DEF Navigate
  <2> QED BY <1>i, <1>u, <2>1, MountFlag, ZenonT(60)
<1>2. CASE Retry
  <2>1. UNCHANGED shell /\ Mount(currentView)
    BY <1>2, Zenon DEF Retry
  <2> QED BY <1>u, <2>1, MountFlag, Zenon
<1>3. CASE ViewNext
  BY <1>3, <1>v, ViewFlag, ViewFetches, ShellFlag, Zenon
<1>4. ASSUME NEW f \in Fetch, CatalogArrives(f)
      PROVE  SFlag' /\ VFlag'
  BY <1>4, <1>v, CatalogFlag, ShellFlag, Zenon DEF CatalogArrives
<1>5. CASE ShellNext /\ UNCHANGED <<currentView, local, calls, server>>
  BY <1>5, <1>i, ShellFlag, Zenon
<1>6. CASE Queues!WindowEnds
  <2>1. UNCHANGED shell /\ local' = local /\ calls' = calls
    BY <1>6, Zenon DEF Queues!WindowEnds, Queues!shell, shell
  <2> QED BY <1>i, <1>u, <2>1, Zenon
<1>7. CASE UNCHANGED vars
  <2>1. UNCHANGED shell /\ local' = local /\ calls' = calls
    BY <1>7, Zenon DEF vars
  <2> QED BY <1>i, <1>u, <2>1, Zenon
<1> QED BY <1>1, <1>2, <1>3, <1>4, <1>5, <1>6, <1>7, Zenon DEF Next, SelectView, FollowLink

\* The flags say what SpinnersExact promises.
LEMMA FlagsAreExact ==
  ASSUME SFlag, VFlag
  PROVE  SpinnersExact
<1>1. refreshing => \E f \in Fetch : fetches[f] # Ended
  BY Zenon DEF SFlag
<1>2. Overview!CopiedEnds /\ Queues!LoadingEnds /\ Events!LoadingExact /\ Tools!FlagsExact
  BY Zenon DEF VFlag, OFlag, QFlag, EFlag, MFlag, Overview!CopiedEnds, Queues!LoadingEnds,
     Events!LoadingExact, Tools!FlagsExact
<1>3. Collections!LoadingExact /\ Series!LoadingExact
  <2>1. \A c : c \in Queries(calls) <=> c \in calls /\ c.op = "query"
    BY DEF Queries
  <2> QED BY <2>1, Zenon DEF VFlag, Exact, Collections!LoadingExact, Series!LoadingExact
<1>4. Buckets!LoadingEnds
  <2>1. \A c \in calls : c.op = "scan" => c \in Buckets!Scans(calls)
    BY DEF Buckets!Scans
  <2> QED BY <2>1, Zenon DEF VFlag, BLoads, Buckets!LoadingEnds
<1>5. Playgrounds!LoadingExact
  <2>1. PFlag => IF local.loading THEN \E c \in calls : calls = {c} ELSE calls = {}
    BY DEF PFlag
  <2> QED BY <2>1, Zenon DEF VFlag, Playgrounds!LoadingExact
<1> QED BY <1>1, <1>2, <1>3, <1>4, <1>5, Zenon DEF SpinnersExact

\* No spinner of Studio turns, no button stays disabled and no note stays on for
\* nothing, for any number of requests, polls and timers that overlap, fail or are
\* overtaken.
THEOREM SpinnersAlwaysExact == Spec => []SpinnersExact
<1>1. Init => SFlag /\ VFlag
  <2> SUFFICES ASSUME Init PROVE SFlag /\ VFlag
    OBVIOUS
  <2>1. SFlag
    <3> DEFINE r == [at |-> "sent", catalog |-> {}]
    <3>1. /\ DOMAIN fetches = Fetch
          /\ 1 \in Fetch => fetches[1] = r
      BY DEF Init, ShellInit
    <3>2. r # Ended
      BY DEF Ended
    <3>3. 1 \in Fetch
      BY ShellAssumption DEF Fetch
    <3> HIDE DEF r
    <3> QED BY <3>1, <3>2, <3>3, ZenonT(60) DEF SFlag
  <2>2. OFlag
    BY DEF Init, Overview!Fresh, OFlag
  <2>3. local.view = "dashboard"
    BY StudioInit
  <2>4. VFlag
    BY <2>2, <2>3 DEF VFlag, Overview!Mounted, Collections!Mounted, Buckets!Mounted,
       Series!Mounted, Queues!Mounted, Events!Mounted, Playgrounds!Mounted,
       Playgrounds!Playground, Tools!Mounted
  <2> QED BY <2>1, <2>4
<1>2. SInv /\ (SFlag /\ VFlag) /\ [Next]_vars => (SFlag /\ VFlag)'
  BY FlagsStep, Zenon
<1>3. SFlag /\ VFlag => SpinnersExact
  BY FlagsAreExact, Zenon
<1> QED BY <1>1, <1>2, <1>3, StudioInvariant, PTL DEF Spec

==============================================================================
