------------------------- MODULE CanvasStagingProofs -------------------------
(***************************************************************************)
(* Theorems about CanvasStaging, for any sessions, any number of cancel     *)
(* calls in flight and of socket events under way.                          *)
(***************************************************************************)
EXTENDS CanvasStaging, FiniteSetTheorems, TLAPS

USE CanvasStagingAssumption

-----------------------------------------------------------------------------
(* Types. *)

Slice == [images : Seq(Sessions), index : Nat]
Progressing == [session : Option, hasActiveGeneration : BOOLEAN]

LEMMA ModRange ==
    ASSUME NEW x \in Int, NEW n \in Nat, n > 0
    PROVE  x % n \in 0 .. n - 1
  OBVIOUS

LEMMA SelectedType ==
    ASSUME NEW st \in Slice
    PROVE  Selected(st) \in Option
  <1>1. CASE st.index \in 0 .. Len(st.images) - 1
    <2>1. st.images \in Seq(Sessions) /\ st.index + 1 \in 1 .. Len(st.images)
      BY <1>1 DEF Slice
    <2> QED BY <1>1, <2>1 DEF Selected, Option
  <1>2. CASE st.index \notin 0 .. Len(st.images) - 1
    BY <1>2 DEF Selected, Option
  <1> QED BY <1>1, <1>2

\* The slices that the reducers make.
LEMMA StagedTypes ==
    ASSUME TypeOK
    PROVE  /\ NothingStaged \in Slice
           /\ \A s \in Sessions : Staged(s) \in Slice
           /\ Len(staging.images) > 1 => Discarded(staging.index) \in Slice
           /\ \A step \in {1, -1} : Len(staging.images) > 1 =>
                [staging EXCEPT !.index = (@ + step + Len(staging.images)) % Len(staging.images)]
                  \in Slice
  <1> DEFINE n == Len(staging.images)
  <1>1. staging \in Slice /\ staging.images \in Seq(Sessions) /\ staging.index \in Nat /\ n \in Nat
    BY DEF TypeOK, Slice
  <1>2. NothingStaged \in Slice
    BY DEF NothingStaged, Slice
  <1>3. \A s \in Sessions : Staged(s) \in Slice
    BY <1>1 DEF Staged, Slice
  <1>4. ASSUME n > 1 PROVE Discarded(staging.index) \in Slice
    <2> DEFINE images == [k \in 1 .. n - 1 |->
                            staging.images[IF k <= staging.index THEN k ELSE k + 1]]
    <2>1. images \in [1 .. n - 1 -> Sessions]
      BY <1>1, <1>4
    <2>2. images \in Seq(Sessions)
      BY <1>1, <1>4, <2>1
    <2>3. (IF staging.index <= n - 1 - 1 THEN staging.index ELSE n - 1 - 1) \in Nat
      BY <1>1, <1>4
    <2> QED BY <2>2, <2>3 DEF Discarded, Slice
  <1>5. ASSUME NEW step \in {1, -1}, n > 1
        PROVE  [staging EXCEPT !.index = (@ + step + n) % n] \in Slice
    <2>1. (staging.index + step + n) % n \in 0 .. n - 1
      <3>1. staging.index + step + n \in Int
        BY <1>1
      <3> HIDE DEF n
      <3> QED BY <1>1, <1>5, <3>1, ModRange
    <2> QED BY <1>1, <2>1 DEF Slice
  <1> QED BY <1>2, <1>3, <1>4, <1>5

LEMMA RenderedType ==
    ASSUME TypeOK, NEW st \in Slice
    PROVE  Rendered(st) \in View
  <1>1. Selected(st) \in Option /\ view \in View /\ progress.session \in Option
    BY SelectedType DEF TypeOK
  <1>2. ASSUME NEW first \in BOOLEAN, Selected(st) # None PROVE Load(st, first) \in Loads
    BY <1>1, <1>2 DEF Load, Loads, Option
  <1>3. {[l EXCEPT !.current = FALSE] : l \in view.loads} \subseteq Loads
    <2>1. \A l \in Loads : [l EXCEPT !.current = FALSE] \in Loads
      BY DEF Loads
    <2> QED BY <1>1, <2>1 DEF View
  <1>4. CASE Selected(st) = None
    BY <1>3, <1>4 DEF Rendered, NoView, View, Option
  <1>5. CASE Selected(st) # None
    BY <1>1, <1>2, <1>5 DEF Rendered, View
  <1> QED BY <1>4, <1>5

\* What a step does to what is staged, shown and loaded.
Shown ==
    \/ UNCHANGED <<staging, view>> /\ progress' \in Progressing
    \/ \E st \in Slice : Restage(st)
    \/ \E l \in view.loads : LoadEnds(l)

LEMMA SubscribedType ==
    ASSUME TypeOK
    PROVE  Invalidated(counts) \in Counts /\ Subscribed(counts, progress) \in Progressing
  BY DEF TypeOK, Invalidated, Subscribed, Counts, Progressing

LEMMA StepShows == TypeOK /\ Next => Shown
  <1> SUFFICES ASSUME TypeOK, Next PROVE Shown
    OBVIOUS
  <1>1. progress \in Progressing
    BY DEF TypeOK, Progressing
  <1>2. CASE Serve \/ ServeCounts \/ \E s \in Sessions : Enqueue(s)
    BY <1>1, <1>2 DEF Serve, ServeCounts, Enqueue, Shown
  <1>3. CASE CancelAnswered \/ \E s \in Sessions : EnqueueAnswered(s)
    BY <1>3, SubscribedType DEF CancelAnswered, EnqueueAnswered, Invalidates, Shown
  <1>4. CASE CountsAnswered
    BY <1>1, <1>4 DEF CountsAnswered, Progressing, Shown
  <1>5. CASE Receive
    <2>1. Head(wire) \in Events
      BY <1>5 DEF Receive, TypeOK
    <2>2. progress' \in Progressing
      <3>1. CASE progress' = [progress EXCEPT !.session =
                                IF progress.hasActiveGeneration THEN Head(wire).session ELSE @]
        BY <1>1, <2>1, <3>1 DEF Progressing, Option, Events
      <3>2. CASE progress' = [session |-> None, hasActiveGeneration |-> FALSE]
        BY <3>2 DEF Progressing, Option
      <3>3. CASE progress' = Subscribed(counts, progress) \/ progress' = progress
        BY <1>1, <3>3, SubscribedType
      <3> QED BY <1>5, <3>1, <3>2, <3>3 DEF Receive, Invalidates
    <2> QED BY <1>5, <2>2 DEF Receive, Shown
  <1>6. CASE \E s \in Sessions : ImageStaged(s)
    BY <1>1, <1>6, StagedTypes DEF ImageStaged, Shown
  <1>7. CASE \E l \in view.loads : LoadEnds(l)
    BY <1>7 DEF Shown
  <1>8. CASE \E step \in {1, -1} : Select(step)
    BY <1>8, StagedTypes DEF Select, Shown
  <1>9. CASE DiscardAll \/ DiscardSelected \/ Accept
    BY <1>9, StagedTypes DEF DiscardAll, DiscardSelected, Accept, Reset, Shown
  <1> QED BY <1>2, <1>3, <1>4, <1>5, <1>6, <1>7, <1>8, <1>9 DEF Next

LEMMA ShownTypes ==
    ASSUME TypeOK, Shown
    PROVE  staging' \in Slice /\ view' \in View /\ progress' \in Progressing
  <1>1. staging \in Slice /\ view \in View /\ progress \in Progressing
    BY DEF TypeOK, Slice, Progressing
  <1>2. CASE UNCHANGED <<staging, view>> /\ progress' \in Progressing
    BY <1>1, <1>2
  <1>3. ASSUME NEW st \in Slice, Restage(st)
        PROVE  staging' \in Slice /\ view' \in View /\ progress' \in Progressing
    BY <1>1, <1>3, RenderedType DEF Restage, Progressing, Option
  <1>4. ASSUME NEW l \in view.loads, LoadEnds(l)
        PROVE  staging' \in Slice /\ view' \in View /\ progress' \in Progressing
    <2>1. l.session \in Option /\ view.loads \ {l} \subseteq Loads
      BY <1>1 DEF View, Loads, Option
    <2>2. view' \in View
      BY <1>1, <1>4, <2>1 DEF LoadEnds, View
    <2> QED BY <1>1, <1>4, <2>2 DEF LoadEnds, Progressing, Option
  <1> QED BY <1>2, <1>3, <1>4 DEF Shown

LEMMA ServerTypes == TypeOK /\ Next => server' \in Server /\ calls' \in Calls
  <1> SUFFICES ASSUME TypeOK, Next PROVE server' \in Server /\ calls' \in Calls
    OBVIOUS
  <1>1. server \in Server /\ calls \in Calls
    BY DEF TypeOK
  <1>2. CASE Serve
    <2>1. ASSUME NEW s \in Sessions, ServeEnqueue(s)
          PROVE  server' \in Server /\ calls' \in Calls
      BY <1>1, <2>1 DEF ServeEnqueue, Server, Calls
    <2>2. ASSUME NEW s \in Sessions, Start(s) \/ Progress(s) \/ Output(s) \/ End(s)
          PROVE  server' \in Server /\ calls' \in Calls
      <3>1. ASSUME NEW at \in {"in_progress", "ended"}
            PROVE  [server.row EXCEPT ![s] = at]
                      \in [Sessions -> {"none", "posted", "pending", "in_progress", "ended"}]
        BY <1>1 DEF Server
      <3>2. CASE Start(s)
        BY <1>1, <3>1, <3>2 DEF Start, Server, Option
      <3>3. CASE Progress(s) \/ Output(s)
        BY <1>1, <3>3 DEF Progress, Output, Server
      <3>4. CASE End(s)
        <4>1. Ended(s) \in Server
          BY <3>1 DEF Ended, Server, Option
        <4> QED BY <1>1, <3>4, <4>1 DEF End
      <3> QED BY <2>2, <3>2, <3>3, <3>4
    <2>3. CASE ServeCancel
      <3>1. [s \in Sessions |-> IF s \in Unfinished THEN "ended" ELSE server.row[s]]
              \in [Sessions -> {"none", "posted", "pending", "in_progress", "ended"}]
        BY <1>1 DEF Server
      <3>2. server' \in Server
        BY <1>1, <2>3, <3>1 DEF ServeCancel, Server
      <3>3. calls' \in Calls
        <4>1. /\ calls.sent \in 0 .. MaxCancels /\ calls.answered \in 0 .. MaxCancels
              /\ calls.replied \in SUBSET Sessions
              /\ calls.sent > 0 /\ calls.answered < MaxCancels
              /\ calls' = [calls EXCEPT !.sent = calls.sent - 1, !.answered = calls.answered + 1]
          BY <1>1, <2>3 DEF ServeCancel, Calls
        <4>2. calls.sent - 1 \in 0 .. MaxCancels /\ calls.answered + 1 \in 0 .. MaxCancels
          BY <4>1
        <4> QED BY <1>1, <4>1, <4>2 DEF Calls
      <3> QED BY <3>2, <3>3
    <2> QED BY <1>2, <2>1, <2>2, <2>3 DEF Serve
  <1>3. CASE ServeCounts \/ CountsAnswered \/ Receive \/ \E s \in Sessions : ImageStaged(s)
    BY <1>1, <1>3 DEF ServeCounts, CountsAnswered, Receive, ImageStaged
  <1>4. ASSUME NEW s \in Sessions, Enqueue(s) \/ EnqueueAnswered(s)
        PROVE  server' \in Server /\ calls' \in Calls
    BY <1>1, <1>4 DEF Enqueue, EnqueueAnswered, Server, Calls
  <1>5. CASE CancelAnswered
    BY <1>1, <1>5 DEF CancelAnswered, Calls
  <1>6. CASE (\E l \in view.loads : LoadEnds(l)) \/ \E step \in {1, -1} : Select(step)
    BY <1>1, <1>6 DEF LoadEnds, Select
  <1>7. ASSUME Reset PROVE calls' \in Calls
    BY <1>1, <1>7 DEF Reset, Calls
  <1>8. CASE DiscardAll \/ DiscardSelected \/ Accept
    BY <1>1, <1>7, <1>8 DEF DiscardAll, DiscardSelected, Accept
  <1> QED BY <1>2, <1>3, <1>4, <1>5, <1>6, <1>8 DEF Next

LEMMA RestTypes ==
    ASSUME TypeOK, Next
    PROVE  /\ wire' \in Seq(Events) /\ counts' \in Counts
           /\ fetching' \subseteq Sessions /\ accepted' \subseteq Sessions
  <1>1. /\ wire \in Seq(Events) /\ counts \in Counts
        /\ fetching \subseteq Sessions /\ accepted \subseteq Sessions
    BY DEF TypeOK
  <1>2. ASSUME NEW s \in Sessions, \E kind \in {"progress", "output", "in_progress", "completed",
                                                "failed", "canceled"} : Emit(kind, s)
        PROVE  wire' \in Seq(Events)
    BY <1>1, <1>2 DEF Emit, Events
  <1>3. CASE Serve
    <2>1. wire' \in Seq(Events)
      BY <1>1, <1>2, <1>3 DEF Serve, ServeEnqueue, Start, Progress, Output, End, ServeCancel, Unfinished
    <2> QED BY <1>1, <1>3, <2>1 DEF Serve
  <1>4. CASE Receive
    <2>1. Head(wire) \in Events /\ Tail(wire) \in Seq(Events)
      BY <1>1, <1>4 DEF Receive
    <2> QED BY <1>1, <1>4, <2>1, SubscribedType DEF Receive, Invalidates, Events
  <1>5. CASE ServeCounts \/ CountsAnswered \/ CancelAnswered
             \/ \E s \in Sessions : Enqueue(s) \/ EnqueueAnswered(s) \/ ImageStaged(s)
    BY <1>1, <1>5, SubscribedType DEF ServeCounts, CountsAnswered, CancelAnswered, Enqueue,
       EnqueueAnswered, ImageStaged, Invalidates, Counts
  <1>6. CASE (\E l \in view.loads : LoadEnds(l)) \/ \E step \in {1, -1} : Select(step)
    BY <1>1, <1>6 DEF LoadEnds, Select
  <1>7. CASE DiscardAll \/ DiscardSelected \/ Accept
    <2>1. Selected(staging) \in Option
      BY SelectedType DEF TypeOK, Slice
    <2> QED BY <1>1, <1>7, <2>1 DEF DiscardAll, DiscardSelected, Accept, Option
  <1> QED BY <1>3, <1>4, <1>5, <1>6, <1>7 DEF Next

LEMMA TypesKept == TypeOK /\ [Next]_vars => TypeOK'
  <1>1. TypeOK /\ Next => TypeOK'
    BY StepShows, ShownTypes, ServerTypes, RestTypes DEF TypeOK, Slice, Progressing
  <1>2. TypeOK /\ UNCHANGED vars => TypeOK'
    BY DEF TypeOK, vars
  <1> QED BY <1>1, <1>2

-----------------------------------------------------------------------------
(* The staged image. *)

\* The loads that may touch the image module.
Current(v) == {l \in v.loads : l.current}

\* One load at most is current; the module says that it loads exactly then;
\* and unless a render was skipped since, it loads what is selected.
LoadInv(v, st) ==
    /\ \A l, k \in Current(v) : l = k
    /\ v.loading <=> Current(v) # {}
    /\ v.image = None => ~v.loading
    /\ ~v.skipped => \A l \in Current(v) : l.session = Selected(st)
    /\ ~v.skipped /\ ~v.loading => v.image = Selected(st)

LEMMA RenderedLoads ==
    ASSUME TypeOK, LoadInv(view, staging), NEW st \in Slice
    PROVE  LoadInv(Rendered(st), st)
  <1>1. view \in View
    BY DEF TypeOK
  <1>2. CASE Selected(st) = None
    <2>1. /\ Rendered(st).image = None /\ ~Rendered(st).loading /\ ~Rendered(st).skipped
          /\ Rendered(st).loads = {[l EXCEPT !.current = FALSE] : l \in view.loads}
      BY <1>2 DEF Rendered, NoView
    <2>2. \A l \in Loads : ~[l EXCEPT !.current = FALSE].current
      BY DEF Loads
    <2>3. Current(Rendered(st)) = {}
      BY <1>1, <2>1, <2>2 DEF Current, View
    <2> QED BY <1>2, <2>1, <2>3 DEF LoadInv
  <1>3. ASSUME NEW first, NEW v, Selected(st) # None, ~view.loading,
               v.loads = view.loads \cup {Load(st, first)}, v.loading = TRUE, v.skipped = FALSE,
               v.image # None
        PROVE  LoadInv(v, st)
    <2>1. Load(st, first).current /\ Load(st, first).session = Selected(st)
      BY DEF Load
    <2>2. Current(view) = {}
      BY <1>3 DEF LoadInv
    <2>3. Current(v) = {Load(st, first)}
      BY <1>3, <2>1, <2>2 DEF Current
    <2> QED BY <1>3, <2>1, <2>3 DEF LoadInv
  <1>4. CASE Selected(st) # None /\ view.image = None
    <2> DEFINE v == [view EXCEPT !.image = Selected(st), !.loading = TRUE, !.skipped = FALSE,
                                 !.loads = @ \cup {Load(st, TRUE)}]
    <2>1. Rendered(st) = v
      BY <1>4 DEF Rendered
    <2>2. /\ v.loads = view.loads \cup {Load(st, TRUE)} /\ v.loading = TRUE /\ v.skipped = FALSE
          /\ v.image # None
      BY <1>1, <1>4 DEF View
    <2> HIDE DEF v
    <2> QED BY <1>3, <1>4, <2>1, <2>2 DEF LoadInv
  <1>5. CASE Selected(st) # None /\ view.image # None /\ view.loading
    <2>1. /\ Rendered(st).skipped /\ Rendered(st).loading
          /\ Rendered(st).image = view.image /\ Rendered(st).loads = view.loads
      BY <1>1, <1>5 DEF Rendered, View
    <2> QED BY <1>5, <2>1 DEF LoadInv, Current
  <1>6. CASE Selected(st) # None /\ view.image # None /\ ~view.loading
    <2>1. CASE view.image # Selected(st)
      <3> DEFINE v == [view EXCEPT !.loading = TRUE, !.skipped = FALSE,
                                   !.loads = @ \cup {Load(st, FALSE)}]
      <3>1. Rendered(st) = v
        BY <1>6, <2>1 DEF Rendered
      <3>2. /\ v.loads = view.loads \cup {Load(st, FALSE)} /\ v.loading = TRUE /\ v.skipped = FALSE
            /\ v.image # None
        BY <1>1, <1>6 DEF View
      <3> HIDE DEF v
      <3> QED BY <1>3, <1>6, <3>1, <3>2
    <2>2. CASE view.image = Selected(st)
      BY <1>6, <2>2 DEF Rendered, LoadInv
    <2> QED BY <2>1, <2>2
  <1> QED BY <1>2, <1>4, <1>5, <1>6

LEMMA LoadKept == TypeOK /\ LoadInv(view, staging) /\ [Next]_vars => LoadInv(view, staging)'
  <1> SUFFICES ASSUME TypeOK, LoadInv(view, staging), [Next]_vars
               PROVE  LoadInv(view', staging')
    BY DEF LoadInv, Current, Selected
  <1>1. CASE UNCHANGED <<staging, view>>
    BY <1>1
  <1>2. ASSUME NEW st \in Slice, Restage(st) PROVE LoadInv(view', staging')
    BY <1>2, RenderedLoads DEF Restage
  <1>3. ASSUME NEW l \in view.loads, LoadEnds(l) PROVE LoadInv(view', staging')
    <2>1. view \in View /\ view.loads \subseteq Loads /\ l.session # None /\ staging' = staging
      BY <1>3 DEF TypeOK, View, Loads, LoadEnds
    <2>2. CASE l.current
      <3>1. /\ view'.image = l.session /\ ~view'.loading /\ view'.skipped = view.skipped
            /\ view'.loads = view.loads \ {l}
        BY <1>3, <2>1, <2>2 DEF LoadEnds, View
      <3>2. Current(view') = {}
        BY <2>2, <3>1 DEF Current, LoadInv
      <3> QED BY <1>3, <2>1, <2>2, <3>1, <3>2 DEF LoadInv, Current
    <2>3. CASE ~l.current
      <3>1. /\ view'.image = view.image /\ view'.loading = view.loading
            /\ view'.skipped = view.skipped /\ view'.loads = view.loads \ {l}
        BY <1>3, <2>1, <2>3 DEF LoadEnds, View
      <3>2. Current(view') = Current(view)
        BY <2>3, <3>1 DEF Current
      <3> QED BY <2>1, <3>1, <3>2 DEF LoadInv
    <2> QED BY <2>2, <2>3
  <1> QED BY <1>1, <1>2, <1>3, StepShows DEF Shown, vars

-----------------------------------------------------------------------------
(* The counts. *)

\* Something about the queue is on its way, the answer to the query aside.
News ==
    \/ \E i \in 1 .. Len(wire) : wire[i].kind \notin {"progress", "output"}
    \/ calls # [replied |-> {}, sent |-> 0, answered |-> 0]

\* If no invalidation was lost and nothing else will invalidate the counts,
\* they are right, or the query under way will answer what is right.
CountsInv ==
    /\ ~News /\ ~counts.missed =>
         /\ counts.query = "none" => (counts.active <=> Unfinished # {})
         /\ counts.query = "yes" => Unfinished # {}
         /\ counts.query = "no" => Unfinished = {}
    /\ counts.query = "none" => progress.hasActiveGeneration = counts.active

\* An event that is sent, or was received as the last one.
LEMMA EmitNews ==
    ASSUME TypeOK, NEW kind, NEW s, Emit(kind, s)
    PROVE  /\ kind \notin {"progress", "output"} => \E i \in 1 .. Len(wire') : wire'[i].kind \notin {"progress", "output"}
           /\ (\E i \in 1 .. Len(wire) : wire[i].kind \notin {"progress", "output"}) =>
                \E i \in 1 .. Len(wire') : wire'[i].kind \notin {"progress", "output"}
  <1> DEFINE e == [kind |-> kind, session |-> s]
  <1>1. /\ wire \in Seq(Events) /\ wire' = Append(wire, e) /\ e.kind = kind
    BY DEF TypeOK, Emit
  <1> HIDE DEF e
  <1>2. /\ Len(wire) \in Nat /\ Len(wire') = Len(wire) + 1
        /\ wire'[Len(wire) + 1] = e
        /\ \A i \in 1 .. Len(wire) : wire'[i] = wire[i]
    BY <1>1
  <1> QED BY <1>1, <1>2

LEMMA ReceiveNews ==
    ASSUME TypeOK, Receive, Head(wire).kind \in {"progress", "output"},
           \E i \in 1 .. Len(wire) : wire[i].kind \notin {"progress", "output"}
    PROVE  \E i \in 1 .. Len(wire') : wire'[i].kind \notin {"progress", "output"}
  <1>1. wire \in Seq(Events) /\ wire # <<>> /\ wire' = Tail(wire)
    BY DEF TypeOK, Receive
  <1>2. PICK i \in 1 .. Len(wire) : wire[i].kind \notin {"progress", "output"}
    OBVIOUS
  <1>3. i # 1
    BY <1>1, <1>2
  <1>4. i - 1 \in 1 .. Len(wire') /\ wire'[i - 1] = wire[i]
    BY <1>1, <1>2, <1>3
  <1> QED BY <1>2, <1>4

\* An invalidation sends the query or is missed.
LEMMA InvalidatedCounts ==
    ASSUME TypeOK, counts' = Invalidated(counts)
    PROVE  CountsInv'
  <1>1. counts'.query # "none" /\ (counts'.query = "sent" \/ counts'.missed)
    BY DEF TypeOK, Invalidated, Counts
  <1> QED BY <1>1 DEF CountsInv

LEMMA CountsKept == TypeOK /\ CountsInv /\ [Next]_vars => CountsInv'
  <1> SUFFICES ASSUME TypeOK, CountsInv, [Next]_vars PROVE CountsInv'
    OBVIOUS
  <1>1. /\ server \in Server /\ calls \in Calls /\ counts \in Counts /\ progress \in Progressing
        /\ wire \in Seq(Events)
    BY DEF TypeOK, Progressing
  <1>2. ASSUME UNCHANGED <<counts, progress>>, News' \/ (~News /\ Unfinished' = Unfinished)
        PROVE  CountsInv'
    BY <1>2 DEF CountsInv
  <1>3. ASSUME UNCHANGED counts, progress'.hasActiveGeneration = progress.hasActiveGeneration,
               ~News', ~News, Unfinished' = Unfinished
        PROVE  CountsInv'
    BY <1>3 DEF CountsInv
  <1>4. ASSUME Restage(staging) \/ \E st \in Slice : Restage(st)
        PROVE  progress'.hasActiveGeneration = progress.hasActiveGeneration
    BY <1>1, <1>4 DEF Restage, Progressing
  <1>5. ASSUME UNCHANGED <<server, wire, calls, counts>>,
               progress'.hasActiveGeneration = progress.hasActiveGeneration
        PROVE  CountsInv'
    BY <1>5 DEF CountsInv, News, Unfinished
  <1>6. CASE UNCHANGED vars
    BY <1>5, <1>6 DEF vars
  <1>7. CASE Serve
    <2>1. UNCHANGED <<counts, progress>>
      BY <1>7 DEF Serve
    <2>2. ASSUME NEW s \in Sessions, ServeEnqueue(s) PROVE News'
      BY <1>1, <2>2 DEF ServeEnqueue, News, Calls
    <2>3. ASSUME NEW s \in Sessions, Start(s) PROVE News'
      BY <2>3, EmitNews DEF Start, News
    <2>4. ASSUME NEW s \in Sessions, Progress(s) \/ Output(s)
          PROVE  News' \/ (~News /\ Unfinished' = Unfinished)
      <3>1. server'.row = server.row /\ UNCHANGED calls
        BY <1>1, <2>4 DEF Progress, Output, Server
      <3>2. (\E i \in 1 .. Len(wire) : wire[i].kind \notin {"progress", "output"}) =>
              \E i \in 1 .. Len(wire') : wire'[i].kind \notin {"progress", "output"}
        BY <2>4, EmitNews DEF Progress, Output
      <3> QED BY <3>1, <3>2 DEF News, Unfinished
    <2>5. ASSUME NEW s \in Sessions, End(s)
          PROVE  News' \/ (~News /\ Unfinished' = Unfinished)
      <3>1. CASE server.row[s] = "ended" /\ UNCHANGED wire
        <4>1. server'.row = server.row /\ UNCHANGED calls
          BY <1>1, <2>5, <3>1 DEF End, Ended, Server
        <4> QED BY <3>1, <4>1 DEF News, Unfinished
      <3>2. CASE Emit("failed", s) \/ Emit("completed", s)
        BY <3>2, EmitNews DEF News
      <3> QED BY <2>5, <3>1, <3>2 DEF End
    <2>6. ASSUME ServeCancel PROVE News'
      <3>1. calls.answered \in Nat /\ calls'.answered = calls.answered + 1
        BY <1>1, <2>6 DEF ServeCancel, Calls
      <3>2. calls'.answered # 0
        BY <3>1
      <3> QED BY <3>2 DEF News
    <2>7. News' \/ (~News /\ Unfinished' = Unfinished)
      BY <1>7, <2>2, <2>3, <2>4, <2>5, <2>6 DEF Serve
    <2> QED BY <1>2, <2>1, <2>7
  <1>8. CASE ServeCounts
    BY <1>1, <1>8 DEF ServeCounts, Counts, CountsInv, News, Unfinished
  <1>9. CASE CountsAnswered
    BY <1>1, <1>9 DEF CountsAnswered, Counts, CountsInv, News, Unfinished, Progressing
  <1>10. CASE CancelAnswered \/ \E s \in Sessions : EnqueueAnswered(s)
    BY <1>10, InvalidatedCounts DEF CancelAnswered, EnqueueAnswered, Invalidates
  <1>11. CASE Receive
    <2>1. CASE counts' = Invalidated(counts)
      BY <2>1, InvalidatedCounts
    <2>2. CASE counts' = counts
      <3>1. /\ Head(wire).kind \in {"progress", "output"}
            /\ progress'.hasActiveGeneration = progress.hasActiveGeneration
            \/ counts' = Invalidated(counts)
        BY <1>1, <1>11 DEF Receive, Invalidates, Progressing
      <3>2. CASE counts' # Invalidated(counts)
        <4>1. News => News'
          BY <1>11, <3>1, <3>2, ReceiveNews DEF News, Receive
        <4>2. Unfinished' = Unfinished
          BY <1>11 DEF Receive, Unfinished
        <4> QED BY <2>2, <3>1, <3>2, <4>1, <4>2 DEF CountsInv
      <3> QED BY <3>2, InvalidatedCounts
    <2> QED BY <1>11, <2>1, <2>2 DEF Receive, Invalidates
  <1>12. ASSUME NEW s \in Sessions, ImageStaged(s) PROVE CountsInv'
    <2>1. progress'.hasActiveGeneration = progress.hasActiveGeneration
      BY <1>4, <1>12, StagedTypes DEF ImageStaged
    <2> QED BY <1>5, <1>12, <2>1 DEF ImageStaged
  <1>13. ASSUME NEW l \in view.loads, LoadEnds(l) PROVE CountsInv'
    BY <1>1, <1>5, <1>13 DEF LoadEnds, Progressing
  <1>14. ASSUME NEW step \in {1, -1}, Select(step) PROVE CountsInv'
    <2>1. progress'.hasActiveGeneration = progress.hasActiveGeneration
      BY <1>4, <1>14, StagedTypes DEF Select
    <2> QED BY <1>5, <1>14, <2>1 DEF Select
  <1>15. ASSUME NEW s \in Sessions, Enqueue(s) PROVE CountsInv'
    <2>1. Unfinished' = Unfinished
      BY <1>1, <1>15 DEF Enqueue, Unfinished, Server
    <2> QED BY <1>2, <1>15, <2>1 DEF Enqueue, CountsInv, News
  <1>16. CASE DiscardAll \/ DiscardSelected \/ Accept
    <2>1. progress'.hasActiveGeneration = progress.hasActiveGeneration
      BY <1>4, <1>16, StagedTypes DEF DiscardAll, DiscardSelected, Accept, Reset
    <2>2. UNCHANGED <<server, wire, counts>>
      BY <1>16 DEF DiscardAll, DiscardSelected, Accept
    <2>3. CASE UNCHANGED calls
      BY <1>5, <2>1, <2>2, <2>3
    <2>4. CASE Reset
      <3>1. News'
        BY <1>1, <2>4 DEF Reset, News, Calls
      <3> QED BY <2>1, <2>2, <3>1 DEF CountsInv
    <2> QED BY <1>16, <2>3, <2>4 DEF DiscardAll, DiscardSelected, Accept
  <1> QED BY <1>6, <1>7, <1>8, <1>9, <1>10, <1>11, <1>12, <1>13, <1>14, <1>15, <1>16 DEF Next

-----------------------------------------------------------------------------
(* The outputs. *)

\* Where the output of session s can be: on the wire, or staged in st.
OnWire(i, s) == wire[i].kind = "output" /\ wire[i].session = s
Wired(s) == \E i \in 1 .. Len(wire) : OnWire(i, s)
Listed(st, s) == \E i \in 1 .. Len(st.images) : st.images[i] = s
Somewhere(s) == Wired(s) \/ s \in fetching \cup accepted \/ Listed(staging, s)

WiredOnce ==
    \A s \in Sessions : \A i, j \in 1 .. Len(wire) : OnWire(i, s) /\ OnWire(j, s) => i = j

\* Staged in st are different outputs, and one of them, if any, is selected.
ListedOnce(st) ==
    /\ \A i, j \in 1 .. Len(st.images) : st.images[i] = st.images[j] => i = j
    /\ st.images # <<>> => Selected(st) # None

\* An output is in one place at most, and in none before its session has
\* emitted it.
PlaceInv ==
    /\ \A s \in Sessions : server.working = s => server.row[s] \in {"in_progress", "ended"}
    /\ \A s \in Sessions : Somewhere(s) =>
         /\ server.row[s] \in {"in_progress", "ended"}
         /\ server.working = s => server.output
    /\ \A s \in Sessions : Wired(s) => s \notin fetching \cup accepted /\ ~Listed(staging, s)
    /\ \A s \in Sessions : Listed(staging, s) => s \notin fetching \cup accepted
    /\ fetching \cap accepted = {}
    /\ WiredOnce
    /\ ListedOnce(staging)

LEMMA EmitWires ==
    ASSUME TypeOK, WiredOnce, NEW kind, NEW s \in Sessions, Emit(kind, s)
    PROVE  /\ \A t \in Sessions : Wired(t)' => Wired(t) \/ (kind = "output" /\ t = s)
           /\ kind # "output" \/ ~Wired(s) => WiredOnce'
  <1> DEFINE e == [kind |-> kind, session |-> s]
  <1>1. /\ wire \in Seq(Events) /\ wire' = Append(wire, e) /\ e.kind = kind /\ e.session = s
    BY DEF TypeOK, Emit
  <1> HIDE DEF e
  <1>2. /\ Len(wire) \in Nat /\ Len(wire') = Len(wire) + 1
        /\ wire'[Len(wire) + 1] = e
        /\ \A i \in 1 .. Len(wire) : wire'[i] = wire[i]
    BY <1>1
  <1>3. ASSUME NEW t \in Sessions, NEW i \in 1 .. Len(wire'), OnWire(i, t)'
        PROVE  (i \in 1 .. Len(wire) /\ OnWire(i, t)) \/ (i = Len(wire) + 1 /\ kind = "output" /\ t = s)
    BY <1>1, <1>2, <1>3 DEF OnWire
  <1>4. \A t \in Sessions : Wired(t)' => Wired(t) \/ (kind = "output" /\ t = s)
    BY <1>3 DEF Wired
  <1>5. ASSUME kind # "output" \/ ~Wired(s), NEW t \in Sessions,
               NEW i \in 1 .. Len(wire'), NEW j \in 1 .. Len(wire'), OnWire(i, t)', OnWire(j, t)'
        PROVE  i = j
    BY <1>3, <1>5 DEF WiredOnce, Wired
  <1> QED BY <1>4, <1>5 DEF WiredOnce

LEMMA ReceiveWires ==
    ASSUME TypeOK, WiredOnce, Receive
    PROVE  /\ \A t \in Sessions : Wired(t)' => Wired(t)
           /\ WiredOnce'
           /\ Head(wire) \in Events
           /\ \A s \in Sessions : Head(wire).kind = "output" /\ Head(wire).session = s =>
                Wired(s) /\ ~Wired(s)'
  <1>1. wire \in Seq(Events) /\ wire # <<>> /\ wire' = Tail(wire)
    BY DEF TypeOK, Receive
  <1>2. /\ Len(wire) \in Nat \ {0} /\ Len(wire') = Len(wire) - 1
        /\ \A i \in 1 .. Len(wire') : wire'[i] = wire[i + 1]
        /\ Head(wire) = wire[1] /\ Head(wire) \in Events
    BY <1>1
  <1>3. \A t \in Sessions, i \in 1 .. Len(wire') :
          OnWire(i, t)' => i + 1 \in 1 .. Len(wire) /\ OnWire(i + 1, t)
    BY <1>2 DEF OnWire
  <1>4. \A t \in Sessions : Wired(t)' => Wired(t)
    BY <1>3 DEF Wired
  <1>5. WiredOnce'
    <2> SUFFICES ASSUME NEW t \in Sessions, NEW i \in 1 .. Len(wire'), NEW j \in 1 .. Len(wire'),
                        OnWire(i, t)', OnWire(j, t)'
                 PROVE  i = j
      BY DEF WiredOnce
    <2>1. i + 1 = j + 1
      BY <1>3 DEF WiredOnce
    <2> QED BY <2>1
  <1>6. ASSUME NEW s \in Sessions, Head(wire).kind = "output", Head(wire).session = s
        PROVE  Wired(s) /\ ~Wired(s)'
    <2>1. 1 \in 1 .. Len(wire) /\ OnWire(1, s)
      BY <1>2, <1>6 DEF OnWire
    <2>2. ASSUME NEW i \in 1 .. Len(wire'), OnWire(i, s)' PROVE FALSE
      <3>1. i + 1 \in 1 .. Len(wire) /\ OnWire(i + 1, s)
        BY <1>3, <2>1, <2>2
      <3>2. i + 1 = 1
        BY <2>1, <3>1 DEF WiredOnce
      <3> QED BY <3>2
    <2> QED BY <2>1, <2>2 DEF Wired
  <1> QED BY <1>2, <1>4, <1>5, <1>6

LEMMA StagedList ==
    ASSUME TypeOK, ListedOnce(staging), NEW s \in Sessions, ~Listed(staging, s)
    PROVE  /\ ListedOnce(Staged(s))
           /\ \A t \in Sessions : Listed(Staged(s), t) => t = s \/ Listed(staging, t)
  <1> DEFINE st == Staged(s)
             n == Len(staging.images)
  <1>1. staging.images \in Seq(Sessions) /\ n \in Nat
    BY DEF TypeOK
  <1>2. /\ Len(st.images) = n + 1 /\ st.images[n + 1] = s /\ st.index = n
        /\ \A i \in 1 .. n : st.images[i] = staging.images[i]
    BY <1>1 DEF Staged
  <1> HIDE DEF st, n
  <1>3. \A i \in 1 .. n : st.images[i] # s
    BY <1>2 DEF Listed, n
  <1>4. Selected(st) = s
    BY <1>1, <1>2 DEF Selected
  <1>5. ASSUME NEW i \in 1 .. Len(st.images), NEW j \in 1 .. Len(st.images),
               st.images[i] = st.images[j]
        PROVE  i = j
    <2>1. CASE i \in 1 .. n /\ j \in 1 .. n
      BY <1>2, <1>5, <2>1 DEF ListedOnce, n
    <2>2. CASE i = n + 1 \/ j = n + 1
      BY <1>1, <1>2, <1>3, <1>5, <2>2
    <2> QED BY <1>1, <1>2, <2>1, <2>2
  <1>6. ListedOnce(st)
    BY <1>4, <1>5 DEF ListedOnce
  <1>7. ASSUME NEW t \in Sessions, Listed(st, t) PROVE t = s \/ Listed(staging, t)
    BY <1>1, <1>2, <1>7 DEF Listed, n
  <1> QED BY <1>6, <1>7 DEF st

LEMMA DiscardedList ==
    ASSUME TypeOK, ListedOnce(staging), Len(staging.images) > 1
    PROVE  /\ ListedOnce(Discarded(staging.index))
           /\ \A t \in Sessions : Listed(Discarded(staging.index), t) => Listed(staging, t)
  <1> DEFINE st == Discarded(staging.index)
             n == Len(staging.images) - 1
             from(k) == IF k <= staging.index THEN k ELSE k + 1
  <1>1. staging.images \in Seq(Sessions) /\ n \in Nat /\ n > 0 /\ staging.index \in Nat
        /\ Len(staging.images) = n + 1
    BY DEF TypeOK
  <1>2. /\ Len(st.images) = n
        /\ \A k \in 1 .. n : st.images[k] = staging.images[from(k)]
        /\ st.index = IF staging.index <= n - 1 THEN staging.index ELSE n - 1
    BY <1>1 DEF Discarded
  <1> HIDE DEF st, n
  <1>3. \A k \in 1 .. n : from(k) \in 1 .. n + 1
    BY <1>1
  <1>4. \A k, l \in 1 .. n : from(k) = from(l) => k = l
    BY <1>1
  <1> HIDE DEF from
  <1>5. ASSUME NEW i \in 1 .. n, NEW j \in 1 .. n, st.images[i] = st.images[j]
        PROVE  i = j
    <2>1. from(i) = from(j)
      BY <1>1, <1>2, <1>3, <1>5 DEF ListedOnce
    <2> QED BY <1>4, <2>1
  <1>6. Selected(st) # None
    <2>1. st.index \in 0 .. n - 1 /\ st.index + 1 \in 1 .. n
      BY <1>1, <1>2
    <2>2. st.images[st.index + 1] \in Sessions
      BY <1>1, <1>2, <1>3, <2>1
    <2> QED BY <1>2, <2>1, <2>2 DEF Selected
  <1>7. ListedOnce(st)
    BY <1>2, <1>5, <1>6 DEF ListedOnce
  <1>8. ASSUME NEW t \in Sessions, Listed(st, t) PROVE Listed(staging, t)
    BY <1>1, <1>2, <1>3, <1>8 DEF Listed
  <1> QED BY <1>7, <1>8 DEF st

LEMMA SelectedList ==
    ASSUME TypeOK, ListedOnce(staging), Len(staging.images) > 1, NEW index \in Nat,
           index \in 0 .. Len(staging.images) - 1
    PROVE  /\ ListedOnce([staging EXCEPT !.index = index])
           /\ \A t \in Sessions : Listed([staging EXCEPT !.index = index], t) => Listed(staging, t)
  <1> DEFINE st == [staging EXCEPT !.index = index]
  <1>1. st.images = staging.images /\ st.index = index /\ staging.images \in Seq(Sessions)
    BY DEF TypeOK
  <1> HIDE DEF st
  <1>2. Selected(st) = staging.images[index + 1] /\ staging.images[index + 1] \in Sessions
    BY <1>1 DEF Selected
  <1>3. ListedOnce(st)
    BY <1>1, <1>2 DEF ListedOnce
  <1>4. \A t \in Sessions : Listed(st, t) => Listed(staging, t)
    BY <1>1 DEF Listed
  <1> QED BY <1>3, <1>4 DEF st

LEMMA PlaceKept == TypeOK /\ PlaceInv /\ [Next]_vars => PlaceInv'
  <1> SUFFICES ASSUME TypeOK, PlaceInv, [Next]_vars PROVE PlaceInv'
    OBVIOUS
  <1>1. /\ server \in Server /\ wire \in Seq(Events) /\ fetching \subseteq Sessions
        /\ accepted \subseteq Sessions /\ staging \in Slice /\ WiredOnce /\ ListedOnce(staging)
    BY DEF TypeOK, Slice, PlaceInv
  \* Steps that leave the outputs where they are.
  <1>2. ASSUME UNCHANGED <<wire, fetching, accepted, staging>>,
               \A s \in Sessions : server'.working = s => server'.row[s] \in {"in_progress", "ended"},
               \A s \in Sessions : Somewhere(s) => /\ server'.row[s] \in {"in_progress", "ended"}
                                                   /\ server'.working = s => server'.output
        PROVE  PlaceInv'
    BY <1>2 DEF PlaceInv, Somewhere, Wired, OnWire, Listed, WiredOnce, ListedOnce, Selected
  <1>3. ASSUME UNCHANGED <<server, wire, fetching, accepted, staging>> PROVE PlaceInv'
    BY <1>2, <1>3 DEF PlaceInv
  \* Steps that move, or drop, what is staged.
  <1>4. ASSUME NEW st, UNCHANGED <<server, wire>>, staging' = st, ListedOnce(st),
               fetching' \subseteq fetching, accepted' \subseteq Sessions,
               \A s \in Sessions : Listed(st, s) =>
                 Listed(staging, s) \/ s \in fetching \ fetching',
               \A s \in accepted' \ accepted : Listed(staging, s) /\ ~Listed(st, s),
               \A s \in accepted : s \in accepted'
        PROVE  PlaceInv'
    <2>1. WiredOnce' /\ (\A s \in Sessions : Wired(s)' <=> Wired(s))
      BY <1>1, <1>4 DEF WiredOnce, Wired, OnWire
    <2>2. \A s \in Sessions : Listed(staging, s)' <=> Listed(st, s)
      BY <1>4 DEF Listed
    <2>3. ListedOnce(staging)'
      BY <1>4 DEF ListedOnce, Selected
    <2> QED BY <1>1, <1>4, <2>1, <2>2, <2>3 DEF PlaceInv, Somewhere
  <1>5. ListedOnce(NothingStaged) /\ \A s : ~Listed(NothingStaged, s)
    BY DEF ListedOnce, Listed, NothingStaged
  <1>6. CASE UNCHANGED vars
    BY <1>3, <1>6 DEF vars
  <1>7. CASE Serve
    <2>1. UNCHANGED <<fetching, accepted, staging>>
      BY <1>7 DEF Serve
    <2>2. ASSUME NEW s \in Sessions, ServeEnqueue(s) PROVE PlaceInv'
      <3>1. /\ server'.working = server.working /\ server'.output = server.output
            /\ server.row[s] = "posted" /\ \A t \in Sessions \ {s} : server'.row[t] = server.row[t]
        BY <1>1, <2>2 DEF ServeEnqueue, Server
      <3> QED BY <1>2, <2>1, <2>2, <3>1 DEF ServeEnqueue, PlaceInv
    \* Steps that may emit, for a session that is or becomes the working one.
    <2>3. ASSUME NEW s \in Sessions, NEW kind, kind # "output", Emit(kind, s),
                 \A t \in Sessions : server'.working = t => server'.row[t] \in {"in_progress", "ended"},
                 \A t \in Sessions : Somewhere(t) => /\ server'.row[t] \in {"in_progress", "ended"}
                                                     /\ server'.working = t => server'.output
          PROVE  PlaceInv'
      <3>1. WiredOnce' /\ \A t \in Sessions : Wired(t)' => Wired(t)
        BY <1>1, <2>3, EmitWires
      <3>2. /\ \A t \in Sessions : Listed(staging, t)' <=> Listed(staging, t)
            /\ ListedOnce(staging)'
        BY <1>1, <2>1 DEF Listed, ListedOnce, Selected
      <3> QED BY <2>1, <2>3, <3>1, <3>2 DEF PlaceInv, Somewhere
    <2>4. ASSUME NEW s \in Sessions, Start(s) PROVE PlaceInv'
      <3>1. /\ server.row[s] = "pending" /\ server'.working = s /\ server'.row[s] = "in_progress"
            /\ \A t \in Sessions \ {s} : server'.row[t] = server.row[t]
        BY <1>1, <2>4 DEF Start, Server
      <3>2. ~Somewhere(s)
        BY <3>1 DEF PlaceInv
      <3> QED BY <2>3, <2>4, <3>1, <3>2 DEF Start, PlaceInv
    <2>5. ASSUME NEW s \in Sessions, Progress(s) PROVE PlaceInv'
      <3>1. server'.row = server.row /\ server'.working = server.working /\ server'.output = server.output
        BY <1>1, <2>5 DEF Progress, Server
      <3> QED BY <2>3, <2>5, <3>1 DEF Progress, PlaceInv
    <2>6. ASSUME NEW s \in Sessions, Output(s) PROVE PlaceInv'
      <3>1. /\ server'.row = server.row /\ server'.working = server.working /\ server'.output
            /\ server.working = s /\ ~server.output
        BY <1>1, <2>6 DEF Output, Server
      <3>2. ~Somewhere(s) /\ server.row[s] \in {"in_progress", "ended"}
        BY <3>1 DEF PlaceInv
      <3>3. WiredOnce' /\ \A t \in Sessions : Wired(t)' => Wired(t) \/ t = s
        BY <1>1, <2>6, <3>2, EmitWires DEF Output, Somewhere
      <3>4. /\ \A t \in Sessions : Listed(staging, t)' <=> Listed(staging, t)
            /\ ListedOnce(staging)'
        BY <1>1, <2>1 DEF Listed, ListedOnce, Selected
      <3> QED BY <2>1, <3>1, <3>2, <3>3, <3>4 DEF PlaceInv, Somewhere
    <2>7. ASSUME NEW s \in Sessions, End(s) PROVE PlaceInv'
      <3>1. /\ server'.working = None /\ server'.row[s] = "ended"
            /\ \A t \in Sessions \ {s} : server'.row[t] = server.row[t]
        BY <1>1, <2>7 DEF End, Ended, Server
      <3>2. /\ \A t \in Sessions : server'.working = t => server'.row[t] \in {"in_progress", "ended"}
            /\ \A t \in Sessions : Somewhere(t) => /\ server'.row[t] \in {"in_progress", "ended"}
                                                   /\ server'.working = t => server'.output
        BY <3>1 DEF PlaceInv
      <3> QED BY <1>2, <2>1, <2>3, <2>7, <3>2 DEF End
    <2>8. CASE ServeCancel
      <3>1. /\ server'.working = server.working /\ server'.output = server.output
            /\ \A t \in Sessions : server'.row[t] \in {"ended", server.row[t]}
        BY <1>1, <2>8 DEF ServeCancel, Server
      <3>2. /\ \A t \in Sessions : server'.working = t => server'.row[t] \in {"in_progress", "ended"}
            /\ \A t \in Sessions : Somewhere(t) => /\ server'.row[t] \in {"in_progress", "ended"}
                                                   /\ server'.working = t => server'.output
        BY <3>1 DEF PlaceInv
      <3> QED BY <1>2, <2>1, <2>3, <2>8, <3>2 DEF ServeCancel, Unfinished
    <2> QED BY <1>7, <2>2, <2>4, <2>5, <2>6, <2>7, <2>8 DEF Serve
  <1>8. CASE ServeCounts \/ CountsAnswered \/ CancelAnswered
             \/ (\E s \in Sessions : EnqueueAnswered(s)) \/ \E l \in view.loads : LoadEnds(l)
    BY <1>3, <1>8 DEF ServeCounts, CountsAnswered, CancelAnswered, EnqueueAnswered, LoadEnds
  <1>9. ASSUME NEW s \in Sessions, Enqueue(s) PROVE PlaceInv'
    <2>1. /\ server'.working = server.working /\ server'.output = server.output
          /\ server.row[s] = "none" /\ \A t \in Sessions \ {s} : server'.row[t] = server.row[t]
      BY <1>1, <1>9 DEF Enqueue, Server
    <2> QED BY <1>2, <1>9, <2>1 DEF Enqueue, PlaceInv
  <1>10. CASE Receive
    <2>1. /\ WiredOnce' /\ \A t \in Sessions : Wired(t)' => Wired(t)
          /\ UNCHANGED <<server, staging, accepted>>
      BY <1>1, <1>10, ReceiveWires DEF Receive
    <2>2. /\ \A t \in Sessions : Listed(staging, t)' <=> Listed(staging, t)
          /\ ListedOnce(staging)'
      BY <1>1, <2>1 DEF Listed, ListedOnce, Selected
    <2>3. CASE fetching' = fetching
      BY <2>1, <2>2, <2>3 DEF PlaceInv, Somewhere
    <2>4. CASE Head(wire).kind = "output" /\ fetching' = fetching \cup {Head(wire).session}
      <3>1. PICK s \in Sessions : Head(wire).session = s
        BY <1>1, <1>10, ReceiveWires DEF Events
      <3>2. Wired(s) /\ ~Wired(s)' /\ fetching' = fetching \cup {s}
        BY <1>1, <1>10, <2>4, <3>1, ReceiveWires
      <3> QED BY <2>1, <2>2, <3>2 DEF PlaceInv, Somewhere
    <2> QED BY <1>10, <2>3, <2>4 DEF Receive
  <1>11. ASSUME NEW s \in Sessions, ImageStaged(s) PROVE PlaceInv'
    <2>1. s \in fetching /\ fetching' = fetching \ {s} /\ UNCHANGED <<server, wire, accepted>>
      BY <1>11 DEF ImageStaged
    <2>2. ~Listed(staging, s)
      BY <2>1 DEF PlaceInv
    <2>3. CASE staging' = Staged(s)
      <3>1. /\ ListedOnce(Staged(s))
            /\ \A t \in Sessions : Listed(Staged(s), t) => t = s \/ Listed(staging, t)
        BY <1>1, <2>2, StagedList
      <3> QED BY <1>1, <1>4, <2>1, <2>3, <3>1
    <2>4. CASE staging' = staging
      BY <1>1, <1>4, <2>1, <2>4
    <2> QED BY <1>11, <2>3, <2>4 DEF ImageStaged, Restage
  <1>12. ASSUME NEW step \in {1, -1}, Select(step) PROVE PlaceInv'
    <2> DEFINE n == Len(staging.images)
               index == (staging.index + step + n) % n
    <2>1. n \in Nat /\ n > 1 /\ staging' = [staging EXCEPT !.index = index]
          /\ UNCHANGED <<server, wire, fetching, accepted>>
      BY <1>1, <1>12 DEF Select, Restage, Slice
    <2>2. index \in 0 .. n - 1
      <3>1. staging.index + step + n \in Int
        BY <1>1, <2>1 DEF Slice
      <3> HIDE DEF n
      <3> QED BY <2>1, <3>1, ModRange
    <2> HIDE DEF index
    <2>3. /\ ListedOnce([staging EXCEPT !.index = index])
          /\ \A t \in Sessions : Listed([staging EXCEPT !.index = index], t) => Listed(staging, t)
      BY <1>1, <2>1, <2>2, SelectedList
    <2> QED BY <1>1, <1>4, <2>1, <2>3
  <1>13. CASE DiscardAll \/ DiscardSelected
    <2>1. UNCHANGED <<server, wire, fetching, accepted>>
      BY <1>13 DEF DiscardAll, DiscardSelected
    <2>2. CASE staging' = NothingStaged
      BY <1>1, <1>4, <1>5, <2>1, <2>2
    <2>3. CASE Len(staging.images) > 1 /\ staging' = Discarded(staging.index)
      BY <1>1, <1>4, <2>1, <2>3, DiscardedList
    <2> QED BY <1>13, <2>2, <2>3 DEF DiscardAll, DiscardSelected, Reset, Restage
  <1>14. CASE Accept
    <2>1. /\ staging' = NothingStaged /\ accepted' = accepted \cup {Selected(staging)}
          /\ UNCHANGED <<server, wire, fetching>> /\ Selected(staging) # None
      BY <1>14 DEF Accept, Reset, Restage
    <2>2. Selected(staging) \in Sessions
      BY <1>1, <2>1, SelectedType DEF Option
    <2>3. Listed(staging, Selected(staging))
      BY <1>1, <2>1 DEF Listed, Selected, Slice
    <2> QED BY <1>1, <1>4, <1>5, <2>1, <2>2, <2>3
  <1> QED BY <1>6, <1>7, <1>8, <1>9, <1>10, <1>11, <1>12, <1>13, <1>14 DEF Next

-----------------------------------------------------------------------------
(* The theorems. *)

LEMMA InitInv == Init => TypeOK /\ LoadInv(view, staging) /\ CountsInv /\ PlaceInv
  <1> SUFFICES ASSUME Init PROVE TypeOK /\ LoadInv(view, staging) /\ CountsInv /\ PlaceInv
    OBVIOUS
  <1>1. TypeOK
    BY DEF Init, TypeOK, Server, Calls, Counts, Option, View, NoView, NothingStaged
  <1>2. LoadInv(view, staging)
    BY DEF Init, LoadInv, Current, Selected, NoView, NothingStaged
  <1>3. CountsInv
    BY DEF Init, CountsInv, Unfinished
  <1>4. PlaceInv
    BY DEF Init, PlaceInv, WiredOnce, ListedOnce, Listed, Wired, Somewhere, NothingStaged
  <1> QED BY <1>1, <1>2, <1>3, <1>4

\* Whatever the user, the server and the socket do in whatever order, what the
\* canvas stages, shows and loads stays in its types.
THEOREM Types == Spec => []TypeOK
  BY InitInv, TypesKept, PTL DEF Spec

\* At any time one load may touch the image module, and isLoading is set
\* exactly while there is one: no staging area waits for ever.
THEOREM OneLoad == Spec => []LoadsOnce
  <1>1. TypeOK /\ LoadInv(view, staging) => LoadsOnce
    <2> SUFFICES ASSUME TypeOK, LoadInv(view, staging)
                 PROVE  Cardinality(Current(view)) <= 1 /\ (view.loading <=> Current(view) # {})
      BY DEF LoadsOnce, Current
    <2>1. CASE Current(view) = {}
      BY <2>1, FS_EmptySet DEF LoadInv
    <2>2. ASSUME NEW l \in Current(view) PROVE Cardinality(Current(view)) = 1
      <3>1. Current(view) = {l}
        BY <2>2 DEF LoadInv
      <3> QED BY <3>1, FS_Singleton
    <2> QED BY <2>1, <2>2 DEF LoadInv
  <1> QED BY <1>1, InitInv, TypesKept, LoadKept, PTL DEF Spec

\* The image on the canvas is the one that Accept takes, however staging,
\* selecting and discarding overtake the loads, unless a render was skipped.
THEOREM SelectedShown == Spec => []RenderedIsSelected
  <1>1. LoadInv(view, staging) => RenderedIsSelected
    BY DEF LoadInv, RenderedIsSelected
  <1> QED BY <1>1, InitInv, TypesKept, LoadKept, PTL DEF Spec

\* When nothing is under way and no invalidation was lost, the counts that
\* keep the canvas busy agree with the queue.
THEOREM CountsAgree == Spec => []CountsRight
  <1>1. CountsInv => CountsRight
    BY DEF CountsInv, CountsRight, News, Informing
  <1> QED BY <1>1, InitInv, TypesKept, CountsKept, PTL DEF Spec

\* An output is staged once and never again after it was accepted, whatever
\* happens to the staging area while its image is fetched.
THEOREM OutputOnce == Spec => []StagedOnce
  <1>1. TypeOK /\ PlaceInv => StagedOnce
    <2> SUFFICES ASSUME TypeOK, PlaceInv PROVE StagedOnce
      OBVIOUS
    <2>1. \A i \in 1 .. Len(staging.images) : /\ staging.images[i] \in Sessions
                                              /\ Listed(staging, staging.images[i])
      BY DEF TypeOK, Listed
    <2> QED BY <2>1 DEF PlaceInv, ListedOnce, StagedOnce
  <1> QED BY <1>1, InitInv, TypesKept, PlaceKept, PTL DEF Spec
=============================================================================
