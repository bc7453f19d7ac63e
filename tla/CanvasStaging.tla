--------------------------- MODULE CanvasStaging ---------------------------
(***************************************************************************)
(* Staging: what becomes of the images that the canvas generates            *)
(* (features/controlLayers/store/canvasStagingAreaSlice.ts, konva/          *)
(* CanvasStagingAreaModule.ts, konva/CanvasProgressImageModule.ts and       *)
(* components/StagingArea/, services/events/setEventListeners.tsx and       *)
(* onInvocationComplete.tsx, services/api/endpoints/queue.ts).              *)
(*                                                                          *)
(* The user queues sessions; socket events bring their progress, outputs    *)
(* and ends; outputs are staged, looked at, accepted or discarded.  Whether *)
(* sessions are waiting or running the canvas learns from a counts query,   *)
(* which events and mutations invalidate.  The server is external, and so   *)
(* is the query library: invalidated ("immediately", services/api/index.ts) *)
(* a query is sent again, unless it is in flight: then nothing happens.     *)
(***************************************************************************)
EXTENDS Integers, Sequences, FiniteSets

CONSTANTS
    Sessions,   \* the sessions that the user queues, one per batch
    MaxCancels, \* bound: cancel calls in flight
    MaxLag      \* bound: socket events in flight

None == 0

ASSUME CanvasStagingAssumption ==
    /\ None \notin Sessions
    /\ MaxCancels \in Nat \ {0}
    /\ MaxLag \in Nat \ {0}

VARIABLES
    server,   \* the rows of the sessions, and the one that is processed
    wire,     \* socket events on their way
    calls,    \* enqueue and cancel calls on their way
    counts,   \* the counts query and what it said last
    progress, \* CanvasProgressImageModule: whose image, $hasActiveGeneration
    fetching, \* outputs whose image DTO is being fetched
    staging,  \* the redux slice
    accepted, \* the sessions whose image became a layer
    view      \* CanvasStagingAreaModule: the image, and the loads in flight

vars == <<server, wire, calls, counts, progress, fetching, staging, accepted, view>>

Option == Sessions \cup {None}

\* working: the session that is processed; progressed, output: it has emitted
\* such an event.  A row that is ended completed, failed or was canceled.
Server == [row : [Sessions -> {"none", "posted", "pending", "in_progress", "ended"}],
           working : Option, progressed : BOOLEAN, output : BOOLEAN]

Events == [kind : {"progress", "output", "in_progress", "completed", "failed", "canceled"},
           session : Sessions]

\* replied: enqueue calls answered; sent, answered: cancel calls.
Calls == [replied : SUBSET Sessions, sent : 0 .. MaxCancels, answered : 0 .. MaxCancels]

\* query: in flight or answered with yes or no; missed: it was invalidated
\* in vain since it was sent (history).
Counts == [active : BOOLEAN, query : {"none", "sent", "yes", "no"}, missed : BOOLEAN]

\* A load of the staged image: captured is whose progress was on the canvas
\* when it began; first, if it made the image module; current, if that
\* module has not been destroyed.
Loads == [session : Sessions, captured : Option, first : BOOLEAN, current : BOOLEAN]

\* skipped: the last render did nothing but wait (history).
View == [image : Option, loading : BOOLEAN, isError : BOOLEAN, skipped : BOOLEAN,
         loads : SUBSET Loads]

TypeOK ==
    /\ server \in Server
    /\ wire \in Seq(Events)
    /\ calls \in Calls
    /\ counts \in Counts
    /\ progress \in [session : Option, hasActiveGeneration : BOOLEAN]
    /\ fetching \subseteq Sessions
    /\ staging \in [images : Seq(Sessions), index : Nat]
    /\ accepted \subseteq Sessions
    /\ view \in View

NothingStaged == [images |-> <<>>, index |-> 0]
NoView == [image |-> None, loading |-> FALSE, isError |-> FALSE, skipped |-> FALSE,
           loads |-> {}]

Init ==
    /\ server = [row |-> [s \in Sessions |-> "none"], working |-> None,
                 progressed |-> FALSE, output |-> FALSE]
    /\ wire = <<>>
    /\ calls = [replied |-> {}, sent |-> 0, answered |-> 0]
    /\ counts = [active |-> FALSE, query |-> "none", missed |-> FALSE]
    /\ progress = [session |-> None, hasActiveGeneration |-> FALSE]
    /\ fetching = {}
    /\ staging = NothingStaged
    /\ accepted = {}
    /\ view = NoView

Unfinished == {s \in Sessions : server.row[s] \in {"pending", "in_progress"}}

-----------------------------------------------------------------------------
(* The counts. *)

\* The tag of the query is invalidated.  The subscription to the query, which
\* is told of every change of its state, sees the old counts again.
Invalidated(c) ==
    IF c.query = "none" THEN [c EXCEPT !.query = "sent", !.missed = FALSE]
    ELSE [c EXCEPT !.missed = TRUE]

Subscribed(c, p) == IF c.query = "none" THEN [p EXCEPT !.hasActiveGeneration = c.active] ELSE p

Invalidates ==
    /\ counts' = Invalidated(counts)
    /\ progress' = Subscribed(counts, progress)

\* The server counts the sessions that are pending or in progress.
ServeCounts ==
    /\ counts.query = "sent"
    /\ counts' = [counts EXCEPT !.query = IF Unfinished # {} THEN "yes" ELSE "no"]
    /\ UNCHANGED <<server, wire, calls, progress, fetching, staging, accepted, view>>

CountsAnswered ==
    /\ counts.query \in {"yes", "no"}
    /\ LET active == counts.query = "yes" IN
         /\ counts' = [counts EXCEPT !.active = active, !.query = "none"]
         /\ progress' = [progress EXCEPT !.hasActiveGeneration = active]
    /\ UNCHANGED <<server, wire, calls, fetching, staging, accepted, view>>

\* selectIsStaging: the canvas is busy while it holds.
isStaging == staging.images # <<>> \/ counts.active

-----------------------------------------------------------------------------
(* The staging area. *)

Selected(st) == IF st.index \in 0 .. Len(st.images) - 1 THEN st.images[st.index + 1] ELSE None

Load(st, first) == [session |-> Selected(st), captured |-> progress.session,
                    first |-> first, current |-> TRUE]

\* Fault: the image module outlives the last staged image.
RenderedKeeps(st) ==
    IF Selected(st) = None THEN view
    ELSE [view EXCEPT !.image = Selected(st), !.loading = TRUE, !.skipped = FALSE,
                      !.loads = (IF view.image = Selected(st) THEN @ ELSE {Load(st, TRUE)})]

\* Fault: an image that is still loading is replaced by another.
RenderedAnyway(st) ==
    IF Selected(st) = None
      THEN [NoView EXCEPT !.loads = {[l EXCEPT !.current = FALSE] : l \in view.loads}]
    ELSE [view EXCEPT !.image = Selected(st), !.loading = TRUE, !.skipped = FALSE,
                      !.loads = @ \cup {Load(st, view.image = None)}]

\* render, which a change of the slice to st triggers, up to its await.
Rendered(st) ==
    IF Selected(st) = None
      THEN [NoView EXCEPT !.loads = {[l EXCEPT !.current = FALSE] : l \in view.loads}]
    ELSE IF view.image = None
      THEN [view EXCEPT !.image = Selected(st), !.loading = TRUE, !.skipped = FALSE,
                        !.loads = @ \cup {Load(st, TRUE)}]
    ELSE IF view.loading
      THEN [view EXCEPT !.skipped = TRUE]
    ELSE IF view.image # Selected(st)
      THEN [view EXCEPT !.loading = TRUE, !.skipped = FALSE,
                        !.loads = @ \cup {Load(st, FALSE)}]
    ELSE view

\* An image that failed to load hides the progress image again.
ErrorRendered(st) ==
    Selected(st) # None /\ view.image = Selected(st) /\ ~view.loading /\ view.isError

Restage(st) ==
    /\ staging' = st
    /\ view' = Rendered(st)
    /\ progress' = IF ErrorRendered(st) THEN [progress EXCEPT !.session = None] ELSE progress

\* The rest of render: the image is loaded, or not, and the progress image is
\* hidden if it is still the one of the beginning.  If the module that was to
\* be added to the canvas is gone, a TypeError ends it before that.
LoadEnds(l) ==
    /\ l \in view.loads
    /\ \E isError \in BOOLEAN :
         view' = IF l.current
                   THEN [view EXCEPT !.image = l.session, !.loading = FALSE,
                                     !.isError = isError, !.loads = @ \ {l}]
                   ELSE [view EXCEPT !.loads = @ \ {l}]
    /\ progress' = IF progress.session = l.captured /\ ~(l.first /\ view.image = None)
                     THEN [progress EXCEPT !.session = None] ELSE progress
    /\ UNCHANGED <<server, wire, calls, counts, fetching, staging, accepted>>

\* stagingAreaImageStaged.
Staged(s) == [images |-> Append(staging.images, s), index |-> Len(staging.images)]

\* stagingAreaReset, canvasReset, newSessionRequested: the listener cancels
\* whatever the canvas has in the queue.
Reset ==
    /\ calls.sent < MaxCancels
    /\ calls' = [calls EXCEPT !.sent = @ + 1]
    /\ Restage(NothingStaged)

DiscardAll ==
    /\ Reset
    /\ UNCHANGED <<server, wire, counts, fetching, accepted>>

\* Fault: the index moves back even at the first image.
DiscardedSteps(i) ==
    LET n == Len(staging.images) - 1 IN
    [images |-> [k \in 1 .. n |-> staging.images[IF k <= i THEN k ELSE k + 1]],
     index |-> staging.index - 1]

\* Fault: the index stays, past the end if the last image was discarded.
DiscardedUnclamped(i) ==
    [images |-> [k \in 1 .. Len(staging.images) - 1 |->
                   staging.images[IF k <= i THEN k ELSE k + 1]],
     index |-> staging.index]

\* The Discard button.
Discarded(i) ==
    LET n == Len(staging.images) - 1 IN
    [images |-> [k \in 1 .. n |-> staging.images[IF k <= i THEN k ELSE k + 1]],
     index |-> IF staging.index <= n - 1 THEN staging.index ELSE n - 1]

DiscardSelected ==
    /\ Selected(staging) # None
    /\ \/ Len(staging.images) = 1 /\ Reset
       \/ Len(staging.images) > 1 /\ Restage(Discarded(staging.index)) /\ UNCHANGED calls
    /\ UNCHANGED <<server, wire, counts, fetching, accepted>>

\* The Next and the Previous button.
Select(step) ==
    LET n == Len(staging.images) IN
    /\ n > 1
    /\ Restage([staging EXCEPT !.index = (@ + step + n) % n])
    /\ UNCHANGED <<server, wire, calls, counts, fetching, accepted>>

Accept ==
    /\ Selected(staging) # None
    /\ accepted' = accepted \cup {Selected(staging)}
    /\ Reset
    /\ UNCHANGED <<server, wire, counts, fetching>>

-----------------------------------------------------------------------------
(* Calls and events. *)

Enqueue(s) ==
    /\ server.row[s] = "none" /\ s \notin calls.replied
    /\ server' = [server EXCEPT !.row[s] = "posted"]
    /\ UNCHANGED <<wire, calls, counts, progress, fetching, staging, accepted, view>>

\* The enqueue call was answered, well or not.
EnqueueAnswered(s) ==
    /\ s \in calls.replied
    /\ calls' = [calls EXCEPT !.replied = @ \ {s}]
    /\ Invalidates
    /\ UNCHANGED <<server, wire, fetching, staging, accepted, view>>

\* Fault: only events invalidate the counts.
CancelAnsweredQuietly ==
    /\ calls.answered > 0
    /\ calls' = [calls EXCEPT !.answered = @ - 1]
    /\ UNCHANGED <<server, wire, counts, progress, fetching, staging, accepted, view>>

CancelAnswered ==
    /\ calls.answered > 0
    /\ calls' = [calls EXCEPT !.answered = @ - 1]
    /\ Invalidates
    /\ UNCHANGED <<server, wire, fetching, staging, accepted, view>>

\* The handlers of an event: the listeners of the application, then those of
\* the canvas.
Receive ==
    /\ wire # <<>>
    /\ wire' = Tail(wire)
    /\ LET e == Head(wire) IN
         \/ /\ e.kind = "progress"
            /\ progress' = [progress EXCEPT !.session =
                              IF progress.hasActiveGeneration THEN e.session ELSE @]
            /\ UNCHANGED <<counts, fetching>>
         \/ /\ e.kind = "output"
            /\ fetching' = fetching \cup {e.session}
            /\ UNCHANGED <<counts, progress>>
         \/ /\ e.kind \in {"in_progress", "completed"}
            /\ Invalidates
            /\ UNCHANGED fetching
         \/ /\ e.kind \in {"failed", "canceled"}
            /\ counts' = Invalidated(counts)
            /\ progress' = [session |-> None, hasActiveGeneration |-> FALSE]
            /\ UNCHANGED fetching
    /\ UNCHANGED <<server, calls, staging, accepted, view>>

\* The image DTO has been fetched, whatever happened to the staging area
\* meanwhile; or it could not be.
ImageStaged(s) ==
    /\ s \in fetching
    /\ fetching' = fetching \ {s}
    /\ \/ Restage(Staged(s))
       \/ UNCHANGED <<staging, view, progress>>
    /\ UNCHANGED <<server, wire, calls, counts, accepted>>

-----------------------------------------------------------------------------
(* The server, as far as the canvas can tell. *)

Emit(kind, s) ==
    /\ Len(wire) < MaxLag
    /\ wire' = Append(wire, [kind |-> kind, session |-> s])

ServeEnqueue(s) ==
    /\ server.row[s] = "posted"
    /\ \E row \in {"pending", "none"} : server' = [server EXCEPT !.row[s] = row]
    /\ calls' = [calls EXCEPT !.replied = @ \cup {s}]
    /\ UNCHANGED wire

Start(s) ==
    /\ server.working = None /\ server.row[s] = "pending"
    /\ server' = [row |-> [server.row EXCEPT ![s] = "in_progress"], working |-> s,
                  progressed |-> FALSE, output |-> FALSE]
    /\ Emit("in_progress", s)
    /\ UNCHANGED calls

\* A canceled session may still emit what its current node has to say.
Progress(s) ==
    /\ server.working = s /\ ~server.progressed /\ ~server.output
    /\ server' = [server EXCEPT !.progressed = TRUE]
    /\ Emit("progress", s)
    /\ UNCHANGED calls

Output(s) ==
    /\ server.working = s /\ ~server.output
    /\ server' = [server EXCEPT !.output = TRUE]
    /\ Emit("output", s)
    /\ UNCHANGED calls

Ended(s) == [row |-> [server.row EXCEPT ![s] = "ended"], working |-> None,
             progressed |-> FALSE, output |-> FALSE]

End(s) ==
    /\ server.working = s
    /\ server' = Ended(s)
    /\ \/ server.row[s] = "ended" /\ UNCHANGED wire  \* it was canceled
       \/ server.row[s] = "in_progress" /\ Emit("failed", s)
       \/ server.row[s] = "in_progress" /\ server.output /\ Emit("completed", s)
    /\ UNCHANGED calls

\* Canceling by destination: one event, for the session in progress.
ServeCancel ==
    /\ calls.sent > 0 /\ calls.answered < MaxCancels
    /\ calls' = [calls EXCEPT !.sent = @ - 1, !.answered = @ + 1]
    /\ server' = [server EXCEPT !.row =
                    [s \in Sessions |-> IF s \in Unfinished THEN "ended" ELSE @[s]]]
    /\ \/ \E s \in Unfinished : server.row[s] = "in_progress" /\ Emit("canceled", s)
       \/ (\A s \in Unfinished : server.row[s] # "in_progress") /\ UNCHANGED wire

Serve ==
    /\ \/ \E s \in Sessions : ServeEnqueue(s) \/ Start(s) \/ Progress(s) \/ Output(s) \/ End(s)
       \/ ServeCancel
    /\ UNCHANGED <<counts, progress, fetching, staging, accepted, view>>

-----------------------------------------------------------------------------
Next ==
    \/ Serve \/ ServeCounts \/ CountsAnswered \/ CancelAnswered \/ Receive
    \/ \E s \in Sessions : Enqueue(s) \/ EnqueueAnswered(s) \/ ImageStaged(s)
    \/ \E l \in view.loads : LoadEnds(l)
    \/ \E step \in {1, -1} : Select(step)
    \/ DiscardAll \/ DiscardSelected \/ Accept

Spec == Init /\ [][Next]_vars

-----------------------------------------------------------------------------
(* Properties *)

\* Something about the queue is on its way to the canvas.
Informing ==
    \/ \E i \in 1 .. Len(wire) : wire[i].kind \notin {"progress", "output"}
    \/ counts.query # "none"
    \/ calls # [replied |-> {}, sent |-> 0, answered |-> 0]

\* Between them, the events and the invalidations tell the canvas of every
\* change of its part of the queue, of a cancellation of waiting sessions too,
\* which emits no event: when all has arrived and no invalidation was lost, the
\* counts, which keep the canvas busy, are right.  The flag that lets progress
\* images through, which failures and cancellations reset, follows the counts.
CountsRight ==
    /\ ~Informing /\ ~counts.missed => (counts.active <=> Unfinished # {})
    /\ counts.query = "none" => progress.hasActiveGeneration = counts.active

\* Whatever was staged, discarded or accepted while images load, the image on
\* the canvas is the selected one, which Accept takes, once it has loaded;
\* unless a render was skipped.
RenderedIsSelected == ~view.loading /\ ~view.skipped => view.image = Selected(staging)

\* One load at a time may touch the image module, and isLoading says so: a
\* staging area that is reset and filled again while an image loads does not
\* wait for ever.
LoadsOnce ==
    LET current == {l \in view.loads : l.current} IN
    /\ Cardinality(current) <= 1
    /\ view.loading <=> current # {}

\* An output is staged once; accepted, it does not come back to be accepted
\* again; and the selected index points at an image if there is one.
StagedOnce ==
    /\ \A i, j \in 1 .. Len(staging.images) : staging.images[i] = staging.images[j] => i = j
    /\ \A i \in 1 .. Len(staging.images) : staging.images[i] \notin accepted \cup fetching
    /\ staging.images # <<>> => Selected(staging) # None

-----------------------------------------------------------------------------
(* What the comments say and the code does not keep. *)

\* canvasStagingAreaSlice.ts:77: staging is "true if ... There are any
\* in-progress or pending canvas queue items", or staged images.
StagingRight == ~Informing => (isStaging <=> Unfinished # {} \/ staging.images # <<>>)

\* CanvasStagingAreaModule.ts:47: "When the staging redux state changes ... we
\* need to re-render the staging area".
SelectedIsRendered == ~view.loading => view.image = Selected(staging)
=============================================================================
