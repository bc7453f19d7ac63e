------------------------- MODULE EntityTransformer -------------------------
(***************************************************************************)
(* The transformers of the canvas' layers (features/controlLayers/konva/    *)
(* CanvasEntity/CanvasEntityTransformer.ts, with hooks/useEntityTransform.ts*)
(* and components/Transform/Transform.tsx).  A transformer moves, scales    *)
(* and rotates its layer, and it recalculates the layer's rect, by way of a *)
(* debounce and a web worker, whenever the layer's objects have changed.    *)
(* A mutex per transformer keeps the two apart.                             *)
(*                                                                          *)
(* The transformers share $transformingAdapter and $rasterizingAdapter.     *)
(* What follows an await of the mutex runs before any other task once the   *)
(* mutex is granted: "granted" below.                                       *)
(***************************************************************************)
EXTENDS Naturals, Sequences

CONSTANTS
    Adapters,   \* the entity adapters, dead and alive
    MaxWaiting  \* bound: callers that wait for one mutex

None == 0

ASSUME EntityTransformerAssumption == None \notin Adapters /\ MaxWaiting \in Nat \ {0}

VARIABLES
    life,       \* per adapter: not created yet, alive or destroyed
    content,    \* per adapter: its objects
    mutex,      \* per adapter: transformMutex
    transform,  \* per adapter: $isTransforming, $silentTransform, $isProcessing
    rect,       \* per adapter: the rect and its calculation
    transformingAdapter,
    rasterizingAdapter

vars == <<life, content, mutex, transform, rect, transformingAdapter, rasterizingAdapter>>

\* Why the mutex is asked for: to transform, to fit the layer to the bbox
\* (a silent transform) or to recalculate the rect.
Purposes == {"start", "fit", "rect"}

\* granted: who has just been given the mutex and is to go on.
Mutex == [locked : BOOLEAN, granted : Purposes \cup {"nobody"}, waiting : Seq(Purposes)]

\* unrendered: the state's objects have changed and are yet to be rendered;
\* fits: the layer is new, to be fitted to the bbox when it is initialized.
Content == [hasObjects : BOOLEAN, unrendered : BOOLEAN, fits : BOOLEAN]

Transform == [isTransforming : BOOLEAN, silent : BOOLEAN, isProcessing : BOOLEAN]

\* pending: $isPendingRectCalculation; isEmpty: $pixelRect has no size; fresh:
\* the rect is that of the objects rendered; captured: so is the image that
\* the worker measures.
Rect == [calc : {"none", "debounced", "worker"}, pending : BOOLEAN,
         isEmpty : BOOLEAN, fresh : BOOLEAN, captured : BOOLEAN]

TypeOK ==
    /\ life \in [Adapters -> {"new", "alive", "destroyed"}]
    /\ content \in [Adapters -> Content]
    /\ mutex \in [Adapters -> Mutex]
    /\ transform \in [Adapters -> Transform]
    /\ rect \in [Adapters -> Rect]
    /\ transformingAdapter \in Adapters \cup {None}
    /\ rasterizingAdapter \in Adapters \cup {None}

FreeMutex == [locked |-> FALSE, granted |-> "nobody", waiting |-> <<>>]
NoObjects == [hasObjects |-> FALSE, unrendered |-> FALSE, fits |-> FALSE]
NewObjects == [hasObjects |-> TRUE, unrendered |-> TRUE, fits |-> FALSE]
Idle == [isTransforming |-> FALSE, silent |-> FALSE, isProcessing |-> FALSE]

Init ==
    /\ life = [a \in Adapters |-> "new"]
    /\ content = [a \in Adapters |-> NoObjects]
    /\ mutex = [a \in Adapters |-> FreeMutex]
    /\ transform = [a \in Adapters |-> Idle]
    /\ rect = [a \in Adapters |-> [calc |-> "none", pending |-> TRUE, isEmpty |-> TRUE,
                                   fresh |-> FALSE, captured |-> FALSE]]
    /\ transformingAdapter = None
    /\ rasterizingAdapter = None

isBusy == transformingAdapter # None \/ rasterizingAdapter # None

-----------------------------------------------------------------------------
(* The mutex (external, the package async-mutex): first come, first served; *)
(* releasing one that is free does nothing.                                 *)

Acquired(m, purpose) ==
    IF m.locked THEN [m EXCEPT !.waiting = Append(@, purpose)]
    ELSE [m EXCEPT !.locked = TRUE, !.granted = purpose]

\* Fault: it is handed on without looking whether anyone waits.
ReleasedBlindly(m) ==
    [m EXCEPT !.granted = IF m.waiting = <<>> THEN "none" ELSE Head(m.waiting),
              !.waiting = IF @ = <<>> THEN @ ELSE Tail(@)]

Released(m) ==
    IF m.waiting = <<>> THEN [m EXCEPT !.locked = FALSE]
    ELSE [m EXCEPT !.granted = Head(m.waiting), !.waiting = Tail(m.waiting)]

HasRoom(a) == Len(mutex[a].waiting) < MaxWaiting

-----------------------------------------------------------------------------
\* updateBbox, on the objects c: a rect without size, unless it is being
\* recalculated, makes the layer lose its objects.
UpdateBbox(a, c, r) ==
    IF ~r.pending /\ r.isEmpty /\ c.hasObjects /\ life[a] = "alive"
      THEN [c EXCEPT !.hasObjects = FALSE, !.unrendered = TRUE] ELSE c

-----------------------------------------------------------------------------
(* Transforming. *)

\* Fault: the mutex is not released.
StopTransformLocked(a, m, c) ==
    /\ content' = [content EXCEPT ![a] = UpdateBbox(a, c, rect[a])]
    /\ transform' = [transform EXCEPT ![a].isTransforming = FALSE, ![a].isProcessing = FALSE]
    /\ transformingAdapter' = None
    /\ mutex' = [mutex EXCEPT ![a] = m]

\* stopTransform: $transformingAdapter is reset, whoever it names.
StopTransform(a, m, c) ==
    /\ content' = [content EXCEPT ![a] = UpdateBbox(a, c, rect[a])]
    /\ transform' = [transform EXCEPT ![a].isTransforming = FALSE, ![a].isProcessing = FALSE]
    /\ transformingAdapter' = None
    /\ mutex' = [mutex EXCEPT ![a] = Released(m)]

\* requestRectCalculation, then stopTransform: how applyTransform ends.
EndApply(a, c) == StopTransform(a, Acquired(mutex[a], "rect"), c)

\* The Transform and the Fit to bbox items of a layer's menu.  The first
\* sees a transform in progress and throws, but not one that waits.
StartTransform(a, purpose) ==
    /\ life[a] = "alive" /\ content[a].hasObjects
    /\ ~isBusy
    /\ HasRoom(a)
    /\ mutex' = [mutex EXCEPT ![a] = Acquired(@, purpose)]
    /\ UNCHANGED <<life, content, transform, rect, transformingAdapter, rasterizingAdapter>>

\* The rest of startTransform, once it has the mutex.
Start(a) ==
    /\ mutex[a].granted = "start"
    /\ mutex' = [mutex EXCEPT ![a].granted = "nobody"]
    /\ transform' = [transform EXCEPT ![a].isTransforming = TRUE, ![a].silent = FALSE]
    /\ transformingAdapter' = a
    /\ UNCHANGED <<life, content, rect, rasterizingAdapter>>

\* The same for a fit, which applies the transform at once: it rasterizes the
\* layer, or fails to because another one is rasterizing.
Fit(a) ==
    /\ mutex[a].granted = "fit"
    /\ IF rasterizingAdapter = None
         THEN /\ transform' = [transform EXCEPT ![a] =
                   [isTransforming |-> TRUE, silent |-> TRUE, isProcessing |-> TRUE]]
              /\ mutex' = [mutex EXCEPT ![a].granted = "nobody"]
              /\ transformingAdapter' = a
              /\ rasterizingAdapter' = a
              /\ UNCHANGED content
         ELSE /\ content' = [content EXCEPT ![a] = UpdateBbox(a, @, rect[a])]
              /\ transform' = [transform EXCEPT ![a] = [Idle EXCEPT !.silent = TRUE]]
              /\ mutex' = [mutex EXCEPT ![a] =
                             Released(Acquired([@ EXCEPT !.granted = "nobody"], "rect"))]
              /\ transformingAdapter' = None
              /\ UNCHANGED rasterizingAdapter
    /\ UNCHANGED <<life, rect>>

\* The panel is there for $transformingAdapter, its buttons while not processing.
Panel(a) == transformingAdapter = a /\ ~transform[a].isProcessing

CancelTransform(a) ==
    /\ Panel(a)
    /\ StopTransform(a, mutex[a], content[a])
    /\ UNCHANGED <<life, rect, rasterizingAdapter>>

ApplyTransform(a) ==
    /\ Panel(a) /\ transform[a].isTransforming
    /\ IF rasterizingAdapter = None
         THEN /\ transform' = [transform EXCEPT ![a].isProcessing = TRUE]
              /\ rasterizingAdapter' = a
              /\ UNCHANGED <<content, mutex, transformingAdapter>>
         ELSE EndApply(a, content[a]) /\ UNCHANGED rasterizingAdapter
    /\ UNCHANGED <<life, rect>>

\* The layer is rasterized and uploaded, and becomes that one image; or it
\* failed.  A layer that is gone has no state to change.
ApplyEnds(a) ==
    /\ rasterizingAdapter = a
    /\ rasterizingAdapter' = None
    /\ \/ EndApply(a, content[a])
       \/ life[a] = "alive" /\ EndApply(a, [NewObjects EXCEPT !.fits = content[a].fits])
    /\ UNCHANGED <<life, rect>>

-----------------------------------------------------------------------------
(* The rect. *)

\* Fault: a calculation that is under way is taken for one of these objects.
RenderedOnce(a) ==
    /\ content[a].unrendered
    /\ content' = [content EXCEPT ![a].unrendered = FALSE, ![a].fits = FALSE]
    /\ rect' = [rect EXCEPT ![a].fresh = FALSE, ![a].captured = FALSE]
    /\ mutex' = [mutex EXCEPT ![a] = IF rect[a].pending /\ rect[a].calc # "none" THEN @
                                     ELSE Acquired(@, "rect")]
    /\ UNCHANGED <<life, transform, transformingAdapter, rasterizingAdapter>>

\* renderer.render has drawn the objects: syncObjects asks for the rect.  For
\* a layer to be fitted, the callback of its initialization starts a silent
\* transform, which throws if there is one already.
Rendered(a) ==
    /\ content[a].unrendered
    /\ content' = [content EXCEPT ![a].unrendered = FALSE, ![a].fits = FALSE]
    /\ rect' = [rect EXCEPT ![a].fresh = FALSE, ![a].captured = FALSE]
    /\ mutex' = [mutex EXCEPT ![a] =
                   IF content[a].fits /\ transformingAdapter = None
                     THEN Acquired(Acquired(@, "rect"), "fit") ELSE Acquired(@, "rect")]
    /\ UNCHANGED <<life, transform, transformingAdapter, rasterizingAdapter>>

\* The rest of requestRectCalculation, once it has the mutex.
RequestRect(a) ==
    /\ mutex[a].granted = "rect"
    /\ mutex' = [mutex EXCEPT ![a].granted = "nobody"]
    /\ rect' = [rect EXCEPT ![a].calc = "debounced", ![a].pending = TRUE]
    /\ UNCHANGED <<life, content, transform, transformingAdapter, rasterizingAdapter>>

\* The calculation ends: what is the rect, what becomes of the layer.
CalculatedRect(a, isEmpty, fresh) ==
    LET r == [calc |-> "none", pending |-> FALSE, isEmpty |-> isEmpty,
              fresh |-> fresh, captured |-> FALSE] IN
    /\ rect' = [rect EXCEPT ![a] = r]
    /\ content' = [content EXCEPT ![a] = UpdateBbox(a, @, r)]
    /\ mutex' = [mutex EXCEPT ![a] = Released(@)]

\* The debounced calculateRect: there is nothing to measure, konva knows the
\* rect or, with eraser strokes, the worker measures the pixels.
CalculateRect(a) ==
    /\ rect[a].calc = "debounced"
    /\ \/ CalculatedRect(a, ~content[a].hasObjects, TRUE)
       \/ /\ content[a].hasObjects
          /\ rect' = [rect EXCEPT ![a].calc = "worker", ![a].captured = TRUE]
          /\ UNCHANGED <<content, mutex>>
    /\ UNCHANGED <<life, transform, transformingAdapter, rasterizingAdapter>>

WorkerAnswers(a) ==
    /\ rect[a].calc = "worker"
    /\ \E isEmpty \in BOOLEAN : CalculatedRect(a, isEmpty, rect[a].captured)
    /\ UNCHANGED <<life, transform, transformingAdapter, rasterizingAdapter>>

-----------------------------------------------------------------------------
(* Layers come, change and go. *)

AddLayer(a) ==
    /\ life[a] = "new"
    /\ life' = [life EXCEPT ![a] = "alive"]
    /\ content' = [content EXCEPT ![a] = NewObjects]
    /\ UNCHANGED <<mutex, transform, rect, transformingAdapter, rasterizingAdapter>>

\* Fault: the transform goes on under the panel's feet: only the adapter knows
\* that it has stopped.
DestroyedQuietly(gone) ==
    /\ transform' = [a \in Adapters |->
         IF a \in gone THEN [transform[a] EXCEPT !.isTransforming = FALSE] ELSE transform[a]]
    /\ UNCHANGED transformingAdapter

\* CanvasEntityAdapterBase destroys a layer, having stopped its transform (of
\* which the parts that only matter to a living layer are left out).
Destroyed(gone) ==
    /\ transform' = [a \in Adapters |->
         IF a \in gone
           THEN [transform[a] EXCEPT !.isTransforming = FALSE,
                                     !.isProcessing = @ /\ ~transform[a].isTransforming]
           ELSE transform[a]]
    /\ transformingAdapter' =
         IF \E a \in gone : transform[a].isTransforming THEN None ELSE transformingAdapter

Stopped(gone) ==
    [a \in Adapters |-> IF a \in gone /\ transform[a].isTransforming
                          THEN Released(mutex[a]) ELSE mutex[a]]

\* newCanvasFromImage with withResize: the canvas is reset, a layer is added.
NewCanvas(a) ==
    /\ life[a] = "new"
    /\ LET gone == {b \in Adapters : life[b] = "alive"} IN
         /\ Destroyed(gone)
         /\ life' = [b \in Adapters |-> IF b = a THEN "alive" ELSE
                                          IF b \in gone THEN "destroyed" ELSE life[b]]
         /\ mutex' = Stopped(gone)
    /\ content' = [content EXCEPT ![a] = [NewObjects EXCEPT !.fits = TRUE]]
    /\ UNCHANGED <<rect, rasterizingAdapter>>

\* The gallery deletes an image that the layer uses, the canvas is reset, or
\* the user deletes the layer; only the last one waits for an idle canvas.
DeleteLayer(a) ==
    /\ life[a] = "alive"
    /\ life' = [life EXCEPT ![a] = "destroyed"]
    /\ Destroyed({a})
    /\ mutex' = Stopped({a})
    /\ UNCHANGED <<content, rect, rasterizingAdapter>>

\* A stroke, an undo: the objects change.
EditLayer(a) ==
    /\ life[a] = "alive" /\ ~isBusy
    /\ HasRoom(a)
    /\ content' = [content EXCEPT ![a].hasObjects = TRUE, ![a].unrendered = TRUE]
    /\ UNCHANGED <<life, mutex, transform, rect, transformingAdapter, rasterizingAdapter>>

-----------------------------------------------------------------------------
Granted == \E a \in Adapters : mutex[a].granted # "nobody"

Continue == \E a \in Adapters : Start(a) \/ Fit(a) \/ RequestRect(a)

Answer(a) == Rendered(a) \/ CalculateRect(a) \/ WorkerAnswers(a) \/ ApplyEnds(a)

UseLayer(a) ==
    \/ AddLayer(a) \/ NewCanvas(a) \/ DeleteLayer(a) \/ EditLayer(a)
    \/ \E purpose \in {"start", "fit"} : StartTransform(a, purpose)
    \/ CancelTransform(a) \/ ApplyTransform(a)

Next == Continue \/ (~Granted /\ \E a \in Adapters : Answer(a) \/ UseLayer(a))

Spec == Init /\ [][Next]_vars

-----------------------------------------------------------------------------
(* Properties *)

\* Who holds the mutex of a layer: the caller it was just granted to, the
\* transform, or the calculation of the rect.
Holders(a) ==
    {h \in {"granted", "transform", "rect"} :
       \/ h = "granted" /\ mutex[a].granted # "nobody"
       \/ h = "transform" /\ transform[a].isTransforming
       \/ h = "rect" /\ rect[a].calc # "none"}

\* The mutex of a layer is held by exactly one of them or free, so that a layer
\* is never measured while it is transformed, and no way of ending a transform
\* or a calculation leaves the mutex locked for ever or releases it twice.
MutexHeld ==
    \A a \in Adapters :
      life[a] = "alive" => /\ mutex[a].locked <=> Holders(a) # {}
                          /\ \A h, k \in Holders(a) : h = k

\* Whatever makes the canvas busy transforming can be ended: the adapter the
\* panel shows is one that is transforming, even if its layer was deleted.
PanelCanEnd ==
    transformingAdapter # None => transform[transformingAdapter].isTransforming

\* No change of a layer's objects goes unmeasured, however the requests, the
\* debounce and the worker fall together: a layer at rest has its rect.
RectFresh ==
    \A a \in Adapters :
      life[a] = "alive" /\ ~content[a].unrendered /\ ~mutex[a].locked => rect[a].fresh

-----------------------------------------------------------------------------
(* The inductive invariant of PanelCanEnd and MutexHeld. *)

\* A layer that is rasterized is transforming until then: cancel is not offered.
RasterizedHeld ==
    \A a \in Adapters :
      rasterizingAdapter = a /\ life[a] = "alive" =>
        transform[a].isTransforming /\ transform[a].isProcessing

\* An adapter that is not created yet has done nothing.
NewIsIdle ==
    \A a \in Adapters :
      life[a] = "new" =>
        /\ mutex[a] = FreeMutex
        /\ transform[a] = Idle
        /\ rect[a].calc = "none"
        /\ ~content[a].unrendered
        /\ transformingAdapter # a /\ rasterizingAdapter # a

IInv == TypeOK /\ PanelCanEnd /\ MutexHeld /\ RasterizedHeld /\ NewIsIdle

-----------------------------------------------------------------------------
(* What the code says of itself and does not keep. *)

\* CanvasEntityTransformer.ts:749, assert(false, "Already transforming an
\* entity"): one entity is transformed at a time.
TransformExclusive ==
    \A a, b \in Adapters :
      transform[a].isTransforming /\ transform[b].isTransforming => a = b

\* CanvasEntityTransformer.ts:890: "If the bbox has no width or height, that
\* means the layer is fully transparent": objects that updateBbox throws away
\* are the ones that were measured.
OnlyTransparentReset ==
    [][\A a \in Adapters : content[a].hasObjects /\ ~content'[a].hasObjects
         => ~content[a].unrendered /\ (rect[a].fresh \/ rect'[a].fresh)]_vars
=============================================================================
