-------------------------- MODULE SegmentAnything --------------------------
(***************************************************************************)
(* Selecting an object of a canvas layer by points                          *)
(* (features/controlLayers/konva/CanvasSegmentAnythingModule.ts, with the   *)
(* buttons of components/SelectObject/SelectObject.tsx).  It is built like  *)
(* the filter, with two differences that matter: a run refuses to start     *)
(* while another is processing, and every button waits for it.              *)
(***************************************************************************)
EXTENDS LayerPreview

VARIABLE segment

\* prompt: the points and the invert flag, None without points; the rest as
\* in the filter.
Segment == [isSegmenting : BOOLEAN, isProcessing : BOOLEAN, queued : BOOLEAN,
            prompt : Prompts \cup {None}, lastProcessed : Prompts \cup {None},
            image : {None} \cup Runs, module : {None} \cup Runs,
            controller : {None} \cup Runs]

SegmentInit ==
    segment = [isSegmenting |-> FALSE, isProcessing |-> FALSE, queued |-> FALSE,
               prompt |-> None, lastProcessed |-> None, image |-> None,
               module |-> None, controller |-> None]

-----------------------------------------------------------------------------
AbortSegmentation ==
    IF segment.controller = None THEN UNCHANGED graphVars ELSE Abort(segment.controller)

\* resetEphemeralState.  The image module is in the mask group, never a child
\* of the module's own group: it is neither destroyed nor forgotten.
ResetSegment(s) ==
    [s EXCEPT !.controller = None, !.isProcessing = FALSE, !.prompt = None,
              !.image = None, !.lastProcessed = None]

StartSegment(busy) ==
    /\ ~segment.isSegmenting /\ ~busy
    /\ AbortSegmentation
    /\ segment' = [ResetSegment(segment) EXCEPT !.isSegmenting = TRUE]
    /\ UNCHANGED layerVars

\* A point is added (not while processing, nor can the first one be dragged
\* then) or the invert switch, which nothing disables, is flipped.
SetPrompt(prompt) ==
    /\ segment.isSegmenting
    /\ prompt # segment.prompt
    /\ segment.prompt = None => ~segment.isProcessing
    /\ segment' = [segment EXCEPT !.prompt = prompt, !.queued = @ \/ autoProcess]
    /\ UNCHANGED <<graphVars, layerVars>>

\* Fault: isProcessing is not looked at.
ProcessSegmentAnyway(s) ==
    IF ~s.isSegmenting \/ s.prompt \in {None, s.lastProcessed} \/ raster # None
      THEN segment' = s /\ UNCHANGED <<runs, raster>>
    ELSE /\ segment' = [s EXCEPT !.isProcessing = TRUE]
         /\ \E r \in Runs : Rasterizes(r, "segment", s.prompt)

\* processImmediate up to its first await, on s.
ProcessSegment(s) ==
    IF ~s.isSegmenting \/ s.isProcessing \/ s.prompt \in {None, s.lastProcessed}
      THEN segment' = s /\ UNCHANGED <<runs, raster>>
    ELSE IF raster # None  \* rasterize throws
      THEN segment' = s /\ UNCHANGED <<runs, raster>>
    ELSE /\ segment' = [s EXCEPT !.isProcessing = TRUE]
         /\ \E r \in Runs : Rasterizes(r, "segment", s.prompt)

SegmentButton ==
    /\ segment.isSegmenting /\ ~segment.isProcessing
    /\ segment.prompt # None
    /\ ~(autoProcess /\ segment.image # None)
    /\ ProcessSegment(segment)
    /\ UNCHANGED <<graphVars, image, cache, layer, hidden, autoProcess>>

SegmentDue ==
    /\ segment.queued
    /\ ProcessSegment([segment EXCEPT !.queued = FALSE])
    /\ UNCHANGED <<graphVars, image, cache, layer, hidden, autoProcess>>

SegmentRasterized(r) ==
    /\ runs[r].by = "segment"
    /\ Rasterized(r)
    /\ runs' = [runs EXCEPT ![r].stage = "running"]
    /\ segment' = [segment EXCEPT !.controller = r]
    /\ RunGraph(r)
    /\ UNCHANGED <<image, layer, hidden, autoProcess>>

SegmentRasterizeFails(r) ==
    /\ runs[r].by = "segment"
    /\ RasterizeFails(r)
    /\ segment' = [segment EXCEPT !.isProcessing = FALSE]
    /\ UNCHANGED <<graphVars, image, cache, layer, hidden, autoProcess>>

SegmentFailed(r) ==
    /\ req[r].promise = "error"
    /\ EndRun(r)
    /\ AbortSegmentation
    /\ segment' = [segment EXCEPT !.isProcessing = FALSE, !.controller = None]
    /\ UNCHANGED <<image, raster, cache, layer, hidden, autoProcess>>

\* The new module replaces the old one before it is drawn.
SegmentImage(r) ==
    /\ req[r].promise = "image"
    /\ runs' = [runs EXCEPT ![r].stage = "drawing"]
    /\ segment' = [segment EXCEPT !.image = r, !.module = r]
    /\ image' = [Destroys(image, segment.module) EXCEPT ![r] = "detached"]
    /\ UNCHANGED <<graphVars, raster, cache, layer, hidden, autoProcess>>

SegmentDrawn(r) ==
    /\ runs[r].stage = "drawing" /\ runs[r].by = "segment"
    /\ EndRun(r)
    /\ image' = [image EXCEPT ![segment.module] = "shown"]
    /\ AbortSegmentation
    /\ segment' = [segment EXCEPT !.lastProcessed = runs[r].input,
                                  !.isProcessing = FALSE, !.controller = None]
    /\ UNCHANGED <<raster, cache, layer, hidden, autoProcess>>

TeardownSegment == segment' = [ResetSegment(segment) EXCEPT !.isSegmenting = FALSE]

CancelSegment ==
    /\ segment.isSegmenting /\ ~segment.isProcessing
    /\ AbortSegmentation
    /\ TeardownSegment
    /\ UNCHANGED layerVars

ApplySegment ==
    /\ segment.isSegmenting /\ ~segment.isProcessing
    /\ segment.image # None
    /\ AbortSegmentation
    /\ ReplaceObjects(image, segment.image)
    /\ TeardownSegment
    /\ UNCHANGED <<runs, raster, cache, hidden, autoProcess>>

\* saveAs: a new layer gets the image; this one adopts the module.
SaveSegment ==
    /\ segment.isSegmenting /\ ~segment.isProcessing
    /\ segment.image # None
    /\ image' = Adopts(segment.module)
    /\ UNCHANGED <<graphVars, segment, runs, raster, cache, layer, hidden, autoProcess>>

\* The Reset button, or the last point is removed by a click.
ResetSegmentButton ==
    /\ segment.isSegmenting /\ ~segment.isProcessing
    /\ segment.prompt # None
    /\ AbortSegmentation
    /\ segment' = ResetSegment(segment)
    /\ UNCHANGED layerVars
=============================================================================
