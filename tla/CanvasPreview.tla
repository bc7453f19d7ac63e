--------------------------- MODULE CanvasPreview ---------------------------
(***************************************************************************)
(* One layer of the canvas with its filter and its object selection, the    *)
(* graphs they run on the server and a user who does not wait.              *)
(***************************************************************************)
EXTENDS EntityFilterer, SegmentAnything

vars == <<graphVars, layerVars, filter, segment>>

TypeOK ==
    /\ GraphTypeOK
    /\ LayerTypeOK
    /\ filter \in Filter
    /\ segment \in Segment

Init == GraphInit /\ LayerInit /\ FilterInit /\ SegmentInit

\* CanvasManager.$isBusy, as far as this layer goes.
isBusy == filter.isFiltering \/ segment.isSegmenting \/ raster # None

\* The auto-process setting; both modules process when it is switched on.
ToggleAutoProcess ==
    /\ autoProcess' = ~autoProcess
    /\ filter' = [filter EXCEPT !.queued = @ \/ (~autoProcess /\ filter.isFiltering)]
    /\ segment' = [segment EXCEPT !.queued =
                     @ \/ (~autoProcess /\ segment.isSegmenting /\ segment.prompt # None)]
    /\ UNCHANGED <<graphVars, runs, image, raster, cache, layer, hidden>>

\* What an await goes on with as soon as its promise has settled.
Continue(r) ==
    /\ Continues(r)
    /\ \/ /\ runs[r].by = "filter"
          /\ FilterFailed(r) \/ FilterImage(r)
          /\ UNCHANGED segment
       \/ /\ runs[r].by = "segment"
          /\ SegmentFailed(r) \/ SegmentImage(r)
          /\ UNCHANGED filter

\* What an await goes on with when the browser or the server has answered.
Resume(r) ==
    \/ (FilterRasterized(r) \/ FilterDrawn(r)) /\ UNCHANGED segment
    \/ (SegmentRasterized(r) \/ SegmentDrawn(r)) /\ UNCHANGED filter

Fails(r) ==
    \/ (FilterRasterizeFails(r) \/ FilterGraphFails(r)) /\ UNCHANGED segment
    \/ SegmentRasterizeFails(r) /\ UNCHANGED filter
    \/ CachedGone(r) /\ UNCHANGED <<filter, segment>>

Due ==
    \/ ProcessDue /\ UNCHANGED segment
    \/ SegmentDue /\ UNCHANGED filter

UseFilter ==
    /\ \/ \E config \in Configs : StartFilter(config) \/ SetFilterConfig(config)
       \/ ProcessButton \/ CancelFilter \/ ApplyFilter \/ ResetButton
    /\ UNCHANGED segment

UseSegment ==
    /\ \/ StartSegment(isBusy)
       \/ \E prompt \in Prompts : SetPrompt(prompt)
       \/ SegmentButton \/ CancelSegment \/ ApplySegment \/ SaveSegment
       \/ ResetSegmentButton
    /\ UNCHANGED filter

Graph == GraphNext /\ UNCHANGED <<layerVars, filter, segment>>

Settling == \E r \in Runs : Continues(r)

Next ==
    \/ \E r \in Runs : Continue(r)
    \/ /\ ~Settling
       /\ \/ Graph \/ Due \/ UseFilter \/ UseSegment \/ ToggleAutoProcess
          \/ \E r \in Runs : Resume(r) \/ Fails(r)

\* The browser and the server answer; the user does as they please.
Fairness ==
    /\ WF_vars(\E r \in Runs : Continue(r))
    /\ WF_vars(~Settling /\ \E r \in Runs : Resume(r))
    /\ WF_vars(~Settling /\ Server /\ UNCHANGED <<layerVars, filter, segment>>)
    /\ WF_vars(~Settling /\ Client /\ UNCHANGED <<layerVars, filter, segment>>)

Spec == Init /\ [][Next]_vars
FairSpec == Spec /\ Fairness

-----------------------------------------------------------------------------
(* Properties *)

\* Of a graph the server runs for the canvas, the caller sees what
\* GraphPromise says, whatever the order of answers, events and aborts.
KeepsPromise == Promise!Spec

\* The filter's buttons wait while isProcessing, which runs that overlap set
\* and clear for one another: whatever a reset, an abort, another run or an
\* image module that is gone has made of it meanwhile, it is set only while a
\* run is under way that will clear it.
ProcessingHasRun ==
    filter.isProcessing =>
      \E r \in Runs : runs[r].by = "filter" /\ runs[r].stage \in {"running", "drawing"}

\* The graph of a result that was delivered is not canceled by the clean-up
\* that aborts the controller of every run.
SuccessNotCanceled ==
    [][\A r \in Runs : r \in cancels' \ cancels => req[r].promise # "image"]_vars

\* A promise that an event or an abort settled leaves no listener behind.
ListenersReleased ==
    \A r \in Runs :
      req[r].listening /\ Settled(r) => item[r] = "none" /\ req[r].promise = "error"

\* $rasterizingAdapter, which makes the whole canvas busy, names a run that is
\* rasterizing: no way out of a run, and no run whose cached image is gone,
\* leaves it set.
RasterReleased == raster # None => runs[raster].stage = "rasterizing"

\* Object selection processes one prompt at a time, and says so from the
\* start of the run to its end: its buttons come back with the result.
SegmentSerial ==
    LET active == {r \in Runs : Active(r) /\ runs[r].by = "segment"} IN
    /\ \A r, q \in active : r = q
    /\ segment.isProcessing <=> active # {}

\* A run that awaits the promise of an item that was dropped.
Stranded(by) ==
    \E r \in Runs : /\ runs[r].by = by /\ runs[r].stage = "running"
                    /\ item[r] = "canceled" /\ socket[r] = "none"
                    /\ req[r].promise = "pending"

\* While the server serves and the socket delivers, a filter or an object
\* selection that says it is processing stops saying so, unless the user has
\* dropped its item from the queue, which the promise never hears of.
ProcessingEnds ==
    /\ filter.isProcessing ~> ~filter.isProcessing \/ Stranded("filter")
    /\ segment.isProcessing ~> ~segment.isProcessing \/ Stranded("segment")

-----------------------------------------------------------------------------
(* What the comments say and the code does not keep. *)

AtRest == \A r \in Runs : ~Active(r)

\* CanvasEntityFilterer.ts:58: lastProcessedHash, "used to prevent re-processing
\* the same config", is that of the config whose result is shown.
LastProcessedIsShown ==
    AtRest /\ filter.image # None => runs[filter.image].input = filter.lastProcessed

\* CanvasEntityFilterer.ts:317: every preview that is drawn is destroyed later:
\* it is the current one, or a run that draws will destroy it.
PreviewsRemoved ==
    \A r \in Runs : image[r] = "shown" =>
       \/ r \in {filter.module, segment.module}
       \/ \E q \in Runs : runs[q].stage = "drawing" /\ runs[q].old = r

\* CanvasEntityFilterer.ts:312: the hidden objects are shown "in the teardown
\* method, which is always called after the filter finishes".
HiddenOnlyWhileFiltering == AtRest /\ ~filter.isFiltering => ~hidden

\* CanvasEntityFilterer.ts:421: an image module that the layer has adopted is
\* not the filter's to destroy.
AppliedImageKept == layer # None /\ ~filter.isFiltering /\ AtRest => image[layer] # "destroyed"
=============================================================================
