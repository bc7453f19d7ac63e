--------------------------- MODULE EntityFilterer ---------------------------
(***************************************************************************)
(* The filter of a canvas layer (features/controlLayers/konva/CanvasEntity/ *)
(* CanvasEntityFilterer.ts, with the buttons of components/Filters/         *)
(* Filter.tsx).  It previews a filtered image over the layer, whose own     *)
(* objects it hides meanwhile, until the user applies it or cancels.        *)
(*                                                                          *)
(* Nothing in processImmediate looks, after an await, at whether the filter *)
(* is still active or whether a newer run has started.                      *)
(***************************************************************************)
EXTENDS LayerPreview

CONSTANT DefaultConfig  \* what createInitialFilterConfig returns

ASSUME EntityFiltererAssumption == DefaultConfig \in Configs

VARIABLE filter

\* image and module: the runs that made $imageState and imageModule;
\* controller: the run whose AbortController is in abortController;
\* queued: the debounced process() is due.
Filter == [isFiltering : BOOLEAN, isProcessing : BOOLEAN, queued : BOOLEAN,
           config : Configs, initial : Configs, lastProcessed : Configs \cup {None},
           image : {None} \cup Runs, module : {None} \cup Runs,
           controller : {None} \cup Runs]

FilterInit ==
    filter = [isFiltering |-> FALSE, isProcessing |-> FALSE, queued |-> FALSE,
              config |-> DefaultConfig, initial |-> DefaultConfig,
              lastProcessed |-> None, image |-> None, module |-> None,
              controller |-> None]

-----------------------------------------------------------------------------
\* abortController?.abort()
AbortController(r) == IF r = None THEN UNCHANGED graphVars ELSE Abort(r)

\* resetEphemeralState: an image module that is not in the filter's group,
\* adopted by the layer or not drawn yet, is left alone.
ResetModules(f) ==
    IF f.module # None /\ image[f.module] = "shown"
      THEN [image EXCEPT ![f.module] = "destroyed"] ELSE image

\* Fault: the config goes back to the one that was processed last.
ResetFilterToLast(f) ==
    [f EXCEPT !.controller = None, !.isProcessing = FALSE, !.lastProcessed = None,
              !.image = None, !.config = f.lastProcessed,
              !.module = IF @ # None /\ image[@] = "shown" THEN None ELSE @]

ResetFilter(f) ==
    [f EXCEPT !.controller = None, !.isProcessing = FALSE, !.lastProcessed = None,
              !.image = None, !.config = f.initial,
              !.module = IF @ # None /\ image[@] = "shown" THEN None ELSE @]

\* processImmediate up to its first await, on the filter f.
ProcessFilter(f) ==
    IF ~f.isFiltering \/ f.config = f.lastProcessed
      THEN /\ filter' = f
           /\ UNCHANGED <<runs, raster>>
    ELSE IF raster # None  \* rasterize throws
      THEN /\ filter' = [f EXCEPT !.isProcessing = FALSE]
           /\ UNCHANGED <<runs, raster>>
    ELSE /\ filter' = f
         /\ \E r \in Runs : Rasterizes(r, "filter", f.config)

\* start, from the layer's menu or, on a control layer, by the choice of a
\* model with a filter; the latter does not ask whether the canvas is busy.
StartFilter(config) ==
    /\ ~filter.isFiltering
    /\ AbortController(filter.controller)
    /\ image' = ResetModules(filter)
    /\ LET f == [ResetFilter(filter) EXCEPT !.isFiltering = TRUE,
                   !.config = config, !.initial = config] IN
         IF autoProcess THEN ProcessFilter(f)
         ELSE filter' = f /\ UNCHANGED <<runs, raster>>
    /\ UNCHANGED <<cache, layer, hidden, autoProcess>>

\* The user edits the settings; or, in simple mode (which is not tracked),
\* picks another model, which always asks for processing.
SetFilterConfig(config) ==
    /\ filter.isFiltering
    /\ \E always \in BOOLEAN :
         filter' = [filter EXCEPT !.config = config,
                                  !.queued = @ \/ autoProcess \/ always]
    /\ UNCHANGED <<graphVars, layerVars>>

\* The Process button, and the debounced process() when it is due.
ProcessButton ==
    /\ filter.isFiltering /\ ~filter.isProcessing
    /\ ~(autoProcess /\ filter.image # None)
    /\ ProcessFilter(filter)
    /\ UNCHANGED <<graphVars, image, cache, layer, hidden, autoProcess>>

ProcessDue ==
    /\ filter.queued
    /\ ProcessFilter([filter EXCEPT !.queued = FALSE])
    /\ UNCHANGED <<graphVars, image, cache, layer, hidden, autoProcess>>

\* After the first await: the graph is built and run.
FilterRasterized(r) ==
    /\ runs[r].by = "filter"
    /\ Rasterized(r)
    /\ runs' = [runs EXCEPT ![r].stage = "running"]
    /\ filter' = [filter EXCEPT !.isProcessing = TRUE, !.controller = r]
    /\ RunGraph(r)
    /\ UNCHANGED <<image, layer, hidden, autoProcess>>

\* Fault: this way out, like the test of the config, does not reset anything.
FilterGraphFailsProcessing(r) ==
    /\ runs[r].by = "filter"
    /\ Rasterized(r)
    /\ EndRun(r)
    /\ filter' = [filter EXCEPT !.isProcessing = TRUE]
    /\ UNCHANGED <<graphVars, image, layer, hidden, autoProcess>>

\* Or the graph cannot be built.
FilterGraphFails(r) ==
    /\ runs[r].by = "filter"
    /\ Rasterized(r)
    /\ EndRun(r)
    /\ filter' = [filter EXCEPT !.isProcessing = FALSE]
    /\ UNCHANGED <<graphVars, image, layer, hidden, autoProcess>>

FilterRasterizeFails(r) ==
    /\ runs[r].by = "filter"
    /\ RasterizeFails(r)
    /\ filter' = [filter EXCEPT !.isProcessing = FALSE]
    /\ UNCHANGED <<graphVars, image, cache, layer, hidden, autoProcess>>

\* After the second await, with an error.
FilterFailed(r) ==
    /\ req[r].promise = "error"
    /\ EndRun(r)
    /\ filter' = [filter EXCEPT !.isProcessing = FALSE, !.controller = None]
    /\ Abort(r)
    /\ UNCHANGED <<image, raster, cache, layer, hidden, autoProcess>>

\* Or with the image: it becomes the preview, its module is yet to be drawn.
FilterImage(r) ==
    /\ req[r].promise = "image"
    /\ runs' = [runs EXCEPT ![r].stage = "drawing", ![r].old = filter.module]
    /\ filter' = [filter EXCEPT !.image = r, !.module = r]
    /\ image' = [image EXCEPT ![r] = "detached"]
    /\ UNCHANGED <<graphVars, raster, cache, layer, hidden, autoProcess>>

\* After the third await.  this.imageModule is whatever module is current.
FilterDrawn(r) ==
    /\ runs[r].stage = "drawing" /\ runs[r].by = "filter"
    /\ EndRun(r)
    /\ IF filter.module = None  \* a TypeError ends the run here
         THEN UNCHANGED <<graphVars, filter, image, hidden>>
         ELSE /\ image' = Destroys([image EXCEPT ![filter.module] = "shown"], runs[r].old)
              /\ hidden' = TRUE
              /\ filter' = [filter EXCEPT !.lastProcessed = runs[r].input,
                              !.isProcessing = FALSE, !.controller = None]
              /\ Abort(r)
    /\ UNCHANGED <<raster, cache, layer, autoProcess>>

\* teardown, with the modules as they are when it resets.
TeardownFilter ==
    /\ AbortController(filter.controller)
    /\ hidden' = FALSE
    /\ filter' = [ResetFilter(filter) EXCEPT !.isFiltering = FALSE]

\* The Cancel button is never disabled.
CancelFilter ==
    /\ filter.isFiltering
    /\ TeardownFilter
    /\ image' = ResetModules(filter)
    /\ UNCHANGED <<runs, raster, cache, layer, autoProcess>>

ApplyFilter ==
    /\ filter.isFiltering /\ ~filter.isProcessing
    /\ filter.image # None
    /\ AbortController(filter.controller)
    /\ hidden' = FALSE
    /\ ReplaceObjects(Adopts(filter.module), filter.image)
    /\ filter' = [ResetFilter(filter) EXCEPT !.isFiltering = FALSE, !.module = filter.module]
    /\ UNCHANGED <<runs, raster, cache, autoProcess>>

\* The Reset button.  The listener of $filterConfig asks for processing.
ResetButton ==
    /\ filter.isFiltering /\ ~filter.isProcessing
    /\ AbortController(filter.controller)
    /\ image' = ResetModules(filter)
    /\ filter' = [ResetFilter(filter) EXCEPT !.queued = @ \/ autoProcess]
    /\ UNCHANGED <<runs, raster, cache, layer, hidden, autoProcess>>
=============================================================================
