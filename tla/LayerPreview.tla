---------------------------- MODULE LayerPreview ----------------------------
(***************************************************************************)
(* What the canvas' filter and its object selection share: the layer they   *)
(* preview a change of, the rasterization of that layer, the processing     *)
(* runs they start and the image modules those runs put on the layer        *)
(* (features/controlLayers/konva/CanvasEntity/CanvasEntityObjectRenderer.ts,*)
(* CanvasObject/CanvasObjectImage.ts).                                      *)
(*                                                                          *)
(* A run is one call of processImmediate.  It awaits three times: for the   *)
(* rasterized layer, for its graph and for the result to be drawn; the user *)
(* acts in between.  What follows an await runs to the next one in one      *)
(* step.  Run r makes request r and shows image r.                          *)
(***************************************************************************)
EXTENDS GraphRequest

CONSTANTS
    MaxRuns,   \* bound: calls of processImmediate that get past their guards
    Configs,   \* the filter configs
    Prompts    \* the points, with the invert flag, of an object selection

None == 0

ASSUME LayerPreviewAssumption ==
    /\ MaxRuns \in Nat \ {0}
    /\ Requests = 1 .. MaxRuns
    /\ None \notin Configs \cup Prompts

Runs == Requests

VARIABLES
    runs,      \* per run: where it is, and the locals it keeps over an await
    image,     \* per run: where the CanvasObjectImage it made is
    raster,    \* $rasterizingAdapter: the run that rasterizes, or None
    cache,     \* the layer contents that imageNameCache knows
    layer,     \* what the layer's objects are: drawn (None) or an image
    hidden,    \* the layer's object group is hidden
    autoProcess \* the setting

layerVars == <<runs, image, raster, cache, layer, hidden, autoProcess>>

\* stage: the await it is in ("cached" and "rasterizing" are both the first).
Run == [stage : {"unused", "cached", "rasterizing", "running", "drawing", "ended"},
        by : {"nobody", "filter", "segment"}, input : Configs \cup Prompts \cup {None},
        content : {None} \cup Runs, old : {None} \cup Runs]

Unused == [stage |-> "unused", by |-> "nobody", input |-> None,
           content |-> None, old |-> None]

LayerTypeOK ==
    /\ runs \in [Runs -> Run]
    /\ image \in [Runs -> {"none", "detached", "shown", "adopted", "destroyed"}]
    /\ raster \in {None} \cup Runs
    /\ cache \subseteq {None} \cup Runs
    /\ layer \in {None} \cup Runs
    /\ hidden \in BOOLEAN
    /\ autoProcess \in BOOLEAN

LayerInit ==
    /\ runs = [r \in Runs |-> Unused]
    /\ image = [r \in Runs |-> "none"]
    /\ raster = None
    /\ cache = {}
    /\ layer = None
    /\ hidden = FALSE
    /\ autoProcess \in BOOLEAN

Active(r) == runs[r].stage \in {"cached", "rasterizing", "running", "drawing"}
NextRun(r) == runs[r].stage = "unused" /\ \A q \in 1 .. r - 1 : runs[q].stage # "unused"
EndRun(r) == runs' = [runs EXCEPT ![r] = [Unused EXCEPT !.stage = "ended", !.input = runs[r].input]]

\* A promise has settled and the run that awaits it has yet to go on: this
\* happens before any other task of the browser.
Continues(r) == runs[r].stage = "running" /\ Settled(r)

-----------------------------------------------------------------------------
\* renderer.rasterize up to its first await.  It throws if some entity is
\* rasterizing; it looks the layer up in the cache; else it takes the lock.
Rasterizes(r, by, input) ==
    /\ raster = None
    /\ NextRun(r)
    /\ LET known == layer \in cache IN
         /\ runs' = [runs EXCEPT ![r] =
                       [stage |-> IF known THEN "cached" ELSE "rasterizing",
                        by |-> by, input |-> input, content |-> layer, old |-> None]]
         /\ raster' = IF known THEN raster ELSE r

\* The cached image turns out to be gone: the layer is rasterized after all,
\* and the lock taken without another look at it.
CachedGone(r) ==
    /\ runs[r].stage = "cached"
    /\ runs' = [runs EXCEPT ![r].stage = "rasterizing"]
    /\ raster' = r
    /\ UNCHANGED <<graphVars, image, cache, layer, hidden, autoProcess>>

\* The rest of it: the cached image is there, or the new one is uploaded, its
\* name cached and the lock released, whoever holds it.
Rasterized(r) ==
    /\ runs[r].stage \in {"cached", "rasterizing"}
    /\ cache' = cache \cup {runs[r].content}
    /\ raster' = IF runs[r].stage = "rasterizing" THEN None ELSE raster

\* Fault: the lock is released on success only.
RasterizeFailsLocked(r) ==
    /\ runs[r].stage = "rasterizing"
    /\ UNCHANGED raster
    /\ EndRun(r)

\* Drawing, encoding or uploading fails; the finally block releases the lock.
RasterizeFails(r) ==
    /\ runs[r].stage = "rasterizing"
    /\ raster' = None
    /\ EndRun(r)

\* adoptObjectRenderer, then entityRasterized with replaceObjects and the
\* render it triggers: the layer keeps the renderer of its only object.
Adopts(module) ==
    IF module = None THEN image ELSE [image EXCEPT ![module] = "adopted"]

ReplaceObjects(modules, new) ==
    /\ layer' = new
    /\ image' = [r \in Runs |-> IF modules[r] = "adopted" /\ r # new
                                  THEN "destroyed" ELSE modules[r]]

Destroys(modules, r) == IF r = None THEN modules ELSE [modules EXCEPT ![r] = "destroyed"]
=============================================================================
