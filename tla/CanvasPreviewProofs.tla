------------------------ MODULE CanvasPreviewProofs ------------------------
(***************************************************************************)
(* Theorems about CanvasPreview, for any number of runs and any configs and *)
(* prompts.  A first part is about GraphRequest alone, under a caller that  *)
(* aborts no request it has not made; a second part shows that the filter   *)
(* and the object selection are such callers.                               *)
(***************************************************************************)
EXTENDS CanvasPreview, TLAPS

USE LayerPreviewAssumption, EntityFiltererAssumption

-----------------------------------------------------------------------------
(* The requests. *)

\* What the server and the users of its queue do.
QueueStep(r) ==
    \/ ServeEnqueue(r) \/ ServeStart(r) \/ ServeItem(r) \/ ServeCancel(r)
    \/ CancelItem(r) \/ DropItem(r)

\* What a step does to the requests, if the caller is such a one.
GraphStep ==
    \/ UNCHANGED graphVars
    \/ \E r \in Requests :
         \/ RunGraph(r) \/ EnqueueAnswered(r) \/ EnqueueFailed(r) \/ Deliver(r)
         \/ Fetched(r) \/ FetchFailed(r)
         \/ req[r].promise # "idle" /\ Abort(r)
         \/ QueueStep(r)

\* The types of the parts of one request.
LEMMA RequestTypes ==
    ASSUME GraphTypeOK, NEW r \in Requests
    PROVE  /\ req[r] \in Request
           /\ item[r] \in ItemStates
           /\ reply[r] \in {"none", "ok", "error"}
           /\ socket[r] \in Events
  BY DEF GraphTypeOK

LEMMA HandlerTypes ==
    ASSUME NEW q \in Request
    PROVE  /\ Rejected(q) \in Request
           /\ OutputHandler(q) \in Request
           /\ StatusHandler(q) \in Request
           /\ AbortListener(q) \in Request
  BY DEF Request, Rejected, OutputHandler, StatusHandler, AbortListener

LEMMA GraphTypes == GraphTypeOK /\ GraphStep => GraphTypeOK'
  <1> SUFFICES ASSUME GraphTypeOK, GraphStep PROVE GraphTypeOK'
    OBVIOUS
  <1>1. CASE UNCHANGED graphVars
    BY <1>1 DEF GraphTypeOK, graphVars
  <1>2. ASSUME NEW r \in Requests,
               \/ RunGraph(r) \/ EnqueueAnswered(r) \/ EnqueueFailed(r) \/ Deliver(r)
               \/ Fetched(r) \/ FetchFailed(r) \/ Abort(r)
        PROVE  GraphTypeOK'
    <2>1. req' \in [Requests -> Request]
      <3>1. req[r] \in Request /\ [req[r] EXCEPT !.fetching = FALSE] \in Request
        BY RequestTypes DEF Request
      <3>2. \E q \in Request : req' = [req EXCEPT ![r] = q]
        <4>1. CASE RunGraph(r)
          <5>1. [req[r] EXCEPT !.promise = "pending", !.listening = TRUE] \in Request
            BY <3>1 DEF Request
          <5> QED BY <4>1, <5>1 DEF RunGraph, GraphTypeOK
        <4>2. CASE EnqueueAnswered(r)
          <5>1. [req[r] EXCEPT !.cancelable = TRUE] \in Request
            BY <3>1 DEF Request
          <5> QED BY <4>2, <5>1 DEF EnqueueAnswered, GraphTypeOK
        <4>3. CASE EnqueueFailed(r)
          BY <3>1, <4>3, HandlerTypes DEF EnqueueFailed
        <4>4. CASE Deliver(r)
          BY <3>1, <4>4, HandlerTypes DEF Deliver
        <4>5. CASE Fetched(r)
          <5>1. [req[r] EXCEPT !.fetching = FALSE, !.didSuceed = TRUE,
                   !.promise = IF @ = "pending" THEN "image" ELSE @] \in Request
            BY <3>1 DEF Request
          <5> QED BY <4>5, <5>1 DEF Fetched, GraphTypeOK
        <4>6. CASE FetchFailed(r)
          BY <3>1, <4>6, HandlerTypes DEF FetchFailed
        <4>7. CASE Abort(r)
          BY <3>1, <4>7, HandlerTypes DEF Abort
        <4> QED BY <1>2, <4>1, <4>2, <4>3, <4>4, <4>5, <4>6, <4>7
      <3> QED BY <3>2 DEF GraphTypeOK
    <2>2. /\ item' \in [Requests -> ItemStates]
          /\ reply' \in [Requests -> {"none", "ok", "error"}]
          /\ cancels' \subseteq Requests
          /\ socket' \in [Requests -> Events]
      BY <1>2 DEF GraphTypeOK, RunGraph, EnqueueAnswered, EnqueueFailed, Deliver, Fetched,
                  FetchFailed, Abort, ItemStates, Events
    <2> QED BY <2>1, <2>2 DEF GraphTypeOK
  <1>3. ASSUME NEW r \in Requests, QueueStep(r)
        PROVE  GraphTypeOK'
    BY <1>3 DEF GraphTypeOK, QueueStep, ServeEnqueue, ServeStart, ServeItem, ServeCancel,
                  CancelItem, DropItem, Ends, ItemStates, Events
  <1> QED BY <1>1, <1>2, <1>3 DEF GraphStep

\* What a request's promise, its handlers, its item and the messages about it
\* have to do with one another.
Consistent(r) ==
    LET q == req[r] IN
    /\ q.promise = "idle" => /\ ~q.fetching /\ ~q.didSuceed /\ ~q.aborted
                             /\ item[r] = "none" /\ reply[r] = "none"
    /\ q.fetching \/ q.didSuceed => ~q.listening
    /\ q.promise = "image" => q.didSuceed
    /\ q.promise = "pending" => ~q.didSuceed /\ ~q.aborted
    /\ socket[r] = "output" \/ q.fetching \/ q.promise = "image" => item[r] = "completed"
    /\ reply[r] = "error" => item[r] = "none"
    /\ q.listening /\ Settled(r) => item[r] = "none" /\ q.promise = "error"

GraphInv == GraphTypeOK /\ \A r \in Requests : Consistent(r)

\* A step on request r leaves the others as they are.
OnlyRequest(r) ==
    \A s \in Requests \ {r} : req'[s] = req[s] /\ item'[s] = item[s]
                              /\ reply'[s] = reply[s] /\ socket'[s] = socket[s]

LEMMA OneRequest ==
    ASSUME GraphInv, GraphTypeOK', NEW r \in Requests, OnlyRequest(r), Consistent(r)'
    PROVE  GraphInv'
  <1>1. ASSUME NEW s \in Requests \ {r} PROVE Consistent(s)'
    BY DEF GraphInv, OnlyRequest, Consistent, Settled
  <1> QED BY <1>1 DEF GraphInv

LEMMA GraphInvKept == GraphInv /\ GraphStep => GraphInv'
  <1> SUFFICES ASSUME GraphInv, GraphStep PROVE GraphInv'
    OBVIOUS
  <1>1. GraphTypeOK'
    BY GraphTypes DEF GraphInv
  <1>2. CASE UNCHANGED graphVars
    BY <1>1, <1>2 DEF GraphInv, graphVars, Consistent, Settled
  <1>3. ASSUME NEW r \in Requests,
               \/ RunGraph(r) \/ EnqueueAnswered(r) \/ EnqueueFailed(r) \/ Deliver(r)
               \/ Fetched(r) \/ FetchFailed(r)
               \/ req[r].promise # "idle" /\ Abort(r)
               \/ QueueStep(r)
        PROVE  GraphInv'
    <2>1. /\ req[r] \in Request /\ item[r] \in ItemStates /\ socket[r] \in Events
          /\ DOMAIN req = Requests /\ DOMAIN item = Requests
          /\ DOMAIN reply = Requests /\ DOMAIN socket = Requests
      BY RequestTypes DEF GraphInv, GraphTypeOK
    <2>2. OnlyRequest(r)
      BY <1>3, <2>1 DEF OnlyRequest, RunGraph, EnqueueAnswered, EnqueueFailed, Deliver, Fetched,
                  FetchFailed, Abort, QueueStep, ServeEnqueue, ServeStart, ServeItem, ServeCancel,
                  CancelItem, DropItem, Ends
    <2>3. Consistent(r)
      BY DEF GraphInv
    <2>4. Consistent(r)'
      <3> USE <2>1, <2>3 DEF Consistent, Settled, Request
      <3>1. CASE RunGraph(r)
        BY <3>1 DEF RunGraph
      <3>2. CASE EnqueueAnswered(r)
        BY <3>2 DEF EnqueueAnswered
      <3>3. CASE EnqueueFailed(r)
        BY <3>3 DEF EnqueueFailed, Rejected
      <3>4. CASE Deliver(r)
        BY <3>4 DEF Deliver, OutputHandler, StatusHandler, Rejected, Events
      <3>5. CASE Fetched(r) \/ FetchFailed(r)
        <4>1. CASE Fetched(r)
          <5>1. req'[r] = [req[r] EXCEPT !.fetching = FALSE, !.didSuceed = TRUE,
                             !.promise = IF @ = "pending" THEN "image" ELSE @]
            BY <4>1 DEF Fetched
          <5> QED BY <4>1, <5>1 DEF Fetched
        <4>2. CASE FetchFailed(r)
          <5>1. req'[r] = Rejected([req[r] EXCEPT !.fetching = FALSE])
            BY <4>2 DEF FetchFailed
          <5> QED BY <4>2, <5>1 DEF FetchFailed, Rejected
        <4> QED BY <3>5, <4>1, <4>2
      <3>6. CASE req[r].promise # "idle" /\ Abort(r)
        BY <3>6 DEF Abort, AbortListener, Rejected
      <3>7. CASE QueueStep(r)
        BY <3>7 DEF QueueStep, ServeEnqueue, ServeStart, ServeItem, ServeCancel,
                  CancelItem, DropItem, Ends
      <3> QED BY <1>3, <3>1, <3>2, <3>3, <3>4, <3>5, <3>6, <3>7
    <2> QED BY <1>1, <2>2, <2>4, OneRequest
  <1> QED BY <1>2, <1>3 DEF GraphStep

\* What is over stays so: a call that was made, an image that was delivered,
\* an item whose output node completed.
LEMMA SettledStays ==
    ASSUME GraphInv, GraphStep, NEW r \in Requests
    PROVE  /\ req[r].promise # "idle" => req'[r].promise # "idle"
           /\ req[r].promise = "image" => req'[r].promise = "image"
           /\ item[r] = "completed" => item'[r] = "completed"
  <1>1. CASE UNCHANGED graphVars
    BY <1>1 DEF graphVars
  <1>2. ASSUME NEW q \in Requests,
               \/ RunGraph(q) \/ EnqueueAnswered(q) \/ EnqueueFailed(q) \/ Deliver(q)
               \/ Fetched(q) \/ FetchFailed(q) \/ Abort(q)
               \/ QueueStep(q)
        PROVE  /\ req[r].promise # "idle" => req'[r].promise # "idle"
               /\ req[r].promise = "image" => req'[r].promise = "image"
               /\ item[r] = "completed" => item'[r] = "completed"
    <2>1. req[q] \in Request /\ DOMAIN req = Requests /\ DOMAIN item = Requests
      BY RequestTypes DEF GraphInv, GraphTypeOK
    <2>2. CASE q # r
      BY <1>2, <2>1, <2>2 DEF RunGraph, EnqueueAnswered, EnqueueFailed, Deliver, Fetched,
         FetchFailed, Abort, QueueStep, ServeEnqueue, ServeStart, ServeItem, ServeCancel,
                  CancelItem, DropItem, Ends
    <2>3. CASE q = r
      <3>1. Consistent(q)
        BY DEF GraphInv
      <3>2. CASE RunGraph(q)
        BY <2>1, <2>3, <3>1, <3>2 DEF RunGraph, Consistent
      <3>3. CASE EnqueueAnswered(q) \/ EnqueueFailed(q)
        BY <2>1, <2>3, <3>3 DEF EnqueueAnswered, EnqueueFailed, Rejected, Request
      <3>4. CASE Deliver(q)
        BY <2>1, <2>3, <3>4 DEF Deliver, OutputHandler, StatusHandler, Rejected, Request
      <3>5. CASE Fetched(q)
        BY <2>1, <2>3, <3>5 DEF Fetched, Request
      <3>6. CASE FetchFailed(q)
        <4>1. req'[q] = Rejected([req[q] EXCEPT !.fetching = FALSE])
          BY <2>1, <3>6 DEF FetchFailed
        <4> QED BY <2>1, <2>3, <3>6, <4>1 DEF FetchFailed, Rejected, Request
      <3>7. CASE Abort(q)
        BY <2>1, <2>3, <3>7 DEF Abort, AbortListener, Rejected, Request
      <3>8. CASE QueueStep(q)
        BY <2>1, <2>3, <3>8 DEF QueueStep, ServeEnqueue, ServeStart, ServeItem, ServeCancel,
                  CancelItem, DropItem, Ends
      <3> QED BY <1>2, <3>2, <3>3, <3>4, <3>5, <3>6, <3>7, <3>8
    <2> QED BY <2>2, <2>3
  <1> QED BY <1>1, <1>2 DEF GraphStep

\* Only an abort cancels a graph, and only before its image was delivered.
LEMMA CancelsOnlyUnfinished ==
    ASSUME GraphInv, GraphStep, NEW r \in Requests, r \in cancels' \ cancels
    PROVE  req[r].promise # "image"
  <1>1. Abort(r)
    <2>1. PICK q \in Requests :
            \/ RunGraph(q) \/ EnqueueAnswered(q) \/ EnqueueFailed(q) \/ Deliver(q)
            \/ Fetched(q) \/ FetchFailed(q) \/ Abort(q)
            \/ QueueStep(q)
      BY DEF GraphStep, graphVars
    <2>2. Abort(q)
      BY <2>1 DEF RunGraph, EnqueueAnswered, EnqueueFailed, Deliver, Fetched, FetchFailed,
                  QueueStep, ServeEnqueue, ServeStart, ServeItem, ServeCancel,
                  CancelItem, DropItem, Ends
    <2>3. q = r
      BY <2>2 DEF Abort
    <2> QED BY <2>2, <2>3
  <1>2. CancelsGraph(req[r])
    BY <1>1 DEF Abort
  <1> QED BY <1>2 DEF CancelsGraph, GraphInv, Consistent

-----------------------------------------------------------------------------
(* The promise's contract. *)

LEMMA PromiseInit == GraphInit => Promise!Init
  BY DEF GraphInit, Promise!Init

\* Each step on a request is one that its caller was promised, or none that
\* the caller can see.
LEMMA PromiseStep == GraphInv /\ GraphStep => [Promise!Next]_(Promise!vars)
  <1> SUFFICES ASSUME GraphInv, GraphStep PROVE [Promise!Next]_(Promise!vars)
    OBVIOUS
  <1> DEFINE promise == [r \in Requests |-> req[r].promise]
             produced == {r \in Requests : item[r] = "completed"}
             aborted == {r \in Requests : req[r].aborted}
  <1>1. CASE UNCHANGED graphVars
    BY <1>1 DEF graphVars, Promise!vars
  <1>2. ASSUME NEW r \in Requests,
               \/ RunGraph(r) \/ EnqueueAnswered(r) \/ EnqueueFailed(r) \/ Deliver(r)
               \/ Fetched(r) \/ FetchFailed(r)
               \/ req[r].promise # "idle" /\ Abort(r)
        PROVE  [Promise!Next]_(Promise!vars)
    <2>1. /\ req[r] \in Request /\ DOMAIN req = Requests
          /\ Consistent(r) /\ req' \in [Requests -> Request]
      BY RequestTypes, GraphInvKept DEF GraphInv, GraphTypeOK
    <2>2. \A s \in Requests \ {r} : req'[s] = req[s]
      BY <1>2, <2>1 DEF RunGraph, EnqueueAnswered, EnqueueFailed, Deliver, Fetched, FetchFailed, Abort
    <2>3. produced' = produced
      BY <1>2, <2>1 DEF RunGraph, EnqueueAnswered, EnqueueFailed, Deliver, Fetched, FetchFailed,
                  Abort, Consistent, GraphInv, GraphTypeOK
    <2>4. promise' = [promise EXCEPT ![r] = req'[r].promise]
      BY <2>2
    <2>5. aborted' = IF req'[r].aborted THEN aborted \cup {r} ELSE aborted \ {r}
      BY <2>2
    <2>6. CASE req'[r].promise = req[r].promise /\ req'[r].aborted = req[r].aborted
      BY <2>3, <2>4, <2>5, <2>6 DEF Promise!vars
    <2>7. CASE req[r].promise = "idle" /\ req'[r].promise = "pending"
               /\ req'[r].aborted = req[r].aborted
      BY <2>3, <2>4, <2>5, <2>7 DEF Promise!Next, Promise!Call
    <2>8. CASE /\ req[r].promise = "pending" /\ req'[r].promise = "image"
               /\ item[r] = "completed" /\ ~req[r].aborted /\ ~req'[r].aborted
      BY <2>3, <2>4, <2>5, <2>8 DEF Promise!Next, Promise!Resolve
    <2>9. CASE /\ req[r].promise = "pending" /\ req'[r].promise = "error"
               /\ req[r].aborted => req'[r].aborted
      BY <2>3, <2>4, <2>5, <2>9 DEF Promise!Next, Promise!Reject
    <2>10. CASE /\ req[r].promise \in {"image", "error"} /\ req'[r].promise = req[r].promise
                /\ req'[r].aborted
      <3>1. promise' = promise
        BY <2>4, <2>10
      <3> QED BY <2>3, <2>5, <2>10, <3>1 DEF Promise!Next, Promise!AbortSettled
    <2>11. CASE RunGraph(r)
      BY <2>1, <2>7, <2>11 DEF RunGraph, Request
    <2>12. CASE EnqueueAnswered(r)
      BY <2>1, <2>6, <2>12 DEF EnqueueAnswered, Request
    <2>13. CASE EnqueueFailed(r)
      BY <2>1, <2>6, <2>9, <2>13 DEF EnqueueFailed, Rejected, Request
    <2>14. CASE Deliver(r)
      BY <2>1, <2>6, <2>9, <2>14 DEF Deliver, OutputHandler, StatusHandler, Rejected, Request
    <2>15. CASE Fetched(r)
      BY <2>1, <2>6, <2>8, <2>15 DEF Fetched, Request, Consistent
    <2>16. CASE FetchFailed(r)
      <3>1. req'[r] = Rejected([req[r] EXCEPT !.fetching = FALSE])
        BY <2>1, <2>16 DEF FetchFailed
      <3> QED BY <2>1, <2>6, <2>9, <3>1 DEF Rejected, Request
    <2>17. CASE req[r].promise # "idle" /\ Abort(r)
      <3>1. CASE req[r].aborted
        BY <2>1, <2>6, <2>17, <3>1 DEF Abort
      <3>2. CASE ~req[r].aborted
        <4>1. req'[r] = AbortListener(req[r]) /\ req[r].promise # "idle"
          BY <2>1, <2>17, <3>2 DEF Abort
        <4>2. /\ req'[r].aborted
              /\ req'[r].promise = IF req[r].promise = "pending" THEN "error" ELSE req[r].promise
          BY <2>1, <4>1 DEF AbortListener, Rejected, Request, Consistent
        <4>3. req[r].promise \in {"pending", "image", "error"}
          BY <2>1, <4>1 DEF Request
        <4> QED BY <2>9, <2>10, <4>2, <4>3
      <3> QED BY <3>1, <3>2
    <2> QED BY <1>2, <2>11, <2>12, <2>13, <2>14, <2>15, <2>16, <2>17
  <1>3. ASSUME NEW r \in Requests, QueueStep(r)
        PROVE  [Promise!Next]_(Promise!vars)
    <2>1. promise' = promise /\ aborted' = aborted
      BY <1>3 DEF QueueStep, ServeEnqueue, ServeStart, ServeItem, ServeCancel,
                  CancelItem, DropItem, Ends
    <2>2. CASE produced' = produced
      BY <2>1, <2>2 DEF Promise!vars
    <2>3. CASE produced' = produced \cup {r} /\ req[r].promise # "idle"
      BY <2>1, <2>3 DEF Promise!Next, Promise!Produce
    <2>4. CASE \/ ServeEnqueue(r) \/ ServeStart(r) \/ ServeCancel(r) \/ CancelItem(r)
               \/ DropItem(r)
      BY <1>3, <2>2, <2>4 DEF ServeEnqueue, ServeStart, ServeCancel, CancelItem, DropItem, Ends,
                  GraphInv, GraphTypeOK
    <2>5. CASE ServeItem(r)
      <3>1. req[r].promise # "idle" /\ DOMAIN item = Requests
        BY <2>5 DEF ServeItem, GraphInv, GraphTypeOK, Consistent
      <3> QED BY <2>2, <2>3, <2>5, <3>1 DEF ServeItem, Ends
    <2> QED BY <1>3, <2>4, <2>5 DEF QueueStep
  <1> QED BY <1>1, <1>2, <1>3 DEF GraphStep

-----------------------------------------------------------------------------
(* The filter and the object selection. *)

\* A request that a run awaits, or whose controller is kept, was made.
CallInv ==
    /\ \A r \in Runs : runs[r].stage \in {"running", "drawing"} => req[r].promise # "idle"
    /\ \A r \in {filter.controller, segment.controller} \ {None} : req[r].promise # "idle"

\* An object selection that processes is open.
ProcessesOpen == segment.isProcessing => segment.isSegmenting

\* A run of the filter processes a config, one of the object selection a prompt.
InputInv ==
    \A r \in Runs : /\ runs[r].by = "filter" => runs[r].input \in Configs
                    /\ runs[r].by = "segment" => runs[r].input \in Prompts

\* A run of the filter that will clear isProcessing: it awaits its graph, or
\* the drawing of a module that the filter still knows.
WillClear(r) ==
    /\ runs[r].by = "filter"
    /\ \/ runs[r].stage = "running"
       \/ runs[r].stage = "drawing" /\ filter.module # None

ClearedLater == filter.isProcessing => \E r \in Runs : WillClear(r)

IInv ==
    /\ TypeOK
    /\ GraphInv
    /\ CallInv
    /\ RasterReleased
    /\ ClearedLater
    /\ SegmentSerial
    /\ ProcessesOpen
    /\ InputInv

LEMMA InitIInv == Init => IInv
  <1> SUFFICES ASSUME Init PROVE IInv
    OBVIOUS
  <1> USE DEF Init, GraphInit, LayerInit, FilterInit, SegmentInit, None, Runs
  <1>1. GraphTypeOK
    BY DEF GraphTypeOK, Request, ItemStates, Events
  <1>2. LayerTypeOK
    BY DEF LayerTypeOK, Run, Unused
  <1>3. filter \in Filter /\ segment \in Segment
    BY DEF Filter, Segment
  <1>4. GraphInv
    BY <1>1 DEF GraphInv, Consistent, Settled
  <1>5. CallInv /\ RasterReleased /\ ClearedLater /\ ProcessesOpen /\ InputInv
    BY DEF CallInv, InputInv, Unused, RasterReleased, ClearedLater, ProcessesOpen
  <1>6. SegmentSerial
    BY DEF SegmentSerial, Active, Unused
  <1> QED BY <1>1, <1>2, <1>3, <1>4, <1>5, <1>6 DEF IInv, TypeOK

\* Whatever happens to the canvas, what happens to the requests is a step of
\* a caller that aborts no request it has not made.
LEMMA CallerStep == TypeOK /\ CallInv /\ Next => GraphStep
  <1> SUFFICES ASSUME TypeOK, CallInv, Next PROVE GraphStep
    OBVIOUS
  <1> USE DEF Runs
  <1>1. filter.controller \in {None} \cup Runs /\ segment.controller \in {None} \cup Runs
    BY DEF TypeOK, Filter, Segment
  <1>2. ASSUME AbortController(filter.controller) PROVE GraphStep
    BY <1>1, <1>2 DEF AbortController, GraphStep, CallInv
  <1>3. ASSUME AbortSegmentation PROVE GraphStep
    BY <1>1, <1>3 DEF AbortSegmentation, GraphStep, CallInv
  <1>4. ASSUME NEW r \in Runs, Continue(r) PROVE GraphStep
    BY <1>3, <1>4 DEF Continue, Continues, FilterFailed, FilterImage, SegmentFailed, SegmentImage,
       GraphStep, CallInv
  <1>5. CASE Graph
    BY <1>5 DEF Graph, GraphNext, Server, QueueUser, Client, GraphStep, QueueStep
  <1>6. CASE Due
    BY <1>6 DEF Due, ProcessDue, SegmentDue, GraphStep
  <1>7. CASE UseFilter
    BY <1>2, <1>7 DEF UseFilter, StartFilter, SetFilterConfig, ProcessButton, CancelFilter,
       ApplyFilter, ResetButton, TeardownFilter, GraphStep
  <1>8. CASE UseSegment
    BY <1>3, <1>8 DEF UseSegment, StartSegment, SetPrompt, SegmentButton, CancelSegment,
       ApplySegment, SaveSegment, ResetSegmentButton, GraphStep
  <1>9. CASE ToggleAutoProcess
    BY <1>9 DEF ToggleAutoProcess, GraphStep
  <1>10. ASSUME NEW r \in Runs, Resume(r) PROVE GraphStep
    BY <1>3, <1>10 DEF Resume, FilterRasterized, FilterDrawn, SegmentRasterized, SegmentDrawn,
       GraphStep, CallInv
  <1>11. ASSUME NEW r \in Runs, Fails(r) PROVE GraphStep
    BY <1>11 DEF Fails, FilterGraphFails, FilterRasterizeFails, SegmentRasterizeFails, CachedGone, GraphStep
  <1> QED BY <1>4, <1>5, <1>6, <1>7, <1>8, <1>9, <1>10, <1>11 DEF Next

\* What a step does to a run that it goes on with, and to the lock of the
\* rasterization.
RunMove(r) ==
    \/ /\ runs[r].stage = "cached"
       /\ runs' = [runs EXCEPT ![r].stage = "rasterizing"]
       /\ raster' = r
    \/ /\ Rasterized(r) /\ RunGraph(r)
       /\ runs' = [runs EXCEPT ![r].stage = "running"]
    \/ RasterizeFails(r)
    \/ Rasterized(r) /\ EndRun(r)
    \/ /\ runs[r].stage \in {"running", "drawing"}
       /\ UNCHANGED raster
       /\ \/ EndRun(r)
          \/ \E old \in {None} \cup Runs :
               runs' = [runs EXCEPT ![r].stage = "drawing", ![r].old = old]

RunStep ==
    \/ UNCHANGED <<runs, raster>>
    \/ \E r \in Runs, config \in Configs : Rasterizes(r, "filter", config)
    \/ \E r \in Runs, prompt \in Prompts : Rasterizes(r, "segment", prompt)
    \/ \E r \in Runs : RunMove(r)

LEMMA RunSteps == TypeOK /\ Next => RunStep
  <1> SUFFICES ASSUME TypeOK, Next PROVE RunStep
    OBVIOUS
  <1>1. /\ filter \in Filter /\ segment \in Segment
        /\ runs \in [Runs -> Run]
    BY DEF TypeOK, LayerTypeOK
  <1>2. ASSUME NEW f, f.config \in Configs, ProcessFilter(f) PROVE RunStep
    BY <1>2 DEF ProcessFilter, RunStep, RunMove
  <1>3. ASSUME NEW s, s.prompt \in Prompts \cup {None}, ProcessSegment(s) PROVE RunStep
    BY <1>3 DEF ProcessSegment, RunStep, RunMove
  <1>4. ASSUME NEW r \in Runs, Continue(r) PROVE RunStep
    <2>1. runs[r].stage = "running" /\ runs[r] \in Run
      BY <1>1, <1>4 DEF Continue, Continues
    <2>2. CASE FilterFailed(r) \/ SegmentFailed(r)
      BY <2>1, <2>2 DEF FilterFailed, SegmentFailed, RunStep, RunMove
    <2>3. CASE FilterImage(r)
      BY <1>1, <2>1, <2>3 DEF FilterImage, RunStep, RunMove, Filter
    <2>4. CASE SegmentImage(r)
      <3>1. runs' = [runs EXCEPT ![r].stage = "drawing", ![r].old = runs[r].old]
        BY <1>1, <2>1, <2>4 DEF SegmentImage, Run
      <3>2. runs[r].old \in {None} \cup Runs
        BY <2>1 DEF Run
      <3> QED BY <2>1, <2>4, <3>1, <3>2 DEF SegmentImage, RunStep, RunMove
    <2> QED BY <1>4, <2>2, <2>3, <2>4 DEF Continue
  <1>5. CASE Graph \/ ToggleAutoProcess
    BY <1>5 DEF Graph, ToggleAutoProcess, layerVars, RunStep, RunMove
  <1>6. CASE Due
    <2>1. CASE ProcessDue
      BY <1>1, <1>2, <2>1 DEF ProcessDue, Filter
    <2>2. CASE SegmentDue
      BY <1>1, <1>3, <2>2 DEF SegmentDue, Segment
    <2> QED BY <1>6, <2>1, <2>2 DEF Due
  <1>7. CASE UseFilter
    <2>1. ASSUME NEW config \in Configs, StartFilter(config) PROVE RunStep
      <3> DEFINE f == [ResetFilter(filter) EXCEPT !.isFiltering = TRUE,
                         !.config = config, !.initial = config]
      <3>1. f.config = config
        BY <1>1 DEF ResetFilter, Filter
      <3>2. ProcessFilter(f) \/ UNCHANGED <<runs, raster>>
        BY <2>1 DEF StartFilter
      <3> HIDE DEF f
      <3> QED BY <1>2, <3>1, <3>2 DEF RunStep, RunMove
    <2>2. CASE ProcessButton
      BY <1>1, <1>2, <2>2 DEF ProcessButton, Filter
    <2>3. CASE CancelFilter \/ ApplyFilter \/ ResetButton \/ \E config \in Configs : SetFilterConfig(config)
      BY <2>3 DEF CancelFilter, ApplyFilter, ResetButton, SetFilterConfig, layerVars, RunStep, RunMove
    <2> QED BY <1>7, <2>1, <2>2, <2>3 DEF UseFilter
  <1>8. CASE UseSegment
    <2>1. CASE SegmentButton
      BY <1>1, <1>3, <2>1 DEF SegmentButton, Segment
    <2>2. ASSUME \/ StartSegment(isBusy) \/ CancelSegment \/ ApplySegment \/ SaveSegment
                 \/ ResetSegmentButton \/ \E prompt \in Prompts : SetPrompt(prompt)
          PROVE  RunStep
      BY <2>2 DEF StartSegment, CancelSegment, ApplySegment, SaveSegment, ResetSegmentButton,
         SetPrompt, layerVars, RunStep, RunMove
    <2> QED BY <1>8, <2>1, <2>2 DEF UseSegment
  <1>9. ASSUME NEW r \in Runs, Resume(r) PROVE RunStep
    BY <1>9 DEF Resume, FilterRasterized, FilterDrawn, SegmentRasterized, SegmentDrawn, RunStep, RunMove
  <1>10. ASSUME NEW r \in Runs, Fails(r) PROVE RunStep
    <2>1. RunMove(r)
      BY <1>10 DEF Fails, FilterGraphFails, FilterRasterizeFails, SegmentRasterizeFails,
         CachedGone, RunMove
    <2> QED BY <2>1 DEF RunStep
  <1> QED BY <1>4, <1>5, <1>6, <1>7, <1>8, <1>9, <1>10 DEF Next

LEMMA RunTypes ==
    ASSUME TypeOK, RunStep
    PROVE  runs' \in [Runs -> Run] /\ raster' \in {None} \cup Runs
  <1>1. /\ runs \in [Runs -> Run] /\ raster \in {None} \cup Runs
        /\ layer \in {None} \cup Runs
    BY DEF TypeOK, LayerTypeOK
  <1>2. CASE UNCHANGED <<runs, raster>>
    BY <1>1, <1>2
  <1>3. ASSUME NEW r \in Runs, NEW by \in {"filter", "segment"},
               NEW input \in Configs \cup Prompts, Rasterizes(r, by, input)
        PROVE  runs' \in [Runs -> Run] /\ raster' \in {None} \cup Runs
    <2>1. \A stage \in {"cached", "rasterizing"} :
            [stage |-> stage, by |-> by, input |-> input, content |-> layer, old |-> None] \in Run
      BY <1>1 DEF Run
    <2> QED BY <1>1, <1>3, <2>1 DEF Rasterizes
  <1>4. ASSUME NEW r \in Runs, NEW q \in Run, runs' = [runs EXCEPT ![r] = q],
               raster' \in {raster, None, r}
        PROVE  runs' \in [Runs -> Run] /\ raster' \in {None} \cup Runs
    BY <1>1, <1>4
  <1>5. ASSUME NEW r \in Runs
        PROVE  /\ [Unused EXCEPT !.stage = "ended", !.input = runs[r].input] \in Run
               /\ \A stage \in {"rasterizing", "running"} :
                    [runs[r] EXCEPT !.stage = stage] \in Run
               /\ \A old \in {None} \cup Runs :
                    [runs[r] EXCEPT !.stage = "drawing", !.old = old] \in Run
    <2>1. runs[r] \in Run
      BY <1>1
    <2> QED BY <2>1 DEF Run, Unused
  <1>6. ASSUME NEW r \in Runs, runs' = [runs EXCEPT ![r].stage = "rasterizing"], raster' = r
        PROVE  runs' \in [Runs -> Run] /\ raster' \in {None} \cup Runs
    BY <1>4, <1>5, <1>6
  <1>7. ASSUME NEW r \in Runs, Rasterized(r), runs' = [runs EXCEPT ![r].stage = "running"]
        PROVE  runs' \in [Runs -> Run] /\ raster' \in {None} \cup Runs
    BY <1>4, <1>5, <1>7 DEF Rasterized
  <1>8. ASSUME NEW r \in Runs, EndRun(r), raster' \in {raster, None}
        PROVE  runs' \in [Runs -> Run] /\ raster' \in {None} \cup Runs
    BY <1>4, <1>5, <1>8 DEF EndRun
  <1>9. ASSUME NEW r \in Runs, UNCHANGED raster, NEW old \in {None} \cup Runs,
               runs' = [runs EXCEPT ![r].stage = "drawing", ![r].old = old]
        PROVE  runs' \in [Runs -> Run] /\ raster' \in {None} \cup Runs
    <2> DEFINE q == [runs[r] EXCEPT !.stage = "drawing", !.old = old]
    <2>1. q \in Run
      BY <1>5
    <2>2. runs' = [runs EXCEPT ![r] = q]
      BY <1>9
    <2> HIDE DEF q
    <2> QED BY <1>4, <1>9, <2>1, <2>2
  <1>10. ASSUME NEW r \in Runs, RunMove(r)
         PROVE  runs' \in [Runs -> Run] /\ raster' \in {None} \cup Runs
    <2>1. CASE Rasterized(r) /\ runs' = [runs EXCEPT ![r].stage = "running"]
      BY <1>7, <2>1
    <2>2. CASE RasterizeFails(r) \/ (Rasterized(r) /\ EndRun(r))
      BY <1>8, <2>2 DEF RasterizeFails, Rasterized
    <2>3. CASE /\ UNCHANGED raster
               /\ \/ EndRun(r)
                  \/ \E old \in {None} \cup Runs :
                       runs' = [runs EXCEPT ![r].stage = "drawing", ![r].old = old]
      <3>1. CASE EndRun(r)
        BY <1>8, <2>3, <3>1
      <3>2. CASE \E old \in {None} \cup Runs :
                   runs' = [runs EXCEPT ![r].stage = "drawing", ![r].old = old]
        <4>1. PICK old \in {None} \cup Runs :
                runs' = [runs EXCEPT ![r].stage = "drawing", ![r].old = old]
          BY <3>2
        <4> QED BY <1>9, <2>3, <4>1
      <3> QED BY <2>3, <3>1, <3>2
    <2>4. CASE runs' = [runs EXCEPT ![r].stage = "rasterizing"] /\ raster' = r
      BY <1>6, <2>4
    <2> QED BY <1>10, <2>1, <2>2, <2>3, <2>4, Zenon DEF RunMove
  <1> QED BY <1>2, <1>3, <1>10 DEF RunStep

LEMMA ProcessTypes ==
    /\ \A f \in Filter : ProcessFilter(f) => filter' \in Filter
    /\ \A s \in Segment : ProcessSegment(s) => segment' \in Segment
  BY DEF ProcessFilter, ProcessSegment, Filter, Segment

LEMMA InputInvKept == TypeOK /\ InputInv /\ RunStep => InputInv'
  <1> SUFFICES ASSUME TypeOK, InputInv, RunStep, NEW r \in Runs
               PROVE  /\ runs'[r].by = "filter" => runs'[r].input \in Configs
                      /\ runs'[r].by = "segment" => runs'[r].input \in Prompts
    BY DEF InputInv, Runs
  <1>1. runs \in [Runs -> Run]
    BY DEF TypeOK, LayerTypeOK
  <1>2. CASE UNCHANGED <<runs, raster>>
    BY <1>2 DEF InputInv
  <1>3. ASSUME NEW q \in Runs, \/ \E config \in Configs : Rasterizes(q, "filter", config)
                               \/ \E prompt \in Prompts : Rasterizes(q, "segment", prompt)
        PROVE  /\ runs'[r].by = "filter" => runs'[r].input \in Configs
               /\ runs'[r].by = "segment" => runs'[r].input \in Prompts
    BY <1>1, <1>3 DEF Rasterizes, InputInv
  <1>4. ASSUME NEW q \in Runs, RunMove(q)
        PROVE  /\ runs'[r].by = "filter" => runs'[r].input \in Configs
               /\ runs'[r].by = "segment" => runs'[r].input \in Prompts
    <2>1. \/ runs'[r].by = "nobody"
          \/ runs'[r].by = runs[r].by /\ runs'[r].input = runs[r].input
      <3>1. ASSUME EndRun(q)
            PROVE  \/ runs'[r].by = "nobody"
                   \/ runs'[r].by = runs[r].by /\ runs'[r].input = runs[r].input
        BY <1>1, <3>1 DEF EndRun, Unused
      <3>2. ASSUME NEW stage, \/ runs' = [runs EXCEPT ![q].stage = stage]
                              \/ \E old : runs' = [runs EXCEPT ![q].stage = stage, ![q].old = old]
            PROVE  runs'[r].by = runs[r].by /\ runs'[r].input = runs[r].input
        BY <1>1, <3>2 DEF Run
      <3> QED BY <1>4, <3>1, <3>2 DEF RunMove, RasterizeFails
    <2> QED BY <2>1 DEF InputInv
  <1> QED BY <1>2, <1>3, <1>4 DEF RunStep

LEMMA FilterTypes == TypeOK /\ InputInv /\ Next => filter' \in Filter
  <1> SUFFICES ASSUME TypeOK, InputInv, Next PROVE filter' \in Filter
    OBVIOUS
  <1>1. /\ filter \in Filter /\ runs \in [Runs -> Run]
        /\ runs' \in [Runs -> Run]
    BY RunTypes, RunSteps DEF TypeOK, LayerTypeOK
  <1>2. ResetFilter(filter) \in Filter
    BY <1>1 DEF ResetFilter, Filter
  <1>3. ASSUME NEW r \in Runs, Continue(r) PROVE filter' \in Filter
    BY <1>1, <1>3 DEF Continue, FilterFailed, FilterImage, Filter
  <1>4. CASE Graph \/ ToggleAutoProcess
    BY <1>1, <1>4 DEF Graph, ToggleAutoProcess, Filter
  <1>5. CASE Due
    <2>1. [filter EXCEPT !.queued = FALSE] \in Filter
      BY <1>1 DEF Filter
    <2> QED BY <1>1, <1>5, <2>1, ProcessTypes DEF Due, ProcessDue
  <1>6. CASE UseFilter
    <2>1. ASSUME NEW config \in Configs, StartFilter(config) PROVE filter' \in Filter
      <3> DEFINE f == [ResetFilter(filter) EXCEPT !.isFiltering = TRUE,
                         !.config = config, !.initial = config]
      <3>1. f \in Filter
        BY <1>2 DEF Filter
      <3>2. ProcessFilter(f) \/ filter' = f
        BY <2>1 DEF StartFilter
      <3> HIDE DEF f
      <3> QED BY <3>1, <3>2, ProcessTypes
    <2>2. CASE ProcessButton
      BY <1>1, <2>2, ProcessTypes DEF ProcessButton
    <2>3. CASE CancelFilter \/ ResetButton
      BY <1>1, <1>2, <2>3 DEF CancelFilter, TeardownFilter, ResetButton, Filter
    <2>4. CASE ApplyFilter
      BY <1>1, <1>2, <2>4 DEF ApplyFilter, Filter
    <2>5. ASSUME NEW config \in Configs, SetFilterConfig(config) PROVE filter' \in Filter
      BY <1>1, <2>5 DEF SetFilterConfig, Filter
    <2> QED BY <1>6, <2>1, <2>2, <2>3, <2>4, <2>5 DEF UseFilter
  <1>7. CASE UseSegment
    BY <1>1, <1>7 DEF UseSegment
  <1>8. ASSUME NEW r \in Runs, Resume(r) PROVE filter' \in Filter
    BY <1>1, <1>8 DEF Resume, FilterRasterized, FilterDrawn, Filter, InputInv
  <1>9. ASSUME NEW r \in Runs, Fails(r) PROVE filter' \in Filter
    BY <1>1, <1>9 DEF Fails, FilterGraphFails, FilterRasterizeFails, Filter
  <1> QED BY <1>3, <1>4, <1>5, <1>6, <1>7, <1>8, <1>9 DEF Next

LEMMA SegmentTypes == TypeOK /\ InputInv /\ Next => segment' \in Segment
  <1> SUFFICES ASSUME TypeOK, InputInv, Next PROVE segment' \in Segment
    OBVIOUS
  <1>1. segment \in Segment
    BY DEF TypeOK
  <1>2. ResetSegment(segment) \in Segment
    BY <1>1 DEF ResetSegment, Segment
  <1>3. ASSUME NEW r \in Runs, Continue(r) PROVE segment' \in Segment
    BY <1>1, <1>3 DEF Continue, SegmentFailed, SegmentImage, Segment
  <1>4. CASE Graph \/ ToggleAutoProcess
    BY <1>1, <1>4 DEF Graph, ToggleAutoProcess, Segment
  <1>5. CASE Due
    <2>1. [segment EXCEPT !.queued = FALSE] \in Segment
      BY <1>1 DEF Segment
    <2> QED BY <1>1, <1>5, <2>1, ProcessTypes DEF Due, SegmentDue
  <1>6. CASE UseFilter
    BY <1>1, <1>6 DEF UseFilter
  <1>7. CASE UseSegment
    <2>1. CASE StartSegment(isBusy) \/ CancelSegment \/ ApplySegment \/ ResetSegmentButton
      BY <1>1, <1>2, <2>1 DEF StartSegment, CancelSegment, ApplySegment, TeardownSegment,
         ResetSegmentButton, Segment
    <2>2. CASE SegmentButton
      BY <1>1, <2>2, ProcessTypes DEF SegmentButton
    <2>3. CASE SaveSegment
      BY <1>1, <2>3 DEF SaveSegment
    <2>4. ASSUME NEW prompt \in Prompts, SetPrompt(prompt) PROVE segment' \in Segment
      BY <1>1, <2>4 DEF SetPrompt, Segment
    <2> QED BY <1>7, <2>1, <2>2, <2>3, <2>4 DEF UseSegment
  <1>8. ASSUME NEW r \in Runs, Resume(r) PROVE segment' \in Segment
    BY <1>1, <1>8 DEF Resume, SegmentRasterized, SegmentDrawn, Segment, InputInv
  <1>9. ASSUME NEW r \in Runs, Fails(r) PROVE segment' \in Segment
    BY <1>1, <1>9 DEF Fails, SegmentRasterizeFails, Segment
  <1> QED BY <1>3, <1>4, <1>5, <1>6, <1>7, <1>8, <1>9 DEF Next

\* The image modules, the layer and what is known of it.
LayerRestTypeOK ==
    /\ image \in [Runs -> {"none", "detached", "shown", "adopted", "destroyed"}]
    /\ cache \subseteq {None} \cup Runs
    /\ layer \in {None} \cup Runs
    /\ hidden \in BOOLEAN
    /\ autoProcess \in BOOLEAN

LEMMA LayerRestTypes == TypeOK /\ Next => LayerRestTypeOK'
  <1> SUFFICES ASSUME TypeOK, Next PROVE LayerRestTypeOK'
    OBVIOUS
  <1> DEFINE Images == [Runs -> {"none", "detached", "shown", "adopted", "destroyed"}]
  <1>1. LayerRestTypeOK /\ filter \in Filter /\ segment \in Segment /\ image \in Images
        /\ runs \in [Runs -> Run]
    BY DEF TypeOK, LayerTypeOK, LayerRestTypeOK
  <1>2. ASSUME NEW m \in Images, NEW r
        PROVE  /\ \A at \in {"detached", "shown", "adopted", "destroyed"} :
                    [m EXCEPT ![r] = at] \in Images
               /\ Destroys(m, r) \in Images
    BY DEF Destroys
  <1>3. ResetModules(filter) \in Images
    BY <1>1 DEF ResetModules
  <1>4. ASSUME NEW r \in Runs, Continue(r) PROVE LayerRestTypeOK'
    <2>1. [Destroys(image, segment.module) EXCEPT ![r] = "detached"] \in Images
          /\ [image EXCEPT ![r] = "detached"] \in Images
      BY <1>1, <1>2
    <2> QED BY <1>1, <1>4, <2>1 DEF Continue, FilterFailed, FilterImage, SegmentFailed, SegmentImage,
            LayerRestTypeOK
  <1>5. CASE Graph \/ ToggleAutoProcess
    BY <1>1, <1>5 DEF Graph, ToggleAutoProcess, layerVars, LayerRestTypeOK
  <1>6. CASE Due
    BY <1>1, <1>6 DEF Due, ProcessDue, SegmentDue, LayerRestTypeOK
  <1>7. CASE UseFilter
    <2>1. CASE CancelFilter \/ ResetButton \/ \E config \in Configs : StartFilter(config)
      BY <1>1, <1>3, <2>1 DEF CancelFilter, TeardownFilter, ResetButton, StartFilter, LayerRestTypeOK
    <2>2. CASE ProcessButton \/ \E config \in Configs : SetFilterConfig(config)
      BY <1>1, <2>2 DEF ProcessButton, SetFilterConfig, layerVars, LayerRestTypeOK
    <2>3. CASE ApplyFilter
      <3>1. Adopts(filter.module) \in Images /\ filter.image \in {None} \cup Runs
        BY <1>1 DEF Adopts, Filter
      <3> QED BY <1>1, <2>3, <3>1 DEF ApplyFilter, ReplaceObjects, LayerRestTypeOK
    <2> QED BY <1>7, <2>1, <2>2, <2>3 DEF UseFilter
  <1>8. CASE UseSegment
    <2>1. ASSUME \/ StartSegment(isBusy) \/ CancelSegment \/ ResetSegmentButton \/ SegmentButton
                 \/ \E prompt \in Prompts : SetPrompt(prompt)
          PROVE  LayerRestTypeOK'
      BY <1>1, <2>1 DEF StartSegment, CancelSegment, ResetSegmentButton, SegmentButton, SetPrompt,
         layerVars, LayerRestTypeOK
    <2>2. CASE ApplySegment
      <3>1. segment.image \in {None} \cup Runs
        BY <1>1 DEF Segment
      <3> QED BY <1>1, <2>2, <3>1 DEF ApplySegment, ReplaceObjects, LayerRestTypeOK
    <2>3. CASE SaveSegment
      BY <1>1, <2>3 DEF SaveSegment, Adopts, LayerRestTypeOK
    <2> QED BY <1>8, <2>1, <2>2, <2>3 DEF UseSegment
  <1>9. ASSUME NEW r \in Runs, Resume(r) PROVE LayerRestTypeOK'
    <2>1. CASE FilterRasterized(r) \/ SegmentRasterized(r)
      <3>1. runs[r].content \in {None} \cup Runs
        BY <1>1 DEF Run
      <3> QED BY <1>1, <2>1, <3>1 DEF FilterRasterized, SegmentRasterized, Rasterized, LayerRestTypeOK
    <2>2. CASE FilterDrawn(r)
      <3>1. /\ [image EXCEPT ![filter.module] = "shown"] \in Images
            /\ Destroys([image EXCEPT ![filter.module] = "shown"], runs[r].old) \in Images
        BY <1>1, <1>2
      <3> QED BY <1>1, <2>2, <3>1 DEF FilterDrawn, LayerRestTypeOK
    <2>3. CASE SegmentDrawn(r)
      BY <1>1, <1>2, <2>3 DEF SegmentDrawn, LayerRestTypeOK
    <2> QED BY <1>9, <2>1, <2>2, <2>3 DEF Resume
  <1>10. ASSUME NEW r \in Runs, Fails(r) PROVE LayerRestTypeOK'
    <2>1. runs[r].content \in {None} \cup Runs
      BY <1>1 DEF Run
    <2> QED BY <1>1, <1>10, <2>1 DEF Fails, FilterGraphFails, Rasterized, FilterRasterizeFails,
         SegmentRasterizeFails, CachedGone, LayerRestTypeOK
  <1> QED BY <1>4, <1>5, <1>6, <1>7, <1>8, <1>9, <1>10 DEF Next

LEMMA TypesKept == IInv /\ Next => TypeOK'
  <1> SUFFICES ASSUME IInv, Next PROVE TypeOK'
    OBVIOUS
  <1>1. GraphTypeOK'
    BY CallerStep, GraphTypes DEF IInv, GraphInv
  <1>2. LayerTypeOK'
    BY RunSteps, RunTypes, LayerRestTypes DEF IInv, LayerTypeOK, LayerRestTypeOK
  <1> QED BY <1>1, <1>2, FilterTypes, SegmentTypes DEF IInv, TypeOK

\* The lock names a run that rasterizes: who takes it starts to, and who stops
\* releases it or did not hold it.
LEMMA RasterKept == TypeOK /\ RasterReleased /\ RunStep => RasterReleased'
  <1> SUFFICES ASSUME TypeOK, RasterReleased, RunStep, raster' # None
               PROVE  runs'[raster'].stage = "rasterizing"
    BY DEF RasterReleased
  <1>1. runs \in [Runs -> Run] /\ raster \in {None} \cup Runs
    BY DEF TypeOK, LayerTypeOK
  <1>2. CASE UNCHANGED <<runs, raster>>
    BY <1>2 DEF RasterReleased
  <1>3. ASSUME NEW r \in Runs, NEW by, NEW input, Rasterizes(r, by, input)
        PROVE  runs'[raster'].stage = "rasterizing"
    BY <1>1, <1>3 DEF Rasterizes
  <1>4. ASSUME NEW r \in Runs, RunMove(r)
        PROVE  runs'[raster'].stage = "rasterizing"
    <2>1. CASE runs' = [runs EXCEPT ![r].stage = "rasterizing"] /\ raster' = r
      BY <1>1, <2>1 DEF Run
    <2>2. CASE RasterizeFails(r)
      BY <2>2 DEF RasterizeFails
    <2>3. CASE Rasterized(r) /\ runs' = [runs EXCEPT ![r].stage = "running"]
      <3>1. raster' = raster /\ runs[r].stage = "cached"
        BY <2>3 DEF Rasterized
      <3> QED BY <1>1, <2>3, <3>1 DEF RasterReleased
    <2>6. CASE Rasterized(r) /\ EndRun(r)
      <3>1. raster' = raster /\ runs[r].stage = "cached"
        BY <2>6 DEF Rasterized
      <3> QED BY <1>1, <2>6, <3>1 DEF RasterReleased, EndRun
    <2>4. CASE runs[r].stage \in {"running", "drawing"} /\ UNCHANGED raster
               /\ \A q \in Runs \ {r} : runs'[q] = runs[q]
      BY <1>1, <2>4 DEF RasterReleased
    <2>5. CASE EndRun(r) \/ \E old \in {None} \cup Runs :
                               runs' = [runs EXCEPT ![r].stage = "drawing", ![r].old = old]
      <3>1. \A q \in Runs \ {r} : runs'[q] = runs[q]
        BY <1>1, <2>5 DEF EndRun
      <3> QED BY <1>4, <2>1, <2>2, <2>3, <2>4, <2>6, <3>1 DEF RunMove
    <2> QED BY <1>4, <2>1, <2>2, <2>3, <2>5, <2>6 DEF RunMove
  <1> QED BY <1>2, <1>3, <1>4 DEF RunStep

\* A new controller belongs to a run that just made its request.
OwnerStep(old, new) ==
    \/ new.controller \in {old.controller, None}
    \/ new.controller \in Runs /\ RunGraph(new.controller)

LEMMA OwnerSteps == TypeOK /\ Next => OwnerStep(filter, filter') /\ OwnerStep(segment, segment')
  <1> SUFFICES ASSUME TypeOK, Next
               PROVE  OwnerStep(filter, filter') /\ OwnerStep(segment, segment')
    OBVIOUS
  <1> USE DEF OwnerStep
  <1>1. filter \in Filter /\ segment \in Segment
    BY DEF TypeOK
  <1>0. /\ UNCHANGED filter => OwnerStep(filter, filter')
        /\ UNCHANGED segment => OwnerStep(segment, segment')
    OBVIOUS
  <1>2. ASSUME NEW f, f.controller \in {filter.controller, None}, f \in Filter,
               ProcessFilter(f)
        PROVE  OwnerStep(filter, filter')
    BY <1>2 DEF ProcessFilter, Filter
  <1>3. ASSUME NEW s \in Segment, s.controller = segment.controller, ProcessSegment(s)
        PROVE  OwnerStep(segment, segment')
    BY <1>3 DEF ProcessSegment, Segment
  <1>4. /\ ResetFilter(filter) \in Filter /\ ResetSegment(segment) \in Segment
        /\ ResetFilter(filter).controller = None /\ ResetSegment(segment).controller = None
    BY <1>1 DEF ResetFilter, ResetSegment, Filter, Segment
  <1>5. ASSUME NEW r \in Runs, Continue(r)
        PROVE  OwnerStep(filter, filter') /\ OwnerStep(segment, segment')
    BY <1>1, <1>5 DEF Continue, FilterFailed, FilterImage, SegmentFailed, SegmentImage,
       Filter, Segment
  <1>6. CASE Graph \/ ToggleAutoProcess
    BY <1>1, <1>6 DEF Graph, ToggleAutoProcess, Filter, Segment
  <1>7. CASE Due
    <2>1. CASE ProcessDue /\ UNCHANGED segment
      <3> DEFINE f == [filter EXCEPT !.queued = FALSE]
      <3>1. f \in Filter /\ f.controller = filter.controller
        BY <1>1 DEF Filter
      <3>2. ProcessFilter(f)
        BY <2>1 DEF ProcessDue
      <3> HIDE DEF f, OwnerStep
      <3>3. OwnerStep(filter, filter')
        BY <1>2, <3>1, <3>2
      <3> QED BY <1>0, <2>1, <3>3
    <2>2. CASE SegmentDue /\ UNCHANGED filter
      <3> DEFINE s == [segment EXCEPT !.queued = FALSE]
      <3>1. s \in Segment /\ s.controller = segment.controller
        BY <1>1 DEF Segment
      <3>2. ProcessSegment(s)
        BY <2>2 DEF SegmentDue
      <3> HIDE DEF s, OwnerStep
      <3>3. OwnerStep(segment, segment')
        BY <1>3, <3>1, <3>2
      <3> QED BY <1>0, <2>2, <3>3
    <2> QED BY <1>7, <2>1, <2>2 DEF Due
  <1>8. CASE UseFilter
    <2>1. ASSUME NEW config \in Configs, StartFilter(config) PROVE OwnerStep(filter, filter')
      <3> DEFINE f == [ResetFilter(filter) EXCEPT !.isFiltering = TRUE,
                         !.config = config, !.initial = config]
      <3>1. f \in Filter /\ f.controller = None
        BY <1>4 DEF Filter
      <3>2. ProcessFilter(f) \/ filter' = f
        BY <2>1 DEF StartFilter
      <3> HIDE DEF f
      <3> QED BY <1>2, <3>1, <3>2
    <2>2. ASSUME ProcessButton PROVE OwnerStep(filter, filter')
      BY <1>1, <1>2, <2>2 DEF ProcessButton
    <2>3. ASSUME CancelFilter \/ ApplyFilter \/ ResetButton PROVE OwnerStep(filter, filter')
      BY <1>4, <2>3 DEF CancelFilter, TeardownFilter, ApplyFilter, ResetButton, Filter
    <2>4. ASSUME NEW config \in Configs, SetFilterConfig(config) PROVE OwnerStep(filter, filter')
      BY <1>1, <2>4 DEF SetFilterConfig, Filter
    <2> HIDE DEF OwnerStep
    <2> QED BY <1>0, <1>8, <2>1, <2>2, <2>3, <2>4 DEF UseFilter
  <1>9. CASE UseSegment
    <2>1. ASSUME StartSegment(isBusy) \/ CancelSegment \/ ApplySegment \/ ResetSegmentButton
          PROVE  OwnerStep(segment, segment')
      BY <1>4, <2>1 DEF StartSegment, CancelSegment, ApplySegment, TeardownSegment,
         ResetSegmentButton, Segment
    <2>2. ASSUME SegmentButton
          PROVE  OwnerStep(segment, segment')
      BY <1>1, <1>3, <2>2 DEF SegmentButton
    <2>3. ASSUME SaveSegment \/ \E prompt \in Prompts : SetPrompt(prompt)
          PROVE  OwnerStep(segment, segment')
      BY <1>1, <2>3 DEF SaveSegment, SetPrompt, Segment
    <2> HIDE DEF OwnerStep
    <2> QED BY <1>0, <1>9, <2>1, <2>2, <2>3 DEF UseSegment
  <1>10. ASSUME NEW r \in Runs, Resume(r)
         PROVE  OwnerStep(filter, filter') /\ OwnerStep(segment, segment')
    <2>1. ASSUME FilterRasterized(r) \/ FilterDrawn(r) PROVE OwnerStep(filter, filter')
      BY <1>1, <2>1 DEF FilterRasterized, FilterDrawn, Filter
    <2>2. ASSUME SegmentRasterized(r) \/ SegmentDrawn(r) PROVE OwnerStep(segment, segment')
      BY <1>1, <2>2 DEF SegmentRasterized, SegmentDrawn, Segment
    <2> HIDE DEF OwnerStep
    <2> QED BY <1>0, <1>10, <2>1, <2>2 DEF Resume
  <1>11. ASSUME NEW r \in Runs, Fails(r)
         PROVE  OwnerStep(filter, filter') /\ OwnerStep(segment, segment')
    BY <1>1, <1>11 DEF Fails, FilterGraphFails, FilterRasterizeFails, SegmentRasterizeFails, CachedGone, Filter, Segment
  <1> HIDE DEF OwnerStep
  <1> QED BY <1>5, <1>6, <1>7, <1>8, <1>9, <1>10, <1>11 DEF Next

LEMMA CallKept == IInv /\ Next => CallInv'
  <1> SUFFICES ASSUME IInv, Next PROVE CallInv'
    OBVIOUS
  <1>1. /\ TypeOK /\ TypeOK' /\ GraphInv /\ GraphStep /\ RunStep /\ CallInv
        /\ OwnerStep(filter, filter') /\ OwnerStep(segment, segment')
        /\ runs \in [Runs -> Run]
    BY TypesKept, CallerStep, RunSteps, OwnerSteps DEF IInv, TypeOK, LayerTypeOK
  <1>2. \A r \in Runs : req[r].promise # "idle" => req'[r].promise # "idle"
    BY <1>1, SettledStays DEF Runs
  <1>3. \A r \in Runs : RunGraph(r) => req'[r].promise # "idle"
    BY <1>1, RequestTypes DEF RunGraph, Runs, TypeOK, GraphTypeOK, Request
  <1>4. ASSUME NEW r \in Runs, runs'[r].stage \in {"running", "drawing"}
        PROVE  req'[r].promise # "idle"
    <2>1. runs[r].stage \in {"running", "drawing"} \/ RunGraph(r)
      <3>1. CASE UNCHANGED <<runs, raster>>
        BY <1>4, <3>1
      <3>2. ASSUME NEW q \in Runs, \/ \E config \in Configs : Rasterizes(q, "filter", config)
                                   \/ \E prompt \in Prompts : Rasterizes(q, "segment", prompt)
            PROVE  runs[r].stage \in {"running", "drawing"} \/ RunGraph(r)
        BY <1>1, <1>4, <3>2 DEF Rasterizes
      <3>3. ASSUME NEW q \in Runs, RunMove(q)
            PROVE  runs[r].stage \in {"running", "drawing"} \/ RunGraph(r)
        <4>1. runs'[r] = runs[r] \/ q = r
          BY <1>1, <3>3 DEF RunMove, RasterizeFails, EndRun
        <4>2. CASE q = r
          <5>1. ~ EndRun(r)
            BY <1>1, <1>4 DEF EndRun, Unused
          <5>2. runs' # [runs EXCEPT ![r].stage = "rasterizing"]
            BY <1>1, <1>4 DEF Run
          <5> QED BY <3>3, <4>2, <5>1, <5>2 DEF RunMove, RasterizeFails
        <4> QED BY <1>4, <4>1, <4>2
      <3> QED BY <1>1, <3>1, <3>2, <3>3 DEF RunStep
    <2> QED BY <1>1, <1>2, <1>3, <2>1 DEF CallInv
  <1>5. ASSUME NEW r \in {filter'.controller, segment'.controller} \ {None}
        PROVE  req'[r].promise # "idle"
    <2>1. filter.controller \in {None} \cup Runs /\ segment.controller \in {None} \cup Runs
      BY <1>1 DEF TypeOK, Filter, Segment
    <2> QED BY <1>1, <1>2, <1>3, <1>5, <2>1 DEF CallInv, OwnerStep
  <1> QED BY <1>4, <1>5 DEF CallInv

LEMMA ClearedKept == IInv /\ Next => ClearedLater'
  <1> SUFFICES ASSUME IInv, Next PROVE ClearedLater'
    OBVIOUS
  <1>1. /\ ClearedLater /\ filter \in Filter /\ filter' \in Filter
        /\ runs \in [Runs -> Run]
    BY TypesKept DEF IInv, TypeOK, LayerTypeOK
  <1>2. ASSUME ~filter'.isProcessing PROVE ClearedLater'
    BY <1>2 DEF ClearedLater
  <1>3. ASSUME filter'.isProcessing = filter.isProcessing, filter'.module = filter.module,
               \A r \in Runs : WillClear(r) => runs'[r] = runs[r]
        PROVE  ClearedLater'
    BY <1>1, <1>3 DEF ClearedLater, WillClear, Runs
  <1>4. ASSUME NEW f, f.isProcessing = filter.isProcessing, f.module = filter.module,
               f \in Filter, ProcessFilter(f)
        PROVE  ClearedLater'
    <2>1. CASE filter' = f /\ UNCHANGED runs
      BY <1>3, <1>4, <2>1
    <2>2. CASE filter' = [f EXCEPT !.isProcessing = FALSE]
      BY <1>2, <1>4, <2>2 DEF Filter
    <2>3. ASSUME NEW q \in Runs, filter' = f, Rasterizes(q, "filter", f.config)
          PROVE  ClearedLater'
      <3>1. \A r \in Runs : WillClear(r) => runs'[r] = runs[r]
        BY <1>1, <2>3 DEF Rasterizes, NextRun, WillClear
      <3> QED BY <1>3, <1>4, <2>3, <3>1
    <2> QED BY <1>4, <2>1, <2>2, <2>3 DEF ProcessFilter
  <1>5. ASSUME NEW q \in Runs, UNCHANGED filter, runs[q].by = "segment",
               \A r \in Runs \ {q} : runs'[r] = runs[r]
        PROVE  ClearedLater'
    BY <1>3, <1>5 DEF WillClear
  <1>6. ASSUME NEW q \in Runs, Continue(q) PROVE ClearedLater'
    <2>1. CASE FilterFailed(q)
      BY <1>1, <1>2, <2>1 DEF FilterFailed, Filter
    <2>2. CASE FilterImage(q) /\ runs[q].by = "filter"
      <3>1. /\ filter'.module = q /\ filter'.isProcessing = filter.isProcessing
            /\ runs'[q].by = "filter" /\ runs'[q].stage = "drawing"
        BY <1>1, <2>2 DEF FilterImage, Filter, Run
      <3>2. q # None
        BY DEF Runs, None
      <3> QED BY <3>1, <3>2 DEF ClearedLater, WillClear, Runs
    <2>3. CASE runs[q].by = "segment" /\ UNCHANGED filter /\ (SegmentFailed(q) \/ SegmentImage(q))
      <3>1. \A r \in Runs \ {q} : runs'[r] = runs[r]
        BY <1>1, <2>3 DEF SegmentFailed, SegmentImage, EndRun
      <3> QED BY <1>5, <2>3, <3>1
    <2> QED BY <1>6, <2>1, <2>2, <2>3 DEF Continue
  <1>7. CASE Graph \/ ToggleAutoProcess
    BY <1>1, <1>3, <1>7 DEF Graph, layerVars, ToggleAutoProcess, Filter
  <1>8. ASSUME NEW s \in Segment, ProcessSegment(s), UNCHANGED filter PROVE ClearedLater'
    <2>1. CASE UNCHANGED runs
      BY <1>3, <1>8, <2>1
    <2>2. ASSUME NEW q \in Runs, Rasterizes(q, "segment", s.prompt)
          PROVE  ClearedLater'
      <3>1. \A r \in Runs : WillClear(r) => runs'[r] = runs[r]
        BY <1>1, <2>2 DEF Rasterizes, NextRun, WillClear
      <3> QED BY <1>3, <1>8, <3>1
    <2> QED BY <1>8, <2>1, <2>2 DEF ProcessSegment
  <1>9. segment \in Segment /\ [segment EXCEPT !.queued = FALSE] \in Segment
    BY DEF IInv, TypeOK, Segment
  <1>10. CASE Due
    <2>1. CASE ProcessDue
      <3> DEFINE f == [filter EXCEPT !.queued = FALSE]
      <3>1. /\ f \in Filter /\ f.isProcessing = filter.isProcessing
            /\ f.module = filter.module
        BY <1>1 DEF Filter
      <3>2. ProcessFilter(f)
        BY <2>1 DEF ProcessDue
      <3> HIDE DEF f
      <3> QED BY <1>4, <3>1, <3>2
    <2>2. CASE SegmentDue /\ UNCHANGED filter
      BY <1>8, <1>9, <2>2 DEF SegmentDue
    <2> QED BY <1>10, <2>1, <2>2 DEF Due
  <1>11. CASE UseFilter
    <2>1. ~ResetFilter(filter).isProcessing /\ ResetFilter(filter) \in Filter
      BY <1>1 DEF ResetFilter, Filter
    <2>2. ASSUME NEW config \in Configs, StartFilter(config) PROVE ClearedLater'
      <3> DEFINE f == [ResetFilter(filter) EXCEPT !.isFiltering = TRUE,
                         !.config = config, !.initial = config]
      <3>1. f \in Filter /\ ~f.isProcessing
        BY <2>1 DEF Filter
      <3>2. ProcessFilter(f) \/ filter' = f
        BY <2>2 DEF StartFilter
      <3>3. ~filter'.isProcessing
        <4> HIDE DEF f
        <4> QED BY <3>1, <3>2 DEF ProcessFilter, Filter
      <3> QED BY <1>2, <3>3
    <2>3. CASE CancelFilter \/ ApplyFilter \/ ResetButton
      <3>1. ~filter'.isProcessing
        BY <2>1, <2>3 DEF CancelFilter, TeardownFilter, ApplyFilter, ResetButton, Filter
      <3> QED BY <1>2, <3>1
    <2>4. CASE ProcessButton
      BY <1>1, <1>4, <2>4 DEF ProcessButton
    <2>5. ASSUME NEW config \in Configs, SetFilterConfig(config) PROVE ClearedLater'
      BY <1>1, <1>3, <2>5 DEF SetFilterConfig, layerVars, Filter
    <2> QED BY <1>11, <2>2, <2>3, <2>4, <2>5 DEF UseFilter
  <1>12. CASE UseSegment
    <2>1. CASE SegmentButton
      BY <1>8, <1>9, <1>12, <2>1 DEF SegmentButton, UseSegment
    <2>2. ASSUME \/ StartSegment(isBusy) \/ CancelSegment \/ ApplySegment \/ SaveSegment
                 \/ ResetSegmentButton \/ \E prompt \in Prompts : SetPrompt(prompt)
          PROVE  UNCHANGED runs
      BY <2>2 DEF StartSegment, CancelSegment, ApplySegment, SaveSegment, ResetSegmentButton,
         SetPrompt, layerVars
    <2> QED BY <1>3, <1>12, <2>1, <2>2 DEF UseSegment
  <1>13. ASSUME NEW q \in Runs, Resume(q) PROVE ClearedLater'
    <2>1. CASE FilterRasterized(q)
      <3>1. runs'[q].by = "filter" /\ runs'[q].stage = "running"
        BY <1>1, <2>1 DEF FilterRasterized, Run
      <3> QED BY <3>1 DEF ClearedLater, WillClear, Runs
    <2>2. CASE FilterDrawn(q) /\ filter.module # None
      BY <1>1, <1>2, <2>2 DEF FilterDrawn, Filter
    <2>3. CASE FilterDrawn(q) /\ filter.module = None
      <3>1. UNCHANGED filter /\ \A r \in Runs \ {q} : runs'[r] = runs[r]
        BY <1>1, <2>3 DEF FilterDrawn, EndRun
      <3>2. ~WillClear(q)
        BY <2>3 DEF FilterDrawn, WillClear
      <3> QED BY <1>3, <3>1, <3>2
    <2>4. CASE (SegmentRasterized(q) \/ SegmentDrawn(q)) /\ UNCHANGED filter
      <3>1. runs[q].by = "segment" /\ \A r \in Runs \ {q} : runs'[r] = runs[r]
        BY <1>1, <2>4 DEF SegmentRasterized, SegmentDrawn, EndRun
      <3> QED BY <1>5, <2>4, <3>1
    <2> QED BY <1>13, <2>1, <2>2, <2>3, <2>4 DEF Resume
  <1>14. ASSUME NEW q \in Runs, Fails(q) PROVE ClearedLater'
    <2>1. CASE FilterGraphFails(q) \/ FilterRasterizeFails(q)
      BY <1>1, <1>2, <2>1 DEF FilterGraphFails, FilterRasterizeFails, Filter
    <2>2. CASE SegmentRasterizeFails(q) /\ UNCHANGED filter
      <3>1. runs[q].by = "segment" /\ \A r \in Runs \ {q} : runs'[r] = runs[r]
        BY <1>1, <2>2 DEF SegmentRasterizeFails, RasterizeFails, EndRun
      <3> QED BY <1>5, <2>2, <3>1
    <2>3. CASE CachedGone(q) /\ UNCHANGED filter
      <3>1. \A r \in Runs : WillClear(r) => runs'[r] = runs[r]
        BY <1>1, <2>3 DEF CachedGone, WillClear
      <3> QED BY <1>3, <2>3, <3>1
    <2> QED BY <1>14, <2>1, <2>2, <2>3 DEF Fails
  <1> QED BY <1>6, <1>7, <1>10, <1>11, <1>12, <1>13, <1>14 DEF Next

\* The runs of the object selection that are under way.
SegmentActive == {r \in Runs : Active(r) /\ runs[r].by = "segment"}

\* Such a run starts only if there is none and none is said to be; where it
\* ends, the module says so.
SegmentStep ==
    \/ /\ SegmentActive' = SegmentActive
       /\ segment'.isProcessing = segment.isProcessing
       /\ segment'.isSegmenting = segment.isSegmenting \/ ~segment.isProcessing
    \/ /\ ~segment.isProcessing
       /\ \E r \in Runs : SegmentActive' = SegmentActive \cup {r}
       /\ segment'.isProcessing /\ segment'.isSegmenting
    \/ /\ \E r \in SegmentActive : SegmentActive' = SegmentActive \ {r}
       /\ ~segment'.isProcessing
    \/ /\ SegmentActive' = SegmentActive
       /\ ~segment.isProcessing /\ ~segment'.isProcessing

\* What a step of one run does to that set.
LEMMA ActiveRuns ==
    ASSUME TypeOK, NEW r \in Runs
    PROVE  /\ UNCHANGED runs => SegmentActive' = SegmentActive
           /\ Active(r) /\ EndRun(r) => SegmentActive' = SegmentActive \ {r}
           /\ \A stage \in {"rasterizing", "running", "drawing"} :
                /\ Active(r)
                /\ \/ runs' = [runs EXCEPT ![r].stage = stage]
                   \/ \E old : runs' = [runs EXCEPT ![r].stage = stage, ![r].old = old]
                => SegmentActive' = SegmentActive
           /\ \A by, input : Rasterizes(r, by, input) =>
                SegmentActive' = IF by = "segment" THEN SegmentActive \cup {r} ELSE SegmentActive
  <1>1. runs \in [Runs -> Run] /\ runs[r] \in Run
    BY DEF TypeOK, LayerTypeOK
  <1>2. ASSUME \A q \in Runs \ {r} : runs'[q] = runs[q],
               Active(r)' = Active(r), runs'[r].by = runs[r].by
        PROVE  SegmentActive' = SegmentActive
    BY <1>2 DEF SegmentActive, Active, Runs
  <1>3. UNCHANGED runs => SegmentActive' = SegmentActive
    BY DEF SegmentActive, Active, Runs
  <1>4. ASSUME Active(r), EndRun(r) PROVE SegmentActive' = SegmentActive \ {r}
    <2>1. /\ \A q \in Runs \ {r} : runs'[q] = runs[q]
          /\ runs'[r].stage = "ended"
      BY <1>1, <1>4 DEF EndRun, Unused
    <2> QED BY <2>1 DEF SegmentActive, Active, Runs
  <1>5. ASSUME NEW stage \in {"rasterizing", "running", "drawing"}, Active(r),
               \/ runs' = [runs EXCEPT ![r].stage = stage]
               \/ \E old : runs' = [runs EXCEPT ![r].stage = stage, ![r].old = old]
        PROVE  SegmentActive' = SegmentActive
    <2>1. /\ \A q \in Runs \ {r} : runs'[q] = runs[q]
          /\ runs'[r].stage = stage /\ runs'[r].by = runs[r].by
      BY <1>1, <1>5 DEF Run
    <2> QED BY <1>2, <1>5, <2>1 DEF Active
  <1>6. ASSUME NEW by, NEW input, Rasterizes(r, by, input)
        PROVE  SegmentActive' = IF by = "segment" THEN SegmentActive \cup {r} ELSE SegmentActive
    <2>1. /\ \A q \in Runs \ {r} : runs'[q] = runs[q]
          /\ runs'[r].stage \in {"cached", "rasterizing"} /\ runs'[r].by = by
          /\ runs[r].stage = "unused"
      BY <1>1, <1>6 DEF Rasterizes, NextRun
    <2> QED BY <2>1 DEF SegmentActive, Active, Runs
  <1> QED BY <1>3, <1>4, <1>5, <1>6

LEMMA SegmentSteps == IInv /\ Next => SegmentStep
  <1> SUFFICES ASSUME IInv, Next PROVE SegmentStep
    OBVIOUS
  <1>1. /\ TypeOK /\ segment \in Segment /\ segment' \in Segment
        /\ segment.isProcessing => segment.isSegmenting
        /\ SegmentActive # {} => segment.isProcessing
    BY TypesKept DEF IInv, TypeOK, ProcessesOpen, SegmentSerial, SegmentActive, Runs
  <1>2. ASSUME SegmentActive' = SegmentActive,
               \/ UNCHANGED segment
               \/ /\ segment'.isProcessing = segment.isProcessing
                  /\ segment'.isSegmenting = segment.isSegmenting
               \/ ~segment.isProcessing /\ ~segment'.isProcessing
        PROVE  SegmentStep
    BY <1>2 DEF SegmentStep
  <1>3. ASSUME NEW r \in Runs, Active(r), runs[r].by = "segment", EndRun(r), ~segment'.isProcessing
        PROVE  SegmentStep
    BY <1>1, <1>3, ActiveRuns DEF SegmentStep, SegmentActive
  <1>4. ASSUME NEW s \in Segment, s.isProcessing = segment.isProcessing,
               s.isSegmenting = segment.isSegmenting, ProcessSegment(s)
        PROVE  SegmentStep
    <2>1. CASE segment' = s /\ UNCHANGED runs
      BY <1>1, <1>2, <1>4, <2>1, ActiveRuns DEF SegmentActive
    <2>2. ASSUME NEW r \in Runs, ~s.isProcessing, s.isSegmenting,
                 segment' = [s EXCEPT !.isProcessing = TRUE],
                 Rasterizes(r, "segment", s.prompt)
          PROVE  SegmentStep
      <3>1. SegmentActive' = SegmentActive \cup {r}
        BY <1>1, <2>2, ActiveRuns
      <3>2. segment'.isProcessing /\ segment'.isSegmenting
        BY <2>2 DEF Segment
      <3> QED BY <1>4, <2>2, <3>1, <3>2 DEF SegmentStep
    <2> QED BY <1>4, <2>1, <2>2 DEF ProcessSegment
  <1>5. UNCHANGED runs => SegmentActive' = SegmentActive
    BY DEF SegmentActive, Active
  <1>6. ASSUME NEW f, ProcessFilter(f) PROVE SegmentActive' = SegmentActive
    <2>1. UNCHANGED runs \/ \E r \in Runs : Rasterizes(r, "filter", f.config)
      BY <1>6 DEF ProcessFilter
    <2>2. ASSUME NEW r \in Runs, Rasterizes(r, "filter", f.config)
          PROVE  SegmentActive' = SegmentActive
      <3>1. SegmentActive' =
              IF "filter" = "segment" THEN SegmentActive \cup {r} ELSE SegmentActive
        BY <1>1, <2>2, ActiveRuns, Zenon
      <3> QED BY <3>1
    <2> QED BY <1>5, <2>1, <2>2
  <1>7. ASSUME NEW r \in Runs, Continue(r) PROVE SegmentStep
    <2>1. Active(r)
      BY <1>7 DEF Continue, Continues, Active
    <2>2. CASE FilterFailed(r) /\ runs[r].by = "filter" /\ UNCHANGED segment
      <3>1. SegmentActive' = SegmentActive
        BY <1>1, <2>1, <2>2, ActiveRuns DEF FilterFailed, SegmentActive
      <3> QED BY <1>2, <2>2, <3>1
    <2>3. CASE FilterImage(r) /\ UNCHANGED segment
      BY <1>1, <1>2, <2>1, <2>3, ActiveRuns DEF FilterImage
    <2>4. CASE SegmentFailed(r) /\ runs[r].by = "segment"
      BY <1>1, <1>3, <2>1, <2>4 DEF SegmentFailed, Segment
    <2>5. CASE SegmentImage(r)
      <3>1. /\ SegmentActive' = SegmentActive
            /\ segment'.isProcessing = segment.isProcessing
            /\ segment'.isSegmenting = segment.isSegmenting
        BY <1>1, <2>1, <2>5, ActiveRuns DEF SegmentImage, Segment
      <3> QED BY <1>2, <3>1
    <2> QED BY <1>7, <2>2, <2>3, <2>4, <2>5 DEF Continue
  <1>8. CASE Graph \/ ToggleAutoProcess
    BY <1>1, <1>2, <1>5, <1>8 DEF Graph, layerVars, ToggleAutoProcess, Segment
  <1>9. CASE Due
    <2>1. CASE ProcessDue /\ UNCHANGED segment
      BY <1>2, <1>6, <2>1 DEF ProcessDue
    <2>2. CASE SegmentDue
      <3> DEFINE s == [segment EXCEPT !.queued = FALSE]
      <3>1. s \in Segment /\ s.isProcessing = segment.isProcessing
            /\ s.isSegmenting = segment.isSegmenting
        BY <1>1 DEF Segment
      <3>2. ProcessSegment(s)
        BY <2>2 DEF SegmentDue
      <3> HIDE DEF s
      <3> QED BY <1>4, <3>1, <3>2
    <2> QED BY <1>9, <2>1, <2>2 DEF Due
  <1>10. CASE UseFilter
    <2>1. SegmentActive' = SegmentActive
      <3>1. ASSUME NEW config \in Configs, StartFilter(config) PROVE SegmentActive' = SegmentActive
        <4> DEFINE f == [ResetFilter(filter) EXCEPT !.isFiltering = TRUE,
                           !.config = config, !.initial = config]
        <4>1. ProcessFilter(f) \/ UNCHANGED runs
          BY <3>1 DEF StartFilter
        <4> HIDE DEF f
        <4> QED BY <1>6, <1>5, <4>1
      <3>2. CASE \/ CancelFilter \/ ApplyFilter \/ ResetButton
                 \/ \E config \in Configs : SetFilterConfig(config)
        BY <1>5, <3>2 DEF CancelFilter, ApplyFilter, ResetButton, SetFilterConfig, layerVars
      <3>3. CASE ProcessButton
        BY <1>6, <3>3 DEF ProcessButton
      <3> QED BY <1>10, <3>1, <3>2, <3>3 DEF UseFilter
    <2> QED BY <1>2, <1>10, <2>1 DEF UseFilter
  <1>11. CASE UseSegment
    <2>1. CASE StartSegment(isBusy) \/ CancelSegment \/ ApplySegment \/ ResetSegmentButton
      <3>1. ~segment.isProcessing /\ UNCHANGED runs
        BY <1>1, <2>1 DEF StartSegment, CancelSegment, ApplySegment, ResetSegmentButton, layerVars
      <3>2. ~segment'.isProcessing
        BY <1>1, <2>1 DEF StartSegment, CancelSegment, ApplySegment, ResetSegmentButton,
           TeardownSegment, ResetSegment, Segment
      <3> QED BY <1>2, <1>5, <3>1, <3>2
    <2>2. CASE SegmentButton
      BY <1>1, <1>4, <2>2 DEF SegmentButton
    <2>3. CASE SaveSegment
      BY <1>2, <1>5, <2>3 DEF SaveSegment
    <2>4. ASSUME NEW prompt \in Prompts, SetPrompt(prompt) PROVE SegmentStep
      BY <1>1, <1>2, <1>5, <2>4 DEF SetPrompt, layerVars, Segment
    <2> QED BY <1>11, <2>1, <2>2, <2>3, <2>4 DEF UseSegment
  <1>12. ASSUME NEW r \in Runs, Resume(r) PROVE SegmentStep
    <2>1. CASE FilterRasterized(r) /\ UNCHANGED segment
      <3>1. SegmentActive' = SegmentActive
        BY <1>1, <2>1, ActiveRuns DEF FilterRasterized, Rasterized, Active
      <3> QED BY <1>2, <2>1, <3>1
    <2>2. CASE FilterDrawn(r) /\ UNCHANGED segment
      <3>1. SegmentActive' = SegmentActive
        BY <1>1, <2>2, ActiveRuns DEF FilterDrawn, Active, SegmentActive
      <3> QED BY <1>2, <2>2, <3>1
    <2>3. CASE SegmentDrawn(r)
      BY <1>1, <1>3, <2>3 DEF SegmentDrawn, Active, Segment
    <2>4. CASE SegmentRasterized(r)
      <3>1. SegmentActive' = SegmentActive
        BY <1>1, <2>4, ActiveRuns DEF SegmentRasterized, Rasterized, Active
      <3>2. /\ segment'.isProcessing = segment.isProcessing
            /\ segment'.isSegmenting = segment.isSegmenting
        BY <1>1, <2>4 DEF SegmentRasterized, Segment
      <3> QED BY <1>2, <3>1, <3>2
    <2> QED BY <1>12, <2>1, <2>2, <2>3, <2>4 DEF Resume
  <1>13. ASSUME NEW r \in Runs, Fails(r) PROVE SegmentStep
    <2>1. CASE FilterRasterizeFails(r) /\ UNCHANGED segment
      <3>1. SegmentActive' = SegmentActive
        BY <1>1, <2>1, ActiveRuns DEF FilterRasterizeFails, RasterizeFails, Active, SegmentActive
      <3> QED BY <1>2, <2>1, <3>1
    <2>2. CASE SegmentRasterizeFails(r)
      BY <1>1, <1>3, <2>2 DEF SegmentRasterizeFails, RasterizeFails, Active, Segment
    <2>3. CASE CachedGone(r) /\ UNCHANGED segment
      <3>1. SegmentActive' = SegmentActive
        BY <1>1, <2>3, ActiveRuns DEF CachedGone, Active
      <3> QED BY <1>2, <2>3, <3>1
    <2>4. CASE FilterGraphFails(r) /\ UNCHANGED segment
      <3>1. SegmentActive' = SegmentActive
        BY <1>1, <2>4, ActiveRuns DEF FilterGraphFails, Rasterized, Active, SegmentActive
      <3> QED BY <1>2, <2>4, <3>1
    <2> QED BY <1>13, <2>1, <2>2, <2>3, <2>4 DEF Fails
  <1> QED BY <1>7, <1>8, <1>9, <1>10, <1>11, <1>12, <1>13 DEF Next

LEMMA SerialKept == IInv /\ Next => SegmentSerial' /\ ProcessesOpen'
  <1> SUFFICES ASSUME IInv, Next PROVE SegmentSerial' /\ ProcessesOpen'
    OBVIOUS
  <1>1. /\ SegmentStep
        /\ \A r, q \in SegmentActive : r = q
        /\ segment.isProcessing <=> SegmentActive # {}
        /\ segment.isProcessing => segment.isSegmenting
    BY SegmentSteps DEF IInv, SegmentSerial, SegmentActive, ProcessesOpen, Runs
  <1>2. /\ \A r, q \in SegmentActive' : r = q
        /\ segment'.isProcessing <=> SegmentActive' # {}
        /\ segment'.isProcessing => segment'.isSegmenting
    BY <1>1 DEF SegmentStep
  <1> QED BY <1>2 DEF SegmentSerial, SegmentActive, ProcessesOpen, Runs

LEMMA NextIInv == IInv /\ [Next]_vars => IInv'
  <1> SUFFICES ASSUME IInv, [Next]_vars PROVE IInv'
    OBVIOUS
  <1>1. CASE Next
    BY <1>1, TypesKept, GraphInvKept, CallerStep, CallKept, RasterKept, RunSteps, ClearedKept,
       SerialKept, InputInvKept DEF IInv
  <1>2. CASE UNCHANGED vars
    <2> USE <1>2 DEF vars, graphVars, layerVars, Runs
    <2>1. TypeOK'
      BY DEF IInv, TypeOK, GraphTypeOK, LayerTypeOK
    <2>2. GraphInv'
      BY GraphInvKept DEF IInv, GraphStep
    <2>3. CallInv' /\ RasterReleased' /\ ClearedLater' /\ ProcessesOpen' /\ InputInv'
      BY DEF IInv, CallInv, RasterReleased, ClearedLater, WillClear, ProcessesOpen, InputInv
    <2>4. SegmentSerial'
      BY DEF IInv, SegmentSerial, Active
    <2> QED BY <2>1, <2>2, <2>3, <2>4 DEF IInv
  <1> QED BY <1>1, <1>2

-----------------------------------------------------------------------------
(* The theorems. *)

\* Every step of the callers, of the runs and of the server keeps the
\* inductive invariant.
THEOREM Invariant == Spec => []IInv
  BY InitIInv, NextIInv, PTL DEF Spec

\* The variables stay in their types: no run of the filter or of the object
\* selection loses the config or the prompt it was started for.
THEOREM Types == Spec => []TypeOK
  BY Invariant, PTL DEF IInv

\* A promise that an event or an abort settled has its handlers off the
\* socket: they are left there only if the enqueue call was refused.
THEOREM Listeners == Spec => []ListenersReleased
  <1>1. IInv => ListenersReleased
    BY DEF IInv, GraphInv, Consistent, ListenersReleased, Runs
  <1> QED BY <1>1, Invariant, PTL

\* The lock of the rasterization, which makes the whole canvas busy, is held
\* by a run that rasterizes or by nobody, however the runs overlap.
THEOREM LockReleased == Spec => []RasterReleased
  BY Invariant, PTL DEF IInv

\* The filter's buttons are not held back for good by a run that is over:
\* while isProcessing is set some run of the filter is under way, and has not
\* lost the image module it needs to get to the end.
THEOREM ProcessingHasRunAlways == Spec => []ProcessingHasRun
  <1>1. IInv => ProcessingHasRun
    BY DEF IInv, ClearedLater, WillClear, ProcessingHasRun
  <1> QED BY <1>1, Invariant, PTL

\* Object selection runs one prompt at a time and says so while it does.
THEOREM OneSelection == Spec => []SegmentSerial
  BY Invariant, PTL DEF IInv

\* The clean-up after a run never cancels the graph of a result that was
\* delivered.
THEOREM NeverCanceled == Spec => SuccessNotCanceled
  <1>1. IInv /\ [Next]_vars =>
          [\A r \in Runs : r \in cancels' \ cancels => req[r].promise # "image"]_vars
    BY CallerStep, CancelsOnlyUnfinished DEF IInv, Runs
  <1> QED BY <1>1, Invariant, PTL DEF Spec, SuccessNotCanceled

\* What runGraphAndReturnImageOutput promises its caller: a promise settles
\* once, to an image that the server made for this very graph, and never to
\* an image after the caller aborted it.
THEOREM PromiseKept == Spec => KeepsPromise
  <1>1. Init => Promise!Init
    BY PromiseInit DEF Init
  <1>2. IInv /\ [Next]_vars => [Promise!Next]_(Promise!vars)
    <2>1. IInv /\ Next => [Promise!Next]_(Promise!vars)
      BY CallerStep, PromiseStep DEF IInv
    <2>2. UNCHANGED vars => UNCHANGED Promise!vars
      BY DEF vars, graphVars, Promise!vars
    <2> QED BY <2>1, <2>2
  <1> QED BY <1>1, <1>2, Invariant, PTL DEF Spec, KeepsPromise, Promise!Spec
=============================================================================
