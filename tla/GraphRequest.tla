---------------------------- MODULE GraphRequest ----------------------------
(***************************************************************************)
(* runGraphAndReturnImageOutput, the canvas' way to run a graph on the      *)
(* server and get one image back (features/controlLayers/konva/             *)
(* CanvasStateApiModule.ts).  The call enqueues a batch over HTTP and       *)
(* listens on the socket for two kinds of events, told apart by the batch's *)
(* origin, which is the request itself here.  The HTTP answer races the     *)
(* events, and the caller's abort races both.                               *)
(*                                                                          *)
(* Of the server there is what becomes of the request's queue item, which   *)
(* SessionProcessor has in full (session_queue_sqlite.py): it runs, fails   *)
(* or is canceled, by this request or by other users of the queue, and only *)
(* an item that runs or is canceled by itself tells.  The events that the   *)
(* handlers do nothing about (pending, in_progress, and completed, which    *)
(* they only warn about) are not put on the wire, and the wire is reliable. *)
(* No caller in src/ passes a timeout.                                      *)
(***************************************************************************)
EXTENDS Naturals

CONSTANT Requests

VARIABLES
    req,     \* per request: the promise and what its closure remembers
    item,    \* per request: its queue item, pending (queued) or in_progress
             \* (running) until it has ended
    reply,   \* per request: the answer to its enqueue call, in flight
    cancels, \* the cancelByBatchIds calls in flight
    socket   \* per request: the socket event in flight

graphVars == <<req, item, reply, cancels, socket>>

\* listening: the two handlers are registered; fetching: the
\* invocation_complete handler awaits getImageDTO; cancelable: cancelGraph
\* has replaced its dummy; aborted: the AbortSignal.
Request == [promise : {"idle", "pending", "image", "error"}, listening : BOOLEAN,
            fetching : BOOLEAN, didSuceed : BOOLEAN, cancelable : BOOLEAN,
            aborted : BOOLEAN]

ItemStates == {"none", "posted", "queued", "running", "completed", "failed", "canceled"}
Events == {"none", "output", "failed", "canceled"}

GraphTypeOK ==
    /\ req \in [Requests -> Request]
    /\ item \in [Requests -> ItemStates]
    /\ reply \in [Requests -> {"none", "ok", "error"}]
    /\ cancels \subseteq Requests
    /\ socket \in [Requests -> Events]

GraphInit ==
    /\ req = [r \in Requests |->
                [promise |-> "idle", listening |-> FALSE, fetching |-> FALSE,
                 didSuceed |-> FALSE, cancelable |-> FALSE, aborted |-> FALSE]]
    /\ item = [r \in Requests |-> "none"]
    /\ reply = [r \in Requests |-> "none"]
    /\ cancels = {}
    /\ socket = [r \in Requests |-> "none"]

Settled(r) == req[r].promise \in {"image", "error"}

\* reject(...): a promise that has settled ignores it.
Rejected(q) == [q EXCEPT !.promise = IF @ = "pending" THEN "error" ELSE @]

-----------------------------------------------------------------------------
\* The call itself: enqueue the batch, then register the listeners.
RunGraph(r) ==
    /\ req[r].promise = "idle"
    /\ req' = [req EXCEPT ![r].promise = "pending", ![r].listening = TRUE]
    /\ item' = [item EXCEPT ![r] = "posted"]
    /\ UNCHANGED <<reply, cancels, socket>>

\* The then() block of the enqueue call: cancelGraph knows its batch now.
EnqueueAnswered(r) ==
    /\ reply[r] = "ok"
    /\ reply' = [reply EXCEPT ![r] = "none"]
    /\ req' = [req EXCEPT ![r].cancelable = TRUE]
    /\ UNCHANGED <<item, cancels, socket>>

\* Fault: the error is only logged.
EnqueueFailedQuietly(r) ==
    /\ reply[r] = "error"
    /\ reply' = [reply EXCEPT ![r] = "none"]
    /\ UNCHANGED <<req, item, cancels, socket>>

\* Its catch() block; nothing takes the listeners off the socket here.
EnqueueFailed(r) ==
    /\ reply[r] = "error"
    /\ reply' = [reply EXCEPT ![r] = "none"]
    /\ req' = [req EXCEPT ![r] = Rejected(@)]
    /\ UNCHANGED <<item, cancels, socket>>

\* invocationCompleteHandler up to its await: it runs if still registered.
OutputHandler(q) ==
    IF q.listening THEN [q EXCEPT !.listening = FALSE, !.fetching = TRUE] ELSE q

\* Fault: the listeners stay.
StatusHandlerStays(q) == IF q.listening THEN Rejected(q) ELSE q

\* queueItemStatusChangedHandler on a failed or canceled item.
StatusHandler(q) ==
    IF q.listening THEN Rejected([q EXCEPT !.listening = FALSE]) ELSE q

\* The socket delivers an event; its origin is the request it is for.
Deliver(r) ==
    /\ socket[r] # "none"
    /\ socket' = [socket EXCEPT ![r] = "none"]
    /\ req' = [req EXCEPT ![r] = IF socket[r] = "output" THEN OutputHandler(@)
                                ELSE StatusHandler(@)]
    /\ UNCHANGED <<item, reply, cancels>>

\* getImageDTO answers; resolve is ignored if the promise was rejected since.
Fetched(r) ==
    /\ req[r].fetching
    /\ req' = [req EXCEPT
                ![r].fetching = FALSE,
                ![r].didSuceed = TRUE,
                ![r].promise = IF @ = "pending" THEN "image" ELSE @]
    /\ UNCHANGED <<item, reply, cancels, socket>>

\* The result is no image, or getImageDTO fails.
FetchFailed(r) ==
    /\ req[r].fetching
    /\ req' = [req EXCEPT ![r] = Rejected([@ EXCEPT !.fetching = FALSE])]
    /\ UNCHANGED <<item, reply, cancels, socket>>

\* Fault: a result that is being fetched counts as a success.
AbortListenerLate(q) ==
    LET marked == [q EXCEPT !.aborted = TRUE] IN
    IF q.didSuceed \/ q.fetching THEN marked
    ELSE Rejected([marked EXCEPT !.listening = FALSE])

\* The abort listener, which a success has made moot: what it leaves of the
\* closure, and the cancel call it makes if cancelGraph is not its dummy.
AbortListener(q) ==
    LET marked == [q EXCEPT !.aborted = TRUE] IN
    IF q.didSuceed THEN marked
    ELSE Rejected([marked EXCEPT !.listening = FALSE])

\* Fault: success is not looked at.
CancelsAnyway(q) == ~q.aborted /\ q.cancelable

CancelsGraph(q) == ~q.aborted /\ ~q.didSuceed /\ q.cancelable

\* controller.abort(): the event fires once.
Abort(r) ==
    /\ req' = [req EXCEPT ![r] = IF @.aborted THEN @ ELSE AbortListener(@)]
    /\ cancels' = IF CancelsGraph(req[r]) THEN cancels \cup {r} ELSE cancels
    /\ UNCHANGED <<item, reply, socket>>

-----------------------------------------------------------------------------
(* The server: what becomes of the queue item. *)

\* The enqueue call is served or refused; its answer travels back.
ServeEnqueue(r) ==
    /\ item[r] = "posted"
    /\ \/ /\ item' = [item EXCEPT ![r] = "queued"]
          /\ reply' = [reply EXCEPT ![r] = "ok"]
       \/ /\ item' = [item EXCEPT ![r] = "none"]
          /\ reply' = [reply EXCEPT ![r] = "error"]
    /\ UNCHANGED <<req, cancels, socket>>

\* dequeue takes the item.
ServeStart(r) ==
    /\ item[r] = "queued"
    /\ item' = [item EXCEPT ![r] = "running"]
    /\ UNCHANGED <<req, reply, cancels, socket>>

\* The item ends, and its end is emitted.
Ends(r, status, event) ==
    /\ item' = [item EXCEPT ![r] = status]
    /\ socket' = [socket EXCEPT ![r] = event]

\* The item runs: its output node completes, or it fails.
ServeItem(r) ==
    /\ item[r] = "running"
    /\ Ends(r, "completed", "output") \/ Ends(r, "failed", "failed")
    /\ UNCHANGED <<req, reply, cancels>>

\* cancel_by_batch_ids: the bulk UPDATE cancels a pending item and tells
\* nobody; the current item is then canceled by itself, with an event.  An
\* item that ended stays as it is.
ServeCancel(r) ==
    /\ r \in cancels
    /\ cancels' = cancels \ {r}
    /\ CASE item[r] = "queued" -> /\ item' = [item EXCEPT ![r] = "canceled"]
                                  /\ UNCHANGED socket
         [] item[r] = "running" -> Ends(r, "canceled", "canceled")
         [] OTHER -> UNCHANGED <<item, socket>>
    /\ UNCHANGED <<req, reply>>

\* The user cancels the item by itself (cancel_queue_item).
CancelItem(r) ==
    /\ item[r] \in {"queued", "running"}
    /\ Ends(r, "canceled", "canceled")
    /\ UNCHANGED <<req, reply, cancels>>

\* The user cancels or clears the item along with others that are pending:
\* nobody is told of it (cancel_all_except_current; clear and the other bulk
\* UPDATEs are alike).
DropItem(r) ==
    /\ item[r] = "queued"
    /\ item' = [item EXCEPT ![r] = "canceled"]
    /\ UNCHANGED <<req, reply, cancels, socket>>

Server == \E r \in Requests :
    ServeEnqueue(r) \/ ServeStart(r) \/ ServeItem(r) \/ ServeCancel(r)

QueueUser == \E r \in Requests : CancelItem(r) \/ DropItem(r)

Client == \E r \in Requests :
    Deliver(r) \/ EnqueueAnswered(r) \/ EnqueueFailed(r) \/ Fetched(r) \/ FetchFailed(r)

GraphNext == Server \/ QueueUser \/ Client

-----------------------------------------------------------------------------
\* The promise as its caller sees it, and the contract it keeps.
Promise == INSTANCE GraphPromise WITH
    promise <- [r \in Requests |-> req[r].promise],
    produced <- {r \in Requests : item[r] = "completed"},
    aborted <- {r \in Requests : req[r].aborted}
=============================================================================
