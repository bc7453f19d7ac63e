-------------------------- MODULE SessionProcessor --------------------------
(***************************************************************************)
(* The session processor of InvokeAI and the queue it drains                *)
(* (session_processor_default.py, session_queue_sqlite.py,                  *)
(* api/routers/session_queue.py, events_fastapievents.py).                  *)
(*                                                                          *)
(* Three kinds of threads share the session_queue table and the             *)
(* processor's threading.Event flags, with no lock between them:            *)
(*   - the processor thread (_process, DefaultSessionRunner.run);           *)
(*   - the event-loop thread, which runs the API handlers to completion one *)
(*     after the other and, between them, the listeners of queued events;   *)
(*   - one worker thread per enqueue_batch call (asyncio.to_thread).        *)
(* A step is one SQL statement with its commit, one event emitted, or the   *)
(* code between two of them.                                                *)
(***************************************************************************)
EXTENDS SessionQueue, Sequences

CONSTANTS
    MaxQueueSize,    \* configuration.max_queue_size
    ClearOnStartup,  \* configuration.clear_queue_on_startup
    Workers,         \* bound: concurrent enqueue_batch calls
    Batches,         \* the batches clients may enqueue
    Requests,        \* the kinds of requests that clients make
    Faults,          \* the kinds of faults that happen
    Budget,          \* bound: items asked for, requests made, faults
    MaxBacklog,      \* bound: unhandled events when dequeue raises (once more)
    NoItem           \* self._queue_item is None

RequestKinds == {"cancel_item", "cancel_batch", "cancel_destination",
                 "cancel_queue", "cancel_others", "clear", "prune", "retry",
                 "pause", "resume", "shutdown"}
FaultKinds == {"crash", "node_error", "processor_error"}

\* What happens finitely often.
Kinds == {"items", "requests", "faults"}

\* Batch, with its session count and the size of its graph.
Batch == [id : BatchIds, queue : Queues, dest : Destinations \cup {NoDestination},
          vals : BOOLEAN, count : Nat, nodes : 0 .. MaxNodes, prepend : BOOLEAN]

\* SessionQueueItem: the copy of a row that the processor works on.
Item == [id : ItemIds, queue : Queues, status : Statuses,
         left : 0 .. MaxNodes, err : BOOLEAN]

ASSUME SessionProcessorAssumption ==
    /\ MaxQueueSize \in Nat
    /\ ClearOnStartup \in BOOLEAN
    /\ Batches \subseteq Batch
    /\ Requests \subseteq RequestKinds
    /\ Faults \subseteq FaultKinds
    /\ Budget \in [Kinds -> Nat]
    /\ Budget["items"] + (IF "retry" \in Requests THEN Budget["requests"] ELSE 0)
         <= MaxItems
    /\ MaxBacklog \in Nat
    /\ NoItem \notin Item
    /\ IsFiniteSet(Workers)

VARIABLES
    rows,      \* the session_queue table
    nextId,    \* the next AUTOINCREMENT id
    proc,      \* where the processor thread is
    step,      \* where it is within _set_queue_item_status
    fetched,   \* the item dequeue is about to return
    cur,       \* self._queue_item
    cancelEvent, pollNow, resumeEvent, stopEvent,   \* threading.Event flags
    events,    \* FastAPIEventService._queue
    loop,      \* the API handler suspended between two of its statements
    enq,       \* per worker thread, the enqueue_batch call it runs
    serving,   \* FALSE once ApiDependencies.shutdown has run
    budget,    \* what is left of Budget
    ran,       \* history: the items whose run began
    recalled   \* history: the items that a client canceled by id, and those
               \* that were current when a clear of their queue was heard of

flags == <<cancelEvent, pollNow, resumeEvent, stopEvent>>
vars == <<rows, nextId, proc, step, fetched, cur, flags, events, loop, enq,
          serving, budget, ran, recalled>>

-----------------------------------------------------------------------------
(* Events. *)

StatusChanged(i, q, s) == [kind |-> "status", item |-> i, queue |-> q, status |-> s]
QueueCleared(q) == [kind |-> "cleared", item |-> 0, queue |-> q, status |-> "canceled"]
BatchEnqueued(q) == [kind |-> "enqueued", item |-> 0, queue |-> q, status |-> "pending"]
Event == [kind : {"status", "cleared", "enqueued"}, item : 0 .. MaxItems,
          queue : Queues, status : Statuses]

Emit(e) == events' = Append(events, e)

Spend(k, n) ==
    /\ budget[k] >= n
    /\ budget' = [budget EXCEPT ![k] = @ - n]

Fault(kind) == kind \in Faults /\ Spend("faults", 1)

-----------------------------------------------------------------------------
(* The states of the threads. *)

\* In these the processor is inside _set_queue_item_status, called by dequeue,
\* _on_node_error, _on_after_run_session, _on_non_fatal_processor_error.
Calling == {"marking", "failing_node", "completing", "failing_item"}
\* The session runner is at work on cur.
Running == {"next", "node", "node_error", "failing_node", "save", "completing"}
Waiting == {"idle", "backoff"}    \* poll_now_event.wait(polling_interval)
Halted == {"stopped", "dead"}     \* _process returned, or hit a fatal error
ProcStates == Calling \cup Running \cup Waiting \cup Halted \cup
              {"start", "top", "gate", "select", "assign", "clear", "error"}

Steps == {"update", "read", "emit"}

LoopIdle == [at |-> "idle", op |-> "none", item |-> 0, queue |-> DefaultQueue,
             key |-> NoDestination, seen |-> "pending"]
Loop == [at : Steps \cup {"idle", "bulk", "delete"},
         op : {"none", "cancel_item", "cancel_batch", "cancel_destination",
               "cancel_queue", "clear"},
         item : 0 .. MaxItems, queue : Queues,
         key : BatchIds \cup Destinations \cup {NoDestination},
         seen : Statuses]

EnqIdle == [at |-> "idle"]
Enq == {EnqIdle} \cup
       [at : {"count", "insert", "announce"}, batch : Batches,
        prio : Nat, room : Int]

ItemOf(i) == [id |-> i, queue |-> rows[i].queue, status |-> rows[i].status,
              left |-> rows[i].left, err |-> rows[i].err]

TypeOK ==
    /\ rows \in Tables
    /\ nextId \in Nat
    /\ proc \in ProcStates
    /\ step \in Steps
    /\ fetched \in Item \cup {NoItem}
    /\ cur \in Item \cup {NoItem}
    /\ cancelEvent \in BOOLEAN
    /\ pollNow \in BOOLEAN
    /\ resumeEvent \in BOOLEAN
    /\ stopEvent \in BOOLEAN
    /\ events \in Seq(Event)
    /\ loop \in Loop
    /\ enq \in [Workers -> Enq]
    /\ serving \in BOOLEAN
    /\ budget \in [Kinds -> Nat]
    /\ ran \subseteq ItemIds
    /\ recalled \subseteq ItemIds

-----------------------------------------------------------------------------
(* Start-up.  SqliteSessionQueue.start runs before the processor's start,   *)
(* which runs before the server serves requests.                            *)

StartedProcess ==
    /\ proc' = "start" /\ step' = "update"
    /\ fetched' = NoItem /\ cur' = NoItem
    /\ cancelEvent' = FALSE /\ pollNow' = FALSE
    /\ resumeEvent' = FALSE /\ stopEvent' = FALSE
    /\ events' = IF ClearOnStartup THEN <<QueueCleared(DefaultQueue)>> ELSE <<>>
    /\ loop' = LoopIdle
    /\ enq' = [w \in Workers |-> EnqIdle]
    /\ serving' = TRUE

Init ==
    /\ rows = [i \in ItemIds |-> NoRow]
    /\ nextId = 1
    /\ proc = "start" /\ step = "update"
    /\ fetched = NoItem /\ cur = NoItem
    /\ cancelEvent = FALSE /\ pollNow = FALSE
    /\ resumeEvent = FALSE /\ stopEvent = FALSE
    /\ events = IF ClearOnStartup THEN <<QueueCleared(DefaultQueue)>> ELSE <<>>
    /\ loop = LoopIdle
    /\ enq = [w \in Workers |-> EnqIdle]
    /\ serving = TRUE
    /\ budget = Budget
    /\ ran = {}
    /\ recalled = {}

\* The process is killed and started again: only the table survives.
Restart ==
    /\ Fault("crash")
    /\ rows' = Started(rows, ClearOnStartup)
    /\ StartedProcess
    /\ UNCHANGED <<nextId, ran, recalled>>

-----------------------------------------------------------------------------
(* The processor thread: DefaultSessionProcessor._process.                  *)

\* Frames of the processor's actions: what no step of it but Emit touches.
others == <<nextId, resumeEvent, loop, enq, serving, recalled>>

Begin ==
    /\ proc = "start"
    /\ proc' = "top"
    /\ stopEvent' = FALSE /\ resumeEvent' = TRUE /\ cancelEvent' = FALSE
    /\ UNCHANGED <<rows, nextId, step, fetched, cur, pollNow, events, loop, enq,
                   serving, budget, ran, recalled>>

\* The finally block, however _process ends.
Halt(how) ==
    /\ proc' = how
    /\ stopEvent' = FALSE /\ pollNow' = FALSE
    /\ cur' = NoItem

\* Fault: the loop does not look at the stop event.
LoopTopForever ==
    /\ proc = "top"
    /\ proc' = "gate" /\ pollNow' = FALSE
    /\ UNCHANGED <<rows, step, fetched, cur, cancelEvent, stopEvent, events,
                   budget, ran, others>>

\* while not stop_event.is_set(): poll_now_event.clear()
LoopTop ==
    /\ proc = "top"
    /\ IF stopEvent
       THEN Halt("stopped")
       ELSE /\ proc' = "gate"
            /\ pollNow' = FALSE
            /\ UNCHANGED <<stopEvent, cur>>
    /\ UNCHANGED <<rows, step, fetched, cancelEvent, events, budget, ran, others>>

\* resume_event.wait()
Gate ==
    /\ proc = "gate" /\ resumeEvent
    /\ proc' = "select"
    /\ UNCHANGED <<rows, step, fetched, cur, cancelEvent, pollNow, stopEvent,
                   events, budget, ran, others>>

\* Fault: an empty queue ends the loop.
DequeueNothingStops ==
    /\ proc = "select" /\ InStatus(rows, "pending") = {}
    /\ Halt("stopped")
    /\ UNCHANGED <<rows, step, fetched, cancelEvent, events, budget, ran, others>>

\* dequeue's SELECT.  A row whose session does not parse raises, and _process
\* handles the exception with the previous item in self._queue_item.
DequeueNothing ==
    /\ proc = "select" /\ InStatus(rows, "pending") = {}
    /\ proc' = "idle" /\ cur' = NoItem
    /\ UNCHANGED <<rows, step, fetched, cancelEvent, pollNow, stopEvent,
                   events, budget, ran, others>>

DequeueSelect(i) ==
    /\ proc = "select" /\ IsNext(rows, i)
    /\ IF rows[i].intact
       THEN /\ proc' = "marking" /\ step' = "update"
            /\ fetched' = ItemOf(i)
       ELSE /\ Len(events) <= MaxBacklog
            /\ proc' = "error"
            /\ UNCHANGED <<step, fetched>>
    /\ UNCHANGED <<rows, cur, cancelEvent, pollNow, stopEvent, events, budget,
                   ran, others>>

\* self._queue_item = dequeue()
Assign ==
    /\ proc = "assign"
    /\ cur' = fetched /\ fetched' = NoItem
    /\ proc' = "clear"
    /\ UNCHANGED <<rows, step, cancelEvent, pollNow, stopEvent, events, budget,
                   ran, others>>

\* cancel_event.clear(), and the run begins
BeginRun ==
    /\ proc = "clear"
    /\ cancelEvent' = FALSE
    /\ ran' = ran \cup {cur.id}
    /\ proc' = "next"
    /\ UNCHANGED <<rows, step, fetched, cur, pollNow, stopEvent, events, budget,
                   others>>

\* poll_now_event.wait(polling_interval) returns: the event is set, or the
\* interval has passed.
Wake ==
    /\ proc \in Waiting
    /\ proc' = "top"
    /\ UNCHANGED <<rows, step, fetched, cur, cancelEvent, pollNow, stopEvent,
                   events, budget, ran, others>>

-----------------------------------------------------------------------------
(* The processor thread: DefaultSessionRunner.run.                          *)

Goto(pc) ==
    /\ proc' = pc
    /\ UNCHANGED <<rows, step, fetched, cancelEvent, pollNow, stopEvent, events,
                   ran, others>>

\* Fault: None from session.next() is not checked for.
NextInvocationUnchecked ==
    /\ proc = "next"
    /\ Goto(IF cancelEvent THEN "save" ELSE "node")
    /\ UNCHANGED <<cur, budget>>

\* session.next() returns None, or an invocation unless the cancel event is set
NextInvocation ==
    /\ proc = "next"
    /\ Goto(IF cur.left = 0 \/ cancelEvent THEN "save" ELSE "node")
    /\ UNCHANGED <<cur, budget>>

\* session.next() raises NodeInputError
NextNodeInputError ==
    /\ proc = "next" /\ cur.left > 0
    /\ Fault("node_error")
    /\ cur' = [cur EXCEPT !.err = TRUE]
    /\ Goto("node_error")

\* Anything else raised outside run_node is a processor error.
NextProcessorError ==
    /\ proc = "next"
    /\ Fault("processor_error")
    /\ Goto("error")
    /\ UNCHANGED cur

\* run_node invokes the node and completes it; the run goes on unless the
\* session is complete or canceled.
RunNode ==
    /\ proc = "node"
    /\ cur' = [cur EXCEPT !.left = @ - 1]
    /\ Goto(IF cur.left = 1 \/ cancelEvent \/ cur.status \in Terminal
            THEN "save" ELSE "next")
    /\ UNCHANGED budget

\* The node's step callback raises CanceledException.
RunNodeCanceled ==
    /\ proc = "node" /\ cancelEvent
    /\ Goto("save")
    /\ UNCHANGED <<cur, budget>>

\* The node raises: _on_node_error records it in the session.
RunNodeError ==
    /\ proc = "node"
    /\ Fault("node_error")
    /\ cur' = [cur EXCEPT !.err = TRUE]
    /\ Goto("node_error")

\* set_queue_item_session(i, session): the row is updated and read again, or
\* SessionQueueItemNotFoundError is raised.  Nobody else writes the session
\* column, so the two statements are one step.
SaveSession(found, missing) ==
    /\ rows' = SetSession(rows, cur.id, cur.left, cur.err)
    /\ proc' = IF rows[cur.id] = NoRow THEN missing ELSE found
    /\ step' = "update"
    /\ UNCHANGED <<fetched, cancelEvent, pollNow, stopEvent, events, budget,
                   ran, others>>

\* _on_node_error, raising to the handler in _process
NodeErrorSave ==
    /\ proc = "node_error"
    /\ SaveSession("failing_node", "error")
    /\ UNCHANGED cur

\* Fault: the test of the status is inverted.
AfterRunSessionInverted ==
    /\ proc = "save"
    /\ SaveSession(IF rows[cur.id] # NoRow /\ rows[cur.id].status \in {"canceled", "failed"}
                   THEN "completing" ELSE "top",
                   "top")
    /\ UNCHANGED cur

\* _on_after_run_session: a missing row is ignored, and a canceled or failed
\* one is not completed.
AfterRunSession ==
    /\ proc = "save"
    /\ SaveSession(IF rows[cur.id] # NoRow /\ rows[cur.id].status \in {"canceled", "failed"}
                   THEN "top" ELSE "completing",
                   "top")
    /\ UNCHANGED cur

\* _on_non_fatal_processor_error.  A missing row makes it raise, out of the
\* handler and of the loop: a fatal error.
ProcessorError ==
    /\ proc = "error" /\ cur # NoItem
    /\ IF rows[cur.id] # NoRow
       THEN SaveSession("failing_item", "dead") /\ UNCHANGED cur
       ELSE /\ Halt("dead")
            /\ UNCHANGED <<rows, step, fetched, cancelEvent, events, budget, ran,
                           others>>

ProcessorErrorNoItem ==
    /\ proc = "error" /\ cur = NoItem
    /\ Goto("backoff")
    /\ UNCHANGED <<cur, budget>>

-----------------------------------------------------------------------------
(* The processor thread inside _set_queue_item_status: UPDATE and commit,   *)
(* read the row back, emit an event that carries the row as read.           *)

\* The item and the status that the caller passes.
Target == IF proc = "marking" THEN fetched.id ELSE cur.id
NewStatus == CASE proc = "marking" -> "in_progress"
               [] proc = "completing" -> "completed"
               [] proc \in {"failing_node", "failing_item"} -> "failed"

\* The UPDATE has no condition on the status that the row has by now.
StatusUpdate ==
    /\ proc \in Calling /\ step = "update"
    /\ rows' = SetStatus(rows, Target, NewStatus)
    /\ step' = "read"
    /\ UNCHANGED <<proc, fetched, cur, cancelEvent, pollNow, stopEvent, events,
                   budget, ran, others>>

\* get_queue_item
StatusRead ==
    /\ proc \in Calling /\ step = "read" /\ rows[Target] # NoRow
    /\ fetched' = ItemOf(Target)
    /\ step' = "emit"
    /\ UNCHANGED <<rows, proc, cur, cancelEvent, pollNow, stopEvent, events,
                   budget, ran, others>>

\* get_queue_item raises SessionQueueItemNotFoundError.
StatusReadMissing ==
    /\ proc \in Calling /\ step = "read" /\ rows[Target] = NoRow
    /\ step' = "update" /\ fetched' = NoItem
    /\ CASE proc = "completing" ->
              proc' = "top" /\ UNCHANGED <<stopEvent, pollNow, cur>>
         [] proc = "failing_item" -> Halt("dead")
         [] OTHER -> proc' = "error" /\ UNCHANGED <<stopEvent, pollNow, cur>>
    /\ UNCHANGED <<rows, cancelEvent, events, budget, ran, others>>

\* emit_queue_item_status_changed, and return to the caller.
StatusEmit ==
    /\ proc \in Calling /\ step = "emit"
    /\ Emit(StatusChanged(fetched.id, fetched.queue, fetched.status))
    /\ step' = "update"
    /\ proc' = CASE proc = "marking" -> "assign"
                 [] proc = "failing_node" -> "save"
                 [] proc = "completing" -> "top"
                 [] proc = "failing_item" -> "backoff"
    /\ fetched' = IF proc = "marking" THEN fetched ELSE NoItem
    /\ UNCHANGED <<rows, cur, cancelEvent, pollNow, stopEvent, budget, ran, others>>

Processor ==
    \/ Begin \/ LoopTop \/ Gate \/ DequeueNothing
    \/ \E i \in ItemIds : DequeueSelect(i)
    \/ Assign \/ BeginRun \/ Wake
    \/ NextInvocation \/ NextNodeInputError \/ NextProcessorError
    \/ RunNode \/ RunNodeCanceled \/ RunNodeError
    \/ NodeErrorSave \/ AfterRunSession \/ ProcessorError \/ ProcessorErrorNoItem
    \/ StatusUpdate \/ StatusRead \/ StatusReadMissing \/ StatusEmit

-----------------------------------------------------------------------------
(* The event-loop thread: listeners of the processor.  An event is handled  *)
(* when the loop is between handlers; none is after shutdown.               *)

LoopFree == serving /\ loop = LoopIdle
procVars == <<proc, step, fetched, cur>>

TakeEvent(kind) ==
    /\ LoopFree /\ events # <<>> /\ Head(events).kind = kind
    /\ events' = Tail(events)
    /\ UNCHANGED <<rows, nextId, procVars, resumeEvent, stopEvent, loop, enq,
                   serving, budget, ran>>

\* Fault: the item of the event is not compared with the current one.
OnAnyItemStatusChanged ==
    /\ TakeEvent("status")
    /\ LET e == Head(events)
           ours == cur # NoItem
       IN  /\ cancelEvent' = (cancelEvent \/ (ours /\ e.status = "canceled"))
           /\ pollNow' = (pollNow \/ (ours /\ e.status \in Terminal))
    /\ UNCHANGED recalled

\* An event for another item than self._queue_item is ignored.
OnQueueItemStatusChanged ==
    /\ TakeEvent("status")
    /\ LET e == Head(events)
           ours == cur # NoItem /\ cur.id = e.item
       IN  /\ cancelEvent' = (cancelEvent \/ (ours /\ e.status = "canceled"))
           /\ pollNow' = (pollNow \/ (ours /\ e.status \in Terminal))
    /\ UNCHANGED recalled

OnQueueCleared ==
    /\ TakeEvent("cleared")
    /\ LET ours == cur # NoItem /\ cur.queue = Head(events).queue
       IN  /\ cancelEvent' = (cancelEvent \/ ours)
           /\ pollNow' = (pollNow \/ ours)
           /\ recalled' = IF ours THEN recalled \cup {cur.id} ELSE recalled

\* Fault: like the other listeners, this one looks for a current item.
OnBatchEnqueuedWhenBusy ==
    /\ TakeEvent("enqueued")
    /\ pollNow' = (pollNow \/ cur # NoItem)
    /\ UNCHANGED <<cancelEvent, recalled>>

OnBatchEnqueued ==
    /\ TakeEvent("enqueued")
    /\ pollNow' = TRUE
    /\ UNCHANGED <<cancelEvent, recalled>>

-----------------------------------------------------------------------------
(* The event-loop thread: API handlers that are one statement.              *)

Request(kind) == LoopFree /\ kind \in Requests /\ Spend("requests", 1)

\* Handlers that only change the table.
ChangeRows(t) ==
    /\ rows' = t
    /\ UNCHANGED <<nextId, procVars, flags, events, loop, enq, serving, ran, recalled>>

CancelAllExceptCurrent(q) ==
    /\ Request("cancel_others")
    /\ ChangeRows(CancelAll(rows, Pending(rows, q)))

Prune(q) ==
    /\ Request("prune")
    /\ ChangeRows(DeleteAll(rows, {i \in InQueue(rows, q) : rows[i].status \in Terminal}))

\* retry_items_by_id for one item: one more row, or an IntegrityError that is
\* rolled back.  QueueItemsRetriedEvent has no listener in the processor.
RetryItem(i) ==
    /\ Request("retry")
    /\ rows[i] # NoRow /\ rows[i].status \in {"failed", "canceled"}
    /\ rows[i].intact
    /\ IF RetryInsertable(rows, rows[i])
       THEN /\ rows' = InsertMany(rows, nextId, 1, RetriedRow(rows[i]))
            /\ nextId' = nextId + 1
       ELSE UNCHANGED <<rows, nextId>>
    /\ UNCHANGED <<procVars, flags, events, loop, enq, serving, ran, recalled>>

Pause ==
    /\ Request("pause")
    /\ resumeEvent' = FALSE
    /\ UNCHANGED <<rows, nextId, procVars, cancelEvent, pollNow, stopEvent,
                   events, loop, enq, serving, ran, recalled>>

Resume ==
    /\ Request("resume")
    /\ resumeEvent' = TRUE
    /\ UNCHANGED <<rows, nextId, procVars, cancelEvent, pollNow, stopEvent,
                   events, loop, enq, serving, ran, recalled>>

\* ApiDependencies.shutdown: the processor's stop, the event service's stop.
Shutdown ==
    /\ Request("shutdown")
    /\ serving' = FALSE /\ stopEvent' = TRUE
    /\ UNCHANGED <<rows, nextId, procVars, cancelEvent, pollNow, resumeEvent,
                   events, loop, enq, ran, recalled>>

-----------------------------------------------------------------------------
(* The event-loop thread: API handlers of several statements.  loop holds   *)
(* the handler's local state; other threads run between its statements.     *)

\* What a handler leaves alone.
handlerFrame == <<nextId, procVars, flags, enq, serving, ran, recalled>>

Enter(h) == loop' = [LoopIdle EXCEPT !.at = h.at, !.op = h.op, !.item = h.item,
                                     !.queue = h.queue, !.key = h.key]

\* cancel_queue_item, of an item in any state.
CancelQueueItem(i) ==
    /\ Request("cancel_item")
    /\ rows[i] # NoRow
    /\ Enter([at |-> "update", op |-> "cancel_item", item |-> i,
              queue |-> rows[i].queue, key |-> NoDestination])
    /\ recalled' = recalled \cup {i}
    /\ UNCHANGED <<rows, events, nextId, procVars, flags, enq, serving, ran>>

\* get_current: LIMIT 1 of the in_progress rows, or None (0).
IsCurrent(q, i) ==
    \/ i \in Current(rows, q)
    \/ i = 0 /\ Current(rows, q) = {}

\* The rows that the WHERE clause of a bulk cancellation names.
Matching(op, key) ==
    {i \in Existing(rows) : CASE op = "cancel_batch" -> rows[i].batch = key
                              [] op = "cancel_destination" -> rows[i].dest = key
                              [] op = "cancel_queue" -> TRUE}

\* cancel_by_batch_ids, cancel_by_destination and cancel_by_queue_id: the
\* current item is remembered, if it matches, before any row is changed.
CancelBy(op, q, key) ==
    /\ Request(op)
    /\ \E i \in 0 .. MaxItems :
          /\ IsCurrent(q, i)
          /\ Enter([at |-> "bulk", op |-> op, queue |-> q, key |-> key,
                    item |-> IF i \in Matching(op, key) THEN i ELSE 0])
    /\ UNCHANGED <<rows, events, handlerFrame>>

CancelByBatchIds(q, b) == CancelBy("cancel_batch", q, b)
CancelByDestination(q, d) == CancelBy("cancel_destination", q, d)
CancelByQueueId(q) == CancelBy("cancel_queue", q, NoDestination)

\* The router's clear: get_current, then cancel_queue_item or straight to clear.
Clear(q) ==
    /\ Request("clear")
    /\ \E i \in 0 .. MaxItems :
          /\ IsCurrent(q, i)
          /\ Enter([at |-> IF i = 0 THEN "delete" ELSE "update", op |-> "clear",
                    item |-> i, queue |-> q, key |-> NoDestination])
    /\ UNCHANGED <<rows, events, handlerFrame>>

\* UPDATE and commit.  The stale current item is then canceled through
\* _set_queue_item_status; cancel_by_queue_id only emits an event, with the
\* item as get_current read it.
BulkCancel ==
    /\ loop.at = "bulk"
    /\ rows' = CancelAll(rows, Unfinished(rows, loop.queue) \cap Matching(loop.op, loop.key))
    /\ loop' = IF loop.item = 0 THEN LoopIdle
               ELSE IF loop.op = "cancel_queue"
                    THEN [loop EXCEPT !.at = "emit", !.seen = "in_progress"]
                    ELSE [loop EXCEPT !.at = "update"]
    /\ UNCHANGED <<events, budget, handlerFrame>>

\* _set_queue_item_status(item, "canceled"), step by step
CancelUpdate ==
    /\ loop.at = "update"
    /\ rows' = SetStatus(rows, loop.item, "canceled")
    /\ loop' = [loop EXCEPT !.at = "read"]
    /\ UNCHANGED <<events, budget, handlerFrame>>

\* A row that is gone, or whose session does not parse, raises and ends the
\* handler: clear does not clear.
CancelRead ==
    /\ loop.at = "read"
    /\ loop' = IF rows[loop.item] = NoRow \/ ~rows[loop.item].intact THEN LoopIdle
               ELSE [loop EXCEPT !.at = "emit", !.seen = rows[loop.item].status]
    /\ UNCHANGED <<rows, events, budget, handlerFrame>>

CancelEmit ==
    /\ loop.at = "emit"
    /\ Emit(StatusChanged(loop.item, loop.queue, loop.seen))
    /\ loop' = IF loop.op = "clear" THEN [loop EXCEPT !.at = "delete"] ELSE LoopIdle
    /\ UNCHANGED <<rows, budget, handlerFrame>>

\* SqliteSessionQueue.clear: delete, commit, emit.  The loop thread emits, so
\* no listener runs in between.
ClearDelete ==
    /\ loop.at = "delete"
    /\ rows' = DeleteAll(rows, InQueue(rows, loop.queue))
    /\ Emit(QueueCleared(loop.queue))
    /\ loop' = LoopIdle
    /\ UNCHANGED <<budget, handlerFrame>>

-----------------------------------------------------------------------------
(* The enqueue_batch calls, each in a worker thread.                        *)

enqFrame == <<procVars, flags, loop, serving, ran, recalled>>

EnqueueBatch(w, b) ==
    /\ LoopFree /\ enq[w] = EnqIdle
    /\ Spend("items", b.count)
    /\ enq' = [enq EXCEPT ![w] = [at |-> "count", batch |-> b, prio |-> 0, room |-> 0]]
    /\ UNCHANGED <<rows, nextId, events, enqFrame>>

\* max_queue_size - _get_current_queue_size(), and the priority.
EnqueueCount(w) ==
    /\ enq[w].at = "count"
    /\ LET b == enq[w].batch
       IN  \E p \in {0} \cup {rows[i].prio : i \in Existing(rows)} :
              /\ IsHighestPriority(rows, b.queue, p)
              /\ enq' = [enq EXCEPT
                    ![w].at = "insert",
                    ![w].prio = IF b.prepend THEN p + 1 ELSE 0,
                    ![w].room = MaxQueueSize - Cardinality(Pending(rows, b.queue))]
    /\ UNCHANGED <<rows, nextId, events, budget, enqFrame>>

\* Fault: max_new_queue_items is not applied.
EnqueuedUncapped(e) == e.batch.count

\* As many sessions of the batch as there was room for, in one executemany.
Enqueued(e) == IF e.batch.count <= e.room THEN e.batch.count
               ELSE IF e.room > 0 THEN e.room ELSE 0

EnqueueInsert(w) ==
    /\ enq[w].at = "insert"
    /\ rows' = InsertMany(rows, nextId, Enqueued(enq[w]), NewRow(enq[w].batch, enq[w].prio))
    /\ nextId' = nextId + Enqueued(enq[w])
    /\ enq' = [enq EXCEPT ![w].at = "announce"]
    /\ UNCHANGED <<events, budget, enqFrame>>

EnqueueAnnounce(w) ==
    /\ enq[w].at = "announce"
    /\ Emit(BatchEnqueued(enq[w].batch.queue))
    /\ enq' = [enq EXCEPT ![w] = EnqIdle]
    /\ UNCHANGED <<rows, nextId, budget, enqFrame>>

-----------------------------------------------------------------------------
Listener == OnQueueItemStatusChanged \/ OnQueueCleared \/ OnBatchEnqueued
Handler == BulkCancel \/ CancelUpdate \/ CancelRead \/ CancelEmit \/ ClearDelete
Worker(w) == EnqueueCount(w) \/ EnqueueInsert(w) \/ EnqueueAnnounce(w)

\* The requests clients may make.
Client ==
    \/ \E w \in Workers, b \in Batches : EnqueueBatch(w, b)
    \/ \E i \in ItemIds : CancelQueueItem(i) \/ RetryItem(i)
    \/ \E q \in Queues :
          \/ \E b \in BatchIds : CancelByBatchIds(q, b)
          \/ \E d \in Destinations : CancelByDestination(q, d)
          \/ CancelByQueueId(q) \/ CancelAllExceptCurrent(q)
          \/ Clear(q) \/ Prune(q)
    \/ Pause \/ Resume \/ Shutdown

Next ==
    \/ Processor \/ Listener \/ Handler
    \/ \E w \in Workers : Worker(w)
    \/ Client \/ Restart

Spec == Init /\ [][Next]_vars

\* Threads are scheduled and the event loop runs; clients and faults owe
\* nothing.
FairSpec ==
    /\ Spec
    /\ WF_vars(Processor)
    /\ WF_vars(Listener) /\ WF_vars(Handler)
    /\ \A w \in Workers : WF_vars(Worker(w))

-----------------------------------------------------------------------------
(* Safety. *)

\* The item that dequeue has marked and the processor has yet to run.
Marked ==
    CASE (proc = "marking" /\ step # "update") \/ proc = "assign" -> {fetched.id}
      [] proc = "clear" -> {cur.id}
      [] OTHER -> {}

\* The item that the processor answers for: marked, or run and not yet given
\* its outcome.
Owned ==
    IF \/ proc \in {"next", "node", "node_error", "save"}
       \/ proc \in Calling \ {"marking"} /\ step = "update"
       \/ proc = "error" /\ cur # NoItem
    THEN {cur.id} ELSE Marked

\* session_processor_base.py: the processor coordinates with the queue so
\* that only one session executes at a time.  Whatever clients, faults and
\* restarts do between the statements of a dequeue, a row is in_progress only
\* while the processor holds that very item: no row is left in_progress behind
\* it, and there is never a second one.
OneInProgress == InStatus(rows, "in_progress") \subseteq Owned

\* An item is completed only with no node error and all of its invocations
\* run, unless it was recalled by its own id or by a clear of its queue that
\* was heard of during its run.  An event about an item before it, late as it
\* may be, a bulk cancellation, a prune or an error never ends a run that is
\* then taken for a success.
CutShortWhenRecalled ==
    \A i \in InStatus(rows, "completed") :
        ~rows[i].err /\ (rows[i].left = 0 \/ i \in recalled)

\* Nor should those: the router's "immediately canceling the currently-executing
\* session" means the one of the time of the clear, canceled, not completed.
CompletedMeansRan ==
    \A i \in InStatus(rows, "completed") : rows[i].left = 0 /\ ~rows[i].err

\* dequeue orders by priority, then item_id: while rows are inserted and
\* canceled between its statements, no item of the same priority starts
\* before an older one that still waits.
StartsInOrder ==
    \A i, j \in Existing(rows) :
        i < j /\ rows[i].prio = rows[j].prio /\ j \in ran
            => rows[i].status # "pending" \/ i \in ran

\* The processor sleeps on an empty queue only: if an enqueued row waits while
\* it sleeps, the wake-up is on its way (the poll flag is set, or a worker is
\* about to emit BatchEnqueuedEvent, or that event is queued).  A retried row,
\* which is not intact, waits for the polling interval: nobody listens to
\* QueueItemsRetriedEvent.
NoLostWakeup ==
    proc = "idle" /\ serving /\ (\E i \in InStatus(rows, "pending") : rows[i].intact)
        => \/ pollNow
           \/ \E w \in Workers : enq[w].at = "announce"
           \/ \E n \in DOMAIN events : events[n].kind = "enqueued"

\* Each enqueue call counts the room in one statement and fills it in another:
\* calls that overlap may fill the same room, and retries ask for none.  The
\* excess stays bounded all the same: a worker thread never has more of its own
\* rows pending than max_queue_size, however the rows of the others come and
\* go, so all enqueued rows that wait are at most that many per thread.
QueueCapacity ==
    \A q \in Queues :
        Cardinality({i \in Pending(rows, q) : rows[i].intact})
            <= MaxQueueSize * Cardinality(Workers)

\* config_default.py:103: max_queue_size is the maximum number of items in the
\* queue.
PendingWithinLimit == \A q \in Queues : Cardinality(Pending(rows, q)) <= MaxQueueSize

\* The processor thread survives every request and every node error.
ProcessorSurvives == proc # "dead"

\* _on_queue_item_status_changed: a canceled item stops executing.  Once the
\* event loop has nothing left to do, an item that is canceled in the table
\* and still runs has the cancel event set.
CancelStops ==
    (proc \in {"next", "node"} /\ rows[cur.id] # NoRow /\ rows[cur.id].status = "canceled"
       /\ LoopFree /\ events = <<>>) => cancelEvent

\* _on_after_run_session: a canceled item is never completed.
NeverCompleteCanceled ==
    [][\A i \in InStatus(rows, "canceled") :
          rows'[i] = NoRow \/ rows'[i].status # "completed"]_vars

-----------------------------------------------------------------------------
(* Liveness. *)

\* Every waiting row is eventually taken, canceled or deleted, if in the end
\* the processor is neither paused nor stopped.
Progress ==
    <>[](serving /\ resumeEvent) =>
        \A i \in ItemIds : i \in InStatus(rows, "pending") ~> i \notin InStatus(rows, "pending")

\* Whatever happens, paused or not, no row stays in_progress forever.
InProgressEnds ==
    \A i \in ItemIds : i \in InStatus(rows, "in_progress") ~> i \notin InStatus(rows, "in_progress")

\* Once the thread is past its first lines, stop() ends it, if it is not paused.
StopEnds ==
    <>[]resumeEvent => (stopEvent /\ proc # "start" ~> proc \in Halted \/ serving)

\* What retry_items_by_id promises: a retried row is processed.
RetriedRowsEnd ==
    <>[](serving /\ resumeEvent) =>
        \A i \in ItemIds : (i \in InStatus(rows, "pending") /\ ~rows[i].intact)
                               ~> i \notin InStatus(rows, "pending")

-----------------------------------------------------------------------------
(* What makes the safety properties inductive. *)

\* The threads hold an item wherever they use one.
Held ==
    /\ proc \in {"marking", "assign"} => fetched \in Item
    /\ proc \in Calling /\ step = "emit" => fetched \in Item
    /\ proc \in Running \cup {"clear", "failing_item"} => cur \in Item
    /\ proc = "node" => cur.left > 0
    /\ loop.at \in Steps => loop.item \in ItemIds

\* The item that is to run next, from the SELECT on.
AboutToRun == IF proc \in {"marking", "assign"} THEN {fetched.id} ELSE Marked

\* Ids are given out once, an item about to run has not run, and an item that
\* ran or is marked is not pending: only its insertion makes a row pending.
RunsOnce ==
    /\ \A i \in ran \cup Existing(rows) \cup AboutToRun : i < nextId
    /\ AboutToRun \cap ran = {}
    /\ (ran \cup Marked) \cap InStatus(rows, "pending") = {}

IInv == TypeOK /\ Held /\ OneInProgress /\ RunsOnce

-----------------------------------------------------------------------------
(* The promise of QueueExecution, with the runner's cur as the active item. *)

executing == IF proc \in Running THEN cur.id ELSE 0
Execution == INSTANCE QueueExecution WITH
                 Items <- ItemIds, None <- 0, started <- ran, active <- executing

\* At most one item executes, none of them twice, across cancellations, errors,
\* retries and restarts of the process.
ExecutesAtMostOnce == Execution!Spec
=============================================================================
