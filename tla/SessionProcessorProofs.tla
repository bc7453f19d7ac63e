----------------------- MODULE SessionProcessorProofs -----------------------
(***************************************************************************)
(* Theorems about SessionProcessor, for any number of items, queues,        *)
(* batches, enqueue threads and requests.                                   *)
(***************************************************************************)
EXTENDS SessionProcessor, FiniteSetTheorems, TLAPS

USE SessionQueueAssumption, SessionProcessorAssumption

-----------------------------------------------------------------------------
(* What the SQL statements do to a table. *)

\* From table t to table u no row becomes in_progress, and no row becomes
\* pending or comes into being but those with ids from lo to hi - 1.
Settles(t, u, lo, hi) ==
    /\ InStatus(u, "in_progress") \subseteq InStatus(t, "in_progress")
    /\ InStatus(u, "pending") \subseteq InStatus(t, "pending") \cup (lo .. hi - 1)
    /\ Existing(u) \subseteq Existing(t) \cup (lo .. hi - 1)

\* UPDATE status keeps a table a table, and changes one row's status.
LEMMA SetStatusFacts ==
    ASSUME NEW t \in Tables, NEW i \in ItemIds, NEW s \in Statuses
    PROVE  /\ SetStatus(t, i, s) \in Tables
           /\ Existing(SetStatus(t, i, s)) = Existing(t)
           /\ InStatus(SetStatus(t, i, s), s) \subseteq InStatus(t, s) \cup {i}
           /\ \A x \in Statuses \ {s} :
                InStatus(SetStatus(t, i, s), x) \subseteq InStatus(t, x) \ {i}
  BY DEF SetStatus, Tables, Row, Statuses, InStatus, Existing

\* UPDATE session keeps a table a table, and changes no status.
LEMMA SetSessionFacts ==
    ASSUME NEW t \in Tables, NEW i \in ItemIds,
           NEW left \in 0 .. MaxNodes, NEW err \in BOOLEAN
    PROVE  /\ SetSession(t, i, left, err) \in Tables
           /\ Existing(SetSession(t, i, left, err)) = Existing(t)
           /\ \A x \in Statuses :
                InStatus(SetSession(t, i, left, err), x) = InStatus(t, x)
  <1> DEFINE r == [t[i] EXCEPT !.left = left, !.err = err]
  <1>1. CASE t[i] = NoRow
    BY <1>1 DEF SetSession
  <1>2. CASE t[i] # NoRow
    <2>1. t[i] \in Row
      BY <1>2 DEF Tables
    <2>2. r \in Row /\ r.status = t[i].status
      BY <2>1 DEF Row
    <2>3. SetSession(t, i, left, err) = [t EXCEPT ![i] = r]
      BY <1>2 DEF SetSession
    <2> HIDE DEF r
    <2> QED BY <1>2, <2>2, <2>3 DEF Tables, InStatus, Existing
  <1> QED BY <1>1, <1>2

\* The bulk UPDATE cancels existing rows.
LEMMA CancelAllFacts ==
    ASSUME NEW t \in Tables, NEW ids, ids \subseteq Existing(t)
    PROVE  /\ CancelAll(t, ids) \in Tables
           /\ Existing(CancelAll(t, ids)) = Existing(t)
           /\ \A x \in Statuses \ {"canceled"} :
                InStatus(CancelAll(t, ids), x) = InStatus(t, x) \ ids
  BY DEF CancelAll, Tables, Row, Statuses, InStatus, Existing

\* DELETE changes no status.
LEMMA DeleteAllFacts ==
    ASSUME NEW t \in Tables, NEW ids
    PROVE  /\ DeleteAll(t, ids) \in Tables
           /\ Existing(DeleteAll(t, ids)) \subseteq Existing(t)
           /\ \A x \in Statuses : InStatus(DeleteAll(t, ids), x) \subseteq InStatus(t, x)
  BY DEF DeleteAll, Tables, InStatus, Existing

\* INSERT of pending rows.
LEMMA InsertManyFacts ==
    ASSUME NEW t \in Tables, NEW first \in Nat, NEW k \in Nat,
           NEW r \in Row, r.status = "pending"
    PROVE  /\ InsertMany(t, first, k, r) \in Tables
           /\ Settles(t, InsertMany(t, first, k, r), first, first + k)
  BY DEF InsertMany, Tables, InStatus, Existing, Settles, ItemIds

\* UPDATEs to "canceled" and DELETEs add nothing that waits or runs.
LEMMA ChangesSettle ==
    ASSUME NEW t \in Tables, NEW lo, NEW hi
    PROVE  /\ \A i \in ItemIds : Settles(t, SetStatus(t, i, "canceled"), lo, hi)
           /\ \A ids \in SUBSET Existing(t) : Settles(t, CancelAll(t, ids), lo, hi)
           /\ \A ids : Settles(t, DeleteAll(t, ids), lo, hi)
  <1>1. "in_progress" \in Statuses /\ "pending" \in Statuses /\ "canceled" \in Statuses
    BY DEF Statuses
  <1>2. ASSUME NEW u, Existing(u) \subseteq Existing(t),
               InStatus(u, "in_progress") \subseteq InStatus(t, "in_progress"),
               InStatus(u, "pending") \subseteq InStatus(t, "pending")
        PROVE  Settles(t, u, lo, hi)
    BY <1>2 DEF Settles
  <1>3. ASSUME NEW i \in ItemIds PROVE Settles(t, SetStatus(t, i, "canceled"), lo, hi)
    BY <1>1, <1>2, SetStatusFacts
  <1>4. ASSUME NEW ids \in SUBSET Existing(t) PROVE Settles(t, CancelAll(t, ids), lo, hi)
    BY <1>1, <1>2, CancelAllFacts
  <1>5. ASSUME NEW ids PROVE Settles(t, DeleteAll(t, ids), lo, hi)
    BY <1>1, <1>2, DeleteAllFacts
  <1> QED BY <1>3, <1>4, <1>5

\* A restart leaves no row in progress, and makes none pending.
LEMMA StartedFacts ==
    ASSUME NEW t \in Tables, NEW c \in BOOLEAN
    PROVE  /\ Started(t, c) \in Tables
           /\ InStatus(Started(t, c), "in_progress") = {}
           /\ InStatus(Started(t, c), "pending") \subseteq InStatus(t, "pending")
           /\ Existing(Started(t, c)) \subseteq Existing(t)
  <1> DEFINE canceled == CancelAll(t, InStatus(t, "in_progress"))
  <1>1. InStatus(t, "in_progress") \subseteq Existing(t)
    BY DEF InStatus
  <1>2. /\ canceled \in Tables
        /\ InStatus(canceled, "in_progress") = {}
        /\ InStatus(canceled, "pending") \subseteq InStatus(t, "pending")
        /\ Existing(canceled) = Existing(t)
    BY <1>1, CancelAllFacts DEF Statuses
  <1>3. \A ids : /\ DeleteAll(canceled, ids) \in Tables
                 /\ InStatus(DeleteAll(canceled, ids), "in_progress") = {}
                 /\ InStatus(DeleteAll(canceled, ids), "pending") \subseteq InStatus(t, "pending")
                 /\ Existing(DeleteAll(canceled, ids)) \subseteq Existing(t)
    BY <1>2, DeleteAllFacts DEF Statuses
  <1> QED BY <1>3 DEF Started

\* The rows that enqueue_batch and retry_items_by_id insert.
LEMMA NewRowType ==
    ASSUME NEW b \in Batches, NEW p \in Nat
    PROVE  NewRow(b, p) \in Row /\ NewRow(b, p).status = "pending"
  BY DEF NewRow, Row, Batch, Statuses

LEMMA RetriedRowType ==
    ASSUME NEW r \in Row, r.dest \in Destinations
    PROVE  RetriedRow(r) \in Row /\ RetriedRow(r).status = "pending"
  BY DEF RetriedRow, Row, Statuses

-----------------------------------------------------------------------------
(* Type correctness. *)

\* What the processor's copy of a row is.
LEMMA ItemOfType ==
    ASSUME rows \in Tables, NEW i \in ItemIds, rows[i] # NoRow
    PROVE  ItemOf(i) \in Item
  BY DEF ItemOf, Item, Tables, Row

\* An event appended to the queue is of its type.
LEMMA EmitType ==
    ASSUME events \in Seq(Event), NEW e \in Event, Emit(e)
    PROVE  events' \in Seq(Event)
  BY DEF Emit

LEMMA EventTypes ==
    ASSUME NEW q \in Queues
    PROVE  /\ QueueCleared(q) \in Event
           /\ BatchEnqueued(q) \in Event
           /\ \A i \in ItemIds, st \in Statuses : StatusChanged(i, q, st) \in Event
  BY DEF QueueCleared, BatchEnqueued, StatusChanged, Event, Statuses, ItemIds

LEMMA SpendType ==
    ASSUME budget \in [Kinds -> Nat], NEW k \in Kinds, NEW n \in Nat, Spend(k, n)
    PROVE  budget' \in [Kinds -> Nat]
  BY DEF Spend

TypeInv == TypeOK /\ Held

\* Steps of the processor thread.
LEMMA ProcessorType == TypeInv /\ Processor => TypeInv'
  <1> SUFFICES ASSUME TypeOK, Held, Processor PROVE TypeOK' /\ Held'
    BY DEF TypeInv
  <1> USE DEF TypeOK, Held, others, ProcStates, Calling, Running, Waiting, Halted,
              Steps, Kinds
  <1>1. CASE Begin
    BY <1>1 DEF Begin
  <1>2. CASE LoopTop
    BY <1>2 DEF LoopTop, Halt
  <1>3. CASE Gate
    BY <1>3 DEF Gate
  <1>4. CASE DequeueNothing
    BY <1>4 DEF DequeueNothing
  <1>5. CASE \E i \in ItemIds : DequeueSelect(i)
    BY <1>5, ItemOfType DEF DequeueSelect, IsNext, InStatus, Existing
  <1>6. CASE Assign
    BY <1>6 DEF Assign
  <1>7. CASE BeginRun
    BY <1>7 DEF BeginRun, Item
  <1>8. CASE Wake
    BY <1>8 DEF Wake
  <1>9. CASE NextInvocation
    BY <1>9 DEF NextInvocation, Goto, Item
  <1>10. CASE NextNodeInputError
    BY <1>10, SpendType DEF NextNodeInputError, Goto, Item, Fault
  <1>11. CASE NextProcessorError
    BY <1>11, SpendType DEF NextProcessorError, Goto, Fault
  <1>12. CASE RunNode
    <2>1. cur \in Item /\ cur.left \in 1 .. MaxNodes
      BY <1>12 DEF RunNode, Item
    <2>2. cur' = [cur EXCEPT !.left = cur.left - 1] /\ cur.left - 1 \in 0 .. MaxNodes
      BY <1>12, <2>1 DEF RunNode
    <2>3. cur' \in Item
      BY <2>1, <2>2 DEF Item
    <2> QED BY <1>12, <2>3 DEF RunNode, Goto
  <1>13. CASE RunNodeCanceled
    BY <1>13 DEF RunNodeCanceled, Goto
  <1>14. CASE RunNodeError
    BY <1>14, SpendType DEF RunNodeError, Goto, Item, Fault
  <1>15. CASE NodeErrorSave
    BY <1>15, SetSessionFacts DEF NodeErrorSave, SaveSession, Item
  <1>16. CASE AfterRunSession
    <2>1. cur \in Item /\ cur.id \in ItemIds /\ cur.left \in 0 .. MaxNodes /\ cur.err \in BOOLEAN
      BY <1>16 DEF AfterRunSession, Item
    <2>2. rows' \in Tables
      BY <1>16, <2>1, SetSessionFacts DEF AfterRunSession, SaveSession
    <2>3. proc' \in {"top", "completing"} /\ step' = "update"
      BY <1>16 DEF AfterRunSession, SaveSession
    <2> QED BY <1>16, <2>1, <2>2, <2>3 DEF AfterRunSession, SaveSession
  <1>17. CASE ProcessorError
    <2>1. cur \in Item /\ cur.id \in ItemIds /\ cur.left \in 0 .. MaxNodes /\ cur.err \in BOOLEAN
      BY <1>17 DEF ProcessorError, Item
    <2>2. CASE rows[cur.id] # NoRow
      <3>1. rows' \in Tables
        BY <1>17, <2>1, <2>2, SetSessionFacts DEF ProcessorError, SaveSession
      <3> QED BY <1>17, <2>1, <2>2, <3>1 DEF ProcessorError, SaveSession
    <2>3. CASE rows[cur.id] = NoRow
      BY <1>17, <2>3 DEF ProcessorError, Halt
    <2> QED BY <2>2, <2>3
  <1>18. CASE ProcessorErrorNoItem
    BY <1>18 DEF ProcessorErrorNoItem, Goto
  <1>19. CASE StatusUpdate
    <2>1. Target \in ItemIds /\ NewStatus \in Statuses
      BY <1>19 DEF StatusUpdate, Target, NewStatus, Item, Statuses
    <2>2. rows' \in Tables
      BY <1>19, <2>1, SetStatusFacts DEF StatusUpdate
    <2> QED BY <1>19, <2>2 DEF StatusUpdate
  <1>20. CASE StatusRead
    BY <1>20, ItemOfType DEF StatusRead, Target, Item
  <1>21. CASE StatusReadMissing
    BY <1>21 DEF StatusReadMissing, Target, Halt
  <1>22. CASE StatusEmit
    BY <1>22, EventTypes, EmitType DEF StatusEmit, Item
  <1> QED BY <1>1, <1>2, <1>3, <1>4, <1>5, <1>6, <1>7, <1>8, <1>9, <1>10, <1>11, <1>12, <1>13, <1>14, <1>15, <1>16, <1>17, <1>18, <1>19, <1>20, <1>21, <1>22 DEF Processor

\* Steps of the listeners.
LEMMA ListenerType == TypeInv /\ Listener => TypeInv'
  <1> SUFFICES ASSUME TypeOK, Held, Listener PROVE TypeOK' /\ Held'
    BY DEF TypeInv
  <1> USE DEF TypeOK, Held, TakeEvent, LoopFree, procVars
  <1>1. events' \in Seq(Event)
    <2>1. events # <<>> /\ events' = Tail(events)
      BY DEF Listener, OnQueueItemStatusChanged, OnQueueCleared, OnBatchEnqueued
    <2> QED BY <2>1
  <1>2. CASE OnQueueItemStatusChanged
    BY <1>1, <1>2 DEF OnQueueItemStatusChanged
  <1>3. CASE OnQueueCleared
    <2>1. recalled' \subseteq ItemIds
      BY <1>3 DEF OnQueueCleared, Item
    <2> QED BY <1>1, <1>3, <2>1 DEF OnQueueCleared
  <1>4. CASE OnBatchEnqueued
    BY <1>1, <1>4 DEF OnBatchEnqueued
  <1> QED BY <1>2, <1>3, <1>4 DEF Listener

\* Steps of a handler between its first statement and its end.
LEMMA HandlerType == TypeInv /\ Handler => TypeInv'
  <1> SUFFICES ASSUME TypeOK, Held, Handler PROVE TypeOK' /\ Held'
    BY DEF TypeInv
  <1> USE DEF TypeOK, Held, handlerFrame, procVars, flags, Steps
  <1>0. LoopIdle \in Loop /\ LoopIdle.at = "idle"
    BY DEF LoopIdle, Loop, Statuses
  <1>1. CASE BulkCancel
    <2>1. Unfinished(rows, loop.queue) \cap Matching(loop.op, loop.key) \subseteq Existing(rows)
      BY DEF Matching
    <2>2. rows' \in Tables
      BY <1>1, <2>1, CancelAllFacts DEF BulkCancel
    <2>3. loop' \in Loop /\ (loop'.at \in Steps => loop'.item \in ItemIds)
      <3>1. CASE loop.item = 0
        BY <1>0, <1>1, <3>1 DEF BulkCancel
      <3>2. CASE loop.item # 0 /\ loop.op = "cancel_queue"
        <4>1. loop' = [loop EXCEPT !.at = "emit", !.seen = "in_progress"]
          BY <1>1, <3>2 DEF BulkCancel
        <4>2. loop' \in Loop
          BY <4>1 DEF Loop, Statuses
        <4>3. loop'.item = loop.item /\ loop.item \in 0 .. MaxItems
          BY <4>1 DEF Loop
        <4> QED BY <3>2, <4>2, <4>3 DEF ItemIds
      <3>3. CASE loop.item # 0 /\ loop.op # "cancel_queue"
        <4>1. loop' = [loop EXCEPT !.at = "update"]
          BY <1>1, <3>3 DEF BulkCancel
        <4>2. loop' \in Loop
          BY <4>1 DEF Loop
        <4>3. loop'.item = loop.item /\ loop.item \in 0 .. MaxItems
          BY <4>1 DEF Loop
        <4> QED BY <3>3, <4>2, <4>3 DEF ItemIds
      <3> QED BY <3>1, <3>2, <3>3
    <2> QED BY <1>1, <2>2, <2>3 DEF BulkCancel
  <1>2. CASE CancelUpdate
    <2>1. rows' \in Tables
      BY <1>2, SetStatusFacts DEF CancelUpdate, Statuses
    <2>2. loop' \in Loop /\ loop'.item = loop.item
      BY <1>2 DEF CancelUpdate, Loop
    <2> QED BY <1>2, <2>1, <2>2 DEF CancelUpdate
  <1>3. CASE CancelRead
    <2>1. rows[loop.item] # NoRow => rows[loop.item].status \in Statuses
      BY <1>3 DEF CancelRead, Tables, Row
    <2>2. loop' \in Loop /\ (loop'.at \in Steps => loop'.item \in ItemIds)
      BY <1>0, <1>3, <2>1 DEF CancelRead, Loop
    <2> QED BY <1>3, <2>2 DEF CancelRead
  <1>4. CASE CancelEmit
    <2>1. StatusChanged(loop.item, loop.queue, loop.seen) \in Event
      BY <1>4, EventTypes DEF CancelEmit, Loop
    <2>2. events' \in Seq(Event)
      BY <1>4, <2>1, EmitType DEF CancelEmit
    <2>3. loop' \in Loop /\ loop'.at \in {"idle", "delete"}
      BY <1>0, <1>4 DEF CancelEmit, Loop
    <2> QED BY <1>4, <2>2, <2>3 DEF CancelEmit
  <1>5. CASE ClearDelete
    <2>1. QueueCleared(loop.queue) \in Event
      BY EventTypes DEF Loop
    <2>2. events' \in Seq(Event)
      BY <1>5, <2>1, EmitType DEF ClearDelete
    <2>3. rows' \in Tables
      BY <1>5, DeleteAllFacts DEF ClearDelete
    <2> QED BY <1>0, <1>5, <2>2, <2>3 DEF ClearDelete
  <1> QED BY <1>1, <1>2, <1>3, <1>4, <1>5 DEF Handler

\* Steps of an enqueue_batch call.
LEMMA WorkerType == TypeInv /\ (\E w \in Workers : Worker(w)) => TypeInv'
  <1> SUFFICES ASSUME TypeOK, Held, NEW w \in Workers, Worker(w)
               PROVE  TypeOK' /\ Held'
    BY DEF TypeInv
  <1> USE DEF TypeOK, Held, enqFrame, procVars, flags
  <1> DEFINE e == enq[w]
  <1>0. e.at # "idle" => /\ e.batch \in Batches /\ e.prio \in Nat /\ e.room \in Int
                         /\ e.batch \in Batch
    BY DEF Enq, EnqIdle
  <1>1. CASE EnqueueCount(w)
    <2>1. Cardinality(Pending(rows, e.batch.queue)) \in Nat
      <3>1. IsFiniteSet(ItemIds)
        BY FS_Interval DEF ItemIds
      <3>2. Pending(rows, e.batch.queue) \subseteq ItemIds
        BY DEF Pending, InQueue, InStatus, Existing
      <3> QED BY <3>1, <3>2, FS_Subset, FS_CardinalityType
    <2>2. PICK p \in {0} \cup {rows[i].prio : i \in Existing(rows)} :
             enq' = [enq EXCEPT
                      ![w].at = "insert",
                      ![w].prio = IF e.batch.prepend THEN p + 1 ELSE 0,
                      ![w].room = MaxQueueSize - Cardinality(Pending(rows, e.batch.queue))]
      BY <1>1 DEF EnqueueCount
    <2>3. p \in Nat
      BY DEF Existing, Tables, Row
    <2>4. enq' \in [Workers -> Enq]
      <3>1. e.at = "count"
        BY <1>1 DEF EnqueueCount
      <3>2. e \in [at : {"count", "insert", "announce"}, batch : Batches, prio : Nat, room : Int]
        BY <3>1 DEF Enq, EnqIdle
      <3>3. e.batch.prepend \in BOOLEAN
        BY <1>0, <3>1 DEF Batch
      <3>4. enq'[w] \in [at : {"count", "insert", "announce"}, batch : Batches, prio : Nat, room : Int]
        <4> DEFINE c == Cardinality(Pending(rows, e.batch.queue))
                   n == IF e.batch.prepend THEN p + 1 ELSE 0
        <4>1. MaxQueueSize - c \in Int /\ n \in Nat
          BY <2>1, <2>3, <3>3
        <4>2. enq'[w] = [e EXCEPT !.at = "insert", !.prio = n, !.room = MaxQueueSize - c]
          BY <2>2
        <4> HIDE DEF c, n, e
        <4> QED BY <3>2, <4>1, <4>2
      <3> QED BY <2>2, <3>4 DEF Enq
    <2> QED BY <1>1, <2>4 DEF EnqueueCount
  <1>2. CASE EnqueueInsert(w)
    <2>1. Enqueued(e) \in Nat
      BY <1>0, <1>2 DEF EnqueueInsert, Enqueued, Batch
    <2>2. rows' \in Tables
      BY <1>0, <1>2, <2>1, NewRowType, InsertManyFacts DEF EnqueueInsert
    <2>3. enq' \in [Workers -> Enq]
      BY <1>0, <1>2 DEF EnqueueInsert, Enq, EnqIdle
    <2> QED BY <1>2, <2>1, <2>2, <2>3 DEF EnqueueInsert
  <1>3. CASE EnqueueAnnounce(w)
    <2>1. BatchEnqueued(e.batch.queue) \in Event
      BY <1>0, <1>3, EventTypes DEF EnqueueAnnounce, Batch
    <2>2. events' \in Seq(Event)
      BY <1>3, <2>1, EmitType DEF EnqueueAnnounce
    <2>3. enq' \in [Workers -> Enq]
      BY <1>3 DEF EnqueueAnnounce, Enq
    <2> QED BY <1>3, <2>2, <2>3 DEF EnqueueAnnounce
  <1> QED BY <1>1, <1>2, <1>3 DEF Worker

\* A request spends from the budget; a handler enters with its arguments.
LEMMA RequestType ==
    ASSUME budget \in [Kinds -> Nat], NEW k, Request(k)
    PROVE  budget' \in [Kinds -> Nat] /\ loop = LoopIdle
  BY SpendType DEF Request, LoopFree, Kinds

LEMMA EnterType ==
    ASSUME NEW h, Enter(h),
           h.at \in Steps \cup {"bulk", "delete"},
           h.op \in {"cancel_item", "cancel_batch", "cancel_destination",
                     "cancel_queue", "clear"},
           h.item \in 0 .. MaxItems, h.queue \in Queues,
           h.key \in BatchIds \cup Destinations \cup {NoDestination}
    PROVE  loop' \in Loop /\ loop'.at = h.at /\ loop'.item = h.item
  <1>1. loop' = [at |-> h.at, op |-> h.op, item |-> h.item, queue |-> h.queue,
                 key |-> h.key, seen |-> "pending"]
    BY DEF Enter, LoopIdle
  <1> QED BY <1>1 DEF Loop, Statuses

\* The requests that only change the table.
LEMMA ChangeRowsType ==
    ASSUME TypeOK, Held, NEW t \in Tables, ChangeRows(t), budget' \in [Kinds -> Nat]
    PROVE  TypeOK' /\ Held'
  BY DEF ChangeRows, TypeOK, Held, procVars, flags

\* Requests.
LEMMA ClientType == TypeInv /\ Client => TypeInv'
  <1> SUFFICES ASSUME TypeOK, Held, Client PROVE TypeOK' /\ Held'
    BY DEF TypeInv
  <1> USE DEF TypeOK, Held, handlerFrame, procVars, flags
  <1>1. CASE \E w \in Workers, b \in Batches : EnqueueBatch(w, b)
    <2>1. PICK w \in Workers, b \in Batches : EnqueueBatch(w, b)
      BY <1>1
    <2>2. budget' \in [Kinds -> Nat]
      BY <2>1, SpendType DEF EnqueueBatch, Batch, Kinds
    <2>3. enq' \in [Workers -> Enq]
      BY <2>1 DEF EnqueueBatch, Enq
    <2> QED BY <2>1, <2>2, <2>3 DEF EnqueueBatch, enqFrame
  <1>2. ASSUME NEW i \in ItemIds, CancelQueueItem(i) PROVE TypeOK' /\ Held'
    <2>1. budget' \in [Kinds -> Nat]
      BY <1>2, RequestType DEF CancelQueueItem
    <2>2. rows[i].queue \in Queues /\ i \in 0 .. MaxItems
      BY <1>2 DEF CancelQueueItem, Tables, Row, ItemIds
    <2> DEFINE h == [at |-> "update", op |-> "cancel_item", item |-> i,
                     queue |-> rows[i].queue, key |-> NoDestination]
    <2>3. Enter(h)
      BY <1>2 DEF CancelQueueItem
    <2>4. /\ h.at \in Steps \cup {"bulk", "delete"} /\ h.op = "cancel_item"
          /\ h.item = i /\ h.queue \in Queues /\ h.key = NoDestination
      BY <2>2 DEF Steps
    <2> HIDE DEF h
    <2>5. loop' \in Loop /\ loop'.item = i
      BY <2>2, <2>3, <2>4, EnterType
    <2> QED BY <1>2, <2>1, <2>5 DEF CancelQueueItem
  <1>3. ASSUME NEW i \in ItemIds, RetryItem(i) PROVE TypeOK' /\ Held'
    <2>1. budget' \in [Kinds -> Nat]
      BY <1>3, RequestType DEF RetryItem
    <2>2. CASE RetryInsertable(rows, rows[i])
      <3>1. rows[i] \in Row /\ rows[i].dest \in Destinations
        BY <1>3, <2>2 DEF RetryItem, RetryInsertable, Tables
      <3>2. rows' \in Tables
        BY <1>3, <2>2, <3>1, RetriedRowType, InsertManyFacts, 1 \in Nat DEF RetryItem
      <3> QED BY <1>3, <2>1, <2>2, <3>2 DEF RetryItem
    <2>3. CASE ~RetryInsertable(rows, rows[i])
      BY <1>3, <2>1, <2>3 DEF RetryItem
    <2> QED BY <2>2, <2>3
  <1>4. ASSUME NEW op \in {"cancel_batch", "cancel_destination", "cancel_queue"},
               NEW q \in Queues,
               NEW key \in BatchIds \cup Destinations \cup {NoDestination},
               CancelBy(op, q, key)
        PROVE  TypeOK' /\ Held'
    <2>1. budget' \in [Kinds -> Nat]
      BY <1>4, RequestType DEF CancelBy
    <2>2. loop' \in Loop /\ loop'.at = "bulk"
      BY <1>4, EnterType DEF CancelBy
    <2> QED BY <1>4, <2>1, <2>2 DEF CancelBy, Steps
  <1>5. ASSUME NEW q \in Queues, NEW b \in BatchIds, CancelByBatchIds(q, b)
        PROVE  TypeOK' /\ Held'
    BY <1>4, <1>5 DEF CancelByBatchIds
  <1>6. ASSUME NEW q \in Queues, NEW d \in Destinations, CancelByDestination(q, d)
        PROVE  TypeOK' /\ Held'
    BY <1>4, <1>6 DEF CancelByDestination
  <1>7. ASSUME NEW q \in Queues, CancelByQueueId(q) PROVE TypeOK' /\ Held'
    BY <1>4, <1>7 DEF CancelByQueueId
  <1>8. ASSUME NEW q \in Queues, CancelAllExceptCurrent(q) PROVE TypeOK' /\ Held'
    <2>1. budget' \in [Kinds -> Nat]
      BY <1>8, RequestType DEF CancelAllExceptCurrent
    <2>2. CancelAll(rows, Pending(rows, q)) \in Tables
      BY CancelAllFacts DEF Pending, InQueue
    <2> QED BY <1>8, <2>1, <2>2, ChangeRowsType DEF CancelAllExceptCurrent
  <1>9. ASSUME NEW q \in Queues, Prune(q) PROVE TypeOK' /\ Held'
    <2>1. budget' \in [Kinds -> Nat]
      BY <1>9, RequestType DEF Prune
    <2> QED BY <1>9, <2>1, DeleteAllFacts, ChangeRowsType DEF Prune
  <1>10. ASSUME NEW q \in Queues, Clear(q) PROVE TypeOK' /\ Held'
    <2>1. budget' \in [Kinds -> Nat]
      BY <1>10, RequestType DEF Clear
    <2>2. PICK i \in 0 .. MaxItems :
             Enter([at |-> IF i = 0 THEN "delete" ELSE "update", op |-> "clear",
                    item |-> i, queue |-> q, key |-> NoDestination])
      BY <1>10 DEF Clear
    <2> DEFINE h == [at |-> IF i = 0 THEN "delete" ELSE "update", op |-> "clear",
                     item |-> i, queue |-> q, key |-> NoDestination]
    <2>3. /\ h.at \in Steps \cup {"bulk", "delete"} /\ h.op = "clear"
          /\ h.item = i /\ h.queue = q /\ h.key = NoDestination
          /\ h.at \in Steps => i # 0
      BY DEF Steps
    <2>4. Enter(h)
      BY <2>2
    <2> HIDE DEF h
    <2>5. loop' \in Loop /\ loop'.at = h.at /\ loop'.item = i
      BY <2>3, <2>4, EnterType
    <2>6. loop'.at \in Steps => loop'.item \in ItemIds
      BY <2>3, <2>5 DEF ItemIds
    <2> QED BY <1>10, <2>1, <2>5, <2>6 DEF Clear
  <1>11. CASE Pause
    BY <1>11, RequestType DEF Pause
  <1>12. CASE Resume
    BY <1>12, RequestType DEF Resume
  <1>13. CASE Shutdown
    BY <1>13, RequestType DEF Shutdown
  <1> QED BY <1>1, <1>2, <1>3, <1>5, <1>6, <1>7, <1>8, <1>9, <1>10, <1>11, <1>12,
             <1>13 DEF Client

\* Start-up.
LEMMA InitType == Init => TypeInv
  <1> SUFFICES ASSUME Init PROVE TypeInv
    OBVIOUS
  <1>1. rows \in Tables
    BY DEF Init, Tables
  <1>2. QueueCleared(DefaultQueue) \in Event
    BY EventTypes
  <1>3. events \in Seq(Event)
    BY <1>2 DEF Init
  <1>4. LoopIdle \in Loop /\ LoopIdle.at = "idle"
    BY DEF LoopIdle, Loop, Statuses
  <1> QED BY <1>1, <1>3, <1>4 DEF Init, TypeInv, TypeOK, Held, ProcStates, Calling,
             Running, Waiting, Halted, Steps, Enq

LEMMA RestartType == TypeInv /\ Restart => TypeInv'
  <1> SUFFICES ASSUME TypeOK, Held, Restart PROVE TypeInv'
    BY DEF TypeInv
  <1>1. rows' \in Tables
    BY StartedFacts DEF Restart, TypeOK
  <1>2. QueueCleared(DefaultQueue) \in Event
    BY EventTypes
  <1>3. events' \in Seq(Event)
    BY <1>2 DEF Restart, StartedProcess
  <1>4. LoopIdle \in Loop /\ LoopIdle.at = "idle"
    BY DEF LoopIdle, Loop, Statuses
  <1>5. budget' \in [Kinds -> Nat]
    BY SpendType DEF Restart, Fault, Kinds, TypeOK
  <1> QED BY <1>1, <1>3, <1>4, <1>5 DEF Restart, StartedProcess, TypeInv, TypeOK, Held,
             ProcStates, Calling, Running, Waiting, Halted, Steps, Enq

LEMMA NextType == TypeInv /\ [Next]_vars => TypeInv'
  <1>1. ASSUME TypeInv, UNCHANGED vars PROVE TypeInv'
    BY <1>1 DEF TypeInv, TypeOK, Held, vars, flags
  <1> QED BY <1>1, ProcessorType, ListenerType, HandlerType, WorkerType, ClientType,
             RestartType DEF Next

\* Every variable stays within its type, and the threads hold an item wherever
\* they use one.
THEOREM TypeCorrect == Spec => []TypeOK
  <1>1. TypeInv => TypeOK
    BY DEF TypeInv
  <1> QED BY <1>1, InitType, NextType, PTL DEF Spec

-----------------------------------------------------------------------------
(* One item at a time, and each at most once. *)

\* What every step but the processor's and a restart does to the processor
\* and the table.
LEMMA OthersSettle ==
    ASSUME TypeInv, TypeInv',
           Listener \/ Handler \/ (\E w \in Workers : Worker(w)) \/ Client
    PROVE  /\ UNCHANGED <<procVars, ran>>
           /\ nextId' \in Nat /\ nextId <= nextId'
           /\ Settles(rows, rows', nextId, nextId')
  <1> USE DEF TypeInv, TypeOK, Held, procVars
  <1> DEFINE Goal == /\ UNCHANGED <<procVars, ran>>
                     /\ nextId' \in Nat /\ nextId <= nextId'
                     /\ Settles(rows, rows', nextId, nextId')
  <1>0. ASSUME UNCHANGED <<rows, nextId, procVars, ran>> PROVE Goal
    BY <1>0 DEF Settles
  <1>1. CASE Listener
    <2>1. UNCHANGED <<rows, nextId, procVars, ran>>
      BY <1>1 DEF Listener, OnQueueItemStatusChanged, OnQueueCleared,
                  OnBatchEnqueued, TakeEvent
    <2> QED BY <1>0, <2>1
  <1>2. CASE Handler
    <2>1. UNCHANGED <<nextId, procVars, ran>>
      BY <1>2 DEF Handler, BulkCancel, CancelUpdate, CancelRead, CancelEmit,
                  ClearDelete, handlerFrame
    <2>2. CASE BulkCancel
      <3>1. Unfinished(rows, loop.queue) \cap Matching(loop.op, loop.key) \subseteq Existing(rows)
        BY DEF Matching
      <3>2. Settles(rows, rows', nextId, nextId')
        BY <2>2, <3>1, ChangesSettle DEF BulkCancel
      <3> QED BY <2>1, <3>2
    <2>3. CASE CancelUpdate
      <3>1. Settles(rows, rows', nextId, nextId')
        BY <2>3, ChangesSettle DEF CancelUpdate, Steps
      <3> QED BY <2>1, <3>1
    <2>4. CASE CancelRead \/ CancelEmit
      BY <1>0, <2>1, <2>4 DEF CancelRead, CancelEmit
    <2>5. CASE ClearDelete
      <3>1. Settles(rows, rows', nextId, nextId')
        BY <2>5, ChangesSettle DEF ClearDelete
      <3> QED BY <2>1, <3>1
    <2> QED BY <1>2, <2>2, <2>3, <2>4, <2>5 DEF Handler
  <1>3. ASSUME NEW w \in Workers, Worker(w) PROVE Goal
    <2>1. CASE EnqueueInsert(w)
      <3>0. enq[w].at # "idle" => enq[w].batch \in Batches /\ enq[w].batch \in Batch
                                   /\ enq[w].prio \in Nat /\ enq[w].room \in Int
        BY DEF Enq, EnqIdle
      <3>1. Enqueued(enq[w]) \in Nat
        BY <2>1, <3>0 DEF EnqueueInsert, Enqueued, Batch
      <3>2. Settles(rows, rows', nextId, nextId + Enqueued(enq[w]))
        BY <2>1, <3>0, <3>1, NewRowType, InsertManyFacts DEF EnqueueInsert
      <3> QED BY <2>1, <3>1, <3>2 DEF EnqueueInsert, enqFrame
    <2>2. CASE EnqueueCount(w) \/ EnqueueAnnounce(w)
      BY <1>0, <2>2 DEF EnqueueCount, EnqueueAnnounce, enqFrame
    <2> QED BY <1>3, <2>1, <2>2 DEF Worker
  <1>4. CASE Client
    <2>1. ASSUME NEW i \in ItemIds, RetryItem(i) PROVE Goal
      <3>1. CASE RetryInsertable(rows, rows[i])
        <4>1. rows[i] \in Row /\ rows[i].dest \in Destinations
          BY <2>1, <3>1 DEF RetryItem, RetryInsertable, Tables
        <4>2. Settles(rows, rows', nextId, nextId + 1)
          BY <2>1, <3>1, <4>1, RetriedRowType, InsertManyFacts, 1 \in Nat DEF RetryItem
        <4> QED BY <2>1, <3>1, <4>2 DEF RetryItem
      <3>2. CASE ~RetryInsertable(rows, rows[i])
        BY <1>0, <2>1, <3>2 DEF RetryItem
      <3> QED BY <3>1, <3>2
    <2>2. ASSUME NEW q \in Queues, CancelAllExceptCurrent(q) PROVE Goal
      <3>1. Pending(rows, q) \subseteq Existing(rows)
        BY DEF Pending, InQueue
      <3>2. Settles(rows, rows', nextId, nextId')
        BY <2>2, <3>1, ChangesSettle DEF CancelAllExceptCurrent, ChangeRows
      <3> QED BY <2>2, <3>2 DEF CancelAllExceptCurrent, ChangeRows
    <2>3. ASSUME NEW q \in Queues, Prune(q) PROVE Goal
      <3>1. Settles(rows, rows', nextId, nextId')
        BY <2>3, ChangesSettle DEF Prune, ChangeRows
      <3> QED BY <2>3, <3>1 DEF Prune, ChangeRows
    <2>4. CASE \E w \in Workers, b \in Batches : EnqueueBatch(w, b)
      BY <1>0, <2>4 DEF EnqueueBatch, enqFrame
    <2>5. CASE Pause \/ Resume \/ Shutdown
      BY <1>0, <2>5 DEF Pause, Resume, Shutdown
    <2>6. ASSUME NEW i \in ItemIds, CancelQueueItem(i) PROVE Goal
      BY <1>0, <2>6 DEF CancelQueueItem, handlerFrame
    <2>7. ASSUME NEW q \in Queues,
                 \/ \E b \in BatchIds : CancelByBatchIds(q, b)
                 \/ \E d \in Destinations : CancelByDestination(q, d)
                 \/ CancelByQueueId(q) \/ Clear(q)
          PROVE  Goal
      BY <1>0, <2>7 DEF CancelByBatchIds, CancelByDestination, CancelByQueueId,
                        CancelBy, Clear, handlerFrame
    <2> QED BY <1>4, <2>1, <2>2, <2>3, <2>4, <2>5, <2>6, <2>7 DEF Client
  <1> QED BY <1>1, <1>2, <1>3, <1>4

\* Steps of the other threads keep the invariant.
LEMMA OthersKeep ==
    ASSUME TypeInv, TypeInv', OneInProgress, RunsOnce,
           Listener \/ Handler \/ (\E w \in Workers : Worker(w)) \/ Client
    PROVE  OneInProgress' /\ RunsOnce'
  <1>1. /\ UNCHANGED <<proc, step, fetched, cur, ran>>
        /\ nextId \in Nat /\ nextId' \in Nat /\ nextId <= nextId'
        /\ Settles(rows, rows', nextId, nextId')
    BY OthersSettle DEF procVars, TypeInv, TypeOK
  <1>2. Owned' = Owned /\ Marked' = Marked /\ AboutToRun' = AboutToRun
    BY <1>1 DEF Owned, Marked, AboutToRun
  <1>3. OneInProgress'
    BY <1>1, <1>2 DEF OneInProgress, Settles
  <1>4. /\ ran \subseteq ItemIds /\ Existing(rows) \subseteq ItemIds
        /\ AboutToRun \subseteq ItemIds
    BY DEF TypeInv, TypeOK, Held, Existing, AboutToRun, Marked, Item, Running, Calling
  <1>5. RunsOnce'
    <2>1. \A i \in ran \cup Existing(rows)' \cup AboutToRun : i < nextId'
      BY <1>1, <1>4 DEF RunsOnce, Settles, ItemIds
    <2>2. Marked \subseteq AboutToRun
      BY DEF Marked, AboutToRun
    <2>3. (ran \cup Marked) \cap InStatus(rows, "pending")' = {}
      BY <1>1, <1>4, <2>2 DEF RunsOnce, Settles, ItemIds
    <2> QED BY <1>1, <1>2, <2>1, <2>3 DEF RunsOnce
  <1> QED BY <1>3, <1>5

\* A restart keeps it: no row stays in progress, and none waits again.
LEMMA RestartKeeps ==
    ASSUME TypeInv, RunsOnce, Restart
    PROVE  OneInProgress' /\ RunsOnce'
  <1>1. /\ InStatus(rows, "in_progress")' = {}
        /\ InStatus(rows, "pending")' \subseteq InStatus(rows, "pending")
        /\ Existing(rows)' \subseteq Existing(rows)
    BY StartedFacts DEF Restart, TypeInv, TypeOK
  <1>2. UNCHANGED <<nextId, ran>> /\ proc' = "start"
    BY DEF Restart, StartedProcess
  <1>3. Marked' = {} /\ AboutToRun' = {}
    BY <1>2 DEF Marked, AboutToRun
  <1> QED BY <1>1, <1>2, <1>3 DEF OneInProgress, RunsOnce

\* What each step of the processor but the UPDATE of a status does to the
\* table: at most it saves the session of the current item.
LEMMA ProcessorKeepsStatus ==
    ASSUME TypeInv, Processor, ~StatusUpdate
    PROVE  /\ \A x \in Statuses : InStatus(rows, x)' = InStatus(rows, x)
           /\ Existing(rows)' = Existing(rows)
           /\ nextId' = nextId
  <1> USE DEF TypeInv, TypeOK, Held
  <1>1. CASE NodeErrorSave \/ AfterRunSession \/ ProcessorError
    <2>1. nextId' = nextId
      BY <1>1 DEF NodeErrorSave, AfterRunSession, ProcessorError, SaveSession, others
    <2>2. CASE rows' = rows
      BY <2>1, <2>2
    <2>3. CASE rows' # rows
      <3>1. cur \in Item /\ rows' = SetSession(rows, cur.id, cur.left, cur.err)
        BY <1>1, <2>3 DEF NodeErrorSave, AfterRunSession, ProcessorError, SaveSession,
                          Running
      <3>2. cur.id \in ItemIds /\ cur.left \in 0 .. MaxNodes /\ cur.err \in BOOLEAN
        BY <3>1 DEF Item
      <3> QED BY <2>1, <3>1, <3>2, SetSessionFacts
    <2> QED BY <2>2, <2>3
  <1>2. CASE ~(NodeErrorSave \/ AfterRunSession \/ ProcessorError)
    BY <1>2 DEF Processor, Begin, LoopTop, Gate, DequeueNothing, DequeueSelect, Assign,
                BeginRun, Wake, NextInvocation, NextNodeInputError, NextProcessorError,
                RunNode, RunNodeCanceled, RunNodeError, ProcessorErrorNoItem,
                StatusRead, StatusReadMissing, StatusEmit, Goto, others
  <1> QED BY <1>1, <1>2

\* Steps of the processor keep it the owner of what is in progress.
LEMMA ProcessorOneInProgress ==
    ASSUME TypeInv, OneInProgress, RunsOnce, Processor
    PROVE  OneInProgress'
  <1> USE DEF TypeInv, TypeOK, Held, OneInProgress, Owned, Marked, Calling, Running
  <1> DEFINE busy == InStatus(rows, "in_progress")
  <1>1. CASE StatusUpdate
    <2>1. Target \in ItemIds /\ NewStatus \in Statuses
      BY <1>1 DEF StatusUpdate, Target, NewStatus, Item, Statuses
    <2>2. CASE proc = "marking"
      <3>1. busy = {}
        BY <1>1, <2>2 DEF StatusUpdate
      <3>2. busy' \subseteq busy \cup {fetched.id}
        BY <1>1, <2>1, <2>2, SetStatusFacts DEF StatusUpdate, Target, NewStatus
      <3> QED BY <1>1, <2>2, <3>1, <3>2 DEF StatusUpdate
    <2>3. CASE proc # "marking"
      <3>1. busy \subseteq {cur.id}
        BY <1>1, <2>3 DEF StatusUpdate
      <3>2. NewStatus # "in_progress" /\ Target = cur.id
        BY <1>1, <2>3 DEF StatusUpdate, NewStatus, Target
      <3>3. "in_progress" \in Statuses \ {NewStatus}
        BY <3>2 DEF Statuses
      <3>4. busy' \subseteq busy \ {cur.id}
        BY <1>1, <2>1, <3>2, <3>3, SetStatusFacts DEF StatusUpdate
      <3> QED BY <3>1, <3>4
    <2> QED BY <2>2, <2>3
  <1>2. CASE ~StatusUpdate
    <2>0. busy' = busy /\ \A i \in busy : rows[i] # NoRow /\ rows[i].status = "in_progress"
      BY <1>2, ProcessorKeepsStatus DEF Statuses, InStatus, Existing
    <2> HIDE DEF busy
    <2> SUFFICES ASSUME busy \subseteq Owned PROVE busy \subseteq Owned'
      BY <2>0 DEF busy
    <2>1. CASE Begin
      BY <2>0, <2>1 DEF Begin
    <2>2. CASE LoopTop
      BY <2>0, <2>2 DEF LoopTop, Halt
    <2>3. CASE Gate
      BY <2>0, <2>3 DEF Gate
    <2>4. CASE DequeueNothing
      BY <2>0, <2>4 DEF DequeueNothing
    <2>5. CASE \E i \in ItemIds : DequeueSelect(i)
      BY <2>5 DEF DequeueSelect
    <2>6. CASE Assign
      BY <2>0, <2>6 DEF Assign
    <2>7. CASE BeginRun
      BY <2>0, <2>7 DEF BeginRun
    <2>8. CASE Wake
      BY <2>0, <2>8 DEF Wake, Waiting
    <2>9. CASE NextInvocation
      BY <2>0, <2>9 DEF NextInvocation, Goto
    <2>10. CASE NextNodeInputError
      BY <2>0, <2>10 DEF NextNodeInputError, Goto, Item
    <2>11. CASE NextProcessorError
      BY <2>0, <2>11 DEF NextProcessorError, Goto
    <2>12. CASE RunNode
      BY <2>0, <2>12 DEF RunNode, Goto, Item
    <2>13. CASE RunNodeCanceled
      BY <2>0, <2>13 DEF RunNodeCanceled, Goto
    <2>14. CASE RunNodeError
      BY <2>0, <2>14 DEF RunNodeError, Goto, Item
    <2>15. CASE NodeErrorSave
      BY <2>0, <2>15 DEF NodeErrorSave, SaveSession
    <2>16. CASE AfterRunSession
      BY <2>0, <2>16 DEF AfterRunSession, SaveSession
    <2>17. CASE ProcessorError
      BY <2>0, <2>17 DEF ProcessorError, SaveSession, Halt
    <2>18. CASE ProcessorErrorNoItem
      BY <2>0, <2>18 DEF ProcessorErrorNoItem, Goto
    <2>19. CASE StatusRead
      BY <2>0, <2>19 DEF StatusRead, Target, ItemOf
    <2>20. CASE StatusReadMissing
      BY <2>0, <2>20 DEF StatusReadMissing, Target, Halt
    <2>21. CASE StatusEmit
      BY <2>0, <2>21 DEF StatusEmit
    <2> QED BY <1>2, <2>1, <2>2, <2>3, <2>4, <2>5, <2>6, <2>7, <2>8, <2>9, <2>10, <2>11, <2>12, <2>13, <2>14, <2>15, <2>16, <2>17, <2>18, <2>19, <2>20, <2>21 DEF Processor
  <1> QED BY <1>1, <1>2

\* Steps of the processor run what has not run yet.
LEMMA ProcessorRunsOnce ==
    ASSUME TypeInv, RunsOnce, Processor
    PROVE  RunsOnce'
  <1> USE DEF TypeInv, TypeOK, Held, RunsOnce, AboutToRun, Marked
  <1> DEFINE waiting == InStatus(rows, "pending")
  <1>1. CASE StatusUpdate
    <2>1. Target \in ItemIds /\ NewStatus \in Statuses /\ NewStatus # "pending"
      BY <1>1 DEF StatusUpdate, Target, NewStatus, Item, Statuses, Calling, Running
    <2>2. "pending" \in Statuses \ {NewStatus}
      BY <2>1 DEF Statuses
    <2>3. waiting' \subseteq waiting \ {Target} /\ Existing(rows)' = Existing(rows)
      BY <1>1, <2>1, <2>2, SetStatusFacts DEF StatusUpdate
    <2>4. UNCHANGED <<proc, fetched, cur, nextId, ran>> /\ step = "update" /\ step' = "read"
      BY <1>1 DEF StatusUpdate, others
    <2>5. AboutToRun' = AboutToRun
      BY <2>4
    <2>6. Marked' \subseteq {Target}
      BY <1>1, <2>4 DEF StatusUpdate, Calling, Target
    <2> HIDE DEF Marked, AboutToRun, waiting
    <2>7. (ran \cup Marked') \cap waiting' = {}
      BY <2>3, <2>6 DEF waiting
    <2> QED BY <2>3, <2>4, <2>5, <2>7 DEF waiting
  <1>2. CASE ~StatusUpdate
    <2>0. waiting' = waiting /\ Existing(rows)' = Existing(rows) /\ nextId' = nextId
      BY <1>2, ProcessorKeepsStatus DEF Statuses
    <2>1. CASE \E i \in ItemIds : DequeueSelect(i)
      <3>1. PICK i \in ItemIds : DequeueSelect(i)
        BY <2>1
      <3>2. i \in waiting /\ i \in Existing(rows)
        BY <3>1 DEF DequeueSelect, IsNext, InStatus
      <3>3. ran' = ran /\ Marked' = {} /\ AboutToRun' \subseteq {i}
        BY <3>1 DEF DequeueSelect, ItemOf
      <3> HIDE DEF Marked, AboutToRun
      <3> QED BY <2>0, <3>2, <3>3
    <2>2. CASE BeginRun
      <3>1. ran' = ran \cup {cur.id} /\ AboutToRun = {cur.id} /\ Marked = {cur.id}
        BY <2>2 DEF BeginRun
      <3>2. AboutToRun' = {} /\ Marked' = {}
        BY <2>2 DEF BeginRun
      <3> HIDE DEF Marked, AboutToRun
      <3> QED BY <2>0, <3>1, <3>2
    <2>3. CASE ~BeginRun /\ ~(\E i \in ItemIds : DequeueSelect(i))
      <3>1. ran' = ran
        BY <1>2, <2>3 DEF Processor, Begin, LoopTop, Gate, DequeueNothing, Assign, Wake,
               NextInvocation, NextNodeInputError, NextProcessorError, RunNode,
               RunNodeCanceled, RunNodeError, NodeErrorSave, AfterRunSession,
               ProcessorError, ProcessorErrorNoItem, SaveSession, StatusRead,
               StatusReadMissing, StatusEmit, Goto
      <3>2. AboutToRun' \subseteq AboutToRun /\ Marked' \subseteq Marked
        <4>1. CASE StatusRead
          <5>1. CASE proc = "marking"
            <6>1. proc' = "marking" /\ step = "read" /\ step' = "emit" /\ fetched'.id = fetched.id
              BY <4>1, <5>1 DEF StatusRead, Target, ItemOf
            <6> QED BY <5>1, <6>1
          <5>2. CASE proc # "marking"
            BY <4>1, <5>2 DEF StatusRead, Calling
          <5> QED BY <5>1, <5>2
        <4>2. CASE Assign \/ StatusEmit \/ StatusReadMissing
          BY <4>2 DEF Assign, StatusEmit, StatusReadMissing, Halt, Calling
        <4>3. CASE NodeErrorSave \/ AfterRunSession \/ ProcessorError
          BY <4>3 DEF NodeErrorSave, AfterRunSession, ProcessorError, SaveSession, Halt
        <4>4. CASE ~(StatusRead \/ Assign \/ StatusEmit \/ StatusReadMissing
                       \/ NodeErrorSave \/ AfterRunSession \/ ProcessorError)
          BY <1>2, <2>3, <4>4 DEF Processor, Begin, LoopTop, Gate, DequeueNothing, Wake,
               NextInvocation, NextNodeInputError, NextProcessorError, RunNode,
               RunNodeCanceled, RunNodeError, ProcessorErrorNoItem, Goto, Halt
        <4> QED BY <4>1, <4>2, <4>3, <4>4
      <3> HIDE DEF Marked, AboutToRun
      <3> QED BY <2>0, <3>1, <3>2
    <2> QED BY <2>1, <2>2, <2>3
  <1> QED BY <1>1, <1>2

\* The inductive invariant.
LEMMA InitInv == Init => IInv
  <1> SUFFICES ASSUME Init PROVE IInv
    OBVIOUS
  <1>1. Existing(rows) = {} /\ ran = {} /\ proc = "start"
    BY DEF Init, Existing
  <1>2. InStatus(rows, "in_progress") = {} /\ InStatus(rows, "pending") = {}
    BY <1>1 DEF InStatus
  <1>3. Marked = {} /\ AboutToRun = {}
    BY <1>1 DEF Marked, AboutToRun
  <1> QED BY <1>1, <1>2, <1>3, InitType DEF IInv, TypeInv, OneInProgress, RunsOnce

LEMMA NextInv == IInv /\ [Next]_vars => IInv'
  <1> SUFFICES ASSUME IInv, [Next]_vars PROVE IInv'
    OBVIOUS
  <1> USE DEF IInv
  <1>1. TypeInv /\ TypeInv'
    BY NextType DEF TypeInv
  <1>2. CASE Processor
    BY <1>1, <1>2, ProcessorOneInProgress, ProcessorRunsOnce DEF TypeInv
  <1>3. CASE Listener \/ Handler \/ (\E w \in Workers : Worker(w)) \/ Client
    BY <1>1, <1>3, OthersKeep DEF TypeInv
  <1>4. CASE Restart
    BY <1>1, <1>4, RestartKeeps DEF TypeInv
  <1>5. CASE UNCHANGED vars
    BY <1>1, <1>5 DEF TypeInv, OneInProgress, RunsOnce, Owned, Marked, AboutToRun, vars, flags
  <1> QED BY <1>2, <1>3, <1>4, <1>5 DEF Next

\* Whatever clients, faults and restarts do, a row is in_progress only while
\* the processor answers for that very item.
THEOREM OneInProgressAlways == Spec => []OneInProgress
  <1>1. IInv => OneInProgress
    BY DEF IInv
  <1> QED BY <1>1, InitInv, NextInv, PTL DEF Spec

-----------------------------------------------------------------------------
(* The implementation of QueueExecution. *)

LEMMA InitRefines == Init => Execution!Init
  BY DEF Init, Execution!Init, executing, Running

\* A step begins an execution, ends one, or changes neither.
LEMMA StepRefines ==
    IInv /\ [Next]_vars => [Execution!Next]_<<ran, executing>>
  <1> SUFFICES ASSUME IInv, [Next]_vars
               PROVE  Execution!Next \/ UNCHANGED <<ran, executing>>
    OBVIOUS
  <1> USE DEF IInv, TypeOK, Held, executing
  <1>0. executing \in ItemIds \cup {0} /\ 0 \notin ItemIds /\ (proc \in Running => executing # 0)
    BY DEF Item, ItemIds
  <1>1. CASE BeginRun
    <2>1. cur.id \in ItemIds \ ran
      BY <1>1 DEF BeginRun, RunsOnce, AboutToRun, Marked, Item
    <2>2. executing = 0 /\ executing' = cur.id /\ ran' = ran \cup {cur.id}
      BY <1>1 DEF BeginRun, Running
    <2>3. Execution!Begin(cur.id)
      BY <2>1, <2>2 DEF Execution!Begin
    <2> QED BY <2>1, <2>3 DEF Execution!Next
  <1>2. CASE Processor /\ ~BeginRun
    <2>1. ran' = ran
      BY <1>2 DEF Processor, Begin, LoopTop, Gate, DequeueNothing, DequeueSelect, Assign,
             Wake, NextInvocation, NextNodeInputError, NextProcessorError, RunNode,
             RunNodeCanceled, RunNodeError, NodeErrorSave, AfterRunSession,
             ProcessorError, ProcessorErrorNoItem, SaveSession, StatusUpdate, StatusRead,
             StatusReadMissing, StatusEmit, Goto
    <2>2. executing' \in {executing, 0}
      <3>1. CASE proc' \in Running
        <4>1. proc \in Running /\ cur'.id = cur.id
          <5>1. CASE NextNodeInputError \/ RunNode \/ RunNodeError
            BY <5>1 DEF NextNodeInputError, RunNode, RunNodeError, Running, Item
          <5>2. CASE NextInvocation \/ NextProcessorError \/ RunNodeCanceled \/ NodeErrorSave
                       \/ AfterRunSession
            BY <5>2 DEF NextInvocation, NextProcessorError, RunNodeCanceled, NodeErrorSave,
               AfterRunSession, Running
          <5>3. CASE StatusUpdate \/ StatusRead \/ StatusReadMissing \/ StatusEmit
            BY <3>1, <5>3 DEF StatusUpdate, StatusRead, StatusReadMissing, StatusEmit, Halt,
               Calling, Running
          <5>4. CASE Begin \/ LoopTop \/ Gate \/ DequeueNothing \/ Assign \/ Wake
                       \/ (\E i \in ItemIds : DequeueSelect(i))
                       \/ ProcessorError \/ ProcessorErrorNoItem
            BY <3>1, <5>4 DEF Begin, LoopTop, Gate, DequeueNothing, Assign, Wake,
               DequeueSelect, ProcessorError, ProcessorErrorNoItem, SaveSession, Goto,
               Halt, Running
          <5> QED BY <1>2, <5>1, <5>2, <5>3, <5>4 DEF Processor
        <4> QED BY <3>1, <4>1
      <3> QED BY <3>1
    <2> QED BY <1>0, <2>1, <2>2 DEF Execution!Next, Execution!End
  <1>3. CASE Listener \/ Handler \/ (\E w \in Workers : Worker(w)) \/ Client
    <2>1. TypeInv /\ TypeInv'
      BY NextType DEF TypeInv
    <2>2. UNCHANGED <<proc, cur, ran>>
      BY <1>3, <2>1, OthersSettle DEF procVars
    <2> QED BY <2>2
  <1>4. CASE Restart
    <2>1. ran' = ran /\ executing' = 0
      BY <1>4 DEF Restart, StartedProcess, Running
    <2> QED BY <1>0, <2>1 DEF Execution!Next, Execution!End
  <1>5. CASE UNCHANGED vars
    BY <1>5 DEF vars
  <1> QED BY <1>1, <1>2, <1>3, <1>4, <1>5 DEF Next

\* At most one item executes, and none of them twice, whatever clients and
\* faults do and however often the process restarts.
THEOREM ExecutesAtMostOnceAlways == Spec => ExecutesAtMostOnce
  <1>1. Spec => []IInv
    BY InitInv, NextInv, PTL DEF Spec
  <1> QED BY <1>1, InitRefines, StepRefines, PTL DEF Spec, ExecutesAtMostOnce, Execution!Spec
=============================================================================
