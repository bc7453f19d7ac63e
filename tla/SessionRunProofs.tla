-------------------------- MODULE SessionRunProofs --------------------------
(***************************************************************************)
(* More theorems about SessionProcessor: the order in which items start,    *)
(* the wake-ups of the processor, the capacity of the queues, and what an   *)
(* item that is completed has gone through.                                 *)
(***************************************************************************)
EXTENDS SessionProcessorProofs, FunctionTheorems

USE SessionQueueAssumption, SessionProcessorAssumption

-----------------------------------------------------------------------------
(* What steps do to the rows they find. *)

\* From table t to table u no row is made: rows are canceled or deleted.
Alike(t, u) ==
    \A i \in Existing(u) :
        /\ i \in Existing(t)
        /\ u[i].queue = t[i].queue /\ u[i].prio = t[i].prio /\ u[i].intact = t[i].intact
        /\ u[i].left = t[i].left /\ u[i].err = t[i].err
        /\ u[i].status \in {t[i].status, "canceled"}

\* The bulk UPDATE, the UPDATE of a cancellation and DELETE.
LEMMA ChangesAlike ==
    ASSUME NEW t \in Tables
    PROVE  /\ \A i \in ItemIds : Alike(t, SetStatus(t, i, "canceled"))
           /\ \A ids \in SUBSET Existing(t) : Alike(t, CancelAll(t, ids))
           /\ \A ids : Alike(t, DeleteAll(t, ids))
  <1>1. ASSUME NEW i \in ItemIds PROVE Alike(t, SetStatus(t, i, "canceled"))
    BY DEF Alike, SetStatus, Existing, Tables, Row
  <1>2. ASSUME NEW ids \in SUBSET Existing(t) PROVE Alike(t, CancelAll(t, ids))
    BY DEF Alike, CancelAll, Existing, Tables, Row
  <1>3. ASSUME NEW ids PROVE Alike(t, DeleteAll(t, ids))
    BY DEF Alike, DeleteAll, Existing
  <1> QED BY <1>1, <1>2, <1>3

\* A restart.
LEMMA StartedAlike ==
    ASSUME NEW t \in Tables, NEW c \in BOOLEAN
    PROVE  Alike(t, Started(t, c))
  <1> DEFINE canceled == CancelAll(t, InStatus(t, "in_progress"))
  <1>1. Alike(t, canceled) /\ canceled \in Tables
    BY ChangesAlike, CancelAllFacts DEF InStatus
  <1>2. \A ids : Alike(canceled, DeleteAll(canceled, ids))
    BY <1>1, ChangesAlike
  <1>3. \A ids : Alike(t, DeleteAll(canceled, ids))
    <2> HIDE DEF canceled
    <2> QED BY <1>1, <1>2 DEF Alike
  <1> QED BY <1>3 DEF Started

\* A row after an INSERT is the one before it, or new under a new id.
LEMMA InsertedRows ==
    ASSUME NEW t \in Tables, NEW first \in Nat, NEW k \in Nat, NEW r,
           NEW i \in Existing(InsertMany(t, first, k, r))
    PROVE  \/ i \in Existing(t) /\ InsertMany(t, first, k, r)[i] = t[i]
           \/ i \in first .. first + k - 1 /\ InsertMany(t, first, k, r)[i] = r
  <1>1. i \in ItemIds
    BY DEF Existing
  <1>2. CASE first <= i /\ i < first + k
    BY <1>1, <1>2 DEF InsertMany, ItemIds
  <1>3. CASE ~(first <= i /\ i < first + k)
    BY <1>1, <1>3 DEF InsertMany, Existing
  <1> QED BY <1>2, <1>3

\* A row stays in its queue with its priority, and does not wait again.
Kept(t, u, first) ==
    \A i \in Existing(u) :
        \/ /\ i \in Existing(t)
           /\ u[i].queue = t[i].queue /\ u[i].prio = t[i].prio /\ u[i].intact = t[i].intact
           /\ u[i].status = "pending" => t[i].status = "pending"
        \/ i >= first

\* An enqueue call and a retry insert.
Inserts == (\E w \in Workers : EnqueueInsert(w)) \/ (\E i \in ItemIds : RetryItem(i))

\* What the requests, listeners and calls that insert nothing do.
LEMMA OthersAlike ==
    ASSUME TypeInv, ~Inserts,
           Listener \/ Handler \/ (\E w \in Workers : Worker(w)) \/ Client \/ Restart
    PROVE  Alike(rows, rows')
  <1> USE DEF TypeInv, TypeOK, Held
  <1>0. rows' = rows => Alike(rows, rows')
    BY DEF Alike
  <1>1. CASE Listener
    BY <1>0, <1>1 DEF Listener, OnQueueItemStatusChanged, OnQueueCleared, OnBatchEnqueued,
                      TakeEvent
  <1>2. CASE Handler
    <2>1. CASE BulkCancel
      <3>1. Unfinished(rows, loop.queue) \cap Matching(loop.op, loop.key) \subseteq Existing(rows)
        BY DEF Matching
      <3> QED BY <2>1, <3>1, ChangesAlike DEF BulkCancel
    <2>2. CASE CancelUpdate
      BY <2>2, ChangesAlike DEF CancelUpdate, Steps
    <2>3. CASE CancelRead \/ CancelEmit
      BY <1>0, <2>3 DEF CancelRead, CancelEmit
    <2>4. CASE ClearDelete
      BY <2>4, ChangesAlike DEF ClearDelete
    <2> QED BY <1>2, <2>1, <2>2, <2>3, <2>4 DEF Handler
  <1>3. CASE \E w \in Workers : Worker(w)
    BY <1>0, <1>3 DEF Worker, Inserts, EnqueueCount, EnqueueAnnounce
  <1>4. CASE Client
    <2>1. ASSUME NEW q \in Queues, CancelAllExceptCurrent(q) PROVE Alike(rows, rows')
      <3>1. Pending(rows, q) \subseteq Existing(rows)
        BY DEF Pending, InQueue
      <3> QED BY <2>1, <3>1, ChangesAlike DEF CancelAllExceptCurrent, ChangeRows
    <2>2. ASSUME NEW q \in Queues, Prune(q) PROVE Alike(rows, rows')
      BY <2>2, ChangesAlike DEF Prune, ChangeRows
    <2>3. CASE \E w \in Workers, b \in Batches : EnqueueBatch(w, b)
      BY <1>0, <2>3 DEF EnqueueBatch
    <2>4. CASE Pause \/ Resume \/ Shutdown
      BY <1>0, <2>4 DEF Pause, Resume, Shutdown
    <2>5. CASE \E i \in ItemIds : CancelQueueItem(i)
      BY <1>0, <2>5 DEF CancelQueueItem
    <2>6. ASSUME NEW q \in Queues,
                 \/ \E b \in BatchIds : CancelByBatchIds(q, b)
                 \/ \E d \in Destinations : CancelByDestination(q, d)
                 \/ CancelByQueueId(q) \/ Clear(q)
          PROVE  Alike(rows, rows')
      BY <1>0, <2>6 DEF CancelByBatchIds, CancelByDestination, CancelByQueueId, CancelBy, Clear
    <2> QED BY <1>4, <2>1, <2>2, <2>3, <2>4, <2>5, <2>6 DEF Client, Inserts
  <1>5. CASE Restart
    BY <1>5, StartedAlike DEF Restart
  <1> QED BY <1>1, <1>2, <1>3, <1>4, <1>5

\* What the insertions insert, and where.
LEMMA InsertsRows ==
    ASSUME TypeInv, Inserts
    PROVE  \/ rows' = rows
           \/ \E k \in Nat, r \in Row :
                /\ rows' = InsertMany(rows, nextId, k, r)
                /\ r.status = "pending"
                /\ r.intact => ~r.err
                /\ r.intact \/ \E i \in ItemIds : RetryItem(i)
  <1> USE DEF TypeInv, TypeOK
  <1>1. ASSUME NEW w \in Workers, EnqueueInsert(w)
        PROVE  \E k \in Nat, r \in Row : /\ rows' = InsertMany(rows, nextId, k, r)
                                         /\ r.status = "pending" /\ r.intact /\ ~r.err
    <2>1. enq[w].batch \in Batches /\ enq[w].prio \in Nat /\ enq[w].batch \in Batch
          /\ enq[w].room \in Int
      BY <1>1 DEF EnqueueInsert, Enq, EnqIdle
    <2>2. NewRow(enq[w].batch, enq[w].prio) \in Row /\ Enqueued(enq[w]) \in Nat
      BY <2>1, NewRowType DEF Enqueued, Batch
    <2> QED BY <1>1, <2>2 DEF EnqueueInsert, NewRow
  <1>2. ASSUME NEW i \in ItemIds, RetryItem(i), RetryInsertable(rows, rows[i])
        PROVE  \E k \in Nat, r \in Row : /\ rows' = InsertMany(rows, nextId, k, r)
                                         /\ r.status = "pending" /\ ~r.intact
    <2>1. rows[i] \in Row /\ rows[i].dest \in Destinations
      BY <1>2 DEF RetryItem, RetryInsertable, Tables
    <2>2. RetriedRow(rows[i]) \in Row /\ RetriedRow(rows[i]).status = "pending"
          /\ ~RetriedRow(rows[i]).intact
      BY <2>1, RetriedRowType DEF RetriedRow, Row
    <2> QED BY <1>2, <2>2, 1 \in Nat DEF RetryItem
  <1>3. ASSUME NEW i \in ItemIds, RetryItem(i), ~RetryInsertable(rows, rows[i])
        PROVE  rows' = rows
    BY <1>3 DEF RetryItem
  <1> QED BY <1>1, <1>2, <1>3 DEF Inserts

\* What the processor does.
LEMMA ProcessorRows ==
    ASSUME TypeInv, Processor
    PROVE  \/ rows' = rows
           \/ /\ StatusUpdate /\ rows' = SetStatus(rows, Target, NewStatus)
              /\ Target \in ItemIds /\ NewStatus \in Statuses \ {"pending"}
           \/ /\ NodeErrorSave \/ AfterRunSession \/ ProcessorError
              /\ rows' = SetSession(rows, cur.id, cur.left, cur.err)
              /\ cur \in Item
  <1> USE DEF TypeInv, TypeOK, Held
  <1>1. CASE NodeErrorSave \/ AfterRunSession \/ ProcessorError
    <2>1. CASE rows' # rows
      BY <1>1, <2>1 DEF NodeErrorSave, AfterRunSession, ProcessorError, SaveSession, Running
    <2> QED BY <2>1
  <1>2. CASE StatusUpdate
    <2>1. Target \in ItemIds /\ NewStatus \in Statuses \ {"pending"}
      BY <1>2 DEF StatusUpdate, Target, NewStatus, Item, Statuses, Calling, Running
    <2> QED BY <1>2, <2>1 DEF StatusUpdate
  <1>3. CASE ~(NodeErrorSave \/ AfterRunSession \/ ProcessorError \/ StatusUpdate)
    BY <1>3 DEF Processor, Begin, LoopTop, Gate, DequeueNothing, DequeueSelect, Assign,
                BeginRun, Wake, NextInvocation, NextNodeInputError, NextProcessorError,
                RunNode, RunNodeCanceled, RunNodeError, ProcessorErrorNoItem,
                StatusRead, StatusReadMissing, StatusEmit, Goto
  <1> QED BY <1>1, <1>2, <1>3

\* Every step keeps the rows it finds in their places.
LEMMA RowsKept ==
    ASSUME TypeInv, Next
    PROVE  Kept(rows, rows', nextId)
  <1> USE DEF TypeInv, TypeOK
  <1>1. CASE Processor
    <2>1. CASE rows' = rows
      BY <2>1 DEF Kept
    <2>2. ASSUME NEW i \in ItemIds, NEW s \in Statuses \ {"pending"}
          PROVE  Kept(rows, SetStatus(rows, i, s), nextId)
      BY <2>2 DEF Kept, SetStatus, Existing, Tables, Row
    <2>3. ASSUME cur \in Item, rows' = SetSession(rows, cur.id, cur.left, cur.err)
          PROVE  Kept(rows, rows', nextId)
      <3> DEFINE r == [rows[cur.id] EXCEPT !.left = cur.left, !.err = cur.err]
      <3>1. CASE rows[cur.id] = NoRow
        BY <2>3, <3>1 DEF SetSession, Kept
      <3>2. CASE rows[cur.id] # NoRow
        <4>1. rows[cur.id] \in Row /\ cur.id \in ItemIds
          BY <2>3, <3>2 DEF Tables, Item
        <4>2. /\ r.queue = rows[cur.id].queue /\ r.prio = rows[cur.id].prio
              /\ r.intact = rows[cur.id].intact /\ r.status = rows[cur.id].status
          BY <4>1 DEF Row
        <4>3. rows' = [rows EXCEPT ![cur.id] = r]
          BY <2>3, <3>2 DEF SetSession
        <4> HIDE DEF r
        <4> QED BY <3>2, <4>1, <4>2, <4>3 DEF Kept, Existing, Tables
      <3> QED BY <3>1, <3>2
    <2> QED BY <1>1, <2>1, <2>2, <2>3, ProcessorRows
  <1>2. CASE Inserts
    <2>1. ASSUME NEW k \in Nat, NEW r \in Row, rows' = InsertMany(rows, nextId, k, r)
          PROVE  Kept(rows, rows', nextId)
      BY <2>1, InsertedRows DEF Kept
    <2>2. CASE rows' = rows
      BY <2>2 DEF Kept
    <2> QED BY <1>2, <2>1, <2>2, InsertsRows
  <1>3. CASE ~Processor /\ ~Inserts
    <2>1. Alike(rows, rows')
      BY <1>3, OthersAlike DEF Next
    <2> QED BY <2>1 DEF Alike, Kept
  <1> QED BY <1>1, <1>2, <1>3

-----------------------------------------------------------------------------
(* The order in which items start. *)

\* An item begins to be run when it is selected.
LEMMA TakenKept ==
    ASSUME TypeInv, Next, ~(\E i \in ItemIds : DequeueSelect(i))
    PROVE  ran' \cup AboutToRun' \subseteq ran \cup AboutToRun
  <1> USE DEF TypeInv, TypeOK, Held, AboutToRun, Marked
  <1>1. CASE Processor
    <2>1. CASE BeginRun
      BY <2>1 DEF BeginRun
    <2>2. CASE StatusUpdate \/ StatusRead
      BY <2>2 DEF StatusUpdate, StatusRead, Target, ItemOf, Calling
    <2>3. CASE Assign \/ StatusEmit \/ StatusReadMissing
      BY <2>3 DEF Assign, StatusEmit, StatusReadMissing, Halt, Calling
    <2>4. CASE NodeErrorSave \/ AfterRunSession \/ ProcessorError
      BY <2>4 DEF NodeErrorSave, AfterRunSession, ProcessorError, SaveSession, Halt
    <2>5. CASE ~(BeginRun \/ StatusUpdate \/ StatusRead \/ Assign \/ StatusEmit
                   \/ StatusReadMissing \/ NodeErrorSave \/ AfterRunSession \/ ProcessorError)
      BY <1>1, <2>5 DEF Processor, Begin, LoopTop, Gate, DequeueNothing, Wake,
             NextInvocation, NextNodeInputError, NextProcessorError, RunNode,
             RunNodeCanceled, RunNodeError, ProcessorErrorNoItem, Goto, Halt
    <2> QED BY <2>1, <2>2, <2>3, <2>4, <2>5
  <1>2. CASE Listener \/ Handler \/ (\E w \in Workers : Worker(w)) \/ Client
    <2>1. TypeInv'
      BY NextType
    <2>2. UNCHANGED <<procVars, ran>>
      BY <1>2, <2>1, OthersSettle
    <2> QED BY <2>2 DEF procVars
  <1>3. CASE Restart
    BY <1>3 DEF Restart, StartedProcess
  <1> QED BY <1>1, <1>2, <1>3 DEF Next

\* No row of the same priority waits behind an item that ran or is selected.
OrderInv ==
    \A i, j \in Existing(rows) :
        i < j /\ rows[i].prio = rows[j].prio /\ j \in ran \cup AboutToRun
            => rows[i].status # "pending"

LEMMA OrderKept == IInv /\ OrderInv /\ [Next]_vars => OrderInv'
  <1> SUFFICES ASSUME IInv, OrderInv, [Next]_vars PROVE OrderInv'
    OBVIOUS
  <1> USE DEF IInv
  <1>0. TypeInv /\ Existing(rows) \subseteq ItemIds /\ Existing(rows)' \subseteq ItemIds
        /\ rows \in Tables /\ nextId \in Nat
    BY DEF TypeInv, TypeOK, Existing
  <1>1. CASE UNCHANGED vars
    BY <1>1 DEF OrderInv, AboutToRun, Marked, vars
  <1>2. ASSUME Next, ran' \cup AboutToRun' \subseteq ran \cup AboutToRun
        PROVE  OrderInv'
    <2> SUFFICES ASSUME NEW i \in Existing(rows'), NEW j \in Existing(rows'),
                        i < j, rows'[i].prio = rows'[j].prio, j \in ran' \cup AboutToRun',
                        rows'[i].status = "pending"
                 PROVE  FALSE
      BY DEF OrderInv
    <2>1. j < nextId /\ i \in Int /\ j \in Int
      BY <1>0, <1>2 DEF RunsOnce, ItemIds
    <2>2. Kept(rows, rows', nextId)
      BY <1>0, <1>2, RowsKept
    <2>3. /\ i \in Existing(rows) /\ j \in Existing(rows)
          /\ rows[i].prio = rows[j].prio /\ rows[i].status = "pending"
      BY <1>0, <2>1, <2>2 DEF Kept
    <2> QED BY <1>2, <2>3 DEF OrderInv
  <1>3. ASSUME NEW k \in ItemIds, DequeueSelect(k) PROVE OrderInv'
    <2>1. rows' = rows /\ ran' = ran /\ AboutToRun' \subseteq {k} /\ IsNext(rows, k)
      BY <1>3 DEF DequeueSelect, ItemOf, AboutToRun, Marked
    <2>2. \A i \in InStatus(rows, "pending") : rows[i].prio = rows[k].prio => k <= i
      BY <1>0, <2>1 DEF IsNext, Tables, Row, InStatus, Existing
    <2> SUFFICES ASSUME NEW i \in Existing(rows), i < k, rows[i].prio = rows[k].prio,
                        rows[i].status = "pending"
                 PROVE  FALSE
      BY <2>1 DEF OrderInv
    <2> QED BY <1>0, <2>2 DEF InStatus, ItemIds
  <1> QED BY <1>0, <1>1, <1>2, <1>3, TakenKept

\* While rows are inserted, canceled and deleted between the statements of a
\* dequeue, items of the same priority start in the order of their ids.
THEOREM StartsInOrderAlways == Spec => []StartsInOrder
  <1>1. Init => OrderInv
    BY DEF Init, OrderInv, Existing
  <1>2. OrderInv => StartsInOrder
    BY DEF OrderInv, StartsInOrder
  <1> QED BY <1>1, <1>2, InitInv, NextInv, OrderKept, PTL DEF Spec

-----------------------------------------------------------------------------
(* The wake-ups. *)

Awake ==
    \/ pollNow
    \/ \E w \in Workers : enq[w].at = "announce"
    \/ \E n \in 1 .. Len(events) : events[n].kind = "enqueued"

\* Rows that dequeue can take: a retried row, it cannot.
Takable(t) == {i \in InStatus(t, "pending") : t[i].intact}

WakeInv == proc = "idle" /\ serving /\ Takable(rows) # {} => Awake

\* The processor falls asleep only when it found nothing.
LEMMA FallsAsleep ==
    ASSUME TypeInv, Processor, proc' = "idle"
    PROVE  rows' = rows /\ InStatus(rows, "pending") = {}
  <1>1. DequeueNothing
    BY DEF Processor, Begin, LoopTop, Gate, DequeueSelect, Assign,
           BeginRun, Wake, NextInvocation, NextNodeInputError, NextProcessorError,
           RunNode, RunNodeCanceled, RunNodeError, NodeErrorSave, AfterRunSession,
           ProcessorError, ProcessorErrorNoItem, SaveSession, StatusUpdate,
           StatusRead, StatusReadMissing, StatusEmit, Goto, Halt, Calling
  <1> QED BY <1>1 DEF DequeueNothing

\* A listener sets the poll flag or leaves it, and takes the event it handles.
LEMMA ListenerAwake ==
    ASSUME TypeInv, Listener, Awake
    PROVE  Awake'
  <1>1. events \in Seq(Event) /\ events # <<>> /\ events' = Tail(events) /\ enq' = enq
    BY DEF TypeInv, TypeOK, Listener, OnQueueItemStatusChanged, OnQueueCleared, OnBatchEnqueued,
           TakeEvent
  <1>2. CASE OnBatchEnqueued
    BY <1>2 DEF OnBatchEnqueued, Awake
  <1>3. CASE OnQueueItemStatusChanged \/ OnQueueCleared
    <2>1. (pollNow => pollNow') /\ Head(events).kind # "enqueued"
      BY <1>3 DEF OnQueueItemStatusChanged, OnQueueCleared, TakeEvent
    <2>2. ASSUME NEW n \in 1 .. Len(events), events[n].kind = "enqueued"
          PROVE  Awake'
      <3>1. n # 1
        BY <1>1, <2>1, <2>2
      <3>2. n - 1 \in 1 .. Len(events') /\ events'[n - 1] = events[n]
        BY <1>1, <3>1
      <3> QED BY <2>2, <3>2 DEF Awake
    <2> QED BY <1>1, <2>1, <2>2 DEF Awake
  <1> QED BY <1>2, <1>3 DEF Listener

\* An event appended to the queue leaves those before it.
LEMMA EmitAwake ==
    ASSUME TypeInv, NEW e \in Event, Emit(e),
           (\E n \in 1 .. Len(events) : events[n].kind = "enqueued") \/ e.kind = "enqueued"
    PROVE  \E n \in 1 .. Len(events') : events'[n].kind = "enqueued"
  <1>1. /\ events \in Seq(Event) /\ events' = Append(events, e)
    BY DEF TypeInv, TypeOK, Emit
  <1>2. /\ Len(events) \in Nat /\ Len(events') = Len(events) + 1
        /\ events'[Len(events) + 1] = e
        /\ \A i \in 1 .. Len(events) : events'[i] = events[i]
    BY <1>1
  <1> QED BY <1>1, <1>2

LEMMA WakeKept == IInv /\ WakeInv /\ [Next]_vars => WakeInv'
  <1> SUFFICES ASSUME IInv, WakeInv, [Next]_vars PROVE WakeInv'
    OBVIOUS
  <1>0. TypeInv /\ TypeInv' /\ enq \in [Workers -> Enq]
    BY NextType DEF IInv, TypeInv, TypeOK
  <1>1. CASE UNCHANGED vars
    BY <1>1 DEF WakeInv, Awake, Takable, vars, flags
  <1>2. CASE Processor
    <2>1. CASE proc' = "idle"
      BY <1>0, <1>2, <2>1, FallsAsleep DEF WakeInv, Takable
    <2> QED BY <2>1 DEF WakeInv
  <1>3. CASE Restart
    BY <1>3 DEF Restart, StartedProcess, WakeInv
  <1>4. ASSUME NEW w \in Workers, EnqueueInsert(w) PROVE WakeInv'
    BY <1>0, <1>4 DEF EnqueueInsert, WakeInv, Awake
  <1>5. CASE /\ Listener \/ Handler \/ (\E w \in Workers : Worker(w)) \/ Client
             /\ ~(\E w \in Workers : EnqueueInsert(w))
    <2>0. proc' = proc
      BY <1>5, <1>0, OthersSettle DEF procVars
    <2>1. serving' => serving
      BY <1>5 DEF procVars, Listener, OnQueueItemStatusChanged, OnQueueCleared,
         OnBatchEnqueued, TakeEvent, Handler, BulkCancel, CancelUpdate, CancelRead, CancelEmit,
         ClearDelete, handlerFrame, Worker, EnqueueCount, EnqueueAnnounce, enqFrame, Client,
         EnqueueBatch, CancelQueueItem, RetryItem, CancelByBatchIds, CancelByDestination,
         CancelByQueueId, CancelBy, CancelAllExceptCurrent, Clear, Prune, ChangeRows, Pause,
         Resume, Shutdown
    <2>2. Takable(rows') \subseteq Takable(rows)
      <3>1. CASE Inserts
        <4>1. PICK i \in ItemIds : RetryItem(i)
          BY <1>5, <3>1 DEF Inserts
        <4>2. CASE RetryInsertable(rows, rows[i])
          <5>1. /\ rows' = InsertMany(rows, nextId, 1, RetriedRow(rows[i]))
                /\ rows[i] \in Row /\ rows \in Tables /\ nextId \in Nat
            BY <1>0, <4>1, <4>2 DEF RetryItem, TypeInv, TypeOK, Tables
          <5>2. ~RetriedRow(rows[i]).intact
            BY <5>1 DEF RetriedRow, Row
          <5>3. ASSUME NEW j \in Takable(rows') PROVE j \in Takable(rows)
            <6>1. j \in Existing(rows') /\ rows'[j].intact /\ rows'[j].status = "pending"
              BY <5>3 DEF Takable, InStatus
            <6>2. j \in Existing(rows) /\ rows'[j] = rows[j]
              BY <5>1, <5>2, <6>1, InsertedRows, 1 \in Nat
            <6> QED BY <6>1, <6>2 DEF Takable, InStatus
          <5> QED BY <5>3
        <4>3. CASE ~RetryInsertable(rows, rows[i])
          BY <4>1, <4>3 DEF RetryItem
        <4> QED BY <4>2, <4>3
      <3>2. CASE ~Inserts
        <4>1. Alike(rows, rows')
          BY <1>0, <1>5, <3>2, OthersAlike
        <4> QED BY <4>1 DEF Alike, Takable, InStatus
      <3> QED BY <3>1, <3>2
    <2>3. Awake => Awake'
      <3> SUFFICES ASSUME Awake PROVE Awake'
        OBVIOUS
      <3>1. CASE Listener
        BY <1>0, <3>1, ListenerAwake
      <3>2. CASE UNCHANGED <<pollNow, events, enq>>
        BY <3>2 DEF Awake
      <3>3. ASSUME NEW e \in Event, Emit(e), UNCHANGED <<pollNow, enq>> PROVE Awake'
        BY <1>0, <3>3, EmitAwake DEF Awake
      <3>4. CASE Handler
        <4>1. CASE CancelEmit
          <5>1. StatusChanged(loop.item, loop.queue, loop.seen) \in Event
            BY <1>0, <4>1, EventTypes DEF CancelEmit, Loop, TypeInv, TypeOK, Held, Steps
          <5> QED BY <3>3, <4>1, <5>1 DEF CancelEmit, handlerFrame, flags
        <4>2. CASE ClearDelete
          <5>1. QueueCleared(loop.queue) \in Event
            BY <1>0, EventTypes DEF Loop, TypeInv, TypeOK
          <5> QED BY <3>3, <4>2, <5>1 DEF ClearDelete, handlerFrame, flags
        <4>3. CASE BulkCancel \/ CancelUpdate \/ CancelRead
          BY <3>2, <4>3 DEF BulkCancel, CancelUpdate, CancelRead, handlerFrame, flags
        <4> QED BY <3>4, <4>1, <4>2, <4>3 DEF Handler
      <3>5. ASSUME NEW w \in Workers, Worker(w) PROVE Awake'
        <4>1. CASE EnqueueAnnounce(w)
          <5>1. enq[w].batch \in Batch
            BY <1>0, <4>1 DEF EnqueueAnnounce, Enq, EnqIdle
          <5>2. BatchEnqueued(enq[w].batch.queue) \in Event
            BY <5>1, EventTypes DEF Batch
          <5> QED BY <1>0, <4>1, <5>2, EmitAwake DEF EnqueueAnnounce, BatchEnqueued, Awake
        <4>2. CASE EnqueueCount(w)
          <5>1. /\ UNCHANGED <<pollNow, events>> /\ enq[w].at = "count"
                /\ \A v \in Workers \ {w} : enq'[v] = enq[v]
            BY <1>0, <4>2 DEF EnqueueCount, enqFrame, flags
          <5> QED BY <5>1 DEF Awake
        <4> QED BY <1>5, <3>5, <4>1, <4>2 DEF Worker
      <3>6. CASE Client
        <4>1. ASSUME NEW w \in Workers, NEW b \in Batches, EnqueueBatch(w, b) PROVE Awake'
          <5>1. /\ UNCHANGED <<pollNow, events>> /\ enq[w].at = "idle"
                /\ \A v \in Workers \ {w} : enq'[v] = enq[v]
            BY <1>0, <4>1 DEF EnqueueBatch, enqFrame, flags, EnqIdle
          <5> QED BY <5>1 DEF Awake
        <4>2. CASE ~(\E w \in Workers, b \in Batches : EnqueueBatch(w, b))
          <5>1. UNCHANGED <<pollNow, events, enq>>
            BY <3>6, <4>2 DEF Client, CancelQueueItem, RetryItem, CancelByBatchIds,
               CancelByDestination, CancelByQueueId, CancelBy, CancelAllExceptCurrent, Clear,
               Prune, ChangeRows, Pause, Resume, Shutdown, handlerFrame, flags
          <5> QED BY <3>2, <5>1
        <4> QED BY <4>1, <4>2
      <3> QED BY <1>5, <3>1, <3>4, <3>5, <3>6
    <2> QED BY <2>0, <2>1, <2>2, <2>3 DEF WakeInv
  <1> QED BY <1>1, <1>2, <1>3, <1>4, <1>5 DEF Next

\* The processor sleeps while no enqueued row waits, or its wake-up is on its
\* way, whatever is enqueued, canceled, pruned and retried while it falls
\* asleep, and whoever restarts the process.
THEOREM NoLostWakeupAlways == Spec => []NoLostWakeup
  <1>1. Init => WakeInv
    BY DEF Init, WakeInv
  <1>2. IInv /\ WakeInv => NoLostWakeup
    <2> SUFFICES ASSUME IInv, WakeInv PROVE NoLostWakeup
      OBVIOUS
    <2>1. DOMAIN events = 1 .. Len(events)
      BY DEF IInv, TypeOK
    <2> QED BY <2>1 DEF WakeInv, Awake, Takable, NoLostWakeup
  <1> QED BY <1>1, <1>2, InitInv, NextInv, WakeKept, PTL DEF Spec

-----------------------------------------------------------------------------
(* The capacity of the queues. *)

\* Enqueued rows that wait in queue q of table t.
Fresh(t, q) == {i \in Pending(t, q) : t[i].intact}

\* Those of them that worker w has inserted, if own says who inserted which.
Mine(t, own, q, w) == {i \in Fresh(t, q) : own[i] = w}

\* Every enqueued row that waits was inserted by some worker, none of which
\* has more than max_queue_size of them waiting; and what a worker has counted
\* leaves room for its own.
Shares(own) ==
    /\ \A q \in Queues : \A i \in Fresh(rows, q) : own[i] \in Workers
    /\ \A q \in Queues, w \in Workers : Cardinality(Mine(rows, own, q, w)) <= MaxQueueSize
    /\ \A w \in Workers : enq[w].at = "insert" =>
          Cardinality(Mine(rows, own, enq[w].batch.queue, w)) + enq[w].room <= MaxQueueSize

Shared == \E own \in [ItemIds -> Workers \cup {0}] : Shares(own)

\* A part of the rows is finite, and a part of that is no larger.
LEMMA RowsFinite ==
    ASSUME NEW S, S \subseteq ItemIds, NEW R, R \subseteq S
    PROVE  /\ IsFiniteSet(S) /\ IsFiniteSet(R)
           /\ Cardinality(S) \in Nat /\ Cardinality(R) \in Nat
           /\ Cardinality(R) <= Cardinality(S)
  <1>1. IsFiniteSet(ItemIds)
    BY FS_Interval DEF ItemIds
  <1>2. IsFiniteSet(S) /\ IsFiniteSet(R)
    BY <1>1, FS_Subset
  <1> QED BY <1>2, FS_Subset, FS_CardinalityType

\* A set with fewer than n + 1 members fits into 1 .. n.
LEMMA Numbered ==
    ASSUME NEW S, IsFiniteSet(S), NEW n \in Nat, Cardinality(S) <= n
    PROVE  \E f \in [S -> 1 .. n] : \A x, y \in S : f[x] = f[y] => x = y
  <1> DEFINE c == Cardinality(S)
  <1>1. c \in Nat /\ ExistsBijection(1 .. c, S)
    BY FS_CardinalityType
  <1>2. ExistsBijection(S, 1 .. c)
    BY <1>1, Fun_ExistsBijSymmetric
  <1>3. \E f \in Bijection(S, 1 .. c) : TRUE
    BY <1>2, Fun_ExistsBij
  <1>4. \E f \in [S -> 1 .. c] : \A x, y \in S : f[x] = f[y] => x = y
    <2> HIDE DEF c
    <2> DEFINE T == 1 .. c
    <2> HIDE DEF T
    <2>1. ASSUME NEW f \in Bijection(S, T)
          PROVE  f \in [S -> T] /\ \A x, y \in S : f[x] = f[y] => x = y
      <3>1. f \in [S -> T]
        BY Fun_BijectionProperties
      <3>2. \A x, y \in S : f[x] = f[y] => x = y
        BY Fun_BijectionProperties
      <3> QED BY <3>1, <3>2
    <2> QED BY <1>3, <2>1 DEF T
  <1>5. 1 .. c \subseteq 1 .. n
    BY <1>1
  <1> HIDE DEF c
  <1> QED BY <1>4, <1>5

\* If at most n members of S belong to each of the members of W, S has at most
\* n members per member of W.
LEMMA SharesBound ==
    ASSUME NEW S, IsFiniteSet(S), NEW W, IsFiniteSet(W), NEW n \in Nat,
           NEW own, \A x \in S : own[x] \in W,
           \A w \in W : Cardinality({x \in S : own[x] = w}) <= n
    PROVE  Cardinality(S) <= n * Cardinality(W)
  <1> DEFINE Part(w) == {x \in S : own[x] = w}
             Numbering(w, f) == /\ f \in [Part(w) -> 1 .. n]
                                /\ \A x, y \in Part(w) : f[x] = f[y] => x = y
             num == [w \in W |-> CHOOSE f : Numbering(w, f)]
             g == [x \in S |-> <<num[own[x]][x], own[x]>>]
  <1>1. ASSUME NEW w \in W PROVE Numbering(w, num[w])
    <2>1. IsFiniteSet(Part(w)) /\ Cardinality(Part(w)) <= n
      BY FS_Subset
    <2>2. \E f : Numbering(w, f)
      <3> HIDE DEF Part
      <3> QED BY <2>1, Numbered
    <2> HIDE DEF Numbering
    <2> QED BY <2>2
  <1>2. \A w \in W : /\ num[w] \in [Part(w) -> 1 .. n]
                     /\ \A x, y \in Part(w) : num[w][x] = num[w][y] => x = y
    <2> HIDE DEF num, Part
    <2> QED BY <1>1
  <1> HIDE DEF num
  <1>3. \A x \in S : own[x] \in W /\ x \in Part(own[x])
    OBVIOUS
  <1> HIDE DEF Part
  <1>4. g \in [S -> (1 .. n) \X W]
    BY <1>2, <1>3
  <1>5. \A x, y \in S : g[x] = g[y] => x = y
    BY <1>2, <1>3
  <1> HIDE DEF g
  <1>6. IsFiniteSet(1 .. n) /\ Cardinality(1 .. n) = n
    <2>1. 1 \in Int /\ n \in Int
      OBVIOUS
    <2>2. IsFiniteSet(1 .. n) /\ Cardinality(1 .. n) = IF 1 > n THEN 0 ELSE n - 1 + 1
      BY <2>1, FS_Interval, Zenon
    <2> QED BY <2>2
  <1>7. /\ IsFiniteSet((1 .. n) \X W)
        /\ Cardinality((1 .. n) \X W) = n * Cardinality(W)
    BY <1>6, FS_Product
  <1>8. g \in Injection(S, (1 .. n) \X W)
    BY <1>4, <1>5, Fun_IsInj
  <1> QED BY <1>7, <1>8, FS_Injection

\* Unless an enqueue call inserts, no row comes to wait as enqueued.
LEMMA FreshKept ==
    ASSUME IInv, Next, ~(\E w \in Workers : EnqueueInsert(w))
    PROVE  \A q : Fresh(rows', q) \subseteq Fresh(rows, q)
  <1>0. TypeInv /\ rows \in Tables
    BY DEF IInv, TypeInv, TypeOK
  <1>1. ASSUME NEW i \in ItemIds, RetryItem(i)
        PROVE  \A q : Fresh(rows', q) \subseteq Fresh(rows, q)
    <2>1. CASE RetryInsertable(rows, rows[i])
      <3>1. /\ rows' = InsertMany(rows, nextId, 1, RetriedRow(rows[i]))
            /\ rows[i] \in Row /\ nextId \in Nat
        BY <1>0, <1>1, <2>1 DEF RetryItem, TypeInv, TypeOK, Tables
      <3>2. ~RetriedRow(rows[i]).intact
        BY <3>1 DEF RetriedRow, Row
      <3>3. \A j \in Existing(rows') :
               rows'[j].intact => j \in Existing(rows) /\ rows'[j] = rows[j]
        BY <1>0, <3>1, <3>2, InsertedRows, 1 \in Nat
      <3> QED BY <3>3 DEF Fresh, Pending, InStatus, InQueue
    <2>2. CASE ~RetryInsertable(rows, rows[i])
      BY <1>1, <2>2 DEF RetryItem
    <2> QED BY <2>1, <2>2
  <1>2. CASE ~Inserts /\ ~Processor
    <2>1. Alike(rows, rows')
      BY <1>0, <1>2, OthersAlike DEF Next
    <2> QED BY <2>1 DEF Alike, Fresh, Pending, InStatus, InQueue
  <1>3. CASE Processor
    <2>1. Kept(rows, rows', nextId)
      BY <1>0, <1>3, RowsKept DEF Next
    <2>2. \A i \in Existing(rows') : i \in Existing(rows)
      <3>1. CASE ~StatusUpdate
        BY <1>0, <1>3, <3>1, ProcessorKeepsStatus
      <3>2. CASE StatusUpdate
        BY <3>2 DEF StatusUpdate, SetStatus, Existing
      <3> QED BY <3>1, <3>2
    <2>3. \A i \in Existing(rows) : i < nextId /\ i \in Int /\ nextId \in Int
      BY <1>0 DEF IInv, RunsOnce, TypeInv, TypeOK, Existing, ItemIds
    <2> QED BY <2>1, <2>2, <2>3 DEF Kept, Fresh, Pending, InStatus, InQueue
  <1> QED BY <1>1, <1>2, <1>3 DEF Inserts

\* An enqueue call inserts rows that are its own, and no more of them than fit.
LEMMA InsertShared ==
    ASSUME IInv, Shared, NEW w \in Workers, EnqueueInsert(w)
    PROVE  Shared'
  <1> DEFINE b == enq[w].batch
             k == Enqueued(enq[w])
             r == NewRow(b, enq[w].prio)
             new == nextId .. nextId + k - 1
  <1>1. /\ rows \in Tables /\ nextId \in Nat /\ enq[w].at = "insert"
        /\ b \in Batch /\ enq[w].prio \in Nat /\ enq[w].room \in Int
        /\ \A i \in Existing(rows) : i < nextId /\ i \in ItemIds
    BY DEF IInv, RunsOnce, TypeOK, EnqueueInsert, Enq, EnqIdle, Existing
  <1>2. k \in Nat /\ (k <= enq[w].room \/ k = 0)
    BY <1>1 DEF Enqueued, Batch
  <1>3. rows' = InsertMany(rows, nextId, k, r)
    BY DEF EnqueueInsert
  <1>4. r.queue = b.queue /\ b.queue \in Queues
    BY <1>1 DEF NewRow, Batch
  <1>5. /\ enq'[w].at = "announce"
        /\ \A v \in Workers \ {w} : enq'[v] = enq[v]
    <2>1. enq \in [Workers -> Enq] /\ enq' = [enq EXCEPT ![w].at = "announce"]
      BY DEF IInv, TypeOK, EnqueueInsert
    <2>2. enq[w] \in [at : {"count", "insert", "announce"}, batch : Batches, prio : Nat,
                      room : Int]
      BY <1>1, <2>1 DEF Enq, EnqIdle
    <2> QED BY <2>1, <2>2
  <1>6. PICK own \in [ItemIds -> Workers \cup {0}] : Shares(own)
    BY DEF Shared
  <1>7. PICK own2 \in [ItemIds -> Workers \cup {0}] :
              \A i \in ItemIds : own2[i] = IF i \in new THEN w ELSE own[i]
    <2> WITNESS [i \in ItemIds |-> IF i \in new THEN w ELSE own[i]]
                  \in [ItemIds -> Workers \cup {0}]
    <2> QED OBVIOUS
  <1> HIDE DEF k, r, b
  <1>8. \A i \in Existing(rows') : \/ i \in Existing(rows) /\ rows'[i] = rows[i]
                                   \/ i \in new /\ rows'[i] = r
    BY <1>1, <1>2, <1>3, InsertedRows
  <1>9. \A i \in Existing(rows) : i \notin new /\ own2[i] = own[i]
    BY <1>1, <1>2, <1>7
  <1>10. \A i \in Existing(rows') : i \in ItemIds /\ (i \in new => own2[i] = w)
    BY <1>7 DEF Existing
  <1> HIDE DEF new
  <1>11. ASSUME NEW q \in Queues, NEW i \in Fresh(rows', q)
         PROVE  \/ i \in Fresh(rows, q) /\ own2[i] = own[i]
                \/ i \in new /\ own2[i] = w /\ q = b.queue
    BY <1>4, <1>8, <1>9, <1>10, <1>11 DEF Fresh, Pending, InStatus, InQueue
  <1>12. ASSUME NEW q \in Queues, NEW v \in Workers, v # w \/ q # b.queue
         PROVE  Mine(rows', own2, q, v) \subseteq Mine(rows, own, q, v)
    BY <1>11, <1>12 DEF Mine
  <1>13. \A t, o, q, v : Mine(t, o, q, v) \subseteq ItemIds
    BY DEF Mine, Fresh, Pending, InStatus, Existing
  <1>14. ASSUME NEW q \in Queues, NEW v \in Workers, v # w \/ q # b.queue
         PROVE  /\ Cardinality(Mine(rows', own2, q, v)) <= Cardinality(Mine(rows, own, q, v))
                /\ Cardinality(Mine(rows', own2, q, v)) \in Nat
                /\ Cardinality(Mine(rows, own, q, v)) \in Nat
    BY <1>12, <1>13, <1>14, RowsFinite
  <1>15. Cardinality(Mine(rows', own2, b.queue, w)) <= MaxQueueSize
    <2> DEFINE old == Mine(rows, own, b.queue, w)
               all == Mine(rows', own2, b.queue, w)
    <2>1. Cardinality(old) <= MaxQueueSize /\ Cardinality(old) + enq[w].room <= MaxQueueSize
      <3>1. enq[w].at = "insert" /\ b.queue \in Queues
        BY <1>1, <1>4
      <3>2. Cardinality(old) <= MaxQueueSize
        BY <1>6, <3>1 DEF Shares
      <3>3. Cardinality(Mine(rows, own, enq[w].batch.queue, w)) + enq[w].room <= MaxQueueSize
        BY <1>6, <3>1 DEF Shares
      <3> QED BY <3>2, <3>3 DEF b
    <2>2. IsFiniteSet(new) /\ Cardinality(new) = k
      <3> DEFINE last == nextId + k - 1
      <3>1. nextId \in Int /\ last \in Int
        BY <1>1, <1>2
      <3>2. k = IF nextId > last THEN 0 ELSE last - nextId + 1
        BY <1>1, <1>2
      <3> HIDE DEF last
      <3>3. IsFiniteSet(nextId .. last)
            /\ Cardinality(nextId .. last) = IF nextId > last THEN 0 ELSE last - nextId + 1
        BY <3>1, FS_Interval
      <3> QED BY <3>2, <3>3 DEF new, last
    <2>3. all \subseteq old \cup new
      BY <1>4, <1>11 DEF Mine
    <2>4. IsFiniteSet(old) /\ Cardinality(old) \in Nat /\ Cardinality(all) \in Nat
      BY <1>13, RowsFinite
    <2> HIDE DEF old, all
    <2>5. IsFiniteSet(old \cup new) /\ Cardinality(old \cap new) \in Nat
          /\ Cardinality(old \cup new) = Cardinality(old) + Cardinality(new)
                                           - Cardinality(old \cap new)
      <3>1. IsFiniteSet(old \cap new)
        BY <2>2, FS_Subset
      <3> QED BY <2>2, <2>4, <3>1, FS_Union, FS_CardinalityType
    <2>6. Cardinality(all) <= Cardinality(old \cup new)
      BY <2>3, <2>5, FS_Subset
    <2>7. Cardinality(old) + k <= MaxQueueSize
      BY <1>1, <1>2, <2>1, <2>4
    <2>8. Cardinality(old \cup new) \in Int
      BY <1>2, <2>2, <2>4, <2>5
    <2> QED BY <1>2, <2>2, <2>4, <2>5, <2>6, <2>7, <2>8 DEF all
  <1>16. Shares(own2)'
    <2>1. \A q \in Queues : \A i \in Fresh(rows', q) : own2[i] \in Workers
      BY <1>6, <1>11 DEF Shares
    <2>2. \A q \in Queues, v \in Workers : Cardinality(Mine(rows', own2, q, v)) <= MaxQueueSize
      <3> SUFFICES ASSUME NEW q \in Queues, NEW v \in Workers
                   PROVE  Cardinality(Mine(rows', own2, q, v)) <= MaxQueueSize
        OBVIOUS
      <3>1. Cardinality(Mine(rows, own, q, v)) <= MaxQueueSize
        BY <1>6 DEF Shares
      <3>2. CASE v # w \/ q # b.queue
        BY <1>14, <3>1, <3>2
      <3>3. CASE v = w /\ q = b.queue
        BY <1>15, <3>3
      <3> QED BY <3>2, <3>3
    <2>3. ASSUME NEW v \in Workers, enq'[v].at = "insert"
          PROVE  Cardinality(Mine(rows', own2, enq'[v].batch.queue, v)) + enq'[v].room
                   <= MaxQueueSize
      <3>1. v # w /\ enq'[v] = enq[v]
        BY <1>5, <2>3
      <3>2. enq[v].batch.queue \in Queues /\ enq[v].room \in Int
        BY <2>3, <3>1 DEF IInv, TypeOK, Enq, EnqIdle, Batch
      <3>3. Cardinality(Mine(rows, own, enq[v].batch.queue, v)) + enq[v].room <= MaxQueueSize
        BY <1>6, <2>3, <3>1 DEF Shares
      <3>4. /\ Cardinality(Mine(rows', own2, enq[v].batch.queue, v)) \in Nat
            /\ Cardinality(Mine(rows, own, enq[v].batch.queue, v)) \in Nat
            /\ Cardinality(Mine(rows', own2, enq[v].batch.queue, v))
                 <= Cardinality(Mine(rows, own, enq[v].batch.queue, v))
        BY <1>14, <3>1, <3>2
      <3>5. Cardinality(Mine(rows', own2, enq[v].batch.queue, v)) + enq[v].room <= MaxQueueSize
        BY <3>2, <3>3, <3>4
      <3> QED BY <3>1, <3>5
    <2> QED BY <2>1, <2>2, <2>3 DEF Shares
  <1> QED BY <1>7, <1>16 DEF Shared

\* A call that is about to insert has counted in this step, or is as it was.
LEMMA CountKept ==
    ASSUME TypeInv, Next, NEW w \in Workers, enq'[w].at = "insert"
    PROVE  enq'[w] = enq[w] \/ EnqueueCount(w)
  <1>0. enq \in [Workers -> Enq]
    BY DEF TypeInv, TypeOK
  <1>1. ASSUME NEW v \in Workers, Worker(v) PROVE enq'[w] = enq[w] \/ EnqueueCount(w)
    <2>1. CASE v # w
      <3>1. enq'[w] = enq[w]
        BY <1>0, <1>1, <2>1 DEF Worker, EnqueueCount, EnqueueInsert, EnqueueAnnounce
      <3> QED BY <3>1
    <2>2. CASE v = w
      <3>1. ~EnqueueAnnounce(w)
        BY <1>0 DEF EnqueueAnnounce, EnqIdle
      <3>2. ~EnqueueInsert(w)
        <4> SUFFICES ASSUME EnqueueInsert(w) PROVE FALSE
          OBVIOUS
        <4>1. enq[w] \in [at : {"count", "insert", "announce"}, batch : Batches, prio : Nat,
                          room : Int]
          BY <1>0 DEF EnqueueInsert, Enq, EnqIdle
        <4>2. enq'[w].at = "announce"
          BY <1>0, <4>1 DEF EnqueueInsert
        <4> QED BY <4>2
      <3> QED BY <1>1, <2>2, <3>1, <3>2 DEF Worker
    <2> QED BY <2>1, <2>2
  <1>2. CASE \E v \in Workers, b \in Batches : EnqueueBatch(v, b)
    BY <1>0, <1>2 DEF EnqueueBatch
  <1>3. CASE Restart
    BY <1>3 DEF Restart, StartedProcess, EnqIdle
  <1>4. CASE Processor
    BY <1>4 DEF Processor, Begin, others, LoopTop, Gate,
     DequeueNothing, DequeueSelect, Assign, BeginRun, Wake, NextInvocation,
     NextNodeInputError, NextProcessorError, RunNode, RunNodeCanceled, RunNodeError,
     NodeErrorSave, AfterRunSession, ProcessorError, ProcessorErrorNoItem, SaveSession,
     StatusUpdate, StatusRead, StatusReadMissing, StatusEmit, Goto
  <1>5. CASE Listener \/ Handler
    BY <1>5 DEF Listener, OnQueueItemStatusChanged, OnQueueCleared, OnBatchEnqueued,
       TakeEvent, Handler, BulkCancel, CancelUpdate, CancelRead, CancelEmit,
       ClearDelete, handlerFrame
  <1>6. CASE Client /\ ~(\E v \in Workers, b \in Batches : EnqueueBatch(v, b))
    BY <1>6 DEF Client, CancelQueueItem, RetryItem, CancelByBatchIds,
       CancelByDestination, CancelByQueueId, CancelBy, CancelAllExceptCurrent, Clear,
       Prune, ChangeRows, Pause, Resume, Shutdown, handlerFrame
  <1> QED BY <1>1, <1>2, <1>3, <1>4, <1>5, <1>6 DEF Next

LEMMA SharedKept == IInv /\ Shared /\ [Next]_vars => Shared'
  <1> SUFFICES ASSUME IInv, Shared, [Next]_vars PROVE Shared'
    OBVIOUS
  <1>0. TypeInv /\ enq \in [Workers -> Enq]
    BY DEF IInv, TypeInv, TypeOK
  <1>1. CASE UNCHANGED vars
    BY <1>1 DEF Shared, Shares, vars
  <1>2. CASE \E w \in Workers : EnqueueInsert(w)
    BY <1>2, InsertShared
  <1>3. CASE Next /\ ~(\E w \in Workers : EnqueueInsert(w))
    <2>1. PICK own \in [ItemIds -> Workers \cup {0}] : Shares(own)
      BY DEF Shared
    <2>2. \A q : Fresh(rows', q) \subseteq Fresh(rows, q)
      BY <1>3, FreshKept
    <2>3. ASSUME NEW q, NEW w
          PROVE  /\ Cardinality(Mine(rows', own, q, w)) \in Nat
                 /\ Cardinality(Mine(rows, own, q, w)) \in Nat
                 /\ Cardinality(Mine(rows', own, q, w)) <= Cardinality(Mine(rows, own, q, w))
      <3>1. Mine(rows', own, q, w) \subseteq Mine(rows, own, q, w)
        BY <2>2 DEF Mine
      <3>2. Mine(rows, own, q, w) \subseteq ItemIds
        BY DEF Mine, Fresh, Pending, InStatus, Existing
      <3> QED BY <3>1, <3>2, RowsFinite
    <2>4. \A q \in Queues : \A i \in Fresh(rows', q) : own[i] \in Workers
      BY <2>1, <2>2 DEF Shares
    <2>5. \A q \in Queues, w \in Workers : Cardinality(Mine(rows', own, q, w)) <= MaxQueueSize
      BY <2>1, <2>3 DEF Shares
    <2>6. ASSUME NEW w \in Workers, enq'[w].at = "insert"
          PROVE  Cardinality(Mine(rows', own, enq'[w].batch.queue, w)) + enq'[w].room
                   <= MaxQueueSize
      <3>1. CASE enq'[w] = enq[w]
        <4>1. enq[w].room \in Int
          BY <1>0, <2>6, <3>1 DEF Enq, EnqIdle
        <4>2. Cardinality(Mine(rows, own, enq[w].batch.queue, w)) + enq[w].room <= MaxQueueSize
          BY <2>1, <2>6, <3>1 DEF Shares
        <4> QED BY <2>3, <3>1, <4>1, <4>2
      <3>2. CASE EnqueueCount(w)
        <4> DEFINE q == enq[w].batch.queue
                   c == Cardinality(Pending(rows, q))
        <4>1. rows' = rows
          BY <3>2 DEF EnqueueCount
        <4>2. enq[w] \in [at : {"count", "insert", "announce"}, batch : Batches, prio : Nat,
                          room : Int]
          BY <1>0, <3>2 DEF EnqueueCount, Enq, EnqIdle
        <4>3. PICK p : enq' = [enq EXCEPT
                                ![w].at = "insert",
                                ![w].prio = IF enq[w].batch.prepend THEN p + 1 ELSE 0,
                                ![w].room = MaxQueueSize - c]
          BY <3>2 DEF EnqueueCount
        <4>4. Mine(rows, own, q, w) \subseteq Pending(rows, q) /\ Pending(rows, q) \subseteq ItemIds
          BY DEF Mine, Fresh, Pending, InStatus, Existing
        <4>5. Cardinality(Mine(rows, own, q, w)) <= c /\ c \in Nat
              /\ Cardinality(Mine(rows, own, q, w)) \in Nat
          BY <4>4, RowsFinite
        <4> HIDE DEF c, q
        <4>6. enq'[w].room = MaxQueueSize - c /\ enq'[w].batch = enq[w].batch
          BY <1>0, <4>2, <4>3
        <4> QED BY <4>1, <4>5, <4>6 DEF q
      <3> QED BY <1>0, <1>3, <2>6, <3>1, <3>2, CountKept
    <2> QED BY <2>1, <2>4, <2>5, <2>6 DEF Shared, Shares
  <1> QED BY <1>1, <1>2, <1>3

\* Whatever calls overlap, and whatever is canceled, pruned, cleared and
\* retried between counting the room and filling it: of what was enqueued, no
\* more waits in a queue than max_queue_size for every worker thread.
THEOREM CapacityKept == Spec => []QueueCapacity
  <1>1. Init => Shared
    <2> SUFFICES ASSUME Init PROVE Shared
      OBVIOUS
    <2> DEFINE own == [i \in ItemIds |-> 0]
    <2>1. own \in [ItemIds -> Workers \cup {0}]
      OBVIOUS
    <2>2. \A o, q, w : Fresh(rows, q) = {} /\ Mine(rows, o, q, w) = {}
      BY DEF Init, Mine, Fresh, Pending, InStatus, Existing
    <2>3. \A w \in Workers : enq[w].at # "insert"
      BY DEF Init, EnqIdle
    <2> HIDE DEF own
    <2>4. Cardinality({}) = 0 /\ 0 <= MaxQueueSize
      BY FS_EmptySet
    <2>5. Shares(own)
      BY <2>2, <2>3, <2>4 DEF Shares
    <2> QED BY <2>1, <2>5 DEF Shared
  <1>2. Shared => QueueCapacity
    <2> SUFFICES ASSUME Shared, NEW q \in Queues
                 PROVE  Cardinality(Fresh(rows, q)) <= MaxQueueSize * Cardinality(Workers)
      BY DEF QueueCapacity, Fresh
    <2>1. PICK own \in [ItemIds -> Workers \cup {0}] : Shares(own)
      BY DEF Shared
    <2>2. IsFiniteSet(Fresh(rows, q))
      <3>1. Fresh(rows, q) \subseteq ItemIds
        BY DEF Fresh, Pending, InStatus, Existing
      <3> QED BY <3>1, RowsFinite
    <2>3. \A w \in Workers : Cardinality({i \in Fresh(rows, q) : own[i] = w}) <= MaxQueueSize
      BY <2>1 DEF Shares, Mine
    <2>4. \A i \in Fresh(rows, q) : own[i] \in Workers
      BY <2>1 DEF Shares
    <2> QED BY <2>2, <2>3, <2>4, SharesBound
  <1> QED BY <1>1, <1>2, InitInv, NextInv, SharedKept, PTL DEF Spec

-----------------------------------------------------------------------------
(* What the signs of a cancellation are worth: whoever sees one finds the    *)
(* item ended for good, or recalled by a client.                            *)

\* Nothing will mark item k in progress any more.
Settled(k) ==
    /\ k \in ItemIds /\ k < nextId
    /\ k \notin InStatus(rows, "pending")
    /\ ~(proc = "marking" /\ step = "update" /\ fetched.id = k)

Ended(k) == rows[k] = NoRow \/ rows[k].status \in Terminal

\* An item that a client named, or an item whose outcome is under way.
Fated(k) == k \in ItemIds /\ (k \in recalled \/ Settled(k))

Over(k) == k \in recalled \/ Ended(k)

\* The cancellation that a handler carries out.
LoopSign ==
    /\ loop.at # "idle" /\ loop.item # 0 => Fated(loop.item)
    /\ loop.at = "read" \/ (loop.at = "emit" /\ loop.seen = "canceled") => Over(loop.item)

\* The events of cancellations.
EventSign ==
    \A n \in 1 .. Len(events) :
        events[n].kind = "status" /\ events[n].status = "canceled"
            => Fated(events[n].item) /\ Over(events[n].item)

\* The row as the processor has read it back.
ReadSign ==
    /\ (proc \in Calling /\ step = "emit") \/ proc = "assign" =>
         Settled(fetched.id) /\ (fetched.status \in Terminal => Over(fetched.id))
    /\ proc \in {"clear", "next", "node"} /\ cur.status \in Terminal => Over(cur.id)

\* The cancel event.
FlagSign == proc \in {"next", "node"} /\ cancelEvent => Over(cur.id)

\* The current item has run, but for the one that is about to.
CurRan == cur # NoItem /\ proc # "clear" => cur.id \in ran

SignInv == CurRan /\ LoopSign /\ EventSign /\ ReadSign /\ FlagSign

\* Ids only grow.
LEMMA IdsGrow ==
    ASSUME TypeInv, Next
    PROVE  nextId \in Nat /\ nextId' \in Nat /\ nextId <= nextId'
  <1>0. TypeInv' /\ nextId \in Nat
    BY NextType DEF TypeInv, TypeOK
  <1>1. CASE Processor
    BY <1>0, <1>1 DEF Processor, Begin, others, LoopTop, Gate, DequeueNothing, DequeueSelect,
       Assign, BeginRun, Wake, NextInvocation, NextNodeInputError, NextProcessorError, RunNode,
       RunNodeCanceled, RunNodeError, NodeErrorSave, AfterRunSession, ProcessorError,
       ProcessorErrorNoItem, SaveSession, StatusUpdate, StatusRead, StatusReadMissing,
       StatusEmit, Goto
  <1>2. CASE Restart
    BY <1>0, <1>2 DEF Restart
  <1>3. CASE Listener \/ Handler \/ (\E w \in Workers : Worker(w)) \/ Client
    BY <1>0, <1>3, OthersSettle
  <1> QED BY <1>1, <1>2, <1>3 DEF Next

\* The SELECT alone leads to the UPDATE of dequeue.
LEMMA Selects ==
    ASSUME TypeInv, Next, proc' = "marking", step' = "update"
    PROVE  \/ \E i \in ItemIds : DequeueSelect(i)
           \/ UNCHANGED procVars
  <1>1. CASE Processor
    BY <1>1 DEF Processor, Begin, LoopTop, Gate, DequeueNothing, Assign,
           BeginRun, Wake, NextInvocation, NextNodeInputError, NextProcessorError,
           RunNode, RunNodeCanceled, RunNodeError, NodeErrorSave, AfterRunSession,
           ProcessorError, ProcessorErrorNoItem, SaveSession, StatusUpdate,
           StatusRead, StatusReadMissing, StatusEmit, Goto, Halt, Calling
  <1>2. CASE Restart
    BY <1>2 DEF Restart, StartedProcess
  <1>3. CASE Listener \/ Handler \/ (\E w \in Workers : Worker(w)) \/ Client
    BY <1>3, NextType, OthersSettle
  <1> QED BY <1>1, <1>2, <1>3 DEF Next

LEMMA SettledKept ==
    ASSUME TypeInv, Next, NEW k, Settled(k)
    PROVE  Settled(k)'
  <1> SUFFICES Settled(k)'
    OBVIOUS
  <1>1. k \in ItemIds /\ k < nextId'
    BY IdsGrow DEF Settled, ItemIds
  <1>2. k \notin InStatus(rows', "pending")
    <2>1. Kept(rows, rows', nextId) /\ nextId \in Nat
      BY RowsKept, IdsGrow
    <2> QED BY <2>1 DEF Kept, Settled, InStatus, ItemIds
  <1>3. ~(proc' = "marking" /\ step' = "update" /\ fetched'.id = k)
    <2> SUFFICES ASSUME proc' = "marking", step' = "update", fetched'.id = k PROVE FALSE
      OBVIOUS
    <2>1. ASSUME NEW i \in ItemIds, DequeueSelect(i) PROVE FALSE
      <3>1. fetched' = ItemOf(i) /\ i \in InStatus(rows, "pending")
        BY <2>1 DEF DequeueSelect, IsNext
      <3> QED BY <3>1 DEF ItemOf, Settled
    <2>2. CASE UNCHANGED procVars
      BY <2>2 DEF procVars, Settled
    <2> QED BY <2>1, <2>2, Selects
  <1> QED BY <1>1, <1>2, <1>3 DEF Settled

\* What is deleted does not come back.
LEMMA GoneKept ==
    ASSUME TypeInv, Next, NEW k \in ItemIds, k < nextId, rows[k] = NoRow
    PROVE  rows'[k] = NoRow
  <1>1. Kept(rows, rows', nextId) /\ nextId \in Nat
    BY RowsKept, IdsGrow
  <1> QED BY <1>1 DEF Kept, Existing, ItemIds

LEMMA EndedKept ==
    ASSUME TypeInv, Next, NEW k, Settled(k), Ended(k)
    PROVE  Ended(k)'
  <1> SUFFICES Ended(k)'
    OBVIOUS
  <1>0. k \in ItemIds /\ rows \in Tables /\ k < nextId /\ nextId \in Nat
    BY DEF Settled, TypeInv, TypeOK
  <1>1. CASE rows[k] = NoRow
    BY <1>0, <1>1, GoneKept DEF Ended
  <1>2. CASE rows[k] # NoRow
    <2>0. rows[k] \in Row /\ rows[k].status \in Terminal
      BY <1>0, <1>2 DEF Tables, Ended
    <2>1. CASE Processor
      <3>1. CASE rows' = rows
        BY <2>0, <3>1 DEF Ended
      <3>2. CASE StatusUpdate /\ rows' = SetStatus(rows, Target, NewStatus) /\ Target \in ItemIds
        <4>1. CASE Target = k
          <5>1. proc # "marking" /\ proc \in Calling
            BY <3>2, <4>1 DEF StatusUpdate, Target, Settled
          <5>2. NewStatus \in Terminal
            BY <5>1 DEF NewStatus, Calling, Terminal
          <5> QED BY <1>0, <2>0, <3>2, <4>1, <5>2 DEF SetStatus, Ended, Tables, Row
        <4>2. CASE Target # k
          BY <1>0, <2>0, <3>2, <4>2 DEF SetStatus, Ended, Tables
        <4> QED BY <4>1, <4>2
      <3>3. CASE rows' = SetSession(rows, cur.id, cur.left, cur.err) /\ cur \in Item
        <4>1. CASE cur.id = k
          <5> DEFINE r == [rows[k] EXCEPT !.left = cur.left, !.err = cur.err]
          <5>1. r.status = rows[k].status
            BY <2>0 DEF Row
          <5>2. rows' = [rows EXCEPT ![k] = r]
            BY <1>2, <3>3, <4>1 DEF SetSession
          <5> HIDE DEF r
          <5> QED BY <1>0, <2>0, <5>1, <5>2 DEF Ended, Tables
        <4>2. CASE cur.id # k
          BY <1>0, <2>0, <3>3, <4>2 DEF SetSession, Ended, Tables
        <4> QED BY <4>1, <4>2
      <3> QED BY <2>1, <3>1, <3>2, <3>3, ProcessorRows
    <2>2. CASE Inserts
      <3>1. CASE rows' = rows
        BY <2>0, <3>1 DEF Ended
      <3>2. ASSUME NEW n \in Nat, NEW r \in Row, rows' = InsertMany(rows, nextId, n, r)
            PROVE  Ended(k)'
        BY <1>0, <2>0, <3>2 DEF InsertMany, Ended, ItemIds
      <3> QED BY <2>2, <3>1, <3>2, InsertsRows
    <2>3. CASE ~Processor /\ ~Inserts
      <3>1. Alike(rows, rows')
        BY <2>3, OthersAlike DEF Next
      <3> QED BY <1>0, <2>0, <3>1 DEF Alike, Ended, Existing, Terminal
    <2> QED BY <2>1, <2>2, <2>3
  <1> QED BY <1>1, <1>2

\* An item stays recalled.
LEMMA RecalledGrows ==
    ASSUME Next
    PROVE  recalled \subseteq recalled'
  <1>1. CASE Processor \/ Restart
    BY <1>1 DEF Restart, Processor, Begin, others, LoopTop, Gate, DequeueNothing, DequeueSelect,
       Assign, BeginRun, Wake, NextInvocation, NextNodeInputError, NextProcessorError, RunNode,
       RunNodeCanceled, RunNodeError, NodeErrorSave, AfterRunSession, ProcessorError,
       ProcessorErrorNoItem, SaveSession, StatusUpdate, StatusRead, StatusReadMissing,
       StatusEmit, Goto
  <1>2. CASE Listener \/ Handler \/ (\E w \in Workers : Worker(w))
    BY <1>2 DEF Listener, OnQueueItemStatusChanged, OnQueueCleared, OnBatchEnqueued,
       Handler, BulkCancel, CancelUpdate, CancelRead, CancelEmit, ClearDelete, handlerFrame,
       Worker, EnqueueCount, EnqueueInsert, EnqueueAnnounce, enqFrame
  <1>3. CASE Client
    BY <1>3 DEF Client, EnqueueBatch, enqFrame, CancelQueueItem, RetryItem, CancelByBatchIds,
       CancelByDestination, CancelByQueueId, CancelBy, CancelAllExceptCurrent, Clear, Prune,
       ChangeRows, Pause, Resume, Shutdown, handlerFrame
  <1> QED BY <1>1, <1>2, <1>3 DEF Next

LEMMA FatedKept ==
    ASSUME TypeInv, Next, NEW k, Fated(k)
    PROVE  Fated(k)' /\ (Over(k) => Over(k)')
  <1>1. CASE k \in recalled
    BY <1>1, RecalledGrows DEF Fated, Over
  <1>2. CASE k \notin recalled /\ Settled(k)
    <2>1. Settled(k)'
      BY <1>2, SettledKept
    <2>2. Ended(k) => Ended(k)'
      BY <1>2, EndedKept
    <2> QED BY <1>2, <2>1, <2>2, RecalledGrows DEF Fated, Over
  <1> QED BY <1>1, <1>2 DEF Fated

\* What is settled from the start: items that ran, are marked or in progress.
LEMMA RanSettled ==
    ASSUME IInv
    PROVE  /\ \A k \in ran \cup Marked : Settled(k)
           /\ \A k \in InStatus(rows, "in_progress") : Settled(k)
           /\ proc \in Calling /\ step # "update" => Settled(Target) \/ proc # "marking"
  <1> USE DEF IInv, TypeOK
  <1>1. /\ ran \subseteq ItemIds /\ Marked \subseteq ItemIds /\ Marked \subseteq AboutToRun
    BY DEF Marked, AboutToRun, Held, Item, Calling, Running
  <1>2. proc = "marking" /\ step = "update" => fetched.id \in AboutToRun /\ Owned = {}
    BY DEF AboutToRun, Owned, Marked, Calling
  <1>3. ASSUME NEW k \in ran \cup Marked PROVE Settled(k)
    <2>1. k \in ItemIds /\ k < nextId /\ k \notin InStatus(rows, "pending")
      BY <1>1, <1>3 DEF RunsOnce
    <2>2. ~(proc = "marking" /\ step = "update" /\ fetched.id = k)
      <3> SUFFICES ASSUME proc = "marking", step = "update", fetched.id = k PROVE FALSE
        OBVIOUS
      <3>1. Marked = {}
        BY DEF Marked
      <3> QED BY <1>2, <1>3, <3>1 DEF RunsOnce
    <2> QED BY <2>1, <2>2 DEF Settled
  <1>4. ASSUME NEW k \in InStatus(rows, "in_progress") PROVE Settled(k)
    <2>1. k \in ItemIds /\ k < nextId /\ k \notin InStatus(rows, "pending")
      BY <1>4 DEF RunsOnce, InStatus, Existing
    <2>2. ~(proc = "marking" /\ step = "update")
      BY <1>2, <1>4 DEF OneInProgress
    <2> QED BY <2>1, <2>2 DEF Settled
  <1>5. proc = "marking" /\ step # "update" => Target \in Marked
    BY DEF Target, Marked
  <1> QED BY <1>3, <1>4, <1>5

LEMMA CurRanKept == IInv /\ CurRan /\ [Next]_vars => CurRan'
  <1> SUFFICES ASSUME IInv, CurRan, [Next]_vars PROVE CurRan'
    OBVIOUS
  <1>0. TypeInv
    BY DEF IInv, TypeInv
  <1> USE DEF CurRan
  <1>1. CASE UNCHANGED vars
    BY <1>1 DEF vars
  <1>2. CASE Restart
    BY <1>2 DEF Restart, StartedProcess
  <1>3. CASE Listener \/ Handler \/ (\E w \in Workers : Worker(w)) \/ Client
    <2>1. UNCHANGED <<procVars, ran>>
      BY <1>0, <1>3, NextType, OthersSettle
    <2> QED BY <2>1 DEF procVars
  <1>4. CASE Processor
    <2> USE <1>0 DEF TypeInv, TypeOK, Held
    <2>1. CASE BeginRun
      BY <2>1 DEF BeginRun
    <2>2. CASE Assign
      BY <2>2 DEF Assign
    <2>3. CASE StatusUpdate \/ StatusRead \/ StatusEmit \/ StatusReadMissing
      BY <2>3 DEF StatusUpdate, StatusRead, StatusEmit, StatusReadMissing, Halt, Calling
    <2>4. CASE RunNode \/ RunNodeError \/ NextNodeInputError
      <3>1. cur \in Item /\ proc # "clear" /\ ran' = ran
        BY <2>4 DEF RunNode, RunNodeError, NextNodeInputError, Goto, Running
      <3>2. cur'.id = cur.id
        BY <2>4, <3>1 DEF RunNode, RunNodeError, NextNodeInputError, Item
      <3> QED BY <3>1, <3>2
    <2>5. CASE NodeErrorSave \/ AfterRunSession \/ ProcessorError
      BY <2>5 DEF NodeErrorSave, AfterRunSession, ProcessorError, SaveSession, Halt
    <2>6. CASE Begin \/ LoopTop \/ Gate \/ DequeueNothing \/ (\E i \in ItemIds : DequeueSelect(i))
                 \/ Wake \/ NextInvocation \/ NextProcessorError \/ RunNodeCanceled
                 \/ ProcessorErrorNoItem
      BY <2>6 DEF Begin, LoopTop, Gate, DequeueNothing, DequeueSelect, Wake, NextInvocation,
                  NextProcessorError, RunNodeCanceled, ProcessorErrorNoItem, Goto, Halt, Waiting
    <2> QED BY <1>4, <2>1, <2>2, <2>3, <2>4, <2>5, <2>6 DEF Processor
  <1> QED BY <1>1, <1>2, <1>3, <1>4 DEF Next

\* A bulk cancellation and clear find their current item in progress; one item
\* is canceled by its id.
LEMMA LoopSignKept == IInv /\ LoopSign /\ [Next]_vars => LoopSign'
  <1> SUFFICES ASSUME IInv, LoopSign, [Next]_vars PROVE LoopSign'
    OBVIOUS
  <1>0. TypeInv /\ loop \in Loop /\ (loop.at \in Steps => loop.item \in ItemIds)
    BY DEF IInv, TypeInv, TypeOK, Held
  <1>1. CASE UNCHANGED vars
    BY <1>1 DEF vars, LoopSign, Fated, Settled, Over, Ended
  <1>2. CASE Next /\ loop' = loop
    <2>1. loop.at # "idle" /\ loop.item # 0 => Fated(loop.item)'
      BY <1>0, <1>2, FatedKept DEF LoopSign
    <2>2. ASSUME loop.at = "read" \/ (loop.at = "emit" /\ loop.seen = "canceled")
          PROVE  Over(loop.item)'
      <3>1. Fated(loop.item) /\ Over(loop.item)
        BY <1>0, <2>2 DEF LoopSign, Steps, ItemIds
      <3> QED BY <1>0, <1>2, <3>1, FatedKept
    <2> QED BY <1>2, <2>1, <2>2 DEF LoopSign, Fated, Settled, Over, Ended
  <1>3. CASE loop' = LoopIdle
    BY <1>3 DEF LoopSign, LoopIdle
  <1>4. CASE Handler
    <2>1. CASE BulkCancel
      <3>1. CASE loop.item = 0
        BY <1>3, <2>1, <3>1 DEF BulkCancel
      <3>2. CASE loop.item # 0
        <4>1. /\ loop'.item = loop.item
              /\ loop'.at = "update" \/ (loop'.at = "emit" /\ loop'.seen = "in_progress")
          BY <1>0, <2>1, <3>2 DEF BulkCancel, Loop
        <4>2. Fated(loop.item)'
          BY <1>0, <1>4, <2>1, <3>2, FatedKept DEF LoopSign, BulkCancel, Next
        <4> QED BY <4>1, <4>2 DEF LoopSign, Fated, Settled
      <3> QED BY <3>1, <3>2
    <2>2. CASE CancelUpdate
      <3>1. loop'.item = loop.item /\ loop'.at = "read" /\ loop.item \in ItemIds
        BY <1>0, <2>2 DEF CancelUpdate, Loop, Steps
      <3>2. Fated(loop.item)'
        BY <1>0, <1>4, <2>2, <3>1, FatedKept DEF LoopSign, CancelUpdate, Next, ItemIds
      <3>3. Over(loop.item)'
        <4>1. rows' = SetStatus(rows, loop.item, "canceled") /\ rows \in Tables
          BY <1>0, <2>2 DEF CancelUpdate, TypeInv, TypeOK
        <4> QED BY <3>1, <4>1 DEF SetStatus, Over, Ended, Tables, Row, Terminal
      <3> QED BY <3>1, <3>2, <3>3 DEF LoopSign, Fated, Settled, Over, Ended
    <2>3. CASE CancelRead
      <3>1. CASE loop' = [loop EXCEPT !.at = "emit", !.seen = rows[loop.item].status]
        <4>1. loop'.item = loop.item /\ loop'.at = "emit" /\ loop.item \in ItemIds
          BY <1>0, <2>3, <3>1 DEF CancelRead, Loop, Steps
        <4>2. PICK k : k = loop.item
          OBVIOUS
        <4>3. Fated(k) /\ Over(k)
          BY <1>0, <2>3, <4>1, <4>2 DEF LoopSign, CancelRead, ItemIds
        <4>4. Fated(k)' /\ Over(k)'
          BY <1>0, <1>4, <4>3, FatedKept DEF Next
        <4> QED BY <4>1, <4>2, <4>4 DEF LoopSign, Fated, Settled, Over, Ended
      <3> QED BY <1>3, <2>3, <3>1 DEF CancelRead
    <2>4. CASE CancelEmit
      <3>1. CASE loop' = [loop EXCEPT !.at = "delete"]
        <4>1. loop'.item = loop.item /\ loop'.at = "delete" /\ loop.item \in ItemIds
          BY <1>0, <2>4, <3>1 DEF CancelEmit, Loop, Steps
        <4>2. Fated(loop.item)'
          BY <1>0, <1>4, <2>4, <4>1, FatedKept DEF LoopSign, CancelEmit, Next, ItemIds
        <4> QED BY <4>1, <4>2 DEF LoopSign, Fated, Settled
      <3> QED BY <1>3, <2>4, <3>1 DEF CancelEmit
    <2>5. CASE ClearDelete
      BY <1>3, <2>5 DEF ClearDelete
    <2> QED BY <1>4, <2>1, <2>2, <2>3, <2>4, <2>5 DEF Handler
  <1>5. CASE Client
    <2>1. ASSUME NEW q, NEW i \in 0 .. MaxItems, IsCurrent(q, i), i # 0
          PROVE  Fated(i)
      BY <2>1, RanSettled DEF IsCurrent, Current, Fated, Settled
    <2>2. ASSUME NEW i \in 0 .. MaxItems, Client, i # 0, Fated(i) PROVE Fated(i)'
      BY <1>0, <2>2, FatedKept DEF Next
    <2>3. ASSUME NEW op, NEW q, NEW key, CancelBy(op, q, key) PROVE LoopSign'
      <3>1. PICK i \in 0 .. MaxItems :
               /\ IsCurrent(q, i)
               /\ Enter([at |-> "bulk", op |-> op, queue |-> q, key |-> key,
                         item |-> IF i \in Matching(op, key) THEN i ELSE 0])
        BY <2>3 DEF CancelBy
      <3>2. loop'.at = "bulk" /\ loop'.item \in {i, 0}
        BY <3>1 DEF Enter, LoopIdle
      <3>3. i # 0 => Fated(i)'
        BY <1>5, <2>1, <2>2, <3>1
      <3> QED BY <3>2, <3>3 DEF LoopSign, Fated, Settled
    <2>4. ASSUME NEW q \in Queues, Clear(q) PROVE LoopSign'
      <3>1. PICK i \in 0 .. MaxItems :
               /\ IsCurrent(q, i)
               /\ Enter([at |-> IF i = 0 THEN "delete" ELSE "update", op |-> "clear",
                         item |-> i, queue |-> q, key |-> NoDestination])
        BY <2>4 DEF Clear
      <3>2. loop'.at \in {"delete", "update"} /\ loop'.item = i
        BY <3>1 DEF Enter, LoopIdle
      <3>3. i # 0 => Fated(i)'
        BY <1>5, <2>1, <2>2, <3>1
      <3> QED BY <3>2, <3>3 DEF LoopSign, Fated, Settled
    <2>5. ASSUME NEW i \in ItemIds, CancelQueueItem(i) PROVE LoopSign'
      <3>1. i \in recalled'
        BY <2>5 DEF CancelQueueItem
      <3>2. loop'.at = "update" /\ loop'.item = i
        BY <2>5 DEF CancelQueueItem, Enter, LoopIdle
      <3> QED BY <3>1, <3>2 DEF LoopSign, Fated
    <2>6. CASE \/ \E w \in Workers, b \in Batches : EnqueueBatch(w, b)
               \/ \E i \in ItemIds : RetryItem(i)
               \/ \E q \in Queues : CancelAllExceptCurrent(q) \/ Prune(q)
               \/ Pause \/ Resume \/ Shutdown
      <3>1. loop' = loop
        BY <2>6 DEF EnqueueBatch, enqFrame, RetryItem, CancelAllExceptCurrent, Prune, ChangeRows,
                    Pause, Resume, Shutdown
      <3> QED BY <1>2, <1>5, <3>1 DEF Next
    <2> QED BY <1>5, <2>3, <2>4, <2>5, <2>6 DEF Client, CancelByBatchIds, CancelByDestination,
               CancelByQueueId
  <1>6. CASE Restart
    BY <1>3, <1>6 DEF Restart, StartedProcess
  <1>7. CASE Processor \/ Listener \/ \E w \in Workers : Worker(w)
    <2>1. loop' = loop
      BY <1>7 DEF Processor, Begin, others, LoopTop, Gate, DequeueNothing, DequeueSelect,
       Assign, BeginRun, Wake, NextInvocation, NextNodeInputError, NextProcessorError, RunNode,
       RunNodeCanceled, RunNodeError, NodeErrorSave, AfterRunSession, ProcessorError,
       ProcessorErrorNoItem, SaveSession, StatusUpdate, StatusRead, StatusReadMissing,
       StatusEmit, Goto, Listener, OnQueueItemStatusChanged, OnQueueCleared, OnBatchEnqueued,
       TakeEvent, Worker, EnqueueCount, EnqueueInsert, EnqueueAnnounce, enqFrame
    <2> QED BY <1>2, <1>7, <2>1 DEF Next
  <1> QED BY <1>1, <1>4, <1>5, <1>6, <1>7 DEF Next

\* Where the events of the queue come from.
LEMMA EventsStep ==
    ASSUME TypeInv, Next, ~Restart, NEW n \in 1 .. Len(events')
    PROVE  \/ \E m \in 1 .. Len(events) : events'[n] = events[m]
           \/ CancelEmit /\ events'[n] = StatusChanged(loop.item, loop.queue, loop.seen)
           \/ StatusEmit /\ events'[n] = StatusChanged(fetched.id, fetched.queue, fetched.status)
           \/ ClearDelete /\ events'[n] = QueueCleared(loop.queue)
           \/ events'[n].kind = "enqueued"
  <1>0. events \in Seq(Event)
    BY DEF TypeInv, TypeOK
  <1>1. CASE events' = events
    BY <1>1
  <1>2. ASSUME NEW e, Emit(e)
        PROVE  events'[n] = e \/ \E m \in 1 .. Len(events) : events'[n] = events[m]
    <2>1. events' = Append(events, e)
      BY <1>2 DEF Emit
    <2>2. Len(events') = Len(events) + 1 /\ Len(events) \in Nat
      BY <1>0, <2>1
    <2> QED BY <1>0, <2>1, <2>2
  <1>3. CASE Listener
    <2>1. events # <<>> /\ events' = Tail(events)
      BY <1>3 DEF Listener, OnQueueItemStatusChanged, OnQueueCleared, OnBatchEnqueued, TakeEvent
    <2>2. n + 1 \in 1 .. Len(events) /\ events'[n] = events[n + 1]
      BY <1>0, <2>1
    <2> QED BY <2>2
  <1>4. CASE StatusEmit
    BY <1>2, <1>4 DEF StatusEmit
  <1>5. CASE CancelEmit
    BY <1>2, <1>5 DEF CancelEmit
  <1>6. CASE ClearDelete
    BY <1>2, <1>6 DEF ClearDelete
  <1>7. CASE \E w \in Workers : EnqueueAnnounce(w)
    BY <1>2, <1>7 DEF EnqueueAnnounce, BatchEnqueued
  <1>8. CASE ~Listener /\ ~StatusEmit /\ ~CancelEmit /\ ~ClearDelete
               /\ ~\E w \in Workers : EnqueueAnnounce(w)
    <2>1. CASE Processor
      BY <1>1, <1>8, <2>1 DEF Processor, Begin, others, LoopTop, Gate, DequeueNothing,
       DequeueSelect, Assign, BeginRun, Wake, NextInvocation, NextNodeInputError,
       NextProcessorError, RunNode, RunNodeCanceled, RunNodeError, NodeErrorSave,
       AfterRunSession, ProcessorError, ProcessorErrorNoItem, SaveSession, StatusUpdate,
       StatusRead, StatusReadMissing, Goto
    <2>2. CASE Client
      BY <1>1, <2>2 DEF Client, EnqueueBatch, CancelQueueItem, RetryItem, CancelByBatchIds,
               CancelByDestination, CancelByQueueId, CancelBy, CancelAllExceptCurrent, Clear,
               Prune, ChangeRows, Pause, Resume, Shutdown
    <2>3. CASE Handler \/ \E w \in Workers : Worker(w)
      BY <1>1, <1>8, <2>3 DEF Handler, BulkCancel, CancelUpdate, CancelRead, Worker, EnqueueCount,
               EnqueueInsert
    <2> QED BY <1>8, <2>1, <2>2, <2>3 DEF Next
  <1> QED BY <1>3, <1>4, <1>5, <1>6, <1>7, <1>8

\* An event of a cancellation is sent when its item is over.
LEMMA EventSignKept == IInv /\ LoopSign /\ EventSign /\ ReadSign /\ [Next]_vars => EventSign'
  <1> SUFFICES ASSUME IInv, LoopSign, EventSign, ReadSign, [Next]_vars PROVE EventSign'
    OBVIOUS
  <1>0. TypeInv
    BY DEF IInv, TypeInv
  <1>1. CASE UNCHANGED vars
    BY <1>1 DEF vars, EventSign, Fated, Settled, Over, Ended
  <1>2. CASE Next /\ ~Restart
    <2> SUFFICES ASSUME NEW n \in 1 .. Len(events'), events'[n].kind = "status",
                        events'[n].status = "canceled",
                        NEW k, k = events'[n].item
                 PROVE  Fated(k)' /\ Over(k)'
      BY DEF EventSign, Fated, Settled, Over, Ended
    <2> SUFFICES Fated(k) /\ Over(k)
      BY <1>0, <1>2, FatedKept
    <2>1. CASE \E m \in 1 .. Len(events) : events'[n] = events[m]
      BY <2>1 DEF EventSign
    <2>2. CASE CancelEmit /\ events'[n] = StatusChanged(loop.item, loop.queue, loop.seen)
      <3>1. k = loop.item /\ loop.at = "emit" /\ loop.seen = "canceled" /\ loop.item \in ItemIds
        BY <1>0, <2>2 DEF StatusChanged, CancelEmit, TypeInv, Held, Steps
      <3> QED BY <3>1 DEF LoopSign, ItemIds
    <2>3. CASE StatusEmit /\ events'[n] = StatusChanged(fetched.id, fetched.queue, fetched.status)
      <3>1. /\ k = fetched.id /\ fetched.status = "canceled"
            /\ proc \in Calling /\ step = "emit"
        BY <2>3 DEF StatusChanged, StatusEmit
      <3> QED BY <3>1 DEF ReadSign, Fated, Settled, Terminal
    <2>4. CASE ClearDelete /\ events'[n] = QueueCleared(loop.queue)
      BY <2>4 DEF QueueCleared
    <2> QED BY <1>0, <1>2, <2>1, <2>2, <2>3, <2>4, EventsStep
  <1>3. CASE Restart
    BY <1>3 DEF Restart, StartedProcess, QueueCleared, EventSign
  <1> QED BY <1>1, <1>2, <1>3

\* The item that the processor has selected, and the one it works on.
LEMMA HandType ==
    ASSUME IInv, CurRan
    PROVE  /\ proc \in {"marking", "assign"} => fetched.id \in ItemIds /\ fetched.id < nextId
           /\ proc \in {"clear", "next", "node"} => Settled(cur.id)
           /\ proc \in Calling \ {"marking"} => Settled(cur.id)
  <1> USE DEF IInv, TypeOK, Held, Running, Calling
  <1>1. CASE proc \in {"marking", "assign"}
    <2>1. fetched \in Item /\ fetched.id \in AboutToRun
      BY <1>1 DEF AboutToRun
    <2> QED BY <1>1, <2>1 DEF RunsOnce, Item
  <1>2. CASE proc \in {"clear", "next", "node", "failing_node", "failing_item", "completing"}
    <2>1. cur \in Item /\ cur.id \in ran \cup Marked
      BY <1>2 DEF CurRan, Marked
    <2>2. Settled(cur.id)
      BY <2>1, RanSettled
    <2> QED BY <1>2, <2>1, <2>2
  <1> QED BY <1>1, <1>2

\* What is read back of an item says that it is over only when it is.
LEMMA ReadSignKept == IInv /\ CurRan /\ ReadSign /\ [Next]_vars => ReadSign'
  <1> SUFFICES ASSUME IInv, CurRan, ReadSign, [Next]_vars PROVE ReadSign'
    OBVIOUS
  <1>0. TypeInv
    BY DEF IInv, TypeInv
  <1> DEFINE Read == (proc \in Calling /\ step = "emit") \/ proc = "assign"
             Ready == proc \in {"clear", "next", "node"}
  <1>a. ReadSign <=> /\ Read => Settled(fetched.id) /\ (fetched.status \in Terminal => Over(fetched.id))
                     /\ Ready /\ cur.status \in Terminal => Over(cur.id)
    BY DEF ReadSign
  <1>b. Ready => Settled(cur.id)
    BY HandType
  <1>1. CASE UNCHANGED vars
    BY <1>1 DEF vars, ReadSign, Settled, Over, Ended
  <1>2. ASSUME NEW k, Settled(k), Next PROVE Settled(k)' /\ (Over(k) => Over(k)')
    BY <1>0, <1>2, SettledKept, FatedKept DEF Fated, Settled
  <1>3. ASSUME Next, Read, fetched' = fetched
        PROVE  Settled(fetched.id)' /\ (fetched'.status \in Terminal => Over(fetched.id)')
    <2>1. PICK k : k = fetched.id
      OBVIOUS
    <2>2. Settled(k)' /\ (fetched.status \in Terminal => Over(k)')
      BY <1>2, <1>3, <1>a, <2>1
    <2> QED BY <1>3, <2>1, <2>2 DEF Settled, Over, Ended
  <1>4. ASSUME Next, Ready, cur'.id = cur.id, cur'.status = cur.status, cur'.status \in Terminal
        PROVE  Over(cur.id)'
    <2>1. PICK k : k = cur.id
      OBVIOUS
    <2>2. Over(k)'
      BY <1>2, <1>4, <1>a, <1>b, <2>1
    <2> QED BY <1>4, <2>1, <2>2 DEF Over, Ended
  <1>5. CASE Listener \/ Handler \/ (\E w \in Workers : Worker(w)) \/ Client
    <2>1. UNCHANGED <<proc, step, fetched, cur>> /\ Next
      BY <1>0, <1>5, NextType, OthersSettle DEF procVars, Next
    <2>2. Read' = Read /\ Ready' = Ready
      BY <2>1
    <2> QED BY <1>3, <1>4, <2>1, <2>2 DEF ReadSign
  <1>6. CASE Restart
    BY <1>6 DEF Restart, StartedProcess, ReadSign, Calling
  <1>7. CASE Processor
    <2>0. Next
      BY <1>7 DEF Next
    <2>1. CASE StatusRead
      <3>1. PICK k : k = Target
        OBVIOUS
      <3>2. Settled(k)
        BY <2>1, <3>1, RanSettled, HandType DEF StatusRead, Target
      <3>3. fetched'.id = k /\ fetched'.status = rows[k].status /\ rows' = rows /\ proc' = proc
            /\ proc \in Calling
        BY <2>1, <3>1 DEF StatusRead, ItemOf
      <3>4. Settled(k)'
        BY <1>2, <2>0, <3>2
      <3> QED BY <3>1, <3>3, <3>4 DEF ReadSign, Settled, Over, Ended, Calling
    <2>2. CASE StatusEmit
      <3>1. CASE proc = "marking"
        <4>1. Read /\ fetched' = fetched /\ proc' = "assign"
          BY <2>2, <3>1 DEF StatusEmit
        <4> QED BY <1>3, <2>0, <4>1 DEF ReadSign
      <3>2. CASE proc # "marking"
        <4>1. proc' \in {"save", "top", "backoff"}
          BY <2>2, <3>2 DEF StatusEmit, Calling
        <4> QED BY <4>1 DEF ReadSign, Calling
      <3> QED BY <3>1, <3>2
    <2>3. CASE Assign
      <3>1. proc = "assign" /\ cur' = fetched /\ proc' = "clear"
        BY <2>3 DEF Assign
      <3>2. PICK k : k = fetched.id
        OBVIOUS
      <3>3. fetched.status \in Terminal => Over(k)'
        BY <1>2, <1>a, <2>0, <3>1, <3>2
      <3> QED BY <3>1, <3>2, <3>3 DEF ReadSign, Calling, Over, Ended
    <2>4. CASE BeginRun \/ NextInvocation \/ RunNode
      <3>1. Ready /\ cur \in Item /\ proc' \in {"next", "node", "save"}
        BY <1>0, <2>4 DEF BeginRun, NextInvocation, RunNode, Goto, TypeInv, Held, Running
      <3>2. cur'.id = cur.id /\ cur'.status = cur.status
        BY <2>4, <3>1 DEF BeginRun, NextInvocation, RunNode, Goto, Item
      <3>3. cur'.status \in Terminal => Over(cur.id)'
        BY <1>4, <2>0, <3>1, <3>2
      <3> QED BY <3>1, <3>3 DEF ReadSign, Calling
    <2>5. CASE DequeueNothing \/ (\E i \in ItemIds : DequeueSelect(i)) \/ NodeErrorSave
                 \/ AfterRunSession \/ ProcessorError \/ StatusUpdate \/ StatusReadMissing
      <3>1. proc' \notin {"assign", "clear", "next", "node"} /\ (proc' \in Calling => step' # "emit")
        BY <2>5 DEF DequeueNothing, DequeueSelect, NodeErrorSave, AfterRunSession, ProcessorError,
           SaveSession, StatusUpdate, StatusReadMissing, Halt, Calling
      <3> QED BY <3>1 DEF ReadSign
    <2>6. CASE Begin \/ LoopTop \/ Gate \/ Wake \/ NextNodeInputError \/ NextProcessorError
                 \/ RunNodeCanceled \/ RunNodeError \/ ProcessorErrorNoItem
      <3>1. proc' \notin {"assign", "clear", "next", "node"} \cup Calling
        BY <2>6 DEF Begin, LoopTop, Gate, Wake, NextNodeInputError, NextProcessorError,
           RunNodeCanceled, RunNodeError, ProcessorErrorNoItem, Goto, Halt, Calling
      <3> QED BY <3>1 DEF ReadSign
    <2> QED BY <1>7, <2>1, <2>2, <2>3, <2>4, <2>5, <2>6 DEF Processor
  <1> QED BY <1>1, <1>5, <1>6, <1>7 DEF Next

\* A run goes on with its item, or begins.
LEMMA HandRuns ==
    ASSUME TypeInv, Next, proc' \in {"next", "node"}
    PROVE  (proc \in {"next", "node"} \/ BeginRun) /\ cur'.id = cur.id
  <1>1. CASE Processor
    <2>1. NextInvocation \/ RunNode \/ BeginRun
      BY <1>1 DEF Processor, Begin, LoopTop, Gate, DequeueNothing, DequeueSelect, Assign, Wake,
         NextNodeInputError, NextProcessorError, RunNodeCanceled, RunNodeError, NodeErrorSave,
         AfterRunSession, ProcessorError, ProcessorErrorNoItem, SaveSession,
         StatusUpdate, StatusRead, StatusReadMissing, StatusEmit, Goto, Halt, Calling
    <2>2. cur \in Item
      BY <2>1 DEF NextInvocation, RunNode, BeginRun, TypeInv, Held, Running
    <2> QED BY <2>1, <2>2 DEF NextInvocation, RunNode, BeginRun, Goto, Item
  <1>2. CASE Restart
    BY <1>2 DEF Restart, StartedProcess
  <1>3. CASE Listener \/ Handler \/ (\E w \in Workers : Worker(w)) \/ Client
    BY <1>3, NextType, OthersSettle DEF procVars
  <1> QED BY <1>1, <1>2, <1>3 DEF Next

\* Who sets the cancel event.
LEMMA CancelEventStep ==
    ASSUME TypeInv, Next, cancelEvent'
    PROVE  \/ cancelEvent /\ ~BeginRun
           \/ OnQueueItemStatusChanged \/ OnQueueCleared
  <1>1. CASE Processor
    BY <1>1 DEF Processor, Begin, LoopTop, Gate, DequeueNothing, DequeueSelect, Assign,
       BeginRun, Wake, NextInvocation, NextNodeInputError, NextProcessorError, RunNode,
       RunNodeCanceled, RunNodeError, NodeErrorSave, AfterRunSession, ProcessorError,
       ProcessorErrorNoItem, SaveSession, StatusUpdate, StatusRead, StatusReadMissing,
       StatusEmit, Goto
  <1>2. CASE BeginRun
    BY <1>2 DEF BeginRun
  <1>3. CASE Restart
    BY <1>3 DEF Restart, StartedProcess
  <1>4. CASE Handler \/ (\E w \in Workers : Worker(w)) \/ OnBatchEnqueued
    BY <1>2, <1>4 DEF Handler, BulkCancel, CancelUpdate, CancelRead, CancelEmit, ClearDelete,
       handlerFrame, flags, Worker, EnqueueCount, EnqueueInsert, EnqueueAnnounce, enqFrame,
       OnBatchEnqueued
  <1>5. CASE Client
    BY <1>2, <1>5 DEF Client, EnqueueBatch, enqFrame, CancelQueueItem, RetryItem,
       CancelByBatchIds, CancelByDestination, CancelByQueueId, CancelBy, CancelAllExceptCurrent,
       Clear, Prune, ChangeRows, Pause, Resume, Shutdown, handlerFrame, flags
  <1> QED BY <1>1, <1>3, <1>4, <1>5 DEF Next, Listener

\* The cancel event is set for the item that runs, over or recalled, or not at
\* all: an event about an item before it comes too late to match it.
LEMMA FlagSignKept == IInv /\ CurRan /\ EventSign /\ FlagSign /\ [Next]_vars => FlagSign'
  <1> SUFFICES ASSUME IInv, CurRan, EventSign, FlagSign, [Next]_vars PROVE FlagSign'
    OBVIOUS
  <1>0. TypeInv /\ events \in Seq(Event)
    BY DEF IInv, TypeInv, TypeOK
  <1>1. CASE UNCHANGED vars
    BY <1>1 DEF vars, flags, FlagSign, Over, Ended
  <1>2. CASE Next
    <2> SUFFICES ASSUME proc' \in {"next", "node"}, cancelEvent' PROVE Over(cur.id)'
      BY DEF FlagSign
    <2>1. (proc \in {"next", "node"} \/ BeginRun) /\ cur'.id = cur.id
      BY <1>0, <1>2, HandRuns
    <2>2. PICK k : k = cur.id
      OBVIOUS
    <2> SUFFICES Over(k)'
      BY <2>1, <2>2 DEF Over, Ended
    <2>3. CASE cancelEvent /\ ~BeginRun
      <3>1. Over(k) /\ Fated(k)
        BY <2>1, <2>2, <2>3, HandType DEF FlagSign, Fated, Settled
      <3> QED BY <1>0, <1>2, <3>1, FatedKept
    <2>4. CASE OnQueueItemStatusChanged \/ OnQueueCleared
      <3>1. UNCHANGED <<rows, proc, cur>> /\ events # <<>>
        BY <2>4 DEF OnQueueItemStatusChanged, OnQueueCleared, TakeEvent, procVars
      <3>2. 1 \in 1 .. Len(events) /\ Head(events) = events[1]
        BY <1>0, <3>1
      <3>3. CASE cancelEvent
        <4>1. ~BeginRun
          BY <2>4, <3>1 DEF BeginRun
        <4> QED BY <2>3, <3>3, <4>1
      <3>4. CASE OnQueueItemStatusChanged /\ ~cancelEvent
        <4>1. k = events[1].item /\ events[1].kind = "status" /\ events[1].status = "canceled"
          BY <2>2, <3>2, <3>4 DEF OnQueueItemStatusChanged, TakeEvent
        <4>2. Over(k)
          BY <3>2, <4>1 DEF EventSign
        <4>3. recalled' = recalled
          BY <3>4 DEF OnQueueItemStatusChanged
        <4> QED BY <3>1, <4>2, <4>3 DEF Over, Ended
      <3>5. CASE OnQueueCleared /\ ~cancelEvent
        <4>1. k \in recalled'
          BY <2>2, <3>5 DEF OnQueueCleared
        <4> QED BY <4>1 DEF Over
      <3> QED BY <2>4, <3>3, <3>4, <3>5
    <2> QED BY <1>0, <1>2, <2>3, <2>4, CancelEventStep
  <1> QED BY <1>1, <1>2

-----------------------------------------------------------------------------
(* What an item that is completed has gone through. *)

\* Item k, as copy or row x has it: no error, and all invocations run unless it
\* was recalled.
Done(x, k) == ~x.err /\ (x.left = 0 \/ k \in recalled)

\* Completed rows were run to their end; rows that wait had no error.
RowInv ==
    /\ CutShortWhenRecalled
    /\ InStatus(rows, "completed") \subseteq ran
    /\ \A i \in InStatus(rows, "pending") : rows[i].intact => ~rows[i].err

\* An item whose run goes on, or was left unfinished, is not completed.
OutcomeInv ==
    /\ proc \in {"next", "node", "node_error", "failing_node", "save"} =>
         cur.id \notin InStatus(rows, "completed")
    /\ cur # NoItem /\ cur.id \in InStatus(rows, "completed") => Done(cur, cur.id)
    /\ proc = "save" => Done(cur, cur.id) \/ Ended(cur.id)
    /\ proc = "failing_node" /\ step # "update" => Ended(cur.id)
    /\ proc = "completing" => Done(cur, cur.id) /\ (rows[cur.id] = NoRow \/ Done(rows[cur.id], cur.id))

\* An item has no error before its run.
ErrorInv ==
    /\ proc \in {"clear", "next", "node"} => ~cur.err
    /\ proc \in {"marking", "assign"} => ~fetched.err
    /\ proc = "marking" => rows[fetched.id] = NoRow \/ ~rows[fetched.id].err

\* What the other threads and a restart do to a row.
LEMMA OthersRows ==
    ASSUME TypeInv, Listener \/ Handler \/ (\E w \in Workers : Worker(w)) \/ Client \/ Restart,
           NEW i \in Existing(rows')
    PROVE  \/ /\ i \in Existing(rows)
              /\ rows'[i].left = rows[i].left /\ rows'[i].err = rows[i].err
              /\ rows'[i].intact = rows[i].intact
              /\ rows'[i].status \in {rows[i].status, "canceled"}
           \/ i >= nextId /\ rows'[i].status = "pending" /\ (rows'[i].intact => ~rows'[i].err)
  <1>0. rows \in Tables /\ nextId \in Nat
    BY DEF TypeInv, TypeOK
  <1>1. CASE ~Inserts
    <2>1. Alike(rows, rows')
      BY <1>1, OthersAlike
    <2> QED BY <2>1 DEF Alike
  <1>2. CASE Inserts
    <2>1. CASE rows' = rows
      BY <2>1
    <2>2. ASSUME NEW k \in Nat, NEW r \in Row, rows' = InsertMany(rows, nextId, k, r),
                 r.status = "pending", r.intact => ~r.err
          PROVE  \/ i \in Existing(rows) /\ rows'[i] = rows[i]
                 \/ i >= nextId /\ rows'[i] = r
      BY <1>0, <2>2, InsertedRows
    <2> QED BY <1>2, <2>1, <2>2, InsertsRows
  <1> QED BY <1>1, <1>2

\* The other threads complete nothing, and know no current item.
LEMMA OthersKeepOutcome ==
    ASSUME IInv, CurRan, RowInv, OutcomeInv, ErrorInv,
           Listener \/ Handler \/ (\E w \in Workers : Worker(w)) \/ Client
    PROVE  RowInv' /\ OutcomeInv' /\ ErrorInv'
  <1>0. TypeInv /\ nextId \in Nat /\ rows \in Tables /\ ran \subseteq ItemIds
    BY DEF IInv, TypeInv, TypeOK
  <1>1. UNCHANGED <<proc, step, cur, fetched, ran>> /\ recalled \subseteq recalled'
    BY <1>0, NextType, OthersSettle, RecalledGrows DEF procVars, Next
  <1>2. ASSUME NEW k \in ItemIds, k < nextId
        PROVE  \/ rows'[k] = NoRow
               \/ /\ rows[k] # NoRow
                  /\ rows'[k].left = rows[k].left /\ rows'[k].err = rows[k].err
                  /\ rows'[k].status \in {rows[k].status, "canceled"}
    BY <1>0, <1>2, OthersRows DEF Existing, ItemIds
  <1>3. RowInv'
    BY <1>0, <1>1, OthersRows DEF RowInv, CutShortWhenRecalled, InStatus, Existing
  <1>4. ASSUME cur # NoItem PROVE cur.id \in ItemIds /\ cur.id < nextId
    <2>1. proc = "clear" => Settled(cur.id)
      BY HandType
    <2>2. proc # "clear" => Settled(cur.id)
      BY <1>4, RanSettled DEF CurRan
    <2> QED BY <2>1, <2>2 DEF Settled
  <1>5. Running \cup {"clear"} = {"next", "node", "node_error", "failing_node", "save", "completing", "clear"}
    BY DEF Running
  <1>6. proc \in Running => cur # NoItem
    BY <1>0 DEF TypeInv, Held
  <1>7. OutcomeInv'
    BY <1>1, <1>2, <1>4, <1>5, <1>6 DEF OutcomeInv, InStatus, Existing, Ended, Done, Terminal
  <1>8. proc = "marking" => fetched.id \in ItemIds /\ fetched.id < nextId
    BY HandType
  <1>9. ErrorInv'
    BY <1>1, <1>2, <1>8 DEF ErrorInv
  <1> QED BY <1>3, <1>7, <1>9

\* Nor does a restart.
LEMMA RestartKeepsOutcome ==
    ASSUME IInv, RowInv, Restart
    PROVE  RowInv' /\ OutcomeInv' /\ ErrorInv' 
  <1>0. /\ TypeInv /\ ran' = ran /\ proc' = "start" /\ cur' = NoItem
        /\ recalled' = recalled
    BY DEF IInv, TypeInv, Restart, StartedProcess
  <1>1. RowInv'
    BY <1>0, OthersRows DEF RowInv, CutShortWhenRecalled, InStatus
  <1> QED BY <1>0, <1>1 DEF OutcomeInv, ErrorInv

\* The processor's steps that leave the table.
LEMMA QuietOutcome ==
    ASSUME IInv, CurRan, ReadSign, FlagSign, RowInv, OutcomeInv, ErrorInv, Processor, rows' = rows
    PROVE  RowInv' /\ OutcomeInv' /\ ErrorInv'
  <1> USE DEF IInv, TypeOK, Held
  <1>0. InStatus(rows, "completed") \subseteq ran /\ AboutToRun \cap ran = {}
    BY DEF RowInv, RunsOnce
  <1>r. recalled' = recalled
    BY DEF Processor, Begin, others, LoopTop, Gate, DequeueNothing, DequeueSelect, Assign,
         BeginRun, Wake, NextInvocation, NextNodeInputError, NextProcessorError, RunNode,
         RunNodeCanceled, RunNodeError, NodeErrorSave, AfterRunSession, ProcessorError,
         ProcessorErrorNoItem, SaveSession, StatusUpdate, StatusRead, StatusReadMissing,
         StatusEmit, Goto
  <1>1. RowInv'
    <2>1. ran \subseteq ran'
      BY DEF Processor, Begin, LoopTop, Gate, DequeueNothing, DequeueSelect, Assign,
         BeginRun, Wake, NextInvocation, NextNodeInputError, NextProcessorError, RunNode,
         RunNodeCanceled, RunNodeError, NodeErrorSave, AfterRunSession, ProcessorError,
         ProcessorErrorNoItem, SaveSession, StatusUpdate, StatusRead, StatusReadMissing,
         StatusEmit, Goto
    <2> QED BY <1>r, <2>1 DEF RowInv, CutShortWhenRecalled, Done
  <1> SUFFICES OutcomeInv' /\ ErrorInv'
    BY <1>1
  <1> USE <1>r DEF OutcomeInv, ErrorInv, Done
  <1>2. CASE \E i \in ItemIds : DequeueSelect(i)
    <2>1. PICK i \in ItemIds : DequeueSelect(i)
      BY <1>2
    <2>2. i \in InStatus(rows, "pending") /\ (rows[i].intact => ~rows[i].err) /\ cur' = cur
      BY <2>1 DEF DequeueSelect, IsNext, RowInv
    <2>3. CASE rows[i].intact
      BY <2>1, <2>2, <2>3 DEF DequeueSelect, ItemOf
    <2>4. CASE ~rows[i].intact
      BY <2>1, <2>2, <2>4 DEF DequeueSelect
    <2> QED BY <2>3, <2>4
  <1>3. CASE Assign
    <2>1. cur' = fetched /\ proc = "assign" /\ proc' = "clear" /\ fetched.id \in AboutToRun
      BY <1>3 DEF Assign, AboutToRun
    <2> QED BY <1>0, <2>1
  <1>4. CASE BeginRun
    <2>1. cur' = cur /\ proc = "clear" /\ proc' = "next" /\ cur.id \in AboutToRun /\ cur \in Item
      BY <1>4 DEF BeginRun, AboutToRun, Marked
    <2> QED BY <1>0, <2>1
  <1>5. CASE NextInvocation \/ RunNodeCanceled
    <2>1. /\ cur' = cur /\ proc' \in {"save", "node"} /\ proc \in {"next", "node"}
          /\ proc' = "save" => cur.left = 0 \/ cancelEvent
      BY <1>5 DEF NextInvocation, RunNodeCanceled, Goto
    <2>2. cancelEvent => Over(cur.id)
      BY <2>1 DEF FlagSign
    <2>3. proc' = "save" => Done(cur, cur.id) \/ Ended(cur.id)
      BY <2>1, <2>2 DEF Done, Over
    <2> QED BY <2>1, <2>3 DEF Ended
  <1>6. CASE RunNode
    <2>1. /\ proc = "node" /\ cur \in Item /\ cur.left \in 1 .. MaxNodes
          /\ cur' = [cur EXCEPT !.left = @ - 1]
          /\ proc' = IF cur.left = 1 \/ cancelEvent \/ cur.status \in Terminal THEN "save" ELSE "next"
      BY <1>6 DEF RunNode, Goto, Item, Running
    <2>2. cur'.id = cur.id /\ cur'.err = cur.err /\ cur'.left = cur.left - 1
      BY <2>1 DEF Item
    <2>3. (cancelEvent \/ cur.status \in Terminal) => Over(cur.id)
      BY <2>1 DEF FlagSign, ReadSign
    <2>4. proc' = "save" => Done(cur', cur.id) \/ Ended(cur.id)
      BY <2>1, <2>2, <2>3 DEF Done, Over
    <2> QED BY <2>1, <2>2, <2>4 DEF Ended
  <1>7. CASE NextNodeInputError \/ RunNodeError
    <2>1. /\ proc \in {"next", "node"} /\ cur \in Item /\ proc' = "node_error"
          /\ cur' = [cur EXCEPT !.err = TRUE]
      BY <1>7 DEF NextNodeInputError, RunNodeError, Goto, Running
    <2>2. cur'.id = cur.id
      BY <2>1 DEF Item
    <2> QED BY <2>1, <2>2
  <1>8. CASE StatusRead
    <2>1. /\ cur' = cur /\ proc' = proc /\ step # "update" /\ rows[Target] # NoRow
          /\ fetched' = ItemOf(Target)
      BY <1>8 DEF StatusRead
    <2>2. proc = "marking" => fetched'.id = fetched.id /\ ~fetched'.err
      BY <2>1 DEF Target, ItemOf
    <2>3. proc # "assign" /\ (proc = "marking" => Target = fetched.id)
      BY <1>8 DEF StatusRead, Calling, Target
    <2> QED BY <2>1, <2>2, <2>3 DEF Ended
  <1>9. CASE StatusEmit
    <2>1. /\ cur' = cur /\ step = "emit"
          /\ \/ proc = "marking" /\ proc' = "assign" /\ fetched' = fetched
             \/ proc = "failing_node" /\ proc' = "save"
             \/ proc' \in {"top", "backoff"}
      BY <1>9 DEF StatusEmit, Calling
    <2> QED BY <2>1 DEF Ended
  <1>10. CASE StatusReadMissing
    <2>1. cur' \in {cur, NoItem} /\ proc' \in {"top", "dead", "error"}
      BY <1>10 DEF StatusReadMissing, Halt
    <2> QED BY <2>1
  <1>11. CASE StatusUpdate
    <2>1. /\ cur' = cur /\ proc' = proc /\ fetched' = fetched /\ step' = "read"
          /\ step = "update" /\ rows' = SetStatus(rows, Target, NewStatus)
      BY <1>11 DEF StatusUpdate
    <2>2. proc = "failing_node" => Ended(cur.id)
      <3> SUFFICES ASSUME proc = "failing_node" PROVE Ended(cur.id)
        OBVIOUS
      <3>1. rows = SetStatus(rows, cur.id, "failed") /\ cur.id \in ItemIds
        BY <2>1 DEF Target, NewStatus, Item, Running
      <3> QED BY <3>1 DEF SetStatus, Ended, Terminal, Tables, Row
    <2> QED BY <2>1, <2>2 DEF Ended
  <1>12. CASE NodeErrorSave
    <2>1. cur' = cur /\ proc = "node_error" /\ proc' \in {"error", "failing_node"} /\ step' = "update"
      BY <1>12 DEF NodeErrorSave, SaveSession
    <2> QED BY <2>1
  <1>13. CASE AfterRunSession
    <2>1. cur' = cur /\ proc = "save" /\ proc' \in {"top", "completing"} /\ cur \in Item
      BY <1>13 DEF AfterRunSession, SaveSession, Running
    <2>2. ASSUME proc' = "completing"
          PROVE  Done(cur, cur.id) /\ (rows[cur.id] = NoRow \/ Done(rows[cur.id], cur.id))
      <3>1. rows[cur.id] # NoRow /\ rows[cur.id].status \notin {"canceled", "failed"}
            /\ rows' = SetSession(rows, cur.id, cur.left, cur.err) /\ cur.id \in ItemIds
        BY <1>13, <2>1, <2>2 DEF AfterRunSession, SaveSession, Item
      <3>2. ~Ended(cur.id)
        BY <2>1, <3>1 DEF Ended, Terminal, InStatus, Existing
      <3>3. Done(cur, cur.id)
        BY <2>1, <3>2
      <3>4. rows[cur.id] = [rows[cur.id] EXCEPT !.left = cur.left, !.err = cur.err]
        BY <3>1 DEF SetSession, Tables
      <3>5. rows[cur.id] \in Row
        BY <3>1 DEF Tables
      <3>6. rows[cur.id].left = cur.left /\ rows[cur.id].err = cur.err
        BY <3>4, <3>5 DEF Row
      <3> QED BY <3>3, <3>6 DEF Done
    <2> QED BY <2>1, <2>2
  <1>14. CASE ProcessorError
    <2>1. cur' \in {cur, NoItem} /\ proc' \in {"failing_item", "dead"}
      BY <1>14 DEF ProcessorError, SaveSession, Halt
    <2> QED BY <2>1
  <1>15. CASE Begin \/ LoopTop \/ Gate \/ DequeueNothing \/ Wake \/ NextProcessorError
                \/ ProcessorErrorNoItem
    <2>1. cur' \in {cur, NoItem} /\ proc' \in {"top", "gate", "select", "stopped", "idle", "error", "backoff"}
      BY <1>15 DEF Begin, LoopTop, Gate, DequeueNothing, Wake, NextProcessorError,
         ProcessorErrorNoItem, Goto, Halt
    <2> QED BY <2>1
  <1> QED BY <1>2, <1>3, <1>4, <1>5, <1>6, <1>7, <1>8, <1>9, <1>10, <1>11, <1>12, <1>13, <1>14,
             <1>15 DEF Processor

\* The processor's UPDATE of a status.
LEMMA UpdateOutcome ==
    ASSUME IInv, CurRan, RowInv, OutcomeInv, ErrorInv, StatusUpdate
    PROVE  RowInv' /\ OutcomeInv' /\ ErrorInv'
  <1>1. PICK k : k = Target
    OBVIOUS
  <1>2. PICK s : s = NewStatus
    OBVIOUS
  <1>3. /\ proc \in Calling /\ proc' = proc /\ cur' = cur /\ fetched' = fetched /\ ran' = ran
        /\ step = "update" /\ step' = "read" /\ rows' = SetStatus(rows, k, s) /\ rows \in Tables
        /\ recalled' = recalled
    BY <1>1, <1>2 DEF StatusUpdate, others, IInv, TypeOK
  <1>4. /\ proc = "marking" => k = fetched.id /\ s = "in_progress" /\ fetched \in Item
        /\ proc # "marking" => k = cur.id /\ cur \in Item /\ cur # NoItem
        /\ proc = "completing" => s = "completed" /\ cur.id \in ran
        /\ proc \in {"failing_node", "failing_item"} => s = "failed"
    BY <1>1, <1>2, <1>3, SessionProcessorAssumption
       DEF Target, NewStatus, IInv, Held, Calling, Running, CurRan
  <1>5. k \in ItemIds /\ s \notin {"pending"}
    BY <1>3, <1>4 DEF Calling, Item
  <1>6. ASSUME NEW i \in ItemIds
        PROVE  /\ rows'[i] = NoRow <=> rows[i] = NoRow
               /\ rows[i] # NoRow =>
                    /\ rows'[i].left = rows[i].left /\ rows'[i].err = rows[i].err
                    /\ rows'[i].intact = rows[i].intact
                    /\ rows'[i].status = IF i = k THEN s ELSE rows[i].status
    <2>1. CASE rows[k] = NoRow
      BY <1>3, <2>1 DEF SetStatus
    <2>2. CASE rows[k] # NoRow
      <3>1. rows[k] \in Row /\ rows' = [rows EXCEPT ![k] = [rows[k] EXCEPT !.status = s]]
        BY <1>3, <1>5, <2>2 DEF SetStatus, Tables
      <3>2. [rows[k] EXCEPT !.status = s] # NoRow
        <4>1. s \in Statuses
          BY <1>3, <1>4 DEF Calling, Statuses, Terminal
        <4>2. [rows[k] EXCEPT !.status = s] \in Row
          BY <3>1, <4>1 DEF Row
        <4> QED BY <4>2, SessionQueueAssumption
      <3> QED BY <1>3, <1>5, <2>2, <3>1, <3>2 DEF Tables, Row
    <2> QED BY <2>1, <2>2
  <1>7. RowInv'
    <2>1. ASSUME NEW i \in InStatus(rows', "completed")
          PROVE  Done(rows'[i], i) /\ i \in ran'
      <3>1. i \in ItemIds /\ rows[i] # NoRow
        BY <1>6, <2>1 DEF InStatus, Existing
      <3>2. CASE i # k
        <4>1. i \in InStatus(rows, "completed")
          BY <1>6, <2>1, <3>1, <3>2 DEF InStatus, Existing
        <4> QED BY <1>3, <1>6, <3>1, <4>1 DEF RowInv, CutShortWhenRecalled, Done
      <3>3. CASE i = k
        <4>1. s = "completed"
          BY <1>6, <2>1, <3>1, <3>3 DEF InStatus
        <4>2. proc = "completing"
          BY <1>3, <1>4, <4>1 DEF Calling
        <4> QED BY <1>3, <1>4, <1>6, <3>1, <3>3, <4>2 DEF OutcomeInv, Done
      <3> QED BY <3>2, <3>3
    <2>2. ASSUME NEW i \in InStatus(rows', "pending"), rows'[i].intact
          PROVE  ~rows'[i].err
      BY <1>5, <1>6, <2>2 DEF RowInv, InStatus, Existing
    <2> QED BY <1>3, <2>1, <2>2 DEF RowInv, CutShortWhenRecalled, Done
  <1>8. OutcomeInv'
    <2>1. proc = "failing_node" => cur.id \notin InStatus(rows', "completed") /\ Ended(cur.id)'
      BY <1>3, <1>4, <1>5, <1>6 DEF InStatus, Existing, Ended, Terminal
    <2>2. ASSUME cur # NoItem, cur.id \in InStatus(rows', "completed") PROVE Done(cur, cur.id)
      <3>1. CASE cur.id = k
        <4>1. s = "completed"
          BY <1>5, <1>6, <2>2, <3>1 DEF InStatus, Existing
        <4> QED BY <1>3, <1>4, <4>1 DEF OutcomeInv, Calling
      <3>2. CASE cur.id # k
        BY <1>6, <2>2, <3>2 DEF OutcomeInv, InStatus, Existing
      <3> QED BY <3>1, <3>2
    <2>3. proc = "completing" => Done(cur, cur.id) /\ (rows'[cur.id] = NoRow \/ Done(rows'[cur.id], cur.id))
      BY <1>4, <1>5, <1>6 DEF OutcomeInv, Done
    <2> QED BY <1>3, <2>1, <2>2, <2>3 DEF OutcomeInv, Calling, Done, Ended
  <1>9. ErrorInv'
    BY <1>3, <1>4, <1>5, <1>6 DEF ErrorInv, Calling
  <1> QED BY <1>7, <1>8, <1>9

\* Saving the session of the current item.
LEMMA SaveOutcome ==
    ASSUME IInv, CurRan, RowInv, OutcomeInv, ErrorInv,
           NodeErrorSave \/ AfterRunSession \/ (ProcessorError /\ rows' # rows)
    PROVE  RowInv' /\ OutcomeInv' /\ ErrorInv'
  <1>1. PICK k : k = cur.id
    OBVIOUS
  <1>2. PICK left : left = cur.left
    OBVIOUS
  <1>3. PICK err : err = cur.err
    OBVIOUS
  <1>4. /\ cur' = cur /\ ran' = ran /\ step' = "update" /\ recalled' = recalled
        /\ rows' = SetSession(rows, k, left, err) /\ rows \in Tables
        /\ proc' \in {"failing_node", "error", "completing", "top", "failing_item", "dead"}
        /\ proc' = "failing_node" => proc = "node_error"
        /\ proc' = "completing" =>
             proc = "save" /\ rows[k] # NoRow /\ rows[k].status \notin {"canceled", "failed"}
        /\ proc \in {"node_error", "save", "error"} /\ cur # NoItem
    BY <1>1, <1>2, <1>3, SessionProcessorAssumption
       DEF NodeErrorSave, AfterRunSession, ProcessorError, SaveSession, others, IInv, TypeOK, Held, Running,
           Halt
  <1>5. cur \in Item /\ k \in ItemIds /\ left \in 0 .. MaxNodes /\ err \in BOOLEAN
    BY <1>1, <1>2, <1>3, <1>4 DEF IInv, TypeOK, Item
  <1>6. k \in ran /\ k \notin InStatus(rows, "pending")
    BY <1>1, <1>4 DEF CurRan, IInv, RunsOnce
  <1>7. ASSUME NEW i \in ItemIds
        PROVE  /\ rows'[i] = NoRow <=> rows[i] = NoRow
               /\ rows[i] # NoRow =>
                    /\ rows'[i].left = IF i = k THEN left ELSE rows[i].left
                    /\ rows'[i].err = IF i = k THEN err ELSE rows[i].err
                    /\ rows'[i].intact = rows[i].intact
                    /\ rows'[i].status = rows[i].status
    <2>1. CASE rows[k] = NoRow
      BY <1>4, <2>1 DEF SetSession
    <2>2. CASE rows[k] # NoRow
      <3>1. /\ rows[k] \in Row
            /\ rows' = [rows EXCEPT ![k] = [rows[k] EXCEPT !.left = left, !.err = err]]
        BY <1>4, <1>5, <2>2 DEF SetSession, Tables
      <3>2. [rows[k] EXCEPT !.left = left, !.err = err] # NoRow
        <4>1. [rows[k] EXCEPT !.left = left, !.err = err] \in Row
          BY <1>5, <3>1 DEF Row
        <4> QED BY <4>1, SessionQueueAssumption
      <3> QED BY <1>4, <1>5, <2>2, <3>1, <3>2 DEF Tables, Row
    <2> QED BY <2>1, <2>2
  <1>8. \A s : InStatus(rows', s) = InStatus(rows, s)
    BY <1>7 DEF InStatus, Existing
  <1>9. k \in InStatus(rows, "completed") => ~err /\ (left = 0 \/ k \in recalled)
    BY <1>1, <1>2, <1>3, <1>4 DEF OutcomeInv, Done
  <1>10. RowInv'
    <2>1. ASSUME NEW i \in InStatus(rows', "completed")
          PROVE  Done(rows'[i], i) /\ i \in ran'
      <3>1. i \in InStatus(rows, "completed") /\ i \in ItemIds /\ rows[i] # NoRow
        BY <1>8, <2>1 DEF InStatus, Existing
      <3> QED BY <1>4, <1>7, <1>9, <3>1 DEF RowInv, CutShortWhenRecalled, Done
    <2>2. ASSUME NEW i \in InStatus(rows', "pending"), rows'[i].intact
          PROVE  ~rows'[i].err
      <3>1. i \in InStatus(rows, "pending") /\ i # k /\ i \in ItemIds /\ rows[i] # NoRow
        BY <1>6, <1>8, <2>2 DEF InStatus, Existing
      <3> QED BY <1>7, <2>2, <3>1 DEF RowInv
    <2> QED BY <1>4, <2>1, <2>2 DEF RowInv, CutShortWhenRecalled, Done
  <1>11. OutcomeInv'
    <2>1. proc' = "failing_node" => cur.id \notin InStatus(rows, "completed")
      BY <1>4 DEF OutcomeInv
    <2>2. ASSUME proc' = "completing" PROVE Done(cur, cur.id) /\ Done(rows'[cur.id], cur.id)
      <3>1. /\ proc = "save" /\ rows[k] # NoRow
            /\ rows[k].status \notin {"canceled", "failed", "completed"}
        BY <1>1, <1>4, <1>5, <2>2 DEF OutcomeInv, InStatus, Existing
      <3>2. Done(cur, cur.id)
        BY <1>1, <3>1 DEF OutcomeInv, Ended, Terminal
      <3> QED BY <1>1, <1>2, <1>3, <1>5, <1>7, <3>1, <3>2 DEF Done
    <2> QED BY <1>4, <1>8, <2>1, <2>2 DEF OutcomeInv, Done
  <1>12. ErrorInv'
    BY <1>4 DEF ErrorInv
  <1> QED BY <1>10, <1>11, <1>12

LEMMA OutcomeKept ==
    IInv /\ CurRan /\ ReadSign /\ FlagSign /\ RowInv /\ OutcomeInv /\ ErrorInv /\ [Next]_vars
      => RowInv' /\ OutcomeInv' /\ ErrorInv'
  <1> SUFFICES ASSUME IInv, CurRan, ReadSign, FlagSign, RowInv, OutcomeInv, ErrorInv, [Next]_vars
               PROVE  RowInv' /\ OutcomeInv' /\ ErrorInv'
    OBVIOUS
  <1>1. CASE UNCHANGED vars
    BY <1>1 DEF vars, RowInv, OutcomeInv, ErrorInv, CutShortWhenRecalled, Done, Ended, InStatus,
       Existing
  <1>2. CASE Restart
    BY <1>2, RestartKeepsOutcome
  <1>3. CASE Listener \/ Handler \/ (\E w \in Workers : Worker(w)) \/ Client
    BY <1>3, OthersKeepOutcome
  <1>4. CASE Processor /\ rows' = rows
    BY <1>4, QuietOutcome
  <1>5. CASE Processor /\ rows' # rows
    <2>1. StatusUpdate \/ NodeErrorSave \/ AfterRunSession \/ ProcessorError
      BY <1>5 DEF Processor, Begin, LoopTop, Gate, DequeueNothing, DequeueSelect, Assign,
         BeginRun, Wake, NextInvocation, NextNodeInputError, NextProcessorError, RunNode,
         RunNodeCanceled, RunNodeError, ProcessorErrorNoItem, StatusRead, StatusReadMissing,
         StatusEmit, Goto
    <2> QED BY <1>5, <2>1, UpdateOutcome, SaveOutcome
  <1> QED BY <1>1, <1>2, <1>3, <1>4, <1>5 DEF Next

\* Safety: a completed row had no node error and ran all of its invocations,
\* unless its item was recalled, by its id or by a clear heard of while it was
\* current: whatever bulk cancellations, prunes, retries, node and processor
\* errors, shutdowns and restarts come between the statements of the processor,
\* and however late their events are handled.  _on_after_run_session completes
\* what is neither canceled nor failed when it reads the row; that suffices
\* because a run is cut short only by a sign of a cancellation, and whoever
\* gives one has seen to the item's row before.
THEOREM CutShortWhenRecalledAlways == Spec => []CutShortWhenRecalled
  <1> DEFINE Inv == SignInv /\ RowInv /\ OutcomeInv /\ ErrorInv
  <1>1. Init => Inv
    <2> SUFFICES ASSUME Init PROVE Inv
      OBVIOUS
    <2>1. \A s : InStatus(rows, s) = {}
      BY DEF Init, InStatus, Existing
    <2>2. RowInv /\ OutcomeInv /\ ErrorInv
      BY <2>1 DEF Init, RowInv, CutShortWhenRecalled, OutcomeInv, ErrorInv
    <2>3. \A n \in 1 .. Len(events) : events[n].kind # "status"
      BY DEF Init, QueueCleared
    <2>4. SignInv
      BY <2>3 DEF Init, SignInv, CurRan, LoopSign, LoopIdle, EventSign, ReadSign, FlagSign,
         Calling
    <2> QED BY <2>2, <2>4
  <1>2. IInv /\ Inv /\ [Next]_vars => Inv'
    BY CurRanKept, LoopSignKept, EventSignKept, ReadSignKept, FlagSignKept, OutcomeKept DEF SignInv
  <1>3. Inv => CutShortWhenRecalled
    BY DEF RowInv
  <1> QED BY <1>1, <1>2, <1>3, InitInv, NextInv, PTL DEF Spec

=============================================================================
