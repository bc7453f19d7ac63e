---------------------------- MODULE SessionQueue ----------------------------
(***************************************************************************)
(* The session_queue table and the SQL statements that                      *)
(* SqliteSessionQueue runs on it                                            *)
(* (invokeai/app/services/session_queue/session_queue_sqlite.py).           *)
(*                                                                          *)
(* The table is a function from item ids to rows.  Every operator below is  *)
(* one SQL statement: it maps a table to a table, or says which row a       *)
(* SELECT may return.  All threads share one sqlite3 connection, opened     *)
(* with check_same_thread=False, and no lock surrounds a method, so a       *)
(* statement (with the commit that follows it) is the unit of atomicity:    *)
(* SessionProcessor interleaves these statements.                           *)
(***************************************************************************)
EXTENDS Integers, FiniteSets

CONSTANTS
    Queues,         \* the queue ids of the queue_id path parameter
    DefaultQueue,   \* DEFAULT_QUEUE_ID
    BatchIds,       \* ids of the batches that clients enqueue
    Destinations,   \* values of Batch.destination other than None
    NoDestination,  \* Batch.destination is None
    MaxNodes,       \* bound: invocations in a session's graph
    MaxItems,       \* bound: rows ever inserted (item_id is AUTOINCREMENT)
    NoRow           \* no row has this id (never inserted, or deleted)

ItemIds == 1 .. MaxItems

\* The status column, QUEUE_ITEM_STATUS.
Statuses == {"pending", "in_progress", "completed", "failed", "canceled"}
Terminal == {"completed", "failed", "canceled"}

\* What the columns of a retried row hold after the values were bound to the
\* wrong columns: the JSON of field_values as batch_id, the new session's id
\* as destination.
FieldValuesJson == "field_values"
SessionIdText == "session_id"
FreshId == "uuid"   \* a session_id that no other row has

\* A row.  The session column is abstracted to whether it parses as a
\* GraphExecutionState (intact), how many invocations next() has still to
\* return (left), and whether a node error was recorded (err).
Row == [queue : Queues,
        batch : BatchIds \cup {FieldValuesJson},
        dest : Destinations \cup {NoDestination, SessionIdText},
        vals : BOOLEAN,                   \* field_values is a non-empty list
        sid : Destinations \cup {FreshId},  \* session_id, NOT NULL UNIQUE
        prio : Nat,
        status : Statuses,
        intact : BOOLEAN,
        left : 0 .. MaxNodes,
        err : BOOLEAN]

Tables == [ItemIds -> Row \cup {NoRow}]

ASSUME SessionQueueAssumption ==
    /\ MaxItems \in Nat
    /\ MaxNodes \in Nat
    /\ DefaultQueue \in Queues
    /\ NoRow \notin Row

-----------------------------------------------------------------------------
(* Selections: the ids of rows that a WHERE clause picks. *)

Existing(t) == {i \in ItemIds : t[i] # NoRow}
InStatus(t, s) == {i \in Existing(t) : t[i].status = s}
InQueue(t, q) == {i \in Existing(t) : t[i].queue = q}
Pending(t, q) == InStatus(t, "pending") \cap InQueue(t, q)

\* get_current: the in_progress rows of a queue, of which LIMIT 1 takes any.
Current(t, q) == InStatus(t, "in_progress") \cap InQueue(t, q)

\* WHERE status != 'canceled' AND status != 'completed' AND status != 'failed'
Unfinished(t, q) == {i \in InQueue(t, q) : t[i].status \notin Terminal}

\* Fault: the newest row of the highest priority.
IsNewest(t, i) ==
    /\ i \in InStatus(t, "pending")
    /\ \A j \in InStatus(t, "pending") :
          t[j].prio < t[i].prio \/ (t[j].prio = t[i].prio /\ j <= i)

\* The row dequeue's SELECT returns: ORDER BY priority DESC, item_id ASC.
IsNext(t, i) ==
    /\ i \in InStatus(t, "pending")
    /\ \A j \in InStatus(t, "pending") :
          \/ t[j].prio < t[i].prio
          \/ t[j].prio = t[i].prio /\ i <= j

\* _get_highest_priority: MAX(priority) over the pending rows, or 0.
IsHighestPriority(t, q, p) ==
    /\ p \in {0} \cup {t[i].prio : i \in Pending(t, q)}
    /\ \A i \in Pending(t, q) : t[i].prio <= p

-----------------------------------------------------------------------------
(* Statements that change the table. *)

\* UPDATE ... SET status = s WHERE item_id = i: no effect on a missing row.
SetStatus(t, i, s) ==
    IF t[i] = NoRow THEN t ELSE [t EXCEPT ![i].status = s]

\* set_queue_item_session: UPDATE ... SET session WHERE item_id = i.
SetSession(t, i, left, err) ==
    IF t[i] = NoRow THEN t
    ELSE [t EXCEPT ![i] = [@ EXCEPT !.left = left, !.err = err]]

\* UPDATE ... SET status = 'canceled' WHERE <the ids>.
CancelAll(t, ids) ==
    [i \in ItemIds |-> IF i \in ids THEN [t[i] EXCEPT !.status = "canceled"] ELSE t[i]]

\* DELETE ... WHERE <the ids>.
DeleteAll(t, ids) == [i \in ItemIds |-> IF i \in ids THEN NoRow ELSE t[i]]

\* executemany(INSERT): k copies of row r under the next AUTOINCREMENT ids.
InsertMany(t, first, k, r) ==
    [i \in ItemIds |-> IF first <= i /\ i < first + k THEN r ELSE t[i]]

\* The rows prepare_values_to_insert makes of a batch.
NewRow(b, prio) ==
    [queue |-> b.queue, batch |-> b.id, dest |-> b.dest, vals |-> b.vals,
     sid |-> FreshId, prio |-> prio, status |-> "pending",
     intact |-> TRUE, left |-> b.nodes, err |-> FALSE]

\* The row retry_items_by_id inserts for row r.  Its tuple lists batch_id,
\* destination, field_values, origin, priority, workflow, session, session
\* id where the INSERT names session, session_id, batch_id, field_values,
\* priority, workflow, origin, destination: the session column gets the batch
\* id, which parses as no session.
RetriedRow(r) ==
    [r EXCEPT !.batch = FieldValuesJson, !.dest = SessionIdText,
              !.vals = FALSE, !.sid = r.dest, !.status = "pending",
              !.intact = FALSE]

\* NOT NULL batch_id (None when field_values is empty), NOT NULL session_id
\* (None when destination is), UNIQUE session_id.
RetryInsertable(t, r) ==
    /\ r.vals
    /\ r.dest \in Destinations
    /\ \A j \in Existing(t) : t[j].sid # r.dest

\* Fault: in_progress rows are left as they are.
StartedAsFound(t, clearOnStartup) ==
    DeleteAll(t, IF clearOnStartup THEN InQueue(t, DefaultQueue)
                 ELSE {i \in InQueue(t, DefaultQueue) : t[i].status \in Terminal})

\* Fault: in_progress rows are put back in the queue.
StartedRequeued(t, clearOnStartup) ==
    [i \in ItemIds |-> IF i \in InStatus(t, "in_progress")
                       THEN [t[i] EXCEPT !.status = "pending"] ELSE t[i]]

\* The startup sequence start(): _set_in_progress_to_canceled on every queue,
\* then clear(DEFAULT_QUEUE_ID) or prune(DEFAULT_QUEUE_ID).
Started(t, clearOnStartup) ==
    LET canceled == CancelAll(t, InStatus(t, "in_progress"))
        finished == {i \in InQueue(canceled, DefaultQueue) :
                        canceled[i].status \in Terminal}
    IN  DeleteAll(canceled, IF clearOnStartup
                            THEN InQueue(canceled, DefaultQueue)
                            ELSE finished)
=============================================================================
