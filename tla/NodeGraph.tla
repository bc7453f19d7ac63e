----------------------------- MODULE NodeGraph ------------------------------
(***************************************************************************)
(* The nodes and edges of the workflow editor and their undo history         *)
(* (features/nodes/store/nodesSlice.ts, store/util/validateConnection.ts,    *)
(* getHasCycles.ts).  Operators only.  Positions, sizes, labels, selection   *)
(* and field values are left out, so an action that changes only those       *)
(* leaves the graph alone; it still writes the history.  A node has one      *)
(* output and takes any of Inputs, all of one type.                          *)
(***************************************************************************)
EXTENDS Naturals, Sequences, FiniteSets

CONSTANTS
    NodeIds,    \* ids of nodes
    Inputs,     \* the inputs of a node
    ManyInputs, \* those that take several edges: the item of a collect node
    Limit       \* limit of the history, 64 in the code

ASSUME NodeGraphAssumption ==
    /\ IsFiniteSet(NodeIds) /\ IsFiniteSet(Inputs)
    /\ ManyInputs \subseteq Inputs
    /\ {"generated", "pasted"} \cap Inputs = {}
    /\ Limit \in Nat \ {0, 1}

\* An edge of type "collapsed" has no handles; it was made by closing a node,
\* with an id made of its ends, or pasted, with an id of its own.
Edge == [source : NodeIds, target : NodeIds, input : Inputs \cup {"generated", "pasted"},
         hidden : BOOLEAN]

Graph == [nodes : [NodeIds -> {"absent", "open", "closed"}], edges : SUBSET Edge]

EmptyGraph == [nodes |-> [n \in NodeIds |-> "absent"], edges |-> {}]

Exists(g) == {n \in NodeIds : g.nodes[n] # "absent"}
Collapsed(e) == e.input \in {"generated", "pasted"}
Links(g) == {e \in g.edges : ~Collapsed(e)}
Touching(g, n) == {e \in g.edges : n \in {e.source, e.target}}
SameEnds(e, f) == e.source = f.source /\ e.target = f.target
Connection(s, t, i) == [source |-> s, target |-> t, input |-> i, hidden |-> FALSE]

-----------------------------------------------------------------------------
(* Connections. *)

\* A finite graph has a cycle if each node of some set has a successor in it.
IsAcyclic(edges) ==
    \A S \in (SUBSET NodeIds) \ {{}} :
        \E n \in S : \A e \in edges : e.source = n => e.target \notin S

getHasCycles(c, g) == ~IsAcyclic(g.edges \cup {c})

\* Fault: cycles are not looked for.
ValidWithCycles(c, g, ignored) ==
    /\ c.source # c.target
    /\ {c.source, c.target} \subseteq Exists(g)
    /\ \A e \in g.edges \ ignored : e.target = c.target /\ e.input = c.input =>
        c.input \in ManyInputs /\ e.source # c.source

\* validateConnection; ignored is the edge that is being moved, if any.
\* The check for cycles does not ignore it.
ValidConnection(c, g, ignored) ==
    LET others == {e \in g.edges \ ignored : e.target = c.target /\ e.input = c.input}
    IN  /\ c.source # c.target
        /\ {c.source, c.target} \subseteq Exists(g)
        /\ \A e \in others : e.source # c.source
        /\ c.input \in ManyInputs \/ others = {}
        /\ ~getHasCycles(c, g)

\* Edges are validated one after the other, a collapsed one only for its ends.
Offered(g, e) ==
    IF IF Collapsed(e) THEN {e.source, e.target} \subseteq Exists(g) ELSE ValidConnection(e, g, {})
    THEN [g EXCEPT !.edges = @ \cup {e}] ELSE g

Pasted(g, edges) ==
    LET after[k \in 0 .. Len(edges)] == IF k = 0 THEN g ELSE Offered(after[k - 1], edges[k])
    IN  after[Len(edges)]

-----------------------------------------------------------------------------
(* What a graph must be. *)

\* No edge lacks an end.
Connected(g) == \A e \in g.edges : {e.source, e.target} \subseteq Exists(g)

\* There is no cycle, nor two edges into an input for one.
Executable(g) ==
    /\ IsAcyclic(Links(g))
    /\ \A e, f \in Links(g) : e.target = f.target /\ e.input = f.input =>
        e = f \/ (e.input \in ManyInputs /\ e.source # f.source)

\* The collapsed edge that closing a node made has closed nodes at both ends
\* and stands for a hidden edge between them.
StandsFor(g) ==
    \A e \in g.edges : e.input = "generated" =>
        /\ g.nodes[e.source] = "closed" /\ g.nodes[e.target] = "closed"
        /\ \E f \in g.edges \ {e} : SameEnds(e, f) /\ f.hidden

WellFormed(g) == Connected(g) /\ Executable(g) /\ StandsFor(g)

-----------------------------------------------------------------------------
(* The reducers. *)

AddChange(n, isOpen) == [type |-> "add", id |-> n, node |-> isOpen]
RemoveChange(n) == [type |-> "remove", id |-> n, node |-> "absent"]

\* Fault: the edges stay.
NodesChangedUnpruned(g, changes) ==
    LET removed == {changes[k].id : k \in {k \in DOMAIN changes : changes[k].type = "remove"}}
        added == {changes[k].id : k \in {k \in DOMAIN changes : changes[k].type = "add"}}
    IN  [g EXCEPT !.nodes = [n \in NodeIds |-> IF n \in added THEN "open"
                                               ELSE IF n \in removed THEN "absent" ELSE @[n]]]

\* nodesChanged: the changes are applied, removals before additions, and edges
\* that lost an end are removed.
NodesChanged(g, changes) ==
    LET added(n) == {k \in DOMAIN changes : changes[k].type = "add" /\ changes[k].id = n}
        removed == {changes[k].id : k \in {k \in DOMAIN changes : changes[k].type = "remove"}}
        nodes == [n \in NodeIds |->
                    IF added(n) # {} THEN changes[CHOOSE k \in added(n) : TRUE].node
                    ELSE IF n \in removed THEN "absent" ELSE g.nodes[n]]
    IN  [nodes |-> nodes,
         edges |-> {e \in g.edges : nodes[e.source] # "absent" /\ nodes[e.target] # "absent"}]

\* edgesChanged: with a collapsed edge go the edges between the same nodes.
EdgesChanged(g, removed, added) ==
    LET gone == removed \cup {e \in g.edges : \E c \in removed : Collapsed(c) /\ SameEnds(c, e)}
    IN  [g EXCEPT !.edges = (@ \ gone) \cup added]

\* Fault: collapsed edges stay.
OpenedUndeleted(g, n) ==
    [nodes |-> [g.nodes EXCEPT ![n] = "open"],
     edges |-> (g.edges \ Touching(g, n)) \cup {[e EXCEPT !.hidden = FALSE] : e \in Touching(g, n)}]

\* nodeIsOpenChanged to open: its edges are shown, the collapsed ones deleted.
Opened(g, n) ==
    [nodes |-> [g.nodes EXCEPT ![n] = "open"],
     edges |-> (g.edges \ Touching(g, n))
               \cup {[e EXCEPT !.hidden = FALSE] : e \in Touching(g, n) \cap Links(g)}]

\* nodeIsOpenChanged to closed: edges to closed nodes are hidden, and one
\* collapsed edge stands for those from one node to another.
Closed(g, n) ==
    LET hidden == {e \in Touching(g, n) : g.nodes[e.source] = "closed" \/ g.nodes[e.target] = "closed"}
    IN  [nodes |-> [g.nodes EXCEPT ![n] = "closed"],
         edges |-> (g.edges \ hidden)
                   \cup {[e EXCEPT !.hidden = TRUE] : e \in hidden}
                   \cup {Connection(e.source, e.target, "generated") : e \in hidden}]

-----------------------------------------------------------------------------
(* The history: redux-undo with the configuration of nodesUndoableConfig.    *)
(* latest is the newest state that the filter let through; grouped says that *)
(* the last recorded action was nodesChanged.                                *)

History == [past : Seq(Graph), present : Graph, future : Seq(Graph), latest : Graph,
            grouped : BOOLEAN]

Fresh(g) == [past |-> <<>>, present |-> g, future |-> <<>>, latest |-> g, grouped |-> FALSE]

Snapshots(h) == {h.past[k] : k \in DOMAIN h.past} \cup {h.future[k] : k \in DOMAIN h.future}
                \cup {h.present, h.latest}

\* Fault: the limit is ignored.
InsertedUnlimited(h, g, grouped) ==
    [past |-> Append(h.past, h.latest), present |-> g, future |-> <<>>,
     latest |-> g, grouped |-> grouped]

\* insert: the oldest state is dropped when the limit is reached.
Inserted(h, g, grouped) ==
    LET kept == IF Len(h.past) + 1 >= Limit THEN Tail(h.past) ELSE h.past
    IN  [past |-> Append(kept, h.latest), present |-> g, future |-> <<>>,
         latest |-> g, grouped |-> grouped]

\* nodesChanged, which joins the entry of a nodesChanged before it.
RecordedNodes(h, g) ==
    IF h.grouped THEN [h EXCEPT !.present = g, !.latest = g] ELSE Inserted(h, g, TRUE)

\* A change of the selection alone takes the group of the entry before it.
RecordedSelection(h) ==
    IF h.grouped THEN [h EXCEPT !.latest = h.present] ELSE Inserted(h, h.present, FALSE)

\* Any other action of the slice.
Recorded(h, g) == Inserted(h, g, FALSE)

\* An action that the filter rejects: it is of another slice.
Replaced(h, g) == [h EXCEPT !.present = g]

Undone(h) ==
    LET last == h.past[Len(h.past)]
    IN  [past |-> SubSeq(h.past, 1, Len(h.past) - 1), present |-> last,
         future |-> <<h.latest>> \o h.future, latest |-> last, grouped |-> FALSE]

Redone(h) ==
    [past |-> Append(h.past, h.latest), present |-> Head(h.future), future |-> Tail(h.future),
     latest |-> Head(h.future), grouped |-> FALSE]
=============================================================================
