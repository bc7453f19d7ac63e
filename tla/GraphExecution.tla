--------------------------- MODULE GraphExecution ---------------------------
(***************************************************************************)
(* The execution of one session's graph: GraphExecutionState                *)
(* (invokeai/app/services/shared/graph.py), driven by the loop of           *)
(* DefaultSessionRunner.run (session_processor_default.py).                 *)
(*                                                                          *)
(* The source graph is expanded while it executes.  Preparing a source node *)
(* adds copies of it to the execution graph: one, or one for each           *)
(* combination of the iterations it lies under; an iterate node gets one    *)
(* copy for each element of its input collection; a collect node gets one   *)
(* copy, fed by all copies of its inputs.                                   *)
(*                                                                          *)
(* Source nodes are numbered in the order of nx.topological_sort, copies in *)
(* the order of their creation (the code names them by uuid).  Fields are   *)
(* abstracted: iterate nodes have an input into collection, collect nodes   *)
(* have inputs into item, and of an output only the length of the           *)
(* collection matters.                                                      *)
(***************************************************************************)
EXTENDS Integers, Sequences, FiniteSets

CONSTANTS
    Graphs,     \* the source graphs
    MaxLength   \* bound: elements of a collection

Kinds == {"node", "iterate", "collect"}

\* The graphs of n nodes that validate_self accepts: acyclic, an iterate node
\* has one input, which is a collection, and a collect node has some.
ValidGraphs(n) ==
    {g \in [kind : [1 .. n -> Kinds],
            edges : SUBSET {e \in (1 .. n) \X (1 .. n) : e[1] < e[2]}] :
        \A m \in 1 .. n :
            LET inputs == {e[1] : e \in {d \in g.edges : d[2] = m}}
            IN  /\ g.kind[m] = "iterate" =>
                      Cardinality(inputs) = 1 /\ \A p \in inputs : g.kind[p] # "iterate"
                /\ g.kind[m] = "collect" => inputs # {}}

ASSUME GraphExecutionAssumption ==
    /\ MaxLength \in Nat
    /\ \A g \in Graphs : /\ IsFiniteSet(DOMAIN g.kind)
                          /\ g \in ValidGraphs(Cardinality(DOMAIN g.kind))

VARIABLES
    graph,      \* the source graph
    copies,     \* the execution graph, with prepared_source_mapping
    results,    \* for each executed copy, the length of the collection it gave
    finished,   \* the source nodes in executed
    failed,     \* has_error()
    pc,         \* where the runner is
    node,       \* the copy that next() returned
    todo        \* the copies that _prepare has still to create

vars == <<graph, copies, results, finished, failed, pc, node, todo>>

-----------------------------------------------------------------------------
(* The source graph. *)

Nodes == DOMAIN graph.kind
Kind(n) == graph.kind[n]
Parents(n) == {p \in Nodes : <<p, n>> \in graph.edges}

\* nx.ancestors: the least set that contains the parents of n, and theirs.
Ancestors(n) ==
    {a \in Nodes : \A S \in SUBSET Nodes :
        Parents(n) \subseteq S /\ (\A m \in S : Parents(m) \subseteq S) => a \in S}

\* For each place m of a graph, what m has itself and what the places that it
\* draws from gather: a search along the edges, against their direction.
Gathered(S, own, from) ==
    LET Up[m \in S] == own[m] \cup UNION {Up[p] : p \in from[m]} IN Up

\* _get_node_iterators: the edges into collectors do not count.
Iterators(n) ==
    LET inputs == [m \in Nodes |-> IF Kind(m) = "collect" THEN {} ELSE Parents(m)]
    IN  {a \in Gathered(Nodes, inputs, inputs)[n] : Kind(a) = "iterate"}

-----------------------------------------------------------------------------
(* The execution graph. *)

Copies == DOMAIN copies
Executed == DOMAIN results

\* source_prepared_mapping: no key where a node has no copy.
CopiesOf(n) == {c \in Copies : copies[c].source = n}
Prepared(n) == CopiesOf(n) # {}

IsIterate(c) == Kind(copies[c].source) = "iterate"

\* c and what c was computed from.
Upstream(c) ==
    Gathered(Copies, [d \in Copies |-> {d}], [d \in Copies |-> copies[d].inputs])[c]

Ready == {c \in Copies \ Executed : copies[c].inputs \subseteq Executed}
ReadyUnder(i) == {c \in Ready : i \in Upstream(c)}

\* An iterate copy has an index into the collection it was made for.
TypeOK ==
    /\ graph \in Graphs
    /\ copies \in Seq([source : Nodes, index : Nat, inputs : SUBSET Copies,
                       under : SUBSET Copies])
    /\ results \in [Executed -> Nat] /\ Executed \subseteq Copies
    /\ \A c \in Copies : IsIterate(c) => \A i \in copies[c].inputs : copies[c].index < results[i]
    /\ finished \subseteq Nodes
    /\ failed \in BOOLEAN
    /\ pc \in {"next", "prepare", "prepared", "run", "end", "raised"}
    /\ node \in Copies \cup {0}
    /\ todo \subseteq [source : Nodes, under : SUBSET Copies]

Init ==
    /\ graph \in Graphs
    /\ copies = <<>> /\ results = <<>>
    /\ finished = {} /\ failed = FALSE
    /\ pc = "next" /\ node = 0 /\ todo = {}

-----------------------------------------------------------------------------
(* next: _get_next_node, or _prepare as often as it prepares something and  *)
(* then _get_next_node.                                                     *)

\* Fault: the order of the iterations is not looked at.
IsAnyReady(c) == c \in Ready

\* The order in which the iterations are looked at: a stable sort by index of a
\* postorder, which has what lies under an iteration before the iteration.
Before(i, j) ==
    \/ copies[i].index < copies[j].index
    \/ copies[i].index = copies[j].index /\ (i = j \/ i \notin Upstream(j))

\* _get_next_node returns a ready copy: under the first iteration that has one,
\* if any has.  Which of several is left to the order of Python sets.
IsNextNode(c) ==
    LET busy == {i \in Copies : IsIterate(i) /\ ReadyUnder(i) # {}}
    IN  /\ c \in Ready
        /\ busy # {} => \E i \in busy : c \in ReadyUnder(i) /\ \A j \in busy : Before(i, j)

GetNextNode(c) ==
    /\ pc \in {"next", "prepared"} /\ IsNextNode(c)
    /\ node' = c /\ pc' = "run"
    /\ UNCHANGED <<graph, copies, results, finished, failed, todo>>

NothingReady ==
    /\ pc = "next" /\ Ready = {}
    /\ pc' = "prepare"
    /\ UNCHANGED <<graph, copies, results, finished, failed, node, todo>>

\* Fault: a node need not wait for the iterations above it.
IsPreparableEarly(n) ==
    /\ ~Prepared(n)
    /\ Kind(n) = "iterate" => Parents(n) \subseteq finished

\* The source nodes that _prepare may take.
IsPreparable(n) ==
    /\ ~Prepared(n)
    /\ Kind(n) = "iterate" => Parents(n) \subseteq finished
    /\ \A a \in Ancestors(n) : Kind(a) = "iterate" => a \in finished

\* itertools.product of the copies of the iterators above a node.
Combinations(n) ==
    {{f[i] : i \in Iterators(n)} :
        f \in {g \in [Iterators(n) -> Copies] :
                  \A i \in Iterators(n) : copies[g[i]].source = i}}

\* _prepare takes the first of them in topological order.
Prepare ==
    /\ pc = "prepare" /\ todo = {}
    /\ \E n \in Nodes :
          /\ IsPreparable(n)
          /\ \A m \in 1 .. n - 1 : ~IsPreparable(m)
          /\ todo' = [source : {n},
                      under : IF Kind(n) = "collect" THEN {{}} ELSE Combinations(n)]
    /\ UNCHANGED <<graph, copies, results, finished, failed, pc, node>>

NothingPreparable ==
    /\ pc = "prepare" /\ todo = {}
    /\ \A n \in Nodes : ~IsPreparable(n)
    /\ pc' = "prepared"
    /\ UNCHANGED <<graph, copies, results, finished, failed, node, todo>>

\* Fault: any copy of the parent will do.
AnyIterationNode(p, under) == CopiesOf(p)

\* _get_iteration_node: the copies of parent p that fit a combination of
\* iterations; the code takes any of them, or None.
IterationNodes(p, under) ==
    IF Cardinality(CopiesOf(p)) = 1 THEN CopiesOf(p)
    ELSE IF CopiesOf(p) \cap under # {} THEN CopiesOf(p) \cap under
    ELSE {c \in CopiesOf(p) :
             \A i \in under : copies[i].source \in Ancestors(p) => i \in Upstream(c)}

\* The inputs of a copy: all copies of a collect node's parents, or one fitting
\* copy of each parent.
Inputs(t) ==
    IF Kind(t.source) = "collect" THEN {UNION {CopiesOf(p) : p \in Parents(t.source)}}
    ELSE {{f[p] : p \in Parents(t.source)} :
              f \in {g \in [Parents(t.source) -> Copies] :
                        \A p \in Parents(t.source) : g[p] \in IterationNodes(p, t.under)}}

\* Fault: one more.
CountOneMore(t, inputs) ==
    IF Kind(t.source) = "iterate" THEN results[CHOOSE c \in inputs : TRUE] + 1 ELSE 1

\* How many copies _create_execution_node makes.
Count(t, inputs) ==
    IF Kind(t.source) = "iterate" THEN results[CHOOSE c \in inputs : TRUE] ELSE 1

\* The copies that it makes.
NewCopies(t, inputs) ==
    [i \in 1 .. Count(t, inputs) |->
        [source |-> t.source, index |-> i - 1, inputs |-> inputs, under |-> t.under]]

\* _create_execution_node, for one combination.  _prepare returns None, and so
\* the loop of next ends, if no combination gave a copy.
CreateExecutionNode ==
    /\ todo # {}
    /\ LET t == CHOOSE t \in todo : TRUE
       IN  \E inputs \in Inputs(t) :
              /\ copies' = copies \o NewCopies(t, inputs)
              /\ todo' = todo \ {t}
              /\ pc' = IF todo' = {} /\ ~Prepared(t.source) /\ Count(t, inputs) = 0
                       THEN "prepared" ELSE "prepare"
    /\ UNCHANGED <<graph, results, finished, failed, node>>

\* An edge from None does not validate: next() raises.
CreateExecutionNodeRaises ==
    /\ todo # {}
    /\ Inputs(CHOOSE t \in todo : TRUE) = {}
    /\ pc' = "raised" /\ todo' = {}
    /\ UNCHANGED <<graph, copies, results, finished, failed, node>>

\* next() returns None, and the runner stops.
NoNext ==
    /\ pc = "prepared" /\ Ready = {}
    /\ pc' = "end"
    /\ UNCHANGED <<graph, copies, results, finished, failed, node, todo>>

-----------------------------------------------------------------------------
(* The runner: run_node, and the test of is_complete after it. *)

\* The lengths of the collections that a source node may give.
Lengths(n) ==
    IF \E m \in Nodes : n \in Parents(m) /\ Kind(m) = "iterate"
    THEN IF Kind(n) = "collect" THEN {Cardinality(copies[node].inputs)} ELSE 0 .. MaxLength
    ELSE {0}

\* Fault: the first copy of a source node completes it.
AllExecutedEarly(n) == TRUE

\* Fault: the running copy is not yet in executed.
AllExecutedBefore(n) == CopiesOf(n) \subseteq Executed

\* Are all copies of the source node of the running one executed with it?
AllExecuted(n) == CopiesOf(n) \subseteq Executed \cup {node}

\* Fault: the copy is not added to executed.
CompleteForgets ==
    /\ pc = "run"
    /\ pc' = "next" /\ node' = 0
    /\ UNCHANGED <<graph, copies, results, finished, failed, todo>>

\* complete, and is_complete
Complete ==
    /\ pc = "run"
    /\ LET n == copies[node].source
       IN  /\ \E len \in Lengths(n) :
                 results' = [c \in Executed \cup {node} |->
                                IF c = node THEN len ELSE results[c]]
           /\ finished' = finished \cup (IF AllExecuted(n) THEN {n} ELSE {})
    /\ pc' = IF finished' = Nodes THEN "end" ELSE "next"
    /\ node' = 0
    /\ UNCHANGED <<graph, copies, failed, todo>>

\* _prepare_inputs or the node raises: set_node_error.  With an error the
\* session is complete.
SetNodeError ==
    /\ pc = "run"
    /\ failed' = TRUE
    /\ pc' = "end" /\ node' = 0
    /\ UNCHANGED <<graph, copies, results, finished, todo>>

Step ==
    \/ \E c \in Copies : GetNextNode(c)
    \/ NothingReady \/ Prepare \/ NothingPreparable
    \/ CreateExecutionNode \/ CreateExecutionNodeRaises
    \/ NoNext \/ Complete

Next == Step \/ SetNodeError

Spec == Init /\ [][Next]_vars

\* The runner's thread is scheduled and every node returns.
FairSpec == Spec /\ WF_vars(Step)

-----------------------------------------------------------------------------
(* Properties. *)

\* No iterate node lies under another one.
Flat == \A n \in Nodes : Kind(n) = "iterate" => Iterators(n) = {}

\* Nothing is computed both in an iteration and from what is collected over it.
Unmixed == \A n \in Nodes : \A k \in Ancestors(n) :
    Kind(k) = "collect" => Iterators(n) \cap Ancestors(k) = {}

\* The iterations that a copy was computed in, up to the collectors above it.
IterationsOf(c) ==
    LET inputs == [d \in Copies |-> IF Kind(copies[d].source) = "collect" THEN {}
                                    ELSE copies[d].inputs]
    IN  {i \in Gathered(Copies, inputs, inputs)[c] : IsIterate(i)}

\* complete: a source node counts as executed exactly when it has copies and
\* all of them are executed, however the copies of different nodes interleave.
FinishedMeansAll ==
    \A n \in Nodes : n \in finished <=> Prepared(n) /\ CopiesOf(n) \subseteq Executed

\* A collector collects everything: every copy that its inputs have when it is
\* prepared, and none appears later.
CollectsAll ==
    \A c \in Copies : Kind(copies[c].source) = "collect" =>
        copies[c].inputs = UNION {CopiesOf(p) : p \in Parents(copies[c].source)}

\* "For every iterator, the parent must either not be a child of that iterator,
\* or must match the prepared iteration for that iterator": what a copy is
\* computed from lies in one iteration of each iterator above it, in no other.
MatchesIterations ==
    \A c \in Copies : IterationsOf(c) = copies[c].under

\* "TODO: Handle a node mapping to none": in a graph without nested iterations,
\* _get_iteration_node finds a copy of each parent, so that next() does not raise.
NeverRaises == Flat => pc # "raised"

\* In a graph without nested iterations, every combination of the elements of the
\* collections above a node is computed once: no two copies share one, none is
\* missing, none raises.  If moreover nothing draws on an iteration and on what
\* is collected over it, a copy is computed from copies in its own iterations.
OncePerCombination ==
    /\ NeverRaises
    /\ Flat /\ Unmixed => MatchesIterations
    /\ Flat => \A n \in Nodes : Prepared(n) /\ todo = {} =>
          /\ {copies[c].under : c \in CopiesOf(n)} =
                (IF Kind(n) = "collect" THEN {{}} ELSE Combinations(n))
          /\ Kind(n) # "iterate" =>
                \A c, d \in CopiesOf(n) : copies[c].under = copies[d].under => c = d

\* A copy is iteration i itself, or is computed in i and no other iteration.
InIteration(c, i) == {d \in {c} \cup IterationsOf(c) : IsIterate(d)} = {i}

\* Nothing is ready in an earlier iteration than that of copy c, unless a collector
\* feeds c (what lies under several iterations has no order).
Earliest(c) ==
    {i \in Upstream(c) : IsIterate(i)} \subseteq {c} \cup IterationsOf(c) =>
        \A i, j \in Copies :
            /\ IsIterate(i) /\ copies[j].source = copies[i].source
            /\ copies[i].index < copies[j].index
            /\ InIteration(c, j)
            => ~\E d \in Ready : InIteration(d, i)

\* "Executing a branch as far as possible before moving to the next branch":
\* while a copy of one iteration runs, nothing in an earlier iteration of the
\* same iterator is ready.
DepthFirst == pc = "run" => Earliest(node)

\* An iterate node over an empty collection.
Empty(n) == Kind(n) = "iterate" /\ ~Prepared(n) /\ \A p \in Parents(n) : p \in finished

\* When the runner stops without an error, every node was executed, unless some
\* collection was empty.
EndsComplete ==
    pc = "end" /\ ~failed /\ (\A n \in Nodes : ~Empty(n)) => finished = Nodes

\* "It might just happen if an empty collection is input, and should be valid":
\* the nodes that do not depend on the empty collection are executed.
EmptyCollectionIsValid ==
    pc = "end" /\ ~failed =>
        \A n \in Nodes : n \in finished \/ \E m \in {n} \cup Ancestors(n) : Empty(m)

\* The session ends.
Terminates == <>(pc \in {"end", "raised"})

-----------------------------------------------------------------------------
(* What makes FinishedMeansAll and CollectsAll inductive. *)

\* The copy that runs is not executed yet.
RunsReady == pc = "run" => node \in Copies \ Executed

\* What _prepare is at work on: copies of one source node, which is not
\* executed, and whose input is executed if it is an iterate node.
Preparing ==
    /\ todo # {} => pc = "prepare"
    /\ \A t, u \in todo : t.source = u.source
    /\ \A t \in todo :
          /\ t.source \notin finished
          /\ Kind(t.source) = "iterate" => Parents(t.source) \subseteq finished

\* A node is prepared when all copies of its parents are made.
Whole(n) == \A p \in Parents(n) : Prepared(p) /\ \A t \in todo : t.source # p
ParentsWhole ==
    /\ \A c \in Copies : Whole(copies[c].source)
    /\ \A t \in todo : Whole(t.source)

\* An iterate node is copied when its input is known.
IterateInputs == \A c \in Copies : IsIterate(c) => copies[c].inputs \subseteq Executed

IInv ==
    /\ TypeOK /\ FinishedMeansAll /\ CollectsAll
    /\ RunsReady /\ Preparing /\ ParentsWhole /\ IterateInputs
=============================================================================
