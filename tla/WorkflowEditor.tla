--------------------------- MODULE WorkflowEditor ---------------------------
(***************************************************************************)
(* The workflow editor: a graph of nodes with undo, copy and paste           *)
(* (store/nodesSlice.ts, components/flow/, hooks/useNodeCopyPaste.ts), a     *)
(* form over their fields without undo (store/workflowSlice.ts,              *)
(* components/sidePanel/builder/) and the library they are saved to and      *)
(* loaded from (features/workflowLibrary/hooks/), in features/nodes/ of the  *)
(* frontend.  One tab of a browser: a reducer or a callback runs to its end, *)
(* and the answer to a save comes between others.                            *)
(***************************************************************************)
EXTENDS NodeGraph, SequencesExt

CONSTANTS
    ElementIds, \* ids of form elements other than the root
    Root,       \* the id of the root container
    None,
    Workflows,  \* workflows that an earlier session of the editor left
    MaxEdits    \* bound: what the user does

INSTANCE FormTree

ASSUME WorkflowEditorAssumption ==
    /\ Root \notin ElementIds
    /\ None \notin NodeIds \cup ElementIds \cup {Root}
    /\ \A w \in Workflows : /\ w.graph \in Graph /\ WellFormed(w.graph)
                            /\ IsForm(w.form) /\ ValidForm(w.form) /\ Placed(w.form)
    /\ MaxEdits \in Nat

VARIABLES
    hist,      \* the nodes slice: graph and history
    form,      \* workflow slice: the form
    initials,  \* workflow slice: elements that formFieldInitialValues has
    touched,   \* workflow slice: isTouched
    clipboard, \* $copiedNodes, $copiedEdges, $edgesToCopiedNodes
    saving,    \* what a save in flight sends
    saved,     \* the workflow in the library
    edits      \* number of things the user did

vars == <<hist, form, initials, touched, clipboard, saving, saved, edits>>

graph == hist.present

IsWorkflow(w) == w.graph \in Graph /\ IsForm(w.form)
Clipboard == [nodes : [NodeIds -> {"absent", "open", "closed"}],
              edges : SUBSET Edge, edgesTo : SUBSET Edge]

TypeOK ==
    /\ hist \in History
    /\ Len(hist.past) < Limit
    /\ IsForm(form)
    /\ initials \subseteq ElementIds
    /\ touched \in BOOLEAN
    /\ clipboard \in Clipboard
    /\ \A w \in {saving, saved} : w = None \/ IsWorkflow(w)
    /\ edits \in 0 .. MaxEdits

\* getFormFieldInitialValues: there is one for a field whose node exists.
InitialValues(f, g) == {id \in Fields(f) : f[id].node \in Exists(g)}

NothingCopied == [nodes |-> EmptyGraph.nodes, edges |-> {}, edgesTo |-> {}]

Init ==
    /\ \E w \in Workflows :
        /\ hist = Fresh(w.graph)
        /\ form = w.form
        /\ initials = InitialValues(w.form, w.graph)
    /\ touched = FALSE
    /\ clipboard = NothingCopied
    /\ saving = None
    /\ saved = None
    /\ edits = 0

\* A uuid: nothing has been called so.
NewNode(n) ==
    /\ \A g \in Snapshots(hist) : n \notin Exists(g)
    /\ clipboard.nodes[n] = "absent"
    /\ \A id \in Fields(form) : form[id].node # n
    /\ \A w \in {saving, saved} \ {None} :
        n \notin Exists(w.graph) /\ \A id \in Fields(w.form) : w.form[id].node # n

NewElement(id) ==
    /\ id \notin DOMAIN form \cup initials
    /\ \A e \in DOMAIN form : id \notin ToSet(form[e].children)
    /\ \A w \in {saving, saved} \ {None} : id \notin DOMAIN w.form


-----------------------------------------------------------------------------
(* The slices. *)

\* Fault: additions are not looked at.
RemovedAtAll(changes) ==
    {changes[k].id : k \in {k \in DOMAIN changes : changes[k].type = "remove"}}

\* What nodesChanged does to the form: a field goes with its node, unless the
\* node was added after it was removed.
RemovedNodes(changes) ==
    LET at(type, n) == {k \in DOMAIN changes : changes[k].type = type /\ changes[k].id = n}
    IN  {n \in NodeIds : \E k \in at("remove", n) : \A l \in at("add", n) : l < k}

FormAfter(f, changes) == Drop(f, {id \in Fields(f) : f[id].node \in RemovedNodes(changes)})

\* A callback that dispatches nodesChanged, if there are changes, and then
\* edgesChanged, if there are edges to remove or to add.
Dispatch(changes, removed, added) ==
    LET g == NodesChanged(graph, changes)
        h == IF changes = <<>> THEN hist ELSE RecordedNodes(hist, g)
    IN  /\ hist' = IF removed \cup added = {} THEN h
                   ELSE Recorded(h, EdgesChanged(h.present, removed, added))
        /\ form' = FormAfter(form, changes)
        /\ touched' = TRUE
        /\ UNCHANGED <<initials, clipboard, saving, saved>>

\* An action on the nodes slice alone.
OnGraph(h) ==
    /\ hist' = h
    /\ UNCHANGED <<form, initials, clipboard, saving, saved>>

\* An action on the workflow slice alone, which does not set isTouched.
OnForm(f, i) ==
    /\ form' = f
    /\ initials' = i
    /\ UNCHANGED <<hist, touched, clipboard, saving, saved>>

-----------------------------------------------------------------------------
(* Nodes and edges. *)

\* A connection is drawn from a handle, and a closed node has none to draw from.
Drawn(c) == "open" \in {graph.nodes[c.source], graph.nodes[c.target]}

Connect ==
    \E s, t \in NodeIds, i \in Inputs : LET c == Connection(s, t, i) IN
        /\ ValidConnection(c, graph, {})
        /\ Drawn(c)
        /\ Dispatch(<<>>, {}, {c})

\* One end of a visible edge is moved.
Reconnect ==
    \E old \in Links(graph), s, t \in NodeIds, i \in Inputs : LET c == Connection(s, t, i) IN
        /\ ~old.hidden
        /\ c # old
        /\ s = old.source \/ (t = old.target /\ i = old.input)
        /\ ValidConnection(c, graph, {old})
        /\ Dispatch(<<>>, {old}, {c})

\* The edge is dropped where there is nothing.
Disconnect ==
    \E old \in Links(graph) :
        /\ ~old.hidden
        /\ Dispatch(<<>>, {old}, {})

\* A node is added, and connected if it was chosen at the end of a connection
\* drawn into the void.
AddNode ==
    \E n \in NodeIds : LET g == NodesChanged(graph, <<AddChange(n, "open")>>) IN
        /\ NewNode(n)
        /\ \/ Dispatch(<<AddChange(n, "open")>>, {}, {})
           \/ \E m \in NodeIds, i \in Inputs :
                \E c \in {Connection(m, n, i), Connection(n, m, i)} :
                    /\ graph.nodes[m] = "open"
                    /\ ValidConnection(c, g, {})
                    /\ Dispatch(<<AddChange(n, "open")>>, {}, {c})

\* A selection of edges: with a collapsed edge those it stands for.
Selections ==
    {T \in SUBSET graph.edges : \A e, f \in graph.edges :
        Collapsed(e) /\ f.hidden /\ SameEnds(e, f) => (e \in T <=> f \in T)}

DeleteSelection ==
    \E S \in SUBSET Exists(graph), T \in Selections :
        /\ S \cup T # {}
        /\ \E order \in SetToSeqs({RemoveChange(n) : n \in S}) : Dispatch(order, T, {})

\* Update of a node to a newer template.
UpdateNode ==
    \E n \in Exists(graph) : Dispatch(<<RemoveChange(n), AddChange(n, graph.nodes[n])>>, {}, {})

NodeIsOpenChanged ==
    \E n \in Exists(graph) :
        /\ OnGraph(Recorded(hist, IF graph.nodes[n] = "open" THEN Closed(graph, n) ELSE Opened(graph, n)))
        /\ touched' = TRUE

\* A field of a node is given a value: the graph is a new one that looks the same.
FieldValueChanged ==
    /\ Exists(graph) # {}
    /\ OnGraph(Recorded(hist, graph))
    /\ touched' = TRUE

\* nodesChanged or edgesChanged with changes of type "select"; only the latter touches.
Select ==
    /\ Exists(graph) # {}
    /\ OnGraph(RecordedSelection(hist))
    /\ touched' \in {touched, touched \/ graph.edges # {}}

Undo == hist.past # <<>> /\ OnGraph(Undone(hist)) /\ UNCHANGED touched
Redo == hist.future # <<>> /\ OnGraph(Redone(hist)) /\ UNCHANGED touched

-----------------------------------------------------------------------------
(* Copy and paste. *)

CopySelection ==
    \E S \in (SUBSET Exists(graph)) \ {{}}, T \in Selections :
        /\ clipboard' = [nodes |-> [n \in NodeIds |-> IF n \in S THEN graph.nodes[n] ELSE "absent"],
                         edges |-> T,
                         edgesTo |-> {e \in graph.edges : e.target \in S}]
        /\ UNCHANGED <<hist, form, initials, touched, saving, saved>>

\* The edge of the clipboard with the new ids of the nodes copied.
Renamed(e, name) ==
    [e EXCEPT !.source = name[@], !.target = name[@],
              !.input = IF Collapsed(e) THEN "pasted" ELSE @]

PasteSelection ==
    \E withEdges \in BOOLEAN, name \in [NodeIds -> NodeIds] :
        LET copied == {n \in NodeIds : clipboard.nodes[n] # "absent"}
            edges == clipboard.edges \cup (IF withEdges THEN clipboard.edgesTo ELSE {})
        IN  /\ copied # {}
            /\ \A n \in NodeIds : IF n \in copied THEN NewNode(name[n]) ELSE name[n] = n
            /\ Cardinality({name[n] : n \in copied}) = Cardinality(copied)
            /\ \E order \in SetToSeqs({AddChange(name[n], clipboard.nodes[n]) : n \in copied}),
                  queue \in SetToSeqs({Renamed(e, name) : e \in edges}) :
                Dispatch(order, {}, Pasted(NodesChanged(graph, order), queue).edges \ graph.edges)

-----------------------------------------------------------------------------
(* The form. *)

\* Where an element can be dropped: into a container without children or
\* beside a target that is not the root; index counts from 1.
Drops(target) ==
    (IF IsContainer(form, target) /\ form[target].children = <<>>
     THEN {[parent |-> target, index |-> 1]} ELSE {})
    \cup (IF target = Root THEN {}
          ELSE LET siblings == form[form[target].parent].children
                   at == CHOOSE k \in DOMAIN siblings : siblings[k] = target
               IN  {[parent |-> form[target].parent, index |-> at + after] : after \in 0 .. 1})

\* A new container or a field of a node is dropped on the form.
AddFormElement ==
    \E id \in ElementIds, node \in Exists(graph) \cup {None}, target \in Rendered(form) :
        \E drop \in Drops(target) :
            /\ NewElement(id)
            /\ OnForm(AddElement(form, id, Field(drop.parent, node), drop.index),
                      IF node = None THEN initials ELSE initials \cup {id})

\* A field is added from the menu of its node.
AddNodeFieldToRoot ==
    \E id \in ElementIds, node \in Exists(graph) :
        /\ NewElement(id)
        /\ OnForm(AddElement(form, id, Field(Root, node), Len(form[Root].children) + 1),
                  initials \cup {id})

\* An element is dragged onto another; it can not be dropped on its children.
MoveFormElement ==
    \E id \in Rendered(form) \ {Root}, target \in Rendered(form) \ {Root} :
        /\ target # id
        /\ form[target].parent # id
        /\ \E drop \in Drops(target) :
            IF drop.parent = form[id].parent
            THEN \E after \in 0 .. 1 :
                    OnForm([form EXCEPT ![drop.parent].children = Reordered(@, id, target, after)], initials)
            ELSE OnForm(ReparentElement(form, id, drop.parent, drop.index), initials)

\* The initial values of what a container holds are forgotten here.
RemoveFormElement ==
    \E id \in Rendered(form) \ {Root} : OnForm(RemoveElement(form, id), initials \ {id})

FormReset == OnForm(DefaultForm, initials)

-----------------------------------------------------------------------------
(* The library. *)

\* buildWorkflow reads the state when the user saves.
SaveWorkflow ==
    /\ touched
    /\ saving = None
    /\ saving' = [graph |-> graph, form |-> form]
    /\ UNCHANGED <<hist, form, initials, touched, clipboard, saved>>

\* workflowSaved and formFieldInitialValuesChanged, for the state there is now.
SaveAnswered ==
    /\ saving # None
    /\ saved' = saving
    /\ saving' = None
    /\ touched' = FALSE
    /\ initials' = InitialValues(form, graph)
    /\ UNCHANGED <<hist, form, clipboard>>

SaveFailed ==
    /\ saving # None
    /\ saving' = None
    /\ UNCHANGED <<hist, form, initials, touched, clipboard, saved>>

\* A workflow that does not parse is not loaded.
LoadWorkflow ==
    /\ saved # None
    /\ ValidForm(saved.form)
    /\ hist' = Replaced(hist, saved.graph)
    /\ form' = WithoutMissing(saved.form, Exists(saved.graph))
    /\ initials' = InitialValues(form', saved.graph)
    /\ touched' = FALSE
    /\ UNCHANGED <<clipboard, saving, saved>>

\* New workflow.
NodeEditorReset ==
    /\ hist' = Recorded(hist, EmptyGraph)
    /\ form' = DefaultForm
    /\ initials' = {}
    /\ touched' = FALSE
    /\ UNCHANGED <<clipboard, saving, saved>>

-----------------------------------------------------------------------------
EditGraph == Connect \/ Reconnect \/ Disconnect \/ AddNode \/ DeleteSelection \/ UpdateNode
             \/ NodeIsOpenChanged \/ FieldValueChanged \/ Select \/ Undo \/ Redo
             \/ CopySelection \/ PasteSelection
EditForm == AddFormElement \/ AddNodeFieldToRoot \/ MoveFormElement \/ RemoveFormElement \/ FormReset

User ==
    /\ edits < MaxEdits
    /\ edits' = edits + 1
    /\ EditGraph \/ EditForm \/ SaveWorkflow \/ LoadWorkflow \/ NodeEditorReset

Server == UNCHANGED edits /\ (SaveAnswered \/ SaveFailed)

Next == User \/ Server

Spec == Init /\ [][Next]_vars

-----------------------------------------------------------------------------
(* Properties. *)

\* Whatever is undone, redone, pasted or loaded, no edge of any state that the
\* editor has or could go back to lacks an end.
EdgesConnect == \A g \in Snapshots(hist) : Connected(g)

\* None of those states has a cycle of edges, or two edges into an input for
\* one: the server would refuse such a graph.
GraphsValid == \A g \in Snapshots(hist) : Executable(g)

\* The collapsed edge that closing a node made has closed nodes at both ends
\* and stands for a hidden edge between them, in all those states.
CollapsedStandsFor == \A g \in Snapshots(hist) : StandsFor(g)

\* Whatever is dropped where, each element of the form but the root has a
\* container for its parent which lists it, and no other container lists it.
ElementsPlaced == Placed(form)

\* When nodes are deleted or updated, a field leaves the form if and only if
\* its node leaves the graph (workflowSlice.ts:241: "node changes may remove
\* and then add the same node back").
FieldsFollowNodes ==
    [][hist' # hist /\ Fields(form) # {} /\ (DeleteSelection \/ UpdateNode) => \A id \in Fields(form) :
        (id \notin DOMAIN form') <=>
        form[id].node \in Exists(hist.present) \ Exists(hist'.present)]_vars

\* What was saved can be loaded again (types/workflow.ts:260, of a valid form:
\* "There are no extra elements in the form that are not reachable from the
\* root element").
SavedLoads == saved # None => ValidForm(saved.form)

\* A change of the selection alone adds nothing to the history
\* (nodesSlice.ts:600: "Changes to selection should never be recorded on their own").
SelectionNotRecorded == [][Select => hist'.past = hist.past]_vars
=============================================================================
