------------------------------ MODULE FormTree ------------------------------
(***************************************************************************)
(* The form of a workflow, a tree of elements kept as a flat record by id    *)
(* (features/nodes/components/sidePanel/builder/form-manipulation.ts), and   *)
(* what the loader asks of it (features/nodes/types/workflow.ts,             *)
(* util/workflow/validateWorkflow.ts).  Operators only: a form is a function *)
(* from the ids in use to elements.  Text, headings and dividers are left    *)
(* out: they behave like a field whose node is never removed.                *)
(***************************************************************************)
EXTENDS Naturals, SequencesExt

CONSTANTS
    NodeIds,    \* nodes of which the form shows fields
    ElementIds, \* ids of form elements other than the root
    Root,       \* the id of the root container
    None

\* node is None in a container; parent is None in the root.
Element == [parent : ElementIds \cup {Root, None}, node : NodeIds \cup {None},
            children : Seq(ElementIds)]

IsForm(form) ==
    /\ Root \in DOMAIN form /\ DOMAIN form \subseteq ElementIds \cup {Root}
    /\ form \in [DOMAIN form -> Element]

Container(parent) == [parent |-> parent, node |-> None, children |-> <<>>]
Field(parent, node) == [parent |-> parent, node |-> node, children |-> <<>>]
DefaultForm == [id \in {Root} |-> Container(None)]

IsContainer(form, id) == id \in DOMAIN form /\ form[id].node = None
Fields(form) == {id \in DOMAIN form : form[id].node # None}

\* id and what lies below it: the least set with id and its members' children.
Below(form, id) ==
    {e \in DOMAIN form : \A S \in SUBSET DOMAIN form :
        id \in S /\ (\A p \in S : DOMAIN form \cap ToSet(form[p].children) \subseteq S) => e \in S}

Rendered(form) == Below(form, Root)

\* children.filter: SelectSeq, as a function that can be reasoned about.
Without(children, dead) ==
    LET kept[k \in 0 .. Len(children)] ==
            IF k = 0 THEN <<>>
            ELSE IF children[k] \in dead THEN kept[k - 1] ELSE Append(kept[k - 1], children[k])
    IN  kept[Len(children)]

Drop(form, dead) ==
    [id \in DOMAIN form \ dead |-> [form[id] EXCEPT !.children = Without(@, dead)]]

\* removeElement, of a container with all that it holds.
RemoveElement(form, id) ==
    IF id \in DOMAIN form \ {Root} /\ IsContainer(form, form[id].parent)
    THEN Drop(form, Below(form, id))
    ELSE form

\* addElement; index counts from 1.
AddElement(form, id, element, index) ==
    IF id \in DOMAIN form \/ ~IsContainer(form, element.parent) THEN form
    ELSE [e \in DOMAIN form \cup {id} |->
             CASE e = id -> element
               [] e = element.parent -> [form[e] EXCEPT !.children = InsertAt(@, index, id)]
               [] OTHER -> form[e]]

\* Fault: the old parent keeps the element.
ReparentKeeping(form, id, newParent, index) ==
    IF id = Root \/ newParent = form[id].parent \/ ~IsContainer(form, newParent) THEN form
    ELSE [form EXCEPT ![newParent].children = InsertAt(@, index, id), ![id].parent = newParent]

\* reparentElement.
ReparentElement(form, id, newParent, index) ==
    LET oldParent == form[id].parent
    IN  IF id = Root \/ newParent = oldParent
           \/ ~IsContainer(form, oldParent) \/ ~IsContainer(form, newParent)
        THEN form
        ELSE [form EXCEPT ![newParent].children = InsertAt(@, index, id),
                          ![oldParent].children = Without(@, {id}),
                          ![id].parent = newParent]

\* The children of a container after one was moved next to another.
Reordered(children, id, target, after) ==
    LET rest == Without(children, {id})
        at == CHOOSE k \in DOMAIN rest : rest[k] = target
    IN  InsertAt(rest, at + after, id)

-----------------------------------------------------------------------------
(* What a form must be. *)

\* Each element but the root has a container for its parent which lists it
\* once, and no other container lists it.
Placed(form) ==
    \A id \in DOMAIN form \ {Root} :
        /\ IsContainer(form, form[id].parent)
        /\ \A e \in DOMAIN form :
            Cardinality({k \in DOMAIN form[e].children : form[e].children[k] = id})
                = IF e = form[id].parent THEN 1 ELSE 0

-----------------------------------------------------------------------------
(* Loading. *)

\* An element is linked: its parent is a container of the form and lists it.
Linked(form, id) ==
    IF id = Root THEN form[id].parent = None
    ELSE IsContainer(form, form[id].parent) /\ id \in ToSet(form[form[id].parent].children)

\* validateFormStructure.
ValidForm(form) ==
    /\ IsContainer(form, Root)
    /\ Rendered(form) = DOMAIN form
    /\ \A id \in DOMAIN form : Linked(form, id) /\ ToSet(form[id].children) \subseteq DOMAIN form

\* The end of validateWorkflow: fields of nodes that the workflow does not
\* have are deleted, and stay children of their parents.
WithoutMissing(form, nodes) ==
    [id \in {e \in DOMAIN form : form[e].node \in nodes \cup {None}} |-> form[id]]
=============================================================================
