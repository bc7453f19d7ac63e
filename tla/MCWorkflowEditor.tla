-------------------------- MODULE MCWorkflowEditor --------------------------
(* Instances of WorkflowEditor for TLC. *)
EXTENDS WorkflowEditor, TLC

CONSTANTS n1, n2, x, e1, e2, e3

Blank == [graph |-> EmptyGraph, form |-> DefaultForm]

TwoNodes(state) ==
    [nodes |-> [n \in NodeIds |-> IF n \in {n1, n2} THEN state ELSE "absent"],
     edges |-> {Connection(n1, n2, x)}]

\* One node feeds another, and the form shows a field of the first.
OpenPair == [graph |-> TwoNodes("open"), form |-> AddElement(DefaultForm, e1, Field(Root, n1), 1)]

\* Both nodes are closed, and the form shows a field of the second in a
\* container in a container.
ClosedPair ==
    [graph |-> Closed(TwoNodes("open") , n1),
     form |-> LET f1 == AddElement(DefaultForm, e1, Container(Root), 1)
                  f2 == AddElement(f1, e2, Container(e1), 1)
              IN  AddElement(f2, e3, Field(e2, n2), 1)]

Persisted == {Blank, OpenPair, [ClosedPair EXCEPT !.graph = Closed(@, n2)]}
=============================================================================
