------------------------- MODULE MCSessionProcessor -------------------------
(* Instances of SessionProcessor for TLC. *)
EXTENDS SessionProcessor, TLC

CONSTANTS q1, b1, b2, d1

AppendBatch(count, nodes) ==
    [id |-> b1, queue |-> q1, dest |-> d1, vals |-> TRUE,
     count |-> count, nodes |-> nodes, prepend |-> FALSE]

Single == AppendBatch(1, 1)
Pair == AppendBatch(2, 1)
SingleOfTwo == AppendBatch(1, 2)

\* Prepended, without field values or destination, its graph empty.
Urgent == [id |-> b2, queue |-> q1, dest |-> NoDestination, vals |-> FALSE,
           count |-> 1, nodes |-> 0, prepend |-> TRUE]

Singles == {Single}
Pairs == {Pair}
SinglesOfTwo == {SingleOfTwo}
SingleAndUrgent == {Single, Urgent}

Limits(i, r, f) == [items |-> i, requests |-> r, faults |-> f]
Limits210 == Limits(2, 1, 0)
Limits212 == Limits(2, 1, 2)
Limits221 == Limits(2, 2, 1)
Limits311 == Limits(3, 1, 1)

\* Worker threads are told apart by nothing but their calls.
WorkerSymmetry == Permutations(Workers)
=============================================================================
