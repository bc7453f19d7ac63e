-------------------------- MODULE MCGraphExecution --------------------------
(* Source graphs for GraphExecution. *)
EXTENDS GraphExecution

Small == UNION {ValidGraphs(n) : n \in 0 .. 4}

Graph(kinds, edges) == [kind |-> kinds, edges |-> edges]

\* collection -> iterate -> node -> node -> collect
Map == Graph(<<"node", "iterate", "node", "node", "collect">>,
             {<<1, 2>>, <<2, 3>>, <<3, 4>>, <<4, 5>>})

\* Two iterations over one collection, and a node under both.
Product == Graph(<<"node", "iterate", "iterate", "node", "node">>,
                 {<<1, 2>>, <<1, 3>>, <<2, 4>>, <<3, 4>>, <<4, 5>>, <<2, 5>>})

\* A product of an iteration and of what another one was mapped to.
Cross == Graph(<<"node", "iterate", "iterate", "node", "node">>,
               {<<1, 2>>, <<1, 3>>, <<2, 4>>, <<4, 5>>, <<3, 5>>})

\* The collected results of one iteration are used in another one.
Reuse == Graph(<<"node", "iterate", "node", "collect", "node", "iterate", "node">>,
               {<<1, 2>>, <<2, 3>>, <<3, 4>>, <<1, 6>>, <<4, 7>>, <<6, 7>>, <<1, 5>>})

\* An iteration over what another one collected.
Chain == Graph(<<"node", "iterate", "collect", "iterate", "node">>,
               {<<1, 2>>, <<2, 3>>, <<3, 4>>, <<4, 5>>})

\* Two iterations over collections of their own.
Parallel == Graph(<<"node", "node", "iterate", "iterate", "node", "node">>,
                  {<<1, 3>>, <<2, 4>>, <<3, 5>>, <<4, 6>>})

\* An iteration in an iteration, and two nodes in a row under both.
Nested == Graph(<<"node", "iterate", "node", "iterate", "node", "node">>,
                {<<1, 2>>, <<2, 3>>, <<3, 4>>, <<4, 5>>, <<5, 6>>})

\* A node that compares an element with all, and a node behind it.
Mixed == Graph(<<"node", "iterate", "collect", "node", "node">>,
               {<<1, 2>>, <<2, 3>>, <<2, 4>>, <<3, 4>>, <<4, 5>>})

Shapes == Small \cup {Map, Product, Cross, Reuse, Chain, Parallel, Nested, Mixed}
Parallels == {Parallel}
Nestings == {Nested}
Mixtures == {Mixed}
=============================================================================
