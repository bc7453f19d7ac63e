------------------------ MODULE GraphExecutionProofs ------------------------
(***************************************************************************)
(* Theorems about GraphExecution, for any source graphs and any length of   *)
(* collections.                                                             *)
(***************************************************************************)
EXTENDS GraphExecution, RecursionFacts, FiniteSetTheorems, TLAPS

USE GraphExecutionAssumption

-----------------------------------------------------------------------------
(* Sequences. *)

LEMMA FunctionSeq ==
    ASSUME NEW S, NEW k \in Nat, NEW s \in [1 .. k -> S]
    PROVE  s \in Seq(S) /\ Len(s) = k
  OBVIOUS

LEMMA ConcatSeq ==
    ASSUME NEW S, NEW s \in Seq(S), NEW r \in Seq(S)
    PROVE  /\ s \o r \in Seq(S)
           /\ DOMAIN (s \o r) = 1 .. Len(s) + Len(r)
           /\ \A i \in 1 .. Len(s) : (s \o r)[i] = s[i]
           /\ \A i \in Len(s) + 1 .. Len(s) + Len(r) : (s \o r)[i] = r[i - Len(s)]
  OBVIOUS

-----------------------------------------------------------------------------
(* The source graph. *)

\* Nodes are numbered in topological order, and an iterate node has one input.
LEMMA GraphFacts ==
    ASSUME graph \in Graphs
    PROVE  /\ Nodes \subseteq Nat
           /\ \A n \in Nodes : Kind(n) \in Kinds
           /\ \A n \in Nodes : \A m \in 1 .. n : m \in Nodes
           /\ \A n \in Nodes : \A p \in Parents(n) : p \in Nodes /\ p >= 1 /\ p < n
           /\ \A n \in Nodes : Kind(n) = "iterate" => \E p : Parents(n) = {p}
  <1> DEFINE k == Cardinality(DOMAIN graph.kind)
  <1>1. k \in Nat
    BY FS_CardinalityType
  <1>2. graph \in ValidGraphs(k)
    OBVIOUS
  <1> HIDE DEF k
  <1>3. Nodes = 1 .. k /\ graph.kind \in [1 .. k -> Kinds]
    BY <1>2 DEF ValidGraphs, Nodes
  <1>4. \A n \in Nodes : Parents(n) = {e[1] : e \in {d \in graph.edges : d[2] = n}}
    <2> SUFFICES ASSUME NEW n \in Nodes
                 PROVE  Parents(n) = {e[1] : e \in {d \in graph.edges : d[2] = n}}
      OBVIOUS
    <2>1. \A d \in graph.edges : d = <<d[1], d[2]>> /\ d[1] \in Nodes
      BY <1>2, <1>3 DEF ValidGraphs
    <2> QED BY <2>1 DEF Parents
  <1>5. \A n \in Nodes : \A p \in Parents(n) : p \in Nodes /\ p >= 1 /\ p < n
    BY <1>1, <1>2, <1>3 DEF ValidGraphs, Parents
  <1>6. ASSUME NEW n \in Nodes, Kind(n) = "iterate"
        PROVE  \E p : Parents(n) = {p}
    <2>1. Cardinality(Parents(n)) = 1
      BY <1>2, <1>3, <1>4, <1>6 DEF ValidGraphs, Kind
    <2>2. IsFiniteSet(Parents(n))
      BY <1>1, <1>3, FS_Interval, FS_Subset DEF Parents
    <2> QED BY <2>1, <2>2, FS_Singleton
  <1>7. Nodes \subseteq Nat /\ \A n \in Nodes : \A m \in 1 .. n : m \in Nodes
    BY <1>1, <1>3
  <1>8. \A n \in Nodes : Kind(n) \in Kinds
    BY <1>3 DEF Kind
  <1> QED BY <1>5, <1>6, <1>7, <1>8

\* What is above a parent is above its child, and so is the parent.
LEMMA AncestorsFacts ==
    ASSUME NEW n \in Nodes, NEW p \in Parents(n)
    PROVE  p \in Ancestors(n) /\ Ancestors(p) \subseteq Ancestors(n)
  BY DEF Ancestors, Parents

\* Every copy in the execution graph has the parts of a copy.
LEMMA CopyFacts ==
    ASSUME TypeOK
    PROVE  /\ Copies = 1 .. Len(copies) /\ Len(copies) \in Nat
           /\ \A c \in Copies : /\ copies[c].source \in Nodes
                                /\ copies[c].index \in Nat
                                /\ copies[c].inputs \subseteq Copies
                                /\ copies[c].under \subseteq Copies
           /\ \A n : CopiesOf(n) \subseteq Copies
  <1> DEFINE Copy == [source : Nodes, index : Nat, inputs : SUBSET Copies, under : SUBSET Copies]
  <1>1. copies \in Seq(Copy)
    BY DEF TypeOK
  <1>2. \A r \in Copy : /\ r.source \in Nodes /\ r.index \in Nat
                        /\ r.inputs \subseteq Copies /\ r.under \subseteq Copies
    OBVIOUS
  <1> HIDE DEF Copy
  <1>3. Copies = 1 .. Len(copies) /\ Len(copies) \in Nat
    BY <1>1 DEF Copies
  <1>4. \A c \in Copies : copies[c] \in Copy
    BY <1>1, <1>3
  <1>5. \A n : CopiesOf(n) \subseteq Copies
    BY DEF CopiesOf
  <1> QED BY <1>2, <1>3, <1>4, <1>5

\* The first node that _prepare may take has parents with copies: a node
\* without is held up by an iterate node above it, which then holds up both.
LEMMA FirstPreparable ==
    ASSUME TypeOK, FinishedMeansAll, NEW n \in Nodes, IsPreparable(n),
           \A m \in 1 .. n - 1 : ~IsPreparable(m)
    PROVE  \A p \in Parents(n) : Prepared(p)
  <1> SUFFICES ASSUME NEW p \in Parents(n), ~Prepared(p) PROVE FALSE
    OBVIOUS
  <1>1. p \in Nodes /\ ~IsPreparable(p)
    BY GraphFacts DEF TypeOK
  <1>2. p \in Ancestors(n) /\ Ancestors(p) \subseteq Ancestors(n)
    BY AncestorsFacts
  <1>3. CASE Kind(p) = "iterate"
    BY <1>1, <1>2, <1>3 DEF IsPreparable, FinishedMeansAll
  <1>4. CASE \E a \in Ancestors(p) : Kind(a) = "iterate" /\ a \notin finished
    BY <1>2, <1>4 DEF IsPreparable
  <1> QED BY <1>1, <1>3, <1>4 DEF IsPreparable

-----------------------------------------------------------------------------
(* The expansion of one node. *)

\* A combination is a set of copies, and so is what a copy gets as inputs.
LEMMA CombinationsFacts ==
    ASSUME TypeOK, NEW n \in Nodes
    PROVE  \A under \in Combinations(n) : under \subseteq Copies
  BY DEF Combinations

LEMMA InputsFacts ==
    ASSUME TypeOK, NEW t, t.source \in Nodes, NEW inputs \in Inputs(t)
    PROVE  /\ inputs \subseteq Copies
           /\ Kind(t.source) = "collect" =>
                inputs = UNION {CopiesOf(p) : p \in Parents(t.source)}
           /\ Kind(t.source) = "iterate" =>
                \E p \in Parents(t.source) : \E c \in CopiesOf(p) : inputs = {c}
  <1>1. CASE Kind(t.source) = "collect"
    BY <1>1 DEF Inputs, CopiesOf
  <1>2. CASE Kind(t.source) # "collect"
    <2>1. PICK f \in [Parents(t.source) -> Copies] :
            /\ \A p \in Parents(t.source) : f[p] \in IterationNodes(p, t.under)
            /\ inputs = {f[p] : p \in Parents(t.source)}
      BY <1>2 DEF Inputs
    <2>2. inputs \subseteq Copies
      BY <2>1
    <2>3. ASSUME Kind(t.source) = "iterate"
          PROVE  \E p \in Parents(t.source) : \E c \in CopiesOf(p) : inputs = {c}
      <3>1. PICK p : Parents(t.source) = {p}
        BY <2>3, GraphFacts DEF TypeOK
      <3>2. f[p] \in CopiesOf(p)
        BY <2>1, <3>1 DEF IterationNodes
      <3>3. inputs = {f[p]}
        BY <2>1, <3>1
      <3> QED BY <3>1, <3>2, <3>3
    <2> QED BY <1>2, <2>2, <2>3
  <1> QED BY <1>1, <1>2

-----------------------------------------------------------------------------
(* The steps. *)

LEMMA GraphUnchanged ==
    ASSUME graph' = graph
    PROVE  /\ Nodes' = Nodes
           /\ \A n : Kind(n)' = Kind(n)
           /\ \A n : Parents(n)' = Parents(n)
  BY DEF Nodes, Kind, Parents

LEMMA InitIInv == Init => IInv
  <1> SUFFICES ASSUME Init PROVE IInv
    OBVIOUS
  <1>1. Copies = {} /\ Executed = {} /\ \A n : CopiesOf(n) = {}
    BY DEF Init, Copies, Executed, CopiesOf
  <1>2. TypeOK
    <2> DEFINE Copy == [source : Nodes, index : Nat, inputs : SUBSET Copies,
                        under : SUBSET Copies]
    <2>1. <<>> \in Seq(Copy)
      OBVIOUS
    <2>2. results \in [Executed -> Nat]
      <3>1. results = [x \in {} |-> 0]
        BY DEF Init
      <3> QED BY <1>1, <3>1
    <2> QED BY <1>1, <2>1, <2>2 DEF Init, TypeOK
  <1> QED
    BY <1>1, <1>2 DEF Init, IInv, FinishedMeansAll, CollectsAll, RunsReady, Preparing,
                      ParentsWhole, IterateInputs, Prepared

\* A step of the runner that leaves the execution graph as it is.
LEMMA ControlStep ==
    ASSUME IInv, UNCHANGED <<graph, copies, results, finished>>,
           failed' \in BOOLEAN, node' \in Copies \cup {0},
           pc' \in {"next", "prepare", "prepared", "run", "end", "raised"},
           todo' = {}, RunsReady'
    PROVE  IInv'
  <1>1. /\ Copies' = Copies /\ Executed' = Executed
        /\ \A n : CopiesOf(n)' = CopiesOf(n) /\ Prepared(n)' = Prepared(n)
        /\ \A c : IsIterate(c)' = IsIterate(c)
    BY GraphUnchanged DEF IInv, Copies, Executed, CopiesOf, Prepared, IsIterate
  <1>2. TypeOK'
    BY <1>1, GraphUnchanged DEF IInv, TypeOK
  <1>3. FinishedMeansAll' /\ CollectsAll' /\ IterateInputs'
    BY <1>1, GraphUnchanged DEF IInv, FinishedMeansAll, CollectsAll, IterateInputs
  <1>4. Preparing'
    BY DEF Preparing
  <1>5. ParentsWhole'
    BY <1>1, GraphUnchanged DEF IInv, ParentsWhole, Whole
  <1> QED BY <1>2, <1>3, <1>4, <1>5 DEF IInv

\* Prepare: a new source node to copy, all of whose parents are copied.
LEMMA PrepareStep ==
    ASSUME IInv, Prepare
    PROVE  IInv'
  <1>1. PICK n \in Nodes :
          /\ IsPreparable(n)
          /\ \A m \in 1 .. n - 1 : ~IsPreparable(m)
          /\ todo' = [source : {n},
                      under : IF Kind(n) = "collect" THEN {{}} ELSE Combinations(n)]
    BY DEF Prepare
  <1>2. /\ todo = {} /\ pc = "prepare"
        /\ UNCHANGED <<graph, copies, results, finished, failed, pc, node>>
    BY DEF Prepare
  <1>3. /\ Copies' = Copies /\ Executed' = Executed
        /\ \A m : CopiesOf(m)' = CopiesOf(m) /\ Prepared(m)' = Prepared(m)
        /\ \A c : IsIterate(c)' = IsIterate(c)
    BY <1>2, GraphUnchanged DEF Copies, Executed, CopiesOf, Prepared, IsIterate
  <1>4. \A t \in todo' : t.source = n /\ t.under \subseteq Copies
    BY <1>1, CombinationsFacts DEF IInv
  <1>5. TypeOK'
    <2>1. todo' \subseteq [source : Nodes, under : SUBSET Copies]
      BY <1>1, CombinationsFacts DEF IInv
    <2> QED BY <1>2, <1>3, <2>1, GraphUnchanged DEF IInv, TypeOK
  <1>6. FinishedMeansAll' /\ CollectsAll' /\ IterateInputs'
    BY <1>2, <1>3, GraphUnchanged DEF IInv, FinishedMeansAll, CollectsAll, IterateInputs
  <1>7. Preparing'
    <2>1. n \notin finished
      BY <1>1 DEF IInv, IsPreparable, FinishedMeansAll
    <2> QED BY <1>1, <1>2, <1>4, <2>1, GraphUnchanged DEF IsPreparable, Preparing
  <1>8. ParentsWhole'
    <2>1. \A p \in Parents(n) : Prepared(p) /\ p # n
      BY <1>1, FirstPreparable, GraphFacts DEF IInv, TypeOK
    <2>2. ~Prepared(n)
      BY <1>1 DEF IsPreparable
    <2>3. \A c \in Copies : \A p \in Parents(copies[c].source) : Prepared(p) /\ p # n
      BY <2>2 DEF IInv, ParentsWhole, Whole
    <2> QED BY <1>2, <1>3, <1>4, <2>1, <2>3, GraphUnchanged DEF ParentsWhole, Whole
  <1>9. RunsReady'
    BY <1>2 DEF RunsReady
  <1> QED BY <1>5, <1>6, <1>7, <1>8, <1>9 DEF IInv

\* _create_execution_node: what it adds to the execution graph.
LEMMA CreateFacts ==
    ASSUME IInv, NEW t \in todo, NEW inputs \in Inputs(t),
           graph' = graph, results' = results,
           copies' = copies \o NewCopies(t, inputs)
    PROVE  /\ inputs \subseteq Copies
           /\ Count(t, inputs) \in Nat
           /\ Kind(t.source) = "iterate" => /\ inputs \subseteq Executed
                                            /\ \A i \in inputs : results[i] = Count(t, inputs)
           /\ Copies \subseteq Copies'
           /\ \A c \in Copies : copies'[c] = copies[c]
           /\ \A c \in Copies' \ Copies : /\ copies'[c].source = t.source
                                         /\ copies'[c].index < Count(t, inputs)
                                         /\ copies'[c].inputs = inputs
                                         /\ copies'[c].under = t.under
           /\ Copies = 1 .. Len(copies) /\ Len(copies) \in Nat
           /\ Copies' = 1 .. Len(copies) + Count(t, inputs)
           /\ copies' \in Seq([source : Nodes, index : Nat, inputs : SUBSET Copies',
                               under : SUBSET Copies'])
  <1> DEFINE k == Count(t, inputs)
             new == NewCopies(t, inputs)
             Copy == [source : Nodes, index : Nat, inputs : SUBSET Copies,
                      under : SUBSET Copies]
             CopyAfter == [source : Nodes, index : Nat, inputs : SUBSET Copies',
                           under : SUBSET Copies']
  <1>1. t.source \in Nodes /\ t.under \subseteq Copies /\ TypeOK
    BY DEF IInv, TypeOK
  <1>2. inputs \subseteq Copies
    BY <1>1, InputsFacts
  <1>3. /\ k \in Nat
        /\ Kind(t.source) = "iterate" => inputs \subseteq Executed /\ \A i \in inputs : results[i] = k
    <2>1. CASE Kind(t.source) = "iterate"
      <3>1. PICK p \in Parents(t.source) : \E c \in CopiesOf(p) : inputs = {c}
        BY <1>1, <2>1, InputsFacts
      <3>2. PICK c \in CopiesOf(p) : inputs = {c}
        BY <3>1
      <3>3. p \in finished /\ p \in Nodes
        BY <2>1 DEF IInv, Preparing, Parents
      <3>4. c \in Executed
        BY <3>2, <3>3 DEF IInv, FinishedMeansAll
      <3>5. results[c] \in Nat
        BY <1>1, <3>4 DEF TypeOK
      <3> QED BY <2>1, <3>2, <3>4, <3>5 DEF Count
    <2>2. CASE Kind(t.source) # "iterate"
      BY <2>2 DEF Count
    <2> QED BY <2>1, <2>2
  <1>4. copies' = copies \o new
    OBVIOUS
  <1> HIDE DEF k
  <1>5. copies \in Seq(Copy) /\ Copies = 1 .. Len(copies) /\ Len(copies) \in Nat
    BY <1>1, CopyFacts DEF TypeOK
  <1>6. \A i \in 1 .. k : i - 1 \in Nat
    BY <1>3
  <1>7. new \in Seq(Copy) /\ Len(new) = k
    <2>1. \A i \in 1 .. k : new[i] \in Copy
      BY <1>1, <1>2, <1>6 DEF NewCopies, k
    <2>2. new \in [1 .. k -> Copy]
      BY <2>1 DEF NewCopies, k
    <2> HIDE DEF new, Copy
    <2> QED BY <1>3, <2>2, FunctionSeq
  <1> HIDE DEF Copy, new
  <1>8. /\ copies' \in Seq(Copy) /\ DOMAIN copies' = 1 .. Len(copies) + k
        /\ \A c \in 1 .. Len(copies) : copies'[c] = copies[c]
        /\ \A c \in Len(copies) + 1 .. Len(copies) + k : copies'[c] = new[c - Len(copies)]
    <2>1. /\ copies' \in Seq(Copy) /\ DOMAIN copies' = 1 .. Len(copies) + Len(new)
          /\ \A c \in 1 .. Len(copies) : copies'[c] = copies[c]
          /\ \A c \in Len(copies) + 1 .. Len(copies) + Len(new) : copies'[c] = new[c - Len(copies)]
      <3>1. copies \in Seq(Copy) /\ new \in Seq(Copy)
        BY <1>5, <1>7
      <3>2. /\ copies \o new \in Seq(Copy)
            /\ DOMAIN (copies \o new) = 1 .. Len(copies) + Len(new)
            /\ \A c \in 1 .. Len(copies) : (copies \o new)[c] = copies[c]
            /\ \A c \in Len(copies) + 1 .. Len(copies) + Len(new) :
                  (copies \o new)[c] = new[c - Len(copies)]
        BY <3>1, ConcatSeq, Zenon
      <3> QED BY <1>4, <3>2, Zenon
    <2> QED BY <1>7, <2>1, Zenon
  <1>9. Copies' = 1 .. Len(copies) + k
    BY <1>8 DEF Copies
  <1>10. Copies \subseteq Copies' /\ \A c \in Copies' \ Copies : c \in Len(copies) + 1 .. Len(copies) + k
    BY <1>3, <1>5, <1>9
  <1>11. \A c \in Copies' \ Copies : /\ copies'[c].source = t.source
                                    /\ copies'[c].index < k
                                    /\ copies'[c].inputs = inputs
                                    /\ copies'[c].under = t.under
    <2>1. \A i \in 1 .. k : /\ new[i].source = t.source /\ new[i].index < k
                            /\ new[i].inputs = inputs /\ new[i].under = t.under
      BY <1>3 DEF new, NewCopies, k
    <2>2. \A c \in Len(copies) + 1 .. Len(copies) + k : c - Len(copies) \in 1 .. k
      BY <1>3, <1>5
    <2>3. \A c \in Copies' \ Copies : c - Len(copies) \in 1 .. k /\ copies'[c] = new[c - Len(copies)]
      BY <1>8, <1>10, <2>2, Zenon
    <2> QED BY <2>1, <2>3, Zenon
  <1>12. copies' \in Seq(CopyAfter)
    <2>1. \A r \in Copy : r \in CopyAfter
      BY <1>10 DEF Copy
    <2> HIDE DEF CopyAfter
    <2> QED BY <1>8, <2>1
  <1> QED BY <1>2, <1>3, <1>5, <1>8, <1>9, <1>10, <1>11, <1>12 DEF k

\* CreateExecutionNode: what is new is copies of n, which is not executed, and
\* which no copied node has for a parent.
LEMMA CreateStep ==
    ASSUME IInv, CreateExecutionNode
    PROVE  IInv'
  <1>1. PICK t \in todo : t = CHOOSE x \in todo : TRUE
    BY DEF CreateExecutionNode
  <1>2. PICK inputs \in Inputs(t) : copies' = copies \o NewCopies(t, inputs)
    BY <1>1 DEF CreateExecutionNode
  <1>3. /\ todo' = todo \ {t}
        /\ pc' \in {"prepare", "prepared"} /\ (todo' # {} => pc' = "prepare")
        /\ UNCHANGED <<graph, results, finished, failed, node>>
    BY <1>1 DEF CreateExecutionNode
  <1>4. /\ inputs \subseteq Copies
        /\ Kind(t.source) = "iterate" => /\ inputs \subseteq Executed
                                         /\ \A i \in inputs : results[i] = Count(t, inputs)
        /\ Copies \subseteq Copies'
        /\ \A c \in Copies : copies'[c] = copies[c]
        /\ \A c \in Copies' \ Copies : /\ copies'[c].source = t.source
                                      /\ copies'[c].index < Count(t, inputs)
                                      /\ copies'[c].inputs = inputs
                                      /\ copies'[c].under = t.under
        /\ copies' \in Seq([source : Nodes, index : Nat, inputs : SUBSET Copies',
                            under : SUBSET Copies'])
    <2>1. graph' = graph /\ results' = results
      BY <1>3
    <2>2. t \in todo /\ inputs \in Inputs(t) /\ copies' = copies \o NewCopies(t, inputs)
      BY <1>1, <1>2
    <2> QED BY <2>1, <2>2, CreateFacts, Zenon
  <1> PICK n : n = t.source
    OBVIOUS
  <1>5. /\ n \in Nodes /\ n \notin finished
        /\ \A p \in Parents(n) : p # n
        /\ \A p \in Parents(n) : Prepared(p)
        /\ \A c \in Copies : n \notin Parents(copies[c].source)
    BY <1>1, GraphFacts DEF IInv, TypeOK, Preparing, ParentsWhole, Whole
  <1>6. Kind(n) = "collect" => inputs = UNION {CopiesOf(p) : p \in Parents(n)}
    BY <1>5, InputsFacts DEF IInv
  <1>7. Executed' = Executed /\ Executed \subseteq Copies
    BY <1>3 DEF IInv, TypeOK, Executed
  <1>8. /\ \A m : m # n => CopiesOf(m)' = CopiesOf(m)
        /\ CopiesOf(n)' = CopiesOf(n) \cup (Copies' \ Copies)
    BY <1>4 DEF CopiesOf
  <1>9. \A m : Prepared(m) => Prepared(m)'
    BY <1>8 DEF Prepared
  <1>10. /\ \A c \in Copies : copies[c].source \in Nodes /\ (IsIterate(c)' <=> IsIterate(c))
         /\ \A c \in Copies' \ Copies : IsIterate(c)' <=> Kind(n) = "iterate"
    BY <1>3, <1>4, GraphUnchanged, CopyFacts DEF IsIterate, IInv
  <1>11. TypeOK'
    <2>1. ASSUME NEW c \in Copies', IsIterate(c)', NEW i \in copies'[c].inputs
          PROVE  copies'[c].index < results'[i]
      <3>1. CASE c \in Copies
        BY <1>3, <1>4, <1>10, <2>1, <3>1 DEF IInv, TypeOK
      <3>2. CASE c \notin Copies
        <4>1. i \in inputs /\ copies'[c].index < Count(t, inputs)
          BY <1>4, <2>1, <3>2
        <4> QED BY <1>3, <1>4, <1>10, <2>1, <3>2, <4>1
      <3> QED BY <3>1, <3>2
    <2>2. todo' \subseteq [source : Nodes', under : SUBSET Copies']
      BY <1>3, <1>4, GraphUnchanged DEF IInv, TypeOK
    <2>3. results' \in [Executed' -> Nat] /\ Executed' \subseteq Copies'
      BY <1>3, <1>4, <1>7 DEF IInv, TypeOK
    <2>4. graph' \in Graphs /\ finished' \subseteq Nodes' /\ failed' \in BOOLEAN
          /\ pc' \in {"next", "prepare", "prepared", "run", "end", "raised"}
          /\ node' \in Copies' \cup {0}
      BY <1>3, <1>4, GraphUnchanged DEF IInv, TypeOK
    <2> QED BY <1>3, <1>4, <2>1, <2>2, <2>3, <2>4, GraphUnchanged DEF TypeOK
  <1>12. FinishedMeansAll'
    <2> SUFFICES ASSUME NEW m \in Nodes
                 PROVE  m \in finished <=> Prepared(m)' /\ CopiesOf(m)' \subseteq Executed
      BY <1>3, <1>7, GraphUnchanged DEF FinishedMeansAll
    <2>1. CASE m # n
      BY <1>8, <2>1 DEF IInv, FinishedMeansAll, Prepared
    <2>2. CASE m = n
      <3>1. m \notin finished /\ ~(Prepared(m) /\ CopiesOf(m) \subseteq Executed)
        BY <1>5, <2>2 DEF IInv, FinishedMeansAll
      <3>2. CASE Copies' \ Copies = {}
        BY <1>8, <2>2, <3>1, <3>2 DEF Prepared
      <3>3. CASE Copies' \ Copies # {}
        BY <1>7, <1>8, <2>2, <3>1, <3>3
      <3> QED BY <3>2, <3>3
    <2> QED BY <2>1, <2>2
  <1>13. CollectsAll'
    <2> SUFFICES ASSUME NEW c \in Copies', Kind(copies'[c].source) = "collect"
                 PROVE  copies'[c].inputs = UNION {CopiesOf(p)' : p \in Parents(copies'[c].source)}
      BY <1>3, GraphUnchanged DEF CollectsAll
    <2>1. CASE c \in Copies
      <3>1. \A p \in Parents(copies[c].source) : CopiesOf(p)' = CopiesOf(p)
        BY <1>5, <1>8, <2>1
      <3> QED BY <1>4, <2>1, <3>1 DEF IInv, CollectsAll
    <2>2. CASE c \notin Copies
      <3>1. \A p \in Parents(n) : CopiesOf(p)' = CopiesOf(p)
        BY <1>5, <1>8
      <3>2. copies'[c].source = n /\ copies'[c].inputs = inputs
        BY <1>4, <2>2
      <3> QED BY <1>6, <3>1, <3>2
    <2> QED BY <2>1, <2>2
  <1>14. RunsReady'
    BY <1>3 DEF RunsReady
  <1>15. Preparing'
    BY <1>3, GraphUnchanged DEF IInv, Preparing
  <1>16. ParentsWhole'
    <2>1. \A m \in Nodes : Whole(m) => Whole(m)'
      BY <1>3, <1>9, GraphUnchanged DEF Whole
    <2>2. Whole(n)
      BY <1>1 DEF IInv, ParentsWhole
    <2>3. \A c \in Copies' : copies'[c].source = n \/ (c \in Copies /\ copies'[c] = copies[c])
      BY <1>4
    <2>4. \A x \in todo : x.source \in Nodes /\ Whole(x.source)
      BY DEF IInv, ParentsWhole, TypeOK
    <2>5. \A c \in Copies : Whole(copies[c].source)
      BY DEF IInv, ParentsWhole
    <2> QED BY <1>3, <1>5, <1>10, <2>1, <2>2, <2>3, <2>4, <2>5 DEF ParentsWhole
  <1>17. IterateInputs'
    BY <1>4, <1>7, <1>10 DEF IInv, IterateInputs
  <1> QED BY <1>11, <1>12, <1>13, <1>14, <1>15, <1>16, <1>17 DEF IInv

\* complete: the running copy is executed, and its source node if it was the last.
LEMMA CompleteStep ==
    ASSUME IInv, Complete
    PROVE  IInv'
  <1>1. /\ pc = "run" /\ node \in Copies /\ node \notin Executed /\ TypeOK
        /\ todo = {}
    BY DEF IInv, Complete, RunsReady, Preparing
  <1>2. PICK n \in Nodes : n = copies[node].source
    BY <1>1, CopyFacts
  <1>3. PICK len \in Lengths(n) :
          results' = [c \in Executed \cup {node} |-> IF c = node THEN len ELSE results[c]]
    BY <1>2 DEF Complete
  <1>4. /\ finished' = finished \cup (IF AllExecuted(n) THEN {n} ELSE {})
        /\ pc' \in {"next", "end"} /\ node' = 0
        /\ UNCHANGED <<graph, copies, failed, todo>>
    BY <1>2 DEF Complete
  <1>5. len \in Nat
    <2>1. Cardinality(copies[node].inputs) \in Nat
      <3>1. IsFiniteSet(Copies)
        BY <1>1, CopyFacts, FS_Interval
      <3>2. copies[node].inputs \subseteq Copies
        BY <1>1, CopyFacts
      <3> QED BY <3>1, <3>2, FS_Subset, FS_CardinalityType
    <2> QED BY <1>3, <2>1 DEF Lengths
  <1>6. /\ Copies' = Copies /\ Executed' = Executed \cup {node}
        /\ \A m : CopiesOf(m)' = CopiesOf(m) /\ Prepared(m)' = Prepared(m)
        /\ \A c : IsIterate(c)' = IsIterate(c)
        /\ \A c \in Executed : results'[c] = results[c]
    BY <1>1, <1>3, <1>4, GraphUnchanged DEF Copies, Executed, CopiesOf, Prepared, IsIterate
  <1>7. TypeOK'
    <2>1. results' \in [Executed' -> Nat] /\ Executed' \subseteq Copies'
      <3>1. \A c \in Executed : results[c] \in Nat
        BY <1>1 DEF TypeOK
      <3>2. Executed \subseteq Copies
        BY <1>1 DEF TypeOK
      <3> QED BY <1>1, <1>3, <1>5, <1>6, <3>1, <3>2
    <2>2. \A c \in Copies' : IsIterate(c)' =>
             \A i \in copies'[c].inputs : copies'[c].index < results'[i]
      BY <1>4, <1>6 DEF IInv, IterateInputs, TypeOK
    <2> QED BY <1>1, <1>2, <1>4, <1>6, <2>1, <2>2, GraphUnchanged DEF TypeOK
  <1>8. FinishedMeansAll'
    <2> SUFFICES ASSUME NEW m \in Nodes
                 PROVE  m \in finished' <=>
                          Prepared(m) /\ CopiesOf(m) \subseteq Executed \cup {node}
      BY <1>4, <1>6, GraphUnchanged DEF FinishedMeansAll
    <2>1. m \in finished <=> Prepared(m) /\ CopiesOf(m) \subseteq Executed
      BY DEF IInv, FinishedMeansAll
    <2>2. CASE m # n
      <3>1. node \notin CopiesOf(m)
        BY <1>2, <2>2 DEF CopiesOf
      <3> QED BY <1>4, <2>1, <2>2, <3>1
    <2>3. CASE m = n
      <3>1. node \in CopiesOf(m)
        BY <1>1, <1>2, <2>3 DEF CopiesOf
      <3> QED BY <1>4, <2>1, <2>3, <3>1 DEF Prepared, AllExecuted
    <2> QED BY <2>2, <2>3
  <1>9. CollectsAll'
    BY <1>4, <1>6, GraphUnchanged DEF IInv, CollectsAll
  <1>10. RunsReady' /\ Preparing'
    BY <1>1, <1>4 DEF RunsReady, Preparing
  <1>11. ParentsWhole'
    BY <1>1, <1>4, <1>6, GraphUnchanged DEF IInv, ParentsWhole, Whole
  <1>12. IterateInputs'
    BY <1>4, <1>6 DEF IInv, IterateInputs
  <1> QED BY <1>7, <1>8, <1>9, <1>10, <1>11, <1>12 DEF IInv

-----------------------------------------------------------------------------
(* The theorems. *)

LEMMA StepIInv == IInv /\ [Next]_vars => IInv'
  <1> SUFFICES ASSUME IInv, [Next]_vars PROVE IInv'
    OBVIOUS
  <1>1. /\ failed \in BOOLEAN /\ node \in Copies \cup {0}
        /\ pc \in {"next", "prepare", "prepared", "run", "end", "raised"}
        /\ todo # {} => pc = "prepare"
    BY DEF IInv, TypeOK, Preparing
  <1>2. ASSUME NEW c \in Copies, GetNextNode(c) PROVE IInv'
    <2>1. c \notin Executed
      BY <1>2 DEF GetNextNode, IsNextNode, Ready
    <2>2. RunsReady'
      BY <1>2, <2>1 DEF GetNextNode, RunsReady, Copies, Executed
    <2> QED BY <1>1, <1>2, <2>2, ControlStep DEF GetNextNode
  <1>3. CASE NothingReady
    BY <1>1, <1>3, ControlStep DEF NothingReady, RunsReady
  <1>4. CASE Prepare
    BY <1>4, PrepareStep
  <1>5. CASE NothingPreparable
    BY <1>1, <1>5, ControlStep DEF NothingPreparable, RunsReady
  <1>6. CASE CreateExecutionNode
    BY <1>6, CreateStep
  <1>7. CASE CreateExecutionNodeRaises
    BY <1>1, <1>7, ControlStep DEF CreateExecutionNodeRaises, RunsReady
  <1>8. CASE NoNext
    BY <1>1, <1>8, ControlStep DEF NoNext, RunsReady
  <1>9. CASE Complete
    BY <1>9, CompleteStep
  <1>10. CASE SetNodeError
    BY <1>1, <1>10, ControlStep DEF SetNodeError, RunsReady
  <1>11. CASE UNCHANGED vars
    <2>1. UNCHANGED <<graph, copies, results, finished, failed, pc, node, todo>>
      BY <1>11 DEF vars
    <2>2. /\ Copies' = Copies /\ Executed' = Executed
          /\ \A n : CopiesOf(n)' = CopiesOf(n) /\ Prepared(n)' = Prepared(n)
          /\ \A c : IsIterate(c)' = IsIterate(c)
      BY <2>1, GraphUnchanged DEF Copies, Executed, CopiesOf, Prepared, IsIterate
    <2>3. TypeOK'
      BY <2>1, <2>2, GraphUnchanged DEF IInv, TypeOK
    <2>4. FinishedMeansAll' /\ CollectsAll' /\ IterateInputs'
      BY <2>1, <2>2, GraphUnchanged DEF IInv, FinishedMeansAll, CollectsAll, IterateInputs
    <2>5. RunsReady' /\ Preparing'
      BY <2>1, <2>2, GraphUnchanged DEF IInv, RunsReady, Preparing
    <2>6. ParentsWhole'
      BY <2>1, <2>2, GraphUnchanged DEF IInv, ParentsWhole, Whole
    <2> QED BY <2>3, <2>4, <2>5, <2>6 DEF IInv
  <1> QED BY <1>2, <1>3, <1>4, <1>5, <1>6, <1>7, <1>8, <1>9, <1>10, <1>11 DEF Next, Step

LEMMA Invariance == Spec => []IInv
  BY InitIInv, StepIInv, PTL DEF Spec

\* Copies keep to their nodes, their inputs and the length of their collection
\* (_create_execution_node makes an iteration for each element and no more).
THEOREM GraphTypeCorrect == Spec => []TypeOK
  <1>1. IInv => TypeOK
    BY DEF IInv
  <1> QED BY <1>1, Invariance, PTL

\* complete: a source node is executed exactly when all its copies are.
THEOREM FinishedMeansAllAlways == Spec => []FinishedMeansAll
  <1>1. IInv => FinishedMeansAll
    BY DEF IInv
  <1> QED BY <1>1, Invariance, PTL

\* _prepare: a collector has all copies of its inputs, then and ever after.
THEOREM CollectsAllAlways == Spec => []CollectsAll
  <1>1. IInv => CollectsAll
    BY DEF IInv
  <1> QED BY <1>1, Invariance, PTL

-----------------------------------------------------------------------------
(* The end of a session.  When nothing is ready and nothing can be          *)
(* prepared, the least node that is not executed shows that all are.        *)

\* A copy is fed by copies of the parents of its node.
FedByParents ==
    \A c \in Copies : copies[c].inputs \subseteq
                          UNION {CopiesOf(p) : p \in Parents(copies[c].source)}

\* next gives up when nothing can be prepared, or a collection is empty.
GivesUp == pc = "prepared" => (\A n \in Nodes : ~IsPreparable(n)) \/ \E n \in Nodes : Empty(n)

EndInv == FedByParents /\ GivesUp /\ EndsComplete

\* What is above a node comes before it.
LEMMA AncestorsBefore ==
    ASSUME graph \in Graphs, NEW n \in Nodes, NEW a \in Ancestors(n)
    PROVE  a \in Nodes /\ a < n
  <1> DEFINE S == {m \in Nodes : m < n}
  <1>1. Parents(n) \subseteq S
    BY GraphFacts
  <1>2. \A m \in S : Parents(m) \subseteq S
    BY GraphFacts
  <1> QED BY <1>1, <1>2 DEF Ancestors

LEMMA NothingLeft ==
    ASSUME IInv, FedByParents, Ready = {}, \A n \in Nodes : ~IsPreparable(n)
    PROVE  finished = Nodes
  <1> SUFFICES ASSUME Nodes \ finished # {} PROVE FALSE
    BY DEF IInv, TypeOK
  <1>0. graph \in Graphs /\ TypeOK
    BY DEF IInv, TypeOK
  <1>1. PICK n \in Nodes \ finished : \A m \in Nodes \ finished : n <= m
    BY <1>0, GraphFacts, LeastNumber
  <1>2. \A m \in Nodes : m < n => m \in finished
    BY <1>0, <1>1, GraphFacts
  <1>3. Parents(n) \subseteq finished /\ Ancestors(n) \subseteq finished
    BY <1>0, <1>2, GraphFacts, AncestorsBefore
  <1>4. Prepared(n)
    BY <1>1, <1>3 DEF IsPreparable
  <1>5. PICK c \in CopiesOf(n) : c \notin Executed
    BY <1>1, <1>4 DEF IInv, FinishedMeansAll
  <1>6. c \in Copies /\ copies[c].source = n
    BY <1>5 DEF CopiesOf
  <1>7. \A p \in Parents(n) : CopiesOf(p) \subseteq Executed
    BY <1>3 DEF IInv, FinishedMeansAll, Parents
  <1>8. copies[c].inputs \subseteq Executed
    BY <1>6, <1>7 DEF FedByParents
  <1> QED BY <1>5, <1>6, <1>8 DEF Ready

\* The inputs of a new copy.
LEMMA InputsFed ==
    ASSUME TypeOK, NEW t, t.source \in Nodes, NEW inputs \in Inputs(t)
    PROVE  inputs \subseteq UNION {CopiesOf(p) : p \in Parents(t.source)}
  <1>1. CASE Kind(t.source) = "collect"
    BY <1>1 DEF Inputs
  <1>2. CASE Kind(t.source) # "collect"
    <2>1. PICK f \in [Parents(t.source) -> Copies] :
            /\ \A p \in Parents(t.source) : f[p] \in IterationNodes(p, t.under)
            /\ inputs = {f[p] : p \in Parents(t.source)}
      BY <1>2 DEF Inputs
    <2>2. \A p \in Parents(t.source) : f[p] \in CopiesOf(p)
      BY <2>1 DEF IterationNodes
    <2> QED BY <2>1, <2>2
  <1> QED BY <1>1, <1>2

LEMMA EndKept == IInv /\ EndInv /\ [Next]_vars => EndInv'
  <1> SUFFICES ASSUME IInv, EndInv, [Next]_vars PROVE EndInv'
    OBVIOUS
  <1>0. TypeOK /\ (todo # {} => pc = "prepare")
    BY DEF IInv, Preparing
  <1>1. ASSUME graph' = graph, copies' = copies
        PROVE  /\ Nodes' = Nodes /\ FedByParents'
               /\ \A n : Kind(n)' = Kind(n) /\ Parents(n)' = Parents(n)
               /\ \A n : Prepared(n)' = Prepared(n) /\ Ancestors(n)' = Ancestors(n)
    <2>1. Copies' = Copies /\ \A n : CopiesOf(n)' = CopiesOf(n)
      BY <1>1 DEF Copies, CopiesOf
    <2>2. FedByParents'
      BY <1>1, <2>1, GraphUnchanged DEF EndInv, FedByParents
    <2> QED BY <1>1, <2>1, <2>2, GraphUnchanged DEF Prepared, Ancestors
  <1>2. CASE UNCHANGED vars
    <2>1. UNCHANGED <<graph, copies, results, finished, failed, pc, node, todo>>
      BY <1>2 DEF vars
    <2> QED BY <1>1, <2>1 DEF EndInv, GivesUp, EndsComplete, Empty, IsPreparable
  <1>3. CASE (\E c \in Copies : GetNextNode(c)) \/ NothingReady \/ Prepare
               \/ CreateExecutionNodeRaises \/ SetNodeError
    <2>1. graph' = graph /\ copies' = copies /\ pc' # "prepared" /\ (pc' = "end" => failed')
      BY <1>3 DEF GetNextNode, NothingReady, Prepare, CreateExecutionNodeRaises, SetNodeError
    <2> QED BY <1>1, <2>1 DEF EndInv, GivesUp, EndsComplete
  <1>4. CASE Complete
    <2>1. graph' = graph /\ copies' = copies /\ pc' # "prepared" /\ (pc' = "end" => finished' = Nodes)
      BY <1>4 DEF Complete
    <2> QED BY <1>1, <2>1 DEF EndInv, GivesUp, EndsComplete
  <1>5. CASE NothingPreparable
    <2>1. /\ UNCHANGED <<graph, copies, finished>> /\ pc' = "prepared"
          /\ \A n \in Nodes : ~IsPreparable(n)
      BY <1>5 DEF NothingPreparable
    <2>2. \A n \in Nodes' : ~IsPreparable(n)'
      BY <1>1, <2>1 DEF IsPreparable
    <2> QED BY <1>1, <2>1, <2>2 DEF EndInv, GivesUp, EndsComplete
  <1>6. CASE NoNext
    <2>1. UNCHANGED <<graph, copies, finished>> /\ pc = "prepared" /\ pc' = "end" /\ Ready = {}
      BY <1>6 DEF NoNext
    <2>2. finished = Nodes \/ \E n \in Nodes : Empty(n)
      BY <2>1, NothingLeft DEF EndInv, GivesUp
    <2>3. finished' = Nodes' \/ \E n \in Nodes' : Empty(n)'
      BY <1>1, <2>1, <2>2 DEF Empty
    <2> QED BY <1>1, <2>1, <2>3 DEF EndInv, GivesUp, EndsComplete
  <1>7. CASE CreateExecutionNode
    <2>1. PICK t \in todo : t = CHOOSE x \in todo : TRUE
      BY <1>7 DEF CreateExecutionNode
    <2>2. PICK inputs \in Inputs(t) :
            /\ copies' = copies \o NewCopies(t, inputs)
            /\ pc' = IF todo' = {} /\ ~Prepared(t.source) /\ Count(t, inputs) = 0
                     THEN "prepared" ELSE "prepare"
      BY <1>7, <2>1 DEF CreateExecutionNode
    <2>3. UNCHANGED <<graph, results, finished, failed>>
      BY <1>7, <2>1 DEF CreateExecutionNode
    <2>4. /\ Count(t, inputs) \in Nat
          /\ Copies \subseteq Copies'
          /\ \A c \in Copies : copies'[c] = copies[c]
          /\ \A c \in Copies' \ Copies : /\ copies'[c].source = t.source
                                        /\ copies'[c].index < Count(t, inputs)
                                        /\ copies'[c].inputs = inputs
                                        /\ copies'[c].under = t.under
          /\ copies' \in Seq([source : Nodes, index : Nat, inputs : SUBSET Copies',
                              under : SUBSET Copies'])
      BY <2>2, <2>3, CreateFacts, Zenon
    <2>5. \A m : CopiesOf(m) \subseteq CopiesOf(m)'
      BY <2>4 DEF CopiesOf
    <2>6. FedByParents'
      <3>1. inputs \subseteq UNION {CopiesOf(p) : p \in Parents(t.source)}
        BY <1>0, InputsFed DEF TypeOK
      <3>2. ASSUME NEW c \in Copies'
            PROVE  copies'[c].inputs \subseteq UNION {CopiesOf(p) : p \in Parents(copies'[c].source)}
        BY <2>4, <3>1 DEF EndInv, FedByParents
      <3>3. ASSUME NEW c \in Copies'
            PROVE  copies'[c].inputs \subseteq UNION {CopiesOf(p)' : p \in Parents(copies'[c].source)}
        BY <2>5, <3>2
      <3> QED BY <2>3, <3>3, GraphUnchanged DEF FedByParents
    <2>7. ASSUME pc' = "prepared" PROVE \E n \in Nodes' : Empty(n)'
      <3>1. ~Prepared(t.source) /\ Count(t, inputs) = 0
        BY <2>2, <2>7
      <3>2. Kind(t.source) = "iterate"
        BY <3>1 DEF Count
      <3>3. Parents(t.source) \subseteq finished /\ t.source \in Nodes
        BY <1>0, <3>2 DEF IInv, Preparing, TypeOK
      <3>4. Copies' = Copies
        <4> SUFFICES ASSUME NEW c \in Copies' \ Copies PROVE FALSE
          BY <2>4
        <4> DEFINE CopyAfter == [source : Nodes, index : Nat, inputs : SUBSET Copies',
                                 under : SUBSET Copies']
        <4>1. copies' \in Seq(CopyAfter) /\ c \in DOMAIN copies'
          BY <2>4 DEF Copies
        <4>2. copies'[c] \in CopyAfter
          <5> HIDE DEF CopyAfter
          <5> QED BY <4>1
        <4>3. copies'[c].index \in Nat /\ copies'[c].index < 0
          BY <2>4, <3>1, <4>2
        <4> QED BY <4>3
      <3>5. ~Prepared(t.source)'
        BY <2>4, <3>1, <3>4 DEF Prepared, CopiesOf
      <3>6. Empty(t.source)'
        BY <2>3, <3>2, <3>3, <3>5, GraphUnchanged DEF Empty
      <3> QED BY <2>3, <3>3, <3>6, GraphUnchanged
    <2>8. pc' # "end"
      BY <2>2
    <2> QED BY <2>6, <2>7, <2>8 DEF EndInv, GivesUp, EndsComplete
  <1> QED BY <1>2, <1>3, <1>4, <1>5, <1>6, <1>7 DEF Next, Step

\* When the runner stops without an error and no collection was empty, every
\* node was executed: next() returns None (_prepare found nothing to prepare,
\* _get_next_node nothing ready) only when nothing is left, whatever the graph
\* and the order in which its branches were executed.
THEOREM EndsCompleteAlways == Spec => []EndsComplete
  <1>1. Init => EndInv
    BY DEF Init, EndInv, FedByParents, GivesUp, EndsComplete, Copies
  <1>2. EndInv => EndsComplete
    BY DEF EndInv
  <1> QED BY <1>1, <1>2, Invariance, EndKept, PTL DEF Spec

-----------------------------------------------------------------------------
(* The searches of the graphs: what they find, place by place. *)

LEMMA GatheredFacts ==
    ASSUME NEW S, S \subseteq Nat, NEW X,
           NEW own \in [S -> SUBSET X], NEW from \in [S -> SUBSET S],
           \A m \in S : \A p \in from[m] : p < m
    PROVE  /\ \A m \in S : Gathered(S, own, from)[m] =
                               own[m] \cup UNION {Gathered(S, own, from)[p] : p \in from[m]}
           /\ \A m \in S : Gathered(S, own, from)[m] \subseteq X
  <1> DEFINE Up == CHOOSE f : f = [m \in S |-> own[m] \cup UNION {f[p] : p \in from[m]}]
  <1>1. \E f : f = [m \in S |-> own[m] \cup UNION {f[p] : p \in from[m]}]
    <2>1. PICK f : Gathers(f, S, own, from)
      BY GathererExists
    <2> QED BY <2>1 DEF Gathers
  <1>2. Up = [m \in S |-> own[m] \cup UNION {Up[p] : p \in from[m]}]
    BY <1>1
  <1>3. Gathered(S, own, from) = Up
    BY DEF Gathered
  <1> HIDE DEF Up
  <1>4. \A m \in S : Up[m] = own[m] \cup UNION {Up[p] : p \in from[m]}
    BY <1>2
  <1>5. \A m \in S : Up[m] \subseteq X
    <2> DEFINE T == {m \in S : Up[m] \subseteq X}
    <2>1. ASSUME NEW m \in S, \A p \in S : p < m => p \in T PROVE m \in T
      <3>1. \A p \in from[m] : Up[p] \subseteq X
        BY <2>1
      <3>2. own[m] \subseteq X /\ Up[m] = own[m] \cup UNION {Up[p] : p \in from[m]}
        BY <1>4
      <3> QED BY <3>1, <3>2
    <2>2. S \subseteq T
      <3> HIDE DEF T
      <3> QED BY <2>1, Upwards
    <2> QED BY <2>2
  <1> QED BY <1>3, <1>4, <1>5

\* A copy is made after its inputs.
InputsBefore == \A c \in Copies : \A i \in copies[c].inputs : i < c

\* What the searches find, in terms of what they find one edge further.
Searches ==
    /\ \A n \in Nodes :
          Iterators(n) = IF Kind(n) = "collect" THEN {}
                         ELSE {p \in Parents(n) : Kind(p) = "iterate"}
                                  \cup UNION {Iterators(p) : p \in Parents(n)}
    /\ \A c \in Copies : Upstream(c) = {c} \cup UNION {Upstream(i) : i \in copies[c].inputs}
    /\ \A c \in Copies :
          IterationsOf(c) = IF Kind(copies[c].source) = "collect" THEN {}
                            ELSE {i \in copies[c].inputs : IsIterate(i)}
                                     \cup UNION {IterationsOf(i) : i \in copies[c].inputs}
    /\ \A c \in Copies : Upstream(c) \subseteq Copies /\ IterationsOf(c) \subseteq Copies

LEMMA SearchesHold == TypeOK /\ InputsBefore => Searches
  <1> SUFFICES ASSUME TypeOK, InputsBefore PROVE Searches
    OBVIOUS
  <1>1. Nodes \subseteq Nat /\ \A n \in Nodes : \A p \in Parents(n) : p \in Nodes /\ p < n
    BY GraphFacts DEF TypeOK
  <1>2. Copies \subseteq Nat /\ \A c \in Copies : copies[c].inputs \subseteq Copies
    BY CopyFacts
  <1>3. ASSUME NEW n \in Nodes
        PROVE  Iterators(n) = IF Kind(n) = "collect" THEN {}
                              ELSE {p \in Parents(n) : Kind(p) = "iterate"}
                                       \cup UNION {Iterators(p) : p \in Parents(n)}
    <2>1. PICK f : f = [m \in Nodes |-> IF Kind(m) = "collect" THEN {} ELSE Parents(m)]
      OBVIOUS
    <2>2. f \in [Nodes -> SUBSET Nodes] /\ \A m \in Nodes : \A p \in f[m] : p < m
      BY <1>1, <2>1
    <2>3. \A m \in Nodes : Iterators(m) = {a \in Gathered(Nodes, f, f)[m] : Kind(a) = "iterate"}
      BY <2>1 DEF Iterators
    <2>4. /\ \A m \in Nodes : Gathered(Nodes, f, f)[m] =
                f[m] \cup UNION {Gathered(Nodes, f, f)[p] : p \in f[m]}
          /\ \A m \in Nodes : Gathered(Nodes, f, f)[m] \subseteq Nodes
      BY <1>1, <2>2, GatheredFacts, Zenon
    <2>5. f[n] \subseteq Nodes
      BY <2>2
    <2>6. Iterators(n) = {p \in f[n] : Kind(p) = "iterate"} \cup UNION {Iterators(p) : p \in f[n]}
      BY <2>3, <2>4, <2>5
    <2>7. f[n] = IF Kind(n) = "collect" THEN {} ELSE Parents(n)
      BY <2>1
    <2> QED BY <2>6, <2>7
  <1>4. ASSUME NEW c \in Copies
        PROVE  /\ Upstream(c) = {c} \cup UNION {Upstream(i) : i \in copies[c].inputs}
               /\ Upstream(c) \subseteq Copies
    <2>1. PICK own : own = [d \in Copies |-> {d}]
      OBVIOUS
    <2>2. PICK from : from = [d \in Copies |-> copies[d].inputs]
      OBVIOUS
    <2>3. /\ own \in [Copies -> SUBSET Copies] /\ from \in [Copies -> SUBSET Copies]
          /\ \A m \in Copies : \A p \in from[m] : p < m
      BY <1>2, <2>1, <2>2 DEF InputsBefore
    <2>4. \A d \in Copies : Upstream(d) = Gathered(Copies, own, from)[d]
      BY <2>1, <2>2 DEF Upstream
    <2>5. /\ \A m \in Copies : Gathered(Copies, own, from)[m] =
                own[m] \cup UNION {Gathered(Copies, own, from)[p] : p \in from[m]}
          /\ \A m \in Copies : Gathered(Copies, own, from)[m] \subseteq Copies
      BY <1>2, <2>3, GatheredFacts, Zenon
    <2>6. own[c] = {c} /\ from[c] = copies[c].inputs /\ \A p \in from[c] : p \in Copies
      BY <1>2, <2>1, <2>2
    <2>7. {Upstream(p) : p \in from[c]} = {Gathered(Copies, own, from)[p] : p \in from[c]}
      BY <2>4, <2>6
    <2> QED BY <2>4, <2>5, <2>6, <2>7
  <1>5. ASSUME NEW c \in Copies
        PROVE  /\ IterationsOf(c) = IF Kind(copies[c].source) = "collect" THEN {}
                                    ELSE {i \in copies[c].inputs : IsIterate(i)}
                                             \cup UNION {IterationsOf(i) : i \in copies[c].inputs}
               /\ IterationsOf(c) \subseteq Copies
    <2>1. PICK f : f = [d \in Copies |-> IF Kind(copies[d].source) = "collect" THEN {}
                                         ELSE copies[d].inputs]
      OBVIOUS
    <2>2. f \in [Copies -> SUBSET Copies] /\ \A m \in Copies : \A p \in f[m] : p < m
      BY <1>2, <2>1 DEF InputsBefore
    <2>3. \A d \in Copies : IterationsOf(d) = {i \in Gathered(Copies, f, f)[d] : IsIterate(i)}
      BY <2>1 DEF IterationsOf
    <2>4. /\ \A m \in Copies : Gathered(Copies, f, f)[m] =
                f[m] \cup UNION {Gathered(Copies, f, f)[p] : p \in f[m]}
          /\ \A m \in Copies : Gathered(Copies, f, f)[m] \subseteq Copies
      BY <1>2, <2>2, GatheredFacts, Zenon
    <2>5. f[c] \subseteq Copies
      BY <2>2
    <2>6. IterationsOf(c) = {i \in f[c] : IsIterate(i)} \cup UNION {IterationsOf(i) : i \in f[c]}
      BY <2>3, <2>4, <2>5
    <2>7. f[c] = IF Kind(copies[c].source) = "collect" THEN {} ELSE copies[c].inputs
      BY <2>1
    <2> QED BY <2>3, <2>4, <2>6, <2>7
  <1> QED BY <1>3, <1>4, <1>5 DEF Searches

\* The iterators above a node are iterate nodes among its ancestors.
LEMMA IteratorsAbove ==
    ASSUME TypeOK, Searches
    PROVE  \A n \in Nodes : \A a \in Iterators(n) : a \in Ancestors(n) /\ Kind(a) = "iterate"
  <1> DEFINE T == {n \in Nodes : \A a \in Iterators(n) : a \in Ancestors(n) /\ Kind(a) = "iterate"}
  <1>1. Nodes \subseteq Nat /\ \A n \in Nodes : \A p \in Parents(n) : p \in Nodes /\ p < n
    BY GraphFacts DEF TypeOK
  <1>2. ASSUME NEW n \in Nodes, \A p \in Nodes : p < n => p \in T PROVE n \in T
    <2>1. \A p \in Parents(n) : p \in Ancestors(n) /\ Ancestors(p) \subseteq Ancestors(n)
      BY AncestorsFacts
    <2>2. \A p \in Parents(n) : p \in T
      BY <1>1, <1>2
    <2>3. Iterators(n) \subseteq {p \in Parents(n) : Kind(p) = "iterate"}
                                    \cup UNION {Iterators(p) : p \in Parents(n)}
      BY DEF Searches
    <2> QED BY <2>1, <2>2, <2>3
  <1>3. Nodes \subseteq T
    <2> HIDE DEF T
    <2> QED BY <1>1, <1>2, Upwards
  <1> QED BY <1>3

\* An input is a copy of a parent, made before.
LEMMA InputFacts ==
    ASSUME TypeOK, InputsBefore, FedByParents, NEW c \in Copies, NEW d \in copies[c].inputs
    PROVE  d \in Copies /\ d < c /\ copies[d].source \in Parents(copies[c].source)
  <1>1. d \in Copies /\ d < c
    BY CopyFacts DEF InputsBefore
  <1>2. PICK p \in Parents(copies[c].source) : d \in CopiesOf(p)
    BY DEF FedByParents
  <1> QED BY <1>1, <1>2 DEF CopiesOf

\* What a copy was computed from are copies of the ancestors of its node.
LEMMA UpstreamAbove ==
    ASSUME TypeOK, InputsBefore, FedByParents, Searches
    PROVE  \A c \in Copies : \A i \in Upstream(c) :
               i = c \/ copies[i].source \in Ancestors(copies[c].source)
  <1> DEFINE T == {c \in Copies : \A i \in Upstream(c) :
                       i = c \/ copies[i].source \in Ancestors(copies[c].source)}
  <1>1. Copies \subseteq Nat /\ \A c \in Copies : /\ copies[c].inputs \subseteq Copies
                                                  /\ copies[c].source \in Nodes
    BY CopyFacts
  <1>2. ASSUME NEW c \in Copies, \A d \in Copies : d < c => d \in T PROVE c \in T
    <2>1. \A d \in copies[c].inputs : d \in T /\ copies[d].source \in Parents(copies[c].source)
      BY <1>2, InputFacts
    <2>2. Upstream(c) = {c} \cup UNION {Upstream(d) : d \in copies[c].inputs}
      BY DEF Searches
    <2>3. ASSUME NEW d \in copies[c].inputs, NEW i \in Upstream(d)
          PROVE  copies[i].source \in Ancestors(copies[c].source)
      <3>1. /\ copies[d].source \in Ancestors(copies[c].source)
            /\ Ancestors(copies[d].source) \subseteq Ancestors(copies[c].source)
        BY <1>1, <2>1, AncestorsFacts
      <3> QED BY <2>1, <3>1
    <2> QED BY <2>2, <2>3
  <1>3. Copies \subseteq T
    <2> HIDE DEF T
    <2> QED BY <1>1, <1>2, Upwards
  <1> QED BY <1>3

\* The iterations of a copy are iterate copies that it was computed from.
LEMMA IterationsUpstream ==
    ASSUME TypeOK, InputsBefore, Searches
    PROVE  \A c \in Copies : \A i \in IterationsOf(c) : i \in Upstream(c) /\ IsIterate(i)
  <1> DEFINE T == {c \in Copies : \A i \in IterationsOf(c) : i \in Upstream(c) /\ IsIterate(i)}
  <1>1. Copies \subseteq Nat /\ \A c \in Copies : copies[c].inputs \subseteq Copies
    BY CopyFacts
  <1>2. ASSUME NEW c \in Copies, \A d \in Copies : d < c => d \in T PROVE c \in T
    <2>1. \A d \in copies[c].inputs : d \in T
      BY <1>1, <1>2 DEF InputsBefore
    <2>2. Upstream(c) = {c} \cup UNION {Upstream(d) : d \in copies[c].inputs}
      BY DEF Searches
    <2>3. \A d \in copies[c].inputs : d \in Upstream(d)
      BY <1>1 DEF Searches
    <2>4. IterationsOf(c) \subseteq {i \in copies[c].inputs : IsIterate(i)}
                                      \cup UNION {IterationsOf(i) : i \in copies[c].inputs}
      BY DEF Searches
    <2> QED BY <2>1, <2>2, <2>3, <2>4
  <1>3. Copies \subseteq T
    <2> HIDE DEF T
    <2> QED BY <1>1, <1>2, Upwards
  <1> QED BY <1>3

\* Whatever else a copy was computed from reached it through a collector.
LEMMA ThroughCollector ==
    ASSUME TypeOK, InputsBefore, FedByParents, Searches
    PROVE  \A c \in Copies : \A i \in Upstream(c) \ {c} :
               \/ ~IsIterate(i)
               \/ i \in IterationsOf(c)
               \/ \E k \in {copies[c].source} \cup Ancestors(copies[c].source) :
                     Kind(k) = "collect" /\ copies[i].source \in Ancestors(k)
  <1> DEFINE Collected(c, i) == \E k \in {copies[c].source} \cup Ancestors(copies[c].source) :
                                   Kind(k) = "collect" /\ copies[i].source \in Ancestors(k)
             T == {c \in Copies : \A i \in Upstream(c) \ {c} :
                      ~IsIterate(i) \/ i \in IterationsOf(c) \/ Collected(c, i)}
  <1>1. Copies \subseteq Nat /\ \A c \in Copies : /\ copies[c].inputs \subseteq Copies
                                                  /\ copies[c].source \in Nodes
    BY CopyFacts
  <1>2. ASSUME NEW c \in Copies, \A d \in Copies : d < c => d \in T PROVE c \in T
    <2> SUFFICES ASSUME NEW i \in Upstream(c) \ {c}, IsIterate(i)
                 PROVE  i \in IterationsOf(c) \/ Collected(c, i)
      OBVIOUS
    <2>1. CASE Kind(copies[c].source) = "collect"
      BY <2>1, UpstreamAbove
    <2>2. CASE Kind(copies[c].source) # "collect"
      <3>1. PICK d \in copies[c].inputs : i \in Upstream(d)
        BY DEF Searches
      <3>2. d \in T /\ copies[d].source \in Parents(copies[c].source)
        BY <1>2, InputFacts
      <3>3. IterationsOf(c) = {j \in copies[c].inputs : IsIterate(j)}
                                 \cup UNION {IterationsOf(j) : j \in copies[c].inputs}
        BY <2>2 DEF Searches
      <3>4. CASE i = d
        BY <3>3, <3>4
      <3>5. CASE i # d /\ i \in IterationsOf(d)
        BY <3>3, <3>5
      <3>6. CASE i # d /\ Collected(d, i)
        <4>1. /\ copies[d].source \in Ancestors(copies[c].source)
              /\ Ancestors(copies[d].source) \subseteq Ancestors(copies[c].source)
          BY <1>1, <3>2, AncestorsFacts
        <4> QED BY <3>6, <4>1
      <3> QED BY <3>1, <3>2, <3>4, <3>5, <3>6
    <2> QED BY <2>1, <2>2
  <1>3. Copies \subseteq T
    <2> HIDE DEF T
    <2> QED BY <1>1, <1>2, Upwards
  <1> QED BY <1>3

-----------------------------------------------------------------------------
(* Combinations of iterations. *)

\* One copy of each iterator above a node.
Fits(n, u) ==
    /\ u \subseteq Copies
    /\ \A i \in u : copies[i].source \in Iterators(n)
    /\ \A a \in Iterators(n) : \E i \in u : copies[i].source = a
    /\ \A i, j \in u : copies[i].source = copies[j].source => i = j

\* What a combination has to say about a parent.
Part(u, p) == {i \in u : copies[i].source \in Iterators(p)}

LEMMA CombinationsFit ==
    ASSUME NEW n
    PROVE  \A u : u \in Combinations(n) <=> Fits(n, u)
  <1>1. ASSUME NEW u \in Combinations(n) PROVE Fits(n, u)
    <2>1. PICK f \in [Iterators(n) -> Copies] :
            /\ \A i \in Iterators(n) : copies[f[i]].source = i
            /\ u = {f[i] : i \in Iterators(n)}
      BY DEF Combinations
    <2> QED BY <2>1 DEF Fits
  <1>2. ASSUME NEW u, Fits(n, u) PROVE u \in Combinations(n)
    <2>1. PICK f : f = [a \in Iterators(n) |-> CHOOSE i \in u : copies[i].source = a]
      OBVIOUS
    <2>2. \A a \in Iterators(n) : f[a] \in u /\ copies[f[a]].source = a
      BY <1>2, <2>1 DEF Fits
    <2>3. f \in {g \in [Iterators(n) -> Copies] : \A i \in Iterators(n) : copies[g[i]].source = i}
      <3>1. f \in [Iterators(n) -> Copies]
        BY <1>2, <2>1, <2>2 DEF Fits
      <3> QED BY <2>2, <3>1
    <2>4. u = {f[i] : i \in Iterators(n)}
      BY <1>2, <2>2 DEF Fits
    <2> QED BY <2>3, <2>4 DEF Combinations
  <1> QED BY <1>1, <1>2

LEMMA ParentIterators ==
    ASSUME Searches, NEW n \in Nodes, Kind(n) # "collect", NEW p \in Parents(n)
    PROVE  Iterators(p) \subseteq Iterators(n) /\ (Kind(p) = "iterate" => p \in Iterators(n))
  BY DEF Searches

LEMMA PartFits ==
    ASSUME Searches, NEW n \in Nodes, Kind(n) # "collect", NEW p \in Parents(n), NEW u, Fits(n, u)
    PROVE  Fits(p, Part(u, p))
  BY ParentIterators DEF Fits, Part

\* What a copy is made under, and from.
UndersFit ==
    /\ \A c \in Copies : Fits(copies[c].source, copies[c].under)
    /\ \A t \in todo : Fits(t.source, t.under)

\* No two copies are for one combination, unless they are iterations.
NoneTwice ==
    /\ \A c, d \in Copies : /\ copies[c].source = copies[d].source /\ ~IsIterate(c)
                            /\ copies[c].under = copies[d].under
                            => c = d
    /\ \A t \in todo : \A c \in CopiesOf(t.source) : copies[c].under # t.under

\* Each combination has a copy, or is still to get one.
NoneMissing ==
    \A n \in Nodes : \A u \in SUBSET Copies :
        Fits(n, u) /\ (Prepared(n) \/ \E t \in todo : t.source = n) =>
            \/ \E c \in CopiesOf(n) : copies[c].under = u
            \/ \E t \in todo : t.source = n /\ t.under = u

\* A copy has an input from each parent of its node.
FedByEach == \A c \in Copies : \A p \in Parents(copies[c].source) :
                 copies[c].inputs \cap CopiesOf(p) # {}

Combined == UndersFit /\ NoneTwice /\ NoneMissing

\* The iterations that a copy is made under are among what it was computed from.
UnderReached == \A c \in Copies : copies[c].under \subseteq Upstream(c)

OnceInv ==
    /\ InputsBefore /\ FedByEach /\ NeverRaises
    /\ Flat => Combined /\ UnderReached
    /\ Flat /\ Unmixed => MatchesIterations

-----------------------------------------------------------------------------
(* The inputs that _get_iteration_node selects. *)

\* All that is above a node at work on, or copied, has all its copies.
LEMMA AncestorsWhole ==
    ASSUME ParentsWhole, NEW n \in Nodes, Whole(n), NEW a \in Ancestors(n)
    PROVE  Prepared(a) /\ \A t \in todo : t.source # a
  <1> DEFINE S == {m \in Nodes : Prepared(m) /\ \A t \in todo : t.source # m}
  <1>1. Parents(n) \subseteq S
    BY DEF Whole, Parents
  <1>2. ASSUME NEW m \in S PROVE Parents(m) \subseteq S
    <2>1. PICK c \in Copies : copies[c].source = m
      BY DEF Prepared, CopiesOf
    <2>2. Whole(m)
      BY <2>1 DEF ParentsWhole
    <2> QED BY <2>2 DEF Whole, Parents
  <1>3. S \in SUBSET Nodes
    OBVIOUS
  <1>4. a \in S
    <2> HIDE DEF S
    <2> QED BY <1>1, <1>2, <1>3 DEF Ancestors
  <1> QED BY <1>4

\* An iterate copy behind a copy is one of its iterations, if its iterator is
\* above the copy's node and nothing is mixed.
LEMMA OwnIteration ==
    ASSUME TypeOK, InputsBefore, FedByParents, Searches, Unmixed,
           NEW c \in Copies, NEW i \in Upstream(c), i # c, IsIterate(i),
           copies[i].source \in Iterators(copies[c].source)
    PROVE  i \in IterationsOf(c)
  <1> SUFFICES ASSUME NEW k \in {copies[c].source} \cup Ancestors(copies[c].source),
                      Kind(k) = "collect", copies[i].source \in Ancestors(k)
               PROVE  FALSE
    BY ThroughCollector
  <1>1. copies[c].source \in Nodes
    BY CopyFacts
  <1>2. CASE k = copies[c].source
    BY <1>1, <1>2 DEF Searches
  <1>3. CASE k \in Ancestors(copies[c].source)
    BY <1>1, <1>3 DEF Unmixed
  <1> QED BY <1>2, <1>3

LEMMA OnlyCopy ==
    ASSUME TypeOK, NEW p, NEW d \in CopiesOf(p), Cardinality(CopiesOf(p)) = 1
    PROVE  CopiesOf(p) = {d}
  <1>1. IsFiniteSet(CopiesOf(p))
    <2>1. IsFiniteSet(Copies)
      BY CopyFacts, FS_Interval
    <2> QED BY <2>1, FS_Subset DEF CopiesOf
  <1> QED BY <1>1, FS_Singleton

\* The copy of a parent that is selected lies in the iterations of the combination.
LEMMA Selected ==
    ASSUME IInv, InputsBefore, FedByParents, Searches, Flat, Unmixed,
           Combined, MatchesIterations,
           NEW t \in todo, Kind(t.source) # "collect",
           NEW p \in Parents(t.source), NEW d \in IterationNodes(p, t.under)
    PROVE  /\ d \in CopiesOf(p)
           /\ Kind(p) = "iterate" => d \in t.under
           /\ copies[d].under = Part(t.under, p)
  <1>0. TypeOK /\ t.source \in Nodes /\ p \in Nodes /\ Fits(t.source, t.under)
    BY DEF IInv, TypeOK, Parents, Combined, UndersFit
  <1>1. d \in CopiesOf(p) /\ d \in Copies /\ copies[d].source = p
    BY DEF IterationNodes, CopiesOf
  <1>2. Fits(p, Part(t.under, p)) /\ Fits(p, copies[d].under)
    BY <1>0, <1>1, PartFits DEF Combined, UndersFit
  <1>3. Iterators(p) \subseteq Iterators(t.source)
        /\ (Kind(p) = "iterate" => p \in Iterators(t.source))
    BY <1>0, ParentIterators
  <1>4. ASSUME Kind(p) = "iterate"
        PROVE  \E i \in t.under : i \in CopiesOf(p)
    BY <1>0, <1>3, <1>4 DEF Fits, CopiesOf
  <1>5. CASE CopiesOf(p) = {d}
    <2>1. \A u \in todo : u.source # p
      BY DEF IInv, ParentsWhole, Whole
    <2>2. \E c \in CopiesOf(p) : copies[c].under = Part(t.under, p)
      BY <1>0, <1>1, <1>2, <2>1 DEF Combined, NoneMissing, Prepared, Fits
    <2> QED BY <1>1, <1>4, <1>5, <2>2
  <1>6. CASE d \in t.under
    <2>1. Kind(p) = "iterate"
      BY <1>0, <1>1, <1>6, IteratorsAbove DEF Fits
    <2>2. Iterators(p) = {}
      BY <1>0, <2>1 DEF Flat
    <2> QED BY <1>1, <1>2, <1>6, <2>2 DEF Fits
  <1>7. CASE /\ CopiesOf(p) \cap t.under = {}
             /\ \A i \in t.under : copies[i].source \in Ancestors(p) => i \in Upstream(d)
    <2>1. Kind(p) # "iterate"
      BY <1>4, <1>7
    <2>2. ASSUME NEW i \in Part(t.under, p) PROVE i \in copies[d].under
      <3>1. /\ copies[i].source \in Iterators(p) /\ i \in t.under /\ i \in Copies
            /\ copies[i].source \in Ancestors(p) /\ Kind(copies[i].source) = "iterate"
        BY <1>0, IteratorsAbove DEF Part, Fits
      <3>2. i \in Upstream(d) /\ i # d /\ IsIterate(i)
        BY <1>1, <1>7, <2>1, <3>1 DEF IsIterate
      <3>3. i \in IterationsOf(d)
        BY <1>0, <1>1, <3>1, <3>2, OwnIteration
      <3> QED BY <1>1, <3>3 DEF MatchesIterations
    <2>3. ASSUME NEW j \in copies[d].under PROVE j \in Part(t.under, p)
      <3>1. PICK i \in Part(t.under, p) : copies[i].source = copies[j].source
        BY <1>2, <2>3 DEF Fits
      <3>2. i = j
        BY <1>2, <2>2, <3>1 DEF Fits
      <3> QED BY <3>2
    <2> QED BY <1>1, <2>1, <2>2, <2>3
  <1>8. Cardinality(CopiesOf(p)) = 1 => CopiesOf(p) = {d}
    BY <1>0, <1>1, OnlyCopy
  <1> QED BY <1>1, <1>5, <1>6, <1>7, <1>8 DEF IterationNodes

\* An ancestor is a parent, or an ancestor of one.
LEMMA AncestorCases ==
    ASSUME NEW n \in Nodes, NEW a \in Ancestors(n)
    PROVE  a \in Parents(n) \/ \E p \in Parents(n) : a \in Ancestors(p)
  <1> DEFINE S == {m \in Nodes : m \in Parents(n) \/ \E p \in Parents(n) : m \in Ancestors(p)}
  <1>1. Parents(n) \subseteq S
    BY DEF Parents
  <1>2. ASSUME NEW m \in S PROVE Parents(m) \subseteq S
    <2>1. CASE m \in Parents(n)
      <3>1. \A q \in Parents(m) : q \in Nodes /\ q \in Ancestors(m)
        BY AncestorsFacts DEF Parents
      <3> QED BY <2>1, <3>1
    <2>2. CASE \E p \in Parents(n) : m \in Ancestors(p)
      <3>1. PICK p \in Parents(n) : m \in Ancestors(p)
        BY <2>2
      <3>2. Parents(m) \subseteq Ancestors(p)
        BY <3>1 DEF Ancestors, Parents
      <3> QED BY <3>1, <3>2 DEF Parents
    <2> QED BY <2>1, <2>2
  <1>3. S \in SUBSET Nodes
    OBVIOUS
  <1>4. a \in S
    <2> HIDE DEF S
    <2> QED BY <1>1, <1>2, <1>3 DEF Ancestors
  <1> QED BY <1>4

\* Each iteration above a node has been used for some copy of it.
LEMMA SomeCopyUnder ==
    ASSUME IInv, InputsBefore, Searches, Combined, UnderReached,
           NEW p \in Nodes, Prepared(p), \A t \in todo : t.source # p,
           NEW a \in Iterators(p), NEW i \in CopiesOf(a)
    PROVE  \E d \in CopiesOf(p) : i \in Upstream(d)
  <1>1. PICK e \in CopiesOf(p) : TRUE
    BY DEF Prepared
  <1>2. Fits(p, copies[e].under) /\ i \in Copies /\ copies[i].source = a
    BY DEF Combined, UndersFit, CopiesOf
  <1>3. PICK u : u = {j \in copies[e].under : copies[j].source # a} \cup {i}
    OBVIOUS
  <1>4. Fits(p, u)
    BY <1>2, <1>3 DEF Fits
  <1>5. PICK d \in CopiesOf(p) : copies[d].under = u
    BY <1>4 DEF Fits, Combined, NoneMissing
  <1> QED BY <1>3, <1>5 DEF UnderReached, CopiesOf

\* What lies above a node only through collectors has reached each of its copies.
LEMMA Reached ==
    ASSUME IInv, InputsBefore, FedByParents, FedByEach, Searches, Combined, UnderReached
    PROVE  \A m \in Nodes : \A a \in Ancestors(m) : \A c \in CopiesOf(m) :
               Kind(a) = "iterate" /\ (\A t \in todo : t.source # m) =>
                   a \in Iterators(m) \/ CopiesOf(a) \subseteq Upstream(c)
  <1> DEFINE T == {m \in Nodes : \A a \in Ancestors(m) : \A c \in CopiesOf(m) :
                       Kind(a) = "iterate" /\ (\A t \in todo : t.source # m) =>
                           a \in Iterators(m) \/ CopiesOf(a) \subseteq Upstream(c)}
  <1>0. TypeOK
    BY DEF IInv
  <1>1. Nodes \subseteq Nat /\ \A n \in Nodes : \A p \in Parents(n) : p \in Nodes /\ p < n
    BY <1>0, GraphFacts DEF TypeOK
  <1>2. ASSUME NEW m \in Nodes, \A p \in Nodes : p < m => p \in T PROVE m \in T
    <2> SUFFICES ASSUME NEW a \in Ancestors(m), NEW c \in CopiesOf(m), Kind(a) = "iterate",
                        a \notin Iterators(m), NEW i \in CopiesOf(a)
                 PROVE  i \in Upstream(c)
      OBVIOUS
    <2>1. c \in Copies /\ copies[c].source = m
      BY DEF CopiesOf
    <2>2. \A p \in Parents(m) : p \in T /\ Prepared(p) /\ \A t \in todo : t.source # p
      BY <1>1, <1>2, <2>1 DEF IInv, ParentsWhole, Whole
    <2>3. \A d \in copies[c].inputs : d \in Upstream(d) /\ Upstream(d) \subseteq Upstream(c)
      BY <1>0, <2>1, CopyFacts DEF Searches
    <2>4. CASE Kind(m) = "collect"
      <3>1. copies[c].inputs = UNION {CopiesOf(p) : p \in Parents(m)}
        BY <2>1, <2>4 DEF IInv, CollectsAll
      <3>2. CASE a \in Parents(m)
        BY <2>3, <3>1, <3>2
      <3>3. ASSUME NEW p \in Parents(m), a \in Ancestors(p) PROVE i \in Upstream(c)
        <4>1. p \in Nodes
          BY <1>1
        <4>2. PICK d \in CopiesOf(p) : i \in Upstream(d)
          <5>1. CASE a \in Iterators(p)
            BY <2>2, <4>1, <5>1, SomeCopyUnder
          <5>2. CASE a \notin Iterators(p)
            BY <2>2, <3>3, <5>2 DEF Prepared
          <5> QED BY <5>1, <5>2
        <4>3. d \in copies[c].inputs
          BY <3>1, <4>2
        <4> QED BY <2>3, <4>2, <4>3
      <3> QED BY <3>2, <3>3, AncestorCases
    <2>5. CASE Kind(m) # "collect"
      <3>1. PICK p \in Parents(m) : a \in Ancestors(p) /\ a \notin Iterators(p)
        <4>1. \A p \in Parents(m) : Iterators(p) \subseteq Iterators(m)
                                    /\ (Kind(p) = "iterate" => p \in Iterators(m))
          BY <2>5, ParentIterators
        <4> QED BY <4>1, AncestorCases
      <3>2. PICK d \in copies[c].inputs : d \in CopiesOf(p)
        BY <2>1 DEF FedByEach
      <3> QED BY <2>2, <2>3, <3>1, <3>2
    <2> QED BY <2>4, <2>5
  <1>3. Nodes \subseteq T
    <2> HIDE DEF T
    <2> QED BY <1>1, <1>2, Upwards
  <1> QED BY <1>3

\* _get_iteration_node finds a copy of each parent.
LEMMA InputsExist ==
    ASSUME IInv, InputsBefore, FedByParents, FedByEach, Searches, Combined, UnderReached,
           NEW t \in todo
    PROVE  Inputs(t) # {}
  <1>0. TypeOK /\ t.source \in Nodes /\ Fits(t.source, t.under)
    BY DEF IInv, TypeOK, Combined, UndersFit
  <1>1. CASE Kind(t.source) = "collect"
    BY <1>1 DEF Inputs
  <1>2. ASSUME Kind(t.source) # "collect", NEW p \in Parents(t.source)
        PROVE  IterationNodes(p, t.under) # {}
    <2>1. p \in Nodes /\ Prepared(p) /\ \A u \in todo : u.source # p
      BY DEF IInv, ParentsWhole, Whole, Parents
    <2>2. PICK d \in CopiesOf(p) : copies[d].under = Part(t.under, p)
      <3>1. Fits(p, Part(t.under, p))
        BY <1>0, <1>2, PartFits
      <3> QED BY <2>1, <3>1 DEF Fits, Combined, NoneMissing
    <2>3. ASSUME NEW i \in t.under, copies[i].source \in Ancestors(p)
          PROVE  i \in Upstream(d)
      <3>1. i \in CopiesOf(copies[i].source) /\ Kind(copies[i].source) = "iterate" /\ d \in Copies
        BY <1>0, <2>2, IteratorsAbove DEF Fits, CopiesOf
      <3>2. CASE copies[i].source \in Iterators(p)
        BY <2>2, <3>1, <3>2 DEF Part, UnderReached
      <3>3. CASE copies[i].source \notin Iterators(p)
        BY <2>1, <2>3, <3>1, <3>3, Reached
      <3> QED BY <3>2, <3>3
    <2> QED BY <2>2, <2>3 DEF IterationNodes
  <1>3. CASE Kind(t.source) # "collect"
    <2>1. PICK f : f = [p \in Parents(t.source) |-> CHOOSE d \in IterationNodes(p, t.under) : TRUE]
      OBVIOUS
    <2>2. \A p \in Parents(t.source) : f[p] \in IterationNodes(p, t.under)
      BY <1>2, <1>3, <2>1
    <2>3. f \in [Parents(t.source) -> Copies]
      BY <2>1, <2>2 DEF IterationNodes, CopiesOf
    <2>4. {f[p] : p \in Parents(t.source)} \in Inputs(t)
      BY <1>3, <2>2, <2>3 DEF Inputs
    <2> QED BY <2>4
  <1> QED BY <1>1, <1>3

\* What is selected was computed from each iteration of the combination.
LEMMA InputsReach ==
    ASSUME IInv, Searches, InputsBefore, Flat, Combined, UnderReached,
           NEW t \in todo, Kind(t.source) # "collect", NEW inputs \in Inputs(t),
           NEW i \in t.under
    PROVE  \E d \in inputs : i \in Upstream(d)
  <1>0. TypeOK /\ t.source \in Nodes /\ Fits(t.source, t.under)
    BY DEF IInv, TypeOK, Combined, UndersFit
  <1>1. PICK f \in [Parents(t.source) -> Copies] :
          /\ \A p \in Parents(t.source) : f[p] \in IterationNodes(p, t.under)
          /\ inputs = {f[p] : p \in Parents(t.source)}
    BY DEF Inputs
  <1>2. i \in Copies /\ copies[i].source \in {p \in Parents(t.source) : Kind(p) = "iterate"}
                                             \cup UNION {Iterators(p) : p \in Parents(t.source)}
    BY <1>0 DEF Fits, Searches
  <1>3. PICK p \in Parents(t.source) :
          (copies[i].source = p /\ Kind(p) = "iterate") \/ copies[i].source \in Iterators(p)
    BY <1>2
  <1>4. PICK d : d = f[p]
    OBVIOUS
  <1>5. /\ d \in inputs /\ d \in IterationNodes(p, t.under)
        /\ p \in Nodes /\ d \in Copies /\ d \in CopiesOf(p) /\ copies[d].source = p
    BY <1>1, <1>4 DEF IterationNodes, CopiesOf, Parents
  <1>6. CASE copies[i].source = p
    <2>1. i \in CopiesOf(p) /\ d \in Upstream(d)
      BY <1>2, <1>5, <1>6 DEF CopiesOf, Searches
    <2>2. CASE Cardinality(CopiesOf(p)) = 1
      <3>1. CopiesOf(p) = {d}
        BY <1>0, <1>5, <2>2, OnlyCopy
      <3> QED BY <1>5, <2>1, <3>1
    <2>3. CASE Cardinality(CopiesOf(p)) # 1
      <3>1. i \in CopiesOf(p) \cap t.under
        BY <2>1
      <3>2. d \in t.under
        BY <1>5, <2>3, <3>1 DEF IterationNodes
      <3>3. d = i
        BY <1>0, <1>5, <1>6, <3>1, <3>2 DEF Fits
      <3> QED BY <1>5, <2>1, <3>3
    <2> QED BY <2>2, <2>3
  <1>7. CASE copies[i].source \in Iterators(p)
    <2>1. Kind(p) # "iterate" /\ copies[i].source \in Ancestors(p)
      BY <1>0, <1>5, <1>7, IteratorsAbove DEF Flat
    <2>2. CopiesOf(p) \cap t.under = {}
      BY <1>0, <2>1, IteratorsAbove DEF Fits, CopiesOf
    <2>3. CASE CopiesOf(p) = {d}
      <3>1. \A u \in todo : u.source # p
        BY DEF IInv, ParentsWhole, Whole
      <3>2. Fits(p, Part(t.under, p)) /\ i \in Part(t.under, p)
        BY <1>0, <1>7, PartFits DEF Part
      <3>3. copies[d].under = Part(t.under, p)
        BY <1>5, <2>3, <3>1, <3>2 DEF Combined, NoneMissing, Prepared, Fits
      <3> QED BY <1>5, <3>2, <3>3 DEF UnderReached
    <2>4. CASE Cardinality(CopiesOf(p)) # 1
      BY <1>5, <2>1, <2>2, <2>4 DEF IterationNodes
    <2> QED BY <1>0, <1>5, <2>3, <2>4, OnlyCopy
  <1> QED BY <1>3, <1>6, <1>7

\* A new copy is computed in the iterations of its combination.
LEMMA InputsMatch ==
    ASSUME IInv, InputsBefore, FedByParents, Searches, Flat, Unmixed,
           Combined, MatchesIterations,
           NEW t \in todo, Kind(t.source) # "collect", NEW inputs \in Inputs(t)
    PROVE  {i \in inputs : IsIterate(i)} \cup UNION {IterationsOf(i) : i \in inputs} = t.under
  <1>0. TypeOK /\ t.source \in Nodes /\ Fits(t.source, t.under)
    BY DEF IInv, TypeOK, Combined, UndersFit
  <1>1. PICK f \in [Parents(t.source) -> Copies] :
          /\ \A p \in Parents(t.source) : f[p] \in IterationNodes(p, t.under)
          /\ inputs = {f[p] : p \in Parents(t.source)}
    BY DEF Inputs
  <1>2. ASSUME NEW p \in Parents(t.source)
        PROVE  /\ copies[f[p]].source = p
               /\ Kind(p) = "iterate" => f[p] \in t.under
               /\ IterationsOf(f[p]) = Part(t.under, p)
    <2>1. f[p] \in CopiesOf(p) /\ (Kind(p) = "iterate" => f[p] \in t.under)
          /\ copies[f[p]].under = Part(t.under, p)
      BY <1>1, Selected
    <2> QED BY <2>1 DEF CopiesOf, MatchesIterations
  <1>3. ASSUME NEW i \in t.under
        PROVE  i \in {j \in inputs : IsIterate(j)} \cup UNION {IterationsOf(j) : j \in inputs}
    <2>1. copies[i].source \in {p \in Parents(t.source) : Kind(p) = "iterate"}
                                  \cup UNION {Iterators(p) : p \in Parents(t.source)}
      BY <1>0 DEF Fits, Searches
    <2>2. CASE copies[i].source \in Parents(t.source) /\ Kind(copies[i].source) = "iterate"
      <3>1. i = f[copies[i].source]
        BY <1>0, <1>2, <2>2 DEF Fits
      <3> QED BY <1>1, <2>2, <3>1 DEF IsIterate
    <2>3. ASSUME NEW p \in Parents(t.source), copies[i].source \in Iterators(p)
          PROVE  i \in IterationsOf(f[p]) /\ f[p] \in inputs
      BY <1>1, <1>2, <2>3 DEF Part
    <2> QED BY <2>1, <2>2, <2>3
  <1>4. \A i \in inputs : (IsIterate(i) => i \in t.under) /\ IterationsOf(i) \subseteq t.under
    BY <1>1, <1>2 DEF IsIterate, Part
  <1> QED BY <1>3, <1>4

-----------------------------------------------------------------------------
(* The steps, as far as the iterations are concerned. *)

\* The searches from what is there find what they found before.
LEMMA SearchesKept ==
    ASSUME TypeOK, InputsBefore, Searches, Searches', graph' = graph,
           Copies \subseteq Copies', \A c \in Copies : copies'[c] = copies[c]
    PROVE  /\ \A n \in Nodes : Iterators(n)' = Iterators(n)
           /\ \A c \in Copies : Upstream(c)' = Upstream(c) /\ IterationsOf(c)' = IterationsOf(c)
  <1> DEFINE N == {n \in Nodes : Iterators(n)' = Iterators(n)}
             C == {c \in Copies : Upstream(c)' = Upstream(c) /\ IterationsOf(c)' = IterationsOf(c)}
  <1>1. Nodes \subseteq Nat /\ \A n \in Nodes : \A p \in Parents(n) : p \in Nodes /\ p < n
    BY GraphFacts DEF TypeOK
  <1>2. ASSUME NEW n \in Nodes, \A p \in Nodes : p < n => p \in N PROVE n \in N
    <2>1. \A p \in Parents(n) : Iterators(p)' = Iterators(p)
      BY <1>1, <1>2
    <2>2. Iterators(n) = IF Kind(n) = "collect" THEN {}
                         ELSE {p \in Parents(n) : Kind(p) = "iterate"}
                                  \cup UNION {Iterators(p) : p \in Parents(n)}
      BY DEF Searches
    <2>3. Iterators(n)' = IF Kind(n) = "collect" THEN {}
                          ELSE {p \in Parents(n) : Kind(p) = "iterate"}
                                   \cup UNION {Iterators(p)' : p \in Parents(n)}
      BY GraphUnchanged DEF Searches
    <2> QED BY <2>1, <2>2, <2>3
  <1>3. Nodes \subseteq N
    <2> HIDE DEF N
    <2> QED BY <1>1, <1>2, Upwards
  <1>4. Copies \subseteq Nat /\ \A c \in Copies : copies[c].inputs \subseteq Copies
    BY CopyFacts
  <1>5. ASSUME NEW c \in Copies, \A d \in Copies : d < c => d \in C PROVE c \in C
    <2>1. \A i \in copies[c].inputs : /\ i \in Copies
                                      /\ Upstream(i)' = Upstream(i)
                                      /\ IterationsOf(i)' = IterationsOf(i)
                                      /\ IsIterate(i)' = IsIterate(i)
      BY <1>4, <1>5, GraphUnchanged DEF InputsBefore, IsIterate
    <2>2. Upstream(c) = {c} \cup UNION {Upstream(i) : i \in copies[c].inputs}
      BY DEF Searches
    <2>3. Upstream(c)' = {c} \cup UNION {Upstream(i)' : i \in copies[c].inputs}
      BY DEF Searches
    <2>4. IterationsOf(c) = IF Kind(copies[c].source) = "collect" THEN {}
                            ELSE {i \in copies[c].inputs : IsIterate(i)}
                                     \cup UNION {IterationsOf(i) : i \in copies[c].inputs}
      BY DEF Searches
    <2>5. IterationsOf(c)' = IF Kind(copies[c].source) = "collect" THEN {}
                             ELSE {i \in copies[c].inputs : IsIterate(i)'}
                                      \cup UNION {IterationsOf(i)' : i \in copies[c].inputs}
      BY GraphUnchanged DEF Searches
    <2>6. Upstream(c)' = Upstream(c)
      BY <2>1, <2>2, <2>3
    <2>7. IterationsOf(c)' = IterationsOf(c)
      BY <2>1, <2>4, <2>5
    <2> QED BY <2>6, <2>7
  <1>6. Copies \subseteq C
    <2> HIDE DEF C
    <2> QED BY <1>4, <1>5, Upwards
  <1> QED BY <1>3, <1>6

\* The graph stays as it is, and with it what the theorem assumes of it.
LEMMA GraphKept ==
    ASSUME graph' = graph, \A n \in Nodes : Iterators(n)' = Iterators(n)
    PROVE  (Flat' <=> Flat) /\ (Unmixed' <=> Unmixed)
  <1>1. \A n : Ancestors(n)' = Ancestors(n)
    BY GraphUnchanged DEF Ancestors
  <1>2. \A n \in Nodes : \A k \in Ancestors(n) :
          (Iterators(n) \cap Ancestors(k))' = Iterators(n) \cap Ancestors(k)
    BY <1>1
  <1> QED BY <1>1, <1>2, GraphUnchanged DEF Flat, Unmixed

\* A step that adds no copy.
LEMMA NoCopyAdded ==
    ASSUME TypeOK, InputsBefore, FedByEach, UNCHANGED <<graph, copies>>
    PROVE  /\ InputsBefore' /\ FedByEach'
           /\ Copies' = Copies /\ Nodes' = Nodes
           /\ \A n : CopiesOf(n)' = CopiesOf(n) /\ Prepared(n)' = Prepared(n)
           /\ \A c : IsIterate(c)' = IsIterate(c)
  <1>1. Copies' = Copies /\ \A n : CopiesOf(n)' = CopiesOf(n)
    BY DEF Copies, CopiesOf
  <1>2. \A c : IsIterate(c)' = IsIterate(c)
    BY GraphUnchanged DEF IsIterate
  <1> QED BY <1>1, <1>2, GraphUnchanged DEF InputsBefore, FedByEach, Prepared

LEMMA OnceControl ==
    ASSUME IInv, IInv', OnceInv, UNCHANGED <<graph, copies, todo>>, pc' # "raised" \/ pc' = pc
    PROVE  OnceInv'
  <1>1. /\ InputsBefore' /\ FedByEach'
        /\ Copies' = Copies /\ Nodes' = Nodes
        /\ \A n : CopiesOf(n)' = CopiesOf(n) /\ Prepared(n)' = Prepared(n)
        /\ \A c : IsIterate(c)' = IsIterate(c)
    BY NoCopyAdded DEF IInv, OnceInv
  <1>2. Searches /\ Searches'
    <2>1. TypeOK /\ InputsBefore /\ TypeOK' /\ InputsBefore'
      BY <1>1 DEF IInv, OnceInv
    <2>2. Searches
      BY <2>1, SearchesHold
    <2>3. Searches'
      BY <2>1, SearchesHold, PTL
    <2> QED BY <2>2, <2>3
  <1>3. /\ \A n \in Nodes : Iterators(n)' = Iterators(n)
        /\ \A c \in Copies : Upstream(c)' = Upstream(c) /\ IterationsOf(c)' = IterationsOf(c)
    BY <1>1, <1>2, SearchesKept DEF IInv, OnceInv
  <1>4. (Flat' <=> Flat) /\ (Unmixed' <=> Unmixed)
    BY <1>3, GraphKept
  <1>5. ASSUME NEW n \in Nodes, NEW u PROVE Fits(n, u)' <=> Fits(n, u)
    BY <1>1, <1>3 DEF Fits
  <1>6. ASSUME Combined, UnderReached PROVE Combined' /\ UnderReached'
    <2>1. UnderReached'
      BY <1>1, <1>3, <1>6 DEF UnderReached
    <2>2. UndersFit'
      <3>1. \A c \in Copies : copies[c].source \in Nodes
        BY CopyFacts DEF IInv
      <3>2. \A t \in todo : t.source \in Nodes
        BY DEF IInv, TypeOK
      <3> QED BY <1>1, <1>5, <1>6, <3>1, <3>2 DEF Combined, UndersFit
    <2>3. NoneTwice'
      BY <1>1, <1>6 DEF Combined, NoneTwice
    <2>4. NoneMissing'
      BY <1>1, <1>5, <1>6 DEF Combined, NoneMissing
    <2> QED BY <2>1, <2>2, <2>3, <2>4 DEF Combined
  <1>7. MatchesIterations => MatchesIterations'
    BY <1>1, <1>3 DEF MatchesIterations
  <1> QED BY <1>1, <1>4, <1>6, <1>7 DEF OnceInv, NeverRaises

\* Prepare: every combination is still to get its copy.
LEMMA OncePrepare ==
    ASSUME IInv, IInv', OnceInv, Prepare
    PROVE  OnceInv'
  <1>1. PICK n \in Nodes :
          /\ IsPreparable(n)
          /\ todo' = [source : {n},
                      under : IF Kind(n) = "collect" THEN {{}} ELSE Combinations(n)]
    BY DEF Prepare
  <1>2. todo = {} /\ pc' # "raised" /\ UNCHANGED <<graph, copies>>
    BY DEF Prepare
  <1>3. /\ InputsBefore' /\ FedByEach'
        /\ Copies' = Copies /\ Nodes' = Nodes
        /\ \A m : CopiesOf(m)' = CopiesOf(m) /\ Prepared(m)' = Prepared(m)
        /\ \A c : IsIterate(c)' = IsIterate(c)
    BY <1>2, NoCopyAdded DEF IInv, OnceInv
  <1>4. Searches /\ Searches'
    <2>1. TypeOK /\ InputsBefore /\ TypeOK' /\ InputsBefore'
      BY <1>3 DEF IInv, OnceInv
    <2>2. Searches
      BY <2>1, SearchesHold
    <2>3. Searches'
      BY <2>1, SearchesHold, PTL
    <2> QED BY <2>2, <2>3
  <1>5. /\ \A m \in Nodes : Iterators(m)' = Iterators(m)
        /\ \A c \in Copies : Upstream(c)' = Upstream(c) /\ IterationsOf(c)' = IterationsOf(c)
    BY <1>2, <1>3, <1>4, SearchesKept DEF IInv, OnceInv
  <1>6. (Flat' <=> Flat) /\ (Unmixed' <=> Unmixed)
    BY <1>2, <1>5, GraphKept
  <1>7. ASSUME NEW m \in Nodes, NEW u PROVE Fits(m, u)' <=> Fits(m, u)
    BY <1>2, <1>3, <1>5 DEF Fits
  <1>8. \A u : Fits(n, u) <=> u \in (IF Kind(n) = "collect" THEN {{}} ELSE Combinations(n))
    <2>1. CASE Kind(n) = "collect"
      <3>1. Iterators(n) = {}
        BY <1>4, <2>1 DEF Searches
      <3> QED BY <2>1, <3>1 DEF Fits
    <2>2. CASE Kind(n) # "collect"
      BY <2>2, CombinationsFit
    <2> QED BY <2>1, <2>2
  <1>9. CopiesOf(n) = {}
    BY <1>1 DEF IsPreparable, Prepared
  <1>10. /\ \A t \in todo' : t.source = n /\ Fits(n, t.under)
         /\ \A u : Fits(n, u) => \E t \in todo' : t.source = n /\ t.under = u
    <2>1. \A t \in todo' : t.source = n /\ Fits(n, t.under)
      BY <1>1, <1>8
    <2>2. ASSUME NEW u, Fits(n, u) PROVE \E t \in todo' : t.source = n /\ t.under = u
      <3>1. [source |-> n, under |-> u] \in todo'
        BY <1>1, <1>8, <2>2
      <3> QED BY <3>1
    <2> QED BY <2>1, <2>2
  <1>11. ASSUME Combined, UnderReached PROVE Combined' /\ UnderReached'
    <2>1. UnderReached'
      BY <1>2, <1>3, <1>5, <1>11 DEF UnderReached
    <2>2. UndersFit'
      <3>1. \A c \in Copies : copies[c].source \in Nodes
        BY CopyFacts DEF IInv
      <3>2. \A c \in Copies' : Fits(copies[c].source, copies[c].under)'
        BY <1>2, <1>3, <1>7, <1>11, <3>1 DEF Combined, UndersFit
      <3>3. \A t \in todo' : Fits(t.source, t.under)'
        BY <1>7, <1>10
      <3> QED BY <3>2, <3>3 DEF UndersFit
    <2>3. NoneTwice'
      BY <1>2, <1>3, <1>9, <1>10, <1>11 DEF Combined, NoneTwice
    <2>4. NoneMissing'
      <3> SUFFICES ASSUME NEW m \in Nodes, NEW u \in SUBSET Copies, Fits(m, u),
                          Prepared(m) \/ \E t \in todo' : t.source = m
                   PROVE  \/ \E c \in CopiesOf(m) : copies[c].under = u
                          \/ \E t \in todo' : t.source = m /\ t.under = u
        BY <1>2, <1>3, <1>7 DEF NoneMissing
      <3>1. CASE m = n
        BY <1>10, <3>1
      <3>2. CASE m # n
        BY <1>2, <1>10, <1>11, <3>2 DEF Combined, NoneMissing
      <3> QED BY <3>1, <3>2
    <2> QED BY <2>1, <2>2, <2>3, <2>4 DEF Combined
  <1>12. MatchesIterations => MatchesIterations'
    BY <1>2, <1>3, <1>5 DEF MatchesIterations
  <1> QED BY <1>2, <1>3, <1>6, <1>11, <1>12 DEF OnceInv, NeverRaises

\* The inputs of a new copy come from each parent.
LEMMA InputsFromEach ==
    ASSUME IInv, NEW t \in todo, NEW inputs \in Inputs(t), NEW p \in Parents(t.source)
    PROVE  inputs \cap CopiesOf(p) # {}
  <1>1. CASE Kind(t.source) = "collect"
    <2>1. inputs = UNION {CopiesOf(q) : q \in Parents(t.source)}
      BY <1>1 DEF Inputs
    <2>2. CopiesOf(p) # {}
      BY DEF IInv, ParentsWhole, Whole, Prepared
    <2> QED BY <2>1, <2>2
  <1>2. CASE Kind(t.source) # "collect"
    <2>1. PICK f \in [Parents(t.source) -> Copies] :
            /\ \A q \in Parents(t.source) : f[q] \in IterationNodes(q, t.under)
            /\ inputs = {f[q] : q \in Parents(t.source)}
      BY <1>2 DEF Inputs
    <2>2. f[p] \in CopiesOf(p)
      BY <2>1 DEF IterationNodes
    <2> QED BY <2>1, <2>2
  <1> QED BY <1>1, <1>2

\* CreateExecutionNode: the combination at hand gets its copy, or one for each
\* element of the collection.
LEMMA OnceCreate ==
    ASSUME IInv, IInv', OnceInv, FedByParents, CreateExecutionNode
    PROVE  OnceInv'
  <1>1. PICK t \in todo : t = CHOOSE x \in todo : TRUE
    BY DEF CreateExecutionNode
  <1>2. PICK inputs \in Inputs(t) : copies' = copies \o NewCopies(t, inputs)
    BY <1>1 DEF CreateExecutionNode
  <1>3. /\ todo' = todo \ {t}
        /\ pc' # "raised" /\ graph' = graph /\ results' = results
    BY <1>1 DEF CreateExecutionNode
  <1> DEFINE n == t.source
             k == Count(t, inputs)
             new == Copies' \ Copies
  <1>4. /\ inputs \subseteq Copies
        /\ k \in Nat
        /\ Copies \subseteq Copies'
        /\ \A c \in Copies : copies'[c] = copies[c]
        /\ \A c \in new : /\ copies'[c].source = n /\ copies'[c].inputs = inputs
                          /\ copies'[c].under = t.under
        /\ Copies = 1 .. Len(copies) /\ Len(copies) \in Nat
        /\ Copies' = 1 .. Len(copies) + k
    <2>1. /\ inputs \subseteq Copies
          /\ Count(t, inputs) \in Nat
          /\ Copies \subseteq Copies'
          /\ \A c \in Copies : copies'[c] = copies[c]
          /\ \A c \in Copies' \ Copies : /\ copies'[c].source = t.source
                                        /\ copies'[c].index < Count(t, inputs)
                                        /\ copies'[c].inputs = inputs
                                        /\ copies'[c].under = t.under
          /\ Copies = 1 .. Len(copies) /\ Len(copies) \in Nat
          /\ Copies' = 1 .. Len(copies) + Count(t, inputs)
      <3> HIDE DEF n, k, new
      <3> QED BY <1>2, <1>3, CreateFacts, Zenon
    <2> QED BY <2>1
  <1>5. /\ n \in Nodes /\ Whole(n) /\ \A u \in todo : u.source = n
    BY DEF IInv, TypeOK, ParentsWhole, Preparing
  <1>6. /\ \A m : m # n => CopiesOf(m)' = CopiesOf(m)
        /\ CopiesOf(n)' = CopiesOf(n) \cup new
    BY <1>4 DEF CopiesOf
  <1>7. \A c \in Copies : /\ copies[c].source \in Nodes
                          /\ copies[c].inputs \subseteq Copies /\ copies[c].under \subseteq Copies
    BY CopyFacts DEF IInv
  <1> HIDE DEF new, k
  <1>8. \A c \in Copies' : c \in Copies \/ (c \in new /\ \A d \in Copies : d < c)
    BY <1>4 DEF new
  <1>9. InputsBefore'
    BY <1>4, <1>7, <1>8 DEF OnceInv, InputsBefore
  <1>10. FedByEach'
    <2>1. ASSUME NEW c \in Copies', NEW p \in Parents(copies'[c].source)
          PROVE  copies'[c].inputs \cap CopiesOf(p) # {}
      <3>1. CASE c \in Copies
        BY <1>4, <2>1, <3>1 DEF OnceInv, FedByEach
      <3>2. CASE c \in new
        BY <1>4, <2>1, <3>2, InputsFromEach
      <3> QED BY <1>8, <3>1, <3>2
    <2> QED BY <1>3, <1>6, <2>1, GraphUnchanged DEF FedByEach
  <1>11. Searches /\ Searches'
    <2>1. TypeOK /\ InputsBefore /\ TypeOK' /\ InputsBefore'
      BY <1>9 DEF IInv, OnceInv
    <2>2. Searches
      BY <2>1, SearchesHold
    <2>3. Searches'
      BY <2>1, SearchesHold, PTL
    <2> QED BY <2>2, <2>3
  <1>12. /\ \A m \in Nodes : Iterators(m)' = Iterators(m)
         /\ \A c \in Copies : Upstream(c)' = Upstream(c) /\ IterationsOf(c)' = IterationsOf(c)
    BY <1>3, <1>4, <1>11, SearchesKept DEF IInv, OnceInv
  <1>13. (Flat' <=> Flat) /\ (Unmixed' <=> Unmixed)
    BY <1>3, <1>12, GraphKept
  <1>14. /\ \A c \in Copies : IsIterate(c)' <=> IsIterate(c)
         /\ \A c \in new : IsIterate(c)' <=> Kind(n) = "iterate"
    BY <1>3, <1>4, GraphUnchanged DEF IsIterate
  <1>15. ASSUME NEW m \in Nodes, NEW u \in SUBSET Copies PROVE Fits(m, u)' <=> Fits(m, u)
    <2>1. u \subseteq Copies' /\ \A i \in u : copies'[i] = copies[i]
      BY <1>4
    <2>2. Iterators(m)' = Iterators(m)
      BY <1>12
    <2> QED BY <2>1, <2>2 DEF Fits
  <1>16. ASSUME Flat, Combined, UnderReached PROVE Combined' /\ UnderReached'
    <2>0. Fits(n, t.under) /\ t.under \in SUBSET Copies
      BY <1>16 DEF Combined, UndersFit, Fits
    <2>1. UnderReached'
      <3>1. ASSUME NEW c \in new, NEW i \in t.under PROVE i \in Upstream(c)'
        <4>1. Kind(n) # "collect"
          BY <1>5, <1>11, <2>0 DEF Fits, Searches
        <4>2. PICK d \in inputs : i \in Upstream(d)
          BY <1>11, <1>16, <4>1, InputsReach DEF OnceInv
        <4>3. d \in Copies /\ i \in Upstream(d)'
          BY <1>4, <1>12, <4>2
        <4>4. Upstream(c)' = {c} \cup UNION {Upstream(b)' : b \in inputs}
          BY <1>4, <1>11, <3>1 DEF Searches, new
        <4> QED BY <4>3, <4>4
      <3> QED BY <1>4, <1>8, <1>12, <1>16, <3>1 DEF UnderReached
    <2>2. UndersFit'
      <3>1. ASSUME NEW c \in Copies' PROVE Fits(copies[c].source, copies[c].under)'
        <4>1. CASE c \in Copies
          <5>1. Fits(copies[c].source, copies[c].under)
            BY <1>16, <4>1 DEF Combined, UndersFit
          <5> QED BY <1>4, <1>7, <1>15, <4>1, <5>1
        <4>2. CASE c \in new
          BY <1>4, <1>5, <1>15, <2>0, <4>2
        <4> QED BY <1>8, <4>1, <4>2
      <3>2. ASSUME NEW u \in todo' PROVE Fits(u.source, u.under)'
        <4>1. Fits(n, u.under) /\ u.source = n
          BY <1>3, <1>5, <1>16 DEF Combined, UndersFit
        <4>2. u.under \in SUBSET Copies
          BY <4>1 DEF Fits
        <4> QED BY <1>5, <1>15, <4>1, <4>2
      <3> QED BY <3>1, <3>2 DEF UndersFit
    <2>3. NoneTwice'
      <3>1. ASSUME NEW c \in Copies', NEW d \in Copies', copies'[c].source = copies'[d].source,
                   ~IsIterate(c)', copies'[c].under = copies'[d].under
            PROVE  c = d
        <4>1. CASE c \in Copies /\ d \in Copies
          BY <1>4, <1>14, <1>16, <3>1, <4>1 DEF Combined, NoneTwice
        <4>2. CASE c \in Copies /\ d \in new
          BY <1>4, <1>16, <3>1, <4>2 DEF Combined, NoneTwice, CopiesOf
        <4>3. CASE c \in new /\ d \in Copies
          BY <1>4, <1>16, <3>1, <4>3 DEF Combined, NoneTwice, CopiesOf
        <4>4. CASE c \in new /\ d \in new
          <5>1. k = 1
            BY <1>14, <3>1, <4>4 DEF k, Count
          <5> QED BY <1>4, <4>4, <5>1 DEF new
        <4> QED BY <1>8, <4>1, <4>2, <4>3, <4>4
      <3>2. ASSUME NEW u \in todo', NEW c \in CopiesOf(u.source)' PROVE copies'[c].under # u.under
        <4>1. u \in todo /\ u # t /\ u.source = n
          BY <1>3, <1>5
        <4>2. CASE c \in CopiesOf(n)
          BY <1>4, <1>16, <4>1, <4>2 DEF Combined, NoneTwice, CopiesOf
        <4>3. CASE c \in new
          <5>1. u = [source |-> n, under |-> u.under] /\ t = [source |-> n, under |-> t.under]
            BY <4>1 DEF IInv, TypeOK
          <5> QED BY <1>4, <4>1, <4>3, <5>1
        <4> QED BY <1>6, <4>1, <4>2, <4>3
      <3> QED BY <3>1, <3>2 DEF NoneTwice
    <2>4. NoneMissing'
      <3> SUFFICES ASSUME NEW m \in Nodes, NEW u \in SUBSET Copies', Fits(m, u)',
                          Prepared(m)' \/ \E v \in todo' : v.source = m
                   PROVE  \/ \E c \in CopiesOf(m)' : copies'[c].under = u
                          \/ \E v \in todo' : v.source = m /\ v.under = u
        BY <1>3, GraphUnchanged DEF NoneMissing
      <3>1. Whole(m) /\ (m # n => Prepared(m))
        <4>1. CASE m = n
          BY <1>5, <4>1
        <4>2. CASE m # n
          <5>1. Prepared(m)
            BY <1>3, <1>5, <1>6, <4>2 DEF Prepared
          <5> QED BY <5>1 DEF IInv, ParentsWhole, Prepared, CopiesOf
        <4> QED BY <4>1, <4>2
      <3>2. n \notin Iterators(m)
        <4>1. \A a \in Iterators(m) : a \in Ancestors(m)
          BY <1>11, IteratorsAbove DEF IInv
        <4> QED BY <3>1, <4>1, AncestorsWhole DEF IInv
      <3>3. u \in SUBSET Copies
        <4> SUFFICES ASSUME NEW i \in u, i \in new PROVE FALSE
          BY <1>8
        <4>1. copies'[i].source \in Iterators(m)
          BY <1>12 DEF Fits
        <4> QED BY <1>4, <3>2, <4>1
      <3>4. Fits(m, u)
        BY <1>15, <3>3
      <3>5. \/ \E c \in CopiesOf(m) : copies[c].under = u
            \/ \E v \in todo : v.source = m /\ v.under = u
        BY <1>16, <3>1, <3>3, <3>4 DEF Combined, NoneMissing
      <3>6. ASSUME NEW c \in CopiesOf(m), copies[c].under = u
            PROVE  c \in CopiesOf(m)' /\ copies'[c].under = u
        BY <1>4, <3>6 DEF CopiesOf
      <3>7. ASSUME m = n, u = t.under, \A c \in CopiesOf(n) : copies[c].under # u
            PROVE  \/ \E c \in CopiesOf(m)' : copies'[c].under = u
                   \/ \E v \in todo' : v.source = m /\ v.under = u
        <4>1. CASE k > 0
          <5>1. Len(copies) + 1 \in new
            BY <1>4, <4>1 DEF new
          <5> QED BY <1>4, <1>6, <3>7, <5>1
        <4>2. CASE k = 0
          <5>1. Kind(n) = "iterate"
            BY <4>2 DEF k, Count
          <5>2. Iterators(n) = {}
            BY <1>5, <1>16, <5>1 DEF Flat
          <5>3. \A v : Fits(n, v) => v = {}
            BY <5>2 DEF Fits
          <5>4. todo' = {}
            <6> SUFFICES ASSUME NEW v \in todo, v # t PROVE FALSE
              BY <1>3
            <6>1. v = [source |-> n, under |-> v.under] /\ t = [source |-> n, under |-> t.under]
              BY <1>5 DEF IInv, TypeOK
            <6>2. v.under = {} /\ t.under = {}
              BY <1>5, <1>16, <5>3 DEF Combined, UndersFit
            <6> QED BY <6>1, <6>2
          <5>5. new = {}
            BY <1>4, <4>2 DEF new
          <5>6. PICK c \in CopiesOf(n) : TRUE
            BY <1>6, <3>7, <5>4, <5>5 DEF Prepared
          <5>7. copies[c].under = {} /\ t.under = {}
            BY <1>16, <2>0, <5>3, <5>6 DEF Combined, UndersFit, CopiesOf
          <5> QED BY <3>7, <5>7
        <4> QED BY <1>4, <4>1, <4>2
      <3>8. CASE \E c \in CopiesOf(m) : copies[c].under = u
        BY <3>6, <3>8
      <3>9. CASE \A c \in CopiesOf(m) : copies[c].under # u
        <4>1. PICK v \in todo : v.source = m /\ v.under = u
          BY <3>5, <3>9
        <4>2. m = n
          BY <1>5, <4>1
        <4>3. CASE v = t
          BY <3>7, <3>9, <4>1, <4>2, <4>3
        <4>4. CASE v # t
          BY <1>3, <4>1, <4>4
        <4> QED BY <4>3, <4>4
      <3> QED BY <3>8, <3>9
    <2> QED BY <2>1, <2>2, <2>3, <2>4 DEF Combined
  <1>17. ASSUME Flat, Unmixed, Combined, MatchesIterations PROVE MatchesIterations'
    <2>0. Fits(n, t.under)
      BY <1>17 DEF Combined, UndersFit
    <2>1. ASSUME NEW c \in new PROVE IterationsOf(c)' = t.under
      <3>1. CASE Kind(n) = "collect"
        <4>1. IterationsOf(c)' = {}
          BY <1>3, <1>4, <1>11, <2>1, <3>1, GraphUnchanged DEF Searches, new
        <4>2. Iterators(n) = {}
          BY <1>5, <1>11, <3>1 DEF Searches
        <4> QED BY <2>0, <4>1, <4>2 DEF Fits
      <3>2. CASE Kind(n) # "collect"
        <4>1. IterationsOf(c)' = {i \in inputs : IsIterate(i)'}
                                    \cup UNION {IterationsOf(i)' : i \in inputs}
          BY <1>3, <1>4, <1>11, <2>1, <3>2, GraphUnchanged DEF Searches, new
        <4>2. \A i \in inputs : /\ IsIterate(i)' <=> IsIterate(i)
                                /\ IterationsOf(i)' = IterationsOf(i)
          BY <1>4, <1>12, <1>14
        <4>3. {i \in inputs : IsIterate(i)} \cup UNION {IterationsOf(i) : i \in inputs} = t.under
          BY <1>11, <1>17, <3>2, InputsMatch DEF OnceInv
        <4> QED BY <4>1, <4>2, <4>3
      <3> QED BY <3>1, <3>2
    <2> QED BY <1>4, <1>8, <1>12, <1>17, <2>1 DEF MatchesIterations
  <1> QED BY <1>3, <1>9, <1>10, <1>13, <1>16, <1>17 DEF OnceInv, NeverRaises

\* _prepare fails for no combination, if nothing is nested.
LEMMA OnceRaises ==
    ASSUME IInv, IInv', OnceInv, FedByParents, CreateExecutionNodeRaises
    PROVE  OnceInv'
  <1>1. /\ UNCHANGED <<graph, copies>>
        /\ todo # {} /\ Inputs(CHOOSE t \in todo : TRUE) = {}
    BY DEF CreateExecutionNodeRaises
  <1>2. InputsBefore' /\ FedByEach' /\ Copies' = Copies
    BY <1>1, NoCopyAdded DEF IInv, OnceInv
  <1>3. Searches /\ Searches'
    <2>1. TypeOK /\ InputsBefore /\ TypeOK' /\ InputsBefore'
      BY <1>2 DEF IInv, OnceInv
    <2>2. Searches
      BY <2>1, SearchesHold
    <2>3. Searches'
      BY <2>1, SearchesHold, PTL
    <2> QED BY <2>2, <2>3
  <1>4. ~(Combined /\ UnderReached)
    <2>1. PICK t \in todo : t = CHOOSE x \in todo : TRUE
      BY <1>1
    <2> QED BY <1>1, <1>3, <2>1, InputsExist DEF OnceInv
  <1>5. (Flat' <=> Flat) /\ (Unmixed' <=> Unmixed)
    <2>1. \A n \in Nodes : Iterators(n)' = Iterators(n)
      BY <1>1, <1>2, <1>3, SearchesKept DEF IInv, OnceInv
    <2> QED BY <1>1, <2>1, GraphKept
  <1> QED BY <1>2, <1>4, <1>5 DEF OnceInv, NeverRaises

LEMMA OnceKept == IInv /\ IInv' /\ EndInv /\ OnceInv /\ [Next]_vars => OnceInv'
  <1> SUFFICES ASSUME IInv, IInv', EndInv, OnceInv, [Next]_vars PROVE OnceInv'
    OBVIOUS
  <1>0. FedByParents /\ (pc \in {"next", "prepared", "run"} => todo = {})
    BY DEF EndInv, IInv, Preparing
  <1>1. CASE \E c \in Copies : GetNextNode(c)
    BY <1>1, OnceControl DEF GetNextNode
  <1>2. CASE NothingReady
    BY <1>2, OnceControl DEF NothingReady
  <1>3. CASE Prepare
    BY <1>3, OncePrepare
  <1>4. CASE NothingPreparable
    BY <1>4, OnceControl DEF NothingPreparable
  <1>5. CASE CreateExecutionNode
    BY <1>0, <1>5, OnceCreate
  <1>6. CASE CreateExecutionNodeRaises
    BY <1>0, <1>6, OnceRaises
  <1>7. CASE NoNext
    BY <1>7, OnceControl DEF NoNext
  <1>8. CASE Complete
    <2>1. pc' # "raised" /\ UNCHANGED <<graph, copies, todo>>
      BY <1>8 DEF Complete
    <2> QED BY <2>1, OnceControl
  <1>9. CASE SetNodeError
    BY <1>9, OnceControl DEF SetNodeError
  <1>10. CASE UNCHANGED vars
    BY <1>10, OnceControl DEF vars
  <1> QED BY <1>1, <1>2, <1>3, <1>4, <1>5, <1>6, <1>7, <1>8, <1>9, <1>10 DEF Next, Step

LEMMA InitOnce == Init => EndInv /\ OnceInv
  <1> SUFFICES ASSUME Init PROVE EndInv /\ OnceInv
    OBVIOUS
  <1>1. Copies = {} /\ todo = {} /\ pc = "next" /\ \A n : CopiesOf(n) = {}
    BY DEF Init, Copies, CopiesOf
  <1>2. EndInv
    BY <1>1 DEF EndInv, FedByParents, GivesUp, EndsComplete
  <1>3. Combined /\ UnderReached /\ MatchesIterations
    BY <1>1 DEF Combined, UndersFit, NoneTwice, NoneMissing, UnderReached, MatchesIterations, Prepared
  <1> QED BY <1>1, <1>2, <1>3 DEF OnceInv, InputsBefore, FedByEach, NeverRaises

LEMMA OnceInvariance == Spec => [](IInv /\ EndInv /\ OnceInv)
  BY InitIInv, InitOnce, StepIInv, EndKept, OnceKept, PTL DEF Spec

\* _prepare and _get_iteration_node: in any graph without nested iterations,
\* every combination of the elements above a node gets exactly one copy; if
\* nothing draws on an iteration and on what is collected over it, this copy is
\* computed from copies in its own iterations.
THEOREM OncePerCombinationAlways == Spec => []OncePerCombination
  <1>1. IInv /\ OnceInv => OncePerCombination
    <2> SUFFICES ASSUME IInv, OnceInv, Flat, NEW n \in Nodes, Prepared(n), todo = {}
                 PROVE  /\ {copies[c].under : c \in CopiesOf(n)} =
                              (IF Kind(n) = "collect" THEN {{}} ELSE Combinations(n))
                        /\ Kind(n) # "iterate" =>
                              \A c, d \in CopiesOf(n) : copies[c].under = copies[d].under => c = d
      BY DEF OncePerCombination, OnceInv
    <2>1. Combined /\ Searches /\ TypeOK
      BY SearchesHold DEF OnceInv, IInv
    <2>2. \A c \in CopiesOf(n) : c \in Copies /\ copies[c].source = n
      BY DEF CopiesOf
    <2>3. \A u : Fits(n, u) <=> \E c \in CopiesOf(n) : copies[c].under = u
      <3>1. UndersFit /\ NoneMissing
        BY <2>1 DEF Combined
      <3>2. ASSUME NEW u, Fits(n, u) PROVE \E c \in CopiesOf(n) : copies[c].under = u
        <4>1. u \in SUBSET Copies
          BY <3>2 DEF Fits
        <4> QED BY <3>1, <3>2, <4>1 DEF NoneMissing
      <3>3. ASSUME NEW c \in CopiesOf(n) PROVE Fits(n, copies[c].under)
        BY <3>1, <2>2 DEF UndersFit
      <3> QED BY <3>2, <3>3
    <2>4. \A u : Fits(n, u) <=> u \in (IF Kind(n) = "collect" THEN {{}} ELSE Combinations(n))
      <3>1. CASE Kind(n) = "collect"
        <4>1. Iterators(n) = {}
          BY <2>1, <3>1 DEF Searches
        <4> QED BY <3>1, <4>1 DEF Fits
      <3>2. CASE Kind(n) # "collect"
        BY <3>2, CombinationsFit
      <3> QED BY <3>1, <3>2
    <2>5. \A u : u \in {copies[c].under : c \in CopiesOf(n)} <=>
                    u \in (IF Kind(n) = "collect" THEN {{}} ELSE Combinations(n))
      BY <2>3, <2>4
    <2>6. Kind(n) # "iterate" =>
            \A c, d \in CopiesOf(n) : copies[c].under = copies[d].under => c = d
      BY <2>1, <2>2 DEF Combined, NoneTwice, IsIterate
    <2> QED BY <2>5, <2>6
  <1> QED BY <1>1, OnceInvariance, PTL

\* _get_iteration_node returns a node, never None, in any graph without nested
\* iterations, so that no edge from None makes next() raise.
THEOREM NextNeverRaises == Spec => []NeverRaises
  <1>1. OnceInv => NeverRaises
    BY DEF OnceInv
  <1> QED BY <1>1, OnceInvariance, PTL

-----------------------------------------------------------------------------
(* The order of the branches. *)

LEMMA NextIsEarliest ==
    ASSUME TypeOK, InputsBefore, Searches, NEW c \in Copies, IsNextNode(c)
    PROVE  Earliest(c)
  <1> SUFFICES ASSUME {i \in Upstream(c) : IsIterate(i)} \subseteq {c} \cup IterationsOf(c),
                      NEW i \in Copies, NEW j \in Copies,
                      IsIterate(i), copies[i].index < copies[j].index, InIteration(c, j),
                      NEW d \in Ready, InIteration(d, i)
               PROVE  FALSE
    BY DEF Earliest
  <1>1. d \in Copies /\ d \in Upstream(d) /\ IterationsOf(d) \subseteq Upstream(d)
    BY IterationsUpstream DEF Ready, Searches
  <1>2. i \in Upstream(d)
    BY <1>1 DEF InIteration
  <1>3. d \in ReadyUnder(i)
    BY <1>2 DEF ReadyUnder
  <1>4. PICK b \in Copies : IsIterate(b) /\ c \in ReadyUnder(b) /\ Before(b, i)
    BY <1>3 DEF IsNextNode
  <1>5. b = j
    BY <1>4 DEF ReadyUnder, InIteration
  <1>6. copies[i].index \in Nat /\ copies[j].index \in Nat
    BY CopyFacts
  <1> QED BY <1>4, <1>5, <1>6 DEF Before

LEMMA EarliestKept ==
    ASSUME IInv, IInv', OnceInv, OnceInv', UNCHANGED <<graph, copies, results>>, NEW c \in Copies
    PROVE  Earliest(c)' <=> Earliest(c)
  <1>1. /\ Copies' = Copies /\ Executed' = Executed
        /\ \A d : IsIterate(d)' = IsIterate(d)
    BY NoCopyAdded DEF IInv, OnceInv, Executed
  <1>2. Ready' = Ready /\ Ready \subseteq Copies
    BY <1>1 DEF Ready
  <1>3. Searches /\ Searches'
    <2>1. TypeOK /\ InputsBefore /\ TypeOK' /\ InputsBefore'
      BY DEF IInv, OnceInv
    <2>2. Searches
      BY <2>1, SearchesHold
    <2>3. Searches'
      BY <2>1, SearchesHold, PTL
    <2> QED BY <2>2, <2>3
  <1>4. \A d \in Copies : Upstream(d)' = Upstream(d) /\ IterationsOf(d)' = IterationsOf(d)
    BY <1>1, <1>3, SearchesKept DEF IInv, OnceInv
  <1>5. \A d, i \in Copies : InIteration(d, i)' <=> InIteration(d, i)
    BY <1>1, <1>4 DEF InIteration
  <1>6. {i \in Upstream(c) : IsIterate(i)}' = {i \in Upstream(c) : IsIterate(i)}
    BY <1>1, <1>4
  <1> QED BY <1>1, <1>2, <1>4, <1>5, <1>6 DEF Earliest

LEMMA DepthKept ==
    IInv /\ IInv' /\ OnceInv /\ OnceInv' /\ DepthFirst /\ [Next]_vars => DepthFirst'
  <1> SUFFICES ASSUME IInv, IInv', OnceInv, OnceInv', DepthFirst, [Next]_vars, pc' = "run"
               PROVE  Earliest(node)'
    BY DEF DepthFirst
  <1>1. ASSUME NEW c \in Copies, GetNextNode(c) PROVE Earliest(node)'
    <2>1. IsNextNode(c) /\ node' = c /\ UNCHANGED <<graph, copies, results>>
      BY <1>1 DEF GetNextNode
    <2>2. TypeOK /\ InputsBefore /\ Searches
      BY SearchesHold DEF IInv, OnceInv
    <2>3. Earliest(c)
      BY <2>1, <2>2, NextIsEarliest
    <2>4. Earliest(c)'
      BY <2>1, <2>3, EarliestKept
    <2> QED BY <2>1, <2>4
  <1>2. CASE UNCHANGED vars
    <2>1. UNCHANGED <<graph, copies, results, pc, node>>
      BY <1>2 DEF vars
    <2>2. node \in Copies /\ Earliest(node)
      BY <2>1 DEF IInv, RunsReady, DepthFirst
    <2>3. PICK c \in Copies : c = node
      BY <2>2
    <2>4. Earliest(c)'
      BY <2>1, <2>2, <2>3, EarliestKept
    <2> QED BY <2>1, <2>3, <2>4
  <1>3. CASE NothingReady \/ Prepare \/ NothingPreparable \/ CreateExecutionNode
               \/ CreateExecutionNodeRaises \/ NoNext \/ Complete \/ SetNodeError
    BY <1>3 DEF NothingReady, Prepare, NothingPreparable, CreateExecutionNode,
                CreateExecutionNodeRaises, NoNext, Complete, SetNodeError
  <1> QED BY <1>1, <1>2, <1>3 DEF Next, Step

\* _get_next_node: when a copy of an iteration is chosen, and until it has run,
\* nothing in an earlier iteration of the same iterator could have run instead,
\* in any graph, nested iterations included.
THEOREM DepthFirstAlways == Spec => []DepthFirst
  <1>1. Init => DepthFirst
    BY DEF Init, DepthFirst
  <1> QED BY <1>1, OnceInvariance, DepthKept, PTL DEF Spec
=============================================================================
