------------------------ MODULE WorkflowEditorProofs ------------------------
(***************************************************************************)
(* Theorems about WorkflowEditor, for any nodes, inputs, form elements,     *)
(* limit of the history, workflows to begin with and number of edits.       *)
(***************************************************************************)
EXTENDS WorkflowEditor, RecursionFacts, FiniteSetTheorems, TLAPS

LEMMA Constants ==
    /\ Limit \in Nat /\ Limit > 1
    /\ Root \notin ElementIds /\ None \notin NodeIds \cup ElementIds \cup {Root}
    /\ MaxEdits \in Nat
    /\ \A i \in Inputs : i \notin {"generated", "pasted"}
  BY NodeGraphAssumption, WorkflowEditorAssumption

-----------------------------------------------------------------------------
(* The history. *)

Good(g) == g \in Graph /\ WellFormed(g)

\* Every state that the editor has or could go back to is a good graph.
HistoryInv(h) ==
    /\ h \in History
    /\ Len(h.past) + Len(h.future) < Limit
    /\ \A k \in 1 .. Len(h.past) : Good(h.past[k])
    /\ \A k \in 1 .. Len(h.future) : Good(h.future[k])
    /\ Good(h.present) /\ Good(h.latest)

LEMMA HistorySnapshots ==
    ASSUME NEW h, HistoryInv(h)
    PROVE  \A g \in Snapshots(h) : Good(g)
  BY DEF HistoryInv, Snapshots, History

LEMMA AppendGood ==
    ASSUME NEW s \in Seq(Graph), \A k \in 1 .. Len(s) : Good(s[k]), NEW g, Good(g)
    PROVE  /\ Append(s, g) \in Seq(Graph) /\ Len(Append(s, g)) = Len(s) + 1
           /\ \A k \in 1 .. Len(s) + 1 : Good(Append(s, g)[k])
  BY DEF Good

LEMMA TailGood ==
    ASSUME NEW s \in Seq(Graph), \A k \in 1 .. Len(s) : Good(s[k]), s # <<>>
    PROVE  /\ Tail(s) \in Seq(Graph) /\ Len(Tail(s)) = Len(s) - 1
           /\ \A k \in 1 .. Len(s) - 1 : Good(Tail(s)[k])
           /\ Good(Head(s))
  OBVIOUS

LEMMA HistoryLengths ==
    ASSUME NEW h, HistoryInv(h)
    PROVE  /\ h.past \in Seq(Graph) /\ h.future \in Seq(Graph)
           /\ Len(h.past) \in Nat /\ Len(h.future) \in Nat
           /\ Len(h.past) + Len(h.future) < Limit
  BY DEF HistoryInv, History

LEMMA InsertedKept ==
    ASSUME NEW h, HistoryInv(h), NEW g, Good(g), NEW grouped \in BOOLEAN
    PROVE  HistoryInv(Inserted(h, g, grouped)) /\ Inserted(h, g, grouped).present = g
  <1>0. /\ h.past \in Seq(Graph) /\ h.future \in Seq(Graph)
        /\ Len(h.past) \in Nat /\ Len(h.future) \in Nat
        /\ Len(h.past) + Len(h.future) < Limit
    BY HistoryLengths
  <1>1. PICK kept : kept = IF Len(h.past) + 1 >= Limit THEN Tail(h.past) ELSE h.past
    OBVIOUS
  <1>2. \A k \in 1 .. Len(h.past) : Good(h.past[k])
    BY DEF HistoryInv
  <1>3. kept \in Seq(Graph) /\ \A k \in 1 .. Len(kept) : Good(kept[k])
    <2>1. CASE Len(h.past) + 1 >= Limit
      <3>1. h.past # <<>>
        BY <2>1, <1>0, Constants
      <3> QED BY <1>1, <1>2, <2>1, <3>1, <1>0, TailGood
    <2>2. CASE ~(Len(h.past) + 1 >= Limit)
      BY <1>1, <1>2, <2>2, <1>0
    <2> QED BY <2>1, <2>2
  <1>4. Len(kept) + 1 < Limit
    <2>1. PICK p, f : p = Len(h.past) /\ f = Len(h.future)
      OBVIOUS
    <2>8. p \in Nat /\ f \in Nat /\ p + f < Limit
      BY <2>1, <1>0
    <2>2. p \in Nat /\ p < Limit
      BY <2>8, Constants
    <2>3. CASE p + 1 >= Limit
      <3>1. Len(kept) = p - 1
        BY <1>1, <2>1, <2>2, <2>3, Constants, <1>0
      <3> QED BY <2>2, <3>1, Constants
    <2>4. CASE ~(p + 1 >= Limit)
      BY <1>1, <2>1, <2>2, <2>4, Constants
    <2> QED BY <2>3, <2>4
  <1>5. Inserted(h, g, grouped) = [past |-> Append(kept, h.latest), present |-> g, future |-> <<>>,
                                   latest |-> g, grouped |-> grouped]
    BY <1>1 DEF Inserted
  <1>6. Good(h.latest) /\ g \in Graph
    BY DEF HistoryInv, Good
  <1>7. PICK past : past = Append(kept, h.latest)
    OBVIOUS
  <1>8. past \in Seq(Graph) /\ Len(past) = Len(kept) + 1 /\ \A k \in 1 .. Len(kept) + 1 : Good(past[k])
    BY <1>3, <1>6, <1>7, AppendGood
  <1>9. Len(past) + Len(<<>>) < Limit
    BY <1>3, <1>4, <1>8, Constants
  <1> QED BY <1>5, <1>6, <1>7, <1>8, <1>9 DEF HistoryInv, History

LEMMA RecordedKept ==
    ASSUME NEW h, HistoryInv(h), NEW g, Good(g)
    PROVE  /\ HistoryInv(Recorded(h, g)) /\ Recorded(h, g).present = g
           /\ HistoryInv(RecordedNodes(h, g)) /\ RecordedNodes(h, g).present = g
           /\ HistoryInv(RecordedSelection(h))
           /\ HistoryInv(Replaced(h, g))
  <1>1. h \in History /\ g \in Graph
    BY DEF HistoryInv, Good
  <1>2. HistoryInv([h EXCEPT !.present = g, !.latest = g]) /\ HistoryInv([h EXCEPT !.present = g])
        /\ HistoryInv([h EXCEPT !.latest = h.present])
    BY <1>1 DEF HistoryInv, History
  <1>3. [h EXCEPT !.present = g, !.latest = g].present = g
    BY <1>1 DEF History
  <1>4. Good(h.present)
    BY DEF HistoryInv
  <1> QED BY <1>2, <1>3, <1>4, InsertedKept DEF Recorded, RecordedNodes, RecordedSelection, Replaced

LEMMA UndoneKept ==
    ASSUME NEW h, HistoryInv(h), h.past # <<>>
    PROVE  HistoryInv(Undone(h))
  <1>0. /\ h.past \in Seq(Graph) /\ h.future \in Seq(Graph)
        /\ Len(h.past) \in Nat /\ Len(h.future) \in Nat
        /\ Len(h.past) + Len(h.future) < Limit
    BY HistoryLengths
  <1>1. PICK n : n = Len(h.past)
    OBVIOUS
  <1>2. PICK past : past = SubSeq(h.past, 1, n - 1)
    OBVIOUS
  <1>3. PICK future : future = <<h.latest>> \o h.future
    OBVIOUS
  <1>4. PICK last : last = h.past[n]
    OBVIOUS
  <1>5. n \in Nat /\ n > 0
    BY <1>1, <1>0
  <1>6. /\ \A k \in 1 .. n : Good(h.past[k])
        /\ \A k \in 1 .. Len(h.future) : Good(h.future[k])
        /\ Good(h.latest) /\ h.latest \in Graph
    BY <1>1 DEF HistoryInv, Good
  <1>7. Good(last) /\ last \in Graph
    BY <1>4, <1>5, <1>6 DEF Good
  <1>8. past \in Seq(Graph) /\ Len(past) = n - 1 /\ \A k \in 1 .. n - 1 : past[k] = h.past[k]
    BY <1>1, <1>2, <1>5, <1>0
  <1>9. /\ future \in Seq(Graph) /\ Len(future) = Len(h.future) + 1 /\ future[1] = h.latest
        /\ \A k \in 2 .. Len(h.future) + 1 : future[k] = h.future[k - 1]
    <2>1. PICK f : f = h.future
      OBVIOUS
    <2>2. f \in Seq(Graph) /\ <<h.latest>> \in Seq(Graph)
      BY <1>6, <2>1, <1>0
    <2>3. future = <<h.latest>> \o f
      BY <1>3, <2>1
    <2>4. /\ future \in Seq(Graph) /\ Len(future) = Len(f) + 1 /\ future[1] = h.latest
          /\ \A k \in 2 .. Len(f) + 1 : future[k] = f[k - 1]
      BY <2>2, <2>3
    <2> QED BY <2>1, <2>4
  <1>10. Len(past) + Len(future) < Limit
    <2>1. PICK m : m = Len(h.future)
      OBVIOUS
    <2>2. m \in Nat /\ n + m < Limit
      BY <1>1, <2>1, <1>0
    <2>3. Len(past) = n - 1 /\ Len(future) = m + 1
      BY <1>8, <1>9, <2>1
    <2> QED BY <1>5, <2>2, <2>3, Constants
  <1>11. \A k \in 1 .. Len(past) : Good(past[k])
    <2>1. \A k \in 1 .. n - 1 : k \in 1 .. n
      BY <1>5
    <2> QED BY <1>6, <1>8, <2>1
  <1>12. ASSUME NEW k \in 1 .. Len(future) PROVE Good(future[k])
    <2>1. k = 1 \/ (k \in 2 .. Len(h.future) + 1 /\ k - 1 \in 1 .. Len(h.future))
      BY <1>9, <1>0
    <2> QED BY <1>6, <1>9, <2>1
  <1>13. Undone(h) = [past |-> past, present |-> last, future |-> future, latest |-> last,
                      grouped |-> FALSE]
    BY <1>1, <1>2, <1>3, <1>4 DEF Undone
  <1> QED BY <1>7, <1>8, <1>9, <1>10, <1>11, <1>12, <1>13 DEF HistoryInv, History

LEMMA RedoneKept ==
    ASSUME NEW h, HistoryInv(h), h.future # <<>>
    PROVE  HistoryInv(Redone(h))
  <1>0. /\ h.past \in Seq(Graph) /\ h.future \in Seq(Graph)
        /\ Len(h.past) \in Nat /\ Len(h.future) \in Nat
        /\ Len(h.past) + Len(h.future) < Limit
    BY HistoryLengths
  <1>1. PICK past : past = Append(h.past, h.latest)
    OBVIOUS
  <1>2. PICK future : future = Tail(h.future)
    OBVIOUS
  <1>3. PICK next : next = Head(h.future)
    OBVIOUS
  <1>4. /\ \A k \in 1 .. Len(h.past) : Good(h.past[k])
        /\ \A k \in 1 .. Len(h.future) : Good(h.future[k])
        /\ Good(h.latest)
    BY DEF HistoryInv
  <1>5. past \in Seq(Graph) /\ Len(past) = Len(h.past) + 1
        /\ \A k \in 1 .. Len(h.past) + 1 : Good(past[k])
    BY <1>1, <1>4, <1>0, AppendGood
  <1>6. /\ future \in Seq(Graph) /\ Len(future) = Len(h.future) - 1 /\ Good(next)
        /\ \A k \in 1 .. Len(h.future) - 1 : Good(future[k])
    BY <1>2, <1>3, <1>4, <1>0, TailGood
  <1>7. Len(past) + Len(future) < Limit
    <2>1. PICK n, m : n = Len(h.past) /\ m = Len(h.future)
      OBVIOUS
    <2>2. n \in Nat /\ m \in Nat /\ n + m < Limit
      BY <2>1, <1>0
    <2>3. Len(past) = n + 1 /\ Len(future) = m - 1
      BY <1>5, <1>6, <2>1
    <2> QED BY <2>2, <2>3, Constants
  <1>8. Redone(h) = [past |-> past, present |-> next, future |-> future, latest |-> next,
                     grouped |-> FALSE]
    BY <1>1, <1>2, <1>3 DEF Redone
  <1>9. next \in Graph
    BY <1>6 DEF Good
  <1>10. /\ \A k \in 1 .. Len(past) : Good(past[k])
         /\ \A k \in 1 .. Len(future) : Good(future[k])
    BY <1>5, <1>6
  <1>11. PICK r : r = Redone(h)
    OBVIOUS
  <1>12. /\ r \in History /\ r.past = past /\ r.future = future /\ r.present = next
         /\ r.latest = next
    BY <1>5, <1>6, <1>8, <1>9, <1>11 DEF History
  <1>13. HistoryInv(r)
    BY <1>6, <1>7, <1>10, <1>12 DEF HistoryInv
  <1> QED BY <1>11, <1>13

LEMMA FreshInv ==
    ASSUME NEW g, Good(g)
    PROVE  HistoryInv(Fresh(g))
  BY Constants DEF Fresh, HistoryInv, History, Good

-----------------------------------------------------------------------------
(* Graphs. *)

LEMMA GoodFacts ==
    ASSUME NEW g, Good(g)
    PROVE  /\ g \in Graph
           /\ g.nodes \in [NodeIds -> {"absent", "open", "closed"}] /\ g.edges \subseteq Edge
           /\ \A e \in g.edges : /\ e.source \in NodeIds /\ e.target \in NodeIds
                                 /\ e.source \in Exists(g) /\ e.target \in Exists(g)
  BY DEF Good, WellFormed, Connected, Graph, Edge

\* A graph whose links connect what the links of another one connect, each
\* once, can be executed if the other can.
LEMMA SameLinks ==
    ASSUME NEW g, Executable(g), NEW h,
           \A e \in Links(h) : \E d \in Links(g) : SameEnds(d, e) /\ d.input = e.input,
           \A e, f \in Links(h) : SameEnds(e, f) /\ e.input = f.input => e = f
    PROVE  Executable(h)
  <1>1. IsAcyclic(Links(h))
    <2> SUFFICES ASSUME NEW S \in (SUBSET NodeIds) \ {{}}
                 PROVE  \E n \in S : \A e \in Links(h) : e.source = n => e.target \notin S
      BY DEF IsAcyclic
    <2>1. PICK n \in S : \A e \in Links(g) : e.source = n => e.target \notin S
      BY DEF Executable, IsAcyclic
    <2> QED BY <2>1 DEF SameEnds
  <1>2. ASSUME NEW e \in Links(h), NEW f \in Links(h), e.target = f.target, e.input = f.input
        PROVE  e = f \/ (e.input \in ManyInputs /\ e.source # f.source)
    <2>1. PICK d \in Links(g) : SameEnds(d, e) /\ d.input = e.input
      OBVIOUS
    <2>2. PICK c \in Links(g) : SameEnds(c, f) /\ c.input = f.input
      OBVIOUS
    <2>3. CASE e.source = f.source
      BY <1>2, <2>3 DEF SameEnds
    <2>4. CASE e.source # f.source
      BY <1>2, <2>1, <2>2, <2>4 DEF SameEnds, Executable
    <2> QED BY <2>3, <2>4
  <1> QED BY <1>1, <1>2 DEF Executable

LEMMA FewerLinks ==
    ASSUME NEW g, Executable(g), NEW h, h.edges \subseteq g.edges
    PROVE  Executable(h)
  <1>1. Links(h) \subseteq Links(g)
    BY DEF Links
  <1>2. \A e, f \in Links(h) : SameEnds(e, f) /\ e.input = f.input => e = f
    BY <1>1 DEF Executable, SameEnds
  <1>3. \A e \in Links(h) : \E d \in Links(g) : SameEnds(d, e) /\ d.input = e.input
    BY <1>1 DEF SameEnds
  <1> QED BY <1>2, <1>3, SameLinks

\* Changes that bring no node back in another state than it is in.
Keeping(g, changes) ==
    \A k \in DOMAIN changes : changes[k].type = "add" =>
        /\ changes[k].node \in {"open", "closed"}
        /\ changes[k].id \in Exists(g) => changes[k].node = g.nodes[changes[k].id]

LEMMA NodesChangedNodes ==
    ASSUME NEW g, Good(g), NEW changes, Keeping(g, changes)
    PROVE  /\ NodesChanged(g, changes).nodes \in [NodeIds -> {"absent", "open", "closed"}]
           /\ NodesChanged(g, changes).edges =
                {e \in g.edges : {e.source, e.target} \subseteq Exists(NodesChanged(g, changes))}
           /\ \A n \in Exists(g) \cap Exists(NodesChanged(g, changes)) :
                NodesChanged(g, changes).nodes[n] = g.nodes[n]
  <1> DEFINE added(n) == {k \in DOMAIN changes : changes[k].type = "add" /\ changes[k].id = n}
             removed == {changes[k].id : k \in {k \in DOMAIN changes : changes[k].type = "remove"}}
  <1>1. PICK nodes : nodes = [n \in NodeIds |->
                IF added(n) # {} THEN changes[CHOOSE k \in added(n) : TRUE].node
                ELSE IF n \in removed THEN "absent" ELSE g.nodes[n]]
    OBVIOUS
  <1>2. PICK h : h = NodesChanged(g, changes)
    OBVIOUS
  <1>3. /\ h.nodes = nodes
        /\ h.edges = {e \in g.edges : nodes[e.source] # "absent" /\ nodes[e.target] # "absent"}
    BY <1>1, <1>2 DEF NodesChanged
  <1>4. ASSUME NEW n \in NodeIds
        PROVE  /\ nodes[n] \in {"absent", "open", "closed"}
               /\ n \in Exists(g) /\ nodes[n] # "absent" => nodes[n] = g.nodes[n]
    <2>1. g.nodes[n] \in {"absent", "open", "closed"}
      BY GoodFacts
    <2>2. CASE added(n) # {}
      <3>1. PICK k : k = CHOOSE i \in added(n) : TRUE
        OBVIOUS
      <3>2. k \in added(n)
        BY <2>2, <3>1
      <3>3. nodes[n] = changes[k].node
        BY <1>1, <2>2, <3>1
      <3> QED BY <3>2, <3>3 DEF Keeping
    <2>3. CASE added(n) = {}
      <3>1. nodes[n] = IF n \in removed THEN "absent" ELSE g.nodes[n]
        BY <1>1, <2>3
      <3> HIDE DEF removed
      <3> QED BY <2>1, <3>1
    <2> QED BY <2>2, <2>3
  <1>5. nodes \in [NodeIds -> {"absent", "open", "closed"}]
    <2> HIDE DEF added, removed
    <2> QED BY <1>1, <1>4
  <1>6. h.edges = {e \in g.edges : {e.source, e.target} \subseteq Exists(h)}
    BY <1>3, GoodFacts DEF Exists
  <1>7. \A n \in Exists(g) \cap Exists(h) : h.nodes[n] = g.nodes[n]
    BY <1>3, <1>4 DEF Exists
  <1> QED BY <1>2, <1>3, <1>5, <1>6, <1>7

LEMMA NodesChangedGood ==
    ASSUME NEW g, Good(g), NEW changes, Keeping(g, changes)
    PROVE  Good(NodesChanged(g, changes))
  <1>1. PICK h : h = NodesChanged(g, changes)
    OBVIOUS
  <1>2. /\ h.nodes \in [NodeIds -> {"absent", "open", "closed"}]
        /\ h.edges = {e \in g.edges : {e.source, e.target} \subseteq Exists(h)}
        /\ \A n \in Exists(g) \cap Exists(h) : h.nodes[n] = g.nodes[n]
    BY <1>1, NodesChangedNodes
  <1>3. h = [nodes |-> h.nodes, edges |-> h.edges]
    BY <1>1 DEF NodesChanged
  <1>4. h \in Graph
    BY <1>2, <1>3, GoodFacts DEF Graph
  <1>5. Connected(h)
    BY <1>2 DEF Connected
  <1>6. Executable(h)
    BY <1>2, FewerLinks DEF Good, WellFormed
  <1>7. ASSUME NEW e \in h.edges, e.input = "generated"
        PROVE  /\ h.nodes[e.source] = "closed" /\ h.nodes[e.target] = "closed"
               /\ \E f \in h.edges \ {e} : SameEnds(e, f) /\ f.hidden
    <2>1. e \in g.edges /\ {e.source, e.target} \subseteq Exists(h)
      BY <1>2
    <2>2. g.nodes[e.source] = "closed" /\ g.nodes[e.target] = "closed"
      BY <1>7, <2>1 DEF Good, WellFormed, StandsFor
    <2>3. {e.source, e.target} \subseteq Exists(g)
      BY <2>1, GoodFacts
    <2>4. PICK f \in g.edges \ {e} : SameEnds(e, f) /\ f.hidden
      BY <1>7, <2>1 DEF Good, WellFormed, StandsFor
    <2>5. f \in h.edges
      BY <1>2, <2>1, <2>4 DEF SameEnds
    <2> QED BY <1>2, <2>1, <2>2, <2>3, <2>4, <2>5
  <1> QED BY <1>1, <1>4, <1>5, <1>6, <1>7 DEF Good, WellFormed, StandsFor

\* A valid connection, hidden or not, can be made.
LEMMA LinkGood ==
    ASSUME NEW g, Good(g), NEW c \in Edge, ~Collapsed(c), ValidConnection(c, g, {})
    PROVE  Good([g EXCEPT !.edges = @ \cup {c}])
  <1>1. PICK h : h = [g EXCEPT !.edges = @ \cup {c}]
    OBVIOUS
  <1>2. g \in Graph
    BY DEF Good
  <1>3. h \in Graph /\ h.nodes = g.nodes /\ h.edges = g.edges \cup {c}
    BY <1>1, <1>2 DEF Graph
  <1>4. {c.source, c.target} \subseteq Exists(g)
    BY DEF ValidConnection
  <1>5. Connected(h)
    BY <1>3, <1>4 DEF Connected, Exists, Good, WellFormed
  <1>6. IsAcyclic(g.edges \cup {c})
    BY DEF ValidConnection, getHasCycles
  <1>7. IsAcyclic(Links(h))
    BY <1>3, <1>6 DEF IsAcyclic, Links
  <1>8. ASSUME NEW e \in Links(g), e.target = c.target, e.input = c.input
        PROVE  e.input \in ManyInputs /\ e.source # c.source
    BY <1>8 DEF ValidConnection, Links
  <1>9. Links(h) = Links(g) \cup {c}
    BY <1>3 DEF Links
  <1>10. Executable(g)
    BY DEF Good, WellFormed
  <1>11. \A e, f \in Links(h) : e.target = f.target /\ e.input = f.input =>
            e = f \/ (e.input \in ManyInputs /\ e.source # f.source)
    BY <1>8, <1>9, <1>10 DEF Executable
  <1>12. StandsFor(h)
    <2> SUFFICES ASSUME NEW e \in h.edges, e.input = "generated"
                 PROVE  /\ h.nodes[e.source] = "closed" /\ h.nodes[e.target] = "closed"
                        /\ \E f \in h.edges \ {e} : SameEnds(e, f) /\ f.hidden
      BY DEF StandsFor
    <2>1. e \in g.edges
      BY <1>3 DEF Collapsed
    <2>2. StandsFor(g)
      BY DEF Good, WellFormed
    <2> QED BY <1>3, <2>1, <2>2 DEF StandsFor
  <1> QED BY <1>1, <1>3, <1>5, <1>7, <1>11, <1>12 DEF Good, WellFormed, Executable

\* So can one that was copied, whatever it is.
LEMMA OfferedGood ==
    ASSUME NEW g, Good(g), NEW c \in Edge, c.input # "generated"
    PROVE  /\ Good(Offered(g, c))
           /\ Offered(g, c).nodes = g.nodes /\ g.edges \subseteq Offered(g, c).edges
  <1>0. g \in Graph
    BY DEF Good
  <1>1. PICK h : h = [g EXCEPT !.edges = @ \cup {c}]
    OBVIOUS
  <1>2. h \in Graph /\ h.nodes = g.nodes /\ h.edges = g.edges \cup {c}
    BY <1>0, <1>1 DEF Graph
  <1>3. CASE Collapsed(c) /\ {c.source, c.target} \subseteq Exists(g)
    <2>1. Connected(h)
      BY <1>2, <1>3 DEF Connected, Exists, Good, WellFormed
    <2>2. Links(h) = Links(g)
      BY <1>2, <1>3 DEF Links
    <2>3. Executable(h)
      BY <2>2 DEF Executable, Good, WellFormed
    <2>4. StandsFor(h)
      <3> SUFFICES ASSUME NEW e \in h.edges, e.input = "generated"
                   PROVE  /\ h.nodes[e.source] = "closed" /\ h.nodes[e.target] = "closed"
                          /\ \E f \in h.edges \ {e} : SameEnds(e, f) /\ f.hidden
        BY DEF StandsFor
      <3>1. e \in g.edges
        BY <1>2
      <3>2. StandsFor(g)
        BY DEF Good, WellFormed
      <3> QED BY <1>2, <3>1, <3>2 DEF StandsFor
    <2>5. Good(h)
      BY <1>2, <2>1, <2>3, <2>4 DEF Good, WellFormed
    <2>6. Offered(g, c) = h
      BY <1>1, <1>3 DEF Offered
    <2> QED BY <1>2, <2>5, <2>6
  <1>4. CASE ~Collapsed(c) /\ ValidConnection(c, g, {})
    <2>1. Offered(g, c) = h
      BY <1>1, <1>4 DEF Offered
    <2>2. Good(h)
      BY <1>1, <1>4, LinkGood
    <2> QED BY <1>2, <2>1, <2>2
  <1>5. CASE IF Collapsed(c) THEN ~({c.source, c.target} \subseteq Exists(g))
             ELSE ~ValidConnection(c, g, {})
    <2>1. Offered(g, c) = g
      BY <1>5 DEF Offered
    <2> QED BY <2>1
  <1> QED BY <1>3, <1>4, <1>5

LEMMA PastedGood ==
    ASSUME NEW g, Good(g), NEW edges \in Seq({e \in Edge : e.input # "generated"})
    PROVE  /\ Good(Pasted(g, edges))
           /\ Pasted(g, edges).nodes = g.nodes /\ g.edges \subseteq Pasted(g, edges).edges
  <1> DEFINE X == {h \in Graph : Good(h) /\ h.nodes = g.nodes /\ g.edges \subseteq h.edges}
  <1>1. PICK n : n = Len(edges)
    OBVIOUS
  <1>2. n \in Nat /\ \A k \in 1 .. n : edges[k] \in Edge /\ edges[k].input # "generated"
    BY <1>1
  <1>3. ASSUME NEW h \in X, NEW k \in 1 .. n PROVE Offered(h, edges[k]) \in X
    <2>1. /\ Good(Offered(h, edges[k]))
          /\ Offered(h, edges[k]).nodes = h.nodes /\ h.edges \subseteq Offered(h, edges[k]).edges
      BY <1>2, OfferedGood
    <2> QED BY <2>1 DEF Good
  <1>4. g \in X
    BY DEF Good
  <1> HIDE DEF X
  <1>5. PICK F : F = [k \in 1 .. n |-> [h \in X |-> Offered(h, edges[k])]]
    OBVIOUS
  <1>6. F \in [1 .. n -> [X -> X]]
    BY <1>3, <1>5
  <1>7. PICK f : Recursion(f, n, g, F)
    BY <1>2, <1>4, <1>6, RecursiveFunction
  <1>8. f = [k \in 0 .. n |-> IF k = 0 THEN g ELSE F[k][f[k - 1]]]
    BY <1>7 DEF Recursion
  <1>9. ASSUME NEW f1, f1 = [k \in 0 .. n |-> IF k = 0 THEN g ELSE F[k][f1[k - 1]]]
        PROVE  \A k \in 0 .. n : f1[k] \in X
    <2> DEFINE T == {k \in 0 .. n : f1[k] \in X}
    <2>1. 0 \in T
      BY <1>2, <1>4, <1>9
    <2>2. ASSUME NEW k \in 1 .. n, k - 1 \in T PROVE k \in T
      <3>1. f1[k] = F[k][f1[k - 1]] /\ k \in 0 .. n
        BY <1>2, <1>9
      <3> QED BY <1>6, <2>2, <3>1
    <2>3. 0 .. n \subseteq T
      <3> HIDE DEF T
      <3> QED BY <1>2, <2>1, <2>2, UpTo
    <2> QED BY <2>3
  <1>10. \A k \in 0 .. n : f[k] \in X
    BY <1>8, <1>9
  <1>11. f = [k \in 0 .. n |-> IF k = 0 THEN g ELSE Offered(f[k - 1], edges[k])]
    <2>1. \A k \in 0 .. n : f[k] = IF k = 0 THEN g ELSE Offered(f[k - 1], edges[k])
      <3> SUFFICES ASSUME NEW k \in 0 .. n, k # 0 PROVE f[k] = Offered(f[k - 1], edges[k])
        BY <1>2, <1>8
      <3>1. k \in 1 .. n /\ k - 1 \in 0 .. n
        BY <1>2
      <3>2. f[k] = F[k][f[k - 1]]
        BY <1>8
      <3> QED BY <1>5, <1>10, <3>1, <3>2
    <2> QED BY <1>8, <2>1
  <1> DEFINE after == CHOOSE h : h = [k \in 0 .. n |-> IF k = 0 THEN g ELSE Offered(h[k - 1], edges[k])]
  <1>12. after = [k \in 0 .. n |-> IF k = 0 THEN g ELSE Offered(after[k - 1], edges[k])]
    BY <1>11
  <1>13. Pasted(g, edges) = after[n]
    BY <1>1 DEF Pasted
  <1> HIDE DEF after
  <1>14. after[n] \in X
    <2> DEFINE T == {k \in 0 .. n : after[k] \in X}
    <2>1. 0 \in T
      BY <1>2, <1>4, <1>12
    <2>2. ASSUME NEW k \in 1 .. n, k - 1 \in T PROVE k \in T
      <3>1. after[k] = Offered(after[k - 1], edges[k]) /\ k \in 0 .. n
        BY <1>2, <1>12
      <3> QED BY <1>3, <2>2, <3>1
    <2>3. 0 .. n \subseteq T
      <3> HIDE DEF T
      <3> QED BY <1>2, <2>1, <2>2, UpTo
    <2>4. n \in 0 .. n
      BY <1>2
    <2> QED BY <2>3, <2>4
  <1> QED BY <1>13, <1>14 DEF X

LEMMA EdgesChangedFacts ==
    ASSUME NEW g \in Graph, NEW removed, NEW added
    PROVE  /\ EdgesChanged(g, removed, added).nodes = g.nodes
           /\ EdgesChanged(g, removed, added).edges = added \cup {e \in g.edges :
                e \notin removed /\ ~ \E c \in removed : Collapsed(c) /\ SameEnds(c, e)}
           /\ EdgesChanged(g, removed, added) =
                [nodes |-> g.nodes, edges |-> EdgesChanged(g, removed, added).edges]
  BY DEF EdgesChanged, Graph

\* Edges can be removed, if with the hidden edges between two nodes goes the
\* edge that stands for them.
LEMMA RemovedGood ==
    ASSUME NEW g, Good(g), NEW removed,
           \A f \in removed : \A e \in g.edges :
               e.input = "generated" /\ f.hidden /\ SameEnds(e, f) => e \in removed
    PROVE  Good(EdgesChanged(g, removed, {}))
  <1>1. PICK h : h = EdgesChanged(g, removed, {})
    OBVIOUS
  <1>2. g \in Graph
    BY DEF Good
  <1>3. /\ h.nodes = g.nodes /\ h = [nodes |-> h.nodes, edges |-> h.edges]
        /\ h.edges = {e \in g.edges :
                e \notin removed /\ ~ \E c \in removed : Collapsed(c) /\ SameEnds(c, e)}
    BY <1>1, <1>2, EdgesChangedFacts
  <1>4. h \in Graph
    BY <1>3, GoodFacts DEF Graph
  <1>5. Connected(h)
    BY <1>3 DEF Connected, Exists, Good, WellFormed
  <1>6. Executable(h)
    BY <1>3, FewerLinks DEF Good, WellFormed
  <1>7. StandsFor(h)
    <2> SUFFICES ASSUME NEW e \in h.edges, e.input = "generated"
                 PROVE  /\ h.nodes[e.source] = "closed" /\ h.nodes[e.target] = "closed"
                        /\ \E f \in h.edges \ {e} : SameEnds(e, f) /\ f.hidden
      BY DEF StandsFor
    <2>1. /\ e \in g.edges /\ e \notin removed
          /\ ~ \E c \in removed : Collapsed(c) /\ SameEnds(c, e)
      BY <1>3
    <2>2. g.nodes[e.source] = "closed" /\ g.nodes[e.target] = "closed"
      BY <2>1 DEF Good, WellFormed, StandsFor
    <2>3. PICK f \in g.edges \ {e} : SameEnds(e, f) /\ f.hidden
      BY <2>1 DEF Good, WellFormed, StandsFor
    <2>4. f \notin removed
      BY <2>1, <2>3
    <2>5. ~ \E c \in removed : Collapsed(c) /\ SameEnds(c, f)
      BY <2>1, <2>3 DEF SameEnds
    <2> QED BY <1>3, <2>2, <2>3, <2>4, <2>5
  <1> QED BY <1>1, <1>4, <1>5, <1>6, <1>7 DEF Good, WellFormed

\* An edge is moved to where it can be.
LEMMA MovedGood ==
    ASSUME NEW g, Good(g), NEW old \in Links(g), ~old.hidden,
           NEW c \in Edge, ~Collapsed(c), ValidConnection(c, g, {old})
    PROVE  Good(EdgesChanged(g, {old}, {c}))
  <1>1. PICK h : h = EdgesChanged(g, {old}, {})
    OBVIOUS
  <1>2. ~Collapsed(old)
    BY DEF Links
  <1>3. Good(h)
    BY <1>1, <1>2, RemovedGood DEF Collapsed
  <1>4. g \in Graph
    BY DEF Good
  <1>5. h.nodes = g.nodes /\ h.edges = g.edges \ {old}
    BY <1>1, <1>2, <1>4, EdgesChangedFacts
  <1>6. EdgesChanged(g, {old}, {c}) = [h EXCEPT !.edges = @ \cup {c}]
    <2>1. PICK r : r = EdgesChanged(g, {old}, {c})
      OBVIOUS
    <2>2. r.nodes = g.nodes /\ r.edges = (g.edges \ {old}) \cup {c} /\ r = [nodes |-> g.nodes, edges |-> r.edges]
      <3>1. PICK S, T : S = {old} /\ T = {c}
        OBVIOUS
      <3>2. r = EdgesChanged(g, S, T)
        BY <2>1, <3>1
      <3>3. /\ r.nodes = g.nodes /\ r = [nodes |-> g.nodes, edges |-> r.edges]
            /\ r.edges = T \cup {e \in g.edges :
                 e \notin S /\ ~ \E d \in S : Collapsed(d) /\ SameEnds(d, e)}
        BY <3>2, <1>4, EdgesChangedFacts
      <3> QED BY <3>1, <3>3, <1>2
    <2>3. h \in Graph
      BY <1>3 DEF Good
    <2> QED BY <1>5, <2>1, <2>2, <2>3 DEF Graph
  <1>7. ValidConnection(c, h, {})
    <2>1. IsAcyclic(h.edges \cup {c})
      <3>1. IsAcyclic(g.edges \cup {c})
        BY DEF ValidConnection, getHasCycles
      <3> QED BY <1>5, <3>1 DEF IsAcyclic
    <2>2. Exists(h) = Exists(g)
      BY <1>5 DEF Exists
    <2>3. {e \in h.edges \ {} : e.target = c.target /\ e.input = c.input}
            = {e \in g.edges \ {old} : e.target = c.target /\ e.input = c.input}
      BY <1>5
    <2> QED BY <2>1, <2>2, <2>3 DEF ValidConnection, getHasCycles
  <1> QED BY <1>3, <1>6, <1>7, LinkGood

\* One is made.
LEMMA AddedGood ==
    ASSUME NEW g, Good(g), NEW c \in Edge, ~Collapsed(c), ValidConnection(c, g, {})
    PROVE  Good(EdgesChanged(g, {}, {c}))
  <1>1. g \in Graph
    BY DEF Good
  <1>2. PICK r : r = EdgesChanged(g, {}, {c})
    OBVIOUS
  <1>3. r.nodes = g.nodes /\ r.edges = g.edges \cup {c} /\ r = [nodes |-> g.nodes, edges |-> r.edges]
    <2>1. PICK S, T : S = {} /\ T = {c}
      OBVIOUS
    <2>2. r = EdgesChanged(g, S, T)
      BY <1>2, <2>1
    <2>3. /\ r.nodes = g.nodes /\ r = [nodes |-> g.nodes, edges |-> r.edges]
          /\ r.edges = T \cup {e \in g.edges :
               e \notin S /\ ~ \E d \in S : Collapsed(d) /\ SameEnds(d, e)}
      BY <1>1, <2>2, EdgesChangedFacts
    <2> QED BY <2>1, <2>3
  <1>4. r = [g EXCEPT !.edges = @ \cup {c}]
    BY <1>1, <1>3 DEF Graph
  <1> QED BY <1>2, <1>4, LinkGood

LEMMA OpenedGood ==
    ASSUME NEW g, Good(g), NEW n \in Exists(g)
    PROVE  Good(Opened(g, n))
  <1>1. PICK h : h = Opened(g, n)
    OBVIOUS
  <1>2. PICK shown : shown = {[e EXCEPT !.hidden = FALSE] : e \in Touching(g, n) \cap Links(g)}
    OBVIOUS
  <1>3. /\ h = [nodes |-> h.nodes, edges |-> h.edges]
        /\ h.nodes = [g.nodes EXCEPT ![n] = "open"]
        /\ h.edges = (g.edges \ Touching(g, n)) \cup shown
    BY <1>1, <1>2 DEF Opened
  <1>4. ASSUME NEW f \in shown
        PROVE  \E e \in Touching(g, n) \cap Links(g) :
                 /\ f = [e EXCEPT !.hidden = FALSE] /\ f \in Edge
                 /\ SameEnds(e, f) /\ f.input = e.input
    <2>1. PICK e \in Touching(g, n) \cap Links(g) : f = [e EXCEPT !.hidden = FALSE]
      BY <1>2
    <2>2. e \in Edge
      BY GoodFacts DEF Links
    <2> QED BY <2>1, <2>2 DEF Edge, SameEnds
  <1>5. h \in Graph
    <2>1. h.edges \subseteq Edge
      BY <1>3, <1>4, GoodFacts
    <2> QED BY <1>3, <2>1, GoodFacts DEF Graph
  <1>6. Connected(h)
    <2>1. Exists(g) \subseteq Exists(h)
      BY <1>3, GoodFacts DEF Exists
    <2> QED BY <1>3, <1>4, <2>1 DEF Connected, Good, WellFormed, SameEnds, Links
  <1>7. Executable(h)
    <2>1. ASSUME NEW e \in Links(h)
          PROVE  \E d \in Links(g) : SameEnds(d, e) /\ d.input = e.input
      BY <1>3, <1>4 DEF Links, SameEnds
    <2>2. ASSUME NEW e \in Links(h), NEW f \in Links(h), SameEnds(e, f), e.input = f.input
          PROVE  e = f
      <3>0. \A c, d \in Links(g) : SameEnds(c, d) /\ c.input = d.input => c = d
        BY DEF Good, WellFormed, Executable, SameEnds
      <3>1. CASE e \in shown /\ f \in shown
        <4>1. PICK d \in Links(g) : e = [d EXCEPT !.hidden = FALSE] /\ SameEnds(d, e) /\ e.input = d.input
          BY <1>4, <3>1
        <4>2. PICK c \in Links(g) : f = [c EXCEPT !.hidden = FALSE] /\ SameEnds(c, f) /\ f.input = c.input
          BY <1>4, <3>1
        <4>3. c = d
          BY <2>2, <3>0, <4>1, <4>2 DEF SameEnds
        <4> QED BY <4>1, <4>2, <4>3
      <3>2. CASE e \notin shown /\ f \notin shown
        BY <1>3, <2>2, <3>0, <3>2 DEF Links
      <3>3. ASSUME NEW d \in shown PROVE n \in {d.source, d.target}
        BY <1>4 DEF SameEnds, Touching
      <3>4. ASSUME NEW d \in h.edges, d \notin shown PROVE n \notin {d.source, d.target}
        BY <1>3, <3>4 DEF Touching
      <3>5. e \in h.edges /\ f \in h.edges
        BY DEF Links
      <3> QED BY <2>2, <3>1, <3>2, <3>3, <3>4, <3>5 DEF SameEnds
    <2> QED BY <2>1, <2>2, SameLinks DEF Good, WellFormed
  <1>8. StandsFor(h)
    <2> SUFFICES ASSUME NEW e \in h.edges, e.input = "generated"
                 PROVE  /\ h.nodes[e.source] = "closed" /\ h.nodes[e.target] = "closed"
                        /\ \E f \in h.edges \ {e} : SameEnds(e, f) /\ f.hidden
      BY DEF StandsFor
    <2>1. e \notin shown
      BY <1>4 DEF Links, Collapsed
    <2>2. e \in g.edges \ Touching(g, n)
      BY <1>3, <2>1
    <2>3. g.nodes[e.source] = "closed" /\ g.nodes[e.target] = "closed"
      BY <2>2 DEF Good, WellFormed, StandsFor
    <2>4. PICK f \in g.edges \ {e} : SameEnds(e, f) /\ f.hidden
      BY <2>2 DEF Good, WellFormed, StandsFor
    <2>5. n \notin {e.source, e.target} /\ f \notin Touching(g, n)
      BY <2>2, <2>4 DEF Touching, SameEnds
    <2>6. e.source \in NodeIds /\ e.target \in NodeIds
      BY <2>2, GoodFacts
    <2> QED BY <1>3, <2>3, <2>4, <2>5, <2>6, GoodFacts
  <1> QED BY <1>1, <1>5, <1>6, <1>7, <1>8 DEF Good, WellFormed

LEMMA ClosedGood ==
    ASSUME NEW g, Good(g), NEW n \in NodeIds, g.nodes[n] = "open"
    PROVE  Good(Closed(g, n))
  <1>1. PICK h : h = Closed(g, n)
    OBVIOUS
  <1>2. PICK hidden : hidden = {e \in Touching(g, n) :
                                  g.nodes[e.source] = "closed" \/ g.nodes[e.target] = "closed"}
    OBVIOUS
  <1>3. PICK A, B : /\ A = {[e EXCEPT !.hidden = TRUE] : e \in hidden}
                    /\ B = {Connection(e.source, e.target, "generated") : e \in hidden}
    OBVIOUS
  <1>4. /\ h = [nodes |-> h.nodes, edges |-> h.edges]
        /\ h.nodes = [g.nodes EXCEPT ![n] = "closed"]
        /\ h.edges = (g.edges \ hidden) \cup A \cup B
    BY <1>1, <1>2, <1>3 DEF Closed
  <1>5. ASSUME NEW e \in hidden
        PROVE  /\ e \in g.edges /\ e \in Edge
               /\ h.nodes[e.source] = "closed" /\ h.nodes[e.target] = "closed"
               /\ e.input # "generated" /\ n \in {e.source, e.target}
               /\ [e EXCEPT !.hidden = TRUE] \in A
    <2>1. e \in g.edges /\ n \in {e.source, e.target}
      BY <1>2 DEF Touching
    <2>2. e.source \in NodeIds /\ e.target \in NodeIds /\ e \in Edge
      BY <2>1, GoodFacts
    <2>3. e.input # "generated"
      BY <2>1 DEF Good, WellFormed, StandsFor
    <2> QED BY <1>2, <1>3, <1>4, <2>1, <2>2, <2>3, GoodFacts
  <1>6. ASSUME NEW f \in A
        PROVE  \E e \in hidden : /\ f = [e EXCEPT !.hidden = TRUE] /\ f \in Edge /\ f.hidden
                                 /\ SameEnds(e, f) /\ f.input = e.input
    <2>1. PICK e \in hidden : f = [e EXCEPT !.hidden = TRUE]
      BY <1>3
    <2> QED BY <1>5, <2>1 DEF Edge, SameEnds
  <1>7. ASSUME NEW f \in B
        PROVE  \E e \in hidden : /\ f \in Edge /\ ~f.hidden /\ f.input = "generated"
                                 /\ SameEnds(e, f)
    <2>1. PICK e \in hidden : f = Connection(e.source, e.target, "generated")
      BY <1>3
    <2> QED BY <1>5, <2>1 DEF Edge, SameEnds, Connection
  <1>8. h \in Graph
    <2>1. h.edges \subseteq Edge
      BY <1>4, <1>6, <1>7, GoodFacts
    <2> QED BY <1>4, <2>1, GoodFacts DEF Graph
  <1>9. Connected(h)
    <2>1. Exists(g) \subseteq Exists(h)
      BY <1>4, GoodFacts DEF Exists
    <2>2. \A e \in g.edges : e.source \in Exists(h) /\ e.target \in Exists(h)
      BY <2>1, GoodFacts
    <2>3. \A e \in hidden : e.source \in Exists(h) /\ e.target \in Exists(h)
      BY <1>5, <2>2
    <2> QED BY <1>4, <1>6, <1>7, <2>2, <2>3 DEF Connected, SameEnds
  <1>10. Executable(h)
    <2>0. \A e \in B : e \notin Links(h)
      BY <1>7 DEF Links, Collapsed
    <2>1. ASSUME NEW e \in Links(h)
          PROVE  \E d \in Links(g) : SameEnds(d, e) /\ d.input = e.input
      <3>1. e \in h.edges /\ e \notin B /\ ~Collapsed(e)
        BY <2>0 DEF Links
      <3>2. CASE e \in A
        BY <1>5, <1>6, <3>1, <3>2 DEF Links, Collapsed
      <3>3. CASE e \in g.edges
        BY <3>1, <3>3 DEF Links, SameEnds
      <3> QED BY <1>4, <3>1, <3>2, <3>3
    <2>2. ASSUME NEW e \in Links(h), NEW f \in Links(h), SameEnds(e, f), e.input = f.input
          PROVE  e = f
      <3>0. /\ \A c, d \in Links(g) : SameEnds(c, d) /\ c.input = d.input => c = d
            /\ ~Collapsed(e) /\ ~Collapsed(f) /\ e \in h.edges \ B /\ f \in h.edges \ B
        BY <2>0 DEF Good, WellFormed, Executable, SameEnds, Links
      <3>1. ASSUME NEW d \in h.edges \ B, ~Collapsed(d)
            PROVE  \E c \in Links(g) : /\ SameEnds(c, d) /\ c.input = d.input
                                       /\ (d = c /\ c \notin hidden)
                                          \/ (d = [c EXCEPT !.hidden = TRUE] /\ c \in hidden)
        <4>1. CASE d \in A
          BY <1>5, <1>6, <3>1, <4>1 DEF Links, Collapsed
        <4>2. CASE d \in g.edges \ hidden
          BY <3>1, <4>2 DEF Links, SameEnds
        <4> QED BY <1>4, <4>1, <4>2
      <3>2. PICK c \in Links(g) : /\ SameEnds(c, e) /\ c.input = e.input
                                  /\ (e = c /\ c \notin hidden)
                                     \/ (e = [c EXCEPT !.hidden = TRUE] /\ c \in hidden)
        BY <3>0, <3>1
      <3>3. PICK d \in Links(g) : /\ SameEnds(d, f) /\ d.input = f.input
                                  /\ (f = d /\ d \notin hidden)
                                     \/ (f = [d EXCEPT !.hidden = TRUE] /\ d \in hidden)
        BY <3>0, <3>1
      <3>4. c = d
        BY <2>2, <3>0, <3>2, <3>3 DEF SameEnds
      <3> QED BY <3>2, <3>3, <3>4
    <2> QED BY <2>1, <2>2, SameLinks DEF Good, WellFormed
  <1>11. StandsFor(h)
    <2> SUFFICES ASSUME NEW e \in h.edges, e.input = "generated"
                 PROVE  /\ h.nodes[e.source] = "closed" /\ h.nodes[e.target] = "closed"
                        /\ \E f \in h.edges \ {e} : SameEnds(e, f) /\ f.hidden
      BY DEF StandsFor
    <2>1. CASE e \in B
      <3>1. PICK d \in hidden : ~e.hidden /\ SameEnds(d, e)
        BY <1>7, <2>1
      <3>2. PICK f : f = [d EXCEPT !.hidden = TRUE]
        OBVIOUS
      <3>3. f \in A /\ f.hidden /\ SameEnds(e, f)
        BY <1>5, <3>1, <3>2 DEF Edge, SameEnds
      <3> QED BY <1>4, <1>5, <3>1, <3>3 DEF SameEnds
    <2>2. CASE e \in g.edges \ hidden
      <3>1. g.nodes[e.source] = "closed" /\ g.nodes[e.target] = "closed"
        BY <2>2 DEF Good, WellFormed, StandsFor
      <3>2. PICK f \in g.edges \ {e} : SameEnds(e, f) /\ f.hidden
        BY <2>2 DEF Good, WellFormed, StandsFor
      <3>3. n \notin {e.source, e.target} /\ f \notin hidden
        BY <1>5, <3>1, <3>2 DEF SameEnds
      <3>4. e.source \in NodeIds /\ e.target \in NodeIds
        BY <2>2, GoodFacts
      <3> QED BY <1>4, <3>1, <3>2, <3>3, <3>4, GoodFacts
    <2>3. e \notin A
      BY <1>5, <1>6
    <2> QED BY <1>4, <2>1, <2>2, <2>3
  <1> QED BY <1>1, <1>8, <1>9, <1>10, <1>11 DEF Good, WellFormed

-----------------------------------------------------------------------------
(* What the editor has is a good graph. *)

GraphInv ==
    /\ HistoryInv(hist)
    /\ clipboard \in Clipboard
    /\ \A w \in {saving, saved} : w = None \/ Good(w.graph)

LEMMA NoChanges ==
    ASSUME NEW g, Good(g)
    PROVE  NodesChanged(g, <<>>) = g /\ Keeping(g, <<>>)
  <1>1. PICK h : h = NodesChanged(g, <<>>)
    OBVIOUS
  <1>2. DOMAIN <<>> = {}
    OBVIOUS
  <1>3. h.nodes = [n \in NodeIds |-> g.nodes[n]]
    BY <1>1, <1>2 DEF NodesChanged
  <1>4. h.nodes = g.nodes
    BY <1>3, GoodFacts
  <1>5. Keeping(g, <<>>)
    BY <1>2 DEF Keeping
  <1>6. h.edges = g.edges
    <2>1. h.edges = {e \in g.edges : {e.source, e.target} \subseteq Exists(h)}
      BY <1>1, <1>5, NodesChangedNodes
    <2>2. Exists(h) = Exists(g)
      BY <1>4 DEF Exists
    <2> QED BY <2>1, <2>2, GoodFacts
  <1>7. h = [nodes |-> h.nodes, edges |-> h.edges]
    BY <1>1 DEF NodesChanged
  <1>8. g = [nodes |-> g.nodes, edges |-> g.edges]
    BY GoodFacts DEF Graph
  <1> QED BY <1>1, <1>4, <1>5, <1>6, <1>7, <1>8

LEMMA DispatchKept ==
    ASSUME GraphInv, NEW changes, NEW removed, NEW added, Dispatch(changes, removed, added),
           Keeping(graph, changes),
           removed \cup added # {} =>
               Good(EdgesChanged(NodesChanged(graph, changes), removed, added))
    PROVE  GraphInv' /\ hist'.present.nodes = NodesChanged(graph, changes).nodes
  <1>1. PICK h : h = IF changes = <<>> THEN hist ELSE RecordedNodes(hist, NodesChanged(graph, changes))
    OBVIOUS
  <1>2. HistoryInv(hist) /\ Good(graph)
    BY DEF GraphInv, HistoryInv, graph
  <1>3. PICK g : g = NodesChanged(graph, changes)
    OBVIOUS
  <1>4. Good(g)
    BY <1>2, <1>3, NodesChangedGood
  <1>5. HistoryInv(h) /\ h.present = g
    <2>1. CASE changes = <<>>
      BY <1>1, <1>2, <1>3, <2>1, NoChanges DEF graph
    <2>2. CASE changes # <<>>
      <3>1. HistoryInv(RecordedNodes(hist, g)) /\ RecordedNodes(hist, g).present = g
        BY <1>2, <1>4, RecordedKept
      <3> QED BY <1>1, <1>3, <2>2, <3>1
    <2> QED BY <2>1, <2>2
  <1>6. hist' = IF removed \cup added = {} THEN h ELSE Recorded(h, EdgesChanged(g, removed, added))
    BY <1>1, <1>3, <1>5 DEF Dispatch
  <1>7. HistoryInv(hist') /\ hist'.present.nodes = g.nodes
    <2>1. CASE removed \cup added = {}
      BY <1>5, <1>6, <2>1
    <2>2. CASE removed \cup added # {}
      <3>1. PICK k : k = EdgesChanged(g, removed, added)
        OBVIOUS
      <3>2. Good(k)
        BY <1>3, <2>2, <3>1
      <3>3. HistoryInv(Recorded(h, k)) /\ Recorded(h, k).present = k
        BY <1>5, <3>2, RecordedKept
      <3>4. k.nodes = g.nodes
        BY <1>4, <3>1, EdgesChangedFacts DEF Good
      <3> QED BY <1>6, <2>2, <3>1, <3>3, <3>4
    <2> QED BY <2>1, <2>2
  <1>8. UNCHANGED <<clipboard, saving, saved>>
    BY DEF Dispatch
  <1>9. /\ clipboard' \in Clipboard
        /\ \A w \in {saving', saved'} : w = None \/ Good(w.graph)
    BY <1>8 DEF GraphInv
  <1> QED BY <1>3, <1>7, <1>9 DEF GraphInv

LEMMA ConnectionFacts ==
    ASSUME NEW s \in NodeIds, NEW t \in NodeIds, NEW i \in Inputs
    PROVE  Connection(s, t, i) \in Edge /\ ~Collapsed(Connection(s, t, i))
  BY Constants DEF Connection, Edge, Collapsed

LEMMA ConnectGraph ==
    ASSUME GraphInv, Connect
    PROVE  GraphInv'
  <1>1. PICK s \in NodeIds, t \in NodeIds, i \in Inputs :
            /\ ValidConnection(Connection(s, t, i), graph, {})
            /\ Dispatch(<<>>, {}, {Connection(s, t, i)})
    BY DEF Connect
  <1>2. Good(graph)
    BY DEF GraphInv, HistoryInv, graph
  <1>3. PICK c : c = Connection(s, t, i)
    OBVIOUS
  <1>4. Good(EdgesChanged(graph, {}, {c}))
    BY <1>1, <1>2, <1>3, ConnectionFacts, AddedGood
  <1>5. Good(EdgesChanged(NodesChanged(graph, <<>>), {}, {c})) /\ Keeping(graph, <<>>)
    BY <1>2, <1>4, NoChanges
  <1> QED BY <1>1, <1>3, <1>5, DispatchKept

LEMMA ReconnectGraph ==
    ASSUME GraphInv, Reconnect
    PROVE  GraphInv'
  <1>1. PICK old \in Links(graph), s \in NodeIds, t \in NodeIds, i \in Inputs :
            /\ ~old.hidden
            /\ ValidConnection(Connection(s, t, i), graph, {old})
            /\ Dispatch(<<>>, {old}, {Connection(s, t, i)})
    BY DEF Reconnect
  <1>2. Good(graph)
    BY DEF GraphInv, HistoryInv, graph
  <1>3. PICK c : c = Connection(s, t, i)
    OBVIOUS
  <1>4. Good(EdgesChanged(graph, {old}, {c}))
    BY <1>1, <1>2, <1>3, ConnectionFacts, MovedGood
  <1>5. Good(EdgesChanged(NodesChanged(graph, <<>>), {old}, {c})) /\ Keeping(graph, <<>>)
    BY <1>2, <1>4, NoChanges
  <1> QED BY <1>1, <1>3, <1>5, DispatchKept

LEMMA DisconnectGraph ==
    ASSUME GraphInv, Disconnect
    PROVE  GraphInv'
  <1>1. PICK old \in Links(graph) : ~old.hidden /\ Dispatch(<<>>, {old}, {})
    BY DEF Disconnect
  <1>2. Good(graph)
    BY DEF GraphInv, HistoryInv, graph
  <1>3. Good(EdgesChanged(graph, {old}, {}))
    BY <1>1, <1>2, RemovedGood DEF Links, Collapsed
  <1>4. Good(EdgesChanged(NodesChanged(graph, <<>>), {old}, {})) /\ Keeping(graph, <<>>)
    BY <1>2, <1>3, NoChanges
  <1> QED BY <1>1, <1>4, DispatchKept

LEMMA AddNodeGraph ==
    ASSUME GraphInv, AddNode
    PROVE  GraphInv'
  <1>1. PICK n \in NodeIds :
            /\ NewNode(n)
            /\ \/ Dispatch(<<AddChange(n, "open")>>, {}, {})
               \/ \E m \in NodeIds, i \in Inputs :
                    \E c \in {Connection(m, n, i), Connection(n, m, i)} :
                        /\ ValidConnection(c, NodesChanged(graph, <<AddChange(n, "open")>>), {})
                        /\ Dispatch(<<AddChange(n, "open")>>, {}, {c})
    BY DEF AddNode
  <1>2. Good(graph)
    BY DEF GraphInv, HistoryInv, graph
  <1>3. PICK changes : changes = <<AddChange(n, "open")>>
    OBVIOUS
  <1>4. n \notin Exists(graph)
    BY <1>1 DEF NewNode, Snapshots, graph
  <1>5. Keeping(graph, changes)
    <2>1. DOMAIN changes = {1} /\ changes[1].id = n /\ changes[1].node = "open"
      BY <1>3 DEF AddChange
    <2> QED BY <1>4, <2>1 DEF Keeping
  <1>6. CASE Dispatch(changes, {}, {})
    BY <1>5, <1>6, DispatchKept
  <1>7. ASSUME NEW m \in NodeIds, NEW i \in Inputs,
               NEW c \in {Connection(m, n, i), Connection(n, m, i)},
               ValidConnection(c, NodesChanged(graph, changes), {}), Dispatch(changes, {}, {c})
        PROVE  GraphInv'
    <2>1. Good(NodesChanged(graph, changes))
      BY <1>2, <1>5, NodesChangedGood
    <2>2. c \in Edge /\ ~Collapsed(c)
      BY ConnectionFacts
    <2>3. Good(EdgesChanged(NodesChanged(graph, changes), {}, {c}))
      BY <1>7, <2>1, <2>2, AddedGood
    <2> QED BY <1>5, <1>7, <2>3, DispatchKept
  <1> QED BY <1>1, <1>3, <1>6, <1>7

\* The changes of a deletion only remove nodes that there are.
LEMMA Removals ==
    ASSUME NEW S \in SUBSET NodeIds, NEW order \in SetToSeqs({RemoveChange(n) : n \in S})
    PROVE  \A k \in DOMAIN order : order[k].type = "remove" /\ order[k].id \in S
  <1>1. \A k \in DOMAIN order : order[k] \in {RemoveChange(n) : n \in S}
    BY DEF SetToSeqs
  <1> QED BY <1>1 DEF RemoveChange

LEMMA DeleteSelectionGraph ==
    ASSUME GraphInv, DeleteSelection
    PROVE  GraphInv'
  <1>1. PICK S \in SUBSET Exists(graph), T \in Selections :
            \E order \in SetToSeqs({RemoveChange(n) : n \in S}) : Dispatch(order, T, {})
    BY DEF DeleteSelection
  <1>2. PICK order \in SetToSeqs({RemoveChange(n) : n \in S}) : Dispatch(order, T, {})
    BY <1>1
  <1>3. Good(graph)
    BY DEF GraphInv, HistoryInv, graph
  <1>4. S \in SUBSET NodeIds
    BY DEF Exists
  <1>5. Keeping(graph, order)
    BY <1>4, Removals DEF Keeping
  <1>6. PICK g : g = NodesChanged(graph, order)
    OBVIOUS
  <1>7. Good(g) /\ g.edges \subseteq graph.edges
    BY <1>3, <1>5, <1>6, NodesChangedGood, NodesChangedNodes
  <1>8. ASSUME NEW f \in T, NEW e \in g.edges, e.input = "generated", f.hidden, SameEnds(e, f)
        PROVE  e \in T
    BY <1>7, <1>8 DEF Selections, Collapsed
  <1>9. Good(EdgesChanged(g, T, {}))
    BY <1>7, <1>8, RemovedGood
  <1> QED BY <1>2, <1>5, <1>6, <1>9, DispatchKept

LEMMA UpdateNodeGraph ==
    ASSUME GraphInv, UpdateNode
    PROVE  GraphInv' /\ hist'.present.nodes = hist.present.nodes
  <1>1. PICK n \in Exists(graph) :
            Dispatch(<<RemoveChange(n), AddChange(n, graph.nodes[n])>>, {}, {})
    BY DEF UpdateNode
  <1>2. PICK changes : changes = <<RemoveChange(n), AddChange(n, graph.nodes[n])>>
    OBVIOUS
  <1>3. /\ DOMAIN changes = {1, 2} /\ changes[1].type = "remove" /\ changes[1].id = n
        /\ changes[2].type = "add" /\ changes[2].id = n /\ changes[2].node = graph.nodes[n]
    BY <1>2 DEF RemoveChange, AddChange
  <1>4. Good(graph)
    BY DEF GraphInv, HistoryInv, graph
  <1>5. graph.nodes[n] \in {"open", "closed"} /\ n \in NodeIds
    BY <1>4, GoodFacts DEF Exists
  <1>6. Keeping(graph, changes)
    BY <1>3, <1>5 DEF Keeping
  <1>7. GraphInv' /\ hist'.present.nodes = NodesChanged(graph, changes).nodes
    BY <1>1, <1>2, <1>6, DispatchKept
  <1>8. NodesChanged(graph, changes).nodes = graph.nodes
    <2> DEFINE added(m) == {k \in DOMAIN changes : changes[k].type = "add" /\ changes[k].id = m}
               removed == {changes[k].id : k \in {k \in DOMAIN changes : changes[k].type = "remove"}}
    <2>1. PICK nodes : nodes = [m \in NodeIds |->
                IF added(m) # {} THEN changes[CHOOSE k \in added(m) : TRUE].node
                ELSE IF m \in removed THEN "absent" ELSE graph.nodes[m]]
      OBVIOUS
    <2>2. NodesChanged(graph, changes).nodes = nodes
      BY <2>1 DEF NodesChanged
    <2>3. added(n) = {2} /\ removed = {n} /\ \A m \in NodeIds \ {n} : added(m) = {}
      BY <1>3
    <2>4. (CHOOSE k \in {2} : TRUE) = 2
      OBVIOUS
    <2> HIDE DEF added, removed
    <2>5. \A m \in NodeIds : nodes[m] = graph.nodes[m]
      BY <1>3, <2>1, <2>3, <2>4
    <2> QED BY <1>4, <2>1, <2>2, <2>5, GoodFacts
  <1> QED BY <1>7, <1>8 DEF graph

\* An action on the nodes slice alone.
LEMMA OnGraphKept ==
    ASSUME GraphInv, NEW h, HistoryInv(h), OnGraph(h)
    PROVE  GraphInv'
  <1>1. hist' = h /\ UNCHANGED <<clipboard, saving, saved>>
    BY DEF OnGraph
  <1>2. /\ clipboard' \in Clipboard
        /\ \A w \in {saving', saved'} : w = None \/ Good(w.graph)
    BY <1>1 DEF GraphInv
  <1> QED BY <1>1, <1>2 DEF GraphInv

LEMMA NodeIsOpenChangedGraph ==
    ASSUME GraphInv, NodeIsOpenChanged
    PROVE  GraphInv'
  <1>1. PICK n \in Exists(graph) :
            OnGraph(Recorded(hist, IF graph.nodes[n] = "open" THEN Closed(graph, n)
                                   ELSE Opened(graph, n)))
    BY DEF NodeIsOpenChanged
  <1>2. Good(graph) /\ HistoryInv(hist)
    BY DEF GraphInv, HistoryInv, graph
  <1>3. PICK g : g = IF graph.nodes[n] = "open" THEN Closed(graph, n) ELSE Opened(graph, n)
    OBVIOUS
  <1>4. Good(g)
    <2>1. n \in NodeIds
      BY DEF Exists
    <2>2. CASE graph.nodes[n] = "open"
      BY <1>2, <1>3, <2>1, <2>2, ClosedGood
    <2>3. CASE graph.nodes[n] # "open"
      BY <1>2, <1>3, <2>3, OpenedGood
    <2> QED BY <2>2, <2>3
  <1>5. HistoryInv(Recorded(hist, g))
    BY <1>2, <1>4, RecordedKept
  <1> QED BY <1>1, <1>3, <1>5, OnGraphKept

LEMMA FieldValueChangedGraph ==
    ASSUME GraphInv, FieldValueChanged
    PROVE  GraphInv'
  <1>1. HistoryInv(hist) /\ Good(graph)
    BY DEF GraphInv, HistoryInv, graph
  <1>2. HistoryInv(Recorded(hist, graph))
    BY <1>1, RecordedKept
  <1> QED BY <1>2, OnGraphKept DEF FieldValueChanged

LEMMA SelectGraph ==
    ASSUME GraphInv, Select
    PROVE  GraphInv'
  <1>1. HistoryInv(hist) /\ Good(graph)
    BY DEF GraphInv, HistoryInv, graph
  <1>2. HistoryInv(RecordedSelection(hist))
    BY <1>1, RecordedKept
  <1> QED BY <1>2, OnGraphKept DEF Select

LEMMA UndoGraph ==
    ASSUME GraphInv, Undo \/ Redo
    PROVE  GraphInv'
  <1>1. CASE Undo
    <2>1. HistoryInv(Undone(hist))
      BY <1>1, UndoneKept DEF GraphInv, Undo
    <2> QED BY <1>1, <2>1, OnGraphKept DEF Undo
  <1>2. CASE Redo
    <2>1. HistoryInv(Redone(hist))
      BY <1>2, RedoneKept DEF GraphInv, Redo
    <2> QED BY <1>2, <2>1, OnGraphKept DEF Redo
  <1> QED BY <1>1, <1>2

LEMMA CopyGraph ==
    ASSUME GraphInv, CopySelection
    PROVE  GraphInv'
  <1>1. PICK S \in SUBSET Exists(graph), T \in Selections :
            clipboard' = [nodes |-> [n \in NodeIds |-> IF n \in S THEN graph.nodes[n] ELSE "absent"],
                          edges |-> T,
                          edgesTo |-> {e \in graph.edges : e.target \in S}]
    BY DEF CopySelection
  <1>2. Good(graph)
    BY DEF GraphInv, HistoryInv, graph
  <1>3. PICK nodes, to : /\ nodes = [n \in NodeIds |-> IF n \in S THEN graph.nodes[n] ELSE "absent"]
                         /\ to = {e \in graph.edges : e.target \in S}
    OBVIOUS
  <1>4. nodes \in [NodeIds -> {"absent", "open", "closed"}]
    BY <1>2, <1>3, GoodFacts
  <1>5. T \subseteq Edge /\ to \subseteq Edge
    BY <1>2, <1>3, GoodFacts DEF Selections
  <1>6. clipboard' \in Clipboard
    BY <1>1, <1>3, <1>4, <1>5 DEF Clipboard
  <1>7. UNCHANGED <<hist, saving, saved>>
    BY DEF CopySelection
  <1>8. \A w \in {saving', saved'} : w = None \/ Good(w.graph)
    BY <1>7 DEF GraphInv
  <1> QED BY <1>6, <1>7, <1>8 DEF GraphInv

LEMMA EdgesFinite == IsFiniteSet(Edge)
  <1>1. PICK I : I = Inputs \cup {"generated", "pasted"}
    OBVIOUS
  <1>2. IsFiniteSet(I)
    <2>1. IsFiniteSet(Inputs) /\ IsFiniteSet(Inputs \cup {"generated"})
      BY NodeGraphAssumption, FS_AddElement
    <2>2. IsFiniteSet((Inputs \cup {"generated"}) \cup {"pasted"})
      BY <2>1, FS_AddElement
    <2>3. I = (Inputs \cup {"generated"}) \cup {"pasted"}
      BY <1>1
    <2> QED BY <2>2, <2>3
  <1>3. IsFiniteSet(BOOLEAN)
    <2>1. IsFiniteSet({TRUE}) /\ IsFiniteSet({TRUE} \cup {FALSE})
      BY FS_Singleton, FS_AddElement
    <2>2. BOOLEAN = {TRUE} \cup {FALSE}
      OBVIOUS
    <2> QED BY <2>1, <2>2
  <1>4. IsFiniteSet(NodeIds \X NodeIds) /\ IsFiniteSet(I \X BOOLEAN)
    BY <1>2, <1>3, NodeGraphAssumption, FS_Product
  <1>5. IsFiniteSet((NodeIds \X NodeIds) \X (I \X BOOLEAN))
    BY <1>4, FS_Product
  <1>6. PICK P : P = (NodeIds \X NodeIds) \X (I \X BOOLEAN)
    OBVIOUS
  <1>7. PICK f : f = [p \in P |-> [source |-> p[1][1], target |-> p[1][2],
                                   input |-> p[2][1], hidden |-> p[2][2]]]
    OBVIOUS
  <1>8. f \in [P -> Edge]
    BY <1>1, <1>6, <1>7 DEF Edge
  <1>9. ASSUME NEW e \in Edge PROVE \E p \in P : f[p] = e
    <2>1. PICK p : p = <<<<e.source, e.target>>, <<e.input, e.hidden>>>>
      OBVIOUS
    <2>2. p \in P
      BY <1>1, <1>6, <2>1 DEF Edge
    <2>3. f[p] = [source |-> e.source, target |-> e.target, input |-> e.input, hidden |-> e.hidden]
      BY <1>7, <2>1, <2>2
    <2> QED BY <2>2, <2>3 DEF Edge
  <1>10. f \in Surjection(P, Edge)
    BY <1>8, <1>9 DEF Surjection
  <1> QED BY <1>5, <1>6, <1>10, FS_Surjection

LEMMA PasteGraph ==
    ASSUME GraphInv, PasteSelection
    PROVE  GraphInv'
  <1> DEFINE copied == {n \in NodeIds : clipboard.nodes[n] # "absent"}
  <1>1. PICK withEdges \in BOOLEAN, name \in [NodeIds -> NodeIds] :
          /\ \A n \in NodeIds : IF n \in copied THEN NewNode(name[n]) ELSE name[n] = n
          /\ \E order \in SetToSeqs({AddChange(name[n], clipboard.nodes[n]) : n \in copied}),
                queue \in SetToSeqs({Renamed(e, name) : e \in
                    clipboard.edges \cup (IF withEdges THEN clipboard.edgesTo ELSE {})}) :
              Dispatch(order, {}, Pasted(NodesChanged(graph, order), queue).edges \ graph.edges)
    BY DEF PasteSelection
  <1>2. PICK edges : edges = clipboard.edges \cup (IF withEdges THEN clipboard.edgesTo ELSE {})
    OBVIOUS
  <1>3. PICK A, R : /\ A = {AddChange(name[n], clipboard.nodes[n]) : n \in copied}
                    /\ R = {Renamed(e, name) : e \in edges}
    OBVIOUS
  <1>4. PICK order \in SetToSeqs(A), queue \in SetToSeqs(R) :
          Dispatch(order, {}, Pasted(NodesChanged(graph, order), queue).edges \ graph.edges)
    BY <1>1, <1>2, <1>3
  <1>5. Good(graph)
    BY DEF GraphInv, HistoryInv, graph
  <1>6. ASSUME NEW k \in DOMAIN order
        PROVE  /\ order[k].type = "add" /\ order[k].node \in {"open", "closed"}
               /\ order[k].id \notin Exists(graph)
    <2>1. order[k] \in A
      BY DEF SetToSeqs
    <2>2. PICK n \in copied : order[k] = AddChange(name[n], clipboard.nodes[n])
      BY <1>3, <2>1
    <2>3. NewNode(name[n]) /\ graph \in Snapshots(hist)
      BY <1>1 DEF Snapshots, graph
    <2>4. name[n] \notin Exists(graph)
      BY <2>3 DEF NewNode
    <2>5. clipboard.nodes[n] \in {"open", "closed"}
      BY DEF GraphInv, Clipboard
    <2> QED BY <2>2, <2>4, <2>5 DEF AddChange
  <1>7. Keeping(graph, order)
    BY <1>6 DEF Keeping
  <1>8. PICK g : g = NodesChanged(graph, order)
    OBVIOUS
  <1>9. Good(g)
    BY <1>5, <1>7, <1>8, NodesChangedGood
  <1>10. g.edges = graph.edges
    <2>1. Exists(graph) \subseteq Exists(g)
      <3> SUFFICES ASSUME NEW n \in Exists(graph) PROVE n \in Exists(g)
        OBVIOUS
      <3> DEFINE added(m) == {k \in DOMAIN order : order[k].type = "add" /\ order[k].id = m}
                 removed == {order[k].id : k \in {k \in DOMAIN order : order[k].type = "remove"}}
      <3>1. PICK nodes : nodes = [m \in NodeIds |->
                  IF added(m) # {} THEN order[CHOOSE k \in added(m) : TRUE].node
                  ELSE IF m \in removed THEN "absent" ELSE graph.nodes[m]]
        OBVIOUS
      <3>2. g.nodes = nodes
        BY <1>8, <3>1 DEF NodesChanged
      <3>3. added(n) = {} /\ removed = {}
        BY <1>6
      <3>4. n \in NodeIds
        BY DEF Exists
      <3> HIDE DEF added, removed
      <3>5. nodes[n] = graph.nodes[n]
        BY <3>1, <3>3, <3>4
      <3> QED BY <3>2, <3>4, <3>5 DEF Exists
    <2>2. g.edges = {e \in graph.edges : {e.source, e.target} \subseteq Exists(g)}
      BY <1>5, <1>7, <1>8, NodesChangedNodes
    <2> QED BY <1>5, <2>1, <2>2, GoodFacts
  <1>11. R \subseteq {e \in Edge : e.input # "generated"}
    <2>1. edges \subseteq Edge
      BY <1>2 DEF GraphInv, Clipboard
    <2>2. ASSUME NEW e \in Edge
          PROVE  Renamed(e, name) \in Edge /\ Renamed(e, name).input # "generated"
      BY Constants DEF Renamed, Edge, Collapsed
    <2> QED BY <1>3, <2>1, <2>2
  <1>12. queue \in Seq({e \in Edge : e.input # "generated"})
    <2>1. IsFiniteSet(R)
      BY <1>11, EdgesFinite, FS_Subset
    <2>2. PICK k : k = Cardinality(R)
      OBVIOUS
    <2>3. k \in Nat
      BY <2>1, <2>2, FS_CardinalityType
    <2>4. queue \in [1 .. k -> R]
      BY <2>2 DEF SetToSeqs
    <2>5. PICK E : E = {e \in Edge : e.input # "generated"}
      OBVIOUS
    <2>6. queue \in [1 .. k -> E]
      BY <1>11, <2>4, <2>5
    <2> QED BY <2>3, <2>5, <2>6
  <1>13. PICK p : p = Pasted(g, queue)
    OBVIOUS
  <1>14. Good(p) /\ p.nodes = g.nodes /\ g.edges \subseteq p.edges
    BY <1>9, <1>12, <1>13, PastedGood
  <1>15. Good(EdgesChanged(g, {}, p.edges \ graph.edges))
    <2>1. PICK S, T : S = {} /\ T = p.edges \ graph.edges
      OBVIOUS
    <2>2. PICK r : r = EdgesChanged(g, S, T)
      OBVIOUS
    <2>3. /\ r.nodes = g.nodes /\ r = [nodes |-> g.nodes, edges |-> r.edges]
          /\ r.edges = T \cup {e \in g.edges :
               e \notin S /\ ~ \E d \in S : Collapsed(d) /\ SameEnds(d, e)}
      BY <1>9, <2>2, EdgesChangedFacts DEF Good
    <2>4. r.edges = p.edges
      BY <1>10, <1>14, <2>1, <2>3
    <2>5. p = [nodes |-> p.nodes, edges |-> p.edges]
      BY <1>14 DEF Good, Graph
    <2>6. r = p
      BY <1>14, <2>3, <2>4, <2>5
    <2> QED BY <1>14, <2>1, <2>2, <2>6
  <1>16. Dispatch(order, {}, p.edges \ graph.edges)
    BY <1>4, <1>8, <1>13
  <1> QED BY <1>7, <1>8, <1>15, <1>16, DispatchKept

LEMMA EditFormGraph ==
    ASSUME GraphInv, EditForm
    PROVE  GraphInv'
  <1>1. UNCHANGED <<hist, clipboard, saving, saved>>
    <2>1. ASSUME NEW f, NEW i, OnForm(f, i) PROVE UNCHANGED <<hist, clipboard, saving, saved>>
      BY <2>1 DEF OnForm
    <2>2. CASE AddFormElement
      BY <2>1, <2>2 DEF AddFormElement
    <2>3. CASE AddNodeFieldToRoot
      BY <2>1, <2>3 DEF AddNodeFieldToRoot
    <2>4. CASE MoveFormElement
      BY <2>1, <2>4 DEF MoveFormElement
    <2>5. CASE RemoveFormElement
      BY <2>1, <2>5 DEF RemoveFormElement
    <2>6. CASE FormReset
      BY <2>1, <2>6 DEF FormReset
    <2> QED BY <2>2, <2>3, <2>4, <2>5, <2>6 DEF EditForm
  <1>2. /\ clipboard' \in Clipboard
        /\ \A w \in {saving', saved'} : w = None \/ Good(w.graph)
    BY <1>1 DEF GraphInv
  <1> QED BY <1>1, <1>2 DEF GraphInv

LEMMA LibraryGraph ==
    ASSUME GraphInv, SaveWorkflow \/ SaveAnswered \/ SaveFailed \/ LoadWorkflow \/ NodeEditorReset
    PROVE  GraphInv'
  <1>0. /\ HistoryInv(hist) /\ Good(graph) /\ clipboard \in Clipboard
        /\ saving = None \/ Good(saving.graph)
        /\ saved = None \/ Good(saved.graph)
    BY DEF GraphInv, HistoryInv, graph
  <1>1. CASE SaveWorkflow
    <2>1. UNCHANGED <<hist, clipboard, saved>> /\ saving'.graph = graph
      BY <1>1 DEF SaveWorkflow
    <2> QED BY <1>0, <2>1 DEF GraphInv
  <1>2. CASE SaveAnswered
    <2>1. UNCHANGED <<hist, clipboard>> /\ saved' = saving /\ saving' = None
      BY <1>2 DEF SaveAnswered
    <2> QED BY <1>0, <2>1 DEF GraphInv
  <1>3. CASE SaveFailed
    <2>1. UNCHANGED <<hist, clipboard, saved>> /\ saving' = None
      BY <1>3 DEF SaveFailed
    <2> QED BY <1>0, <2>1 DEF GraphInv
  <1>4. CASE LoadWorkflow
    <2>1. UNCHANGED <<clipboard, saving, saved>> /\ saved # None
          /\ hist' = Replaced(hist, saved.graph)
      BY <1>4 DEF LoadWorkflow
    <2>2. HistoryInv(Replaced(hist, saved.graph))
      BY <1>0, <2>1, RecordedKept
    <2> QED BY <1>0, <2>1, <2>2 DEF GraphInv
  <1>5. CASE NodeEditorReset
    <2>1. UNCHANGED <<clipboard, saving, saved>> /\ hist' = Recorded(hist, EmptyGraph)
      BY <1>5 DEF NodeEditorReset
    <2>2. Good(EmptyGraph)
      <3>1. EmptyGraph \in Graph /\ EmptyGraph.edges = {}
        BY DEF EmptyGraph, Graph
      <3>2. Connected(EmptyGraph) /\ StandsFor(EmptyGraph)
        BY <3>1 DEF Connected, StandsFor
      <3>3. Links(EmptyGraph) = {}
        BY <3>1 DEF Links
      <3>4. IsAcyclic({})
        <4>1. ASSUME NEW S \in (SUBSET NodeIds) \ {{}}
              PROVE  \E n \in S : \A e \in {} : e.source = n => e.target \notin S
          <5>1. PICK n \in S : TRUE
            OBVIOUS
          <5> QED BY <5>1
        <4> QED BY <4>1 DEF IsAcyclic
      <3>5. Executable(EmptyGraph)
        BY <3>3, <3>4 DEF Executable
      <3> QED BY <3>1, <3>2, <3>5 DEF Good, WellFormed
    <2>3. HistoryInv(Recorded(hist, EmptyGraph))
      BY <1>0, <2>2, RecordedKept
    <2> QED BY <1>0, <2>1, <2>3 DEF GraphInv
  <1> QED BY <1>1, <1>2, <1>3, <1>4, <1>5

LEMMA InitGraph ==
    ASSUME Init
    PROVE  GraphInv
  <1>1. PICK w \in Workflows : hist = Fresh(w.graph)
    BY DEF Init
  <1>2. Good(w.graph)
    BY WorkflowEditorAssumption DEF Good
  <1>3. clipboard \in Clipboard
    BY DEF Init, Clipboard, NothingCopied, EmptyGraph
  <1> QED BY <1>1, <1>2, <1>3, FreshInv DEF Init, GraphInv

LEMMA StepGraph ==
    ASSUME GraphInv, [Next]_vars
    PROVE  GraphInv'
  <1>1. CASE EditGraph
    BY <1>1, ConnectGraph, ReconnectGraph, DisconnectGraph, AddNodeGraph, DeleteSelectionGraph,
       UpdateNodeGraph, NodeIsOpenChangedGraph, FieldValueChangedGraph, SelectGraph, UndoGraph,
       CopyGraph, PasteGraph DEF EditGraph
  <1>2. CASE EditForm
    BY <1>2, EditFormGraph
  <1>3. CASE SaveWorkflow \/ SaveAnswered \/ SaveFailed \/ LoadWorkflow \/ NodeEditorReset
    BY <1>3, LibraryGraph
  <1>4. CASE UNCHANGED vars
    <2>1. UNCHANGED <<hist, clipboard, saving, saved>>
      BY <1>4 DEF vars
    <2> QED BY <2>1 DEF GraphInv
  <1> QED BY <1>1, <1>2, <1>3, <1>4 DEF Next, User, Server

\* Whatever is edited, undone, redone, pasted, saved or loaded, every state
\* that the editor has or could go back to, and every workflow it saved, is a
\* graph whose edges have ends, that the server would run, and whose collapsed
\* edges stand for hidden ones; and the history stays below its limit.
THEOREM GraphsGood == Spec => []GraphInv
  <1> QED BY InitGraph, StepGraph, PTL DEF Spec

\* Whatever is undone, redone, pasted or loaded, no edge of any state that the
\* editor has or could go back to lacks an end: nodesChanged prunes edges, and
\* each state of the history carries its own.
THEOREM EdgesConnectAlways == Spec => []EdgesConnect
  <1>1. GraphInv => EdgesConnect
    BY HistorySnapshots DEF GraphInv, EdgesConnect, Good, WellFormed
  <1> QED BY <1>1, GraphsGood, PTL

\* None of those states has a cycle of edges or two edges into an input for
\* one, though validateConnection looks at the graph there is when an edge is
\* made, and nothing looks at one that comes back.
THEOREM GraphsValidAlways == Spec => []GraphsValid
  <1>1. GraphInv => GraphsValid
    BY HistorySnapshots DEF GraphInv, GraphsValid, Good, WellFormed
  <1> QED BY <1>1, GraphsGood, PTL

\* The edge that closing a node made has closed nodes at its ends and stands
\* for a hidden edge between them, whatever is deleted, updated, opened, moved
\* or pasted.
THEOREM CollapsedStandsForAlways == Spec => []CollapsedStandsFor
  <1>1. GraphInv => CollapsedStandsFor
    BY HistorySnapshots DEF GraphInv, CollapsedStandsFor, Good, WellFormed
  <1> QED BY <1>1, GraphsGood, PTL

-----------------------------------------------------------------------------
(* Lists of children. *)

Once(s) == \A j, k \in DOMAIN s : s[j] = s[k] => j = k

LEMMA InsertFacts ==
    ASSUME NEW X, NEW s \in Seq(X), NEW i \in 1 .. Len(s) + 1, NEW x \in X
    PROVE  /\ InsertAt(s, i, x) \in Seq(X)
           /\ ToSet(InsertAt(s, i, x)) = ToSet(s) \cup {x}
           /\ Once(s) /\ x \notin ToSet(s) => Once(InsertAt(s, i, x))
  <1>1. PICK n : n = Len(s)
    OBVIOUS
  <1>2. n \in Nat /\ DOMAIN s = 1 .. n
    BY <1>1
  <1>3. PICK r : r = InsertAt(s, i, x)
    OBVIOUS
  <1>4. PICK a, b : a = SubSeq(s, 1, i - 1) /\ b = SubSeq(s, i, n)
    OBVIOUS
  <1>5. /\ a \in Seq(X) /\ Len(a) = i - 1 /\ \A k \in 1 .. i - 1 : a[k] = s[k]
        /\ b \in Seq(X) /\ Len(b) = n - i + 1 /\ \A k \in 1 .. n - i + 1 : b[k] = s[k + i - 1]
    BY <1>1, <1>2, <1>4
  <1>6. r = (a \o <<x>>) \o b
    BY <1>1, <1>3, <1>4 DEF InsertAt
  <1>7. PICK c : c = a \o <<x>>
    OBVIOUS
  <1>8. c \in Seq(X) /\ Len(c) = i /\ c[i] = x /\ \A k \in 1 .. i - 1 : c[k] = s[k]
    BY <1>5, <1>7
  <1>9. /\ r \in Seq(X) /\ Len(r) = n + 1
        /\ \A k \in 1 .. i : r[k] = c[k]
        /\ \A k \in i + 1 .. n + 1 : r[k] = b[k - i]
    BY <1>1, <1>2, <1>5, <1>6, <1>7, <1>8
  <1>10. /\ DOMAIN r = 1 .. n + 1 /\ r[i] = x
         /\ \A k \in 1 .. i - 1 : r[k] = s[k]
         /\ \A k \in i + 1 .. n + 1 : r[k] = s[k - 1]
    <2>1. \A k \in i + 1 .. n + 1 : k - i \in 1 .. n - i + 1 /\ (k - i) + i - 1 = k - 1
      BY <1>1, <1>2
    <2> QED BY <1>1, <1>2, <1>5, <1>8, <1>9, <2>1
  <1>11. ToSet(r) = ToSet(s) \cup {x}
    <2>1. ASSUME NEW k \in DOMAIN r PROVE r[k] \in ToSet(s) \cup {x}
      <3>1. k < i \/ k = i \/ (k > i /\ k - 1 \in 1 .. n)
        BY <1>1, <1>2, <1>10
      <3>2. k \in 1 .. i - 1 \/ k = i \/ (k \in i + 1 .. n + 1 /\ k - 1 \in 1 .. n)
        BY <1>1, <1>2, <1>10, <3>1
      <3>3. k \in 1 .. i - 1 => k \in 1 .. n
        BY <1>1, <1>2
      <3> QED BY <1>2, <1>10, <3>2, <3>3 DEF ToSet
    <2>2. ASSUME NEW k \in DOMAIN s PROVE s[k] \in ToSet(r)
      <3>1. CASE k < i
        <4>1. k \in 1 .. i - 1 /\ k \in 1 .. n + 1
          BY <1>1, <1>2, <3>1
        <4> QED BY <1>10, <4>1 DEF ToSet
      <3>2. CASE ~(k < i)
        <4>1. k + 1 \in i + 1 .. n + 1 /\ k + 1 \in 1 .. n + 1 /\ (k + 1) - 1 = k
          BY <1>1, <1>2, <3>2
        <4> QED BY <1>10, <4>1 DEF ToSet
      <3> QED BY <3>1, <3>2
    <2>3. x \in ToSet(r)
      BY <1>1, <1>2, <1>10 DEF ToSet
    <2> QED BY <2>1, <2>2, <2>3 DEF ToSet
  <1>12. ASSUME Once(s), x \notin ToSet(s) PROVE Once(r)
    <2>1. \A k \in 1 .. n : s[k] # x
      BY <1>2, <1>12 DEF ToSet
    <2>2. ASSUME NEW j \in DOMAIN r, NEW k \in DOMAIN r, r[j] = r[k], j < k PROVE FALSE
      <3>1. /\ j \in Int /\ k \in Int /\ j >= 1 /\ k <= n + 1 /\ i \in Int /\ i >= 1 /\ i <= n + 1
        BY <1>1, <1>2, <1>10
      <3>2. CASE k < i
        <4>1. j \in 1 .. i - 1 /\ k \in 1 .. i - 1 /\ j \in 1 .. n /\ k \in 1 .. n
          BY <1>2, <2>2, <3>1, <3>2
        <4>2. j = k
          BY <1>2, <1>10, <1>12, <2>2, <4>1 DEF Once
        <4> QED BY <2>2, <3>1, <4>2
      <3>3. CASE k = i
        <4>1. j \in 1 .. i - 1 /\ j \in 1 .. n
          BY <1>2, <2>2, <3>1, <3>3
        <4> QED BY <1>10, <2>1, <2>2, <3>3, <4>1
      <3>4. CASE k > i /\ j = i
        <4>1. k \in i + 1 .. n + 1 /\ k - 1 \in 1 .. n
          BY <1>2, <3>1, <3>4
        <4> QED BY <1>10, <2>1, <2>2, <3>4, <4>1
      <3>5. CASE k > i /\ j < i
        <4>1. k \in i + 1 .. n + 1 /\ k - 1 \in 1 .. n /\ j \in 1 .. i - 1 /\ j \in 1 .. n
          BY <1>2, <3>1, <3>5
        <4>2. j = k - 1
          BY <1>2, <1>10, <1>12, <2>2, <4>1 DEF Once
        <4> QED BY <3>1, <3>5, <4>2
      <3>6. CASE k > i /\ j > i
        <4>1. /\ k \in i + 1 .. n + 1 /\ k - 1 \in 1 .. n
              /\ j \in i + 1 .. n + 1 /\ j - 1 \in 1 .. n
          BY <1>2, <2>2, <3>1, <3>6
        <4>2. j - 1 = k - 1
          BY <1>2, <1>10, <1>12, <2>2, <4>1 DEF Once
        <4> QED BY <2>2, <3>1, <4>2
      <3> QED BY <3>1, <3>2, <3>3, <3>4, <3>5, <3>6
    <2>3. \A j, k \in DOMAIN r : j < k \/ k < j \/ j = k
      BY <1>2, <1>10
    <2>4. ASSUME NEW j \in DOMAIN r, NEW k \in DOMAIN r, r[j] = r[k] PROVE j = k
      BY <2>2, <2>3, <2>4
    <2> QED BY <2>4 DEF Once
  <1> QED BY <1>3, <1>9, <1>11, <1>12

LEMMA AppendFacts ==
    ASSUME NEW X, NEW s \in Seq(X), NEW x \in X
    PROVE  /\ Append(s, x) \in Seq(X)
           /\ ToSet(Append(s, x)) = ToSet(s) \cup {x}
           /\ Once(s) /\ x \notin ToSet(s) => Once(Append(s, x))
  <1>1. PICK n : n = Len(s)
    OBVIOUS
  <1>2. n \in Nat /\ DOMAIN s = 1 .. n
    BY <1>1
  <1>3. PICK r : r = Append(s, x)
    OBVIOUS
  <1>4. /\ r \in Seq(X) /\ DOMAIN r = 1 .. n + 1 /\ r[n + 1] = x
        /\ \A k \in 1 .. n : r[k] = s[k]
    BY <1>1, <1>2, <1>3
  <1>5. \A k \in 1 .. n + 1 : k \in 1 .. n \/ k = n + 1
    BY <1>2
  <1>6. \A k \in 1 .. n : k \in 1 .. n + 1
    BY <1>2
  <1>7. n + 1 \in 1 .. n + 1
    BY <1>2
  <1>8. ToSet(r) = ToSet(s) \cup {x}
    BY <1>2, <1>4, <1>5, <1>6, <1>7 DEF ToSet
  <1>9. Once(s) /\ x \notin ToSet(s) => Once(r)
    BY <1>2, <1>4, <1>5 DEF Once, ToSet
  <1> QED BY <1>3, <1>4, <1>8, <1>9

LEMMA WithoutFacts ==
    ASSUME NEW X, NEW s \in Seq(X), NEW dead
    PROVE  /\ Without(s, dead) \in Seq(X)
           /\ ToSet(Without(s, dead)) = ToSet(s) \ dead
           /\ Once(s) => Once(Without(s, dead))
  <1>1. PICK n : n = Len(s)
    OBVIOUS
  <1>2. n \in Nat /\ DOMAIN s = 1 .. n /\ \A k \in 1 .. n : s[k] \in X
    BY <1>1
  <1> DEFINE Step(k, r) == IF s[k] \in dead THEN r ELSE Append(r, s[k])
  <1>3. PICK S : S = Seq(X)
    OBVIOUS
  <1>4. <<>> \in S /\ \A k \in 1 .. n, r \in S : Step(k, r) \in S
    BY <1>2, <1>3
  <1> HIDE DEF Step
  <1>5. PICK F : F = [k \in 1 .. n |-> [r \in S |-> Step(k, r)]]
    OBVIOUS
  <1>6. F \in [1 .. n -> [S -> S]]
    BY <1>4, <1>5
  <1>7. PICK f : Recursion(f, n, <<>>, F)
    BY <1>2, <1>4, <1>6, RecursiveFunction
  <1>8. f = [k \in 0 .. n |-> IF k = 0 THEN <<>> ELSE F[k][f[k - 1]]]
    BY <1>7 DEF Recursion
  <1>9. \A k \in 0 .. n : f[k] \in S
    <2> DEFINE T == {k \in 0 .. n : f[k] \in S}
    <2>1. 0 \in T
      BY <1>2, <1>4, <1>8
    <2>2. ASSUME NEW k \in 1 .. n, k - 1 \in T PROVE k \in T
      <3>1. f[k] = F[k][f[k - 1]] /\ k \in 0 .. n
        BY <1>2, <1>8
      <3> QED BY <1>6, <2>2, <3>1
    <2>3. 0 .. n \subseteq T
      <3> HIDE DEF T
      <3> QED BY <1>2, <2>1, <2>2, UpTo
    <2> QED BY <2>3
  <1>10. f = [k \in 0 .. n |-> IF k = 0 THEN <<>> ELSE Step(k, f[k - 1])]
    <2>1. \A k \in 0 .. n : f[k] = IF k = 0 THEN <<>> ELSE Step(k, f[k - 1])
      <3> SUFFICES ASSUME NEW k \in 0 .. n, k # 0 PROVE f[k] = Step(k, f[k - 1])
        BY <1>2, <1>8
      <3>1. k \in 1 .. n /\ k - 1 \in 0 .. n
        BY <1>2
      <3>2. f[k] = F[k][f[k - 1]]
        BY <1>8
      <3> QED BY <1>5, <1>9, <3>1, <3>2
    <2> QED BY <1>8, <2>1
  <1> DEFINE kept == CHOOSE h : h = [k \in 0 .. n |-> IF k = 0 THEN <<>>
                                        ELSE IF s[k] \in dead THEN h[k - 1] ELSE Append(h[k - 1], s[k])]
  <1>11. kept = [k \in 0 .. n |-> IF k = 0 THEN <<>>
                   ELSE IF s[k] \in dead THEN kept[k - 1] ELSE Append(kept[k - 1], s[k])]
    BY <1>10 DEF Step
  <1>12. Without(s, dead) = kept[n]
    BY <1>1 DEF Without
  <1> HIDE DEF kept
  <1> DEFINE Upto(k) == {s[j] : j \in 1 .. k}
             T == {k \in 0 .. n : /\ kept[k] \in S /\ ToSet(kept[k]) = Upto(k) \ dead
                                  /\ Once(s) => Once(kept[k])}
  <1>13. 0 \in T
    <2>1. kept[0] = <<>> /\ 0 \in 0 .. n
      BY <1>2, <1>11
    <2>2. ToSet(<<>>) = {} /\ Once(<<>>)
      BY DEF ToSet, Once
    <2>3. Upto(0) = {}
      OBVIOUS
    <2> HIDE DEF Upto
    <2> QED BY <1>4, <2>1, <2>2, <2>3
  <1>14. ASSUME NEW k \in 1 .. n, k - 1 \in T PROVE k \in T
    <2>1. PICK r : r = kept[k - 1]
      OBVIOUS
    <2>2. k \in 0 .. n /\ k \in Nat /\ kept[k] = IF s[k] \in dead THEN r ELSE Append(r, s[k])
      <3> HIDE DEF T
      <3>1. k \in 0 .. n /\ k \in Nat /\ k # 0
        BY <1>2
      <3>2. kept[k] = IF k = 0 THEN <<>>
                      ELSE IF s[k] \in dead THEN kept[k - 1] ELSE Append(kept[k - 1], s[k])
        BY <1>11, <3>1
      <3> QED BY <2>1, <3>1, <3>2
    <2>3. r \in Seq(X) /\ ToSet(r) = Upto(k - 1) \ dead /\ (Once(s) => Once(r))
      BY <1>3, <1>14, <2>1
    <2>4. Upto(k) = Upto(k - 1) \cup {s[k]}
      <3>1. \A j \in 1 .. k : j \in 1 .. k - 1 \/ j = k
        BY <2>2
      <3>2. \A j \in 1 .. k - 1 : j \in 1 .. k
        BY <2>2
      <3>3. k \in 1 .. k
        BY <1>2
      <3> QED BY <3>1, <3>2, <3>3
    <2>5. CASE s[k] \in dead
      <3> HIDE DEF Upto
      <3> QED BY <1>3, <2>2, <2>3, <2>4, <2>5
    <2>6. CASE s[k] \notin dead
      <3>1. kept[k] = Append(r, s[k]) /\ s[k] \in X
        BY <1>2, <2>2, <2>6
      <3>2. /\ Append(r, s[k]) \in Seq(X)
            /\ ToSet(Append(r, s[k])) = ToSet(r) \cup {s[k]}
            /\ Once(r) /\ s[k] \notin ToSet(r) => Once(Append(r, s[k]))
        BY <2>3, <3>1, AppendFacts
      <3>3. Once(s) => s[k] \notin Upto(k - 1)
        <4>1. \A j \in 1 .. k - 1 : j \in 1 .. n /\ j # k
          BY <1>2
        <4> QED BY <1>2, <4>1 DEF Once
      <3> HIDE DEF Upto
      <3> QED BY <1>3, <2>2, <2>3, <2>4, <2>6, <3>1, <3>2, <3>3
    <2> QED BY <2>5, <2>6
  <1>15. n \in T
    <2>1. 0 .. n \subseteq T
      <3> HIDE DEF T
      <3> QED BY <1>2, <1>13, <1>14, UpTo
    <2>2. n \in 0 .. n
      BY <1>2
    <2> HIDE DEF T
    <2> QED BY <2>1, <2>2
  <1>16. Upto(n) = ToSet(s)
    BY <1>2 DEF ToSet
  <1> HIDE DEF Upto
  <1> QED BY <1>3, <1>12, <1>15, <1>16

-----------------------------------------------------------------------------
(* The form. *)

\* Each element but the root has a container for its parent, it is listed
\* there and nowhere else, and no list has anything twice, be it an element
\* or what is left of one.
FormInv(f) ==
    /\ IsForm(f) /\ f[Root].node = None
    /\ \A id \in DOMAIN f \ {Root} : IsContainer(f, f[id].parent)
    /\ \A id \in DOMAIN f \ {Root}, e \in DOMAIN f :
        id \in ToSet(f[e].children) <=> e = f[id].parent
    /\ \A e \in DOMAIN f : Once(f[e].children)

LEMMA FormFacts ==
    ASSUME NEW f, FormInv(f)
    PROVE  /\ Root \in DOMAIN f /\ DOMAIN f \subseteq ElementIds \cup {Root}
           /\ f = [e \in DOMAIN f |-> f[e]]
           /\ \A e \in DOMAIN f :
                /\ f[e] \in Element
                /\ f[e] = [parent |-> f[e].parent, node |-> f[e].node, children |-> f[e].children]
                /\ f[e].parent \in ElementIds \cup {Root, None}
                /\ f[e].node \in NodeIds \cup {None}
                /\ f[e].children \in Seq(ElementIds)
  BY DEF FormInv, IsForm, Element

\* A form is given by its elements.
LEMMA FormMade ==
    ASSUME NEW D, Root \in D, D \subseteq ElementIds \cup {Root},
           NEW f, f = [e \in D |-> f[e]], \A e \in D : f[e] \in Element
    PROVE  IsForm(f) /\ DOMAIN f = D
  BY DEF IsForm

LEMMA DropInv ==
    ASSUME NEW f, FormInv(f), NEW dead, Root \notin dead,
           \A id \in DOMAIN f \ {Root} : f[id].parent \in dead => id \in dead
    PROVE  FormInv(Drop(f, dead)) /\ DOMAIN Drop(f, dead) = DOMAIN f \ dead
  <1>1. PICK g : g = Drop(f, dead)
    OBVIOUS
  <1>2. PICK D : D = DOMAIN f \ dead
    OBVIOUS
  <1>3. g = [e \in D |-> [f[e] EXCEPT !.children = Without(f[e].children, dead)]]
    BY <1>1, <1>2 DEF Drop
  <1>4. ASSUME NEW e \in D
        PROVE  /\ e \in DOMAIN f /\ e \notin dead /\ g[e] \in Element
               /\ g[e].parent = f[e].parent /\ g[e].node = f[e].node
               /\ ToSet(g[e].children) = ToSet(f[e].children) \ dead /\ Once(g[e].children)
    <2>1. e \in DOMAIN f /\ e \notin dead
      BY <1>2
    <2>2. PICK c : c = Without(f[e].children, dead)
      OBVIOUS
    <2>3. f[e].children \in Seq(ElementIds) /\ Once(f[e].children)
      BY <2>1, FormFacts DEF FormInv
    <2>4. c \in Seq(ElementIds) /\ ToSet(c) = ToSet(f[e].children) \ dead /\ Once(c)
      BY <2>2, <2>3, WithoutFacts
    <2>5. g[e] = [f[e] EXCEPT !.children = c]
      BY <1>3, <2>2
    <2>6. g[e] = [parent |-> f[e].parent, node |-> f[e].node, children |-> c]
      BY <2>1, <2>5, FormFacts
    <2>7. g[e] \in Element
      BY <2>1, <2>4, <2>6, FormFacts DEF Element
    <2> QED BY <2>1, <2>4, <2>6, <2>7
  <1>5. IsForm(g) /\ DOMAIN g = D
    <2>1. Root \in D /\ D \subseteq ElementIds \cup {Root}
      BY <1>2, FormFacts
    <2>2. g = [e \in D |-> g[e]]
      BY <1>3
    <2> QED BY <1>4, <2>1, <2>2, FormMade
  <1>6. Root \in D /\ g[Root].node = None
    BY <1>2, <1>4, FormFacts DEF FormInv
  <1>7. ASSUME NEW id \in D \ {Root} PROVE IsContainer(g, g[id].parent)
    <2>1. IsContainer(f, f[id].parent)
      BY <1>4 DEF FormInv
    <2>2. f[id].parent \in D
      BY <1>2, <1>4, <2>1 DEF IsContainer
    <2> QED BY <1>4, <1>5, <2>1, <2>2 DEF IsContainer
  <1>8. ASSUME NEW id \in D \ {Root}, NEW e \in D
        PROVE  id \in ToSet(g[e].children) <=> e = g[id].parent
    BY <1>4 DEF FormInv
  <1> QED BY <1>1, <1>2, <1>4, <1>5, <1>6, <1>7, <1>8 DEF FormInv

LEMMA BelowClosed ==
    ASSUME NEW f, FormInv(f), NEW id \in DOMAIN f \ {Root}
    PROVE  /\ id \in Below(f, id) /\ Root \notin Below(f, id)
           /\ \A e \in DOMAIN f \ {Root} : f[e].parent \in Below(f, id) => e \in Below(f, id)
  <1>1. id \in Below(f, id)
    BY DEF Below
  <1>2. Root \notin Below(f, id)
    <2>1. PICK S : S = DOMAIN f \ {Root}
      OBVIOUS
    <2>2. \A p \in S : DOMAIN f \cap ToSet(f[p].children) \subseteq S
      <3>1. ASSUME NEW p \in S PROVE Root \notin ToSet(f[p].children)
        <4>1. f[p].children \in Seq(ElementIds)
          BY <2>1, FormFacts
        <4> QED BY <4>1, Constants DEF ToSet
      <3> QED BY <2>1, <3>1
    <2>3. S \in SUBSET DOMAIN f /\ id \in S /\ Root \notin S
      BY <2>1
    <2> QED BY <2>2, <2>3 DEF Below
  <1>3. ASSUME NEW e \in DOMAIN f \ {Root}, f[e].parent \in Below(f, id)
        PROVE  e \in Below(f, id)
    <2>1. PICK p : p = f[e].parent
      OBVIOUS
    <2>2. p \in DOMAIN f /\ e \in ToSet(f[p].children)
      BY <2>1 DEF FormInv, IsContainer
    <2>3. ASSUME NEW S \in SUBSET DOMAIN f, id \in S,
                 \A q \in S : DOMAIN f \cap ToSet(f[q].children) \subseteq S
          PROVE  e \in S
      <3>1. p \in S
        BY <1>3, <2>1, <2>3 DEF Below
      <3> QED BY <2>2, <2>3, <3>1
    <2> QED BY <2>3 DEF Below
  <1> QED BY <1>1, <1>2, <1>3

LEMMA RemoveInv ==
    ASSUME NEW f, FormInv(f), NEW id
    PROVE  FormInv(RemoveElement(f, id))
  <1>1. CASE id \in DOMAIN f \ {Root} /\ IsContainer(f, f[id].parent)
    <2>1. FormInv(Drop(f, Below(f, id)))
      BY <1>1, BelowClosed, DropInv
    <2> QED BY <1>1, <2>1 DEF RemoveElement
  <1>2. CASE ~(id \in DOMAIN f \ {Root} /\ IsContainer(f, f[id].parent))
    BY <1>2 DEF RemoveElement
  <1> QED BY <1>1, <1>2

\* Fields can be dropped, since no element lies below one.
LEMMA FieldsDropped ==
    ASSUME NEW f, FormInv(f), NEW dead \in SUBSET Fields(f)
    PROVE  FormInv(Drop(f, dead)) /\ DOMAIN Drop(f, dead) = DOMAIN f \ dead
  <1>1. Root \notin dead
    BY DEF Fields, FormInv
  <1>2. \A id \in DOMAIN f \ {Root} : f[id].parent \notin dead
    BY DEF Fields, FormInv, IsContainer
  <1> QED BY <1>1, <1>2, DropInv

LEMMA DefaultInv == FormInv(DefaultForm)
  <1>1. PICK f : f = DefaultForm
    OBVIOUS
  <1>2. DOMAIN f = {Root} /\ f[Root] = [parent |-> None, node |-> None, children |-> <<>>]
    BY <1>1 DEF DefaultForm, Container
  <1>3. f[Root] \in Element
    BY <1>2 DEF Element
  <1>4. f = [e \in {Root} |-> f[e]]
    BY <1>1, <1>2 DEF DefaultForm
  <1>5. IsForm(f)
    BY <1>2, <1>3, <1>4 DEF IsForm
  <1>6. Once(<<>>)
    BY DEF Once
  <1> QED BY <1>1, <1>2, <1>5, <1>6 DEF FormInv

\* Where a workflow is loaded, fields go and stay in the lists of their parents.
LEMMA LoadedInv ==
    ASSUME NEW f, FormInv(f), NEW nodes
    PROVE  FormInv(WithoutMissing(f, nodes))
  <1>1. PICK g : g = WithoutMissing(f, nodes)
    OBVIOUS
  <1>2. PICK D : D = {e \in DOMAIN f : f[e].node \in nodes \cup {None}}
    OBVIOUS
  <1>3. g = [e \in D |-> f[e]]
    BY <1>1, <1>2 DEF WithoutMissing
  <1>4. Root \in D /\ D \subseteq DOMAIN f
    BY <1>2, FormFacts DEF FormInv
  <1>5. IsForm(g) /\ DOMAIN g = D
    <2>1. g = [e \in D |-> g[e]] /\ \A e \in D : g[e] \in Element
      BY <1>3, <1>4, FormFacts
    <2> QED BY <1>4, <2>1, FormFacts, FormMade
  <1>6. ASSUME NEW id \in D \ {Root} PROVE IsContainer(g, g[id].parent)
    <2>1. IsContainer(f, f[id].parent)
      BY <1>4 DEF FormInv
    <2> QED BY <1>2, <1>3, <1>5, <2>1 DEF IsContainer
  <1>7. \A id \in D \ {Root}, e \in D : id \in ToSet(g[e].children) <=> e = g[id].parent
    BY <1>3, <1>4 DEF FormInv
  <1>8. \A e \in D : Once(g[e].children)
    BY <1>3, <1>4 DEF FormInv
  <1>9. g[Root].node = None
    BY <1>3, <1>4 DEF FormInv
  <1> QED BY <1>1, <1>5, <1>6, <1>7, <1>8, <1>9 DEF FormInv

LEMMA AddInv ==
    ASSUME NEW f, FormInv(f), NEW id \in ElementIds, id \notin DOMAIN f,
           \A e \in DOMAIN f : id \notin ToSet(f[e].children),
           NEW p, IsContainer(f, p), NEW node \in NodeIds \cup {None},
           NEW index \in 1 .. Len(f[p].children) + 1
    PROVE  FormInv(AddElement(f, id, Field(p, node), index))
  <1>0. p \in DOMAIN f /\ p # id /\ f[p].node = None
    BY DEF IsContainer
  <1>1. PICK c : c = InsertAt(f[p].children, index, id)
    OBVIOUS
  <1>2. f[p].children \in Seq(ElementIds) /\ Once(f[p].children)
    BY <1>0, FormFacts DEF FormInv
  <1>3. c \in Seq(ElementIds) /\ ToSet(c) = ToSet(f[p].children) \cup {id} /\ Once(c)
    BY <1>0, <1>1, <1>2, InsertFacts
  <1>4. PICK g : g = AddElement(f, id, Field(p, node), index)
    OBVIOUS
  <1>5. PICK D : D = DOMAIN f \cup {id}
    OBVIOUS
  <1>6. PICK new : new = [parent |-> p, node |-> node, children |-> <<>>]
    OBVIOUS
  <1>7. new \in Element /\ new.children = <<>> /\ new.parent = p
    BY <1>0, <1>6, FormFacts DEF Element
  <1>8. g = [e \in D |-> CASE e = id -> new
                           [] e = p -> [f[e] EXCEPT !.children = InsertAt(f[e].children, index, id)]
                           [] OTHER -> f[e]]
    BY <1>4, <1>5, <1>6 DEF AddElement, Field
  <1>9. g[id] = new
    <2>1. id \in D
      BY <1>5
    <2>2. g[id] = CASE id = id -> new
                    [] id = p -> [f[id] EXCEPT !.children = InsertAt(f[id].children, index, id)]
                    [] OTHER -> f[id]
      BY <1>8, <2>1
    <2> QED BY <1>0, <2>2
  <1>10. g[p] = [parent |-> f[p].parent, node |-> f[p].node, children |-> c] /\ g[p] \in Element
    <2>1. g[p] = [f[p] EXCEPT !.children = c]
      BY <1>0, <1>1, <1>5, <1>8
    <2>2. g[p] = [parent |-> f[p].parent, node |-> f[p].node, children |-> c]
      BY <1>0, <2>1, FormFacts
    <2> QED BY <1>0, <1>3, <2>2, FormFacts DEF Element
  <1>11. \A e \in DOMAIN f \ {p} : g[e] = f[e]
    BY <1>5, <1>8
  <1>12. IsForm(g) /\ DOMAIN g = D
    <2>1. \A e \in D : g[e] \in Element
      BY <1>5, <1>7, <1>9, <1>10, <1>11, FormFacts
    <2>2. g = [e \in D |-> g[e]]
      BY <1>8
    <2>3. Root \in D /\ D \subseteq ElementIds \cup {Root}
      BY <1>5, FormFacts
    <2> QED BY <2>1, <2>2, <2>3, FormMade
  <1>13. /\ \A e \in DOMAIN f : g[e].parent = f[e].parent /\ g[e].node = f[e].node
         /\ \A e \in DOMAIN f \ {p} : ToSet(g[e].children) = ToSet(f[e].children)
         /\ ToSet(g[p].children) = ToSet(f[p].children) \cup {id}
         /\ g[id].parent = p /\ ToSet(g[id].children) = {}
    <2>1. ToSet(<<>>) = {}
      BY DEF ToSet
    <2> QED BY <1>3, <1>7, <1>9, <1>10, <1>11, <2>1
  <1>14. \A e \in D \ {Root} : IsContainer(g, g[e].parent)
    <2>1. IsContainer(g, p)
      BY <1>0, <1>5, <1>12, <1>13 DEF IsContainer
    <2>2. ASSUME NEW e \in DOMAIN f \ {Root} PROVE IsContainer(g, g[e].parent)
      <3>1. IsContainer(f, f[e].parent)
        BY DEF FormInv
      <3> QED BY <1>5, <1>12, <1>13, <3>1 DEF IsContainer
    <2> QED BY <1>5, <1>13, <2>1, <2>2
  <1>15. ASSUME NEW x \in D \ {Root}, NEW e \in D
         PROVE  x \in ToSet(g[e].children) <=> e = g[x].parent
    <2>1. CASE x = id
      <3>1. \A a \in DOMAIN f : id \notin ToSet(f[a].children)
        OBVIOUS
      <3> QED BY <1>0, <1>5, <1>13, <2>1, <3>1
    <2>2. CASE x # id
      <3>1. x \in DOMAIN f \ {Root} /\ g[x].parent = f[x].parent /\ f[x].parent # id
        BY <1>5, <1>13, <2>2 DEF FormInv, IsContainer
      <3>2. CASE e = id
        BY <1>13, <3>1, <3>2
      <3>3. CASE e # id
        <4>1. e \in DOMAIN f /\ (x \in ToSet(f[e].children) <=> e = f[x].parent)
          BY <1>5, <3>1, <3>3 DEF FormInv
        <4> QED BY <1>13, <2>2, <3>1, <4>1
      <3> QED BY <3>2, <3>3
    <2> QED BY <2>1, <2>2
  <1>16. ASSUME NEW e \in D PROVE Once(g[e].children)
    <2>1. Once(<<>>)
      BY DEF Once
    <2> QED BY <1>3, <1>5, <1>7, <1>9, <1>10, <1>11, <2>1 DEF FormInv
  <1>17. g[Root].node = None
    BY <1>13, FormFacts DEF FormInv
  <1> QED BY <1>4, <1>12, <1>14, <1>15, <1>16, <1>17 DEF FormInv

LEMMA ReparentInv ==
    ASSUME NEW f, FormInv(f), NEW id \in DOMAIN f \ {Root}, NEW p,
           IsContainer(f, p), p # f[id].parent, NEW index \in 1 .. Len(f[p].children) + 1
    PROVE  FormInv(ReparentElement(f, id, p, index))
  <1>1. PICK o : o = f[id].parent
    OBVIOUS
  <1>2. /\ o \in DOMAIN f /\ f[o].node = None /\ p \in DOMAIN f /\ f[p].node = None /\ p # o
        /\ IsContainer(f, o)
    BY <1>1 DEF FormInv, IsContainer
  <1>3. id \in ElementIds
    BY FormFacts
  <1>4. PICK c, d : c = InsertAt(f[p].children, index, id) /\ d = Without(f[o].children, {id})
    OBVIOUS
  <1>5. id \notin ToSet(f[p].children)
    BY <1>1, <1>2 DEF FormInv
  <1>6. c \in Seq(ElementIds) /\ ToSet(c) = ToSet(f[p].children) \cup {id} /\ Once(c)
    <2>1. f[p].children \in Seq(ElementIds) /\ Once(f[p].children)
      BY <1>2, FormFacts DEF FormInv
    <2> QED BY <1>3, <1>4, <1>5, <2>1, InsertFacts
  <1>7. d \in Seq(ElementIds) /\ ToSet(d) = ToSet(f[o].children) \ {id} /\ Once(d)
    <2>1. f[o].children \in Seq(ElementIds) /\ Once(f[o].children)
      BY <1>2, FormFacts DEF FormInv
    <2> QED BY <1>4, <2>1, WithoutFacts
  <1>8. PICK g : g = ReparentElement(f, id, p, index)
    OBVIOUS
  <1>9. /\ DOMAIN g = DOMAIN f /\ g = [e \in DOMAIN f |-> g[e]]
        /\ \A e \in DOMAIN f : g[e] =
             [parent |-> IF e = id THEN p ELSE f[e].parent, node |-> f[e].node,
              children |-> IF e = p THEN c ELSE IF e = o THEN d ELSE f[e].children]
    <2>1. g = [f EXCEPT ![p].children = InsertAt(@, index, id),
                        ![o].children = Without(@, {id}),
                        ![id].parent = p]
      BY <1>1, <1>2, <1>8 DEF ReparentElement
    <2>2. PICK g1 : g1 = [f EXCEPT ![p].children = InsertAt(@, index, id)]
      OBVIOUS
    <2>3. PICK g2 : g2 = [g1 EXCEPT ![o].children = Without(@, {id})]
      OBVIOUS
    <2>4. /\ DOMAIN g1 = DOMAIN f
          /\ \A e \in DOMAIN f : g1[e] = [parent |-> f[e].parent, node |-> f[e].node,
                                          children |-> IF e = p THEN c ELSE f[e].children]
      <3>1. g1 = [f EXCEPT ![p] = [f[p] EXCEPT !.children = c]]
        BY <1>2, <1>4, <2>2, FormFacts
      <3>2. PICK r : r = [f[p] EXCEPT !.children = c]
        OBVIOUS
      <3>3. r = [parent |-> f[p].parent, node |-> f[p].node, children |-> c]
        BY <1>2, <3>2, FormFacts
      <3>4. g1 = [f EXCEPT ![p] = r]
        BY <3>1, <3>2
      <3> QED BY <1>2, <3>3, <3>4, FormFacts
    <2>5. /\ DOMAIN g2 = DOMAIN f
          /\ \A e \in DOMAIN f : g2[e] =
               [parent |-> f[e].parent, node |-> f[e].node,
                children |-> IF e = p THEN c ELSE IF e = o THEN d ELSE f[e].children]
      <3>1. g1[o] = [parent |-> f[o].parent, node |-> f[o].node, children |-> f[o].children]
        BY <1>2, <2>4
      <3>2. PICK r : r = [g1[o] EXCEPT !.children = Without(f[o].children, {id})]
        OBVIOUS
      <3>3. r = [parent |-> f[o].parent, node |-> f[o].node, children |-> d]
        BY <1>4, <3>1, <3>2
      <3>4. g2 = [g1 EXCEPT ![o] = r]
        BY <1>2, <2>3, <2>4, <3>1, <3>2
      <3> QED BY <1>2, <2>4, <3>3, <3>4
    <2>6. g = [g2 EXCEPT ![id].parent = p]
      <3>1. g1[o].children = f[o].children
        BY <1>2, <2>4
      <3> QED BY <2>1, <2>2, <2>3, <3>1
    <2>7. PICK r : r = [g2[id] EXCEPT !.parent = p]
      OBVIOUS
    <2>8. r = [parent |-> p, node |-> f[id].node,
               children |-> IF id = p THEN c ELSE IF id = o THEN d ELSE f[id].children]
      BY <2>5, <2>7
    <2>9. g = [g2 EXCEPT ![id] = r]
      BY <2>6, <2>7
    <2> QED BY <2>5, <2>8, <2>9
  <1>10. IsForm(g)
    <2>1. ASSUME NEW e \in DOMAIN f PROVE g[e] \in Element
      <3>1. f[e].children \in Seq(ElementIds) /\ f[e].parent \in ElementIds \cup {Root, None}
            /\ f[e].node \in NodeIds \cup {None} /\ p \in ElementIds \cup {Root}
        BY <1>2, FormFacts
      <3>2. PICK l, q : /\ l = IF e = p THEN c ELSE IF e = o THEN d ELSE f[e].children
                        /\ q = IF e = id THEN p ELSE f[e].parent
        OBVIOUS
      <3>3. l \in Seq(ElementIds) /\ q \in ElementIds \cup {Root, None}
        BY <1>6, <1>7, <3>1, <3>2
      <3>4. g[e] = [parent |-> q, node |-> f[e].node, children |-> l]
        BY <1>9, <3>2
      <3> QED BY <3>1, <3>3, <3>4 DEF Element
    <2> QED BY <1>9, <2>1, FormFacts, FormMade
  <1>11. /\ \A e \in DOMAIN f : g[e].node = f[e].node
         /\ \A e \in DOMAIN f \ {id} : g[e].parent = f[e].parent
         /\ g[id].parent = p
         /\ g[p].children = c /\ g[o].children = d
         /\ \A e \in DOMAIN f \ {p, o} : g[e].children = f[e].children
    BY <1>2, <1>9
  <1>12. \A e \in DOMAIN g \ {Root} : IsContainer(g, g[e].parent)
    BY <1>2, <1>9, <1>11 DEF FormInv, IsContainer
  <1>13. ASSUME NEW x \in DOMAIN g \ {Root}, NEW e \in DOMAIN g
         PROVE  x \in ToSet(g[e].children) <=> e = g[x].parent
    <2>1. x \in DOMAIN f \ {Root} /\ e \in DOMAIN f /\ (x \in ToSet(f[e].children) <=> e = f[x].parent)
      BY <1>9 DEF FormInv
    <2>2. CASE e = p
      BY <1>1, <1>2, <1>6, <1>11, <2>1, <2>2
    <2>3. CASE e = o
      BY <1>1, <1>2, <1>7, <1>11, <2>1, <2>3
    <2>4. CASE e \notin {p, o}
      BY <1>1, <1>2, <1>11, <2>1, <2>4
    <2> QED BY <2>2, <2>3, <2>4
  <1>14. \A e \in DOMAIN g : Once(g[e].children)
    BY <1>6, <1>7, <1>9, <1>11 DEF FormInv
  <1>15. g[Root].node = None
    BY <1>11, FormFacts DEF FormInv
  <1> QED BY <1>8, <1>10, <1>12, <1>13, <1>14, <1>15 DEF FormInv

LEMMA ReorderedFacts ==
    ASSUME NEW s \in Seq(ElementIds), Once(s), NEW id \in ToSet(s), NEW target \in ToSet(s) \ {id},
           NEW after \in 0 .. 1
    PROVE  /\ Reordered(s, id, target, after) \in Seq(ElementIds)
           /\ ToSet(Reordered(s, id, target, after)) = ToSet(s)
           /\ Once(Reordered(s, id, target, after))
  <1>1. PICK r : r = Without(s, {id})
    OBVIOUS
  <1>2. r \in Seq(ElementIds) /\ ToSet(r) = ToSet(s) \ {id} /\ Once(r)
    BY <1>1, WithoutFacts
  <1>3. PICK at : at = CHOOSE k \in DOMAIN r : r[k] = target
    OBVIOUS
  <1>4. at \in DOMAIN r
    BY <1>2, <1>3 DEF ToSet
  <1>5. at + after \in 1 .. Len(r) + 1
    BY <1>2, <1>4
  <1>6. id \in ElementIds
    BY DEF ToSet
  <1>7. Reordered(s, id, target, after) = InsertAt(r, at + after, id)
    BY <1>1, <1>3 DEF Reordered
  <1>8. PICK t : t = InsertAt(r, at + after, id)
    OBVIOUS
  <1>9. t \in Seq(ElementIds) /\ ToSet(t) = ToSet(r) \cup {id} /\ (Once(r) /\ id \notin ToSet(r) => Once(t))
    BY <1>2, <1>5, <1>6, <1>8, InsertFacts
  <1>10. t \in Seq(ElementIds) /\ ToSet(t) = ToSet(s) /\ Once(t)
    BY <1>2, <1>9
  <1> QED BY <1>7, <1>8, <1>10

LEMMA ReorderInv ==
    ASSUME NEW f, FormInv(f), NEW id \in DOMAIN f \ {Root}, NEW target \in DOMAIN f \ {Root, id},
           f[target].parent = f[id].parent, NEW after \in 0 .. 1
    PROVE  FormInv([f EXCEPT ![f[id].parent].children = Reordered(@, id, target, after)])
  <1>1. PICK p : p = f[id].parent
    OBVIOUS
  <1>2. p \in DOMAIN f
    BY <1>1 DEF FormInv, IsContainer
  <1>3. PICK c : c = Reordered(f[p].children, id, target, after)
    OBVIOUS
  <1>4. c \in Seq(ElementIds) /\ ToSet(c) = ToSet(f[p].children) /\ Once(c)
    <2>1. f[p].children \in Seq(ElementIds) /\ Once(f[p].children)
      BY <1>2, FormFacts DEF FormInv
    <2>2. id \in ToSet(f[p].children) /\ target \in ToSet(f[p].children) \ {id}
      BY <1>1, <1>2 DEF FormInv
    <2> QED BY <1>3, <2>1, <2>2, ReorderedFacts
  <1>5. PICK r : r = [f[p] EXCEPT !.children = c]
    OBVIOUS
  <1>6. r = [parent |-> f[p].parent, node |-> f[p].node, children |-> c] /\ r \in Element
    <2>1. f[p] = [parent |-> f[p].parent, node |-> f[p].node, children |-> f[p].children]
      BY <1>2, FormFacts
    <2>2. r = [parent |-> f[p].parent, node |-> f[p].node, children |-> c]
      BY <1>5, <2>1
    <2> QED BY <1>2, <1>4, <2>2, FormFacts DEF Element
  <1>7. PICK g : g = [f EXCEPT ![p].children = Reordered(@, id, target, after)]
    OBVIOUS
  <1>8. g = [f EXCEPT ![p] = r]
    BY <1>2, <1>3, <1>5, <1>7, FormFacts
  <1>9. /\ DOMAIN g = DOMAIN f /\ g = [e \in DOMAIN f |-> g[e]]
        /\ g[p] = r /\ \A e \in DOMAIN f \ {p} : g[e] = f[e]
    <2>1. f = [e \in DOMAIN f |-> f[e]]
      BY FormFacts
    <2>2. \A e \in DOMAIN f : g[e] = IF e = p THEN r ELSE f[e]
      BY <1>2, <1>8, <2>1
    <2>3. DOMAIN g = DOMAIN f /\ g = [e \in DOMAIN g |-> g[e]]
      BY <1>8, <2>1
    <2> QED BY <1>2, <2>2, <2>3
  <1>10. IsForm(g)
    <2>1. \A e \in DOMAIN f : g[e] \in Element
      BY <1>6, <1>9, FormFacts
    <2> QED BY <1>9, <2>1, FormFacts, FormMade
  <1>11. \A e \in DOMAIN f : /\ g[e].parent = f[e].parent /\ g[e].node = f[e].node
                             /\ ToSet(g[e].children) = ToSet(f[e].children) /\ Once(g[e].children)
    BY <1>4, <1>6, <1>9 DEF FormInv
  <1>12. FormInv(g)
    BY <1>9, <1>10, <1>11, FormFacts DEF FormInv, IsContainer
  <1> QED BY <1>1, <1>7, <1>12

\* Where an element can be dropped.
LEMMA DropFacts ==
    ASSUME NEW target \in Rendered(form), FormInv(form), NEW drop \in Drops(target)
    PROVE  /\ IsContainer(form, drop.parent)
           /\ drop.index \in 1 .. Len(form[drop.parent].children) + 1
           /\ \/ drop.parent = target /\ form[target].children = <<>>
              \/ target # Root /\ drop.parent = form[target].parent
  <1>0. target \in DOMAIN form
    BY DEF Rendered, Below
  <1>1. CASE IsContainer(form, target) /\ form[target].children = <<>>
             /\ drop = [parent |-> target, index |-> 1]
    <2>1. Len(form[target].children) = 0
      BY <1>1
    <2> QED BY <1>1, <2>1
  <1>2. ASSUME target # Root, NEW after \in 0 .. 1, NEW at,
               at = CHOOSE k \in DOMAIN form[form[target].parent].children :
                       form[form[target].parent].children[k] = target,
               drop = [parent |-> form[target].parent, index |-> at + after]
        PROVE  /\ IsContainer(form, drop.parent)
               /\ drop.index \in 1 .. Len(form[drop.parent].children) + 1
               /\ drop.parent = form[target].parent
    <2>1. PICK p : p = form[target].parent
      OBVIOUS
    <2>2. IsContainer(form, p) /\ p \in DOMAIN form
      BY <1>0, <1>2, <2>1 DEF FormInv, IsContainer
    <2>3. PICK s : s = form[p].children
      OBVIOUS
    <2>4. s \in Seq(ElementIds) /\ target \in ToSet(s)
      BY <1>0, <1>2, <2>1, <2>2, <2>3, FormFacts DEF FormInv
    <2>5. at \in DOMAIN s
      BY <1>2, <2>1, <2>3, <2>4 DEF ToSet
    <2>6. at + after \in 1 .. Len(s) + 1
      BY <2>4, <2>5
    <2> QED BY <1>2, <2>1, <2>2, <2>3, <2>6
  <1> QED BY <1>1, <1>2 DEF Drops

\* How often something is in a list.
Places(s, x) == {k \in DOMAIN s : s[k] = x}

LEMMA Counted ==
    ASSUME NEW X, NEW s \in Seq(X), NEW x
    PROVE  /\ Cardinality(Places(s, x)) = 0 <=> x \notin ToSet(s)
           /\ Cardinality(Places(s, x)) = 1 <=> \E k : Places(s, x) = {k}
  <1>1. IsFiniteSet(Places(s, x))
    <2>1. IsFiniteSet(1 .. Len(s)) /\ Places(s, x) \subseteq 1 .. Len(s)
      BY FS_Interval DEF Places
    <2> QED BY <2>1, FS_Subset
  <1>2. Cardinality(Places(s, x)) = 0 <=> x \notin ToSet(s)
    <2>1. Cardinality(Places(s, x)) = 0 <=> Places(s, x) = {}
      BY <1>1, FS_EmptySet
    <2> QED BY <2>1 DEF ToSet, Places
  <1>3. Cardinality(Places(s, x)) = 1 <=> \E k : Places(s, x) = {k}
    BY <1>1, FS_Singleton
  <1> QED BY <1>2, <1>3

LEMMA FormPlaced ==
    ASSUME NEW f, FormInv(f)
    PROVE  Placed(f)
  <1> SUFFICES ASSUME NEW id \in DOMAIN f \ {Root}, NEW e \in DOMAIN f
               PROVE  /\ IsContainer(f, f[id].parent)
                      /\ Cardinality({k \in DOMAIN f[e].children : f[e].children[k] = id})
                            = IF e = f[id].parent THEN 1 ELSE 0
    BY FormFacts DEF Placed, FormInv, IsContainer
  <1>1. IsContainer(f, f[id].parent) /\ (id \in ToSet(f[e].children) <=> e = f[id].parent)
    BY DEF FormInv
  <1>2. PICK s : s = f[e].children
    OBVIOUS
  <1>3. s \in Seq(ElementIds) /\ Once(s)
    BY <1>2, FormFacts DEF FormInv
  <1>4. /\ Cardinality(Places(s, id)) = 0 <=> id \notin ToSet(s)
        /\ Cardinality(Places(s, id)) = 1 <=> \E k : Places(s, id) = {k}
    BY <1>3, Counted
  <1>5. ASSUME id \in ToSet(s) PROVE \E k : Places(s, id) = {k}
    <2>1. PICK k \in DOMAIN s : s[k] = id
      BY <1>5 DEF ToSet
    <2>2. Places(s, id) = {k}
      BY <1>3, <2>1 DEF Once, Places
    <2> QED BY <2>2
  <1>6. Cardinality(Places(s, id)) = IF e = f[id].parent THEN 1 ELSE 0
    BY <1>1, <1>2, <1>4, <1>5
  <1> QED BY <1>1, <1>2, <1>6 DEF Places

LEMMA WorkflowForm ==
    ASSUME NEW w \in Workflows
    PROVE  FormInv(w.form)
  <1>1. PICK f : f = w.form
    OBVIOUS
  <1>2. IsForm(f) /\ ValidForm(f) /\ Placed(f)
    BY <1>1, WorkflowEditorAssumption
  <1>3. f[Root].node = None
    BY <1>2 DEF ValidForm, IsContainer
  <1>4. ASSUME NEW e \in DOMAIN f, NEW id \in DOMAIN f \ {Root}
        PROVE  /\ IsContainer(f, f[id].parent)
               /\ id \in ToSet(f[e].children) <=> e = f[id].parent
               /\ id \in ToSet(f[e].children) => \E k : Places(f[e].children, id) = {k}
    <2>1. PICK s : s = f[e].children
      OBVIOUS
    <2>2. s \in Seq(ElementIds)
      BY <1>2, <2>1 DEF IsForm, Element
    <2>3. Cardinality(Places(s, id)) = IF e = f[id].parent THEN 1 ELSE 0
      BY <1>2, <2>1 DEF Placed, Places
    <2>4. /\ Cardinality(Places(s, id)) = 0 <=> id \notin ToSet(s)
          /\ Cardinality(Places(s, id)) = 1 <=> \E k : Places(s, id) = {k}
      BY <2>2, Counted
    <2>5. IsContainer(f, f[id].parent)
      BY <1>2 DEF Placed
    <2> QED BY <2>1, <2>3, <2>4, <2>5
  <1>5. ASSUME NEW e \in DOMAIN f PROVE Once(f[e].children)
    <2>1. PICK s : s = f[e].children
      OBVIOUS
    <2>2. s \in Seq(ElementIds) /\ ToSet(s) \subseteq DOMAIN f
      BY <1>2, <2>1 DEF IsForm, Element, ValidForm
    <2>3. ASSUME NEW j \in DOMAIN s, NEW k \in DOMAIN s, s[j] = s[k] PROVE j = k
      <3>1. s[j] \in DOMAIN f \ {Root} /\ s[j] \in ToSet(s)
        BY <2>2, Constants DEF ToSet
      <3>2. PICK i : Places(s, s[j]) = {i}
        <4>1. PICK id : id = s[j]
          OBVIOUS
        <4>2. id \in DOMAIN f \ {Root} /\ id \in ToSet(f[e].children)
          BY <2>1, <3>1, <4>1
        <4>3. \E i1 : Places(f[e].children, id) = {i1}
          BY <1>4, <4>2
        <4> QED BY <2>1, <4>1, <4>3
      <3> QED BY <2>3, <3>2 DEF Places
    <2> QED BY <2>1, <2>3 DEF Once
  <1>6. Root \in DOMAIN f
    BY <1>2 DEF IsForm
  <1> QED BY <1>1, <1>2, <1>3, <1>4, <1>5, <1>6 DEF FormInv

-----------------------------------------------------------------------------
(* What the editor has is a form. *)

FormsInv ==
    /\ FormInv(form)
    /\ initials \subseteq ElementIds
    /\ \A w \in {saving, saved} : w = None \/ FormInv(w.form)
    /\ touched \in BOOLEAN
    /\ edits \in 0 .. MaxEdits

LEMMA InitialsTyped ==
    ASSUME NEW f, FormInv(f), NEW g
    PROVE  InitialValues(f, g) \subseteq ElementIds
  BY FormFacts DEF InitialValues, Fields, FormInv

\* All but the counter of what the user did.
FormsAfter ==
    /\ FormInv(form') /\ initials' \subseteq ElementIds /\ touched' \in BOOLEAN
    /\ \A w \in {saving', saved'} : w = None \/ FormInv(w.form)

LEMMA DispatchForms ==
    ASSUME FormsInv, NEW changes, NEW removed, NEW added, Dispatch(changes, removed, added)
    PROVE  FormsAfter
  <1>1. PICK dead : dead = {id \in Fields(form) : form[id].node \in RemovedNodes(changes)}
    OBVIOUS
  <1>2. form' = Drop(form, dead)
    BY <1>1 DEF Dispatch, FormAfter
  <1>3. FormInv(form')
    BY <1>1, <1>2, FieldsDropped DEF FormsInv
  <1>4. touched' = TRUE /\ UNCHANGED <<initials, saving, saved>>
    BY DEF Dispatch
  <1> QED BY <1>3, <1>4 DEF FormsInv, FormsAfter

LEMMA GraphActionForms ==
    ASSUME FormsInv, NEW h, OnGraph(h), touched' \in BOOLEAN
    PROVE  FormsAfter
  BY DEF OnGraph, FormsInv, FormsAfter

LEMMA FormActionForms ==
    ASSUME FormsInv, NEW f, FormInv(f), NEW i, i \subseteq ElementIds, OnForm(f, i)
    PROVE  FormsAfter
  BY DEF OnForm, FormsInv, FormsAfter

LEMMA EditGraphForms ==
    ASSUME FormsInv, EditGraph
    PROVE  FormsAfter
  <1>1. CASE Connect
    BY <1>1, DispatchForms DEF Connect
  <1>2. CASE Reconnect
    BY <1>2, DispatchForms DEF Reconnect
  <1>3. CASE Disconnect
    BY <1>3, DispatchForms DEF Disconnect
  <1>4. CASE AddNode
    <2>1. \E changes, added : Dispatch(changes, {}, added)
      BY <1>4 DEF AddNode
    <2> QED BY <2>1, DispatchForms
  <1>5. CASE DeleteSelection
    BY <1>5, DispatchForms DEF DeleteSelection
  <1>6. CASE UpdateNode
    BY <1>6, DispatchForms DEF UpdateNode
  <1>7. CASE PasteSelection
    BY <1>7, DispatchForms DEF PasteSelection
  <1>8. CASE NodeIsOpenChanged
    BY <1>8, GraphActionForms DEF NodeIsOpenChanged
  <1>9. CASE FieldValueChanged
    BY <1>9, GraphActionForms DEF FieldValueChanged
  <1>10. CASE Select
    <2>1. touched' \in BOOLEAN
      BY <1>10 DEF Select, FormsInv
    <2> QED BY <1>10, <2>1, GraphActionForms DEF Select
  <1>11. CASE Undo \/ Redo
    <2>1. touched' \in BOOLEAN
      BY <1>11 DEF Undo, Redo, FormsInv
    <2> QED BY <1>11, <2>1, GraphActionForms DEF Undo, Redo
  <1>12. CASE CopySelection
    <2>1. UNCHANGED <<form, initials, touched, saving, saved>>
      BY <1>12 DEF CopySelection
    <2> QED BY <2>1 DEF FormsInv, FormsAfter
  <1> QED BY <1>1, <1>2, <1>3, <1>4, <1>5, <1>6, <1>7, <1>8, <1>9, <1>10, <1>11, <1>12 DEF EditGraph

LEMMA AddFormElementForms ==
    ASSUME FormsInv, AddFormElement \/ AddNodeFieldToRoot
    PROVE  FormsAfter
  <1>0. FormInv(form) /\ initials \subseteq ElementIds
    BY DEF FormsInv
  <1>1. ASSUME NEW id \in ElementIds, NewElement(id), NEW p, IsContainer(form, p),
               NEW node \in NodeIds \cup {None}, NEW index \in 1 .. Len(form[p].children) + 1
        PROVE  FormInv(AddElement(form, id, Field(p, node), index))
    BY <1>0, <1>1, AddInv DEF NewElement
  <1>2. CASE AddFormElement
    <2>1. PICK id \in ElementIds, node \in Exists(graph) \cup {None}, target \in Rendered(form) :
            \E drop \in Drops(target) :
                /\ NewElement(id)
                /\ OnForm(AddElement(form, id, Field(drop.parent, node), drop.index),
                          IF node = None THEN initials ELSE initials \cup {id})
      BY <1>2 DEF AddFormElement
    <2>2. PICK drop \in Drops(target) :
            /\ NewElement(id)
            /\ OnForm(AddElement(form, id, Field(drop.parent, node), drop.index),
                      IF node = None THEN initials ELSE initials \cup {id})
      BY <2>1
    <2>3. IsContainer(form, drop.parent) /\ drop.index \in 1 .. Len(form[drop.parent].children) + 1
      BY <1>0, DropFacts
    <2>4. node \in NodeIds \cup {None}
      BY DEF Exists
    <2>5. FormInv(AddElement(form, id, Field(drop.parent, node), drop.index))
      BY <1>1, <2>2, <2>3, <2>4
    <2>6. (IF node = None THEN initials ELSE initials \cup {id}) \subseteq ElementIds
      BY <1>0
    <2> QED BY <2>2, <2>5, <2>6, FormActionForms
  <1>3. CASE AddNodeFieldToRoot
    <2>1. PICK id \in ElementIds, node \in Exists(graph) :
            /\ NewElement(id)
            /\ OnForm(AddElement(form, id, Field(Root, node), Len(form[Root].children) + 1),
                      initials \cup {id})
      BY <1>3 DEF AddNodeFieldToRoot
    <2>2. IsContainer(form, Root) /\ form[Root].children \in Seq(ElementIds)
      BY <1>0, FormFacts DEF FormInv, IsContainer
    <2>3. node \in NodeIds
      BY DEF Exists
    <2>4. PICK index : index = Len(form[Root].children) + 1
      OBVIOUS
    <2>5. index \in 1 .. Len(form[Root].children) + 1
      BY <2>2, <2>4
    <2>6. FormInv(AddElement(form, id, Field(Root, node), index))
      BY <1>1, <2>1, <2>2, <2>3, <2>5
    <2> QED BY <1>0, <2>1, <2>4, <2>6, FormActionForms
  <1> QED BY <1>2, <1>3

LEMMA MoveFormElementForms ==
    ASSUME FormsInv, MoveFormElement
    PROVE  FormsAfter
  <1>0. FormInv(form) /\ initials \subseteq ElementIds
    BY DEF FormsInv
  <1>1. PICK id \in Rendered(form) \ {Root}, target \in Rendered(form) \ {Root} :
            /\ target # id
            /\ \E drop \in Drops(target) :
                IF drop.parent = form[id].parent
                THEN \E after \in 0 .. 1 :
                        OnForm([form EXCEPT ![drop.parent].children =
                                    Reordered(@, id, target, after)], initials)
                ELSE OnForm(ReparentElement(form, id, drop.parent, drop.index), initials)
    BY DEF MoveFormElement
  <1>2. PICK drop \in Drops(target) :
            IF drop.parent = form[id].parent
            THEN \E after \in 0 .. 1 :
                    OnForm([form EXCEPT ![drop.parent].children =
                                Reordered(@, id, target, after)], initials)
            ELSE OnForm(ReparentElement(form, id, drop.parent, drop.index), initials)
    BY <1>1
  <1>3. id \in DOMAIN form \ {Root} /\ target \in DOMAIN form \ {Root, id}
    BY <1>1 DEF Rendered, Below
  <1>4. /\ IsContainer(form, drop.parent)
        /\ drop.index \in 1 .. Len(form[drop.parent].children) + 1
        /\ \/ drop.parent = target /\ form[target].children = <<>>
           \/ target # Root /\ drop.parent = form[target].parent
    BY <1>0, DropFacts
  <1>5. CASE drop.parent = form[id].parent
    <2>1. PICK after \in 0 .. 1 :
            OnForm([form EXCEPT ![drop.parent].children = Reordered(@, id, target, after)], initials)
      BY <1>2, <1>5
    <2>2. form[target].parent = form[id].parent
      <3>1. id \in ToSet(form[drop.parent].children)
        BY <1>0, <1>3, <1>4, <1>5 DEF FormInv, IsContainer
      <3>2. ToSet(<<>>) = {}
        BY DEF ToSet
      <3> QED BY <1>4, <1>5, <3>1, <3>2
    <2>3. FormInv([form EXCEPT ![form[id].parent].children = Reordered(@, id, target, after)])
      BY <1>0, <1>3, <2>2, ReorderInv
    <2> QED BY <1>0, <1>5, <2>1, <2>3, FormActionForms
  <1>6. CASE drop.parent # form[id].parent
    <2>1. FormInv(ReparentElement(form, id, drop.parent, drop.index))
      BY <1>0, <1>3, <1>4, <1>6, ReparentInv
    <2> QED BY <1>0, <1>2, <1>6, <2>1, FormActionForms
  <1> QED BY <1>5, <1>6

LEMMA EditFormForms ==
    ASSUME FormsInv, EditForm
    PROVE  FormsAfter
  <1>1. CASE RemoveFormElement
    <2>1. PICK id : OnForm(RemoveElement(form, id), initials \ {id})
      BY <1>1 DEF RemoveFormElement
    <2>2. FormInv(RemoveElement(form, id)) /\ initials \ {id} \subseteq ElementIds
      BY RemoveInv DEF FormsInv
    <2> QED BY <2>1, <2>2, FormActionForms
  <1>2. CASE FormReset
    BY <1>2, DefaultInv, FormActionForms DEF FormReset, FormsInv
  <1> QED BY <1>1, <1>2, AddFormElementForms, MoveFormElementForms DEF EditForm

LEMMA LibraryForms ==
    ASSUME FormsInv, SaveWorkflow \/ SaveAnswered \/ SaveFailed \/ LoadWorkflow \/ NodeEditorReset
    PROVE  FormsAfter
  <1>0. /\ FormInv(form) /\ initials \subseteq ElementIds /\ touched \in BOOLEAN
        /\ saving = None \/ FormInv(saving.form)
        /\ saved = None \/ FormInv(saved.form)
    BY DEF FormsInv
  <1>1. CASE SaveWorkflow
    <2>1. UNCHANGED <<form, initials, touched, saved>> /\ saving'.form = form
      BY <1>1 DEF SaveWorkflow
    <2> QED BY <1>0, <2>1 DEF FormsAfter
  <1>2. CASE SaveAnswered
    <2>1. /\ form' = form /\ saved' = saving /\ saving' = None /\ touched' = FALSE
          /\ initials' = InitialValues(form, graph)
      BY <1>2 DEF SaveAnswered
    <2> QED BY <1>0, <2>1, InitialsTyped DEF FormsAfter
  <1>3. CASE SaveFailed
    <2>1. UNCHANGED <<form, initials, touched, saved>> /\ saving' = None
      BY <1>3 DEF SaveFailed
    <2> QED BY <1>0, <2>1 DEF FormsAfter
  <1>4. CASE LoadWorkflow
    <2>1. /\ UNCHANGED <<saving, saved>> /\ saved # None /\ touched' = FALSE
          /\ form' = WithoutMissing(saved.form, Exists(saved.graph))
          /\ initials' = InitialValues(form', saved.graph)
      BY <1>4 DEF LoadWorkflow
    <2>2. FormInv(form')
      BY <1>0, <2>1, LoadedInv
    <2>3. initials' \subseteq ElementIds
      BY <2>1, <2>2, InitialsTyped
    <2> QED BY <1>0, <2>1, <2>2, <2>3 DEF FormsAfter
  <1>5. CASE NodeEditorReset
    <2>1. /\ UNCHANGED <<saving, saved>> /\ touched' = FALSE /\ form' = DefaultForm
          /\ initials' = {}
      BY <1>5 DEF NodeEditorReset
    <2> QED BY <1>0, <2>1, DefaultInv DEF FormsAfter
  <1> QED BY <1>1, <1>2, <1>3, <1>4, <1>5

LEMMA InitForms ==
    ASSUME Init
    PROVE  FormsInv
  <1>1. PICK w \in Workflows : form = w.form /\ initials = InitialValues(w.form, w.graph)
    BY DEF Init
  <1>2. FormInv(w.form)
    BY WorkflowForm
  <1>3. initials \subseteq ElementIds
    BY <1>1, <1>2, InitialsTyped
  <1>4. touched = FALSE /\ saving = None /\ saved = None /\ edits = 0
    BY DEF Init
  <1>5. edits \in 0 .. MaxEdits
    BY <1>4, Constants
  <1> QED BY <1>1, <1>2, <1>3, <1>4, <1>5 DEF FormsInv

LEMMA StepForms ==
    ASSUME FormsInv, [Next]_vars
    PROVE  FormsInv'
  <1>1. CASE User
    <2>1. FormsAfter
      BY <1>1, EditGraphForms, EditFormForms, LibraryForms DEF User
    <2>2. edits' \in 0 .. MaxEdits
      BY <1>1, Constants DEF User, FormsInv
    <2> QED BY <2>1, <2>2 DEF FormsAfter, FormsInv
  <1>2. CASE Server
    <2>1. FormsAfter
      BY <1>2, LibraryForms DEF Server
    <2>2. edits' \in 0 .. MaxEdits
      BY <1>2 DEF Server, FormsInv
    <2> QED BY <2>1, <2>2 DEF FormsAfter, FormsInv
  <1>3. CASE UNCHANGED vars
    BY <1>3 DEF vars, FormsInv
  <1> QED BY <1>1, <1>2, <1>3 DEF Next

\* The form that is edited and those that were saved are forms: each element
\* but the root is listed once, by the container that it names as its parent.
THEOREM FormsGood == Spec => []FormsInv
  <1> QED BY InitForms, StepForms, PTL DEF Spec

\* Every variable keeps its type; the past of the history stays below the limit
\* whatever is recorded, undone and redone.
THEOREM Types == Spec => []TypeOK
  <1>1. ASSUME GraphInv, FormsInv PROVE TypeOK
    <2>1. hist \in History /\ Len(hist.past) < Limit
      <3>1. PICK p, f : p = Len(hist.past) /\ f = Len(hist.future)
        OBVIOUS
      <3>2. p \in Nat /\ f \in Nat /\ p + f < Limit
        BY <1>1, <3>1, HistoryLengths DEF GraphInv
      <3>3. p < Limit
        BY <3>2, Constants
      <3> QED BY <1>1, <3>1, <3>3 DEF GraphInv, HistoryInv
    <2>2. \A w \in {saving, saved} : w = None \/ IsWorkflow(w)
      BY <1>1 DEF GraphInv, FormsInv, Good, FormInv, IsWorkflow
    <2> QED BY <1>1, <2>1, <2>2 DEF GraphInv, FormsInv, FormInv, TypeOK
  <1> QED BY <1>1, GraphsGood, FormsGood, PTL

\* Wherever elements are added, moved, reordered or removed, and whatever
\* fields go with their nodes or are missing when a workflow is loaded, each
\* element but the root has a container for its parent which lists it once,
\* and no other container lists it.
THEOREM ElementsPlacedAlways == Spec => []ElementsPlaced
  <1>1. FormsInv => ElementsPlaced
    BY FormPlaced DEF FormsInv, ElementsPlaced
  <1> QED BY <1>1, FormsGood, PTL

-----------------------------------------------------------------------------
(* Fields and their nodes. *)

\* What a dispatch does to the fields of the form and to the nodes.
LEMMA FieldsAfter ==
    ASSUME GraphInv, FormsInv, NEW changes, NEW removed, NEW added,
           Dispatch(changes, removed, added), NEW id \in Fields(form)
    PROVE  id \notin DOMAIN form' <=> form[id].node \in RemovedNodes(changes)
  <1>1. PICK dead : dead = {e \in Fields(form) : form[e].node \in RemovedNodes(changes)}
    OBVIOUS
  <1>2. form' = Drop(form, dead)
    BY <1>1 DEF Dispatch, FormAfter
  <1>3. DOMAIN form' = DOMAIN form \ dead
    BY <1>1, <1>2, FieldsDropped DEF FormsInv
  <1> QED BY <1>1, <1>3 DEF Fields

\* When nodes are deleted or updated, a field leaves the form if and only if
\* its node leaves the graph: an update removes a node and adds it back, and
\* workflowSlice.ts looks for that.
LEMMA FieldsFollow ==
    ASSUME GraphInv, FormsInv, DeleteSelection \/ UpdateNode, NEW id \in Fields(form)
    PROVE  (id \notin DOMAIN form') <=>
           form[id].node \in Exists(hist.present) \ Exists(hist'.present)
  <1>0. Good(graph)
    BY DEF GraphInv, HistoryInv, graph
  <1>1. form[id].node \in NodeIds
    BY FormFacts DEF FormsInv, Fields
  <1>2. CASE DeleteSelection
    <2>1. PICK S \in SUBSET Exists(graph), T \in Selections :
            \E order \in SetToSeqs({RemoveChange(n) : n \in S}) : Dispatch(order, T, {})
      BY <1>2 DEF DeleteSelection
    <2>2. PICK order \in SetToSeqs({RemoveChange(n) : n \in S}) : Dispatch(order, T, {})
      BY <2>1
    <2>3. S \subseteq NodeIds
      BY DEF Exists
    <2>4. \A k \in DOMAIN order : order[k].type = "remove" /\ order[k].id \in S
      BY <2>3, Removals
    <2>5. PICK gone : gone = {order[k].id : k \in DOMAIN order}
      OBVIOUS
    <2>6. RemovedNodes(order) = gone
      <3>1. \A n : {k \in DOMAIN order : order[k].type = "add" /\ order[k].id = n} = {}
        BY <2>4
      <3>2. gone \subseteq NodeIds
        BY <2>3, <2>4, <2>5
      <3>3. RemovedNodes(order) = {n \in NodeIds : \E k \in DOMAIN order : order[k].id = n}
        BY <2>4, <3>1 DEF RemovedNodes
      <3> QED BY <2>5, <3>2, <3>3
    <2>7. hist'.present.nodes = [n \in NodeIds |-> IF n \in gone THEN "absent" ELSE graph.nodes[n]]
      <3>1. Keeping(graph, order)
        BY <2>4 DEF Keeping
      <3>2. PICK g : g = NodesChanged(graph, order)
        OBVIOUS
      <3>3. Good(g)
        BY <1>0, <3>1, <3>2, NodesChangedGood
      <3>4. g.edges \subseteq graph.edges
        BY <1>0, <3>1, <3>2, NodesChangedNodes
      <3>5. Good(EdgesChanged(g, T, {}))
        BY <3>3, <3>4, RemovedGood DEF Selections, Collapsed
      <3>6. hist'.present.nodes = g.nodes
        BY <2>2, <3>1, <3>2, <3>5, DispatchKept
      <3> DEFINE new(n) == {k \in DOMAIN order : order[k].type = "add" /\ order[k].id = n}
                 old == {order[k].id : k \in {k \in DOMAIN order : order[k].type = "remove"}}
      <3>7. PICK nodes : nodes = [n \in NodeIds |->
                  IF new(n) # {} THEN order[CHOOSE k \in new(n) : TRUE].node
                  ELSE IF n \in old THEN "absent" ELSE graph.nodes[n]]
        OBVIOUS
      <3>8. g.nodes = nodes
        BY <3>2, <3>7 DEF NodesChanged
      <3>9. old = gone /\ \A n : new(n) = {}
        BY <2>4, <2>5
      <3> HIDE DEF new, old
      <3> QED BY <3>6, <3>7, <3>8, <3>9
    <2>8. gone \subseteq Exists(graph)
      BY <2>4, <2>5
    <2>9. id \notin DOMAIN form' <=> form[id].node \in gone
      BY <2>2, <2>6, FieldsAfter
    <2>10. \A n \in NodeIds : n \in gone <=>
                (n \in Exists(hist.present) /\ n \notin Exists(hist'.present))
      <3>1. \A n \in NodeIds : n \in Exists(hist'.present) <=> n \notin gone /\ graph.nodes[n] # "absent"
        BY <2>7 DEF Exists
      <3>2. \A n \in NodeIds : n \in Exists(hist.present) <=> graph.nodes[n] # "absent"
        BY DEF Exists, graph
      <3>3. \A n \in gone : n \in Exists(hist.present)
        BY <2>8 DEF graph
      <3> QED BY <3>1, <3>2, <3>3
    <2> QED BY <1>1, <2>9, <2>10
  <1>3. CASE UpdateNode
    <2>1. PICK n \in Exists(graph) :
            Dispatch(<<RemoveChange(n), AddChange(n, graph.nodes[n])>>, {}, {})
      BY <1>3 DEF UpdateNode
    <2>2. PICK changes : changes = <<RemoveChange(n), AddChange(n, graph.nodes[n])>>
      OBVIOUS
    <2>3. /\ DOMAIN changes = {1, 2} /\ changes[1].type = "remove" /\ changes[1].id = n
          /\ changes[2].type = "add" /\ changes[2].id = n
      BY <2>2 DEF RemoveChange, AddChange
    <2>4. RemovedNodes(changes) = {}
      <3>1. ASSUME NEW m \in NodeIds, NEW k \in DOMAIN changes, changes[k].type = "remove",
                   changes[k].id = m,
                   \A l \in {l \in DOMAIN changes : changes[l].type = "add" /\ changes[l].id = m} : l < k
            PROVE  FALSE
        <4>1. k = 1 /\ m = n
          BY <2>3, <3>1
        <4>2. 2 < k
          BY <2>3, <3>1, <4>1
        <4> QED BY <4>1, <4>2
      <3> QED BY <3>1 DEF RemovedNodes
    <2>5. id \in DOMAIN form'
      BY <2>1, <2>2, <2>4, FieldsAfter
    <2>6. Exists(hist'.present) = Exists(hist.present)
      BY <1>3, UpdateNodeGraph DEF Exists
    <2> QED BY <2>5, <2>6
  <1> QED BY <1>2, <1>3

\* In every behaviour, a deletion or an update takes a field off the form if and
\* only if it takes the field's node off the graph, though the two slices of the
\* store look at the changes each in its own way.
THEOREM FieldsFollowNodesAlways == Spec => FieldsFollowNodes
  <1>1. GraphInv /\ FormsInv /\ [Next]_vars =>
          [hist' # hist /\ Fields(form) # {} /\ (DeleteSelection \/ UpdateNode) =>
              \A id \in Fields(form) : (id \notin DOMAIN form') <=>
                  form[id].node \in Exists(hist.present) \ Exists(hist'.present)]_vars
    BY FieldsFollow
  <1> QED BY <1>1, GraphsGood, FormsGood, PTL DEF Spec, FieldsFollowNodes
=============================================================================
