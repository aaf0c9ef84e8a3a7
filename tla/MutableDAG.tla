----------------------------- MODULE MutableDAG -----------------------------
(***************************************************************************)
(* The workflow graph of internal/workflow/engine (MutableDAG), as the     *)
(* effect of each of its operations.  A graph keeps two accounts of its    *)
(* dependencies: its edges, and the DependsOn list of each Step.  The      *)
(* Steps are heap objects and a graph holds pointers to them, so that two  *)
(* graphs may share them: deps is the heap, from Step to DependsOn, and an *)
(* operation returns whether it succeeded, the graph and the heap.         *)
(*                                                                         *)
(* Edges and DependsOn are sets: no operation stores one twice, but for    *)
(* AddEdge where the two accounts disagree, and every operation treats     *)
(* equal entries alike.  OutDegree mirrors InDegree and is read by nobody. *)
(***************************************************************************)
EXTENDS Integers, FiniteSets, Functions

\* step also has the nodes, as its domain; in is InDegree.
Graph(step, edges, in, version) ==
  [step |-> step, edges |-> edges, in |-> in, version |-> version]

Nodes(g) == DOMAIN g.step

Done(g, deps)   == [ok |-> TRUE, g |-> g, deps |-> deps]
Failed(g, deps) == [ok |-> FALSE, g |-> g, deps |-> deps]

Into(edges, n)   == {e \in edges : e[2] = n}
Touching(edges, n) == {e \in edges : n \in {e[1], e[2]}}
InDegrees(ns, edges) == [n \in ns |-> Cardinality(Into(edges, n))]

-----------------------------------------------------------------------------
ClosedUnder(edges, S) == \A e \in edges : e[1] \in S => e[2] \in S

\* b is a or can be reached from it.
Reaches(ns, edges, a, b) ==
  \A S \in SUBSET ns : (a \in S /\ ClosedUnder(edges, S)) => b \in S

\* Every set of nodes has one that no edge enters from within the set.
Acyclic(ns, edges) ==
  \A S \in SUBSET ns : S # {} => \E n \in S : \A e \in edges : e[2] = n => e[1] \notin S

wouldCreateCycleBackwards(g, from, to) == Reaches(Nodes(g), g.edges, from, to)

wouldCreateCycle(g, from, to) == Reaches(Nodes(g), g.edges, to, from)

-----------------------------------------------------------------------------
\* steps is a function from id to Step, edges follow from DependsOn.
NewMutableDAG(steps, deps) ==
  LET ns    == DOMAIN steps
      edges == {e \in ns \X ns : e[1] \in deps[steps[e[2]]]}
  IN [ok |-> (\A n \in ns : deps[steps[n]] \subseteq ns) /\ Acyclic(ns, edges),
      g  |-> Graph(steps, edges, InDegrees(ns, edges), 0)]

\* A Step that depends on itself would be a cycle.
AddNode(g, deps, id, step) ==
  LET want == deps[step] IN
  IF id \in Nodes(g) \/ ~ want \subseteq Nodes(g)
  THEN Failed(g, deps)
  ELSE Done(Graph([n \in Nodes(g) \cup {id} |-> IF n = id THEN step ELSE g.step[n]],
                  g.edges \cup (want \X {id}),
                  [n \in Nodes(g) \cup {id} |-> IF n = id THEN Cardinality(want) ELSE g.in[n]],
                  g.version + 1),
            deps)

without(g, id) ==
  Graph([n \in Nodes(g) \ {id} |-> g.step[n]],
        g.edges \ Touching(g.edges, id),
        [n \in Nodes(g) \ {id} |-> IF <<id, n>> \in g.edges THEN g.in[n] - 1 ELSE g.in[n]],
        g.version + 1)

\* Dependents are looked for in the Steps; the edges are swept besides.
RemoveNode(g, deps, id) ==
  IF id \notin Nodes(g) \/ (\E n \in Nodes(g) \ {id} : id \in deps[g.step[n]])
  THEN Failed(g, deps)
  ELSE Done(without(g, id), deps)

AddEdge(g, deps, from, to) ==
  IF \/ ~ {from, to} \subseteq Nodes(g)
     \/ <<from, to>> \in g.edges
     \/ wouldCreateCycle(g, from, to)
  THEN Failed(g, deps)
  ELSE Done(Graph(g.step, g.edges \cup {<<from, to>>}, [g.in EXCEPT ![to] = @ + 1], g.version + 1),
            [deps EXCEPT ![g.step[to]] = @ \cup {from}])

RemoveEdgeKeepingDegree(g, deps, from, to) ==
  IF <<from, to>> \notin g.edges
  THEN Failed(g, deps)
  ELSE Done(Graph(g.step, g.edges \ {<<from, to>>}, g.in, g.version + 1),
            [deps EXCEPT ![g.step[to]] = @ \ {from}])

RemoveEdge(g, deps, from, to) ==
  IF <<from, to>> \notin g.edges
  THEN Failed(g, deps)
  ELSE Done(Graph(g.step, g.edges \ {<<from, to>>}, [g.in EXCEPT ![to] = @ - 1], g.version + 1),
            [deps EXCEPT ![g.step[to]] = @ \ {from}])

\* Under the same id: the Step is exchanged, edges are only ever added.
ReplaceSameNode(g, deps, id, step) ==
  LET edges == g.edges \cup (deps[step] \X {id}) IN
  IF \/ id \notin Nodes(g) \/ id \in deps[step] \/ ~ deps[step] \subseteq Nodes(g)
     \/ ~ Acyclic(Nodes(g), edges)
  THEN Failed(g, deps)
  ELSE Done(Graph([g.step EXCEPT ![id] = step], edges, InDegrees(Nodes(g), edges), g.version + 1),
            deps)

-----------------------------------------------------------------------------
\* What GetExecutionOrder lists: it starts from the nodes of in-degree zero and
\* adds a node when its predecessors have brought its count down to zero.
GetExecutionOrder(g) ==
  LET listed[k \in 0 .. Cardinality(Nodes(g))] ==
        IF k = 0 THEN {n \in Nodes(g) : g.in[n] = 0}
        ELSE {n \in Nodes(g) :
                \/ n \in listed[k - 1]
                \/ /\ g.in[n] > 0
                   /\ Cardinality({e \in Into(g.edges, n) : e[1] \in listed[k - 1]}) >= g.in[n]}
  IN listed[Cardinality(Nodes(g))]
=============================================================================
