--------------------------- MODULE WorkflowGenome ---------------------------
(***************************************************************************)
(* Mutate of the workflow genome (internal/evolution/genome): each child   *)
(* is a clone of the live graph to which one random operator is applied.   *)
(* An operator is a little program of MutableDAG calls, each of which      *)
(* takes the graph's lock by itself; Step runs the next of them.           *)
(*                                                                         *)
(* clone copies the graph but not the Steps: every clone points to the     *)
(* Steps of the live graph.                                                *)
(***************************************************************************)
EXTENDS MutableDAG, Sequences, SequencesExt

CONSTANTS
  Base,         \* the nodes of the live graph
  MaxNodes      \* config.MaxNodes

ASSUME GenomeAssumption == MaxNodes \in Nat /\ IsFiniteSet(Base)

VARIABLES
  live,      \* the graph the runtime executes
  child,     \* the graph of the last child
  deps,      \* the heap: DependsOn of every Step
  agenda,      \* what is left of the running operator
  undo,      \* the calls of it that succeeded, for rollbackEdges
  before,    \* history: the child's edges when the operator began
  rolled     \* history: whether it was rolled back

genome == <<live, child, deps, agenda, undo, before, rolled>>

NoGraph == Graph(<<>>, {}, <<>>, 0)

\* The live graph has the edges E.
GenomeStart(E) ==
  /\ deps = [n \in Base |-> {e[1] : e \in Into(E, n)}]
  /\ live = NewMutableDAG([n \in Base |-> n], deps).g
  /\ child = NoGraph
  /\ agenda = <<>> /\ undo = <<>> /\ before = {} /\ rolled = FALSE

GenomeInit == \E E \in SUBSET (Base \X Base) : Acyclic(Base, E) /\ GenomeStart(E)

-----------------------------------------------------------------------------
(* The calls an operator makes: what follows on success, what follows on   *)
(* failure, and whether a failure is also the end of the operator.         *)

Call(what, from, to, then, else, onFail) ==
  [what |-> what, from |-> from, to |-> to, then |-> then, else |-> else, onFail |-> onFail]

Add(from, to, onFail) == Call("AddEdge", from, to, <<>>, <<>>, onFail)
Cut(from, to, onFail) == Call("RemoveEdge", from, to, <<>>, <<>>, onFail)
Drop(id)              == Call("RemoveNode", id, id, <<>>, <<>>, "stop")

Each(S, Op(_)) == [i \in 1 .. Cardinality(S) |-> Op(SetToSeq(S)[i])]

DepsOf(g, n) == deps[g.step[n]]

\* The Step a child makes for node id.
Own(id) == <<"new", id>>

\* The Steps of the child before are nobody's any more.
Begins(g, program, heap) ==
  /\ child' = g /\ agenda' = program
  /\ deps' = heap
  /\ undo' = <<>> /\ before' = g.edges /\ rolled' = FALSE
  /\ UNCHANGED live

Shared == [s \in Range(live.step) |-> deps[s]]

\* AddNode or ReplaceNode of a Step that is made for it.
BeginsWithStep(g, what, id, want, rest) ==
  Begins(g, <<Call(what, id, id, rest, <<>>, "stop")>>,
         [s \in DOMAIN Shared \cup {Own(id)} |-> IF s = Own(id) THEN want ELSE deps[s]])

mutateInsertNode(g) ==
  /\ Cardinality(Nodes(g)) < MaxNodes
  /\ \E n \in Nodes(g) : BeginsWithStep(g, "AddNode", <<"wf-mut", g.version + 1>>, {n}, <<>>)

mutateRemoveNode(g) ==
  LET referenced == UNION {DepsOf(g, n) : n \in Nodes(g)}
      leaves     == Nodes(g) \ referenced IN
  /\ Cardinality(Nodes(g)) > 1
  /\ \E n \in IF leaves # {} THEN leaves ELSE Nodes(g) : Begins(g, <<Drop(n)>>, Shared)

mutateReplaceNode(g) ==
  \E n \in Nodes(g) : BeginsWithStep(g, "ReplaceNode", n, DepsOf(g, n), <<>>)

mutateParallelize(g) ==
  /\ Cardinality(Nodes(g)) < MaxNodes
  /\ \E a, b, c \in Nodes(g) :
       LET b2 == <<b, "parallel">> IN
       /\ Cardinality({a, b, c}) = 3
       /\ BeginsWithStep(g, "AddNode", b2, {a},
                         <<Call("AddEdge", b2, c, <<>>, <<Drop(b2)>>, "stop")>>)

mutateSerialize(g) ==
  \E n \in Nodes(g) : \E first \in DepsOf(g, n) :
    /\ Cardinality(DepsOf(g, n)) >= 2
    /\ Begins(g, Each(DepsOf(g, n) \ {first}, LAMBDA d : Cut(d, n, "stop")), Shared)

mutateSwapNodes(g) ==
  \E i \in Nodes(g) : \E j \in Nodes(g) \ {i} :
    Begins(g, Each(DepsOf(g, i), LAMBDA d : Cut(d, i, "skip"))
              \o Each(DepsOf(g, j), LAMBDA d : Cut(d, j, "skip"))
              \o Each(DepsOf(g, j), LAMBDA d : Add(d, i, "rollback"))
              \o Each(DepsOf(g, i), LAMBDA d : Add(d, j, "rollback")), Shared)

mutateSplitNode(g) ==
  /\ Cardinality(Nodes(g)) < MaxNodes
  /\ \E t \in Nodes(g) :
       LET split     == <<t, "split">>
           Reroute(n) == Call("RemoveEdge", t, n,
                              <<Call("AddEdge", split, n, <<>>, <<Add(t, n, "skip")>>, "skip")>>,
                              <<>>, "skip")
           users     == {n \in Nodes(g) : t \in DepsOf(g, n)}
       IN BeginsWithStep(g, "AddNode", split, {t}, Each(users, Reroute))

\* j is merged into i.
mutateMergeNodes(g) ==
  \E i \in Nodes(g) : \E j \in Nodes(g) \ {i} :
    /\ i \in DepsOf(g, j)
    /\ LET merged == (DepsOf(g, i) \cup DepsOf(g, j)) \ {i, j}
           more   == Each(merged \ DepsOf(g, i), LAMBDA d : Add(d, i, "skip"))
       IN Begins(g, <<Call("RemoveNode", j, j, more, <<>>, "stop")>>, Shared)

-----------------------------------------------------------------------------
\* The nodes whose dependencies can all be listed before them.
Sortable(g) ==
  {n \in Nodes(g) :
     \A S \in SUBSET Nodes(g) :
       (\A m \in Nodes(g) : DepsOf(g, m) \subseteq S => m \in S) => n \in S}

\* sortByDeps lists no other node, and NewMutableDAG accepts what it lists: the
\* other ways out of clone are never taken.
clone ==
  NewMutableDAG([n \in Sortable(live) |-> live.step[n]], deps).g

Mutate ==
  /\ agenda = <<>>
  /\ \/ mutateInsertNode(clone) \/ mutateRemoveNode(clone) \/ mutateReplaceNode(clone)
     \/ mutateParallelize(clone) \/ mutateSerialize(clone) \/ mutateSwapNodes(clone)
     \/ mutateSplitNode(clone) \/ mutateMergeNodes(clone)

Result(c) ==
  CASE c.what = "AddNode"     -> AddNode(child, deps, c.to, Own(c.to))
    [] c.what = "ReplaceNode" -> ReplaceSameNode(child, deps, c.to, Own(c.to))
    [] c.what = "RemoveNode"  -> RemoveNode(child, deps, c.to)
    [] c.what = "AddEdge"     -> AddEdge(child, deps, c.from, c.to)
    [] c.what = "RemoveEdge"  -> RemoveEdge(child, deps, c.from, c.to)

reverted(c) == IF c.what = "AddEdge" THEN Cut(c.from, c.to, "skip") ELSE Add(c.from, c.to, "skip")

rollbackEdgesInOrder(ops) == [i \in 1 .. Len(ops) |-> reverted(ops[i])]

rollbackEdges(ops) == [i \in 1 .. Len(ops) |-> reverted(ops[Len(ops) + 1 - i])]

Step ==
  /\ agenda # <<>>
  /\ LET c == Head(agenda)
         r == Result(c) IN
     /\ child' = r.g /\ deps' = r.deps
     /\ undo' = IF r.ok THEN Append(undo, c) ELSE undo
     /\ agenda' = IF r.ok THEN c.then \o Tail(agenda)
                ELSE CASE c.onFail = "skip"     -> c.else \o Tail(agenda)
                       [] c.onFail = "stop"     -> c.else
                       [] c.onFail = "rollback" -> rollbackEdges(undo)
     /\ rolled' = (rolled \/ (~ r.ok /\ c.onFail = "rollback"))
  /\ UNCHANGED <<live, before>>

GenomeNext == Mutate \/ Step

GenomeSpec == GenomeInit /\ [][GenomeNext]_genome

-----------------------------------------------------------------------------
GenomeTypeOK ==
  /\ \A g \in {live, child} :
       /\ g.edges \subseteq Nodes(g) \X Nodes(g)
       /\ DOMAIN g.in = Nodes(g) /\ \A n \in Nodes(g) : g.in[n] \in Nat
       /\ \A n \in Nodes(g) : g.step[n] \in DOMAIN deps
  /\ Cardinality(Nodes(child)) <= MaxNodes

\* No sequence of operations closes a cycle (mutable_dag.go:516).
GraphsAreAcyclic == \A g \in {live, child} : Acyclic(Nodes(g), g.edges)

\* GetExecutionOrder lists every node of every graph: the in-degrees, kept
\* incrementally by each operation, are those of the edges (mutable_dag.go:387).
OrderIsComplete == \A g \in {live, child} : GetExecutionOrder(g) = Nodes(g)

\* A swap that fails leaves the edges as it found them, whichever of its calls
\* failed (workflow_genome.go:341).
RollbackRestoresEdges ==
  rolled /\ agenda = <<>> => child.edges = before

\* A clone has the nodes of the graph it was made from, whatever was done to
\* the clones before it (workflow_genome_test.go:91).
CloneKeepsItsNodes == Nodes(clone) = Nodes(live)
=============================================================================
