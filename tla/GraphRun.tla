------------------------------ MODULE GraphRun ------------------------------
(***************************************************************************)
(* One call of the SDK's RunGraph (sdk/graph_run.go) against the snapshot  *)
(* of a Graph (sdk/graph.go): barrier rounds of ready nodes, dead edges,   *)
(* skipped nodes and the router's jumps.  What a node computes is left     *)
(* out: an agent, a function and a subgraph all run once and then succeed  *)
(* or fail, and a condition holds or does not.  The loop of a subgraph is  *)
(* a run of its own, nested, that starts without RunGraph's checks.  Nodes *)
(* of a round run concurrently; between two rounds only the loop runs.     *)
(***************************************************************************)
EXTENDS Naturals, FiniteSets

CONSTANTS
  GraphNodes,     \* node ids
  GraphMaxIter,   \* Graph.MaxIterations: executions of one node
  NoNode,         \* the empty lastDone
  GraphSnapshots  \* the snapshots RunGraph is called on

ASSUME GraphAssumption ==
  /\ GraphMaxIter \in Nat \ {0}
  /\ NoNode \notin GraphNodes
  /\ GraphSnapshots \subseteq
       [nodes : SUBSET GraphNodes, edges : SUBSET (GraphNodes \X GraphNodes),
        conds : SUBSET (GraphNodes \X GraphNodes), router : BOOLEAN,
        width : Nat, timeout : BOOLEAN, nested : BOOLEAN]

VARIABLES
  snap,    \* the graphSnapshot taken at entry
  graph    \* the graphRun and where its loop stands

graphVars == <<snap, graph>>

-----------------------------------------------------------------------------
Sources(n) == {m \in GraphNodes : <<m, n>> \in snap.edges}
SettledNodes == graph.done \cup graph.skipped \cup graph.failed
Pending == snap.nodes \ SettledNodes
LiveInto(n) == {m \in Sources(n) : <<m, n>> \notin graph.dead}
RunningNodes == graph.round \ (graph.waiting \cup graph.ended)

(* validateGraph: a graph without nodes, or with an edge to a node that    *)
(* was removed or never added, is refused before anything runs.            *)
ValidGraph ==
  /\ snap.nodes # {}
  /\ snap.edges \subseteq snap.nodes \X snap.nodes

(* settleSkips: the unsettled nodes all of whose incoming edges are dead.  *)
Skippable == {n \in Pending : Sources(n) # {} /\ LiveInto(n) = {}}

(* readySet, after the skips of this pass have been settled.               *)
readySetDone ==
  {n \in Pending \ Skippable :
     graph.iter[n] < GraphMaxIter /\ Sources(n) \subseteq graph.done}

readySet ==
  {n \in Pending \ Skippable :
     /\ graph.iter[n] < GraphMaxIter
     /\ Sources(n) \subseteq SettledNodes \cup Skippable
     /\ Sources(n) # {} => LiveInto(n) # {}}

(* canRun: what the router may force, nodes already done among them.       *)
canRun ==
  {n \in snap.nodes \ (graph.skipped \cup Skippable \cup graph.failed) :
     graph.iter[n] < GraphMaxIter}

(* evaluateOutgoing for one completion, of which the edges in held were    *)
(* found to hold.                                                          *)
Killed(n, held) ==
  {e \in snap.edges : e[1] = n /\ (\/ e \in snap.conds \ held
                                   \/ n \in graph.failed \cup graph.skipped)}

-----------------------------------------------------------------------------
GraphFresh ==
  [at |-> "called", iter |-> [n \in GraphNodes |-> 0], done |-> {}, skipped |-> {},
   failed |-> {}, dead |-> {}, lastDone |-> NoNode, idle |-> 0, round |-> {},
   waiting |-> {}, ended |-> {}, completions |-> {}, first |-> NoNode,
   err |-> FALSE, expired |-> FALSE]

GraphStart(S) == snap \in S /\ graph = GraphFresh
GraphInit == GraphStart(GraphSnapshots)

RunGraph ==
  /\ graph.at = "called"
  /\ graph' = IF snap.nested \/ ValidGraph THEN [graph EXCEPT !.at = "loop"]
              ELSE [graph EXCEPT !.at = "returned", !.err = TRUE]
  /\ UNCHANGED snap

(* The deadline of the graph passes, or the caller cancels.                *)
DeadlinePasses ==
  /\ snap.timeout /\ ~graph.expired /\ graph.at # "returned"
  /\ graph' = [graph EXCEPT !.expired = TRUE]
  /\ UNCHANGED snap

ReturnExpired ==
  /\ graph.at = "loop" /\ graph.expired
  /\ graph' = [graph EXCEPT !.at = "returned", !.err = TRUE]
  /\ UNCHANGED snap

(* What the router answers, asked once for each lastDone: nothing, a node  *)
(* it may run, or one it may not, which counts as nothing.                 *)
Forced ==
  IF snap.router /\ graph.lastDone # NoNode
  THEN {{}} \cup {{n} : n \in canRun}
  ELSE {{}}

(* The loop between two rounds, up to the launch of the next round.        *)
StartRound ==
  /\ graph.at = "loop" /\ ~graph.expired
  /\ \E jump \in Forced :
       LET next == IF jump # {} THEN jump ELSE readySet
       IN /\ next # {}
          /\ graph' = [graph EXCEPT !.at = "round", !.idle = 0, !.round = next,
                         !.waiting = next, !.ended = {}, !.completions = {},
                         !.first = NoNode, !.skipped = @ \cup Skippable,
                         !.lastDone = IF snap.router THEN NoNode ELSE @]
  /\ UNCHANGED snap

(* Nothing can run: the first such pass tries again, the second returns.   *)
EmptyPass ==
  /\ graph.at = "loop" /\ ~graph.expired
  /\ readySet = {}
  /\ graph' = [graph EXCEPT
                 !.at = IF Pending \ Skippable = {} \/ graph.idle >= 1 THEN "returned" ELSE @,
                 !.idle = @ + 1, !.skipped = @ \cup Skippable,
                 !.lastDone = IF snap.router THEN NoNode ELSE @]
  /\ UNCHANGED snap

(* A goroutine of the round starts its node, within MaxRoundConcurrency;   *)
(* which of the waiting ones is next is left open.                         *)
BeginNode(n) ==
  /\ graph.at = "round" /\ n \in graph.waiting
  /\ snap.width > 0 => Cardinality(RunningNodes) < snap.width
  /\ graph' = [graph EXCEPT !.waiting = @ \ {n}, !.iter[n] = @ + 1]
  /\ UNCHANGED snap

(* The node succeeds, or fails or panics; its siblings keep running.       *)
NodeSucceeds(n) ==
  /\ graph.at = "round" /\ n \in RunningNodes
  /\ graph' = [graph EXCEPT !.ended = @ \cup {n}, !.done = @ \cup {n},
                 !.completions = @ \cup {n},
                 !.first = IF @ = NoNode THEN n ELSE @]
  /\ UNCHANGED snap

NodeFails(n) ==
  /\ graph.at = "round" /\ n \in RunningNodes
  /\ graph' = [graph EXCEPT !.ended = @ \cup {n}, !.failed = @ \cup {n}, !.err = TRUE]
  /\ UNCHANGED snap

(* The barrier: every completion evaluates its outgoing edges, and the     *)
(* first failure of the round ends the run.                                *)
EndRound ==
  /\ graph.at = "round" /\ graph.ended = graph.round
  /\ \E held \in SUBSET {e \in snap.conds : e[1] \in graph.completions} :
       graph' = [graph EXCEPT
                   !.at = IF graph.err THEN "returned" ELSE "loop",
                   !.dead = @ \cup UNION {Killed(n, held) : n \in graph.completions},
                   !.lastDone = IF graph.first # NoNode THEN graph.first ELSE @,
                   !.round = {}, !.ended = {}, !.completions = {}, !.first = NoNode]
  /\ UNCHANGED snap

GraphNext ==
  \/ RunGraph
  \/ DeadlinePasses
  \/ ReturnExpired
  \/ StartRound
  \/ EmptyPass
  \/ \E n \in GraphNodes : BeginNode(n) \/ NodeSucceeds(n) \/ NodeFails(n)
  \/ EndRound

GraphSpec == GraphInit /\ [][GraphNext]_graphVars

(* The loop is one thread; node functions, agents and subgraphs return.    *)
GraphFairness ==
  /\ WF_graphVars(RunGraph) /\ WF_graphVars(ReturnExpired) /\ WF_graphVars(StartRound)
  /\ WF_graphVars(EmptyPass) /\ WF_graphVars(EndRound)
  /\ \A n \in GraphNodes : /\ WF_graphVars(BeginNode(n))
                           /\ WF_graphVars(NodeSucceeds(n) \/ NodeFails(n))
-----------------------------------------------------------------------------
GraphTypeOK ==
  /\ snap \in GraphSnapshots
  /\ graph \in [at : {"called", "loop", "round", "returned"},
                iter : [GraphNodes -> 0..GraphMaxIter], done : SUBSET GraphNodes,
                skipped : SUBSET GraphNodes, failed : SUBSET GraphNodes,
                dead : SUBSET snap.edges, lastDone : GraphNodes \cup {NoNode},
                idle : 0..2, round : SUBSET GraphNodes, waiting : SUBSET GraphNodes,
                ended : SUBSET GraphNodes, completions : SUBSET GraphNodes,
                first : GraphNodes \cup {NoNode}, err : BOOLEAN, expired : BOOLEAN]

(* Without a router a node that started has all its sources settled, and   *)
(* one edge into it alive, whatever its siblings and its sources do later  *)
(* (the JoinAll rule of readySet, AddEdge's "Join semantics").             *)
JoinAll ==
  ~snap.router =>
    \A n \in RunningNodes \cup graph.done \cup graph.failed :
      /\ Sources(n) \subseteq SettledNodes
      /\ Sources(n) # {} => LiveInto(n) # {}

(* A skipped node never runs: neither a later round nor a jump of the      *)
(* router brings it back (settleSkips, canRun).                            *)
SkippedNeverRuns == graph.skipped \cap (graph.done \cup graph.failed \cup graph.round) = {}

(* When a run returns without an error, a node that was neither run nor    *)
(* skipped waits for another such node, or, in a subgraph, for a node that *)
(* is not there: the loop gives up only on cycles and on edges that        *)
(* validateGraph refuses (runGraphRounds' two idle passes).                *)
LeftoversWaitOnEachOther ==
  graph.at = "returned" /\ ~graph.err =>
    \A n \in Pending :
      \/ Sources(n) \cap Pending # {}
      \/ snap.nested /\ ~(Sources(n) \subseteq snap.nodes)

(* "a node whose incoming edges are ALL dead is skipped (cascading)": a    *)
(* node whose edges are all dead or come from skipped nodes does not run.  *)
SkipsCascade ==
  ~snap.router =>
    \A n \in RunningNodes \cup graph.done \cup graph.failed :
      Sources(n) # {} => ~(LiveInto(n) \subseteq graph.skipped)

(* Every run ends, however the router jumps (MaxIterations).               *)
RunEnds == <>(graph.at = "returned")
=============================================================================
