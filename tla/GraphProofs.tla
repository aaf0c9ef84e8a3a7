---------------------------- MODULE GraphProofs -----------------------------
(***************************************************************************)
(* Proofs about graphs and what is planned on them, for any nodes, edges   *)
(* and limits.  Of a graph run: the JoinAll rule, that a skipped node      *)
(* stays out, and that a run that returns without an error leaves only     *)
(* nodes that wait for each other.  Of the workflow genome: that no        *)
(* mutation closes a cycle and that a failed swap is undone.  Of the       *)
(* recovery patcher: that a rollback undoes its own patch and no other.    *)
(***************************************************************************)
EXTENDS GraphRun, WorkflowGenome, RecoveryPatcher, FiniteSetTheorems,
        SequenceTheorems, TLAPS

-----------------------------------------------------------------------------
(* The runs of a graph.                                                     *)

(* A round's bookkeeping: who waits, who ended, who completed.             *)
RoundInv ==
  /\ graph.waiting \subseteq graph.round
  /\ graph.ended \subseteq graph.round
  /\ graph.waiting \cap graph.ended = {}
  /\ graph.completions \subseteq graph.ended
  /\ graph.at # "round" => graph.round = {}
  /\ graph.at \in {"loop", "round"} => snap.nested \/ ValidGraph
  /\ \A n \in graph.waiting : graph.iter[n] < GraphMaxIter
  /\ graph.at # "returned" => graph.idle \in {0, 1}

(* A node that ever began has settled or is running, so a pending one      *)
(* still has its first execution before it.                                *)
BegunInv ==
  \A n \in GraphNodes : graph.iter[n] > 0 => n \in graph.done \cup graph.failed \cup RunningNodes

(* Why no later round kills the edge a started node came by: its sources   *)
(* settled in earlier rounds and do not run again.                         *)
JoinInv ==
  ~snap.router =>
    \A n \in graph.round \cup graph.done \cup graph.failed :
      /\ Sources(n) \subseteq SettledNodes
      /\ Sources(n) \cap graph.round = {}
      /\ Sources(n) # {} => LiveInto(n) # {}

GraphInv ==
  GraphTypeOK /\ RoundInv /\ BegunInv /\ JoinInv /\ SkippedNeverRuns /\ LeftoversWaitOnEachOther

-----------------------------------------------------------------------------
(* The fields of the state, one fact each.                                 *)
LEMMA Fields ==
  ASSUME GraphTypeOK
  PROVE  /\ graph.at \in {"called", "loop", "round", "returned"}
         /\ graph.iter \in [GraphNodes -> 0..GraphMaxIter]
         /\ graph.done \subseteq GraphNodes /\ graph.skipped \subseteq GraphNodes
         /\ graph.failed \subseteq GraphNodes /\ graph.round \subseteq GraphNodes
         /\ graph.dead \subseteq snap.edges
         /\ snap.nodes \subseteq GraphNodes
         /\ graph = [at |-> graph.at, iter |-> graph.iter, done |-> graph.done,
                     skipped |-> graph.skipped, failed |-> graph.failed,
                     dead |-> graph.dead, lastDone |-> graph.lastDone,
                     idle |-> graph.idle, round |-> graph.round,
                     waiting |-> graph.waiting, ended |-> graph.ended,
                     completions |-> graph.completions, first |-> graph.first,
                     err |-> graph.err, expired |-> graph.expired]
BY GraphAssumption DEF GraphTypeOK

LEMMA GraphInitInv == GraphInit => GraphInv
<1> SUFFICES ASSUME GraphInit PROVE GraphInv
  OBVIOUS
<1>1. GraphTypeOK
  BY GraphAssumption DEF GraphInit, GraphStart, GraphFresh, GraphTypeOK
<1>2. RoundInv /\ BegunInv /\ JoinInv /\ SkippedNeverRuns /\ LeftoversWaitOnEachOther
  BY DEF GraphInit, GraphStart, GraphFresh, RoundInv, BegunInv, JoinInv, RunningNodes,
         SkippedNeverRuns, LeftoversWaitOnEachOther
<1> QED
  BY <1>1, <1>2 DEF GraphInv

(* The call, the deadline and the return on it move no node.               *)
LEMMA CallKeeps == GraphInv /\ (RunGraph \/ DeadlinePasses \/ ReturnExpired) => GraphInv'
<1> SUFFICES ASSUME GraphInv, RunGraph \/ DeadlinePasses \/ ReturnExpired PROVE GraphInv'
  OBVIOUS
<1> USE DEF GraphInv
<1>1. /\ graph'.round = graph.round /\ graph'.waiting = graph.waiting
      /\ graph'.ended = graph.ended /\ graph'.completions = graph.completions
      /\ graph'.iter = graph.iter /\ graph'.done = graph.done
      /\ graph'.failed = graph.failed /\ graph'.dead = graph.dead
      /\ graph'.skipped = graph.skipped /\ graph'.idle = graph.idle /\ snap' = snap
  BY Fields DEF RunGraph, DeadlinePasses, ReturnExpired
<1>2. \/ graph'.at = graph.at /\ graph.at # "returned"
      \/ graph.at # "round" /\ graph'.at = "loop" /\ graph.at # "returned"
         /\ (snap.nested \/ ValidGraph)
      \/ graph.at # "round" /\ graph'.at = "returned" /\ graph'.err
  BY Fields DEF RunGraph, DeadlinePasses, ReturnExpired
<1>3. GraphTypeOK'
  <2>1. CASE RunGraph
    BY <2>1 DEF RunGraph, GraphTypeOK
  <2>2. CASE DeadlinePasses
    BY <2>2 DEF DeadlinePasses, GraphTypeOK
  <2>3. CASE ReturnExpired
    BY <2>3 DEF ReturnExpired, GraphTypeOK
  <2> QED
    BY <2>1, <2>2, <2>3
<1>4. RoundInv'
  <2>1. graph.at # "returned"
    BY DEF RunGraph, DeadlinePasses, ReturnExpired
  <2> QED
    BY <1>1, <1>2, <2>1 DEF RoundInv, ValidGraph
<1>5. BegunInv'
  BY <1>1 DEF BegunInv, RunningNodes
<1>6. JoinInv'
  BY <1>1 DEF JoinInv, SettledNodes, LiveInto, Sources
<1>7. SkippedNeverRuns'
  BY <1>1 DEF SkippedNeverRuns
<1>8. LeftoversWaitOnEachOther'
  BY <1>2 DEF LeftoversWaitOnEachOther
<1> QED
  BY <1>3, <1>4, <1>5, <1>6, <1>7, <1>8

(* The node the router forces, or the ready nodes, may all run.            *)
LEMMA StartKeeps == GraphInv /\ StartRound => GraphInv'
<1> SUFFICES ASSUME GraphInv, StartRound PROVE GraphInv'
  OBVIOUS
<1> USE DEF GraphInv
<1>1. PICK jump \in Forced :
        LET next == IF jump # {} THEN jump ELSE readySet
        IN graph' = [graph EXCEPT !.at = "round", !.idle = 0, !.round = next,
                       !.waiting = next, !.ended = {}, !.completions = {},
                       !.first = NoNode, !.skipped = @ \cup Skippable,
                       !.lastDone = IF snap.router THEN NoNode ELSE @]
  BY DEF StartRound
<1> DEFINE next == IF jump # {} THEN jump ELSE readySet
<1>2. /\ graph'.at = "round" /\ graph'.round = next /\ graph'.waiting = next
      /\ graph'.ended = {} /\ graph'.completions = {} /\ graph'.iter = graph.iter
      /\ graph'.done = graph.done /\ graph'.failed = graph.failed /\ graph'.idle = 0
      /\ graph'.dead = graph.dead /\ graph'.skipped = graph.skipped \cup Skippable
      /\ snap' = snap
  BY <1>1, Fields DEF StartRound
<1>3. jump \subseteq canRun /\ (~snap.router => jump = {})
  BY DEF Forced
<1>4. /\ Skippable \subseteq Pending /\ Pending \subseteq GraphNodes
      /\ readySet \subseteq Pending \ Skippable
      /\ canRun \subseteq snap.nodes \ (graph.skipped \cup Skippable \cup graph.failed)
  BY Fields DEF Skippable, readySet, canRun, Pending
<1>5. /\ next \subseteq snap.nodes /\ next \subseteq GraphNodes
      /\ next \cap (graph.skipped \cup Skippable \cup graph.failed) = {}
      /\ \A n \in next : graph.iter[n] < GraphMaxIter
  BY <1>3, <1>4, Fields DEF Pending, SettledNodes, readySet, canRun
<1>6. GraphTypeOK'
  <2> DEFINE l == IF snap.router THEN NoNode ELSE graph.lastDone
             s == graph.skipped \cup Skippable
  <2>1. l \in GraphNodes \cup {NoNode} /\ s \in SUBSET GraphNodes
    BY <1>4, Fields DEF GraphTypeOK
  <2>2. graph' = [graph EXCEPT !.at = "round", !.idle = 0, !.round = next,
                    !.waiting = next, !.ended = {}, !.completions = {},
                    !.first = NoNode, !.skipped = s, !.lastDone = l]
    BY <1>1
  <2>3. next \in SUBSET GraphNodes /\ snap' = snap /\ 0 \in 0..2
    BY <1>2, <1>5
  <2> HIDE DEF l, s, next
  <2> QED
    BY <2>1, <2>2, <2>3 DEF GraphTypeOK
<1>7. RoundInv'
  BY <1>2, <1>5 DEF RoundInv, StartRound, ValidGraph
<1>8. BegunInv'
  <2>1. RunningNodes = {}
    BY DEF RunningNodes, RoundInv, StartRound
  <2> QED
    BY <1>2, <2>1 DEF BegunInv
<1>9. JoinInv'
  <2> SUFFICES ASSUME ~snap.router, NEW n \in next \cup graph.done \cup graph.failed
               PROVE  /\ Sources(n) \subseteq SettledNodes \cup Skippable
                      /\ Sources(n) \cap next = {}
                      /\ Sources(n) # {} => LiveInto(n) # {}
    BY <1>2 DEF JoinInv, Sources, LiveInto, SettledNodes
  <2>1. next = readySet
    BY <1>3
  <2>2. next \cap (SettledNodes \cup Skippable) = {}
    BY <1>4, <2>1 DEF Pending
  <2>3. CASE n \in next
    BY <2>1, <2>2, <2>3 DEF readySet
  <2>4. CASE n \in graph.done \cup graph.failed
    BY <2>2, <2>4 DEF JoinInv
  <2> QED
    BY <2>3, <2>4
<1>10. SkippedNeverRuns'
  <2>1. Skippable \cap (graph.done \cup graph.failed) = {}
    BY <1>4 DEF Pending, SettledNodes
  <2> QED
    BY <1>2, <1>5, <2>1 DEF SkippedNeverRuns
<1>11. LeftoversWaitOnEachOther'
  BY <1>2 DEF LeftoversWaitOnEachOther
<1> QED
  BY <1>6, <1>7, <1>8, <1>9, <1>10, <1>11

(* The pass that gives up: what is not ready waits for something pending.  *)
LEMMA EmptyKeeps == GraphInv /\ EmptyPass => GraphInv'
<1> SUFFICES ASSUME GraphInv, EmptyPass PROVE GraphInv'
  OBVIOUS
<1> USE DEF GraphInv
<1>1. /\ graph'.at \in {graph.at, "returned"} /\ graph'.round = graph.round
      /\ graph'.waiting = graph.waiting /\ graph'.ended = graph.ended
      /\ graph'.completions = graph.completions /\ graph'.iter = graph.iter
      /\ graph'.done = graph.done /\ graph'.failed = graph.failed
      /\ graph'.dead = graph.dead /\ graph'.skipped = graph.skipped \cup Skippable
      /\ snap' = snap
  BY Fields DEF EmptyPass
<1>2. Skippable \subseteq Pending /\ Pending \subseteq GraphNodes
  BY Fields DEF Skippable, Pending
<1>3. graph.round = {} /\ RunningNodes = {} /\ (snap.nested \/ ValidGraph)
  BY DEF RoundInv, EmptyPass, RunningNodes
<1>4. GraphTypeOK'
  <2>1. graph.idle + 1 \in 0..2
    BY DEF RoundInv, EmptyPass
  <2> QED
    BY <1>2, <2>1, Fields DEF GraphTypeOK, EmptyPass
<1>5. RoundInv'
  <2>1. graph'.at # "returned" => graph'.idle \in {0, 1}
    BY Fields DEF EmptyPass, RoundInv
  <2> QED
    BY <1>1, <1>3, <2>1 DEF RoundInv, ValidGraph
<1>6. BegunInv'
  BY <1>1, <1>3 DEF BegunInv, RunningNodes
<1>7. JoinInv'
  BY <1>1, <1>3 DEF JoinInv, Sources, LiveInto, SettledNodes
<1>8. SkippedNeverRuns'
  BY <1>1, <1>2, <1>3 DEF SkippedNeverRuns, Pending, SettledNodes
<1>9. LeftoversWaitOnEachOther'
  <2> SUFFICES ASSUME NEW n \in Pending \ Skippable
               PROVE  \/ Sources(n) \cap (Pending \ Skippable) # {}
                      \/ snap.nested /\ ~(Sources(n) \subseteq snap.nodes)
    BY <1>1 DEF LeftoversWaitOnEachOther, Pending, SettledNodes, Sources
  <2>1. graph.iter[n] < GraphMaxIter
    BY <1>2, <1>3, Fields, GraphAssumption DEF BegunInv, Pending, SettledNodes
  <2>2. Sources(n) # {} => LiveInto(n) # {}
    BY DEF Skippable
  <2>3. n \notin readySet
    BY DEF EmptyPass
  <2>4. PICK m \in Sources(n) : m \notin SettledNodes \cup Skippable
    BY <2>1, <2>2, <2>3 DEF readySet
  <2>5. m \in snap.nodes \/ (snap.nested /\ ~(Sources(n) \subseteq snap.nodes))
    <3>1. ValidGraph => m \in snap.nodes
      BY DEF ValidGraph, Sources
    <3>2. m \in snap.nodes \/ ~(Sources(n) \subseteq snap.nodes)
      OBVIOUS
    <3> QED
      BY <1>3, <3>1, <3>2
  <2>6. ASSUME m \in snap.nodes PROVE m \in Sources(n) \cap (Pending \ Skippable)
    BY <2>4, <2>6 DEF Pending
  <2> QED
    BY <2>5, <2>6
<1> QED
  BY <1>4, <1>5, <1>6, <1>7, <1>8, <1>9

LEMMA BeginKeeps == ASSUME NEW n \in GraphNodes PROVE GraphInv /\ BeginNode(n) => GraphInv'
<1> SUFFICES ASSUME GraphInv, BeginNode(n) PROVE GraphInv'
  OBVIOUS
<1> USE DEF GraphInv
<1>1. /\ graph'.at = graph.at /\ graph'.round = graph.round /\ graph'.ended = graph.ended
      /\ graph'.waiting = graph.waiting \ {n}
      /\ graph'.iter = [graph.iter EXCEPT ![n] = @ + 1]
      /\ graph'.completions = graph.completions
      /\ graph'.done = graph.done /\ graph'.failed = graph.failed
      /\ graph'.dead = graph.dead /\ graph'.skipped = graph.skipped
      /\ snap' = snap /\ n \in graph.waiting /\ graph.at = "round"
      /\ graph'.idle = graph.idle
  BY Fields DEF BeginNode
<1>2. graph.iter[n] < GraphMaxIter /\ graph.iter[n] \in Nat
  BY <1>1, Fields DEF RoundInv
<1>3. graph'.iter \in [GraphNodes -> 0..GraphMaxIter]
  BY <1>1, <1>2, Fields, GraphAssumption
<1>4. GraphTypeOK'
  BY <1>1, <1>3, Fields DEF GraphTypeOK, BeginNode
<1>5. RoundInv'
  BY <1>1, Fields DEF RoundInv, ValidGraph
<1>6. BegunInv'
  BY <1>1, Fields DEF BegunInv, RunningNodes, RoundInv
<1>7. JoinInv' /\ SkippedNeverRuns' /\ LeftoversWaitOnEachOther'
  BY <1>1 DEF JoinInv, SkippedNeverRuns, LeftoversWaitOnEachOther, Sources, LiveInto, SettledNodes
<1> QED
  BY <1>4, <1>5, <1>6, <1>7

LEMMA SettleKeeps ==
  ASSUME NEW n \in GraphNodes
  PROVE  GraphInv /\ (NodeSucceeds(n) \/ NodeFails(n)) => GraphInv'
<1> SUFFICES ASSUME GraphInv, NodeSucceeds(n) \/ NodeFails(n) PROVE GraphInv'
  OBVIOUS
<1> USE DEF GraphInv
<1>1. /\ graph'.at = graph.at /\ graph'.round = graph.round
      /\ graph'.ended = graph.ended \cup {n}
      /\ graph'.waiting = graph.waiting /\ graph'.iter = graph.iter
      /\ graph'.completions \subseteq graph.completions \cup {n}
      /\ graph'.done \cup graph'.failed = graph.done \cup graph.failed \cup {n}
      /\ graph'.dead = graph.dead /\ graph'.skipped = graph.skipped
      /\ snap' = snap /\ n \in RunningNodes /\ graph.at = "round"
      /\ graph'.idle = graph.idle
  BY Fields DEF NodeSucceeds, NodeFails
<1>2. GraphTypeOK'
  <2>1. CASE NodeSucceeds(n)
    <3> DEFINE f == IF graph.first = NoNode THEN n ELSE graph.first
    <3>1. f \in GraphNodes \cup {NoNode}
      BY DEF GraphTypeOK
    <3>2. graph' = [graph EXCEPT !.ended = @ \cup {n}, !.done = @ \cup {n},
                      !.completions = @ \cup {n}, !.first = f]
      BY <2>1 DEF NodeSucceeds
    <3> HIDE DEF f
    <3> QED
      BY <1>1, <3>1, <3>2 DEF GraphTypeOK
  <2>2. CASE NodeFails(n)
    BY <2>2 DEF GraphTypeOK, NodeFails
  <2> QED
    BY <1>1, <2>1, <2>2
<1>3. RoundInv'
  BY <1>1 DEF RoundInv, RunningNodes, ValidGraph
<1>4. BegunInv'
  BY <1>1 DEF BegunInv, RunningNodes
<1>5. SettledNodes' = SettledNodes \cup {n} /\ n \in graph.round
  BY <1>1 DEF SettledNodes, RunningNodes
<1>6. JoinInv'
  BY <1>1, <1>5 DEF JoinInv, Sources, LiveInto
<1>7. SkippedNeverRuns' /\ LeftoversWaitOnEachOther'
  BY <1>1, <1>5 DEF SkippedNeverRuns, LeftoversWaitOnEachOther
<1> QED
  BY <1>2, <1>3, <1>4, <1>6, <1>7

(* Only edges out of the round's nodes die.                                *)
LEMMA EndKeeps == GraphInv /\ EndRound => GraphInv'
<1> SUFFICES ASSUME GraphInv, EndRound PROVE GraphInv'
  OBVIOUS
<1> USE DEF GraphInv
<1>1. PICK held \in SUBSET {e \in snap.conds : e[1] \in graph.completions} :
        graph' = [graph EXCEPT
                    !.at = IF graph.err THEN "returned" ELSE "loop",
                    !.dead = @ \cup UNION {Killed(n, held) : n \in graph.completions},
                    !.lastDone = IF graph.first # NoNode THEN graph.first ELSE @,
                    !.round = {}, !.ended = {}, !.completions = {}, !.first = NoNode]
  BY DEF EndRound
<1>2. /\ graph'.at \in {"returned", "loop"} /\ graph'.round = {} /\ graph'.ended = {}
      /\ graph'.completions = {} /\ graph'.waiting = graph.waiting
      /\ graph'.iter = graph.iter /\ graph'.done = graph.done
      /\ graph'.failed = graph.failed /\ graph'.skipped = graph.skipped
      /\ graph'.err = graph.err /\ (graph'.at = "returned" => graph.err)
      /\ graph'.dead = graph.dead \cup UNION {Killed(n, held) : n \in graph.completions}
      /\ snap' = snap /\ graph.at = "round" /\ graph.ended = graph.round
      /\ graph'.idle = graph.idle
  BY <1>1, Fields DEF EndRound
<1>3. /\ UNION {Killed(n, held) : n \in graph.completions} \subseteq snap.edges
      /\ \A e \in UNION {Killed(n, held) : n \in graph.completions} : e[1] \in graph.round
  BY DEF Killed, RoundInv
<1>4. graph.waiting = {} /\ RunningNodes = {}
  BY <1>2 DEF RoundInv, RunningNodes
<1>5. GraphTypeOK'
  <2>1. snap' = snap /\ GraphTypeOK
    BY <1>2
  <2> DEFINE end == IF graph.err THEN "returned" ELSE "loop"
             d == graph.dead \cup UNION {Killed(n, held) : n \in graph.completions}
             l == IF graph.first # NoNode THEN graph.first ELSE graph.lastDone
  <2>2. /\ d \in SUBSET snap.edges /\ end \in {"loop", "returned"}
        /\ l \in GraphNodes \cup {NoNode}
    BY <1>3, Fields DEF GraphTypeOK
  <2>3. graph' = [graph EXCEPT !.at = end, !.dead = d, !.lastDone = l,
                    !.round = {}, !.ended = {}, !.completions = {}, !.first = NoNode]
    BY <1>1
  <2> HIDE DEF end, d, l, GraphInv
  <2> QED
    BY <2>1, <2>2, <2>3 DEF GraphTypeOK
<1>6. RoundInv'
  BY <1>2, <1>4 DEF RoundInv, ValidGraph
<1>7. BegunInv'
  BY <1>2, <1>4 DEF BegunInv
<1>8. JoinInv'
  <2> SUFFICES ASSUME ~snap.router, NEW n \in graph.done \cup graph.failed
               PROVE  /\ Sources(n) \subseteq SettledNodes
                      /\ Sources(n) # {} => LiveInto(n)' # {}
    BY <1>2 DEF JoinInv, Sources, SettledNodes
  <2>1. Sources(n) \subseteq SettledNodes /\ Sources(n) \cap graph.round = {}
    BY DEF JoinInv
  <2>2. ASSUME NEW m \in LiveInto(n) PROVE m \in LiveInto(n)'
    <3>1. m \in Sources(n) /\ <<m, n>> \notin graph.dead
      BY DEF LiveInto
    <3>2. m \notin graph.round
      BY <2>1, <3>1
    <3>3. <<m, n>> \notin graph'.dead
      BY <1>2, <1>3, <3>1, <3>2
    <3> QED
      BY <1>2, <3>1, <3>3 DEF LiveInto, Sources
  <2> QED
    BY <2>1, <2>2 DEF JoinInv
<1>9. SkippedNeverRuns' /\ LeftoversWaitOnEachOther'
  BY <1>2 DEF SkippedNeverRuns, LeftoversWaitOnEachOther
<1> QED
  BY <1>5, <1>6, <1>7, <1>8, <1>9

LEMMA GraphStepKeepsInv == GraphInv /\ [GraphNext]_graphVars => GraphInv'
<1> SUFFICES ASSUME GraphInv, [GraphNext]_graphVars PROVE GraphInv'
  OBVIOUS
<1>1. CASE RunGraph \/ DeadlinePasses \/ ReturnExpired
  BY <1>1, CallKeeps
<1>2. CASE StartRound
  BY <1>2, StartKeeps
<1>3. CASE EmptyPass
  BY <1>3, EmptyKeeps
<1>4. ASSUME NEW n \in GraphNodes, BeginNode(n) \/ NodeSucceeds(n) \/ NodeFails(n)
      PROVE  GraphInv'
  BY <1>4, BeginKeeps, SettleKeeps
<1>5. CASE EndRound
  BY <1>5, EndKeeps
<1>6. CASE UNCHANGED graphVars
  <2>1. snap' = snap /\ graph' = graph
    BY <1>6 DEF graphVars
  <2>2. GraphTypeOK' /\ RoundInv' /\ BegunInv'
    BY <2>1 DEF GraphInv, GraphTypeOK, RoundInv, BegunInv, RunningNodes, ValidGraph
  <2>3. JoinInv'
    BY <2>1 DEF GraphInv, JoinInv, Sources, LiveInto, SettledNodes
  <2>4. SkippedNeverRuns' /\ LeftoversWaitOnEachOther'
    BY <2>1 DEF GraphInv, SkippedNeverRuns, LeftoversWaitOnEachOther, Sources, Pending, SettledNodes
  <2> QED
    BY <2>2, <2>3, <2>4 DEF GraphInv
<1> QED
  BY <1>1, <1>2, <1>3, <1>4, <1>5, <1>6 DEF GraphNext

LEMMA GraphInvAlways == GraphSpec => []GraphInv
BY GraphInitInv, GraphStepKeepsInv, PTL DEF GraphSpec

-----------------------------------------------------------------------------
(* In every graph without a router a node starts after all its sources     *)
(* settled and by an edge that is alive (readySet).                        *)
THEOREM JoinIsAll == GraphSpec => []JoinAll
<1>1. GraphInv => JoinAll
  BY DEF GraphInv, JoinInv, JoinAll, RunningNodes
<1> QED
  BY <1>1, GraphInvAlways, PTL

(* No round and no jump runs a node that was skipped (settleSkips, canRun).*)
THEOREM SkippedStaysOut == GraphSpec => []SkippedNeverRuns
<1>1. GraphInv => SkippedNeverRuns
  BY DEF GraphInv
<1> QED
  BY <1>1, GraphInvAlways, PTL

(* A clean return leaves only nodes that wait for each other, so a run of  *)
(* an acyclic graph settles them all (runGraphRounds); a subgraph may also *)
(* leave nodes that wait for one it does not have.                         *)
THEOREM OnlyCyclesAreLeft == GraphSpec => []LeftoversWaitOnEachOther
<1>1. GraphInv => LeftoversWaitOnEachOther
  BY DEF GraphInv
<1> QED
  BY <1>1, GraphInvAlways, PTL

-----------------------------------------------------------------------------
(* The graph.                                                              *)

IsGraph(g) ==
  /\ g = Graph(g.step, g.edges, g.in, g.version)
  /\ g.edges \subseteq Nodes(g) \X Nodes(g)
  /\ Acyclic(Nodes(g), g.edges)

\* Fewer nodes and fewer edges close no cycle.
LEMMA AcyclicShrinks ==
  ASSUME NEW ns, NEW edges, Acyclic(ns, edges), NEW ms \in SUBSET ns, NEW fewer \in SUBSET edges
  PROVE  Acyclic(ms, fewer)
BY DEF Acyclic

\* An edge to where its start cannot be reached from closes none.
LEMMA AcyclicWithEdge ==
  ASSUME NEW ns, NEW edges, Acyclic(ns, edges), NEW from \in ns, NEW to \in ns,
         ~Reaches(ns, edges, to, from)
  PROVE  Acyclic(ns, edges \cup {<<from, to>>})
<1>1. PICK C \in SUBSET ns : to \in C /\ ClosedUnder(edges, C) /\ from \notin C
  BY DEF Reaches
<1>. SUFFICES ASSUME NEW S \in SUBSET ns, S # {}
              PROVE  \E n \in S : \A e \in edges \cup {<<from, to>>} : e[2] = n => e[1] \notin S
  BY DEF Acyclic
<1>2. CASE S \subseteq C
  <2>1. PICK n \in S : \A e \in edges : e[2] = n => e[1] \notin S
    BY DEF Acyclic
  <2>. QED  BY <1>1, <1>2, <2>1
<1>3. CASE ~(S \subseteq C)
  <2>1. PICK n \in S \ C : \A e \in edges : e[2] = n => e[1] \notin S \ C
    BY <1>3 DEF Acyclic
  <2>2. \A e \in edges : e[2] = n => e[1] \notin S
    BY <1>1, <2>1 DEF ClosedUnder
  <2>. QED  BY <1>1, <2>1, <2>2
<1>. QED  BY <1>2, <1>3

\* The other way round: an edge that closes no cycle starts where its end
\* does not lead.
LEMMA EdgeOfAcyclic ==
  ASSUME NEW ns, NEW edges \in SUBSET (ns \X ns), NEW from \in ns, NEW to \in ns,
         Acyclic(ns, edges \cup {<<from, to>>})
  PROVE  ~Reaches(ns, edges, to, from)
<1>. SUFFICES ASSUME Reaches(ns, edges, to, from) PROVE FALSE
  OBVIOUS
<1>. DEFINE T == {x \in ns : Reaches(ns, edges, to, x) /\ Reaches(ns, edges, x, from)}
<1>1. Reaches(ns, edges, to, to) /\ Reaches(ns, edges, from, from)
  BY DEF Reaches
<1>2. from \in T /\ to \in T
  BY <1>1
<1>3. ASSUME NEW x \in T, x # to PROVE \E e \in edges : e[2] = x /\ e[1] \in T
  <2>. DEFINE B == {b \in ns \ {x} : Reaches(ns, edges, to, b)}
  <2>1. to \in B /\ x \notin B
    BY <1>1, <1>3
  <2>2. B \in SUBSET ns
    OBVIOUS
  <2>3. ~ClosedUnder(edges, B)
    BY <2>1, <2>2 DEF Reaches
  <2>4. PICK e \in edges : e[1] \in B /\ e[2] \notin B
    BY <2>3 DEF ClosedUnder
  <2>5. e[1] \in ns /\ e[2] \in ns
    OBVIOUS
  <2>6. Reaches(ns, edges, to, e[2])
    BY <2>4 DEF Reaches, ClosedUnder
  <2>7. e[2] = x
    BY <2>4, <2>5, <2>6
  <2>8. Reaches(ns, edges, e[1], from)
    BY <2>7 DEF Reaches, ClosedUnder
  <2>. QED  BY <2>4, <2>5, <2>7, <2>8
<1>4. PICK n \in T : \A e \in edges \cup {<<from, to>>} : e[2] = n => e[1] \notin T
  <2>1. T \in SUBSET ns /\ T # {}
    BY <1>2
  <2>. QED  BY <2>1 DEF Acyclic
<1>5. CASE n = to
  <2>1. <<from, to>>[2] = n /\ <<from, to>>[1] = from
    BY <1>5
  <2>. QED  BY <1>2, <1>4, <2>1
<1>6. CASE n # to
  BY <1>3, <1>4, <1>6
<1>. QED  BY <1>5, <1>6

\* A new node that edges only lead to closes no cycle.
LEMMA AcyclicWithNode ==
  ASSUME NEW ns, NEW edges \in SUBSET (ns \X ns), Acyclic(ns, edges),
         NEW id, id \notin ns, NEW want \in SUBSET ns
  PROVE  Acyclic(ns \cup {id}, edges \cup (want \X {id}))
<1>. SUFFICES ASSUME NEW S \in SUBSET (ns \cup {id}), S # {}
              PROVE  \E n \in S : \A e \in edges \cup (want \X {id}) : e[2] = n => e[1] \notin S
  BY DEF Acyclic
<1>1. CASE S = {id}
  BY <1>1
<1>2. CASE S # {id}
  <2>1. S \ {id} \in SUBSET ns /\ S \ {id} # {}
    BY <1>2
  <2>2. PICK n \in S \ {id} : \A e \in edges : e[2] = n => e[1] \notin S \ {id}
    BY <2>1 DEF Acyclic
  <2>3. \A e \in edges : e[1] # id
    OBVIOUS
  <2>. QED  BY <2>2, <2>3
<1>. QED  BY <1>1, <1>2

\* The graph that NewMutableDAG builds has edges between its nodes only.
LEMMA NewGraph ==
  ASSUME NEW steps, NEW heap
  PROVE  LET g == NewMutableDAG(steps, heap).g IN
         /\ g = Graph(g.step, g.edges, g.in, g.version)
         /\ g.step = steps /\ Nodes(g) = DOMAIN steps
         /\ g.edges = {e \in Nodes(g) \X Nodes(g) : e[1] \in heap[steps[e[2]]]}
BY DEF NewMutableDAG, Graph, Nodes

(* Every operation of a graph leaves a graph.                              *)

WithDep(heap, s, d)    == [heap EXCEPT ![s] = @ \cup {d}]
WithoutDep(heap, s, d) == [heap EXCEPT ![s] = @ \ {d}]

LEMMA AddNodeKeeps ==
  ASSUME NEW g, IsGraph(g), NEW heap, NEW id, NEW step
  PROVE  LET r == AddNode(g, heap, id, step) IN IsGraph(r.g) /\ r.deps = heap
<1>. DEFINE want == heap[step]
            h == Graph([n \in Nodes(g) \cup {id} |-> IF n = id THEN step ELSE g.step[n]],
                  g.edges \cup (want \X {id}),
                  [n \in Nodes(g) \cup {id} |-> IF n = id THEN Cardinality(want) ELSE g.in[n]],
                  g.version + 1)
<1>1. CASE id \in Nodes(g) \/ ~ want \subseteq Nodes(g)
  BY <1>1 DEF AddNode, Failed
<1>2. CASE ~(id \in Nodes(g) \/ ~ want \subseteq Nodes(g))
  <2>1. AddNode(g, heap, id, step) = Done(h, heap)
    BY <1>2 DEF AddNode
  <2>2. /\ h = Graph(h.step, h.edges, h.in, h.version)
        /\ Nodes(h) = Nodes(g) \cup {id} /\ h.edges = g.edges \cup (want \X {id})
    BY DEF Graph, Nodes
  <2>. HIDE DEF h
  <2>3. Acyclic(Nodes(h), h.edges)
    <3>1. /\ want \in SUBSET Nodes(g) /\ id \notin Nodes(g) /\ g.edges \in SUBSET (Nodes(g) \X Nodes(g))
          /\ Acyclic(Nodes(g), g.edges)
      BY <1>2 DEF IsGraph
    <3>. HIDE DEF want
    <3>2. Acyclic(Nodes(g) \cup {id}, g.edges \cup (want \X {id}))
      BY <3>1, AcyclicWithNode
    <3>. QED  BY <2>2, <3>2
  <2>4. h.edges \subseteq Nodes(h) \X Nodes(h)
    BY <1>2, <2>2 DEF IsGraph
  <2>5. IsGraph(h)
    BY <2>2, <2>3, <2>4 DEF IsGraph
  <2>. QED  BY <2>1, <2>5 DEF Done
<1>. QED  BY <1>1, <1>2

LEMMA RemoveNodeKeeps ==
  ASSUME NEW g, IsGraph(g), NEW heap, NEW id
  PROVE  LET r == RemoveNode(g, heap, id) IN IsGraph(r.g) /\ r.deps = heap
<1>. DEFINE h == without(g, id)
<1>1. /\ h = Graph(h.step, h.edges, h.in, h.version)
      /\ Nodes(h) = Nodes(g) \ {id} /\ h.edges = g.edges \ Touching(g.edges, id)
  BY DEF without, Graph, Nodes
<1>2. h.edges \subseteq Nodes(h) \X Nodes(h)
  BY <1>1 DEF IsGraph, Touching
<1>3. Acyclic(Nodes(h), h.edges)
  BY <1>1, AcyclicShrinks DEF IsGraph
<1>4. IsGraph(h)
  BY <1>1, <1>2, <1>3 DEF IsGraph
<1>. HIDE DEF h
<1>5. RemoveNode(g, heap, id) = Failed(g, heap) \/ RemoveNode(g, heap, id) = Done(h, heap)
  BY DEF RemoveNode, h
<1>. QED  BY <1>4, <1>5 DEF Failed, Done

LEMMA AddEdgeKeeps ==
  ASSUME NEW g, IsGraph(g), NEW heap, NEW from, NEW to
  PROVE  LET r == AddEdge(g, heap, from, to) IN
         /\ IsGraph(r.g) /\ Nodes(r.g) = Nodes(g) /\ r.ok \in BOOLEAN
         /\ ~r.ok => r.g = g
         /\ r.ok => <<from, to>> \notin g.edges /\ r.g.edges = g.edges \cup {<<from, to>>}
         /\ ( /\ from \in Nodes(g) /\ to \in Nodes(g) /\ <<from, to>> \notin g.edges
              /\ ~wouldCreateCycle(g, from, to) ) => r.ok
<1>. DEFINE bad == \/ ~ {from, to} \subseteq Nodes(g) \/ <<from, to>> \in g.edges
                   \/ wouldCreateCycle(g, from, to)
            h == Graph(g.step, g.edges \cup {<<from, to>>}, [g.in EXCEPT ![to] = @ + 1], g.version + 1)
<1>1. CASE bad
  <2>1. AddEdge(g, heap, from, to) = Failed(g, heap)
    BY <1>1 DEF AddEdge
  <2>. QED  BY <1>1, <2>1 DEF Failed
<1>2. CASE ~bad
  <2>1. AddEdge(g, heap, from, to) = Done(h, WithDep(heap, g.step[to], from))
    BY <1>2 DEF AddEdge, WithDep
  <2>3. /\ h = Graph(h.step, h.edges, h.in, h.version)
        /\ Nodes(h) = Nodes(g) /\ h.edges = g.edges \cup {<<from, to>>}
    BY DEF Graph, Nodes
  <2>4. Acyclic(Nodes(g), g.edges \cup {<<from, to>>})
    BY <1>2, AcyclicWithEdge DEF wouldCreateCycle, IsGraph
  <2>. HIDE DEF h
  <2>5. h.edges \subseteq Nodes(h) \X Nodes(h)
    <3>1. from \in Nodes(g) /\ to \in Nodes(g)
      BY <1>2
    <3>. QED  BY <2>3, <3>1 DEF IsGraph
  <2>6. IsGraph(h)
    BY <2>3, <2>4, <2>5 DEF IsGraph
  <2>. QED  BY <1>2, <2>1, <2>3, <2>6 DEF Done
<1>. QED  BY <1>1, <1>2

LEMMA RemoveEdgeKeeps ==
  ASSUME NEW g, IsGraph(g), NEW heap, NEW from, NEW to
  PROVE  LET r == RemoveEdge(g, heap, from, to) IN
         /\ IsGraph(r.g) /\ Nodes(r.g) = Nodes(g) /\ r.ok \in BOOLEAN /\ (r.ok <=> <<from, to>> \in g.edges)
         /\ ~r.ok => r.g = g
         /\ r.ok => r.g.edges = g.edges \ {<<from, to>>}
<1>. DEFINE h == Graph(g.step, g.edges \ {<<from, to>>}, [g.in EXCEPT ![to] = @ - 1], g.version + 1)
<1>1. CASE <<from, to>> \notin g.edges
  <2>1. RemoveEdge(g, heap, from, to) = Failed(g, heap)
    BY <1>1 DEF RemoveEdge
  <2>. QED  BY <1>1, <2>1 DEF Failed
<1>2. CASE <<from, to>> \in g.edges
  <2>1. RemoveEdge(g, heap, from, to) = Done(h, WithoutDep(heap, g.step[to], from))
    BY <1>2 DEF RemoveEdge, WithoutDep
  <2>3. /\ h = Graph(h.step, h.edges, h.in, h.version)
        /\ Nodes(h) = Nodes(g) /\ h.edges = g.edges \ {<<from, to>>}
    BY DEF Graph, Nodes
  <2>4. Acyclic(Nodes(g), g.edges \ {<<from, to>>})
    BY AcyclicShrinks DEF IsGraph
  <2>5. IsGraph(h)
    BY <2>3, <2>4 DEF IsGraph
  <2>. HIDE DEF h
  <2>. QED  BY <1>2, <2>1, <2>3, <2>5 DEF Done
<1>. QED  BY <1>1, <1>2

\* The heap changes by the one dependency or not at all.
LEMMA EdgeHeaps ==
  ASSUME NEW g, NEW heap, NEW from, NEW to
  PROVE  /\ \/ AddEdge(g, heap, from, to).deps = heap
            \/ AddEdge(g, heap, from, to).deps = WithDep(heap, g.step[to], from)
         /\ \/ RemoveEdge(g, heap, from, to).deps = heap
            \/ RemoveEdge(g, heap, from, to).deps = WithoutDep(heap, g.step[to], from)
<1>1. \A r, h : Done(r, h).deps = h /\ Failed(r, h).deps = h
  BY DEF Done, Failed
<1>. QED  BY <1>1 DEF AddEdge, RemoveEdge, WithDep, WithoutDep

LEMMA ReplaceKeeps ==
  ASSUME NEW g, IsGraph(g), NEW heap, NEW id, NEW step
  PROVE  LET r == ReplaceSameNode(g, heap, id, step) IN IsGraph(r.g) /\ r.deps = heap
<1>. DEFINE edges == g.edges \cup (heap[step] \X {id})
            bad == \/ id \notin Nodes(g) \/ id \in heap[step] \/ ~ heap[step] \subseteq Nodes(g)
                   \/ ~ Acyclic(Nodes(g), edges)
            h == Graph([g.step EXCEPT ![id] = step], edges, InDegrees(Nodes(g), edges), g.version + 1)
<1>1. CASE bad
  <2>1. ReplaceSameNode(g, heap, id, step) = Failed(g, heap)
    BY <1>1 DEF ReplaceSameNode
  <2>. QED  BY <2>1 DEF Failed
<1>2. CASE ~bad
  <2>1. ReplaceSameNode(g, heap, id, step) = Done(h, heap)
    BY <1>2 DEF ReplaceSameNode
  <2>2. /\ h = Graph(h.step, h.edges, h.in, h.version)
        /\ Nodes(h) = Nodes(g) /\ h.edges = edges
    BY DEF Graph, Nodes
  <2>3. IsGraph(h)
    BY <1>2, <2>2 DEF IsGraph
  <2>. HIDE DEF h
  <2>. QED  BY <2>1, <2>3 DEF Done
<1>. QED  BY <1>1, <1>2

-----------------------------------------------------------------------------
(* The operators.                                                          *)

CallKinds == {"AddNode", "ReplaceNode", "RemoveNode", "AddEdge", "RemoveEdge"}

\* X holds calls with all that may follow on them.
Calls(X) == \A c \in X : c.what \in CallKinds /\ c.then \in Seq(X) /\ c.else \in Seq(X)

\* None of them is rolled back.
Gentle(X) == \A c \in X : c.onFail \in {"skip", "stop"}

\* Nothing but edges is called for, and nothing follows.
EdgeCalls(X) ==
  \A c \in X : /\ c.what \in {"AddEdge", "RemoveEdge"} /\ c.onFail \in {"skip", "rollback"}
               /\ c.then = <<>> /\ c.else = <<>>

\* H are the edges of the child after each of the first k calls of ops.
IsLog(H, ops, k) ==
  /\ k \in Nat /\ H[0] = before /\ H[k] = child.edges
  /\ \A j \in 0 .. k : /\ H[j] \subseteq Nodes(child) \X Nodes(child)
                       /\ Acyclic(Nodes(child), H[j])
  /\ \A j \in 1 .. k : LET e == <<ops[j].from, ops[j].to>> IN
       \/ ops[j].what = "AddEdge" /\ e \notin H[j - 1] /\ H[j] = H[j - 1] \cup {e}
       \/ ops[j].what = "RemoveEdge" /\ e \in H[j - 1] /\ H[j] = H[j - 1] \ {e}

Logged(ops, k) == \E H : IsLog(H, ops, k)

\* An operator runs: it is one that does not roll back, or its calls so far
\* lead from the edges it found to those of the child.
Running(X) ==
  /\ ~rolled /\ undo \in Seq(X)
  /\ Gentle(X) \/ (EdgeCalls(X) /\ Logged(undo, Len(undo)))

\* It is rolled back: what is left to do undoes what is left of its calls.
RollingBack(X) ==
  /\ rolled /\ EdgeCalls(X) /\ \A c \in X : c.onFail = "skip"
  /\ \E ops, k : /\ agenda = [i \in 1 .. k |-> reverted(ops[k + 1 - i])]
                 /\ Logged(ops, k)

HeapOK(heap) ==
  /\ heap = [s \in DOMAIN heap |-> heap[s]]
  /\ \A n \in Nodes(live) : live.step[n] \in DOMAIN heap /\ IsFiniteSet(heap[live.step[n]])

GenomeInv ==
  /\ IsGraph(live) /\ IsGraph(child) /\ HeapOK(deps) /\ IsFiniteSet(Nodes(live))
  /\ \E X : Calls(X) /\ agenda \in Seq(X) /\ (Running(X) \/ RollingBack(X))

\* Every call leaves a graph, and a heap where the live Steps are.
LEMMA ResultKeeps ==
  ASSUME NEW c, c.what \in CallKinds, IsGraph(child), HeapOK(deps)
  PROVE  IsGraph(Result(c).g) /\ HeapOK(Result(c).deps)
<1>1. CASE c.what = "AddNode"
  BY <1>1, AddNodeKeeps DEF Result
<1>2. CASE c.what = "ReplaceNode"
  BY <1>2, ReplaceKeeps DEF Result
<1>3. CASE c.what = "RemoveNode"
  BY <1>3, RemoveNodeKeeps DEF Result
<1>4. CASE c.what = "AddEdge"
  <2>. DEFINE r == AddEdge(child, deps, c.from, c.to)
              s == child.step[c.to]
  <2>1. IsGraph(r.g)
    BY AddEdgeKeeps
  <2>5. r.deps = deps \/ r.deps = WithDep(deps, s, c.from)
    BY EdgeHeaps
  <2>2. Result(c) = r
    BY <1>4 DEF Result
  <2>. HIDE DEF r, s
  <2>3. CASE r.deps = deps
    BY <2>1, <2>2, <2>3
  <2>4. CASE r.deps = WithDep(deps, s, c.from)
    <3>1. \A t \in DOMAIN deps : IsFiniteSet(deps[t]) => IsFiniteSet(deps[t] \cup {c.from})
      BY FS_AddElement
    <3>. QED  BY <2>1, <2>2, <2>4, <3>1 DEF HeapOK, WithDep
  <2>. QED  BY <2>1, <2>2, <2>3, <2>4, <2>5
<1>5. CASE c.what = "RemoveEdge"
  <2>. DEFINE r == RemoveEdge(child, deps, c.from, c.to)
              s == child.step[c.to]
  <2>1. IsGraph(r.g)
    BY RemoveEdgeKeeps
  <2>5. r.deps = deps \/ r.deps = WithoutDep(deps, s, c.from)
    BY EdgeHeaps
  <2>2. Result(c) = r
    BY <1>5 DEF Result
  <2>. HIDE DEF r, s
  <2>3. CASE r.deps = deps
    BY <2>1, <2>2, <2>3
  <2>4. CASE r.deps = WithoutDep(deps, s, c.from)
    <3>1. \A t \in DOMAIN deps : IsFiniteSet(deps[t]) => IsFiniteSet(deps[t] \ {c.from})
      BY FS_RemoveElement
    <3>. QED  BY <2>1, <2>2, <2>4, <3>1 DEF HeapOK, WithoutDep
  <2>. QED  BY <2>1, <2>2, <2>3, <2>4, <2>5
<1>. QED  BY <1>1, <1>2, <1>3, <1>4, <1>5 DEF CallKinds

\* clone makes an acyclic graph of Steps of the live one.
LEMMA CloneIsGraph ==
  ASSUME IsGraph(live)
  PROVE  /\ IsGraph(clone)
         /\ Nodes(clone) \subseteq Nodes(live)
         /\ \A n \in Nodes(clone) : clone.step[n] = live.step[n]
<1>. DEFINE ns == Sortable(live)
            steps == [n \in ns |-> live.step[n]]
            g == NewMutableDAG(steps, deps).g
<1>1. ns \subseteq Nodes(live)
  BY DEF Sortable
<1>2. /\ g = Graph(g.step, g.edges, g.in, g.version)
      /\ g.step = steps /\ Nodes(g) = ns
      /\ g.edges = {e \in ns \X ns : e[1] \in deps[steps[e[2]]]}
  BY NewGraph
<1>3. Acyclic(ns, {e \in ns \X ns : e[1] \in deps[steps[e[2]]]})
  <2>. SUFFICES ASSUME NEW S \in SUBSET ns, S # {},
                       \A n \in S : \E e \in ns \X ns : e[1] \in deps[steps[e[2]]] /\ e[2] = n /\ e[1] \in S
                PROVE  FALSE
    BY DEF Acyclic
  <2>1. \A n \in S : DepsOf(live, n) \cap S # {}
    BY DEF DepsOf
  <2>2. Nodes(live) \ S \in SUBSET Nodes(live)
    OBVIOUS
  <2>3. \A m \in Nodes(live) : DepsOf(live, m) \subseteq Nodes(live) \ S => m \in Nodes(live) \ S
    BY <2>1
  <2>4. ns \subseteq Nodes(live) \ S
    BY <2>2, <2>3 DEF Sortable
  <2>. QED  BY <2>4
<1>4. clone = g
  BY DEF clone
<1>. HIDE DEF g, ns
<1>. QED  BY <1>1, <1>2, <1>3, <1>4 DEF IsGraph

\* An operator begins on a graph with its program.
LEMMA MutationBegins ==
  ASSUME GenomeInv, NEW g, IsGraph(g), NEW program, NEW heap, HeapOK(heap),
         Begins(g, program, heap),
         NEW X, Calls(X), program \in Seq(X), Gentle(X) \/ EdgeCalls(X)
  PROVE  GenomeInv'
<1>1. /\ child' = g /\ agenda' = program /\ deps' = heap /\ undo' = <<>>
      /\ before' = g.edges /\ rolled' = FALSE /\ live' = live
  BY DEF Begins
<1>2. /\ IsGraph(live)' /\ IsGraph(child)' /\ HeapOK(deps)' /\ IsFiniteSet(Nodes(live))'
  BY <1>1 DEF GenomeInv, IsGraph, HeapOK
<1>3. IsLog([j \in {0} |-> g.edges], <<>>, 0)'
  BY <1>1 DEF IsLog, IsGraph
<1>4. Logged(undo, Len(undo))'
  <2>1. Len(<<>>) = 0
    OBVIOUS
  <2>. QED  BY <1>1, <1>3, <2>1 DEF Logged
<1>5. Running(X)'
  BY <1>1, <1>4 DEF Running, Gentle, EdgeCalls
<1>. QED  BY <1>1, <1>2, <1>5 DEF GenomeInv, Calls

\* A call about an edge changes that edge or nothing.
LEMMA EdgeResult ==
  ASSUME NEW c, c.what \in {"AddEdge", "RemoveEdge"}, IsGraph(child)
  PROVE  /\ Nodes(Result(c).g) = Nodes(child)
         /\ Result(c).ok \in BOOLEAN
         /\ ~Result(c).ok => Result(c).g = child
         /\ Result(c).ok =>
              \/ /\ c.what = "AddEdge" /\ <<c.from, c.to>> \notin child.edges
                 /\ Result(c).g.edges = child.edges \cup {<<c.from, c.to>>}
              \/ /\ c.what = "RemoveEdge" /\ <<c.from, c.to>> \in child.edges
                 /\ Result(c).g.edges = child.edges \ {<<c.from, c.to>>}
<1>1. CASE c.what = "AddEdge"
  <2>1. Result(c) = AddEdge(child, deps, c.from, c.to)
    BY <1>1 DEF Result
  <2>. QED  BY <1>1, <2>1, AddEdgeKeeps
<1>2. CASE c.what = "RemoveEdge"
  <2>1. Result(c) = RemoveEdge(child, deps, c.from, c.to)
    BY <1>2 DEF Result
  <2>. QED  BY <1>2, <2>1, RemoveEdgeKeeps
<1>. QED  BY <1>1, <1>2

\* A call that undoes another is about the same edge and fails quietly.
LEMMA RevertedCall ==
  ASSUME NEW c, c.what \in {"AddEdge", "RemoveEdge"}
  PROVE  /\ reverted(c).what = IF c.what = "AddEdge" THEN "RemoveEdge" ELSE "AddEdge"
         /\ reverted(c).from = c.from /\ reverted(c).to = c.to
         /\ reverted(c).onFail = "skip" /\ reverted(c).then = <<>> /\ reverted(c).else = <<>>
BY DEF reverted, Cut, Add, Call

LEMMA EdgeCallsAreCalls == ASSUME NEW X, EdgeCalls(X) PROVE Calls(X)
<1>1. <<>> \in Seq(X)
  OBVIOUS
<1>. QED  BY <1>1 DEF EdgeCalls, Calls, CallKinds

\* A step of an operator that is not being rolled back.
LEMMA RunningStep ==
  ASSUME GenomeInv, NEW X, Calls(X), agenda \in Seq(X), Running(X), Step
  PROVE  \E Y : Calls(Y) /\ agenda' \in Seq(Y) /\ (Running(Y) \/ RollingBack(Y))'
<1>. DEFINE c == Head(agenda)
            r == Result(c)
<1>1. /\ c \in X /\ Tail(agenda) \in Seq(X)
      /\ undo \in Seq(X) /\ Append(undo, c) \in Seq(X)
      /\ c.then \in Seq(X) /\ c.else \in Seq(X)
  BY DEF Step, Calls, Running
<1>6. c.then \o Tail(agenda) \in Seq(X) /\ c.else \o Tail(agenda) \in Seq(X)
  BY <1>1
<1>2. /\ child' = r.g /\ before' = before
      /\ undo' = IF r.ok THEN Append(undo, c) ELSE undo
      /\ r.ok => agenda' = c.then \o Tail(agenda)
      /\ ~r.ok /\ c.onFail = "skip" => agenda' = c.else \o Tail(agenda)
      /\ ~r.ok /\ c.onFail = "stop" => agenda' = c.else
      /\ ~r.ok /\ c.onFail = "rollback" => agenda' = rollbackEdges(undo)
      /\ rolled' = (rolled \/ (~ r.ok /\ c.onFail = "rollback"))
  BY DEF Step
<1>3. undo' \in Seq(X)
  BY <1>1, <1>2
<1>. HIDE DEF r
<1>4. CASE Gentle(X)
  <2>1. c.onFail \in {"skip", "stop"}
    BY <1>1, <1>4 DEF Gentle
  <2>2. agenda' \in Seq(X)
    BY <1>1, <1>2, <1>6, <2>1
  <2>3. ~rolled'
    BY <1>2, <2>1 DEF Running
  <2>4. Running(X)'
    BY <1>3, <1>4, <2>3 DEF Running, Gentle
  <2>. QED  BY <2>2, <2>4
<1>5. CASE EdgeCalls(X) /\ Logged(undo, Len(undo))
  <2>1. /\ c.what \in {"AddEdge", "RemoveEdge"} /\ c.onFail \in {"skip", "rollback"}
        /\ c.then = <<>> /\ c.else = <<>> /\ <<>> \o Tail(agenda) = Tail(agenda)
    BY <1>1, <1>5 DEF EdgeCalls
  <2>2. /\ Nodes(child') = Nodes(child) /\ r.ok \in BOOLEAN
        /\ ~r.ok => child' = child
        /\ r.ok => \/ /\ c.what = "AddEdge" /\ <<c.from, c.to>> \notin child.edges
                      /\ child'.edges = child.edges \cup {<<c.from, c.to>>}
                   \/ /\ c.what = "RemoveEdge" /\ <<c.from, c.to>> \in child.edges
                      /\ child'.edges = child.edges \ {<<c.from, c.to>>}
    <3>. HIDE DEF c
    <3>. QED  BY <1>2, <2>1, EdgeResult DEF GenomeInv, r
  <2>3. CASE r.ok
    <3>12. PICK n : n = Len(undo)
      OBVIOUS
    <3>1. PICK H : IsLog(H, undo, n)
      BY <1>5, <3>12 DEF Logged
    <3>13. PICK K : K = [j \in 0 .. n + 1 |-> IF j = n + 1 THEN child'.edges ELSE H[j]]
      OBVIOUS
    <3>2. /\ n \in Nat /\ Len(undo') = n + 1 /\ undo'[n + 1] = c
          /\ \A j \in 1 .. n : undo'[j] = undo[j]
      BY <1>1, <1>2, <2>3, <3>12
    <3>3. /\ \A j \in 0 .. n : K[j] = H[j]
          /\ K[n + 1] = child'.edges
      BY <3>2, <3>13
    <3>. HIDE DEF c
    <3>4. K[0] = before'
      BY <1>2, <3>1, <3>2, <3>3 DEF IsLog
    <3>5. IsGraph(child)'
      BY <1>2, <2>1, ResultKeeps DEF GenomeInv, r, CallKinds
    <3>6. \A j \in 0 .. n + 1 : /\ K[j] \subseteq Nodes(child') \X Nodes(child')
                                /\ Acyclic(Nodes(child'), K[j])
      <4>. SUFFICES ASSUME NEW j \in 0 .. n + 1
                    PROVE  K[j] \subseteq Nodes(child') \X Nodes(child') /\ Acyclic(Nodes(child'), K[j])
        OBVIOUS
      <4>1. CASE j = n + 1
        BY <3>3, <3>5, <4>1 DEF IsGraph
      <4>2. CASE j \in 0 .. n
        BY <2>2, <3>1, <3>3, <4>2 DEF IsLog
      <4>. QED  BY <3>2, <4>1, <4>2
    <3>7. ASSUME NEW j \in 1 .. n + 1
          PROVE  LET e == <<undo'[j].from, undo'[j].to>> IN
                 \/ undo'[j].what = "AddEdge" /\ e \notin K[j - 1] /\ K[j] = K[j - 1] \cup {e}
                 \/ undo'[j].what = "RemoveEdge" /\ e \in K[j - 1] /\ K[j] = K[j - 1] \ {e}
      <4>1. CASE j = n + 1
        <5>1. K[j - 1] = child.edges /\ K[j] = child'.edges /\ undo'[j] = c
          BY <3>1, <3>2, <3>3, <4>1 DEF IsLog
        <5>. QED  BY <2>2, <2>3, <5>1
      <4>2. CASE j \in 1 .. n
        <5>1. K[j - 1] = H[j - 1] /\ K[j] = H[j] /\ undo'[j] = undo[j]
          BY <3>2, <3>3, <4>2
        <5>. QED  BY <3>1, <4>2, <5>1 DEF IsLog
      <4>. QED  BY <3>2, <4>1, <4>2
    <3>8. IsLog(K, undo, n + 1)'
      BY <3>2, <3>3, <3>4, <3>6, <3>7 DEF IsLog
    <3>9. Logged(undo, Len(undo))'
      BY <3>2, <3>8 DEF Logged
    <3>10. ~rolled' /\ agenda' \in Seq(X)
      BY <1>1, <1>2, <2>1, <2>3 DEF Running
    <3>11. Running(X)'
      BY <1>3, <1>5, <3>9, <3>10 DEF Running, EdgeCalls
    <3>. QED  BY <3>10, <3>11
  <2>4. CASE ~r.ok /\ c.onFail = "skip"
    <3>1. /\ child' = child /\ undo' = undo /\ agenda' \in Seq(X) /\ ~rolled'
      BY <1>1, <1>2, <2>1, <2>2, <2>4 DEF Running
    <3>2. Logged(undo, Len(undo))'
      BY <1>2, <1>5, <3>1 DEF Logged, IsLog
    <3>3. Running(X)'
      BY <1>3, <1>5, <3>1, <3>2 DEF Running, EdgeCalls
    <3>. QED  BY <3>1, <3>3
  <2>5. CASE ~r.ok /\ c.onFail = "rollback"
    <3>8. PICK n : n = Len(undo)
      OBVIOUS
    <3>9. PICK Y : Y = {reverted(undo[i]) : i \in 1 .. n}
      OBVIOUS
    <3>1. /\ child' = child /\ before' = before /\ rolled'
          /\ agenda' = [i \in 1 .. n |-> reverted(undo[n + 1 - i])] /\ n \in Nat
      <4>1. child' = child /\ before' = before /\ rolled'
        BY <1>2, <2>2, <2>5
      <4>2. agenda' = rollbackEdges(undo)
        BY <1>2, <2>5
      <4>3. n \in Nat
        BY <1>1, <3>8
      <4>. QED  BY <3>8, <4>1, <4>2, <4>3 DEF rollbackEdges
    <3>2. \A i \in 1 .. n : undo[i].what \in {"AddEdge", "RemoveEdge"}
      BY <1>1, <1>5, <3>8 DEF EdgeCalls
    <3>3. EdgeCalls(Y) /\ \A d \in Y : d.onFail = "skip"
      BY <3>2, <3>9, RevertedCall DEF EdgeCalls
    <3>6. undo' = undo
      BY <1>2, <2>5
    <3>4. Logged(undo, n)'
      <4>1. PICK H : IsLog(H, undo, n)
        BY <1>5, <3>8 DEF Logged
      <4>2. IsLog(H, undo, n)'
        BY <3>1, <3>6, <4>1 DEF IsLog
      <4>. QED  BY <4>2 DEF Logged
    <3>5. agenda' \in Seq(Y)
      <4>1. \A i \in 1 .. n : n + 1 - i \in 1 .. n
        BY <3>1
      <4>. QED  BY <3>1, <3>9, <4>1
    <3>7. RollingBack(Y)'
      BY <3>1, <3>3, <3>4, <3>6 DEF RollingBack, EdgeCalls
    <3>. QED  BY <3>3, <3>5, <3>7, EdgeCallsAreCalls
  <2>. QED  BY <2>1, <2>2, <2>3, <2>4, <2>5
<1>. QED  BY <1>4, <1>5 DEF Running

\* A step back: the call succeeds, whatever has become of the heap.
LEMMA RollbackStep ==
  ASSUME GenomeInv, NEW X, Calls(X), agenda \in Seq(X), RollingBack(X), Step
  PROVE  agenda' \in Seq(X) /\ RollingBack(X)'
<1>. DEFINE c == Head(agenda)
            r == Result(c)
<1>1. PICK ops, k : /\ agenda = [i \in 1 .. k |-> reverted(ops[k + 1 - i])]
                    /\ Logged(ops, k)
  BY DEF RollingBack
<1>2. PICK H : IsLog(H, ops, k)
  BY <1>1 DEF Logged
<1>3. k \in Nat /\ k # 0
  <2>1. k \in Nat
    BY <1>2 DEF IsLog
  <2>2. k = 0 => agenda = <<>>
    BY <1>1
  <2>. QED  BY <2>1, <2>2 DEF Step
<1>4. /\ c = reverted(ops[k]) /\ Tail(agenda) = [i \in 1 .. k - 1 |-> reverted(ops[k - i])]
      /\ c \in X /\ Tail(agenda) \in Seq(X)
  <2>1. c \in X /\ Tail(agenda) \in Seq(X) /\ c = agenda[1]
    BY DEF Step
  <2>2. Len(agenda) = k
    BY <1>1, <1>3
  <2>3. Tail(agenda) = [i \in 1 .. k - 1 |-> agenda[i + 1]]
    <3>1. agenda # <<>>
      BY DEF Step
    <3>2. Tail(agenda) \in Seq(X) /\ Len(Tail(agenda)) = k - 1
      BY <2>2, <3>1
    <3>3. \A i \in 1 .. k - 1 : Tail(agenda)[i] = agenda[i + 1]
      BY <2>2, <3>1
    <3>4. Tail(agenda) \in [1 .. k - 1 -> X]
      BY <3>2, LenProperties
    <3>. QED  BY <3>3, <3>4
  <2>4. \A i \in 1 .. k : agenda[i] = reverted(ops[k + 1 - i])
    BY <1>1
  <2>5. \A i \in 1 .. k - 1 : i + 1 \in 1 .. k /\ k + 1 - (i + 1) = k - i
    BY <1>3
  <2>6. 1 \in 1 .. k /\ k + 1 - 1 = k
    BY <1>3
  <2>. QED  BY <2>1, <2>3, <2>4, <2>5, <2>6
<1>. DEFINE e == <<ops[k].from, ops[k].to>>
<1>5. \/ ops[k].what = "AddEdge" /\ e \notin H[k - 1] /\ H[k] = H[k - 1] \cup {e}
      \/ ops[k].what = "RemoveEdge" /\ e \in H[k - 1] /\ H[k] = H[k - 1] \ {e}
  BY <1>2, <1>3 DEF IsLog
<1>6. /\ c.what = IF ops[k].what = "AddEdge" THEN "RemoveEdge" ELSE "AddEdge"
      /\ c.from = ops[k].from /\ c.to = ops[k].to
      /\ c.onFail = "skip" /\ c.then = <<>> /\ c.else = <<>>
  <2>1. ops[k].what \in {"AddEdge", "RemoveEdge"}
    BY <1>5
  <2>. QED  BY <1>4, <2>1, RevertedCall
<1>7. /\ child' = r.g /\ before' = before
      /\ r.ok => agenda' = c.then \o Tail(agenda)
      /\ rolled'
  BY DEF Step, RollingBack
<1>8. /\ IsGraph(child) /\ H[k] = child.edges /\ H[k - 1] \subseteq Nodes(child) \X Nodes(child)
      /\ Acyclic(Nodes(child), H[k - 1])
  BY <1>2, <1>3 DEF IsLog, GenomeInv
<1>. HIDE DEF c
<1>9. /\ r.ok /\ Nodes(child') = Nodes(child) /\ child'.edges = H[k - 1]
  <2>1. CASE ops[k].what = "AddEdge"
    <3>1. r = RemoveEdge(child, deps, c.from, c.to)
      BY <1>6, <2>1 DEF Result
    <3>2. <<c.from, c.to>> \in child.edges
      BY <1>5, <1>6, <1>8, <2>1
    <3>. HIDE DEF r
    <3>3. r.ok /\ Nodes(r.g) = Nodes(child) /\ r.g.edges = child.edges \ {<<c.from, c.to>>}
      BY <1>8, <3>1, <3>2, RemoveEdgeKeeps
    <3>4. child.edges \ {<<c.from, c.to>>} = H[k - 1]
      BY <1>5, <1>6, <1>8, <2>1
    <3>. QED  BY <1>7, <3>3, <3>4
  <2>2. CASE ops[k].what = "RemoveEdge"
    <3>1. r = AddEdge(child, deps, c.from, c.to)
      BY <1>6, <2>2 DEF Result
    <3>2. /\ <<c.from, c.to>> \notin child.edges
          /\ child.edges \cup {<<c.from, c.to>>} = H[k - 1]
          /\ c.from \in Nodes(child) /\ c.to \in Nodes(child)
      BY <1>5, <1>6, <1>8, <2>2
    <3>3. ~Reaches(Nodes(child), child.edges, c.to, c.from)
      <4>1. child.edges \in SUBSET (Nodes(child) \X Nodes(child))
        BY <1>8 DEF IsGraph
      <4>2. Acyclic(Nodes(child), child.edges \cup {<<c.from, c.to>>})
        BY <1>8, <3>2
      <4>. QED  BY <3>2, <4>1, <4>2, EdgeOfAcyclic
    <3>4. ~wouldCreateCycle(child, c.from, c.to)
      BY <3>3 DEF wouldCreateCycle
    <3>. HIDE DEF r
    <3>5. r.ok /\ Nodes(r.g) = Nodes(child) /\ r.g.edges = child.edges \cup {<<c.from, c.to>>}
      BY <1>8, <3>1, <3>2, <3>4, AddEdgeKeeps
    <3>. QED  BY <1>7, <3>2, <3>5
  <2>. QED  BY <1>5, <2>1, <2>2
<1>10. agenda' = [i \in 1 .. k - 1 |-> reverted(ops[(k - 1) + 1 - i])] /\ agenda' \in Seq(X)
  <2>1. agenda' = Tail(agenda)
    BY <1>4, <1>6, <1>7, <1>9
  <2>2. \A i \in 1 .. k - 1 : (k - 1) + 1 - i = k - i
    BY <1>3
  <2>. QED  BY <1>4, <2>1, <2>2
<1>11. IsLog(H, ops, k - 1)'
  <2>1. /\ k - 1 \in Nat /\ \A j \in 0 .. k - 1 : j \in 0 .. k
        /\ \A j \in 1 .. k - 1 : j \in 1 .. k
    BY <1>3
  <2>. QED  BY <1>2, <1>7, <1>9, <2>1 DEF IsLog
<1>12. RollingBack(X)'
  BY <1>7, <1>10, <1>11 DEF RollingBack, Logged, EdgeCalls
<1>. QED  BY <1>10, <1>12

\* Every step keeps the invariant.
LEMMA StepKeeps == ASSUME GenomeInv, Step PROVE GenomeInv'
<1>. DEFINE c == Head(agenda)
<1>1. PICK X : Calls(X) /\ agenda \in Seq(X) /\ (Running(X) \/ RollingBack(X))
  BY DEF GenomeInv
<1>2. c.what \in CallKinds
  <2>1. c \in X
    BY <1>1 DEF Step
  <2>. QED  BY <1>1, <2>1 DEF Calls
<1>3. child' = Result(c).g /\ deps' = Result(c).deps /\ live' = live
  BY DEF Step
<1>. HIDE DEF c
<1>4. IsGraph(child') /\ HeapOK(deps')
  BY <1>2, <1>3, ResultKeeps DEF GenomeInv
<1>5. IsGraph(live') /\ IsFiniteSet(Nodes(live')) /\ HeapOK(deps)'
  BY <1>3, <1>4 DEF GenomeInv, HeapOK
<1>6. \E Y : Calls(Y) /\ agenda' \in Seq(Y) /\ (Running(Y) \/ RollingBack(Y))'
  BY <1>1, RunningStep, RollbackStep
<1>7. PICK Y : Calls(Y) /\ agenda' \in Seq(Y) /\ (Running(Y) \/ RollingBack(Y))'
  BY <1>6
<1>8. Calls(Y)'
  BY <1>7 DEF Calls
<1>. QED  BY <1>4, <1>5, <1>7, <1>8 DEF GenomeInv

(* Programs that are not rolled back.                                      *)

GentleProgram(s) == \E X : Calls(X) /\ Gentle(X) /\ s \in Seq(X)

LEMMA GentleEmpty == GentleProgram(<<>>)
<1>1. Calls({}) /\ Gentle({}) /\ <<>> \in Seq({})
  BY DEF Calls, Gentle
<1>. QED  BY <1>1 DEF GentleProgram

\* A sequence over some of the calls is one over all of them.
LEMMA SeqGrows == ASSUME NEW X, NEW Y, X \subseteq Y, NEW s \in Seq(X) PROVE s \in Seq(Y)
OBVIOUS

LEMMA GentleOne ==
  ASSUME NEW what \in CallKinds, NEW from, NEW to, NEW onFail \in {"skip", "stop"},
         NEW then, GentleProgram(then), NEW else, GentleProgram(else)
  PROVE  GentleProgram(<<Call(what, from, to, then, else, onFail)>>)
<1>. DEFINE c == Call(what, from, to, then, else, onFail)
<1>1. PICK X : Calls(X) /\ Gentle(X) /\ then \in Seq(X)
  BY DEF GentleProgram
<1>2. PICK Y : Calls(Y) /\ Gentle(Y) /\ else \in Seq(Y)
  BY DEF GentleProgram
<1>3. c.what = what /\ c.then = then /\ c.else = else /\ c.onFail = onFail
  BY DEF Call
<1>. HIDE DEF c
<1>. DEFINE Z == X \cup Y \cup {c}
<1>4. X \subseteq Z /\ Y \subseteq Z /\ c \in Z
  OBVIOUS
<1>5. ASSUME NEW d \in Z PROVE /\ d.what \in CallKinds /\ d.then \in Seq(Z) /\ d.else \in Seq(Z)
                               /\ d.onFail \in {"skip", "stop"}
  <2>1. CASE d = c
    <3>. HIDE DEF Z
    <3>1. then \in Seq(Z) /\ else \in Seq(Z)
      BY <1>1, <1>2, <1>4, SeqGrows
    <3>. QED  BY <1>3, <2>1, <3>1
  <2>2. CASE d \in X
    <3>. HIDE DEF Z
    <3>. QED  BY <1>1, <1>4, <2>2, SeqGrows DEF Calls, Gentle
  <2>3. CASE d \in Y
    <3>. HIDE DEF Z
    <3>. QED  BY <1>2, <1>4, <2>3, SeqGrows DEF Calls, Gentle
  <2>. QED  BY <2>1, <2>2, <2>3
<1>6. <<c>> \in Seq(Z)
  BY <1>4
<1>. HIDE DEF Z
<1>7. GentleProgram(<<c>>)
  BY <1>5, <1>6 DEF GentleProgram, Calls, Gentle
<1>. QED  BY <1>7 DEF c

LEMMA GentleMany ==
  ASSUME NEW n \in Nat, NEW f, f = [i \in 1 .. n |-> f[i]],
         \A i \in 1 .. n : GentleProgram(<<f[i]>>)
  PROVE  GentleProgram(f)
<1>. DEFINE Of(i) == CHOOSE X : Calls(X) /\ Gentle(X) /\ <<f[i]>> \in Seq(X)
            Z == UNION {Of(i) : i \in 1 .. n}
<1>1. \A i \in 1 .. n : Calls(Of(i)) /\ Gentle(Of(i)) /\ <<f[i]>> \in Seq(Of(i)) /\ Of(i) \subseteq Z
  BY DEF GentleProgram
<1>. HIDE DEF Of
<1>2. ASSUME NEW d \in Z PROVE /\ d.what \in CallKinds /\ d.then \in Seq(Z) /\ d.else \in Seq(Z)
                               /\ d.onFail \in {"skip", "stop"}
  <2>1. PICK i \in 1 .. n : d \in Of(i)
    OBVIOUS
  <2>. HIDE DEF Z
  <2>. QED  BY <1>1, <2>1, SeqGrows DEF Calls, Gentle
<1>3. \A i \in 1 .. n : f[i] \in Z
  <2>1. ASSUME NEW i \in 1 .. n PROVE f[i] \in Of(i)
    <3>1. <<f[i]>> \in Seq(Of(i)) /\ Len(<<f[i]>>) = 1 /\ <<f[i]>>[1] = f[i]
      BY <1>1
    <3>. QED  BY <3>1
  <2>. QED  BY <1>1, <2>1
<1>. HIDE DEF Z
<1>4. f \in Seq(Z)
  BY <1>3
<1>. QED  BY <1>2, <1>4 DEF GentleProgram, Calls, Gentle

\* A new Step is on the heap with what it wants; the live ones keep theirs.
LEMMA GentleBegins ==
  ASSUME GenomeInv, NEW g, IsGraph(g), NEW program, GentleProgram(program),
         Begins(g, program, Shared)
  PROVE  GenomeInv'
<1>1. HeapOK(Shared)
  BY DEF GenomeInv, HeapOK, Shared, Range, Nodes
<1>. QED  BY <1>1, MutationBegins DEF GentleProgram

LEMMA StepBegins ==
  ASSUME GenomeInv, NEW g, IsGraph(g), NEW what \in CallKinds, NEW id,
         NEW want, IsFiniteSet(want), NEW rest, GentleProgram(rest),
         BeginsWithStep(g, what, id, want, rest)
  PROVE  GenomeInv'
<1>. DEFINE heap == [s \in DOMAIN Shared \cup {Own(id)} |-> IF s = Own(id) THEN want ELSE deps[s]]
            program == <<Call(what, id, id, rest, <<>>, "stop")>>
<1>1. HeapOK(heap)
  BY DEF GenomeInv, HeapOK, Shared, Range, Nodes
<1>2. GentleProgram(program)
  BY GentleEmpty, GentleOne
<1>3. Begins(g, program, heap)
  BY DEF BeginsWithStep
<1>. HIDE DEF heap, program
<1>. QED  BY <1>1, <1>2, <1>3, MutationBegins DEF GentleProgram

\* The edge calls of a swap.
SwapCalls(X) == \A c \in X : \E from, to :
  \/ c = Cut(from, to, "skip")
  \/ c = Add(from, to, "rollback")

\* A swap is a program of edge calls, which may be rolled back.
LEMMA SwapBegins ==
  ASSUME GenomeInv, NEW g, IsGraph(g), NEW program, NEW X, SwapCalls(X), program \in Seq(X),
         Begins(g, program, Shared)
  PROVE  GenomeInv'
<1>1. HeapOK(Shared)
  BY DEF GenomeInv, HeapOK, Shared, Range, Nodes
<1>2. EdgeCalls(X)
  BY DEF SwapCalls, EdgeCalls, Cut, Add, Call
<1>. QED  BY <1>1, <1>2, MutationBegins, EdgeCallsAreCalls

\* Whatever operator is chosen.
LEMMA MutateKeeps == ASSUME GenomeInv, Mutate PROVE GenomeInv'
<1>1. PICK g : g = clone
  OBVIOUS
<1>2. IsGraph(g) /\ Nodes(g) \subseteq Nodes(live) /\ \A n \in Nodes(g) : g.step[n] = live.step[n]
  BY <1>1, CloneIsGraph DEF GenomeInv
<1>3. /\ \A n \in Nodes(g) : IsFiniteSet(DepsOf(g, n))
      /\ IsFiniteSet(Nodes(g))
  BY <1>2, FS_Subset DEF GenomeInv, HeapOK, DepsOf
<1>4. \A x : IsFiniteSet({x})
  BY FS_Singleton
<1>5. \A S : IsFiniteSet(S) => Cardinality(S) \in Nat
  BY FS_CardinalityType
<1>6. ASSUME mutateInsertNode(g) PROVE GenomeInv'
  BY <1>2, <1>4, <1>6, GentleEmpty, StepBegins DEF mutateInsertNode, CallKinds
<1>7. ASSUME mutateRemoveNode(g) PROVE GenomeInv'
  <2>1. PICK n : Begins(g, <<Drop(n)>>, Shared)
    BY <1>7 DEF mutateRemoveNode
  <2>2. GentleProgram(<<Drop(n)>>)
    BY GentleEmpty, GentleOne DEF Drop, CallKinds
  <2>. QED  BY <1>2, <2>1, <2>2, GentleBegins
<1>8. ASSUME mutateReplaceNode(g) PROVE GenomeInv'
  BY <1>2, <1>3, <1>8, GentleEmpty, StepBegins DEF mutateReplaceNode, CallKinds
<1>9. ASSUME mutateParallelize(g) PROVE GenomeInv'
  <2>1. PICK a, b, c : LET b2 == <<b, "parallel">> IN
          BeginsWithStep(g, "AddNode", b2, {a},
                         <<Call("AddEdge", b2, c, <<>>, <<Drop(b2)>>, "stop")>>)
    BY <1>9 DEF mutateParallelize
  <2>. DEFINE b2 == <<b, "parallel">>
  <2>2. GentleProgram(<<Drop(b2)>>)
    BY GentleEmpty, GentleOne DEF Drop, CallKinds
  <2>. HIDE DEF b2
  <2>3. GentleProgram(<<Call("AddEdge", b2, c, <<>>, <<Drop(b2)>>, "stop")>>)
    BY <2>2, GentleEmpty, GentleOne DEF CallKinds
  <2>4. BeginsWithStep(g, "AddNode", b2, {a}, <<Call("AddEdge", b2, c, <<>>, <<Drop(b2)>>, "stop")>>)
    BY <2>1 DEF b2
  <2>. QED  BY <1>2, <1>4, <2>3, <2>4, StepBegins DEF CallKinds
<1>10. ASSUME mutateSerialize(g) PROVE GenomeInv'
  <2>1. PICK n \in Nodes(g) : \E first \in DepsOf(g, n) :
          Begins(g, Each(DepsOf(g, n) \ {first}, LAMBDA d : Cut(d, n, "stop")), Shared)
    BY <1>10 DEF mutateSerialize
  <2>2. PICK S : /\ IsFiniteSet(S)
                 /\ Begins(g, Each(S, LAMBDA d : Cut(d, n, "stop")), Shared)
    BY <1>3, <2>1, FS_Subset
  <2>. DEFINE f == [i \in 1 .. Cardinality(S) |-> Cut(SetToSeq(S)[i], n, "stop")]
  <2>3. Begins(g, f, Shared)
    BY <2>2 DEF Each
  <2>4. \A d : GentleProgram(<<Cut(d, n, "stop")>>)
    BY GentleEmpty, GentleOne DEF Cut, CallKinds
  <2>5. /\ f = [i \in 1 .. Cardinality(S) |-> f[i]]
        /\ \A i \in 1 .. Cardinality(S) : GentleProgram(<<f[i]>>)
    BY <2>4
  <2>. HIDE DEF f
  <2>6. GentleProgram(f)
    BY <1>5, <2>2, <2>5, GentleMany
  <2>. QED  BY <1>2, <2>3, <2>6, GentleBegins
<1>11. ASSUME mutateSwapNodes(g) PROVE GenomeInv'
  <2>1. PICK i \in Nodes(g), j \in Nodes(g) :
          Begins(g, Each(DepsOf(g, i), LAMBDA d : Cut(d, i, "skip"))
              \o Each(DepsOf(g, j), LAMBDA d : Cut(d, j, "skip"))
              \o Each(DepsOf(g, j), LAMBDA d : Add(d, i, "rollback"))
              \o Each(DepsOf(g, i), LAMBDA d : Add(d, j, "rollback")), Shared)
    BY <1>11 DEF mutateSwapNodes
  <2>2. PICK S, T, p, q, m, n :
          /\ S = DepsOf(g, i) /\ T = DepsOf(g, j) /\ p = SetToSeq(S) /\ q = SetToSeq(T)
          /\ m = Cardinality(S) /\ n = Cardinality(T)
    OBVIOUS
  <2>. DEFINE X == {Cut(p[k], i, "skip") : k \in 1 .. m} \cup {Cut(q[k], j, "skip") : k \in 1 .. n}
                   \cup {Add(q[k], i, "rollback") : k \in 1 .. n} \cup {Add(p[k], j, "rollback") : k \in 1 .. m}
              a == [k \in 1 .. m |-> Cut(p[k], i, "skip")]
              b == [k \in 1 .. n |-> Cut(q[k], j, "skip")]
              c == [k \in 1 .. n |-> Add(q[k], i, "rollback")]
              d == [k \in 1 .. m |-> Add(p[k], j, "rollback")]
  <2>3. m \in Nat /\ n \in Nat
    BY <1>3, <1>5, <2>2
  <2>4. SwapCalls(X)
    BY DEF SwapCalls
  <2>5. a \in Seq(X) /\ b \in Seq(X) /\ c \in Seq(X) /\ d \in Seq(X)
    BY <2>3
  <2>6. Begins(g, a \o b \o c \o d, Shared)
    BY <2>1, <2>2 DEF Each
  <2>. HIDE DEF X, a, b, c, d
  <2>7. a \o b \o c \o d \in Seq(X)
    BY <2>5
  <2>. QED  BY <1>2, <2>4, <2>6, <2>7, SwapBegins
<1>12. ASSUME mutateSplitNode(g) PROVE GenomeInv'
  <2>1. PICK t \in Nodes(g) :
          LET split == <<t, "split">>
              Reroute(n) == Call("RemoveEdge", t, n,
                              <<Call("AddEdge", split, n, <<>>, <<Add(t, n, "skip")>>, "skip")>>,
                              <<>>, "skip")
              users == {n \in Nodes(g) : t \in DepsOf(g, n)}
          IN BeginsWithStep(g, "AddNode", split, {t}, Each(users, Reroute))
    BY <1>12 DEF mutateSplitNode
  <2>. DEFINE split == <<t, "split">>
              users == {n \in Nodes(g) : t \in DepsOf(g, n)}
              Reroute(n) == Call("RemoveEdge", t, n,
                              <<Call("AddEdge", split, n, <<>>, <<Add(t, n, "skip")>>, "skip")>>,
                              <<>>, "skip")
              f == [i \in 1 .. Cardinality(users) |-> Reroute(SetToSeq(users)[i])]
  <2>2. BeginsWithStep(g, "AddNode", split, {t}, f)
    BY <2>1 DEF Each
  <2>3. Cardinality(users) \in Nat
    BY <1>3, <1>5, FS_Subset
  <2>. HIDE DEF split, users
  <2>4. \A n : GentleProgram(<<Add(t, n, "skip")>>)
    BY GentleEmpty, GentleOne DEF Add, CallKinds
  <2>5. \A n : GentleProgram(<<Call("AddEdge", split, n, <<>>, <<Add(t, n, "skip")>>, "skip")>>)
    BY <2>4, GentleEmpty, GentleOne DEF CallKinds
  <2>6. \A n : GentleProgram(<<Reroute(n)>>)
    BY <2>5, GentleEmpty, GentleOne DEF CallKinds
  <2>. HIDE DEF Reroute
  <2>7. /\ f = [i \in 1 .. Cardinality(users) |-> f[i]]
        /\ \A i \in 1 .. Cardinality(users) : GentleProgram(<<f[i]>>)
    BY <2>6
  <2>. HIDE DEF f
  <2>8. GentleProgram(f)
    BY <2>3, <2>7, GentleMany
  <2>. QED  BY <1>2, <1>4, <2>2, <2>8, StepBegins DEF CallKinds
<1>13. ASSUME mutateMergeNodes(g) PROVE GenomeInv'
  <2>1. PICK i \in Nodes(g), j \in Nodes(g) :
          LET merged == (DepsOf(g, i) \cup DepsOf(g, j)) \ {i, j}
              more == Each(merged \ DepsOf(g, i), LAMBDA d : Add(d, i, "skip"))
          IN Begins(g, <<Call("RemoveNode", j, j, more, <<>>, "stop")>>, Shared)
    BY <1>13 DEF mutateMergeNodes
  <2>. DEFINE S == ((DepsOf(g, i) \cup DepsOf(g, j)) \ {i, j}) \ DepsOf(g, i)
              f == [k \in 1 .. Cardinality(S) |-> Add(SetToSeq(S)[k], i, "skip")]
  <2>2. Begins(g, <<Call("RemoveNode", j, j, f, <<>>, "stop")>>, Shared)
    BY <2>1 DEF Each
  <2>3. Cardinality(S) \in Nat
    <3>1. S \subseteq DepsOf(g, j)
      OBVIOUS
    <3>. QED  BY <1>3, <1>5, <3>1, FS_Subset
  <2>. HIDE DEF S
  <2>4. \A d : GentleProgram(<<Add(d, i, "skip")>>)
    BY GentleEmpty, GentleOne DEF Add, CallKinds
  <2>5. /\ f = [k \in 1 .. Cardinality(S) |-> f[k]]
        /\ \A k \in 1 .. Cardinality(S) : GentleProgram(<<f[k]>>)
    BY <2>4
  <2>. HIDE DEF f
  <2>6. GentleProgram(f)
    BY <2>3, <2>5, GentleMany
  <2>7. GentleProgram(<<Call("RemoveNode", j, j, f, <<>>, "stop")>>)
    BY <2>6, GentleEmpty, GentleOne DEF CallKinds
  <2>. QED  BY <1>2, <2>2, <2>7, GentleBegins
<1>. QED
  BY <1>1, <1>6, <1>7, <1>8, <1>9, <1>10, <1>11, <1>12, <1>13 DEF Mutate

\* The live graph has the edges it was given.
LEMMA GenomeStarts == GenomeInit => GenomeInv
<1>. SUFFICES ASSUME NEW E \in SUBSET (Base \X Base), Acyclic(Base, E), GenomeStart(E)
              PROVE  GenomeInv
  BY DEF GenomeInit
<1>1. PICK steps : steps = [n \in Base |-> n]
  OBVIOUS
<1>2. /\ live.step = steps /\ Nodes(live) = Base
      /\ live = Graph(live.step, live.edges, live.in, live.version)
      /\ live.edges = {e \in Base \X Base : e[1] \in deps[steps[e[2]]]}
  BY <1>1, NewGraph DEF GenomeStart
<1>3. live.edges = E
  <2>1. \A e \in Base \X Base : e[1] \in deps[steps[e[2]]] <=> e \in E
    BY <1>1 DEF GenomeStart, Into
  <2>. QED  BY <1>2, <2>1
<1>4. IsGraph(live)
  BY <1>2, <1>3 DEF IsGraph
<1>5. HeapOK(deps)
  <2>1. \A n \in Base : deps[n] \subseteq Base
    BY DEF GenomeStart, Into
  <2>2. \A n \in Base : IsFiniteSet(deps[n])
    BY <2>1, FS_Subset, GenomeAssumption
  <2>3. deps = [n \in Base |-> deps[n]] /\ DOMAIN deps = Base
    BY DEF GenomeStart
  <2>4. \A n \in Base : live.step[n] = n
    BY <1>1, <1>2
  <2>. QED  BY <1>2, <2>2, <2>3, <2>4 DEF HeapOK
<1>6. IsGraph(child)
  <2>1. DOMAIN <<>> = {}
    OBVIOUS
  <2>2. /\ child = Graph(child.step, child.edges, child.in, child.version)
        /\ Nodes(child) = {} /\ child.edges = {}
    BY <2>1 DEF GenomeStart, NoGraph, Graph, Nodes
  <2>. QED  BY <2>2 DEF IsGraph, Acyclic
<1>7. Calls({}) /\ Gentle({}) /\ <<>> \in Seq({})
  BY DEF Calls, Gentle
<1>8. Running({}) /\ agenda \in Seq({})
  BY <1>7 DEF GenomeStart, Running
<1>. QED
  BY <1>2, <1>4, <1>5, <1>6, <1>7, <1>8, GenomeAssumption DEF GenomeInv

LEMMA GenomeKeeps == GenomeInv /\ [GenomeNext]_genome => GenomeInv'
<1>1. ASSUME GenomeInv, UNCHANGED genome PROVE GenomeInv'
  <2>1. UNCHANGED <<live, child, deps, agenda, undo, before, rolled>>
    BY <1>1 DEF genome
  <2>2. /\ IsGraph(live)' /\ IsGraph(child)' /\ HeapOK(deps)' /\ IsFiniteSet(Nodes(live))'
    BY <1>1, <2>1 DEF GenomeInv, IsGraph, HeapOK
  <2>3. PICK X : Calls(X) /\ agenda \in Seq(X) /\ (Running(X) \/ RollingBack(X))
    BY <1>1 DEF GenomeInv
  <2>5. \A ops, k : Logged(ops, k) => Logged(ops, k)'
    <3>. SUFFICES ASSUME NEW ops, NEW k, NEW H, IsLog(H, ops, k) PROVE IsLog(H, ops, k)'
      BY DEF Logged
    <3>. QED  BY <2>1 DEF IsLog
  <2>6. Running(X) => Running(X)'
    BY <2>1, <2>5 DEF Running, Gentle, EdgeCalls
  <2>7. RollingBack(X) => RollingBack(X)'
    BY <2>1, <2>5 DEF RollingBack, EdgeCalls
  <2>4. Calls(X)' /\ agenda' \in Seq(X) /\ (Running(X) \/ RollingBack(X))'
    BY <2>1, <2>3, <2>6, <2>7 DEF Calls
  <2>. QED  BY <2>2, <2>4 DEF GenomeInv
<1>. QED  BY <1>1, StepKeeps, MutateKeeps DEF GenomeNext

\* No mutation closes a cycle, neither in the genome's own graph nor in one it
\* hands out: wouldCreateCycle asks whether the end of the new edge reaches
\* its start (mutable_dag.go:516).  For any step ids and any mutations.
THEOREM GenomeIsAcyclic == GenomeSpec => []GraphsAreAcyclic
<1>1. GenomeInv => GraphsAreAcyclic
  BY DEF GenomeInv, IsGraph, GraphsAreAcyclic
<1>. QED  BY GenomeStarts, GenomeKeeps, <1>1, PTL DEF GenomeSpec

\* A swap that fails half-way puts back exactly the edges it had taken out,
\* whatever else was asked of the genome before (workflow_genome.go:341).
THEOREM SwapIsUndone == GenomeSpec => []RollbackRestoresEdges
<1>1. GenomeInv => RollbackRestoresEdges
  <2>. SUFFICES ASSUME GenomeInv, rolled, agenda = <<>> PROVE child.edges = before
    BY DEF RollbackRestoresEdges
  <2>1. PICK X : RollingBack(X)
    BY DEF GenomeInv, Running
  <2>2. PICK ops, k : agenda = [i \in 1 .. k |-> reverted(ops[k + 1 - i])] /\ Logged(ops, k)
    BY <2>1 DEF RollingBack
  <2>3. PICK H : IsLog(H, ops, k)
    BY <2>2 DEF Logged
  <2>4. k = 0
    <3>1. k \in Nat
      BY <2>3 DEF IsLog
    <3>2. DOMAIN agenda = 1 .. k /\ DOMAIN agenda = {}
      BY <2>2
    <3>. QED  BY <3>1, <3>2
  <2>. QED  BY <2>3, <2>4 DEF IsLog
<1>. QED  BY GenomeStarts, GenomeKeeps, <1>1, PTL DEF GenomeSpec

-----------------------------------------------------------------------------
(* Recovery policies and their rollback patches.                           *)

FieldValues == PatchValues \cup {Zero}
Policies == [PolicyFields -> FieldValues] \cup {NoRecoveryPolicy}

\* A field of a policy; of no policy it reads as zero.
FieldOf(p, f) == IF p = NoRecoveryPolicy THEN Zero ELSE p[f]

\* Two policies that differ in field f alone, one of which may be missing.
Near(p, q, f) == \A g \in PolicyFields \ {f} : FieldOf(p, g) = FieldOf(q, g)

SnapshotRecord ==
  UNION {[field : PolicyFields, had : [ids -> BOOLEAN], value : [ids -> FieldValues]] :
           ids \in SUBSET PatchSteps}

PatchRecord == [snap : SnapshotRecord, before : [PatchSteps -> Policies]]

\* The snapshot of e says of step s what its policy was, and the patch led from
\* there to what after says, one field further.
Patched(e, after, s) ==
  /\ e.snap.had[s] <=> e.before[s] # NoRecoveryPolicy
  /\ e.snap.value[s] = FieldOf(e.before[s], e.snap.field)
  /\ Near(e.before[s], after[s], e.snap.field)

\* A step that came after the patch was left alone by it.
Linked(e, after, s) ==
  IF s \in DOMAIN e.snap.had THEN Patched(e, after, s) ELSE after[s] = e.before[s]

\* The patches of a stack lead, of the steps in ids, from one's snapshot to the
\* next one's and in the end to after.
AfterPatch(stack, k, after) == IF k = Len(stack) THEN after ELSE stack[k + 1].before

LeadsTo(stack, after, ids) ==
  \A k \in 1 .. Len(stack) : \A s \in ids : Linked(stack[k], AfterPatch(stack, k, after), s)

\* No patch of the stack knows of a step that is still to come.
Unaware(stack) ==
  \A k \in 1 .. Len(stack) : DOMAIN stack[k].snap.had \cap newSteps = {}

\* The steps that are there or may come.
LiveSteps == dagSteps \cup newSteps

PatcherInv ==
  /\ LiveSteps \subseteq PatchSteps /\ dagSteps \cap newSteps = {}
  /\ recovery \in [PatchSteps -> Policies]
  /\ undoPatches \in Seq(PatchRecord) /\ redoPatches \in Seq(PatchRecord)
  /\ LeadsTo(undoPatches, recovery, LiveSteps) /\ LeadsTo(redoPatches, recovery, LiveSteps)
  /\ Unaware(undoPatches) /\ Unaware(redoPatches)
  /\ \A s \in LiveSteps : recovery[s] = wanted[s]

LEMMA PoliciesDiffer ==
  /\ NoRecoveryPolicy \notin [PolicyFields -> FieldValues]
  /\ EmptyRecoveryPolicy \in [PolicyFields -> FieldValues]
<1>1. ASSUME NoRecoveryPolicy \in [PolicyFields -> FieldValues] PROVE FALSE
  <2>1. DOMAIN NoRecoveryPolicy = {} /\ DOMAIN NoRecoveryPolicy = PolicyFields
    BY <1>1 DEF NoRecoveryPolicy
  <2>2. "Strategy" \in PolicyFields
    BY DEF PolicyFields
  <2>. QED  BY <2>1, <2>2
<1>. QED  BY <1>1 DEF EmptyRecoveryPolicy, FieldValues

\* Writing a field makes a policy that differs in that field alone.
LEMMA FieldWritten ==
  ASSUME NEW p \in Policies, NEW f \in PolicyFields, NEW v \in FieldValues
  PROVE  /\ WithField(p, f, v) \in [PolicyFields -> FieldValues]
         /\ WithField(p, f, v) \in Policies /\ WithField(p, f, v) # NoRecoveryPolicy
         /\ WithField(p, f, v)[f] = v
         /\ \A g \in PolicyFields \ {f} : WithField(p, f, v)[g] = FieldOf(p, g)
<1>1. PICK q : q = IF p = NoRecoveryPolicy THEN EmptyRecoveryPolicy ELSE p
  OBVIOUS
<1>2. q \in [PolicyFields -> FieldValues]
  BY <1>1, PoliciesDiffer DEF Policies
<1>3. WithField(p, f, v) = [q EXCEPT ![f] = v]
  BY <1>1 DEF WithField
<1>4. \A g \in PolicyFields : q[g] = FieldOf(p, g)
  BY <1>1 DEF FieldOf, EmptyRecoveryPolicy
<1>. QED  BY <1>2, <1>3, <1>4, PoliciesDiffer DEF Policies

\* A snapshot restores the policy it was taken of.
LEMMA PolicyRestored ==
  ASSUME NEW p \in Policies, NEW q \in Policies, NEW f \in PolicyFields, Near(p, q, f)
  PROVE  p = IF p # NoRecoveryPolicy THEN WithField(q, f, FieldOf(p, f)) ELSE NoRecoveryPolicy
<1>1. CASE p # NoRecoveryPolicy
  <2>1. p \in [PolicyFields -> FieldValues] /\ FieldOf(p, f) = p[f] /\ p[f] \in FieldValues
    BY <1>1 DEF Policies, FieldOf
  <2>2. \A g \in PolicyFields \ {f} : p[g] = FieldOf(q, g)
    BY <1>1 DEF Near, FieldOf
  <2>3. PICK r : r = WithField(q, f, p[f])
    OBVIOUS
  <2>4. /\ r \in [PolicyFields -> FieldValues] /\ r[f] = p[f]
        /\ \A g \in PolicyFields \ {f} : r[g] = FieldOf(q, g)
    BY <2>1, <2>3, FieldWritten
  <2>5. p = r
    BY <2>1, <2>2, <2>4
  <2>. QED  BY <1>1, <2>1, <2>3, <2>5
<1>2. CASE p = NoRecoveryPolicy
  BY <1>2
<1>. QED  BY <1>1, <1>2

\* A snapshot of the steps in ids is one, and says of them what there is.
LEMMA SnapshotTaken ==
  ASSUME NEW f \in PolicyFields, NEW ids \in SUBSET PatchSteps,
         recovery \in [PatchSteps -> Policies]
  PROVE  /\ PolicySnapshot(f, ids) \in SnapshotRecord
         /\ [snap |-> PolicySnapshot(f, ids), before |-> recovery] \in PatchRecord
         /\ PolicySnapshot(f, ids).field = f
         /\ DOMAIN PolicySnapshot(f, ids).had = ids
         /\ \A s \in ids : /\ PolicySnapshot(f, ids).had[s] <=> recovery[s] # NoRecoveryPolicy
                           /\ PolicySnapshot(f, ids).value[s] = FieldOf(recovery[s], f)
<1>1. PICK h : h = [s \in ids |-> recovery[s] # NoRecoveryPolicy]
  OBVIOUS
<1>2. PICK v : v = [s \in ids |-> IF recovery[s] = NoRecoveryPolicy THEN Zero ELSE recovery[s][f]]
  OBVIOUS
<1>3. PolicySnapshot(f, ids) = [field |-> f, had |-> h, value |-> v]
  BY <1>1, <1>2 DEF PolicySnapshot
<1>4. h \in [ids -> BOOLEAN]
  BY <1>1
<1>5. v \in [ids -> FieldValues]
  BY <1>2 DEF Policies, FieldValues
<1>6. [field |-> f, had |-> h, value |-> v] \in
        [field : PolicyFields, had : [ids -> BOOLEAN], value : [ids -> FieldValues]]
  BY <1>4, <1>5
<1>8. PolicySnapshot(f, ids) \in SnapshotRecord
  BY <1>3, <1>6 DEF SnapshotRecord
<1>9. DOMAIN h = ids /\ \A s \in ids : h[s] <=> recovery[s] # NoRecoveryPolicy
  BY <1>1
<1>10. \A s \in ids : v[s] = FieldOf(recovery[s], f)
  BY <1>2 DEF FieldOf
<1>. QED  BY <1>3, <1>8, <1>9, <1>10 DEF PatchRecord

\* What a patch says of its snapshot.
LEMMA PatchParts ==
  ASSUME NEW e \in PatchRecord
  PROVE  /\ e.snap.field \in PolicyFields /\ e.before \in [PatchSteps -> Policies]
         /\ DOMAIN e.snap.had \in SUBSET PatchSteps
         /\ \A s \in DOMAIN e.snap.had :
              e.snap.had[s] \in BOOLEAN /\ e.snap.value[s] \in FieldValues
<1>1. e.snap \in SnapshotRecord /\ e.before \in [PatchSteps -> Policies]
  BY DEF PatchRecord
<1>2. PICK ids \in SUBSET PatchSteps :
        e.snap \in [field : PolicyFields, had : [ids -> BOOLEAN], value : [ids -> FieldValues]]
  BY <1>1 DEF SnapshotRecord
<1>. QED  BY <1>1, <1>2

\* A restoration gives policies, and to a step whose last patch it undoes the
\* one from before that patch.
LEMMA StepsRestored ==
  ASSUME NEW e \in PatchRecord, recovery \in [PatchSteps -> Policies]
  PROVE  /\ Restored(e.snap) \in [PatchSteps -> Policies]
         /\ \A s \in PatchSteps :
              Linked(e, recovery, s) /\ (s \in DOMAIN e.snap.had => s \in dagSteps)
                => Restored(e.snap)[s] = e.before[s]
<1>1. ASSUME NEW s \in PatchSteps PROVE Restored(e.snap)[s] \in Policies
  <2>1. CASE s \notin dagSteps \cap DOMAIN e.snap.had
    <3>1. Restored(e.snap)[s] = recovery[s]
      BY <1>1, <2>1 DEF Restored
    <3>. QED  BY <1>1, <3>1
  <2>2. CASE s \in dagSteps \cap DOMAIN e.snap.had
    <3>1. Restored(e.snap)[s] = IF e.snap.had[s]
            THEN WithField(recovery[s], e.snap.field, e.snap.value[s]) ELSE NoRecoveryPolicy
      BY <1>1, <2>2 DEF Restored
    <3>2. recovery[s] \in Policies /\ e.snap.field \in PolicyFields /\ e.snap.value[s] \in FieldValues
      BY <1>1, <2>2, PatchParts
    <3>3. WithField(recovery[s], e.snap.field, e.snap.value[s]) \in Policies
      BY <3>2, FieldWritten
    <3>. QED  BY <3>1, <3>3 DEF Policies
  <2>. QED  BY <2>1, <2>2
<1>2. Restored(e.snap) \in [PatchSteps -> Policies]
  <2>1. Restored(e.snap) = [s \in PatchSteps |-> Restored(e.snap)[s]]
    BY DEF Restored
  <2>. QED  BY <1>1, <2>1
<1>3. ASSUME NEW s \in PatchSteps, Linked(e, recovery, s), s \in DOMAIN e.snap.had, s \in dagSteps
      PROVE  Restored(e.snap)[s] = e.before[s]
  <2>1. /\ e.snap.value[s] = FieldOf(e.before[s], e.snap.field)
        /\ e.snap.had[s] <=> e.before[s] # NoRecoveryPolicy
        /\ Near(e.before[s], recovery[s], e.snap.field)
    BY <1>3 DEF Linked, Patched
  <2>2. recovery[s] \in Policies /\ e.before[s] \in Policies /\ e.snap.field \in PolicyFields
    BY <1>3, PatchParts
  <2>3. Restored(e.snap)[s] = IF e.snap.had[s]
          THEN WithField(recovery[s], e.snap.field, e.snap.value[s]) ELSE NoRecoveryPolicy
    BY <1>3 DEF Restored
  <2>4. e.before[s] = IF e.before[s] # NoRecoveryPolicy
          THEN WithField(recovery[s], e.snap.field, FieldOf(e.before[s], e.snap.field))
          ELSE NoRecoveryPolicy
    BY <2>1, <2>2, PolicyRestored
  <2>. QED  BY <2>1, <2>3, <2>4
<1>4. ASSUME NEW s \in PatchSteps, Linked(e, recovery, s), s \notin DOMAIN e.snap.had
      PROVE  Restored(e.snap)[s] = e.before[s]
  BY <1>4 DEF Restored, Linked
<1>. QED  BY <1>2, <1>3, <1>4

\* A patch put on top of a stack.
LEMMA PatchOnTop ==
  ASSUME NEW stack \in Seq(PatchRecord), NEW e \in PatchRecord, NEW after, NEW ids,
         LeadsTo(stack, e.before, ids), \A s \in ids : Linked(e, after, s)
  PROVE  Append(stack, e) \in Seq(PatchRecord) /\ LeadsTo(Append(stack, e), after, ids)
<1>. DEFINE n == Len(stack)
<1>1. n \in Nat /\ Len(Append(stack, e)) = n + 1 /\ Append(stack, e)[n + 1] = e
      /\ \A k \in 1 .. n : Append(stack, e)[k] = stack[k]
  OBVIOUS
<1>2. ASSUME NEW k \in 1 .. n + 1, NEW s \in ids
      PROVE  Linked(Append(stack, e)[k], AfterPatch(Append(stack, e), k, after), s)
  <2>1. CASE k = n + 1
    BY <1>1, <1>2, <2>1 DEF AfterPatch
  <2>2. CASE k \in 1 .. n
    <3>1. AfterPatch(Append(stack, e), k, after) = Append(stack, e)[k + 1].before
      BY <1>1, <2>2 DEF AfterPatch
    <3>2. Append(stack, e)[k + 1].before = AfterPatch(stack, k, e.before)
      <4>1. CASE k = n
        BY <1>1, <4>1 DEF AfterPatch
      <4>2. CASE k # n
        <5>1. k + 1 \in 1 .. n
          BY <1>1, <2>2, <4>2
        <5>. QED  BY <1>1, <4>2, <5>1 DEF AfterPatch
      <4>. QED  BY <4>1, <4>2
    <3>3. Linked(stack[k], AfterPatch(stack, k, e.before), s)
      BY <1>2, <2>2 DEF LeadsTo
    <3>. QED  BY <1>1, <2>2, <3>1, <3>2, <3>3
  <2>. QED  BY <1>1, <1>2, <2>1, <2>2
<1>. QED  BY <1>1, <1>2 DEF LeadsTo

\* A patch taken off a stack leaves one that leads to where it started.
LEMMA PatchTakenOff ==
  ASSUME NEW stack \in Seq(PatchRecord), stack # <<>>, NEW after, NEW ids, NEW now,
         LeadsTo(stack, after, ids), \A s \in ids : now[s] = stack[Len(stack)].before[s]
  PROVE  /\ SubSeq(stack, 1, Len(stack) - 1) \in Seq(PatchRecord)
         /\ LeadsTo(SubSeq(stack, 1, Len(stack) - 1), now, ids)
<1>1. PICK n : n = Len(stack)
  OBVIOUS
<1>2. PICK rest : rest = SubSeq(stack, 1, n - 1)
  OBVIOUS
<1>3. n \in Nat /\ n >= 1
  BY <1>1
<1>4. rest \in Seq(PatchRecord) /\ Len(rest) = n - 1 /\ \A k \in 1 .. n - 1 : rest[k] = stack[k]
  BY <1>1, <1>2, <1>3
<1>5. ASSUME NEW k \in 1 .. n - 1, NEW s \in ids
      PROVE  Linked(rest[k], AfterPatch(rest, k, now), s)
  <2>1. Linked(stack[k], AfterPatch(stack, k, after), s) /\ k # n /\ k \in 1 .. n
    <3>1. k \in 1 .. n /\ k # n
      BY <1>3, <1>5
    <3>. QED  BY <1>1, <1>5, <3>1 DEF LeadsTo
  <2>2. AfterPatch(stack, k, after) = stack[k + 1].before
    BY <1>1, <2>1 DEF AfterPatch
  <2>3. AfterPatch(rest, k, now)[s] = stack[k + 1].before[s]
    <3>1. CASE k = n - 1
      <4>1. k + 1 = n
        BY <1>3, <1>5, <3>1
      <4>. QED  BY <1>1, <1>4, <1>5, <3>1, <4>1 DEF AfterPatch
    <3>2. CASE k # n - 1
      <4>1. k + 1 \in 1 .. n - 1
        BY <1>3, <1>5, <3>2
      <4>. QED  BY <1>4, <3>2, <4>1 DEF AfterPatch
    <3>. QED  BY <3>1, <3>2
  <2>4. rest[k] = stack[k]
    BY <1>4, <1>5
  <2>. QED  BY <2>1, <2>2, <2>3, <2>4 DEF Linked, Patched
<1>. QED  BY <1>1, <1>2, <1>4, <1>5 DEF LeadsTo

\* It leaves the stack unaware of the steps to come, if the patch is.
LEMMA UnawareOnTop ==
  ASSUME NEW stack \in Seq(PatchRecord), NEW e, Unaware(stack),
         DOMAIN e.snap.had \cap newSteps = {}
  PROVE  Unaware(Append(stack, e))
<1>1. Len(stack) \in Nat /\ Len(Append(stack, e)) = Len(stack) + 1
      /\ Append(stack, e)[Len(stack) + 1] = e
      /\ \A k \in 1 .. Len(stack) : Append(stack, e)[k] = stack[k]
  OBVIOUS
<1>. QED  BY <1>1 DEF Unaware

LEMMA UnawareBelow ==
  ASSUME NEW stack \in Seq(PatchRecord), stack # <<>>, Unaware(stack)
  PROVE  Unaware(SubSeq(stack, 1, Len(stack) - 1))
<1>1. PICK n : n = Len(stack)
  OBVIOUS
<1>2. PICK rest : rest = SubSeq(stack, 1, n - 1)
  OBVIOUS
<1>3. n \in Nat /\ n >= 1
  BY <1>1
<1>4. Len(rest) = n - 1 /\ \A k \in 1 .. n - 1 : rest[k] = stack[k]
  BY <1>1, <1>2, <1>3
<1>5. \A k \in 1 .. n - 1 : k \in 1 .. n
  BY <1>3
<1>. QED  BY <1>1, <1>2, <1>4, <1>5 DEF Unaware

\* What the rollback of patch e returns.
BackOf(e) ==
  [snap   |-> PolicySnapshot(e.snap.field, dagSteps \cap DOMAIN e.snap.had),
   before |-> recovery]

\* What the caller makes of its rollback.
WantedBack(e) ==
  [s \in PatchSteps |-> IF s \in DOMAIN e.snap.had THEN e.before[s] ELSE recovery[s]]

\* Applying the last patch of one stack: what it returns goes on the other.
LEMMA RollbackApplied ==
  ASSUME PatcherInv, NEW from \in Seq(PatchRecord), NEW to \in Seq(PatchRecord), NEW e,
         from # <<>>, e = from[Len(from)],
         LeadsTo(from, recovery, LiveSteps), LeadsTo(to, recovery, LiveSteps),
         Unaware(from), Unaware(to),
         recovery' = Restored(e.snap), wanted' = WantedBack(e)
  PROVE  /\ recovery' \in [PatchSteps -> Policies]
         /\ SubSeq(from, 1, Len(from) - 1) \in Seq(PatchRecord)
         /\ LeadsTo(SubSeq(from, 1, Len(from) - 1), recovery', LiveSteps)
         /\ Unaware(SubSeq(from, 1, Len(from) - 1))
         /\ Append(to, BackOf(e)) \in Seq(PatchRecord)
         /\ LeadsTo(Append(to, BackOf(e)), recovery', LiveSteps)
         /\ Unaware(Append(to, BackOf(e)))
         /\ \A s \in LiveSteps : recovery'[s] = wanted'[s]
<1>1. e = from[Len(from)]
  OBVIOUS
<1>2. Len(from) \in Nat /\ Len(from) >= 1
  OBVIOUS
<1>3. e \in PatchRecord
  BY <1>1, <1>2
<1>4. LiveSteps \subseteq PatchSteps /\ dagSteps \subseteq LiveSteps /\ recovery \in [PatchSteps -> Policies]
  BY DEF PatcherInv, LiveSteps
<1>5. \A s \in LiveSteps : /\ Linked(e, recovery, s)
                           /\ s \in DOMAIN e.snap.had => s \in dagSteps
  <2>1. \A s \in LiveSteps : Linked(e, recovery, s)
    BY <1>1, <1>2 DEF LeadsTo, AfterPatch
  <2>2. DOMAIN e.snap.had \cap newSteps = {}
    BY <1>1, <1>2 DEF Unaware
  <2>. QED  BY <2>1, <2>2 DEF LiveSteps
<1>6. /\ recovery' \in [PatchSteps -> Policies]
      /\ \A s \in LiveSteps : recovery'[s] = e.before[s]
  BY <1>1, <1>3, <1>4, <1>5, StepsRestored
<1>7. /\ SubSeq(from, 1, Len(from) - 1) \in Seq(PatchRecord)
      /\ LeadsTo(SubSeq(from, 1, Len(from) - 1), recovery', LiveSteps)
  BY <1>1, <1>6, PatchTakenOff
<1>8. PICK ids : ids = dagSteps \cap DOMAIN e.snap.had
  OBVIOUS
<1>9. ids \in SUBSET PatchSteps
  BY <1>4, <1>8
<1>10. PICK back : back = [snap |-> PolicySnapshot(e.snap.field, ids), before |-> recovery]
  OBVIOUS
<1>11. e.snap.field \in PolicyFields /\ e.before \in [PatchSteps -> Policies]
  BY <1>3, PatchParts
<1>12. /\ back \in PatchRecord /\ back.before = recovery
       /\ back.snap.field = e.snap.field /\ DOMAIN back.snap.had = ids
       /\ \A s \in ids : /\ back.snap.had[s] <=> recovery[s] # NoRecoveryPolicy
                         /\ back.snap.value[s] = FieldOf(recovery[s], e.snap.field)
  <2>1. PICK f \in PolicyFields : f = e.snap.field
    BY <1>11
  <2>2. PICK taken : taken = PolicySnapshot(f, ids)
    OBVIOUS
  <2>3. back = [snap |-> taken, before |-> recovery]
    BY <1>10, <2>1, <2>2
  <2>4. /\ [snap |-> taken, before |-> recovery] \in PatchRecord
        /\ taken.field = f /\ DOMAIN taken.had = ids
        /\ \A s \in ids : /\ taken.had[s] <=> recovery[s] # NoRecoveryPolicy
                          /\ taken.value[s] = FieldOf(recovery[s], f)
    BY <1>4, <1>9, <2>2, SnapshotTaken
  <2>. QED  BY <2>1, <2>3, <2>4
<1>13. ASSUME NEW s \in LiveSteps PROVE Linked(back, recovery', s)
  <2>1. CASE s \in DOMAIN e.snap.had
    <3>1. Near(recovery[s], recovery'[s], e.snap.field)
      BY <1>5, <1>6, <1>13, <2>1 DEF Linked, Patched, Near
    <3>2. s \in ids
      BY <1>5, <1>8, <1>13, <2>1
    <3>. QED  BY <1>12, <3>1, <3>2 DEF Linked, Patched
  <2>2. CASE s \notin DOMAIN e.snap.had
    <3>1. recovery'[s] = recovery[s]
      BY <1>5, <1>6, <1>13, <2>2 DEF Linked
    <3>2. s \notin ids
      BY <1>8, <2>2
    <3>. QED  BY <1>12, <3>1, <3>2 DEF Linked
  <2>. QED  BY <2>1, <2>2
<1>14. BackOf(e) = back
  BY <1>8, <1>10 DEF BackOf
<1>15. Append(to, back) \in Seq(PatchRecord) /\ LeadsTo(Append(to, back), recovery', LiveSteps)
  BY <1>12, <1>13, PatchOnTop
<1>16. Unaware(SubSeq(from, 1, Len(from) - 1)) /\ Unaware(Append(to, back))
  <2>1. DOMAIN back.snap.had \cap newSteps = {}
    BY <1>8, <1>12 DEF PatcherInv
  <2>. QED  BY <2>1, UnawareBelow, UnawareOnTop
<1>17. \A s \in LiveSteps : recovery'[s] = wanted'[s]
  <2>1. ASSUME NEW s \in LiveSteps PROVE wanted'[s] = e.before[s]
    BY <1>4, <1>5, <2>1 DEF Linked, WantedBack
  <2>. QED  BY <1>6, <2>1
<1>. QED  BY <1>6, <1>7, <1>14, <1>15, <1>16, <1>17

LEMMA PatcherStarts == PatcherInit => PatcherInv
<1>. SUFFICES ASSUME PatcherInit PROVE PatcherInv
  OBVIOUS
<1>0. PICK ids \in SUBSET PatchSteps : \E having \in SUBSET PatchSteps : PatcherStart(ids, having)
  BY DEF PatcherInit
<1>1. PICK having \in SUBSET PatchSteps : PatcherStart(ids, having)
  BY <1>0
<1>2. recovery \in [PatchSteps -> Policies]
  BY <1>1, PoliciesDiffer DEF PatcherStart, Policies
<1>3. undoPatches = <<>> /\ redoPatches = <<>> /\ Len(undoPatches) = 0 /\ Len(redoPatches) = 0
  BY <1>1 DEF PatcherStart
<1>4. /\ LeadsTo(undoPatches, recovery, LiveSteps) /\ LeadsTo(redoPatches, recovery, LiveSteps)
      /\ Unaware(undoPatches) /\ Unaware(redoPatches)
  BY <1>3 DEF LeadsTo, Unaware
<1>. QED  BY <1>1, <1>2, <1>3, <1>4 DEF PatcherStart, PatcherInv, LiveSteps

LEMMA PatcherKeeps == PatcherInv /\ [PatcherNext]_patcherVars => PatcherInv'
<1>. SUFFICES ASSUME PatcherInv, [PatcherNext]_patcherVars PROVE PatcherInv'
  OBVIOUS
<1>0. /\ LiveSteps \subseteq PatchSteps /\ dagSteps \cap newSteps = {}
      /\ dagSteps \in SUBSET PatchSteps /\ recovery \in [PatchSteps -> Policies]
      /\ undoPatches \in Seq(PatchRecord) /\ redoPatches \in Seq(PatchRecord)
      /\ LeadsTo(undoPatches, recovery, LiveSteps) /\ LeadsTo(redoPatches, recovery, LiveSteps)
      /\ Unaware(undoPatches) /\ Unaware(redoPatches)
      /\ \A s \in LiveSteps : recovery[s] = wanted[s]
  BY DEF PatcherInv, LiveSteps
<1>s. ASSUME dagSteps' = dagSteps, newSteps' = newSteps
      PROVE  LiveSteps' = LiveSteps /\ \A stack : Unaware(stack) => Unaware(stack)'
  BY <1>s DEF LiveSteps, Unaware
<1>1. ASSUME NEW field \in PolicyFields, NEW v \in PatchValues, ApplyChange(field, v)
      PROVE  PatcherInv'
  <2>1. PICK e : e = [snap |-> PolicySnapshot(field, dagSteps), before |-> recovery]
    OBVIOUS
  <2>2. /\ e \in PatchRecord /\ e.before = recovery
        /\ e.snap.field = field /\ DOMAIN e.snap.had = dagSteps
        /\ \A s \in dagSteps : /\ e.snap.had[s] <=> recovery[s] # NoRecoveryPolicy
                               /\ e.snap.value[s] = FieldOf(recovery[s], field)
    BY <1>0, <2>1, SnapshotTaken
  <2>3. /\ recovery' = [s \in PatchSteps |-> IF s \in dagSteps
                           THEN WithField(recovery[s], field, v) ELSE recovery[s]]
        /\ dagSteps' = dagSteps /\ newSteps' = newSteps
        /\ wanted' = recovery' /\ redoPatches' = <<>>
        /\ undoPatches' = Append(undoPatches, e)
    BY <1>1, <2>1 DEF ApplyChange
  <2>4. v \in FieldValues
    BY DEF FieldValues
  <2>5. recovery' \in [PatchSteps -> Policies]
    <3>1. ASSUME NEW s \in PatchSteps PROVE recovery'[s] \in Policies
      BY <1>0, <2>3, <2>4, FieldWritten
    <3>. QED  BY <2>3, <3>1
  <2>6. ASSUME NEW s \in LiveSteps PROVE Linked(e, recovery', s)
    <3>1. CASE s \in dagSteps
      <4>1. recovery[s] \in Policies /\ recovery'[s] = WithField(recovery[s], field, v)
        BY <1>0, <2>3, <3>1
      <4>2. /\ recovery'[s] # NoRecoveryPolicy
            /\ \A g \in PolicyFields \ {field} : recovery'[s][g] = FieldOf(recovery[s], g)
        BY <2>4, <4>1, FieldWritten
      <4>3. Near(recovery[s], recovery'[s], field)
        BY <4>2 DEF Near, FieldOf
      <4>. QED  BY <2>2, <3>1, <4>3 DEF Linked, Patched
    <3>2. CASE s \notin dagSteps
      BY <1>0, <2>2, <2>3, <2>6, <3>2 DEF Linked
    <3>. QED  BY <3>1, <3>2
  <2>7. undoPatches' \in Seq(PatchRecord) /\ LeadsTo(undoPatches', recovery', LiveSteps)
    BY <1>0, <2>2, <2>3, <2>6, PatchOnTop
  <2>8. /\ redoPatches' \in Seq(PatchRecord) /\ LeadsTo(redoPatches', recovery', LiveSteps)
        /\ Unaware(redoPatches')
    <3>1. redoPatches' = <<>> /\ Len(redoPatches') = 0
      BY <2>3
    <3>. QED  BY <3>1 DEF LeadsTo, Unaware
  <2>9. Unaware(undoPatches')
    BY <1>0, <2>2, <2>3, UnawareOnTop
  <2>10. LiveSteps' = LiveSteps /\ Unaware(undoPatches)' /\ Unaware(redoPatches)'
    BY <2>3, <2>8, <2>9 DEF LiveSteps, Unaware
  <2>. QED  BY <1>0, <2>3, <2>5, <2>7, <2>8, <2>10 DEF PatcherInv
<1>2. CASE UndoPatch
  <2>1. dagSteps' = dagSteps /\ newSteps' = newSteps
    BY <1>2 DEF UndoPatch
  <2>2. /\ recovery' \in [PatchSteps -> Policies]
        /\ undoPatches' \in Seq(PatchRecord) /\ redoPatches' \in Seq(PatchRecord)
        /\ LeadsTo(undoPatches', recovery', LiveSteps) /\ LeadsTo(redoPatches', recovery', LiveSteps)
        /\ Unaware(undoPatches') /\ Unaware(redoPatches')
        /\ \A s \in LiveSteps : recovery'[s] = wanted'[s]
    <3>1. PICK e : e = undoPatches[Len(undoPatches)]
      OBVIOUS
    <3>2. /\ undoPatches # <<>> /\ recovery' = Restored(e.snap)
          /\ redoPatches' = Append(redoPatches, BackOf(e))
          /\ wanted' = WantedBack(e)
          /\ undoPatches' = SubSeq(undoPatches, 1, Len(undoPatches) - 1)
      BY <1>2, <3>1 DEF UndoPatch, ApplyRollback, BackOf, WantedBack
    <3>3. /\ recovery' \in [PatchSteps -> Policies]
          /\ SubSeq(undoPatches, 1, Len(undoPatches) - 1) \in Seq(PatchRecord)
          /\ LeadsTo(SubSeq(undoPatches, 1, Len(undoPatches) - 1), recovery', LiveSteps)
          /\ Unaware(SubSeq(undoPatches, 1, Len(undoPatches) - 1))
          /\ Append(redoPatches, BackOf(e)) \in Seq(PatchRecord)
          /\ LeadsTo(Append(redoPatches, BackOf(e)), recovery', LiveSteps)
          /\ Unaware(Append(redoPatches, BackOf(e)))
          /\ \A s \in LiveSteps : recovery'[s] = wanted'[s]
      BY <1>0, <3>1, <3>2, RollbackApplied
    <3>. QED  BY <3>2, <3>3
  <2>3. LiveSteps' = LiveSteps /\ Unaware(undoPatches)' /\ Unaware(redoPatches)'
    BY <2>1, <2>2 DEF LiveSteps, Unaware
  <2>. QED  BY <1>0, <2>1, <2>2, <2>3 DEF PatcherInv
<1>3. CASE RedoPatch
  <2>1. dagSteps' = dagSteps /\ newSteps' = newSteps
    BY <1>3 DEF RedoPatch
  <2>2. /\ recovery' \in [PatchSteps -> Policies]
        /\ undoPatches' \in Seq(PatchRecord) /\ redoPatches' \in Seq(PatchRecord)
        /\ LeadsTo(undoPatches', recovery', LiveSteps) /\ LeadsTo(redoPatches', recovery', LiveSteps)
        /\ Unaware(undoPatches') /\ Unaware(redoPatches')
        /\ \A s \in LiveSteps : recovery'[s] = wanted'[s]
    <3>1. PICK e : e = redoPatches[Len(redoPatches)]
      OBVIOUS
    <3>2. /\ redoPatches # <<>> /\ recovery' = Restored(e.snap)
          /\ undoPatches' = Append(undoPatches, BackOf(e))
          /\ wanted' = WantedBack(e)
          /\ redoPatches' = SubSeq(redoPatches, 1, Len(redoPatches) - 1)
      BY <1>3, <3>1 DEF RedoPatch, ApplyRollback, BackOf, WantedBack
    <3>3. /\ recovery' \in [PatchSteps -> Policies]
          /\ SubSeq(redoPatches, 1, Len(redoPatches) - 1) \in Seq(PatchRecord)
          /\ LeadsTo(SubSeq(redoPatches, 1, Len(redoPatches) - 1), recovery', LiveSteps)
          /\ Unaware(SubSeq(redoPatches, 1, Len(redoPatches) - 1))
          /\ Append(undoPatches, BackOf(e)) \in Seq(PatchRecord)
          /\ LeadsTo(Append(undoPatches, BackOf(e)), recovery', LiveSteps)
          /\ Unaware(Append(undoPatches, BackOf(e)))
          /\ \A s \in LiveSteps : recovery'[s] = wanted'[s]
      BY <1>0, <3>1, <3>2, RollbackApplied
    <3>. QED  BY <3>2, <3>3
  <2>3. LiveSteps' = LiveSteps /\ Unaware(undoPatches)' /\ Unaware(redoPatches)'
    BY <2>1, <2>2 DEF LiveSteps, Unaware
  <2>. QED  BY <1>0, <2>1, <2>2, <2>3 DEF PatcherInv
<1>4. ASSUME NEW s \in PatchSteps, DropStep(s) \/ InsertStep(s) PROVE PatcherInv'
  <2>1. /\ LiveSteps' \subseteq LiveSteps /\ newSteps' \subseteq newSteps
        /\ dagSteps' \cap newSteps' = {}
        /\ UNCHANGED <<recovery, undoPatches, redoPatches, wanted>>
    BY <1>0, <1>4 DEF DropStep, InsertStep, LiveSteps
  <2>2. LeadsTo(undoPatches, recovery, LiveSteps)' /\ LeadsTo(redoPatches, recovery, LiveSteps)'
    BY <1>0, <2>1 DEF LeadsTo, AfterPatch
  <2>3. Unaware(undoPatches)' /\ Unaware(redoPatches)'
    BY <1>0, <2>1 DEF Unaware
  <2>. QED  BY <1>0, <2>1, <2>2, <2>3 DEF PatcherInv
<1>5. CASE UNCHANGED patcherVars
  <2>1. UNCHANGED <<dagSteps, newSteps, recovery, undoPatches, redoPatches, wanted>>
    BY <1>5 DEF patcherVars
  <2>2. LeadsTo(undoPatches, recovery, LiveSteps)' /\ LeadsTo(redoPatches, recovery, LiveSteps)'
    BY <1>0, <2>1 DEF LeadsTo, AfterPatch, LiveSteps
  <2>3. Unaware(undoPatches)' /\ Unaware(redoPatches)'
    BY <1>0, <2>1 DEF Unaware
  <2>. QED  BY <1>0, <2>1, <2>2, <2>3 DEF PatcherInv, LiveSteps
<1>. QED  BY <1>1, <1>2, <1>3, <1>4, <1>5 DEF PatcherNext

(* recovery_patcher.go (applyForward, applyRollback): however field patches  *)
(* of every step are stacked, undone and re-applied, and whatever steps come *)
(* and go in between, each step in the graph is brought back to exactly the  *)
(* recovery policy it had, a missing policy included.                        *)
THEOREM UndoExact == PatcherSpec => []UndoIsExact
<1>1. PatcherInv => UndoIsExact
  BY DEF PatcherInv, LiveSteps, UndoIsExact
<1>. QED  BY <1>1, PatcherStarts, PatcherKeeps, PTL DEF PatcherSpec

=============================================================================
