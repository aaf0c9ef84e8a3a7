----------------------------- MODULE MCGraphRun -----------------------------
(* Small graphs for TLC: every acyclic graph over three nodes with every   *)
(* choice of conditional edges, a cycle, a diamond one node wide, a graph  *)
(* that is refused and a subgraph with the same flaw and its opposite.     *)
EXTENDS GraphRun

CONSTANTS gA, gB, gC, gD

Untimed(nodes, edges, conds, router) ==
  [nodes |-> nodes, edges |-> edges, conds |-> conds, router |-> router,
   width |-> 0, timeout |-> FALSE, nested |-> FALSE]

Arrows == {<<gA, gB>>, <<gA, gC>>, <<gB, gC>>}

AcyclicGraphs ==
  UNION {{Untimed({gA, gB, gC}, E, C, r) : C \in SUBSET E, r \in BOOLEAN} : E \in SUBSET Arrows}

Cycle == Untimed({gA, gB, gC}, {<<gA, gB>>, <<gB, gC>>, <<gC, gA>>}, {<<gB, gC>>}, TRUE)

Refused == Untimed({gA, gB}, {<<gA, gC>>}, {}, TRUE)

\* An edge to a node that is not there, and one from it.
Unchecked ==
  [Untimed({gA, gB}, {<<gA, gC>>, <<gB, gC>>, <<gC, gB>>}, {}, TRUE) EXCEPT !.nested = TRUE]

Diamond ==
  Untimed({gA, gB, gC, gD}, {<<gA, gB>>, <<gA, gC>>, <<gB, gD>>, <<gC, gD>>},
       {<<gA, gB>>, <<gC, gD>>}, TRUE)

MCSnapshots ==
  AcyclicGraphs \cup {[Cycle EXCEPT !.timeout = TRUE], Refused, Unchecked,
                [Diamond EXCEPT !.timeout = TRUE, !.width = 1]}

=============================================================================
