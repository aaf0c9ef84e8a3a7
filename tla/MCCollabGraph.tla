--------------------------- MODULE MCCollabGraph ---------------------------
(* Small instances of CollabGraph for TLC.                                 *)
EXTENDS CollabGraph

CONSTANTS n1, n2, n3, fanout, ring

\* A graph of two independent nodes, and one whose node waits for itself.
MCTasksOf    == [r \in CollabRuns |-> IF r = fanout THEN {n1, n2} ELSE {n3}]
MCCollabDeps == [t \in Tasks |-> IF t = n3 THEN {n3} ELSE {}]

\* collab_graph.go gives every node two attempts and no priority.
MCCollabPriority == [t \in Tasks |-> 0]
MCCollabRetries  == [t \in Tasks |-> 2]
=============================================================================
