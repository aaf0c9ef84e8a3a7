--------------------------- MODULE MCServeProcess ---------------------------
(* A small instance of ServeProcess for TLC.                               *)
EXTENDS ServeProcess

CONSTANTS http, dashServer, flush, store, engine, know

\* Two hooks of one phase and one of the next.
MCPhaseOf == [b \in Callbacks |-> IF b = flush THEN 1 ELSE 0]

\* The runtime needs the event store; knowledge may come up degraded.
MCDeps == [c \in Components |-> IF c = engine THEN {store} ELSE {}]

=============================================================================
