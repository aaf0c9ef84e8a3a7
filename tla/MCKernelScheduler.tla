------------------------- MODULE MCKernelScheduler -------------------------
(* Small instances of KernelScheduler for TLC.                             *)
EXTENDS KernelScheduler, TLC

CONSTANTS t1, t2, a1, a2

MCEnvelopes == [meta : Tasks, step : 0 .. 2]

\* t1 is two quanta long and may fail once, t2 takes one quantum and either one
\* try or, in the chain, as many as it needs (0: CanRetry sets no limit).
MCMaxRetries    == [t \in Tasks |-> IF t = t1 THEN 2 ELSE 1]
ChainMaxRetries == [t \in Tasks |-> IF t = t1 THEN 2 ELSE 0]
MCQuanta     == [t \in Tasks |-> IF t = t1 THEN 2 ELSE 1]

\* A chain: t2 waits for t1.
Chain    == [t \in Tasks |-> IF t = t2 THEN {t1} ELSE {}]
Unlinked == [t \in Tasks |-> {}]

\* t2 is urgent, or nothing is.
Urgent == [t \in Tasks |-> IF t = t2 THEN 1 ELSE 0]
Even   == [t \in Tasks |-> 0]

Everyone == [t \in Tasks |-> Agents]

AgentSymmetry == Permutations(Agents)

=============================================================================
