------------------------ MODULE EvolutionScheduler ------------------------
(***************************************************************************)
(* When evolution cycles start and how they end (internal/ares_evolution/  *)
(* scheduler.go): the subscription loop that sees agents stop, the check   *)
(* of the minimum interval, the cancellation of the cycle before, and      *)
(* Shutdown.  Whether the scores of the window and the guardrails ask for  *)
(* a cycle is left open; the adapter may go on after its cancellation and  *)
(* may still report success.                                               *)
(***************************************************************************)
EXTENDS Integers, Sequences

CONSTANTS
  MinInterval,   \* minInterval, in ticks
  MaxCycles,     \* bound: cycles ever started
  EvoHorizon     \* bound: ticks of the clock

ASSUME EvolutionAssumption ==
  MinInterval \in Nat /\ MaxCycles \in Nat \ {0} /\ EvoHorizon \in Nat

VARIABLE evolution

Never == -1
EvoInit ==
  evolution = [now |-> 0, lastRun |-> Never, enabled |-> FALSE, loop |-> "waiting",
               cycles |-> <<>>, subscribed |-> TRUE, shutdown |-> "no"]

Cycles == DOMAIN evolution.cycles
Newest == Len(evolution.cycles)
RunningCycles == {c \in Cycles : evolution.cycles[c].at = "running"}

-----------------------------------------------------------------------------
EvoTick ==
  /\ evolution.now < EvoHorizon
  /\ evolution' = [evolution EXCEPT !.now = @ + 1]

SetEnabled == evolution' = [evolution EXCEPT !.enabled = ~@]

IntervalElapsed ==
  evolution.lastRun = Never \/ evolution.now - evolution.lastRun >= MinInterval

(* OnAgentEnd up to its decision: enabled, the interval, and the scores    *)
(* ask for a cycle.  An event may be handled that was delivered before the *)
(* subscription ended.                                                     *)
AgentEnds ==
  /\ evolution.loop = "waiting" /\ Newest < MaxCycles
  /\ evolution.enabled /\ IntervalElapsed
  /\ evolution' = [evolution EXCEPT !.loop = "decided"]

(* The cycle before is told to stop and not waited for.                    *)
CancelPrevious ==
  /\ evolution.loop = "decided"
  /\ evolution' = [evolution EXCEPT !.loop = "starting",
                     !.cycles = [c \in Cycles |-> IF c = Newest
                                 THEN [@[c] EXCEPT !.canceled = TRUE] ELSE @[c]]]

StartCycle ==
  /\ evolution.loop = "starting"
  /\ evolution' = [evolution EXCEPT !.loop = "waiting",
                     !.cycles = Append(@, [at |-> "running", canceled |-> FALSE,
                                           started |-> evolution.now])]

(* The adapter returns; only a success stamps lastRun.                     *)
CycleSucceeds(c) ==
  /\ c \in RunningCycles
  /\ evolution' = [evolution EXCEPT !.cycles[c].at = "ended", !.lastRun = evolution.now]

CycleFails(c) ==
  /\ c \in RunningCycles
  /\ evolution' = [evolution EXCEPT !.cycles[c].at = "ended"]

(* Shutdown: the subscription ends, its loop is waited for, then the       *)
(* newest cycle is cancelled and waited for.                               *)
ShutdownScheduler ==
  /\ evolution.shutdown = "no"
  /\ evolution' = [evolution EXCEPT !.shutdown = "loop", !.subscribed = FALSE]

LoopStops ==
  /\ evolution.loop = "waiting" /\ ~evolution.subscribed
  /\ evolution' = [evolution EXCEPT !.loop = "stopped"]

ShutdownCancelsFirst ==
  /\ evolution.shutdown = "loop"
  /\ evolution' = [evolution EXCEPT !.shutdown = "cycle",
                     !.cycles = [c \in Cycles |-> IF c = Newest
                                 THEN [@[c] EXCEPT !.canceled = TRUE] ELSE @[c]]]

ShutdownCancels ==
  /\ evolution.shutdown = "loop" /\ evolution.loop = "stopped"
  /\ evolution' = [evolution EXCEPT !.shutdown = "cycle",
                     !.cycles = [c \in Cycles |-> IF c = Newest
                                 THEN [@[c] EXCEPT !.canceled = TRUE] ELSE @[c]]]

ShutdownReturns ==
  /\ evolution.shutdown = "cycle" /\ Newest \notin RunningCycles
  /\ evolution' = [evolution EXCEPT !.shutdown = "returned"]

EvoNext ==
  \/ EvoTick \/ SetEnabled \/ AgentEnds \/ CancelPrevious \/ StartCycle
  \/ ShutdownScheduler \/ LoopStops \/ ShutdownCancels \/ ShutdownReturns
  \/ \E c \in Cycles : CycleSucceeds(c) \/ CycleFails(c)

EvoSpec == EvoInit /\ [][EvoNext]_evolution

-----------------------------------------------------------------------------
(* At most the newest cycle runs without having been told to stop, and     *)
(* once Shutdown has returned none does and no more will start             *)
(* (OnAgentEnd's cancellation, Shutdown's order).                          *)
OldCyclesAreTold ==
  \A c \in RunningCycles :
    evolution.cycles[c].canceled \/ (c = Newest /\ evolution.shutdown # "returned")

(* "the minimum duration between cycles": two cycles start at least        *)
(* MinInterval apart.  lastRun is stamped when a cycle has succeeded, so a *)
(* running one is cancelled and started again by the next agent that ends. *)
CyclesAreSpaced ==
  \A c, d \in Cycles :
    c < d => evolution.cycles[d].started - evolution.cycles[c].started >= MinInterval

(* "to prevent concurrent evolution cycles": one cycle at a time.          *)
OneCycleAtATime == \A c, d \in RunningCycles : c = d
=============================================================================
