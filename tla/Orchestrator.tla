---------------------------- MODULE Orchestrator ----------------------------
(***************************************************************************)
(* The component lifecycle (internal/system_runtime/orchestrator.go):      *)
(* Start takes every component through Bind, Start and Ready in dependency *)
(* order and rolls back when one fails; Shutdown stops all of them in the  *)
(* reverse order.  Every hook is code of the component and may fail; each  *)
(* hook with the status it leads to is one action.                         *)
(*                                                                         *)
(* What a component does is abstracted to whether it is live: its Start    *)
(* hook has started something that its Stop hook has not yet stopped.      *)
(***************************************************************************)
EXTENDS Integers, FiniteSets, Sequences, SequencesExt

CONSTANTS
  Components,
  Dependencies,  \* Dependencies() of each component
  Degradable     \* the components registered in ModeDegraded

\* wireSystemRuntime registers a fixed list of components.
ASSUME OrchestratorAssumption ==
  /\ Components # {} /\ IsFiniteSet(Components)
  /\ Dependencies \in [Components -> SUBSET Components]
  /\ Degradable \subseteq Components

VARIABLES
  compStatus, \* ComponentStatus.State in the registry
  started,    \* components with something running
  stuck,      \* components whose Stop hook or Wait did not return well
  starter,    \* the call of Start: [pc, order, k]
  stopper     \* the call of Shutdown: [pc, order, k]

orchestrator == <<compStatus, started, stuck, starter, stopper>>

State == {"constructed", "bound", "started", "ready", "degraded",
          "failed", "stopping", "stopped"}
StarterState == {"idle", "bind", "start", "ready", "cleanup", "rollback", "up", "down"}
StopperState == {"idle", "stop", "over"}

\* TopologicalOrder: dependencies come first; ties follow map iteration.
TopologicalOrder ==
  {s \in SetToSeqs(Components) :
     \A i, j \in DOMAIN s : s[i] \in Dependencies[s[j]] => i < j}

OrchestratorInit ==
  /\ compStatus = [c \in Components |-> "constructed"]
  /\ started = {}
  /\ stuck = {}
  /\ starter = [pc |-> "idle", order |-> <<>>, k |-> 0]
  /\ stopper = [pc |-> "idle", order |-> <<>>, k |-> 0]

-----------------------------------------------------------------------------
\* Start, up to the loop: refused once either flag is set.
StartComponents ==
  /\ starter.pc = "idle" /\ stopper.pc = "idle"
  /\ \E s \in TopologicalOrder : starter' = [pc |-> "bind", order |-> s, k |-> 1]
  /\ UNCHANGED <<compStatus, started, stuck, stopper>>

ThisOne == starter.order[starter.k]
setStatus(c, s) == compStatus' = [compStatus EXCEPT ![c] = s]

\* A failed hook: the component is marked, and cleaned up by itself.
StartupFails ==
  /\ setStatus(ThisOne, "failed")
  /\ starter' = [starter EXCEPT !.pc = "cleanup"]

\* The component is done; the next one begins.
NextComponent ==
  starter' = IF starter.k = Len(starter.order)
             THEN [starter EXCEPT !.pc = "up"]
             ELSE [starter EXCEPT !.pc = "bind", !.k = @ + 1]

Bind ==
  /\ starter.pc = "bind"
  /\ \/ setStatus(ThisOne, "bound") /\ starter' = [starter EXCEPT !.pc = "start"]
     \/ StartupFails
  /\ UNCHANGED <<started, stuck, stopper>>

\* A Start hook that fails may have started something already.
StartHook ==
  /\ starter.pc = "start"
  /\ \/ /\ started' = started \cup {ThisOne}
        /\ setStatus(ThisOne, "started")
        /\ starter' = [starter EXCEPT !.pc = "ready"]
     \/ /\ started' \in {started, started \cup {ThisOne}}
        /\ StartupFails
  /\ UNCHANGED <<stuck, stopper>>

ReadyHook ==
  /\ starter.pc = "ready"
  /\ \/ setStatus(ThisOne, "ready") /\ NextComponent
     \/ /\ ThisOne \in Degradable
        /\ setStatus(ThisOne, "degraded") /\ NextComponent
     \/ ThisOne \notin Degradable /\ StartupFails
  /\ UNCHANGED <<started, stuck, stopper>>

\* What Stop and Wait do to component c: it is stopped, or one of them returned
\* an error or Wait was given up (its timeout, the caller's context), and there
\* is no promise.
StopHook(c, ok) ==
  IF ok THEN started' = started \ {c} /\ UNCHANGED stuck
        ELSE started' \in {started, started \ {c}} /\ stuck' = stuck \cup {c}

CleanupSkipping ==
  /\ starter.pc = "cleanup"
  /\ starter' = [starter EXCEPT !.pc = "rollback", !.k = @ - 1]
  /\ UNCHANGED <<started, stuck, compStatus, stopper>>

\* cleanupComponent leaves the status at failed.
Cleanup ==
  /\ starter.pc = "cleanup"
  /\ \E ok \in BOOLEAN : StopHook(ThisOne, ok)
  /\ starter' = [starter EXCEPT !.pc = "rollback", !.k = @ - 1]
  /\ UNCHANGED <<compStatus, stopper>>

\* stopComponent, first half: a component already stopped is passed over.
BeginStop(c) == compStatus[c] \notin {"stopping", "stopped"} /\ setStatus(c, "stopping")

\* Second half: an error of Stop marks the component and is returned; one of
\* Wait, or a Wait given up, is only logged, and the component counts as stopped.
EndStop(c) ==
  /\ compStatus[c] = "stopping"
  /\ \E ok \in BOOLEAN, s \in {"stopped", "failed"} :
       (ok => s = "stopped") /\ StopHook(c, ok) /\ setStatus(c, s)

Rollback ==
  /\ starter.pc = "rollback"
  /\ \/ starter.k = 0 /\ starter' = [starter EXCEPT !.pc = "down"] /\ UNCHANGED <<compStatus, started, stuck>>
     \/ starter.k > 0 /\ BeginStop(ThisOne) /\ UNCHANGED <<starter, started, stuck>>
     \/ starter.k > 0 /\ EndStop(ThisOne) /\ starter' = [starter EXCEPT !.k = @ - 1]
  /\ UNCHANGED stopper

\* The flag, the cancelled root context and the order, computed afresh.
Shutdown ==
  /\ stopper.pc = "idle"
  /\ \E s \in TopologicalOrder : stopper' = [pc |-> "stop", order |-> s, k |-> Len(s)]
  /\ UNCHANGED <<compStatus, started, stuck, starter>>

Stopping == stopper.order[stopper.k]

StopNext ==
  /\ stopper.pc = "stop"
  /\ \/ stopper.k = 0 /\ stopper' = [stopper EXCEPT !.pc = "over"] /\ UNCHANGED <<compStatus, started, stuck>>
     \/ stopper.k > 0 /\ BeginStop(Stopping) /\ UNCHANGED <<stopper, started, stuck>>
     \/ stopper.k > 0 /\ EndStop(Stopping) /\ stopper' = [stopper EXCEPT !.k = @ - 1]
     \/ /\ stopper.k > 0 /\ compStatus[Stopping] = "stopped"
        /\ stopper' = [stopper EXCEPT !.k = @ - 1] /\ UNCHANGED <<compStatus, started, stuck>>
  /\ UNCHANGED starter

StartStep == Bind \/ StartHook \/ ReadyHook \/ Cleanup \/ Rollback

-----------------------------------------------------------------------------
OrchestratorTypeOK ==
  /\ compStatus \in [Components -> State]
  /\ started \subseteq Components /\ stuck \subseteq Components
  /\ starter.pc \in StarterState /\ starter.k \in 0 .. Cardinality(Components)
  /\ stopper.pc \in StopperState /\ stopper.k \in 0 .. Cardinality(Components)

\* A component that runs has what it depends on: dependencies start before it
\* and are stopped after it, in Start, in the rollback and in Shutdown, even
\* if the two computed different orders.
NeverWithoutDependencies ==
  \A c \in started \ stuck : Dependencies[c] \subseteq started

\* A failed Start leaves nothing running but what refused to stop or was not
\* waited for to the end, the component that failed half-way included.
RollbackLeavesNothing ==
  starter.pc = "down" => started \subseteq stuck

\* Components come up after what they need and go down before it, also when a
\* start fails half-way (orchestrator.go, Start and Shutdown).
ComponentsAreOrdered == NeverWithoutDependencies /\ RollbackLeavesNothing

=============================================================================
