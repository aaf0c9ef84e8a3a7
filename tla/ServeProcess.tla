---------------------------- MODULE ServeProcess ----------------------------
(***************************************************************************)
(* The process of `ares serve` (cmd/ares/serve.go): main bootstraps the    *)
(* components, publishes them and registers its shutdown callbacks, while  *)
(* the signal goroutine waits for its one signal, runs the shutdown phases *)
(* and then, if the components have been published, stops them.            *)
(*                                                                         *)
(* Composes ShutdownManager, of which the signal goroutine is the only     *)
(* calls, and Orchestrator.                                               *)
(***************************************************************************)
EXTENDS ShutdownManager, Orchestrator

CONSTANT Signal  \* the signal goroutine's call of StartShutdown

ASSUME ServeAssumption == Callers = {Signal}

VARIABLES
  main,   \* runServe
  sig     \* the signal goroutine

serve == <<main, sig>>
process == <<shutdown, orchestrator, serve>>

ServeInit ==
  /\ ShutdownInit /\ OrchestratorInit
  /\ main = "loading" /\ sig = "waiting"

-----------------------------------------------------------------------------
\* Bootstrap ends with the orchestrator's Start (wireSystemRuntime).
Bootstrap ==
  /\ main = "loading" /\ StartComponents
  /\ main' = "starting"
  /\ UNCHANGED <<shutdown, sig>>

\* compPtr.Store, only after a Start without error.
Publish ==
  /\ main = "starting" /\ starter.pc = "up"
  /\ main' = "published"
  /\ UNCHANGED <<shutdown, orchestrator, sig>>

\* The hooks of the HTTP servers are added once the components are there.
AddHook ==
  /\ main = "published"
  /\ \E b \in Callbacks : AddCallback(b)
  /\ UNCHANGED <<orchestrator, serve>>

SignalArrives ==
  /\ sig = "waiting" /\ StartShutdown(Signal)
  /\ sig' = "phases"
  /\ UNCHANGED <<orchestrator, main>>

PhaseStep ==
  /\ \/ Progress(Signal)
     \/ \E b \in Callbacks : CallbackReturns(Signal, b)
  /\ UNCHANGED <<orchestrator, serve>>

PhasesOver == calls[Signal] \in {"done", "failed", "refused"}

StopComponentsIfClean ==
  /\ sig = "phases" /\ PhasesOver
  /\ IF main = "published" /\ calls[Signal] = "done"
     THEN Shutdown /\ sig' = "components"
     ELSE sig' = "cancelled" /\ UNCHANGED orchestrator
  /\ UNCHANGED <<shutdown, main>>

\* shutdownSystemRuntime: whatever the phases returned, but only what is
\* published at this moment.
StopComponents ==
  /\ sig = "phases" /\ PhasesOver
  /\ IF main = "published"
     THEN Shutdown /\ sig' = "components"
     ELSE sig' = "cancelled" /\ UNCHANGED orchestrator
  /\ UNCHANGED <<shutdown, main>>

CancelContext ==
  /\ sig = "components" /\ stopper.pc = "over"
  /\ sig' = "cancelled"
  /\ UNCHANGED <<shutdown, orchestrator, main>>

ServeNext ==
  \/ Bootstrap \/ Publish \/ AddHook \/ SignalArrives
  \/ PhaseStep \/ StopComponents \/ CancelContext
  \/ (StartStep \/ StopNext) /\ UNCHANGED <<shutdown, serve>>

ServeSpec == ServeInit /\ [][ServeNext]_process

\* The signal goroutine and its timers run, and Stop hooks return; shutdown
\* callbacks need not.
ServeFairSpec ==
  /\ ServeSpec
  /\ WF_process(EnterPhase(Signal) /\ UNCHANGED <<orchestrator, serve>>)
  /\ WF_process(Launch(Signal) /\ UNCHANGED <<orchestrator, serve>>)
  /\ WF_process(Finish(Signal) /\ UNCHANGED <<orchestrator, serve>>)
  /\ WF_process(Deadline(Signal) /\ UNCHANGED <<orchestrator, serve>>)
  /\ WF_process(Expire(Signal) /\ UNCHANGED <<orchestrator, serve>>)
  /\ WF_process(GraceOver(Signal) /\ UNCHANGED <<orchestrator, serve>>)
  /\ WF_process(StopComponents) /\ WF_process(CancelContext)
  /\ WF_process(StopNext /\ UNCHANGED <<shutdown, serve>>)

-----------------------------------------------------------------------------
ServeTypeOK ==
  /\ ShutdownTypeOK /\ OrchestratorTypeOK
  /\ main \in {"loading", "starting", "published"}
  /\ sig \in {"waiting", "phases", "components", "cancelled"}

\* The signal always brings the process to the point where it cancels its
\* context, even when a callback hangs for ever (serve.go:92-104).
SignalEndsTheProcess == sig = "phases" ~> sig = "cancelled"

\* Components that were published when the signal came are stopped, unless
\* they refuse: no phase that fails or hangs keeps them running.
PublishedIsTornDown == sig = "phases" /\ main = "published" ~> started \subseteq stuck

=============================================================================
