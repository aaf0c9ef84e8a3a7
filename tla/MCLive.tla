------------------------------- MODULE MCLive -------------------------------
(***************************************************************************)
(* Components that promise something will happen, each explored on its own *)
(* under its own fairness: part says which one a behaviour is about, and   *)
(* the others stay where they start.                                       *)
(***************************************************************************)
EXTENDS AgentRuntime, IPCBus, LLMResilience, WriteBuffer, MCServeProcess

CONSTANTS peer1, peer2, r1, r2

VARIABLE part

liveVars == <<part, runtime, bus, llm, buffered, process>>

\* Two requests to two different peers.
MCTarget == [r \in Requests |-> IF r = r1 THEN peer1 ELSE peer2]

-----------------------------------------------------------------------------
LiveInit ==
  /\ part \in {"runtime", "bus", "llm", "buffer", "serve"}
  /\ RuntimeInit /\ BusInit /\ LLMInit /\ WriteBufferInit /\ ServeInit

(* A step of one component; the others rest. *)
RuntimeMoves(A) == part = "runtime" /\ A /\ UNCHANGED <<part, bus, llm, buffered, process>>
BusMoves(A) == part = "bus" /\ A /\ UNCHANGED <<part, runtime, llm, buffered, process>>
LLMMoves(A) == part = "llm" /\ A /\ UNCHANGED <<part, runtime, bus, buffered, process>>
BufferMoves(A) == part = "buffer" /\ A /\ UNCHANGED <<part, runtime, bus, llm, process>>
ServeMoves(A) == part = "serve" /\ A /\ UNCHANGED <<part, runtime, bus, llm, buffered>>
PhaseMoves(A) == ServeMoves(A /\ UNCHANGED <<orchestrator, serve>>)

LiveNext ==
  \/ RuntimeMoves(RuntimeNext)
  \/ BusMoves(BusNext)
  \/ LLMMoves(LLMNext)
  \/ BufferMoves(WriteBufferNext)
  \/ ServeMoves(ServeNext)

\* Each component's own fairness, in the behaviours that are about it.
LiveFairness ==
  /\ WF_liveVars(RuntimeMoves(healthCheck /\ RuntimeNext))
  /\ WF_liveVars(RuntimeMoves(NotifyAgentDead /\ RuntimeNext))
  /\ \A c \in Resurrections : WF_liveVars(RuntimeMoves(RestoreStep(c) /\ RuntimeNext))
  /\ \A c \in Operators : WF_liveVars(RuntimeMoves(OperatorStep(c) /\ RuntimeNext))
  /\ WF_liveVars(RuntimeMoves(StopMark /\ RuntimeNext))
  /\ WF_liveVars(RuntimeMoves(StopReturn /\ RuntimeNext))
  /\ \A r \in Requests : WF_liveVars(BusMoves(CallerStep(r)))
  /\ WF_liveVars(LLMMoves(OpenTimeoutPasses)) /\ WF_liveVars(LLMMoves(ProbeTimeoutPasses))
  /\ WF_liveVars(BufferMoves(LoopStep)) /\ SF_liveVars(BufferMoves(LoopCancelled))
  /\ WF_liveVars(BufferMoves(WriteWaitEnds))
  /\ SF_liveVars(BufferMoves(BufferStop)) /\ WF_liveVars(BufferMoves(MemoryStopReturns))
  /\ WF_liveVars(PhaseMoves(EnterPhase(Signal))) /\ WF_liveVars(PhaseMoves(Launch(Signal)))
  /\ WF_liveVars(PhaseMoves(Finish(Signal))) /\ WF_liveVars(PhaseMoves(Deadline(Signal)))
  /\ WF_liveVars(PhaseMoves(Expire(Signal))) /\ WF_liveVars(PhaseMoves(GraceOver(Signal)))
  /\ WF_liveVars(ServeMoves(StopComponents)) /\ WF_liveVars(ServeMoves(CancelContext))
  /\ WF_liveVars(ServeMoves(StopNext /\ UNCHANGED <<shutdown, serve>>))

LiveSpec == LiveInit /\ [][LiveNext]_liveVars /\ LiveFairness
=============================================================================
