--------------------------- MODULE ShutdownManager ---------------------------
(***************************************************************************)
(* The phased shutdown (internal/ares_shutdown/manager.go).  StartShutdown *)
(* walks the phases in order; executePhase runs the callbacks of a phase   *)
(* in goroutines of their own and waits for them, for the deadline of the  *)
(* phase, and then for five seconds of grace.                              *)
(*                                                                         *)
(* Between its critical sections a call can be overtaken by another call,  *)
(* by AddCallback and by the callbacks of any phase that still run.  A     *)
(* callback may fail, panic (the recovered panic counts as a failure       *)
(* here), or never return.                                                 *)
(***************************************************************************)
EXTENDS Integers, FiniteSets

CONSTANTS
  Callers,    \* calls of StartShutdown, one call each
  Callbacks,  \* callbacks somebody may add
  PhaseOf     \* the phase a callback is added to

PreShutdown == 0
DonePhase   == 3
Phases      == PreShutdown .. DonePhase  \* all of them are registered, serve.go:79-82

ASSUME ShutdownAssumption ==
  /\ IsFiniteSet(Callers) /\ IsFiniteSet(Callbacks)
  /\ PhaseOf \in [Callbacks -> Phases]

VARIABLES
  currentPhase, \* Manager.currentPhase
  added,        \* callbacks registered so far
  calls,        \* where each call of StartShutdown stands
  at,           \* the phase the call is at
  over,         \* phaseCtx of the call is done
  joined,       \* the done channel of executePhase is closed
  run           \* run[c][b]: the invocation of b by call c

shutdown == <<currentPhase, added, calls, at, over, joined, run>>

CallState   == {"idle", "admitted", "launching", "waiting", "grace",
                "done", "failed", "refused"}
\* A failure after the deadline may find phaseCtx done and is then dropped.
Invocation  == {"none", "running", "ok", "failed", "dropped"}

ShutdownInit ==
  /\ currentPhase = PreShutdown
  /\ added = {}
  /\ calls = [c \in Callers |-> "idle"]
  /\ at = [c \in Callers |-> PreShutdown]
  /\ over = [c \in Callers |-> FALSE]
  /\ joined = [c \in Callers |-> FALSE]
  /\ run = [c \in Callers |-> [b \in Callbacks |-> "none"]]

-----------------------------------------------------------------------------
AddCallback(b) ==
  /\ b \notin added
  /\ added' = added \cup {b}
  /\ UNCHANGED <<currentPhase, calls, at, over, joined, run>>

\* The first critical section of StartShutdown.  currentPhase is also
\* PreShutdown while another call is still in that phase.
StartShutdown(c) ==
  /\ calls[c] = "idle"
  /\ calls' = [calls EXCEPT ![c] = IF currentPhase = PreShutdown
                                 THEN "admitted" ELSE "refused"]
  /\ UNCHANGED <<currentPhase, added, at, over, joined, run>>

\* The second critical section: the loop publishes the phase it enters.
EnterPhase(c) ==
  /\ calls[c] = "admitted"
  /\ currentPhase' = at[c]
  /\ calls' = [calls EXCEPT ![c] = "launching"]
  /\ UNCHANGED <<added, at, over, joined, run>>

\* What follows a phase that returned nil.
Proceed(c) ==
  /\ at' = [at EXCEPT ![c] = IF @ = DonePhase THEN @ ELSE @ + 1]
  /\ calls' = [calls EXCEPT ![c] = IF at[c] = DonePhase THEN "done" ELSE "admitted"]

Abort(c) == calls' = [calls EXCEPT ![c] = "failed"] /\ UNCHANGED at

InPhase(p) == {b \in added : PhaseOf[b] = p}

\* executePhase: snapshot the callbacks and start them; an empty phase is over.
Launch(c) ==
  /\ calls[c] = "launching"
  /\ \/ /\ InPhase(at[c]) = {}
        /\ Proceed(c)
        /\ UNCHANGED <<over, joined, run>>
     \/ /\ InPhase(at[c]) # {}
        /\ run' = [run EXCEPT ![c] =
                    [b \in Callbacks |-> IF b \in InPhase(at[c]) THEN "running" ELSE @[b]]]
        /\ over' = [over EXCEPT ![c] = FALSE]
        /\ joined' = [joined EXCEPT ![c] = FALSE]
        /\ calls' = [calls EXCEPT ![c] = "waiting"]
        /\ UNCHANGED at
  /\ UNCHANGED <<currentPhase, added>>

CallbackReturns(c, b) ==
  /\ run[c][b] = "running"
  /\ \E result \in {"ok", "failed"} \cup (IF over[c] THEN {"dropped"} ELSE {}) :
       run' = [run EXCEPT ![c][b] = result]
  /\ UNCHANGED <<currentPhase, added, calls, at, over, joined>>

\* m.wg is shared by all phases and all calls.
WaitGroupIsEmpty == \A c \in Callers, b \in Callbacks : run[c][b] # "running"

Join(c) ==
  /\ calls[c] \in {"waiting", "grace"} /\ ~joined[c]
  /\ WaitGroupIsEmpty
  /\ joined' = [joined EXCEPT ![c] = TRUE]
  /\ UNCHANGED <<currentPhase, added, calls, at, over, run>>

Deadline(c) ==
  /\ calls[c] = "waiting" /\ ~over[c]
  /\ over' = [over EXCEPT ![c] = TRUE]
  /\ UNCHANGED <<currentPhase, added, calls, at, joined, run>>

\* Errors and panics of this phase that reached their channels.
FailedCallbacks(c) == {b \in Callbacks : PhaseOf[b] = at[c] /\ run[c][b] = "failed"}

\* The select took the done channel.
Finish(c) ==
  /\ calls[c] = "waiting" /\ joined[c]
  /\ IF FailedCallbacks(c) = {} THEN Proceed(c) ELSE Abort(c)
  /\ UNCHANGED <<currentPhase, added, over, joined, run>>

\* The select took phaseCtx.Done; onTimeout changes nothing here.
Expire(c) ==
  /\ calls[c] = "waiting" /\ over[c]
  /\ calls' = [calls EXCEPT ![c] = "grace"]
  /\ UNCHANGED <<currentPhase, added, at, over, joined, run>>

GraceOverProceeding(c) ==
  /\ calls[c] = "grace"
  /\ IF FailedCallbacks(c) = {} THEN Proceed(c) ELSE Abort(c)
  /\ UNCHANGED <<currentPhase, added, over, joined, run>>

GraceOverJoining(c) ==
  /\ calls[c] = "grace" /\ joined[c]
  /\ Abort(c)
  /\ UNCHANGED <<currentPhase, added, over, joined, run>>

\* The callbacks ended or five seconds went by; either way an error is returned.
GraceOver(c) ==
  /\ calls[c] = "grace"
  /\ Abort(c)
  /\ UNCHANGED <<currentPhase, added, over, joined, run>>

Progress(c) ==
  EnterPhase(c) \/ Launch(c) \/ Join(c) \/ Deadline(c) \/ Finish(c) \/ Expire(c) \/ GraceOver(c)

ShutdownNext ==
  \/ \E b \in Callbacks : AddCallback(b)
  \/ \E c \in Callers : StartShutdown(c) \/ Progress(c)
  \/ \E c \in Callers, b \in Callbacks : CallbackReturns(c, b)

ShutdownSpec == ShutdownInit /\ [][ShutdownNext]_shutdown

-----------------------------------------------------------------------------
ShutdownTypeOK ==
  /\ currentPhase \in Phases
  /\ added \subseteq Callbacks
  /\ calls \in [Callers -> CallState]
  /\ at \in [Callers -> Phases]
  /\ over \in [Callers -> BOOLEAN]
  /\ joined \in [Callers -> BOOLEAN]
  /\ run \in [Callers -> [Callbacks -> Invocation]]

\* While a callback runs, no later phase of the same call has been begun, not
\* even when the phase timed out and its grace ran out.
PhasesDoNotOverlap ==
  \A c \in Callers, x, y \in Callbacks :
    run[c][x] = "running" /\ run[c][y] # "none" => PhaseOf[y] <= PhaseOf[x]

\* A failure that was reported is where the shutdown ends: no later phase of
\* that call is entered.
FailureEndsShutdown ==
  \A c \in Callers, x \in Callbacks : run[c][x] = "failed" => at[c] = PhaseOf[x]

\* The phases come one after the other, and none after a failure.
PhasesAreOrdered == PhasesDoNotOverlap /\ FailureEndsShutdown

\* A call is refused while another one is in progress, so no callback is
\* running twice at a time ("error if shutdown fails or is already in
\* progress", manager.go:113).
NoCallbackRunsTwice ==
  \A c, d \in Callers, b \in Callbacks :
    run[c][b] = "running" /\ run[d][b] = "running" => c = d

=============================================================================
