-------------------------- MODULE WeightedSemaphore --------------------------
(***************************************************************************)
(* The weighted semaphore (internal/ares_ratelimit/semaphore.go): callers  *)
(* of Acquire sleep on a condition variable until enough is available, and *)
(* a callback registered with context.AfterFunc wakes them when their      *)
(* context is cancelled.  Every critical section of the mutex is a step; a *)
(* sleeping caller has released the mutex and tests again when woken.      *)
(***************************************************************************)
EXTENDS Integers, FiniteSets

CONSTANTS SemCallers,       \* goroutines, each with one key of its own
          SemBurst,         \* config.Burst
          SemWeight         \* [SemCallers -> weights its calls ask for]

ASSUME SemAssumption ==
    /\ SemBurst \in Nat
    /\ SemWeight \in [SemCallers -> Nat \ {0}]

VARIABLES available,    \* l.available
          weighted,     \* l.weighted, the weight each semCaller's key holds
          semCaller,    \* where each caller of Acquire is
          cancelled,    \* the callers whose context is done
          callbacks     \* the AfterFunc callbacks that were started, not run

semVars == <<available, weighted, semCaller, cancelled, callbacks>>

SemInit ==
    /\ available = SemBurst
    /\ weighted = [c \in SemCallers |-> 0]
    /\ semCaller = [c \in SemCallers |-> "idle"]
    /\ cancelled = {}
    /\ callbacks = {}

\* cond.Broadcast: every sleeper competes for the mutex again.
Broadcast == semCaller' = [c \in SemCallers |->
                          IF semCaller[c] = "asleep" THEN "woken" ELSE semCaller[c]]

GrantWeight(c) ==
    /\ available >= SemWeight[c]
    /\ available' = available - SemWeight[c]
    /\ weighted' = [weighted EXCEPT ![c] = @ + SemWeight[c]]

\* One pass through the loop of Acquire by a caller that has the mutex: it
\* takes its weight, or returns the context's error, or sleeps.  A woken
\* caller looks at its context before it looks at what is available.
SemLoop(c) ==
    /\ semCaller[c] \in {"woken", "idle"}
    /\ semCaller[c] = "idle" => weighted[c] = 0
    /\ \/ /\ c \in cancelled
          /\ semCaller[c] = "woken" \/ available < SemWeight[c]
          /\ semCaller' = [semCaller EXCEPT ![c] = "returned"]
          /\ UNCHANGED <<available, weighted>>
       \/ /\ semCaller[c] = "idle" \/ c \notin cancelled
          /\ GrantWeight(c)
          /\ semCaller' = [semCaller EXCEPT ![c] = "idle"]
       \/ /\ c \notin cancelled
          /\ available < SemWeight[c]
          /\ semCaller' = [semCaller EXCEPT ![c] = "asleep"]
          /\ UNCHANGED <<available, weighted>>
    /\ UNCHANGED <<cancelled, callbacks>>

\* Allow: a try-acquire that never sleeps.
SemAllow(c) ==
    /\ semCaller[c] = "idle"
    /\ weighted[c] = 0
    /\ GrantWeight(c)
    /\ UNCHANGED <<semCaller, cancelled, callbacks>>

GiveBack(c) ==
    /\ semCaller[c] = "idle"
    /\ weighted[c] >= SemWeight[c]
    /\ available' = available + SemWeight[c]
    /\ weighted' = [weighted EXCEPT ![c] = @ - SemWeight[c]]

\* A release that signals nobody.
SemReleaseSilently(c) ==
    /\ GiveBack(c)
    /\ UNCHANGED <<semCaller, cancelled, callbacks>>

\* Release of what the key holds; more than that is ignored.
SemRelease(c) ==
    /\ GiveBack(c)
    /\ Broadcast
    /\ UNCHANGED <<cancelled, callbacks>>

\* Reset takes everything back, the holders' weight included.
SemReset ==
    /\ available' = SemBurst
    /\ weighted' = [c \in SemCallers |-> 0]
    /\ Broadcast
    /\ UNCHANGED <<cancelled, callbacks>>

\* The context of a call ends: the callback of a caller that sleeps is
\* started in a goroutine of its own.
SemCancel(c) ==
    /\ c \notin cancelled
    /\ cancelled' = cancelled \cup {c}
    /\ callbacks' = IF semCaller[c] = "asleep" THEN callbacks \cup {c}
                                            ELSE callbacks
    /\ UNCHANGED <<available, weighted, semCaller>>

\* The callback, once it has the mutex.
SemCallback(c) ==
    /\ c \in callbacks
    /\ Broadcast
    /\ callbacks' = callbacks \ {c}
    /\ UNCHANGED <<available, weighted, cancelled>>

\* The caller makes its next call, with a fresh context.
SemCallAgain(c) ==
    /\ c \in cancelled
    /\ semCaller[c] \in {"returned", "idle"}
    /\ semCaller' = [semCaller EXCEPT ![c] = "idle"]
    /\ cancelled' = cancelled \ {c}
    /\ UNCHANGED <<available, weighted, callbacks>>

SemNext ==
    \/ \E c \in SemCallers :
          \/ SemLoop(c) \/ SemAllow(c) \/ SemRelease(c)
          \/ SemCancel(c) \/ SemCallback(c) \/ SemCallAgain(c)
    \/ SemReset

SemSpec == SemInit /\ [][SemNext]_semVars

-----------------------------------------------------------------------------

\* The units of weight that the keys hold, one by one.
HeldUnits == UNION {{c} \X (1..weighted[c]) : c \in SemCallers}

\* What is available and what the keys hold add up to the burst, whatever
\* releases and resets cross (semaphore.go, Reset and Release).
WeightIsConserved ==
    available + Cardinality(HeldUnits) = SemBurst

\* No wakeup is lost: a caller asleep cannot have its weight, and if its
\* context is done a callback is on its way to wake it.
SleepIsJustified ==
    \A c \in SemCallers : semCaller[c] = "asleep" =>
        /\ available < SemWeight[c]
        /\ c \in cancelled => c \in callbacks

\* The weight is shared out exactly, and who sleeps has to.
SemaphoreIsSound == WeightIsConserved /\ SleepIsJustified
=============================================================================
