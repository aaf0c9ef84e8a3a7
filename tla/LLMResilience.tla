--------------------------- MODULE LLMResilience ---------------------------
(***************************************************************************)
(* Retries and the circuit breaker of an LLM client (internal/llm,         *)
(* resilience.go).  withRetry asks the breaker before every attempt and    *)
(* reports to it once per logical call: a success, or the failure of the   *)
(* last attempt.  Calls run concurrently and the breaker does not know     *)
(* whose result it is given.                                               *)
(*                                                                         *)
(* Time is two facts, whether openTimeout has passed since the last        *)
(* failure and since the last probe; each becomes true some time later.    *)
(***************************************************************************)
EXTENDS Integers

CONSTANTS
  LLMCalls,           \* concurrent calls of withRetry
  Attempts,           \* RetryPolicy.MaxAttempts
  FailureThreshold,
  SuccessThreshold

ASSUME LLMAssumption ==
  /\ Attempts \in Nat \ {0}
  /\ FailureThreshold \in Nat \ {0} /\ SuccessThreshold \in Nat \ {0}

VARIABLES
  circuit,            \* CircuitBreaker.state
  failureCount,
  halfOpenSuccess,
  halfOpenInflight,   \* 0 or 1
  openElapsed,        \* openTimeout has passed since lastFailureTime
  probeElapsed,       \* openTimeout has passed since lastProbeTime
  llmAt,              \* where each call stands
  attempt,            \* which attempt it is at
  asProbe,            \* history: its last attempt was admitted in half-open
  unreported          \* history: an attempt admitted as a probe has failed, and
                      \* the call has not told the breaker

breaker == <<circuit, failureCount, halfOpenSuccess, halfOpenInflight, openElapsed, probeElapsed>>
llm == <<breaker, llmAt, attempt, asProbe, unreported>>

LLMAt == {"idle", "asking", "trying", "lost", "reporting", "backoff"}

LLMInit ==
  /\ circuit = "closed" /\ failureCount = 0
  /\ halfOpenSuccess = 0 /\ halfOpenInflight = 0
  /\ openElapsed = TRUE /\ probeElapsed = TRUE
  /\ llmAt = [c \in LLMCalls |-> "idle"]
  /\ attempt = [c \in LLMCalls |-> 1]
  /\ asProbe = [c \in LLMCalls |-> FALSE]
  /\ unreported = [c \in LLMCalls |-> FALSE]

Goto(c, where) == llmAt' = [llmAt EXCEPT ![c] = where]

-----------------------------------------------------------------------------
(* The breaker: each operation is one critical section. *)

\* The probe slot is free, or its probe is taken for lost.
SlotFreeNoLeakGuard == halfOpenInflight = 0

SlotFree == halfOpenInflight = 0 \/ probeElapsed

Admits ==
  CASE circuit = "closed"   -> TRUE
    [] circuit = "open"     -> openElapsed
    [] circuit = "halfOpen" -> SlotFree

Allow(c) ==
  /\ llmAt[c] = "asking"
  /\ IF Admits
     THEN /\ Goto(c, "trying")
          /\ asProbe' = [asProbe EXCEPT ![c] = circuit # "closed"]
          /\ IF circuit = "closed"
             THEN UNCHANGED <<circuit, halfOpenSuccess, halfOpenInflight, probeElapsed>>
             ELSE /\ circuit' = "halfOpen"
                  /\ halfOpenSuccess' = IF circuit = "open" THEN 0 ELSE halfOpenSuccess
                  /\ halfOpenInflight' = 1 /\ probeElapsed' = FALSE
     ELSE /\ Goto(c, "idle")
          /\ UNCHANGED <<circuit, halfOpenSuccess, halfOpenInflight, probeElapsed, asProbe>>
  /\ UNCHANGED <<failureCount, openElapsed, attempt, unreported>>

RecordSuccess(c) ==
  /\ llmAt[c] = "trying"
  /\ Goto(c, "idle")
  /\ LET closes == circuit = "halfOpen" /\ halfOpenSuccess + 1 >= SuccessThreshold IN
     /\ circuit' = IF closes THEN "closed" ELSE circuit
     /\ failureCount' = IF closes \/ circuit = "closed" THEN 0 ELSE failureCount
     /\ halfOpenSuccess' = IF closes THEN 0
                           ELSE IF circuit = "halfOpen" THEN halfOpenSuccess + 1
                           ELSE halfOpenSuccess
     /\ halfOpenInflight' = IF circuit = "halfOpen" THEN 0 ELSE halfOpenInflight
  /\ UNCHANGED <<openElapsed, probeElapsed, attempt, asProbe, unreported>>

RecordFailure(c) ==
  /\ llmAt[c] = "reporting"
  /\ Goto(c, "idle")
  /\ unreported' = [unreported EXCEPT ![c] = FALSE]
  /\ failureCount' = IF circuit = "closed" THEN failureCount + 1 ELSE failureCount
  /\ circuit' = IF circuit = "halfOpen" \/ (circuit = "closed" /\ failureCount' >= FailureThreshold)
                THEN "open" ELSE circuit
  /\ halfOpenInflight' = IF circuit = "halfOpen" THEN 0 ELSE halfOpenInflight
  /\ openElapsed' = IF circuit = "open" THEN openElapsed ELSE FALSE
  /\ UNCHANGED <<halfOpenSuccess, probeElapsed, attempt, asProbe>>

-----------------------------------------------------------------------------
(* withRetry. *)

CallLLM(c) ==
  /\ llmAt[c] = "idle"
  /\ Goto(c, "asking")
  /\ attempt' = [attempt EXCEPT ![c] = 1]
  /\ unreported' = [unreported EXCEPT ![c] = FALSE]
  /\ UNCHANGED <<breaker, asProbe>>

\* The attempt fails; it is tried again while it is worth it, and otherwise
\* given up: a retryable failure is reported for certain.
Fail(c) ==
  /\ llmAt[c] = "trying"
  /\ unreported' = [unreported EXCEPT ![c] = asProbe[c]]
  /\ \/ attempt[c] < Attempts /\ Goto(c, "backoff")
     \/ attempt[c] = Attempts /\ Goto(c, "reporting")
     \/ Goto(c, "lost")
  /\ UNCHANGED <<breaker, attempt, asProbe>>

\* A failure that cannot be retried, or a cancelled call: it counts only if the
\* circuit is half-open at this moment.
JudgeLost(c) ==
  /\ llmAt[c] = "lost"
  /\ Goto(c, IF circuit = "halfOpen" THEN "reporting" ELSE "idle")
  /\ unreported' = [unreported EXCEPT ![c] = @ /\ circuit = "halfOpen"]
  /\ UNCHANGED <<breaker, attempt, asProbe>>

BackOff(c) ==
  /\ llmAt[c] = "backoff"
  /\ Goto(c, "asking")
  /\ attempt' = [attempt EXCEPT ![c] = @ + 1]
  /\ UNCHANGED <<breaker, asProbe, unreported>>

\* The leak guard is there for this one.
CancelInBackOff(c) ==
  /\ llmAt[c] = "backoff"
  /\ Goto(c, "idle")
  /\ unreported' = [unreported EXCEPT ![c] = FALSE]
  /\ UNCHANGED <<breaker, attempt, asProbe>>

OpenTimeoutPasses ==
  /\ ~ openElapsed /\ openElapsed' = TRUE
  /\ UNCHANGED <<circuit, failureCount, halfOpenSuccess, halfOpenInflight, probeElapsed,
                 llmAt, attempt, asProbe, unreported>>

ProbeTimeoutPasses ==
  /\ ~ probeElapsed /\ probeElapsed' = TRUE
  /\ UNCHANGED <<circuit, failureCount, halfOpenSuccess, halfOpenInflight, openElapsed,
                 llmAt, attempt, asProbe, unreported>>

LLMNext ==
  \/ \E c \in LLMCalls :
       \/ CallLLM(c) \/ Allow(c) \/ RecordSuccess(c) \/ RecordFailure(c)
       \/ Fail(c) \/ JudgeLost(c) \/ BackOff(c) \/ CancelInBackOff(c)
  \/ OpenTimeoutPasses \/ ProbeTimeoutPasses

LLMSpec == LLMInit /\ [][LLMNext]_llm

\* Time passes; no call need ever be made, answered or given up.
LLMFairness == WF_llm(OpenTimeoutPasses) /\ WF_llm(ProbeTimeoutPasses)

-----------------------------------------------------------------------------
LLMTypeOK ==
  /\ circuit \in {"closed", "open", "halfOpen"}
  /\ failureCount \in 0 .. FailureThreshold
  /\ circuit = "closed" => failureCount < FailureThreshold
  /\ halfOpenSuccess \in 0 .. SuccessThreshold - 1 /\ halfOpenInflight \in {0, 1}
  /\ openElapsed \in BOOLEAN /\ probeElapsed \in BOOLEAN
  /\ llmAt \in [LLMCalls -> LLMAt]
  /\ attempt \in [LLMCalls -> 1 .. Attempts]
  /\ asProbe \in [LLMCalls -> BOOLEAN] /\ unreported \in [LLMCalls -> BOOLEAN]

\* However calls are lost, cancelled and answered late, the breaker comes to
\* admit a call again and again: no slot stays taken for ever (resilience.go:161).
BreakerAdmitsAgain == []<>Admits

\* "a HALF-OPEN probe failure must ALWAYS re-open the circuit and release the
\* probe slot" (resilience.go:268): no call goes away with a probe's failure,
\* but one that is cancelled.
ProbeFailureIsReported == \A c \in LLMCalls : llmAt[c] = "idle" => ~ unreported[c]
=============================================================================
