-------------------------- MODULE ExecutionQuantum --------------------------
(***************************************************************************)
(* What the execution quanta of one task do with its checkpoint.  A        *)
(* quantum (agents/sub/executor.go ExecuteStep, of which chat_cognition.go *)
(* is a port) is one round of the tool loop: it decodes the conversation   *)
(* the last quantum stored, asks the model, runs the tools, and yields the *)
(* longer conversation to the fabric.  A drain waits for its goroutines,   *)
(* so quanta of a task do not overlap, but one that has lost the task runs *)
(* to its end and is refused.  Of the fabric only that is here: TaskFabric *)
(* and KernelScheduler have the rest.                                      *)
(***************************************************************************)
EXTENDS Conversation

CONSTANTS
  MaxToolRounds,  \* executor's maxToolRounds
  MaxBatch,       \* bound: tool calls in one answer
  QuantumRetries, \* the task's MaxRetries
  Shapes,         \* the executors' shapes, some of ExecutorShapes
  AnyTool         \* a tool; which one does not matter here

(* With a chat client and tools; with a model only; without a model, or for *)
(* a task without a profile.                                               *)
ExecutorShapes == {"chat", "text", "typed"}

ASSUME QuantumAssumption ==
  /\ {MaxToolRounds, MaxBatch, QuantumRetries} \subseteq Nat \ {0}
  /\ Shapes \in (SUBSET ExecutorShapes) \ {{}}

VARIABLE exec
  \* The task in the fabric, and its goroutine: where the quantum is, the
  \* executor's shape, its conversation and the calls of the batch to do.

-----------------------------------------------------------------------------
NoStep == <<>>

(* A chatStepState is its messages: Round counts the answers in them.      *)
Round(said) == Cardinality(Answers(said))

QuantumInit ==
  exec = [state |-> "READY", attempts |-> 0, stored |-> NoStep,
          at |-> "none", shape |-> "typed", said |-> NoStep, todo |-> NoStep]

(* No other quantum of the task runs: a held task is held by this one.     *)
Holds == exec.state = "RUNNING"
Over == [exec EXCEPT !.at = "none", !.shape = "typed", !.said = NoStep, !.todo = NoStep]

(* The scheduler acquires the task with a snapshot of its checkpoint.      *)
AcquireQuantum ==
  /\ exec.state = "READY" /\ exec.at = "none"
  /\ \E shape \in Shapes :
       exec' = [exec EXCEPT !.state = "RUNNING", !.at = "acquired", !.shape = shape,
                            !.said = exec.stored]

(* The lease expires or the quantum is preempted; its checkpoint stays.    *)
LoseQuantum == Holds /\ exec' = [exec EXCEPT !.state = "READY"]

(* Start refuses a holder that has already lost the task.  ToModelTask     *)
(* surfaces the snapshot's checkpoint, decodeChatStepState copies it, and  *)
(* a resumed conversation needs an executor that can go on with it; one    *)
(* without a model does the task by its type, whatever was said before.    *)
Resumed(said, shape) ==
  CASE shape = "typed" -> "typed"
    [] shape = "text" -> IF said = NoStep THEN "text" ELSE "failed"
    [] OTHER -> IF Round(said) >= MaxToolRounds THEN "text" ELSE "ask"

StartQuantum ==
  /\ exec.at = "acquired"
  /\ exec' = IF Holds
             THEN [exec EXCEPT !.at = Resumed(exec.said, exec.shape),
                               !.said = IF @ = NoStep THEN <<FromUser>> ELSE @]
             ELSE Over

(* chatStep: the model fails, answers, or asks for tools.                  *)
ChatEnds ==
  /\ exec.at = "ask"
  /\ \E outcome \in {"failed", "answered"} : exec' = [exec EXCEPT !.at = outcome]

ChatCallsTools ==
  /\ exec.at = "ask"
  /\ \E n \in 1..MaxBatch :
       LET calls == [k \in 1..n |-> AnyTool]
       IN exec' = [exec EXCEPT !.at = "tools", !.said = Append(@, Answer(calls)),
                               !.todo = calls]

(* Mutant: the quantum yields in the middle of a batch.                    *)
RunToolYielding ==
  /\ exec.at = "tools"
  /\ LET observed == ToolResult(Unanswered(exec.said, exec.todo))
     IN exec' = [exec EXCEPT !.at = "progressed", !.said = Append(@, observed),
                             !.todo = Tail(@)]

(* One call of the batch; a failing tool is observed like any other.       *)
RunTool ==
  /\ exec.at = "tools"
  /\ LET left == Tail(exec.todo)
         observed == ToolResult(Unanswered(exec.said, exec.todo))
     IN exec' = [exec EXCEPT !.at = IF left = <<>> THEN "progressed" ELSE "tools",
                             !.said = Append(@, observed), !.todo = left]

(* executeWithLLMTextOnly: without tools, or when the rounds are spent.    *)
TextOnly ==
  /\ exec.at = "text"
  /\ \E outcome \in {"failed", "answered"} : exec' = [exec EXCEPT !.at = outcome]

(* singleQuantum: executeByType fails or does the task.                    *)
ByType ==
  /\ exec.at = "typed"
  /\ \E outcome \in {"failed", "answered"} : exec' = [exec EXCEPT !.at = outcome]

(* RunQuantum's ends.  The fabric refuses those of a stale holder.         *)
YieldQuantum ==
  /\ exec.at = "progressed"
  /\ exec' = IF Holds THEN [Over EXCEPT !.state = "READY", !.stored = exec.said] ELSE Over

FailQuantum ==
  /\ exec.at = "failed"
  /\ LET final == exec.attempts + 1 >= QuantumRetries
     IN exec' = IF Holds
                THEN [Over EXCEPT !.state = IF final THEN "FAILED" ELSE "READY",
                                  !.attempts = @ + 1]
                ELSE Over

(* finalizeErr's guard may still refuse the answer.                        *)
CompleteQuantum ==
  /\ exec.at = "answered"
  /\ \/ exec' = [exec EXCEPT !.at = "failed"]
     \/ exec' = [Over EXCEPT !.state = IF Holds THEN "COMPLETED" ELSE @]

QuantumNext ==
  \/ AcquireQuantum \/ LoseQuantum \/ StartQuantum \/ ChatEnds \/ ChatCallsTools
  \/ RunTool \/ TextOnly \/ ByType \/ YieldQuantum \/ FailQuantum \/ CompleteQuantum

QuantumSpec == QuantumInit /\ [][QuantumNext]_exec

-----------------------------------------------------------------------------
QuantumTypeOK ==
  /\ exec.state \in {"READY", "RUNNING", "COMPLETED", "FAILED"}
  /\ exec.attempts \in 0..QuantumRetries

(* What a quantum sends to the model is the conversation as it is stored,  *)
(* within the budget of rounds, and what is stored is one that a provider  *)
(* accepts, however quanta are lost, fail and are taken up again by        *)
(* executors of another shape (executor.go:397-408, :757-820).             *)
ConversationIsWhole ==
  /\ AnsweredInOrder(exec.stored) /\ Round(exec.stored) <= MaxToolRounds
  /\ exec.at = "ask" =>
       /\ Round(exec.said) < MaxToolRounds
       /\ exec.said = IF exec.stored = NoStep THEN <<FromUser>> ELSE exec.stored

(* "the task with this checkpoint preserved; a later quantum resumes from  *)
(* it" (executor.go:412-414): what is stored only grows.                   *)
ProgressIsNeverLost ==
  [][exec'.stored # exec.stored => IsPrefix(exec.stored, exec'.stored)]_exec
=============================================================================
