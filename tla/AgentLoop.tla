----------------------------- MODULE AgentLoop -----------------------------
(***************************************************************************)
(* Agent.Run of the SDK (sdk/agent.go): a session of the memory manager    *)
(* for each run, and the loop of agentloop.Engine.Run, which asks the      *)
(* model, keeps its answer, and executes the tool calls the answer asks    *)
(* for.  Runs share the SessionMemory (ares_memory/context/session.go),    *)
(* which evicts, expires and deletes sessions while they are in use.       *)
(* Texts are left out: a message is its role and what it refers to.  Tool  *)
(* calls are numbered within the answer that makes them.  Memory and       *)
(* distillation are enabled, which is where there is something to keep.    *)
(* A session id is the agent's name and the clock in nanoseconds           *)
(* (manager_impl.go:316); that two runs of one agent never read the same   *)
(* nanosecond is assumed, and is what makes the session a run's own.       *)
(***************************************************************************)
EXTENDS Conversation

CONSTANTS
  AgentRuns,      \* calls of Agent.Run
  LoopMaxIter,    \* Request.MaxIter
  LoopMaxTokens,  \* Request.MaxTokens, 0 for no budget
  MaxCalls,       \* bound: tool calls in one answer of each run
  ToolPool,       \* tools that discovery can find
  MaxSessions,    \* SessionMemory.maxSize
  SessionTTL,     \* SessionMemory.ttl, in ticks
  LoopHorizon     \* bound: ticks of the clock

ASSUME AgentLoopAssumption ==
  /\ {LoopMaxIter, MaxSessions} \subseteq Nat \ {0}
  /\ {LoopMaxTokens, SessionTTL, LoopHorizon} \subseteq Nat
  /\ MaxCalls \in [AgentRuns -> Nat]
  /\ IsFiniteSet(AgentRuns)

VARIABLES
  agentRun,    \* per run: where it is, its messages, tools, calls to do, budgets
  memory   \* SessionMemory: the sessions, longest unused first, and their age

agentLoopVars == <<agentRun, memory>>

-----------------------------------------------------------------------------
DiscoverTools == "discover_tools"
SessionStarted == Said("system", <<>>, 0)

NewLoop ==
  [at |-> "new", said |-> <<>>, active |-> <<DiscoverTools>>, todo |-> <<>>,
   iter |-> 0, tokens |-> 0, late |-> FALSE, told |-> 0]

AgentLoopInit ==
  /\ agentRun = [r \in AgentRuns |-> NewLoop]
  /\ memory = [sessions |-> [r \in AgentRuns |-> <<>>], order |-> <<>>,
               idle |-> [r \in AgentRuns |-> 0], cleaning |-> TRUE, now |-> 0]

(* A session that is not there has no messages: one that is there has at   *)
(* least the message CreateSession puts into it.                           *)
LiveSessions == {r \in AgentRuns : memory.sessions[r] # <<>>}
Without(m, gone) ==
  [m EXCEPT !.sessions = [r \in AgentRuns |-> IF r \in gone THEN <<>> ELSE @[r]],
            !.order = SelectSeq(@, LAMBDA r : r \notin gone),
            !.idle = [r \in AgentRuns |-> IF r \in gone THEN 0 ELSE @[r]]]

(* Set and AddMessage make a session the most recently used one.           *)
Touched(m, r, messages) ==
  [m EXCEPT !.sessions[r] = messages, !.order = Append(SelectSeq(@, LAMBDA s : s # r), r),
            !.idle[r] = 0]

(* Mutant: a message brings back the session that is gone.                 *)
AddMessageReviving(r, message) ==
  memory' = Touched(memory, r, Append(memory.sessions[r], message))

(* SessionMemory.AddMessage; the callers ignore ErrSessionNotFound.        *)
AddMessage(r, message) ==
  memory' = IF r \in LiveSessions
            THEN Touched(memory, r, Append(memory.sessions[r], message))
            ELSE memory

-----------------------------------------------------------------------------
(* Agent.Run: CreateSession.  Set makes room by evicting the session that  *)
(* has been unused for longest, whether or not a run is using it.          *)
CreateSession(r) ==
  /\ agentRun[r].at = "new"
  /\ LET full == Cardinality(LiveSessions) >= MaxSessions
         room == IF full THEN Without(memory, {Head(memory.order)}) ELSE memory
     IN memory' = Touched(room, r, <<SessionStarted>>)
  /\ agentRun' = [agentRun EXCEPT ![r].at = "build"]

(* buildMessages: the prompt, and the user's message put into the session. *)
BuildMessages(r) ==
  /\ agentRun[r].at = "build"
  /\ agentRun' = [agentRun EXCEPT ![r].at = "ask", ![r].said = <<FromUser>>]
  /\ AddMessage(r, FromUser)

(* Engine.Run ends with a Result: emitTaskCompleted, whatever ended it.    *)
Returns(l) == [l EXCEPT !.at = "done", !.told = @ + 1]

(* Generate returns: the budgets are checked before the answer is kept.    *)
Generate(r) ==
  /\ agentRun[r].at = "ask"
  /\ \E calls \in BoundedSeq(ToolPool \cup {DiscoverTools}, MaxCalls[r]), used \in {0, 1} :
       LET spent == [agentRun[r] EXCEPT !.tokens = @ + used]
           over == LoopMaxTokens > 0 /\ spent.tokens >= LoopMaxTokens
       IN agentRun' = [agentRun EXCEPT ![r] =
            IF over \/ spent.late THEN Returns(spent)
            ELSE [spent EXCEPT !.at = "keep", !.said = Append(@, Answer(calls)),
                               !.todo = calls]]
  /\ UNCHANGED memory

GenerateFails(r) ==
  /\ agentRun[r].at = "ask"
  /\ agentRun' = [agentRun EXCEPT ![r].at = "failed"]
  /\ UNCHANGED memory

(* The answer is persisted with its tool calls; one without any is final.  *)
KeepAnswer(r) ==
  /\ agentRun[r].at = "keep"
  /\ AddMessage(r, Last(agentRun[r].said))
  /\ agentRun' = [agentRun EXCEPT ![r] = IF @.todo = <<>> THEN Returns(@)
                                 ELSE [@ EXCEPT !.at = "tools"]]

(* The message about the next call of the batch is appended.              *)
Answered(l) ==
  [l EXCEPT !.said = Append(@, ToolResult(Unanswered(@, l.todo))), !.todo = Tail(@)]

(* The end of a batch is the end of an iteration.                          *)
NextIteration(l) ==
  IF l.todo # <<>> THEN l
  ELSE IF l.iter + 1 >= LoopMaxIter THEN Returns([l EXCEPT !.iter = @ + 1])
  ELSE [l EXCEPT !.at = "ask", !.iter = @ + 1]

(* Mutant: a rejected call is passed over in silence.                      *)
RejectedSilently(l) == [l EXCEPT !.todo = Tail(@)]

(* HumanInput says no: the model is told so.                               *)
Rejected(l) == Answered(l)
ToolRejected(r) ==
  /\ agentRun[r].at = "tools"
  /\ agentRun' = [agentRun EXCEPT ![r] = NextIteration(Rejected(@))]
  /\ UNCHANGED memory

(* HumanInput fails: the run is aborted in the middle of the batch.        *)
HumanInputFails(r) ==
  /\ agentRun[r].at = "tools"
  /\ agentRun' = [agentRun EXCEPT ![r].at = "failed"]
  /\ UNCHANGED memory

(* expandDiscoveredTools: the tools found that are not yet active.         *)
Expanded(active, found) ==
  active \o Picked(found, {i \in DOMAIN found : /\ found[i] \notin ToSet(active)
                                               /\ \A j \in 1..(i - 1) : found[j] # found[i]})

(* A tool runs; its result or its error is told.  Discovery that succeeds  *)
(* makes what it finds callable from the next iteration on.                *)
ToolRuns(r) ==
  /\ agentRun[r].at = "tools"
  /\ \E found \in BoundedSeq(ToolPool, 2) :
       /\ Head(agentRun[r].todo) # DiscoverTools => found = <<>>
       /\ agentRun' = [agentRun EXCEPT ![r] =
            NextIteration(Answered([agentRun[r] EXCEPT !.active = Expanded(@, found)]))]
  /\ UNCHANGED memory

-----------------------------------------------------------------------------
(* Cleanup, every half TTL: the sessions unused for longer than the TTL.   *)
ExpireSessions ==
  /\ memory.cleaning
  /\ LET expired == {r \in LiveSessions : memory.idle[r] > SessionTTL}
     IN expired # {} /\ memory' = Without(memory, expired)
  /\ UNCHANGED agentRun

(* DeleteSession, by whoever uses the memory manager.                      *)
DeleteSession(r) ==
  /\ r \in LiveSessions
  /\ memory' = Without(memory, {r})
  /\ UNCHANGED agentRun

(* Stop: the cleaner ends and all sessions are cleared; runs go on.        *)
StopMemory ==
  /\ memory.cleaning
  /\ memory' = [Without(memory, LiveSessions) EXCEPT !.cleaning = FALSE]
  /\ UNCHANGED agentRun

(* Time: sessions age, and any run may be past its Timeout.                *)
LoopTick ==
  /\ memory.now < LoopHorizon
  /\ memory' = [memory EXCEPT !.now = @ + 1,
                  !.idle = [r \in AgentRuns |-> IF r \in LiveSessions THEN @[r] + 1 ELSE 0]]
  /\ \E overdue \in SUBSET {r \in AgentRuns : agentRun[r].at = "ask"} :
       agentRun' = [r \in AgentRuns |-> IF r \in overdue THEN [agentRun[r] EXCEPT !.late = TRUE]
                                    ELSE agentRun[r]]

AgentLoopNext ==
  \/ \E r \in AgentRuns :
       \/ CreateSession(r) \/ BuildMessages(r) \/ Generate(r) \/ GenerateFails(r)
       \/ KeepAnswer(r) \/ ToolRejected(r) \/ HumanInputFails(r) \/ ToolRuns(r)
       \/ DeleteSession(r)
  \/ ExpireSessions \/ StopMemory \/ LoopTick

AgentLoopSpec == AgentLoopInit /\ [][AgentLoopNext]_agentLoopVars

-----------------------------------------------------------------------------
AgentLoopTypeOK ==
  /\ \A r \in AgentRuns :
       /\ agentRun[r].at \in {"new", "build", "ask", "keep", "tools", "done", "failed"}
       /\ agentRun[r].iter \in 0..LoopMaxIter /\ agentRun[r].told \in {0, 1}
  /\ ToSet(memory.order) = LiveSessions

(* What is sent to the model is a conversation a provider accepts, and no  *)
(* tool is offered in it twice, though calls are rejected by a human, fail *)
(* and discover tools in the middle of a batch (engine.go:376-401, :418,   *)
(* :485-488).                                                              *)
RequestIsWellFormed ==
  \A r \in AgentRuns : agentRun[r].at = "ask" =>
    /\ AnsweredInOrder(agentRun[r].said)
    /\ LET active == agentRun[r].active
       IN \A i, j \in DOMAIN active : active[i] = active[j] => i = j

(* A session that memory still has is whole: it starts with its creation   *)
(* and holds the user's message and every answer of its run so far, though *)
(* sessions are evicted, expire and are deleted while their runs go on and *)
(* nobody looks at the error of AddMessage (engine.go:320-334,             *)
(* agent.go:257-259).                                                      *)
Persistent(said) == Picked(said, {i \in DOMAIN said : said[i].role # "tool"})
MemoryHasNoGaps ==
  \A r \in LiveSessions :
    LET kept == <<SessionStarted>> \o Persistent(agentRun[r].said)
    IN memory.sessions[r] = IF agentRun[r].at = "keep" THEN Front(kept) ELSE kept

(* A run is told to distillation exactly once if it returns a Result, the  *)
(* budgets and the iteration cap included, and never if it fails           *)
(* (engine.go:357-361).                                                    *)
EveryResultIsTold ==
  \A r \in AgentRuns : agentRun[r].told = IF agentRun[r].at = "done" THEN 1 ELSE 0
=============================================================================
