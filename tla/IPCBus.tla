------------------------------- MODULE IPCBus -------------------------------
(***************************************************************************)
(* Request and reply on the peer message bus (internal/agentipc).  A       *)
(* Request looks the handler up, opens a pending entry, runs the handler   *)
(* in a goroutine and waits for the reply channel, its context or its      *)
(* timer.  Delegate and Handoff are Requests.  Reply may come from anybody *)
(* who has seen the correlation id, before or after the handler returned.  *)
(*                                                                         *)
(* A request stands for its correlation id; what the bus tells apart in a  *)
(* message is whether it is a reply or the nil sentinel of an error.       *)
(***************************************************************************)
EXTENDS Integers, Sequences, FiniteSets

CONSTANTS
  Peers,      \* agents that may be on the bus
  Requests,   \* calls of Request
  Target      \* the agent a request is for

ASSUME IPCAssumption == Target \in [Requests -> Peers]

VARIABLES
  handlers,     \* Bus.handlers, as the set of registered agents
  pending,      \* Bus.pending
  pendingErr,   \* Bus.pendingErr
  replyCh,      \* the channel of each request, of capacity one
  caller,       \* where the caller of each request stands
  outcome,      \* what it returns
  worker        \* where the goroutine of its handler stands

bus == <<handlers, pending, pendingErr, replyCh, caller, outcome, worker>>

CallerState == {"idle", "found", "waiting", "woken", "leaving", "done"}
Outcome     == {"none", "unregistered", "reply", "error", "timeout", "cancelled"}
WorkerState == {"none", "running", "failed", "stashed", "replying", "ended"}
Delivery    == {"reply", "nil"}

BusInit ==
  /\ handlers = {}
  /\ pending = {} /\ pendingErr = {}
  /\ replyCh = [r \in Requests |-> <<>>]
  /\ caller = [r \in Requests |-> "idle"]
  /\ outcome = [r \in Requests |-> "none"]
  /\ worker = [r \in Requests |-> "none"]

-----------------------------------------------------------------------------
Register(a) ==
  /\ handlers' = handlers \cup {a}
  /\ UNCHANGED <<pending, pendingErr, replyCh, caller, outcome, worker>>

\* Requests under way to a are not touched.
Unregister(a) ==
  /\ handlers' = handlers \ {a}
  /\ UNCHANGED <<pending, pendingErr, replyCh, caller, outcome, worker>>

-----------------------------------------------------------------------------
(* The caller. *)
LookUp(r) ==
  /\ caller[r] = "idle"
  /\ IF Target[r] \in handlers
     THEN caller' = [caller EXCEPT ![r] = "found"] /\ UNCHANGED outcome
     ELSE /\ caller' = [caller EXCEPT ![r] = "done"]
          /\ outcome' = [outcome EXCEPT ![r] = "unregistered"]
  /\ UNCHANGED <<handlers, pending, pendingErr, replyCh, worker>>

\* The pending entry is there before the handler can run.
Open(r) ==
  /\ caller[r] = "found"
  /\ pending' = pending \cup {r}
  /\ worker' = [worker EXCEPT ![r] = "running"]
  /\ caller' = [caller EXCEPT ![r] = "waiting"]
  /\ UNCHANGED <<handlers, pendingErr, replyCh, outcome>>

Leave(r, what) ==
  /\ outcome' = [outcome EXCEPT ![r] = what]
  /\ caller' = [caller EXCEPT ![r] = "leaving"]

TakeReply(r) ==
  /\ caller[r] = "waiting" /\ replyCh[r] # <<>>
  /\ replyCh' = [replyCh EXCEPT ![r] = <<>>]
  /\ IF Head(replyCh[r]) = "reply"
     THEN Leave(r, "reply")
     ELSE caller' = [caller EXCEPT ![r] = "woken"] /\ UNCHANGED outcome
  /\ UNCHANGED <<handlers, pending, pendingErr, worker>>

TimerFiresAfterHandler(r) ==
  /\ caller[r] = "waiting" /\ worker[r] # "running"
  /\ Leave(r, "timeout")
  /\ UNCHANGED <<handlers, pending, pendingErr, replyCh, worker>>

\* The select may take a timer that fired although a reply is there.
TimerFires(r) ==
  /\ caller[r] = "waiting"
  /\ Leave(r, "timeout")
  /\ UNCHANGED <<handlers, pending, pendingErr, replyCh, worker>>

ContextDoneReturning(r) ==
  /\ caller[r] = "waiting"
  /\ outcome' = [outcome EXCEPT ![r] = "cancelled"]
  /\ caller' = [caller EXCEPT ![r] = "done"]
  /\ UNCHANGED <<handlers, pending, pendingErr, replyCh, worker>>

ContextDone(r) ==
  /\ caller[r] = "waiting"
  /\ Leave(r, "cancelled")
  /\ UNCHANGED <<handlers, pending, pendingErr, replyCh, worker>>

popError(r) ==
  /\ caller[r] = "woken"
  /\ Leave(r, IF r \in pendingErr THEN "error" ELSE "timeout")
  /\ pendingErr' = pendingErr \ {r}
  /\ UNCHANGED <<handlers, pending, replyCh, worker>>

\* Deferred, on every way out of the select.
removePending(r) ==
  /\ caller[r] = "leaving"
  /\ pending' = pending \ {r} /\ pendingErr' = pendingErr \ {r}
  /\ caller' = [caller EXCEPT ![r] = "done"]
  /\ UNCHANGED <<handlers, replyCh, outcome, worker>>

-----------------------------------------------------------------------------
(* The handler's goroutine, and replies from elsewhere. *)

\* An error, a reply, or neither: the answer then comes by Reply, or never.
HandlerReturns(r) ==
  /\ worker[r] = "running"
  /\ \E next \in {"failed", "replying", "ended"} : worker' = [worker EXCEPT ![r] = next]
  /\ UNCHANGED <<handlers, pending, pendingErr, replyCh, caller, outcome>>

\* Whether the request is still pending is not asked.
stashError(r) ==
  /\ worker[r] = "failed"
  /\ pendingErr' = pendingErr \cup {r}
  /\ worker' = [worker EXCEPT ![r] = "stashed"]
  /\ UNCHANGED <<handlers, pending, replyCh, caller, outcome>>

\* Dropped when the request is gone or its channel is full.  Lookup and send
\* are one step: a request that leaves in between never reads the channel.
push(r, m) ==
  replyCh' = [replyCh EXCEPT ![r] = IF r \in pending /\ @ = <<>> THEN <<m>> ELSE @]

deliverReply(r) ==
  /\ worker[r] \in {"stashed", "replying"}
  /\ push(r, IF worker[r] = "stashed" THEN "nil" ELSE "reply")
  /\ worker' = [worker EXCEPT ![r] = "ended"]
  /\ UNCHANGED <<handlers, pending, pendingErr, caller, outcome>>

\* The correlation id is known as soon as the handler has its message.
Reply(r) ==
  /\ worker[r] # "none"
  /\ push(r, "reply")
  /\ UNCHANGED <<handlers, pending, pendingErr, caller, outcome, worker>>

CallerStep(r) ==
  \/ LookUp(r) \/ Open(r) \/ TakeReply(r) \/ TimerFires(r)
  \/ popError(r) \/ removePending(r)

BusNext ==
  \/ \E a \in Peers : Register(a) \/ Unregister(a)
  \/ \E r \in Requests :
       CallerStep(r) \/ ContextDone(r) \/ HandlerReturns(r) \/ stashError(r)
         \/ deliverReply(r) \/ Reply(r)

BusSpec == BusInit /\ [][BusNext]_bus

\* A caller runs and its timer fires; handlers need not return, and nobody
\* has to cancel a context.
BusFairness == \A r \in Requests : WF_bus(CallerStep(r))

-----------------------------------------------------------------------------
BusTypeOK ==
  /\ handlers \subseteq Peers
  /\ pending \subseteq Requests /\ pendingErr \subseteq Requests
  /\ replyCh \in [Requests -> {<<>>} \cup {<<m>> : m \in Delivery}]
  /\ caller \in [Requests -> CallerState]
  /\ outcome \in [Requests -> Outcome]
  /\ worker \in [Requests -> WorkerState]

\* A caller woken by the nil sentinel finds the handler's error in the stash,
\* so a handler that failed is never reported as a timeout (primitives.go:121).
ErrorReachesItsCaller == \A r \in Requests : caller[r] = "woken" => r \in pendingErr

\* The tables hold nothing for a request that returned, but the error of a
\* handler that failed too late to be reported (primitives.go:98).
OnlyLateErrorsStay ==
  \A r \in Requests : caller[r] = "done" =>
    /\ r \notin pending
    /\ r \in pendingErr => worker[r] \in {"stashed", "ended"} /\ outcome[r] # "error"

\* The stash of errors serves the callers that wait and nobody else.
StashIsExact == ErrorReachesItsCaller /\ OnlyLateErrorsStay

\* A request returns even if its handler never does.
EveryRequestReturns == \A r \in Requests : caller[r] = "found" ~> caller[r] = "done"

=============================================================================
