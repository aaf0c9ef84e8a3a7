----------------------------- MODULE TaskFabric -----------------------------
(***************************************************************************)
(* The Task Fabric (internal/taskfabric): durable tasks that agents own    *)
(* through leases.  Every exported method holds Fabric.mu from its first   *)
(* read to its last write, so one method is one action.  What is           *)
(* concurrent is the callers: an agent keeps the fencing token (the lease  *)
(* epoch) an Acquire returned for as long as it likes and may present it   *)
(* at any later time, after its lease expired, was preempted, or was taken *)
(* over by another agent.                                                  *)
(*                                                                         *)
(* Time is relative: a lease carries the ticks it has left, and Tick ages  *)
(* every lease.  Lease.IsExpired is then left = 0.  A task that was never  *)
(* created, or was deleted, is in the model state "ABSENT".                *)
(***************************************************************************)
EXTENDS Integers, FiniteSets

CONSTANTS
  Tasks,         \* task ids
  Agents,        \* agent ids
  Checkpoints,   \* values a quantum (or a submission) leaves in Checkpoint
  Nil,           \* Go's nil checkpoint, and the empty owner ""
  Deps,          \* Deps[t]: the Dependencies the submitter gives task t
  Priority,      \* Priority[t]: scheduling priority of t (higher wins)
  MaxRetries,    \* MaxRetries[t]: RetryPolicy.MaxRetries of t
  TTL,           \* lease duration in ticks
  MaxEpoch,      \* bound: number of acquisitions explored
  MaxAttempts    \* bound: value up to which Attempts is explored

ASSUME NilAssumption == Nil \notin Agents /\ Nil \notin Checkpoints
ASSUME PolicyAssumption ==
  /\ Deps \in [Tasks -> SUBSET Tasks]
  /\ Priority \in [Tasks -> Int]
  /\ MaxRetries \in [Tasks -> Int]
ASSUME BoundAssumption ==
  /\ TTL \in Nat \ {0}
  /\ MaxEpoch \in Nat
  /\ MaxAttempts \in Nat

VARIABLES
  state,       \* Task.State, or "ABSENT"
  owner,       \* Task.Owner, Nil for ""
  lease,       \* Task.Lease, NoLease for nil
  checkpoint,  \* Task.Checkpoint
  attempts,    \* Task.RetryPolicy.Attempts
  epoch,       \* Fabric.epoch, the fabric-wide fencing counter
  lastEvent,   \* the last record of each task in Fabric.events
  granted      \* tokens Acquire returned so far, with whom they went to

vars == <<state, owner, lease, checkpoint, attempts, epoch, lastEvent, granted>>

-----------------------------------------------------------------------------
(* Data.                                                                   *)

TaskState == {"READY", "LEASED", "RUNNING", "SUSPENDED", "COMPLETED", "FAILED"}
Held      == {"LEASED", "RUNNING", "SUSPENDED"}
Terminal  == {"COMPLETED", "FAILED"}

Lease   == [left : 0 .. TTL, epoch : Nat]
NoLease == [left |-> 0, epoch |-> 0]     \* real epochs start at 1

Token == [task : Tasks, agent : Agents, epoch : Nat]

EventType == {"none", "created", "ready", "acquired", "started", "yielded",
              "checkpointed", "preempted", "released", "completed", "failed",
              "expired"}
TaskEvent == [type : EventType, agent : Agents \cup {Nil},
              state : TaskState \cup {"ABSENT"},
              checkpoint : Checkpoints \cup {Nil}]
NoEvent   == [type |-> "none", agent |-> Nil, state |-> "ABSENT",
              checkpoint |-> Nil]

LegalTerminalReopen ==
         {<<"READY", "LEASED">>,
          <<"LEASED", "RUNNING">>, <<"LEASED", "READY">>,
          <<"RUNNING", "COMPLETED">>, <<"RUNNING", "FAILED">>,
          <<"RUNNING", "SUSPENDED">>, <<"RUNNING", "READY">>,
          <<"SUSPENDED", "LEASED">>, <<"SUSPENDED", "READY">>,
          <<"COMPLETED", "READY">>}

\* The transition table of the task state machine.
Legal == {<<"READY", "LEASED">>,
          <<"LEASED", "RUNNING">>, <<"LEASED", "READY">>,
          <<"RUNNING", "COMPLETED">>, <<"RUNNING", "FAILED">>,
          <<"RUNNING", "SUSPENDED">>, <<"RUNNING", "READY">>,
          <<"SUSPENDED", "LEASED">>, <<"SUSPENDED", "READY">>}

canTransition(from, to) == <<from, to>> \in Legal

IsExpired(t) == lease[t].left = 0

CanRetryOffByOne(t, n) == MaxRetries[t] <= 0 \/ n <= MaxRetries[t]

\* n is Attempts after the increment Fail makes.
CanRetry(t, n) == MaxRetries[t] <= 0 \/ n < MaxRetries[t]

\* The fencing guard of every operation that carries a token.
ownerLockedAnyEpoch(t, a, e) == state[t] # "ABSENT" /\ owner[t] = a

ownerLocked(t, a, e) ==
  /\ state[t] # "ABSENT"
  /\ owner[t] # Nil /\ owner[t] = a
  /\ lease[t] # NoLease /\ lease[t].epoch = e

\* Some caller presents a token it was handed at some point.
Presented(t, a, e) == [task |-> t, agent |-> a, epoch |-> e] \in granted

\* Task.transition.
transition(t, to) ==
  /\ canTransition(state[t], to)
  /\ state' = [state EXCEPT ![t] = to]

\* The last record recordLocked appends to Fabric.events in a step.
recordLocked(t, type) ==
  lastEvent' = [lastEvent EXCEPT ![t] =
    [type |-> type, agent |-> owner'[t], state |-> state'[t],
     checkpoint |-> checkpoint'[t]]]

\* t.Owner = "" and t.Lease = nil, for every task of S.
disown(S) ==
  /\ owner' = [t \in Tasks |-> IF t \in S THEN Nil ELSE owner[t]]
  /\ lease' = [t \in Tasks |-> IF t \in S THEN NoLease ELSE lease[t]]

-----------------------------------------------------------------------------
(* Queries the scheduler asks under the lock.                              *)

depsSettledLocked(t) == \A d \in Deps[t] : state[d] \in Terminal

depsCompletedLocked(t) == \A d \in Deps[t] : state[d] = "COMPLETED"

IsReady(t) == state[t] = "READY" /\ depsCompletedLocked(t)

ReadyTasks == {t \in Tasks : IsReady(t)}

ResumableTasks ==
  ReadyTasks \cup {t \in Tasks : /\ state[t] = "SUSPENDED"
                                 /\ lease[t] # NoLease /\ ~IsExpired(t)}

\* A RunningTask snapshot; the priority of a task never changes.
RunningTasks ==
  {[task |-> t, agent |-> owner[t], epoch |-> lease[t].epoch] :
     t \in {u \in Tasks : state[u] = "RUNNING" /\ lease[u] # NoLease}}

-----------------------------------------------------------------------------
(* Operations.                                                             *)

Init ==
  /\ state = [t \in Tasks |-> "ABSENT"]
  /\ owner = [t \in Tasks |-> Nil]
  /\ lease = [t \in Tasks |-> NoLease]
  /\ checkpoint = [t \in Tasks |-> Nil]
  /\ attempts = [t \in Tasks |-> 0]
  /\ epoch = 0
  /\ lastEvent = [t \in Tasks |-> NoEvent]
  /\ granted = {}

\* A submission hands over a fresh Task: its Checkpoint carries the
\* submission metadata, its Attempts are 0.
Create(t, cp) ==
  /\ state[t] = "ABSENT"
  /\ state' = [state EXCEPT ![t] = "READY"]
  /\ disown({t})
  /\ checkpoint' = [checkpoint EXCEPT ![t] = cp]
  /\ attempts' = [attempts EXCEPT ![t] = 0]
  /\ recordLocked(t, "created")
  /\ UNCHANGED <<epoch, granted>>

Acquire(t, a) ==
  /\ epoch < MaxEpoch
  /\ state[t] \in {"READY", "SUSPENDED"}
  /\ epoch' = epoch + 1
  /\ transition(t, "LEASED")
  /\ owner' = [owner EXCEPT ![t] = a]
  /\ lease' = [lease EXCEPT ![t] = [left |-> TTL, epoch |-> epoch + 1]]
  /\ granted' = granted \cup {[task |-> t, agent |-> a, epoch |-> epoch + 1]}
  /\ UNCHANGED <<checkpoint, attempts>>
  /\ recordLocked(t, "acquired")

Start(t, a, e) ==
  /\ Presented(t, a, e) /\ ownerLocked(t, a, e)
  /\ transition(t, "RUNNING")
  /\ UNCHANGED <<owner, lease, checkpoint, attempts, epoch, granted>>
  /\ recordLocked(t, "started")

\* Owner and lease stay: the task is SUSPENDED under its lease.  The
\* checkpoint is overwritten even by nil.
Yield(t, a, e, cp) ==
  /\ Presented(t, a, e) /\ ownerLocked(t, a, e)
  /\ transition(t, "SUSPENDED")
  /\ checkpoint' = [checkpoint EXCEPT ![t] = cp]
  /\ UNCHANGED <<owner, lease, attempts, epoch, granted>>
  /\ recordLocked(t, IF cp = Nil THEN "yielded" ELSE "checkpointed")

\* Owner and lease stay on a COMPLETED task.
Complete(t, a, e) ==
  /\ Presented(t, a, e) /\ ownerLocked(t, a, e)
  /\ transition(t, "COMPLETED")
  /\ UNCHANGED <<owner, lease, checkpoint, attempts, epoch, granted>>
  /\ recordLocked(t, "completed")

\* The checkpoint is written before the transition is tried: a refused call
\* (ErrIllegalState) has already replaced it and records no event.
CompleteWithCheckpoint(t, a, e, cp) ==
  /\ Presented(t, a, e) /\ ownerLocked(t, a, e)
  /\ checkpoint' = [checkpoint EXCEPT ![t] = cp]
  /\ UNCHANGED <<owner, lease, attempts, epoch, granted>>
  /\ \/ transition(t, "COMPLETED") /\ recordLocked(t, "completed")
     \/ ~canTransition(state[t], "COMPLETED") /\ UNCHANGED <<state, lastEvent>>

\* Attempts counts before the transition is tried, so a refused Fail still
\* spends an attempt.
Fail(t, a, e) ==
  LET n == attempts[t] + 1 IN
  /\ Presented(t, a, e) /\ ownerLocked(t, a, e)
  /\ attempts[t] < MaxAttempts
  /\ attempts' = [attempts EXCEPT ![t] = n]
  /\ UNCHANGED <<checkpoint, epoch, granted>>
  /\ \/ /\ CanRetry(t, n)
        /\ transition(t, "READY")
        /\ disown({t})
        /\ recordLocked(t, "ready")        \* after a "failed" record
     \/ /\ ~CanRetry(t, n)
        /\ transition(t, "FAILED")
        /\ UNCHANGED <<owner, lease>>
        /\ recordLocked(t, "failed")
     \/ /\ ~canTransition(state[t], IF CanRetry(t, n) THEN "READY" ELSE "FAILED")
        /\ UNCHANGED <<state, owner, lease, lastEvent>>

\* Only the token is checked: neither the state nor the expiry is.
Renew(t, a, e) ==
  /\ Presented(t, a, e) /\ ownerLocked(t, a, e)
  /\ lease' = [lease EXCEPT ![t].left = TTL]
  /\ UNCHANGED <<state, owner, checkpoint, attempts, epoch, lastEvent, granted>>

\* The body Release and Preempt share.
Return(t, a, e, type) ==
  /\ Presented(t, a, e) /\ ownerLocked(t, a, e)
  /\ transition(t, "READY")
  /\ disown({t})
  /\ UNCHANGED <<checkpoint, attempts, epoch, granted>>
  /\ recordLocked(t, type)

Release(t, a, e) == Return(t, a, e, "released")
Preempt(t, a, e) == Return(t, a, e, "preempted")

SweepableNoSuspended ==
  {t \in Tasks : lease[t] # NoLease /\ IsExpired(t) /\ state[t] \in Held \ {"SUSPENDED"}}

\* CheckExpiredLeases requeues every held task whose lease ran out, in one
\* critical section.
Sweepable      == {t \in Tasks : lease[t] # NoLease /\ IsExpired(t) /\ state[t] \in Held}

CheckExpiredLeases ==
  /\ Sweepable # {}
  /\ state' = [t \in Tasks |-> IF t \in Sweepable THEN "READY" ELSE state[t]]
  /\ disown(Sweepable)
  /\ lastEvent' = [t \in Tasks |->
       IF t \in Sweepable
       THEN [type |-> "expired", agent |-> Nil, state |-> "READY",
             checkpoint |-> checkpoint[t]]
       ELSE lastEvent[t]]
  /\ UNCHANGED <<checkpoint, attempts, epoch, granted>>

\* Delete removes the entry and records nothing: lastEvent keeps the past.
Delete(t) ==
  /\ state[t] \in {"READY"} \cup Terminal
  /\ state' = [state EXCEPT ![t] = "ABSENT"]
  /\ disown({t})
  /\ checkpoint' = [checkpoint EXCEPT ![t] = Nil]
  /\ attempts' = [attempts EXCEPT ![t] = 0]
  /\ UNCHANGED <<epoch, lastEvent, granted>>

\* The fabric clock advances: every lease has one tick less.
Tick ==
  /\ lease' = [t \in Tasks |->
       [lease[t] EXCEPT !.left = IF @ = 0 THEN 0 ELSE @ - 1]]
  /\ UNCHANGED <<state, owner, checkpoint, attempts, epoch, lastEvent, granted>>

-----------------------------------------------------------------------------
\* An operation a caller makes with the token (t, a, e).
TokenStep(t, a, e) ==
  \/ Start(t, a, e)
  \/ \E cp \in Checkpoints \cup {Nil} : Yield(t, a, e, cp)
  \/ Complete(t, a, e)
  \/ \E cp \in Checkpoints : CompleteWithCheckpoint(t, a, e, cp)
  \/ Fail(t, a, e)
  \/ Renew(t, a, e)
  \/ Release(t, a, e)
  \/ Preempt(t, a, e)

Next ==
  \/ \E t \in Tasks, cp \in Checkpoints \cup {Nil} : Create(t, cp)
  \/ \E t \in Tasks, a \in Agents : Acquire(t, a)
  \/ \E g \in granted : TokenStep(g.task, g.agent, g.epoch)
  \/ CheckExpiredLeases
  \/ \E t \in Tasks : Delete(t)
  \/ Tick

Spec == Init /\ [][Next]_vars

-----------------------------------------------------------------------------
(* Properties.                                                             *)

TypeOK ==
  /\ state \in [Tasks -> TaskState \cup {"ABSENT"}]
  /\ owner \in [Tasks -> Agents \cup {Nil}]
  /\ lease \in [Tasks -> Lease]
  /\ checkpoint \in [Tasks -> Checkpoints \cup {Nil}]
  /\ attempts \in [Tasks -> Nat]
  /\ epoch \in Nat
  /\ lastEvent \in [Tasks -> TaskEvent]
  /\ granted \subseteq Token

\* Owner, Lease and State never disagree (fabric.go: every requeue path clears
\* both, every other path keeps both): a READY task is nobody's, any other
\* task is held by the agent that was handed exactly its lease's token.
OwnerMatchesLease ==
  \A t \in Tasks :
    /\ state[t] \in {"READY", "ABSENT"} => owner[t] = Nil /\ lease[t] = NoLease
    /\ state[t] \in Held \cup Terminal =>
         [task |-> t, agent |-> owner[t], epoch |-> lease[t].epoch] \in granted

\* An epoch is handed out once, to one agent, for one task (Acquire bumps the
\* fabric-wide counter on every claim), so a token alone identifies a claim.
EpochIdentifiesGrant ==
  /\ \A g \in granted : g.epoch \in 1 .. epoch
  /\ \A g, h \in granted : g.epoch = h.epoch => g = h

\* The fencing promise of ownerLocked: a token that stopped opening its task
\* (lease expired, preempted, released, taken over, or the task deleted and
\* created again) never opens it again, not even for the same agent.
Opens(g) == ownerLocked(g.task, g.agent, g.epoch)

StaleTokenStaysStale ==
  [][\A g \in granted : ~Opens(g) => ~Opens(g)']_vars

\* "Agent death is not task death": whichever way a held task returns to
\* READY (Fail with retry, Release, Preempt, CheckExpiredLeases), the progress
\* it had is still there for the next holder.
CheckpointSurvivesRequeue ==
  [][\A t \in Tasks : state[t] \in Held /\ state'[t] = "READY"
       => checkpoint'[t] = checkpoint[t]]_vars

\* recordLocked runs in the same critical section as the change it records,
\* after it: the log's last word on a task is the task's present state and
\* owner.
LogFollowsState ==
  \A t \in Tasks : state[t] # "ABSENT" =>
    lastEvent[t].state = state[t] /\ lastEvent[t].agent = owner[t]

\* A holder that falls silent loses the task: a lease that has started to run
\* out is renewed or the task leaves the held states (CheckExpiredLeases on
\* the recovery ticker covers LEASED, RUNNING and SUSPENDED alike).
SilentHolderLosesTask ==
  \A t \in Tasks :
    (state[t] \in Held /\ lease[t].left < TTL)
      ~> (state[t] \notin Held \/ lease[t].left = TTL)

\* The fabric keeps the promise of TaskPromise: a held task is worked on under
\* its lease epoch, a task with a final state is done.
Promise == INSTANCE TaskPromise WITH
  Progress <- Checkpoints \cup {Nil},
  status   <- [t \in Tasks |-> CASE state[t] = "ABSENT"   -> "none"
                                 [] state[t] \in Terminal -> "done"
                                 [] OTHER                 -> "open"],
  holder   <- [t \in Tasks |-> lease[t].epoch],
  top      <- epoch,
  progress <- checkpoint

\* Every operation of the fabric, the refused ones that leave something behind
\* included, is a step of the promise or invisible to it.
RefinesPromise == Promise!Spec

=============================================================================
