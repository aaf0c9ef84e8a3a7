-------------------------- MODULE TaskFabricProofs --------------------------
(***************************************************************************)
(* Machine-checked facts about the Task Fabric, for every number of tasks, *)
(* agents, checkpoints and acquisitions.                                   *)
(***************************************************************************)
EXTENDS TaskFabric, TLAPS

Fresh(t, a) == [task |-> t, agent |-> a, epoch |-> epoch + 1]

(* Which operation a step is.  Every proof below that goes over the steps   *)
(* of the fabric uses this list.                                           *)
LEMMA Steps ==
  ASSUME TypeOK, Next
  PROVE  \/ \E t \in Tasks, cp \in Checkpoints \cup {Nil} : Create(t, cp)
         \/ \E t \in Tasks, a \in Agents : Acquire(t, a)
         \/ \E t \in Tasks, a \in Agents, e \in Nat : Start(t, a, e)
         \/ \E t \in Tasks, a \in Agents, e \in Nat, cp \in Checkpoints \cup {Nil} :
              Yield(t, a, e, cp)
         \/ \E t \in Tasks, a \in Agents, e \in Nat : Complete(t, a, e)
         \/ \E t \in Tasks, a \in Agents, e \in Nat, cp \in Checkpoints :
              CompleteWithCheckpoint(t, a, e, cp)
         \/ \E t \in Tasks, a \in Agents, e \in Nat : Fail(t, a, e)
         \/ \E t \in Tasks, a \in Agents, e \in Nat : Renew(t, a, e)
         \/ \E t \in Tasks, a \in Agents, e \in Nat, type \in {"released", "preempted"} :
              Return(t, a, e, type)
         \/ CheckExpiredLeases
         \/ \E t \in Tasks : Delete(t)
         \/ Tick
<1>1. CASE \E g \in granted : TokenStep(g.task, g.agent, g.epoch)
  <2>1. PICK g \in granted : TokenStep(g.task, g.agent, g.epoch)
    BY <1>1
  <2>2. g.task \in Tasks /\ g.agent \in Agents /\ g.epoch \in Nat
    BY <2>1 DEF TypeOK, Token
  <2>. QED  BY <2>1, <2>2 DEF TokenStep, Release, Preempt
<1>. QED  BY <1>1 DEF Next

-----------------------------------------------------------------------------
(* Type correctness.                                                       *)

LEMMA Countdown ==
  \A n \in 0 .. TTL : (IF n = 0 THEN 0 ELSE n - 1) \in 0 .. TTL
BY BoundAssumption

LEMMA InitType == Init => TypeOK
BY BoundAssumption DEF Init, TypeOK, Lease, NoLease, TaskEvent, NoEvent, EventType

LEMMA StepType == TypeOK /\ [Next]_vars => TypeOK'
<1>. SUFFICES ASSUME TypeOK, [Next]_vars PROVE TypeOK'
  OBVIOUS
<1>. USE BoundAssumption DEF TypeOK, Lease, NoLease, TaskEvent, EventType,
                             TaskState, transition, disown, recordLocked
<1>1. ASSUME NEW t \in Tasks, NEW cp \in Checkpoints \cup {Nil}, Create(t, cp)
      PROVE TypeOK'
  BY <1>1 DEF Create
<1>2. ASSUME NEW t \in Tasks, NEW a \in Agents, Acquire(t, a)
      PROVE TypeOK'
  BY <1>2 DEF Acquire, Token
<1>3. ASSUME NEW t \in Tasks, NEW a \in Agents, NEW e \in Nat, Start(t, a, e)
      PROVE TypeOK'
  BY <1>3 DEF Start
<1>4. ASSUME NEW t \in Tasks, NEW a \in Agents, NEW e \in Nat,
             NEW cp \in Checkpoints \cup {Nil}, Yield(t, a, e, cp)
      PROVE TypeOK'
  BY <1>4 DEF Yield
<1>5. ASSUME NEW t \in Tasks, NEW a \in Agents, NEW e \in Nat, Complete(t, a, e)
      PROVE TypeOK'
  BY <1>5 DEF Complete
<1>6. ASSUME NEW t \in Tasks, NEW a \in Agents, NEW e \in Nat,
             NEW cp \in Checkpoints, CompleteWithCheckpoint(t, a, e, cp)
      PROVE TypeOK'
  <2>1. CASE transition(t, "COMPLETED") /\ recordLocked(t, "completed")
    BY <1>6, <2>1 DEF CompleteWithCheckpoint
  <2>2. CASE UNCHANGED <<state, lastEvent>>
    BY <1>6, <2>2 DEF CompleteWithCheckpoint
  <2>. QED  BY <1>6, <2>1, <2>2 DEF CompleteWithCheckpoint
<1>7. ASSUME NEW t \in Tasks, NEW a \in Agents, NEW e \in Nat, Fail(t, a, e)
      PROVE TypeOK'
  <2>1. CASE transition(t, "READY") /\ disown({t}) /\ recordLocked(t, "ready")
    BY <1>7, <2>1 DEF Fail
  <2>2. CASE /\ transition(t, "FAILED") /\ UNCHANGED <<owner, lease>>
             /\ recordLocked(t, "failed")
    BY <1>7, <2>2 DEF Fail
  <2>3. CASE UNCHANGED <<state, owner, lease, lastEvent>>
    BY <1>7, <2>3 DEF Fail
  <2>. QED  BY <1>7, <2>1, <2>2, <2>3 DEF Fail
<1>8. ASSUME NEW t \in Tasks, NEW a \in Agents, NEW e \in Nat, Renew(t, a, e)
      PROVE TypeOK'
  BY <1>8 DEF Renew
<1>9. ASSUME NEW t \in Tasks, NEW a \in Agents, NEW e \in Nat,
             NEW type \in {"released", "preempted"}, Return(t, a, e, type)
      PROVE TypeOK'
  BY <1>9 DEF Return
<1>10. CASE CheckExpiredLeases
  BY <1>10 DEF CheckExpiredLeases
<1>11. ASSUME NEW t \in Tasks, Delete(t)
       PROVE TypeOK'
  BY <1>11 DEF Delete
<1>12. CASE Tick
  <2>1. \A t \in Tasks : [lease[t] EXCEPT !.left = IF @ = 0 THEN 0 ELSE @ - 1] \in Lease
    <3>. TAKE t \in Tasks
    <3>1. lease[t] \in Lease
      OBVIOUS
    <3>2. lease[t].left \in 0 .. TTL /\ lease[t].epoch \in Nat
      BY <3>1
    <3>3. (IF lease[t].left = 0 THEN 0 ELSE lease[t].left - 1) \in 0 .. TTL
      BY <3>2, Countdown
    <3>. QED  BY <3>1, <3>3
  <2>2. lease' \in [Tasks -> Lease]
    BY <1>12, <2>1 DEF Tick
  <2>. QED  BY <1>12, <2>2 DEF Tick
<1>13. CASE UNCHANGED vars
  BY <1>13 DEF vars
<1>. QED
  BY <1>1, <1>2, <1>3, <1>4, <1>5, <1>6, <1>7, <1>8, <1>9, <1>10, <1>11, <1>12,
     <1>13, Steps

(* Every state of the fabric is well-typed, whatever its callers do.       *)
THEOREM TypeCorrect == Spec => []TypeOK
BY InitType, StepType, PTL DEF Spec

-----------------------------------------------------------------------------
(* Ownership and fencing.  OwnerMatchesLease is not inductive alone: that   *)
(* an owner's token was really granted must go along with the range of the *)
(* epochs granted so far, or a fresh grant could coincide with an old one. *)

FencingInv == TypeOK /\ OwnerMatchesLease /\ EpochIdentifiesGrant

\* The conjunct of OwnerMatchesLease about one task.
Matches(t) ==
  /\ state[t] \in {"READY", "ABSENT"} => owner[t] = Nil /\ lease[t] = NoLease
  /\ state[t] \in Held \cup Terminal =>
       [task |-> t, agent |-> owner[t], epoch |-> lease[t].epoch] \in granted

LEMMA InitFencing == Init => FencingInv
BY InitType DEF Init, FencingInv, OwnerMatchesLease, EpochIdentifiesGrant,
                Held, Terminal

\* Handing tasks back keeps ownership consistent.
LEMMA DisownMatches ==
  ASSUME TypeOK, OwnerMatchesLease, NEW S \in SUBSET Tasks, disown(S),
         \A t \in S : state'[t] \in {"READY", "ABSENT"},
         \A t \in Tasks \ S : state'[t] = state[t],
         granted' = granted
  PROVE  OwnerMatchesLease'
BY DEF TypeOK, OwnerMatchesLease, disown, Held, Terminal

\* A step that changes neither owner, epochs of leases nor the grants keeps
\* ownership consistent when it moves a task inside the owned states only.
LEMMA KeepMatches ==
  ASSUME TypeOK, OwnerMatchesLease, NEW t \in Tasks,
         owner' = owner, lease' = lease, granted' = granted,
         state[t] \in Held \cup Terminal,
         NEW to \in Held \cup Terminal,
         state' = [state EXCEPT ![t] = to]
  PROVE  OwnerMatchesLease'
<1>. SUFFICES ASSUME NEW u \in Tasks PROVE Matches(u)'
  BY DEF OwnerMatchesLease, Matches
<1>1. CASE u = t
  BY <1>1 DEF TypeOK, OwnerMatchesLease, Matches, Held, Terminal
<1>2. CASE u # t
  BY <1>2 DEF TypeOK, OwnerMatchesLease, Matches, Held, Terminal
<1>. QED  BY <1>1, <1>2

LEMMA AcquireFencing ==
  ASSUME FencingInv, NEW t \in Tasks, NEW a \in Agents, Acquire(t, a)
  PROVE  OwnerMatchesLease' /\ EpochIdentifiesGrant'
<1>. USE DEF FencingInv
<1>1. EpochIdentifiesGrant'
  <2>1. granted' = granted \cup {Fresh(t, a)} /\ epoch' = epoch + 1 /\ epoch \in Nat
    BY DEF Acquire, Fresh, TypeOK
  <2>2. \A g \in granted : g.epoch \in 1 .. epoch
    BY DEF EpochIdentifiesGrant
  <2>3. \A g \in granted' : g.epoch \in 1 .. epoch'
    BY <2>1, <2>2 DEF Fresh
  <2>4. ASSUME NEW g \in granted', NEW h \in granted', g.epoch = h.epoch
        PROVE  g = h
    <3>1. CASE g \in granted /\ h \in granted
      BY <3>1, <2>4 DEF EpochIdentifiesGrant
    <3>2. \A k \in granted : k.epoch # Fresh(t, a).epoch
      BY <2>1, <2>2 DEF Fresh
    <3>. QED  BY <3>1, <3>2, <2>1, <2>4
  <2>. QED  BY <2>3, <2>4 DEF EpochIdentifiesGrant
<1>2. OwnerMatchesLease'
  <2>. SUFFICES ASSUME NEW u \in Tasks PROVE Matches(u)'
    BY DEF OwnerMatchesLease, Matches
  <2>1. CASE u = t
    <3>1. state'[t] = "LEASED" /\ owner'[t] = a /\ lease'[t].epoch = epoch + 1
      BY DEF Acquire, transition, TypeOK
    <3>. QED  BY <2>1, <3>1 DEF Acquire, Matches, Held
  <2>2. CASE u # t
    BY <2>2 DEF Acquire, transition, TypeOK, OwnerMatchesLease, Matches
  <2>. QED  BY <2>1, <2>2
<1>. QED  BY <1>1, <1>2

\* An operation that presents a token finds its task in a held or final state.
LEMMA OwnedState ==
  ASSUME FencingInv, NEW t \in Tasks, NEW a \in Agents, NEW e \in Nat,
         ownerLocked(t, a, e)
  PROVE  state[t] \in Held \cup Terminal
BY DEF FencingInv, TypeOK, OwnerMatchesLease, ownerLocked, TaskState, Held, Terminal

LEMMA StepFencing == FencingInv /\ [Next]_vars => FencingInv'
<1>. SUFFICES ASSUME FencingInv, [Next]_vars PROVE FencingInv'
  OBVIOUS
<1>0. TypeOK /\ TypeOK'
  BY StepType DEF FencingInv
<1>. SUFFICES OwnerMatchesLease' /\ EpochIdentifiesGrant'
  BY <1>0 DEF FencingInv
<1>k. granted' = granted /\ epoch' = epoch => EpochIdentifiesGrant'
  BY DEF FencingInv, EpochIdentifiesGrant
<1>1. ASSUME NEW t \in Tasks, NEW cp \in Checkpoints \cup {Nil}, Create(t, cp)
      PROVE  OwnerMatchesLease' /\ EpochIdentifiesGrant'
  BY <1>1, <1>0, <1>k, DisownMatches DEF FencingInv, Create, TypeOK
<1>2. ASSUME NEW t \in Tasks, NEW a \in Agents, Acquire(t, a)
      PROVE  OwnerMatchesLease' /\ EpochIdentifiesGrant'
  BY <1>2, AcquireFencing
<1>3. ASSUME NEW t \in Tasks, NEW a \in Agents, NEW e \in Nat, Start(t, a, e)
      PROVE  OwnerMatchesLease' /\ EpochIdentifiesGrant'
  BY <1>3, <1>0, <1>k, KeepMatches, OwnedState
     DEF FencingInv, Start, transition, Held
<1>4. ASSUME NEW t \in Tasks, NEW a \in Agents, NEW e \in Nat,
             NEW cp \in Checkpoints \cup {Nil}, Yield(t, a, e, cp)
      PROVE  OwnerMatchesLease' /\ EpochIdentifiesGrant'
  BY <1>4, <1>0, <1>k, KeepMatches, OwnedState
     DEF FencingInv, Yield, transition, Held
<1>5. ASSUME NEW t \in Tasks, NEW a \in Agents, NEW e \in Nat, Complete(t, a, e)
      PROVE  OwnerMatchesLease' /\ EpochIdentifiesGrant'
  BY <1>5, <1>0, <1>k, KeepMatches, OwnedState
     DEF FencingInv, Complete, transition, Terminal
<1>6. ASSUME NEW t \in Tasks, NEW a \in Agents, NEW e \in Nat,
             NEW cp \in Checkpoints, CompleteWithCheckpoint(t, a, e, cp)
      PROVE  OwnerMatchesLease' /\ EpochIdentifiesGrant'
  <2>1. CASE transition(t, "COMPLETED")
    BY <1>6, <2>1, <1>0, <1>k, KeepMatches, OwnedState
       DEF FencingInv, CompleteWithCheckpoint, transition, Terminal
  <2>2. CASE UNCHANGED <<state, lastEvent>>
    BY <1>6, <2>2, <1>k DEF FencingInv, CompleteWithCheckpoint, OwnerMatchesLease
  <2>. QED  BY <1>6, <2>1, <2>2 DEF CompleteWithCheckpoint
<1>7. ASSUME NEW t \in Tasks, NEW a \in Agents, NEW e \in Nat, Fail(t, a, e)
      PROVE  OwnerMatchesLease' /\ EpochIdentifiesGrant'
  <2>1. CASE transition(t, "READY") /\ disown({t})
    BY <1>7, <2>1, <1>0, <1>k, DisownMatches DEF FencingInv, Fail, transition, TypeOK
  <2>2. CASE transition(t, "FAILED") /\ UNCHANGED <<owner, lease>>
    BY <1>7, <2>2, <1>0, <1>k, KeepMatches, OwnedState
       DEF FencingInv, Fail, transition, Terminal
  <2>3. CASE UNCHANGED <<state, owner, lease, lastEvent>>
    BY <1>7, <2>3, <1>k DEF FencingInv, Fail, OwnerMatchesLease
  <2>. QED  BY <1>7, <2>1, <2>2, <2>3 DEF Fail
<1>8. ASSUME NEW t \in Tasks, NEW a \in Agents, NEW e \in Nat, Renew(t, a, e)
      PROVE  OwnerMatchesLease' /\ EpochIdentifiesGrant'
  <2>1. \A u \in Tasks : lease'[u].epoch = lease[u].epoch
    BY <1>8, <1>0 DEF Renew, TypeOK, Lease
  <2>2. \A u \in Tasks \ {t} : lease'[u] = lease[u]
    BY <1>8, <1>0 DEF Renew, TypeOK
  <2>3. state[t] \notin {"READY", "ABSENT"}
    BY <1>8, OwnedState DEF Renew, Held, Terminal
  <2>. QED  BY <1>8, <2>1, <2>2, <2>3, <1>k DEF Renew, FencingInv, OwnerMatchesLease
<1>9. ASSUME NEW t \in Tasks, NEW a \in Agents, NEW e \in Nat,
             NEW type \in {"released", "preempted"}, Return(t, a, e, type)
      PROVE  OwnerMatchesLease' /\ EpochIdentifiesGrant'
  BY <1>9, <1>0, <1>k, DisownMatches DEF FencingInv, Return, transition, TypeOK
<1>10. CASE CheckExpiredLeases
  <2>1. Sweepable \in SUBSET Tasks
    BY DEF Sweepable
  <2>2. /\ \A t \in Sweepable : state'[t] = "READY"
        /\ \A t \in Tasks \ Sweepable : state'[t] = state[t]
    BY <1>10, <2>1 DEF CheckExpiredLeases
  <2>3. disown(Sweepable) /\ granted' = granted /\ epoch' = epoch
    BY <1>10 DEF CheckExpiredLeases
  <2>. QED  BY <2>1, <2>2, <2>3, <1>0, <1>k, DisownMatches DEF FencingInv
<1>11. ASSUME NEW t \in Tasks, Delete(t)
       PROVE  OwnerMatchesLease' /\ EpochIdentifiesGrant'
  BY <1>11, <1>0, <1>k, DisownMatches DEF FencingInv, Delete, TypeOK
<1>12. CASE Tick
  <2>1. \A t \in Tasks : lease'[t].epoch = lease[t].epoch
    BY <1>12, <1>0 DEF Tick, TypeOK, Lease
  <2>2. \A t \in Tasks : lease[t] = NoLease => lease'[t] = NoLease
    BY <1>12, <1>0 DEF Tick, NoLease
  <2>. QED  BY <1>12, <2>1, <2>2, <1>k DEF Tick, FencingInv, OwnerMatchesLease
<1>13. CASE UNCHANGED vars
  BY <1>13 DEF vars, FencingInv, OwnerMatchesLease, EpochIdentifiesGrant
<1>. QED
  BY <1>0, <1>1, <1>2, <1>3, <1>4, <1>5, <1>6, <1>7, <1>8, <1>9, <1>10, <1>11,
     <1>12, <1>13, Steps

\* A held task is held by the agent it was last granted to, in every instance
\* of the fabric (fabric.go, Acquire and verifyToken).
THEOREM Fencing == Spec => []OwnerMatchesLease
<1>1. FencingInv => OwnerMatchesLease
  BY DEF FencingInv
<1>. QED  BY InitFencing, StepFencing, <1>1, PTL DEF Spec

\* No two grants share an epoch, so that a token identifies one claim of one
\* task for ever, through deletion and re-creation (fabric.go:150).
THEOREM GrantsAreUnique == Spec => []EpochIdentifiesGrant
<1>1. FencingInv => EpochIdentifiesGrant
  BY DEF FencingInv
<1>. QED  BY InitFencing, StepFencing, <1>1, PTL DEF Spec

-----------------------------------------------------------------------------
(* Fencing over time.                                                      *)

\* Who holds u, and under which epoch, changes in three ways only.
SameHolder(u)  == owner'[u] = owner[u] /\ lease'[u].epoch = lease[u].epoch
Disowned(u)    == lease'[u] = NoLease
FreshHolder(u) == lease'[u].epoch = epoch + 1

LEMMA HolderSteps ==
  ASSUME FencingInv, [Next]_vars, NEW u \in Tasks
  PROVE  SameHolder(u) \/ Disowned(u) \/ FreshHolder(u)
<1>. USE DEF FencingInv, TypeOK, SameHolder, Disowned, FreshHolder
<1>d. ASSUME NEW S \in SUBSET Tasks, disown(S)
      PROVE  SameHolder(u) \/ Disowned(u)
  BY <1>d DEF disown
<1>s. ASSUME UNCHANGED <<owner, lease>>
      PROVE  SameHolder(u)
  BY <1>s
<1>1. ASSUME NEW t \in Tasks, NEW cp \in Checkpoints \cup {Nil}, Create(t, cp)
      PROVE  SameHolder(u) \/ Disowned(u)
  BY <1>1, <1>d DEF Create
<1>2. ASSUME NEW t \in Tasks, NEW a \in Agents, Acquire(t, a)
      PROVE  SameHolder(u) \/ FreshHolder(u)
  BY <1>2 DEF Acquire
<1>3. ASSUME NEW t \in Tasks, NEW a \in Agents, NEW e \in Nat,
             \/ Start(t, a, e) \/ Complete(t, a, e)
             \/ \E cp \in Checkpoints \cup {Nil} : Yield(t, a, e, cp)
             \/ \E cp \in Checkpoints : CompleteWithCheckpoint(t, a, e, cp)
      PROVE  SameHolder(u)
  BY <1>3, <1>s DEF Start, Complete, Yield, CompleteWithCheckpoint
<1>4. ASSUME NEW t \in Tasks, NEW a \in Agents, NEW e \in Nat, Fail(t, a, e)
      PROVE  SameHolder(u) \/ Disowned(u)
  BY <1>4, <1>d, <1>s DEF Fail
<1>5. ASSUME NEW t \in Tasks, NEW a \in Agents, NEW e \in Nat, Renew(t, a, e)
      PROVE  SameHolder(u)
  BY <1>5 DEF Renew, Lease
<1>6. ASSUME NEW t \in Tasks, NEW a \in Agents, NEW e \in Nat,
             NEW type \in {"released", "preempted"}, Return(t, a, e, type)
      PROVE  SameHolder(u) \/ Disowned(u)
  BY <1>6, <1>d DEF Return
<1>7. ASSUME CheckExpiredLeases
      PROVE  SameHolder(u) \/ Disowned(u)
  BY <1>7, <1>d DEF CheckExpiredLeases, Sweepable
<1>8. ASSUME NEW t \in Tasks, Delete(t)
      PROVE  SameHolder(u) \/ Disowned(u)
  BY <1>8, <1>d DEF Delete
<1>9. ASSUME Tick
      PROVE  SameHolder(u)
  BY <1>9 DEF Tick, Lease
<1>10. ASSUME UNCHANGED vars
       PROVE  SameHolder(u)
  BY <1>10, <1>s DEF vars
<1>. QED
  BY <1>1, <1>2, <1>3, <1>4, <1>5, <1>6, <1>7, <1>8, <1>9, <1>10, Steps

\* With ownership consistent, a granted token opens its task as soon as owner
\* and epoch agree with it: the state need not be looked at.
LEMMA OpensIff ==
  ASSUME FencingInv, NEW g \in granted
  PROVE  Opens(g) <=> owner[g.task] = g.agent /\ lease[g.task].epoch = g.epoch
<1>1. g.task \in Tasks /\ g.agent \in Agents /\ g.epoch \in 1 .. epoch
  BY DEF FencingInv, TypeOK, Token, EpochIdentifiesGrant
<1>2. lease[g.task].epoch = g.epoch => lease[g.task] # NoLease
  BY <1>1 DEF NoLease, FencingInv, TypeOK
<1>3. lease[g.task] # NoLease => state[g.task] # "ABSENT"
  BY <1>1 DEF FencingInv, OwnerMatchesLease
<1>. QED  BY <1>1, <1>2, <1>3, NilAssumption DEF Opens, ownerLocked

\* A token that has stopped opening its task never opens it again.
THEOREM StaleStaysStale == Spec => StaleTokenStaysStale
<1>1. ASSUME FencingInv, [Next]_vars, NEW g \in granted, ~Opens(g)
      PROVE  ~Opens(g)'
  <2>1. FencingInv' /\ g \in granted'
    <3>1. granted \subseteq granted'
      BY <1>1, Steps
         DEF FencingInv, vars, Create, Acquire, Start, Yield, Complete,
             CompleteWithCheckpoint, Fail, Renew, Return, CheckExpiredLeases,
             Delete, Tick
    <3>. QED  BY <1>1, <3>1, StepFencing
  <2>2. g.task \in Tasks /\ g.epoch \in 1 .. epoch /\ epoch \in Nat
    BY <1>1 DEF FencingInv, TypeOK, Token, EpochIdentifiesGrant
  <2>3. Opens(g)' => owner'[g.task] = g.agent /\ lease'[g.task].epoch = g.epoch
    BY DEF Opens, ownerLocked
  <2>4. CASE SameHolder(g.task)
    BY <2>3, <2>4, <1>1, OpensIff DEF SameHolder
  <2>5. CASE Disowned(g.task)
    BY <2>5, <2>3, <2>2 DEF Disowned, NoLease
  <2>6. CASE FreshHolder(g.task)
    BY <2>6, <2>3, <2>2 DEF FreshHolder
  <2>. QED  BY <1>1, <2>2, <2>4, <2>5, <2>6, HolderSteps
<1>2. FencingInv /\ [Next]_vars
        => [\A g \in granted : ~Opens(g) => ~Opens(g)']_vars
  BY <1>1
<1>. QED  BY InitFencing, StepFencing, <1>2, PTL DEF Spec, StaleTokenStaysStale

-----------------------------------------------------------------------------
(* Durable progress, and the log.                                          *)

\* No operation that returns a held task to READY touches its checkpoint.
THEOREM CheckpointSurvives == Spec => CheckpointSurvivesRequeue
<1>1. ASSUME TypeOK, [Next]_vars, NEW u \in Tasks,
             state[u] \in Held, state'[u] = "READY"
      PROVE  checkpoint'[u] = checkpoint[u]
  <2>. USE <1>1 DEF TypeOK, Held, transition
  <2>1. ASSUME NEW t \in Tasks, NEW cp \in Checkpoints \cup {Nil}, Create(t, cp)
        PROVE  checkpoint'[u] = checkpoint[u]
    BY <2>1 DEF Create
  <2>2. ASSUME NEW t \in Tasks, NEW a \in Agents, NEW e \in Nat,
               NEW cp \in Checkpoints \cup {Nil}, Yield(t, a, e, cp)
        PROVE  checkpoint'[u] = checkpoint[u]
    BY <2>2 DEF Yield
  <2>3. ASSUME NEW t \in Tasks, NEW a \in Agents, NEW e \in Nat,
               NEW cp \in Checkpoints, CompleteWithCheckpoint(t, a, e, cp)
        PROVE  checkpoint'[u] = checkpoint[u]
    BY <2>3 DEF CompleteWithCheckpoint
  <2>4. ASSUME NEW t \in Tasks, Delete(t)
        PROVE  checkpoint'[u] = checkpoint[u]
    BY <2>4 DEF Delete
  <2>5. CASE checkpoint' = checkpoint
    BY <2>5
  <2>. QED
    BY <2>1, <2>2, <2>3, <2>4, <2>5, Steps
       DEF vars, Acquire, Start, Complete, Fail, Renew, Return,
           CheckExpiredLeases, Tick
<1>2. TypeOK /\ [Next]_vars
        => [\A t \in Tasks : state[t] \in Held /\ state'[t] = "READY"
              => checkpoint'[t] = checkpoint[t]]_vars
  BY <1>1
<1>. QED  BY InitType, StepType, <1>2, PTL DEF Spec, CheckpointSurvivesRequeue

\* What LogFollowsState says of one task.
Logged(t) ==
  state[t] # "ABSENT" => lastEvent[t].state = state[t] /\ lastEvent[t].agent = owner[t]

\* A step that records task t and leaves state and owner of the others alone
\* keeps the log in agreement.
LEMMA RecordLogged ==
  ASSUME TypeOK, LogFollowsState, NEW t \in Tasks, NEW type, recordLocked(t, type),
         \A u \in Tasks \ {t} : state'[u] = state[u] /\ owner'[u] = owner[u]
  PROVE  LogFollowsState'
BY DEF TypeOK, LogFollowsState, recordLocked

LEMMA StepLog == TypeOK /\ LogFollowsState /\ [Next]_vars => LogFollowsState'
<1>. SUFFICES ASSUME TypeOK, LogFollowsState, [Next]_vars PROVE LogFollowsState'
  OBVIOUS
<1>. USE DEF TypeOK, transition, disown
<1>u. UNCHANGED <<state, owner, lastEvent>> => LogFollowsState'
  BY DEF LogFollowsState
<1>1. ASSUME NEW t \in Tasks, NEW cp \in Checkpoints \cup {Nil}, Create(t, cp)
      PROVE  LogFollowsState'
  BY <1>1, RecordLogged DEF Create
<1>2. ASSUME NEW t \in Tasks, NEW a \in Agents, Acquire(t, a)
      PROVE  LogFollowsState'
  BY <1>2, RecordLogged DEF Acquire
<1>3. ASSUME NEW t \in Tasks, NEW a \in Agents, NEW e \in Nat, Start(t, a, e)
      PROVE  LogFollowsState'
  BY <1>3, RecordLogged DEF Start
<1>4. ASSUME NEW t \in Tasks, NEW a \in Agents, NEW e \in Nat,
             NEW cp \in Checkpoints \cup {Nil}, Yield(t, a, e, cp)
      PROVE  LogFollowsState'
  BY <1>4, RecordLogged DEF Yield
<1>5. ASSUME NEW t \in Tasks, NEW a \in Agents, NEW e \in Nat, Complete(t, a, e)
      PROVE  LogFollowsState'
  BY <1>5, RecordLogged DEF Complete
<1>6. ASSUME NEW t \in Tasks, NEW a \in Agents, NEW e \in Nat,
             NEW cp \in Checkpoints, CompleteWithCheckpoint(t, a, e, cp)
      PROVE  LogFollowsState'
  BY <1>6, <1>u, RecordLogged DEF CompleteWithCheckpoint
<1>7. ASSUME NEW t \in Tasks, NEW a \in Agents, NEW e \in Nat, Fail(t, a, e)
      PROVE  LogFollowsState'
  BY <1>7, <1>u, RecordLogged DEF Fail
<1>8. ASSUME NEW t \in Tasks, NEW a \in Agents, NEW e \in Nat,
             NEW type \in {"released", "preempted"}, Return(t, a, e, type)
      PROVE  LogFollowsState'
  BY <1>8, RecordLogged DEF Return
<1>9. CASE CheckExpiredLeases
  BY <1>9 DEF CheckExpiredLeases, LogFollowsState
<1>10. ASSUME NEW t \in Tasks, Delete(t)
       PROVE  LogFollowsState'
  BY <1>10 DEF Delete, LogFollowsState
<1>. QED
  BY <1>u, <1>1, <1>2, <1>3, <1>4, <1>5, <1>6, <1>7, <1>8, <1>9, <1>10, Steps
     DEF vars, Renew, Tick

\* The in-memory log's last record of a task agrees with its state and owner.
THEOREM LogFollows == Spec => []LogFollowsState
<1>1. Init => LogFollowsState
  BY DEF Init, LogFollowsState
<1>. QED  BY <1>1, InitType, StepType, StepLog, PTL DEF Spec

-----------------------------------------------------------------------------
(* The fabric implements TaskPromise.                                      *)

\* The abstract values, as the refinement mapping of Promise gives them.
Status(t) == CASE state[t] = "ABSENT"   -> "none"
               [] state[t] \in Terminal -> "done"
               [] OTHER                 -> "open"

StatusF == [t \in Tasks |-> Status(t)]
HolderF == [t \in Tasks |-> lease[t].epoch]

LEMMA InitPromise == Init => Promise!Init
BY DEF Init, Promise!Init, Promise!vars, NoLease, Terminal

\* A step that moves one task to state "to".
LEMMA MoveStatus ==
  ASSUME TypeOK, NEW t \in Tasks, NEW to, state' = [state EXCEPT ![t] = to]
  PROVE  /\ to = "ABSENT" => StatusF' = [StatusF EXCEPT ![t] = "none"]
         /\ to \in Terminal => StatusF' = [StatusF EXCEPT ![t] = "done"]
         /\ to \in Held \cup {"READY"} => StatusF' = [StatusF EXCEPT ![t] = "open"]
<1>1. \A u \in Tasks : u # t => Status(u)' = Status(u)
  BY DEF TypeOK, Status
<1>2. state'[t] = to
  BY DEF TypeOK
<1>3. /\ to = "ABSENT" => Status(t)' = "none"
      /\ to \in Terminal => Status(t)' = "done"
      /\ to \in Held \cup {"READY"} => Status(t)' = "open"
  BY <1>2 DEF Status, Held, Terminal
<1>4. StatusF' = [u \in Tasks |-> Status(u)']
  BY DEF StatusF
<1>. HIDE DEF Status
<1>. QED  BY <1>1, <1>3, <1>4 DEF StatusF

LEMMA SameStatus ==
  ASSUME TypeOK, NEW t \in Tasks, NEW to \in Held \cup {"READY"},
         state[t] \in Held \cup {"READY"}, state' = [state EXCEPT ![t] = to]
  PROVE  StatusF' = StatusF
BY DEF TypeOK, StatusF, Status, Held, Terminal

LEMMA DisownHolder ==
  ASSUME TypeOK, NEW S \in SUBSET Tasks, disown(S)
  PROVE  HolderF' = [t \in Tasks |-> IF t \in S THEN 0 ELSE HolderF[t]]
BY DEF TypeOK, disown, NoLease, HolderF

\* The effect of each step on the abstract variables.
SubmitStep(t, p)  == /\ StatusF[t] = "none" /\ StatusF' = [StatusF EXCEPT ![t] = "open"]
                     /\ checkpoint' = [checkpoint EXCEPT ![t] = p]
                     /\ HolderF' = HolderF /\ epoch' = epoch
GrantStep(t)      == /\ StatusF[t] = "open" /\ StatusF' = StatusF
                     /\ epoch' = epoch + 1
                     /\ HolderF' = [HolderF EXCEPT ![t] = epoch + 1]
                     /\ checkpoint' = checkpoint
WorkStep(t, p)    == /\ HolderF[t] # 0 /\ HolderF' = HolderF
                     /\ checkpoint' = [checkpoint EXCEPT ![t] = p]
                     /\ StatusF' = StatusF /\ epoch' = epoch
HandBackStep(S)   == /\ \A t \in S : StatusF[t] = "open" /\ HolderF[t] # 0
                     /\ HolderF' = [t \in Tasks |-> IF t \in S THEN 0 ELSE HolderF[t]]
                     /\ StatusF' = StatusF /\ epoch' = epoch /\ checkpoint' = checkpoint
FinishStep(t, p)  == /\ StatusF[t] = "open" /\ HolderF[t] # 0
                     /\ StatusF' = [StatusF EXCEPT ![t] = "done"] /\ HolderF' = HolderF
                     /\ checkpoint' = [checkpoint EXCEPT ![t] = p] /\ epoch' = epoch
ForgetStep(t, p)  == /\ StatusF[t] = "done" \/ (StatusF[t] = "open" /\ HolderF[t] = 0)
                     /\ StatusF' = [StatusF EXCEPT ![t] = "none"]
                     /\ HolderF' = [HolderF EXCEPT ![t] = 0]
                     /\ checkpoint' = [checkpoint EXCEPT ![t] = p] /\ epoch' = epoch
StutterStep       == /\ StatusF' = StatusF /\ HolderF' = HolderF
                     /\ epoch' = epoch /\ checkpoint' = checkpoint

LEMMA AbstractSteps ==
  ASSUME NEW t \in Tasks, NEW p \in Checkpoints \cup {Nil}, NEW S \in SUBSET Tasks,
         \/ SubmitStep(t, p) \/ GrantStep(t) \/ WorkStep(t, p) \/ HandBackStep(S)
         \/ FinishStep(t, p) \/ ForgetStep(t, p) \/ StutterStep
  PROVE  [Promise!Next]_(Promise!vars)
<1>1. CASE SubmitStep(t, p)
  <2>1. Promise!Submit(t, p)
    BY <1>1 DEF SubmitStep, StatusF, HolderF, Status, Promise!Submit
  <2>. QED  BY <2>1 DEF Promise!Next
<1>2. CASE GrantStep(t)
  <2>1. Promise!Grant(t)
    BY <1>2 DEF GrantStep, StatusF, HolderF, Status, Promise!Grant
  <2>. QED  BY <2>1 DEF Promise!Next
<1>3. CASE WorkStep(t, p)
  <2>1. Promise!Work(t, p)
    BY <1>3 DEF WorkStep, StatusF, HolderF, Status, Promise!Work
  <2>. QED  BY <2>1 DEF Promise!Next
<1>4. CASE HandBackStep(S)
  <2>1. Promise!HandBack(S)
    <3>1. \A u \in S : /\ HolderF[u] = lease[u].epoch
                       /\ StatusF[u] = Status(u)
      BY DEF StatusF, HolderF
    <3>2. HolderF' = [u \in Tasks |-> IF u \in S THEN 0 ELSE lease[u].epoch]
      BY <1>4 DEF HandBackStep, HolderF
    <3>. QED  BY <1>4, <3>1, <3>2 DEF HandBackStep, StatusF, HolderF, Status, Promise!HandBack
  <2>. QED  BY <2>1 DEF Promise!Next
<1>5. CASE FinishStep(t, p)
  <2>1. Promise!Finish(t, p)
    BY <1>5 DEF FinishStep, StatusF, HolderF, Status, Promise!Finish
  <2>. QED  BY <2>1 DEF Promise!Next
<1>6. CASE ForgetStep(t, p)
  <2>1. Promise!Forget(t, p)
    BY <1>6 DEF ForgetStep, StatusF, HolderF, Status, Promise!Forget
  <2>. QED  BY <2>1 DEF Promise!Next
<1>7. CASE StutterStep
  BY <1>7 DEF StutterStep, StatusF, HolderF, Status, Promise!vars
<1>. QED  BY <1>1, <1>2, <1>3, <1>4, <1>5, <1>6, <1>7

LEMMA HeldHolder ==
  ASSUME FencingInv, NEW t \in Tasks
  PROVE  /\ state[t] \in Held \cup Terminal => HolderF[t] # 0
         /\ state[t] \in {"READY", "ABSENT"} => HolderF[t] = 0
         /\ state[t] = "ABSENT" <=> StatusF[t] = "none"
         /\ state[t] \in Terminal <=> StatusF[t] = "done"
         /\ state[t] \in Held \cup {"READY"} <=> StatusF[t] = "open"
<1>1. HolderF[t] = lease[t].epoch
  BY DEF HolderF
<1>2. ASSUME state[t] \in Held \cup Terminal
      PROVE  HolderF[t] # 0
  <2>. DEFINE g == [task |-> t, agent |-> owner[t], epoch |-> lease[t].epoch]
  <2>1. g \in granted
    BY <1>2 DEF FencingInv, OwnerMatchesLease
  <2>2. g.epoch \in 1 .. epoch /\ epoch \in Nat
    BY <2>1 DEF FencingInv, EpochIdentifiesGrant, TypeOK
  <2>. QED  BY <1>1, <2>2
<1>3. ASSUME state[t] \in {"READY", "ABSENT"}
      PROVE  HolderF[t] = 0
  <2>1. lease[t] = NoLease
    BY <1>3 DEF FencingInv, OwnerMatchesLease
  <2>. QED  BY <1>1, <2>1 DEF NoLease
<1>4. StatusF[t] = Status(t)
  BY DEF StatusF
<1>5. state[t] \in {"READY", "LEASED", "RUNNING", "SUSPENDED", "COMPLETED",
                     "FAILED", "ABSENT"}
  BY DEF FencingInv, TypeOK, TaskState
<1>6. state[t] = "ABSENT" => StatusF[t] = "none"
  BY <1>4 DEF Status, Terminal
<1>7. state[t] \in Terminal => StatusF[t] = "done"
  BY <1>4 DEF Status, Terminal
<1>8. state[t] \in Held \cup {"READY"} => StatusF[t] = "open"
  BY <1>4 DEF Status, Held, Terminal
<1>. QED  BY <1>2, <1>3, <1>5, <1>6, <1>7, <1>8 DEF Held, Terminal

\* Handing back the tasks of S, all of them held.
LEMMA HandBack ==
  ASSUME FencingInv, NEW S \in SUBSET Tasks, disown(S),
         \A t \in S : state[t] \in Held /\ state'[t] = "READY",
         \A t \in Tasks \ S : state'[t] = state[t],
         checkpoint' = checkpoint, epoch' = epoch
  PROVE  HandBackStep(S)
<1>1. \A t \in S : StatusF[t] = "open" /\ HolderF[t] # 0
  BY HeldHolder
<1>2. HolderF' = [t \in Tasks |-> IF t \in S THEN 0 ELSE HolderF[t]]
  BY DisownHolder DEF FencingInv
<1>3. \A t \in Tasks : Status(t)' = Status(t)
  BY DEF Status, Held, Terminal
<1>4. StatusF' = StatusF
  BY <1>3 DEF StatusF
<1>. QED  BY <1>1, <1>2, <1>4 DEF HandBackStep

LEMMA StepPromise == FencingInv /\ [Next]_vars => [Promise!Next]_(Promise!vars)
<1>. SUFFICES ASSUME FencingInv, [Next]_vars PROVE [Promise!Next]_(Promise!vars)
  OBVIOUS
<1>a. TypeOK
  BY DEF FencingInv
<1>h. lease' = lease => HolderF' = HolderF
  BY DEF HolderF
<1>z. state' = state => StatusF' = StatusF
  BY DEF StatusF, Status
<1>d. ASSUME NEW t \in Tasks, disown({t})
      PROVE  /\ HolderF' = [HolderF EXCEPT ![t] = 0]
             /\ state[t] \in {"READY", "ABSENT"} => HolderF' = HolderF
  <2>1. HolderF' = [u \in Tasks |-> IF u \in {t} THEN 0 ELSE HolderF[u]]
    BY <1>a, <1>d, DisownHolder
  <2>2. state[t] \in {"READY", "ABSENT"} => HolderF[t] = 0
    BY HeldHolder
  <2>. QED  BY <2>1, <2>2 DEF HolderF
<1>1. ASSUME NEW t \in Tasks, NEW cp \in Checkpoints \cup {Nil}, Create(t, cp)
      PROVE  SubmitStep(t, cp)
  BY <1>1, <1>a, <1>d, HeldHolder, MoveStatus DEF Create, SubmitStep
<1>2. ASSUME NEW t \in Tasks, NEW a \in Agents, Acquire(t, a)
      PROVE  GrantStep(t)
  <2>1. HolderF' = [HolderF EXCEPT ![t] = epoch + 1]
    BY <1>2, <1>a DEF Acquire, HolderF, TypeOK
  <2>2. state[t] \in Held \cup {"READY"} /\ "LEASED" \in Held \cup {"READY"}
    BY <1>2 DEF Acquire, Held
  <2>. QED  BY <1>2, <1>a, <2>1, <2>2, HeldHolder, SameStatus
            DEF Acquire, transition, GrantStep
<1>3. ASSUME NEW t \in Tasks, NEW a \in Agents, NEW e \in Nat, Start(t, a, e)
      PROVE  StutterStep
  <2>1. state[t] \in Held /\ "RUNNING" \in Held
    BY <1>3 DEF Start, transition, canTransition, Legal, Held
  <2>. QED  BY <1>3, <1>a, <1>h, <2>1, SameStatus DEF Start, transition, StutterStep
<1>4. ASSUME NEW t \in Tasks, NEW a \in Agents, NEW e \in Nat,
             NEW cp \in Checkpoints \cup {Nil}, Yield(t, a, e, cp)
      PROVE  WorkStep(t, cp)
  <2>1. state[t] \in Held /\ "SUSPENDED" \in Held
    BY <1>4 DEF Yield, transition, canTransition, Legal, Held
  <2>. QED  BY <1>4, <1>a, <1>h, <2>1, SameStatus, HeldHolder
            DEF Yield, transition, WorkStep
<1>f. ASSUME NEW t \in Tasks, state[t] = "RUNNING", NEW to \in Terminal,
             transition(t, to), lease' = lease, epoch' = epoch,
             NEW p, checkpoint' = [checkpoint EXCEPT ![t] = p]
      PROVE  FinishStep(t, p)
  <2>1. StatusF[t] = "open" /\ HolderF[t] # 0
    BY <1>f, HeldHolder DEF Held
  <2>. QED  BY <1>f, <1>a, <1>h, <2>1, MoveStatus DEF transition, FinishStep
<1>g. ASSUME NEW t \in Tasks, NEW to \in Terminal, canTransition(state[t], to)
      PROVE  state[t] = "RUNNING"
  BY <1>g DEF canTransition, Legal, Terminal
<1>5. ASSUME NEW t \in Tasks, NEW a \in Agents, NEW e \in Nat, Complete(t, a, e)
      PROVE  FinishStep(t, checkpoint[t])
  <2>1. checkpoint' = [checkpoint EXCEPT ![t] = checkpoint[t]]
    BY <1>5, <1>a DEF Complete, TypeOK
  <2>. QED  BY <1>5, <1>f, <1>g, <2>1 DEF Complete, transition, Terminal
<1>6. ASSUME NEW t \in Tasks, NEW a \in Agents, NEW e \in Nat,
             NEW cp \in Checkpoints, CompleteWithCheckpoint(t, a, e, cp)
      PROVE  FinishStep(t, cp) \/ WorkStep(t, cp)
  <2>1. CASE transition(t, "COMPLETED")
    BY <1>6, <2>1, <1>f, <1>g DEF CompleteWithCheckpoint, transition, Terminal
  <2>2. CASE UNCHANGED <<state, lastEvent>>
    BY <1>6, <2>2, <1>h, <1>z, OwnedState, HeldHolder
       DEF CompleteWithCheckpoint, WorkStep
  <2>. QED  BY <1>6, <2>1, <2>2 DEF CompleteWithCheckpoint
<1>b. ASSUME NEW t \in Tasks, NEW a \in Agents, NEW e \in Nat, ownerLocked(t, a, e),
             transition(t, "READY"), disown({t}), checkpoint' = checkpoint, epoch' = epoch
      PROVE  HandBackStep({t})
  <2>1. state[t] \in Held
    BY <1>b DEF transition, canTransition, Legal, Held
  <2>2. state'[t] = "READY" /\ \A u \in Tasks \ {t} : state'[u] = state[u]
    BY <1>b, <1>a DEF transition, TypeOK
  <2>. QED  BY <1>b, <2>1, <2>2, HandBack
<1>7. ASSUME NEW t \in Tasks, NEW a \in Agents, NEW e \in Nat, Fail(t, a, e)
      PROVE  HandBackStep({t}) \/ FinishStep(t, checkpoint[t]) \/ StutterStep
  <2>1. CASE transition(t, "READY") /\ disown({t})
    BY <1>7, <2>1, <1>b DEF Fail
  <2>2. CASE transition(t, "FAILED") /\ UNCHANGED <<owner, lease>>
    <3>1. checkpoint' = [checkpoint EXCEPT ![t] = checkpoint[t]]
      BY <1>7, <1>a DEF Fail, TypeOK
    <3>. QED  BY <1>7, <2>2, <1>f, <1>g, <3>1 DEF Fail, transition, Terminal
  <2>3. CASE UNCHANGED <<state, owner, lease, lastEvent>>
    BY <1>7, <2>3, <1>h, <1>z DEF Fail, StutterStep
  <2>. QED  BY <1>7, <2>1, <2>2, <2>3 DEF Fail
<1>e. ASSUME \A t \in Tasks : lease'[t].epoch = lease[t].epoch
      PROVE  HolderF' = HolderF
  BY <1>e DEF HolderF
<1>8. ASSUME NEW t \in Tasks, NEW a \in Agents, NEW e \in Nat, Renew(t, a, e)
      PROVE  StutterStep
  BY <1>8, <1>a, <1>e, <1>z DEF Renew, StutterStep, TypeOK, Lease
<1>9. ASSUME NEW t \in Tasks, NEW a \in Agents, NEW e \in Nat,
             NEW type \in {"released", "preempted"}, Return(t, a, e, type)
      PROVE  HandBackStep({t})
  BY <1>9, <1>b DEF Return
<1>10. ASSUME CheckExpiredLeases
       PROVE  HandBackStep(Sweepable)
  BY <1>10, <1>a, HandBack DEF CheckExpiredLeases, Sweepable
<1>11. ASSUME NEW t \in Tasks, Delete(t)
       PROVE  ForgetStep(t, Nil)
  <2>1. StatusF[t] = "done" \/ (StatusF[t] = "open" /\ HolderF[t] = 0)
    BY <1>11, HeldHolder DEF Delete
  <2>. QED  BY <1>11, <1>a, <1>d, <2>1, MoveStatus DEF Delete, ForgetStep
<1>12. ASSUME Tick
       PROVE  StutterStep
  BY <1>12, <1>a, <1>e, <1>z DEF Tick, StutterStep, TypeOK, Lease
<1>13. ASSUME UNCHANGED vars
       PROVE  [Promise!Next]_(Promise!vars)
  BY <1>13 DEF vars, Promise!vars
<1>14. \A t \in Tasks : checkpoint[t] \in Checkpoints \cup {Nil}
  BY <1>a DEF TypeOK
<1>15. CASE Tick
  BY <1>15, <1>12 DEF StutterStep, StatusF, Status, HolderF, Promise!vars
<1>16. CASE CheckExpiredLeases
  <2>1. CASE Tasks = {}
    BY <1>16, <2>1 DEF CheckExpiredLeases, Sweepable
  <2>2. CASE Tasks # {}
    <3>1. Sweepable \in SUBSET Tasks
      BY DEF Sweepable
    <3>. QED  BY <2>2, <3>1, <1>16, <1>10, AbstractSteps
  <2>. QED  BY <2>1, <2>2
<1>17. ASSUME NEW t \in Tasks
       PROVE  Nil \in Checkpoints \cup {Nil} /\ {t} \in SUBSET Tasks
  OBVIOUS
<1>18. ASSUME NEW t \in Tasks, NEW a \in Agents, NEW e \in Nat,
              Fail(t, a, e) \/ Complete(t, a, e) \/ Start(t, a, e) \/ Renew(t, a, e)
       PROVE  [Promise!Next]_(Promise!vars)
  BY <1>18, <1>3, <1>5, <1>7, <1>8, <1>14, <1>17, AbstractSteps
<1>19. ASSUME NEW t \in Tasks, NEW a \in Agents, NEW e \in Nat,
              NEW cp \in Checkpoints \cup {Nil},
              \/ Yield(t, a, e, cp)
              \/ cp \in Checkpoints /\ CompleteWithCheckpoint(t, a, e, cp)
       PROVE  [Promise!Next]_(Promise!vars)
  BY <1>19, <1>4, <1>6, <1>17, AbstractSteps
<1>20. ASSUME NEW t \in Tasks, NEW a \in Agents, NEW e \in Nat,
              NEW type \in {"released", "preempted"}, Return(t, a, e, type)
       PROVE  [Promise!Next]_(Promise!vars)
  <2>1. HandBackStep({t})
    BY <1>20, <1>9
  <2>. QED  BY <2>1, <1>17, AbstractSteps
<1>21. ASSUME NEW t \in Tasks, NEW cp \in Checkpoints \cup {Nil}, Create(t, cp)
       PROVE  [Promise!Next]_(Promise!vars)
  BY <1>21, <1>1, <1>17, AbstractSteps
<1>22. ASSUME NEW t \in Tasks, Delete(t) \/ \E a \in Agents : Acquire(t, a)
       PROVE  [Promise!Next]_(Promise!vars)
  BY <1>22, <1>2, <1>11, <1>17, AbstractSteps
<1>. QED
  BY <1>a, <1>13, <1>15, <1>16, <1>18, <1>19, <1>20, <1>21, <1>22, Steps

\* The Task Fabric implements what TaskPromise promises.
THEOREM KeepsPromise == Spec => RefinesPromise
BY InitPromise, InitFencing, StepFencing, StepPromise, PTL
   DEF Spec, RefinesPromise, Promise!Spec

=============================================================================
