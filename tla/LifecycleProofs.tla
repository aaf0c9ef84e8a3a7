-------------------------- MODULE LifecycleProofs ---------------------------
(***************************************************************************)
(* Proofs about what starts, stops and is replaced in order: the server    *)
(* process with its shutdown phases and components, the evolution          *)
(* scheduler, the dashboard's agents that resume each other, and the       *)
(* release of candidates.                                                  *)
(***************************************************************************)
EXTENDS ServeProcess, EvolutionScheduler, DashboardAgents, CandidateRelease,
        FiniteSetTheorems, SequenceTheorems, TLAPS

-----------------------------------------------------------------------------
(* The shutdown phases.  A phase is left only with an empty wait group and  *)
(* no failure, so whatever a call has left running or failed is in the      *)
(* phase the call stands at.                                                *)

CallOrdered(c) ==
  \A b \in Callbacks :
    /\ run[c][b] # "none" => PhaseOf[b] <= at[c]
    /\ run[c][b] # "none" /\ PhaseOf[b] = at[c] => calls[c] \in {"waiting", "grace", "done", "failed"}
    /\ run[c][b] = "running" =>
         /\ PhaseOf[b] = at[c] /\ calls[c] \in {"waiting", "grace", "failed"}
         /\ joined[c] => calls[c] # "waiting"
    /\ run[c][b] = "failed" => PhaseOf[b] = at[c]

PhaseInv == ShutdownTypeOK /\ \A c \in Callers : CallOrdered(c)

LEMMA ShutdownStarts == ShutdownInit => PhaseInv
BY ShutdownAssumption DEF ShutdownInit, PhaseInv, ShutdownTypeOK, CallOrdered, Phases, PreShutdown,
   DonePhase, CallState, Invocation

\* What a call that leaves its phase without a failure knows of its callbacks.
LEMMA ProceedKeepsOrder ==
  ASSUME PhaseInv, NEW c \in Callers, Proceed(c), run' = run, joined' = joined,
         \A b \in Callbacks : run[c][b] \notin {"running", "failed"},
         UNCHANGED <<currentPhase, added, over>>
  PROVE  PhaseInv'
<1>. USE DEF PhaseInv, ShutdownTypeOK
<1>1. at[c] \in 0..3 /\ at'[c] \in 0..3 /\ at \in [Callers -> 0..3] /\ at' \in [Callers -> 0..3]
  BY DEF Proceed, Phases, PreShutdown, DonePhase
<1>2. ShutdownTypeOK'
  BY <1>1 DEF Proceed, CallState, Phases, PreShutdown, DonePhase
<1>3. CallOrdered(c)'
  <2>1. CASE at[c] = DonePhase
    <3>1. at' = at /\ calls'[c] = "done"
      BY <2>1 DEF Proceed
    <3>. QED  BY <3>1 DEF CallOrdered
  <2>2. CASE at[c] # DonePhase
    <3>1. at'[c] = at[c] + 1
      BY <2>2 DEF Proceed
    <3>2. \A b \in Callbacks : PhaseOf[b] \in 0..3
      BY ShutdownAssumption DEF Phases, PreShutdown, DonePhase
    <3>. QED  BY <1>1, <3>1, <3>2 DEF CallOrdered
  <2>. QED  BY <2>1, <2>2
<1>4. ASSUME NEW d \in Callers, d # c  PROVE CallOrdered(d)'
  <2>1. at'[d] = at[d] /\ calls'[d] = calls[d]
    BY <1>4 DEF Proceed
  <2>. QED  BY <2>1 DEF CallOrdered
<1>. QED  BY <1>2, <1>3, <1>4

LEMMA ShutdownStep == PhaseInv /\ [ShutdownNext]_shutdown => PhaseInv'
<1>. SUFFICES ASSUME PhaseInv, [ShutdownNext]_shutdown PROVE PhaseInv'
  OBVIOUS
<1>. USE DEF PhaseInv
<1>0. \A c \in Callers : at[c] \in 0..3
  BY DEF ShutdownTypeOK, Phases, PreShutdown, DonePhase
<1>1. ASSUME NEW b \in Callbacks, AddCallback(b)  PROVE PhaseInv'
  BY <1>1 DEF AddCallback, ShutdownTypeOK, CallOrdered
<1>2. ASSUME NEW c \in Callers, StartShutdown(c) \/ EnterPhase(c) PROVE PhaseInv'
  <2>1. /\ UNCHANGED <<added, at, over, joined, run>>
        /\ calls[c] \in {"idle", "admitted"} /\ currentPhase' \in Phases
        /\ \E s \in {"admitted", "refused", "launching"} : calls' = [calls EXCEPT ![c] = s]
    BY <1>2 DEF StartShutdown, EnterPhase, ShutdownTypeOK
  <2>2. ShutdownTypeOK'
    BY <2>1 DEF ShutdownTypeOK, CallState
  <2>3. ASSUME NEW d \in Callers  PROVE CallOrdered(d)'
    <3>1. d # c => calls'[d] = calls[d]
      BY <2>1 DEF ShutdownTypeOK
    <3>. QED  BY <2>1, <3>1 DEF CallOrdered
  <2>. QED  BY <2>2, <2>3
<1>3. ASSUME NEW c \in Callers, Launch(c) PROVE PhaseInv'
  <2>1. CASE InPhase(at[c]) = {}
    <3>1. Proceed(c) /\ UNCHANGED <<over, joined, run, currentPhase, added>> /\ calls[c] = "launching"
      BY <1>3, <2>1 DEF Launch
    <3>2. \A b \in Callbacks : run[c][b] \notin {"running", "failed"}
      BY <3>1 DEF CallOrdered
    <3>. QED  BY <3>1, <3>2, ProceedKeepsOrder
  <2>2. CASE InPhase(at[c]) # {}
    <3>1. /\ calls[c] = "launching" /\ calls' = [calls EXCEPT ![c] = "waiting"]
          /\ run' = [run EXCEPT ![c] =
                    [b \in Callbacks |-> IF b \in InPhase(at[c]) THEN "running" ELSE @[b]]]
          /\ over' = [over EXCEPT ![c] = FALSE] /\ joined' = [joined EXCEPT ![c] = FALSE]
          /\ UNCHANGED <<at, currentPhase, added>>
      BY <1>3, <2>2 DEF Launch
    <3>2. ShutdownTypeOK'
      BY <3>1 DEF ShutdownTypeOK, CallState, Invocation
    <3>3. CallOrdered(c)'
      <4>1. /\ calls'[c] = "waiting" /\ joined'[c] = FALSE
            /\ \A b \in Callbacks : run'[c][b] = IF b \in InPhase(at[c]) THEN "running" ELSE run[c][b]
        BY <3>1 DEF ShutdownTypeOK
      <4>2. \A b \in Callbacks : b \in InPhase(at[c]) => PhaseOf[b] = at[c]
        BY DEF InPhase
      <4>3. \A b \in Callbacks : run[c][b] \notin {"running", "failed"}
        BY <3>1 DEF CallOrdered
      <4>. QED  BY <1>0, <3>1, <4>1, <4>2, <4>3 DEF CallOrdered
    <3>4. ASSUME NEW d \in Callers, d # c  PROVE CallOrdered(d)'
      <4>1. /\ calls'[d] = calls[d] /\ joined'[d] = joined[d] /\ run'[d] = run[d]
        BY <3>1, <3>4 DEF ShutdownTypeOK
      <4>. QED  BY <3>1, <4>1 DEF CallOrdered
    <3>. QED  BY <3>2, <3>3, <3>4
  <2>. QED  BY <2>1, <2>2
<1>4. ASSUME NEW c \in Callers, Join(c) PROVE PhaseInv'
  <2>1. ShutdownTypeOK'
    BY <1>4 DEF Join, ShutdownTypeOK
  <2>2. ASSUME NEW d \in Callers  PROVE CallOrdered(d)'
    BY <1>4 DEF Join, WaitGroupIsEmpty, CallOrdered
  <2>. QED  BY <2>1, <2>2
<1>5. ASSUME NEW c \in Callers, Deadline(c) PROVE PhaseInv'
  BY <1>5 DEF Deadline, ShutdownTypeOK, CallOrdered
<1>6. ASSUME NEW c \in Callers,
             calls[c] \in {"waiting", "grace"}, calls' \in {[calls EXCEPT ![c] = "grace"], [calls EXCEPT ![c] = "failed"]},
             UNCHANGED <<currentPhase, added, at, over, joined, run>>
      PROVE PhaseInv'
  <2>1. ShutdownTypeOK'
    BY <1>6 DEF ShutdownTypeOK, CallState
  <2>2. ASSUME NEW d \in Callers  PROVE CallOrdered(d)'
    <3>1. /\ d # c => calls'[d] = calls[d]
          /\ d = c => calls'[d] \in {"grace", "failed"}
      BY <1>6 DEF ShutdownTypeOK
    <3>. QED  BY <1>6, <3>1 DEF CallOrdered
  <2>. QED  BY <2>1, <2>2
<1>7. ASSUME NEW c \in Callers, Finish(c) PROVE PhaseInv'
  <2>1. CASE FailedCallbacks(c) = {}
    <3>1. \A b \in Callbacks : run[c][b] \notin {"running", "failed"}
      BY <1>7, <2>1 DEF Finish, FailedCallbacks, CallOrdered
    <3>. QED  BY <1>7, <2>1, <3>1, ProceedKeepsOrder DEF Finish
  <2>2. CASE FailedCallbacks(c) # {}
    BY <1>7, <2>2, <1>6 DEF Finish, Abort
  <2>. QED  BY <2>1, <2>2
<1>8. ASSUME NEW c \in Callers, Expire(c) \/ GraceOver(c) PROVE PhaseInv'
  BY <1>8, <1>6 DEF Expire, GraceOver, Abort
<1>9. ASSUME NEW c \in Callers, NEW b \in Callbacks, CallbackReturns(c, b) PROVE PhaseInv'
  <2>1. /\ run[c][b] = "running" /\ UNCHANGED <<currentPhase, added, calls, at, over, joined>>
        /\ \E result \in {"ok", "failed", "dropped"} : run' = [run EXCEPT ![c][b] = result]
    BY <1>9 DEF CallbackReturns
  <2>2. ShutdownTypeOK'
    BY <2>1 DEF ShutdownTypeOK, Invocation
  <2>3. ASSUME NEW d \in Callers, NEW e \in Callbacks
        PROVE  /\ <<d, e>> # <<c, b>> => run'[d][e] = run[d][e]
               /\ <<d, e>> = <<c, b>> => run'[d][e] \in {"ok", "failed", "dropped"}
    BY <2>1 DEF ShutdownTypeOK
  <2>4. ASSUME NEW d \in Callers  PROVE CallOrdered(d)'
    BY <2>1, <2>3 DEF CallOrdered
  <2>. QED  BY <2>2, <2>4
<1>10. CASE UNCHANGED shutdown
  BY <1>10 DEF shutdown, ShutdownTypeOK, CallOrdered
<1>. QED
  BY <1>1, <1>2, <1>3, <1>4, <1>5, <1>7, <1>8, <1>9, <1>10 DEF ShutdownNext, Progress

LEMMA PhaseInvIsEnough == PhaseInv => PhasesAreOrdered
BY ShutdownAssumption DEF PhaseInv, CallOrdered, PhasesAreOrdered, PhasesDoNotOverlap, FailureEndsShutdown, ShutdownTypeOK

\* While a callback runs no later phase of its call has begun, and a failure
\* that was reported is where the call ends: for any number of calls that
\* overtake each other and any callbacks (manager.go, StartShutdown).
THEOREM PhasesInOrder == ShutdownSpec => [](ShutdownTypeOK /\ PhasesAreOrdered)
<1>1. PhaseInv => ShutdownTypeOK /\ PhasesAreOrdered
  BY PhaseInvIsEnough DEF PhaseInv
<1>. QED  BY ShutdownStarts, ShutdownStep, <1>1, PTL DEF ShutdownSpec

\* The signal goroutine of `ares serve` is one of the calls the shutdown
\* manager is made for: whatever the process does, the manager sees a step of
\* its own or nothing (serve.go).
THEOREM ServeUsesShutdown == ServeSpec => ShutdownSpec
<1>1. ServeInit => ShutdownInit
  BY DEF ServeInit
<1>2. [ServeNext]_process => [ShutdownNext]_shutdown
  <2>0. Signal \in Callers
    BY ServeAssumption
  <2>1. ASSUME Bootstrap \/ Publish \/ StopComponents \/ CancelContext
               \/ ((StartStep \/ StopNext) /\ UNCHANGED <<shutdown, serve>>) \/ UNCHANGED process
        PROVE  UNCHANGED shutdown
    BY <2>1 DEF Bootstrap, Publish, StopComponents, CancelContext, process
  <2>2. ASSUME AddHook \/ SignalArrives \/ PhaseStep  PROVE ShutdownNext
    BY <2>0, <2>2 DEF AddHook, SignalArrives, PhaseStep, ShutdownNext
  <2>. QED  BY <2>1, <2>2 DEF ServeNext
<1>. QED  BY <1>1, <1>2, PTL DEF ServeSpec, ShutdownSpec

-----------------------------------------------------------------------------
(* The components.  The orders that Start and Shutdown compute list every   *)
(* component once, dependencies first; at each moment the components up to  *)
(* a place in the order are live, and those behind it are not or refused    *)
(* to stop.                                                                 *)

\* An order lists every component exactly once.
LEMMA OrderListsAll ==
  ASSUME NEW s \in TopologicalOrder
  PROVE  /\ Len(s) \in Nat /\ DOMAIN s = 1..Len(s) /\ s \in Seq(Components)
         /\ Len(s) = Cardinality(Components) /\ Len(s) > 0
         /\ \A c \in Components : \E i \in DOMAIN s : s[i] = c
         /\ \A i, j \in DOMAIN s : s[i] = s[j] => i = j
         /\ \A i, j \in DOMAIN s : s[i] \in Dependencies[s[j]] => i < j
<1>. DEFINE n == Cardinality(Components)
<1>1. n \in Nat /\ n # 0 /\ IsFiniteSet(Components)
  BY OrchestratorAssumption, FS_CardinalityType, FS_EmptySet
<1>2. /\ s \in [1..n -> Components]
      /\ \A i, j \in 1..n : i # j => s[i] # s[j]
      /\ \A i, j \in DOMAIN s : s[i] \in Dependencies[s[j]] => i < j
  BY DEF TopologicalOrder, SetToSeqs
<1>3. s \in Injection(1..n, Components)
  BY <1>2 DEF Injection, IsInjective
<1>4. Cardinality(1..n) = n
  BY <1>1, FS_Interval
<1>5. s \in Surjection(1..n, Components)
  BY <1>1, <1>3, <1>4, FS_Injection
<1>6. \A c \in Components : \E i \in 1..n : s[i] = c
  BY <1>5 DEF Surjection
<1>. HIDE DEF n
<1>7. Len(s) = n /\ s \in Seq(Components) /\ DOMAIN s = 1..n
  BY <1>1, <1>2
<1>. QED  BY <1>1, <1>2, <1>6, <1>7 DEF n

\* The components of order s are live up to place k, and those behind it are
\* not, or refused to stop.
LiveUpTo(s, k) ==
  \A i \in DOMAIN s : IF i <= k THEN s[i] \in started \ stuck
                                ELSE s[i] \in started => s[i] \in stuck

\* As LiveUpTo, with place k left open.
LiveAround(s, k) ==
  \A i \in DOMAIN s : IF i < k THEN s[i] \in started \ stuck
                      ELSE i > k => (s[i] \in started => s[i] \in stuck)

LEMMA LiveHasDependencies ==
  ASSUME NEW s \in TopologicalOrder, NEW k \in Int, LiveAround(s, k), started \subseteq Components
  PROVE  NeverWithoutDependencies
<1>1. SUFFICES ASSUME NEW c \in started \ stuck, NEW d \in Dependencies[c]
               PROVE  d \in started
  BY DEF NeverWithoutDependencies
<1>2. c \in Components /\ d \in Components
  BY OrchestratorAssumption
<1>3. PICK i, j \in DOMAIN s : s[i] = d /\ s[j] = c
  BY <1>2, OrderListsAll
<1>4. i < j /\ i \in Nat /\ j \in Nat
  BY <1>3, OrderListsAll
<1>5. j <= k
  BY <1>3, <1>4 DEF LiveAround
<1>. QED  BY <1>3, <1>4, <1>5 DEF LiveAround

LEMMA UpToIsAround ==
  ASSUME NEW s \in TopologicalOrder, NEW k \in Int, LiveUpTo(s, k)
  PROVE  LiveAround(s, k)
BY OrderListsAll DEF LiveUpTo, LiveAround

CallRecord(states) == [pc : states, order : Seq(Components), k : Int]

ServeTypes ==
  /\ compStatus \in [Components -> State]
  /\ started \subseteq Components /\ stuck \subseteq Components
  /\ starter \in CallRecord(StarterState)
  /\ stopper \in CallRecord(StopperState)

StarterInOrder ==
  /\ starter.pc = "idle" =>
       started = {} /\ stuck = {} /\ \A c \in Components : compStatus[c] # "stopped"
  /\ starter.pc # "idle" => starter.order \in TopologicalOrder
  /\ starter.pc \in {"bind", "start", "ready", "cleanup"} => starter.k \in DOMAIN starter.order
  /\ starter.pc \in {"bind", "start", "ready", "up"} =>
       (stopper.pc = "idle" => stuck = {} /\ \A c \in Components : compStatus[c] # "stopped")
  /\ starter.pc \in {"bind", "start"} => LiveUpTo(starter.order, starter.k - 1)
  /\ starter.pc = "ready" => LiveUpTo(starter.order, starter.k)
  /\ starter.pc = "cleanup" => LiveAround(starter.order, starter.k) /\ stuck = {}
  /\ starter.pc = "rollback" => LiveUpTo(starter.order, starter.k) /\ starter.k <= Len(starter.order)
  /\ starter.pc = "up" /\ stopper.pc = "idle" => Components \subseteq started
  /\ starter.pc = "down" => started \subseteq stuck
  /\ starter.pc # "idle" /\ starter.pc \notin {"up", "down"} => stopper.pc = "idle" /\ starter.k >= 0

StopperInOrder ==
  stopper.pc # "idle" =>
    /\ starter.pc = "up"
    /\ stopper.order \in TopologicalOrder
    /\ LiveUpTo(stopper.order, stopper.k) /\ stopper.k \in 0..Len(stopper.order)
    /\ stopper.pc = "stop" => \A i \in DOMAIN stopper.order :
                                 i <= stopper.k => compStatus[stopper.order[i]] # "stopped"
    /\ stopper.pc = "over" => stopper.k = 0

MainInOrder ==
  /\ main = "published" => starter.pc = "up"
  /\ starter.pc = "idle" => stopper.pc = "idle"

ComponentInv == ServeTypes /\ StarterInOrder /\ StopperInOrder /\ MainInOrder

LEMMA ComponentsStart == ServeInit => ComponentInv
<1>. SUFFICES ASSUME ServeInit PROVE ComponentInv
  OBVIOUS
<1>1. ServeTypes
  BY DEF ServeInit, OrchestratorInit, ServeTypes, State, CallRecord, StarterState, StopperState
<1>2. StarterInOrder /\ StopperInOrder /\ MainInOrder
  BY DEF ServeInit, OrchestratorInit, StarterInOrder, StopperInOrder, MainInOrder
<1>. QED  BY <1>1, <1>2 DEF ComponentInv

LEMMA BootstrapInOrder == ComponentInv /\ Bootstrap => ComponentInv'
<1>. SUFFICES ASSUME ComponentInv, Bootstrap PROVE ComponentInv'
  OBVIOUS
<1>. USE DEF ComponentInv
<1>1. PICK s \in TopologicalOrder : starter' = [pc |-> "bind", order |-> s, k |-> 1]
  BY DEF Bootstrap, StartComponents
<1>2. /\ starter.pc = "idle" /\ stopper.pc = "idle" /\ main' = "starting"
      /\ UNCHANGED <<compStatus, started, stuck, stopper>>
  BY DEF Bootstrap, StartComponents
<1>3. /\ starter'.pc = "bind" /\ starter'.order = s /\ starter'.k = 1
  BY <1>1
<1>4. ServeTypes'
  BY <1>1, <1>2, OrderListsAll DEF ServeTypes, CallRecord, StarterState
<1>5. LiveUpTo(s, 0)'
  BY <1>2, OrderListsAll DEF LiveUpTo, StarterInOrder
<1>6. StarterInOrder'
  BY <1>2, <1>3, <1>5, OrderListsAll DEF StarterInOrder
<1>. QED  BY <1>2, <1>3, <1>4, <1>6 DEF StopperInOrder, MainInOrder

LEMMA StatusIsSet ==
  ASSUME ServeTypes, NEW c \in Components, NEW s \in State, setStatus(c, s)
  PROVE  /\ compStatus' \in [Components -> State]
         /\ compStatus'[c] = s
         /\ \A d \in Components : d # c => compStatus'[d] = compStatus[d]
BY DEF ServeTypes, setStatus

LEMMA StartStepInOrder ==
  ASSUME ComponentInv, StartStep, UNCHANGED serve
  PROVE  ComponentInv'
<1>. USE DEF ComponentInv
<1>0. PICK s, k : s = starter.order /\ k = starter.k
  OBVIOUS
<1>1. /\ UNCHANGED <<main, stopper>> /\ stopper.pc = "idle"
      /\ starter.pc \in {"bind", "start", "ready", "cleanup", "rollback"}
      /\ s \in TopologicalOrder /\ k \in Int /\ k >= 0
  BY <1>0 DEF StartStep, Bind, StartHook, ReadyHook, Cleanup, Rollback, serve, StarterInOrder, ServeTypes, CallRecord
<1>2. /\ Len(s) \in Nat /\ Len(s) > 0 /\ DOMAIN s = 1..Len(s) /\ s \in Seq(Components)
      /\ \A i, j \in DOMAIN s : s[i] = s[j] => i = j
      /\ \A c \in Components : \E i \in DOMAIN s : s[i] = c
  BY <1>1, OrderListsAll
<1>3. starter.pc # "rollback" => k \in 1..Len(s) /\ ThisOne = s[k] /\ ThisOne \in Components
  BY <1>0, <1>1, <1>2 DEF StarterInOrder, ThisOne
<1>4. StopperInOrder' /\ MainInOrder' <=> (main = "published" => starter'.pc = "up")
  BY <1>1 DEF StopperInOrder, MainInOrder
<1>5. main # "published"
  BY <1>1 DEF MainInOrder
\* A hook failed: the component is to be cleaned up.
<1>6. ASSUME starter.pc \in {"bind", "start", "ready"}, StartupFails,
             started' \in {started, started \cup {ThisOne}}, UNCHANGED stuck
      PROVE  ComponentInv'
  <2>1. /\ starter' \in CallRecord(StarterState) /\ starter'.pc = "cleanup" /\ starter'.k = k
        /\ starter'.order = s
    BY <1>0, <1>6 DEF StartupFails, ServeTypes, CallRecord, StarterState
  <2>2. /\ compStatus' \in [Components -> State]
    BY <1>3, <1>6, StatusIsSet DEF StartupFails, State
  <2>3. ServeTypes'
    BY <1>1, <1>3, <1>6, <2>1, <2>2 DEF ServeTypes
  <2>4. stuck = {} /\ (LiveUpTo(s, k - 1) \/ LiveUpTo(s, k))
    BY <1>0, <1>1, <1>6 DEF StarterInOrder
  <2>5. LiveAround(s, k)'
    BY <1>1, <1>2, <1>3, <1>6, <2>4 DEF LiveUpTo, LiveAround
  <2>6. StarterInOrder'
    BY <1>1, <1>2, <1>3, <1>6, <2>1, <2>4, <2>5 DEF StarterInOrder
  <2>. QED  BY <1>4, <1>5, <2>3, <2>6
<1>7. ASSUME Bind, setStatus(ThisOne, "bound"), starter' = [starter EXCEPT !.pc = "start"]
      PROVE  ComponentInv'
  <2>1. /\ starter' \in CallRecord(StarterState) /\ starter'.pc = "start" /\ starter'.k = k
        /\ starter'.order = s
    BY <1>0, <1>7 DEF ServeTypes, CallRecord, StarterState
  <2>2. starter.pc = "bind" /\ UNCHANGED <<started, stuck>> /\ LiveUpTo(s, k - 1)
    BY <1>0, <1>7 DEF Bind, StarterInOrder
  <2>3. /\ compStatus' \in [Components -> State]
        /\ \A c \in Components : compStatus'[c] # "stopped"
    BY <1>1, <1>3, <1>7, <2>2, StatusIsSet DEF State, StarterInOrder
  <2>4. ServeTypes'
    BY <1>1, <2>1, <2>2, <2>3 DEF ServeTypes
  <2>5. LiveUpTo(s, k - 1)'
    BY <2>2 DEF LiveUpTo
  <2>6. StarterInOrder'
    BY <1>1, <1>2, <1>3, <2>1, <2>2, <2>3, <2>5 DEF StarterInOrder
  <2>. QED  BY <1>4, <1>5, <2>4, <2>6
<1>8. ASSUME StartHook, started' = started \cup {ThisOne}, setStatus(ThisOne, "started"),
             starter' = [starter EXCEPT !.pc = "ready"]
      PROVE  ComponentInv'
  <2>1. /\ starter' \in CallRecord(StarterState) /\ starter'.pc = "ready" /\ starter'.k = k
        /\ starter'.order = s
    BY <1>0, <1>8 DEF ServeTypes, CallRecord, StarterState
  <2>2. starter.pc = "start" /\ UNCHANGED stuck /\ LiveUpTo(s, k - 1) /\ stuck = {}
    BY <1>0, <1>1, <1>8 DEF StartHook, StarterInOrder
  <2>3. /\ compStatus' \in [Components -> State]
        /\ \A c \in Components : compStatus'[c] # "stopped"
    BY <1>1, <1>3, <1>8, <2>2, StatusIsSet DEF State, StarterInOrder
  <2>4. ServeTypes'
    BY <1>1, <1>3, <1>8, <2>1, <2>2, <2>3 DEF ServeTypes
  <2>5. LiveUpTo(s, k)'
    BY <1>2, <1>3, <1>8, <2>2 DEF LiveUpTo
  <2>6. StarterInOrder'
    BY <1>1, <1>2, <1>3, <2>1, <2>2, <2>3, <2>5 DEF StarterInOrder
  <2>. QED  BY <1>4, <1>5, <2>4, <2>6
<1>9. ASSUME ReadyHook, NextComponent, NEW st \in {"ready", "degraded"}, setStatus(ThisOne, st)
      PROVE  ComponentInv'
  <2>1. /\ starter.pc = "ready" /\ UNCHANGED <<started, stuck>> /\ LiveUpTo(s, k) /\ stuck = {}
    BY <1>0, <1>1, <1>9 DEF ReadyHook, StarterInOrder
  <2>2. /\ compStatus' \in [Components -> State]
        /\ \A c \in Components : compStatus'[c] # "stopped"
    BY <1>1, <1>3, <1>9, <2>1, StatusIsSet DEF State, StarterInOrder
  <2>3. LiveUpTo(s, k)'
    BY <2>1 DEF LiveUpTo
  <2>4. CASE k = Len(s)
    <3>1. /\ starter' \in CallRecord(StarterState) /\ starter'.pc = "up" /\ starter'.k = k
          /\ starter'.order = s
      BY <1>0, <1>9, <2>4 DEF NextComponent, ServeTypes, CallRecord, StarterState
    <3>2. ServeTypes'
      BY <1>1, <2>1, <2>2, <3>1 DEF ServeTypes
    <3>3. Components \subseteq started
      BY <1>2, <2>1, <2>4 DEF LiveUpTo
    <3>4. StarterInOrder'
      BY <1>1, <2>1, <2>2, <3>1, <3>3 DEF StarterInOrder
    <3>. QED  BY <1>4, <1>5, <3>2, <3>4
  <2>5. CASE k # Len(s)
    <3>1. /\ starter' \in CallRecord(StarterState) /\ starter'.pc = "bind" /\ starter'.k = k + 1
          /\ starter'.order = s
      <4>1. starter' = [starter EXCEPT !.pc = "bind", !.k = k + 1]
        BY <1>0, <1>9, <2>5 DEF NextComponent
      <4>2. starter' = [pc |-> "bind", order |-> s, k |-> k + 1]
        BY <1>0, <4>1 DEF ServeTypes, CallRecord
      <4>3. s \in Seq(Components) /\ k + 1 \in Int
        BY <1>1, <1>2
      <4>. QED  BY <4>2, <4>3 DEF CallRecord, StarterState
    <3>2. ServeTypes'
      BY <1>1, <2>1, <2>2, <3>1 DEF ServeTypes
    <3>3. k + 1 \in DOMAIN s /\ (k + 1) - 1 = k
      BY <1>2, <1>3, <2>1, <2>5
    <3>4. StarterInOrder'
      BY <1>1, <2>1, <2>2, <2>3, <3>1, <3>3 DEF StarterInOrder
    <3>. QED  BY <1>4, <1>5, <3>2, <3>4
  <2>. QED  BY <2>4, <2>5
<1>10. CASE Cleanup
  <2>1. PICK ok \in BOOLEAN : StopHook(ThisOne, ok)
    BY <1>10 DEF Cleanup
  <2>2. /\ starter.pc = "cleanup" /\ UNCHANGED compStatus /\ LiveAround(s, k) /\ stuck = {}
    BY <1>0, <1>1, <1>10 DEF Cleanup, StarterInOrder
  <2>3. /\ starter' \in CallRecord(StarterState) /\ starter'.pc = "rollback" /\ starter'.k = k - 1
        /\ starter'.order = s
    <3>1. starter' = [starter EXCEPT !.pc = "rollback", !.k = k - 1]
      BY <1>0, <1>10 DEF Cleanup
    <3>2. starter' = [pc |-> "rollback", order |-> s, k |-> k - 1]
      BY <1>0, <3>1 DEF ServeTypes, CallRecord
    <3>3. s \in Seq(Components) /\ k - 1 \in Int
      BY <1>1, <1>2
    <3>. QED  BY <3>2, <3>3 DEF CallRecord, StarterState
  <2>4. /\ started' \subseteq Components /\ stuck' \subseteq Components
        /\ \A c \in Components : c # ThisOne => (c \in started' <=> c \in started) /\ (c \in stuck' <=> c \in stuck)
        /\ ThisOne \in started' => ThisOne \in stuck'
    BY <1>3, <2>1, <2>2 DEF StopHook, ServeTypes
  <2>5. ServeTypes'
    BY <1>1, <2>2, <2>3, <2>4 DEF ServeTypes
  <2>6. LiveUpTo(s, k - 1)'
    BY <1>1, <1>2, <1>3, <2>2, <2>4 DEF LiveUpTo, LiveAround
  <2>7. StarterInOrder'
    BY <1>1, <1>2, <1>3, <2>2, <2>3, <2>6 DEF StarterInOrder
  <2>. QED  BY <1>4, <1>5, <2>5, <2>7
<1>11. CASE Rollback
  <2>1. starter.pc = "rollback" /\ LiveUpTo(s, k) /\ k <= Len(s)
    BY <1>0, <1>11 DEF Rollback, StarterInOrder
  <2>2. CASE k = 0 /\ starter' = [starter EXCEPT !.pc = "down"] /\ UNCHANGED <<compStatus, started, stuck>>
    <3>1. /\ starter' \in CallRecord(StarterState) /\ starter'.pc = "down" /\ starter'.order = s
      BY <1>0, <2>2 DEF ServeTypes, CallRecord, StarterState
    <3>2. started \subseteq stuck
      BY <1>2, <2>1, <2>2 DEF LiveUpTo, ServeTypes
    <3>3. ServeTypes'
      BY <1>1, <2>2, <3>1 DEF ServeTypes
    <3>4. StarterInOrder'
      BY <1>1, <2>2, <3>1, <3>2 DEF StarterInOrder
    <3>. QED  BY <1>4, <1>5, <3>3, <3>4
  <2>3. CASE k > 0 /\ BeginStop(ThisOne) /\ UNCHANGED <<starter, started, stuck>>
    <3>1. ThisOne \in Components
      BY <1>0, <1>1, <1>2, <2>1, <2>3 DEF ThisOne
    <3>2. compStatus' \in [Components -> State]
      BY <2>3, <3>1, StatusIsSet DEF BeginStop, State
    <3>3. ServeTypes'
      BY <1>1, <2>3, <3>2 DEF ServeTypes
    <3>4. LiveUpTo(s, k)'
      BY <2>1, <2>3 DEF LiveUpTo
    <3>5. StarterInOrder'
      BY <1>0, <1>1, <2>1, <2>3, <3>4 DEF StarterInOrder
    <3>. QED  BY <1>4, <1>5, <2>3, <1>1, <3>3, <3>5
  <2>4. CASE k > 0 /\ EndStop(ThisOne) /\ starter' = [starter EXCEPT !.k = @ - 1]
    <3>1. ThisOne \in Components /\ ThisOne = s[k] /\ k \in DOMAIN s
      BY <1>0, <1>1, <1>2, <2>1, <2>4 DEF ThisOne
    <3>2. PICK ok \in BOOLEAN, to \in {"stopped", "failed"} : StopHook(ThisOne, ok) /\ setStatus(ThisOne, to)
      BY <2>4 DEF EndStop
    <3>3. compStatus' \in [Components -> State]
      BY <3>1, <3>2, StatusIsSet DEF State
    <3>4. /\ started' \subseteq Components /\ stuck' \subseteq Components
          /\ \A c \in Components : c # ThisOne => (c \in started' <=> c \in started) /\ (c \in stuck' <=> c \in stuck)
          /\ ThisOne \in started' => ThisOne \in stuck'
      BY <3>1, <3>2 DEF StopHook, ServeTypes
    <3>5. /\ starter' \in CallRecord(StarterState) /\ starter'.pc = "rollback" /\ starter'.k = k - 1
          /\ starter'.order = s
      <4>1. /\ starter \in CallRecord(StarterState) /\ starter.pc = "rollback"
            /\ starter.k = k /\ k \in Int /\ starter.order = s
        BY <1>0, <1>1, <2>1 DEF ServeTypes, CallRecord
      <4>2. starter' = [starter EXCEPT !.k = @ - 1]
        BY <2>4
      <4>. QED  BY <4>1, <4>2 DEF CallRecord
    <3>6. ServeTypes'
      BY <1>1, <3>3, <3>4, <3>5 DEF ServeTypes
    <3>7. LiveUpTo(s, k - 1)'
      BY <1>1, <1>2, <2>1, <3>1, <3>4 DEF LiveUpTo
    <3>8. StarterInOrder'
      BY <1>1, <2>1, <2>4, <3>5, <3>7 DEF StarterInOrder
    <3>. QED  BY <1>4, <1>5, <3>6, <3>8
  <2>. QED  BY <1>0, <1>11, <2>2, <2>3, <2>4 DEF Rollback
<1>12. CASE Bind
  BY <1>6, <1>7, <1>12 DEF Bind
<1>13. CASE StartHook
  BY <1>6, <1>8, <1>13 DEF StartHook
<1>14. CASE ReadyHook
  BY <1>6, <1>9, <1>14 DEF ReadyHook
<1>. QED  BY <1>10, <1>11, <1>12, <1>13, <1>14 DEF StartStep

LEMMA StopNextInOrder ==
  ASSUME ComponentInv, StopNext, UNCHANGED serve
  PROVE  ComponentInv'
<1>. USE DEF ComponentInv
<1>0. PICK s, k : s = stopper.order /\ k = stopper.k
  OBVIOUS
<1>1. /\ UNCHANGED <<main, starter>> /\ stopper.pc = "stop" /\ starter.pc = "up"
      /\ s \in TopologicalOrder /\ k \in 0..Len(s) /\ LiveUpTo(s, k)
      /\ \A i \in DOMAIN s : i <= k => compStatus[s[i]] # "stopped"
  BY <1>0 DEF StopNext, serve, StopperInOrder
<1>2. /\ Len(s) \in Nat /\ DOMAIN s = 1..Len(s) /\ s \in Seq(Components)
      /\ \A i, j \in DOMAIN s : s[i] = s[j] => i = j
  BY <1>1, OrderListsAll
<1>3. k > 0 => k \in DOMAIN s /\ Stopping = s[k] /\ Stopping \in Components
  BY <1>0, <1>1, <1>2 DEF Stopping
\* The starter is done: what the stopper does to the components is not its.
<1>4. stopper'.pc # "idle" => (StarterInOrder' /\ MainInOrder')
  BY <1>1 DEF StarterInOrder, MainInOrder
<1>5. ASSUME NEW q \in StopperState, NEW i \in Int, stopper' = [stopper EXCEPT !.pc = q, !.k = i]
      PROVE  /\ stopper' \in CallRecord(StopperState)
             /\ stopper'.pc = q /\ stopper'.k = i /\ stopper'.order = s
  BY <1>0, <1>5 DEF ServeTypes, CallRecord
<1>6. ASSUME stopper' \in CallRecord(StopperState), stopper'.pc = "stop", stopper'.order = s,
             stopper'.k \in 0..Len(s), LiveUpTo(s, stopper.k)',
             compStatus' \in [Components -> State], started' \subseteq Components, stuck' \subseteq Components,
             \A i \in DOMAIN s : i <= stopper'.k => compStatus'[s[i]] # "stopped"
      PROVE  ComponentInv'
  <2>1. ServeTypes'
    BY <1>1, <1>6 DEF ServeTypes
  <2>2. StopperInOrder'
    BY <1>1, <1>6 DEF StopperInOrder
  <2>. QED  BY <1>4, <1>6, <2>1, <2>2
<1>7. CASE k = 0 /\ stopper' = [stopper EXCEPT !.pc = "over"] /\ UNCHANGED <<compStatus, started, stuck>>
  <2>1. /\ stopper' \in CallRecord(StopperState) /\ stopper'.pc = "over" /\ stopper'.k = k
        /\ stopper'.order = s
    BY <1>0, <1>7 DEF ServeTypes, CallRecord, StopperState
  <2>2. ServeTypes'
    BY <1>1, <1>7, <2>1 DEF ServeTypes
  <2>3. LiveUpTo(s, k)'
    BY <1>1, <1>7 DEF LiveUpTo
  <2>4. StopperInOrder'
    BY <1>1, <1>7, <2>1, <2>3 DEF StopperInOrder
  <2>. QED  BY <1>4, <2>1, <2>2, <2>4
<1>8. CASE k > 0 /\ BeginStop(Stopping) /\ UNCHANGED <<stopper, started, stuck>>
  <2>1. /\ compStatus' \in [Components -> State]
        /\ \A i \in DOMAIN s : i <= k => compStatus'[s[i]] # "stopped"
    BY <1>1, <1>2, <1>3, <1>8, StatusIsSet DEF BeginStop, State
  <2>2. LiveUpTo(s, k)'
    BY <1>1, <1>8 DEF LiveUpTo
  <2>3. stopper \in CallRecord(StopperState) /\ started \subseteq Components /\ stuck \subseteq Components
    BY DEF ServeTypes
  <2>. QED  BY <1>0, <1>1, <1>6, <1>8, <2>1, <2>2, <2>3
<1>9. CASE k > 0 /\ EndStop(Stopping) /\ stopper' = [stopper EXCEPT !.k = @ - 1]
  <2>1. PICK ok \in BOOLEAN, to \in {"stopped", "failed"} : StopHook(Stopping, ok) /\ setStatus(Stopping, to)
    BY <1>9 DEF EndStop
  <2>2. /\ compStatus' \in [Components -> State]
        /\ \A c \in Components : c # Stopping => compStatus'[c] = compStatus[c]
    BY <1>3, <1>9, <2>1, StatusIsSet DEF State
  <2>3. /\ started' \subseteq Components /\ stuck' \subseteq Components
        /\ \A c \in Components : c # Stopping => (c \in started' <=> c \in started) /\ (c \in stuck' <=> c \in stuck)
        /\ Stopping \in started' => Stopping \in stuck'
    BY <1>3, <1>9, <2>1 DEF StopHook, ServeTypes
  <2>4. /\ stopper' \in CallRecord(StopperState) /\ stopper'.pc = "stop" /\ stopper'.k = k - 1
        /\ stopper'.order = s
    BY <1>0, <1>1, <1>9 DEF ServeTypes, CallRecord, StopperState
  <2>5. LiveUpTo(s, k - 1)'
    BY <1>1, <1>2, <1>3, <1>9, <2>3 DEF LiveUpTo
  <2>6. \A i \in DOMAIN s : i <= k - 1 => compStatus'[s[i]] # "stopped"
    BY <1>1, <1>2, <1>3, <1>9, <2>2
  <2>. QED  BY <1>1, <1>2, <1>6, <1>9, <2>2, <2>3, <2>4, <2>5, <2>6
<1>10. ~(k > 0 /\ compStatus[Stopping] = "stopped")
  BY <1>1, <1>3
<1>. QED  BY <1>0, <1>7, <1>8, <1>9, <1>10 DEF StopNext

LEMMA ShutdownInOrder == ComponentInv /\ main = "published" /\ Shutdown /\ UNCHANGED main => ComponentInv'
<1>. SUFFICES ASSUME ComponentInv, main = "published", Shutdown, UNCHANGED main PROVE ComponentInv'
  OBVIOUS
<1>. USE DEF ComponentInv
<1>1. PICK s \in TopologicalOrder : stopper' = [pc |-> "stop", order |-> s, k |-> Len(s)]
  BY DEF Shutdown
<1>2. /\ stopper.pc = "idle" /\ starter.pc = "up" /\ UNCHANGED <<compStatus, started, stuck, starter>>
  BY DEF Shutdown, MainInOrder
<1>3. stopper'.pc = "stop" /\ stopper'.order = s /\ stopper'.k = Len(s)
  BY <1>1
<1>4. ServeTypes'
  BY <1>1, <1>2, OrderListsAll DEF ServeTypes, CallRecord, StopperState
<1>5. /\ Len(s) \in Nat /\ DOMAIN s = 1..Len(s) /\ \A i \in DOMAIN s : s[i] \in Components
  BY OrderListsAll
<1>6. /\ stuck = {} /\ Components \subseteq started
      /\ \A c \in Components : compStatus[c] # "stopped"
  BY <1>2 DEF StarterInOrder
<1>7. LiveUpTo(s, Len(s))'
  BY <1>2, <1>5, <1>6 DEF LiveUpTo
<1>8. StopperInOrder'
  BY <1>2, <1>3, <1>5, <1>6, <1>7 DEF StopperInOrder
<1>9. StarterInOrder' /\ MainInOrder'
  BY <1>2, <1>3 DEF StarterInOrder, MainInOrder
<1>. QED  BY <1>4, <1>8, <1>9

LEMMA ComponentStep == ComponentInv /\ [ServeNext]_process => ComponentInv'
<1>. SUFFICES ASSUME ComponentInv, [ServeNext]_process PROVE ComponentInv'
  OBVIOUS
<1>1. ASSUME UNCHANGED <<orchestrator, main>>  PROVE ComponentInv'
  BY <1>1 DEF orchestrator, ComponentInv, ServeTypes, StarterInOrder, StopperInOrder, MainInOrder,
     LiveUpTo, LiveAround
<1>2. CASE Bootstrap
  BY <1>2, BootstrapInOrder
<1>3. CASE Publish
  <2>1. starter.pc = "up" /\ UNCHANGED orchestrator
    BY <1>3 DEF Publish
  <2>. QED
    BY <2>1 DEF orchestrator, ComponentInv, ServeTypes, StarterInOrder, StopperInOrder, MainInOrder,
       LiveUpTo, LiveAround
<1>4. CASE AddHook \/ SignalArrives \/ PhaseStep \/ CancelContext \/ UNCHANGED process
  BY <1>1, <1>4 DEF AddHook, SignalArrives, PhaseStep, CancelContext, process, serve
<1>5. CASE StopComponents
  BY <1>1, <1>5, ShutdownInOrder DEF StopComponents
<1>6. CASE StartStep /\ UNCHANGED <<shutdown, serve>>
  BY <1>6, StartStepInOrder
<1>7. CASE StopNext /\ UNCHANGED <<shutdown, serve>>
  BY <1>7, StopNextInOrder
<1>. QED  BY <1>2, <1>3, <1>4, <1>5, <1>6, <1>7 DEF ServeNext

LEMMA ComponentInvIsEnough == ComponentInv => ComponentsAreOrdered
<1>. SUFFICES ASSUME ComponentInv PROVE NeverWithoutDependencies /\ RollbackLeavesNothing
  BY DEF ComponentsAreOrdered
<1>. USE DEF ComponentInv
<1>1. RollbackLeavesNothing
  BY DEF RollbackLeavesNothing, StarterInOrder
<1>2. ASSUME NEW s \in TopologicalOrder, NEW k \in Int, LiveUpTo(s, k) \/ LiveAround(s, k)
      PROVE  NeverWithoutDependencies
  <2>1. LiveAround(s, k)
    BY <1>2, UpToIsAround
  <2>. QED  BY <2>1, LiveHasDependencies DEF ServeTypes
<1>3. CASE starter.pc = "idle" \/ starter.pc = "down"
  BY <1>1, <1>3 DEF NeverWithoutDependencies, StarterInOrder
<1>4. CASE starter.pc \in {"bind", "start", "ready", "rollback", "cleanup"}
  <2>1. starter.order \in TopologicalOrder /\ starter.k \in Int /\ starter.k - 1 \in Int
    BY <1>4 DEF StarterInOrder, ServeTypes, CallRecord
  <2>2. \/ LiveUpTo(starter.order, starter.k - 1) \/ LiveUpTo(starter.order, starter.k)
        \/ LiveAround(starter.order, starter.k)
    BY <1>4 DEF StarterInOrder
  <2>. QED  BY <1>1, <1>2, <2>1, <2>2
<1>5. CASE starter.pc = "up" /\ stopper.pc = "idle"
  <2>1. Components \subseteq started
    BY <1>5 DEF StarterInOrder
  <2>. QED  BY <1>1, <2>1, OrchestratorAssumption DEF NeverWithoutDependencies, ServeTypes
<1>6. CASE stopper.pc # "idle"
  <2>1. stopper.order \in TopologicalOrder /\ stopper.k \in Int /\ LiveUpTo(stopper.order, stopper.k)
    BY <1>6 DEF StopperInOrder, ServeTypes, CallRecord
  <2>. QED  BY <1>1, <1>2, <2>1
<1>7. starter.pc \in StarterState
  BY DEF ServeTypes, CallRecord
<1>. QED  BY <1>1, <1>3, <1>4, <1>5, <1>6, <1>7 DEF StarterState

\* Components come up after what they need and go down before it, also when
\* Start fails half-way and when Shutdown computes another order than Start:
\* for any components and any acyclic dependencies (orchestrator.go).
THEOREM ComponentsInOrder == ServeSpec => []ComponentsAreOrdered
BY ComponentsStart, ComponentStep, ComponentInvIsEnough, PTL DEF ServeSpec

-----------------------------------------------------------------------------
(* The evolution scheduler.  Whoever starts a cycle has told the one before *)
(* to stop, and Shutdown cancels only when the loop that starts them is     *)
(* over: from either point on no running cycle has not been told.           *)

EvoFields == {"now", "lastRun", "enabled", "loop", "cycles", "subscribed", "shutdown"}

EvoIsRecord == evolution = [f \in EvoFields |-> evolution[f]]

EvoChanges(F) == EvoIsRecord' /\ \A f \in EvoFields \ F : evolution'[f] = evolution[f]

CycleRecord == [at : {"running", "ended"}, canceled : BOOLEAN, started : Int]

EvoTyped ==
  /\ evolution.now \in Int
  /\ evolution.loop \in {"waiting", "decided", "starting", "stopped"}
  /\ evolution.shutdown \in {"no", "loop", "cycle", "returned"}
  /\ evolution.cycles \in Seq(CycleRecord)

AllAreTold == \A c \in RunningCycles : evolution.cycles[c].canceled

CyclesInOrder ==
  /\ \A c \in RunningCycles : evolution.cycles[c].canceled \/ c = Newest
  /\ evolution.loop = "starting" => AllAreTold
  /\ evolution.shutdown \in {"cycle", "returned"} => AllAreTold /\ evolution.loop = "stopped"

EvoInv == EvoIsRecord /\ EvoTyped /\ CyclesInOrder

LEMMA EvoStarts == EvoInit => EvoInv
<1>. SUFFICES ASSUME EvoInit PROVE EvoInv
  OBVIOUS
<1>1. EvoIsRecord
  BY DEF EvoInit, EvoIsRecord, EvoFields
<1>2. EvoTyped /\ CyclesInOrder
  BY DEF EvoInit, EvoTyped, CyclesInOrder, AllAreTold, RunningCycles, Cycles
<1>. QED  BY <1>1, <1>2 DEF EvoInv

LEMMA ASequence ==
  ASSUME NEW S, NEW n \in Nat, NEW t \in [1..n -> S]
  PROVE  t \in Seq(S) /\ Len(t) = n
OBVIOUS

LEMMA CycleEnds ==
  ASSUME NEW r \in CycleRecord
  PROVE  /\ [r EXCEPT !.at = "ended"] \in CycleRecord
         /\ [r EXCEPT !.at = "ended"].at = "ended"
BY DEF CycleRecord

LEMMA CycleTold ==
  ASSUME NEW r \in CycleRecord
  PROVE  /\ [r EXCEPT !.canceled = TRUE] \in CycleRecord
         /\ [r EXCEPT !.canceled = TRUE].at = r.at
         /\ [r EXCEPT !.canceled = TRUE].canceled = TRUE
BY DEF CycleRecord

\* What the cancellation of the newest cycle makes of the cycles.
LEMMA CancelTellsNewest ==
  ASSUME NEW s \in Seq(CycleRecord),
         NEW t, t = [c \in DOMAIN s |-> IF c = Len(s) THEN [s[c] EXCEPT !.canceled = TRUE] ELSE s[c]]
  PROVE  /\ t \in Seq(CycleRecord) /\ Len(t) = Len(s)
         /\ \A c \in DOMAIN s : /\ t[c].at = s[c].at
                                /\ c # Len(s) => t[c] = s[c]
                                /\ c = Len(s) => t[c].canceled
<1>1. DOMAIN s = 1..Len(s) /\ Len(s) \in Nat /\ \A c \in 1..Len(s) : s[c] \in CycleRecord
  OBVIOUS
<1>2. ASSUME NEW c \in 1..Len(s)
      PROVE  /\ t[c] \in CycleRecord /\ t[c].at = s[c].at
             /\ c # Len(s) => t[c] = s[c]
             /\ c = Len(s) => t[c].canceled
  <2>1. t[c] = IF c = Len(s) THEN [s[c] EXCEPT !.canceled = TRUE] ELSE s[c]
    BY <1>1
  <2>. QED  BY <2>1, <1>1, CycleTold
<1>3. t \in [1..Len(s) -> CycleRecord]
  BY <1>1, <1>2
<1>. QED  BY <1>1, <1>2, <1>3, ASequence

LEMMA EvoStep == EvoInv /\ [EvoNext]_evolution => EvoInv'
<1>. SUFFICES ASSUME EvoInv, [EvoNext]_evolution PROVE EvoInv'
  OBVIOUS
<1>. USE DEF EvoInv
<1>1. CASE EvoTick \/ SetEnabled
  <2>1. EvoChanges({"now", "enabled"}) /\ evolution'.now \in Int
    BY <1>1 DEF EvoTick, SetEnabled, EvoChanges, EvoIsRecord, EvoFields, EvoTyped
  <2>. QED
    BY <2>1 DEF EvoChanges, EvoFields, EvoTyped, CyclesInOrder, AllAreTold, RunningCycles, Cycles, Newest
<1>2. CASE AgentEnds
  <2>1. EvoChanges({"loop"}) /\ evolution.loop = "waiting" /\ evolution'.loop = "decided"
    BY <1>2 DEF AgentEnds, EvoChanges, EvoIsRecord, EvoFields
  <2>. QED
    BY <2>1 DEF EvoChanges, EvoFields, EvoTyped, CyclesInOrder, AllAreTold, RunningCycles, Cycles, Newest
<1>3. CASE CancelPrevious \/ ShutdownCancels
  <2>1. /\ EvoChanges({"loop", "cycles", "shutdown"})
        /\ evolution'.cycles = [c \in Cycles |-> IF c = Newest
             THEN [evolution.cycles[c] EXCEPT !.canceled = TRUE] ELSE evolution.cycles[c]]
        /\ \/ /\ evolution.loop = "decided" /\ evolution'.loop = "starting"
              /\ evolution'.shutdown = evolution.shutdown
           \/ /\ evolution.loop = "stopped" /\ evolution'.loop = "stopped"
              /\ evolution'.shutdown = "cycle"
    BY <1>3 DEF CancelPrevious, ShutdownCancels, EvoChanges, EvoIsRecord, EvoFields
  <2>2. /\ evolution'.cycles \in Seq(CycleRecord) /\ Newest' = Newest
        /\ \A c \in Cycles : /\ evolution'.cycles[c].at = evolution.cycles[c].at
                             /\ c # Newest => evolution'.cycles[c] = evolution.cycles[c]
                             /\ c = Newest => evolution'.cycles[c].canceled
    BY <2>1, CancelTellsNewest DEF Cycles, Newest, EvoTyped
  <2>3. Cycles' = Cycles /\ RunningCycles' = RunningCycles
    BY <2>2 DEF Cycles, Newest, RunningCycles, EvoTyped
  <2>4. AllAreTold'
    BY <2>2, <2>3 DEF CyclesInOrder, AllAreTold, RunningCycles
  <2>5. EvoTyped'
    BY <2>1, <2>2 DEF EvoChanges, EvoFields, EvoTyped
  <2>6. CyclesInOrder'
    BY <2>1, <2>4 DEF CyclesInOrder, AllAreTold
  <2>. QED  BY <2>1, <2>5, <2>6 DEF EvoChanges
<1>4. CASE StartCycle
  <2>. DEFINE new == [at |-> "running", canceled |-> FALSE, started |-> evolution.now]
  <2>1. /\ EvoChanges({"loop", "cycles"})
        /\ evolution.loop = "starting" /\ evolution'.loop = "waiting"
        /\ evolution'.cycles = Append(evolution.cycles, new)
    BY <1>4 DEF StartCycle, EvoChanges, EvoIsRecord, EvoFields
  <2>2. new \in CycleRecord
    BY DEF CycleRecord, EvoTyped
  <2>. HIDE DEF new
  <2>3. /\ evolution'.cycles \in Seq(CycleRecord) /\ Newest' = Newest + 1
        /\ \A c \in Cycles : evolution'.cycles[c] = evolution.cycles[c]
    BY <2>1, <2>2 DEF Cycles, Newest, EvoTyped
  <2>4. Cycles' = Cycles \cup {Newest'}
    BY <2>3 DEF Cycles, Newest, EvoTyped
  <2>5. EvoTyped'
    BY <2>1, <2>3 DEF EvoChanges, EvoFields, EvoTyped
  <2>6. \A c \in RunningCycles' : (evolution.cycles[c].canceled)' \/ c = Newest'
    BY <2>1, <2>3, <2>4 DEF RunningCycles, CyclesInOrder, AllAreTold
  <2>7. evolution'.shutdown = evolution.shutdown
    BY <2>1 DEF EvoChanges, EvoFields
  <2>8. CyclesInOrder'
    BY <2>1, <2>6, <2>7 DEF CyclesInOrder
  <2>. QED  BY <2>1, <2>5, <2>8 DEF EvoChanges
<1>5. ASSUME NEW c \in Cycles, CycleSucceeds(c) \/ CycleFails(c)
      PROVE  EvoInv'
  <2>1. /\ EvoChanges({"cycles", "lastRun"})
        /\ evolution'.cycles = [evolution.cycles EXCEPT ![c] = [evolution.cycles[c] EXCEPT !.at = "ended"]]
    BY <1>5 DEF CycleSucceeds, CycleFails, EvoChanges, EvoIsRecord, EvoFields
  <2>2. /\ evolution.cycles[c] \in CycleRecord
        /\ [evolution.cycles[c] EXCEPT !.at = "ended"] \in CycleRecord
    BY CycleEnds DEF Cycles, EvoTyped
  <2>3. evolution'.cycles \in Seq(CycleRecord) /\ Len(evolution'.cycles) = Len(evolution.cycles)
    BY <2>1, <2>2 DEF Cycles, EvoTyped
  <2>4. Newest' = Newest /\ Cycles' = Cycles
    BY <2>3 DEF Newest, Cycles, EvoTyped
  <2>5. \A d \in RunningCycles' : d \in RunningCycles /\ evolution'.cycles[d] = evolution.cycles[d]
    <3>1. evolution'.cycles[c].at = "ended"
      BY <2>1, <2>2, CycleEnds DEF Cycles
    <3>. QED  BY <2>1, <2>4, <3>1 DEF RunningCycles, Cycles
  <2>6. EvoTyped'
    BY <2>1, <2>3 DEF EvoChanges, EvoFields, EvoTyped
  <2>7. evolution'.shutdown = evolution.shutdown /\ evolution'.loop = evolution.loop
    BY <2>1 DEF EvoChanges, EvoFields
  <2>8. CyclesInOrder'
    BY <2>4, <2>5, <2>7 DEF CyclesInOrder, AllAreTold
  <2>. QED  BY <2>1, <2>6, <2>8 DEF EvoChanges
<1>6. CASE ShutdownScheduler \/ LoopStops \/ ShutdownReturns
  <2>1. /\ EvoChanges({"loop", "shutdown", "subscribed"})
        /\ \/ evolution.shutdown = "no" /\ evolution'.shutdown = "loop" /\ evolution'.loop = evolution.loop
           \/ evolution'.shutdown = evolution.shutdown /\ evolution'.loop = "stopped"
           \/ evolution.shutdown = "cycle" /\ evolution'.shutdown = "returned" /\ evolution'.loop = evolution.loop
    BY <1>6 DEF ShutdownScheduler, LoopStops, ShutdownReturns, EvoChanges, EvoIsRecord, EvoFields
  <2>. QED
    BY <2>1 DEF EvoChanges, EvoFields, EvoTyped, CyclesInOrder, AllAreTold, RunningCycles, Cycles, Newest
<1>7. CASE UNCHANGED evolution
  BY <1>7 DEF EvoIsRecord, EvoTyped, CyclesInOrder, AllAreTold, RunningCycles, Cycles, Newest
<1>. QED
  BY <1>1, <1>2, <1>3, <1>4, <1>5, <1>6, <1>7 DEF EvoNext

\* At most the newest cycle runs untold, and none once Shutdown has returned:
\* for any interval, and however agents end while Shutdown waits
\* (scheduler.go).
THEOREM CyclesAreTold == EvoSpec => []OldCyclesAreTold
<1>1. EvoInv => OldCyclesAreTold
  BY DEF EvoInv, CyclesInOrder, AllAreTold, OldCyclesAreTold
<1>. QED  BY EvoStarts, EvoStep, <1>1, PTL DEF EvoSpec

-----------------------------------------------------------------------------
(* The dashboard's agents.  An agent counts the steps its predecessor       *)
(* recorded, which are never more than the steps that one has behind it:    *)
(* whatever an agent has behind it was called in its lineage.               *)

DashFields == {"agents", "stop", "late", "requests"}
AgentFields == {"at", "status", "from", "count", "canceled", "next", "data", "steps", "gathered"}

IsDashRecord(d) == d = [f \in DashFields |-> d[f]]
IsAgentMap(g) == g = [i \in DashIds |-> g[i]]
IsAgent(a) == a = [f \in AgentFields |-> a[f]]

DashIsRecord ==
  /\ IsDashRecord(dash) /\ IsAgentMap(dash.agents)
  /\ \A i \in DashIds : IsAgent(dash.agents[i])

With(g, i, a) == [g EXCEPT ![i] = a]

LEMMA MapChanges ==
  ASSUME NEW g, IsAgentMap(g), NEW m \in DashIds, NEW r
  PROVE  /\ IsAgentMap(With(g, m, r)) /\ With(g, m, r)[m] = r
         /\ \A j \in DashIds \ {m} : With(g, m, r)[j] = g[j]
BY DEF IsAgentMap, With

\* Only agent i changes, and only its fields in F.
AgentChanges(i, F) ==
  /\ DashIsRecord'
  /\ \A j \in DashIds \ {i} : dash'.agents[j] = dash.agents[j]
  /\ \A f \in AgentFields \ F : dash'.agents[i][f] = dash.agents[i][f]

Untouched(i) == dash.agents[i].at = "none" => dash.agents[i] = NoAgent

StepsBehind(i) ==
  /\ dash.agents[i].from \in DashIds \cup {0}
  /\ dash.agents[i].next \in 0..(DashSteps + 1)
  /\ \A k \in dash.agents[i].steps : k \in 1..DashSteps /\ k < dash.agents[i].next
  /\ \/ dash.agents[i].at \in {"gathered", "analyzing"} \/ dash.agents[i].status = "completed"
     => dash.agents[i].next = DashSteps + 1
  /\ dash.agents[i].at = "stepping" => dash.agents[i].next >= 1
  /\ dash.agents[i].at = "created" => dash.agents[i].steps = {}

StepsCovered(i) ==
  \A k \in 1..DashSteps :
    k < dash.agents[i].next => \E j \in Lineage(i) : k \in dash.agents[j].steps

IdsInOrder == \E n \in Nat : Created = 1..n

DashInv ==
  /\ DashIsRecord /\ IdsInOrder
  /\ \A i \in DashIds : Untouched(i) /\ StepsBehind(i) /\ StepsCovered(i)

LEMMA LineageHolds ==
  ASSUME NEW i \in DashIds
  PROVE  /\ i \in Lineage(i)
         /\ \A f \in DashIds : dash.agents[i].from = f => Lineage(f) \subseteq Lineage(i)
<1>1. i \in Lineage(i)
  BY DEF Lineage
<1>2. ASSUME NEW f \in DashIds, dash.agents[i].from = f, NEW j \in Lineage(f)
      PROVE  j \in Lineage(i)
  <2>1. 0 \notin DashIds
    BY DEF DashIds
  <2>. QED  BY <1>2, <2>1 DEF Lineage
<1>. QED  BY <1>1, <1>2

LEMMA LineageGrows ==
  ASSUME \A k \in DashIds : dash.agents[k].from # 0 => dash'.agents[k].from = dash.agents[k].from,
         NEW i \in DashIds
  PROVE  Lineage(i) \subseteq Lineage(i)'
<1>1. SUFFICES ASSUME NEW j \in Lineage(i), NEW S \in SUBSET DashIds, i \in S,
                      \A k \in S : dash'.agents[k].from \in S \cup {0}
               PROVE  j \in S
  BY DEF Lineage
<1>2. \A k \in S : dash.agents[k].from \in S \cup {0}
  BY <1>1
<1>. QED  BY <1>1, <1>2 DEF Lineage

\* Steps are never forgotten, so what was covered stays so.
LEMMA CoverGrows ==
  ASSUME \A k \in DashIds : dash.agents[k].from # 0 => dash'.agents[k].from = dash.agents[k].from,
         \A k \in DashIds : dash.agents[k].steps \subseteq dash'.agents[k].steps,
         NEW i \in DashIds, StepsCovered(i), NEW k \in 1..DashSteps, k < dash.agents[i].next
  PROVE  \E j \in Lineage(i)' : k \in dash'.agents[j].steps
<1>1. PICK j \in Lineage(i) : k \in dash.agents[j].steps
  BY DEF StepsCovered
<1>2. j \in DashIds /\ j \in Lineage(i)'
  BY LineageGrows DEF Lineage
<1>. QED  BY <1>1, <1>2

LEMMA NextIdIsNew ==
  ASSUME IdsInOrder, NextId \in DashIds
  PROVE  /\ dash.agents[NextId].at = "none"
         /\ NextId \in Nat /\ Created \cup {NextId} = 1..NextId
<1>1. PICK n \in Nat : Created = 1..n
  BY DEF IdsInOrder
<1>2. NextId = n + 1
  <2>1. Cardinality(1..n) = n
    BY FS_Interval
  <2>. QED  BY <1>1, <2>1 DEF NextId
<1>3. NextId \notin Created
  BY <1>1, <1>2
<1>. QED  BY <1>1, <1>2, <1>3 DEF Created

LEMMA CountIsBehind ==
  ASSUME NEW i \in DashIds, StepsBehind(i)
  PROVE  /\ Cardinality(dash.agents[i].steps) \in 0..DashSteps
         /\ \A k \in 1..DashSteps : k <= Cardinality(dash.agents[i].steps) => k < dash.agents[i].next
<1>. DEFINE S == dash.agents[i].steps
            n == dash.agents[i].next
<1>0. DashSteps \in Nat /\ n \in Nat
  BY DashAssumption DEF StepsBehind
<1>1. S \subseteq 1..DashSteps /\ S \subseteq 1..(n - 1)
  BY <1>0 DEF StepsBehind
<1>. HIDE DEF S, n
<1>2. /\ IsFiniteSet(1..DashSteps) /\ Cardinality(1..DashSteps) = DashSteps
      /\ IsFiniteSet(1..(n - 1)) /\ Cardinality(1..(n - 1)) = IF n = 0 THEN 0 ELSE n - 1
  BY <1>0, FS_Interval
<1>3. IsFiniteSet(S) /\ Cardinality(S) <= DashSteps
  BY <1>1, <1>2, FS_Subset
<1>4. Cardinality(S) <= Cardinality(1..(n - 1))
  BY <1>1, <1>2, FS_Subset
<1>5. Cardinality(S) \in Nat
  BY <1>3, FS_CardinalityType
<1>6. \A k \in 1..DashSteps : k <= Cardinality(S) => k < n
  BY <1>0, <1>2, <1>4, <1>5
<1>. QED  BY <1>0, <1>3, <1>5, <1>6 DEF S, n

LEMMA DashStarts == DashInit => DashInv
<1>. SUFFICES ASSUME DashInit PROVE DashInv
  OBVIOUS
<1>1. DashIsRecord
  BY DEF DashInit, DashIsRecord, IsDashRecord, IsAgentMap, IsAgent, DashFields, AgentFields, NoAgent
<1>2. \A i \in DashIds : /\ dash.agents[i] = NoAgent
                         /\ dash.agents[i].at = "none" /\ dash.agents[i].from = 0
                         /\ dash.agents[i].next = 0 /\ dash.agents[i].steps = {}
                         /\ dash.agents[i].status = ""
  BY DEF DashInit, NoAgent
<1>3. IdsInOrder
  <2>1. Created = {}
    BY <1>2 DEF Created
  <2>2. 1..0 = {}
    OBVIOUS
  <2>. QED  BY <2>1, <2>2 DEF IdsInOrder
<1>4. \A i \in DashIds : Untouched(i) /\ StepsBehind(i) /\ StepsCovered(i)
  <2>. SUFFICES ASSUME NEW i \in DashIds PROVE Untouched(i) /\ StepsBehind(i) /\ StepsCovered(i)
    OBVIOUS
  <2>1. Untouched(i)
    BY <1>2 DEF Untouched
  <2>0. 0 \in 0..(DashSteps + 1)
    BY DashAssumption
  <2>2. StepsBehind(i)
    <3>1. dash.agents[i].from = 0 /\ dash.agents[i].next = 0 /\ dash.agents[i].steps = {}
      BY <1>2
    <3>2. dash.agents[i].at = "none" /\ dash.agents[i].status = ""
      BY <1>2
    <3>3. dash.agents[i].at \notin {"gathered", "analyzing", "stepping"} /\ dash.agents[i].status # "completed"
      BY <3>2
    <3>. QED  BY <2>0, <3>1, <3>3 DEF StepsBehind
  <2>3. StepsCovered(i)
    <3>1. dash.agents[i].next = 0
      BY <1>2
    <3>. QED  BY <3>1, DashAssumption DEF StepsCovered
  <2>. QED  BY <2>1, <2>2, <2>3
<1>. QED  BY <1>1, <1>3, <1>4 DEF DashInv

\* A step of agent i that leaves its predecessor alone and forgets nothing.
LEMMA OwnStep ==
  ASSUME DashInv, NEW i \in DashIds, AgentChanges(i, AgentFields \ {"from"}),
         dash.agents[i].at # "none", dash'.agents[i].at # "none",
         dash.agents[i].steps \subseteq dash'.agents[i].steps,
         StepsBehind(i)',
         \A k \in 1..DashSteps : k < dash'.agents[i].next =>
            k < dash.agents[i].next \/ \E j \in Lineage(i)' : k \in dash'.agents[j].steps
  PROVE  DashInv'
<1>. USE DEF DashInv
<1>1. \A k \in DashIds : /\ dash'.agents[k].from = dash.agents[k].from
                         /\ dash.agents[k].steps \subseteq dash'.agents[k].steps
  BY DEF AgentChanges, AgentFields
<1>2. Created' = Created
  BY DEF Created, AgentChanges
<1>3. \A j \in DashIds : Untouched(j)' /\ StepsBehind(j)'
  BY DEF AgentChanges, Untouched, StepsBehind
<1>4. ASSUME NEW j \in DashIds  PROVE StepsCovered(j)'
  <2>1. SUFFICES ASSUME NEW k \in 1..DashSteps, k < dash'.agents[j].next
                 PROVE  \E l \in Lineage(j)' : k \in dash'.agents[l].steps
    BY DEF StepsCovered
  <2>2. CASE k < dash.agents[j].next
    BY <1>1, <2>2, CoverGrows
  <2>3. CASE ~(k < dash.agents[j].next)
    <3>1. j = i
      BY <2>1, <2>3 DEF AgentChanges
    <3>. QED  BY <2>1, <2>3, <3>1
  <2>. QED  BY <2>2, <2>3
<1>. QED  BY <1>2, <1>3, <1>4 DEF AgentChanges, IdsInOrder

\* A new agent, and perhaps the end of the one it resumes from.
LEMMA NewAgentStep ==
  ASSUME DashInv, NextId \in DashIds, DashIsRecord',
         dash'.agents[NextId].from \in DashIds \cup {0}, dash'.agents[NextId].next = 0,
         dash'.agents[NextId].steps = {}, dash'.agents[NextId].at = "created",
         dash'.agents[NextId].status = "pending",
         \A j \in DashIds \ {NextId} :
           \/ dash'.agents[j] = dash.agents[j]
           \/ /\ \A f \in AgentFields \ {"at"} : dash'.agents[j][f] = dash.agents[j][f]
              /\ dash.agents[j].at # "none" /\ dash'.agents[j].at = "gone"
  PROVE  DashInv'
<1>. USE DEF DashInv
<1>1. PICK m : m = NextId
  OBVIOUS
<1>2. dash.agents[m].at = "none" /\ m \in DashIds /\ m \in Nat /\ Created \cup {m} = 1..m
  BY <1>1, NextIdIsNew
<1>3. dash.agents[m].from = 0 /\ dash.agents[m].steps = {}
  <2>1. dash.agents[m] = NoAgent
    BY <1>2 DEF Untouched
  <2>2. NoAgent.from = 0 /\ NoAgent.steps = {}
    BY DEF NoAgent
  <2>. QED  BY <2>1, <2>2
<1>4. \A j \in DashIds \ {m} : /\ dash'.agents[j].from = dash.agents[j].from
                               /\ dash'.agents[j].steps = dash.agents[j].steps
                               /\ dash'.agents[j].next = dash.agents[j].next
                               /\ dash'.agents[j].status = dash.agents[j].status
                               /\ dash'.agents[j] = dash.agents[j] \/ dash'.agents[j].at = "gone"
                               /\ dash'.agents[j].at = "none" <=> dash.agents[j].at = "none"
  BY <1>1 DEF AgentFields
<1>5. Created' = 1..m
  BY <1>1, <1>2, <1>4 DEF Created
<1>6. /\ \A k \in DashIds : dash.agents[k].from # 0 => dash'.agents[k].from = dash.agents[k].from
      /\ \A k \in DashIds : dash.agents[k].steps \subseteq dash'.agents[k].steps
  BY <1>2, <1>3, <1>4
<1>7. ASSUME NEW j \in DashIds  PROVE Untouched(j)' /\ StepsBehind(j)' /\ StepsCovered(j)'
  <2>1. CASE j = m
    BY <1>1, <2>1, DashAssumption DEF Untouched, StepsBehind, StepsCovered
  <2>2. CASE j # m
    <3>1. Untouched(j)' /\ StepsBehind(j)'
      BY <1>4, <2>2 DEF Untouched, StepsBehind
    <3>2. ASSUME NEW k \in 1..DashSteps, k < dash'.agents[j].next
          PROVE  \E l \in Lineage(j)' : k \in dash'.agents[l].steps
      BY <1>4, <1>6, <2>2, <3>2, CoverGrows
    <3>. QED  BY <3>1, <3>2 DEF StepsCovered
  <2>. QED  BY <2>1, <2>2
<1>. QED  BY <1>2, <1>5, <1>7 DEF IdsInOrder

\* What a step does to the record of agent i.
LEMMA RecordStep ==
  ASSUME DashIsRecord, NEW i \in DashIds, NEW r, IsAgent(r),
         IsDashRecord(dash'), dash'.agents = With(dash.agents, i, r)
  PROVE  /\ DashIsRecord' /\ dash'.agents[i] = r
         /\ \A j \in DashIds \ {i} : dash'.agents[j] = dash.agents[j]
<1>1. /\ IsAgentMap(dash'.agents) /\ dash'.agents[i] = r
      /\ \A j \in DashIds \ {i} : dash'.agents[j] = dash.agents[j]
  BY MapChanges DEF DashIsRecord
<1>. QED  BY <1>1 DEF DashIsRecord

\* A step of agent i: r is its record afterwards.
LEMMA OwnRecordStep ==
  ASSUME DashInv, NEW i \in DashIds, NEW r, IsAgent(r),
         IsDashRecord(dash'), dash'.agents = With(dash.agents, i, r),
         dash.agents[i].at # "none", r.at # "none", r.from = dash.agents[i].from,
         dash.agents[i].steps \subseteq r.steps,
         r.next \in 0..(DashSteps + 1),
         \A k \in r.steps : k \in 1..DashSteps /\ k < r.next,
         r.at \in {"gathered", "analyzing"} \/ r.status = "completed" => r.next = DashSteps + 1,
         r.at = "stepping" => r.next >= 1,
         r.at = "created" => r.steps = {},
         \A k \in 1..DashSteps : k < r.next =>
            \/ k < dash.agents[i].next
            \/ k \in r.steps
            \/ \E f \in DashIds : /\ dash.agents[i].from = f
                                  /\ \E j \in Lineage(f) : k \in dash.agents[j].steps
  PROVE  DashInv'
<1>1. /\ DashIsRecord' /\ dash'.agents[i] = r
      /\ \A j \in DashIds \ {i} : dash'.agents[j] = dash.agents[j]
  BY RecordStep DEF DashInv
<1>2. AgentChanges(i, AgentFields \ {"from"})
  BY <1>1 DEF AgentChanges, AgentFields
<1>3. StepsBehind(i)
  BY DEF DashInv
<1>4. StepsBehind(i)'
  BY <1>1, <1>3 DEF StepsBehind
<1>5. ASSUME NEW k \in 1..DashSteps, k < dash'.agents[i].next, ~(k < dash.agents[i].next)
      PROVE  \E j \in Lineage(i)' : k \in dash'.agents[j].steps
  <2>1. CASE k \in r.steps
    <3>1. i \in Lineage(i)'
      BY DEF Lineage
    <3>. QED  BY <1>1, <2>1, <3>1
  <2>2. ASSUME NEW f \in DashIds, dash.agents[i].from = f, NEW j \in Lineage(f), k \in dash.agents[j].steps
        PROVE  \E l \in Lineage(i)' : k \in dash'.agents[l].steps
    <3>1. j \in Lineage(i) /\ j \in DashIds
      BY <2>2, LineageHolds DEF Lineage
    <3>2. \A l \in DashIds : dash.agents[l].from # 0 => dash'.agents[l].from = dash.agents[l].from
      BY <1>1
    <3>3. j \in Lineage(i)'
      BY <3>1, <3>2, LineageGrows
    <3>4. dash.agents[j].steps \subseteq dash'.agents[j].steps
      BY <1>1, <3>1
    <3>. QED  BY <2>2, <3>3, <3>4
  <2>. QED  BY <1>1, <1>5, <2>1, <2>2
<1>. QED  BY <1>1, <1>2, <1>4, <1>5, OwnStep

LEMMA DashStep == DashInv /\ [DashNext]_dash => DashInv'
<1>. SUFFICES ASSUME DashInv, [DashNext]_dash PROVE DashInv'
  OBVIOUS
<1>0. /\ DashIsRecord
      /\ \A i \in DashIds : Untouched(i) /\ StepsBehind(i) /\ StepsCovered(i)
  BY DEF DashInv
<1>1. ASSUME NEW from \in 0..MaxDashAgents, CreateAgent(from)  PROVE DashInv'
  <2>1. PICK m : m = NextId
    OBVIOUS
  <2>2. m \in DashIds /\ from \in DashIds \cup {0}
    BY <1>1, <2>1 DEF CreateAgent, Created
  <2>3. /\ dash'.agents = With(dash.agents, m, NewAgent(from))
        /\ IsDashRecord(dash')
    <3>1. dash' = [dash EXCEPT !.agents[m] = NewAgent(from), !.requests = @ + 1,
                !.late = IF dash.stop = "returned" THEN @ \cup {m} ELSE @]
      BY <1>1, <2>1 DEF CreateAgent
    <3>. QED  BY <1>0, <3>1 DEF DashIsRecord, IsDashRecord, DashFields, With
  <2>4. /\ IsAgent(NewAgent(from))
        /\ NewAgent(from).from = from /\ NewAgent(from).next = 0 /\ NewAgent(from).steps = {}
        /\ NewAgent(from).at = "created" /\ NewAgent(from).status = "pending"
    BY DEF NewAgent, NoAgent, AgentFields, IsAgent
  <2>. HIDE DEF NewAgent
  <2>5. /\ IsAgentMap(dash'.agents) /\ dash'.agents[m] = NewAgent(from)
        /\ \A j \in DashIds \ {m} : dash'.agents[j] = dash.agents[j]
    BY <1>0, <2>2, <2>3, MapChanges DEF DashIsRecord
  <2>6. DashIsRecord'
    BY <1>0, <2>3, <2>4, <2>5 DEF DashIsRecord
  <2>. QED  BY <2>1, <2>2, <2>4, <2>5, <2>6, NewAgentStep
<1>2. ASSUME NEW i \in DashIds, CreateSuccessor(i)  PROVE DashInv'
  <2>1. PICK m : m = NextId
    OBVIOUS
  <2>2. /\ m \in DashIds /\ dash.agents[i].at = "resurrecting" /\ dash.agents[m].at = "none" /\ m # i
        /\ dash' = [dash EXCEPT !.agents[m] = NewAgent(i), !.agents[i].at = "gone"]
    BY <1>2, <2>1, NextIdIsNew DEF CreateSuccessor, DashInv
  <2>3. /\ dash'.agents = With(With(dash.agents, m, NewAgent(i)), i, [dash.agents[i] EXCEPT !.at = "gone"])
        /\ IsDashRecord(dash')
    BY <1>0, <2>2 DEF DashIsRecord, IsDashRecord, IsAgentMap, DashFields, With
  <2>4. /\ IsAgent(NewAgent(i))
        /\ NewAgent(i).from = i /\ NewAgent(i).next = 0 /\ NewAgent(i).steps = {}
        /\ NewAgent(i).at = "created" /\ NewAgent(i).status = "pending"
    BY DEF NewAgent, NoAgent, AgentFields, IsAgent
  <2>5. PICK r : r = [dash.agents[i] EXCEPT !.at = "gone"]
    OBVIOUS
  <2>6. IsAgent(r) /\ r.at = "gone" /\ \A f \in AgentFields \ {"at"} : r[f] = dash.agents[i][f]
    BY <1>0, <2>5 DEF DashIsRecord, IsAgent, AgentFields
  <2>. HIDE DEF NewAgent
  <2>7. PICK g : g = With(dash.agents, m, NewAgent(i))
    OBVIOUS
  <2>8. /\ IsAgentMap(g) /\ g[m] = NewAgent(i)
        /\ \A j \in DashIds \ {m} : g[j] = dash.agents[j]
    BY <1>0, <2>2, <2>7, MapChanges DEF DashIsRecord
  <2>9. dash'.agents = With(g, i, r)
    BY <2>3, <2>5, <2>7
  <2>10. /\ IsAgentMap(dash'.agents) /\ dash'.agents[i] = r
         /\ \A j \in DashIds \ {i} : dash'.agents[j] = g[j]
    BY <2>8, <2>9, MapChanges
  <2>11. DashIsRecord'
    BY <1>0, <2>2, <2>3, <2>4, <2>6, <2>8, <2>10 DEF DashIsRecord
  <2>12. /\ dash'.agents[m] = NewAgent(i)
         /\ \A j \in DashIds \ {m, i} : dash'.agents[j] = dash.agents[j]
    BY <2>2, <2>8, <2>10
  <2>13. \A f \in AgentFields \ {"at"} : dash'.agents[i][f] = dash.agents[i][f]
    BY <2>6, <2>10
  <2>14. dash'.agents[i].at = "gone"
    BY <2>6, <2>10
  <2>. QED  BY <2>1, <2>2, <2>4, <2>11, <2>12, <2>13, <2>14, NewAgentStep
\* A step that moves agent i on, or ends it, without having it call a step.
<1>3. ASSUME NEW i \in DashIds, NEW r, IsAgent(r), dash.agents[i].at # "none",
             IsDashRecord(dash'), dash'.agents = With(dash.agents, i, r),
             r.from = dash.agents[i].from, r.steps = dash.agents[i].steps, r.next = dash.agents[i].next,
             r.at # "none", r.at = "stepping" => dash.agents[i].at = "stepping",
             r.at = "created" => dash.agents[i].at = "created",
             r.at \in {"gathered", "analyzing"} \/ r.status = "completed" =>
               \/ dash.agents[i].at \in {"gathered", "analyzing"}
               \/ dash.agents[i].status = "completed"
               \/ dash.agents[i].next > DashSteps
      PROVE  DashInv'
  <2>1. StepsBehind(i)
    BY <1>0
  <2>2. dash.agents[i].next > DashSteps => dash.agents[i].next = DashSteps + 1
    BY <2>1, DashAssumption DEF StepsBehind
  <2>. QED  BY DashInv, <1>3, <2>1, <2>2, OwnRecordStep DEF StepsBehind
<1>4. ASSUME NEW i \in DashIds, CancelAgent(i)  PROVE DashInv'
  <2>1. PICK r : r = [dash.agents[i] EXCEPT !.canceled = TRUE]
    OBVIOUS
  <2>2. IsDashRecord(dash') /\ dash'.agents = With(dash.agents, i, r) /\ dash.agents[i].at # "none"
    BY <1>0, <1>4, <2>1 DEF DashIsRecord, IsDashRecord, DashFields, With, CancelAgent, AliveAgents
  <2>3. IsAgent(r) /\ \A f \in AgentFields \ {"canceled"} : r[f] = dash.agents[i][f]
    BY <1>0, <2>1 DEF DashIsRecord, IsAgent, AgentFields
  <2>. QED  BY <1>3, <2>2, <2>3 DEF AgentFields
<1>5. ASSUME NEW i \in DashIds, Ends(i) \/ DecidesToResurrect(i)  PROVE DashInv'
  <2>1. PICK p \in {"gone", "resurrecting"} : dash' = [dash EXCEPT !.agents[i].at = p]
    BY <1>5 DEF Ends, DecidesToResurrect
  <2>2. PICK r : r = [dash.agents[i] EXCEPT !.at = p]
    OBVIOUS
  <2>3. IsDashRecord(dash') /\ dash'.agents = With(dash.agents, i, r)
    BY <1>0, <2>1, <2>2 DEF DashIsRecord, IsDashRecord, DashFields, With
  <2>4. IsAgent(r) /\ r.at = p /\ \A f \in AgentFields \ {"at"} : r[f] = dash.agents[i][f]
    BY <1>0, <2>2 DEF DashIsRecord, IsAgent, AgentFields
  <2>5. dash.agents[i].at # "none"
    BY <1>5 DEF Ends, DecidesToResurrect
  <2>. QED  BY <1>3, <2>3, <2>4, <2>5 DEF AgentFields
<1>6. ASSUME NEW i \in DashIds, StepFails(i) \/ AnalysisFails(i) \/ AnalysisSucceeds(i)  PROVE DashInv'
  <2>1. PICK p \in {"failed", "completed"} :
          /\ dash' = [dash EXCEPT !.agents[i].at = "ending", !.agents[i].status = p]
          /\ p = "completed" => dash.agents[i].at = "analyzing"
    BY <1>6 DEF StepFails, AnalysisFails, AnalysisSucceeds, FailAgent
  <2>2. PICK r : r = [dash.agents[i] EXCEPT !.at = "ending", !.status = p]
    OBVIOUS
  <2>3. IsDashRecord(dash') /\ dash'.agents = With(dash.agents, i, r)
    BY <1>0, <2>1, <2>2 DEF DashIsRecord, IsDashRecord, DashFields, With
  <2>4. IsAgent(r) /\ r.at = "ending" /\ r.status = p
        /\ \A f \in AgentFields \ {"at", "status"} : r[f] = dash.agents[i][f]
    BY <1>0, <2>2 DEF DashIsRecord, IsAgent, AgentFields
  <2>5. dash.agents[i].at # "none"
    BY <1>6 DEF StepFails, AnalysisFails, AnalysisSucceeds
  <2>6. p = "completed" => dash.agents[i].at = "analyzing"
    BY <2>1
  <2>. QED  BY <1>3, <2>3, <2>4, <2>5, <2>6 DEF AgentFields
<1>7. ASSUME NEW i \in DashIds, Gathered(i)  PROVE DashInv'
  <2>1. /\ dash' = [dash EXCEPT !.agents[i].at = "analyzing", !.agents[i].gathered = dash.agents[i].data]
        /\ dash.agents[i].at = "gathered" \/ (dash.agents[i].at = "stepping" /\ dash.agents[i].next > DashSteps)
    BY <1>7 DEF Gathered
  <2>2. PICK r : r = [dash.agents[i] EXCEPT !.at = "analyzing", !.gathered = dash.agents[i].data]
    OBVIOUS
  <2>3. IsDashRecord(dash') /\ dash'.agents = With(dash.agents, i, r)
    BY <1>0, <2>1, <2>2 DEF DashIsRecord, IsDashRecord, DashFields, With
  <2>4. IsAgent(r) /\ r.at = "analyzing"
        /\ \A f \in AgentFields \ {"at", "gathered"} : r[f] = dash.agents[i][f]
    BY <1>0, <2>2 DEF DashIsRecord, IsAgent, AgentFields
  <2>5. dash.agents[i].at # "none" /\ (dash.agents[i].at = "gathered" \/ dash.agents[i].next > DashSteps)
    BY <2>1
  <2>. QED  BY <1>3, <2>3, <2>4, <2>5 DEF AgentFields
<1>8. ASSUME NEW i \in DashIds, StepSucceeds(i)  PROVE DashInv'
  <2>1. PICK n, d, c : n = dash.agents[i].next /\ d = dash.agents[i].data \cup {n} /\ c = dash.agents[i].steps \cup {n}
    OBVIOUS
  <2>2. PICK r : r = [dash.agents[i] EXCEPT !.next = n + 1, !.data = d, !.steps = c]
    OBVIOUS
  <2>3. dash' = [dash EXCEPT !.agents[i] = r]
    BY <1>8, <2>1, <2>2 DEF StepSucceeds
  <2>4. IsDashRecord(dash') /\ dash'.agents = With(dash.agents, i, r)
    BY <1>0, <2>3 DEF DashIsRecord, IsDashRecord, DashFields, With
  <2>5. IsAgent(r) /\ r.next = n + 1 /\ r.steps = c
        /\ \A f \in AgentFields \ {"next", "data", "steps"} : r[f] = dash.agents[i][f]
    BY <1>0, <2>2 DEF DashIsRecord, IsAgent, AgentFields
  <2>6. r.at = dash.agents[i].at /\ r.status = dash.agents[i].status /\ r.from = dash.agents[i].from
    BY <2>5 DEF AgentFields
  <2>7. dash.agents[i].at = "stepping" /\ n <= DashSteps /\ StepsBehind(i)
    BY <1>0, <1>8, <2>1 DEF StepSucceeds
  <2>8. n \in 1..DashSteps /\ DashSteps \in Nat /\ n + 1 \in 0..(DashSteps + 1)
    BY <2>1, <2>7, DashAssumption DEF StepsBehind
  <2>9. dash.agents[i].steps \subseteq r.steps /\ n \in r.steps
    BY <2>1, <2>5
  <2>10. dash.agents[i].status # "completed"
    BY <2>1, <2>7, <2>8 DEF StepsBehind
  <2>11. \A k \in r.steps : k \in 1..DashSteps /\ k < r.next
    BY <2>1, <2>5, <2>7, <2>8 DEF StepsBehind
  <2>12. \A k \in 1..DashSteps : k < r.next => k < dash.agents[i].next \/ k \in r.steps
    BY <2>1, <2>5, <2>8, <2>9
  <2>. QED  BY DashInv, <2>4, <2>5, <2>6, <2>7, <2>8, <2>9, <2>10, <2>11, <2>12, OwnRecordStep
\* The agent counts what its predecessor recorded.
<1>9. ASSUME NEW i \in DashIds, Begin(i)  PROVE DashInv'
  <2>1. PICK n, d, p : /\ n = resumeProgress(i) + 1
                       /\ d = IF resumeProgress(i) = DashSteps THEN dash.agents[dash.agents[i].from].gathered ELSE {}
                       /\ p = IF d # {} THEN "gathered" ELSE "stepping"
    OBVIOUS
  <2>2. PICK r : r = [dash.agents[i] EXCEPT !.at = p, !.status = "running", !.data = d, !.next = n]
    OBVIOUS
  <2>3. dash' = [dash EXCEPT !.agents[i] = r]
    BY <1>9, <2>1, <2>2 DEF Begin
  <2>4. IsDashRecord(dash') /\ dash'.agents = With(dash.agents, i, r)
    BY <1>0, <2>3 DEF DashIsRecord, IsDashRecord, DashFields, With
  <2>5. IsAgent(r) /\ r.at = p /\ r.status = "running" /\ r.next = n
        /\ \A f \in AgentFields \ {"at", "status", "data", "next"} : r[f] = dash.agents[i][f]
    BY <1>0, <2>2 DEF DashIsRecord, IsAgent, AgentFields
  <2>6. r.steps = dash.agents[i].steps /\ r.from = dash.agents[i].from
    BY <2>5 DEF AgentFields
  <2>7. dash.agents[i].at = "created" /\ StepsBehind(i)
    BY <1>0, <1>9 DEF Begin
  <2>8. PICK f : f = dash.agents[i].from
    OBVIOUS
  <2>9. f \in DashIds => /\ Cardinality(dash.agents[f].steps) \in 0..DashSteps
                         /\ \A k \in 1..DashSteps :
                              k <= Cardinality(dash.agents[f].steps) => k < dash.agents[f].next
    BY <1>0, CountIsBehind
  <2>10. f \in DashIds \/ f = 0
    BY <2>7, <2>8 DEF StepsBehind
  <2>11. 0 \notin DashIds /\ DashSteps \in Nat \ {0}
    BY DashAssumption DEF DashIds
  <2>12. n \in 1..(DashSteps + 1)
    BY <2>1, <2>8, <2>9, <2>10, <2>11 DEF resumeProgress
  <2>13. \A k \in 1..DashSteps : k < n => f \in DashIds /\ \E j \in Lineage(f) : k \in dash.agents[j].steps
    <3>1. SUFFICES ASSUME NEW k \in 1..DashSteps, k < n
                   PROVE  f \in DashIds /\ \E j \in Lineage(f) : k \in dash.agents[j].steps
      OBVIOUS
    <3>2. f # 0 /\ k <= Cardinality(dash.agents[f].steps)
      BY <2>1, <2>8, <2>9, <2>10, <2>11, <3>1 DEF resumeProgress
    <3>3. f \in DashIds /\ k < dash.agents[f].next
      BY <2>9, <2>10, <3>2
    <3>. QED  BY <1>0, <3>3 DEF StepsCovered
  <2>14. p = "gathered" => n = DashSteps + 1
    BY <2>1
  <2>15. \A k \in r.steps : k \in 1..DashSteps /\ k < r.next
    <3>1. dash.agents[i].steps = {}
      BY <2>7 DEF StepsBehind
    <3>. QED  BY <2>6, <3>1
  <2>16. p \in {"gathered", "stepping"}
    BY <2>1
  <2>17. \A k \in 1..DashSteps : k < r.next =>
            \E g \in DashIds : /\ dash.agents[i].from = g
                               /\ \E j \in Lineage(g) : k \in dash.agents[j].steps
    BY <2>5, <2>8, <2>13
  <2>18. r.next \in 0..(DashSteps + 1) /\ r.next >= 1
    BY <2>5, <2>11, <2>12
  <2>19. r.at \notin {"none", "created"} /\ r.status # "completed" /\ (r.at \in {"gathered", "analyzing"} => r.next = DashSteps + 1)
    BY <2>5, <2>14, <2>16
  <2>. QED  BY DashInv, <2>4, <2>5, <2>6, <2>7, <2>15, <2>17, <2>18, <2>19, OwnRecordStep
<1>10. ASSUME dash'.agents = dash.agents, IsDashRecord(dash')  PROVE DashInv'
  BY <1>0, <1>10, DashInv DEF DashInv, DashIsRecord, IdsInOrder, Created, Untouched, StepsBehind, StepsCovered, Lineage
<1>11. ASSUME StopDashboard \/ StopReturns \/ UNCHANGED dash  PROVE DashInv'
  <2>1. dash'.agents = dash.agents /\ IsDashRecord(dash')
    BY <1>0, <1>11 DEF StopDashboard, StopReturns, DashIsRecord, IsDashRecord, DashFields
  <2>. QED  BY <1>10, <2>1
<1>. QED
  BY <1>1, <1>2, <1>4, <1>5, <1>6, <1>7, <1>8, <1>9, <1>11 DEF DashNext

LEMMA DashInvIsEnough == DashInv => NoStepIsSkipped
<1>. SUFFICES ASSUME DashInv, NEW i \in Created,
                     dash.agents[i].at = "analyzing" \/ dash.agents[i].status = "completed"
              PROVE  UNION {dash.agents[j].steps : j \in Lineage(i)} = 1..DashSteps
  BY DEF NoStepIsSkipped
<1>0. i \in DashIds /\ DashSteps \in Nat
  BY DashAssumption DEF Created
<1>1. dash.agents[i].next = DashSteps + 1
  BY <1>0 DEF DashInv, StepsBehind
<1>2. ASSUME NEW k \in 1..DashSteps  PROVE \E j \in Lineage(i) : k \in dash.agents[j].steps
  <2>1. k < dash.agents[i].next
    BY <1>0, <1>1
  <2>. QED  BY <1>0, <2>1 DEF DashInv, StepsCovered
<1>3. ASSUME NEW j \in Lineage(i), NEW k \in dash.agents[j].steps  PROVE k \in 1..DashSteps
  <2>1. j \in DashIds
    BY DEF Lineage
  <2>. QED  BY <2>1 DEF DashInv, StepsBehind
<1>. QED  BY <1>2, <1>3

\* Resuming skips no step: an agent that comes to its analysis has every step
\* behind it, its own or of one it resumes from, although it counts only what
\* its direct predecessor recorded, and although that one may still run
\* (orchestrator.go, loadResumeProgress).
THEOREM NothingIsSkipped == DashSpec => []NoStepIsSkipped
BY DashStarts, DashStep, DashInvIsEnough, PTL DEF DashSpec

-----------------------------------------------------------------------------
(* The release of candidates.                                              *)

ReleasePlaces ==
  {"idle", "gate", "submit", "take", "decide", "apply", "history", "delay", "record",
   "look", "reapply", "promote"}

ProposalRecord == [patch : Candidates \cup Others, retry : Nat]

\* The patches a queue of proposals carries.
PatchesOf(s) == {s[i].patch : i \in 1 .. Len(s)}

ReleaseTyped ==
  /\ status \in [Candidates -> {"candidate", "verified", "rejected", "promoted"}]
  /\ instructions = [o \in Objects |-> instructions[o]]
  /\ stableProfile = [r \in ProfileRoles |-> stableProfile[r]]
  /\ releasing \in [Workers -> ReleasePlaces]
  /\ candidateOf \in [Workers -> Candidates \cup {NoCandidate}]
  /\ appliedIDs \subseteq Candidates
  /\ unproposed \subseteq Others
  /\ proposals \in Seq(ProposalRecord)
  /\ batch \in [Workers -> Seq(ProposalRecord)]

\* c has passed the registration of its role's executor.
Admitted(c) ==
  \/ \E w \in Workers : candidateOf[w] = c /\ releasing[w] # "gate"
  \/ c \in PatchesOf(proposals)
  \/ \E w \in Workers : c \in PatchesOf(batch[w])
  \/ c \in appliedIDs
  \/ status[c] = "promoted"

\* One candidate of a role is admitted, and only when the executor is there.
OnePerRole ==
  /\ \A c \in Candidates : Admitted(c) => TargetRole[c] \in executors
  /\ \A c, d \in Candidates :
       Admitted(c) /\ Admitted(d) /\ TargetRole[c] = TargetRole[d] => c = d

\* Between a decision and its record.
Sided == {"apply", "history", "delay"}

\* Where a worker can be, and with what.
WorkerInPlace(w) ==
  /\ w \in Releasers /\ releasing[w] # "idle" => candidateOf[w] \in Candidates
  /\ releasing[w] = "idle" => candidateOf[w] = NoCandidate
  /\ w \in Evaluators => /\ releasing[w] \in {"idle", "decide", "record"} \cup Sided
                         /\ candidateOf[w] = NoCandidate
  /\ releasing[w] \in {"record"} \cup Sided => batch[w] # <<>>
  /\ releasing[w] = "promote" => candidateOf[w] \in appliedIDs

\* What was applied is in the role's profile, what was promoted is shown.
ProfilesInPlace ==
  /\ \A c \in appliedIDs : instructions[Workspace(c)] = c
  /\ \A c \in Candidates : status[c] = "promoted" =>
       c \in appliedIDs /\ stableProfile[TargetRole[c]] = Workspace(c)

ReleaseInv ==
  /\ ReleaseTyped /\ OnePerRole /\ ProfilesInPlace
  /\ \A w \in Workers : WorkerInPlace(w)

\* A queue carries what is appended.
LEMMA QueueAppends ==
  ASSUME NEW s \in Seq(ProposalRecord), NEW p \in ProposalRecord
  PROVE  /\ Append(s, p) \in Seq(ProposalRecord)
         /\ PatchesOf(Append(s, p)) = PatchesOf(s) \cup {p.patch}
<1>1. Append(s, p) \in Seq(ProposalRecord) /\ Len(Append(s, p)) = Len(s) + 1
      /\ \A i \in 1 .. Len(s) : Append(s, p)[i] = s[i]
      /\ Append(s, p)[Len(s) + 1] = p
  OBVIOUS
<1>. QED  BY <1>1 DEF PatchesOf

\* Its head and its tail carry nothing else.
LEMMA QueueShrinks ==
  ASSUME NEW s \in Seq(ProposalRecord), s # <<>>
  PROVE  /\ Tail(s) \in Seq(ProposalRecord)
         /\ PatchesOf(Tail(s)) \subseteq PatchesOf(s)
         /\ Head(s) \in ProposalRecord
         /\ Head(s).patch \in PatchesOf(s)
<1>1. /\ Tail(s) \in Seq(ProposalRecord) /\ Len(Tail(s)) = Len(s) - 1
      /\ \A i \in 1 .. Len(s) - 1 : Tail(s)[i] = s[i + 1]
      /\ Len(s) >= 1 /\ Head(s) = s[1] /\ s[1] \in ProposalRecord
  OBVIOUS
<1>. QED  BY <1>1 DEF PatchesOf

\* While nobody new is admitted and no executor goes, one per role stays.
LEMMA AdmissionKept ==
  ASSUME OnePerRole, executors \subseteq executors',
         \A c \in Candidates : Admitted(c)' => Admitted(c)
  PROVE  OnePerRole'
BY DEF OnePerRole

\* It starts with nobody admitted.
LEMMA ReleaseStarts == ReleaseInit => ReleaseInv
<1>. SUFFICES ASSUME NEW seeded \in [ProfileRoles -> Objects], ReleaseStart(seeded)
              PROVE  ReleaseInv
  BY DEF ReleaseInit
<1>1. PatchesOf(<<>>) = {} /\ <<>> \in Seq(ProposalRecord)
  BY DEF PatchesOf
<1>2. ReleaseTyped
  BY <1>1 DEF ReleaseStart, ReleaseTyped, ReleasePlaces
<1>3. \A c \in Candidates : ~Admitted(c)
  BY <1>1, ReleaseAssumption DEF ReleaseStart, Admitted
<1>4. \A w \in Workers : WorkerInPlace(w)
  BY DEF ReleaseStart, WorkerInPlace, Sided
<1>5. ProfilesInPlace
  BY DEF ReleaseStart, ProfilesInPlace
<1>. QED  BY <1>2, <1>3, <1>4, <1>5 DEF ReleaseInv, OnePerRole

\* The registry's step, when the patch is applied or is no candidate's.
LEMMA Applies ==
  ASSUME ReleaseInv, NEW patch \in Candidates \cup Others, NEW outcome,
         Deploys(patch, outcome), status' = status,
         patch \in Candidates => Admitted(patch)
  PROVE  /\ appliedIDs \subseteq appliedIDs'
         /\ appliedIDs' \subseteq appliedIDs \cup ({patch} \cap Candidates)
         /\ instructions' = [o \in Objects |-> instructions'[o]]
         /\ stableProfile' = stableProfile
         /\ ProfilesInPlace'
         /\ outcome = "promoted" /\ patch \in Candidates => patch \in appliedIDs'
<1>1. CASE outcome = "promoted" /\ patch \in Candidates \ appliedIDs
  <2>1. /\ appliedIDs' = appliedIDs \cup {patch}
        /\ instructions' = [instructions EXCEPT ![Workspace(patch)] = patch]
        /\ stableProfile' = stableProfile
    BY <1>1 DEF Deploys, RegistryApply
  <2>2. \A c \in Candidates : Workspace(c) \in Objects
    BY ReleaseAssumption DEF Workspace, Objects
  <2>3. \A c \in appliedIDs : c \in Candidates /\ (TargetRole[c] = TargetRole[patch] => c = patch)
    BY <1>1 DEF ReleaseInv, ReleaseTyped, OnePerRole, Admitted
  <2>4. \A c \in appliedIDs : c # patch => Workspace(c) # Workspace(patch)
    BY <2>3 DEF Workspace
  <2>5. \A c \in appliedIDs' : instructions'[Workspace(c)] = c
    BY <1>1, <2>1, <2>2, <2>3, <2>4 DEF ReleaseInv, ReleaseTyped, ProfilesInPlace
  <2>6. ProfilesInPlace'
    BY <2>1, <2>5 DEF ReleaseInv, ProfilesInPlace, Workspace
  <2>7. instructions' = [o \in Objects |-> instructions'[o]]
    BY <2>1 DEF ReleaseInv, ReleaseTyped
  <2>. QED  BY <1>1, <2>1, <2>6, <2>7
<1>2. CASE ~(outcome = "promoted" /\ patch \in Candidates \ appliedIDs)
  <2>1. appliedIDs' = appliedIDs /\ instructions' = instructions /\ stableProfile' = stableProfile
    BY <1>2 DEF Deploys, RegistryApply
  <2>. QED
    BY <1>2, <2>1 DEF ReleaseInv, ReleaseTyped, ProfilesInPlace, Workspace
<1>. QED  BY <1>1, <1>2

\* What a worker inside Release carries is a candidate that is admitted.
LEMMA ReleasersCandidate ==
  ASSUME ReleaseInv, NEW w \in Workers, releasing[w] \in {"submit", "look", "reapply", "promote"}
  PROVE  /\ w \in Releasers /\ w \notin Evaluators
         /\ candidateOf[w] \in Candidates /\ Admitted(candidateOf[w])
<1>1. w \in Releasers /\ w \notin Evaluators
  BY ReleaseAssumption DEF ReleaseInv, WorkerInPlace, Sided, Workers
<1>. QED  BY <1>1 DEF ReleaseInv, WorkerInPlace, Sided, Admitted

\* Every step keeps the invariant.
LEMMA ReleaseKeeps == ASSUME ReleaseInv, [ReleaseNext]_releaseVars PROVE ReleaseInv'
<1>. USE DEF ReleasePlaces
<1>1. ASSUME NEW c \in Candidates, VerifyCandidate(c) PROVE ReleaseInv'
  <2>1. /\ \A d \in Candidates : status'[d] = "promoted" => status[d] = "promoted"
        /\ status' \in [Candidates -> {"candidate", "verified", "rejected", "promoted"}]
    BY <1>1 DEF VerifyCandidate, ReleaseInv, ReleaseTyped
  <2>2. ReleaseTyped' /\ ProfilesInPlace'
    BY <1>1, <2>1 DEF VerifyCandidate, ReleaseInv, ReleaseTyped, coordinatorVars, profileVars, ProfilesInPlace, Workspace
  <2>3. \A d \in Candidates : Admitted(d)' => Admitted(d)
    BY <1>1, <2>1 DEF VerifyCandidate, Admitted, coordinatorVars, profileVars
  <2>4. OnePerRole'
    BY <1>1, <2>3, AdmissionKept DEF VerifyCandidate, ReleaseInv
  <2>5. \A w \in Workers : WorkerInPlace(w)'
    BY <1>1 DEF VerifyCandidate, ReleaseInv, WorkerInPlace, Sided, coordinatorVars, profileVars
  <2>. QED  BY <2>2, <2>4, <2>5 DEF ReleaseInv
<1>2. ASSUME NEW w \in Workers, NEW c \in Candidates, StartRelease(w, c) PROVE ReleaseInv'
  <2>1. ReleaseTyped' /\ ProfilesInPlace'
    BY <1>2 DEF StartRelease, ReleaseInv, ReleaseTyped, coordinatorVars, profileVars, ProfilesInPlace, Workspace
  <2>2. \A d \in Candidates : Admitted(d)' => Admitted(d)
    BY <1>2 DEF StartRelease, ReleaseInv, ReleaseTyped, Admitted, coordinatorVars, profileVars
  <2>3. OnePerRole'
    BY <1>2, <2>2, AdmissionKept DEF StartRelease, ReleaseInv
  <2>4. \A v \in Workers : WorkerInPlace(v)'
    BY <1>2, ReleaseAssumption DEF StartRelease, ReleaseInv, ReleaseTyped, WorkerInPlace, Sided, coordinatorVars, profileVars
  <2>. QED  BY <2>1, <2>3, <2>4 DEF ReleaseInv
<1>3. ASSUME NEW w \in Workers, RejectCandidate(w), UNCHANGED <<executors, coordinatorVars, appliedIDs, instructions, stableProfile>>,
             candidateOf[w] \in Candidates
      PROVE  ReleaseInv'
  <2>1. /\ \A d \in Candidates : status'[d] = "promoted" => status[d] = "promoted"
        /\ status' \in [Candidates -> {"candidate", "verified", "rejected", "promoted"}]
    BY <1>3 DEF RejectCandidate, ReleaseInv, ReleaseTyped
  <2>2. ReleaseTyped' /\ ProfilesInPlace'
    BY <1>3, <2>1 DEF RejectCandidate, EndRelease, ReleaseInv, ReleaseTyped, coordinatorVars, ProfilesInPlace, Workspace
  <2>3. \A d \in Candidates : Admitted(d)' => Admitted(d)
    BY <1>3, <2>1, ReleaseAssumption DEF RejectCandidate, EndRelease, ReleaseInv, ReleaseTyped, Admitted, coordinatorVars
  <2>4. OnePerRole'
    BY <1>3, <2>3, AdmissionKept DEF ReleaseInv
  <2>5. \A v \in Workers : WorkerInPlace(v)'
    BY <1>3 DEF RejectCandidate, EndRelease, ReleaseInv, ReleaseTyped, WorkerInPlace, Sided, coordinatorVars
  <2>. QED  BY <2>2, <2>4, <2>5 DEF ReleaseInv
<1>4. ASSUME NEW w \in Workers, EndRelease(w), UNCHANGED <<status, executors, coordinatorVars, profileVars, stableProfile>>
      PROVE  ReleaseInv'
  <2>1. ReleaseTyped' /\ ProfilesInPlace'
    BY <1>4 DEF EndRelease, ReleaseInv, ReleaseTyped, coordinatorVars, profileVars, ProfilesInPlace, Workspace
  <2>2. \A d \in Candidates : Admitted(d)' => Admitted(d)
    BY <1>4, ReleaseAssumption DEF EndRelease, ReleaseInv, ReleaseTyped, Admitted, coordinatorVars, profileVars
  <2>3. OnePerRole'
    BY <1>4, <2>2, AdmissionKept DEF ReleaseInv
  <2>4. \A v \in Workers : WorkerInPlace(v)'
    BY <1>4 DEF EndRelease, ReleaseInv, ReleaseTyped, WorkerInPlace, Sided, coordinatorVars, profileVars
  <2>. QED  BY <2>1, <2>3, <2>4 DEF ReleaseInv
<1>5. ASSUME NEW w \in Workers, RegressionRejects(w) PROVE ReleaseInv'
  <2>1. candidateOf[w] \in Candidates
    BY <1>5 DEF RegressionRejects, ReleaseInv, WorkerInPlace, Sided, Workers
  <2>. QED  BY <1>3, <1>5, <2>1 DEF RegressionRejects, profileVars
<1>6. ASSUME NEW w \in Workers, RegisterExecutor(w) PROVE ReleaseInv'
  <2>. DEFINE c == candidateOf[w]
  <2>1. releasing[w] = "gate" /\ c \in Candidates /\ w \notin Evaluators
    BY <1>6 DEF RegisterExecutor, ReleaseInv, WorkerInPlace, Sided, Workers
  <2>2. CASE TargetRole[c] \in executors
    BY <1>4, <1>6, <2>2 DEF RegisterExecutor, profileVars
  <2>3. CASE TargetRole[c] \notin executors
    <3>1. /\ executors' = executors \cup {TargetRole[c]}
          /\ releasing' = [releasing EXCEPT ![w] = "submit"]
          /\ UNCHANGED <<status, candidateOf, coordinatorVars, profileVars, stableProfile>>
      BY <1>6, <2>3 DEF RegisterExecutor, profileVars
    <3>2. ReleaseTyped' /\ ProfilesInPlace'
      BY <3>1 DEF ReleaseInv, ReleaseTyped, coordinatorVars, profileVars, ProfilesInPlace, Workspace
    <3>3. \A d \in Candidates : Admitted(d)' => Admitted(d) \/ d = c
      BY <2>1, <3>1 DEF ReleaseInv, ReleaseTyped, Admitted, coordinatorVars, profileVars
    <3>4. \A d \in Candidates : Admitted(d) => TargetRole[d] # TargetRole[c]
      BY <2>3 DEF ReleaseInv, OnePerRole
    <3>. HIDE DEF c
    <3>5. OnePerRole'
      BY <3>1, <3>3, <3>4 DEF ReleaseInv, OnePerRole
    <3>6. \A v \in Workers : WorkerInPlace(v)'
      BY <2>1, <3>1 DEF ReleaseInv, ReleaseTyped, WorkerInPlace, Sided, coordinatorVars, profileVars
    <3>. QED  BY <3>2, <3>5, <3>6 DEF ReleaseInv
  <2>. QED  BY <2>2, <2>3
<1>7. ASSUME NEW w \in Workers, SubmitCandidate(w) PROVE ReleaseInv'
  <2>. DEFINE p == [patch |-> candidateOf[w], retry |-> 0]
  <2>1. candidateOf[w] \in Candidates /\ Admitted(candidateOf[w]) /\ w \notin Evaluators
    BY <1>7, ReleasersCandidate DEF SubmitCandidate
  <2>2. p \in ProposalRecord
    BY <2>1 DEF ProposalRecord
  <2>3. /\ proposals' \in Seq(ProposalRecord)
        /\ PatchesOf(proposals') = PatchesOf(proposals) \cup {candidateOf[w]}
    BY <1>7, <2>2, QueueAppends DEF SubmitCandidate, Propose, ReleaseInv, ReleaseTyped
  <2>. HIDE DEF p
  <2>4. ReleaseTyped' /\ ProfilesInPlace'
    BY <1>7, <2>3 DEF SubmitCandidate, ReleaseInv, ReleaseTyped, profileVars, ProfilesInPlace, Workspace
  <2>5. \A d \in Candidates : Admitted(d)' => Admitted(d)
    BY <1>7, <2>1, <2>3 DEF SubmitCandidate, ReleaseInv, ReleaseTyped, Admitted, profileVars
  <2>6. OnePerRole'
    BY <1>7, <2>5, AdmissionKept DEF SubmitCandidate, ReleaseInv
  <2>7. \A v \in Workers : WorkerInPlace(v)'
    BY <1>7, <2>1 DEF SubmitCandidate, ReleaseInv, ReleaseTyped, WorkerInPlace, Sided, profileVars
  <2>. QED  BY <2>4, <2>6, <2>7 DEF ReleaseInv
<1>8. ASSUME NEW w \in Workers, TakePending(w) PROVE ReleaseInv'
  <2>1. PatchesOf(<<>>) = {} /\ <<>> \in Seq(ProposalRecord)
    BY DEF PatchesOf
  <2>2. ReleaseTyped' /\ ProfilesInPlace'
    BY <1>8, <2>1 DEF TakePending, ReleaseInv, ReleaseTyped, profileVars, ProfilesInPlace, Workspace
  <2>3. releasing[w] # "gate" /\ candidateOf' = candidateOf
        /\ proposals' = <<>> /\ batch' = [batch EXCEPT ![w] = proposals]
        /\ releasing' = [releasing EXCEPT ![w] = "decide"]
    BY <1>8 DEF TakePending
  <2>4. \A d \in Candidates : Admitted(d)' => Admitted(d)
    BY <1>8, <2>1, <2>3 DEF TakePending, ReleaseInv, ReleaseTyped, Admitted, profileVars
  <2>5. OnePerRole'
    BY <1>8, <2>4, AdmissionKept DEF TakePending, ReleaseInv
  <2>6. \A v \in Workers : WorkerInPlace(v)'
    BY <1>8, ReleaseAssumption DEF TakePending, ReleaseInv, ReleaseTyped, WorkerInPlace, Sided, profileVars
  <2>. QED  BY <2>2, <2>5, <2>6 DEF ReleaseInv
<1>9. ASSUME NEW w \in Workers, TakeDecision(w) PROVE ReleaseInv'
  <2>1. /\ releasing[w] = "decide"
        /\ \E p \in {"look", "idle", "apply", "delay", "record"} :
             /\ releasing' = [releasing EXCEPT ![w] = p]
             /\ p = "look" => w \in Releasers
             /\ p = "idle" => w \notin Releasers
             /\ p \in {"apply", "delay", "record"} => batch[w] # <<>>
        /\ UNCHANGED <<status, executors, candidateOf, proposals, unproposed, recent,
                       decision, batch, profileVars, stableProfile>>
    <3>1. CASE batch[w] = <<>>
      BY <1>9, <3>1 DEF TakeDecision, profileVars
    <3>2. CASE batch[w] # <<>>
      BY <1>9, <3>2 DEF TakeDecision, profileVars
    <3>. QED  BY <3>1, <3>2
  <2>2. PICK p \in {"look", "idle", "apply", "delay", "record"} :
             /\ releasing' = [releasing EXCEPT ![w] = p]
             /\ p = "look" => w \in Releasers
             /\ p = "idle" => w \notin Releasers
             /\ p \in {"apply", "delay", "record"} => batch[w] # <<>>
    BY <2>1
  <2>3. ReleaseTyped' /\ ProfilesInPlace'
    BY <2>1, <2>2 DEF ReleaseInv, ReleaseTyped, profileVars, ProfilesInPlace, Workspace
  <2>4. \A d \in Candidates : Admitted(d)' => Admitted(d)
    BY <2>1, <2>2 DEF ReleaseInv, ReleaseTyped, Admitted, profileVars
  <2>5. OnePerRole'
    BY <2>1, <2>4, AdmissionKept DEF ReleaseInv
  <2>6. \A v \in Workers : WorkerInPlace(v)'
    BY <2>1, <2>2, ReleaseAssumption DEF ReleaseInv, ReleaseTyped, WorkerInPlace, Sided, profileVars, Workers
  <2>. QED  BY <2>3, <2>5, <2>6 DEF ReleaseInv
<1>10. ASSUME NEW w \in Workers, ApplyPatch(w) PROVE ReleaseInv'
  <2>. DEFINE patch == Head(batch[w]).patch
  <2>1. /\ batch[w] \in Seq(ProposalRecord) /\ batch[w] # <<>>
    BY <1>10 DEF ApplyPatch, ReleaseInv, ReleaseTyped, WorkerInPlace, Sided
  <2>2. patch \in Candidates \cup Others /\ patch \in PatchesOf(batch[w])
    BY <2>1, QueueShrinks DEF ProposalRecord
  <2>. HIDE DEF patch
  <2>3. PICK outcome : Deploys(patch, outcome)
    BY <1>10 DEF ApplyPatch, patch
  <2>4. patch \in Candidates => Admitted(patch)
    BY <2>2 DEF Admitted
  <2>5. /\ appliedIDs \subseteq appliedIDs'
        /\ appliedIDs' \subseteq appliedIDs \cup ({patch} \cap Candidates)
        /\ instructions' = [o \in Objects |-> instructions'[o]]
        /\ stableProfile' = stableProfile /\ ProfilesInPlace'
    BY <1>10, <2>2, <2>3, <2>4, Applies DEF ApplyPatch
  <2>6. /\ releasing[w] = "apply" /\ releasing' = [releasing EXCEPT ![w] = "history"]
        /\ UNCHANGED <<status, executors, candidateOf, coordinatorVars>>
    BY <1>10 DEF ApplyPatch
  <2>7. ReleaseTyped'
    BY <2>5, <2>6 DEF ReleaseInv, ReleaseTyped, coordinatorVars
  <2>8. \A d \in Candidates : Admitted(d)' => Admitted(d)
    BY <2>4, <2>5, <2>6 DEF ReleaseInv, ReleaseTyped, Admitted, coordinatorVars
  <2>9. OnePerRole'
    BY <2>6, <2>8, AdmissionKept DEF ReleaseInv
  <2>10. \A v \in Workers : WorkerInPlace(v)'
    BY <2>5, <2>6 DEF ReleaseInv, ReleaseTyped, WorkerInPlace, Sided, coordinatorVars
  <2>. QED  BY <2>5, <2>7, <2>9, <2>10 DEF ReleaseInv
<1>11. ASSUME NEW w \in Workers, RecordDecision(w) PROVE ReleaseInv'
  <2>1. /\ batch[w] \in Seq(ProposalRecord) /\ batch[w] # <<>>
    BY <1>11 DEF RecordDecision, ReleaseInv, ReleaseTyped, WorkerInPlace, Sided
  <2>2. Tail(batch[w]) \in Seq(ProposalRecord) /\ PatchesOf(Tail(batch[w])) \subseteq PatchesOf(batch[w])
    BY <2>1, QueueShrinks
  <2>3. /\ releasing[w] = "record" /\ batch' = [batch EXCEPT ![w] = Tail(batch[w])]
        /\ releasing' = [releasing EXCEPT ![w] = "decide"]
        /\ UNCHANGED <<status, executors, candidateOf, proposals, unproposed, profileVars, stableProfile>>
    BY <1>11 DEF RecordDecision, profileVars
  <2>4. ReleaseTyped' /\ ProfilesInPlace'
    BY <2>2, <2>3 DEF ReleaseInv, ReleaseTyped, profileVars, ProfilesInPlace, Workspace
  <2>5. \A d \in Candidates : Admitted(d)' => Admitted(d)
    BY <2>2, <2>3 DEF ReleaseInv, ReleaseTyped, Admitted, profileVars
  <2>6. OnePerRole'
    BY <2>3, <2>5, AdmissionKept DEF ReleaseInv
  <2>7. \A v \in Workers : WorkerInPlace(v)'
    BY <2>3 DEF ReleaseInv, ReleaseTyped, WorkerInPlace, Sided, profileVars
  <2>. QED  BY <2>4, <2>6, <2>7 DEF ReleaseInv
<1>11a. ASSUME NEW w \in Workers, RequeueDelayed(w) PROVE ReleaseInv'
  <2>. DEFINE p == Head(batch[w])
              q == [p EXCEPT !.retry = @ + 1]
  <2>1. /\ batch[w] \in Seq(ProposalRecord) /\ batch[w] # <<>>
    BY <1>11a DEF RequeueDelayed, ReleaseInv, ReleaseTyped, WorkerInPlace, Sided
  <2>2. p \in ProposalRecord /\ p.patch \in PatchesOf(batch[w])
    BY <2>1, QueueShrinks
  <2>3. q \in ProposalRecord /\ q.patch = p.patch
    BY <2>2 DEF ProposalRecord
  <2>4. proposals' = Append(proposals, q)
    BY <1>11a DEF RequeueDelayed
  <2>5. /\ releasing[w] = "delay" /\ releasing' = [releasing EXCEPT ![w] = "record"]
        /\ UNCHANGED <<status, executors, candidateOf, unproposed, batch, profileVars, stableProfile>>
    BY <1>11a DEF RequeueDelayed, profileVars
  <2>. HIDE DEF p, q
  <2>6. proposals' \in Seq(ProposalRecord) /\ PatchesOf(proposals') = PatchesOf(proposals) \cup {p.patch}
    BY <2>3, <2>4, QueueAppends DEF ReleaseInv, ReleaseTyped
  <2>7. ReleaseTyped' /\ ProfilesInPlace'
    BY <2>5, <2>6 DEF ReleaseInv, ReleaseTyped, profileVars, ProfilesInPlace, Workspace
  <2>8. \A d \in Candidates : Admitted(d)' => Admitted(d)
    BY <2>2, <2>5, <2>6 DEF ReleaseInv, ReleaseTyped, Admitted, profileVars
  <2>9. OnePerRole'
    BY <2>5, <2>8, AdmissionKept DEF ReleaseInv
  <2>10. \A v \in Workers : WorkerInPlace(v)'
    BY <2>1, <2>5 DEF ReleaseInv, ReleaseTyped, WorkerInPlace, Sided, profileVars
  <2>. QED  BY <2>7, <2>9, <2>10 DEF ReleaseInv
<1>11b. ASSUME NEW w \in Workers, RecordPatch(w) PROVE ReleaseInv'
  <2>1. /\ releasing[w] = "history" /\ releasing' = [releasing EXCEPT ![w] = "record"]
        /\ UNCHANGED <<status, executors, candidateOf, proposals, unproposed, batch, profileVars, stableProfile>>
    BY <1>11b DEF RecordPatch, profileVars
  <2>2. ReleaseTyped' /\ ProfilesInPlace'
    BY <2>1 DEF ReleaseInv, ReleaseTyped, profileVars, ProfilesInPlace, Workspace
  <2>3. \A d \in Candidates : Admitted(d)' => Admitted(d)
    BY <2>1 DEF ReleaseInv, ReleaseTyped, Admitted, profileVars
  <2>4. OnePerRole'
    BY <2>1, <2>3, AdmissionKept DEF ReleaseInv
  <2>5. \A v \in Workers : WorkerInPlace(v)'
    BY <2>1 DEF ReleaseInv, ReleaseTyped, WorkerInPlace, Sided, profileVars
  <2>. QED  BY <2>2, <2>4, <2>5 DEF ReleaseInv
<1>12. ASSUME NEW w \in Workers, LookAtDecision(w) PROVE ReleaseInv'
  <2>1. candidateOf[w] \in Candidates /\ w \notin Evaluators /\ releasing[w] = "look"
    BY <1>12, ReleasersCandidate DEF LookAtDecision
  <2>2. UNCHANGED <<executors, coordinatorVars, profileVars, stableProfile>>
    BY <1>12 DEF LookAtDecision, profileVars
  <2>3. \/ releasing' = [releasing EXCEPT ![w] = "reapply"] /\ UNCHANGED <<status, candidateOf>>
        \/ RejectCandidate(w)
        \/ EndRelease(w) /\ UNCHANGED status
    BY <1>12, <2>1 DEF LookAtDecision
  <2>4. CASE releasing' = [releasing EXCEPT ![w] = "reapply"] /\ UNCHANGED <<status, candidateOf>>
    <3>1. ReleaseTyped' /\ ProfilesInPlace'
      BY <2>2, <2>4 DEF ReleaseInv, ReleaseTyped, coordinatorVars, profileVars, ProfilesInPlace, Workspace
    <3>2. \A d \in Candidates : Admitted(d)' => Admitted(d)
      BY <2>1, <2>2, <2>4 DEF ReleaseInv, ReleaseTyped, Admitted, coordinatorVars, profileVars
    <3>3. OnePerRole'
      BY <2>2, <3>2, AdmissionKept DEF ReleaseInv
    <3>4. \A v \in Workers : WorkerInPlace(v)'
      BY <2>1, <2>2, <2>4 DEF ReleaseInv, ReleaseTyped, WorkerInPlace, Sided, coordinatorVars, profileVars
    <3>. QED  BY <3>1, <3>3, <3>4 DEF ReleaseInv
  <2>. QED  BY <1>3, <1>4, <2>1, <2>2, <2>3, <2>4 DEF profileVars
<1>13. ASSUME NEW w \in Workers, Reapply(w) PROVE ReleaseInv'
  <2>. DEFINE c == candidateOf[w]
  <2>1. c \in Candidates /\ Admitted(c) /\ w \notin Evaluators /\ releasing[w] = "reapply"
    BY <1>13, ReleasersCandidate DEF Reapply
  <2>2. UNCHANGED <<executors, coordinatorVars>>
    BY <1>13 DEF Reapply
  <2>3. CASE Deploys(c, "kept back") /\ RejectCandidate(w)
    <3>1. UNCHANGED <<appliedIDs, instructions, stableProfile>>
      BY <2>3 DEF Deploys
    <3>. QED  BY <1>3, <2>1, <2>2, <2>3, <3>1
  <2>4. CASE /\ Deploys(c, "promoted") /\ releasing' = [releasing EXCEPT ![w] = "promote"]
             /\ UNCHANGED <<status, candidateOf>>
    <3>. HIDE DEF c
    <3>1. /\ appliedIDs \subseteq appliedIDs' /\ appliedIDs' \subseteq appliedIDs \cup ({c} \cap Candidates)
          /\ instructions' = [o \in Objects |-> instructions'[o]]
          /\ stableProfile' = stableProfile /\ ProfilesInPlace' /\ c \in appliedIDs'
      BY <2>1, <2>4, Applies
    <3>2. ReleaseTyped'
      BY <2>2, <2>4, <3>1 DEF ReleaseInv, ReleaseTyped, coordinatorVars
    <3>3. \A d \in Candidates : Admitted(d)' => Admitted(d)
      BY <2>1, <2>2, <2>4, <3>1 DEF ReleaseInv, ReleaseTyped, Admitted, coordinatorVars
    <3>4. OnePerRole'
      BY <2>2, <3>3, AdmissionKept DEF ReleaseInv
    <3>5. candidateOf[w] = c
      BY DEF c
    <3>6. \A v \in Workers : WorkerInPlace(v)'
      BY <2>1, <2>2, <2>4, <3>1, <3>5 DEF ReleaseInv, ReleaseTyped, WorkerInPlace, Sided, coordinatorVars
    <3>. QED  BY <3>1, <3>2, <3>4, <3>6 DEF ReleaseInv
  <2>. QED  BY <1>13, <2>3, <2>4 DEF Reapply
<1>14. ASSUME NEW w \in Workers, PromoteCandidate(w) PROVE ReleaseInv'
  <2>. DEFINE c == candidateOf[w]
  <2>1. c \in Candidates /\ Admitted(c) /\ releasing[w] = "promote" /\ c \in appliedIDs
    BY <1>14, ReleasersCandidate DEF PromoteCandidate, ReleaseInv, WorkerInPlace, Sided
  <2>2. /\ stableProfile' = [stableProfile EXCEPT ![TargetRole[c]] = Workspace(c)]
        /\ status' = [status EXCEPT ![c] = "promoted"] /\ EndRelease(w)
        /\ UNCHANGED <<executors, instructions, appliedIDs, coordinatorVars>>
    BY <1>14 DEF PromoteCandidate
  <2>. HIDE DEF c
  <2>3. \A d \in Candidates : d # c /\ status[d] = "promoted" => TargetRole[d] # TargetRole[c]
    BY <2>1 DEF ReleaseInv, OnePerRole, Admitted
  <2>4. ReleaseTyped'
    BY <2>1, <2>2, ReleaseAssumption DEF ReleaseInv, ReleaseTyped, EndRelease, coordinatorVars
  <2>5. \A d \in Candidates : status'[d] = "promoted" =>
              d \in appliedIDs' /\ stableProfile'[TargetRole[d]] = Workspace(d)
    <3>. SUFFICES ASSUME NEW d \in Candidates, status'[d] = "promoted"
                  PROVE  d \in appliedIDs' /\ stableProfile'[TargetRole[d]] = Workspace(d)
      OBVIOUS
    <3>1. TargetRole[d] \in ProfileRoles /\ TargetRole[c] \in ProfileRoles
      BY <2>1, ReleaseAssumption
    <3>2. CASE d = c
      BY <2>1, <2>2, <3>1, <3>2 DEF ReleaseInv, ReleaseTyped
    <3>3. CASE d # c
      <4>1. status[d] = "promoted"
        BY <2>2, <3>3 DEF ReleaseInv, ReleaseTyped
      <4>. QED  BY <2>2, <2>3, <3>1, <3>3, <4>1 DEF ReleaseInv, ReleaseTyped, ProfilesInPlace
    <3>. QED  BY <3>2, <3>3
  <2>6. ProfilesInPlace'
    BY <2>2, <2>5 DEF ReleaseInv, ProfilesInPlace, Workspace
  <2>7. \A d \in Candidates : Admitted(d)' => Admitted(d)
    BY <2>1, <2>2, ReleaseAssumption DEF EndRelease, ReleaseInv, ReleaseTyped, Admitted, coordinatorVars
  <2>8. OnePerRole'
    BY <2>2, <2>7, AdmissionKept DEF ReleaseInv
  <2>9. \A v \in Workers : WorkerInPlace(v)'
    BY <2>2 DEF EndRelease, ReleaseInv, ReleaseTyped, WorkerInPlace, Sided, coordinatorVars
  <2>. QED  BY <2>4, <2>6, <2>8, <2>9 DEF ReleaseInv
<1>15. ASSUME NEW w \in Workers, NEW patch \in Others, SubmitOther(w, patch) PROVE ReleaseInv'
  <2>. DEFINE p == [patch |-> patch, retry |-> 0]
  <2>1. p \in ProposalRecord /\ patch \notin Candidates
    BY ReleaseAssumption DEF ProposalRecord
  <2>2. proposals' \in Seq(ProposalRecord) /\ PatchesOf(proposals') = PatchesOf(proposals) \cup {patch}
    BY <1>15, <2>1, QueueAppends DEF SubmitOther, Propose, ReleaseInv, ReleaseTyped
  <2>. HIDE DEF p
  <2>3. ReleaseTyped' /\ ProfilesInPlace'
    BY <1>15, <2>2 DEF SubmitOther, ReleaseInv, ReleaseTyped, profileVars, ProfilesInPlace, Workspace
  <2>4. \A d \in Candidates : Admitted(d)' => Admitted(d)
    BY <1>15, <2>1, <2>2 DEF SubmitOther, Admitted, profileVars
  <2>5. OnePerRole'
    BY <1>15, <2>4, AdmissionKept DEF SubmitOther, ReleaseInv
  <2>6. \A v \in Workers : WorkerInPlace(v)'
    BY <1>15 DEF SubmitOther, ReleaseInv, WorkerInPlace, Sided, profileVars
  <2>. QED  BY <2>3, <2>5, <2>6 DEF ReleaseInv
<1>16. CASE HistoryAges \/ UNCHANGED releaseVars
  <2>1. UNCHANGED <<status, executors, releasing, candidateOf, proposals, unproposed, batch, profileVars, stableProfile>>
    BY <1>16 DEF HistoryAges, releaseVars, profileVars
  <2>2. ReleaseTyped' /\ ProfilesInPlace'
    BY <2>1 DEF ReleaseInv, ReleaseTyped, profileVars, ProfilesInPlace, Workspace
  <2>3. OnePerRole'
    BY <2>1 DEF ReleaseInv, OnePerRole, Admitted, profileVars
  <2>4. \A v \in Workers : WorkerInPlace(v)'
    BY <2>1 DEF ReleaseInv, WorkerInPlace, Sided, profileVars
  <2>. QED  BY <2>2, <2>3, <2>4 DEF ReleaseInv
<1>. QED
  BY <1>1, <1>2, <1>5, <1>6, <1>7, <1>8, <1>9, <1>10, <1>11, <1>11a, <1>11b, <1>12, <1>13, <1>14, <1>15, <1>16
  DEF ReleaseNext, ReleaseStep

\* What the stable region shows of a promoted candidate's role is that
\* candidate's text, for any candidates, roles, limits and sources, with or
\* without the canary deployment (profile_store.go, candidate_pipeline.go).
THEOREM PromotedIsShown == ReleaseSpec => []PromotedStaysStable
<1>1. ReleaseInv => PromotedStaysStable
  BY DEF ReleaseInv, ProfilesInPlace, PromotedStaysStable
<1>. QED  BY ReleaseStarts, ReleaseKeeps, <1>1, PTL DEF ReleaseSpec

=============================================================================
