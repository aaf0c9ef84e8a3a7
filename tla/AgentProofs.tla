---------------------------- MODULE AgentProofs -----------------------------
(***************************************************************************)
(* Proofs about agents, for every set of identities, every population      *)
(* policy and every number of deaths: the population of the agent fabric,  *)
(* the instances that the agent runtime runs under one id, and what runs   *)
(* and execution quanta say to the model and leave in memory.              *)
(***************************************************************************)
EXTENDS AgentRecovery, AgentRuntime, AgentLoop, ExecutionQuantum,
        FiniteSetTheorems, SequenceTheorems, TLAPS

-----------------------------------------------------------------------------
(* The population.                                                          *)

(* What a step of the population does to the fabric.                       *)
FabricStep ==
  \/ \E a \in Ids, c \in {0, 1} : Spawn(a, c)
  \/ \E a \in Ids : Suspend(a) \/ Resume(a) \/ Recover(a)
  \/ \E a \in Ids : Retire(a)
  \/ \E a \in Ids : Kill(a)
  \/ \E d \in dying : SaveSnapshot(d)
  \/ \E a \in Ids : ClearSnapshot(a)
  \/ \E b \in Budgets : UpdateResourceBudget(b)
  \/ UNCHANGED fabric

(* Every step is one call into the fabric, or none.                        *)
LEMMA OneCall ==
  ASSUME RecTypeOK, [RecNext]_recVars
  PROVE  FabricStep
<1>1. ASSUME NEW a \in Ids, SpawnAgent(a) PROVE FabricStep
  BY <1>1 DEF SpawnAgent, FabricStep
<1>2. ASSUME NEW a \in Ids, ChaosKill(a) PROVE FabricStep
  BY <1>2 DEF ChaosKill, FabricStep
<1>3. ASSUME NEW a \in Ids, Pause(a) PROVE FabricStep
  BY <1>3 DEF Pause, FabricStep
<1>4. ASSUME NEW a \in Ids, Find(a) PROVE FabricStep
  BY <1>4 DEF Find, FabricStep
<1>5. ASSUME NEW d \in dying, KillReturns(d) PROVE FabricStep
  BY <1>5 DEF KillReturns, FabricStep
<1>6. ASSUME NEW b \in Budgets, ApplyQuota(b) PROVE FabricStep
  BY <1>6 DEF ApplyQuota, FabricStep
<1>7. CASE BeginApply
  BY <1>7 DEF BeginApply, FabricStep
<1>8. CASE AdaptPopulation
  <2>1. todo # <<>> /\ todo \in Seq(Order)
    BY <1>8 DEF AdaptPopulation, RecTypeOK
  <2>2. Head(todo) \in Order
    BY <2>1, HeadTailProperties
  <2>3. Head(todo).id \in Ids
    BY <2>2 DEF Order
  <2>. QED  BY <1>8, <2>3 DEF AdaptPopulation, FabricStep
<1>9. CASE Count
  BY <1>9 DEF Count, FabricStep
<1>10. CASE Decide
  BY <1>10 DEF Decide, FabricStep
<1>11. CASE SpawnBody
  <2>1. ASSUME NEW a \in IF body = NoId THEN Fresh \ used ELSE {body}, Spawn(a, 0)
        PROVE  FabricStep
    <3>. a \in Ids
      BY <2>1, RecoveryAssumption DEF RecTypeOK
    <3>. QED  BY <2>1 DEF FabricStep
  <2>2. CASE UNCHANGED fabric
    BY <2>2 DEF FabricStep
  <2>. QED  BY <1>11, <2>1, <2>2 DEF SpawnBody
<1>12. CASE Install
  <2>1. body \in Ids
    BY <1>12 DEF Install, RecTypeOK
  <2>. QED  BY <1>12, <2>1 DEF Install, FabricStep
<1>13. CASE Consume
  <2>1. victim \in Ids
    BY <1>13 DEF Consume, RecTypeOK
  <2>. QED  BY <1>13, <2>1 DEF Consume, FabricStep
<1>14. CASE UNCHANGED recVars
  BY <1>14 DEF recVars, fabric, FabricStep
<1>. QED  BY <1>1, <1>2, <1>3, <1>4, <1>5, <1>6, <1>7, <1>8, <1>9, <1>10,
             <1>11, <1>12, <1>13, <1>14 DEF RecNext

-----------------------------------------------------------------------------
(* Type correctness, in the part of the state that is the fabric's and the *)
(* part that is not.                                                       *)

FabricTypeOK ==
  /\ agent \in [Ids -> AgentState]
  /\ claim \in [Ids -> {0, 1}]
  /\ allocated \in 0 .. Largest
  /\ budget \in Budgets
  /\ snapshot \in [Ids -> 0 .. MaxKills]
  /\ dying \subseteq Death
  /\ kills \in 0 .. MaxKills

ActorsTypeOK ==
  /\ stage \in Stage
  /\ victim \in Ids \cup {NoId} /\ (stage = "idle" <=> victim = NoId)
  /\ body \in Ids \cup {NoId} /\ (stage \in {"spawned", "recovered"} => body # NoId)
  /\ restarts \in [Ids -> 0 .. MaxRestarts]
  /\ revivals \in [Ids -> Nat]
  /\ todo \in Seq(Order)
  /\ used \subseteq Ids /\ retired \subseteq Ids

LEMMA TypeParts == RecTypeOK <=> FabricTypeOK /\ ActorsTypeOK
BY DEF RecTypeOK, FabricTypeOK, ActorsTypeOK

LEMMA FabricType == FabricTypeOK /\ FabricStep => FabricTypeOK'
<1>. SUFFICES ASSUME FabricTypeOK, FabricStep PROVE FabricTypeOK'
  OBVIOUS
<1>. USE AgentAssumption DEF FabricTypeOK, AgentState, Death
<1>1. ASSUME NEW a \in Ids, NEW c \in {0, 1}, Spawn(a, c) PROVE FabricTypeOK'
  <2>1. budget \in 0 .. Largest
    OBVIOUS
  <2>2. allocated + c \in 0 .. Largest
    BY <1>1, <2>1 DEF Spawn, canAllocate
  <2>. QED  BY <1>1, <2>2 DEF Spawn
<1>2. ASSUME NEW a \in Ids, Suspend(a) \/ Resume(a) \/ Recover(a)
      PROVE  FabricTypeOK'
  BY <1>2 DEF Suspend, Resume, Recover
<1>3. ASSUME NEW a \in Ids, Retire(a) PROVE FabricTypeOK'
  <2>1. claim[a] \in {0, 1}
    OBVIOUS
  <2>2. allocated' \in 0 .. Largest
    BY <1>3, <2>1 DEF Retire, release
  <2>. QED  BY <1>3, <2>2 DEF Retire
<1>4. ASSUME NEW a \in Ids, Kill(a) PROVE FabricTypeOK'
  <2>1. claim[a] \in {0, 1}
    OBVIOUS
  <2>2. allocated' \in 0 .. Largest
    BY <1>4, <2>1 DEF Kill, release
  <2>3. kills + 1 \in 1 .. MaxKills
    BY <1>4 DEF Kill
  <2>. QED  BY <1>4, <2>2, <2>3 DEF Kill
<1>5. ASSUME NEW d \in dying, SaveSnapshot(d) PROVE FabricTypeOK'
  <2>1. d.id \in Ids /\ d.died \in 0 .. MaxKills
    OBVIOUS
  <2>. QED  BY <1>5, <2>1 DEF SaveSnapshot
<1>6. ASSUME NEW a \in Ids, ClearSnapshot(a) PROVE FabricTypeOK'
  BY <1>6 DEF ClearSnapshot
<1>7. ASSUME NEW b \in Budgets, UpdateResourceBudget(b) PROVE FabricTypeOK'
  BY <1>7 DEF UpdateResourceBudget
<1>8. CASE UNCHANGED fabric
  BY <1>8 DEF fabric
<1>. QED  BY <1>1, <1>2, <1>3, <1>4, <1>5, <1>6, <1>7, <1>8 DEF FabricStep

LEMMA ActorsType == RecTypeOK /\ [RecNext]_recVars => ActorsTypeOK'
<1>. SUFFICES ASSUME RecTypeOK, [RecNext]_recVars PROVE ActorsTypeOK'
  OBVIOUS
<1>. USE RecoveryAssumption DEF ActorsTypeOK, RecTypeOK, Stage
<1>1. ASSUME NEW a \in Ids, SpawnAgent(a) PROVE ActorsTypeOK'
  BY <1>1 DEF SpawnAgent, restart
<1>2. ASSUME NEW a \in Ids, ChaosKill(a) PROVE ActorsTypeOK'
  BY <1>2 DEF ChaosKill, restart
<1>3. ASSUME NEW a \in Ids, Pause(a) PROVE ActorsTypeOK'
  BY <1>3 DEF Pause, restart
<1>4. ASSUME NEW a \in Ids, Find(a) PROVE ActorsTypeOK'
  BY <1>4 DEF Find
<1>5. ASSUME NEW d \in dying, KillReturns(d) PROVE ActorsTypeOK'
  BY <1>5 DEF KillReturns, restart
<1>6. ASSUME NEW b \in Budgets, ApplyQuota(b) PROVE ActorsTypeOK'
  BY <1>6 DEF ApplyQuota, restart
<1>7. CASE BeginApply
  BY <1>7 DEF BeginApply, restart
<1>8. CASE AdaptPopulation
  <2>1. todo # <<>> /\ todo \in Seq(Order) /\ UNCHANGED <<restart, used>>
    BY <1>8 DEF AdaptPopulation
  <2>2. Head(todo) \in Order /\ Tail(todo) \in Seq(Order) /\ <<>> \in Seq(Order)
    BY <2>1, HeadTailProperties, EmptySeq
  <2>3. Head(todo).id \in Ids
    BY <2>2 DEF Order
  <2>4. todo' \in {Tail(todo), <<>>}
    BY <1>8 DEF AdaptPopulation
  <2>5. retired' \in {retired, retired \ {Head(todo).id}, retired \cup {Head(todo).id}}
    BY <1>8 DEF AdaptPopulation
  <2>. QED  BY <2>1, <2>2, <2>3, <2>4, <2>5 DEF restart
<1>9. CASE Count
  <2>1. victim \in Ids /\ UNCHANGED <<todo, used, retired>>
    BY <1>9 DEF Count
  <2>2. CASE GiveUp
    BY <2>1, <2>2 DEF GiveUp
  <2>3. CASE ~GiveUp
    <3>1. /\ restarts[victim] < MaxRestarts
          /\ restarts' = [restarts EXCEPT ![victim] = @ + 1]
          /\ stage' = "counted"
          /\ UNCHANGED <<victim, body, revivals>>
      BY <1>9, <2>3 DEF Count
    <3>2. restarts[victim] + 1 \in 0 .. MaxRestarts
      BY <2>1, <3>1
    <3>. QED  BY <2>1, <3>1, <3>2
  <2>. QED  BY <2>2, <2>3
<1>10. CASE Decide
  BY <1>10 DEF Decide
<1>11. CASE SpawnBody
  <2>1. ASSUME NEW a \in IF body = NoId THEN Fresh \ used ELSE {body},
               stage' = "spawned", body' = a,
               revivals' = [revivals EXCEPT ![a] = IF a = victim THEN @ + 1 ELSE @],
               used' = IF body = NoId THEN used \cup {a} ELSE used,
               UNCHANGED <<victim, restarts, todo, retired>>
        PROVE  ActorsTypeOK'
    <3>1. a \in Ids /\ victim \in Ids
      BY <1>11, <2>1 DEF SpawnBody
    <3>2. revivals' \in [Ids -> Nat]
      BY <2>1, <3>1
    <3>. QED  BY <2>1, <3>1, <3>2
  <2>2. CASE GiveUp /\ UNCHANGED <<todo, used, retired>>
    BY <2>2 DEF GiveUp
  <2>. QED  BY <1>11, <2>1, <2>2 DEF SpawnBody
<1>12. CASE Install
  <2>1. UNCHANGED <<todo, used, retired>>
    BY <1>12 DEF Install
  <2>2. CASE GiveUp
    BY <2>1, <2>2 DEF GiveUp
  <2>3. CASE stage = "spawned" /\ stage' = "recovered" /\ UNCHANGED <<victim, body, restarts, revivals>>
    BY <2>1, <2>3
  <2>. QED  BY <1>12, <2>2, <2>3 DEF Install
<1>13. CASE Consume
  BY <1>13 DEF Consume, GiveUp
<1>14. CASE UNCHANGED recVars
  BY <1>14 DEF recVars, restart
<1>. QED  BY <1>1, <1>2, <1>3, <1>4, <1>5, <1>6, <1>7, <1>8, <1>9, <1>10,
             <1>11, <1>12, <1>13, <1>14 DEF RecNext

(* Type correctness.  In the AgentFabric this says that the quota counter  *)
(* stays between zero and the largest budget ever set, whoever spawns,     *)
(* retires, kills and revives agents: admission and release keep it there. *)
THEOREM TypeCorrect == RecSpec => []RecTypeOK
<1>1. RecInit => RecTypeOK
  BY AgentAssumption, RecoveryAssumption, EmptySeq
     DEF RecInit, FabricInit, RecTypeOK, AgentState, Stage, Death
<1>2. RecTypeOK /\ [RecNext]_recVars => RecTypeOK'
  <2>. SUFFICES ASSUME RecTypeOK, [RecNext]_recVars PROVE RecTypeOK'
    OBVIOUS
  <2>1. FabricTypeOK'
    BY OneCall, TypeParts, FabricType
  <2>2. ActorsTypeOK'
    BY ActorsType
  <2>. QED  BY <2>1, <2>2 DEF RecTypeOK, FabricTypeOK, ActorsTypeOK
<1>. QED  BY <1>1, <1>2, PTL DEF RecSpec

-----------------------------------------------------------------------------
(* The quota's books.  QuotaIsExact is inductive given the types.          *)

(* Giving the claim of a back removes a from the holders and its unit from *)
(* the sum.                                                                *)
LEMMA Released ==
  ASSUME FabricTypeOK, QuotaIsExact, NEW a \in Ids,
         release(a), claim' = [claim EXCEPT ![a] = 0],
         \A b \in Ids \ {a} : agent'[b] = agent[b]
  PROVE  QuotaIsExact'
<1>1. IsFiniteSet(Holders) /\ Cardinality(Holders) \in Nat
  BY AgentAssumption, FS_Subset, FS_CardinalityType DEF Holders
<1>2. Holders' = Holders \ {a}
  BY DEF Holders, FabricTypeOK
<1>3. Cardinality(Holders') = IF a \in Holders THEN Cardinality(Holders) - 1 ELSE Cardinality(Holders)
  BY <1>1, <1>2, FS_RemoveElement
<1>4. a \in Holders => Cardinality(Holders) >= 1
  <2>. SUFFICES ASSUME a \in Holders PROVE Cardinality(Holders) # 0
    BY <1>1
  <2>. QED  BY <1>1, FS_EmptySet
<1>5. claim[a] = IF a \in Holders THEN 1 ELSE 0
  BY DEF Holders, FabricTypeOK
<1>6. allocated' = Cardinality(Holders')
  <2>1. CASE a \in Holders
    BY <1>1, <1>3, <1>4, <1>5, <2>1 DEF release, QuotaIsExact
  <2>2. CASE a \notin Holders
    BY <1>1, <1>3, <1>5, <2>2 DEF release, QuotaIsExact
  <2>. QED  BY <2>1, <2>2
<1>7. \A b \in Holders' : agent'[b] \in Alive
  BY <1>2 DEF QuotaIsExact, Holders
<1>. QED  BY <1>6, <1>7 DEF QuotaIsExact

LEMMA QuotaStep == FabricTypeOK /\ QuotaIsExact /\ FabricStep => QuotaIsExact'
<1>. SUFFICES ASSUME FabricTypeOK, QuotaIsExact, FabricStep PROVE QuotaIsExact'
  OBVIOUS
<1>1. ASSUME NEW a \in Ids, NEW c \in {0, 1}, Spawn(a, c) PROVE QuotaIsExact'
  <2>1. IsFiniteSet(Holders) /\ Cardinality(Holders) \in Nat
    BY AgentAssumption, FS_Subset, FS_CardinalityType DEF Holders
  <2>2. a \notin Holders /\ claim[a] = 0
    BY <1>1 DEF Spawn, QuotaIsExact, Holders, Alive, FabricTypeOK
  <2>3. Holders' = IF c = 1 THEN Holders \cup {a} ELSE Holders
    BY <1>1, <2>2 DEF Spawn, Holders, FabricTypeOK
  <2>4. Cardinality(Holders') = Cardinality(Holders) + c
    <3>1. CASE c = 1
      BY <2>1, <2>2, <2>3, <3>1, FS_AddElement
    <3>2. CASE c = 0
      BY <2>1, <2>3, <3>2
    <3>. QED  BY <3>1, <3>2
  <2>5. \A b \in Holders' : agent'[b] \in Alive
    BY <1>1, <2>3 DEF Spawn, QuotaIsExact, Alive, FabricTypeOK, Holders
  <2>. QED  BY <1>1, <2>4, <2>5 DEF Spawn, QuotaIsExact
<1>2. ASSUME NEW a \in Ids, Suspend(a) \/ Resume(a) \/ Recover(a)
      PROVE  QuotaIsExact'
  <2>1. UNCHANGED <<claim, allocated>>
    BY <1>2 DEF Suspend, Resume, Recover
  <2>2. Holders' = Holders
    BY <2>1 DEF Holders
  <2>3. \A b \in Ids : agent[b] \in Alive => agent'[b] \in Alive
    BY <1>2 DEF Suspend, Resume, Recover, Alive, FabricTypeOK
  <2>. QED  BY <2>1, <2>2, <2>3 DEF QuotaIsExact, Holders
<1>3. ASSUME NEW a \in Ids, Retire(a) PROVE QuotaIsExact'
  BY <1>3, Released DEF Retire, FabricTypeOK
<1>4. ASSUME NEW a \in Ids, Kill(a) PROVE QuotaIsExact'
  BY <1>4, Released DEF Kill, FabricTypeOK
<1>5. CASE UNCHANGED <<agent, claim, allocated>>
  <2>. Holders' = Holders
    BY <1>5 DEF Holders
  <2>. QED  BY <1>5 DEF QuotaIsExact
<1>6. ASSUME NEW d \in dying, SaveSnapshot(d) PROVE QuotaIsExact'
  BY <1>5, <1>6 DEF SaveSnapshot
<1>7. ASSUME NEW a \in Ids, ClearSnapshot(a) PROVE QuotaIsExact'
  BY <1>5, <1>7 DEF ClearSnapshot
<1>8. ASSUME NEW b \in Budgets, UpdateResourceBudget(b) PROVE QuotaIsExact'
  BY <1>5, <1>8 DEF UpdateResourceBudget
<1>9. CASE UNCHANGED fabric
  BY <1>5, <1>9 DEF fabric
<1>. QED  BY <1>1, <1>2, <1>3, <1>4, <1>6, <1>7, <1>8, <1>9 DEF FabricStep

(* The quota's books balance at every moment: no interleaving of retires,  *)
(* kills of retired agents, revivals and respawns gives a claim back twice *)
(* or leaves one behind.                                                   *)
THEOREM QuotaBalances == RecSpec => []QuotaIsExact
<1>1. RecInit => QuotaIsExact
  <2>. SUFFICES ASSUME RecInit PROVE QuotaIsExact
    OBVIOUS
  <2>1. Holders = {}
    BY DEF RecInit, FabricInit, Holders
  <2>. QED  BY <2>1, FS_EmptySet DEF RecInit, FabricInit, QuotaIsExact
<1>2. RecTypeOK /\ QuotaIsExact /\ [RecNext]_recVars => QuotaIsExact'
  BY OneCall, TypeParts, QuotaStep
<1>. QED  BY <1>1, <1>2, TypeCorrect, PTL DEF RecSpec

-----------------------------------------------------------------------------
(* The restart budget.  The bound on revivals is not inductive: what a     *)
(* revival has used up is in the counter, which is what stays bounded.     *)

Pending(a) == IF victim = a /\ stage \in {"counted", "decided"} THEN 1 ELSE 0

EveryRevivalIsCounted == \A a \in Ids : revivals[a] + Pending(a) <= restarts[a]

LEMMA CountedStep ==
  RecTypeOK /\ EveryRevivalIsCounted /\ [RecNext]_recVars => EveryRevivalIsCounted'
<1>. SUFFICES ASSUME RecTypeOK, EveryRevivalIsCounted, [RecNext]_recVars
              PROVE  EveryRevivalIsCounted'
  OBVIOUS
<1>0. \A a \in Ids : revivals[a] \in Nat /\ restarts[a] \in Nat
  BY DEF RecTypeOK
<1>1. CASE UNCHANGED restart
  BY <1>1 DEF EveryRevivalIsCounted, Pending, restart
<1>2. ASSUME NEW a \in Ids, SpawnAgent(a) \/ ChaosKill(a) \/ Pause(a)
      PROVE  EveryRevivalIsCounted'
  BY <1>1, <1>2 DEF SpawnAgent, ChaosKill, Pause
<1>3. CASE GiveUp
  BY <1>0, <1>3 DEF GiveUp, EveryRevivalIsCounted, Pending
<1>4. ASSUME NEW a \in Ids, Find(a) PROVE EveryRevivalIsCounted'
  BY <1>0, <1>4 DEF Find, EveryRevivalIsCounted, Pending
<1>5. ASSUME NEW d \in dying, KillReturns(d) PROVE EveryRevivalIsCounted'
  BY <1>1, <1>5 DEF KillReturns
<1>6. ASSUME NEW b \in Budgets, ApplyQuota(b) PROVE EveryRevivalIsCounted'
  BY <1>1, <1>6 DEF ApplyQuota
<1>7. CASE BeginApply \/ AdaptPopulation
  BY <1>1, <1>7 DEF BeginApply, AdaptPopulation
<1>8. CASE Count
  <2>1. CASE /\ restarts' = [restarts EXCEPT ![victim] = @ + 1]
             /\ stage' = "counted" /\ stage = "found"
             /\ UNCHANGED <<victim, body, revivals>>
    BY <1>0, <2>1 DEF EveryRevivalIsCounted, Pending, RecTypeOK
  <2>. QED  BY <1>3, <1>8, <2>1 DEF Count
<1>9. CASE Decide
  BY <1>0, <1>9 DEF Decide, EveryRevivalIsCounted, Pending
<1>10. CASE SpawnBody
  <2>1. ASSUME NEW a \in IF body = NoId THEN Fresh \ used ELSE {body},
               stage = "decided", stage' = "spawned",
               revivals' = [revivals EXCEPT ![a] = IF a = victim THEN @ + 1 ELSE @],
               UNCHANGED <<victim, restarts>>
        PROVE  EveryRevivalIsCounted'
    <3>. SUFFICES ASSUME NEW b \in Ids PROVE (revivals[b] + Pending(b) <= restarts[b])'
      BY DEF EveryRevivalIsCounted
    <3>1. Pending(b)' = 0
      BY <2>1 DEF Pending
    <3>2. revivals'[b] <= revivals[b] + Pending(b)
      BY <1>0, <2>1 DEF Pending, RecTypeOK
    <3>3. revivals'[b] \in Nat
      BY <1>0, <2>1 DEF RecTypeOK
    <3>. QED  BY <1>0, <2>1, <3>1, <3>2, <3>3 DEF EveryRevivalIsCounted, Pending
  <2>. QED  BY <1>3, <1>10, <2>1 DEF SpawnBody
<1>11. CASE Install
  <2>1. CASE stage = "spawned" /\ stage' = "recovered" /\ UNCHANGED <<victim, body, restarts, revivals>>
    BY <1>0, <2>1 DEF EveryRevivalIsCounted, Pending
  <2>. QED  BY <1>3, <1>11, <2>1 DEF Install
<1>12. CASE Consume
  BY <1>3, <1>12 DEF Consume
<1>13. CASE UNCHANGED recVars
  BY <1>1, <1>13 DEF recVars
<1>. QED  BY <1>2, <1>4, <1>5, <1>6, <1>7, <1>8, <1>9, <1>10, <1>11, <1>12,
             <1>13 DEF RecNext

(* No identity is brought back more often than the restart budget allows,  *)
(* counting the revival under way.                                         *)
THEOREM RevivalsBounded == RecSpec => []RevivalsAreBounded
<1>1. RecInit => EveryRevivalIsCounted
  BY DEF RecInit, EveryRevivalIsCounted, Pending
<1>2. RecTypeOK /\ EveryRevivalIsCounted => RevivalsAreBounded
  <2>. SUFFICES ASSUME RecTypeOK, EveryRevivalIsCounted, NEW a \in Ids
                PROVE  revivals[a] + Pending(a) <= MaxRestarts
    BY DEF RevivalsAreBounded, Pending
  <2>1. restarts[a] \in 0 .. MaxRestarts /\ revivals[a] \in Nat /\ Pending(a) \in {0, 1}
    BY DEF RecTypeOK, Pending
  <2>. QED  BY <2>1, RecoveryAssumption DEF EveryRevivalIsCounted
<1>. QED  BY <1>1, <1>2, CountedStep, TypeCorrect, PTL DEF RecSpec

-----------------------------------------------------------------------------
(* The entries of one agent id, its launches and the calls under way.      *)

EntryRecord == [stopped : BOOLEAN, paused : BOOLEAN, operatorIntent : BOOLEAN,
                resurrecting : BOOLEAN, restarts : Nat, cancel : Nat, healthy : BOOLEAN]

CallRecord == [kind : {"none", "restore", "stop", "pause", "restart", "resume"},
               pc : {"idle", "begin", "quiesce", "recover", "install", "clear", "launch"},
               entry : Nat, cancel : Nat, n : Nat]

\* What a resurrection and an operator's call may be, apart from idle.
RestoreCall(r) ==
  /\ r \in CallRecord /\ r.kind = "restore" /\ r.cancel = 0
  /\ r.pc \in {"begin", "quiesce", "recover", "install", "clear"}

OperatorCall(r) ==
  /\ r \in CallRecord
  /\ \/ r.kind \in {"stop", "pause"} /\ r.pc = "quiesce"
     \/ r.kind = "restart" /\ r.pc \in {"quiesce", "install"}
     \/ r.kind = "resume" /\ r.pc = "launch"

CallOK(c, r) ==
  /\ r # Idle => \/ c \in Resurrections /\ RestoreCall(r)
                 \/ c \in Operators /\ OperatorCall(r)
  /\ r.pc \notin {"idle", "begin"} => r.entry \in 1 .. Len(entries)

RunTypeOK ==
  /\ entries \in Seq(EntryRecord) /\ entries # <<>>
  /\ launches \in Seq(BOOLEAN)
  /\ \A i \in 1 .. Len(entries) : entries[i].cancel \in 1 .. Len(launches)
  /\ DOMAIN call = Calls /\ \A c \in Calls : CallOK(c, call[c])

\* Launch l lives on, as far as its own context goes.
Lives(l) == l \in 1 .. Len(launches) /\ launches[l]

\* The current launch has ended, or an operator's call is about to end it.
Ending ==
  \/ ~ Lives(Current.cancel)
  \/ \E d \in Operators : call[d].pc = "quiesce" /\ call[d].cancel = Current.cancel

\* A call r under way, as long as nothing has crossed it.
CallPlace(c, r) ==
  /\ c \in Resurrections /\ r.pc \in {"quiesce", "recover", "install"} => r.entry = Cur
  /\ c \in Resurrections /\ r.pc \in {"recover", "install"} => ~ Lives(Current.cancel)
  /\ c \in Operators /\ r.pc = "quiesce" => entries[r.entry].cancel = r.cancel
  /\ c \in Operators /\ r.kind = "restart" =>
       /\ r.entry = Cur /\ r.cancel = Current.cancel /\ intended
       /\ r.pc = "install" => ~ Lives(Current.cancel)

\* Call r will end launch l.
Ends(r, l) == r.pc = "quiesce" /\ l \in {r.cancel, entries[r.entry].cancel}

Uncrossed ==
  /\ ~ Crossing /\ ~ Doubled
  /\ \A c \in Calls : CallPlace(c, call[c])
  /\ Current.paused => Ending
  /\ ~ intended => Current.operatorIntent /\ Ending
  /\ \A l : Lives(l) => l = Current.cancel \/ \E c \in Calls : Ends(call[c], l)

RunInv ==
  /\ RunTypeOK
  /\ ~ crossed /\ ~ doubled => Uncrossed
  /\ stopping = "stopped" => \A c \in Resurrections : call[c] = Idle

LEMMA EntrySet ==
  ASSUME RunTypeOK, NEW i \in 1 .. Len(entries), NEW r \in EntryRecord,
         entries' = [entries EXCEPT ![i] = r]
  PROVE  /\ entries' \in Seq(EntryRecord) /\ entries' # <<>> /\ Len(entries') = Len(entries)
         /\ \A j \in 1 .. Len(entries) : entries'[j] = IF j = i THEN r ELSE entries[j]
<1>1. entries \in Seq(EntryRecord)
  BY DEF RunTypeOK
<1>2. entries' \in Seq(EntryRecord) /\ Len(entries') = Len(entries)
  BY <1>1, ExceptSeq
<1>. QED  BY <1>1, <1>2

LEMMA CurrentIsThere ==
  ASSUME RunTypeOK
  PROVE  /\ Cur \in 1 .. Len(entries) /\ Cur \in Nat /\ Current \in EntryRecord
         /\ Current.cancel \in 1 .. Len(launches) /\ Len(launches) \in Nat
<1>1. entries \in Seq(EntryRecord) /\ entries # <<>>
  BY DEF RunTypeOK
<1>2. Cur \in 1 .. Len(entries) /\ Cur \in Nat
  BY <1>1 DEF Cur
<1>. QED  BY <1>1, <1>2 DEF Current, Cur, RunTypeOK

\* Every launch but l stays as it is.
LEMMA LaunchEnded ==
  ASSUME RunTypeOK, NEW l \in 0 .. Len(launches), Cancel(l)
  PROVE  /\ launches' \in Seq(BOOLEAN) /\ Len(launches') = Len(launches)
         /\ ~ Lives(l)' /\ \A k : Lives(k)' => Lives(k)
<1>1. launches \in Seq(BOOLEAN)
  BY DEF RunTypeOK
<1>2. CASE l = 0
  BY <1>1, <1>2 DEF Cancel, Lives
<1>3. CASE l # 0
  <2>1. l \in 1 .. Len(launches) /\ launches' = [launches EXCEPT ![l] = FALSE]
    BY <1>1, <1>3 DEF Cancel
  <2>2. launches' \in Seq(BOOLEAN) /\ Len(launches') = Len(launches)
    BY <1>1, <2>1, ExceptSeq
  <2>3. /\ launches'[l] = FALSE
        /\ \A k \in 1 .. Len(launches) : k # l => launches'[k] = launches[k]
    BY <1>1, <2>1
  <2>. QED  BY <2>2, <2>3 DEF Lives
<1>. QED  BY <1>2, <1>3

LEMMA LaunchAdded ==
  ASSUME RunTypeOK, launches' = Append(launches, TRUE)
  PROVE  /\ launches' \in Seq(BOOLEAN) /\ Len(launches') = Len(launches) + 1
         /\ \A k : Lives(k)' <=> Lives(k) \/ k = Len(launches) + 1
<1>1. launches \in Seq(BOOLEAN) /\ Len(launches) \in Nat
  BY DEF RunTypeOK
<1>2. /\ launches' \in Seq(BOOLEAN) /\ Len(launches') = Len(launches) + 1
      /\ launches'[Len(launches) + 1] = TRUE
      /\ \A k \in 1 .. Len(launches) : launches'[k] = launches[k]
  BY <1>1, AppendProperties
<1>3. ASSUME NEW k PROVE Lives(k)' <=> Lives(k) \/ k = Len(launches) + 1
  <2>1. CASE k \in 1 .. Len(launches)
    BY <1>1, <1>2, <2>1 DEF Lives
  <2>2. CASE k = Len(launches) + 1
    BY <1>1, <1>2, <2>2 DEF Lives
  <2>3. CASE k \notin 1 .. Len(launches) + 1
    BY <1>1, <1>2, <2>3 DEF Lives
  <2>. QED  BY <1>1, <2>1, <2>2, <2>3
<1>. QED  BY <1>2, <1>3

\* A step that only takes calls further, marks entries and ends launches.
LEMMA UncrossedKept ==
  ASSUME RunTypeOK, Uncrossed, ~ Crossing', ~ Doubled',
         Len(entries') = Len(entries),
         \A j \in 1 .. Len(entries) : entries'[j].cancel = entries[j].cancel,
         \A k : Lives(k)' => Lives(k),
         \A d \in Calls : \/ call'[d] = call[d]
                          \/ /\ CallPlace(d, call[d])'
                             /\ \A l : Ends(call[d], l) => ~ Lives(l)',
         \/ intended' = intended
         \/ \E c \in Operators : call'[c] # call[c] /\ call'[c] # Idle,
         Current.paused' => Current.paused \/ Ending',
         ~ intended' => Current.operatorIntent' /\ (~ intended \/ Ending')
  PROVE  Uncrossed'
<1>1. Cur' = Cur /\ Current'.cancel = Current.cancel /\ Cur \in 1 .. Len(entries)
  BY CurrentIsThere DEF Cur, Current
<1>2. \A d \in Calls : call[d].pc = "quiesce" => call[d].entry \in 1 .. Len(entries)
  BY DEF RunTypeOK, CallOK
<1>3. Ending => Ending'
  <2>. SUFFICES ASSUME Ending PROVE Ending'
    OBVIOUS
  <2>1. CASE ~ Lives(Current.cancel)
    BY <1>1, <2>1 DEF Ending
  <2>2. ASSUME NEW d \in Operators, call[d].pc = "quiesce", call[d].cancel = Current.cancel
        PROVE  Ending'
    <3>1. d \in Calls
      BY DEF Calls
    <3>2. CASE call'[d] = call[d]
      BY <1>1, <2>2, <3>2 DEF Ending
    <3>3. CASE call'[d] # call[d]
      <4>1. Ends(call[d], Current.cancel)
        BY <2>2 DEF Ends
      <4>2. PICK l : l = Current.cancel
        OBVIOUS
      <4>3. ~ Lives(l)'
        BY <3>1, <3>3, <4>1, <4>2
      <4>. QED  BY <1>1, <4>2, <4>3 DEF Ending
    <3>. QED  BY <3>2, <3>3
  <2>. QED  BY <2>1, <2>2 DEF Ending
<1>4. ASSUME NEW d \in Calls PROVE CallPlace(d, call[d])'
  <2>1. CASE call'[d] # call[d]
    BY <2>1
  <2>2. CASE call'[d] = call[d]
    <3>1. PICK r : r = call[d]
      OBVIOUS
    <3>2. CallPlace(d, r)
      BY <3>1 DEF Uncrossed
    <3>3. r.pc = "quiesce" => entries'[r.entry].cancel = entries[r.entry].cancel
      BY <1>2, <3>1
    <3>4. d \in Operators /\ r.kind = "restart" => intended'
      <4>. SUFFICES ASSUME d \in Operators, r.kind = "restart", ~ intended' PROVE FALSE
        OBVIOUS
      <4>1. intended
        BY <3>2 DEF CallPlace
      <4>2. PICK c \in Operators : call'[c] # call[c] /\ call'[c] # Idle
        BY <4>1
      <4>3. c # d /\ c \in Calls
        BY <2>2, <4>2 DEF Calls
      <4>. QED  BY <2>2, <3>1, <4>2, <4>3 DEF Crossing
    <3>5. PICK l : l = Current.cancel
      OBVIOUS
    <3>6. Current'.cancel = l /\ (Lives(l)' => Lives(l))
      BY <1>1, <3>5
    <3>7. CallPlace(d, r)'
      BY <1>1, <3>2, <3>3, <3>4, <3>5, <3>6 DEF CallPlace
    <3>. QED  BY <2>2, <3>1, <3>7
  <2>. QED  BY <2>1, <2>2
<1>5. ASSUME NEW l, Lives(l)' PROVE l = Current'.cancel \/ \E c \in Calls : Ends(call[c], l)'
  <2>1. l = Current.cancel \/ \E c \in Calls : Ends(call[c], l)
    BY <1>5 DEF Uncrossed
  <2>2. ASSUME NEW c \in Calls, Ends(call[c], l) PROVE Ends(call[c], l)'
    <3>1. call'[c] = call[c]
      BY <1>5, <2>2
    <3>. QED  BY <1>2, <2>2, <3>1 DEF Ends
  <2>. QED  BY <1>1, <2>1, <2>2
<1>6. Current'.paused => Ending'
  BY <1>3 DEF Uncrossed
<1>7. ~ intended' => Current'.operatorIntent /\ Ending'
  BY <1>3 DEF Uncrossed
<1>. QED  BY <1>4, <1>5, <1>6, <1>7 DEF Uncrossed

\* What an entry's marking keeps.
EntriesKept ==
  /\ entries' \in Seq(EntryRecord) /\ entries' # <<>> /\ Len(entries') = Len(entries)
  /\ \A j \in 1 .. Len(entries) : entries'[j].cancel = entries[j].cancel

LEMMA EntryMarked ==
  ASSUME RunTypeOK, NEW i \in 1 .. Len(entries), NEW r \in EntryRecord,
         r.cancel = entries[i].cancel, entries' = [entries EXCEPT ![i] = r]
  PROVE  EntriesKept /\ \A j \in 1 .. Len(entries) : entries'[j] = IF j = i THEN r ELSE entries[j]
<1>1. /\ entries' \in Seq(EntryRecord) /\ entries' # <<>> /\ Len(entries') = Len(entries)
      /\ \A j \in 1 .. Len(entries) : entries'[j] = IF j = i THEN r ELSE entries[j]
  BY EntrySet
<1>2. \A j \in 1 .. Len(entries) : entries'[j].cancel = entries[j].cancel
  BY <1>1
<1>. QED  BY <1>1, <1>2 DEF EntriesKept

LEMMA CurrentMarked ==
  ASSUME RunTypeOK, NEW r \in EntryRecord, r.cancel = Current.cancel,
         entries' = [entries EXCEPT ![Cur] = r]
  PROVE  EntriesKept /\ Cur' = Cur /\ Current' = r
<1>1. PICK i : i = Cur
  OBVIOUS
<1>2. i \in 1 .. Len(entries) /\ r.cancel = entries[i].cancel /\ entries' = [entries EXCEPT ![i] = r]
  BY <1>1, CurrentIsThere DEF Current
<1>3. EntriesKept /\ entries'[i] = r
  BY <1>2, EntryMarked
<1>4. Cur' = Cur
  BY <1>3 DEF Cur, EntriesKept
<1>. QED  BY <1>1, <1>3, <1>4 DEF Current

LEMMA EntriesStay == RunTypeOK /\ entries' = entries => EntriesKept
BY DEF RunTypeOK, EntriesKept

LEMMA CallsTyped ==
  ASSUME RunTypeOK, Len(entries') >= Len(entries), Len(entries') \in Nat,
         \/ call' = call
         \/ \E c \in Calls : \E r : CallOK(c, r)' /\ call' = [call EXCEPT ![c] = r]
  PROVE  DOMAIN call' = Calls /\ \A c \in Calls : CallOK(c, call[c])'
<1>1. ASSUME NEW c \in Calls PROVE CallOK(c, call[c]) /\ \A r : CallOK(c, r) => CallOK(c, r)'
  <2>1. Len(entries) \in Nat
    BY DEF RunTypeOK
  <2>2. ASSUME NEW r, CallOK(c, r) PROVE CallOK(c, r)'
    BY <2>1, <2>2 DEF CallOK
  <2>. QED  BY <2>2 DEF RunTypeOK
<1>2. CASE call' = call
  BY <1>1, <1>2 DEF RunTypeOK
<1>3. ASSUME NEW d \in Calls, NEW r, CallOK(d, r)', call' = [call EXCEPT ![d] = r]
      PROVE  DOMAIN call' = Calls /\ \A c \in Calls : CallOK(c, call[c])'
  <2>1. DOMAIN call = Calls
    BY DEF RunTypeOK
  <2>2. ASSUME NEW c \in Calls PROVE CallOK(c, call[c])'
    <3>1. CASE c = d
      <4>1. call'[c] = r
        BY <1>3, <2>1, <3>1
      <4>. QED  BY <1>3, <3>1, <4>1
    <3>2. CASE c # d
      <4>1. call'[c] = call[c]
        BY <1>3, <2>1, <3>2
      <4>. QED  BY <1>1, <4>1
    <3>. QED  BY <3>1, <3>2
  <2>. QED  BY <1>3, <2>1, <2>2
<1>. QED  BY <1>2, <1>3

LEMMA RunTyped ==
  ASSUME RunTypeOK, EntriesKept, launches' \in Seq(BOOLEAN), Len(launches') = Len(launches),
         \/ call' = call
         \/ \E c \in Calls : \E r : CallOK(c, r)' /\ call' = [call EXCEPT ![c] = r]
  PROVE  RunTypeOK'
<1>1. Len(entries') = Len(entries) /\ Len(entries) \in Nat
  BY DEF RunTypeOK, EntriesKept
<1>2. DOMAIN call' = Calls /\ \A c \in Calls : CallOK(c, call[c])'
  BY <1>1, CallsTyped
<1>3. \A i \in 1 .. Len(entries') : entries'[i].cancel \in 1 .. Len(launches')
  BY <1>1 DEF RunTypeOK, EntriesKept
<1>. QED  BY <1>2, <1>3 DEF RunTypeOK, EntriesKept

\* A step of the environment or of the runtime's stop marks an entry at most.
LEMMA CallsStay ==
  ASSUME RunTypeOK, EntriesKept, UNCHANGED <<launches, call, intended>>,
         Current.paused' => Current.paused,
         Current.operatorIntent => Current.operatorIntent'
  PROVE  RunTypeOK' /\ (Uncrossed /\ ~ Crossing' /\ ~ Doubled' => Uncrossed')
<1>1. RunTypeOK'
  BY RunTyped DEF RunTypeOK
<1>2. \A k : Lives(k)' => Lives(k)
  BY DEF Lives
<1>3. ~ intended' /\ Uncrossed => Current.operatorIntent' /\ ~ intended
  BY DEF Uncrossed
<1>. QED  BY <1>1, <1>2, <1>3, UncrossedKept DEF EntriesKept

LEMMA DieKeeps ==
  ASSUME RunTypeOK, Die
  PROVE  RunTypeOK' /\ (Uncrossed /\ ~ Crossing' /\ ~ Doubled' => Uncrossed')
<1>1. PICK r : r = [Current EXCEPT !.healthy = FALSE]
  OBVIOUS
<1>2. /\ r \in EntryRecord /\ r.cancel = Current.cancel
      /\ r.paused = Current.paused /\ r.operatorIntent = Current.operatorIntent
  BY <1>1, CurrentIsThere DEF EntryRecord
<1>3. entries' = [entries EXCEPT ![Cur] = r]
  BY <1>1, CurrentIsThere DEF Die, Current
<1>4. EntriesKept /\ Cur' = Cur /\ Current' = r
  BY <1>2, <1>3, CurrentMarked
<1>. QED  BY <1>2, <1>4, CallsStay DEF Die

LEMMA MarkKeeps ==
  ASSUME RunTypeOK, StopMark
  PROVE  RunTypeOK' /\ (Uncrossed /\ ~ Crossing' /\ ~ Doubled' => Uncrossed')
<1>1. PICK r : r = [Current EXCEPT !.stopped = TRUE, !.healthy = FALSE]
  OBVIOUS
<1>2. /\ r \in EntryRecord /\ r.cancel = Current.cancel
      /\ r.paused = Current.paused /\ r.operatorIntent = Current.operatorIntent
  BY <1>1, CurrentIsThere DEF EntryRecord
<1>3. entries' = entries \/ entries' = [entries EXCEPT ![Cur] = r]
  BY <1>1, CurrentIsThere DEF StopMark, Current, EntryRecord
<1>4. CASE entries' = [entries EXCEPT ![Cur] = r]
  <2>1. EntriesKept /\ Cur' = Cur /\ Current' = r
    BY <1>2, <1>4, CurrentMarked
  <2>. QED  BY <1>2, <2>1, CallsStay DEF StopMark
<1>5. CASE entries' = entries
  BY <1>5, CallsStay, EntriesStay DEF StopMark, Current, Cur
<1>. QED  BY <1>3, <1>4, <1>5

LEMMA NotifyKeeps ==
  ASSUME RunTypeOK, NotifyAgentDead
  PROVE  RunTypeOK' /\ (Uncrossed /\ ~ Crossing' /\ ~ Doubled' => Uncrossed')
<1>1. CASE UNCHANGED <<entries, call>>
  BY <1>1, CallsStay, EntriesStay DEF NotifyAgentDead, Current, Cur
<1>2. CASE Resurrect
  <2>0. PICK n : n = Current.restarts + 1
    OBVIOUS
  <2>1. PICK r : r = [Current EXCEPT !.restarts = n, !.resurrecting = TRUE]
    OBVIOUS
  <2>2. /\ r \in EntryRecord /\ r.cancel = Current.cancel
        /\ r.paused = Current.paused /\ r.operatorIntent = Current.operatorIntent
    <3>1. n \in Nat
      BY <2>0, CurrentIsThere DEF EntryRecord
    <3>. QED  BY <2>1, <3>1, CurrentIsThere DEF EntryRecord
  <2>3. entries' = [entries EXCEPT ![Cur] = r]
    BY <1>2, <2>0, <2>1, CurrentIsThere DEF Resurrect, Current, EntryRecord
  <2>4. EntriesKept /\ Cur' = Cur /\ Current' = r
    BY <2>2, <2>3, CurrentMarked
  <2>5. PICK q : q = [Idle EXCEPT !.kind = "restore", !.pc = "begin", !.n = 1]
    OBVIOUS
  <2>6. PICK c \in Resurrections : call[c] = Idle /\ call' = [call EXCEPT ![c] = q]
    BY <1>2, <2>5 DEF Resurrect
  <2>7. q.kind = "restore" /\ q.pc = "begin" /\ RestoreCall(q)
    BY <2>5 DEF Idle, RestoreCall, CallRecord
  <2>8. CallOK(c, q)' /\ c \in Calls /\ c \notin Operators
    BY <2>6, <2>7, RuntimeAssumption DEF CallOK, Calls
  <2>9. UNCHANGED <<launches, intended>>
    BY DEF NotifyAgentDead
  <2>10. RunTypeOK'
    BY <2>4, <2>6, <2>8, <2>9, RunTyped DEF RunTypeOK
  <2>11. ASSUME Uncrossed, ~ Crossing', ~ Doubled' PROVE Uncrossed'
    <3>1. \A k : Lives(k)' => Lives(k)
      BY <2>9 DEF Lives
    <3>2. CallPlace(c, q)'
      BY <2>7, <2>8 DEF CallPlace
    <3>3. \A l : ~ Ends(call[c], l)
      BY <2>6 DEF Ends, Idle
    <3>4. \A d \in Calls : call'[d] = IF d = c THEN q ELSE call[d]
      BY <2>6 DEF RunTypeOK
    <3>5. Current.paused' => Current.paused
      BY <2>2, <2>4
    <3>6. ~ intended' => Current.operatorIntent' /\ ~ intended
      BY <2>2, <2>4, <2>9, <2>11 DEF Uncrossed
    <3>7. CallPlace(c, call[c])'
      BY <2>8, <3>2, <3>4
    <3>. QED  BY <2>4, <2>9, <2>11, <3>1, <3>3, <3>4, <3>5, <3>6, <3>7, UncrossedKept DEF EntriesKept
  <2>. QED  BY <2>10, <2>11
<1>. QED  BY <1>1, <1>2 DEF NotifyAgentDead

\* One call goes on as r.
LEMMA CallGoes ==
  ASSUME RunTypeOK, Uncrossed, ~ Crossing', ~ Doubled', EntriesKept,
         \A k : Lives(k)' => Lives(k),
         NEW c \in Calls, NEW r, call' = [call EXCEPT ![c] = r], CallPlace(c, r)',
         \A l : Ends(call[c], l) => ~ Lives(l)',
         intended' = intended \/ (c \in Operators /\ call[c] # r /\ r # Idle),
         Current.paused' => Current.paused \/ Ending',
         ~ intended' => Current.operatorIntent' /\ (~ intended \/ Ending')
  PROVE  Uncrossed'
<1>1. \A d \in Calls : call'[d] = IF d = c THEN r ELSE call[d]
  BY DEF RunTypeOK
<1>2. CallPlace(c, call[c])'
  BY <1>1
<1>3. \A d \in Calls : \/ call'[d] = call[d]
                       \/ /\ CallPlace(d, call[d])'
                          /\ \A l : Ends(call[d], l) => ~ Lives(l)'
  BY <1>1, <1>2
<1>4. \/ intended' = intended
      \/ \E d \in Operators : call'[d] # call[d] /\ call'[d] # Idle
  BY <1>1
<1>. QED  BY <1>3, <1>4, UncrossedKept DEF EntriesKept

LEMMA BeginKeeps ==
  ASSUME RunTypeOK, NEW c \in Resurrections, RestoreBegin(c)
  PROVE  RunTypeOK' /\ (Uncrossed /\ ~ Crossing' /\ ~ Doubled' => Uncrossed')
<1>1. PICK e : e = [Current EXCEPT !.stopped = TRUE]
  OBVIOUS
<1>2. /\ e \in EntryRecord /\ e.cancel = Current.cancel
      /\ e.paused = Current.paused /\ e.operatorIntent = Current.operatorIntent
  BY <1>1, CurrentIsThere DEF EntryRecord
<1>3. entries' = [entries EXCEPT ![Cur] = e]
  BY <1>1, CurrentIsThere DEF RestoreBegin, Current
<1>4. EntriesKept /\ Cur' = Cur /\ Current' = e
  BY <1>2, <1>3, CurrentMarked
<1>5. c \in Calls /\ c \notin Operators /\ DOMAIN call = Calls
  BY RuntimeAssumption DEF Calls, RunTypeOK
<1>6. RestoreCall(call[c]) /\ call[c].pc = "begin"
  BY <1>5 DEF RunTypeOK, CallOK, RestoreBegin, Stands, Idle
<1>7. PICK q : q = [call[c] EXCEPT !.pc = "quiesce", !.entry = Cur]
  OBVIOUS
<1>8. RestoreCall(q) /\ q.pc = "quiesce" /\ q.entry = Cur
  BY <1>6, <1>7, CurrentIsThere DEF RestoreCall, CallRecord
<1>9. call' = [call EXCEPT ![c] = q]
  BY <1>5, <1>6, <1>7 DEF RestoreBegin, RestoreCall, CallRecord
<1>10. CallOK(c, q)'
  BY <1>4, <1>8, CurrentIsThere DEF CallOK, EntriesKept
<1>11. UNCHANGED <<launches, intended>>
  BY DEF RestoreBegin
<1>12. RunTypeOK'
  BY <1>4, <1>5, <1>9, <1>10, <1>11, RunTyped DEF RunTypeOK
<1>13. ASSUME Uncrossed, ~ Crossing', ~ Doubled' PROVE Uncrossed'
  <2>1. \A k : Lives(k)' => Lives(k)
    BY <1>11 DEF Lives
  <2>2. CallPlace(c, q)'
    BY <1>4, <1>5, <1>8 DEF CallPlace
  <2>3. \A l : ~ Ends(call[c], l)
    BY <1>6 DEF Ends
  <2>4. ~ intended' => Current.operatorIntent' /\ ~ intended
    BY <1>2, <1>4, <1>11, <1>13 DEF Uncrossed
  <2>. QED  BY <1>2, <1>4, <1>5, <1>9, <1>11, <1>13, <2>1, <2>2, <2>3, <2>4, CallGoes
<1>. QED  BY <1>12, <1>13

LEMMA RestoreQuiesceKeeps ==
  ASSUME RunTypeOK, NEW c \in Resurrections, RestoreQuiesce(c)
  PROVE  RunTypeOK' /\ (Uncrossed /\ ~ Crossing' /\ ~ Doubled' => Uncrossed')
<1>1. c \in Calls /\ c \notin Operators /\ DOMAIN call = Calls
  BY RuntimeAssumption DEF Calls, RunTypeOK
<1>2. RestoreCall(call[c]) /\ call[c].pc = "quiesce" /\ call[c].entry \in 1 .. Len(entries)
  BY <1>1 DEF RunTypeOK, CallOK, RestoreQuiesce, Stands, Idle
<1>3. PICK i, l : i = call[c].entry /\ l = entries[i].cancel
  OBVIOUS
<1>4. i \in 1 .. Len(entries) /\ entries[i] \in EntryRecord /\ l \in 1 .. Len(launches) /\ l \in 0 .. Len(launches)
  <2>1. i \in 1 .. Len(entries) /\ entries \in Seq(EntryRecord) /\ l \in 1 .. Len(launches)
    BY <1>2, <1>3 DEF RunTypeOK
  <2>2. Len(launches) \in Nat
    BY DEF RunTypeOK
  <2>. QED  BY <2>1, <2>2
<1>5. PICK e : e = [entries[i] EXCEPT !.healthy = FALSE]
  OBVIOUS
<1>6. /\ e \in EntryRecord /\ e.cancel = entries[i].cancel
      /\ e.paused = entries[i].paused /\ e.operatorIntent = entries[i].operatorIntent
  BY <1>4, <1>5 DEF EntryRecord
<1>7. entries' = [entries EXCEPT ![i] = e]
  BY <1>3, <1>4, <1>5 DEF RestoreQuiesce
<1>8. EntriesKept /\ \A j \in 1 .. Len(entries) : entries'[j] = IF j = i THEN e ELSE entries[j]
  BY <1>4, <1>6, <1>7, EntryMarked
<1>9. /\ Cur' = Cur /\ Current'.cancel = Current.cancel
      /\ Current'.paused = Current.paused /\ Current'.operatorIntent = Current.operatorIntent
  BY <1>6, <1>8, CurrentIsThere DEF EntriesKept, Cur, Current
<1>10. /\ launches' \in Seq(BOOLEAN) /\ Len(launches') = Len(launches)
       /\ ~ Lives(l)' /\ \A k : Lives(k)' => Lives(k)
  BY <1>3, <1>4, LaunchEnded DEF RestoreQuiesce
<1>11. PICK q : q = [call[c] EXCEPT !.pc = "recover"]
  OBVIOUS
<1>12. RestoreCall(q) /\ q.pc = "recover" /\ q.entry = i
  BY <1>2, <1>3, <1>11 DEF RestoreCall, CallRecord
<1>13. call' = [call EXCEPT ![c] = q]
  BY <1>1, <1>11 DEF RestoreQuiesce, Moves
<1>14. CallOK(c, q)'
  BY <1>4, <1>8, <1>12 DEF CallOK, EntriesKept
<1>15. RunTypeOK'
  BY <1>1, <1>8, <1>10, <1>13, <1>14, RunTyped
<1>16. ASSUME Uncrossed, ~ Crossing', ~ Doubled' PROVE Uncrossed'
  <2>1. i = Cur /\ l = Current.cancel
    BY <1>1, <1>2, <1>3, <1>16 DEF Uncrossed, CallPlace, Current
  <2>2. CallPlace(c, q)'
    BY <1>1, <1>9, <1>10, <1>12, <2>1 DEF CallPlace
  <2>3. \A k : Ends(call[c], k) => ~ Lives(k)'
    <3>1. ASSUME NEW k, Ends(call[c], k) PROVE ~ Lives(k)'
      <4>1. k = 0 \/ k = l
        BY <1>2, <1>3, <3>1 DEF Ends, RestoreCall
      <4>2. ~ Lives(0)'
        BY <1>10 DEF Lives
      <4>. QED  BY <1>10, <4>1, <4>2
    <3>. QED  BY <3>1
  <2>4. intended' = intended
    BY DEF RestoreQuiesce
  <2>5. ~ intended' => Current.operatorIntent' /\ ~ intended
    BY <1>9, <1>16, <2>4 DEF Uncrossed
  <2>. QED  BY <1>1, <1>8, <1>9, <1>10, <1>13, <1>16, <2>2, <2>3, <2>4, <2>5, CallGoes
<1>. QED  BY <1>15, <1>16

LEMMA RecoverKeeps ==
  ASSUME RunTypeOK, NEW c \in Resurrections, RecoverState(c)
  PROVE  RunTypeOK' /\ (Uncrossed /\ ~ Crossing' /\ ~ Doubled' => Uncrossed')
<1>1. c \in Calls /\ c \notin Operators /\ DOMAIN call = Calls
  BY RuntimeAssumption DEF Calls, RunTypeOK
<1>2. RestoreCall(call[c]) /\ call[c].pc = "recover" /\ call[c].entry \in 1 .. Len(entries)
  BY <1>1 DEF RunTypeOK, CallOK, RecoverState, Stands, Idle
<1>3. UNCHANGED <<entries, launches, intended>>
  BY DEF RecoverState
<1>4. PICK q : /\ call' = [call EXCEPT ![c] = q] /\ RestoreCall(q)
               /\ q.pc \in {"install", "begin", "clear"} /\ q.entry = call[c].entry
  <2>1. PICK n : n = call[c].n + 1
    OBVIOUS
  <2>2. n \in Nat
    BY <1>2, <2>1 DEF RestoreCall, CallRecord
  <2>3. PICK a, b, d : /\ a = [call[c] EXCEPT !.pc = "install"]
                       /\ b = [call[c] EXCEPT !.pc = "begin", !.n = n]
                       /\ d = [call[c] EXCEPT !.pc = "clear"]
    OBVIOUS
  <2>4. /\ RestoreCall(a) /\ a.pc = "install" /\ a.entry = call[c].entry
        /\ RestoreCall(b) /\ b.pc = "begin" /\ b.entry = call[c].entry
        /\ RestoreCall(d) /\ d.pc = "clear" /\ d.entry = call[c].entry
    BY <1>2, <2>2, <2>3 DEF RestoreCall, CallRecord
  <2>5. \/ call' = [call EXCEPT ![c] = a]
        \/ call' = [call EXCEPT ![c] = b]
        \/ call' = [call EXCEPT ![c] = d]
    <3>1. \/ call' = [call EXCEPT ![c].pc = "install"]
          \/ call' = [call EXCEPT ![c].pc = "begin", ![c].n = @ + 1]
          \/ call' = [call EXCEPT ![c].pc = "clear"]
      BY DEF RecoverState, Moves
    <3>2. CASE call' = [call EXCEPT ![c].pc = "begin", ![c].n = @ + 1]
      BY <1>1, <1>2, <2>1, <2>3, <3>2 DEF RestoreCall, CallRecord
    <3>. QED  BY <1>1, <2>3, <3>1, <3>2
  <2>. QED  BY <2>4, <2>5
<1>5. EntriesKept /\ Cur' = Cur /\ Current' = Current
  BY <1>3, EntriesStay DEF Cur, Current
<1>6. CallOK(c, q)'
  BY <1>1, <1>2, <1>3, <1>4 DEF CallOK
<1>7. RunTypeOK'
  BY <1>1, <1>3, <1>4, <1>5, <1>6, RunTyped DEF RunTypeOK
<1>8. ASSUME Uncrossed, ~ Crossing', ~ Doubled' PROVE Uncrossed'
  <2>1. \A k : Lives(k)' <=> Lives(k)
    BY <1>3 DEF Lives
  <2>2. call[c].entry = Cur /\ ~ Lives(Current.cancel)
    BY <1>1, <1>2, <1>8 DEF Uncrossed, CallPlace
  <2>3. CallPlace(c, q)'
    BY <1>1, <1>4, <1>5, <2>1, <2>2 DEF CallPlace
  <2>4. \A l : ~ Ends(call[c], l)
    BY <1>2 DEF Ends
  <2>5. ~ intended' => Current.operatorIntent' /\ ~ intended
    BY <1>3, <1>5, <1>8 DEF Uncrossed
  <2>. QED  BY <1>1, <1>3, <1>4, <1>5, <1>8, <2>1, <2>3, <2>4, <2>5, CallGoes
<1>. QED  BY <1>7, <1>8

\* A call ends, with a mark on an entry that says nothing of the operator.
LEMMA CallEnds ==
  ASSUME RunTypeOK, NEW c \in Calls, call' = [call EXCEPT ![c] = Idle],
         NEW i \in 1 .. Len(entries), NEW e \in EntryRecord, entries' = [entries EXCEPT ![i] = e],
         e.cancel = entries[i].cancel, e.paused = entries[i].paused,
         e.operatorIntent = entries[i].operatorIntent,
         launches' \in Seq(BOOLEAN), Len(launches') = Len(launches),
         \A k : Lives(k)' => Lives(k), Uncrossed => \A l : Ends(call[c], l) => ~ Lives(l)',
         intended' = intended
  PROVE  RunTypeOK' /\ (Uncrossed /\ ~ Crossing' /\ ~ Doubled' => Uncrossed')
<1>1. EntriesKept /\ \A j \in 1 .. Len(entries) : entries'[j] = IF j = i THEN e ELSE entries[j]
  BY EntryMarked
<1>2. /\ Cur' = Cur /\ Current'.cancel = Current.cancel
      /\ Current'.paused = Current.paused /\ Current'.operatorIntent = Current.operatorIntent
  BY <1>1, CurrentIsThere DEF EntriesKept, Cur, Current
<1>3. CallOK(c, Idle)' /\ CallPlace(c, Idle)'
  BY DEF CallOK, CallPlace, Idle
<1>4. RunTypeOK'
  BY <1>1, <1>3, RunTyped
<1>5. ASSUME Uncrossed, ~ Crossing', ~ Doubled' PROVE Uncrossed'
  <2>1. ~ intended' => Current.operatorIntent' /\ ~ intended
    BY <1>2, <1>5 DEF Uncrossed
  <2>. QED  BY <1>1, <1>2, <1>3, <1>5, <2>1, CallGoes
<1>. QED  BY <1>4, <1>5

LEMMA EndKeeps ==
  ASSUME RunTypeOK, NEW c \in Resurrections, RestoreEnd(c)
  PROVE  RunTypeOK' /\ (Uncrossed /\ ~ Crossing' /\ ~ Doubled' => Uncrossed')
<1>1. c \in Calls /\ call[c].pc = "clear"
  BY DEF Calls, RestoreEnd, Stands
<1>2. PICK i, e : i = Cur /\ e = [entries[i] EXCEPT !.resurrecting = FALSE]
  OBVIOUS
<1>3. i \in 1 .. Len(entries) /\ entries[i] \in EntryRecord
  BY <1>2, CurrentIsThere DEF Current
<1>4. /\ e \in EntryRecord /\ e.cancel = entries[i].cancel
      /\ e.paused = entries[i].paused /\ e.operatorIntent = entries[i].operatorIntent
  BY <1>2, <1>3 DEF EntryRecord
<1>5. entries' = [entries EXCEPT ![i] = e] /\ call' = [call EXCEPT ![c] = Idle]
      /\ UNCHANGED <<launches, intended>>
  BY <1>2, <1>3 DEF RestoreEnd
<1>6. /\ launches' \in Seq(BOOLEAN) /\ Len(launches') = Len(launches)
      /\ \A k : Lives(k)' => Lives(k)
  BY <1>5 DEF RunTypeOK, Lives
<1>7. \A l : ~ Ends(call[c], l)
  BY <1>1 DEF Ends
<1>. QED  BY <1>1, <1>3, <1>4, <1>5, <1>6, <1>7, CallEnds

LEMMA ResumeLaunchKeeps ==
  ASSUME RunTypeOK, NEW c \in Operators, ResumeLaunch(c)
  PROVE  RunTypeOK' /\ (Uncrossed /\ ~ Crossing' /\ ~ Doubled' => Uncrossed')
<1>1. c \in Calls /\ call[c].pc = "launch"
  BY DEF Calls, ResumeLaunch, Stands
<1>2. PICK i : i = call[c].entry
  OBVIOUS
<1>3. i \in 1 .. Len(entries) /\ entries[i] \in EntryRecord
  <2>1. i \in 1 .. Len(entries) /\ entries \in Seq(EntryRecord)
    BY <1>1, <1>2 DEF RunTypeOK, CallOK
  <2>. QED  BY <2>1
<1>4. PICK b : b = (entries[i].healthy \/ Running(call[c].cancel))
  OBVIOUS
<1>5. b \in BOOLEAN
  BY <1>4
<1>6. PICK e : e = [entries[i] EXCEPT !.healthy = b]
  OBVIOUS
<1>7. /\ e \in EntryRecord /\ e.cancel = entries[i].cancel
      /\ e.paused = entries[i].paused /\ e.operatorIntent = entries[i].operatorIntent
  BY <1>3, <1>5, <1>6 DEF EntryRecord
<1>8. call' = [call EXCEPT ![c] = Idle] /\ UNCHANGED <<launches, intended>>
  BY DEF ResumeLaunch
<1>9. entries' = [entries EXCEPT ![i] = e]
  BY <1>2, <1>3, <1>4, <1>6 DEF ResumeLaunch, EntryRecord
<1>10. /\ launches' \in Seq(BOOLEAN) /\ Len(launches') = Len(launches)
       /\ \A k : Lives(k)' => Lives(k)
  BY <1>8 DEF RunTypeOK, Lives
<1>11. \A l : ~ Ends(call[c], l)
  BY <1>1 DEF Ends
<1>. QED  BY <1>1, <1>3, <1>7, <1>8, <1>9, <1>10, <1>11, CallEnds

LEMMA QuiesceKeeps ==
  ASSUME RunTypeOK, NEW c \in Operators, Quiesce(c)
  PROVE  RunTypeOK' /\ (Uncrossed /\ ~ Crossing' /\ ~ Doubled' => Uncrossed')
<1>1. c \in Calls /\ c \notin Resurrections /\ DOMAIN call = Calls
  BY RuntimeAssumption DEF Calls, RunTypeOK
<1>2. /\ OperatorCall(call[c]) /\ call[c].pc = "quiesce" /\ call[c].entry \in 1 .. Len(entries)
      /\ call[c].kind \in {"stop", "pause", "restart"}
  BY <1>1 DEF RunTypeOK, CallOK, OperatorCall, Quiesce, Idle
<1>3. PICK i, l : i = call[c].entry /\ l = call[c].cancel
  OBVIOUS
<1>4. i \in 1 .. Len(entries) /\ entries[i] \in EntryRecord
  <2>1. i \in 1 .. Len(entries) /\ entries \in Seq(EntryRecord)
    BY <1>2, <1>3 DEF RunTypeOK
  <2>. QED  BY <2>1
<1>5. PICK e : e = [entries[i] EXCEPT !.healthy = FALSE]
  OBVIOUS
<1>6. /\ e \in EntryRecord /\ e.cancel = entries[i].cancel
      /\ e.paused = entries[i].paused /\ e.operatorIntent = entries[i].operatorIntent
  BY <1>4, <1>5 DEF EntryRecord
<1>7. entries' = [entries EXCEPT ![i] = e]
  BY <1>3, <1>4, <1>5 DEF Quiesce
<1>8. /\ launches' \in Seq(BOOLEAN) /\ Len(launches') = Len(launches)
      /\ ~ Lives(l)' /\ \A k : Lives(k)' => Lives(k)
  <2>1. launches \in Seq(BOOLEAN) /\ Len(launches) \in Nat /\ l \in Nat
    BY <1>2, <1>3 DEF RunTypeOK, OperatorCall, CallRecord
  <2>2. CASE l \in 0 .. Len(launches)
    BY <1>3, <2>2, LaunchEnded DEF Quiesce
  <2>3. CASE l \notin 0 .. Len(launches)
    <3>1. launches' = [launches EXCEPT ![l] = FALSE]
      BY <1>3, <2>1, <2>3 DEF Quiesce, Cancel
    <3>2. DOMAIN launches = 1 .. Len(launches)
      BY <2>1
    <3>3. launches' = launches
      BY <2>1, <2>3, <3>1, <3>2
    <3>. QED  BY <2>1, <2>3, <3>3 DEF Lives
  <2>. QED  BY <2>2, <2>3
<1>9. intended' = intended
  BY DEF Quiesce
<1>10. ASSUME Uncrossed, NEW k, Ends(call[c], k) PROVE ~ Lives(k)'
  <2>1. entries[call[c].entry].cancel = call[c].cancel
    BY <1>1, <1>2, <1>10 DEF Uncrossed, CallPlace
  <2>. QED  BY <1>3, <1>8, <1>10, <2>1 DEF Ends
<1>11. CASE call[c].kind # "restart"
  <2>1. call' = [call EXCEPT ![c] = Idle]
    BY <1>1, <1>11 DEF Quiesce
  <2>. QED  BY <1>1, <1>4, <1>6, <1>7, <1>8, <1>9, <1>10, <2>1, CallEnds
<1>12. CASE call[c].kind = "restart"
  <2>1. PICK q : q = [call[c] EXCEPT !.pc = "install"]
    OBVIOUS
  <2>2. /\ OperatorCall(q) /\ q.kind = "restart" /\ q.pc = "install" /\ q # Idle
        /\ q.entry = i /\ q.cancel = l
    BY <1>2, <1>3, <1>12, <2>1 DEF OperatorCall, CallRecord, Idle
  <2>3. call' = [call EXCEPT ![c] = q]
    BY <1>1, <1>12, <2>1 DEF Quiesce
  <2>4. EntriesKept /\ \A j \in 1 .. Len(entries) : entries'[j] = IF j = i THEN e ELSE entries[j]
    BY <1>4, <1>6, <1>7, EntryMarked
  <2>5. /\ Cur' = Cur /\ Current'.cancel = Current.cancel
        /\ Current'.paused = Current.paused /\ Current'.operatorIntent = Current.operatorIntent
    BY <1>6, <2>4, CurrentIsThere DEF EntriesKept, Cur, Current
  <2>6. CallOK(c, q)'
    BY <1>4, <2>2, <2>4 DEF CallOK, EntriesKept
  <2>7. RunTypeOK'
    BY <1>1, <1>8, <2>3, <2>4, <2>6, RunTyped
  <2>8. ASSUME Uncrossed, ~ Crossing', ~ Doubled' PROVE Uncrossed'
    <3>1. i = Cur /\ l = Current.cancel /\ intended
      BY <1>1, <1>3, <1>12, <2>8 DEF Uncrossed, CallPlace
    <3>2. CallPlace(c, q)'
      BY <1>1, <1>8, <1>9, <2>2, <2>5, <3>1 DEF CallPlace
    <3>. QED  BY <1>1, <1>8, <1>9, <1>10, <2>3, <2>4, <2>5, <2>8, <3>1, <3>2, CallGoes
  <2>. QED  BY <2>7, <2>8
<1>. QED  BY <1>11, <1>12

\* An operator's call takes the current entry, which it marks as e.
LEMMA OperatorTakes ==
  ASSUME RunTypeOK, NEW c \in Operators, NEW kind \in {"stop", "pause", "restart"}, NEW e \in EntryRecord,
         call[c] = Idle, Taken(c, kind), entries' = [entries EXCEPT ![Cur] = e],
         e.cancel = Current.cancel, e.paused => Current.paused \/ kind = "pause",
         Current.operatorIntent => e.operatorIntent, launches' = launches,
         intended' <=> kind = "restart", kind # "restart" => e.operatorIntent
  PROVE  RunTypeOK' /\ (Uncrossed /\ ~ Crossing' /\ ~ Doubled' => Uncrossed')
<1>1. c \in Calls /\ c \notin Resurrections /\ DOMAIN call = Calls
  BY RuntimeAssumption DEF Calls, RunTypeOK
<1>2. PICK n, m : n = Current.restarts /\ m = Current.cancel
  OBVIOUS
<1>3. n \in Nat /\ m \in Nat /\ Cur \in Nat
  BY <1>2, CurrentIsThere DEF EntryRecord
<1>4. PICK q : q = [kind |-> kind, pc |-> "quiesce", entry |-> Cur, cancel |-> m, n |-> n]
  OBVIOUS
<1>5. /\ OperatorCall(q) /\ q.kind = kind /\ q.pc = "quiesce" /\ q # Idle
      /\ q.entry = Cur /\ q.cancel = m
  BY <1>3, <1>4 DEF OperatorCall, CallRecord, Idle
<1>6. call' = [call EXCEPT ![c] = q]
  BY <1>2, <1>4 DEF Taken
<1>7. EntriesKept /\ Cur' = Cur /\ Current' = e
  BY CurrentMarked
<1>8. CallOK(c, q)'
  BY <1>5, <1>7, CurrentIsThere DEF CallOK, EntriesKept
<1>9. /\ launches' \in Seq(BOOLEAN) /\ Len(launches') = Len(launches)
      /\ \A k : Lives(k)' => Lives(k)
  BY DEF RunTypeOK, Lives
<1>10. RunTypeOK'
  BY <1>1, <1>6, <1>7, <1>8, <1>9, RunTyped
<1>11. ASSUME Uncrossed, ~ Crossing', ~ Doubled' PROVE Uncrossed'
  <2>1. entries'[Cur].cancel = m
    BY <1>2, <1>7 DEF Current
  <2>2. CallPlace(c, q)'
    BY <1>1, <1>2, <1>5, <1>7, <2>1 DEF CallPlace
  <2>3. \A l : ~ Ends(call[c], l)
    BY DEF Ends, Idle
  <2>4. call'[c] = q
    BY <1>1, <1>6
  <2>5. Ending'
    BY <1>2, <1>5, <1>7, <2>4 DEF Ending
  <2>6. ~ intended' => Current.operatorIntent' /\ (~ intended \/ Ending')
    BY <1>7, <2>5
  <2>7. c \in Operators /\ call[c] # q /\ q # Idle
    BY <1>5
  <2>. QED  BY <1>1, <1>6, <1>7, <1>9, <1>11, <2>2, <2>3, <2>5, <2>6, <2>7, CallGoes
<1>. QED  BY <1>10, <1>11

LEMMA StopAgentKeeps ==
  ASSUME RunTypeOK, NEW c \in Operators, StopAgent(c)
  PROVE  RunTypeOK' /\ (Uncrossed /\ ~ Crossing' /\ ~ Doubled' => Uncrossed')
<1>1. PICK e : e = [Current EXCEPT !.stopped = TRUE, !.operatorIntent = TRUE]
  OBVIOUS
<1>2. /\ e \in EntryRecord /\ e.cancel = Current.cancel
      /\ e.paused = Current.paused /\ e.operatorIntent
  BY <1>1, CurrentIsThere DEF EntryRecord
<1>3. entries' = [entries EXCEPT ![Cur] = e]
  BY <1>1, CurrentIsThere DEF StopAgent, Current, EntryRecord
<1>. QED  BY <1>2, <1>3, OperatorTakes DEF StopAgent, Command

LEMMA PauseAgentKeeps ==
  ASSUME RunTypeOK, NEW c \in Operators, PauseAgent(c)
  PROVE  RunTypeOK' /\ (Uncrossed /\ ~ Crossing' /\ ~ Doubled' => Uncrossed')
<1>1. PICK e : e = [Current EXCEPT !.paused = TRUE, !.operatorIntent = TRUE]
  OBVIOUS
<1>2. e \in EntryRecord /\ e.cancel = Current.cancel /\ e.operatorIntent
  BY <1>1, CurrentIsThere DEF EntryRecord
<1>3. entries' = [entries EXCEPT ![Cur] = e]
  BY <1>1, CurrentIsThere DEF PauseAgent, Current, EntryRecord
<1>. QED  BY <1>2, <1>3, OperatorTakes DEF PauseAgent, Command

LEMMA RestartAgentKeeps ==
  ASSUME RunTypeOK, NEW c \in Operators, RestartAgent(c)
  PROVE  RunTypeOK' /\ (Uncrossed /\ ~ Crossing' /\ ~ Doubled' => Uncrossed')
<1>1. PICK e : e = [Current EXCEPT !.stopped = TRUE]
  OBVIOUS
<1>2. /\ e \in EntryRecord /\ e.cancel = Current.cancel
      /\ e.paused = Current.paused /\ e.operatorIntent = Current.operatorIntent
  BY <1>1, CurrentIsThere DEF EntryRecord
<1>3. entries' = [entries EXCEPT ![Cur] = e]
  BY <1>1, CurrentIsThere DEF RestartAgent, Current
<1>. QED  BY <1>2, <1>3, OperatorTakes DEF RestartAgent, Command

LEMMA AgentInstalled ==
  ASSUME RunTypeOK, NEW n \in Nat, InstallAgent(n)
  PROVE  /\ entries' \in Seq(EntryRecord) /\ entries' # <<>> /\ Len(entries') = Len(entries) + 1
         /\ \A j \in 1 .. Len(entries) : entries'[j] = entries[j]
         /\ Current' \in EntryRecord /\ Current'.cancel = Len(launches) + 1 /\ ~ Current'.paused
         /\ launches' \in Seq(BOOLEAN) /\ Len(launches') = Len(launches) + 1
         /\ \A k : Lives(k)' <=> Lives(k) \/ k = Len(launches) + 1
<1>1. entries \in Seq(EntryRecord) /\ Len(entries) \in Nat /\ Len(launches) \in Nat
  BY DEF RunTypeOK
<1>2. PICK m : m = Len(launches) + 1
  OBVIOUS
<1>3. PICK e : e = NewEntry(n, m)
  OBVIOUS
<1>4. e \in EntryRecord /\ e.cancel = m /\ ~ e.paused
  BY <1>1, <1>2, <1>3 DEF NewEntry, EntryRecord
<1>5. entries' = Append(entries, e) /\ launches' = Append(launches, TRUE)
  BY <1>2, <1>3 DEF InstallAgent
<1>6. /\ entries' \in Seq(EntryRecord) /\ entries' # <<>> /\ Len(entries') = Len(entries) + 1
      /\ \A j \in 1 .. Len(entries) : entries'[j] = entries[j]
      /\ entries'[Len(entries) + 1] = e
  BY <1>1, <1>4, <1>5, AppendProperties
<1>7. Current' = e
  BY <1>6 DEF Current, Cur
<1>. QED  BY <1>2, <1>4, <1>5, <1>6, <1>7, LaunchAdded

LEMMA InstallKeeps ==
  ASSUME RunTypeOK, NEW c \in Calls, NEW r, call' = [call EXCEPT ![c] = r], CallOK(c, r)',
         r.pc \in {"clear", "idle"}, r.kind # "restart", call[c].pc = "install",
         NEW n \in Nat, InstallAgent(n), intended' = intended,
         Uncrossed => /\ intended /\ ~ Lives(Current.cancel)
                      /\ \A d \in Calls \ {c} :
                           /\ d \in Operators => call[d].kind # "restart"
                           /\ d \in Resurrections => call[d].pc \notin {"quiesce", "recover", "install"}
  PROVE  RunTypeOK' /\ (Uncrossed /\ ~ Crossing' /\ ~ Doubled' => Uncrossed')
<1>1. /\ entries' \in Seq(EntryRecord) /\ entries' # <<>> /\ Len(entries') = Len(entries) + 1
      /\ \A j \in 1 .. Len(entries) : entries'[j] = entries[j]
      /\ Current' \in EntryRecord /\ Current'.cancel = Len(launches) + 1 /\ ~ Current'.paused
      /\ launches' \in Seq(BOOLEAN) /\ Len(launches') = Len(launches) + 1
      /\ \A k : Lives(k)' <=> Lives(k) \/ k = Len(launches) + 1
  BY AgentInstalled
<1>2. Len(entries) \in Nat /\ Len(launches) \in Nat
  BY DEF RunTypeOK
<1>3. \A d \in Calls : call'[d] = IF d = c THEN r ELSE call[d]
  BY DEF RunTypeOK
<1>4. RunTypeOK'
  <2>0. Len(entries') >= Len(entries) /\ Len(entries') \in Nat
    BY <1>1, <1>2
  <2>1. DOMAIN call' = Calls /\ \A d \in Calls : CallOK(d, call[d])'
    BY <2>0, CallsTyped
  <2>2. ASSUME NEW j \in 1 .. Len(entries') PROVE entries'[j].cancel \in 1 .. Len(launches')
    <3>1. CASE j \in 1 .. Len(entries)
      BY <1>1, <1>2, <3>1 DEF RunTypeOK
    <3>2. CASE j = Len(entries) + 1
      <4>1. entries'[j] = Current'
        BY <1>1, <3>2 DEF Current, Cur
      <4>. QED  BY <1>1, <1>2, <4>1
    <3>. QED  BY <1>1, <1>2, <3>1, <3>2
  <2>. QED  BY <1>1, <2>1, <2>2 DEF RunTypeOK
<1>5. ASSUME Uncrossed, ~ Crossing', ~ Doubled' PROVE Uncrossed'
  <2>1. ASSUME NEW d \in Calls, d # c, call[d].pc = "quiesce"
        PROVE  entries'[call[d].entry].cancel = entries[call[d].entry].cancel
    <3>1. call[d].entry \in 1 .. Len(entries)
      BY <2>1 DEF RunTypeOK, CallOK
    <3>. QED  BY <1>1, <3>1
  <2>2. ASSUME NEW d \in Calls PROVE CallPlace(d, call[d])'
    <3>1. CASE d = c
      <4>1. CallPlace(c, r)'
        BY DEF CallPlace
      <4>. QED  BY <1>3, <3>1, <4>1
    <3>2. CASE d # c
      <4>1. PICK q : q = call[d]
        OBVIOUS
      <4>2. CallPlace(d, q) /\ call'[d] = q
        BY <1>3, <1>5, <3>2, <4>1 DEF Uncrossed
      <4>3. /\ d \in Operators => q.kind # "restart"
            /\ d \in Resurrections => q.pc \notin {"quiesce", "recover", "install"}
        BY <1>5, <3>2, <4>1
      <4>4. CallPlace(d, q)'
        BY <2>1, <3>2, <4>1, <4>2, <4>3 DEF CallPlace
      <4>. QED  BY <4>2, <4>4
    <3>. QED  BY <3>1, <3>2
  <2>3. ASSUME NEW l, Lives(l)' PROVE l = Current'.cancel \/ \E d \in Calls : Ends(call[d], l)'
    <3>1. CASE Lives(l)
      <4>1. l # Current.cancel
        BY <1>5, <3>1
      <4>2. PICK d \in Calls : Ends(call[d], l)
        BY <1>5, <3>1, <4>1 DEF Uncrossed
      <4>3. d # c
        BY <4>2 DEF Ends
      <4>4. Ends(call[d], l)'
        BY <1>3, <2>1, <4>2, <4>3 DEF Ends
      <4>. QED  BY <4>4
    <3>2. CASE ~ Lives(l)
      BY <1>1, <2>3, <3>2
    <3>. QED  BY <3>1, <3>2
  <2>. QED  BY <1>1, <1>5, <2>2, <2>3 DEF Uncrossed
<1>. QED  BY <1>4, <1>5

LEMMA RestoreInstallKeeps ==
  ASSUME RunTypeOK, NEW c \in Resurrections, RestoreInstall(c)
  PROVE  RunTypeOK' /\ (Uncrossed /\ ~ Crossing' /\ ~ Doubled' => Uncrossed')
<1>1. c \in Calls /\ c \notin Operators /\ DOMAIN call = Calls
  BY RuntimeAssumption DEF Calls, RunTypeOK
<1>2. RestoreCall(call[c]) /\ call[c].pc = "install" /\ call[c].entry \in 1 .. Len(entries)
  BY <1>1 DEF RunTypeOK, CallOK, RestoreInstall, Stands, Idle
<1>3. PICK q : q = [call[c] EXCEPT !.pc = "clear"]
  OBVIOUS
<1>4. RestoreCall(q) /\ q.pc = "clear" /\ q.entry = call[c].entry /\ q.kind # "restart"
  BY <1>2, <1>3 DEF RestoreCall, CallRecord
<1>5. call' = [call EXCEPT ![c] = q] /\ intended' = intended
  BY <1>1, <1>3 DEF RestoreInstall, Moves
<1>6. CASE entries[call[c].entry].operatorIntent
  <2>1. UNCHANGED <<entries, launches>>
    BY <1>6 DEF RestoreInstall
  <2>2. EntriesKept /\ Cur' = Cur /\ Current' = Current
    BY <2>1, EntriesStay DEF Cur, Current
  <2>3. CallOK(c, q)'
    BY <1>1, <1>2, <1>4, <2>1 DEF CallOK
  <2>4. RunTypeOK'
    BY <1>1, <1>5, <2>1, <2>2, <2>3, RunTyped DEF RunTypeOK
  <2>5. ASSUME Uncrossed, ~ Crossing', ~ Doubled' PROVE Uncrossed'
    <3>1. \A k : Lives(k)' => Lives(k)
      BY <2>1 DEF Lives
    <3>2. CallPlace(c, q)'
      BY <1>1, <1>4 DEF CallPlace
    <3>3. \A l : ~ Ends(call[c], l)
      BY <1>2 DEF Ends
    <3>4. ~ intended' => Current.operatorIntent' /\ ~ intended
      BY <1>5, <2>2, <2>5 DEF Uncrossed
    <3>. QED  BY <1>1, <1>5, <2>2, <2>5, <3>1, <3>2, <3>3, <3>4, CallGoes
  <2>. QED  BY <2>4, <2>5
<1>7. CASE ~ entries[call[c].entry].operatorIntent
  <2>1. PICK n : n = entries[call[c].entry].restarts
    OBVIOUS
  <2>2. n \in Nat /\ InstallAgent(n)
    <3>1. entries[call[c].entry] \in EntryRecord
      BY <1>2 DEF RunTypeOK
    <3>. QED  BY <1>7, <2>1, <3>1 DEF RestoreInstall, EntryRecord
  <2>3. CallOK(c, q)'
    <3>1. Len(entries') = Len(entries) + 1 /\ Len(entries) \in Nat
      BY <2>2, AgentInstalled DEF RunTypeOK
    <3>. QED  BY <1>1, <1>2, <1>4, <3>1 DEF CallOK
  <2>4. ASSUME Uncrossed
        PROVE  /\ intended /\ ~ Lives(Current.cancel)
               /\ \A d \in Calls \ {c} :
                    /\ d \in Operators => call[d].kind # "restart"
                    /\ d \in Resurrections => call[d].pc \notin {"quiesce", "recover", "install"}
    <3>1. call[c].entry = Cur /\ ~ Lives(Current.cancel)
      BY <1>1, <1>2, <2>4 DEF Uncrossed, CallPlace
    <3>2. intended
      BY <1>7, <2>4, <3>1 DEF Uncrossed, Current
    <3>3. call[c] # Idle
      BY <1>2 DEF Idle
    <3>4. ASSUME NEW d \in Operators PROVE call[d].kind # "restart"
      BY <1>1, <2>4, <3>3 DEF Uncrossed, Crossing
    <3>5. ASSUME NEW d \in Resurrections, d # c PROVE call[d].pc \notin {"quiesce", "recover", "install"}
      <4>. SUFFICES ASSUME call[d].pc \in {"quiesce", "recover", "install"} PROVE FALSE
        OBVIOUS
      <4>1. {call[c].pc, call[d].pc} \subseteq {"begin", "quiesce", "recover", "install"}
        BY <1>2
      <4>. QED  BY <2>4, <3>5, <4>1 DEF Uncrossed, Doubled
    <3>. QED  BY <3>1, <3>2, <3>4, <3>5
  <2>5. q.pc \in {"clear", "idle"}
    BY <1>4
  <2>. QED  BY <1>1, <1>2, <1>4, <1>5, <2>2, <2>3, <2>4, <2>5, InstallKeeps
<1>. QED  BY <1>6, <1>7

LEMMA RestartInstallKeeps ==
  ASSUME RunTypeOK, NEW c \in Operators, RestartInstall(c)
  PROVE  RunTypeOK' /\ (Uncrossed /\ ~ Crossing' /\ ~ Doubled' => Uncrossed')
<1>1. c \in Calls /\ c \notin Resurrections /\ DOMAIN call = Calls
  BY RuntimeAssumption DEF Calls, RunTypeOK
<1>2. OperatorCall(call[c]) /\ call[c].pc = "install" /\ call[c].kind = "restart"
  BY <1>1 DEF RunTypeOK, CallOK, RestartInstall, Stands, Idle
<1>3. PICK n : n = call[c].n + 1
  OBVIOUS
<1>4. n \in Nat /\ InstallAgent(n)
  BY <1>2, <1>3 DEF RestartInstall, OperatorCall, CallRecord
<1>5. call' = [call EXCEPT ![c] = Idle] /\ intended' = intended
  BY DEF RestartInstall
<1>6. CallOK(c, Idle)' /\ Idle.pc \in {"clear", "idle"} /\ Idle.kind # "restart"
  BY DEF CallOK, Idle
<1>7. ASSUME Uncrossed
      PROVE  /\ intended /\ ~ Lives(Current.cancel)
             /\ \A d \in Calls \ {c} :
                  /\ d \in Operators => call[d].kind # "restart"
                  /\ d \in Resurrections => call[d].pc \notin {"quiesce", "recover", "install"}
  <2>1. intended /\ ~ Lives(Current.cancel)
    BY <1>1, <1>2, <1>7 DEF Uncrossed, CallPlace
  <2>2. \A d \in Calls \ {c} : call[d] = Idle
    BY <1>2, <1>7 DEF Uncrossed, Crossing
  <2>. QED  BY <2>1, <2>2 DEF Idle
<1>. QED  BY <1>1, <1>2, <1>4, <1>5, <1>6, <1>7, InstallKeeps

LEMMA ResumeAgentKeeps ==
  ASSUME RunTypeOK, NEW c \in Operators, ResumeAgent(c)
  PROVE  RunTypeOK' /\ (Uncrossed /\ ~ Crossing' /\ ~ Doubled' => Uncrossed')
<1>1. c \in Calls /\ c \notin Resurrections /\ DOMAIN call = Calls /\ call[c] = Idle
  BY RuntimeAssumption DEF Calls, RunTypeOK, ResumeAgent, Command
<1>2. /\ launches' \in Seq(BOOLEAN) /\ Len(launches') = Len(launches) + 1
      /\ \A k : Lives(k)' <=> Lives(k) \/ k = Len(launches) + 1
  BY LaunchAdded DEF ResumeAgent
<1>3. PICK m : m = Len(launches')
  OBVIOUS
<1>4. m \in Nat /\ m = Len(launches) + 1 /\ Len(launches) \in Nat /\ Len(entries) \in Nat
  BY <1>2, <1>3 DEF RunTypeOK
<1>5. PICK e : e = [Current EXCEPT !.paused = FALSE, !.operatorIntent = FALSE, !.cancel = m]
  OBVIOUS
<1>6. e \in EntryRecord /\ e.cancel = m /\ ~ e.paused
  BY <1>4, <1>5, CurrentIsThere DEF EntryRecord
<1>7. PICK i : i = Cur
  OBVIOUS
<1>8. entries' = [entries EXCEPT ![i] = e] /\ i \in 1 .. Len(entries)
  BY <1>3, <1>5, <1>7, CurrentIsThere DEF ResumeAgent, Current, EntryRecord
<1>9. /\ entries' \in Seq(EntryRecord) /\ entries' # <<>> /\ Len(entries') = Len(entries)
      /\ \A j \in 1 .. Len(entries) : entries'[j] = IF j = i THEN e ELSE entries[j]
  BY <1>6, <1>8, EntrySet
<1>10. Cur' = Cur /\ Current' = e
  BY <1>7, <1>8, <1>9 DEF Cur, Current
<1>11. PICK q : q = [kind |-> "resume", pc |-> "launch", entry |-> Cur, cancel |-> m, n |-> 0]
  OBVIOUS
<1>12. OperatorCall(q) /\ q.pc = "launch" /\ q.kind = "resume" /\ q.entry = Cur
  BY <1>4, <1>11, CurrentIsThere DEF OperatorCall, CallRecord
<1>13. call' = [call EXCEPT ![c] = q] /\ intended'
  BY <1>3, <1>11 DEF ResumeAgent
<1>14. CallOK(c, q)'
  BY <1>9, <1>12, CurrentIsThere DEF CallOK
<1>15. RunTypeOK'
  <2>0. Len(entries') >= Len(entries) /\ Len(entries') \in Nat
    BY <1>4, <1>9
  <2>1. DOMAIN call' = Calls /\ \A d \in Calls : CallOK(d, call[d])'
    BY <1>1, <1>13, <1>14, <2>0, CallsTyped
  <2>2. ASSUME NEW j \in 1 .. Len(entries') PROVE entries'[j].cancel \in 1 .. Len(launches')
    <3>1. j \in 1 .. Len(entries) /\ entries[j].cancel \in 1 .. Len(launches)
      BY <1>9, <2>2 DEF RunTypeOK
    <3>2. entries'[j].cancel \in 1 .. Len(launches) \cup {m}
      BY <1>6, <1>9, <3>1
    <3>. QED  BY <1>2, <1>4, <3>2
  <2>. QED  BY <1>2, <1>9, <2>1, <2>2 DEF RunTypeOK
<1>16. ASSUME Uncrossed, ~ Crossing', ~ Doubled' PROVE Uncrossed'
  <2>1. \A d \in Calls : call'[d] = IF d = c THEN q ELSE call[d]
    BY <1>1, <1>13
  <2>2. ASSUME NEW d \in Calls, d # c PROVE call[d] = Idle
    BY <1>1, <1>12, <1>16, <2>1, <2>2 DEF Crossing
  <2>3. \A d \in Calls : call[d] = Idle
    BY <1>1, <2>2
  <2>4. ASSUME NEW d \in Calls PROVE CallPlace(d, call[d])'
    <3>1. CallPlace(c, q)' /\ CallPlace(d, Idle)'
      BY <1>1, <1>12 DEF CallPlace, Idle
    <3>2. CASE d = c
      BY <2>1, <3>1, <3>2
    <3>3. CASE d # c
      BY <2>1, <2>2, <3>1, <3>3
    <3>. QED  BY <3>2, <3>3
  <2>5. ~ Lives(Current.cancel)
    <3>1. Ending
      BY <1>16 DEF Uncrossed, ResumeAgent
    <3>2. \A d \in Operators : call[d].pc # "quiesce"
      BY <2>3 DEF Calls, Idle
    <3>. QED  BY <3>1, <3>2 DEF Ending
  <2>6. ASSUME NEW l, Lives(l) PROVE FALSE
    <3>1. PICK d \in Calls : Ends(call[d], l)
      BY <1>16, <2>5, <2>6 DEF Uncrossed
    <3>. QED  BY <2>3, <3>1 DEF Ends, Idle
  <2>7. \A l : Lives(l)' => l = Current'.cancel
    BY <1>2, <1>4, <1>6, <1>10, <2>6
  <2>. QED  BY <1>6, <1>10, <1>13, <1>16, <2>4, <2>7 DEF Uncrossed
<1>. QED  BY <1>15, <1>16

LEMMA RunStarts == RuntimeInit => RunInv
<1>. SUFFICES ASSUME RuntimeInit PROVE RunInv
  OBVIOUS
<1>1. PICK e : e = NewEntry(0, 1)
  OBVIOUS
<1>2. e \in EntryRecord /\ e.cancel = 1 /\ ~ e.paused
  BY <1>1 DEF NewEntry, EntryRecord
<1>3. entries = <<e>> /\ launches = <<TRUE>>
  BY <1>1 DEF RuntimeInit
<1>4. Len(entries) = 1 /\ entries[1] = e /\ Len(launches) = 1 /\ launches[1] = TRUE
  BY <1>3
<1>5. Cur = 1 /\ Current = e
  BY <1>4 DEF Cur, Current
<1>6. DOMAIN call = Calls /\ \A c \in Calls : call[c] = Idle
  BY DEF RuntimeInit
<1>7. \A c \in Calls : CallOK(c, call[c]) /\ CallPlace(c, call[c])
  BY <1>6 DEF CallOK, CallPlace, Idle
<1>8. RunTypeOK
  BY <1>2, <1>3, <1>4, <1>6, <1>7 DEF RunTypeOK
<1>9. ~ Crossing /\ ~ Doubled
  <2>1. ~ Crossing
    BY <1>6 DEF Crossing, Calls
  <2>2. ~ Doubled
    BY <1>6 DEF Doubled, Calls, Idle
  <2>. QED  BY <2>1, <2>2
<1>10. \A l : Lives(l) => l = Current.cancel
  BY <1>2, <1>4, <1>5 DEF Lives
<1>. QED  BY <1>2, <1>5, <1>6, <1>7, <1>8, <1>9, <1>10 DEF RunInv, Uncrossed, RuntimeInit

\* Every step but the history's own.
LEMMA StepKeeps ==
  ASSUME RunTypeOK, RuntimeNext
  PROVE  RunTypeOK' /\ (Uncrossed /\ ~ Crossing' /\ ~ Doubled' => Uncrossed')
<1>1. CASE Die
  BY <1>1, DieKeeps
<1>2. CASE healthCheck
  <2>1. UNCHANGED <<entries, launches, call, intended>>
    BY <1>2 DEF healthCheck
  <2>. QED  BY <2>1, CallsStay, EntriesStay DEF Current, Cur
<1>3. CASE NotifyAgentDead
  BY <1>3, NotifyKeeps
<1>4. ASSUME NEW c \in Resurrections, RestoreStep(c)
      PROVE  RunTypeOK' /\ (Uncrossed /\ ~ Crossing' /\ ~ Doubled' => Uncrossed')
  BY <1>4, BeginKeeps, RestoreQuiesceKeeps, RecoverKeeps, RestoreInstallKeeps, EndKeeps DEF RestoreStep
<1>5. ASSUME NEW c \in Operators,
             StopAgent(c) \/ PauseAgent(c) \/ ResumeAgent(c) \/ RestartAgent(c) \/ OperatorStep(c)
      PROVE  RunTypeOK' /\ (Uncrossed /\ ~ Crossing' /\ ~ Doubled' => Uncrossed')
  <2>1. CASE OperatorStep(c)
    BY <2>1, QuiesceKeeps, RestartInstallKeeps, ResumeLaunchKeeps DEF OperatorStep
  <2>. QED  BY <1>5, <2>1, StopAgentKeeps, PauseAgentKeeps, ResumeAgentKeeps, RestartAgentKeeps
<1>6. CASE Stop \/ StopReturn
  <2>1. UNCHANGED <<entries, launches, call, intended>>
    BY <1>6 DEF Stop, StopReturn
  <2>. QED  BY <2>1, CallsStay, EntriesStay DEF Current, Cur
<1>7. CASE StopMark
  BY <1>7, MarkKeeps
<1>. QED  BY <1>1, <1>2, <1>3, <1>4, <1>5, <1>6, <1>7 DEF RuntimeNext

\* Who has stopped schedules no resurrection, and no operator's call is one.
LEMMA NobodyIsLeft ==
  ASSUME RunTypeOK, RuntimeNext,
         stopping = "stopped" => \A c \in Resurrections : call[c] = Idle,
         stopping' = "stopped", NEW c \in Resurrections
  PROVE  call'[c] = Idle
<1>1. CASE Die \/ healthCheck \/ StopReturn
  BY <1>1 DEF Die, healthCheck, StopReturn
<1>2. CASE NotifyAgentDead
  BY <1>2 DEF NotifyAgentDead
<1>3. ASSUME NEW d \in Resurrections, RestoreStep(d) PROVE call'[c] = Idle
  <2>1. call[d].kind = "restore" /\ stopping' = stopping
    BY <1>3 DEF RestoreStep, RestoreBegin, RestoreQuiesce, RecoverState, RestoreInstall, RestoreEnd, Stands
  <2>. QED  BY <2>1 DEF Idle
<1>4. ASSUME NEW d \in Operators,
             StopAgent(d) \/ PauseAgent(d) \/ ResumeAgent(d) \/ RestartAgent(d) \/ OperatorStep(d)
      PROVE  call'[c] = Idle
  <2>1. d # c /\ c \in Calls /\ DOMAIN call = Calls
    BY RuntimeAssumption DEF Calls, RunTypeOK
  <2>2. stopping' = stopping /\ \E r : call' = [call EXCEPT ![d] = r]
    <3>1. CASE StopAgent(d) \/ PauseAgent(d) \/ RestartAgent(d)
      BY <3>1 DEF StopAgent, PauseAgent, RestartAgent, Command, Taken
    <3>2. CASE ResumeAgent(d)
      BY <3>2 DEF ResumeAgent, Command
    <3>3. CASE Quiesce(d)
      BY <3>3 DEF Quiesce
    <3>4. CASE RestartInstall(d) \/ ResumeLaunch(d)
      BY <3>4 DEF RestartInstall, ResumeLaunch
    <3>. QED  BY <1>4, <3>1, <3>2, <3>3, <3>4 DEF OperatorStep
  <2>. QED  BY <2>1, <2>2
<1>5. CASE Stop \/ StopMark
  BY <1>5 DEF Stop, StopMark
<1>. QED  BY <1>1, <1>2, <1>3, <1>4, <1>5 DEF RuntimeNext

LEMMA RunKeeps == RunInv /\ [RuntimeNext]_runtime => RunInv'
<1>. SUFFICES ASSUME RunInv, [RuntimeNext]_runtime PROVE RunInv'
  OBVIOUS
<1>1. CASE RuntimeNext
  <2>1. RunTypeOK' /\ (Uncrossed /\ ~ Crossing' /\ ~ Doubled' => Uncrossed')
    BY <1>1, StepKeeps DEF RunInv
  <2>2. ~ crossed' /\ ~ doubled' => ~ crossed /\ ~ doubled /\ ~ Crossing' /\ ~ Doubled'
    BY <1>1 DEF RuntimeNext
  <2>3. stopping' = "stopped" => \A c \in Resurrections : call'[c] = Idle
    BY <1>1, NobodyIsLeft DEF RunInv
  <2>. QED  BY <2>1, <2>2, <2>3 DEF RunInv
<1>2. CASE UNCHANGED runtime
  BY <1>2 DEF runtime, RunInv, RunTypeOK, Uncrossed, Crossing, Doubled, CallOK, CallPlace, Ending,
              Ends, Lives, Current, Cur
<1>. QED  BY <1>1, <1>2

LEMMA RuntimeInductive == RuntimeSpec => []RunInv
BY RunStarts, RunKeeps, PTL DEF RuntimeSpec

LEMMA NoOrphan == RunInv => NoOrphanRuns
<1>. SUFFICES ASSUME RunInv PROVE NoOrphanRuns
  OBVIOUS
<1>1. ASSUME ~ crossed, ~ doubled, NEW l \in DOMAIN launches, Running(l)
      PROVE  \/ l = Current.cancel
             \/ \E c \in Calls : call[c].pc = "quiesce" /\
                  l \in {call[c].cancel, entries[call[c].entry].cancel}
  <2>1. Lives(l)
    BY <1>1 DEF RunInv, RunTypeOK, Lives, Running
  <2>. QED  BY <1>1, <2>1 DEF RunInv, Uncrossed, Ends
<1>. QED  BY <1>1 DEF NoOrphanRuns, RunInv

LEMMA DecisionStands == RunInv => OperatorDecisionHolds
<1>. SUFFICES ASSUME RunInv, ~ crossed, ~ doubled, ~ intended, Settled,
                     NEW l \in DOMAIN launches, Running(l)
              PROVE  FALSE
  BY DEF OperatorDecisionHolds
<1>1. Lives(l) /\ l # 0
  BY DEF RunInv, RunTypeOK, Lives, Running
<1>2. ~ Lives(Current.cancel)
  <2>1. Ending
    BY DEF RunInv, Uncrossed
  <2>2. \A d \in Operators : call[d].pc # "quiesce"
    BY DEF Settled, Idle
  <2>. QED  BY <2>1, <2>2 DEF Ending
<1>3. PICK c \in Calls : Ends(call[c], l)
  BY <1>1, <1>2 DEF RunInv, Uncrossed
<1>4. c \in Resurrections /\ call[c].pc = "quiesce"
  BY <1>3 DEF Calls, Settled, Idle, Ends
<1>5. RestoreCall(call[c])
  BY <1>3, <1>4, RuntimeAssumption DEF RunInv, RunTypeOK, CallOK, Idle
<1>6. call[c].entry = Cur
  BY <1>3, <1>4 DEF RunInv, Uncrossed, CallPlace
<1>7. l = Current.cancel
  BY <1>1, <1>3, <1>5, <1>6 DEF Ends, RestoreCall, Current
<1>. QED  BY <1>1, <1>2, <1>7

\* Once an operator's stop or pause has returned, nothing runs under the id
\* until the operator says otherwise: RestoreAgent installs no instance over
\* an entry with the operator's intent (manager.go:402-410).
THEOREM DecisionHolds == RuntimeSpec => []OperatorDecisionHolds
BY RuntimeInductive, DecisionStands, PTL

\* A launch that runs is the one the current entry can cancel, or a call is
\* about to cancel it, and nobody is left to launch another when Manager.Stop
\* returns (manager.go:564-569).
THEOREM OrphansNone == RuntimeSpec => []NoOrphanRuns
BY RuntimeInductive, NoOrphan, PTL

-----------------------------------------------------------------------------
(* Conversations.                                                          *)

\* The places of a sequence are ranked from one on, without a gap.
LEMMA RanksAreDense ==
  ASSUME NEW n \in Nat, NEW P \in SUBSET (1 .. n)
  PROVE  /\ IsFiniteSet(P) /\ Cardinality(P) \in Nat
         /\ \A i \in P : Rank(P, i) \in 1 .. Cardinality(P)
         /\ \A i, j \in P : Rank(P, i) = Rank(P, j) => i = j
         /\ \A m \in 1 .. Cardinality(P) : \E i \in P : Rank(P, i) = m
<1>1. IsFiniteSet(P) /\ Cardinality(P) \in Nat
  <2>1. IsFiniteSet(1 .. n)
    BY FS_Interval
  <2>. QED  BY <2>1, FS_Subset, FS_CardinalityType
<1>2. ASSUME NEW i \in P
      PROVE  /\ IsFiniteSet({k \in P : k <= i}) /\ Rank(P, i) \in 1 .. Cardinality(P)
             /\ Rank(P, i) = Cardinality({k \in P : k <= i})
  <2>1. {k \in P : k <= i} \in SUBSET P /\ i \in {k \in P : k <= i}
    OBVIOUS
  <2>2. IsFiniteSet({k \in P : k <= i}) /\ Cardinality({k \in P : k <= i}) <= Cardinality(P)
    BY <1>1, <2>1, FS_Subset
  <2>3. Cardinality({k \in P : k <= i}) \in Nat /\ Cardinality({k \in P : k <= i}) # 0
    BY <2>1, <2>2, FS_CardinalityType, FS_EmptySet
  <2>. QED  BY <1>1, <2>2, <2>3 DEF Rank
<1>3. ASSUME NEW i \in P, NEW j \in P, i < j PROVE Rank(P, i) # Rank(P, j)
  <2>1. ASSUME NEW k \in P, k <= i PROVE k <= j
    <3>1. k \in 1 .. n /\ i \in 1 .. n /\ j \in 1 .. n
      OBVIOUS
    <3>. QED  BY <1>3, <2>1, <3>1
  <2>2. {k \in P : k <= i} # {k \in P : k <= j}
    <3>1. j \in {k \in P : k <= j} /\ j \notin {k \in P : k <= i}
      BY <1>3
    <3>. QED  BY <3>1
  <2>3. {k \in P : k <= i} \in SUBSET {k \in P : k <= j}
    BY <2>1
  <2>. QED  BY <1>2, <2>2, <2>3, FS_Subset
<1>4. \A i, j \in P : Rank(P, i) = Rank(P, j) => i = j
  <2>. SUFFICES ASSUME NEW i \in P, NEW j \in P, i # j PROVE Rank(P, i) # Rank(P, j)
    OBVIOUS
  <2>1. i < j \/ j < i
    OBVIOUS
  <2>. QED  BY <1>3, <2>1
<1>5. ASSUME NEW m \in 1 .. Cardinality(P) PROVE \E i \in P : Rank(P, i) = m
  <2>1. PICK f : f = [i \in P |-> Rank(P, i)]
    OBVIOUS
  <2>2. f \in Injection(P, 1 .. Cardinality(P))
    BY <1>2, <1>4, <2>1 DEF Injection, IsInjective
  <2>3. IsFiniteSet(1 .. Cardinality(P)) /\ Cardinality(1 .. Cardinality(P)) = Cardinality(P)
    BY <1>1, FS_Interval
  <2>4. f \in Surjection(P, 1 .. Cardinality(P))
    BY <2>2, <2>3, FS_Injection
  <2>. QED  BY <2>1, <2>4 DEF Surjection
<1>. QED  BY <1>1, <1>2, <1>4, <1>5

\* What is picked is what stands there, by its rank.
LEMMA PickedByRank ==
  ASSUME NEW S, NEW s \in Seq(S), NEW P \in SUBSET (1 .. Len(s))
  PROVE  /\ Picked(s, P) \in Seq(S) /\ Len(Picked(s, P)) = Cardinality(P)
         /\ \A i \in P : Picked(s, P)[Rank(P, i)] = s[i]
<1>1. Len(s) \in Nat /\ s \in [1 .. Len(s) -> S]
  BY LenProperties
<1>2. /\ Cardinality(P) \in Nat
      /\ \A i \in P : Rank(P, i) \in 1 .. Cardinality(P)
      /\ \A i, j \in P : Rank(P, i) = Rank(P, j) => i = j
      /\ \A m \in 1 .. Cardinality(P) : \E i \in P : Rank(P, i) = m
  BY <1>1, RanksAreDense
<1>3. ASSUME NEW m \in 1 .. Cardinality(P)
      PROVE  \E i \in P : Rank(P, i) = m /\ i = CHOOSE k \in P : Rank(P, k) = m
  BY <1>2
<1>4. ASSUME NEW i \in P PROVE Picked(s, P)[Rank(P, i)] = s[i]
  <2>1. PICK m \in 1 .. Cardinality(P) : m = Rank(P, i)
    BY <1>2
  <2>2. i = CHOOSE k \in P : Rank(P, k) = m
    BY <1>2, <1>3, <2>1
  <2>3. Picked(s, P)[m] = s[CHOOSE k \in P : Rank(P, k) = m]
    BY DEF Picked
  <2>. QED  BY <2>1, <2>2, <2>3
<1>5. Picked(s, P) \in [1 .. Cardinality(P) -> S]
  <2>1. ASSUME NEW m \in 1 .. Cardinality(P) PROVE s[CHOOSE k \in P : Rank(P, k) = m] \in S
    BY <1>1, <1>3
  <2>. QED  BY <2>1 DEF Picked
<1>6. Picked(s, P) \in Seq(S) /\ Len(Picked(s, P)) = Cardinality(P)
  BY <1>2, <1>5, SeqDef, LenProperties
<1>. QED  BY <1>4, <1>6

\* A sequence of the right length with what stands there is what is picked.
LEMMA PickedIs ==
  ASSUME NEW S, NEW s \in Seq(S), NEW P \in SUBSET (1 .. Len(s)), NEW t \in Seq(S),
         Len(t) = Cardinality(P), \A i \in P : t[Rank(P, i)] = s[i]
  PROVE  Picked(s, P) = t
<1>1. /\ Picked(s, P) \in Seq(S) /\ Len(Picked(s, P)) = Cardinality(P)
      /\ \A i \in P : Picked(s, P)[Rank(P, i)] = s[i]
  BY PickedByRank
<1>2. Len(s) \in Nat
  BY LenProperties
<1>3. ASSUME NEW m \in 1 .. Cardinality(P) PROVE Picked(s, P)[m] = t[m]
  <2>1. PICK i \in P : Rank(P, i) = m
    BY <1>2, RanksAreDense
  <2>. QED  BY <1>1, <2>1
<1>. QED  BY <1>1, <1>3, SeqEqual

\* What is appended, and not picked, changes nothing.
LEMMA PickedWithout ==
  ASSUME NEW S, NEW s \in Seq(S), NEW e \in S, NEW P \in SUBSET (1 .. Len(s))
  PROVE  Picked(Append(s, e), P) = Picked(s, P)
<1>1. /\ Append(s, e) \in Seq(S) /\ Len(Append(s, e)) = Len(s) + 1 /\ Len(s) \in Nat
      /\ \A i \in 1 .. Len(s) : Append(s, e)[i] = s[i]
  BY AppendProperties, LenProperties
<1>2. /\ Picked(s, P) \in Seq(S) /\ Len(Picked(s, P)) = Cardinality(P)
      /\ \A i \in P : Picked(s, P)[Rank(P, i)] = s[i]
  BY PickedByRank
<1>3. P \in SUBSET (1 .. Len(Append(s, e))) /\ \A i \in P : Picked(s, P)[Rank(P, i)] = Append(s, e)[i]
  BY <1>1, <1>2
<1>. QED  BY <1>1, <1>2, <1>3, PickedIs

\* What is appended and picked comes last.
LEMMA PickedWith ==
  ASSUME NEW S, NEW s \in Seq(S), NEW e \in S, NEW P \in SUBSET (1 .. Len(s)),
         NEW Q, Q = P \cup {Len(s) + 1}
  PROVE  Picked(Append(s, e), Q) = Append(Picked(s, P), e)
<1>1. /\ Append(s, e) \in Seq(S) /\ Len(Append(s, e)) = Len(s) + 1 /\ Len(s) \in Nat
      /\ \A i \in 1 .. Len(s) : Append(s, e)[i] = s[i]
      /\ Append(s, e)[Len(s) + 1] = e
  BY AppendProperties, LenProperties
<1>2. /\ Picked(s, P) \in Seq(S) /\ Len(Picked(s, P)) = Cardinality(P)
      /\ \A i \in P : Picked(s, P)[Rank(P, i)] = s[i]
  BY PickedByRank
<1>3. /\ IsFiniteSet(P) /\ Cardinality(P) \in Nat
      /\ \A i \in P : Rank(P, i) \in 1 .. Cardinality(P)
  BY <1>1, RanksAreDense
<1>4. Cardinality(Q) = Cardinality(P) + 1
  <2>1. Len(s) + 1 \notin P
    BY <1>1
  <2>. QED  BY <1>3, <2>1, FS_AddElement
<1>5. PICK t : t = Append(Picked(s, P), e)
  OBVIOUS
<1>6. /\ t \in Seq(S) /\ Len(t) = Cardinality(Q) /\ t[Cardinality(P) + 1] = e
      /\ \A m \in 1 .. Cardinality(P) : t[m] = Picked(s, P)[m]
  BY <1>2, <1>4, <1>5, AppendProperties
<1>7. ASSUME NEW i \in Q PROVE t[Rank(Q, i)] = Append(s, e)[i]
  <2>1. CASE i \in P
    <3>1. {j \in Q : j <= i} = {j \in P : j <= i}
      BY <1>1, <2>1
    <3>2. Rank(Q, i) = Rank(P, i)
      BY <3>1 DEF Rank
    <3>. QED  BY <1>1, <1>2, <1>3, <1>6, <2>1, <3>2
  <2>2. CASE i = Len(s) + 1
    <3>0. ASSUME NEW j \in Q PROVE j <= i
      <4>1. CASE j \in P
        <5>1. j \in 1 .. Len(s)
          BY <4>1
        <5>. QED  BY <1>1, <2>2, <5>1
      <4>2. CASE j = Len(s) + 1
        BY <1>1, <2>2, <4>2
      <4>. QED  BY <4>1, <4>2
    <3>1. {j \in Q : j <= i} = Q
      BY <3>0
    <3>2. Rank(Q, i) = Cardinality(P) + 1
      BY <1>4, <3>1 DEF Rank
    <3>. QED  BY <1>1, <1>6, <2>2, <3>2
  <2>. QED  BY <2>1, <2>2
<1>8. Q \in SUBSET (1 .. Len(Append(s, e)))
  <2>1. ASSUME NEW j \in P PROVE j \in 1 .. Len(Append(s, e))
    <3>1. j \in 1 .. Len(s)
      OBVIOUS
    <3>. QED  BY <1>1, <3>1
  <2>2. Len(s) + 1 \in 1 .. Len(Append(s, e))
    BY <1>1
  <2>. QED  BY <2>1, <2>2
<1>. QED  BY <1>1, <1>5, <1>6, <1>7, <1>8, PickedIs

Roles == {"user", "assistant", "tool", "system"}
Message(T) == [role : Roles, calls : Seq(T), call : Nat]

\* What is said are messages.
LEMMA SaidAreMessages ==
  ASSUME NEW T, NEW calls \in Seq(T), NEW k \in Nat
  PROVE  /\ FromUser \in Message(T) /\ Answer(calls) \in Message(T) /\ ToolResult(k) \in Message(T)
         /\ SessionStarted \in Message(T)
         /\ FromUser.role = "user" /\ Answer(calls).role = "assistant"
         /\ ToolResult(k).role = "tool" /\ Answer(calls).calls = calls
<1>1. ASSUME NEW role \in Roles, NEW c \in Seq(T), NEW i \in Nat
      PROVE  /\ Said(role, c, i) \in Message(T)
             /\ Said(role, c, i).role = role /\ Said(role, c, i).calls = c
  BY DEF Said, Message
<1>2. <<>> \in Seq(T) /\ 0 \in Nat
  BY EmptySeq
<1>3. "user" \in Roles /\ "assistant" \in Roles /\ "tool" \in Roles /\ "system" \in Roles
  BY DEF Roles
<1>4. FromUser \in Message(T) /\ FromUser.role = "user"
  <2>1. FromUser \in Message(T)
    BY <1>1, <1>2, <1>3 DEF FromUser
  <2>. QED  BY <2>1 DEF FromUser, Said
<1>5. SessionStarted \in Message(T)
  BY <1>1, <1>2, <1>3 DEF SessionStarted
<1>6. /\ Answer(calls) \in Message(T) /\ Answer(calls).role = "assistant"
      /\ Answer(calls).calls = calls
  BY <1>1, <1>2, <1>3 DEF Answer
<1>7. ToolResult(k) \in Message(T) /\ ToolResult(k).role = "tool"
  <2>1. ToolResult(k) \in Message(T)
    BY <1>1, <1>2, <1>3 DEF ToolResult
  <2>. QED  BY <2>1 DEF ToolResult, Said
<1>. QED  BY <1>4, <1>5, <1>6, <1>7

\* One message more: what stood there stands there, and it comes last.
LEMMA OneMore ==
  ASSUME NEW T, NEW said \in Seq(Message(T)), NEW m \in Message(T)
  PROVE  /\ Len(said) \in Nat /\ DOMAIN said = 1 .. Len(said)
         /\ Append(said, m) \in Seq(Message(T)) /\ Append(said, m) # <<>>
         /\ Len(Append(said, m)) = Len(said) + 1
         /\ DOMAIN Append(said, m) = 1 .. (Len(said) + 1)
         /\ \A i \in 1 .. Len(said) : Append(said, m)[i] = said[i]
         /\ Append(said, m)[Len(said) + 1] = m
<1>1. /\ Append(said, m) \in Seq(Message(T)) /\ Append(said, m) # <<>>
      /\ Len(Append(said, m)) = Len(said) + 1
      /\ \A i \in 1 .. Len(said) : Append(said, m)[i] = said[i]
      /\ Append(said, m)[Len(said) + 1] = m
  BY AppendProperties
<1>2. /\ Len(said) \in Nat /\ DOMAIN said = 1 .. Len(said)
      /\ DOMAIN Append(said, m) = 1 .. Len(Append(said, m))
  BY <1>1, LenProperties
<1>. QED  BY <1>1, <1>2

LEMMA AnswersStand ==
  ASSUME NEW T, NEW said \in Seq(Message(T))
  PROVE  Answers(said) \in SUBSET (1 .. Len(said))
BY LenProperties DEF Answers

\* Where the answers stand when one message more is there.
LEMMA AnswersGrow ==
  ASSUME NEW T, NEW said \in Seq(Message(T)), NEW m \in Message(T)
  PROVE  /\ Answers(said) \in SUBSET (1 .. Len(said))
         /\ Answers(Append(said, m)) =
              IF m.role = "assistant" THEN Answers(said) \cup {Len(said) + 1} ELSE Answers(said)
<1>1. PICK n \in Nat : n = Len(said) /\ DOMAIN said = 1 .. n
  BY OneMore
<1>2. PICK more : more = Append(said, m)
  OBVIOUS
<1>3. /\ DOMAIN more = 1 .. (n + 1) /\ more[n + 1] = m
      /\ \A i \in 1 .. n : more[i] = said[i]
  BY <1>1, <1>2, OneMore
<1>4. \A i \in DOMAIN more : i \in 1 .. n \/ i = n + 1
  BY <1>1, <1>3
<1>5. 1 .. n \subseteq DOMAIN more /\ n + 1 \in DOMAIN more /\ n + 1 \notin 1 .. n
  BY <1>1, <1>3
<1>6. Answers(said) = {i \in 1 .. n : said[i].role = "assistant"}
  BY <1>1 DEF Answers
<1>7. Answers(more) = {i \in DOMAIN more : more[i].role = "assistant"}
  BY DEF Answers
<1>8. CASE m.role = "assistant"
  <2>1. Answers(more) = Answers(said) \cup {n + 1}
    BY <1>3, <1>4, <1>5, <1>6, <1>7, <1>8
  <2>. QED  BY <1>1, <1>2, <1>6, <1>8, <2>1
<1>9. CASE m.role # "assistant"
  <2>1. Answers(more) = Answers(said)
    BY <1>3, <1>4, <1>5, <1>6, <1>7, <1>9
  <2>. QED  BY <1>1, <1>2, <1>6, <1>9, <2>1
<1>. QED  BY <1>8, <1>9

\* The rounds of a conversation are counted.
LEMMA RoundGrows ==
  ASSUME NEW T, NEW said \in Seq(Message(T)), NEW m \in Message(T)
  PROVE  /\ Round(said) \in Nat
         /\ Round(Append(said, m)) = IF m.role = "assistant" THEN Round(said) + 1 ELSE Round(said)
<1>1. PICK n \in Nat : n = Len(said)
  BY OneMore
<1>2. Answers(said) \in SUBSET (1 .. n)
  BY <1>1, AnswersGrow
<1>3. IsFiniteSet(Answers(said)) /\ Cardinality(Answers(said)) \in Nat
  BY <1>2, RanksAreDense
<1>4. n + 1 \notin Answers(said)
  BY <1>2
<1>5. Cardinality(Answers(said) \cup {n + 1}) = Cardinality(Answers(said)) + 1
  BY <1>3, <1>4, FS_AddElement
<1>. QED  BY <1>1, <1>3, <1>5, AnswersGrow DEF Round

\* Everything but tool messages is persistent.
LEMMA PersistentGrows ==
  ASSUME NEW T, NEW said \in Seq(Message(T)), NEW m \in Message(T)
  PROVE  /\ Persistent(said) \in Seq(Message(T))
         /\ Persistent(Append(said, m)) =
              IF m.role = "tool" THEN Persistent(said) ELSE Append(Persistent(said), m)
<1>1. PICK n \in Nat : n = Len(said) /\ DOMAIN said = 1 .. n
  BY OneMore
<1>2. PICK more : more = Append(said, m)
  OBVIOUS
<1>3. /\ DOMAIN more = 1 .. (n + 1) /\ more[n + 1] = m
      /\ \A i \in 1 .. n : more[i] = said[i]
  BY <1>1, <1>2, OneMore
<1>4. \A i \in DOMAIN more : i \in 1 .. n \/ i = n + 1
  BY <1>1, <1>3
<1>5. 1 .. n \subseteq DOMAIN more /\ n + 1 \in DOMAIN more /\ n + 1 \notin 1 .. n
  BY <1>1, <1>3
<1>6. PICK P : P = {i \in 1 .. n : said[i].role # "tool"}
  OBVIOUS
<1>7. PICK Q : Q = {i \in DOMAIN more : more[i].role # "tool"}
  OBVIOUS
<1>8. P \in SUBSET (1 .. Len(said)) /\ Persistent(said) = Picked(said, P)
  BY <1>1, <1>6 DEF Persistent
<1>9. Persistent(more) = Picked(more, Q)
  BY <1>7 DEF Persistent
<1>10. CASE m.role = "tool"
  <2>1. Q = P
    BY <1>3, <1>4, <1>5, <1>6, <1>7, <1>10
  <2>2. Picked(more, P) = Picked(said, P)
    BY <1>2, <1>8, PickedWithout
  <2>. QED  BY <1>2, <1>8, <1>9, <1>10, <2>1, <2>2, PickedByRank
<1>11. CASE m.role # "tool"
  <2>1. Q = P \cup {n + 1}
    BY <1>3, <1>4, <1>5, <1>6, <1>7, <1>11
  <2>2. Picked(more, Q) = Append(Picked(said, P), m)
    BY <1>1, <1>2, <1>8, <2>1, PickedWith
  <2>. QED  BY <1>2, <1>8, <1>9, <1>11, <2>2, PickedByRank
<1>. QED  BY <1>10, <1>11

\* What was before the last message, and the last message.
LEMMA FrontAndLast ==
  ASSUME NEW S, NEW s \in Seq(S), NEW e \in S
  PROVE  Front(Append(s, e)) = s /\ Last(Append(s, e)) = e
<1>1. PICK n \in Nat : n = Len(s)
  BY LenProperties
<1>2. /\ Append(s, e) \in Seq(S) /\ Len(Append(s, e)) = n + 1
      /\ \A i \in 1 .. n : Append(s, e)[i] = s[i]
      /\ Append(s, e)[n + 1] = e
  BY <1>1, AppendProperties
<1>3. PICK f : f = SubSeq(Append(s, e), 1, n)
  OBVIOUS
<1>4. f \in Seq(S) /\ Len(f) = n /\ \A i \in 1 .. n : f[i] = Append(s, e)[i]
  BY <1>1, <1>2, <1>3, SubSeqProperties
<1>5. f = s
  BY <1>1, <1>2, <1>4, SeqEqual
<1>6. Len(Append(s, e)) - 1 = n
  BY <1>2
<1>. QED  BY <1>2, <1>3, <1>5, <1>6 DEF Front, Last

(* An answer whose calls are all answered, with the next answer behind     *)
(* them; a batch of which only due is left, and in which nobody else has  *)
(* spoken since its answer at p.                                           *)
CallsSettled(said, i) ==
  LET n == Len(said[i].calls)
  IN /\ i + n + 1 <= Len(said) /\ said[i + n + 1].role = "assistant"
     /\ \A k \in 1..n : said[i + k] = ToolResult(k)
Batch(said, due, p) ==
  /\ p \in Answers(said) /\ \A q \in Answers(said) : q <= p
  /\ Len(said) = p + Len(said[p].calls) - Len(due)
  /\ \A k \in 1..(Len(said) - p) : said[p + k] = ToolResult(k)
  /\ \A i \in Answers(said) : i # p => CallsSettled(said, i)

LEMMA CallsAreTyped ==
  ASSUME NEW T, NEW said \in Seq(Message(T)), NEW i \in 1 .. Len(said)
  PROVE  said[i] \in Message(T) /\ said[i].calls \in Seq(T) /\ Len(said[i].calls) \in Nat
<1>1. said[i] \in Message(T)
  BY ElementOfSeq
<1>2. said[i].calls \in Seq(T)
  BY <1>1 DEF Message
<1>. QED  BY <1>1, <1>2, LenProperties

\* What is settled stays settled.
LEMMA SettledStays ==
  ASSUME NEW T, NEW said \in Seq(Message(T)), NEW m \in Message(T), NEW i \in 1 .. Len(said),
         CallsSettled(said, i)
  PROVE  CallsSettled(Append(said, m), i)
<1>1. PICK n \in Nat : n = Len(said)
  BY OneMore
<1>2. PICK more : more = Append(said, m)
  OBVIOUS
<1>3. Len(more) = n + 1 /\ \A j \in 1 .. n : more[j] = said[j]
  BY <1>1, <1>2, OneMore
<1>4. PICK c \in Nat : c = Len(said[i].calls)
  BY CallsAreTyped
<1>5. /\ i + c + 1 <= n /\ said[i + c + 1].role = "assistant"
      /\ \A k \in 1 .. c : said[i + k] = ToolResult(k)
  BY <1>1, <1>4 DEF CallsSettled
<1>6. Len(more[i].calls) = c
  BY <1>1, <1>3, <1>4
<1>7. i + c + 1 <= Len(more) /\ more[i + c + 1].role = "assistant"
  <2>1. i + c + 1 \in 1 .. n
    BY <1>1, <1>5
  <2>. QED  BY <1>3, <1>5, <2>1
<1>8. ASSUME NEW k \in 1 .. c PROVE more[i + k] = ToolResult(k)
  <2>1. i + k \in 1 .. n
    BY <1>1, <1>5
  <2>. QED  BY <1>3, <1>5, <2>1
<1>9. CallsSettled(more, i)
  BY <1>6, <1>7, <1>8 DEF CallsSettled
<1>. QED  BY <1>2, <1>9

\* The last answer is where Unanswered looks for the calls.
LEMMA NextCall ==
  ASSUME NEW T, NEW said \in Seq(Message(T)), NEW due \in Seq(T), NEW p, Batch(said, due, p)
  PROVE  /\ p \in 1 .. Len(said) /\ Len(said) - p \in Nat
         /\ Unanswered(said, due) = Len(said) - p + 1
<1>1. p \in 1 .. Len(said) /\ Len(said) \in Nat
  <2>1. p \in Answers(said) /\ Answers(said) \in SUBSET (1 .. Len(said))
    BY AnswersStand DEF Batch
  <2>. QED  BY <2>1, LenProperties
<1>2. Len(said[p].calls) \in Nat /\ Len(due) \in Nat
  BY <1>1, CallsAreTyped, LenProperties
<1>3. Max(Answers(said)) = p
  <2>1. p \in Answers(said) /\ \A q \in Answers(said) : p >= q
    <3>1. p \in Answers(said) /\ \A q \in Answers(said) : q <= p
      BY DEF Batch
    <3>2. Answers(said) \in SUBSET (1 .. Len(said))
      BY AnswersStand
    <3>. QED  BY <1>1, <3>1, <3>2
  <2>2. ASSUME NEW q \in Answers(said), \A y \in Answers(said) : q >= y PROVE q = p
    <3>1. q \in 1 .. Len(said)
      BY AnswersStand
    <3>2. q >= p /\ p >= q
      BY <2>1, <2>2
    <3>. QED  BY <1>1, <3>1, <3>2
  <2>. QED  BY <2>1, <2>2 DEF Max
<1>4. Len(said) = p + Len(said[p].calls) - Len(due)
  BY DEF Batch
<1>5. Unanswered(said, due) = Len(said[p].calls) - Len(due) + 1
  BY <1>3 DEF Unanswered
<1>. QED  BY <1>1, <1>2, <1>4, <1>5

\* An answer to a conversation that is in order begins a batch.
LEMMA BatchBegins ==
  ASSUME NEW T, NEW said \in Seq(Message(T)), NEW calls \in Seq(T), AnsweredInOrder(said)
  PROVE  Batch(Append(said, Answer(calls)), calls, Len(said) + 1)
<1>1. PICK n \in Nat : n = Len(said) /\ DOMAIN said = 1 .. n
  BY OneMore
<1>2. PICK more : more = Append(said, Answer(calls))
  OBVIOUS
<1>3. /\ Answer(calls) \in Message(T) /\ Answer(calls).role = "assistant"
      /\ Answer(calls).calls = calls
  BY SaidAreMessages
<1>4. /\ Len(more) = n + 1 /\ more[n + 1] = Answer(calls)
      /\ \A i \in 1 .. n : more[i] = said[i]
  BY <1>1, <1>2, <1>3, OneMore
<1>5. Answers(said) \in SUBSET (1 .. n) /\ Answers(more) = Answers(said) \cup {n + 1}
  BY <1>1, <1>2, <1>3, AnswersGrow
<1>6. n + 1 \in Answers(more) /\ \A q \in Answers(more) : q <= n + 1
  <2>1. ASSUME NEW q \in Answers(said) PROVE q <= n + 1
    <3>1. q \in 1 .. n
      BY <1>5
    <3>. QED  BY <3>1
  <2>. QED  BY <1>5, <2>1
<1>7. Len(more) = (n + 1) + Len(more[n + 1].calls) - Len(calls)
  <2>1. Len(calls) \in Nat
    BY LenProperties
  <2>2. more[n + 1].calls = calls
    BY <1>3, <1>4
  <2>. QED  BY <1>4, <2>1, <2>2
<1>8. ASSUME NEW i \in Answers(more), i # n + 1 PROVE CallsSettled(more, i)
  <2>1. i \in Answers(said) /\ i \in 1 .. n
    BY <1>5, <1>8
  <2>2. PICK c \in Nat : c = Len(said[i].calls)
    BY <1>1, <2>1, CallsAreTyped
  <2>3. /\ i + c <= n /\ \A k \in 1 .. c : said[i + k] = ToolResult(k)
        /\ i + c < n => said[i + c + 1].role = "assistant"
    BY <1>1, <2>1, <2>2 DEF AnsweredInOrder, Answers
  <2>4. Len(more[i].calls) = c
    BY <1>4, <2>1, <2>2
  <2>5. ASSUME NEW k \in 1 .. c PROVE more[i + k] = ToolResult(k)
    <3>1. i + k \in 1 .. n
      BY <2>1, <2>3
    <3>. QED  BY <1>4, <2>3, <3>1
  <2>6. i + c + 1 <= Len(more)
    BY <1>4, <2>1, <2>3
  <2>7. more[i + c + 1].role = "assistant"
    <3>1. CASE i + c < n
      <4>1. i + c + 1 \in 1 .. n
        BY <2>1, <3>1
      <4>. QED  BY <1>4, <2>3, <3>1, <4>1
    <3>2. CASE i + c = n
      BY <1>3, <1>4, <3>2
    <3>. QED  BY <2>1, <2>3, <3>1, <3>2
  <2>. QED  BY <2>4, <2>5, <2>6, <2>7 DEF CallsSettled
<1>9. \A k \in 1 .. (Len(more) - (n + 1)) : more[n + 1 + k] = ToolResult(k)
  BY <1>4
<1>10. Batch(more, calls, n + 1)
  BY <1>6, <1>7, <1>8, <1>9 DEF Batch
<1>. QED  BY <1>1, <1>2, <1>10

\* The result of the next call goes on with the batch.
LEMMA BatchGoesOn ==
  ASSUME NEW T, NEW said \in Seq(Message(T)), NEW due \in Seq(T), due # <<>>, NEW p,
         Batch(said, due, p)
  PROVE  /\ Unanswered(said, due) \in Nat
         /\ Batch(Append(said, ToolResult(Unanswered(said, due))), Tail(due), p)
<1>1. PICK n \in Nat : n = Len(said) /\ DOMAIN said = 1 .. n
  BY OneMore
<1>2. /\ p \in 1 .. n /\ n - p \in Nat
      /\ Unanswered(said, due) = n - p + 1
  BY <1>1, NextCall
<1>3. PICK u \in Nat : u = Unanswered(said, due) /\ u = n - p + 1
  BY <1>2
<1>4. PICK more : more = Append(said, ToolResult(u))
  OBVIOUS
<1>5. ToolResult(u) \in Message(T) /\ ToolResult(u).role = "tool"
  BY SaidAreMessages, EmptySeq
<1>6. /\ Len(more) = n + 1 /\ more[n + 1] = ToolResult(u)
      /\ \A i \in 1 .. n : more[i] = said[i]
  BY <1>1, <1>4, <1>5, OneMore
<1>7. Answers(said) \in SUBSET (1 .. n) /\ Answers(more) = Answers(said)
  BY <1>1, <1>4, <1>5, AnswersGrow
<1>8. p \in Answers(more) /\ \A q \in Answers(more) : q <= p
  BY <1>7 DEF Batch
<1>9. Len(more) = p + Len(more[p].calls) - Len(Tail(due))
  <2>1. Len(due) \in Nat /\ Len(Tail(due)) = Len(due) - 1
    BY LenProperties, HeadTailProperties
  <2>2. Len(said[p].calls) \in Nat
    BY <1>1, <1>2, CallsAreTyped
  <2>3. n = p + Len(said[p].calls) - Len(due)
    BY <1>1 DEF Batch
  <2>4. Len(more[p].calls) = Len(said[p].calls)
    BY <1>2, <1>6
  <2>. QED  BY <1>2, <1>6, <2>1, <2>2, <2>3, <2>4
<1>10. ASSUME NEW k \in 1 .. (Len(more) - p) PROVE more[p + k] = ToolResult(k)
  <2>1. CASE k = u
    <3>1. p + k = n + 1
      BY <1>2, <1>3, <2>1
    <3>. QED  BY <1>6, <2>1, <3>1
  <2>2. CASE k # u
    <3>1. k \in 1 .. (n - p) /\ p + k \in 1 .. n
      BY <1>2, <1>3, <1>6, <2>2
    <3>2. said[p + k] = ToolResult(k)
      BY <1>1, <3>1 DEF Batch
    <3>. QED  BY <1>6, <3>1, <3>2
  <2>. QED  BY <2>1, <2>2
<1>11. ASSUME NEW i \in Answers(more), i # p PROVE CallsSettled(more, i)
  <2>1. i \in 1 .. Len(said) /\ CallsSettled(said, i)
    BY <1>1, <1>7, <1>11 DEF Batch
  <2>. QED  BY <1>4, <1>5, <2>1, SettledStays
<1>12. Batch(more, Tail(due), p)
  BY <1>8, <1>9, <1>10, <1>11 DEF Batch
<1>. QED  BY <1>3, <1>4, <1>12

\* A batch of which nothing is left is a conversation in order.
LEMMA BatchEnds ==
  ASSUME NEW T, NEW said \in Seq(Message(T)), NEW p, Batch(said, <<>>, p)
  PROVE  AnsweredInOrder(said)
<1>1. PICK n \in Nat : n = Len(said) /\ DOMAIN said = 1 .. n
  BY LenProperties
<1>2. p \in 1 .. n
  BY <1>1, AnswersStand DEF Batch
<1>. SUFFICES ASSUME NEW i \in DOMAIN said, said[i].role = "assistant"
              PROVE  /\ i + Len(said[i].calls) <= n
                     /\ \A k \in 1 .. Len(said[i].calls) : said[i + k] = ToolResult(k)
                     /\ i + Len(said[i].calls) < n =>
                          said[i + Len(said[i].calls) + 1].role = "assistant"
  BY <1>1 DEF AnsweredInOrder
<1>3. i \in Answers(said) /\ i \in 1 .. n
  BY <1>1 DEF Answers
<1>4. PICK c \in Nat : c = Len(said[i].calls)
  BY <1>1, <1>3, CallsAreTyped
<1>5. CASE i = p
  <2>1. n = i + c - 0
    BY <1>1, <1>4, <1>5, EmptySeq DEF Batch
  <2>2. \A k \in 1 .. (n - i) : said[i + k] = ToolResult(k)
    BY <1>1, <1>5 DEF Batch
  <2>3. i + c = n /\ n - i = c
    BY <1>3, <2>1
  <2>. QED  BY <1>4, <2>2, <2>3
<1>6. CASE i # p
  <2>1. CallsSettled(said, i)
    BY <1>3, <1>6 DEF Batch
  <2>2. /\ i + c + 1 <= n /\ said[i + c + 1].role = "assistant"
        /\ \A k \in 1 .. c : said[i + k] = ToolResult(k)
    BY <1>1, <1>4, <2>1 DEF CallsSettled
  <2>3. i + c <= n
    BY <1>3, <2>2
  <2>. QED  BY <1>4, <2>2, <2>3
<1>. QED  BY <1>5, <1>6

Distinct(active) == \A i, j \in DOMAIN active : active[i] = active[j] => i = j

\* What BoundedSeq has is sequences.
LEMMA BoundedAreSequences ==
  ASSUME NEW S, NEW n \in Nat, NEW s \in BoundedSeq(S, n)
  PROVE  s \in Seq(S)
<1>1. PICK m \in 0 .. n : s \in [1 .. m -> S]
  BY DEF BoundedSeq, SeqOf
<1>2. m \in Nat
  OBVIOUS
<1>. QED  BY <1>1, <1>2, SeqDef

\* Discovery makes no tool active twice.
LEMMA ExpandedStaysDistinct ==
  ASSUME NEW T, NEW active \in Seq(T), NEW found \in Seq(T), Distinct(active)
  PROVE  Expanded(active, found) \in Seq(T) /\ Distinct(Expanded(active, found))
<1>1. PICK a \in Nat : a = Len(active) /\ DOMAIN active = 1 .. a
  BY LenProperties
<1>2. Len(found) \in Nat /\ DOMAIN found = 1 .. Len(found)
  BY LenProperties
<1>3. PICK P : P = {i \in DOMAIN found : /\ found[i] \notin ToSet(active)
                                         /\ \A j \in 1..(i - 1) : found[j] # found[i]}
  OBVIOUS
<1>4. P \in SUBSET (1 .. Len(found))
  BY <1>2, <1>3
<1>5. PICK new : new = Picked(found, P)
  OBVIOUS
<1>6. PICK b \in Nat : b = Cardinality(P)
  BY <1>2, <1>4, RanksAreDense
<1>7. new \in Seq(T) /\ Len(new) = b /\ \A i \in P : new[Rank(P, i)] = found[i]
  BY <1>4, <1>5, <1>6, PickedByRank
<1>8. \A m \in 1 .. b : \E i \in P : Rank(P, i) = m
  BY <1>2, <1>4, <1>6, RanksAreDense
<1>9. PICK all : all = active \o new
  OBVIOUS
<1>10. all = Expanded(active, found)
  BY <1>3, <1>5, <1>9 DEF Expanded
<1>11. /\ all \in Seq(T) /\ Len(all) = a + b
       /\ \A i \in 1 .. a : all[i] = active[i]
       /\ \A i \in 1 .. b : all[a + i] = new[i]
  <2>1. /\ all \in Seq(T) /\ Len(all) = a + b
        /\ \A i \in 1 .. a + b : all[i] = IF i <= a THEN active[i] ELSE new[i - a]
    BY <1>1, <1>7, <1>9, ConcatProperties
  <2>2. ASSUME NEW i \in 1 .. a PROVE all[i] = active[i]
    <3>1. i \in 1 .. a + b /\ i <= a
      OBVIOUS
    <3>. QED  BY <2>1, <3>1
  <2>3. ASSUME NEW i \in 1 .. b PROVE all[a + i] = new[i]
    <3>1. a + i \in 1 .. a + b /\ ~ (a + i <= a) /\ a + i - a = i
      OBVIOUS
    <3>. QED  BY <2>1, <3>1
  <2>. QED  BY <2>1, <2>2, <2>3
<1>12. ASSUME NEW i \in 1 .. b, NEW j \in 1 .. b, new[i] = new[j] PROVE i = j
  <2>1. PICK f \in P : Rank(P, f) = i
    BY <1>8
  <2>2. PICK g \in P : Rank(P, g) = j
    BY <1>8
  <2>3. found[f] = found[g]
    BY <1>7, <1>12, <2>1, <2>2
  <2>4. f \in 1 .. Len(found) /\ g \in 1 .. Len(found)
    BY <1>4
  <2>5. ~ (f < g)
    <3>1. f < g => f \in 1 .. (g - 1)
      BY <2>4
    <3>. QED  BY <1>3, <2>3, <3>1
  <2>6. ~ (g < f)
    <3>1. g < f => g \in 1 .. (f - 1)
      BY <2>4
    <3>. QED  BY <1>3, <2>3, <3>1
  <2>7. f = g
    BY <2>4, <2>5, <2>6
  <2>. QED  BY <2>1, <2>2, <2>7
<1>13. ASSUME NEW i \in 1 .. a, NEW j \in 1 .. b PROVE active[i] # new[j]
  <2>1. PICK g \in P : Rank(P, g) = j
    BY <1>8
  <2>2. new[j] = found[g] /\ found[g] \notin ToSet(active)
    BY <1>3, <1>7, <2>1
  <2>3. active[i] \in ToSet(active)
    BY <1>1 DEF ToSet
  <2>. QED  BY <2>2, <2>3
<1>14. ASSUME NEW i \in 1 .. (a + b) PROVE i \in 1 .. a \/ (i - a \in 1 .. b /\ i = a + (i - a))
  OBVIOUS
<1>15. ASSUME NEW i \in 1 .. (a + b), NEW j \in 1 .. (a + b), all[i] = all[j] PROVE i = j
  <2>1. CASE i \in 1 .. a /\ j \in 1 .. a
    BY <1>1, <1>11, <1>15, <2>1 DEF Distinct
  <2>2. CASE i \in 1 .. a /\ j - a \in 1 .. b
    <3>1. all[i] = active[i] /\ all[a + (j - a)] = new[j - a] /\ j = a + (j - a)
      BY <1>11, <1>14, <2>2
    <3>. QED  BY <1>13, <1>15, <2>2, <3>1
  <2>3. CASE i - a \in 1 .. b /\ j \in 1 .. a
    <3>1. all[j] = active[j] /\ all[a + (i - a)] = new[i - a] /\ i = a + (i - a)
      BY <1>11, <1>14, <2>3
    <3>. QED  BY <1>13, <1>15, <2>3, <3>1
  <2>4. CASE i - a \in 1 .. b /\ j - a \in 1 .. b
    <3>1. all[a + (j - a)] = new[j - a] /\ j = a + (j - a)
      BY <1>11, <1>14, <2>4
    <3>2. all[a + (i - a)] = new[i - a] /\ i = a + (i - a)
      BY <1>11, <1>14, <2>4
    <3>3. i - a = j - a
      BY <1>12, <1>15, <2>4, <3>1, <3>2
    <3>. QED  BY <3>3
  <2>. QED  BY <1>14, <2>1, <2>2, <2>3, <2>4
<1>16. DOMAIN all = 1 .. (a + b)
  BY <1>11, LenProperties
<1>. QED  BY <1>10, <1>11, <1>15, <1>16 DEF Distinct

-----------------------------------------------------------------------------
(* The runs of the agent loop and their sessions.                          *)

LoopTools == ToolPool \cup {DiscoverTools}
LoopMessages == Message(LoopTools)
LoopPlaces == {"new", "build", "ask", "keep", "tools", "done", "failed"}
LoopRecord ==
  [at : LoopPlaces, said : Seq(LoopMessages), active : Seq(LoopTools), todo : Seq(LoopTools),
   iter : Nat, tokens : Nat, late : BOOLEAN, told : Nat]

(* What a run has said where it is, and what its session has of it.        *)
TalkIsOrdered(l) ==
  /\ Distinct(l.active)
  /\ l.at \in {"new", "build"} => l.said = <<>>
  /\ l.at = "ask" => AnsweredInOrder(l.said)
  /\ l.at = "keep" => Batch(l.said, l.todo, Len(l.said))
  /\ l.at = "tools" => l.todo # <<>> /\ \E p \in Nat : Batch(l.said, l.todo, p)
Kept(said) == <<SessionStarted>> \o Persistent(said)
SessionHas(s, l) == s # <<>> => s = IF l.at = "keep" THEN Front(Kept(l.said)) ELSE Kept(l.said)

LoopTyped ==
  /\ agentRun \in [AgentRuns -> LoopRecord]
  /\ "sessions" \in DOMAIN memory
  /\ memory.sessions \in [AgentRuns -> Seq(LoopMessages)]
TalkInv ==
  \A r \in AgentRuns : TalkIsOrdered(agentRun[r]) /\ SessionHas(memory.sessions[r], agentRun[r])

\* The sessions after one is touched, and after some are gone.
LEMMA SessionsTouched ==
  ASSUME NEW m, "sessions" \in DOMAIN m, NEW r, NEW messages
  PROVE  /\ "sessions" \in DOMAIN Touched(m, r, messages)
         /\ Touched(m, r, messages).sessions = [m.sessions EXCEPT ![r] = messages]
BY DEF Touched

LEMMA SessionsGone ==
  ASSUME NEW m, "sessions" \in DOMAIN m, m.sessions \in [AgentRuns -> Seq(LoopMessages)], NEW gone
  PROVE  /\ "sessions" \in DOMAIN Without(m, gone)
         /\ Without(m, gone).sessions \in [AgentRuns -> Seq(LoopMessages)]
         /\ \A r \in AgentRuns : Without(m, gone).sessions[r] \in {<<>>, m.sessions[r]}
<1>1. /\ "sessions" \in DOMAIN Without(m, gone)
      /\ Without(m, gone).sessions =
           [r \in AgentRuns |-> IF r \in gone THEN <<>> ELSE m.sessions[r]]
  BY DEF Without
<1>2. <<>> \in Seq(LoopMessages)
  BY EmptySeq
<1>. QED  BY <1>1, <1>2

\* What a message more does to what memory should have of a run.
LEMMA KeptGrows ==
  ASSUME NEW said \in Seq(LoopMessages), NEW m \in LoopMessages
  PROVE  /\ Kept(said) \in Seq(LoopMessages) /\ Kept(said) # <<>>
         /\ Kept(Append(said, m)) = IF m.role = "tool" THEN Kept(said) ELSE Append(Kept(said), m)
<1>1. PICK s \in Seq(LoopMessages) : s = Persistent(said)
  BY PersistentGrows DEF LoopMessages
<1>2. Persistent(Append(said, m)) = IF m.role = "tool" THEN s ELSE Append(s, m)
  BY <1>1, PersistentGrows DEF LoopMessages
<1>3. PICK h : h = <<SessionStarted>>
  OBVIOUS
<1>4. h \in Seq(LoopMessages) /\ h # <<>> /\ <<m>> \in Seq(LoopMessages)
  <2>1. SessionStarted \in LoopMessages
    BY SaidAreMessages, EmptySeq DEF LoopMessages
  <2>. QED  BY <1>3, <2>1
<1>5. h \o Append(s, m) = Append(h \o s, m)
  <2>1. h \o s \in Seq(LoopMessages)
    BY <1>4, ConcatProperties
  <2>2. Append(s, m) = s \o <<m>>
    BY AppendIsConcat
  <2>3. Append(h \o s, m) = (h \o s) \o <<m>>
    BY <2>1, AppendIsConcat
  <2>4. (h \o s) \o <<m>> = h \o (s \o <<m>>)
    BY <1>4, ConcatAssociative
  <2>. QED  BY <2>2, <2>3, <2>4
<1>6. Kept(said) = h \o s
  BY <1>1, <1>3 DEF Kept
<1>7. Kept(Append(said, m)) = h \o Persistent(Append(said, m))
  BY <1>3 DEF Kept
<1>8. h \o s \in Seq(LoopMessages) /\ h \o s # <<>>
  BY <1>4, ConcatProperties, ConcatEqualIffEmpty
<1>. QED  BY <1>2, <1>5, <1>6, <1>7, <1>8

\* The answer that is to be kept is the last of what memory should have.
LEMMA AnswerIsLast ==
  ASSUME NEW l \in LoopRecord, l.at = "keep", TalkIsOrdered(l)
  PROVE  /\ Last(l.said) \in LoopMessages
         /\ Front(Kept(l.said)) \in Seq(LoopMessages) /\ Front(Kept(l.said)) # <<>>
         /\ Append(Front(Kept(l.said)), Last(l.said)) = Kept(l.said)
<1>1. PICK said \in Seq(LoopMessages) : said = l.said
  BY DEF LoopRecord
<1>2. Len(said) \in Answers(said)
  BY <1>1 DEF TalkIsOrdered, Batch
<1>3. said # <<>> /\ said[Len(said)].role = "assistant"
  <2>1. Len(said) \in 1 .. Len(said)
    BY <1>2, AnswersStand DEF LoopMessages
  <2>. QED  BY <1>2, <2>1, EmptySeq DEF Answers
<1>4. PICK s \in Seq(LoopMessages), e \in LoopMessages : said = Append(s, e)
  BY <1>3, SequenceEmptyOrAppend
<1>5. Last(said) = e /\ Len(said) = Len(s) + 1
  BY <1>4, FrontAndLast, AppendProperties
<1>6. e.role = "assistant"
  BY <1>3, <1>5 DEF Last
<1>7. /\ Kept(s) \in Seq(LoopMessages) /\ Kept(s) # <<>>
      /\ Kept(l.said) = Append(Kept(s), e)
  BY <1>1, <1>4, <1>6, KeptGrows
<1>8. Front(Kept(l.said)) = Kept(s)
  BY <1>7, FrontAndLast
<1>. QED  BY <1>1, <1>5, <1>7, <1>8

\* A tool result keeps what is said in order, and memory needs nothing.
LEMMA ResultKeepsOrder ==
  ASSUME NEW l \in LoopRecord, l.at = "tools", TalkIsOrdered(l),
         NEW active \in Seq(LoopTools), Distinct(active),
         NEW next, next = NextIteration(Answered([l EXCEPT !.active = active]))
  PROVE  /\ next \in LoopRecord /\ TalkIsOrdered(next)
         /\ next.at # "keep" /\ Kept(next.said) = Kept(l.said)
<1>1. PICK said \in Seq(LoopMessages), due \in Seq(LoopTools), p \in Nat :
        said = l.said /\ due = l.todo /\ due # <<>> /\ Batch(said, due, p)
  BY DEF LoopRecord, TalkIsOrdered
<1>2. PICK u \in Nat : u = Unanswered(said, due)
  BY <1>1, BatchGoesOn DEF LoopMessages
<1>3. PICK more : more = Append(said, ToolResult(u))
  OBVIOUS
<1>4. PICK left \in Seq(LoopTools) : left = Tail(due)
  BY <1>1, HeadTailProperties
<1>5. Batch(more, left, p)
  BY <1>1, <1>2, <1>3, <1>4, BatchGoesOn DEF LoopMessages
<1>6. ToolResult(u) \in LoopMessages /\ ToolResult(u).role = "tool" /\ more \in Seq(LoopMessages)
  <2>1. ToolResult(u) \in LoopMessages /\ ToolResult(u).role = "tool"
    BY SaidAreMessages, EmptySeq DEF LoopMessages
  <2>. QED  BY <1>3, <2>1, AppendProperties
<1>7. PICK a : a = Answered([l EXCEPT !.active = active])
  OBVIOUS
<1>8. /\ a \in LoopRecord /\ a.at = "tools" /\ a.said = more /\ a.todo = left
      /\ a.active = active /\ a.iter \in Nat /\ a.told \in Nat
  BY <1>1, <1>2, <1>3, <1>4, <1>6, <1>7 DEF Answered, LoopRecord
<1>9. /\ next \in LoopRecord /\ next.said = more /\ next.todo = left /\ next.active = active
      /\ \/ next.at = "tools" /\ left # <<>>
         \/ next.at = "ask" /\ left = <<>>
         \/ next.at = "done"
  <2>1. next = NextIteration(a) /\ a.iter + 1 \in Nat /\ a.told + 1 \in Nat
    BY <1>7, <1>8
  <2>2. CASE left # <<>>
    BY <1>8, <2>1, <2>2 DEF NextIteration
  <2>3. CASE left = <<>> /\ a.iter + 1 >= LoopMaxIter
    <3>1. next = [[a EXCEPT !.iter = @ + 1] EXCEPT !.at = "done", !.told = @ + 1]
      BY <1>8, <2>1, <2>3 DEF NextIteration, Returns
    <3>. QED  BY <1>8, <2>1, <3>1 DEF LoopRecord, LoopPlaces
  <2>4. CASE left = <<>> /\ ~ (a.iter + 1 >= LoopMaxIter)
    <3>1. next = [a EXCEPT !.at = "ask", !.iter = @ + 1]
      BY <1>8, <2>1, <2>4 DEF NextIteration
    <3>. QED  BY <1>8, <2>1, <2>4, <3>1 DEF LoopRecord, LoopPlaces
  <2>. QED  BY <2>2, <2>3, <2>4
<1>10. left = <<>> => AnsweredInOrder(more)
  BY <1>5, <1>6, BatchEnds DEF LoopMessages
<1>11. TalkIsOrdered(next)
  BY <1>5, <1>9, <1>10 DEF TalkIsOrdered
<1>12. Kept(next.said) = Kept(l.said)
  BY <1>1, <1>3, <1>6, <1>9, KeptGrows
<1>. QED  BY <1>9, <1>11, <1>12

\* A step of one run, when the sessions of the others are there or gone.
LEMMA OneRunTalks ==
  ASSUME LoopTyped, TalkInv, NEW r \in AgentRuns, NEW next \in LoopRecord,
         agentRun' = [agentRun EXCEPT ![r] = next],
         "sessions" \in DOMAIN memory', memory'.sessions \in [AgentRuns -> Seq(LoopMessages)],
         \A q \in AgentRuns : q # r => memory'.sessions[q] \in {<<>>, memory.sessions[q]},
         TalkIsOrdered(next), SessionHas(memory'.sessions[r], next)
  PROVE  LoopTyped' /\ TalkInv'
<1>1. agentRun' \in [AgentRuns -> LoopRecord]
  BY DEF LoopTyped
<1>2. agentRun'[r] = next /\ \A q \in AgentRuns : q # r => agentRun'[q] = agentRun[q]
  BY DEF LoopTyped
<1>3. ASSUME NEW q \in AgentRuns, q # r
      PROVE  TalkIsOrdered(agentRun'[q]) /\ SessionHas(memory'.sessions[q], agentRun'[q])
  <2>1. agentRun'[q] = agentRun[q] /\ memory'.sessions[q] \in {<<>>, memory.sessions[q]}
    BY <1>2, <1>3
  <2>2. TalkIsOrdered(agentRun[q]) /\ SessionHas(memory.sessions[q], agentRun[q])
    BY DEF TalkInv
  <2>3. SessionHas(<<>>, agentRun[q])
    BY DEF SessionHas
  <2>. QED  BY <2>1, <2>2, <2>3
<1>. QED  BY <1>1, <1>2, <1>3 DEF LoopTyped, TalkInv

\* A step of memory, when sessions are there or gone.
LEMMA MemoryLoses ==
  ASSUME LoopTyped, TalkInv, "sessions" \in DOMAIN memory', agentRun' \in [AgentRuns -> LoopRecord],
         memory'.sessions \in [AgentRuns -> Seq(LoopMessages)],
         \A q \in AgentRuns :
           /\ memory'.sessions[q] \in {<<>>, memory.sessions[q]}
           /\ agentRun'[q].at = agentRun[q].at /\ agentRun'[q].said = agentRun[q].said
           /\ agentRun'[q].active = agentRun[q].active /\ agentRun'[q].todo = agentRun[q].todo
  PROVE  LoopTyped' /\ TalkInv'
<1>1. ASSUME NEW q \in AgentRuns
      PROVE  TalkIsOrdered(agentRun'[q]) /\ SessionHas(memory'.sessions[q], agentRun'[q])
  <2>1. TalkIsOrdered(agentRun[q]) /\ SessionHas(memory.sessions[q], agentRun[q])
    BY DEF TalkInv
  <2>2. TalkIsOrdered(agentRun'[q])
    BY <2>1 DEF TalkIsOrdered
  <2>3. SessionHas(memory'.sessions[q], agentRun[q])
    <3>1. SessionHas(<<>>, agentRun[q])
      BY DEF SessionHas
    <3>. QED  BY <2>1, <3>1
  <2>4. SessionHas(memory'.sessions[q], agentRun'[q])
    BY <2>3 DEF SessionHas
  <2>. QED  BY <2>2, <2>4
<1>. QED  BY <1>1 DEF LoopTyped, TalkInv

\* AddMessage adds to a session that is there, and to no other.
LEMMA MessageAdded ==
  ASSUME LoopTyped, NEW r \in AgentRuns, NEW m \in LoopMessages, AddMessage(r, m)
  PROVE  /\ "sessions" \in DOMAIN memory' /\ memory'.sessions \in [AgentRuns -> Seq(LoopMessages)]
         /\ \A q \in AgentRuns : q # r => memory'.sessions[q] = memory.sessions[q]
         /\ memory'.sessions[r] =
              IF memory.sessions[r] = <<>> THEN <<>> ELSE Append(memory.sessions[r], m)
<1>1. PICK old \in [AgentRuns -> Seq(LoopMessages)] : old = memory.sessions
  BY DEF LoopTyped
<1>2. "sessions" \in DOMAIN memory
  BY DEF LoopTyped
<1>3. CASE old[r] = <<>>
  <2>1. memory' = memory
    BY <1>1, <1>3 DEF AddMessage, LiveSessions
  <2>. QED  BY <1>1, <1>2, <1>3, <2>1
<1>4. CASE old[r] # <<>>
  <2>1. PICK s \in Seq(LoopMessages) : s = Append(old[r], m)
    BY AppendProperties
  <2>2. memory' = Touched(memory, r, s)
    BY <1>1, <1>4, <2>1 DEF AddMessage, LiveSessions
  <2>3. "sessions" \in DOMAIN memory' /\ memory'.sessions = [old EXCEPT ![r] = s]
    BY <1>1, <1>2, <2>2, SessionsTouched
  <2>. QED  BY <1>1, <1>4, <2>1, <2>3
<1>. QED  BY <1>3, <1>4

\* What a conversation that has not begun says, and one that has.
LEMMA TalkBegins ==
  /\ Persistent(<<>>) = <<>> /\ Kept(<<>>) = <<SessionStarted>>
  /\ AnsweredInOrder(<<>>) /\ AnsweredInOrder(<<FromUser>>)
  /\ Append(<<>>, FromUser) = <<FromUser>> /\ FromUser \in LoopMessages
  /\ SessionStarted \in LoopMessages
<1>1. FromUser \in LoopMessages /\ SessionStarted \in LoopMessages /\ FromUser.role = "user"
  BY SaidAreMessages, EmptySeq DEF LoopMessages
<1>2. PICK P : P = {i \in DOMAIN <<>> : <<>>[i].role # "tool"}
  OBVIOUS
<1>3. P = {}
  BY <1>2
<1>4. Persistent(<<>>) = Picked(<<>>, {})
  BY <1>2, <1>3 DEF Persistent
<1>5. Len(Picked(<<>>, {})) = 0 /\ Picked(<<>>, {}) \in Seq({})
  <2>1. {} \in SUBSET (1 .. Len(<<>>)) /\ <<>> \in Seq({})
    OBVIOUS
  <2>2. Cardinality({}) = 0
    BY FS_EmptySet
  <2>. QED  BY <2>1, <2>2, PickedByRank
<1>6. Persistent(<<>>) = <<>>
  BY <1>4, <1>5, EmptySeq
<1>7. Kept(<<>>) = <<SessionStarted>>
  <2>1. <<SessionStarted>> \in Seq(LoopMessages)
    BY <1>1
  <2>2. <<SessionStarted>> \o <<>> = <<SessionStarted>>
    BY <2>1, ConcatEmptySeq
  <2>. QED  BY <1>6, <2>2 DEF Kept
<1>8. AnsweredInOrder(<<>>)
  BY DEF AnsweredInOrder
<1>9. AnsweredInOrder(<<FromUser>>)
  <2>1. DOMAIN <<FromUser>> = {1} /\ <<FromUser>>[1].role = "user"
    BY <1>1
  <2>. QED  BY <2>1 DEF AnsweredInOrder
<1>10. Append(<<>>, FromUser) = <<FromUser>>
  OBVIOUS
<1>. QED  BY <1>1, <1>6, <1>7, <1>8, <1>9, <1>10

LEMMA TalkStarts ==
  ASSUME AgentLoopInit
  PROVE  LoopTyped /\ TalkInv
<1>1. NewLoop \in LoopRecord
  <2>1. <<DiscoverTools>> \in Seq(LoopTools)
    BY DEF LoopTools
  <2>. QED  BY <2>1 DEF NewLoop, LoopRecord, LoopPlaces
<1>2. TalkIsOrdered(NewLoop)
  <2>1. Distinct(<<DiscoverTools>>)
    BY DEF Distinct
  <2>. QED  BY <2>1 DEF NewLoop, TalkIsOrdered
<1>3. /\ "sessions" \in DOMAIN memory /\ memory.sessions = [r \in AgentRuns |-> <<>>]
      /\ agentRun = [r \in AgentRuns |-> NewLoop]
  BY DEF AgentLoopInit
<1>4. SessionHas(<<>>, NewLoop)
  BY DEF SessionHas
<1>. QED  BY <1>1, <1>2, <1>3, <1>4 DEF LoopTyped, TalkInv

LEMMA TalkKeeps ==
  ASSUME LoopTyped, TalkInv, [AgentLoopNext]_agentLoopVars
  PROVE  LoopTyped' /\ TalkInv'
<1>0. "sessions" \in DOMAIN memory /\ memory.sessions \in [AgentRuns -> Seq(LoopMessages)]
  BY DEF LoopTyped
<1>. PICK old \in [AgentRuns -> Seq(LoopMessages)] : old = memory.sessions
  BY <1>0
<1>1. ASSUME NEW r \in AgentRuns
      PROVE  /\ agentRun[r] \in LoopRecord /\ TalkIsOrdered(agentRun[r])
             /\ SessionHas(old[r], agentRun[r]) /\ old[r] \in Seq(LoopMessages)
  BY DEF LoopTyped, TalkInv
<1>2. ASSUME NEW r \in AgentRuns, CreateSession(r) PROVE LoopTyped' /\ TalkInv'
  <2>1. PICK room : /\ room = memory \/ \E gone : room = Without(memory, gone)
                    /\ memory' = Touched(room, r, <<SessionStarted>>)
    BY <1>2 DEF CreateSession
  <2>2. /\ "sessions" \in DOMAIN room /\ room.sessions \in [AgentRuns -> Seq(LoopMessages)]
        /\ \A q \in AgentRuns : room.sessions[q] \in {<<>>, old[q]}
    <3>1. CASE room = memory
      BY <1>0, <3>1
    <3>2. ASSUME NEW gone, room = Without(memory, gone)
          PROVE  /\ "sessions" \in DOMAIN room /\ room.sessions \in [AgentRuns -> Seq(LoopMessages)]
                 /\ \A q \in AgentRuns : room.sessions[q] \in {<<>>, old[q]}
      <4>1. /\ "sessions" \in DOMAIN Without(memory, gone)
            /\ Without(memory, gone).sessions \in [AgentRuns -> Seq(LoopMessages)]
            /\ \A q \in AgentRuns : Without(memory, gone).sessions[q] \in {<<>>, memory.sessions[q]}
        BY <1>0, SessionsGone
      <4>. QED  BY <3>2, <4>1
    <3>. QED  BY <2>1, <3>1, <3>2
  <2>3. /\ "sessions" \in DOMAIN memory'
        /\ memory'.sessions = [room.sessions EXCEPT ![r] = <<SessionStarted>>]
    BY <2>1, <2>2, SessionsTouched
  <2>4. <<SessionStarted>> \in Seq(LoopMessages)
    BY TalkBegins
  <2>5. /\ memory'.sessions \in [AgentRuns -> Seq(LoopMessages)]
        /\ memory'.sessions[r] = <<SessionStarted>>
        /\ \A q \in AgentRuns : q # r => memory'.sessions[q] \in {<<>>, memory.sessions[q]}
    BY <2>2, <2>3, <2>4
  <2>6. PICK next : next = [agentRun[r] EXCEPT !.at = "build"]
    OBVIOUS
  <2>7. next \in LoopRecord /\ next.at = "build" /\ next.said = <<>> /\ TalkIsOrdered(next)
    <3>1. agentRun[r].said = <<>> /\ Distinct(agentRun[r].active)
      BY <1>1, <1>2 DEF CreateSession, TalkIsOrdered
    <3>2. /\ next \in LoopRecord /\ next.at = "build" /\ next.said = agentRun[r].said
          /\ next.active = agentRun[r].active
      BY <1>1, <2>6 DEF LoopRecord, LoopPlaces
    <3>. QED  BY <3>1, <3>2 DEF TalkIsOrdered
  <2>8. SessionHas(memory'.sessions[r], next)
    BY <2>5, <2>7, TalkBegins DEF SessionHas
  <2>9. agentRun' = [agentRun EXCEPT ![r] = next]
    BY <1>2, <2>6 DEF CreateSession, LoopTyped
  <2>. QED  BY <2>3, <2>5, <2>7, <2>8, <2>9, OneRunTalks
<1>3. ASSUME NEW r \in AgentRuns, BuildMessages(r) PROVE LoopTyped' /\ TalkInv'
  <2>1. AddMessage(r, FromUser) /\ agentRun[r].said = <<>> /\ agentRun[r].at = "build"
    BY <1>1, <1>3 DEF BuildMessages, TalkIsOrdered
  <2>2. /\ "sessions" \in DOMAIN memory' /\ memory'.sessions \in [AgentRuns -> Seq(LoopMessages)]
        /\ \A q \in AgentRuns : q # r => memory'.sessions[q] = memory.sessions[q]
        /\ memory'.sessions[r] = IF old[r] = <<>> THEN <<>> ELSE Append(old[r], FromUser)
    BY <2>1, TalkBegins, MessageAdded
  <2>3. old[r] # <<>> => old[r] = Kept(<<>>)
    BY <1>1, <2>1 DEF SessionHas
  <2>4. Append(Kept(<<>>), FromUser) = Kept(<<FromUser>>)
    <3>1. FromUser.role # "tool"
      BY DEF FromUser, Said
    <3>2. <<>> \in Seq(LoopMessages)
      BY EmptySeq
    <3>. QED  BY <3>1, <3>2, TalkBegins, KeptGrows
  <2>5. PICK next : next = [agentRun[r] EXCEPT !.at = "ask", !.said = <<FromUser>>]
    OBVIOUS
  <2>6. /\ next \in LoopRecord /\ next.at = "ask" /\ next.said = <<FromUser>>
        /\ next.active = agentRun[r].active
    <3>1. <<FromUser>> \in Seq(LoopMessages)
      BY TalkBegins
    <3>. QED  BY <1>1, <2>5, <3>1 DEF LoopRecord, LoopPlaces
  <2>7. TalkIsOrdered(next)
    <3>1. Distinct(next.active)
      BY <1>1, <2>6 DEF TalkIsOrdered
    <3>. QED  BY <2>6, <3>1, TalkBegins DEF TalkIsOrdered
  <2>8. SessionHas(memory'.sessions[r], next)
    BY <2>2, <2>3, <2>4, <2>6 DEF SessionHas
  <2>9. agentRun' = [agentRun EXCEPT ![r] = next]
    BY <1>3, <2>5 DEF BuildMessages, LoopTyped
  <2>. QED  BY <2>2, <2>6, <2>7, <2>8, <2>9, OneRunTalks
<1>4. ASSUME NEW r \in AgentRuns, Generate(r) PROVE LoopTyped' /\ TalkInv'
  <2>1. PICK calls \in BoundedSeq(LoopTools, MaxCalls[r]), cost \in {0, 1} :
          LET spent == [agentRun[r] EXCEPT !.tokens = @ + cost]
              over == LoopMaxTokens > 0 /\ spent.tokens >= LoopMaxTokens
          IN agentRun' = [agentRun EXCEPT ![r] =
               IF over \/ spent.late THEN Returns(spent)
               ELSE [spent EXCEPT !.at = "keep", !.said = Append(@, Answer(calls)),
                                  !.todo = calls]]
    BY <1>4 DEF Generate, LoopTools
  <2>2. PICK spent : spent = [agentRun[r] EXCEPT !.tokens = @ + cost]
    OBVIOUS
  <2>3. PICK next : /\ \/ next = Returns(spent)
                       \/ next = [spent EXCEPT !.at = "keep", !.said = Append(@, Answer(calls)),
                                               !.todo = calls]
                    /\ agentRun' = [agentRun EXCEPT ![r] = next]
    BY <2>1, <2>2
  <2>4. calls \in Seq(LoopTools)
    <3>1. MaxCalls[r] \in Nat
      BY AgentLoopAssumption
    <3>. QED  BY <3>1, BoundedAreSequences
  <2>5. agentRun[r].at = "ask" /\ memory' = memory
    BY <1>4 DEF Generate
  <2>6. PICK said \in Seq(LoopMessages) : said = agentRun[r].said /\ AnsweredInOrder(said)
    BY <1>1, <2>5 DEF LoopRecord, TalkIsOrdered
  <2>7. /\ spent \in LoopRecord /\ spent.said = said /\ spent.active = agentRun[r].active
        /\ Distinct(spent.active)
    <3>1. agentRun[r].tokens + cost \in Nat
      BY <1>1 DEF LoopRecord
    <3>. QED  BY <1>1, <2>2, <2>6, <3>1 DEF LoopRecord, TalkIsOrdered
  <2>8. next \in LoopRecord /\ TalkIsOrdered(next) /\ SessionHas(memory'.sessions[r], next)
    <3>1. CASE next = Returns(spent)
      <4>1. /\ next \in LoopRecord /\ next.at = "done" /\ next.said = said
            /\ next.active = spent.active
        <5>1. next = [spent EXCEPT !.at = "done", !.told = @ + 1] /\ spent.told + 1 \in Nat
          BY <2>7, <3>1 DEF Returns, LoopRecord
        <5>. QED  BY <2>7, <5>1 DEF LoopRecord, LoopPlaces
      <4>2. TalkIsOrdered(next)
        BY <2>7, <4>1 DEF TalkIsOrdered
      <4>3. SessionHas(memory'.sessions[r], next)
        BY <1>1, <2>5, <2>6, <4>1 DEF SessionHas
      <4>. QED  BY <4>1, <4>2, <4>3
    <3>2. CASE next = [spent EXCEPT !.at = "keep", !.said = Append(@, Answer(calls)),
                                    !.todo = calls]
      <4>1. PICK answer \in LoopMessages : answer = Answer(calls) /\ answer.role = "assistant"
        BY <2>4, SaidAreMessages DEF LoopMessages
      <4>2. PICK more \in Seq(LoopMessages) : more = Append(said, answer)
        BY AppendProperties
      <4>3. /\ next \in LoopRecord /\ next.at = "keep" /\ next.said = more /\ next.todo = calls
            /\ next.active = spent.active
        BY <2>4, <2>7, <3>2, <4>1, <4>2 DEF LoopRecord, LoopPlaces
      <4>4. Len(more) = Len(said) + 1
        BY <4>2, AppendProperties
      <4>5. Batch(more, calls, Len(more))
        BY <2>4, <2>6, <4>1, <4>2, <4>4, BatchBegins DEF LoopMessages
      <4>6. TalkIsOrdered(next)
        BY <2>7, <4>3, <4>5 DEF TalkIsOrdered
      <4>7. /\ Kept(said) \in Seq(LoopMessages) /\ Kept(more) = Append(Kept(said), answer)
        BY <4>1, <4>2, KeptGrows
      <4>8. Front(Kept(more)) = Kept(said)
        BY <4>7, FrontAndLast
      <4>9. SessionHas(memory'.sessions[r], next)
        BY <1>1, <2>5, <2>6, <4>3, <4>8 DEF SessionHas
      <4>. QED  BY <4>3, <4>6, <4>9
    <3>. QED  BY <2>3, <3>1, <3>2
  <2>. QED  BY <1>0, <2>3, <2>5, <2>8, OneRunTalks
<1>5. ASSUME NEW r \in AgentRuns, GenerateFails(r) \/ HumanInputFails(r) PROVE LoopTyped' /\ TalkInv'
  <2>1. PICK next : next = [agentRun[r] EXCEPT !.at = "failed"]
    OBVIOUS
  <2>2. /\ agentRun' = [agentRun EXCEPT ![r] = next] /\ memory' = memory
        /\ agentRun[r].at # "keep"
    BY <1>5, <2>1 DEF GenerateFails, HumanInputFails, LoopTyped
  <2>3. /\ next \in LoopRecord /\ next.at = "failed" /\ next.said = agentRun[r].said
        /\ next.active = agentRun[r].active
    BY <1>1, <2>1 DEF LoopRecord, LoopPlaces
  <2>4. TalkIsOrdered(next)
    BY <1>1, <2>3 DEF TalkIsOrdered
  <2>5. SessionHas(memory'.sessions[r], next)
    BY <1>1, <2>2, <2>3 DEF SessionHas
  <2>. QED  BY <1>0, <2>2, <2>3, <2>4, <2>5, OneRunTalks
<1>6. ASSUME NEW r \in AgentRuns, KeepAnswer(r) PROVE LoopTyped' /\ TalkInv'
  <2>1. /\ agentRun[r].at = "keep" /\ AddMessage(r, Last(agentRun[r].said))
        /\ agentRun' = [agentRun EXCEPT ![r] = IF @.todo = <<>> THEN Returns(@)
                                               ELSE [@ EXCEPT !.at = "tools"]]
    BY <1>6 DEF KeepAnswer
  <2>2. PICK last \in LoopMessages, front \in Seq(LoopMessages), said \in Seq(LoopMessages) :
          /\ last = Last(said) /\ front = Front(Kept(said)) /\ front # <<>>
          /\ said = agentRun[r].said /\ Append(front, last) = Kept(said)
    <3>1. agentRun[r].said \in Seq(LoopMessages)
      BY <1>1 DEF LoopRecord
    <3>. QED  BY <1>1, <2>1, <3>1, AnswerIsLast
  <2>3. AddMessage(r, last)
    BY <2>1, <2>2
  <2>4. /\ "sessions" \in DOMAIN memory' /\ memory'.sessions \in [AgentRuns -> Seq(LoopMessages)]
        /\ \A q \in AgentRuns : q # r => memory'.sessions[q] = memory.sessions[q]
        /\ memory'.sessions[r] = IF old[r] = <<>> THEN <<>> ELSE Append(old[r], last)
    BY <2>3, MessageAdded
  <2>5. old[r] # <<>> => old[r] = front
    BY <1>1, <2>1, <2>2 DEF SessionHas
  <2>6. PICK next : next = IF agentRun[r].todo = <<>> THEN Returns(agentRun[r])
                           ELSE [agentRun[r] EXCEPT !.at = "tools"]
    OBVIOUS
  <2>7. /\ next \in LoopRecord /\ next.said = said /\ next.active = agentRun[r].active
        /\ next.todo = agentRun[r].todo
        /\ next.at = "done" \/ (next.at = "tools" /\ next.todo # <<>>)
    <3>1. CASE agentRun[r].todo = <<>>
      <4>1. /\ next = [agentRun[r] EXCEPT !.at = "done", !.told = @ + 1]
            /\ agentRun[r].told + 1 \in Nat
        BY <1>1, <2>6, <3>1 DEF Returns, LoopRecord
      <4>. QED  BY <1>1, <2>2, <4>1 DEF LoopRecord, LoopPlaces
    <3>2. CASE agentRun[r].todo # <<>>
      <4>1. next = [agentRun[r] EXCEPT !.at = "tools"]
        BY <2>6, <3>2
      <4>. QED  BY <1>1, <2>2, <3>2, <4>1 DEF LoopRecord, LoopPlaces
    <3>. QED  BY <3>1, <3>2
  <2>8. TalkIsOrdered(next)
    <3>1. Batch(said, agentRun[r].todo, Len(said)) /\ Distinct(agentRun[r].active)
      BY <1>1, <2>1, <2>2 DEF TalkIsOrdered
    <3>2. Len(said) \in Nat
      BY LenProperties
    <3>. QED  BY <2>7, <3>1, <3>2 DEF TalkIsOrdered
  <2>9. SessionHas(memory'.sessions[r], next)
    BY <2>2, <2>4, <2>5, <2>7 DEF SessionHas
  <2>10. agentRun' = [agentRun EXCEPT ![r] = next]
    BY <2>1, <2>6 DEF LoopTyped
  <2>. QED  BY <2>4, <2>7, <2>8, <2>9, <2>10, OneRunTalks
<1>7. ASSUME NEW r \in AgentRuns, ToolRejected(r) \/ ToolRuns(r) PROVE LoopTyped' /\ TalkInv'
  <2>1. agentRun[r].at = "tools" /\ memory' = memory
    BY <1>7 DEF ToolRejected, ToolRuns
  <2>2. PICK active \in Seq(LoopTools) :
          /\ Distinct(active)
          /\ agentRun' = [agentRun EXCEPT ![r] =
                            NextIteration(Answered([agentRun[r] EXCEPT !.active = active]))]
    <3>1. agentRun[r].active \in Seq(LoopTools) /\ Distinct(agentRun[r].active)
      BY <1>1 DEF LoopRecord, TalkIsOrdered
    <3>2. CASE ToolRejected(r)
      <4>1. [agentRun[r] EXCEPT !.active = agentRun[r].active] = agentRun[r]
        BY <1>1 DEF LoopRecord
      <4>2. agentRun' = [agentRun EXCEPT ![r] = NextIteration(Answered(agentRun[r]))]
        BY <3>2 DEF ToolRejected, Rejected, LoopTyped
      <4>. QED  BY <3>1, <4>1, <4>2
    <3>3. CASE ToolRuns(r)
      <4>1. PICK found \in BoundedSeq(ToolPool, 2) :
              agentRun' = [agentRun EXCEPT ![r] =
                NextIteration(Answered([agentRun[r] EXCEPT !.active = Expanded(@, found)]))]
        BY <3>3 DEF ToolRuns
      <4>2. found \in Seq(LoopTools)
        <5>1. found \in Seq(ToolPool)
          BY BoundedAreSequences
        <5>. QED  BY <5>1, SeqMonotonic DEF LoopTools
      <4>3. PICK active : active = Expanded(agentRun[r].active, found)
        OBVIOUS
      <4>4. active \in Seq(LoopTools) /\ Distinct(active)
        BY <3>1, <4>2, <4>3, ExpandedStaysDistinct
      <4>5. agentRun' = [agentRun EXCEPT ![r] =
                           NextIteration(Answered([agentRun[r] EXCEPT !.active = active]))]
        <5>1. [agentRun[r] EXCEPT !.active = Expanded(@, found)] =
                [agentRun[r] EXCEPT !.active = active]
          BY <4>3
        <5>. QED  BY <4>1, <5>1
      <4>. QED  BY <4>4, <4>5
    <3>. QED  BY <1>7, <3>2, <3>3
  <2>3. PICK next : next = NextIteration(Answered([agentRun[r] EXCEPT !.active = active]))
    OBVIOUS
  <2>4. /\ next \in LoopRecord /\ TalkIsOrdered(next)
        /\ next.at # "keep" /\ Kept(next.said) = Kept(agentRun[r].said)
    BY <1>1, <2>1, <2>2, <2>3, ResultKeepsOrder
  <2>5. SessionHas(memory'.sessions[r], next)
    BY <1>1, <2>1, <2>4 DEF SessionHas
  <2>6. agentRun' = [agentRun EXCEPT ![r] = next]
    BY <2>2, <2>3
  <2>. QED  BY <1>0, <2>1, <2>4, <2>5, <2>6, OneRunTalks
<1>8. ASSUME agentRun' = agentRun, NEW gone, NEW m, m = Without(memory, gone),
             memory' = m \/ memory' = [m EXCEPT !.cleaning = FALSE]
      PROVE  LoopTyped' /\ TalkInv'
  <2>1. /\ "sessions" \in DOMAIN Without(memory, gone)
        /\ Without(memory, gone).sessions \in [AgentRuns -> Seq(LoopMessages)]
        /\ \A q \in AgentRuns : Without(memory, gone).sessions[q] \in {<<>>, memory.sessions[q]}
    BY <1>0, SessionsGone
  <2>2. "sessions" \in DOMAIN memory' /\ memory'.sessions = m.sessions
    BY <1>8, <2>1
  <2>4. /\ memory'.sessions \in [AgentRuns -> Seq(LoopMessages)]
        /\ \A q \in AgentRuns : memory'.sessions[q] \in {<<>>, memory.sessions[q]}
    BY <1>8, <2>1, <2>2
  <2>5. agentRun' \in [AgentRuns -> LoopRecord]
    BY <1>8 DEF LoopTyped
  <2>. QED  BY <1>8, <2>2, <2>4, <2>5, MemoryLoses
<1>9. ASSUME ExpireSessions \/ StopMemory \/ \E r \in AgentRuns : DeleteSession(r)
      PROVE  LoopTyped' /\ TalkInv'
  BY <1>8, <1>9 DEF ExpireSessions, StopMemory, DeleteSession
<1>10. ASSUME LoopTick PROVE LoopTyped' /\ TalkInv'
  <2>1. "sessions" \in DOMAIN memory' /\ memory'.sessions = memory.sessions
    BY <1>0, <1>10 DEF LoopTick
  <2>2. PICK overdue : agentRun' = [r \in AgentRuns |->
          IF r \in overdue THEN [agentRun[r] EXCEPT !.late = TRUE] ELSE agentRun[r]]
    BY <1>10 DEF LoopTick
  <2>3. ASSUME NEW q \in AgentRuns
        PROVE  /\ agentRun'[q] \in LoopRecord
               /\ agentRun'[q].at = agentRun[q].at /\ agentRun'[q].said = agentRun[q].said
               /\ agentRun'[q].active = agentRun[q].active /\ agentRun'[q].todo = agentRun[q].todo
    <3>1. agentRun'[q] = IF q \in overdue THEN [agentRun[q] EXCEPT !.late = TRUE] ELSE agentRun[q]
      BY <2>2
    <3>. QED  BY <1>1, <3>1 DEF LoopRecord
  <2>4. agentRun' \in [AgentRuns -> LoopRecord]
    BY <2>2, <2>3
  <2>. QED  BY <1>0, <2>1, <2>3, <2>4, MemoryLoses
<1>11. ASSUME UNCHANGED agentLoopVars PROVE LoopTyped' /\ TalkInv'
  BY <1>11 DEF agentLoopVars, LoopTyped, TalkInv
<1>. QED  BY <1>2, <1>3, <1>4, <1>5, <1>6, <1>7, <1>9, <1>10, <1>11 DEF AgentLoopNext

\* The requests: RequestIsWellFormed of every reachable state.  What is sent
\* to the model answers every tool call once and in order, and offers no tool
\* twice, for any number of runs, tools and calls in an answer.
THEOREM RequestsWellFormed == AgentLoopSpec => []RequestIsWellFormed
<1>1. AgentLoopInit => LoopTyped /\ TalkInv
  BY TalkStarts
<1>2. LoopTyped /\ TalkInv /\ [AgentLoopNext]_agentLoopVars => LoopTyped' /\ TalkInv'
  BY TalkKeeps
<1>3. TalkInv => RequestIsWellFormed
  BY DEF TalkInv, TalkIsOrdered, Distinct, RequestIsWellFormed
<1>. QED  BY <1>1, <1>2, <1>3, PTL DEF AgentLoopSpec

\* The sessions: MemoryHasNoGaps of every reachable state.  A session memory
\* still has holds all its run has said that is persistent, whatever evicts,
\* expires and deletes the others or itself.
THEOREM MemoryWhole == AgentLoopSpec => []MemoryHasNoGaps
<1>1. AgentLoopInit => LoopTyped /\ TalkInv
  BY TalkStarts
<1>2. LoopTyped /\ TalkInv /\ [AgentLoopNext]_agentLoopVars => LoopTyped' /\ TalkInv'
  BY TalkKeeps
<1>3. TalkInv => MemoryHasNoGaps
  BY DEF TalkInv, SessionHas, Kept, LiveSessions, MemoryHasNoGaps
<1>. QED  BY <1>1, <1>2, <1>3, PTL DEF AgentLoopSpec

-----------------------------------------------------------------------------
(* The execution quanta of a task.                                         *)

QuantumMessages == Message({AnyTool})
QuantumRecord ==
  [state : {"READY", "RUNNING", "COMPLETED", "FAILED"}, attempts : Nat,
   stored : Seq(QuantumMessages), said : Seq(QuantumMessages), todo : Seq({AnyTool}),
   at : {"none", "acquired", "ask", "text", "typed", "tools", "progressed", "answered", "failed"},
   shape : ExecutorShapes]

(* What is said goes on from what is stored.                               *)
GoesOn(stored, said) ==
  Len(stored) <= Len(said) /\ \A i \in 1..Len(stored) : said[i] = stored[i]
QuantumInv ==
  /\ exec \in QuantumRecord
  /\ AnsweredInOrder(exec.stored) /\ Round(exec.stored) <= MaxToolRounds
  /\ exec.at = "acquired" => exec.said = exec.stored
  /\ exec.at = "ask" =>
       /\ Round(exec.said) < MaxToolRounds
       /\ exec.said = IF exec.stored = NoStep THEN <<FromUser>> ELSE exec.stored
  /\ exec.at \in {"tools", "progressed"} =>
       Round(exec.said) <= MaxToolRounds /\ GoesOn(exec.stored, exec.said)
  /\ exec.at = "tools" => exec.todo # <<>> /\ \E p \in Nat : Batch(exec.said, exec.todo, p)
  /\ exec.at = "progressed" => AnsweredInOrder(exec.said)

\* A conversation that goes on goes on with one message more.
LEMMA GoesOnFurther ==
  ASSUME NEW T, NEW stored \in Seq(Message(T)), NEW said \in Seq(Message(T)), NEW m \in Message(T),
         GoesOn(stored, said)
  PROVE  GoesOn(stored, Append(said, m))
<1>1. PICK n \in Nat, k \in Nat : n = Len(said) /\ k = Len(stored) /\ k <= n
  BY LenProperties DEF GoesOn
<1>2. PICK more : more = Append(said, m)
  OBVIOUS
<1>3. Len(more) = n + 1 /\ \A i \in 1 .. n : more[i] = said[i]
  BY <1>1, <1>2, OneMore
<1>4. k <= Len(more)
  BY <1>1, <1>3
<1>5. ASSUME NEW i \in 1 .. k PROVE more[i] = stored[i]
  <2>1. i \in 1 .. n
    BY <1>1
  <2>. QED  BY <1>1, <1>3, <2>1 DEF GoesOn
<1>. QED  BY <1>1, <1>2, <1>4, <1>5 DEF GoesOn

\* Nothing said, and the user's first message.
LEMMA QuantumTalkBegins ==
  /\ AnsweredInOrder(<<>>) /\ AnsweredInOrder(<<FromUser>>)
  /\ Round(<<>>) = 0 /\ Round(<<FromUser>>) = 0
  /\ <<>> \in Seq(QuantumMessages) /\ <<FromUser>> \in Seq(QuantumMessages)
  /\ GoesOn(<<>>, <<FromUser>>)
<1>1. FromUser \in QuantumMessages /\ FromUser.role = "user"
  BY SaidAreMessages, EmptySeq DEF QuantumMessages
<1>2. /\ DOMAIN <<>> = {} /\ Len(<<>>) = 0 /\ <<>> \in Seq(QuantumMessages)
      /\ DOMAIN <<FromUser>> = {1} /\ Len(<<FromUser>>) = 1 /\ <<FromUser>>[1].role = "user"
      /\ <<FromUser>> \in Seq(QuantumMessages)
  BY <1>1
<1>3. AnsweredInOrder(<<>>) /\ AnsweredInOrder(<<FromUser>>)
  BY <1>2 DEF AnsweredInOrder
<1>4. Answers(<<>>) = {} /\ Answers(<<FromUser>>) = {}
  BY <1>2 DEF Answers
<1>5. Round(<<>>) = 0 /\ Round(<<FromUser>>) = 0
  BY <1>4, FS_EmptySet DEF Round
<1>6. GoesOn(<<>>, <<FromUser>>)
  BY <1>2 DEF GoesOn
<1>. QED  BY <1>2, <1>3, <1>5, <1>6

LEMMA QuantumStarts ==
  ASSUME QuantumInit
  PROVE  QuantumInv
<1>1. MaxToolRounds \in Nat
  BY QuantumAssumption
<1>2. exec \in QuantumRecord
  <2>1. <<>> \in Seq({AnyTool})
    BY EmptySeq
  <2>. QED  BY <2>1, QuantumTalkBegins DEF QuantumInit, ExecutorShapes, QuantumRecord, NoStep
<1>3. exec.stored = <<>> /\ exec.at = "none"
  BY DEF QuantumInit, NoStep
<1>. QED  BY <1>1, <1>2, <1>3, QuantumTalkBegins DEF QuantumInv

\* A step to a place where nothing is asked of what is said.
LEMMA QuantumRests ==
  ASSUME QuantumInv, exec' \in QuantumRecord, exec'.stored = exec.stored,
         exec'.at \in {"none", "text", "typed", "answered", "failed"}
  PROVE  QuantumInv'
BY DEF QuantumInv

LEMMA QuantumKeeps ==
  ASSUME QuantumInv, [QuantumNext]_exec
  PROVE  /\ QuantumInv'
         /\ exec'.stored # exec.stored => GoesOn(exec.stored, exec'.stored)
<1>0. /\ exec \in QuantumRecord /\ MaxToolRounds \in Nat
      /\ exec.stored \in Seq(QuantumMessages) /\ exec.said \in Seq(QuantumMessages)
  BY QuantumAssumption DEF QuantumInv, QuantumRecord
<1>1. Over \in QuantumRecord /\ Over.stored = exec.stored /\ Over.at = "none"
  <2>1. <<>> \in Seq({AnyTool}) /\ <<>> \in Seq(QuantumMessages)
    BY EmptySeq
  <2>. QED  BY <1>0, <2>1 DEF Over, ExecutorShapes, QuantumRecord, NoStep
<1>2. ASSUME AcquireQuantum PROVE QuantumInv' /\ exec'.stored = exec.stored
  <2>1. PICK shape \in ExecutorShapes :
          exec' = [exec EXCEPT !.state = "RUNNING", !.at = "acquired",
                               !.shape = shape, !.said = exec.stored]
    BY <1>2, QuantumAssumption DEF AcquireQuantum
  <2>2. /\ exec' \in QuantumRecord /\ exec'.at = "acquired" /\ exec'.said = exec.stored
        /\ exec'.stored = exec.stored
    BY <1>0, <2>1 DEF QuantumRecord
  <2>. QED  BY <2>2 DEF QuantumInv
<1>3. ASSUME LoseQuantum PROVE QuantumInv' /\ exec'.stored = exec.stored
  <2>1. /\ exec' \in QuantumRecord /\ exec'.at = exec.at /\ exec'.said = exec.said
        /\ exec'.stored = exec.stored /\ exec'.todo = exec.todo
    BY <1>0, <1>3 DEF LoseQuantum, QuantumRecord
  <2>. QED  BY <2>1 DEF QuantumInv
<1>4. ASSUME StartQuantum PROVE QuantumInv' /\ exec'.stored = exec.stored
  <2>1. exec.at = "acquired" /\ exec.said = exec.stored
    BY <1>4 DEF StartQuantum, QuantumInv
  <2>2. CASE Holds
    <3>0. PICK at : at = Resumed(exec.said, exec.shape)
      OBVIOUS
    <3>1. PICK said \in Seq(QuantumMessages) :
            /\ said = IF exec.stored = NoStep THEN <<FromUser>> ELSE exec.stored
            /\ exec' = [exec EXCEPT !.at = at, !.said = said]
      <4>1. exec' = [exec EXCEPT !.at = at, !.said = IF @ = NoStep THEN <<FromUser>> ELSE @]
        BY <1>4, <2>2, <3>0 DEF StartQuantum
      <4>2. PICK said \in Seq(QuantumMessages) :
              said = IF exec.stored = NoStep THEN <<FromUser>> ELSE exec.stored
        BY <1>0, QuantumTalkBegins
      <4>3. exec' = [exec EXCEPT !.at = at, !.said = said]
        BY <2>1, <4>1, <4>2
      <4>. QED  BY <4>2, <4>3
    <3>2. at \in {"ask", "text", "typed", "failed"}
      BY <3>0 DEF Resumed
    <3>3. /\ exec' \in QuantumRecord /\ exec'.at = at /\ exec'.said = said
          /\ exec'.stored = exec.stored
      BY <1>0, <3>1, <3>2 DEF QuantumRecord
    <3>4. at = "ask" => Round(said) < MaxToolRounds
      <4>1. CASE exec.stored = NoStep
        <5>1. MaxToolRounds # 0
          BY QuantumAssumption
        <5>. QED  BY <1>0, <3>1, <4>1, <5>1, QuantumTalkBegins
      <4>2. CASE exec.stored # NoStep
        <5>1. at = "ask" => ~ (Round(said) >= MaxToolRounds)
          BY <2>1, <3>0, <3>1, <4>2 DEF Resumed
        <5>2. Round(said) \in Nat
          BY <3>1, SaidAreMessages, EmptySeq, RoundGrows DEF QuantumMessages
        <5>. QED  BY <1>0, <5>1, <5>2
      <4>. QED  BY <4>1, <4>2
    <3>. QED  BY <3>1, <3>2, <3>3, <3>4 DEF QuantumInv
  <2>3. CASE ~ Holds
    <3>1. exec' = Over
      BY <1>4, <2>3 DEF StartQuantum
    <3>. QED  BY <1>1, <3>1, QuantumRests
  <2>. QED  BY <2>2, <2>3
<1>5. ASSUME ChatEnds \/ TextOnly \/ ByType PROVE QuantumInv' /\ exec'.stored = exec.stored
  <2>1. PICK outcome \in {"failed", "answered"} : exec' = [exec EXCEPT !.at = outcome]
    BY <1>5 DEF ChatEnds, TextOnly, ByType
  <2>2. exec' \in QuantumRecord /\ exec'.stored = exec.stored /\ exec'.at = outcome
    BY <1>0, <2>1 DEF QuantumRecord
  <2>. QED  BY <2>2, QuantumRests
<1>6. ASSUME ChatCallsTools PROVE QuantumInv' /\ exec'.stored = exec.stored
  <2>0. PICK n \in 1..MaxBatch :
          exec' = [exec EXCEPT !.at = "tools", !.said = Append(@, Answer([k \in 1..n |-> AnyTool])),
                               !.todo = [k \in 1..n |-> AnyTool]]
    BY <1>6 DEF ChatCallsTools
  <2>1. PICK calls :
          /\ calls = [k \in 1..n |-> AnyTool]
          /\ exec' = [exec EXCEPT !.at = "tools", !.said = Append(@, Answer(calls)),
                                  !.todo = calls]
    BY <2>0
  <2>2. calls \in Seq({AnyTool}) /\ calls # <<>>
    <3>1. n \in Nat /\ 1 \in 1 .. n
      BY QuantumAssumption
    <3>2. calls \in [1 .. n -> {AnyTool}] /\ 1 \in DOMAIN calls
      BY <2>1, <3>1
    <3>3. calls \in Seq({AnyTool})
      BY <3>1, <3>2, SeqDef
    <3>. QED  BY <3>2, <3>3
  <2>3. PICK said \in Seq(QuantumMessages) :
          /\ said = exec.said /\ AnsweredInOrder(said) /\ Round(said) < MaxToolRounds
          /\ GoesOn(exec.stored, said)
    <3>1. /\ Round(exec.said) < MaxToolRounds
          /\ exec.said = IF exec.stored = NoStep THEN <<FromUser>> ELSE exec.stored
          /\ AnsweredInOrder(exec.stored)
      BY <1>6 DEF ChatCallsTools, QuantumInv
    <3>2. AnsweredInOrder(exec.said)
      BY <3>1, QuantumTalkBegins
    <3>3. GoesOn(exec.stored, exec.said)
      <4>1. CASE exec.stored = NoStep
        BY <3>1, <4>1, QuantumTalkBegins DEF NoStep
      <4>2. CASE exec.stored # NoStep
        <5>1. exec.said = exec.stored /\ Len(exec.stored) \in Nat
          BY <1>0, <3>1, <4>2, LenProperties
        <5>. QED  BY <5>1 DEF GoesOn
      <4>. QED  BY <4>1, <4>2
    <3>. QED  BY <1>0, <3>1, <3>2, <3>3
  <2>4. PICK answer \in QuantumMessages : answer = Answer(calls) /\ answer.role = "assistant"
    BY <2>2, SaidAreMessages DEF QuantumMessages
  <2>5. PICK more \in Seq(QuantumMessages) : more = Append(said, answer)
    BY AppendProperties
  <2>6. /\ exec' \in QuantumRecord /\ exec'.at = "tools" /\ exec'.said = more
        /\ exec'.todo = calls /\ exec'.stored = exec.stored
    BY <1>0, <2>1, <2>2, <2>3, <2>4, <2>5 DEF QuantumRecord
  <2>7. Round(more) <= MaxToolRounds
    <3>1. Round(said) \in Nat /\ Round(more) = Round(said) + 1
      BY <2>4, <2>5, RoundGrows DEF QuantumMessages
    <3>. QED  BY <1>0, <2>3, <3>1
  <2>8. GoesOn(exec.stored, more)
    BY <1>0, <2>3, <2>5, GoesOnFurther DEF QuantumMessages
  <2>9. PICK p \in Nat : Batch(more, calls, p)
    <3>1. Len(said) + 1 \in Nat
      BY LenProperties
    <3>. QED  BY <2>2, <2>3, <2>4, <2>5, <3>1, BatchBegins DEF QuantumMessages
  <2>. QED  BY <2>2, <2>6, <2>7, <2>8, <2>9 DEF QuantumInv
<1>7. ASSUME RunTool PROVE QuantumInv' /\ exec'.stored = exec.stored
  <2>1. PICK said \in Seq(QuantumMessages), due \in Seq({AnyTool}), p \in Nat :
          /\ said = exec.said /\ due = exec.todo /\ due # <<>> /\ Batch(said, due, p)
          /\ Round(said) <= MaxToolRounds /\ GoesOn(exec.stored, said)
    BY <1>0, <1>7 DEF RunTool, QuantumInv, QuantumRecord
  <2>2. PICK u \in Nat : u = Unanswered(said, due)
    BY <2>1, BatchGoesOn DEF QuantumMessages
  <2>3. PICK result \in QuantumMessages : result = ToolResult(u) /\ result.role = "tool"
    BY SaidAreMessages, EmptySeq DEF QuantumMessages
  <2>4. PICK more \in Seq(QuantumMessages) : more = Append(said, result)
    BY AppendProperties
  <2>5. PICK left \in Seq({AnyTool}) : left = Tail(due)
    BY <2>1, HeadTailProperties
  <2>6. PICK at \in {"progressed", "tools"} : at = IF left = <<>> THEN "progressed" ELSE "tools"
    OBVIOUS
  <2>7. exec' = [exec EXCEPT !.at = at, !.said = more, !.todo = left]
    BY <1>0, <1>7, <2>1, <2>2, <2>3, <2>4, <2>5, <2>6 DEF RunTool, QuantumRecord
  <2>8. /\ exec' \in QuantumRecord /\ exec'.at = at /\ exec'.said = more
        /\ exec'.todo = left /\ exec'.stored = exec.stored
    BY <1>0, <2>6, <2>7 DEF QuantumRecord
  <2>9. Batch(more, left, p)
    BY <2>1, <2>2, <2>3, <2>4, <2>5, BatchGoesOn DEF QuantumMessages
  <2>10. Round(more) <= MaxToolRounds
    BY <2>1, <2>3, <2>4, RoundGrows DEF QuantumMessages
  <2>11. GoesOn(exec.stored, more)
    BY <1>0, <2>1, <2>4, GoesOnFurther DEF QuantumMessages
  <2>12. left = <<>> => AnsweredInOrder(more)
    BY <2>9, BatchEnds DEF QuantumMessages
  <2>. QED  BY <2>6, <2>8, <2>9, <2>10, <2>11, <2>12 DEF QuantumInv
<1>8. ASSUME YieldQuantum
      PROVE  /\ QuantumInv'
             /\ exec'.stored # exec.stored => GoesOn(exec.stored, exec'.stored)
  <2>1. CASE Holds
    <3>1. exec' = [Over EXCEPT !.state = "READY", !.stored = exec.said]
      BY <1>8, <2>1 DEF YieldQuantum
    <3>2. exec' \in QuantumRecord /\ exec'.at = "none" /\ exec'.stored = exec.said
      BY <1>0, <1>1, <3>1 DEF QuantumRecord
    <3>3. /\ AnsweredInOrder(exec.said) /\ Round(exec.said) <= MaxToolRounds
          /\ GoesOn(exec.stored, exec.said)
      BY <1>8 DEF YieldQuantum, QuantumInv
    <3>. QED  BY <3>2, <3>3 DEF QuantumInv
  <2>2. CASE ~ Holds
    <3>1. exec' = Over
      BY <1>8, <2>2 DEF YieldQuantum
    <3>. QED  BY <1>1, <3>1, QuantumRests
  <2>. QED  BY <2>1, <2>2
<1>9. ASSUME FailQuantum PROVE QuantumInv' /\ exec'.stored = exec.stored
  <2>1. PICK state \in {"READY", "FAILED"} :
          exec' = IF Holds THEN [Over EXCEPT !.state = state, !.attempts = @ + 1] ELSE Over
    BY <1>9 DEF FailQuantum
  <2>2. exec' \in QuantumRecord /\ exec'.at = "none" /\ exec'.stored = exec.stored
    <3>1. CASE Holds
      <4>1. Over.attempts + 1 \in Nat
        BY <1>1 DEF QuantumRecord
      <4>. QED  BY <1>1, <2>1, <3>1, <4>1 DEF QuantumRecord
    <3>2. CASE ~ Holds
      BY <1>1, <2>1, <3>2
    <3>. QED  BY <3>1, <3>2
  <2>. QED  BY <2>2, QuantumRests
<1>10. ASSUME CompleteQuantum PROVE QuantumInv' /\ exec'.stored = exec.stored
  <2>1. CASE exec' = [exec EXCEPT !.at = "failed"]
    <3>1. exec' \in QuantumRecord /\ exec'.at = "failed" /\ exec'.stored = exec.stored
      BY <1>0, <2>1 DEF QuantumRecord
    <3>. QED  BY <3>1, QuantumRests
  <2>2. CASE exec' = [Over EXCEPT !.state = IF Holds THEN "COMPLETED" ELSE @]
    <3>1. exec' \in QuantumRecord /\ exec'.at = "none" /\ exec'.stored = exec.stored
      BY <1>1, <2>2 DEF QuantumRecord
    <3>. QED  BY <3>1, QuantumRests
  <2>. QED  BY <1>10, <2>1, <2>2 DEF CompleteQuantum
<1>11. ASSUME UNCHANGED exec PROVE QuantumInv' /\ exec'.stored = exec.stored
  BY <1>11 DEF QuantumInv
<1>. QED  BY <1>2, <1>3, <1>4, <1>5, <1>6, <1>7, <1>8, <1>9, <1>10, <1>11 DEF QuantumNext

\* The stored conversation: ConversationIsWhole of every reachable state.
\* What quanta store and resume is in order and within the budget of rounds,
\* for any budget, size of batch and number of retries.
THEOREM ConversationWhole == QuantumSpec => []ConversationIsWhole
<1>1. QuantumInit => QuantumInv
  BY QuantumStarts
<1>2. QuantumInv /\ [QuantumNext]_exec => QuantumInv'
  BY QuantumKeeps
<1>3. QuantumInv => ConversationIsWhole
  BY DEF QuantumInv, ConversationIsWhole
<1>. QED  BY <1>1, <1>2, <1>3, PTL DEF QuantumSpec

\* The progress: every step of a task's quanta leaves what is stored as it
\* is or goes on from it, though quanta are lost, fail and are refused.
THEOREM ProgressKept == QuantumSpec => ProgressIsNeverLost
<1>1. QuantumInit => QuantumInv
  BY QuantumStarts
<1>2. QuantumInv /\ [QuantumNext]_exec => QuantumInv'
  BY QuantumKeeps
<1>3. QuantumInv /\ QuantumInv' /\ [QuantumNext]_exec =>
        [exec'.stored # exec.stored => IsPrefix(exec.stored, exec'.stored)]_exec
  <2>. SUFFICES ASSUME QuantumInv, QuantumInv', [QuantumNext]_exec, exec'.stored # exec.stored
                PROVE  IsPrefix(exec.stored, exec'.stored)
    OBVIOUS
  <2>1. PICK s \in Seq(QuantumMessages), t \in Seq(QuantumMessages) :
          s = exec.stored /\ t = exec'.stored /\ GoesOn(s, t)
    BY QuantumKeeps DEF QuantumInv, QuantumRecord
  <2>2. PICK n \in Nat, m \in Nat : n = Len(s) /\ m = Len(t) /\ n <= m
    BY <2>1, LenProperties DEF GoesOn
  <2>3. \A i \in 1 .. n : s[i] \in QuantumMessages /\ t[i] \in QuantumMessages /\ t[i] = s[i]
    <3>1. ASSUME NEW i \in 1 .. n PROVE i \in 1 .. m
      BY <2>2
    <3>. QED  BY <2>1, <2>2, <3>1, ElementOfSeq DEF GoesOn
  <2>4. /\ SubSeq(s, 1, n) \in Seq(QuantumMessages) /\ SubSeq(t, 1, n) \in Seq(QuantumMessages)
        /\ Len(SubSeq(s, 1, n)) = n /\ Len(SubSeq(t, 1, n)) = n
        /\ \A i \in 1 .. n : SubSeq(s, 1, n)[i] = s[i] /\ SubSeq(t, 1, n)[i] = t[i]
    BY <2>3, SubSeqProperties
  <2>5. SubSeq(s, 1, n) = SubSeq(t, 1, n)
    BY <2>3, <2>4, SeqEqual
  <2>. QED  BY <2>1, <2>2, <2>5 DEF IsPrefix
<1>. QED  BY <1>1, <1>2, <1>3, PTL DEF QuantumSpec, ProgressIsNeverLost
=============================================================================
