--------------------------- MODULE AgentRecovery ---------------------------
(***************************************************************************)
(* Who changes the population of the Agent Fabric while a kernel runs:     *)
(* spawn_agent syscalls, chaos kills, suspensions, the evolution loops     *)
(* that set the resource budget and apply the population policy, and the   *)
(* recovery loop's RestartAgent (internal/aresrecovery).                   *)
(*                                                                         *)
(* RestartAgent and AdaptPopulation call the fabric several times and hold *)
(* no lock in between; each of their calls is an action here.              *)
(***************************************************************************)
EXTENDS AgentFabric, Sequences

CONSTANTS
  NoId,         \* no identity
  Fresh,       \* identities the program makes up; none is made up twice
  Policy,      \* the deployed population policy: its spawns, then its retires
  MaxRestarts  \* RestartPolicy.MaxRestarts

Order == [op : {"spawn", "retire"}, id : Ids]

ASSUME RecoveryAssumption ==
  /\ NoId \notin Ids
  /\ Fresh \subseteq Ids \ Configured
  /\ Policy \in Seq(Order)
  /\ MaxRestarts \in Nat \ {0}

VARIABLES
  stage,     \* where RestartAgent is
  victim,    \* deadAgentID, NoId outside RestartAgent
  body,      \* the identity it spawns or has spawned; NoId for "make one up"
  restarts,  \* Recovery.restarts
  revivals,  \* how often RestartAgent brought an identity back to life
  todo,      \* what is left of the running AdaptPopulation
  used,      \* identities made up so far
  retired    \* identities retired since somebody last asked for them

restart == <<stage, victim, body, restarts, revivals>>
recVars == <<fabric, restart, todo, used, retired>>

Stage == {"idle", "found", "counted", "decided", "spawned", "recovered"}

RecInit ==
  /\ FabricInit
  /\ stage = "idle" /\ victim = NoId /\ body = NoId
  /\ restarts = [a \in Ids |-> 0]
  /\ revivals = [a \in Ids |-> 0]
  /\ todo = <<>>
  /\ used = {}
  /\ retired = {}

-----------------------------------------------------------------------------
(* The world.                                                              *)

\* The spawn_agent syscall makes up an identity and may ask for resources.
SpawnAgent(a) ==
  /\ a \in Fresh \ used
  /\ used' = used \cup {a}
  /\ \E c \in {0, 1} : Spawn(a, c)
  /\ UNCHANGED <<restart, todo, retired>>

\* Chaos kills whatever is registered.
ChaosKill(a) == Kill(a) /\ UNCHANGED <<restart, todo, used, retired>>

KillReturns(d) == SaveSnapshot(d) /\ UNCHANGED <<restart, todo, used, retired>>

Pause(a) ==
  /\ Suspend(a) \/ Resume(a)
  /\ UNCHANGED <<restart, todo, used, retired>>

\* The evolution quota loop.
ApplyQuota(b) ==
  UpdateResourceBudget(b) /\ UNCHANGED <<restart, todo, used, retired>>

-----------------------------------------------------------------------------
(* The evolution population loop.                                          *)

BeginApply ==
  /\ todo = <<>>
  /\ todo' = Policy
  /\ UNCHANGED <<fabric, restart, used, retired>>

\* The next order; the first error ends the application.
AdaptPopulation ==
  LET a == Head(todo).id IN
  /\ todo # <<>>
  /\ \/ /\ Head(todo).op = "spawn" /\ Spawn(a, 0)
        /\ todo' = Tail(todo) /\ retired' = retired \ {a}
     \/ /\ Head(todo).op = "retire" /\ Retire(a)
        /\ todo' = Tail(todo) /\ retired' = retired \cup {a}
     \/ /\ Head(todo).op = "retire" /\ agent[a] = "RETIRED"
        /\ todo' = Tail(todo) /\ UNCHANGED <<fabric, retired>>
     \/ /\ Head(todo).op = "spawn" <=> agent[a] # "none"
        /\ todo' = <<>> /\ UNCHANGED <<fabric, retired>>
  /\ UNCHANGED <<restart, used>>

-----------------------------------------------------------------------------
(* RestartAgent, called by the recovery loop for one dead agent at a time. *)

GiveUp ==
  /\ stage' = "idle" /\ victim' = NoId /\ body' = NoId
  /\ UNCHANGED <<restarts, revivals>>

\* The recovery loop has a task nobody can resume, and finds a dead agent.
Find(a) ==
  /\ stage = "idle" /\ FindRevivableSnapshot(a)
  /\ stage' = "found" /\ victim' = a
  /\ UNCHANGED <<fabric, body, restarts, revivals, todo, used, retired>>

\* The restart budget: checked and counted under Recovery.mu.
Count ==
  /\ stage = "found"
  /\ \/ /\ restarts[victim] < MaxRestarts
        /\ restarts' = [restarts EXCEPT ![victim] = @ + 1]
        /\ stage' = "counted"
        /\ UNCHANGED <<victim, body, revivals>>
     \/ restarts[victim] >= MaxRestarts /\ GiveUp
  /\ UNCHANGED <<fabric, todo, used, retired>>

\* In place if its snapshot is still there, under a new identity otherwise.
Decide ==
  /\ stage = "counted"
  /\ stage' = "decided"
  /\ body' = IF snapshot[victim] # 0 THEN victim ELSE NoId
  /\ UNCHANGED <<fabric, victim, restarts, revivals, todo, used, retired>>

\* The spawn, which an identity taken meanwhile or the evolution's spawn gate
\* refuses.
SpawnBody ==
  /\ stage = "decided"
  /\ \/ \E a \in IF body = NoId THEN Fresh \ used ELSE {body} :
          /\ Spawn(a, 0)
          /\ stage' = "spawned" /\ body' = a
          /\ revivals' = [revivals EXCEPT ![a] = IF a = victim THEN @ + 1 ELSE @]
          /\ used' = IF body = NoId THEN used \cup {a} ELSE used
          /\ UNCHANGED <<victim, restarts>>
     \/ GiveUp /\ UNCHANGED <<fabric, used>>
  /\ UNCHANGED <<todo, retired>>

\* The preserved cognition is installed, unless the new body is gone or
\* retired by now.
Install ==
  /\ stage = "spawned"
  /\ \/ Recover(body) /\ stage' = "recovered" /\ UNCHANGED <<victim, body, restarts, revivals>>
     \/ agent[body] \notin Alive /\ GiveUp /\ UNCHANGED fabric
  /\ UNCHANGED <<todo, used, retired>>

\* The snapshot is consumed.
Consume ==
  /\ stage = "recovered"
  /\ ClearSnapshot(victim)
  /\ GiveUp
  /\ UNCHANGED <<todo, used, retired>>

-----------------------------------------------------------------------------
RecNext ==
  \/ \E a \in Ids : SpawnAgent(a) \/ ChaosKill(a) \/ Pause(a) \/ Find(a)
  \/ \E d \in dying : KillReturns(d)
  \/ \E b \in Budgets : ApplyQuota(b)
  \/ BeginApply \/ AdaptPopulation
  \/ Count \/ Decide \/ SpawnBody \/ Install \/ Consume

RecSpec == RecInit /\ [][RecNext]_recVars

\* The population loop ticks, and a call that was started goes on.
RecFairSpec ==
  /\ RecSpec
  /\ WF_recVars(BeginApply) /\ WF_recVars(AdaptPopulation)

-----------------------------------------------------------------------------
(* Properties.                                                             *)

RecTypeOK ==
  /\ agent \in [Ids -> AgentState]
  /\ claim \in [Ids -> {0, 1}]
  /\ allocated \in 0 .. Largest
  /\ budget \in Budgets
  /\ snapshot \in [Ids -> 0 .. MaxKills]
  /\ dying \subseteq Death
  /\ kills \in 0 .. MaxKills
  /\ stage \in Stage
  /\ victim \in Ids \cup {NoId} /\ (stage = "idle" <=> victim = NoId)
  /\ body \in Ids \cup {NoId} /\ (stage \in {"spawned", "recovered"} => body # NoId)
  /\ restarts \in [Ids -> 0 .. MaxRestarts]
  /\ revivals \in [Ids -> Nat]
  /\ todo \in Seq(Order)
  /\ used \subseteq Ids /\ retired \subseteq Ids

\* The quota's books balance (resource.go: "the budget reflects live agents
\* only"): what is allocated is what the live agents hold, whatever was
\* retired, killed while retired, revived or spawned again under its old name.
Holders == {a \in Ids : claim[a] = 1}

QuotaIsExact ==
  /\ allocated = Cardinality(Holders)
  /\ \A a \in Holders : agent[a] \in Alive

\* A broken agent is not revived for ever: successful revivals do not refill
\* the budget of RestartAgent (recovery.go on the field restarts).
RevivalsAreBounded ==
  \A a \in Ids : revivals[a] + (IF victim = a /\ stage \in {"counted", "decided"} THEN 1 ELSE 0)
                   <= MaxRestarts

-----------------------------------------------------------------------------
(* What the source says and the code does not do.                          *)

\* Retirement is final for recovery (lifecycle.go in Retire: "Retire is terminal
\* -- any death snapshot from an earlier kill/revive cycle of this identity must
\* not resurrect later").
RetiredStaysRetired ==
  [][stage = "decided" /\ stage' = "spawned" => body' \notin retired]_recVars

\* A deployed policy takes effect: whoever it retires does not stay alive
\* (evolution_population.go: "a 1-minute apply loop keeps a deployed policy
\* effective within a reasonable window").
Condemned == {Policy[i].id : i \in {j \in DOMAIN Policy : Policy[j].op = "retire"}}

PolicyTakesEffect == \A a \in Condemned : agent[a] \in Alive ~> agent[a] \notin Alive

=============================================================================
