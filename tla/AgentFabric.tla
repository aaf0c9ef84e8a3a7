---------------------------- MODULE AgentFabric ----------------------------
(***************************************************************************)
(* The Agent Fabric (internal/agentfabric): the registry of live agents,   *)
(* the resource quota its spawns are admitted against, and the death       *)
(* snapshots a killed agent leaves for its revival.                        *)
(*                                                                         *)
(* Every lifecycle method holds Fabric.mu, so one method is one action,    *)
(* with one exception: Kill saves the snapshot after it has unlocked.      *)
(*                                                                         *)
(* The quota is modelled for one resource, of which an agent claims one    *)
(* unit or none.  An agent's cognition is left out: no operation here      *)
(* decides anything by it.  So is the state RUNNING, which only SetRunning *)
(* enters and nothing in the program calls.                                *)
(***************************************************************************)
EXTENDS Integers, FiniteSets

CONSTANTS
  Ids,        \* agent identities
  Configured, \* the peers the configuration starts with
  Budgets,    \* amounts the resource budget is set to
  Largest,    \* the largest of them
  MaxKills    \* bound: number of kills explored

ASSUME AgentAssumption ==
  /\ IsFiniteSet(Ids) /\ Configured \subseteq Ids
  /\ Largest \in Nat /\ Budgets \subseteq 0 .. Largest /\ Budgets # {}
  /\ MaxKills \in Nat

VARIABLES
  agent,      \* Agent.State of every registered agent, "none" otherwise
  claim,      \* Agent.resources: units the agent holds, 0 for nil
  allocated,  \* Fabric.allocated
  budget,     \* Fabric.resourceBudget
  snapshot,   \* snapshotStore.byID: when the agent died, 0 for no entry
  dying,      \* snapshots Kill has taken and not yet saved
  kills       \* the fabric clock deaths are stamped with

fabric == <<agent, claim, allocated, budget, snapshot, dying, kills>>

AgentState == {"none", "IDLE", "SUSPENDED", "RETIRED"}
Alive      == {"IDLE", "SUSPENDED"}
Death      == [id : Ids, died : 1 .. MaxKills]

FabricInit ==
  /\ agent = [a \in Ids |-> IF a \in Configured THEN "IDLE" ELSE "none"]
  /\ claim = [a \in Ids |-> 0]
  /\ allocated = 0
  /\ budget \in Budgets
  /\ snapshot = [a \in Ids |-> 0]
  /\ dying = {}
  /\ kills = 0

-----------------------------------------------------------------------------
\* A claim is checked against the budget of the moment; an agent without a
\* claim is always admitted.
canAllocate(c) == c = 0 \/ allocated + c <= budget

\* The units of a are given back; a nil claim gives back nothing.
release(a) == allocated' = IF allocated < claim[a] THEN 0 ELSE allocated - claim[a]

\* Spawn a with claim c.
Spawn(a, c) ==
  /\ agent[a] = "none" /\ canAllocate(c)
  /\ agent' = [agent EXCEPT ![a] = "IDLE"]
  /\ claim' = [claim EXCEPT ![a] = c]
  /\ allocated' = allocated + c
  /\ UNCHANGED <<budget, snapshot, dying, kills>>

Suspend(a) ==
  /\ agent[a] = "IDLE"
  /\ agent' = [agent EXCEPT ![a] = "SUSPENDED"]
  /\ UNCHANGED <<claim, allocated, budget, snapshot, dying, kills>>

Resume(a) ==
  /\ agent[a] = "SUSPENDED"
  /\ agent' = [agent EXCEPT ![a] = "IDLE"]
  /\ UNCHANGED <<claim, allocated, budget, snapshot, dying, kills>>

\* Recover also resumes a suspended agent.
Recover(a) ==
  /\ agent[a] \in Alive
  /\ agent' = [agent EXCEPT ![a] = "IDLE"]
  /\ UNCHANGED <<claim, allocated, budget, snapshot, dying, kills>>

RetireKeepingClaim(a) ==
  /\ agent[a] \in Alive
  /\ agent' = [agent EXCEPT ![a] = "RETIRED"]
  /\ release(a)
  /\ snapshot' = [snapshot EXCEPT ![a] = 0]
  /\ UNCHANGED <<claim, budget, dying, kills>>

\* The entry stays in the registry; an earlier death of a is forgotten.
Retire(a) ==
  /\ agent[a] \in Alive
  /\ agent' = [agent EXCEPT ![a] = "RETIRED"]
  /\ release(a)
  /\ claim' = [claim EXCEPT ![a] = 0]
  /\ snapshot' = [snapshot EXCEPT ![a] = 0]
  /\ UNCHANGED <<budget, dying, kills>>

\* Kill works on any state, RETIRED included.
Kill(a) ==
  /\ agent[a] # "none" /\ kills < MaxKills
  /\ agent' = [agent EXCEPT ![a] = "none"]
  /\ release(a)
  /\ claim' = [claim EXCEPT ![a] = 0]
  /\ kills' = kills + 1
  /\ dying' = dying \cup {[id |-> a, died |-> kills + 1]}
  /\ UNCHANGED <<budget, snapshot>>

\* The rest of Kill, after the unlock: the snapshot replaces whatever is there.
SaveSnapshot(d) ==
  /\ dying' = dying \ {d}
  /\ snapshot' = [snapshot EXCEPT ![d.id] = d.died]
  /\ UNCHANGED <<agent, claim, allocated, budget, kills>>

ClearSnapshot(a) ==
  /\ snapshot' = [snapshot EXCEPT ![a] = 0]
  /\ UNCHANGED <<agent, claim, allocated, budget, dying, kills>>

\* Claims that are out already are not taken back.
UpdateResourceBudget(b) ==
  /\ budget' = b
  /\ UNCHANGED <<agent, claim, allocated, snapshot, dying, kills>>

\* The dead agent recovery would revive: the one that died last.
FindRevivableSnapshot(a) ==
  /\ snapshot[a] # 0
  /\ \A b \in Ids : snapshot[b] <= snapshot[a]

=============================================================================
