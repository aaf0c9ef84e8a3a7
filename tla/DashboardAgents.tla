-------------------------- MODULE DashboardAgents --------------------------
(***************************************************************************)
(* The agents of the dashboard's Orchestrator (internal/dashboard/         *)
(* orchestrator.go): each runs its tool steps and then one LLM analysis in *)
(* a goroutine, may be cancelled at any moment, and is then resurrected by *)
(* a new agent that resumes from its events.  What a step returns is only  *)
(* the number of the step; streaming, flight recording and the progress    *)
(* shown to subscribers are left out.  Every request has the same steps.   *)
(***************************************************************************)
EXTENDS Naturals, FiniteSets

CONSTANTS
  DashSteps,          \* steps of a request
  MaxDashAgents,      \* bound: agents ever created
  MaxDashRequests,    \* bound: calls of CreateAgent from outside
  MaxResurrections    \* maxResurrections (3 in the code)

ASSUME DashAssumption ==
  /\ DashSteps \in Nat \ {0} /\ MaxDashAgents \in Nat \ {0}
  /\ MaxDashRequests \in Nat /\ MaxResurrections \in Nat

VARIABLE dash

DashIds == 1..MaxDashAgents

(* The ids handed out, nextID counting them, and those whose goroutine     *)
(* runs, which is what agentWg counts.                                     *)
Created == {i \in DashIds : dash.agents[i].at # "none"}
AliveAgents == {i \in DashIds : dash.agents[i].at \notin {"none", "gone"}}
NextId == Cardinality(Created) + 1

(* i and the agents it resumes from, the oldest included: the least set    *)
(* that holds i and, with an agent, the one it resumes from.               *)
Lineage(i) ==
  {j \in DashIds : \A S \in SUBSET DashIds :
     i \in S /\ (\A k \in S : dash.agents[k].from \in S \cup {0}) => j \in S}

NoAgent == [at |-> "none", status |-> "", from |-> 0, count |-> 0, canceled |-> FALSE,
            next |-> 0, data |-> {}, steps |-> {}, gathered |-> {}]

DashInit ==
  dash = [agents |-> [i \in DashIds |-> NoAgent], stop |-> "no", late |-> {},
          requests |-> 0]

-----------------------------------------------------------------------------
(* CreateAgent for a request that resumes from an agent, or from none (0). *)
NewAgent(from) ==
  [NoAgent EXCEPT !.at = "created", !.status = "pending", !.from = from,
     !.count = IF from = 0 THEN 0 ELSE dash.agents[from].count + 1]

CreateAgent(from) ==
  /\ NextId \in DashIds /\ from \in Created \cup {0} /\ dash.requests < MaxDashRequests
  /\ dash' = [dash EXCEPT !.agents[NextId] = NewAgent(from), !.requests = @ + 1,
                !.late = IF dash.stop = "returned" THEN @ \cup {NextId} ELSE @]

CancelAgent(i) ==
  /\ i \in AliveAgents /\ ~dash.agents[i].canceled
  /\ dash' = [dash EXCEPT !.agents[i].canceled = TRUE]

(* The agent's context: its own, derived from the orchestrator's.          *)
ContextEnded(i) == dash.agents[i].canceled \/ dash.stop # "no"

(* Stop cancels the base context and waits for the goroutines.             *)
StopDashboard ==
  /\ dash.stop = "no"
  /\ dash' = [dash EXCEPT !.stop = "waiting"]

StopReturns ==
  /\ dash.stop = "waiting" /\ AliveAgents = {}
  /\ dash' = [dash EXCEPT !.stop = "returned"]

-----------------------------------------------------------------------------
(* loadResumeProgress: how many steps the agent resumed from recorded, and *)
(* loadPreviousData when they are all of them.                             *)
resumeProgress(i) ==
  IF dash.agents[i].from = 0 THEN 0
  ELSE Cardinality(dash.agents[dash.agents[i].from].steps)

BeginOffByOne(i) ==
  /\ dash.agents[i].at = "created"
  /\ dash' = [dash EXCEPT !.agents[i].at = "stepping", !.agents[i].status = "running",
                          !.agents[i].next = resumeProgress(i) + 2]

Begin(i) ==
  /\ dash.agents[i].at = "created"
  /\ dash' =
       LET all == resumeProgress(i) = DashSteps
           data == IF all THEN dash.agents[dash.agents[i].from].gathered ELSE {}
       IN [dash EXCEPT !.agents[i] =
             [@ EXCEPT !.at = IF data # {} THEN "gathered" ELSE "stepping",
                       !.status = "running", !.data = data, !.next = resumeProgress(i) + 1]]

FailAgent(i) == [dash EXCEPT !.agents[i].at = "ending", !.agents[i].status = "failed"]

(* A step is called unless the context is done; the call may fail.         *)
StepSucceeds(i) ==
  LET a == dash.agents[i]
  IN /\ a.at = "stepping" /\ a.next <= DashSteps /\ ~ContextEnded(i)
     /\ dash' = [dash EXCEPT !.agents[i] =
                    [a EXCEPT !.next = a.next + 1, !.data = a.data \cup {a.next},
                              !.steps = a.steps \cup {a.next}]]

StepFails(i) ==
  /\ dash.agents[i].at = "stepping" /\ dash.agents[i].next <= DashSteps
  /\ dash' = FailAgent(i)

(* The data gathered is recorded for a successor.                          *)
Gathered(i) ==
  /\ \/ dash.agents[i].at = "stepping" /\ dash.agents[i].next > DashSteps
     \/ dash.agents[i].at = "gathered"
  /\ dash' = [dash EXCEPT !.agents[i].at = "analyzing",
                          !.agents[i].gathered = dash.agents[i].data]

AnalysisSucceeds(i) ==
  /\ dash.agents[i].at = "analyzing"
  /\ dash' = [dash EXCEPT !.agents[i].at = "ending", !.agents[i].status = "completed"]

AnalysisFails(i) ==
  /\ dash.agents[i].at = "analyzing"
  /\ dash' = FailAgent(i)

(* What follows runAgent: an agent killed before it completed is created   *)
(* again, unless the orchestrator stops or it was resurrected too often.   *)
Resurrects(i) ==
  LET a == dash.agents[i]
  IN a.canceled /\ a.status # "completed" /\ dash.stop = "no" /\ a.count < MaxResurrections

Ends(i) ==
  /\ dash.agents[i].at = "ending" /\ ~Resurrects(i)
  /\ dash' = [dash EXCEPT !.agents[i].at = "gone"]

(* The base context is read before the new agent is created.               *)
DecidesToResurrect(i) ==
  /\ dash.agents[i].at = "ending" /\ Resurrects(i)
  /\ dash' = [dash EXCEPT !.agents[i].at = "resurrecting"]

CreateSuccessor(i) ==
  /\ dash.agents[i].at = "resurrecting" /\ NextId \in DashIds
  /\ dash' = [dash EXCEPT !.agents[NextId] = NewAgent(i), !.agents[i].at = "gone"]

DashNext ==
  \/ \E from \in 0..MaxDashAgents : CreateAgent(from)
  \/ StopDashboard
  \/ StopReturns
  \/ \E i \in DashIds :
       \/ CancelAgent(i) \/ Begin(i) \/ StepSucceeds(i) \/ StepFails(i) \/ Gathered(i)
       \/ AnalysisSucceeds(i) \/ AnalysisFails(i) \/ Ends(i)
       \/ DecidesToResurrect(i) \/ CreateSuccessor(i)

DashSpec == DashInit /\ [][DashNext]_dash

-----------------------------------------------------------------------------
(* Resuming skips no step: when an agent comes to its analysis every step  *)
(* was called by it or by one it resumes from, although it counts only the *)
(* events of its direct predecessor (loadResumeProgress).                  *)
NoStepIsSkipped ==
  \A i \in Created :
    dash.agents[i].at = "analyzing" \/ dash.agents[i].status = "completed" =>
      UNION {dash.agents[j].steps : j \in Lineage(i)} = 1..DashSteps

(* When Stop has returned no agent runs but those created after it: a      *)
(* resurrection that had just read the base context is waited for.         *)
StopWaitsForAll == dash.stop = "returned" => AliveAgents \subseteq dash.late

(* "call each tool in sequence, accumulate results": the analysis of an    *)
(* agent sees what every step returned.  It does not for one that resumes  *)
(* half-way: it skips the steps of its predecessor and their results.      *)
AnalysisSeesEveryStep ==
  \A i \in Created : dash.agents[i].at = "analyzing" => dash.agents[i].data = 1..DashSteps

(* "Skip steps that were already completed by the previous agent": no step *)
(* is called twice in a lineage.  The third agent counts only what the     *)
(* second recorded and calls the rest again.                               *)
NoStepTwice ==
  \A i \in Created : \A j \in Lineage(i) \ {i} : dash.agents[i].steps \cap dash.agents[j].steps = {}
=============================================================================
