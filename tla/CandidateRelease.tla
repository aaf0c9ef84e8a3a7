--------------------------- MODULE CandidateRelease ---------------------------
(***************************************************************************)
(* The release of evolution candidates (internal/evolution): the candidate *)
(* pipeline, the evolution coordinator it submits patches to, the patch    *)
(* registry, the canary deployment pipeline and the profile store.         *)
(*                                                                         *)
(* Releasers run CandidatePipeline.Release.  The coordinator is shared     *)
(* with other sources (the genetic algorithm, the LLM suggestions, the     *)
(* arena), which submit patches of their own and evaluate whatever is      *)
(* pending, a releaser's proposal included.  Evaluate takes its lock only  *)
(* around each access, so the evaluations of two goroutines interleave     *)
(* between the decision, the application, the requeue and the two history  *)
(* entries.                                                                *)
(***************************************************************************)
EXTENDS Integers, Sequences, FiniteSets

CONSTANTS Candidates,       \* candidates submitted to the candidate store
          ProfileRoles,     \* agent roles
          TargetRole,       \* [Candidates -> ProfileRoles]
          Releasers,        \* goroutines that call Release
          Evaluators,       \* goroutines of the other sources
          Others,           \* patches the other sources propose
          Fitness,          \* [Others -> {"high", "middle", "low"}]
          MaxPatchesPerMinute,
          MaxProposalRetries,
          Canary,           \* the deployment pipeline is wired and enabled
          NoCandidate

\* A candidate's patch has an identifier that no other patch has, and a
\* goroutine that calls Release is none of the other sources'.
ASSUME ReleaseAssumption ==
    /\ TargetRole \in [Candidates -> ProfileRoles]
    /\ NoCandidate \notin Candidates
    /\ Releasers \cap Evaluators = {}
    /\ Candidates \cap Others = {}

Workers == Releasers \cup Evaluators

\* The text of a profile before any candidate was applied to it.
Original == "original"

\* The two profile objects a role may have: the one in the candidate region
\* and, if the store was seeded with a copy, the one in the stable region.
Objects == ProfileRoles \X {"workspace", "copy"}

VARIABLES
    status,         \* Candidate.Status
    instructions,   \* AgentProfile.Instructions of each profile object
    stableProfile,  \* ProfileStore.stable: the object each role points to
    executors,      \* Registry.executors: the roles with a registered target
    appliedIDs,     \* Registry.applied
    proposals,      \* EvolutionCoordinator.proposals
    unproposed,     \* bound: the other patches, each proposed once
    recent,         \* patchHistory entries younger than a minute
    decision,       \* the last entry of each candidate in decisions
    releasing,      \* where each worker is
    candidateOf,    \* the candidate a worker releases
    batch,          \* what its Evaluate took and has not yet processed
    verdict         \* its decision on the head of the batch

releaseVars == <<status, instructions, stableProfile, executors, appliedIDs,
                 proposals, unproposed, recent, decision, releasing, candidateOf, batch,
                 verdict>>

coordinatorVars == <<proposals, unproposed, recent, decision, batch, verdict>>
profileVars     == <<instructions, stableProfile, appliedIDs>>

Decisions == {"none", "apply", "reject", "delay", "drop"}

Workspace(c) == <<TargetRole[c], "workspace">>

\* Each role's stable region points to the object given.
ReleaseStart(seeded) ==
    /\ status = [c \in Candidates |-> "candidate"]
    /\ instructions = [o \in Objects |-> Original]
    /\ stableProfile = seeded
    /\ executors = {}
    /\ appliedIDs = {}
    /\ proposals = <<>>
    /\ unproposed = Others
    /\ recent = 0
    /\ decision = [c \in Candidates |-> "none"]
    /\ releasing = [w \in Workers |-> "idle"]
    /\ candidateOf = [w \in Workers |-> NoCandidate]
    /\ batch = [w \in Workers |-> <<>>]
    /\ verdict = [w \in Workers |-> "none"]

ReleaseInit ==
    \E seeded \in [ProfileRoles -> Objects] :
        /\ \A r \in ProfileRoles : seeded[r][1] = r
        /\ ReleaseStart(seeded)

-----------------------------------------------------------------------------
(* The candidate pipeline.                                                 *)

\* CandidateVerifier.Verify: the three gates pass or one fails.
VerifyCandidate(c) ==
    /\ status[c] = "candidate"
    /\ \E s \in {"verified", "rejected"} : status' = [status EXCEPT ![c] = s]
    /\ UNCHANGED <<executors, releasing, candidateOf, coordinatorVars,
                   profileVars>>

\* Release up to its regression check, a run of LLM calls under no lock.
StartRelease(w, c) ==
    /\ w \in Releasers
    /\ releasing[w] = "idle"
    /\ status[c] = "verified"
    /\ releasing' = [releasing EXCEPT ![w] = "gate"]
    /\ candidateOf' = [candidateOf EXCEPT ![w] = c]
    /\ UNCHANGED <<status, executors, coordinatorVars, profileVars>>

EndRelease(w) ==
    /\ releasing' = [releasing EXCEPT ![w] = "idle"]
    /\ candidateOf' = [candidateOf EXCEPT ![w] = NoCandidate]

RejectCandidate(w) ==
    /\ status' = [status EXCEPT ![candidateOf[w]] = "rejected"]
    /\ EndRelease(w)

RegressionRejects(w) ==
    /\ releasing[w] = "gate"
    /\ RejectCandidate(w)
    /\ UNCHANGED <<executors, coordinatorVars, profileVars>>

\* A registration that overwrites, as Registry.Replace does.
RegisterReplacing(w) ==
    /\ releasing[w] = "gate"
    /\ executors' = executors \cup {TargetRole[candidateOf[w]]}
    /\ releasing' = [releasing EXCEPT ![w] = "submit"]
    /\ UNCHANGED <<status, candidateOf, coordinatorVars, profileVars>>

\* Registry.Register of the role's target, an error if it is registered.
RegisterExecutor(w) ==
    /\ releasing[w] = "gate"
    /\ IF TargetRole[candidateOf[w]] \in executors
         THEN EndRelease(w) /\ UNCHANGED executors
         ELSE /\ executors' = executors \cup {TargetRole[candidateOf[w]]}
              /\ releasing' = [releasing EXCEPT ![w] = "submit"]
              /\ UNCHANGED candidateOf
    /\ UNCHANGED <<status, coordinatorVars, profileVars>>

Propose(patch) == proposals' = Append(proposals, [patch |-> patch, retry |-> 0])

SubmitCandidate(w) ==
    /\ releasing[w] = "submit"
    /\ Propose(candidateOf[w])
    /\ releasing' = [releasing EXCEPT ![w] = "take"]
    /\ UNCHANGED <<status, executors, candidateOf, unproposed, recent, decision,
                   batch, verdict, profileVars>>

-----------------------------------------------------------------------------
(* The deployment pipeline and the registry.                               *)

\* Registry.Apply: a patch whose ID was applied is skipped; a candidate's
\* patch writes the profile object of the candidate region.
RegistryApply(patch) ==
    IF patch \in Candidates \ appliedIDs
      THEN /\ appliedIDs' = appliedIDs \cup {patch}
           /\ instructions' =
                 [instructions EXCEPT ![Workspace(patch)] = patch]
      ELSE UNCHANGED <<appliedIDs, instructions>>

\* DeploymentPipeline.Deploy when enabled, else the registry directly.  The
\* shadow evaluation may fail or fall below the threshold: nothing is
\* applied, and the adapter's caller sees an error in the first case only.
Deploys(patch, outcome) ==
    /\ outcome \in (IF Canary THEN {"promoted", "kept back"} ELSE {"promoted"})
    /\ IF outcome = "promoted" THEN RegistryApply(patch)
                               ELSE UNCHANGED <<appliedIDs, instructions>>
    /\ UNCHANGED stableProfile

-----------------------------------------------------------------------------
(* EvolutionCoordinator.Evaluate.                                          *)

TakePending(w) ==
    /\ \/ releasing[w] = "take"
       \/ w \in Evaluators /\ releasing[w] = "idle" /\ proposals # <<>>
    /\ batch' = [batch EXCEPT ![w] = proposals]
    /\ proposals' = <<>>
    /\ releasing' = [releasing EXCEPT ![w] = "decide"]
    /\ UNCHANGED <<status, executors, candidateOf, unproposed, recent, decision,
                   verdict, profileVars>>

DelayOrDrop(p) == IF p.retry >= MaxProposalRetries THEN "drop" ELSE "delay"

\* A rate limit checked with > instead of >=.
DecisionOneTooMany(p) ==
    IF recent > MaxPatchesPerMinute THEN DelayOrDrop(p) ELSE "apply"

\* decide: the rate limit first, then the fitness gate; a candidate's
\* priority always reaches the auto-apply threshold.
Decision(p) ==
    IF recent >= MaxPatchesPerMinute THEN DelayOrDrop(p)
    ELSE IF p.patch \in Candidates THEN "apply"
    ELSE CASE Fitness[p.patch] = "high"   -> "apply"
           [] Fitness[p.patch] = "middle" -> DelayOrDrop(p)
           [] Fitness[p.patch] = "low"    -> "reject"

TakeDecision(w) ==
    /\ releasing[w] = "decide"
    /\ IF batch[w] = <<>>
         THEN /\ IF w \in Releasers
                   THEN releasing' = [releasing EXCEPT ![w] = "look"]
                   ELSE releasing' = [releasing EXCEPT ![w] = "idle"]
              /\ UNCHANGED verdict
         ELSE /\ verdict' = [verdict EXCEPT ![w] = Decision(Head(batch[w]))]
              /\ releasing' = [releasing EXCEPT ![w] =
                    IF verdict'[w] \in {"apply", "delay"} THEN verdict'[w] ELSE "record"]
    /\ UNCHANGED <<status, executors, candidateOf, proposals, unproposed, recent,
                   decision, batch, profileVars>>

\* The patch is applied under no lock of the coordinator.
ApplyPatch(w) ==
    /\ releasing[w] = "apply"
    /\ \E outcome \in {"promoted", "kept back"} :
          Deploys(Head(batch[w]).patch, outcome)
    /\ releasing' = [releasing EXCEPT ![w] = "history"]
    /\ UNCHANGED <<status, executors, candidateOf, coordinatorVars>>

\* The patch history is appended to, whether or not the patch was applied.
RecordPatch(w) ==
    /\ releasing[w] = "history"
    /\ recent' = recent + 1
    /\ releasing' = [releasing EXCEPT ![w] = "record"]
    /\ UNCHANGED <<status, executors, candidateOf, proposals, unproposed, decision,
                   batch, verdict, profileVars>>

\* A delayed proposal is queued again with its retry counted; from here on
\* another evaluation may take and decide it before its delay is recorded.
RequeueDelayed(w) ==
    /\ releasing[w] = "delay"
    /\ proposals' = Append(proposals, [Head(batch[w]) EXCEPT !.retry = @ + 1])
    /\ releasing' = [releasing EXCEPT ![w] = "record"]
    /\ UNCHANGED <<status, executors, candidateOf, unproposed, recent, decision,
                   batch, verdict, profileVars>>

\* The decision history, last.
RecordDecision(w) ==
    LET patch == Head(batch[w]).patch
    IN /\ releasing[w] = "record"
       /\ decision' = IF patch \in Candidates
             THEN [decision EXCEPT ![patch] = verdict[w]]
             ELSE decision
       /\ batch' = [batch EXCEPT ![w] = Tail(@)]
       /\ verdict' = [verdict EXCEPT ![w] = "none"]
       /\ releasing' = [releasing EXCEPT ![w] = "decide"]
       /\ UNCHANGED <<status, executors, candidateOf, proposals, unproposed, recent,
                      profileVars>>

-----------------------------------------------------------------------------
(* The rest of Release.                                                    *)

\* lastDecision and the switch on it; no decision yet reads as a delay.
LookAtDecision(w) ==
    /\ releasing[w] = "look"
    /\ CASE decision[candidateOf[w]] = "apply" ->
              /\ releasing' = [releasing EXCEPT ![w] = "reapply"]
              /\ UNCHANGED <<status, candidateOf>>
         [] decision[candidateOf[w]] \in {"reject", "drop"} ->
              RejectCandidate(w)
         [] OTHER -> EndRelease(w) /\ UNCHANGED status
    /\ UNCHANGED <<executors, coordinatorVars, profileVars>>

\* applyAndPromote deploys the patch a second time.
Reapply(w) ==
    /\ releasing[w] = "reapply"
    /\ \/ /\ Deploys(candidateOf[w], "promoted")
          /\ releasing' = [releasing EXCEPT ![w] = "promote"]
          /\ UNCHANGED <<status, candidateOf>>
       \/ /\ Deploys(candidateOf[w], "kept back")
          /\ RejectCandidate(w)
    /\ UNCHANGED <<executors, coordinatorVars>>

\* ProfileStore.SetStable stores the pointer of the candidate region.
PromoteCandidate(w) ==
    LET c == candidateOf[w]
    IN /\ releasing[w] = "promote"
       /\ stableProfile' =
             [stableProfile EXCEPT ![TargetRole[c]] = Workspace(c)]
       /\ status' = [status EXCEPT ![c] = "promoted"]
       /\ EndRelease(w)
       /\ UNCHANGED <<executors, instructions, appliedIDs, coordinatorVars>>

-----------------------------------------------------------------------------
(* The other sources.                                                      *)

SubmitOther(e, patch) ==
    /\ e \in Evaluators
    /\ releasing[e] = "idle"
    /\ patch \in unproposed
    /\ unproposed' = unproposed \ {patch}
    /\ Propose(patch)
    /\ UNCHANGED <<status, executors, releasing, candidateOf, recent, decision,
                   batch, verdict, profileVars>>

\* Entries of the patch history grow older than a minute.
HistoryAges ==
    /\ recent > 0
    /\ recent' \in 0..(recent - 1)
    /\ UNCHANGED <<status, executors, releasing, candidateOf, proposals,
                   unproposed, decision, batch, verdict, profileVars>>

ReleaseStep(w) ==
    \/ \E c \in Candidates : StartRelease(w, c)
    \/ RegressionRejects(w)
    \/ RegisterExecutor(w)
    \/ SubmitCandidate(w)
    \/ TakePending(w)
    \/ TakeDecision(w)
    \/ ApplyPatch(w)
    \/ RecordPatch(w)
    \/ RequeueDelayed(w)
    \/ RecordDecision(w)
    \/ LookAtDecision(w)
    \/ Reapply(w)
    \/ PromoteCandidate(w)
    \/ \E patch \in Others : SubmitOther(w, patch)

ReleaseNext ==
    \/ \E c \in Candidates : VerifyCandidate(c)
    \/ \E w \in Workers : ReleaseStep(w)
    \/ HistoryAges

ReleaseSpec == ReleaseInit /\ [][ReleaseNext]_releaseVars

-----------------------------------------------------------------------------

\* The rate limit is read when a proposal is decided and counted when its
\* application is recorded: every other evaluation may slip in one patch
\* more, and no evaluation more than one (countRecentPatches, Evaluate).
RateIsNearlyKept ==
    recent <= MaxPatchesPerMinute + Cardinality(Workers) - 1

\* What the stable region shows of a promoted candidate's role is that
\* candidate's text: nothing applied later reaches the object both regions
\* share after SetStable (profile_store.go, "the stable region holds
\* verified profiles").
PromotedStaysStable ==
    \A c \in Candidates : status[c] = "promoted" =>
        instructions[stableProfile[TargetRole[c]]] = c

\* Nobody is inside Release or Evaluate and nothing is pending.
Quiet ==
    /\ \A w \in Workers : releasing[w] = "idle"
    /\ proposals = <<>>

\* A candidate the coordinator decided to apply has been promoted, or
\* rejected by the deployment, once the dust has settled
\* (candidate_pipeline.go, "DecisionApply -> deployment.Deploy ... ->
\* ProfileStore.SetStable").
AppliedIsReleased ==
    Quiet => \A c \in Candidates :
                decision[c] = "apply" => status[c] \in {"promoted", "rejected"}

\* A rejected candidate's text is not what the stable region shows.
RejectedStaysOut ==
    \A c \in Candidates : status[c] = "rejected" =>
        instructions[stableProfile[TargetRole[c]]] # c
=============================================================================
