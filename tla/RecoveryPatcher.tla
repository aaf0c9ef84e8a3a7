--------------------------- MODULE RecoveryPatcher ---------------------------
(***************************************************************************)
(* The recovery patch executor (internal/workflow/engine/recovery_patcher).*)
(* A forward patch writes one field of the recovery policy of every step   *)
(* of the live graph, creating the policy of a step that has none, and     *)
(* returns a rollback patch: a snapshot of that field and of which steps   *)
(* had a policy.  Applying the rollback restores the steps that are still  *)
(* in the graph, drops the policies the patch had created, and returns a   *)
(* rollback of its own.  The caller here undoes the patches in reverse     *)
(* order and may re-apply them; steps come and go in between.              *)
(*                                                                         *)
(* The graph is the one SetDAG has given the executor (once, when the live *)
(* graph takes the place of the bootstrap's): the patches of another graph *)
(* are not mixed with its own.                                             *)
(***************************************************************************)
EXTENDS Naturals, Sequences

CONSTANTS PatchSteps,       \* step identifiers, never used twice
          PatchValues,      \* the values a patch may write into a field
          MaxForwards       \* bound: forward patches of one behaviour

ASSUME MaxForwardsAssumption == MaxForwards \in Nat

PolicyFields == {"Strategy", "MaxAttempts", "Backoff"}

\* The zero value of every field, in Go the value of a field nobody wrote.
Zero == "zero"

\* step.RecoveryPolicy == nil.
NoRecoveryPolicy == [f \in {} |-> Zero]

EmptyRecoveryPolicy == [f \in PolicyFields |-> Zero]

VARIABLES dagSteps,     \* e.dag.steps, the identifiers in the graph
          newSteps,     \* the identifiers nobody has used
          recovery,     \* the RecoveryPolicy of each step, a new one's included
          undoPatches,  \* the rollback patches the caller holds, latest last
          redoPatches,  \* what the applied rollbacks returned, latest last
          forwards,     \* how many forward patches were applied
          wanted        \* what the policies should be, by the caller's count

patcherVars ==
    <<dagSteps, newSteps, recovery, undoPatches, redoPatches, forwards, wanted>>

\* Policy p with its field set, as step.RecoveryPolicy.F = v after the
\* nil check that creates the policy.
WithField(p, field, v) ==
    [(IF p = NoRecoveryPolicy THEN EmptyRecoveryPolicy ELSE p)
        EXCEPT ![field] = v]

\* The snapshot taken of the steps in ids: whether each has a policy, and
\* the field's value in it (a missing map entry reads as zero).
PolicySnapshot(field, ids) ==
    [field |-> field,
     had   |-> [s \in ids |-> recovery[s] # NoRecoveryPolicy],
     value |-> [s \in ids |-> IF recovery[s] = NoRecoveryPolicy
                                THEN Zero
                                ELSE recovery[s][field]]]

\* A restoration that keeps the policies the patch had created.
RestoredKeepingCreated(snap) ==
    [s \in PatchSteps |->
        IF s \notin dagSteps \cap DOMAIN snap.had THEN recovery[s]
        ELSE WithField(recovery[s], snap.field, snap.value[s])]

\* What a snapshot's restoration makes of the policies.
Restored(snap) ==
    [s \in PatchSteps |->
        IF s \notin dagSteps \cap DOMAIN snap.had THEN recovery[s]
        ELSE IF snap.had[s]
               THEN WithField(recovery[s], snap.field, snap.value[s])
               ELSE NoRecoveryPolicy]

-----------------------------------------------------------------------------

\* A graph of the steps in ids; the others may be added.  Those in having
\* come with a policy.
PatcherStart(ids, having) ==
    /\ dagSteps = ids
    /\ newSteps = PatchSteps \ ids
    /\ recovery = [s \in PatchSteps |-> IF s \in having THEN EmptyRecoveryPolicy
                                                        ELSE NoRecoveryPolicy]
    /\ undoPatches = <<>>
    /\ redoPatches = <<>>
    /\ forwards = 0
    /\ wanted = recovery

PatcherInit ==
    \E ids \in SUBSET PatchSteps \ {{}} : \E having \in SUBSET PatchSteps :
        PatcherStart(ids, having)

\* Apply of a forward patch; it fails on an empty graph.
ApplyChange(field, v) ==
    /\ dagSteps # {}
    /\ forwards < MaxForwards
    /\ undoPatches' = Append(undoPatches,
          [snap |-> PolicySnapshot(field, dagSteps), before |-> recovery])
    /\ recovery' = [s \in PatchSteps |->
          IF s \in dagSteps THEN WithField(recovery[s], field, v)
                            ELSE recovery[s]]
    /\ redoPatches' = <<>>
    /\ forwards' = forwards + 1
    /\ wanted' = recovery'
    /\ UNCHANGED <<dagSteps, newSteps>>

\* Apply of the last rollback patch of the stack from; what it returns goes
\* to the other stack.  Steps the patch never touched keep their policy.
ApplyRollback(from, to) ==
    LET entry == from[Len(from)]
        snap  == entry.snap
    IN /\ recovery' = Restored(snap)
       /\ to' = Append(to,
             [snap   |-> PolicySnapshot(snap.field,
                                        dagSteps \cap DOMAIN snap.had),
              before |-> recovery])
       /\ wanted' = [s \in PatchSteps |->
             IF s \in DOMAIN snap.had THEN entry.before[s] ELSE recovery[s]]

UndoPatch ==
    /\ undoPatches # <<>>
    /\ ApplyRollback(undoPatches, redoPatches)
    /\ undoPatches' = SubSeq(undoPatches, 1, Len(undoPatches) - 1)
    /\ UNCHANGED <<dagSteps, newSteps, forwards>>

RedoPatch ==
    /\ redoPatches # <<>>
    /\ ApplyRollback(redoPatches, undoPatches)
    /\ redoPatches' = SubSeq(redoPatches, 1, Len(redoPatches) - 1)
    /\ UNCHANGED <<dagSteps, newSteps, forwards>>

\* MutableDAG.RemoveNode between a patch and its rollback.
DropStep(s) ==
    /\ s \in dagSteps
    /\ dagSteps' = dagSteps \ {s}
    /\ UNCHANGED <<newSteps, recovery, undoPatches, redoPatches, forwards, wanted>>

\* MutableDAG.AddNode: the held patches know nothing of the step.
InsertStep(s) ==
    /\ s \in newSteps
    /\ dagSteps' = dagSteps \cup {s}
    /\ newSteps' = newSteps \ {s}
    /\ UNCHANGED <<recovery, undoPatches, redoPatches, forwards, wanted>>

PatcherNext ==
    \/ \E field \in PolicyFields, v \in PatchValues : ApplyChange(field, v)
    \/ UndoPatch
    \/ RedoPatch
    \/ \E s \in PatchSteps : DropStep(s) \/ InsertStep(s)

PatcherSpec == PatcherInit /\ [][PatcherNext]_patcherVars

-----------------------------------------------------------------------------

\* Undoing patches in reverse order, and re-applying them, brings every step
\* still in the graph back to exactly the policy it had then, a missing
\* policy included: the field snapshots compose although each knows one
\* field only (recovery_patcher.go, "removing policies the patch created for
\* previously-policyless steps", "so the rollback is itself reversible").
UndoIsExact == \A s \in dagSteps : recovery[s] = wanted[s]
=============================================================================
