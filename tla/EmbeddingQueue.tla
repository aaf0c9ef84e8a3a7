--------------------------- MODULE EmbeddingQueue ---------------------------
(***************************************************************************)
(* The embedding queue in the database                                     *)
(* (internal/storage/postgres/embedding_queue.go).  Every operation is one *)
(* transaction that locks the rows it changes, so it is one step.  The     *)
(* workers that fetch tasks, embed them and report back are not in the     *)
(* repository; they are whoever calls the queue, and may die at any time.  *)
(*                                                                         *)
(* A row is named by its dedupe key: <<text, "task">> for one that was     *)
(* enqueued, <<text, "orphan">> for one that Reconcile put in, whose key   *)
(* leaves out the table.  Every other column but the ones below is that of *)
(* the text it embeds.  The updates do not go by that key but by task_id,  *)
(* which need not be unique, and which the only writer leaves empty.       *)
(***************************************************************************)
EXTENDS Naturals, Sequences, SequencesExt, FiniteSets

CONSTANTS
  Texts,            \* contents to embed, each of one table
  Embedders,
  FetchLimit,       \* the limit of FetchPendingTasks
  MaxEmbedRetries   \* embeddingConfig.MaxRetries

ASSUME EmbeddingAssumption == FetchLimit \in Nat \ {0} /\ MaxEmbedRetries \in Nat

\* A chunk has a generated id, which is not the empty one.
ASSUME ChunkIdAssumption == "" \notin Texts

Keys == Texts \X {"task", "orphan"}

VARIABLES
  chunk,      \* embedding_status of each text's chunk, "none" before it is there
  rowStatus,  \* status of each row, "none" for no row
  retries,    \* retry_count of each row
  order,      \* the rows by queued_at
  hands       \* the rows each worker fetched and has not reported

queue == <<chunk, rowStatus, retries, order, hands>>

EmbeddingInit ==
  /\ chunk = [t \in Texts |-> "none"]
  /\ rowStatus = [k \in Keys |-> "none"]
  /\ retries = [k \in Keys |-> 0]
  /\ order = <<>>
  /\ hands = [w \in Embedders |-> {}]

OneIdForAll(k) == ""

\* task_id: the write buffer leaves it empty ("Will be generated by the queue",
\* which the queue does not); Reconcile puts in the id of the chunk, its primary
\* key, for which the text stands.
IdOf(k) == IF k[2] = "task" THEN "" ELSE k[1]

\* WHERE task_id = $1: every row that has the id of k.
SameTask(k) == {j \in Keys : rowStatus[j] # "none" /\ IdOf(j) = IdOf(k)}

Update(rows, to) == rowStatus' = [k \in Keys |-> IF k \in rows THEN to ELSE rowStatus[k]]

InsertRow(k) ==
  IF rowStatus[k] = "none"
  THEN rowStatus' = [rowStatus EXCEPT ![k] = "pending"] /\ order' = Append(order, k)
  ELSE UNCHANGED <<rowStatus, order>>

-----------------------------------------------------------------------------
\* The transaction of a flush: the chunk, whose hash may be there already, and
\* EnqueueTx, which leaves a row with the same key alone.
EnqueueTx(t) ==
  /\ chunk' = [chunk EXCEPT ![t] = IF @ = "none" THEN "pending" ELSE @]
  /\ InsertRow(<<t, "task">>)
  /\ UNCHANGED <<retries, hands>>

IsPending(k) == rowStatus[k] = "pending"

\* The first FetchLimit pending rows, by queued_at.
Oldest ==
  {k \in Keys : IsPending(k) /\ \E i \in DOMAIN order :
     order[i] = k /\ Cardinality({j \in 1..(i - 1) : IsPending(order[j])}) < FetchLimit}

\* FetchPendingTasks: the oldest pending rows, as many as the limit allows; the
\* update goes by task id, and so marks rows that nobody got.
FetchPendingTasks(w) ==
  /\ Oldest # {}
  /\ hands' = [hands EXCEPT ![w] = @ \cup Oldest]
  /\ Update(UNION {SameTask(k) : k \in Oldest}, "processing")
  /\ UNCHANGED <<chunk, retries, order>>

\* MarkProcessing: a worker says that it is at it.
MarkProcessing(w, k) ==
  /\ k \in hands[w]
  /\ Update(SameTask(k), "processing")
  /\ UNCHANGED <<chunk, retries, order, hands>>

\* The worker wrote the embedding and reports it.
MarkCompleted(w, k) ==
  /\ k \in hands[w]
  /\ chunk' = [chunk EXCEPT ![k[1]] = "completed"]
  /\ Update(SameTask(k), "completed")
  /\ hands' = [hands EXCEPT ![w] = @ \ {k}]
  /\ UNCHANGED <<retries, order>>

\* MarkFailed: any of the task's rows may be the one that is read.  Beyond the
\* limit the copy to the dead letters names a column the queue does not have
\* (created_at), so the transaction is rolled back and nothing changes.
MarkFailed(w, k) ==
  /\ k \in hands[w]
  /\ hands' = [hands EXCEPT ![w] = @ \ {k}]
  /\ \/ /\ \E j \in SameTask(k) : retries[j] < MaxEmbedRetries
        /\ Update(SameTask(k), "pending")
        /\ retries' = [j \in Keys |-> IF j \in SameTask(k) THEN retries[j] + 1 ELSE retries[j]]
     \/ /\ \E j \in SameTask(k) : retries[j] >= MaxEmbedRetries
        /\ UNCHANGED <<rowStatus, retries>>
  /\ UNCHANGED <<chunk, order>>

WorkerDies(w) ==
  /\ hands[w] # {}
  /\ hands' = [hands EXCEPT ![w] = {}]
  /\ UNCHANGED <<chunk, rowStatus, retries, order>>

\* Reconcile: each chunk that is pending for long gets a row, unless a row
\* with the key Reconcile computes is there.
Reconcile ==
  \E stale \in SUBSET {t \in Texts : chunk[t] = "pending"} :
    LET new == {<<t, "orphan">> : t \in stale} \cap {k \in Keys : rowStatus[k] = "none"}
    IN  /\ new # {}
        /\ Update(new, "pending")
        /\ order' = order \o SetToSeq(new)
        /\ UNCHANGED <<chunk, retries, hands>>

EmbeddingNext ==
  \/ \E t \in Texts : EnqueueTx(t)
  \/ \E w \in Embedders : FetchPendingTasks(w) \/ WorkerDies(w)
  \/ \E w \in Embedders, k \in Keys :
       MarkProcessing(w, k) \/ MarkCompleted(w, k) \/ MarkFailed(w, k)
  \/ Reconcile

EmbeddingSpec == EmbeddingInit /\ [][EmbeddingNext]_queue

-----------------------------------------------------------------------------
EmbeddingTypeOK ==
  /\ chunk \in [Texts -> {"none", "pending", "completed"}]
  /\ rowStatus \in [Keys -> {"none", "pending", "processing", "completed"}]
  /\ retries \in [Keys -> Nat]
  /\ ToSet(order) = {k \in Keys : rowStatus[k] # "none"} /\ IsInjective(order)
  /\ hands \in [Embedders -> SUBSET Keys]

\* A task that Reconcile brought back, which has an id of its own, is in one
\* worker's hands at most, is never pending meanwhile, and is tried at most
\* once more than MaxRetries (FetchPendingTasks and MarkFailed), through
\* failures, deaths and whatever happens to the rows that share the empty id.
Rescued == Texts \X {"orphan"}

RescuedIsClaimedOnce ==
  /\ \A v, w \in Embedders : v # w => hands[v] \cap hands[w] \cap Rescued = {}
  /\ \A w \in Embedders : \A k \in hands[w] \cap Rescued : rowStatus[k] = "processing"
  /\ \A k \in Rescued : retries[k] <= MaxEmbedRetries

-----------------------------------------------------------------------------
(* What the source says and the code does not do.                          *)

\* Fetching keeps other workers "from picking up the same tasks"
\* (embedding_queue.go:151-153): no task is in two workers' hands.
NoTaskIsPickedUpTwice ==
  \A v, w \in Embedders : v # w => hands[v] \cap hands[w] = {}

\* embedding_queue.go:249, "MarkCompleted marks a task as successfully
\* completed": what the queue calls completed has been embedded.
CompletedIsEmbedded ==
  \A k \in Keys : rowStatus[k] = "completed" => chunk[k[1]] = "completed"

=============================================================================
