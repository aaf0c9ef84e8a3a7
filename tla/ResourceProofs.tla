--------------------------- MODULE ResourceProofs ---------------------------
(***************************************************************************)
(* Proofs about components in which workers share something, for any       *)
(* workers and limits: the rows of the embedding queue, the lease of a     *)
(* session, the weight of a semaphore, the channel of the write buffer     *)
(* and the archived rounds of a stream.                                    *)
(***************************************************************************)
EXTENDS EmbeddingQueue, SessionLease, WeightedSemaphore, WriteBuffer, EventArchive,
        FiniteSetTheorems, FunctionTheorems, SequenceTheorems, TLAPS

-----------------------------------------------------------------------------
(* EmbeddingQueue: the tasks that Reconcile brought back.  Their ids are     *)
(* their own, so no update of another task reaches them.                    *)

RowsTyped ==
  /\ rowStatus \in [Keys -> {"none", "pending", "processing", "completed"}]
  /\ retries \in [Keys -> Nat]
  /\ hands \in [Embedders -> SUBSET Keys]

ClaimInv == RowsTyped /\ RescuedIsClaimedOnce

LEMMA RescuedAreKeys == Rescued \subseteq Keys
  BY DEF Rescued, Keys

LEMMA ClaimsStart == EmbeddingInit => ClaimInv
<1>. SUFFICES ASSUME EmbeddingInit PROVE ClaimInv
  OBVIOUS
<1>1. RowsTyped
  BY DEF EmbeddingInit, RowsTyped
<1>2. \A w \in Embedders : hands[w] = {}
  BY DEF EmbeddingInit
<1>3. \A k \in Rescued : retries[k] = 0
  BY RescuedAreKeys DEF EmbeddingInit
<1>. QED  BY <1>1, <1>2, <1>3, EmbeddingAssumption DEF ClaimInv, RescuedIsClaimedOnce

\* The id of a rescued task is the id of no other row.
LEMMA OwnId ==
  ASSUME NEW j \in Keys, NEW k \in Rescued, IdOf(j) = IdOf(k)
  PROVE  j = k
<1>1. PICK t \in Texts : k = <<t, "orphan">>
  BY DEF Rescued
<1>2. IdOf(k) = t /\ t # ""
  BY <1>1, ChunkIdAssumption DEF IdOf
<1>3. PICK u \in Texts, o \in {"task", "orphan"} : j = <<u, o>>
  BY DEF Keys
<1>4. o = "orphan" /\ u = t
  BY <1>2, <1>3 DEF IdOf
<1>. QED  BY <1>1, <1>3, <1>4

\* So an update for one row leaves the rescued ones but itself alone.
LEMMA OthersRest ==
  ASSUME NEW k \in Keys, NEW r \in Rescued, r # k
  PROVE  r \notin SameTask(k)
  BY OwnId, RescuedAreKeys DEF SameTask

\* A worker that reports a row lets go of it, and nobody else had it.
LEMMA ReportKeepsClaims ==
  ASSUME ClaimInv, NEW w \in Embedders, NEW k \in hands[w],
         NEW to \in {"pending", "completed"},
         Update(SameTask(k), to), hands' = [hands EXCEPT ![w] = @ \ {k}],
         retries' \in [Keys -> Nat],
         \A j \in Rescued : retries'[j] <= MaxEmbedRetries
  PROVE  ClaimInv'
<1>1. k \in Keys /\ RowsTyped'
  BY DEF ClaimInv, RowsTyped, Update
<1>2. \A v \in Embedders : hands'[v] \subseteq hands[v] /\ k \notin hands'[w]
  BY DEF ClaimInv, RowsTyped
<1>3. \A v \in Embedders : \A j \in hands'[v] \cap Rescued : rowStatus'[j] = "processing"
  <2>. SUFFICES ASSUME NEW v \in Embedders, NEW j \in hands'[v] \cap Rescued
                PROVE  rowStatus'[j] = "processing"
    OBVIOUS
  <2>1. j # k
    BY <1>2 DEF ClaimInv, RescuedIsClaimedOnce
  <2>2. j \notin SameTask(k) /\ j \in Keys
    BY <1>1, <2>1, OthersRest, RescuedAreKeys
  <2>. QED  BY <1>2, <2>2 DEF ClaimInv, RescuedIsClaimedOnce, Update
<1>. QED  BY <1>1, <1>2, <1>3 DEF ClaimInv, RescuedIsClaimedOnce

LEMMA ClaimsStep == ClaimInv /\ [EmbeddingNext]_queue => ClaimInv'
<1>. SUFFICES ASSUME ClaimInv, [EmbeddingNext]_queue PROVE ClaimInv'
  OBVIOUS
<1>1. ASSUME NEW t \in Texts, EnqueueTx(t)
      PROVE  ClaimInv'
  BY <1>1 DEF EnqueueTx, InsertRow, ClaimInv, RowsTyped, RescuedIsClaimedOnce, Keys
<1>2. ASSUME NEW w \in Embedders, FetchPendingTasks(w)
      PROVE  ClaimInv'
  <2>. DEFINE marked == UNION {SameTask(k) : k \in Oldest}
  <2>1. Oldest \subseteq {k \in Keys : rowStatus[k] = "pending"}
    BY DEF Oldest, IsPending
  <2>2. /\ hands' = [hands EXCEPT ![w] = @ \cup Oldest] /\ UNCHANGED retries
        /\ rowStatus' = [k \in Keys |-> IF k \in marked THEN "processing" ELSE rowStatus[k]]
    BY <1>2 DEF FetchPendingTasks, Update
  <2>3. \A k \in Oldest : k \in marked
    BY <2>1 DEF SameTask
  <2>. HIDE DEF marked
  <2>. HIDE DEF Oldest
  <2>4. RowsTyped'
    BY <2>1, <2>2 DEF ClaimInv, RowsTyped
  <2>. QED
    BY <2>1, <2>2, <2>3, <2>4, RescuedAreKeys DEF ClaimInv, RowsTyped, RescuedIsClaimedOnce
<1>3. ASSUME NEW w \in Embedders, WorkerDies(w)
      PROVE  ClaimInv'
  BY <1>3 DEF WorkerDies, ClaimInv, RowsTyped, RescuedIsClaimedOnce
<1>4. ASSUME NEW w \in Embedders, NEW k \in Keys, MarkCompleted(w, k)
      PROVE  ClaimInv'
  BY <1>4, ReportKeepsClaims DEF MarkCompleted, ClaimInv, RowsTyped, RescuedIsClaimedOnce
<1>5. ASSUME NEW w \in Embedders, NEW k \in Keys, MarkFailed(w, k)
      PROVE  ClaimInv'
  <2>1. k \in hands[w] /\ hands' = [hands EXCEPT ![w] = @ \ {k}]
    BY <1>5 DEF MarkFailed
  <2>2. CASE UNCHANGED <<rowStatus, retries>>
    BY <2>1, <2>2 DEF ClaimInv, RowsTyped, RescuedIsClaimedOnce
  <2>3. CASE /\ \E j \in SameTask(k) : retries[j] < MaxEmbedRetries
             /\ Update(SameTask(k), "pending")
             /\ retries' = [j \in Keys |-> IF j \in SameTask(k) THEN retries[j] + 1 ELSE retries[j]]
    <3>1. retries' \in [Keys -> Nat]
      BY <2>3 DEF ClaimInv, RowsTyped
    <3>2. ASSUME NEW r \in Rescued  PROVE retries'[r] <= MaxEmbedRetries
      <4>1. CASE r # k
        BY <2>3, <4>1, OthersRest, RescuedAreKeys DEF ClaimInv, RescuedIsClaimedOnce
      <4>2. CASE r = k
        <5>1. \A j \in SameTask(k) : j = k
          BY <4>2, OwnId DEF SameTask
        <5>2. retries[k] < MaxEmbedRetries
          BY <2>3, <5>1
        <5>3. retries[k] \in Nat /\ (retries'[k] = retries[k] \/ retries'[k] = retries[k] + 1)
          BY <2>3 DEF ClaimInv, RowsTyped
        <5>. QED  BY <4>2, <5>2, <5>3, EmbeddingAssumption
      <4>. QED  BY <4>1, <4>2
    <3>. QED  BY <2>1, <2>3, <3>1, <3>2, ReportKeepsClaims
  <2>. QED  BY <1>5, <2>2, <2>3 DEF MarkFailed
<1>6. CASE Reconcile
  BY <1>6 DEF Reconcile, Update, ClaimInv, RowsTyped, RescuedIsClaimedOnce
<1>7. ASSUME NEW w \in Embedders, NEW k \in Keys, MarkProcessing(w, k)
      PROVE  ClaimInv'
  BY <1>7, RescuedAreKeys
     DEF MarkProcessing, Update, ClaimInv, RowsTyped, RescuedIsClaimedOnce
<1>8. CASE UNCHANGED queue
  BY <1>8 DEF queue, ClaimInv, RowsTyped, RescuedIsClaimedOnce
<1>. QED
  BY <1>1, <1>2, <1>3, <1>4, <1>5, <1>6, <1>7, <1>8 DEF EmbeddingNext

\* A task that Reconcile brought back is in one worker's hands at most, is not
\* pending meanwhile and is tried at most once more than the limit, through
\* failures, deaths and the updates of the tasks that share the empty id
\* (embedding_queue.go, FetchPendingTasks and MarkFailed).
THEOREM RescuedClaimedOnce == EmbeddingSpec => []RescuedIsClaimedOnce
<1>1. EmbeddingInit => ClaimInv
  BY ClaimsStart
<1>2. ClaimInv /\ [EmbeddingNext]_queue => ClaimInv'
  BY ClaimsStep
<1>3. ClaimInv => RescuedIsClaimedOnce
  BY DEF ClaimInv
<1>. QED  BY <1>1, <1>2, <1>3, PTL DEF EmbeddingSpec

-----------------------------------------------------------------------------
(* SessionLease.  A worker that still believes it holds the session is the  *)
(* owner of the lease the manager has, and that lease lasts as long as the  *)
(* worker believes; so two workers cannot believe it at once.               *)

LeaseTypeOK ==
  /\ clock \in Nat
  /\ sessionLease \in Leases \cup {NotLeased}
  /\ told \in [LeaseWorkers -> Nat]

\* What a worker was told and has not outlived is what the manager knows.
BeliefIsBacked ==
  \A w \in LeaseWorkers : told[w] > clock =>
    sessionLease \in Leases /\ sessionLease.owner = w /\ sessionLease.expiresAt = told[w]

LeaseInv == LeaseTypeOK /\ BeliefIsBacked

LEMMA LeaseStarts == LeaseInit => LeaseInv
  BY DEF LeaseInit, LeaseInv, LeaseTypeOK, BeliefIsBacked

\* A grant is for its worker, and takes nothing from one that still believes.
LEMMA GrantKeepsInv ==
  ASSUME LeaseInv, NEW w \in LeaseWorkers, NEW ttl \in LeaseTTLs,
         GrantUntil(w, ttl),
         \A v \in LeaseWorkers : told[v] > clock => v = w
  PROVE  LeaseInv'
<1>. USE LeaseAssumption DEF LeaseInv, LeaseTypeOK, GrantUntil
<1>1. clock + ttl \in Nat
  OBVIOUS
<1>2. LeaseTypeOK'
  BY <1>1 DEF Leases
<1>3. sessionLease' \in Leases /\ sessionLease'.owner = w /\ sessionLease'.expiresAt = clock + ttl
  BY <1>1 DEF Leases
<1>4. BeliefIsBacked'
  <2>. SUFFICES ASSUME NEW v \in LeaseWorkers, told'[v] > clock'
                PROVE  sessionLease' \in Leases /\ sessionLease'.owner = v /\ sessionLease'.expiresAt = told'[v]
    BY DEF BeliefIsBacked
  <2>1. v = w
    OBVIOUS
  <2>. QED  BY <2>1, <1>3
<1>. QED  BY <1>2, <1>4

LEMMA LeaseStep == LeaseInv /\ [LeaseNext]_leaseVars => LeaseInv'
<1>. SUFFICES ASSUME LeaseInv, [LeaseNext]_leaseVars PROVE LeaseInv'
  OBVIOUS
<1>. USE DEF LeaseInv
<1>1. ASSUME NEW w \in LeaseWorkers, NEW ttl \in LeaseTTLs, AcquireLease(w, ttl)
      PROVE  LeaseInv'
  <2>1. \A v \in LeaseWorkers : ~(told[v] > clock)
    BY <1>1, LeaseAssumption DEF AcquireLease, BeliefIsBacked, LeaseTypeOK, Leases
  <2>. QED  BY <1>1, <2>1, GrantKeepsInv DEF AcquireLease
<1>2. ASSUME NEW w \in LeaseWorkers, NEW ttl \in LeaseTTLs, RenewLease(w, ttl)
      PROVE  LeaseInv'
  <2>1. \A v \in LeaseWorkers : told[v] > clock => v = w
    BY <1>2 DEF RenewLease, BeliefIsBacked
  <2>. QED  BY <1>2, <2>1, GrantKeepsInv DEF RenewLease
<1>3. ASSUME NEW w \in LeaseWorkers, ReleaseLease(w)
      PROVE  LeaseInv'
  \* The owner is the only one that believes, and it stops.
  BY <1>3 DEF ReleaseLease, LeaseTypeOK, BeliefIsBacked
<1>4. CASE LeaseClockTicks
  BY <1>4 DEF LeaseClockTicks, LeaseTypeOK, BeliefIsBacked
<1>5. CASE UNCHANGED leaseVars
  BY <1>5 DEF leaseVars, LeaseTypeOK, BeliefIsBacked
<1>. QED  BY <1>1, <1>2, <1>3, <1>4, <1>5 DEF LeaseNext

\* At any instant one worker at most believes that it holds the session,
\* whatever expires, is renewed late or is taken over (lease.go:99).
THEOREM LeaseExclusive == LeaseSpec => []LeaseIsExclusive
<1>1. LeaseInv => LeaseIsExclusive
  BY DEF LeaseInv, BeliefIsBacked, LeaseIsExclusive
<1>. QED  BY LeaseStarts, LeaseStep, <1>1, PTL DEF LeaseSpec

-----------------------------------------------------------------------------
(* The weighted semaphore.                                                 *)

SemInv ==
  /\ available \in Nat
  /\ weighted \in [SemCallers -> Nat]
  /\ semCaller \in [SemCallers -> {"idle", "asleep", "woken", "returned"}]
  /\ IsFiniteSet(HeldUnits)
  /\ SemaphoreIsSound

\* A key that holds more has as many units more, one that holds less has as
\* many fewer.
LEMMA UnitsMove ==
  ASSUME weighted \in [SemCallers -> Nat], IsFiniteSet(HeldUnits), NEW c \in SemCallers,
         NEW w \in Nat, weighted' = [weighted EXCEPT ![c] = w]
  PROVE  /\ IsFiniteSet(HeldUnits')
         /\ Cardinality(HeldUnits') = Cardinality(HeldUnits) + w - weighted[c]
         /\ Cardinality(HeldUnits) \in Nat /\ Cardinality(HeldUnits') \in Nat
<1>. DEFINE old == {c} \X (1 .. weighted[c])
            new == {c} \X (1 .. w)
            rest == HeldUnits \ old
<1>1. /\ HeldUnits = rest \cup old /\ rest \cap old = {}
      /\ HeldUnits' = rest \cup new /\ rest \cap new = {}
  <2>1. old \subseteq HeldUnits
    BY DEF HeldUnits
  <2>2. \A u \in rest : \E d \in SemCallers \ {c} : u \in {d} \X (1 .. weighted[d])
    BY DEF HeldUnits
  <2>3. rest \cap new = {}
    BY <2>2
  <2>4. HeldUnits' \subseteq rest \cup new
    <3>. SUFFICES ASSUME NEW d \in SemCallers, NEW u \in {d} \X (1 .. weighted'[d])
                  PROVE  u \in rest \cup new
      BY DEF HeldUnits
    <3>1. CASE d = c
      BY <3>1
    <3>2. CASE d # c
      BY <3>2 DEF HeldUnits
    <3>. QED  BY <3>1, <3>2
  <2>5. rest \cup new \subseteq HeldUnits'
    <3>1. new \subseteq HeldUnits'
      BY DEF HeldUnits
    <3>2. \A d \in SemCallers \ {c} : weighted'[d] = weighted[d]
      OBVIOUS
    <3>3. rest \subseteq HeldUnits'
      BY <2>2, <3>2 DEF HeldUnits
    <3>. QED  BY <3>1, <3>3
  <2>. QED  BY <2>1, <2>3, <2>4, <2>5
<1>2. /\ IsFiniteSet(old) /\ Cardinality(old) = weighted[c]
      /\ IsFiniteSet(new) /\ Cardinality(new) = w
  <2>1. \A n \in Nat : /\ IsFiniteSet({c} \X (1 .. n))
                       /\ Cardinality({c} \X (1 .. n)) = n
    <3>. SUFFICES ASSUME NEW n \in Nat
                  PROVE  IsFiniteSet({c} \X (1 .. n)) /\ Cardinality({c} \X (1 .. n)) = n
      OBVIOUS
    <3>1. IsFiniteSet(1 .. n) /\ Cardinality(1 .. n) = n
      <4>1. 1 \in Int /\ n \in Int
        OBVIOUS
      <4>2. IsFiniteSet(1 .. n) /\ Cardinality(1 .. n) = IF 1 > n THEN 0 ELSE n - 1 + 1
        BY <4>1, FS_Interval
      <4>. QED  BY <4>2
    <3>2. IsFiniteSet({c}) /\ Cardinality({c}) = 1
      BY FS_Singleton
    <3>3. /\ IsFiniteSet({c} \X (1 .. n))
          /\ Cardinality({c} \X (1 .. n)) = Cardinality({c}) * Cardinality(1 .. n)
      BY <3>1, <3>2, FS_Product
    <3>4. 1 * n = n
      OBVIOUS
    <3>. QED  BY <3>1, <3>2, <3>3, <3>4
  <2>. QED  BY <2>1
<1>3. IsFiniteSet(rest) /\ rest \in SUBSET HeldUnits
  BY FS_Subset
<1>. HIDE DEF old, new, rest
<1>4. /\ Cardinality(HeldUnits) = Cardinality(rest) + weighted[c]
      /\ Cardinality(HeldUnits') = Cardinality(rest) + w
      /\ IsFiniteSet(HeldUnits')
  <2>1. Cardinality({}) = 0 /\ Cardinality(rest) \in Nat
    BY <1>3, FS_EmptySet, FS_CardinalityType
  <2>2. /\ Cardinality(rest \cup old) = Cardinality(rest) + Cardinality(old) - Cardinality(rest \cap old)
        /\ Cardinality(rest \cup new) = Cardinality(rest) + Cardinality(new) - Cardinality(rest \cap new)
        /\ IsFiniteSet(rest \cup new)
    BY <1>2, <1>3, FS_Union
  <2>3. Cardinality(rest \cap old) = 0 /\ Cardinality(rest \cap new) = 0
    BY <1>1, <2>1
  <2>4. Cardinality(rest \cup old) = Cardinality(rest) + weighted[c]
    BY <1>2, <2>1, <2>2, <2>3
  <2>5. Cardinality(rest \cup new) = Cardinality(rest) + w
    BY <1>2, <2>1, <2>2, <2>3
  <2>. QED  BY <1>1, <2>2, <2>4, <2>5
<1>5. Cardinality(rest) \in Nat
  BY <1>3, FS_CardinalityType
<1>. QED  BY <1>4, <1>5

LEMMA SemStarts == SemInit => SemInv
<1>. SUFFICES ASSUME SemInit PROVE SemInv
  OBVIOUS
<1>1. HeldUnits = {}
  <2>1. \A c \in SemCallers : 1 .. weighted[c] = {}
    BY DEF SemInit
  <2>. QED  BY <2>1 DEF HeldUnits
<1>2. IsFiniteSet(HeldUnits) /\ Cardinality(HeldUnits) = 0
  BY <1>1, FS_EmptySet
<1>3. WeightIsConserved
  BY <1>2, SemAssumption DEF SemInit, WeightIsConserved
<1>. QED
  BY <1>2, <1>3, SemAssumption DEF SemInit, SemInv, SemaphoreIsSound, SleepIsJustified

\* After a broadcast nobody sleeps.
LEMMA BroadcastWakes ==
  ASSUME SemInv, Broadcast
  PROVE  /\ semCaller' \in [SemCallers -> {"idle", "asleep", "woken", "returned"}]
         /\ \A c \in SemCallers : semCaller'[c] # "asleep"
BY DEF SemInv, Broadcast

LEMMA SemKeeps == SemInv /\ [SemNext]_semVars => SemInv'
<1>. SUFFICES ASSUME SemInv, [SemNext]_semVars PROVE SemInv'
  OBVIOUS
<1>. USE SemAssumption
<1>1. ASSUME NEW c \in SemCallers, GrantWeight(c)
      PROVE  /\ available' \in Nat /\ weighted' \in [SemCallers -> Nat]
             /\ IsFiniteSet(HeldUnits') /\ WeightIsConserved' /\ available' <= available
  <2>. DEFINE w == weighted[c] + SemWeight[c]
  <2>1. /\ w \in Nat /\ weighted' = [weighted EXCEPT ![c] = w]
        /\ weighted[c] \in Nat /\ SemWeight[c] \in Nat
    BY <1>1 DEF GrantWeight, SemInv
  <2>2. /\ IsFiniteSet(HeldUnits')
        /\ Cardinality(HeldUnits') = Cardinality(HeldUnits) + w - weighted[c]
        /\ Cardinality(HeldUnits) \in Nat
    BY <2>1, UnitsMove DEF SemInv
  <2>3. available' = available - SemWeight[c] /\ available' \in Nat
    BY <1>1, <2>1 DEF GrantWeight, SemInv
  <2>4. WeightIsConserved'
    BY <2>1, <2>2, <2>3 DEF WeightIsConserved, SemInv, SemaphoreIsSound
  <2>. QED  BY <2>1, <2>2, <2>3, <2>4 DEF SemInv
<1>2. ASSUME NEW c \in SemCallers, SemRelease(c) PROVE SemInv'
  <2>. DEFINE w == weighted[c] - SemWeight[c]
  <2>1. /\ w \in Nat /\ weighted' = [weighted EXCEPT ![c] = w]
        /\ weighted[c] \in Nat /\ SemWeight[c] \in Nat
    BY <1>2 DEF SemRelease, GiveBack, SemInv
  <2>2. /\ IsFiniteSet(HeldUnits')
        /\ Cardinality(HeldUnits') = Cardinality(HeldUnits) + w - weighted[c]
        /\ Cardinality(HeldUnits) \in Nat
    BY <2>1, UnitsMove DEF SemInv
  <2>3. available' = available + SemWeight[c] /\ available' \in Nat
    BY <1>2, <2>1 DEF SemRelease, GiveBack, SemInv
  <2>4. WeightIsConserved'
    BY <2>1, <2>2, <2>3 DEF WeightIsConserved, SemInv, SemaphoreIsSound
  <2>5. weighted' \in [SemCallers -> Nat]
    BY <2>1 DEF SemInv
  <2>6. Broadcast
    BY <1>2 DEF SemRelease
  <2>. QED
    BY <2>2, <2>3, <2>4, <2>5, <2>6, BroadcastWakes DEF SemInv, SemaphoreIsSound, SleepIsJustified
<1>3. ASSUME SemReset PROVE SemInv'
  <2>1. HeldUnits' = {}
    <3>1. \A c \in SemCallers : 1 .. weighted'[c] = {}
      BY <1>3 DEF SemReset
    <3>. QED  BY <3>1 DEF HeldUnits
  <2>2. IsFiniteSet(HeldUnits') /\ Cardinality(HeldUnits') = 0
    BY <2>1, FS_EmptySet
  <2>3. available' = SemBurst /\ weighted' \in [SemCallers -> Nat] /\ Broadcast
    BY <1>3 DEF SemReset
  <2>4. WeightIsConserved'
    BY <2>2, <2>3 DEF WeightIsConserved
  <2>. QED
    BY <2>2, <2>3, <2>4, BroadcastWakes DEF SemInv, SemaphoreIsSound, SleepIsJustified
<1>4. ASSUME UNCHANGED <<available, weighted>>
      PROVE  /\ available' \in Nat /\ weighted' \in [SemCallers -> Nat]
             /\ IsFiniteSet(HeldUnits') /\ WeightIsConserved'
  BY <1>4 DEF SemInv, SemaphoreIsSound, WeightIsConserved, HeldUnits
<1>5. ASSUME NEW c \in SemCallers, SemLoop(c) PROVE SemInv'
  <2>1. CASE GrantWeight(c) /\ semCaller' = [semCaller EXCEPT ![c] = "idle"]
    <3>1. SleepIsJustified'
      BY <1>1, <1>5, <2>1 DEF SemLoop, SemInv, SemaphoreIsSound, SleepIsJustified
    <3>. QED  BY <1>1, <2>1, <3>1 DEF SemInv, SemaphoreIsSound
  <2>2. CASE /\ UNCHANGED <<available, weighted>>
             /\ \/ semCaller' = [semCaller EXCEPT ![c] = "returned"]
                \/ /\ semCaller' = [semCaller EXCEPT ![c] = "asleep"]
                   /\ c \notin cancelled /\ available < SemWeight[c]
    <3>1. SleepIsJustified'
      BY <1>5, <2>2 DEF SemLoop, SemInv, SemaphoreIsSound, SleepIsJustified
    <3>2. semCaller' \in [SemCallers -> {"idle", "asleep", "woken", "returned"}]
      BY <2>2 DEF SemInv
    <3>. QED  BY <1>4, <2>2, <3>1, <3>2 DEF SemInv, SemaphoreIsSound
  <2>. QED  BY <1>5, <2>1, <2>2 DEF SemLoop
<1>6. ASSUME NEW c \in SemCallers, SemAllow(c) PROVE SemInv'
  <2>1. GrantWeight(c) /\ UNCHANGED <<semCaller, cancelled, callbacks>>
    BY <1>6 DEF SemAllow
  <2>2. SleepIsJustified'
    BY <1>1, <2>1 DEF SemInv, SemaphoreIsSound, SleepIsJustified
  <2>. QED  BY <1>1, <2>1, <2>2 DEF SemInv, SemaphoreIsSound
<1>7. ASSUME NEW c \in SemCallers, SemCancel(c) \/ SemCallback(c) \/ SemCallAgain(c) PROVE SemInv'
  <2>1. UNCHANGED <<available, weighted>>
    BY <1>7 DEF SemCancel, SemCallback, SemCallAgain
  <2>2. CASE SemCancel(c)
    <3>1. SleepIsJustified' /\ semCaller' = semCaller
      BY <2>2 DEF SemCancel, SemInv, SemaphoreIsSound, SleepIsJustified
    <3>. QED  BY <1>4, <2>1, <3>1 DEF SemInv, SemaphoreIsSound
  <2>3. CASE SemCallback(c)
    <3>1. Broadcast
      BY <2>3 DEF SemCallback
    <3>. QED  BY <1>4, <2>1, <3>1, BroadcastWakes DEF SemInv, SemaphoreIsSound, SleepIsJustified
  <2>4. CASE SemCallAgain(c)
    <3>1. SleepIsJustified' /\ semCaller' \in [SemCallers -> {"idle", "asleep", "woken", "returned"}]
      BY <2>4 DEF SemCallAgain, SemInv, SemaphoreIsSound, SleepIsJustified
    <3>. QED  BY <1>4, <2>1, <3>1 DEF SemInv, SemaphoreIsSound
  <2>. QED  BY <1>7, <2>2, <2>3, <2>4
<1>8. CASE UNCHANGED semVars
  <2>1. SleepIsJustified' /\ UNCHANGED <<available, weighted, semCaller>>
    BY <1>8 DEF semVars, SemInv, SemaphoreIsSound, SleepIsJustified
  <2>. QED  BY <1>4, <2>1 DEF SemInv, SemaphoreIsSound
<1>. QED
  BY <1>2, <1>3, <1>5, <1>6, <1>7, <1>8 DEF SemNext

\* The weight is shared out exactly and no wakeup is lost, for any callers,
\* burst and weights (semaphore.go).
THEOREM SemaphoreSound == SemSpec => []SemaphoreIsSound
<1>1. SemInv => SemaphoreIsSound
  BY DEF SemInv
<1>. QED  BY SemStarts, SemKeeps, <1>1, PTL DEF SemSpec

-----------------------------------------------------------------------------
(* The write buffer.                                                       *)

\* No two of the five places have an item in common.
Apart(h, c, g, k, l) ==
  /\ h \cap c = {} /\ h \cap g = {} /\ h \cap k = {} /\ h \cap l = {}
  /\ c \cap g = {} /\ c \cap k = {} /\ c \cap l = {}
  /\ g \cap k = {} /\ g \cap l = {} /\ k \cap l = {}

\* No item is in a queue twice.
NoneTwice(s) == \A i, j \in 1 .. Len(s) : s[i] = s[j] => i = j

BufferTyped ==
  /\ writes \in Nat
  /\ channel \in Seq(Int) /\ gathered \in Seq(Int)
  /\ mutex = "writer" => writes > 0
  /\ loop \in {"flushing", "final", "requeueing"} => gathered # <<>>

ItemsInPlace ==
  /\ UNION {InHand, ToSet(channel), ToSet(gathered), kept, lost} = 1 .. writes
  /\ Apart(InHand, ToSet(channel), ToSet(gathered), kept, lost)
  /\ NoneTwice(channel) /\ NoneTwice(gathered)

BufferInv == BufferTyped /\ ItemsInPlace

\* An item that is put in a queue it is not in.
LEMMA QueueIn ==
  ASSUME NEW s \in Seq(Int), NEW x \in Int, x \notin ToSet(s), NoneTwice(s)
  PROVE  /\ Append(s, x) \in Seq(Int) /\ NoneTwice(Append(s, x))
         /\ ToSet(Append(s, x)) = ToSet(s) \cup {x}
<1>1. /\ Append(s, x) \in Seq(Int) /\ Len(Append(s, x)) = Len(s) + 1 /\ Len(s) \in Nat
      /\ \A i \in 1 .. Len(s) : Append(s, x)[i] = s[i]
      /\ Append(s, x)[Len(s) + 1] = x
  OBVIOUS
<1>2. \A i \in 1 .. Len(s) : s[i] # x
  BY DEF ToSet
<1>3. NoneTwice(Append(s, x))
  <2>. SUFFICES ASSUME NEW i \in 1 .. Len(s) + 1, NEW j \in 1 .. Len(s) + 1, Append(s, x)[i] = Append(s, x)[j]
                PROVE  i = j
    BY <1>1 DEF NoneTwice
  <2>1. i \in 1 .. Len(s) \/ i = Len(s) + 1
    BY <1>1
  <2>2. j \in 1 .. Len(s) \/ j = Len(s) + 1
    BY <1>1
  <2>. QED  BY <1>1, <1>2, <2>1, <2>2 DEF NoneTwice
<1>4. ToSet(Append(s, x)) = ToSet(s) \cup {x}
  BY <1>1 DEF ToSet
<1>. QED  BY <1>1, <1>3, <1>4

\* The first item of a queue is taken out of it.
LEMMA QueueOut ==
  ASSUME NEW s \in Seq(Int), s # <<>>, NoneTwice(s)
  PROVE  /\ Tail(s) \in Seq(Int) /\ NoneTwice(Tail(s)) /\ Len(Tail(s)) = Len(s) - 1
         /\ Head(s) \in ToSet(s) /\ Head(s) \in Int
         /\ ToSet(Tail(s)) = ToSet(s) \ {Head(s)}
<1>1. /\ Tail(s) \in Seq(Int) /\ Len(Tail(s)) = Len(s) - 1 /\ Len(s) \in Nat /\ Len(s) >= 1
      /\ \A i \in 1 .. Len(s) - 1 : Tail(s)[i] = s[i + 1]
      /\ Head(s) = s[1] /\ s[1] \in Int
  OBVIOUS
<1>2. NoneTwice(Tail(s))
  BY <1>1 DEF NoneTwice
<1>3. ToSet(Tail(s)) = {s[i] : i \in 2 .. Len(s)}
  <2>1. \A x : x \in ToSet(Tail(s)) <=> \E i \in 1 .. Len(s) - 1 : x = Tail(s)[i]
    <3>1. DOMAIN Tail(s) = 1 .. Len(s) - 1
      BY <1>1, LenProperties
    <3>. QED  BY <3>1 DEF ToSet
  <2>2. \A i \in 1 .. Len(s) - 1 : i + 1 \in 2 .. Len(s)
    BY <1>1
  <2>3. \A i \in 2 .. Len(s) : i - 1 \in 1 .. Len(s) - 1 /\ (i - 1) + 1 = i
    BY <1>1
  <2>4. \A i \in 2 .. Len(s) : Tail(s)[i - 1] = s[i]
    BY <1>1, <2>3
  <2>5. \A x : x \in ToSet(Tail(s)) <=> \E i \in 2 .. Len(s) : x = s[i]
    <3>1. ASSUME NEW x, x \in ToSet(Tail(s)) PROVE \E i \in 2 .. Len(s) : x = s[i]
      BY <1>1, <2>1, <2>2, <3>1
    <3>2. ASSUME NEW x, NEW i \in 2 .. Len(s), x = s[i] PROVE x \in ToSet(Tail(s))
      BY <2>1, <2>3, <2>4, <3>2
    <3>. QED  BY <3>1, <3>2
  <2>. QED  BY <2>5
<1>4. ToSet(s) = {s[i] : i \in 2 .. Len(s)} \cup {s[1]}
  BY <1>1 DEF ToSet
<1>5. s[1] \notin {s[i] : i \in 2 .. Len(s)}
  BY <1>1 DEF NoneTwice
<1>. QED  BY <1>1, <1>2, <1>3, <1>4, <1>5

LEMMA NoQueue == /\ <<>> \in Seq(Int) /\ ToSet(<<>>) = {} /\ NoneTwice(<<>>) /\ Len(<<>>) = 0
BY DEF ToSet, NoneTwice

\* A queue without repetitions is as long as it has items.
LEMMA QueueLength ==
  ASSUME NEW s \in Seq(Int), NoneTwice(s)
  PROVE  IsFiniteSet(ToSet(s)) /\ Cardinality(ToSet(s)) = Len(s)
<1>1. s \in [1 .. Len(s) -> ToSet(s)] /\ Len(s) \in Nat
  BY DEF ToSet
<1>2. s \in Bijection(1 .. Len(s), ToSet(s))
  <2>1. \A i, j \in 1 .. Len(s) : s[i] = s[j] => i = j
    BY DEF NoneTwice
  <2>2. \A x \in ToSet(s) : \E i \in 1 .. Len(s) : s[i] = x
    BY DEF ToSet
  <2>. QED  BY <1>1, <2>1, <2>2, Fun_IsBij
<1>3. ExistsBijection(1 .. Len(s), ToSet(s))
  BY <1>2 DEF ExistsBijection
<1>4. IsFiniteSet(1 .. Len(s)) /\ Cardinality(1 .. Len(s)) = Len(s)
  <2>1. IsFiniteSet(1 .. Len(s)) /\ Cardinality(1 .. Len(s)) = IF 1 > Len(s) THEN 0 ELSE Len(s) - 1 + 1
    BY <1>1, FS_Interval
  <2>. QED  BY <1>1, <2>1
<1>. QED  BY <1>3, <1>4, FS_Bijection

\* Sets that are apart count together.
LEMMA CountApart ==
  ASSUME NEW S, IsFiniteSet(S), NEW T, IsFiniteSet(T), S \cap T = {}
  PROVE  /\ IsFiniteSet(S \cup T)
         /\ Cardinality(S \cup T) = Cardinality(S) + Cardinality(T)
<1>1. /\ IsFiniteSet(S \cup T)
      /\ Cardinality(S \cup T) = Cardinality(S) + Cardinality(T) - Cardinality(S \cap T)
  BY FS_Union
<1>2. Cardinality(S \cap T) = 0
  BY FS_EmptySet
<1>3. Cardinality(S) \in Nat /\ Cardinality(T) \in Nat
  BY FS_CardinalityType
<1>. QED  BY <1>1, <1>2, <1>3

LEMMA PlacesCount == BufferInv => WritesAreAccountedFor
<1>. SUFFICES ASSUME BufferInv PROVE WritesAreAccountedFor
  OBVIOUS
<1>. DEFINE h == InHand
            c == ToSet(channel)
            g == ToSet(gathered)
<1>1. /\ UNION {h, c, g, kept, lost} = 1 .. writes /\ Apart(h, c, g, kept, lost) /\ writes \in Nat
  BY DEF BufferInv, BufferTyped, ItemsInPlace
<1>2. /\ IsFiniteSet(c) /\ Cardinality(c) = Len(channel)
      /\ IsFiniteSet(g) /\ Cardinality(g) = Len(gathered)
  BY QueueLength DEF BufferInv, BufferTyped, ItemsInPlace
<1>. HIDE DEF h, c, g
<1>3. IsFiniteSet(1 .. writes) /\ Cardinality(1 .. writes) = writes
  <2>1. IsFiniteSet(1 .. writes) /\ Cardinality(1 .. writes) = IF 1 > writes THEN 0 ELSE writes - 1 + 1
    BY <1>1, FS_Interval
  <2>. QED  BY <1>1, <2>1
<1>4. IsFiniteSet(h) /\ IsFiniteSet(kept) /\ IsFiniteSet(lost)
  <2>1. h \in SUBSET (1 .. writes) /\ kept \in SUBSET (1 .. writes) /\ lost \in SUBSET (1 .. writes)
    BY <1>1
  <2>. QED  BY <1>3, <2>1, FS_Subset
<1>5. IsFiniteSet(h \cup c) /\ Cardinality(h \cup c) = Cardinality(h) + Cardinality(c)
  BY <1>1, <1>2, <1>4, CountApart DEF Apart
<1>6. /\ IsFiniteSet((h \cup c) \cup g)
      /\ Cardinality((h \cup c) \cup g) = Cardinality(h \cup c) + Cardinality(g)
  <2>1. (h \cup c) \cap g = {}
    BY <1>1 DEF Apart
  <2>. QED  BY <1>2, <1>5, <2>1, CountApart
<1>7. /\ IsFiniteSet(((h \cup c) \cup g) \cup kept)
      /\ Cardinality(((h \cup c) \cup g) \cup kept) = Cardinality((h \cup c) \cup g) + Cardinality(kept)
  <2>1. ((h \cup c) \cup g) \cap kept = {}
    BY <1>1 DEF Apart
  <2>. QED  BY <1>4, <1>6, <2>1, CountApart
<1>8. Cardinality((((h \cup c) \cup g) \cup kept) \cup lost)
        = Cardinality(((h \cup c) \cup g) \cup kept) + Cardinality(lost)
  <2>1. (((h \cup c) \cup g) \cup kept) \cap lost = {}
    BY <1>1 DEF Apart
  <2>. QED  BY <1>4, <1>7, <2>1, CountApart
<1>9. (((h \cup c) \cup g) \cup kept) \cup lost = 1 .. writes
  BY <1>1
<1>10. Cardinality(h) + Cardinality(c) + Cardinality(g) + Cardinality(kept) + Cardinality(lost) = writes
  <2>1. /\ Cardinality(h) \in Nat /\ Cardinality(c) \in Nat /\ Cardinality(g) \in Nat
        /\ Cardinality(kept) \in Nat /\ Cardinality(lost) \in Nat
    BY <1>2, <1>4, FS_CardinalityType
  <2>. QED  BY <1>3, <1>5, <1>6, <1>7, <1>8, <1>9, <2>1
<1>. QED  BY <1>1, <1>2, <1>10 DEF WritesAreAccountedFor, h, c, g

LEMMA BufferStarts == WriteBufferInit => BufferInv
<1>1. 1 .. 0 = {}
  OBVIOUS
<1>. QED
  BY <1>1, NoQueue DEF WriteBufferInit, BufferInv, BufferTyped, ItemsInPlace, InHand, Apart

\* Where nothing is moved every item stays in its place.
LEMMA ItemsRest ==
  ASSUME BufferInv, UNCHANGED <<channel, gathered, writes, kept, lost>>, InHand' = InHand
  PROVE  ItemsInPlace'
BY DEF BufferInv, ItemsInPlace

\* The next item is nowhere yet.
LEMMA NextItem ==
  ASSUME BufferInv, Submit
  PROVE  /\ writes' = writes + 1 /\ writes' \in Int /\ writes' \in Nat /\ writes' > 0
         /\ 1 .. writes' = (1 .. writes) \cup {writes'} /\ writes' \notin 1 .. writes
         /\ writes' \notin ToSet(channel) /\ writes' \notin ToSet(gathered)
         /\ writes' \notin kept /\ writes' \notin lost
         /\ mutex = "free" /\ InHand = {}
<1>1. /\ writes' = writes + 1 /\ writes \in Nat /\ mutex = "free"
  BY DEF Submit, BufferInv, BufferTyped
<1>2. /\ writes' \in Int /\ writes' \in Nat /\ writes' > 0
      /\ 1 .. writes' = (1 .. writes) \cup {writes'} /\ writes' \notin 1 .. writes
  BY <1>1
<1>3. UNION {InHand, ToSet(channel), ToSet(gathered), kept, lost} = 1 .. writes
  BY DEF BufferInv, ItemsInPlace
<1>4. InHand = {}
  BY <1>1 DEF InHand
<1>. QED  BY <1>1, <1>2, <1>3, <1>4

LEMMA BufferKeeps == BufferInv /\ [WriteBufferNext]_buffered => BufferInv'
<1>. SUFFICES ASSUME BufferInv, [WriteBufferNext]_buffered PROVE BufferInv'
  OBVIOUS
<1>1. /\ writes \in Nat /\ channel \in Seq(Int) /\ gathered \in Seq(Int)
      /\ NoneTwice(channel) /\ NoneTwice(gathered)
      /\ UNION {InHand, ToSet(channel), ToSet(gathered), kept, lost} = 1 .. writes
      /\ Apart(InHand, ToSet(channel), ToSet(gathered), kept, lost)
  BY DEF BufferInv, BufferTyped, ItemsInPlace
<1>2. ASSUME WriteSends PROVE BufferInv'
  <2>1. /\ Submit /\ channel' = Append(channel, writes')
        /\ UNCHANGED <<gathered, loop, mutex, kept, lost>>
    BY <1>2 DEF WriteSends
  <2>2. PICK n : n = writes'
    OBVIOUS
  <2>3. /\ n = writes + 1 /\ n \in Int /\ n \in Nat /\ 1 .. n = (1 .. writes) \cup {n} /\ n \notin 1 .. writes
        /\ n \notin ToSet(channel) /\ mutex = "free"
    BY <2>1, <2>2, NextItem
  <2>4. channel' \in Seq(Int) /\ NoneTwice(channel') /\ ToSet(channel') = ToSet(channel) \cup {n}
    BY <1>1, <2>1, <2>2, <2>3, QueueIn
  <2>5. InHand = {} /\ InHand' = {}
    BY <2>1, <2>3 DEF InHand
  <2>6. ItemsInPlace'
    BY <1>1, <2>1, <2>2, <2>3, <2>4, <2>5 DEF ItemsInPlace, Apart
  <2>7. BufferTyped'
    BY <2>1, <2>2, <2>3, <2>4 DEF BufferInv, BufferTyped
  <2>. QED  BY <2>6, <2>7 DEF BufferInv
<1>3. ASSUME WriteRefused PROVE BufferInv'
  <2>1. /\ Submit /\ lost' = lost \cup {writes'}
        /\ UNCHANGED <<channel, gathered, loop, mutex, kept>>
    BY <1>3 DEF WriteRefused
  <2>2. PICK n : n = writes'
    OBVIOUS
  <2>3. /\ n = writes + 1 /\ n \in Nat /\ 1 .. n = (1 .. writes) \cup {n} /\ n \notin 1 .. writes
        /\ mutex = "free"
    BY <2>1, <2>2, NextItem
  <2>4. InHand = {} /\ InHand' = {}
    BY <2>1, <2>3 DEF InHand
  <2>5. ItemsInPlace'
    BY <1>1, <2>1, <2>2, <2>3, <2>4 DEF ItemsInPlace, Apart
  <2>6. BufferTyped'
    BY <2>1, <2>2, <2>3 DEF BufferInv, BufferTyped
  <2>. QED  BY <2>5, <2>6 DEF BufferInv
<1>4. ASSUME WriteWaits PROVE BufferInv'
  <2>1. /\ Submit /\ mutex' = "writer" /\ UNCHANGED <<channel, gathered, loop, kept, lost>>
    BY <1>4 DEF WriteWaits
  <2>2. PICK n : n = writes'
    OBVIOUS
  <2>3. /\ n = writes + 1 /\ n \in Nat /\ n > 0 /\ 1 .. n = (1 .. writes) \cup {n} /\ n \notin 1 .. writes
        /\ InHand = {}
    BY <2>1, <2>2, NextItem
  <2>4. InHand' = {n}
    BY <2>1, <2>2 DEF InHand
  <2>5. ItemsInPlace'
    BY <1>1, <2>1, <2>2, <2>3, <2>4 DEF ItemsInPlace, Apart
  <2>6. BufferTyped'
    BY <2>1, <2>2, <2>3 DEF BufferInv, BufferTyped
  <2>. QED  BY <2>5, <2>6 DEF BufferInv
<1>5. ASSUME WriteWaitEnds PROVE BufferInv'
  <2>1. /\ mutex = "writer" /\ mutex' = "free" /\ UNCHANGED <<gathered, loop, writes, kept>>
        /\ \/ channel' = Append(channel, writes) /\ lost' = lost
           \/ lost' = lost \cup {writes} /\ channel' = channel
    BY <1>5 DEF WriteWaitEnds
  <2>2. InHand = {writes} /\ InHand' = {} /\ writes \in Int
    BY <1>1, <2>1 DEF InHand
  <2>3. CASE channel' = Append(channel, writes) /\ lost' = lost
    <3>1. writes \notin ToSet(channel)
      BY <1>1, <2>2 DEF Apart
    <3>2. channel' \in Seq(Int) /\ NoneTwice(channel') /\ ToSet(channel') = ToSet(channel) \cup {writes}
      BY <1>1, <2>2, <2>3, <3>1, QueueIn
    <3>3. ItemsInPlace'
      BY <1>1, <2>1, <2>2, <2>3, <3>2 DEF ItemsInPlace, Apart
    <3>. QED  BY <2>1, <3>2, <3>3 DEF BufferInv, BufferTyped
  <2>4. CASE lost' = lost \cup {writes} /\ channel' = channel
    <3>1. ItemsInPlace'
      BY <1>1, <2>1, <2>2, <2>4 DEF ItemsInPlace, Apart
    <3>. QED  BY <2>1, <2>4, <3>1 DEF BufferInv, BufferTyped
  <2>. QED  BY <2>1, <2>3, <2>4
<1>6. ASSUME LoopTakes PROVE BufferInv'
  <2>1. /\ channel # <<>> /\ channel' = Tail(channel) /\ gathered' = Append(gathered, Head(channel))
        /\ UNCHANGED <<mutex, writes, kept, lost>>
    BY <1>6 DEF LoopTakes
  <2>2. PICK x : x = Head(channel)
    OBVIOUS
  <2>3. /\ channel' \in Seq(Int) /\ NoneTwice(channel') /\ ToSet(channel') = ToSet(channel) \ {x}
        /\ x \in ToSet(channel) /\ x \in Int
    BY <1>1, <2>1, <2>2, QueueOut
  <2>4. x \notin ToSet(gathered)
    BY <1>1, <2>3 DEF Apart
  <2>5. /\ gathered' \in Seq(Int) /\ NoneTwice(gathered') /\ ToSet(gathered') = ToSet(gathered) \cup {x}
    BY <1>1, <2>1, <2>2, <2>3, <2>4, QueueIn
  <2>6. gathered' # <<>>
    BY <2>5, NoQueue
  <2>7. InHand' = InHand
    BY <2>1 DEF InHand
  <2>8. ItemsInPlace'
    BY <1>1, <2>1, <2>3, <2>5, <2>7 DEF ItemsInPlace, Apart
  <2>. QED  BY <2>1, <2>3, <2>5, <2>6, <2>8 DEF BufferInv, BufferTyped
<1>7. ASSUME LoopTicks \/ LoopCancelled \/ LoopClosed \/ FlushFails PROVE BufferInv'
  <2>1. /\ UNCHANGED <<channel, gathered, mutex, writes, kept, lost>>
        /\ loop' \in {"flushing", "final", "requeueing"} => gathered # <<>>
    BY <1>7 DEF LoopTicks, LoopCancelled, LoopClosed, LoopLeaves, FlushFails, BeginFlush, BufferInv, BufferTyped
  <2>2. InHand' = InHand
    BY <2>1 DEF InHand
  <2>. QED  BY <2>1, <2>2, ItemsRest DEF BufferInv, BufferTyped
<1>8. ASSUME FlushSucceeds PROVE BufferInv'
  <2>1. /\ kept' = kept \cup ToSet(gathered) /\ gathered' = <<>>
        /\ loop' \in {"ended", "select"} /\ UNCHANGED <<channel, mutex, writes, lost>>
    BY <1>8 DEF FlushSucceeds, AfterFlush
  <2>2. InHand' = InHand
    BY <2>1 DEF InHand
  <2>3. ItemsInPlace'
    BY <1>1, <2>1, <2>2, NoQueue DEF ItemsInPlace, Apart
  <2>. QED  BY <2>1, <2>3, NoQueue DEF BufferInv, BufferTyped
<1>9. ASSUME FlushGivesUp PROVE BufferInv'
  <2>1. /\ UNCHANGED <<channel, mutex, writes, kept>>
        /\ \/ loop = "flushing" /\ loop' = "requeueing" /\ UNCHANGED <<gathered, lost>>
           \/ /\ lost' = lost \cup ToSet(gathered) /\ gathered' = <<>>
              /\ loop' \in {"ended", "select"}
    BY <1>9 DEF FlushGivesUp, AfterFlush
  <2>2. InHand' = InHand
    BY <2>1 DEF InHand
  <2>3. CASE loop = "flushing" /\ loop' = "requeueing" /\ UNCHANGED <<gathered, lost>>
    BY <2>1, <2>2, <2>3, ItemsRest DEF BufferInv, BufferTyped
  <2>4. CASE /\ lost' = lost \cup ToSet(gathered) /\ gathered' = <<>>
             /\ loop' \in {"ended", "select"}
    <3>1. ItemsInPlace'
      BY <1>1, <2>1, <2>2, <2>4, NoQueue DEF ItemsInPlace, Apart
    <3>. QED  BY <2>1, <2>4, <3>1, NoQueue DEF BufferInv, BufferTyped
  <2>. QED  BY <2>1, <2>3, <2>4
<1>10. ASSUME Requeue PROVE BufferInv'
  <2>1. /\ loop = "requeueing" /\ gathered # <<>> /\ UNCHANGED <<mutex, writes, kept>>
    BY <1>10 DEF Requeue, BufferInv, BufferTyped
  <2>2. InHand' = InHand
    BY <2>1 DEF InHand
  <2>3. CASE loop' = "panicked" /\ UNCHANGED <<channel, gathered, lost>>
    BY <2>1, <2>2, <2>3, ItemsRest DEF BufferInv, BufferTyped
  <2>4. CASE PutBackAndMoveOn
    <3>1. PICK x : x = Head(gathered)
      OBVIOUS
    <3>2. /\ gathered' = Tail(gathered) /\ loop' = IF Len(gathered) = 1 THEN "select" ELSE loop
          /\ \/ channel' = Append(channel, x) /\ lost' = lost
             \/ lost' = lost \cup {x} /\ channel' = channel
      BY <2>4, <3>1 DEF PutBackAndMoveOn, PutBack
    <3>3. /\ gathered' \in Seq(Int) /\ NoneTwice(gathered') /\ ToSet(gathered') = ToSet(gathered) \ {x}
          /\ x \in ToSet(gathered) /\ x \in Int /\ Len(gathered') = Len(gathered) - 1
      BY <1>1, <2>1, <3>1, <3>2, QueueOut
    <3>4. loop' = "requeueing" => gathered' # <<>>
      <4>1. loop' = "requeueing" => Len(gathered) # 1
        BY <3>2
      <4>2. gathered' = <<>> => Len(gathered') = 0
        BY NoQueue
      <4>3. Len(gathered') = 0 => Len(gathered) = 1
        BY <1>1, <3>3
      <4>. QED  BY <4>1, <4>2, <4>3
    <3>5. loop' \in {"select", "requeueing"}
      BY <2>1, <3>2
    <3>6. CASE channel' = Append(channel, x) /\ lost' = lost
      <4>1. x \notin ToSet(channel)
        BY <1>1, <3>3 DEF Apart
      <4>2. channel' \in Seq(Int) /\ NoneTwice(channel') /\ ToSet(channel') = ToSet(channel) \cup {x}
        BY <1>1, <3>3, <3>6, <4>1, QueueIn
      <4>3. ItemsInPlace'
        BY <1>1, <2>1, <2>2, <3>3, <3>6, <4>2 DEF ItemsInPlace, Apart
      <4>. QED  BY <2>1, <3>3, <3>4, <3>5, <4>2, <4>3 DEF BufferInv, BufferTyped
    <3>7. CASE lost' = lost \cup {x} /\ channel' = channel
      <4>1. ItemsInPlace'
        BY <1>1, <2>1, <2>2, <3>3, <3>7 DEF ItemsInPlace, Apart
      <4>. QED  BY <2>1, <3>3, <3>4, <3>5, <3>7, <4>1 DEF BufferInv, BufferTyped
    <3>. QED  BY <3>2, <3>6, <3>7
  <2>. QED  BY <1>10, <2>3, <2>4 DEF Requeue
<1>11. ASSUME MemoryStart \/ ParentCancelled \/ MemoryStop \/ BufferStop \/ MemoryStopReturns
       PROVE  BufferInv'
  <2>1. /\ UNCHANGED <<channel, gathered, writes, kept, lost>>
        /\ loop' = loop \/ loop' = "select"
        /\ mutex' = mutex \/ (mutex = "free" /\ mutex' = "stop") \/ (mutex = "stop" /\ mutex' = "free")
    BY <1>11 DEF MemoryStart, ParentCancelled, MemoryStop, BufferStop, MemoryStopReturns
  <2>2. InHand' = InHand
    BY <2>1 DEF InHand
  <2>. QED  BY <2>1, <2>2, ItemsRest DEF BufferInv, BufferTyped
<1>12. CASE UNCHANGED buffered
  <2>1. UNCHANGED <<channel, gathered, loop, mutex, writes, kept, lost>>
    BY <1>12 DEF buffered
  <2>2. InHand' = InHand
    BY <2>1 DEF InHand
  <2>. QED  BY <2>1, <2>2, ItemsRest DEF BufferInv, BufferTyped
<1>. QED
  BY <1>2, <1>3, <1>4, <1>5, <1>6, <1>7, <1>8, <1>9, <1>10, <1>11, <1>12 DEF WriteBufferNext, LoopStep

\* Every item a writer brought is in exactly one place, for any batch size,
\* number of retries and of writes, and whenever the buffer is stopped
\* (write_buffer.go).
THEOREM WritesAccounted == WriteBufferSpec => []WritesAreAccountedFor
BY BufferStarts, BufferKeeps, PlacesCount, PTL DEF WriteBufferSpec

-----------------------------------------------------------------------------
(* The rounds and the compactions of one stream.                           *)

Places == {"idle", "mark", "scan", "claim", "sink", "commit", "check", "compact", "save", "trim",
           "trim latest"}
Drains == {"none", "appended", "before"}
Worker == [at : Places, drain : Drains, start : Nat, from : Nat, to : Nat, round : Nat]
RoundRecord == [from : Nat, to : Nat, life : Nat]

ArchiveTypeOK ==
  /\ trimming \in BOOLEAN /\ events \in Seq(BOOLEAN)
  /\ trimmed \in Nat /\ boundary \in Nat /\ rounds \in Nat /\ life \in Nat
  /\ summaries \in Seq([start : Nat, end : Nat])
  /\ archiver \in [Archivers -> Worker]

\* Worker w goes on as r.
Becomes(w, r) == archiver' = [archiver EXCEPT ![w] = r]

LEMMA RestingIsTyped == Resting \in Worker
BY DEF Resting, Worker, Places, Drains

LEMMA EntersAs ==
  ASSUME NEW w \in Archivers, NEW where \in Places, NEW drain \in Drains, NEW start \in Nat,
         Enters(w, where, drain, start)
  PROVE  \E r \in Worker : Becomes(w, r) /\ r.at = where /\ r.start = start
<1>1. PICK r : r = [Resting EXCEPT !.at = where, !.drain = drain, !.start = start]
  OBVIOUS
<1>2. r \in Worker /\ r.at = where /\ r.start = start
  BY <1>1 DEF Resting, Worker
<1>3. Becomes(w, r)
  BY <1>1 DEF Enters, Becomes
<1>. QED  BY <1>2, <1>3

LEMMA RestsAs ==
  ASSUME NEW w \in Archivers, Rests(w)
  PROVE  \E r \in Worker : Becomes(w, r) /\ r.at = "idle"
<1>1. Becomes(w, Resting) /\ Resting.at = "idle"
  BY DEF Rests, Becomes, Resting
<1>. QED  BY <1>1, RestingIsTyped

LEMMA GoesAs ==
  ASSUME ArchiveTypeOK, NEW w \in Archivers, NEW where \in Places, Goes(w, where)
  PROVE  \E r \in Worker : /\ Becomes(w, r) /\ r.at = where
                           /\ r.start = archiver[w].start /\ r.from = archiver[w].from
                           /\ r.to = archiver[w].to /\ r.round = archiver[w].round
<1>1. PICK r : r = [archiver[w] EXCEPT !.at = where]
  OBVIOUS
<1>2. archiver[w] \in Worker
  BY DEF ArchiveTypeOK
<1>3. /\ r \in Worker /\ r.at = where
      /\ r.start = archiver[w].start /\ r.from = archiver[w].from
      /\ r.to = archiver[w].to /\ r.round = archiver[w].round
  BY <1>1, <1>2 DEF Worker
<1>4. Becomes(w, r)
  BY <1>1 DEF Goes, Becomes
<1>. QED  BY <1>3, <1>4

LEMMA EndsAs ==
  ASSUME NEW w \in Archivers, EndDrain(w)
  PROVE  \E r \in Worker : Becomes(w, r) /\ r.at \in {"check", "compact"}
<1>1. PICK where : where = IF archiver[w].drain = "appended" THEN "check" ELSE "compact"
  OBVIOUS
<1>2. where \in Places /\ where \in {"check", "compact"} /\ "none" \in Drains /\ 0 \in Nat
  BY <1>1 DEF Places, Drains
<1>3. Enters(w, where, "none", 0)
  BY <1>1 DEF EndDrain
<1>. QED  BY <1>2, <1>3, EntersAs

\* Worker w has found the round from f to t.
Finds(w, f, t) ==
  archiver' = [archiver EXCEPT ![w].at = "claim", ![w].from = f, ![w].to = t]

LEMMA ScansAs ==
  ASSUME ArchiveTypeOK, NEW w \in Archivers, NEW f \in Nat, NEW t \in Nat, Finds(w, f, t)
  PROVE  \E r \in Worker : /\ Becomes(w, r) /\ r.at = "claim"
                           /\ r.start = archiver[w].start /\ r.from = f /\ r.to = t
<1>1. PICK r : r = [archiver[w] EXCEPT !.at = "claim", !.from = f, !.to = t]
  OBVIOUS
<1>2. archiver[w] \in Worker /\ "claim" \in Places
  BY DEF ArchiveTypeOK, Places
<1>3. r \in Worker /\ r.at = "claim" /\ r.start = archiver[w].start /\ r.from = f /\ r.to = t
  BY <1>1, <1>2 DEF Worker
<1>4. Becomes(w, r)
  BY <1>1, <1>2 DEF Finds, Becomes, Worker, ArchiveTypeOK
<1>. QED  BY <1>3, <1>4

(* Summaries and what they cover. *)

Covered(v) == \E i \in DOMAIN summaries : summaries[i].start <= v /\ v <= summaries[i].end

\* What a worker may rely on while it compacts.
CompactorOK(r) ==
  /\ r.at = "save" => \A v \in 1 .. r.from - 1 : Covered(v)
  /\ r.at = "trim" => \A v \in 1 .. r.to : Covered(v)

CompactInv ==
  /\ \A v \in 1 .. trimmed : Covered(v)
  /\ \A i \in DOMAIN summaries : \A v \in 1 .. summaries[i].end : Covered(v)
  /\ \A w \in Archivers : CompactorOK(archiver[w])

\* The summaries stay and at most one more worker step is taken.
LEMMA CompactCalm ==
  ASSUME ArchiveTypeOK, CompactInv, NEW w \in Archivers, NEW r \in Worker, Becomes(w, r),
         CompactorOK(r), summaries' = summaries, trimmed' = trimmed
  PROVE  CompactInv'
<1>1. \A v : Covered(v)' <=> Covered(v)
  BY DEF Covered
<1>2. ASSUME NEW u \in Archivers PROVE CompactorOK(archiver'[u])
  BY DEF Becomes, ArchiveTypeOK, CompactInv
<1>3. ASSUME NEW u \in Archivers PROVE CompactorOK(archiver[u])'
  BY <1>1, <1>2 DEF CompactorOK
<1>. QED  BY <1>1, <1>3 DEF CompactInv

(* Rounds and their records. *)

\* The first round that starts after version b ends with version t.
IsFirst(b, t) ==
  /\ t \in b + 1 .. Len(events) /\ events[t]
  /\ \A v \in b + 1 .. t - 1 : ~ events[v]

\* A record of this life, on disk or in the hands of a worker.
Fact(n, f, t) ==
  \/ n \in DOMAIN files /\ files[n] = [from |-> f, to |-> t, life |-> life]
  \/ \E w \in Archivers : /\ archiver[w].at \in {"sink", "commit"}
                          /\ archiver[w].round = n /\ archiver[w].from = f /\ archiver[w].to = t

FactOK(n, f, t) ==
  /\ n \in Nat /\ n >= 1 /\ n <= rounds + 1
  /\ f \in Nat /\ t \in Nat /\ f <= t
  /\ n <= rounds => t <= boundary
  /\ n = rounds => t = boundary
  /\ n = rounds + 1 => f = boundary + 1 /\ IsFirst(boundary, t)

FactsOK == \A n, f, t : Fact(n, f, t) => FactOK(n, f, t)

FactsJoin ==
  \A n, f, t, m, g, u :
    Fact(n, f, t) /\ Fact(m, g, u) => /\ m = n => g = f /\ u = t
                                      /\ m = n + 1 => g = t + 1

ArchiverOK(r) ==
  /\ r.at \notin {"trim", "trim latest"}
  /\ r.at \in {"scan", "claim", "sink", "commit"} => r.start <= boundary
  /\ r.at \in {"claim", "sink", "commit"} => r.from = r.start + 1 /\ IsFirst(r.start, r.to)

\* The rounds the writer keeps when b is the highest it has written.
Kept(b) == {n \in 1 .. b : n > b - MaxRounds}

FilesOK(b) ==
  /\ b \in Nat /\ DOMAIN files = Kept(b) /\ rounds <= b
  /\ \A w \in Archivers : archiver[w].at = "commit" => archiver[w].round <= b

RoundsInv ==
  /\ trimmed = 0
  /\ \A w \in Archivers : ArchiverOK(archiver[w])
  /\ \A n \in DOMAIN files : files[n] \in RoundRecord /\ files[n].life <= life
  /\ FactsOK /\ FactsJoin
  /\ RoundsAreWhole
  /\ \E b : FilesOK(b)

ArchiveInv == ArchiveTypeOK /\ CompactInv /\ (~ trimming => RoundsInv)

\* Rotation keeps the highest rounds.
LEMMA RotationKeeps ==
  ASSUME NEW b \in Nat, NEW n \in 1 .. b + 1, NEW fs, DOMAIN fs = Kept(b) \cup {n}
  PROVE  DOMAIN Rotated(fs) = Kept(Higher(b, n))
<1>1. PICK top : top = Higher(b, n)
  OBVIOUS
<1>2. top \in Nat /\ top >= b /\ top >= n /\ (top = b \/ top = n) /\ n \in Nat /\ n >= 1
  BY <1>1 DEF Higher
<1>0. MaxRounds \in Nat /\ MaxRounds >= 1
  BY ArchiveAssumption
<1>3. DOMAIN Rotated(fs) = {m \in DOMAIN fs : Cardinality({k \in DOMAIN fs : k >= m}) <= MaxRounds}
  BY DEF Rotated
<1>4. ASSUME NEW m \in Kept(top)
      PROVE  m \in DOMAIN fs /\ Cardinality({k \in DOMAIN fs : k >= m}) <= MaxRounds
  <2>1. m \in Nat /\ 1 <= m /\ m <= top /\ m > top - MaxRounds
    BY <1>2, <1>4 DEF Kept
  <2>2. m \in DOMAIN fs
    <3>1. CASE m <= b
      BY <1>0, <1>2, <2>1, <3>1 DEF Kept
    <3>2. CASE m > b
      <4>1. m = n
        BY <1>2, <2>1, <3>2
      <4>. QED  BY <4>1
    <3>. QED  BY <2>1, <3>1, <3>2
  <2>3. {k \in DOMAIN fs : k >= m} \subseteq m .. top
    BY <1>2, <2>1 DEF Kept
  <2>4. IsFiniteSet(m .. top) /\ Cardinality(m .. top) = top - m + 1
    BY <1>2, <2>1, FS_Interval
  <2>5. Cardinality({k \in DOMAIN fs : k >= m}) <= Cardinality(m .. top)
    BY <2>3, <2>4, FS_Subset
  <2>6. Cardinality({k \in DOMAIN fs : k >= m}) \in Nat
    BY <2>3, <2>4, FS_Subset, FS_CardinalityType
  <2>. QED  BY <1>0, <1>2, <2>1, <2>2, <2>4, <2>5, <2>6
<1>5. ASSUME NEW m \in DOMAIN fs, m \notin Kept(top)
      PROVE  ~ Cardinality({k \in DOMAIN fs : k >= m}) <= MaxRounds
  <2>1. m \in Nat /\ m >= 1 /\ m <= top /\ m <= top - MaxRounds
    <3>1. m \in Nat /\ m >= 1 /\ m <= top
      BY <1>2, <1>5 DEF Kept
    <3>. QED  BY <1>0, <1>2, <1>5, <3>1 DEF Kept
  <2>2. PICK low : low = top - MaxRounds + 1
    OBVIOUS
  <2>3. low \in Nat /\ low > m /\ low <= top
    BY <1>0, <1>2, <2>1, <2>2
  <2>4. low .. top \subseteq DOMAIN fs
    <3>1. ASSUME NEW k \in low .. top PROVE k \in DOMAIN fs
      <4>1. k \in Nat /\ k >= 1 /\ k > top - MaxRounds /\ k <= top
        BY <1>0, <1>2, <2>1, <2>2, <2>3, <3>1
      <4>2. CASE k <= b
        BY <1>0, <1>2, <4>1, <4>2 DEF Kept
      <4>3. CASE k > b
        <5>1. k = n
          BY <1>2, <4>1, <4>3
        <5>. QED  BY <5>1
      <4>. QED  BY <4>1, <4>2, <4>3
    <3>. QED  BY <3>1
  <2>5. low .. top \cup {m} \subseteq {k \in DOMAIN fs : k >= m}
    BY <2>1, <2>3, <2>4
  <2>6. IsFiniteSet(low .. top) /\ Cardinality(low .. top) = MaxRounds
    BY <1>0, <1>2, <2>2, <2>3, FS_Interval
  <2>7. Cardinality(low .. top \cup {m}) = MaxRounds + 1
    <3>1. PICK S : S = low .. top
      OBVIOUS
    <3>2. m \notin S
      BY <2>1, <2>3, <3>1
    <3>3. Cardinality(S \cup {m}) = Cardinality(S) + 1
      BY <2>6, <3>1, <3>2, FS_AddElement
    <3>. QED  BY <2>6, <3>1, <3>3
  <2>8. IsFiniteSet({k \in DOMAIN fs : k >= m})
    <3>1. {k \in DOMAIN fs : k >= m} \subseteq 1 .. top
      BY <1>2 DEF Kept
    <3>2. IsFiniteSet(1 .. top)
      BY <1>2, FS_Interval
    <3>. QED  BY <3>1, <3>2, FS_Subset
  <2>9. Cardinality(low .. top \cup {m}) <= Cardinality({k \in DOMAIN fs : k >= m})
    BY <2>5, <2>8, FS_Subset
  <2>10. Cardinality({k \in DOMAIN fs : k >= m}) \in Nat
    BY <2>8, FS_CardinalityType
  <2>. QED  BY <1>0, <2>7, <2>9, <2>10
<1>6. \A m : m \in DOMAIN Rotated(fs) <=> m \in Kept(top)
  <2>1. ASSUME NEW m \in Kept(top) PROVE m \in DOMAIN Rotated(fs)
    <3>1. m \in DOMAIN fs /\ Cardinality({k \in DOMAIN fs : k >= m}) <= MaxRounds
      BY <1>4
    <3>. QED  BY <1>3, <3>1
  <2>2. ASSUME NEW m \in DOMAIN Rotated(fs) PROVE m \in Kept(top)
    <3>1. m \in DOMAIN fs /\ Cardinality({k \in DOMAIN fs : k >= m}) <= MaxRounds
      BY <1>3, <2>2
    <3>. QED  BY <1>5, <3>1
  <2>. QED  BY <2>1, <2>2
<1>. QED  BY <1>1, <1>6

\* Nothing of the round counter moves and no fact is new.
LEMMA FactsKept ==
  ASSUME FactsOK, FactsJoin, rounds' = rounds, boundary' = boundary,
         boundary \in Nat, \A b \in Nat : \A t : IsFirst(b, t) => IsFirst(b, t)',
         \A n, f, t : Fact(n, f, t)' => Fact(n, f, t)
  PROVE  FactsOK' /\ FactsJoin'
<1>1. FactsOK'
  BY DEF FactsOK, FactOK
<1>2. FactsJoin'
  BY DEF FactsJoin
<1>. QED  BY <1>1, <1>2

\* A worker goes on without taking a round in hand.
LEMMA RoundsCalm ==
  ASSUME ArchiveTypeOK, RoundsInv, NEW w \in Archivers, NEW r \in Worker, Becomes(w, r),
         ArchiverOK(r)', r.at \notin {"sink", "commit"},
         boundary' = boundary, rounds' = rounds, files' = files, life' = life,
         trimmed' = trimmed, trimming' = trimming,
         \A b \in Nat : \A t : IsFirst(b, t) => IsFirst(b, t)'
  PROVE  RoundsInv'
<1>1. \A u \in Archivers : archiver'[u] = IF u = w THEN r ELSE archiver[u]
  BY DEF Becomes, ArchiveTypeOK
<1>2. ASSUME NEW n, NEW f, NEW t, Fact(n, f, t)' PROVE Fact(n, f, t)
  BY <1>1, <1>2 DEF Fact
<1>3. FactsOK' /\ FactsJoin'
  BY <1>2, FactsKept DEF RoundsInv, ArchiveTypeOK
<1>4. ASSUME NEW u \in Archivers PROVE ArchiverOK(archiver[u])'
  <2>1. ArchiverOK(archiver[u]) /\ archiver[u].start \in Nat
    BY DEF RoundsInv, ArchiveTypeOK, Worker
  <2>2. CASE u = w
    BY <1>1, <2>2
  <2>3. CASE u # w
    BY <1>1, <2>1, <2>3 DEF ArchiverOK
  <2>. QED  BY <2>2, <2>3
<1>5. PICK b : FilesOK(b)
  BY DEF RoundsInv
<1>6. FilesOK(b)'
  BY <1>1, <1>5 DEF FilesOK
<1>7. RoundsAreWhole'
  BY DEF RoundsInv, RoundsAreWhole
<1>. QED  BY <1>3, <1>4, <1>6, <1>7 DEF RoundsInv

\* The first round after a version is not another one later.
LEMMA FirstIsOne ==
  ASSUME NEW b \in Nat, NEW t, NEW u, IsFirst(b, t), IsFirst(b, u)
  PROVE  t = u /\ t \in Nat /\ t > b
<1>1. t \in Int /\ u \in Int /\ t >= b + 1 /\ u >= b + 1
  BY DEF IsFirst
<1>2. ~ t < u
  BY <1>1 DEF IsFirst
<1>3. ~ u < t
  BY <1>1 DEF IsFirst
<1>. QED  BY <1>1, <1>2, <1>3

\* The round that follows the boundary is a fact that joins the others.
LEMMA RoundTaken ==
  ASSUME ArchiveTypeOK, RoundsInv, NEW w \in Archivers, NEW r \in Worker, Becomes(w, r),
         r.at = "sink", r.start = boundary, r.from = boundary + 1, IsFirst(boundary, r.to),
         r.round = rounds + 1,
         boundary' = boundary, rounds' = rounds, files' = files, life' = life,
         trimmed' = trimmed, trimming' = trimming, events' = events
  PROVE  RoundsInv'
<1>1. \A u \in Archivers : archiver'[u] = IF u = w THEN r ELSE archiver[u]
  BY DEF Becomes, ArchiveTypeOK
<1>0. boundary \in Nat /\ rounds \in Nat
  BY DEF ArchiveTypeOK
<1>2. ASSUME NEW n, NEW f, NEW t, Fact(n, f, t)'
      PROVE  Fact(n, f, t) \/ (n = rounds + 1 /\ f = boundary + 1 /\ t = r.to)
  <2>1. CASE n \in DOMAIN files' /\ files'[n] = [from |-> f, to |-> t, life |-> life']
    BY <2>1 DEF Fact
  <2>2. ASSUME NEW u \in Archivers, archiver'[u].at \in {"sink", "commit"},
               archiver'[u].round = n, archiver'[u].from = f, archiver'[u].to = t
        PROVE  Fact(n, f, t) \/ (n = rounds + 1 /\ f = boundary + 1 /\ t = r.to)
    <3>1. CASE u = w
      BY <1>1, <2>2, <3>1
    <3>2. CASE u # w
      BY <1>1, <2>2, <3>2 DEF Fact
    <3>. QED  BY <3>1, <3>2
  <2>. QED  BY <1>2, <2>1, <2>2 DEF Fact
<1>3. \A b, t : IsFirst(b, t)' <=> IsFirst(b, t)
  BY DEF IsFirst
<1>4. r.to \in Nat /\ r.to > boundary
  BY <1>0, FirstIsOne
<1>5. \A n, f, t : FactOK(n, f, t) => FactOK(n, f, t)'
  BY <1>3 DEF FactOK
<1>6. FactOK(rounds + 1, boundary + 1, r.to)'
  BY <1>0, <1>3, <1>4 DEF FactOK
<1>7. FactsOK'
  BY <1>2, <1>5, <1>6 DEF FactsOK, RoundsInv
<1>8. ASSUME NEW n, NEW f, NEW t, NEW m, NEW g, NEW u, Fact(n, f, t)', Fact(m, g, u)'
      PROVE  /\ m = n => g = f /\ u = t
             /\ m = n + 1 => g = t + 1
  <2>1. \/ Fact(n, f, t) /\ FactOK(n, f, t)
        \/ n = rounds + 1 /\ f = boundary + 1 /\ t = r.to
    BY <1>2, <1>8 DEF RoundsInv, FactsOK
  <2>2. \/ Fact(m, g, u) /\ FactOK(m, g, u)
        \/ m = rounds + 1 /\ g = boundary + 1 /\ u = r.to
    BY <1>2, <1>8 DEF RoundsInv, FactsOK
  <2>3. CASE Fact(n, f, t) /\ Fact(m, g, u)
    <3>1. FactsJoin
      BY DEF RoundsInv
    <3>. QED  BY <2>3, <3>1 DEF FactsJoin
  <2>4. CASE Fact(n, f, t) /\ FactOK(n, f, t) /\ m = rounds + 1 /\ g = boundary + 1 /\ u = r.to
    BY <1>0, <2>4, FirstIsOne DEF FactOK
  <2>5. CASE Fact(m, g, u) /\ FactOK(m, g, u) /\ n = rounds + 1 /\ f = boundary + 1 /\ t = r.to
    <3>1. m \in Nat /\ m <= rounds + 1 /\ (m = rounds + 1 => g = boundary + 1 /\ IsFirst(boundary, u))
      BY <2>5 DEF FactOK
    <3>. QED  BY <1>0, <2>5, <3>1, FirstIsOne
  <2>6. CASE /\ m = rounds + 1 /\ g = boundary + 1 /\ u = r.to
             /\ n = rounds + 1 /\ f = boundary + 1 /\ t = r.to
    BY <1>0, <2>6
  <2>. QED  BY <2>1, <2>2, <2>3, <2>4, <2>5, <2>6
<1>9. FactsJoin'
  BY <1>8 DEF FactsJoin
<1>10. ASSUME NEW u \in Archivers PROVE ArchiverOK(archiver[u])'
  <2>1. ArchiverOK(archiver[u])
    BY DEF RoundsInv
  <2>2. CASE u = w
    <3>1. ArchiverOK(r)'
      <4>1. IsFirst(r.start, r.to)' /\ r.start <= boundary' /\ r.from = r.start + 1
        BY <1>0, <1>3
      <4>. QED  BY <4>1 DEF ArchiverOK
    <3>. QED  BY <1>1, <2>2, <3>1
  <2>3. CASE u # w
    BY <1>1, <1>3, <2>1, <2>3 DEF ArchiverOK
  <2>. QED  BY <2>2, <2>3
<1>11. PICK b : FilesOK(b)
  BY DEF RoundsInv
<1>12. FilesOK(b)'
  BY <1>1, <1>11 DEF FilesOK
<1>13. RoundsAreWhole'
  BY DEF RoundsInv, RoundsAreWhole
<1>. QED  BY <1>7, <1>9, <1>10, <1>12, <1>13 DEF RoundsInv

\* The record of a round is written and older ones are rotated out.
LEMMA RoundWritten ==
  ASSUME ArchiveTypeOK, RoundsInv, NEW w \in Archivers, NEW r \in Worker, Becomes(w, r),
         archiver[w].at = "sink", r.at = "commit",
         r.start = archiver[w].start, r.from = archiver[w].from,
         r.to = archiver[w].to, r.round = archiver[w].round,
         files' = Rotated(Written(files, w)),
         boundary' = boundary, rounds' = rounds, life' = life,
         trimmed' = trimmed, trimming' = trimming, events' = events
  PROVE  RoundsInv'
<1>1. \A u \in Archivers : archiver'[u] = IF u = w THEN r ELSE archiver[u]
  BY DEF Becomes, ArchiveTypeOK
<1>2. Fact(r.round, r.from, r.to)
  BY DEF Fact
<1>3. PICK record : record = [from |-> r.from, to |-> r.to, life |-> life]
  OBVIOUS
<1>4. \A n \in DOMAIN files' : IF n = r.round THEN files'[n] = record
                                              ELSE n \in DOMAIN files /\ files'[n] = files[n]
  <2>1. PICK all : all = Written(files, w)
    OBVIOUS
  <2>2. /\ DOMAIN all = DOMAIN files \cup {r.round}
        /\ \A n \in DOMAIN all : all[n] = IF n = r.round THEN record ELSE files[n]
    BY <1>3, <2>1 DEF Written
  <2>3. DOMAIN files' \subseteq DOMAIN all /\ \A n \in DOMAIN files' : files'[n] = all[n]
    BY <2>1 DEF Rotated
  <2>. QED  BY <2>2, <2>3
<1>5. ASSUME NEW n, NEW f, NEW t, Fact(n, f, t)' PROVE Fact(n, f, t)
  <2>1. CASE n \in DOMAIN files' /\ files'[n] = [from |-> f, to |-> t, life |-> life']
    <3>1. CASE n = r.round
      BY <1>2, <1>3, <1>4, <2>1, <3>1
    <3>2. CASE n # r.round
      BY <1>4, <2>1, <3>2 DEF Fact
    <3>. QED  BY <3>1, <3>2
  <2>2. ASSUME NEW u \in Archivers, archiver'[u].at \in {"sink", "commit"},
               archiver'[u].round = n, archiver'[u].from = f, archiver'[u].to = t
        PROVE  Fact(n, f, t)
    <3>1. CASE u = w
      BY <1>1, <1>2, <2>2, <3>1
    <3>2. CASE u # w
      BY <1>1, <2>2, <3>2 DEF Fact
    <3>. QED  BY <3>1, <3>2
  <2>. QED  BY <1>5, <2>1, <2>2 DEF Fact
<1>6. \A b, t : IsFirst(b, t)' <=> IsFirst(b, t)
  BY DEF IsFirst
<1>7. FactsOK' /\ FactsJoin'
  BY <1>5, <1>6, FactsKept DEF RoundsInv, ArchiveTypeOK
<1>8. ASSUME NEW u \in Archivers PROVE ArchiverOK(archiver[u])'
  <2>1. ArchiverOK(archiver[u]) /\ ArchiverOK(archiver[w])
    BY DEF RoundsInv
  <2>2. CASE u = w
    BY <1>1, <1>6, <2>1, <2>2 DEF ArchiverOK
  <2>3. CASE u # w
    BY <1>1, <1>6, <2>1, <2>3 DEF ArchiverOK
  <2>. QED  BY <2>2, <2>3
<1>9. \A n \in DOMAIN files' : files'[n] \in RoundRecord /\ files'[n].life <= life
  <2>1. record \in RoundRecord /\ record.life <= life
    BY <1>3 DEF Worker, RoundRecord, ArchiveTypeOK
  <2>. QED  BY <1>4, <2>1 DEF RoundsInv
<1>10. RoundsAreWhole'
  <2>1. ASSUME NEW n \in DOMAIN files', NEW k \in DOMAIN files', k = n - 1,
               files'[k].life = files'[n].life, ~ trimming
        PROVE  files'[n].from = files'[k].to + 1
    <3>1. CASE files'[n].life = life
      <4>0. PICK p, q : p = files'[n] /\ q = files'[k]
        OBVIOUS
      <4>1. /\ p = [from |-> p.from, to |-> p.to, life |-> life]
            /\ q = [from |-> q.from, to |-> q.to, life |-> life]
        BY <1>9, <2>1, <3>1, <4>0 DEF RoundRecord
      <4>2. Fact(n, p.from, p.to)' /\ Fact(k, q.from, q.to)'
        BY <2>1, <4>0, <4>1 DEF Fact
      <4>3. n \in Int
        BY <1>7, <4>2 DEF FactsOK, FactOK
      <4>4. n = k + 1
        BY <2>1, <4>3
      <4>5. p.from = q.to + 1
        BY <1>7, <4>2, <4>4 DEF FactsJoin
      <4>. QED  BY <4>0, <4>5
    <3>2. CASE files'[n].life # life
      <4>1. /\ n \in DOMAIN files /\ k \in DOMAIN files
            /\ files'[n] = files[n] /\ files'[k] = files[k]
        BY <1>3, <1>4, <2>1, <3>2
      <4>2. RoundsAreWhole
        BY DEF RoundsInv
      <4>. QED  BY <2>1, <4>1, <4>2 DEF RoundsAreWhole
    <3>. QED  BY <3>1, <3>2
  <2>. QED  BY <2>1 DEF RoundsAreWhole
<1>11. PICK b : FilesOK(b)
  BY DEF RoundsInv
<1>12. FilesOK(Higher(b, r.round))'
  <2>1. /\ b \in Nat /\ r.round \in Nat /\ r.round >= 1 /\ r.round <= rounds + 1
        /\ rounds <= b /\ rounds \in Nat
    BY <1>2, <1>11 DEF RoundsInv, FactsOK, FactOK, FilesOK, ArchiveTypeOK
  <2>2. r.round \in 1 .. b + 1
    BY <2>1
  <2>3. DOMAIN Written(files, w) = Kept(b) \cup {r.round}
    BY <1>11 DEF Written, FilesOK
  <2>4. DOMAIN files' = Kept(Higher(b, r.round))
    BY <2>1, <2>2, <2>3, RotationKeeps
  <2>5. Higher(b, r.round) \in Nat /\ Higher(b, r.round) >= b /\ Higher(b, r.round) >= r.round
    BY <2>1 DEF Higher
  <2>6. ASSUME NEW u \in Archivers, archiver'[u].at = "commit"
        PROVE  archiver'[u].round <= Higher(b, r.round)
    <3>1. CASE u = w
      BY <1>1, <2>1, <2>5, <3>1
    <3>2. CASE u # w
      <4>1. archiver'[u] = archiver[u] /\ archiver[u].round <= b /\ archiver[u].round \in Nat
        BY <1>1, <1>11, <2>6, <3>2 DEF FilesOK, ArchiveTypeOK, Worker
      <4>. QED  BY <2>1, <2>5, <4>1
    <3>. QED  BY <3>1, <3>2
  <2>7. Higher(b, r.round)' = Higher(b, r.round) /\ Kept(Higher(b, r.round))' = Kept(Higher(b, r.round))
    BY DEF Higher, Kept
  <2>8. rounds' <= Higher(b, r.round)
    BY <2>1, <2>5
  <2>. QED  BY <2>4, <2>5, <2>6, <2>7, <2>8 DEF FilesOK
<1>. QED  BY <1>7, <1>8, <1>9, <1>10, <1>12 DEF RoundsInv

\* A worker whose round nobody overtook moves the boundary to its end.
LEMMA RoundCommitted ==
  ASSUME ArchiveTypeOK, RoundsInv, NEW w \in Archivers, NEW r \in Worker, Becomes(w, r),
         archiver[w].at = "commit", ~ Overtaken(w), r.at = "mark",
         boundary' = archiver[w].to, rounds' = archiver[w].round,
         files' = files, life' = life,
         trimmed' = trimmed, trimming' = trimming, events' = events
  PROVE  RoundsInv'
<1>1. \A u \in Archivers : archiver'[u] = IF u = w THEN r ELSE archiver[u]
  BY DEF Becomes, ArchiveTypeOK
<1>2. PICK n, f, t : n = archiver[w].round /\ f = archiver[w].from /\ t = archiver[w].to
  OBVIOUS
<1>3. Fact(n, f, t)
  BY <1>2 DEF Fact
<1>4. FactOK(n, f, t)
  BY <1>3 DEF RoundsInv, FactsOK
<1>5. boundary \in Nat /\ rounds \in Nat /\ archiver[w].start \in Nat
  BY DEF ArchiveTypeOK, Worker
<1>6. archiver[w].start = boundary /\ f = boundary + 1 /\ t > boundary
  <2>1. archiver[w].start <= boundary /\ f = archiver[w].start + 1 /\ IsFirst(archiver[w].start, t)
    BY <1>2 DEF RoundsInv, ArchiverOK
  <2>2. t \in Nat /\ t > archiver[w].start
    BY <1>5, <2>1, FirstIsOne
  <2>. QED  BY <1>5, <2>1, <2>2 DEF Overtaken
<1>7. n = rounds + 1
  BY <1>4, <1>5, <1>6 DEF FactOK
<1>8. \A b, s : IsFirst(b, s)' <=> IsFirst(b, s)
  BY DEF IsFirst
<1>9. ASSUME NEW m, NEW g, NEW u, Fact(m, g, u)' PROVE Fact(m, g, u)
  BY <1>1, <1>9 DEF Fact
<1>10. FactsOK'
  <2>1. ASSUME NEW m, NEW g, NEW u, Fact(m, g, u)' PROVE FactOK(m, g, u)'
    <3>1. FactOK(m, g, u) /\ Fact(m, g, u)
      BY <1>9, <2>1 DEF RoundsInv, FactsOK
    <3>2. m = n => u = t
      <4>1. FactsJoin
        BY DEF RoundsInv
      <4>. QED  BY <1>3, <3>1, <4>1 DEF FactsJoin
    <3>3. rounds' = rounds + 1 /\ boundary' = t /\ t \in Nat
      BY <1>2, <1>4, <1>7 DEF FactOK
    <3>. QED  BY <1>5, <1>6, <1>7, <3>1, <3>2, <3>3 DEF FactOK
  <2>. QED  BY <2>1 DEF FactsOK
<1>11. FactsJoin'
  <2>1. FactsJoin
    BY DEF RoundsInv
  <2>. QED  BY <1>9, <2>1 DEF FactsJoin
<1>12. ASSUME NEW u \in Archivers PROVE ArchiverOK(archiver[u])'
  <2>1. ArchiverOK(archiver[u]) /\ archiver[u].start \in Nat
    BY DEF RoundsInv, ArchiveTypeOK, Worker
  <2>2. boundary' \in Nat /\ boundary' > boundary
    BY <1>2, <1>4, <1>6 DEF FactOK
  <2>3. CASE u = w
    BY <1>1, <2>3 DEF ArchiverOK
  <2>4. CASE u # w
    <3>1. archiver'[u] = archiver[u]
      BY <1>1, <2>4
    <3>2. archiver[u].start <= boundary => archiver[u].start <= boundary'
      BY <1>5, <2>1, <2>2
    <3>3. PICK q : q = archiver[u]
      OBVIOUS
    <3>4. ArchiverOK(q)'
      BY <1>8, <2>1, <3>2, <3>3 DEF ArchiverOK
    <3>. QED  BY <3>1, <3>3, <3>4
  <2>. QED  BY <2>3, <2>4
<1>13. PICK b : FilesOK(b)
  BY DEF RoundsInv
<1>14. FilesOK(b)'
  BY <1>1, <1>13 DEF FilesOK
<1>15. RoundsAreWhole'
  BY DEF RoundsInv, RoundsAreWhole
<1>. QED  BY <1>10, <1>11, <1>12, <1>14, <1>15 DEF RoundsInv

\* The process starts again over the files that are there.
LEMMA LifeRestarts ==
  ASSUME ArchiveTypeOK, RoundsInv, RestartProcess
  PROVE  RoundsInv'
<1>1. /\ \A u \in Archivers : archiver'[u] = Resting
      /\ files' = files /\ life' = life + 1 /\ trimming' = trimming
      /\ boundary' = 0 /\ rounds' = 0 /\ trimmed' = 0
  BY DEF RestartProcess
<1>2. Resting.at = "idle"
  BY DEF Resting
<1>3. ASSUME NEW n, NEW f, NEW t, Fact(n, f, t)' PROVE FALSE
  <2>1. n \in DOMAIN files /\ files[n] = [from |-> f, to |-> t, life |-> life + 1]
    BY <1>1, <1>2, <1>3 DEF Fact
  <2>2. files[n].life = life + 1 /\ files[n].life <= life
    BY <2>1 DEF RoundsInv
  <2>. QED  BY <2>2 DEF ArchiveTypeOK
<1>4. FactsOK' /\ FactsJoin'
  BY <1>3 DEF FactsOK, FactsJoin
<1>5. \A u \in Archivers : ArchiverOK(archiver[u])'
  BY <1>1, <1>2 DEF ArchiverOK
<1>6. \A n \in DOMAIN files' : files'[n] \in RoundRecord /\ files'[n].life <= life'
  BY <1>1 DEF RoundsInv, RoundRecord, ArchiveTypeOK
<1>7. PICK b : FilesOK(b)
  BY DEF RoundsInv
<1>8. FilesOK(b)'
  BY <1>1, <1>2, <1>7 DEF FilesOK
<1>9. RoundsAreWhole'
  BY <1>1 DEF RoundsInv, RoundsAreWhole
<1>. QED  BY <1>1, <1>4, <1>5, <1>6, <1>8, <1>9 DEF RoundsInv

\* A worker goes on and neither the rounds nor the summaries change.
LEMMA ArchiveCalm ==
  ASSUME ArchiveInv, NEW w \in Archivers, NEW r \in Worker, Becomes(w, r),
         r.at \in {"idle", "mark", "check", "compact"},
         summaries' = summaries, trimmed' = trimmed, trimming' = trimming,
         boundary' = boundary, rounds' = rounds, files' = files, life' = life,
         events' \in Seq(BOOLEAN), \A b \in Nat : \A t : IsFirst(b, t) => IsFirst(b, t)'
  PROVE  ArchiveInv'
<1>1. ArchiveTypeOK'
  BY DEF ArchiveInv, ArchiveTypeOK, Becomes
<1>2. CompactInv'
  BY CompactCalm DEF ArchiveInv, CompactorOK
<1>3. ~ trimming => RoundsInv'
  BY RoundsCalm DEF ArchiveInv, ArchiverOK
<1>. QED  BY <1>1, <1>2, <1>3 DEF ArchiveInv

LEMMA AppendKeeps ==
  ASSUME ArchiveInv, NEW w \in Archivers, NEW kinds \in Seq(BOOLEAN), AppendEvents(w, kinds)
  PROVE  ArchiveInv'
<1>1. PICK r \in Worker : Becomes(w, r) /\ r.at \in {"mark", "check"}
  <2>1. "mark" \in Places /\ "check" \in Places /\ "appended" \in Drains /\ "none" \in Drains
    BY DEF Places, Drains
  <2>2. Enters(w, "mark", "appended", 0) \/ Enters(w, "check", "none", 0)
    BY DEF AppendEvents
  <2>. QED  BY <2>1, <2>2, EntersAs
<1>2. events \in Seq(BOOLEAN) /\ events' = events \o kinds
  BY DEF ArchiveInv, ArchiveTypeOK, AppendEvents
<1>3. /\ events' \in Seq(BOOLEAN) /\ Len(events') >= Len(events) /\ Len(events) \in Nat
      /\ Len(events') \in Nat /\ \A v \in 1 .. Len(events) : events'[v] = events[v]
  BY <1>2
<1>4. ASSUME NEW b \in Nat, NEW t, IsFirst(b, t) PROVE IsFirst(b, t)'
  <2>1. t \in 1 .. Len(events) /\ t \in 1 .. Len(events') /\ t >= b + 1
    BY <1>3, <1>4 DEF IsFirst
  <2>2. \A v \in b + 1 .. t - 1 : v \in 1 .. Len(events)
    BY <1>3, <1>4, <2>1
  <2>. QED  BY <1>3, <1>4, <2>1, <2>2 DEF IsFirst
<1>5. UNCHANGED <<trimming, life, boundary, rounds, files, trimmed, summaries>>
  BY DEF AppendEvents, roundVars, compactVars
<1>. QED  BY <1>1, <1>3, <1>4, <1>5, ArchiveCalm

LEMMA MarkKeeps ==
  ASSUME ArchiveInv, NEW w \in Archivers, MarkRoundStart(w)
  PROVE  ArchiveInv'
<1>1. UNCHANGED <<trimming, events, life, boundary, rounds, files, trimmed, summaries>>
  BY DEF MarkRoundStart, streamVars, roundVars, compactVars
<1>0. ArchiveTypeOK /\ archiver[w] \in Worker /\ "scan" \in Places
  BY DEF ArchiveInv, ArchiveTypeOK, Places
<1>2. PICK r \in Worker : Becomes(w, r) /\ r.at = "scan" /\ r.start = boundary
  <2>1. archiver[w].drain \in Drains /\ boundary \in Nat
    BY <1>0 DEF Worker, ArchiveTypeOK
  <2>. QED  BY <1>0, <2>1, EntersAs DEF MarkRoundStart
<1>3. ArchiveTypeOK'
  BY <1>0, <1>1, <1>2 DEF ArchiveTypeOK, Becomes
<1>4. CompactInv'
  BY <1>1, <1>2, CompactCalm DEF ArchiveInv, CompactorOK
<1>5. ~ trimming => RoundsInv'
  <2>1. ArchiverOK(r)'
    BY <1>0, <1>1, <1>2 DEF ArchiverOK, ArchiveTypeOK
  <2>2. \A b, t : IsFirst(b, t) => IsFirst(b, t)'
    BY <1>1 DEF IsFirst
  <2>. QED  BY <1>1, <1>2, <2>1, <2>2, RoundsCalm DEF ArchiveInv
<1>. QED  BY <1>1, <1>3, <1>4, <1>5 DEF ArchiveInv

LEMMA ScanKeeps ==
  ASSUME ArchiveInv, NEW w \in Archivers, ScanRound(w)
  PROVE  ArchiveInv'
<1>1. UNCHANGED <<trimming, events, life, boundary, rounds, files, trimmed, summaries>>
  BY DEF ScanRound, streamVars, roundVars, compactVars
<1>0. ArchiveTypeOK /\ archiver[w] \in Worker /\ archiver[w].at = "scan"
  BY DEF ArchiveInv, ArchiveTypeOK, ScanRound, At
<1>2. \A b, t : IsFirst(b, t)' <=> IsFirst(b, t)
  BY <1>1 DEF IsFirst
<1>3. CASE EndDrain(w)
  <2>1. PICK r \in Worker : Becomes(w, r) /\ r.at \in {"check", "compact"}
    BY <1>3, EndsAs
  <2>. QED  BY <1>0, <1>1, <1>2, <2>1, ArchiveCalm DEF ArchiveTypeOK
<1>4. CASE ~ EndDrain(w)
  <2>1. PICK first : first = Higher(archiver[w].start, trimmed) + 1
    OBVIOUS
  <2>2. PICK t \in first .. Len(events) :
          /\ events[t]
          /\ \A v \in first .. Len(events) : events[v] => t <= v
          /\ Finds(w, first, t)
    BY <1>4, <2>1 DEF ScanRound, Finds
  <2>3. first \in Nat /\ t \in Nat /\ Len(events) \in Nat /\ archiver[w].start \in Nat
    BY <1>0, <2>1, <2>2 DEF ArchiveTypeOK, Worker, Higher
  <2>4. PICK r \in Worker : /\ Becomes(w, r) /\ r.at = "claim"
                            /\ r.start = archiver[w].start /\ r.from = first /\ r.to = t
    <3>1. ArchiveTypeOK /\ first \in Nat /\ t \in Nat /\ Finds(w, first, t)
      BY <1>0, <2>2, <2>3
    <3>. QED  BY <3>1, ScansAs
  <2>5. ArchiveTypeOK'
    BY <1>0, <1>1, <2>4 DEF ArchiveTypeOK, Becomes
  <2>6. CompactInv'
    BY <1>1, <2>4, CompactCalm DEF ArchiveInv, CompactorOK
  <2>7. ASSUME ~ trimming PROVE RoundsInv'
    <3>1. trimmed = 0 /\ archiver[w].start <= boundary
      BY <1>0, <2>7 DEF ArchiveInv, RoundsInv, ArchiverOK
    <3>2. first = archiver[w].start + 1
      BY <2>1, <2>3, <3>1 DEF Higher
    <3>3. IsFirst(archiver[w].start, t)
      <4>1. ASSUME NEW v \in archiver[w].start + 1 .. t - 1 PROVE ~ events[v]
        BY <2>2, <2>3, <3>2, <4>1
      <4>. QED  BY <2>2, <3>2, <4>1 DEF IsFirst
    <3>4. ArchiverOK(r)'
      BY <1>1, <1>2, <2>4, <3>1, <3>2, <3>3 DEF ArchiverOK
    <3>. QED  BY <1>1, <1>2, <2>4, <2>7, <3>4, RoundsCalm DEF ArchiveInv
  <2>. QED  BY <1>1, <2>5, <2>6, <2>7 DEF ArchiveInv
<1>. QED  BY <1>3, <1>4

LEMMA ClaimKeeps ==
  ASSUME ArchiveInv, NEW w \in Archivers, ClaimRound(w)
  PROVE  ArchiveInv'
<1>1. UNCHANGED <<trimming, events, life, boundary, rounds, files, trimmed, summaries>>
  BY DEF ClaimRound, streamVars, roundVars, compactVars
<1>0. ArchiveTypeOK /\ archiver[w] \in Worker /\ archiver[w].at = "claim"
  BY DEF ArchiveInv, ArchiveTypeOK, ClaimRound, At
<1>2. \A b, t : IsFirst(b, t)' <=> IsFirst(b, t)
  BY <1>1 DEF IsFirst
<1>3. CASE Overtaken(w)
  <2>1. PICK r \in Worker : Becomes(w, r) /\ r.at \in {"check", "compact"}
    BY <1>3, EndsAs DEF ClaimRound
  <2>. QED  BY <1>0, <1>1, <1>2, <2>1, ArchiveCalm DEF ArchiveTypeOK
<1>4. CASE ~ Overtaken(w)
  <2>0. PICK n : n = rounds + 1
    OBVIOUS
  <2>1. PICK r : r = [archiver[w] EXCEPT !.at = "sink", !.round = n]
    OBVIOUS
  <2>2. /\ r \in Worker /\ r.at = "sink" /\ r.round = rounds + 1
        /\ r.start = archiver[w].start /\ r.from = archiver[w].from /\ r.to = archiver[w].to
    <3>1. n \in Nat /\ "sink" \in Places
      BY <1>0, <2>0 DEF ArchiveTypeOK, Places
    <3>. QED  BY <1>0, <2>0, <2>1, <3>1 DEF Worker
  <2>3. Becomes(w, r)
    BY <1>0, <1>4, <2>0, <2>1 DEF ClaimRound, Becomes, ArchiveTypeOK, Worker
  <2>4. ArchiveTypeOK'
    BY <1>0, <1>1, <2>2, <2>3 DEF ArchiveTypeOK, Becomes
  <2>5. CompactInv'
    BY <1>1, <2>2, <2>3, CompactCalm DEF ArchiveInv, CompactorOK
  <2>6. ASSUME ~ trimming PROVE RoundsInv'
    <3>1. /\ archiver[w].start <= boundary /\ archiver[w].from = archiver[w].start + 1
          /\ IsFirst(archiver[w].start, archiver[w].to)
      BY <1>0, <2>6 DEF ArchiveInv, RoundsInv, ArchiverOK
    <3>2. archiver[w].start = boundary
      BY <1>0, <1>4, <3>1 DEF Overtaken, ArchiveTypeOK, Worker
    <3>. QED  BY <1>1, <2>2, <2>3, <2>6, <3>1, <3>2, RoundTaken DEF ArchiveInv
  <2>. QED  BY <1>1, <2>4, <2>5, <2>6 DEF ArchiveInv
<1>. QED  BY <1>3, <1>4

LEMMA SinkKeeps ==
  ASSUME ArchiveInv, NEW w \in Archivers, SinkRound(w)
  PROVE  ArchiveInv'
<1>1. UNCHANGED <<trimming, events, life, boundary, rounds, trimmed, summaries>>
  BY DEF SinkRound, streamVars, compactVars
<1>0. ArchiveTypeOK /\ archiver[w] \in Worker /\ archiver[w].at = "sink" /\ "commit" \in Places
  BY DEF ArchiveInv, ArchiveTypeOK, SinkRound, At, Places
<1>2. \A b, t : IsFirst(b, t)' <=> IsFirst(b, t)
  BY <1>1 DEF IsFirst
<1>3. CASE files' = files /\ EndDrain(w)
  <2>1. PICK r \in Worker : Becomes(w, r) /\ r.at \in {"check", "compact"}
    BY <1>3, EndsAs
  <2>. QED  BY <1>0, <1>1, <1>2, <1>3, <2>1, ArchiveCalm DEF ArchiveTypeOK
<1>4. CASE files' = Rotated(Written(files, w)) /\ Goes(w, "commit")
  <2>1. PICK r \in Worker : /\ Becomes(w, r) /\ r.at = "commit"
                            /\ r.start = archiver[w].start /\ r.from = archiver[w].from
                            /\ r.to = archiver[w].to /\ r.round = archiver[w].round
    BY <1>0, <1>4, GoesAs
  <2>2. ArchiveTypeOK'
    BY <1>0, <1>1, <2>1 DEF ArchiveTypeOK, Becomes
  <2>3. CompactInv'
    BY <1>1, <2>1, CompactCalm DEF ArchiveInv, CompactorOK
  <2>4. ~ trimming => RoundsInv'
    BY <1>0, <1>1, <1>4, <2>1, RoundWritten DEF ArchiveInv
  <2>. QED  BY <1>1, <2>2, <2>3, <2>4 DEF ArchiveInv
<1>. QED  BY <1>3, <1>4 DEF SinkRound

LEMMA CommitKeeps ==
  ASSUME ArchiveInv, NEW w \in Archivers, CommitRound(w)
  PROVE  ArchiveInv'
<1>1. UNCHANGED <<trimming, events, life, files, trimmed, summaries>>
  BY DEF CommitRound, streamVars, compactVars
<1>0. /\ ArchiveTypeOK /\ archiver[w] \in Worker /\ archiver[w].at = "commit"
      /\ "mark" \in Places
  BY DEF ArchiveInv, ArchiveTypeOK, CommitRound, At, Places
<1>2. \A b, t : IsFirst(b, t)' <=> IsFirst(b, t)
  BY <1>1 DEF IsFirst
<1>3. PICK r \in Worker : Becomes(w, r) /\ r.at = "mark"
  <2>1. archiver[w].drain \in Drains /\ 0 \in Nat
    BY <1>0 DEF Worker
  <2>. QED  BY <1>0, <2>1, EntersAs DEF CommitRound
<1>4. CASE Overtaken(w)
  <2>1. boundary' = boundary /\ rounds' = rounds
    BY <1>4 DEF CommitRound
  <2>. QED  BY <1>0, <1>1, <1>2, <1>3, <2>1, ArchiveCalm DEF ArchiveTypeOK
<1>5. CASE ~ Overtaken(w)
  <2>1. boundary' = archiver[w].to /\ rounds' = archiver[w].round
    BY <1>5 DEF CommitRound
  <2>2. ArchiveTypeOK'
    BY <1>0, <1>1, <1>3, <2>1 DEF ArchiveTypeOK, Becomes, Worker
  <2>3. CompactInv'
    BY <1>1, <1>3, CompactCalm DEF ArchiveInv, CompactorOK
  <2>4. ~ trimming => RoundsInv'
    BY <1>0, <1>1, <1>3, <1>5, <2>1, RoundCommitted DEF ArchiveInv
  <2>. QED  BY <1>1, <2>2, <2>3, <2>4 DEF ArchiveInv
<1>. QED  BY <1>4, <1>5

LEMMA CheckKeeps ==
  ASSUME ArchiveInv, NEW w \in Archivers, CheckStream(w)
  PROVE  ArchiveInv'
<1>1. UNCHANGED <<trimming, events, life, boundary, rounds, files, trimmed, summaries>>
  BY DEF CheckStream, streamVars, roundVars
<1>2. \A b, t : IsFirst(b, t)' <=> IsFirst(b, t)
  BY <1>1 DEF IsFirst
<1>3. PICK r \in Worker : Becomes(w, r) /\ r.at \in {"idle", "mark"}
  <2>1. "mark" \in Places /\ "before" \in Drains /\ 0 \in Nat
    BY DEF Places, Drains
  <2>. QED  BY <2>1, EntersAs, RestsAs DEF CheckStream
<1>. QED  BY <1>1, <1>2, <1>3, ArchiveCalm DEF ArchiveInv, ArchiveTypeOK

LEMMA ReadKeeps ==
  ASSUME ArchiveInv, NEW w \in Archivers, ReadCandidates(w)
  PROVE  ArchiveInv'
<1>1. UNCHANGED <<trimming, events, life, boundary, rounds, files, trimmed, summaries>>
  BY DEF ReadCandidates, streamVars, roundVars, compactVars
<1>0. ArchiveTypeOK /\ archiver[w] \in Worker /\ "save" \in Places
  BY DEF ArchiveInv, ArchiveTypeOK, Places
<1>2. \A b, t : IsFirst(b, t)' <=> IsFirst(b, t)
  BY <1>1 DEF IsFirst
<1>3. CASE Rests(w)
  <2>1. PICK r \in Worker : Becomes(w, r) /\ r.at = "idle"
    BY <1>3, RestsAs
  <2>. QED  BY <1>0, <1>1, <1>2, <2>1, ArchiveCalm DEF ArchiveTypeOK
<1>4. CASE ~ Rests(w)
  <2>1. PICK f, t : f = trimmed + 1 /\ t = Len(events) - KeepRecent
    OBVIOUS
  <2>2. f \in Nat /\ t \in Nat
    BY <1>0, <1>4, <2>1, ArchiveAssumption DEF ReadCandidates, ArchiveTypeOK
  <2>3. PICK r : r = [archiver[w] EXCEPT !.at = "save", !.from = f, !.to = t]
    OBVIOUS
  <2>4. r \in Worker /\ r.at = "save" /\ r.from = f
    BY <1>0, <2>2, <2>3 DEF Worker
  <2>5. Becomes(w, r)
    BY <1>0, <1>4, <2>1, <2>3 DEF ReadCandidates, Becomes, ArchiveTypeOK, Worker
  <2>6. ArchiveTypeOK'
    BY <1>0, <1>1, <2>4, <2>5 DEF ArchiveTypeOK, Becomes
  <2>7. CompactInv'
    <3>1. \A v \in 1 .. f - 1 : v \in 1 .. trimmed
      BY <1>0, <2>1 DEF ArchiveTypeOK
    <3>2. CompactorOK(r)
      BY <2>4, <3>1 DEF CompactorOK, ArchiveInv, CompactInv
    <3>. QED  BY <1>1, <2>4, <2>5, <3>2, CompactCalm DEF ArchiveInv
  <2>8. ~ trimming => RoundsInv'
    BY <1>1, <1>2, <2>4, <2>5, RoundsCalm DEF ArchiveInv, ArchiverOK
  <2>. QED  BY <1>1, <2>6, <2>7, <2>8 DEF ArchiveInv
<1>. QED  BY <1>3, <1>4

LEMMA SaveKeeps ==
  ASSUME ArchiveInv, NEW w \in Archivers, SaveSummary(w)
  PROVE  ArchiveInv'
<1>1. UNCHANGED <<trimming, events, life, boundary, rounds, files, trimmed>>
  BY DEF SaveSummary, streamVars, roundVars
<1>0. ArchiveTypeOK /\ archiver[w] \in Worker /\ archiver[w].at = "save" /\ "trim" \in Places
  BY DEF ArchiveInv, ArchiveTypeOK, Places, SaveSummary, At
<1>2. \A b, t : IsFirst(b, t)' <=> IsFirst(b, t)
  BY <1>1 DEF IsFirst
<1>3. CASE Rests(w) /\ summaries' = summaries
  <2>1. PICK r \in Worker : Becomes(w, r) /\ r.at = "idle"
    BY <1>3, RestsAs
  <2>. QED  BY <1>0, <1>1, <1>2, <1>3, <2>1, ArchiveCalm DEF ArchiveTypeOK
<1>4. CASE /\ summaries' = Append(summaries, [start |-> archiver[w].from, end |-> archiver[w].to])
           /\ IF trimming THEN Goes(w, "trim") ELSE Rests(w)
  <2>1. PICK r \in Worker : /\ Becomes(w, r) /\ r.at \in {"trim", "idle"}
                            /\ r.at = "trim" => r.to = archiver[w].to
                            /\ ~ trimming => r.at = "idle"
    BY <1>0, <1>4, RestsAs, GoesAs
  <2>2. PICK f, t : f = archiver[w].from /\ t = archiver[w].to
    OBVIOUS
  <2>3. f \in Nat /\ t \in Nat /\ summaries \in Seq([start : Nat, end : Nat])
    BY <1>0, <2>2 DEF Worker, ArchiveTypeOK
  <2>4. PICK n : n = Len(summaries)
    OBVIOUS
  <2>5. /\ summaries' \in Seq([start : Nat, end : Nat]) /\ n \in Nat
        /\ DOMAIN summaries = 1 .. n /\ DOMAIN summaries' = 1 .. n + 1
        /\ \A i \in 1 .. n : summaries'[i] = summaries[i]
        /\ summaries'[n + 1] = [start |-> f, end |-> t]
    <3>1. PICK s : s = [start |-> f, end |-> t]
      OBVIOUS
    <3>2. s \in [start : Nat, end : Nat] /\ summaries' = Append(summaries, s)
      BY <1>4, <2>2, <2>3, <3>1
    <3>. QED  BY <2>3, <2>4, <3>1, <3>2
  <2>6. ArchiveTypeOK'
    BY <1>0, <1>1, <2>1, <2>5 DEF ArchiveTypeOK, Becomes
  <2>7. \A v : Covered(v) => Covered(v)'
    BY <2>5 DEF Covered
  <2>8. ASSUME NEW v \in 1 .. t PROVE Covered(v)'
    <3>1. CASE v \in 1 .. f - 1
      BY <1>0, <2>2, <2>7, <3>1 DEF ArchiveInv, CompactInv, CompactorOK
    <3>2. CASE v \notin 1 .. f - 1
      <4>1. f <= v /\ v <= t
        BY <2>3, <2>8, <3>2
      <4>2. n + 1 \in DOMAIN summaries'
        BY <2>5
      <4>. QED  BY <2>5, <4>1, <4>2 DEF Covered
    <3>. QED  BY <3>1, <3>2
  <2>9. CompactInv'
    <3>1. ASSUME NEW v \in 1 .. trimmed PROVE Covered(v)'
      BY <2>7, <3>1 DEF ArchiveInv, CompactInv
    <3>2. ASSUME NEW i \in DOMAIN summaries' PROVE \A v \in 1 .. summaries'[i].end : Covered(v)'
      <4>1. CASE i \in 1 .. n
        BY <2>5, <2>7, <4>1 DEF ArchiveInv, CompactInv
      <4>2. CASE i = n + 1
        <5>1. summaries'[i].end = t
          BY <2>5, <4>2
        <5>. QED  BY <2>8, <5>1
      <4>. QED  BY <2>5, <3>2, <4>1, <4>2
    <3>3. ASSUME NEW u \in Archivers PROVE CompactorOK(archiver[u])'
      <4>1. CASE u = w
        <5>1. CompactorOK(r)'
          BY <2>1, <2>2, <2>8 DEF CompactorOK
        <5>. QED  BY <1>0, <2>1, <4>1, <5>1 DEF Becomes, ArchiveTypeOK
      <4>2. CASE u # w
        <5>1. PICK q : q = archiver[u]
          OBVIOUS
        <5>2. CompactorOK(q)'
          BY <2>7, <5>1 DEF CompactorOK, ArchiveInv, CompactInv
        <5>. QED  BY <1>0, <2>1, <4>2, <5>1, <5>2 DEF Becomes, ArchiveTypeOK
      <4>. QED  BY <4>1, <4>2
    <3>. QED  BY <1>1, <3>1, <3>2, <3>3 DEF CompactInv
  <2>10. ~ trimming => RoundsInv'
    <3>. SUFFICES ASSUME ~ trimming PROVE RoundsInv'
      OBVIOUS
    <3>1. r.at = "idle"
      BY <2>1
    <3>2. ArchiverOK(r)'
      BY <3>1 DEF ArchiverOK
    <3>. QED  BY <1>1, <1>2, <2>1, <3>1, <3>2, RoundsCalm DEF ArchiveInv
  <2>. QED  BY <1>1, <2>6, <2>9, <2>10 DEF ArchiveInv
<1>. QED  BY <1>3, <1>4 DEF SaveSummary

\* Events that a summary covers may go from the store, when it trims.
LEMMA TrimKeeps ==
  ASSUME ArchiveInv, NEW w \in Archivers, NEW r \in Worker, Becomes(w, r),
         r.at \in {"idle", "trim latest"}, trimming,
         NEW version \in Nat, \A v \in 1 .. version : Covered(v), TrimBefore(version),
         UNCHANGED <<trimming, events, life, boundary, rounds, files, summaries>>
  PROVE  ArchiveInv'
<1>1. trimmed' \in Nat /\ (trimmed' = trimmed \/ trimmed' = version)
  BY DEF TrimBefore, Higher, ArchiveInv, ArchiveTypeOK
<1>2. ArchiveTypeOK'
  BY <1>1 DEF ArchiveInv, ArchiveTypeOK, Becomes
<1>3. \A v : Covered(v)' <=> Covered(v)
  BY DEF Covered
<1>4. \A v \in 1 .. trimmed' : Covered(v)
  BY <1>1 DEF ArchiveInv, CompactInv
<1>5. ASSUME NEW u \in Archivers PROVE CompactorOK(archiver[u])'
  <2>1. CompactorOK(archiver'[u])
    BY DEF Becomes, ArchiveInv, ArchiveTypeOK, CompactInv, CompactorOK
  <2>. QED  BY <1>3, <2>1 DEF CompactorOK
<1>. QED  BY <1>2, <1>3, <1>4, <1>5 DEF ArchiveInv, CompactInv

LEMMA TrimCompactedKeeps ==
  ASSUME ArchiveInv, NEW w \in Archivers, TrimCompacted(w)
  PROVE  ArchiveInv'
<1>1. UNCHANGED <<trimming, events, life, boundary, rounds, files, summaries>>
  BY DEF TrimCompacted, streamVars, roundVars
<1>2. /\ ArchiveTypeOK /\ archiver[w] \in Worker /\ archiver[w].at = "trim"
      /\ "trim latest" \in Places
  BY DEF ArchiveInv, ArchiveTypeOK, TrimCompacted, At, Places
<1>3. trimming
  BY <1>2 DEF ArchiveInv, RoundsInv, ArchiverOK
<1>4. PICK r \in Worker : Becomes(w, r) /\ r.at = "trim latest"
  BY <1>2, GoesAs DEF TrimCompacted
<1>5. archiver[w].to \in Nat /\ \A v \in 1 .. archiver[w].to : Covered(v)
  BY <1>2 DEF Worker, ArchiveInv, CompactInv, CompactorOK
<1>. QED  BY <1>1, <1>3, <1>4, <1>5, TrimKeeps DEF TrimCompacted

LEMMA TrimLatestKeeps ==
  ASSUME ArchiveInv, NEW w \in Archivers, TrimLatest(w)
  PROVE  ArchiveInv'
<1>1. UNCHANGED <<trimming, events, life, boundary, rounds, files, summaries>>
  BY DEF TrimLatest, streamVars, roundVars
<1>2. ArchiveTypeOK /\ archiver[w].at = "trim latest"
  BY DEF ArchiveInv, TrimLatest, At
<1>3. trimming
  BY <1>2 DEF ArchiveInv, RoundsInv, ArchiverOK
<1>4. PICK r \in Worker : Becomes(w, r) /\ r.at = "idle"
  BY RestsAs DEF TrimLatest
<1>5. PICK i \in DOMAIN summaries : TrimBefore(summaries[i].end)
  BY DEF TrimLatest
<1>6. summaries[i].end \in Nat /\ \A v \in 1 .. summaries[i].end : Covered(v)
  <2>1. \A v \in 1 .. summaries[i].end : Covered(v)
    BY DEF ArchiveInv, CompactInv
  <2>2. summaries[i] \in [start : Nat, end : Nat]
    <3>1. summaries \in Seq([start : Nat, end : Nat])
      BY <1>2 DEF ArchiveTypeOK
    <3>. QED  BY <3>1, LenProperties, ElementOfSeq
  <2>. QED  BY <2>1, <2>2
<1>. QED  BY <1>1, <1>3, <1>4, <1>5, <1>6, TrimKeeps

LEMMA RestartKeeps ==
  ASSUME ArchiveInv, RestartProcess
  PROVE  ArchiveInv'
<1>1. /\ \A u \in Archivers : archiver'[u] = Resting
      /\ archiver' \in [Archivers -> Worker]
      /\ events' = <<>> /\ summaries' = <<>> /\ trimmed' = 0 /\ trimming' = trimming
      /\ boundary' = 0 /\ rounds' = 0 /\ life' = life + 1
  BY RestingIsTyped DEF RestartProcess
<1>2. ArchiveTypeOK'
  BY <1>1 DEF ArchiveInv, ArchiveTypeOK
<1>3. CompactInv'
  <2>1. \A u \in Archivers : CompactorOK(archiver[u])'
    BY <1>1 DEF CompactorOK, Resting
  <2>2. DOMAIN summaries' = {} /\ 1 .. trimmed' = {}
    BY <1>1
  <2>. QED  BY <2>1, <2>2 DEF CompactInv
<1>4. ~ trimming => RoundsInv'
  BY LifeRestarts DEF ArchiveInv
<1>. QED  BY <1>1, <1>2, <1>3, <1>4 DEF ArchiveInv

LEMMA ArchiveStarts == ArchiveInit => ArchiveInv
<1>. SUFFICES ASSUME ArchiveInit PROVE ArchiveInv
  OBVIOUS
<1>1. /\ \A u \in Archivers : archiver[u] = Resting
      /\ archiver \in [Archivers -> Worker]
      /\ events = <<>> /\ summaries = <<>> /\ trimmed = 0 /\ trimming \in BOOLEAN
      /\ boundary = 0 /\ rounds = 0 /\ life = 1 /\ DOMAIN files = {}
  BY RestingIsTyped DEF ArchiveInit, ArchiveStart
<1>2. ArchiveTypeOK
  BY <1>1 DEF ArchiveTypeOK
<1>3. CompactInv
  <2>1. \A u \in Archivers : CompactorOK(archiver[u])
    BY <1>1 DEF CompactorOK, Resting
  <2>2. DOMAIN summaries = {} /\ 1 .. trimmed = {}
    BY <1>1
  <2>. QED  BY <2>1, <2>2 DEF CompactInv
<1>4. RoundsInv
  <2>1. \A n, f, t : ~ Fact(n, f, t)
    BY <1>1 DEF Fact, Resting
  <2>2. \A u \in Archivers : ArchiverOK(archiver[u])
    <3>1. Resting.at = "idle"
      BY DEF Resting
    <3>. QED  BY <1>1, <3>1 DEF ArchiverOK
  <2>3. FilesOK(0)
    <3>1. Kept(0) = {}
      BY DEF Kept
    <3>. QED  BY <1>1, <3>1 DEF FilesOK, Resting
  <2>4. FactsOK /\ FactsJoin /\ RoundsAreWhole
    BY <1>1, <2>1 DEF FactsOK, FactsJoin, RoundsAreWhole
  <2>. QED  BY <1>1, <2>2, <2>3, <2>4 DEF RoundsInv
<1>. QED  BY <1>2, <1>3, <1>4 DEF ArchiveInv

LEMMA ArchiveKeeps == ArchiveInv /\ [ArchiveNext]_archive => ArchiveInv'
<1>. SUFFICES ASSUME ArchiveInv, [ArchiveNext]_archive PROVE ArchiveInv'
  OBVIOUS
<1>1. ASSUME NEW w \in Archivers, NEW kinds \in [1 .. 1 -> BOOLEAN] \cup [1 .. 2 -> BOOLEAN],
             AppendEvents(w, kinds)
      PROVE  ArchiveInv'
  <2>1. kinds \in Seq(BOOLEAN)
    <3>1. CASE kinds \in [1 .. 1 -> BOOLEAN]
      BY <3>1, SeqDef
    <3>2. CASE kinds \in [1 .. 2 -> BOOLEAN]
      BY <3>2, SeqDef
    <3>. QED  BY <3>1, <3>2
  <2>. QED  BY <1>1, <2>1, AppendKeeps
<1>2. ASSUME NEW w \in Archivers, ArchiverStep(w) PROVE ArchiveInv'
  BY <1>2, MarkKeeps, ScanKeeps, ClaimKeeps, SinkKeeps, CommitKeeps, CheckKeeps, ReadKeeps,
     SaveKeeps, TrimCompactedKeeps, TrimLatestKeeps DEF ArchiverStep
<1>3. CASE RestartProcess
  BY <1>3, RestartKeeps
<1>4. CASE UNCHANGED archive
  <2>1. UNCHANGED <<trimming, events, trimmed, summaries, boundary, rounds, files, archiver, life>>
    BY <1>4 DEF archive
  <2>2. ArchiveTypeOK'
    BY <2>1 DEF ArchiveInv, ArchiveTypeOK
  <2>3. CompactInv'
    BY <2>1 DEF ArchiveInv, CompactInv, CompactorOK, Covered
  <2>4. ~ trimming => RoundsInv'
    <3>1. \A n, f, t : Fact(n, f, t)' <=> Fact(n, f, t)
      BY <2>1 DEF Fact
    <3>2. \A b, t : IsFirst(b, t)' <=> IsFirst(b, t)
      BY <2>1 DEF IsFirst
    <3>3. (\A w \in Archivers : ArchiverOK(archiver[w])) => (\A w \in Archivers : ArchiverOK(archiver[w]))'
      BY <2>1, <3>2 DEF ArchiverOK
    <3>4. FactsOK /\ FactsJoin => FactsOK' /\ FactsJoin'
      BY <2>1, <3>1, <3>2 DEF FactsOK, FactOK, FactsJoin
    <3>5. (\E b : FilesOK(b)) => (\E b : FilesOK(b)')
      BY <2>1 DEF FilesOK
    <3>6. RoundsAreWhole => RoundsAreWhole'
      BY <2>1 DEF RoundsAreWhole
    <3>. QED  BY <2>1, <3>3, <3>4, <3>5, <3>6 DEF ArchiveInv, RoundsInv
  <2>. QED  BY <2>1, <2>2, <2>3, <2>4 DEF ArchiveInv
<1>. QED  BY <1>1, <1>2, <1>3, <1>4 DEF ArchiveNext

(* compactable_store.go:393 and compactor.go:100: of a store whose writer    *)
(* keeps two rounds or more, no event goes that no saved summary covers,     *)
(* consecutive rounds of one life of the process join, however many workers  *)
(* archive the same round at a time, and the last round archived is on disk  *)
(* in a directory without files of an earlier life.  A writer that keeps one *)
(* round deletes the last one archived just before the next takes its place. *)
THEOREM ArchiveWhole ==
  ASSUME MaxRounds > 1
  PROVE  ArchiveSpec => []ArchiveIsWhole
<1>1. ArchiveInv => ArchiveIsWhole
  <2>. SUFFICES ASSUME ArchiveInv PROVE NothingForgotten /\ RoundsAreWhole /\ LastRoundIsRecorded
    BY DEF ArchiveIsWhole
  <2>1. NothingForgotten
    BY DEF NothingForgotten, ArchiveInv, CompactInv, Covered
  <2>2. RoundsAreWhole
    BY DEF ArchiveInv, RoundsInv, RoundsAreWhole
  <2>3. ASSUME \A n \in DOMAIN files : files[n].life = life, ~ trimming, rounds > 0
        PROVE  rounds \in DOMAIN files /\ files[rounds].life = life /\ files[rounds].to = boundary
    <3>1. RoundsInv /\ rounds \in Nat
      BY <2>3 DEF ArchiveInv, ArchiveTypeOK
    <3>2. PICK b : FilesOK(b)
      BY <3>1 DEF RoundsInv
    <3>3. b \in Nat /\ rounds <= b /\ DOMAIN files = Kept(b) /\ MaxRounds \in Nat
      BY <3>2, ArchiveAssumption DEF FilesOK
    <3>4. b \in DOMAIN files
      BY <2>3, <3>1, <3>3 DEF Kept
    <3>5. ASSUME NEW n \in DOMAIN files PROVE Fact(n, files[n].from, files[n].to)
      <4>1. files[n] \in RoundRecord /\ files[n].life = life
        BY <2>3, <3>1 DEF RoundsInv
      <4>2. files[n] = [from |-> files[n].from, to |-> files[n].to, life |-> life]
        BY <4>1 DEF RoundRecord
      <4>. QED  BY <4>2 DEF Fact
    <3>6. b <= rounds + 1
      BY <3>1, <3>4, <3>5 DEF RoundsInv, FactsOK, FactOK
    <3>7. rounds \in DOMAIN files
      BY <2>3, <3>1, <3>3, <3>6 DEF Kept
    <3>8. files[rounds].to = boundary
      BY <3>1, <3>5, <3>7 DEF RoundsInv, FactsOK, FactOK
    <3>. QED  BY <2>3, <3>7, <3>8
  <2>. QED  BY <2>1, <2>2, <2>3 DEF LastRoundIsRecorded, LastRoundIsThere
<1>. QED  BY <1>1, ArchiveStarts, ArchiveKeeps, PTL DEF ArchiveSpec

=============================================================================
