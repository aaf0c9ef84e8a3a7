---------------------------- MODULE SessionLease ----------------------------
(***************************************************************************)
(* The session lease manager (internal/agents/lease) and the workers that  *)
(* take leases through the memory manager.  Every operation runs under the *)
(* manager's lock, so it is one step; what a worker was told lives on in   *)
(* its own copy of the lease, which is what it acts upon afterwards.       *)
(***************************************************************************)
EXTENDS Naturals

CONSTANTS LeaseWorkers,     \* owners
          LeaseTTLs,        \* the TTLs they ask for, positive
          LeaseHorizon,     \* bound: the last instant of the clock
          NotLeased

Leases == [owner : LeaseWorkers, expiresAt : Nat]

ASSUME LeaseAssumption == LeaseTTLs \subseteq Nat \ {0} /\ NotLeased \notin Leases

VARIABLES clock,        \* timeNow()
          sessionLease, \* Manager.leases of one session
          told          \* until when each worker was told it holds the session

leaseVars == <<clock, sessionLease, told>>

LeaseInit ==
    /\ clock = 0
    /\ sessionLease = NotLeased
    /\ told = [w \in LeaseWorkers |-> 0]

GrantUntil(w, ttl) ==
    /\ sessionLease' = [owner |-> w, expiresAt |-> clock + ttl]
    /\ told' = [told EXCEPT ![w] = clock + ttl]
    /\ UNCHANGED clock

\* Acquire: refused while a lease's expiry is after now.  It does not ask
\* whose lease that is: renewing one's own needs Renew.
AcquireLease(w, ttl) ==
    /\ sessionLease # NotLeased => sessionLease.expiresAt <= clock
    /\ GrantUntil(w, ttl)

\* Renew: by its owner, an expired lease included.
RenewLease(w, ttl) ==
    /\ sessionLease # NotLeased
    /\ sessionLease.owner = w
    /\ GrantUntil(w, ttl)

\* Release: by its owner only; the worker stops working on the session.
ReleaseLease(w) ==
    /\ sessionLease # NotLeased
    /\ sessionLease.owner = w
    /\ sessionLease' = NotLeased
    /\ told' = [told EXCEPT ![w] = 0]
    /\ UNCHANGED clock

LeaseClockTicks ==
    /\ clock < LeaseHorizon
    /\ clock' = clock + 1
    /\ UNCHANGED <<sessionLease, told>>

LeaseNext ==
    \/ \E w \in LeaseWorkers, ttl \in LeaseTTLs :
          AcquireLease(w, ttl) \/ RenewLease(w, ttl)
    \/ \E w \in LeaseWorkers : ReleaseLease(w)
    \/ LeaseClockTicks

LeaseSpec == LeaseInit /\ [][LeaseNext]_leaseVars

-----------------------------------------------------------------------------

\* Two workers never both believe, each by the last answer it got, that they
\* hold the session at this instant: a worker whose lease was taken over
\* after its expiry cannot prolong or end the new owner's (lease.go, "other
\* workers cannot modify the session while the lease is held").
LeaseIsExclusive ==
    \A v, w \in LeaseWorkers : told[v] > clock /\ told[w] > clock => v = w
=============================================================================
