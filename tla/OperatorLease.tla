---------------------------- MODULE OperatorLease ----------------------------
(***************************************************************************)
(* What the operator's leader election promises the code that runs under   *)
(* it: a lease granted to one replica at a time, each grant lasting its    *)
(* full term unless given back, and per replica a Holding that never       *)
(* outlives the grant it stands for.                                       *)
(*                                                                         *)
(* LeaderElection implements this; HolderRoute is built on it.             *)
(***************************************************************************)
EXTENDS Integers

CONSTANTS
    Replicas,        \* operator replicas
    NoHolder,        \* nobody holds the lease
    LEASE_DURATION,  \* the term of a grant
    RENEW_DEADLINE,  \* how long a Holding lasts without a renewal
    MaxTime          \* bound on the clock

VARIABLES
    now,        \* the monotonic clock
    holder,     \* the replica the lease is granted to
    grantedAt,  \* when the grant was made or renewed
    renewedAt   \* Holding: the time each replica dates its tenure from

leaseVars == <<now, holder, grantedAt, renewedAt>>

Never == -1

Init ==
    /\ now = 0
    /\ holder = NoHolder
    /\ grantedAt = 0
    /\ renewedAt = [r \in Replicas |-> Never]

\* Holding::holds
Holds(r) == renewedAt[r] # Never /\ now < renewedAt[r] + RENEW_DEADLINE

Tick ==
    /\ now < MaxTime
    /\ now' = now + 1
    /\ UNCHANGED <<holder, grantedAt, renewedAt>>

\* The lease is free, r's own, or a full term old: it is granted to r.
Grant(r) ==
    /\ holder \in {NoHolder, r} \/ now >= grantedAt + LEASE_DURATION
    /\ holder' = r
    /\ grantedAt' = now
    /\ UNCHANGED <<now, renewedAt>>

\* r learns of its grant, late perhaps, and dates its tenure from a time t no
\* later than the grant, or one whose full term has already passed.
Confirm(r, t) ==
    /\ \/ holder = r /\ t <= grantedAt
       \/ now >= t + LEASE_DURATION
    /\ renewedAt' = [renewedAt EXCEPT ![r] = t]
    /\ UNCHANGED <<now, holder, grantedAt>>

\* r stops holding: it lost the lease, stands down, or its process ended.
StopHolding(r) ==
    /\ renewedAt' = [renewedAt EXCEPT ![r] = Never]
    /\ UNCHANGED <<now, holder, grantedAt>>

\* A replica that no longer holds gives the lease back.
GiveBack(r) ==
    /\ holder = r
    /\ renewedAt[r] = Never
    /\ holder' = NoHolder
    /\ grantedAt' = now
    /\ UNCHANGED <<now, renewedAt>>

LeaseNext ==
    \/ Tick
    \/ \E r \in Replicas :
        \/ Grant(r)
        \/ \E t \in 0 .. now : Confirm(r, t)
        \/ StopHolding(r)
        \/ GiveBack(r)

LeaseSpec == Init /\ [][LeaseNext]_leaseVars

=============================================================================
