--------------------------- MODULE LeaderElection ---------------------------
(***************************************************************************)
(* The operator's leader election (crates/operator/src/leader.rs): one     *)
(* replica holds a Kubernetes Lease and runs everything that writes.       *)
(*                                                                         *)
(* A replica is an Elector.  Every call to the API server is split into    *)
(* the steps another replica can interleave with: the request is sent, the *)
(* server serves it, the answer is processed.  A request whose caller gave *)
(* up (timeout, error, crash) stays in the network as a stray write and    *)
(* may still be served at any later time, until the lease moves past the   *)
(* version it names and it can only conflict.                              *)
(*                                                                         *)
(* `now' is the monotonic clock (tokio Instant).  The replicas' clocks run *)
(* at one rate; a replica may stall for any time between two of its steps. *)
(***************************************************************************)
EXTENDS Integers

CONSTANTS
    Replicas,        \* operator replicas, each with its own identity `me'
    Gated,           \* the replicas told the Deployment's selector: their gate lists pods
    NoHolder,        \* the lease's empty holderIdentity
    LEASE_DURATION,  \* unchanged this long, the lease may be taken
    RENEW_DEADLINE,  \* a holder that did not renew this long counts itself lost
    MaxTime,         \* bound on the clock
    MaxVersion       \* bound on the writes to the lease

ASSUME ReplicasAssumption == NoHolder \notin Replicas /\ Gated \subseteq Replicas

\* leader.rs: 10 s and 8 s.  The safety argument needs no more than this order.
ASSUME DurationsAssumption ==
    /\ LEASE_DURATION \in Nat
    /\ RENEW_DEADLINE \in Nat
    /\ RENEW_DEADLINE <= LEASE_DURATION

ASSUME BoundsAssumption == MaxTime \in Nat /\ MaxVersion \in Nat

VARIABLES
    now,        \* the monotonic clock
    unelected,  \* a replica rendered without leader election runs, and writes
    alone,      \* history: the replicas that, since their last attempt ended, had an
                \* instant with no unelected replica running
    lease,      \* the Lease object: its resourceVersion (0: absent) and holder
    changedAt,  \* history: when the Lease was last written
    phase,      \* where each replica stands: acquire, hold_until, release, or down
    attempt,    \* each replica's call in progress
    observed,   \* the version each replica last saw, and when it first saw it
    renewedAt,  \* Holding: when each replica's last successful renewal began
    strays      \* writes in the network that no caller waits for

vars == <<now, unelected, alone, lease, changedAt, phase, attempt, observed, renewedAt, strays>>

Never == -1

Phases == {"contend", "hold", "release", "down"}

\* gate passed, get sent, get answered, put sent, put accepted, names_me sent.
Steps == {"idle", "clear", "get", "got", "put", "won", "names"}

Holders == Replicas \cup {NoHolder}

\* A call about which nothing is known but its step.
Call(step) == [step |-> step, version |-> 0, holder |-> NoHolder, at |-> Never]

Idle == Call("idle")

Unseen == [version |-> 0, at |-> Never]

Write == [from : Replicas, version : Nat, holder : Holders]

TypeOK ==
    /\ now \in Nat
    /\ unelected \in BOOLEAN
    /\ alone \subseteq Replicas
    /\ lease \in [version : Nat, holder : Holders]
    /\ changedAt \in Nat
    /\ phase \in [Replicas -> Phases]
    /\ attempt \in [Replicas -> [step : Steps, version : Nat, holder : Holders, at : Nat \cup {Never}]]
    /\ observed \in [Replicas -> [version : Nat, at : Nat \cup {Never}]]
    /\ renewedAt \in [Replicas -> Nat \cup {Never}]
    /\ strays \subseteq Write

Init ==
    /\ now = 0
    /\ unelected \in BOOLEAN
    /\ alone = IF unelected THEN {} ELSE Replicas
    /\ lease = [version |-> 0, holder |-> NoHolder]
    /\ changedAt = 0
    /\ phase = [r \in Replicas |-> "contend"]
    /\ attempt = [r \in Replicas |-> Idle]
    /\ observed = [r \in Replicas |-> Unseen]
    /\ renewedAt = [r \in Replicas |-> Never]
    /\ strays = {}

-----------------------------------------------------------------------------
(* What a replica computes. *)

\* Holding::holds
Holds(r) == renewedAt[r] # Never /\ now < renewedAt[r] + RENEW_DEADLINE

\* takeable
Takeable(holder, r, unchangedFor) ==
    holder \in {NoHolder, r} \/ unchangedFor >= LEASE_DURATION

\* Mutant of Observe: the first sight of a version is dated back by a poll interval.
ObserveBackdated(r, version) ==
    IF observed[r].version = version THEN observed[r]
    ELSE [version |-> version, at |-> now - RENEW_DEADLINE]

\* The observation an answer carrying `version' leaves behind.
Observe(r, version) ==
    IF observed[r].version = version THEN observed[r]
    ELSE [version |-> version, at |-> now]

\* The write in flight when a caller gives up stays in the network while it can land.
Abandoned(r) ==
    IF attempt[r].step = "put" /\ attempt[r].version = lease.version
    THEN {[from |-> r, version |-> attempt[r].version, holder |-> attempt[r].holder]}
    ELSE {}

\* A put that names the version it replaces, sent at clock reading `at'.
SendPut(r, version, holder, at) ==
    attempt' = [attempt EXCEPT ![r] = [step |-> "put", version |-> version, holder |-> holder, at |-> at]]

-----------------------------------------------------------------------------
(* The environment: time passes, and an unelected replica goes away or comes *)
(* back (a rollback, or the old ReplicaSet replacing a pod it lost).         *)

Tick ==
    /\ now < MaxTime
    /\ now' = now + 1
    /\ UNCHANGED <<unelected, alone, lease, changedAt, phase, attempt, observed, renewedAt, strays>>

UnelectedStops ==
    /\ unelected
    /\ unelected' = FALSE
    /\ alone' = Replicas
    /\ UNCHANGED <<now, lease, changedAt, phase, attempt, observed, renewedAt, strays>>

UnelectedStarts ==
    /\ ~unelected
    /\ unelected' = TRUE
    /\ UNCHANGED <<now, alone, lease, changedAt, phase, attempt, observed, renewedAt, strays>>

-----------------------------------------------------------------------------
(* The API server.  A replace needs the version it names; a create (version *)
(* 0) needs the object to be absent; either conflicts otherwise, and so    *)
(* does every stray write once the version has moved.                       *)

\* Mutant of Apply: a write without its resourceVersion precondition.
ApplyBlind(version, holder) ==
    /\ lease.version < MaxVersion
    /\ lease' = [version |-> lease.version + 1, holder |-> holder]
    /\ changedAt' = now
    /\ strays' = {}

Apply(version, holder) ==
    /\ lease.version < MaxVersion
    /\ lease.version = version
    /\ lease' = [version |-> version + 1, holder |-> holder]
    /\ changedAt' = now
    /\ strays' = {}

ServeGet(r) ==
    /\ attempt[r].step = "get"
    /\ attempt' = [attempt EXCEPT ![r] = [step |-> "got", version |-> lease.version,
                                          holder |-> lease.holder, at |-> Never]]
    /\ UNCHANGED <<now, unelected, alone, lease, changedAt, phase, observed, renewedAt, strays>>

AcceptPut(r) ==
    /\ attempt[r].step = "put"
    /\ Apply(attempt[r].version, attempt[r].holder)
    /\ attempt' = [attempt EXCEPT ![r] = [step |-> "won", version |-> attempt[r].version + 1,
                                          holder |-> attempt[r].holder, at |-> attempt[r].at]]
    /\ UNCHANGED <<now, unelected, alone, phase, observed, renewedAt>>

ServeStray(w) ==
    /\ Apply(w.version, w.holder)
    /\ UNCHANGED <<now, unelected, alone, phase, attempt, observed, renewedAt>>

-----------------------------------------------------------------------------
(* Elector::attempt, as run by acquire_when and by renew. *)

\* acquire_when: the gate's pod list is served and names no unelected replica, or
\* there is no selector to list by.  Otherwise, and when the list fails, the
\* candidate sleeps and asks again.
PassGate(r) ==
    /\ phase[r] = "contend" /\ attempt[r].step = "idle"
    /\ r \in Gated => ~unelected
    /\ attempt' = [attempt EXCEPT ![r] = Call("clear")]
    /\ UNCHANGED <<now, unelected, alone, lease, changedAt, phase, observed, renewedAt, strays>>

\* acquire_when: the answer of the gate is in, and the candidate contends.
Contend(r) ==
    /\ phase[r] = "contend" /\ attempt[r].step = "clear"
    /\ attempt' = [attempt EXCEPT ![r] = Call("get")]
    /\ UNCHANGED <<now, unelected, alone, lease, changedAt, phase, observed, renewedAt, strays>>

\* hold_until, renew: another renewal while some of the deadline is left.
Renew(r) ==
    /\ phase[r] = "hold" /\ attempt[r].step = "idle"
    /\ Holds(r)
    /\ attempt' = [attempt EXCEPT ![r] = Call("get")]
    /\ UNCHANGED <<now, unelected, alone, lease, changedAt, phase, observed, renewedAt, strays>>

\* r's attempt ends; what its gate saw before it is of the past.
EndAttempt(r) == alone' = IF unelected THEN alone \ {r} ELSE alone

\* Mutant of Refused: a refused candidate tries again without asking its gate.
RefusedStaysClear(r) ==
    /\ attempt' = [attempt EXCEPT ![r] = IF phase[r] = "hold" THEN Call("names") ELSE Call("clear")]
    /\ EndAttempt(r)

\* What follows an attempt that returned Ok(false): a candidate waits and retries,
\* a holder asks whether the lease still names it.
Refused(r) ==
    /\ attempt' = [attempt EXCEPT ![r] = IF phase[r] = "hold" THEN Call("names") ELSE Idle]
    /\ EndAttempt(r)

\* The get returned and `now' is read.  There is no Lease yet: create it.
Create(r) ==
    /\ phase[r] \in {"contend", "hold"} /\ attempt[r].step = "got"
    /\ attempt[r].version = 0
    /\ SendPut(r, 0, r, now)
    /\ UNCHANGED <<now, unelected, alone, lease, changedAt, phase, observed, renewedAt, strays>>

\* How long the lease read has gone unchanged on r's own clock.
UnchangedFor(r) == now - Observe(r, attempt[r].version).at

\* The lease read is free, ours, or unchanged for its whole duration: take it.
Take(r) ==
    /\ phase[r] \in {"contend", "hold"} /\ attempt[r].step = "got"
    /\ attempt[r].version # 0
    /\ Takeable(attempt[r].holder, r, UnchangedFor(r))
    /\ observed' = [observed EXCEPT ![r] = Observe(r, attempt[r].version)]
    /\ SendPut(r, attempt[r].version, r, now)
    /\ UNCHANGED <<now, unelected, alone, lease, changedAt, phase, renewedAt, strays>>

\* The lease read is another replica's: the attempt returns Ok(false).
LeaveHeld(r) ==
    /\ phase[r] \in {"contend", "hold"} /\ attempt[r].step = "got"
    /\ attempt[r].version # 0
    /\ ~Takeable(attempt[r].holder, r, UnchangedFor(r))
    /\ observed' = [observed EXCEPT ![r] = Observe(r, attempt[r].version)]
    /\ Refused(r)
    /\ UNCHANGED <<now, unelected, lease, changedAt, phase, renewedAt, strays>>

\* Mutant of Renewed: the tenure is dated by when the answer arrived.
RenewedAtAnswer(r) ==
    /\ phase[r] \in {"contend", "hold"} /\ attempt[r].step = "won"
    /\ observed' = [observed EXCEPT ![r] = [version |-> attempt[r].version, at |-> now]]
    /\ renewedAt' = [renewedAt EXCEPT ![r] = now]
    /\ phase' = [phase EXCEPT ![r] = "hold"]
    /\ attempt' = [attempt EXCEPT ![r] = Idle]
    /\ UNCHANGED <<now, unelected, alone, lease, changedAt, strays>>

\* The put returned Ok: the lease is held as of the time read before the put was sent.
Renewed(r) ==
    /\ phase[r] \in {"contend", "hold"} /\ attempt[r].step = "won"
    /\ observed' = [observed EXCEPT ![r] = [version |-> attempt[r].version, at |-> attempt[r].at]]
    /\ renewedAt' = [renewedAt EXCEPT ![r] = attempt[r].at]
    /\ phase' = [phase EXCEPT ![r] = "hold"]
    /\ attempt' = [attempt EXCEPT ![r] = Idle]
    /\ UNCHANGED <<now, unelected, alone, lease, changedAt, strays>>

\* The put returned Conflict: the lease is no longer at the version it names.
Conflicted(r) ==
    /\ phase[r] \in {"contend", "hold"} /\ attempt[r].step = "put"
    /\ lease.version # attempt[r].version
    /\ Refused(r)
    /\ UNCHANGED <<now, unelected, lease, changedAt, phase, observed, renewedAt, strays>>

\* A call failed or timed out: the candidate and the holder both try again.
Fail(r) ==
    /\ phase[r] \in {"contend", "hold"}
    /\ attempt[r].step \in {"get", "got", "put", "won"}
    /\ strays' = strays \cup Abandoned(r)
    /\ attempt' = [attempt EXCEPT ![r] = Idle]
    /\ EndAttempt(r)
    /\ UNCHANGED <<now, unelected, lease, changedAt, phase, observed, renewedAt>>

-----------------------------------------------------------------------------
(* Losing and giving up the lease. *)

StandDown(r) ==
    /\ renewedAt' = [renewedAt EXCEPT ![r] = Never]
    /\ phase' = [phase EXCEPT ![r] = "down"]
    /\ attempt' = [attempt EXCEPT ![r] = Idle]

\* renew: names_me says the change was a renewal of ours.
StillNamed(r) ==
    /\ attempt[r].step = "names" /\ lease.holder = r
    /\ attempt' = [attempt EXCEPT ![r] = Idle]
    /\ UNCHANGED <<now, unelected, alone, lease, changedAt, phase, observed, renewedAt, strays>>

\* renew: names_me says another replica holds the lease, or could not tell.
Superseded(r) ==
    /\ attempt[r].step = "names"
    /\ StandDown(r)
    /\ UNCHANGED <<now, unelected, alone, lease, changedAt, observed, strays>>

\* renew: no renewal landed before the deadline.
DeadlinePassed(r) ==
    /\ phase[r] = "hold" /\ attempt[r].step = "idle"
    /\ ~Holds(r)
    /\ StandDown(r)
    /\ UNCHANGED <<now, unelected, alone, lease, changedAt, observed, strays>>

\* Mutant of Release: the Holding flag outlives the release.
ReleaseStillHolding(r) ==
    /\ phase[r] = "hold" /\ attempt[r].step = "idle"
    /\ phase' = [phase EXCEPT ![r] = "release"]
    /\ attempt' = [attempt EXCEPT ![r] = Call("get")]
    /\ UNCHANGED <<now, unelected, alone, lease, changedAt, observed, renewedAt, strays>>

\* Leadership::finish, release: stop holding first, then read the lease.
Release(r) ==
    /\ phase[r] = "hold" /\ attempt[r].step = "idle"
    /\ renewedAt' = [renewedAt EXCEPT ![r] = Never]
    /\ phase' = [phase EXCEPT ![r] = "release"]
    /\ attempt' = [attempt EXCEPT ![r] = Call("get")]
    /\ UNCHANGED <<now, unelected, alone, lease, changedAt, observed, strays>>

\* release: clear the holder if it is still this replica.
ClearHolder(r) ==
    /\ phase[r] = "release" /\ attempt[r].step = "got"
    /\ attempt[r].holder = r
    /\ SendPut(r, attempt[r].version, NoHolder, Never)
    /\ UNCHANGED <<now, unelected, alone, lease, changedAt, phase, observed, renewedAt, strays>>

\* release: nothing to clear, done, failed or timed out.
Released(r) ==
    /\ phase[r] = "release"
    /\ strays' = strays \cup Abandoned(r)
    /\ StandDown(r)
    /\ UNCHANGED <<now, unelected, alone, lease, changedAt, observed>>

\* The process ends, or its pod is killed, and starts again as a candidate
\* under the same identity.
Restart(r) ==
    /\ strays' = strays \cup Abandoned(r)
    /\ phase' = [phase EXCEPT ![r] = "contend"]
    /\ attempt' = [attempt EXCEPT ![r] = Idle]
    /\ observed' = [observed EXCEPT ![r] = Unseen]
    /\ renewedAt' = [renewedAt EXCEPT ![r] = Never]
    /\ EndAttempt(r)
    /\ UNCHANGED <<now, unelected, lease, changedAt>>

-----------------------------------------------------------------------------

Replica(r) ==
    \/ PassGate(r) \/ Contend(r) \/ Renew(r) \/ ServeGet(r) \/ Create(r) \/ Take(r) \/ LeaveHeld(r)
    \/ AcceptPut(r) \/ Renewed(r) \/ Conflicted(r) \/ Fail(r)
    \/ StillNamed(r) \/ Superseded(r) \/ DeadlinePassed(r)
    \/ Release(r) \/ ClearHolder(r) \/ Released(r) \/ Restart(r)

Next ==
    \/ Tick
    \/ UnelectedStops
    \/ UnelectedStarts
    \/ \E w \in strays : ServeStray(w)
    \/ \E r \in Replicas : Replica(r)

Spec == Init /\ [][Next]_vars

-----------------------------------------------------------------------------
(* Properties. *)

\* "The holder ... counts itself lost before any other replica can take over":
\* whoever may still act as the holder (Holding::holds) is the replica the Lease
\* names.  Broken by a late answer, a late write or a release that outlives its
\* process.
HolderIsNamed == \A r \in Replicas : Holds(r) => lease.holder = r

\* Two replicas never run the writers at once.
AtMostOneHolder == \A r, s \in Replicas : Holds(r) /\ Holds(s) => r = s

\* Every attempt asks the gate anew (acquire_when's loop; unelected.rs: a rollout
\* "would otherwise run one beside the new holder"): a replica takes up the
\* writers only if, since its previous attempt ended, there was an instant with
\* no unelected replica.  One that has been running all along is never joined.
\* One that starts between the list and the Lease's write is: the gate cannot
\* see it, and renewals do not ask.
GateIsAskedAnew ==
    [][\A r \in Gated : phase[r] = "contend" /\ phase'[r] = "hold" => r \in alone]_vars

\* Clock skew cannot shorten a tenure: the Lease passes from one replica to
\* another only after it went unchanged for LEASE_DURATION, whatever the
\* candidate saw and however late its write arrived.
TakeoverWaits ==
    [][lease.holder \in Replicas /\ lease'.holder \in Replicas \ {lease.holder}
        => now >= changedAt + LEASE_DURATION]_vars

\* The election implements the abstract lease: every step of the replicas, the
\* server and the network grants, confirms, stops holding, gives back, or is
\* invisible to the code that runs under the lease.
Abstract == INSTANCE OperatorLease WITH holder <- lease.holder, grantedAt <- changedAt

ImplementsLease == Abstract!LeaseSpec

-----------------------------------------------------------------------------
(* The inductive invariant behind them. *)

\* A clock reading is never ahead of the clock, and a version never ahead of the Lease.
PastOnly ==
    /\ changedAt <= now
    /\ lease.version = 0 => lease.holder = NoHolder
    /\ \A r \in Replicas :
        /\ renewedAt[r] <= now
        /\ observed[r].at <= now /\ observed[r].version <= lease.version
        /\ attempt[r].at <= now /\ attempt[r].version <= lease.version

\* A write by r may move the Lease to r only from r, from nobody, or after a full term.
MayTake(r) == lease.holder \in {NoHolder, r} \/ now >= changedAt + LEASE_DURATION

\* A tenure begun at t is the Lease's, or its full term has passed.
Tenure(r, t) ==
    /\ t # Never
    /\ \/ lease.holder = r /\ t <= changedAt
       \/ now >= t + LEASE_DURATION

\* A version seen and still current was seen no earlier than it was written,
\* but for the writer's own, which it dates by when it sent the write.
SeenInTime(r) ==
    observed[r].version = lease.version /\ lease.version # 0
        => lease.holder = r \/ observed[r].at >= changedAt

\* What a call in progress knows of the Lease, as long as the version it read is current.
CallOK(r) ==
    LET a == attempt[r]
        current == a.version = lease.version
    IN  /\ phase[r] = "down" => a.step = "idle"
        /\ phase[r] = "release" => a.step \in {"get", "got", "put", "won"}
        /\ a.step = "names" => phase[r] = "hold"
        /\ a.step = "clear" => phase[r] = "contend"
        /\ a.step = "got" /\ current => a.holder = lease.holder
        /\ a.step = "put" /\ phase[r] = "release" =>
            a.holder = NoHolder /\ (current => lease.holder = r)
        /\ a.step = "put" /\ phase[r] # "release" =>
            a.holder = r /\ a.at # Never /\ (current => MayTake(r))
        /\ a.step = "won" /\ phase[r] # "release" =>
            Tenure(r, a.at) /\ (current => lease.holder = r)

\* A stray write still lands only as its caller meant it: a take under the same
\* condition, a release of a lease its replica no longer holds.
StrayOK(w) ==
    /\ w.version = lease.version
    /\ \/ w.holder = w.from /\ MayTake(w.from)
       \/ /\ w.holder = NoHolder /\ lease.holder = w.from
          /\ renewedAt[w.from] = Never /\ attempt[w.from].step # "won"

\* A replica that counts itself the holder is in hold_until, in its tenure.
HoldingOK(r) == renewedAt[r] # Never => phase[r] = "hold" /\ Tenure(r, renewedAt[r])

\* A candidate that passed its gate had its instant without an unelected replica,
\* and while none runs every replica has.
GateOK ==
    /\ ~unelected => alone = Replicas
    /\ \A r \in Gated : phase[r] = "contend" /\ attempt[r].step # "idle" => r \in alone

IInv ==
    /\ TypeOK
    /\ PastOnly
    /\ GateOK
    /\ \A r \in Replicas : SeenInTime(r) /\ CallOK(r) /\ HoldingOK(r)
    /\ \A w \in strays : StrayOK(w)

=============================================================================
