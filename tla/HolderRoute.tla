----------------------------- MODULE HolderRoute -----------------------------
(***************************************************************************)
(* Routing the Services peers reach the operator on to the lease holder    *)
(* alone (crates/operator/src/holder_route.rs): the holder writes one      *)
(* EndpointSlice per Service naming its own address.  Each Service's slice *)
(* is written on its own, so one slice is modelled.                        *)
(*                                                                         *)
(* The lease is the abstract one of OperatorLease, which LeaderElection    *)
(* implements.  A slice write is a read, a check and a conditional write;  *)
(* one whose caller gave up may still be served later.                     *)
(***************************************************************************)
EXTENDS OperatorLease

CONSTANTS
    WRITE_TIMEOUT,    \* how long one slice write may take
    EndsAbruptly,     \* main may end without standing down first
    MaxSliceVersion   \* bound on the writes to the slice

\* holder_route.rs and leader.rs: 8 s + 2 s <= 10 s.
ASSUME WriteFitsTerm ==
    /\ EndsAbruptly \in BOOLEAN
    /\ LEASE_DURATION \in Nat /\ RENEW_DEADLINE \in Nat /\ WRITE_TIMEOUT \in Nat
    /\ RENEW_DEADLINE + WRITE_TIMEOUT <= LEASE_DURATION

ASSUME HolderAssumption == NoHolder \notin Replicas

VARIABLES
    slice,    \* the EndpointSlice: its resourceVersion and the replica it names
    routing,  \* per replica: Waiting, Routed or Withdrawn
    write,    \* per replica: the slice write under way
    late,     \* slice writes in the network that no caller waits for
    tenure,   \* per replica: candidate, holding, or ended until the process restarts
    releasing,\* replicas whose release of the lease may still reach the server
    landed    \* history: a write naming the replica landed since the lease was last granted to it

sliceVars == <<slice, routing, write, late, landed>>
tenureVars == <<tenure, releasing>>
leaseAndTenure == <<now, holder, grantedAt, renewedAt, tenure, releasing>>
vars == <<leaseVars, tenureVars, sliceVars>>

NoWrite == [step |-> "none", target |-> NoHolder, version |-> 0, seen |-> NoHolder, until |-> 0]

TypeOK ==
    /\ slice \in [version : 0 .. MaxSliceVersion, names : Replicas \cup {NoHolder}]
    /\ routing \in [Replicas -> {"Waiting", "Routed", "Withdrawn"}]
    /\ \A r \in Replicas :
        /\ write[r].step \in {"none", "get", "got", "put"}
        /\ write[r].target \in {NoHolder, r}
        /\ write[r].step # "none" => routing[r] # "Waiting"
    /\ \A w \in late : w.version = slice.version
    /\ landed \in [Replicas -> BOOLEAN]
    /\ tenure \in [Replicas -> {"candidate", "holding", "ended"}]
    /\ \A r \in releasing : tenure[r] # "holding"

RouteInit ==
    /\ Init
    /\ slice = [version |-> 0, names |-> NoHolder]
    /\ routing = [r \in Replicas |-> "Waiting"]
    /\ write = [r \in Replicas |-> NoWrite]
    /\ late = {}
    /\ landed = [r \in Replicas |-> FALSE]
    /\ tenure = [r \in Replicas |-> "candidate"]
    /\ releasing = {}

-----------------------------------------------------------------------------
(* One slice write.  write_logged bounds it by WRITE_TIMEOUT; `target' is   *)
(* the replica to name, or nobody when withdrawing.                         *)

BeginWrite(r, target) ==
    write' = [write EXCEPT ![r] = [step |-> "get", target |-> target, version |-> 0,
                                   seen |-> NoHolder, until |-> now + WRITE_TIMEOUT]]

EndWrite(r) == write' = [write EXCEPT ![r] = NoWrite]

\* The write in flight when its caller gives up, while it can still land.
Abandoned(r) ==
    IF write[r].step = "put" /\ write[r].version = slice.version
    THEN {[version |-> write[r].version, names |-> write[r].target]}
    ELSE {}

\* The server replaces the version a write names, or creates an absent slice;
\* every other write in the network then conflicts.
ApplySlice(version, names) ==
    /\ slice.version < MaxSliceVersion
    /\ slice.version = version
    /\ slice' = [version |-> version + 1, names |-> names]
    /\ late' = {}

\* The server answers the read of the live slice.
ServeRead(r) ==
    /\ write[r].step = "get"
    /\ write' = [write EXCEPT ![r] = [@ EXCEPT !.step = "got", !.version = slice.version, !.seen = slice.names]]
    /\ UNCHANGED <<leaseAndTenure, slice, routing, late, landed>>

\* What the live slice leaves to write: a route it does not carry yet, or a
\* withdrawal of one that still names this replica.
MustWrite(r) == (write[r].target = r) = (write[r].seen # r)

\* The answer is in: the write is sent, unless the timeout fired first.
SendWrite(r) ==
    /\ write[r].step = "got" /\ MustWrite(r)
    /\ now < write[r].until
    /\ write' = [write EXCEPT ![r].step = "put"]
    /\ UNCHANGED <<leaseAndTenure, slice, routing, late, landed>>

\* The answer is in and the slice is already right.
NothingToWrite(r) ==
    /\ write[r].step = "got" /\ ~MustWrite(r)
    /\ EndWrite(r)
    /\ UNCHANGED <<leaseAndTenure, slice, routing, late, landed>>

\* The server accepts the write and the caller sees it.
AcceptWrite(r) ==
    /\ write[r].step = "put"
    /\ ApplySlice(write[r].version, write[r].target)
    /\ landed' = [landed EXCEPT ![r] = write[r].target = r /\ holder = r]
    /\ EndWrite(r)
    /\ UNCHANGED <<leaseAndTenure, routing>>

\* The write fails, conflicts or times out; it is logged and dropped.
WriteFails(r) ==
    /\ write[r].step # "none"
    /\ late' = late \cup Abandoned(r)
    /\ EndWrite(r)
    /\ UNCHANGED <<leaseAndTenure, slice, routing, landed>>

\* A write no caller waits for reaches the server.
ServeLate(w) ==
    /\ ApplySlice(w.version, w.names)
    /\ UNCHANGED <<leaseAndTenure, routing, write, landed>>

-----------------------------------------------------------------------------
(* route_when and withdraw.  The routing state is locked across each write, *)
(* so neither starts while one is under way.                                *)

\* Mutant of Route: the lease is not checked again before a recheck's write.
RouteUnchecked(r) ==
    /\ write[r].step = "none"
    /\ routing[r] = "Routed" \/ (routing[r] = "Waiting" /\ Holds(r))
    /\ routing' = [routing EXCEPT ![r] = "Routed"]
    /\ BeginWrite(r, r)
    /\ UNCHANGED <<leaseAndTenure, slice, late, landed>>

\* route_when, write_all: the first pass and every recheck begin only while the lease is held.
Route(r) ==
    /\ write[r].step = "none"
    /\ routing[r] \in {"Waiting", "Routed"}
    /\ Holds(r)
    /\ routing' = [routing EXCEPT ![r] = "Routed"]
    /\ BeginWrite(r, r)
    /\ UNCHANGED <<leaseAndTenure, slice, late, landed>>

\* withdraw: never routed to again; a slice that was routed is cleared.
Withdraw(r) ==
    /\ write[r].step = "none"
    /\ routing[r] # "Withdrawn"
    /\ routing' = [routing EXCEPT ![r] = "Withdrawn"]
    /\ landed' = [landed EXCEPT ![r] = FALSE]
    /\ IF routing[r] = "Routed" THEN BeginWrite(r, NoHolder) ELSE UNCHANGED write
    /\ UNCHANGED <<leaseAndTenure, slice, late>>

-----------------------------------------------------------------------------
(* The lease, under the replicas' stand-down. *)

\* A grant to another replica ends the tenure the landed writes and the release
\* under way belong to.
GrantRoute(r) ==
    /\ Grant(r)
    /\ landed' = [q \in Replicas |-> landed[q] /\ q = r]
    /\ releasing' = releasing \cap {r}
    /\ UNCHANGED <<slice, routing, write, late, tenure>>

\* A candidate's tenure begins; hold_until extends one only before its deadline.
Hold(r, t) ==
    /\ \/ tenure[r] = "candidate"
       \/ tenure[r] = "holding" /\ t < renewedAt[r] + RENEW_DEADLINE
    /\ Confirm(r, t)
    /\ tenure' = [tenure EXCEPT ![r] = "holding"]
    /\ releasing' = releasing \ {r}
    /\ UNCHANGED sliceVars

\* The lease is lost: only a restart leads back to candidacy.
Lose(r) ==
    /\ tenure[r] = "holding"
    /\ StopHolding(r)
    /\ tenure' = [tenure EXCEPT ![r] = "ended"]
    /\ UNCHANGED <<releasing, sliceVars>>

\* StandDown::begin withdraws the routes before anything that leads to a release.
\* When the identity main waits for appears, or serving fails, main's select drops the
\* stand-down future, whose trigger fires as it drops: the release starts with the
\* routes not withdrawn.
BeginRelease(r) ==
    /\ tenure[r] = "holding"
    /\ EndsAbruptly \/ (routing[r] = "Withdrawn" /\ write[r].step = "none")
    /\ StopHolding(r)
    /\ tenure' = [tenure EXCEPT ![r] = "ended"]
    /\ releasing' = releasing \cup {r}
    /\ UNCHANGED sliceVars

\* The release reaches the server, its process gone or not.
Release(r) ==
    /\ r \in releasing
    /\ GiveBack(r)
    /\ releasing' = releasing \ {r}
    /\ UNCHANGED <<tenure, sliceVars>>

\* The process ends and starts again: what it had under way is left to the network.
Restart(r) ==
    /\ StopHolding(r)
    /\ tenure' = [tenure EXCEPT ![r] = "candidate"]
    /\ routing' = [routing EXCEPT ![r] = "Waiting"]
    /\ late' = late \cup Abandoned(r)
    /\ EndWrite(r)
    /\ landed' = [landed EXCEPT ![r] = FALSE]
    /\ UNCHANGED <<slice, releasing>>

Lease(r) ==
    \/ GrantRoute(r)
    \/ \E t \in 0 .. now : Hold(r, t)
    \/ Lose(r) \/ BeginRelease(r) \/ Release(r) \/ Restart(r)

RouteNext ==
    \/ Tick /\ UNCHANGED <<tenureVars, sliceVars>>
    \/ \E w \in late : ServeLate(w)
    \/ \E r \in Replicas :
        \/ Lease(r)
        \/ Route(r) \/ Withdraw(r)
        \/ ServeRead(r) \/ SendWrite(r) \/ NothingToWrite(r) \/ AcceptWrite(r) \/ WriteFails(r)

RouteSpec == RouteInit /\ [][RouteNext]_vars

-----------------------------------------------------------------------------
(* Properties. *)

\* A holder whose routing write landed in this tenure stays the endpoint: no
\* write of an earlier holder, however late, lands over it.  Rests on the write
\* timeout fitting between the renewal deadline and the end of the term, and on
\* the resourceVersion each write names.
LandedRouteStands == \A r \in Replicas : landed[r] /\ Holds(r) => slice.names = r

\* holder_route.rs: "a holder that stalled past its lease never writes over a
\* successor's slice": once a holder has routed and its slice names it, no write
\* of another replica replaces it while it holds.
NeverOverSuccessor ==
    [][\A r, s \in Replicas :
        slice.names = s /\ Holds(s) /\ routing[s] = "Routed" /\ write[s].step = "none"
        /\ slice'.names = r => r = s]_vars

=============================================================================
