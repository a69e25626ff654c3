---------------------------- MODULE RevisionLease ----------------------------
(***************************************************************************)
(* Transport revisions and node generations (crates/operator/src/main.rs,  *)
(* swim_runtime.rs, crates/swim/src/identity.rs).  A peer keeps of each    *)
(* site only what carries a newer revision, so a process must never speak  *)
(* under a revision an earlier process of its site already used.  Ranges   *)
(* are reserved by compare-and-swap on a ConfigMap that holds two          *)
(* high-water marks; a RevisionClock hands a range out and has the next    *)
(* one reserved in the background.                                         *)
(*                                                                         *)
(* The processes are the operator processes of one site, two of which may  *)
(* run at once around a hand-over.  A call to the API server is split      *)
(* where another process can step in: read and plan, written, answered.  A *)
(* write whose caller gave up may be served at any later time.  Wall       *)
(* clocks are arbitrary: processes on different nodes disagree, and a      *)
(* clock may be set back between two readings.                             *)
(***************************************************************************)
EXTENDS Integers, FiniteSets

CONSTANTS
    Procs,          \* operator processes of the site
    Millis,         \* readings of unix_millis
    Nanos,          \* readings of unix_nanos, the seeds of generations
    Size,           \* REVISION_LEASE_SIZE
    Skew,           \* MAX_LEASE_SKEW in milliseconds
    GenerationSize, \* NODE_GENERATION_LEASE_SIZE
    MaxGeneration,  \* u64::MAX, for the generations' checked additions
    Attempts,       \* REVISION_RESERVATION_ATTEMPTS
    MaxVersion      \* bound on the writes to the ConfigMap

\* Clocks are after the epoch.  Revisions stay within Size + Skew of a clock
\* reading, far from u64::MAX, so their additions never saturate.
ASSUME ClocksAssumption == Millis \subseteq Nat \ {0} /\ Nanos \subseteq Nat \ {0}

ASSUME SizesAssumption ==
    /\ Size \in Nat \ {0, 1}
    /\ Skew \in Nat
    /\ GenerationSize \in Nat \ {0}
    /\ MaxGeneration \in Nat

ASSUME BoundsAssumption == Attempts \in Nat \ {0} /\ MaxVersion \in Nat

VARIABLES
    cm,       \* the ConfigMap: its resourceVersion (0: absent) and its two marks
    mode,     \* "down", "reserving" its first range, or "up"
    call,     \* each process's cas_revision_lease: a reservation, or a renewal task
    next,     \* RevisionClock::next
    last,     \* RevisionClock::last
    backoff,  \* RevisionClock::retry_at lies ahead
    gen,      \* NodeId::generation
    genLast,  \* NodeId::generation_limit
    strays,   \* writes in the network that no caller waits for
    taken,    \* history: revisions handed out by any process
    usedGens, \* history: generations used by any process
    reseeded  \* history: a range reseeded at the clock was persisted

vars == <<cm, mode, call, next, last, backoff, gen, genLast, strays, taken, usedGens, reseeded>>

\* RevisionLease, and whether it was reseeded (history).
Leases == [first : Nat, last : Nat, gFirst : Nat, gLast : Nat, reseed : BOOLEAN]

NoLease == [first |-> 0, last |-> 0, gFirst |-> 0, gLast |-> 0, reseed |-> FALSE]

Writes == [base : Nat, lease : Leases]

\* read sent, write sent, write accepted; then what the oneshot carries.
Steps == {"idle", "read", "write", "won", "done", "failed"}

Call(step, attempt) == [step |-> step, attempt |-> attempt, base |-> 0, lease |-> NoLease]

Idle == Call("idle", 0)

\* A RevisionClock stops one past its range, and a NodeId within its own.
TypeOK ==
    /\ cm \in [version : Nat, rev : Nat, gen : Nat]
    /\ mode \in [Procs -> {"down", "reserving", "up"}]
    /\ call \in [Procs -> [step : Steps, attempt : Nat, base : Nat, lease : Leases]]
    /\ next \in [Procs -> Nat]
    /\ last \in [Procs -> Nat]
    /\ backoff \in [Procs -> BOOLEAN]
    /\ gen \in [Procs -> Nat]
    /\ genLast \in [Procs -> Nat]
    /\ strays \subseteq Writes
    /\ taken \subseteq Nat
    /\ usedGens \subseteq Nat
    /\ reseeded \in BOOLEAN
    /\ \A p \in Procs : next[p] <= last[p] + 1 /\ gen[p] <= genLast[p]

Init ==
    /\ cm = [version |-> 0, rev |-> 0, gen |-> 0]
    /\ mode = [p \in Procs |-> "down"]
    /\ call = [p \in Procs |-> Idle]
    /\ next = [p \in Procs |-> 1]
    /\ last = [p \in Procs |-> 0]
    /\ backoff = [p \in Procs |-> FALSE]
    /\ gen = [p \in Procs |-> 0]
    /\ genLast = [p \in Procs |-> 0]
    /\ strays = {}
    /\ taken = {}
    /\ usedGens = {}
    /\ reseeded = FALSE

-----------------------------------------------------------------------------
(* What a lease is planned from. *)

Larger(a, b) == IF a > b THEN a ELSE b

\* max_leased_revision: the highest revision a peer accepts.
MaxLeased(now) == now + Size + Skew

Unseeded(high, now) == Larger(high + 1, now)

\* The lease would pass the peers' cap.
PastCap(high, now) == Unseeded(high, now) + Size - 1 > MaxLeased(now)

NextRevisionStart(high, now) == IF PastCap(high, now) THEN now ELSE Unseeded(high, now)

RevisionRange(first, gFirst, gLast, reseed) ==
    [first |-> first, last |-> first + Size - 1, gFirst |-> gFirst, gLast |-> gLast, reseed |-> reseed]

\* lease_from_seeds
FromSeeds(first, generation, reseed) == RevisionRange(first, generation, generation + GenerationSize - 1, reseed)

\* Mutant of Reserved: a stored generation is followed by the clock, set back or not.
ReservedAtClock(now, nanos) ==
    IF cm.version = 0 THEN FromSeeds(now, nanos, FALSE)
    ELSE FromSeeds(NextRevisionStart(cm.rev, now), nanos, PastCap(cm.rev, now))

\* initial_revision_lease, next_revision_lease
Reserved(now, nanos) ==
    IF cm.version = 0 THEN FromSeeds(now, nanos, FALSE)
    ELSE FromSeeds(NextRevisionStart(cm.rev, now), Larger(cm.gen + 1, nanos), PastCap(cm.rev, now))

\* Mutant of Renewed: the process's own range is left to the mark alone.
RenewedFromMark(p, now) ==
    LET high == IF cm.version = 0 THEN last[p] ELSE cm.rev
    IN  RevisionRange(NextRevisionStart(high, now), cm.gen, cm.gen, PastCap(high, now))

\* The plan of revision_renewer: past the mark and the process's own `last',
\* keeping the generation mark (an absent ConfigMap counts as generation 0).
Renewed(p, now) ==
    LET high == IF cm.version = 0 THEN last[p] ELSE Larger(cm.rev, last[p])
    IN  RevisionRange(NextRevisionStart(high, now), cm.gen, cm.gen, PastCap(high, now))

-----------------------------------------------------------------------------
(* cas_revision_lease *)

\* The write in flight when its caller gives up stays in the network while it can land.
Abandoned(p) ==
    IF call[p].step = "write" /\ call[p].base = cm.version
    THEN {[base |-> call[p].base, lease |-> call[p].lease]} ELSE {}

\* Reserve before the SWIM runtime is configured.
Start(p) ==
    /\ mode[p] = "down"
    /\ mode' = [mode EXCEPT ![p] = "reserving"]
    /\ call' = [call EXCEPT ![p] = Call("read", 1)]
    /\ UNCHANGED <<cm, next, last, backoff, gen, genLast, strays, taken, usedGens, reseeded>>

\* The get is answered, the lease planned from what it carries, and the write sent.
Plan(p, lease) ==
    /\ call[p].step = "read"
    /\ call' = [call EXCEPT ![p] = [step |-> "write", attempt |-> @.attempt,
                                    base |-> cm.version, lease |-> lease]]
    /\ UNCHANGED <<cm, mode, next, last, backoff, gen, genLast, strays, taken, usedGens, reseeded>>

\* A plan that exhausts the generations is an error: see Fail.
PlanReservation(p) ==
    /\ mode[p] = "reserving"
    /\ \E now \in Millis, nanos \in Nanos :
          /\ Reserved(now, nanos).gLast <= MaxGeneration
          /\ Plan(p, Reserved(now, nanos))

PlanRenewal(p) ==
    /\ mode[p] = "up"
    /\ \E now \in Millis : Plan(p, Renewed(p, now))

\* Mutant of Apply: the write replaces whatever the ConfigMap holds.
ApplyBlind(base, lease) ==
    /\ cm.version < MaxVersion
    /\ cm' = [version |-> cm.version + 1, rev |-> lease.last, gen |-> lease.gLast]
    /\ strays' = {}
    /\ reseeded' = (reseeded \/ lease.reseed)

\* The server applies a create or a replace made against the version it holds;
\* every other write to that version can then only conflict.
Apply(base, lease) ==
    /\ base = cm.version
    /\ cm.version < MaxVersion
    /\ cm' = [version |-> cm.version + 1, rev |-> lease.last, gen |-> lease.gLast]
    /\ strays' = {}
    /\ reseeded' = (reseeded \/ lease.reseed)

AcceptWrite(p) ==
    /\ call[p].step = "write"
    /\ Apply(call[p].base, call[p].lease)
    /\ call' = [call EXCEPT ![p].step = "won"]
    /\ UNCHANGED <<mode, next, last, backoff, gen, genLast, taken, usedGens>>

ServeStray(w) ==
    /\ Apply(w.base, w.lease)
    /\ UNCHANGED <<mode, call, next, last, backoff, gen, genLast, taken, usedGens>>

\* A conflict is retried while attempts remain.
Conflict(p) ==
    /\ call[p].step = "write"
    /\ call[p].base # cm.version
    /\ call[p].attempt < Attempts
    /\ call' = [call EXCEPT ![p] = Call("read", @.attempt + 1)]
    /\ UNCHANGED <<cm, mode, next, last, backoff, gen, genLast, strays, taken, usedGens, reseeded>>

\* The process is gone, or never came up.
Gone(p) ==
    /\ mode' = [mode EXCEPT ![p] = "down"]
    /\ call' = [call EXCEPT ![p] = Idle]
    /\ next' = [next EXCEPT ![p] = 1]
    /\ last' = [last EXCEPT ![p] = 0]
    /\ backoff' = [backoff EXCEPT ![p] = FALSE]
    /\ gen' = [gen EXCEPT ![p] = 0]
    /\ genLast' = [genLast EXCEPT ![p] = 0]

\* A read, write or plan fails, its answer is lost, or the last attempt
\* conflicts: the startup ends, the renewal reports it.  A write that failed
\* for its caller may have been applied, or may yet be.
Fail(p) ==
    /\ call[p].step \in {"read", "write", "won"}
    /\ strays' = strays \cup Abandoned(p)
    /\ \/ /\ mode[p] = "reserving"
          /\ Gone(p)
       \/ /\ mode[p] = "up"
          /\ call' = [call EXCEPT ![p] = Call("failed", 0)]
          /\ UNCHANGED <<mode, next, last, backoff, gen, genLast>>
    /\ UNCHANGED <<cm, taken, usedGens, reseeded>>

\* The process ends, at any point.
Crash(p) ==
    /\ mode[p] # "down"
    /\ strays' = strays \cup Abandoned(p)
    /\ Gone(p)
    /\ UNCHANGED <<cm, taken, usedGens, reseeded>>

\* The reservation succeeded: a RevisionClock and a NodeId over the lease.
ComeUp(p) ==
    /\ mode[p] = "reserving"
    /\ call[p].step = "won"
    /\ LET lease == call[p].lease
       IN  /\ next' = [next EXCEPT ![p] = lease.first]
           /\ last' = [last EXCEPT ![p] = lease.last]
           /\ gen' = [gen EXCEPT ![p] = lease.gFirst]
           /\ genLast' = [genLast EXCEPT ![p] = lease.gLast]
           /\ usedGens' = usedGens \cup {lease.gFirst}
    /\ mode' = [mode EXCEPT ![p] = "up"]
    /\ call' = [call EXCEPT ![p] = Idle]
    /\ UNCHANGED <<cm, backoff, strays, taken, reseeded>>

\* The renewal task sends its range to the RevisionClock.
FinishRenewal(p) ==
    /\ mode[p] = "up"
    /\ call[p].step = "won"
    /\ call' = [call EXCEPT ![p].step = "done"]
    /\ UNCHANGED <<cm, mode, next, last, backoff, gen, genLast, strays, taken, usedGens, reseeded>>

-----------------------------------------------------------------------------
(* RevisionClock and NodeId *)

\* adopt_renewal: the range `take' continues from.
Adopts(p) == call[p].step = "done"

From(p) == IF Adopts(p) THEN call[p].lease.first ELSE next[p]

Until(p) == IF Adopts(p) THEN call[p].lease.last ELSE last[p]

Available(p) == From(p) <= Until(p)

\* Mutant of After: an exhausted range is counted on.
AfterAlways(p) == From(p) + 1

\* The next unused revision once this one is taken.
After(p) == IF Available(p) THEN From(p) + 1 ELSE From(p)

\* Mutant of Take: a renewed range stays in its channel once it was adopted.
TakeKeepingRenewal(p) ==
    /\ mode[p] = "up"
    /\ next' = [next EXCEPT ![p] = After(p)]
    /\ last' = [last EXCEPT ![p] = Until(p)]
    /\ taken' = IF Available(p) THEN taken \cup {From(p)} ELSE taken
    /\ LET idle == call[p].step \in {"idle", "failed"}
           waits == backoff[p] \/ call[p].step = "failed"
           renews == Until(p) - After(p) < Size \div 2 /\ idle /\ ~waits
       IN  /\ backoff' = [backoff EXCEPT ![p] = waits]
           /\ call' = [call EXCEPT ![p] = IF renews THEN Call("read", 1) ELSE IF idle THEN Idle ELSE @]
    /\ UNCHANGED <<cm, mode, gen, genLast, strays, usedGens, reseeded>>

\* take: adopt a finished renewal, hand out the next revision if there is one,
\* and past half the range start a renewal, unless one runs or the last failed
\* less than RENEWAL_RETRY ago.
Take(p) ==
    /\ mode[p] = "up"
    /\ next' = [next EXCEPT ![p] = After(p)]
    /\ last' = [last EXCEPT ![p] = Until(p)]
    /\ taken' = IF Available(p) THEN taken \cup {From(p)} ELSE taken
    /\ LET idle == call[p].step \in {"idle", "done", "failed"}
           waits == backoff[p] \/ call[p].step = "failed"
           renews == Until(p) - After(p) < Size \div 2 /\ idle /\ ~waits
       IN  /\ backoff' = [backoff EXCEPT ![p] = waits]
           /\ call' = [call EXCEPT ![p] = IF renews THEN Call("read", 1) ELSE IF idle THEN Idle ELSE @]
    /\ UNCHANGED <<cm, mode, gen, genLast, strays, usedGens, reseeded>>

\* RENEWAL_RETRY has passed.
RetryDue(p) ==
    /\ backoff[p]
    /\ backoff' = [backoff EXCEPT ![p] = FALSE]
    /\ UNCHANGED <<cm, mode, call, next, last, gen, genLast, strays, taken, usedGens, reseeded>>

\* NodeId::renew, when foca learns this node was declared down.
RenewIdentity(p) ==
    /\ mode[p] = "up"
    /\ gen[p] < genLast[p]
    /\ gen' = [gen EXCEPT ![p] = @ + 1]
    /\ usedGens' = usedGens \cup {gen[p] + 1}
    /\ UNCHANGED <<cm, mode, call, next, last, backoff, genLast, strays, taken, reseeded>>

Process(p) ==
    \/ Start(p) \/ PlanReservation(p) \/ PlanRenewal(p) \/ AcceptWrite(p) \/ Conflict(p)
    \/ Fail(p) \/ Crash(p) \/ ComeUp(p) \/ FinishRenewal(p)
    \/ Take(p) \/ RetryDue(p) \/ RenewIdentity(p)

Next ==
    \/ \E p \in Procs : Process(p)
    \/ \E w \in strays : ServeStray(w)

Spec == Init /\ [][Next]_vars

-----------------------------------------------------------------------------
(* Properties *)

\* The revision a process would publish under next was never used before, by
\* itself or by any other process of the site, dead or alive: reserving it
\* durably first survives crashes, lost answers and writes served late.  Only
\* reseeding at the clock, for a mark past the peers' cap, gives this up.
NeverReused ==
    ~reseeded => \A p \in Procs : mode[p] = "up" /\ Available(p) => From(p) \notin taken

\* A process that comes up, or that foca makes renew its identity, does so under
\* a generation no process of the site ever used, even across reseeded revisions
\* and clocks set back: a replacement is never mistaken for its predecessor.
GenerationsNeverShared ==
    \A p \in Procs :
        /\ mode[p] = "reserving" /\ call[p].step = "won" => call[p].lease.gFirst \notin usedGens
        /\ mode[p] = "up" /\ gen[p] < genLast[p] => gen[p] + 1 \notin usedGens

\* What is used lies below the marks the ConfigMap holds ("before any of it is
\* used", cas_revision_lease), so whoever reserves next starts above it.
PersistedBeforeUse ==
    /\ ~reseeded => \A r \in taken : r <= cm.rev
    /\ \A g \in usedGens : g <= cm.gen

\* A running process's revisions only increase, whatever other processes do to
\* the mark, unless its own renewal was reseeded at the clock: the renewer
\* starts past the process's own `last' too.
OwnRevisionsIncrease ==
    [][\A p \in Procs : mode[p] = "up" /\ mode'[p] = "up" /\ next'[p] < next[p]
                        => call[p].lease.reseed]_vars

-----------------------------------------------------------------------------
(* The inductive invariant of RevisionLeaseProofs. *)

\* The revisions of the ranges a process has been granted and may still hand out.
HeldNow(p) == IF mode[p] = "up" THEN next[p]..last[p] ELSE {}

HeldNext(p) == IF call[p].step \in {"won", "done"} THEN call[p].lease.first..call[p].lease.last ELSE {}

Held(p) == HeldNow(p) \cup HeldNext(p)

\* The generations a process may still use.
HeldGens(p) ==
    IF mode[p] = "up" THEN (gen[p] + 1)..genLast[p]
    ELSE IF call[p].step = "won" THEN call[p].lease.gFirst..call[p].lease.gLast ELSE {}

\* A lease on its way is a range past the process's own, unless it was reseeded.
LeaseOK(p) ==
    /\ mode[p] = "down" => call[p].step = "idle"
    /\ mode[p] = "reserving" => call[p].step \in {"read", "write", "won"}
    /\ call[p].step \in {"write", "won", "done"} =>
          /\ call[p].lease.first <= call[p].lease.last
          /\ mode[p] = "reserving" => call[p].lease.gFirst <= call[p].lease.gLast
          /\ mode[p] = "up" => call[p].lease.reseed \/ last[p] < call[p].lease.first

\* Before the ConfigMap exists there is no mark to pass.
MarksOK == cm.version = 0 => cm.rev = 0 /\ cm.gen = 0

\* A write that can still land goes past the marks it lands on.
Advances(lease) ==
    /\ lease.first <= lease.last
    /\ lease.reseed \/ cm.rev < lease.first
    /\ cm.gen <= lease.gLast

WriteOK(p) ==
    /\ call[p].base <= cm.version
    /\ call[p].step = "write" /\ call[p].base = cm.version =>
          /\ Advances(call[p].lease)
          /\ mode[p] = "reserving" => cm.gen < call[p].lease.gFirst

StraysOK == \A w \in strays : w.base = cm.version /\ Advances(w.lease)

\* Until a range is reseeded, what processes hold lies below the mark, was never
\* handed out, and is held once.
RevisionsOK ==
    ~reseeded =>
        /\ \A r \in taken : r <= cm.rev
        /\ \A p \in Procs : call[p].step \in {"won", "done"} => ~call[p].lease.reseed
        /\ \A p \in Procs : \A r \in Held(p) : r <= cm.rev /\ r \notin taken
        /\ \A p, q \in Procs : p # q => \A r \in Held(p) : r \notin Held(q)

GenerationsOK ==
    /\ \A g \in usedGens : g <= cm.gen
    /\ \A p \in Procs : \A g \in HeldGens(p) : g <= cm.gen /\ g \notin usedGens
    /\ \A p, q \in Procs : p # q => \A g \in HeldGens(p) : g \notin HeldGens(q)

IInv ==
    /\ TypeOK
    /\ MarksOK
    /\ \A p \in Procs : LeaseOK(p) /\ WriteOK(p)
    /\ StraysOK
    /\ RevisionsOK
    /\ GenerationsOK

=============================================================================
