# Verification of grid

TLA+ models of grid, the control plane that joins inference sites into one
routable fleet: what its operators, gossip and gateways keep, what may happen
to them in any order, and what must stay true. Every module names the code it
models; `PROJECT.json` maps each definition to its lines.

## The system

A **site** is a Kubernetes cluster with inference providers. Its **operator**
(several replicas, one of them elected) watches the site's resources, gossips
the site's providers to its peers over SWIM, merges what peers gossip, and
renders a routing overlay. A **gateway** beside it loads the overlay and chooses
a provider per request. An **enrollment** service hands sites the certificates
they sign gossip with.

### Inventory

| Component | State | Operations | Hard behaviour | Correct when |
|---|---|---|---|---|
| Leader election (`operator/leader.rs`, `unelected.rs`) | the `Lease` object; per replica the last version seen, `Holding`, the call in progress | acquire, renew, release, lose | calls that time out and land later, restarts, stalls, unelected replicas that come and go during an upgrade | one replica acts as holder, and the `Lease` names it |
| Holder routing (`holder_route.rs`) | one EndpointSlice per Service; `Routing` per replica | route, recheck, withdraw | read-check-write against the lease clock, writes served late | peers reach the holder, never an earlier one |
| Process life cycle (`main.rs`, `shutdown.rs`) | triggers and barriers between writers, identity renewal, SWIM leave, release, drain | stand down, lose, restart for a new identity or mode | dropping a future fires its trigger; the order of release and withdrawal | nothing writes once the lease is released |
| Gossiped state and trust (`swim/state_broadcast.rs`, `node.rs`) | pins, enforced grids and their networks; retained providers with their owners, revision guards, metadata lanes, spend | receive a broadcast; pin, rotate, revoke, enforce, relax; evict, forget | duplicated, reordered, forged and future broadcasts; any order of trust changes; capacity | only state today's trust admits is retained; nothing older replays; a withdrawal withdraws |
| Model inventory (`swim/model_inventory.rs`, `operator/served_models.rs`) | the origin's discovered sets; a peer's frames under assembly, complete inventories, replay floors, blocks | discover, sign; receive a frame or provider state, prune, forget | frames and state in any order, replay while a signature is fresh, clocks apart, replaced providers | readers see the complete inventory of the advertised instance, and never an older one again |
| SWIM run loop (`operator/swim_runtime.rs`) | revision range, retained local state, pending withdrawals, tracked members, grid trust | publish, anti-entropy, withdraw, renew the range, prune members | renewal in flight, exhausted range, late membership events | no revision is used twice; a withdrawal is never followed by the withdrawn state |
| Revision leases (`operator/main.rs`) | a ConfigMap with two high-water marks | reserve, renew | lost answers, crashes, clock jumps, the peers' cap | ranges are disjoint and peers accept them |
| CRDT types (`crdt/`) | G-counter, LWW register, OR-set, grid snapshot | update, merge | any order and repetition of merges | merges converge |
| Membership (`peer_membership.rs`, `peer_ages.rs`) | when each peer was last heard, and its status | observe, age, evict | clock and event order | a live peer is not aged out |
| Readiness (`readiness.rs`) | probe results bound to a provider revision | record, verdict, thaw | a late result of an older revision | a verdict rests on this revision's probes |
| Signals (`operator/signals.rs`, `signals/`, `client/`) | published signals with revisions; a peer's last readings | publish, serve, poll, commit | retries, two poll generations, stale readings | readings only advance and expire |
| Controllers (`operator/controller/`) | desired and observed resources | reconcile | races with gossip and with the API | the overlay converges on the declared state |
| Overlay sync (`overlay-sync/`) | the file the gateway reads; observed, written and degraded status | restore, fetch, watch, validate, write | restart over an old file, failed writes, broken watches, deletion | the file is the last good overlay, and the status says when that is not the current one |
| Enrollment (`enrollment/`) | tokens, enrollments, key history, deleted names | mint, redeem, renew, revoke, delete, seed | concurrent transactions, lost answers, forks, replayed seeds | a token issues once, a key is never reused, a deleted name stays out, no older seed takes a record back |
| Operator enrollment (`operator/enroll/`) | pending key, identity Secret | enroll, store, renew, roll | a crash between any two writes, lost answers, requests served late | a refused invite is reported honestly, and a site's own retries never look like a fork |
| Gateway filters (`gateway/crates/ai-grid-filters`) | route snapshot, health, prefix index | reload, choose, drain | reload during requests, index at capacity | a request is sent to a candidate of one snapshot |
| Scoring, certs, wire encoding, dashboards, xtask | none, or presentation | | | not modelled |

### How the parts interact

The lease gates everything that writes: controllers, routing, enrollment
renewal and SWIM run only in the holder, and a replica that loses the lease
restarts to contend again. The `GridNetwork` controller drives the trust
operations of the gossip node; membership events drive eviction. Broadcasts
carry a revision from a range the operator reserved durably, and receivers
refuse one that is older or too far ahead. The snapshot that results feeds the
overlay, which the sidecar installs for the gateway. A provider's models travel
apart from its state, in frames signed with the site's identity, and meet the
provider's UID in the peer's snapshot. The identity comes from the enrollment
service: once from a token an admin minted, then by renewals over the identity
itself; reserved sites are seeded by bootstrap instead.

## Modules

| Module | What it is |
|---|---|
| `OperatorLease` | abstract: what the election promises the code under it |
| `LeaderElection` | the `Elector` over the Kubernetes `Lease` |
| `LeaderElectionProofs` | its invariants and the refinement, proved |
| `HolderRoute` | the holder's EndpointSlice, built on `OperatorLease` |
| `HolderRouteProofs` | that a landed route stands, proved |
| `GossipState` | what a node retains of its peers' broadcasts, and whom it trusts |
| `GossipStateProofs` | its trust invariants, capacity and guards, proved |
| `RevisionLease` | transport revisions and node generations across the processes of a site |
| `RevisionLeaseProofs` | its invariants, proved |
| `StatePublisher` | the controller and the run loop: publishing a network's state, and withdrawing it |
| `StatePublisherProofs` | its safety properties, proved |
| `EnrollmentStore` | the enrollment service: tokens, records and key history under concurrent transactions |
| `SiteIdentity` | a site's operator composed with `EnrollmentStore`: enrolling and renewing |
| `EnrollmentProofs` | the safety properties of both, proved |
| `OverlaySync` | the overlay sync sidecar and its file |
| `OverlaySyncProofs` | its safety properties, proved |
| `ModelInventory` | signed model inventories from the origin's discovery to a peer's readers |
| `ModelInventoryProofs` | its invariants, proved |
| `MC*` | the instances TLC checks |

### LeaderElection

A replica is an `Elector`. A candidate first asks its gate (`PassGate`), then
`attempt` is split in four: the get is sent
(`Contend`, `Renew`), the server answers (`ServeGet`), the replica reads its
clock and decides (`Create`, `Take`, `LeaveHeld`), the server accepts the put
(`AcceptPut`) and the answer is processed (`Renewed`). At any point the call may
fail or time out (`Fail`), the version may have moved (`Conflicted`), or the
process may end (`Restart`). A put abandoned that way becomes a member of
`strays` and may be served at any later time; once the version moves it can only
conflict, and is dropped from the set. `names_me` is a read of its own:
`StillNamed` and `Superseded`. `release` reads, then clears the holder
conditionally. `observed` and `renewedAt` are the fields of the same names.

The gate of `unelected.rs` lists the Deployment's pods, once before each attempt
to acquire and in a call of its own: `PassGate` is that list served, and an
unelected replica (`unelected`) may start at any time, also between the list and
the `Lease`'s write. A refused attempt, or a lost tenure, goes back to the gate.
A replica without a selector has no gate; `Gated` are the others. The proof is
for any `Gated`, the run for both replicas. `alone` is history: who had an
instant without an unelected replica since its last attempt ended.

`changedAt` is history: when the `Lease` was last written, on the common clock.

### HolderRoute

`write` is one run of `HolderRoutes::write`: the read is sent, served, answered
(`SendWrite`, `NothingToWrite`), and the conditional write accepted, refused or
given up. Two checks of the code are guards here: the lease before a write
begins, and the timeout before the write is sent. The `state` lock, held across
a write, is the guard that neither `Route` nor `Withdraw` begins during one. The
constant `EndsAbruptly` selects whether main may leave its select through the
`identified` or a failed `serving` branch, which releases before it withdraws.

### GossipState

`pin`, `sitePin`, `bound` and `held` are the `TrustStore`; `st` is
`RetainedOrigins` together with the snapshot published from it. `Admitted` is
`admission` and `verify_signature_if_pinned`; each clause of the match is an
operator. `Deliver` is `receive_state_broadcast` with its four ways out.
`RemoveGrid`, `RemoveOrigin` and `ForgetDeparted` are the three purges, and each
control operation of `SwimNode` is an action that contains the purge it calls.
The signature is abstracted to the key that made it. The signer kept in an owner
is history, for the property that says which keys admitted what is retained.

A cap on revisions (`max_leased_revision`) moves with the clock. Metadata lanes
have their own guards; certificates are dated in nanoseconds in the code and
share the cap here, which keeps the same comparisons.

### RevisionLease

`cm` is the ConfigMap with its resourceVersion and two marks. `call` is one
`cas_revision_lease`, of a start (`mode` "reserving") or of the renewal task:
`PlanReservation` and `PlanRenewal` are the read and the plan, `AcceptWrite` the
server's side; conflicts, errors, lost answers and writes served late are
actions of their own. `next`, `last` and `backoff` are the `RevisionClock`, `gen`
and `genLast` the `NodeId`'s range. `Millis` and `Nanos` are arbitrary readings,
so that clocks differ and jump. `taken`, `usedGens` and `reseeded` are history.
Reseeding gives uniqueness up on purpose: a mark past every peer's cap is
replaced by one at the clock, because peers refuse anything above it.
`NeverReused` and `OwnRevisionsIncrease` say what holds otherwise.

### StatePublisher

One `GridNetwork`, from its finalizer to its deletion. The controller's actions
are the reconcile (`AddFinalizer`, `Reconcile`) and the deletion
(`RequestWithdrawal`, `Timeout`, `Finish`, `FinishWithoutSwim`); the run loop's are the arms of its
`select!` that touch provider state: `ApplyTrust`, `TakeBroadcast` (with its four
ways out), `TakeWithdrawal`, `Tick`. Between them are the three channels. The
loop's maps are keyed by grid ID, so the model keeps one entry of each; `others`
and `held` are what the site's other networks do to this one. A request in the
channel, and a pending withdrawal, carry whether their waiter still listens.

The broadcast channel is bounded in the code and drops a state when it is full;
trust updates have no bound, and past `UpdateCap` a new one takes the last one's
place. Whether a step finds a revision is free (`RevisionLease`).

`swim` says whether the controllers were given the runtime. A process starts
without it: `start_swim` runs beside the controllers, may fail, and then leaves
them without it for good; nothing in the model says that it ever succeeds. Until
it has, a reconcile adds no finalizer and sends nothing, and a deletion removes
the finalizer at once (`FinishWithoutSwim`). So `GoneMeansWithdrawn` is about a
deletion that a process with SWIM completes, and `StatePublished` about networks
of such a process.

Left out: the lag of the controller's cache, a network without a grid ID, a
reconcile that found no runtime and is still going on when SWIM has started, and
broadcasts of addresses and certificates, which are not retained.

### EnrollmentStore

The variables are the tables. A transaction that runs several statements under
READ COMMITTED is split where another can step in: a mint between its check and
its insert (`MintCheck`, `MintCommit`, under the per-name advisory lock), a
redemption between consuming the token, signing and inserting, and the rest
(`Consume`, `SignAndInsert`, `CommitEnroll`). What the open transaction has
written is the request's `stage`: the row lock on the token is `Locked`, the
unique index on the name is `InsertPending`. Statements that end the transaction
together, or that work under one row lock, are one step: `Renew` with
`Decide`, `Revoke`, `DeleteEnrollment`, `SeedReserved` with `SeedDecision`. Every
request may end at any point (`Finish`), which rolls it back or loses its
answer. Any party may present any token, and any certificate ever issued.
`certs` is history.

Bootstrap issues an identity and writes its Secret (`IssueIdentity`), then signs a
seed for it (`EnsureSeed`); a run that ends in between leaves the identity
unseeded. Any later run may sign a seed for the identity it finds, which may be
the first, a renewed one or one put back, whatever the database holds and
whatever was seeded before, because the seed Secret may be gone. The service may
mount and apply any seed ever signed, at any time (the lifecycle test does both:
`reseed_kept`, `replay_seed`). Generations only
grow, as they do while bootstrap's clock does not go back behind a seed Secret
that was lost.

`RecordsMoveForward` is what the generation check leaves under all that: a name
comes to hold a key never enrolled, or one of its own that a seed newer than any
the record took names. The stronger claim of the code's comment does not hold
(known disagreements).

### SiteIdentity

`kept` is the Secret with the pending enrollment, `identity` the identity Secret
with the key of a pending renewal; `op` is where the running attempt is, and
what it read. `EnrollStart`, `EnrollSend`, `EnrollIssued` / `EnrollRefused`,
`StoreIdentity`, `Present` are the steps of `enroll`; `RenewStart` to
`RenewRefused` those of `renew`. A request is lost before it arrives (the slot
`Nil`), or its answer is; an attempt is cut short at any step (`Interrupt`)
while its request goes on in the service, or the process ends (`Crash`), both as
often as one likes. The admin mints, hands over and deletes; the identity Secret
may be deleted, and the site then enrolls again with a new invite.

Two assumptions of timing are in `Quiet`: a leaf comes due, and an admin deletes
an enrollment, only after the requests of the last attempt were cut off
(`REQUEST_TIMEOUT` is seconds, a leaf's life weeks). Not included: a leaf that
expires, a database restored behind the certificates it issued (`RecordBehind`
is there in `Decide`, and unreached), and a second operator, which the lease
excludes.

### OverlaySync

An overlay is its content revision. `source` is the ConfigMap and `events` what
an open watch has not delivered; a new watch lists first, so a delete that
happened while disconnected is not seen (as in the code). `once` is the init
container, which runs until it has an overlay. A write is taken by its steps:
the temporary file torn, whole, renamed, recorded; it may fail at any of them
and the process may end between them. A failed write is not tried again before
the next event or watch, and the status is degraded until then. A temporary file
a crash leaves behind is never read (nor removed, which nothing here depends
on). `seen`, what the API last showed this process, is history.

### ModelInventory

One provider of one origin, in successive instances (UIDs), and one peer.
`Discover` and `SignFrames` are the origin's rounds, `Advertise` its state
broadcasts; a signing in `wire` stands for its frames, each of which may be
received any number of times in any order while `Fresh`. `Push` is
`ModelInventoryAssembler::push` with its outcomes; `Pruned`, `Blocked`,
`Completed` and `Withdrawn` what it and its neighbours do to the assembler.
Frames are positions, since the signed digest makes a complete list the one that
was signed. The two clocks differ by `ahead`.

Revisions strictly increase here; in the code they are seeded from the wall clock
at a restart. State broadcasts are accepted at any age (their freshness check
would only remove behaviours). Malformed frames, the byte limit on names and a
rotation of the origin's key are left out. A limit passed blocks the origin for
age plus skew, and with honest traffic that can happen when frames of a new
instance, or of many large providers, interleave before the old ones are
withdrawn; the inventories come back with the next round.

## What is checked

| Run | Instance | Shows |
|---|---|---|
| `leader_election` | 2 replicas, term 3, deadline 2, clock to 5, 3 writes | type, holder named, one holder, the gate asked anew for every tenure, terms, refinement |
| `holder_route` | 2 replicas, term 3, deadline 2, write timeout 1, clock to 5, 2 slice versions | a landed route stands under orderly stand-downs |
| `gossip_trust` | 1 site, 2 grids, 2 networks, 2 keys, 2 revisions, 2 scopes | only verified state; enforced state is trusted |
| `gossip_capacity` | 2 sites, 1 place, 1 key, 2 revisions of which 1 is past the cap at first, 2 lanes | shape, own providers, capacity, pinned survive, guards, spend |
| `revision_lease` | 2 processes, 2 clock readings, ranges of 2, skew 1, 2 attempts, 3 writes | marks, revisions and generations unique and persisted before use, own revisions increase |
| `state_publisher` | 2 provider states, trust off or with a signer, another network open or strict, channels of 1, 1 and 2, restarts at any time, SWIM started late or never | a deletion completed with SWIM is withdrawn first, silence while pending, newest trust, and both liveness properties |
| `enrollment_store` | 2 tokens, a free and a reserved name, 3 keys, 2 mints and 2 requests at once, 3 seeds | a token issues once, a name has one usable token, keys are not reused, deleted names stay out, records move forward but for a newer seed |
| `site_identity` | 2 tokens, one site, 5 keys and one an invite binds to, 2 requests at once, 2 renewals, 1 lost identity | the site never freezes itself, a rejection is honest, a due identity is renewed |
| `overlay_sync` | 3 valid overlays, 1 rejected, 3 waiting events | the last good file is served, its staleness is reported, and a settled source arrives |
| `model_inventory` | 2 instances, 2 inventories of 2 models, 3 states, clocks equal or 1 apart, age 1, skew 1, 3 names and 2 frames in progress allowed | readers see what is advertised, and never an older inventory |
| `withdrawal_last_word` | 1 provider state, trust off | **violated**: see findings |
| `deletion_stuck` | the same, fair | **violated**: see findings |

**Bounds.** Two replicas are enough for every race of the election and of the
routing, which are between a holder and one candidate; the clock is long enough
for the term to pass, a takeover, and the first holder's late write, and for
routing for the lease to come back to the first holder. Three lease versions
allow create, takeover and a write over it. In the gossip runs one site meets all
trust sequences (grids, keys and networks in pairs, so that each change has
something to change to), and two sites compete for one place; two revisions give
older, equal and newer, and a cap between them gives one too far ahead. The
clock, versions and cap are capped by `MaxTime`, `MaxVersion`,
`MaxSliceVersion` and `LastCap`. For revision leases two processes meet at a
hand-over; the range is small and the skew smaller still (in the code 256
revisions and 600 s), so that a range runs out, is renewed and is reseeded within
three writes. For the publisher, two provider states give new, changed and
repeated state; a channel of one is empty, full, or holds what the other channel
overtakes. A grid enforced without a signer is left out of that run, where it
only blocks publication (as `held` and a strict neighbour do), and is covered by
the proofs. In the enrollment store two tokens and two requests give every pair
of transactions over a token, a name or a key; three keys allow a rotation and a
key to come back; three seeds give an older and a newer one and one for a kept
identity, and three keys let two renewals overtake one of them, with the clock
left to the site's run. There two renewals and a deletion
with re-enrollment use five keys. For overlays, three valid ones give the written, the pending and a next,
and three waiting events an overlay that comes back after another. For
inventories the clock covers age plus skew, the time a completed one must be
remembered because an older signature is still fresh; three states advertise,
withdraw and advertise again; the limits are low enough for two half-assembled
inventories, or two complete ones, to pass them. With `MaxClock = 3`, `Ttl = 3`
and the origin ahead, floors are pruned while older inventories have not expired;
both properties hold there too (1.9 million states), but the run is too long to be
kept. Symmetry
is over replicas, over processes, over tokens, keys, requests and mints, and over
keys, networks and grids or over sites, and is not used where liveness is
checked.

**Fairness.** Three modules assume some.

`StatePublisher` (`FairSpec`): reconciles recur and the loop serves each ready
channel, since `select!` chooses at random: weak fairness of those actions. A
tick with a revision recurs: a range has 256 revisions, and a renewal that failed
is tried again. Strong fairness of `Acknowledge` says that a waiter is told now
and then before it gives up (it waits 5 s, the tick is 1 s), and of
`Finish(TRUE)` and `FinishWithoutSwim` that a patch succeeds now and then.
`StartSwim` is not fair: SWIM may fail to start in every process. Restarts, edits, timeouts and
other networks are not fair. Both liveness properties are conditional on
publication not staying blocked; when it does is finding 2.

`SiteIdentity`: the operator's polls and rounds go on (weak fairness of
`Present`, `RenewStart` and `GiveUp`), a request in service is served, or ended
by its timeout once nobody awaits it, and not every request and answer is lost
(strong fairness of `RenewSend` to a slot, `ServeStep` and `RenewIssued`).
`DueIsRenewed` is conditional on attempts not being cut short for ever.

`OverlaySync`: the kubelet restarts the process and the process goes on (weak
fairness of `Sidecar`), and a GET is answered now and then (strong fairness of
`Fetch`). Broken watches and failed writes may recur for ever, and
`SettlesOrSaysSo` is conditional only on the source settling and crashes ending.

### Findings

1. `withdrawal_last_word`. A state is discarded while its grid's withdrawal is
   pending. When `select!` serves the withdrawal before a state already queued,
   the withdrawal is published and no longer pending, and the state is then
   published above it, retained, and republished every 30 s for a network that is
   gone, against `swim_runtime.rs:1389` and `grid_network.rs:2218`.
2. `deletion_stuck`. The run loop starts with state admission held, and only a
   trust update opens it. A reconcile sends one only for a network that is not
   being deleted, so a process that starts with its only network already deleted
   can never publish the withdrawal, and the finalizer stays, against
   `swim_runtime.rs:869-871`. Any other live network opens admission; the
   withdrawal of a grid that enforced signatures then goes out unsigned, which
   `docs/architecture/signed-gossip-trust.md:82-86` does not foresee.

### Known disagreements

Six more places where the code does not do what its comments or docs say. They
have no run of their own; each can be had by the change named.

- `holder_route.rs:99-100` says a stalled holder "never writes over a successor's
  slice". A replica that takes the lease back and finds its slice already naming
  it writes nothing, so the slice keeps its version, and a write of the holder in
  between, delayed in the network, lands over it. The next recheck (10 s)
  repairs it. (`NeverOverSuccessor` as the invariant of `MCHolderRoute.cfg`,
  with `MaxTime = 6`.)
- When main leaves its select through `identified` or a failed `serving`, the
  stand-down future is dropped, its trigger fires as it drops, and the lease is
  released before the routes are withdrawn. A slice write under way then lands
  over the successor's slice, against `holder_route.rs:155-156` and the comment
  at `main.rs:379`. (`EndsAbruptly = TRUE` in `MCHolderRoute.cfg`.)
- An authoritative empty broadcast should withdraw every provider of its scope
  (`state_broadcast.rs:531-532`). `remove_grid` clears a scope's networks when the
  scope's latest broadcast was unverified, but keeps providers whose own
  broadcast was verified; the networks to replace are then unknown and the
  provider stays. (`AuthoritativeReplaces` as the property of `GossipTrust.cfg`.)
- `unelected.rs:1-4` says that the gate keeps a rollout from running an unelected
  replica beside the new holder. The pod list and the `Lease`'s write are separate
  calls and a renewal asks no gate, so an unelected replica that starts after the
  list (a rollback, an older ReplicaSet scaled up) does run beside it. What holds
  is `GateIsAskedAnew`. (`unelected => \A r \in Gated : phase[r] # "hold"` as an
  invariant of `MCLeaderElection.cfg`.)
- `docs/architecture/signed-gossip-trust.md:82-86` says the finalizer stays "until
  the runtime can publish the signed empty state". `reconcile_deleting_grid_network`
  removes it at once when the runtime is not there (`grid_network.rs:2204-2208`, which
  logs that SWIM is disabled): also when SWIM was enabled and is still starting
  after a restart, or failed to start (`main.rs:1016-1040`). Peers then keep what the
  previous process published. (`GoneMeansWithdrawn` without its first conjunct
  `swim`, in `MCStatePublisher.cfg`.)
- `store/renewal.rs:197` says "A seed resets only to a key the record never held".
  `seed_decision` compares the seed with the current and the previous key. A seed
  signed for the kept identity and applied after two renewals, or the newer of two
  seeds for identities the record already moved through, resets it to a key it
  held before. The key's holder must be a site bootstrap vouched for again, and an
  older seed never does it. (`MovesForward` without its last disjunct, in
  `MCEnrollmentStore.cfg`.)

## What is proved

Every safety property of every passing run, for any number of replicas, sites,
grids, keys, tokens, requests and broadcasts, from the assumptions named in the
modules: the deadline is no longer than the term and a routing write fits between
them (`DurationsAssumption`, `WriteFitsTerm`), the model values are distinct
(`ReplicasAssumption`, `HolderAssumption`, `AbsentValues`, `ContentsAssumption`,
`NilAssumption`, `RecordsAssumption`, `SecretsAssumption`), the broadcasts are
well-typed (`BroadcastsAssumption`), clocks are after the epoch and a range has at
least two revisions (`ClocksAssumption`, `SizesAssumption`), reserved names are
names and the site's is none of them (`NamesAssumption`, `SiteAssumption`),
policies, limits and bounds have their types (`PoliciesAssumption`,
`CapsAssumption`, `BoundsAssumption`, `StoreBoundsAssumption`,
`InventoryAssumption`), and "no overlay" is none and is no write
(`OverlayAssumption`, `EventsAssumption`).

**LeaderElectionProofs**: `TypeCorrect`, `HolderNamed`, `MutualExclusion`,
`GateHolds`, `TermsAreHonoured` and `Refinement`. The inductive invariant `IInv`
adds to the type: clock readings and versions are never ahead (`PastOnly`); a
version still current was first seen no earlier than it was written, but by its
writer (`SeenInTime`); what each call in progress knows as long as its version is
current (`CallOK`), a tenure that is the `Lease`'s or already a full term old
(`HoldingOK`), and what a stray write may still do (`StrayOK`). The point is
that a put still able to land satisfies `MayTake` at every moment until it does,
since `changedAt` moves only with the version. `TermsAreHonoured` and
`Refinement` follow step by step from `IInv`. `GateHolds` has a part of its own
(`GateOK`): a candidate past its gate, at whatever step of the attempt, had its
instant alone, which every way out of the attempt takes back.

**GossipStateProofs**: `TypeCorrect`, `VerifiedOnly`, `EnforcementHolds` and
`NoImpersonation`. Their conjunction with the shape of the state is inductive,
and none is alone: that a purge by origin reaches a provider needs
`SitesSpeakForThemselves`; that a rotation leaves nothing of a dropped key needs
the owner to have been signed by a key pinned before. `Sound(s)` states it of a
candidate state, each operation on the retained state is shown to preserve it,
and each change of trust to restore it by what it purges.

`CapacityBound`, `PressureSparesPinned`, `NothingOlderReplays` and `SpendOnlyGrows`
are proved operation by operation from there. Capacity is an invariant of the
candidate state too: an origin is new only after `make_room_for` freed a place, a
scope only after `has_room_for_scope`, and a purge only takes away. A guard may
vanish with the origin it belongs to; what is shown is that one that stays does
not move back below the cap.

**HolderRouteProofs**: `RouteStands`, for orderly stand-downs (`~EndsAbruptly`; with
abrupt ones it is false, see above). The inductive invariant has a replica's
tenure stand for the lease's grant or be past its term (`Tenured`), a routing
write not sent yet belong to the grantee or be past its timeout (`InTime`), and
once a route landed, every write another replica has sent name an older version
of the slice (`Standing`), which the server refuses.

**RevisionLeaseProofs**: `TypeCorrect`, `Uniqueness`, `GenerationUniqueness`,
`Persistence` and `Monotonicity`. A write that can still land, in a call or
stray, was planned from the marks as they are now (`WriteOK`, `StraysOK`), so
landing it moves the generation mark past all that was handed out, and the
revision mark too unless the range was reseeded. Hence what a process holds or
has used lies below the marks and is held once (`RevisionsOK` until a range is
reseeded, `GenerationsOK` always).

**StatePublisherProofs**: `TypeCorrect`, `PendingSilence`, `FreshlySigned` and
`Finalization`. Silence rests on one fact of the type: nothing is retained
while a withdrawal is pending. `Finalization` needs `WaitersOK`: over timeouts
and retries at most one waiter still listens, in the channel or among the
pending, and only while the reconcile waits, so that no old request is
acknowledged to a later deletion; and a reconcile waits only in a process that has
SWIM.

**OverlaySyncProofs**: `TypeCorrect`, `LastGood` and `Currency`. Neither property
is inductive: that the file is whole after a rename rests on the temporary file
having been whole before it, and that a recorded write makes the file current on
the write being of the overlay last shown (`WriteOK`, by the step of the write).

**ModelInventoryProofs**: `InventoryInvariant`, `ReadersSeeAdvertised` and
`InventoriesNeverRevert`. `NeverReverts` rests on time: a revision is signed only
while it is the newest, so an older one was signed no later than the newer
(`Ordered`); the floor of a completed revision, or the block that dropped it, is
up until every older signing is past its age (`FloorsLast`, `Covered`). Age plus
skew is exactly what that takes when the origin's clock is ahead.

**EnrollmentProofs**, the service: `StoreInvariant`, `StoreTypeCorrect`,
`TokensIssueOnce`, `NoKeyReuse`, `DeletedNamesStayOut`, `OneUsableToken` and
`RecordsOnlyMoveForward`. The inductive invariant says what each open transaction
knows: a mint's row and name are its own (`MintsOK`); a consumed token is live
and held by one request, an inserted name is free and inserted by one
(`RedemptionsOK`); a record's token is spent and its keys are in the history
(`RecordsOK`), as is every certified key but a seeded one (`CertsOK`); a seed's key
is certified for its name (`SeedsOK`). `seed_reserved` does not look at
`record_key`'s answer, so that a seed takes over no other name's key, and registers
only a new one, rests on `HistoryOK`: the history knows a certified key by the
certificate's own name, and no key of a reserved name that has no record, since
such a record is never deleted. That a reset is by a newer seed is the decision's.

**EnrollmentProofs**, the site: `SiteInvariant`, `SiteTypeCorrect`,
`SiteNeverFreezesItself` and `RejectionsAreHonest`. The composition keeps the
service's invariant, step by step, and adds `SInv`. That the site never looks like a
fork is `NoFork`: every leaf in a request in service, in the running attempt or in
the Secret is the record's, or the one before it with the record's key as the key
asked for, or older than the record (`Follows`). It is inductive only with
`OneRenewal`: all renewals in service present one leaf for one key, the key that is
stored beside the leaf, since it was stored before the first was sent. That a
rejection is honest is `Honest`: as long as the kept request is not marked
unanswered, no certificate was issued for it and none of its requests still in
service can get one, because its token is dead, its key was used, or the name is
held (`Hopeless`); the mark is stored before the request leaves.

**Only model-checked**: the liveness properties `DeletionCompletes`,
`StatePublished`, `DueIsRenewed` and `SettlesOrSaysSo`. Liveness under fairness,
`ENABLED`, induction over data and recursive operators are outside the prover and
stay with TLC.

## Plan

Done, with every safety property proved: `LeaderElection`, `HolderRoute`,
`GossipState`, `RevisionLease`, `StatePublisher`, `EnrollmentStore`, `SiteIdentity`,
`OverlaySync`, `ModelInventory`.

Next, in this order:

1. That `HolderRoute`'s use of `OperatorLease` is the election's, proved as one
   composition.
2. `StatePublisher` composed with `GossipState` at a peer: the peer converges on
   what is published last (liveness under fair delivery).
3. `MemberTracking`: identities, events out of order, pruning and eviction.
4. `StandDown`: writers, renewal, leave, release and drain in `main.rs`; refines
   the order `HolderRoute` assumes.
5. `Crdt`: merge laws of the counter, register and OR-set.
6. Readiness; signals and the poller's hand-over; the gateway's reload, choice and
   prefix index.

## Not modelled

Wire encodings, cryptography, certificates, scoring (floating point), metrics
and logs, rendering of Kubernetes resources, dashboards, demos and build tasks.
They are most of the repository: the environments and qualification harnesses of
`xtask`, the resource renderers and the tests inside each file carry no protocol
state, so the share of lines the map covers stays small by design. Of the parts
with protocol state, the plan lists what is left. Also left out: expired leaves, a
restored enrollment database, the bootstrap's creation of Secrets across
clusters, and two operators of one site at once.

Kubernetes, the network and the clock are modelled from how the code uses them:
an API server that applies conditional writes atomically and may serve a request
after its caller gave up, and a gossip network that delivers anything ever sent,
in any order, any number of times.
