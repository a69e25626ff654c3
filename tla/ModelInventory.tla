--------------------------- MODULE ModelInventory ---------------------------
(***************************************************************************)
(* Signed model inventories over gossip: one site discovers the models of  *)
(* a provider, signs them one per frame and gossips the frames apart from  *)
(* the provider state that names the provider's UID; a peer assembles them *)
(* and publishes them to its readers (crates/swim/src/model_inventory.rs,  *)
(* state_broadcast.rs, crates/operator/src/served_models.rs).              *)
(*                                                                         *)
(* Frames are lost, repeated, reordered and replayed for as long as their  *)
(* signature is fresh, state broadcasts for as long as the bounds last.    *)
(* The provider is deleted and made anew, the origin's clock is ahead of   *)
(* the peer's, and the peer forgets the origin and meets it again.  The    *)
(* names of an inventory are its frame positions, as its digest makes a    *)
(* complete list the one that was signed; the origin's key is pinned.      *)
(***************************************************************************)
EXTENDS Integers, Sequences, FiniteSets, FiniteSetsExt

CONSTANTS
    MaxUid,       \* bound on the instances of the provider
    Sizes,        \* how many models each inventory has
    MaxState,     \* bound on the state broadcasts sent
    MaxClock,     \* bound on the peer's clock
    Ahead,        \* how far the origin's clock may be ahead of the peer's
    Age,          \* MAX_BROADCAST_AGE_MS
    Skew,         \* MAX_CLOCK_SKEW_AHEAD_MS
    Ttl,          \* DiscoveryConfig::ttl
    InProgress,   \* MAX_IN_PROGRESS_FRAMES_PER_ORIGIN
    Pairs,        \* MAX_ORIGIN_MODEL_PAIRS
    Scopes        \* MAX_ORIGIN_PROVIDER_INVENTORIES

ASSUME InventoryAssumption ==
    /\ {MaxUid, MaxState, MaxClock} \subseteq Nat \ {0}
    /\ Sizes \in Seq(Nat) /\ Ahead \subseteq Int
    /\ {Age, Skew, Ttl, InProgress, Pairs, Scopes} \subseteq Nat

VARIABLES
    clock,     \* the peer's wall clock
    ahead,     \* the origin's wall clock, relative to the peer's
    origin,    \* the provider and the origin's ServedModelStore
    issued,    \* the inventories discovered, by revision
    wire,      \* signings of inventories: each stands for all its frames
    states,    \* state broadcasts sent, by revision: the UID each advertises
    latest,    \* latest_by_scope: revision of the last state accepted
    uid,       \* provider_uids_by_scope: the UID it advertises, 0 for none
    rx,        \* ModelInventoryAssembler
    published, \* model_inventories: revisions the readers see
    highest    \* history: highest revision published since the origin was met

vars == <<clock, ahead, origin, issued, wire, states, latest, uid, rx, published, highest>>

UIDs == 1 .. MaxUid
Revisions == DOMAIN Sizes
Frames == 1 .. Max({1} \cup {Sizes[r] : r \in Revisions})
NoUid == 0
NoRevision == 0

\* ModelInventory; UID NoUid stands for an inventory not discovered yet.
Inventories == [uid : UIDs \cup {NoUid}, expires : Int]

\* PendingInventory; no frames stands for none.
Pendings == [frames : SUBSET Frames, started : 0 .. MaxClock]

\* RevisionFloor; revision NoRevision stands for none.
Floors == [revision : Revisions \cup {NoRevision}, until : Int]

InventoryTypeOK ==
    /\ clock \in 0 .. MaxClock /\ ahead \in Ahead
    /\ origin \in [uid : UIDs, revision : Revisions \cup {NoRevision}]
    /\ issued \in [Revisions -> Inventories]
    /\ wire \subseteq [revision : Revisions, signed : Int]
    /\ states \in Seq(UIDs \cup {NoUid}) /\ Len(states) <= MaxState
    /\ latest \in 0 .. MaxState /\ uid \in UIDs \cup {NoUid}
    /\ rx.pending \in [Revisions -> Pendings]
    /\ rx.complete \in [UIDs -> Revisions \cup {NoRevision}]
    /\ rx.floor \in [UIDs -> Floors]
    /\ rx.blocked \in Int
    /\ published \subseteq Revisions
    /\ highest \in [UIDs -> Revisions \cup {NoRevision}]

NoPending == [frames |-> {}, started |-> 0]
NoFloor == [revision |-> NoRevision, until |-> 0]
Unblocked == -1

\* What the assembler holds of the origin once remove_origin dropped it.
Forgotten(blocked) ==
    [pending |-> [r \in Revisions |-> NoPending], complete |-> [u \in UIDs |-> NoRevision],
     floor |-> [u \in UIDs |-> NoFloor], blocked |-> blocked]

Init ==
    /\ clock = 0 /\ ahead \in Ahead
    /\ origin = [uid |-> 1, revision |-> 0]
    /\ issued = [r \in Revisions |-> [uid |-> NoUid, expires |-> 0]]
    /\ wire = {} /\ states = <<>>
    /\ latest = 0 /\ uid = NoUid
    /\ rx = Forgotten(Unblocked)
    /\ published = {}
    /\ highest = [u \in UIDs |-> NoRevision]

-----------------------------------------------------------------------------
(* The origin *)

originClock == clock + ahead

peer == <<latest, uid, rx, published, highest>>

\* The provider is deleted and made anew under its name.
ReplaceProvider ==
    /\ origin.uid < MaxUid
    /\ origin' = [origin EXCEPT !.uid = @ + 1]
    /\ UNCHANGED <<clock, ahead, issued, wire, states, peer>>

\* poll, refresh: a served set replaces the held one under the next revision,
\* a failed poll keeps it.
Discover ==
    LET next == origin.revision + 1 IN
    /\ next \in Revisions
    /\ issued' = [issued EXCEPT ![next] = [uid |-> origin.uid, expires |-> originClock + Ttl]]
    /\ origin' = [origin EXCEPT !.revision = next]
    /\ UNCHANGED <<clock, ahead, wire, states, peer>>

\* publish_discovered_model_inventories: the held set is signed after a round
\* when it is fresh and of the provider that exists now.
SignFrames ==
    LET signing == [revision |-> origin.revision, signed |-> originClock] IN
    /\ origin.revision \in Revisions
    /\ issued[origin.revision].uid = origin.uid
    /\ issued[origin.revision].expires > originClock
    /\ signing \notin wire
    /\ wire' = wire \cup {signing}
    /\ UNCHANGED <<clock, ahead, origin, issued, states, peer>>

\* publish_real_provider_state: the UID is left out when the provider is gone
\* or when it does not fit.
Advertise(u) ==
    /\ Len(states) < MaxState
    /\ u \in {origin.uid, NoUid}
    /\ states' = Append(states, u)
    /\ UNCHANGED <<clock, ahead, origin, issued, wire, peer>>

-----------------------------------------------------------------------------
(* The peer's assembler *)

\* verifies
Fresh(signed) == clock - signed <= Age /\ signed - clock <= Skew

Unexpired(r) == issued[r].expires > clock

\* Mutant: the floor outlasts the signatures of a clock that is not ahead.
FloorUntilNoSkew == clock + Age

\* Completed revisions are refused until no older signature is fresh.
FloorUntil == clock + Age + Skew

\* prune
Pruned ==
    LET complete == [u \in UIDs |-> IF rx.complete[u] \in {r \in Revisions : Unexpired(r)}
                                    THEN rx.complete[u] ELSE NoRevision]
    IN  [pending |-> [r \in Revisions |->
                         IF Unexpired(r) /\ clock - rx.pending[r].started <= Age
                         THEN rx.pending[r] ELSE NoPending],
         complete |-> complete,
         floor |-> [u \in UIDs |-> IF rx.floor[u].until >= clock \/ complete[u] # NoRevision
                                   THEN rx.floor[u] ELSE NoFloor],
         blocked |-> IF rx.blocked >= clock THEN rx.blocked ELSE Unblocked]

\* block_origin
Blocked == Forgotten(FloorUntil)

\* pending_frames_for_origin
PendingFrames(pending) == MapThenSumSet(LAMBDA r : Cardinality(pending[r].frames), Revisions)

\* can_retain_inventory
CanRetain(held, r) ==
    LET others == UIDs \ {issued[r].uid}
        names == MapThenSumSet(LAMBDA u : IF held.complete[u] = NoRevision THEN 0
                                          ELSE Sizes[held.complete[u]], others)
    IN  /\ names + Sizes[r] <= Pairs
        /\ Cardinality({u \in others : held.floor[u] # NoFloor}) < Scopes

\* frames: an empty inventory is one empty frame.
FrameCount(r) == IF Sizes[r] = 0 THEN 1 ELSE Sizes[r]

\* The held set without the assemblies of r's provider that are not in keep.
Superseded(pending, r, keep) ==
    [p \in Revisions |-> IF issued[p].uid = issued[r].uid /\ p \notin keep THEN NoPending ELSE pending[p]]

\* A complete inventory replaces the last one.
Completed(held, r) ==
    [held EXCEPT !.pending = Superseded(@, r, {p \in Revisions : p > r}),
                 !.floor[issued[r].uid] = [revision |-> r, until |-> FloorUntil],
                 !.complete[issued[r].uid] = r]

\* push: what becomes of the assembler with frame i of revision r, and whether
\* the outcome is one after which the inventories are published.
Push(r, i) ==
    LET held == Pruned
        u == issued[r].uid
        pending == Superseded(held.pending, r, {p \in Revisions : p >= r})
        duplicate == i \in pending[r].frames
        grown == [pending EXCEPT ![r] = [frames |-> @.frames \cup {i},
                                         started |-> IF @.frames = {} THEN clock ELSE @.started]]
        done == [held EXCEPT !.pending = [grown EXCEPT ![r] = NoPending]]
    IN  IF ~Unexpired(r) \/ held.blocked # Unblocked THEN [rx |-> held, publish |-> TRUE]
        ELSE IF held.floor[u].revision >= r THEN [rx |-> held, publish |-> FALSE]
        ELSE IF ~duplicate /\ PendingFrames(pending) >= InProgress THEN [rx |-> Blocked, publish |-> TRUE]
        ELSE IF Cardinality(grown[r].frames) < FrameCount(r)
             THEN [rx |-> [held EXCEPT !.pending = grown], publish |-> FALSE]
        ELSE IF ~CanRetain(done, r) THEN [rx |-> Blocked, publish |-> TRUE]
        ELSE [rx |-> Completed(done, r), publish |-> TRUE]

-----------------------------------------------------------------------------
(* The peer's broadcast handler *)

\* Mutant: any complete inventory of the provider is published.
PublishedAnyUid(held, advertised) == {r \in Revisions : \E u \in UIDs : held.complete[u] = r /\ Unexpired(r)}

\* publish_verified_inventories
Published(held, advertised) ==
    {r \in Revisions : \E u \in UIDs : u = advertised /\ held.complete[u] = r /\ Unexpired(r)}

\* The readers see revs.
Publish(revs) ==
    /\ published' = revs
    /\ highest' = [u \in UIDs |-> Max({highest[u]} \cup {r \in revs : issued[r].uid = u})]

\* receive_model_inventory
ReceiveFrame(signing, i) ==
    LET outcome == Push(signing.revision, i) IN
    /\ Fresh(signing.signed)
    /\ i \in 1 .. FrameCount(signing.revision)
    /\ rx' = outcome.rx
    /\ IF outcome.publish THEN Publish(Published(outcome.rx, uid)) ELSE UNCHANGED <<published, highest>>
    /\ UNCHANGED <<clock, ahead, origin, issued, wire, states, latest, uid>>

\* withdraw_provider: the floor of the instance stays.
Withdrawn(u) ==
    [rx EXCEPT !.pending = [r \in Revisions |-> IF issued[r].uid = u THEN NoPending ELSE @[r]],
               !.complete = [v \in UIDs |-> IF v = u THEN NoRevision ELSE @[v]]]

\* receive_state_broadcast, apply_provider_state and
\* invalidate_replaced_provider_inventories.
ReceiveState(s) ==
    /\ s > latest
    /\ latest' = s
    /\ uid' = states[s]
    /\ rx' = IF uid \in UIDs \ {states[s]} THEN Withdrawn(uid) ELSE rx
    /\ Publish(Published(rx', states[s]))
    /\ UNCHANGED <<clock, ahead, origin, issued, wire, states>>

\* The peer forgets the origin, or the grid of it: a block outlives the latter.
Forget(blocked) ==
    /\ latest' = 0 /\ uid' = NoUid
    /\ rx' = Forgotten(blocked)
    /\ published' = {}
    /\ highest' = [u \in UIDs |-> NoRevision]
    /\ UNCHANGED <<clock, ahead, origin, issued, wire, states>>

RemoveOrigin == Forget(Unblocked)
RemoveGrid == Forget(rx.blocked)

\* Time passes; what is too old to be accepted again leaves the network.
Tick ==
    /\ clock < MaxClock
    /\ clock' = clock + 1
    /\ wire' = {w \in wire : clock' - w.signed <= Age}
    /\ UNCHANGED <<ahead, origin, issued, states, peer>>

-----------------------------------------------------------------------------
OriginStep ==
    \/ ReplaceProvider \/ Discover \/ SignFrames
    \/ \E u \in UIDs \cup {NoUid} : Advertise(u)

PeerStep ==
    \/ \E signing \in wire, i \in Frames : ReceiveFrame(signing, i)
    \/ \E s \in DOMAIN states : ReceiveState(s)
    \/ RemoveOrigin \/ RemoveGrid

Next == OriginStep \/ PeerStep \/ Tick

Spec == Init /\ [][Next]_vars

-----------------------------------------------------------------------------
(* Properties *)

\* Readers never see an inventory older than one they saw of the same provider
\* instance since the origin was met: not after it expired and its floor was
\* pruned, not after the instance was withdrawn and advertised again, and not
\* after a block, for any clock (RevisionFloor, block_origin, verifies).
NeverReverts == \A r \in published : r = highest[issued[r].uid]

\* Whatever the order of frames and provider state, readers see exactly the
\* complete inventory of the instance the newest state advertises, for as long
\* as it is fresh (publish_verified_inventories, withdraw_provider).
AdvertisedIsPublished ==
    {r \in published : Unexpired(r)} = {r \in Revisions : uid \in UIDs /\ rx.complete[uid] = r /\ Unexpired(r)}

=============================================================================
