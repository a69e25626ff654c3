----------------------------- MODULE GossipState -----------------------------
(***************************************************************************)
(* What one node retains of the state its peers gossip, and whom it        *)
(* believes: StateBroadcastHandler and TrustStore                          *)
(* (crates/swim/src/state_broadcast.rs) under the control operations of    *)
(* SwimNode (crates/swim/src/node.rs).                                     *)
(*                                                                         *)
(* The run loop owns the node, so each delivery and each control operation *)
(* is one step.  The network may deliver any broadcast that was ever sent, *)
(* in any order and any number of times; a signed one older than the       *)
(* freshness window is rejected, which is the same as not delivering it.   *)
(*                                                                         *)
(* A provider in the snapshot and its entry in provider_owners are written *)
(* together by every operation; `owner' is both.  Enforcing a grid and     *)
(* binding it to a network happen together and are undone together;        *)
(* `bound' is both TrustStore::strict and TrustStore::provider_networks.   *)
(***************************************************************************)
EXTENDS Integers, FiniteSets

CONSTANTS
    Origins,      \* sites that originate broadcasts
    Grids,        \* GridNetwork identifiers
    NoGrid,       \* a broadcast that names no grid
    Networks,     \* provider networks
    NoNetwork,    \* a grid that is not enforced is bound to no network
    Names,        \* provider names
    Keys,         \* public signing keys
    NoKey,        \* a broadcast that is not signed
    Unpinned,     \* no pin entry, as opposed to an empty one
    NoOwner,      \* an identity with no provider retained
    Lanes,        \* metadata lanes
    Broadcasts,   \* the broadcasts that may be delivered
    MaxOrigins,   \* max_origins
    MaxScopes,    \* max_scopes
    FirstCap,     \* max_leased_revision when the node starts
    LastCap       \* bound on how far it advances with the clock

None == -1

MAX_PINNED_KEYS_PER_ORIGIN == 2

Scopes == [origin : Origins, grid : Grids \cup {NoGrid}]

\* ProviderIdentity
Identities == [site : Origins, network : Networks, name : Names]

Broadcast ==
    [origin : Origins, grid : Grids \cup {NoGrid}, revision : Nat, signer : Keys \cup {NoKey},
     providers : SUBSET Identities, authoritative : BOOLEAN, spend : Nat, lanes : SUBSET Lanes]

ASSUME BroadcastsAssumption == Broadcasts \subseteq Broadcast

ASSUME AbsentValues ==
    /\ NoGrid \notin Grids /\ NoNetwork \notin Networks /\ NoKey \notin Keys
    /\ \A keys \in SUBSET Keys : keys # Unpinned

ASSUME BoundsAssumption == MaxOrigins \in Nat /\ MaxScopes \in Nat /\ FirstCap \in Nat /\ LastCap \in Nat

VARIABLES
    pin,      \* pins by grid and site: Unpinned, or a set of keys (empty: revoked)
    sitePin,  \* the legacy pins by site alone
    bound,    \* the network each enforced grid is bound to
    held,     \* state admission is held until the controller applied its trust
    cap,      \* max_leased_revision at this node's clock
    st        \* RetainedOrigins and the snapshot published from it

trustVars == <<pin, sitePin, bound, held>>
vars == <<pin, sitePin, bound, held, cap, st>>

\* The signer is history: whose key admitted the provider.
Owner == [scope : Scopes, verified : BOOLEAN, revision : Nat, signer : Keys \cup {NoKey}]

\* `latest', `unverified', `networks': latest_by_scope, unverified_scopes and
\* provider_networks_by_scope.  `lane' holds the revision guards of the metadata
\* lanes, `value' the origins whose value is published on them.
Retained ==
    [latest : [Scopes -> Nat \cup {None}], unverified : SUBSET Scopes,
     networks : [Scopes -> SUBSET Networks], owner : [Identities -> Owner \cup {NoOwner}],
     lane : [Lanes -> [Origins -> Nat \cup {None}]], value : [Lanes -> SUBSET Origins],
     spend : [Origins -> Nat]]

Pins == {Unpinned} \cup SUBSET Keys

TypeOK ==
    /\ pin \in [Grids -> [Origins -> Pins]]
    /\ sitePin \in [Origins -> Pins]
    /\ bound \in [Grids -> Networks \cup {NoNetwork}]
    /\ held \in BOOLEAN
    /\ cap \in Nat
    /\ st \in Retained
    /\ \A sc \in st.unverified : st.latest[sc] # None
    /\ \A l \in Lanes : \A o \in st.value[l] : st.lane[l][o] # None

Init ==
    /\ pin = [g \in Grids |-> [o \in Origins |-> Unpinned]]
    /\ sitePin = [o \in Origins |-> Unpinned]
    /\ bound = [g \in Grids |-> NoNetwork]
    /\ held = TRUE
    /\ cap = FirstCap
    /\ st = [latest |-> [s \in Scopes |-> None], unverified |-> {},
             networks |-> [s \in Scopes |-> {}], owner |-> [i \in Identities |-> NoOwner],
             lane |-> [l \in Lanes |-> [o \in Origins |-> None]], value |-> [l \in Lanes |-> {}],
             spend |-> [o \in Origins |-> 0]]

-----------------------------------------------------------------------------
(* What a broadcast carries. *)

ScopeOf(b) == [origin |-> b.origin, grid |-> b.grid]

MetadataOnly(b) == ~b.authoritative /\ b.providers = {} /\ b.spend = 0

CarriesProviderState(b) == b.authoritative \/ b.providers # {}

CertOnly(b) == MetadataOnly(b) /\ b.lanes = {"cert"}

\* Mutant of OwnProviders: a broadcast speaks for any site.
AnyProviders(b) == b.providers

\* The providers a broadcast may speak for: its origin's.
OwnProviders(b) == {i \in b.providers : i.site = b.origin}

-----------------------------------------------------------------------------
(* TrustStore and admission. *)

Strict(g) == g # NoGrid /\ bound[g] # NoNetwork

AnyStrict == \E g \in Grids : bound[g] # NoNetwork

\* A revoked (empty) pin counts: the site has a grid identity.
PinnedInAnyGrid(o) == \E g \in Grids : pin[g][o] # Unpinned

\* An empty legacy pin is not enforced.
SitePinned(o) == sitePin[o] \notin {Unpinned, {}}

\* validate_provider_networks: a signed grid label must be bound, to the providers' network.
NetworksAllowed(b) ==
    b.grid # NoGrid /\ CarriesProviderState(b) =>
        bound[b.grid] # NoNetwork /\ \A i \in OwnProviders(b) : i.network = bound[b.grid]

\* A scoped pin decides alone.
AdmittedByPin(b) ==
    /\ b.grid # NoGrid
    /\ pin[b.grid][b.origin] # Unpinned
    /\ b.signer \in pin[b.grid][b.origin]
    /\ NetworksAllowed(b)

NotScoped(b) == b.grid # NoGrid => pin[b.grid][b.origin] = Unpinned

\* A certificate alone may introduce a site to an enforced grid.
AdmittedToBootstrap(b) == NotScoped(b) /\ Strict(b.grid) /\ CertOnly(b)

\* Mutant of AdmittedAsLegacy: an enforced grid refuses only broadcasts that name it.
AdmittedBesideStrict(b) ==
    /\ NotScoped(b)
    /\ ~Strict(b.grid) /\ ~PinnedInAnyGrid(b.origin)
    /\ SitePinned(b.origin) => b.signer \in sitePin[b.origin] /\ NetworksAllowed(b)

\* The per-site pin, retired by a grid identity, an enforced grid, and, for state,
\* by any enforced grid: an unsigned label proves nothing.
AdmittedAsLegacy(b) ==
    /\ NotScoped(b)
    /\ ~Strict(b.grid) /\ ~PinnedInAnyGrid(b.origin)
    /\ AnyStrict => MetadataOnly(b)
    /\ SitePinned(b.origin) => b.signer \in sitePin[b.origin] /\ NetworksAllowed(b)

Admitted(b) ==
    /\ ~held
    /\ AdmittedByPin(b) \/ AdmittedToBootstrap(b) \/ AdmittedAsLegacy(b)

\* The grid label of an admitted broadcast was verified by a key pinned for it.
VerifiedGrid(b) == b.grid # NoGrid /\ pin[b.grid][b.origin] \notin {Unpinned, {}}

-----------------------------------------------------------------------------
(* RetainedOrigins. *)

\* A held revision outranks an older one, unless it is past the cap and the other is not.
Outranks(heldRev, incoming) == heldRev > incoming /\ (heldRev <= cap \/ incoming > cap)

KnownOrigins(s) ==
    {sc.origin : sc \in {sc \in Scopes : s.latest[sc] # None \/ s.networks[sc] # {}}}
    \cup {o \in Origins : \E l \in Lanes : s.lane[l][o] # None \/ o \in s.value[l]}

\* Mutant of RemoveOrigin: the origin's spend goes with its providers.
RemoveOriginAndSpend(s, o) ==
    [latest |-> [sc \in Scopes |-> IF sc.origin = o THEN None ELSE s.latest[sc]],
     unverified |-> {sc \in s.unverified : sc.origin # o},
     networks |-> [sc \in Scopes |-> IF sc.origin = o THEN {} ELSE s.networks[sc]],
     owner |-> [i \in Identities |-> IF i.site = o THEN NoOwner ELSE s.owner[i]],
     lane |-> [l \in Lanes |-> [p \in Origins |-> IF p = o THEN None ELSE s.lane[l][p]]],
     value |-> [l \in Lanes |-> s.value[l] \ {o}],
     spend |-> [p \in Origins |-> IF p = o THEN 0 ELSE s.spend[p]]]

\* remove, remove_origin: everything but the spend, a grow-only ledger.
RemoveOrigin(s, o) ==
    [latest |-> [sc \in Scopes |-> IF sc.origin = o THEN None ELSE s.latest[sc]],
     unverified |-> {sc \in s.unverified : sc.origin # o},
     networks |-> [sc \in Scopes |-> IF sc.origin = o THEN {} ELSE s.networks[sc]],
     owner |-> [i \in Identities |-> IF i.site = o THEN NoOwner ELSE s.owner[i]],
     lane |-> [l \in Lanes |-> [p \in Origins |-> IF p = o THEN None ELSE s.lane[l][p]]],
     value |-> [l \in Lanes |-> s.value[l] \ {o}],
     spend |-> s.spend]

\* Mutant of ForgetDeparted: the guards go with the values.
ForgetGuardsToo(s, o) ==
    [s EXCEPT !.value = [l \in Lanes |-> IF l = "signals" THEN s.value[l] ELSE s.value[l] \ {o}],
              !.lane = [l \in Lanes |-> [p \in Origins |-> IF p = o THEN None ELSE s.lane[l][p]]]]

\* forget_departed: the gateway address and the certificate go, the guards stay.
ForgetDeparted(s, o) ==
    [s EXCEPT !.value = [l \in Lanes |-> IF l = "signals" THEN s.value[l] ELSE s.value[l] \ {o}]]

\* remove_grid: a grid's state from the origins `os', and with it all state of theirs
\* that no grid key verified.
RemoveGrid(s, g, os) ==
    LET Selected(sc) == sc.origin \in os /\ sc.grid = g
        Cleared(sc) == Selected(sc) \/ (sc \in s.unverified /\ sc.origin \in os)
        Removed(i) == /\ s.owner[i] # NoOwner
                      /\ \/ Selected(s.owner[i].scope)
                         \/ s.owner[i].scope.origin \in os /\ ~s.owner[i].verified
    IN  [s EXCEPT !.latest = [sc \in Scopes |-> IF Cleared(sc) THEN None ELSE s.latest[sc]],
                  !.unverified = {sc \in s.unverified : ~Cleared(sc)},
                  !.networks = [sc \in Scopes |-> IF Cleared(sc) THEN {} ELSE s.networks[sc]],
                  !.owner = [i \in Identities |-> IF Removed(i) THEN NoOwner ELSE s.owner[i]]]

-----------------------------------------------------------------------------
(* receive_state_broadcast. *)

\* Mutant of Evictable: a pinned origin is evicted like any other.
EvictableAny == KnownOrigins(st)

\* make_room_for: an unpinned origin makes room for an unknown one.
Evictable == {o \in KnownOrigins(st) : ~SitePinned(o) /\ ~PinnedInAnyGrid(o)}

\* Mutant of MakeRoomFor: one origin too many.
MakeRoomForOneMore(o) ==
    IF o \in KnownOrigins(st) \/ Cardinality(KnownOrigins(st)) <= MaxOrigins THEN {st}
    ELSE {RemoveOrigin(st, e) : e \in Evictable}

\* The states that have room for the origin: none when every retained origin is pinned.
\* The code evicts the first in name order; any choice is allowed here.
MakeRoomFor(o) ==
    IF o \in KnownOrigins(st) \/ Cardinality(KnownOrigins(st)) < MaxOrigins THEN {st}
    ELSE {RemoveOrigin(st, e) : e \in Evictable}

HasRoomForScope(s, sc) ==
    s.latest[sc] # None \/ Cardinality({x \in Scopes : s.latest[x] # None}) < MaxScopes

\* store_metadata, store_latest: each lane has its own guard and refuses the future.
StoreMetadata(s, b) ==
    LET Stored(l, o) == o = b.origin /\ l \in b.lanes /\ b.revision <= cap
                        /\ ~Outranks(s.lane[l][o], b.revision)
    IN  [s EXCEPT !.lane = [l \in Lanes |-> [o \in Origins |->
                                IF Stored(l, o) THEN b.revision ELSE s.lane[l][o]]],
                  !.value = [l \in Lanes |-> s.value[l] \cup {o \in {b.origin} : Stored(l, o)}]]

\* The networks whose providers a broadcast replaces.
NetworksToReplace(s, b) ==
    {n \in s.networks[ScopeOf(b)] \cup {i.network : i \in OwnProviders(b)} :
        Strict(b.grid) => n = bound[b.grid]}

Incoming(s, b) == {i \in OwnProviders(b) : i.network \in NetworksToReplace(s, b)}

\* replace_providers: the scope's providers in those networks give way to the incoming,
\* which take their identities over from any other scope.
ReplaceProviders(s, b) ==
    [i \in Identities |->
        IF i \in Incoming(s, b)
        THEN [scope |-> ScopeOf(b), verified |-> VerifiedGrid(b), revision |-> b.revision,
              signer |-> b.signer]
        ELSE IF s.owner[i] # NoOwner /\ s.owner[i].scope = ScopeOf(b) /\ i.network \in NetworksToReplace(s, b)
        THEN NoOwner
        ELSE s.owner[i]]

Larger(m, n) == IF m > n THEN m ELSE n

\* apply_provider_state
ApplyProviderState(s, b) ==
    LET accepted == {i.network : i \in Incoming(s, b)}
        replaces == CarriesProviderState(b)
    IN  [s EXCEPT
            !.latest = [s.latest EXCEPT ![ScopeOf(b)] = b.revision],
            !.unverified = IF VerifiedGrid(b) THEN s.unverified \ {ScopeOf(b)}
                           ELSE s.unverified \cup {ScopeOf(b)},
            !.networks = IF replaces /\ accepted # {}
                         THEN [s.networks EXCEPT ![ScopeOf(b)] = accepted] ELSE s.networks,
            !.owner = IF replaces THEN ReplaceProviders(s, b) ELSE s.owner,
            !.spend = [s.spend EXCEPT ![b.origin] = Larger(s.spend[b.origin], b.spend)]]

\* Mutant of Stale: a delayed broadcast is applied over a newer one.
NeverStale(s, b) == FALSE

\* Dropped: no room for its scope, or outranked by what is held.
Stale(s, b) == Outranks(s.latest[ScopeOf(b)], b.revision)

ReceiveMetadata(b) ==
    /\ Admitted(b) /\ MetadataOnly(b)
    /\ \E s \in MakeRoomFor(b.origin) : st' = StoreMetadata(s, b)
    /\ UNCHANGED <<trustVars, cap>>

\* An origin evicted to make room stays evicted though the broadcast is then dropped.
DropState(b) ==
    /\ Admitted(b) /\ ~MetadataOnly(b)
    /\ \E s \in MakeRoomFor(b.origin) :
        /\ ~HasRoomForScope(s, ScopeOf(b)) \/ Stale(s, b)
        /\ st' = s
    /\ UNCHANGED <<trustVars, cap>>

\* The revision already applied: only its metadata counts.
RepeatState(b) ==
    /\ Admitted(b) /\ ~MetadataOnly(b)
    /\ st.latest[ScopeOf(b)] = b.revision
    /\ st' = StoreMetadata(st, b)
    /\ UNCHANGED <<trustVars, cap>>

ReceiveState(b) ==
    /\ Admitted(b) /\ ~MetadataOnly(b)
    /\ \E s \in MakeRoomFor(b.origin) :
        /\ HasRoomForScope(s, ScopeOf(b)) /\ ~Stale(s, b)
        /\ s.latest[ScopeOf(b)] # b.revision
        /\ st' = ApplyProviderState(StoreMetadata(s, b), b)
    /\ UNCHANGED <<trustVars, cap>>

Deliver(b) == ReceiveMetadata(b) \/ DropState(b) \/ RepeatState(b) \/ ReceiveState(b)

-----------------------------------------------------------------------------
(* SwimNode's control operations. *)

HoldStateAdmission ==
    /\ held' = TRUE
    /\ UNCHANGED <<pin, sitePin, bound, cap, st>>

OpenStateAdmission ==
    /\ held' = FALSE
    /\ UNCHANGED <<pin, sitePin, bound, cap, st>>

\* pin_origin: a first pin purges what was accepted unsigned.
PinOrigin(o, keys) ==
    /\ Cardinality(keys) <= MAX_PINNED_KEYS_PER_ORIGIN
    /\ sitePin' = [sitePin EXCEPT ![o] = keys]
    /\ st' = IF SitePinned(o) THEN st ELSE RemoveOrigin(st, o)
    /\ UNCHANGED <<pin, bound, held, cap>>

UnpinOrigin(o) ==
    /\ sitePin' = [sitePin EXCEPT ![o] = Unpinned]
    /\ UNCHANGED <<pin, bound, held, cap, st>>

SetPin(g, o, keys) == pin' = [pin EXCEPT ![g] = [pin[g] EXCEPT ![o] = keys]]

\* Mutant of KeepsState: dropping one of two keys keeps what it signed.
KeepsOverlap(old, keys) == old \notin {Unpinned, {}} /\ old \cap keys # {}

\* Only a pin that keeps every key it had, and had one, keeps the state admitted under it.
KeepsState(old, keys) == old \notin {Unpinned, {}} /\ old \subseteq keys

PinOriginForGrid(g, o, keys) ==
    /\ Cardinality(keys) <= MAX_PINNED_KEYS_PER_ORIGIN
    /\ SetPin(g, o, keys)
    /\ st' = IF KeepsState(pin[g][o], keys) THEN st ELSE RemoveGrid(st, g, {o})
    /\ UNCHANGED <<sitePin, bound, held, cap>>

UnpinOriginForGrid(g, o) ==
    /\ SetPin(g, o, {})
    /\ st' = RemoveGrid(st, g, {o})
    /\ UNCHANGED <<sitePin, bound, held, cap>>

ClearOriginPinForGrid(g, o) ==
    /\ SetPin(g, o, Unpinned)
    /\ st' = RemoveGrid(st, g, {o})
    /\ UNCHANGED <<sitePin, bound, held, cap>>

ForgetPins(g) == pin' = [pin EXCEPT ![g] = [o \in Origins |-> Unpinned]]

\* enforce_signed_grid: a new or changed binding starts the grid over.
EnforceSignedGrid(g, n) ==
    /\ bound[g] # n
    /\ bound' = [bound EXCEPT ![g] = n]
    /\ ForgetPins(g)
    /\ st' = RemoveGrid(st, g, Origins)
    /\ UNCHANGED <<sitePin, held, cap>>

\* relax_signed_grid: the state is kept, it was verified when it merged.
RelaxSignedGrid(g) ==
    /\ bound' = [bound EXCEPT ![g] = NoNetwork]
    /\ ForgetPins(g)
    /\ UNCHANGED <<sitePin, held, cap, st>>

EvictOrigin(o) ==
    /\ st' = RemoveOrigin(st, o)
    /\ UNCHANGED <<trustVars, cap>>

ForgetDepartedOrigin(o) ==
    /\ st' = ForgetDeparted(st, o)
    /\ UNCHANGED <<trustVars, cap>>

\* The clock advances, and with it the highest revision a peer may have leased.
Tick ==
    /\ cap < LastCap
    /\ cap' = cap + 1
    /\ UNCHANGED <<trustVars, st>>

Control ==
    \/ HoldStateAdmission \/ OpenStateAdmission
    \/ \E o \in Origins :
        \/ \E keys \in SUBSET Keys : PinOrigin(o, keys)
        \/ UnpinOrigin(o) \/ EvictOrigin(o) \/ ForgetDepartedOrigin(o)
    \/ \E g \in Grids :
        \/ RelaxSignedGrid(g)
        \/ \E n \in Networks : EnforceSignedGrid(g, n)
        \/ \E o \in Origins :
            \/ UnpinOriginForGrid(g, o) \/ ClearOriginPinForGrid(g, o)
            \/ \E keys \in SUBSET Keys : PinOriginForGrid(g, o, keys)

Next == Control \/ Tick \/ \E b \in Broadcasts : Deliver(b)

Spec == Init /\ [][Next]_vars

-----------------------------------------------------------------------------
(* Properties. *)

Retains(i) == st.owner[i] # NoOwner

\* "An unsigned grid label cannot establish ownership": while any grid is enforced,
\* and for any site with a grid identity, no provider is retained that a grid key
\* did not verify, whatever was admitted before the trust changed.
OnlyVerified ==
    \A i \in Identities : Retains(i) /\ (AnyStrict \/ PinnedInAnyGrid(i.site)) => st.owner[i].verified

\* In an enforced grid every retained provider was admitted under a key that is
\* still pinned for its site, in the network the grid is bound to: rotation,
\* revocation and rebinding leave nothing of the old trust behind.
EnforcedStateIsTrusted ==
    \A i \in Identities : Retains(i) /\ Strict(st.owner[i].scope.grid) =>
        LET own == st.owner[i]
        IN  /\ own.verified
            /\ pin[own.scope.grid][i.site] # Unpinned
            /\ own.signer \in pin[own.scope.grid][i.site]
            /\ i.network = bound[own.scope.grid]

\* A provider is retained only from a broadcast of its own site.
SitesSpeakForThemselves == \A i \in Identities : Retains(i) => st.owner[i].scope.origin = i.site

\* The retained maps stay within their bounds, whoever sends what.
WithinCapacity ==
    /\ Cardinality(KnownOrigins(st)) <= MaxOrigins
    /\ Cardinality({sc \in Scopes : st.latest[sc] # None}) <= MaxScopes

\* make_room_for: "never evicts a pinned origin's retained state": a pinned origin,
\* whose revision guards are what refuses a replay, never makes way for another.
PinnedSurvivePressure ==
    [][\A o \in KnownOrigins(st) \ KnownOrigins(st') :
        SitePinned(o) \/ PinnedInAnyGrid(o) => KnownOrigins(st') \subseteq KnownOrigins(st)]_vars

\* "Nothing older replays": a revision guard falls back only when it was past the
\* cap, and vanishes only with the state it guards; a departed origin's stays.
RevisionsOnlyAdvance ==
    [][/\ \A sc \in Scopes : st.latest[sc] # None /\ st'.latest[sc] # None
            => st'.latest[sc] >= st.latest[sc] \/ st.latest[sc] > cap
       /\ \A l \in Lanes, o \in Origins : st.lane[l][o] # None /\ o \in KnownOrigins(st')
            => st'.lane[l][o] >= st.lane[l][o] \/ st.lane[l][o] > cap]_vars

\* remove_origin: a tenant's recorded spend never falls, through churn, eviction
\* and revocation, or an exhausted budget would reopen.
SpendNeverFalls == [][\A o \in Origins : st'.spend[o] >= st.spend[o]]_vars

\* with_authoritative_provider_state: "an empty snapshot that withdraws every
\* provider previously advertised by the origin": once applied, nothing else of
\* its scope is left.
AuthoritativeReplaces ==
    [][\A b \in Broadcasts : ReceiveState(b) /\ CarriesProviderState(b) =>
        \A i \in Identities : st'.owner[i] # NoOwner /\ st'.owner[i].scope = ScopeOf(b)
            => i \in OwnProviders(b)]_vars

=============================================================================
