-------------------------- MODULE GossipStateProofs --------------------------
(***************************************************************************)
(* What a node retains of its peers' state is trusted, for any number of   *)
(* origins, grids, keys and broadcasts.                                    *)
(*                                                                         *)
(* The invariants hold together: that sites speak for themselves is what   *)
(* lets a purge by origin reach every unverified provider of that origin.  *)
(* Sound(s) is their conjunction for a candidate retained state s under    *)
(* the current trust; each operation on the retained state preserves it,   *)
(* and each change of trust re-establishes it by what it purges.  The      *)
(* capacity, the revision guards and the spend are proved beside it, again *)
(* operation by operation.                                                 *)
(***************************************************************************)
EXTENDS GossipState, FiniteSetTheorems, TLAPS

WellFormed(s) ==
    /\ s \in Retained
    /\ \A sc \in s.unverified : s.latest[sc] # None
    /\ \A l \in Lanes : \A o \in s.value[l] : s.lane[l][o] # None

\* What the invariants say of one provider.
Trusted(i, own) ==
    /\ own.scope.origin = i.site
    /\ AnyStrict \/ PinnedInAnyGrid(i.site) => own.verified
    /\ Strict(own.scope.grid) =>
        /\ own.verified
        /\ pin[own.scope.grid][i.site] # Unpinned
        /\ own.signer \in pin[own.scope.grid][i.site]
        /\ i.network = bound[own.scope.grid]

AllTrusted(s) == \A i \in Identities : s.owner[i] # NoOwner => Trusted(i, s.owner[i])

Sound(s) == WellFormed(s) /\ AllTrusted(s)

TrustType ==
    /\ pin \in [Grids -> [Origins -> Pins]]
    /\ sitePin \in [Origins -> Pins]
    /\ bound \in [Grids -> Networks \cup {NoNetwork}]
    /\ held \in BOOLEAN
    /\ cap \in Nat

IInv == TrustType /\ Sound(st)

\* The inductive invariant is the type invariant and the three trust invariants.
LEMMA InvariantParts ==
    IInv <=> TypeOK /\ OnlyVerified /\ EnforcedStateIsTrusted /\ SitesSpeakForThemselves
<1>1. IInv => TypeOK /\ OnlyVerified /\ EnforcedStateIsTrusted /\ SitesSpeakForThemselves
  BY DEF IInv, TrustType, Sound, WellFormed, AllTrusted, Trusted, TypeOK, OnlyVerified,
         EnforcedStateIsTrusted, SitesSpeakForThemselves, Retains
<1>2. TypeOK /\ OnlyVerified /\ EnforcedStateIsTrusted /\ SitesSpeakForThemselves => IInv
  BY DEF IInv, TrustType, Sound, WellFormed, AllTrusted, Trusted, TypeOK, OnlyVerified,
         EnforcedStateIsTrusted, SitesSpeakForThemselves, Retains
<1> QED BY <1>1, <1>2

-----------------------------------------------------------------------------
(* The operations on the retained state. *)

\* remove_origin drops owners and guards together.
LEMMA RemoveOriginSound ==
    ASSUME NEW s, Sound(s), NEW o \in Origins
    PROVE  Sound(RemoveOrigin(s, o))
<1> DEFINE t == RemoveOrigin(s, o)
<1>0. s \in Retained BY DEF Sound, WellFormed
<1>1. WellFormed(t)
  <2>1. t.latest \in [Scopes -> Nat \cup {None}] /\ t.unverified \in SUBSET Scopes
    BY <1>0 DEF RemoveOrigin, Retained
  <2>2. t.networks \in [Scopes -> SUBSET Networks] /\ t.owner \in [Identities -> Owner \cup {NoOwner}]
    BY <1>0 DEF RemoveOrigin, Retained
  <2>3. t.lane \in [Lanes -> [Origins -> Nat \cup {None}]]
    BY <1>0 DEF RemoveOrigin, Retained
  <2>4. t.value \in [Lanes -> SUBSET Origins] /\ t.spend \in [Origins -> Nat]
    BY <1>0 DEF RemoveOrigin, Retained
  <2>5. t \in Retained BY <2>1, <2>2, <2>3, <2>4 DEF RemoveOrigin, Retained
  <2>6. \A sc \in t.unverified : t.latest[sc] # None
    BY <1>0 DEF Sound, WellFormed, RemoveOrigin, Retained
  <2>7. \A l \in Lanes : \A p \in t.value[l] : t.lane[l][p] # None
    BY <1>0 DEF Sound, WellFormed, RemoveOrigin, Retained
  <2> QED BY <2>5, <2>6, <2>7 DEF WellFormed
<1>2. AllTrusted(RemoveOrigin(s, o))
  BY DEF Sound, AllTrusted, RemoveOrigin
<1> QED BY <1>1, <1>2 DEF Sound

\* forget_departed keeps the guards.
LEMMA ForgetDepartedSound ==
    ASSUME NEW s, Sound(s), NEW o \in Origins
    PROVE  Sound(ForgetDeparted(s, o))
<1>1. WellFormed(ForgetDeparted(s, o))
  BY DEF Sound, WellFormed, ForgetDeparted, Retained
<1>2. AllTrusted(ForgetDeparted(s, o))
  BY DEF Sound, WellFormed, AllTrusted, ForgetDeparted, Retained
<1> QED BY <1>1, <1>2 DEF Sound

\* store_metadata touches the lanes alone.
LEMMA StoreMetadataSound ==
    ASSUME NEW s, Sound(s), NEW b \in Broadcast
    PROVE  /\ Sound(StoreMetadata(s, b))
           /\ StoreMetadata(s, b).latest = s.latest
<1> DEFINE t == StoreMetadata(s, b)
<1>0. s \in Retained /\ b.revision \in Nat /\ b.origin \in Origins
  BY DEF Sound, WellFormed, Broadcast
<1>1. t.lane \in [Lanes -> [Origins -> Nat \cup {None}]]
  BY <1>0 DEF StoreMetadata, Retained
<1>2. t.value \in [Lanes -> SUBSET Origins]
  BY <1>0 DEF StoreMetadata, Retained
<1>3. /\ t.latest = s.latest /\ t.unverified = s.unverified /\ t.networks = s.networks
      /\ t.owner = s.owner /\ t.spend = s.spend
  BY <1>0 DEF StoreMetadata, Retained
<1>4. t \in Retained BY <1>0, <1>1, <1>2, <1>3 DEF StoreMetadata, Retained
<1>5. \A l \in Lanes : \A o \in t.value[l] : t.lane[l][o] # None
  BY <1>0 DEF Sound, WellFormed, StoreMetadata, Retained, None
<1>6. WellFormed(t) BY <1>3, <1>4, <1>5 DEF Sound, WellFormed
<1>7. AllTrusted(t) BY <1>3 DEF Sound, AllTrusted
<1> QED BY <1>3, <1>6, <1>7 DEF Sound

\* remove_grid leaves no provider of the grid from the origins named, and none of
\* theirs that is unverified; what it leaves is as it was.
LEMMA RemoveGridPurges ==
    ASSUME NEW s, WellFormed(s), NEW g \in Grids, NEW os \in SUBSET Origins
    PROVE  /\ WellFormed(RemoveGrid(s, g, os))
           /\ \A i \in Identities : RemoveGrid(s, g, os).owner[i] # NoOwner =>
                /\ s.owner[i] # NoOwner
                /\ RemoveGrid(s, g, os).owner[i] = s.owner[i]
                /\ s.owner[i].scope.origin \in os =>
                    s.owner[i].scope.grid # g /\ s.owner[i].verified
<1> DEFINE t == RemoveGrid(s, g, os)
<1>0. s \in Retained BY DEF WellFormed
<1>1. t.latest \in [Scopes -> Nat \cup {None}] /\ t.unverified \in SUBSET Scopes
  BY <1>0 DEF RemoveGrid, Retained
<1>2. t.networks \in [Scopes -> SUBSET Networks] /\ t.owner \in [Identities -> Owner \cup {NoOwner}]
  BY <1>0 DEF RemoveGrid, Retained
<1>3. t.lane = s.lane /\ t.value = s.value /\ t.spend = s.spend
  BY <1>0 DEF RemoveGrid, Retained
<1>4. t \in Retained BY <1>0, <1>1, <1>2, <1>3 DEF RemoveGrid, Retained
<1>5. \A sc \in t.unverified : t.latest[sc] # None
  BY <1>0 DEF WellFormed, RemoveGrid, Retained
<1>6. WellFormed(t) BY <1>3, <1>4, <1>5 DEF WellFormed
<1>7. ASSUME NEW i \in Identities, t.owner[i] # NoOwner
      PROVE  /\ s.owner[i] # NoOwner
             /\ t.owner[i] = s.owner[i]
             /\ s.owner[i].scope.origin \in os => s.owner[i].scope.grid # g /\ s.owner[i].verified
  BY <1>0, <1>7 DEF RemoveGrid, Retained
<1> QED BY <1>6, <1>7

\* An admitted broadcast with state is signed under a pin, or no grid identity and
\* no enforcement applies to it.
LEMMA StateAdmission ==
    ASSUME TrustType, NEW b \in Broadcast, Admitted(b), ~MetadataOnly(b)
    PROVE  \/ /\ b.grid \in Grids /\ VerifiedGrid(b)
              /\ pin[b.grid][b.origin] # Unpinned /\ b.signer \in pin[b.grid][b.origin]
              /\ NetworksAllowed(b)
           \/ ~AnyStrict /\ ~PinnedInAnyGrid(b.origin) /\ ~Strict(b.grid)
BY AbsentValues DEF TrustType, Broadcast, Admitted, AdmittedByPin, AdmittedToBootstrap,
   AdmittedAsLegacy, CertOnly, VerifiedGrid

\* apply_provider_state retains only what the admission entitles it to.
LEMMA ApplyProviderStateSound ==
    ASSUME TrustType, NEW s, Sound(s), NEW b \in Broadcast, Admitted(b), ~MetadataOnly(b)
    PROVE  Sound(ApplyProviderState(s, b))
<1> DEFINE t == ApplyProviderState(s, b)
<1>0. s \in Retained BY DEF Sound, WellFormed
<1>1. /\ b.revision \in Nat /\ b.origin \in Origins /\ b.signer \in Keys \cup {NoKey} /\ b.spend \in Nat
      /\ b.providers \subseteq Identities /\ ScopeOf(b) \in Scopes /\ ScopeOf(b).origin = b.origin
      /\ ScopeOf(b).grid = b.grid
  BY DEF Broadcast, ScopeOf, Scopes
<1>2. VerifiedGrid(b) \in BOOLEAN BY DEF VerifiedGrid
<1>3. OwnProviders(b) \subseteq Identities /\ Incoming(s, b) \subseteq OwnProviders(b)
  BY <1>1 DEF OwnProviders, Incoming
<1>4. ReplaceProviders(s, b) \in [Identities -> Owner \cup {NoOwner}]
  BY <1>0, <1>1, <1>2 DEF ReplaceProviders, Retained, Owner
<1>5. t.latest \in [Scopes -> Nat \cup {None}] /\ t.unverified \in SUBSET Scopes
  BY <1>0, <1>1 DEF ApplyProviderState, Retained
<1>6. t.owner \in [Identities -> Owner \cup {NoOwner}]
  BY <1>0, <1>4 DEF ApplyProviderState, Retained
<1>7. {i.network : i \in Incoming(s, b)} \in SUBSET Networks
  BY <1>3 DEF Identities
<1>8. t.networks \in [Scopes -> SUBSET Networks]
  BY <1>0, <1>1, <1>7 DEF ApplyProviderState, Retained
<1>9. t.spend \in [Origins -> Nat]
  BY <1>0, <1>1 DEF ApplyProviderState, Retained, Larger
<1>10. t.lane = s.lane /\ t.value = s.value
  BY <1>0 DEF ApplyProviderState, Retained
<1>11. t \in Retained
  BY <1>0, <1>5, <1>6, <1>8, <1>9, <1>10 DEF ApplyProviderState, Retained
<1>12. \A sc \in t.unverified : t.latest[sc] # None
  BY <1>0, <1>1 DEF Sound, WellFormed, ApplyProviderState, Retained, None
<1>13. WellFormed(t) BY <1>10, <1>11, <1>12 DEF Sound, WellFormed
<1>14. ASSUME NEW i \in Identities, t.owner[i] # NoOwner
       PROVE  Trusted(i, t.owner[i])
  <2>1. CASE t.owner[i] = s.owner[i]
    BY <1>14, <2>1 DEF Sound, AllTrusted
  <2>2. CASE t.owner[i] # s.owner[i]
    <3>1. CarriesProviderState(b) /\ t.owner = ReplaceProviders(s, b)
      BY <1>0, <2>2 DEF ApplyProviderState, Retained
    <3>2. i \in Incoming(s, b)
      BY <1>14, <2>2, <3>1 DEF ReplaceProviders
    <3>3. t.owner[i] = [scope |-> ScopeOf(b), verified |-> VerifiedGrid(b),
                        revision |-> b.revision, signer |-> b.signer]
      BY <3>1, <3>2 DEF ReplaceProviders
    <3>4. i \in OwnProviders(b) /\ i.site = b.origin
      BY <1>3, <3>2 DEF OwnProviders
    <3> QED
      BY <1>1, <3>1, <3>3, <3>4, StateAdmission, AbsentValues
      DEF Trusted, NetworksAllowed, Strict
  <2> QED BY <2>1, <2>2
<1> QED BY <1>13, <1>14 DEF Sound, AllTrusted

-----------------------------------------------------------------------------
(* The steps. *)

LEMMA InitSound == Init => IInv
BY BoundsAssumption, AbsentValues DEF Init, IInv, TrustType, Pins, Sound, WellFormed, AllTrusted, Retained

\* Making room leaves a sound state.
LEMMA RoomIsSound ==
    ASSUME Sound(st), NEW o \in Origins, NEW s \in MakeRoomFor(o)
    PROVE  Sound(s)
<1>1. KnownOrigins(st) \subseteq Origins BY DEF KnownOrigins, Scopes
<1>2. CASE s = st BY <1>2
<1>3. CASE \E e \in Evictable : s = RemoveOrigin(st, e)
  BY <1>1, <1>3, RemoveOriginSound DEF Evictable
<1> QED BY <1>2, <1>3 DEF MakeRoomFor

LEMMA DeliverSound ==
    ASSUME IInv, NEW b \in Broadcasts, Deliver(b)
    PROVE  IInv'
<1>1. b \in Broadcast /\ b.origin \in Origins BY BroadcastsAssumption DEF Broadcast
<1>2. UNCHANGED <<pin, sitePin, bound, held, cap>>
  BY DEF Deliver, ReceiveMetadata, DropState, RepeatState, ReceiveState, trustVars
<1>3. Sound(st')
  <2>1. CASE ReceiveMetadata(b)
    BY <1>1, <2>1, RoomIsSound, StoreMetadataSound DEF IInv, ReceiveMetadata
  <2>2. CASE DropState(b)
    BY <1>1, <2>2, RoomIsSound DEF IInv, DropState
  <2>3. CASE RepeatState(b)
    BY <1>1, <2>3, StoreMetadataSound DEF IInv, RepeatState
  <2>4. CASE ReceiveState(b)
    <3>1. PICK s \in MakeRoomFor(b.origin) : st' = ApplyProviderState(StoreMetadata(s, b), b)
      BY <2>4 DEF ReceiveState
    <3>2. Sound(StoreMetadata(s, b))
      BY <1>1, RoomIsSound, StoreMetadataSound DEF IInv
    <3> QED BY <1>1, <2>4, <3>1, <3>2, ApplyProviderStateSound DEF IInv, ReceiveState
  <2> QED BY <2>1, <2>2, <2>3, <2>4 DEF Deliver
<1> QED
  BY <1>2, <1>3 DEF IInv, TrustType, Sound, WellFormed, AllTrusted, Trusted, AnyStrict,
     PinnedInAnyGrid, Strict

\* A change of one grid's pin for one origin, with the purge it calls for.
LEMMA PinChangeSound ==
    ASSUME IInv, NEW g \in Grids, NEW o \in Origins, NEW keys \in Pins, SetPin(g, o, keys),
           UNCHANGED <<sitePin, bound, held, cap>>,
           \/ st' = RemoveGrid(st, g, {o})
           \/ st' = st /\ KeepsState(pin[g][o], keys) /\ keys # Unpinned
    PROVE  IInv'
<1>1. TrustType' BY DEF IInv, TrustType, SetPin
<1>2. /\ pin'[g][o] = keys
      /\ \A h \in Grids, p \in Origins : h # g \/ p # o => pin'[h][p] = pin[h][p]
  BY DEF IInv, TrustType, SetPin
<1>3. WellFormed(st') BY RemoveGridPurges DEF IInv, Sound
<1>4. ASSUME NEW i \in Identities, st'.owner[i] # NoOwner
      PROVE  Trusted(i, st.owner[i])'
  <2>1. /\ st.owner[i] # NoOwner /\ st'.owner[i] = st.owner[i]
        /\ Trusted(i, st.owner[i])
    BY <1>4, RemoveGridPurges DEF IInv, Sound, AllTrusted
  <2>2. st.owner[i] \in Owner /\ i.site \in Origins /\ st.owner[i].scope.grid \in Grids \cup {NoGrid}
    BY <2>1 DEF IInv, Sound, WellFormed, Retained, Identities, Owner, Scopes
  <2>3. CASE i.site = o /\ st' = RemoveGrid(st, g, {o})
    <3>1. st.owner[i].scope.grid # g /\ st.owner[i].verified
      BY <1>4, <2>1, <2>3, RemoveGridPurges DEF IInv, Sound, Trusted
    <3> QED BY <1>2, <2>1, <2>2, <3>1, AbsentValues DEF Trusted, Strict
  <2>4. CASE i.site = o /\ st' = st /\ KeepsState(pin[g][o], keys) /\ keys # Unpinned
    BY <1>2, <2>1, <2>2, <2>4, AbsentValues
    DEF Trusted, Strict, AnyStrict, PinnedInAnyGrid, KeepsState
  <2>5. CASE i.site # o
    BY <1>2, <2>1, <2>2, <2>5, AbsentValues DEF Trusted, Strict, AnyStrict, PinnedInAnyGrid
  <2> QED BY <2>3, <2>4, <2>5
<1> QED BY <1>1, <1>3, <1>4 DEF IInv, Sound, AllTrusted

LEMMA EnforceSound ==
    ASSUME IInv, NEW g \in Grids, NEW n \in Networks, EnforceSignedGrid(g, n)
    PROVE  IInv'
<1>1. TrustType' BY DEF IInv, TrustType, EnforceSignedGrid, ForgetPins, Pins
<1>2. WellFormed(st') BY RemoveGridPurges DEF IInv, Sound, EnforceSignedGrid
<1>3. ASSUME NEW i \in Identities, st'.owner[i] # NoOwner
      PROVE  Trusted(i, st.owner[i])'
  <2>1. /\ st.owner[i] # NoOwner /\ st'.owner[i] = st.owner[i] /\ Trusted(i, st.owner[i])
        /\ st.owner[i].scope.origin \in Origins => st.owner[i].scope.grid # g /\ st.owner[i].verified
    BY <1>3, RemoveGridPurges DEF IInv, Sound, AllTrusted, EnforceSignedGrid
  <2>2. i.site \in Origins /\ st.owner[i].scope.grid \in Grids \cup {NoGrid}
    BY <2>1 DEF IInv, Sound, WellFormed, Retained, Identities, Owner, Scopes
  <2>3. st.owner[i].scope.grid # g /\ st.owner[i].verified
    BY <2>1, <2>2 DEF Trusted
  <2> QED
    BY <2>1, <2>2, <2>3, AbsentValues
    DEF Trusted, Strict, EnforceSignedGrid, ForgetPins, IInv, TrustType
<1> QED BY <1>1, <1>2, <1>3 DEF IInv, Sound, AllTrusted

LEMMA RelaxSound ==
    ASSUME IInv, NEW g \in Grids, RelaxSignedGrid(g)
    PROVE  IInv'
<1>1. TrustType' BY DEF IInv, TrustType, RelaxSignedGrid, ForgetPins, Pins
<1>2. ASSUME NEW i \in Identities, st'.owner[i] # NoOwner
      PROVE  Trusted(i, st.owner[i])'
  <2>1. st' = st /\ st.owner[i] # NoOwner /\ Trusted(i, st.owner[i])
    BY <1>2 DEF IInv, Sound, AllTrusted, RelaxSignedGrid
  <2>2. i.site \in Origins /\ st.owner[i].scope.grid \in Grids \cup {NoGrid}
    BY <2>1 DEF IInv, Sound, WellFormed, Retained, Identities, Owner, Scopes
  <2> QED
    BY <2>1, <2>2, AbsentValues
    DEF Trusted, Strict, AnyStrict, PinnedInAnyGrid, RelaxSignedGrid, ForgetPins, IInv, TrustType
<1> QED BY <1>1, <1>2 DEF IInv, Sound, AllTrusted, WellFormed, RelaxSignedGrid

\* The steps that change neither a grid's pins nor its binding.
LEMMA OtherControlSound ==
    ASSUME IInv, UNCHANGED <<pin, bound>>, Sound(st'),
           sitePin' \in [Origins -> Pins], held' \in BOOLEAN, cap' \in Nat
    PROVE  IInv'
BY DEF IInv, TrustType, Sound, WellFormed, AllTrusted, Trusted, AnyStrict, PinnedInAnyGrid, Strict

LEMMA Invariance == IInv /\ [Next]_vars => IInv'
<1> SUFFICES ASSUME IInv, [Next]_vars PROVE IInv' OBVIOUS
<1> USE DEF trustVars
<1>t. TrustType /\ Sound(st) BY DEF IInv
<1>1. CASE HoldStateAdmission \/ OpenStateAdmission
  BY <1>1, <1>t, OtherControlSound DEF HoldStateAdmission, OpenStateAdmission, TrustType
<1>2. CASE Tick
  BY <1>2, <1>t, OtherControlSound DEF Tick, TrustType
<1>3. ASSUME NEW o \in Origins, NEW keys \in SUBSET Keys, PinOrigin(o, keys) PROVE IInv'
  <2>1. Sound(st') BY <1>3, <1>t, RemoveOriginSound DEF PinOrigin
  <2>2. sitePin' \in [Origins -> Pins] BY <1>3, <1>t DEF PinOrigin, TrustType, Pins
  <2> QED BY <1>3, <1>t, <2>1, <2>2, OtherControlSound DEF PinOrigin, TrustType
<1>4. ASSUME NEW o \in Origins, UnpinOrigin(o) PROVE IInv'
  <2>1. sitePin' \in [Origins -> Pins] BY <1>4, <1>t DEF UnpinOrigin, TrustType, Pins
  <2> QED BY <1>4, <1>t, <2>1, OtherControlSound DEF UnpinOrigin, TrustType
<1>5. ASSUME NEW o \in Origins, EvictOrigin(o) PROVE IInv'
  BY <1>5, <1>t, RemoveOriginSound, OtherControlSound DEF EvictOrigin, TrustType
<1>6. ASSUME NEW o \in Origins, ForgetDepartedOrigin(o) PROVE IInv'
  BY <1>6, <1>t, ForgetDepartedSound, OtherControlSound DEF ForgetDepartedOrigin, TrustType
<1>7. ASSUME NEW g \in Grids, RelaxSignedGrid(g) PROVE IInv'
  BY <1>7, RelaxSound
<1>8. ASSUME NEW g \in Grids, NEW n \in Networks, EnforceSignedGrid(g, n) PROVE IInv'
  BY <1>8, EnforceSound
<1>9. ASSUME NEW g \in Grids, NEW o \in Origins, UnpinOriginForGrid(g, o) PROVE IInv'
  BY <1>9, PinChangeSound DEF UnpinOriginForGrid, Pins
<1>10. ASSUME NEW g \in Grids, NEW o \in Origins, ClearOriginPinForGrid(g, o) PROVE IInv'
  BY <1>10, PinChangeSound DEF ClearOriginPinForGrid, Pins
<1>11. ASSUME NEW g \in Grids, NEW o \in Origins, NEW keys \in SUBSET Keys, PinOriginForGrid(g, o, keys)
       PROVE  IInv'
  BY <1>11, PinChangeSound, AbsentValues DEF PinOriginForGrid, Pins
<1>12. ASSUME NEW b \in Broadcasts, Deliver(b) PROVE IInv'
  BY <1>12, DeliverSound
<1>13. CASE UNCHANGED vars
  BY <1>13, <1>t, OtherControlSound DEF vars, TrustType
<1> QED
  BY <1>1, <1>2, <1>3, <1>4, <1>5, <1>6, <1>7, <1>8, <1>9, <1>10, <1>11, <1>12, <1>13
  DEF Next, Control

-----------------------------------------------------------------------------
(* The theorems. *)

\* The inductive invariant holds throughout.
THEOREM Soundness == Spec => []IInv
BY InitSound, Invariance, PTL DEF Spec

\* The retained state keeps its shape: every published value and every unverified
\* scope has its revision guard.
THEOREM TypeCorrect == Spec => []TypeOK
<1>1. IInv => TypeOK BY InvariantParts
<1> QED BY <1>1, Soundness, PTL

\* Under any enforced grid, and for any site with a grid identity, only verified
\* state is retained, whatever was admitted before.
THEOREM VerifiedOnly == Spec => []OnlyVerified
<1>1. IInv => OnlyVerified BY InvariantParts
<1> QED BY <1>1, Soundness, PTL

\* In an enforced grid, what is retained was signed by a key still pinned, in the
\* network the grid is bound to, through rotation, revocation and rebinding.
THEOREM EnforcementHolds == Spec => []EnforcedStateIsTrusted
<1>1. IInv => EnforcedStateIsTrusted BY InvariantParts
<1> QED BY <1>1, Soundness, PTL

\* No site's broadcast puts a provider under another site's name.
THEOREM NoImpersonation == Spec => []SitesSpeakForThemselves
<1>1. IInv => SitesSpeakForThemselves BY InvariantParts
<1> QED BY <1>1, Soundness, PTL
-----------------------------------------------------------------------------
(* What each operation does to the origins known, the guards and the spend. *)

LEMMA KnownMeans ==
    ASSUME NEW s, NEW o
    PROVE  o \in KnownOrigins(s) <=>
             \/ \E sc \in Scopes : sc.origin = o /\ (s.latest[sc] # None \/ s.networks[sc] # {})
             \/ o \in Origins /\ \E l \in Lanes : s.lane[l][o] # None \/ o \in s.value[l]
BY DEF KnownOrigins

\* remove_origin forgets that origin and no other.
LEMMA RemoveOriginEffect ==
    ASSUME NEW s, s \in Retained, NEW o \in Origins
    PROVE  LET t == RemoveOrigin(s, o)
           IN  /\ KnownOrigins(t) = KnownOrigins(s) \ {o}
               /\ \A sc \in Scopes : t.latest[sc] = IF sc.origin = o THEN None ELSE s.latest[sc]
               /\ \A l \in Lanes, p \in Origins : t.lane[l][p] = IF p = o THEN None ELSE s.lane[l][p]
               /\ t.spend = s.spend
<1> DEFINE t == RemoveOrigin(s, o)
<1>1. /\ \A sc \in Scopes : t.latest[sc] = IF sc.origin = o THEN None ELSE s.latest[sc]
      /\ \A sc \in Scopes : t.networks[sc] = IF sc.origin = o THEN {} ELSE s.networks[sc]
      /\ \A l \in Lanes : t.value[l] = s.value[l] \ {o}
      /\ t.spend = s.spend
  BY DEF RemoveOrigin
<1>2. \A l \in Lanes, p \in Origins : t.lane[l][p] = IF p = o THEN None ELSE s.lane[l][p]
  BY DEF RemoveOrigin
<1> HIDE DEF t
<1>3. ASSUME NEW p PROVE p \in KnownOrigins(t) <=> p \in KnownOrigins(s) \ {o}
  <2>1. CASE p = o
    <3>1. \A sc \in Scopes : sc.origin = o => t.latest[sc] = None /\ t.networks[sc] = {}
      BY <1>1
    <3>2. \A l \in Lanes : t.lane[l][o] = None /\ o \notin t.value[l]
      BY <1>1, <1>2
    <3> QED BY <2>1, <3>1, <3>2, KnownMeans
  <2>2. CASE p # o
    <3>1. \A sc \in Scopes : sc.origin = p => t.latest[sc] = s.latest[sc] /\ t.networks[sc] = s.networks[sc]
      BY <1>1, <2>2
    <3>2. p \in Origins => \A l \in Lanes : t.lane[l][p] = s.lane[l][p] /\ (p \in t.value[l] <=> p \in s.value[l])
      BY <1>1, <1>2, <2>2
    <3>3. p \in KnownOrigins(t) <=> p \in KnownOrigins(s)
      BY <3>1, <3>2, KnownMeans
    <3> QED BY <2>2, <3>3
  <2> QED BY <2>1, <2>2
<1>4. KnownOrigins(t) = KnownOrigins(s) \ {o} BY <1>3
<1> QED BY <1>1, <1>2, <1>4 DEF t

\* remove_grid drops guards of scopes, and no guard of a lane.
LEMMA RemoveGridEffect ==
    ASSUME NEW s, s \in Retained, NEW g \in Grids, NEW os \in SUBSET Origins
    PROVE  LET t == RemoveGrid(s, g, os)
           IN  /\ KnownOrigins(t) \subseteq KnownOrigins(s)
               /\ \A sc \in Scopes : t.latest[sc] \in {None, s.latest[sc]}
               /\ t.lane = s.lane
               /\ t.spend = s.spend
<1> DEFINE t == RemoveGrid(s, g, os)
<1>1. /\ \A sc \in Scopes : t.latest[sc] \in {None, s.latest[sc]}
      /\ \A sc \in Scopes : t.networks[sc] \in {{}, s.networks[sc]}
      /\ t.lane = s.lane /\ t.value = s.value /\ t.spend = s.spend
  BY DEF RemoveGrid, Retained
<1> HIDE DEF t
<1>2. ASSUME NEW p \in KnownOrigins(t) PROVE p \in KnownOrigins(s)
  BY <1>1, KnownMeans
<1> QED BY <1>1, <1>2 DEF t

\* forget_departed drops values, and no guard.
LEMMA ForgetDepartedEffect ==
    ASSUME NEW s, s \in Retained, NEW o \in Origins
    PROVE  LET t == ForgetDeparted(s, o)
           IN  /\ KnownOrigins(t) \subseteq KnownOrigins(s)
               /\ t.latest = s.latest /\ t.lane = s.lane /\ t.spend = s.spend
<1> DEFINE t == ForgetDeparted(s, o)
<1>1. /\ t.latest = s.latest /\ t.networks = s.networks /\ t.lane = s.lane /\ t.spend = s.spend
      /\ \A l \in Lanes : t.value[l] \subseteq s.value[l]
  BY DEF ForgetDeparted, Retained
<1> HIDE DEF t
<1>2. ASSUME NEW p \in KnownOrigins(t) PROVE p \in KnownOrigins(s)
  BY <1>1, KnownMeans
<1> QED BY <1>1, <1>2 DEF t

\* A guard a newer or a plausible revision replaces.
Advances(old, new) == old # None => new >= old \/ old > cap

\* store_metadata moves the guards of the sender's lanes on.
LEMMA StoreMetadataEffect ==
    ASSUME NEW s, WellFormed(s), cap \in Nat, NEW b \in Broadcast
    PROVE  LET t == StoreMetadata(s, b)
           IN  /\ KnownOrigins(s) \subseteq KnownOrigins(t) /\ KnownOrigins(t) \subseteq KnownOrigins(s) \cup {b.origin}
               /\ t \in Retained /\ t.latest = s.latest /\ t.spend = s.spend
               /\ \A l \in Lanes, o \in Origins : Advances(s.lane[l][o], t.lane[l][o])
<1> DEFINE t == StoreMetadata(s, b)
<1>0. s \in Retained /\ b.revision \in Nat /\ b.origin \in Origins
  BY DEF WellFormed, Broadcast
<1>1. /\ t.latest = s.latest /\ t.networks = s.networks /\ t.spend = s.spend
      /\ t.unverified = s.unverified /\ t.owner = s.owner
  BY <1>0 DEF StoreMetadata, Retained
<1>2. \A l \in Lanes, o \in Origins :
        \/ t.lane[l][o] = s.lane[l][o]
        \/ o = b.origin /\ t.lane[l][o] = b.revision /\ ~Outranks(s.lane[l][o], b.revision)
  BY <1>0 DEF StoreMetadata, Retained
<1>3. \A l \in Lanes : s.value[l] \subseteq t.value[l] /\ t.value[l] \subseteq s.value[l] \cup {b.origin}
  BY <1>0 DEF StoreMetadata, Retained
<1>4. t \in Retained
  <2>1. t.lane \in [Lanes -> [Origins -> Nat \cup {None}]]
    BY <1>0 DEF StoreMetadata, Retained
  <2>2. t.value \in [Lanes -> SUBSET Origins]
    BY <1>0 DEF StoreMetadata, Retained
  <2> QED BY <1>0, <1>1, <2>1, <2>2 DEF StoreMetadata, Retained
<1> HIDE DEF t
<1>5. \A l \in Lanes, o \in Origins : s.lane[l][o] \in Nat \cup {None}
  BY <1>0 DEF Retained
<1>6. \A l \in Lanes, o \in Origins : Advances(s.lane[l][o], t.lane[l][o])
  BY <1>0, <1>2, <1>5 DEF Advances, Outranks, None
<1>7. \A l \in Lanes, o \in Origins : s.lane[l][o] # None => t.lane[l][o] # None
  BY <1>0, <1>2 DEF None
<1>8. ASSUME NEW p \in KnownOrigins(s) PROVE p \in KnownOrigins(t)
  BY <1>1, <1>3, <1>7, KnownMeans
<1>9. ASSUME NEW p \in KnownOrigins(t), p # b.origin PROVE p \in KnownOrigins(s)
  BY <1>1, <1>2, <1>3, <1>9, KnownMeans
<1> QED BY <1>1, <1>4, <1>6, <1>8, <1>9 DEF t

\* apply_provider_state sets the guard of the broadcast's scope.
LEMMA ApplyProviderStateEffect ==
    ASSUME NEW s, s \in Retained, NEW b \in Broadcast
    PROVE  LET t == ApplyProviderState(s, b)
           IN  /\ KnownOrigins(s) \subseteq KnownOrigins(t) /\ KnownOrigins(t) \subseteq KnownOrigins(s) \cup {b.origin}
               /\ t.latest = [s.latest EXCEPT ![ScopeOf(b)] = b.revision]
               /\ t.lane = s.lane
               /\ \A o \in Origins : t.spend[o] >= s.spend[o]
<1> DEFINE t == ApplyProviderState(s, b)
<1>0. /\ b.revision \in Nat /\ b.origin \in Origins /\ b.spend \in Nat
      /\ ScopeOf(b) \in Scopes /\ ScopeOf(b).origin = b.origin
  BY DEF Broadcast, ScopeOf, Scopes
<1>1. /\ t.latest = [s.latest EXCEPT ![ScopeOf(b)] = b.revision]
      /\ t.lane = s.lane /\ t.value = s.value
      /\ t.spend = [s.spend EXCEPT ![b.origin] = Larger(s.spend[b.origin], b.spend)]
      /\ \A sc \in Scopes : sc # ScopeOf(b) => t.networks[sc] = s.networks[sc]
  BY DEF ApplyProviderState, Retained
<1>2. s.latest \in [Scopes -> Nat \cup {None}] /\ s.spend \in [Origins -> Nat]
  BY DEF Retained
<1> HIDE DEF t
<1>3. \A o \in Origins : t.spend[o] >= s.spend[o]
  BY <1>0, <1>1, <1>2 DEF Larger
<1>4. /\ t.latest[ScopeOf(b)] # None
      /\ \A sc \in Scopes : sc # ScopeOf(b) => t.latest[sc] = s.latest[sc]
  BY <1>0, <1>1, <1>2 DEF None
<1>5. b.origin \in KnownOrigins(t)
  BY <1>0, <1>4, KnownMeans
<1>6. ASSUME NEW p, p # b.origin PROVE p \in KnownOrigins(t) <=> p \in KnownOrigins(s)
  <2>1. \A sc \in Scopes : sc.origin = p => t.latest[sc] = s.latest[sc] /\ t.networks[sc] = s.networks[sc]
    BY <1>0, <1>1, <1>4, <1>6
  <2>2. t.lane = s.lane /\ t.value = s.value BY <1>1
  <2> QED BY <2>1, <2>2, KnownMeans
<1> QED BY <1>1, <1>3, <1>5, <1>6 DEF t

-----------------------------------------------------------------------------
(* What a delivery does. *)

\* Only an unpinned origin makes room, and only when there is none.
LEMMA RoomEffect ==
    ASSUME Sound(st), NEW o \in Origins, NEW s \in MakeRoomFor(o)
    PROVE  /\ WellFormed(s)
           /\ \/ s = st /\ (o \in KnownOrigins(st) \/ Cardinality(KnownOrigins(st)) < MaxOrigins)
              \/ /\ o \notin KnownOrigins(st)
                 /\ \E e \in KnownOrigins(st) :
                      s = RemoveOrigin(st, e) /\ e \in Origins /\ ~SitePinned(e) /\ ~PinnedInAnyGrid(e)
<1>1. WellFormed(s) BY RoomIsSound DEF Sound
<1>2. KnownOrigins(st) \subseteq Origins BY DEF KnownOrigins, Scopes
<1> QED BY <1>1, <1>2 DEF MakeRoomFor, Evictable

\* A delivery changes the state made room in by the sender's metadata, its
\* provider state, or not at all.
LEMMA DeliverEffect ==
    ASSUME IInv, NEW b \in Broadcasts, Deliver(b)
    PROVE  /\ b \in Broadcast /\ b.origin \in Origins /\ UNCHANGED <<trustVars, cap>>
           /\ \E s \in MakeRoomFor(b.origin) :
                \/ st' = s \/ st' = StoreMetadata(s, b)
                \/ /\ st' = ApplyProviderState(StoreMetadata(s, b), b)
                   /\ HasRoomForScope(s, ScopeOf(b)) /\ ~Stale(s, b)
<1>1. b \in Broadcast /\ b.origin \in Origins BY BroadcastsAssumption DEF Broadcast
<1>2. UNCHANGED <<trustVars, cap>>
  BY DEF Deliver, ReceiveMetadata, DropState, RepeatState, ReceiveState
<1>3. CASE RepeatState(b)
  <2>1. ScopeOf(b) \in Scopes /\ ScopeOf(b).origin = b.origin /\ b.revision \in Nat
    BY <1>1 DEF Broadcast, ScopeOf, Scopes
  <2>2. b.origin \in KnownOrigins(st)
    BY <1>3, <2>1, KnownMeans DEF RepeatState, None
  <2>3. st \in MakeRoomFor(b.origin) BY <2>2 DEF MakeRoomFor
  <2> QED BY <1>1, <1>2, <1>3, <2>3 DEF RepeatState
<1> QED
  BY <1>1, <1>2, <1>3 DEF Deliver, ReceiveMetadata, DropState, ReceiveState

-----------------------------------------------------------------------------
(* Capacity. *)

HeldScopes(s) == {sc \in Scopes : s.latest[sc] # None}

\* `WithinCapacity' says nothing of an infinite set.
Capacity(s) ==
    /\ IsFiniteSet(KnownOrigins(s)) /\ Cardinality(KnownOrigins(s)) <= MaxOrigins
    /\ IsFiniteSet(HeldScopes(s)) /\ Cardinality(HeldScopes(s)) <= MaxScopes

LEMMA SmallerFits ==
    ASSUME NEW s, NEW t, Capacity(s), KnownOrigins(t) \subseteq KnownOrigins(s), HeldScopes(t) \subseteq HeldScopes(s)
    PROVE  Capacity(t)
<1>1. /\ IsFiniteSet(KnownOrigins(t)) /\ Cardinality(KnownOrigins(t)) <= Cardinality(KnownOrigins(s))
      /\ IsFiniteSet(HeldScopes(t)) /\ Cardinality(HeldScopes(t)) <= Cardinality(HeldScopes(s))
  BY FS_Subset DEF Capacity
<1>2. /\ Cardinality(KnownOrigins(t)) \in Nat /\ Cardinality(KnownOrigins(s)) \in Nat
      /\ Cardinality(HeldScopes(t)) \in Nat /\ Cardinality(HeldScopes(s)) \in Nat
  BY <1>1, FS_CardinalityType DEF Capacity
<1> QED BY <1>1, <1>2, BoundsAssumption DEF Capacity

\* A set with room for one more element.
LEMMA OneMoreFits ==
    ASSUME NEW S, IsFiniteSet(S), NEW x, NEW max \in Nat, Cardinality(S) <= max, x \in S \/ Cardinality(S) < max,
           NEW T, T \subseteq S \cup {x}
    PROVE  IsFiniteSet(T) /\ Cardinality(T) <= max
<1>1. IsFiniteSet(S \cup {x}) /\ Cardinality(S \cup {x}) = IF x \in S THEN Cardinality(S) ELSE Cardinality(S) + 1
  BY FS_AddElement
<1>2. IsFiniteSet(T) /\ Cardinality(T) <= Cardinality(S \cup {x})
  BY <1>1, FS_Subset
<1>3. Cardinality(S) \in Nat /\ Cardinality(S \cup {x}) \in Nat /\ Cardinality(T) \in Nat
  BY <1>1, <1>2, FS_CardinalityType
<1> QED BY <1>1, <1>2, <1>3

LEMMA DeliverFits ==
    ASSUME IInv, Capacity(st), NEW b \in Broadcasts, Deliver(b)
    PROVE  Capacity(st')
<1>1. b \in Broadcast /\ b.origin \in Origins BY DeliverEffect
<1>2. PICK s \in MakeRoomFor(b.origin) :
        \/ st' = s \/ st' = StoreMetadata(s, b)
        \/ /\ st' = ApplyProviderState(StoreMetadata(s, b), b)
           /\ HasRoomForScope(s, ScopeOf(b)) /\ ~Stale(s, b)
  BY DeliverEffect
<1>3. st \in Retained /\ cap \in Nat BY DEF IInv, Sound, WellFormed, TrustType
<1>4. WellFormed(s) BY <1>1, RoomEffect DEF IInv
<1>5. /\ Capacity(s)
      /\ b.origin \in KnownOrigins(s) \/ Cardinality(KnownOrigins(s)) < MaxOrigins
  <2>1. CASE s = st /\ (b.origin \in KnownOrigins(st) \/ Cardinality(KnownOrigins(st)) < MaxOrigins)
    BY <2>1
  <2>2. ASSUME NEW e \in KnownOrigins(st), s = RemoveOrigin(st, e), e \in Origins
        PROVE  Capacity(s) /\ Cardinality(KnownOrigins(s)) < MaxOrigins
    <3>1. /\ KnownOrigins(s) = KnownOrigins(st) \ {e}
          /\ \A sc \in Scopes : s.latest[sc] = IF sc.origin = e THEN None ELSE st.latest[sc]
      BY <1>3, <2>2, RemoveOriginEffect
    <3>2. HeldScopes(s) \subseteq HeldScopes(st) BY <3>1 DEF HeldScopes
    <3>3. Capacity(s) BY <3>1, <3>2, SmallerFits
    <3>4. Cardinality(KnownOrigins(s)) = Cardinality(KnownOrigins(st)) - 1
      BY <3>1, FS_RemoveElement DEF Capacity
    <3>5. Cardinality(KnownOrigins(st)) \in Nat BY FS_CardinalityType DEF Capacity
    <3> QED BY <3>3, <3>4, <3>5, BoundsAssumption DEF Capacity
  <2> QED BY <1>1, <2>1, <2>2, RoomEffect DEF IInv
<1>6. CASE st' = s BY <1>5, <1>6
<1> DEFINE t == StoreMetadata(s, b)
<1>7. t.latest = s.latest /\ t \in Retained /\ KnownOrigins(t) \subseteq KnownOrigins(s) \cup {b.origin}
  BY <1>1, <1>3, <1>4, StoreMetadataEffect
<1>8. CASE st' = t
  <2>1. IsFiniteSet(KnownOrigins(t)) /\ Cardinality(KnownOrigins(t)) <= MaxOrigins
    BY <1>5, <1>7, OneMoreFits, BoundsAssumption DEF Capacity
  <2> QED BY <1>5, <1>7, <1>8, <2>1 DEF Capacity, HeldScopes
<1>9. CASE st' = ApplyProviderState(t, b) /\ HasRoomForScope(s, ScopeOf(b))
  <2> HIDE DEF t
  <2>1. /\ KnownOrigins(st') \subseteq KnownOrigins(t) \cup {b.origin}
        /\ st'.latest = [t.latest EXCEPT ![ScopeOf(b)] = b.revision]
    BY <1>1, <1>7, <1>9, ApplyProviderStateEffect
  <2>2. ScopeOf(b) \in Scopes BY <1>1 DEF Broadcast, ScopeOf, Scopes
  <2>3. t.latest = s.latest /\ s.latest \in [Scopes -> Nat \cup {None}] BY <1>4, <1>7 DEF WellFormed, Retained
  <2>4. HeldScopes(st') \subseteq HeldScopes(s) \cup {ScopeOf(b)} BY <2>1, <2>2, <2>3 DEF HeldScopes
  <2>5. ScopeOf(b) \in HeldScopes(s) \/ Cardinality(HeldScopes(s)) < MaxScopes
    BY <1>9, <2>2 DEF HasRoomForScope, HeldScopes
  <2>6. IsFiniteSet(HeldScopes(st')) /\ Cardinality(HeldScopes(st')) <= MaxScopes
    BY <1>5, <2>4, <2>5, OneMoreFits, BoundsAssumption DEF Capacity
  <2>7. KnownOrigins(st') \subseteq KnownOrigins(s) \cup {b.origin} BY <1>7, <2>1
  <2>8. IsFiniteSet(KnownOrigins(st')) /\ Cardinality(KnownOrigins(st')) <= MaxOrigins
    BY <1>5, <2>7, OneMoreFits, BoundsAssumption DEF Capacity
  <2> QED BY <2>6, <2>8 DEF Capacity
<1> QED BY <1>2, <1>6, <1>8, <1>9

\* Control operations and the clock only ever take state away.
LEMMA ControlEffect ==
    ASSUME IInv, [Control \/ Tick]_vars
    PROVE  \/ st' = st
           \/ \E o \in Origins : st' = RemoveOrigin(st, o) \/ st' = ForgetDeparted(st, o)
           \/ \E g \in Grids, os \in SUBSET Origins : st' = RemoveGrid(st, g, os)
<1>1. ASSUME NEW g \in Grids, NEW os \in SUBSET Origins, st' = RemoveGrid(st, g, os)
      PROVE  \E h \in Grids, ps \in SUBSET Origins : st' = RemoveGrid(st, h, ps)
  BY <1>1
<1>2. ASSUME NEW g \in Grids, NEW o \in Origins, UnpinOriginForGrid(g, o) \/ ClearOriginPinForGrid(g, o)
      PROVE  \E h \in Grids, ps \in SUBSET Origins : st' = RemoveGrid(st, h, ps)
  BY <1>1, <1>2 DEF UnpinOriginForGrid, ClearOriginPinForGrid
<1>3. ASSUME NEW g \in Grids, NEW o \in Origins, NEW keys \in SUBSET Keys, PinOriginForGrid(g, o, keys)
      PROVE  st' = st \/ \E h \in Grids, ps \in SUBSET Origins : st' = RemoveGrid(st, h, ps)
  BY <1>1, <1>3 DEF PinOriginForGrid
<1>4. ASSUME NEW g \in Grids, NEW n \in Networks, EnforceSignedGrid(g, n)
      PROVE  \E h \in Grids, ps \in SUBSET Origins : st' = RemoveGrid(st, h, ps)
  BY <1>1, <1>4 DEF EnforceSignedGrid
<1> QED
  BY <1>2, <1>3, <1>4
  DEF Control, Tick, vars, trustVars, HoldStateAdmission, OpenStateAdmission, PinOrigin, UnpinOrigin,
      EvictOrigin, ForgetDepartedOrigin, RelaxSignedGrid

LEMMA ControlKnown ==
    ASSUME IInv, [Control \/ Tick]_vars
    PROVE  /\ KnownOrigins(st') \subseteq KnownOrigins(st)
           /\ \A sc \in Scopes : st'.latest[sc] \in {None, st.latest[sc]}
           /\ \A l \in Lanes, o \in KnownOrigins(st') : st'.lane[l][o] = st.lane[l][o]
           /\ st'.spend = st.spend
<1>1. st \in Retained BY DEF IInv, Sound, WellFormed
<1>2. \A t : KnownOrigins(t) \subseteq Origins BY DEF KnownOrigins, Scopes
<1>3. CASE st' = st BY <1>3
<1>4. ASSUME NEW o \in Origins, st' = RemoveOrigin(st, o)
      PROVE  /\ KnownOrigins(st') \subseteq KnownOrigins(st)
             /\ \A sc \in Scopes : st'.latest[sc] \in {None, st.latest[sc]}
             /\ \A l \in Lanes, p \in KnownOrigins(st') : st'.lane[l][p] = st.lane[l][p]
             /\ st'.spend = st.spend
  <2>1. KnownOrigins(st') = KnownOrigins(st) \ {o} BY <1>1, <1>4, RemoveOriginEffect
  <2>2. \A sc \in Scopes : st'.latest[sc] \in {None, st.latest[sc]} BY <1>1, <1>4, RemoveOriginEffect
  <2>3. \A l \in Lanes, p \in Origins : p # o => st'.lane[l][p] = st.lane[l][p]
    BY <1>1, <1>4, RemoveOriginEffect
  <2>4. st'.spend = st.spend BY <1>1, <1>4, RemoveOriginEffect
  <2> QED BY <1>2, <2>1, <2>2, <2>3, <2>4
<1>5. ASSUME NEW o \in Origins, st' = ForgetDeparted(st, o)
      PROVE  /\ KnownOrigins(st') \subseteq KnownOrigins(st)
             /\ st'.latest = st.latest /\ st'.lane = st.lane /\ st'.spend = st.spend
  BY <1>1, <1>5, ForgetDepartedEffect
<1>6. ASSUME NEW g \in Grids, NEW os \in SUBSET Origins, st' = RemoveGrid(st, g, os)
      PROVE  /\ KnownOrigins(st') \subseteq KnownOrigins(st)
             /\ \A sc \in Scopes : st'.latest[sc] \in {None, st.latest[sc]}
             /\ st'.lane = st.lane /\ st'.spend = st.spend
  BY <1>1, <1>6, RemoveGridEffect
<1> QED BY <1>3, <1>4, <1>5, <1>6, ControlEffect

LEMMA CapacityStep == IInv /\ Capacity(st) /\ [Next]_vars => Capacity(st')
<1> SUFFICES ASSUME IInv, Capacity(st), [Next]_vars PROVE Capacity(st') OBVIOUS
<1>1. CASE [Control \/ Tick]_vars
  <2>1. HeldScopes(st') \subseteq HeldScopes(st) BY <1>1, ControlKnown DEF HeldScopes
  <2>2. KnownOrigins(st') \subseteq KnownOrigins(st) BY <1>1, ControlKnown
  <2> QED BY <2>1, <2>2, SmallerFits
<1>2. ASSUME NEW b \in Broadcasts, Deliver(b) PROVE Capacity(st')
  BY <1>2, DeliverFits
<1> QED BY <1>1, <1>2 DEF Next

LEMMA CapacityInit == Init => Capacity(st)
<1> SUFFICES ASSUME Init PROVE Capacity(st) OBVIOUS
<1>1. HeldScopes(st) = {} BY DEF Init, HeldScopes
<1>2. /\ \A sc \in Scopes : st.latest[sc] = None /\ st.networks[sc] = {}
      /\ \A l \in Lanes, o \in Origins : st.lane[l][o] = None /\ o \notin st.value[l]
  BY DEF Init
<1>3. KnownOrigins(st) = {} BY <1>2 DEF KnownOrigins
<1> QED BY <1>1, <1>3, FS_EmptySet, BoundsAssumption DEF Capacity

\* However many origins and scopes peers name, what is retained of them stays
\* within max_origins and max_scopes: make_room_for and has_room_for_scope run
\* before anything is stored.
THEOREM CapacityBound == Spec => []WithinCapacity
<1>1. Capacity(st) => WithinCapacity BY DEF Capacity, HeldScopes, WithinCapacity
<1>2. Capacity(st) /\ IInv /\ [Next]_vars => Capacity(st)' BY CapacityStep
<1> QED BY <1>1, <1>2, CapacityInit, Soundness, PTL DEF Spec

\* make_room_for evicts no pinned origin: a pinned origin is forgotten only by
\* a control operation, which brings no other origin in.
THEOREM PressureSparesPinned == Spec => PinnedSurvivePressure
<1>1. ASSUME IInv, [Next]_vars, NEW o \in KnownOrigins(st) \ KnownOrigins(st'), SitePinned(o) \/ PinnedInAnyGrid(o)
      PROVE  KnownOrigins(st') \subseteq KnownOrigins(st)
  <2>1. CASE [Control \/ Tick]_vars BY <1>1, <2>1, ControlKnown
  <2>2. ASSUME NEW b \in Broadcasts, Deliver(b) PROVE FALSE
    <3>1. b \in Broadcast /\ b.origin \in Origins BY <2>2, <1>1, DeliverEffect
    <3>2. PICK s \in MakeRoomFor(b.origin) :
            st' = s \/ st' = StoreMetadata(s, b) \/ st' = ApplyProviderState(StoreMetadata(s, b), b)
      BY <2>2, <1>1, DeliverEffect
    <3>3. st \in Retained /\ cap \in Nat BY <1>1 DEF IInv, Sound, WellFormed, TrustType
    <3>4. WellFormed(s) BY <1>1, <3>1, RoomEffect DEF IInv
    <3>5. o \in KnownOrigins(s)
      <4>1. CASE s = st BY <4>1
      <4>2. ASSUME NEW e \in Origins, s = RemoveOrigin(st, e), ~SitePinned(e) /\ ~PinnedInAnyGrid(e)
            PROVE  o \in KnownOrigins(s)
        <5>1. KnownOrigins(s) = KnownOrigins(st) \ {e} BY <3>3, <4>2, RemoveOriginEffect
        <5>2. o # e BY <1>1, <4>2
        <5> QED BY <5>1, <5>2
      <4> QED BY <1>1, <3>1, <4>1, <4>2, RoomEffect DEF IInv
    <3>6. o \in KnownOrigins(StoreMetadata(s, b)) /\ StoreMetadata(s, b) \in Retained
      BY <3>1, <3>3, <3>4, <3>5, StoreMetadataEffect
    <3>7. o \in KnownOrigins(ApplyProviderState(StoreMetadata(s, b), b))
      BY <3>1, <3>6, ApplyProviderStateEffect
    <3> QED BY <3>2, <3>5, <3>6, <3>7
  <2> QED BY <1>1, <2>1, <2>2 DEF Next
<1>2. IInv /\ [Next]_vars =>
        [\A o \in KnownOrigins(st) \ KnownOrigins(st') :
            SitePinned(o) \/ PinnedInAnyGrid(o) => KnownOrigins(st') \subseteq KnownOrigins(st)]_vars
  BY <1>1
<1> QED BY <1>2, Soundness, PTL DEF Spec, PinnedSurvivePressure

\* What a delivery does to the guards and the spend.
LEMMA DeliverAdvances ==
    ASSUME IInv, NEW b \in Broadcasts, Deliver(b)
    PROVE  /\ \A sc \in Scopes : st'.latest[sc] = None \/ Advances(st.latest[sc], st'.latest[sc])
           /\ \A l \in Lanes, o \in KnownOrigins(st') : Advances(st.lane[l][o], st'.lane[l][o])
           /\ \A o \in Origins : st'.spend[o] >= st.spend[o]
<1>1. b \in Broadcast /\ b.origin \in Origins BY DeliverEffect
<1>2. PICK s \in MakeRoomFor(b.origin) :
        \/ st' = s \/ st' = StoreMetadata(s, b)
        \/ st' = ApplyProviderState(StoreMetadata(s, b), b) /\ ~Stale(s, b)
  BY DeliverEffect
<1>3. st \in Retained /\ cap \in Nat BY DEF IInv, Sound, WellFormed, TrustType
<1>4. WellFormed(s) BY <1>1, RoomEffect DEF IInv
<1>5. PICK gone \in SUBSET (Origins \ {b.origin}) :
        /\ \A sc \in Scopes : s.latest[sc] = IF sc.origin \in gone THEN None ELSE st.latest[sc]
        /\ \A l \in Lanes, o \in Origins : s.lane[l][o] = IF o \in gone THEN None ELSE st.lane[l][o]
        /\ s.spend = st.spend
        /\ gone \cap KnownOrigins(s) = {}
  <2>1. CASE s = st
    <3>1. {} \in SUBSET (Origins \ {b.origin}) OBVIOUS
    <3> QED BY <2>1, <3>1
  <2>2. ASSUME NEW e \in KnownOrigins(st), s = RemoveOrigin(st, e), e \in Origins, b.origin \notin KnownOrigins(st)
        PROVE  /\ {e} \in SUBSET (Origins \ {b.origin})
               /\ \A sc \in Scopes : s.latest[sc] = IF sc.origin \in {e} THEN None ELSE st.latest[sc]
               /\ \A l \in Lanes, o \in Origins : s.lane[l][o] = IF o \in {e} THEN None ELSE st.lane[l][o]
               /\ s.spend = st.spend
               /\ {e} \cap KnownOrigins(s) = {}
    <3>1. KnownOrigins(s) = KnownOrigins(st) \ {e} BY <1>3, <2>2, RemoveOriginEffect
    <3>2. /\ \A sc \in Scopes : s.latest[sc] = IF sc.origin = e THEN None ELSE st.latest[sc]
          /\ \A l \in Lanes, o \in Origins : s.lane[l][o] = IF o = e THEN None ELSE st.lane[l][o]
          /\ s.spend = st.spend
      BY <1>3, <2>2, RemoveOriginEffect
    <3> QED BY <2>2, <3>1, <3>2
  <2> QED BY <1>1, <2>1, <2>2, RoomEffect DEF IInv
<1>6. \A t : KnownOrigins(t) \subseteq Origins BY DEF KnownOrigins, Scopes
<1>7. /\ \A sc \in Scopes : st.latest[sc] \in Nat \cup {None}
      /\ \A l \in Lanes, o \in Origins : st.lane[l][o] \in Nat \cup {None}
      /\ \A o \in Origins : st.spend[o] \in Nat
  BY <1>3 DEF Retained
<1>8. \A n \in Nat \cup {None} : Advances(n, n) BY DEF Advances, None
<1>9. CASE st' = s
  <2>1. \A sc \in Scopes : st'.latest[sc] = None \/ Advances(st.latest[sc], st'.latest[sc])
    BY <1>5, <1>7, <1>8, <1>9
  <2>2. \A l \in Lanes, o \in KnownOrigins(st') : o \in Origins /\ st'.lane[l][o] = st.lane[l][o]
    BY <1>5, <1>6, <1>9
  <2>3. \A l \in Lanes, o \in KnownOrigins(st') : Advances(st.lane[l][o], st'.lane[l][o])
    BY <1>7, <1>8, <2>2
  <2> QED BY <1>5, <1>7, <1>9, <2>1, <2>3
<1> DEFINE t == StoreMetadata(s, b)
<1>10. /\ t.latest = s.latest /\ t.spend = s.spend /\ t \in Retained
       /\ KnownOrigins(t) \subseteq KnownOrigins(s) \cup {b.origin}
       /\ \A l \in Lanes, o \in Origins : Advances(s.lane[l][o], t.lane[l][o])
  BY <1>1, <1>3, <1>4, StoreMetadataEffect
<1> HIDE DEF t
<1>11. gone \cap KnownOrigins(t) = {} BY <1>5, <1>10
<1>12. \A l \in Lanes, o \in KnownOrigins(t) : Advances(st.lane[l][o], t.lane[l][o])
  BY <1>5, <1>6, <1>10, <1>11
<1>13. CASE st' = t
  BY <1>5, <1>7, <1>8, <1>10, <1>12, <1>13
<1>14. CASE st' = ApplyProviderState(t, b) /\ ~Stale(s, b)
  <2>1. /\ KnownOrigins(st') \subseteq KnownOrigins(t) \cup {b.origin}
        /\ st'.latest = [t.latest EXCEPT ![ScopeOf(b)] = b.revision]
        /\ st'.lane = t.lane
        /\ \A o \in Origins : st'.spend[o] >= t.spend[o]
    BY <1>1, <1>10, <1>14, ApplyProviderStateEffect
  <2>2. ScopeOf(b) \in Scopes /\ ScopeOf(b).origin = b.origin /\ b.revision \in Nat
    BY <1>1 DEF Broadcast, ScopeOf, Scopes
  <2>3. s.latest[ScopeOf(b)] = st.latest[ScopeOf(b)] BY <1>5, <2>2
  <2>4. Advances(st.latest[ScopeOf(b)], b.revision)
    BY <1>3, <1>7, <1>14, <2>2, <2>3 DEF Stale, Outranks, Advances, None
  <2>5. t.latest \in [Scopes -> Nat \cup {None}] BY <1>10 DEF Retained
  <2>6. \A sc \in Scopes : st'.latest[sc] = None \/ Advances(st.latest[sc], st'.latest[sc])
    BY <1>5, <1>7, <1>8, <1>10, <2>1, <2>2, <2>4, <2>5
  <2>7. \A l \in Lanes : Advances(st.lane[l][b.origin], t.lane[l][b.origin])
    BY <1>1, <1>5, <1>10
  <2> QED BY <1>5, <1>10, <1>12, <2>1, <2>6, <2>7
<1> QED BY <1>2, <1>9, <1>13, <1>14 DEF t

\* Of every step: a control operation drops guards with their state, a delivery
\* advances them.
LEMMA StepAdvances ==
    ASSUME IInv, [Next]_vars
    PROVE  /\ \A sc \in Scopes : st'.latest[sc] = None \/ Advances(st.latest[sc], st'.latest[sc])
           /\ \A l \in Lanes, o \in KnownOrigins(st') : Advances(st.lane[l][o], st'.lane[l][o])
           /\ \A o \in Origins : st'.spend[o] >= st.spend[o]
<1>1. CASE [Control \/ Tick]_vars
  <2>1. st \in Retained BY DEF IInv, Sound, WellFormed
  <2>2. \A t : KnownOrigins(t) \subseteq Origins BY DEF KnownOrigins, Scopes
  <2>3. /\ \A sc \in Scopes : st.latest[sc] \in Nat \cup {None}
        /\ \A l \in Lanes, o \in Origins : st.lane[l][o] \in Nat \cup {None}
        /\ \A o \in Origins : st.spend[o] \in Nat
    BY <2>1 DEF Retained
  <2>4. \A n \in Nat \cup {None} : Advances(n, n) BY DEF Advances, None
  <2>5. /\ \A sc \in Scopes : st'.latest[sc] \in {None, st.latest[sc]}
        /\ \A l \in Lanes, o \in KnownOrigins(st') : o \in Origins /\ st'.lane[l][o] = st.lane[l][o]
        /\ st'.spend = st.spend
    BY <1>1, <2>2, ControlKnown
  <2>6. \A sc \in Scopes : st'.latest[sc] = None \/ Advances(st.latest[sc], st'.latest[sc])
    BY <2>3, <2>4, <2>5
  <2>7. \A l \in Lanes, o \in KnownOrigins(st') : Advances(st.lane[l][o], st'.lane[l][o])
    BY <2>3, <2>4, <2>5
  <2> QED BY <2>3, <2>5, <2>6, <2>7
<1>2. ASSUME NEW b \in Broadcasts, Deliver(b)
      PROVE  /\ \A sc \in Scopes : st'.latest[sc] = None \/ Advances(st.latest[sc], st'.latest[sc])
             /\ \A l \in Lanes, o \in KnownOrigins(st') : Advances(st.lane[l][o], st'.lane[l][o])
             /\ \A o \in Origins : st'.spend[o] >= st.spend[o]
  BY <1>2, DeliverAdvances
<1> QED BY <1>1, <1>2 DEF Next

\* "Nothing older replays": a scope's guard, and each metadata lane's, moves back
\* only from a revision no clock allows yet; a departed origin's guards stay, and
\* no eviction makes room by dropping the guards of an origin it keeps.
THEOREM NothingOlderReplays == Spec => RevisionsOnlyAdvance
<1>1. ASSUME IInv, [Next]_vars
      PROVE  /\ \A sc \in Scopes : st.latest[sc] # None /\ st'.latest[sc] # None
                  => st'.latest[sc] >= st.latest[sc] \/ st.latest[sc] > cap
             /\ \A l \in Lanes, o \in Origins : st.lane[l][o] # None /\ o \in KnownOrigins(st')
                  => st'.lane[l][o] >= st.lane[l][o] \/ st.lane[l][o] > cap
  BY <1>1, StepAdvances DEF Advances
<1>2. IInv /\ [Next]_vars =>
        [/\ \A sc \in Scopes : st.latest[sc] # None /\ st'.latest[sc] # None
              => st'.latest[sc] >= st.latest[sc] \/ st.latest[sc] > cap
         /\ \A l \in Lanes, o \in Origins : st.lane[l][o] # None /\ o \in KnownOrigins(st')
              => st'.lane[l][o] >= st.lane[l][o] \/ st.lane[l][o] > cap]_vars
  BY <1>1
<1> QED BY <1>2, Soundness, PTL DEF Spec, RevisionsOnlyAdvance

\* The spend ledger only grows: remove_origin, remove_grid and an eviction leave
\* it, and apply_provider_state takes the larger value.
THEOREM SpendOnlyGrows == Spec => SpendNeverFalls
<1>1. IInv /\ [Next]_vars => [\A o \in Origins : st'.spend[o] >= st.spend[o]]_vars
  BY StepAdvances
<1> QED BY <1>1, Soundness, PTL DEF Spec, SpendNeverFalls

=============================================================================
