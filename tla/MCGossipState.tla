---------------------------- MODULE MCGossipState ----------------------------
(* Bounded instances of GossipState.                                       *)
EXTENDS GossipState, TLC

CONSTANTS MaxRevision, MaxSpend, Signers, StateSize

\* State broadcasts carry up to StateSize providers, of any site; they are
\* authoritative, as the operator's are, or carry only spend.
StateBroadcasts ==
    [origin : Origins, grid : Grids \cup {NoGrid}, revision : 1 .. MaxRevision, signer : Signers,
     providers : {ps \in SUBSET Identities : Cardinality(ps) <= StateSize},
     authoritative : {TRUE}, spend : {0}, lanes : {{}}]

SpendBroadcasts ==
    [origin : Origins, grid : Grids \cup {NoGrid}, revision : 1 .. MaxRevision, signer : Signers,
     providers : {{}}, authoritative : {FALSE}, spend : 1 .. MaxSpend, lanes : {{}}]

\* Metadata is advertised one lane at a time.
MetadataBroadcasts ==
    [origin : Origins, grid : Grids \cup {NoGrid}, revision : 1 .. MaxRevision, signer : Signers,
     providers : {{}}, authoritative : {FALSE}, spend : {0}, lanes : {{l} : l \in Lanes}]

AllBroadcasts == StateBroadcasts \cup SpendBroadcasts \cup MetadataBroadcasts

\* Keys, networks and grids are interchangeable, and so are origins.
TrustSymmetry == Permutations(Keys) \cup Permutations(Networks) \cup Permutations(Grids)
OriginSymmetry == Permutations(Origins)

==============================================================================
