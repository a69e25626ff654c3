------------------------ MODULE ModelInventoryProofs ------------------------
(***************************************************************************)
(* What readers see of a provider's models, for any number of instances,   *)
(* inventories, frames and broadcasts, any clocks and any limits: exactly  *)
(* the complete inventory of the advertised instance, and never an older   *)
(* one than before.                                                        *)
(*                                                                         *)
(* The second rests on time.  A revision is signed only while it is the    *)
(* newest, so a signing of an older one is no younger than the frame that  *)
(* completed the newer (Ordered); hence the floor of a completed revision, *)
(* or the block that dropped the floor, lasts until every older signing is *)
(* too old to be accepted (FloorsLast, Covered).                           *)
(***************************************************************************)
EXTENDS ModelInventory, TLAPS

Receivers ==
    [pending : [Revisions -> Pendings], complete : [UIDs -> Revisions \cup {NoRevision}],
     floor : [UIDs -> [revision : Revisions \cup {NoRevision}, until : Int]], blocked : Int]

Shape ==
    /\ clock \in 0 .. MaxClock /\ ahead \in Int
    /\ origin \in [uid : UIDs, revision : Revisions \cup {NoRevision}]
    /\ issued \in [Revisions -> Inventories]
    /\ wire \subseteq [revision : Revisions, signed : Int]
    /\ states \in Seq(UIDs \cup {NoUid})
    /\ latest \in Nat /\ uid \in UIDs \cup {NoUid}
    /\ rx \in Receivers
    /\ published \subseteq Revisions
    /\ highest \in [UIDs -> Revisions \cup {NoRevision}]

\* Nothing is signed or read before it was discovered.
Discovered ==
    /\ \A w \in wire : w.revision <= origin.revision
    /\ \A r \in published : r <= origin.revision
    /\ \A u \in UIDs : highest[u] <= origin.revision
    /\ \A r \in Revisions : r <= origin.revision => issued[r].uid \in UIDs

\* An older revision was signed no later than a newer one.
Ordered ==
    /\ \A w \in wire : w.signed <= originClock
    /\ \A v, w \in wire : v.revision < w.revision => v.signed <= w.signed

(* What an assembler `held' must satisfy: the peer's own, or its next one. *)

\* A complete inventory is of its instance, no older than what readers saw, and
\* its floor is up.
Assembled(held) ==
    \A u \in UIDs :
        /\ held.floor[u].revision <= origin.revision
        /\ held.complete[u] # NoRevision =>
            /\ issued[held.complete[u]].uid = u
            /\ held.floor[u].revision = held.complete[u]
            /\ highest[u] <= held.complete[u]

\* A floor lasts as long as the signings it refuses.
FloorsLast(held) ==
    \A u \in UIDs :
        /\ held.floor[u].revision # NoRevision => held.floor[u].until <= FloorUntil
        /\ \A w \in wire : w.revision < held.floor[u].revision => w.signed + Age <= held.floor[u].until

\* A signing is too old, or refused until it is.
Refused(held, w, u) ==
    \/ w.signed + Age < clock
    \/ w.signed + Age <= held.blocked
    \/ held.floor[u].revision >= highest[u] /\ w.signed + Age <= held.floor[u].until

\* So is every signing older than what readers saw.
Covered(held) ==
    \A u \in UIDs : \A w \in wire : issued[w.revision].uid = u /\ w.revision < highest[u] => Refused(held, w, u)

Sound(held) == held \in Receivers /\ Assembled(held) /\ FloorsLast(held) /\ Covered(held)

IInv == Shape /\ Discovered /\ Ordered /\ Sound(rx) /\ NeverReverts /\ AdvertisedIsPublished

-----------------------------------------------------------------------------
(* The constants and the operators. *)

LEMMA Constants ==
    /\ Revisions \subseteq Nat \ {0}
    /\ UIDs \subseteq Nat \ {0} /\ 1 \in UIDs
    /\ MaxUid \in Nat /\ MaxClock \in Nat /\ Age \in Nat /\ Skew \in Nat /\ Ttl \in Nat
BY InventoryAssumption DEF Revisions, UIDs

\* The newest of a revision and one at least as new.
LEMMA MaxOfOne == ASSUME NEW a \in Nat PROVE Max({a} \cup {}) = a
BY DEF Max

LEMMA MaxOfTwo == ASSUME NEW a \in Nat, NEW b \in Nat, a <= b PROVE Max({a} \cup {b}) = b
BY DEF Max

LEMMA HeldTypes ==
    ASSUME NEW held \in Receivers
    PROVE  /\ held.blocked \in Int
           /\ \A u \in UIDs : /\ held.complete[u] \in Nat /\ held.complete[u] \in Revisions \cup {NoRevision}
                              /\ held.floor[u].revision \in Nat /\ held.floor[u].until \in Int
<1>1. Revisions \cup {NoRevision} \subseteq Nat
    BY Constants DEF NoRevision
<1>2. /\ held.blocked \in Int /\ held.complete \in [UIDs -> Revisions \cup {NoRevision}]
      /\ held.floor \in [UIDs -> [revision : Revisions \cup {NoRevision}, until : Int]]
    BY DEF Receivers
<1>3. \A u \in UIDs : held.floor[u] \in [revision : Revisions \cup {NoRevision}, until : Int]
    BY <1>2
<1>4. \A u \in UIDs : held.floor[u].revision \in Revisions \cup {NoRevision} /\ held.floor[u].until \in Int
    BY <1>3
<1> QED
    BY <1>1, <1>2, <1>4

LEMMA StateTypes ==
    ASSUME Shape
    PROVE  /\ clock \in Nat /\ originClock \in Int /\ FloorUntil = clock + Age + Skew /\ FloorUntil \in Int
           /\ origin.revision \in Nat
           /\ \A u \in UIDs : highest[u] \in Nat
           /\ \A w \in wire : /\ w.revision \in Revisions /\ w.revision \in Nat \ {0}
                              /\ w.signed \in Int /\ w.signed + Age \in Int
<1>1. Revisions \cup {NoRevision} \subseteq Nat
    BY Constants DEF NoRevision
<1>2. clock \in Nat /\ originClock \in Int /\ FloorUntil = clock + Age + Skew /\ FloorUntil \in Int
    BY Constants DEF Shape, originClock, FloorUntil
<1>3. origin.revision \in Nat /\ \A u \in UIDs : highest[u] \in Nat
    BY <1>1 DEF Shape
<1>4. \A w \in wire : w.revision \in Revisions /\ w.signed \in Int
    BY DEF Shape
<1>5. Revisions \subseteq Nat \ {0} /\ Age \in Nat
    BY Constants
<1>6. ASSUME NEW w \in wire PROVE w.revision \in Nat \ {0} /\ w.signed + Age \in Int
    <2>1. w.revision \in Revisions /\ w.signed \in Int
        BY <1>4
    <2>2. w.revision \in Nat \ {0}
        BY <1>5, <2>1
    <2>3. w.signed + Age \in Int
        BY <1>5, <2>1
    <2> QED
        BY <2>2, <2>3
<1> QED
    BY <1>2, <1>3, <1>4, <1>6

LEMMA NoFloorFields == NoFloor.revision = 0 /\ NoFloor.until = 0
BY DEF NoFloor, NoRevision

LEMMA ForgottenFields ==
    ASSUME NEW blocked \in Int
    PROVE  /\ Forgotten(blocked) \in Receivers
           /\ Forgotten(blocked).blocked = blocked
           /\ \A u \in UIDs : /\ Forgotten(blocked).complete[u] = NoRevision
                              /\ Forgotten(blocked).floor[u] = NoFloor
<1>1. NoPending \in Pendings
    BY Constants DEF NoPending, Pendings
<1>2. NoFloor \in [revision : Revisions \cup {NoRevision}, until : Int]
    BY DEF NoFloor
<1> QED
    BY <1>1, <1>2 DEF Forgotten, Receivers
-----------------------------------------------------------------------------
(* The assembler. *)

\* prune drops expired inventories, and floors and blocks that have run out.
LEMMA PrunedFields ==
    ASSUME Shape
    PROVE  /\ Pruned \in Receivers
           /\ Pruned.blocked = IF rx.blocked >= clock THEN rx.blocked ELSE Unblocked
           /\ \A u \in UIDs :
                /\ Pruned.complete[u] = IF rx.complete[u] # NoRevision /\ Unexpired(rx.complete[u])
                                        THEN rx.complete[u] ELSE NoRevision
                /\ Pruned.floor[u] = IF rx.floor[u].until >= clock \/ Pruned.complete[u] # NoRevision
                                     THEN rx.floor[u] ELSE NoFloor
<1>1. NoPending \in Pendings
    BY Constants DEF NoPending, Pendings
<1>2. NoFloor \in [revision : Revisions \cup {NoRevision}, until : Int] /\ Unblocked \in Int
    BY DEF NoFloor, Unblocked
<1>3. rx \in Receivers
    BY DEF Shape
<1>4. NoRevision \notin Revisions
    BY Constants DEF NoRevision
<1>5. /\ Pruned.pending \in [Revisions -> Pendings]
      /\ Pruned.complete \in [UIDs -> Revisions \cup {NoRevision}]
      /\ Pruned.floor \in [UIDs -> [revision : Revisions \cup {NoRevision}, until : Int]]
      /\ Pruned.blocked \in Int
    BY <1>1, <1>2, <1>3 DEF Pruned, Receivers
<1>6. Pruned \in Receivers
    BY <1>5 DEF Pruned, Receivers
<1> QED
    BY <1>3, <1>4, <1>6 DEF Pruned, Receivers

LEMMA PrunedSound ==
    ASSUME IInv
    PROVE  Sound(Pruned)
<1> USE StateTypes, NoFloorFields DEF NoRevision
<1>1. Pruned \in Receivers
    BY PrunedFields DEF IInv
<1> rx \in Receivers
    BY DEF IInv, Sound
<1>2. Assembled(Pruned)
    BY HeldTypes, PrunedFields DEF IInv, Sound, Assembled
<1>3. FloorsLast(Pruned)
    BY HeldTypes, PrunedFields DEF IInv, Sound, FloorsLast
<1>4. ASSUME NEW u \in UIDs, NEW w \in wire, issued[w.revision].uid = u, w.revision < highest[u]
      PROVE  Refused(Pruned, w, u)
    <2>1. Refused(rx, w, u)
        BY <1>4 DEF IInv, Sound, Covered
    <2>2. /\ w.signed + Age \in Int /\ clock \in Nat /\ rx.blocked \in Int /\ rx.floor[u].until \in Int
        BY <1>4, HeldTypes DEF IInv
    <2> QED
        BY <1>4, <2>1, <2>2, PrunedFields DEF IInv, Refused
<1> QED
    BY <1>1, <1>2, <1>3, <1>4 DEF Sound, Covered

\* block_origin: the floors go, but the block outlasts what they refused.
LEMMA BlockedSound ==
    ASSUME IInv, Pruned.blocked = Unblocked
    PROVE  Sound(Blocked)
<1> USE StateTypes, NoFloorFields DEF NoRevision
<1>1. FloorUntil \in Int /\ FloorUntil >= clock /\ clock \in Nat
    BY Constants DEF IInv
<1> rx \in Receivers
    BY DEF IInv, Sound
<1>2. /\ Blocked \in Receivers /\ Blocked.blocked = FloorUntil
      /\ \A u \in UIDs : Blocked.complete[u] = NoRevision /\ Blocked.floor[u] = NoFloor
    BY <1>1, ForgottenFields DEF Blocked
<1>3. Assembled(Blocked) /\ FloorsLast(Blocked)
    BY <1>2 DEF IInv, Assembled, FloorsLast
<1>4. ASSUME NEW u \in UIDs, NEW w \in wire, issued[w.revision].uid = u, w.revision < highest[u]
      PROVE  Refused(Blocked, w, u)
    <2>1. Refused(rx, w, u)
        BY <1>4 DEF IInv, Sound, Covered
    <2>2. /\ w.signed + Age \in Int /\ rx.blocked \in Int /\ rx.floor[u].until \in Int
          /\ w.revision \in Nat \ {0} /\ highest[u] \in Nat /\ rx.floor[u].revision \in Nat
        BY <1>4, HeldTypes DEF IInv
    <2>3. rx.blocked < clock
        BY <1>1, <2>2, PrunedFields DEF IInv, Unblocked
    <2>4. CASE w.signed + Age < clock \/ w.signed + Age <= rx.blocked
        BY <1>1, <2>2, <2>3, <2>4 DEF Refused
    <2>5. CASE rx.floor[u].revision >= highest[u] /\ w.signed + Age <= rx.floor[u].until
        <3>1. rx.floor[u].until <= FloorUntil
            BY <1>4, <2>2, <2>5 DEF IInv, Sound, FloorsLast
        <3> QED
            BY <1>1, <1>2, <2>2, <2>5, <3>1 DEF Refused
    <2> QED
        BY <2>1, <2>4, <2>5 DEF Refused
<1> QED
    BY <1>2, <1>3, <1>4 DEF Sound, Covered

\* A frame the peer takes completes no revision older than readers saw: every
\* such signing is refused.
LEMMA CompletesNewer ==
    ASSUME IInv, NEW w \in wire, Fresh(w.signed),
           Pruned.blocked = Unblocked, ~(Pruned.floor[issued[w.revision].uid].revision >= w.revision)
    PROVE  issued[w.revision].uid \in UIDs /\ highest[issued[w.revision].uid] <= w.revision
<1> DEFINE u == issued[w.revision].uid
<1>1. rx \in Receivers /\ Shape
    BY DEF IInv, Sound
<1>2. /\ w.revision \in Revisions /\ w.revision \in Nat /\ w.signed + Age \in Int /\ w.signed \in Int
      /\ clock \in Nat /\ rx.blocked \in Int /\ origin.revision \in Nat /\ Age \in Nat
    BY <1>1, StateTypes, HeldTypes, Constants
<1>3. u \in UIDs
    BY <1>2 DEF IInv, Discovered
<1>4. highest[u] \in Nat /\ rx.floor[u].revision \in Nat /\ rx.floor[u].until \in Int
    BY <1>1, <1>3, StateTypes, HeldTypes
<1>5. clock <= w.signed + Age
    BY <1>2 DEF Fresh
<1>6. rx.blocked < clock
    BY <1>1, <1>2, PrunedFields DEF Unblocked
<1>7. rx.floor[u].until < clock \/ rx.floor[u].revision < w.revision
    BY <1>1, <1>2, <1>3, <1>4, PrunedFields
<1>8. ASSUME w.revision < highest[u] PROVE FALSE
    <2>1. Refused(rx, w, u)
        BY <1>3, <1>8 DEF IInv, Sound, Covered
    <2> QED
        BY <1>2, <1>4, <1>5, <1>6, <1>7, <1>8, <2>1 DEF Refused
<1> QED
    BY <1>2, <1>3, <1>4, <1>8

\* A complete inventory's floor lasts as long as the older signings.
LEMMA CompletedSound ==
    ASSUME IInv, NEW w \in wire, Fresh(w.signed), NEW held \in Receivers,
           held.blocked = Pruned.blocked,
           Pruned.blocked = Unblocked, ~(Pruned.floor[issued[w.revision].uid].revision >= w.revision),
           \A u \in UIDs \ {issued[w.revision].uid} :
                held.complete[u] = Pruned.complete[u] /\ held.floor[u] = Pruned.floor[u],
           held.complete[issued[w.revision].uid] = w.revision,
           held.floor[issued[w.revision].uid] = [revision |-> w.revision, until |-> FloorUntil]
    PROVE  Sound(held)
<1> DEFINE u == issued[w.revision].uid
<1>1. Shape /\ Sound(Pruned) /\ Pruned \in Receivers
    BY PrunedSound DEF IInv, Sound
<1>2. /\ w.revision \in Revisions /\ w.revision \in Nat /\ w.signed \in Int
      /\ clock \in Nat /\ origin.revision \in Nat /\ Age \in Nat /\ Skew \in Nat
      /\ FloorUntil = clock + Age + Skew /\ FloorUntil \in Int
    BY <1>1, StateTypes, Constants
<1>3. u \in UIDs /\ highest[u] <= w.revision /\ highest[u] \in Nat
    BY <1>1, CompletesNewer, StateTypes
<1>4. held.floor[u].revision = w.revision /\ held.floor[u].until = FloorUntil
    OBVIOUS
<1>5. Assembled(held)
    BY <1>1, <1>3, <1>4 DEF IInv, Discovered, Sound, Assembled
<1>6. \A v \in wire : v.revision < w.revision => v.signed + Age <= FloorUntil
    <2>1. w.signed - clock <= Skew
        BY DEF Fresh
    <2>2. \A v \in wire : v.signed \in Int /\ (v.revision < w.revision => v.signed <= w.signed)
        BY <1>1, StateTypes DEF IInv, Ordered
    <2> QED
        BY <1>2, <2>1, <2>2
<1>7. FloorsLast(held)
    BY <1>1, <1>2, <1>4, <1>6 DEF Sound, FloorsLast
<1>8. ASSUME NEW x \in UIDs, NEW v \in wire, issued[v.revision].uid = x, v.revision < highest[x]
      PROVE  Refused(held, v, x)
    <2>1. CASE x = u
        <3>1. v.revision < w.revision
            BY <1>1, <1>2, <1>3, <1>8, <2>1, StateTypes
        <3> QED
            BY <1>2, <1>3, <1>4, <1>6, <2>1, <3>1 DEF Refused
    <2>2. CASE x # u
        <3>1. Refused(Pruned, v, x)
            BY <1>1, <1>8 DEF Sound, Covered
        <3> QED
            BY <1>8, <2>2, <3>1 DEF Refused
    <2> QED
        BY <2>1, <2>2
<1> QED
    BY <1>5, <1>7, <1>8 DEF Sound, Covered

\* A push prunes, and then drops the frame, keeps it, blocks the origin, or
\* completes the inventory; unless it publishes, no complete one changes.
LEMMA PushOutcomes ==
    ASSUME Shape, NEW r \in Revisions, NEW i \in Frames, issued[r].uid \in UIDs
    PROVE  LET out == Push(r, i).rx IN
           /\ out \in Receivers
           /\ Push(r, i).publish \in BOOLEAN
           /\ \/ /\ out.blocked = Pruned.blocked /\ out.complete = Pruned.complete /\ out.floor = Pruned.floor
              \/ Pruned.blocked = Unblocked /\ out = Blocked /\ Push(r, i).publish
              \/ /\ Pruned.blocked = Unblocked /\ ~(Pruned.floor[issued[r].uid].revision >= r)
                 /\ out.blocked = Pruned.blocked
                 /\ out.complete = [Pruned.complete EXCEPT ![issued[r].uid] = r]
                 /\ out.floor = [Pruned.floor EXCEPT ![issued[r].uid] = [revision |-> r, until |-> FloorUntil]]
                 /\ Push(r, i).publish
<1> DEFINE held == Pruned
           u == issued[r].uid
           pending == Superseded(held.pending, r, {p \in Revisions : p >= r})
           grown == [pending EXCEPT ![r] = [frames |-> @.frames \cup {i},
                                            started |-> IF @.frames = {} THEN clock ELSE @.started]]
           done == [held EXCEPT !.pending = [grown EXCEPT ![r] = NoPending]]
<1>1. held \in Receivers
    BY PrunedFields
<1>2. NoPending \in Pendings
    BY Constants DEF NoPending, Pendings
<1>3. pending \in [Revisions -> Pendings]
    BY <1>1, <1>2 DEF Superseded, Receivers
<1>4. grown \in [Revisions -> Pendings]
    BY <1>3 DEF Pendings, Shape
<1>5. Blocked \in Receivers
    BY StateTypes, ForgottenFields DEF Blocked
<1> HIDE DEF grown
<1>6. /\ [held EXCEPT !.pending = grown] \in Receivers
      /\ [held EXCEPT !.pending = grown].complete = held.complete
      /\ [held EXCEPT !.pending = grown].floor = held.floor
      /\ [held EXCEPT !.pending = grown].blocked = held.blocked
    BY <1>1, <1>4 DEF Receivers
<1>7. done \in Receivers /\ done.complete = held.complete /\ done.floor = held.floor /\ done.blocked = held.blocked
    BY <1>1, <1>2, <1>4 DEF Receivers
<1> HIDE DEF done
<1>8. /\ Completed(done, r) \in Receivers
      /\ Completed(done, r).complete = [held.complete EXCEPT ![u] = r]
      /\ Completed(done, r).floor = [held.floor EXCEPT ![u] = [revision |-> r, until |-> FloorUntil]]
      /\ Completed(done, r).blocked = held.blocked
    BY <1>2, <1>7, StateTypes DEF Completed, Superseded, Receivers
<1> QED
    BY <1>1, <1>5, <1>6, <1>7, <1>8 DEF Push, done, grown

-----------------------------------------------------------------------------
(* Publishing. *)

\* Readers see the advertised instance's complete inventory while it is fresh,
\* and its revision is the highest of that instance.
LEMMA PublishEffect ==
    ASSUME Shape, NEW held, Sound(held), NEW adv \in UIDs \cup {NoUid}, Publish(Published(held, adv))
    PROVE  /\ published' = {r \in Revisions : adv \in UIDs /\ held.complete[adv] = r /\ Unexpired(r)}
           /\ highest' \in [UIDs -> Revisions \cup {NoRevision}]
           /\ \A u \in UIDs :
                \/ u = adv /\ held.complete[u] # NoRevision /\ highest'[u] = held.complete[u]
                \/ highest'[u] = highest[u] /\ \A r \in published' : issued[r].uid # u
<1> DEFINE revs == Published(held, adv)
<1>1. revs = {r \in Revisions : adv \in UIDs /\ held.complete[adv] = r /\ Unexpired(r)}
    BY DEF Published
<1>2. published' = revs
    BY DEF Publish
<1>3. highest' = [u \in UIDs |-> Max({highest[u]} \cup {r \in revs : issued[r].uid = u})]
    BY DEF Publish
<1> HIDE DEF revs
<1>4. ASSUME NEW u \in UIDs
      PROVE  /\ highest'[u] \in Revisions \cup {NoRevision}
             /\ \/ u = adv /\ held.complete[u] # NoRevision /\ highest'[u] = held.complete[u]
                \/ highest'[u] = highest[u] /\ \A r \in published' : issued[r].uid # u
    <2>1. highest[u] \in Nat /\ highest[u] \in Revisions \cup {NoRevision}
        BY StateTypes DEF Shape
    <2>2. held.complete[u] \in Nat /\ held.complete[u] \in Revisions \cup {NoRevision}
        BY HeldTypes DEF Sound
    <2>3. NoRevision \notin Revisions
        BY Constants DEF NoRevision
    <2>4. CASE \E r \in revs : issued[r].uid = u
        <3>1. PICK r \in revs : issued[r].uid = u
            BY <2>4
        <3>2. adv \in UIDs /\ held.complete[adv] = r /\ r \in Revisions
            BY <1>1, <3>1
        <3>3. adv = u /\ highest[u] <= r
            BY <2>3, <3>1, <3>2 DEF Sound, Assembled
        <3>4. {p \in revs : issued[p].uid = u} = {r}
            BY <1>1, <3>1, <3>2, <3>3
        <3>5. highest'[u] = Max({highest[u]} \cup {r})
            BY <1>3, <3>4
        <3>6. highest'[u] = r
            BY <2>1, <2>2, <3>2, <3>3, <3>5, MaxOfTwo
        <3> QED
            BY <2>3, <3>2, <3>3, <3>6
    <2>5. CASE ~ \E r \in revs : issued[r].uid = u
        <3>1. {p \in revs : issued[p].uid = u} = {}
            BY <2>5
        <3>2. highest'[u] = Max({highest[u]} \cup {})
            BY <1>3, <3>1
        <3>3. highest'[u] = highest[u]
            BY <2>1, <3>2, MaxOfOne
        <3> QED
            BY <1>2, <2>1, <2>5, <3>3
    <2> QED
        BY <2>4, <2>5
<1> QED
    BY <1>1, <1>2, <1>3, <1>4

\* A step that leaves a sound assembler and publishes from it keeps everything.
LEMMA Republished ==
    ASSUME IInv, NEW held, Sound(held), rx' = held, Publish(Published(held, uid')),
           uid' \in UIDs \cup {NoUid}, latest' \in Nat,
           UNCHANGED <<clock, ahead, origin, issued, wire, states>>
    PROVE  IInv'
<1>1. Shape /\ held \in Receivers
    BY DEF IInv, Sound
<1>2. /\ published' = {r \in Revisions : uid' \in UIDs /\ held.complete[uid'] = r /\ Unexpired(r)}
      /\ highest' \in [UIDs -> Revisions \cup {NoRevision}]
      /\ \A u \in UIDs :
           \/ u = uid' /\ held.complete[u] # NoRevision /\ highest'[u] = held.complete[u]
           \/ highest'[u] = highest[u] /\ \A r \in published' : issued[r].uid # u
    BY <1>1, PublishEffect
<1>3. Shape'
    BY <1>1, <1>2 DEF Shape
<1>4. /\ \A u \in UIDs : held.complete[u] \in Nat /\ held.floor[u].revision \in Nat /\ highest[u] \in Nat
      /\ NoRevision = 0 /\ NoRevision \notin Revisions /\ origin.revision \in Nat
    BY <1>1, HeldTypes, StateTypes, Constants DEF NoRevision
<1>5. \A u \in UIDs : held.complete[u] <= origin.revision
    BY <1>4 DEF Sound, Assembled
<1>6. Discovered'
    BY <1>2, <1>4, <1>5 DEF IInv, Discovered
<1>7. Ordered'
    BY DEF IInv, Ordered, originClock
<1>8. Assembled(rx)'
    BY <1>2, <1>4 DEF Sound, Assembled
<1>9. FloorsLast(rx)'
    BY DEF Sound, FloorsLast, FloorUntil
<1>10. ASSUME NEW u \in UIDs, NEW w \in wire, issued[w.revision].uid = u, w.revision < highest'[u]
       PROVE  Refused(rx, w, u)'
    <2>1. CASE highest'[u] = highest[u]
        BY <1>10, <2>1 DEF Sound, Covered, Refused
    <2>2. CASE held.complete[u] # NoRevision /\ highest'[u] = held.complete[u]
        <3>1. held.floor[u].revision = highest'[u]
            BY <2>2 DEF Sound, Assembled
        <3>2. w.signed + Age <= held.floor[u].until
            BY <1>10, <3>1 DEF Sound, FloorsLast
        <3> QED
            BY <1>4, <3>1, <3>2 DEF Refused
    <2> QED
        BY <1>2, <2>1, <2>2
<1>11. Covered(rx)'
    BY <1>10 DEF Covered, Refused
<1>12. NeverReverts'
    <2> SUFFICES ASSUME NEW r \in published' PROVE r = highest'[issued[r].uid]
        BY DEF NeverReverts
    <2>1. uid' \in UIDs /\ held.complete[uid'] = r /\ r \in Revisions
        BY <1>2
    <2>2. issued[r].uid = uid'
        BY <1>4, <2>1 DEF Sound, Assembled
    <2> QED
        BY <1>2, <2>1, <2>2
<1>13. AdvertisedIsPublished'
    BY <1>2 DEF AdvertisedIsPublished, Unexpired
<1> QED
    BY <1>1, <1>3, <1>6, <1>7, <1>8, <1>9, <1>11, <1>12, <1>13 DEF IInv, Sound

-----------------------------------------------------------------------------
(* The peer's steps. *)

\* The assemblies under way do not matter.
LEMMA PendingIrrelevant ==
    ASSUME NEW held \in Receivers, NEW next \in Receivers, Sound(held),
           next.blocked = held.blocked, next.complete = held.complete, next.floor = held.floor
    PROVE  Sound(next)
BY DEF Sound, Assembled, FloorsLast, Covered, Refused

LEMMA FrameStep ==
    ASSUME IInv, NEW w \in wire, NEW i \in Frames, ReceiveFrame(w, i)
    PROVE  IInv'
<1> DEFINE r == w.revision
           out == Push(r, i).rx
<1>1. Shape /\ rx \in Receivers /\ r \in Revisions /\ Fresh(w.signed)
    BY StateTypes DEF IInv, Sound, ReceiveFrame
<1>2. issued[r].uid \in UIDs
    BY <1>1 DEF IInv, Discovered
<1>3. rx' = out /\ UNCHANGED <<clock, ahead, origin, issued, wire, states, latest, uid>>
    BY DEF ReceiveFrame
<1>4. /\ Push(r, i).publish => Publish(Published(out, uid))
      /\ ~Push(r, i).publish => UNCHANGED <<published, highest>>
    BY DEF ReceiveFrame
<1>5. Sound(Pruned) /\ Pruned \in Receivers
    BY PrunedSound DEF Sound
<1> HIDE DEF out, r
<1>6. /\ out \in Receivers /\ Push(r, i).publish \in BOOLEAN
      /\ \/ out.blocked = Pruned.blocked /\ out.complete = Pruned.complete /\ out.floor = Pruned.floor
         \/ Pruned.blocked = Unblocked /\ out = Blocked /\ Push(r, i).publish
         \/ /\ Pruned.blocked = Unblocked /\ ~(Pruned.floor[issued[r].uid].revision >= r)
            /\ out.blocked = Pruned.blocked
            /\ out.complete = [Pruned.complete EXCEPT ![issued[r].uid] = r]
            /\ out.floor = [Pruned.floor EXCEPT ![issued[r].uid] = [revision |-> r, until |-> FloorUntil]]
            /\ Push(r, i).publish
    BY <1>1, <1>2, PushOutcomes DEF out
<1>7. Sound(out)
    <2>1. CASE out.blocked = Pruned.blocked /\ out.complete = Pruned.complete /\ out.floor = Pruned.floor
        BY <1>5, <1>6, <2>1, PendingIrrelevant
    <2>2. CASE Pruned.blocked = Unblocked /\ out = Blocked
        BY <2>2, BlockedSound
    <2>3. CASE /\ Pruned.blocked = Unblocked /\ ~(Pruned.floor[issued[r].uid].revision >= r)
               /\ out.blocked = Pruned.blocked
               /\ out.complete = [Pruned.complete EXCEPT ![issued[r].uid] = r]
               /\ out.floor = [Pruned.floor EXCEPT ![issued[r].uid] = [revision |-> r, until |-> FloorUntil]]
        <3>1. Pruned.complete \in [UIDs -> Revisions \cup {NoRevision}] /\ DOMAIN Pruned.floor = UIDs
            BY <1>5 DEF Receivers
        <3>2. /\ \A u \in UIDs \ {issued[r].uid} : out.complete[u] = Pruned.complete[u] /\ out.floor[u] = Pruned.floor[u]
              /\ out.complete[issued[r].uid] = r
              /\ out.floor[issued[r].uid] = [revision |-> r, until |-> FloorUntil]
            BY <1>2, <2>3, <3>1
        <3> QED
            BY <1>1, <1>6, <2>3, <3>2, CompletedSound DEF r
    <2> QED
        BY <1>6, <2>1, <2>2, <2>3
<1>8. CASE Push(r, i).publish
    <2>1. uid' \in UIDs \cup {NoUid} /\ latest' \in Nat
        BY <1>1, <1>3 DEF Shape
    <2> QED
        BY <1>3, <1>4, <1>7, <1>8, <2>1, Republished
<1>9. CASE ~Push(r, i).publish
    <2>1. out.complete = Pruned.complete /\ UNCHANGED <<published, highest>>
        BY <1>4, <1>6, <1>9
    <2>2. Shape'
        BY <1>1, <1>3, <1>6, <2>1 DEF Shape
    <2>3. Discovered' /\ Ordered' /\ NeverReverts'
        BY <1>3, <2>1 DEF IInv, Discovered, Ordered, originClock, NeverReverts
    <2>4. Sound(rx)'
        BY <1>3, <1>6, <1>7, <2>1 DEF Sound, Assembled, FloorsLast, FloorUntil, Covered, Refused
    <2>5. AdvertisedIsPublished'
        <3>1. NoRevision \notin Revisions
            BY Constants DEF NoRevision
        <3>2. \A u \in UIDs, p \in Revisions :
                 (Pruned.complete[u] = p /\ Unexpired(p)) <=> (rx.complete[u] = p /\ Unexpired(p))
            BY <1>1, <3>1, PrunedFields
        <3> QED
            BY <1>3, <2>1, <3>2 DEF IInv, AdvertisedIsPublished, Unexpired
    <2> QED
        BY <2>2, <2>3, <2>4, <2>5 DEF IInv
<1> QED
    BY <1>6, <1>8, <1>9

\* withdraw_provider drops the inventory and keeps its floor.
LEMMA WithdrawnSound ==
    ASSUME IInv, NEW v \in UIDs
    PROVE  Sound(Withdrawn(v))
<1>1. rx \in Receivers /\ NoPending \in Pendings
    BY Constants DEF IInv, Sound, NoPending, Pendings
<1>2. /\ Withdrawn(v) \in Receivers /\ Withdrawn(v).floor = rx.floor /\ Withdrawn(v).blocked = rx.blocked
      /\ \A u \in UIDs : Withdrawn(v).complete[u] = IF u = v THEN NoRevision ELSE rx.complete[u]
    BY <1>1 DEF Withdrawn, Receivers
<1> QED
    BY <1>2 DEF IInv, Sound, Assembled, FloorsLast, Covered, Refused

LEMMA StateStep ==
    ASSUME IInv, NEW s \in DOMAIN states, ReceiveState(s)
    PROVE  IInv'
<1>1. states[s] \in UIDs \cup {NoUid} /\ s \in Nat
    BY DEF IInv, Shape
<1>2. Sound(rx')
    <2>1. CASE uid \in UIDs \ {states[s]}
        BY <2>1, WithdrawnSound DEF ReceiveState
    <2>2. CASE uid \notin UIDs \ {states[s]}
        BY <2>2 DEF ReceiveState, IInv
    <2> QED
        BY <2>1, <2>2
<1> QED
    BY <1>1, <1>2, Republished DEF ReceiveState

LEMMA ForgetStep ==
    ASSUME IInv, NEW blocked \in Int, Forget(blocked)
    PROVE  IInv'
<1> USE DEF Forget
<1>1. /\ rx' \in Receivers
      /\ \A u \in UIDs : rx'.complete[u] = NoRevision /\ rx'.floor[u] = NoFloor /\ highest'[u] = NoRevision
    BY ForgottenFields
<1>2. Shape'
    BY <1>1 DEF IInv, Shape
<1>3. NoRevision = 0 /\ origin.revision \in Nat /\ \A w \in wire : w.revision \in Nat
    BY StateTypes DEF IInv, NoRevision
<1>4. Discovered' /\ Ordered' /\ NeverReverts'
    BY <1>1, <1>3 DEF IInv, Discovered, Ordered, originClock, NeverReverts
<1>5. Sound(rx)'
    BY <1>1, <1>3, NoFloorFields DEF Sound, Assembled, FloorsLast, Covered
<1>6. AdvertisedIsPublished'
    BY Constants DEF AdvertisedIsPublished, NoUid
<1> QED
    BY <1>2, <1>4, <1>5, <1>6 DEF IInv

-----------------------------------------------------------------------------
(* The origin's steps, and time. *)

\* The origin's other records do not matter to the peer.
LEMMA OriginIrrelevant ==
    ASSUME IInv, Shape', origin'.revision = origin.revision,
           UNCHANGED <<clock, ahead, issued, wire, latest, uid, rx, published, highest>>
    PROVE  IInv'
<1>1. Discovered' /\ Ordered' /\ NeverReverts' /\ AdvertisedIsPublished'
    BY DEF IInv, Discovered, Ordered, originClock, NeverReverts, AdvertisedIsPublished, Unexpired
<1>2. Sound(rx)'
    BY DEF IInv, Sound, Receivers, Assembled, FloorsLast, FloorUntil, Covered, Refused
<1> QED
    BY <1>1, <1>2 DEF IInv

LEMMA ReplaceStep == ASSUME IInv, ReplaceProvider PROVE IInv'
<1>1. /\ origin' \in [uid : UIDs, revision : Revisions \cup {NoRevision}]
      /\ origin'.revision = origin.revision
    BY Constants DEF ReplaceProvider, IInv, Shape, UIDs
<1>2. Shape'
    BY <1>1 DEF ReplaceProvider, peer, IInv, Shape
<1> QED
    BY <1>1, <1>2, OriginIrrelevant DEF ReplaceProvider, peer

LEMMA AdvertiseStep == ASSUME IInv, NEW u \in UIDs \cup {NoUid}, Advertise(u) PROVE IInv'
<1>1. Shape'
    BY DEF Advertise, peer, IInv, Shape
<1> QED
    BY <1>1, OriginIrrelevant DEF Advertise, peer

\* A new inventory is one nobody has signed, held or read yet.
LEMMA DiscoverStep == ASSUME IInv, Discover PROVE IInv'
<1> DEFINE next == origin.revision + 1
<1>1. /\ next \in Revisions
      /\ issued' = [issued EXCEPT ![next] = [uid |-> origin.uid, expires |-> originClock + Ttl]]
      /\ origin' = [origin EXCEPT !.revision = next]
      /\ UNCHANGED <<clock, ahead, wire, states, latest, uid, rx, published, highest>>
    BY DEF Discover, peer
<1>2. /\ Shape /\ rx \in Receivers /\ origin.revision \in Nat /\ next = origin.revision + 1
      /\ origin.uid \in UIDs /\ NoRevision = 0 /\ originClock + Ttl \in Int
    BY StateTypes, Constants DEF IInv, Sound, Shape, NoRevision
<1> HIDE DEF next
<1>3. origin'.revision = next /\ origin' \in [uid : UIDs, revision : Revisions \cup {NoRevision}]
    BY <1>1, <1>2 DEF Shape
<1>4. [uid |-> origin.uid, expires |-> originClock + Ttl] \in Inventories
    BY <1>2 DEF Inventories
<1>5. /\ \A r \in Revisions : r # next => issued'[r] = issued[r]
      /\ issued'[next].uid = origin.uid
      /\ issued' \in [Revisions -> Inventories]
    BY <1>1, <1>2, <1>4 DEF Shape
<1>6. Shape'
    BY <1>1, <1>2, <1>3, <1>5 DEF Shape
<1>7. \A r \in Revisions : r \in Nat
    BY Constants
<1>8. /\ \A w \in wire : w.revision \in Revisions /\ w.revision # next
      /\ \A r \in published : r \in Revisions /\ r # next
      /\ \A u \in UIDs : /\ rx.complete[u] # next /\ rx.complete[u] \in Revisions \cup {NoRevision}
                         /\ rx.floor[u].revision \in Nat /\ highest[u] \in Nat
    <2>1. \A w \in wire : w.revision \in Revisions /\ w.revision <= origin.revision
        BY <1>2, StateTypes DEF IInv, Discovered
    <2>2. \A r \in published : r \in Revisions /\ r <= origin.revision
        BY <1>2 DEF IInv, Discovered, Shape
    <2>3. ASSUME NEW u \in UIDs
          PROVE  /\ rx.complete[u] # next /\ rx.complete[u] \in Revisions \cup {NoRevision}
                 /\ rx.floor[u].revision \in Nat /\ highest[u] \in Nat
        <3>1. /\ rx.complete[u] \in Nat /\ rx.complete[u] \in Revisions \cup {NoRevision}
              /\ rx.floor[u].revision \in Nat /\ highest[u] \in Nat
            BY <1>2, HeldTypes, StateTypes
        <3>2. rx.complete[u] <= origin.revision
            BY <1>2, <3>1 DEF IInv, Sound, Assembled
        <3> QED
            BY <1>2, <3>1, <3>2
    <2> QED
        BY <1>2, <1>7, <2>1, <2>2, <2>3
<1>9. Discovered'
    BY <1>1, <1>2, <1>3, <1>5, <1>7, <1>8 DEF IInv, Discovered
<1>10. Ordered'
    BY <1>1 DEF IInv, Ordered, originClock
<1>11. Assembled(rx)'
    BY <1>1, <1>2, <1>3, <1>5, <1>8 DEF IInv, Sound, Assembled
<1>12. FloorsLast(rx)' /\ (rx \in Receivers)'
    BY <1>1, <1>2 DEF IInv, Sound, FloorsLast, FloorUntil, Receivers
<1>13. Covered(rx)'
    BY <1>1, <1>5, <1>8 DEF IInv, Sound, Covered, Refused
<1>14. NeverReverts'
    BY <1>1, <1>5, <1>8 DEF IInv, NeverReverts
<1>15. AdvertisedIsPublished'
    <2>1. \A r \in Revisions : r # next => (Unexpired(r)' <=> Unexpired(r))
        BY <1>1, <1>5 DEF Unexpired
    <2> QED
        BY <1>1, <1>8, <2>1 DEF IInv, AdvertisedIsPublished
<1> QED
    BY <1>6, <1>9, <1>10, <1>11, <1>12, <1>13, <1>14, <1>15 DEF IInv, Sound

\* Only the newest revision is signed, at the newest time.
LEMMA SignStep == ASSUME IInv, SignFrames PROVE IInv'
<1> DEFINE signing == [revision |-> origin.revision, signed |-> originClock]
<1>1. /\ wire' = wire \cup {signing} /\ origin.revision \in Revisions
      /\ UNCHANGED <<clock, ahead, origin, issued, states, latest, uid, rx, published, highest>>
    BY DEF SignFrames, peer
<1>2. /\ Shape /\ rx \in Receivers /\ origin.revision \in Nat /\ originClock \in Int
      /\ \A w \in wire : w.revision \in Nat /\ w.signed \in Int
      /\ \A u \in UIDs : highest[u] \in Nat /\ rx.floor[u].revision \in Nat
    BY StateTypes, HeldTypes DEF IInv, Sound
<1>3. signing.revision = origin.revision /\ signing.signed = originClock
    OBVIOUS
<1>4. signing \in [revision : Revisions, signed : Int]
    BY <1>1, <1>2
<1> HIDE DEF signing
<1>5. Shape'
    BY <1>1, <1>2, <1>4 DEF Shape
<1>6. Discovered'
    BY <1>1, <1>2, <1>3 DEF IInv, Discovered
<1>7. originClock' = originClock
    BY <1>1 DEF originClock
<1>8. Ordered'
    BY <1>1, <1>2, <1>3, <1>7 DEF IInv, Discovered, Ordered
<1>9. Assembled(rx)' /\ (rx \in Receivers)'
    BY <1>1, <1>2 DEF IInv, Sound, Assembled, Receivers
<1>10. FloorsLast(rx)'
    BY <1>1, <1>2, <1>3 DEF IInv, Sound, Assembled, FloorsLast, FloorUntil
<1>11. Covered(rx)'
    BY <1>1, <1>2, <1>3 DEF IInv, Sound, Discovered, Covered, Refused
<1>12. NeverReverts' /\ AdvertisedIsPublished'
    BY <1>1 DEF IInv, NeverReverts, AdvertisedIsPublished, Unexpired
<1> QED
    BY <1>5, <1>6, <1>8, <1>9, <1>10, <1>11, <1>12 DEF IInv, Sound

LEMMA TickStep == ASSUME IInv, Tick PROVE IInv'
<1>1. /\ clock < MaxClock /\ clock' = clock + 1 /\ wire' \subseteq wire
      /\ UNCHANGED <<ahead, origin, issued, states, latest, uid, rx, published, highest>>
    BY DEF Tick, peer
<1>2. /\ Shape /\ rx \in Receivers /\ clock \in Nat /\ MaxClock \in Nat
      /\ originClock \in Int /\ FloorUntil = clock + Age + Skew /\ Age \in Nat /\ Skew \in Nat
      /\ \A w \in wire : w.revision \in Revisions /\ w.signed \in Int /\ w.signed + Age \in Int
      /\ \A u \in UIDs : rx.floor[u].until \in Int
    BY StateTypes, HeldTypes, Constants DEF IInv, Sound
<1>3. Shape'
    BY <1>1, <1>2 DEF Shape
<1>4. Discovered' /\ NeverReverts'
    BY <1>1 DEF IInv, Discovered, NeverReverts
<1>5. originClock' = originClock + 1 /\ FloorUntil' = FloorUntil + 1 /\ FloorUntil \in Int
    BY <1>1, <1>2 DEF originClock, FloorUntil, Shape
<1>6. Ordered'
    BY <1>1, <1>2, <1>5 DEF IInv, Ordered
<1>7. Assembled(rx)' /\ (rx \in Receivers)'
    BY <1>1, <1>2 DEF IInv, Sound, Assembled, Receivers
<1>8. FloorsLast(rx)'
    BY <1>1, <1>2, <1>5 DEF IInv, Sound, FloorsLast
<1>9. Covered(rx)'
    BY <1>1, <1>2 DEF IInv, Sound, Covered, Refused
<1>10. AdvertisedIsPublished'
    <2>1. \A r \in Revisions : Unexpired(r)' => Unexpired(r)
        <3>1. \A r \in Revisions : issued[r].expires \in Int
            BY <1>2 DEF Shape, Inventories
        <3> QED
            BY <1>1, <1>2, <3>1 DEF Unexpired
    <2>2. published \subseteq Revisions
        BY <1>2 DEF Shape
    <2> QED
        BY <1>1, <2>1, <2>2 DEF IInv, AdvertisedIsPublished
<1> QED
    BY <1>3, <1>4, <1>6, <1>7, <1>8, <1>9, <1>10 DEF IInv, Sound

-----------------------------------------------------------------------------
LEMMA InvInit == Init => IInv
<1> SUFFICES ASSUME Init PROVE IInv
    OBVIOUS
<1> USE DEF Init
<1>1. /\ rx \in Receivers
      /\ \A u \in UIDs : rx.complete[u] = NoRevision /\ rx.floor[u] = NoFloor /\ highest[u] = NoRevision
    BY ForgottenFields DEF Unblocked
<1>2. ahead \in Int /\ 1 \in UIDs /\ MaxClock \in Nat
    BY InventoryAssumption, Constants
<1>3. Shape
    BY <1>1, <1>2 DEF Shape, Inventories, NoRevision
<1>4. Discovered /\ Ordered /\ NeverReverts
    <2>1. \A r \in Revisions : r \in Nat /\ r # 0
        BY Constants
    <2> QED
        BY <1>1, <2>1 DEF Discovered, Ordered, NeverReverts, NoRevision
<1>5. Sound(rx)
    BY <1>1, NoFloorFields DEF Sound, Assembled, FloorsLast, Covered, NoRevision
<1>6. AdvertisedIsPublished
    BY Constants DEF AdvertisedIsPublished, NoUid
<1> QED
    BY <1>3, <1>4, <1>5, <1>6 DEF IInv

LEMMA InvStep == ASSUME IInv, [Next]_vars PROVE IInv'
<1>1. CASE UNCHANGED vars
    BY <1>1 DEF vars, IInv, Shape, Discovered, Ordered, originClock, Sound, Receivers, Assembled, FloorsLast,
                FloorUntil, Covered, Refused, NeverReverts, AdvertisedIsPublished, Unexpired
<1>2. CASE OriginStep
    BY <1>2, ReplaceStep, DiscoverStep, SignStep, AdvertiseStep DEF OriginStep
<1>3. CASE PeerStep
    <2>1. Unblocked \in Int /\ rx.blocked \in Int
        BY HeldTypes DEF Unblocked, IInv, Sound
    <2> QED
        BY <1>3, <2>1, FrameStep, StateStep, ForgetStep DEF PeerStep, RemoveOrigin, RemoveGrid
<1>4. CASE Tick
    BY <1>4, TickStep
<1> QED
    BY <1>1, <1>2, <1>3, <1>4 DEF Next

\* What the peer's assembler, its readers and the network keep to, whatever arrives
\* (push, prune, block_origin, remove_origin, receive_state_broadcast).
THEOREM InventoryInvariant == Spec => []IInv
<1>1. Init => IInv
    BY InvInit
<1>2. IInv /\ [Next]_vars => IInv'
    BY InvStep
<1> QED
    BY <1>1, <1>2, PTL DEF Spec

\* Whatever frames, provider states and removals arrive in which order, readers see
\* exactly the complete inventory of the advertised instance while it is fresh
\* (publish_verified_inventories, withdraw_provider).
THEOREM ReadersSeeAdvertised == Spec => []AdvertisedIsPublished
<1>1. IInv => AdvertisedIsPublished
    BY DEF IInv
<1> QED
    BY <1>1, InventoryInvariant, PTL

\* Readers never go back to an older inventory of the same instance: the floor of a
\* completed revision, and the block that replaces it, outlast every older signature
\* that Age and Skew would still let in (RevisionFloor, block_origin, verifies).
THEOREM InventoriesNeverRevert == Spec => []NeverReverts
<1>1. IInv => NeverReverts
    BY DEF IInv
<1> QED
    BY <1>1, InventoryInvariant, PTL

=============================================================================
