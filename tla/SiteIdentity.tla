---------------------------- MODULE SiteIdentity ----------------------------
(***************************************************************************)
(* A site's operator against the enrollment service of EnrollmentStore:    *)
(* crates/operator/src/enroll.rs and enroll/{pending,renew,local}.rs.      *)
(*                                                                         *)
(* The operator that holds the lease enrolls with the invite its config    *)
(* names, keeping the request and then the answer in a Secret beside the   *)
(* identity, and renews the identity once it is due.  Its process may end  *)
(* between any two writes; a request or an answer may be lost, and one it  *)
(* gave up on may still be in service.  Only this site asks for the name:  *)
(* what the store does under several parties is EnrollmentStore's run.     *)
(***************************************************************************)
EXTENDS EnrollmentStore

CONSTANTS
    Site,       \* the site's name
    MaxLosses   \* bound on how often the identity Secret is deleted

ASSUME SiteAssumption == Site \in Names \ Reserved /\ MaxLosses \in Nat

VARIABLES
    invite,     \* the token in the Secret site.inviteSecretRef names
    kept,       \* pending::Pending, the Secret beside the identity
    identity,   \* the identity Secret: the leaf and a pending renewal's key
    due,        \* a third of the leaf's lifetime is left
    op,         \* the step of enroll or renew the operator is at
    failed,     \* LocalSite::failed: inputs refused for good
    identified, \* this process has seen an identity
    losses,
    rejected    \* history: requests reported as TokenRejected

siteVars == <<invite, kept, identity, due, op, failed, identified, losses, rejected>>
vars == <<storeVars, siteVars>>

Pendings == [invite : Tokens, key : Keys, issued : Certs \cup {Nil}, unanswered : BOOLEAN]
Identities == [leaf : Certs, pending : Keys \cup {Nil}]
ASSUME SecretsAssumption == Nil \notin Pendings \cup Identities \cup Certs

\* "ready" and "sent" hold what the attempt read; request is the slot its
\* request arrived in, Nil when it was lost on the way.
Idle == [stage |-> "idle"]
Enrolling == [stage : {"enroll_ready", "enroll_store"}]
                \cup [stage : {"enroll_sent"}, resent : BOOLEAN, request : Requests \cup {Nil}]
Renewing == [stage : {"renew_ready"}, held : Identities]
                \cup [stage : {"renew_sent"}, held : Identities, request : Requests \cup {Nil}]

SiteTypeOK ==
    /\ TypeOK
    /\ invite \in Tokens \cup {Nil}
    /\ kept \in Pendings \cup {Nil}
    /\ identity \in Identities \cup {Nil}
    /\ due \in BOOLEAN /\ identified \in BOOLEAN
    /\ op \in {Idle} \cup Enrolling \cup Renewing
    /\ failed \in Tokens \cup {Nil}
    /\ losses \in 0 .. MaxLosses
    /\ rejected \subseteq Tokens \X Keys

SiteInit ==
    /\ StoreInit
    /\ invite = Nil /\ kept = Nil /\ identity = Nil /\ failed = Nil
    /\ due = FALSE /\ identified = FALSE
    /\ op = Idle
    /\ losses = 0 /\ rejected = {}

-----------------------------------------------------------------------------
(* Keys and requests *)

\* generate_csr: a key nobody holds, and none an invite names.
FreshKeys == Keys \ (KeysInUse \cup BoundKeys
                     \cup (IF kept = Nil THEN {} ELSE {kept.key})
                     \cup (IF identity = Nil THEN {} ELSE {identity.pending}))
FreshKey == CHOOSE k \in FreshKeys : TRUE

\* Nothing of the site is in the network or in service.
Quiet == \A r \in Requests : requests[r] = Nil

\* A request that reaches the service takes a free slot; Nil is one lost.
FreeSlots == {r \in Requests : requests[r] = Nil}
Arrivals == {Nil} \cup (IF FreeSlots = {} THEN {} ELSE {CHOOSE r \in FreeSlots : TRUE})

\* The operator awaits this request's answer.
Awaits(r) == op.stage \in {"enroll_sent", "renew_sent"} /\ op.request = r
\* The answer reaches the operator, and the request is over.
Answered == op.request # Nil /\ requests[op.request] # Nil /\ requests[op.request].kind = "answer"
AnswerOf == requests[op.request]
Close == requests' = [requests EXCEPT ![op.request] = Nil]
StoreIdle == UNCHANGED <<tokens, enrollments, enrolledKeys, deletedNames, mints, seeds, clock, certs>>

-----------------------------------------------------------------------------
(* Enrollment *)

\* Enrollment with an invite that was not refused: the request kept for it, or
\* a new one, kept in place of what was kept for another invite.
EnrollStart ==
    /\ op = Idle /\ ~identified /\ identity = Nil
    /\ invite # Nil /\ invite # failed
    /\ IF kept # Nil /\ kept.invite = invite
       THEN UNCHANGED kept
       ELSE FreshKeys # {} /\ kept' = [invite |-> invite, key |-> FreshKey, issued |-> Nil, unanswered |-> FALSE]
    /\ op' = [stage |-> IF kept'.issued = Nil THEN "enroll_ready" ELSE "enroll_store"]
    /\ UNCHANGED <<storeVars, invite, identity, due, failed, identified, losses, rejected>>

\* Mutant: the mark is left for the answer to write.
SendingUnmarked == kept

\* Pending::sending.
Sending == [kept EXCEPT !.unanswered = TRUE]

\* sent: the request is marked unanswered before it leaves, and may be lost.
EnrollSend(r) ==
    /\ op.stage = "enroll_ready"
    /\ kept' = Sending
    /\ op' = [stage |-> "enroll_sent", resent |-> kept.unanswered, request |-> r]
    /\ IF r = Nil THEN UNCHANGED storeVars ELSE ReceiveEnroll(r, kept.invite, kept.key)
    /\ UNCHANGED <<invite, identity, due, failed, identified, losses, rejected>>

\* Pending::issued: the answer is kept before the identity is written.
EnrollIssued ==
    /\ op.stage = "enroll_sent" /\ Answered /\ AnswerOf.result = "Issued"
    /\ kept' = [kept EXCEPT !.issued = AnswerOf.cert, !.unanswered = FALSE]
    /\ op' = [stage |-> "enroll_store"]
    /\ Close /\ StoreIdle
    /\ UNCHANGED <<invite, identity, due, failed, identified, losses, rejected>>

\* A refused token may have been spent by an earlier request that got no
\* answer: the mark stays, and the verdict says so.  Any other refusal is the
\* signer's answer, and clears the mark.
EnrollRefused ==
    /\ op.stage = "enroll_sent" /\ Answered /\ AnswerOf.result # "Issued"
    /\ IF AnswerOf.result = "TokenInvalid" /\ op.resent
       THEN UNCHANGED <<kept, rejected>>
       ELSE /\ kept' = [kept EXCEPT !.unanswered = FALSE]
            /\ rejected' = rejected \cup (IF AnswerOf.result = "TokenInvalid" THEN {<<kept.invite, kept.key>>} ELSE {})
    /\ failed' = kept.invite
    /\ op' = Idle
    /\ Close /\ StoreIdle
    /\ UNCHANGED <<invite, identity, due, identified, losses>>

\* stored: the identity Secret is created; one another writer made stands.
StoreIdentity ==
    /\ op.stage = "enroll_store"
    /\ identity' = IF identity = Nil THEN [leaf |-> kept.issued, pending |-> Nil] ELSE identity
    /\ op' = Idle
    /\ UNCHANGED <<storeVars, invite, kept, due, failed, identified, losses, rejected>>

\* With an identity present, what was kept goes and enrollment is over.
Present ==
    /\ op = Idle /\ identity # Nil
    /\ kept # Nil \/ ~identified
    /\ kept' = Nil /\ failed' = Nil /\ identified' = TRUE
    /\ UNCHANGED <<storeVars, invite, identity, due, op, losses, rejected>>

-----------------------------------------------------------------------------
(* Renewal *)

\* Mutant: the new key is not stored before it is sent.
PendingInMemory(held) == held

\* pending: the key to ask for, stored in the identity before it is sent.
Pending(held) == IF held.pending # Nil THEN held ELSE [held EXCEPT !.pending = FreshKey]

\* renew, for an identity that is due.
RenewStart ==
    /\ op = Idle /\ identified /\ identity # Nil /\ due
    /\ identity.pending = Nil => FreshKeys # {}
    /\ identity' = Pending(identity)
    /\ op' = [stage |-> "renew_ready", held |-> [identity EXCEPT !.pending = IF @ # Nil THEN @ ELSE FreshKey]]
    /\ UNCHANGED <<storeVars, invite, kept, due, failed, identified, losses, rejected>>

RenewSend(r) ==
    /\ op.stage = "renew_ready"
    /\ op' = [stage |-> "renew_sent", held |-> op.held, request |-> r]
    /\ IF r = Nil THEN UNCHANGED storeVars ELSE ReceiveRenew(r, op.held.leaf, op.held.pending)
    /\ UNCHANGED <<invite, kept, identity, due, failed, identified, losses, rejected>>

\* The issued leaf replaces the one presented, if the Secret is as it was read.
RenewIssued ==
    /\ op.stage = "renew_sent" /\ Answered /\ AnswerOf.result = "Issued"
    /\ IF identity = op.held
       THEN identity' = [leaf |-> AnswerOf.cert, pending |-> Nil] /\ due' = FALSE
       ELSE UNCHANGED <<identity, due>>
    /\ op' = Idle
    /\ Close /\ StoreIdle
    /\ UNCHANGED <<invite, kept, failed, identified, losses, rejected>>

\* A refused renewal is tried again on a later round.
RenewRefused ==
    /\ op.stage = "renew_sent" /\ Answered /\ AnswerOf.result # "Issued"
    /\ op' = Idle
    /\ Close /\ StoreIdle
    /\ UNCHANGED <<invite, kept, identity, due, failed, identified, losses, rejected>>

-----------------------------------------------------------------------------
(* Failures *)

\* The request or its answer was lost: the next poll starts over from what is
\* stored.
GiveUp ==
    /\ op.stage \in {"enroll_sent", "renew_sent"}
    /\ op.request \notin {r \in Requests : requests[r] # Nil}
    /\ op' = Idle
    /\ UNCHANGED <<storeVars, invite, kept, identity, due, failed, identified, losses, rejected>>

\* The request times out in service, a write of the attempt fails, or the
\* operator stands down: the request may still be served.
Interrupt ==
    /\ op # Idle
    /\ op' = Idle
    /\ UNCHANGED <<storeVars, invite, kept, identity, due, failed, identified, losses, rejected>>

\* A new process knows only what the Secrets hold.
Restarted == op' = Idle /\ failed' = Nil /\ identified' = FALSE

Crash ==
    /\ Restarted
    /\ UNCHANGED <<storeVars, invite, kept, identity, due, losses, rejected>>

\* lost_identity_with_invite: the process ends so that the next one enrolls.
LeaveForInvite ==
    /\ identified /\ identity = Nil /\ invite # Nil
    /\ Restarted
    /\ UNCHANGED <<storeVars, invite, kept, identity, due, losses, rejected>>

\* The identity Secret is deleted.
LoseIdentity ==
    /\ identity # Nil
    /\ losses < MaxLosses /\ losses' = losses + 1
    /\ identity' = Nil /\ due' = FALSE
    /\ UNCHANGED <<storeVars, invite, kept, op, failed, identified, rejected>>

-----------------------------------------------------------------------------
(* Time and the grid-admin *)

\* Assumed: a leaf comes due, and an admin deletes an enrollment, long after
\* the last request was cut off at REQUEST_TIMEOUT.
BecomeDue ==
    /\ identity # Nil /\ ~due
    /\ Quiet
    /\ clock < MaxClock /\ clock' = clock + 1
    /\ due' = TRUE
    /\ UNCHANGED <<tokens, enrollments, enrolledKeys, deletedNames, mints, requests, seeds, certs>>
    /\ UNCHANGED <<invite, kept, identity, op, failed, identified, losses, rejected>>

AdminDelete ==
    /\ Quiet
    /\ DeleteEnrollment(Site)
    /\ UNCHANGED siteVars

\* The admin hands the site a token it minted.
SetInvite(t) ==
    /\ Usable(t) /\ tokens[t].name = Site /\ invite # t
    /\ invite' = t
    /\ UNCHANGED <<storeVars, kept, identity, due, op, failed, identified, losses, rejected>>

\* A token not minted yet, whichever; the name is opted into once deleted.
NewTokens == LET unminted == {t \in Tokens : tokens[t].state = "unminted"}
             IN  IF unminted = {} THEN {} ELSE {CHOOSE t \in unminted : TRUE}

Admin ==
    \/ /\ \/ \E m \in Minters, t \in NewTokens, bound \in BoundKeys \cup {Nil} :
                MintCheck(m, t, Site, Site \in deletedNames, bound)
          \/ \E m \in Minters : MintCommit(m)
          \/ \E t \in Tokens : Expire(t)
       /\ UNCHANGED siteVars
    \/ AdminDelete
    \/ \E t \in Tokens : SetInvite(t)

Service == \E r \in Requests : (ServeStep(r) \/ Finish(r)) /\ UNCHANGED siteVars

Operator ==
    \/ EnrollStart \/ EnrollIssued \/ EnrollRefused \/ StoreIdentity \/ Present
    \/ RenewStart \/ RenewIssued \/ RenewRefused
    \/ \E r \in Arrivals : EnrollSend(r) \/ RenewSend(r)
    \/ GiveUp \/ Interrupt \/ Crash \/ LeaveForInvite

SiteNext == Operator \/ Service \/ Admin \/ LoseIdentity \/ BecomeDue

\* The operator's polls and rounds go on, requests in service are served or
\* cut off, and not every request and every answer is lost.
SiteFairness ==
    /\ WF_vars(Present \/ RenewStart \/ GiveUp)
    /\ SF_vars(\E r \in Arrivals \ {Nil} : RenewSend(r))
    /\ SF_vars(RenewIssued)
    /\ SF_vars(\E r \in Requests : ServeStep(r) /\ UNCHANGED siteVars)
    /\ WF_vars(\E r \in Requests : Finish(r) /\ ~Awaits(r) /\ UNCHANGED siteVars)

SiteSpec == SiteInit /\ [][SiteNext]_vars /\ SiteFairness

-----------------------------------------------------------------------------
(* Properties *)

\* A site that is alone in using its identity is never taken for two: no
\* retry, crash, lost answer or request served late looks like a fork and
\* freezes its record (renewal::decide, pending).
NeverFreezesItself == enrollments[Site] # Nil => ~enrollments[Site].frozen

\* An invite is reported as rejected only if no request of the site with that
\* key spent it: a refusal after a lost answer is told apart (sent).
RejectionIsHonest ==
    \A c \in certs : c.via = "enroll" => <<c.token, c.key>> \notin rejected

\* Once attempts are no longer cut short, a due identity is renewed, unless it
\* is lost or its enrollment deleted, whatever answers were lost before: the
\* retry of a kept key is signed again.
DueIsRenewed ==
    <>[][~Interrupt /\ ~Crash]_vars => (due ~> (~due \/ enrollments[Site] = Nil))

=============================================================================
