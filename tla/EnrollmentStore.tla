--------------------------- MODULE EnrollmentStore ---------------------------
(***************************************************************************)
(* The enrollment service (crates/enrollment/src/api.rs, store/postgres.rs,*)
(* store/renewal.rs).  A grid-admin mints one-time tokens that pin a site  *)
(* name; a site redeems one for a certificate and renews with the          *)
(* certificate it holds; bootstrap seeds the names it reserves.            *)
(*                                                                         *)
(* Redemptions and mints run in transactions of several statements under   *)
(* READ COMMITTED, so they are split where another transaction can step    *)
(* in, and a row another transaction changed is waited for.  A renewal, a  *)
(* seed, a revocation and a deletion decide and write under one row lock   *)
(* or in one statement, and are single steps.  The clock moves in          *)
(* SiteIdentity, which composes the service with a site.                   *)
(***************************************************************************)
EXTENDS Naturals, FiniteSets

CONSTANTS
    Tokens,        \* site_tokens rows, each minted at most once (UUIDs)
    Names,         \* site names
    Reserved,      \* AppState::reserved_sites
    Keys,          \* public keys, by digest
    BoundKeys,     \* keys an invite may bind its token to
    Requests,      \* HTTP requests to enroll or renew in service at once
    Minters,       \* mint requests in service at once
    MaxClock,      \* bound on the clock
    MaxGeneration, \* bound on the seeds bootstrap signs
    Nil            \* Option::None

ASSUME NamesAssumption == Reserved \subseteq Names /\ BoundKeys \subseteq Keys
ASSUME NilAssumption == Nil \notin Names \cup Keys \cup Tokens
ASSUME StoreBoundsAssumption == MaxClock \in Nat /\ MaxGeneration \in Nat

VARIABLES
    tokens,       \* site_tokens
    enrollments,  \* site_enrollments, by its unique site_name
    enrolledKeys, \* enrolled_keys: the name each key was ever enrolled for
    deletedNames, \* deleted_site_names
    mints,        \* mint transactions between their check and their insert
    requests,     \* requests in service, with their open transaction
    seeds,        \* seeds bootstrap signed, any of which may be mounted
    clock,        \* NOW()
    certs         \* history: certificates signed, and by which path

storeVars == <<tokens, enrollments, enrolledKeys, deletedNames, mints, requests, seeds, clock, certs>>

Times == 0 .. MaxClock
Generations == 1 .. MaxGeneration

\* A site_tokens row; NoRow stands for none, before the mint and, as "gone",
\* once the row is revoked or forfeited.
TokenRows == [state : {"unminted", "live", "spent", "gone"}, name : Names \cup {Nil},
              allow : BOOLEAN, bound : Keys \cup {Nil}, expired : BOOLEAN]
\* A site_enrollments row: Held, whether it is reserved, and its site_token_id.
Records == [key : Keys, previous : Keys \cup {Nil}, frozen : BOOLEAN, reserved : BOOLEAN,
            generation : Generations \cup {0}, epoch : Times, recorded : Times, token : Tokens \cup {Nil}]
ASSUME RecordsAssumption == Nil \notin Records

NoRow(state) == [state |-> state, name |-> Nil, allow |-> FALSE, bound |-> Nil, expired |-> FALSE]
Mints == [token : Tokens, name : Names, allow : BOOLEAN, bound : Keys \cup {Nil}]
Certs == [name : Names, key : Keys, notBefore : Times, token : Tokens \cup {Nil}, via : {"enroll", "renew", "seed"}]
\* A request: the token or the leaf it presents, the key of its CSR, and how
\* far its transaction is; then what the handler answers.
EnrollRequests == [kind : {"enroll"}, token : Tokens, key : Keys, stage : {"received", "consumed", "inserted"}]
RenewRequests == [kind : {"renew"}, leaf : Certs, key : Keys]
Answers == [kind : {"answer"}, cert : Certs \cup {Nil},
            result : {"Issued", "TokenInvalid", "NameTaken", "NameDeleted", "KeyMismatch", "KeyReused", "Refused"}]
Seeds == [name : Reserved, key : Keys, generation : Generations, issued : Times]

TypeOK ==
    /\ tokens \in [Tokens -> TokenRows]
    /\ enrollments \in [Names -> Records \cup {Nil}]
    /\ enrolledKeys \in [Keys -> Names \cup {Nil}]
    /\ deletedNames \subseteq Names
    /\ mints \in [Minters -> Mints \cup {Nil}]
    /\ requests \in [Requests -> EnrollRequests \cup RenewRequests \cup Answers \cup {Nil}]
    /\ seeds \subseteq Seeds
    /\ clock \in Times
    /\ certs \subseteq Certs

StoreInit ==
    /\ tokens = [t \in Tokens |-> NoRow("unminted")]
    /\ enrollments = [n \in Names |-> Nil]
    /\ enrolledKeys = [k \in Keys |-> Nil]
    /\ deletedNames = {}
    /\ mints = [m \in Minters |-> Nil]
    /\ requests = [r \in Requests |-> Nil]
    /\ seeds = {}
    /\ clock = 0
    /\ certs = {}

-----------------------------------------------------------------------------
(* Tokens *)

\* redeemed_at IS NULL AND expires_at > NOW(), as a committed row reads.
Usable(t) == tokens[t].state = "live" /\ ~tokens[t].expired

\* A redemption updated the row and has not ended: the row is locked.
Locked(t) == \E r \in Requests : requests[r] # Nil /\ requests[r].kind = "enroll"
                                 /\ requests[r].token = t /\ requests[r].stage \in {"consumed", "inserted"}

\* Mutant: mint_site_token takes no lock.
NoAdvisoryLock(n) == TRUE

\* The per-name advisory lock: no other mint of the name is between its steps.
AdvisoryLockFree(n) == \A m \in Minters : mints[m] # Nil => mints[m].name # n

\* mint_site_token up to its insert: the handler's refusal of a reserved name,
\* the lock, and the one SELECT that reads the three reasons to refuse.
MintCheck(m, t, n, allow, bound) ==
    /\ mints[m] = Nil
    /\ tokens[t].state = "unminted"
    /\ \A o \in Minters : mints[o] # Nil => mints[o].token # t
    /\ n \notin Reserved
    /\ AdvisoryLockFree(n)
    /\ enrollments[n] = Nil
    /\ n \in deletedNames => allow
    /\ ~\E o \in Tokens : tokens[o].name = n /\ Usable(o)
    /\ mints' = [mints EXCEPT ![m] = [token |-> t, name |-> n, allow |-> allow, bound |-> bound]]
    /\ UNCHANGED <<tokens, enrollments, enrolledKeys, deletedNames, requests, seeds, clock, certs>>

\* The insert and the commit, which frees the lock.
MintCommit(m) ==
    /\ mints[m] # Nil
    /\ tokens' = [tokens EXCEPT ![mints[m].token] =
                    [state |-> "live", name |-> mints[m].name, allow |-> mints[m].allow,
                     bound |-> mints[m].bound, expired |-> FALSE]]
    /\ mints' = [mints EXCEPT ![m] = Nil]
    /\ UNCHANGED <<enrollments, enrolledKeys, deletedNames, requests, seeds, clock, certs>>

\* The mint fails or times out: its transaction rolls back.
MintAbort(m) ==
    /\ mints[m] # Nil
    /\ mints' = [mints EXCEPT ![m] = Nil]
    /\ UNCHANGED <<tokens, enrollments, enrolledKeys, deletedNames, requests, seeds, clock, certs>>

\* revoke_site_token: deletes an unredeemed row, once no redemption locks it.
Revoke(t) ==
    /\ tokens[t].state = "live" /\ ~Locked(t)
    /\ tokens' = [tokens EXCEPT ![t] = NoRow("gone")]
    /\ UNCHANGED <<enrollments, enrolledKeys, deletedNames, mints, requests, seeds, clock, certs>>

\* expires_at passes.
Expire(t) ==
    /\ Usable(t)
    /\ tokens' = [tokens EXCEPT ![t].expired = TRUE]
    /\ UNCHANGED <<enrollments, enrolledKeys, deletedNames, mints, requests, seeds, clock, certs>>

-----------------------------------------------------------------------------
(* Redemption: enroll and redeem_and_issue *)

\* The handler's answers: a refusal, or a new certificate.
Refuse(r, result) == requests' = [requests EXCEPT ![r] = [kind |-> "answer", result |-> result, cert |-> Nil]]
Grant(r, cert) ==
    /\ requests' = [requests EXCEPT ![r] = [kind |-> "answer", result |-> "Issued", cert |-> cert]]
    /\ certs' = certs \cup {cert}

\* A POST to enroll arrives, with a token and a CSR whose signature verifies.
ReceiveEnroll(r, t, k) ==
    /\ requests[r] = Nil
    /\ requests' = [requests EXCEPT ![r] = [kind |-> "enroll", token |-> t, key |-> k, stage |-> "received"]]
    /\ UNCHANGED <<tokens, enrollments, enrolledKeys, deletedNames, mints, seeds, clock, certs>>

EnrollAt(r, stage) == requests[r] # Nil /\ requests[r].kind = "enroll" /\ requests[r].stage = stage

\* Mutant: the redemption reads the token but does not lock its row.
ConsumeUnlocked(r) ==
    /\ EnrollAt(r, "received")
    /\ \/ Usable(requests[r].token) /\ requests' = [requests EXCEPT ![r].stage = "consumed"]
       \/ ~Usable(requests[r].token) /\ Refuse(r, "TokenInvalid")
    /\ UNCHANGED <<tokens, enrollments, enrolledKeys, deletedNames, mints, seeds, clock, certs>>

\* token_valid and the guarded UPDATE: the row's lock is waited for, and a row
\* no longer usable then matches nothing.
Consume(r) ==
    /\ EnrollAt(r, "received")
    /\ ~Locked(requests[r].token)
    /\ \/ Usable(requests[r].token) /\ requests' = [requests EXCEPT ![r].stage = "consumed"]
       \/ ~Usable(requests[r].token) /\ Refuse(r, "TokenInvalid")
    /\ UNCHANGED <<tokens, enrollments, enrolledKeys, deletedNames, mints, seeds, clock, certs>>

\* Another redemption inserted the name's row and has not ended.
InsertPending(n) == \E r \in Requests : EnrollAt(r, "inserted") /\ tokens[requests[r].token].name = n

\* The sign callback, which refuses a reserved name and a key the token does
\* not bind, and the insert ON CONFLICT (site_name) DO NOTHING.
SignAndInsert(r) ==
    /\ EnrollAt(r, "consumed")
    /\ LET row == tokens[requests[r].token]
           signed == row.name \notin Reserved /\ row.bound \in {Nil, requests[r].key}
       IN  \/ ~signed /\ Refuse(r, IF row.name \in Reserved THEN "NameTaken" ELSE "KeyMismatch")
           \/ /\ signed /\ ~InsertPending(row.name)
              /\ \/ enrollments[row.name] # Nil /\ Refuse(r, "NameTaken")
                 \/ enrollments[row.name] = Nil /\ requests' = [requests EXCEPT ![r].stage = "inserted"]
    /\ UNCHANGED <<tokens, enrollments, enrolledKeys, deletedNames, mints, seeds, clock, certs>>

NewRecord(k, t) == [key |-> k, previous |-> Nil, frozen |-> FALSE, reserved |-> FALSE, generation |-> 0,
                    epoch |-> clock, recorded |-> clock, token |-> t]

\* A deleted name, read after the insert, was not opted into: the row goes and
\* forfeit commits the removal of the token.
Forfeit(r, t) ==
    /\ tokens' = [tokens EXCEPT ![t] = NoRow("gone")]
    /\ Refuse(r, "NameDeleted")
    /\ UNCHANGED <<enrollments, enrolledKeys, certs>>

\* record_key found the key in the history: everything rolls back.
RefuseReused(r) ==
    /\ Refuse(r, "KeyReused")
    /\ UNCHANGED <<tokens, enrollments, enrolledKeys, certs>>

Issue(r, t, n, k) ==
    /\ tokens' = [tokens EXCEPT ![t].state = "spent"]
    /\ enrollments' = [enrollments EXCEPT ![n] = NewRecord(k, t)]
    /\ enrolledKeys' = [enrolledKeys EXCEPT ![k] = n]
    /\ Grant(r, [name |-> n, key |-> k, notBefore |-> clock, token |-> t, via |-> "enroll"])

\* Mutant: the key history is not looked at.
CommitEnrollAnyKey(r) ==
    /\ EnrollAt(r, "inserted")
    /\ LET t == requests[r].token
           n == tokens[t].name
       IN  \/ n \in deletedNames /\ ~tokens[t].allow /\ Forfeit(r, t)
           \/ (n \in deletedNames => tokens[t].allow) /\ Issue(r, t, n, requests[r].key)
    /\ UNCHANGED <<deletedNames, mints, seeds, clock>>

\* Mutant: the mint's check of the deleted names is taken to be enough.
CommitEnrollAnyName(r) ==
    /\ EnrollAt(r, "inserted")
    /\ LET t == requests[r].token
           k == requests[r].key
       IN  \/ enrolledKeys[k] # Nil /\ RefuseReused(r)
           \/ enrolledKeys[k] = Nil /\ Issue(r, t, tokens[t].name, k)
    /\ UNCHANGED <<deletedNames, mints, seeds, clock>>

\* The rest of the transaction, to its commit.  No other transaction can
\* delete the name in between: it sees no committed row.
CommitEnroll(r) ==
    /\ EnrollAt(r, "inserted")
    /\ LET t == requests[r].token
           n == tokens[t].name
           k == requests[r].key
       IN  \/ n \in deletedNames /\ ~tokens[t].allow /\ Forfeit(r, t)
           \/ (n \in deletedNames => tokens[t].allow) /\ enrolledKeys[k] # Nil /\ RefuseReused(r)
           \/ (n \in deletedNames => tokens[t].allow) /\ enrolledKeys[k] = Nil /\ Issue(r, t, n, k)
    /\ UNCHANGED <<deletedNames, mints, seeds, clock>>

-----------------------------------------------------------------------------
(* Renewal: renew and renew_and_issue *)

\* A POST to renew over a connection authenticated by a valid leaf.
ReceiveRenew(r, leaf, k) ==
    /\ requests[r] = Nil
    /\ requests' = [requests EXCEPT ![r] = [kind |-> "renew", leaf |-> leaf, key |-> k]]
    /\ UNCHANGED <<tokens, enrollments, enrolledKeys, deletedNames, mints, seeds, clock, certs>>

\* Mutant: the retry of a renewal whose answer was lost is refused.
DecideOnce(held, leaf, k) ==
    IF held = Nil THEN "UnknownSite"
    ELSE IF held.frozen THEN "Frozen"
    ELSE IF leaf.key = held.key /\ k \notin {leaf.key, held.previous} THEN "Rotate"
    ELSE "KeyReused"

\* renewal::decide, for the name's record, the presented leaf, the CSR's key.
Decide(held, leaf, k) ==
    IF held = Nil THEN "UnknownSite"
    ELSE IF held.frozen THEN "Frozen"
    ELSE IF k = leaf.key \/ (leaf.key = held.key /\ held.previous = k) THEN "KeyReused"
    ELSE IF leaf.key = held.key THEN "Rotate"
    ELSE IF held.previous = leaf.key /\ k = held.key THEN "Resign"
    ELSE IF leaf.notBefore < held.epoch THEN "Superseded"
    ELSE IF leaf.notBefore > held.recorded THEN "RecordBehind"
    ELSE "Forked"

\* The new leaf of an admitted renewal.
Renewed(leaf, k, held) ==
    [name |-> leaf.name, key |-> k, notBefore |-> clock, token |-> held.token, via |-> "renew"]

\* renew_and_issue under the record's row lock: a fork commits the freeze, a
\* rotation records the key and moves the record on, a retry signs again.
Renew(r) ==
    /\ requests[r] # Nil /\ requests[r].kind = "renew"
    /\ LET leaf == requests[r].leaf
           k == requests[r].key
           held == enrollments[leaf.name]
           action == Decide(held, leaf, k)
       IN  \/ /\ action = "Forked"
              /\ enrollments' = [enrollments EXCEPT ![leaf.name].frozen = TRUE]
              /\ Refuse(r, "Refused") /\ UNCHANGED <<enrolledKeys, certs>>
           \/ /\ action = "Rotate" /\ enrolledKeys[k] = Nil
              /\ enrolledKeys' = [enrolledKeys EXCEPT ![k] = leaf.name]
              /\ enrollments' = [enrollments EXCEPT ![leaf.name] =
                                   [@ EXCEPT !.key = k, !.previous = leaf.key, !.recorded = clock]]
              /\ Grant(r, Renewed(leaf, k, held))
           \/ /\ action = "Resign"
              /\ Grant(r, Renewed(leaf, k, held))
              /\ UNCHANGED <<enrollments, enrolledKeys>>
           \/ /\ action \notin {"Forked", "Rotate", "Resign"} \/ (action = "Rotate" /\ enrolledKeys[k] # Nil)
              /\ Refuse(r, "Refused") /\ UNCHANGED <<enrollments, enrolledKeys, certs>>
    /\ UNCHANGED <<tokens, deletedNames, mints, seeds, clock>>

\* The request ends: it is answered, the answer is lost, or before that the
\* handler timed out, the signature or the database failed, or the service
\* went down, and its transaction rolled back.
Finish(r) ==
    /\ requests[r] # Nil
    /\ requests' = [requests EXCEPT ![r] = Nil]
    /\ UNCHANGED <<tokens, enrollments, enrolledKeys, deletedNames, mints, seeds, clock, certs>>

-----------------------------------------------------------------------------
(* Deletion and seeds *)

\* delete_enrollment: the row goes and its name is recorded in one statement.
DeleteEnrollment(n) ==
    /\ n \notin Reserved
    /\ enrollments[n] # Nil
    /\ enrollments' = [enrollments EXCEPT ![n] = Nil]
    /\ deletedNames' = deletedNames \cup {n}
    /\ UNCHANGED <<tokens, enrolledKeys, mints, requests, seeds, clock, certs>>

\* Keys some party holds or has sent; a generated key is none of them.
KeysInUse == {k \in Keys : enrolledKeys[k] # Nil} \cup {c.key : c \in certs} \cup {s.key : s \in seeds}
             \cup {requests[r].key : r \in {o \in Requests : requests[o] # Nil /\ requests[o].kind # "answer"}}

NextGeneration == Cardinality(seeds) + 1

\* ensure_site_identity issues a reserved site's identity for a new key and
\* writes its Secret; the run may end before the key's seed is signed.
IssueIdentity(n, k) ==
    /\ n \in Reserved /\ k \notin KeysInUse
    /\ certs' = certs \cup {[name |-> n, key |-> k, notBefore |-> clock, token |-> Nil, via |-> "seed"]}
    /\ UNCHANGED <<tokens, enrollments, enrolledKeys, deletedNames, mints, requests, seeds, clock>>

\* ensure_seed for the identity just issued, or for the one a run of bootstrap
\* finds in the Secret: any leaf this CA signed for the name.  It asks neither
\* the database nor what was seeded before, as the seed Secret may be gone; the
\* generation follows the seed held and the clock, so it only grows.
EnsureSeed(leaf) ==
    /\ leaf.name \in Reserved
    /\ NextGeneration \in Generations
    /\ seeds' = seeds \cup {[name |-> leaf.name, key |-> leaf.key, generation |-> NextGeneration, issued |-> leaf.notBefore]}
    /\ UNCHANGED <<tokens, enrollments, enrolledKeys, deletedNames, mints, requests, clock, certs>>

\* Mutant: an older seed is not told from a newer one.
SeedDecisionAnyAge(held, s) ==
    IF held = Nil THEN "Registered"
    ELSE IF ~held.reserved THEN "NotReserved"
    ELSE IF held.generation = s.generation THEN "Unchanged"
    ELSE IF s.key \in {held.key, held.previous} THEN "Acknowledged"
    ELSE "Reset"

\* renewal::seed_decision.
SeedDecision(held, s) ==
    IF held = Nil THEN "Registered"
    ELSE IF ~held.reserved THEN "NotReserved"
    ELSE IF held.generation > s.generation THEN "Older"
    ELSE IF held.generation = s.generation THEN "Unchanged"
    ELSE IF s.key \in {held.key, held.previous} THEN "Acknowledged"
    ELSE "Reset"

\* Mutant: the record is stamped with the generation after the seed's.
SeedReservedAhead(s) ==
    /\ s \in seeds /\ enrollments[s.name] = Nil
    /\ enrollments' = [enrollments EXCEPT ![s.name] =
                         [key |-> s.key, previous |-> Nil, frozen |-> FALSE, reserved |-> TRUE,
                          generation |-> s.generation + 1, epoch |-> s.issued, recorded |-> clock, token |-> Nil]]
    /\ enrolledKeys' = [enrolledKeys EXCEPT ![s.key] = s.name]
    /\ UNCHANGED <<tokens, deletedNames, mints, requests, seeds, clock, certs>>

\* seed_reserved: a new or reset record holds the seed's key, and its epoch
\* begins with the seeded leaf; record_key's answer is not looked at.
SeedReserved(s) ==
    LET held == enrollments[s.name]
        seeded == SeedDecision(held, s)
        fresh == [key |-> s.key, previous |-> Nil, frozen |-> FALSE, reserved |-> TRUE, generation |-> s.generation,
                  epoch |-> s.issued, recorded |-> clock, token |-> Nil]
    IN  /\ s \in seeds
        /\ seeded \in {"Registered", "Reset", "Acknowledged"}
        /\ enrollments' = [enrollments EXCEPT ![s.name] =
                             IF seeded = "Acknowledged" THEN [@ EXCEPT !.generation = s.generation] ELSE fresh]
        /\ enrolledKeys' = IF seeded # "Acknowledged" /\ enrolledKeys[s.key] = Nil
                           THEN [enrolledKeys EXCEPT ![s.key] = s.name] ELSE enrolledKeys
        /\ UNCHANGED <<tokens, deletedNames, mints, requests, seeds, clock, certs>>

-----------------------------------------------------------------------------
\* One step of the service on request r, once received.
ServeStep(r) == Consume(r) \/ SignAndInsert(r) \/ CommitEnroll(r) \/ Renew(r)

\* The keys a CSR may prove possession of: bootstrap hands the private key of
\* an identity it issues to the reserved site, which asks for none.
RequestedKeys == Keys \ {c.key : c \in {d \in certs : d.via = "seed"}}

\* Any party may enroll with any token and key, and renew with any leaf.
StoreNext ==
    \/ \E m \in Minters, t \in Tokens, n \in Names, allow \in BOOLEAN, bound \in BoundKeys \cup {Nil} :
          MintCheck(m, t, n, allow, bound)
    \/ \E m \in Minters : MintCommit(m) \/ MintAbort(m)
    \/ \E t \in Tokens : Revoke(t) \/ Expire(t)
    \/ \E r \in Requests, t \in Tokens, k \in RequestedKeys : ReceiveEnroll(r, t, k)
    \/ \E r \in Requests, leaf \in certs, k \in RequestedKeys : ReceiveRenew(r, leaf, k)
    \/ \E r \in Requests : ServeStep(r) \/ Finish(r)
    \/ \E n \in Names : DeleteEnrollment(n)
    \/ \E n \in Reserved, k \in Keys : IssueIdentity(n, k)
    \/ \E leaf \in certs : EnsureSeed(leaf)
    \/ \E s \in seeds : SeedReserved(s)

StoreSpec == StoreInit /\ [][StoreNext]_storeVars

-----------------------------------------------------------------------------
(* Properties *)

\* A token buys one certificate, however many redemptions of it run at once
\* and whatever is deleted in between (postgres.rs, the guarded UPDATE).
TokenIssuesOnce ==
    \A c, d \in {e \in certs : e.via = "enroll"} : c.token = d.token => c = d

\* A key is certified for one enrollment only: never under two names, and not
\* again for the same name once its enrollment was deleted (enrolled_keys).
KeysNeverReused ==
    \A c, d \in certs : c.key = d.key => c.name = d.name /\ c.token = d.token

\* A deleted name is held again only through a token minted with
\* allow_deleted_name, even when the delete ran between the mint's check and
\* its insert, or between the redemption's statements.
DeletedNameStaysOut ==
    \A n \in deletedNames : enrollments[n] # Nil => tokens[enrollments[n].token].allow

\* No name is pinned by two usable tokens, so no two sites are ever invited to
\* race for it (the advisory lock of mint_site_token).
OneUsableTokenPerName ==
    \A t, u \in Tokens : Usable(t) /\ Usable(u) /\ tokens[t].name = tokens[u].name => t = u

\* What a step may do to the record of n: leave its key, or set one that was
\* never enrolled, or one enrolled for n, by a seed newer than the last taken.
MovesForward(n) ==
    LET old == enrollments[n]
        new == enrollments'[n]
    IN  new # Nil /\ (old = Nil \/ old.key # new.key) =>
           \/ enrolledKeys[new.key] = Nil
           \/ enrolledKeys[new.key] = n /\ old # Nil /\ new.generation > old.generation

\* A name comes to hold only a key nobody ever held, whether it is enrolled,
\* registered or renewed; the one exception is a key of its own that bootstrap
\* vouched for again, in a seed newer than every seed the record took.  So no
\* retried renewal, no re-enrollment and no replayed or older seed brings a
\* replaced key back (renewal.rs: "one read before the site renewed must not
\* roll it back").
RecordsMoveForward == [][\A n \in Names : MovesForward(n)]_storeVars

=============================================================================
