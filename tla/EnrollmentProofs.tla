-------------------------- MODULE EnrollmentProofs --------------------------
(***************************************************************************)
(* The safety properties of EnrollmentStore, for any number of tokens,     *)
(* names, keys, seeds and transactions in service at once; then those of   *)
(* SiteIdentity, a site's operator composed with the service.              *)
(***************************************************************************)
EXTENDS SiteIdentity, TLAPS

-----------------------------------------------------------------------------
(* Invariants *)

\* Request r consumed its token and has not ended.
Holds(r) == EnrollAt(r, "consumed") \/ EnrollAt(r, "inserted")

\* A mint between its steps writes a row nobody else does, for a name that no
\* other mint and no usable token has.
MintsOK ==
    \A m \in Minters : mints[m] # Nil =>
        /\ tokens[mints[m].token].state = "unminted"
        /\ \A o \in Minters : mints[o] # Nil /\ (mints[o].token = mints[m].token \/ mints[o].name = mints[m].name) => o = m
        /\ \A t \in Tokens : Usable(t) => tokens[t].name # mints[m].name

\* A live row has a name; a row consumed is live, and held by one request; an
\* inserted name is free, not reserved, and inserted by one request.
RedemptionsOK ==
    /\ \A t \in Tokens : tokens[t].state \in {"live", "spent"} => tokens[t].name \in Names
    /\ \A r \in Requests : Holds(r) => tokens[requests[r].token].state = "live"
    /\ \A r, q \in Requests : Holds(r) /\ Holds(q) /\ requests[r].token = requests[q].token => r = q
    /\ \A r \in Requests : EnrollAt(r, "inserted") =>
           LET n == tokens[requests[r].token].name
           IN  n \notin Reserved /\ enrollments[n] = Nil
    /\ \A r, q \in Requests : EnrollAt(r, "inserted") /\ EnrollAt(q, "inserted")
                              /\ tokens[requests[r].token].name = tokens[requests[q].token].name => r = q

\* A name's record: a reserved name is seeded, any other enrolled with a token
\* that is spent; its keys are in the history, and whoever is certified for its
\* key is certified for this enrollment.
RecordsOK ==
    /\ deletedNames \cap Reserved = {}
    /\ \A n \in Names : enrollments[n] # Nil =>
           /\ enrollments[n].reserved <=> n \in Reserved
           /\ enrollments[n].token = Nil <=> n \in Reserved
           /\ n \notin Reserved => tokens[enrollments[n].token].state = "spent"
           /\ enrolledKeys[enrollments[n].key] # Nil
           /\ enrollments[n].previous # Nil => enrolledKeys[enrollments[n].previous] # Nil
           /\ \E c \in certs : c.key = enrollments[n].key
           /\ \A c \in certs : c.key = enrollments[n].key => c.name = n /\ c.token = enrollments[n].token

\* A certificate's token is spent, and its key is in the history unless it was
\* seeded; no request in service asks for a seeded key.
CertsOK ==
    /\ \A c \in certs : c.name \in Reserved => c.token = Nil
    /\ \A c \in certs : c.via = "enroll" => c.token # Nil /\ tokens[c.token].state = "spent"
    /\ \A c \in certs : c.via # "seed" => enrolledKeys[c.key] # Nil
    /\ \A r \in Requests : requests[r] # Nil /\ requests[r].kind # "answer" =>
           \A c \in certs : c.via = "seed" => c.key # requests[r].key
    /\ \A r \in Requests : requests[r] # Nil /\ requests[r].kind = "renew" => requests[r].leaf \in certs

\* The key of a seed is certified, and for its name.
SeedsOK ==
    \A s \in seeds : /\ \E c \in certs : c.key = s.key
                     /\ \A c \in certs : c.key = s.key => c.name = s.name /\ c.token = Nil

\* The history knows a certified key by the certificate's name; of a reserved
\* name without a record it knows no key, as its record is never deleted.
HistoryOK ==
    /\ \A c \in certs : enrolledKeys[c.key] \in {Nil, c.name}
    /\ \A n \in Reserved : enrollments[n] = Nil => \A k \in Keys : enrolledKeys[k] # n

IInv ==
    /\ TypeOK /\ MintsOK /\ RedemptionsOK /\ RecordsOK /\ CertsOK /\ SeedsOK
    /\ HistoryOK /\ TokenIssuesOnce /\ KeysNeverReused /\ DeletedNameStaysOut /\ OneUsableTokenPerName

-----------------------------------------------------------------------------
(* Types *)

\* What a slot for requests may hold.
Slots == EnrollRequests \cup RenewRequests \cup Answers \cup {Nil}

LEMMA EnrollShape ==
    ASSUME TypeOK, NEW r \in Requests, requests[r] # Nil, requests[r].kind = "enroll"
    PROVE  requests[r] \in EnrollRequests /\ requests[r].token \in Tokens /\ requests[r].key \in Keys
BY DEF TypeOK, EnrollRequests, RenewRequests, Answers

LEMMA RenewShape ==
    ASSUME TypeOK, NEW r \in Requests, requests[r] # Nil, requests[r].kind = "renew"
    PROVE  requests[r].leaf \in Certs /\ requests[r].key \in Keys
BY DEF TypeOK, EnrollRequests, RenewRequests, Answers

LEMMA RefuseType ==
    ASSUME TypeOK, NEW r \in Requests,
           NEW result \in {"TokenInvalid", "NameTaken", "NameDeleted", "KeyMismatch", "KeyReused", "Refused"},
           Refuse(r, result)
    PROVE  requests' \in [Requests -> Slots]
<1>1. [kind |-> "answer", result |-> result, cert |-> Nil] \in Answers
    BY DEF Answers
<1> QED
    BY <1>1 DEF TypeOK, Refuse, Slots

LEMMA GrantType ==
    ASSUME TypeOK, NEW r \in Requests, NEW cert \in Certs, Grant(r, cert)
    PROVE  requests' \in [Requests -> Slots] /\ certs' \subseteq Certs
<1>1. [kind |-> "answer", result |-> "Issued", cert |-> cert] \in Answers
    BY DEF Answers
<1> QED
    BY <1>1 DEF TypeOK, Grant, Slots

LEMMA StageType ==
    ASSUME TypeOK, NEW r \in Requests, NEW stage \in {"received", "consumed", "inserted"},
           requests[r] # Nil, requests[r].kind = "enroll", requests' = [requests EXCEPT ![r].stage = stage]
    PROVE  requests' \in [Requests -> Slots]
<1>1. requests[r] \in EnrollRequests
    BY EnrollShape
<1>2. [requests[r] EXCEPT !.stage = stage] \in EnrollRequests
    BY <1>1 DEF EnrollRequests
<1> QED
    BY <1>2 DEF TypeOK, Slots

LEMMA NoRowType == \A state \in {"unminted", "gone"} : NoRow(state) \in TokenRows
BY DEF NoRow, TokenRows

LEMMA RowType ==
    ASSUME TypeOK, NEW t \in Tokens, NEW state \in {"unminted", "live", "spent", "gone"}
    PROVE  [tokens[t] EXCEPT !.state = state] \in TokenRows /\ [tokens[t] EXCEPT !.expired = TRUE] \in TokenRows
BY DEF TypeOK, TokenRows

LEMMA TypeInit == StoreInit => TypeOK
<1> SUFFICES ASSUME StoreInit PROVE TypeOK
    OBVIOUS
<1>1. tokens \in [Tokens -> TokenRows]
    BY NoRowType DEF StoreInit
<1>2. clock \in Times
    BY StoreBoundsAssumption DEF StoreInit, Times
<1> QED
    BY <1>1, <1>2 DEF StoreInit, TypeOK

LEMMA TypeMint ==
    ASSUME TypeOK,
           \/ \E m \in Minters, t \in Tokens, n \in Names, allow \in BOOLEAN, bound \in BoundKeys \cup {Nil} :
                 MintCheck(m, t, n, allow, bound)
           \/ \E m \in Minters : MintCommit(m) \/ MintAbort(m)
           \/ \E t \in Tokens : Revoke(t) \/ Expire(t)
    PROVE  TypeOK'
<1>1. ASSUME NEW m \in Minters, NEW t \in Tokens, NEW n \in Names, NEW allow \in BOOLEAN,
             NEW bound \in BoundKeys \cup {Nil}, MintCheck(m, t, n, allow, bound)
      PROVE  TypeOK'
    <2>1. [token |-> t, name |-> n, allow |-> allow, bound |-> bound] \in Mints
        BY NamesAssumption DEF Mints
    <2> QED
        BY <1>1, <2>1 DEF TypeOK, MintCheck
<1>2. ASSUME NEW m \in Minters, MintCommit(m) PROVE TypeOK'
    <2>1. mints[m] \in Mints
        BY <1>2 DEF TypeOK, MintCommit
    <2>2. [state |-> "live", name |-> mints[m].name, allow |-> mints[m].allow,
           bound |-> mints[m].bound, expired |-> FALSE] \in TokenRows
        BY <2>1 DEF Mints, TokenRows
    <2> QED
        BY <1>2, <2>1, <2>2 DEF TypeOK, MintCommit, Mints
<1>3. ASSUME NEW m \in Minters, MintAbort(m) PROVE TypeOK'
    BY <1>3 DEF TypeOK, MintAbort
<1>4. ASSUME NEW t \in Tokens, Revoke(t) PROVE TypeOK'
    BY <1>4, NoRowType DEF TypeOK, Revoke
<1>5. ASSUME NEW t \in Tokens, Expire(t) PROVE TypeOK'
    BY <1>5, RowType DEF TypeOK, Expire
<1> QED
    BY <1>1, <1>2, <1>3, <1>4, <1>5

LEMMA TypeEnroll ==
    ASSUME TypeOK, RedemptionsOK, NEW r \in Requests, Consume(r) \/ SignAndInsert(r) \/ CommitEnroll(r)
    PROVE  TypeOK'
<1> DEFINE t == requests[r].token
           k == requests[r].key
           n == tokens[t].name
<1>1. requests[r] # Nil /\ requests[r].kind = "enroll"
    BY DEF Consume, SignAndInsert, CommitEnroll, EnrollAt
<1>2. t \in Tokens /\ k \in Keys
    BY <1>1, EnrollShape
<1>3. CASE Consume(r)
    <2>1. requests' \in [Requests -> Slots]
        BY <1>1, <1>3, RefuseType, StageType DEF Consume
    <2> QED
        BY <1>3, <2>1 DEF TypeOK, Consume, Slots
<1>4. CASE SignAndInsert(r)
    <2>1. requests' \in [Requests -> Slots]
        BY <1>1, <1>4, RefuseType, StageType DEF SignAndInsert
    <2> QED
        BY <1>4, <2>1 DEF TypeOK, SignAndInsert, Slots
<1>5. CASE CommitEnroll(r) /\ Forfeit(r, t)
    <2>1. requests' \in [Requests -> Slots]
        BY <1>5, RefuseType DEF Forfeit
    <2> QED
        BY <1>2, <1>5, <2>1, NoRowType DEF TypeOK, CommitEnroll, Forfeit, Slots
<1>6. CASE CommitEnroll(r) /\ RefuseReused(r)
    <2>1. requests' \in [Requests -> Slots]
        BY <1>6, RefuseType DEF RefuseReused
    <2> QED
        BY <1>6, <2>1 DEF TypeOK, CommitEnroll, RefuseReused, Slots
<1>7. CASE CommitEnroll(r) /\ Issue(r, t, n, k)
    <2>1. n \in Names
        BY <1>2, <1>7 DEF RedemptionsOK, Holds, CommitEnroll
    <2>2. clock \in Times
        BY DEF TypeOK
    <2>3. NewRecord(k, t) \in Records
        BY <1>2, <2>2 DEF NewRecord, Records
    <2>4. [name |-> n, key |-> k, notBefore |-> clock, token |-> t, via |-> "enroll"] \in Certs
        BY <1>2, <2>1, <2>2 DEF Certs
    <2>5. requests' \in [Requests -> Slots] /\ certs' \subseteq Certs
        BY <1>7, <2>4, GrantType DEF Issue
    <2>6. tokens' \in [Tokens -> TokenRows]
        BY <1>2, <1>7, RowType DEF Issue, TypeOK
    <2>7. enrollments' \in [Names -> Records \cup {Nil}] /\ enrolledKeys' \in [Keys -> Names \cup {Nil}]
        BY <1>2, <1>7, <2>1, <2>3 DEF Issue, TypeOK
    <2> HIDE DEF t, k, n
    <2> QED
        BY <1>7, <2>5, <2>6, <2>7 DEF TypeOK, CommitEnroll, Slots
<1> QED
    BY <1>3, <1>4, <1>5, <1>6, <1>7 DEF CommitEnroll

LEMMA TypeRenew ==
    ASSUME TypeOK, NEW r \in Requests, Renew(r)
    PROVE  TypeOK'
<1> DEFINE leaf == requests[r].leaf
           k == requests[r].key
           held == enrollments[leaf.name]
           action == Decide(held, leaf, k)
<1>1. leaf \in Certs /\ k \in Keys /\ leaf.name \in Names /\ leaf.key \in Keys
    BY RenewShape DEF Renew, Certs
<1>2. clock \in Times
    BY DEF TypeOK
<1>3. CASE action = "Forked" /\ enrollments' = [enrollments EXCEPT ![leaf.name].frozen = TRUE]
           /\ Refuse(r, "Refused") /\ UNCHANGED <<enrolledKeys, certs>>
    <2>1. held \in Records
        BY <1>1, <1>3 DEF Decide, TypeOK
    <2>2. [held EXCEPT !.frozen = TRUE] \in Records
        BY <2>1 DEF Records
    <2>3. requests' \in [Requests -> Slots]
        BY <1>3, RefuseType
    <2>4. enrollments' \in [Names -> Records \cup {Nil}]
        BY <1>1, <1>3, <2>2 DEF TypeOK
    <2> QED
        BY <1>3, <2>3, <2>4 DEF TypeOK, Renew, Slots
<1>4. CASE /\ action = "Rotate"
           /\ enrolledKeys' = [enrolledKeys EXCEPT ![k] = leaf.name]
           /\ enrollments' = [enrollments EXCEPT ![leaf.name] =
                                [@ EXCEPT !.key = k, !.previous = leaf.key, !.recorded = clock]]
           /\ Grant(r, Renewed(leaf, k, held))
    <2>1. held \in Records
        BY <1>1, <1>4 DEF Decide, TypeOK
    <2>2. [held EXCEPT !.key = k, !.previous = leaf.key, !.recorded = clock] \in Records
        BY <1>1, <1>2, <2>1 DEF Records
    <2>3. Renewed(leaf, k, held) \in Certs
        BY <1>1, <1>2, <2>1 DEF Renewed, Records, Certs
    <2>4. requests' \in [Requests -> Slots] /\ certs' \subseteq Certs
        BY <1>4, <2>3, GrantType
    <2>5. enrollments' \in [Names -> Records \cup {Nil}]
        BY <1>1, <1>4, <2>2 DEF TypeOK
    <2>6. enrolledKeys' \in [Keys -> Names \cup {Nil}]
        BY <1>1, <1>4 DEF TypeOK
    <2> QED
        BY <2>4, <2>5, <2>6 DEF TypeOK, Renew, Slots
<1>5. CASE action = "Resign" /\ Grant(r, Renewed(leaf, k, held)) /\ UNCHANGED <<enrollments, enrolledKeys>>
    <2>1. held \in Records
        BY <1>1, <1>5 DEF Decide, TypeOK
    <2>2. Renewed(leaf, k, held) \in Certs
        BY <1>1, <1>2, <2>1 DEF Renewed, Records, Certs
    <2>3. requests' \in [Requests -> Slots] /\ certs' \subseteq Certs
        BY <1>5, <2>2, GrantType
    <2> QED
        BY <1>5, <2>3 DEF TypeOK, Renew, Slots
<1>6. CASE Refuse(r, "Refused") /\ UNCHANGED <<enrollments, enrolledKeys, certs>>
    <2>1. requests' \in [Requests -> Slots]
        BY <1>6, RefuseType
    <2> QED
        BY <1>6, <2>1 DEF TypeOK, Renew, Slots
<1> QED
    BY <1>3, <1>4, <1>5, <1>6 DEF Renew

LEMMA TypeReceive ==
    ASSUME TypeOK, NEW r \in Requests, NEW k \in Keys,
           \/ \E t \in Tokens : ReceiveEnroll(r, t, k)
           \/ \E leaf \in certs : ReceiveRenew(r, leaf, k)
           \/ Finish(r)
    PROVE  TypeOK'
<1>1. ASSUME NEW t \in Tokens, ReceiveEnroll(r, t, k) PROVE TypeOK'
    <2>1. [kind |-> "enroll", token |-> t, key |-> k, stage |-> "received"] \in EnrollRequests
        BY DEF EnrollRequests
    <2> QED
        BY <1>1, <2>1 DEF TypeOK, ReceiveEnroll
<1>2. ASSUME NEW leaf \in certs, ReceiveRenew(r, leaf, k) PROVE TypeOK'
    <2>1. [kind |-> "renew", leaf |-> leaf, key |-> k] \in RenewRequests
        BY DEF RenewRequests, TypeOK
    <2> QED
        BY <1>2, <2>1 DEF TypeOK, ReceiveRenew
<1>3. CASE Finish(r)
    BY <1>3 DEF TypeOK, Finish
<1> QED
    BY <1>1, <1>2, <1>3

LEMMA TypeSeeds ==
    ASSUME TypeOK,
           \/ \E n \in Names : DeleteEnrollment(n)
           \/ \E n \in Reserved, k \in Keys : IssueIdentity(n, k)
           \/ \E leaf \in certs : EnsureSeed(leaf)
           \/ \E s \in seeds : SeedReserved(s)
    PROVE  TypeOK'
<1>1. ASSUME NEW n \in Names, DeleteEnrollment(n) PROVE TypeOK'
    BY <1>1 DEF TypeOK, DeleteEnrollment
<1>2. ASSUME NEW n \in Reserved, NEW k \in Keys, IssueIdentity(n, k) PROVE TypeOK'
    <2>1. n \in Names /\ clock \in Times
        BY NamesAssumption DEF TypeOK
    <2>2. [name |-> n, key |-> k, notBefore |-> clock, token |-> Nil, via |-> "seed"] \in Certs
        BY <2>1 DEF Certs
    <2> QED
        BY <1>2, <2>2 DEF TypeOK, IssueIdentity
<1>3. ASSUME NEW leaf \in certs, EnsureSeed(leaf) PROVE TypeOK'
    <2>1. leaf \in Certs
        BY DEF TypeOK
    <2>2. [name |-> leaf.name, key |-> leaf.key, generation |-> NextGeneration, issued |-> leaf.notBefore] \in Seeds
        BY <1>3, <2>1 DEF EnsureSeed, Seeds, Certs
    <2> QED
        BY <1>3, <2>2 DEF TypeOK, EnsureSeed
<1>4. ASSUME NEW s \in seeds, SeedReserved(s) PROVE TypeOK'
    <2> DEFINE held == enrollments[s.name]
               fresh == [key |-> s.key, previous |-> Nil, frozen |-> FALSE, reserved |-> TRUE,
                         generation |-> s.generation, epoch |-> s.issued, recorded |-> clock, token |-> Nil]
    <2>1. s \in Seeds /\ clock \in Times
        BY DEF TypeOK
    <2>2. s.name \in Names /\ s.key \in Keys /\ s.generation \in Generations /\ s.issued \in Times
        BY <2>1, NamesAssumption DEF Seeds
    <2>3. fresh \in Records
        BY <2>1, <2>2 DEF Records
    <2>4. CASE SeedDecision(held, s) = "Acknowledged"
        <3>1. held \in Records
            BY <2>2, <2>4 DEF SeedDecision, TypeOK
        <3>2. [held EXCEPT !.generation = s.generation] \in Records
            BY <2>2, <3>1 DEF Records
        <3> QED
            BY <1>4, <2>2, <2>4, <3>2 DEF TypeOK, SeedReserved
    <2>5. CASE SeedDecision(held, s) # "Acknowledged"
        <3>1. enrollments' \in [Names -> Records \cup {Nil}]
            BY <1>4, <2>2, <2>3, <2>5 DEF TypeOK, SeedReserved
        <3>2. enrolledKeys' \in [Keys -> Names \cup {Nil}]
            BY <1>4, <2>2 DEF TypeOK, SeedReserved
        <3> QED
            BY <1>4, <3>1, <3>2 DEF TypeOK, SeedReserved
    <2> QED
        BY <2>4, <2>5
<1> QED
    BY <1>1, <1>2, <1>3, <1>4

-----------------------------------------------------------------------------
(* Steps on tokens *)

LEMMA MintCheckStep ==
    ASSUME IInv, NEW m \in Minters, NEW t \in Tokens, NEW n \in Names, NEW allow \in BOOLEAN,
           NEW bound \in BoundKeys \cup {Nil}, MintCheck(m, t, n, allow, bound)
    PROVE  IInv'
<1>1. TypeOK'
    BY TypeMint DEF IInv
<1>2. MintsOK'
    <2>1. mints'[m] = [token |-> t, name |-> n, allow |-> allow, bound |-> bound]
        BY DEF IInv, TypeOK, MintCheck
    <2>2. \A o \in Minters : o # m => mints'[o] = mints[o]
        BY DEF IInv, TypeOK, MintCheck
    <2>3. tokens[t].state = "unminted" /\ \A o \in Minters : mints[o] # Nil => mints[o].token # t /\ mints[o].name # n
        BY DEF MintCheck, AdvisoryLockFree
    <2>4. \A u \in Tokens : Usable(u) => tokens[u].name # n
        BY DEF MintCheck
    <2> QED
        BY <2>1, <2>2, <2>3, <2>4 DEF IInv, MintsOK, MintCheck, Usable
<1> QED
    BY <1>1, <1>2 DEF IInv, MintCheck, RedemptionsOK, Holds, EnrollAt, RecordsOK, CertsOK, SeedsOK, TokenIssuesOnce,
                      KeysNeverReused, HistoryOK, DeletedNameStaysOut, OneUsableTokenPerName, Usable

LEMMA MintAbortStep ==
    ASSUME IInv, NEW m \in Minters, MintAbort(m)
    PROVE  IInv'
<1>1. TypeOK'
    BY TypeMint DEF IInv
<1>2. \A o \in Minters : mints'[o] # Nil => mints'[o] = mints[o]
    BY DEF IInv, TypeOK, MintAbort
<1>3. MintsOK'
    BY <1>2 DEF IInv, MintsOK, MintAbort, Usable
<1> QED
    BY <1>1, <1>3 DEF IInv, MintAbort, RedemptionsOK, Holds, EnrollAt, RecordsOK, CertsOK, SeedsOK, TokenIssuesOnce,
                      KeysNeverReused, HistoryOK, DeletedNameStaysOut, OneUsableTokenPerName, Usable

LEMMA MintCommitStep ==
    ASSUME IInv, NEW m \in Minters, MintCommit(m)
    PROVE  IInv'
<1> DEFINE t == mints[m].token
           n == mints[m].name
<1>1. TypeOK'
    BY TypeMint DEF IInv
<1>2. t \in Tokens /\ n \in Names /\ tokens[t].state = "unminted"
    BY DEF IInv, TypeOK, MintCommit, Mints, MintsOK
<1>3. /\ tokens'[t] = [state |-> "live", name |-> n, allow |-> mints[m].allow, bound |-> mints[m].bound, expired |-> FALSE]
      /\ \A u \in Tokens : u # t => tokens'[u] = tokens[u]
    BY <1>2 DEF IInv, TypeOK, MintCommit
<1>4. mints'[m] = Nil /\ \A o \in Minters : o # m => mints'[o] = mints[o]
    BY DEF IInv, TypeOK, MintCommit
<1>5. \A o \in Minters : o # m /\ mints[o] # Nil => mints[o].token # t /\ mints[o].name # n /\ mints[o].token \in Tokens
    BY DEF IInv, MintsOK, MintCommit, TypeOK, Mints
<1>6. \A u \in Tokens : Usable(u)' => u = t \/ (u # t /\ Usable(u) /\ tokens[u].name # n)
    BY <1>3 DEF IInv, MintsOK, MintCommit, Usable
<1> HIDE DEF t, n
<1>7. MintsOK'
    BY <1>3, <1>4, <1>5, <1>6 DEF IInv, MintsOK
<1>8. OneUsableTokenPerName'
    BY <1>3, <1>6 DEF IInv, OneUsableTokenPerName
<1>9. UNCHANGED <<enrollments, enrolledKeys, deletedNames, requests, seeds, clock, certs>>
    BY DEF MintCommit
<1>10. RedemptionsOK'
    <2>1. \A r \in Requests : Holds(r) => requests[r].token \in Tokens /\ requests[r].token # t
        BY <1>2, EnrollShape DEF IInv, RedemptionsOK, Holds, EnrollAt
    <2> QED
        BY <1>2, <1>3, <1>9, <2>1 DEF IInv, RedemptionsOK, Holds, EnrollAt
<1>11. RecordsOK' /\ DeletedNameStaysOut'
    <2>1. \A q \in Names : enrollments[q] # Nil /\ q \notin Reserved =>
              enrollments[q].token \in Tokens /\ enrollments[q].token # t
        BY <1>2 DEF IInv, RecordsOK, TypeOK, Records
    <2>2. \A q \in deletedNames : q \in Names /\ q \notin Reserved
        BY DEF IInv, RecordsOK, TypeOK
    <2>3. RecordsOK'
        BY <1>3, <1>9, <2>1 DEF IInv, RecordsOK
    <2> QED
        BY <1>3, <1>9, <2>1, <2>2, <2>3 DEF IInv, DeletedNameStaysOut
<1>12. CertsOK'
    <2>1. \A c \in certs : c.via = "enroll" => c.token \in Tokens /\ c.token # t
        BY <1>2 DEF IInv, CertsOK, TypeOK, Certs
    <2> QED
        BY <1>3, <1>9, <2>1 DEF IInv, CertsOK
<1>13. SeedsOK' /\ HistoryOK' /\ TokenIssuesOnce' /\ KeysNeverReused'
    BY <1>9 DEF IInv, SeedsOK, HistoryOK, TokenIssuesOnce, KeysNeverReused
<1> QED
    BY <1>1, <1>7, <1>8, <1>10, <1>11, <1>12, <1>13 DEF IInv

LEMMA RevokeStep ==
    ASSUME IInv, NEW t \in Tokens, Revoke(t)
    PROVE  IInv'
<1>1. TypeOK'
    BY TypeMint DEF IInv
<1>2. tokens[t].state = "live" /\ tokens'[t] = NoRow("gone") /\ \A u \in Tokens : u # t => tokens'[u] = tokens[u]
    BY DEF IInv, TypeOK, Revoke
<1>3. tokens'[t].state = "gone"
    BY <1>2 DEF NoRow
<1>4. \A u \in Tokens : Usable(u)' => u # t /\ Usable(u)
    BY <1>2, <1>3 DEF Usable
<1>5. UNCHANGED <<enrollments, enrolledKeys, deletedNames, mints, requests, seeds, clock, certs>>
    BY DEF Revoke
<1>6. MintsOK'
    <2>1. \A m \in Minters : mints[m] # Nil => mints[m].token \in Tokens /\ mints[m].token # t
        BY <1>2 DEF IInv, MintsOK, TypeOK, Mints
    <2> QED
        BY <1>2, <1>4, <1>5, <2>1 DEF IInv, MintsOK
<1>7. RedemptionsOK'
    <2>1. \A r \in Requests : Holds(r) => requests[r].token \in Tokens /\ requests[r].token # t
        BY EnrollShape DEF IInv, Revoke, Locked, Holds, EnrollAt
    <2> QED
        BY <1>2, <1>3, <1>5, <2>1 DEF IInv, RedemptionsOK, Holds, EnrollAt
<1>8. RecordsOK' /\ DeletedNameStaysOut'
    <2>1. \A q \in Names : enrollments[q] # Nil /\ q \notin Reserved =>
              enrollments[q].token \in Tokens /\ enrollments[q].token # t
        BY <1>2 DEF IInv, RecordsOK, TypeOK, Records
    <2>2. \A q \in deletedNames : q \in Names /\ q \notin Reserved
        BY DEF IInv, RecordsOK, TypeOK
    <2>3. RecordsOK'
        BY <1>2, <1>5, <2>1 DEF IInv, RecordsOK
    <2> QED
        BY <1>2, <1>5, <2>1, <2>2, <2>3 DEF IInv, DeletedNameStaysOut
<1>9. CertsOK'
    <2>1. \A c \in certs : c.via = "enroll" => c.token \in Tokens /\ c.token # t
        BY <1>2 DEF IInv, CertsOK, TypeOK, Certs
    <2> QED
        BY <1>2, <1>5, <2>1 DEF IInv, CertsOK
<1>10. SeedsOK' /\ HistoryOK' /\ TokenIssuesOnce' /\ KeysNeverReused'
    BY <1>5 DEF IInv, SeedsOK, HistoryOK, TokenIssuesOnce, KeysNeverReused
<1>11. OneUsableTokenPerName'
    BY <1>2, <1>4 DEF IInv, OneUsableTokenPerName
<1> QED
    BY <1>1, <1>6, <1>7, <1>8, <1>9, <1>10, <1>11 DEF IInv

LEMMA ExpireStep ==
    ASSUME IInv, NEW t \in Tokens, Expire(t)
    PROVE  IInv'
<1>1. TypeOK'
    BY TypeMint DEF IInv
<1>2. \A u \in Tokens : /\ tokens'[u].state = tokens[u].state
                        /\ tokens'[u].name = tokens[u].name
                        /\ tokens'[u].allow = tokens[u].allow
                        /\ tokens[u].expired => tokens'[u].expired
    <2>1. tokens[t] \in TokenRows /\ tokens' = [tokens EXCEPT ![t] = [tokens[t] EXCEPT !.expired = TRUE]]
        BY DEF IInv, TypeOK, Expire
    <2>2. tokens'[t] = [tokens[t] EXCEPT !.expired = TRUE] /\ \A u \in Tokens : u # t => tokens'[u] = tokens[u]
        BY <2>1 DEF IInv, TypeOK
    <2> QED
        BY <2>1, <2>2 DEF TokenRows
<1>3. \A u \in Tokens : Usable(u)' => Usable(u)
    BY <1>2 DEF Usable
<1>4. UNCHANGED <<enrollments, enrolledKeys, deletedNames, mints, requests, seeds, clock, certs>>
    BY DEF Expire
<1>5. MintsOK'
    <2>1. \A m \in Minters : mints[m] # Nil => mints[m].token \in Tokens
        BY DEF IInv, TypeOK, Mints
    <2> QED
        BY <1>2, <1>3, <1>4, <2>1 DEF IInv, MintsOK
<1>6. RedemptionsOK'
    <2>1. \A r \in Requests : Holds(r) => requests[r].token \in Tokens
        BY EnrollShape DEF IInv, Holds, EnrollAt
    <2> QED
        BY <1>2, <1>4, <2>1 DEF IInv, RedemptionsOK, Holds, EnrollAt
<1>7. RecordsOK' /\ DeletedNameStaysOut'
    <2>1. \A q \in Names : enrollments[q] # Nil /\ q \notin Reserved => enrollments[q].token \in Tokens
        BY DEF IInv, RecordsOK, TypeOK, Records
    <2>2. \A q \in deletedNames : q \in Names /\ q \notin Reserved
        BY DEF IInv, RecordsOK, TypeOK
    <2>3. RecordsOK'
        BY <1>2, <1>4, <2>1 DEF IInv, RecordsOK
    <2> QED
        BY <1>2, <1>4, <2>1, <2>2, <2>3 DEF IInv, DeletedNameStaysOut
<1>8. CertsOK'
    <2>1. \A c \in certs : c.via = "enroll" => c.token \in Tokens
        BY DEF IInv, CertsOK, TypeOK, Certs
    <2> QED
        BY <1>2, <1>4, <2>1 DEF IInv, CertsOK
<1>9. SeedsOK' /\ HistoryOK' /\ TokenIssuesOnce' /\ KeysNeverReused'
    BY <1>4 DEF IInv, SeedsOK, HistoryOK, TokenIssuesOnce, KeysNeverReused
<1>10. OneUsableTokenPerName'
    BY <1>2, <1>3 DEF IInv, OneUsableTokenPerName
<1> QED
    BY <1>1, <1>5, <1>6, <1>7, <1>8, <1>9, <1>10 DEF IInv

-----------------------------------------------------------------------------
(* Steps on requests alone *)

\* A step that only changes the slot of r keeps the invariant, when what it
\* puts there is as the invariant says.
LEMMA SlotStep ==
    ASSUME IInv, TypeOK', NEW r \in Requests,
           UNCHANGED <<tokens, enrollments, enrolledKeys, deletedNames, mints, seeds, clock, certs>>,
           \A q \in Requests : q # r => requests'[q] = requests[q],
           RedemptionsOK', CertsOK'
    PROVE  IInv'
BY DEF IInv, MintsOK, RecordsOK, SeedsOK, TokenIssuesOnce, KeysNeverReused, HistoryOK, DeletedNameStaysOut,
       OneUsableTokenPerName, Usable

LEMMA ReceiveStep ==
    ASSUME IInv, NEW r \in Requests, NEW k \in RequestedKeys,
           \/ \E t \in Tokens : ReceiveEnroll(r, t, k)
           \/ \E leaf \in certs : ReceiveRenew(r, leaf, k)
    PROVE  IInv'
<1>1. TypeOK'
    BY TypeReceive DEF IInv, RequestedKeys
<1>2. /\ \A q \in Requests : q # r => requests'[q] = requests[q]
      /\ ~Holds(r)'
      /\ requests'[r].key = k
      /\ requests'[r].kind = "renew" => requests'[r].leaf \in certs
    BY DEF IInv, TypeOK, ReceiveEnroll, ReceiveRenew, Holds, EnrollAt
<1>3. UNCHANGED <<tokens, enrollments, enrolledKeys, deletedNames, mints, seeds, clock, certs>>
    BY DEF ReceiveEnroll, ReceiveRenew
<1>4. RedemptionsOK'
    BY <1>2, <1>3 DEF IInv, RedemptionsOK, Holds, EnrollAt
<1>5. \A c \in certs : c.via = "seed" => c.key # k
    BY DEF RequestedKeys
<1>6. CertsOK'
    BY <1>2, <1>3, <1>5 DEF IInv, CertsOK
<1> QED
    BY <1>1, <1>2, <1>3, <1>4, <1>6, SlotStep

LEMMA FinishStep ==
    ASSUME IInv, NEW r \in Requests, Finish(r)
    PROVE  IInv'
<1>1. TypeOK'
    BY DEF IInv, TypeOK, Finish
<1>2. requests'[r] = Nil /\ \A q \in Requests : q # r => requests'[q] = requests[q]
    BY DEF IInv, TypeOK, Finish
<1>3. UNCHANGED <<tokens, enrollments, enrolledKeys, deletedNames, mints, seeds, clock, certs>>
    BY DEF Finish
<1>4. RedemptionsOK' /\ CertsOK'
    BY <1>2, <1>3 DEF IInv, RedemptionsOK, CertsOK, Holds, EnrollAt
<1> QED
    BY <1>1, <1>2, <1>3, <1>4, SlotStep

\* An answer that refuses, and changes nothing else.
LEMMA RefuseStep ==
    ASSUME IInv, NEW r \in Requests,
           NEW result \in {"TokenInvalid", "NameTaken", "NameDeleted", "KeyMismatch", "KeyReused", "Refused"},
           Refuse(r, result),
           UNCHANGED <<tokens, enrollments, enrolledKeys, deletedNames, mints, seeds, clock, certs>>
    PROVE  IInv'
<1>1. requests' \in [Requests -> Slots]
    BY RefuseType DEF IInv
<1>2. TypeOK'
    BY <1>1 DEF IInv, TypeOK, Slots
<1>3. requests'[r].kind = "answer" /\ \A q \in Requests : q # r => requests'[q] = requests[q]
    BY DEF IInv, TypeOK, Refuse
<1>4. RedemptionsOK' /\ CertsOK'
    BY <1>3 DEF IInv, RedemptionsOK, CertsOK, Holds, EnrollAt
<1> QED
    BY <1>2, <1>3, <1>4, SlotStep

LEMMA ConsumeStep ==
    ASSUME IInv, NEW r \in Requests, Consume(r)
    PROVE  IInv'
<1>1. UNCHANGED <<tokens, enrollments, enrolledKeys, deletedNames, mints, seeds, clock, certs>>
    BY DEF Consume
<1>2. CASE Refuse(r, "TokenInvalid")
    BY <1>1, <1>2, RefuseStep
<1>3. CASE Usable(requests[r].token) /\ requests' = [requests EXCEPT ![r].stage = "consumed"]
    <2>1. TypeOK'
        BY TypeEnroll DEF IInv
    <2>2. requests[r] \in EnrollRequests /\ requests[r].token \in Tokens
        BY EnrollShape DEF IInv, Consume, EnrollAt
    <2>3. /\ \A q \in Requests : q # r => requests'[q] = requests[q]
          /\ requests'[r].token = requests[r].token /\ requests'[r].key = requests[r].key
          /\ requests'[r].kind = "enroll" /\ requests'[r].stage = "consumed"
        BY <1>3, <2>2 DEF IInv, TypeOK, EnrollRequests
    <2>4. \A q \in Requests : Holds(q) => requests[q].token # requests[r].token
        BY DEF Consume, Locked, Holds, EnrollAt
    <2>5. RedemptionsOK'
        BY <1>1, <1>3, <2>3, <2>4 DEF IInv, RedemptionsOK, Usable, Holds, EnrollAt
    <2>6. CertsOK'
        BY <1>1, <2>3 DEF IInv, CertsOK, Consume, EnrollAt
    <2> QED
        BY <1>1, <2>1, <2>3, <2>5, <2>6, SlotStep
<1> QED
    BY <1>2, <1>3 DEF Consume

LEMMA InsertStep ==
    ASSUME IInv, NEW r \in Requests, SignAndInsert(r)
    PROVE  IInv'
<1> DEFINE n == tokens[requests[r].token].name
<1>1. UNCHANGED <<tokens, enrollments, enrolledKeys, deletedNames, mints, seeds, clock, certs>>
    BY DEF SignAndInsert
<1>2. CASE \E result \in {"NameTaken", "KeyMismatch"} : Refuse(r, result)
    BY <1>1, <1>2, RefuseStep
<1>3. CASE /\ n \notin Reserved /\ ~InsertPending(n) /\ enrollments[n] = Nil
           /\ requests' = [requests EXCEPT ![r].stage = "inserted"]
    <2>1. TypeOK'
        BY TypeEnroll DEF IInv
    <2>2. requests[r] \in EnrollRequests /\ requests[r].token \in Tokens
        BY EnrollShape DEF IInv, SignAndInsert, EnrollAt
    <2>3. /\ \A q \in Requests : q # r => requests'[q] = requests[q]
          /\ requests'[r].token = requests[r].token /\ requests'[r].key = requests[r].key
          /\ requests'[r].kind = "enroll" /\ requests'[r].stage = "inserted"
        BY <1>3, <2>2 DEF IInv, TypeOK, EnrollRequests
    <2>4. Holds(r)
        BY DEF SignAndInsert, Holds
    <2>5. \A q \in Requests : EnrollAt(q, "inserted") => tokens[requests[q].token].name # n
        BY <1>3 DEF InsertPending
    <2>6. RedemptionsOK'
        BY <1>1, <1>3, <2>3, <2>4, <2>5 DEF IInv, RedemptionsOK, Holds, EnrollAt
    <2>7. CertsOK'
        BY <1>1, <2>3, <2>4 DEF IInv, CertsOK, Holds, EnrollAt
    <2> QED
        BY <1>1, <2>1, <2>3, <2>6, <2>7, SlotStep
<1> QED
    BY <1>2, <1>3 DEF SignAndInsert

-----------------------------------------------------------------------------
(* Steps that issue *)

\* A key the history does not know is certified for nobody, and no seed names it.
LEMMA UnknownKey ==
    ASSUME IInv, NEW r \in Requests, requests[r] # Nil, requests[r].kind # "answer", enrolledKeys[requests[r].key] = Nil
    PROVE  /\ \A c \in certs : c.key # requests[r].key
           /\ \A s \in seeds : s.key # requests[r].key
           /\ \A n \in Names : enrollments[n] # Nil => requests[r].key \notin {enrollments[n].key, enrollments[n].previous}
<1>1. \A c \in certs : c.key # requests[r].key
    BY DEF IInv, CertsOK
<1>2. \A s \in seeds : s.key # requests[r].key
    BY <1>1 DEF IInv, SeedsOK
<1>3. requests[r].key # Nil
    BY EnrollShape, RenewShape, NilAssumption DEF IInv, TypeOK, Answers, EnrollRequests, RenewRequests
<1> QED
    BY <1>1, <1>2, <1>3 DEF IInv, RecordsOK

LEMMA ForfeitStep ==
    ASSUME IInv, NEW r \in Requests, CommitEnroll(r), Forfeit(r, requests[r].token)
    PROVE  IInv'
<1> DEFINE t == requests[r].token
<1>1. TypeOK'
    BY TypeEnroll DEF IInv
<1>2. EnrollAt(r, "inserted") /\ Holds(r)
    BY DEF CommitEnroll, Holds
<1>3. t \in Tokens /\ tokens[t].state = "live"
    BY <1>2, EnrollShape DEF IInv, RedemptionsOK, EnrollAt
<1>4. /\ tokens'[t].state = "gone"
      /\ \A u \in Tokens : u # t => tokens'[u] = tokens[u]
      /\ \A q \in Requests : q # r => requests'[q] = requests[q]
      /\ requests'[r].kind = "answer"
    BY <1>3 DEF IInv, TypeOK, Forfeit, NoRow, Refuse
<1>5. UNCHANGED <<enrollments, enrolledKeys, deletedNames, mints, seeds, clock, certs>>
    BY DEF CommitEnroll, Forfeit
<1>6. \A u \in Tokens : Usable(u)' => u # t /\ Usable(u)
    BY <1>4 DEF Usable
<1>7. \A q \in Requests : q # r /\ Holds(q) => requests[q].token \in Tokens /\ requests[q].token # t
    BY <1>2, EnrollShape DEF IInv, RedemptionsOK, Holds, EnrollAt
<1>8. MintsOK'
    <2>1. \A m \in Minters : mints[m] # Nil => mints[m].token \in Tokens /\ mints[m].token # t
        BY <1>3 DEF IInv, MintsOK, TypeOK, Mints
    <2> QED
        BY <1>4, <1>5, <1>6, <2>1 DEF IInv, MintsOK
<1>9. RedemptionsOK'
    BY <1>4, <1>5, <1>7 DEF IInv, RedemptionsOK, Holds, EnrollAt
<1>10. RecordsOK' /\ DeletedNameStaysOut'
    <2>1. \A q \in Names : enrollments[q] # Nil /\ q \notin Reserved =>
              enrollments[q].token \in Tokens /\ enrollments[q].token # t
        BY <1>3 DEF IInv, RecordsOK, TypeOK, Records
    <2>2. \A q \in deletedNames : q \in Names /\ q \notin Reserved
        BY DEF IInv, RecordsOK, TypeOK
    <2>3. RecordsOK'
        BY <1>4, <1>5, <2>1 DEF IInv, RecordsOK
    <2> QED
        BY <1>4, <1>5, <2>1, <2>2, <2>3 DEF IInv, DeletedNameStaysOut
<1>11. CertsOK'
    <2>1. \A c \in certs : c.via = "enroll" => c.token \in Tokens /\ c.token # t
        BY <1>3 DEF IInv, CertsOK, TypeOK, Certs
    <2> QED
        BY <1>4, <1>5, <2>1 DEF IInv, CertsOK
<1>12. SeedsOK' /\ HistoryOK' /\ TokenIssuesOnce' /\ KeysNeverReused'
    BY <1>5 DEF IInv, SeedsOK, HistoryOK, TokenIssuesOnce, KeysNeverReused
<1>13. OneUsableTokenPerName'
    BY <1>4, <1>6 DEF IInv, OneUsableTokenPerName
<1> QED
    BY <1>1, <1>8, <1>9, <1>10, <1>11, <1>12, <1>13 DEF IInv

LEMMA IssueStep ==
    ASSUME IInv, NEW r \in Requests, CommitEnroll(r),
           NEW n, n = tokens[requests[r].token].name, n \in deletedNames => tokens[requests[r].token].allow,
           enrolledKeys[requests[r].key] = Nil, Issue(r, requests[r].token, n, requests[r].key)
    PROVE  IInv'
<1> DEFINE t == requests[r].token
           k == requests[r].key
           cert == [name |-> n, key |-> k, notBefore |-> clock, token |-> t, via |-> "enroll"]
<1>1. TypeOK'
    BY TypeEnroll DEF IInv
<1>2. EnrollAt(r, "inserted") /\ Holds(r)
    BY DEF CommitEnroll, Holds
<1>3. /\ t \in Tokens /\ k \in Keys /\ tokens[t].state = "live"
      /\ n \in Names /\ n \notin Reserved /\ enrollments[n] = Nil
    BY <1>2, EnrollShape DEF IInv, RedemptionsOK, EnrollAt
<1>4. /\ \A c \in certs : c.key # k
      /\ \A s \in seeds : s.key # k
      /\ \A m \in Names : enrollments[m] # Nil => k \notin {enrollments[m].key, enrollments[m].previous}
    BY <1>2, UnknownKey DEF EnrollAt
<1>5. /\ tokens'[t].state = "spent" /\ tokens'[t].name = tokens[t].name /\ tokens'[t].allow = tokens[t].allow
      /\ \A u \in Tokens : u # t => tokens'[u] = tokens[u]
    <2>1. tokens[t] \in TokenRows /\ tokens' = [tokens EXCEPT ![t] = [tokens[t] EXCEPT !.state = "spent"]]
        BY <1>3 DEF IInv, TypeOK, Issue
    <2>2. tokens'[t] = [tokens[t] EXCEPT !.state = "spent"] /\ \A u \in Tokens : u # t => tokens'[u] = tokens[u]
        BY <1>3, <2>1 DEF IInv, TypeOK
    <2> QED
        BY <2>1, <2>2 DEF TokenRows
<1>6. /\ enrollments'[n] = NewRecord(k, t)
      /\ \A m \in Names : m # n => enrollments'[m] = enrollments[m]
      /\ enrolledKeys'[k] = n
      /\ \A j \in Keys : j # k => enrolledKeys'[j] = enrolledKeys[j]
    BY <1>3 DEF IInv, TypeOK, Issue
<1>7. /\ requests'[r].kind = "answer"
      /\ \A q \in Requests : q # r => requests'[q] = requests[q]
      /\ certs' = certs \cup {cert}
    BY DEF IInv, TypeOK, Issue, Grant
<1>8. UNCHANGED <<deletedNames, mints, seeds, clock>>
    BY DEF CommitEnroll
<1>9. n # Nil /\ t # Nil
    BY <1>3, NilAssumption
<1>10. /\ enrollments'[n].key = k /\ enrollments'[n].previous = Nil /\ enrollments'[n].token = t
       /\ enrollments'[n].reserved = FALSE
    BY <1>6 DEF NewRecord
<1>11. cert.name = n /\ cert.key = k /\ cert.token = t /\ cert.via = "enroll"
    OBVIOUS
<1> HIDE DEF t, k, cert
<1>12. MintsOK' /\ OneUsableTokenPerName'
    <2>1. \A u \in Tokens : Usable(u)' => u # t /\ Usable(u)
        BY <1>5 DEF Usable
    <2>2. \A m \in Minters : mints[m] # Nil => mints[m].token \in Tokens /\ mints[m].token # t
        BY <1>3 DEF IInv, MintsOK, TypeOK, Mints
    <2>3. MintsOK'
        BY <1>5, <1>8, <2>1, <2>2 DEF IInv, MintsOK
    <2> QED
        BY <1>5, <2>1, <2>3 DEF IInv, OneUsableTokenPerName
<1>13. RedemptionsOK'
    <2>1. \A q \in Requests : q # r /\ Holds(q) => requests[q].token \in Tokens /\ requests[q].token # t
        BY <1>2, EnrollShape DEF IInv, RedemptionsOK, Holds, EnrollAt, t
    <2>2. \A q \in Requests : q # r /\ EnrollAt(q, "inserted") =>
              /\ tokens[requests[q].token].name # n
              /\ tokens[requests[q].token].name \in Names
        BY <1>2, <2>1 DEF IInv, RedemptionsOK, Holds
    <2> QED
        BY <1>3, <1>5, <1>6, <1>7, <2>1, <2>2 DEF IInv, RedemptionsOK, Holds, EnrollAt
<1>14. \A m \in Names : m # n /\ enrollments[m] # Nil /\ m \notin Reserved =>
           enrollments[m].token \in Tokens /\ enrollments[m].token # t
    BY <1>3 DEF IInv, RecordsOK, TypeOK, Records
<1>15. RecordsOK'
    <2> SUFFICES ASSUME NEW m \in Names, enrollments'[m] # Nil
                 PROVE  /\ enrollments'[m].reserved <=> m \in Reserved
                        /\ enrollments'[m].token = Nil <=> m \in Reserved
                        /\ m \notin Reserved => tokens'[enrollments'[m].token].state = "spent"
                        /\ enrolledKeys'[enrollments'[m].key] # Nil
                        /\ enrollments'[m].previous # Nil => enrolledKeys'[enrollments'[m].previous] # Nil
                        /\ \E c \in certs' : c.key = enrollments'[m].key
                        /\ \A c \in certs' : c.key = enrollments'[m].key => c.name = m /\ c.token = enrollments'[m].token
        BY <1>8 DEF IInv, RecordsOK
    <2>1. CASE m = n
        BY <1>3, <1>4, <1>5, <1>6, <1>7, <1>9, <1>10, <1>11, <2>1
    <2>2. CASE m # n
        <3>1. enrollments'[m] = enrollments[m] /\ enrollments[m].key \in Keys /\ enrollments[m].previous \in Keys \cup {Nil}
            BY <1>6, <2>2 DEF IInv, TypeOK, Records
        <3> QED
            BY <1>4, <1>5, <1>6, <1>7, <1>9, <1>11, <1>14, <2>2, <3>1 DEF IInv, RecordsOK
    <2> QED
        BY <2>1, <2>2
<1>16. CertsOK'
    <2>1. \A c \in certs : c.key \in Keys /\ (c.via = "enroll" => c.token \in Tokens /\ c.token # t)
        BY <1>3 DEF IInv, CertsOK, TypeOK, Certs
    <2> QED
        BY <1>3, <1>5, <1>6, <1>7, <1>9, <1>11, <2>1 DEF IInv, CertsOK
<1>17. SeedsOK' /\ HistoryOK'
    <2>1. \A c \in certs : c.key \in Keys
        BY DEF IInv, TypeOK, Certs
    <2>2. SeedsOK'
        BY <1>4, <1>7, <1>8, <1>11 DEF IInv, SeedsOK
    <2>3. HistoryOK'
        BY <1>3, <1>4, <1>6, <1>7, <1>9, <1>11, <2>1, NamesAssumption DEF IInv, HistoryOK
    <2> QED
        BY <2>2, <2>3
<1>18. TokenIssuesOnce'
    BY <1>3, <1>7, <1>11 DEF IInv, TokenIssuesOnce, CertsOK
<1>19. KeysNeverReused'
    BY <1>4, <1>7, <1>11 DEF IInv, KeysNeverReused
<1>20. DeletedNameStaysOut'
    <2>1. \A m \in deletedNames : m \in Names /\ m \notin Reserved
        BY DEF IInv, RecordsOK, TypeOK
    <2> QED
        BY <1>5, <1>6, <1>8, <1>10, <1>14, <2>1 DEF IInv, DeletedNameStaysOut, t
<1> QED
    BY <1>1, <1>12, <1>13, <1>15, <1>16, <1>17, <1>18, <1>19, <1>20 DEF IInv

LEMMA CommitStep ==
    ASSUME IInv, NEW r \in Requests, CommitEnroll(r)
    PROVE  IInv'
<1>1. CASE RefuseReused(r)
    <2>1. UNCHANGED <<tokens, enrollments, enrolledKeys, deletedNames, mints, seeds, clock, certs>>
        BY <1>1 DEF CommitEnroll, RefuseReused
    <2> QED
        BY <1>1, <2>1, RefuseStep DEF RefuseReused
<1>2. CASE Forfeit(r, requests[r].token)
    BY <1>2, ForfeitStep
<1>3. CASE LET t == requests[r].token
               n == tokens[t].name
               k == requests[r].key
           IN  (n \in deletedNames => tokens[t].allow) /\ enrolledKeys[k] = Nil /\ Issue(r, t, n, k)
    BY <1>3, IssueStep
<1> QED
    BY <1>1, <1>2, <1>3 DEF CommitEnroll

\* A step that changes one record and no key, token or certificate of it.
LEMMA FreezeStep ==
    ASSUME IInv, NEW r \in Requests, Renew(r), NEW n \in Names, enrollments[n] # Nil,
           enrollments' = [enrollments EXCEPT ![n].frozen = TRUE],
           Refuse(r, "Refused"), UNCHANGED <<enrolledKeys, certs>>
    PROVE  IInv'
<1>1. TypeOK'
    BY TypeRenew DEF IInv
<1>2. UNCHANGED <<tokens, deletedNames, mints, seeds, clock, enrolledKeys, certs>>
    BY DEF Renew
<1>3. /\ requests'[r].kind = "answer"
      /\ \A q \in Requests : q # r => requests'[q] = requests[q]
    BY DEF IInv, TypeOK, Refuse
<1>4. \A m \in Names :
          /\ enrollments[m] = Nil => enrollments'[m] = Nil
          /\ enrollments[m] # Nil =>
               /\ enrollments'[m].key = enrollments[m].key /\ enrollments'[m].previous = enrollments[m].previous
               /\ enrollments'[m].reserved = enrollments[m].reserved /\ enrollments'[m].token = enrollments[m].token
               /\ enrollments'[m].generation = enrollments[m].generation
    <2>1. enrollments[n] \in Records /\ enrollments' = [enrollments EXCEPT ![n] = [enrollments[n] EXCEPT !.frozen = TRUE]]
        BY DEF IInv, TypeOK
    <2>2. /\ enrollments'[n] = [enrollments[n] EXCEPT !.frozen = TRUE]
          /\ \A m \in Names : m # n => enrollments'[m] = enrollments[m]
        BY <2>1 DEF IInv, TypeOK
    <2> QED
        BY <2>1, <2>2 DEF Records
<1>5. MintsOK' /\ OneUsableTokenPerName' /\ TokenIssuesOnce' /\ KeysNeverReused'
    BY <1>2 DEF IInv, MintsOK, OneUsableTokenPerName, TokenIssuesOnce, KeysNeverReused, Usable
<1>6. RedemptionsOK'
    <2>1. \A q \in Requests : EnrollAt(q, "inserted") => tokens[requests[q].token].name \in Names
        BY EnrollShape DEF IInv, RedemptionsOK, Holds, EnrollAt
    <2> QED
        BY <1>2, <1>3, <1>4, <2>1 DEF IInv, RedemptionsOK, Holds, EnrollAt
<1>7. RecordsOK' /\ DeletedNameStaysOut'
    <2>1. \A m \in Names : enrollments'[m] # Nil => enrollments[m] # Nil
        BY <1>4
    <2>2. RecordsOK'
        BY <1>2, <1>4, <2>1 DEF IInv, RecordsOK
    <2> QED
        BY <1>2, <1>4, <2>1, <2>2 DEF IInv, DeletedNameStaysOut, TypeOK
<1>8. CertsOK'
    BY <1>2, <1>3 DEF IInv, CertsOK
<1>9. SeedsOK' /\ HistoryOK'
    <2>1. \A m \in Names : enrollments[m] # Nil => enrollments'[m] # Nil
        <3>1. [enrollments[n] EXCEPT !.frozen = TRUE] \in Records
            BY DEF IInv, TypeOK, Records
        <3> QED
            BY <3>1, RecordsAssumption DEF IInv, TypeOK
    <2> QED
        BY <1>2, <2>1, NamesAssumption DEF IInv, SeedsOK, HistoryOK
<1> QED
    BY <1>1, <1>5, <1>6, <1>7, <1>8, <1>9 DEF IInv

LEMMA RotateStep ==
    ASSUME IInv, NEW r \in Requests, Renew(r),
           NEW leaf, leaf = requests[r].leaf, NEW k, k = requests[r].key,
           NEW held, held = enrollments[leaf.name],
           Decide(held, leaf, k) = "Rotate", enrolledKeys[k] = Nil,
           enrolledKeys' = [enrolledKeys EXCEPT ![k] = leaf.name],
           enrollments' = [enrollments EXCEPT ![leaf.name] =
                             [@ EXCEPT !.key = k, !.previous = leaf.key, !.recorded = clock]],
           Grant(r, Renewed(leaf, k, held))
    PROVE  IInv'
<1> DEFINE n == leaf.name
           cert == Renewed(leaf, k, held)
<1>1. TypeOK'
    BY TypeRenew DEF IInv
<1>2. UNCHANGED <<tokens, deletedNames, mints, seeds, clock>>
    BY DEF Renew
<1>3. leaf \in certs /\ n \in Names /\ k \in Keys /\ leaf.key \in Keys
    BY RenewShape DEF IInv, Renew, CertsOK, Certs
<1>4. held \in Records /\ held # Nil /\ leaf.key = held.key
    BY <1>3 DEF Decide, IInv, TypeOK
<1>5. /\ \A c \in certs : c.key # k
      /\ \A s \in seeds : s.key # k
      /\ \A m \in Names : enrollments[m] # Nil => k \notin {enrollments[m].key, enrollments[m].previous}
    BY UnknownKey DEF Renew
<1>6. /\ requests'[r].kind = "answer"
      /\ \A q \in Requests : q # r => requests'[q] = requests[q]
      /\ certs' = certs \cup {cert}
    BY DEF IInv, TypeOK, Grant
<1>7. /\ enrolledKeys'[k] = n
      /\ \A j \in Keys : j # k => enrolledKeys'[j] = enrolledKeys[j]
    BY <1>3 DEF IInv, TypeOK
<1>8. /\ enrollments'[n] = [held EXCEPT !.key = k, !.previous = leaf.key, !.recorded = clock]
      /\ \A m \in Names : m # n => enrollments'[m] = enrollments[m]
    BY <1>3 DEF IInv, TypeOK
<1>9. /\ enrollments'[n] # Nil
      /\ enrollments'[n].key = k /\ enrollments'[n].previous = held.key
      /\ enrollments'[n].reserved = held.reserved /\ enrollments'[n].token = held.token
      /\ enrollments'[n].generation = held.generation
    <2>1. clock \in Times
        BY DEF IInv, TypeOK
    <2>2. [held EXCEPT !.key = k, !.previous = leaf.key, !.recorded = clock] \in Records
        BY <1>3, <1>4, <2>1 DEF Records
    <2>3. enrollments'[n] # Nil
        BY <1>8, <2>2, RecordsAssumption
    <2> DEFINE next == [held EXCEPT !.key = k, !.previous = leaf.key, !.recorded = clock]
    <2>4. /\ next.key = k /\ next.previous = leaf.key /\ next.reserved = held.reserved
          /\ next.token = held.token /\ next.generation = held.generation
        BY <1>4 DEF Records
    <2> HIDE DEF next
    <2>5. enrollments'[n] = next
        BY <1>8 DEF next
    <2> QED
        BY <1>4, <2>3, <2>4, <2>5
<1>10. cert.name = n /\ cert.key = k /\ cert.token = held.token /\ cert.via = "renew"
    BY DEF Renewed
<1>11. n # Nil /\ k # Nil
    BY <1>3, NilAssumption
<1>12. held = enrollments[n]
    OBVIOUS
<1> HIDE DEF n, cert
<1>13. MintsOK' /\ OneUsableTokenPerName'
    BY <1>2 DEF IInv, MintsOK, OneUsableTokenPerName, Usable
<1>14. RedemptionsOK'
    <2>1. \A q \in Requests : EnrollAt(q, "inserted") => tokens[requests[q].token].name \in Names \ {n}
        BY <1>4, <1>12, EnrollShape DEF IInv, RedemptionsOK, Holds, EnrollAt
    <2> QED
        BY <1>2, <1>6, <1>8, <2>1 DEF IInv, RedemptionsOK, Holds, EnrollAt
<1>15. RecordsOK'
    <2> SUFFICES ASSUME NEW m \in Names, enrollments'[m] # Nil
                 PROVE  /\ enrollments'[m].reserved <=> m \in Reserved
                        /\ enrollments'[m].token = Nil <=> m \in Reserved
                        /\ m \notin Reserved => tokens'[enrollments'[m].token].state = "spent"
                        /\ enrolledKeys'[enrollments'[m].key] # Nil
                        /\ enrollments'[m].previous # Nil => enrolledKeys'[enrollments'[m].previous] # Nil
                        /\ \E c \in certs' : c.key = enrollments'[m].key
                        /\ \A c \in certs' : c.key = enrollments'[m].key => c.name = m /\ c.token = enrollments'[m].token
        BY <1>2 DEF IInv, RecordsOK
    <2>1. CASE m = n
        <3>1. held.key \in Keys /\ held.key # k
            BY <1>4, <1>5, <1>12, <2>1 DEF Records
        <3> QED
            BY <1>2, <1>4, <1>5, <1>6, <1>7, <1>9, <1>10, <1>11, <1>12, <2>1, <3>1 DEF IInv, RecordsOK
    <2>2. CASE m # n
        <3>1. enrollments'[m] = enrollments[m] /\ enrollments[m].key \in Keys /\ enrollments[m].previous \in Keys \cup {Nil}
            BY <1>8, <2>2 DEF IInv, TypeOK, Records
        <3> QED
            BY <1>2, <1>5, <1>6, <1>7, <1>10, <1>11, <2>2, <3>1 DEF IInv, RecordsOK
    <2> QED
        BY <2>1, <2>2
<1>16. CertsOK'
    <2>1. \A c \in certs : c.key \in Keys
        BY DEF IInv, TypeOK, Certs
    <2>2. n \in Reserved => held.token = Nil
        BY <1>3, <1>4, <1>12 DEF IInv, RecordsOK, n
    <2> QED
        BY <1>2, <1>5, <1>6, <1>7, <1>10, <1>11, <2>1, <2>2 DEF IInv, CertsOK
<1>17. SeedsOK' /\ HistoryOK'
    <2>1. \A c \in certs : c.key \in Keys
        BY DEF IInv, TypeOK, Certs
    <2>2. SeedsOK'
        BY <1>2, <1>5, <1>6, <1>10 DEF IInv, SeedsOK
    <2>3. HistoryOK'
        BY <1>5, <1>6, <1>7, <1>8, <1>9, <1>10, <2>1, NamesAssumption DEF IInv, HistoryOK
    <2> QED
        BY <2>2, <2>3
<1>18. TokenIssuesOnce'
    BY <1>6, <1>10 DEF IInv, TokenIssuesOnce
<1>19. KeysNeverReused'
    BY <1>5, <1>6, <1>10 DEF IInv, KeysNeverReused
<1>20. DeletedNameStaysOut'
    BY <1>2, <1>8, <1>9, <1>4, <1>12 DEF IInv, DeletedNameStaysOut, TypeOK
<1> QED
    BY <1>1, <1>13, <1>14, <1>15, <1>16, <1>17, <1>18, <1>19, <1>20 DEF IInv

\* A retry is certified for the key the record holds, as the lost answer was.
LEMMA ResignStep ==
    ASSUME IInv, NEW r \in Requests, Renew(r),
           NEW leaf, leaf = requests[r].leaf, NEW k, k = requests[r].key,
           NEW held, held = enrollments[leaf.name],
           Decide(held, leaf, k) = "Resign", Grant(r, Renewed(leaf, k, held)),
           UNCHANGED <<enrollments, enrolledKeys>>
    PROVE  IInv'
<1> DEFINE n == leaf.name
           cert == Renewed(leaf, k, held)
<1>1. TypeOK'
    BY TypeRenew DEF IInv
<1>2. UNCHANGED <<tokens, deletedNames, mints, seeds, clock, enrollments, enrolledKeys>>
    BY DEF Renew
<1>3. n \in Names /\ k \in Keys
    BY RenewShape DEF IInv, Renew, Certs
<1>4. enrollments[n] # Nil /\ k = enrollments[n].key
    BY DEF Decide
<1>5. /\ requests'[r].kind = "answer"
      /\ \A q \in Requests : q # r => requests'[q] = requests[q]
      /\ certs' = certs \cup {cert}
    BY DEF IInv, TypeOK, Grant
<1>6. cert.name = n /\ cert.key = k /\ cert.token = enrollments[n].token /\ cert.via = "renew"
    BY DEF Renewed
<1> HIDE DEF n, cert
<1>7. \A c \in certs : c.key = k => c.name = n /\ c.token = cert.token
    BY <1>3, <1>4, <1>6 DEF IInv, RecordsOK
<1>8. PICK c \in certs : c.key = k
    BY <1>3, <1>4 DEF IInv, RecordsOK
<1>9. MintsOK' /\ OneUsableTokenPerName' /\ DeletedNameStaysOut'
    BY <1>2 DEF IInv, MintsOK, OneUsableTokenPerName, DeletedNameStaysOut, Usable
<1>10. RedemptionsOK'
    BY <1>2, <1>5 DEF IInv, RedemptionsOK, Holds, EnrollAt
<1>11. RecordsOK'
    <2>1. \A m \in Names : enrollments[m] # Nil /\ enrollments[m].key = k => m = n
        BY <1>7, <1>8 DEF IInv, RecordsOK
    <2>2. \A m \in Names : enrollments[m] # Nil =>
              \A d \in certs' : d.key = enrollments[m].key => d.name = m /\ d.token = enrollments[m].token
        BY <1>5, <1>6, <2>1 DEF IInv, RecordsOK
    <2> QED
        BY <1>2, <1>5, <2>2 DEF IInv, RecordsOK
<1>12. CertsOK'
    <2>1. enrolledKeys[k] # Nil /\ (n \in Reserved => cert.token = Nil)
        BY <1>3, <1>4, <1>6 DEF IInv, RecordsOK
    <2> QED
        BY <1>2, <1>5, <1>6, <2>1 DEF IInv, CertsOK
<1>13. SeedsOK' /\ HistoryOK'
    <2>1. \A s \in seeds : s.key = k => cert.name = s.name /\ cert.token = Nil
        BY <1>6, <1>7, <1>8 DEF IInv, SeedsOK
    <2>2. \A s \in seeds : \A d \in certs' : d.key = s.key => d.name = s.name /\ d.token = Nil
        BY <1>5, <1>6, <2>1 DEF IInv, SeedsOK
    <2>3. \A s \in seeds : \E d \in certs' : d.key = s.key
        BY <1>5 DEF IInv, SeedsOK
    <2>4. HistoryOK'
        BY <1>2, <1>5, <1>6, <1>7, <1>8 DEF IInv, HistoryOK
    <2> QED
        BY <1>2, <2>2, <2>3, <2>4 DEF SeedsOK
<1>14. TokenIssuesOnce'
    BY <1>5, <1>6 DEF IInv, TokenIssuesOnce
<1>15. KeysNeverReused'
    BY <1>5, <1>6, <1>7 DEF IInv, KeysNeverReused
<1> QED
    BY <1>1, <1>9, <1>10, <1>11, <1>12, <1>13, <1>14, <1>15 DEF IInv

LEMMA RenewStep ==
    ASSUME IInv, NEW r \in Requests, Renew(r)
    PROVE  IInv'
<1> DEFINE leaf == requests[r].leaf
           k == requests[r].key
           held == enrollments[leaf.name]
           action == Decide(held, leaf, k)
<1>1. CASE /\ action = "Forked" /\ enrollments' = [enrollments EXCEPT ![leaf.name].frozen = TRUE]
           /\ Refuse(r, "Refused") /\ UNCHANGED <<enrolledKeys, certs>>
    <2>1. leaf.name \in Names
        BY RenewShape DEF IInv, Renew, Certs
    <2>2. held # Nil
        BY <1>1 DEF Decide
    <2> QED
        BY <1>1, <2>1, <2>2, FreezeStep
<1>2. CASE /\ action = "Rotate" /\ enrolledKeys[k] = Nil
           /\ enrolledKeys' = [enrolledKeys EXCEPT ![k] = leaf.name]
           /\ enrollments' = [enrollments EXCEPT ![leaf.name] =
                                [@ EXCEPT !.key = k, !.previous = leaf.key, !.recorded = clock]]
           /\ Grant(r, Renewed(leaf, k, held))
    BY <1>2, RotateStep
<1>3. CASE action = "Resign" /\ Grant(r, Renewed(leaf, k, held)) /\ UNCHANGED <<enrollments, enrolledKeys>>
    BY <1>3, ResignStep
<1>4. CASE Refuse(r, "Refused") /\ UNCHANGED <<enrollments, enrolledKeys, certs>>
    <2>1. UNCHANGED <<tokens, enrollments, enrolledKeys, deletedNames, mints, seeds, clock, certs>>
        BY <1>4 DEF Renew
    <2> QED
        BY <1>4, <2>1, RefuseStep
<1> QED
    BY <1>1, <1>2, <1>3, <1>4 DEF Renew

-----------------------------------------------------------------------------
(* Deletion and seeds *)

LEMMA DeleteStep ==
    ASSUME IInv, NEW n \in Names, DeleteEnrollment(n)
    PROVE  IInv'
<1>1. TypeOK'
    BY TypeSeeds DEF IInv
<1>2. UNCHANGED <<tokens, enrolledKeys, mints, requests, seeds, clock, certs>>
    BY DEF DeleteEnrollment
<1>3. /\ n \notin Reserved /\ deletedNames' = deletedNames \cup {n}
      /\ enrollments'[n] = Nil
      /\ \A m \in Names : m # n => enrollments'[m] = enrollments[m]
    BY DEF DeleteEnrollment, IInv, TypeOK
<1>4. MintsOK' /\ OneUsableTokenPerName' /\ TokenIssuesOnce' /\ KeysNeverReused' /\ CertsOK'
    BY <1>2 DEF IInv, MintsOK, OneUsableTokenPerName, TokenIssuesOnce, KeysNeverReused, CertsOK, Usable
<1>5. RedemptionsOK'
    <2>1. \A q \in Requests : EnrollAt(q, "inserted") => tokens[requests[q].token].name \in Names
        BY EnrollShape DEF IInv, RedemptionsOK, Holds, EnrollAt
    <2> QED
        BY <1>2, <1>3, <2>1 DEF IInv, RedemptionsOK, Holds, EnrollAt
<1>6. RecordsOK'
    BY <1>2, <1>3 DEF IInv, RecordsOK
<1>7. SeedsOK' /\ HistoryOK'
    BY <1>2, <1>3, NamesAssumption DEF IInv, SeedsOK, HistoryOK
<1>8. DeletedNameStaysOut'
    BY <1>2, <1>3 DEF IInv, DeletedNameStaysOut, TypeOK
<1> QED
    BY <1>1, <1>4, <1>5, <1>6, <1>7, <1>8 DEF IInv

\* An identity is issued for a key nobody has.
LEMMA IssueIdentityStep ==
    ASSUME IInv, NEW n \in Reserved, NEW k \in Keys, IssueIdentity(n, k)
    PROVE  IInv'
<1> DEFINE cert == [name |-> n, key |-> k, notBefore |-> clock, token |-> Nil, via |-> "seed"]
<1>1. TypeOK'
    BY TypeSeeds DEF IInv
<1>2. /\ UNCHANGED <<tokens, enrollments, enrolledKeys, deletedNames, mints, requests, seeds, clock>>
      /\ certs' = certs \cup {cert}
    BY DEF IssueIdentity
<1>3. /\ enrolledKeys[k] = Nil
      /\ \A c \in certs : c.key # k
      /\ \A s \in seeds : s.key # k
      /\ \A r \in Requests : requests[r] # Nil /\ requests[r].kind # "answer" => requests[r].key # k
    BY DEF IssueIdentity, KeysInUse
<1>4. cert.name = n /\ cert.key = k /\ cert.token = Nil /\ cert.via = "seed"
    OBVIOUS
<1> HIDE DEF cert
<1>5. MintsOK' /\ RedemptionsOK' /\ OneUsableTokenPerName' /\ DeletedNameStaysOut'
    BY <1>2 DEF IInv, MintsOK, RedemptionsOK, OneUsableTokenPerName, DeletedNameStaysOut, Usable, Holds, EnrollAt
<1>6. RecordsOK'
    <2>1. \A m \in Names : enrollments[m] # Nil => enrollments[m].key # k
        BY <1>3 DEF IInv, RecordsOK
    <2> QED
        BY <1>2, <1>4, <2>1 DEF IInv, RecordsOK
<1>7. CertsOK'
    BY <1>2, <1>3, <1>4 DEF IInv, CertsOK
<1>8. SeedsOK' /\ HistoryOK'
    BY <1>2, <1>3, <1>4 DEF IInv, SeedsOK, HistoryOK
<1>9. TokenIssuesOnce'
    BY <1>2, <1>4 DEF IInv, TokenIssuesOnce
<1>10. KeysNeverReused'
    BY <1>2, <1>3, <1>4 DEF IInv, KeysNeverReused
<1> QED
    BY <1>1, <1>5, <1>6, <1>7, <1>8, <1>9, <1>10 DEF IInv

\* A seed names a key that is certified for its name already.
LEMMA EnsureSeedStep ==
    ASSUME IInv, NEW leaf \in certs, EnsureSeed(leaf)
    PROVE  IInv'
<1> DEFINE seed == [name |-> leaf.name, key |-> leaf.key, generation |-> NextGeneration, issued |-> leaf.notBefore]
<1>1. TypeOK'
    BY TypeSeeds DEF IInv
<1>2. /\ UNCHANGED <<tokens, enrollments, enrolledKeys, deletedNames, mints, requests, clock, certs>>
      /\ seeds' = seeds \cup {seed} /\ leaf.name \in Reserved
    BY DEF EnsureSeed
<1>3. seed.name = leaf.name /\ seed.key = leaf.key
    OBVIOUS
<1> HIDE DEF seed
<1>4. \A c \in certs : c.key = leaf.key => c.name = leaf.name /\ c.token = Nil
    BY <1>2 DEF IInv, KeysNeverReused, CertsOK
<1>5. /\ MintsOK' /\ RedemptionsOK' /\ RecordsOK' /\ CertsOK' /\ HistoryOK'
      /\ OneUsableTokenPerName' /\ DeletedNameStaysOut' /\ TokenIssuesOnce' /\ KeysNeverReused'
    BY <1>2 DEF IInv, MintsOK, RedemptionsOK, RecordsOK, CertsOK, HistoryOK, OneUsableTokenPerName,
                DeletedNameStaysOut, TokenIssuesOnce, KeysNeverReused, Usable, Holds, EnrollAt
<1>6. SeedsOK'
    BY <1>2, <1>3, <1>4 DEF IInv, SeedsOK
<1> QED
    BY <1>1, <1>5, <1>6 DEF IInv

\* A seed read again names a key the record already holds.
LEMMA SeedAcknowledgedStep ==
    ASSUME IInv, NEW s \in seeds, SeedReserved(s), SeedDecision(enrollments[s.name], s) = "Acknowledged"
    PROVE  IInv'
<1> DEFINE n == s.name
           held == enrollments[n]
<1>1. TypeOK'
    BY TypeSeeds DEF IInv
<1>2. /\ UNCHANGED <<tokens, enrolledKeys, deletedNames, mints, requests, seeds, clock, certs>>
      /\ enrollments' = [enrollments EXCEPT ![n] = [held EXCEPT !.generation = s.generation]]
    BY DEF SeedReserved, IInv, TypeOK
<1>3. n \in Names /\ n \in Reserved /\ s.generation \in Nat /\ s.generation \in Generations
    BY NamesAssumption DEF IInv, TypeOK, Seeds, Generations
<1>4. held # Nil /\ held \in Records /\ held.generation \in Nat /\ held.generation < s.generation
    <2>1. held # Nil /\ ~(held.generation > s.generation) /\ held.generation # s.generation
        BY DEF SeedDecision
    <2>2. held \in Records
        BY <1>3, <2>1 DEF IInv, TypeOK
    <2>3. held.generation \in Nat
        BY <2>2 DEF Records, Generations
    <2> QED
        BY <1>3, <2>1, <2>2, <2>3
<1>5. /\ \A m \in Names : m # n => enrollments'[m] = enrollments[m]
      /\ enrollments'[n] # Nil /\ enrollments'[n].generation = s.generation
      /\ enrollments'[n].key = held.key /\ enrollments'[n].previous = held.previous
      /\ enrollments'[n].reserved = held.reserved /\ enrollments'[n].token = held.token
    <2> DEFINE next == [held EXCEPT !.generation = s.generation]
    <2>1. /\ next \in Records /\ next.generation = s.generation
          /\ next.key = held.key /\ next.previous = held.previous
          /\ next.reserved = held.reserved /\ next.token = held.token
        BY <1>3, <1>4 DEF Records
    <2>2. enrollments'[n] = next /\ \A m \in Names : m # n => enrollments'[m] = enrollments[m]
        BY <1>2, <1>3 DEF IInv, TypeOK
    <2> HIDE DEF next
    <2>3. next # Nil
        BY <2>1, RecordsAssumption
    <2> QED
        BY <2>1, <2>2, <2>3
<1> HIDE DEF n
<1>6. MintsOK' /\ OneUsableTokenPerName' /\ TokenIssuesOnce' /\ KeysNeverReused' /\ CertsOK'
    BY <1>2 DEF IInv, MintsOK, OneUsableTokenPerName, TokenIssuesOnce, KeysNeverReused, CertsOK, Usable
<1>7. RedemptionsOK'
    <2>1. \A q \in Requests : EnrollAt(q, "inserted") => tokens[requests[q].token].name \in Names \ {n}
        BY <1>3, EnrollShape DEF IInv, RedemptionsOK, Holds, EnrollAt
    <2> QED
        BY <1>2, <1>5, <2>1 DEF IInv, RedemptionsOK, Holds, EnrollAt
<1>8. RecordsOK'
    BY <1>2, <1>3, <1>4, <1>5 DEF IInv, RecordsOK
<1>9. SeedsOK' /\ HistoryOK'
    BY <1>2, <1>4, <1>5, NamesAssumption DEF IInv, SeedsOK, HistoryOK, n
<1>10. DeletedNameStaysOut'
    BY <1>2, <1>3, <1>5 DEF IInv, DeletedNameStaysOut, TypeOK, RecordsOK
<1> QED
    BY <1>1, <1>6, <1>7, <1>8, <1>9, <1>10 DEF IInv

\* The key of a seed that registers its name was never enrolled; that of one
\* that resets the record was, if at all, for this name, and the seed is newer.
LEMMA SeedKey ==
    ASSUME IInv, NEW s \in seeds, SeedDecision(enrollments[s.name], s) \in {"Registered", "Reset"}
    PROVE  /\ enrolledKeys[s.key] \in {Nil, s.name}
           /\ enrollments[s.name] = Nil => enrolledKeys[s.key] = Nil
           /\ enrollments[s.name] # Nil => s.generation > enrollments[s.name].generation
<1>1. s.name \in Names /\ s.name \in Reserved /\ s.key \in Keys /\ s.generation \in Nat
    BY NamesAssumption DEF IInv, TypeOK, Seeds, Generations
<1>2. enrolledKeys[s.key] \in {Nil, s.name}
    BY DEF IInv, SeedsOK, HistoryOK
<1>3. enrollments[s.name] = Nil => enrolledKeys[s.key] = Nil
    BY <1>1, <1>2 DEF IInv, HistoryOK
<1>4. ASSUME enrollments[s.name] # Nil PROVE s.generation > enrollments[s.name].generation
    <2>1. enrollments[s.name].generation \in Nat
        BY <1>1, <1>4 DEF IInv, TypeOK, Records, Generations
    <2>2. ~(enrollments[s.name].generation > s.generation) /\ enrollments[s.name].generation # s.generation
        BY <1>4 DEF SeedDecision
    <2> QED
        BY <1>1, <2>1, <2>2
<1> QED
    BY <1>2, <1>3, <1>4

\* A seed registers its name, or resets its record, with its key.
LEMMA SeedFreshStep ==
    ASSUME IInv, NEW s \in seeds, SeedReserved(s), SeedDecision(enrollments[s.name], s) \in {"Registered", "Reset"}
    PROVE  IInv'
<1> DEFINE n == s.name
           held == enrollments[n]
           fresh == [key |-> s.key, previous |-> Nil, frozen |-> FALSE, reserved |-> TRUE, generation |-> s.generation,
                     epoch |-> s.issued, recorded |-> clock, token |-> Nil]
<1>1. TypeOK'
    BY TypeSeeds DEF IInv
<1>2. UNCHANGED <<tokens, deletedNames, mints, requests, seeds, clock, certs>>
    BY DEF SeedReserved
<1>3. n \in Names /\ n \in Reserved /\ s.generation \in Nat /\ s.key \in Keys /\ n # Nil
    BY NamesAssumption, NilAssumption DEF IInv, TypeOK, Seeds, Generations
<1>4. enrolledKeys[s.key] \in {Nil, n}
    BY SeedKey
<1>5. /\ enrolledKeys'[s.key] = n
      /\ \A k \in Keys : k # s.key => enrolledKeys'[k] = enrolledKeys[k]
    BY <1>3, <1>4 DEF SeedReserved, IInv, TypeOK
<1>6. /\ \A m \in Names : m # n => enrollments'[m] = enrollments[m]
      /\ enrollments'[n] = fresh
    BY <1>3 DEF SeedReserved, IInv, TypeOK
<1>7. /\ fresh.key = s.key /\ fresh.previous = Nil /\ fresh.generation = s.generation
      /\ fresh.reserved = TRUE /\ fresh.token = Nil
    OBVIOUS
<1>8. fresh # Nil
    <2>1. s.generation \in Generations /\ s.issued \in Times /\ clock \in Times
        BY DEF IInv, TypeOK, Seeds
    <2>2. fresh \in Records
        BY <1>3, <2>1 DEF Records
    <2> QED
        BY <2>2, RecordsAssumption
<1> HIDE DEF fresh, n
<1>9. \A k \in Keys : enrolledKeys[k] # Nil => enrolledKeys'[k] # Nil
    BY <1>3, <1>5
<1>10. MintsOK' /\ OneUsableTokenPerName' /\ TokenIssuesOnce' /\ KeysNeverReused'
    BY <1>2 DEF IInv, MintsOK, OneUsableTokenPerName, TokenIssuesOnce, KeysNeverReused, Usable
<1>11. CertsOK'
    <2>1. \A c \in certs : c.key \in Keys
        BY DEF IInv, TypeOK, Certs
    <2> QED
        BY <1>2, <1>9, <2>1 DEF IInv, CertsOK
<1>12. RedemptionsOK'
    <2>1. \A q \in Requests : EnrollAt(q, "inserted") => tokens[requests[q].token].name \in Names \ {n}
        BY <1>3, EnrollShape DEF IInv, RedemptionsOK, Holds, EnrollAt
    <2> QED
        BY <1>2, <1>6, <2>1 DEF IInv, RedemptionsOK, Holds, EnrollAt
<1>13. RecordsOK'
    <2> SUFFICES ASSUME NEW m \in Names, enrollments'[m] # Nil
                 PROVE  /\ enrollments'[m].reserved <=> m \in Reserved
                        /\ enrollments'[m].token = Nil <=> m \in Reserved
                        /\ m \notin Reserved => tokens[enrollments'[m].token].state = "spent"
                        /\ enrolledKeys'[enrollments'[m].key] # Nil
                        /\ enrollments'[m].previous # Nil => enrolledKeys'[enrollments'[m].previous] # Nil
                        /\ \E c \in certs : c.key = enrollments'[m].key
                        /\ \A c \in certs : c.key = enrollments'[m].key => c.name = m /\ c.token = enrollments'[m].token
        BY <1>2 DEF IInv, RecordsOK
    <2>1. CASE m = n
        <3>1. /\ \E c \in certs : c.key = s.key
              /\ \A c \in certs : c.key = s.key => c.name = n /\ c.token = Nil
            BY DEF IInv, SeedsOK, n
        <3> QED
            BY <1>3, <1>5, <1>6, <1>7, <2>1, <3>1
    <2>2. CASE m # n
        <3>1. enrollments'[m] = enrollments[m] /\ enrollments[m].key \in Keys /\ enrollments[m].previous \in Keys \cup {Nil}
            BY <1>6, <2>2 DEF IInv, TypeOK, Records
        <3> QED
            BY <1>9, <3>1 DEF IInv, RecordsOK
    <2> QED
        BY <2>1, <2>2
<1>14. SeedsOK' /\ HistoryOK'
    <2>1. \A c \in certs : c.key \in Keys /\ (c.key = s.key => c.name = n)
        BY DEF IInv, TypeOK, Certs, SeedsOK, n
    <2>2. \A m \in Reserved : enrollments'[m] = Nil => m # n /\ enrollments[m] = Nil
        BY <1>6, <1>8, NamesAssumption
    <2>3. HistoryOK'
        BY <1>2, <1>3, <1>5, <2>1, <2>2 DEF IInv, HistoryOK
    <2> QED
        BY <1>2, <2>3 DEF IInv, SeedsOK
<1>15. DeletedNameStaysOut'
    BY <1>2, <1>3, <1>6 DEF IInv, DeletedNameStaysOut, TypeOK, RecordsOK
<1> QED
    BY <1>1, <1>10, <1>11, <1>12, <1>13, <1>14, <1>15 DEF IInv

-----------------------------------------------------------------------------
(* The invariant and what it gives *)

LEMMA InvInit == StoreInit => IInv
<1> SUFFICES ASSUME StoreInit PROVE IInv
    OBVIOUS
<1>1. TypeOK
    BY TypeInit
<1>2. seeds = {} /\ certs = {} /\ deletedNames = {}
    BY DEF StoreInit
<1>3. \A t \in Tokens : tokens[t].state = "unminted"
    BY DEF StoreInit, NoRow
<1>4. MintsOK /\ RedemptionsOK /\ RecordsOK /\ OneUsableTokenPerName
    BY <1>2, <1>3 DEF StoreInit, MintsOK, RedemptionsOK, RecordsOK, OneUsableTokenPerName, Usable, Holds, EnrollAt
<1>5. CertsOK /\ SeedsOK /\ TokenIssuesOnce /\ KeysNeverReused /\ DeletedNameStaysOut
    BY <1>2 DEF StoreInit, CertsOK, SeedsOK, TokenIssuesOnce, KeysNeverReused, DeletedNameStaysOut
<1>6. HistoryOK
    BY <1>2, NamesAssumption, NilAssumption DEF StoreInit, HistoryOK
<1> QED
    BY <1>1, <1>4, <1>5, <1>6 DEF IInv

LEMMA InvStep == IInv /\ [StoreNext]_storeVars => IInv'
<1> SUFFICES ASSUME IInv, [StoreNext]_storeVars PROVE IInv'
    OBVIOUS
<1>1. ASSUME NEW m \in Minters, NEW t \in Tokens, NEW n \in Names, NEW allow \in BOOLEAN,
             NEW bound \in BoundKeys \cup {Nil}, MintCheck(m, t, n, allow, bound)
      PROVE  IInv'
    BY <1>1, MintCheckStep
<1>2. ASSUME NEW m \in Minters, MintCommit(m) \/ MintAbort(m)
      PROVE  IInv'
    BY <1>2, MintCommitStep, MintAbortStep
<1>3. ASSUME NEW t \in Tokens, Revoke(t) \/ Expire(t)
      PROVE  IInv'
    BY <1>3, RevokeStep, ExpireStep
<1>4. ASSUME NEW r \in Requests, NEW k \in RequestedKeys,
             (\E t \in Tokens : ReceiveEnroll(r, t, k)) \/ (\E leaf \in certs : ReceiveRenew(r, leaf, k))
      PROVE  IInv'
    BY <1>4, ReceiveStep
<1>5. ASSUME NEW r \in Requests, ServeStep(r)
      PROVE  IInv'
    BY <1>5, ConsumeStep, InsertStep, CommitStep, RenewStep DEF ServeStep
<1>6. ASSUME NEW r \in Requests, Finish(r)
      PROVE  IInv'
    BY <1>6, FinishStep
<1>7. ASSUME NEW n \in Names, DeleteEnrollment(n)
      PROVE  IInv'
    BY <1>7, DeleteStep
<1>8. ASSUME NEW n \in Reserved, NEW k \in Keys, IssueIdentity(n, k)
      PROVE  IInv'
    BY <1>8, IssueIdentityStep
<1>9. ASSUME NEW leaf \in certs, EnsureSeed(leaf)
      PROVE  IInv'
    BY <1>9, EnsureSeedStep
<1>10. ASSUME NEW s \in seeds, SeedReserved(s)
       PROVE  IInv'
    BY <1>10, SeedAcknowledgedStep, SeedFreshStep DEF SeedReserved
<1>11. CASE UNCHANGED storeVars
    BY <1>11 DEF storeVars, IInv, TypeOK, MintsOK, RedemptionsOK, RecordsOK, CertsOK, SeedsOK, TokenIssuesOnce,
                 KeysNeverReused, HistoryOK, DeletedNameStaysOut, OneUsableTokenPerName, Usable, Holds, EnrollAt
<1> QED
    BY <1>1, <1>2, <1>3, <1>4, <1>5, <1>6, <1>7, <1>8, <1>9, <1>10, <1>11 DEF StoreNext

\* Every step moves every record forward.
LEMMA MoveStep ==
    ASSUME IInv, StoreNext, NEW n \in Names
    PROVE  MovesForward(n)
<1>1. ASSUME enrollments'[n] \in {enrollments[n], Nil}
      PROVE  MovesForward(n)
    BY <1>1 DEF MovesForward
<1>2. ASSUME NEW r \in Requests, CommitEnroll(r)
      PROVE  MovesForward(n)
    <2> DEFINE t == requests[r].token
               k == requests[r].key
               row == tokens[t].name
    <2>1. CASE UNCHANGED enrollments
        BY <1>1, <2>1
    <2>2. CASE enrolledKeys[k] = Nil /\ enrollments' = [enrollments EXCEPT ![row] = NewRecord(k, t)]
        <3>1. CASE n # row
            BY <1>1, <2>2, <3>1 DEF IInv, TypeOK
        <3>2. CASE n = row
            BY <2>2, <3>2 DEF MovesForward, NewRecord, IInv, TypeOK
        <3> QED
            BY <3>1, <3>2
    <2> QED
        BY <1>2, <2>1, <2>2 DEF CommitEnroll, Forfeit, RefuseReused, Issue
<1>3. ASSUME NEW r \in Requests, Renew(r)
      PROVE  MovesForward(n)
    <2> DEFINE leaf == requests[r].leaf
               k == requests[r].key
               held == enrollments[leaf.name]
    <2>1. CASE UNCHANGED enrollments
        BY <1>1, <2>1
    <2>2. CASE held # Nil /\ enrollments' = [enrollments EXCEPT ![leaf.name].frozen = TRUE]
        <3>1. CASE n # leaf.name
            BY <1>1, <2>2, <3>1 DEF IInv, TypeOK
        <3>2. CASE n = leaf.name
            <4>1. enrollments[n] \in Records /\ enrollments'[n] = [enrollments[n] EXCEPT !.frozen = TRUE]
                BY <2>2, <3>2 DEF IInv, TypeOK
            <4>2. enrollments'[n].key = enrollments[n].key
                BY <4>1 DEF Records
            <4> QED
                BY <2>2, <3>2, <4>2 DEF MovesForward
        <3> QED
            BY <3>1, <3>2
    <2>3. CASE /\ held # Nil /\ enrolledKeys[k] = Nil
               /\ enrollments' = [enrollments EXCEPT ![leaf.name] =
                                    [@ EXCEPT !.key = k, !.previous = leaf.key, !.recorded = clock]]
        <3>1. CASE n # leaf.name
            BY <1>1, <2>3, <3>1 DEF IInv, TypeOK
        <3>2. CASE n = leaf.name
            <4>1. enrollments[n] \in Records
                BY <2>3, <3>2 DEF IInv, TypeOK
            <4>2. enrollments'[n] = [enrollments[n] EXCEPT !.key = k, !.previous = leaf.key, !.recorded = clock]
                BY <2>3, <3>2 DEF IInv, TypeOK
            <4>3. enrollments'[n].key = k
                BY <4>1, <4>2 DEF Records
            <4> QED
                BY <2>3, <4>3 DEF MovesForward
        <3> QED
            BY <3>1, <3>2
    <2> QED
        BY <1>3, <2>1, <2>2, <2>3 DEF Renew, Decide
<1>4. ASSUME NEW m \in Names, DeleteEnrollment(m)
      PROVE  MovesForward(n)
    BY <1>1, <1>4 DEF DeleteEnrollment, IInv, TypeOK
<1>5. ASSUME NEW s \in seeds, SeedReserved(s)
      PROVE  MovesForward(n)
    <2>1. CASE n # s.name
        BY <1>1, <1>5, <2>1 DEF SeedReserved, IInv, TypeOK
    <2>2. CASE n = s.name /\ SeedDecision(enrollments[s.name], s) = "Acknowledged"
        <3>1. enrollments[n] # Nil /\ enrollments[n] \in Records
            BY <2>2 DEF SeedDecision, IInv, TypeOK
        <3>2. enrollments'[n] = [enrollments[n] EXCEPT !.generation = s.generation]
            BY <1>5, <2>2 DEF SeedReserved, IInv, TypeOK
        <3>3. enrollments'[n].key = enrollments[n].key
            BY <3>1, <3>2 DEF Records
        <3> QED
            BY <3>1, <3>3 DEF MovesForward
    <2>3. CASE n = s.name /\ SeedDecision(enrollments[s.name], s) \in {"Registered", "Reset"}
        <3>1. enrollments'[n].key = s.key /\ enrollments'[n].generation = s.generation
            BY <1>5, <2>3 DEF SeedReserved, IInv, TypeOK
        <3> QED
            BY <2>3, <3>1, SeedKey DEF MovesForward
    <2> QED
        BY <1>5, <2>1, <2>2, <2>3 DEF SeedReserved
<1>6. \/ UNCHANGED enrollments
      \/ \E r \in Requests : CommitEnroll(r) \/ Renew(r)
      \/ \E m \in Names : DeleteEnrollment(m)
      \/ \E s \in seeds : SeedReserved(s)
    BY DEF StoreNext, ServeStep, MintCheck, MintCommit, MintAbort, Revoke, Expire, ReceiveEnroll, ReceiveRenew,
           Consume, SignAndInsert, Finish, IssueIdentity, EnsureSeed
<1> QED
    BY <1>1, <1>2, <1>3, <1>4, <1>5, <1>6

\* IInv holds in every state of the service.
THEOREM StoreInvariant == StoreSpec => []IInv
<1> QED
    BY InvInit, InvStep, PTL DEF StoreSpec

\* Every table and every request in service keeps its shape (store/postgres.rs).
THEOREM StoreTypeCorrect == StoreSpec => []TypeOK
<1>1. IInv => TypeOK
    BY DEF IInv
<1> QED
    BY <1>1, StoreInvariant, PTL

\* However many redemptions of a token run at once, and whatever is revoked,
\* expired or deleted in between, one of them gets a certificate: the guarded
\* UPDATE of redeem_and_issue waits for the row and finds it spent.
THEOREM TokensIssueOnce == StoreSpec => []TokenIssuesOnce
<1>1. IInv => TokenIssuesOnce
    BY DEF IInv
<1> QED
    BY <1>1, StoreInvariant, PTL

\* No key is certified under two names or for two enrollments of one name:
\* record_key is consulted by every enrollment and rotation, a retry is signed
\* only for the key the record holds, and bootstrap signs for keys it made.
THEOREM NoKeyReuse == StoreSpec => []KeysNeverReused
<1>1. IInv => KeysNeverReused
    BY DEF IInv
<1> QED
    BY <1>1, StoreInvariant, PTL

\* A name once deleted is held again only through a token minted to allow it,
\* at whichever point of the mint or the redemption the delete committed:
\* redeem_and_issue reads deleted_site_names after its insert.
THEOREM DeletedNamesStayOut == StoreSpec => []DeletedNameStaysOut
<1>1. IInv => DeletedNameStaysOut
    BY DEF IInv
<1> QED
    BY <1>1, StoreInvariant, PTL

\* Mints of one name run one after the other under its advisory lock, so no
\* two usable tokens pin the name.
THEOREM OneUsableToken == StoreSpec => []OneUsableTokenPerName
<1>1. IInv => OneUsableTokenPerName
    BY DEF IInv
<1> QED
    BY <1>1, StoreInvariant, PTL

\* A name comes to hold only a key nobody ever held, or one of its own that
\* bootstrap vouched for again in a seed newer than any the record took:
\* seed_reserved, which does not look at record_key's answer, takes over no
\* other name's key, and no older or replayed seed brings a replaced key back.
THEOREM RecordsOnlyMoveForward == StoreSpec => RecordsMoveForward
<1>1. IInv /\ [StoreNext]_storeVars => [\A n \in Names : MovesForward(n)]_storeVars
    BY MoveStep
<1> QED
    BY <1>1, StoreInvariant, PTL DEF StoreSpec, RecordsMoveForward

-----------------------------------------------------------------------------
(* The site: invariants *)

\* A redemption, or a renewal, is in service in slot r.
EnrollsAt(r) == requests[r] # Nil /\ requests[r].kind = "enroll"
RenewsAt(r) == requests[r] # Nil /\ requests[r].kind = "renew"

\* Only the site's name is in the service.
OneName ==
    /\ seeds = {}
    /\ \A m \in Minters : mints[m] # Nil => mints[m].name = Site
    /\ \A t \in Tokens : tokens[t].state \in {"live", "spent"} => tokens[t].name = Site
    /\ \A c \in certs : c.name = Site /\ c.notBefore <= clock /\ c.via # "seed"
    /\ \A r \in Requests : EnrollsAt(r) => tokens[requests[r].token].state # "unminted"
    /\ \A r \in Requests : EnrollAt(r, "inserted") => tokens[requests[r].token].bound \in {Nil, requests[r].key}

\* What the Secrets hold: minted invites, signed leaves, a pending key that is
\* not the leaf's; a leaf that is due is older than now.
SecretsOK ==
    /\ invite # Nil => invite \in Tokens /\ tokens[invite].state # "unminted"
    /\ kept # Nil => kept \in Pendings /\ tokens[kept.invite].state # "unminted"
    /\ kept # Nil /\ kept.issued # Nil => kept.issued \in certs /\ kept.issued.key = kept.key
    /\ identity # Nil => identity \in Identities /\ identity.leaf \in certs /\ identity.pending # identity.leaf.key
    /\ identified => kept = Nil
    /\ due => identity # Nil /\ identity.leaf.notBefore < clock

\* The stages of an attempt, and what each of them knows of the Secrets.
RenewStages == {"renew_ready", "renew_sent"}
SentStages == {"enroll_sent", "renew_sent"}

StagesOK ==
    /\ op.stage \in {"idle", "enroll_ready", "enroll_store", "enroll_sent"} \cup RenewStages
    /\ op.stage \in {"enroll_ready", "enroll_sent", "enroll_store"} =>
          kept # Nil /\ identity = Nil /\ (kept.issued # Nil <=> op.stage = "enroll_store")
    /\ op.stage = "enroll_sent" => kept.unanswered /\ op.resent \in BOOLEAN
    /\ op.stage \in SentStages => op.request \in Requests \cup {Nil}
    /\ op.stage \in RenewStages =>
          /\ identified /\ identity \in {Nil, op.held}
          /\ op.held \in Identities /\ op.held.leaf \in certs
          /\ op.held.pending # Nil /\ op.held.pending # op.held.leaf.key /\ op.held.leaf.notBefore < clock

\* The slot the operator awaits holds its own request, or the answer to it.
OwnRequest ==
    op.stage \in SentStages /\ op.request # Nil /\ requests[op.request] # Nil =>
        LET q == requests[op.request] IN
        /\ q.kind = "enroll" => op.stage = "enroll_sent" /\ q.token = kept.invite /\ q.key = kept.key
        /\ q.kind = "renew" => op.stage = "renew_sent" /\ q.leaf = op.held.leaf /\ q.key = op.held.pending
        /\ q.kind = "answer" /\ q.result = "Issued" => 
              /\ q.cert \in certs /\ enrollments[Site] # Nil /\ q.cert.key = enrollments[Site].key
              /\ q.cert.key = IF op.stage = "enroll_sent" THEN kept.key ELSE op.held.pending

\* Every renewal in service presents the same leaf for the same key, the one the
\* operator would send now.
OneRenewal ==
    \A r \in Requests : RenewsAt(r) =>
       /\ requests[r].leaf.notBefore < clock
       /\ kept # Nil => requests[r].leaf.key # kept.key
       /\ \A q \in Requests : RenewsAt(q) => requests[q].leaf = requests[r].leaf /\ requests[q].key = requests[r].key
       /\ op.stage \in RenewStages => requests[r].leaf = op.held.leaf /\ requests[r].key = op.held.pending
       /\ due => requests[r].leaf = identity.leaf /\ requests[r].key = identity.pending
       /\ identity # Nil => /\ requests[r].leaf.key = identity.leaf.key => requests[r].key = identity.pending
                            /\ requests[r].leaf.key # identity.pending

\* The record is at the leaf, one renewal of it on, or newer than the leaf.
Follows(leaf, k) ==
    LET held == enrollments[Site] IN
    \/ held = Nil \/ leaf.key = held.key
    \/ held.previous = leaf.key /\ held.key = k
    \/ leaf.notBefore < held.epoch

\* Whatever was or may be presented follows the record.
NoFork ==
    /\ \A r \in Requests : RenewsAt(r) => Follows(requests[r].leaf, requests[r].key)
    /\ op.stage \in RenewStages => Follows(op.held.leaf, op.held.pending)
    /\ identity # Nil => Follows(identity.leaf, identity.pending)
    /\ kept # Nil /\ kept.issued # Nil /\ enrollments[Site] # Nil => kept.key = enrollments[Site].key
    /\ identity # Nil \/ (kept # Nil /\ kept.issued # Nil) =>
         \A r \in Requests : EnrollsAt(r) => enrollments[Site] # Nil

\* No redemption of t can go through any more; none with key k; none did.
Dead(t) == tokens[t].state # "unminted" /\ ~Usable(t) /\ ~Locked(t)
Hopeless(t, k) ==
    \/ Dead(t) \/ enrolledKeys[k] # Nil \/ enrollments[Site] # Nil
    \/ tokens[t].state # "unminted" /\ tokens[t].bound \notin {Nil, k}
Uncertified(t, k) == \A c \in certs : c.via = "enroll" => c.token # t \/ c.key # k

\* Outside own, no request of the kept pair in service can go through.
NoOther(own) == \A r \in Requests \ own : EnrollsAt(r) /\ requests[r].token = kept.invite /\ requests[r].key = kept.key =>
                    Hopeless(kept.invite, kept.key)

\* What was reported is so; a request not marked unanswered has no fate that
\* the operator does not know of; and answers tell the truth.
Honest ==
    /\ \A p \in rejected : p[1] \in Tokens /\ Dead(p[1]) /\ Uncertified(p[1], p[2])
    /\ kept # Nil /\ ~kept.unanswered /\ kept.issued = Nil => Uncertified(kept.invite, kept.key) /\ NoOther({})
    /\ op.stage = "enroll_sent" /\ op.request # Nil /\ requests[op.request] # Nil =>
         LET q == requests[op.request] IN
         /\ ~op.resent /\ (q.kind = "enroll" \/ q.result # "Issued") =>
                Uncertified(kept.invite, kept.key) /\ NoOther({op.request})
         /\ q.kind = "answer" /\ q.result = "TokenInvalid" => Dead(kept.invite)
         /\ q.kind = "answer" /\ q.result \notin {"Issued", "TokenInvalid"} =>
                Uncertified(kept.invite, kept.key) /\ Hopeless(kept.invite, kept.key)

SInv == OneName /\ SecretsOK /\ StagesOK /\ OwnRequest /\ OneRenewal /\ NoFork /\ Honest
-----------------------------------------------------------------------------
(* The service goes on as it does alone. *)

LEMMA ArrivesSomewhere == ASSUME NEW r \in Arrivals PROVE r = Nil \/ r \in Requests
BY DEF Arrivals, FreeSlots

LEMMA FreshKeyIsFresh == ASSUME FreshKeys # {} PROVE FreshKey \in FreshKeys
BY DEF FreshKey

LEMMA ServiceStep ==
    ASSUME IInv, NEW r \in Requests, ServeStep(r) \/ Finish(r)
    PROVE  IInv'
BY InvStep DEF StoreNext

LEMMA CloseStep ==
    ASSUME IInv, NEW r \in Requests, requests[r] # Nil, requests' = [requests EXCEPT ![r] = Nil], StoreIdle
    PROVE  IInv'
BY FinishStep DEF Finish, StoreIdle

LEMMA SendStep ==
    ASSUME IInv, OneName, NEW r \in Requests, NEW k \in Keys,
           (\E t \in Tokens : ReceiveEnroll(r, t, k)) \/ (\E leaf \in certs : ReceiveRenew(r, leaf, k))
    PROVE  IInv'
<1>1. k \in RequestedKeys
    BY DEF OneName, RequestedKeys
<1> QED
    BY <1>1, ReceiveStep

LEMMA ClockStep ==
    ASSUME IInv, clock < MaxClock, clock' = clock + 1,
           UNCHANGED <<tokens, enrollments, enrolledKeys, deletedNames, mints, requests, seeds, certs>>
    PROVE  IInv'
<1>1. clock' \in Times
    BY StoreBoundsAssumption DEF IInv, TypeOK, Times
<1> QED
    BY <1>1 DEF IInv, TypeOK, MintsOK, RedemptionsOK, RecordsOK, CertsOK, SeedsOK, TokenIssuesOnce,
                KeysNeverReused, HistoryOK, DeletedNameStaysOut, OneUsableTokenPerName, Usable, Holds, EnrollAt

LEMMA SiteStoreStep ==
    ASSUME IInv, SInv, SiteNext
    PROVE  IInv'
<1>1. CASE UNCHANGED storeVars
    BY <1>1, InvStep
<1>2. ASSUME op.stage \in SentStages, Answered, Close, StoreIdle PROVE IInv'
    BY <1>2, CloseStep DEF Answered, Close, SInv, StagesOK
<1>3. CASE Operator
    <2>1. CASE EnrollStart \/ StoreIdentity \/ Present \/ RenewStart \/ GiveUp \/ Interrupt \/ Crash \/ LeaveForInvite
        BY <1>1, <2>1 DEF EnrollStart, StoreIdentity, Present, RenewStart, GiveUp, Interrupt, Crash, LeaveForInvite
    <2>2. CASE EnrollIssued \/ EnrollRefused \/ RenewIssued \/ RenewRefused
        BY <1>2, <2>2 DEF EnrollIssued, EnrollRefused, RenewIssued, RenewRefused, SentStages
    <2>3. ASSUME NEW r \in Arrivals, EnrollSend(r) PROVE IInv'
        <3>1. CASE r = Nil
            BY <1>1, <2>3, <3>1 DEF EnrollSend
        <3>2. CASE r # Nil
            <4>1. kept.invite \in Tokens /\ kept.key \in Keys
                BY <2>3 DEF EnrollSend, SInv, StagesOK, SecretsOK, Pendings
            <4>2. ReceiveEnroll(r, kept.invite, kept.key) /\ r \in Requests
                BY <2>3, <3>2, ArrivesSomewhere DEF EnrollSend
            <4> QED
                BY <4>1, <4>2, SendStep DEF SInv
        <3> QED
            BY <3>1, <3>2
    <2>4. ASSUME NEW r \in Arrivals, RenewSend(r) PROVE IInv'
        <3>1. CASE r = Nil
            BY <1>1, <2>4, <3>1 DEF RenewSend
        <3>2. CASE r # Nil
            <4>1. op.held.leaf \in certs /\ op.held.pending \in Keys
                BY <2>4 DEF RenewSend, SInv, StagesOK, RenewStages, Identities
            <4>2. ReceiveRenew(r, op.held.leaf, op.held.pending) /\ r \in Requests
                BY <2>4, <3>2, ArrivesSomewhere DEF RenewSend
            <4> QED
                BY <4>1, <4>2, SendStep DEF SInv
        <3> QED
            BY <3>1, <3>2
    <2> QED
        BY <1>3, <2>1, <2>2, <2>3, <2>4 DEF Operator
<1>4. CASE Service
    BY <1>4, ServiceStep DEF Service, SInv
<1>5. CASE Admin
    <2>1. ASSUME NEW m \in Minters, NEW t \in NewTokens, NEW bound \in BoundKeys \cup {Nil},
                 MintCheck(m, t, Site, Site \in deletedNames, bound)
          PROVE  IInv'
        <3>1. t \in Tokens /\ Site \in Names /\ (Site \in deletedNames) \in BOOLEAN
            BY SiteAssumption DEF NewTokens
        <3> QED
            BY <2>1, <3>1, InvStep DEF StoreNext
    <2>2. ASSUME NEW m \in Minters, MintCommit(m) PROVE IInv'
        BY <2>2, InvStep DEF StoreNext
    <2>3. ASSUME NEW t \in Tokens, Expire(t) PROVE IInv'
        BY <2>3, InvStep DEF StoreNext
    <2>4. CASE AdminDelete
        BY <2>4, SiteAssumption, InvStep DEF AdminDelete, StoreNext
    <2>5. ASSUME NEW t \in Tokens, SetInvite(t) PROVE IInv'
        BY <1>1, <2>5 DEF SetInvite
    <2> QED
        BY <1>5, <2>1, <2>2, <2>3, <2>4, <2>5 DEF Admin
<1>6. CASE LoseIdentity
    BY <1>1, <1>6 DEF LoseIdentity
<1>7. CASE BecomeDue
    BY <1>7, ClockStep DEF BecomeDue
<1> QED
    BY <1>3, <1>4, <1>5, <1>6, <1>7 DEF SiteNext

-----------------------------------------------------------------------------
(* What the service's state says of requests. *)

LEMMA RenewTypes ==
    ASSUME TypeOK, NEW r \in Requests, RenewsAt(r)
    PROVE  /\ requests[r].leaf \in Certs /\ requests[r].leaf.key \in Keys /\ requests[r].leaf.notBefore \in Nat
           /\ requests[r].key \in Keys /\ requests[r].leaf.key # Nil /\ requests[r].key # Nil
<1>1. requests[r].leaf \in Certs /\ requests[r].key \in Keys
    BY RenewShape DEF RenewsAt
<1> QED
    BY <1>1, NilAssumption, StoreBoundsAssumption DEF Certs, Times

-----------------------------------------------------------------------------
(* Steps of the operator alone. *)

\* The attempt is over, or the process: only what is stored stays.
LEMMA IdleStep ==
    ASSUME SInv, UNCHANGED <<storeVars, invite, kept, identity, due, rejected>>,
           op' = Idle, identified' => identified
    PROVE  SInv'
<1>1. op'.stage = "idle"
    BY DEF Idle
<1> USE DEF storeVars
<1>2. OneName' /\ SecretsOK'
    BY DEF SInv, OneName, SecretsOK, EnrollsAt, EnrollAt
<1>3. StagesOK' /\ OwnRequest'
    BY <1>1 DEF StagesOK, OwnRequest, RenewStages, SentStages
<1>4. OneRenewal' /\ NoFork'
    BY <1>1 DEF SInv, OneRenewal, NoFork, Follows, RenewsAt, EnrollsAt, RenewStages
<1>5. Honest'
    BY <1>1 DEF SInv, Honest, NoOther, Uncertified, Hopeless, Dead, Usable, Locked, EnrollsAt
<1> QED
    BY <1>2, <1>3, <1>4, <1>5 DEF SInv

LEMMA InviteStep ==
    ASSUME SInv, NEW t \in Tokens, SetInvite(t)
    PROVE  SInv'
<1> USE DEF SetInvite, storeVars
<1>1. OneName' /\ SecretsOK'
    BY DEF SInv, OneName, SecretsOK, EnrollsAt, EnrollAt, Usable
<1>2. StagesOK' /\ OwnRequest' /\ OneRenewal' /\ NoFork'
    BY DEF SInv, StagesOK, OwnRequest, OneRenewal, NoFork, Follows, RenewsAt, EnrollsAt
<1>3. Honest'
    BY DEF SInv, Honest, NoOther, Uncertified, Hopeless, Dead, Usable, Locked, EnrollsAt
<1> QED
    BY <1>1, <1>2, <1>3 DEF SInv

LEMMA LoseStep ==
    ASSUME SInv, LoseIdentity
    PROVE  SInv'
<1> USE DEF LoseIdentity, storeVars
<1>1. OneName' /\ SecretsOK'
    BY DEF SInv, OneName, SecretsOK, EnrollsAt, EnrollAt
<1>2. StagesOK' /\ OwnRequest'
    BY DEF SInv, StagesOK, OwnRequest
<1>3. OneRenewal' /\ NoFork'
    BY DEF SInv, OneRenewal, NoFork, Follows, RenewsAt, EnrollsAt
<1>4. Honest'
    BY DEF SInv, Honest, NoOther, Uncertified, Hopeless, Dead, Usable, Locked, EnrollsAt
<1> QED
    BY <1>1, <1>2, <1>3, <1>4 DEF SInv

LEMMA PresentStep ==
    ASSUME SInv, Present
    PROVE  SInv'
<1> USE DEF Present, storeVars
<1>1. op.stage = "idle" /\ identity # Nil
    BY DEF Idle
<1>2. OneName' /\ SecretsOK'
    BY DEF SInv, OneName, SecretsOK, EnrollsAt, EnrollAt
<1>3. StagesOK' /\ OwnRequest'
    BY <1>1 DEF SInv, StagesOK, OwnRequest, RenewStages, SentStages
<1>4. OneRenewal' /\ NoFork'
    BY <1>1 DEF SInv, OneRenewal, NoFork, Follows, RenewsAt, EnrollsAt
<1>5. Honest'
    BY <1>1 DEF SInv, Honest, NoOther, Uncertified, Hopeless, Dead, Usable, Locked, EnrollsAt
<1> QED
    BY <1>2, <1>3, <1>4, <1>5 DEF SInv

\* The leaf enrollment issued follows the record, as no renewal of it was sent.
LEMMA StoreStep ==
    ASSUME IInv, SInv, StoreIdentity
    PROVE  SInv'
<1> USE DEF StoreIdentity, storeVars
<1> DEFINE next == [leaf |-> kept.issued, pending |-> Nil]
<1>1. kept # Nil /\ identity = Nil /\ kept.issued # Nil /\ ~due /\ identity' = next
    BY DEF SInv, StagesOK, SecretsOK
<1>2. op'.stage = "idle"
    BY DEF Idle
<1>3. kept.issued \in certs /\ kept.issued \in Certs /\ kept.issued.key = kept.key /\ kept.issued.key # Nil
    BY <1>1, NilAssumption DEF SInv, SecretsOK, IInv, TypeOK, Certs
<1>4. next \in Identities /\ next.leaf = kept.issued /\ next.pending = Nil
    BY <1>3 DEF Identities
<1>5. next # Nil
    BY <1>4, SecretsAssumption
<1> HIDE DEF next
<1>6. OneName' /\ SecretsOK'
    BY <1>1, <1>3, <1>4, <1>5 DEF SInv, OneName, SecretsOK, EnrollsAt, EnrollAt
<1>7. StagesOK' /\ OwnRequest'
    BY <1>2 DEF StagesOK, OwnRequest, RenewStages, SentStages
<1>8. OneRenewal'
    BY <1>1, <1>2, <1>3, <1>4, RenewTypes DEF SInv, OneRenewal, RenewsAt, RenewStages, IInv
<1>9. NoFork'
    BY <1>1, <1>2, <1>3, <1>4 DEF SInv, NoFork, Follows, RenewsAt, EnrollsAt, RenewStages
<1>10. Honest'
    BY <1>2 DEF SInv, Honest, NoOther, Uncertified, Hopeless, Dead, Usable, Locked, EnrollsAt
<1> QED
    BY <1>6, <1>7, <1>8, <1>9, <1>10 DEF SInv

\* A key no request, certificate or leaf has is nobody's yet.
LEMMA FreshKeyUnknown ==
    ASSUME IInv, FreshKeys # {}
    PROVE  /\ FreshKey \in Keys /\ FreshKey # Nil
           /\ \A c \in certs : c.key # FreshKey
           /\ \A r \in Requests : EnrollsAt(r) \/ RenewsAt(r) => requests[r].key # FreshKey
<1>1. FreshKey \in Keys /\ FreshKey \notin KeysInUse
    BY FreshKeyIsFresh DEF FreshKeys
<1>2. \A c \in certs : c.key \in KeysInUse
    BY DEF KeysInUse
<1>3. \A r \in Requests : EnrollsAt(r) \/ RenewsAt(r) => requests[r].key \in KeysInUse
    BY DEF KeysInUse, EnrollsAt, RenewsAt
<1> QED
    BY <1>1, <1>2, <1>3, NilAssumption

LEMMA EnrollStartStep ==
    ASSUME IInv, SInv, EnrollStart
    PROVE  SInv'
<1> USE DEF EnrollStart, storeVars
<1> DEFINE next == [invite |-> invite, key |-> FreshKey, issued |-> Nil, unanswered |-> FALSE]
<1>1. identity = Nil /\ ~identified /\ invite \in Tokens /\ tokens[invite].state # "unminted" /\ ~due
    BY DEF SInv, SecretsOK
<1>2. op'.stage = IF kept'.issued = Nil THEN "enroll_ready" ELSE "enroll_store"
    OBVIOUS
<1>3. CASE kept # Nil /\ kept' = kept
    <2>1. OneName' /\ SecretsOK'
        BY <1>3 DEF SInv, OneName, SecretsOK, EnrollsAt, EnrollAt
    <2>2. StagesOK' /\ OwnRequest'
        BY <1>1, <1>2, <1>3 DEF StagesOK, OwnRequest, RenewStages, SentStages
    <2>3. OneRenewal' /\ NoFork'
        BY <1>1, <1>2, <1>3 DEF SInv, OneRenewal, NoFork, Follows, RenewsAt, EnrollsAt, RenewStages
    <2>4. Honest'
        BY <1>2, <1>3 DEF SInv, Honest, NoOther, Uncertified, Hopeless, Dead, Usable, Locked, EnrollsAt
    <2> QED
        BY <2>1, <2>2, <2>3, <2>4 DEF SInv
<1>4. CASE FreshKeys # {} /\ kept' = next
    <2>1. /\ FreshKey \in Keys
          /\ \A c \in certs : c.key # FreshKey
          /\ \A r \in Requests : EnrollsAt(r) \/ RenewsAt(r) => requests[r].key # FreshKey
        BY <1>4, FreshKeyUnknown
    <2>2. /\ next \in Pendings /\ next.invite = invite /\ next.key = FreshKey /\ next.issued = Nil
          /\ next.unanswered = FALSE
        BY <1>1, <2>1 DEF Pendings
    <2>3. next # Nil /\ op'.stage = "enroll_ready"
        BY <1>2, <1>4, <2>2, SecretsAssumption
    <2> HIDE DEF next
    <2>4. OneName' /\ SecretsOK'
        BY <1>1, <1>4, <2>2 DEF SInv, OneName, SecretsOK, EnrollsAt, EnrollAt
    <2>5. StagesOK' /\ OwnRequest'
        BY <1>1, <1>4, <2>2, <2>3 DEF StagesOK, OwnRequest, RenewStages, SentStages
    <2>6. \A r \in Requests : RenewsAt(r) => requests[r].leaf.key # FreshKey
        BY <2>1 DEF IInv, CertsOK, RenewsAt
    <2>7. OneRenewal' /\ NoFork'
        BY <1>1, <1>4, <2>2, <2>3, <2>6 DEF SInv, OneRenewal, NoFork, Follows, RenewsAt, EnrollsAt, RenewStages
    <2>8. Honest'
        BY <1>4, <2>1, <2>2, <2>3 DEF SInv, Honest, NoOther, Uncertified, Hopeless, Dead, Usable, Locked, EnrollsAt
    <2> QED
        BY <2>4, <2>5, <2>7, <2>8 DEF SInv
<1> QED
    BY <1>3, <1>4

\* The key is stored before it is sent; under a key not stored yet no renewal
\* of the leaf is in service.
LEMMA RenewStartStep ==
    ASSUME IInv, SInv, RenewStart
    PROVE  SInv'
<1> USE DEF RenewStart, storeVars
<1> DEFINE next == [identity EXCEPT !.pending = IF @ # Nil THEN @ ELSE FreshKey]
<1>1. /\ identity # Nil /\ identity \in Identities /\ identity.leaf \in certs /\ identity.leaf.notBefore < clock
      /\ identity.pending # identity.leaf.key /\ due /\ identified /\ kept = Nil
    BY DEF SInv, SecretsOK
<1>2. identity.pending = Nil =>
        FreshKey \in Keys /\ FreshKey # Nil /\ \A c \in certs : c.key # FreshKey
    BY FreshKeyUnknown
<1>3. /\ next \in Identities /\ next.leaf = identity.leaf
      /\ next.pending = IF identity.pending # Nil THEN identity.pending ELSE FreshKey
    BY <1>1, <1>2 DEF Identities
<1>4. identity' = next
    <2>1. CASE identity.pending # Nil
        BY <1>1, <2>1 DEF Pending, Identities
    <2>2. CASE identity.pending = Nil
        BY <1>1, <2>2 DEF Pending
    <2> QED
        BY <2>1, <2>2
<1>5. op'.stage = "renew_ready" /\ op'.held = next
    OBVIOUS
<1> HIDE DEF next
<1>6. next # Nil /\ next.pending # Nil /\ next.pending # next.leaf.key
    BY <1>1, <1>2, <1>3, SecretsAssumption
<1>7. \A r \in Requests : RenewsAt(r) => /\ requests[r].leaf = next.leaf /\ requests[r].key = next.pending
                                         /\ requests[r].leaf.key # next.pending
    <2>1. \A r \in Requests : RenewsAt(r) => /\ requests[r].leaf = identity.leaf /\ requests[r].key = identity.pending
                                             /\ requests[r].key # Nil
        BY <1>1, RenewTypes DEF SInv, OneRenewal, IInv
    <2> QED
        BY <1>3, <1>6, <2>1
<1>8. OneName' /\ SecretsOK'
    BY <1>1, <1>3, <1>4, <1>6 DEF SInv, OneName, SecretsOK, EnrollsAt, EnrollAt
<1>9. StagesOK' /\ OwnRequest'
    BY <1>1, <1>3, <1>4, <1>5, <1>6 DEF StagesOK, OwnRequest, RenewStages, SentStages
<1>10. OneRenewal'
    BY <1>1, <1>4, <1>5, <1>6, <1>7 DEF SInv, OneRenewal, RenewsAt
<1>11. Follows(next.leaf, next.pending)
    <2>1. Follows(identity.leaf, identity.pending)
        BY <1>1 DEF SInv, NoFork
    <2>2. enrollments[Site] # Nil => enrollments[Site].key # Nil
        BY SiteAssumption, NilAssumption DEF IInv, TypeOK, Records
    <2> QED
        BY <1>3, <2>1, <2>2 DEF Follows
<1>12. NoFork'
    BY <1>1, <1>4, <1>5, <1>11 DEF SInv, NoFork, Follows, RenewsAt, EnrollsAt
<1>13. Honest'
    BY <1>5 DEF SInv, Honest, NoOther, Uncertified, Hopeless, Dead, Usable, Locked, EnrollsAt
<1> QED
    BY <1>8, <1>9, <1>10, <1>12, <1>13 DEF SInv

-----------------------------------------------------------------------------
(* Requests that leave, and answers that arrive. *)

\* The mark is on the request before it leaves.
LEMMA SendingFields ==
    ASSUME SInv, kept # Nil
    PROVE  /\ Sending \in Pendings /\ Sending # Nil /\ Sending.invite = kept.invite /\ Sending.key = kept.key
           /\ Sending.issued = kept.issued /\ Sending.unanswered = TRUE
<1>1. kept \in Pendings
    BY DEF SInv, SecretsOK
<1>2. /\ Sending \in Pendings /\ Sending.invite = kept.invite /\ Sending.key = kept.key
      /\ Sending.issued = kept.issued /\ Sending.unanswered = TRUE
    BY <1>1 DEF Sending, Pendings
<1> QED
    BY <1>2, SecretsAssumption

LEMMA EnrollLostStep ==
    ASSUME SInv, EnrollSend(Nil)
    PROVE  SInv'
<1> USE DEF EnrollSend, storeVars
<1>1. kept # Nil /\ identity = Nil /\ kept.issued = Nil /\ ~due /\ kept.unanswered \in BOOLEAN
    BY DEF SInv, StagesOK, SecretsOK, Pendings
<1>2. /\ kept' \in Pendings /\ kept' # Nil /\ kept'.invite = kept.invite /\ kept'.key = kept.key
      /\ kept'.issued = Nil /\ kept'.unanswered = TRUE
    BY <1>1, SendingFields
<1>3. op'.stage = "enroll_sent" /\ op'.resent = kept.unanswered /\ op'.request = Nil
    OBVIOUS
<1>4. OneName' /\ SecretsOK'
    BY <1>1, <1>2 DEF SInv, OneName, SecretsOK, EnrollsAt, EnrollAt
<1>5. StagesOK' /\ OwnRequest'
    BY <1>1, <1>2, <1>3 DEF StagesOK, OwnRequest, RenewStages, SentStages
<1>6. OneRenewal' /\ NoFork'
    BY <1>1, <1>2, <1>3 DEF SInv, OneRenewal, NoFork, Follows, RenewsAt, EnrollsAt, RenewStages
<1>7. Honest'
    BY <1>2, <1>3 DEF SInv, Honest, NoOther, Uncertified, Hopeless, Dead, Usable, Locked, EnrollsAt
<1> QED
    BY <1>4, <1>5, <1>6, <1>7 DEF SInv

LEMMA EnrollSendStep ==
    ASSUME IInv, SInv, NEW r \in Requests, EnrollSend(r), r # Nil
    PROVE  SInv'
<1> USE DEF EnrollSend
<1>1. kept # Nil /\ identity = Nil /\ kept.issued = Nil /\ ~due /\ kept.unanswered \in BOOLEAN
    BY DEF SInv, StagesOK, SecretsOK, Pendings
<1>2. /\ kept' \in Pendings /\ kept' # Nil /\ kept'.invite = kept.invite /\ kept'.key = kept.key
      /\ kept'.issued = Nil /\ kept'.unanswered = TRUE
    BY <1>1, SendingFields
<1>3. op'.stage = "enroll_sent" /\ op'.resent = kept.unanswered /\ op'.request = r
    OBVIOUS
<1>4. /\ requests[r] = Nil
      /\ UNCHANGED <<tokens, enrollments, enrolledKeys, deletedNames, mints, seeds, clock, certs>>
    BY DEF ReceiveEnroll
<1>5. /\ requests'[r].kind = "enroll" /\ requests'[r].token = kept.invite /\ requests'[r].key = kept.key
      /\ requests'[r].stage = "received"
      /\ \A q \in Requests \ {r} : requests'[q] = requests[q]
    BY DEF ReceiveEnroll, IInv, TypeOK
<1>6. OneName'
    BY <1>1, <1>4, <1>5 DEF SInv, OneName, SecretsOK, EnrollsAt, EnrollAt
<1>7. SecretsOK'
    BY <1>1, <1>2, <1>4 DEF SInv, SecretsOK
<1>8. StagesOK' /\ OwnRequest'
    BY <1>1, <1>2, <1>3, <1>5 DEF StagesOK, OwnRequest, RenewStages, SentStages
<1>9. OneRenewal' /\ NoFork'
    BY <1>1, <1>2, <1>3, <1>4, <1>5 DEF SInv, OneRenewal, NoFork, Follows, RenewsAt, EnrollsAt, RenewStages
<1>10. \A t \in Tokens : Locked(t)' <=> Locked(t)
    BY <1>4, <1>5 DEF Locked
<1>11. Honest'
    <2>1. \A p \in rejected : p[1] \in Tokens /\ Dead(p[1])' /\ Uncertified(p[1], p[2])'
        BY <1>4, <1>5 DEF SInv, Honest, Dead, Usable, Locked, Uncertified
    <2>2. kept.invite \in Tokens
        BY <1>1 DEF SInv, SecretsOK, Pendings
    <2>3. Hopeless(kept.invite, kept.key) => Hopeless(kept.invite, kept.key)'
        BY <1>2, <1>4, <1>10, <2>2 DEF Hopeless, Dead, Usable
    <2>4. ~kept.unanswered => Uncertified(kept.invite, kept.key)' /\ NoOther({r})'
        BY <1>1, <1>2, <1>4, <1>5, <2>3 DEF SInv, Honest, NoOther, Uncertified, EnrollsAt
    <2> QED
        BY <1>2, <1>3, <1>5, <2>1, <2>4 DEF Honest, Uncertified
<1> QED
    BY <1>6, <1>7, <1>8, <1>9, <1>11 DEF SInv

LEMMA RenewLostStep ==
    ASSUME SInv, RenewSend(Nil)
    PROVE  SInv'
<1> USE DEF RenewSend, storeVars
<1>1. op'.stage = "renew_sent" /\ op'.held = op.held /\ op'.request = Nil
    OBVIOUS
<1>2. OneName' /\ SecretsOK'
    BY DEF SInv, OneName, SecretsOK, EnrollsAt, EnrollAt
<1>3. StagesOK' /\ OwnRequest'
    BY <1>1 DEF SInv, StagesOK, OwnRequest, RenewStages, SentStages
<1>4. OneRenewal' /\ NoFork'
    BY <1>1 DEF SInv, OneRenewal, NoFork, Follows, RenewsAt, EnrollsAt, RenewStages
<1>5. Honest'
    BY <1>1 DEF SInv, Honest, NoOther, Uncertified, Hopeless, Dead, Usable, Locked, EnrollsAt
<1> QED
    BY <1>2, <1>3, <1>4, <1>5 DEF SInv

\* Only enroll requests and their stages matter to what was rejected.
LEMMA RenewSendStep ==
    ASSUME IInv, SInv, NEW r \in Requests, RenewSend(r), r # Nil
    PROVE  SInv'
<1> USE DEF RenewSend
<1>1. /\ op'.stage = "renew_sent" /\ op'.held = op.held /\ op'.request = r
      /\ op.stage = "renew_ready"
    OBVIOUS
<1>2. /\ requests[r] = Nil
      /\ UNCHANGED <<tokens, enrollments, enrolledKeys, deletedNames, mints, seeds, clock, certs>>
      /\ UNCHANGED <<invite, kept, identity, due, failed, identified, losses, rejected>>
    BY DEF ReceiveRenew
<1>3. /\ requests'[r].kind = "renew" /\ requests'[r].leaf = op.held.leaf /\ requests'[r].key = op.held.pending
      /\ \A q \in Requests \ {r} : requests'[q] = requests[q]
    BY DEF ReceiveRenew, IInv, TypeOK
<1>4. /\ kept = Nil /\ identity \in {Nil, op.held} /\ op.held.leaf.notBefore < clock
      /\ op.held.pending # op.held.leaf.key /\ (due => identity # Nil)
      /\ Follows(op.held.leaf, op.held.pending)
    BY <1>1 DEF SInv, StagesOK, SecretsOK, NoFork, RenewStages
<1>5. OneName' /\ SecretsOK'
    BY <1>2, <1>3 DEF SInv, OneName, SecretsOK, EnrollsAt, EnrollAt
<1>6. StagesOK' /\ OwnRequest'
    BY <1>1, <1>2, <1>3 DEF SInv, StagesOK, OwnRequest, RenewStages, SentStages
<1>7. OneRenewal'
    BY <1>1, <1>2, <1>3, <1>4 DEF SInv, OneRenewal, RenewsAt, RenewStages
<1>8. NoFork'
    BY <1>1, <1>2, <1>3, <1>4 DEF SInv, NoFork, Follows, RenewsAt, EnrollsAt, RenewStages
<1>9. Honest'
    BY <1>1, <1>2, <1>3, <1>4 DEF SInv, Honest, Uncertified, Dead, Usable, Locked
<1> QED
    BY <1>5, <1>6, <1>7, <1>8, <1>9 DEF SInv

\* The answer is taken and its slot is free again.
LEMMA ClosedFacts ==
    ASSUME IInv, SInv, op.stage \in SentStages, Answered, Close, StoreIdle
    PROVE  /\ op.request \in Requests /\ op.request # Nil /\ requests'[op.request] = Nil
           /\ requests[op.request] # Nil /\ requests[op.request].kind = "answer"
           /\ \A q \in Requests \ {op.request} : requests'[q] = requests[q]
           /\ UNCHANGED <<tokens, enrollments, enrolledKeys, deletedNames, mints, seeds, clock, certs>>
           /\ OneName'
           /\ \A t : Locked(t)' => Locked(t)
<1>1. /\ op.request \in Requests /\ op.request # Nil /\ requests[op.request] # Nil
      /\ requests[op.request].kind = "answer"
    BY DEF SInv, StagesOK, Answered
<1>2. /\ requests'[op.request] = Nil
      /\ \A q \in Requests \ {op.request} : requests'[q] = requests[q]
    BY <1>1 DEF Close, IInv, TypeOK
<1>3. UNCHANGED <<tokens, enrollments, enrolledKeys, deletedNames, mints, seeds, clock, certs>>
    BY DEF StoreIdle
<1>4. OneName'
    BY <1>2, <1>3 DEF SInv, OneName, EnrollsAt, EnrollAt
<1>5. \A t : Locked(t)' => Locked(t)
    BY <1>2 DEF Locked
<1> QED
    BY <1>1, <1>2, <1>3, <1>4, <1>5

LEMMA EnrollIssuedStep ==
    ASSUME IInv, SInv, EnrollIssued
    PROVE  SInv'
<1> USE DEF EnrollIssued
<1> DEFINE c == requests[op.request].cert
           r == op.request
<1>1. /\ r \in Requests /\ r # Nil /\ requests'[r] = Nil /\ requests[r] # Nil /\ requests[r].kind = "answer"
      /\ \A q \in Requests \ {r} : requests'[q] = requests[q]
      /\ UNCHANGED <<tokens, enrollments, enrolledKeys, deletedNames, mints, seeds, clock, certs>>
      /\ OneName'
      /\ \A t : Locked(t)' => Locked(t)
    BY ClosedFacts DEF SentStages
<1>2. op'.stage = "enroll_store" /\ op.stage = "enroll_sent"
    OBVIOUS
<1>3. c \in certs /\ enrollments[Site] # Nil /\ c.key = enrollments[Site].key /\ c.key = kept.key
    BY <1>1 DEF SInv, OwnRequest, SentStages, AnswerOf
<1>4. kept # Nil /\ kept \in Pendings /\ identity = Nil /\ ~due /\ ~identified
    BY <1>2 DEF SInv, StagesOK, SecretsOK
<1>5. c \in Certs /\ c # Nil
    BY <1>3, SecretsAssumption DEF IInv, TypeOK
<1> HIDE DEF c, r
<1>6. /\ kept' \in Pendings /\ kept'.invite = kept.invite /\ kept'.key = kept.key
      /\ kept'.issued = c /\ kept'.unanswered = FALSE
    BY <1>4, <1>5 DEF Pendings, AnswerOf, c, r
<1>7. kept' # Nil
    BY <1>6, SecretsAssumption
<1>8. SecretsOK'
    BY <1>1, <1>3, <1>4, <1>6, <1>7 DEF SInv, SecretsOK
<1>9. StagesOK' /\ OwnRequest'
    BY <1>2, <1>4, <1>5, <1>6, <1>7 DEF StagesOK, OwnRequest, RenewStages, SentStages
<1>10. OneRenewal' /\ NoFork'
    BY <1>1, <1>2, <1>3, <1>4, <1>6 DEF SInv, OneRenewal, NoFork, Follows, RenewsAt, EnrollsAt, RenewStages
<1>11. Honest'
    BY <1>1, <1>2, <1>5, <1>6 DEF SInv, Honest, Uncertified, Dead, Usable
<1> QED
    BY <1>1, <1>8, <1>9, <1>10, <1>11 DEF SInv

\* A refused token the site never sent before is dead, and none of its requests
\* spent it; after any other refusal no request still in service can.
LEMMA EnrollRefusedStep ==
    ASSUME IInv, SInv, EnrollRefused
    PROVE  SInv'
<1> USE DEF EnrollRefused
<1> DEFINE r == op.request
           t == kept.invite
           k == kept.key
<1>1. /\ r \in Requests /\ r # Nil /\ requests'[r] = Nil /\ requests[r] # Nil /\ requests[r].kind = "answer"
      /\ \A q \in Requests \ {r} : requests'[q] = requests[q]
      /\ UNCHANGED <<tokens, enrollments, enrolledKeys, deletedNames, mints, seeds, clock, certs>>
      /\ OneName'
      /\ \A x : Locked(x)' => Locked(x)
    BY ClosedFacts DEF SentStages
<1>2. /\ op'.stage = "idle" /\ op.stage = "enroll_sent" /\ requests[r].result # "Issued"
      /\ UNCHANGED <<invite, identity, due, identified>>
    BY DEF Idle, AnswerOf
<1>3. kept # Nil /\ kept \in Pendings /\ kept.issued = Nil /\ identity = Nil /\ ~due /\ ~identified
    BY <1>2 DEF SInv, StagesOK, SecretsOK
<1>4. CASE requests[r].result = "TokenInvalid" /\ op.resent
    <2>1. UNCHANGED <<kept, rejected>>
        BY <1>4 DEF AnswerOf
    <2>2. SecretsOK'
        BY <1>1, <1>2, <2>1 DEF SInv, SecretsOK
    <2>3. StagesOK' /\ OwnRequest'
        BY <1>2 DEF StagesOK, OwnRequest, RenewStages, SentStages
    <2>4. OneRenewal' /\ NoFork'
        BY <1>1, <1>2, <2>1 DEF SInv, OneRenewal, NoFork, Follows, RenewsAt, EnrollsAt, RenewStages
    <2>5. kept.unanswered
        BY <1>2 DEF SInv, StagesOK
    <2>6. Honest'
        BY <1>1, <1>2, <2>1, <2>5 DEF SInv, Honest, Uncertified, Dead, Usable
    <2> QED
        BY <1>1, <2>2, <2>3, <2>4, <2>6 DEF SInv
<1>5. CASE ~(requests[r].result = "TokenInvalid" /\ op.resent)
    <2>1. /\ kept' = [kept EXCEPT !.unanswered = FALSE]
          /\ rejected' = rejected \cup (IF requests[r].result = "TokenInvalid" THEN {<<t, k>>} ELSE {})
        BY <1>5 DEF AnswerOf
    <2>2. /\ kept' \in Pendings /\ kept'.invite = t /\ kept'.key = k /\ kept'.issued = Nil /\ kept'.unanswered = FALSE
        BY <1>3, <2>1 DEF Pendings
    <2>3. kept' # Nil
        BY <2>2, SecretsAssumption
    <2>4. /\ Uncertified(t, k) /\ Hopeless(t, k)
          /\ requests[r].result = "TokenInvalid" => Dead(t)
        BY <1>1, <1>2, <1>5 DEF SInv, Honest, Hopeless
    <2>5. SecretsOK'
        BY <1>1, <1>2, <1>3, <2>2 DEF SInv, SecretsOK
    <2>6. StagesOK' /\ OwnRequest'
        BY <1>2 DEF StagesOK, OwnRequest, RenewStages, SentStages
    <2>7. OneRenewal' /\ NoFork'
        BY <1>1, <1>2, <1>3, <2>2 DEF SInv, OneRenewal, NoFork, Follows, RenewsAt, EnrollsAt, RenewStages
    <2>8. \A x : Dead(x) => Dead(x)'
        BY <1>1 DEF Dead, Usable
    <2>9. /\ Hopeless(kept.invite, kept.key)' /\ Uncertified(kept.invite, kept.key)'
        BY <1>1, <2>2, <2>4, <2>8 DEF Hopeless, Uncertified
    <2>10. \A p \in rejected' : p[1] \in Tokens /\ Dead(p[1])' /\ Uncertified(p[1], p[2])'
        <3>1. ASSUME NEW p \in rejected PROVE p[1] \in Tokens /\ Dead(p[1])' /\ Uncertified(p[1], p[2])'
            BY <1>1, <2>8, <3>1 DEF SInv, Honest, Uncertified
        <3>2. ASSUME NEW p, p = <<t, k>>, requests[r].result = "TokenInvalid"
              PROVE  p[1] \in Tokens /\ Dead(p[1])' /\ Uncertified(p[1], p[2])'
            BY <1>1, <1>3, <2>4, <2>8, <3>2 DEF Uncertified, Pendings
        <3> QED
            BY <2>1, <3>1, <3>2
    <2>11. Honest'
        BY <1>2, <2>9, <2>10 DEF Honest, NoOther
    <2> QED
        BY <1>1, <2>5, <2>6, <2>7, <2>11 DEF SInv
<1> QED
    BY <1>4, <1>5

\* The new leaf follows the record: the renewals still in service are retries
\* of the one it answers.
LEMMA RenewIssuedStep ==
    ASSUME IInv, SInv, RenewIssued
    PROVE  SInv'
<1> USE DEF RenewIssued
<1> DEFINE c == requests[op.request].cert
           r == op.request
           next == [leaf |-> c, pending |-> Nil]
<1>1. /\ r \in Requests /\ r # Nil /\ requests'[r] = Nil /\ requests[r] # Nil /\ requests[r].kind = "answer"
      /\ \A q \in Requests \ {r} : requests'[q] = requests[q]
      /\ UNCHANGED <<tokens, enrollments, enrolledKeys, deletedNames, mints, seeds, clock, certs>>
      /\ OneName'
      /\ \A t : Locked(t)' => Locked(t)
    BY ClosedFacts DEF SentStages
<1>2. op'.stage = "idle" /\ op.stage = "renew_sent" /\ UNCHANGED <<invite, kept, identified, rejected>>
    BY DEF Idle
<1>3. c \in certs /\ enrollments[Site] # Nil /\ c.key = enrollments[Site].key /\ c.key = op.held.pending
    BY <1>1 DEF SInv, OwnRequest, SentStages, AnswerOf
<1>4. kept = Nil /\ identified /\ identity \in {Nil, op.held} /\ op.held.pending # Nil /\ op.held.pending # op.held.leaf.key
    BY <1>2 DEF SInv, StagesOK, SecretsOK, RenewStages
<1>5. next \in Identities /\ next.leaf = c /\ next.pending = Nil /\ next # Nil
    <2>1. next \in Identities
        BY <1>3 DEF IInv, TypeOK, Identities
    <2> QED
        BY <2>1, SecretsAssumption
<1>6. StagesOK' /\ OwnRequest'
    BY <1>2 DEF StagesOK, OwnRequest, RenewStages, SentStages
<1>7. Honest'
    BY <1>1, <1>2, <1>4 DEF SInv, Honest, Uncertified, Dead, Usable
<1>8. CASE identity = op.held
    <2>1. identity' = next /\ ~due'
        BY <1>8 DEF AnswerOf
    <2>2. op.held # Nil
        BY SecretsAssumption, <1>2 DEF SInv, StagesOK, RenewStages
    <2> HIDE DEF next, c
    <2>3. SecretsOK'
        BY <1>1, <1>2, <1>3, <1>4, <1>5, <2>1 DEF SInv, SecretsOK
    <2>4. OneRenewal'
        <3>1. \A q \in Requests \ {r} : RenewsAt(q) => /\ requests[q].leaf.key = op.held.leaf.key
                                                       /\ requests[q].leaf.key # Nil
            BY <1>2, RenewTypes DEF SInv, OneRenewal, RenewStages, IInv
        <3> QED
            BY <1>1, <1>2, <1>3, <1>4, <1>5, <2>1, <3>1 DEF SInv, OneRenewal, RenewsAt, RenewStages
    <2>5. NoFork'
        BY <1>1, <1>2, <1>3, <1>4, <1>5, <1>8, <2>1, <2>2 DEF SInv, NoFork, Follows, RenewsAt, EnrollsAt, RenewStages
    <2> QED
        BY <1>1, <1>6, <1>7, <2>3, <2>4, <2>5 DEF SInv
<1>9. CASE identity # op.held
    <2>1. UNCHANGED <<identity, due>>
        BY <1>9
    <2>2. SecretsOK'
        BY <1>1, <1>2, <2>1 DEF SInv, SecretsOK
    <2>3. OneRenewal' /\ NoFork'
        BY <1>1, <1>2, <2>1 DEF SInv, OneRenewal, NoFork, Follows, RenewsAt, EnrollsAt, RenewStages
    <2> QED
        BY <1>1, <1>6, <1>7, <2>2, <2>3 DEF SInv
<1> QED
    BY <1>8, <1>9

LEMMA RenewRefusedStep ==
    ASSUME IInv, SInv, RenewRefused
    PROVE  SInv'
<1> USE DEF RenewRefused
<1> DEFINE r == op.request
<1>1. /\ r \in Requests /\ r # Nil /\ requests'[r] = Nil /\ requests[r] # Nil /\ requests[r].kind = "answer"
      /\ \A q \in Requests \ {r} : requests'[q] = requests[q]
      /\ UNCHANGED <<tokens, enrollments, enrolledKeys, deletedNames, mints, seeds, clock, certs>>
      /\ OneName'
      /\ \A t : Locked(t)' => Locked(t)
    BY ClosedFacts DEF SentStages
<1>2. /\ op'.stage = "idle" /\ op.stage = "renew_sent"
      /\ UNCHANGED <<invite, kept, identity, due, identified, rejected>>
    BY DEF Idle
<1>3. SecretsOK'
    BY <1>1, <1>2 DEF SInv, SecretsOK
<1>4. StagesOK' /\ OwnRequest'
    BY <1>2 DEF StagesOK, OwnRequest, RenewStages, SentStages
<1>5. OneRenewal' /\ NoFork'
    BY <1>1, <1>2 DEF SInv, OneRenewal, NoFork, Follows, RenewsAt, EnrollsAt, RenewStages
<1>6. kept = Nil
    BY <1>2 DEF SInv, StagesOK, SecretsOK, RenewStages
<1>7. Honest'
    BY <1>1, <1>2, <1>6 DEF SInv, Honest, Uncertified, Dead, Usable
<1> QED
    BY <1>1, <1>3, <1>4, <1>5, <1>7 DEF SInv

-----------------------------------------------------------------------------
(* The admin's steps, and time. *)

LEMMA MintCheckSite ==
    ASSUME IInv, SInv, NEW m \in Minters, NEW t, NEW allow, NEW bound, MintCheck(m, t, Site, allow, bound),
           UNCHANGED siteVars
    PROVE  SInv'
<1> USE DEF MintCheck, siteVars
<1>1. \A o \in Minters : mints'[o] # Nil => mints'[o].name = Site
    BY DEF SInv, OneName, IInv, TypeOK
<1>2. OneName' /\ SecretsOK'
    BY <1>1 DEF SInv, OneName, SecretsOK, EnrollsAt, EnrollAt
<1>3. StagesOK' /\ OwnRequest' /\ OneRenewal' /\ NoFork'
    BY DEF SInv, StagesOK, OwnRequest, OneRenewal, NoFork, Follows, RenewsAt, EnrollsAt
<1>4. Honest'
    BY DEF SInv, Honest, NoOther, Uncertified, Hopeless, Dead, Usable, Locked, EnrollsAt
<1> QED
    BY <1>2, <1>3, <1>4 DEF SInv

\* A row changes that no request holds: what was minted stays, a dead token
\* stays dead, and no token comes to bind another key.
LEMMA RowStep ==
    ASSUME IInv, SInv, UNCHANGED <<enrollments, enrolledKeys, deletedNames, requests, seeds, clock, certs>>,
           UNCHANGED siteVars, \A m \in Minters : mints'[m] # Nil => mints'[m].name = Site,
           \A t \in Tokens : tokens[t].state # "unminted" =>
              tokens'[t].state = tokens[t].state /\ tokens'[t].name = tokens[t].name /\ tokens'[t].bound = tokens[t].bound,
           \A t \in Tokens : tokens[t].expired /\ tokens[t].state # "unminted" => tokens'[t].expired,
           \A t \in Tokens : tokens'[t].state # tokens[t].state => tokens'[t].state = "live" /\ tokens'[t].name = Site,
           \A t \in Tokens : tokens[t].state = "unminted" => tokens'[t].state \in {"unminted", "live"}
    PROVE  SInv'
<1> USE DEF siteVars
<1>1. \A r \in Requests : EnrollsAt(r) => requests[r].token \in Tokens
    BY EnrollShape DEF IInv, EnrollsAt
<1>2. OneName'
    BY <1>1 DEF SInv, OneName, EnrollsAt, EnrollAt
<1>3. kept # Nil => kept.invite \in Tokens
    BY DEF SInv, SecretsOK, Pendings
<1>4. SecretsOK'
    BY <1>3 DEF SInv, SecretsOK
<1>5. StagesOK' /\ OwnRequest' /\ OneRenewal' /\ NoFork'
    BY DEF SInv, StagesOK, OwnRequest, OneRenewal, NoFork, Follows, RenewsAt, EnrollsAt
<1>6. \A t \in Tokens : Dead(t) => Dead(t)'
    BY DEF Dead, Usable, Locked
<1>7. \A t \in Tokens, k \in Keys : Hopeless(t, k) => Hopeless(t, k)'
    BY <1>6 DEF Hopeless
<1>8. kept # Nil => kept.key \in Keys
    BY DEF SInv, SecretsOK, Pendings
<1>9. Honest'
    BY <1>3, <1>6, <1>7, <1>8 DEF SInv, Honest, NoOther, Uncertified, EnrollsAt, StagesOK
<1> QED
    BY <1>2, <1>4, <1>5, <1>9 DEF SInv

LEMMA MintCommitSite ==
    ASSUME IInv, SInv, NEW m \in Minters, MintCommit(m), UNCHANGED siteVars
    PROVE  SInv'
<1> DEFINE t == mints[m].token
<1>1. t \in Tokens /\ tokens[t].state = "unminted" /\ mints[m].name = Site
    BY DEF MintCommit, SInv, OneName, IInv, TypeOK, MintsOK, Mints
<1>2. /\ tokens'[t].state = "live" /\ tokens'[t].name = Site
      /\ \A u \in Tokens \ {t} : tokens'[u] = tokens[u]
      /\ \A o \in Minters : mints'[o] # Nil => mints'[o].name = Site
    BY <1>1 DEF MintCommit, SInv, OneName, IInv, TypeOK
<1> HIDE DEF t
<1>3. UNCHANGED <<enrollments, enrolledKeys, deletedNames, requests, seeds, clock, certs>>
    BY DEF MintCommit
<1>4. \A u \in Tokens : tokens[u].state # "unminted" => tokens'[u] = tokens[u]
    BY <1>1, <1>2
<1>5. \A u \in Tokens : tokens[u].state = "unminted" => tokens'[u].state \in {"unminted", "live"}
    BY <1>1, <1>2
<1>6. \A u \in Tokens : tokens'[u].state # tokens[u].state => tokens'[u].state = "live" /\ tokens'[u].name = Site
    BY <1>1, <1>2
<1> QED
    BY <1>2, <1>3, <1>4, <1>5, <1>6, RowStep

LEMMA ExpireSite ==
    ASSUME IInv, SInv, NEW t \in Tokens, Expire(t), UNCHANGED siteVars
    PROVE  SInv'
<1>1. \A u \in Tokens : /\ tokens'[u].state = tokens[u].state /\ tokens'[u].name = tokens[u].name
                        /\ tokens'[u].bound = tokens[u].bound /\ (tokens[u].expired => tokens'[u].expired)
    BY DEF Expire, IInv, TypeOK, TokenRows
<1>2. UNCHANGED <<enrollments, enrolledKeys, deletedNames, mints, requests, seeds, clock, certs>>
    BY DEF Expire
<1>3. \A m \in Minters : mints'[m] # Nil => mints'[m].name = Site
    BY <1>2 DEF SInv, OneName
<1>4. \A u \in Tokens : tokens[u].state = "unminted" => tokens'[u].state \in {"unminted", "live"}
    BY <1>1
<1> QED
    BY <1>1, <1>2, <1>3, <1>4, RowStep

\* Nothing is in service when the record goes.
LEMMA AdminDeleteSite ==
    ASSUME IInv, SInv, AdminDelete
    PROVE  SInv'
<1>1. /\ \A r \in Requests : requests[r] = Nil
      /\ UNCHANGED <<tokens, enrolledKeys, mints, requests, seeds, clock, certs>> /\ UNCHANGED siteVars
    BY DEF AdminDelete, DeleteEnrollment, Quiet
<1>2. enrollments'[Site] = Nil
    BY SiteAssumption DEF AdminDelete, DeleteEnrollment, IInv, TypeOK
<1> USE DEF siteVars
<1>3. OneName' /\ SecretsOK' /\ StagesOK'
    BY <1>1 DEF SInv, OneName, SecretsOK, StagesOK, EnrollsAt, EnrollAt
<1>4. OwnRequest' /\ OneRenewal' /\ NoFork'
    BY <1>1, <1>2 DEF SInv, StagesOK, OwnRequest, OneRenewal, NoFork, Follows, RenewsAt, EnrollsAt
<1>5. Honest'
    BY <1>1 DEF SInv, StagesOK, Honest, NoOther, Uncertified, Dead, Usable, Locked, EnrollsAt, SentStages
<1> QED
    BY <1>3, <1>4, <1>5 DEF SInv

LEMMA DueStep ==
    ASSUME IInv, SInv, BecomeDue
    PROVE  SInv'
<1>1. /\ \A r \in Requests : requests[r] = Nil
      /\ UNCHANGED <<tokens, enrollments, enrolledKeys, deletedNames, mints, requests, seeds, certs>>
      /\ UNCHANGED <<invite, kept, identity, op, failed, identified, losses, rejected>>
      /\ identity # Nil /\ clock' = clock + 1
    BY DEF BecomeDue, Quiet
<1>2. /\ clock \in Nat /\ \A c \in certs : c.notBefore \in Nat
      /\ op.stage \in RenewStages => op.held.leaf.notBefore \in Nat
    BY StoreBoundsAssumption DEF IInv, TypeOK, Times, Certs, SInv, StagesOK
<1>3. OneName' /\ SecretsOK' /\ StagesOK'
    BY <1>1, <1>2 DEF SInv, OneName, SecretsOK, StagesOK, EnrollsAt, EnrollAt
<1>4. OwnRequest' /\ OneRenewal' /\ NoFork'
    BY <1>1 DEF SInv, StagesOK, OwnRequest, OneRenewal, NoFork, Follows, RenewsAt, EnrollsAt
<1>5. Honest'
    BY <1>1 DEF SInv, StagesOK, Honest, NoOther, Uncertified, Dead, Usable, Locked, EnrollsAt, SentStages
<1> QED
    BY <1>3, <1>4, <1>5 DEF SInv

-----------------------------------------------------------------------------
(* Steps of the service. *)

\* One slot changes: its request ends, is refused, or goes on.
OnlySlot(r) ==
    /\ requests[r] # Nil
    /\ \A q \in Requests \ {r} : requests'[q] = requests[q]
Ends(r) == requests'[r] = Nil
Refused(r) == requests'[r].kind = "answer" /\ requests'[r].result # "Issued"
GoesOn(r) ==
    /\ EnrollsAt(r)
    /\ requests'[r].kind = "enroll" /\ requests'[r].token = requests[r].token /\ requests'[r].key = requests[r].key
    /\ requests'[r].stage = "inserted" => tokens[requests[r].token].bound \in {Nil, requests[r].key}

LEMMA SlotSite ==
    ASSUME SInv, NEW r \in Requests, OnlySlot(r), Ends(r) \/ Refused(r) \/ GoesOn(r),
           UNCHANGED <<tokens, enrollments, enrolledKeys, deletedNames, mints, seeds, clock, certs>>, UNCHANGED siteVars
    PROVE  OneName' /\ SecretsOK' /\ StagesOK' /\ OwnRequest' /\ OneRenewal' /\ NoFork'
<1> USE DEF siteVars, OnlySlot, Ends, Refused, GoesOn
<1>1. OneName'
    BY DEF SInv, OneName, EnrollsAt, EnrollAt
<1>2. SecretsOK' /\ StagesOK'
    BY DEF SInv, SecretsOK, StagesOK
<1>3. OwnRequest'
    BY DEF SInv, OwnRequest, EnrollsAt, StagesOK
<1>4. OneRenewal' /\ NoFork'
    BY DEF SInv, OneRenewal, NoFork, Follows, RenewsAt, EnrollsAt
<1> QED
    BY <1>1, <1>2, <1>3, <1>4

\* What the answer to an enrollment tells of its token and its key.
Verdict(result, t, k) ==
    \/ result = "Issued"
    \/ result = "TokenInvalid" /\ Dead(t)
    \/ result \notin {"Issued", "TokenInvalid"} /\ Uncertified(t, k) /\ Hopeless(t, k)

\* What the operator concluded stays true when one request of the service moves
\* and is not granted an enrollment.
LEMMA HonestSlot ==
    ASSUME IInv, SInv, NEW r \in Requests, OnlySlot(r), Ends(r) \/ GoesOn(r) \/ requests'[r].kind = "answer",
           UNCHANGED siteVars, \A c \in certs' : c.via = "enroll" => c \in certs,
           \A t \in Tokens : Dead(t) => Dead(t)',
           \A t \in Tokens, k \in Keys : Hopeless(t, k) => Hopeless(t, k)',
           \A t, k, result : EnrollsAt(r) /\ requests[r].token = t /\ requests[r].key = k
                             /\ requests'[r] # Nil /\ requests'[r].kind = "answer" /\ requests'[r].result = result =>
              result # "Issued" /\ Verdict(result, t, k)',
           requests[r].kind = "answer" => Ends(r)
    PROVE  Honest'
<1> USE DEF siteVars, OnlySlot, Ends, GoesOn
<1>1. kept # Nil => kept.invite \in Tokens /\ kept.key \in Keys
    BY DEF SInv, SecretsOK, Pendings
<1>2. \A t, k : Uncertified(t, k) => Uncertified(t, k)'
    BY DEF Uncertified
<1>3. \A p \in rejected' : p[1] \in Tokens /\ Dead(p[1])' /\ Uncertified(p[1], p[2])'
    BY <1>2 DEF SInv, Honest
<1>4. \A q \in Requests : EnrollsAt(q)' => EnrollsAt(q) /\ requests'[q].token = requests[q].token /\ requests'[q].key = requests[q].key
    BY DEF EnrollsAt
<1>5. ASSUME NEW own, kept # Nil, NoOther(own) PROVE NoOther(own)'
    BY <1>1, <1>4, <1>5 DEF NoOther
<1>6. kept' # Nil /\ ~kept'.unanswered /\ kept'.issued = Nil => Uncertified(kept.invite, kept.key)' /\ NoOther({})'
    BY <1>2, <1>5 DEF SInv, Honest
<1>7. ASSUME op.stage = "enroll_sent", op.request # Nil, requests'[op.request] # Nil
      PROVE  LET q == requests'[op.request] IN
             /\ ~op.resent /\ (q.kind = "enroll" \/ q.result # "Issued") =>
                    Uncertified(kept.invite, kept.key)' /\ NoOther({op.request})'
             /\ q.kind = "answer" /\ q.result = "TokenInvalid" => Dead(kept.invite)'
             /\ q.kind = "answer" /\ q.result \notin {"Issued", "TokenInvalid"} =>
                    Uncertified(kept.invite, kept.key)' /\ Hopeless(kept.invite, kept.key)'
    <2>1. kept # Nil /\ op.request \in Requests
        BY <1>7 DEF SInv, StagesOK, SentStages
    <2>2. requests[op.request] # Nil
        BY <1>7, <2>1
    <2>3. CASE op.request # r
        BY <1>1, <1>2, <1>5, <1>7, <2>1, <2>2, <2>3 DEF SInv, Honest
    <2>4. CASE op.request = r /\ EnrollsAt(r)
        <3>1. requests[r].token = kept.invite /\ requests[r].key = kept.key
            BY <1>7, <2>2, <2>4 DEF SInv, OwnRequest, SentStages, EnrollsAt
        <3>2. ~op.resent => Uncertified(kept.invite, kept.key)' /\ NoOther({op.request})'
            BY <1>2, <1>5, <1>7, <2>1, <2>2, <2>4 DEF SInv, Honest, EnrollsAt
        <3>3. requests'[r].kind \in {"enroll", "answer"}
            BY <1>7, <2>4
        <3>4. ASSUME requests'[r].kind = "answer", NEW result, requests'[r].result = result
              PROVE  result # "Issued" /\ Verdict(result, kept.invite, kept.key)'
            <4>1. \A t, k : t = kept.invite /\ k = kept.key => result # "Issued" /\ Verdict(result, t, k)'
                BY <1>7, <2>4, <3>1, <3>4
            <4> QED
                BY <4>1 DEF Verdict
        <3> QED
            BY <2>4, <3>2, <3>3, <3>4 DEF Verdict
    <2>5. CASE op.request = r /\ ~EnrollsAt(r)
        <3>1. requests[r].kind = "answer"
            <4>1. requests[r].kind # "renew"
                BY <1>7, <2>2, <2>5 DEF SInv, OwnRequest, SentStages
            <4>2. requests[r].kind \in {"enroll", "renew", "answer"}
                BY <2>2, <2>5 DEF IInv, TypeOK, EnrollRequests, RenewRequests, Answers
            <4> QED
                BY <2>2, <2>5, <4>1, <4>2 DEF EnrollsAt
        <3> QED
            BY <3>1, <1>7, <2>5
    <2> QED
        BY <2>3, <2>4, <2>5
<1> QED
    BY <1>3, <1>6, <1>7 DEF Honest

LEMMA FinishSite ==
    ASSUME IInv, SInv, NEW r \in Requests, Finish(r), UNCHANGED siteVars
    PROVE  SInv'
<1>1. /\ OnlySlot(r) /\ Ends(r) /\ requests'[r] = Nil
      /\ UNCHANGED <<tokens, enrollments, enrolledKeys, deletedNames, mints, seeds, clock, certs>>
    BY DEF Finish, OnlySlot, Ends, IInv, TypeOK
<1>2. OneName' /\ SecretsOK' /\ StagesOK' /\ OwnRequest' /\ OneRenewal' /\ NoFork'
    BY <1>1, SlotSite
<1>3. \A t \in Tokens : Dead(t) => Dead(t)'
    BY <1>1 DEF Dead, Usable, Locked, OnlySlot
<1>4. \A t \in Tokens, k \in Keys : Hopeless(t, k) => Hopeless(t, k)'
    BY <1>1, <1>3 DEF Hopeless
<1>5. Honest'
    BY <1>1, <1>3, <1>4, HonestSlot
<1> QED
    BY <1>2, <1>5 DEF SInv

\* A refusal, with what it tells.
LEMMA RefusedSite ==
    ASSUME IInv, SInv, NEW r \in Requests, requests[r] # Nil, requests[r].kind # "answer",
           NEW result, result # "Issued", Refuse(r, result),
           UNCHANGED <<tokens, enrollments, enrolledKeys, deletedNames, mints, seeds, clock, certs>>, UNCHANGED siteVars,
           EnrollsAt(r) => Verdict(result, requests[r].token, requests[r].key)
    PROVE  SInv'
<1>1. OnlySlot(r) /\ requests'[r].kind = "answer" /\ requests'[r].result = result
    BY DEF Refuse, OnlySlot, IInv, TypeOK
<1>2. OneName' /\ SecretsOK' /\ StagesOK' /\ OwnRequest' /\ OneRenewal' /\ NoFork'
    BY <1>1, SlotSite DEF Refused
<1>3. \A t : Dead(t) => Dead(t)'
    BY <1>1 DEF Dead, Usable, Locked, OnlySlot
<1>4. \A t, k : Hopeless(t, k) => Hopeless(t, k)'
    BY <1>3 DEF Hopeless
<1>5. \A t, k : Uncertified(t, k) => Uncertified(t, k)'
    BY DEF Uncertified
<1>6. \A t, k : EnrollsAt(r) /\ requests[r].token = t /\ requests[r].key = k => Verdict(result, t, k)'
    BY <1>3, <1>4, <1>5 DEF Verdict
<1>7. Honest'
    BY <1>1, <1>3, <1>4, <1>6, HonestSlot
<1> QED
    BY <1>2, <1>7 DEF SInv

\* A token that is still live bought nothing yet.
LEMMA LiveUncertified ==
    ASSUME IInv, NEW t, tokens[t].state = "live", NEW k
    PROVE  Uncertified(t, k)
BY DEF IInv, CertsOK, Uncertified

\* The request goes on: its token, which it locks, was not dead.
LEMMA GoesOnSite ==
    ASSUME IInv, SInv, NEW r \in Requests, EnrollsAt(r), NEW stage, requests' = [requests EXCEPT ![r].stage = stage],
           stage = "inserted" => tokens[requests[r].token].bound \in {Nil, requests[r].key},
           Usable(requests[r].token) \/ Locked(requests[r].token),
           UNCHANGED <<tokens, enrollments, enrolledKeys, deletedNames, mints, seeds, clock, certs>>, UNCHANGED siteVars
    PROVE  SInv'
<1>1. requests[r] \in EnrollRequests
    BY EnrollShape DEF IInv, EnrollsAt
<1>2. /\ OnlySlot(r) /\ requests'[r].kind = "enroll" /\ requests'[r].stage = stage
      /\ requests'[r].token = requests[r].token /\ requests'[r].key = requests[r].key
    BY <1>1 DEF EnrollRequests, EnrollsAt, OnlySlot, IInv, TypeOK
<1>3. GoesOn(r)
    BY <1>2 DEF GoesOn
<1>4. OneName' /\ SecretsOK' /\ StagesOK' /\ OwnRequest' /\ OneRenewal' /\ NoFork'
    BY <1>2, <1>3, SlotSite
<1>5. \A t : Dead(t) => Dead(t)'
    BY <1>2 DEF Dead, Usable, Locked, OnlySlot
<1>6. \A t, k : Hopeless(t, k) => Hopeless(t, k)'
    BY <1>5 DEF Hopeless
<1>7. Honest'
    BY <1>2, <1>3, <1>5, <1>6, HonestSlot DEF EnrollsAt
<1> QED
    BY <1>4, <1>7 DEF SInv

LEMMA ConsumeSite ==
    ASSUME IInv, SInv, NEW r \in Requests, Consume(r), UNCHANGED siteVars
    PROVE  SInv'
<1>1. EnrollsAt(r) /\ requests[r].kind # "answer"
    BY DEF Consume, EnrollAt, EnrollsAt
<1>2. UNCHANGED <<tokens, enrollments, enrolledKeys, deletedNames, mints, seeds, clock, certs>>
    BY DEF Consume
<1>3. CASE Usable(requests[r].token) /\ requests' = [requests EXCEPT ![r].stage = "consumed"]
    BY <1>1, <1>2, <1>3, GoesOnSite
<1>4. CASE ~Usable(requests[r].token) /\ Refuse(r, "TokenInvalid")
    <2>1. Dead(requests[r].token)
        BY <1>1, <1>4 DEF Consume, Dead, SInv, OneName
    <2> QED
        BY <1>1, <1>2, <1>4, <2>1, RefusedSite DEF Verdict, EnrollsAt
<1> QED
    BY <1>3, <1>4 DEF Consume

\* A request past its first statement locks a live token of the site's name.
LEMMA HolderFacts ==
    ASSUME IInv, SInv, NEW r \in Requests, Holds(r)
    PROVE  LET t == requests[r].token IN
           /\ EnrollsAt(r) /\ requests[r].kind # "answer" /\ t \in Tokens /\ requests[r].key \in Keys
           /\ tokens[t].state = "live" /\ tokens[t].name = Site /\ Site \notin Reserved
           /\ Locked(t) /\ \A k : Uncertified(t, k)
<1>1. EnrollsAt(r) /\ requests[r].kind # "answer"
    BY DEF Holds, EnrollAt, EnrollsAt
<1>2. requests[r].token \in Tokens /\ requests[r].key \in Keys
    BY <1>1, EnrollShape DEF IInv, EnrollsAt
<1>3. tokens[requests[r].token].state = "live"
    BY DEF IInv, RedemptionsOK
<1>4. tokens[requests[r].token].name = Site
    BY <1>2, <1>3 DEF SInv, OneName
<1>5. Locked(requests[r].token)
    BY <1>1 DEF Holds, EnrollAt, Locked
<1> QED
    BY <1>1, <1>2, <1>3, <1>4, <1>5, LiveUncertified, SiteAssumption

LEMMA InsertSite ==
    ASSUME IInv, SInv, NEW r \in Requests, SignAndInsert(r), UNCHANGED siteVars
    PROVE  SInv'
<1> DEFINE t == requests[r].token
           k == requests[r].key
           signed == tokens[t].name \notin Reserved /\ tokens[t].bound \in {Nil, k}
<1>1. Holds(r)
    BY DEF SignAndInsert, Holds
<1>2. /\ EnrollsAt(r) /\ requests[r].kind # "answer" /\ tokens[t].state = "live" /\ tokens[t].name = Site
      /\ Site \notin Reserved /\ Locked(t) /\ Uncertified(t, k)
    BY <1>1, HolderFacts
<1>3. UNCHANGED <<tokens, enrollments, enrolledKeys, deletedNames, mints, seeds, clock, certs>>
    BY DEF SignAndInsert
<1>4. ASSUME NEW result, result \notin {"Issued", "TokenInvalid"}, Refuse(r, result), Hopeless(t, k)
      PROVE  SInv'
    <2>1. Verdict(result, t, k)
        BY <1>2, <1>4 DEF Verdict
    <2> QED
        BY <1>2, <1>3, <1>4, <2>1, RefusedSite DEF EnrollsAt
<1>5. CASE ~signed /\ Refuse(r, IF tokens[t].name \in Reserved THEN "NameTaken" ELSE "KeyMismatch")
    <2>1. Refuse(r, "KeyMismatch") /\ Hopeless(t, k)
        BY <1>2, <1>5 DEF Hopeless
    <2> QED
        BY <1>4, <2>1
<1>6. CASE signed /\ enrollments[tokens[t].name] # Nil /\ Refuse(r, "NameTaken")
    <2>1. Hopeless(t, k)
        BY <1>2, <1>6 DEF Hopeless
    <2> QED
        BY <1>4, <1>6, <2>1
<1>7. CASE signed /\ requests' = [requests EXCEPT ![r].stage = "inserted"]
    BY <1>2, <1>3, <1>7, GoesOnSite
<1> QED
    BY <1>5, <1>6, <1>7 DEF SignAndInsert

\* The forfeited token was locked by this request alone, and is dead now.
LEMMA ForfeitSite ==
    ASSUME IInv, SInv, NEW r \in Requests, NEW t, NEW k, t = requests[r].token, k = requests[r].key,
           EnrollAt(r, "inserted"), Forfeit(r, t),
           UNCHANGED <<deletedNames, mints, seeds, clock>>, UNCHANGED siteVars
    PROVE  SInv'
<1>1. Holds(r)
    BY DEF Holds
<1>2. /\ EnrollsAt(r) /\ requests[r].kind # "answer" /\ t \in Tokens /\ tokens[t].state = "live"
      /\ Locked(t) /\ Uncertified(t, k)
    BY <1>1, HolderFacts
<1>3. /\ tokens'[t].state = "gone" /\ \A u \in Tokens \ {t} : tokens'[u] = tokens[u]
      /\ UNCHANGED <<enrollments, enrolledKeys, certs>>
    BY <1>2 DEF Forfeit, NoRow, IInv, TypeOK
<1>4. OnlySlot(r) /\ requests'[r].kind = "answer" /\ requests'[r].result = "NameDeleted"
    BY <1>2 DEF Forfeit, Refuse, OnlySlot, EnrollsAt, IInv, TypeOK
<1>5. \A q \in Requests \ {r} : EnrollAt(q, "consumed") \/ EnrollAt(q, "inserted") => requests[q].token # t
    BY <1>1 DEF IInv, RedemptionsOK, Holds
<1>6. \A q \in Requests : EnrollsAt(q) => requests[q].token \in Tokens
    BY EnrollShape DEF IInv, EnrollsAt
<1>7. OneName'
    BY <1>2, <1>3, <1>4, <1>5, <1>6 DEF SInv, OneName, EnrollsAt, EnrollAt, OnlySlot
<1>8. kept # Nil => kept.invite \in Tokens
    BY DEF SInv, SecretsOK, Pendings
<1> USE DEF siteVars
<1>9. SecretsOK' /\ StagesOK'
    BY <1>3, <1>8 DEF SInv, SecretsOK, StagesOK
<1>10. OwnRequest'
    BY <1>3, <1>4 DEF SInv, OwnRequest, StagesOK, OnlySlot
<1>11. OneRenewal' /\ NoFork'
    BY <1>3, <1>4 DEF SInv, OneRenewal, NoFork, Follows, RenewsAt, EnrollsAt, OnlySlot
<1>12. Dead(t)'
    <2>1. ~Locked(t)'
        BY <1>4, <1>5 DEF Locked, EnrollAt, OnlySlot
    <2> QED
        BY <1>3, <2>1 DEF Dead, Usable
<1>13. \A u \in Tokens : Dead(u) => Dead(u)'
    BY <1>2, <1>3, <1>4 DEF Dead, Usable, Locked, OnlySlot
<1>14. \A u \in Tokens, x \in Keys : Hopeless(u, x) => Hopeless(u, x)'
    BY <1>3, <1>12, <1>13 DEF Hopeless
<1>15. Verdict("NameDeleted", t, k)'
    BY <1>2, <1>3, <1>12 DEF Verdict, Uncertified, Hopeless
<1>16. Honest'
    BY <1>2, <1>3, <1>4, <1>13, <1>14, <1>15, HonestSlot
<1> QED
    BY <1>7, <1>9, <1>10, <1>11, <1>16 DEF SInv

\* A first certificate: nobody holds a leaf of the new record yet, and leaves of
\* a deleted one are older.  Nobody was told that this request would fail.
LEMMA IssueSite ==
    ASSUME IInv, SInv, NEW r \in Requests, NEW t, NEW k, t = requests[r].token, k = requests[r].key,
           EnrollAt(r, "inserted"), enrolledKeys[k] = Nil, Issue(r, t, Site, k),
           UNCHANGED <<deletedNames, mints, seeds, clock>>, UNCHANGED siteVars
    PROVE  SInv'
<1> DEFINE c == [name |-> Site, key |-> k, notBefore |-> clock, token |-> t, via |-> "enroll"]
<1>1. Holds(r)
    BY DEF Holds
<1>2. /\ EnrollsAt(r) /\ requests[r].kind # "answer" /\ t \in Tokens /\ k \in Keys /\ tokens[t].state = "live"
      /\ tokens[t].name = Site /\ Locked(t)
    BY <1>1, HolderFacts
<1>3. enrollments[Site] = Nil /\ tokens[t].bound \in {Nil, k}
    BY <1>2 DEF IInv, RedemptionsOK, SInv, OneName
<1>4. /\ tokens'[t].state = "spent" /\ tokens'[t].name = Site /\ tokens'[t].bound = tokens[t].bound
      /\ \A u \in Tokens \ {t} : tokens'[u] = tokens[u]
    BY <1>2 DEF Issue, IInv, TypeOK, TokenRows
<1>5. enrollments'[Site] = NewRecord(k, t) /\ NewRecord(k, t).key = k /\ NewRecord(k, t).epoch = clock
    BY SiteAssumption DEF Issue, NewRecord, IInv, TypeOK
<1>6. NewRecord(k, t) # Nil
    <2>1. clock \in Times
        BY DEF IInv, TypeOK
    <2>2. NewRecord(k, t) \in Records
        BY <1>2, <2>1 DEF NewRecord, Records
    <2> QED
        BY <2>2, RecordsAssumption
<1>7. /\ OnlySlot(r) /\ requests'[r].kind = "answer" /\ requests'[r].result = "Issued" /\ requests'[r].cert = c
      /\ certs' = certs \cup {c}
    BY <1>2 DEF Issue, Grant, OnlySlot, EnrollsAt, IInv, TypeOK
<1>8. c.name = Site /\ c.key = k /\ c.notBefore = clock /\ c.token = t /\ c.via = "enroll"
    OBVIOUS
<1> HIDE DEF c
<1>9. \A q \in Requests : EnrollsAt(q) => requests[q].token \in Tokens
    BY EnrollShape DEF IInv, EnrollsAt
<1>10. clock \in Nat
    BY StoreBoundsAssumption DEF IInv, TypeOK, Times
<1>11. OneName'
    <2>1. \A u \in Tokens : /\ tokens'[u].state \in {"live", "spent"} => tokens'[u].name = Site
                            /\ tokens[u].state # "unminted" => tokens'[u].state # "unminted"
                            /\ tokens'[u].bound = tokens[u].bound
        BY <1>2, <1>4 DEF SInv, OneName
    <2>2. \A d \in certs' : d.name = Site /\ d.notBefore <= clock /\ d.via # "seed"
        BY <1>7, <1>8, <1>10 DEF SInv, OneName
    <2> QED
        BY <1>7, <1>9, <2>1, <2>2 DEF SInv, OneName, EnrollsAt, EnrollAt, OnlySlot
<1>12. kept # Nil => kept.invite \in Tokens /\ kept.key \in Keys
    BY DEF SInv, SecretsOK, Pendings
<1> USE DEF siteVars
<1>13. SecretsOK' /\ StagesOK'
    BY <1>4, <1>7, <1>12 DEF SInv, SecretsOK, StagesOK
<1>14. OwnRequest'
    BY <1>2, <1>3, <1>5, <1>6, <1>7, <1>8 DEF SInv, OwnRequest, StagesOK, OnlySlot, EnrollsAt
<1>15. OneRenewal'
    BY <1>7 DEF SInv, OneRenewal, RenewsAt, OnlySlot
<1>16. NoFork'
    <2>1. identity = Nil /\ ~(kept # Nil /\ kept.issued # Nil)
        BY <1>2, <1>3 DEF SInv, NoFork
    <2>2. \A leaf, x : leaf.notBefore < clock => Follows(leaf, x)'
        BY <1>5 DEF Follows
    <2>3. \A q \in Requests : RenewsAt(q)' => Follows(requests[q].leaf, requests[q].key)'
        BY <1>7, <2>2 DEF SInv, OneRenewal, RenewsAt, OnlySlot
    <2>4. op.stage \in RenewStages => Follows(op.held.leaf, op.held.pending)'
        BY <2>2 DEF SInv, StagesOK
    <2> QED
        BY <1>5, <1>6, <2>1, <2>3, <2>4 DEF NoFork
<1>17. \A u \in Tokens : Dead(u) => Dead(u)' /\ u # t
    BY <1>2, <1>4, <1>7 DEF Dead, Usable, Locked, OnlySlot
<1>18. ~Hopeless(t, k)
    BY <1>2, <1>3 DEF Hopeless, Dead
<1>19. \A u, x : Hopeless(u, x)'
    BY <1>5, <1>6 DEF Hopeless
<1>20. \A u, x : Uncertified(u, x) /\ ~(u = t /\ x = k) => Uncertified(u, x)'
    BY <1>7, <1>8 DEF Uncertified
<1>21. Honest'
    <2>1. \A p \in rejected : p[1] \in Tokens /\ Dead(p[1])' /\ Uncertified(p[1], p[2])'
        BY <1>17, <1>20 DEF SInv, Honest
    <2>2. \A own : NoOther(own)'
        BY <1>19 DEF NoOther
    <2>3. \A own : r \notin own /\ NoOther(own) => ~(kept.invite = t /\ kept.key = k)
        BY <1>2, <1>18 DEF NoOther
    <2>4. kept # Nil /\ ~kept.unanswered /\ kept.issued = Nil => Uncertified(kept.invite, kept.key)'
        BY <1>20, <2>3 DEF SInv, Honest
    <2>5. ASSUME op.stage = "enroll_sent", op.request # Nil, requests'[op.request] # Nil
          PROVE  LET q == requests'[op.request] IN
                 /\ ~op.resent /\ (q.kind = "enroll" \/ q.result # "Issued") => Uncertified(kept.invite, kept.key)'
                 /\ q.kind = "answer" /\ q.result = "TokenInvalid" => Dead(kept.invite)'
                 /\ q.kind = "answer" /\ q.result \notin {"Issued", "TokenInvalid"} => Uncertified(kept.invite, kept.key)'
        <3>1. kept # Nil /\ op.request \in Requests
            BY <2>5 DEF SInv, StagesOK, SentStages
        <3>2. CASE op.request = r
            BY <1>7, <3>2
        <3>3. CASE op.request # r
            <4>1. requests'[op.request] = requests[op.request]
                BY <1>7, <3>1, <3>3 DEF OnlySlot
            <4>2. \A q : q = requests[op.request] =>
                    /\ ~op.resent /\ (q.kind = "enroll" \/ q.result # "Issued") =>
                           Uncertified(kept.invite, kept.key) /\ NoOther({op.request})
                    /\ q.kind = "answer" /\ q.result = "TokenInvalid" => Dead(kept.invite)
                    /\ q.kind = "answer" /\ q.result \notin {"Issued", "TokenInvalid"} =>
                           Uncertified(kept.invite, kept.key) /\ Hopeless(kept.invite, kept.key)
                BY <2>5, <4>1 DEF SInv, Honest
            <4>3. NoOther({op.request}) => ~(kept.invite = t /\ kept.key = k)
                BY <2>3, <3>3
            <4>4. Hopeless(kept.invite, kept.key) => ~(kept.invite = t /\ kept.key = k)
                BY <1>18
            <4>5. Uncertified(kept.invite, kept.key) /\ ~(kept.invite = t /\ kept.key = k) =>
                    Uncertified(kept.invite, kept.key)'
                BY <1>20
            <4> QED
                BY <1>12, <1>17, <3>1, <4>1, <4>2, <4>3, <4>4, <4>5
        <3> QED
            BY <3>2, <3>3
    <2> QED
        BY <1>19, <2>1, <2>2, <2>4, <2>5 DEF Honest
<1> QED
    BY <1>11, <1>13, <1>14, <1>15, <1>16, <1>21 DEF SInv

LEMMA CommitSite ==
    ASSUME IInv, SInv, NEW r \in Requests, CommitEnroll(r), UNCHANGED siteVars
    PROVE  SInv'
<1>1. EnrollAt(r, "inserted") /\ Holds(r) /\ UNCHANGED <<deletedNames, mints, seeds, clock>>
    BY DEF CommitEnroll, Holds
<1>2. /\ EnrollsAt(r) /\ requests[r].kind # "answer" /\ tokens[requests[r].token].name = Site
      /\ Uncertified(requests[r].token, requests[r].key)
    BY <1>1, HolderFacts
<1>3. CASE Forfeit(r, requests[r].token)
    BY <1>1, <1>3, ForfeitSite
<1>4. CASE enrolledKeys[requests[r].key] # Nil /\ RefuseReused(r)
    <2>1. Verdict("KeyReused", requests[r].token, requests[r].key)
        BY <1>2, <1>4 DEF Verdict, Hopeless
    <2> QED
        BY <1>1, <1>2, <1>4, <2>1, RefusedSite DEF RefuseReused, EnrollsAt
<1>5. CASE enrolledKeys[requests[r].key] = Nil /\ Issue(r, requests[r].token, Site, requests[r].key)
    BY <1>1, <1>5, IssueSite
<1> QED
    BY <1>2, <1>3, <1>4, <1>5 DEF CommitEnroll

\* A renewal in service presents a leaf of the site, which the record follows.
LEMMA RenewalFacts ==
    ASSUME IInv, SInv, NEW r \in Requests, RenewsAt(r)
    PROVE  /\ requests[r].leaf \in certs /\ requests[r].leaf.name = Site
           /\ Follows(requests[r].leaf, requests[r].key)
           /\ ~EnrollsAt(r) /\ requests[r].kind # "answer"
           /\ Decide(enrollments[Site], requests[r].leaf, requests[r].key) # "Forked"
<1>1. requests[r].leaf \in certs /\ requests[r].leaf.name = Site
    BY DEF IInv, CertsOK, SInv, OneName, RenewsAt
<1>2. Follows(requests[r].leaf, requests[r].key)
    BY DEF SInv, NoFork
<1>3. Decide(enrollments[Site], requests[r].leaf, requests[r].key) # "Forked"
    BY <1>2 DEF Follows, Decide
<1> QED
    BY <1>1, <1>2, <1>3 DEF EnrollsAt, RenewsAt

\* An admitted renewal certifies the record's key, old or new.
LEMMA GrantedSite ==
    ASSUME IInv, SInv, NEW r \in Requests, RenewsAt(r), NEW c, Grant(r, c),
           c.name = Site, c.key = requests[r].key, c.notBefore = clock, c.via = "renew",
           enrollments[Site] # Nil, enrollments'[Site] # Nil, enrollments'[Site].key = c.key,
           \A k \in Keys : enrolledKeys[k] # Nil => enrolledKeys'[k] # Nil, NoFork',
           op.stage \in SentStages /\ op.request # Nil /\ op.request # r /\ requests[op.request] # Nil
             /\ requests[op.request].kind = "answer" /\ requests[op.request].result = "Issued" =>
                 requests[op.request].cert.key = enrollments'[Site].key,
           UNCHANGED <<tokens, deletedNames, mints, seeds, clock>>, UNCHANGED siteVars
    PROVE  SInv'
<1>1. /\ OnlySlot(r) /\ requests'[r].kind = "answer" /\ requests'[r].result = "Issued" /\ requests'[r].cert = c
      /\ certs' = certs \cup {c}
    BY DEF Grant, OnlySlot, RenewsAt, IInv, TypeOK
<1>2. clock \in Nat
    BY StoreBoundsAssumption DEF IInv, TypeOK, Times
<1>3. OneName'
    BY <1>1, <1>2 DEF SInv, OneName, EnrollsAt, EnrollAt, OnlySlot
<1> USE DEF siteVars
<1>4. SecretsOK' /\ StagesOK'
    BY <1>1 DEF SInv, SecretsOK, StagesOK
<1>5. OwnRequest'
    <2>1. op.stage \in SentStages /\ op.request # Nil /\ op.request = r =>
             op.stage = "renew_sent" /\ requests[r].key = op.held.pending
        BY DEF SInv, OwnRequest, RenewsAt
    <2>2. op.stage \in SentStages /\ op.request # Nil => op.request \in Requests
        BY DEF SInv, StagesOK
    <2>3. CASE op.request = r
        BY <1>1, <2>1, <2>3 DEF OwnRequest
    <2>4. CASE op.request # r
        BY <1>1, <2>2, <2>4 DEF SInv, OwnRequest, OnlySlot
    <2> QED
        BY <2>3, <2>4
<1>6. OneRenewal'
    BY <1>1 DEF SInv, OneRenewal, RenewsAt, OnlySlot
<1>7. \A t : Dead(t) => Dead(t)'
    BY <1>1 DEF Dead, Usable, Locked, OnlySlot
<1>8. \A t \in Tokens, k \in Keys : Hopeless(t, k) => Hopeless(t, k)'
    BY <1>7 DEF Hopeless
<1>9. ~EnrollsAt(r) /\ requests[r].kind # "answer"
    BY DEF RenewsAt, EnrollsAt
<1>10. \A d \in certs' : d.via = "enroll" => d \in certs
    BY <1>1
<1>11. Honest'
    BY <1>1, <1>7, <1>8, <1>9, <1>10, HonestSlot
<1> QED
    BY <1>3, <1>4, <1>5, <1>6, <1>11 DEF SInv

\* The retry of a renewal that went through: the record stays.
LEMMA ResignSite ==
    ASSUME IInv, SInv, NEW r \in Requests, RenewsAt(r), NEW c, Grant(r, c),
           c.name = Site, c.key = requests[r].key, c.notBefore = clock, c.via = "renew",
           enrollments[Site] # Nil, enrollments[Site].key = c.key, 
           UNCHANGED <<enrollments, enrolledKeys, tokens, deletedNames, mints, seeds, clock>>, UNCHANGED siteVars
    PROVE  SInv'
<1>1. OnlySlot(r) /\ requests'[r].kind = "answer"
    BY DEF Grant, OnlySlot, RenewsAt, IInv, TypeOK
<1>2. NoFork'
    BY <1>1 DEF SInv, NoFork, Follows, RenewsAt, EnrollsAt, OnlySlot, siteVars
<1>3. op.stage \in SentStages /\ op.request # Nil /\ requests[op.request] # Nil
         /\ requests[op.request].kind = "answer" /\ requests[op.request].result = "Issued" =>
             requests[op.request].cert.key = enrollments'[Site].key
    BY DEF SInv, OwnRequest
<1> QED
    BY <1>2, <1>3, GrantedSite

\* The record moves on to the requested key.  What is in service, what the
\* operator is about to send and what it holds all carry on to that key; no
\* answer that was waited for is left behind.
LEMMA RotateSite ==
    ASSUME IInv, SInv, NEW r \in Requests, RenewsAt(r), NEW leaf, NEW k, leaf = requests[r].leaf, k = requests[r].key,
           NEW c, Grant(r, c), c.name = Site, c.key = k, c.notBefore = clock, c.via = "renew",
           enrollments[Site] # Nil, leaf.key = enrollments[Site].key,
           enrollments' = [enrollments EXCEPT ![Site] = [@ EXCEPT !.key = k, !.previous = leaf.key, !.recorded = clock]],
           enrolledKeys' = [enrolledKeys EXCEPT ![k] = Site],
           UNCHANGED <<tokens, deletedNames, mints, seeds, clock>>, UNCHANGED siteVars
    PROVE  SInv'
<1> DEFINE held == enrollments[Site]
           next == [held EXCEPT !.key = k, !.previous = leaf.key, !.recorded = clock]
<1>1. /\ leaf \in Certs /\ leaf.key \in Keys /\ k \in Keys /\ leaf.key # Nil /\ k # Nil
    BY RenewTypes DEF IInv
<1>2. held \in Records /\ clock \in Times
    BY SiteAssumption DEF IInv, TypeOK
<1>3. /\ next \in Records /\ next.key = k /\ next.previous = leaf.key /\ next.epoch = held.epoch
    BY <1>1, <1>2 DEF Records
<1>4. enrollments'[Site] = next /\ next # Nil
    BY <1>3, SiteAssumption, RecordsAssumption DEF IInv, TypeOK
<1> HIDE DEF next
<1>5. \A x \in Keys : enrolledKeys[x] # Nil => enrolledKeys'[x] # Nil
    BY SiteAssumption, NilAssumption DEF IInv, TypeOK
<1>6. OnlySlot(r) /\ requests'[r].kind = "answer"
    BY DEF Grant, OnlySlot, RenewsAt, IInv, TypeOK
<1> USE DEF siteVars
<1>7. /\ kept # Nil => leaf.key # kept.key
      /\ \A q \in Requests : RenewsAt(q) => requests[q].leaf = leaf /\ requests[q].key = k
      /\ op.stage \in RenewStages => op.held.leaf = leaf /\ op.held.pending = k
      /\ identity # Nil => /\ leaf.key = identity.leaf.key => k = identity.pending
                           /\ leaf.key # identity.pending
    BY DEF SInv, OneRenewal
<1>8. Follows(leaf, k)'
    BY <1>3, <1>4 DEF Follows
<1>9. NoFork'
    <2>1. \A q \in Requests : RenewsAt(q)' => Follows(requests[q].leaf, requests[q].key)'
        <3>1. \A q \in Requests : RenewsAt(q)' => requests'[q].leaf = leaf /\ requests'[q].key = k
            BY <1>6, <1>7 DEF RenewsAt, OnlySlot
        <3> QED
            BY <1>8, <3>1 DEF Follows
    <2>2. op.stage \in RenewStages => Follows(op.held.leaf, op.held.pending)'
        BY <1>7, <1>8 DEF Follows
    <2>3. identity # Nil => Follows(identity.leaf, identity.pending)'
        <3>1. identity # Nil => Follows(identity.leaf, identity.pending)
            BY DEF SInv, NoFork
        <3> QED
            BY <1>3, <1>4, <1>7, <3>1 DEF Follows
    <2>4. ~(kept # Nil /\ kept.issued # Nil)
        BY <1>7 DEF SInv, NoFork
    <2> QED
        BY <1>4, <2>1, <2>2, <2>3, <2>4 DEF NoFork
<1>10. ASSUME op.stage \in SentStages, op.request # Nil, requests[op.request] # Nil,
              requests[op.request].kind = "answer", requests[op.request].result = "Issued"
       PROVE  requests[op.request].cert.key = enrollments'[Site].key
    <2>1. requests[op.request].cert.key = leaf.key
        BY <1>10 DEF SInv, OwnRequest
    <2>2. CASE op.stage = "enroll_sent"
        BY <1>7, <1>10, <2>1, <2>2 DEF SInv, OwnRequest, StagesOK
    <2>3. CASE op.stage = "renew_sent"
        BY <1>7, <1>10, <2>1, <2>3 DEF SInv, OwnRequest, StagesOK, RenewStages
    <2> QED
        BY <1>10, <2>2, <2>3 DEF SentStages
<1> QED
    BY <1>3, <1>4, <1>5, <1>9, <1>10, GrantedSite

LEMMA RenewSite ==
    ASSUME IInv, SInv, NEW r \in Requests, Renew(r), UNCHANGED siteVars
    PROVE  SInv'
<1> DEFINE leaf == requests[r].leaf
           k == requests[r].key
           held == enrollments[Site]
           action == Decide(held, leaf, k)
           c == Renewed(leaf, k, held)
<1>1. RenewsAt(r) /\ UNCHANGED <<tokens, deletedNames, mints, seeds, clock>>
    BY DEF Renew, RenewsAt
<1>2. leaf.name = Site /\ ~EnrollsAt(r) /\ requests[r].kind # "answer" /\ action # "Forked"
    BY <1>1, RenewalFacts
<1>3. c.name = Site /\ c.key = k /\ c.notBefore = clock /\ c.via = "renew"
    BY <1>2 DEF Renewed
<1>4. CASE /\ action = "Rotate" /\ enrolledKeys' = [enrolledKeys EXCEPT ![k] = leaf.name]
           /\ enrollments' = [enrollments EXCEPT ![leaf.name] =
                                [@ EXCEPT !.key = k, !.previous = leaf.key, !.recorded = clock]]
           /\ Grant(r, c)
    <2>1. held # Nil /\ leaf.key = held.key
        BY <1>4 DEF Decide
    <2> QED
        BY <1>1, <1>2, <1>3, <1>4, <2>1, RotateSite
<1>5. CASE action = "Resign" /\ Grant(r, c) /\ UNCHANGED <<enrollments, enrolledKeys>>
    <2>1. held # Nil /\ k = held.key
        BY <1>5 DEF Decide
    <2> QED
        BY <1>1, <1>3, <1>5, <2>1, ResignSite
<1>6. CASE Refuse(r, "Refused") /\ UNCHANGED <<enrollments, enrolledKeys, certs>>
    BY <1>1, <1>2, <1>6, RefusedSite DEF RenewsAt
<1> QED
    BY <1>2, <1>4, <1>5, <1>6 DEF Renew

-----------------------------------------------------------------------------
(* The site's invariant and what it gives *)

LEMMA SiteInvInit == SiteInit => IInv /\ SInv /\ NeverFreezesItself
<1> SUFFICES ASSUME SiteInit PROVE IInv /\ SInv /\ NeverFreezesItself
    OBVIOUS
<1>1. StoreInit
    BY DEF SiteInit
<1>2. IInv
    BY <1>1, InvInit
<1>3. /\ \A t \in Tokens : tokens[t].state = "unminted"
      /\ \A r \in Requests : requests[r] = Nil
      /\ \A m \in Minters : mints[m] = Nil
      /\ seeds = {} /\ certs = {} /\ enrollments[Site] = Nil
    BY <1>1, SiteAssumption DEF StoreInit, NoRow
<1>4. /\ invite = Nil /\ kept = Nil /\ identity = Nil /\ due = FALSE /\ identified = FALSE /\ rejected = {}
      /\ op.stage = "idle"
    BY DEF SiteInit, Idle
<1>5. OneName /\ SecretsOK /\ StagesOK
    BY <1>3, <1>4 DEF OneName, SecretsOK, StagesOK, EnrollsAt, EnrollAt, RenewStages, SentStages
<1>6. OwnRequest /\ OneRenewal /\ NoFork /\ Honest
    BY <1>3, <1>4 DEF OwnRequest, OneRenewal, NoFork, Honest, RenewsAt, RenewStages, SentStages
<1> QED
    BY <1>2, <1>3, <1>5, <1>6 DEF SInv, NeverFreezesItself

LEMMA OperatorStep ==
    ASSUME IInv, SInv, Operator
    PROVE  SInv'
<1>1. CASE EnrollStart \/ StoreIdentity \/ Present \/ RenewStart
    BY <1>1, EnrollStartStep, StoreStep, PresentStep, RenewStartStep
<1>2. CASE EnrollIssued \/ EnrollRefused \/ RenewIssued \/ RenewRefused
    BY <1>2, EnrollIssuedStep, EnrollRefusedStep, RenewIssuedStep, RenewRefusedStep
<1>3. ASSUME NEW r \in Arrivals, EnrollSend(r) \/ RenewSend(r) PROVE SInv'
    BY <1>3, ArrivesSomewhere, EnrollSendStep, EnrollLostStep, RenewSendStep, RenewLostStep
<1>4. CASE GiveUp \/ Interrupt \/ Crash \/ LeaveForInvite
    BY <1>4, IdleStep DEF GiveUp, Interrupt, Crash, LeaveForInvite, Restarted
<1> QED
    BY <1>1, <1>2, <1>3, <1>4 DEF Operator

LEMMA SiteStep ==
    ASSUME IInv, SInv, SiteNext
    PROVE  SInv'
<1>1. CASE Operator
    BY <1>1, OperatorStep
<1>2. CASE Service
    BY <1>2, ConsumeSite, InsertSite, CommitSite, RenewSite, FinishSite DEF Service, ServeStep
<1>3. CASE Admin
    BY <1>3, MintCheckSite, MintCommitSite, ExpireSite, AdminDeleteSite, InviteStep DEF Admin
<1>4. CASE LoseIdentity \/ BecomeDue
    BY <1>4, LoseStep, DueStep
<1> QED
    BY <1>1, <1>2, <1>3, <1>4 DEF SiteNext

\* Only the service writes the record; it freezes one for a fork alone.
LEMMA ThawedStep ==
    ASSUME IInv, SInv, NeverFreezesItself, SiteNext
    PROVE  NeverFreezesItself'
<1>1. CASE enrollments' = enrollments
    BY <1>1 DEF NeverFreezesItself
<1>2. CASE Operator \/ LoseIdentity \/ BecomeDue
    BY <1>1, <1>2 DEF Operator, EnrollStart, EnrollIssued, EnrollRefused, StoreIdentity, Present, RenewStart,
                      RenewIssued, RenewRefused, EnrollSend, RenewSend, ReceiveEnroll, ReceiveRenew, StoreIdle,
                      GiveUp, Interrupt, Crash, LeaveForInvite, LoseIdentity, BecomeDue, storeVars
<1>3. CASE Admin
    <2>1. CASE AdminDelete
        BY <2>1, SiteAssumption DEF AdminDelete, DeleteEnrollment, NeverFreezesItself, IInv, TypeOK
    <2>2. CASE ~AdminDelete
        BY <1>1, <1>3, <2>2 DEF Admin, MintCheck, MintCommit, Expire, SetInvite, storeVars
    <2> QED
        BY <2>1, <2>2
<1>4. ASSUME NEW r \in Requests, CommitEnroll(r) PROVE NeverFreezesItself'
    <2>1. Holds(r)
        BY <1>4 DEF CommitEnroll, Holds
    <2>2. tokens[requests[r].token].name = Site
        BY <2>1, HolderFacts
    <2>3. CASE Issue(r, requests[r].token, Site, requests[r].key)
        BY <2>3, SiteAssumption DEF Issue, NewRecord, NeverFreezesItself, IInv, TypeOK
    <2> QED
        BY <1>1, <1>4, <2>2, <2>3 DEF CommitEnroll, Forfeit, RefuseReused
<1>5. ASSUME NEW r \in Requests, Renew(r) PROVE NeverFreezesItself'
    <2> DEFINE leaf == requests[r].leaf
               k == requests[r].key
    <2>1. leaf.name = Site /\ Decide(enrollments[Site], leaf, k) # "Forked"
        BY <1>5, RenewalFacts DEF Renew, RenewsAt
    <2>2. CASE /\ Decide(enrollments[Site], leaf, k) = "Rotate"
               /\ enrollments' = [enrollments EXCEPT ![Site] =
                                    [@ EXCEPT !.key = k, !.previous = leaf.key, !.recorded = clock]]
        <3>1. enrollments[Site] # Nil
            BY <2>2 DEF Decide
        <3>2. enrollments[Site] \in Records
            BY <3>1, SiteAssumption DEF IInv, TypeOK
        <3>3. enrollments'[Site].frozen = enrollments[Site].frozen
            BY <2>2, <3>2, SiteAssumption DEF Records, IInv, TypeOK
        <3> QED
            BY <3>1, <3>3 DEF NeverFreezesItself
    <2> QED
        BY <1>1, <1>5, <2>1, <2>2 DEF Renew
<1>6. CASE Service
    <2>1. ASSUME NEW r \in Requests, Consume(r) \/ SignAndInsert(r) \/ Finish(r) PROVE NeverFreezesItself'
        BY <1>1, <2>1 DEF Consume, SignAndInsert, Finish
    <2> QED
        BY <1>4, <1>5, <1>6, <2>1 DEF Service, ServeStep
<1> QED
    BY <1>2, <1>3, <1>6 DEF SiteNext

LEMMA SiteStutters ==
    ASSUME IInv, SInv, NeverFreezesItself, UNCHANGED vars
    PROVE  IInv' /\ SInv' /\ NeverFreezesItself'
<1>1. UNCHANGED storeVars /\ UNCHANGED siteVars
    BY DEF vars
<1>2. IInv'
    BY <1>1, InvStep
<1> USE <1>1 DEF storeVars, siteVars
<1>3. OneName' /\ SecretsOK' /\ StagesOK'
    BY DEF SInv, OneName, SecretsOK, StagesOK, EnrollsAt, EnrollAt
<1>4. OwnRequest' /\ OneRenewal' /\ NoFork'
    BY DEF SInv, OwnRequest, OneRenewal, NoFork, Follows, RenewsAt, EnrollsAt
<1>5. Honest'
    BY DEF SInv, Honest, NoOther, Uncertified, Hopeless, Dead, Usable, Locked, EnrollsAt
<1> QED
    BY <1>2, <1>3, <1>4, <1>5 DEF SInv, NeverFreezesItself

\* The operator's variables keep their types.
SiteTypes ==
    /\ invite \in Tokens \cup {Nil} /\ kept \in Pendings \cup {Nil} /\ identity \in Identities \cup {Nil}
    /\ due \in BOOLEAN /\ identified \in BOOLEAN
    /\ op \in {Idle} \cup Enrolling \cup Renewing
    /\ failed \in Tokens \cup {Nil}
    /\ losses \in 0 .. MaxLosses
    /\ rejected \subseteq Tokens \X Keys

\* The Secrets' types are part of SInv, after the step as before it.
LEMMA SiteTypesStep ==
    ASSUME IInv, SInv, SInv', SiteTypes, SiteNext
    PROVE  SiteTypes'
<1>1. /\ invite' \in Tokens \cup {Nil} /\ kept' \in Pendings \cup {Nil} /\ identity' \in Identities \cup {Nil}
    BY DEF SInv, SecretsOK
<1>2. CASE UNCHANGED <<due, identified, op, failed, losses, rejected>>
    BY <1>1, <1>2 DEF SiteTypes
<1>3. kept # Nil => kept \in Pendings /\ kept.invite \in Tokens /\ kept.key \in Keys /\ kept.unanswered \in BOOLEAN
    BY DEF SInv, SecretsOK, Pendings
<1>4. CASE Operator
    <2>1. CASE EnrollStart \/ EnrollIssued \/ StoreIdentity
        <3>1. op' \in {Idle} \cup Enrolling
            BY <2>1 DEF EnrollStart, EnrollIssued, StoreIdentity, Enrolling
        <3>2. UNCHANGED <<due, identified, failed, losses, rejected>>
            BY <2>1 DEF EnrollStart, EnrollIssued, StoreIdentity
        <3> QED
            BY <1>1, <3>1, <3>2 DEF SiteTypes
    <2>2. CASE EnrollRefused
        <3>1. kept # Nil
            BY <2>2 DEF EnrollRefused, SInv, StagesOK
        <3>2. rejected' \subseteq Tokens \X Keys
            BY <1>3, <2>2, <3>1 DEF EnrollRefused, SiteTypes
        <3>3. failed' \in Tokens /\ op' = Idle /\ UNCHANGED <<due, identified, losses>>
            BY <1>3, <2>2, <3>1 DEF EnrollRefused
        <3> QED
            BY <1>1, <3>2, <3>3 DEF SiteTypes
    <2>3. CASE Present \/ RenewIssued \/ RenewRefused \/ GiveUp \/ Interrupt \/ Crash \/ LeaveForInvite
        BY <1>1, <2>3 DEF Present, RenewIssued, RenewRefused, GiveUp, Interrupt, Crash, LeaveForInvite, Restarted, SiteTypes
    <2>4. CASE RenewStart
        <3>1. op'.stage = "renew_ready" /\ op' = [stage |-> "renew_ready", held |-> op'.held]
            BY <2>4 DEF RenewStart
        <3>2. op'.held \in Identities
            BY <3>1 DEF SInv, StagesOK, RenewStages
        <3>3. op' \in Renewing
            BY <3>1, <3>2 DEF Renewing
        <3> QED
            BY <1>1, <2>4, <3>3 DEF RenewStart, SiteTypes
    <2>5. ASSUME NEW r \in Arrivals, EnrollSend(r) PROVE SiteTypes'
        <3>1. kept # Nil /\ r \in Requests \cup {Nil}
            BY <2>5, ArrivesSomewhere DEF EnrollSend, SInv, StagesOK
        <3>2. op' \in Enrolling
            BY <1>3, <2>5, <3>1 DEF EnrollSend, Enrolling
        <3> QED
            BY <1>1, <2>5, <3>2 DEF EnrollSend, SiteTypes
    <2>6. ASSUME NEW r \in Arrivals, RenewSend(r) PROVE SiteTypes'
        <3>1. op.held \in Identities /\ r \in Requests \cup {Nil}
            BY <2>6, ArrivesSomewhere DEF RenewSend, SInv, StagesOK, RenewStages
        <3>2. op' \in Renewing
            BY <2>6, <3>1 DEF RenewSend, Renewing
        <3> QED
            BY <1>1, <2>6, <3>2 DEF RenewSend, SiteTypes
    <2> QED
        BY <1>4, <2>1, <2>2, <2>3, <2>4, <2>5, <2>6 DEF Operator
<1>5. CASE Service \/ Admin
    BY <1>2, <1>5 DEF Service, Admin, AdminDelete, SetInvite, siteVars
<1>6. CASE LoseIdentity \/ BecomeDue
    <2>1. losses' \in 0 .. MaxLosses
        BY <1>6, SiteAssumption DEF LoseIdentity, BecomeDue, SiteTypes
    <2>2. due' \in BOOLEAN /\ UNCHANGED <<op, failed, identified, rejected>>
        BY <1>6 DEF LoseIdentity, BecomeDue
    <2> QED
        BY <1>1, <2>1, <2>2 DEF SiteTypes
<1> QED
    BY <1>4, <1>5, <1>6 DEF SiteNext

\* The service keeps its invariant with the site composed onto it, and SInv
\* holds beside it.
THEOREM SiteInvariant == SiteSpec => [](IInv /\ SInv /\ NeverFreezesItself)
<1>1. IInv /\ SInv /\ NeverFreezesItself /\ [SiteNext]_vars => (IInv /\ SInv /\ NeverFreezesItself)'
    BY SiteStoreStep, SiteStep, ThawedStep, SiteStutters
<1> QED
    BY <1>1, SiteInvInit, PTL DEF SiteSpec

\* The Secrets, the operator's step and what it remembers keep their types,
\* beside the service's tables (enroll.rs, pending.rs, renew.rs).
THEOREM SiteTypeCorrect == SiteSpec => []SiteTypeOK
<1>1. SiteInit => SiteTypes
    <2>1. SiteInit => losses \in 0 .. MaxLosses
        BY SiteAssumption DEF SiteInit
    <2>2. SiteInit => due \in BOOLEAN /\ identified \in BOOLEAN
        BY DEF SiteInit
    <2> QED
        BY <2>1, <2>2 DEF SiteInit, SiteTypes
<1>2. (IInv /\ SInv /\ NeverFreezesItself) /\ (IInv /\ SInv /\ NeverFreezesItself)' /\ SiteTypes /\ [SiteNext]_vars =>
        SiteTypes'
    <2>1. SiteTypes /\ UNCHANGED vars => SiteTypes'
        BY DEF SiteTypes, vars, siteVars
    <2> QED
        BY <2>1, SiteTypesStep
<1>3. IInv /\ SInv /\ NeverFreezesItself /\ SiteTypes => SiteTypeOK
    BY DEF IInv, SiteTypes, SiteTypeOK
<1> QED
    BY <1>1, <1>2, <1>3, SiteInvariant, PTL DEF SiteSpec

\* However often the operator is cut off, restarted or left without an answer,
\* and however late its requests are served, renewal::decide never takes them
\* for a fork: the key is stored before it is sent, so every renewal of a leaf
\* asks for the same key, and the record is at that leaf or one renewal on.
THEOREM SiteNeverFreezesItself == SiteSpec => []NeverFreezesItself
<1> QED
    BY SiteInvariant, PTL

\* When the operator reports an invite as rejected, no request it made with the
\* kept key spent it, nor ever will: the mark that a request may be unanswered
\* is stored before it leaves, and only an answer clears it.
THEOREM RejectionsAreHonest == SiteSpec => []RejectionIsHonest
<1>1. SInv => RejectionIsHonest
    <2> SUFFICES ASSUME SInv, NEW c \in certs, c.via = "enroll", <<c.token, c.key>> \in rejected PROVE FALSE
        BY DEF RejectionIsHonest
    <2>1. \A p \in rejected : Uncertified(p[1], p[2])
        BY DEF SInv, Honest
    <2>2. Uncertified(c.token, c.key)
        BY <2>1
    <2> QED
        BY <2>2 DEF Uncertified
<1> QED
    BY <1>1, SiteInvariant, PTL

=============================================================================
