------------------------ MODULE RevisionLeaseProofs ------------------------
(***************************************************************************)
(* No revision and no generation is used twice, for any number of          *)
(* processes, any clocks and any sizes: IInv is inductive and implies the  *)
(* properties of RevisionLease.                                            *)
(***************************************************************************)
EXTENDS RevisionLease, TLAPS

USE ClocksAssumption, SizesAssumption, BoundsAssumption

\* Nothing is held, used or under way at first.
LEMMA InitEstablishes == Init => IInv
<1> SUFFICES ASSUME Init PROVE IInv OBVIOUS
<1> USE DEF Init, Idle, Call, NoLease
<1>1. TypeOK
  <2>1. NoLease \in Leases BY DEF Leases
  <2>2. call \in [Procs -> [step : Steps, attempt : Nat, base : Nat, lease : Leases]]
    BY <2>1 DEF Steps
  <2>3. reseeded \in BOOLEAN /\ backoff \in [Procs -> BOOLEAN] OBVIOUS
  <2>4. strays \subseteq Writes /\ taken \subseteq Nat /\ usedGens \subseteq Nat OBVIOUS
  <2> QED BY <2>2, <2>3, <2>4 DEF TypeOK
<1>2. MarksOK /\ StraysOK BY DEF MarksOK, StraysOK
<1>3. ASSUME NEW p \in Procs PROVE LeaseOK(p) /\ WriteOK(p) BY DEF LeaseOK, WriteOK
<1>4. RevisionsOK BY DEF RevisionsOK, Held, HeldNow, HeldNext
<1>5. GenerationsOK BY DEF GenerationsOK, HeldGens
<1> QED BY <1>1, <1>2, <1>3, <1>4, <1>5 DEF IInv

\* A lease planned to follow the mark is past it, and past any lower mark,
\* unless it is marked as reseeded.
LEMMA StartIsPast ==
    ASSUME NEW high \in Nat, NEW now \in Millis
    PROVE  /\ NextRevisionStart(high, now) \in Nat
           /\ PastCap(high, now) \in BOOLEAN
           /\ PastCap(high, now) \/ high < NextRevisionStart(high, now)
BY DEF NextRevisionStart, PastCap, Unseeded, Larger, MaxLeased

\* What a reservation plans: new generations, and revisions past the mark.
LEMMA ReservedIsPast ==
    ASSUME TypeOK, MarksOK,
           NEW now \in Millis, NEW nanos \in Nanos
    PROVE  /\ Reserved(now, nanos) \in Leases
           /\ Advances(Reserved(now, nanos))
           /\ cm.gen < Reserved(now, nanos).gFirst
           /\ Reserved(now, nanos).gFirst <= Reserved(now, nanos).gLast
<1>1. cm.rev \in Nat /\ cm.gen \in Nat /\ now \in Nat \ {0} /\ nanos \in Nat \ {0} BY DEF TypeOK
<1>2. CASE cm.version = 0
  BY <1>1, <1>2 DEF Reserved, FromSeeds, RevisionRange, Leases, Advances, MarksOK
<1>3. CASE cm.version # 0
  BY <1>1, <1>3, StartIsPast DEF Reserved, FromSeeds, RevisionRange, Leases, Advances, Larger
<1> QED BY <1>2, <1>3

\* What a renewal plans: revisions past the mark and the process's own range.
LEMMA RenewedIsPast ==
    ASSUME TypeOK, MarksOK,
           NEW p \in Procs, NEW now \in Millis
    PROVE  /\ Renewed(p, now) \in Leases
           /\ Advances(Renewed(p, now))
           /\ Renewed(p, now).reseed \/ last[p] < Renewed(p, now).first
<1> DEFINE high == IF cm.version = 0 THEN last[p] ELSE Larger(cm.rev, last[p])
<1>1. /\ high \in Nat /\ cm.rev <= high /\ last[p] <= high
      /\ cm.rev \in Nat /\ cm.gen \in Nat /\ last[p] \in Nat
  BY DEF TypeOK, MarksOK, Larger
<1>2. Renewed(p, now) = RevisionRange(NextRevisionStart(high, now), cm.gen, cm.gen, PastCap(high, now))
  BY DEF Renewed
<1> HIDE DEF high
<1>3. /\ NextRevisionStart(high, now) \in Nat
      /\ PastCap(high, now) \in BOOLEAN
      /\ PastCap(high, now) \/ high < NextRevisionStart(high, now)
  BY <1>1, StartIsPast
<1>4. CASE PastCap(high, now)
  <2>1. PastCap(high, now) = TRUE BY <1>3, <1>4
  <2> QED BY <1>1, <1>2, <1>3, <2>1 DEF RevisionRange, Leases, Advances
<1>5. CASE ~PastCap(high, now)
  <2>1. PastCap(high, now) = FALSE BY <1>3, <1>5
  <2> QED BY <1>1, <1>2, <1>3, <1>5, <2>1 DEF RevisionRange, Leases, Advances
<1> QED BY <1>4, <1>5

\* The records a call is set to are calls.
LEMMA CallTypes ==
    ASSUME NEW step \in Steps, NEW n \in Nat
    PROVE  /\ Call(step, n) \in [step : Steps, attempt : Nat, base : Nat, lease : Leases]
           /\ Idle \in [step : Steps, attempt : Nat, base : Nat, lease : Leases]
BY DEF Call, Idle, NoLease, Leases, Steps

\* Each step keeps the state well-typed.
LEMMA TypeStep == ASSUME IInv, [Next]_vars PROVE TypeOK'
<1> USE DEF IInv, TypeOK, Writes, Steps, LeaseOK
<1>1. ASSUME NEW w \in strays, ServeStray(w) PROVE TypeOK'
  <2>1. w \in Writes OBVIOUS
  <2>2. w.lease.reseed \in BOOLEAN /\ w.lease.last \in Nat /\ w.lease.gLast \in Nat
    BY <2>1 DEF Writes, Leases
  <2>3. reseeded' \in BOOLEAN BY <1>1, <2>2, Zenon DEF ServeStray, Apply
  <2>4. cm' \in [version : Nat, rev : Nat, gen : Nat] /\ strays' \subseteq Writes
    BY <1>1, <2>2 DEF ServeStray, Apply
  <2> QED BY <1>1, <2>3, <2>4 DEF ServeStray, Apply
<1>2. ASSUME NEW p \in Procs, Process(p) PROVE TypeOK'
  <2>1. CASE Start(p) BY <2>1, CallTypes DEF Start
  <2>2. CASE PlanReservation(p) BY <2>2, ReservedIsPast DEF PlanReservation, Plan
  <2>3. CASE PlanRenewal(p) BY <2>3, RenewedIsPast DEF PlanRenewal, Plan
  <2>4. CASE AcceptWrite(p)     <3>1. /\ call[p].lease.reseed \in BOOLEAN
          /\ call[p].lease.last \in Nat /\ call[p].lease.gLast \in Nat
      BY DEF Leases
    <3>2. call' \in [Procs -> [step : Steps, attempt : Nat, base : Nat, lease : Leases]] BY <2>4 DEF AcceptWrite
    <3>3. reseeded' \in BOOLEAN BY <2>4, <3>1, Zenon DEF AcceptWrite, Apply
    <3>4. cm' \in [version : Nat, rev : Nat, gen : Nat] BY <2>4, <3>1 DEF AcceptWrite, Apply
    <3> QED BY <2>4, <3>2, <3>3, <3>4 DEF AcceptWrite, Apply
  <2>5. CASE Conflict(p)     <3>1. call[p].attempt + 1 \in Nat /\ "read" \in Steps OBVIOUS
    <3>2. call' \in [Procs -> [step : Steps, attempt : Nat, base : Nat, lease : Leases]] BY <2>5, <3>1, CallTypes DEF Conflict
    <3> QED BY <2>5, <3>2 DEF Conflict
  <2>6. CASE Fail(p)     <3>1. strays' \subseteq Writes BY <2>6 DEF Fail, Abandoned
    <3>2. "failed" \in Steps /\ 0 \in Nat OBVIOUS
    <3>3. CASE Gone(p)
      <4>1. call' \in [Procs -> [step : Steps, attempt : Nat, base : Nat, lease : Leases]] BY <3>2, <3>3, CallTypes DEF Gone
      <4> QED BY <2>6, <3>1, <3>3, <4>1 DEF Fail, Gone
    <3>4. CASE /\ UNCHANGED <<mode, next, last, backoff, gen, genLast>>
               /\ call' = [call EXCEPT ![p] = Call("failed", 0)]
      <4>1. call' \in [Procs -> [step : Steps, attempt : Nat, base : Nat, lease : Leases]] BY <3>2, <3>4, CallTypes
      <4> QED BY <2>6, <3>1, <3>4, <4>1 DEF Fail
    <3> QED BY <2>6, <3>3, <3>4 DEF Fail
  <2>7. CASE Crash(p)     <3>1. strays' \subseteq Writes BY <2>7 DEF Crash, Abandoned
    <3>2. call' \in [Procs -> [step : Steps, attempt : Nat, base : Nat, lease : Leases]] BY <2>7, CallTypes DEF Crash, Gone
    <3> QED BY <2>7, <3>1, <3>2 DEF Crash, Gone
  <2>8. CASE ComeUp(p)     <3>1. call[p].lease \in Leases OBVIOUS
    <3>2. call' \in [Procs -> [step : Steps, attempt : Nat, base : Nat, lease : Leases]] BY <2>8, CallTypes DEF ComeUp
    <3>3. /\ next' \in [Procs -> Nat] /\ last' \in [Procs -> Nat]
          /\ gen' \in [Procs -> Nat] /\ genLast' \in [Procs -> Nat]
          /\ usedGens' \subseteq Nat
      BY <2>8, <3>1 DEF ComeUp, Leases
    <3>4. \A q \in Procs : next'[q] <= last'[q] + 1 /\ gen'[q] <= genLast'[q]
      BY <2>8, <3>1 DEF ComeUp, Leases
    <3> QED BY <2>8, <3>2, <3>3, <3>4 DEF ComeUp
  <2>9. CASE FinishRenewal(p) BY <2>9 DEF FinishRenewal
  <2>10. CASE Take(p)     <3>1. call[p].lease \in Leases OBVIOUS
    <3>2. call' \in [Procs -> [step : Steps, attempt : Nat, base : Nat, lease : Leases]] BY <2>10, CallTypes DEF Take
    <3>3. From(p) \in Nat /\ Until(p) \in Nat /\ After(p) \in Nat /\ After(p) <= Until(p) + 1
      BY <2>10, <3>1 DEF Take, Leases, From, Until, After, Adopts, Available
    <3>4. /\ next' \in [Procs -> Nat] /\ last' \in [Procs -> Nat]
          /\ taken' \subseteq Nat /\ backoff' \in [Procs -> BOOLEAN]
      BY <2>10, <3>3 DEF Take
    <3>5. \A q \in Procs : next'[q] <= last'[q] + 1 BY <2>10, <3>3 DEF Take
    <3> QED BY <2>10, <3>2, <3>4, <3>5 DEF Take
  <2>11. CASE RetryDue(p) BY <2>11 DEF RetryDue
  <2>12. CASE RenewIdentity(p)     <3>1. gen[p] + 1 \in Nat OBVIOUS
    <3>2. gen' \in [Procs -> Nat] BY <2>12, <3>1 DEF RenewIdentity
    <3>3. usedGens' \subseteq Nat BY <2>12, <3>1 DEF RenewIdentity
    <3>4. \A q \in Procs : gen'[q] <= genLast'[q] BY <2>12 DEF RenewIdentity
    <3> QED BY <2>12, <3>2, <3>3, <3>4 DEF RenewIdentity
  <2> QED BY <1>2, <2>1, <2>2, <2>3, <2>4, <2>5, <2>6, <2>7, <2>8, <2>9, <2>10, <2>11, <2>12 DEF Process
<1>3. CASE UNCHANGED vars BY <1>3 DEF vars
<1> QED BY <1>1, <1>2, <1>3 DEF Next

\* Only a write moves the marks.
LEMMA MarksStep == ASSUME IInv, [Next]_vars PROVE MarksOK'
<1> USE DEF IInv, TypeOK, MarksOK
<1>1. ASSUME NEW w \in strays, ServeStray(w) PROVE MarksOK'
  BY <1>1 DEF ServeStray, Apply
<1>2. ASSUME NEW p \in Procs, Process(p) PROVE MarksOK'
  <2>1. CASE Start(p) BY <2>1 DEF Start, Call
  <2>2. CASE PlanReservation(p) BY <2>2 DEF PlanReservation, Plan
  <2>3. CASE PlanRenewal(p) BY <2>3 DEF PlanRenewal, Plan
  <2>4. CASE AcceptWrite(p) BY <2>4 DEF AcceptWrite, Apply
  <2>5. CASE Conflict(p) BY <2>5 DEF Conflict, Call
  <2>6. CASE Fail(p) BY <2>6 DEF Fail, Gone, Abandoned, Idle, Call
  <2>7. CASE Crash(p) BY <2>7 DEF Crash, Gone, Abandoned, Idle, Call
  <2>8. CASE ComeUp(p) BY <2>8 DEF ComeUp, Idle, Call
  <2>9. CASE FinishRenewal(p) BY <2>9 DEF FinishRenewal
  <2>10. CASE Take(p) BY <2>10 DEF Take, Available, From, Until, After, Adopts, Idle, Call
  <2>11. CASE RetryDue(p) BY <2>11 DEF RetryDue
  <2>12. CASE RenewIdentity(p) BY <2>12 DEF RenewIdentity
  <2> QED BY <1>2, <2>1, <2>2, <2>3, <2>4, <2>5, <2>6, <2>7, <2>8, <2>9, <2>10, <2>11, <2>12 DEF Process
<1>3. CASE UNCHANGED vars BY <1>3 DEF vars
<1> QED BY <1>1, <1>2, <1>3 DEF Next

\* A lease on its way stays past the process's own range, which changes only as it is adopted.
LEMMA LeaseStep == ASSUME IInv, [Next]_vars PROVE \A q \in Procs : LeaseOK(q)'
<1> USE DEF IInv, TypeOK, LeaseOK, Leases, Writes, Steps, NoLease
<1>1. ASSUME NEW w \in strays, ServeStray(w) PROVE \A q \in Procs : LeaseOK(q)'
  BY <1>1 DEF ServeStray, Apply
<1>2. ASSUME NEW p \in Procs, Process(p) PROVE \A q \in Procs : LeaseOK(q)'
  <2>1. CASE Start(p) BY <2>1 DEF Start, Call
  <2>2. CASE PlanReservation(p)     <3>1. PICK now \in Millis, nanos \in Nanos : Plan(p, Reserved(now, nanos)) BY <2>2 DEF PlanReservation
    <3>2. mode[p] = "reserving" BY <2>2 DEF PlanReservation
    <3>3. LeaseOK(p)' BY <3>1, <3>2, ReservedIsPast DEF Plan, Advances
    <3>4. ASSUME NEW q \in Procs, q # p PROVE LeaseOK(q)' BY <3>1, <3>4 DEF Plan
    <3> QED BY <3>3, <3>4
  <2>3. CASE PlanRenewal(p)     <3>1. PICK now \in Millis : Plan(p, Renewed(p, now)) BY <2>3 DEF PlanRenewal
    <3>2. mode[p] = "up" BY <2>3 DEF PlanRenewal
    <3>3. LeaseOK(p)' BY <3>1, <3>2, RenewedIsPast DEF Plan, Advances
    <3>4. ASSUME NEW q \in Procs, q # p PROVE LeaseOK(q)' BY <3>1, <3>4 DEF Plan
    <3> QED BY <3>3, <3>4
  <2>4. CASE AcceptWrite(p) BY <2>4 DEF AcceptWrite, Apply
  <2>5. CASE Conflict(p) BY <2>5 DEF Conflict, Call
  <2>6. CASE Fail(p)     <3>1. LeaseOK(p)' BY <2>6 DEF Fail, Gone, Idle, Call
    <3>2. ASSUME NEW q \in Procs, q # p PROVE LeaseOK(q)'
      <4>1. call'[q] = call[q] /\ mode'[q] = mode[q] /\ last'[q] = last[q] BY <2>6, <3>2 DEF Fail, Gone
      <4> QED BY <4>1
    <3> QED BY <3>1, <3>2
  <2>7. CASE Crash(p) BY <2>7 DEF Crash, Gone, Abandoned, Idle, Call
  <2>8. CASE ComeUp(p) BY <2>8 DEF ComeUp, Idle, Call
  <2>9. CASE FinishRenewal(p) BY <2>9 DEF FinishRenewal
  <2>10. CASE Take(p) BY <2>10 DEF Take, Available, From, Until, After, Adopts, Idle, Call
  <2>11. CASE RetryDue(p) BY <2>11 DEF RetryDue
  <2>12. CASE RenewIdentity(p) BY <2>12 DEF RenewIdentity
  <2> QED BY <1>2, <2>1, <2>2, <2>3, <2>4, <2>5, <2>6, <2>7, <2>8, <2>9, <2>10, <2>11, <2>12 DEF Process
<1>3. CASE UNCHANGED vars BY <1>3 DEF vars
<1> QED BY <1>1, <1>2, <1>3 DEF Next

\* A write that can still land was planned from the marks still there.
LEMMA WriteStep == ASSUME IInv, [Next]_vars PROVE \A q \in Procs : WriteOK(q)'
<1> USE DEF IInv, TypeOK, WriteOK, Advances, Leases, Writes, Steps, NoLease
<1>1. ASSUME NEW w \in strays, ServeStray(w) PROVE \A q \in Procs : WriteOK(q)'
  BY <1>1 DEF ServeStray, Apply
<1>2. ASSUME NEW p \in Procs, Process(p) PROVE \A q \in Procs : WriteOK(q)'
  <2>1. CASE Start(p) BY <2>1 DEF Start, Call
  <2>2. CASE PlanReservation(p) BY <2>2, ReservedIsPast DEF PlanReservation, Plan, MarksOK
  <2>3. CASE PlanRenewal(p) BY <2>3, RenewedIsPast DEF PlanRenewal, Plan, MarksOK
  <2>4. CASE AcceptWrite(p) BY <2>4 DEF AcceptWrite, Apply
  <2>5. CASE Conflict(p) BY <2>5 DEF Conflict, Call
  <2>6. CASE Fail(p) BY <2>6 DEF Fail, Gone, Abandoned, Idle, Call
  <2>7. CASE Crash(p) BY <2>7 DEF Crash, Gone, Abandoned, Idle, Call
  <2>8. CASE ComeUp(p) BY <2>8 DEF ComeUp, Idle, Call
  <2>9. CASE FinishRenewal(p) BY <2>9 DEF FinishRenewal
  <2>10. CASE Take(p) BY <2>10 DEF Take, Available, From, Until, After, Adopts, Idle, Call
  <2>11. CASE RetryDue(p) BY <2>11 DEF RetryDue
  <2>12. CASE RenewIdentity(p) BY <2>12 DEF RenewIdentity
  <2> QED BY <1>2, <2>1, <2>2, <2>3, <2>4, <2>5, <2>6, <2>7, <2>8, <2>9, <2>10, <2>11, <2>12 DEF Process
<1>3. CASE UNCHANGED vars BY <1>3 DEF vars
<1> QED BY <1>1, <1>2, <1>3 DEF Next

\* So was one that nobody waits for.
LEMMA StraysStep == ASSUME IInv, [Next]_vars PROVE StraysOK'
<1> USE DEF IInv, TypeOK, WriteOK, StraysOK, Advances, Leases, Writes, Steps, NoLease
<1>1. ASSUME NEW w \in strays, ServeStray(w) PROVE StraysOK'
  BY <1>1 DEF ServeStray, Apply
<1>2. ASSUME NEW p \in Procs, Process(p) PROVE StraysOK'
  <2>1. CASE Start(p) BY <2>1 DEF Start, Call
  <2>2. CASE PlanReservation(p) BY <2>2 DEF PlanReservation, Plan
  <2>3. CASE PlanRenewal(p) BY <2>3 DEF PlanRenewal, Plan
  <2>4. CASE AcceptWrite(p) BY <2>4 DEF AcceptWrite, Apply
  <2>5. CASE Conflict(p) BY <2>5 DEF Conflict, Call
  <2>6. CASE Fail(p)     <3>1. \A w \in strays' : w \in strays \/ w \in Abandoned(p) BY <2>6 DEF Fail
    <3>2. cm' = cm BY <2>6 DEF Fail
    <3> QED BY <3>1, <3>2 DEF Abandoned
  <2>7. CASE Crash(p) BY <2>7 DEF Crash, Gone, Abandoned, Idle, Call
  <2>8. CASE ComeUp(p) BY <2>8 DEF ComeUp, Idle, Call
  <2>9. CASE FinishRenewal(p) BY <2>9 DEF FinishRenewal
  <2>10. CASE Take(p) BY <2>10 DEF Take, Available, From, Until, After, Adopts, Idle, Call
  <2>11. CASE RetryDue(p) BY <2>11 DEF RetryDue
  <2>12. CASE RenewIdentity(p) BY <2>12 DEF RenewIdentity
  <2> QED BY <1>2, <2>1, <2>2, <2>3, <2>4, <2>5, <2>6, <2>7, <2>8, <2>9, <2>10, <2>11, <2>12 DEF Process
<1>3. CASE UNCHANGED vars BY <1>3 DEF vars
<1> QED BY <1>1, <1>2, <1>3 DEF Next

\* A range granted past the mark holds nothing that is held or was used.
LEMMA Granted ==
    ASSUME IInv, NEW lease \in Leases, Advances(lease), cm'.rev = lease.last, taken' = taken,
           ~reseeded, ~lease.reseed, NEW p \in Procs,
           \A q \in Procs : q # p => (Held(q))' = Held(q),
           (Held(p))' \subseteq Held(p) \cup (lease.first..lease.last),
           \A q \in Procs : call'[q].step \in {"won", "done"} => ~call'[q].lease.reseed
    PROVE  RevisionsOK'
<1> DEFINE new == lease.first..lease.last
<1>1. /\ \A r \in taken : r <= cm.rev
      /\ \A q \in Procs : \A r \in Held(q) : r <= cm.rev /\ r \notin taken
      /\ \A q, s \in Procs : q # s => \A r \in Held(q) : r \notin Held(s)
  BY DEF IInv, RevisionsOK
<1>2. cm.rev \in Nat /\ taken \subseteq Nat /\ lease.last \in Nat BY DEF IInv, TypeOK, Leases
<1>3. \A q \in Procs : \A r \in Held(q) : r \in Int
  BY DEF IInv, TypeOK, Held, HeldNow, HeldNext, Leases
<1>4. cm.rev < lease.last BY <1>2 DEF Advances, Leases
<1>5. \A r \in new : cm.rev < r /\ r <= lease.last BY <1>2 DEF Advances, Leases
<1>6. \A r \in new : r \notin taken /\ \A q \in Procs : r \notin Held(q)
  BY <1>1, <1>2, <1>3, <1>5
<1> HIDE DEF new
<1>7. \A r \in taken : r <= lease.last
  <2> TAKE r \in taken
  <2>1. r <= cm.rev /\ r \in Nat BY <1>1, <1>2
  <2> QED BY <1>2, <1>4, <2>1
<1>8. \A q \in Procs : \A r \in Held(q) : r <= lease.last BY <1>1, <1>2, <1>3, <1>4
<1>9. \A q \in Procs : \A r \in (Held(q))' : r \in Held(q) \/ (q = p /\ r \in new) BY DEF new
<1>10. \A q \in Procs : \A r \in (Held(q))' : r <= cm'.rev /\ r \notin taken
  BY <1>1, <1>5, <1>6, <1>8, <1>9
<1>11. \A q, s \in Procs : q # s => \A r \in (Held(q))' : r \notin (Held(s))' BY <1>1, <1>6, <1>9
<1> QED BY <1>7, <1>10, <1>11 DEF RevisionsOK

\* Ranges are granted past the mark and left as they are handed out.
LEMMA RevisionsStep == ASSUME IInv, [Next]_vars PROVE RevisionsOK'
<1> USE DEF IInv, TypeOK, LeaseOK, WriteOK, StraysOK, Advances, RevisionsOK, Held, HeldNow, HeldNext, Leases, Writes, Steps, NoLease
<1>1. ASSUME NEW w \in strays, ServeStray(w) PROVE RevisionsOK'
  BY <1>1 DEF ServeStray, Apply
<1>2. ASSUME NEW p \in Procs, Process(p) PROVE RevisionsOK'
  <2>1. CASE Start(p) BY <2>1 DEF Start, Call
  <2>2. CASE PlanReservation(p) BY <2>2 DEF PlanReservation, Plan
  <2>3. CASE PlanRenewal(p) BY <2>3 DEF PlanRenewal, Plan
  <2>4. CASE AcceptWrite(p)     <3> SUFFICES ASSUME ~reseeded' PROVE RevisionsOK' BY DEF RevisionsOK
    <3> DEFINE lease == call[p].lease
    <3>1. ~reseeded /\ ~lease.reseed /\ cm'.rev = lease.last /\ taken' = taken
      BY <2>4 DEF AcceptWrite, Apply
    <3>2. lease \in Leases /\ Advances(lease) BY <2>4 DEF AcceptWrite, Apply
    <3>3. ASSUME NEW q \in Procs, q # p PROVE (Held(q))' = Held(q) BY <2>4, <3>3 DEF AcceptWrite
    <3>4. (Held(p))' \subseteq Held(p) \cup (lease.first..lease.last) BY <2>4 DEF AcceptWrite
    <3>5. \A q \in Procs : call'[q].step \in {"won", "done"} => ~call'[q].lease.reseed
      BY <2>4, <3>1 DEF AcceptWrite, RevisionsOK
    <3> HIDE DEF lease, IInv, TypeOK, Advances, RevisionsOK, Held, Leases
    <3> QED BY <3>1, <3>2, <3>3, <3>4, <3>5, Granted
  <2>5. CASE Conflict(p) BY <2>5 DEF Conflict, Call
  <2>6. CASE Fail(p)     <3>1. ASSUME NEW q \in Procs PROVE (Held(q))' \subseteq Held(q)
      <4>1. CASE Gone(p) BY <2>6, <4>1 DEF Fail, Gone, Idle, Call
      <4>2. CASE UNCHANGED <<mode, next, last>> /\ call' = [call EXCEPT ![p] = Call("failed", 0)]
        <5>1. call'[q].step \in {"won", "done"} => call'[q] = call[q] BY <4>2 DEF Call
        <5> QED BY <4>2, <5>1
      <4> QED BY <2>6, <4>1, <4>2 DEF Fail
    <3>2. ASSUME NEW q \in Procs, call'[q].step \in {"won", "done"} PROVE call'[q] = call[q]
      BY <2>6, <3>2 DEF Fail, Gone, Idle, Call
    <3>3. UNCHANGED <<cm, taken, reseeded>> BY <2>6 DEF Fail
    <3> HIDE DEF Held
    <3> QED BY <3>1, <3>2, <3>3 DEF RevisionsOK
  <2>7. CASE Crash(p) BY <2>7 DEF Crash, Gone, Abandoned, Idle, Call
  <2>8. CASE ComeUp(p) BY <2>8 DEF ComeUp, Idle, Call
  <2>9. CASE FinishRenewal(p) BY <2>9 DEF FinishRenewal
  <2>10. CASE Take(p) BY <2>10 DEF Take, Available, From, Until, After, Adopts, Idle, Call
  <2>11. CASE RetryDue(p) BY <2>11 DEF RetryDue
  <2>12. CASE RenewIdentity(p) BY <2>12 DEF RenewIdentity
  <2> QED BY <1>2, <2>1, <2>2, <2>3, <2>4, <2>5, <2>6, <2>7, <2>8, <2>9, <2>10, <2>11, <2>12 DEF Process
<1>3. CASE UNCHANGED vars BY <1>3 DEF vars
<1> QED BY <1>1, <1>2, <1>3 DEF Next

\* Generations too, and a renewal grants none.
LEMMA GenerationsStep == ASSUME IInv, [Next]_vars PROVE GenerationsOK'
<1> USE DEF IInv, TypeOK, LeaseOK, WriteOK, StraysOK, Advances, GenerationsOK, HeldGens, Leases, Writes, Steps, NoLease
<1>1. ASSUME NEW w \in strays, ServeStray(w) PROVE GenerationsOK'
  BY <1>1 DEF ServeStray, Apply
<1>2. ASSUME NEW p \in Procs, Process(p) PROVE GenerationsOK'
  <2>1. CASE Start(p) BY <2>1 DEF Start, Call
  <2>2. CASE PlanReservation(p) BY <2>2 DEF PlanReservation, Plan
  <2>3. CASE PlanRenewal(p) BY <2>3 DEF PlanRenewal, Plan
  <2>4. CASE AcceptWrite(p)     <3> DEFINE lease == call[p].lease
            new == IF mode[p] = "reserving" THEN lease.gFirst..lease.gLast ELSE {}
    <3>1. /\ cm'.gen = lease.gLast /\ usedGens' = usedGens /\ cm.gen <= lease.gLast
          /\ mode[p] = "reserving" => cm.gen < lease.gFirst
          /\ mode[p] # "down"
      BY <2>4 DEF AcceptWrite, Apply
    <3>2. ASSUME NEW q \in Procs, q # p PROVE (HeldGens(q))' = HeldGens(q) BY <2>4, <3>2 DEF AcceptWrite
    <3>3. (HeldGens(p))' \subseteq HeldGens(p) \cup new BY <2>4, <3>1 DEF AcceptWrite
    <3>4. \A q \in Procs : \A g \in HeldGens(q) : g \in Int OBVIOUS
    <3>5. cm.gen \in Nat /\ lease.gLast \in Nat /\ usedGens \subseteq Nat OBVIOUS
    <3>6. \A g \in new : g \in Int /\ cm.gen < g /\ g <= lease.gLast BY <3>1
    <3> HIDE DEF lease, new, HeldGens
    <3>7. \A g \in new : g \notin usedGens /\ \A q \in Procs : g \notin HeldGens(q)
      BY <3>4, <3>5, <3>6
    <3>8. (\A g \in usedGens : g <= cm.gen)' BY <3>1, <3>5
    <3>9. \A q \in Procs : \A g \in (HeldGens(q))' : g \in HeldGens(q) \/ (q = p /\ g \in new)
      BY <3>2, <3>3
    <3>10. (\A q \in Procs : \A g \in HeldGens(q) : g <= cm.gen /\ g \notin usedGens)'
      BY <3>1, <3>4, <3>5, <3>6, <3>7, <3>9
    <3>11. (\A q, s \in Procs : q # s => \A g \in HeldGens(q) : g \notin HeldGens(s))'
      BY <3>7, <3>9
    <3> QED BY <3>8, <3>10, <3>11
  <2>5. CASE Conflict(p) BY <2>5 DEF Conflict, Call
  <2>6. CASE Fail(p)     <3>1. ASSUME NEW q \in Procs PROVE (HeldGens(q))' \subseteq HeldGens(q)
      <4>1. CASE Gone(p) BY <2>6, <4>1 DEF Fail, Gone, Idle, Call
      <4>2. CASE UNCHANGED <<mode, gen, genLast>> /\ mode[p] = "up" /\ call' = [call EXCEPT ![p] = Call("failed", 0)]
        BY <4>2
      <4> QED BY <2>6, <4>1, <4>2 DEF Fail
    <3>2. UNCHANGED <<cm, usedGens>> BY <2>6 DEF Fail
    <3> HIDE DEF HeldGens
    <3> QED BY <3>1, <3>2
  <2>7. CASE Crash(p) BY <2>7 DEF Crash, Gone, Abandoned, Idle, Call
  <2>8. CASE ComeUp(p) BY <2>8 DEF ComeUp, Idle, Call
  <2>9. CASE FinishRenewal(p) BY <2>9 DEF FinishRenewal
  <2>10. CASE Take(p) BY <2>10 DEF Take, Available, From, Until, After, Adopts, Idle, Call
  <2>11. CASE RetryDue(p) BY <2>11 DEF RetryDue
  <2>12. CASE RenewIdentity(p)     <3>1. gen[p] \in Nat /\ genLast[p] \in Nat OBVIOUS
    <3>2. ASSUME NEW q \in Procs, q # p PROVE (HeldGens(q))' = HeldGens(q)
      BY <2>12, <3>2 DEF RenewIdentity
    <3>3. (HeldGens(p))' = HeldGens(p) \ {gen[p] + 1} /\ gen[p] + 1 \in HeldGens(p)
      BY <2>12, <3>1 DEF RenewIdentity
    <3>4. cm' = cm /\ usedGens' = usedGens \cup {gen[p] + 1} BY <2>12 DEF RenewIdentity
    <3> HIDE DEF HeldGens
    <3>5. \A q \in Procs : (HeldGens(q))' \subseteq HeldGens(q) BY <3>2, <3>3
    <3>6. \A q \in Procs : gen[p] + 1 \notin (HeldGens(q))' BY <3>2, <3>3 DEF GenerationsOK
    <3>7. (\A g \in usedGens : g <= cm.gen)' BY <3>3, <3>4 DEF GenerationsOK
    <3>8. (\A q \in Procs : \A g \in HeldGens(q) : g <= cm.gen /\ g \notin usedGens)'
      BY <3>4, <3>5, <3>6 DEF GenerationsOK
    <3>9. (\A q, s \in Procs : q # s => \A g \in HeldGens(q) : g \notin HeldGens(s))'
      BY <3>5 DEF GenerationsOK
    <3> QED BY <3>7, <3>8, <3>9 DEF GenerationsOK
  <2> QED BY <1>2, <2>1, <2>2, <2>3, <2>4, <2>5, <2>6, <2>7, <2>8, <2>9, <2>10, <2>11, <2>12 DEF Process
<1>3. CASE UNCHANGED vars BY <1>3 DEF vars
<1> QED BY <1>1, <1>2, <1>3 DEF Next

\* IInv is inductive.
LEMMA Invariance == Spec => []IInv
<1>1. IInv /\ [Next]_vars => IInv'
  BY TypeStep, MarksStep, LeaseStep, WriteStep, StraysStep, RevisionsStep, GenerationsStep DEF IInv
<1> QED BY InitEstablishes, <1>1, PTL DEF Spec

\* The ConfigMap, the RevisionClocks and the NodeIds are well-typed, no clock runs
\* past its range and no identity past its limit.
THEOREM TypeCorrect == Spec => []TypeOK
<1>1. IInv => TypeOK BY DEF IInv
<1> QED BY Invariance, <1>1, PTL

\* No revision is handed out twice, by any processes in any order, until a range
\* is reseeded: RevisionClock::take over cas_revision_lease.
THEOREM Uniqueness == Spec => []NeverReused
<1>1. IInv => NeverReused
  <2> SUFFICES ASSUME IInv, ~reseeded, NEW p \in Procs, mode[p] = "up", Available(p)
              PROVE  From(p) \notin taken
    BY DEF NeverReused
  <2>1. From(p) \in Held(p)
    BY DEF IInv, TypeOK, Leases, Available, From, Until, Adopts, Held, HeldNow, HeldNext
  <2> QED BY <2>1 DEF IInv, RevisionsOK
<1> QED BY Invariance, <1>1, PTL

\* No generation is used twice, reseeded or not: NodeId over plan_next_lease.
THEOREM GenerationUniqueness == Spec => []GenerationsNeverShared
<1>1. IInv => GenerationsNeverShared
  <2> SUFFICES ASSUME IInv, NEW p \in Procs
              PROVE  /\ mode[p] = "reserving" /\ call[p].step = "won" => call[p].lease.gFirst \in HeldGens(p)
                     /\ mode[p] = "up" /\ gen[p] < genLast[p] => gen[p] + 1 \in HeldGens(p)
    BY DEF IInv, GenerationsOK, GenerationsNeverShared
  <2>1. gen[p] \in Nat /\ genLast[p] \in Nat /\ call[p].lease \in Leases BY DEF IInv, TypeOK
  <2> QED BY <2>1 DEF IInv, LeaseOK, Leases, HeldGens
<1> QED BY Invariance, <1>1, PTL

\* What is used was persisted first: cas_revision_lease.
THEOREM Persistence == Spec => []PersistedBeforeUse
<1>1. IInv => PersistedBeforeUse BY DEF IInv, RevisionsOK, GenerationsOK, PersistedBeforeUse
<1> QED BY Invariance, <1>1, PTL

\* A running process's revisions increase whatever others do to the mark, unless
\* its own renewal is reseeded: revision_renewer and adopt_renewal.
THEOREM Monotonicity == Spec => OwnRevisionsIncrease
<1>1. ASSUME IInv, [Next]_vars, NEW p \in Procs, mode[p] = "up", mode'[p] = "up"
      PROVE  next'[p] < next[p] => call[p].lease.reseed
  <2> USE DEF IInv, TypeOK, LeaseOK, Leases, Steps
  <2>1. ASSUME NEW w \in strays, ServeStray(w) PROVE next' = next BY <2>1 DEF ServeStray
  <2>2. ASSUME NEW q \in Procs, Process(q), q # p PROVE next'[p] = next[p]
    <3>1. CASE next' = next BY <3>1
    <3>2. CASE Fail(q) \/ Crash(q) \/ ComeUp(q) \/ Take(q)
      BY <1>1, <2>2, <3>2 DEF Fail, Gone, Crash, ComeUp, Take
    <3> QED BY <2>2, <3>1, <3>2 DEF Process, Start, PlanReservation, PlanRenewal, Plan, AcceptWrite,
                                    Conflict, FinishRenewal, RetryDue, RenewIdentity
  <2>3. CASE Take(p) BY <1>1, <2>3 DEF Take, After, Available, From, Until, Adopts
  <2>4. CASE Process(p) /\ ~Take(p)
    BY <1>1, <2>4 DEF Process, Start, PlanReservation, PlanRenewal, Plan, AcceptWrite, Conflict, Fail,
                      Gone, Crash, ComeUp, FinishRenewal, RetryDue, RenewIdentity
  <2>5. CASE UNCHANGED vars
    <3>1. next'[p] = next[p] /\ next[p] \in Nat BY <1>1, <2>5 DEF vars
    <3> QED BY <3>1
  <2> QED BY <1>1, <2>1, <2>2, <2>3, <2>4, <2>5 DEF Next
<1>2. IInv /\ [Next]_vars
      => [\A p \in Procs : mode[p] = "up" /\ mode'[p] = "up" /\ next'[p] < next[p]
                           => call[p].lease.reseed]_vars
  BY <1>1
<1> QED BY Invariance, <1>2, PTL DEF Spec, OwnRevisionsIncrease

=============================================================================
