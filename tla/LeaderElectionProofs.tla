------------------------ MODULE LeaderElectionProofs ------------------------
(***************************************************************************)
(* The election is safe for any set of replicas, any durations in the      *)
(* right order, and any bounds: IInv is inductive and implies the          *)
(* properties of LeaderElection.                                           *)
(***************************************************************************)
EXTENDS LeaderElection, TLAPS

USE ReplicasAssumption, DurationsAssumption, BoundsAssumption

\* Every replica starts with nothing in progress and nobody holding.
LEMMA InitEstablishes == Init => IInv
BY DEF Init, IInv, TypeOK, PastOnly, GateOK, SeenInTime, CallOK, HoldingOK, StrayOK, Tenure,
       MayTake, Call, Idle, Unseen, Never, Phases, Steps, Holders, Write

\* Each step keeps the state well-typed.
LEMMA TypeStep == ASSUME TypeOK, [Next]_vars PROVE TypeOK'
<1> USE DEF TypeOK, Holders, Write, Never, Call, Idle, Unseen, Phases, Steps
<1>1. CASE Tick BY <1>1 DEF Tick
<1>2. CASE UnelectedStops BY <1>2 DEF UnelectedStops
<1>3. ASSUME NEW w \in strays, ServeStray(w) PROVE TypeOK' BY <1>3 DEF ServeStray, Apply
<1>4. ASSUME NEW r \in Replicas, Replica(r) PROVE TypeOK'
  <2>1. CASE Contend(r) BY <2>1 DEF Contend
  <2>2. CASE Renew(r) BY <2>2 DEF Renew
  <2>3. CASE ServeGet(r) BY <2>3 DEF ServeGet
  <2>4. CASE Create(r) BY <2>4 DEF Create, SendPut
  <2>5. CASE Take(r) BY <2>5 DEF Take, Takeable, UnchangedFor, Observe, SendPut
  <2>6. CASE LeaveHeld(r) BY <2>6 DEF LeaveHeld, Observe, Refused, EndAttempt, UnchangedFor
  <2>7. CASE AcceptPut(r) BY <2>7 DEF AcceptPut, Apply
  <2>8. CASE Renewed(r) BY <2>8 DEF Renewed
  <2>9. CASE Conflicted(r) BY <2>9 DEF Conflicted, Refused, EndAttempt
  <2>10. CASE Fail(r) BY <2>10 DEF Fail, Abandoned, EndAttempt
  <2>11. CASE StillNamed(r) BY <2>11 DEF StillNamed
  <2>12. CASE Superseded(r) BY <2>12 DEF Superseded, StandDown
  <2>13. CASE DeadlinePassed(r) BY <2>13 DEF DeadlinePassed, StandDown
  <2>14. CASE Release(r) BY <2>14 DEF Release
  <2>15. CASE ClearHolder(r) BY <2>15 DEF ClearHolder, SendPut
  <2>16. CASE Released(r) BY <2>16 DEF Released, StandDown, Abandoned
  <2>17. CASE Restart(r) BY <2>17 DEF Restart, Abandoned, EndAttempt
  <2>18. CASE PassGate(r) BY <2>18 DEF PassGate
  <2> QED BY <1>4, <2>1, <2>2, <2>3, <2>4, <2>5, <2>6, <2>7, <2>8, <2>9, <2>10, <2>11,
             <2>12, <2>13, <2>14, <2>15, <2>16, <2>17, <2>18 DEF Replica
<1>5. CASE UNCHANGED vars BY <1>5 DEF vars
<1>6. CASE UnelectedStarts BY <1>6 DEF UnelectedStarts
<1> QED BY <1>1, <1>2, <1>3, <1>4, <1>5, <1>6 DEF Next

\* Time and versions only move forward, so what was read lies in the past.
LEMMA PastOnlyStep == ASSUME IInv, [Next]_vars PROVE PastOnly'
<1> USE DEF IInv, PastOnly, TypeOK, Holders, Write, Never, Call, Idle, Unseen, Phases, Steps
<1>1. CASE Tick BY <1>1 DEF Tick
<1>2. CASE UnelectedStops BY <1>2 DEF UnelectedStops
<1>3. ASSUME NEW w \in strays, ServeStray(w) PROVE PastOnly' BY <1>3 DEF ServeStray, Apply
<1>4. ASSUME NEW r \in Replicas, Replica(r) PROVE PastOnly'
  <2>1. CASE Contend(r) BY <2>1 DEF Contend
  <2>2. CASE Renew(r) BY <2>2 DEF Renew
  <2>3. CASE ServeGet(r) BY <2>3 DEF ServeGet
  <2>4. CASE Create(r) BY <2>4 DEF Create, SendPut
  <2>5. CASE Take(r) BY <2>5 DEF Take, Takeable, UnchangedFor, Observe, SendPut
  <2>6. CASE LeaveHeld(r) BY <2>6 DEF LeaveHeld, Observe, Refused, EndAttempt, UnchangedFor
  <2>7. CASE AcceptPut(r) BY <2>7 DEF AcceptPut, Apply
  <2>8. CASE Renewed(r) BY <2>8 DEF Renewed
  <2>9. CASE Conflicted(r) BY <2>9 DEF Conflicted, Refused, EndAttempt
  <2>10. CASE Fail(r) BY <2>10 DEF Fail, Abandoned, EndAttempt
  <2>11. CASE StillNamed(r) BY <2>11 DEF StillNamed
  <2>12. CASE Superseded(r) BY <2>12 DEF Superseded, StandDown
  <2>13. CASE DeadlinePassed(r) BY <2>13 DEF DeadlinePassed, StandDown
  <2>14. CASE Release(r) BY <2>14 DEF Release
  <2>15. CASE ClearHolder(r) BY <2>15 DEF ClearHolder, SendPut
  <2>16. CASE Released(r) BY <2>16 DEF Released, StandDown, Abandoned
  <2>17. CASE Restart(r) BY <2>17 DEF Restart, Abandoned, EndAttempt
  <2>18. CASE PassGate(r) BY <2>18 DEF PassGate
  <2> QED BY <1>4, <2>1, <2>2, <2>3, <2>4, <2>5, <2>6, <2>7, <2>8, <2>9, <2>10, <2>11,
             <2>12, <2>13, <2>14, <2>15, <2>16, <2>17, <2>18 DEF Replica
<1>5. CASE UNCHANGED vars BY <1>5 DEF vars
<1>6. CASE UnelectedStarts BY <1>6 DEF UnelectedStarts
<1> QED BY <1>1, <1>2, <1>3, <1>4, <1>5, <1>6 DEF Next

\* A candidate past its gate keeps the instant it passed in, until its attempt ends.
LEMMA GateStep == ASSUME IInv, [Next]_vars PROVE GateOK'
<1> USE DEF IInv, GateOK, CallOK, HoldingOK, TypeOK, Holders, Write, Never, Call, Idle, Unseen, Phases, Steps
<1>1. CASE Tick BY <1>1 DEF Tick
<1>2. CASE UnelectedStops BY <1>2 DEF UnelectedStops
<1>3. ASSUME NEW w \in strays, ServeStray(w) PROVE GateOK' BY <1>3 DEF ServeStray, Apply
<1>4. ASSUME NEW r \in Replicas, Replica(r) PROVE GateOK'
  <2>1. CASE Contend(r) BY <2>1 DEF Contend
  <2>2. CASE Renew(r) BY <2>2 DEF Renew
  <2>3. CASE ServeGet(r) BY <2>3 DEF ServeGet
  <2>4. CASE Create(r) BY <2>4 DEF Create, SendPut
  <2>5. CASE Take(r) BY <2>5 DEF Take, Takeable, UnchangedFor, Observe, SendPut
  <2>6. CASE LeaveHeld(r) BY <2>6 DEF LeaveHeld, Observe, Refused, EndAttempt, UnchangedFor
  <2>7. CASE AcceptPut(r) BY <2>7 DEF AcceptPut, Apply
  <2>8. CASE Renewed(r) BY <2>8 DEF Renewed
  <2>9. CASE Conflicted(r) BY <2>9 DEF Conflicted, Refused, EndAttempt
  <2>10. CASE Fail(r) BY <2>10 DEF Fail, Abandoned, EndAttempt
  <2>11. CASE StillNamed(r) BY <2>11 DEF StillNamed
  <2>12. CASE Superseded(r) BY <2>12 DEF Superseded, StandDown
  <2>13. CASE DeadlinePassed(r) BY <2>13 DEF DeadlinePassed, StandDown
  <2>14. CASE Release(r) BY <2>14 DEF Release
  <2>15. CASE ClearHolder(r) BY <2>15 DEF ClearHolder, SendPut
  <2>16. CASE Released(r) BY <2>16 DEF Released, StandDown, Abandoned
  <2>17. CASE Restart(r) BY <2>17 DEF Restart, Abandoned, EndAttempt
  <2>18. CASE PassGate(r) BY <2>18 DEF PassGate
  <2> QED BY <1>4, <2>1, <2>2, <2>3, <2>4, <2>5, <2>6, <2>7, <2>8, <2>9, <2>10, <2>11,
             <2>12, <2>13, <2>14, <2>15, <2>16, <2>17, <2>18 DEF Replica
<1>5. CASE UNCHANGED vars BY <1>5 DEF vars
<1>6. CASE UnelectedStarts BY <1>6 DEF UnelectedStarts
<1> QED BY <1>1, <1>2, <1>3, <1>4, <1>5, <1>6 DEF Next

\* What the replicas, their calls and the stray writes know of the Lease stays true.
LEMMA KnowledgeStep ==
    ASSUME IInv, [Next]_vars, TypeOK', PastOnly'
    PROVE  /\ \A q \in Replicas : SeenInTime(q)' /\ CallOK(q)' /\ HoldingOK(q)'
           /\ \A w \in strays' : StrayOK(w)'
<1> DEFINE Known == /\ \A q \in Replicas : SeenInTime(q)' /\ CallOK(q)' /\ HoldingOK(q)'
                    /\ \A w \in strays' : StrayOK(w)'
<1> USE DEF IInv, PastOnly, SeenInTime, CallOK, HoldingOK, StrayOK, MayTake, Tenure,
            TypeOK, Holders, Write, Never, Call, Idle, Unseen, Phases, Steps
<1>1. CASE Tick BY <1>1 DEF Tick
<1>2. CASE UnelectedStops BY <1>2 DEF UnelectedStops
<1>3. ASSUME NEW w \in strays, ServeStray(w) PROVE Known BY <1>3 DEF ServeStray, Apply
<1>4. ASSUME NEW r \in Replicas, Replica(r) PROVE Known
  <2>1. CASE Contend(r) BY <2>1 DEF Contend
  <2>2. CASE Renew(r) BY <2>2 DEF Renew
  <2>3. CASE ServeGet(r) BY <2>3 DEF ServeGet
  <2>4. CASE Create(r) BY <2>4 DEF Create, SendPut
  <2>5. CASE Take(r) BY <2>5 DEF Take, Takeable, UnchangedFor, Observe, SendPut
  <2>6. CASE LeaveHeld(r) BY <2>6 DEF LeaveHeld, Observe, Refused, EndAttempt, UnchangedFor
  <2>7. CASE AcceptPut(r) BY <2>7 DEF AcceptPut, Apply
  <2>8. CASE Renewed(r) BY <2>8 DEF Renewed
  <2>9. CASE Conflicted(r) BY <2>9 DEF Conflicted, Refused, EndAttempt
  <2>10. CASE Fail(r) BY <2>10 DEF Fail, Abandoned, EndAttempt
  <2>11. CASE StillNamed(r) BY <2>11 DEF StillNamed
  <2>12. CASE Superseded(r) BY <2>12 DEF Superseded, StandDown
  <2>13. CASE DeadlinePassed(r) BY <2>13 DEF DeadlinePassed, StandDown
  <2>14. CASE Release(r) BY <2>14 DEF Release
  <2>15. CASE ClearHolder(r) BY <2>15 DEF ClearHolder, SendPut
  <2>16. CASE Released(r) BY <2>16 DEF Released, StandDown, Abandoned
  <2>17. CASE Restart(r) BY <2>17 DEF Restart, Abandoned, EndAttempt
  <2>18. CASE PassGate(r) BY <2>18 DEF PassGate
  <2> QED BY <1>4, <2>1, <2>2, <2>3, <2>4, <2>5, <2>6, <2>7, <2>8, <2>9, <2>10, <2>11,
             <2>12, <2>13, <2>14, <2>15, <2>16, <2>17, <2>18 DEF Replica
<1>5. CASE UNCHANGED vars BY <1>5 DEF vars
<1>6. CASE UnelectedStarts BY <1>6 DEF UnelectedStarts
<1> QED BY <1>1, <1>2, <1>3, <1>4, <1>5, <1>6 DEF Next

\* IInv is an invariant of the election.
LEMMA Invariance == Spec => []IInv
<1>1. IInv /\ [Next]_vars => IInv'
  BY TypeStep, PastOnlyStep, GateStep, KnowledgeStep DEF IInv
<1> QED BY InitEstablishes, <1>1, PTL DEF Spec

\* The variables keep their types (the type invariant of the election's state).
THEOREM TypeCorrect == Spec => []TypeOK
<1>1. IInv => TypeOK BY DEF IInv
<1> QED BY Invariance, <1>1, PTL

\* Whoever may still act as the holder is the replica the Lease names.
THEOREM HolderNamed == Spec => []HolderIsNamed
<1>1. IInv => HolderIsNamed
  BY DEF IInv, TypeOK, HolderIsNamed, HoldingOK, Tenure, Holds, Never
<1> QED BY Invariance, <1>1, PTL

\* Two replicas never run the writers at once.
THEOREM MutualExclusion == Spec => []AtMostOneHolder
<1>1. HolderIsNamed => AtMostOneHolder BY DEF HolderIsNamed, AtMostOneHolder
<1> QED BY HolderNamed, <1>1, PTL

\* A replica takes up the writers only past a gate it asked in that attempt: no
\* unelected replica that ran all along since its last attempt is ever joined.
THEOREM GateHolds == Spec => GateIsAskedAnew
<1> DEFINE Asked == \A r \in Gated : phase[r] = "contend" /\ phase'[r] = "hold" => r \in alone
<1>1. IInv /\ [Next]_vars => [Asked]_vars
  <2> SUFFICES ASSUME IInv, Next PROVE Asked OBVIOUS
  <2> USE DEF IInv, TypeOK, Phases
  <2>1. ASSUME NEW r \in Replicas, Renewed(r) PROVE Asked
    BY <2>1 DEF Renewed, GateOK
  <2>2. ASSUME NEW r \in Replicas, Superseded(r) \/ DeadlinePassed(r) \/ Released(r) PROVE Asked
    BY <2>2 DEF Superseded, DeadlinePassed, Released, StandDown
  <2>3. ASSUME NEW r \in Replicas, Release(r) \/ Restart(r) PROVE Asked
    BY <2>3 DEF Release, Restart
  <2>4. CASE UNCHANGED phase BY <2>4
  <2> QED BY <2>1, <2>2, <2>3, <2>4 DEF Next, Tick, UnelectedStops, UnelectedStarts, ServeStray, Replica,
             PassGate, Contend, Renew, ServeGet, Create, Take, LeaveHeld, AcceptPut, Conflicted, Fail,
             StillNamed, ClearHolder
<1> QED BY Invariance, <1>1, PTL DEF Spec, GateIsAskedAnew

\* The Lease passes between replicas only after a full term without a change.
THEOREM TermsAreHonoured == Spec => TakeoverWaits
<1> DEFINE Waits == lease.holder \in Replicas /\ lease'.holder \in Replicas \ {lease.holder}
                    => now >= changedAt + LEASE_DURATION
<1>1. IInv /\ [Next]_vars => [Waits]_vars
  <2> SUFFICES ASSUME IInv, Next PROVE Waits OBVIOUS
  <2> USE DEF IInv, TypeOK, Holders, Write, Never, Call, Idle, Unseen, Phases, Steps
  <2>1. ASSUME NEW w \in strays, ServeStray(w) PROVE Waits
    BY <2>1 DEF ServeStray, Apply, StrayOK, MayTake
  <2>2. ASSUME NEW r \in Replicas, AcceptPut(r) PROVE Waits
    BY <2>2 DEF AcceptPut, Apply, CallOK, MayTake
  <2>3. CASE UNCHANGED lease BY <2>3
  <2> QED BY <2>1, <2>2, <2>3 DEF Next, Tick, UnelectedStops, UnelectedStarts, Replica, PassGate, Contend, Renew, ServeGet, Create,
             Take, LeaveHeld, Renewed, Conflicted, Fail, StillNamed, Superseded, DeadlinePassed,
             Release, ClearHolder, Released, Restart
<1> QED BY Invariance, <1>1, PTL DEF Spec, TakeoverWaits

\* Each step of the election is a step of the abstract lease, or stutters.
LEMMA StepRefines ==
    ASSUME IInv, [Next]_vars PROVE [Abstract!LeaseNext]_(Abstract!leaseVars)
<1> USE DEF IInv, TypeOK, Holders, Write, Never, Phases, Steps
<1> DEFINE Done == [Abstract!LeaseNext]_(Abstract!leaseVars)
<1>1. ASSUME NEW r \in Replicas, Abstract!Grant(r) \/ Abstract!StopHolding(r) \/ Abstract!GiveBack(r)
      PROVE Done
  BY <1>1 DEF Abstract!LeaseNext
<1>2. ASSUME UNCHANGED <<now, lease, changedAt, renewedAt>> PROVE Done
  BY <1>2 DEF Abstract!leaseVars
<1>3. CASE Tick BY <1>3 DEF Tick, Abstract!LeaseNext, Abstract!Tick
<1>4. CASE UnelectedStops \/ UnelectedStarts BY <1>2, <1>4 DEF UnelectedStops, UnelectedStarts
<1>5. ASSUME NEW w \in strays, ServeStray(w) PROVE Done
  <2>1. CASE w.holder = w.from /\ MayTake(w.from)
    <3>1. Abstract!Grant(w.from) BY <1>5, <2>1 DEF ServeStray, Apply, MayTake, Abstract!Grant
    <3> QED BY <1>1, <3>1
  <2>2. CASE w.holder = NoHolder /\ lease.holder = w.from /\ renewedAt[w.from] = Never
    <3>1. Abstract!GiveBack(w.from)
      BY <1>5, <2>2 DEF ServeStray, Apply, Abstract!GiveBack, Abstract!Never
    <3> QED BY <1>1, <3>1
  <2> QED BY <2>1, <2>2 DEF StrayOK
<1>6. ASSUME NEW r \in Replicas, Replica(r) PROVE Done
  <2>1. CASE AcceptPut(r)
    <3>1. CASE phase[r] # "release"
      <4>1. Abstract!Grant(r) BY <2>1, <3>1 DEF AcceptPut, Apply, CallOK, MayTake, Abstract!Grant
      <4> QED BY <1>1, <4>1
    <3>2. CASE phase[r] = "release"
      <4>1. Abstract!GiveBack(r)
        BY <2>1, <3>2 DEF AcceptPut, Apply, CallOK, HoldingOK, Abstract!GiveBack, Abstract!Never
      <4> QED BY <1>1, <4>1
    <3> QED BY <3>1, <3>2
  <2>2. CASE Renewed(r)
    <3>1. attempt[r].at \in 0 .. now
      BY <2>2 DEF Renewed, CallOK, Tenure, PastOnly
    <3>2. Abstract!Confirm(r, attempt[r].at)
      BY <2>2 DEF Renewed, CallOK, Tenure, Abstract!Confirm
    <3> QED BY <3>1, <3>2 DEF Abstract!LeaseNext
  <2>3. CASE Superseded(r) \/ DeadlinePassed(r) \/ Released(r)
    <3>1. Abstract!StopHolding(r)
      BY <2>3 DEF Superseded, DeadlinePassed, Released, StandDown, Abstract!StopHolding, Abstract!Never
    <3> QED BY <1>1, <3>1
  <2>4. CASE Release(r) \/ Restart(r)
    <3>1. Abstract!StopHolding(r)
      BY <2>4 DEF Release, Restart, Abstract!StopHolding, Abstract!Never
    <3> QED BY <1>1, <3>1
  <2>5. CASE UNCHANGED <<now, lease, changedAt, renewedAt>> BY <1>2, <2>5
  <2> QED BY <1>6, <2>1, <2>2, <2>3, <2>4, <2>5 DEF Replica, PassGate, Contend, Renew, ServeGet, Create, Take,
             LeaveHeld, Conflicted, Fail, StillNamed, ClearHolder
<1>7. CASE UNCHANGED vars BY <1>2, <1>7 DEF vars
<1> QED BY <1>3, <1>4, <1>5, <1>6, <1>7 DEF Next

\* The election implements the abstract lease that HolderRoute is built on.
THEOREM Refinement == Spec => ImplementsLease
<1>1. Init => Abstract!Init
  BY DEF Init, Abstract!Init, Never, Abstract!Never
<1>2. IInv /\ [Next]_vars => [Abstract!LeaseNext]_(Abstract!leaseVars)
  BY StepRefines
<1> QED BY Invariance, <1>1, <1>2, PTL DEF Spec, ImplementsLease, Abstract!LeaseSpec

=============================================================================
