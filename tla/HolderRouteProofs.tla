-------------------------- MODULE HolderRouteProofs --------------------------
(***************************************************************************)
(* A route that landed stands, for any number of replicas, any durations   *)
(* the code's constants satisfy and any clock, when a process stands down  *)
(* before it gives the lease back.                                         *)
(*                                                                         *)
(* Two facts carry it.  A routing write that may still be sent belongs to  *)
(* the replica the lease is granted to, because it ends before the term    *)
(* does (InTime).  And a write another replica has sent names a version    *)
(* older than the one that landed, so the server refuses it (Standing).    *)
(***************************************************************************)
EXTENDS HolderRoute, TLAPS

Someone == Replicas \cup {NoHolder}

Writes == [step : {"none", "get", "got", "put"}, target : Someone, version : Nat, seen : Someone, until : Int]

Shape ==
    /\ now \in Nat /\ grantedAt \in 0 .. now /\ holder \in Someone
    /\ renewedAt \in [Replicas -> Int]
    /\ slice \in [version : Nat, names : Someone]
    /\ routing \in [Replicas -> {"Waiting", "Routed", "Withdrawn"}]
    /\ write \in [Replicas -> Writes]
    /\ late \subseteq [version : Nat, names : Someone]
    /\ landed \in [Replicas -> BOOLEAN]
    /\ tenure \in [Replicas -> {"candidate", "holding", "ended"}]
    /\ releasing \subseteq Replicas

\* A Holding stands for the grant, or its term has passed.
Tenured ==
    \A q \in Replicas : renewedAt[q] # Never =>
        (holder = q /\ renewedAt[q] <= grantedAt) \/ now >= renewedAt[q] + LEASE_DURATION

\* What a write under way is for, and what its read saw.
WritesOK ==
    \A q \in Replicas : write[q].step # "none" =>
        /\ \/ write[q].target = q /\ routing[q] = "Routed"
           \/ write[q].target = NoHolder /\ routing[q] = "Withdrawn"
        /\ write[q].step # "get" => write[q].version <= slice.version
        /\ write[q].step = "got" /\ write[q].version = slice.version => write[q].seen = slice.names

\* A routing write not sent yet is the grantee's, or too late to be sent.
InTime ==
    \A q \in Replicas : write[q].step \in {"get", "got"} /\ write[q].target = q =>
        (holder = q /\ write[q].until <= grantedAt + LEASE_DURATION) \/ now >= write[q].until

\* A replica that gives the lease back neither routes nor holds, and has no
\* route to lose.
ReleasingOK ==
    \A q \in releasing : /\ renewedAt[q] = Never /\ ~landed[q] /\ tenure[q] # "holding"
                         /\ write[q].step # "none" => write[q].target = NoHolder

\* Once r's route landed under its grant, no write but its own can change it.
Standing(r) ==
    /\ holder = r /\ slice.names = r /\ routing[r] = "Routed"
    /\ \A w \in late : w.names = r
    /\ \A q \in Replicas \ {r} : write[q].step = "put" => write[q].version # slice.version

IInv ==
    /\ Shape /\ Tenured /\ WritesOK /\ InTime /\ ReleasingOK
    /\ \A r \in Replicas : landed[r] => Standing(r)

-----------------------------------------------------------------------------
LEMMA InvInit == RouteInit => IInv
BY HolderAssumption
   DEF RouteInit, Init, IInv, Shape, Someone, Writes, NoWrite, Never, Tenured, WritesOK, InTime, ReleasingOK

LEMMA ShapeStep == ASSUME Shape, RouteNext PROVE Shape'
<1> USE WriteFitsTerm DEF Shape, Someone, tenureVars, sliceVars, leaseAndTenure
<1>1. CASE Tick /\ UNCHANGED <<tenureVars, sliceVars>>
    BY <1>1 DEF Tick
<1>2. ASSUME NEW w \in late, ServeLate(w) PROVE Shape'
    BY <1>2 DEF ServeLate, ApplySlice
<1>3. NoWrite \in Writes
    BY DEF NoWrite, Writes
<1>4. ASSUME NEW r \in Replicas PROVE Abandoned(r) \subseteq [version : Nat, names : Someone]
    BY DEF Abandoned, Writes
<1>5. ASSUME NEW r \in Replicas, Lease(r) PROVE Shape'
    <2>1. CASE GrantRoute(r) BY <2>1 DEF GrantRoute, Grant
    <2>2. ASSUME NEW t \in 0 .. now, Hold(r, t) PROVE Shape' BY <2>2 DEF Hold, Confirm
    <2>3. CASE Lose(r) BY <2>3 DEF Lose, StopHolding, Never
    <2>4. CASE BeginRelease(r) BY <2>4 DEF BeginRelease, StopHolding, Never
    <2>5. CASE Release(r) BY <2>5 DEF Release, GiveBack
    <2>6. CASE Restart(r) BY <1>3, <1>4, <2>6 DEF Restart, StopHolding, EndWrite, Never
    <2> QED BY <1>5, <2>1, <2>2, <2>3, <2>4, <2>5, <2>6 DEF Lease
<1>6. ASSUME NEW r \in Replicas, Route(r) PROVE Shape'
    BY <1>6 DEF Route, BeginWrite, Writes
<1>7. ASSUME NEW r \in Replicas, Withdraw(r) PROVE Shape'
    BY <1>7 DEF Withdraw, BeginWrite, Writes
<1>8. ASSUME NEW r \in Replicas, ServeRead(r) PROVE Shape'
    <2> DEFINE next == [write[r] EXCEPT !.step = "got", !.version = slice.version, !.seen = slice.names]
    <2>1. write[r] \in Writes /\ slice.version \in Nat /\ slice.names \in Someone
        OBVIOUS
    <2>2. next \in Writes
        BY <2>1 DEF Writes
    <2>3. write' = [write EXCEPT ![r] = next]
        BY <1>8 DEF ServeRead
    <2> HIDE DEF next
    <2>4. write' \in [Replicas -> Writes]
        BY <2>2, <2>3
    <2> QED
        BY <1>8, <2>4 DEF ServeRead
<1>9. ASSUME NEW r \in Replicas, SendWrite(r) PROVE Shape'
    <2>1. [write[r] EXCEPT !.step = "put"] \in Writes
        BY DEF Writes
    <2> QED
        BY <1>9, <2>1 DEF SendWrite
<1>10. ASSUME NEW r \in Replicas, NothingToWrite(r) PROVE Shape'
    BY <1>3, <1>10 DEF NothingToWrite, EndWrite
<1>11. ASSUME NEW r \in Replicas, AcceptWrite(r) PROVE Shape'
    BY <1>3, <1>11 DEF AcceptWrite, ApplySlice, EndWrite, Writes
<1>12. ASSUME NEW r \in Replicas, WriteFails(r) PROVE Shape'
    BY <1>3, <1>4, <1>12 DEF WriteFails, EndWrite
<1> QED
    BY <1>1, <1>2, <1>5, <1>6, <1>7, <1>8, <1>9, <1>10, <1>11, <1>12 DEF RouteNext

\* What a step on r's write leaves of it.
LEMMA ReadEffect ==
    ASSUME Shape, NEW r \in Replicas, ServeRead(r)
    PROVE  /\ \A q \in Replicas \ {r} : write'[q] = write[q]
           /\ write'[r].step = "got" /\ write'[r].version = slice.version /\ write'[r].seen = slice.names
           /\ write'[r].target = write[r].target /\ write'[r].until = write[r].until
<1> DEFINE next == [write[r] EXCEPT !.step = "got", !.version = slice.version, !.seen = slice.names]
<1>1. write[r] \in Writes
    BY DEF Shape
<1>2. /\ next.step = "got" /\ next.version = slice.version /\ next.seen = slice.names
      /\ next.target = write[r].target /\ next.until = write[r].until
    BY <1>1 DEF Writes
<1>3. write' = [write EXCEPT ![r] = next]
    BY DEF ServeRead
<1> HIDE DEF next
<1> QED
    BY <1>2, <1>3 DEF Shape

LEMMA SendEffect ==
    ASSUME Shape, NEW r \in Replicas, SendWrite(r)
    PROVE  /\ \A q \in Replicas \ {r} : write'[q] = write[q]
           /\ write'[r].step = "put" /\ write'[r].version = write[r].version
           /\ write'[r].target = write[r].target
<1> DEFINE next == [write[r] EXCEPT !.step = "put"]
<1>1. write[r] \in Writes
    BY DEF Shape
<1>2. next.step = "put" /\ next.version = write[r].version /\ next.target = write[r].target
    BY <1>1 DEF Writes
<1>3. write' = [write EXCEPT ![r] = next]
    BY DEF SendWrite
<1> HIDE DEF next
<1> QED
    BY <1>2, <1>3 DEF Shape

LEMMA EndEffect ==
    ASSUME Shape, NEW r \in Replicas, EndWrite(r)
    PROVE  /\ \A q \in Replicas \ {r} : write'[q] = write[q]
           /\ write'[r].step = "none"
BY DEF Shape, EndWrite, NoWrite

LEMMA BeginEffect ==
    ASSUME Shape, NEW r \in Replicas, NEW target, BeginWrite(r, target)
    PROVE  /\ \A q \in Replicas \ {r} : write'[q] = write[q]
           /\ write'[r].step = "get" /\ write'[r].target = target /\ write'[r].until = now + WRITE_TIMEOUT
BY DEF Shape, BeginWrite

-----------------------------------------------------------------------------
(* The lease. *)

LEMMA TickStep ==
    ASSUME IInv, Tick, UNCHANGED <<tenureVars, sliceVars>>, Shape'
    PROVE  IInv'
<1> USE WriteFitsTerm DEF tenureVars, sliceVars, Tick
<1>1. Tenured'
    BY DEF IInv, Shape, Tenured
<1>2. InTime'
    BY DEF IInv, Shape, InTime, Writes
<1>3. WritesOK' /\ ReleasingOK'
    BY DEF IInv, WritesOK, ReleasingOK
<1>4. \A r \in Replicas : landed'[r] => Standing(r)'
    BY DEF IInv, Standing
<1> QED
    BY <1>1, <1>2, <1>3, <1>4 DEF IInv

LEMMA GrantStep ==
    ASSUME IInv, NEW r \in Replicas, GrantRoute(r), Shape'
    PROVE  IInv'
<1> USE WriteFitsTerm DEF GrantRoute, Grant
<1>1. \A q \in Replicas : q # r => holder # q \/ now >= grantedAt + LEASE_DURATION
    BY HolderAssumption
<1>2. grantedAt \in Nat /\ now \in Nat /\ grantedAt' = now /\ grantedAt <= now
    BY DEF IInv, Shape
<1>3. Tenured'
    BY <1>1, <1>2 DEF IInv, Shape, Tenured
<1>4. InTime'
    BY <1>1, <1>2 DEF IInv, Shape, InTime, Writes
<1>5. WritesOK' /\ ReleasingOK'
    BY DEF IInv, Shape, WritesOK, ReleasingOK
<1>6. \A q \in Replicas : landed'[q] => Standing(q)'
    BY DEF IInv, Shape, Standing
<1> QED
    BY <1>3, <1>4, <1>5, <1>6 DEF IInv

LEMMA HoldStep ==
    ASSUME IInv, NEW r \in Replicas, NEW t \in 0 .. now, Hold(r, t), Shape'
    PROVE  IInv'
<1> USE WriteFitsTerm DEF Hold, Confirm, sliceVars
<1>1. Tenured'
    BY DEF IInv, Shape, Tenured
<1>2. InTime' /\ WritesOK'
    BY DEF IInv, InTime, WritesOK
<1>3. ReleasingOK'
    BY DEF IInv, Shape, ReleasingOK
<1>4. \A q \in Replicas : landed'[q] => Standing(q)'
    BY DEF IInv, Standing
<1> QED
    BY <1>1, <1>2, <1>3, <1>4 DEF IInv

LEMMA LoseStep ==
    ASSUME IInv, NEW r \in Replicas, Lose(r), Shape'
    PROVE  IInv'
<1> USE DEF Lose, StopHolding, sliceVars
<1>1. Tenured' /\ ReleasingOK'
    BY DEF IInv, Shape, Tenured, ReleasingOK
<1>2. InTime' /\ WritesOK'
    BY DEF IInv, InTime, WritesOK
<1>3. \A q \in Replicas : landed'[q] => Standing(q)'
    BY DEF IInv, Standing
<1> QED
    BY <1>1, <1>2, <1>3 DEF IInv

\* The routes are withdrawn before the release begins.
LEMMA BeginReleaseStep ==
    ASSUME ~EndsAbruptly, IInv, NEW r \in Replicas, BeginRelease(r), Shape'
    PROVE  IInv'
<1> USE DEF BeginRelease, StopHolding, sliceVars
<1>1. ~landed[r]
    BY DEF IInv, Standing
<1>2. Tenured'
    BY DEF IInv, Shape, Tenured
<1>3. ReleasingOK'
    BY <1>1 DEF IInv, Shape, ReleasingOK
<1>4. InTime' /\ WritesOK'
    BY DEF IInv, InTime, WritesOK
<1>5. \A q \in Replicas : landed'[q] => Standing(q)'
    BY DEF IInv, Standing
<1> QED
    BY <1>2, <1>3, <1>4, <1>5 DEF IInv

LEMMA ReleaseStep ==
    ASSUME IInv, NEW r \in Replicas, Release(r), Shape'
    PROVE  IInv'
<1> USE HolderAssumption DEF Release, GiveBack, sliceVars
<1>1. Tenured'
    BY DEF IInv, Shape, Tenured
<1>2. InTime'
    BY DEF IInv, Shape, InTime, ReleasingOK
<1>3. WritesOK' /\ ReleasingOK'
    BY DEF IInv, WritesOK, ReleasingOK
<1>4. \A q \in Replicas : landed'[q] => Standing(q)'
    BY DEF IInv, Standing, ReleasingOK
<1> QED
    BY <1>1, <1>2, <1>3, <1>4 DEF IInv

\* What a caller leaves to the network names a version the server refuses, or
\* is its own route.
LEMMA AbandonedNames ==
    ASSUME IInv, NEW r \in Replicas, NEW q \in Replicas, landed[q], NEW w \in Abandoned(r)
    PROVE  w.names = q
<1>1. /\ write[r].step = "put" /\ write[r].version = slice.version
      /\ w = [version |-> write[r].version, names |-> write[r].target]
    BY DEF Abandoned
<1>2. r = q
    BY <1>1 DEF IInv, Standing
<1>3. write[r].target = q
    BY <1>1, <1>2 DEF IInv, Standing, WritesOK
<1> QED
    BY <1>1, <1>3

LEMMA RestartStep ==
    ASSUME IInv, NEW r \in Replicas, Restart(r), Shape'
    PROVE  IInv'
<1> USE DEF Restart, StopHolding
<1>1. (\A q \in Replicas \ {r} : write'[q] = write[q]) /\ write'[r].step = "none"
    BY EndEffect DEF IInv
<1>2. /\ \A q \in Replicas \ {r} : /\ routing'[q] = routing[q] /\ landed'[q] = landed[q] /\ tenure'[q] = tenure[q]
                                   /\ renewedAt'[q] = renewedAt[q]
      /\ ~landed'[r] /\ renewedAt'[r] = Never /\ tenure'[r] # "holding"
    BY DEF IInv, Shape
<1>3. Tenured'
    BY <1>2 DEF IInv, Tenured
<1>4. InTime' /\ WritesOK' /\ ReleasingOK'
    BY <1>1, <1>2 DEF IInv, InTime, WritesOK, ReleasingOK, Shape
<1>5. ASSUME NEW q \in Replicas, landed'[q]
      PROVE  Standing(q)'
    <2>1. q # r /\ landed[q] /\ Standing(q)
        BY <1>2, <1>5 DEF IInv
    <2>2. \A w \in late' : w.names = q
        BY <2>1, AbandonedNames DEF Standing
    <2> QED
        BY <1>1, <1>2, <2>1, <2>2 DEF Standing
<1> QED
    BY <1>3, <1>4, <1>5 DEF IInv

-----------------------------------------------------------------------------
(* The routing. *)

\* A pass begins while the lease is held, so its write ends within the term.
LEMMA RouteStep ==
    ASSUME IInv, NEW r \in Replicas, Route(r), Shape'
    PROVE  IInv'
<1> USE DEF Route, leaseAndTenure
<1>1. /\ \A q \in Replicas \ {r} : write'[q] = write[q]
      /\ write'[r].step = "get" /\ write'[r].target = r /\ write'[r].until = now + WRITE_TIMEOUT
    BY BeginEffect DEF IInv
<1>2. /\ \A q \in Replicas \ {r} : routing'[q] = routing[q]
      /\ routing'[r] = "Routed"
    BY DEF IInv, Shape
<1>3. renewedAt[r] # Never /\ now < renewedAt[r] + RENEW_DEADLINE
    BY DEF Holds
<1>4. holder = r /\ now + WRITE_TIMEOUT <= grantedAt + LEASE_DURATION
    <2>1. now \in Nat /\ grantedAt \in Nat /\ renewedAt[r] \in Int
        BY DEF IInv, Shape
    <2>2. (holder = r /\ renewedAt[r] <= grantedAt) \/ now >= renewedAt[r] + LEASE_DURATION
        BY <1>3 DEF IInv, Tenured
    <2> QED
        BY <1>3, <2>1, <2>2, WriteFitsTerm
<1>5. Tenured'
    BY DEF IInv, Tenured
<1>6. InTime'
    BY <1>1, <1>4 DEF IInv, InTime
<1>7. WritesOK'
    BY <1>1, <1>2 DEF IInv, WritesOK
<1>8. ReleasingOK'
    BY <1>1, <1>3 DEF IInv, Shape, ReleasingOK
<1>9. \A q \in Replicas : landed'[q] => Standing(q)'
    BY <1>1, <1>2 DEF IInv, Standing
<1> QED
    BY <1>5, <1>6, <1>7, <1>8, <1>9 DEF IInv

LEMMA WithdrawStep ==
    ASSUME IInv, NEW r \in Replicas, Withdraw(r), Shape'
    PROVE  IInv'
<1> USE DEF Withdraw, leaseAndTenure
<1>1. /\ \A q \in Replicas \ {r} : write'[q] = write[q]
      /\ write'[r].step \in {"none", "get"}
      /\ write'[r].step = "get" => write'[r].target = NoHolder
    BY BeginEffect DEF IInv
<1>2. /\ \A q \in Replicas \ {r} : routing'[q] = routing[q] /\ landed'[q] = landed[q]
      /\ routing'[r] = "Withdrawn" /\ ~landed'[r]
    BY DEF IInv, Shape
<1>3. Tenured'
    BY DEF IInv, Tenured
<1>4. InTime'
    BY <1>1, HolderAssumption DEF IInv, InTime
<1>5. WritesOK'
    BY <1>1, <1>2 DEF IInv, WritesOK
<1>6. ReleasingOK'
    BY <1>1, <1>2 DEF IInv, Shape, ReleasingOK
<1>7. \A q \in Replicas : landed'[q] => Standing(q)'
    BY <1>1, <1>2 DEF IInv, Standing
<1> QED
    BY <1>3, <1>4, <1>5, <1>6, <1>7 DEF IInv

-----------------------------------------------------------------------------
(* One slice write. *)

LEMMA ReadStep ==
    ASSUME IInv, NEW r \in Replicas, ServeRead(r), Shape'
    PROVE  IInv'
<1>1. /\ \A q \in Replicas \ {r} : write'[q] = write[q]
      /\ write'[r].step = "got" /\ write'[r].version = slice.version /\ write'[r].seen = slice.names
      /\ write'[r].target = write[r].target /\ write'[r].until = write[r].until
    BY ReadEffect DEF IInv
<1> USE DEF ServeRead, leaseAndTenure
<1>2. Tenured'
    BY DEF IInv, Tenured
<1>3. InTime'
    BY <1>1 DEF IInv, InTime
<1>4. WritesOK'
    <2>1. slice.version \in Nat
        BY DEF IInv, Shape
    <2> QED
        BY <1>1, <2>1 DEF IInv, WritesOK
<1>5. ReleasingOK'
    BY <1>1 DEF IInv, Shape, ReleasingOK
<1>6. \A q \in Replicas : landed'[q] => Standing(q)'
    BY <1>1 DEF IInv, Standing
<1> QED
    BY <1>2, <1>3, <1>4, <1>5, <1>6 DEF IInv

\* Under a landed route of q no other replica sends a write the server would
\* take: a route is out of time, and a withdrawal has nothing to clear.
LEMMA SendStep ==
    ASSUME IInv, NEW r \in Replicas, SendWrite(r), Shape'
    PROVE  IInv'
<1>1. /\ \A q \in Replicas \ {r} : write'[q] = write[q]
      /\ write'[r].step = "put" /\ write'[r].version = write[r].version
      /\ write'[r].target = write[r].target
    BY SendEffect DEF IInv
<1> USE DEF SendWrite, leaseAndTenure
<1>2. Tenured'
    BY DEF IInv, Tenured
<1>3. InTime'
    BY <1>1 DEF IInv, InTime
<1>4. WritesOK'
    BY <1>1 DEF IInv, WritesOK
<1>5. ReleasingOK'
    BY <1>1 DEF IInv, Shape, ReleasingOK
<1>6. ASSUME NEW q \in Replicas, landed[q], q # r
      PROVE  write[r].version # slice.version
    <2> SUFFICES ASSUME write[r].version = slice.version PROVE FALSE
        OBVIOUS
    <2>1. holder = q /\ slice.names = q
        BY <1>6 DEF IInv, Standing
    <2>2. write[r].seen = q
        BY <2>1 DEF IInv, WritesOK
    <2>3. write[r].target = r
        BY <1>6, <2>2 DEF IInv, WritesOK, MustWrite
    <2>4. now >= write[r].until
        BY <1>6, <2>1, <2>3 DEF IInv, InTime
    <2>5. now \in Nat /\ write[r].until \in Int
        BY DEF IInv, Shape, Writes
    <2> QED
        BY <2>4, <2>5
<1>7. \A q \in Replicas : landed'[q] => Standing(q)'
    BY <1>1, <1>6 DEF IInv, Standing
<1> QED
    BY <1>2, <1>3, <1>4, <1>5, <1>7 DEF IInv

LEMMA NothingStep ==
    ASSUME IInv, NEW r \in Replicas, NothingToWrite(r), Shape'
    PROVE  IInv'
<1> USE DEF NothingToWrite, leaseAndTenure
<1>1. (\A q \in Replicas \ {r} : write'[q] = write[q]) /\ write'[r].step = "none"
    BY EndEffect DEF IInv
<1>2. Tenured'
    BY DEF IInv, Tenured
<1>3. InTime' /\ WritesOK' /\ ReleasingOK'
    BY <1>1 DEF IInv, InTime, WritesOK, ReleasingOK, Shape
<1>4. \A q \in Replicas : landed'[q] => Standing(q)'
    BY <1>1 DEF IInv, Standing
<1> QED
    BY <1>2, <1>3, <1>4 DEF IInv

LEMMA FailStep ==
    ASSUME IInv, NEW r \in Replicas, WriteFails(r), Shape'
    PROVE  IInv'
<1> USE DEF WriteFails, leaseAndTenure
<1>1. (\A q \in Replicas \ {r} : write'[q] = write[q]) /\ write'[r].step = "none"
    BY EndEffect DEF IInv
<1>2. Tenured'
    BY DEF IInv, Tenured
<1>3. InTime' /\ WritesOK' /\ ReleasingOK'
    BY <1>1 DEF IInv, InTime, WritesOK, ReleasingOK, Shape
<1>4. ASSUME NEW q \in Replicas, landed'[q]
      PROVE  Standing(q)'
    <2>1. landed[q] /\ Standing(q)
        BY <1>4 DEF IInv
    <2>2. \A w \in late' : w.names = q
        BY <2>1, AbandonedNames DEF Standing
    <2> QED
        BY <1>1, <2>1, <2>2 DEF Standing
<1> QED
    BY <1>2, <1>3, <1>4 DEF IInv

\* Once the slice has moved on, every write sent before names an old version.
LEMMA MovedOn ==
    ASSUME IInv, NEW q \in Replicas, write[q].step # "none", write[q].step # "get"
    PROVE  write[q].version \in Nat /\ write[q].version <= slice.version /\ slice.version \in Nat
BY DEF IInv, Shape, Writes, WritesOK

\* The server took r's write, so no other replica's route stands; r's own does
\* when it holds the lease.
LEMMA AcceptStep ==
    ASSUME IInv, NEW r \in Replicas, AcceptWrite(r), Shape'
    PROVE  IInv'
<1> USE DEF AcceptWrite, ApplySlice, leaseAndTenure
<1>1. (\A q \in Replicas \ {r} : write'[q] = write[q]) /\ write'[r].step = "none"
    BY EndEffect DEF IInv
<1>2. slice.version \in Nat /\ slice'.version = slice.version + 1 /\ slice'.names = write[r].target
    BY DEF IInv, Shape
<1>3. /\ \A q \in Replicas \ {r} : landed'[q] = landed[q] /\ ~landed[q]
      /\ landed'[r] => write[r].target = r /\ holder = r
    BY DEF IInv, Shape, Standing
<1>4. Tenured' /\ InTime'
    BY <1>1 DEF IInv, Tenured, InTime
<1>5. WritesOK'
    BY <1>1, <1>2, MovedOn DEF IInv, WritesOK
<1>6. ReleasingOK'
    BY <1>1, <1>3, HolderAssumption DEF IInv, Shape, ReleasingOK
<1>7. ASSUME NEW q \in Replicas, landed'[q]
      PROVE  Standing(q)'
    <2>1. q = r /\ write[r].target = r /\ holder = r
        BY <1>3, <1>7
    <2>2. routing[r] = "Routed"
        BY <2>1, HolderAssumption DEF IInv, WritesOK
    <2>3. \A p \in Replicas \ {r} : write'[p].step = "put" => write'[p].version # slice'.version
        BY <1>1, <1>2, MovedOn
    <2> QED
        BY <1>2, <2>1, <2>2, <2>3 DEF Standing
<1> QED
    BY <1>4, <1>5, <1>6, <1>7 DEF IInv

LEMMA LateStep ==
    ASSUME IInv, NEW w \in late, ServeLate(w), Shape'
    PROVE  IInv'
<1> USE DEF ServeLate, ApplySlice, leaseAndTenure
<1>1. slice.version \in Nat /\ slice'.version = slice.version + 1 /\ slice'.names = w.names
    BY DEF IInv, Shape
<1>2. Tenured' /\ InTime' /\ ReleasingOK'
    BY DEF IInv, Tenured, InTime, ReleasingOK
<1>3. WritesOK'
    BY <1>1, MovedOn DEF IInv, WritesOK
<1>4. ASSUME NEW q \in Replicas, landed'[q]
      PROVE  Standing(q)'
    <2>1. Standing(q)
        BY <1>4 DEF IInv
    <2>2. \A p \in Replicas \ {q} : write'[p].step = "put" => write'[p].version # slice'.version
        BY <1>1, MovedOn
    <2> QED
        BY <1>1, <2>1, <2>2 DEF Standing
<1> QED
    BY <1>2, <1>3, <1>4 DEF IInv

-----------------------------------------------------------------------------
LEMMA InvStep ==
    ASSUME ~EndsAbruptly, IInv, [RouteNext]_vars
    PROVE  IInv'
<1>1. CASE UNCHANGED vars
    BY <1>1 DEF vars, leaseVars, tenureVars, sliceVars, IInv, Shape, Tenured, WritesOK, InTime, ReleasingOK, Standing
<1>2. CASE RouteNext
    <2>1. Shape'
        BY <1>2, ShapeStep DEF IInv
    <2>2. ASSUME NEW r \in Replicas, Lease(r) PROVE IInv'
        BY <2>1, <2>2, GrantStep, HoldStep, LoseStep, BeginReleaseStep, ReleaseStep, RestartStep DEF Lease
    <2> QED
        BY <1>2, <2>1, <2>2, TickStep, LateStep, RouteStep, WithdrawStep, ReadStep, SendStep, NothingStep,
           AcceptStep, FailStep DEF RouteNext
<1> QED
    BY <1>1, <1>2

\* A holder whose routing write landed in this tenure stays the endpoint of its
\* Service, whatever writes of earlier holders are still in the network: route_when
\* bounds each write by WRITE_TIMEOUT, which fits between the renewal deadline and
\* the end of the term, and the API server refuses a stale resourceVersion
\* (holder_route.rs, leader.rs).  It needs StandDown::begin to run before the release,
\* which an abrupt end of main does not: that is the hypothesis.
THEOREM RouteStands == ASSUME ~EndsAbruptly PROVE RouteSpec => []LandedRouteStands
<1>1. RouteInit => IInv
    BY InvInit
<1>2. IInv /\ [RouteNext]_vars => IInv'
    BY InvStep
<1>3. IInv => LandedRouteStands
    BY DEF IInv, Standing, LandedRouteStands
<1> QED
    BY <1>1, <1>2, <1>3, PTL DEF RouteSpec

=============================================================================
