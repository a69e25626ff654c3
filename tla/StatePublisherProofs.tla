------------------------- MODULE StatePublisherProofs -------------------------
(***************************************************************************)
(* The safety properties of StatePublisher, for any provider states, trust *)
(* policies and channel bounds.                                            *)
(***************************************************************************)
EXTENDS StatePublisher, SequenceTheorems, TLAPS

-----------------------------------------------------------------------------
(* Invariants *)

\* At most one waiter is still listening, in the channel or among the pending,
\* and only while the reconcile waits; a reconcile waits only for a deletion, and
\* on a SWIM runtime, and what it was told was published since.
WaitersOK ==
    /\ ctl # "idle" => net = "deleting" /\ swim = TRUE
    /\ ctl = "acked" => withdrawn = TRUE
    /\ TRUE \in pending => /\ ctl = "waiting"
                           /\ \A i \in DOMAIN requests : requests[i] = FALSE
    /\ \A i \in DOMAIN requests : requests[i] = TRUE =>
           /\ ctl = "waiting"
           /\ \A j \in DOMAIN requests : j # i => requests[j] = FALSE

IInv == TypeOK /\ WaitersOK

-----------------------------------------------------------------------------
(* Types *)

LEMMA NewestType ==
    ASSUME TypeOK
    PROVE  Newest \in Trusts
BY DEF TypeOK, Newest

LEMMA SendsType ==
    ASSUME TypeOK, NEW t \in Trusts, Sends(t)
    PROVE  updates' \in Seq(Trusts)
<1>1. updates \in Seq(Trusts)
    BY DEF TypeOK
<1>2. Append(updates, t) \in Seq(Trusts)
    BY <1>1
<1>3. [updates EXCEPT ![UpdateCap] = t] \in Seq(Trusts)
    <2>1. PICK n \in Nat : updates \in [1..n -> Trusts]
        BY <1>1
    <2> DEFINE f == [updates EXCEPT ![UpdateCap] = t]
    <2>2. f \in [1..n -> Trusts]
        BY <2>1
    <2> HIDE DEF f
    <2>3. f \in Seq(Trusts)
        BY <2>2
    <2> QED
        BY <2>3 DEF f
<1> QED
    BY <1>1, <1>2, <1>3 DEF Sends

LEMMA MessageType ==
    ASSUME NEW what \in Contents \cup {None, Withdrawal}, NEW t
    PROVE  Message(what, t) \in [what : Contents \cup {None, Withdrawal}, signed : BOOLEAN]
BY DEF Message

LEMMA EmptyChannels ==
    <<>> \in Seq(Contents) /\ <<>> \in Seq(Trusts) /\ <<>> \in Seq(BOOLEAN)
OBVIOUS

LEMMA TypeInit == Init => TypeOK
<1> SUFFICES ASSUME Init PROVE TypeOK
    OBVIOUS
<1>1. said \in [what : Contents \cup {None, Withdrawal}, signed : BOOLEAN]
    BY DEF Init
<1>2. held \in BOOLEAN /\ due \in BOOLEAN /\ withdrawn \in BOOLEAN /\ pending \subseteq BOOLEAN
    BY DEF Init
<1>3. broadcasts \in Seq(Contents) /\ updates \in Seq(Trusts) /\ requests \in Seq(BOOLEAN)
    BY EmptyChannels DEF Init
<1> QED
    BY <1>1, <1>2, <1>3 DEF Init, TypeOK, Trusts

LEMMA TypeStep == TypeOK /\ [Next]_vars => TypeOK'
<1> SUFFICES ASSUME TypeOK, [Next]_vars PROVE TypeOK'
    OBVIOUS
<1> USE DEF user, queues
<1>1. CASE Create
    BY <1>1 DEF TypeOK, Create
<1>2. CASE Delete
    BY <1>2 DEF TypeOK, Delete
<1>3. ASSUME NEW c \in Contents, NEW t \in Policies, Edit(c, t) PROVE TypeOK'
    BY <1>3 DEF TypeOK, Edit
<1>4. CASE AddFinalizer
    BY <1>4 DEF TypeOK, AddFinalizer
<1>5. ASSUME NEW publishes \in BOOLEAN, Reconcile(publishes) PROVE TypeOK'
    <2>1. policy \in Trusts
        BY PoliciesAssumption DEF TypeOK
    <2>2. updates' \in Seq(Trusts)
        BY <1>5, <2>1, SendsType DEF Reconcile
    <2> QED
        BY <1>5, <2>2 DEF TypeOK, Reconcile
<1>6. CASE RequestWithdrawal
    BY <1>6 DEF TypeOK, RequestWithdrawal
<1>7. CASE Timeout
    <2>1. requests' \in Seq(BOOLEAN)
        <3>1. requests \in Seq(BOOLEAN) /\ requests' = [i \in DOMAIN requests |-> FALSE]
            BY <1>7 DEF TypeOK, Timeout
        <3>2. PICK n \in Nat : DOMAIN requests = 1..n
            BY <3>1
        <3>3. requests' = [i \in 1..n |-> FALSE]
            BY <3>1, <3>2
        <3>4. [i \in 1..n |-> FALSE] \in [1..n -> BOOLEAN]
            BY Zenon
        <3> QED
            BY <3>3, <3>4
    <2>2. pending' \subseteq BOOLEAN /\ (pending' # {} => pending # {})
        BY <1>7 DEF TypeOK, Timeout
    <2> QED
        BY <1>7, <2>1, <2>2 DEF TypeOK, Timeout
<1>8. ASSUME NEW patched \in BOOLEAN, Finish(patched) PROVE TypeOK'
    <2>1. updates' \in Seq(Trusts)
        BY <1>8, SendsType DEF Finish, Trusts
    <2> QED
        BY <1>8, <2>1 DEF TypeOK, Finish
<1>9. CASE ApplyTrust
    <2>1. trust' \in Trusts /\ updates' \in Seq(Trusts)
        BY <1>9 DEF TypeOK, ApplyTrust
    <2>2. held' \in BOOLEAN
        BY <1>9 DEF ApplyTrust
    <2> QED
        BY <1>9, <2>1, <2>2 DEF TypeOK, ApplyTrust
<1>10. CASE TakeBroadcast
    <2>1. broadcasts' \in Seq(Contents) /\ Head(broadcasts) \in Contents
        BY <1>10 DEF TypeOK, TakeBroadcast
    <2>2. CASE DiscardState
        BY <1>10, <2>1, <2>2 DEF TypeOK, TakeBroadcast, DiscardState
    <2>3. CASE RetainState
        BY <1>10, <2>1, <2>3 DEF TypeOK, TakeBroadcast, RetainState
    <2>4. CASE RepeatedState
        BY <1>10, <2>1, <2>4 DEF TypeOK, TakeBroadcast, RepeatedState
    <2>5. CASE PublishState
        <3>1. Message(Head(broadcasts), trust') \in [what : Contents \cup {None, Withdrawal}, signed : BOOLEAN]
            BY <2>1, MessageType
        <3>2. said' \in [what : Contents \cup {None, Withdrawal}, signed : BOOLEAN]
            BY <2>5, <3>1 DEF TypeOK, PublishState
        <3>3. trust' \in Trusts /\ updates' \in Seq(Trusts) /\ held' \in BOOLEAN
            BY <2>5, NewestType DEF TypeOK, PublishState
        <3> QED
            BY <1>10, <2>1, <2>5, <3>2, <3>3 DEF TypeOK, TakeBroadcast, PublishState
    <2> QED
        BY <1>10, <2>2, <2>3, <2>4, <2>5 DEF TakeBroadcast
<1>11. ASSUME NEW revision \in BOOLEAN, TakeWithdrawal(revision) PROVE TypeOK'
    <2>1. requests' \in Seq(BOOLEAN) /\ QueuedWaiters \subseteq BOOLEAN
        <3>1. requests \in Seq(BOOLEAN) /\ requests # <<>> /\ requests' = Tail(requests)
            BY <1>11 DEF TypeOK, TakeWithdrawal
        <3>2. Head(requests) \in BOOLEAN /\ Tail(requests) \in Seq(BOOLEAN)
            BY <3>1
        <3> QED
            BY <3>1, <3>2 DEF TypeOK, QueuedWaiters
    <2>2. Message(Withdrawal, trust) \in [what : Contents \cup {None, Withdrawal}, signed : BOOLEAN]
        BY MessageType
    <2>3. said' \in [what : Contents \cup {None, Withdrawal}, signed : BOOLEAN]
        BY <1>11, <2>2 DEF TypeOK, TakeWithdrawal
    <2>4. ctl' \in {"idle", "waiting", "acked"} /\ withdrawn' \in BOOLEAN /\ pending' \subseteq BOOLEAN
        BY <1>11, <2>1 DEF TypeOK, TakeWithdrawal, Settle
    <2> QED
        BY <1>11, <2>1, <2>3, <2>4 DEF TypeOK, TakeWithdrawal
<1>12. ASSUME NEW revision \in BOOLEAN, NEW enough \in BOOLEAN, Tick(revision, enough) PROVE TypeOK'
    <2> DEFINE withdraws == pending # {} /\ Publishes(revision)
    <2>1. /\ Settle(pending, withdraws)
          /\ retained' = IF withdraws THEN None ELSE retained
          /\ said' = IF withdraws THEN Message(Withdrawal, trust)
                     ELSE IF due /\ retained # None /\ Publishes(revision) THEN Message(retained, trust)
                     ELSE said
          /\ due' = (due /\ ~enough)
          /\ UNCHANGED <<user, swim, queues, trust, held, others>>
        BY <1>12 DEF Tick
    <2> HIDE DEF withdraws
    <2>2. /\ Message(Withdrawal, trust) \in [what : Contents \cup {None, Withdrawal}, signed : BOOLEAN]
          /\ Message(retained, trust) \in [what : Contents \cup {None, Withdrawal}, signed : BOOLEAN]
        BY MessageType DEF TypeOK
    <2>3. said' \in [what : Contents \cup {None, Withdrawal}, signed : BOOLEAN]
        BY <2>1, <2>2 DEF TypeOK
    <2>4. ctl' \in {"idle", "waiting", "acked"} /\ withdrawn' \in BOOLEAN /\ pending' \subseteq BOOLEAN
        BY <2>1 DEF TypeOK, Settle
    <2>5. pending' # {} => retained' = None
        BY <2>1 DEF TypeOK, Settle
    <2>6. due' \in BOOLEAN /\ retained' \in Contents \cup {None}
        BY <2>1 DEF TypeOK
    <2> QED
        BY <2>1, <2>3, <2>4, <2>5, <2>6 DEF TypeOK
<1>13. CASE BecomeDue
    BY <1>13 DEF TypeOK, BecomeDue
<1>14. ASSUME NEW t \in Others, ApplyOther(t) PROVE TypeOK'
    BY <1>14, PoliciesAssumption DEF TypeOK, ApplyOther
<1>15. CASE Restart
    <2>1. held' \in BOOLEAN /\ due' \in BOOLEAN /\ pending' \subseteq BOOLEAN
        BY <1>15 DEF Restart
    <2>2. broadcasts' \in Seq(Contents) /\ updates' \in Seq(Trusts) /\ requests' \in Seq(BOOLEAN)
        BY <1>15, EmptyChannels DEF Restart
    <2> QED
        BY <1>15, <2>1, <2>2 DEF TypeOK, Restart, Trusts
<1>16. CASE UNCHANGED vars
    BY <1>16 DEF TypeOK, vars
<1>17. CASE StartSwim
    BY <1>17 DEF TypeOK, StartSwim
<1>18. CASE FinishWithoutSwim
    BY <1>18 DEF TypeOK, FinishWithoutSwim
<1> QED
    BY <1>1, <1>2, <1>3, <1>4, <1>5, <1>6, <1>7, <1>8, <1>9, <1>10, <1>11, <1>12, <1>13, <1>14, <1>15, <1>16, <1>17, <1>18
       DEF Next, User, Controller, Loop

-----------------------------------------------------------------------------
(* The waiters *)

\* What taking the oldest request leaves in the channel.
LEMMA TailWaiters ==
    ASSUME TypeOK, WaitersOK, requests # <<>>
    PROVE  /\ Head(requests) \in BOOLEAN
           /\ Head(requests) = TRUE =>
                  ctl = "waiting" /\ \A i \in DOMAIN Tail(requests) : Tail(requests)[i] = FALSE
           /\ \A i \in DOMAIN Tail(requests) : Tail(requests)[i] = TRUE =>
                  /\ ctl = "waiting"
                  /\ \A j \in DOMAIN Tail(requests) : j # i => Tail(requests)[j] = FALSE
           /\ TRUE \in pending => \A i \in DOMAIN Tail(requests) : Tail(requests)[i] = FALSE
<1>1. requests \in Seq(BOOLEAN) /\ Len(requests) \in Nat /\ Len(requests) > 0
    BY DEF TypeOK
<1>2. /\ Head(requests) = requests[1]
      /\ 1 \in DOMAIN requests
      /\ \A i \in DOMAIN Tail(requests) :
             i + 1 \in DOMAIN requests /\ i + 1 # 1 /\ i \in Nat /\ Tail(requests)[i] = requests[i + 1]
    BY <1>1
<1>3. Head(requests) \in BOOLEAN
    BY <1>1
<1>4. Head(requests) = TRUE =>
          ctl = "waiting" /\ \A i \in DOMAIN Tail(requests) : Tail(requests)[i] = FALSE
    BY <1>2 DEF WaitersOK
<1>5. ASSUME NEW i \in DOMAIN Tail(requests), Tail(requests)[i] = TRUE
      PROVE  ctl = "waiting" /\ \A j \in DOMAIN Tail(requests) : j # i => Tail(requests)[j] = FALSE
    <2>1. ctl = "waiting" /\ \A k \in DOMAIN requests : k # i + 1 => requests[k] = FALSE
        BY <1>2, <1>5 DEF WaitersOK
    <2>2. ASSUME NEW j \in DOMAIN Tail(requests), j # i PROVE Tail(requests)[j] = FALSE
        <3>1. j + 1 # i + 1
            BY <1>2, <2>2
        <3> QED
            BY <1>2, <2>1, <3>1
    <2> QED
        BY <2>1, <2>2
<1>6. TRUE \in pending => \A i \in DOMAIN Tail(requests) : Tail(requests)[i] = FALSE
    BY <1>2 DEF WaitersOK
<1> QED
    BY <1>3, <1>4, <1>5, <1>6

\* The waiters after publish_pending_withdrawals has run for the grid.
LEMMA Settled ==
    ASSUME TypeOK, WaitersOK, NEW waiters \in SUBSET BOOLEAN, NEW out \in BOOLEAN, Settle(waiters, out),
           TRUE \in waiters => ctl = "waiting", net' = net, swim' = swim
    PROVE  /\ ctl' # "idle" => net' = "deleting" /\ swim' = TRUE
           /\ ctl' = "acked" => withdrawn' = TRUE
           /\ TRUE \in pending' => TRUE \in waiters /\ ctl' = "waiting"
           /\ ctl = "waiting" => ctl' = "waiting" \/ TRUE \in waiters
<1>1. CASE out = TRUE
    BY <1>1 DEF TypeOK, WaitersOK, Settle
<1>2. CASE out = FALSE
    BY <1>2 DEF TypeOK, WaitersOK, Settle
<1> QED
    BY <1>1, <1>2

LEMMA WaitersStep == IInv /\ [Next]_vars => WaitersOK'
<1> SUFFICES ASSUME TypeOK, WaitersOK, [Next]_vars PROVE WaitersOK'
    BY DEF IInv
<1> USE DEF user, queues
<1>1. CASE Create
    BY <1>1 DEF TypeOK, WaitersOK, Create
<1>2. CASE Delete
    <2>1. ctl = "idle"
        BY <1>2 DEF TypeOK, WaitersOK, Delete
    <2> QED
        BY <1>2, <2>1 DEF TypeOK, WaitersOK, Delete
<1>3. ASSUME NEW c \in Contents, NEW t \in Policies, Edit(c, t) PROVE WaitersOK'
    BY <1>3 DEF WaitersOK, Edit
<1>4. CASE AddFinalizer
    BY <1>4 DEF TypeOK, WaitersOK, AddFinalizer
<1>5. ASSUME NEW publishes \in BOOLEAN, Reconcile(publishes) PROVE WaitersOK'
    BY <1>5 DEF WaitersOK, Reconcile
<1>6. CASE RequestWithdrawal
    <2>1. requests \in Seq(BOOLEAN) /\ requests' = Append(requests, TRUE)
        BY <1>6 DEF TypeOK, RequestWithdrawal
    <2>2. /\ net' = "deleting" /\ ctl = "idle" /\ ctl' = "waiting" /\ swim' = TRUE
          /\ pending' = pending /\ withdrawn' = withdrawn
        BY <1>6 DEF TypeOK, RequestWithdrawal
    <2>3. TRUE \notin pending
        BY <2>2 DEF WaitersOK
    <2>4. \A i \in DOMAIN requests : requests[i] = FALSE
        <3> TAKE i \in DOMAIN requests
        <3>1. requests[i] \in BOOLEAN
            BY <2>1
        <3>2. requests[i] # TRUE
            BY <2>2 DEF WaitersOK
        <3> QED
            BY <3>1, <3>2
    <2>5. \A i \in DOMAIN requests' : i = Len(requests) + 1 \/ (i \in DOMAIN requests /\ requests'[i] = requests[i])
        <3>1. /\ Len(requests') = Len(requests) + 1
              /\ \A i \in 1..Len(requests) : requests'[i] = requests[i]
              /\ requests' \in Seq(BOOLEAN)
            BY <2>1, AppendProperties
        <3>2. DOMAIN requests' = 1..Len(requests) + 1 /\ DOMAIN requests = 1..Len(requests) /\ Len(requests) \in Nat
            BY <2>1, <3>1
        <3> QED
            BY <3>1, <3>2
    <2> QED
        BY <2>2, <2>3, <2>4, <2>5 DEF WaitersOK
<1>7. CASE Timeout
    <2>1. TRUE \notin pending'
        BY <1>7 DEF Timeout
    <2>2. \A i \in DOMAIN requests' : requests'[i] = FALSE
        BY <1>7 DEF Timeout
    <2> QED
        BY <1>7, <2>1, <2>2 DEF WaitersOK, Timeout
<1>8. ASSUME NEW patched \in BOOLEAN, Finish(patched) PROVE WaitersOK'
    BY <1>8 DEF TypeOK, WaitersOK, Finish
<1>9. CASE ApplyTrust
    BY <1>9 DEF WaitersOK, ApplyTrust
<1>10. CASE TakeBroadcast
    BY <1>10 DEF WaitersOK, TakeBroadcast
<1>11. ASSUME NEW revision \in BOOLEAN, TakeWithdrawal(revision) PROVE WaitersOK'
    <2> DEFINE out == Publishes(revision)
    <2>1. /\ requests # <<>> /\ requests' = Tail(requests)
          /\ Settle(QueuedWaiters, out) /\ net' = net /\ swim' = swim
        BY <1>11 DEF TakeWithdrawal
    <2>2. out \in BOOLEAN
        BY DEF Publishes, CanPublish
    <2> HIDE DEF out
    <2>3. /\ QueuedWaiters \in SUBSET BOOLEAN
          /\ TRUE \in QueuedWaiters => TRUE \in pending \/ Head(requests) = TRUE
        BY <2>1, TailWaiters DEF TypeOK, QueuedWaiters
    <2>4. TRUE \in QueuedWaiters =>
              ctl = "waiting" /\ \A i \in DOMAIN Tail(requests) : Tail(requests)[i] = FALSE
        BY <2>1, <2>3, TailWaiters DEF WaitersOK
    <2>5. /\ ctl' # "idle" => net' = "deleting" /\ swim' = TRUE
          /\ ctl' = "acked" => withdrawn' = TRUE
          /\ TRUE \in pending' => TRUE \in QueuedWaiters /\ ctl' = "waiting"
          /\ ctl = "waiting" => ctl' = "waiting" \/ TRUE \in QueuedWaiters
        BY <2>1, <2>2, <2>3, <2>4, Settled
    <2> QED
        BY <2>1, <2>4, <2>5, TailWaiters DEF WaitersOK
<1>12. ASSUME NEW revision \in BOOLEAN, NEW enough \in BOOLEAN, Tick(revision, enough) PROVE WaitersOK'
    <2> DEFINE out == pending # {} /\ Publishes(revision)
    <2>1. Settle(pending, out) /\ net' = net /\ swim' = swim /\ requests' = requests
        BY <1>12 DEF Tick
    <2>2. out \in BOOLEAN
        BY DEF Publishes, CanPublish
    <2> HIDE DEF out
    <2>3. pending \in SUBSET BOOLEAN /\ (TRUE \in pending => ctl = "waiting")
        BY DEF TypeOK, WaitersOK
    <2>4. /\ ctl' # "idle" => net' = "deleting" /\ swim' = TRUE
          /\ ctl' = "acked" => withdrawn' = TRUE
          /\ TRUE \in pending' => TRUE \in pending /\ ctl' = "waiting"
          /\ ctl = "waiting" => ctl' = "waiting" \/ TRUE \in pending
        BY <2>1, <2>2, <2>3, Settled
    <2> QED
        BY <2>1, <2>4 DEF WaitersOK
<1>13. CASE BecomeDue
    BY <1>13 DEF WaitersOK, BecomeDue
<1>14. ASSUME NEW t \in Others, ApplyOther(t) PROVE WaitersOK'
    BY <1>14 DEF WaitersOK, ApplyOther
<1>15. CASE Restart
    BY <1>15 DEF WaitersOK, Restart
<1>16. CASE UNCHANGED vars
    BY <1>16 DEF WaitersOK, vars
<1>17. CASE StartSwim
    BY <1>17 DEF WaitersOK, StartSwim
<1>18. CASE FinishWithoutSwim
    BY <1>18 DEF TypeOK, WaitersOK, FinishWithoutSwim
<1> QED
    BY <1>1, <1>2, <1>3, <1>4, <1>5, <1>6, <1>7, <1>8, <1>9, <1>10, <1>11, <1>12, <1>13, <1>14, <1>15, <1>16, <1>17, <1>18
       DEF Next, User, Controller, Loop

-----------------------------------------------------------------------------
(* Theorems *)

LEMMA InvInit == Init => IInv
<1> SUFFICES ASSUME Init PROVE WaitersOK
    BY TypeInit DEF IInv
<1> QED
    BY DEF Init, WaitersOK

LEMMA InvStep == IInv /\ [Next]_vars => IInv'
BY TypeStep, WaitersStep DEF IInv

\* Both sides of the channels keep their types, and no state is retained for
\* anti-entropy while the grid's withdrawal is pending.
THEOREM TypeCorrect == Spec => []TypeOK
BY TypeInit, TypeStep, PTL DEF Spec

\* Only the two withdrawal steps, the state taken from its channel and a tick speak.
LEMMA Speakers ==
    ASSUME [Next]_vars, said' # said
    PROVE  \/ TakeBroadcast
           \/ \E revision \in BOOLEAN : TakeWithdrawal(revision)
           \/ \E revision, enough \in BOOLEAN : Tick(revision, enough)
<1> USE DEF user, queues
<1>1. ~(UNCHANGED vars) /\ ~Create /\ ~Delete /\ ~AddFinalizer /\ ~RequestWithdrawal /\ ~Timeout
      /\ ~ApplyTrust /\ ~BecomeDue /\ ~Restart /\ ~StartSwim /\ ~FinishWithoutSwim
    BY DEF StartSwim, FinishWithoutSwim, vars, Create, Delete, AddFinalizer, RequestWithdrawal, Timeout, ApplyTrust, BecomeDue, Restart
<1>2. /\ \A c \in Contents, t \in Policies : ~Edit(c, t)
      /\ \A publishes \in BOOLEAN : ~Reconcile(publishes)
      /\ \A patched \in BOOLEAN : ~Finish(patched)
      /\ \A t \in Others : ~ApplyOther(t)
    BY DEF Edit, Reconcile, Finish, ApplyOther
<1> QED
    BY <1>1, <1>2 DEF Next, User, Controller, Loop

\* While a withdrawal is pending, neither a state still in the channel nor the
\* anti-entropy tick of run_loop publishes anything but the withdrawal.
THEOREM PendingSilence == Spec => SilentWhilePending
<1>1. ASSUME TypeOK, [Next]_vars, pending # {}, said' # said PROVE said'.what = Withdrawal
    <2>1. retained = None
        BY <1>1 DEF TypeOK
    <2>2. CASE TakeBroadcast
        BY <1>1, <2>2 DEF TakeBroadcast, DiscardState, RetainState, RepeatedState, PublishState
    <2>3. ASSUME NEW revision \in BOOLEAN, TakeWithdrawal(revision) PROVE said'.what = Withdrawal
        BY <1>1, <2>3 DEF TakeWithdrawal, Message
    <2>4. ASSUME NEW revision \in BOOLEAN, NEW enough \in BOOLEAN, Tick(revision, enough)
          PROVE  said'.what = Withdrawal
        BY <1>1, <2>1, <2>4 DEF Tick, Message
    <2> QED
        BY <1>1, <2>2, <2>3, <2>4, Speakers
<1>2. TypeOK /\ [Next]_vars => [pending # {} /\ said' # said => said'.what = Withdrawal]_vars
    BY <1>1
<1> QED
    BY <1>2, TypeCorrect, PTL DEF Spec, SilentWhilePending

\* A state taken from its channel is signed, or not, by the newest trust the
\* controller had sent, although select! serves the two channels in any order.
THEOREM FreshlySigned == Spec => FreshStateIsSigned
<1>1. ASSUME TypeOK, [Next]_vars, broadcasts' # broadcasts, said' # said, said'.what \in Contents
      PROVE  said'.signed = (Newest = "signer")
    <2> USE DEF user, queues
    <2>1. TakeBroadcast
        BY <1>1, Speakers DEF TakeWithdrawal, Tick
    <2>2. PublishState
        BY <1>1, <2>1 DEF TakeBroadcast, DiscardState, RetainState, RepeatedState
    <2>3. said' = Message(Head(broadcasts), trust') /\ trust' = Newest
        BY <1>1, <2>2 DEF PublishState
    <2> QED
        BY <2>3 DEF Message
<1>2. TypeOK /\ [Next]_vars
      => [broadcasts' # broadcasts /\ said' # said /\ said'.what \in Contents
          => said'.signed = (Newest = "signer")]_vars
    BY <1>1
<1> QED
    BY <1>2, TypeCorrect, PTL DEF Spec, FreshStateIsSigned

\* In a process whose SWIM runs, reconcile_deleting_grid_network removes the
\* finalizer only when a withdrawal was published since the deletion began.
THEOREM Finalization == Spec => GoneMeansWithdrawn
<1>1. ASSUME IInv, [Next]_vars, swim, net = "deleting", net' = "gone" PROVE withdrawn
    <2> USE DEF user, queues
    <2>1. ~(UNCHANGED vars) /\ ~Create /\ ~Delete /\ ~AddFinalizer /\ ~RequestWithdrawal /\ ~Timeout
          /\ ~ApplyTrust /\ ~TakeBroadcast /\ ~BecomeDue /\ ~Restart /\ ~StartSwim /\ ~FinishWithoutSwim
        BY <1>1 DEF vars, Create, Delete, AddFinalizer, RequestWithdrawal, Timeout, ApplyTrust,
                    TakeBroadcast, BecomeDue, Restart, StartSwim, FinishWithoutSwim
    <2>2. /\ \A c \in Contents, t \in Policies : ~Edit(c, t)
          /\ \A publishes \in BOOLEAN : ~Reconcile(publishes)
          /\ \A revision \in BOOLEAN : ~TakeWithdrawal(revision)
          /\ \A revision, enough \in BOOLEAN : ~Tick(revision, enough)
          /\ \A t \in Others : ~ApplyOther(t)
        BY <1>1 DEF Edit, Reconcile, TakeWithdrawal, Tick, ApplyOther
    <2>3. PICK patched \in BOOLEAN : Finish(patched)
        BY <1>1, <2>1, <2>2 DEF Next, User, Controller, Loop
    <2>4. ctl = "acked"
        BY <2>3 DEF Finish
    <2> QED
        BY <1>1, <2>4 DEF IInv, WaitersOK
<1>2. IInv /\ [Next]_vars => [swim /\ net = "deleting" /\ net' = "gone" => withdrawn]_vars
    BY <1>1
<1> QED
    BY <1>2, InvInit, InvStep, PTL DEF Spec, GoneMeansWithdrawn

=============================================================================
