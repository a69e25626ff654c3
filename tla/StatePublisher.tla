---------------------------- MODULE StatePublisher ----------------------------
(***************************************************************************)
(* How a site publishes its provider state and withdraws it when its       *)
(* GridNetwork is deleted: the controller (controller/grid_network.rs) on  *)
(* one side, the SWIM run loop (swim_runtime.rs) on the other, and three   *)
(* channels between them that the loop's select! serves in any order.      *)
(*                                                                         *)
(* The loop keeps its state by grid ID, so the module follows one          *)
(* GridNetwork; the site's other networks appear as what they do to this   *)
(* one: they open state admission, make the node refuse unsigned state     *)
(* once one of them is strict, fill channels and use up revisions.         *)
(* Whether a step finds a revision left is RevisionLease's business and    *)
(* arbitrary here.                                                         *)
(***************************************************************************)
EXTENDS Naturals, Sequences

CONSTANTS
    Contents,       \* provider states of the site
    Policies,       \* what the network may declare: a subset of Trusts
    Others,         \* what the other networks may declare: a subset of {"open", "strict"}
    BroadcastCap,   \* bound on the queued broadcasts of this network
    WithdrawCap,    \* bound on the queued withdrawals of this network
    UpdateCap       \* bound on the queued trust updates, a channel without one

\* GridTrust for the grid: not enforced, enforced with a signer, enforced without.
Trusts == {"open", "signer", "keyless"}

None == "none"

Withdrawal == "withdrawal"

ASSUME ContentsAssumption == None \notin Contents /\ Withdrawal \notin Contents

ASSUME PoliciesAssumption == Policies \subseteq Trusts /\ Policies # {} /\ Others \subseteq {"open", "strict"}

ASSUME CapsAssumption == BroadcastCap \in Nat \ {0} /\ WithdrawCap \in Nat \ {0} /\ UpdateCap \in Nat \ {0}

VARIABLES
    net,        \* the resource: "new" (no finalizer), "live", "deleting", "gone"
    content,    \* the providers the cluster holds
    policy,     \* what the spec and the Secrets amount to today
    swim,       \* ctx.swim(): the process has its SWIM runtime
    ctl,        \* reconcile_deleting_grid_network: "idle", "waiting" on its receipt, "acked"
    broadcasts, \* broadcast_rx: this network's states
    updates,    \* trust_update_rx: this grid's updates, repetitions left out
    requests,   \* withdraw_rx: for each request, whether its receiver still waits
    trust,      \* GridTrust::enforced, for this grid
    held,       \* the node's state_admission_held
    others,     \* the trust applied for the other networks
    retained,   \* retained_state_broadcasts, for this grid
    pending,    \* pending_withdrawals, for this grid: which waiters, if any
    due,        \* next_state_republish_at has passed
    said,       \* the newest state published for this grid, and whether signed
    withdrawn   \* history: a withdrawal was published since the deletion

user == <<net, content, policy>>
queues == <<broadcasts, updates, requests>>
vars == <<user, swim, ctl, queues, trust, held, others, retained, pending, due, said, withdrawn>>

TypeOK ==
    /\ net \in {"new", "live", "deleting", "gone"}
    /\ content \in Contents
    /\ policy \in Policies
    /\ swim \in BOOLEAN
    /\ ctl \in {"idle", "waiting", "acked"}
    /\ broadcasts \in Seq(Contents)
    /\ updates \in Seq(Trusts)
    /\ requests \in Seq(BOOLEAN)
    /\ trust \in Trusts
    /\ held \in BOOLEAN
    /\ others \in {"none", "open", "strict"}
    /\ retained \in Contents \cup {None}
    /\ pending \subseteq BOOLEAN
    /\ due \in BOOLEAN
    /\ said \in [what : Contents \cup {None, Withdrawal}, signed : BOOLEAN]
    /\ withdrawn \in BOOLEAN
    /\ pending # {} => retained = None

Init ==
    /\ net = "new"
    /\ content \in Contents
    /\ policy \in Policies
    /\ swim = FALSE
    /\ ctl = "idle"
    /\ broadcasts = <<>>
    /\ updates = <<>>
    /\ requests = <<>>
    /\ trust = "open"
    /\ held = TRUE
    /\ others = "none"
    /\ retained = None
    /\ pending = {}
    /\ due = FALSE
    /\ said = [what |-> None, signed |-> FALSE]
    /\ withdrawn = FALSE

-----------------------------------------------------------------------------
(* The cluster *)

Create ==
    /\ net = "gone"
    /\ net' = "new"
    /\ UNCHANGED <<content, policy, swim, ctl, queues, trust, held, others, retained, pending, due, said, withdrawn>>

\* Without the finalizer the resource goes at once; nothing was published for it.
Delete ==
    /\ net \in {"new", "live"}
    /\ net' = IF net = "new" THEN "gone" ELSE "deleting"
    /\ withdrawn' = FALSE
    /\ UNCHANGED <<content, policy, swim, ctl, queues, trust, held, others, retained, pending, due, said>>

\* Providers change, signedState is set, or the signing Secret comes or goes.
Edit(c, t) ==
    /\ content' = c
    /\ policy' = t
    /\ UNCHANGED <<net, swim, ctl, queues, trust, held, others, retained, pending, due, said, withdrawn>>

-----------------------------------------------------------------------------
(* The controller *)

\* start_swim, beside the controllers: maybe_start_swim returned a runtime.  One
\* that failed leaves the process without, until it restarts.
StartSwim ==
    /\ ~swim
    /\ swim' = TRUE
    /\ UNCHANGED <<user, ctl, queues, trust, held, others, retained, pending, due, said, withdrawn>>

\* The finalizer comes before anything is published.
AddFinalizer ==
    /\ swim
    /\ net = "new"
    /\ net' = "live"
    /\ UNCHANGED <<content, policy, swim, ctl, queues, trust, held, others, retained, pending, due, said, withdrawn>>

\* relax_grid_trust and set_grid_trust_snapshot.  An update that repeats the last
\* one queued changes nothing when it is applied; at the bound, it takes its place.
Sends(t) ==
    updates' = IF updates # <<>> /\ t = updates[Len(updates)] THEN updates
               ELSE IF Len(updates) = UpdateCap THEN [updates EXCEPT ![UpdateCap] = t]
               ELSE Append(updates, t)

\* sign_grid_state sends the trust, then publish_real_provider_state the state.
\* The reconcile may end between the two, and a full channel drops the state.
Reconcile(publishes) ==
    /\ swim
    /\ net = "live"
    /\ Sends(policy)
    /\ publishes => Len(broadcasts) < BroadcastCap
    /\ broadcasts' = IF publishes THEN Append(broadcasts, content) ELSE broadcasts
    /\ UNCHANGED <<user, swim, ctl, requests, trust, held, others, retained, pending, due, said, withdrawn>>

\* withdraw_scope; a full channel is retried later.
RequestWithdrawal ==
    /\ swim
    /\ net = "deleting"
    /\ ctl = "idle"
    /\ Len(requests) < WithdrawCap
    /\ requests' = Append(requests, TRUE)
    /\ ctl' = "waiting"
    /\ UNCHANGED <<user, swim, broadcasts, updates, trust, held, others, retained, pending, due, said, withdrawn>>

\* Mutant of Timeout: the reconcile that timed out is not run again.
TimeoutForGood ==
    /\ ctl = "waiting"
    /\ ctl' = "given up"
    /\ requests' = [i \in DOMAIN requests |-> FALSE]
    /\ pending' = IF pending = {} THEN {} ELSE {FALSE}
    /\ UNCHANGED <<user, swim, broadcasts, updates, trust, held, others, retained, due, said, withdrawn>>

\* WITHDRAWAL_PUBLICATION_TIMEOUT passes: the receiver is dropped, and the request stays.
Timeout ==
    /\ ctl = "waiting"
    /\ ctl' = "idle"
    /\ requests' = [i \in DOMAIN requests |-> FALSE]
    /\ pending' = IF pending = {} THEN {} ELSE {FALSE}
    /\ UNCHANGED <<user, swim, broadcasts, updates, trust, held, others, retained, due, said, withdrawn>>

\* The receipt resolved: drop the grid's trust, then remove the finalizer.  A
\* patch that fails leaves the deletion to the next reconcile.
Finish(patched) ==
    /\ ctl = "acked"
    /\ Sends("open")
    /\ net' = IF patched THEN "gone" ELSE net
    /\ ctl' = "idle"
    /\ UNCHANGED <<content, policy, swim, broadcasts, requests, trust, held, others, retained, pending, due, said, withdrawn>>

\* Without a SWIM runtime, not yet or not at all, the finalizer goes at once.
FinishWithoutSwim ==
    /\ ~swim
    /\ net = "deleting"
    /\ net' = "gone"
    /\ UNCHANGED <<content, policy, swim, ctl, queues, trust, held, others, retained, pending, due, said, withdrawn>>

-----------------------------------------------------------------------------
(* The run loop *)

\* trust.sign refuses a grid enforced without a signer, and leaves one that is
\* not enforced unsigned.  The node then admits its own broadcast like a peer's:
\* not while admission is held, and no unsigned state once any grid is strict.
CanPublish(t, isHeld) ==
    /\ ~isHeld
    /\ t = "signer" \/ (t = "open" /\ others # "strict")

Message(what, t) == [what |-> what, signed |-> t = "signer"]

Newest == IF updates = <<>> THEN trust ELSE updates[Len(updates)]

\* trust.apply, which opens admission whatever the update says.
ApplyTrust ==
    /\ updates # <<>>
    /\ trust' = Head(updates)
    /\ updates' = Tail(updates)
    /\ held' = FALSE
    /\ UNCHANGED <<user, swim, ctl, broadcasts, requests, others, retained, pending, due, said, withdrawn>>

\* A state of a grid being withdrawn is discarded.
DiscardState ==
    /\ pending # {}
    /\ UNCHANGED <<updates, trust, held, retained, due, said>>

\* Mutant of RetainState: the state is lost for want of a revision.
RetainNothing ==
    /\ pending = {}
    /\ due' = TRUE
    /\ UNCHANGED <<updates, trust, held, retained, said>>

\* Without a revision the state is retained, and due at the next tick.
RetainState ==
    /\ pending = {}
    /\ retained' = Head(broadcasts)
    /\ due' = TRUE
    /\ UNCHANGED <<updates, trust, held, said>>

RepeatedState ==
    /\ pending = {}
    /\ retained = Head(broadcasts)
    /\ UNCHANGED <<updates, trust, held, retained, due, said>>

\* Mutant of PublishState: the trust updates queued before the state wait their turn.
PublishStateFirst ==
    /\ pending = {}
    /\ retained # Head(broadcasts)
    /\ retained' = Head(broadcasts)
    /\ said' = IF CanPublish(trust, held) THEN Message(Head(broadcasts), trust) ELSE said
    /\ UNCHANGED <<updates, trust, held, due>>

\* Mutant of PublishState: a state of a grid being withdrawn is not discarded.
PublishStateAnyway ==
    /\ retained # Head(broadcasts)
    /\ retained' = Head(broadcasts)
    /\ trust' = Newest
    /\ updates' = <<>>
    /\ held' = (held /\ updates = <<>>)
    /\ said' = IF CanPublish(trust', held') THEN Message(Head(broadcasts), trust') ELSE said
    /\ UNCHANGED due

\* Changed state is retained; queued trust updates are applied; and it is signed
\* and published, or left to a later tick.
PublishState ==
    /\ pending = {}
    /\ retained # Head(broadcasts)
    /\ retained' = Head(broadcasts)
    /\ trust' = Newest
    /\ updates' = <<>>
    /\ held' = (held /\ updates = <<>>)
    /\ said' = IF CanPublish(trust', held') THEN Message(Head(broadcasts), trust') ELSE said
    /\ UNCHANGED due

TakeBroadcast ==
    /\ broadcasts # <<>>
    /\ broadcasts' = Tail(broadcasts)
    /\ DiscardState \/ RetainState \/ RepeatedState \/ PublishState
    /\ UNCHANGED <<user, swim, ctl, requests, others, pending, withdrawn>>

\* A pending withdrawal finds a revision, a signature and admission.
Publishes(revision) == revision /\ CanPublish(trust, held)

\* Mutant of Settle: the waiters are told whether or not it was published.
SettleAnyway(waiters, out) ==
    /\ withdrawn' = (withdrawn \/ out)
    /\ pending' = {}
    /\ ctl' = IF TRUE \in waiters THEN "acked" ELSE ctl

\* The end of publish_pending_withdrawals for the grid: whoever still waits is
\* told, or the withdrawal stays pending.
Settle(waiters, out) ==
    IF out
    THEN /\ withdrawn' = TRUE
         /\ pending' = {}
         /\ ctl' = IF TRUE \in waiters THEN "acked" ELSE ctl
    ELSE /\ pending' = waiters
         /\ UNCHANGED <<ctl, withdrawn>>

\* queue_withdrawal: waiters that gave up make way for the new one.
QueuedWaiters == (pending \ {FALSE}) \cup {Head(requests)}

\* Mutant of TakeWithdrawal: the state stays retained until the withdrawal is out.
TakeWithdrawalRetaining(revision) ==
    /\ requests # <<>>
    /\ requests' = Tail(requests)
    /\ retained' = IF Publishes(revision) THEN None ELSE retained
    /\ Settle(QueuedWaiters, Publishes(revision))
    /\ said' = IF Publishes(revision) THEN Message(Withdrawal, trust) ELSE said
    /\ UNCHANGED <<user, swim, broadcasts, updates, trust, held, others, due>>

TakeWithdrawal(revision) ==
    /\ requests # <<>>
    /\ requests' = Tail(requests)
    /\ retained' = None
    /\ Settle(QueuedWaiters, Publishes(revision))
    /\ said' = IF Publishes(revision) THEN Message(Withdrawal, trust) ELSE said
    /\ UNCHANGED <<user, swim, broadcasts, updates, trust, held, others, due>>

\* age_tick: a pending withdrawal first, then the retained state if it is due.  A
\* scope that found no revision, this one or another, keeps the republication due.
Tick(revision, enough) ==
    /\ swim
    /\ enough => revision
    /\ LET withdraws == pending # {} /\ Publishes(revision)
       IN  /\ Settle(pending, withdraws)
           /\ retained' = IF withdraws THEN None ELSE retained
           /\ said' = IF withdraws THEN Message(Withdrawal, trust)
                      ELSE IF due /\ retained # None /\ Publishes(revision) THEN Message(retained, trust)
                      ELSE said
    /\ due' = (due /\ ~enough)
    /\ UNCHANGED <<user, swim, queues, trust, held, others>>

\* STATE_REPUBLISH_INTERVAL passes.
BecomeDue ==
    /\ swim
    /\ ~due
    /\ due' = TRUE
    /\ UNCHANGED <<user, swim, ctl, queues, trust, held, others, retained, pending, said, withdrawn>>

\* A trust update of another network is applied.
ApplyOther(t) ==
    /\ swim
    /\ others' = t
    /\ held' = FALSE
    /\ UNCHANGED <<user, swim, ctl, queues, trust, retained, pending, due, said, withdrawn>>

\* The process ends and another begins, its SWIM not started yet: only the cluster,
\* and what peers were told, remain.
Restart ==
    /\ swim' = FALSE
    /\ ctl' = "idle"
    /\ broadcasts' = <<>>
    /\ updates' = <<>>
    /\ requests' = <<>>
    /\ trust' = "open"
    /\ held' = TRUE
    /\ others' = "none"
    /\ retained' = None
    /\ pending' = {}
    /\ due' = FALSE
    /\ UNCHANGED <<user, said, withdrawn>>

User == Create \/ Delete \/ \E c \in Contents, t \in Policies : Edit(c, t)

Controller ==
    \/ StartSwim
    \/ AddFinalizer
    \/ \E publishes \in BOOLEAN : Reconcile(publishes)
    \/ RequestWithdrawal
    \/ Timeout
    \/ \E patched \in BOOLEAN : Finish(patched)
    \/ FinishWithoutSwim

Loop ==
    \/ ApplyTrust
    \/ TakeBroadcast
    \/ \E revision \in BOOLEAN : TakeWithdrawal(revision)
    \/ \E revision, enough \in BOOLEAN : Tick(revision, enough)
    \/ BecomeDue
    \/ \E t \in Others : ApplyOther(t)

Next == User \/ Controller \/ Loop \/ Restart

Spec == Init /\ [][Next]_vars

-----------------------------------------------------------------------------
(* Fairness *)

\* The waiter is told, while it waits.
Acknowledge ==
    /\ ctl = "waiting"
    /\ TakeWithdrawal(TRUE) \/ Tick(TRUE, TRUE)
    /\ ctl' = "acked"

\* Reconciles recur and the loop serves every channel.  Ranges are renewed and
\* the API recovers, so that again and again a tick finds a revision, a waiter
\* (5 s) outlasts a tick (1 s), and a patch succeeds.
Fairness ==
    /\ WF_vars(AddFinalizer)
    /\ WF_vars(Reconcile(TRUE))
    /\ WF_vars(RequestWithdrawal)
    /\ SF_vars(Finish(TRUE))
    /\ SF_vars(FinishWithoutSwim)
    /\ WF_vars(ApplyTrust)
    /\ WF_vars(TakeBroadcast)
    /\ WF_vars(TakeWithdrawal(TRUE))
    /\ WF_vars(due /\ Tick(TRUE, TRUE))
    /\ SF_vars(Acknowledge)
    /\ WF_vars(BecomeDue)

FairSpec == Spec /\ Fairness

-----------------------------------------------------------------------------
(* Properties *)

\* "The runtime stops republishing the prior provider state while the withdrawal
\* is pending" (signed-gossip-trust.md): neither a tick nor a state still in the
\* channel speaks for the grid before its withdrawal does.
SilentWhilePending ==
    [][pending # {} /\ said' # said => said'.what = Withdrawal]_vars

\* "A trust update queued before this broadcast must sign it" (run_loop): although
\* select! may serve the state's channel first, a state taken from it is published
\* under the newest trust the controller sent.
FreshStateIsSigned ==
    [][broadcasts' # broadcasts /\ said' # said /\ said'.what \in Contents
       => said'.signed = (Newest = "signer")]_vars

\* reconcile_deleting_grid_network with a SWIM runtime: the finalizer goes only
\* once a withdrawal was published since the deletion, whatever timed out, was
\* retried or restarted in between.  A process whose SWIM is still starting, or
\* failed to, removes it with no withdrawal (FinishWithoutSwim).
GoneMeansWithdrawn ==
    [][swim /\ net = "deleting" /\ net' = "gone" => withdrawn]_vars

\* What keeps the loop from publishing for the grid: admission that nothing has
\* opened, no signer, or an unsigned message beside a strict grid.
Blocked == swim /\ ~CanPublish(trust, held)

\* A deletion completes, with SWIM running in the end or without it, over
\* exhausted ranges, full channels, waiters that timed out and failed patches,
\* unless publication stays blocked.
DeletionCompletes ==
    <>[]~Blocked => (net = "deleting" ~> net # "deleting")

\* The providers a live network settles on are what the site has published last,
\* over dropped states, exhausted ranges, refused publications and restarts, once
\* SWIM runs for good.
StatePublished ==
    \A c \in Contents :
        <>[](net = "live" /\ content = c /\ swim /\ ~Blocked) => <>[](said.what = c)

\* "Withdraw all anti-entropy state for the given GridNetwork scope" (withdraw_scope):
\* nothing of a deleted network is published after its withdrawal.
WithdrawalIsLastWord ==
    net = "gone" /\ withdrawn => said.what \in {None, Withdrawal}

\* "A failed publication remains pending as a tombstone [...] allowing later
\* revision renewal or transport recovery to complete the withdrawal"
\* (publish_pending_withdrawals): a network is deleted in the end, however
\* often the operator restarted on the way.
DeletionEnds ==
    <>[][~Restart]_vars => (net = "deleting" ~> net # "deleting")

=============================================================================
