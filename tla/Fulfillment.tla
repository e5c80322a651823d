----------------------------- MODULE Fulfillment -----------------------------
(***************************************************************************)
(* One provider's fulfilment: the worker's order loop (fulfillOrder), the  *)
(* sweep that polls PENDING items and recovers stalled ones (poller.ts),   *)
(* and the admin's review actions (review.ts), over the orders table they  *)
(* share, one prepaid wallet, and the provider's advisory lock.            *)
(*                                                                         *)
(* The worker and the sweep are two concurrent activities of one process:  *)
(* every await at which the other may run, or an admin request may commit, *)
(* is a step boundary here.  Clocks are left out: an item in 'sending' may *)
(* always be old enough for recovery (a live call may outlast minAgeMs),   *)
(* an order in 'processing' may always be stale.                           *)
(***************************************************************************)
EXTENDS OrderStates, Reconcile, Functions

CONSTANTS
  Orders,         \* numbered in created_at order
  Items,          \* numbered in their sequence within an order
  OrderOf,        \* item -> order
  Cost,           \* item -> costUsd, the catalog price
  Debit,          \* item -> what the provider really takes for it
  InitialWallet,
  MaxAttempts,
  Outcomes,       \* the answers a purchase may get
  PollAnswers,    \* the answers a status query may get
  TopUps,         \* amounts the owner may add to the wallet
  Withdrawable,   \* items whose product a catalog sync may withdraw
  MaxCrashes, MaxThrows, MaxTopUps,     \* bounds on the environment
  MaxReviews, MaxToggles

OutcomeKinds ==
  { "succeeded", "pending", "failed_retryable", "failed_permanent",
    "delivered_as_code", "ambiguous_charged", "ambiguous_uncharged",
    "ambiguous_late" }

PollKinds == { "completed", "code", "missing", "pending", "error" }

ASSUME SetAssumption ==
  /\ Orders \subseteq Nat /\ Items \subseteq Nat
  /\ OrderOf \in [Items -> Orders]
  /\ \A o \in Orders : \E i \in Items : OrderOf[i] = o
  /\ Outcomes \subseteq OutcomeKinds /\ PollAnswers \subseteq PollKinds
  /\ Withdrawable \subseteq Items

ASSUME BoundAssumption ==
  /\ MaxAttempts \in Nat \ {0} /\ InitialWallet \in Nat /\ TopUps \subseteq Nat
  /\ MaxCrashes \in Nat /\ MaxThrows \in Nat
  /\ MaxTopUps \in Nat /\ MaxReviews \in Nat /\ MaxToggles \in Nat

\* The provider takes the catalog price within the tolerance reconcile.ts
\* measured, and no product is as cheap as that tolerance.
ASSUME PriceAssumption ==
  /\ Cost \in [Items -> Nat \ {0}] /\ Debit \in [Items -> Nat]
  /\ \A i \in Items : /\ AbsVal(Debit[i] - Cost[i]) <= ToleranceFor(Cost[i])
                      /\ Debit[i] > ToleranceFor(Cost[i])

VARIABLES
  orderStatus,    \* orders.status
  status,         \* order_items.status
  attempts,       \* order_items.attempt_count
  before,         \* order_items.wallet_before_usd, the last send's reading
  aged,           \* pending items past escalateAfterMs
  withdrawn,      \* items whose product is no longer active
  emergency,      \* the owner's emergency-mode switch
  lock,           \* who holds the provider's advisory lock
  wpc, job,       \* the worker: where it is, and what it holds in memory
  spc, batch, sjob, \* the sweep: where it is, its snapshot, the order in hand
  plan,           \* the review request between its load and its commit
  wallet,         \* the provider's prepaid balance
  charged,        \* how often the provider charged, and delivered, each item
  late,           \* items whose timed-out request is still on its way
  byHand,         \* items on record as delivered by an admin's own hands
  used            \* how much of each environment bound is spent

rows     == <<orderStatus, status, attempts, before, aged>>
flags    == <<withdrawn, emergency>>
worker   == <<wpc, job>>
sweeper  == <<spc, batch, sjob>>
provider == <<wallet, charged, late>>
vars == <<rows, flags, lock, worker, sweeper, plan, provider, byHand, used>>

------------------------------------------------------------------------------

ItemsOf(o) == { i \in Items : OrderOf[i] = o }
View(o)    == [ i \in ItemsOf(o) |-> [ status |-> status[i],
                                       attempts |-> attempts[i] ] ]
Derived(o) == DeriveOrderStatus(View(o), MaxAttempts)

\* Mutant: an unknown item may be sent or delivered again.
DispatchableUnknown == { "queued", "failed", "unknown" }

\* NOT_FULFILLABLE, ABANDONED, and the statuses an item may be sent from or
\* settled from.
NotFulfillable == { "pending_payment", "completed", "cancelled",
                    "payment_expired", "refund_required" }
Abandoned      == { "cancelled", "payment_expired", "refund_required" }
Dispatchable   == { "queued", "failed" }
Settleable     == { "sending", "provider_pending" }

\* Mutant: the attempts are not counted.
PendingItemsUncounted(o) == { i \in ItemsOf(o) : status[i] \in Dispatchable }

\* The items fulfillOrder will try: those left, with attempts to spare.
PendingItems(o) == { i \in ItemsOf(o) : /\ status[i] \in Dispatchable
                                        /\ attempts[i] < MaxAttempts }

TotalCost(S) == FoldFunctionOnSet(+, 0, Cost, S)

NoJob  == [ order |-> 0, todo |-> {}, inactive |-> {}, item |-> 0,
            reading |-> 0, outcome |-> "none", halted |-> "no",
            seen |-> "none", final |-> "none" ]
NoSweep == [ order |-> 0, back |-> "none", final |-> "none" ]
NoPlan == [ kind |-> "none", order |-> 0, expected |-> "none",
            next |-> "none", was |-> <<>> ]

Init ==
  /\ orderStatus = [ o \in Orders |-> "pending_payment" ]
  /\ status      = [ i \in Items |-> "queued" ]
  /\ attempts    = [ i \in Items |-> 0 ]
  /\ before      = [ i \in Items |-> 0 ]
  /\ aged = {} /\ withdrawn = {} /\ emergency = FALSE
  /\ lock = "free"
  /\ wpc = "idle" /\ job = NoJob
  /\ spc = "idle" /\ batch = {} /\ sjob = NoSweep
  /\ plan = NoPlan
  /\ wallet = InitialWallet
  /\ charged = [ i \in Items |-> 0 ]
  /\ late = {} /\ byHand = {}
  /\ used = [ crash |-> 0, throw |-> 0, topup |-> 0, review |-> 0,
               toggle |-> 0 ]

------------------------------------------------------------------------------
(* The worker.                                                             *)

\* Leaving an order, whether it is finished or something threw: every path
\* out of fulfillOrder releases the lock if it is held.
WorkerIdle ==
  /\ wpc' = "idle" /\ job' = NoJob
  /\ lock' = IF lock = "worker" THEN "free" ELSE lock

\* Mutant: a 'processing' order is never stale.
ClaimFresh(o) ==
  /\ wpc = "idle" /\ orderStatus[o] \in { "payment_confirmed", "partially_delivered" }
  /\ orderStatus' = [ orderStatus EXCEPT ![o] = "processing" ]
  /\ wpc' = "claimed" /\ job' = [ NoJob EXCEPT !.order = o ]
  /\ UNCHANGED <<status, attempts, before, aged, flags, lock, sweeper,
                 plan, provider, byHand, used>>

\* claimNext: the oldest claimable order; one already 'processing' counts
\* once it is stale.
Claim(o) ==
  /\ wpc = "idle"
  /\ orderStatus[o] \in { "payment_confirmed", "partially_delivered",
                          "processing" }
  /\ \A p \in Orders : p < o =>
        orderStatus[p] \notin { "payment_confirmed", "partially_delivered" }
  /\ orderStatus' = [ orderStatus EXCEPT ![o] = "processing" ]
  /\ wpc' = "claimed" /\ job' = [ NoJob EXCEPT !.order = o ]
  /\ UNCHANGED <<status, attempts, before, aged, flags, lock, sweeper,
                 plan, provider, byHand, used>>

\* Emergency mode: holdForManualFulfillment loads the order, then parks it.
HoldLoad ==
  /\ wpc = "claimed" /\ emergency
  /\ wpc' = "holding"
  /\ job' = [ job EXCEPT !.seen = orderStatus[job.order] ]
  /\ UNCHANGED <<rows, flags, lock, sweeper, plan, provider, byHand, used>>

HoldWrite ==
  /\ wpc = "holding"
  /\ orderStatus' = IF CanTransition(job.seen, "needs_review")
                    THEN [ orderStatus EXCEPT ![job.order] = "needs_review" ]
                    ELSE orderStatus
  /\ WorkerIdle
  /\ UNCHANGED <<status, attempts, before, aged, flags, sweeper, plan,
                 provider, byHand, used>>

\* fulfillOrder's one load: an order with nothing for the worker is left, one
\* with nothing pending goes straight to finish().  A flag that cannot be read
\* counts as off.
LoadOrder ==
  /\ wpc = "claimed" /\ (emergency => MaxThrows > 0)
  /\ LET o    == job.order
         todo == PendingItems(o)
     IN  IF orderStatus[o] \in NotFulfillable
         THEN wpc' = "idle" /\ job' = NoJob
         ELSE /\ wpc' = IF todo = {} THEN "finish" ELSE "preflight"
              /\ job' = [ job EXCEPT !.todo = todo,
                                     !.inactive = todo \cap withdrawn,
                                     !.seen = orderStatus[o] ]
  /\ UNCHANGED <<rows, flags, lock, sweeper, plan, provider, byHand, used>>

\* The wallet does not cover what is left: the order pauses for a human.
PreflightShort ==
  /\ wpc = "preflight" /\ wallet < TotalCost(job.todo)
  /\ orderStatus' = IF job.seen # "needs_review"
                       /\ CanTransition(job.seen, "needs_review")
                    THEN [ orderStatus EXCEPT ![job.order] = "needs_review" ]
                    ELSE orderStatus
  /\ WorkerIdle
  /\ UNCHANGED <<status, attempts, before, aged, flags, sweeper, plan,
                 provider, byHand, used>>

\* transition(order, 'processing'): nothing to write when the loaded status
\* is already that, a throw when it cannot get there.
PreflightPasses ==
  /\ wpc = "preflight" /\ wallet >= TotalCost(job.todo)
  /\ IF CanTransition(job.seen, "processing")
     THEN /\ wpc' = "next" /\ UNCHANGED <<job, lock>>
          /\ orderStatus' = IF job.seen = "processing" THEN orderStatus
                            ELSE [ orderStatus EXCEPT
                                     ![job.order] = "processing" ]
     ELSE WorkerIdle /\ UNCHANGED orderStatus
  /\ UNCHANGED <<status, attempts, before, aged, flags, sweeper, plan,
                 provider, byHand, used>>

\* The loop over what was pending, in sequence order.
IsNext(i) == /\ wpc = "next" /\ job.halted = "no"
             /\ i \in job.todo /\ \A j \in job.todo : i <= j

\* The next item's product was withdrawn.  settleItem only takes items that
\* are being sent or polled, so on the queued or failed item it is called
\* with it throws, and neither the halt nor finish() is reached.
RefuseInactive(i) ==
  /\ IsNext(i) /\ i \in job.inactive
  /\ IF status[i] \in Settleable
     THEN /\ status' = [ status EXCEPT ![i] = "failed" ]
          /\ wpc' = "next" /\ job' = [ job EXCEPT !.halted = "product_unavailable" ]
          /\ UNCHANGED lock
     ELSE WorkerIdle /\ UNCHANGED status
  /\ UNCHANGED <<orderStatus, attempts, before, aged, flags, sweeper,
                 plan, provider, byHand, used>>

\* withLock, then the reading every later verdict is measured against.
TakeLock(i) ==
  /\ IsNext(i) /\ i \notin job.inactive
  /\ lock = "free" /\ lock' = "worker"
  /\ wpc' = "locked"
  /\ job' = [ job EXCEPT !.item = i, !.reading = wallet ]
  /\ UNCHANGED <<rows, flags, sweeper, plan, provider, byHand, used>>

\* markItemSending commits before the call goes out; it refuses an item that
\* somebody else has taken.
MarkSending ==
  /\ wpc = "locked"
  /\ LET i == job.item
     IN  IF status[i] \in Dispatchable
         THEN /\ status'   = [ status EXCEPT ![i] = "sending" ]
              /\ attempts' = [ attempts EXCEPT ![i] = @ + 1 ]
              /\ before'   = [ before EXCEPT ![i] = job.reading ]
              /\ wpc' = "calling" /\ UNCHANGED <<job, lock>>
         ELSE WorkerIdle /\ UNCHANGED <<status, attempts, before>>
  /\ UNCHANGED <<orderStatus, aged, flags, sweeper, plan, provider,
                 byHand, used>>

\* The provider's side of purchase(): the kinds that land take the money, a
\* wallet that is short can only fail.
Lands == { "succeeded", "pending", "delivered_as_code", "ambiguous_charged" }

Purchase(kind) ==
  /\ wpc = "calling"
  /\ LET i == job.item
     IN  /\ IF wallet < Debit[i]
            THEN kind \in (Outcomes \ Lands) \cup {"failed_retryable"}
            ELSE kind \in Outcomes
         /\ IF kind \in Lands
            THEN /\ wallet'  = wallet - Debit[i]
                 /\ charged' = [ charged EXCEPT ![i] = @ + 1 ]
            ELSE UNCHANGED <<wallet, charged>>
         /\ late' = IF kind = "ambiguous_late" THEN late \cup {i} ELSE late
  /\ wpc' = "answered" /\ job' = [ job EXCEPT !.outcome = kind ]
  /\ UNCHANGED <<rows, flags, lock, sweeper, plan, byHand, used>>

\* The verdict on an item from two wallet readings.
Verdict(i, reading) == ResolveAmbiguous(reading, wallet, Cost[i])

\* handleOutcome: the item's new status.
OutcomeStatus(i) ==
  CASE job.outcome = "succeeded"                      -> "succeeded"
    [] job.outcome = "pending"                        -> "provider_pending"
    [] job.outcome \in { "failed_retryable", "failed_permanent" } -> "failed"
    [] job.outcome = "delivered_as_code"              -> "unknown"
    [] OTHER -> CASE Verdict(i, job.reading) = "charged"     -> "succeeded"
                  [] Verdict(i, job.reading) = "not_charged" -> "failed"
                  [] OTHER                                   -> "unknown"

\* handleOutcome's halt reason, "no" when the run goes on.
HaltReasons == { "no", "indeterminate", "code_delivery", "permanent_failure",
                 "product_unavailable" }
HaltReason(i) ==
  CASE job.outcome = "failed_permanent"  -> "permanent_failure"
    [] job.outcome = "delivered_as_code" -> "code_delivery"
    [] OTHER -> IF OutcomeStatus(i) = "unknown" THEN "indeterminate" ELSE "no"

\* handleOutcome's settlement, under the lock, which is then released.
Settle ==
  /\ wpc = "answered"
  /\ LET i == job.item
     IN  IF status[i] \in Settleable
         THEN /\ status' = [ status EXCEPT ![i] = OutcomeStatus(i) ]
              /\ aged' = aged \ {i}
              /\ lock' = "free" /\ wpc' = "next"
              /\ job' = [ NoJob EXCEPT !.order = job.order,
                                       !.todo = job.todo \ {i},
                                       !.inactive = job.inactive,
                                       !.halted = HaltReason(i) ]
         ELSE WorkerIdle /\ UNCHANGED <<status, aged>>
  /\ UNCHANGED <<orderStatus, attempts, before, flags, sweeper, plan,
                 provider, byHand, used>>

RunOver ==
  /\ wpc = "next" /\ (job.halted # "no" \/ job.todo = {})
  /\ wpc' = "finish"
  /\ UNCHANGED <<rows, flags, lock, job, sweeper, plan, provider, byHand, used>>

\* finish(): reload, derive, and write when the two differ.
FinishLoad ==
  /\ wpc = "finish"
  /\ wpc' = "finishing"
  /\ job' = [ NoJob EXCEPT !.order = job.order,
                           !.seen = orderStatus[job.order],
                           !.final = IF job.halted # "no" THEN "needs_review"
                                     ELSE Derived(job.order) ]
  /\ UNCHANGED <<rows, flags, lock, sweeper, plan, provider, byHand, used>>

FinishWrite ==
  /\ wpc = "finishing"
  /\ orderStatus' = IF job.seen # job.final /\ CanTransition(job.seen, job.final)
                    THEN [ orderStatus EXCEPT ![job.order] = job.final ]
                    ELSE orderStatus
  /\ WorkerIdle
  /\ UNCHANGED <<status, attempts, before, aged, flags, sweeper, plan,
                 provider, byHand, used>>

WorkerStep ==
  \/ \E o \in Orders : Claim(o)
  \/ HoldLoad \/ HoldWrite
  \/ LoadOrder \/ PreflightShort \/ PreflightPasses
  \/ \E i \in job.todo : RefuseInactive(i) \/ TakeLock(i)
  \/ MarkSending
  \/ \E kind \in OutcomeKinds : Purchase(kind)
  \/ Settle \/ RunOver \/ FinishLoad \/ FinishWrite

------------------------------------------------------------------------------
(* The sweep: pollPendingOrders, then recoverStalledItems.                 *)

Snapshot(i) == [ item |-> i, reading |-> before[i],
                 tries |-> attempts[i],
                 age |-> IF i \in aged THEN "old" ELSE "young" ]

\* findPendingProviderItems.
PollQuery ==
  /\ spc = "idle"
  /\ batch' = { Snapshot(i) : i \in { j \in Items :
                   /\ status[j] = "provider_pending"
                   /\ orderStatus[OrderOf[j]] \notin Abandoned } }
  /\ spc' = "poll" /\ UNCHANGED sjob
  /\ UNCHANGED <<rows, flags, lock, worker, plan, provider, byHand, used>>

\* What the sweep does with a snapshot row it has looked into: settle the item
\* and go on to its order, or, when the settle lost a race, skip the item.
SettleRow(r, to, then) ==
  /\ batch' = batch \ {r}
  /\ IF status[r.item] \in Settleable
     THEN /\ status' = [ status EXCEPT ![r.item] = to ]
          /\ sjob' = [ NoSweep EXCEPT !.order = OrderOf[r.item],
                                      !.back = spc ]
          /\ spc' = then
     ELSE UNCHANGED <<status, sjob, spc>>

\* pollOne: COMPLETED with no pins is a delivery.
PollCompleted(r) ==
  /\ spc = "poll" /\ r \in batch
  /\ "completed" \in PollAnswers
  /\ SettleRow(r, "succeeded", "refresh")
  /\ UNCHANGED <<orderStatus, attempts, before, aged, flags, lock,
                 worker, plan, provider, byHand, used>>

\* pollOne gives up on a code instead of a top-up, a reference nobody knows,
\* PENDING for too long.  A pending item always has a reference: both clients
\* see to it, so NO_REFERENCE cannot happen.
PollEscalates(r) ==
  /\ spc = "poll" /\ r \in batch
  /\ \/ "code" \in PollAnswers
     \/ "missing" \in PollAnswers
     \/ "pending" \in PollAnswers /\ r.age = "old"
  /\ SettleRow(r, "unknown", "escalate")
  /\ UNCHANGED <<orderStatus, attempts, before, aged, flags, lock,
                 worker, plan, provider, byHand, used>>

\* Still PENDING and young, or the provider's answer was an exception: the
\* item waits for the next sweep.  The throw comes before the age is looked at.
SkipRow(r) ==
  /\ r \in batch
  /\ \/ spc = "poll" /\ "pending" \in PollAnswers /\ r.age = "young"
     \/ spc = "poll" /\ "error" \in PollAnswers
     \/ spc = "recover" /\ "error" \in PollAnswers
  /\ batch' = batch \ {r}
  /\ UNCHANGED <<rows, flags, lock, worker, spc, sjob, plan, provider, byHand,
                 used>>

\* findStalledSendingItems, read before the lock is asked for.
RecoverQuery ==
  /\ spc = "poll" /\ batch = {}
  /\ batch' = { Snapshot(i) : i \in { j \in Items :
                   /\ status[j] = "sending"
                   /\ orderStatus[OrderOf[j]] \notin Abandoned } }
  /\ spc' = IF batch' = {} THEN "idle" ELSE "try_lock"
  /\ UNCHANGED <<rows, flags, lock, worker, sjob, plan, provider, byHand, used>>

\* Mutant: recovery does not wait for the lock.
TryLockNot ==
  /\ spc = "try_lock" /\ spc' = "recover"
  /\ UNCHANGED <<rows, flags, lock, worker, batch, sjob, plan, provider, byHand,
                 used>>

\* tryWithLock: skip the group rather than queue behind a live call.
TryLock ==
  /\ spc = "try_lock"
  /\ IF lock = "free"
     THEN lock' = "sweep" /\ spc' = "recover" /\ UNCHANGED batch
     ELSE spc' = "idle" /\ batch' = {} /\ UNCHANGED lock
  /\ UNCHANGED <<rows, flags, worker, sjob, plan, provider, byHand, used>>

\* recoverOne: the wallet against the reading taken before the send.
RecoverItem(r) ==
  /\ spc = "recover" /\ r \in batch
  /\ LET verdict == Verdict(r.item, r.reading)
     IN  CASE verdict = "charged" -> SettleRow(r, "succeeded", "refresh")
           [] verdict = "not_charged" ->
                SettleRow(r, IF r.tries >= MaxAttempts THEN "unknown" ELSE "failed", "refresh")
           [] OTHER -> SettleRow(r, "unknown", "escalate")
  /\ UNCHANGED <<orderStatus, attempts, before, aged, flags, lock,
                 worker, plan, provider, byHand, used>>

RecoverDone ==
  /\ spc = "recover" /\ batch = {}
  /\ lock' = "free" /\ spc' = "idle"
  /\ UNCHANGED <<rows, flags, worker, batch, sjob, plan, provider, byHand, used>>

\* Mutant: the order in hand is dropped before it is refreshed.
EscalateForgets ==
  /\ spc = "escalate"
  /\ orderStatus' = [ orderStatus EXCEPT ![sjob.order] = "needs_review" ]
  /\ spc' = "refresh" /\ sjob' = NoSweep
  /\ UNCHANGED <<status, attempts, before, aged, flags, lock, worker,
                 batch, plan, provider, byHand, used>>

\* escalate(): needs_review whatever the order says by now.  A recovered
\* item's order is then refreshed too.
Escalate ==
  /\ spc = "escalate"
  /\ orderStatus' = [ orderStatus EXCEPT ![sjob.order] = "needs_review" ]
  /\ IF sjob.back = "recover" THEN spc' = "refresh" /\ UNCHANGED sjob
     ELSE spc' = "poll" /\ sjob' = NoSweep
  /\ UNCHANGED <<status, attempts, before, aged, flags, lock, worker,
                 batch, plan, provider, byHand, used>>

\* refreshOrderStatus derives from what it loads; emergency mode turns work
\* left to do into a hold.
Refreshed(o) ==
  IF emergency /\ Derived(o) \in { "processing", "partially_delivered" }
  THEN "needs_review" ELSE Derived(o)

RefreshLoad ==
  /\ spc = "refresh"
  /\ IF Refreshed(sjob.order) = orderStatus[sjob.order]
     THEN spc' = sjob.back /\ sjob' = NoSweep
     ELSE /\ spc' = "refreshing"
          /\ sjob' = [ sjob EXCEPT !.final = Refreshed(sjob.order) ]
  /\ UNCHANGED <<rows, flags, lock, worker, batch, plan, provider, byHand,
                 used>>

\* The write is unconditional: no transition is asserted.
RefreshWrite ==
  /\ spc = "refreshing"
  /\ orderStatus' = [ orderStatus EXCEPT ![sjob.order] = sjob.final ]
  /\ spc' = sjob.back /\ sjob' = NoSweep
  /\ UNCHANGED <<status, attempts, before, aged, flags, lock, worker,
                 batch, plan, provider, byHand, used>>

SweepStep ==
  \/ PollQuery \/ RecoverQuery \/ TryLock \/ RecoverDone
  \/ \E r \in batch : PollCompleted(r) \/ PollEscalates(r) \/ SkipRow(r)
                       \/ RecoverItem(r)
  \/ Escalate \/ RefreshLoad \/ RefreshWrite

------------------------------------------------------------------------------
(* Review: planReview on what the request loads, applyReview with every    *)
(* status compared again.  The admin is one who looks at the provider's    *)
(* panel first, so what they say of an unresolved item is true.            *)

InReview(o) == orderStatus[o] = "needs_review"
OthersDone(i) == \A j \in ItemsOf(OrderOf[i]) : j = i \/ status[j] = "succeeded"

Propose(kind, o, next, S) ==
  /\ plan = NoPlan /\ used.review < MaxReviews
  /\ plan' = [ kind |-> kind, order |-> o, expected |-> orderStatus[o],
               next |-> next, was |-> [ i \in S |-> status[i] ] ]
  /\ used' = [ used EXCEPT !.review = @ + 1 ]
  /\ UNCHANGED <<rows, flags, lock, worker, sweeper, provider, byHand>>

PlanDelivered(i) ==
  /\ InReview(OrderOf[i]) /\ status[i] \in { "unknown", "failed" }
  /\ charged[i] > 0
  /\ Propose("delivered", OrderOf[i],
             IF OthersDone(i) THEN "completed" ELSE "needs_review", {i})

\* Only an unknown item asks for the confirmation.
PlanNotDelivered(i) ==
  /\ InReview(OrderOf[i]) /\ status[i] \in { "unknown", "failed" }
  /\ status[i] = "unknown" => charged[i] = 0 /\ i \notin late
  /\ Propose("requeue", OrderOf[i], "needs_review", {i})

PlanDeliveredManually(i) ==
  /\ InReview(OrderOf[i]) /\ status[i] \in Dispatchable
  /\ Propose("by_hand", OrderOf[i],
             IF OthersDone(i) THEN "completed" ELSE "needs_review", {i})

PlanResume(o) ==
  LET toSend == { i \in ItemsOf(o) : status[i] \in Dispatchable }
      In(st) == { i \in ItemsOf(o) : status[i] = st }
  IN  /\ InReview(o)
      /\ In("unknown") = {} /\ In("sending") = {} /\ toSend # {}
      /\ Propose("requeue", o,
                 IF In("succeeded") # {} THEN "partially_delivered"
                 ELSE "payment_confirmed", toSend)

PlanRefund(o) ==
  /\ InReview(o) /\ \A i \in ItemsOf(o) : status[i] # "sending"
  /\ Propose("refund", o, "refund_required", {})

PlanRefundDone(o) ==
  /\ orderStatus[o] = "refund_required"
  /\ Propose("refund_done", o, "cancelled", {})

\* Mutant: only the order is compared again, not its items.
UnmovedOrder == orderStatus[plan.order] = plan.expected

\* applyReview: one transaction, rolled back when any row has moved.  byHand is
\* what the shop has on record: what an admin handed over before a refused commit
\* (review.ts:56) is nowhere in it.
Unmoved == /\ orderStatus[plan.order] = plan.expected
           /\ \A i \in DOMAIN plan.was : status[i] = plan.was[i]

ApplyReview ==
  /\ plan # NoPlan
  /\ LET S == DOMAIN plan.was
     IN  IF Unmoved
         THEN /\ orderStatus' = [ orderStatus EXCEPT ![plan.order] = plan.next ]
              /\ status' = [ i \in Items |->
                   IF i \notin S THEN status[i]
                   ELSE IF plan.kind = "requeue" THEN "queued" ELSE "succeeded" ]
              /\ attempts' = [ i \in Items |->
                   IF i \in S /\ plan.kind = "requeue" THEN 0 ELSE attempts[i] ]
              /\ byHand' = IF plan.kind = "by_hand" THEN byHand \cup S ELSE byHand
         ELSE UNCHANGED <<orderStatus, status, attempts, byHand>>
  /\ plan' = NoPlan
  /\ UNCHANGED <<before, aged, flags, lock, worker, sweeper, provider, used>>

ReviewStep ==
  \/ \E i \in Items : PlanDelivered(i) \/ PlanNotDelivered(i)
                       \/ PlanDeliveredManually(i)
  \/ \E o \in Orders : PlanResume(o) \/ PlanRefund(o) \/ PlanRefundDone(o)
  \/ ApplyReview

------------------------------------------------------------------------------
(* The environment.                                                        *)

\* A payment is confirmed, which is what enqueues the order.
ConfirmPayment(o) ==
  /\ orderStatus[o] = "pending_payment"
  /\ orderStatus' = [ orderStatus EXCEPT ![o] = "payment_confirmed" ]
  /\ UNCHANGED <<status, attempts, before, aged, flags, lock, worker,
                 sweeper, plan, provider, byHand, used>>

\* A pending item grows older than escalateAfterMs.
GrowOld(i) ==
  /\ status[i] = "provider_pending" /\ i \notin aged
  /\ aged' = aged \cup {i}
  /\ UNCHANGED <<orderStatus, status, attempts, before, flags, lock,
                 worker, sweeper, plan, provider, byHand, used>>

\* The request whose answer timed out reaches the provider after all.
LandLate(i) ==
  /\ i \in late
  /\ late' = late \ {i}
  /\ wallet' = wallet - Debit[i]
  /\ charged' = [ charged EXCEPT ![i] = @ + 1 ]
  /\ UNCHANGED <<rows, flags, lock, worker, sweeper, plan, byHand, used>>

ToggleEmergency ==
  /\ used.toggle < MaxToggles
  /\ emergency' = ~emergency
  /\ used' = [ used EXCEPT !.toggle = @ + 1 ]
  /\ UNCHANGED <<rows, withdrawn, lock, worker, sweeper, plan, provider,
                 byHand>>

\* A catalog sync takes the product off sale.
Withdraw(i) ==
  /\ i \in Withdrawable \ withdrawn
  /\ withdrawn' = withdrawn \cup {i}
  /\ UNCHANGED <<rows, emergency, lock, worker, sweeper, plan, provider,
                 byHand, used>>

TopUp(amount) ==
  /\ used.topup < MaxTopUps
  /\ wallet' = wallet + amount
  /\ used' = [ used EXCEPT !.topup = @ + 1 ]
  /\ UNCHANGED <<rows, flags, lock, worker, sweeper, plan, charged, late,
                 byHand>>

\* A query or a provider call throws out of fulfillOrder; the order loop
\* catches it and goes on.
WorkerThrows ==
  /\ wpc # "idle" /\ used.throw < MaxThrows
  /\ WorkerIdle
  /\ used' = [ used EXCEPT !.throw = @ + 1 ]
  /\ UNCHANGED <<rows, flags, sweeper, plan, provider, byHand>>

\* A query throws after the sweep settled an item: the batch's catch skips
\* what was left to do about that item.
SweepThrows ==
  /\ spc \in { "escalate", "refresh", "refreshing" } /\ used.throw < MaxThrows
  /\ spc' = sjob.back /\ sjob' = NoSweep
  /\ used' = [ used EXCEPT !.throw = @ + 1 ]
  /\ UNCHANGED <<rows, flags, lock, worker, batch, plan, provider, byHand>>

\* The process dies and comes back: memory is gone, and the lock with the
\* connection that held it.
Crash ==
  /\ used.crash < MaxCrashes
  /\ wpc # "idle" \/ spc # "idle"
  /\ wpc' = "idle" /\ job' = NoJob
  /\ spc' = "idle" /\ batch' = {} /\ sjob' = NoSweep
  /\ lock' = "free"
  /\ used' = [ used EXCEPT !.crash = @ + 1 ]
  /\ UNCHANGED <<rows, flags, plan, provider, byHand>>

Environment ==
  \/ \E o \in Orders : ConfirmPayment(o)
  \/ \E i \in Items : GrowOld(i) \/ LandLate(i) \/ Withdraw(i)
  \/ ToggleEmergency
  \/ \E amount \in TopUps : TopUp(amount)
  \/ WorkerThrows \/ SweepThrows \/ Crash

Next == WorkerStep \/ SweepStep \/ ReviewStep \/ Environment

Spec == Init /\ [][Next]_vars

(***************************************************************************)
(* Fairness: both loops of runner.ts keep going (their catch blocks see to *)
(* it) and time passes.  Nothing is assumed of admins, the provider's      *)
(* choice of answers, or the owner.                                        *)
(***************************************************************************)
Fairness ==
  /\ WF_vars(WorkerStep) /\ WF_vars(SweepStep)
  /\ \A i \in Items : WF_vars(GrowOld(i))

FairSpec == Spec /\ Fairness
==============================================================================
