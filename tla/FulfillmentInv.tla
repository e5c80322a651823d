--------------------------- MODULE FulfillmentInv ---------------------------
(***************************************************************************)
(* The inductive invariants behind FulfillmentProps' safety properties:    *)
(* who holds the lock and what it protects, and how the wallet bears out   *)
(* every verdict.                                                          *)
(***************************************************************************)
EXTENDS FulfillmentProps

Recovering == \/ spc = "recover"
              \/ spc \in { "escalate", "refresh", "refreshing" }
                   /\ sjob.back = "recover"
Polling    == \/ spc = "poll"
              \/ spc \in { "escalate", "refresh", "refreshing" }
                   /\ sjob.back = "poll"
InCall     == wpc \in { "calling", "answered" }

\* The lock is held exactly while a call is made or stalled items are judged.
LockInv ==
  /\ lock = "worker" <=> wpc \in { "locked", "calling", "answered" }
  /\ lock = "sweep"  <=> Recovering

\* The item of a live call is marked 'sending', with the call's own reading.
CallInv ==
  InCall => status[job.item] = "sending" /\ before[job.item] = job.reading

\* What the worker has yet to send is not out or pending already.
TodoInv ==
  /\ wpc \in { "preflight", "next", "locked" } =>
       \A i \in job.todo : status[i] \notin Settleable
  /\ InCall => \A i \in job.todo \ {job.item} : status[i] \notin Settleable

\* What the poller has in hand is pending, each item once.
BatchInv ==
  /\ Polling => \A r \in batch : status[r.item] = "provider_pending"
  /\ \A r, s \in batch : r.item = s.item => r = s

\* A review only ever moves items that no call and no poll is about.
PlanInv ==
  \A i \in DOMAIN plan.was :
    /\ plan.was[i] \in { "queued", "failed", "unknown" }
    /\ plan.kind = "by_hand" => plan.was[i] \in Dispatchable
    /\ plan.was[i] = "unknown" => status[i] = "unknown"

\* The lock keeps recovery, polling and review away from a live call's item.
LiveCallsAreGuarded ==
  LockInv /\ CallInv /\ TodoInv /\ BatchInv /\ PlanInv

\* An item that may be sent was never delivered; one whose call is unsettled
\* was charged only if the wallet fell by its price since its reading.
MoneyInv ==
  /\ late = {}
  /\ \A i \in Items :
       /\ charged[i] \in {0, 1}
       /\ status[i] \in Dispatchable => charged[i] = 0 /\ i \notin byHand
       /\ i \in byHand => status[i] = "succeeded" /\ charged[i] = 0
       /\ status[i] \in Settleable =>
            /\ wallet <= before[i]
            /\ charged[i] = 1 => wallet <= before[i] - Debit[i]
  /\ \A r \in batch : /\ wallet <= r.reading
                      /\ status[r.item] \in Settleable =>
                           before[r.item] <= r.reading

\* What the worker and the reviewer have in hand agrees with the charges.
HandInv ==
  /\ wpc \in { "locked", "calling" } => job.reading = wallet
  /\ wpc = "calling" => charged[job.item] = 0
  /\ wpc = "answered" /\ job.outcome \in { "failed_retryable",
       "failed_permanent" } => charged[job.item] = 0
  /\ \A i \in DOMAIN plan.was :
       plan.kind = "requeue" /\ plan.was[i] = "unknown" => charged[i] = 0

\* A retry is only ever of an item whose charge the wallet has ruled out.
RetriesAreUncharged == MoneyInv /\ HandInv

Whole(o) == \A i \in ItemsOf(o) : status[i] = "succeeded"

\* Nobody is about to write 'completed' over an order that is not.
WholeInv ==
  /\ CompletedIsWhole
  /\ wpc = "finishing" /\ job.final = "completed" => Whole(job.order)
  /\ spc = "refreshing" /\ sjob.final = "completed" => Whole(sjob.order)
  /\ plan.next = "completed" =>
       /\ plan.kind # "requeue"
       /\ \A i \in ItemsOf(plan.order) :
            i \in DOMAIN plan.was \/ status[i] = "succeeded"

\* Whatever the worker may still send has an attempt to spare.
BudgetInv ==
  /\ RetriesAreBounded
  /\ wpc \in { "preflight", "next", "locked" } =>
       \A i \in job.todo : attempts[i] < MaxAttempts
  /\ wpc = "locked" => job.item \in job.todo
  /\ InCall => \A i \in job.todo \ {job.item} : attempts[i] < MaxAttempts

\* No send is cut off between its marking and its settlement: neither a crash
\* nor an exception has the worker leave an item in 'sending'.
CallsEnd == \A i \in Items : status[i] = "sending" => InCall /\ job.item = i

\* Nobody is about to book an item that the customer did not get: neither the
\* worker with its answer, nor the poller, nor a reviewer.
HonestInv ==
  /\ \A i \in Items : status[i] = "provider_pending" => charged[i] = 1
  /\ wpc = "answered" => IF job.outcome \in Lands THEN charged[job.item] = 1
                         ELSE wallet = job.reading
  /\ plan.kind = "delivered" => \A i \in DOMAIN plan.was : charged[i] = 1
  /\ plan.kind \in { "delivered", "by_hand" } => \E i \in Items : DOMAIN plan.was = {i}
  /\ plan.kind \in { "none", "refund", "refund_done" } => DOMAIN plan.was = {}

\* And nobody has.
BookedInv == DeliveredIsReal /\ HonestInv

\* What an order may derive from its items, and the two loops may write of it.
Derivable == { "processing", "partially_delivered", "needs_review", "completed" }

\* What a review has in hand, by what it is about to do.
AboutOne(i) == DOMAIN plan.was = {i} /\ plan.order = OrderOf[i]
ToBook      == /\ plan.kind \in { "delivered", "by_hand" }
               /\ plan.next \in { "needs_review", "completed" }
ToSendOne   == plan.kind = "requeue" /\ plan.next = "needs_review"
ToSendLeft  == plan.kind = "requeue" /\ plan.next \in { "payment_confirmed", "partially_delivered" }
ToRefund    == plan.kind = "refund" /\ plan.next = "refund_required"
ToCancel    == plan.kind = "refund_done" /\ plan.next = "cancelled"

\* A review found the order parked, or its refund decided, and is about one item
\* that was in doubt or not sent; or about all that was left of the order, the
\* rest of which is not out and will not be left again.
DeskInv ==
  /\ wpc = "finishing" => job.final \in Derivable
  /\ spc = "refreshing" => sjob.final \in Derivable
  /\ plan = NoPlan \/ ToBook \/ ToSendOne \/ ToSendLeft \/ ToRefund \/ ToCancel
  /\ plan.expected = CASE plan = NoPlan -> "none"
                       [] ToCancel     -> "refund_required"
                       [] OTHER        -> "needs_review"
  /\ ToBook \/ ToSendOne => \E i \in Items : AboutOne(i)
  /\ ToSendOne \/ plan.kind = "delivered" =>
       \A i \in DOMAIN plan.was : plan.was[i] \in { "unknown", "failed" }
  /\ ToSendLeft =>
       /\ DOMAIN plan.was # {} /\ DOMAIN plan.was \subseteq ItemsOf(plan.order)
       /\ \A i \in DOMAIN plan.was : plan.was[i] \in Dispatchable
       /\ \A i \in ItemsOf(plan.order) \ DOMAIN plan.was :
            status[i] \in { "succeeded", "provider_pending", "unknown" }
       /\ plan.next = "partially_delivered" =>
            \E i \in ItemsOf(plan.order) : status[i] = "succeeded"
=============================================================================
