---------------------------- MODULE OrderStates ----------------------------
(***************************************************************************)
(* The order state machine of packages/engine/src/states.ts: the statuses, *)
(* the declared transition table, and the status an order derives from its *)
(* items.  No variables: the modules that move orders extend this one.     *)
(***************************************************************************)
EXTENDS Naturals, FiniteSets

OrderStatuses ==
  { "pending_payment", "payment_confirmed", "processing",
    "partially_delivered", "completed", "payment_expired", "needs_review",
    "refund_required", "cancelled", "refunded" }

ItemStatuses ==
  { "queued", "sending", "succeeded", "failed", "unknown",
    "provider_pending" }

\* The table TRANSITIONS, as the set of targets of each status.
Transitions ==
  [ st \in OrderStatuses |->
      CASE st = "pending_payment"   -> { "payment_confirmed",
                                         "payment_expired", "cancelled" }
        [] st = "payment_confirmed" -> { "processing", "needs_review",
                                         "cancelled" }
        [] st = "processing"        -> { "partially_delivered", "completed",
                                         "needs_review" }
        [] st = "partially_delivered" -> { "processing", "completed",
                                           "needs_review" }
        [] st = "needs_review"      -> { "processing", "payment_confirmed",
                                         "partially_delivered", "completed",
                                         "refund_required", "cancelled" }
        [] st = "refund_required"   -> { "cancelled", "needs_review" }
        [] st = "completed"         -> { "refunded" }
        [] st = "payment_expired"   -> { "cancelled" }
        [] OTHER                    -> {} ]

CanTransition(from, to) == from = to \/ to \in Transitions[from]

\* Mutant: items that failed count as settled.
DeriveOrderStatusSettled(view, maxAttempts) ==
  IF \A i \in DOMAIN view : view[i].status \in { "succeeded", "failed" }
  THEN "completed" ELSE "processing"

(***************************************************************************)
(* deriveOrderStatus: view[i] is an item's [status, attempts].  The order  *)
(* of the tests is the code's: an unresolved or exhausted item outranks    *)
(* everything, then completion, then work in flight.                       *)
(***************************************************************************)
DeriveOrderStatus(view, maxAttempts) ==
  LET All         == DOMAIN view
      In(st)      == { i \in All : view[i].status = st }
      Exhausted   == { i \in In("failed") : view[i].attempts >= maxAttempts }
  IN  IF In("unknown") # {} \/ Exhausted # {} THEN "needs_review"
      ELSE IF In("succeeded") = All THEN "completed"
      ELSE IF In("sending") # {} \/ In("provider_pending") # {} THEN "processing"
      ELSE IF In("succeeded") # {} THEN "partially_delivered"
      ELSE "processing"
============================================================================
