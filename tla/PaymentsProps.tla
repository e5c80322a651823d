---------------------------- MODULE PaymentsProps ----------------------------
(***************************************************************************)
(* What payments have to guarantee, over Payments' variables.              *)
(***************************************************************************)
EXTENDS Payments

Calls == [ at : Steps, report : Reports \cup {"none"}, 
           via : { "none", "event", "page" } ]

\* A request has what its step goes on to use: an event to mark, a report to
\* settle, and money only where it is settled.
CallOK(c) == /\ c \in Calls
             /\ c.via # "none" \/ c.at \in { "lookup", "extend", "extending",
                                              "settle", "alert" } => c.report \in Reports
             /\ c.at \in { "extend", "extending", "expire" } =>
                  c.report \notin Money
             /\ c.at = "alert" => c.report \in Money
             /\ c.at = "mark" => c.via = "event"
             /\ c.at = "idle" => c = Idle

RowsOK ==
  /\ method \in { "transfer", "card", "voucher" }
  /\ orderStatus \in OrderStatuses /\ paymentStatus \in PaymentStatuses
  /\ deadline \in { "order", "session", "voucher" } /\ overdue \in BOOLEAN
  /\ checkout \in { "uploading", "by_admin", "opening", "linking", "failed",
                    "gave_up", "done" }
  /\ attached \in BOOLEAN
GatewayOK ==
  /\ charge \in { "none", "open" } \cup Reports
  /\ log \in [ Reports -> { "unsent", "sent", "recorded", "processed" } ]
ReqOK == req \in [ Requests -> Calls ] /\ \A r \in Requests : CallOK(req[r])
CountsOK == /\ alerted \subseteq Money /\ enqueued \in Nat
            /\ used \in [ visit : Nat, throw : Nat ]

\* Every variable has the shape of its column, and every request has in hand
\* what the rest of its handler reads.
TypeOK == RowsOK /\ GatewayOK /\ ReqOK /\ CountsOK

InFulfilment == { "payment_confirmed", "processing", "completed" }

\* Money booked as paid is in the queue: whatever a rejection or an expiry had
\* loaded, no payment stays 'paid' beside an order that is dead or waiting.
PaidIsQueued == paymentStatus = "paid" => orderStatus \in InFulfilment

\* A card, or a voucher of which the gateway reported nothing but what was asked.
PaysAsAsked == \/ method = "card"
               \/ method = "voucher" /\ log["short"] = "unsent"

\* However many deliveries, page views and releases of it overlap, a payment of
\* what was asked enqueues its order once.  (One that came short may enqueue it
\* again: flagMismatch writes over a payment released meanwhile, and an admin
\* may release it a second time.)
EnqueuedOnce == PaysAsAsked => enqueued <= 1

\* An event about money is never marked as processed unless it approved the
\* payment, found it approved, or somebody was told that it could not.
EventsAreHeard ==
  \A e \in Money : log[e] = "processed" => enqueued > 0 \/ e \in alerted

\* Once the customer has paid the gateway, the order is enqueued or somebody
\* hears of it, whatever fails on the way.
MoneyIsHeard ==
  \A e \in Money : log[e] # "unsent" ~> enqueued > 0 \/ e \in alerted

\* No sweep and no gateway report expires a payment whose comprobante is
\* under review, whatever they had read before it was uploaded.
ReviewedNeverExpires ==
  [][paymentStatus = "under_review" => paymentStatus' # "expired"]_vars

\* An order paid through the gateway that reached fulfilment is not cancelled or
\* expired under it by late reports, a rejection or the sweep.
ConfirmedIsKept ==
  [][method # "transfer" /\ orderStatus \in InFulfilment
       => orderStatus' \in InFulfilment]_vars

\* Every move of the order is one the transition table declares.
MovesDeclared == [][CanTransition(orderStatus, orderStatus')]_vars

\* A checkout whose gateway page could not be opened leaves no open order.
OpeningIsCancelled == checkout = "gave_up" => orderStatus # "pending_payment"

\* While an issued voucher that moved the deadline is payable and the deadline
\* ahead, the order is not expired.
VoucherIsHeld ==
  [][charge = "issued" /\ deadline = "voucher" /\ ~overdue /\ orderStatus = "pending_payment"
       => orderStatus' # "payment_expired"]_vars
=============================================================================
