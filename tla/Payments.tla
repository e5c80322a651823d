------------------------------ MODULE Payments ------------------------------
(***************************************************************************)
(* One order's payment (packages/engine/src/payments.ts and the stores and *)
(* routes around it): the checkout that created the order, gateway reports *)
(* by webhook or by a page that asks, an admin's taps, the expiry sweep.   *)
(* Orders share nothing here, so one stands for all.                       *)
(*                                                                         *)
(* Every server call is a request: it loads the payment, decides, and      *)
(* writes in a transaction of its own; requests interleave between those.  *)
(* A deadline is what set it and whether it has passed.                    *)
(***************************************************************************)
EXTENDS OrderStates

CONSTANTS
  Requests,       \* the server calls that may be in progress at once
  Checkouts,      \* how the order may have been created
  Methods,        \* payments.method, oxxo and spei both as "voucher"
  Amounts,        \* what may arrive, against what was expected
  MaxVisits,      \* bound on admin taps and page views
  MaxThrows       \* bound on failing queries

ASSUME PaymentAssumption ==
  /\ Checkouts \subseteq { "uploading", "by_admin", "opening" }
  /\ Methods \subseteq { "transfer", "card", "voucher" }
  /\ Amounts \subseteq { "exact", "other" }
  /\ MaxVisits \in Nat /\ MaxThrows \in Nat

VARIABLES
  method,
  orderStatus,    \* orders.status
  paymentStatus,  \* payments.status
  deadline,       \* what payments.expires_at was last set from
  overdue,        \* it has passed
  checkout,       \* the request that created the order: where it is
  attached,       \* payments.gateway_charge_id is set
  charge,         \* the gateway's side of it
  log,            \* the gateway's events: payment_events, or not yet there
  req,            \* the requests: where each is and what it holds
  alerted,        \* the reports of money an alert went out about: the log has
                  \* it for sure, the chat only if it answers (ops.ts)
  enqueued,       \* how often payment_confirmed was written
  used            \* how much of the bounds is spent

rows == <<orderStatus, paymentStatus, deadline, overdue, attached>>
vars == <<method, rows, checkout, charge, log, req, alerted, enqueued, used>>

------------------------------------------------------------------------------

PaymentStatuses == { "pending", "under_review", "paid", "expired", "failed",
                     "amount_mismatch" }
Awaiting == { "pending", "under_review", "amount_mismatch" }

\* The gateway's reports, each one event; two of them are money.
Reports == { "issued", "paid", "short", "expired" }
Money   == { "paid", "short" }

Steps == { "idle", "lookup", "extend", "extending", "settle", "confirm",
           "flag", "alert", "reject", "expire", "mark" }

\* via: whether the report came as an event, and is to be marked, or from a page.
Idle == [ at |-> "idle", report |-> "none", via |-> "none" ]

Init ==
  /\ checkout \in Checkouts
  /\ method \in { m \in Methods : (m = "transfer") <=> (checkout # "opening") }
  /\ orderStatus = "pending_payment" /\ paymentStatus = "pending"
  /\ deadline = "order" /\ overdue = FALSE
  /\ attached = FALSE /\ charge = "none"
  /\ log = [ e \in Reports |-> "unsent" ]
  /\ req = [ r \in Requests |-> Idle ]
  /\ alerted = {} /\ enqueued = 0
  /\ used = [ visit |-> 0, throw |-> 0 ]

------------------------------------------------------------------------------
(* The checkout that created the order (comprar/[combo]/actions.ts).       *)

\* attachComprobante writes under_review whatever the payment is by now.
AttachComprobante ==
  /\ checkout = "uploading" /\ checkout' = "done"
  /\ paymentStatus' = "under_review"
  /\ UNCHANGED <<method, orderStatus, deadline, overdue, attached, charge, log,
                 req, alerted, enqueued, used>>

\* The disk refuses the comprobante; the order stands.
StoreFails ==
  /\ checkout = "uploading" /\ checkout' = "done"
  /\ UNCHANGED <<method, rows, charge, log, req, alerted, enqueued, used>>

\* gateway.createCharge, which may fail.
OpenCharge ==
  /\ checkout = "opening"
  /\ \/ checkout' = "linking" /\ charge' = "open"
     \/ checkout' = "failed" /\ UNCHANGED charge
  /\ UNCHANGED <<method, rows, log, req, alerted, enqueued, used>>

\* attachGatewayCharge: only to a pending payment; the deadline becomes the
\* session's own.  The customer gets the gateway's page when it worked.
LinkCharge ==
  /\ checkout = "linking"
  /\ IF paymentStatus = "pending"
     THEN /\ checkout' = "done" /\ attached' = TRUE
          /\ deadline' = "session" /\ overdue' = FALSE
     ELSE checkout' = "failed" /\ UNCHANGED <<attached, deadline, overdue>>
  /\ UNCHANGED <<method, orderStatus, paymentStatus, charge, log, req, alerted,
                 enqueued, used>>

\* rejectPayment refuses a paid payment and everything but a transfer.
Rejectable == paymentStatus # "paid" /\ method = "transfer"

\* The checkout that could not open asks for the order's cancellation.
CancelOpening ==
  /\ checkout = "failed" /\ checkout' = "gave_up"
  /\ IF Rejectable
     THEN orderStatus' = "cancelled" /\ paymentStatus' = "failed"
     ELSE UNCHANGED <<orderStatus, paymentStatus>>
  /\ UNCHANGED <<method, deadline, overdue, attached, charge, log, req, alerted,
                 enqueued, used>>

------------------------------------------------------------------------------
(* The gateway.                                                            *)

Send(report) == /\ charge' = report
                /\ log' = [ log EXCEPT ![report] = "sent" ]

\* The customer, on the gateway's page, asks for a voucher, or pays.
IssueVoucher ==
  /\ checkout = "done" /\ charge = "open" /\ method = "voucher"
  /\ Send("issued")
  /\ UNCHANGED <<method, rows, checkout, req, alerted, enqueued, used>>

Pay(amount) ==
  /\ checkout = "done" /\ charge = (IF method = "card" THEN "open" ELSE "issued")
  /\ Send(IF amount = "exact" THEN "paid" ELSE "short")
  /\ UNCHANGED <<method, rows, checkout, req, alerted, enqueued, used>>

ChargeExpires ==
  /\ charge \in { "open", "issued" } /\ Send("expired")
  /\ UNCHANGED <<method, rows, checkout, req, alerted, enqueued, used>>

------------------------------------------------------------------------------
(* Gateway reports: the webhook, and the pages that ask the gateway.       *)

Idles(r) == req[r] = Idle
GoTo(r, step) == req' = [ req EXCEPT ![r].at = step ]
Visit == /\ used.visit < MaxVisits
         /\ used' = [ used EXCEPT !.visit = @ + 1 ]

AfterAlways(r) == GoTo(r, "mark")    \* mutant: there is no event to mark

\* Where a request goes when it is through: an event is still to be marked.
After(r) == req' = [ req EXCEPT ![r] = IF @.via = "event" THEN [ @ EXCEPT !.at = "mark" ]
                                       ELSE Idle ]

\* Mutants: whatever was recorded before counts as done; an event is marked
\* as processed before it is applied.
DeliverOnce(r, e) ==
  /\ Idles(r) /\ log[e] # "unsent"
  /\ IF log[e] # "sent" THEN UNCHANGED <<log, req>>
     ELSE /\ log' = [ log EXCEPT ![e] = "recorded" ]
          /\ req' = [ req EXCEPT ![r] =
                        [ at |-> "lookup", report |-> e, via |-> "event" ] ]
  /\ UNCHANGED <<method, rows, checkout, charge, alerted, enqueued, used>>
DeliverMarked(r, e) ==
  /\ Idles(r) /\ log[e] \in { "sent", "recorded" }
  /\ log' = [ log EXCEPT ![e] = "processed" ]
  /\ req' = [ req EXCEPT ![r] =
                [ at |-> "lookup", report |-> e, via |-> "event" ] ]
  /\ UNCHANGED <<method, rows, checkout, charge, alerted, enqueued, used>>

\* The webhook route: an event is delivered, in any order and again until it
\* is answered with 200.  recordPaymentEvent drops only what is processed.
Deliver(r, e) ==
  /\ Idles(r) /\ log[e] \in { "sent", "recorded" }
  /\ log' = [ log EXCEPT ![e] = "recorded" ]
  /\ req' = [ req EXCEPT ![r] =
                [ at |-> "lookup", report |-> e, via |-> "event" ] ]
  /\ UNCHANGED <<method, rows, checkout, charge, alerted, enqueued, used>>

\* The order page asks the gateway about an order still awaiting payment.
AskGateway(r) ==
  /\ Idles(r) /\ Visit
  /\ attached /\ orderStatus = "pending_payment" /\ charge \in Reports
  /\ req' = [ req EXCEPT ![r] = [ at |-> "lookup", report |-> charge, via |-> "page" ] ]
  /\ UNCHANGED <<method, rows, checkout, charge, log, alerted, enqueued>>

\* The customer comes back from the gateway without paying: the session is
\* expired there, then here.
CancelCheckout(r) ==
  /\ Idles(r) /\ Visit
  /\ attached /\ orderStatus = "pending_payment" /\ charge = "open"
  /\ Send("expired")
  /\ req' = [ req EXCEPT ![r] = 
                [ at |-> "lookup", report |-> "expired", via |-> "page" ] ]
  /\ UNCHANGED <<method, rows, checkout, alerted, enqueued>>

\* findGatewayPayment: money for a charge nobody linked is an alert.
Lookup(r) ==
  /\ req[r].at = "lookup"
  /\ IF attached THEN GoTo(r, IF req[r].report = "issued" THEN "extend" ELSE "settle")
     ELSE IF req[r].report \in Money THEN GoTo(r, "alert") ELSE After(r)
  /\ UNCHANGED <<method, rows, checkout, charge, log, alerted, enqueued, used>>

\* extendPaymentDeadline: the status is read, and the deadline written, apart;
\* every report of the same voucher moves it on, counted from that report.
ExtendLoad(r) ==
  /\ req[r].at = "extend"
  /\ IF paymentStatus = "pending" THEN GoTo(r, "extending") ELSE After(r)
  /\ UNCHANGED <<method, rows, checkout, charge, log, alerted, enqueued, used>>

ExtendWrite(r) ==
  /\ req[r].at = "extending"
  /\ deadline' = "voucher" /\ overdue' = FALSE
  /\ After(r)
  /\ UNCHANGED <<method, orderStatus, paymentStatus, attached, checkout, charge,
                 log, alerted, enqueued, used>>

\* approvePayment's decision on what findPayable loaded.
Decision(amount, forced) ==
  IF paymentStatus = "paid" THEN "already"
  ELSE IF paymentStatus \notin Awaiting \/ (overdue /\ ~forced) THEN "refused"
  ELSE IF amount # "exact" /\ ~forced THEN "flag" ELSE "confirm"

\* settleGatewayCharge on money: it goes through approvePayment, and a refusal
\* is an alert; so is a report that names no amount, whatever the payment is.
SettleMoney(r) ==
  /\ req[r].at = "settle" /\ req[r].report \in Money
  /\ LET what == Decision(IF req[r].report = "paid" THEN "exact" ELSE "other", FALSE)
     IN  \/ what = "already" /\ After(r)
         \/ what \in { "flag", "confirm" } /\ GoTo(r, what)
         \/ GoTo(r, "alert")
  /\ UNCHANGED <<method, rows, checkout, charge, log, alerted, enqueued, used>>

\* notifyOps is awaited before the event is marked.
Alert(r) ==
  /\ req[r].at = "alert"
  /\ alerted' = alerted \cup {req[r].report} /\ After(r)
  /\ UNCHANGED <<method, rows, checkout, charge, log, enqueued, used>>

\* settleGatewayCharge on an expired or failed charge: only a payment nobody
\* has acted on.
SettleExpired(r) ==
  /\ req[r].at = "settle" /\ req[r].report = "expired"
  /\ IF paymentStatus = "pending" /\ orderStatus = "pending_payment"
     THEN GoTo(r, "expire") ELSE After(r)
  /\ UNCHANGED <<method, rows, checkout, charge, log, alerted, enqueued, used>>

\* markPaymentEventProcessed; the gateway gets its 200.
Mark(r) ==
  /\ req[r].at = "mark"
  /\ log' = [ log EXCEPT ![req[r].report] = "processed" ]
  /\ req' = [ req EXCEPT ![r] = Idle ]
  /\ UNCHANGED <<method, rows, checkout, charge, alerted, enqueued, used>>

------------------------------------------------------------------------------
(* The admin, and the sweep.                                               *)

\* What the panel offers: a transfer may be approved, with the amount that
\* came and an override; a voucher may be released; a card settles itself.
Offered(amount, forced) == \/ method = "transfer"
                           \/ method = "voucher" /\ forced /\ amount = "exact"

Approve(r, amount, forced) ==
  /\ Idles(r) /\ Visit /\ Offered(amount, forced)
  /\ LET what == Decision(amount, forced)
     IN  IF what \in { "flag", "confirm" } THEN GoTo(r, what) ELSE UNCHANGED req
  /\ UNCHANGED <<method, rows, checkout, charge, log, alerted, enqueued>>

Reject(r) ==
  /\ Idles(r) /\ Visit /\ Rejectable
  /\ GoTo(r, "reject")
  /\ UNCHANGED <<method, rows, checkout, charge, log, alerted, enqueued>>

\* findOverduePayments; each row it returns is then expired on its own.
Sweep(r) ==
  /\ Idles(r) /\ overdue
  /\ paymentStatus = "pending" /\ orderStatus = "pending_payment"
  /\ GoTo(r, "expire")
  /\ UNCHANGED <<method, rows, checkout, charge, log, alerted, enqueued, used>>

------------------------------------------------------------------------------
(* The writes, each one transaction.  One that finds the payment moved     *)
(* throws: an event stays recorded for the gateway's next delivery.        *)

ConfirmUnguarded(r) ==    \* mutant
  /\ req[r].at = "confirm"
  /\ paymentStatus' = "paid" /\ orderStatus' = "payment_confirmed"
  /\ enqueued' = enqueued + 1 /\ After(r)
  /\ UNCHANGED <<method, deadline, overdue, attached, checkout, charge, log,
                 alerted, used>>

\* confirmPayment: guarded on the payment, not on the order.
Confirm(r) ==
  /\ req[r].at = "confirm"
  /\ IF paymentStatus # "paid"
     THEN /\ paymentStatus' = "paid" /\ orderStatus' = "payment_confirmed"
          /\ enqueued' = enqueued + 1 /\ After(r)
     ELSE /\ req' = [ req EXCEPT ![r] = Idle ]
          /\ UNCHANGED <<paymentStatus, orderStatus, enqueued>>
  /\ UNCHANGED <<method, deadline, overdue, attached, checkout, charge, log,
                 alerted, used>>

\* flagMismatch: no guard at all.  From a report it is a refusal too.
Flag(r) ==
  /\ req[r].at = "flag"
  /\ paymentStatus' = "amount_mismatch"
  /\ IF req[r].report \in Money THEN GoTo(r, "alert") ELSE After(r)
  /\ UNCHANGED <<method, orderStatus, deadline, overdue, attached, checkout,
                 charge, log, alerted, enqueued, used>>

RejectUnchecked(r) ==    \* mutant: an update of no row goes unnoticed
  /\ req[r].at = "reject"
  /\ paymentStatus' = IF paymentStatus # "paid" THEN "failed" ELSE paymentStatus
  /\ orderStatus' = "cancelled"
  /\ req' = [ req EXCEPT ![r] = Idle ]
  /\ UNCHANGED <<method, deadline, overdue, attached, checkout, charge, log,
                 alerted, enqueued, used>>

RejectWrite(r) ==
  /\ req[r].at = "reject"
  /\ IF paymentStatus # "paid"
     THEN paymentStatus' = "failed" /\ orderStatus' = "cancelled"
     ELSE UNCHANGED <<paymentStatus, orderStatus>>
  /\ req' = [ req EXCEPT ![r] = Idle ]
  /\ UNCHANGED <<method, deadline, overdue, attached, checkout, charge, log,
                 alerted, enqueued, used>>

ExpireUnpaid(r) ==    \* mutant: the guard of the other writes
  /\ req[r].at = "expire"
  /\ IF paymentStatus # "paid"
     THEN paymentStatus' = "expired" /\ orderStatus' = "payment_expired" /\ After(r)
     ELSE /\ req' = [ req EXCEPT ![r] = Idle ]
          /\ UNCHANGED <<paymentStatus, orderStatus>>
  /\ UNCHANGED <<method, deadline, overdue, attached, checkout, charge, log,
                 alerted, enqueued, used>>
ExpireUnguarded(r) ==    \* mutant
  /\ req[r].at = "expire"
  /\ paymentStatus' = "expired" /\ orderStatus' = "payment_expired" /\ After(r)
  /\ UNCHANGED <<method, deadline, overdue, attached, checkout, charge, log,
                 alerted, enqueued, used>>

\* expirePayment, the same in both stores: only what is still pending.
Expire(r) ==
  /\ req[r].at = "expire"
  /\ IF paymentStatus = "pending"
     THEN paymentStatus' = "expired" /\ orderStatus' = "payment_expired" /\ After(r)
     ELSE /\ req' = [ req EXCEPT ![r] = Idle ]
          /\ UNCHANGED <<paymentStatus, orderStatus>>
  /\ UNCHANGED <<method, deadline, overdue, attached, checkout, charge, log,
                 alerted, enqueued, used>>

------------------------------------------------------------------------------

\* A query throws, or the process dies, in the middle of a request.
Throw(r) ==
  /\ ~Idles(r) /\ used.throw < MaxThrows
  /\ req' = [ req EXCEPT ![r] = Idle ]
  /\ used' = [ used EXCEPT !.throw = @ + 1 ]
  /\ UNCHANGED <<method, rows, checkout, charge, log, alerted, enqueued>>

\* The deadline passes: the order's own, the session's, or a voucher's, which
\* an OXXO voucher does not outlive but a SPEI transfer, having no last day, may.
Lapse ==
  /\ ~overdue /\ overdue' = TRUE
  /\ UNCHANGED <<method, orderStatus, paymentStatus, deadline, attached,
                 checkout, charge, log, req, alerted, enqueued, used>>

\* Fulfilment takes the order, and completes it.
Fulfil ==
  /\ \/ orderStatus = "payment_confirmed" /\ orderStatus' = "processing"
     \/ orderStatus = "processing" /\ orderStatus' = "completed"
  /\ UNCHANGED <<method, paymentStatus, deadline, overdue, attached, checkout,
                 charge, log, req, alerted, enqueued, used>>

Checkout == \/ AttachComprobante \/ StoreFails \/ OpenCharge \/ LinkCharge
            \/ CancelOpening
Gateway  == \/ IssueVoucher \/ ChargeExpires \/ \E amount \in Amounts : Pay(amount)

\* What a request in progress does next.
Step(r) == \/ Lookup(r) \/ ExtendLoad(r) \/ ExtendWrite(r) \/ SettleMoney(r)
           \/ SettleExpired(r) \/ Alert(r) \/ Mark(r) \/ Confirm(r) \/ Flag(r)
           \/ RejectWrite(r) \/ Expire(r)

Start(r) == \/ AskGateway(r) \/ CancelCheckout(r) \/ Reject(r) \/ Sweep(r)
            \/ \E amount \in Amounts, forced \in BOOLEAN : Approve(r, amount, forced)

Next == \/ Checkout \/ Gateway \/ Lapse \/ Fulfil
        \/ \E r \in Requests : Start(r) \/ Step(r) \/ Throw(r)
        \/ \E r \in Requests, e \in Reports : Deliver(r, e)

Spec == Init /\ [][Next]_vars

(***************************************************************************)
(* Fairness: a request that started goes on, and the gateway delivers an   *)
(* event again until it gets its 200.                                      *)
(***************************************************************************)
Fairness == /\ \A r \in Requests : WF_vars(Step(r))
            /\ \A e \in Reports : WF_vars(\E r \in Requests : Deliver(r, e))

FairSpec == Spec /\ Fairness
=============================================================================
