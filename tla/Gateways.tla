------------------------------ MODULE Gateways ------------------------------
(***************************************************************************)
(* What the two payment gateways answer, reduced to the states the program *)
(* acts on: Stripe's Checkout sessions (packages/payments/src/stripe.ts)   *)
(* and Mercado Pago's payments (packages/payments/src/mercadopago.ts).     *)
(*                                                                         *)
(* A Stripe session is its status and whether money moved.  At Mercado     *)
(* Pago an order is only an external reference: every attempt to pay it is *)
(* a payment of its own, kept here in the order they were made.            *)
(***************************************************************************)
EXTENDS Integers, Sequences

CONSTANTS
  StripeMethods,   \* what is switched on at each gateway
  MpMethods

ASSUME GatewaysAssumption ==
  /\ StripeMethods \subseteq { "card", "oxxo", "spei" }
  /\ StripeMethods # {} => "card" \in StripeMethods
  /\ MpMethods \subseteq { "oxxo", "spei" }

ChargeStates == { "pending", "paid", "expired", "failed", "refunded" }

------------------------------------------------------------------------------
(* Stripe.                                                                 *)

Sessions == [ status : { "open", "complete", "expired" }, paid : BOOLEAN ]
OpenSession == [ status |-> "open", paid |-> FALSE ]

\* complete alone is not paid: a voucher's session is complete when it is shown.
SessionState(s) ==
  IF s.paid THEN "paid" ELSE IF s.status = "expired" THEN "expired" ELSE "pending"

\* The four events that are acted on, and what each says of its session.
EventState(type, s) ==
  CASE type = "completed"               -> SessionState(s)
    [] type = "async_payment_succeeded" -> "paid"
    [] type = "async_payment_failed"    -> "failed"
    [] type = "expired"                 -> "expired"

\* expireSession: only an open one; one that was paid, or whose voucher was
\* issued, refuses.
ExpireSession(s) == IF s.status = "open" THEN [ s EXCEPT !.status = "expired" ] ELSE s

------------------------------------------------------------------------------
(* Mercado Pago.                                                           *)

MpStatuses == { "pending", "approved", "in_process", "rejected", "cancelled",
                "refunded", "charged_back" }

\* paymentState.
MpState(status) ==
  CASE status = "approved"                        -> "paid"
    [] status \in { "refunded", "charged_back" }  -> "refunded"
    [] status \in { "rejected", "cancelled" }     -> "failed"
    [] OTHER                                      -> "pending"

\* getCharge: the latest attempt only; none is an answer of its own.
MpCharge(attempts) ==
  IF attempts = << >> THEN "none" ELSE MpState(attempts[Len(attempts)])

------------------------------------------------------------------------------

\* All that a charge's events, redelivered at any time, or a page that asks
\* may say of it: its state, and whether something payable later was issued.
EventsOf(s) == IF s.status = "expired" THEN { "expired" }
               ELSE IF s.status = "open" THEN {}
               ELSE { "completed", IF s.paid THEN "async_payment_succeeded"
                                   ELSE "async_payment_failed" }
StripeReports(method) ==
  LET held == { s \in Sessions : (s.paid => s.status = "complete")
                  /\ (method = "card" => (s.paid <=> s.status = "complete")) }
      states(s) == {SessionState(s)} \cup { EventState(e, s) : e \in EventsOf(s) }
  IN  UNION { { [ state |-> state, voucher |-> s.status = "complete" /\ ~s.paid ] :
                  state \in states(s) } : s \in held }
\* An event names its own payment, a page asks for the latest of two.
MpReports ==
  LET states == { MpState(a) : a \in MpStatuses }
                \cup { MpCharge(<<a, b>>) : a, b \in MpStatuses }
  IN  { [ state |-> state, voucher |-> state = "pending" ] : state \in states }
Reports(gateway, method) == IF gateway = "stripe" THEN StripeReports(method) ELSE MpReports

\* A request's HTTP answer: 2xx is a body, 404 is not found, and of the rest
\* only 429 and 5xx are worth another try.
Answered(status) ==
  CASE status \in 200..299              -> "body"
    [] status = 404                     -> "not_found"
    [] status = 429 \/ status >= 500    -> "retryable"
    [] OTHER                            -> "refused"

\* createCharge opens a page only for an enabled method and a positive amount,
\* and only when the answer carries the page's address.
Opens(gateway, method, amount, url) ==
  /\ method \in (IF gateway = "stripe" THEN StripeMethods ELSE MpMethods)
  /\ amount > 0 /\ url

\* Clamped to what Stripe accepts for a voucher.
Days(asked) == IF asked < 1 THEN 1 ELSE IF asked > 7 THEN 7 ELSE asked

\* pendingGraceDays: the longest of the enabled methods that settle later.
PendingGraceDays(oxxo, spei) ==
  LET o == IF "oxxo" \in StripeMethods THEN Days(oxxo) ELSE 0
      s == IF "spei" \in StripeMethods THEN Days(spei) ELSE 0
  IN  IF o = 0 /\ s = 0 THEN Days(oxxo) ELSE IF o >= s THEN o ELSE s
=============================================================================
