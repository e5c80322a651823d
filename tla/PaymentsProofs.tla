--------------------------- MODULE PaymentsProofs ---------------------------
(***************************************************************************)
(* What holds of a payment for any number of overlapping requests: the     *)
(* types, that money booked as paid is in the queue, that no event about   *)
(* money is marked before somebody acted on it, that a payment under       *)
(* review is never expired, and that an order paid through the gateway     *)
(* stays in fulfilment and is enqueued once for what was asked.            *)
(***************************************************************************)
EXTENDS PaymentsProps, TLAPS

\* What makes EventsAreHeard inductive: the requests about to mark an event
\* have seen to it, and a payment booked as paid was enqueued.
HeardInv ==
  /\ EventsAreHeard
  /\ paymentStatus = "paid" => enqueued > 0
  /\ \A r \in Requests :
       req[r].at = "mark" /\ req[r].report \in Money
         => enqueued > 0 \/ req[r].report \in alerted

\* A request moved to another step keeps its report, and has what that step
\* needs whenever the step it leaves had it.
LEMMA GoToTypes ==
  ASSUME ReqOK, NEW r \in Requests, NEW step \in Steps,
         step \in { "extend", "extending", "settle", "alert" } => req[r].report \in Reports,
         step \in { "extend", "extending", "expire" } => req[r].report \notin Money,
         step = "alert" => req[r].report \in Money,
         step \notin { "idle", "lookup", "mark" },
         GoTo(r, step)
  PROVE  /\ ReqOK' /\ req'[r].at = step
         /\ \A q \in Requests \ {r} : req'[q] = req[q]
<1> DEFINE new == [ req[r] EXCEPT !.at = step ]
<1>1. req[r] \in Calls /\ CallOK(req[r])
  BY DEF ReqOK
<1>2. new \in Calls /\ new.at = step /\ new.report = req[r].report
      /\ new.via = req[r].via
  BY <1>1 DEF Calls
<1>3. CallOK(new)
  BY <1>1, <1>2 DEF CallOK
<1>4. req' = [ req EXCEPT ![r] = new ]
  BY DEF GoTo
<1>5. req \in [ Requests -> Calls ] /\ \A q \in Requests : CallOK(req[q])
  BY DEF ReqOK
<1> HIDE DEF new
<1> QED BY <1>2, <1>3, <1>4, <1>5 DEF ReqOK

\* An idle request is a well-formed one.
LEMMA IdleTypes == Idle \in Calls /\ CallOK(Idle) /\ Idle.at = "idle"
BY DEF Idle, Calls, CallOK, Steps

\* A request given a call that is well formed.
LEMMA SetTypes ==
  ASSUME ReqOK, NEW r \in Requests, NEW c \in Calls, CallOK(c),
         req' = [ req EXCEPT ![r] = c ]
  PROVE  /\ ReqOK' /\ req'[r] = c
         /\ \A q \in Requests \ {r} : req'[q] = req[q]
BY DEF ReqOK

\* A request that is through is idle, or marks the event it came with.
LEMMA AfterTypes ==
  ASSUME ReqOK, NEW r \in Requests, After(r)
  PROVE  /\ ReqOK'
         /\ req'[r].at = "mark" => req'[r].report = req[r].report
         /\ \A q \in Requests \ {r} : req'[q] = req[q]
<1>1. req[r] \in Calls /\ CallOK(req[r])
  BY DEF ReqOK
<1>2. CASE req[r].via = "event"
  <2> DEFINE new == [ req[r] EXCEPT !.at = "mark" ]
  <2>1. new \in Calls /\ new.at = "mark" /\ new.report = req[r].report
        /\ new.via = "event"
    BY <1>1, <1>2 DEF Calls, Steps
  <2>2. CallOK(new)
    BY <1>1, <1>2, <2>1 DEF CallOK
  <2>3. req' = [ req EXCEPT ![r] = new ]
    BY <1>2 DEF After
  <2> HIDE DEF new
  <2> QED BY <2>1, <2>2, <2>3, SetTypes
<1>3. CASE req[r].via # "event"
  <2>1. req' = [ req EXCEPT ![r] = Idle ]
    BY <1>3 DEF After
  <2> QED BY <2>1, IdleTypes, SetTypes
<1> QED BY <1>2, <1>3

\* What a request's step does to the requests: the one that moves is well
\* formed, and if it is about to mark an event, it is the one it came with.
Moves(r) == /\ ReqOK'
            /\ req'[r].at = "mark" => req'[r].report = req[r].report
            /\ \A q \in Requests \ {r} : req'[q] = req[q]

\* Becoming idle, in whatever way, is such a move.
LEMMA IdleMoves ==
  ASSUME ReqOK, NEW r \in Requests, req' = [ req EXCEPT ![r] = Idle ]
  PROVE  Moves(r)
BY IdleTypes, SetTypes DEF Moves

\* A request that goes on to alert has money to report.
LEMMA AlertMoves ==
  ASSUME ReqOK, NEW r \in Requests, GoTo(r, "alert"), req[r].report \in Money
  PROVE  Moves(r)
BY GoToTypes DEF Moves, Steps, Money, Reports

\* Every step of a request that is in progress moves that request only.
LEMMA StepMoves ==
  ASSUME ReqOK, NEW r \in Requests, Step(r)
  PROVE  Moves(r)
<1>0. CallOK(req[r]) /\ req[r] \in Calls
  BY DEF ReqOK
<1>1. CASE Lookup(r)
  <2>1. CASE After(r)
    BY <2>1, AfterTypes DEF Moves
  <2>2. CASE GoTo(r, "extend") /\ req[r].report = "issued"
    BY <2>2, GoToTypes DEF Moves, Steps, Reports, Money
  <2>3. CASE GoTo(r, "settle")
    BY <1>0, <1>1, <2>3, GoToTypes DEF Moves, Lookup, CallOK, Steps
  <2>4. CASE GoTo(r, "alert") /\ req[r].report \in Money
    BY <2>4, AlertMoves
  <2> QED BY <1>1, <2>1, <2>2, <2>3, <2>4 DEF Lookup
<1>2. CASE ExtendLoad(r)
  <2>1. CASE After(r)
    BY <2>1, AfterTypes DEF Moves
  <2>2. CASE GoTo(r, "extending")
    BY <1>0, <1>2, <2>2, GoToTypes DEF Moves, ExtendLoad, CallOK, Steps
  <2> QED BY <1>2, <2>1, <2>2 DEF ExtendLoad
<1>3. CASE ExtendWrite(r) \/ Flag(r) \/ Alert(r)
  <2>1. CASE After(r)
    BY <2>1, AfterTypes DEF Moves
  <2>2. CASE GoTo(r, "alert") /\ req[r].report \in Money
    BY <2>2, AlertMoves
  <2> QED BY <1>3, <2>1, <2>2 DEF ExtendWrite, Flag, Alert
<1>4. CASE SettleMoney(r)
  <2>1. CASE After(r)
    BY <2>1, AfterTypes DEF Moves
  <2>2. CASE GoTo(r, "flag") \/ GoTo(r, "confirm")
    BY <2>2, GoToTypes DEF Moves, Steps
  <2>3. CASE GoTo(r, "alert")
    BY <1>4, <2>3, AlertMoves DEF SettleMoney
  <2> QED BY <1>4, <2>1, <2>2, <2>3 DEF SettleMoney
<1>5. CASE SettleExpired(r)
  <2>1. CASE After(r)
    BY <2>1, AfterTypes DEF Moves
  <2>2. CASE GoTo(r, "expire")
    BY <1>5, <2>2, GoToTypes DEF Moves, SettleExpired, Alert, Steps, Money
  <2> QED BY <1>5, <2>1, <2>2 DEF SettleExpired
<1>6. CASE Mark(r) \/ RejectWrite(r)
  BY <1>6, IdleMoves DEF Mark, RejectWrite
<1>7. CASE Confirm(r) \/ Expire(r)
  <2>1. CASE After(r)
    BY <2>1, AfterTypes DEF Moves
  <2>2. CASE req' = [ req EXCEPT ![r] = Idle ]
    BY <2>2, IdleMoves
  <2> QED BY <1>7, <2>1, <2>2 DEF Confirm, Expire
<1> QED BY <1>1, <1>2, <1>3, <1>4, <1>5, <1>6, <1>7 DEF Step

\* A request that starts is not about to mark anything.
LEMMA StartTypes ==
  ASSUME ReqOK, GatewayOK, NEW r \in Requests,
         Start(r) \/ \E e \in Reports : Deliver(r, e)
  PROVE  /\ ReqOK' /\ req'[r].at # "mark"
         /\ \A q \in Requests \ {r} : req'[q] = req[q]
<1>0. req[r] \in Calls /\ (Idles(r) => req[r].at = "idle" /\ req[r].report = "none")
  BY DEF ReqOK, Idles, Idle
<1>1. CASE AskGateway(r)
  <2> DEFINE c == [ at |-> "lookup", report |-> charge, via |-> "page" ]
  <2>1. c \in Calls /\ CallOK(c) /\ c.at = "lookup"
    BY <1>1 DEF AskGateway, Calls, CallOK, Steps
  <2>2. req' = [ req EXCEPT ![r] = c ]
    BY <1>1 DEF AskGateway
  <2> HIDE DEF c
  <2> QED BY <2>1, <2>2, SetTypes
<1>2. CASE CancelCheckout(r)
  <2> DEFINE c == [ at |-> "lookup", report |-> "expired", via |-> "page" ]
  <2>1. c \in Calls /\ CallOK(c) /\ c.at = "lookup"
    BY DEF Calls, CallOK, Steps, Reports
  <2>2. req' = [ req EXCEPT ![r] = c ]
    BY <1>2 DEF CancelCheckout
  <2> HIDE DEF c
  <2> QED BY <2>1, <2>2, SetTypes
<1>3. ASSUME NEW e \in Reports, Deliver(r, e) PROVE
        /\ ReqOK' /\ req'[r].at # "mark"
        /\ \A q \in Requests \ {r} : req'[q] = req[q]
  <2> DEFINE c == [ at |-> "lookup", report |-> e, via |-> "event" ]
  <2>1. c \in Calls /\ CallOK(c) /\ c.at = "lookup"
    BY DEF Calls, CallOK, Steps
  <2>2. req' = [ req EXCEPT ![r] = c ]
    BY <1>3 DEF Deliver
  <2> HIDE DEF c
  <2> QED BY <2>1, <2>2, SetTypes
<1>4. CASE Reject(r)
  BY <1>4, GoToTypes DEF Reject, Steps
<1>5. CASE Sweep(r)
  <2>1. req[r].report \notin Money
    BY <1>0, <1>5 DEF Sweep, Money
  <2> QED BY <1>5, <2>1, GoToTypes DEF Sweep, Steps
<1>6. ASSUME NEW amount \in Amounts, NEW forced \in BOOLEAN,
             Approve(r, amount, forced)
      PROVE  /\ ReqOK' /\ req'[r].at # "mark"
             /\ \A q \in Requests \ {r} : req'[q] = req[q]
  <2>1. CASE UNCHANGED req
    BY <1>0, <1>6, <2>1 DEF Approve, ReqOK
  <2>2. CASE GoTo(r, "flag") \/ GoTo(r, "confirm")
    BY <2>2, GoToTypes DEF Steps
  <2> QED BY <1>6, <2>1, <2>2 DEF Approve
<1> QED BY <1>1, <1>2, <1>3, <1>4, <1>5, <1>6 DEF Start

\* The requests stay well formed under every step.
LEMMA ReqTypes == ASSUME ReqOK, GatewayOK, [Next]_vars PROVE ReqOK'
<1>1. CASE Checkout \/ Gateway \/ Lapse \/ Fulfil \/ UNCHANGED vars
  <2>1. UNCHANGED req
    BY <1>1 DEF Checkout, AttachComprobante, StoreFails, OpenCharge, LinkCharge,
       CancelOpening, Gateway, IssueVoucher, ChargeExpires, Pay, Lapse, Fulfil,
       vars
  <2> QED BY <2>1 DEF ReqOK
<1>2. ASSUME NEW r \in Requests,
             Start(r) \/ \E e \in Reports : Deliver(r, e) PROVE ReqOK'
  BY <1>2, StartTypes
<1>3. ASSUME NEW r \in Requests, Step(r) PROVE ReqOK'
  BY <1>3, StepMoves DEF Moves
<1>4. ASSUME NEW r \in Requests, Throw(r) PROVE ReqOK'
  BY <1>4, IdleMoves DEF Moves, Throw
<1> QED BY <1>1, <1>2, <1>3, <1>4 DEF Next

\* A row is only ever given a value of its column.
LEMMA RowTypes == ASSUME RowsOK, [Next]_vars PROVE RowsOK'
<1> USE DEF RowsOK, OrderStatuses, PaymentStatuses
<1>1. CASE Checkout \/ Gateway \/ Lapse \/ Fulfil \/ UNCHANGED vars
  <2>1. CASE AttachComprobante \/ StoreFails
    BY <2>1 DEF AttachComprobante, StoreFails, rows
  <2>2. CASE OpenCharge \/ LinkCharge \/ CancelOpening
    BY <2>2 DEF OpenCharge, LinkCharge, CancelOpening, rows
  <2>3. CASE Gateway
    BY <2>3 DEF Gateway, IssueVoucher, ChargeExpires, Pay, rows
  <2>4. CASE Lapse \/ Fulfil \/ UNCHANGED vars
    BY <2>4 DEF Lapse, Fulfil, vars, rows
  <2> QED BY <1>1, <2>1, <2>2, <2>3, <2>4 DEF Checkout
<1>2. ASSUME NEW r \in Requests, Start(r) PROVE RowsOK'
  BY <1>2 DEF Start, AskGateway, CancelCheckout, Reject, Sweep, Approve, rows
<1>3. ASSUME NEW r \in Requests, Step(r) PROVE RowsOK'
  <2>1. CASE Lookup(r) \/ ExtendLoad(r) \/ SettleMoney(r) \/ SettleExpired(r)
             \/ Alert(r) \/ Mark(r)
    BY <2>1 DEF Lookup, ExtendLoad, SettleMoney, SettleExpired, Alert, Mark, rows
  <2>2. CASE ExtendWrite(r) \/ Flag(r) \/ RejectWrite(r)
    BY <2>2 DEF ExtendWrite, Flag, RejectWrite
  <2>3. CASE Confirm(r) \/ Expire(r)
    BY <2>3 DEF Confirm, Expire
  <2> QED BY <1>3, <2>1, <2>2, <2>3 DEF Step
<1>4. ASSUME NEW r \in Requests,
             Throw(r) \/ \E e \in Reports : Deliver(r, e) PROVE RowsOK'
  BY <1>4 DEF Throw, Deliver, rows
<1> QED BY <1>1, <1>2, <1>3, <1>4 DEF Next

\* The gateway's charge and its events keep their shape.
LEMMA GatewayTypes ==
  ASSUME GatewayOK, ReqOK, [Next]_vars PROVE GatewayOK'
<1> USE DEF GatewayOK, Reports
<1>1. CASE Checkout \/ Gateway \/ Lapse \/ Fulfil \/ UNCHANGED vars
  BY <1>1 DEF Checkout, AttachComprobante, StoreFails, OpenCharge, LinkCharge,
     CancelOpening, Gateway, IssueVoucher, ChargeExpires, Pay, Send, Lapse,
     Fulfil, vars
<1>2. ASSUME NEW r \in Requests, Start(r) PROVE GatewayOK'
  BY <1>2 DEF Start, AskGateway, CancelCheckout, Send, Reject, Sweep, Approve
<1>3. ASSUME NEW r \in Requests, Step(r) PROVE GatewayOK'
  <2>1. CASE Mark(r)
    BY <2>1 DEF Mark
  <2>2. CASE UNCHANGED <<charge, log>>
    BY <2>2
  <2> QED BY <1>3, <2>1, <2>2 DEF Step, Lookup, ExtendLoad, ExtendWrite,
     SettleMoney, SettleExpired, Alert, Confirm, Flag, RejectWrite, Expire
<1>4. ASSUME NEW r \in Requests, NEW e \in Reports, Deliver(r, e)
      PROVE GatewayOK'
  BY <1>4 DEF Deliver
<1>5. ASSUME NEW r \in Requests, Throw(r) PROVE GatewayOK'
  BY <1>5 DEF Throw
<1> QED BY <1>1, <1>2, <1>3, <1>4, <1>5 DEF Next

\* The alerts and counters only ever grow, and keep their types.
LEMMA CountTypes ==
  ASSUME CountsOK, ReqOK, [Next]_vars
  PROVE  CountsOK' /\ enqueued' >= enqueued /\ alerted \subseteq alerted'
<1> USE DEF CountsOK
<1>1. CASE Checkout \/ Gateway \/ Lapse \/ Fulfil \/ UNCHANGED vars
  BY <1>1 DEF Checkout, AttachComprobante, StoreFails, OpenCharge, LinkCharge,
     CancelOpening, Gateway, IssueVoucher, ChargeExpires, Pay, Lapse, Fulfil,
     vars
<1>2. ASSUME NEW r \in Requests, Start(r) \/ Throw(r)
      PROVE  CountsOK' /\ enqueued' >= enqueued /\ alerted \subseteq alerted'
  BY <1>2 DEF Start, AskGateway, CancelCheckout, Visit, Reject, Sweep, Approve,
     Throw
<1>3. ASSUME NEW r \in Requests, Step(r)
      PROVE  CountsOK' /\ enqueued' >= enqueued /\ alerted \subseteq alerted'
  <2>1. CASE Alert(r)
    <3>1. CallOK(req[r])
      BY DEF ReqOK
    <3> QED BY <2>1, <3>1 DEF Alert, CallOK
  <2>2. CASE Confirm(r)
    BY <2>2 DEF Confirm
  <2>3. CASE UNCHANGED <<alerted, enqueued, used>>
    BY <2>3
  <2> QED BY <1>3, <2>1, <2>2, <2>3 DEF Step, Lookup, ExtendLoad, ExtendWrite,
     SettleMoney, SettleExpired, Mark, Flag, RejectWrite, Expire
<1>4. ASSUME NEW r \in Requests, NEW e \in Reports, Deliver(r, e)
      PROVE  CountsOK' /\ enqueued' >= enqueued /\ alerted \subseteq alerted'
  BY <1>4 DEF Deliver
<1> QED BY <1>1, <1>2, <1>3, <1>4 DEF Next

\* At the start everything has its type.
LEMMA InitTypes == Init => TypeOK
<1> SUFFICES ASSUME Init PROVE TypeOK
  OBVIOUS
<1>1. RowsOK
  <2>1. checkout \in { "uploading", "by_admin", "opening" } /\ method \in Methods
    BY PaymentAssumption DEF Init
  <2>2. overdue \in BOOLEAN /\ attached \in BOOLEAN
    BY DEF Init
  <2> QED BY <2>1, <2>2, PaymentAssumption
        DEF Init, RowsOK, OrderStatuses, PaymentStatuses
<1>2. GatewayOK /\ CountsOK
  BY DEF Init, GatewayOK, CountsOK, Reports
<1>3. ReqOK
  BY IdleTypes DEF Init, ReqOK
<1> QED BY <1>1, <1>2, <1>3 DEF TypeOK

\* Every variable keeps the shape of its column, and every request what the
\* rest of its handler reads, however many overlap.
THEOREM TypesHold == Spec => []TypeOK
<1>1. TypeOK /\ [Next]_vars => TypeOK'
  BY ReqTypes, RowTypes, GatewayTypes, CountTypes DEF TypeOK
<1> QED BY <1>1, InitTypes, PTL DEF Spec

\* Money booked as paid is in the queue: confirmPayment writes both rows in
\* one transaction, and no other write takes the order of a paid payment.
THEOREM PaidOrdersAreQueued == Spec => []PaidIsQueued
<1>1. Init => PaidIsQueued
  BY DEF Init, PaidIsQueued
<1>2. PaidIsQueued /\ [Next]_vars => PaidIsQueued'
  <2> SUFFICES ASSUME PaidIsQueued, [Next]_vars PROVE PaidIsQueued'
    OBVIOUS
  <2> USE DEF PaidIsQueued, InFulfilment
  <2>1. CASE Checkout \/ Gateway \/ Lapse \/ Fulfil \/ UNCHANGED vars
    BY <2>1 DEF Checkout, AttachComprobante, StoreFails, OpenCharge, LinkCharge,
       CancelOpening, Gateway, IssueVoucher, ChargeExpires, Pay, Lapse, Fulfil,
       vars, rows
  <2>2. ASSUME NEW r \in Requests,
               \/ Start(r) \/ Throw(r) \/ \E e \in Reports : Deliver(r, e)
        PROVE  PaidIsQueued'
    BY <2>2 DEF Start, AskGateway, CancelCheckout, Reject, Sweep, Approve, Throw,
       Deliver, rows
  <2>3. ASSUME NEW r \in Requests, Step(r) PROVE PaidIsQueued'
    <3>1. CASE Confirm(r) \/ Flag(r) \/ RejectWrite(r) \/ Expire(r)
      BY <3>1 DEF Confirm, Flag, RejectWrite, Expire
    <3>2. CASE UNCHANGED <<orderStatus, paymentStatus>>
      BY <3>2
    <3> QED BY <2>3, <3>1, <3>2 DEF Step, Lookup, ExtendLoad, ExtendWrite,
       SettleMoney, SettleExpired, Alert, Mark, rows
  <2> QED BY <2>1, <2>2, <2>3 DEF Next
<1> QED BY <1>1, <1>2, PTL DEF Spec

\* A request through with its report has seen to it, if it was money: it found
\* the payment approved, approved it, or told somebody.
LEMMA StepHears ==
  ASSUME TypeOK, HeardInv, NEW r \in Requests, Step(r), CountsOK',
         enqueued' >= enqueued, alerted \subseteq alerted',
         req'[r].at = "mark", req[r].report \in Money
  PROVE  enqueued' > 0 \/ req[r].report \in alerted'
<1>0. CallOK(req[r]) /\ req[r] \in Calls /\ enqueued \in Nat /\ enqueued' \in Nat
  BY DEF TypeOK, ReqOK, CountsOK
<1> USE DEF Money
<1>7. ASSUME NEW step, GoTo(r, step) PROVE step = "mark"
  <2>1. req' = [ req EXCEPT ![r] = [ req[r] EXCEPT !.at = step ] ]
    BY <1>7 DEF GoTo
  <2>2. req'[r] = [ req[r] EXCEPT !.at = step ]
    BY <2>1 DEF TypeOK, ReqOK
  <2> QED BY <1>0, <2>2 DEF Calls
<1>1. CASE Lookup(r)
  BY <1>1, <1>7 DEF Lookup
<1>2. CASE ExtendLoad(r) \/ ExtendWrite(r) \/ SettleExpired(r) \/ Expire(r)
  BY <1>0, <1>2 DEF ExtendLoad, ExtendWrite, SettleExpired, Alert, Expire, CallOK
<1>3. CASE SettleMoney(r)
  <2> DEFINE what == Decision(IF req[r].report = "paid" THEN "exact"
                              ELSE "other", FALSE)
  <2>1. what = "already"
    BY <1>3, <1>7 DEF SettleMoney
  <2>2. paymentStatus = "paid"
    BY <2>1 DEF Decision
  <2> QED BY <1>0, <2>2 DEF HeardInv
<1>4. CASE Mark(r) \/ RejectWrite(r)
  <2>1. req'[r] = Idle
    BY <1>4 DEF Mark, RejectWrite, TypeOK, ReqOK
  <2> QED BY <2>1, IdleTypes
<1>5. CASE Confirm(r)
  <2>1. CASE paymentStatus # "paid"
    BY <1>0, <1>5, <2>1 DEF Confirm
  <2>2. CASE paymentStatus = "paid"
    <3>1. req'[r] = Idle
      BY <1>5, <2>2 DEF Confirm, TypeOK, ReqOK
    <3> QED BY <3>1, IdleTypes
  <2> QED BY <2>1, <2>2
<1>6. CASE Flag(r) \/ Alert(r)
  BY <1>6, <1>7 DEF Flag, Alert
<1> QED BY <1>1, <1>2, <1>3, <1>4, <1>5, <1>6 DEF Step

\* Only a request that is marking makes an event processed.
LEMMA OnlyMarked ==
  ASSUME TypeOK, [Next]_vars, NEW e \in Money,
         log'[e] = "processed", log[e] # "processed"
  PROVE  \E r \in Requests : req[r].at = "mark" /\ req[r].report = e
<1>0. log \in [ Reports -> { "unsent", "sent", "recorded", "processed" } ]
      /\ e \in Reports
  BY DEF TypeOK, GatewayOK, Reports, Money
<1>1. CASE Checkout \/ Gateway \/ Lapse \/ Fulfil \/ UNCHANGED vars
  BY <1>0, <1>1 DEF Checkout, AttachComprobante, StoreFails, OpenCharge,
     LinkCharge, CancelOpening, Gateway, IssueVoucher, ChargeExpires, Pay, Send,
     Lapse, Fulfil, vars
<1>2. ASSUME NEW r \in Requests, Start(r) \/ Throw(r) PROVE FALSE
  BY <1>0, <1>2 DEF Start, AskGateway, CancelCheckout, Send, Reject, Sweep,
     Approve, Throw
<1>3. ASSUME NEW r \in Requests, NEW f \in Reports, Deliver(r, f) PROVE FALSE
  BY <1>0, <1>3 DEF Deliver
<1>4. ASSUME NEW r \in Requests, Step(r)
      PROVE  req[r].at = "mark" /\ req[r].report = e
  <2>1. CASE Mark(r)
    BY <1>0, <2>1 DEF Mark
  <2>2. CASE UNCHANGED log
    BY <2>2
  <2> QED BY <1>4, <2>1, <2>2 DEF Step, Lookup, ExtendLoad, ExtendWrite,
     SettleMoney, SettleExpired, Alert, Confirm, Flag, RejectWrite, Expire
<1> QED BY <1>1, <1>2, <1>3, <1>4 DEF Next

\* A payment becomes 'paid' only by being enqueued.
LEMMA PaidIsCounted ==
  ASSUME TypeOK, HeardInv, [Next]_vars, CountsOK', enqueued' >= enqueued,
         paymentStatus' = "paid"
  PROVE  enqueued' > 0
<1>0. enqueued \in Nat /\ enqueued' \in Nat
  BY DEF TypeOK, CountsOK
<1>1. CASE paymentStatus = "paid"
  BY <1>0, <1>1 DEF HeardInv
<1>2. CASE paymentStatus # "paid"
  <2>1. CASE Checkout \/ Gateway \/ Lapse \/ Fulfil \/ UNCHANGED vars
    BY <1>2, <2>1 DEF Checkout, AttachComprobante, StoreFails, OpenCharge,
       LinkCharge, CancelOpening, Gateway, IssueVoucher, ChargeExpires, Pay,
       Lapse, Fulfil, vars, rows
  <2>2. ASSUME NEW r \in Requests,
               \/ Start(r) \/ Throw(r) \/ \E e \in Reports : Deliver(r, e)
        PROVE  FALSE
    BY <1>2, <2>2 DEF Start, AskGateway, CancelCheckout, Reject, Sweep, Approve,
       Throw, Deliver, rows
  <2>3. ASSUME NEW r \in Requests, Step(r) PROVE enqueued' > 0
    <3>1. CASE Confirm(r)
      BY <1>0, <1>2, <3>1 DEF Confirm
    <3>2. CASE Flag(r) \/ RejectWrite(r) \/ Expire(r)
      BY <1>2, <3>2 DEF Flag, RejectWrite, Expire
    <3>3. CASE UNCHANGED paymentStatus
      BY <1>2, <3>3
    <3> QED BY <2>3, <3>1, <3>2, <3>3 DEF Step, Lookup, ExtendLoad, ExtendWrite,
       SettleMoney, SettleExpired, Alert, Mark, rows
  <2> QED BY <2>1, <2>2, <2>3 DEF Next
<1> QED BY <1>1, <1>2

\* What the requests about to mark have seen to stays seen to.
LEMMA MarkersHeard ==
  ASSUME TypeOK, HeardInv, [Next]_vars, CountsOK', enqueued' >= enqueued,
         alerted \subseteq alerted', NEW q \in Requests,
         req'[q].at = "mark", req'[q].report \in Money
  PROVE  enqueued' > 0 \/ req'[q].report \in alerted'
<1>0. enqueued \in Nat /\ enqueued' \in Nat /\ ReqOK /\ GatewayOK
  BY DEF TypeOK, CountsOK
<1>1. CASE req'[q] = req[q]
  BY <1>0, <1>1 DEF HeardInv
<1>2. ASSUME NEW r \in Requests,
             Start(r) \/ \E e \in Reports : Deliver(r, e)
      PROVE  req'[q] = req[q]
  BY <1>0, <1>2, StartTypes
<1>3. ASSUME NEW r \in Requests, Throw(r)
      PROVE  req'[q] = req[q]
  BY <1>0, <1>3, IdleTypes DEF Throw, ReqOK
<1>4. ASSUME NEW r \in Requests, Step(r)
      PROVE  enqueued' > 0 \/ req'[q].report \in alerted'
  <2>1. Moves(r)
    BY <1>0, <1>4, StepMoves
  <2>2. CASE q = r
    BY <1>4, <2>1, <2>2, StepHears DEF Moves
  <2>3. CASE q # r
    BY <1>1, <2>1, <2>3 DEF Moves
  <2> QED BY <2>2, <2>3
<1>5. CASE Checkout \/ Gateway \/ Lapse \/ Fulfil \/ UNCHANGED vars
  <2>1. UNCHANGED req
    BY <1>5 DEF Checkout, AttachComprobante, StoreFails, OpenCharge, LinkCharge,
       CancelOpening, Gateway, IssueVoucher, ChargeExpires, Pay, Lapse, Fulfil,
       vars
  <2> QED BY <1>1, <2>1
<1> QED BY <1>1, <1>2, <1>3, <1>4, <1>5 DEF Next

\* No event about money is marked as processed before the payment it is about
\* was approved or somebody was told of it, whatever throws in between.
THEOREM MoneyEventsAreHeard == Spec => []EventsAreHeard
<1>1. Init => HeardInv
  <2> SUFFICES ASSUME Init PROVE HeardInv
    OBVIOUS
  <2>1. EventsAreHeard
    BY DEF Init, EventsAreHeard, Money, Reports
  <2>2. paymentStatus # "paid"
    BY DEF Init
  <2>3. \A r \in Requests : req[r].at # "mark"
    BY IdleTypes DEF Init
  <2> QED BY <2>1, <2>2, <2>3 DEF HeardInv
<1>2. TypeOK /\ HeardInv /\ [Next]_vars => HeardInv'
  <2> SUFFICES ASSUME TypeOK, HeardInv, [Next]_vars PROVE HeardInv'
    OBVIOUS
  <2>1. CountsOK' /\ enqueued' >= enqueued /\ alerted \subseteq alerted'
    BY CountTypes DEF TypeOK
  <2>2. enqueued \in Nat /\ enqueued' \in Nat
    BY <2>1 DEF TypeOK, CountsOK
  <2>3. EventsAreHeard'
    <3> SUFFICES ASSUME NEW e \in Money, log'[e] = "processed"
                 PROVE  enqueued' > 0 \/ e \in alerted'
      BY DEF EventsAreHeard
    <3>1. CASE log[e] = "processed"
      BY <2>1, <2>2, <3>1 DEF HeardInv, EventsAreHeard
    <3>2. CASE log[e] # "processed"
      <4>1. PICK r \in Requests : req[r].at = "mark" /\ req[r].report = e
        BY <3>2, OnlyMarked
      <4> QED BY <2>1, <2>2, <4>1 DEF HeardInv
    <3> QED BY <3>1, <3>2
  <2>4. (paymentStatus = "paid" => enqueued > 0)'
    BY <2>1, PaidIsCounted
  <2>5. (\A q \in Requests : req[q].at = "mark" /\ req[q].report \in Money
           => enqueued > 0 \/ req[q].report \in alerted)'
    BY <2>1, MarkersHeard
  <2> QED BY <2>3, <2>4, <2>5 DEF HeardInv
<1>3. HeardInv => EventsAreHeard
  BY DEF HeardInv
<1> QED BY <1>1, <1>2, <1>3, TypesHold, PTL DEF Spec

\* No step expires a payment whose comprobante is under review: the one write
\* that expires looks at the payment again, whatever the sweep had read.
THEOREM ReviewIsLeftAlone == Spec => ReviewedNeverExpires
<1> DEFINE Kept == paymentStatus = "under_review" => paymentStatus' # "expired"
<1>1. ASSUME [Next]_vars PROVE Kept
  <2>1. CASE Checkout \/ Gateway \/ Lapse \/ Fulfil \/ UNCHANGED vars
    BY <2>1 DEF Checkout, AttachComprobante, StoreFails, OpenCharge, LinkCharge,
       CancelOpening, Gateway, IssueVoucher, ChargeExpires, Pay, Lapse, Fulfil,
       vars, rows
  <2>2. ASSUME NEW r \in Requests,
               \/ Start(r) \/ Throw(r) \/ \E e \in Reports : Deliver(r, e)
        PROVE  Kept
    BY <2>2 DEF Start, AskGateway, CancelCheckout, Reject, Sweep, Approve, Throw,
       Deliver, rows
  <2>3. ASSUME NEW r \in Requests, Step(r) PROVE Kept
    <3>1. CASE Confirm(r) \/ Flag(r) \/ RejectWrite(r) \/ Expire(r)
      BY <3>1 DEF Confirm, Flag, RejectWrite, Expire
    <3>2. CASE UNCHANGED paymentStatus
      BY <3>2
    <3> QED BY <2>3, <3>1, <3>2 DEF Step, Lookup, ExtendLoad, ExtendWrite,
       SettleMoney, SettleExpired, Alert, Mark, rows
  <2> QED BY <1>1, <2>1, <2>2, <2>3 DEF Next
<1> QED BY <1>1, PTL DEF Spec, ReviewedNeverExpires

------------------------------------------------------------------------------
(* Orders paid through the gateway.                                        *)

\* Who pays through the gateway never rejects, uploads or cancels by hand; and
\* the payment of an order in fulfilment is not pending.
ByGatewayInv ==
  /\ PaidIsQueued
  /\ orderStatus \in InFulfilment => paymentStatus # "pending"
  /\ method \in Methods
  /\ method # "transfer" => /\ checkout \notin { "uploading", "by_admin" }
                            /\ \A r \in Requests : req[r].at # "reject"

\* A request that moves is only ever about to reject when it was asked to.
LEMMA RejectsAsked ==
  ASSUME TypeOK, [Next]_vars, NEW q \in Requests, req'[q].at = "reject",
         req[q].at # "reject"
  PROVE  method = "transfer"
<1>0. req \in [ Requests -> Calls ] /\ \A r \in Requests : req[r] \in Calls
  BY DEF TypeOK, ReqOK
<1>1. CASE Checkout \/ Gateway \/ Lapse \/ Fulfil \/ UNCHANGED vars
  BY <1>1 DEF Checkout, AttachComprobante, StoreFails, OpenCharge, LinkCharge,
     CancelOpening, Gateway, IssueVoucher, ChargeExpires, Pay, Lapse, Fulfil, vars
<1>2. ASSUME NEW r \in Requests, Reject(r) PROVE method = "transfer"
  BY <1>2 DEF Reject, Rejectable
<1>3. ASSUME NEW r \in Requests, NEW c \in Calls, c.at # "reject",
             req' = [ req EXCEPT ![r] = c ]
      PROVE  FALSE
  BY <1>0, <1>3
<1>4. ASSUME NEW r \in Requests, NEW step \in Steps \ { "reject" }, GoTo(r, step)
      PROVE  FALSE
  <2> DEFINE new == [ req[r] EXCEPT !.at = step ]
  <2>1. new \in Calls /\ new.at # "reject"
    BY <1>0, <1>4 DEF Calls
  <2>2. req' = [ req EXCEPT ![r] = new ]
    BY <1>4 DEF GoTo
  <2> HIDE DEF new
  <2> QED BY <1>3, <2>1, <2>2
<1>5. ASSUME NEW r \in Requests, After(r) \/ req' = [ req EXCEPT ![r] = Idle ] PROVE FALSE
  <2>1. CASE req' = [ req EXCEPT ![r] = Idle ]
    BY <1>3, <2>1, IdleTypes
  <2>2. CASE req' = [ req EXCEPT ![r] = [ req[r] EXCEPT !.at = "mark" ] ]
    BY <1>4, <2>2 DEF GoTo, Steps
  <2> QED BY <1>5, <2>1, <2>2 DEF After
<1>6. ASSUME NEW r \in Requests, Step(r) PROVE FALSE
  BY <1>4, <1>5, <1>6 DEF Step, Lookup, ExtendLoad, ExtendWrite, SettleMoney,
     SettleExpired, Alert, Mark, Confirm, Flag, RejectWrite, Expire, Steps
<1>7. ASSUME NEW r \in Requests, NEW report \in Reports, NEW via \in { "event", "page" },
             req' = [ req EXCEPT ![r] = [ at |-> "lookup", report |-> report, via |-> via ] ]
      PROVE  FALSE
  <2> DEFINE c == [ at |-> "lookup", report |-> report, via |-> via ]
  <2>1. c \in Calls /\ c.at # "reject"
    BY DEF Calls, Steps
  <2> HIDE DEF c
  <2> QED BY <1>3, <1>7, <2>1 DEF c
<1>8. ASSUME NEW r \in Requests, AskGateway(r) \/ CancelCheckout(r) PROVE FALSE
  <2>1. "expired" \in Reports
    BY DEF Reports
  <2> QED BY <1>7, <1>8, <2>1 DEF AskGateway, CancelCheckout
<1>9. ASSUME NEW r \in Requests, NEW e \in Reports, Deliver(r, e) PROVE FALSE
  BY <1>7, <1>9 DEF Deliver
<1>10. ASSUME NEW r \in Requests, NEW amount \in Amounts, NEW forced \in BOOLEAN,
              Approve(r, amount, forced)
       PROVE  FALSE
  BY <1>4, <1>10 DEF Approve, Steps
<1>11. ASSUME NEW r \in Requests, Sweep(r) \/ Throw(r) PROVE FALSE
  BY <1>4, <1>5, <1>11 DEF Sweep, Throw, Steps
<1> QED BY <1>1, <1>2, <1>6, <1>8, <1>9, <1>10, <1>11 DEF Next, Start

LEMMA ByGatewayStep ==
  ASSUME TypeOK, ByGatewayInv, [Next]_vars, PaidIsQueued'
  PROVE  /\ ByGatewayInv'
         /\ method # "transfer" /\ orderStatus \in InFulfilment => orderStatus' \in InFulfilment
<1> USE DEF InFulfilment
<1>1. method' = method
  BY DEF Next, Checkout, AttachComprobante, StoreFails, OpenCharge, LinkCharge,
     CancelOpening, Gateway, IssueVoucher, ChargeExpires, Pay, Lapse, Fulfil, vars, Start,
     AskGateway, CancelCheckout, Reject, Sweep, Approve, Throw, Deliver, Step, Lookup, ExtendLoad,
     ExtendWrite, SettleMoney, SettleExpired, Alert, Mark, Confirm, Flag, RejectWrite, Expire
<1>2. checkout' \in { "uploading", "by_admin" } => checkout' = checkout
  BY DEF Next, Checkout, AttachComprobante, StoreFails, OpenCharge, LinkCharge,
     CancelOpening, Gateway, IssueVoucher, ChargeExpires, Pay, Lapse, Fulfil, vars, Start,
     AskGateway, CancelCheckout, Reject, Sweep, Approve, Throw, Deliver, Step, Lookup, ExtendLoad,
     ExtendWrite, SettleMoney, SettleExpired, Alert, Mark, Confirm, Flag, RejectWrite, Expire
<1>3. ASSUME method # "transfer", NEW r \in Requests PROVE req'[r].at # "reject"
  BY <1>3, RejectsAsked DEF ByGatewayInv
<1>4. /\ orderStatus' \in InFulfilment => paymentStatus' # "pending"
      /\ method # "transfer" /\ orderStatus \in InFulfilment => orderStatus' \in InFulfilment
  <2>1. CASE Checkout
    BY <2>1 DEF ByGatewayInv, Checkout, AttachComprobante, StoreFails, OpenCharge, LinkCharge,
       CancelOpening, Rejectable, rows
  <2>2. CASE Gateway \/ Lapse \/ Fulfil \/ UNCHANGED vars
    BY <2>2 DEF ByGatewayInv, Gateway, IssueVoucher, ChargeExpires, Pay, Lapse, Fulfil, vars, rows
  <2>3. ASSUME NEW r \in Requests,
               \/ Start(r) \/ Throw(r) \/ \E e \in Reports : Deliver(r, e)
        PROVE  UNCHANGED <<orderStatus, paymentStatus>>
    BY <2>3 DEF Start, AskGateway, CancelCheckout, Reject, Sweep, Approve, Throw, Deliver, rows
  <2>4. ASSUME NEW r \in Requests, Confirm(r) \/ Flag(r) \/ Expire(r) \/ RejectWrite(r)
        PROVE  /\ orderStatus' \in InFulfilment => paymentStatus' # "pending"
               /\ method # "transfer" /\ orderStatus \in InFulfilment => orderStatus' \in InFulfilment
    BY <2>4 DEF ByGatewayInv, Confirm, Flag, Expire, RejectWrite
  <2>5. ASSUME NEW r \in Requests, Step(r),
               ~ (Confirm(r) \/ Flag(r) \/ Expire(r) \/ RejectWrite(r))
        PROVE  UNCHANGED <<orderStatus, paymentStatus>>
    BY <2>5 DEF Step, Lookup, ExtendLoad, ExtendWrite, SettleMoney, SettleExpired, Alert, Mark, rows
  <2>6. CASE UNCHANGED <<orderStatus, paymentStatus>>
    BY <2>6 DEF ByGatewayInv
  <2> QED BY <2>1, <2>2, <2>3, <2>4, <2>5, <2>6 DEF Next
<1> QED BY <1>1, <1>2, <1>3, <1>4 DEF ByGatewayInv

LEMMA ByGatewayAlways == Spec => [](TypeOK /\ ByGatewayInv)
<1>1. Init => ByGatewayInv
  <2> SUFFICES ASSUME Init PROVE ByGatewayInv
    OBVIOUS
  <2>1. \A r \in Requests : req[r].at # "reject"
    BY DEF Init, Idle
  <2> QED BY <2>1, PaymentAssumption DEF Init, ByGatewayInv, PaidIsQueued, InFulfilment
<1>2. TypeOK /\ ByGatewayInv /\ [Next]_vars /\ PaidIsQueued' => ByGatewayInv'
  BY ByGatewayStep
<1> QED BY <1>1, <1>2, TypesHold, PaidOrdersAreQueued, PTL DEF Spec

\* An order paid through the gateway that reached fulfilment is not cancelled or
\* expired under it by late reports, a rejection or the sweep.
THEOREM GatewayOrdersAreKept == Spec => ConfirmedIsKept
<1>1. TypeOK /\ ByGatewayInv /\ [Next]_vars /\ PaidIsQueued' =>
        (method # "transfer" /\ orderStatus \in InFulfilment => orderStatus' \in InFulfilment)
  BY ByGatewayStep DEF ByGatewayInv
<1> QED BY <1>1, ByGatewayAlways, PaidOrdersAreQueued, PTL DEF Spec, ConfirmedIsKept

\* The gateway is paid once, and what a request has of it was sent.
PaidOnceInv ==
  /\ checkout = "opening" => charge = "none"
  /\ charge \in { "none", "open", "issued" } =>
       log["paid"] = "unsent" /\ log["short"] = "unsent"
  /\ charge \in Money => log[charge] # "unsent"
  /\ log["paid"] = "unsent" \/ log["short"] = "unsent"
  /\ \A r \in Requests : req[r].report \in Money => log[req[r].report] # "unsent"

\* What is about to be flagged came short, what is about to be confirmed by a
\* card came whole, and what was enqueued is still booked as paid.
OnceInv ==
  PaysAsAsked =>
    /\ \A r \in Requests : req[r].at = "flag" => log["short"] # "unsent"
    /\ method = "card" => \A r \in Requests : req[r].at = "confirm" => log["paid"] # "unsent"
    /\ \/ enqueued = 0
       \/ enqueued = 1 /\ paymentStatus = "paid" /\ (method = "card" => log["paid"] # "unsent")

\* What was sent stays sent, and what a request has is kept or was sent.
LEMMA SentStaysSent ==
  ASSUME TypeOK, [Next]_vars
  PROVE  \A e \in Reports : log[e] # "unsent" => log'[e] # "unsent"
<1>0. log \in [ Reports -> { "unsent", "sent", "recorded", "processed" } ]
  BY DEF TypeOK, GatewayOK
<1>1. ASSUME NEW report, Send(report) PROVE \A e \in Reports : log[e] # "unsent" => log'[e] # "unsent"
  BY <1>0, <1>1 DEF Send
<1>2. ASSUME UNCHANGED log PROVE \A e \in Reports : log[e] # "unsent" => log'[e] # "unsent"
  BY <1>2
<1>3. ASSUME NEW r \in Requests, NEW e \in Reports, Deliver(r, e)
      PROVE  \A f \in Reports : log[f] # "unsent" => log'[f] # "unsent"
  BY <1>0, <1>3 DEF Deliver
<1>4. ASSUME NEW r \in Requests, Mark(r)
      PROVE  \A f \in Reports : log[f] # "unsent" => log'[f] # "unsent"
  BY <1>0, <1>4 DEF Mark
<1> QED BY <1>1, <1>2, <1>3, <1>4 DEF Next, Checkout, AttachComprobante, StoreFails, OpenCharge,
     LinkCharge, CancelOpening, Gateway, IssueVoucher, ChargeExpires, Pay, Lapse, Fulfil, vars, Start,
     AskGateway, CancelCheckout, Reject, Sweep, Approve, Throw, Step, Lookup, ExtendLoad,
     ExtendWrite, SettleMoney, SettleExpired, Alert, Confirm, Flag, RejectWrite, Expire

LEMMA ReportsKept ==
  ASSUME TypeOK, [Next]_vars, NEW q \in Requests, req'[q].report \in Money
  PROVE  \/ req'[q].report = req[q].report
         \/ req'[q].report = charge /\ charge \in Reports
         \/ \E e \in Reports : req'[q].report = e /\ log[e] \in { "sent", "recorded" }
<1>0. req \in [ Requests -> Calls ] /\ \A r \in Requests : req[r] \in Calls
  BY DEF TypeOK, ReqOK
<1> DEFINE Goal == \/ req'[q].report = req[q].report
                   \/ req'[q].report = charge /\ charge \in Reports
                   \/ \E e \in Reports : req'[q].report = e /\ log[e] \in { "sent", "recorded" }
<1>1. CASE UNCHANGED req
  BY <1>1
<1>2. ASSUME NEW r \in Requests, NEW step, GoTo(r, step) PROVE Goal
  <2>1. req' = [ req EXCEPT ![r] = [ req[r] EXCEPT !.at = step ] ]
    BY <1>2 DEF GoTo
  <2>2. [ req[r] EXCEPT !.at = step ].report = req[r].report
    BY <1>0 DEF Calls
  <2> QED BY <1>0, <2>1, <2>2
<1>3. ASSUME NEW r \in Requests, req' = [ req EXCEPT ![r] = Idle ] PROVE Goal
  BY <1>0, <1>3 DEF Idle, Money
<1>4. ASSUME NEW r \in Requests, After(r) PROVE Goal
  BY <1>2, <1>3, <1>4 DEF After, GoTo
<1>5. ASSUME NEW r \in Requests, AskGateway(r) PROVE Goal
  BY <1>0, <1>5 DEF AskGateway
<1>6. ASSUME NEW r \in Requests, CancelCheckout(r) PROVE Goal
  BY <1>0, <1>6 DEF CancelCheckout, Money
<1>7. ASSUME NEW r \in Requests, NEW e \in Reports, Deliver(r, e) PROVE Goal
  BY <1>0, <1>7 DEF Deliver
<1>8. ASSUME NEW r \in Requests, Step(r) PROVE Goal
  BY <1>2, <1>3, <1>4, <1>8 DEF Step, Lookup, ExtendLoad, ExtendWrite, SettleMoney, SettleExpired, Alert,
     Mark, Confirm, Flag, RejectWrite, Expire
<1>9. ASSUME NEW r \in Requests, Reject(r) \/ Sweep(r) \/ Throw(r)
                                 \/ \E a \in Amounts, f \in BOOLEAN : Approve(r, a, f)
      PROVE  Goal
  BY <1>1, <1>2, <1>3, <1>9 DEF Reject, Sweep, Throw, Approve
<1>10. CASE Checkout \/ Gateway \/ Lapse \/ Fulfil \/ UNCHANGED vars
  BY <1>1, <1>10 DEF Checkout, AttachComprobante, StoreFails, OpenCharge, LinkCharge,
     CancelOpening, Gateway, IssueVoucher, ChargeExpires, Pay, Lapse, Fulfil, vars
<1> QED BY <1>5, <1>6, <1>7, <1>8, <1>9, <1>10 DEF Next, Start

LEMMA PaidOnceStep ==
  ASSUME TypeOK, PaidOnceInv, [Next]_vars
  PROVE  PaidOnceInv'
<1>0. /\ log \in [ Reports -> { "unsent", "sent", "recorded", "processed" } ]
      /\ "paid" \in Reports /\ "short" \in Reports
  BY DEF TypeOK, GatewayOK, Reports
<1>1. \A e \in Reports : log[e] # "unsent" => log'[e] # "unsent"
  BY SentStaysSent
<1>2. \A r \in Requests : req'[r].report \in Money => log'[req'[r].report] # "unsent"
  BY <1>0, <1>1, ReportsKept DEF PaidOnceInv, Money
<1> DEFINE Rest == /\ checkout = "opening" => charge = "none"
                   /\ charge \in { "none", "open", "issued" } =>
                        log["paid"] = "unsent" /\ log["short"] = "unsent"
                   /\ charge \in Money => log[charge] # "unsent"
                   /\ log["paid"] = "unsent" \/ log["short"] = "unsent"
<1>3. Rest'
  <2>0. Rest
    BY DEF PaidOnceInv
  <2>1. ASSUME NEW amount \in Amounts, Pay(amount) PROVE Rest'
    <3>1. amount = "exact" \/ amount = "other"
      BY PaymentAssumption
    <3> QED BY <1>0, <2>0, <2>1, <3>1 DEF Pay, Send, Money
  <2>2. ASSUME IssueVoucher \/ ChargeExpires \/ \E r \in Requests : CancelCheckout(r) PROVE Rest'
    BY <1>0, <2>0, <2>2 DEF IssueVoucher, ChargeExpires, CancelCheckout, Send, Money, Reports
  <2>3. CASE OpenCharge
    BY <2>0, <2>3 DEF OpenCharge, Money
  <2>4. ASSUME NEW r \in Requests, NEW e \in Reports, Deliver(r, e) PROVE Rest'
    BY <1>0, <2>0, <2>4 DEF Deliver, Money, rows
  <2>5. ASSUME NEW r \in Requests, Mark(r) PROVE Rest'
    <3>1. PICK e : e = req[r].report
      OBVIOUS
    <3>2. CallOK(req[r]) /\ req[r] \in Calls
      BY DEF TypeOK, ReqOK
    <3>3. e \in Reports /\ (e \in Money => log[e] # "unsent")
      BY <2>5, <3>1, <3>2 DEF PaidOnceInv, CallOK, Mark
    <3>4. log' = [ log EXCEPT ![e] = "processed" ] /\ UNCHANGED <<charge, checkout>>
      BY <2>5, <3>1 DEF Mark
    <3> QED BY <1>0, <2>0, <3>3, <3>4 DEF Money
  <2>6. ASSUME UNCHANGED <<charge, log>>, checkout' = "opening" => checkout = "opening" PROVE Rest'
    BY <2>0, <2>6
  <2> QED BY <2>1, <2>2, <2>3, <2>4, <2>5, <2>6 DEF Next, Checkout, AttachComprobante, StoreFails,
       LinkCharge, CancelOpening, Gateway, Lapse, Fulfil, vars, Start,
       AskGateway, Reject, Sweep, Approve, Throw, Step, Lookup, ExtendLoad,
       ExtendWrite, SettleMoney, SettleExpired, Alert, Confirm, Flag, RejectWrite, Expire
<1> QED BY <1>2, <1>3 DEF PaidOnceInv

\* What a request is about to flag or to confirm, and why.
LEMMA AboutToWrite ==
  ASSUME TypeOK, [Next]_vars, NEW q \in Requests, req'[q].at \in { "flag", "confirm" },
         method \in { "card", "voucher" }
  PROVE  \/ req'[q] = req[q]
         \/ req'[q].at = "flag" /\ req[q].report = "short"
         \/ req'[q].at = "confirm" /\ req[q].report = "paid"
         \/ req'[q].at = "confirm" /\ method = "voucher"
<1>0. req \in [ Requests -> Calls ] /\ \A r \in Requests : req[r] \in Calls
  BY DEF TypeOK, ReqOK
<1> DEFINE Goal == \/ req'[q] = req[q]
                   \/ req'[q].at = "flag" /\ req[q].report = "short"
                   \/ req'[q].at = "confirm" /\ req[q].report = "paid"
                   \/ req'[q].at = "confirm" /\ method = "voucher"
<1>1. CASE UNCHANGED req
  BY <1>1
<1>2. ASSUME NEW r \in Requests, NEW step, GoTo(r, step)
      PROVE  /\ q # r => req'[q] = req[q]
             /\ q = r => req'[q].at = step
  <2>1. req' = [ req EXCEPT ![r] = [ req[r] EXCEPT !.at = step ] ]
    BY <1>2 DEF GoTo
  <2>2. [ req[r] EXCEPT !.at = step ].at = step
    BY <1>0 DEF Calls
  <2> QED BY <1>0, <2>1, <2>2
<1>3. ASSUME NEW r \in Requests, req' = [ req EXCEPT ![r] = Idle ] PROVE Goal
  BY <1>0, <1>3 DEF Idle
<1>4. ASSUME NEW r \in Requests, NEW step, GoTo(r, step), step \notin { "flag", "confirm" } PROVE Goal
  BY <1>2, <1>4
<1>5. ASSUME NEW r \in Requests, After(r) PROVE Goal
  <2>1. \/ req' = [ req EXCEPT ![r] = Idle ]
        \/ GoTo(r, "mark")
    BY <1>5 DEF After, GoTo
  <2> QED BY <1>3, <1>4, <2>1
<1>6. ASSUME NEW r \in Requests, SettleMoney(r) PROVE Goal
  <2> DEFINE what == Decision(IF req[r].report = "paid" THEN "exact" ELSE "other", FALSE)
  <2>1. CASE After(r)
    BY <1>5, <2>1
  <2>2. CASE what = "flag" /\ GoTo(r, what)
    <3>1. req[r].report # "paid" /\ req[r].report \in Money
      BY <1>6, <2>2 DEF Decision, SettleMoney
    <3> QED BY <1>2, <2>2, <3>1 DEF Money
  <2>3. CASE what = "confirm" /\ GoTo(r, what)
    <3>1. req[r].report = "paid"
      BY <2>3 DEF Decision
    <3> QED BY <1>2, <2>3, <3>1
  <2>4. CASE GoTo(r, "alert")
    BY <1>4, <2>4
  <2> QED BY <1>6, <2>1, <2>2, <2>3, <2>4 DEF SettleMoney
<1>7. ASSUME NEW r \in Requests, NEW amount \in Amounts, NEW forced \in BOOLEAN,
             Approve(r, amount, forced)
      PROVE  Goal
  <2>1. method = "voucher" /\ forced
    BY <1>7 DEF Approve, Offered
  <2>2. UNCHANGED req \/ GoTo(r, "confirm")
    BY <1>7, <2>1 DEF Approve, Decision
  <2> QED BY <1>1, <1>2, <2>1, <2>2
<1>8. ASSUME NEW r \in Requests, NEW report, NEW via,
             req' = [ req EXCEPT ![r] = [ at |-> "lookup", report |-> report, via |-> via ] ]
      PROVE  Goal
  BY <1>0, <1>8
<1>9. ASSUME NEW r \in Requests,
             \/ AskGateway(r) \/ CancelCheckout(r) \/ \E e \in Reports : Deliver(r, e)
      PROVE  Goal
  BY <1>8, <1>9 DEF AskGateway, CancelCheckout, Deliver
<1>10. ASSUME NEW r \in Requests, Reject(r) \/ Sweep(r) \/ Throw(r) PROVE Goal
  BY <1>3, <1>4, <1>10 DEF Reject, Sweep, Throw
<1>11. ASSUME NEW r \in Requests, Step(r) PROVE Goal
  BY <1>3, <1>4, <1>5, <1>6, <1>11 DEF Step, Lookup, ExtendLoad, ExtendWrite, SettleExpired, Alert,
     Mark, Confirm, Flag, RejectWrite, Expire
<1>12. CASE Checkout \/ Gateway \/ Lapse \/ Fulfil \/ UNCHANGED vars
  BY <1>1, <1>12 DEF Checkout, AttachComprobante, StoreFails, OpenCharge, LinkCharge,
     CancelOpening, Gateway, IssueVoucher, ChargeExpires, Pay, Lapse, Fulfil, vars
<1> QED BY <1>7, <1>9, <1>10, <1>11, <1>12 DEF Next, Start

LEMMA OnceStep ==
  ASSUME TypeOK, ByGatewayInv, PaidOnceInv, OnceInv, [Next]_vars, PaidOnceInv', TypeOK'
  PROVE  OnceInv'
<1>0. /\ "paid" \in Reports /\ "short" \in Reports /\ enqueued \in Nat
      /\ \A e \in Reports : log[e] # "unsent" => log'[e] # "unsent"
  BY SentStaysSent DEF TypeOK, CountsOK, Reports
<1>1. method' = method
  BY DEF Next, Checkout, AttachComprobante, StoreFails, OpenCharge, LinkCharge,
     CancelOpening, Gateway, IssueVoucher, ChargeExpires, Pay, Lapse, Fulfil, vars, Start,
     AskGateway, CancelCheckout, Reject, Sweep, Approve, Throw, Deliver, Step, Lookup, ExtendLoad,
     ExtendWrite, SettleMoney, SettleExpired, Alert, Mark, Confirm, Flag, RejectWrite, Expire
<1> SUFFICES ASSUME PaysAsAsked'
             PROVE  /\ \A r \in Requests : req'[r].at = "flag" => log'["short"] # "unsent"
                    /\ method = "card" =>
                         \A r \in Requests : req'[r].at = "confirm" => log'["paid"] # "unsent"
                    /\ \/ enqueued' = 0
                       \/ /\ enqueued' = 1 /\ paymentStatus' = "paid"
                          /\ method = "card" => log'["paid"] # "unsent"
  BY <1>1 DEF OnceInv
<1>2. PaysAsAsked /\ method \in { "card", "voucher" } /\ method # "transfer"
  BY <1>0, <1>1 DEF PaysAsAsked
<1>3. /\ \A r \in Requests : req[r].at = "flag" => log["short"] # "unsent"
      /\ method = "card" => \A r \in Requests : req[r].at = "confirm" => log["paid"] # "unsent"
      /\ \/ enqueued = 0
         \/ enqueued = 1 /\ paymentStatus = "paid" /\ (method = "card" => log["paid"] # "unsent")
  BY <1>2 DEF OnceInv
<1>4. \A r \in Requests : req[r].report \in Money => log[req[r].report] # "unsent"
  BY DEF PaidOnceInv
<1>5. \A r \in Requests : req'[r].at = "flag" => log'["short"] # "unsent"
  BY <1>0, <1>2, <1>3, <1>4, AboutToWrite DEF Money
<1>6. method = "card" => \A r \in Requests : req'[r].at = "confirm" => log'["paid"] # "unsent"
  BY <1>0, <1>2, <1>3, <1>4, AboutToWrite DEF Money
<1>7. ASSUME NEW r \in Requests, Confirm(r)
      PROVE  \/ enqueued' = 0
             \/ enqueued' = 1 /\ paymentStatus' = "paid" /\ (method = "card" => log'["paid"] # "unsent")
  BY <1>0, <1>3, <1>7 DEF Confirm
<1>8. ASSUME NEW r \in Requests, Flag(r) PROVE enqueued' = 0
  <2>1. req[r].at = "flag" /\ enqueued' = enqueued
    BY <1>8 DEF Flag
  <2>2. log["short"] # "unsent"
    BY <1>3, <2>1
  <2>3. method = "card" /\ log["paid"] = "unsent"
    BY <1>2, <2>2 DEF PaidOnceInv, PaysAsAsked
  <2> QED BY <1>3, <2>1, <2>3
<1>9. ASSUME enqueued' = enqueued, paymentStatus = "paid" => paymentStatus' = "paid"
      PROVE  \/ enqueued' = 0
             \/ enqueued' = 1 /\ paymentStatus' = "paid" /\ (method = "card" => log'["paid"] # "unsent")
  BY <1>0, <1>3, <1>9
<1>10. ASSUME NEW r \in Requests, RejectWrite(r) \/ Expire(r)
       PROVE  enqueued' = enqueued /\ (paymentStatus = "paid" => paymentStatus' = "paid")
  BY <1>10 DEF RejectWrite, Expire
<1>11. ~ AttachComprobante
  BY <1>2 DEF AttachComprobante, ByGatewayInv
<1>12. CancelOpening => UNCHANGED <<enqueued, paymentStatus>>
  BY <1>2 DEF CancelOpening, Rejectable
<1>13. UNCHANGED <<enqueued, paymentStatus>> =>
         \/ enqueued' = 0
         \/ enqueued' = 1 /\ paymentStatus' = "paid" /\ (method = "card" => log'["paid"] # "unsent")
  BY <1>9
<1>14. \/ enqueued' = 0
       \/ enqueued' = 1 /\ paymentStatus' = "paid" /\ (method = "card" => log'["paid"] # "unsent")
  <2>1. ASSUME NEW r \in Requests, Step(r),
               ~ (Confirm(r) \/ Flag(r) \/ Expire(r) \/ RejectWrite(r))
        PROVE  UNCHANGED <<enqueued, paymentStatus>>
    BY <2>1 DEF Step, Lookup, ExtendLoad, ExtendWrite, SettleMoney, SettleExpired, Alert, Mark, rows
  <2>2. ASSUME NEW r \in Requests,
               \/ Start(r) \/ Throw(r) \/ \E e \in Reports : Deliver(r, e)
        PROVE  UNCHANGED <<enqueued, paymentStatus>>
    BY <2>2 DEF Start, AskGateway, CancelCheckout, Reject, Sweep, Approve, Throw, Deliver, rows
  <2>3. ASSUME Gateway \/ Lapse \/ Fulfil \/ UNCHANGED vars
        PROVE  UNCHANGED <<enqueued, paymentStatus>>
    BY <2>3 DEF Gateway, IssueVoucher, ChargeExpires, Pay, Lapse, Fulfil, vars, rows
  <2>4. ASSUME StoreFails \/ OpenCharge \/ LinkCharge
        PROVE  UNCHANGED <<enqueued, paymentStatus>>
    BY <2>4 DEF StoreFails, OpenCharge, LinkCharge, rows
  <2> QED BY <1>7, <1>8, <1>9, <1>10, <1>11, <1>12, <1>13, <2>1, <2>2, <2>3, <2>4 DEF Next, Checkout
<1> QED BY <1>5, <1>6, <1>14

\* However many deliveries, page views, releases and sweeps overlap, an order
\* paid by card is enqueued once; and so is one by voucher of which nothing
\* short was reported.  What comes short by voucher is flagged whatever the
\* payment is by then, and may be released again: flagMismatch looks at nothing.
THEOREM EnqueuedOnceByGateway == Spec => []EnqueuedOnce
<1>1. Init => PaidOnceInv /\ OnceInv
  <2> SUFFICES ASSUME Init PROVE PaidOnceInv /\ OnceInv
    OBVIOUS
  <2>1. \A r \in Requests : req[r].at = "idle" /\ req[r].report = "none"
    BY DEF Init, Idle
  <2>2. log["paid"] = "unsent" /\ log["short"] = "unsent" /\ charge = "none" /\ enqueued = 0
    BY DEF Init, Reports
  <2> QED BY <2>1, <2>2 DEF PaidOnceInv, OnceInv, Money
<1>2. /\ TypeOK /\ ByGatewayInv /\ PaidOnceInv /\ OnceInv /\ [Next]_vars /\ TypeOK'
      => PaidOnceInv' /\ OnceInv'
  BY PaidOnceStep, OnceStep
<1>3. TypeOK /\ OnceInv => EnqueuedOnce
  BY DEF TypeOK, CountsOK, OnceInv, EnqueuedOnce
<1> QED BY <1>1, <1>2, <1>3, ByGatewayAlways, PTL DEF Spec
=============================================================================
