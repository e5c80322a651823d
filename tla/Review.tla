-------------------------------- MODULE Review --------------------------------
(***************************************************************************)
(* What an admin may rely on when deciding about a parked order, as if     *)
(* nobody else were at work: each of the panel's six actions happens at    *)
(* once, on the rows as they are.  What was given is booked and what was   *)
(* not may be sent again; an item nobody knows about is left to the admin; *)
(* nothing is sent again while a call of its order is out; and an order is *)
(* called completed when it is.                                            *)
(***************************************************************************)
EXTENDS Naturals, OrderStates

CONSTANTS Orders, Items, OrderOf

VARIABLES
  orderStatus,
  status,       \* of each item
  given         \* item -> how often the customer got it

TypeOK == /\ orderStatus \in [Orders -> OrderStatuses]
          /\ status \in [Items -> ItemStatuses]
          /\ given \in [Items -> Nat]

rows == <<orderStatus, status, given>>

ItemsOf(o) == { i \in Items : OrderOf[i] = o }
Left(o)    == { i \in ItemsOf(o) : status[i] \in { "queued", "failed" } }
Done(o)    == { i \in ItemsOf(o) : status[i] = "succeeded" }

Init ==
  /\ orderStatus = [ o \in Orders |-> "pending_payment" ]
  /\ status = [ i \in Items |-> "queued" ]
  /\ given = [ i \in Items |-> 0 ]

Parked(o) == orderStatus[o] = "needs_review"
Doubtful(i) == status[i] \in { "unknown", "failed" }

\* An item is booked, and with the last one its order may be.
Book(i) ==
  LET o == OrderOf[i]
  IN  /\ Parked(o) /\ status' = [ status EXCEPT ![i] = "succeeded" ]
      /\ \/ UNCHANGED orderStatus
         \/ /\ ItemsOf(o) \subseteq Done(o) \cup {i}
            /\ orderStatus' = [ orderStatus EXCEPT ![o] = "completed" ]

Delivered(i) ==
  Doubtful(i) /\ given[i] = 1 /\ Book(i) /\ UNCHANGED given

DeliveredManually(i) ==
  /\ i \in Left(OrderOf[i]) /\ given[i] = 0 /\ Book(i)
  /\ given' = [ given EXCEPT ![i] = 1 ]

NotDelivered(i) ==
  /\ Parked(OrderOf[i]) /\ Doubtful(i) /\ given[i] = 0
  /\ status' = [ status EXCEPT ![i] = "queued" ]
  /\ UNCHANGED <<orderStatus, given>>

Resume(o) ==
  /\ Parked(o) /\ Left(o) # {}
  /\ \A i \in Left(o) : given[i] = 0
  /\ \A i \in ItemsOf(o) : status[i] # "sending"
  /\ status' = [ i \in Items |-> IF i \in Left(o) THEN "queued" ELSE status[i] ]
  /\ \E to \in { "payment_confirmed", "partially_delivered" } :
       /\ to = "partially_delivered" => Done(o) # {}
       /\ orderStatus' = [ orderStatus EXCEPT ![o] = to ]
  /\ UNCHANGED given

Refund(o) ==
  /\ Parked(o) /\ orderStatus' = [ orderStatus EXCEPT ![o] = "refund_required" ]
  /\ UNCHANGED <<status, given>>

RefundDone(o) ==
  /\ orderStatus[o] = "refund_required"
  /\ orderStatus' = [ orderStatus EXCEPT ![o] = "cancelled" ]
  /\ UNCHANGED <<status, given>>

\* What everybody else does about an item: send what was not given, have it
\* land, and settle it, as failed only if it did not and as pending only if it
\* did.
Works(i) ==
  \/ /\ status[i] \in { "queued", "failed" } /\ given[i] = 0
     /\ status'[i] = "sending" /\ given'[i] = 0
  \/ /\ status[i] = "sending" /\ given[i] = 0
     /\ status'[i] = "sending" /\ given'[i] = 1
  \/ /\ status[i] \in { "sending", "provider_pending" }
     /\ status'[i] \in { "succeeded", "unknown" } /\ given'[i] = given[i]
  \/ /\ status[i] = "sending" /\ given'[i] = given[i]
     /\ status'[i] = IF given[i] = 0 THEN "failed" ELSE "provider_pending"

\* And about an order: it is confirmed once, completed when whole, and never
\* refunded.
Moves(o) ==
  \/ orderStatus[o] = "pending_payment" /\ orderStatus'[o] = "payment_confirmed"
  \/ orderStatus'[o] \in { "processing", "partially_delivered", "needs_review" }
  \/ orderStatus'[o] = "completed" /\ ItemsOf(o) \subseteq Done(o)

Machine ==
  /\ TypeOK'
  /\ \A i \in Items :
       <<status'[i], given'[i]>> = <<status[i], given[i]>> \/ Works(i)
  /\ \A o \in Orders : orderStatus'[o] = orderStatus[o] \/ Moves(o)

Next ==
  \/ \E i \in Items : Delivered(i) \/ DeliveredManually(i) \/ NotDelivered(i)
  \/ \E o \in Orders : Resume(o) \/ Refund(o) \/ RefundDone(o)
  \/ Machine

Spec == Init /\ [][Next]_rows
=============================================================================
