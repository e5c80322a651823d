---------------------------- MODULE MCFulfillment ----------------------------
(* Small instances of Fulfillment.  The price is one of the catalog's; the *)
(* provider takes a little less than the price, as reconcile.ts measured.  *)
EXTENDS FulfillmentInv

OneOrder  == {1}
TwoOrders == {1, 2}
OneItem   == {1}
TwoItems  == {1, 2}

AllOfOne == [ i \in Items |-> 1 ]
OneEach  == [ i \in Items |-> i ]

SamePrice == [ i \in Items |-> 7000 ]
SameDebit == [ i \in Items |-> 6989 ]

Answered == { "succeeded", "failed_retryable", "failed_permanent",
              "ambiguous_charged", "ambiguous_uncharged", "delivered_as_code" }
PendingOrLate == { "succeeded", "pending", "failed_permanent", "ambiguous_late" }
AnyOutcome == OutcomeKinds \ { "ambiguous_late" }
AnyPoll == PollKinds
NoErrorPoll == PollKinds \ { "error" }
BigTopUp == { 500000 }
Nothing == {}
=============================================================================
