------------------------------ MODULE TwoAdmins ------------------------------
(***************************************************************************)
(* Fulfillment with a second admin: two review requests may be between     *)
(* their load and their commit at the same time.  The second does exactly  *)
(* what the first does, with a request of its own.                         *)
(***************************************************************************)
EXTENDS FulfillmentProps

VARIABLE otherPlan

Second == INSTANCE Fulfillment WITH plan <- otherPlan

TwoInit == Init /\ otherPlan = NoPlan

OtherReview == Second!ReviewStep /\ UNCHANGED plan

TwoNext == \/ Next /\ UNCHANGED otherPlan
           \/ OtherReview

TwoSpec == TwoInit /\ [][TwoNext]_<<vars, otherPlan>>

\* "Never let a click cause a second delivery" (review.ts:15), with two admins at
\* their clicks: one may requeue an item and have it sent again while the other
\* is still saying of the first call that it was not charged.
ClicksNeverDeliverTwice == DeliveredOnce
=============================================================================
