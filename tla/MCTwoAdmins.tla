----------------------------- MODULE MCTwoAdmins -----------------------------
(* The instances of MCFulfillment, with two admins.                        *)
EXTENDS MCFulfillment, TwoAdmins
=============================================================================
