------------------------------- MODULE Ledger -------------------------------
(***************************************************************************)
(* What fulfilment promises about an item, with no workers, locks, wallets *)
(* or orders: the customer gets it at most once, it is booked as delivered *)
(* only after that, and what is booked stays booked.                       *)
(***************************************************************************)
EXTENDS Naturals

CONSTANT Items

VARIABLES
  given,    \* item -> how often the customer got it
  booked    \* the items recorded as delivered

TypeOK == given \in [Items -> Nat] /\ booked \subseteq Items

Init == given = [ i \in Items |-> 0 ] /\ booked = {}

Give(i) ==
  /\ given[i] = 0 /\ given' = [ given EXCEPT ![i] = 1 ]
  /\ UNCHANGED booked

Book(i) ==
  /\ given[i] = 1 /\ booked' = booked \cup {i}
  /\ UNCHANGED given

\* By hand, the admin's record and the delivery are one event.
GiveAndBook(i) ==
  /\ given[i] = 0 /\ given' = [ given EXCEPT ![i] = 1 ]
  /\ booked' = booked \cup {i}

Next == \E i \in Items : Give(i) \/ Book(i) \/ GiveAndBook(i)

Spec == Init /\ [][Next]_<<given, booked>>
=============================================================================
