---------------------------- MODULE LossyLedger ----------------------------
(***************************************************************************)
(* The ledger of an engine that may be cut off in the middle of a call.    *)
(* An item whose call was cut off is lost until somebody finds it, and to  *)
(* find it is to guess: it may be booked though the customer never got it. *)
(* Nothing else of the Ledger is given up: no item is given twice, a lost  *)
(* one is neither given nor handed over, what was not lost is booked only  *)
(* when it was given, and what is booked stays booked.                     *)
(***************************************************************************)
EXTENDS Naturals

CONSTANT Items

VARIABLES
  given,    \* item -> how often the customer got it
  booked,   \* the items recorded as delivered
  lost      \* the items nobody has in hand and nobody knows about

Unbroken == INSTANCE Ledger

TypeOK == Unbroken!TypeOK /\ lost \subseteq Items

Init == Unbroken!Init /\ lost = {}

\* Of an item that is not lost, what the ledger may do.
Known(i) ==
  /\ i \notin lost /\ UNCHANGED lost
  /\ Unbroken!Give(i) \/ Unbroken!Book(i) \/ Unbroken!GiveAndBook(i)

\* A call is cut off, whether or not it got through.
Lose(i) ==
  /\ i \notin booked /\ lost' = lost \cup {i}
  /\ UNCHANGED <<given, booked>>

\* Somebody decides about a lost item: to book it, or that it is not settled.
Find(i) ==
  /\ i \in lost /\ lost' = lost \ {i}
  /\ booked' \in { booked, booked \cup {i} }
  /\ UNCHANGED given

Next == \E i \in Items : Known(i) \/ Lose(i) \/ Find(i)

Spec == Init /\ [][Next]_<<given, booked, lost>>
=============================================================================
