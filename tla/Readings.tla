------------------------------ MODULE Readings ------------------------------
(***************************************************************************)
(* One purchase whose answer was lost, between the two readings of the     *)
(* wallet that reconcile.ts judges it by: the call may land, another call  *)
(* that slipped past the lock may, the owner may top up.                   *)
(***************************************************************************)
EXTENDS Reconcile

CONSTANTS
  Prices,      \* the catalog's, in ten-thousandths of a dollar
  Shortfalls,  \* how far below the price the provider's debit was measured
  Deposits,    \* amounts the owner may add
  Before       \* the reading taken before the call

ASSUME PricesAssumption ==
  /\ Prices \subseteq Nat \ {0} /\ Deposits \subseteq Nat /\ Before \in Nat
  /\ \A p \in Prices : Shortfalls[p] \subseteq Nat

\* The tolerance covers what the provider takes short, and no price is as
\* small as that; no window around a price reaches another's.
ASSUME CatalogAssumption ==
  /\ \A p \in Prices : \A s \in Shortfalls[p] :
       s <= ToleranceFor(p) /\ p - s > ToleranceFor(p)
  /\ \A p, q \in Prices :
       p # q => AbsVal(p - q) > ToleranceFor(p) + ToleranceFor(q)

\* No deposit looks like a price, the sum of two prices, or their difference.
ASSUME DepositsAssumption ==
  \A d \in Deposits : \A p, q \in Prices :
    /\ AbsVal(d - p) > 2 * ToleranceFor(p)
    /\ AbsVal(d - p - q) > 2 * ToleranceFor(p) + ToleranceFor(q)
    /\ p # q => AbsVal(q - p - d) > ToleranceFor(p) + ToleranceFor(q)

VARIABLES
  cost,     \* the item's expected cost
  balance,  \* the wallet now
  own,      \* the call landed
  others,   \* the prices of other calls that landed meanwhile
  deposits, \* what was added meanwhile
  verdict

vars == <<cost, balance, own, others, deposits, verdict>>

Init ==
  /\ cost \in Prices /\ balance = Before
  /\ own = FALSE /\ others = {} /\ deposits = {} /\ verdict = "none"

Land ==
  /\ verdict = "none" /\ ~own /\ own' = TRUE
  /\ \E s \in Shortfalls[cost] : balance' = balance - (cost - s)
  /\ UNCHANGED <<cost, others, deposits, verdict>>

AnotherLands(p) ==
  /\ verdict = "none" /\ others = {} /\ others' = {p}
  /\ \E s \in Shortfalls[p] : balance' = balance - (p - s)
  /\ UNCHANGED <<cost, own, deposits, verdict>>

Deposit(amount) ==
  /\ verdict = "none" /\ deposits = {} /\ deposits' = {amount}
  /\ balance' = balance + amount
  /\ UNCHANGED <<cost, own, others, verdict>>

\* The second reading.
Judge ==
  /\ verdict = "none"
  /\ verdict' = ResolveAmbiguous(Before, balance, cost)
  /\ UNCHANGED <<cost, balance, own, others, deposits>>

Next == \/ Land \/ Judge
        \/ \E p \in Prices : AnotherLands(p)
        \/ \E amount \in Deposits : Deposit(amount)

Spec == Init /\ [][Next]_vars

\* Verdicts are true.  A retry is never allowed for a call that landed,
\* whatever other call landed beside it, whatever was paid in and however much
\* short of the price the provider took; and no denomination is taken for
\* another: 'charged' means this call landed, or another of the same price
\* (reconcile.ts).
VerdictsAreTrue ==
  /\ SafeToRetry(verdict) => ~own
  /\ verdict = "charged" => own \/ cost \in others
=============================================================================
