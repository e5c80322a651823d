--------------------------- MODULE ReadingsProofs ---------------------------
(***************************************************************************)
(* The verdicts of reconcile.ts are true for every catalog whose prices    *)
(* the tolerance keeps apart, and every deposit that cannot be taken for a *)
(* purchase.                                                               *)
(***************************************************************************)
EXTENDS Readings, TLAPS

\* What the wallet moved by: the call's own debit, the other call's, and what
\* was paid in.
Took(p)     == { p - s : s \in Shortfalls[p] }
OwnDebit    == IF own THEN Took(cost) ELSE {0}
OtherDebits == IF others = {} THEN {0} ELSE UNION { Took(p) : p \in others }
PaidIn      == IF deposits = {} THEN {0} ELSE deposits

\* The balance is the first reading less the debits and with the deposit, and
\* a verdict once given is the one on the balance as it is: nothing moves after.
ReadingInv ==
  /\ cost \in Prices /\ own \in BOOLEAN
  /\ others = {} \/ \E p \in Prices : others = {p}
  /\ deposits = {} \/ \E d \in Deposits : deposits = {d}
  /\ \E a \in OwnDebit, b \in OtherDebits, c \in PaidIn :
       balance = Before - a - b + c
  /\ verdict \in { "none", ResolveAmbiguous(Before, balance, cost) }

LEMMA AmountsAreNat == Before \in Nat /\ \A d \in Deposits : d \in Nat
BY PricesAssumption

LEMMA ToleranceIsNat ==
  ASSUME NEW c \in Nat
  PROVE  ToleranceFor(c) \in Nat
BY DEF ToleranceFor, AbsVal, ToleranceFloor

\* What reconcile.ts says of the six SKUs: prices that differ by a factor of one
\* and a half are apart, once they are above four cents.
LEMMA FactorsTellApart ==
  ASSUME NEW p \in Nat, NEW q \in Nat, p > 400, 2 * q >= 3 * p
  PROVE  AbsVal(p - q) > ToleranceFor(p) + ToleranceFor(q)
BY DEF ToleranceFor, AbsVal, ToleranceFloor

\* What a verdict says of the fall between the readings.
LEMMA VerdictReads ==
  ASSUME NEW b \in Int, NEW x \in Int, NEW c \in Nat \ {0}
  PROVE  /\ ResolveAmbiguous(b, x, c) = "not_charged" =>
              AbsVal(b - x) <= ToleranceFor(c)
         /\ ResolveAmbiguous(b, x, c) = "charged" =>
              b - x > ToleranceFor(c) /\ AbsVal(b - x - c) <= ToleranceFor(c)
BY DEF ResolveAmbiguous, ToleranceFor, AbsVal, ToleranceFloor

\* What the provider takes for a purchase is an amount of its own: more than
\* the tolerance, and short of the price by no more than that.
LEMMA TookIsNear ==
  ASSUME NEW p \in Prices, NEW a \in Took(p)
  PROVE  /\ p \in Nat \ {0} /\ a \in Int /\ ToleranceFor(p) \in Nat
         /\ a > ToleranceFor(p) /\ a <= p /\ p - a <= ToleranceFor(p)
<1>1. PICK s \in Shortfalls[p] : a = p - s
  BY DEF Took
<1>2. p \in Nat \ {0} /\ s \in Nat /\ ToleranceFor(p) \in Nat
  BY PricesAssumption, ToleranceIsNat
<1>3. s <= ToleranceFor(p) /\ p - s > ToleranceFor(p)
  BY CatalogAssumption
<1> QED
  BY <1>1, <1>2, <1>3

LEMMA InvFromInit == Init => ReadingInv
<1> SUFFICES ASSUME Init
             PROVE  ReadingInv
  OBVIOUS
<1>1. OwnDebit = {0} /\ OtherDebits = {0} /\ PaidIn = {0}
  BY DEF Init, OwnDebit, OtherDebits, PaidIn
<1>2. balance = Before - 0 - 0 + 0
  BY PricesAssumption DEF Init
<1> QED
  BY <1>1, <1>2 DEF Init, ReadingInv

\* Each call and the deposit add their own part to the fall; the verdict looks
\* at all of it.
LEMMA InvIsKept == ReadingInv /\ [Next]_vars => ReadingInv'
<1> SUFFICES ASSUME ReadingInv, [Next]_vars
             PROVE  ReadingInv'
  OBVIOUS
<1>0. PICK a \in OwnDebit, b \in OtherDebits, c \in PaidIn :
        balance = Before - a - b + c
  BY DEF ReadingInv
<1>1. /\ Before \in Int /\ a \in Int /\ b \in Int /\ c \in Int
      /\ cost \in Prices /\ \A p \in Prices : p \in Int
      /\ \A p \in Prices : \A s \in Shortfalls[p] : s \in Int
  <2>1. \A p \in Prices : Took(p) \subseteq Int
    BY TookIsNear
  <2>2. a \in Int
    BY <2>1 DEF OwnDebit, ReadingInv
  <2>3. b \in Int
    BY <2>1 DEF OtherDebits, ReadingInv
  <2>4. c \in Int
    BY PricesAssumption DEF PaidIn, ReadingInv
  <2> QED
    BY <2>2, <2>3, <2>4, PricesAssumption DEF ReadingInv
<1>2. CASE Land
  <2>1. PICK s \in Shortfalls[cost] : balance' = balance - (cost - s)
    BY <1>2 DEF Land
  <2>2. a = 0 /\ cost - s \in OwnDebit'
    BY <1>2 DEF Land, OwnDebit, Took
  <2>3. b \in OtherDebits' /\ c \in PaidIn'
    BY <1>2 DEF Land, OtherDebits, PaidIn, Took
  <2>4. balance' = Before - (cost - s) - b + c
    BY <1>0, <1>1, <2>1, <2>2
  <2> QED
    BY <1>2, <2>2, <2>3, <2>4 DEF Land, ReadingInv
<1>3. CASE \E p \in Prices : AnotherLands(p)
  <2>1. PICK p \in Prices : AnotherLands(p)
    BY <1>3
  <2>2. PICK s \in Shortfalls[p] : balance' = balance - (p - s)
    BY <2>1 DEF AnotherLands
  <2>3. b = 0 /\ p - s \in OtherDebits'
    BY <2>1 DEF AnotherLands, OtherDebits, Took
  <2>4. a \in OwnDebit' /\ c \in PaidIn'
    BY <2>1 DEF AnotherLands, OwnDebit, PaidIn, Took
  <2>5. balance' = Before - a - (p - s) + c
    BY <1>0, <1>1, <2>2, <2>3
  <2> QED
    BY <2>1, <2>3, <2>4, <2>5 DEF AnotherLands, ReadingInv
<1>4. CASE \E d \in Deposits : Deposit(d)
  <2>1. PICK d \in Deposits : Deposit(d)
    BY <1>4
  <2>2. c = 0 /\ d \in PaidIn' /\ d \in Int
    BY <2>1, PricesAssumption DEF Deposit, PaidIn
  <2>3. a \in OwnDebit' /\ b \in OtherDebits'
    BY <2>1 DEF Deposit, OwnDebit, OtherDebits, Took
  <2>4. balance' = Before - a - b + d
    BY <1>0, <1>1, <2>1, <2>2 DEF Deposit
  <2> QED
    BY <2>1, <2>2, <2>3, <2>4 DEF Deposit, ReadingInv
<1>5. CASE Judge
  BY <1>5 DEF Judge, ReadingInv, OwnDebit, OtherDebits, PaidIn, Took
<1>6. CASE UNCHANGED vars
  BY <1>6 DEF vars, ReadingInv, OwnDebit, OtherDebits, PaidIn, Took
<1> QED
  BY <1>2, <1>3, <1>4, <1>5, <1>6 DEF Next

\* A deposit is at some distance from whatever the calls took.
LEMMA DepositIsApart ==
  ASSUME NEW p \in Prices, NEW q \in Prices, NEW d \in Deposits,
         NEW a \in Took(p), NEW b \in Took(q)
  PROVE  /\ AbsVal(a - d) > ToleranceFor(p)
         /\ AbsVal(a + b - d) > ToleranceFor(p)
<1>1. /\ p \in Nat /\ a \in Int /\ ToleranceFor(p) \in Nat
      /\ a <= p /\ p - a <= ToleranceFor(p)
  BY TookIsNear
<1>2. /\ q \in Nat /\ b \in Int /\ ToleranceFor(q) \in Nat
      /\ b <= q /\ q - b <= ToleranceFor(q)
  BY TookIsNear
<1>3. d \in Nat
  BY PricesAssumption
<1>4. /\ AbsVal(d - p) > 2 * ToleranceFor(p)
      /\ AbsVal(d - p - q) > 2 * ToleranceFor(p) + ToleranceFor(q)
  BY DepositsAssumption
<1>5. AbsVal(a - d) > ToleranceFor(p)
  BY <1>1, <1>3, <1>4 DEF AbsVal
<1>6. AbsVal(a + b - d) > ToleranceFor(p)
  BY <1>1, <1>2, <1>3, <1>4 DEF AbsVal
<1> QED
  BY <1>5, <1>6

\* A call that landed moved the wallet, whatever else did.
LEMMA LandedIsSeen ==
  ASSUME ReadingInv, own
  PROVE  ResolveAmbiguous(Before, balance, cost) # "not_charged"
<1>0. PICK a \in OwnDebit, b \in OtherDebits, c \in PaidIn :
        balance = Before - a - b + c
  BY DEF ReadingInv
<1>1. a \in Took(cost) /\ cost \in Prices
  BY DEF OwnDebit, ReadingInv
<1>2. /\ cost \in Nat \ {0} /\ a \in Int /\ ToleranceFor(cost) \in Nat
      /\ a > ToleranceFor(cost)
  BY <1>1, TookIsNear
<1>3. b = 0 \/ \E q \in Prices : b \in Took(q)
  BY DEF OtherDebits, ReadingInv
<1>4. b \in Int /\ b >= 0
  <2>1. ASSUME NEW q \in Prices, b \in Took(q)
        PROVE  b \in Int /\ b >= 0
    BY <2>1, TookIsNear
  <2> QED
    BY <1>3, <2>1
<1>5. c = 0 \/ c \in Deposits
  BY DEF PaidIn, ReadingInv
<1>6. c \in Int /\ Before \in Int
  BY <1>5, AmountsAreNat
<1>7. balance \in Int /\ Before - balance = a + b - c
  BY <1>0, <1>2, <1>4, <1>6
<1>8. AbsVal(a + b - c) > ToleranceFor(cost)
  <2>1. CASE c = 0
    BY <2>1, <1>2, <1>4 DEF AbsVal
  <2>2. CASE c \in Deposits /\ b = 0
    <3>1. AbsVal(a - c) > ToleranceFor(cost)
      BY <2>2, <1>1, DepositIsApart
    <3> QED
      BY <3>1, <2>2, <1>2, <1>6
  <2>3. CASE c \in Deposits /\ \E q \in Prices : b \in Took(q)
    BY <2>3, <1>1, DepositIsApart
  <2> QED
    BY <2>1, <2>2, <2>3, <1>3, <1>5
<1>9. ~(AbsVal(Before - balance) <= ToleranceFor(cost))
  BY <1>2, <1>4, <1>6, <1>7, <1>8 DEF AbsVal
<1> QED
  BY <1>2, <1>6, <1>7, <1>9, VerdictReads

\* A fall by this price is of a purchase at this price.
LEMMA ChargedIsOfThisPrice ==
  ASSUME ReadingInv, ~own, cost \notin others
  PROVE  ResolveAmbiguous(Before, balance, cost) # "charged"
<1>0. PICK a \in OwnDebit, b \in OtherDebits, c \in PaidIn :
        balance = Before - a - b + c
  BY DEF ReadingInv
<1>1. a = 0 /\ cost \in Prices /\ cost \in Nat \ {0}
  BY PricesAssumption DEF OwnDebit, ReadingInv
<1>2. c = 0 \/ c \in Deposits
  BY DEF PaidIn, ReadingInv
<1>3. c \in Nat /\ Before \in Int /\ ToleranceFor(cost) \in Nat
  BY <1>1, <1>2, AmountsAreNat, ToleranceIsNat
<1>4. CASE others = {}
  <2>1. b = 0
    BY <1>4 DEF OtherDebits
  <2>2. balance \in Int /\ Before - balance <= ToleranceFor(cost)
    BY <1>0, <1>1, <1>3, <2>1
  <2> QED
    BY <1>1, <1>3, <2>2, VerdictReads
<1>5. CASE \E q \in Prices : others = {q}
  <2>1. PICK q \in Prices : q # cost /\ b \in Took(q)
    BY <1>5 DEF OtherDebits
  <2>2. /\ q \in Nat /\ b \in Int /\ ToleranceFor(q) \in Nat
        /\ b <= q /\ q - b <= ToleranceFor(q)
    BY <2>1, TookIsNear
  <2>3. balance \in Int /\ Before - balance - cost = b - c - cost
    BY <1>0, <1>1, <1>3, <2>2
  <2>4. AbsVal(b - c - cost) > ToleranceFor(cost)
    <3>1. CASE c = 0
      <4>1. AbsVal(cost - q) > ToleranceFor(cost) + ToleranceFor(q)
        BY <1>1, <2>1, CatalogAssumption
      <4> QED
        BY <3>1, <4>1, <1>1, <1>3, <2>2 DEF AbsVal
    <3>2. CASE c \in Deposits
      <4>1. AbsVal(q - cost - c) > ToleranceFor(cost) + ToleranceFor(q)
        BY <3>2, <1>1, <2>1, DepositsAssumption
      <4> QED
        BY <4>1, <1>1, <1>3, <2>2 DEF AbsVal
    <3> QED
      BY <3>1, <3>2, <1>2
  <2>5. ~(AbsVal(Before - balance - cost) <= ToleranceFor(cost))
    BY <1>1, <1>3, <2>2, <2>3, <2>4 DEF AbsVal
  <2> QED
    BY <1>1, <1>3, <2>3, <2>5, VerdictReads
<1> QED
  BY <1>4, <1>5 DEF ReadingInv

\* VerdictsAreTrue: a call that landed is never retried, and no denomination is
\* taken for another, for every catalog and every deposit of the assumptions.
THEOREM VerdictsHold == Spec => []VerdictsAreTrue
<1>1. ReadingInv => VerdictsAreTrue
  <2> SUFFICES ASSUME ReadingInv
               PROVE  VerdictsAreTrue
    OBVIOUS
  <2>1. ASSUME own
        PROVE  ~SafeToRetry(verdict)
    BY <2>1, LandedIsSeen DEF ReadingInv, SafeToRetry
  <2>2. ASSUME verdict = "charged", ~own, cost \notin others
        PROVE  FALSE
    BY <2>2, ChargedIsOfThisPrice DEF ReadingInv
  <2> QED
    BY <2>1, <2>2 DEF VerdictsAreTrue, ReadingInv
<1> QED
  BY <1>1, InvFromInit, InvIsKept, PTL DEF Spec
=============================================================================
