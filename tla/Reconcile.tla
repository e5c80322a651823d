------------------------------ MODULE Reconcile ------------------------------
(***************************************************************************)
(* Wallet-delta reconciliation (packages/provider/src/reconcile.ts): what  *)
(* two readings of a prepaid balance say about a purchase whose answer was *)
(* lost.  Amounts are integers in ten-thousandths of a dollar, as UsdTenK. *)
(***************************************************************************)
EXTENDS Integers

ToleranceFloor == 100

AbsVal(x) == IF x < 0 THEN -x ELSE x

\* Mutant: half the price instead of half a percent.
ToleranceForHalf(cost) == AbsVal(cost) \div 2

\* Math.round(|cost| * 0.005), then the greater of it and the floor.
ToleranceFor(cost) ==
  LET share == (AbsVal(cost) + 100) \div 200
  IN  IF share > ToleranceFloor THEN share ELSE ToleranceFloor

Verdicts == { "charged", "not_charged", "indeterminate" }

\* Mutant: a balance that moved by some other amount is called unmoved.
ResolveAmbiguousGuess(before, after, cost) ==
  IF AbsVal(before - after - cost) <= ToleranceFor(cost) THEN "charged"
  ELSE "not_charged"

\* The tests in the code's order: a price that cannot be reconciled, a
\* balance that rose, one that did not move, one that fell by the price.
ResolveAmbiguous(before, after, cost) ==
  LET delta == before - after
      tol   == ToleranceFor(cost)
  IN  CASE cost <= 0                      -> "indeterminate"
        [] cost > 0 /\ delta < -tol       -> "indeterminate"
        [] cost > 0 /\ AbsVal(delta) <= tol -> "not_charged"
        [] cost > 0 /\ AbsVal(delta) > tol /\ AbsVal(delta - cost) <= tol
                                          -> "charged"
        [] OTHER                          -> "indeterminate"

\* isSafeToRetry.
SafeToRetry(verdict) == verdict = "not_charged"

==============================================================================
