----------------------------- MODULE MCReadings -----------------------------
(* The six SKUs, their debits between the full price and the 0.16% less    *)
(* that was measured, and top-ups of the owner's usual size.               *)
EXTENDS Readings

SixPrices == { 7000, 21000, 35500, 65900, 130700, 332700 }
Measured  == [ p \in SixPrices |-> { 0, (p * 16) \div 10000 } ]
UsualDeposits == { 500000, 2000000 }
=============================================================================
