SPECIFICATION Spec
CONSTANTS
  Prices <- SixPrices
  Shortfalls <- Measured
  Deposits <- UsualDeposits
  Before = 1000000
INVARIANTS VerdictsAreTrue
CHECK_DEADLOCK FALSE
