SPECIFICATION Spec
CONSTANTS
  ana = ana
  o1 = o1
  o2 = o2
  o3 = o3
  idA = idA
  idB = idB
  idC = idC
  Sweeps = {k1}
  Admins = {a1}
  Profiles <- OneProfile
  Ids = {idA, idB}
  Paid <- TwoOrders
  Buyer <- Buyer2
  Target <- Target2
  Profit <- Profit2
  Diamonds <- Diamonds2
  Thresholds <- Rungs
  Ladders <- OneLadder
  Undeliverable <- NoRung
  OverrideValues <- Values
  FirstIds <- Linked0
  Seasons = {1, 2}
  BatchSize = 2
  MaxReversals = 1
  MaxOverrides = 1
  MaxLinks = 1
  MaxEdits = 0
  MaxThrows = 1
  MaxAged = 0
  MaxTurns = 1
INVARIANTS TypeOK StatsMatch LedgerMatches
PROPERTY PastIsFinal
CHECK_DEADLOCK FALSE
