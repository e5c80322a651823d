SPECIFICATION FairSpec
CONSTANTS
  ana = ana
  o1 = o1
  o2 = o2
  o3 = o3
  idA = idA
  idB = idB
  idC = idC
  Sweeps = {k1}
  Admins = {a1}
  Profiles <- OneProfile
  Ids = {idA, idB, idC}
  Paid <- LiveOrders
  Buyer <- Buyer3
  Target <- Target3
  Profit <- Profit3
  Diamonds <- Diamonds3
  Thresholds <- LiveRungs
  Ladders <- LiveLadders
  Undeliverable <- FirstRung
  OverrideValues <- NoValue
  FirstIds <- Linked0
  Seasons = {1, 2}
  BatchSize = 2
  MaxReversals = 0
  MaxOverrides = 0
  MaxLinks = 0
  MaxEdits = 1
  MaxThrows = 1
  MaxAged = 1
  MaxTurns = 3
PROPERTIES CompletedIsCredited RewardsArePlaced
CHECK_DEADLOCK FALSE
