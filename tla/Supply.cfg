SPECIFICATION Spec
CONSTANTS
  ra1 = ra1
  ra2 = ra2
  ra3 = ra3
  co1 = co1
  o1 = o1
  None = None
  Products <- Four
  ProviderOf <- Owner
  Denominations <- Two
  Answers <- Catalogs
  FirstRows <- Stocked
  FirstRecipe <- Combo
  Orders <- Paid
  Placed <- Nobody
  ErrorThreshold = 2
  MaxAttempts = 2
  MaxEvents = 2
INVARIANTS TypeOK DiamondsStay
PROPERTIES EvidenceStays SyncWaitsForOrders
CHECK_DEADLOCK FALSE
