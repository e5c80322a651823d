SPECIFICATION FairSpec
CONSTANTS
  StripeMethods <- MCStripe
  MpMethods <- MCMp
  Bonus = 10
  Shortfall = 1
  PayTo <- MCPayTo
  Denominations <- MCDenominations
  Drafts <- MCDrafts
  OnSale <- MCOnSale
  Cap = 1
  Indexed = TRUE
  OfferPrices <- MCOfferPrices
  OnOffer = 40
  MaxOrders = 2
  MaxTurns = 1
  MaxVisits = 1
INVARIANTS TypeOK OneMegaEach OrdersDeliver
PROPERTY SlotsAreReleased
CHECK_DEADLOCK FALSE
