SPECIFICATION Spec
CONSTANTS
  Orders <- TwoOrders
  Items <- TwoItems
  OrderOf <- OneEach
  Cost <- SamePrice
  Debit <- SameDebit
  InitialWallet = 30000
  MaxAttempts = 2
  Outcomes <- AnyOutcome
  PollAnswers <- AnyPoll
  TopUps <- Nothing
  Withdrawable <- OneItem
  MaxCrashes = 1
  MaxThrows = 1
  MaxTopUps = 0
  MaxReviews = 0
  MaxToggles = 0
INVARIANTS TypeOK DeliveredOnce RetriesAreBounded
PROPERTIES NoVerdictUnderLiveCall ImplementsLossyLedger
