SPECIFICATION FairSpec
CONSTANTS
  Orders <- OneOrder
  Items <- TwoItems
  OrderOf <- AllOfOne
  Cost <- SamePrice
  Debit <- SameDebit
  InitialWallet = 10000
  MaxAttempts = 2
  Outcomes <- PendingOrLate
  PollAnswers <- NoErrorPoll
  TopUps <- BigTopUp
  Withdrawable <- Nothing
  MaxCrashes = 1
  MaxThrows = 0
  MaxTopUps = 1
  MaxReviews = 0
  MaxToggles = 0
INVARIANTS CompletedIsWhole
PROPERTIES PaidOrdersRest
