SPECIFICATION TwoSpec
CONSTANTS
  Orders <- OneOrder
  Items <- OneItem
  OrderOf <- AllOfOne
  Cost <- SamePrice
  Debit <- SameDebit
  InitialWallet = 20000
  MaxAttempts = 1
  Outcomes <- Answered
  PollAnswers <- Nothing
  TopUps <- Nothing
  Withdrawable <- Nothing
  MaxCrashes = 1
  MaxThrows = 0
  MaxTopUps = 0
  MaxReviews = 4
  MaxToggles = 0
INVARIANTS ClicksNeverDeliverTwice
