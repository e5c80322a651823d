SPECIFICATION Spec
CONSTANTS
  Orders <- OneOrder
  Items <- TwoItems
  OrderOf <- AllOfOne
  Cost <- SamePrice
  Debit <- SameDebit
  InitialWallet = 20000
  MaxAttempts = 2
  Outcomes <- AnyOutcome
  PollAnswers <- AnyPoll
  TopUps <- Nothing
  Withdrawable <- Nothing
  MaxCrashes = 0
  MaxThrows = 0
  MaxTopUps = 0
  MaxReviews = 0
  MaxToggles = 0
PROPERTIES OnlyHumansUnpark
