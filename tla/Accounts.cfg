SPECIFICATION Spec
CONSTANTS
  phone = phone
  laptop = laptop
  ana = ana
  bob = bob
  founder = founder
  topten = topten
  None = None
  Browsers = {phone, laptop}
  Emails = {ana, bob}
  Reads <- MCReads
  Ids = {id1, id2, id3}
  MaxTries = 1
  MaxCodes = 2
  MaxSeasons = 2
  MaxLogouts = 1
  MaxCrashes = 1
  Logins = {r1, r2}
  Secrets = {s1, s2}
  NoSecret = NoSecret
  MaxClock = 2
  MaxGuesses = 2
  Badges = {founder, topten}
  Founder = founder
  Players = {ana}
  Hands = {h1, h2}
  MaxFeatured = 1
  MaxEdits = 2
  Sales <- MCSales
  Hours = {3, 7, 31}
  Manual = {m1}
  Cents = {1250}
  Rates = {1775}
  Unknown = Unknown
  MaxTyped = 1
  Bought = {o1, o2}
  MaxAttempts = 2
  BatchLimit = 2
  WindowDays = 1
  MaxAge = 1
  MaxBreaks = 1
  Owners <- MCOwners
  OxxoTyped <- MCOxxoTyped
  Environment <- MCEnvironment
  NoAccount = NoAccount
  Editors = {r1, r2}
  Buyers = {phone, laptop}
  MaxSaves = 2
INVARIANTS TypeOK SignInsAreProven OnceAndOnRecord SalesAreReported PayeeIsReviewed
PROPERTY StatementsStand
CHECK_DEADLOCK FALSE
SYMMETRY Symmetry
