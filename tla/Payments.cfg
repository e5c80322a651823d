SPECIFICATION FairSpec
CONSTANTS
  Requests = {r1, r2}
  Checkouts <- AnyCheckout
  Methods <- AnyMethod
  Amounts <- AnyAmount
  MaxVisits = 2
  MaxThrows = 1
INVARIANTS TypeOK EnqueuedOnce EventsAreHeard PaidIsQueued
PROPERTIES ConfirmedIsKept MoneyIsHeard ReviewedNeverExpires
CHECK_DEADLOCK FALSE
