SPECIFICATION FairSpec

CONSTANTS
  b1 = b1
  b2 = b2
  b3 = b3
  o1 = o1
  Booking = {b3}
  Owner = {o1}
  None = None
  Handler = {h1, h2}
  Traffic = {"create", "webhook", "expire", "cancel"}
  MaxCrashes = 1
  FeeBps = 1000
  IntMax = 100
  PropertyOf <- MCPropertyOf
  OwnerOf <- MCOwnerOf
  CheckIn <- MCCheckIn
  CheckOut <- MCCheckOut
  Total <- MCTotal

PROPERTIES
  PendingIsResolved

CHECK_DEADLOCK FALSE
