SPECIFICATION Spec

CONSTANTS
  b1 = b1
  b2 = b2
  b3 = b3
  o1 = o1
  Booking = {b1, b2}
  Owner = {o1}
  None = None
  Handler = {h1}
  Traffic = {"create", "webhook"}
  MaxCrashes = 0
  FeeBps = 1000
  IntMax = 100
  PropertyOf <- MCPropertyOf
  OwnerOf <- MCOwnerOf
  CheckIn <- MCCheckIn
  CheckOut <- MCCheckOut
  Total <- MCTotal

INVARIANTS
  NoDoubleBooking

CHECK_DEADLOCK FALSE
