SPECIFICATION ApartSpec

CONSTANTS
  b1 = b1
  b2 = b2
  b3 = b3
  o1 = o1
  Booking = {b1, b2}
  Owner = {o1}
  None = None
  Handler = {h1, h2}
  Traffic = {"create", "webhook", "cancel", "expire", "wallet"}
  MaxCrashes = 1
  FeeBps = 1000
  IntMax = 14
  PropertyOf <- MCPropertyOf
  OwnerOf <- MCOwnerOf
  CheckIn <- MCCheckIn
  CheckOut <- MCCheckOut
  Total <- MCTotal

SYMMETRY HandlerSymmetry

INVARIANTS
  AuditedIsCancelled
  CreditedOnce
  RunningBalance

PROPERTIES
  SuccessIsFinal
  ImplementsLedger

CHECK_DEADLOCK FALSE
