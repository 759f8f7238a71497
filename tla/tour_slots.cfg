SPECIFICATION Spec

CONSTANTS
  s1 = s1
  s2 = s2
  Tour = {t1, t2}
  Slot = {s1, s2}
  Handler = {h1, h2}
  Traffic = {"create", "move", "confirm", "guest_cancel"}
  Late = {s2}
  Capacities = {1, 2}
  DefaultCapacity = 1
  Openings <- BothOpen
  DefaultOpen <- MCDefaultOpen
  NoRow = NoRow
  NoTour = NoTour
  NoSlot = NoSlot

INVARIANTS
  TypeOK

PROPERTIES
  PlacedWithinCapacity

SYMMETRY Symmetry

CHECK_DEADLOCK FALSE
