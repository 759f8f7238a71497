SPECIFICATION CalmSpec

CONSTANTS
  s1 = s1
  s2 = s2
  Tour = {t1, t2}
  Slot = {s1, s2}
  Handler = {h1, h2}
  Traffic = {"create", "move", "confirm", "guest_cancel", "edit"}
  Late = {}
  Capacities = {1, 2}
  DefaultCapacity = 1
  Openings <- OneOrBothOpen
  DefaultOpen <- MCDefaultOpen
  NoRow = NoRow
  NoTour = NoTour
  NoSlot = NoSlot

PROPERTIES
  BookedAsOffered
  ImplementsTourBook

SYMMETRY Symmetry

CHECK_DEADLOCK FALSE
