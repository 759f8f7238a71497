SPECIFICATION FairSpec

CONSTANTS
  s1 = s1
  s2 = s2
  Tour = {t1}
  Slot = {s1, s2}
  Handler = {h1, h2}
  Traffic = {"create", "move", "note", "confirm", "cancel", "guest_cancel", "edit"}
  Late = {s2}
  Capacities = {1}
  DefaultCapacity = 1
  Openings <- BothOpen
  DefaultOpen <- MCDefaultOpen
  NoRow = NoRow
  NoTour = NoTour
  NoSlot = NoSlot

PROPERTIES
  ConfirmedByStaff
  RequestsFinish

CHECK_DEADLOCK FALSE
