------------------------------ MODULE TourRules ------------------------------
(***************************************************************************)
(* What the tours of one property and its schedule row are made of.        *)
(* Properties share no tour, no schedule and no lock, so one is enough.    *)
(*                                                                         *)
(* A slot is an instant (scheduled_at).  The opening hours, slot length,   *)
(* time zone, blackout dates and booking window of a schedule are seen     *)
(* through the set of slots that they open.                                *)
(***************************************************************************)
EXTENDS Integers, FiniteSets

CONSTANTS
  Tour,             \* ids of the tours ever booked
  Slot,             \* instants that some schedule opens
  Capacities,       \* values of capacity_per_slot
  Openings,         \* sets of slots a schedule may open
  DefaultCapacity,  \* PropertySchedule's column defaults
  DefaultOpen,
  NoRow,            \* there is no schedule row
  NoTour,
  NoSlot

ScheduleRow == [capacity : Capacities, auto : BOOLEAN, open : Openings]

Default == [capacity |-> DefaultCapacity, auto |-> TRUE, open |-> DefaultOpen]

TourStatus == {"NONE", "PENDING", "CONFIRMED", "CANCELLED"}

\* Only active tours fill a slot.
Active == {"PENDING", "CONFIRMED"}

\* ScheduleUpdate accepts capacities from 1 to 100.
ASSUME TourRulesAssumption ==
  /\ IsFiniteSet(Tour)
  /\ Capacities \subseteq Nat \ {0}
  /\ Openings \subseteq SUBSET Slot
  /\ DefaultCapacity \in Capacities
  /\ DefaultOpen \in Openings
  /\ NoRow \notin ScheduleRow
  /\ NoTour \notin Tour
  /\ NoSlot \notin Slot
=============================================================================
