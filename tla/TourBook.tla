------------------------------ MODULE TourBook ------------------------------
(***************************************************************************)
(* What the tour desk promises when its handlers run one at a time: every  *)
(* operation is one atomic step on the committed rows.  TourSlots splits   *)
(* the operations at their statements; it implements this specification as *)
(* long as no tour is cancelled while it is being confirmed or moved.      *)
(***************************************************************************)
EXTENDS TourRules

VARIABLES
  schedule,  \* the property's row of property_schedules, or NoRow
  status,    \* [Tour -> TourStatus], tours.status
  slot       \* [Tour -> Slot \cup {NoSlot}], tours.scheduled_at

vars == <<schedule, status, slot>>

Init ==
  /\ schedule \in ScheduleRow \cup {NoRow}
  /\ status = [t \in Tour |-> "NONE"]
  /\ slot = [t \in Tour |-> NoSlot]

\* get_or_create_schedule
Row == IF schedule = NoRow THEN Default ELSE schedule

Taken(s) == {t \in Tour : status[t] \in Active /\ slot[t] = s}

\* resolve_and_validate_slot
HasRoom(s) == s \in Row.open /\ Cardinality(Taken(s)) < Row.capacity

Book(t, s) ==
  /\ status[t] = "NONE"
  /\ HasRoom(s)
  /\ schedule' = Row
  /\ status' = [status EXCEPT ![t] = IF Row.auto THEN "CONFIRMED" ELSE "PENDING"]
  /\ slot' = [slot EXCEPT ![t] = s]

\* patch_tour: a tour is counted in the slot it leaves, also if it returns.
Move(t, s) ==
  /\ status[t] \in Active
  /\ HasRoom(s)
  /\ schedule' = Row
  /\ slot' = [slot EXCEPT ![t] = s]
  /\ UNCHANGED status

Confirm(t) ==
  /\ status[t] = "PENDING"
  /\ status' = [status EXCEPT ![t] = "CONFIRMED"]
  /\ UNCHANGED <<schedule, slot>>

Cancel(t) ==
  /\ status[t] \in Active
  /\ status' = [status EXCEPT ![t] = "CANCELLED"]
  /\ UNCHANGED <<schedule, slot>>

\* update_schedule leaves the tours alone, whatever the new row allows.
EditSchedule(e) ==
  /\ schedule' = e
  /\ UNCHANGED <<status, slot>>

Next ==
  \/ \E t \in Tour, s \in Slot : Book(t, s) \/ Move(t, s)
  \/ \E t \in Tour : Confirm(t) \/ Cancel(t)
  \/ \E e \in ScheduleRow : EditSchedule(e)

Spec == Init /\ [][Next]_vars
=============================================================================
