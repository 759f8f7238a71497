----------------------------- MODULE SlotCalendar -----------------------------
(***************************************************************************)
(* Which slots a property's calendar offers (GET .../availability) and     *)
(* which it accepts (resolve_and_validate_slot), across changes of the     *)
(* clock, the passing of days, and edits of the schedule.  The two are     *)
(* computed separately: one by walking the dates and counting the tours of *)
(* the whole range, the other from the slot that is asked for.  How        *)
(* requests overlap is in TourSlots.                                       *)
(***************************************************************************)
EXTENDS CalendarRules, BagsExt, Bags

VARIABLES
  now,
  calendar,  \* the schedule row
  booked     \* scheduled_at of the active tours, a bag

vars == <<now, calendar, booked>>

Init ==
  /\ now = 0
  /\ calendar = DefaultCalendar
  /\ booked = EmptyBag

-----------------------------------------------------------------------------

\* now.astimezone(tz).
ToLocal(z, u) == IF u < z.at THEN u + z.before ELSE u + z.after

\* Mutant: the offset is that of today.
ByTodaysOffset(z, l) == l - (ToLocal(z, now) - now)

\* local_to_utc.  A local time that the change of the clock skips or repeats is
\* taken by the offset before the change (fold = 0).
ToUtc(z, l) ==
  IF l < z.at + z.before \/ l < z.at + z.after THEN l - z.before ELSE l - z.after

Today == ToLocal(calendar.zone, now) \div DayLength

InstantOf(d, t) == ToUtc(calendar.zone, d * DayLength + t)

\* slot_times_for_date: each range of the weekday, cut into whole slots.
SlotTimes(d) ==
  UNION {{r[1] + k * calendar.step : k \in 0..((r[2] - r[1]) \div calendar.step - 1)} :
           r \in calendar.hours[d % Week]}

\* _date_in_window.
DateInWindow(d) ==
  /\ d \notin calendar.blackout
  /\ Today <= d /\ d <= Today + calendar.advance

InNotice(u) == u <= now + calendar.notice

\* _active_counts, between two instants.
ActiveCount(u, start, end) ==
  IF BagIn(u, booked) /\ start <= u /\ u < end THEN booked[u] ELSE 0

\* availability.
Availability(from, to) ==
  LET start == InstantOf(from, 0)
      end == InstantOf(to + 1, 0)
      room(u) == calendar.capacity - ActiveCount(u, start, end)
      open == {s \in (from..to) \X (0..(DayLength - 1)) :
                 /\ DateInWindow(s[1])
                 /\ s[2] \in SlotTimes(s[1])
                 /\ ~ InNotice(InstantOf(s[1], s[2]))}
  IN {[date |-> s[1], time |-> s[2], at |-> InstantOf(s[1], s[2]),
       available |-> IF room(InstantOf(s[1], s[2])) > 0 THEN room(InstantOf(s[1], s[2])) ELSE 0] :
        s \in open}

\* resolve_and_validate_slot.
Resolves(d, t) ==
  LET u == InstantOf(d, t) IN
  /\ DateInWindow(d)
  /\ t \in SlotTimes(d)
  /\ ~ InNotice(u)
  /\ ActiveCount(u, u, u + 1) < calendar.capacity

-----------------------------------------------------------------------------

CreateTour(d, t) ==
  /\ Resolves(d, t)
  /\ BagCardinality(booked) < MaxTours
  /\ booked' = BagAdd(booked, InstantOf(d, t))
  /\ UNCHANGED <<now, calendar>>

CancelTour(u) ==
  /\ BagIn(u, booked)
  /\ booked' = BagRemove(booked, u)
  /\ UNCHANGED <<now, calendar>>

\* Tours keep the instants that they were booked for.
UpdateSchedule(c) ==
  /\ calendar' = c
  /\ UNCHANGED <<now, booked>>

Tick ==
  /\ now < Horizon
  /\ now' = now + 1
  /\ UNCHANGED <<calendar, booked>>

Next ==
  \/ \E d \in Today..(Today + calendar.advance), t \in 0..(DayLength - 1) : CreateTour(d, t)
  \/ \E u \in BagToSet(booked) : CancelTour(u)
  \/ \E c \in Calendars : UpdateSchedule(c)
  \/ Tick

Spec == Init /\ [][Next]_vars
-----------------------------------------------------------------------------
TypeOK ==
  /\ now \in 0..Horizon
  /\ calendar \in CalendarRow
  /\ IsABag(booked) /\ BagToSet(booked) \subseteq Int

\* A local time that the wall clock never shows.
Skipped(d, t) ==
  LET z == calendar.zone
      l == d * DayLength + t
  IN z.at + z.before <= l /\ l < z.at + z.after

\* What the calendar shows as free is accepted, and nothing else, whichever
\* range of dates was asked for; the wall clock shows the date and the time at
\* the instant of the tour; and no two slots are one instant.  Slots at times
\* that the wall clock skips are left out.
OfferedIsBookable ==
  LET last == Today + calendar.advance IN
  \A from \in (Today - 1)..(last + 1) : \A to \in from..(last + 1) :
    LET slots == {s \in Availability(from, to) : ~ Skipped(s.date, s.time)}
        free == {<<s.date, s.time>> : s \in {x \in slots : x.available > 0}}
    IN
    /\ free = {s \in (from..to) \X (0..(DayLength - 1)) :
                 ~ Skipped(s[1], s[2]) /\ Resolves(s[1], s[2])}
    /\ \A s \in slots :
         /\ ToLocal(calendar.zone, s.at) = s.date * DayLength + s.time
         /\ \A r \in slots : r.at = s.at => r = s
=============================================================================
