---------------------------- MODULE CalendarRules ----------------------------
(***************************************************************************)
(* What the calendar of a property's tours is made of.  Times are numbers  *)
(* of units: an instant counts them in UTC, a local time on the wall clock *)
(* of the property; the date of a local time is its quotient by the length *)
(* of a day.                                                               *)
(***************************************************************************)
EXTENDS Integers

CONSTANTS
  DayLength,        \* units of a day
  Week,             \* days of a week
  Calendars,        \* rows of property_schedules
  DefaultCalendar,  \* the row that is created first
  Horizon,          \* bound on the clock
  MaxTours          \* bound on the tours that are held at once

\* A zone changes its clocks once, at an instant, from an offset to another.
\* hours are the ranges that are open on each weekday.
CalendarRow ==
  [zone : [at : Int, before : Int, after : Int],
   step : Nat \ {0},
   hours : [0..(Week - 1) -> SUBSET ((0..(DayLength - 1)) \X (0..(DayLength - 1)))],
   blackout : SUBSET Int,
   advance : Nat \ {0},
   notice : Nat,
   capacity : Nat \ {0}]

ASSUME CalendarAssumption ==
  /\ {DayLength, Week} \subseteq Nat \ {0}
  /\ {Horizon, MaxTours} \subseteq Nat
  /\ Calendars \subseteq CalendarRow
  /\ DefaultCalendar \in Calendars
=============================================================================
