---------------------------- MODULE ServiceRules ----------------------------
(***************************************************************************)
(* What the smaller components share: the sessions that serve requests,    *)
(* and a bounded clock.                                                    *)
(***************************************************************************)
EXTENDS Naturals, FiniteSets

CONSTANTS
  Handler,  \* database sessions that can be open at once
  MaxTime,  \* bound on the clock
  NoRow,    \* a key without a row
  Unset     \* a column that is NULL, a field that is not sent

Time == 0..MaxTime
=============================================================================
