----------------------------- MODULE StaffRules -----------------------------
(***************************************************************************)
(* What staff accounts and attendance records are made of.                 *)
(***************************************************************************)
EXTENDS ServiceRules

CONSTANTS
  Person,       \* the people who have or get an account
  Founder,      \* the admin that scripts/grant_role.py has set up
  Employee,     \* the people who clock in
  Session,      \* primary keys of staff_attendance
  Limit,        \* ATTENDANCE_AUTO_CLOSE_HOURS
  Corrections   \* times that admins enter

ASSUME StaffRulesAssumption ==
  /\ Founder \in Person
  /\ Employee \subseteq Person
  /\ Limit \in Nat \ {0}
  /\ MaxTime \in Nat
  /\ Corrections \subseteq Time
  /\ Unset \notin Nat

Roles == {"user", "agent", "admin"}
StaffRole == {"agent", "admin"}
Change == Roles \cup {"activate", "deactivate"}

Row == [user : Employee, in : Time, out : Nat \cup {Unset},
        minutes : Nat \cup {Unset}, auto : BOOLEAN]

ASSUME NoRowAssumption == NoRow \notin Row
=============================================================================
