----------------------------- MODULE StaffRoles -----------------------------
(***************************************************************************)
(* PATCH /admin/users/{id}/role, PATCH /admin/users/{id}/status, the       *)
(* invitation of staff and scripts/grant_role.py, as the handlers run      *)
(* them: a request loads the user it changes, counts the other active      *)
(* admins when it takes an admin away, and writes.  Nothing is locked from *)
(* the count to the commit.                                                *)
(***************************************************************************)
EXTENDS StaffRules

VARIABLES
  role,    \* users.role, "NONE" for a person without an account
  active,  \* users.is_active
  audit,   \* the users that have an audit row
  pc,      \* the next statement of each handler
  req      \* what its session remembers

rows == <<role, active, audit>>
vars == <<role, active, audit, pc, req>>

Steps == {"idle", "load", "count", "commit", "invite"}

\* self: the caller changes its own row.  role and active are the columns as
\* loaded.  fresh is a history variable: no other change of a user has been
\* committed since.
Request ==
  [target : Person, self : BOOLEAN, change : Change,
   role : Roles \cup {"NONE"}, active : BOOLEAN, fresh : BOOLEAN]

NoRequest ==
  [target |-> Founder, self |-> FALSE, change |-> "activate",
   role |-> "NONE", active |-> FALSE, fresh |-> TRUE]

Init ==
  /\ role = [p \in Person |-> IF p = Founder THEN "admin" ELSE "NONE"]
  /\ active = [p \in Person |-> p = Founder]
  /\ audit = {}
  /\ pc = [h \in Handler |-> "idle"]
  /\ req = [h \in Handler |-> NoRequest]

-----------------------------------------------------------------------------

Joined(p) == role[p] # "NONE"

Admins == {p \in Person : role[p] = "admin" /\ active[p]}

Goto(h, step) == pc' = [pc EXCEPT ![h] = step]

Finish(h) ==
  /\ Goto(h, "idle")
  /\ req' = [req EXCEPT ![h] = NoRequest]

\* The commit of h makes the reads of every other session old.
FinishOverOthers(h) ==
  /\ Goto(h, "idle")
  /\ req' = [g \in Handler |-> IF g = h THEN NoRequest
                                        ELSE [req[g] EXCEPT !.fresh = FALSE]]

-----------------------------------------------------------------------------
(* Role and status changes.                                                *)

\* AdminUser: the caller is an active admin when the request begins.
Authorize(h, a, p, c) ==
  /\ pc[h] = "idle"
  /\ a \in Admins
  /\ Goto(h, "load")
  /\ req' = [req EXCEPT ![h] = [target |-> p, self |-> a = p, change |-> c,
                                role |-> "admin", active |-> TRUE, fresh |-> TRUE]]
  /\ UNCHANGED rows

\* What the change takes away, seen with the columns as loaded.
TakesAdmin(c, r, act) ==
  /\ r = "admin"
  /\ act
  /\ c \in {"user", "agent", "deactivate"}

\* Mutant: the row that the caller's session holds is changed.
LoadCaller(h) ==
  /\ pc[h] = "load"
  /\ Joined(req[h].target)
  /\ Goto(h, IF TakesAdmin(req[h].change, req[h].role, req[h].active)
               THEN "count" ELSE "commit")
  /\ UNCHANGED <<rows, req>>

\* get_user.  The caller's own row is already in the session, and is not read
\* again.
LoadUser(h) ==
  LET p == req[h].target
      seen == IF req[h].self
                THEN req[h]
                ELSE [req[h] EXCEPT !.role = role[p], !.active = active[p], !.fresh = TRUE]
  IN
  /\ pc[h] = "load"
  /\ Joined(p)
  /\ req' = [req EXCEPT ![h] = seen]
  /\ Goto(h, IF TakesAdmin(seen.change, seen.role, seen.active) THEN "count" ELSE "commit")
  /\ UNCHANGED rows

UserNotFound(h) ==
  /\ pc[h] = "load"
  /\ ~ Joined(req[h].target)
  /\ Finish(h)
  /\ UNCHANGED rows

\* Mutant: the user being changed is counted as well.
AllAdmins(p) == Admins

\* _other_active_admins.
OtherAdmins(p) == Admins \ {p}

CountAdmins(h) ==
  /\ pc[h] = "count"
  /\ OtherAdmins(req[h].target) # {}
  /\ Goto(h, "commit")
  /\ UNCHANGED <<rows, req>>

LastAdmin(h) ==
  /\ pc[h] = "count"
  /\ OtherAdmins(req[h].target) = {}
  /\ Finish(h)
  /\ UNCHANGED rows

\* UPDATE the column if it differs from the one loaded, INSERT the audit row,
\* commit.
CommitChange(h) ==
  LET p == req[h].target
      c == req[h].change
  IN
  /\ pc[h] = "commit"
  /\ role' = IF c \in Roles /\ c # req[h].role
               THEN [role EXCEPT ![p] = c] ELSE role
  /\ active' = IF c \notin Roles /\ (c = "activate") # req[h].active
                 THEN [active EXCEPT ![p] = (c = "activate")] ELSE active
  /\ audit' = audit \cup {p}
  /\ FinishOverOthers(h)

-----------------------------------------------------------------------------
(* POST /admin/agents/invite and POST /auth/register.                      *)

\* The address is not taken when it is looked up.
ReadForInvite(h, p, r) ==
  /\ pc[h] = "idle"
  /\ Admins # {}
  /\ ~ Joined(p)
  /\ Goto(h, "invite")
  /\ req' = [req EXCEPT ![h] = [NoRequest EXCEPT !.target = p, !.change = r]]
  /\ UNCHANGED rows

\* INSERT the user, the set-password token and the audit row, commit.
CommitInvite(h) ==
  LET p == req[h].target IN
  /\ pc[h] = "invite"
  /\ ~ Joined(p)
  /\ role' = [role EXCEPT ![p] = req[h].change]
  /\ active' = [active EXCEPT ![p] = TRUE]
  /\ audit' = audit \cup {p}
  /\ FinishOverOthers(h)

\* users.email is unique: the INSERT fails if the person has joined meanwhile.
AlreadyJoined(h) ==
  /\ pc[h] = "invite"
  /\ Joined(req[h].target)
  /\ Finish(h)
  /\ UNCHANGED rows

\* A person signs up and verifies the address.
SignUp(p) ==
  /\ ~ Joined(p)
  /\ role' = [role EXCEPT ![p] = "user"]
  /\ active' = [active EXCEPT ![p] = TRUE]
  /\ UNCHANGED <<audit, pc, req>>

-----------------------------------------------------------------------------

\* scripts/grant_role.py gives anybody any role, without a count and without an
\* audit row.
GrantRole(p, r) ==
  /\ Joined(p)
  /\ role' = [role EXCEPT ![p] = r]
  /\ req' = [g \in Handler |-> [req[g] EXCEPT !.fresh = FALSE]]
  /\ UNCHANGED <<active, audit, pc>>

Crash(h) ==
  /\ pc[h] # "idle"
  /\ Finish(h)
  /\ UNCHANGED rows

Next ==
  \/ \E h \in Handler :
       \/ \E a, p \in Person, c \in Change : Authorize(h, a, p, c)
       \/ \E p \in Person, r \in StaffRole : ReadForInvite(h, p, r)
       \/ LoadUser(h) \/ UserNotFound(h)
       \/ CountAdmins(h) \/ LastAdmin(h)
       \/ CommitChange(h)
       \/ CommitInvite(h) \/ AlreadyJoined(h)
       \/ Crash(h)
  \/ \E p \in Person : SignUp(p) \/ \E r \in Roles : GrantRole(p, r)

Spec == Init /\ [][Next]_vars
-----------------------------------------------------------------------------
TypeOK ==
  /\ role \in [Person -> Roles \cup {"NONE"}]
  /\ active \in [Person -> BOOLEAN]
  /\ audit \subseteq Person
  /\ pc \in [Handler -> Steps]
  /\ req \in [Handler -> Request]

\* "refuse if it would leave zero active admins": the guard works for a request
\* unless another change of a user is committed between its first read and its
\* commit.  That includes the loaded role (a user who became an admin meanwhile
\* is demoted without a count) as well as the count itself.
KeepsAdmin ==
  [][\A h \in Handler :
       CommitChange(h) /\ req[h].fresh /\ Admins # {} => Admins' # {}]_vars

\* A change that is answered 200 is in force when it commits, although the
\* UPDATE is left out when the loaded value was the new one already; again
\* unless another change has been committed since.
ChangeTakesHold ==
  [][\A h \in Handler :
       CommitChange(h) /\ req[h].fresh =>
         LET p == req[h].target
             c == req[h].change
         IN IF c \in Roles THEN role'[p] = c ELSE active'[p] = (c = "activate")]_vars
=============================================================================
