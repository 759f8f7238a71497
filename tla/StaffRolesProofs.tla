-------------------------- MODULE StaffRolesProofs --------------------------
(***************************************************************************)
(* The last-admin guard, for any number of people and of overlapping       *)
(* requests.                                                               *)
(***************************************************************************)
EXTENDS StaffRoles, TLAPS

-----------------------------------------------------------------------------
(* The inductive invariant.                                                *)

\* The session of h has the row of its target.
HasRow(h) == pc[h] \in {"count", "commit"} \/ (pc[h] = "load" /\ req[h].self)

\* A loaded row exists, and an invitation is for staff.
LoadedOK ==
  \A h \in Handler :
    /\ HasRow(h) => Joined(req[h].target)
    /\ pc[h] = "invite" => req[h].change \in StaffRole

\* What was loaded is the row as committed, while nothing else is.
SeenOK ==
  \A h \in Handler : HasRow(h) /\ req[h].fresh =>
    /\ req[h].role = role[req[h].target]
    /\ req[h].active = active[req[h].target]

\* The admin who was counted is still there.
CountedOK ==
  \A h \in Handler :
    /\ pc[h] = "commit"
    /\ req[h].fresh
    /\ TakesAdmin(req[h].change, req[h].role, req[h].active)
    => OtherAdmins(req[h].target) # {}

IInv == TypeOK /\ LoadedOK /\ SeenOK /\ CountedOK

\* KeepsAdmin and ChangeTakesHold, of one step.
AdminKept ==
  \A h \in Handler :
    CommitChange(h) /\ req[h].fresh /\ Admins # {} => Admins' # {}

ChangeHolds ==
  \A h \in Handler :
    CommitChange(h) /\ req[h].fresh =>
      LET p == req[h].target
          c == req[h].change
      IN IF c \in Roles THEN role'[p] = c ELSE active'[p] = (c = "activate")

-----------------------------------------------------------------------------

\* An idle handler's request is one.
LEMMA NoRequestType == NoRequest \in Request
  BY StaffRulesAssumption DEF NoRequest, Request, Change, Roles

\* The rows at the start.
LEMMA InitIInv == Init => IInv
  <1>. SUFFICES ASSUME Init PROVE IInv
    OBVIOUS
  <1>1. TypeOK
    BY NoRequestType DEF Init, TypeOK, Roles, Steps
  <1>2. LoadedOK /\ SeenOK /\ CountedOK
    BY DEF Init, LoadedOK, SeenOK, CountedOK, HasRow
  <1>. QED BY <1>1, <1>2 DEF IInv

\* A request that ends without a commit changes nothing for the others.
LEMMA FinishKeeps ==
  ASSUME IInv, NEW h \in Handler, Finish(h), UNCHANGED rows
  PROVE  IInv'
  <1>1. /\ pc' = [pc EXCEPT ![h] = "idle"]
        /\ req' = [req EXCEPT ![h] = NoRequest]
        /\ role' = role /\ active' = active /\ audit' = audit
    BY DEF Finish, Goto, rows
  <1>2. TypeOK'
    BY <1>1, NoRequestType DEF IInv, TypeOK, Steps
  <1>3. ASSUME NEW g \in Handler
        PROVE  pc'[g] = "idle" \/ (pc'[g] = pc[g] /\ req'[g] = req[g])
    BY <1>1 DEF IInv, TypeOK
  <1>4. LoadedOK'
    BY <1>1, <1>3 DEF IInv, LoadedOK, HasRow, Joined
  <1>5. SeenOK'
    BY <1>1, <1>3 DEF IInv, SeenOK, HasRow
  <1>6. CountedOK'
    BY <1>1, <1>3 DEF IInv, CountedOK, OtherAdmins, Admins, TakesAdmin
  <1>. QED BY <1>2, <1>4, <1>5, <1>6 DEF IInv

\* After a commit nobody's reads count as fresh, so there is only to see that
\* accounts stay.
LEMMA CommitKeeps ==
  ASSUME IInv, NEW h \in Handler, FinishOverOthers(h),
         role' \in [Person -> Roles \cup {"NONE"}],
         active' \in [Person -> BOOLEAN],
         audit' \subseteq Person,
         \A p \in Person : Joined(p) => role'[p] # "NONE"
  PROVE  IInv'
  <1>1. /\ pc' = [pc EXCEPT ![h] = "idle"]
        /\ req' = [g \in Handler |-> IF g = h THEN NoRequest
                                              ELSE [req[g] EXCEPT !.fresh = FALSE]]
    BY DEF FinishOverOthers, Goto
  <1>2. ASSUME NEW g \in Handler
        PROVE  /\ req'[g] \in Request
               /\ \/ pc'[g] = "idle"
                  \/ /\ pc'[g] = pc[g]
                     /\ req'[g].fresh = FALSE
                     /\ req'[g].target = req[g].target
                     /\ req'[g].self = req[g].self
                     /\ req'[g].change = req[g].change
    <2>1. req[g] \in Request
      BY DEF IInv, TypeOK
    <2>2. [req[g] EXCEPT !.fresh = FALSE] \in Request
      BY <2>1 DEF Request
    <2>. QED BY <1>1, <2>1, <2>2, NoRequestType DEF IInv, TypeOK, Request
  <1>3. TypeOK'
    BY <1>1, <1>2 DEF IInv, TypeOK, Steps
  <1>4. LoadedOK'
    <2>. SUFFICES ASSUME NEW g \in Handler
                  PROVE  /\ HasRow(g)' => Joined(req[g].target)'
                         /\ pc'[g] = "invite" => req'[g].change \in StaffRole
      BY DEF LoadedOK
    <2>1. req[g].target \in Person
      BY DEF IInv, TypeOK, Request
    <2>. QED BY <1>2, <2>1 DEF IInv, LoadedOK, HasRow, Joined
  <1>5. SeenOK' /\ CountedOK'
    BY <1>2 DEF SeenOK, CountedOK, HasRow
  <1>. QED BY <1>3, <1>4, <1>5 DEF IInv

\* h goes on with request r at step s; the rows stay.
LEMMA GoOnKeeps ==
  ASSUME IInv, NEW h \in Handler, NEW r \in Request, NEW s \in Steps,
         pc' = [pc EXCEPT ![h] = s], req' = [req EXCEPT ![h] = r], UNCHANGED rows,
         s \in {"count", "commit"} \/ (s = "load" /\ r.self) =>
           /\ Joined(r.target)
           /\ r.fresh => r.role = role[r.target] /\ r.active = active[r.target],
         s = "invite" => r.change \in StaffRole,
         s = "commit" /\ r.fresh /\ TakesAdmin(r.change, r.role, r.active) =>
           OtherAdmins(r.target) # {}
  PROVE  IInv'
  <1>1. role' = role /\ active' = active /\ audit' = audit
    BY DEF rows
  <1>2. /\ pc'[h] = s /\ req'[h] = r
        /\ \A g \in Handler \ {h} : pc'[g] = pc[g] /\ req'[g] = req[g]
    BY DEF IInv, TypeOK
  <1>3. TypeOK'
    BY <1>1 DEF IInv, TypeOK
  <1>4. LoadedOK'
    BY <1>1, <1>2 DEF IInv, LoadedOK, HasRow, Joined
  <1>5. SeenOK'
    BY <1>1, <1>2 DEF IInv, SeenOK, HasRow
  <1>6. CountedOK'
    BY <1>1, <1>2 DEF IInv, CountedOK, OtherAdmins, Admins, TakesAdmin
  <1>. QED BY <1>3, <1>4, <1>5, <1>6 DEF IInv

-----------------------------------------------------------------------------
(* The actions.                                                            *)

LEMMA AuthorizeKeeps ==
  ASSUME IInv, NEW h \in Handler, NEW a \in Person, NEW p \in Person, NEW c \in Change,
         Authorize(h, a, p, c)
  PROVE  IInv'
  <1>. DEFINE r == [target |-> p, self |-> a = p, change |-> c,
                    role |-> "admin", active |-> TRUE, fresh |-> TRUE]
  <1>1. r \in Request
    BY DEF Request, Roles
  <1>2. /\ pc' = [pc EXCEPT ![h] = "load"]
        /\ req' = [req EXCEPT ![h] = r]
        /\ UNCHANGED rows
    BY DEF Authorize, Goto
  <1>3. r.self => Joined(r.target) /\ r.role = role[r.target] /\ r.active = active[r.target]
    BY DEF Authorize, Admins, Joined, IInv, TypeOK
  <1>4. "load" \in Steps
    BY DEF Steps
  <1>. HIDE DEF r
  <1>. QED BY <1>1, <1>2, <1>3, <1>4, GoOnKeeps

LEMMA LoadUserKeeps ==
  ASSUME IInv, NEW h \in Handler, LoadUser(h)
  PROVE  IInv'
  <1>. DEFINE p == req[h].target
              r == IF req[h].self
                     THEN req[h]
                     ELSE [req[h] EXCEPT !.role = role[p], !.active = active[p], !.fresh = TRUE]
              s == IF TakesAdmin(r.change, r.role, r.active) THEN "count" ELSE "commit"
  <1>1. req[h] \in Request /\ pc[h] = "load" /\ Joined(p)
    BY DEF LoadUser, IInv, TypeOK
  <1>2. p \in Person /\ role[p] \in Roles \cup {"NONE"} /\ active[p] \in BOOLEAN
    BY <1>1 DEF IInv, TypeOK, Request
  <1>3. r \in Request /\ r.target = p
    BY <1>1, <1>2 DEF Request
  <1>4. s \in Steps /\ s # "load" /\ s # "invite"
    BY DEF Steps
  <1>5. /\ pc' = [pc EXCEPT ![h] = s]
        /\ req' = [req EXCEPT ![h] = r]
        /\ UNCHANGED rows
    BY DEF LoadUser, Goto
  <1>6. r.fresh => r.role = role[p] /\ r.active = active[p]
    <2>1. CASE req[h].self
      BY <1>1, <2>1 DEF IInv, SeenOK, HasRow
    <2>2. CASE ~ req[h].self
      BY <1>1, <2>2 DEF Request
    <2>. QED BY <2>1, <2>2
  <1>7. ~ (s = "commit" /\ TakesAdmin(r.change, r.role, r.active))
    OBVIOUS
  <1>. HIDE DEF r, s
  <1>. QED BY <1>1, <1>3, <1>4, <1>5, <1>6, <1>7, GoOnKeeps

LEMMA CountAdminsKeeps ==
  ASSUME IInv, NEW h \in Handler, CountAdmins(h)
  PROVE  IInv'
  <1>. DEFINE r == req[h]
  <1>1. /\ pc[h] = "count"
        /\ r \in Request
        /\ OtherAdmins(r.target) # {}
        /\ pc' = [pc EXCEPT ![h] = "commit"]
        /\ UNCHANGED rows
    BY DEF CountAdmins, Goto, IInv, TypeOK
  <1>2. req' = [req EXCEPT ![h] = r]
    BY DEF CountAdmins, IInv, TypeOK
  <1>3. Joined(r.target) /\ (r.fresh => r.role = role[r.target] /\ r.active = active[r.target])
    BY <1>1 DEF IInv, LoadedOK, SeenOK, HasRow
  <1>4. "commit" \in Steps
    BY DEF Steps
  <1>. HIDE DEF r
  <1>. QED BY <1>1, <1>2, <1>3, <1>4, GoOnKeeps

LEMMA ReadForInviteKeeps ==
  ASSUME IInv, NEW h \in Handler, NEW p \in Person, NEW c \in StaffRole, ReadForInvite(h, p, c)
  PROVE  IInv'
  <1>. DEFINE r == [NoRequest EXCEPT !.target = p, !.change = c]
  <1>1. r \in Request /\ r.change = c
    BY NoRequestType DEF Request, Change, Roles, StaffRole, NoRequest
  <1>2. /\ pc' = [pc EXCEPT ![h] = "invite"]
        /\ req' = [req EXCEPT ![h] = r]
        /\ UNCHANGED rows
    BY DEF ReadForInvite, Goto
  <1>3. "invite" \in Steps
    BY DEF Steps
  <1>. HIDE DEF r
  <1>. QED BY <1>1, <1>2, <1>3, GoOnKeeps

\* What a change of role or status does to the rows.
LEMMA CommitChangeRows ==
  ASSUME IInv, NEW h \in Handler, CommitChange(h)
  PROVE  /\ req[h].target \in Person
         /\ role' \in [Person -> Roles \cup {"NONE"}]
         /\ active' \in [Person -> BOOLEAN]
         /\ audit' \subseteq Person
         /\ \A p \in Person : Joined(p) => role'[p] # "NONE"
         /\ \A p \in Person \ {req[h].target} : role'[p] = role[p] /\ active'[p] = active[p]
  <1>1. req[h] \in Request
    BY DEF IInv, TypeOK
  <1>. DEFINE p == req[h].target
              c == req[h].change
  <1>2. p \in Person /\ c \in Change
    BY <1>1 DEF Request
  <1>3. \/ role' = role
        \/ c \in Roles /\ role' = [role EXCEPT ![p] = c]
    BY DEF CommitChange
  <1>4. \/ active' = active
        \/ active' = [active EXCEPT ![p] = (c = "activate")]
    BY DEF CommitChange
  <1>5. audit' = audit \cup {p}
    BY DEF CommitChange
  <1>. HIDE DEF p, c
  <1>6. /\ role' \in [Person -> Roles \cup {"NONE"}]
        /\ \A q \in Person : Joined(q) => role'[q] # "NONE"
        /\ \A q \in Person \ {p} : role'[q] = role[q]
    BY <1>2, <1>3 DEF IInv, TypeOK, Roles, Joined
  <1>7. /\ active' \in [Person -> BOOLEAN]
        /\ \A q \in Person \ {p} : active'[q] = active[q]
    BY <1>2, <1>4 DEF IInv, TypeOK
  <1>. QED BY <1>2, <1>5, <1>6, <1>7 DEF IInv, TypeOK, p

LEMMA CommitChangeKeeps ==
  ASSUME IInv, NEW h \in Handler, CommitChange(h)
  PROVE  IInv'
  <1>1. FinishOverOthers(h)
    BY DEF CommitChange
  <1>. QED BY <1>1, CommitChangeRows, CommitKeeps

\* The row of p becomes that of an active user with role c.
LEMMA JoinRows ==
  ASSUME IInv, NEW p \in Person, NEW c \in Roles,
         role' = [role EXCEPT ![p] = c],
         active' = [active EXCEPT ![p] = TRUE] \/ active' = active
  PROVE  /\ role' \in [Person -> Roles \cup {"NONE"}]
         /\ active' \in [Person -> BOOLEAN]
         /\ \A q \in Person : Joined(q) => role'[q] # "NONE"
  BY DEF IInv, TypeOK, Roles, Joined

LEMMA CommitInviteKeeps ==
  ASSUME IInv, NEW h \in Handler, CommitInvite(h)
  PROVE  IInv'
  <1>. DEFINE p == req[h].target
              c == req[h].change
  <1>1. p \in Person /\ c \in Roles
    BY DEF CommitInvite, IInv, TypeOK, LoadedOK, Request, StaffRole, Roles
  <1>2. /\ role' = [role EXCEPT ![p] = c]
        /\ active' = [active EXCEPT ![p] = TRUE]
        /\ audit' = audit \cup {p}
        /\ FinishOverOthers(h)
    BY DEF CommitInvite
  <1>3. audit' \subseteq Person
    BY <1>1, <1>2 DEF IInv, TypeOK
  <1>. HIDE DEF p, c
  <1>. QED BY <1>1, <1>2, <1>3, JoinRows, CommitKeeps

LEMMA SignUpKeeps ==
  ASSUME IInv, NEW p \in Person, SignUp(p)
  PROVE  IInv'
  <1>1. /\ role[p] = "NONE"
        /\ role' = [role EXCEPT ![p] = "user"]
        /\ active' = [active EXCEPT ![p] = TRUE]
        /\ audit' = audit /\ pc' = pc /\ req' = req
    BY DEF SignUp, Joined
  <1>2. "user" \in Roles
    BY DEF Roles
  <1>3. TypeOK'
    BY <1>1, <1>2, JoinRows DEF IInv, TypeOK
  <1>4. LoadedOK'
    BY <1>1, <1>2, JoinRows DEF IInv, TypeOK, Request, LoadedOK, HasRow, Joined
  <1>5. \A q \in Person : Joined(q) => role'[q] = role[q] /\ active'[q] = active[q]
    BY <1>1 DEF IInv, TypeOK, Joined
  <1>6. SeenOK'
    BY <1>1, <1>5 DEF IInv, LoadedOK, SeenOK, HasRow, TypeOK, Request
  <1>7. Admins \subseteq Admins'
    BY <1>5 DEF Admins, Joined
  <1>8. CountedOK'
    BY <1>1, <1>7 DEF IInv, CountedOK, OtherAdmins, TakesAdmin
  <1>. QED BY <1>3, <1>4, <1>6, <1>8 DEF IInv

LEMMA GrantRoleKeeps ==
  ASSUME IInv, NEW p \in Person, NEW r \in Roles, GrantRole(p, r)
  PROVE  IInv'
  <1>1. /\ role' = [role EXCEPT ![p] = r]
        /\ active' = active /\ audit' = audit /\ pc' = pc
        /\ req' = [g \in Handler |-> [req[g] EXCEPT !.fresh = FALSE]]
    BY DEF GrantRole
  <1>2. r \in Roles
    OBVIOUS
  <1>3. ASSUME NEW g \in Handler
        PROVE  /\ req'[g] \in Request
               /\ req'[g].fresh = FALSE
               /\ req'[g].target = req[g].target
               /\ req'[g].self = req[g].self
               /\ req'[g].change = req[g].change
    <2>1. req[g] \in Request
      BY DEF IInv, TypeOK
    <2>2. [req[g] EXCEPT !.fresh = FALSE] \in Request
      BY <2>1 DEF Request
    <2>. QED BY <1>1, <2>1, <2>2 DEF Request
  <1>4. TypeOK'
    BY <1>1, <1>2, <1>3, JoinRows DEF IInv, TypeOK
  <1>5. LoadedOK'
    <2>. SUFFICES ASSUME NEW g \in Handler
                  PROVE  /\ HasRow(g)' => Joined(req[g].target)'
                         /\ pc'[g] = "invite" => req'[g].change \in StaffRole
      BY DEF LoadedOK
    <2>1. req[g].target \in Person
      BY DEF IInv, TypeOK, Request
    <2>. QED BY <1>1, <1>2, <1>3, <2>1, JoinRows DEF IInv, LoadedOK, HasRow, Joined
  <1>6. SeenOK' /\ CountedOK'
    BY <1>3 DEF SeenOK, CountedOK, HasRow
  <1>. QED BY <1>4, <1>5, <1>6 DEF IInv

-----------------------------------------------------------------------------
(* The two properties of a step.                                           *)

\* While its reads are fresh, a request that takes an admin away leaves the one
\* it counted, and one that does not leaves its target an admin if it was one.
LEMMA AdminIsKept ==
  ASSUME IInv, NEW h \in Handler, CommitChange(h), req[h].fresh, Admins # {}
  PROVE  Admins' # {}
  <1>. DEFINE p == req[h].target
              c == req[h].change
  <1>1. /\ p \in Person /\ c \in Change
        /\ req[h].role = role[p] /\ req[h].active = active[p]
    <2>1. pc[h] = "commit" /\ req[h] \in Request
      BY DEF CommitChange, IInv, TypeOK
    <2>. QED BY <2>1 DEF IInv, SeenOK, HasRow, Request
  <1>2. ASSUME NEW q \in Admins, q # p
        PROVE  q \in Admins'
    BY <1>2, CommitChangeRows DEF Admins
  <1>3. CASE TakesAdmin(c, role[p], active[p])
    <2>1. OtherAdmins(p) # {}
      BY <1>1, <1>3 DEF IInv, CountedOK, CommitChange
    <2>. QED BY <1>2, <2>1 DEF OtherAdmins
  <1>4. CASE ~ TakesAdmin(c, role[p], active[p])
    <2>1. PICK q \in Admins : TRUE
      OBVIOUS
    <2>2. CASE q # p
      BY <1>2, <2>1, <2>2
    <2>3. CASE q = p
      <3>1. role[p] = "admin" /\ active[p] /\ c \in {"admin", "activate"}
        BY <1>1, <1>4, <2>1, <2>3 DEF TakesAdmin, Admins, Change, Roles
      <3>2. role'[p] = "admin" /\ active'[p]
        BY <1>1, <3>1 DEF CommitChange, Roles, IInv, TypeOK
      <3>. QED BY <1>1, <3>2 DEF Admins
    <2>. QED BY <2>2, <2>3
  <1>. QED BY <1>3, <1>4

LEMMA ChangeIsHeld ==
  ASSUME IInv, NEW h \in Handler, CommitChange(h), req[h].fresh
  PROVE  IF req[h].change \in Roles
           THEN role'[req[h].target] = req[h].change
           ELSE active'[req[h].target] = (req[h].change = "activate")
  <1>. DEFINE p == req[h].target
              c == req[h].change
  <1>1. /\ p \in Person
        /\ req[h].role = role[p] /\ req[h].active = active[p]
        /\ active[p] \in BOOLEAN
    <2>1. pc[h] = "commit" /\ req[h] \in Request
      BY DEF CommitChange, IInv, TypeOK
    <2>. QED BY <2>1 DEF IInv, TypeOK, SeenOK, HasRow, Request
  <1>2. CASE c \in Roles
    BY <1>1, <1>2 DEF CommitChange, IInv, TypeOK
  <1>3. CASE c \notin Roles
    <2>1. active' = IF (c = "activate") # active[p]
                      THEN [active EXCEPT ![p] = (c = "activate")] ELSE active
      BY <1>1, <1>3 DEF CommitChange
    <2>2. active'[p] = (c = "activate")
      BY <1>1, <2>1 DEF IInv, TypeOK
    <2>. QED BY <1>3, <2>2
  <1>. QED BY <1>2, <1>3

-----------------------------------------------------------------------------
(* The theorems.                                                           *)

LEMMA NextIInv ==
  ASSUME IInv, [Next]_vars
  PROVE  IInv' /\ (AdminKept /\ ChangeHolds)
  <1>1. AdminKept /\ ChangeHolds
    BY AdminIsKept, ChangeIsHeld DEF AdminKept, ChangeHolds
  <1>2. ASSUME NEW h \in Handler, NEW a \in Person, NEW p \in Person, NEW c \in Change,
               Authorize(h, a, p, c)
        PROVE  IInv'
    BY <1>2, AuthorizeKeeps
  <1>3. ASSUME NEW h \in Handler, NEW p \in Person, NEW r \in StaffRole, ReadForInvite(h, p, r)
        PROVE  IInv'
    BY <1>3, ReadForInviteKeeps
  <1>4. ASSUME NEW h \in Handler,
               UserNotFound(h) \/ LastAdmin(h) \/ AlreadyJoined(h) \/ Crash(h)
        PROVE  IInv'
    BY <1>4, FinishKeeps DEF UserNotFound, LastAdmin, AlreadyJoined, Crash
  <1>5. ASSUME NEW h \in Handler,
               LoadUser(h) \/ CountAdmins(h) \/ CommitChange(h) \/ CommitInvite(h)
        PROVE  IInv'
    BY <1>5, LoadUserKeeps, CountAdminsKeeps, CommitChangeKeeps, CommitInviteKeeps
  <1>6. ASSUME NEW p \in Person, SignUp(p) \/ \E r \in Roles : GrantRole(p, r)
        PROVE  IInv'
    BY <1>6, SignUpKeeps, GrantRoleKeeps
  <1>7. CASE UNCHANGED vars
    <2>1. role' = role /\ active' = active /\ audit' = audit /\ pc' = pc /\ req' = req
      BY <1>7 DEF vars
    <2>2. TypeOK' /\ LoadedOK'
      BY <2>1 DEF IInv, TypeOK, LoadedOK, HasRow, Joined
    <2>3. SeenOK'
      BY <2>1 DEF IInv, SeenOK, HasRow
    <2>4. CountedOK'
      BY <2>1 DEF IInv, CountedOK, OtherAdmins, Admins, TakesAdmin
    <2>. QED BY <1>1, <2>2, <2>3, <2>4 DEF IInv
  <1>. QED BY <1>1, <1>2, <1>3, <1>4, <1>5, <1>6, <1>7 DEF Next

\* The inductive invariant holds in every reachable state.
THEOREM Invariant == Spec => []IInv
  BY InitIInv, NextIInv, PTL DEF Spec

\* An active admin remains after every change that no other change races.
THEOREM AdminRemains == Spec => KeepsAdmin
  BY Invariant, NextIInv, PTL DEF Spec, KeepsAdmin, AdminKept

\* A change that is answered 200 is in force, unless another one raced it.
THEOREM ChangeInForce == Spec => ChangeTakesHold
  BY Invariant, NextIInv, PTL DEF Spec, ChangeTakesHold, ChangeHolds
=============================================================================
