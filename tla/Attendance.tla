----------------------------- MODULE Attendance -----------------------------
(***************************************************************************)
(* Clocking in and out, the correction of a record by an admin, and the    *)
(* pass that closes forgotten sessions, as the handlers run them.  Each    *)
(* loads rows of staff_attendance, computes the new columns from them and  *)
(* writes the columns that changed; no unique index backs the test for an  *)
(* open session.                                                           *)
(***************************************************************************)
EXTENDS StaffRules

VARIABLES
  now,      \* the clock
  staff,    \* users with the role agent or admin
  session,  \* the rows of staff_attendance
  pc,       \* the next statement of each handler
  req       \* what its session remembers

vars == <<now, staff, session, pc, req>>

Steps == {"idle", "insert", "save", "close", "commit_close"}

\* seen and new hold the rows of batch as loaded and as assigned since.  fresh
\* is a history variable: nothing that was read has been changed since.
Request ==
  [batch : SUBSET Session, seen : [Session -> Row \cup {NoRow}],
   new : [Session -> Row \cup {NoRow}], fresh : BOOLEAN]

Nothing == [s \in Session |-> NoRow]

NoRequest == [batch |-> {}, seen |-> Nothing, new |-> Nothing, fresh |-> TRUE]

Init ==
  /\ now = 0
  /\ staff = Employee
  /\ session = Nothing
  /\ pc = [h \in Handler |-> "idle"]
  /\ req = [h \in Handler |-> NoRequest]

-----------------------------------------------------------------------------

Exists(s) == session[s] # NoRow

IsOpen(s) == Exists(s) /\ session[s].out = Unset

\* Mutant: only sessions that have just begun count.
JustOpened(p) == {s \in Session : IsOpen(s) /\ session[s].user = p /\ session[s].in = now}

\* open_session.
OpenOf(p) == {s \in Session : IsOpen(s) /\ session[s].user = p}

\* Mutant: the difference of the two times.
Difference(from, to) == to - from

\* _minutes, max(0, ...).
Minutes(from, to) == IF to >= from THEN to - from ELSE 0

Begin(h, batch, seen, new, step) ==
  /\ pc[h] = "idle"
  /\ pc' = [pc EXCEPT ![h] = step]
  /\ req' = [req EXCEPT ![h] = [batch |-> batch, seen |-> seen, new |-> new, fresh |-> TRUE]]

Finish(h) ==
  /\ pc' = [pc EXCEPT ![h] = "idle"]
  /\ req' = [req EXCEPT ![h] = NoRequest]

\* Did g read something of the rows that h writes?  A clock-in has looked for
\* the open sessions of its user.
Reads(g, h) ==
  \/ req[g].batch \cap req[h].batch # {}
  \/ /\ pc[g] = "insert"
     /\ pc[h] = "insert"
     /\ \E s \in req[g].batch, r \in req[h].batch : req[g].new[s].user = req[h].new[r].user

\* The commit of h.
FinishOverReaders(h) ==
  /\ pc' = [pc EXCEPT ![h] = "idle"]
  /\ req' = [g \in Handler |->
               IF g = h THEN NoRequest
               ELSE [req[g] EXCEPT !.fresh = @ /\ ~ Reads(g, h)]]

\* The maintenance transaction holds the rows it has closed until its commit.
Locked(s) == \E g \in Handler : pc[g] = "commit_close" /\ s \in req[g].batch

\* An UPDATE sets the columns whose assigned value differs from the loaded one.
Written(s, seen, new) ==
  [session[s] EXCEPT
     !.in = IF new.in # seen.in THEN new.in ELSE @,
     !.out = IF new.out # seen.out THEN new.out ELSE @,
     !.minutes = IF new.minutes # seen.minutes THEN new.minutes ELSE @,
     !.auto = IF new.auto # seen.auto THEN new.auto ELSE @]

WriteBatch(h) ==
  session' = [s \in Session |->
                IF s \in req[h].batch
                  THEN Written(s, req[h].seen[s], req[h].new[s]) ELSE session[s]]

-----------------------------------------------------------------------------
(* POST /staff/clock-in                                                    *)

\* open_session finds nothing; the new row gets the time of this moment.
ReadForClockIn(h, p, s) ==
  /\ p \in staff
  /\ OpenOf(p) = {}
  /\ ~ Exists(s)
  /\ \A g \in Handler : s \notin req[g].batch
  /\ Begin(h, {s}, Nothing,
           [Nothing EXCEPT ![s] = [user |-> p, in |-> now, out |-> Unset,
                                   minutes |-> Unset, auto |-> FALSE]], "insert")
  /\ UNCHANGED <<now, staff, session>>

InsertSession(h) ==
  /\ pc[h] = "insert"
  /\ session' = [s \in Session |-> IF s \in req[h].batch THEN req[h].new[s] ELSE session[s]]
  /\ FinishOverReaders(h)
  /\ UNCHANGED <<now, staff>>

-----------------------------------------------------------------------------
(* POST /staff/clock-out and PATCH /admin/attendance/{id}                  *)

\* Load row s and assign new to it.
Load(h, s, new) ==
  Begin(h, {s}, [Nothing EXCEPT ![s] = session[s]], [Nothing EXCEPT ![s] = new], "save")

\* open_session returns one of the open rows.
ReadForClockOut(h, p, s) ==
  /\ p \in staff
  /\ s \in OpenOf(p)
  /\ Load(h, s, [session[s] EXCEPT !.out = now, !.minutes = Minutes(session[s].in, now)])
  /\ UNCHANGED <<now, staff, session>>

\* Mutant: the duration is not computed again.
CorrectedTimes(r, in, out) ==
  [r EXCEPT !.in = IF in = Unset THEN r.in ELSE in,
            !.out = IF out = Unset THEN r.out ELSE out]

\* The row after an edit: a field that is not sent keeps its column, and the
\* duration is computed again.
Corrected(r, in, out) ==
  LET i == IF in = Unset THEN r.in ELSE in
      o == IF out = Unset THEN r.out ELSE out
  IN [r EXCEPT !.in = i, !.out = o,
               !.minutes = IF o = Unset THEN Unset ELSE Minutes(i, o)]

\* "clock_out cannot precede clock_in."
ReadForEdit(h, s, in, out) ==
  LET new == Corrected(session[s], in, out) IN
  /\ Exists(s)
  /\ new.out # Unset => new.out >= new.in
  /\ Load(h, s, new)
  /\ UNCHANGED <<now, staff, session>>

\* Mutant: every column of the row is written.
SaveWholeRow(h) ==
  /\ pc[h] = "save"
  /\ \A s \in req[h].batch : ~ Locked(s)
  /\ session' = [s \in Session |-> IF s \in req[h].batch THEN req[h].new[s] ELSE session[s]]
  /\ FinishOverReaders(h)
  /\ UNCHANGED <<now, staff>>

\* Flush and commit.
Save(h) ==
  /\ pc[h] = "save"
  /\ \A s \in req[h].batch : ~ Locked(s)
  /\ WriteBatch(h)
  /\ FinishOverReaders(h)
  /\ UNCHANGED <<now, staff>>

-----------------------------------------------------------------------------
(* close_stale, within run_cleanup_once                                    *)

\* Mutant: the comparison with the cutoff is the wrong way round.
Recent == {s \in Session : IsOpen(s) /\ session[s].in + Limit > now}

Stale == {s \in Session : IsOpen(s) /\ session[s].in + Limit < now}

\* Mutant: closed at the time of the pass.
ClosedNow(r) == [r EXCEPT !.out = now, !.minutes = Limit, !.auto = TRUE]

Closed(r) == [r EXCEPT !.out = r.in + Limit, !.minutes = Limit, !.auto = TRUE]

ReadStale(h) ==
  /\ Stale # {}
  /\ Begin(h, Stale,
           [s \in Session |-> IF s \in Stale THEN session[s] ELSE NoRow],
           [s \in Session |-> IF s \in Stale THEN Closed(session[s]) ELSE NoRow], "close")
  /\ UNCHANGED <<now, staff, session>>

\* UPDATE; then the same transaction goes on with the bookings.
FlushClose(h) ==
  /\ pc[h] = "close"
  /\ \A s \in req[h].batch : ~ Locked(s)
  /\ pc' = [pc EXCEPT ![h] = "commit_close"]
  /\ UNCHANGED <<now, staff, session, req>>

CommitClose(h) ==
  /\ pc[h] = "commit_close"
  /\ WriteBatch(h)
  /\ FinishOverReaders(h)
  /\ UNCHANGED <<now, staff>>

-----------------------------------------------------------------------------

Crash(h) ==
  /\ pc[h] # "idle"
  /\ Finish(h)
  /\ UNCHANGED <<now, staff, session>>

Tick ==
  /\ now < MaxTime
  /\ now' = now + 1
  /\ UNCHANGED <<staff, session, pc, req>>

\* An admin changes a role: who is no longer staff cannot clock out.
Dismiss(p) ==
  /\ p \in staff
  /\ staff' = staff \ {p}
  /\ UNCHANGED <<now, session, pc, req>>

Arrive(h) ==
  \/ \E p \in Employee, s \in Session : ReadForClockIn(h, p, s) \/ ReadForClockOut(h, p, s)
  \/ \E s \in Session, in, out \in Corrections \cup {Unset} : ReadForEdit(h, s, in, out)
  \/ ReadStale(h)

Next ==
  \/ \E h \in Handler :
       \/ Arrive(h)
       \/ InsertSession(h) \/ Save(h)
       \/ FlushClose(h) \/ CommitClose(h)
       \/ Crash(h)
  \/ Tick
  \/ \E p \in Employee : Dismiss(p)

Spec == Init /\ [][Next]_vars

\* The maintenance loop comes round for ever, and not every pass of it fails
\* (cleanup_loop survives the ones that do); time passes.  Users and admins may
\* stop at any point.
Fairness ==
  /\ SF_vars(\E h \in Handler : ReadStale(h))
  /\ \A h \in Handler :
       /\ SF_vars(Save(h))
       /\ SF_vars(FlushClose(h))
       /\ SF_vars(CommitClose(h))
  /\ WF_vars(Tick)
-----------------------------------------------------------------------------
TypeOK ==
  /\ now \in Time
  /\ staff \subseteq Employee
  /\ session \in [Session -> Row \cup {NoRow}]
  /\ pc \in [Handler -> Steps]
  /\ req \in [Handler -> Request]

\* A record has a duration exactly when it is closed, whatever corrections,
\* clock-outs and passes overlap on it.
ClosedHasDuration ==
  \A s \in Session :
    Exists(s) => (session[s].out # Unset <=> session[s].minutes # Unset)

\* A closed session is never opened again, and an automatic close stays marked:
\* nobody writes back an end that was NULL when it was read.
ClosedStaysClosed ==
  [][\A s \in Session :
       Exists(s) /\ ~ IsOpen(s) =>
         /\ ~ IsOpen(s)'
         /\ session[s].auto => session'[s].auto]_vars

\* "one open session per user": a clock-in leaves its user with one open
\* session unless another clock-in of the user was committed after it looked.
OneOpenSession ==
  [][\A h \in Handler :
       InsertSession(h) /\ req[h].fresh =>
         \A s \in req[h].batch, p \in Employee :
           p = req[h].new[s].user => OpenOf(p)' = {s}]_vars

\* "correct a record (recomputes duration)", and ATTENDANCE_AUTO_CLOSE_HOURS:
\* unless a row changed after it was read, what is written agrees with itself,
\* and a session that was closed automatically lasted Limit and was over.
DurationMatches ==
  [][\A h \in Handler :
       (Save(h) \/ CommitClose(h)) /\ req[h].fresh =>
         \A s \in req[h].batch :
           LET r == session'[s] IN
           /\ r.out # Unset => r.minutes = Minutes(r.in, r.out)
           /\ CommitClose(h) => r.minutes = Limit /\ r.out < now]_vars

\* A forgotten session is closed in the end, even if its user is no longer
\* staff, as long as it began long enough before the bound on the clock.
ForgottenIsClosed ==
  \A s \in Session :
    IsOpen(s) ~> ~ IsOpen(s) \/ session[s].in + Limit >= MaxTime
=============================================================================
