-------------------------- MODULE AttendanceProofs --------------------------
(***************************************************************************)
(* Attendance records stay consistent, for any number of people, sessions  *)
(* and overlapping requests and passes.                                    *)
(***************************************************************************)
EXTENDS Attendance, TLAPS

-----------------------------------------------------------------------------
(* The inductive invariant.                                                *)

\* A record is closed and has a duration, or neither.
Whole(r) == r.out # Unset <=> r.minutes # Unset

Writes(h) == pc[h] \in {"save", "close", "commit_close"}

\* The row that a clock-in inserts is open, and only this request knows its key.
InsertOK(h) ==
  pc[h] = "insert" =>
    /\ \A s, r \in req[h].batch : s = r
    /\ \A s \in req[h].batch :
         /\ ~ Exists(s)
         /\ req[h].new[s] \in Row
         /\ req[h].new[s].out = Unset
         /\ req[h].new[s].minutes = Unset
         /\ \A g \in Handler \ {h} : s \notin req[g].batch

\* A row that is updated has been loaded, is not reopened, gets a duration that
\* fits and keeps its mark.
UpdateOK(h) ==
  Writes(h) => \A s \in req[h].batch :
    LET seen == req[h].seen[s]
        new == req[h].new[s]
    IN
    /\ Exists(s)
    /\ seen \in Row /\ new \in Row
    /\ Whole(seen) /\ Whole(new)
    /\ new.out = Unset => seen.out = Unset
    /\ new.out # Unset => new.minutes = Minutes(new.in, new.out)
    /\ seen.auto => new.auto
    /\ seen.out # Unset => ~ IsOpen(s)
    /\ pc[h] \in {"close", "commit_close"} => new.minutes = Limit /\ new.out < now

\* What was loaded is the row as committed, while nothing else is.
FreshOK(h) ==
  req[h].fresh =>
    /\ Writes(h) => \A s \in req[h].batch : session[s] = req[h].seen[s]
    /\ pc[h] = "insert" => \A s \in req[h].batch : OpenOf(req[h].new[s].user) = {}

RequestOK ==
  \A h \in Handler :
    /\ pc[h] = "idle" => req[h].batch = {}
    /\ InsertOK(h)
    /\ UpdateOK(h)
    /\ FreshOK(h)

IInv == TypeOK /\ ClosedHasDuration /\ RequestOK

-----------------------------------------------------------------------------

\* An idle handler's request is one.
LEMMA NoRequestType == NoRequest \in Request
  BY DEF NoRequest, Request, Nothing

\* A row that exists has the columns of one.
LEMMA ExistsRow ==
  ASSUME TypeOK, NEW s \in Session
  PROVE  Exists(s) <=> session[s] \in Row
  BY NoRowAssumption DEF TypeOK, Exists

\* The table is empty at the start.
LEMMA InitIInv == Init => IInv
  <1>. SUFFICES ASSUME Init PROVE IInv
    OBVIOUS
  <1>1. TypeOK
    BY NoRequestType, StaffRulesAssumption DEF Init, TypeOK, Time, Steps, Nothing
  <1>2. ClosedHasDuration
    BY DEF Init, ClosedHasDuration, Exists, Nothing
  <1>3. RequestOK
    BY DEF Init, RequestOK, InsertOK, UpdateOK, FreshOK, Writes, NoRequest
  <1>. QED BY <1>1, <1>2, <1>3 DEF IInv

\* A request that ends without a commit changes nothing for the others.
LEMMA FinishKeeps ==
  ASSUME IInv, NEW h \in Handler, Finish(h), UNCHANGED <<now, staff, session>>
  PROVE  IInv'
  <1>1. /\ pc' = [pc EXCEPT ![h] = "idle"]
        /\ req' = [req EXCEPT ![h] = NoRequest]
        /\ now' = now /\ staff' = staff /\ session' = session
    BY DEF Finish
  <1>2. TypeOK'
    BY <1>1, NoRequestType DEF IInv, TypeOK, Steps
  <1>3. ClosedHasDuration'
    BY <1>1 DEF IInv, ClosedHasDuration, Exists
  <1>4. \A g \in Handler :
          \/ pc'[g] = "idle" /\ req'[g].batch = {} /\ req'[g] = NoRequest
          \/ pc'[g] = pc[g] /\ req'[g] = req[g] /\ g # h
    BY <1>1 DEF IInv, TypeOK, NoRequest
  <1>5. RequestOK'
    <2>. SUFFICES ASSUME NEW g \in Handler
                  PROVE  /\ pc'[g] = "idle" => req'[g].batch = {}
                         /\ InsertOK(g)' /\ UpdateOK(g)' /\ FreshOK(g)'
      BY DEF RequestOK
    <2>1. pc'[g] = "idle" => req'[g].batch = {}
      BY <1>4 DEF IInv, RequestOK
    <2>2. InsertOK(g)'
      BY <1>1, <1>4 DEF IInv, RequestOK, InsertOK, Exists
    <2>3. UpdateOK(g)'
      BY <1>1, <1>4 DEF IInv, RequestOK, UpdateOK, Writes, Exists, IsOpen
    <2>4. FreshOK(g)'
      BY <1>1, <1>4 DEF IInv, RequestOK, FreshOK, Writes, OpenOf, Exists, IsOpen
    <2>. QED BY <2>1, <2>2, <2>3, <2>4
  <1>. QED BY <1>2, <1>3, <1>5 DEF IInv

\* h goes on with request r at step st, and what it remembers is right.
LEMMA GoOnKeeps ==
  ASSUME IInv, NEW h \in Handler, NEW r \in Request, NEW st \in Steps,
         pc' = [pc EXCEPT ![h] = st], req' = [req EXCEPT ![h] = r],
         UNCHANGED <<now, staff, session>>,
         st # "idle",
         InsertOK(h)', UpdateOK(h)', FreshOK(h)',
         \A s \in r.batch : Exists(s) \/ \A g \in Handler \ {h} : s \notin req[g].batch
  PROVE  IInv'
  <1>1. now' = now /\ staff' = staff /\ session' = session
    OBVIOUS
  <1>2. /\ pc'[h] = st /\ req'[h] = r
        /\ \A g \in Handler \ {h} : pc'[g] = pc[g] /\ req'[g] = req[g]
    BY DEF IInv, TypeOK
  <1>3. TypeOK'
    BY <1>1 DEF IInv, TypeOK
  <1>4. ClosedHasDuration'
    BY <1>1 DEF IInv, ClosedHasDuration, Exists
  <1>5. ASSUME NEW g \in Handler, g # h
        PROVE  /\ pc'[g] = "idle" => req'[g].batch = {}
               /\ InsertOK(g)' /\ UpdateOK(g)' /\ FreshOK(g)'
    <2>1. pc'[g] = "idle" => req'[g].batch = {}
      BY <1>2, <1>5 DEF IInv, RequestOK
    <2>2. InsertOK(g)'
      BY <1>1, <1>2, <1>5 DEF IInv, RequestOK, InsertOK, Exists
    <2>3. UpdateOK(g)'
      BY <1>1, <1>2, <1>5 DEF IInv, RequestOK, UpdateOK, Writes, Exists, IsOpen
    <2>4. FreshOK(g)'
      BY <1>1, <1>2, <1>5 DEF IInv, RequestOK, FreshOK, Writes, OpenOf, Exists, IsOpen
    <2>. QED BY <2>1, <2>2, <2>3, <2>4
  <1>6. RequestOK'
    BY <1>2, <1>5 DEF RequestOK
  <1>. QED BY <1>3, <1>4, <1>6 DEF IInv

\* What a commit must do to the rows for the others' sake.
GoodCommit(h) ==
  /\ session' \in [Session -> Row \cup {NoRow}]
  /\ \A s \in Session \ req[h].batch : session'[s] = session[s]
  /\ \A s \in req[h].batch : session'[s] \in Row /\ Whole(session'[s])
  /\ \A s \in Session : Exists(s) /\ ~ IsOpen(s) => session'[s].out # Unset
  /\ \A p \in Employee, s \in Session :
       s \in OpenOf(p)' =>
         s \in OpenOf(p) \/ (pc[h] = "insert" /\ s \in req[h].batch /\ req[h].new[s].user = p)

LEMMA CommitKeeps ==
  ASSUME IInv, NEW h \in Handler, FinishOverReaders(h), GoodCommit(h),
         UNCHANGED <<now, staff>>
  PROVE  IInv'
  <1>1. /\ pc' = [pc EXCEPT ![h] = "idle"]
        /\ req' = [g \in Handler |->
                     IF g = h THEN NoRequest
                     ELSE [req[g] EXCEPT !.fresh = req[g].fresh /\ ~ Reads(g, h)]]
        /\ now' = now /\ staff' = staff
    BY DEF FinishOverReaders
  <1>2. pc'[h] = "idle" /\ req'[h] = NoRequest
    BY <1>1 DEF IInv, TypeOK
  <1>3. ASSUME NEW g \in Handler, g # h
        PROVE  /\ req'[g] \in Request
               /\ pc'[g] = pc[g]
               /\ req'[g].batch = req[g].batch
               /\ req'[g].seen = req[g].seen
               /\ req'[g].new = req[g].new
               /\ req'[g].fresh => req[g].fresh /\ ~ Reads(g, h)
    <2>1. req[g] \in Request
      BY DEF IInv, TypeOK
    <2>2. Reads(g, h) \in BOOLEAN
      BY DEF Reads
    <2>3. [req[g] EXCEPT !.fresh = req[g].fresh /\ ~ Reads(g, h)] \in Request
      BY <2>1, <2>2 DEF Request
    <2>. QED BY <1>1, <1>3, <2>1, <2>3 DEF IInv, TypeOK, Request
  <1>4. TypeOK'
    BY <1>1, <1>2, <1>3, NoRequestType DEF IInv, TypeOK, Steps, GoodCommit
  <1>5. ClosedHasDuration'
    <2>. SUFFICES ASSUME NEW s \in Session, session'[s] # NoRow PROVE Whole(session'[s])
      BY DEF ClosedHasDuration, Exists, Whole
    <2>. QED BY DEF GoodCommit, IInv, ClosedHasDuration, Exists, Whole
  <1>6. \A s \in Session : Exists(s) => Exists(s)'
    BY NoRowAssumption DEF GoodCommit, Exists
  <1>7. \A s \in Session : Exists(s) /\ ~ IsOpen(s) => ~ IsOpen(s)'
    BY DEF GoodCommit, Exists, IsOpen
  <1>8. ASSUME NEW g \in Handler, g # h
        PROVE  /\ pc'[g] = "idle" => req'[g].batch = {}
               /\ InsertOK(g)' /\ UpdateOK(g)' /\ FreshOK(g)'
    <2>0. req[g].batch \subseteq Session /\ req[h].batch \subseteq Session
      BY DEF IInv, TypeOK, Request
    <2>1. pc'[g] = "idle" => req'[g].batch = {}
      BY <1>3, <1>8 DEF IInv, RequestOK
    <2>2. InsertOK(g)'
      <3>1. \A k \in Handler \ {g} : req'[k].batch \subseteq req[k].batch
        BY <1>2, <1>3 DEF NoRequest
      <3>2. InsertOK(g)
        BY DEF IInv, RequestOK
      <3>3. ASSUME pc[g] = "insert", NEW s \in req[g].batch
            PROVE  session'[s] = session[s]
        BY <1>8, <2>0, <3>2, <3>3 DEF InsertOK, GoodCommit
      <3>. QED BY <1>3, <1>8, <3>1, <3>2, <3>3 DEF InsertOK, Exists
    <2>3. UpdateOK(g)'
      BY <1>1, <1>3, <1>6, <1>7, <1>8, <2>0 DEF IInv, RequestOK, UpdateOK, Writes
    <2>4. FreshOK(g)'
      <3>. SUFFICES ASSUME req'[g].fresh PROVE FreshOK(g)'
        BY DEF FreshOK
      <3>1. req[g].fresh /\ ~ Reads(g, h)
        BY <1>3, <1>8
      <3>2. \A s \in req[g].batch : session'[s] = session[s]
        BY <2>0, <3>1 DEF Reads, GoodCommit
      <3>3. Writes(g)' => \A s \in req'[g].batch : session'[s] = req'[g].seen[s]
        BY <1>3, <1>8, <3>1, <3>2 DEF IInv, RequestOK, FreshOK, Writes
      <3>4. ASSUME pc[g] = "insert", NEW s \in req[g].batch, NEW k \in Session
            PROVE  ~ (IsOpen(k)' /\ session'[k].user = req[g].new[s].user)
        <4>1. PICK p \in Employee : p = req[g].new[s].user
          BY <3>4 DEF IInv, RequestOK, InsertOK, Row
        <4>2. OpenOf(p) = {}
          BY <3>1, <3>4, <4>1 DEF IInv, RequestOK, FreshOK
        <4>3. k \notin OpenOf(p)'
          BY <3>1, <3>4, <4>1, <4>2 DEF GoodCommit, Reads
        <4>. QED BY <4>1, <4>3 DEF OpenOf
      <3>5. pc'[g] = "insert" =>
              \A s \in req'[g].batch, k \in Session :
                ~ (IsOpen(k)' /\ session'[k].user = req'[g].new[s].user)
        BY <1>3, <1>8, <3>4
      <3>. QED BY <3>3, <3>5 DEF FreshOK, OpenOf
    <2>. QED BY <2>1, <2>2, <2>3, <2>4
  <1>9. RequestOK'
    BY <1>2, <1>8 DEF RequestOK, InsertOK, UpdateOK, FreshOK, Writes, NoRequest
  <1>. QED BY <1>4, <1>5, <1>9 DEF IInv

-----------------------------------------------------------------------------
(* Commits.                                                                *)

\* The columns of one updated row.
LEMMA WrittenRow ==
  ASSUME IInv, NEW h \in Handler, Writes(h), WriteBatch(h), NEW s \in req[h].batch
  PROVE  LET old == session[s]
             seen == req[h].seen[s]
             new == req[h].new[s]
             r == session'[s]
         IN
         /\ s \in Session
         /\ old \in Row /\ seen \in Row /\ new \in Row /\ r \in Row
         /\ r.user = old.user
         /\ r.in = IF new.in # seen.in THEN new.in ELSE old.in
         /\ r.out = IF new.out # seen.out THEN new.out ELSE old.out
         /\ r.minutes = IF new.minutes # seen.minutes THEN new.minutes ELSE old.minutes
         /\ r.auto = IF new.auto # seen.auto THEN new.auto ELSE old.auto
  <1>1. s \in Session /\ Exists(s) /\ req[h].seen[s] \in Row /\ req[h].new[s] \in Row
    BY DEF IInv, TypeOK, RequestOK, UpdateOK, Request
  <1>2. session[s] \in Row
    BY <1>1, ExistsRow DEF IInv
  <1>3. session'[s] = Written(s, req[h].seen[s], req[h].new[s])
    BY <1>1 DEF WriteBatch
  <1>4. Written(s, req[h].seen[s], req[h].new[s]) \in Row
    BY <1>1, <1>2 DEF Written, Row
  <1>. QED BY <1>1, <1>2, <1>3, <1>4 DEF Written, Row

\* A closed row stays closed and marked; a row that is closed gets a duration.
LEMMA WrittenWhole ==
  ASSUME IInv, NEW h \in Handler, Writes(h), WriteBatch(h), NEW s \in req[h].batch
  PROVE  /\ Whole(session'[s])
         /\ ~ IsOpen(s) => session'[s].out # Unset
         /\ session[s].auto => session'[s].auto
  <1>. DEFINE old == session[s]
              seen == req[h].seen[s]
              new == req[h].new[s]
              r == session'[s]
  <1>1. /\ Exists(s)
        /\ Whole(seen) /\ Whole(new)
        /\ new.out = Unset => seen.out = Unset
        /\ seen.auto => new.auto
        /\ seen.out # Unset => ~ IsOpen(s)
    BY DEF IInv, RequestOK, UpdateOK
  <1>2. /\ s \in Session
        /\ seen.auto \in BOOLEAN /\ new.auto \in BOOLEAN
        /\ r.out = IF new.out # seen.out THEN new.out ELSE old.out
        /\ r.minutes = IF new.minutes # seen.minutes THEN new.minutes ELSE old.minutes
        /\ r.auto = IF new.auto # seen.auto THEN new.auto ELSE old.auto
    BY WrittenRow DEF Row
  <1>3. Whole(old) /\ (IsOpen(s) <=> old.out = Unset)
    BY <1>1, <1>2 DEF IInv, ClosedHasDuration, Whole, IsOpen
  <1>. HIDE DEF old, seen, new, r
  <1>4. Whole(r) /\ (~ IsOpen(s) => r.out # Unset)
    BY <1>1, <1>2, <1>3 DEF Whole
  <1>5. old.auto => r.auto
    BY <1>1, <1>2
  <1>. QED BY <1>4, <1>5 DEF old, r

LEMMA UpdateIsGood ==
  ASSUME IInv, NEW h \in Handler, Writes(h), WriteBatch(h)
  PROVE  GoodCommit(h)
  <1>1. req[h].batch \subseteq Session
    BY DEF IInv, TypeOK, Request
  <1>2. \A s \in Session \ req[h].batch : session'[s] = session[s]
    BY DEF WriteBatch
  <1>3. \A s \in req[h].batch : session'[s] \in Row /\ Whole(session'[s])
    BY WrittenRow, WrittenWhole
  <1>4. session' \in [Session -> Row \cup {NoRow}]
    <2>1. session' = [s \in Session |-> session'[s]]
      BY DEF WriteBatch
    <2>2. \A s \in Session : session'[s] \in Row \cup {NoRow}
      BY <1>2, <1>3 DEF IInv, TypeOK
    <2>. QED BY <2>1, <2>2
  <1>5. \A s \in Session : Exists(s) /\ ~ IsOpen(s) => session'[s].out # Unset
    BY <1>1, <1>2, WrittenWhole DEF IsOpen
  <1>6. ASSUME NEW p \in Employee, NEW s \in Session, s \in OpenOf(p)'
        PROVE  s \in OpenOf(p)
    <2>1. CASE s \notin req[h].batch
      BY <1>2, <1>6, <2>1 DEF OpenOf, IsOpen, Exists
    <2>2. CASE s \in req[h].batch
      <3>1. session'[s].out = Unset /\ session'[s].user = p
        BY <1>6 DEF OpenOf, IsOpen
      <3>2. IsOpen(s)
        BY <2>2, <3>1, WrittenWhole
      <3>3. session'[s].user = session[s].user
        BY <2>2, WrittenRow
      <3>. QED BY <3>1, <3>2, <3>3 DEF OpenOf
    <2>. QED BY <2>1, <2>2
  <1>. QED BY <1>2, <1>3, <1>4, <1>5, <1>6 DEF GoodCommit

LEMMA UpdateKeeps ==
  ASSUME IInv, NEW h \in Handler, Save(h) \/ CommitClose(h)
  PROVE  IInv' /\ GoodCommit(h)
  <1>1. Writes(h) /\ WriteBatch(h) /\ FinishOverReaders(h) /\ UNCHANGED <<now, staff>>
    BY DEF Save, CommitClose, Writes
  <1>. QED BY <1>1, UpdateIsGood, CommitKeeps

LEMMA InsertKeeps ==
  ASSUME IInv, NEW h \in Handler, InsertSession(h)
  PROVE  IInv' /\ GoodCommit(h)
  <1>1. /\ pc[h] = "insert"
        /\ session' = [s \in Session |-> IF s \in req[h].batch THEN req[h].new[s] ELSE session[s]]
        /\ FinishOverReaders(h) /\ UNCHANGED <<now, staff>>
    BY DEF InsertSession
  <1>2. req[h].batch \subseteq Session
    BY DEF IInv, TypeOK, Request
  <1>3. \A s \in req[h].batch :
          /\ ~ Exists(s)
          /\ session'[s] = req[h].new[s]
          /\ session'[s] \in Row /\ Whole(session'[s])
    BY <1>1, <1>2 DEF IInv, RequestOK, InsertOK, Whole
  <1>4. \A s \in Session \ req[h].batch : session'[s] = session[s]
    BY <1>1
  <1>5. session' \in [Session -> Row \cup {NoRow}]
    BY <1>1, <1>3, <1>4 DEF IInv, TypeOK
  <1>6. \A s \in Session : Exists(s) /\ ~ IsOpen(s) => session'[s].out # Unset
    BY <1>3, <1>4 DEF IsOpen
  <1>7. ASSUME NEW p \in Employee, NEW s \in Session, s \in OpenOf(p)'
        PROVE  s \in OpenOf(p) \/ (s \in req[h].batch /\ req[h].new[s].user = p)
    BY <1>3, <1>4, <1>7 DEF OpenOf, IsOpen, Exists
  <1>8. GoodCommit(h)
    BY <1>1, <1>3, <1>4, <1>5, <1>6, <1>7 DEF GoodCommit
  <1>. QED BY <1>1, <1>8, CommitKeeps

-----------------------------------------------------------------------------
(* Reads.                                                                  *)

\* The form of Begin that GoOnKeeps takes.
LEMMA BeginRequest ==
  ASSUME IInv, NEW h \in Handler, NEW b, NEW seen, NEW new, NEW st,
         b \subseteq Session,
         seen \in [Session -> Row \cup {NoRow}],
         new \in [Session -> Row \cup {NoRow}],
         Begin(h, b, seen, new, st)
  PROVE  LET r == [batch |-> b, seen |-> seen, new |-> new, fresh |-> TRUE] IN
         /\ r \in Request
         /\ pc' = [pc EXCEPT ![h] = st]
         /\ req' = [req EXCEPT ![h] = r]
         /\ req'[h] = r
         /\ st \in Steps => pc'[h] = st
  BY DEF Begin, Request, IInv, TypeOK

LEMMA ClockInKeeps ==
  ASSUME IInv, NEW h \in Handler, NEW p \in Employee, NEW s \in Session,
         ReadForClockIn(h, p, s)
  PROVE  IInv'
  <1>. DEFINE row == [user |-> p, in |-> now, out |-> Unset, minutes |-> Unset, auto |-> FALSE]
              new == [Nothing EXCEPT ![s] = row]
              r == [batch |-> {s}, seen |-> Nothing, new |-> new, fresh |-> TRUE]
  <1>1. row \in Row
    BY DEF IInv, TypeOK, Row
  <1>2. new \in [Session -> Row \cup {NoRow}] /\ Nothing \in [Session -> Row \cup {NoRow}]
    BY <1>1 DEF Nothing
  <1>3. new[s] = row
    BY DEF Nothing
  <1>4. /\ OpenOf(p) = {} /\ ~ Exists(s)
        /\ \A g \in Handler : s \notin req[g].batch
        /\ Begin(h, {s}, Nothing, new, "insert")
        /\ now' = now /\ staff' = staff /\ session' = session
    BY DEF ReadForClockIn
  <1>. HIDE DEF new
  <1>5. /\ r \in Request
        /\ pc' = [pc EXCEPT ![h] = "insert"]
        /\ req' = [req EXCEPT ![h] = r]
        /\ req'[h] = r
        /\ "insert" \in Steps
        /\ pc'[h] = "insert"
    BY <1>2, <1>4, BeginRequest DEF Steps
  <1>6. \A g \in Handler \ {h} : req'[g] = req[g]
    BY <1>5 DEF IInv, TypeOK
  <1>7. InsertOK(h)'
    BY <1>1, <1>3, <1>4, <1>5, <1>6 DEF InsertOK, Exists
  <1>8. UpdateOK(h)'
    BY <1>5 DEF UpdateOK, Writes
  <1>9. FreshOK(h)'
    BY <1>3, <1>4, <1>5 DEF FreshOK, Writes, OpenOf, IsOpen, Exists
  <1>. QED BY <1>4, <1>5, <1>7, <1>8, <1>9, GoOnKeeps

\* The row that is loaded, for a clock-out or an edit, with what is assigned.
LEMMA LoadKeeps ==
  ASSUME IInv, NEW h \in Handler, NEW s \in Session, NEW row \in Row,
         Load(h, s, row), UNCHANGED <<now, staff, session>>,
         Exists(s),
         Whole(row),
         row.out = Unset => session[s].out = Unset,
         row.out # Unset => row.minutes = Minutes(row.in, row.out),
         session[s].auto => row.auto
  PROVE  IInv'
  <1>. DEFINE seen == [Nothing EXCEPT ![s] = session[s]]
              new == [Nothing EXCEPT ![s] = row]
              r == [batch |-> {s}, seen |-> seen, new |-> new, fresh |-> TRUE]
  <1>1. session[s] \in Row /\ Whole(session[s])
    BY ExistsRow DEF IInv, ClosedHasDuration, Whole
  <1>2. /\ new \in [Session -> Row \cup {NoRow}]
        /\ seen \in [Session -> Row \cup {NoRow}]
        /\ new[s] = row /\ seen[s] = session[s]
    BY <1>1 DEF Nothing
  <1>3. Begin(h, {s}, seen, new, "save")
    BY DEF Load
  <1>4. now' = now /\ staff' = staff /\ session' = session
    OBVIOUS
  <1>. HIDE DEF seen, new
  <1>5. /\ r \in Request
        /\ pc' = [pc EXCEPT ![h] = "save"]
        /\ req' = [req EXCEPT ![h] = r]
        /\ req'[h] = r
        /\ "save" \in Steps
        /\ pc'[h] = "save"
    BY <1>2, <1>3, BeginRequest DEF Steps
  <1>6. InsertOK(h)'
    BY <1>5 DEF InsertOK
  <1>7. UpdateOK(h)'
    BY <1>1, <1>2, <1>4, <1>5 DEF UpdateOK, Exists, IsOpen
  <1>8. FreshOK(h)'
    BY <1>2, <1>4, <1>5 DEF FreshOK
  <1>. QED BY <1>4, <1>5, <1>6, <1>7, <1>8, GoOnKeeps

\* _minutes is never negative.
LEMMA MinutesType ==
  ASSUME NEW a \in Nat, NEW b \in Nat
  PROVE  Minutes(a, b) \in Nat
  BY DEF Minutes

LEMMA ClockOutKeeps ==
  ASSUME IInv, NEW h \in Handler, NEW p \in Employee, NEW s \in Session,
         ReadForClockOut(h, p, s)
  PROVE  IInv'
  <1>. DEFINE old == session[s]
              row == [old EXCEPT !.out = now, !.minutes = Minutes(old.in, now)]
  <1>1. Exists(s) /\ Load(h, s, row) /\ UNCHANGED <<now, staff, session>>
    BY DEF ReadForClockOut, OpenOf, IsOpen
  <1>2. old \in Row /\ old.in \in Nat /\ now \in Nat
    BY <1>1, ExistsRow DEF IInv, TypeOK, Row, Time
  <1>3. Minutes(old.in, now) \in Nat
    BY <1>2, MinutesType
  <1>4. /\ row \in Row
        /\ row.in = old.in /\ row.out = now /\ row.minutes = Minutes(old.in, now)
        /\ row.auto = old.auto
    BY <1>2, <1>3 DEF Row
  <1>5. now # Unset /\ Minutes(old.in, now) # Unset
    BY <1>2, <1>3, StaffRulesAssumption
  <1>. HIDE DEF old, row
  <1>6. Whole(row) /\ row.out # Unset /\ row.minutes = Minutes(row.in, row.out)
    BY <1>4, <1>5 DEF Whole
  <1>. QED BY <1>1, <1>4, <1>6, LoadKeeps DEF old

LEMMA EditKeeps ==
  ASSUME IInv, NEW h \in Handler, NEW s \in Session,
         NEW in \in Corrections \cup {Unset}, NEW out \in Corrections \cup {Unset},
         ReadForEdit(h, s, in, out)
  PROVE  IInv'
  <1>. DEFINE old == session[s]
              i == IF in = Unset THEN old.in ELSE in
              o == IF out = Unset THEN old.out ELSE out
              m == IF o = Unset THEN Unset ELSE Minutes(i, o)
              row == Corrected(old, in, out)
  <1>1. Exists(s) /\ Load(h, s, row) /\ UNCHANGED <<now, staff, session>>
    BY DEF ReadForEdit
  <1>2. old \in Row
    BY <1>1, ExistsRow DEF IInv
  <1>3. i \in Time /\ o \in Nat \cup {Unset} /\ (o = Unset => old.out = Unset)
    BY <1>2, StaffRulesAssumption DEF Row, Time
  <1>4. m \in Nat \cup {Unset} /\ (m = Unset <=> o = Unset)
    <2>. HIDE DEF i, o
    <2>1. CASE o = Unset
      BY <2>1
    <2>2. CASE o # Unset
      <3>1. i \in Nat /\ o \in Nat
        BY <1>3, <2>2 DEF Time
      <3>2. Minutes(i, o) \in Nat
        BY <3>1, MinutesType
      <3>3. Minutes(i, o) # Unset
        BY <3>2, StaffRulesAssumption
      <3>. QED BY <2>2, <3>2, <3>3
    <2>. QED BY <2>1, <2>2
  <1>5. row = [old EXCEPT !.in = i, !.out = o, !.minutes = m]
    BY DEF Corrected
  <1>. HIDE DEF i, o, m, old
  <1>6. /\ row \in Row
        /\ row.in = i /\ row.out = o /\ row.minutes = m /\ row.auto = old.auto
    BY <1>2, <1>3, <1>4, <1>5 DEF Row
  <1>. HIDE DEF row
  <1>7. Whole(row) /\ (row.out = Unset => session[s].out = Unset)
    BY <1>3, <1>4, <1>6 DEF Whole, old
  <1>8. row.out # Unset => row.minutes = Minutes(row.in, row.out)
    BY <1>6 DEF m
  <1>. QED BY <1>1, <1>6, <1>7, <1>8, LoadKeeps DEF old

LEMMA ReadStaleKeeps ==
  ASSUME IInv, NEW h \in Handler, ReadStale(h)
  PROVE  IInv'
  <1>. DEFINE b == Stale
              seen == [s \in Session |-> IF s \in Stale THEN session[s] ELSE NoRow]
              new == [s \in Session |-> IF s \in Stale THEN Closed(session[s]) ELSE NoRow]
              r == [batch |-> b, seen |-> seen, new |-> new, fresh |-> TRUE]
  <1>1. /\ Begin(h, b, seen, new, "close")
        /\ now' = now /\ staff' = staff /\ session' = session
    BY DEF ReadStale
  <1>2. ASSUME NEW s \in b
        PROVE  /\ s \in Session /\ Exists(s) /\ IsOpen(s)
               /\ session[s] \in Row /\ Whole(session[s])
               /\ Closed(session[s]) \in Row
               /\ Closed(session[s]).out = session[s].in + Limit
               /\ Closed(session[s]).in = session[s].in
               /\ Closed(session[s]).minutes = Limit
               /\ Closed(session[s]).auto
               /\ session[s].in \in Nat
               /\ session[s].in + Limit < now
    <2>1. s \in Session /\ IsOpen(s) /\ Exists(s) /\ session[s].in + Limit < now
      BY <1>2 DEF Stale, IsOpen
    <2>2. session[s] \in Row /\ Whole(session[s])
      BY <2>1, ExistsRow DEF IInv, ClosedHasDuration, Whole
    <2>3. session[s].in \in Nat /\ session[s].in + Limit \in Nat /\ Limit \in Nat
      BY <2>2, StaffRulesAssumption DEF Row, Time
    <2>4. Closed(session[s]) = [session[s] EXCEPT !.out = session[s].in + Limit,
                                                  !.minutes = Limit, !.auto = TRUE]
      BY DEF Closed
    <2>. QED BY <2>1, <2>2, <2>3, <2>4 DEF Row
  <1>3. b \subseteq Session
    BY DEF Stale
  <1>4. /\ seen \in [Session -> Row \cup {NoRow}]
        /\ new \in [Session -> Row \cup {NoRow}]
    BY <1>2
  <1>5. \A s \in b : seen[s] = session[s] /\ new[s] = Closed(session[s])
    BY <1>3
  <1>. HIDE DEF b, seen, new
  <1>6. /\ r \in Request
        /\ pc' = [pc EXCEPT ![h] = "close"]
        /\ req' = [req EXCEPT ![h] = r]
        /\ req'[h] = r
        /\ "close" \in Steps
        /\ pc'[h] = "close"
    BY <1>1, <1>3, <1>4, BeginRequest DEF Steps
  <1>7. InsertOK(h)'
    BY <1>6 DEF InsertOK
  <1>8. UpdateOK(h)'
    <2>. SUFFICES ASSUME NEW s \in b
                  PROVE  /\ Exists(s)'
                         /\ seen[s] \in Row /\ new[s] \in Row
                         /\ Whole(seen[s]) /\ Whole(new[s])
                         /\ new[s].out # Unset /\ seen[s].out = Unset
                         /\ new[s].minutes = Minutes(new[s].in, new[s].out)
                         /\ new[s].auto
                         /\ new[s].minutes = Limit /\ new[s].out < now'
      BY <1>6 DEF UpdateOK, Writes
    <2>1. seen[s] = session[s] /\ new[s] = Closed(session[s])
      BY <1>5
    <2>2. /\ Limit \in Nat /\ session[s].in \in Nat
          /\ session[s].in + Limit # Unset /\ Limit # Unset
      BY <1>2, StaffRulesAssumption
    <2>3. Minutes(session[s].in, session[s].in + Limit) = Limit
      BY <2>2 DEF Minutes
    <2>. QED BY <1>1, <1>2, <2>1, <2>2, <2>3 DEF Whole, Exists, IsOpen
  <1>9. FreshOK(h)'
    BY <1>1, <1>5, <1>6 DEF FreshOK
  <1>10. \A s \in r.batch : Exists(s)
    BY <1>2
  <1>. QED BY <1>1, <1>6, <1>7, <1>8, <1>9, <1>10, GoOnKeeps

LEMMA FlushCloseKeeps ==
  ASSUME IInv, NEW h \in Handler, FlushClose(h)
  PROVE  IInv'
  <1>. DEFINE r == req[h]
  <1>1. /\ pc[h] = "close" /\ r \in Request
        /\ pc' = [pc EXCEPT ![h] = "commit_close"]
        /\ req' = req
        /\ now' = now /\ staff' = staff /\ session' = session
        /\ "commit_close" \in Steps
    BY DEF FlushClose, IInv, TypeOK, Steps
  <1>2. req' = [req EXCEPT ![h] = r] /\ pc'[h] = "commit_close" /\ req'[h] = r
    BY <1>1 DEF IInv, TypeOK
  <1>3. InsertOK(h)'
    BY <1>2 DEF InsertOK
  <1>4. UpdateOK(h)'
    BY <1>1, <1>2 DEF IInv, RequestOK, UpdateOK, Writes, Exists, IsOpen
  <1>5. FreshOK(h)'
    BY <1>1, <1>2 DEF IInv, RequestOK, FreshOK, Writes
  <1>6. \A s \in r.batch : Exists(s)
    BY <1>1 DEF IInv, RequestOK, UpdateOK, Writes
  <1>. HIDE DEF r
  <1>. QED BY <1>1, <1>2, <1>3, <1>4, <1>5, <1>6, GoOnKeeps

\* Time goes on and staff are dismissed; the rows and the requests stay.
LEMMA WorldKeeps ==
  ASSUME IInv,
         Tick \/ (\E p \in Employee : Dismiss(p)) \/ UNCHANGED vars
  PROVE  IInv' /\ session' = session /\ pc' = pc
  <1>1. /\ session' = session /\ pc' = pc /\ req' = req
        /\ now' \in Time /\ now' >= now /\ staff' \subseteq Employee
    BY StaffRulesAssumption DEF Tick, Dismiss, vars, IInv, TypeOK, Time
  <1>2. TypeOK' /\ ClosedHasDuration'
    BY <1>1 DEF IInv, TypeOK, ClosedHasDuration, Exists
  <1>3. ASSUME NEW g \in Handler
        PROVE  /\ pc'[g] = "idle" => req'[g].batch = {}
               /\ InsertOK(g)' /\ UpdateOK(g)' /\ FreshOK(g)'
    <2>1. (pc'[g] = "idle" => req'[g].batch = {}) /\ InsertOK(g)'
      BY <1>1 DEF IInv, RequestOK, InsertOK, Exists
    <2>2. UpdateOK(g)'
      <3>1. ASSUME NEW t \in Nat \cup {Unset}, t < now, t # Unset PROVE t < now'
        BY <1>1, <3>1 DEF IInv, TypeOK, Time
      <3>2. \A s \in req[g].batch : Writes(g) /\ pc[g] \in {"close", "commit_close"} =>
              /\ req[g].new[s].out \in Nat \cup {Unset}
              /\ req[g].new[s].out # Unset
        BY StaffRulesAssumption DEF IInv, RequestOK, UpdateOK, Whole, Row
      <3>. QED BY <1>1, <3>1, <3>2 DEF IInv, RequestOK, UpdateOK, Writes, Exists, IsOpen
    <2>3. FreshOK(g)'
      BY <1>1 DEF IInv, RequestOK, FreshOK, Writes, OpenOf, IsOpen, Exists
    <2>. QED BY <2>1, <2>2, <2>3
  <1>. QED BY <1>1, <1>2, <1>3 DEF IInv, RequestOK

-----------------------------------------------------------------------------
(* The steps.                                                              *)

\* A closed session stays closed and marked.
KeepsClosed ==
  \A s \in Session :
    Exists(s) /\ ~ IsOpen(s) =>
      /\ ~ IsOpen(s)'
      /\ session[s].auto => session'[s].auto

\* A clock-in that nothing overtook leaves its user one open session.
KeepsOneOpen ==
  \A h \in Handler :
    InsertSession(h) /\ req[h].fresh =>
      \A s \in req[h].batch, p \in Employee :
        p = req[h].new[s].user => OpenOf(p)' = {s}

\* What a request that nothing overtook writes agrees with itself.
KeepsDuration ==
  \A h \in Handler :
    (Save(h) \/ CommitClose(h)) /\ req[h].fresh =>
      \A s \in req[h].batch :
        LET r == session'[s] IN
        /\ r.out # Unset => r.minutes = Minutes(r.in, r.out)
        /\ CommitClose(h) => r.minutes = Limit /\ r.out < now

\* An update that nothing overtook writes the row it assigned.
LEMMA FreshWritten ==
  ASSUME IInv, NEW h \in Handler, Writes(h), WriteBatch(h), req[h].fresh,
         NEW s \in req[h].batch
  PROVE  LET r == session'[s]
             new == req[h].new[s]
         IN r.in = new.in /\ r.out = new.out /\ r.minutes = new.minutes
  <1>1. session[s] = req[h].seen[s]
    BY DEF IInv, RequestOK, FreshOK
  <1>. QED BY <1>1, WrittenRow

LEMMA ClosedStep ==
  ASSUME IInv, [Next]_vars PROVE KeepsClosed
  <1>1. CASE session' = session
    BY <1>1 DEF KeepsClosed, Exists, IsOpen
  <1>2. ASSUME NEW h \in Handler, InsertSession(h) PROVE KeepsClosed
    <2>1. GoodCommit(h) /\ \A s \in req[h].batch : ~ Exists(s)
      BY <1>2, InsertKeeps DEF InsertSession, IInv, RequestOK, InsertOK
    <2>. QED BY <2>1 DEF KeepsClosed, GoodCommit, IsOpen
  <1>3. ASSUME NEW h \in Handler, Save(h) \/ CommitClose(h) PROVE KeepsClosed
    <2>1. Writes(h) /\ WriteBatch(h)
      BY <1>3 DEF Save, CommitClose, Writes
    <2>2. GoodCommit(h)
      BY <1>3, UpdateKeeps
    <2>3. \A s \in req[h].batch : session[s].auto => session'[s].auto
      BY <2>1, WrittenWhole
    <2>. QED BY <2>2, <2>3 DEF KeepsClosed, GoodCommit, IsOpen
  <1>4. \/ session' = session
        \/ \E h \in Handler : InsertSession(h) \/ Save(h) \/ CommitClose(h)
    BY DEF Next, Arrive, ReadForClockIn, ReadForClockOut, ReadForEdit, ReadStale,
           FlushClose, Crash, Tick, Dismiss, vars
  <1>. QED BY <1>1, <1>2, <1>3, <1>4

LEMMA OneOpenStep ==
  ASSUME IInv PROVE KeepsOneOpen
  <1>. SUFFICES ASSUME NEW h \in Handler, InsertSession(h), req[h].fresh,
                       NEW s \in req[h].batch, NEW p \in Employee,
                       p = req[h].new[s].user
                PROVE  OpenOf(p)' = {s}
    BY DEF KeepsOneOpen
  <1>1. pc[h] = "insert" /\ s \in Session /\ session'[s] = req[h].new[s]
    BY DEF InsertSession, IInv, TypeOK, Request
  <1>2. /\ OpenOf(p) = {}
        /\ \A r \in req[h].batch : r = s
        /\ req[h].new[s] \in Row /\ req[h].new[s].out = Unset
    BY <1>1 DEF IInv, RequestOK, InsertOK, FreshOK
  <1>3. \A k \in OpenOf(p)' : k = s
    <2>1. OpenOf(p)' \subseteq Session
      BY DEF OpenOf
    <2>. QED BY <1>2, <2>1, InsertKeeps DEF GoodCommit
  <1>4. s \in OpenOf(p)'
    BY <1>1, <1>2, NoRowAssumption DEF OpenOf, IsOpen, Exists
  <1>. QED BY <1>3, <1>4

LEMMA DurationStep ==
  ASSUME IInv PROVE KeepsDuration
  <1>. SUFFICES ASSUME NEW h \in Handler, Save(h) \/ CommitClose(h), req[h].fresh,
                       NEW s \in req[h].batch
                PROVE  /\ session'[s].out # Unset =>
                            session'[s].minutes = Minutes(session'[s].in, session'[s].out)
                       /\ CommitClose(h) => session'[s].minutes = Limit /\ session'[s].out < now
    BY DEF KeepsDuration
  <1>1. Writes(h) /\ WriteBatch(h) /\ (CommitClose(h) => pc[h] = "commit_close")
    BY DEF Save, CommitClose, Writes
  <1>2. /\ session'[s].in = req[h].new[s].in
        /\ session'[s].out = req[h].new[s].out
        /\ session'[s].minutes = req[h].new[s].minutes
    BY <1>1, FreshWritten
  <1>. QED BY <1>1, <1>2 DEF IInv, RequestOK, UpdateOK

LEMMA NextIInv ==
  ASSUME IInv, [Next]_vars PROVE IInv'
  <1>1. ASSUME NEW h \in Handler, Arrive(h) PROVE IInv'
    BY <1>1, ClockInKeeps, ClockOutKeeps, EditKeeps, ReadStaleKeeps DEF Arrive
  <1>2. ASSUME NEW h \in Handler, InsertSession(h) PROVE IInv'
    BY <1>2, InsertKeeps
  <1>3. ASSUME NEW h \in Handler, Save(h) \/ CommitClose(h) PROVE IInv'
    BY <1>3, UpdateKeeps
  <1>4. ASSUME NEW h \in Handler, FlushClose(h) PROVE IInv'
    BY <1>4, FlushCloseKeeps
  <1>5. ASSUME NEW h \in Handler, Crash(h) PROVE IInv'
    BY <1>5, FinishKeeps DEF Crash
  <1>6. ASSUME Tick \/ (\E p \in Employee : Dismiss(p)) \/ UNCHANGED vars PROVE IInv'
    BY <1>6, WorldKeeps
  <1>. QED BY <1>1, <1>2, <1>3, <1>4, <1>5, <1>6 DEF Next

-----------------------------------------------------------------------------

\* Types, ClosedHasDuration and what each request remembers hold in every
\* reachable state.
THEOREM Invariant == Spec => []IInv
  <1>1. Init => IInv
    BY InitIInv
  <1>2. IInv /\ [Next]_vars => IInv'
    BY NextIInv
  <1>. QED BY <1>1, <1>2, PTL DEF Spec

\* A record has a duration exactly when it is closed (AttendanceOut shows both).
THEOREM DurationWhenClosed == Spec => []ClosedHasDuration
  <1>1. IInv => ClosedHasDuration
    BY DEF IInv
  <1>. QED BY <1>1, Invariant, PTL

\* No clock-out, edit or pass opens a closed record or takes off its mark.
THEOREM ClosedForGood == Spec => ClosedStaysClosed
  <1>1. IInv /\ [Next]_vars => [KeepsClosed]_vars
    BY ClosedStep
  <1>. QED BY <1>1, Invariant, PTL DEF Spec, ClosedStaysClosed, KeepsClosed

\* A clock-in that no other overtook leaves its user one open session.
THEOREM ClockInOpensOne == Spec => OneOpenSession
  <1>1. IInv => KeepsOneOpen
    BY OneOpenStep
  <1>. QED BY <1>1, Invariant, PTL DEF Spec, OneOpenSession, KeepsOneOpen

\* What a clock-out, an edit or a pass writes over the rows it read agrees with
\* itself.
THEOREM DurationAgrees == Spec => DurationMatches
  <1>1. IInv => KeepsDuration
    BY DurationStep
  <1>. QED BY <1>1, Invariant, PTL DEF Spec, DurationMatches, KeepsDuration
=============================================================================
