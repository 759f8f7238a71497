------------------------------ MODULE TourSlots ------------------------------
(***************************************************************************)
(* Tours and slot scheduling as the handlers run them: one step per        *)
(* statement between two awaits that reads or locks a row another handler  *)
(* may write.  The schedule row is locked FOR UPDATE by bookings and       *)
(* reschedules, if it exists; tours are read without a lock and updated by *)
(* primary key.                                                            *)
(*                                                                         *)
(* A last flush and its commit are one step: in between the handler waits  *)
(* for nothing, and nobody sees what it has flushed.                       *)
(***************************************************************************)
EXTENDS TourRules

CONSTANTS
  Handler,  \* requests in flight at one time
  Traffic,  \* kinds of request that arrive
  Late      \* slots whose notice period can begin while tours are booked

Kinds == {"create", "move", "note", "confirm", "cancel", "guest_cancel", "edit"}

ASSUME TrafficAssumption == Traffic \subseteq Kinds /\ Late \subseteq Slot

VARIABLES
  schedule,  \* the property's row of property_schedules, or NoRow
  status,    \* [Tour -> TourStatus], tours.status
  slot,      \* [Tour -> Slot \cup {NoSlot}], tours.scheduled_at
  soon,      \* slots that are past, or inside the notice period
  audit,     \* pairs of a tour and an audited action
  revived,   \* cancelled tours that a confirmation brought back (a history)
  pc,        \* [Handler -> Steps], the next statement
  req        \* [Handler -> Request], what the session knows

rows == <<schedule, status, slot, soon, audit, revived>>
vars == <<schedule, status, slot, soon, audit, revived, pc, req>>

Steps == {"idle", "lead", "lock", "insert", "count", "commit", "save", "write"}

AuditActions == {"update", "confirm", "cancel"}

Request ==
  [kind : Kinds \cup {"none"},
   tour : Tour \cup {NoTour},
   to : Slot \cup {NoSlot},               \* the slot asked for
   from : Slot \cup {NoSlot},             \* scheduled_at as loaded
   seen : TourStatus,                     \* status as loaded
   row : ScheduleRow \cup {NoRow},        \* the schedule as loaded or created
   want : ScheduleRow \cup {NoRow},       \* the schedule after an edit
   inserted : BOOLEAN,                    \* has inserted the schedule row
   flushed : BOOLEAN]                     \* has updated the tour's row

NoRequest ==
  [kind |-> "none", tour |-> NoTour, to |-> NoSlot, from |-> NoSlot, seen |-> "NONE",
   row |-> NoRow, want |-> NoRow, inserted |-> FALSE, flushed |-> FALSE]

\* create_property inserts the schedule with the property, and staff may have
\* edited it before the first tour; a property of an earlier release has none
\* until somebody asks for it.
Init ==
  /\ schedule \in ScheduleRow \cup {NoRow}
  /\ status = [t \in Tour |-> "NONE"]
  /\ slot = [t \in Tour |-> NoSlot]
  /\ soon = {}
  /\ audit = {}
  /\ revived = {}
  /\ pc = [h \in Handler |-> "idle"]
  /\ req = [h \in Handler |-> NoRequest]

-----------------------------------------------------------------------------
(* Locks: what a handler has written, or read FOR UPDATE, until it ends. *)

HoldsSchedule(h) == pc[h] \in {"count", "commit"} \/ req[h].inserted

\* Mutant: without FOR UPDATE only an insert of the row is waited for.
NotInserting(h) == \A g \in Handler \ {h} : ~ req[g].inserted

ScheduleFree(h) == \A g \in Handler \ {h} : ~ HoldsSchedule(g)

HoldsTour(h, t) == req[h].flushed /\ req[h].tour = t

\* Mutant: the handler waits for its own lock too.
TourFreeOfAll(h) == \A g \in Handler : ~ HoldsTour(g, req[h].tour)

TourFree(h) == \A g \in Handler \ {h} : ~ HoldsTour(g, req[h].tour)

-----------------------------------------------------------------------------
(* Control. *)

Begin(h, step, r) ==
  /\ pc[h] = "idle"
  /\ r.kind \in Traffic
  /\ pc' = [pc EXCEPT ![h] = step]
  /\ req' = [req EXCEPT ![h] = r]
  /\ UNCHANGED rows

Goto(h, step) == pc' = [pc EXCEPT ![h] = step]

\* The session ends; what was not committed is rolled back.
Finish(h) ==
  /\ pc' = [pc EXCEPT ![h] = "idle"]
  /\ req' = [req EXCEPT ![h] = NoRequest]

\* The schedule row after h's commit.
ScheduleAfter(h) == IF req[h].inserted THEN req[h].row ELSE schedule

-----------------------------------------------------------------------------
(* Requests arrive.  One that is refused at once leaves no trace. *)

\* create_tour; the id is fresh.
AskForTour(h, t, s) ==
  /\ status[t] = "NONE"
  /\ \A g \in Handler : req[g].tour # t
  /\ Begin(h, "lock", [NoRequest EXCEPT !.kind = "create", !.tour = t, !.to = s])

\* get_tour: the request remembers the row as it is committed now.
Loaded(kind, t) ==
  [NoRequest EXCEPT !.kind = kind, !.tour = t, !.from = slot[t], !.seen = status[t]]

\* patch_tour with a new slot.  If lead_status or notes change as well, the
\* next query flushes them first and so locks the tour.
ReadForMove(h, t, s) ==
  /\ status[t] \in Active
  /\ \E first \in {"lead", "lock"} : Begin(h, first, [Loaded("move", t) EXCEPT !.to = s])

\* patch_tour with lead_status or notes only, also of a cancelled tour.
ReadForNote(h, t) ==
  /\ status[t] # "NONE"
  /\ Begin(h, "save", Loaded("note", t))

\* confirm_tour refuses a cancelled tour, and changes no confirmed one.
ReadForConfirm(h, t) ==
  /\ status[t] \in Active
  /\ Begin(h, "save", Loaded("confirm", t))

\* cancel_tour, by a guest's code or by an account.
ReadForCancel(h, t) ==
  /\ status[t] # "NONE"
  /\ \E kind \in {"cancel", "guest_cancel"} : Begin(h, "save", Loaded(kind, t))

\* update_schedule reads the row without a lock.  GET .../availability and
\* .../schedule create a missing row too: an edit that leaves what it finds.
ReadSchedule(h, e) ==
  Begin(h, IF schedule = NoRow THEN "insert" ELSE "write",
        [NoRequest EXCEPT !.kind = "edit", !.row = schedule, !.want = e])

-----------------------------------------------------------------------------
(* The slot check. *)

FlushLead(h) ==
  /\ pc[h] = "lead"
  /\ TourFree(h)
  /\ Goto(h, "lock")
  /\ req' = [req EXCEPT ![h].flushed = TRUE]
  /\ UNCHANGED rows

\* Mutant: a missing row is not created.
LockScheduleOnly(h) ==
  /\ pc[h] = "lock"
  /\ schedule = NoRow \/ ScheduleFree(h)
  /\ Goto(h, "count")
  /\ req' = [req EXCEPT ![h].row = schedule]
  /\ UNCHANGED rows

\* SELECT ... FOR UPDATE finds only a committed row, waits for its lock and
\* returns its latest version.
LockSchedule(h) ==
  /\ pc[h] = "lock"
  /\ schedule = NoRow \/ ScheduleFree(h)
  /\ Goto(h, IF schedule = NoRow THEN "insert" ELSE "count")
  /\ req' = [req EXCEPT ![h].row = schedule]
  /\ UNCHANGED rows

\* The insert waits for another insert of the same key.
InsertSchedule(h) ==
  /\ pc[h] = "insert"
  /\ ScheduleFree(h)
  /\ schedule = NoRow
  /\ Goto(h, IF req[h].kind = "edit" THEN "write" ELSE "count")
  /\ req' = [req EXCEPT ![h].row = Default, ![h].inserted = TRUE]
  /\ UNCHANGED rows

\* The other insert was committed: IntegrityError.
ScheduleExists(h) ==
  /\ pc[h] = "insert"
  /\ ScheduleFree(h)
  /\ schedule # NoRow
  /\ Finish(h)
  /\ UNCHANGED rows

Taken(s) == {t \in Tour : status[t] \in Active /\ slot[t] = s}

\* Mutant: one tour too many.
HasRoomForOneMore(h) ==
  /\ req[h].to \in req[h].row.open \ soon
  /\ Cardinality(Taken(req[h].to)) <= req[h].row.capacity

\* resolve_and_validate_slot, against the loaded schedule.
HasRoom(h) ==
  /\ req[h].to \in req[h].row.open \ soon
  /\ Cardinality(Taken(req[h].to)) < req[h].row.capacity

AcceptSlot(h) ==
  /\ pc[h] = "count"
  /\ HasRoom(h)
  /\ Goto(h, "commit")
  /\ UNCHANGED <<req, rows>>

\* 409 slot_unavailable
RefuseSlot(h) ==
  /\ pc[h] = "count"
  /\ ~ HasRoom(h)
  /\ Finish(h)
  /\ UNCHANGED rows

-----------------------------------------------------------------------------
(* Last flush and commit. *)

\* Mutant: auto_confirm is not looked at.
AlwaysConfirmed(row) == "CONFIRMED"

NewStatus(row) == IF row.auto THEN "CONFIRMED" ELSE "PENDING"

\* create_tour inserts the tour.
CommitTour(h) ==
  /\ pc[h] = "commit"
  /\ req[h].kind = "create"
  /\ schedule' = ScheduleAfter(h)
  /\ status' = [status EXCEPT ![req[h].tour] = NewStatus(req[h].row)]
  /\ slot' = [slot EXCEPT ![req[h].tour] = req[h].to]
  /\ Finish(h)
  /\ UNCHANGED <<soon, audit, revived>>

\* Mutant: the whole row is written as it was loaded.
CommitMoveWholeRow(h) ==
  /\ pc[h] = "commit"
  /\ req[h].kind = "move"
  /\ req[h].to # req[h].from => TourFree(h)
  /\ schedule' = ScheduleAfter(h)
  /\ slot' = [slot EXCEPT ![req[h].tour] = req[h].to]
  /\ status' = [status EXCEPT ![req[h].tour] = req[h].seen]
  /\ revived' = revived \ {req[h].tour}
  /\ audit' = audit \cup {<<req[h].tour, "update">>}
  /\ Finish(h)
  /\ UNCHANGED soon

\* patch_tour writes scheduled_at, if it differs from the value loaded, and
\* nothing else: the status may have become CANCELLED.
CommitMove(h) ==
  /\ pc[h] = "commit"
  /\ req[h].kind = "move"
  /\ req[h].to # req[h].from => TourFree(h)
  /\ schedule' = ScheduleAfter(h)
  /\ slot' = IF req[h].to = req[h].from THEN slot
             ELSE [slot EXCEPT ![req[h].tour] = req[h].to]
  /\ revived' = IF req[h].to = req[h].from THEN revived ELSE revived \ {req[h].tour}
  /\ audit' = audit \cup {<<req[h].tour, "update">>}
  /\ Finish(h)
  /\ UNCHANGED <<status, soon>>

SaveNote(h) ==
  /\ pc[h] = "save"
  /\ req[h].kind = "note"
  /\ TourFree(h)
  /\ audit' = audit \cup {<<req[h].tour, "update">>}
  /\ Finish(h)
  /\ UNCHANGED <<schedule, status, slot, soon, revived>>

\* The status loaded decides; a cancellation committed since is overwritten.
SaveConfirm(h) ==
  /\ pc[h] = "save"
  /\ req[h].kind = "confirm"
  /\ req[h].seen = "PENDING"
  /\ TourFree(h)
  /\ status' = [status EXCEPT ![req[h].tour] = "CONFIRMED"]
  /\ revived' = IF status[req[h].tour] = "CANCELLED" THEN revived \cup {req[h].tour}
                ELSE revived
  /\ audit' = audit \cup {<<req[h].tour, "confirm">>}
  /\ Finish(h)
  /\ UNCHANGED <<schedule, slot, soon>>

\* A confirmed tour is confirmed once more in the audit log only.
ConfirmAgain(h) ==
  /\ pc[h] = "save"
  /\ req[h].kind = "confirm"
  /\ req[h].seen = "CONFIRMED"
  /\ audit' = audit \cup {<<req[h].tour, "confirm">>}
  /\ Finish(h)
  /\ UNCHANGED <<schedule, status, slot, soon, revived>>

\* Only a cancellation by an account is audited; it is also when the tour had
\* been cancelled before and nothing is written.
SaveCancel(h) ==
  /\ pc[h] = "save"
  /\ req[h].kind \in {"cancel", "guest_cancel"}
  /\ req[h].seen # "CANCELLED" => TourFree(h)
  /\ status' = IF req[h].seen = "CANCELLED" THEN status
               ELSE [status EXCEPT ![req[h].tour] = "CANCELLED"]
  /\ revived' = IF req[h].seen = "CANCELLED" THEN revived ELSE revived \ {req[h].tour}
  /\ audit' = IF req[h].kind = "cancel" THEN audit \cup {<<req[h].tour, "cancel">>}
              ELSE audit
  /\ Finish(h)
  /\ UNCHANGED <<schedule, slot, soon>>

\* Only the columns that the edit changes are written.
Edited(now, read, want) ==
  [capacity |-> IF want.capacity = read.capacity THEN now.capacity ELSE want.capacity,
   auto |-> IF want.auto = read.auto THEN now.auto ELSE want.auto,
   open |-> IF want.open = read.open THEN now.open ELSE want.open]

WriteSchedule(h) ==
  /\ pc[h] = "write"
  /\ req[h].want # req[h].row => ScheduleFree(h)
  /\ schedule' = Edited(ScheduleAfter(h), req[h].row, req[h].want)
  /\ Finish(h)
  /\ UNCHANGED <<status, slot, soon, audit, revived>>

-----------------------------------------------------------------------------
(* Failures and time. *)

\* Two reschedules of one tour: h has flushed the lead fields and waits for
\* the schedule, g holds the schedule and waits for the tour.
Deadlocked(h) ==
  /\ pc[h] \in {"lock", "insert"}
  /\ req[h].flushed
  /\ \E g \in Handler \ {h} :
       /\ pc[g] = "commit"
       /\ req[g].kind = "move"
       /\ req[g].tour = req[h].tour
       /\ req[g].to # req[g].from

\* PostgreSQL ends one of them.
BreakDeadlock(h) ==
  /\ Deadlocked(h)
  /\ Finish(h)
  /\ UNCHANGED rows

\* The connection or the worker dies, or the request is cancelled.
Crash(h) ==
  /\ pc[h] # "idle"
  /\ Finish(h)
  /\ UNCHANGED rows

\* A slot comes inside the notice period.
Approach(s) ==
  /\ s \notin soon
  /\ soon' = soon \cup {s}
  /\ UNCHANGED <<schedule, status, slot, audit, revived, pc, req>>

-----------------------------------------------------------------------------

Arrive(h) ==
  \/ \E t \in Tour, s \in Slot : AskForTour(h, t, s) \/ ReadForMove(h, t, s)
  \/ \E t \in Tour : ReadForNote(h, t) \/ ReadForConfirm(h, t) \/ ReadForCancel(h, t)
  \/ \E e \in ScheduleRow : ReadSchedule(h, e)

Continue(h) ==
  \/ FlushLead(h)
  \/ LockSchedule(h)
  \/ InsertSchedule(h)
  \/ ScheduleExists(h)
  \/ AcceptSlot(h)
  \/ RefuseSlot(h)
  \/ CommitTour(h)
  \/ CommitMove(h)
  \/ SaveNote(h)
  \/ SaveConfirm(h)
  \/ ConfirmAgain(h)
  \/ SaveCancel(h)
  \/ WriteSchedule(h)
  \/ BreakDeadlock(h)

Next ==
  \/ \E h \in Handler : Arrive(h) \/ Continue(h) \/ Crash(h)
  \/ \E s \in Late : Approach(s)

Spec == Init /\ [][Next]_vars

\* PostgreSQL queues the waiters of a lock and breaks cycles of them.
FairSpec == Spec /\ \A h \in Handler : SF_vars(Continue(h))

-----------------------------------------------------------------------------

TypeOK ==
  /\ schedule \in ScheduleRow \cup {NoRow}
  /\ status \in [Tour -> TourStatus]
  /\ slot \in [Tour -> Slot \cup {NoSlot}]
  /\ soon \subseteq Slot
  /\ audit \subseteq Tour \X AuditActions
  /\ revived \subseteq Tour
  /\ pc \in [Handler -> Steps]
  /\ req \in [Handler -> Request]
  /\ \A h \in Handler : pc[h] \in {"count", "commit"} => req[h].row \in ScheduleRow

\* The tours whose place in a slot was checked.
Placed(s) == Taken(s) \ revived

KeepsCapacity ==
  \A s \in Slot :
    \/ Placed(s)' \subseteq Placed(s)
    \/ schedule' # NoRow /\ Cardinality(Placed(s)') <= schedule'.capacity

\* A step that places another tour in a slot leaves no more tours there than
\* the committed schedule allows, also when the schedule row is created by the
\* booking itself, edited meanwhile, or when tours move in and out.  (Tours that
\* are there already may be too many: capacity_per_slot can be lowered.)
PlacedWithinCapacity == [][KeepsCapacity]_vars

FollowsSchedule ==
  \A t \in Tour :
    /\ slot'[t] # slot[t] => schedule' # NoRow /\ slot'[t] \in schedule'.open
    /\ status[t] = "NONE" /\ status'[t] # "NONE" => status'[t] = NewStatus(schedule')

\* A booking gets a slot that the schedule committed at that moment opens, and
\* the status that its auto_confirm asks for: an edit never slips in between
\* the check and the commit.  A moved tour gets an open slot too.
BookedAsOffered == [][FollowsSchedule]_vars

FollowsStaff ==
  \A t \in Tour :
    status'[t] # status[t] /\ status[t] # "NONE" =>
      /\ status'[t] # "PENDING"
      /\ status'[t] = "CONFIRMED" => <<t, "confirm">> \in audit'

\* Unless the schedule confirmed it when it was booked, a tour is confirmed by
\* a member of staff whose action is in the audit log; and no tour goes back to
\* PENDING.
ConfirmedByStaff == [][FollowsStaff]_vars

\* Every request ends: waits for the schedule and for tours form no cycle that
\* lasts.
RequestsFinish == \A h \in Handler : (pc[h] # "idle") ~> (pc[h] = "idle")
=============================================================================
