--------------------------- MODULE TourSlotsProofs ---------------------------
(***************************************************************************)
(* Slots are filled within capacity and as offered, for any number of      *)
(* tours, slots, schedules and overlapping handlers; and as long as        *)
(* cancellations stay apart from other decisions about the same tour, the  *)
(* handlers implement the atomic operations of TourBook.                   *)
(***************************************************************************)
EXTENDS TourClaims, FiniteSetTheorems, TLAPS

-----------------------------------------------------------------------------
(* The inductive invariant.                                                *)

ForTour == {"note", "confirm", "cancel", "guest_cancel"}

\* What the next statement of a handler says about its request.
RequestOK ==
  \A h \in Handler :
    /\ pc[h] = "idle" => req[h] = NoRequest
    /\ pc[h] \in {"lead", "lock", "count", "commit"} => req[h].kind \in {"create", "move"}
    /\ pc[h] = "insert" => req[h].kind \in {"create", "move", "edit"}
    /\ pc[h] = "save" => req[h].kind \in ForTour
    /\ pc[h] = "write" => req[h].kind = "edit" /\ req[h].row \in ScheduleRow
    /\ req[h].kind = "edit" => req[h].want \in ScheduleRow
    /\ req[h].kind \in {"create", "move"} => req[h].to \in Slot
    /\ req[h].kind \in {"create", "move"} \cup ForTour => req[h].tour \in Tour
    /\ req[h].kind \in {"none", "edit"} => req[h].tour = NoTour
    /\ req[h].kind \in {"move"} \cup ForTour => status[req[h].tour] # "NONE"

\* A tour that is being created is new, and nobody else knows it.
CreatesOK ==
  \A h \in Handler : req[h].kind = "create" =>
    /\ status[req[h].tour] = "NONE"
    /\ \A g \in Handler \ {h} : req[g].tour # req[h].tour

\* The lock of the schedule row, the row being inserted included, is exclusive.
LockOK ==
  \A g, h \in Handler : HoldsSchedule(g) /\ HoldsSchedule(h) => g = h

\* Who holds the lock knows the committed row, or that there is none yet.
FreshOK ==
  \A h \in Handler :
    /\ pc[h] \in {"count", "commit"} /\ ~ req[h].inserted => schedule = req[h].row
    /\ req[h].inserted => /\ schedule = NoRow
                          /\ req[h].row = Default
                          /\ pc[h] \in {"count", "commit", "write"}
    /\ pc[h] = "write" /\ ~ req[h].inserted => schedule # NoRow

\* An accepted slot stays open and keeps its room until the commit.
RoomOK ==
  \A h \in Handler : pc[h] = "commit" =>
    /\ req[h].to \in req[h].row.open
    /\ Cardinality(Placed(req[h].to)) < req[h].row.capacity

IInv == TypeOK /\ RequestOK /\ CreatesOK /\ LockOK /\ FreshOK /\ RoomOK

-----------------------------------------------------------------------------
(* Schedule rows and slots.                                                *)

\* The column defaults make a schedule row.
LEMMA DefaultIsRow == Default \in ScheduleRow /\ NoRow # Default
  <1>1. DefaultCapacity \in Capacities /\ DefaultOpen \in Openings /\ NoRow \notin ScheduleRow
    BY TourRulesAssumption
  <1>2. Default \in ScheduleRow
    BY <1>1 DEF Default, ScheduleRow
  <1>. QED BY <1>1, <1>2

\* An edit writes a schedule row, and the row itself when nothing changes.
LEMMA EditedIsRow ==
  ASSUME NEW now \in ScheduleRow, NEW read \in ScheduleRow, NEW want \in ScheduleRow
  PROVE  /\ Edited(now, read, want) \in ScheduleRow
         /\ Edited(now, read, read) = now
  <1>1. now.capacity \in Capacities /\ want.capacity \in Capacities
    BY DEF ScheduleRow
  <1>2. now.auto \in BOOLEAN /\ want.auto \in BOOLEAN /\ now.open \in Openings /\ want.open \in Openings
    BY DEF ScheduleRow
  <1>3. Edited(now, read, want) \in ScheduleRow
    BY <1>1, <1>2 DEF Edited, ScheduleRow
  <1>4. Edited(now, read, read) = now
    BY DEF Edited, ScheduleRow
  <1>. QED BY <1>3, <1>4

\* The tours of a slot are finitely many.
LEMMA PlacedFinite ==
  ASSUME NEW s
  PROVE  /\ IsFiniteSet(Placed(s)) /\ IsFiniteSet(Taken(s))
         /\ Cardinality(Placed(s)) \in Nat /\ Cardinality(Taken(s)) \in Nat
         /\ Cardinality(Placed(s)) <= Cardinality(Taken(s))
  <1>1. Taken(s) \subseteq Tour /\ Placed(s) \subseteq Taken(s)
    BY DEF Taken, Placed
  <1>2. IsFiniteSet(Taken(s))
    BY <1>1, FS_Subset, TourRulesAssumption
  <1>3. IsFiniteSet(Placed(s)) /\ Cardinality(Placed(s)) <= Cardinality(Taken(s))
    BY <1>1, <1>2, FS_Subset
  <1>. QED BY <1>2, <1>3, FS_CardinalityType

-----------------------------------------------------------------------------
(* Steps that leave the other handlers and most rows alone.                *)

\* Only h's control and request change.
Only(h) ==
  /\ \A g \in Handler \ {h} : pc'[g] = pc[g] /\ req'[g] = req[g]
  /\ pc' \in [Handler -> Steps]
  /\ req' \in [Handler -> Request]

\* Ending a request changes that request only.
LEMMA FinishOnly ==
  ASSUME TypeOK, NEW h \in Handler, Finish(h)
  PROVE  Only(h) /\ pc'[h] = "idle" /\ req'[h] = NoRequest
  <1>1. NoRequest \in Request
    BY DEF NoRequest, Request, TourStatus
  <1>. QED BY <1>1 DEF TypeOK, Finish, Only, Steps

\* A request that ends, and does not place a tour, keeps the invariant: the
\* tours keep their place or lose it, and no tour is forgotten.
LEMMA FinishKeeps ==
  ASSUME IInv, NEW h \in Handler, Finish(h),
         schedule' = schedule, slot' = slot, soon' = soon,
         status' \in [Tour -> TourStatus],
         audit' \subseteq Tour \X AuditActions,
         revived' \subseteq Tour,
         \A t \in Tour : status'[t] = "NONE" <=> status[t] = "NONE",
         \A s \in Slot : Placed(s)' \subseteq Placed(s)
  PROVE  IInv'
  <1>. USE DEF IInv
  <1>1. Only(h) /\ pc'[h] = "idle" /\ req'[h] = NoRequest
    BY FinishOnly
  <1>2. TypeOK'
    BY <1>1 DEF TypeOK, Only
  <1>3. RequestOK'
    <2>. SUFFICES ASSUME NEW g \in Handler PROVE RequestOK!(g)'
      BY DEF RequestOK
    <2>1. CASE g = h
      BY <1>1, <2>1 DEF NoRequest, ForTour
    <2>2. CASE g # h
      <3>1. pc'[g] = pc[g] /\ req'[g] = req[g]
        BY <1>1, <2>2 DEF Only
      <3>. QED BY <3>1 DEF RequestOK, ForTour
    <2>. QED BY <2>1, <2>2
  <1>4. CreatesOK'
    <2>. SUFFICES ASSUME NEW g \in Handler, req'[g].kind = "create" PROVE CreatesOK!(g)'
      BY DEF CreatesOK
    <2>1. g # h /\ req'[g] = req[g]
      BY <1>1 DEF Only, NoRequest
    <2>2. req[g].tour \in Tour
      BY <2>1 DEF RequestOK
    <2>3. \A f \in Handler \ {g} : req'[f].tour # req'[g].tour
      BY <1>1, <2>1, <2>2, TourRulesAssumption DEF CreatesOK, Only, NoRequest
    <2>. QED BY <2>1, <2>2, <2>3 DEF CreatesOK
  <1>5. \A g \in Handler : g # h => (HoldsSchedule(g)' <=> HoldsSchedule(g))
    BY <1>1 DEF Only, HoldsSchedule
  <1>6. ~ HoldsSchedule(h)'
    BY <1>1 DEF HoldsSchedule, NoRequest
  <1>7. LockOK'
    BY <1>5, <1>6 DEF LockOK
  <1>8. FreshOK'
    <2>. SUFFICES ASSUME NEW g \in Handler PROVE FreshOK!(g)'
      BY DEF FreshOK
    <2>1. CASE g = h
      BY <1>1, <2>1 DEF NoRequest
    <2>2. CASE g # h
      BY <1>1, <2>2 DEF Only, FreshOK
    <2>. QED BY <2>1, <2>2
  <1>9. RoomOK'
    <2>1. \A s \in Slot : Cardinality(Placed(s)') <= Cardinality(Placed(s))
                          /\ Cardinality(Placed(s)') \in Nat
      <3>. SUFFICES ASSUME NEW s \in Slot
                    PROVE  Cardinality(Placed(s)') <= Cardinality(Placed(s))
                           /\ Cardinality(Placed(s)') \in Nat
        OBVIOUS
      <3>1. IsFiniteSet(Placed(s)) /\ Placed(s)' \subseteq Placed(s)
        BY PlacedFinite
      <3>2. IsFiniteSet(Placed(s)') /\ Cardinality(Placed(s)') <= Cardinality(Placed(s))
        BY <3>1, FS_Subset
      <3>. QED BY <3>2, FS_CardinalityType
    <2>. SUFFICES ASSUME NEW g \in Handler, pc'[g] = "commit"
                  PROVE  /\ req'[g].to \in req'[g].row.open
                         /\ (Cardinality(Placed(req[g].to)) < req[g].row.capacity)'
      BY DEF RoomOK
    <2>2. pc[g] = "commit" /\ req'[g] = req[g]
      BY <1>1 DEF Only
    <2>3. req[g].to \in Slot /\ req[g].row.capacity \in Nat
      BY <2>2, TourRulesAssumption DEF RequestOK, TypeOK, ScheduleRow
    <2>4. Cardinality(Placed(req[g].to)) < req[g].row.capacity /\ req[g].to \in req[g].row.open
      BY <2>2 DEF RoomOK
    <2>5. \A s \in Slot : Cardinality(Placed(s)) \in Nat
      BY PlacedFinite
    <2>6. \A s \in Slot : s = req[g].to => Placed(req[g].to)' = Placed(s)'
      BY <2>2 DEF Placed, Taken
    <2>. QED BY <2>1, <2>2, <2>3, <2>4, <2>5, <2>6
  <1>. QED BY <1>2, <1>3, <1>4, <1>7, <1>8, <1>9

\* A step of one handler that writes no row keeps the invariant if it keeps the
\* handler's own part, takes the lock only if it is free, and takes up no tour
\* that another handler is creating.
LEMMA StepKeeps ==
  ASSUME IInv, NEW h \in Handler, Only(h), UNCHANGED rows,
         TypeOK',
         RequestOK!(h)', CreatesOK!(h)', FreshOK!(h)', RoomOK!(h)',
         HoldsSchedule(h)' => HoldsSchedule(h) \/ ScheduleFree(h),
         \A g \in Handler \ {h} : req[g].kind = "create" => req'[h].tour # req[g].tour
  PROVE  IInv'
  <1>. USE DEF IInv
  <1>0. \A g \in Handler \ {h} : pc'[g] = pc[g] /\ req'[g] = req[g]
    BY DEF Only
  <1>1. RequestOK'
    <2>. SUFFICES ASSUME NEW g \in Handler, g # h PROVE RequestOK!(g)'
      BY DEF RequestOK
    <2>. QED BY <1>0 DEF RequestOK, rows
  <1>2. CreatesOK'
    <2>. SUFFICES ASSUME NEW g \in Handler, g # h PROVE CreatesOK!(g)'
      BY DEF CreatesOK
    <2>. QED BY <1>0 DEF CreatesOK, rows
  <1>3. \A g \in Handler \ {h} : HoldsSchedule(g)' <=> HoldsSchedule(g)
    BY <1>0 DEF HoldsSchedule
  <1>4. LockOK'
    BY <1>3 DEF LockOK, ScheduleFree
  <1>5. FreshOK'
    <2>. SUFFICES ASSUME NEW g \in Handler, g # h PROVE FreshOK!(g)'
      BY DEF FreshOK
    <2>. QED BY <1>0 DEF FreshOK, rows
  <1>6. RoomOK'
    <2>. SUFFICES ASSUME NEW g \in Handler, g # h PROVE RoomOK!(g)'
      BY DEF RoomOK
    <2>. QED BY <1>0 DEF RoomOK, Placed, Taken, rows
  <1>. QED BY <1>1, <1>2, <1>4, <1>5, <1>6

-----------------------------------------------------------------------------
(* Initial states. *)

\* The invariant holds before the first request.
LEMMA InitIInv == Init => IInv
  <1>. SUFFICES ASSUME Init PROVE IInv
    OBVIOUS
  <1>1. \A h \in Handler : pc[h] = "idle" /\ req[h] = NoRequest
    BY DEF Init
  <1>2. NoRequest \in Request
    BY DEF NoRequest, Request, TourStatus
  <1>3. TypeOK
    BY <1>1, <1>2 DEF Init, TypeOK, TourStatus, Steps
  <1>4. \A h \in Handler : /\ req[h].kind = "none" /\ req[h].tour = NoTour
                           /\ ~ req[h].inserted /\ pc[h] = "idle"
    BY <1>1 DEF NoRequest
  <1>6. RequestOK /\ CreatesOK
    BY <1>1, <1>4 DEF RequestOK, CreatesOK, ForTour
  <1>7. FreshOK /\ RoomOK
    BY <1>4 DEF FreshOK, RoomOK
  <1>5. LockOK
    BY <1>1 DEF LockOK, HoldsSchedule, NoRequest
  <1>. QED BY <1>3, <1>5, <1>6, <1>7 DEF IInv

-----------------------------------------------------------------------------
(* Arrivals. *)

\* A request begins without a lock.
LEMMA BeginKeeps ==
  ASSUME IInv, NEW h \in Handler, NEW step \in {"lead", "lock", "insert", "save", "write"},
         NEW r \in Request, Begin(h, step, r), ~ r.inserted,
         step \in {"lead", "lock"} => r.kind \in {"create", "move"},
         step = "insert" => r.kind = "edit",
         step = "save" => r.kind \in ForTour,
         step = "write" => r.kind = "edit" /\ r.row \in ScheduleRow /\ schedule # NoRow,
         r.kind = "edit" => r.want \in ScheduleRow /\ r.tour = NoTour,
         r.kind # "none",
         r.kind \in {"create", "move"} => r.to \in Slot,
         r.kind \in {"create", "move"} \cup ForTour => r.tour \in Tour,
         r.kind \in {"move"} \cup ForTour => status[r.tour] # "NONE",
         r.kind = "create" => status[r.tour] = "NONE"
                              /\ \A g \in Handler : req[g].tour # r.tour
  PROVE  IInv'
  <1>. USE DEF IInv
  <1>1. pc'[h] = step /\ req'[h] = r
    BY DEF Begin, TypeOK
  <1>2. Only(h) /\ UNCHANGED rows
    BY DEF Only, Begin, TypeOK, Steps
  <1>3. TypeOK'
    <2>1. \A g \in Handler : pc'[g] \in {"count", "commit"} => req'[g].row \in ScheduleRow
      BY <1>1, <1>2 DEF TypeOK, Only
    <2>. QED BY <1>2, <2>1 DEF TypeOK, Only, rows
  <1>4. RequestOK!(h)'
    BY <1>1, <1>2 DEF rows, ForTour
  <1>5. CreatesOK!(h)'
    BY <1>1, <1>2 DEF rows, Only
  <1>6. FreshOK!(h)' /\ RoomOK!(h)'
    BY <1>1, <1>2 DEF rows
  <1>7. ~ HoldsSchedule(h)'
    BY <1>1 DEF HoldsSchedule
  <1>8. \A g \in Handler \ {h} : req[g].kind = "create" => req'[h].tour # req[g].tour
    <2>. SUFFICES ASSUME NEW g \in Handler \ {h}, req[g].kind = "create"
                  PROVE  r.tour # req[g].tour
      BY <1>1
    <2>1. status[req[g].tour] = "NONE" /\ req[g].tour \in Tour
      BY DEF CreatesOK, RequestOK
    <2>2. r.kind \in {"create", "edit", "move"} \cup ForTour
      BY DEF Request, Kinds, ForTour
    <2>. QED BY <2>1, <2>2, TourRulesAssumption
  <1>. QED BY <1>2, <1>3, <1>4, <1>5, <1>6, <1>7, <1>8, StepKeeps

\* Whatever arrives, the invariant is kept.
LEMMA ArriveKeeps ==
  ASSUME IInv, NEW h \in Handler, Arrive(h)
  PROVE  IInv'
  <1>. USE DEF IInv
  <1>1. ASSUME NEW t \in Tour, NEW s \in Slot, AskForTour(h, t, s) PROVE IInv'
    <2>. DEFINE r == [NoRequest EXCEPT !.kind = "create", !.tour = t, !.to = s]
    <2>1. r \in Request /\ r.kind = "create" /\ r.tour = t /\ r.to = s /\ ~ r.inserted
      BY DEF NoRequest, Request, Kinds, TourStatus
    <2>2. Begin(h, "lock", r) /\ status[t] = "NONE" /\ \A g \in Handler : req[g].tour # t
      BY <1>1 DEF AskForTour
    <2>. HIDE DEF r
    <2>. QED BY <2>1, <2>2, BeginKeeps DEF ForTour
  <1>2. ASSUME NEW t \in Tour, NEW kind \in ForTour \cup {"move"}
        PROVE  LET r == Loaded(kind, t)
               IN  r \in Request /\ r.kind = kind /\ r.tour = t /\ ~ r.inserted
    BY <1>2 DEF Loaded, NoRequest, Request, Kinds, ForTour, TypeOK
  <1>3. ASSUME NEW t \in Tour, NEW s \in Slot, ReadForMove(h, t, s) PROVE IInv'
    <2>. DEFINE r == [Loaded("move", t) EXCEPT !.to = s]
    <2>1. r \in Request /\ r.kind = "move" /\ r.tour = t /\ r.to = s /\ ~ r.inserted
      BY DEF Loaded, NoRequest, Request, Kinds, TypeOK
    <2>2. PICK first \in {"lead", "lock"} : Begin(h, first, r)
      BY <1>3 DEF ReadForMove
    <2>3. status[t] # "NONE"
      BY <1>3 DEF ReadForMove, Active
    <2>. HIDE DEF r
    <2>. QED BY <2>1, <2>2, <2>3, BeginKeeps DEF ForTour
  <1>4. ASSUME NEW t \in Tour, NEW kind \in ForTour, Begin(h, "save", Loaded(kind, t)),
               status[t] # "NONE"
        PROVE  IInv'
    <2>. DEFINE r == Loaded(kind, t)
    <2>1. r \in Request /\ r.kind = kind /\ r.tour = t /\ ~ r.inserted
      BY <1>2
    <2>2. Begin(h, "save", r)
      BY <1>4
    <2>. HIDE DEF r
    <2>. QED BY <1>4, <2>1, <2>2, BeginKeeps DEF ForTour
  <1>5. ASSUME NEW t \in Tour,
               ReadForNote(h, t) \/ ReadForConfirm(h, t) \/ ReadForCancel(h, t)
        PROVE  IInv'
    BY <1>4, <1>5 DEF ReadForNote, ReadForConfirm, ReadForCancel, ForTour, Active
  <1>6. ASSUME NEW e \in ScheduleRow, ReadSchedule(h, e) PROVE IInv'
    <2>. DEFINE r == [NoRequest EXCEPT !.kind = "edit", !.row = schedule, !.want = e]
                step == IF schedule = NoRow THEN "insert" ELSE "write"
    <2>1. r \in Request /\ r.kind = "edit" /\ r.tour = NoTour /\ r.want = e
          /\ r.row = schedule /\ ~ r.inserted
      BY DEF NoRequest, Request, Kinds, TypeOK, TourStatus
    <2>2. Begin(h, step, r) /\ step \in {"insert", "write"}
          /\ (step = "write" => schedule # NoRow /\ schedule \in ScheduleRow)
      BY <1>6 DEF ReadSchedule, TypeOK
    <2>. HIDE DEF r, step
    <2>. QED BY <2>1, <2>2, BeginKeeps DEF ForTour
  <1>. QED BY <1>1, <1>3, <1>5, <1>6 DEF Arrive

-----------------------------------------------------------------------------
(* The slot check. *)

\* Flushing the lead fields locks the tour, not the schedule.
LEMMA FlushLeadKeeps ==
  ASSUME IInv, NEW h \in Handler, FlushLead(h) PROVE IInv'
  <1>. USE DEF IInv
  <1>1. /\ pc[h] = "lead" /\ pc'[h] = "lock" /\ UNCHANGED rows
        /\ req'[h] = [req[h] EXCEPT !.flushed = TRUE]
    BY DEF FlushLead, Goto, TypeOK
  <1>2. Only(h)
    <2>1. [req[h] EXCEPT !.flushed = TRUE] \in Request
      BY DEF TypeOK, Request
    <2>. QED BY <2>1 DEF Only, FlushLead, Goto, TypeOK, Steps
  <1>3. /\ req'[h].kind = req[h].kind /\ req'[h].tour = req[h].tour /\ req'[h].to = req[h].to
        /\ req'[h].want = req[h].want /\ req'[h].inserted = req[h].inserted
    BY <1>1 DEF TypeOK, Request
  <1>4. TypeOK'
    BY <1>1, <1>2 DEF TypeOK, Only, rows
  <1>5. ~ req[h].inserted
    BY <1>1 DEF FreshOK
  <1>6. RequestOK!(h)'
    BY <1>1, <1>3 DEF RequestOK, rows, ForTour
  <1>7. CreatesOK!(h)'
    BY <1>1, <1>2, <1>3 DEF CreatesOK, rows, Only
  <1>8. FreshOK!(h)' /\ RoomOK!(h)' /\ ~ HoldsSchedule(h)'
    BY <1>1, <1>3, <1>5 DEF HoldsSchedule
  <1>9. \A g \in Handler \ {h} : req[g].kind = "create" => req'[h].tour # req[g].tour
    BY <1>3 DEF CreatesOK
  <1>. QED BY <1>1, <1>2, <1>4, <1>6, <1>7, <1>8, <1>9, StepKeeps

\* The locked row is the committed one.
LEMMA LockScheduleKeeps ==
  ASSUME IInv, NEW h \in Handler, LockSchedule(h) PROVE IInv'
  <1>. USE DEF IInv
  <1>1. /\ pc[h] = "lock" /\ UNCHANGED rows
        /\ pc'[h] = IF schedule = NoRow THEN "insert" ELSE "count"
        /\ req'[h] = [req[h] EXCEPT !.row = schedule]
        /\ schedule = NoRow \/ ScheduleFree(h)
    BY DEF LockSchedule, Goto, TypeOK
  <1>2. Only(h)
    BY DEF Only, LockSchedule, Goto, TypeOK, Steps, Request
  <1>3. /\ req'[h].kind = req[h].kind /\ req'[h].tour = req[h].tour /\ req'[h].to = req[h].to
        /\ req'[h].want = req[h].want /\ req'[h].inserted = req[h].inserted
        /\ req'[h].row = schedule
    BY <1>1 DEF TypeOK, Request
  <1>4. TypeOK'
    BY <1>1, <1>2, <1>3 DEF TypeOK, Only, rows
  <1>5. ~ req[h].inserted
    BY <1>1 DEF FreshOK
  <1>6. RequestOK!(h)'
    BY <1>1, <1>3 DEF RequestOK, rows, ForTour
  <1>7. CreatesOK!(h)'
    BY <1>1, <1>2, <1>3 DEF CreatesOK, rows, Only
  <1>8. FreshOK!(h)' /\ RoomOK!(h)' /\ (HoldsSchedule(h)' => ScheduleFree(h))
    BY <1>1, <1>3, <1>5 DEF HoldsSchedule, rows
  <1>9. \A g \in Handler \ {h} : req[g].kind = "create" => req'[h].tour # req[g].tour
    BY <1>3 DEF CreatesOK
  <1>. QED BY <1>1, <1>2, <1>4, <1>6, <1>7, <1>8, <1>9, StepKeeps

\* The inserted row is locked until the commit, and there is no other.
LEMMA InsertScheduleKeeps ==
  ASSUME IInv, NEW h \in Handler, InsertSchedule(h) PROVE IInv'
  <1>. USE DEF IInv
  <1>1. /\ pc[h] = "insert" /\ UNCHANGED rows /\ ScheduleFree(h) /\ schedule = NoRow
        /\ pc'[h] = IF req[h].kind = "edit" THEN "write" ELSE "count"
        /\ req'[h] = [req[h] EXCEPT !.row = Default, !.inserted = TRUE]
    BY DEF InsertSchedule, Goto, TypeOK
  <1>2. Only(h)
    <2>1. [req[h] EXCEPT !.row = Default, !.inserted = TRUE] \in Request
      BY DefaultIsRow DEF TypeOK, Request
    <2>. QED BY <1>1, <2>1 DEF Only, InsertSchedule, Goto, TypeOK, Steps
  <1>3. /\ req'[h].kind = req[h].kind /\ req'[h].tour = req[h].tour /\ req'[h].to = req[h].to
        /\ req'[h].want = req[h].want /\ req'[h].inserted /\ req'[h].row = Default
    BY <1>1 DEF TypeOK, Request
  <1>4. TypeOK'
    BY <1>1, <1>2, <1>3, DefaultIsRow DEF TypeOK, Only, rows
  <1>6. RequestOK!(h)'
    BY <1>1, <1>3, DefaultIsRow DEF RequestOK, rows, ForTour
  <1>7. CreatesOK!(h)'
    BY <1>1, <1>2, <1>3 DEF CreatesOK, rows, Only
  <1>8. FreshOK!(h)' /\ RoomOK!(h)'
    BY <1>1, <1>3 DEF rows
  <1>9. \A g \in Handler \ {h} : req[g].kind = "create" => req'[h].tour # req[g].tour
    BY <1>3 DEF CreatesOK
  <1>. QED BY <1>1, <1>2, <1>4, <1>6, <1>7, <1>8, <1>9, StepKeeps

\* The count was taken under the lock.
LEMMA AcceptSlotKeeps ==
  ASSUME IInv, NEW h \in Handler, AcceptSlot(h) PROVE IInv'
  <1>. USE DEF IInv
  <1>1. pc[h] = "count" /\ UNCHANGED rows /\ pc'[h] = "commit" /\ req' = req /\ HasRoom(h)
    BY DEF AcceptSlot, Goto, TypeOK
  <1>2. Only(h)
    BY <1>1 DEF Only, AcceptSlot, Goto, TypeOK, Steps
  <1>3. req[h].row \in ScheduleRow /\ req[h].row.capacity \in Nat /\ req[h].to \in Slot
    BY <1>1, TourRulesAssumption DEF TypeOK, RequestOK, ScheduleRow
  <1>4. TypeOK'
    BY <1>1, <1>2, <1>3 DEF TypeOK, Only, rows
  <1>6. RequestOK!(h)'
    BY <1>1 DEF RequestOK, rows, ForTour
  <1>7. CreatesOK!(h)'
    BY <1>1, <1>2 DEF CreatesOK, rows, Only
  <1>8. FreshOK!(h)' /\ HoldsSchedule(h)
    BY <1>1 DEF rows, FreshOK, HoldsSchedule
  <1>9. Cardinality(Placed(req[h].to)) < req[h].row.capacity /\ req[h].to \in req[h].row.open
    BY <1>1, <1>3, PlacedFinite DEF HasRoom
  <1>10. RoomOK!(h)'
    BY <1>1, <1>9 DEF Placed, Taken, rows
  <1>11. \A g \in Handler \ {h} : req[g].kind = "create" => req'[h].tour # req[g].tour
    BY <1>1 DEF CreatesOK
  <1>. QED BY <1>1, <1>2, <1>4, <1>6, <1>7, <1>8, <1>10, <1>11, StepKeeps

-----------------------------------------------------------------------------
(* Commits. *)

\* A statement that commits nothing about tours or schedule, or fails.
LEMMA EndKeeps ==
  ASSUME IInv, NEW h \in Handler, Finish(h), UNCHANGED rows PROVE IInv'
  <1>1. \A s \in Slot : Placed(s)' = Placed(s)
    BY DEF Placed, Taken, rows
  <1>. QED BY <1>1, FinishKeeps DEF IInv, TypeOK, rows

\* Saving the status or the notes of a tour places no tour.
LEMMA SaveKeeps ==
  ASSUME IInv, NEW h \in Handler,
         SaveNote(h) \/ SaveConfirm(h) \/ ConfirmAgain(h) \/ SaveCancel(h)
  PROVE  IInv' /\ KeepsCapacity /\ FollowsSchedule /\ FollowsStaff
  <1>. USE DEF IInv
  <1>. DEFINE t0 == req[h].tour
  <1>1. t0 \in Tour /\ status[t0] # "NONE"
    BY DEF SaveNote, SaveConfirm, ConfirmAgain, SaveCancel, RequestOK, ForTour
  <1>2. /\ Finish(h) /\ schedule' = schedule /\ slot' = slot /\ soon' = soon
    BY DEF SaveNote, SaveConfirm, ConfirmAgain, SaveCancel
  <1>. HIDE DEF t0
  <1>3. audit' \subseteq Tour \X AuditActions
    BY <1>1 DEF SaveNote, SaveConfirm, ConfirmAgain, SaveCancel, TypeOK, AuditActions, t0
  <1>4. CASE UNCHANGED <<status, revived>>
    <2>1. \A s \in Slot : Placed(s)' = Placed(s)
      BY <1>2, <1>4 DEF Placed, Taken
    <2>2. IInv'
      BY <1>2, <1>3, <1>4, <2>1, FinishKeeps DEF TypeOK
    <2>. QED BY <1>2, <1>4, <2>1, <2>2 DEF KeepsCapacity, FollowsSchedule, FollowsStaff
  <1>5. CASE SaveConfirm(h)
    <2>1. /\ status' = [status EXCEPT ![t0] = "CONFIRMED"]
          /\ revived' = IF status[t0] = "CANCELLED" THEN revived \cup {t0} ELSE revived
          /\ <<t0, "confirm">> \in audit'
      BY <1>5 DEF SaveConfirm, t0
    <2>2. status' \in [Tour -> TourStatus] /\ revived' \subseteq Tour
      BY <1>1, <2>1 DEF TypeOK, TourStatus
    <2>3. \A t \in Tour : t # t0 => status'[t] = status[t]
      BY <2>1 DEF TypeOK
    <2>4. status'[t0] = "CONFIRMED"
      BY <1>1, <2>1 DEF TypeOK
    <2>5. ASSUME NEW s \in Slot, NEW t \in Placed(s)' PROVE t \in Placed(s)
      <3>1. t \in Tour /\ status'[t] \in Active /\ slot[t] = s /\ t \notin revived'
        BY <1>2, <2>5 DEF Placed, Taken
      <3>2. t = t0 => status[t] # "CANCELLED"
        BY <2>1, <3>1
      <3>3. status[t] \in Active
        BY <1>1, <2>3, <3>1, <3>2 DEF TypeOK, TourStatus, Active
      <3>. QED BY <2>1, <3>1, <3>3 DEF Placed, Taken
    <2>6. \A s \in Slot : Placed(s)' \subseteq Placed(s)
      BY <2>5
    <2>7. \A t \in Tour : status'[t] = "NONE" <=> status[t] = "NONE"
      BY <1>1, <2>3, <2>4
    <2>8. IInv'
      BY <1>2, <1>3, <2>2, <2>6, <2>7, FinishKeeps
    <2>. QED BY <1>2, <2>1, <2>3, <2>4, <2>6, <2>7, <2>8
             DEF KeepsCapacity, FollowsSchedule, FollowsStaff
  <1>6. CASE SaveCancel(h) /\ req[h].seen # "CANCELLED"
    <2>1. /\ status' = [status EXCEPT ![t0] = "CANCELLED"]
          /\ revived' = revived \ {t0}
      BY <1>6 DEF SaveCancel, t0
    <2>2. status' \in [Tour -> TourStatus] /\ revived' \subseteq Tour
      BY <1>1, <2>1 DEF TypeOK, TourStatus
    <2>3. \A t \in Tour : t # t0 => status'[t] = status[t]
      BY <2>1 DEF TypeOK
    <2>4. status'[t0] = "CANCELLED"
      BY <1>1, <2>1 DEF TypeOK
    <2>5. ASSUME NEW s \in Slot, NEW t \in Placed(s)' PROVE t \in Placed(s)
      <3>1. t \in Tour /\ status'[t] \in Active /\ slot[t] = s /\ t \notin revived'
        BY <1>2, <2>5 DEF Placed, Taken
      <3>2. t # t0
        BY <2>4, <3>1 DEF Active
      <3>. QED BY <2>1, <2>3, <3>1, <3>2 DEF Placed, Taken
    <2>6. \A s \in Slot : Placed(s)' \subseteq Placed(s)
      BY <2>5
    <2>7. \A t \in Tour : status'[t] = "NONE" <=> status[t] = "NONE"
      BY <1>1, <2>3, <2>4
    <2>8. IInv'
      BY <1>2, <1>3, <2>2, <2>6, <2>7, FinishKeeps
    <2>. QED BY <1>2, <2>3, <2>4, <2>6, <2>7, <2>8
             DEF KeepsCapacity, FollowsSchedule, FollowsStaff
  <1>. QED BY <1>4, <1>5, <1>6 DEF SaveNote, ConfirmAgain, SaveCancel

\* A commit under the schedule lock leaves the row that h knows.
LEMMA RowAfterCommit ==
  ASSUME IInv, NEW h \in Handler, pc[h] = "commit"
  PROVE  ScheduleAfter(h) = req[h].row /\ req[h].row \in ScheduleRow
  BY DEF IInv, FreshOK, TypeOK, ScheduleAfter

\* Placing the tour of a request fills its slot by one, and no other slot.
LEMMA PlaceKeeps ==
  ASSUME IInv, NEW h \in Handler, pc[h] = "commit", Finish(h),
         schedule' = ScheduleAfter(h), soon' = soon,
         status' \in [Tour -> TourStatus],
         slot' \in [Tour -> Slot \cup {NoSlot}],
         audit' \subseteq Tour \X AuditActions,
         revived' \subseteq Tour,
         \A t \in Tour : status[t] # "NONE" => status'[t] # "NONE",
         \A t \in Tour \ {req[h].tour} : status'[t] = status[t],
         \A s \in Slot : Placed(s)' \subseteq
            IF s = req[h].to THEN Placed(s) \cup {req[h].tour} ELSE Placed(s)
  PROVE  /\ IInv'
         /\ KeepsCapacity
  <1>. USE DEF IInv
  <1>0. Only(h) /\ pc'[h] = "idle" /\ req'[h] = NoRequest
    BY FinishOnly
  <1>1. /\ schedule' = req[h].row /\ req[h].row \in ScheduleRow /\ schedule' # NoRow
        /\ req[h].row.capacity \in Nat
    <2>1. schedule' = req[h].row /\ req[h].row \in ScheduleRow
      BY RowAfterCommit
    <2>2. NoRow \notin ScheduleRow /\ Capacities \subseteq Nat \ {0}
      BY TourRulesAssumption
    <2>3. req[h].row.capacity \in Capacities
      BY <2>1 DEF ScheduleRow
    <2>. QED BY <2>1, <2>2, <2>3
  <1>2. TypeOK'
    BY <1>0, <1>1 DEF TypeOK, Only
  <1>3. HoldsSchedule(h) /\ \A g \in Handler \ {h} : ~ HoldsSchedule(g)
    BY DEF HoldsSchedule, LockOK
  <1>4. \A g \in Handler \ {h} : ~ HoldsSchedule(g)'
    BY <1>0, <1>3 DEF Only, HoldsSchedule
  <1>5. LockOK' /\ ~ HoldsSchedule(h)'
    BY <1>0, <1>4 DEF LockOK, HoldsSchedule, NoRequest
  <1>6. FreshOK' /\ RoomOK'
    BY <1>0, <1>1, <1>4, <1>5 DEF FreshOK, RoomOK, HoldsSchedule, NoRequest
  <1>7. RequestOK'
    <2>. SUFFICES ASSUME NEW g \in Handler PROVE RequestOK!(g)'
      BY DEF RequestOK
    <2>1. CASE g = h
      BY <1>0, <2>1 DEF NoRequest, ForTour
    <2>2. CASE g # h
      <3>1. pc'[g] = pc[g] /\ req'[g] = req[g]
        BY <1>0, <2>2 DEF Only
      <3>. QED BY <3>1 DEF RequestOK, ForTour
    <2>. QED BY <2>1, <2>2
  <1>8. CreatesOK'
    <2>. SUFFICES ASSUME NEW g \in Handler, req'[g].kind = "create" PROVE CreatesOK!(g)'
      BY DEF CreatesOK
    <2>1. g # h /\ req'[g] = req[g]
      BY <1>0 DEF Only, NoRequest
    <2>2. req[g].tour \in Tour /\ req[g].tour # req[h].tour
      BY <2>1 DEF RequestOK, CreatesOK
    <2>3. \A f \in Handler \ {g} : req'[f].tour # req'[g].tour
      BY <1>0, <2>1, <2>2, TourRulesAssumption DEF CreatesOK, Only, NoRequest
    <2>. QED BY <2>1, <2>2, <2>3 DEF CreatesOK
  <1>9. ASSUME NEW s \in Slot, s = req[h].to
        PROVE  Cardinality(Placed(s)') <= schedule'.capacity
    <2>1. Cardinality(Placed(s)) < req[h].row.capacity /\ Cardinality(Placed(s)) \in Nat
      BY <1>9, PlacedFinite DEF RoomOK
    <2>. DEFINE larger == Placed(s) \cup {req[h].tour}
    <2>2. IsFiniteSet(larger) /\ Cardinality(larger) <= Cardinality(Placed(s)) + 1
      <3>1. IsFiniteSet(Placed(s))
        BY PlacedFinite
      <3>2. /\ IsFiniteSet(larger)
            /\ Cardinality(larger) = Cardinality(Placed(s))
               \/ Cardinality(larger) = Cardinality(Placed(s)) + 1
        BY <3>1, FS_AddElement
      <3>. QED BY <2>1, <3>2
    <2>3. Placed(s)' \subseteq larger
      BY <1>9
    <2>4. Cardinality(Placed(s)') <= Cardinality(larger) /\ IsFiniteSet(Placed(s)')
      BY <2>2, <2>3, FS_Subset
    <2>5. Cardinality(Placed(s)') \in Nat /\ Cardinality(larger) \in Nat
      BY <2>2, <2>4, FS_CardinalityType
    <2>. HIDE DEF larger
    <2>. QED BY <1>1, <2>1, <2>2, <2>4, <2>5
  <1>10. KeepsCapacity
    BY <1>1, <1>9 DEF KeepsCapacity
  <1>. QED BY <1>2, <1>5, <1>6, <1>7, <1>8, <1>10

\* A booking puts a new tour in its slot, with the status the row asks for.
LEMMA CommitTourKeeps ==
  ASSUME IInv, NEW h \in Handler, CommitTour(h)
  PROVE  /\ IInv'
         /\ KeepsCapacity
         /\ FollowsSchedule
         /\ FollowsStaff
  <1>. USE DEF IInv
  <1>. DEFINE t0 == req[h].tour  s0 == req[h].to
  <1>1. /\ pc[h] = "commit" /\ Finish(h) /\ UNCHANGED <<soon, audit, revived>>
        /\ schedule' = ScheduleAfter(h)
        /\ status' = [status EXCEPT ![t0] = NewStatus(req[h].row)]
        /\ slot' = [slot EXCEPT ![t0] = s0]
    BY DEF CommitTour
  <1>2. t0 \in Tour /\ status[t0] = "NONE" /\ s0 \in Slot /\ s0 \in req[h].row.open
    BY DEF CommitTour, RequestOK, CreatesOK, RoomOK
  <1>3. schedule' = req[h].row /\ schedule' # NoRow
    BY <1>1, RowAfterCommit, TourRulesAssumption
  <1>. HIDE DEF t0, s0
  <1>4. NewStatus(req[h].row) \in Active
    BY DEF NewStatus, Active
  <1>5. /\ status' \in [Tour -> TourStatus] /\ status'[t0] = NewStatus(schedule')
        /\ slot' \in [Tour -> Slot \cup {NoSlot}] /\ slot'[t0] = s0
        /\ \A t \in Tour \ {t0} : status'[t] = status[t] /\ slot'[t] = slot[t]
    BY <1>1, <1>2, <1>3, <1>4 DEF TypeOK, TourStatus, Active
  <1>6. ASSUME NEW s \in Slot
        PROVE  Placed(s)' \subseteq IF s = s0 THEN Placed(s) \cup {t0} ELSE Placed(s)
    <2>. SUFFICES ASSUME NEW t \in Placed(s)', t # t0 \/ s # s0 PROVE t \in Placed(s)
      OBVIOUS
    <2>1. t \in Tour /\ status'[t] \in Active /\ slot'[t] = s /\ t \notin revived
      BY <1>1 DEF Placed, Taken
    <2>2. t # t0
      BY <1>5, <2>1
    <2>. QED BY <1>5, <2>1, <2>2 DEF Placed, Taken
  <1>7. /\ audit' \subseteq Tour \X AuditActions /\ revived' \subseteq Tour
        /\ \A t \in Tour : status[t] # "NONE" => status'[t] # "NONE"
    BY <1>1, <1>2, <1>5 DEF TypeOK
  <1>8. IInv' /\ KeepsCapacity
    BY <1>1, <1>5, <1>6, <1>7, PlaceKeeps DEF t0, s0
  <1>9. FollowsSchedule
    BY <1>2, <1>3, <1>5 DEF FollowsSchedule
  <1>10. FollowsStaff
    BY <1>2, <1>5 DEF FollowsStaff
  <1>. QED BY <1>8, <1>9, <1>10

\* A reschedule moves a tour, whatever its status has become, and never counts
\* it as revived again.
LEMMA CommitMoveKeeps ==
  ASSUME IInv, NEW h \in Handler, CommitMove(h)
  PROVE  /\ IInv'
         /\ KeepsCapacity
         /\ FollowsSchedule
         /\ FollowsStaff
  <1>. USE DEF IInv
  <1>. DEFINE t0 == req[h].tour  s0 == req[h].to
  <1>1. /\ pc[h] = "commit" /\ Finish(h) /\ UNCHANGED <<status, soon>>
        /\ schedule' = ScheduleAfter(h)
        /\ audit' = audit \cup {<<t0, "update">>}
        /\ \/ UNCHANGED <<slot, revived>>
           \/ slot' = [slot EXCEPT ![t0] = s0] /\ revived' = revived \ {t0}
    BY DEF CommitMove
  <1>2. t0 \in Tour /\ s0 \in Slot /\ s0 \in req[h].row.open
    BY DEF CommitMove, RequestOK, RoomOK
  <1>3. schedule' = req[h].row /\ schedule' # NoRow
    BY <1>1, RowAfterCommit, TourRulesAssumption
  <1>. HIDE DEF t0, s0
  <1>4. status' \in [Tour -> TourStatus] /\ audit' \subseteq Tour \X AuditActions
    BY <1>1, <1>2 DEF TypeOK, AuditActions
  <1>5. /\ slot' \in [Tour -> Slot \cup {NoSlot}] /\ revived' \subseteq Tour
        /\ \A t \in Tour \ {t0} : slot'[t] = slot[t] /\ (t \in revived' <=> t \in revived)
        /\ (slot'[t0] = slot[t0] /\ revived' = revived) \/ slot'[t0] = s0
    BY <1>1, <1>2 DEF TypeOK
  <1>6. ASSUME NEW s \in Slot
        PROVE  Placed(s)' \subseteq IF s = s0 THEN Placed(s) \cup {t0} ELSE Placed(s)
    <2>. SUFFICES ASSUME NEW t \in Placed(s)', t # t0 \/ s # s0 PROVE t \in Placed(s)
      OBVIOUS
    <2>1. t \in Tour /\ status[t] \in Active /\ slot'[t] = s /\ t \notin revived'
      BY <1>1 DEF Placed, Taken
    <2>2. slot[t] = s /\ t \notin revived
      BY <1>5, <2>1
    <2>. QED BY <2>1, <2>2 DEF Placed, Taken
  <1>7. \A t \in Tour : status[t] # "NONE" => status'[t] # "NONE"
    BY <1>1
  <1>8. IInv' /\ KeepsCapacity
    BY <1>1, <1>4, <1>5, <1>6, <1>7, PlaceKeeps DEF t0, s0
  <1>9. FollowsSchedule /\ FollowsStaff
    BY <1>1, <1>2, <1>3, <1>5 DEF FollowsSchedule, FollowsStaff
  <1>. QED BY <1>8, <1>9

\* An edit writes the row only while nobody relies on it, and never removes it.
LEMMA WriteScheduleKeeps ==
  ASSUME IInv, NEW h \in Handler, WriteSchedule(h)
  PROVE  IInv' /\ KeepsCapacity /\ FollowsSchedule /\ FollowsStaff
  <1>. USE DEF IInv
  <1>1. /\ pc[h] = "write" /\ Finish(h)
        /\ UNCHANGED <<status, slot, soon, audit, revived>>
        /\ schedule' = Edited(ScheduleAfter(h), req[h].row, req[h].want)
        /\ req[h].want # req[h].row => ScheduleFree(h)
    BY DEF WriteSchedule
  <1>2. /\ req[h].row \in ScheduleRow /\ req[h].want \in ScheduleRow
        /\ ScheduleAfter(h) \in ScheduleRow
        /\ req[h].inserted => ScheduleAfter(h) = req[h].row
        /\ ~ req[h].inserted => ScheduleAfter(h) = schedule
    BY <1>1, DefaultIsRow DEF RequestOK, FreshOK, ScheduleAfter, TypeOK
  <1>3. schedule' \in ScheduleRow /\ (req[h].want = req[h].row => schedule' = ScheduleAfter(h))
    BY <1>1, <1>2, EditedIsRow
  <1>4. \A s \in Slot : Placed(s)' = Placed(s)
    BY <1>1 DEF Placed, Taken
  <1>5. IInv'
    <2>1. CASE req[h].want = req[h].row /\ ~ req[h].inserted
      BY <1>1, <1>2, <1>3, <2>1, EndKeeps DEF rows
    <2>2. CASE req[h].want # req[h].row \/ req[h].inserted
      <3>0. Only(h) /\ pc'[h] = "idle" /\ req'[h] = NoRequest
        BY <1>1, FinishOnly
      <3>1. \A g \in Handler \ {h} : ~ HoldsSchedule(g)
        BY <1>1, <2>2 DEF LockOK, HoldsSchedule, ScheduleFree
      <3>2. ~ HoldsSchedule(h)' /\ \A g \in Handler \ {h} : ~ HoldsSchedule(g)'
        BY <3>0, <3>1 DEF Only, HoldsSchedule, NoRequest
      <3>3. LockOK'
        BY <3>2 DEF LockOK
      <3>4. schedule' # NoRow
        BY <1>3, TourRulesAssumption
      <3>5. FreshOK' /\ RoomOK'
        BY <3>0, <3>2, <3>4 DEF FreshOK, RoomOK, HoldsSchedule, NoRequest
      <3>6. TypeOK'
        BY <1>1, <1>3, <3>0 DEF TypeOK, Only
      <3>7. RequestOK'
        <4>. SUFFICES ASSUME NEW g \in Handler PROVE RequestOK!(g)'
          BY DEF RequestOK
        <4>1. CASE g = h
          BY <3>0, <4>1 DEF NoRequest, ForTour
        <4>2. CASE g # h
          BY <1>1, <3>0, <4>2 DEF Only, RequestOK, ForTour
        <4>. QED BY <4>1, <4>2
      <3>8. CreatesOK'
        <4>. SUFFICES ASSUME NEW g \in Handler, req'[g].kind = "create" PROVE CreatesOK!(g)'
          BY DEF CreatesOK
        <4>1. g # h /\ req'[g] = req[g]
          BY <3>0 DEF Only, NoRequest
        <4>2. req[g].tour \in Tour
          BY <4>1 DEF RequestOK
        <4>3. \A f \in Handler \ {g} : req'[f].tour # req'[g].tour
          BY <3>0, <4>1, <4>2, TourRulesAssumption DEF CreatesOK, Only, NoRequest
        <4>. QED BY <1>1, <4>1, <4>2, <4>3 DEF CreatesOK
      <3>. QED BY <3>3, <3>5, <3>6, <3>7, <3>8
    <2>. QED BY <2>1, <2>2
  <1>. QED BY <1>1, <1>4, <1>5 DEF KeepsCapacity, FollowsSchedule, FollowsStaff

-----------------------------------------------------------------------------
(* The theorems. *)

\* A step that writes no row of tours or schedules satisfies every claim.
LEMMA RowsKept ==
  ASSUME UNCHANGED <<schedule, status, slot, revived>>
  PROVE  KeepsCapacity /\ FollowsSchedule /\ FollowsStaff
  <1>1. \A s \in Slot : Placed(s)' = Placed(s)
    BY DEF Placed, Taken
  <1>. QED BY <1>1 DEF KeepsCapacity, FollowsSchedule, FollowsStaff

\* Every step keeps the invariant and does what the action properties say.
LEMMA NextIInv ==
  ASSUME IInv, [Next]_vars
  PROVE  /\ IInv'
         /\ [KeepsCapacity]_vars /\ [FollowsSchedule]_vars /\ [FollowsStaff]_vars
  <1>1. ASSUME NEW h \in Handler, Arrive(h)
        PROVE  IInv' /\ UNCHANGED <<schedule, status, slot, revived>>
    <2>1. UNCHANGED rows
      BY <1>1 DEF Arrive, AskForTour, ReadForMove, ReadForNote, ReadForConfirm,
                  ReadForCancel, ReadSchedule, Begin
    <2>. QED BY <1>1, <2>1, ArriveKeeps DEF rows
  <1>2. ASSUME NEW h \in Handler, Continue(h)
        PROVE  IInv' /\ KeepsCapacity /\ FollowsSchedule /\ FollowsStaff
    <2>1. CASE FlushLead(h) \/ LockSchedule(h) \/ InsertSchedule(h) \/ AcceptSlot(h)
      <3>1. UNCHANGED <<schedule, status, slot, revived>>
        BY <2>1 DEF FlushLead, LockSchedule, InsertSchedule, AcceptSlot, rows
      <3>. QED BY <2>1, <3>1, RowsKept, FlushLeadKeeps, LockScheduleKeeps,
                  InsertScheduleKeeps, AcceptSlotKeeps
    <2>2. CASE ScheduleExists(h) \/ RefuseSlot(h) \/ BreakDeadlock(h)
      <3>1. Finish(h) /\ UNCHANGED rows
        BY <2>2 DEF ScheduleExists, RefuseSlot, BreakDeadlock
      <3>2. UNCHANGED <<schedule, status, slot, revived>>
        BY <3>1 DEF rows
      <3>. QED BY <3>1, <3>2, EndKeeps, RowsKept
    <2>3. CASE CommitTour(h)
      BY <2>3, CommitTourKeeps
    <2>4. CASE CommitMove(h)
      BY <2>4, CommitMoveKeeps
    <2>5. CASE SaveNote(h) \/ SaveConfirm(h) \/ ConfirmAgain(h) \/ SaveCancel(h)
      BY <2>5, SaveKeeps
    <2>6. CASE WriteSchedule(h)
      BY <2>6, WriteScheduleKeeps
    <2>. QED BY <1>2, <2>1, <2>2, <2>3, <2>4, <2>5, <2>6 DEF Continue
  <1>3. ASSUME NEW h \in Handler, Crash(h)
        PROVE  IInv' /\ UNCHANGED <<schedule, status, slot, revived>>
    BY <1>3, EndKeeps DEF Crash, rows
  <1>4. ASSUME NEW s \in Late, Approach(s)
        PROVE  IInv' /\ UNCHANGED <<schedule, status, slot, revived>>
    <2>1. /\ UNCHANGED <<schedule, status, slot, audit, revived, pc, req>>
          /\ soon' \subseteq Slot
      BY <1>4, TrafficAssumption DEF Approach, IInv, TypeOK
    <2>2. TypeOK' /\ RequestOK' /\ CreatesOK'
      BY <2>1 DEF IInv, TypeOK, RequestOK, CreatesOK
    <2>3. LockOK' /\ FreshOK' /\ RoomOK'
      BY <2>1 DEF IInv, LockOK, FreshOK, RoomOK, HoldsSchedule, Placed, Taken
    <2>. QED BY <2>1, <2>2, <2>3 DEF IInv
  <1>5. CASE UNCHANGED vars
    <2>1. TypeOK' /\ RequestOK' /\ CreatesOK'
      BY <1>5 DEF IInv, vars, TypeOK, RequestOK, CreatesOK
    <2>2. LockOK' /\ FreshOK' /\ RoomOK'
      BY <1>5 DEF IInv, vars, LockOK, FreshOK, RoomOK, HoldsSchedule, Placed, Taken
    <2>. QED BY <1>5, <2>1, <2>2 DEF IInv
  <1>. QED BY <1>1, <1>2, <1>3, <1>4, <1>5, RowsKept DEF Next

\* The inductive invariant holds in every reachable state.
THEOREM Invariant == Spec => []IInv
  BY InitIInv, NextIInv, PTL DEF Spec

\* The rows and the requests have their types, and a handler that counts a slot
\* has a schedule row to count against.
THEOREM TypeCorrect == Spec => []TypeOK
  <1>1. IInv => TypeOK
    BY DEF IInv
  <1>. QED BY <1>1, Invariant, PTL

\* The lock of get_or_create_schedule serialises the placing of tours: no
\* booking and no reschedule overfills a slot, whoever else is at work.
THEOREM Placement == Spec => PlacedWithinCapacity
  BY Invariant, NextIInv, PTL DEF Spec, PlacedWithinCapacity

\* Tours are placed in slots that the committed schedule opens, with the status
\* it asks for.
THEOREM Offered == Spec => BookedAsOffered
  BY Invariant, NextIInv, PTL DEF Spec, BookedAsOffered

\* Confirmations that come after the booking are audited, and PENDING is only
\* ever the first status.
THEOREM Confirmed == Spec => ConfirmedByStaff
  BY Invariant, NextIInv, PTL DEF Spec, ConfirmedByStaff

-----------------------------------------------------------------------------
(* Cancellations that stay apart.                                          *)

\* The tour that a request confirms or moves is still active.
StillActive(h) ==
  /\ req[h].kind \in {"confirm", "move"} => status[req[h].tour] \in Active
  /\ req[h].kind = "confirm" => req[h].seen \in Active

CalmOK ==
  /\ CancelledAlone
  /\ revived = {}
  /\ \A h \in Handler : StillActive(h)

CInv == IInv /\ CalmOK

\* A step that TourBook takes too, or does not see.
Promised == [Promise!Next]_(Promise!vars)

\* TourBook speaks of the same rows.
LEMMA SameRows ==
  /\ Promise!ScheduleRow = ScheduleRow
  /\ Promise!Default = Default
  /\ Promise!Active = Active
  /\ \A s : Promise!Taken(s) = Taken(s)
  /\ \A S : Promise!Cardinality(S) = Cardinality(S)
  <1>1. Promise!ScheduleRow = ScheduleRow /\ Promise!Default = Default /\ Promise!Active = Active
    BY DEF Promise!ScheduleRow, ScheduleRow, Promise!Default, Default, Promise!Active, Active
  <1>2. \A s : Promise!Taken(s) = Taken(s)
    BY <1>1 DEF Promise!Taken, Taken
  <1>3. \A S : Promise!Cardinality(S) = Cardinality(S)
    BY DEF Promise!Cardinality, Cardinality
  <1>. QED BY <1>1, <1>2, <1>3

\* At its commit a request still has the room that it was promised, in the row
\* that the commit leaves.
LEMMA RoomAtCommit ==
  ASSUME CInv, NEW h \in Handler, pc[h] = "commit"
  PROVE  /\ Promise!Row = req[h].row /\ ScheduleAfter(h) = req[h].row
         /\ req[h].row \in ScheduleRow
         /\ Promise!HasRoom(req[h].to)
  <1>. USE DEF CInv
  <1>1. ScheduleAfter(h) = req[h].row /\ req[h].row \in ScheduleRow
    BY RowAfterCommit
  <1>2. NoRow \notin ScheduleRow
    BY TourRulesAssumption
  <1>3. Promise!Row = req[h].row
    BY <1>1, <1>2, SameRows DEF Promise!Row, IInv, FreshOK
  <1>4. Promise!Taken(req[h].to) = Placed(req[h].to)
    BY SameRows DEF CalmOK, Placed
  <1>5. req[h].to \in req[h].row.open /\ Cardinality(Placed(req[h].to)) < req[h].row.capacity
    BY DEF IInv, RoomOK
  <1>. QED BY <1>1, <1>3, <1>4, <1>5, SameRows DEF Promise!HasRoom

\* A step that writes no tour and no schedule is invisible, and calm if the
\* request that takes it is.
LEMMA QuietKeeps ==
  ASSUME CalmOK, CancelledAlone', NEW h \in Handler,
         \A g \in Handler \ {h} : req'[g] = req[g],
         UNCHANGED <<schedule, status, slot, revived>>,
         StillActive(h)'
  PROVE  CalmOK' /\ Promised
  <1>1. \A g \in Handler \ {h} : StillActive(g)'
    BY DEF CalmOK, StillActive
  <1>2. CalmOK'
    BY <1>1 DEF CalmOK
  <1>3. UNCHANGED Promise!vars
    BY DEF Promise!vars
  <1>. QED BY <1>2, <1>3 DEF Promised

\* A request that ends.
LEMMA FinishCalm ==
  ASSUME CInv, NEW h \in Handler, Finish(h)
  PROVE  (\A g \in Handler \ {h} : req'[g] = req[g]) /\ req'[h] = NoRequest /\ StillActive(h)'
  <1>1. Only(h) /\ req'[h] = NoRequest
    BY FinishOnly DEF CInv, IInv
  <1>. QED BY <1>1 DEF Only, StillActive, NoRequest

\* A request that arrives has just read the row it is about.
LEMMA ArriveCalm ==
  ASSUME CInv, NEW h \in Handler, Arrive(h), CancelledAlone'
  PROVE  CalmOK' /\ Promised
  <1>. USE DEF CInv
  <1>1. UNCHANGED rows /\ \A g \in Handler \ {h} : req'[g] = req[g]
    BY DEF Arrive, AskForTour, ReadForMove, ReadForNote, ReadForConfirm, ReadForCancel,
           ReadSchedule, Begin, IInv, TypeOK
  <1>2. ASSUME NEW step, NEW r, Begin(h, step, r) PROVE req'[h] = r
    BY <1>2 DEF Begin, IInv, TypeOK
  <1>3. ASSUME NEW t \in Tour, NEW s \in Slot, AskForTour(h, t, s) PROVE StillActive(h)'
    <2>1. req'[h] = [NoRequest EXCEPT !.kind = "create", !.tour = t, !.to = s]
      BY <1>2, <1>3 DEF AskForTour
    <2>. QED BY <2>1 DEF StillActive, NoRequest
  <1>4. ASSUME NEW t \in Tour, NEW s \in Slot, ReadForMove(h, t, s) PROVE StillActive(h)'
    <2>1. req'[h] = [Loaded("move", t) EXCEPT !.to = s] /\ status[t] \in Active
      BY <1>2, <1>4 DEF ReadForMove
    <2>. QED BY <1>1, <2>1 DEF StillActive, Loaded, NoRequest, rows
  <1>5. ASSUME NEW t \in Tour, ReadForConfirm(h, t) PROVE StillActive(h)'
    <2>1. req'[h] = Loaded("confirm", t) /\ status[t] \in Active
      BY <1>2, <1>5 DEF ReadForConfirm
    <2>. QED BY <1>1, <2>1 DEF StillActive, Loaded, NoRequest, rows
  <1>6. ASSUME NEW t \in Tour, ReadForNote(h, t) \/ ReadForCancel(h, t) PROVE StillActive(h)'
    <2>1. \E kind \in {"note", "cancel", "guest_cancel"} : req'[h] = Loaded(kind, t)
      BY <1>2, <1>6 DEF ReadForNote, ReadForCancel
    <2>. QED BY <2>1 DEF StillActive, Loaded, NoRequest
  <1>7. ASSUME NEW e \in ScheduleRow, ReadSchedule(h, e) PROVE StillActive(h)'
    <2>1. req'[h] = [NoRequest EXCEPT !.kind = "edit", !.row = schedule, !.want = e]
      BY <1>2, <1>7 DEF ReadSchedule
    <2>. QED BY <2>1 DEF StillActive, NoRequest
  <1>8. StillActive(h)'
    BY <1>3, <1>4, <1>5, <1>6, <1>7 DEF Arrive
  <1>. QED BY <1>1, <1>8, QuietKeeps DEF rows

\* The slot check writes nothing that is committed.
LEMMA CheckCalm ==
  ASSUME CInv, NEW h \in Handler, CancelledAlone',
         FlushLead(h) \/ LockSchedule(h) \/ InsertSchedule(h) \/ AcceptSlot(h)
  PROVE  CalmOK' /\ Promised
  <1>. USE DEF CInv
  <1>1. UNCHANGED rows /\ \A g \in Handler \ {h} : req'[g] = req[g]
    BY DEF FlushLead, LockSchedule, InsertSchedule, AcceptSlot, IInv, TypeOK
  <1>2. req'[h].kind = req[h].kind /\ req'[h].tour = req[h].tour /\ req'[h].seen = req[h].seen
    BY DEF FlushLead, LockSchedule, InsertSchedule, AcceptSlot, IInv, TypeOK, Request
  <1>3. StillActive(h)'
    BY <1>1, <1>2 DEF CalmOK, StillActive, rows
  <1>. QED BY <1>1, <1>3, QuietKeeps DEF rows

\* What fails, and what writes to the audit log only.
LEMMA EndCalm ==
  ASSUME CInv, NEW h \in Handler, CancelledAlone', Finish(h),
         UNCHANGED <<schedule, status, slot, revived>>
  PROVE  CalmOK' /\ Promised
  BY FinishCalm, QuietKeeps DEF CInv

\* A booking is one step of TourBook: nobody else knows the tour.
LEMMA BookPromised ==
  ASSUME CInv, NEW h \in Handler, CancelledAlone', CommitTour(h)
  PROVE  CalmOK' /\ Promised
  <1>. USE DEF CInv
  <1>. DEFINE t == req[h].tour
              s == req[h].to
  <1>1. /\ pc[h] = "commit" /\ Finish(h) /\ UNCHANGED revived
        /\ schedule' = ScheduleAfter(h)
        /\ status' = [status EXCEPT ![t] = NewStatus(req[h].row)]
        /\ slot' = [slot EXCEPT ![t] = s]
    BY DEF CommitTour
  <1>2. t \in Tour /\ s \in Slot /\ status[t] = "NONE"
        /\ \A g \in Handler \ {h} : req[g].tour # t
    BY DEF CommitTour, IInv, RequestOK, CreatesOK
  <1>3. Promise!Row = req[h].row /\ ScheduleAfter(h) = req[h].row /\ Promise!HasRoom(s)
    BY <1>1, RoomAtCommit
  <1>4. Promise!Book(t, s)
    BY <1>1, <1>2, <1>3 DEF Promise!Book, NewStatus
  <1>5. Promised
    BY <1>2, <1>4 DEF Promised, Promise!Next
  <1>6. \A g \in Handler \ {h} : req'[g] = req[g] /\ StillActive(g)'
    <2>. SUFFICES ASSUME NEW g \in Handler \ {h} PROVE req'[g] = req[g] /\ StillActive(g)'
      OBVIOUS
    <2>1. req'[g] = req[g] /\ req[g].tour # t /\ StillActive(g)
      BY <1>1, <1>2, FinishCalm DEF CalmOK
    <2>2. status \in [Tour -> TourStatus]
      BY DEF IInv, TypeOK
    <2>. HIDE DEF t
    <2>3. req[g].kind \in {"confirm", "move"} => status'[req[g].tour] = status[req[g].tour]
      <3>1. req[g].kind \in {"confirm", "move"} => req[g].tour \in Tour
        BY DEF IInv, RequestOK, ForTour
      <3>. QED BY <1>1, <2>1, <2>2, <3>1
    <2>. QED BY <2>1, <2>3 DEF StillActive
  <1>7. CalmOK'
    BY <1>1, <1>6, FinishCalm DEF CalmOK
  <1>. QED BY <1>5, <1>7

\* A reschedule is one step of TourBook: the tour is still active, also when it
\* was moved or confirmed meanwhile.  If it stays where it was, at most the
\* schedule row is new.
LEMMA MovePromised ==
  ASSUME CInv, NEW h \in Handler, CancelledAlone', CommitMove(h)
  PROVE  CalmOK' /\ Promised
  <1>. USE DEF CInv
  <1>. DEFINE t == req[h].tour
              s == req[h].to
  <1>1. /\ pc[h] = "commit" /\ Finish(h) /\ UNCHANGED status
        /\ schedule' = ScheduleAfter(h)
        /\ slot' = slot \/ slot' = [slot EXCEPT ![t] = s]
        /\ revived' = revived \/ revived' = revived \ {t}
    BY DEF CommitMove
  <1>2. t \in Tour /\ s \in Slot /\ status[t] \in Active
    BY DEF CommitMove, IInv, RequestOK, CalmOK, StillActive
  <1>3. Promise!Row = req[h].row /\ ScheduleAfter(h) = req[h].row /\ Promise!HasRoom(s)
        /\ req[h].row \in ScheduleRow
    BY <1>1, RoomAtCommit
  <1>4. Promised
    <2>1. CASE slot' = slot
      <3>1. Promise!EditSchedule(req[h].row)
        BY <1>1, <1>3, <2>1 DEF Promise!EditSchedule
      <3>. QED BY <1>3, <3>1, SameRows DEF Promised, Promise!Next
    <2>2. CASE slot' = [slot EXCEPT ![t] = s]
      <3>1. Promise!Move(t, s)
        BY <1>1, <1>2, <1>3, <2>2, SameRows DEF Promise!Move
      <3>. QED BY <1>2, <3>1 DEF Promised, Promise!Next
    <2>. QED BY <1>1, <2>1, <2>2
  <1>5. \A g \in Handler \ {h} : StillActive(g)'
    BY <1>1, FinishCalm DEF CalmOK, StillActive
  <1>6. CalmOK'
    BY <1>1, <1>5, FinishCalm DEF CalmOK
  <1>. QED BY <1>4, <1>6

\* A confirmation that was decided on a pending tour finds it pending, or
\* confirmed by somebody else.
LEMMA ConfirmPromised ==
  ASSUME CInv, NEW h \in Handler, CancelledAlone', SaveConfirm(h)
  PROVE  CalmOK' /\ Promised
  <1>. USE DEF CInv
  <1>. DEFINE t == req[h].tour
  <1>1. /\ Finish(h) /\ UNCHANGED <<schedule, slot>>
        /\ status' = [status EXCEPT ![t] = "CONFIRMED"]
        /\ status[t] # "CANCELLED" => revived' = revived
    BY DEF SaveConfirm
  <1>2. t \in Tour /\ status[t] \in Active /\ status \in [Tour -> TourStatus]
    BY DEF SaveConfirm, IInv, TypeOK, RequestOK, CalmOK, StillActive, ForTour
  <1>. HIDE DEF t
  <1>3. Promised
    <2>1. CASE status[t] = "PENDING"
      <3>1. Promise!Confirm(t)
        BY <1>1, <2>1 DEF Promise!Confirm
      <3>. QED BY <1>2, <3>1 DEF Promised, Promise!Next
    <2>2. CASE status[t] = "CONFIRMED"
      <3>1. UNCHANGED Promise!vars
        BY <1>1, <1>2, <2>2 DEF Promise!vars
      <3>. QED BY <3>1 DEF Promised
    <2>. QED BY <1>2, <2>1, <2>2 DEF Active
  <1>4. \A u \in Tour : status[u] \in Active => status'[u] \in Active
    BY <1>1, <1>2 DEF Active
  <1>5. ASSUME NEW g \in Handler \ {h} PROVE StillActive(g)'
    <2>1. req'[g] = req[g] /\ StillActive(g)
      BY <1>1, FinishCalm DEF CalmOK
    <2>2. req[g].kind \in {"confirm", "move"} => req[g].tour \in Tour
      BY DEF IInv, RequestOK, ForTour
    <2>. QED BY <1>4, <2>1, <2>2 DEF StillActive
  <1>6. CalmOK'
    BY <1>1, <1>2, <1>5, FinishCalm DEF CalmOK, Active
  <1>. QED BY <1>3, <1>6

\* A cancellation finds the tour active, or cancelled by somebody else; and
\* nobody is confirming or moving it.
LEMMA CancelPromised ==
  ASSUME CInv, NEW h \in Handler, CancelledAlone', SaveCancel(h)
  PROVE  CalmOK' /\ Promised
  <1>. USE DEF CInv
  <1>. DEFINE t == req[h].tour
  <1>1. /\ Finish(h) /\ UNCHANGED <<schedule, slot>>
        /\ status' = status \/ status' = [status EXCEPT ![t] = "CANCELLED"]
        /\ revived' = revived \/ revived' = revived \ {t}
        /\ req[h].kind \in Cancellations
    BY DEF SaveCancel, Cancellations
  <1>2. /\ t \in Tour /\ status[t] # "NONE" /\ status \in [Tour -> TourStatus]
    BY <1>1 DEF Cancellations, IInv, TypeOK, RequestOK, ForTour
  <1>3. \A g \in Handler : req[g].kind \in {"confirm", "move"} => req[g].tour # t
    BY <1>1 DEF CalmOK, CancelledAlone
  <1>. HIDE DEF t
  <1>4. Promised
    <2>1. CASE status' = [status EXCEPT ![t] = "CANCELLED"] /\ status[t] \in Active
      <3>1. Promise!Cancel(t)
        BY <1>1, <2>1, SameRows DEF Promise!Cancel
      <3>. QED BY <1>2, <3>1 DEF Promised, Promise!Next
    <2>2. CASE status' = status \/ status[t] = "CANCELLED"
      <3>1. UNCHANGED Promise!vars
        BY <1>1, <1>2, <2>2 DEF Promise!vars
      <3>. QED BY <3>1 DEF Promised
    <2>. QED BY <1>1, <1>2, <2>1, <2>2 DEF TourStatus, Active
  <1>5. ASSUME NEW g \in Handler \ {h} PROVE StillActive(g)'
    <2>1. req'[g] = req[g] /\ StillActive(g)
      BY <1>1, FinishCalm DEF CalmOK
    <2>2. req[g].kind \in {"confirm", "move"} => req[g].tour \in Tour \ {t}
      BY <1>3 DEF IInv, RequestOK, ForTour
    <2>3. \A u \in Tour \ {t} : status'[u] = status[u]
      BY <1>1, <1>2
    <2>. QED BY <2>1, <2>2, <2>3 DEF StillActive
  <1>6. CalmOK'
    BY <1>1, <1>5, FinishCalm DEF CalmOK
  <1>. QED BY <1>4, <1>6

\* Any edit of the schedule is one that TourBook allows.
LEMMA EditPromised ==
  ASSUME CInv, NEW h \in Handler, CancelledAlone', WriteSchedule(h)
  PROVE  CalmOK' /\ Promised
  <1>. USE DEF CInv
  <1>1. /\ Finish(h) /\ UNCHANGED <<status, slot, revived>> /\ pc[h] = "write"
        /\ schedule' = Edited(ScheduleAfter(h), req[h].row, req[h].want)
    BY DEF WriteSchedule
  <1>2. req[h].row \in ScheduleRow /\ req[h].want \in ScheduleRow /\ ScheduleAfter(h) \in ScheduleRow
    BY <1>1, DefaultIsRow DEF IInv, RequestOK, FreshOK, ScheduleAfter, TypeOK
  <1>3. schedule' \in ScheduleRow
    BY <1>1, <1>2, EditedIsRow
  <1>4. Promise!EditSchedule(schedule')
    BY <1>1 DEF Promise!EditSchedule
  <1>5. Promised
    BY <1>3, <1>4, SameRows DEF Promised, Promise!Next
  <1>6. \A g \in Handler \ {h} : StillActive(g)'
    BY <1>1, FinishCalm DEF CalmOK, StillActive
  <1>7. CalmOK'
    BY <1>1, <1>6, FinishCalm DEF CalmOK
  <1>. QED BY <1>5, <1>7

\* Every step that keeps cancellations apart is a step of TourBook, or one that
\* TourBook does not see.
LEMMA NextPromised ==
  CInv /\ [Next /\ CancelledAlone']_vars => CInv' /\ Promised
  <1>. SUFFICES ASSUME CInv, [Next /\ CancelledAlone']_vars PROVE CInv' /\ Promised
    OBVIOUS
  <1>. USE DEF CInv
  <1>1. IInv'
    BY NextIInv
  <1>2. ASSUME NEW h \in Handler, Continue(h), CancelledAlone' PROVE CalmOK' /\ Promised
    <2>1. CASE ScheduleExists(h) \/ RefuseSlot(h) \/ BreakDeadlock(h) \/ SaveNote(h)
               \/ ConfirmAgain(h)
      <3>1. Finish(h) /\ UNCHANGED <<schedule, status, slot, revived>>
        BY <2>1 DEF ScheduleExists, RefuseSlot, BreakDeadlock, SaveNote, ConfirmAgain, rows
      <3>. QED BY <1>2, <3>1, EndCalm
    <2>. QED BY <1>2, <2>1, CheckCalm, BookPromised, MovePromised, ConfirmPromised,
                CancelPromised, EditPromised DEF Continue
  <1>3. ASSUME NEW h \in Handler, Crash(h), CancelledAlone' PROVE CalmOK' /\ Promised
    <2>1. Finish(h) /\ UNCHANGED <<schedule, status, slot, revived>>
      BY <1>3 DEF Crash, rows
    <2>. QED BY <1>3, <2>1, EndCalm
  <1>4. ASSUME NEW s \in Late, Approach(s) PROVE CalmOK' /\ Promised
    <2>1. UNCHANGED <<schedule, status, slot, revived, req>>
      BY <1>4 DEF Approach
    <2>2. CalmOK'
      BY <2>1 DEF CalmOK, CancelledAlone, StillActive
    <2>3. UNCHANGED Promise!vars
      BY <2>1 DEF Promise!vars
    <2>. QED BY <2>2, <2>3 DEF Promised
  <1>5. CASE UNCHANGED vars
    <2>1. UNCHANGED <<schedule, status, slot, revived, req>>
      BY <1>5 DEF vars
    <2>2. CalmOK'
      BY <2>1 DEF CalmOK, CancelledAlone, StillActive
    <2>3. UNCHANGED Promise!vars
      BY <2>1 DEF Promise!vars
    <2>. QED BY <1>1, <2>2, <2>3 DEF Promised
  <1>. QED BY <1>1, <1>2, <1>3, <1>4, <1>5, ArriveCalm DEF Next

\* Nothing has been asked for yet.
LEMMA InitPromised == Init => CInv /\ Promise!Init
  <1>. SUFFICES ASSUME Init PROVE CInv /\ Promise!Init
    OBVIOUS
  <1>1. CalmOK
    BY DEF Init, CalmOK, CancelledAlone, StillActive, NoRequest, Cancellations
  <1>2. Promise!Init
    BY SameRows DEF Init, Promise!Init
  <1>. QED BY <1>1, <1>2, InitIInv DEF CInv

\* As long as a tour is not cancelled while it is being confirmed or moved, what
\* is confirmed or moved is active and no cancellation is undone.
THEOREM CalmInvariant == CalmSpec => []CInv
  BY InitPromised, NextPromised, PTL DEF CalmSpec

\* As long as a tour is not cancelled while it is being confirmed or moved, the
\* handlers implement the tour desk: bookings, reschedules, notes,
\* confirmations, schedule edits and crashes may overlap in any way.
THEOREM PromiseKept == CalmSpec => ImplementsTourBook
  <1>1. CInv /\ [Next /\ CancelledAlone']_vars => [Promise!Next]_(Promise!vars)
    BY NextPromised DEF Promised
  <1>. QED BY <1>1, InitPromised, CalmInvariant, PTL
           DEF CalmSpec, ImplementsTourBook, Promise!Spec

\* Where nobody cancels, that is no condition at all.
THEOREM PromiseKeptUncancelled ==
  ASSUME Traffic \cap Cancellations = {}
  PROVE  Spec => ImplementsTourBook
  <1>. DEFINE NoCancel == \A h \in Handler : req[h].kind \notin Cancellations
  <1>1. Init => NoCancel
    BY DEF Init, NoRequest, Cancellations
  <1>2. IInv /\ NoCancel /\ [Next]_vars => NoCancel'
    <2>. SUFFICES ASSUME IInv, NoCancel, [Next]_vars, NEW g \in Handler
                  PROVE  req'[g].kind \notin Cancellations
      OBVIOUS
    <2>1. ASSUME NEW h \in Handler, Arrive(h) PROVE req'[g].kind \notin Cancellations
      <3>1. \E step, r : Begin(h, step, r)
        BY <2>1 DEF Arrive, AskForTour, ReadForMove, ReadForNote, ReadForConfirm,
                    ReadForCancel, ReadSchedule
      <3>. QED BY <3>1 DEF Begin, IInv, TypeOK
    <2>2. ASSUME NEW h \in Handler, Finish(h) PROVE req'[g].kind \notin Cancellations
      BY <2>2, FinishOnly DEF IInv, Only, NoRequest, Cancellations
    <2>3. ASSUME NEW h \in Handler,
                 FlushLead(h) \/ LockSchedule(h) \/ InsertSchedule(h) \/ AcceptSlot(h)
          PROVE  req'[g].kind \notin Cancellations
      BY <2>3 DEF FlushLead, LockSchedule, InsertSchedule, AcceptSlot, IInv, TypeOK, Request
    <2>4. ASSUME NEW h \in Handler, Continue(h) PROVE req'[g].kind \notin Cancellations
      BY <2>2, <2>3, <2>4
         DEF Continue, ScheduleExists, RefuseSlot, CommitTour, CommitMove, SaveNote, SaveConfirm,
             ConfirmAgain, SaveCancel, WriteSchedule, BreakDeadlock
    <2>5. CASE UNCHANGED req
      BY <2>5
    <2>. QED BY <2>1, <2>2, <2>4, <2>5 DEF Next, Crash, Approach, vars
  <1>3. Spec => CalmSpec
    <2>1. NoCancel' => CancelledAlone'
      BY DEF CancelledAlone
    <2>2. [Next]_vars /\ NoCancel' => [Next /\ CancelledAlone']_vars
      BY <2>1
    <2>. HIDE DEF NoCancel
    <2>. QED BY <1>1, <1>2, <2>2, Invariant, PTL DEF Spec, CalmSpec
  <1>. QED BY <1>3, PromiseKept, PTL
=============================================================================
