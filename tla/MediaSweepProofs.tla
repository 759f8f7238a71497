-------------------------- MODULE MediaSweepProofs --------------------------
(***************************************************************************)
(* The media sweep takes no photo of a property, for any number of photos, *)
(* properties and overlapping requests.                                    *)
(***************************************************************************)
EXTENDS MediaSweep, TLAPS

-----------------------------------------------------------------------------
(* The inductive invariant.                                                *)

\* Only uploaded photos are attached, and none before there is a property.
RowsOK ==
  \A p \in Property :
    /\ refs[p] \subseteq Uploaded
    /\ listing[p] = "none" => refs[p] = {}

\* Within its grace period a photo is in the store, unless a request has
\* destroyed it.
YoungOK ==
  \A m \in Uploaded : m \in stored \/ m \in removed \/ now >= created[m] + Grace

\* A request is about a property, and attaches and detaches what was uploaded.
RequestsOK ==
  \A h \in Handler :
    pc[h] # "idle" =>
      listing[req[h].property] # "none" /\ req[h].new \cup req[h].todo \subseteq Uploaded

\* A photo that is attached during a pass is too young for it, or late.  What
\* the pass destroys was old enough when it began, and not referenced then.
PassOK ==
  /\ sweep.step # "idle" =>
       /\ sweep.cutoff <= now - Grace
       /\ \A p \in Property : HasRow(p) => \A m \in refs[p] :
            m \in sweep.referenced \/ <<p, m>> \in late \/ created[m] > sweep.cutoff
  /\ \A m \in sweep.todo :
       /\ sweep.step = "destroy"
       /\ m \in Uploaded \ sweep.referenced
       /\ created[m] <= sweep.cutoff

IInv == TypeOK /\ SweepSparesAttached /\ RowsOK /\ YoungOK /\ RequestsOK /\ PassOK

-----------------------------------------------------------------------------

\* An idle handler's request is one.
LEMMA NoRequestType == NoRequest \in Request
  BY ContentAssumption DEF NoRequest, Request

\* Times are numbers.
LEMMA TimeType ==
  ASSUME TypeOK
  PROVE  /\ Grace \in Nat /\ now \in Nat /\ sweep.cutoff \in Int
         /\ \A m \in Asset : m \in Uploaded <=> created[m] # Unset
         /\ \A m \in Uploaded : m \in Asset /\ created[m] \in Nat
  BY ContentAssumption DEF TypeOK, Time, Pass, Uploaded

\* At the start nothing is stored.
LEMMA InitIInv == Init => IInv
  <1>. SUFFICES ASSUME Init PROVE IInv
    OBVIOUS
  <1>1. Uploaded = {}
    BY DEF Init, Uploaded
  <1>2. TypeOK
    <2>1. 0 \in -Grace..MaxTime
      BY ContentAssumption
    <2>2. sweep \in Pass
      BY <2>1 DEF Init, Pass
    <2>. QED BY <1>1, <2>2, NoRequestType, ContentAssumption DEF Init, TypeOK, Time, Listing
  <1>3. SweepSparesAttached /\ RowsOK /\ YoungOK /\ RequestsOK /\ PassOK
    BY <1>1 DEF Init, SweepSparesAttached, RowsOK, YoungOK, RequestsOK, PassOK, HasRow
  <1>. QED BY <1>2, <1>3 DEF IInv

\* What becomes of the late photos when those of p become R.
LEMMA LateRows ==
  ASSUME TypeOK, NEW p \in Property, NEW R \in SUBSET Asset
  PROVE  /\ Late(p, R) \subseteq Property \X Asset
         /\ \A q \in Property, m \in Asset :
              <<q, m>> \in late /\ (q # p \/ m \in R) => <<q, m>> \in Late(p, R)
         /\ \A m \in R \ refs[p] : now >= created[m] + Grace => <<p, m>> \in Late(p, R)
  BY DEF Late, TypeOK

\* Photos that are attached to p while the store and the pass stand still: the
\* young ones are there, and too young for the pass.
LEMMA AttachKeeps ==
  ASSUME IInv, NEW p \in Property, NEW R \in SUBSET Asset, R \subseteq Uploaded,
         refs' = [refs EXCEPT ![p] = R], late' = Late(p, R),
         listing' \in [Property -> Listing],
         \A q \in Property \ {p} : listing'[q] = listing[q],
         listing'[p] # "none",
         listing[p] # "none" /\ HasRow(p)' => HasRow(p),
         UNCHANGED <<now, store, created, sweep>>
  PROVE  SweepSparesAttached' /\ RowsOK' /\ YoungOK' /\ PassOK'
  <1>1. now' = now /\ stored' = stored /\ removed' = removed /\ created' = created /\ sweep' = sweep
    BY DEF store
  <1>2. /\ Uploaded' = Uploaded
        /\ refs'[p] = R /\ \A q \in Property \ {p} : refs'[q] = refs[q]
        /\ \A q \in Property : refs[q] \subseteq Asset
    BY <1>1 DEF Uploaded, IInv, TypeOK
  <1>3. ASSUME NEW q \in Property, HasRow(q)', NEW m \in refs'[q]
        PROVE  /\ m \in stored \/ m \in removed \/ <<q, m>> \in late'
               /\ sweep.step # "idle" =>
                    m \in sweep.referenced \/ <<q, m>> \in late' \/ created[m] > sweep.cutoff
    <2>1. CASE q # p
      <3>1. HasRow(q) /\ m \in refs[q] /\ m \in Asset
        BY <1>2, <1>3, <2>1 DEF HasRow
      <3>2. <<q, m>> \in late => <<q, m>> \in late'
        BY <2>1, <3>1, LateRows DEF IInv
      <3>. QED BY <3>1, <3>2 DEF IInv, SweepSparesAttached, PassOK
    <2>2. CASE q = p /\ m \in refs[p]
      <3>1. HasRow(p) /\ m \in R /\ m \in Asset
        BY <1>2, <1>3, <2>2 DEF IInv, RowsOK
      <3>2. <<p, m>> \in late => <<p, m>> \in late'
        BY <3>1, LateRows DEF IInv
      <3>. QED BY <2>2, <3>1, <3>2 DEF IInv, SweepSparesAttached, PassOK
    <2>3. CASE q = p /\ m \notin refs[p]
      <3>1. m \in R \ refs[p] /\ m \in Uploaded
        BY <1>2, <1>3, <2>3
      <3>2. CASE now >= created[m] + Grace
        BY <2>3, <3>1, <3>2, LateRows DEF IInv
      <3>3. CASE ~ now >= created[m] + Grace
        <4>1. m \in stored \/ m \in removed
          BY <3>1, <3>3 DEF IInv, YoungOK
        <4>2. sweep.step # "idle" => created[m] > sweep.cutoff
          BY <3>1, <3>3, TimeType DEF IInv, PassOK
        <4>. QED BY <4>1, <4>2
      <3>. QED BY <3>2, <3>3
    <2>. QED BY <2>1, <2>2, <2>3
  <1>4. SweepSparesAttached'
    BY <1>1, <1>3 DEF SweepSparesAttached
  <1>5. RowsOK'
    BY <1>2 DEF IInv, RowsOK
  <1>6. YoungOK'
    BY <1>1, <1>2 DEF IInv, YoungOK
  <1>7. PassOK'
    BY <1>1, <1>2, <1>3 DEF IInv, PassOK
  <1>. QED BY <1>4, <1>5, <1>6, <1>7

\* A request that goes on, or ends, while the rows, the store and the pass
\* stay as they are.
LEMMA GoOnKeeps ==
  ASSUME IInv, NEW h \in Handler, NEW s \in {"idle", "flush", "clean"}, NEW r \in Request,
         pc' = [pc EXCEPT ![h] = s], req' = [req EXCEPT ![h] = r],
         lock' \in [Property -> Handler \cup {Unset}],
         UNCHANGED <<now, store, created, listing, refs, late, sweep>>,
         s # "idle" => listing[r.property] # "none" /\ r.new \cup r.todo \subseteq Uploaded
  PROVE  IInv'
  <1>1. /\ now' = now /\ stored' = stored /\ removed' = removed /\ created' = created
        /\ listing' = listing /\ refs' = refs /\ late' = late /\ sweep' = sweep
    BY DEF store
  <1>2. Uploaded' = Uploaded
    BY <1>1 DEF Uploaded
  <1>3. /\ pc' \in [Handler -> {"idle", "flush", "clean"}] /\ req' \in [Handler -> Request]
        /\ pc'[h] = s /\ req'[h] = r
        /\ \A g \in Handler \ {h} : pc'[g] = pc[g] /\ req'[g] = req[g]
    BY DEF IInv, TypeOK
  <1>4. TypeOK'
    BY <1>1, <1>2, <1>3 DEF IInv, TypeOK
  <1>5. SweepSparesAttached' /\ RowsOK' /\ YoungOK'
    BY <1>1, <1>2 DEF IInv, SweepSparesAttached, RowsOK, YoungOK, HasRow
  <1>6. RequestsOK'
    BY <1>1, <1>2, <1>3 DEF IInv, RequestsOK
  <1>7. PassOK'
    BY <1>1, <1>2 DEF IInv, PassOK, HasRow
  <1>. QED BY <1>4, <1>5, <1>6, <1>7 DEF IInv

\* The rows and the requests stay.  Photos leave the store as requests destroy
\* them, or by a pass that may; the clock goes on.
LEMMA StoreKeeps ==
  ASSUME IInv,
         UNCHANGED <<created, rows, late, pc>>,
         now' \in Time, now' >= now,
         stored' \subseteq stored, removed \subseteq removed', removed' \subseteq Uploaded,
         \A m \in stored \ stored' : m \in removed' \/ m \in sweep.todo,
         sweep' \in Pass,
         \/ sweep'.step = "idle" /\ sweep'.todo = {}
         \/ /\ sweep'.step # "idle" /\ sweep.step # "idle"
            /\ sweep'.cutoff = sweep.cutoff /\ sweep'.referenced = sweep.referenced
            /\ \A m \in sweep'.todo :
                 \/ m \in sweep.todo /\ sweep'.step = sweep.step
                 \/ m \in Orphans /\ sweep'.step = "destroy",
         req' \in [Handler -> Request],
         \A g \in Handler : /\ req'[g].property = req[g].property /\ req'[g].new = req[g].new
                            /\ req'[g].todo \subseteq req[g].todo
  PROVE  IInv'
  <1>1. /\ created' = created /\ late' = late /\ pc' = pc
        /\ listing' = listing /\ refs' = refs /\ lock' = lock
    BY DEF rows
  <1>2. Uploaded' = Uploaded
    BY <1>1 DEF Uploaded
  <1>3. TypeOK'
    BY <1>1, <1>2 DEF IInv, TypeOK
  <1>4. \A p \in Property : HasRow(p)' = HasRow(p)
    BY <1>1 DEF HasRow
  <1>5. ASSUME NEW m \in sweep.todo
        PROVE  /\ m \in Uploaded /\ now >= created[m] + Grace
               /\ \A p \in Property : HasRow(p) /\ m \in refs[p] => <<p, m>> \in late
    <2>1. /\ sweep.step = "destroy" /\ m \in Uploaded \ sweep.referenced
          /\ created[m] <= sweep.cutoff
      BY DEF IInv, PassOK
    <2>2. sweep.cutoff <= now - Grace
      BY <2>1 DEF IInv, PassOK
    <2>3. created[m] \in Nat /\ sweep.cutoff \in Int /\ now \in Nat /\ Grace \in Nat
      BY <2>1, TimeType DEF IInv
    <2>4. now >= created[m] + Grace
      BY <2>1, <2>2, <2>3
    <2>5. ~ created[m] > sweep.cutoff
      BY <2>1, <2>3
    <2>6. ASSUME NEW p \in Property, HasRow(p), m \in refs[p]
          PROVE  <<p, m>> \in late
      BY <2>1, <2>5, <2>6 DEF IInv, PassOK
    <2>. QED BY <2>1, <2>4, <2>6
  <1>6. SweepSparesAttached'
    <2>. SUFFICES ASSUME NEW p \in Property, HasRow(p), NEW m \in refs[p]
                  PROVE  m \in stored' \/ m \in removed' \/ <<p, m>> \in late
      BY <1>1, <1>4 DEF SweepSparesAttached
    <2>1. m \in stored \/ m \in removed \/ <<p, m>> \in late
      BY DEF IInv, SweepSparesAttached
    <2>. QED BY <1>5, <2>1
  <1>7. RowsOK' /\ RequestsOK'
    BY <1>1, <1>2 DEF IInv, RowsOK, RequestsOK
  <1>8. YoungOK'
    <2>. SUFFICES ASSUME NEW m \in Uploaded
                  PROVE  m \in stored' \/ m \in removed' \/ now' >= created[m] + Grace
      BY <1>1, <1>2 DEF YoungOK
    <2>1. m \in stored \/ m \in removed \/ now >= created[m] + Grace
      BY DEF IInv, YoungOK
    <2>2. created[m] \in Nat /\ now \in Nat /\ now' \in Nat /\ Grace \in Nat
      BY TimeType DEF IInv, Time
    <2>3. now >= created[m] + Grace => now' >= created[m] + Grace
      BY <2>2
    <2>. QED BY <1>5, <2>1, <2>3
  <1>9. PassOK'
    <2>1. CASE sweep'.step = "idle" /\ sweep'.todo = {}
      BY <2>1 DEF PassOK
    <2>2. CASE sweep'.step # "idle"
      <3>1. /\ sweep'.todo # {} \/ sweep.step # "idle"
            /\ sweep.step # "idle"
            /\ sweep'.cutoff = sweep.cutoff /\ sweep'.referenced = sweep.referenced
            /\ \A m \in sweep'.todo :
                 \/ m \in sweep.todo /\ sweep'.step = sweep.step
                 \/ m \in Orphans /\ sweep'.step = "destroy"
        BY <2>2
      <3>2. /\ now \in Nat /\ now' \in Nat /\ Grace \in Nat /\ sweep.cutoff \in Int
            /\ sweep.cutoff <= now - Grace
        BY <3>1, TimeType DEF IInv, PassOK, Time
      <3>3. sweep.cutoff <= now' - Grace
        BY <3>2
      <3>4. ASSUME NEW p \in Property, HasRow(p), NEW m \in refs[p]
            PROVE  m \in sweep.referenced \/ <<p, m>> \in late \/ created[m] > sweep.cutoff
        BY <3>1, <3>4 DEF IInv, PassOK
      <3>5. ASSUME NEW m \in sweep'.todo
            PROVE  /\ sweep'.step = "destroy" /\ m \in Uploaded \ sweep.referenced
                   /\ created[m] <= sweep.cutoff
        <4>1. CASE m \in sweep.todo /\ sweep'.step = sweep.step
          BY <4>1 DEF IInv, PassOK
        <4>2. CASE m \in Orphans /\ sweep'.step = "destroy"
          BY <4>2 DEF Orphans, IInv, TypeOK
        <4>. QED BY <3>1, <4>1, <4>2
      <3>. QED BY <1>1, <1>2, <1>4, <3>1, <3>3, <3>4, <3>5 DEF PassOK
    <2>. QED BY <2>1, <2>2
  <1>. QED BY <1>3, <1>6, <1>7, <1>8, <1>9 DEF IInv

\* A pass that stands still is one that StoreKeeps allows.
LEMMA StandingPass ==
  ASSUME IInv, sweep' = sweep
  PROVE  /\ now \in Time /\ now >= now
         /\ sweep' \in Pass
         /\ \/ sweep'.step = "idle" /\ sweep'.todo = {}
            \/ /\ sweep'.step # "idle" /\ sweep.step # "idle"
               /\ sweep'.cutoff = sweep.cutoff /\ sweep'.referenced = sweep.referenced
               /\ \A m \in sweep'.todo :
                    \/ m \in sweep.todo /\ sweep'.step = sweep.step
                    \/ m \in Orphans /\ sweep'.step = "destroy"
  BY TimeType DEF IInv, TypeOK, PassOK

-----------------------------------------------------------------------------
(* The steps of requests.                                                  *)

LEMMA UploadKeeps ==
  ASSUME IInv, NEW m \in Asset, Upload(m)
  PROVE  IInv'
  <1>1. /\ created[m] = Unset /\ created' = [created EXCEPT ![m] = now] /\ stored' = stored \cup {m}
        /\ now' = now /\ listing' = listing /\ refs' = refs /\ lock' = lock /\ removed' = removed
        /\ late' = late /\ sweep' = sweep /\ pc' = pc /\ req' = req
    BY DEF Upload, rows
  <1>2. now \in Time /\ now # Unset /\ m \notin Uploaded
    BY <1>1, ContentAssumption DEF IInv, TypeOK, Time, Uploaded
  <1>3. /\ Uploaded' = Uploaded \cup {m}
        /\ created' \in [Asset -> Time \cup {Unset}]
        /\ \A x \in Uploaded : created'[x] = created[x]
    BY <1>1, <1>2 DEF IInv, TypeOK, Uploaded
  <1>4. TypeOK'
    BY <1>1, <1>3 DEF IInv, TypeOK
  <1>5. SweepSparesAttached' /\ RowsOK' /\ RequestsOK'
    BY <1>1, <1>3 DEF IInv, SweepSparesAttached, RowsOK, RequestsOK, HasRow
  <1>6. YoungOK'
    BY <1>1, <1>3 DEF IInv, YoungOK
  <1>7. PassOK'
    BY <1>1, <1>3 DEF IInv, PassOK, RowsOK, HasRow
  <1>. QED BY <1>4, <1>5, <1>6, <1>7 DEF IInv

LEMMA CreateKeeps ==
  ASSUME IInv, NEW p \in Property, NEW R \in SUBSET Asset, Create(p, R)
  PROVE  IInv'
  <1>1. /\ listing[p] = "none" /\ R \subseteq Uploaded
        /\ listing' = [listing EXCEPT ![p] = "live"] /\ refs' = [refs EXCEPT ![p] = R]
        /\ late' = Late(p, R)
        /\ lock' = lock /\ pc' = pc /\ req' = req
        /\ UNCHANGED <<now, store, created, sweep>>
    BY DEF Create
  <1>2. /\ listing' \in [Property -> Listing] /\ listing'[p] = "live"
        /\ \A q \in Property \ {p} : listing'[q] = listing[q]
    BY <1>1 DEF IInv, TypeOK, Listing
  <1>3. SweepSparesAttached' /\ RowsOK' /\ YoungOK' /\ PassOK'
    BY <1>1, <1>2, AttachKeeps
  <1>4. Uploaded' = Uploaded
    BY <1>1 DEF Uploaded
  <1>5. TypeOK'
    BY <1>1, <1>2, <1>4, LateRows DEF IInv, TypeOK, store
  <1>6. RequestsOK'
    <2>. SUFFICES ASSUME NEW h \in Handler, pc[h] # "idle"
                  PROVE  /\ listing'[req[h].property] # "none"
                         /\ req[h].new \cup req[h].todo \subseteq Uploaded
      BY <1>1, <1>4 DEF RequestsOK
    <2>1. req[h].property \in Property /\ listing[req[h].property] # "none"
      BY DEF IInv, TypeOK, Request, RequestsOK
    <2>. QED BY <1>2, <2>1 DEF IInv, RequestsOK
  <1>. QED BY <1>3, <1>5, <1>6 DEF IInv

LEMMA LoadKeeps ==
  ASSUME IInv, NEW h \in Handler, NEW p \in Property, NEW R \in SUBSET Asset,
         NEW kind \in {"update", "purge"}, Load(h, kind, p, R)
  PROVE  IInv'
  <1>. DEFINE r == [kind |-> kind, property |-> p, new |-> R, todo |-> refs[p] \ R]
  <1>1. r \in Request /\ r.property = p /\ r.new = R /\ r.todo \subseteq Uploaded
    BY DEF Request, IInv, TypeOK, RowsOK
  <1>2. /\ pc' = [pc EXCEPT ![h] = "flush"] /\ req' = [req EXCEPT ![h] = r]
        /\ listing[p] # "none" /\ R \subseteq Uploaded
        /\ lock' = lock /\ UNCHANGED <<now, store, created, listing, refs, late, sweep>>
    BY DEF Load, rows
  <1>. HIDE DEF r
  <1>. QED BY <1>1, <1>2, GoOnKeeps DEF IInv, TypeOK

LEMMA FlushKeeps ==
  ASSUME IInv, NEW h \in Handler, Flush(h)
  PROVE  IInv'
  <1>1. req[h] \in Request /\ req[h].property \in Property /\ pc[h] = "flush"
    BY DEF Flush, IInv, TypeOK, Request
  <1>2. /\ pc' = [pc EXCEPT ![h] = "clean"] /\ req' = [req EXCEPT ![h] = req[h]]
        /\ lock' \in [Property -> Handler \cup {Unset}]
        /\ UNCHANGED <<now, store, created, listing, refs, late, sweep>>
    BY <1>1 DEF Flush, IInv, TypeOK
  <1>3. listing[req[h].property] # "none" /\ req[h].new \cup req[h].todo \subseteq Uploaded
    BY <1>1 DEF IInv, RequestsOK
  <1>. QED BY <1>1, <1>2, <1>3, GoOnKeeps

LEMMA FailKeeps ==
  ASSUME IInv, NEW h \in Handler, Fail(h)
  PROVE  IInv'
  BY NoRequestType, GoOnKeeps DEF Fail, Finish, Unlock, IInv, TypeOK

LEMMA CleanUpKeeps ==
  ASSUME IInv, NEW h \in Handler, NEW m \in Asset, CleanUp(h, m)
  PROVE  IInv'
  <1>. DEFINE r == [req[h] EXCEPT !.todo = @ \ {m}]
  <1>1. /\ req[h] \in Request /\ r \in Request /\ r.property = req[h].property /\ r.new = req[h].new
        /\ r.todo \subseteq req[h].todo
    BY DEF IInv, TypeOK, Request
  <1>2. pc[h] = "clean" /\ m \in req[h].todo /\ req' = [req EXCEPT ![h] = r]
    BY <1>1 DEF CleanUp, Request
  <1>3. m \in Uploaded
    BY <1>2 DEF IInv, RequestsOK
  <1>4. /\ UNCHANGED <<now, created, rows, late, sweep, pc>>
        /\ \/ stored' = stored \ {m} /\ removed' = removed \cup {m}
           \/ stored' = stored /\ removed' = removed
    BY DEF CleanUp, store
  <1>. HIDE DEF r
  <1>5. /\ req' \in [Handler -> Request]
        /\ \A g \in Handler : /\ req'[g].property = req[g].property /\ req'[g].new = req[g].new
                            /\ req'[g].todo \subseteq req[g].todo
    BY <1>1, <1>2 DEF IInv, TypeOK
  <1>. QED BY <1>3, <1>4, <1>5, StandingPass, StoreKeeps DEF IInv, TypeOK

LEMMA CommitKeeps ==
  ASSUME IInv, NEW h \in Handler, Commit(h)
  PROVE  IInv'
  <1>. DEFINE p == req[h].property
              R == req[h].new
  <1>1. /\ pc[h] = "clean" /\ p \in Property /\ R \in SUBSET Asset
        /\ listing[p] # "none" /\ R \subseteq Uploaded
    BY DEF Commit, IInv, TypeOK, Request, RequestsOK
  <1>2. /\ listing' = [listing EXCEPT ![p] = IF req[h].kind = "purge" THEN "purged" ELSE @]
        /\ refs' = [refs EXCEPT ![p] = R] /\ late' = Late(p, R)
        /\ pc' = [pc EXCEPT ![h] = "idle"] /\ req' = [req EXCEPT ![h] = NoRequest]
        /\ lock' = [q \in Property |-> IF lock[q] = h THEN Unset ELSE lock[q]]
        /\ UNCHANGED <<now, store, created, sweep>>
    BY DEF Commit, Unlock, Finish
  <1>. HIDE DEF p, R
  <1>3. /\ listing' \in [Property -> Listing] /\ listing'[p] \in {listing[p], "purged"}
        /\ \A q \in Property \ {p} : listing'[q] = listing[q]
    BY <1>1, <1>2 DEF IInv, TypeOK, Listing
  <1>4. SweepSparesAttached' /\ RowsOK' /\ YoungOK' /\ PassOK'
    BY <1>1, <1>2, <1>3, AttachKeeps DEF HasRow
  <1>5. Uploaded' = Uploaded
    BY <1>2 DEF Uploaded
  <1>6. TypeOK'
    BY <1>1, <1>2, <1>3, <1>5, LateRows, NoRequestType DEF IInv, TypeOK, store
  <1>7. RequestsOK'
    <2>. SUFFICES ASSUME NEW g \in Handler, pc'[g] # "idle"
                  PROVE  /\ listing'[req'[g].property] # "none"
                         /\ req'[g].new \cup req'[g].todo \subseteq Uploaded
      BY <1>5 DEF RequestsOK
    <2>1. pc[g] # "idle" /\ req'[g] = req[g]
      BY <1>2 DEF IInv, TypeOK
    <2>2. req[g].property \in Property /\ listing[req[g].property] # "none"
      BY <2>1 DEF IInv, TypeOK, Request, RequestsOK
    <2>. QED BY <1>1, <1>3, <2>1, <2>2 DEF IInv, RequestsOK
  <1>. QED BY <1>4, <1>6, <1>7 DEF IInv

LEMMA SetDeletedKeeps ==
  ASSUME IInv, NEW p \in Property, SetDeleted(p)
  PROVE  IInv'
  <1>1. /\ now' = now /\ stored' = stored /\ removed' = removed /\ created' = created
        /\ refs' = refs /\ lock' = lock /\ late' = late /\ sweep' = sweep /\ pc' = pc /\ req' = req
        /\ listing' \in [Property -> Listing]
        /\ \A q \in Property : HasRow(q)' = HasRow(q) /\ (listing[q] = "none") = (listing'[q] = "none")
    BY DEF SetDeleted, store, IInv, TypeOK, Listing, HasRow
  <1>2. Uploaded' = Uploaded
    BY <1>1 DEF Uploaded
  <1>3. TypeOK' /\ SweepSparesAttached' /\ RowsOK' /\ YoungOK' /\ PassOK'
    BY <1>1, <1>2 DEF IInv, TypeOK, SweepSparesAttached, RowsOK, YoungOK, PassOK
  <1>4. RequestsOK'
    BY <1>1, <1>2 DEF IInv, TypeOK, Request, RequestsOK
  <1>. QED BY <1>3, <1>4 DEF IInv

-----------------------------------------------------------------------------
(* The steps of the store and of the pass.                                 *)

LEMMA DeleteMediaKeeps ==
  ASSUME IInv, NEW m \in Asset, DeleteMedia(m)
  PROVE  IInv'
  <1>1. /\ m \in stored /\ stored' = stored \ {m} /\ removed' = removed \cup {m}
        /\ sweep' = sweep /\ req' = req
        /\ UNCHANGED <<now, created, rows, late, pc>>
    BY DEF DeleteMedia
  <1>. QED BY <1>1, StandingPass, StoreKeeps DEF IInv, TypeOK

LEMMA TickKeeps ==
  ASSUME IInv, Tick
  PROVE  IInv'
  <1>1. /\ now' \in Time /\ now' >= now
        /\ stored' = stored /\ removed' = removed /\ sweep' = sweep /\ req' = req
        /\ UNCHANGED <<created, rows, late, pc>>
    BY ContentAssumption DEF Tick, store, IInv, TypeOK, Time
  <1>. QED BY <1>1, StandingPass, StoreKeeps DEF IInv, TypeOK

\* What the pass has read is what is referenced.
LEMMA StartPassKeeps ==
  ASSUME IInv, StartPass
  PROVE  IInv'
  <1>. DEFINE s == [step |-> "list", cutoff |-> now - Grace, referenced |-> Referenced, todo |-> {}]
  <1>1. /\ now' = now /\ stored' = stored /\ removed' = removed /\ created' = created
        /\ listing' = listing /\ refs' = refs /\ lock' = lock /\ late' = late
        /\ pc' = pc /\ req' = req /\ sweep' = s
    BY DEF StartPass, store, rows
  <1>2. Uploaded' = Uploaded
    BY <1>1 DEF Uploaded
  <1>3. now - Grace \in -Grace..MaxTime
    BY ContentAssumption DEF IInv, TypeOK, Time
  <1>4. s \in Pass /\ s.cutoff = now - Grace /\ s.todo = {} /\ s.referenced = Referenced
    BY <1>3 DEF Pass, Referenced
  <1>. HIDE DEF s
  <1>5. TypeOK'
    BY <1>1, <1>2, <1>4 DEF IInv, TypeOK
  <1>6. SweepSparesAttached' /\ RowsOK' /\ YoungOK' /\ RequestsOK'
    BY <1>1, <1>2 DEF IInv, SweepSparesAttached, RowsOK, YoungOK, RequestsOK, HasRow
  <1>7. PassOK'
    <2>1. now - Grace <= now - Grace
      BY <1>3
    <2>2. ASSUME NEW p \in Property, HasRow(p), NEW m \in refs[p]
          PROVE  m \in Referenced
      BY <2>2 DEF Referenced, InUse, IInv, TypeOK
    <2>. QED BY <1>1, <1>4, <2>1, <2>2 DEF PassOK, HasRow
  <1>. QED BY <1>5, <1>6, <1>7 DEF IInv

LEMMA PassKeeps ==
  ASSUME IInv,
         \/ \E m \in Asset : Sweep(m) \/ SweepFails(m)
         \/ \E found \in SUBSET Asset : ListStore(found)
         \/ EndPass \/ PassDies
  PROVE  IInv'
  <1>1. now \in Time /\ now >= now /\ sweep \in Pass /\ removed \subseteq Uploaded
    BY TimeType DEF IInv, TypeOK
  <1>2. req \in [Handler -> Request]
    BY DEF IInv, TypeOK
  <1>3. ASSUME NEW m \in Asset, Sweep(m) \/ SweepFails(m)
        PROVE  IInv'
    <2>1. /\ m \in sweep.todo /\ sweep' = [sweep EXCEPT !.todo = @ \ {m}]
          /\ stored' = stored \ {m} \/ stored' = stored
          /\ UNCHANGED <<created, rows, late, pc>>
          /\ now' = now /\ removed' = removed /\ req' = req
      BY <1>3 DEF Sweep, SweepFails, store
    <2>2. /\ sweep' \in Pass /\ sweep'.step = sweep.step /\ sweep'.cutoff = sweep.cutoff
          /\ sweep'.referenced = sweep.referenced /\ sweep'.todo \subseteq sweep.todo
      BY <1>1, <2>1 DEF Pass
    <2>3. sweep.step # "idle"
      BY <2>1 DEF IInv, PassOK
    <2>. QED BY <1>1, <1>2, <2>1, <2>2, <2>3, StoreKeeps
  <1>4. ASSUME NEW found \in SUBSET Asset, ListStore(found)
        PROVE  IInv'
    <2>1. /\ sweep.step = "list" /\ found \subseteq Orphans
          /\ sweep' = [sweep EXCEPT !.step = "destroy", !.todo = found]
          /\ UNCHANGED <<created, rows, late, pc>>
          /\ now' = now /\ stored' = stored /\ removed' = removed /\ req' = req
      BY <1>4 DEF ListStore, store
    <2>2. /\ sweep' \in Pass /\ sweep'.step = "destroy" /\ sweep'.cutoff = sweep.cutoff
          /\ sweep'.referenced = sweep.referenced /\ sweep'.todo = found
      BY <1>1, <2>1 DEF Pass
    <2>. QED BY <1>1, <1>2, <2>1, <2>2, StoreKeeps
  <1>5. CASE EndPass \/ PassDies
    <2>1. /\ UNCHANGED <<created, rows, late, pc>>
          /\ now' = now /\ stored' = stored /\ removed' = removed /\ req' = req
      BY <1>5 DEF EndPass, PassDies, store
    <2>2. sweep' \in Pass /\ sweep'.step = "idle" /\ sweep'.todo = {}
      BY <1>1, <1>5 DEF EndPass, PassDies, Pass
    <2>. QED BY <1>1, <1>2, <2>1, <2>2, StoreKeeps
  <1>. QED BY <1>3, <1>4, <1>5

-----------------------------------------------------------------------------
(* The theorems.                                                           *)

LEMMA NextIInv ==
  ASSUME IInv, [Next]_vars
  PROVE  IInv'
  <1>1. ASSUME NEW m \in Asset, Upload(m) \/ DeleteMedia(m) \/ Sweep(m) \/ SweepFails(m)
        PROVE  IInv'
    BY <1>1, UploadKeeps, DeleteMediaKeeps, PassKeeps
  <1>2. ASSUME NEW p \in Property, SetDeleted(p) \/ \E R \in SUBSET Asset : Create(p, R)
        PROVE  IInv'
    BY <1>2, SetDeletedKeeps, CreateKeeps
  <1>3. ASSUME NEW h \in Handler, NEW p \in Property, NEW R \in SUBSET Asset,
               NEW kind \in {"update", "purge"}, Load(h, kind, p, R)
        PROVE  IInv'
    BY <1>3, LoadKeeps
  <1>4. ASSUME NEW h \in Handler,
               (\E m \in Asset : CleanUp(h, m)) \/ Flush(h) \/ Commit(h) \/ Fail(h)
        PROVE  IInv'
    BY <1>4, CleanUpKeeps, FlushKeeps, CommitKeeps, FailKeeps
  <1>5. ASSUME (\E found \in SUBSET Asset : ListStore(found)) \/ EndPass \/ PassDies
        PROVE  IInv'
    BY <1>5, PassKeeps
  <1>6. CASE StartPass
    BY <1>6, StartPassKeeps
  <1>7. CASE Tick
    BY <1>7, TickKeeps
  <1>8. CASE UNCHANGED vars
    <2>1. /\ now' = now /\ stored' = stored /\ removed' = removed /\ created' = created
          /\ listing' = listing /\ refs' = refs /\ lock' = lock /\ late' = late
          /\ sweep' = sweep /\ pc' = pc /\ req' = req
      BY <1>8 DEF vars, store, rows
    <2>2. Uploaded' = Uploaded
      BY <2>1 DEF Uploaded
    <2>3. TypeOK' /\ SweepSparesAttached' /\ RowsOK' /\ YoungOK'
      BY <2>1, <2>2 DEF IInv, TypeOK, SweepSparesAttached, RowsOK, YoungOK, HasRow
    <2>4. RequestsOK' /\ PassOK'
      BY <2>1, <2>2 DEF IInv, RequestsOK, PassOK, HasRow
    <2>. QED BY <2>3, <2>4 DEF IInv
  <1>. QED BY <1>1, <1>2, <1>3, <1>4, <1>5, <1>6, <1>7, <1>8 DEF Next

\* The inductive invariant holds in every reachable state.
THEOREM Invariant == Spec => []IInv
  BY InitIInv, NextIInv, PTL DEF Spec

\* A photo that was attached in time is in the store, unless a request has
\* destroyed it.
THEOREM AttachedIsSpared == Spec => []SweepSparesAttached
  BY Invariant, PTL DEF IInv
=============================================================================
