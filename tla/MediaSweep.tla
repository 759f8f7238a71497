----------------------------- MODULE MediaSweep -----------------------------
(***************************************************************************)
(* Photos: they are uploaded first and attached to a property later, or    *)
(* never.  Requests that detach photos destroy them in the store before    *)
(* they commit; the maintenance loop destroys what no property references  *)
(* once it is older than the grace period.  The store is external: it      *)
(* knows nothing of the properties, and any call to it may fail.           *)
(***************************************************************************)
EXTENDS ContentRules, Integers

VARIABLES
  now,
  stored,   \* the assets in the store
  created,  \* per asset: when it was uploaded
  listing,  \* the state of each property
  refs,     \* the photos of each property
  lock,     \* the handler that has updated or deleted its row and not committed
  removed,  \* history: assets that a request has destroyed
  late,     \* history: photos attached after their grace period
  sweep,    \* the pass of the maintenance loop
  pc,
  req

rows == <<listing, refs, lock>>
store == <<stored, removed>>
vars == <<now, store, created, rows, late, sweep, pc, req>>

Request == [kind : {"update", "purge"}, property : Property,
            new : SUBSET Asset, todo : SUBSET Asset]

NoRequest == [kind |-> "update", property |-> CHOOSE p \in Property : TRUE,
              new |-> {}, todo |-> {}]

\* referenced is what the pass has read, todo the assets it will destroy.
Pass == [step : {"idle", "list", "destroy"}, cutoff : -Grace..MaxTime,
         referenced : SUBSET Asset, todo : SUBSET Asset]

Init ==
  /\ now = 0
  /\ stored = {}
  /\ created = [m \in Asset |-> Unset]
  /\ listing = [p \in Property |-> "none"]
  /\ refs = [p \in Property |-> {}]
  /\ lock = [p \in Property |-> Unset]
  /\ removed = {}
  /\ late = {}
  /\ sweep = [step |-> "idle", cutoff |-> 0, referenced |-> {}, todo |-> {}]
  /\ pc = [h \in Handler |-> "idle"]
  /\ req = [h \in Handler |-> NoRequest]

-----------------------------------------------------------------------------

Uploaded == {m \in Asset : created[m] # Unset}

HasRow(p) == listing[p] \in {"live", "deleted"}

\* The photos R become those of p; Late is what late is then.
Late(p, R) ==
  {row \in late : row[1] # p \/ row[2] \in R}
    \cup {<<p, m>> : m \in {x \in R \ refs[p] : now >= created[x] + Grace}}

Finish(h) ==
  /\ pc' = [pc EXCEPT ![h] = "idle"]
  /\ req' = [req EXCEPT ![h] = NoRequest]

Unlock(h) == lock' = [p \in Property |-> IF lock[p] = h THEN Unset ELSE lock[p]]

-----------------------------------------------------------------------------
(* POST /media/upload and /media/delete, POST /properties.                 *)

\* Uploads end when their grace period would outlast the clock.
Upload(m) ==
  /\ created[m] = Unset
  /\ now + Grace <= MaxTime
  /\ created' = [created EXCEPT ![m] = now]
  /\ stored' = stored \cup {m}
  /\ UNCHANGED <<now, rows, removed, late, sweep, pc, req>>

DeleteMedia(m) ==
  /\ m \in stored
  /\ stored' = stored \ {m}
  /\ removed' = removed \cup {m}
  /\ UNCHANGED <<now, created, rows, late, sweep, pc, req>>

Create(p, R) ==
  /\ listing[p] = "none"
  /\ R \subseteq Uploaded
  /\ listing' = [listing EXCEPT ![p] = "live"]
  /\ refs' = [refs EXCEPT ![p] = R]
  /\ late' = Late(p, R)
  /\ UNCHANGED <<now, store, created, lock, sweep, pc, req>>

-----------------------------------------------------------------------------
(* PUT /properties/{id}, DELETE /properties/{id}?purge=true.               *)

\* The photos of the row are remembered as they are now.
Load(h, kind, p, R) ==
  /\ pc[h] = "idle"
  /\ listing[p] = "live" \/ (listing[p] = "deleted" /\ kind = "purge")
  /\ R \subseteq Uploaded
  /\ kind = "purge" => R = {}
  /\ pc' = [pc EXCEPT ![h] = "flush"]
  /\ req' = [req EXCEPT ![h] = [kind |-> kind, property |-> p, new |-> R, todo |-> refs[p] \ R]]
  /\ UNCHANGED <<now, store, created, rows, late, sweep>>

\* UPDATE or DELETE; the row is locked.
Flush(h) ==
  /\ pc[h] = "flush"
  /\ HasRow(req[h].property)
  /\ lock[req[h].property] = Unset
  /\ lock' = [lock EXCEPT ![req[h].property] = h]
  /\ pc' = [pc EXCEPT ![h] = "clean"]
  /\ UNCHANGED <<now, store, created, listing, refs, late, sweep, req>>

\* _cleanup_assets: one call to the store after the other; one that fails is
\* passed over.
CleanUp(h, m) ==
  /\ pc[h] = "clean"
  /\ m \in req[h].todo
  /\ req' = [req EXCEPT ![h].todo = @ \ {m}]
  /\ \/ (stored' = stored \ {m} /\ removed' = removed \cup {m})
     \/ UNCHANGED store
  /\ UNCHANGED <<now, created, rows, late, sweep, pc>>

Commit(h) ==
  LET p == req[h].property IN
  /\ pc[h] = "clean"
  /\ req[h].todo = {}
  /\ listing' = [listing EXCEPT ![p] = IF req[h].kind = "purge" THEN "purged" ELSE @]
  /\ refs' = [refs EXCEPT ![p] = req[h].new]
  /\ late' = Late(p, req[h].new)
  /\ Unlock(h)
  /\ Finish(h)
  /\ UNCHANGED <<now, store, created, sweep>>

\* The row is gone, or the worker dies; what the store has destroyed stays so.
Fail(h) ==
  /\ pc[h] # "idle"
  /\ Unlock(h)
  /\ Finish(h)
  /\ UNCHANGED <<now, store, created, listing, refs, late, sweep>>

\* DELETE /properties/{id} and POST /properties/{id}/restore keep the photos.
SetDeleted(p) ==
  /\ HasRow(p)
  /\ lock[p] = Unset
  /\ listing' = [listing EXCEPT ![p] = IF @ = "live" THEN "deleted" ELSE "live"]
  /\ UNCHANGED <<now, store, created, refs, lock, late, sweep, pc, req>>

-----------------------------------------------------------------------------
(* sweep_orphan_media.                                                     *)

InUse(m) == \E p \in Property : HasRow(p) /\ m \in refs[p]

\* Mutant: a deleted property is not asked for its photos.
OfLive == {m \in Asset : \E p \in Property : listing[p] = "live" /\ m \in refs[p]}

\* Mutant: what an earlier pass has read is kept.
Remembered == sweep.referenced \cup {m \in Asset : InUse(m)}

\* _referenced_public_ids.
Referenced == {m \in Asset : InUse(m)}

StartPass ==
  /\ sweep.step = "idle"
  /\ sweep' = [step |-> "list", cutoff |-> now - Grace, referenced |-> Referenced, todo |-> {}]
  /\ UNCHANGED <<now, store, created, rows, late, pc, req>>

Orphans == {m \in stored \ sweep.referenced : created[m] <= sweep.cutoff}

\* The listing of the store ends early when a page cannot be read.
ListStore(found) ==
  /\ sweep.step = "list"
  /\ found \subseteq Orphans
  /\ sweep' = [sweep EXCEPT !.step = "destroy", !.todo = found]
  /\ UNCHANGED <<now, store, created, rows, late, pc, req>>

Sweep(m) ==
  /\ m \in sweep.todo
  /\ sweep' = [sweep EXCEPT !.todo = @ \ {m}]
  /\ stored' = stored \ {m}
  /\ UNCHANGED <<now, created, rows, removed, late, pc, req>>

SweepFails(m) ==
  /\ m \in sweep.todo
  /\ sweep' = [sweep EXCEPT !.todo = @ \ {m}]
  /\ UNCHANGED <<now, store, created, rows, late, pc, req>>

\* The pass is over, or has died; the loop starts the next one.
EndPass ==
  /\ sweep.step = "destroy"
  /\ sweep.todo = {}
  /\ sweep' = [sweep EXCEPT !.step = "idle"]
  /\ UNCHANGED <<now, store, created, rows, late, pc, req>>

PassDies ==
  /\ sweep.step # "idle"
  /\ sweep' = [sweep EXCEPT !.step = "idle", !.todo = {}]
  /\ UNCHANGED <<now, store, created, rows, late, pc, req>>

Tick ==
  /\ now < MaxTime
  /\ now' = now + 1
  /\ UNCHANGED <<store, created, rows, late, sweep, pc, req>>

Next ==
  \/ \E m \in Asset : Upload(m) \/ DeleteMedia(m) \/ Sweep(m) \/ SweepFails(m)
  \/ \E p \in Property : SetDeleted(p) \/ \E R \in SUBSET Asset : Create(p, R)
  \/ \E h \in Handler :
       \/ \E p \in Property, R \in SUBSET Asset, kind \in {"update", "purge"} :
            Load(h, kind, p, R)
       \/ \E m \in Asset : CleanUp(h, m)
       \/ Flush(h) \/ Commit(h) \/ Fail(h)
  \/ \E found \in SUBSET Asset : ListStore(found)
  \/ StartPass \/ EndPass \/ PassDies \/ Tick

Spec == Init /\ [][Next]_vars

\* The loop goes on and time passes; a store that is asked again and again
\* answers in the end.
Fairness ==
  /\ WF_vars(StartPass) /\ WF_vars(EndPass) /\ WF_vars(Tick)
  /\ SF_vars(ListStore(Orphans))
  /\ \A m \in Asset : SF_vars(Sweep(m))
-----------------------------------------------------------------------------
TypeOK ==
  /\ now \in Time
  /\ stored \subseteq Uploaded
  /\ created \in [Asset -> Time \cup {Unset}]
  /\ listing \in [Property -> Listing]
  /\ refs \in [Property -> SUBSET Asset]
  /\ lock \in [Property -> Handler \cup {Unset}]
  /\ removed \subseteq Uploaded
  /\ late \subseteq Property \X Asset
  /\ sweep \in Pass
  /\ pc \in [Handler -> {"idle", "flush", "clean"}]
  /\ req \in [Handler -> Request]

\* The sweep, which reads the references and destroys later, takes no photo of
\* a property, live or deleted: a photo that is attached within its grace period
\* is in the store, unless a request has destroyed it there.
SweepSparesAttached ==
  \A p \in Property :
    HasRow(p) =>
      \A m \in refs[p] : m \in stored \/ m \in removed \/ <<p, m>> \in late

\* What no property references is destroyed in the end.
OrphanIsSwept ==
  \A m \in Asset :
    (m \in stored /\ ~ InUse(m)) ~> (m \notin stored \/ InUse(m))
=============================================================================
