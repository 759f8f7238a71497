------------------------------- MODULE Inbox -------------------------------
(***************************************************************************)
(* Conversations: POST /conversations finds the open thread of a guest on  *)
(* a property or inserts one, GET /conversations lists threads, and agents *)
(* are assigned to properties, which decides what they see.  Nothing       *)
(* closes a thread, so that every thread is OPEN.                          *)
(***************************************************************************)
EXTENDS ContentRules

VARIABLES
  listing,   \* the state of each property
  thread,    \* the rows of conversations
  assigned,  \* the rows of property_agents
  raced,     \* history: keys under which a thread was inserted on an old reading
  pc,
  req

vars == <<listing, thread, assigned, raced, pc, req>>

Steps == {"idle", "find", "insert", "assign"}

\* Who writes about what: user is Unset for a visitor who is not signed in, and
\* the agent when an agent is assigned.
Key == [property : Property, user : Account \cup {Unset}, email : Email]

\* fresh is a history variable: the lookup would still give the same.
Request == [key : Key, fresh : BOOLEAN]

NoRequest ==
  [key |-> [property |-> CHOOSE p \in Property : TRUE, user |-> Unset,
            email |-> CHOOSE e \in Email : TRUE],
   fresh |-> TRUE]

Init ==
  /\ listing = [p \in Property |-> "live"]
  /\ thread = [t \in Thread |-> NoRow]
  /\ assigned = {}
  /\ raced = {}
  /\ pc = [h \in Handler |-> "idle"]
  /\ req = [h \in Handler |-> NoRequest]

-----------------------------------------------------------------------------

Exists(p) == listing[p] # "purged"

Threads == {t \in Thread : thread[t] # NoRow}

\* Mutant: a guest who is signed in is looked up by address as well.
ByEmail(k) ==
  {t \in Threads : thread[t].property = k.property /\ thread[t].email = k.email}

\* The open threads of one guest on a property: by account for who is signed
\* in, and by address for a visitor, whoever wrote under that address.
Matching(k) ==
  {t \in Threads :
     /\ thread[t].property = k.property
     /\ IF k.user # Unset THEN thread[t].user = k.user ELSE thread[t].email = k.email}

Begin(h, step, k) ==
  /\ pc[h] = "idle"
  /\ pc' = [pc EXCEPT ![h] = step]
  /\ req' = [req EXCEPT ![h] = [key |-> k, fresh |-> TRUE]]

Finish(h) ==
  /\ pc' = [pc EXCEPT ![h] = "idle"]
  /\ req' = [req EXCEPT ![h] = NoRequest]

-----------------------------------------------------------------------------
(* POST /conversations.                                                    *)

ReadProperty(h, k) ==
  /\ listing[k.property] = "live"
  /\ Begin(h, "find", k)
  /\ UNCHANGED <<listing, thread, assigned, raced>>

\* The first message goes to a thread that is found.
ReuseThread(h) ==
  /\ pc[h] = "find"
  /\ Matching(req[h].key) # {}
  /\ Finish(h)
  /\ UNCHANGED <<listing, thread, assigned, raced>>

NoThread(h) ==
  /\ pc[h] = "find"
  /\ Matching(req[h].key) = {}
  /\ pc' = [pc EXCEPT ![h] = "insert"]
  /\ req' = [req EXCEPT ![h].fresh = TRUE]
  /\ UNCHANGED <<listing, thread, assigned, raced>>

\* INSERT the thread and its first message, commit.
InsertThread(h, t) ==
  LET k == req[h].key
      sameThread(g) ==
        /\ req[g].key.property = k.property
        /\ IF req[g].key.user # Unset THEN req[g].key.user = k.user
                                      ELSE req[g].key.email = k.email
  IN
  /\ pc[h] = "insert"
  /\ Exists(k.property)
  /\ thread[t] = NoRow
  /\ thread' = [thread EXCEPT ![t] = k]
  /\ raced' = IF req[h].fresh THEN raced ELSE raced \cup {k}
  /\ pc' = [pc EXCEPT ![h] = "idle"]
  /\ req' = [g \in Handler |->
               IF g = h THEN NoRequest ELSE [req[g] EXCEPT !.fresh = @ /\ ~ sameThread(g)]]
  /\ UNCHANGED <<listing, assigned>>

-----------------------------------------------------------------------------
(* POST and DELETE /admin/properties/{id}/agents.                          *)

\* The property may be deleted; the target is staff, and has no row.
ReadAssignment(h, p, a, e) ==
  /\ Exists(p)
  /\ <<p, a>> \notin assigned
  /\ Begin(h, "assign", [property |-> p, user |-> a, email |-> e])
  /\ UNCHANGED <<listing, thread, assigned, raced>>

Assign(h) ==
  LET row == <<req[h].key.property, req[h].key.user>> IN
  /\ pc[h] = "assign"
  /\ Exists(row[1])
  /\ row \notin assigned
  /\ assigned' = assigned \cup {row}
  /\ Finish(h)
  /\ UNCHANGED <<listing, thread, raced>>

\* The row is loaded and deleted; no row is no error.
Unassign(p, a) ==
  /\ <<p, a>> \in assigned
  /\ assigned' = assigned \ {<<p, a>>}
  /\ UNCHANGED <<listing, thread, raced, pc, req>>

\* A key that is taken, a property that is gone, or a worker that dies: the
\* transaction is rolled back.
Fail(h) ==
  /\ pc[h] # "idle"
  /\ Finish(h)
  /\ UNCHANGED <<listing, thread, assigned, raced>>

-----------------------------------------------------------------------------
(* DELETE /properties/{id} and /properties/{id}/restore.                   *)

DeleteProperty(p) ==
  /\ listing[p] = "live"
  /\ listing' = [listing EXCEPT ![p] = "deleted"]
  /\ UNCHANGED <<thread, assigned, raced, pc, req>>

RestoreProperty(p) ==
  /\ listing[p] = "deleted"
  /\ listing' = [listing EXCEPT ![p] = "live"]
  /\ UNCHANGED <<thread, assigned, raced, pc, req>>

\* ON DELETE CASCADE.
PurgeProperty(p) ==
  /\ Exists(p)
  /\ listing' = [listing EXCEPT ![p] = "purged"]
  /\ thread' = [t \in Thread |->
                  IF t \in Threads /\ thread[t].property = p THEN NoRow ELSE thread[t]]
  /\ assigned' = {row \in assigned : row[1] # p}
  /\ UNCHANGED <<raced, pc, req>>

Next ==
  \/ \E h \in Handler :
       \/ \E k \in Key : ReadProperty(h, k)
       \/ ReuseThread(h) \/ NoThread(h)
       \/ \E t \in Thread : InsertThread(h, t)
       \/ \E p \in Property, a \in Account, e \in Email : ReadAssignment(h, p, a, e)
       \/ Assign(h) \/ Fail(h)
  \/ \E p \in Property :
       \/ DeleteProperty(p) \/ RestoreProperty(p) \/ PurgeProperty(p)
       \/ \E a \in Account : Unassign(p, a)

Spec == Init /\ [][Next]_vars
-----------------------------------------------------------------------------
(* Who lists and who reads a thread.                                       *)

AssignedIds(u) == {p \in Property : <<p, u>> \in assigned}

\* Mutant: the filter of an agent without assignments is left out, and not
\* replaced by one that matches nothing.
ListedUnlessNone(u, role) ==
  {t \in Threads :
     \/ role = "admin"
     \/ role = "agent" /\ (AssignedIds(u) = {} \/ thread[t].property \in AssignedIds(u))
     \/ role = "user" /\ thread[t].user = u}

\* list_conversations, without the filters that the caller chooses.
Listed(u, role) ==
  {t \in Threads :
     \/ role = "admin"
     \/ role = "agent" /\ thread[t].property \in AssignedIds(u)
     \/ role = "user" /\ thread[t].user = u}

\* can_access, for a caller without a guest token.
CanAccess(t, u, role) ==
  \/ thread[t].user = u
  \/ role = "admin"
  \/ role = "agent" /\ thread[t].property \in AssignedIds(u)
-----------------------------------------------------------------------------
TypeOK ==
  /\ listing \in [Property -> Listing]
  /\ thread \in [Thread -> Key \cup {NoRow}]
  /\ assigned \subseteq Property \X Account
  /\ raced \subseteq Key
  /\ pc \in [Handler -> Steps]
  /\ req \in [Handler -> Request]

\* "One thread per (property, guest) pair": no index backs it, and two first
\* messages that overlap open two threads.  Otherwise who is signed in has one
\* thread on a property, and who is not has one that no account owns; through
\* reuse, deletion and restoring of the property.  What somebody's inbox lists,
\* in whichever role, the same person may open.
OneThread ==
  /\ \A s, t \in Threads :
       LET k == thread[s]
           l == thread[t]
       IN  /\ k.property = l.property
           /\ k.user = l.user
           /\ k.user # Unset \/ k.email = l.email
           => s = t \/ k \in raced \/ l \in raced
  /\ \A u \in Account, role \in {"user", "agent", "admin"} :
       \A t \in Listed(u, role) : CanAccess(t, u, role)
=============================================================================
