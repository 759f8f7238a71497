----------------------------- MODULE ResetLinks -----------------------------
(***************************************************************************)
(* POST /auth/forgot-password and /auth/reset-password, the links of a     *)
(* staff invitation, and the purge of expired links.  A reset loads the    *)
(* link, tests it, and writes the password and the time of use in one      *)
(* transaction; the link is not locked when it is tested.                  *)
(***************************************************************************)
EXTENDS AccountRules

VARIABLES
  now,
  password,  \* per account: the link that set it, or Original
  link,      \* the rows of password_reset_tokens
  resets,    \* history: how often a link has set the password
  raced,     \* history: links that were used from an old reading
  pc,
  req

vars == <<now, password, link, resets, raced, pc, req>>

\* A link that is mailed never comes again: its row is there while it is "live"
\* or "used".
States == {"new", "live", "used", "purged"}

LinkRow == [state : States, owner : Address, expires : Nat]

\* fresh is a history variable: the link has not been used since it was read.
Request == [link : Link, fresh : BOOLEAN]

NoRequest == [link |-> CHOOSE l \in Link : TRUE, fresh |-> TRUE]

Init ==
  /\ now = 0
  /\ password = [a \in Address |-> Original]
  /\ link = [l \in Link |-> [state |-> "new", owner |-> CHOOSE a \in Address : TRUE, expires |-> 0]]
  /\ resets = [l \in Link |-> 0]
  /\ raced = {}
  /\ pc = [h \in Handler |-> "idle"]
  /\ req = [h \in Handler |-> NoRequest]

-----------------------------------------------------------------------------

HasRow(l) == link[l].state \in {"live", "used"}

Finish(h) ==
  /\ pc' = [pc EXCEPT ![h] = "idle"]
  /\ req' = [req EXCEPT ![h] = NoRequest]

\* issue_password_reset_token, for an account that has a password, or for staff
\* that is invited and has none.
Mail(a, l) ==
  /\ link[l].state = "new"
  /\ link' = [link EXCEPT ![l] = [state |-> "live", owner |-> a, expires |-> now + Ttl]]
  /\ UNCHANGED <<now, password, resets, raced, pc, req>>

\* Mutant: a used link is as good as a new one.
NotExpired(l) == HasRow(l) /\ link[l].expires >= now

\* The row is there, not used and not expired.
Usable(l) == link[l].state = "live" /\ link[l].expires >= now

ReadLink(h, l) ==
  /\ pc[h] = "idle"
  /\ Usable(l)
  /\ pc' = [pc EXCEPT ![h] = "reset"]
  /\ req' = [req EXCEPT ![h] = [link |-> l, fresh |-> TRUE]]
  /\ UNCHANGED <<now, password, link, resets, raced>>

\* Mutant: the time of use is not stored.
StillLive(l) == link

MarkUsed(l) == [link EXCEPT ![l].state = "used"]

\* UPDATE users, UPDATE the link, commit.
ResetPassword(h) ==
  LET l == req[h].link IN
  /\ pc[h] = "reset"
  /\ HasRow(l)
  /\ password' = [password EXCEPT ![link[l].owner] = l]
  /\ link' = MarkUsed(l)
  /\ resets' = [resets EXCEPT ![l] = @ + 1]
  /\ raced' = IF req[h].fresh THEN raced ELSE raced \cup {l}
  /\ pc' = [pc EXCEPT ![h] = "idle"]
  /\ req' = [g \in Handler |->
               IF g = h THEN NoRequest ELSE [req[g] EXCEPT !.fresh = @ /\ req[g].link # l]]
  /\ UNCHANGED now

\* The UPDATE of a link that has been purged fails, and with it the transaction.
LinkGone(h) ==
  /\ pc[h] = "reset"
  /\ ~ HasRow(req[h].link)
  /\ Finish(h)
  /\ UNCHANGED <<now, password, link, resets, raced>>

Crash(h) ==
  /\ pc[h] # "idle"
  /\ Finish(h)
  /\ UNCHANGED <<now, password, link, resets, raced>>

\* purge_expired, whether the link was used or not.
Purge ==
  /\ link' = [l \in Link |-> IF HasRow(l) /\ link[l].expires < now
                               THEN [link[l] EXCEPT !.state = "purged"] ELSE link[l]]
  /\ UNCHANGED <<now, password, resets, raced, pc, req>>

Tick ==
  /\ now < MaxTime
  /\ now' = now + 1
  /\ UNCHANGED <<password, link, resets, raced, pc, req>>

Next ==
  \/ \E a \in Address, l \in Link : Mail(a, l)
  \/ \E h \in Handler :
       \/ \E l \in Link : ReadLink(h, l)
       \/ ResetPassword(h) \/ LinkGone(h) \/ Crash(h)
  \/ Purge \/ Tick

Spec == Init /\ [][Next]_vars
-----------------------------------------------------------------------------
TypeOK ==
  /\ now \in Time
  /\ password \in [Address -> Link \cup {Original}]
  /\ link \in [Link -> LinkRow]
  /\ resets \in [Link -> Nat]
  /\ raced \subseteq Link
  /\ pc \in [Handler -> {"idle", "reset"}]
  /\ req \in [Handler -> Request]

\* A link sets a password once, unless two resets with it overlap.  The password
\* and the mark of use are one transaction, which the purge of the link undoes
\* as a whole: a link that has set a password is spent, and the password that it
\* has set is its owner's.
ResetOnce ==
  /\ \A l \in Link :
       /\ l \notin raced => resets[l] <= 1
       /\ resets[l] > 0 => link[l].state \in {"used", "purged"}
       /\ link[l].state = "used" => resets[l] > 0
  /\ \A a \in Address, l \in Link :
       password[a] = l => link[l].owner = a /\ link[l].state \in {"used", "purged"}
=============================================================================
