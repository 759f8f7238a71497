------------------------------ MODULE Sessions ------------------------------
(***************************************************************************)
(* Access tokens: how a request is authenticated (get_current_user, and    *)
(* get_current_user_optional for guests), the renewal past a share of the  *)
(* lifetime, POST /auth/refresh and /auth/logout with the denylist, and    *)
(* the purge that takes rows off the denylist.  A token is a signed        *)
(* statement: the server keeps nothing of it but its denial.               *)
(***************************************************************************)
EXTENDS AccountRules

VARIABLES
  now,
  active,    \* accounts with users.is_active
  verified,  \* accounts with users.is_verified
  token,     \* the tokens that clients hold
  denied,    \* the rows of token_denylist
  out,       \* history: tokens whose logout or refresh left a row there
  pc,
  req

vars == <<now, active, verified, token, denied, out, pc, req>>

Kinds == {"read", "guest", "logout", "refresh"}

Steps == {"idle", "denylist", "user", "claims", "lookup", "insert", "answer"}

\* fresh is a history variable: the token has not been denied since the
\* denylist was read.
Request == [kind : Kinds, token : Token, fresh : BOOLEAN]

NoRequest == [kind |-> "read", token |-> CHOOSE t \in Token : TRUE, fresh |-> TRUE]

Init ==
  /\ now = 0
  /\ active = Address
  /\ verified = {}
  /\ token = [t \in Token |-> NoRow]
  /\ denied = {}
  /\ out = {}
  /\ pc = [h \in Handler |-> "idle"]
  /\ req = [h \in Handler |-> NoRequest]

-----------------------------------------------------------------------------

Issued(t) == token[t] # NoRow

\* jwt.decode refuses a token from the second of its exp on.
Decodes(t) == Issued(t) /\ now < token[t].exp

\* create_access_token.
Issue(t, sub) ==
  /\ ~ Issued(t)
  /\ token' = [token EXCEPT ![t] = [sub |-> sub, iat |-> now, exp |-> now + Life]]

Goto(h, step) == pc' = [pc EXCEPT ![h] = step]

Finish(h) ==
  /\ Goto(h, "idle")
  /\ req' = [req EXCEPT ![h] = NoRequest]

-----------------------------------------------------------------------------

\* POST /auth/login tests is_active and is_verified; the verification of a code
\* and the sign-in through a provider do not look at is_active, and the latter
\* not at is_verified.
SignIn(a, t) ==
  /\ Issue(t, a)
  /\ UNCHANGED <<now, active, verified, denied, out, pc, req>>

Verify(a) ==
  /\ verified' = verified \cup {a}
  /\ UNCHANGED <<now, active, token, denied, out, pc, req>>

\* PATCH /admin/users/{id}/status.
SetActive(a) ==
  /\ active' = (IF a \in active THEN active \ {a} ELSE active \cup {a})
  /\ UNCHANGED <<now, verified, token, denied, out, pc, req>>

-----------------------------------------------------------------------------
(* The dependencies of a request.                                          *)

Present(h, t, kind) ==
  /\ pc[h] = "idle"
  /\ Decodes(t)
  /\ Goto(h, "denylist")
  /\ req' = [req EXCEPT ![h] = [kind |-> kind, token |-> t, fresh |-> TRUE]]
  /\ UNCHANGED <<now, active, verified, token, denied, out>>

\* is_token_revoked.
Accept(h) ==
  /\ pc[h] = "denylist"
  /\ req[h].token \notin denied
  /\ Goto(h, "user")
  /\ req' = [req EXCEPT ![h].fresh = TRUE]
  /\ UNCHANGED <<now, active, verified, token, denied, out>>

Usable(h) ==
  LET a == token[req[h].token].sub IN
  a \in active /\ (req[h].kind = "guest" \/ a \in verified)

\* The user is loaded; past the threshold a new token goes out in the answer.
LoadUser(h) ==
  LET t == req[h].token
      renew == req[h].kind # "guest" /\ now - token[t].iat >= RenewAfter
  IN
  /\ pc[h] = "user"
  /\ Usable(h)
  /\ IF renew /\ \E s \in Token : ~ Issued(s)
       THEN \E s \in Token : Issue(s, token[t].sub) ELSE UNCHANGED token
  /\ Goto(h, IF req[h].kind \in {"logout", "refresh"} THEN "claims" ELSE "answer")
  /\ UNCHANGED <<now, active, verified, denied, out, req>>

\* 401.
Unauthorized(h) ==
  /\ \/ pc[h] = "denylist" /\ req[h].token \in denied
     \/ pc[h] = "user" /\ ~ Usable(h)
     \/ pc[h] = "claims" /\ req[h].kind = "refresh" /\ ~ Decodes(req[h].token)
  /\ Finish(h)
  /\ UNCHANGED <<now, active, verified, token, denied, out>>

Answer(h) ==
  /\ pc[h] = "answer"
  /\ Finish(h)
  /\ UNCHANGED <<now, active, verified, token, denied, out>>

-----------------------------------------------------------------------------
(* POST /auth/logout and /auth/refresh.                                    *)

\* The token is decoded a second time.
ReadClaims(h) ==
  /\ pc[h] = "claims"
  /\ Decodes(req[h].token)
  /\ Goto(h, "lookup")
  /\ UNCHANGED <<now, active, verified, token, denied, out, req>>

\* "Signed out." is the answer to a token that has expired in between as well.
SignedOutByExpiry(h) ==
  /\ pc[h] = "claims"
  /\ req[h].kind = "logout"
  /\ ~ Decodes(req[h].token)
  /\ Finish(h)
  /\ UNCHANGED <<now, active, verified, token, denied, out>>

\* The answer of a logout, or of a refresh with the new token.
Conclude(h) ==
  LET t == req[h].token IN
  /\ IF req[h].kind = "refresh" THEN \E s \in Token : Issue(s, token[t].sub)
                                ELSE UNCHANGED token
  /\ out' = out \cup {t}
  /\ pc' = [pc EXCEPT ![h] = "idle"]
  /\ req' = [g \in Handler |->
               IF g = h THEN NoRequest ELSE [req[g] EXCEPT !.fresh = @ /\ req[g].token # t]]

\* revoke_token finds no row.
NotDeniedYet(h) ==
  /\ pc[h] = "lookup"
  /\ req[h].token \notin denied
  /\ Goto(h, "insert")
  /\ UNCHANGED <<now, active, verified, token, denied, out, req>>

\* It finds one, committed since the request was let in, and leaves it.
DeniedAlready(h) ==
  /\ pc[h] = "lookup"
  /\ req[h].token \in denied
  /\ Conclude(h)
  /\ UNCHANGED <<now, active, verified, denied>>

\* Mutant: the answer does not wait for the row.
NoDenial(t) == denied

Denial(t) == denied \cup {t}

\* INSERT, record_login, commit.
Deny(h) ==
  /\ pc[h] = "insert"
  /\ req[h].token \notin denied
  /\ denied' = Denial(req[h].token)
  /\ Conclude(h)
  /\ UNCHANGED <<now, active, verified>>

\* jti is the primary key: the other request's row fails this one.
DeniedMeanwhile(h) ==
  /\ pc[h] = "insert"
  /\ req[h].token \in denied
  /\ Finish(h)
  /\ UNCHANGED <<now, active, verified, token, denied, out>>

-----------------------------------------------------------------------------

\* Mutant: rows that expire this second go as well as rows that will.
ExpiredSoon(t) == token[t].exp <= now + 1

Expired(t) == token[t].exp < now

\* purge_expired.
Purge ==
  /\ denied' = {t \in denied : ~ Expired(t)}
  /\ UNCHANGED <<now, active, verified, token, out, pc, req>>

Crash(h) ==
  /\ pc[h] # "idle"
  /\ Finish(h)
  /\ UNCHANGED <<now, active, verified, token, denied, out>>

Tick ==
  /\ now < MaxTime
  /\ now' = now + 1
  /\ UNCHANGED <<active, verified, token, denied, out, pc, req>>

Next ==
  \/ \E a \in Address : Verify(a) \/ SetActive(a) \/ \E t \in Token : SignIn(a, t)
  \/ \E h \in Handler :
       \/ \E t \in Token, kind \in Kinds : Present(h, t, kind)
       \/ Accept(h) \/ LoadUser(h) \/ Unauthorized(h) \/ Answer(h)
       \/ ReadClaims(h) \/ SignedOutByExpiry(h)
       \/ NotDeniedYet(h) \/ DeniedAlready(h) \/ Deny(h) \/ DeniedMeanwhile(h)
       \/ Crash(h)
  \/ Purge \/ Tick

Spec == Init /\ [][Next]_vars
-----------------------------------------------------------------------------
TypeOK ==
  /\ now \in Time
  /\ active \subseteq Address
  /\ verified \subseteq Address
  /\ token \in [Token -> TokenRow \cup {NoRow}]
  /\ denied \subseteq {t \in Token : Issued(t)}
  /\ out \subseteq {t \in Token : Issued(t)}
  /\ pc \in [Handler -> Steps]
  /\ req \in [Handler -> Request]

\* Signed out is signed out: a token of which a logout or a refresh was answered
\* stays on the denylist until it has expired, so that no request that starts
\* later is let in with it.  The purge may take the row off ("Rows past
\* expires_at can be pruned") only when the signature check refuses the token.
OutIsDenied ==
  \A t \in out : t \in denied \/ ~ Decodes(t)

\* A token is exchanged for one new token, unless two refreshes of it overlap:
\* the second finds the row of the first and answers with a token of its own.
ExchangedOnce ==
  [][\A h \in Handler :
       (Deny(h) \/ DeniedAlready(h)) /\ req[h].fresh => req[h].token \notin out]_vars
=============================================================================
