--------------------------- MODULE SessionsProofs ---------------------------
(***************************************************************************)
(* Signing out, for any number of tokens and of overlapping requests.      *)
(***************************************************************************)
EXTENDS Sessions, TLAPS

-----------------------------------------------------------------------------
(* The inductive invariant.                                                *)

\* A request has a token that was issued.  Until the token is denied, a request
\* that found no row on the denylist finds none; and what has still to be
\* denied has not signed out before, although rows are purged: the token was
\* decoded a second time, when it could not be purged yet.
RequestOK(h) ==
  /\ pc[h] # "idle" => Issued(req[h].token)
  /\ pc[h] \in {"user", "claims", "lookup", "insert"} /\ req[h].fresh =>
       req[h].token \notin denied
  /\ pc[h] \in {"lookup", "insert"} /\ req[h].fresh => req[h].token \notin out

RequestsOK == \A h \in Handler : RequestOK(h)

IInv == TypeOK /\ OutIsDenied /\ RequestsOK

\* ExchangedOnce, of one step.
Exchanged ==
  \A h \in Handler :
    (Deny(h) \/ DeniedAlready(h)) /\ req[h].fresh => req[h].token \notin out

-----------------------------------------------------------------------------

\* An idle handler's request is one.
LEMMA NoRequestType == NoRequest \in Request
  BY AccountAssumption DEF NoRequest, Request, Kinds

\* At the start nobody is signed in.
LEMMA InitIInv == Init => IInv
  <1>. SUFFICES ASSUME Init PROVE IInv
    OBVIOUS
  <1>1. TypeOK
    BY NoRequestType, AccountAssumption DEF Init, TypeOK, Time, Steps, Issued
  <1>2. OutIsDenied /\ RequestsOK
    BY DEF Init, OutIsDenied, RequestsOK, RequestOK
  <1>. QED BY <1>1, <1>2 DEF IInv

\* A new token leaves the old ones as they are.
LEMMA IssueKeepsTokens ==
  ASSUME TypeOK, NEW s \in Token, NEW a \in Address, Issue(s, a)
  PROVE  /\ token' \in [Token -> TokenRow \cup {NoRow}]
         /\ \A t \in Token : Issued(t) => token'[t] = token[t] /\ Issued(t)'
  <1>1. [sub |-> a, iat |-> now, exp |-> now + Life] \in TokenRow
    BY AccountAssumption DEF TypeOK, TokenRow, Time
  <1>. QED BY <1>1, NoAccountRow DEF Issue, Issued, TypeOK

\* Requests that go on, or end, without a denial: no row comes or goes but of
\* tokens that have expired.
LEMMA StepKeeps ==
  ASSUME IInv,
         now' \in Time, now' >= now,
         active' \subseteq Address, verified' \subseteq Address,
         token' \in [Token -> TokenRow \cup {NoRow}],
         \A t \in Token : Issued(t) => token'[t] = token[t],
         denied' \subseteq denied,
         \A t \in denied \ denied' : token[t].exp < now',
         out' = out,
         pc' \in [Handler -> Steps], req' \in [Handler -> Request],
         \A g \in Handler :
           \/ pc'[g] = "idle"
           \/ pc'[g] = pc[g] /\ req'[g] = req[g]
           \/ RequestOK(g)'
  PROVE  IInv'
  <1>1. \A t \in Token : Issued(t) => Issued(t)'
    BY DEF Issued
  <1>2. TypeOK'
    BY <1>1 DEF IInv, TypeOK
  <1>3. OutIsDenied'
    <2>. SUFFICES ASSUME NEW t \in out', t \notin denied'
                  PROVE  ~ Decodes(t)'
      BY DEF OutIsDenied
    <2>1. /\ t \in Token /\ Issued(t) /\ token'[t] = token[t]
          /\ token[t] \in TokenRow
      BY DEF IInv, TypeOK, Issued
    <2>2. token[t].exp \in Nat /\ now \in Nat /\ now' \in Nat
      BY <2>1 DEF IInv, TypeOK, TokenRow, Time
    <2>3. token[t].exp <= now'
      BY <2>1, <2>2 DEF IInv, OutIsDenied, Decodes
    <2>. QED BY <2>1, <2>2, <2>3 DEF Decodes
  <1>4. RequestsOK'
    <2>. SUFFICES ASSUME NEW g \in Handler PROVE RequestOK(g)'
      BY DEF RequestsOK
    <2>1. req[g].token \in Token
      BY DEF IInv, TypeOK, Request
    <2>2. CASE pc'[g] = "idle"
      BY <2>2 DEF RequestOK
    <2>3. CASE pc'[g] = pc[g] /\ req'[g] = req[g]
      BY <1>1, <2>1, <2>3 DEF IInv, RequestsOK, RequestOK, Issued
    <2>. QED BY <2>2, <2>3
  <1>. QED BY <1>2, <1>3, <1>4 DEF IInv

\* The rows and the clock stay, and h ends or goes on with what it has.
LEMMA GoOnKeeps ==
  ASSUME IInv, NEW h \in Handler, NEW s \in Steps, NEW r \in Request,
         UNCHANGED <<now, active, verified, token, denied, out>>,
         pc' = [pc EXCEPT ![h] = s], req' = [req EXCEPT ![h] = r],
         s # "idle" =>
           /\ Issued(r.token)
           /\ s \in {"user", "claims", "lookup", "insert"} /\ r.fresh => r.token \notin denied
           /\ s \in {"lookup", "insert"} /\ r.fresh => r.token \notin out
  PROVE  IInv'
  <1>1. /\ pc' \in [Handler -> Steps] /\ req' \in [Handler -> Request]
        /\ pc'[h] = s /\ req'[h] = r
        /\ \A g \in Handler \ {h} : pc'[g] = pc[g] /\ req'[g] = req[g]
    BY DEF IInv, TypeOK
  <1>2. pc'[h] = "idle" \/ RequestOK(h)'
    BY <1>1 DEF RequestOK, Issued
  <1>3. now \in Nat
    BY DEF IInv, TypeOK, Time
  <1>. QED BY <1>1, <1>2, <1>3, StepKeeps DEF IInv, TypeOK

LEMMA FinishKeeps ==
  ASSUME IInv, NEW h \in Handler, Finish(h),
         UNCHANGED <<now, active, verified, token, denied, out>>
  PROVE  IInv'
  BY NoRequestType, GoOnKeeps DEF Finish, Goto, Steps

-----------------------------------------------------------------------------
(* The steps.                                                              *)

LEMMA PresentKeeps ==
  ASSUME IInv, NEW h \in Handler, NEW t \in Token, NEW kind \in Kinds, Present(h, t, kind)
  PROVE  IInv'
  <1>1. [kind |-> kind, token |-> t, fresh |-> TRUE] \in Request
    BY DEF Request
  <1>. QED BY <1>1, GoOnKeeps DEF Present, Goto, Decodes, Steps

LEMMA AcceptKeeps ==
  ASSUME IInv, NEW h \in Handler, Accept(h)
  PROVE  IInv'
  <1>. DEFINE r == [req[h] EXCEPT !.fresh = TRUE]
  <1>1. req[h] \in Request /\ r \in Request
    BY DEF IInv, TypeOK, Request
  <1>2. r.token = req[h].token /\ req' = [req EXCEPT ![h] = r]
    BY <1>1 DEF Accept, Request
  <1>3. Issued(r.token) /\ r.token \notin denied
    BY <1>2 DEF Accept, IInv, RequestsOK, RequestOK
  <1>. HIDE DEF r
  <1>. QED BY <1>1, <1>2, <1>3, GoOnKeeps DEF Accept, Goto, Steps

\* A renewal issues one more token.
LEMMA LoadUserKeeps ==
  ASSUME IInv, NEW h \in Handler, LoadUser(h)
  PROVE  IInv'
  <1>. DEFINE t == req[h].token
              s == IF req[h].kind \in {"logout", "refresh"} THEN "claims" ELSE "answer"
  <1>1. /\ pc[h] = "user" /\ req[h] \in Request /\ t \in Token
        /\ Issued(t) /\ (req[h].fresh => t \notin denied)
    BY DEF LoadUser, IInv, TypeOK, Request, RequestsOK, RequestOK
  <1>2. token[t].sub \in Address
    BY <1>1 DEF IInv, TypeOK, Issued, TokenRow
  <1>3. /\ token' \in [Token -> TokenRow \cup {NoRow}]
        /\ \A u \in Token : Issued(u) => token'[u] = token[u] /\ Issued(u)'
    <2>1. CASE UNCHANGED token
      BY <2>1 DEF IInv, TypeOK, Issued
    <2>2. CASE \E u \in Token : Issue(u, token[t].sub)
      BY <1>2, <2>2, IssueKeepsTokens DEF IInv
    <2>. QED BY <2>1, <2>2 DEF LoadUser
  <1>4. /\ pc' = [pc EXCEPT ![h] = s] /\ req' = req /\ s \in {"claims", "answer"}
        /\ UNCHANGED <<now, active, verified, denied, out>>
    BY DEF LoadUser, Goto
  <1>5. pc' \in [Handler -> Steps] /\ pc'[h] = s
    BY <1>4 DEF IInv, TypeOK, Steps
  <1>6. RequestOK(h)'
    BY <1>1, <1>3, <1>4, <1>5 DEF RequestOK
  <1>7. \A g \in Handler \ {h} : pc'[g] = pc[g] /\ req'[g] = req[g]
    BY <1>4 DEF IInv, TypeOK
  <1>8. now \in Nat
    BY DEF IInv, TypeOK, Time
  <1>. QED BY <1>3, <1>4, <1>5, <1>6, <1>7, <1>8, StepKeeps DEF IInv, TypeOK

\* The token cannot have been purged, since it decodes.
LEMMA ReadClaimsKeeps ==
  ASSUME IInv, NEW h \in Handler, ReadClaims(h)
  PROVE  IInv'
  <1>1. /\ pc[h] = "claims" /\ req[h] \in Request
        /\ Issued(req[h].token) /\ (req[h].fresh => req[h].token \notin denied)
    BY DEF ReadClaims, IInv, TypeOK, RequestsOK, RequestOK
  <1>2. req[h].fresh => req[h].token \notin out
    BY <1>1 DEF ReadClaims, IInv, OutIsDenied
  <1>3. req' = [req EXCEPT ![h] = req[h]]
    BY DEF ReadClaims, IInv, TypeOK
  <1>. QED BY <1>1, <1>2, <1>3, GoOnKeeps DEF ReadClaims, Goto, Steps

LEMMA NotDeniedYetKeeps ==
  ASSUME IInv, NEW h \in Handler, NotDeniedYet(h)
  PROVE  IInv'
  <1>1. /\ pc[h] = "lookup" /\ req[h] \in Request
        /\ Issued(req[h].token)
        /\ req[h].fresh => req[h].token \notin denied /\ req[h].token \notin out
    BY DEF NotDeniedYet, IInv, TypeOK, RequestsOK, RequestOK
  <1>2. req' = [req EXCEPT ![h] = req[h]]
    BY DEF NotDeniedYet, IInv, TypeOK
  <1>. QED BY <1>1, <1>2, GoOnKeeps DEF NotDeniedYet, Goto, Steps

\* The answer: the row is there, and nobody else's reading of the denylist for
\* this token counts as fresh.
LEMMA ConcludeKeeps ==
  ASSUME IInv, NEW h \in Handler, pc[h] \in {"lookup", "insert"}, Conclude(h),
         denied' = denied \cup {req[h].token},
         UNCHANGED <<now, active, verified>>
  PROVE  IInv'
  <1>. DEFINE t == req[h].token
  <1>1. t \in Token /\ Issued(t) /\ token[t].sub \in Address
    <2>1. t \in Token /\ Issued(t)
      BY DEF IInv, TypeOK, Request, RequestsOK, RequestOK
    <2>. QED BY <2>1 DEF IInv, TypeOK, Issued, TokenRow
  <1>2. /\ token' \in [Token -> TokenRow \cup {NoRow}]
        /\ \A u \in Token : Issued(u) => token'[u] = token[u] /\ Issued(u)'
    <2>1. CASE UNCHANGED token
      BY <2>1 DEF IInv, TypeOK, Issued
    <2>2. CASE \E u \in Token : Issue(u, token[t].sub)
      BY <1>1, <2>2, IssueKeepsTokens DEF IInv
    <2>. QED BY <2>1, <2>2 DEF Conclude
  <1>3. /\ out' = out \cup {t}
        /\ pc' = [pc EXCEPT ![h] = "idle"]
        /\ req' = [g \in Handler |->
                     IF g = h THEN NoRequest ELSE [req[g] EXCEPT !.fresh = @ /\ req[g].token # t]]
    BY DEF Conclude
  <1>. HIDE DEF t
  <1>4. ASSUME NEW g \in Handler
        PROVE  /\ req'[g] \in Request
               /\ g # h => /\ pc'[g] = pc[g]
                           /\ req'[g].token = req[g].token
                           /\ req'[g].fresh => req[g].fresh /\ req[g].token # t
    <2>1. req[g] \in Request
      BY DEF IInv, TypeOK
    <2>2. [req[g] EXCEPT !.fresh = @ /\ req[g].token # t] \in Request
      BY <2>1 DEF Request
    <2>. QED BY <1>3, <2>1, <2>2, NoRequestType DEF IInv, TypeOK, Request
  <1>5. TypeOK'
    <2>1. pc' \in [Handler -> Steps]
      BY <1>3 DEF IInv, TypeOK, Steps
    <2>2. req' \in [Handler -> Request]
      BY <1>3, <1>4
    <2>3. /\ denied' \subseteq {u \in Token : Issued(u)'}
          /\ out' \subseteq {u \in Token : Issued(u)'}
      BY <1>1, <1>2, <1>3 DEF IInv, TypeOK, t
    <2>. QED BY <1>2, <2>1, <2>2, <2>3 DEF IInv, TypeOK
  <1>6. OutIsDenied'
    <2>. SUFFICES ASSUME NEW u \in out', u # t
                  PROVE  u \in denied' \/ ~ Decodes(u)'
      BY <1>3 DEF OutIsDenied, t
    <2>1. u \in Token /\ Issued(u) /\ (u \in denied \/ ~ Decodes(u))
      BY <1>3 DEF IInv, TypeOK, OutIsDenied
    <2>. QED BY <1>2, <2>1 DEF Decodes
  <1>7. RequestsOK'
    <2>. SUFFICES ASSUME NEW g \in Handler PROVE RequestOK(g)'
      BY DEF RequestsOK
    <2>1. CASE g = h
      BY <1>3, <2>1 DEF IInv, TypeOK, RequestOK
    <2>2. CASE g # h
      <3>1. req[g].token \in Token /\ RequestOK(g)
        BY DEF IInv, TypeOK, Request, RequestsOK
      <3>2. pc'[g] # "idle" => Issued(req[g].token)'
        BY <1>2, <1>4, <2>2, <3>1 DEF RequestOK, Issued
      <3>3. req'[g].fresh => req[g].fresh /\ req[g].token # t
        BY <1>4, <2>2
      <3>4. pc'[g] = pc[g] /\ req'[g].token = req[g].token
        BY <1>4, <2>2
      <3>. QED BY <1>3, <3>1, <3>2, <3>3, <3>4 DEF RequestOK, Issued, t
    <2>. QED BY <2>1, <2>2
  <1>. QED BY <1>5, <1>6, <1>7 DEF IInv

LEMMA DenyKeeps ==
  ASSUME IInv, NEW h \in Handler, Deny(h) \/ DeniedAlready(h)
  PROVE  IInv'
  BY ConcludeKeeps DEF Deny, DeniedAlready, Denial

LEMMA PurgeKeeps ==
  ASSUME IInv, Purge
  PROVE  IInv'
  <1>1. now \in Nat
    BY DEF IInv, TypeOK, Time
  <1>. QED BY <1>1, StepKeeps DEF Purge, Expired, IInv, TypeOK

LEMMA TickKeeps ==
  ASSUME IInv, Tick
  PROVE  IInv'
  BY AccountAssumption, StepKeeps DEF Tick, IInv, TypeOK, Time

\* The steps of accounts, and sign-in.
LEMMA AccountKeeps ==
  ASSUME IInv, NEW a \in Address,
         Verify(a) \/ SetActive(a) \/ \E t \in Token : SignIn(a, t)
  PROVE  IInv'
  <1>1. now \in Nat
    BY DEF IInv, TypeOK, Time
  <1>2. CASE Verify(a)
    BY <1>1, <1>2, StepKeeps DEF Verify, IInv, TypeOK
  <1>3. CASE SetActive(a)
    BY <1>1, <1>3, StepKeeps DEF SetActive, IInv, TypeOK
  <1>4. ASSUME NEW t \in Token, SignIn(a, t)
        PROVE  IInv'
    BY <1>1, <1>4, IssueKeepsTokens, StepKeeps DEF SignIn, IInv, TypeOK
  <1>. QED BY <1>2, <1>3, <1>4

-----------------------------------------------------------------------------
(* The theorems.                                                           *)

LEMMA NextIInv ==
  ASSUME IInv, [Next]_vars
  PROVE  IInv' /\ Exchanged
  <1>1. Exchanged
    BY DEF Exchanged, Deny, DeniedAlready, IInv, RequestsOK, RequestOK
  <1>2. ASSUME NEW h \in Handler, NEW t \in Token, NEW kind \in Kinds, Present(h, t, kind)
        PROVE  IInv'
    BY <1>2, PresentKeeps
  <1>3. ASSUME NEW h \in Handler,
               Unauthorized(h) \/ Answer(h) \/ SignedOutByExpiry(h) \/ DeniedMeanwhile(h) \/ Crash(h)
        PROVE  IInv'
    BY <1>3, FinishKeeps DEF Unauthorized, Answer, SignedOutByExpiry, DeniedMeanwhile, Crash
  <1>4. ASSUME NEW h \in Handler,
               Accept(h) \/ LoadUser(h) \/ ReadClaims(h) \/ NotDeniedYet(h)
                 \/ Deny(h) \/ DeniedAlready(h)
        PROVE  IInv'
    BY <1>4, AcceptKeeps, LoadUserKeeps, ReadClaimsKeeps, NotDeniedYetKeeps, DenyKeeps
  <1>5. ASSUME NEW a \in Address, Verify(a) \/ SetActive(a) \/ \E t \in Token : SignIn(a, t)
        PROVE  IInv'
    BY <1>5, AccountKeeps
  <1>6. CASE Purge
    BY <1>1, <1>6, PurgeKeeps
  <1>7. CASE Tick
    BY <1>1, <1>7, TickKeeps
  <1>8. CASE UNCHANGED vars
    <2>1. now \in Nat
      BY DEF IInv, TypeOK, Time
    <2>. QED BY <1>1, <1>8, <2>1, StepKeeps DEF vars, IInv, TypeOK
  <1>. QED BY <1>1, <1>2, <1>3, <1>4, <1>5, <1>6, <1>7, <1>8 DEF Next

\* The inductive invariant holds in every reachable state.
THEOREM Invariant == Spec => []IInv
  BY InitIInv, NextIInv, PTL DEF Spec

\* A token that has signed out is denied for as long as it decodes.
THEOREM OutStaysOut == Spec => []OutIsDenied
  BY Invariant, PTL DEF IInv

\* Of refreshes and logouts of one token that do not overlap, one is answered.
THEOREM OneExchange == Spec => ExchangedOnce
  BY Invariant, NextIInv, PTL DEF Spec, ExchangedOnce, Exchanged
=============================================================================
