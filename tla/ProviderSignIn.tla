--------------------------- MODULE ProviderSignIn ---------------------------
(***************************************************************************)
(* Signing in through Google or Apple: the start of a flow stores a state, *)
(* the callback consumes and commits it, asks the provider who it is, and  *)
(* finds or creates the account (upsert_oauth_user).  The lookups take no  *)
(* locks; users.email and oauth_accounts (provider, account) are unique.   *)
(***************************************************************************)
EXTENDS AccountRules

VARIABLES
  now,
  flow,     \* the rows of oauth_states
  account,  \* per address: no account, one that is not verified, or one that is
  linked,   \* the rows of oauth_accounts
  tokens,   \* history: the tokens that callbacks have issued
  entries,  \* history: how often a flow has led to a token
  raced,    \* history: flows that two callbacks consumed
  pc,
  req

stored == <<flow, account, linked>>
issued == <<tokens, entries>>
vars == <<now, stored, issued, raced, pc, req>>

\* A state is random and never comes again; its row is there while it is "open".
States == {"new", "open", "consumed", "purged"}

Steps == {"idle", "consume", "provider", "email", "create", "link", "enter"}

\* email is what the provider has returned, sub the account that was found.
Request ==
  [flow : Flow, identity : Identity \cup {Unset}, email : Address \cup {Unset},
   sub : Address \cup {Unset}]

NoRequest ==
  [flow |-> CHOOSE f \in Flow : TRUE, identity |-> Unset, email |-> Unset, sub |-> Unset]

Init ==
  /\ now = 0
  /\ flow = [f \in Flow |-> [state |-> "new", expires |-> 0]]
  /\ account = [a \in Address |-> "NONE"]
  /\ linked = [i \in Identity |-> Unset]
  /\ tokens = {}
  /\ entries = [f \in Flow |-> 0]
  /\ raced = {}
  /\ pc = [h \in Handler |-> "idle"]
  /\ req = [h \in Handler |-> NoRequest]

-----------------------------------------------------------------------------

Goto(h, step) == pc' = [pc EXCEPT ![h] = step]

Finish(h) ==
  /\ Goto(h, "idle")
  /\ req' = [req EXCEPT ![h] = NoRequest]

\* GET /auth/google and /auth/apple: create_state, commit.
Start(f) ==
  /\ flow[f].state = "new"
  /\ flow' = [flow EXCEPT ![f] = [state |-> "open", expires |-> now + Ttl]]
  /\ UNCHANGED <<now, account, linked, issued, raced, pc, req>>

\* The callback: consume_state loads the row.
ReadState(h, f) ==
  /\ pc[h] = "idle"
  /\ flow[f].state = "open"
  /\ Goto(h, "consume")
  /\ req' = [req EXCEPT ![h] = [NoRequest EXCEPT !.flow = f]]
  /\ UNCHANGED <<now, stored, issued, raced>>

\* Mutant: the state is not deleted.
StateStays(f) == flow

StateDeleted(f) ==
  [flow EXCEPT ![f].state = IF flow[f].state = "open" THEN "consumed" ELSE @]

\* DELETE and commit; a row that is gone already is only a warning.
Consume(h) ==
  LET f == req[h].flow IN
  /\ pc[h] = "consume"
  /\ flow[f].expires >= now
  /\ flow' = StateDeleted(f)
  /\ raced' = IF flow[f].state = "open" THEN raced ELSE raced \cup {f}
  /\ Goto(h, "provider")
  /\ UNCHANGED <<now, account, linked, issued, req>>

\* The DELETE of a state that has expired is rolled back; the purge takes it.
StateExpired(h) ==
  /\ pc[h] = "consume"
  /\ flow[req[h].flow].expires < now
  /\ Finish(h)
  /\ UNCHANGED <<now, stored, issued, raced>>

\* google_fetch_profile, apple_fetch_profile; then upsert_oauth_user looks for
\* the identity.
FetchProfile(h, i, e) ==
  /\ pc[h] = "provider"
  /\ Goto(h, IF linked[i] # Unset THEN "enter" ELSE "email")
  /\ req' = [req EXCEPT ![h].identity = i, ![h].email = e, ![h].sub = linked[i]]
  /\ UNCHANGED <<now, stored, issued, raced>>

\* The visitor has declined, or the provider does not answer as expected; an
\* unknown identity comes without an address; or the server dies.
GiveUp(h) ==
  /\ pc[h] # "idle"
  /\ Finish(h)
  /\ UNCHANGED <<now, stored, issued, raced>>

\* Then by address, if there is one.
FindByEmail(h) ==
  LET a == req[h].email IN
  /\ pc[h] = "email"
  /\ a # Unset
  /\ Goto(h, IF account[a] = "NONE" THEN "create" ELSE "link")
  /\ req' = [req EXCEPT ![h].sub = a]
  /\ UNCHANGED <<now, stored, issued, raced>>

\* record_login, commit and the redirect with a token.
SignIn(h) ==
  LET f == req[h].flow IN
  /\ tokens' = tokens \cup {[identity |-> req[h].identity, sub |-> req[h].sub]}
  /\ entries' = [entries EXCEPT ![f] = @ + 1]
  /\ Finish(h)
  /\ UNCHANGED <<now, flow, raced>>

\* Mutant: the pair of provider and account id is not unique.
Unlinked(i) == TRUE

\* UniqueConstraint("provider", "provider_account_id").
MayLink(i) == linked[i] = Unset

\* INSERT the link, and before it a verified account if none was found.
Connect(h) ==
  LET a == req[h].sub IN
  /\ \/ pc[h] = "link" /\ UNCHANGED account
     \/ /\ pc[h] = "create"
        /\ account[a] = "NONE"
        /\ account' = [account EXCEPT ![a] = "verified"]
  /\ MayLink(req[h].identity)
  /\ linked' = [linked EXCEPT ![req[h].identity] = a]
  /\ SignIn(h)

Enter(h) ==
  /\ pc[h] = "enter"
  /\ SignIn(h)
  /\ UNCHANGED <<account, linked>>

\* A unique key is taken: the callback fails and has to be started again.
TakenMeanwhile(h) ==
  /\ \/ pc[h] = "create" /\ account[req[h].sub] # "NONE"
     \/ pc[h] \in {"create", "link"} /\ ~ MayLink(req[h].identity)
  /\ Finish(h)
  /\ UNCHANGED <<now, stored, issued, raced>>

\* POST /auth/register and /auth/verify-otp.
Register(a) ==
  /\ account[a] = "NONE"
  /\ account' = [account EXCEPT ![a] = "unverified"]
  /\ UNCHANGED <<now, flow, linked, issued, raced, pc, req>>

VerifyOtp(a) ==
  /\ account[a] = "unverified"
  /\ account' = [account EXCEPT ![a] = "verified"]
  /\ UNCHANGED <<now, flow, linked, issued, raced, pc, req>>

Purge ==
  /\ flow' = [f \in Flow |-> IF flow[f].state = "open" /\ flow[f].expires < now
                               THEN [flow[f] EXCEPT !.state = "purged"] ELSE flow[f]]
  /\ UNCHANGED <<now, account, linked, issued, raced, pc, req>>

Tick ==
  /\ now < MaxTime
  /\ now' = now + 1
  /\ UNCHANGED <<stored, issued, raced, pc, req>>

Next ==
  \/ \E f \in Flow : Start(f)
  \/ \E h \in Handler :
       \/ \E f \in Flow : ReadState(h, f)
       \/ \E i \in Identity, e \in Address \cup {Unset} : FetchProfile(h, i, e)
       \/ Consume(h) \/ StateExpired(h) \/ GiveUp(h)
       \/ FindByEmail(h) \/ Connect(h) \/ Enter(h) \/ TakenMeanwhile(h)
  \/ \E a \in Address : Register(a) \/ VerifyOtp(a)
  \/ Purge \/ Tick

Spec == Init /\ [][Next]_vars
-----------------------------------------------------------------------------
TypeOK ==
  /\ now \in Time
  /\ flow \in [Flow -> [state : States, expires : Nat]]
  /\ account \in [Address -> {"NONE", "unverified", "verified"}]
  /\ linked \in [Identity -> Address \cup {Unset}]
  /\ tokens \subseteq [identity : Identity, sub : Address]
  /\ entries \in [Flow -> Nat]
  /\ raced \subseteq Flow
  /\ pc \in [Handler -> Steps]
  /\ req \in [Handler -> Request]

\* A flow leads to one token, unless two callbacks with its state overlap.
\* Whoever signs in gets the account that the identity got before, whatever
\* address the provider returns and however many callbacks run at once.
SameAccountAgain ==
  /\ \A f \in Flow \ raced : entries[f] <= 1
  /\ \A s, t \in tokens : s.identity = t.identity => s.sub = t.sub

\* "no normal path issues a token before verify-otp" (app/api/deps.py:62).
TokenAfterVerify == \A t \in tokens : account[t.sub] = "verified"
=============================================================================
