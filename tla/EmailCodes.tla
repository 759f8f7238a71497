----------------------------- MODULE EmailCodes -----------------------------
(***************************************************************************)
(* Sign-up and the verification of the address by a mailed code: POST      *)
(* /auth/register, /auth/register-agent, /auth/resend-otp and              *)
(* /auth/verify-otp, with the purge of expired codes.  A guess loads the   *)
(* row of the code, judges it and writes the attempt counter it computed   *)
(* from the loaded one; nothing is locked in between.                      *)
(***************************************************************************)
EXTENDS AccountRules

VARIABLES
  now,
  joined,    \* addresses that have an account
  verified,  \* those with users.is_verified
  nin,       \* users.nin
  otp,       \* the rows of email_otps
  wrong,     \* history: wrong guesses answered since the code was issued
  raced,     \* history: codes whose row was written from an old reading
  pc,        \* the next statement of each handler
  req        \* what its session remembers

users == <<joined, verified, nin>>
codes == <<otp, wrong, raced>>
vars == <<now, users, codes, pc, req>>

Steps == {"idle", "insert", "read", "store", "judge", "count", "confirm"}

\* code is what the visitor typed, row the row of email_otps as loaded.  fresh
\* is a history variable: the row has not been written since.
Request ==
  [address : Address, nin : Nin \cup {Unset}, code : Code,
   row : CodeRow \cup {NoRow}, fresh : BOOLEAN]

NoRequest ==
  [address |-> CHOOSE a \in Address : TRUE, nin |-> Unset, code |-> CHOOSE c \in Code : TRUE,
   row |-> NoRow, fresh |-> TRUE]

Init ==
  /\ now = 0
  /\ joined = {}
  /\ verified = {}
  /\ nin = [a \in Address |-> Unset]
  /\ otp = [a \in Address |-> NoRow]
  /\ wrong = [a \in Address |-> 0]
  /\ raced = {}
  /\ pc = [h \in Handler |-> "idle"]
  /\ req = [h \in Handler |-> NoRequest]

-----------------------------------------------------------------------------

Begin(h, step, r) ==
  /\ pc[h] = "idle"
  /\ pc' = [pc EXCEPT ![h] = step]
  /\ req' = [req EXCEPT ![h] = r]

Finish(h) ==
  /\ pc' = [pc EXCEPT ![h] = "idle"]
  /\ req' = [req EXCEPT ![h] = NoRequest]

\* h commits a write of the code of a: what others have read of it is old.
FinishOverReaders(h, a) ==
  /\ pc' = [pc EXCEPT ![h] = "idle"]
  /\ req' = [g \in Handler |->
               IF g = h THEN NoRequest
               ELSE [req[g] EXCEPT !.fresh = @ /\ req[g].address # a]]

\* db.get(EmailOtp, user.id).
ReadRow(h, step) ==
  /\ pc' = [pc EXCEPT ![h] = step]
  /\ req' = [req EXCEPT ![h].row = otp[req[h].address], ![h].fresh = TRUE]

-----------------------------------------------------------------------------
(* POST /auth/register and /auth/register-agent.                           *)

\* The address, and for an agent the number that the provider has confirmed,
\* are not taken when they are looked up.
ReadForRegister(h, a, n) ==
  /\ a \notin joined
  /\ n # Unset => \A b \in joined : nin[b] # n
  /\ Begin(h, "insert", [NoRequest EXCEPT !.address = a, !.nin = n])
  /\ UNCHANGED <<now, users, codes>>

\* INSERT the account and its first code, commit.
Register(h, c) ==
  LET a == req[h].address IN
  /\ pc[h] = "insert"
  /\ a \notin joined
  /\ req[h].nin # Unset => \A b \in joined : nin[b] # req[h].nin
  /\ joined' = joined \cup {a}
  /\ nin' = [nin EXCEPT ![a] = req[h].nin]
  /\ otp' = [otp EXCEPT ![a] = [code |-> c, expires |-> now + Ttl, attempts |-> 0]]
  /\ FinishOverReaders(h, a)
  /\ UNCHANGED <<now, verified, wrong, raced>>

\* users.email and users.nin are unique.
TakenMeanwhile(h) ==
  /\ pc[h] = "insert"
  /\ \/ req[h].address \in joined
     \/ req[h].nin # Unset /\ \E b \in joined : nin[b] = req[h].nin
  /\ Finish(h)
  /\ UNCHANGED <<now, users, codes>>

-----------------------------------------------------------------------------
(* POST /auth/resend-otp.                                                  *)

ReadForResend(h, a) ==
  /\ a \in joined \ verified
  /\ Begin(h, "read", [NoRequest EXCEPT !.address = a])
  /\ UNCHANGED <<now, users, codes>>

ReadOldCode(h) ==
  /\ pc[h] = "read"
  /\ ReadRow(h, "store")
  /\ UNCHANGED <<now, users, codes>>

\* Mutant: the guesses at the old code are held against the new one.
KeepAttempts(row, old, c) == [row EXCEPT !.code = c, !.expires = now + Ttl]

\* The assignments to a loaded row write the columns that differ from what was
\* loaded: attempts = 0 is written only over a counter that was not 0.
Reissued(row, old, c) ==
  [row EXCEPT !.code = IF c # old.code THEN c ELSE @,
              !.expires = now + Ttl,
              !.attempts = IF old.attempts # 0 THEN 0 ELSE @]

\* issue_otp: INSERT, or UPDATE of the loaded row; commit.
IssueOtp(h, c) ==
  LET a == req[h].address
      old == req[h].row
  IN
  /\ pc[h] = "store"
  /\ (old = NoRow) = (otp[a] = NoRow)
  /\ otp' = [otp EXCEPT ![a] = IF old = NoRow
               THEN [code |-> c, expires |-> now + Ttl, attempts |-> 0]
               ELSE Reissued(otp[a], old, c)]
  /\ wrong' = [wrong EXCEPT ![a] = 0]
  /\ raced' = IF req[h].fresh THEN raced \ {a} ELSE raced \cup {a}
  /\ FinishOverReaders(h, a)
  /\ UNCHANGED <<now, users>>

-----------------------------------------------------------------------------
(* POST /auth/verify-otp.  An account that is verified already is answered *)
(* without a look at the code.                                             *)

ReadForVerify(h, a, c) ==
  /\ a \in joined \ verified
  /\ Begin(h, "judge", [NoRequest EXCEPT !.address = a, !.code = c])
  /\ UNCHANGED <<now, users, codes>>

\* Mutant: the last attempt is not refused.
OneMore(row) == row # NoRow /\ row.attempts <= MaxAttempts /\ row.expires >= now

\* There is a code, not locked and not expired.
InForce(row) == row # NoRow /\ row.attempts < MaxAttempts /\ row.expires >= now

Judge(h) ==
  LET row == otp[req[h].address] IN
  /\ pc[h] = "judge"
  /\ InForce(row)
  /\ ReadRow(h, IF row.code = req[h].code THEN "confirm" ELSE "count")
  /\ UNCHANGED <<now, users, codes>>

Refuse(h) ==
  /\ pc[h] = "judge"
  /\ ~ InForce(otp[req[h].address])
  /\ Finish(h)
  /\ UNCHANGED <<now, users, codes>>

\* row.attempts += 1, commit, and then the refusal.
CountGuess(h) ==
  LET a == req[h].address IN
  /\ pc[h] = "count"
  /\ otp[a] # NoRow
  /\ otp' = [otp EXCEPT ![a].attempts = req[h].row.attempts + 1]
  /\ wrong' = [wrong EXCEPT ![a] = @ + 1]
  /\ raced' = IF req[h].fresh THEN raced ELSE raced \cup {a}
  /\ FinishOverReaders(h, a)
  /\ UNCHANGED <<now, users>>

\* Mutant: the code stays.
KeepRow(a) == otp

\* db.delete(row); no row to delete is only a warning.
Used(a) == [otp EXCEPT ![a] = NoRow]

\* UPDATE users, DELETE the code, record_login, commit: the visitor is signed in.
Confirm(h) ==
  LET a == req[h].address IN
  /\ pc[h] = "confirm"
  /\ verified' = verified \cup {a}
  /\ otp' = Used(a)
  /\ wrong' = [wrong EXCEPT ![a] = 0]
  /\ raced' = raced \ {a}
  /\ FinishOverReaders(h, a)
  /\ UNCHANGED <<now, joined, nin>>

-----------------------------------------------------------------------------

\* The UPDATE of a code that is gone, or the INSERT of one that exists, fails.
RowChanged(h) ==
  LET a == req[h].address IN
  /\ \/ pc[h] = "count" /\ otp[a] = NoRow
     \/ pc[h] = "store" /\ (req[h].row = NoRow) # (otp[a] = NoRow)
  /\ Finish(h)
  /\ UNCHANGED <<now, users, codes>>

Crash(h) ==
  /\ pc[h] # "idle"
  /\ Finish(h)
  /\ UNCHANGED <<now, users, codes>>

\* purge_expired.
Purge ==
  LET gone == {a \in Address : otp[a] # NoRow /\ otp[a].expires < now} IN
  /\ otp' = [a \in Address |-> IF a \in gone THEN NoRow ELSE otp[a]]
  /\ wrong' = [a \in Address |-> IF a \in gone THEN 0 ELSE wrong[a]]
  /\ raced' = raced \ gone
  /\ req' = [g \in Handler |-> [req[g] EXCEPT !.fresh = @ /\ req[g].address \notin gone]]
  /\ UNCHANGED <<now, users, pc>>

Tick ==
  /\ now < MaxTime
  /\ now' = now + 1
  /\ UNCHANGED <<users, codes, pc, req>>

Next ==
  \/ \E h \in Handler :
       \/ \E a \in Address, n \in Nin \cup {Unset} : ReadForRegister(h, a, n)
       \/ \E a \in Address : ReadForResend(h, a)
       \/ \E a \in Address, c \in Code : ReadForVerify(h, a, c)
       \/ \E c \in Code : Register(h, c) \/ IssueOtp(h, c)
       \/ TakenMeanwhile(h) \/ ReadOldCode(h)
       \/ Judge(h) \/ Refuse(h) \/ CountGuess(h) \/ Confirm(h)
       \/ RowChanged(h) \/ Crash(h)
  \/ Purge \/ Tick

Spec == Init /\ [][Next]_vars
-----------------------------------------------------------------------------
TypeOK ==
  /\ now \in Time
  /\ joined \subseteq Address
  /\ verified \subseteq joined
  /\ nin \in [Address -> Nin \cup {Unset}]
  /\ otp \in [Address -> CodeRow \cup {NoRow}]
  /\ wrong \in [Address -> Nat]
  /\ raced \subseteq Address
  /\ pc \in [Handler -> Steps]
  /\ req \in [Handler -> Request]

\* The limit on guesses works: the counter of a code says how many wrong
\* guesses were answered since it was issued, and never more than
\* OTP_MAX_ATTEMPTS, through resends, purges and new codes; unless a request has
\* written the row from an old reading.
GuessesCounted ==
  \A a \in Address :
    otp[a] # NoRow =>
      /\ otp[a].attempts <= MaxAttempts
      /\ a \in raced \/ otp[a].attempts = wrong[a]

\* An address is verified by the code that is in force, while it takes guesses
\* ("reissuing overwrites it"), unless the row was written after the guess was
\* judged.  The code is gone with it.
VerifiedByItsCode ==
  [][\A h \in Handler :
       LET a == req[h].address IN
       /\ Confirm(h) /\ req[h].fresh =>
            otp[a] # NoRow /\ otp[a].code = req[h].code /\ otp[a].attempts < MaxAttempts
       /\ Confirm(h) => otp'[a] = NoRow]_vars
=============================================================================
