-------------------------- MODULE EmailCodesProofs --------------------------
(***************************************************************************)
(* The limit on guesses at a mailed code, for any number of addresses and  *)
(* of overlapping requests.                                                *)
(***************************************************************************)
EXTENDS EmailCodes, TLAPS

-----------------------------------------------------------------------------
(* The inductive invariant.                                                *)

\* Codes are for accounts, and nothing is counted without a code.
RowsOK ==
  \A a \in Address :
    /\ a \notin joined => otp[a] = NoRow
    /\ otp[a] = NoRow => wrong[a] = 0

\* A guess was judged by a row that took it; and while nobody has written the
\* row since, it is the one that was loaded.
RequestOK(h) ==
  /\ pc[h] \notin {"idle", "insert"} => req[h].address \in joined
  /\ pc[h] \in {"count", "confirm"} =>
       req[h].row # NoRow /\ req[h].row.attempts < MaxAttempts
  /\ pc[h] = "confirm" => req[h].row.code = req[h].code
  /\ pc[h] \in {"store", "count", "confirm"} /\ req[h].fresh =>
       req[h].row = otp[req[h].address]

RequestsOK == \A h \in Handler : RequestOK(h)

IInv == TypeOK /\ GuessesCounted /\ RowsOK /\ RequestsOK

\* VerifiedByItsCode, of one step.
Verified ==
  \A h \in Handler :
    LET a == req[h].address IN
    /\ Confirm(h) /\ req[h].fresh =>
         otp[a] # NoRow /\ otp[a].code = req[h].code /\ otp[a].attempts < MaxAttempts
    /\ Confirm(h) => otp'[a] = NoRow

-----------------------------------------------------------------------------

\* An idle handler's request is one.
LEMMA NoRequestType == NoRequest \in Request
  BY AccountAssumption DEF NoRequest, Request

\* NoRow is no code.
LEMMA NoCode == NoRow \notin CodeRow
  BY NoAccountRow

\* At the start there is no account.
LEMMA InitIInv == Init => IInv
  <1>. SUFFICES ASSUME Init PROVE IInv
    OBVIOUS
  <1>1. TypeOK
    BY NoRequestType, AccountAssumption DEF Init, TypeOK, Time, Steps
  <1>2. GuessesCounted /\ RowsOK /\ RequestsOK
    BY DEF Init, GuessesCounted, RowsOK, RequestsOK, RequestOK
  <1>. QED BY <1>1, <1>2 DEF IInv

\* The rows stay, and h goes on with request r at step s.
LEMMA GoOnKeeps ==
  ASSUME IInv, NEW h \in Handler, NEW s \in Steps, NEW r \in Request,
         UNCHANGED <<now, users, codes>>,
         pc' = [pc EXCEPT ![h] = s], req' = [req EXCEPT ![h] = r],
         s \notin {"idle", "insert"} => r.address \in joined,
         s \in {"count", "confirm"} => r.row # NoRow /\ r.row.attempts < MaxAttempts,
         s = "confirm" => r.row.code = r.code,
         s \in {"store", "count", "confirm"} => r.row = otp[r.address]
  PROVE  IInv'
  <1>1. /\ now' = now /\ joined' = joined /\ verified' = verified /\ nin' = nin
        /\ otp' = otp /\ wrong' = wrong /\ raced' = raced
    BY DEF users, codes
  <1>2. /\ pc' \in [Handler -> Steps] /\ req' \in [Handler -> Request]
        /\ pc'[h] = s /\ req'[h] = r
        /\ \A g \in Handler \ {h} : pc'[g] = pc[g] /\ req'[g] = req[g]
    BY DEF IInv, TypeOK
  <1>3. TypeOK' /\ GuessesCounted' /\ RowsOK'
    BY <1>1, <1>2 DEF IInv, TypeOK, GuessesCounted, RowsOK
  <1>4. RequestsOK'
    <2>. SUFFICES ASSUME NEW g \in Handler PROVE RequestOK(g)'
      BY DEF RequestsOK
    <2>1. CASE g = h
      BY <1>1, <1>2, <2>1 DEF RequestOK
    <2>2. CASE g # h
      BY <1>1, <1>2, <2>2 DEF IInv, RequestsOK, RequestOK
    <2>. QED BY <2>1, <2>2
  <1>. QED BY <1>3, <1>4 DEF IInv

\* A request that ends without a commit.
LEMMA FinishKeeps ==
  ASSUME IInv, NEW h \in Handler, Finish(h), UNCHANGED <<now, users, codes>>
  PROVE  IInv'
  BY NoRequestType, GoOnKeeps DEF Finish, Steps

\* The row of one address is written: nobody's reading of it counts as fresh.
LEMMA WriteKeeps ==
  ASSUME IInv, NEW h \in Handler, NEW a \in Address, FinishOverReaders(h, a),
         now' = now,
         joined' \subseteq Address, joined \subseteq joined',
         verified' \subseteq joined',
         nin' \in [Address -> Nin \cup {Unset}],
         NEW row \in CodeRow \cup {NoRow}, otp' = [otp EXCEPT ![a] = row],
         NEW n \in Nat, wrong' = [wrong EXCEPT ![a] = n],
         raced' \subseteq Address,
         \A b \in Address \ {a} : b \in raced => b \in raced',
         row = NoRow => n = 0,
         row # NoRow =>
           /\ a \in joined'
           /\ row.attempts <= MaxAttempts
           /\ a \in raced' \/ row.attempts = n
  PROVE  IInv'
  <1>1. /\ pc' = [pc EXCEPT ![h] = "idle"]
        /\ req' = [g \in Handler |->
                     IF g = h THEN NoRequest
                     ELSE [req[g] EXCEPT !.fresh = @ /\ req[g].address # a]]
    BY DEF FinishOverReaders
  <1>2. /\ otp' \in [Address -> CodeRow \cup {NoRow}] /\ wrong' \in [Address -> Nat]
        /\ otp'[a] = row /\ wrong'[a] = n
        /\ \A b \in Address \ {a} : otp'[b] = otp[b] /\ wrong'[b] = wrong[b]
    BY DEF IInv, TypeOK
  <1>3. ASSUME NEW g \in Handler
        PROVE  /\ req'[g] \in Request
               /\ g # h => /\ pc'[g] = pc[g]
                           /\ req'[g].address = req[g].address
                           /\ req'[g].code = req[g].code
                           /\ req'[g].row = req[g].row
                           /\ req'[g].fresh => req[g].fresh /\ req[g].address # a
    <2>1. req[g] \in Request
      BY DEF IInv, TypeOK
    <2>2. [req[g] EXCEPT !.fresh = @ /\ req[g].address # a] \in Request
      BY <2>1 DEF Request
    <2>. QED BY <1>1, <2>1, <2>2, NoRequestType DEF IInv, TypeOK, Request
  <1>4. TypeOK'
    <2>1. pc' \in [Handler -> Steps]
      BY <1>1 DEF IInv, TypeOK, Steps
    <2>2. req' \in [Handler -> Request]
      BY <1>1, <1>3
    <2>. QED BY <1>2, <2>1, <2>2 DEF IInv, TypeOK
  <1>5. GuessesCounted'
    <2>. SUFFICES ASSUME NEW b \in Address, otp'[b] # NoRow
                  PROVE  /\ otp'[b].attempts <= MaxAttempts
                         /\ b \in raced' \/ otp'[b].attempts = wrong'[b]
      BY DEF GuessesCounted
    <2>1. CASE b = a
      BY <1>2, <2>1
    <2>2. CASE b # a
      BY <1>2, <2>2 DEF IInv, GuessesCounted
    <2>. QED BY <2>1, <2>2
  <1>6. RowsOK'
    BY <1>2 DEF IInv, RowsOK
  <1>7. RequestsOK'
    <2>. SUFFICES ASSUME NEW g \in Handler PROVE RequestOK(g)'
      BY DEF RequestsOK
    <2>1. CASE g = h
      BY <1>1, <2>1 DEF IInv, TypeOK, RequestOK
    <2>2. CASE g # h
      <3>1. req[g].address \in Address /\ RequestOK(g)
        BY DEF IInv, TypeOK, Request, RequestsOK
      <3>2. /\ pc'[g] = pc[g] /\ req'[g].address = req[g].address
            /\ req'[g].code = req[g].code /\ req'[g].row = req[g].row
            /\ req'[g].fresh => req[g].fresh /\ otp'[req[g].address] = otp[req[g].address]
        BY <1>2, <1>3, <2>2, <3>1
      <3>. QED BY <3>1, <3>2 DEF RequestOK
    <2>. QED BY <2>1, <2>2
  <1>. QED BY <1>4, <1>5, <1>6, <1>7 DEF IInv

-----------------------------------------------------------------------------
(* The steps.                                                              *)

\* The handlers that begin.
LEMMA BeginKeeps ==
  ASSUME IInv, NEW h \in Handler, NEW a \in Address, NEW c \in Code, NEW n \in Nin \cup {Unset},
         ReadForRegister(h, a, n) \/ ReadForResend(h, a) \/ ReadForVerify(h, a, c)
  PROVE  IInv'
  <1>1. /\ [NoRequest EXCEPT !.address = a, !.nin = n] \in Request
        /\ [NoRequest EXCEPT !.address = a] \in Request
        /\ [NoRequest EXCEPT !.address = a, !.code = c] \in Request
    BY NoRequestType DEF Request
  <1>2. /\ [NoRequest EXCEPT !.address = a].address = a
        /\ [NoRequest EXCEPT !.address = a, !.code = c].address = a
    BY DEF NoRequest
  <1>3. CASE ReadForRegister(h, a, n)
    BY <1>1, <1>3, GoOnKeeps DEF ReadForRegister, Begin, Steps
  <1>4. CASE ReadForResend(h, a)
    BY <1>1, <1>2, <1>4, GoOnKeeps DEF ReadForResend, Begin, Steps
  <1>5. CASE ReadForVerify(h, a, c)
    BY <1>1, <1>2, <1>5, GoOnKeeps DEF ReadForVerify, Begin, Steps
  <1>. QED BY <1>3, <1>4, <1>5

LEMMA RegisterKeeps ==
  ASSUME IInv, NEW h \in Handler, NEW c \in Code, Register(h, c)
  PROVE  IInv'
  <1>. DEFINE a == req[h].address
              row == [code |-> c, expires |-> now + Ttl, attempts |-> 0]
  <1>1. req[h] \in Request /\ a \in Address /\ req[h].nin \in Nin \cup {Unset}
    BY DEF IInv, TypeOK, Request
  <1>2. row \in CodeRow /\ row # NoRow /\ row.attempts = 0
    BY AccountAssumption, NoCode DEF IInv, TypeOK, Time, CodeRow
  <1>3. wrong[a] = 0 /\ wrong' = [wrong EXCEPT ![a] = 0]
    BY <1>1 DEF Register, IInv, TypeOK, RowsOK
  <1>4. /\ joined' = joined \cup {a} /\ otp' = [otp EXCEPT ![a] = row]
        /\ nin' = [nin EXCEPT ![a] = req[h].nin] /\ verified' = verified
        /\ raced' = raced /\ now' = now /\ FinishOverReaders(h, a)
    BY DEF Register
  <1>5. /\ joined' \subseteq Address /\ joined \subseteq joined' /\ verified' \subseteq joined'
        /\ nin' \in [Address -> Nin \cup {Unset}] /\ raced' \subseteq Address
        /\ a \in joined'
    BY <1>1, <1>4 DEF IInv, TypeOK
  <1>6. row.attempts <= MaxAttempts /\ 0 \in Nat
    BY <1>2, AccountAssumption
  <1>7. \A b \in Address \ {a} : b \in raced => b \in raced'
    BY <1>4
  <1>. HIDE DEF a, row
  <1>. QED BY <1>1, <1>2, <1>3, <1>4, <1>5, <1>6, <1>7, WriteKeeps

LEMMA ReadOldCodeKeeps ==
  ASSUME IInv, NEW h \in Handler, ReadOldCode(h)
  PROVE  IInv'
  <1>. DEFINE r == [req[h] EXCEPT !.row = otp[req[h].address], !.fresh = TRUE]
  <1>1. req[h] \in Request /\ req[h].address \in joined /\ pc[h] = "read"
    BY DEF ReadOldCode, IInv, TypeOK, RequestsOK, RequestOK
  <1>2. /\ r \in Request /\ r.row = otp[r.address] /\ r.address \in joined
    BY <1>1 DEF IInv, TypeOK, Request
  <1>3. /\ pc' = [pc EXCEPT ![h] = "store"] /\ req' = [req EXCEPT ![h] = r]
        /\ UNCHANGED <<now, users, codes>>
    BY <1>1 DEF ReadOldCode, ReadRow, IInv, TypeOK, Request
  <1>. HIDE DEF r
  <1>. QED BY <1>2, <1>3, GoOnKeeps DEF Steps

\* A guess is judged by the row that is loaded.
LEMMA JudgeKeeps ==
  ASSUME IInv, NEW h \in Handler, Judge(h)
  PROVE  IInv'
  <1>. DEFINE row == otp[req[h].address]
              s == IF row.code = req[h].code THEN "confirm" ELSE "count"
              r == [req[h] EXCEPT !.row = row, !.fresh = TRUE]
  <1>1. req[h] \in Request /\ req[h].address \in joined /\ pc[h] = "judge"
    BY DEF Judge, IInv, TypeOK, RequestsOK, RequestOK
  <1>2. row # NoRow /\ row.attempts < MaxAttempts
    BY DEF Judge, InForce
  <1>3. /\ r \in Request /\ r.row = otp[r.address] /\ r.address \in joined
        /\ r.row = row /\ r.code = req[h].code
    BY <1>1 DEF IInv, TypeOK, Request
  <1>4. /\ pc' = [pc EXCEPT ![h] = s] /\ req' = [req EXCEPT ![h] = r]
        /\ UNCHANGED <<now, users, codes>>
    BY <1>1 DEF Judge, ReadRow, IInv, TypeOK, Request
  <1>5. s \in Steps /\ s \in {"count", "confirm"} /\ (s = "confirm" => row.code = req[h].code)
    BY DEF Steps
  <1>. HIDE DEF r, s, row
  <1>. QED BY <1>2, <1>3, <1>4, <1>5, GoOnKeeps

LEMMA IssueOtpKeeps ==
  ASSUME IInv, NEW h \in Handler, NEW c \in Code, IssueOtp(h, c)
  PROVE  IInv'
  <1>. DEFINE a == req[h].address
              old == req[h].row
              row == IF old = NoRow THEN [code |-> c, expires |-> now + Ttl, attempts |-> 0]
                                    ELSE Reissued(otp[a], old, c)
  <1>1. /\ req[h] \in Request /\ a \in joined /\ a \in Address
        /\ (req[h].fresh => old = otp[a]) /\ (old = NoRow) = (otp[a] = NoRow)
    BY DEF IssueOtp, IInv, TypeOK, RequestsOK, RequestOK
  <1>2. now + Ttl \in Nat
    BY AccountAssumption DEF IInv, TypeOK, Time
  <1>3. /\ row \in CodeRow /\ row.attempts <= MaxAttempts
        /\ req[h].fresh => row.attempts = 0
    <2>1. CASE old = NoRow
      BY <1>2, <2>1, AccountAssumption DEF CodeRow
    <2>2. CASE old # NoRow
      <3>1. otp[a] \in CodeRow /\ old \in CodeRow /\ otp[a].attempts <= MaxAttempts
        BY <1>1, <2>2 DEF IInv, TypeOK, Request, GuessesCounted
      <3>2. row = Reissued(otp[a], old, c)
        BY <2>2
      <3>. DEFINE cell == IF c # old.code THEN c ELSE otp[a].code
                  count == IF old.attempts # 0 THEN 0 ELSE otp[a].attempts
      <3>3. cell \in Code /\ count \in Nat /\ count <= MaxAttempts
        BY <3>1, AccountAssumption DEF CodeRow
      <3>4. row = [code |-> cell, expires |-> now + Ttl, attempts |-> count]
        BY <3>1, <3>2 DEF Reissued, CodeRow
      <3>5. req[h].fresh => count = 0
        BY <1>1, <3>1
      <3>. HIDE DEF row, cell, count
      <3>. QED BY <1>2, <3>3, <3>4, <3>5 DEF CodeRow
    <2>. QED BY <2>1, <2>2
  <1>4. /\ otp' = [otp EXCEPT ![a] = row] /\ wrong' = [wrong EXCEPT ![a] = 0]
        /\ raced' = (IF req[h].fresh THEN raced \ {a} ELSE raced \cup {a})
        /\ FinishOverReaders(h, a)
        /\ now' = now /\ joined' = joined /\ verified' = verified /\ nin' = nin
    BY DEF IssueOtp, users
  <1>5. row # NoRow
    BY <1>3, NoCode
  <1>6. /\ raced' \subseteq Address /\ (~ req[h].fresh => a \in raced')
        /\ \A b \in Address \ {a} : b \in raced => b \in raced'
    BY <1>1, <1>4 DEF IInv, TypeOK
  <1>7. /\ joined' \subseteq Address /\ joined \subseteq joined' /\ verified' \subseteq joined'
        /\ nin' \in [Address -> Nin \cup {Unset}] /\ a \in joined'
    BY <1>1, <1>4 DEF IInv, TypeOK
  <1>8. a \in raced' \/ row.attempts = 0
    BY <1>3, <1>6
  <1>. HIDE DEF a, old, row
  <1>. QED BY <1>1, <1>3, <1>4, <1>5, <1>6, <1>7, <1>8, WriteKeeps

\* The counter is written from the loaded row, which took one more guess.
LEMMA CountGuessKeeps ==
  ASSUME IInv, NEW h \in Handler, CountGuess(h)
  PROVE  IInv'
  <1>. DEFINE a == req[h].address
              row == [otp[a] EXCEPT !.attempts = req[h].row.attempts + 1]
  <1>1. /\ req[h] \in Request /\ a \in joined /\ a \in Address
        /\ req[h].row \in CodeRow /\ req[h].row.attempts < MaxAttempts
        /\ (req[h].fresh => req[h].row = otp[a])
    BY DEF CountGuess, IInv, TypeOK, Request, RequestsOK, RequestOK
  <1>2. otp[a] \in CodeRow
    BY <1>1 DEF CountGuess, IInv, TypeOK
  <1>3. /\ row \in CodeRow /\ row.attempts = req[h].row.attempts + 1
        /\ row.attempts <= MaxAttempts
    BY <1>1, <1>2, AccountAssumption DEF CodeRow
  <1>4. /\ otp' = [otp EXCEPT ![a] = row] /\ wrong' = [wrong EXCEPT ![a] = wrong[a] + 1]
        /\ raced' = (IF req[h].fresh THEN raced ELSE raced \cup {a})
        /\ FinishOverReaders(h, a)
        /\ now' = now /\ joined' = joined /\ verified' = verified /\ nin' = nin
    BY <1>1 DEF CountGuess, users, IInv, TypeOK
  <1>5. a \in raced' \/ row.attempts = wrong[a] + 1
    <2>1. CASE a \in raced \/ ~ req[h].fresh
      BY <1>4, <2>1
    <2>2. CASE a \notin raced /\ req[h].fresh
      <3>1. otp[a] # NoRow /\ otp[a].attempts = wrong[a]
        BY <1>1, <1>2, <2>2, NoCode DEF IInv, GuessesCounted
      <3>. QED BY <1>1, <1>3, <2>2, <3>1
    <2>. QED BY <2>1, <2>2
  <1>6. /\ joined' \subseteq Address /\ joined \subseteq joined' /\ verified' \subseteq joined'
        /\ nin' \in [Address -> Nin \cup {Unset}] /\ a \in joined'
        /\ wrong[a] + 1 \in Nat /\ raced' \subseteq Address
        /\ \A b \in Address \ {a} : b \in raced => b \in raced'
    BY <1>1, <1>4 DEF IInv, TypeOK
  <1>7. row # NoRow
    BY <1>3, NoCode
  <1>. HIDE DEF a, row
  <1>. QED BY <1>1, <1>3, <1>4, <1>5, <1>6, <1>7, WriteKeeps

LEMMA ConfirmKeeps ==
  ASSUME IInv, NEW h \in Handler, Confirm(h)
  PROVE  IInv'
  <1>. DEFINE a == req[h].address
  <1>1. a \in joined /\ a \in Address
    BY DEF Confirm, IInv, TypeOK, Request, RequestsOK, RequestOK
  <1>2. /\ otp' = [otp EXCEPT ![a] = NoRow] /\ wrong' = [wrong EXCEPT ![a] = 0]
        /\ raced' = raced \ {a} /\ verified' = verified \cup {a}
        /\ FinishOverReaders(h, a)
        /\ now' = now /\ joined' = joined /\ nin' = nin
    BY DEF Confirm, Used
  <1>3. /\ joined \subseteq Address /\ verified' \subseteq joined
        /\ nin \in [Address -> Nin \cup {Unset}] /\ raced' \subseteq Address
    BY <1>1, <1>2 DEF IInv, TypeOK
  <1>. HIDE DEF a
  <1>. QED BY <1>1, <1>2, <1>3, WriteKeeps

\* A code goes, and what was counted with it.
LEMMA PurgeKeeps ==
  ASSUME IInv, Purge
  PROVE  IInv'
  <1>. DEFINE gone == {a \in Address : otp[a] # NoRow /\ otp[a].expires < now}
  <1>1. /\ otp' = [a \in Address |-> IF a \in gone THEN NoRow ELSE otp[a]]
        /\ wrong' = [a \in Address |-> IF a \in gone THEN 0 ELSE wrong[a]]
        /\ raced' = raced \ gone
        /\ req' = [g \in Handler |-> [req[g] EXCEPT !.fresh = @ /\ req[g].address \notin gone]]
        /\ now' = now /\ joined' = joined /\ verified' = verified /\ nin' = nin /\ pc' = pc
    BY DEF Purge, users
  <1>. HIDE DEF gone
  <1>2. ASSUME NEW g \in Handler
        PROVE  /\ req'[g] \in Request
               /\ req'[g].address = req[g].address
               /\ req'[g].code = req[g].code
               /\ req'[g].row = req[g].row
               /\ req'[g].fresh => req[g].fresh /\ req[g].address \notin gone
    <2>1. req[g] \in Request
      BY DEF IInv, TypeOK
    <2>2. [req[g] EXCEPT !.fresh = @ /\ req[g].address \notin gone] \in Request
      BY <2>1 DEF Request
    <2>. QED BY <1>1, <2>1, <2>2 DEF Request
  <1>3. TypeOK'
    <2>1. req' \in [Handler -> Request]
      BY <1>1, <1>2
    <2>. QED BY <1>1, <2>1 DEF IInv, TypeOK
  <1>4. GuessesCounted' /\ RowsOK'
    BY <1>1 DEF IInv, GuessesCounted, RowsOK
  <1>5. RequestsOK'
    <2>. SUFFICES ASSUME NEW g \in Handler PROVE RequestOK(g)'
      BY DEF RequestsOK
    <2>1. req[g].address \in Address /\ RequestOK(g)
      BY DEF IInv, TypeOK, Request, RequestsOK
    <2>2. req'[g].fresh => req[g].fresh /\ otp'[req[g].address] = otp[req[g].address]
      BY <1>1, <1>2, <2>1
    <2>. QED BY <1>1, <1>2, <2>1, <2>2 DEF RequestOK
  <1>. QED BY <1>3, <1>4, <1>5 DEF IInv

-----------------------------------------------------------------------------
(* The theorems.                                                           *)

LEMMA ConfirmVerifies == IInv => Verified
  <1>. SUFFICES ASSUME IInv, NEW h \in Handler, Confirm(h)
                PROVE  LET a == req[h].address IN
                       /\ req[h].fresh =>
                            /\ otp[a] # NoRow /\ otp[a].code = req[h].code
                            /\ otp[a].attempts < MaxAttempts
                       /\ otp'[a] = NoRow
    BY DEF Verified
  <1>1. req[h].address \in Address
    BY DEF IInv, TypeOK, Request
  <1>. QED BY <1>1 DEF Confirm, Used, IInv, TypeOK, RequestsOK, RequestOK

LEMMA NextIInv ==
  ASSUME IInv, [Next]_vars
  PROVE  IInv' /\ Verified
  <1>1. Verified
    BY ConfirmVerifies
  <1>2. ASSUME NEW h \in Handler, NEW a \in Address, NEW n \in Nin \cup {Unset},
               ReadForRegister(h, a, n)
        PROVE  IInv'
    <2>1. PICK c \in Code : TRUE
      BY AccountAssumption
    <2>. QED BY <1>2, <2>1, BeginKeeps
  <1>3. ASSUME NEW h \in Handler, NEW a \in Address, NEW c \in Code,
               ReadForResend(h, a) \/ ReadForVerify(h, a, c)
        PROVE  IInv'
    <2>1. Unset \in Nin \cup {Unset}
      OBVIOUS
    <2>. QED BY <1>3, <2>1, BeginKeeps
  <1>4. ASSUME NEW h \in Handler, TakenMeanwhile(h) \/ Refuse(h) \/ RowChanged(h) \/ Crash(h)
        PROVE  IInv'
    BY <1>4, FinishKeeps DEF TakenMeanwhile, Refuse, RowChanged, Crash
  <1>5. ASSUME NEW h \in Handler, NEW c \in Code, Register(h, c) \/ IssueOtp(h, c)
        PROVE  IInv'
    BY <1>5, RegisterKeeps, IssueOtpKeeps
  <1>6. ASSUME NEW h \in Handler, ReadOldCode(h) \/ Judge(h) \/ CountGuess(h) \/ Confirm(h)
        PROVE  IInv'
    BY <1>6, ReadOldCodeKeeps, JudgeKeeps, CountGuessKeeps, ConfirmKeeps
  <1>7. CASE Purge
    BY <1>1, <1>7, PurgeKeeps
  <1>8. CASE Tick \/ UNCHANGED vars
    <2>1. /\ now' \in Time
          /\ joined' = joined /\ verified' = verified /\ nin' = nin
          /\ otp' = otp /\ wrong' = wrong /\ raced' = raced /\ pc' = pc /\ req' = req
      BY <1>8, AccountAssumption DEF Tick, vars, users, codes, IInv, TypeOK, Time
    <2>2. TypeOK' /\ GuessesCounted' /\ RowsOK'
      BY <2>1 DEF IInv, TypeOK, GuessesCounted, RowsOK
    <2>3. RequestsOK'
      BY <2>1 DEF IInv, RequestsOK, RequestOK
    <2>. QED BY <1>1, <2>2, <2>3 DEF IInv
  <1>9. ASSUME NEW h \in Handler, NEW a \in Address, ReadForResend(h, a)
        PROVE  IInv'
    <2>1. PICK c \in Code : TRUE
      BY AccountAssumption
    <2>. QED BY <1>3, <1>9, <2>1
  <1>. QED BY <1>1, <1>2, <1>3, <1>4, <1>5, <1>6, <1>7, <1>8, <1>9 DEF Next

\* The inductive invariant holds in every reachable state.
THEOREM Invariant == Spec => []IInv
  BY InitIInv, NextIInv, PTL DEF Spec

\* The counter of a code says how many wrong guesses were answered, and never
\* passes the limit.
THEOREM GuessCounting == Spec => []GuessesCounted
  BY Invariant, PTL DEF IInv

\* An address is verified by the code that is in force.
THEOREM VerifiedByCode == Spec => VerifiedByItsCode
  BY Invariant, NextIInv, PTL DEF Spec, VerifiedByItsCode, Verified
=============================================================================
