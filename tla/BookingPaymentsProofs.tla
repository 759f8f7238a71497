------------------------ MODULE BookingPaymentsProofs ------------------------
(***************************************************************************)
(* The safety invariants of BookingPayments, for any number of bookings,   *)
(* owners, overlapping handlers and crashes; and, for requests that stay   *)
(* apart, that the handlers implement BookingLedger and keep its promises. *)
(***************************************************************************)
EXTENDS BookingClaims, TLAPS

-----------------------------------------------------------------------------
(* The inductive invariant.                                                *)

ForBooking ==
  {"insert_booking", "insert_payment", "get_booking", "flush_status", "get_wallet",
   "update_wallet", "commit_settle", "respond", "flush_failed", "commit_failed",
   "flush_cancel", "commit_cancel", "mail_cancel"}

\* h serves a charge.success event.
Settling(h) ==
  \/ pc[h] \in {"get_booking", "flush_status", "get_wallet", "update_wallet",
                "commit_settle", "respond"}
  \/ pc[h] = "insert_wallet" /\ req[h].booking # None

\* h is between the flush of the statuses and the commit of a credit.
Crediting(h) ==
  \/ pc[h] \in {"get_wallet", "update_wallet"}
  \/ pc[h] = "insert_wallet" /\ req[h].booking # None
  \/ pc[h] = "commit_settle" /\ req[h].owner # None

\* What the next statement of a handler says about its request.
RequestOK ==
  \A h \in Handler :
    /\ pc[h] \in ForBooking => req[h].booking \in Booking
    /\ Settling(h) => req[h].booking \in charged
    /\ Crediting(h) => /\ req[h].owner = OwnerOf[req[h].booking]
                       /\ req[h].owner # None
                       /\ req[h].st = "PENDING_PAYMENT"
    /\ pc[h] \in {"get_booking", "flush_status"} => req[h].bal = 0
    /\ pc[h] \in {"get_booking", "flush_status", "get_wallet"} => ~ req[h].own
    /\ pc[h] = "commit_settle" => req[h].bal <= IntMax
    /\ pc[h] = "commit_settle" /\ req[h].owner = None =>
         req[h].st # "PENDING_PAYMENT" \/ OwnerOf[req[h].booking] = None
    /\ pc[h] \in {"insert_wallet", "commit_wallet"} => req[h].owner \in Owner

\* A row is inserted before anything refers to it.
RowsOK ==
  \A b \in Booking :
    /\ status[b] = "NONE" => payment[b] = "NONE"
    /\ payment[b] = "NONE" => b \notin charged
    /\ <<b, "success">> \in events => b \in charged
    /\ \A kind \in Kinds : <<b, kind>> \in events => payment[b] # "NONE"

\* A booking that is being inserted is new, and inserted by one handler; the
\* other requests are about rows that exist.
InsertsOK ==
  \A h \in Handler :
    /\ pc[h] = "insert_booking" => status[req[h].booking] = "NONE"
    /\ pc[h] \in {"insert_payment", "flush_failed", "commit_failed",
                  "flush_cancel", "commit_cancel"} =>
         status[req[h].booking] # "NONE"
    /\ pc[h] \in {"flush_expire", "commit_expire"} =>
         \A b \in req[h].batch : status[b] # "NONE"
    /\ \A g \in Handler :
         /\ pc[h] = "insert_booking"
         /\ pc[g] = "insert_booking"
         /\ req[h].booking = req[g].booking
         => g = h

\* The status a session remembers may be stale, but not in a way that hides
\* a credit.
SnapshotOK ==
  \A h \in Handler :
    pc[h] \in {"flush_status", "commit_settle"} /\ OwnerOf[req[h].booking] # None =>
      LET b == req[h].booking IN
      /\ req[h].st # "NONE"
      /\ req[h].st = "CONFIRMED" => Credited(b)
      /\ req[h].st = "CANCELLED" => Credited(b) \/ status[b] = "CANCELLED"

\* A wallet row is written by one transaction at a time.
WalletExclusive ==
  \A h, g \in Handler, o \in Owner : WritesWallet(h, o) /\ WritesWallet(g, o) => h = g

\* h has inserted a wallet row and not committed it.
Inserting(h) == pc[h] = "commit_wallet" \/ (pc[h] = "update_wallet" /\ req[h].own)

\* An inserted wallet row is not committed yet, and an owner without a row has
\* no ledger.
WalletOK ==
  /\ WalletExclusive
  /\ \A h \in Handler : Inserting(h) => req[h].owner \notin wallets
  /\ \A i \in 1..Len(ledger) : ledger[i].owner \in wallets

IInv ==
  /\ TypeOK
  /\ RequestOK
  /\ RowsOK
  /\ InsertsOK
  /\ SnapshotOK
  /\ WalletOK
  /\ ConfirmedIsCredited
  /\ CreditsAreEarned
  /\ BalanceIsLastAfter
  /\ NoCreditForgotten
  /\ NoticeIsPaid
-----------------------------------------------------------------------------
\* What an owner is credited is a positive amount.
LEMMA NetType == \A b \in Booking : NetOf(b) \in Nat /\ NetOf(b) > 0
<1> SUFFICES ASSUME NEW b \in Booking PROVE NetOf(b) \in Nat /\ NetOf(b) > 0
  OBVIOUS
<1>1. Total[b] \in Int /\ FeeBps \in Int /\ NetOf(b) > 0
  BY StaysAssumption
<1>2. DEFINE n == Total[b] * FeeBps
<1>3. n \in Int
  BY <1>1
<1>4. n \div 10000 \in Int
  BY <1>3
<1>5. RoundHalfEven(n, 10000) \in Int
  BY <1>4 DEF RoundHalfEven
<1>6. QED
  BY <1>1, <1>5 DEF NetOf, PlatformFee

\* The initial state satisfies the inductive invariant.
LEMMA InitIInv == Init => IInv
<1> SUFFICES ASSUME Init PROVE IInv
  OBVIOUS
<1>1. TypeOK
  BY StaysAssumption, HandlersAssumption
     DEF Init, TypeOK, NoRequest, Request, BookingStatus, PaymentStatus, Steps,
         CreditRows
<1>2. RequestOK /\ InsertsOK /\ SnapshotOK
  BY DEF Init, RequestOK, InsertsOK, SnapshotOK, ForBooking, Settling, Crediting
<1>3. RowsOK /\ ConfirmedIsCredited /\ NoCreditForgotten /\ NoticeIsPaid
  BY DEF Init, RowsOK, ConfirmedIsCredited, NoCreditForgotten, NoticeIsPaid
<1>4. WalletOK /\ CreditsAreEarned /\ BalanceIsLastAfter
  BY DEF Init, WalletOK, WalletExclusive, Inserting, WritesWallet, CreditsAreEarned, BalanceIsLastAfter
<1>5. QED
  BY <1>1, <1>2, <1>3, <1>4 DEF IInv

-----------------------------------------------------------------------------
(* Statements that only change the session of their handler.               *)

\* An idle handler's session is well typed.
LEMMA NoRequestType == NoRequest \in Request
  BY DEF NoRequest, Request, BookingStatus, PaymentStatus

\* So is the session of a handler that has just read a row.
LEMMA AskType ==
  \A b \in Booking, p \in PaymentStatus, s \in BookingStatus :
    /\ Ask(b, p, s) \in Request
    /\ Ask(b, p, s).booking = b
    /\ Ask(b, p, s).bal = 0
    /\ ~ Ask(b, p, s).own
  BY DEF Ask, Request

\* Setting one column of what a session remembers.
LEMMA RequestFields ==
  ASSUME NEW r \in Request
  PROVE  /\ \A x \in PaymentStatus :
              /\ [r EXCEPT !.pay = x] \in Request
              /\ [r EXCEPT !.pay = x].booking = r.booking
              /\ [r EXCEPT !.pay = x].bal = r.bal
              /\ [r EXCEPT !.pay = x].own = r.own
         /\ \A x \in BookingStatus :
              [r EXCEPT !.st = x] \in Request /\ [r EXCEPT !.st = x].booking = r.booking
         /\ \A x \in Owner \cup {None} : [r EXCEPT !.owner = x] \in Request
         /\ \A x \in Nat : [r EXCEPT !.bal = x] \in Request
         /\ [r EXCEPT !.own = TRUE, !.bal = 0] \in Request
  BY DEF Request

\* The parts of IInv that do not look into the sessions.
RowInv ==
  /\ RowsOK
  /\ ConfirmedIsCredited
  /\ CreditsAreEarned
  /\ BalanceIsLastAfter
  /\ NoCreditForgotten
  /\ NoticeIsPaid

\* Properties of the committed rows survive steps that commit nothing.
LEMMA SessionOnly ==
  ASSUME IInv, UNCHANGED <<rows, paystack, mailed>>
  PROVE  RowInv'
BY DEF IInv, RowInv, rows, paystack, RowsOK, ConfirmedIsCredited, CreditsAreEarned,
       BalanceIsLastAfter, NoCreditForgotten, NoticeIsPaid, Credited

\* A handler that ends without a commit rolls back what it wrote.
LEMMA Rollback ==
  ASSUME IInv, NEW h \in Handler, Finish(h),
         UNCHANGED <<rows, aged, paystack, outbox>>, crashes' \in 0..MaxCrashes
  PROVE  IInv'
<1>1. TypeOK'
  BY NoRequestType DEF IInv, TypeOK, Finish, Steps, rows, paystack, outbox
<1>2. RequestOK'
  BY DEF IInv, TypeOK, Finish, rows, paystack, RequestOK, ForBooking, Settling, Crediting
<1>3. InsertsOK' /\ SnapshotOK'
  BY DEF IInv, TypeOK, Finish, rows, InsertsOK, SnapshotOK, Credited
<1>4. WalletOK'
  BY DEF IInv, TypeOK, Finish, rows, WalletOK, WalletExclusive, Inserting, WritesWallet
<1>5. RowInv'
  BY SessionOnly DEF outbox
<1>6. QED
  BY <1>1, <1>2, <1>3, <1>4, <1>5 DEF IInv, RowInv

\* The overlap check reads, and remembers which booking it was for.
LEMMA CheckDatesStep ==
  ASSUME IInv, NEW h \in Handler, NEW b \in Booking, CheckDates(h, b)
  PROVE  IInv'
<1>1. /\ Ask(b, "NONE", "NONE") \in Request
      /\ Ask(b, "NONE", "NONE").booking = b
  BY AskType DEF PaymentStatus, BookingStatus
<1>2. TypeOK'
  BY <1>1 DEF IInv, TypeOK, CheckDates, Begin, Steps, rows, paystack, outbox
<1>3. RequestOK'
  BY <1>1 DEF IInv, TypeOK, CheckDates, Begin, rows, paystack, RequestOK, ForBooking,
             Settling, Crediting
<1>4. InsertsOK'
  BY <1>1 DEF IInv, TypeOK, CheckDates, Begin, rows, InsertsOK
<1>5. SnapshotOK'
  BY <1>1 DEF IInv, TypeOK, CheckDates, Begin, rows, SnapshotOK, Credited
<1>6. WalletOK'
  BY <1>1 DEF IInv, TypeOK, CheckDates, Begin, rows, WalletOK, WalletExclusive, Inserting, WritesWallet
<1>7. RowInv'
  BY SessionOnly DEF CheckDates, outbox
<1>8. QED
  BY <1>2, <1>3, <1>4, <1>5, <1>6, <1>7 DEF IInv, RowInv

\* A webhook event is only sent for an inserted payment; a success event
\* only after the charge.
LEMMA ReceiveStep ==
  ASSUME IInv, NEW h \in Handler, NEW b \in Booking, NEW kind \in Kinds, Receive(h, b, kind)
  PROVE  IInv'
<1>1. /\ Ask(b, payment[b], "NONE") \in Request
      /\ Ask(b, payment[b], "NONE").booking = b
      /\ Ask(b, payment[b], "NONE").bal = 0
      /\ ~ Ask(b, payment[b], "NONE").own
      /\ kind = "success" => b \in charged
  BY AskType DEF IInv, TypeOK, RowsOK, Receive, BookingStatus
<1>2. TypeOK'
  BY <1>1 DEF IInv, TypeOK, Receive, SettlesOn, Begin, Steps, rows, paystack, outbox
<1>3. RequestOK'
  BY <1>1 DEF IInv, TypeOK, Receive, SettlesOn, Begin, rows, paystack, RequestOK, ForBooking,
             Settling, Crediting
<1>4. InsertsOK'
  <2>1. status[b] # "NONE"
    BY DEF IInv, RowsOK, Receive
  <2>2. QED
    BY <1>1, <2>1 DEF IInv, TypeOK, Receive, SettlesOn, Begin, rows, InsertsOK
<1>5. SnapshotOK'
  BY <1>1 DEF IInv, TypeOK, Receive, SettlesOn, Begin, rows, SnapshotOK, Credited
<1>6. WalletOK'
  BY <1>1 DEF IInv, TypeOK, Receive, SettlesOn, Begin, rows, WalletOK, WalletExclusive, Inserting, WritesWallet
<1>7. RowInv'
  BY SessionOnly DEF Receive, SettlesOn, outbox
<1>8. QED
  BY <1>2, <1>3, <1>4, <1>5, <1>6, <1>7 DEF IInv, RowInv

\* A cancellation reads the booking.
LEMMA ReadForCancelStep ==
  ASSUME IInv, NEW h \in Handler, NEW b \in Booking, ReadForCancel(h, b)
  PROVE  IInv'
<1>1. /\ Ask(b, "NONE", status[b]) \in Request
      /\ Ask(b, "NONE", status[b]).booking = b
  BY AskType DEF IInv, TypeOK, PaymentStatus
<1>2. TypeOK'
  BY <1>1 DEF IInv, TypeOK, ReadForCancel, Begin, Steps, rows, paystack, outbox
<1>3. RequestOK'
  BY <1>1 DEF IInv, TypeOK, ReadForCancel, Begin, rows, paystack, RequestOK, ForBooking,
             Settling, Crediting
<1>4. InsertsOK'
  BY <1>1 DEF IInv, TypeOK, ReadForCancel, Begin, rows, InsertsOK
<1>5. SnapshotOK'
  BY <1>1 DEF IInv, TypeOK, ReadForCancel, Begin, rows, SnapshotOK, Credited
<1>6. WalletOK'
  BY <1>1 DEF IInv, TypeOK, ReadForCancel, Begin, rows, WalletOK, WalletExclusive, Inserting, WritesWallet
<1>7. RowInv'
  BY SessionOnly DEF ReadForCancel, outbox
<1>8. QED
  BY <1>2, <1>3, <1>4, <1>5, <1>6, <1>7 DEF IInv, RowInv

\* A sweep reads the bookings it is about to cancel.
LEMMA ReadExpiredStep ==
  ASSUME IInv, NEW h \in Handler, ReadExpired(h)
  PROVE  IInv'
<1>1. /\ [NoRequest EXCEPT !.batch = Expirable] \in Request
      /\ [NoRequest EXCEPT !.batch = Expirable].batch = Expirable
      /\ \A b \in Expirable : status[b] # "NONE"
  BY NoRequestType DEF IInv, TypeOK, NoRequest, Request, Expirable
<1>2. TypeOK'
  BY <1>1 DEF IInv, TypeOK, ReadExpired, Begin, Steps, rows, paystack, outbox
<1>3. RequestOK'
  BY <1>1 DEF IInv, TypeOK, ReadExpired, Begin, rows, paystack, RequestOK, ForBooking,
             Settling, Crediting
<1>4. InsertsOK'
  BY <1>1 DEF IInv, TypeOK, ReadExpired, Begin, rows, InsertsOK
<1>5. SnapshotOK'
  BY <1>1 DEF IInv, TypeOK, ReadExpired, Begin, rows, SnapshotOK, Credited
<1>6. WalletOK'
  BY <1>1 DEF IInv, TypeOK, ReadExpired, Begin, rows, WalletOK, WalletExclusive, Inserting, WritesWallet
<1>7. RowInv'
  BY SessionOnly DEF ReadExpired, outbox
<1>8. QED
  BY <1>2, <1>3, <1>4, <1>5, <1>6, <1>7 DEF IInv, RowInv

\* An owner's first look at the wallet reads that there is no row.
LEMMA LookAtWalletStep ==
  ASSUME IInv, NEW h \in Handler, NEW o \in Owner, LookAtWallet(h, o)
  PROVE  IInv'
<1>1. /\ [NoRequest EXCEPT !.owner = o] \in Request
      /\ [NoRequest EXCEPT !.owner = o].owner = o
      /\ [NoRequest EXCEPT !.owner = o].booking = None
  BY NoRequestType DEF NoRequest, Request
<1>2. TypeOK'
  BY <1>1 DEF IInv, TypeOK, LookAtWallet, Begin, Steps, rows, paystack, outbox
<1>3. RequestOK'
  BY <1>1 DEF IInv, TypeOK, LookAtWallet, Begin, rows, paystack, RequestOK, ForBooking,
             Settling, Crediting
<1>4. InsertsOK'
  BY <1>1 DEF IInv, TypeOK, LookAtWallet, Begin, rows, InsertsOK
<1>5. SnapshotOK'
  BY <1>1 DEF IInv, TypeOK, LookAtWallet, Begin, rows, SnapshotOK, Credited
<1>6. WalletOK'
  BY <1>1 DEF IInv, TypeOK, LookAtWallet, Begin, rows, WalletOK, WalletExclusive, Inserting, WritesWallet
<1>7. RowInv'
  BY SessionOnly DEF LookAtWallet, outbox
<1>8. QED
  BY <1>2, <1>3, <1>4, <1>5, <1>6, <1>7 DEF IInv, RowInv

\* The status a settlement reads: a booking read as CONFIRMED is credited.
LEMMA GetBookingStep ==
  ASSUME IInv, NEW h \in Handler, GetBooking(h)
  PROVE  IInv'
<1>1. /\ req[h].booking \in Booking
      /\ req[h] \in Request
      /\ status[req[h].booking] \in BookingStatus \ {"NONE"}
      /\ req'[h] = [req[h] EXCEPT !.st = status[req[h].booking]]
      /\ req'[h] \in Request
      /\ req' \in [Handler -> Request]
  <2>1. req[h].booking \in Booking /\ req[h].booking \in charged
    BY DEF IInv, RequestOK, GetBooking, ForBooking, Settling
  <2>2. req[h] \in Request /\ status[req[h].booking] \in BookingStatus
    BY <2>1 DEF IInv, TypeOK
  <2>3. QED
    BY <2>1, <2>2, RequestFields DEF GetBooking, IInv, TypeOK, RowsOK
<1>2. TypeOK'
  BY <1>1 DEF IInv, TypeOK, GetBooking, Steps, rows, paystack, outbox
<1>3. RequestOK'
  BY <1>1 DEF IInv, TypeOK, GetBooking, rows, paystack, RequestOK, ForBooking,
             Settling, Crediting, Confirms, Credits, Request
<1>4. InsertsOK'
  BY <1>1 DEF IInv, TypeOK, GetBooking, rows, InsertsOK
<1>5. SnapshotOK'
  <2> SUFFICES ASSUME NEW g \in Handler,
                      pc'[g] \in {"flush_status", "commit_settle"},
                      OwnerOf[req'[g].booking] # None
               PROVE  /\ req'[g].st # "NONE"
                      /\ req'[g].st = "CONFIRMED" => Credited(req[g].booking)'
                      /\ req'[g].st = "CANCELLED" => \/ Credited(req[g].booking)'
                                                    \/ status'[req'[g].booking] = "CANCELLED"
    BY DEF SnapshotOK
  <2>1. CASE g = h
    BY <1>1, <2>1 DEF IInv, TypeOK, GetBooking, rows, ConfirmedIsCredited, Credited, Request
  <2>2. CASE g # h
    BY <1>1, <2>2 DEF IInv, TypeOK, GetBooking, rows, SnapshotOK, Credited
  <2>3. QED
    BY <2>1, <2>2
<1>6. WalletOK'
  BY <1>1 DEF IInv, TypeOK, GetBooking, rows, WalletOK, WalletExclusive, Inserting, WritesWallet, WalletFree, RequestOK, Request
<1>7. RowInv'
  BY SessionOnly DEF GetBooking, outbox
<1>8. QED
  BY <1>2, <1>3, <1>4, <1>5, <1>6, <1>7 DEF IInv, RowInv

\* The flush decides, from what was read, whether there is a credit to make.
LEMMA FlushStatusStep ==
  ASSUME IInv, NEW h \in Handler, FlushStatus(h)
  PROVE  IInv'
<1>1. /\ req[h].booking \in Booking
      /\ req[h] \in Request
      /\ req'[h] = [req[h] EXCEPT !.owner = IF Credits(h) THEN OwnerOf[req[h].booking]
                                                        ELSE None]
      /\ req'[h] \in Request
      /\ req' \in [Handler -> Request]
  <2>1. req[h].booking \in Booking /\ req[h] \in Request
    BY DEF IInv, TypeOK, RequestOK, FlushStatus, ForBooking
  <2>2. (IF Credits(h) THEN OwnerOf[req[h].booking] ELSE None) \in Owner \cup {None}
    BY <2>1, StaysAssumption
  <2>3. QED
    BY <2>1, <2>2, RequestFields DEF FlushStatus, IInv, TypeOK
<1>2. TypeOK'
  BY <1>1 DEF IInv, TypeOK, FlushStatus, Steps, rows, paystack, outbox
<1>9. /\ req'[h].booking = req[h].booking
      /\ req'[h].st = req[h].st
      /\ req'[h].bal = 0
      /\ ~ req'[h].own
      /\ pc'[h] = IF Credits(h) THEN "get_wallet" ELSE "commit_settle"
      /\ req'[h].owner = IF Credits(h) THEN OwnerOf[req[h].booking] ELSE None
      /\ req[h].booking \in charged
      /\ \A g \in Handler \ {h} : pc'[g] = pc[g] /\ req'[g] = req[g]
  BY <1>1 DEF Request, FlushStatus, IInv, TypeOK, RequestOK, Settling
<1>3. RequestOK'
  <2>1. UNCHANGED charged
    BY DEF FlushStatus, paystack
  <2> SUFFICES ASSUME NEW g \in Handler
               PROVE  RequestOK!(g)'
    BY DEF RequestOK
  <2>2. CASE g = h
    <3>0. req[h].booking \in Booking /\ 0 <= IntMax
      BY <1>1, StaysAssumption
    <3>1. CASE Credits(h)
      BY <1>9, <2>1, <2>2, <3>0, <3>1 DEF Settling, Crediting, ForBooking, Credits, Confirms
    <3>2. CASE ~ Credits(h)
      BY <1>9, <2>1, <2>2, <3>0, <3>2 DEF Settling, Crediting, ForBooking, Credits, Confirms
    <3>3. QED
      BY <3>1, <3>2
  <2>3. CASE g # h
    BY <1>9, <2>1, <2>3 DEF IInv, RequestOK, Settling, Crediting
  <2>4. QED
    BY <2>2, <2>3
<1>4. InsertsOK'
  BY <1>1 DEF IInv, TypeOK, FlushStatus, rows, InsertsOK
<1>5. SnapshotOK'
  BY <1>1 DEF IInv, TypeOK, FlushStatus, rows, SnapshotOK, Credited, Credits, Confirms,
             ConfirmedIsCredited, BookingStatus, Request
<1>6. WalletOK'
  <2>1. \A g \in Handler, o \in Owner : WritesWallet(g, o)' => WritesWallet(g, o)
    BY <1>9, StaysAssumption DEF WritesWallet
  <2>2. QED
    BY <1>9, <2>1 DEF IInv, FlushStatus, rows, WalletOK, WalletExclusive, Inserting
<1>7. RowInv'
  BY SessionOnly DEF FlushStatus, outbox
<1>8. QED
  BY <1>2, <1>3, <1>4, <1>5, <1>6, <1>7 DEF IInv, RowInv

\* The balance is read without a lock: nothing is claimed about it.
LEMMA GetWalletStep ==
  ASSUME IInv, NEW h \in Handler, GetWallet(h)
  PROVE  IInv'
<1>1. /\ req[h].owner \in Owner
      /\ req[h] \in Request
      /\ req'[h] = [req[h] EXCEPT !.bal = balance[req[h].owner]]
      /\ req'[h] \in Request
      /\ req' \in [Handler -> Request]
  <2>1. req[h] \in Request /\ req[h].owner \in Owner
    BY DEF IInv, TypeOK, RequestOK, GetWallet, Crediting, Request
  <2>2. balance[req[h].owner] \in Nat
    BY <2>1, StaysAssumption DEF IInv, TypeOK
  <2>3. QED
    BY <2>1, <2>2, RequestFields DEF GetWallet, IInv, TypeOK
<1>2. TypeOK'
  BY <1>1 DEF IInv, TypeOK, GetWallet, Steps, rows, paystack, outbox
<1>3. RequestOK'
  BY <1>1 DEF IInv, TypeOK, GetWallet, rows, paystack, RequestOK, ForBooking,
             Settling, Crediting, Confirms, Credits, Request
<1>4. InsertsOK'
  BY <1>1 DEF IInv, TypeOK, GetWallet, rows, InsertsOK
<1>5. SnapshotOK'
  BY <1>1 DEF IInv, TypeOK, GetWallet, rows, SnapshotOK, Credited, Credits, Confirms,
             ConfirmedIsCredited, BookingStatus, Request
<1>6. WalletOK'
  BY <1>1 DEF IInv, TypeOK, GetWallet, rows, WalletOK, WalletExclusive, Inserting, WritesWallet, WalletFree, RequestOK, Request
<1>7. RowInv'
  BY SessionOnly DEF GetWallet, outbox
<1>8. QED
  BY <1>2, <1>3, <1>4, <1>5, <1>6, <1>7 DEF IInv, RowInv

\* Waiting for the payment's row lock changes no row.
LEMMA FlushFailedStep ==
  ASSUME IInv, NEW h \in Handler, FlushFailed(h)
  PROVE  IInv'
<1>1. req[h] \in Request
  BY DEF IInv, TypeOK
<1>2. TypeOK'
  BY <1>1 DEF IInv, TypeOK, FlushFailed, Goto, Steps, rows, paystack, outbox
<1>3. RequestOK'
  BY <1>1 DEF IInv, TypeOK, FlushFailed, Goto, rows, paystack, RequestOK, ForBooking,
             Settling, Crediting
<1>4. InsertsOK'
  BY <1>1 DEF IInv, TypeOK, FlushFailed, Goto, rows, InsertsOK
<1>5. SnapshotOK'
  BY <1>1 DEF IInv, TypeOK, FlushFailed, Goto, rows, SnapshotOK, Credited
<1>6. WalletOK'
  BY <1>1 DEF IInv, TypeOK, FlushFailed, Goto, rows, WalletOK, WalletExclusive, Inserting, WritesWallet
<1>7. RowInv'
  BY SessionOnly DEF FlushFailed, Goto, outbox
<1>8. QED
  BY <1>2, <1>3, <1>4, <1>5, <1>6, <1>7 DEF IInv, RowInv

\* Waiting for the booking's row lock changes no row.
LEMMA FlushCancelStep ==
  ASSUME IInv, NEW h \in Handler, FlushCancel(h)
  PROVE  IInv'
<1>1. req[h] \in Request
  BY DEF IInv, TypeOK
<1>2. TypeOK'
  BY <1>1 DEF IInv, TypeOK, FlushCancel, Goto, Steps, rows, paystack, outbox
<1>3. RequestOK'
  BY <1>1 DEF IInv, TypeOK, FlushCancel, Goto, rows, paystack, RequestOK, ForBooking,
             Settling, Crediting
<1>4. InsertsOK'
  BY <1>1 DEF IInv, TypeOK, FlushCancel, Goto, rows, InsertsOK
<1>5. SnapshotOK'
  BY <1>1 DEF IInv, TypeOK, FlushCancel, Goto, rows, SnapshotOK, Credited
<1>6. WalletOK'
  BY <1>1 DEF IInv, TypeOK, FlushCancel, Goto, rows, WalletOK, WalletExclusive, Inserting, WritesWallet
<1>7. RowInv'
  BY SessionOnly DEF FlushCancel, Goto, outbox
<1>8. QED
  BY <1>2, <1>3, <1>4, <1>5, <1>6, <1>7 DEF IInv, RowInv

\* Waiting for the row locks of a sweep changes no row.
LEMMA FlushExpiredStep ==
  ASSUME IInv, NEW h \in Handler, FlushExpired(h)
  PROVE  IInv'
<1>1. req[h] \in Request
  BY DEF IInv, TypeOK
<1>2. TypeOK'
  BY <1>1 DEF IInv, TypeOK, FlushExpired, Goto, Steps, rows, paystack, outbox
<1>3. RequestOK'
  BY <1>1 DEF IInv, TypeOK, FlushExpired, Goto, rows, paystack, RequestOK, ForBooking,
             Settling, Crediting
<1>4. InsertsOK'
  BY <1>1 DEF IInv, TypeOK, FlushExpired, Goto, rows, InsertsOK
<1>5. SnapshotOK'
  BY <1>1 DEF IInv, TypeOK, FlushExpired, Goto, rows, SnapshotOK, Credited
<1>6. WalletOK'
  BY <1>1 DEF IInv, TypeOK, FlushExpired, Goto, rows, WalletOK, WalletExclusive, Inserting, WritesWallet
<1>7. RowInv'
  BY SessionOnly DEF FlushExpired, Goto, outbox
<1>8. QED
  BY <1>2, <1>3, <1>4, <1>5, <1>6, <1>7 DEF IInv, RowInv

\* Two open inserts of a wallet row exclude each other; the loser rolls back.
LEMMA InsertWalletStep ==
  ASSUME IInv, NEW h \in Handler, InsertWallet(h)
  PROVE  IInv'
<1>1. CASE Conflicts(req[h].owner)
  BY <1>1, Rollback DEF InsertWallet, IInv, TypeOK
<1>2. CASE ~ Conflicts(req[h].owner)
  <2>1. /\ req[h].owner \in Owner
        /\ req[h].owner \notin wallets
        /\ WalletFree(h, req[h].owner)
        /\ pc[h] = "insert_wallet"
        /\ req[h].booking # None => Crediting(h) /\ Settling(h)
        /\ UNCHANGED <<rows, aged, paystack, outbox, crashes>>
    BY <1>2 DEF InsertWallet, Conflicts, IInv, RequestOK, Crediting, Settling
  <2>2. req[h] \in Request /\ req[h].booking \in Booking \cup {None}
    BY DEF IInv, TypeOK, Request
  <2>3. /\ req'[h] = [req[h] EXCEPT !.own = TRUE, !.bal = 0]
        /\ req' \in [Handler -> Request]
        /\ pc'[h] = IF req[h].booking = None THEN "commit_wallet" ELSE "update_wallet"
        /\ pc' \in [Handler -> Steps]
    BY <1>2, <2>2, RequestFields DEF InsertWallet, IInv, TypeOK, Steps
  <2>4. /\ req'[h].booking = req[h].booking
        /\ req'[h].owner = req[h].owner
        /\ req'[h].st = req[h].st
        /\ req'[h].own
        /\ \A g \in Handler \ {h} : pc'[g] = pc[g] /\ req'[g] = req[g]
    BY <1>2, <2>2, <2>3 DEF Request, InsertWallet, IInv, TypeOK
  <2>5. TypeOK'
    BY <2>1, <2>3 DEF IInv, TypeOK, rows, paystack, outbox
  <2>6. RequestOK'
    <3> SUFFICES ASSUME NEW g \in Handler PROVE RequestOK!(g)'
      BY DEF RequestOK
    <3>1. UNCHANGED charged /\ RequestOK!(g) /\ RequestOK!(h)
      BY <2>1 DEF paystack, IInv, RequestOK
    <3>2. CASE g = h
      BY <2>1, <2>2, <2>3, <2>4, <3>1, <3>2 DEF ForBooking, Settling, Crediting
    <3>3. CASE g # h
      BY <2>4, <3>1, <3>3 DEF ForBooking, Settling, Crediting
    <3>4. QED
      BY <3>2, <3>3
  <2>7. InsertsOK' /\ SnapshotOK'
    BY <2>1, <2>3, <2>4 DEF IInv, rows, InsertsOK, SnapshotOK, Credited
  <2>8. WalletOK'
    <3>1. \A g \in Handler \ {h}, o \in Owner : WritesWallet(g, o)' <=> WritesWallet(g, o)
      BY <2>4 DEF WritesWallet
    <3>2. \A o \in Owner : WritesWallet(h, o)' => o = req[h].owner
      BY <2>4 DEF WritesWallet
    <3>3. \A g \in Handler \ {h} : ~ WritesWallet(g, req[h].owner)
      BY <2>1 DEF WalletFree
    <3>4. WalletExclusive'
      BY <3>1, <3>2, <3>3 DEF IInv, WalletOK, WalletExclusive
    <3>5. \A g \in Handler : Inserting(g)' => req'[g].owner \notin wallets
      BY <2>1, <2>3, <2>4 DEF IInv, WalletOK, Inserting
    <3>6. QED
      BY <2>1, <3>4, <3>5 DEF IInv, WalletOK, rows
  <2>9. RowInv'
    BY <2>1, SessionOnly DEF outbox
  <2>10. QED
    BY <2>5, <2>6, <2>7, <2>8, <2>9 DEF IInv, RowInv
<1>3. QED
  BY <1>1, <1>2

\* Two open updates of a wallet row exclude each other.
LEMMA UpdateWalletStep ==
  ASSUME IInv, NEW h \in Handler, UpdateWallet(h)
  PROVE  IInv'
<1> DEFINE after == req[h].bal + NetOf(req[h].booking)
<1>1. CASE ~ Fits(after)
  BY <1>1, Rollback DEF UpdateWallet, IInv, TypeOK
<1>2. CASE Fits(after)
  <2>1. /\ req[h].booking \in Booking
        /\ WalletFree(h, req[h].owner)
        /\ pc[h] = "update_wallet"
        /\ Crediting(h) /\ Settling(h)
        /\ UNCHANGED <<rows, aged, paystack, outbox, crashes>>
    BY <1>2 DEF UpdateWallet, IInv, RequestOK, ForBooking, Crediting, Settling
  <2>2. req[h] \in Request /\ after \in Nat /\ after <= IntMax
    BY <1>2, <2>1, NetType DEF IInv, TypeOK, Request, Fits
  <2>0. /\ req' = [req EXCEPT ![h].bal = after]
        /\ pc' = [pc EXCEPT ![h] = "commit_settle"]
    BY <1>2 DEF UpdateWallet
  <2> HIDE DEF after
  <2>3. /\ req'[h] = [req[h] EXCEPT !.bal = after]
        /\ req' \in [Handler -> Request]
        /\ pc'[h] = "commit_settle"
        /\ pc' \in [Handler -> Steps]
    BY <2>0, <2>2, RequestFields DEF IInv, TypeOK, Steps
  <2>4. /\ req'[h].booking = req[h].booking
        /\ req'[h].owner = req[h].owner
        /\ req'[h].st = req[h].st
        /\ req'[h].bal <= IntMax
        /\ \A g \in Handler \ {h} : pc'[g] = pc[g] /\ req'[g] = req[g]
    BY <2>0, <2>2, <2>3 DEF Request, IInv, TypeOK
  <2>5. TypeOK'
    BY <2>1, <2>3 DEF IInv, TypeOK, rows, paystack, outbox
  <2>6. RequestOK'
    <3> SUFFICES ASSUME NEW g \in Handler PROVE RequestOK!(g)'
      BY DEF RequestOK
    <3>1. UNCHANGED charged /\ RequestOK!(g) /\ RequestOK!(h)
      BY <2>1 DEF paystack, IInv, RequestOK
    <3>2. CASE g = h
      BY <2>1, <2>2, <2>3, <2>4, <3>1, <3>2 DEF ForBooking, Settling, Crediting
    <3>3. CASE g # h
      BY <2>4, <3>1, <3>3 DEF ForBooking, Settling, Crediting
    <3>4. QED
      BY <3>2, <3>3
  <2>7. InsertsOK' /\ SnapshotOK'
    <3>1. req[h].st = "PENDING_PAYMENT"
      BY <2>1 DEF IInv, RequestOK
    <3>2. InsertsOK'
      BY <2>1, <2>3, <2>4 DEF IInv, rows, InsertsOK
    <3>3. SnapshotOK'
      <4> SUFFICES ASSUME NEW g \in Handler PROVE SnapshotOK!(g)'
        BY DEF SnapshotOK
      <4>1. SnapshotOK!(g) /\ UNCHANGED <<status, ledger>>
        BY <2>1 DEF IInv, SnapshotOK, rows
      <4>2. CASE g = h
        BY <2>4, <3>1, <4>2
      <4>3. CASE g # h
        BY <2>4, <4>1, <4>3 DEF Credited
      <4>4. QED
        BY <4>2, <4>3
    <3>4. QED
      BY <3>2, <3>3
  <2>8. WalletOK'
    <3>1. \A g \in Handler \ {h}, o \in Owner : WritesWallet(g, o)' <=> WritesWallet(g, o)
      BY <2>4 DEF WritesWallet
    <3>2. \A o \in Owner : WritesWallet(h, o)' => o = req[h].owner
      BY <2>4 DEF WritesWallet
    <3>3. \A g \in Handler \ {h} : ~ WritesWallet(g, req[h].owner)
      BY <2>1 DEF WalletFree
    <3>4. WalletExclusive'
      BY <3>1, <3>2, <3>3 DEF IInv, WalletOK, WalletExclusive
    <3>5. \A g \in Handler : Inserting(g)' => req'[g].owner \notin wallets
      BY <2>1, <2>3, <2>4 DEF IInv, WalletOK, Inserting
    <3>6. QED
      BY <2>1, <3>4, <3>5 DEF IInv, WalletOK, rows
  <2>9. RowInv'
    BY <2>1, SessionOnly DEF outbox
  <2>10. QED
    BY <2>5, <2>6, <2>7, <2>8, <2>9 DEF IInv, RowInv
<1>3. QED
  BY <1>1, <1>2


-----------------------------------------------------------------------------
(* Statements that commit rows.                                            *)

\* What the sessions of the other handlers know stays true when a handler
\* commits: bookings and charges are not forgotten, and a booking leaves
\* CANCELLED only together with its credit.
LEMMA OtherHandlers ==
  ASSUME IInv, NEW h \in Handler,
         \A g \in Handler \ {h} : pc'[g] = pc[g] /\ req'[g] = req[g],
         UNCHANGED charged,
         \A b \in Booking : status[b] # "NONE" => status'[b] # "NONE",
         \A b \in Booking : Credited(b) => Credited(b)',
         \A b \in Booking : status[b] = "CANCELLED" =>
           \/ status'[b] = "CANCELLED"
           \/ Credited(b)'
           \/ OwnerOf[b] = None
  PROVE  \A g \in Handler \ {h} : RequestOK!(g)' /\ SnapshotOK!(g)'
<1> TAKE g \in Handler \ {h}
<1>1. RequestOK!(g) /\ SnapshotOK!(g) /\ pc'[g] = pc[g] /\ req'[g] = req[g]
  BY DEF IInv, RequestOK, SnapshotOK
<1>2. RequestOK!(g)'
  BY <1>1 DEF Settling, Crediting
<1>3. SnapshotOK!(g)'
  BY <1>1 DEF ForBooking
<1>4. QED
  BY <1>2, <1>3

\* Without a new ledger row or wallet row, the wallets stay as consistent as
\* they were.
LEMMA WalletsKept ==
  ASSUME IInv, NEW h \in Handler,
         \A g \in Handler \ {h} : pc'[g] = pc[g] /\ req'[g] = req[g],
         pc'[h] \in {"idle", "insert_payment", "mail_cancel", "respond"},
         UNCHANGED <<wallets, balance, ledger>>
  PROVE  WalletOK' /\ BalanceIsLastAfter'
<1>1. BalanceIsLastAfter'
  BY DEF IInv, BalanceIsLastAfter
<1>2. \A g \in Handler, o \in Owner : WritesWallet(g, o)' => WritesWallet(g, o)
  BY DEF WritesWallet
<1>3. WalletExclusive'
  BY <1>2 DEF IInv, WalletOK, WalletExclusive
<1>4. \A g \in Handler : Inserting(g)' => Inserting(g) /\ req'[g] = req[g]
  BY DEF Inserting
<1>5. QED
  BY <1>1, <1>3, <1>4 DEF IInv, WalletOK

\* A new booking disturbs nothing: nobody has paid for it or been credited.
LEMMA InsertBookingStep ==
  ASSUME IInv, NEW h \in Handler, InsertBooking(h)
  PROVE  IInv'
<1> DEFINE b == req[h].booking
<1>1. /\ b \in Booking
      /\ status[b] = "NONE"
      /\ payment[b] = "NONE"
      /\ b \notin charged
      /\ \A g \in Handler \ {h} : pc[g] = "insert_booking" => req[g].booking # b
  BY DEF IInv, RequestOK, ForBooking, InsertsOK, RowsOK, InsertBooking
<1>2. /\ status' = [status EXCEPT ![b] = "PENDING_PAYMENT"]
      /\ status'[b] = "PENDING_PAYMENT"
      /\ \A c \in Booking \ {b} : status'[c] = status[c]
      /\ pc'[h] = "insert_payment"
      /\ \A g \in Handler : req'[g] = req[g]
      /\ \A g \in Handler \ {h} : pc'[g] = pc[g]
      /\ UNCHANGED <<payment, wallets, balance, ledger, audit,
                     aged, charged, events, acked, mailed, req, crashes>>
  BY <1>1 DEF InsertBooking, Goto, IInv, TypeOK, paystack, outbox
<1>3. TypeOK'
  BY <1>1, <1>2 DEF InsertBooking, Goto, IInv, TypeOK, BookingStatus, Steps
<1>4. \A g \in Handler \ {h} : RequestOK!(g)' /\ SnapshotOK!(g)'
  BY <1>1, <1>2, OtherHandlers DEF Credited
<1>5. RequestOK!(h)' /\ SnapshotOK!(h)'
  BY <1>1, <1>2 DEF ForBooking, Settling, Crediting
<1>6. RequestOK' /\ SnapshotOK'
  BY <1>4, <1>5 DEF RequestOK, SnapshotOK
<1>7. InsertsOK'
  BY <1>1, <1>2 DEF IInv, TypeOK, Request, InsertsOK
<1>8. WalletOK' /\ BalanceIsLastAfter'
  BY <1>2, WalletsKept
<1>9. RowsOK' /\ ConfirmedIsCredited' /\ NoCreditForgotten' /\ NoticeIsPaid'
  BY <1>1, <1>2 DEF IInv, RowsOK, ConfirmedIsCredited, NoCreditForgotten, NoticeIsPaid,
                   Credited
<1>10. CreditsAreEarned'
  BY <1>1, <1>2 DEF IInv, TypeOK, CreditsAreEarned, CreditRows
<1>11. QED
  BY <1>3, <1>6, <1>7, <1>8, <1>9, <1>10 DEF IInv

\* A new payment row belongs to an inserted booking that nobody was charged for.
LEMMA InsertPaymentStep ==
  ASSUME IInv, NEW h \in Handler, InsertPayment(h)
  PROVE  IInv'
<1> DEFINE b == req[h].booking
<1>1. b \in Booking /\ status[b] # "NONE"
  BY DEF IInv, RequestOK, ForBooking, InsertsOK, InsertPayment
<1>2. /\ payment' = [payment EXCEPT ![b] = "PENDING"]
      /\ payment'[b] = "PENDING"
      /\ \A c \in Booking \ {b} : payment'[c] = payment[c]
      /\ pc'[h] = "idle"
      /\ pc' \in [Handler -> Steps]
      /\ req' \in [Handler -> Request]
      /\ \A g \in Handler \ {h} : pc'[g] = pc[g] /\ req'[g] = req[g]
      /\ UNCHANGED <<status, wallets, balance, ledger, audit,
                     aged, charged, events, acked, mailed, crashes>>
  BY <1>1, NoRequestType DEF InsertPayment, Finish, IInv, TypeOK, Steps, paystack, outbox
<1>3. TypeOK'
  BY <1>1, <1>2 DEF IInv, TypeOK, PaymentStatus
<1>4. \A g \in Handler \ {h} : RequestOK!(g)' /\ SnapshotOK!(g)'
  BY <1>1, <1>2, OtherHandlers DEF Credited
<1>5. RequestOK!(h)' /\ SnapshotOK!(h)'
  BY <1>1, <1>2 DEF ForBooking, Settling, Crediting
<1>6. RequestOK' /\ SnapshotOK'
  BY <1>4, <1>5 DEF RequestOK, SnapshotOK
<1>7. InsertsOK'
  BY <1>1, <1>2 DEF IInv, InsertsOK
<1>8. WalletOK' /\ BalanceIsLastAfter'
  BY <1>2, WalletsKept
<1>9. RowsOK' /\ ConfirmedIsCredited' /\ NoCreditForgotten' /\ NoticeIsPaid'
  BY <1>1, <1>2 DEF IInv, RowsOK, ConfirmedIsCredited, NoCreditForgotten, NoticeIsPaid,
                   Credited
<1>10. CreditsAreEarned'
  BY <1>1, <1>2 DEF IInv, CreditsAreEarned
<1>11. QED
  BY <1>3, <1>6, <1>7, <1>8, <1>9, <1>10 DEF IInv

\* Recording a failed attempt takes no credit back.
LEMMA CommitFailedStep ==
  ASSUME IInv, NEW h \in Handler, CommitFailed(h)
  PROVE  IInv'
<1> DEFINE b == req[h].booking
<1>1. b \in Booking /\ status[b] # "NONE"
  BY DEF IInv, RequestOK, ForBooking, InsertsOK, CommitFailed
<1>2. /\ payment' \in [Booking -> PaymentStatus]
      /\ payment'[b] # "NONE" \/ payment'[b] = payment[b]
      /\ payment'[b] # "SUCCESS" \/ payment'[b] = payment[b]
      /\ \A c \in Booking \ {b} : payment'[c] = payment[c]
      /\ pc'[h] = "idle"
      /\ pc' \in [Handler -> Steps]
      /\ req' \in [Handler -> Request]
      /\ acked' \subseteq Booking \X Kinds
      /\ \A g \in Handler \ {h} : pc'[g] = pc[g] /\ req'[g] = req[g]
      /\ UNCHANGED <<status, wallets, balance, ledger, audit,
                     aged, charged, events, mailed, crashes>>
  BY <1>1, NoRequestType DEF CommitFailed, Finish, IInv, TypeOK, Steps, paystack,
                            PaymentStatus, Kinds
<1>3. TypeOK'
  BY <1>1, <1>2 DEF IInv, TypeOK
<1>4. \A g \in Handler \ {h} : RequestOK!(g)' /\ SnapshotOK!(g)'
  BY <1>1, <1>2, OtherHandlers DEF Credited
<1>5. RequestOK!(h)' /\ SnapshotOK!(h)'
  BY <1>1, <1>2 DEF ForBooking, Settling, Crediting
<1>6. RequestOK' /\ SnapshotOK'
  BY <1>4, <1>5 DEF RequestOK, SnapshotOK
<1>7. InsertsOK'
  BY <1>1, <1>2 DEF IInv, InsertsOK
<1>8. WalletOK' /\ BalanceIsLastAfter'
  BY <1>2, WalletsKept
<1>9. RowsOK' /\ ConfirmedIsCredited' /\ NoCreditForgotten' /\ NoticeIsPaid'
  BY <1>1, <1>2 DEF IInv, RowsOK, ConfirmedIsCredited, NoCreditForgotten, NoticeIsPaid,
                   Credited
<1>10. CreditsAreEarned'
  BY <1>1, <1>2 DEF IInv, CreditsAreEarned
<1>11. QED
  BY <1>3, <1>6, <1>7, <1>8, <1>9, <1>10 DEF IInv

\* A cancellation may overwrite any status but takes no credit back.
LEMMA CommitCancelStep ==
  ASSUME IInv, NEW h \in Handler, NEW by \in {"guest", "account"}, CommitCancel(h, by)
  PROVE  IInv'
<1> DEFINE b == req[h].booking
<1>1. b \in Booking /\ status[b] # "NONE"
  BY DEF IInv, RequestOK, ForBooking, InsertsOK, CommitCancel
<1>2. /\ status' \in [Booking -> BookingStatus]
      /\ status'[b] = "CANCELLED" \/ status'[b] = status[b]
      /\ \A c \in Booking \ {b} : status'[c] = status[c]
      /\ audit' \subseteq Booking
      /\ pc'[h] = "mail_cancel"
      /\ pc' \in [Handler -> Steps]
      /\ \A g \in Handler : req'[g] = req[g]
      /\ \A g \in Handler \ {h} : pc'[g] = pc[g]
      /\ UNCHANGED <<payment, wallets, balance, ledger,
                     aged, charged, events, acked, mailed, req, crashes>>
  BY <1>1 DEF CommitCancel, Goto, IInv, TypeOK, Steps, paystack, outbox, BookingStatus
<1>3. TypeOK'
  BY <1>1, <1>2 DEF IInv, TypeOK
<1>4. \A g \in Handler \ {h} : RequestOK!(g)' /\ SnapshotOK!(g)'
  BY <1>1, <1>2, OtherHandlers DEF Credited
<1>5. RequestOK!(h)' /\ SnapshotOK!(h)'
  BY <1>1, <1>2 DEF ForBooking, Settling, Crediting
<1>6. RequestOK' /\ SnapshotOK'
  BY <1>4, <1>5 DEF RequestOK, SnapshotOK
<1>7. InsertsOK'
  <2> SUFFICES ASSUME NEW g \in Handler PROVE InsertsOK!(g)'
    BY DEF InsertsOK
  <2>1. InsertsOK!(g) /\ (pc[g] \in ForBooking => req[g].booking \in Booking)
    BY DEF IInv, InsertsOK, RequestOK
  <2>2. req[g].batch \subseteq Booking /\ \A c \in Booking : status[c] # "NONE" => status'[c] # "NONE"
    BY <1>1, <1>2 DEF IInv, TypeOK, Request
  <2>3. QED
    BY <1>1, <1>2, <2>1, <2>2 DEF ForBooking
<1>8. WalletOK' /\ BalanceIsLastAfter'
  BY <1>2, WalletsKept
<1>9. RowsOK' /\ ConfirmedIsCredited' /\ NoCreditForgotten' /\ NoticeIsPaid'
  BY <1>1, <1>2 DEF IInv, RowsOK, ConfirmedIsCredited, NoCreditForgotten, NoticeIsPaid,
                   Credited
<1>10. CreditsAreEarned'
  BY <1>1, <1>2 DEF IInv, TypeOK, CreditsAreEarned, CreditRows
<1>11. QED
  BY <1>3, <1>6, <1>7, <1>8, <1>9, <1>10 DEF IInv

\* Neither does a sweep.
LEMMA CommitExpiredStep ==
  ASSUME IInv, NEW h \in Handler, CommitExpired(h)
  PROVE  IInv'
<1> DEFINE batch == req[h].batch
<1>1. batch \subseteq Booking /\ \A b \in batch : status[b] # "NONE"
  BY DEF IInv, TypeOK, Request, InsertsOK, CommitExpired
<1>2. /\ status' \in [Booking -> BookingStatus]
      /\ \A b \in batch : status'[b] = "CANCELLED"
      /\ \A c \in Booking \ batch : status'[c] = status[c]
      /\ pc'[h] = "idle"
      /\ pc' \in [Handler -> Steps]
      /\ req' \in [Handler -> Request]
      /\ \A g \in Handler \ {h} : pc'[g] = pc[g] /\ req'[g] = req[g]
      /\ UNCHANGED <<payment, wallets, balance, ledger, audit,
                     aged, charged, events, acked, mailed, crashes>>
  BY <1>1, NoRequestType DEF CommitExpired, Finish, IInv, TypeOK, Steps, paystack, outbox,
                            BookingStatus
<1>3. TypeOK'
  BY <1>1, <1>2 DEF IInv, TypeOK
<1>4. \A g \in Handler \ {h} : RequestOK!(g)' /\ SnapshotOK!(g)'
  BY <1>1, <1>2, OtherHandlers DEF Credited
<1>5. RequestOK!(h)' /\ SnapshotOK!(h)'
  BY <1>1, <1>2 DEF ForBooking, Settling, Crediting
<1>6. RequestOK' /\ SnapshotOK'
  BY <1>4, <1>5 DEF RequestOK, SnapshotOK
<1>7. InsertsOK'
  <2> SUFFICES ASSUME NEW g \in Handler PROVE InsertsOK!(g)'
    BY DEF InsertsOK
  <2>1. InsertsOK!(g) /\ (pc[g] \in ForBooking => req[g].booking \in Booking)
    BY DEF IInv, InsertsOK, RequestOK
  <2>2. req[g].batch \subseteq Booking /\ \A c \in Booking : status[c] # "NONE" => status'[c] # "NONE"
    BY <1>1, <1>2 DEF IInv, TypeOK, Request
  <2>3. QED
    BY <1>1, <1>2, <2>1, <2>2 DEF ForBooking
<1>8. WalletOK' /\ BalanceIsLastAfter'
  BY <1>2, WalletsKept
<1>9. RowsOK' /\ ConfirmedIsCredited' /\ NoCreditForgotten' /\ NoticeIsPaid'
  BY <1>1, <1>2 DEF IInv, RowsOK, ConfirmedIsCredited, NoCreditForgotten, NoticeIsPaid,
                   Credited
<1>10. CreditsAreEarned'
  BY <1>1, <1>2 DEF IInv, TypeOK, CreditsAreEarned, CreditRows
<1>11. QED
  BY <1>3, <1>6, <1>7, <1>8, <1>9, <1>10 DEF IInv

\* The empty wallet row is committed before any credit to its owner.
LEMMA CommitWalletStep ==
  ASSUME IInv, NEW h \in Handler, CommitWallet(h)
  PROVE  IInv'
<1> DEFINE o == req[h].owner
<1>1. /\ o \in Owner
      /\ o \notin wallets
      /\ WritesWallet(h, o)
      /\ \A i \in 1..Len(ledger) : ledger[i].owner # o
  BY DEF IInv, RequestOK, WalletOK, Inserting, CommitWallet, WritesWallet
<1>2. /\ wallets' = wallets \cup {o}
      /\ balance' \in [Owner -> 0..IntMax]
      /\ balance'[o] = 0
      /\ \A p \in Owner \ {o} : balance'[p] = balance[p]
      /\ pc'[h] = "idle"
      /\ pc' \in [Handler -> Steps]
      /\ req' \in [Handler -> Request]
      /\ \A g \in Handler \ {h} : pc'[g] = pc[g] /\ req'[g] = req[g]
      /\ UNCHANGED <<status, payment, ledger, audit,
                     aged, charged, events, acked, mailed, crashes>>
  BY <1>1, NoRequestType, StaysAssumption
     DEF CommitWallet, Finish, IInv, TypeOK, Steps, paystack, outbox
<1>3. TypeOK'
  BY <1>1, <1>2 DEF IInv, TypeOK
<1>4. \A g \in Handler \ {h} : RequestOK!(g)' /\ SnapshotOK!(g)'
  BY <1>1, <1>2, OtherHandlers DEF Credited
<1>5. RequestOK!(h)' /\ SnapshotOK!(h)'
  BY <1>1, <1>2 DEF ForBooking, Settling, Crediting
<1>6. RequestOK' /\ SnapshotOK'
  BY <1>4, <1>5 DEF RequestOK, SnapshotOK
<1>7. InsertsOK'
  BY <1>1, <1>2 DEF IInv, InsertsOK
<1>8. WalletOK'
  <2>1. \A g \in Handler, p \in Owner : WritesWallet(g, p)' => WritesWallet(g, p)
    BY <1>2 DEF WritesWallet
  <2>2. WalletExclusive'
    BY <2>1 DEF IInv, WalletOK, WalletExclusive
  <2>3. \A g \in Handler : Inserting(g)' => /\ g # h
                                           /\ Inserting(g)
                                           /\ req'[g].owner = req[g].owner
                                           /\ WritesWallet(g, req[g].owner)
    BY <1>2 DEF Inserting, WritesWallet
  <2>4. \A g \in Handler : Inserting(g)' => req'[g].owner \notin wallets'
    BY <1>1, <1>2, <2>3 DEF IInv, WalletOK, WalletExclusive
  <2>5. QED
    BY <1>2, <2>2, <2>4 DEF IInv, WalletOK
<1>9. RowsOK' /\ ConfirmedIsCredited' /\ NoCreditForgotten' /\ NoticeIsPaid'
  BY <1>1, <1>2 DEF IInv, RowsOK, ConfirmedIsCredited, NoCreditForgotten, NoticeIsPaid,
                   Credited
<1>10. CreditsAreEarned'
  BY <1>1, <1>2 DEF IInv, CreditsAreEarned
<1>11. BalanceIsLastAfter'
  BY <1>1, <1>2 DEF IInv, BalanceIsLastAfter
<1>12. QED
  BY <1>3, <1>6, <1>7, <1>8, <1>9, <1>10, <1>11 DEF IInv

\* The commit of a settlement that credits nobody: the owner is unknown, or
\* the session saw the booking settled or cancelled already.
LEMMA CommitUncreditedStep ==
  ASSUME IInv, NEW h \in Handler, CommitSettlement(h), req[h].owner = None
  PROVE  IInv'
<1> DEFINE b == req[h].booking
<1>1. /\ b \in Booking
      /\ b \in charged
      /\ status[b] # "NONE"
      /\ req[h].st # "PENDING_PAYMENT" \/ OwnerOf[b] = None
      /\ OwnerOf[b] # None => Credited(b) \/ status[b] = "CANCELLED"
  <2>1. /\ b \in Booking
        /\ b \in charged
        /\ req[h].st # "PENDING_PAYMENT" \/ OwnerOf[b] = None
        /\ req[h] \in Request
    BY DEF IInv, TypeOK, RequestOK, ForBooking, Settling, CommitSettlement
  <2>2. status[b] # "NONE"
    BY <2>1 DEF IInv, RowsOK
  <2>3. SnapshotOK!(h)
    BY DEF IInv, SnapshotOK
  <2>4. OwnerOf[b] # None => req[h].st \in {"CONFIRMED", "CANCELLED"}
    BY <2>1, <2>3 DEF CommitSettlement, Request, BookingStatus
  <2>5. QED
    BY <2>1, <2>2, <2>3, <2>4 DEF CommitSettlement
<1>2. /\ payment' = [payment EXCEPT ![b] = "SUCCESS"]
      /\ payment'[b] = "SUCCESS"
      /\ \A c \in Booking \ {b} : payment'[c] = payment[c]
      /\ status' \in [Booking -> BookingStatus]
      /\ status'[b] = status[b] \/ (status'[b] = "CONFIRMED" /\ OwnerOf[b] = None)
      /\ \A c \in Booking \ {b} : status'[c] = status[c]
      /\ pc'[h] = "respond"
      /\ pc' \in [Handler -> Steps]
      /\ \A g \in Handler : req'[g] = req[g]
      /\ \A g \in Handler \ {h} : pc'[g] = pc[g]
      /\ UNCHANGED <<wallets, balance, ledger, audit,
                     aged, charged, events, acked, mailed, req, crashes>>
  BY <1>1 DEF CommitSettlement, Confirms, Goto, IInv, TypeOK, Steps, paystack, outbox,
             BookingStatus
<1>3. TypeOK'
  BY <1>1, <1>2 DEF IInv, TypeOK, PaymentStatus
<1>4. \A g \in Handler \ {h} : RequestOK!(g)' /\ SnapshotOK!(g)'
  BY <1>1, <1>2, OtherHandlers DEF Credited
<1>5. RequestOK!(h)' /\ SnapshotOK!(h)'
  BY <1>1, <1>2 DEF ForBooking, Settling, Crediting
<1>6. RequestOK' /\ SnapshotOK'
  BY <1>4, <1>5 DEF RequestOK, SnapshotOK
<1>7. InsertsOK'
  <2> SUFFICES ASSUME NEW g \in Handler PROVE InsertsOK!(g)'
    BY DEF InsertsOK
  <2>1. InsertsOK!(g) /\ (pc[g] \in ForBooking => req[g].booking \in Booking)
    BY DEF IInv, InsertsOK, RequestOK
  <2>2. req[g].batch \subseteq Booking /\ \A c \in Booking : status[c] # "NONE" => status'[c] # "NONE"
    BY <1>1, <1>2 DEF IInv, TypeOK, Request
  <2>3. QED
    BY <1>1, <1>2, <2>1, <2>2 DEF ForBooking
<1>8. WalletOK' /\ BalanceIsLastAfter'
  BY <1>2, WalletsKept
<1>9. RowsOK' /\ ConfirmedIsCredited' /\ NoCreditForgotten' /\ NoticeIsPaid'
  BY <1>1, <1>2 DEF IInv, RowsOK, ConfirmedIsCredited, NoCreditForgotten, NoticeIsPaid,
                   Credited
<1>10. CreditsAreEarned'
  <2> SUFFICES ASSUME NEW i \in 1..Len(ledger') PROVE CreditsAreEarned!(i)'
    BY DEF CreditsAreEarned
  <2>1. ledger[i] \in CreditRows
    BY <1>2 DEF IInv, TypeOK
  <2>2. CreditsAreEarned!(i) /\ ledger[i].booking \in Booking
    BY <1>2, <2>1 DEF IInv, CreditsAreEarned, CreditRows
  <2>3. QED
    BY <1>2, <2>2
<1>11. QED
  BY <1>3, <1>6, <1>7, <1>8, <1>9, <1>10 DEF IInv

\* The commit of a settlement that credits the owner of the listing.
LEMMA CommitCreditStep ==
  ASSUME IInv, NEW h \in Handler, CommitSettlement(h), req[h].owner # None
  PROVE  IInv'
<1> DEFINE b == req[h].booking
           o == req[h].owner
           row == CreditRow(b, req[h].bal)
<1>1. /\ b \in Booking
      /\ b \in charged
      /\ status[b] # "NONE"
      /\ o = OwnerOf[b]
      /\ o \in Owner
      /\ req[h].st = "PENDING_PAYMENT"
      /\ req[h].bal \in 0..IntMax
      /\ WritesWallet(h, o)
  <2>1. /\ RequestOK!(h)
        /\ pc[h] = "commit_settle"
        /\ req[h] \in Request
    BY DEF IInv, TypeOK, RequestOK, CommitSettlement
  <2>2. /\ b \in Booking
        /\ b \in charged
        /\ o = OwnerOf[b]
        /\ o \in Owner
        /\ req[h].st = "PENDING_PAYMENT"
        /\ WritesWallet(h, o)
    BY <2>1 DEF ForBooking, Settling, Crediting, Request, WritesWallet
  <2>3. req[h].bal \in 0..IntMax
    BY <2>1, StaysAssumption DEF Request
  <2>4. status[b] # "NONE"
    BY <2>2 DEF IInv, RowsOK
  <2>5. QED
    BY <2>2, <2>3, <2>4
<1>2. /\ payment' = [payment EXCEPT ![b] = "SUCCESS"]
      /\ payment'[b] = "SUCCESS"
      /\ \A c \in Booking \ {b} : payment'[c] = payment[c]
      /\ status' \in [Booking -> BookingStatus]
      /\ status'[b] = "CONFIRMED"
      /\ \A c \in Booking \ {b} : status'[c] = status[c]
      /\ wallets' = wallets \cup {o}
      /\ balance' \in [Owner -> 0..IntMax]
      /\ balance'[o] = req[h].bal
      /\ \A p \in Owner \ {o} : balance'[p] = balance[p]
      /\ pc'[h] = "respond"
      /\ pc' \in [Handler -> Steps]
      /\ \A g \in Handler : req'[g] = req[g]
      /\ \A g \in Handler \ {h} : pc'[g] = pc[g]
      /\ UNCHANGED <<audit, aged, charged, events, acked, mailed, req, crashes>>
  <2>1. /\ wallets' = wallets \cup {o}
        /\ balance' = [balance EXCEPT ![o] = req[h].bal]
        /\ payment' = [payment EXCEPT ![b] = "SUCCESS"]
        /\ status' = [status EXCEPT ![b] = "CONFIRMED"]
        /\ Goto(h, "respond")
        /\ UNCHANGED <<audit, aged, charged, events, acked, mailed, crashes>>
    BY <1>1 DEF CommitSettlement, Confirms, WrittenBalance, paystack, outbox
  <2>2. QED
    BY <1>1, <2>1 DEF Goto, IInv, TypeOK, Steps, BookingStatus
<1>3. /\ row \in CreditRows
      /\ row.booking = b /\ row.owner = o /\ row.amount = NetOf(b) /\ row.after = req[h].bal
      /\ ledger \in Seq(CreditRows)
      /\ ledger' \in Seq(CreditRows)
      /\ Len(ledger) \in Nat
      /\ Len(ledger') = Len(ledger) + 1
      /\ \A i \in 1..Len(ledger) : ledger'[i] = ledger[i]
      /\ ledger'[Len(ledger) + 1] = row
  <2>1. row \in CreditRows /\ row.booking = b /\ row.owner = o /\ row.amount = NetOf(b)
        /\ row.after = req[h].bal
    BY <1>1, NetType DEF CreditRow, CreditRows, IInv, TypeOK, Request
  <2>2. ledger' = Append(ledger, row) /\ ledger \in Seq(CreditRows)
    BY DEF CommitSettlement, IInv, TypeOK
  <2> HIDE DEF row
  <2>3. QED
    BY <2>1, <2>2
<1> HIDE DEF row
<1>4. \A c \in Booking : Credited(c) => Credited(c)'
  BY <1>3 DEF Credited
<1>5. Credited(b)'
  <2>1. Len(ledger) + 1 \in 1..Len(ledger')
    BY <1>3
  <2>2. QED
    BY <1>2, <1>3, <2>1 DEF Credited
<1>6. TypeOK'
  BY <1>1, <1>2, <1>3 DEF IInv, TypeOK, PaymentStatus
<1>7. \A g \in Handler \ {h} : RequestOK!(g)' /\ SnapshotOK!(g)'
  <2>1. \A c \in Booking : status[c] = "CANCELLED" => status'[c] = "CANCELLED" \/ Credited(c)'
    BY <1>2, <1>5
  <2>2. \A c \in Booking : status[c] # "NONE" => status'[c] # "NONE"
    BY <1>2
  <2>3. QED
    BY <1>2, <1>4, <2>1, <2>2, OtherHandlers
<1>8. RequestOK!(h)' /\ SnapshotOK!(h)'
  BY <1>1, <1>2 DEF ForBooking, Settling, Crediting
<1>9. RequestOK' /\ SnapshotOK'
  BY <1>7, <1>8 DEF RequestOK, SnapshotOK
<1>10. InsertsOK'
  <2> SUFFICES ASSUME NEW g \in Handler PROVE InsertsOK!(g)'
    BY DEF InsertsOK
  <2>1. InsertsOK!(g) /\ (pc[g] \in ForBooking => req[g].booking \in Booking)
    BY DEF IInv, InsertsOK, RequestOK
  <2>2. req[g].batch \subseteq Booking /\ \A c \in Booking : status[c] # "NONE" => status'[c] # "NONE"
    BY <1>1, <1>2 DEF IInv, TypeOK, Request
  <2>3. QED
    BY <1>1, <1>2, <2>1, <2>2 DEF ForBooking
<1>11. WalletOK'
  <2>1. \A g \in Handler, p \in Owner : WritesWallet(g, p)' => WritesWallet(g, p)
    BY <1>2 DEF WritesWallet
  <2>2. WalletExclusive'
    BY <2>1 DEF IInv, WalletOK, WalletExclusive
  <2>3. \A g \in Handler : Inserting(g)' => /\ g # h
                                           /\ Inserting(g)
                                           /\ req'[g].owner = req[g].owner
                                           /\ WritesWallet(g, req[g].owner)
    BY <1>2 DEF Inserting, WritesWallet
  <2>4. \A g \in Handler : Inserting(g)' => req'[g].owner \notin wallets'
    BY <1>1, <1>2, <2>3 DEF IInv, WalletOK, WalletExclusive
  <2>5. \A i \in 1..Len(ledger') : ledger'[i].owner \in wallets'
    BY <1>2, <1>3 DEF IInv, WalletOK
  <2>6. QED
    BY <2>2, <2>4, <2>5 DEF WalletOK
<1>12. RowsOK' /\ ConfirmedIsCredited' /\ NoCreditForgotten' /\ NoticeIsPaid'
  BY <1>1, <1>2, <1>4, <1>5 DEF IInv, RowsOK, ConfirmedIsCredited, NoCreditForgotten,
                               NoticeIsPaid
<1>13. CreditsAreEarned'
  <2> SUFFICES ASSUME NEW i \in 1..Len(ledger') PROVE CreditsAreEarned!(i)'
    BY DEF CreditsAreEarned
  <2>1. CASE i = Len(ledger) + 1
    BY <1>1, <1>2, <1>3, <2>1
  <2>2. CASE i \in 1..Len(ledger)
    <3>1. ledger[i] \in CreditRows /\ ledger'[i] = ledger[i]
      BY <1>3, <2>2
    <3>2. CreditsAreEarned!(i) /\ ledger[i].booking \in Booking
      BY <2>2, <3>1 DEF IInv, CreditsAreEarned, CreditRows
    <3>3. QED
      BY <1>2, <3>1, <3>2
  <2>3. QED
    BY <1>3, <2>1, <2>2
<1>14. BalanceIsLastAfter'
  <2> SUFFICES ASSUME NEW p \in Owner PROVE BalanceIsLastAfter!(p)'
    BY DEF BalanceIsLastAfter
  <2>1. CASE p = o
    <3>1. \A k \in (Len(ledger) + 2)..Len(ledger') : FALSE
      BY <1>3
    <3>2. Len(ledger) + 1 \in 1..Len(ledger')
      BY <1>3
    <3>3. QED
      BY <1>2, <1>3, <2>1, <3>1, <3>2
  <2>2. CASE p # o
    <3>1. BalanceIsLastAfter!(p) /\ balance'[p] = balance[p]
      BY <1>2, <2>2 DEF IInv, BalanceIsLastAfter
    <3>2. QED
      BY <1>3, <2>2, <3>1
  <2>3. QED
    BY <2>1, <2>2
<1>15. QED
  BY <1>6, <1>9, <1>10, <1>11, <1>12, <1>13, <1>14 DEF IInv

-----------------------------------------------------------------------------
(* Notices, acknowledgements and the world outside.                        *)

\* The answer to a success event queues a notice about a charged booking.
LEMMA RespondStep ==
  ASSUME IInv, NEW h \in Handler, Respond(h)
  PROVE  IInv'
<1> DEFINE b == req[h].booking
<1>1. b \in Booking /\ b \in charged
  BY DEF IInv, RequestOK, ForBooking, Settling, Respond
<1>2. TypeOK'
  BY <1>1, NoRequestType DEF IInv, TypeOK, Respond, Finish, Steps, rows, paystack, outbox,
                             Templates, Kinds
<1>3. RequestOK'
  BY DEF IInv, TypeOK, Respond, Finish, rows, paystack, RequestOK, ForBooking, Settling,
         Crediting
<1>4. InsertsOK' /\ SnapshotOK'
  BY DEF IInv, TypeOK, Respond, Finish, rows, InsertsOK, SnapshotOK, Credited
<1>5. WalletOK'
  BY DEF IInv, TypeOK, Respond, Finish, rows, WalletOK, WalletExclusive, Inserting,
         WritesWallet
<1>6. RowsOK' /\ ConfirmedIsCredited' /\ CreditsAreEarned' /\ BalanceIsLastAfter'
      /\ NoCreditForgotten'
  BY DEF IInv, Respond, rows, paystack, RowsOK, ConfirmedIsCredited, CreditsAreEarned,
         BalanceIsLastAfter, NoCreditForgotten, Credited
<1>7. NoticeIsPaid'
  BY <1>1 DEF IInv, Respond, paystack, NoticeIsPaid
<1>8. QED
  BY <1>2, <1>3, <1>4, <1>5, <1>6, <1>7 DEF IInv

\* The cancellation notice is not a confirmation.
LEMMA MailCancelStep ==
  ASSUME IInv, NEW h \in Handler, MailCancel(h)
  PROVE  IInv'
<1> DEFINE b == req[h].booking
<1>1. b \in Booking
  BY DEF IInv, RequestOK, ForBooking, MailCancel
<1>2. TypeOK'
  BY <1>1, NoRequestType DEF IInv, TypeOK, MailCancel, Finish, Steps, rows, paystack, Templates
<1>3. RequestOK'
  BY DEF IInv, TypeOK, MailCancel, Finish, rows, paystack, RequestOK, ForBooking, Settling,
         Crediting
<1>4. InsertsOK' /\ SnapshotOK'
  BY DEF IInv, TypeOK, MailCancel, Finish, rows, InsertsOK, SnapshotOK, Credited
<1>5. WalletOK'
  BY DEF IInv, TypeOK, MailCancel, Finish, rows, WalletOK, WalletExclusive, Inserting,
         WritesWallet
<1>6. RowsOK' /\ ConfirmedIsCredited' /\ CreditsAreEarned' /\ BalanceIsLastAfter'
      /\ NoCreditForgotten'
  BY DEF IInv, MailCancel, rows, paystack, RowsOK, ConfirmedIsCredited, CreditsAreEarned,
         BalanceIsLastAfter, NoCreditForgotten, Credited
<1>7. NoticeIsPaid'
  BY DEF IInv, MailCancel, paystack, NoticeIsPaid
<1>8. QED
  BY <1>2, <1>3, <1>4, <1>5, <1>6, <1>7 DEF IInv

\* Steps that touch neither the sessions nor the booking and wallet rows.
LEMMA OutsideStep ==
  ASSUME IInv, UNCHANGED <<rows, handlers, mailed>>,
         aged' \subseteq Booking, charged' \subseteq Booking,
         events' \subseteq Booking \X Kinds, acked' \subseteq Booking \X Kinds,
         crashes' = crashes, charged \subseteq charged', RowsOK'
  PROVE  IInv'
<1>1. TypeOK'
  BY DEF IInv, TypeOK, rows, handlers
<1>2. RequestOK'
  BY DEF IInv, RequestOK, handlers, Settling, Crediting
<1>3. InsertsOK' /\ SnapshotOK'
  BY DEF IInv, rows, handlers, InsertsOK, SnapshotOK, Credited
<1>4. WalletOK'
  BY DEF IInv, rows, handlers, WalletOK, WalletExclusive, Inserting, WritesWallet
<1>5. ConfirmedIsCredited' /\ BalanceIsLastAfter' /\ NoCreditForgotten' /\ NoticeIsPaid'
  BY DEF IInv, rows, ConfirmedIsCredited, BalanceIsLastAfter, NoCreditForgotten,
         NoticeIsPaid, Credited
<1>6. CreditsAreEarned'
  BY DEF IInv, rows, CreditsAreEarned
<1>7. QED
  BY <1>1, <1>2, <1>3, <1>4, <1>5, <1>6 DEF IInv

\* A failed event about a settled payment is only acknowledged.
LEMMA IgnoreFailedStep ==
  ASSUME IInv, NEW h \in Handler, NEW b \in Booking, IgnoreFailed(h, b)
  PROVE  IInv'
<1>1. acked' \subseteq Booking \X Kinds
  BY DEF IInv, TypeOK, IgnoreFailed, Kinds
<1>2. RowsOK'
  BY DEF IInv, IgnoreFailed, rows, paystack, RowsOK
<1>3. QED
  BY <1>1, <1>2, OutsideStep DEF IInv, TypeOK, IgnoreFailed, paystack

\* Charges and time only add to what is known.
LEMMA WorldStep ==
  ASSUME IInv, World
  PROVE  IInv'
<1>1. PICK b \in Booking : GuestPays(b) \/ AttemptDeclined(b) \/ Age(b)
  BY DEF World
<1>2. CASE GuestPays(b)
  <2>1. charged' \subseteq Booking /\ events' \subseteq Booking \X Kinds
    BY <1>2 DEF IInv, TypeOK, GuestPays, Kinds
  <2>2. RowsOK'
    BY <1>2 DEF IInv, GuestPays, rows, RowsOK
  <2>3. QED
    BY <1>2, <2>1, <2>2, OutsideStep DEF IInv, TypeOK, GuestPays, outbox
<1>3. CASE AttemptDeclined(b)
  <2>1. events' \subseteq Booking \X Kinds
    BY <1>3 DEF IInv, TypeOK, AttemptDeclined, Kinds
  <2>2. RowsOK'
    BY <1>3 DEF IInv, AttemptDeclined, rows, RowsOK
  <2>3. QED
    BY <1>3, <2>1, <2>2, OutsideStep DEF IInv, TypeOK, AttemptDeclined, outbox
<1>4. CASE Age(b)
  <2>1. aged' \subseteq Booking /\ RowsOK'
    BY <1>4 DEF IInv, TypeOK, Age, rows, paystack, RowsOK
  <2>2. QED
    BY <1>4, <2>1, OutsideStep DEF IInv, TypeOK, Age, outbox, paystack
<1>5. QED
  BY <1>1, <1>2, <1>3, <1>4

-----------------------------------------------------------------------------
\* No request breaks the invariant by starting.
LEMMA StartsStep ==
  ASSUME IInv, NEW h \in Handler, Starts(h)
  PROVE  IInv'
BY CheckDatesStep, IgnoreFailedStep, ReceiveStep, ReadForCancelStep, ReadExpiredStep,
   LookAtWalletStep DEF Starts

\* No statement of a request in progress breaks it.
LEMMA ContinuesStep ==
  ASSUME IInv, NEW h \in Handler, Continues(h)
  PROVE  IInv'
<1>1. CASE InsertBooking(h)
  BY <1>1, InsertBookingStep
<1>2. CASE InsertPayment(h)
  BY <1>2, InsertPaymentStep
<1>3. CASE RefusePayment(h)
  BY <1>3, Rollback DEF RefusePayment, IInv, TypeOK
<1>4. CASE GetBooking(h)
  BY <1>4, GetBookingStep
<1>5. CASE FlushStatus(h)
  BY <1>5, FlushStatusStep
<1>6. CASE GetWallet(h)
  BY <1>6, GetWalletStep
<1>7. CASE InsertWallet(h)
  BY <1>7, InsertWalletStep
<1>8. CASE UpdateWallet(h)
  BY <1>8, UpdateWalletStep
<1>9. CASE CommitSettlement(h)
  BY <1>9, CommitUncreditedStep, CommitCreditStep
<1>10. CASE Respond(h)
  BY <1>10, RespondStep
<1>11. CASE FlushFailed(h)
  BY <1>11, FlushFailedStep
<1>12. CASE CommitFailed(h)
  BY <1>12, CommitFailedStep
<1>13. CASE FlushCancel(h)
  BY <1>13, FlushCancelStep
<1>14. CASE \E by \in {"guest", "account"} : CommitCancel(h, by)
  BY <1>14, CommitCancelStep
<1>15. CASE MailCancel(h)
  BY <1>15, MailCancelStep
<1>16. CASE FlushExpired(h)
  BY <1>16, FlushExpiredStep
<1>17. CASE CommitExpired(h)
  BY <1>17, CommitExpiredStep
<1>18. CASE CommitWallet(h)
  BY <1>18, CommitWalletStep
<1>19. QED
  BY <1>1, <1>2, <1>3, <1>4, <1>5, <1>6, <1>7, <1>8, <1>9, <1>10, <1>11, <1>12, <1>13,
     <1>14, <1>15, <1>16, <1>17, <1>18 DEF Continues

\* The invariant survives every step.
LEMMA NextIInv == IInv /\ [Next]_vars => IInv'
<1> SUFFICES ASSUME IInv, [Next]_vars PROVE IInv'
  OBVIOUS
<1>1. ASSUME NEW h \in Handler, Starts(h) PROVE IInv'
  BY <1>1, StartsStep
<1>2. ASSUME NEW h \in Handler, Continues(h) PROVE IInv'
  BY <1>2, ContinuesStep
<1>3. ASSUME NEW h \in Handler, Crash(h) PROVE IInv'
  <2>1. crashes' \in 0..MaxCrashes
    BY <1>3, HandlersAssumption DEF Crash, IInv, TypeOK
  <2>2. QED
    BY <1>3, <2>1, Rollback DEF Crash
<1>4. CASE World
  BY <1>4, WorldStep
<1>5. CASE UNCHANGED vars
  <2>1. RowsOK'
    BY <1>5 DEF IInv, vars, rows, paystack, RowsOK
  <2>2. QED
    BY <1>5, <2>1, OutsideStep DEF IInv, TypeOK, vars, paystack, outbox
<1>6. QED
  BY <1>1, <1>2, <1>3, <1>4, <1>5 DEF Next

-----------------------------------------------------------------------------
\* The inductive invariant holds in every reachable state.
THEOREM Invariant == Spec => []IInv
<1>1. QED
  BY InitIInv, NextIInv, PTL DEF Spec

\* Type correctness, for every number of bookings, owners, handlers, crashes.
THEOREM TypeCorrect == Spec => []TypeOK
<1>1. IInv => TypeOK
  BY DEF IInv
<1>2. QED
  BY <1>1, Invariant, PTL

\* Confirming a booking and crediting its owner are one transaction: whatever
\* the interleaving and wherever a worker dies, no confirmed booking is without
\* its credit, and none is confirmed without a charge.
THEOREM ConfirmationIsCredited == Spec => []ConfirmedIsCredited
<1>1. IInv => ConfirmedIsCredited
  BY DEF IInv
<1>2. QED
  BY <1>1, Invariant, PTL

\* Every ledger row stands for a charge, credits the owner of the listing, by
\* the net amount.
THEOREM LedgerIsEarned == Spec => []CreditsAreEarned
<1>1. IInv => CreditsAreEarned
  BY DEF IInv
<1>2. QED
  BY <1>1, Invariant, PTL

\* The wallet row and the owner's last ledger row never disagree.
THEOREM WalletShowsLedger == Spec => []BalanceIsLastAfter
<1>1. IInv => BalanceIsLastAfter
  BY DEF IInv
<1>2. QED
  BY <1>1, Invariant, PTL

\* A payment recorded as paid has been credited, unless its booking was
\* cancelled.
THEOREM PaidIsCredited == Spec => []NoCreditForgotten
<1>1. IInv => NoCreditForgotten
  BY DEF IInv
<1>2. QED
  BY <1>1, Invariant, PTL

\* No booking-confirmed notice goes out without a charge.
THEOREM NoticesArePaid == Spec => []NoticeIsPaid
<1>1. IInv => NoticeIsPaid
  BY DEF IInv
<1>2. QED
  BY <1>1, Invariant, PTL

\* A booking that left PENDING_PAYMENT never returns to it: the only statement
\* that writes that status is the INSERT of a new row.
THEOREM PendingOnce == Spec => NeverPendingAgain
<1> DEFINE Left(b) == status[b] \in {"CONFIRMED", "CANCELLED"}
<1>1. ASSUME IInv, [Next]_vars
      PROVE  \A b \in Booking : Left(b) => Left(b)'
  <2> SUFFICES ASSUME NEW b \in Booking, Left(b) PROVE Left(b)'
    OBVIOUS
  <2> DEFINE Written(h) == \/ status' = status
                           \/ InsertBooking(h)
                           \/ CommitSettlement(h)
                           \/ \E by \in {"guest", "account"} : CommitCancel(h, by)
                           \/ CommitExpired(h)
  <2>1. status' = status \/ \E h \in Handler : Written(h)
    <3>1. ASSUME NEW h \in Handler, Starts(h) PROVE status' = status
      BY <3>1 DEF Starts, CheckDates, IgnoreFailed, Receive, ReadForCancel, ReadExpired,
                  LookAtWallet, rows
    <3>2. ASSUME NEW h \in Handler, Continues(h) PROVE Written(h)
      BY <3>2 DEF Continues, InsertPayment, RefusePayment, GetBooking, FlushStatus,
                  GetWallet, InsertWallet, UpdateWallet, Respond, FlushFailed,
                  CommitFailed, FlushCancel, MailCancel, FlushExpired, CommitWallet, rows
    <3>3. ASSUME NEW h \in Handler, Crash(h) PROVE status' = status
      BY <3>3 DEF Crash, rows
    <3>4. CASE World
      BY <3>4 DEF World, GuestPays, AttemptDeclined, Age, rows
    <3>5. CASE UNCHANGED vars
      BY <3>5 DEF vars, rows
    <3>6. QED
      BY <3>1, <3>2, <3>3, <3>4, <3>5, <1>1 DEF Next
  <2>2. ASSUME NEW h \in Handler, Written(h) PROVE Left(b)'
    <3>1. CASE InsertBooking(h)
      BY <1>1, <3>1 DEF InsertBooking, IInv, TypeOK, InsertsOK
    <3>2. CASE CommitSettlement(h)
      BY <1>1, <3>2 DEF CommitSettlement, IInv, TypeOK
    <3>3. CASE \E by \in {"guest", "account"} : CommitCancel(h, by)
      BY <1>1, <3>3 DEF CommitCancel, IInv, TypeOK
    <3>4. CASE CommitExpired(h)
      BY <1>1, <3>4 DEF CommitExpired, IInv, TypeOK
    <3>5. QED
      BY <2>2, <3>1, <3>2, <3>3, <3>4
  <2>3. QED
    BY <2>1, <2>2
<1>2. IInv /\ [Next]_vars =>
        [\A b \in Booking :
           status[b] \in {"CONFIRMED", "CANCELLED"} =>
             status'[b] \in {"CONFIRMED", "CANCELLED"}]_vars
  BY <1>1
<1>3. QED
  BY <1>2, Invariant, PTL DEF Spec, NeverPendingAgain

-----------------------------------------------------------------------------
(* Requests that stay apart.                                               *)

\* h holds what it read of a payment, and is about to write or has written it.
Holds(h) ==
  \/ pc[h] \in {"flush_status", "get_wallet", "update_wallet", "commit_settle"}
  \/ pc[h] = "insert_wallet" /\ req[h].booking # None

Failing(h) == pc[h] \in {"flush_failed", "commit_failed"}

Cancelling(h) == pc[h] \in {"flush_cancel", "commit_cancel"}

Sweeping(h) == pc[h] \in {"flush_expire", "commit_expire"}

\* What a session has read is what is committed, when nobody else is about the
\* same rows.
SeenOK ==
  \A h \in Handler :
    /\ pc[h] = "insert_booking" =>
         \A c \in Booking : status[c] = "CONFIRMED" => ~ SharesNight(req[h].booking, c)
    /\ pc[h] = "insert_payment" => payment[req[h].booking] = "NONE"
    /\ Holds(h) \/ Failing(h) \/ pc[h] = "get_booking" => payment[req[h].booking] = req[h].pay
    /\ Holds(h) => req[h].pay # "SUCCESS"
    /\ Failing(h) => req[h].pay \in {"PENDING", "FAILED"}
    /\ Holds(h) \/ Cancelling(h) => status[req[h].booking] = req[h].st
    /\ Sweeping(h) => \A b \in req[h].batch : status[b] = "PENDING_PAYMENT" /\ b \in aged
    /\ pc[h] = "update_wallet" => req[h].bal = balance[req[h].owner]
    /\ pc[h] = "commit_settle" /\ req[h].owner # None =>
         req[h].bal = balance[req[h].owner] + NetOf(req[h].booking)

AInv == IInv /\ Apart /\ SeenOK /\ AuditedIsCancelled

\* Only h's control and request change.
Alone(h) == \A g \in Handler \ {h} : pc'[g] = pc[g] /\ req'[g] = req[g]

\* A step of BookingLedger, or none.
Atomically == [Atomic!Next]_(Atomic!vars)

-----------------------------------------------------------------------------
\* BookingLedger computes with the same prices, nights and ledger rows.
LEMMA SameRules ==
  /\ \A b \in Booking : Atomic!NetOf(b) = NetOf(b)
  /\ \A b, c \in Booking : Atomic!SharesNight(b, c) = SharesNight(b, c)
  /\ \A b \in Booking, n \in Nat : Atomic!CreditRow(b, n) = CreditRow(b, n)
  /\ Atomic!CreditRows = CreditRows
BY DEF Atomic!NetOf, NetOf, Atomic!PlatformFee, PlatformFee, Atomic!RoundHalfEven, RoundHalfEven,
       Atomic!SharesNight, SharesNight, Atomic!CreditRow, CreditRow, Atomic!CreditRows, CreditRows

\* An owner without a wallet row has no money.
LEMMA NoRowNoBalance ==
  ASSUME IInv, NEW o \in Owner, o \notin wallets
  PROVE  balance[o] = 0
BY DEF IInv, WalletOK, BalanceIsLastAfter

\* What the other sessions have read is not what h commits.
LEMMA SeenByOthers ==
  ASSUME AInv, NEW h \in Handler, Alone(h),
         \A b \in Booking \ Concerns(h) : status'[b] = status[b] /\ payment'[b] = payment[b],
         \A o \in Owner : o # req[h].owner => balance'[o] = balance[o],
         aged \subseteq aged'
  PROVE  \A g \in Handler \ {h} : SeenOK!(g)'
<1> SUFFICES ASSUME NEW g \in Handler \ {h} PROVE SeenOK!(g)'
  OBVIOUS
<1>1. pc'[g] = pc[g] /\ req'[g] = req[g] /\ SeenOK!(g) /\ RequestOK!(g)
  BY DEF Alone, AInv, SeenOK, IInv, RequestOK
<1>2. /\ Concerns(g) \cap Concerns(h) = {}
      /\ req[g].owner = req[h].owner => req[g].owner = None
      /\ pc[g] = "insert_booking" =>
           \A c \in Concerns(h) : ~ SharesNight(req[g].booking, c)
  BY DEF AInv, Apart
<1>3. req[g] \in Request /\ None \notin Booking \cup Owner
  BY StaysAssumption DEF AInv, IInv, TypeOK
<1>4. /\ \A b \in req[g].batch : b \in Booking /\ status'[b] = status[b]
      /\ req[g].booking \in Booking =>
           /\ status'[req[g].booking] = status[req[g].booking]
           /\ payment'[req[g].booking] = payment[req[g].booking]
  BY <1>2, <1>3 DEF Concerns, Request
<1>5. pc[g] = "insert_booking" =>
        \A c \in Booking : status'[c] = "CONFIRMED" => ~ SharesNight(req[g].booking, c)
  BY <1>1, <1>2
<1>6. /\ pc[g] \in ForBooking => req[g].booking \in Booking
      /\ Holds(g) \/ Failing(g) \/ Cancelling(g) => req[g].booking \in Booking
  BY <1>1, <1>3 DEF ForBooking, Holds, Failing, Cancelling, Request
<1>7. /\ pc[g] = "update_wallet" => balance'[req[g].owner] = balance[req[g].owner]
      /\ pc[g] = "commit_settle" /\ req[g].owner # None =>
           balance'[req[g].owner] = balance[req[g].owner]
  BY <1>1, <1>2, <1>3 DEF Crediting, Request
<1>8. SeenOK!(g)'
  BY <1>1, <1>4, <1>5, <1>6, <1>7
     DEF ForBooking, Holds, Failing, Cancelling, Sweeping
<1>9. QED
  BY <1>8

\* A statement that commits nothing is no step of BookingLedger.
LEMMA ReadsOnly ==
  ASSUME AInv, NEW h \in Handler, Alone(h), UNCHANGED <<rows, aged, charged>>, SeenOK!(h)'
  PROVE  SeenOK' /\ AuditedIsCancelled' /\ Atomically
<1>1. \A g \in Handler \ {h} : SeenOK!(g)'
  BY SeenByOthers DEF rows
<1>2. SeenOK'
  BY <1>1 DEF SeenOK
<1>3. AuditedIsCancelled' /\ Atomically
  BY DEF rows, AInv, AuditedIsCancelled, Atomically, Atomic!vars
<1>4. QED
  BY <1>2, <1>3

\* A handler that has ended remembers nothing.
LEMMA FinishSeen ==
  ASSUME IInv, NEW h \in Handler, Finish(h)
  PROVE  Alone(h) /\ SeenOK!(h)'
<1>1. Alone(h) /\ pc'[h] = "idle"
  BY DEF Finish, Alone, IInv, TypeOK
<1>2. QED
  BY <1>1 DEF Holds, Failing, Cancelling, Sweeping

\* A request that arrives remembers what is committed.
LEMMA StartsApart ==
  ASSUME AInv, NEW h \in Handler, Starts(h)
  PROVE  SeenOK' /\ AuditedIsCancelled' /\ Atomically
<1> USE DEF AInv
<1>1. ASSUME NEW b \in Booking, CheckDates(h, b) PROVE SeenOK' /\ AuditedIsCancelled' /\ Atomically
  <2>1. Ask(b, "NONE", "NONE").booking = b
    BY AskType DEF PaymentStatus, BookingStatus
  <2>2. /\ pc'[h] = "insert_booking" /\ req'[h].booking = b /\ Alone(h)
        /\ UNCHANGED <<rows, aged, charged>>
    BY <1>1, <2>1 DEF CheckDates, Begin, paystack, Alone, IInv, TypeOK
  <2>3. SeenOK!(h)'
    BY <1>1, <2>2 DEF CheckDates, Holds, Failing, Cancelling, Sweeping, rows
  <2>4. QED
    BY <2>2, <2>3, ReadsOnly
<1>2. ASSUME NEW b \in Booking, NEW kind \in Kinds, Receive(h, b, kind)
      PROVE  SeenOK' /\ AuditedIsCancelled' /\ Atomically
  <2> DEFINE r == Ask(b, payment[b], "NONE")
  <2>1. r.booking = b /\ r.pay = payment[b]
    BY DEF Ask
  <2>2. /\ pc'[h] \in {"get_booking", "flush_failed"} /\ req'[h] = r /\ Alone(h)
        /\ pc'[h] = "flush_failed" => payment[b] \in {"PENDING", "FAILED"}
        /\ UNCHANGED <<rows, aged, charged>>
    BY <1>2 DEF Receive, Begin, paystack, Alone, IInv, TypeOK, RowsOK, PaymentStatus
  <2> HIDE DEF r
  <2>3. SeenOK!(h)'
    BY <2>1, <2>2 DEF Holds, Failing, Cancelling, Sweeping, rows
  <2>4. QED
    BY <2>2, <2>3, ReadsOnly
<1>3. ASSUME NEW b \in Booking, IgnoreFailed(h, b) PROVE SeenOK' /\ AuditedIsCancelled' /\ Atomically
  <2>1. Alone(h) /\ UNCHANGED <<rows, aged, charged, handlers>>
    BY <1>3 DEF IgnoreFailed, handlers, paystack, Alone
  <2>2. SeenOK!(h)'
    BY <2>1 DEF SeenOK, rows, handlers, Holds, Failing, Cancelling, Sweeping
  <2>3. QED
    BY <2>1, <2>2, ReadsOnly
<1>4. ASSUME NEW b \in Booking, ReadForCancel(h, b) PROVE SeenOK' /\ AuditedIsCancelled' /\ Atomically
  <2> DEFINE r == Ask(b, "NONE", status[b])
  <2>1. r.booking = b /\ r.st = status[b]
    BY DEF Ask
  <2>2. /\ pc'[h] = "flush_cancel" /\ req'[h] = r /\ Alone(h)
        /\ UNCHANGED <<rows, aged, charged>>
    BY <1>4 DEF ReadForCancel, Begin, paystack, Alone, IInv, TypeOK
  <2> HIDE DEF r
  <2>3. SeenOK!(h)'
    BY <2>1, <2>2 DEF Holds, Failing, Cancelling, Sweeping, rows
  <2>4. QED
    BY <2>2, <2>3, ReadsOnly
<1>5. CASE ReadExpired(h)
  <2>1. [NoRequest EXCEPT !.batch = Expirable].batch = Expirable
    BY DEF NoRequest
  <2>2. /\ pc'[h] = "flush_expire" /\ req'[h].batch = Expirable /\ Alone(h)
        /\ UNCHANGED <<rows, aged, charged>>
    BY <1>5, <2>1 DEF ReadExpired, Begin, paystack, Alone, IInv, TypeOK
  <2>3. SeenOK!(h)'
    BY <2>2 DEF Holds, Failing, Cancelling, Sweeping, rows, Expirable
  <2>4. QED
    BY <2>2, <2>3, ReadsOnly
<1>6. ASSUME NEW o \in Owner, LookAtWallet(h, o) PROVE SeenOK' /\ AuditedIsCancelled' /\ Atomically
  <2>1. [NoRequest EXCEPT !.owner = o].booking = None
    BY DEF NoRequest
  <2>2. /\ pc'[h] = "insert_wallet" /\ req'[h].booking = None /\ Alone(h)
        /\ UNCHANGED <<rows, aged, charged>>
    BY <1>6, <2>1 DEF LookAtWallet, Begin, paystack, Alone, IInv, TypeOK
  <2>3. SeenOK!(h)'
    BY <2>2 DEF Holds, Failing, Cancelling, Sweeping
  <2>4. QED
    BY <2>2, <2>3, ReadsOnly
<1>7. QED
  BY <1>1, <1>2, <1>3, <1>4, <1>5, <1>6 DEF Starts

\* The statements of a settlement before its commit read what is committed.
LEMMA SettlingApart ==
  ASSUME AInv, NEW h \in Handler,
         GetBooking(h) \/ FlushStatus(h) \/ GetWallet(h) \/ InsertWallet(h) \/ UpdateWallet(h)
  PROVE  SeenOK' /\ AuditedIsCancelled' /\ Atomically
<1> USE DEF AInv
<1>1. /\ UNCHANGED <<rows, aged, charged>>
      /\ SeenOK!(h) /\ RequestOK!(h) /\ req[h] \in Request
      /\ None \notin Booking \cup Owner
  BY StaysAssumption DEF GetBooking, FlushStatus, GetWallet, InsertWallet, UpdateWallet, paystack,
                         SeenOK, IInv, RequestOK, TypeOK
<1>2. CASE Finish(h)
  BY <1>1, <1>2, FinishSeen, ReadsOnly
<1>3. CASE ~ Finish(h)
  <2>1. CASE GetBooking(h)
    <3>1. /\ pc'[h] = IF AlreadySettled(h) THEN "respond" ELSE "flush_status"
          /\ req'[h] = [req[h] EXCEPT !.st = status[req[h].booking]]
          /\ Alone(h) /\ pc[h] = "get_booking"
      BY <2>1 DEF GetBooking, Alone, IInv, TypeOK
    <3>2. /\ req'[h].booking = req[h].booking /\ req'[h].pay = req[h].pay
          /\ req'[h].st = status[req[h].booking]
      BY <1>1, <3>1 DEF Request
    <3>3. SeenOK!(h)'
      BY <1>1, <3>1, <3>2 DEF Holds, Failing, Cancelling, Sweeping, rows, AlreadySettled
    <3>4. QED
      BY <1>1, <3>1, <3>3, ReadsOnly
  <2>2. CASE FlushStatus(h)
    <3>1. /\ pc'[h] = IF Credits(h) THEN "get_wallet" ELSE "commit_settle"
          /\ req'[h] = [req[h] EXCEPT !.owner = IF Credits(h) THEN OwnerOf[req[h].booking]
                                                            ELSE None]
          /\ Alone(h) /\ pc[h] = "flush_status"
      BY <2>2 DEF FlushStatus, Alone, IInv, TypeOK
    <3>2. /\ req'[h].booking = req[h].booking /\ req'[h].pay = req[h].pay
          /\ req'[h].st = req[h].st /\ (~ Credits(h) => req'[h].owner = None)
      BY <1>1, <3>1 DEF Request
    <3>3. SeenOK!(h)'
      BY <1>1, <3>1, <3>2 DEF Holds, Failing, Cancelling, Sweeping, rows
    <3>4. QED
      BY <1>1, <3>1, <3>3, ReadsOnly
  <2>3. CASE GetWallet(h)
    <3>1. /\ pc'[h] \in {"update_wallet", "insert_wallet"}
          /\ req'[h] = [req[h] EXCEPT !.bal = balance[req[h].owner]]
          /\ Alone(h) /\ pc[h] = "get_wallet"
      BY <2>3 DEF GetWallet, Alone, IInv, TypeOK
    <3>2. /\ req'[h].booking = req[h].booking /\ req'[h].pay = req[h].pay
          /\ req'[h].st = req[h].st /\ req'[h].owner = req[h].owner
          /\ req'[h].bal = balance[req[h].owner]
      BY <1>1, <3>1 DEF Request
    <3>3. SeenOK!(h)'
      BY <1>1, <3>1, <3>2 DEF Holds, Failing, Cancelling, Sweeping, rows
    <3>4. QED
      BY <1>1, <3>1, <3>3, ReadsOnly
  <2>4. CASE InsertWallet(h)
    <3>1. /\ pc'[h] = IF req[h].booking = None THEN "commit_wallet" ELSE "update_wallet"
          /\ req'[h] = [req[h] EXCEPT !.own = TRUE, !.bal = 0]
          /\ Alone(h) /\ pc[h] = "insert_wallet" /\ req[h].owner \notin wallets
      BY <1>3, <2>4 DEF InsertWallet, Conflicts, Alone, IInv, TypeOK
    <3>2. /\ req'[h].booking = req[h].booking /\ req'[h].pay = req[h].pay
          /\ req'[h].st = req[h].st /\ req'[h].owner = req[h].owner
          /\ req'[h].bal = 0
      BY <1>1, <3>1 DEF Request
    <3>3. balance[req[h].owner] = 0
      BY <1>1, <3>1, NoRowNoBalance
    <3>4. SeenOK!(h)'
      BY <1>1, <3>1, <3>2, <3>3 DEF Holds, Failing, Cancelling, Sweeping, rows
    <3>5. QED
      BY <1>1, <3>1, <3>4, ReadsOnly
  <2>5. CASE UpdateWallet(h)
    <3> DEFINE after == req[h].bal + NetOf(req[h].booking)
    <3>1. /\ pc'[h] = "commit_settle"
          /\ req'[h] = [req[h] EXCEPT !.bal = after]
          /\ Alone(h) /\ pc[h] = "update_wallet"
      BY <1>3, <2>5 DEF UpdateWallet, Alone, IInv, TypeOK
    <3>2. /\ req'[h].booking = req[h].booking /\ req'[h].pay = req[h].pay
          /\ req'[h].st = req[h].st /\ req'[h].owner = req[h].owner
          /\ req'[h].bal = after
      BY <1>1, <3>1 DEF Request
    <3>3. after = balance[req[h].owner] + NetOf(req[h].booking)
      BY <1>1, <3>1
    <3> HIDE DEF after
    <3>4. SeenOK!(h)'
      BY <1>1, <3>1, <3>2, <3>3 DEF Holds, Failing, Cancelling, Sweeping, rows
    <3>5. QED
      BY <1>1, <3>1, <3>4, ReadsOnly
  <2>6. QED
    BY <2>1, <2>2, <2>3, <2>4, <2>5
<1>4. QED
  BY <1>2, <1>3

\* Waiting for a row lock changes nothing of what was read.
LEMMA WaitingApart ==
  ASSUME AInv, NEW h \in Handler, FlushFailed(h) \/ FlushCancel(h) \/ FlushExpired(h)
  PROVE  SeenOK' /\ AuditedIsCancelled' /\ Atomically
<1> USE DEF AInv
<1>1. /\ UNCHANGED <<rows, aged, charged>> /\ Alone(h) /\ req'[h] = req[h]
      /\ SeenOK!(h)
  BY DEF FlushFailed, FlushCancel, FlushExpired, Goto, Alone, paystack, SeenOK, IInv, TypeOK
<1>2. \/ pc[h] = "flush_failed" /\ pc'[h] = "commit_failed"
      \/ pc[h] = "flush_cancel" /\ pc'[h] = "commit_cancel"
      \/ pc[h] = "flush_expire" /\ pc'[h] = "commit_expire"
  BY DEF FlushFailed, FlushCancel, FlushExpired, Goto, IInv, TypeOK
<1>3. SeenOK!(h)'
  BY <1>1, <1>2 DEF Holds, Failing, Cancelling, Sweeping, rows
<1>4. QED
  BY <1>1, <1>3, ReadsOnly

\* The create request inserts the booking, then its payment.
LEMMA CreateApart ==
  ASSUME AInv, NEW h \in Handler, InsertBooking(h) \/ InsertPayment(h)
  PROVE  SeenOK' /\ AuditedIsCancelled' /\ Atomically
<1> USE DEF AInv
<1> DEFINE b == req[h].booking
<1>1. b \in Booking /\ b \in Concerns(h) /\ SeenOK!(h) /\ InsertsOK!(h) /\ Alone(h)
  BY StaysAssumption DEF InsertBooking, InsertPayment, Goto, Finish, Alone, IInv, TypeOK,
                         RequestOK, ForBooking, Concerns, SeenOK, InsertsOK
<1>2. CASE InsertBooking(h)
  <2>1. /\ status[b] = "NONE" /\ payment[b] = "NONE" /\ pc'[h] = "insert_payment"
        /\ status' = [status EXCEPT ![b] = "PENDING_PAYMENT"] /\ req'[h] = req[h]
        /\ UNCHANGED <<payment, wallets, balance, ledger, audit, aged, charged>>
    BY <1>1, <1>2 DEF InsertBooking, Goto, paystack, IInv, RowsOK, TypeOK
  <2>2. \A g \in Handler \ {h} : SeenOK!(g)'
    BY <1>1, <2>1, SeenByOthers DEF IInv, TypeOK
  <2>3. SeenOK!(h)'
    BY <2>1 DEF Holds, Failing, Cancelling, Sweeping
  <2>4. AuditedIsCancelled'
    BY <1>1, <2>1 DEF AuditedIsCancelled, IInv, TypeOK
  <2>5. Atomic!Create(b)
    BY <1>1, <1>2, <2>1, SameRules DEF Atomic!Create, InsertBooking
  <2>6. QED
    BY <1>1, <2>2, <2>3, <2>4, <2>5 DEF SeenOK, Atomically, Atomic!Next
<1>3. CASE InsertPayment(h)
  <2>1. /\ status[b] # "NONE" /\ payment[b] = "NONE"
        /\ payment' = [payment EXCEPT ![b] = "PENDING"]
        /\ UNCHANGED <<status, wallets, balance, ledger, audit, aged, charged>>
    BY <1>1, <1>3 DEF InsertPayment, paystack
  <2>2. \A g \in Handler \ {h} : SeenOK!(g)'
    BY <1>1, <2>1, SeenByOthers DEF IInv, TypeOK
  <2>3. SeenOK!(h)'
    BY <1>3, FinishSeen DEF InsertPayment
  <2>4. Atomic!InitiatePayment(b)
    BY <2>1 DEF Atomic!InitiatePayment
  <2>5. QED
    BY <1>1, <2>1, <2>2, <2>3, <2>4
       DEF SeenOK, Atomically, Atomic!Next, AuditedIsCancelled
<1>4. QED
  BY <1>2, <1>3

\* A settlement that credits an owner is Settle, with the balance as it is.
LEMMA CreditApart ==
  ASSUME AInv, NEW h \in Handler, CommitSettlement(h), req[h].owner # None
  PROVE  Atomic!Settle(req[h].booking)
<1> USE DEF AInv
<1> DEFINE b == req[h].booking
           o == req[h].owner
<1>1. /\ b \in Booking /\ b \in charged /\ o = OwnerOf[b] /\ o \in Owner
      /\ req[h].st = "PENDING_PAYMENT" /\ req[h].bal <= IntMax /\ req[h].bal \in Nat
  BY StaysAssumption
     DEF CommitSettlement, IInv, TypeOK, RequestOK, ForBooking, Settling, Crediting, Request
<1>2. /\ status[b] = "PENDING_PAYMENT" /\ payment[b] # "SUCCESS"
      /\ req[h].bal = balance[o] + NetOf(b)
  BY <1>1 DEF CommitSettlement, SeenOK, Holds
<1>3. /\ payment' = [payment EXCEPT ![b] = "SUCCESS"]
      /\ status' = [status EXCEPT ![b] = "CONFIRMED"]
      /\ wallets' = wallets \cup {o}
      /\ balance' = [balance EXCEPT ![o] = req[h].bal]
      /\ ledger' = Append(ledger, CreditRow(b, req[h].bal))
      /\ UNCHANGED <<aged, charged>>
  BY <1>1 DEF CommitSettlement, Confirms, WrittenBalance, paystack
<1>4. Atomic!BalanceAfter(b) = req[h].bal
  BY <1>1, <1>2, SameRules DEF Atomic!BalanceAfter
<1>5. /\ Atomic!Unsettled(b) /\ Atomic!Awaiting(b) /\ Atomic!Fits(req[h].bal)
  BY <1>1, <1>2 DEF Atomic!Unsettled, Atomic!Awaiting, Atomic!Fits
<1>6. Atomic!CreditRow(b, req[h].bal) = CreditRow(b, req[h].bal)
  BY <1>1, SameRules
<1>7. QED
  BY <1>1, <1>3, <1>4, <1>5, <1>6 DEF Atomic!Settle

\* A settlement that credits nobody confirms a booking without an owner, or only
\* records the payment.
LEMMA UncreditedApart ==
  ASSUME AInv, NEW h \in Handler, CommitSettlement(h), req[h].owner = None
  PROVE  Atomic!SettleUnowned(req[h].booking) \/ Atomic!SettleLate(req[h].booking)
<1> USE DEF AInv
<1> DEFINE b == req[h].booking
<1>1. /\ b \in Booking /\ b \in charged
      /\ req[h].st # "PENDING_PAYMENT" \/ OwnerOf[b] = None
  BY DEF CommitSettlement, IInv, RequestOK, ForBooking, Settling
<1>2. status[b] = req[h].st /\ payment[b] # "SUCCESS"
  BY DEF CommitSettlement, SeenOK, Holds
<1>3. /\ payment' = [payment EXCEPT ![b] = "SUCCESS"]
      /\ status' = IF Confirms(h) THEN [status EXCEPT ![b] = "CONFIRMED"] ELSE status
      /\ UNCHANGED <<wallets, balance, ledger, aged, charged>>
  BY DEF CommitSettlement, paystack
<1>4. CASE Confirms(h)
  BY <1>1, <1>2, <1>3, <1>4
     DEF Confirms, Atomic!SettleUnowned, Atomic!Unsettled, Atomic!Awaiting
<1>5. CASE ~ Confirms(h)
  BY <1>1, <1>2, <1>3, <1>5
     DEF Confirms, Atomic!SettleLate, Atomic!Unsettled, Atomic!Awaiting
<1>6. QED
  BY <1>4, <1>5

\* The commit of a settlement is one step of BookingLedger.
LEMMA SettlementApart ==
  ASSUME AInv, NEW h \in Handler, CommitSettlement(h)
  PROVE  SeenOK' /\ AuditedIsCancelled' /\ Atomically
<1> USE DEF AInv
<1> DEFINE b == req[h].booking
           o == req[h].owner
<1>1. /\ b \in Booking /\ b \in Concerns(h) /\ Alone(h) /\ pc'[h] = "respond"
      /\ status[b] = req[h].st
  BY StaysAssumption DEF CommitSettlement, Goto, Alone, IInv, TypeOK, RequestOK, ForBooking,
                         Concerns, SeenOK, Holds
<1>2. /\ payment' = [payment EXCEPT ![b] = "SUCCESS"]
      /\ status' = IF Confirms(h) THEN [status EXCEPT ![b] = "CONFIRMED"] ELSE status
      /\ balance' = balance \/ balance' = [balance EXCEPT ![o] = req[h].bal]
      /\ UNCHANGED <<aged, audit>>
  BY DEF CommitSettlement, WrittenBalance
<1>3. \A g \in Handler \ {h} : SeenOK!(g)'
  <2>1. \A c \in Booking \ Concerns(h) : status'[c] = status[c] /\ payment'[c] = payment[c]
    BY <1>1, <1>2 DEF IInv, TypeOK
  <2>2. \A p \in Owner : p # o => balance'[p] = balance[p]
    BY <1>2 DEF IInv, TypeOK
  <2>3. QED
    BY <1>1, <1>2, <2>1, <2>2, SeenByOthers
<1>4. SeenOK!(h)'
  BY <1>1 DEF Holds, Failing, Cancelling, Sweeping
<1>5. AuditedIsCancelled'
  BY <1>1, <1>2 DEF AuditedIsCancelled, Confirms, IInv, TypeOK
<1>6. Atomically
  BY <1>1, CreditApart, UncreditedApart DEF Atomically, Atomic!Next
<1>7. QED
  BY <1>3, <1>4, <1>5, <1>6 DEF SeenOK

\* A failed event marks a pending payment.
LEMMA FailedApart ==
  ASSUME AInv, NEW h \in Handler, CommitFailed(h)
  PROVE  SeenOK' /\ AuditedIsCancelled' /\ Atomically
<1> USE DEF AInv
<1> DEFINE b == req[h].booking
<1>1. /\ b \in Booking /\ b \in Concerns(h) /\ Alone(h) /\ status[b] # "NONE"
      /\ payment[b] = req[h].pay /\ req[h].pay \in {"PENDING", "FAILED"}
      /\ UNCHANGED <<status, wallets, balance, ledger, audit, aged, charged>>
  BY StaysAssumption DEF CommitFailed, Finish, Alone, paystack, IInv, TypeOK, RequestOK,
                         ForBooking, InsertsOK, Concerns, SeenOK, Failing
<1>2. payment' = IF req[h].pay = "FAILED" THEN payment ELSE [payment EXCEPT ![b] = "FAILED"]
  BY DEF CommitFailed
<1>3. \A g \in Handler \ {h} : SeenOK!(g)'
  BY <1>1, <1>2, SeenByOthers DEF IInv, TypeOK
<1>4. SeenOK!(h)'
  BY FinishSeen DEF CommitFailed
<1>5. Atomically
  BY <1>1, <1>2 DEF Atomically, Atomic!Next, Atomic!vars, Atomic!MarkFailed
<1>6. QED
  BY <1>1, <1>3, <1>4, <1>5 DEF SeenOK, AuditedIsCancelled

\* A cancellation cancels what it has read, once.
LEMMA CancelApart ==
  ASSUME AInv, NEW h \in Handler, NEW by \in {"guest", "account"}, CommitCancel(h, by)
  PROVE  SeenOK' /\ AuditedIsCancelled' /\ Atomically
<1> USE DEF AInv
<1> DEFINE b == req[h].booking
<1>1. /\ b \in Booking /\ b \in Concerns(h) /\ Alone(h) /\ pc'[h] = "mail_cancel"
      /\ status[b] # "NONE" /\ status[b] = req[h].st
      /\ UNCHANGED <<payment, wallets, balance, ledger, aged, charged>>
  BY StaysAssumption DEF CommitCancel, Goto, Alone, paystack, IInv, TypeOK, RequestOK,
                         ForBooking, InsertsOK, Concerns, SeenOK, Cancelling
<1>2. /\ status' = IF req[h].st = "CANCELLED" THEN status ELSE [status EXCEPT ![b] = "CANCELLED"]
      /\ audit' \subseteq audit \cup {b}
  BY DEF CommitCancel
<1>3. \A g \in Handler \ {h} : SeenOK!(g)'
  BY <1>1, <1>2, SeenByOthers DEF IInv, TypeOK
<1>4. SeenOK!(h)'
  BY <1>1 DEF Holds, Failing, Cancelling, Sweeping
<1>5. AuditedIsCancelled'
  BY <1>1, <1>2 DEF AuditedIsCancelled, IInv, TypeOK
<1>6. Atomically
  BY <1>1, <1>2 DEF Atomically, Atomic!Next, Atomic!vars, Atomic!Cancel
<1>7. QED
  BY <1>3, <1>4, <1>5, <1>6 DEF SeenOK

\* A sweep cancels bookings that are still unpaid.
LEMMA SweepApart ==
  ASSUME AInv, NEW h \in Handler, CommitExpired(h)
  PROVE  SeenOK' /\ AuditedIsCancelled' /\ Atomically
<1> USE DEF AInv
<1> DEFINE S == req[h].batch
<1>1. /\ S \in SUBSET Booking /\ S \subseteq Concerns(h) /\ Alone(h)
      /\ \A b \in S : status[b] = "PENDING_PAYMENT" /\ b \in aged
      /\ status' = [b \in Booking |-> IF b \in S THEN "CANCELLED" ELSE status[b]]
      /\ UNCHANGED <<payment, wallets, balance, ledger, audit, aged, charged>>
  BY DEF CommitExpired, Finish, Alone, paystack, IInv, TypeOK, Request, Concerns, SeenOK,
         Sweeping
<1>2. \A g \in Handler \ {h} : SeenOK!(g)'
  BY <1>1, SeenByOthers
<1>3. SeenOK!(h)'
  BY FinishSeen DEF CommitExpired
<1>4. AuditedIsCancelled'
  BY <1>1 DEF AuditedIsCancelled, IInv, TypeOK
<1>5. Atomic!Expire(S)
  BY <1>1 DEF Atomic!Expire
<1>6. Atomic!Next
  BY <1>1, <1>5 DEF Atomic!Next
<1>7. QED
  BY <1>1, <1>2, <1>3, <1>4, <1>6 DEF SeenOK, Atomically

\* An owner without a wallet gets an empty one.
LEMMA WalletApart ==
  ASSUME AInv, NEW h \in Handler, CommitWallet(h)
  PROVE  SeenOK' /\ AuditedIsCancelled' /\ Atomically
<1> USE DEF AInv
<1> DEFINE o == req[h].owner
<1>1. /\ o \in Owner /\ o \notin wallets /\ Alone(h)
      /\ balance' = [balance EXCEPT ![o] = 0] /\ wallets' = wallets \cup {o}
      /\ UNCHANGED <<status, payment, ledger, audit, aged, charged>>
  BY DEF CommitWallet, Finish, Alone, paystack, IInv, TypeOK, RequestOK, WalletOK, Inserting
<1>2. balance' = balance
  BY <1>1, NoRowNoBalance DEF IInv, TypeOK
<1>3. \A g \in Handler \ {h} : SeenOK!(g)'
  BY <1>1, <1>2, SeenByOthers
<1>4. SeenOK!(h)'
  BY FinishSeen DEF CommitWallet
<1>5. Atomic!OpenWallet(o)
  BY <1>1, <1>2 DEF Atomic!OpenWallet
<1>6. QED
  BY <1>1, <1>3, <1>4, <1>5 DEF SeenOK, Atomically, Atomic!Next, AuditedIsCancelled

\* Charges and time are steps of BookingLedger; a declined attempt is none.
LEMMA WorldApart ==
  ASSUME AInv, World
  PROVE  SeenOK' /\ AuditedIsCancelled' /\ Atomically
<1> USE DEF AInv
<1>1. PICK b \in Booking : GuestPays(b) \/ AttemptDeclined(b) \/ Age(b)
  BY DEF World
<1>2. /\ UNCHANGED <<rows, pc, req>>
      /\ aged \subseteq aged'
  BY <1>1 DEF GuestPays, AttemptDeclined, Age, handlers
<1>3. SeenOK' /\ AuditedIsCancelled'
  BY <1>2 DEF rows, SeenOK, AuditedIsCancelled, Holds, Failing, Cancelling, Sweeping
<1>4. CASE GuestPays(b)
  <2>1. Atomic!Charge(b)
    BY <1>4 DEF GuestPays, rows, Atomic!Charge
  <2>2. QED
    BY <1>3, <2>1 DEF Atomically, Atomic!Next
<1>5. CASE AttemptDeclined(b)
  BY <1>3, <1>5 DEF AttemptDeclined, rows, Atomically, Atomic!vars
<1>6. CASE Age(b)
  <2>1. Atomic!Age(b)
    BY <1>6 DEF Age, rows, paystack, Atomic!Age
  <2>2. QED
    BY <1>3, <2>1 DEF Atomically, Atomic!Next
<1>7. QED
  BY <1>1, <1>3, <1>4, <1>5, <1>6

\* Whatever a handler does next, what the sessions have read stays as it is
\* committed, and BookingLedger could have done it.
LEMMA ContinuesApart ==
  ASSUME AInv, NEW h \in Handler, Continues(h)
  PROVE  SeenOK' /\ AuditedIsCancelled' /\ Atomically
<1> USE DEF AInv
<1>1. CASE RefusePayment(h) \/ Respond(h) \/ MailCancel(h)
  <2>1. Finish(h) /\ UNCHANGED <<rows, aged, charged>>
    BY <1>1 DEF RefusePayment, Respond, MailCancel, paystack
  <2>2. QED
    BY <2>1, FinishSeen, ReadsOnly
<1>2. QED
  BY <1>1, CreateApart, SettlingApart, WaitingApart, SettlementApart, FailedApart, CancelApart,
     SweepApart, WalletApart
     DEF Continues

\* Steps of requests that stay apart keep all that, and are atomic.
LEMMA NextApart ==
  AInv /\ [Next /\ Apart']_vars => AInv' /\ Atomically
<1> SUFFICES ASSUME AInv, [Next /\ Apart']_vars PROVE AInv' /\ Atomically
  OBVIOUS
<1> USE DEF AInv
<1>1. IInv'
  BY NextIInv
<1>2. ASSUME NEW h \in Handler, Crash(h) PROVE SeenOK' /\ AuditedIsCancelled' /\ Atomically
  <2>1. Finish(h) /\ UNCHANGED <<rows, aged, charged>>
    BY <1>2 DEF Crash, paystack
  <2>2. QED
    BY <2>1, FinishSeen, ReadsOnly
<1>3. CASE Next /\ Apart'
  BY <1>1, <1>2, <1>3, StartsApart, ContinuesApart, WorldApart DEF Next
<1>4. CASE UNCHANGED vars
  <2>1. Apart'
    BY <1>4 DEF vars, handlers, Apart, Concerns
  <2>2. SeenOK' /\ AuditedIsCancelled' /\ Atomically
    BY <1>4 DEF vars, rows, handlers, paystack, SeenOK, AuditedIsCancelled, Holds, Failing,
                Cancelling, Sweeping, Atomically, Atomic!vars
  <2>3. QED
    BY <1>1, <2>1, <2>2
<1>5. QED
  BY <1>3, <1>4

\* No request has begun.
LEMMA InitApart == Init => AInv /\ Atomic!Init
<1> SUFFICES ASSUME Init PROVE AInv /\ Atomic!Init
  OBVIOUS
<1>1. IInv
  BY InitIInv
<1>2. Apart
  BY DEF Init, Apart, Concerns, NoRequest
<1>3. SeenOK /\ AuditedIsCancelled
  BY DEF Init, SeenOK, AuditedIsCancelled, Holds, Failing, Cancelling, Sweeping
<1>4. Atomic!Init
  BY DEF Init, Atomic!Init
<1>5. QED
  BY <1>1, <1>2, <1>3, <1>4 DEF AInv

-----------------------------------------------------------------------------
\* As long as requests stay apart, what a session has read is what is committed,
\* and an audited cancellation stands.
THEOREM InvariantApart == ApartSpec => []AInv
<1>1. QED
  BY InitApart, NextApart, PTL DEF ApartSpec

\* Requests that are about different rows may overlap as they like: the rows
\* change as if each operation were one atomic step.
THEOREM LedgerImplemented == ApartSpec => ImplementsLedger
<1>1. AInv /\ [Next /\ Apart']_vars => [Atomic!Next]_(Atomic!vars)
  BY NextApart DEF Atomically
<1>2. QED
  BY <1>1, InitApart, InvariantApart, PTL DEF ApartSpec, ImplementsLedger, Atomic!Spec

\* No webhook and no sweep takes an audited cancellation back.
THEOREM CancellationStands == ApartSpec => []AuditedIsCancelled
<1>1. AInv => AuditedIsCancelled
  BY DEF AInv
<1>2. QED
  BY <1>1, InvariantApart, PTL

\* One handler at a time is the simplest case.
THEOREM OneHandlerApart ==
  ASSUME \A g, h \in Handler : g = h
  PROVE  Spec => ApartSpec
<1>1. Apart'
  BY DEF Apart
<1>2. [Next]_vars => [Next /\ Apart']_vars
  BY <1>1
<1>3. QED
  BY <1>2, PTL DEF Spec, ApartSpec

-----------------------------------------------------------------------------
(* What BookingLedger promises.                                            *)

\* A booking with a ledger row is past its payment.
RowsArePast ==
  \A i \in 1..Len(ledger) : status[ledger[i].booking] \in {"CONFIRMED", "CANCELLED"}

LedgerInv ==
  /\ Atomic!TypeOK
  /\ RowsArePast
  /\ BalanceIsLastAfter
  /\ CreditedOnce
  /\ RunningBalance

\* The ledger starts empty.
LEMMA InitLedger == Atomic!Init => LedgerInv
<1> SUFFICES ASSUME Atomic!Init PROVE LedgerInv
  OBVIOUS
<1>1. Atomic!TypeOK
  BY StaysAssumption, SameRules
     DEF Atomic!Init, Atomic!TypeOK, Atomic!BookingStatus, Atomic!PaymentStatus
<1>2. RowsArePast /\ BalanceIsLastAfter
  BY DEF Atomic!Init, RowsArePast, BalanceIsLastAfter
<1>3. CreditedOnce /\ RunningBalance
  BY DEF Atomic!Init, CreditedOnce, RunningBalance, Atomic!CreditedOnce, Atomic!RunningBalance
<1>4. QED
  BY <1>1, <1>2, <1>3 DEF LedgerInv

\* A step without a credit.
LEMMA NothingCredited ==
  ASSUME LedgerInv, UNCHANGED <<ledger, balance>>, Atomic!TypeOK',
         \A b \in Booking : status[b] \in {"CONFIRMED", "CANCELLED"} =>
                              status'[b] \in {"CONFIRMED", "CANCELLED"}
  PROVE  LedgerInv'
<1>1. ledger \in Seq(CreditRows)
  BY SameRules DEF LedgerInv, Atomic!TypeOK
<1>2. RowsArePast'
  <2> SUFFICES ASSUME NEW i \in 1..Len(ledger)
               PROVE  status'[ledger[i].booking] \in {"CONFIRMED", "CANCELLED"}
    BY DEF RowsArePast
  <2>1. ledger[i] \in CreditRows
    BY <1>1
  <2>2. ledger[i].booking \in Booking
    BY <2>1 DEF CreditRows
  <2>3. QED
    BY <2>2 DEF LedgerInv, RowsArePast
<1>3. BalanceIsLastAfter' /\ CreditedOnce' /\ RunningBalance'
  BY DEF LedgerInv, BalanceIsLastAfter, CreditedOnce, RunningBalance, Atomic!CreditedOnce,
         Atomic!RunningBalance, Atomic!Precedes
<1>4. QED
  BY <1>2, <1>3 DEF LedgerInv

\* A credit appends the row of a booking that has none, with the balance that
\* the last row of its owner left.
LEMMA CreditKeepsLedger ==
  ASSUME LedgerInv, NEW b \in Booking, Atomic!Settle(b)
  PROVE  LedgerInv'
<1> DEFINE o == OwnerOf[b]
           after == Atomic!BalanceAfter(b)
<1>0. PICK last \in Nat : last = Len(ledger) + 1
  BY DEF LedgerInv, Atomic!TypeOK
<1>1. /\ o \in Owner /\ NetOf(b) \in Nat /\ balance[o] \in Nat
      /\ after = balance[o] + NetOf(b) /\ after \in 0..IntMax
      /\ status[b] = "PENDING_PAYMENT"
  <2>1. o \in Owner /\ status[b] = "PENDING_PAYMENT" /\ after <= IntMax
    BY StaysAssumption DEF Atomic!Settle, Atomic!Awaiting, Atomic!Fits
  <2>2. balance \in [Owner -> 0..IntMax]
    BY DEF LedgerInv, Atomic!TypeOK
  <2>3. balance[o] \in 0..IntMax /\ IntMax \in Nat
    BY <2>1, <2>2, StaysAssumption
  <2>4. NetOf(b) \in Nat
    BY NetType
  <2>5. after = balance[o] + NetOf(b)
    BY SameRules DEF Atomic!BalanceAfter
  <2> HIDE DEF after, o
  <2>6. QED
    BY <2>1, <2>3, <2>4, <2>5
<1>2. /\ CreditRow(b, after) \in CreditRows
      /\ CreditRow(b, after).booking = b /\ CreditRow(b, after).owner = o
      /\ CreditRow(b, after).amount = NetOf(b) /\ CreditRow(b, after).after = after
  BY <1>1 DEF CreditRow, CreditRows
<1>3. /\ ledger \in Seq(CreditRows)
      /\ ledger' = Append(ledger, CreditRow(b, after))
      /\ status' = [status EXCEPT ![b] = "CONFIRMED"]
      /\ payment' = [payment EXCEPT ![b] = "SUCCESS"]
      /\ balance' = [balance EXCEPT ![o] = after]
      /\ wallets' = wallets \cup {o}
      /\ UNCHANGED <<aged, charged>>
  BY <1>1, SameRules DEF LedgerInv, Atomic!TypeOK, Atomic!Settle
<1> HIDE DEF after
<1>4. /\ ledger' \in Seq(CreditRows) /\ Len(ledger') = last /\ last \in Nat /\ last >= 1
      /\ \A i \in 1..Len(ledger) : ledger'[i] = ledger[i] /\ ledger[i] \in CreditRows
      /\ ledger'[last].booking = b /\ ledger'[last].owner = o
      /\ ledger'[last].amount = NetOf(b) /\ ledger'[last].after = after
      /\ last = Len(ledger) + 1
  BY <1>0, <1>2, <1>3
<1>5. Atomic!TypeOK'
  BY <1>1, <1>3, <1>4, SameRules
     DEF LedgerInv, Atomic!TypeOK, Atomic!BookingStatus, Atomic!PaymentStatus
<1>6. RowsArePast'
  BY <1>3, <1>4 DEF LedgerInv, RowsArePast, CreditRows, Atomic!TypeOK
<1>7. \A i \in 1..Len(ledger) : ledger[i].booking # b
  BY <1>1 DEF LedgerInv, RowsArePast
<1>8. CreditedOnce'
  <2> SUFFICES ASSUME NEW i \in 1..last, NEW j \in 1..last,
                      ledger'[i].booking = ledger'[j].booking
               PROVE  i = j
    BY <1>4 DEF CreditedOnce, Atomic!CreditedOnce
  <2>1. i \in 1..Len(ledger) \/ i = last
    BY <1>4
  <2>2. j \in 1..Len(ledger) \/ j = last
    BY <1>4
  <2>3. QED
    BY <1>4, <1>7, <2>1, <2>2 DEF LedgerInv, CreditedOnce, Atomic!CreditedOnce
<1>9. BalanceIsLastAfter'
  <2> SUFFICES ASSUME NEW p \in Owner PROVE BalanceIsLastAfter!(p)'
    BY DEF BalanceIsLastAfter
  <2>1. CASE p = o
    <3>1. balance'[p] = ledger'[last].after
      BY <1>1, <1>3, <1>4, <2>1 DEF LedgerInv, Atomic!TypeOK
    <3>2. last \in 1..Len(ledger') /\ \A k \in (last + 1)..Len(ledger') : ledger'[k].owner # p
      BY <1>4
    <3>3. QED
      BY <1>4, <2>1, <3>1, <3>2
  <2>2. CASE p # o
    <3>1. balance'[p] = balance[p]
      BY <1>3, <2>2 DEF LedgerInv, Atomic!TypeOK
    <3>2. CASE \E i \in 1..Len(ledger) :
                 /\ ledger[i].owner = p
                 /\ \A k \in (i + 1)..Len(ledger) : ledger[k].owner # p
                 /\ balance[p] = ledger[i].after
      <4>1. PICK i \in 1..Len(ledger) :
                 /\ ledger[i].owner = p
                 /\ \A k \in (i + 1)..Len(ledger) : ledger[k].owner # p
                 /\ balance[p] = ledger[i].after
        BY <3>2
      <4>2. \A k \in (i + 1)..Len(ledger') : ledger'[k].owner # p
        <5> SUFFICES ASSUME NEW k \in (i + 1)..last PROVE ledger'[k].owner # p
          BY <1>4
        <5>1. k = last \/ k \in (i + 1)..Len(ledger)
          BY <1>4
        <5>2. QED
          BY <1>4, <2>2, <4>1, <5>1
      <4>3. QED
        BY <1>4, <3>1, <4>1, <4>2
    <3>3. CASE (\A i \in 1..Len(ledger) : ledger[i].owner # p) /\ balance[p] = 0
      <4>1. \A i \in 1..Len(ledger') : ledger'[i].owner # p
        BY <1>4, <2>2, <3>3
      <4>2. QED
        BY <3>1, <3>3, <4>1
    <3>4. QED
      BY <3>2, <3>3 DEF LedgerInv, BalanceIsLastAfter
  <2>3. QED
    BY <2>1, <2>2
<1>10. RunningBalance'
  <2>0. ASSUME NEW i \in 1..Len(ledger), NEW j \in 1..Len(ledger), Atomic!Precedes(j, i)
        PROVE  Atomic!Precedes(j, i)'
    <3>1. \A k \in (j + 1)..(i - 1) : k \in 1..Len(ledger)
      BY <1>4
    <3>2. QED
      BY <1>4, <2>0, <3>1 DEF Atomic!Precedes
  <2> SUFFICES ASSUME NEW i \in 1..last
               PROVE  \/ \E j \in 1..last :
                           /\ Atomic!Precedes(j, i)'
                           /\ ledger'[i].after = ledger'[j].after + ledger'[i].amount
                      \/ /\ \A j \in 1..(i - 1) : ledger'[j].owner # ledger'[i].owner
                         /\ ledger'[i].after = ledger'[i].amount
    BY <1>4 DEF RunningBalance, Atomic!RunningBalance
  <2>1. CASE i \in 1..Len(ledger)
    <3>1. CASE \E j \in 1..Len(ledger) :
                 Atomic!Precedes(j, i) /\ ledger[i].after = ledger[j].after + ledger[i].amount
      <4>1. PICK j \in 1..Len(ledger) :
                 Atomic!Precedes(j, i) /\ ledger[i].after = ledger[j].after + ledger[i].amount
        BY <3>1
      <4>2. j \in 1..last /\ Atomic!Precedes(j, i)'
        BY <1>4, <2>0, <2>1, <4>1
      <4>3. QED
        BY <1>4, <2>1, <4>1, <4>2
    <3>2. CASE /\ \A j \in 1..(i - 1) : ledger[j].owner # ledger[i].owner
               /\ ledger[i].after = ledger[i].amount
      BY <1>4, <2>1, <3>2
    <3>3. QED
      BY <2>1, <3>1, <3>2 DEF LedgerInv, RunningBalance, Atomic!RunningBalance
  <2>2. CASE i = last
    <3>1. CASE \E j \in 1..Len(ledger) :
                 /\ ledger[j].owner = o
                 /\ \A k \in (j + 1)..Len(ledger) : ledger[k].owner # o
                 /\ balance[o] = ledger[j].after
      <4>1. PICK j \in 1..Len(ledger) :
                 /\ ledger[j].owner = o
                 /\ \A k \in (j + 1)..Len(ledger) : ledger[k].owner # o
                 /\ balance[o] = ledger[j].after
        BY <3>1
      <4>2. Atomic!Precedes(j, last)'
        <5>1. \A k \in (j + 1)..(last - 1) : k \in (j + 1)..Len(ledger) /\ k \in 1..Len(ledger)
          BY <1>4, <4>1
        <5>2. /\ ledger'[j].owner = ledger'[last].owner /\ j < last
              /\ \A k \in (j + 1)..(last - 1) : ledger'[k].owner # ledger'[last].owner
          BY <1>4, <4>1, <5>1
        <5>3. QED
          BY <5>2 DEF Atomic!Precedes
      <4>3. ledger'[last].after = ledger'[j].after + ledger'[last].amount
        BY <1>1, <1>4, <4>1
      <4>4. j \in 1..last
        BY <1>4, <4>1
      <4>5. QED
        BY <2>2, <4>2, <4>3, <4>4
    <3>2. CASE (\A j \in 1..Len(ledger) : ledger[j].owner # o) /\ balance[o] = 0
      BY <1>1, <1>4, <2>2, <3>2
    <3>3. QED
      BY <1>1, <3>1, <3>2 DEF LedgerInv, BalanceIsLastAfter
  <2>3. QED
    BY <1>4, <2>1, <2>2
<1>11. QED
  BY <1>5, <1>6, <1>8, <1>9, <1>10 DEF LedgerInv

\* The operations keep the ledger in order, and none takes back a cancellation
\* or a success.
LEMMA NextLedger ==
  ASSUME LedgerInv, [Atomic!Next]_(Atomic!vars)
  PROVE  /\ LedgerInv'
         /\ \A b \in Booking : status[b] = "CANCELLED" => status'[b] = "CANCELLED"
         /\ \A b \in Booking : payment[b] = "SUCCESS" => payment'[b] = "SUCCESS"
<1> DEFINE Final == /\ \A b \in Booking : status[b] = "CANCELLED" => status'[b] = "CANCELLED"
                    /\ \A b \in Booking : payment[b] = "SUCCESS" => payment'[b] = "SUCCESS"
           Past == \A b \in Booking : status[b] \in {"CONFIRMED", "CANCELLED"} =>
                                        status'[b] \in {"CONFIRMED", "CANCELLED"}
<1> USE DEF Atomic!BookingStatus, Atomic!PaymentStatus
<1>1. ASSUME NEW b \in Booking, Atomic!Settle(b) PROVE LedgerInv' /\ Final
  BY <1>1, CreditKeepsLedger
     DEF LedgerInv, Atomic!TypeOK, Atomic!Settle, Atomic!Awaiting
<1>2. ASSUME NEW b \in Booking,
             \/ Atomic!Create(b) \/ Atomic!SettleUnowned(b) \/ Atomic!Cancel(b)
      PROVE  Atomic!TypeOK' /\ UNCHANGED <<ledger, balance>> /\ Past /\ Final
  BY <1>2 DEF LedgerInv, Atomic!TypeOK, Atomic!Create, Atomic!SettleUnowned, Atomic!Cancel,
              Atomic!Awaiting
<1>3. ASSUME NEW b \in Booking,
             \/ Atomic!InitiatePayment(b) \/ Atomic!Charge(b) \/ Atomic!SettleLate(b)
             \/ Atomic!MarkFailed(b) \/ Atomic!Age(b)
      PROVE  Atomic!TypeOK' /\ UNCHANGED <<ledger, balance>> /\ Past /\ Final
  BY <1>3 DEF LedgerInv, Atomic!TypeOK, Atomic!InitiatePayment, Atomic!Charge, Atomic!SettleLate,
              Atomic!MarkFailed, Atomic!Age
<1>4. ASSUME NEW S \in SUBSET Booking, Atomic!Expire(S)
      PROVE  Atomic!TypeOK' /\ UNCHANGED <<ledger, balance>> /\ Past /\ Final
  BY <1>4 DEF LedgerInv, Atomic!TypeOK, Atomic!Expire
<1>5. ASSUME NEW o \in Owner, Atomic!OpenWallet(o)
      PROVE  Atomic!TypeOK' /\ UNCHANGED <<ledger, balance>> /\ Past /\ Final
  BY <1>5 DEF LedgerInv, Atomic!TypeOK, Atomic!OpenWallet
<1>6. CASE UNCHANGED Atomic!vars
  <2>1. UNCHANGED <<status, payment, wallets, balance, ledger, aged, charged>>
    BY <1>6 DEF Atomic!vars
  <2>2. Atomic!TypeOK'
    BY <2>1 DEF LedgerInv, Atomic!TypeOK
  <2>3. Past /\ Final
    BY <2>1
  <2>4. QED
    BY <2>1, <2>2, <2>3, NothingCredited
<1>7. QED
  BY <1>1, <1>2, <1>3, <1>4, <1>5, <1>6, NothingCredited DEF Atomic!Next, Atomic!vars

\* BookingLedger credits a booking at most once, keeps running balances, and
\* never takes back a cancellation or a success.
THEOREM LedgerKept ==
  ImplementsLedger => /\ [](CreditedOnce /\ RunningBalance)
                      /\ SuccessIsFinal
                      /\ Atomic!CancelledIsFinal
<1>1. LedgerInv /\ [Atomic!Next]_(Atomic!vars) => LedgerInv'
  BY NextLedger
<1>2. ImplementsLedger => []LedgerInv
  BY <1>1, InitLedger, PTL DEF ImplementsLedger, Atomic!Spec
<1>3. LedgerInv => CreditedOnce /\ RunningBalance
  BY DEF LedgerInv
<1>4. LedgerInv /\ [Atomic!Next]_(Atomic!vars) =>
        [\A b \in Booking : payment[b] = "SUCCESS" => payment'[b] = "SUCCESS"]_(Atomic!vars)
  BY NextLedger
<1>5. LedgerInv /\ [Atomic!Next]_(Atomic!vars) =>
        [\A b \in Booking : status[b] = "CANCELLED" => status'[b] = "CANCELLED"]_(Atomic!vars)
  BY NextLedger
<1>6. QED
  BY <1>2, <1>3, <1>4, <1>5, PTL
     DEF ImplementsLedger, Atomic!Spec, SuccessIsFinal, Atomic!SuccessIsFinal,
         Atomic!CancelledIsFinal

\* However often Paystack repeats an event, as long as requests stay apart a
\* booking is credited once.
THEOREM CreditOnce == ApartSpec => []CreditedOnce
<1>1. QED
  BY LedgerImplemented, LedgerKept, PTL

\* As long as requests stay apart, balance_after is a running balance.
THEOREM BalanceRuns == ApartSpec => []RunningBalance
<1>1. QED
  BY LedgerImplemented, LedgerKept, PTL

\* As long as requests stay apart, a late charge.failed changes no successful
\* payment.
THEOREM SuccessStands == ApartSpec => SuccessIsFinal
<1>1. QED
  BY LedgerImplemented, LedgerKept, PTL
=============================================================================
