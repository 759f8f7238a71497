--------------------------- MODULE BookingPayments ---------------------------
(***************************************************************************)
(* The booking, payment and wallet handlers as they run: coroutines of     *)
(* several worker processes, each with a database session of its own,      *)
(* interleaved at every await.  A handler reads committed rows (READ       *)
(* COMMITTED), keeps what it read in its session, and writes rows by       *)
(* primary key; a written row stays locked until the commit publishes all  *)
(* the writes of the transaction together.  An exception or a dead worker  *)
(* rolls them back.                                                        *)
(*                                                                         *)
(* pc[h] names the next statement of handler h; req[h] is what it was      *)
(* asked and what its session remembers.  The pending writes and the row   *)
(* locks of a handler follow from the two.                                 *)
(***************************************************************************)
EXTENDS Stays

CONSTANTS
  Handler,      \* request handlers and maintenance passes that can overlap
  Traffic,      \* the kinds of request that arrive
  MaxCrashes    \* bound on handlers killed in mid-request

ASSUME HandlersAssumption ==
  /\ Handler # {}
  /\ Traffic \subseteq {"create", "webhook", "cancel", "expire", "wallet"}
  /\ MaxCrashes \in Nat

VARIABLES
  status, payment, wallets, balance, ledger,  \* committed rows, see BookingLedger
  audit,    \* bookings with a booking.cancel row in the audit log
  aged,     \* bookings past BOOKING_PAYMENT_TIMEOUT_MINUTES
  charged,  \* bookings whose guest Paystack has charged
  events,   \* <<booking, kind>> of the webhooks Paystack has sent
  acked,    \* the events it has seen answered 200
  mailed,   \* <<booking, template>> of the notices handed to the mailer
  pc, req,  \* the handlers
  crashes

rows == <<status, payment, wallets, balance, ledger, audit>>
paystack == <<charged, events>>
outbox == <<acked, mailed>>
handlers == <<pc, req>>
vars == <<rows, aged, paystack, outbox, handlers, crashes>>

Kinds == {"success", "failed"}
Templates == {"booking_confirmed", "booking_cancelled"}

Steps ==
  {"idle", "insert_booking", "insert_payment",
   "get_booking", "flush_status", "get_wallet", "insert_wallet",
   "update_wallet", "commit_settle", "respond",
   "flush_failed", "commit_failed",
   "flush_cancel", "commit_cancel", "mail_cancel",
   "flush_expire", "commit_expire", "commit_wallet"}

\* booking, owner: the row asked about; pay, st, bal: columns as read;
\* own: this transaction inserted the wallet row; batch: rows of a sweep.
Request ==
  [booking : Booking \cup {None}, owner : Owner \cup {None},
   pay : PaymentStatus, st : BookingStatus, bal : Nat, own : BOOLEAN,
   batch : SUBSET Booking]

NoRequest ==
  [booking |-> None, owner |-> None, pay |-> "NONE", st |-> "NONE",
   bal |-> 0, own |-> FALSE, batch |-> {}]

Init ==
  /\ status = [b \in Booking |-> "NONE"]
  /\ payment = [b \in Booking |-> "NONE"]
  /\ wallets = {}
  /\ balance = [o \in Owner |-> 0]
  /\ ledger = <<>>
  /\ audit = {}
  /\ aged = {}
  /\ charged = {}
  /\ events = {}
  /\ acked = {}
  /\ mailed = {}
  /\ pc = [h \in Handler |-> "idle"]
  /\ req = [h \in Handler |-> NoRequest]
  /\ crashes = 0

-----------------------------------------------------------------------------
(* Row locks: what each handler has written and not yet committed.         *)

WritesPayment(h, b) ==
  /\ req[h].booking = b
  /\ pc[h] \in {"get_wallet", "insert_wallet", "update_wallet",
                "commit_settle", "commit_failed"}

WritesBooking(h, b) ==
  \/ /\ pc[h] \in {"get_wallet", "insert_wallet", "update_wallet", "commit_settle"}
     /\ req[h].booking = b
     /\ req[h].st = "PENDING_PAYMENT"
  \/ /\ pc[h] = "commit_cancel"
     /\ req[h].booking = b
     /\ req[h].st # "CANCELLED"
  \/ /\ pc[h] = "commit_expire"
     /\ b \in req[h].batch

WritesWallet(h, o) ==
  /\ req[h].owner = o
  /\ \/ pc[h] \in {"commit_settle", "commit_wallet"}
     \/ pc[h] = "update_wallet" /\ req[h].own

PaymentFree(b) == \A h \in Handler : ~ WritesPayment(h, b)
BookingFree(b) == \A h \in Handler : ~ WritesBooking(h, b)
\* Mutant: the credit runs in a session of its own.
WalletFreeOfAll(h, o) == \A g \in Handler : ~ WritesWallet(g, o)
WalletFree(h, o) == \A g \in Handler \ {h} : ~ WritesWallet(g, o)

-----------------------------------------------------------------------------
(* Control flow of a handler.                                              *)

Begin(h, r, step) ==
  /\ pc[h] = "idle"
  /\ req' = [req EXCEPT ![h] = r]
  /\ pc' = [pc EXCEPT ![h] = step]

Goto(h, step) ==
  /\ pc' = [pc EXCEPT ![h] = step]
  /\ UNCHANGED req

Finish(h) ==
  /\ pc' = [pc EXCEPT ![h] = "idle"]
  /\ req' = [req EXCEPT ![h] = NoRequest]

\* A request about booking b, after reading its payment's or its own status.
Ask(b, payStatus, bookingStatus) ==
  [booking |-> b, owner |-> None, pay |-> payStatus, st |-> bookingStatus,
   bal |-> 0, own |-> FALSE, batch |-> {}]

-----------------------------------------------------------------------------
(* POST /bookings                                                          *)

\* create_booking up to the overlap check.  A request that is refused (404,
\* 409, 422) leaves no trace and is not a step.
CheckDates(h, b) ==
  /\ status[b] = "NONE"
  /\ \A g \in Handler : pc[g] = "insert_booking" => req[g].booking # b
  /\ ~ \E c \in Booking : status[c] = "CONFIRMED" /\ SharesNight(b, c)
  /\ Begin(h, Ask(b, "NONE", "NONE"), "insert_booking")
  /\ UNCHANGED <<rows, aged, paystack, outbox, crashes>>

\* INSERT the booking and commit it, before the payment is started.
InsertBooking(h) ==
  /\ pc[h] = "insert_booking"
  /\ status' = [status EXCEPT ![req[h].booking] = "PENDING_PAYMENT"]
  /\ Goto(h, "insert_payment")
  /\ UNCHANGED <<payment, wallets, balance, ledger, audit,
                 aged, paystack, outbox, crashes>>

\* Mutant: the request writes the status it remembers along with the payment.
InsertPaymentAndStatus(h) ==
  /\ pc[h] = "insert_payment"
  /\ payment' = [payment EXCEPT ![req[h].booking] = "PENDING"]
  /\ status' = [status EXCEPT ![req[h].booking] = "PENDING_PAYMENT"]
  /\ Finish(h)
  /\ UNCHANGED <<wallets, balance, ledger, audit,
                 aged, paystack, outbox, crashes>>

\* initiate_payment: Paystack has accepted the transaction; INSERT, commit.
InsertPayment(h) ==
  /\ pc[h] = "insert_payment"
  /\ payment' = [payment EXCEPT ![req[h].booking] = "PENDING"]
  /\ Finish(h)
  /\ UNCHANGED <<status, wallets, balance, ledger, audit,
                 aged, paystack, outbox, crashes>>

\* Paystack is not configured, refuses or times out, or the redirect URL is
\* not allowed: the request fails and the committed booking stays behind.
RefusePayment(h) ==
  /\ pc[h] = "insert_payment"
  /\ Finish(h)
  /\ UNCHANGED <<rows, aged, paystack, outbox, crashes>>

-----------------------------------------------------------------------------
(* POST /payments/webhook/paystack                                         *)

\* Mutant: every event with a known reference settles the payment.
AnyEvent(kind) == kind \in Kinds

SettlesOn(kind) == kind = "success"

\* Mutant: mark_failed has no guard against a payment that has succeeded.
ReceiveAny(h, b, kind) ==
  /\ <<b, kind>> \in events
  /\ Begin(h, Ask(b, payment[b], "NONE"),
           IF SettlesOn(kind) THEN "get_booking" ELSE "flush_failed")
  /\ UNCHANGED <<rows, aged, paystack, outbox, crashes>>

\* get_payment_by_reference.  An event may arrive any number of times; one that
\* is not charge.success goes to mark_failed.
Receive(h, b, kind) ==
  /\ <<b, kind>> \in events
  /\ SettlesOn(kind) \/ payment[b] # "SUCCESS"
  /\ Begin(h, Ask(b, payment[b], "NONE"),
           IF SettlesOn(kind) THEN "get_booking" ELSE "flush_failed")
  /\ UNCHANGED <<rows, aged, paystack, outbox, crashes>>

\* mark_failed on a payment that was read as SUCCESS does nothing.
IgnoreFailed(h, b) ==
  /\ <<b, "failed">> \in events
  /\ pc[h] = "idle"
  /\ payment[b] = "SUCCESS"
  /\ acked' = acked \cup {<<b, "failed">>}
  /\ UNCHANGED <<rows, aged, paystack, mailed, handlers, crashes>>

\* Mutant: only a payment that never failed is settled.
NotPending(h) == req[h].pay # "PENDING"

\* mark_paid_and_settle returns early on a payment that was read as SUCCESS.
AlreadySettled(h) == req[h].pay = "SUCCESS"

\* mark_paid_and_settle reads the booking, then looks at the payment.
GetBooking(h) ==
  /\ pc[h] = "get_booking"
  /\ req' = [req EXCEPT ![h].st = status[req[h].booking]]
  /\ pc' = [pc EXCEPT ![h] = IF AlreadySettled(h) THEN "respond" ELSE "flush_status"]
  /\ UNCHANGED <<rows, aged, paystack, outbox, crashes>>

\* Mutant: a paid booking is confirmed whatever its status.
ConfirmsAny(h) == req[h].st # "NONE"

Confirms(h) == req[h].st = "PENDING_PAYMENT"

\* Mutant: a payment that failed before it succeeded is not credited.
CreditsFirstAttempt(h) ==
  Confirms(h) /\ OwnerOf[req[h].booking] # None /\ req[h].pay = "PENDING"

Credits(h) == Confirms(h) /\ OwnerOf[req[h].booking] # None

\* Mutant: the statuses are committed before the wallet is credited.
CommitStatusFirst(h) ==
  LET b == req[h].booking IN
  /\ pc[h] = "flush_status"
  /\ PaymentFree(b)
  /\ payment' = [payment EXCEPT ![b] = "SUCCESS"]
  /\ status' = IF Confirms(h) THEN [status EXCEPT ![b] = "CONFIRMED"] ELSE status
  /\ req' = [req EXCEPT ![h].owner = IF Credits(h) THEN OwnerOf[b] ELSE None]
  /\ pc' = [pc EXCEPT ![h] = IF Credits(h) THEN "get_wallet" ELSE "commit_settle"]
  /\ UNCHANGED <<wallets, balance, ledger, audit, aged, paystack, outbox, crashes>>

\* The autoflush of db.get(Property), or the final flush when there is no
\* owner to credit: UPDATE payments and, if the session saw the booking
\* pending, UPDATE bookings.  Waits for the row locks.
FlushStatus(h) ==
  LET b == req[h].booking IN
  /\ pc[h] = "flush_status"
  /\ PaymentFree(b)
  /\ Confirms(h) => BookingFree(b)
  /\ req' = [req EXCEPT ![h].owner = IF Credits(h) THEN OwnerOf[b] ELSE None]
  /\ pc' = [pc EXCEPT ![h] = IF Credits(h) THEN "get_wallet" ELSE "commit_settle"]
  /\ UNCHANGED <<rows, aged, paystack, outbox, crashes>>

\* Mutant: the balance that is there is not looked at.
GetWalletOnly(h) ==
  /\ pc[h] = "get_wallet"
  /\ pc' = [pc EXCEPT ![h] = IF req[h].owner \in wallets THEN "update_wallet"
                                                         ELSE "insert_wallet"]
  /\ UNCHANGED <<req, rows, aged, paystack, outbox, crashes>>

\* get_or_create_wallet: SELECT.
GetWallet(h) ==
  LET o == req[h].owner IN
  /\ pc[h] = "get_wallet"
  /\ req' = [req EXCEPT ![h].bal = balance[o]]
  /\ pc' = [pc EXCEPT ![h] = IF o \in wallets THEN "update_wallet" ELSE "insert_wallet"]
  /\ UNCHANGED <<rows, aged, paystack, outbox, crashes>>

\* Mutant: INSERT ... ON CONFLICT DO UPDATE instead of a plain INSERT.
NeverConflicts(o) == FALSE

\* The INSERT of a row whose primary key is committed raises IntegrityError.
Conflicts(o) == o \in wallets

\* get_or_create_wallet: INSERT, with balance 0.  It waits for another open
\* insert of the row, and fails if that one has been committed.
InsertWallet(h) ==
  LET o == req[h].owner IN
  /\ pc[h] = "insert_wallet"
  /\ WalletFree(h, o)
  /\ IF Conflicts(o)
       THEN Finish(h)
       ELSE /\ req' = [req EXCEPT ![h].own = TRUE, ![h].bal = 0]
            /\ pc' = [pc EXCEPT ![h] = IF req[h].booking = None THEN "commit_wallet"
                                                                ELSE "update_wallet"]
  /\ UNCHANGED <<rows, aged, paystack, outbox, crashes>>

\* Mutant: the column is taken to hold any sum.
AnySum(n) == n \in Nat

\* A larger value does not fit the INTEGER column: the statement fails.
Fits(n) == n <= IntMax

\* credit: balance += net in the session, then UPDATE wallets and INSERT the
\* ledger row.
UpdateWallet(h) ==
  LET after == req[h].bal + NetOf(req[h].booking) IN
  /\ pc[h] = "update_wallet"
  /\ WalletFree(h, req[h].owner)
  /\ IF Fits(after)
       THEN /\ req' = [req EXCEPT ![h].bal = after]
            /\ pc' = [pc EXCEPT ![h] = "commit_settle"]
       ELSE Finish(h)
  /\ UNCHANGED <<rows, aged, paystack, outbox, crashes>>

\* Mutant: SET balance = balance + net, with balance_after from the session.
Incremented(h) == balance[req[h].owner] + NetOf(req[h].booking)

\* The UPDATE sets the sum the session computed, not an increment.
WrittenBalance(h) == req[h].bal

\* Mutant: the credit is committed before the statuses, and the worker may die
\* in between.
CommitCreditFirst(h) ==
  LET b == req[h].booking
      o == req[h].owner
  IN
  /\ pc[h] = "commit_settle"
  /\ wallets' = IF o = None THEN wallets ELSE wallets \cup {o}
  /\ balance' = IF o = None THEN balance ELSE [balance EXCEPT ![o] = req[h].bal]
  /\ ledger' = IF o = None THEN ledger ELSE Append(ledger, CreditRow(b, req[h].bal))
  /\ \/ /\ payment' = [payment EXCEPT ![b] = "SUCCESS"]
        /\ status' = IF Confirms(h) THEN [status EXCEPT ![b] = "CONFIRMED"] ELSE status
        /\ Goto(h, "respond")
     \/ UNCHANGED <<payment, status>> /\ Finish(h)
  /\ UNCHANGED <<audit, aged, paystack, outbox, crashes>>

\* db.commit(): the rows written since the first flush become visible.
CommitSettlement(h) ==
  LET b == req[h].booking
      o == req[h].owner
  IN
  /\ pc[h] = "commit_settle"
  /\ payment' = [payment EXCEPT ![b] = "SUCCESS"]
  /\ status' = IF Confirms(h) THEN [status EXCEPT ![b] = "CONFIRMED"] ELSE status
  /\ IF o = None
       THEN UNCHANGED <<wallets, balance, ledger>>
       ELSE /\ wallets' = wallets \cup {o}
            /\ balance' = [balance EXCEPT ![o] = WrittenBalance(h)]
            /\ ledger' = Append(ledger, CreditRow(b, req[h].bal))
  /\ Goto(h, "respond")
  /\ UNCHANGED <<audit, aged, paystack, outbox, crashes>>

\* Queue the booking-confirmed notice, answer 200.
Respond(h) ==
  LET b == req[h].booking IN
  /\ pc[h] = "respond"
  /\ mailed' = mailed \cup {<<b, "booking_confirmed">>}
  /\ acked' = acked \cup {<<b, "success">>}
  /\ Finish(h)
  /\ UNCHANGED <<rows, aged, paystack, crashes>>

FlushFailed(h) ==
  /\ pc[h] = "flush_failed"
  /\ PaymentFree(req[h].booking)
  /\ Goto(h, "commit_failed")
  /\ UNCHANGED <<rows, aged, paystack, outbox, crashes>>

\* The status column is in the UPDATE only if the session saw it change.
CommitFailed(h) ==
  LET b == req[h].booking IN
  /\ pc[h] = "commit_failed"
  /\ payment' = IF req[h].pay = "FAILED" THEN payment
                ELSE [payment EXCEPT ![b] = "FAILED"]
  /\ acked' = acked \cup {<<b, "failed">>}
  /\ Finish(h)
  /\ UNCHANGED <<status, wallets, balance, ledger, audit,
                 aged, paystack, mailed, crashes>>

-----------------------------------------------------------------------------
(* POST /bookings/cancel and DELETE /bookings/{id}                         *)

ReadForCancel(h, b) ==
  /\ status[b] # "NONE"
  /\ Begin(h, Ask(b, "NONE", status[b]), "flush_cancel")
  /\ UNCHANGED <<rows, aged, paystack, outbox, crashes>>

\* cancel_booking: a booking read as CANCELLED is returned as it is.
FlushCancel(h) ==
  /\ pc[h] = "flush_cancel"
  /\ req[h].st # "CANCELLED" => BookingFree(req[h].booking)
  /\ Goto(h, "commit_cancel")
  /\ UNCHANGED <<rows, aged, paystack, outbox, crashes>>

\* by: the guest with code and e-mail, or an account (owner or staff), whose
\* cancellation is audited.
CommitCancel(h, by) ==
  LET b == req[h].booking IN
  /\ pc[h] = "commit_cancel"
  /\ status' = IF req[h].st = "CANCELLED" THEN status
               ELSE [status EXCEPT ![b] = "CANCELLED"]
  /\ audit' = IF by = "account" THEN audit \cup {b} ELSE audit
  /\ Goto(h, "mail_cancel")
  /\ UNCHANGED <<payment, wallets, balance, ledger,
                 aged, paystack, outbox, crashes>>

MailCancel(h) ==
  /\ pc[h] = "mail_cancel"
  /\ mailed' = mailed \cup {<<req[h].booking, "booking_cancelled">>}
  /\ Finish(h)
  /\ UNCHANGED <<rows, aged, paystack, acked, crashes>>

-----------------------------------------------------------------------------
(* expire_unpaid, in the maintenance pass of each worker                   *)

\* Mutant: only a booking with a payment row expires.
ExpirableIfInitiated ==
  {b \in Booking :
     status[b] = "PENDING_PAYMENT" /\ b \in aged /\ payment[b] # "NONE"}
Expirable == {b \in Booking : status[b] = "PENDING_PAYMENT" /\ b \in aged}

ReadExpired(h) ==
  /\ Expirable # {}
  /\ Begin(h, [NoRequest EXCEPT !.batch = Expirable], "flush_expire")
  /\ UNCHANGED <<rows, aged, paystack, outbox, crashes>>

FlushExpired(h) ==
  /\ pc[h] = "flush_expire"
  /\ \A b \in req[h].batch : BookingFree(b)
  /\ Goto(h, "commit_expire")
  /\ UNCHANGED <<rows, aged, paystack, outbox, crashes>>

CommitExpired(h) ==
  /\ pc[h] = "commit_expire"
  /\ status' = [b \in Booking |->
                  IF b \in req[h].batch THEN "CANCELLED" ELSE status[b]]
  /\ Finish(h)
  /\ UNCHANGED <<payment, wallets, balance, ledger, audit,
                 aged, paystack, outbox, crashes>>

-----------------------------------------------------------------------------
(* GET /staff/wallet: creates the row of an owner who has none             *)

LookAtWallet(h, o) ==
  /\ o \notin wallets
  /\ Begin(h, [NoRequest EXCEPT !.owner = o], "insert_wallet")
  /\ UNCHANGED <<rows, aged, paystack, outbox, crashes>>

CommitWallet(h) ==
  /\ pc[h] = "commit_wallet"
  /\ wallets' = wallets \cup {req[h].owner}
  /\ balance' = [balance EXCEPT ![req[h].owner] = 0]
  /\ Finish(h)
  /\ UNCHANGED <<status, payment, ledger, audit,
                 aged, paystack, outbox, crashes>>

-----------------------------------------------------------------------------
(* What the handlers do not control                                        *)

\* The guest pays on Paystack's page, whatever became of the booking.
GuestPays(b) ==
  /\ payment[b] # "NONE"
  /\ b \notin charged
  /\ charged' = charged \cup {b}
  /\ events' = events \cup {<<b, "success">>}
  /\ UNCHANGED <<rows, aged, outbox, handlers, crashes>>

\* An attempt is declined; the guest may try again.
AttemptDeclined(b) ==
  /\ payment[b] # "NONE"
  /\ b \notin charged
  /\ <<b, "failed">> \notin events
  /\ events' = events \cup {<<b, "failed">>}
  /\ UNCHANGED <<rows, aged, charged, outbox, handlers, crashes>>

\* Time passes.
Age(b) ==
  /\ status[b] # "NONE"
  /\ b \notin aged
  /\ aged' = aged \cup {b}
  /\ UNCHANGED <<rows, paystack, outbox, handlers, crashes>>

\* A lost connection, a cancelled request or a killed worker: the session
\* rolls back.
Crash(h) ==
  /\ pc[h] # "idle"
  /\ crashes < MaxCrashes
  /\ crashes' = crashes + 1
  /\ Finish(h)
  /\ UNCHANGED <<rows, aged, paystack, outbox>>

-----------------------------------------------------------------------------
Starts(h) ==
  \/ "create" \in Traffic /\ \E b \in Booking : CheckDates(h, b)
  \/ "webhook" \in Traffic /\ \E b \in Booking :
       IgnoreFailed(h, b) \/ \E kind \in Kinds : Receive(h, b, kind)
  \/ "cancel" \in Traffic /\ \E b \in Booking : ReadForCancel(h, b)
  \/ "expire" \in Traffic /\ ReadExpired(h)
  \/ "wallet" \in Traffic /\ \E o \in Owner : LookAtWallet(h, o)

\* The steps of a request in progress.
Continues(h) ==
  \/ InsertBooking(h)
  \/ InsertPayment(h)
  \/ RefusePayment(h)
  \/ GetBooking(h)
  \/ FlushStatus(h)
  \/ GetWallet(h)
  \/ InsertWallet(h)
  \/ UpdateWallet(h)
  \/ CommitSettlement(h)
  \/ Respond(h)
  \/ FlushFailed(h)
  \/ CommitFailed(h)
  \/ FlushCancel(h)
  \/ \E by \in {"guest", "account"} : CommitCancel(h, by)
  \/ MailCancel(h)
  \/ FlushExpired(h)
  \/ CommitExpired(h)
  \/ CommitWallet(h)

World ==
  \E b \in Booking : GuestPays(b) \/ AttemptDeclined(b) \/ Age(b)

Next ==
  \/ \E h \in Handler : Starts(h) \/ Continues(h) \/ Crash(h)
  \/ World

Spec == Init /\ [][Next]_vars

(***************************************************************************)
(* The server finishes the requests it accepts, Paystack repeats an event  *)
(* until it is answered 200, and every worker's cleanup_loop comes round   *)
(* again.  Strong fairness: PostgreSQL grants a row lock to its waiters in *)
(* the order they came, and a server is never busy for good, only the      *)
(* finite set Handler may be.  Guests and owners may stop at any point.    *)
(***************************************************************************)
Redeliver(b, kind) ==
  /\ <<b, kind>> \notin acked
  /\ "webhook" \in Traffic
  /\ \E h \in Handler :
       \/ Receive(h, b, kind)
       \/ kind = "failed" /\ IgnoreFailed(h, b)

Sweep == "expire" \in Traffic /\ \E h \in Handler : ReadExpired(h)

Fairness ==
  /\ \A h \in Handler : SF_vars(Continues(h))
  /\ \A b \in Booking, kind \in Kinds : SF_vars(Redeliver(b, kind))
  /\ SF_vars(Sweep)
  /\ \A b \in Booking : WF_vars(Age(b))

FairSpec == Spec /\ Fairness
-----------------------------------------------------------------------------
TypeOK ==
  /\ status \in [Booking -> BookingStatus]
  /\ payment \in [Booking -> PaymentStatus]
  /\ wallets \subseteq Owner
  /\ balance \in [Owner -> 0..IntMax]
  /\ ledger \in Seq(CreditRows)
  /\ audit \subseteq Booking
  /\ aged \subseteq Booking
  /\ charged \subseteq Booking
  /\ events \subseteq Booking \X Kinds
  /\ acked \subseteq Booking \X Kinds
  /\ mailed \subseteq Booking \X Templates
  /\ pc \in [Handler -> Steps]
  /\ req \in [Handler -> Request]
  /\ crashes \in 0..MaxCrashes

Credited(b) == \E i \in 1..Len(ledger) : ledger[i].booking = b

\* A booking is CONFIRMED only if Paystack charged the guest and, where the
\* listing has an owner, the credit was committed in the same transaction.
\* It must survive any interleaving and a crash between any two statements.
ConfirmedIsCredited ==
  \A b \in Booking :
    status[b] = "CONFIRMED" =>
      b \in charged /\ (OwnerOf[b] # None => Credited(b))

\* Owners are credited for charged bookings of theirs, by the net amount:
\* declined attempts, cancellations and sweeps never put money in a wallet.
CreditsAreEarned ==
  \A i \in 1..Len(ledger) :
    LET b == ledger[i].booking IN
    /\ b \in charged
    /\ ledger[i].owner = OwnerOf[b]
    /\ ledger[i].amount = NetOf(b)
    /\ status[b] \in {"CONFIRMED", "CANCELLED"}

\* The wallet row always shows the balance_after of the owner's last ledger
\* row, even when that row was computed from a stale balance or the wallet
\* row was being created by another request.
BalanceIsLastAfter ==
  \A o \in Owner :
    \/ \E i \in 1..Len(ledger) :
         /\ ledger[i].owner = o
         /\ \A k \in (i + 1)..Len(ledger) : ledger[k].owner # o
         /\ balance[o] = ledger[i].after
    \/ /\ \A i \in 1..Len(ledger) : ledger[i].owner # o
       /\ balance[o] = 0

\* A payment recorded as SUCCESS has been credited to the owner of the
\* listing, unless the booking is cancelled: no order of webhooks, crashes and
\* cancellations makes the code forget a credit it owes.
NoCreditForgotten ==
  \A b \in Booking :
    payment[b] = "SUCCESS" /\ OwnerOf[b] # None =>
      Credited(b) \/ status[b] = "CANCELLED"

\* No guest is sent a booking-confirmed notice without having been charged.
NoticeIsPaid ==
  \A b \in Booking : <<b, "booking_confirmed">> \in mailed => b \in charged

\* A booking that left PENDING_PAYMENT never returns to it (mark_paid_and_settle
\* would credit it again), however stale the session that writes it.
NeverPendingAgain ==
  [][\A b \in Booking :
       status[b] \in {"CONFIRMED", "CANCELLED"} =>
         status'[b] \in {"CONFIRMED", "CANCELLED"}]_vars
=============================================================================
