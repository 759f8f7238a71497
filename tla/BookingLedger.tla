---------------------------- MODULE BookingLedger ----------------------------
(***************************************************************************)
(* What the booking, payment and wallet services promise when the handlers *)
(* run one at a time: every operation is one atomic step on the committed  *)
(* rows.  BookingPayments splits the same operations at their awaits; it   *)
(* implements this specification as long as the requests that overlap are  *)
(* about different rows, and otherwise it does not (see the README).       *)
(***************************************************************************)
EXTENDS Stays

VARIABLES
  status,   \* [Booking -> BookingStatus], bookings.status
  payment,  \* [Booking -> PaymentStatus], payments.status
  wallets,  \* owners that have a row in wallets
  balance,  \* [Owner -> Nat], wallets.balance (0 where there is no row)
  ledger,   \* wallet_transactions in commit order
  aged,     \* bookings created longer ago than BOOKING_PAYMENT_TIMEOUT_MINUTES
  charged   \* bookings whose guest Paystack has charged

vars == <<status, payment, wallets, balance, ledger, aged, charged>>

Init ==
  /\ status = [b \in Booking |-> "NONE"]
  /\ payment = [b \in Booking |-> "NONE"]
  /\ wallets = {}
  /\ balance = [o \in Owner |-> 0]
  /\ ledger = <<>>
  /\ aged = {}
  /\ charged = {}

\* create_booking: the only statuses that hold a date are CONFIRMED (and
\* ACTIVE, which no code assigns).
Create(b) ==
  /\ status[b] = "NONE"
  /\ ~ \E c \in Booking : status[c] = "CONFIRMED" /\ SharesNight(b, c)
  /\ status' = [status EXCEPT ![b] = "PENDING_PAYMENT"]
  /\ UNCHANGED <<payment, wallets, balance, ledger, aged, charged>>

\* initiate_payment: runs in the create request, after the booking's commit.
InitiatePayment(b) ==
  /\ status[b] # "NONE"
  /\ payment[b] = "NONE"
  /\ payment' = [payment EXCEPT ![b] = "PENDING"]
  /\ UNCHANGED <<status, wallets, balance, ledger, aged, charged>>

\* Paystack charges the guest (a reference is charged at most once).
Charge(b) ==
  /\ payment[b] # "NONE"
  /\ b \notin charged
  /\ charged' = charged \cup {b}
  /\ UNCHANGED <<status, payment, wallets, balance, ledger, aged>>

\* mark_paid_and_settle acts on the first success event of a payment.
Unsettled(b) == b \in charged /\ payment[b] # "SUCCESS"

\* It confirms a booking that still waits for its payment.
Awaiting(b) == status[b] = "PENDING_PAYMENT"

\* credit: the owner's balance once b is settled.
BalanceAfter(b) == balance[OwnerOf[b]] + NetOf(b)

\* A larger value does not fit the INTEGER column: the request fails.
Fits(n) == n <= IntMax

\* The listing has an owner: status, payment, wallet and ledger row together.
Settle(b) ==
  /\ Unsettled(b)
  /\ Awaiting(b)
  /\ OwnerOf[b] # None
  /\ Fits(BalanceAfter(b))
  /\ payment' = [payment EXCEPT ![b] = "SUCCESS"]
  /\ status' = [status EXCEPT ![b] = "CONFIRMED"]
  /\ wallets' = wallets \cup {OwnerOf[b]}
  /\ balance' = [balance EXCEPT ![OwnerOf[b]] = BalanceAfter(b)]
  /\ ledger' = Append(ledger, CreditRow(b, BalanceAfter(b)))
  /\ UNCHANGED <<aged, charged>>

\* The account of the listing's creator is gone: there is nobody to credit.
SettleUnowned(b) ==
  /\ Unsettled(b)
  /\ Awaiting(b)
  /\ OwnerOf[b] = None
  /\ payment' = [payment EXCEPT ![b] = "SUCCESS"]
  /\ status' = [status EXCEPT ![b] = "CONFIRMED"]
  /\ UNCHANGED <<wallets, balance, ledger, aged, charged>>

\* The booking is no longer waiting: only the payment changes.
SettleLate(b) ==
  /\ Unsettled(b)
  /\ ~ Awaiting(b)
  /\ payment' = [payment EXCEPT ![b] = "SUCCESS"]
  /\ UNCHANGED <<status, wallets, balance, ledger, aged, charged>>

\* mark_failed; a payment that failed before is left as it is.
MarkFailed(b) ==
  /\ payment[b] = "PENDING"
  /\ payment' = [payment EXCEPT ![b] = "FAILED"]
  /\ UNCHANGED <<status, wallets, balance, ledger, aged, charged>>

\* cancel_booking, whatever the payment.
Cancel(b) ==
  /\ status[b] \notin {"NONE", "CANCELLED"}
  /\ status' = [status EXCEPT ![b] = "CANCELLED"]
  /\ UNCHANGED <<payment, wallets, balance, ledger, aged, charged>>

\* expire_unpaid: one sweep cancels a set of old unpaid bookings.
Expire(S) ==
  /\ \A b \in S : status[b] = "PENDING_PAYMENT" /\ b \in aged
  /\ status' = [b \in Booking |-> IF b \in S THEN "CANCELLED" ELSE status[b]]
  /\ UNCHANGED <<payment, wallets, balance, ledger, aged, charged>>

\* get_or_create_wallet, from an owner looking at the wallet.
OpenWallet(o) ==
  /\ wallets' = wallets \cup {o}
  /\ UNCHANGED <<status, payment, balance, ledger, aged, charged>>

\* Time passes.
Age(b) ==
  /\ status[b] # "NONE"
  /\ aged' = aged \cup {b}
  /\ UNCHANGED <<status, payment, wallets, balance, ledger, charged>>

Next ==
  \/ \E b \in Booking :
       \/ Create(b)
       \/ InitiatePayment(b)
       \/ Charge(b)
       \/ Settle(b)
       \/ SettleUnowned(b)
       \/ SettleLate(b)
       \/ MarkFailed(b)
       \/ Cancel(b)
       \/ Age(b)
  \/ \E S \in SUBSET Booking : Expire(S)
  \/ \E o \in Owner : OpenWallet(o)

Spec == Init /\ [][Next]_vars
-----------------------------------------------------------------------------
TypeOK ==
  /\ status \in [Booking -> BookingStatus]
  /\ payment \in [Booking -> PaymentStatus]
  /\ wallets \subseteq Owner
  /\ balance \in [Owner -> 0..IntMax]
  /\ ledger \in Seq(CreditRows)
  /\ aged \subseteq Booking
  /\ charged \subseteq Booking

\* mark_paid_and_settle is idempotent: however often Paystack repeats the
\* event, one booking is credited to its owner at most once.
CreditedOnce ==
  \A i, j \in 1..Len(ledger) :
    ledger[i].booking = ledger[j].booking => i = j

\* j is the row of the same owner that precedes row i.
Precedes(j, i) ==
  /\ ledger[j].owner = ledger[i].owner
  /\ j < i
  /\ \A k \in (j + 1)..(i - 1) : ledger[k].owner # ledger[i].owner

\* balance_after is a running balance: it starts at the first amount and grows
\* by each amount after that.
RunningBalance ==
  \A i \in 1..Len(ledger) :
    \/ \E j \in 1..Len(ledger) :
         Precedes(j, i) /\ ledger[i].after = ledger[j].after + ledger[i].amount
    \/ /\ \A j \in 1..(i - 1) : ledger[j].owner # ledger[i].owner
       /\ ledger[i].after = ledger[i].amount

\* A cancelled booking is never revived, whatever Paystack says later.
CancelledIsFinal ==
  [][\A b \in Booking : status[b] = "CANCELLED" => status'[b] = "CANCELLED"]_vars

\* A successful payment is never turned into a failed one.
SuccessIsFinal ==
  [][\A b \in Booking : payment[b] = "SUCCESS" => payment'[b] = "SUCCESS"]_vars
=============================================================================
