---------------------------- MODULE BookingClaims ----------------------------
(***************************************************************************)
(* What the documentation says of bookings and payments, stated about the  *)
(* handlers as they run, and the atomic specification they implement as    *)
(* long as no two that overlap are about the same rows.                    *)
(***************************************************************************)
EXTENDS BookingPayments

Atomic == INSTANCE BookingLedger

\* The bookings that the request of h is about.
Concerns(h) ==
  req[h].batch \cup (IF req[h].booking = None THEN {} ELSE {req[h].booking})

\* Requests in flight are about different bookings and credit different owners,
\* and none of them takes nights that a booking being created asks for.
Apart ==
  \A g, h \in Handler : g # h =>
    /\ Concerns(g) \cap Concerns(h) = {}
    /\ req[g].owner = req[h].owner => req[g].owner = None
    /\ pc[g] = "insert_booking" =>
         \A c \in Concerns(h) : ~ SharesNight(req[g].booking, c)

\* The behaviours whose requests stay apart, one handler at a time among them.
ApartSpec == Init /\ [][Next /\ Apart']_vars

\* When requests stay apart, the statements of each take effect together at its
\* commit: create, initiate, settle, fail, cancel, expire and open-wallet as
\* BookingLedger defines them.
ImplementsLedger == Atomic!Spec

\* When requests stay apart, a booking.cancel row in the audit log means a
\* cancelled booking: no later webhook or sweep takes it back.
AuditedIsCancelled == \A b \in audit : status[b] = "CANCELLED"

\* "Idempotent: safe to call more than once for the same payment"
\* (mark_paid_and_settle): one booking is credited at most once.
CreditedOnce == Atomic!CreditedOnce

\* "running `balance_after`" (MODULE_BREAKDOWN): each ledger row adds its amount
\* to the owner's previous one.
RunningBalance == Atomic!RunningBalance

\* A late charge.failed never turns a successful payment into a failed one.
SuccessIsFinal == Atomic!SuccessIsFinal

\* "CONFIRMED, ACTIVE: these actually block a date range": no two confirmed
\* bookings share a night in one property.
NoDoubleBooking ==
  \A b, c \in Booking :
    status[b] = "CONFIRMED" /\ status[c] = "CONFIRMED" /\ SharesNight(b, c) => b = c

\* "The maintenance loop auto-cancels unpaid bookings": the sweep leaves a
\* booking alone whose payment has been settled.
SweepTakesUnpaid ==
  [][\A h \in Handler : CommitExpired(h) =>
       \A b \in req[h].batch : status[b] # "CONFIRMED"]_vars

-----------------------------------------------------------------------------
(* Liveness, under FairSpec                                                *)

\* Every request ends: row locks are never waited for in a cycle.
RequestsFinish == \A h \in Handler : pc[h] # "idle" ~> pc[h] = "idle"

\* With no cancellations and no sweeps, a guest who was charged has a confirmed
\* booking in the end: a settlement lost to a crash or to a race for the wallet
\* row is made up by Paystack's retry.
ChargeConfirms ==
  \A b \in Booking : b \in charged ~> status[b] = "CONFIRMED"

\* An abandoned checkout does not stay pending for ever.
PendingIsResolved ==
  \A b \in Booking : status[b] = "PENDING_PAYMENT" ~> status[b] # "PENDING_PAYMENT"
=============================================================================
