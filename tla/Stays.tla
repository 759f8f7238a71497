-------------------------------- MODULE Stays --------------------------------
(***************************************************************************)
(* What a booking request fixes before any row is written: the property,   *)
(* the half-open date range and the price snapshot.  The specifications of *)
(* the booking rows (BookingLedger, BookingPayments) extend this module.   *)
(***************************************************************************)
EXTENDS Integers, FiniteSets, Sequences

CONSTANTS
  Booking,     \* booking requests; a request's row has its own primary key
  Owner,       \* users that own listings (properties.created_by_id)
  None,        \* "no such row": a property without creator, an unused field
  PropertyOf,  \* [Booking -> property]
  OwnerOf,     \* [Booking -> Owner \cup {None}]
  CheckIn,     \* [Booking -> day number]
  CheckOut,    \* [Booking -> day number], exclusive
  Total,       \* [Booking -> whole naira], bookings.total_amount
  FeeBps,      \* PLATFORM_FEE_PERCENT in hundredths of a percent
  IntMax       \* largest value of a 32-bit INTEGER column

\* "NONE" stands for a row that has not been inserted.
BookingStatus == {"NONE", "PENDING_PAYMENT", "CONFIRMED", "CANCELLED"}
PaymentStatus == {"NONE", "PENDING", "SUCCESS", "FAILED"}

\* Python's round(): to the nearest integer, ties to the even one.
RoundHalfEven(n, d) ==
  LET q == n \div d
      twice == 2 * (n % d)
  IN  IF twice > d \/ (twice = d /\ q % 2 = 1) THEN q + 1 ELSE q

PlatformFee(total) == RoundHalfEven(total * FeeBps, 10000)

\* What the owner of the listing is credited for booking b.
NetOf(b) == Total[b] - PlatformFee(Total[b])

\* _has_overlap: two stays in one property that share a night.
SharesNight(b, c) ==
  /\ PropertyOf[b] = PropertyOf[c]
  /\ CheckIn[c] < CheckOut[b]
  /\ CheckOut[c] > CheckIn[b]

\* A wallet_transactions row of type CREDIT.
CreditRow(b, after) ==
  [booking |-> b, owner |-> OwnerOf[b], amount |-> NetOf(b), after |-> after]

CreditRows == [booking : Booking, owner : Owner, amount : Nat, after : Nat]

\* NetOf(b) > 0 leaves out the listing so cheap that its net rounds to zero:
\* there SQLAlchemy sees an unchanged balance and emits no UPDATE.
ASSUME StaysAssumption ==
  /\ None \notin Booking \cup Owner
  /\ OwnerOf \in [Booking -> Owner \cup {None}]
  /\ CheckIn \in [Booking -> Nat]
  /\ CheckOut \in [Booking -> Nat]
  /\ \A b \in Booking : CheckIn[b] < CheckOut[b]
  /\ FeeBps \in 0..10000
  /\ IntMax \in Nat
  /\ Total \in [Booking -> 1..IntMax]
  /\ \A b \in Booking : NetOf(b) > 0
=============================================================================
