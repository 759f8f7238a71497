-------------------------- MODULE MCBookingPayments --------------------------
(***************************************************************************)
(* Instances of BookingPayments: b1 and b2 share a night in one listing of *)
(* o1, b3 is for another listing whose creator's account is gone.  Totals  *)
(* of 5 and 10 naira at a fee of 10% give credits of 5 (0.5 rounds to the  *)
(* even 0) and 9.                                                          *)
(***************************************************************************)
EXTENDS BookingClaims, TLC

CONSTANTS b1, b2, b3, o1

MCPropertyOf == [b \in Booking |-> IF b = b3 THEN "p2" ELSE "p1"]
MCOwnerOf == [b \in Booking |-> IF b = b3 THEN None ELSE o1]
MCCheckIn == [b \in Booking |-> IF b = b1 THEN 1 ELSE 2]
MCCheckOut == [b \in Booking |-> IF b = b1 THEN 3 ELSE 4]
MCTotal == [b \in Booking |-> IF b = b1 THEN 5 ELSE 10]

\* Handlers are interchangeable (safety runs only).
HandlerSymmetry == Permutations(Handler)
=============================================================================
