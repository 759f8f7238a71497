----------------------------- MODULE TourClaims -----------------------------
(***************************************************************************)
(* How TourSlots implements TourBook, as long as no tour is cancelled      *)
(* while it is being confirmed or moved.                                   *)
(***************************************************************************)
EXTENDS TourSlots

Promise == INSTANCE TourBook

Cancellations == {"cancel", "guest_cancel"}

\* While a tour is being cancelled nobody confirms or moves it: both would act
\* on the status they have loaded.  All other requests may overlap.
CancelledAlone ==
  \A g, h \in Handler :
    req[g].kind \in Cancellations /\ req[h].kind \in {"confirm", "move"} =>
      req[g].tour # req[h].tour

CalmSpec == Init /\ [][Next /\ CancelledAlone']_vars

\* The handlers implement the atomic operations.
ImplementsTourBook == Promise!Spec
=============================================================================
