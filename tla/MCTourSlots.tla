----------------------------- MODULE MCTourSlots -----------------------------
(***************************************************************************)
(* Instances of TourSlots: two slots, of which a schedule opens one or     *)
(* both.                                                                   *)
(***************************************************************************)
EXTENDS TourClaims, TLC

CONSTANTS s1, s2

BothOpen == {{s1, s2}}
OneOrBothOpen == {{s1}, {s1, s2}}
MCDefaultOpen == {s1, s2}

Symmetry == Permutations(Handler) \cup Permutations(Tour)
=============================================================================
