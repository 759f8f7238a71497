---------------------------- MODULE ContentRules ----------------------------
(***************************************************************************)
(* What the catalogue and the inbox are made of: properties, their photos, *)
(* the threads that guests open about them, and the people who answer.     *)
(***************************************************************************)
EXTENDS ServiceRules

CONSTANTS
  Property,  \* primary keys of properties
  Account,   \* people who are signed in
  Email,     \* addresses that guests leave
  Thread,    \* primary keys of conversations
  Asset,     \* public ids in the media store
  Grace      \* MEDIA_SWEEP_GRACE_SECONDS

ASSUME ContentAssumption ==
  /\ MaxTime \in Nat
  /\ Grace \in Nat
  /\ Unset \notin Account \cup Nat
  /\ Property # {} /\ Email # {}

\* A property that is deleted can be restored, unless it is purged.
Listing == {"none", "live", "deleted", "purged"}
=============================================================================
