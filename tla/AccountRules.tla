---------------------------- MODULE AccountRules ----------------------------
(***************************************************************************)
(* What the accounts of guests and staff are made of: addresses, the codes *)
(* and links that are mailed to them, and the tokens they sign in with.    *)
(***************************************************************************)
EXTENDS ServiceRules

CONSTANTS
  Address,      \* e-mail addresses, each the key of at most one account
  Nin,          \* identity numbers that the provider confirms
  Code,         \* what a verification code can be
  MaxAttempts,  \* OTP_MAX_ATTEMPTS
  Ttl,          \* OTP_TTL_SECONDS, PASSWORD_RESET_TTL_SECONDS, OAUTH_STATE_TTL_SECONDS
  Link,         \* password reset tokens
  Flow,         \* states of sign-ins through a provider
  Identity,     \* provider and account id of those who sign in
  Original,     \* a password that no link has set
  Token,        \* jti of access tokens
  Life,         \* ACCESS_TOKEN_EXPIRE_DAYS
  RenewAfter    \* the share of Life after which a token is renewed

CodeRow == [code : Code, expires : Nat, attempts : Nat]

TokenRow == [sub : Address, iat : Nat, exp : Nat]

ASSUME AccountAssumption ==
  /\ MaxTime \in Nat
  /\ MaxAttempts \in Nat \ {0}
  /\ Ttl \in Nat
  /\ Life \in Nat \ {0}
  /\ Unset \notin Nin \cup Address
  /\ Original \notin Link
  /\ Address # {} /\ Code # {} /\ Link # {} /\ Flow # {} /\ Token # {}

ASSUME NoAccountRow == NoRow \notin CodeRow \cup TokenRow
=============================================================================
