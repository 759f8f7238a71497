---------------------------- MODULE ProcessRules ----------------------------
(***************************************************************************)
(* What a server process keeps to itself: the subscriptions of the sockets *)
(* it serves, the hits of its rate limits, and its figures.                *)
(***************************************************************************)
EXTENDS ServiceRules

CONSTANTS
  Worker,      \* server processes
  Sender,      \* clients that post one message after the other
  Reader,      \* sockets
  Posts,       \* bound on the messages that are stored
  Count,       \* what a rule allows ...
  Window,      \* ... in so many seconds
  Route,       \* templates of paths, "<unmatched>" among them
  Duration,    \* milliseconds that requests take
  SampleSize,  \* METRICS_SAMPLE_SIZE
  RecentSize,  \* METRICS_RECENT_SIZE
  ErrorsKept,  \* 50, or METRICS_RECENT_SIZE if that is less
  Requests     \* bound on the requests that are counted

ASSUME ProcessAssumption ==
  /\ MaxTime \in Nat
  /\ Unset \notin Worker \cup Nat \cup {"redis"}
  /\ Worker \cap {"redis", "none", "pending", "lost"} = {}
  /\ IsFiniteSet(Sender) /\ IsFiniteSet(Route)
  /\ {Posts, Requests} \subseteq Nat
  /\ {Count, Window, SampleSize, RecentSize} \subseteq Nat \ {0}
  /\ Duration \subseteq Nat
  /\ ErrorsKept \in 1..RecentSize
=============================================================================
