---------------------------- MODULE RateLimiter ----------------------------
(***************************************************************************)
(* The sliding window of one rule and one client address: each process     *)
(* remembers when it accepted, and refuses with a hint when to come back.  *)
(***************************************************************************)
EXTENDS ProcessRules, Sequences

VARIABLES
  now,
  hits,      \* per process: the deque of times
  accepted,  \* history: every time the process has accepted
  hint       \* history: when a refused client may come back, if none came since

vars == <<now, hits, accepted, hint>>

Init ==
  /\ now = 0
  /\ hits = [w \in Worker |-> << >>]
  /\ accepted = [w \in Worker |-> << >>]
  /\ hint = [w \in Worker |-> Unset]

\* Mutant: a hit leaves the window a second too early.
InShorterWindow(t) == t + Window > now + 1

InWindow(t) == t + Window > now

\* Hits are dropped from the left, up to the first that is in the window.
Expired(w) == {i \in DOMAIN hits[w] : \A j \in 1..i : ~ InWindow(hits[w][j])}

Recent(w) == SubSeq(hits[w], Cardinality(Expired(w)) + 1, Len(hits[w]))

Accept(w) ==
  /\ Len(Recent(w)) < Count
  /\ hits' = [hits EXCEPT ![w] = Append(Recent(w), now)]
  /\ accepted' = [accepted EXCEPT ![w] = Append(@, now)]
  /\ hint' = [hint EXCEPT ![w] = Unset]
  /\ UNCHANGED now

\* 429 with Retry-After: the rest of the oldest hit's window, rounded down,
\* and one second.
Refuse(w) ==
  /\ Len(Recent(w)) >= Count
  /\ hits' = [hits EXCEPT ![w] = Recent(w)]
  /\ hint' = [hint EXCEPT ![w] = Head(Recent(w)) + Window + 1]
  /\ UNCHANGED <<now, accepted>>

Restart(w) ==
  /\ hits' = [hits EXCEPT ![w] = << >>]
  /\ accepted' = [accepted EXCEPT ![w] = << >>]
  /\ hint' = [hint EXCEPT ![w] = Unset]
  /\ UNCHANGED now

Tick ==
  /\ now < MaxTime
  /\ now' = now + 1
  /\ UNCHANGED <<hits, accepted, hint>>

Next ==
  \/ \E w \in Worker : Accept(w) \/ Refuse(w) \/ Restart(w)
  \/ Tick

Spec == Init /\ [][Next]_vars
-----------------------------------------------------------------------------
TypeOK ==
  /\ now \in Time
  /\ hits \in [Worker -> Seq(Time)]
  /\ accepted \in [Worker -> Seq(Time)]
  /\ hint \in [Worker -> Nat \cup {Unset}]

\* Since it was started a process has not accepted more than Count requests in
\* any Window, whatever it has forgotten of them; so that a client gets at most
\* Count times the number of processes.  Who comes back as told is let in, if
\* nobody took the place.
WithinLimit ==
  \A w \in Worker :
    /\ \A i \in 1..(Len(accepted[w]) - Count) :
         accepted[w][i + Count] >= accepted[w][i] + Window
    /\ hint[w] # Unset /\ now >= hint[w] => Len(Recent(w)) < Count
=============================================================================
