--------------------------- MODULE RequestMetrics ---------------------------
(***************************************************************************)
(* What a process counts of the requests that it has answered, and what    *)
(* the observability pages compute from it.                                *)
(***************************************************************************)
EXTENDS ProcessRules, SequencesExt

VARIABLES
  total,
  classes,    \* per status class: how many
  stat,       \* per route: count, sum and maximum of the durations, errors
  latencies,  \* the last durations, the oldest first
  recent,     \* the last requests, the newest first
  errors      \* the last requests that failed, the newest first

vars == <<total, classes, stat, latencies, recent, errors>>

\* A request that the handlers do not answer is counted as a 500.
Class == {"2xx", "4xx", "5xx"}

Entry == [id : Nat, route : Route, class : Class]

Init ==
  /\ total = 0
  /\ classes = [c \in Class |-> 0]
  /\ stat = [r \in Route |-> [count |-> 0, sum |-> 0, max |-> 0, errors |-> 0]]
  /\ latencies = << >>
  /\ recent = << >>
  /\ errors = << >>

\* deque(maxlen=n): what is pushed on one end falls off the other.
Push(e, s, n) == SubSeq(<<e>> \o s, 1, IF Len(s) < n THEN Len(s) + 1 ELSE n)

Errors(e) == IF e.class = "5xx" THEN Push(e, errors, ErrorsKept) ELSE errors

\* Metrics.record.  One thread answers all requests, and nothing is awaited.
Record(route, class, d) ==
  LET e == [id |-> total, route |-> route, class |-> class] IN
  /\ total < Requests
  /\ total' = total + 1
  /\ classes' = [classes EXCEPT ![class] = @ + 1]
  /\ latencies' = Reverse(Push(d, Reverse(latencies), SampleSize))
  /\ stat' = [stat EXCEPT ![route] =
                [count |-> @.count + 1, sum |-> @.sum + d, max |-> Max({@.max, d}),
                 errors |-> IF class = "5xx" THEN @.errors + 1 ELSE @.errors]]
  /\ recent' = Push(e, recent, RecentSize)
  /\ errors' = Errors(e)

Next == \E route \in Route, class \in Class, d \in Duration : Record(route, class, d)

Spec == Init /\ [][Next]_vars
-----------------------------------------------------------------------------
(* Metrics.snapshot.                                                       *)

\* sorted(latencies)
Ordered ==
  LET n == Len(latencies)
      place == CHOOSE p \in Bijection(1..n, 1..n) :
                 \A i, j \in 1..n : i < j => latencies[p[i]] <= latencies[p[j]]
  IN [i \in 1..n |-> latencies[place[i]]]

\* Mutant: a position that is a whole number is interpolated as well.
Weighted(p) ==
  LET k == (Len(latencies) - 1) * p
      lo == k \div 100
      hi == (k + 99) \div 100
  IN Ordered[lo + 1] * (hi * 100 - k) + Ordered[hi + 1] * (k - lo * 100)

\* The p-th percentile of the last durations, in hundredths.
Percentile(p) ==
  LET k == (Len(latencies) - 1) * p
      lo == k \div 100
      hi == (k + 99) \div 100
  IN IF lo = hi THEN Ordered[lo + 1] * 100
                ELSE Ordered[lo + 1] * (hi * 100 - k) + Ordered[hi + 1] * (k - lo * 100)

SumOver(S, f(_)) == FoldSet(LAMBDA x, acc : f(x) + acc, 0, S)
-----------------------------------------------------------------------------
TypeOK ==
  /\ total \in Nat
  /\ classes \in [Class -> Nat]
  /\ stat \in [Route -> [count : Nat, sum : Nat, max : Duration \cup {0}, errors : Nat]]
  /\ latencies \in Seq(Duration) /\ Len(latencies) <= SampleSize
  /\ recent \in Seq(Entry) /\ Len(recent) <= RecentSize
  /\ errors \in Seq(Entry) /\ Len(errors) <= ErrorsKept

\* How many of the first i requests of the list failed.
FailedUpTo(i) == Cardinality({j \in 1..i : recent[j].class = "5xx"})

\* Requests by class and by route add up to the total, and errors by route to
\* the 5xx.
SumsAgree ==
  /\ total = SumOver(Class, LAMBDA c : classes[c])
  /\ total = SumOver(Route, LAMBDA r : stat[r].count)
  /\ classes["5xx"] = SumOver(Route, LAMBDA r : stat[r].errors)

\* The list of errors is as long as it can be, and begins with those of the list
\* of requests, in their order.
ErrorsListed ==
  /\ Len(errors) = Min({classes["5xx"], ErrorsKept})
  /\ \A i \in DOMAIN recent :
       recent[i].class = "5xx" /\ FailedUpTo(i) <= ErrorsKept =>
         FailedUpTo(i) \in DOMAIN errors /\ errors[FailedUpTo(i)] = recent[i]

\* The percentiles rise from the least of the sample to its maximum.
PercentilesRise ==
  latencies # << >> =>
    /\ Ordered[1] * 100 <= Percentile(50)
    /\ Percentile(50) <= Percentile(90)
    /\ Percentile(90) <= Percentile(99)
    /\ Percentile(99) <= Ordered[Len(latencies)] * 100

\* The figures agree with each other.
FiguresAgree == SumsAgree /\ ErrorsListed /\ PercentilesRise
=============================================================================
