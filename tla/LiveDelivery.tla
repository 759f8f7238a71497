---------------------------- MODULE LiveDelivery ----------------------------
(***************************************************************************)
(* The messages of one conversation: they are stored and committed, then   *)
(* published by the broker of the worker that serves the sender, and       *)
(* relayed to the sockets of those who read.  A worker connects to Redis   *)
(* when it first needs a broker, or else fans out within its own process   *)
(* from then on.  A reader learns what it missed from GET .../messages.    *)
(***************************************************************************)
EXTENDS ProcessRules, SequencesExt

VARIABLES
  broker,   \* per worker: "redis", or the worker itself for its local broker
  sent,     \* the number of messages that each sender has stored
  at,       \* the worker that has still to publish the last of them
  via,      \* per message: what became of its publication
  reader    \* the sockets

vars == <<broker, sent, at, via, reader>>

Message == Sender \X (1..Posts)

Buses == Worker \cup {"redis"}

\* at is the worker that has accepted the socket, bus what it is subscribed to.
\* history is what the client has fetched, late that it did so before the
\* socket was subscribed.  queue and seen are the messages that came in by the
\* subscription, those not yet relayed and those relayed.
Socket ==
  [at : Worker \cup {Unset}, bus : Buses \cup {Unset}, pump : BOOLEAN,
   history : (SUBSET Message) \cup {Unset}, late : BOOLEAN,
   queue : Seq(Message), seen : Seq(Message)]

Closed ==
  [at |-> Unset, bus |-> Unset, pump |-> FALSE, history |-> Unset, late |-> FALSE,
   queue |-> << >>, seen |-> << >>]

Init ==
  /\ broker = [w \in Worker |-> Unset]
  /\ sent = [s \in Sender |-> 0]
  /\ at = [s \in Sender |-> Unset]
  /\ via = [m \in Message |-> "none"]
  /\ reader = [r \in Reader |-> Closed]

-----------------------------------------------------------------------------

Latest(s) == <<s, sent[s]>>

Stored == {m \in Message : m[2] <= sent[m[1]]}

\* get_broker: the choice is made once per process.
ChooseBroker(w, b) ==
  /\ broker[w] = Unset
  /\ \/ \E s \in Sender : at[s] = w
     \/ \E r \in Reader : reader[r].at = w /\ reader[r].bus = Unset
  /\ b \in {"redis", w}
  /\ broker' = [broker EXCEPT ![w] = b]
  /\ UNCHANGED <<sent, at, via, reader>>

\* post_message, commit: by POST .../messages or by a socket, which waits for
\* the publication before it takes the next message.
Post(s, w) ==
  /\ at[s] = Unset
  /\ Cardinality(Stored) < Posts
  /\ sent' = [sent EXCEPT ![s] = @ + 1]
  /\ at' = [at EXCEPT ![s] = w]
  /\ via' = [via EXCEPT ![<<s, sent[s] + 1>>] = "pending"]
  /\ UNCHANGED <<broker, reader>>

\* Mutant: a slow reader is skipped.
Impatient(r, bus) == reader[r].bus = bus /\ reader[r].pump /\ reader[r].queue = << >>

Receives(r, bus) == reader[r].bus = bus /\ reader[r].pump

Publish(s) ==
  LET bus == broker[at[s]] IN
  /\ at[s] # Unset
  /\ bus # Unset
  /\ via' = [via EXCEPT ![Latest(s)] = bus]
  /\ reader' = [r \in Reader |->
                  IF Receives(r, bus) THEN [reader[r] EXCEPT !.queue = Append(@, Latest(s))]
                                      ELSE reader[r]]
  /\ at' = [at EXCEPT ![s] = Unset]
  /\ UNCHANGED <<broker, sent>>

\* Redis does not answer: the sender gets an error for a message that is stored.
PublishFails(s) ==
  /\ at[s] # Unset
  /\ broker[at[s]] = "redis"
  /\ via' = [via EXCEPT ![Latest(s)] = "lost"]
  /\ at' = [at EXCEPT ![s] = Unset]
  /\ UNCHANGED <<broker, sent, reader>>

-----------------------------------------------------------------------------
(* The socket of a reader.                                                 *)

Accept(r, w) ==
  /\ reader[r] = Closed
  /\ reader' = [reader EXCEPT ![r].at = w]
  /\ UNCHANGED <<broker, sent, at, via>>

Subscribe(r) ==
  LET bus == broker[reader[r].at] IN
  /\ reader[r].at # Unset
  /\ reader[r].bus = Unset
  /\ bus # Unset
  /\ reader' = [reader EXCEPT ![r].bus = bus, ![r].pump = TRUE]
  /\ UNCHANGED <<broker, sent, at, via>>

\* GET .../messages, by any worker.
ReadHistory(r) ==
  /\ reader[r].at # Unset
  /\ reader[r].history = Unset
  /\ reader' = [reader EXCEPT ![r].history = Stored, ![r].late = reader[r].bus = Unset]
  /\ UNCHANGED <<broker, sent, at, via>>

Relay(r) ==
  /\ reader[r].queue # << >>
  /\ reader' = [reader EXCEPT ![r].queue = Tail(@), ![r].seen = Append(@, Head(reader[r].queue))]
  /\ UNCHANGED <<broker, sent, at, via>>

\* The listener of a Redis subscription ends with a warning: what it has not
\* read by then is gone, and the socket stays open.
PumpStops(r) ==
  /\ reader[r].pump
  /\ reader[r].bus = "redis"
  /\ \E n \in 0..Len(reader[r].queue) :
       reader' = [reader EXCEPT ![r].pump = FALSE, ![r].queue = SubSeq(@, 1, n)]
  /\ UNCHANGED <<broker, sent, at, via>>

Disconnect(r) ==
  /\ reader[r] # Closed
  /\ reader' = [reader EXCEPT ![r] = Closed]
  /\ UNCHANGED <<broker, sent, at, via>>

\* A worker is restarted.
Restart(w) ==
  /\ broker' = [broker EXCEPT ![w] = Unset]
  /\ via' = [m \in Message |->
               IF via[m] = "pending" /\ at[m[1]] = w THEN "lost" ELSE via[m]]
  /\ at' = [s \in Sender |-> IF at[s] = w THEN Unset ELSE at[s]]
  /\ reader' = [r \in Reader |-> IF reader[r].at = w THEN Closed ELSE reader[r]]
  /\ UNCHANGED sent

Next ==
  \/ \E w \in Worker : Restart(w) \/ \E b \in Buses : ChooseBroker(w, b)
  \/ \E s \in Sender : Publish(s) \/ PublishFails(s) \/ \E w \in Worker : Post(s, w)
  \/ \E r \in Reader :
       \/ Subscribe(r) \/ ReadHistory(r) \/ Relay(r) \/ PumpStops(r) \/ Disconnect(r)
       \/ \E w \in Worker : Accept(r, w)

Spec == Init /\ [][Next]_vars
-----------------------------------------------------------------------------
TypeOK ==
  /\ broker \in [Worker -> Buses \cup {Unset}]
  /\ sent \in [Sender -> 0..Posts]
  /\ at \in [Sender -> Worker \cup {Unset}]
  /\ via \in [Message -> Buses \cup {"none", "pending", "lost"}]
  /\ reader \in [Reader -> Socket]

\* A reader that was subscribed before it fetched the history has each stored
\* message in the one or in the stream, as long as its listener lives; except
\* those still to be published, those whose publication failed or died with its
\* worker, and those published on another bus.  The stream has the messages of
\* a sender once and in the order in which they were stored.
NothingMissed ==
  \A r \in Reader :
    LET stream == reader[r].seen \o reader[r].queue IN
    /\ reader[r].history # Unset /\ ~ reader[r].late /\ reader[r].pump =>
         \A m \in Stored :
           m \in reader[r].history \/ Contains(stream, m) \/ via[m] # reader[r].bus
    /\ \A i, j \in DOMAIN stream :
         i < j /\ stream[i][1] = stream[j][1] => stream[i][2] < stream[j][2]
=============================================================================
