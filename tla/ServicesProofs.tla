--------------------------- MODULE ServicesProofs ---------------------------
(***************************************************************************)
(* What is proved of each of the smaller components holds where they run   *)
(* side by side.                                                           *)
(***************************************************************************)
EXTENDS MCServices, FiniteSetTheorems, SequenceTheorems, TLAPS

-----------------------------------------------------------------------------

\* The constants satisfy what the proofs assume of them.
LEMMA Rules ==
  /\ Access!StaffRulesAssumption /\ Access!NoRowAssumption
  /\ Desk!StaffRulesAssumption /\ Desk!NoRowAssumption
  /\ Codes!AccountAssumption /\ Codes!NoAccountRow
  /\ Tokens!AccountAssumption /\ Tokens!NoAccountRow
  /\ Photos!ContentAssumption
  <1>1. /\ Access!StaffRulesAssumption /\ Access!NoRowAssumption
        /\ Desk!StaffRulesAssumption /\ Desk!NoRowAssumption
    BY StaffRulesAssumption, NoRowAssumption
       DEF Time, Access!Time, Desk!Time, Row, Access!Row, Desk!Row
  <1>2. Codes!AccountAssumption /\ Tokens!AccountAssumption
    BY AccountAssumption, NewcomerAssumption
  <1>3. Codes!NoAccountRow /\ Tokens!NoAccountRow
    BY NoAccountRow, NewcomerAssumption
       DEF CodeRow, TokenRow, Codes!CodeRow, Codes!TokenRow, Tokens!CodeRow, Tokens!TokenRow
  <1>4. Photos!ContentAssumption
    BY ContentAssumption
  <1>. QED BY <1>1, <1>2, <1>3, <1>4

\* Each component follows its own module, whatever else goes on.
LEMMA EachRuns ==
  Spec => /\ Access!Spec /\ Desk!Spec /\ Codes!Spec /\ Tokens!Spec /\ Photos!Spec
          /\ Links!Spec /\ Flows!Spec /\ Threads!Spec /\ Live!Spec
          /\ Limiter!Spec /\ Diary!Spec /\ Figures!Spec
  <1>1. Init =>
          /\ Access!Init /\ Desk!Init /\ Codes!Init /\ Tokens!Init /\ Photos!Init
          /\ Links!Init /\ Flows!Init /\ Threads!Init /\ Live!Init
          /\ Limiter!Init /\ Diary!Init /\ Figures!Init
    BY DEF Init
  <1>2. [Next]_vars =>
          /\ [Access!Next]_(Access!vars)
          /\ [Desk!Next]_(Desk!vars)
          /\ [Codes!Next]_(Codes!vars)
          /\ [Tokens!Next]_(Tokens!vars)
          /\ [Photos!Next]_(Photos!vars)
          /\ [Links!Next]_(Links!vars)
          /\ [Flows!Next]_(Flows!vars)
          /\ [Threads!Next]_(Threads!vars)
          /\ [Live!Next]_(Live!vars)
          /\ [Limiter!Next]_(Limiter!vars)
          /\ [Diary!Next]_(Diary!vars)
          /\ [Figures!Next]_(Figures!vars)
    BY DEF Next, Only, vars, RoleVars, DeskVars, CodeVars, TokenVars, PhotoVars,
           LinkVars, FlowVars, InboxVars, LiveVars, LimitVars, DiaryVars, FigureVars,
           Access!vars, Desk!vars, Codes!vars, Codes!users, Codes!codes, Tokens!vars,
           Photos!vars, Photos!rows, Photos!store, Links!vars,
           Flows!vars, Flows!stored, Flows!issued, Threads!vars, Live!vars, Limiter!vars,
           Diary!vars, Figures!vars
  <1>. QED BY <1>1, <1>2, PTL
           DEF Spec, Access!Spec, Desk!Spec, Codes!Spec, Tokens!Spec, Photos!Spec,
               Links!Spec, Flows!Spec, Threads!Spec, Live!Spec, Limiter!Spec, Diary!Spec,
               Figures!Spec

-----------------------------------------------------------------------------

\* An active admin remains after every change that no other change races.
THEOREM AdminRemains == Spec => KeepsAdmin
  BY EachRuns, Rules, Access!AdminRemains, PTL DEF KeepsAdmin

\* A change that is answered 200 is in force, unless another one raced it.
THEOREM ChangeInForce == Spec => ChangeTakesHold
  BY EachRuns, Rules, Access!ChangeInForce, PTL DEF ChangeTakesHold

\* No clock-out, edit or pass opens a closed record or takes off its mark.
THEOREM ClosedForGood == Spec => ClosedStaysClosed
  BY EachRuns, Rules, Desk!ClosedForGood, PTL DEF ClosedStaysClosed

\* A clock-in that no other overtook leaves its user one open session.
THEOREM ClockInOpensOne == Spec => OneOpenSession
  BY EachRuns, Rules, Desk!ClockInOpensOne, PTL DEF OneOpenSession

\* What is written over rows that have not changed since they were read agrees
\* with itself.
THEOREM DurationAgrees == Spec => DurationMatches
  BY EachRuns, Rules, Desk!DurationAgrees, PTL DEF DurationMatches

\* The counter of a code says how many wrong guesses were answered, and never
\* passes the limit.
THEOREM GuessCounting == Spec => []GuessesCounted
  BY EachRuns, Rules, Codes!GuessCounting, PTL DEF GuessesCounted

\* An address is verified by the code that is in force.
THEOREM VerifiedByCode == Spec => VerifiedByItsCode
  BY EachRuns, Rules, Codes!VerifiedByCode, PTL DEF VerifiedByItsCode

\* A token that has signed out is denied for as long as it decodes.
THEOREM OutStaysOut == Spec => []OutIsDenied
  BY EachRuns, Rules, Tokens!OutStaysOut, PTL DEF OutIsDenied

\* Of refreshes and logouts of one token that do not overlap, one is answered.
THEOREM OneExchange == Spec => ExchangedOnce
  BY EachRuns, Rules, Tokens!OneExchange, PTL DEF ExchangedOnce

\* The sweep takes no photo that was attached in time.
THEOREM AttachedIsSpared == Spec => []SweepSparesAttached
  BY EachRuns, Rules, Photos!AttachedIsSpared, PTL DEF SweepSparesAttached
-----------------------------------------------------------------------------
(* Reset links.                                                            *)

\* Whoever holds a link as it was read, not used since, holds one that no reset
\* has taken: it is live, or was live until the purge.
LinksInv ==
  /\ Links!TypeOK
  /\ ResetOnce
  /\ \A h \in Handler :
       linkPc[h] = "reset" /\ linkReq[h].fresh =>
         link[linkReq[h].link].state \in {"live", "purged"}

LEMMA LinksInit == Links!Init => LinksInv
  <1>. SUFFICES ASSUME Links!Init PROVE LinksInv
    OBVIOUS
  <1>1. Links!NoRequest \in Links!Request
    BY AccountAssumption DEF Links!NoRequest, Links!Request
  <1>2. Links!TypeOK
    BY <1>1, AccountAssumption DEF Links!Init, Links!TypeOK, Links!LinkRow, Links!States, Links!Time
  <1>3. ResetOnce
    BY AccountAssumption DEF Links!Init, ResetOnce, Links!ResetOnce
  <1>. QED BY <1>2, <1>3 DEF Links!Init, LinksInv

LEMMA LinksNext == LinksInv /\ [Links!Next]_(Links!vars) => LinksInv'
  <1>. SUFFICES ASSUME LinksInv, [Links!Next]_(Links!vars) PROVE LinksInv'
    OBVIOUS
  <1>. USE AccountAssumption DEF LinksInv, ResetOnce, Links!ResetOnce
  <1>. USE DEF Links!TypeOK, Links!LinkRow, Links!States, Links!Time, Links!Request
  <1>1. Links!NoRequest \in Links!Request
    BY DEF Links!NoRequest
  <1>2. ASSUME NEW a \in Address, NEW l \in Link, Links!Mail(a, l) PROVE LinksInv'
    BY <1>2 DEF Links!Mail
  <1>3. ASSUME NEW h \in Handler, NEW l \in Link, Links!ReadLink(h, l) PROVE LinksInv'
    BY <1>3 DEF Links!ReadLink, Links!Usable
  <1>4. ASSUME NEW h \in Handler, Links!ResetPassword(h) PROVE LinksInv'
    <2>. DEFINE l == linkReq[h].link
    <2>1. /\ l \in Link /\ link[l].state \in {"live", "used"}
          /\ link' = [link EXCEPT ![l].state = "used"]
          /\ resets' = [resets EXCEPT ![l] = @ + 1]
          /\ password' = [password EXCEPT ![link[l].owner] = l]
          /\ linkRaced' = IF linkReq[h].fresh THEN linkRaced ELSE linkRaced \cup {l}
          /\ linkNow' = linkNow
      BY <1>4 DEF Links!ResetPassword, Links!HasRow, Links!MarkUsed
    <2>2. /\ linkPc' \in [Handler -> {"idle", "reset"}]
          /\ linkReq' \in [Handler -> Links!Request]
          /\ \A g \in Handler : linkPc'[g] = "reset" =>
               /\ linkPc[g] = "reset" /\ g # h
               /\ linkReq'[g].link = linkReq[g].link
               /\ linkReq'[g].fresh => linkReq[g].fresh /\ linkReq[g].link # l
      <3>1. linkReq' = [g \in Handler |->
                          IF g = h THEN Links!NoRequest
                          ELSE [linkReq[g] EXCEPT !.fresh = @ /\ linkReq[g].link # l]]
        BY <1>4 DEF Links!ResetPassword
      <3>2. ASSUME NEW g \in Handler
            PROVE  linkReq'[g] \in Links!Request
        <4>1. CASE g = h
          BY <1>1, <3>1, <4>1
        <4>2. CASE g # h
          <5>. DEFINE r == linkReq[g]
          <5>1. linkReq'[g] = [r EXCEPT !.fresh = r.fresh /\ r.link # l]
            BY <3>1, <4>2
          <5>2. (r.fresh /\ r.link # l) \in BOOLEAN
            OBVIOUS
          <5>3. r \in Links!Request
            OBVIOUS
          <5>. QED BY <5>1, <5>2, <5>3
        <4>. QED BY <4>1, <4>2
      <3>3. ASSUME NEW g \in Handler, linkPc'[g] = "reset"
            PROVE  /\ linkPc[g] = "reset" /\ g # h
                   /\ linkReq'[g].link = linkReq[g].link
                   /\ linkReq'[g].fresh => linkReq[g].fresh /\ linkReq[g].link # l
        <4>1. linkPc[g] = "reset" /\ g # h
          BY <1>4, <3>3 DEF Links!ResetPassword
        <4>2. linkReq'[g] = [linkReq[g] EXCEPT !.fresh = linkReq[g].fresh /\ linkReq[g].link # l]
          BY <3>1, <4>1
        <4>3. linkReq[g] \in [link : Link, fresh : BOOLEAN]
          OBVIOUS
        <4>4. linkReq'[g].link = linkReq[g].link
          BY <4>2, <4>3
        <4>5. linkReq'[g].fresh = (linkReq[g].fresh /\ linkReq[g].link # l)
          BY <4>2, <4>3, Zenon
        <4>. QED BY <4>1, <4>4, <4>5
      <3>4. linkPc' \in [Handler -> {"idle", "reset"}]
        BY <1>4 DEF Links!ResetPassword
      <3>. QED BY <3>1, <3>2, <3>3, <3>4
    <2>3. Links!TypeOK'
      <3>1. link' \in [Link -> Links!LinkRow]
        BY <2>1
      <3>2. password' \in [Address -> Link \cup {Original}] /\ resets' \in [Link -> Nat]
        BY <2>1
      <3>3. linkRaced' \subseteq Link /\ linkNow' \in 0..MaxTime
        BY <2>1
      <3>. QED BY <2>2, <3>1, <3>2, <3>3
    <2>4. linkReq[h].fresh => resets[l] = 0
      BY <1>4, <2>1 DEF Links!ResetPassword
    <2>5. ResetOnce'
      <3>1. \A k \in Link : k # l => link'[k] = link[k] /\ resets'[k] = resets[k]
        BY <2>1
      <3>2. link'[l] = [link[l] EXCEPT !.state = "used"] /\ resets'[l] = resets[l] + 1
        BY <2>1
      <3>3. \A a \in Address :
              \/ password'[a] = password[a]
              \/ a = link[l].owner /\ password'[a] = l
        BY <2>1
      <3>4. \A k \in Link :
              /\ k \notin linkRaced' => resets'[k] <= 1
              /\ resets'[k] > 0 => link'[k].state \in {"used", "purged"}
              /\ link'[k].state = "used" => resets'[k] > 0
        BY <2>1, <2>4, <3>1, <3>2
      <3>5. \A a \in Address, k \in Link :
              password'[a] = k => link'[k].owner = a /\ link'[k].state \in {"used", "purged"}
        BY <2>1, <3>1, <3>2, <3>3
      <3>. QED BY <3>4, <3>5
    <2>6. \A g \in Handler :
            linkPc'[g] = "reset" /\ linkReq'[g].fresh =>
              link'[linkReq'[g].link].state \in {"live", "purged"}
      BY <2>1, <2>2
    <2>. QED BY <2>3, <2>5, <2>6
  <1>5. ASSUME NEW h \in Handler, Links!LinkGone(h) PROVE LinksInv'
    BY <1>1, <1>5 DEF Links!LinkGone, Links!Finish
  <1>6. ASSUME NEW h \in Handler, Links!Crash(h) PROVE LinksInv'
    BY <1>1, <1>6 DEF Links!Crash, Links!Finish
  <1>7. CASE Links!Purge
    BY <1>7 DEF Links!Purge, Links!HasRow
  <1>8. CASE Links!Tick
    BY <1>8 DEF Links!Tick
  <1>9. CASE UNCHANGED Links!vars
    BY <1>9 DEF Links!vars
  <1>. QED BY <1>2, <1>3, <1>4, <1>5, <1>6, <1>7, <1>8, <1>9 DEF Links!Next

\* A link sets a password once, unless two resets with it overlap, and one that
\* has set a password is spent.
THEOREM OneReset == Spec => []ResetOnce
  <1>1. Links!Init /\ [][Links!Next]_(Links!vars) => []LinksInv
    BY LinksInit, LinksNext, PTL
  <1>2. LinksInv => ResetOnce
    BY DEF LinksInv
  <1>. QED BY <1>1, <1>2, EachRuns, PTL DEF Links!Spec
-----------------------------------------------------------------------------
(* Sign-in through a provider.                                             *)

\* h has consumed the state f and not yet answered.
Past(h, f) ==
  /\ flowPc[h] \in {"provider", "email", "create", "link", "enter"}
  /\ flowReq[h].flow = f

\* What a callback knows of the identity and the account it has found.
FoundOK ==
  /\ \A h \in Handler :
       /\ flowPc[h] \in {"email", "create", "link", "enter"} => flowReq[h].identity \in Identity
       /\ flowPc[h] \in {"create", "link", "enter"} => flowReq[h].sub \in Address
       /\ flowPc[h] = "enter" => linked[flowReq[h].identity] = flowReq[h].sub
  /\ \A s \in tokens : linked[s.identity] = s.sub

\* A state that no two callbacks consumed is past with one of them, which has
\* not answered, or with none.
ConsumedOK ==
  \A f \in Flow \ flowRaced :
    /\ entries[f] <= 1
    /\ \A h \in Handler : Past(h, f) =>
         entries[f] = 0 /\ \A g \in Handler : Past(g, f) => g = h
    /\ flow[f].state \in {"new", "open"} =>
         entries[f] = 0 /\ \A h \in Handler : ~ Past(h, f)

FlowsInv == Flows!TypeOK /\ FoundOK /\ ConsumedOK

LEMMA FlowsInit == Flows!Init => FlowsInv
  <1>. SUFFICES ASSUME Flows!Init PROVE FlowsInv
    OBVIOUS
  <1>. USE AccountAssumption DEF Flows!Init
  <1>1. Flows!NoRequest \in Flows!Request
    BY DEF Flows!NoRequest, Flows!Request
  <1>2. Flows!TypeOK
    BY <1>1 DEF Flows!TypeOK, Flows!States, Flows!Steps, Flows!Time
  <1>. QED BY <1>2 DEF FlowsInv, FoundOK, ConsumedOK, Past

\* A token that is issued says what the row of the identity says.
LEMMA FlowsSignIn ==
  ASSUME FlowsInv, NEW h \in Handler,
         Flows!SignIn(h),
         flowPc[h] \in {"create", "link", "enter"},
         account' \in [Address -> {"NONE", "unverified", "verified"}],
         linked' \in [Identity -> Address \cup {Unset}],
         linked'[flowReq[h].identity] = flowReq[h].sub,
         \A i \in Identity : linked[i] # Unset => linked'[i] = linked[i]
  PROVE  FlowsInv'
  <1>. USE AccountAssumption DEF FlowsInv
  <1>. DEFINE f == flowReq[h].flow
              i == flowReq[h].identity
              a == flowReq[h].sub
  <1>1. Flows!NoRequest \in Flows!Request
    BY DEF Flows!NoRequest, Flows!Request
  <1>2. f \in Flow /\ i \in Identity /\ a \in Address
    BY DEF Flows!TypeOK, Flows!Request, FoundOK
  <1>3. /\ tokens' = tokens \cup {[identity |-> i, sub |-> a]}
        /\ entries' = [entries EXCEPT ![f] = @ + 1]
        /\ flowPc' = [flowPc EXCEPT ![h] = "idle"]
        /\ flowReq' = [flowReq EXCEPT ![h] = Flows!NoRequest]
        /\ flowNow' = flowNow /\ flow' = flow /\ flowRaced' = flowRaced
    BY DEF Flows!SignIn, Flows!Finish, Flows!Goto
  <1>4. Flows!TypeOK'
    BY <1>1, <1>2, <1>3 DEF Flows!TypeOK, Flows!Steps
  <1>5. FoundOK'
    <2>1. ASSUME NEW g \in Handler, flowPc'[g] # "idle"
          PROVE  flowPc'[g] = flowPc[g] /\ flowReq'[g] = flowReq[g]
      BY <1>3, <2>1 DEF Flows!TypeOK
    <2>2. ASSUME NEW g \in Handler, flowPc'[g] = "enter"
          PROVE  linked'[flowReq'[g].identity] = flowReq'[g].sub
      <3>1. /\ flowReq'[g] = flowReq[g] /\ flowReq[g].identity \in Identity
            /\ flowReq[g].sub \in Address /\ linked[flowReq[g].identity] = flowReq[g].sub
        BY <2>1, <2>2 DEF FoundOK
      <3>. QED BY <3>1
    <2>3. ASSUME NEW s \in tokens'
          PROVE  linked'[s.identity] = s.sub
      <3>1. CASE s = [identity |-> i, sub |-> a]
        BY <3>1
      <3>2. CASE s \in tokens
        BY <3>2 DEF FoundOK, Flows!TypeOK
      <3>. QED BY <1>3, <3>1, <3>2
    <2>. QED BY <2>1, <2>2, <2>3 DEF FoundOK
  <1>6. ConsumedOK'
    <2>1. \A g \in Handler, k \in Flow : Past(g, k)' => g # h /\ Past(g, k)
      BY <1>3 DEF Past, Flows!TypeOK
    <2>2. \A k \in Flow : k # f => entries'[k] = entries[k]
      BY <1>3 DEF Flows!TypeOK
    <2>3. Past(h, f)
      BY DEF Past
    <2>4. f \notin flowRaced =>
            /\ entries'[f] = 1
            /\ \A g \in Handler, k \in Flow : k = f => ~ Past(g, k)'
            /\ flow[f].state \notin {"new", "open"}
      <3>. SUFFICES ASSUME f \notin flowRaced
                    PROVE  /\ entries'[f] = 1
                           /\ \A g \in Handler, k \in Flow : k = f => ~ Past(g, k)'
                           /\ flow[f].state \notin {"new", "open"}
        OBVIOUS
      <3>1. f \in Flow \ flowRaced
        BY <1>2
      <3>2. /\ entries[f] = 0
            /\ \A g \in Handler : Past(g, f) => g = h
            /\ flow[f].state \notin {"new", "open"}
        BY <2>3, <3>1 DEF ConsumedOK
      <3>3. entries'[f] = 1
        BY <1>2, <1>3, <3>2 DEF Flows!TypeOK
      <3>4. \A g \in Handler, k \in Flow : k = f => ~ Past(g, k)'
        BY <1>2, <2>1, <3>2
      <3>. QED BY <3>2, <3>3, <3>4
    <2>5. ASSUME NEW k \in Flow \ flowRaced, k # f
          PROVE  /\ entries'[k] <= 1
                 /\ \A g \in Handler : Past(g, k)' =>
                      entries'[k] = 0 /\ \A e \in Handler : Past(e, k)' => e = g
                 /\ flow'[k].state \in {"new", "open"} =>
                      entries'[k] = 0 /\ \A g \in Handler : ~ Past(g, k)'
      BY <1>3, <2>1, <2>2, <2>5 DEF ConsumedOK
    <2>6. ASSUME NEW k \in Flow \ flowRaced, k = f
          PROVE  /\ entries'[k] <= 1
                 /\ \A g \in Handler : Past(g, k)' =>
                      entries'[k] = 0 /\ \A e \in Handler : Past(e, k)' => e = g
                 /\ flow'[k].state \in {"new", "open"} =>
                      entries'[k] = 0 /\ \A g \in Handler : ~ Past(g, k)'
      <3>1. f \notin flowRaced
        BY <2>6
      <3>2. entries'[k] = 1 /\ \A g \in Handler : ~ Past(g, k)'
        BY <2>4, <2>6, <3>1
      <3>3. flow'[f].state \notin {"new", "open"}
        BY <1>3, <2>4, <3>1
      <3>. QED BY <2>6, <3>2, <3>3
    <2>. QED BY <1>3, <2>5, <2>6 DEF ConsumedOK
  <1>. QED BY <1>4, <1>5, <1>6

LEMMA FlowsNext == FlowsInv /\ [Flows!Next]_(Flows!vars) => FlowsInv'
  <1>. SUFFICES ASSUME FlowsInv, [Flows!Next]_(Flows!vars) PROVE FlowsInv'
    OBVIOUS
  <1>. USE AccountAssumption DEF FlowsInv
  <1>0. Flows!NoRequest \in Flows!Request
    BY DEF Flows!NoRequest, Flows!Request
  <1>. USE DEF Flows!TypeOK, Flows!States, Flows!Steps, Flows!stored, Flows!issued
  <1>1. ASSUME NEW f \in Flow, Flows!Start(f) PROVE FlowsInv'
    BY <1>1 DEF Flows!Start, FoundOK, ConsumedOK, Past, Flows!Time
  <1>2. ASSUME NEW h \in Handler, NEW f \in Flow, Flows!ReadState(h, f) PROVE FlowsInv'
    <2>1. [Flows!NoRequest EXCEPT !.flow = f] \in Flows!Request
      BY <1>0 DEF Flows!Request
    <2>2. Flows!TypeOK'
      BY <1>2, <2>1 DEF Flows!ReadState, Flows!Goto
    <2>. QED BY <1>2, <2>2 DEF Flows!ReadState, Flows!Goto, FoundOK, ConsumedOK, Past
  <1>3. ASSUME NEW h \in Handler, Flows!Consume(h) PROVE FlowsInv'
    <2>. DEFINE f == flowReq[h].flow
    <2>1. /\ f \in Flow /\ flowPc[h] = "consume"
          /\ flowPc' = [flowPc EXCEPT ![h] = "provider"]
          /\ flow' = [flow EXCEPT ![f].state = IF flow[f].state = "open" THEN "consumed" ELSE @]
          /\ flowRaced' = IF flow[f].state = "open" THEN flowRaced ELSE flowRaced \cup {f}
          /\ UNCHANGED <<flowNow, account, linked, tokens, entries, flowReq>>
      BY <1>3 DEF Flows!Consume, Flows!Goto, Flows!StateDeleted, Flows!Request
    <2>2. Flows!TypeOK'
      BY <2>1
    <2>3. FoundOK'
      BY <2>1 DEF FoundOK
    <2>4. ConsumedOK'
      <3>1. \A g \in Handler, k \in Flow : Past(g, k)' <=> Past(g, k) \/ (g = h /\ k = f)
        BY <2>1 DEF Past
      <3>2. ASSUME NEW k \in Flow \ flowRaced', k # f
            PROVE  /\ entries'[k] <= 1
                   /\ \A g \in Handler : Past(g, k)' =>
                        entries'[k] = 0 /\ \A e \in Handler : Past(e, k)' => e = g
                   /\ flow'[k].state \in {"new", "open"} =>
                        entries'[k] = 0 /\ \A g \in Handler : ~ Past(g, k)'
        <4>1. k \in Flow \ flowRaced /\ flow'[k] = flow[k] /\ entries' = entries
          BY <2>1, <3>2
        <4>. QED BY <3>1, <3>2, <4>1 DEF ConsumedOK
      <3>3. ASSUME NEW k \in Flow \ flowRaced', k = f
            PROVE  /\ entries'[k] <= 1
                   /\ \A g \in Handler : Past(g, k)' =>
                        entries'[k] = 0 /\ \A e \in Handler : Past(e, k)' => e = g
                   /\ flow'[k].state \in {"new", "open"} =>
                        entries'[k] = 0 /\ \A g \in Handler : ~ Past(g, k)'
        <4>1. f \in Flow \ flowRaced /\ flow[f].state = "open" /\ flow'[f].state = "consumed"
          BY <2>1, <3>3
        <4>2. entries'[f] = 0 /\ \A g \in Handler : ~ Past(g, f)
          BY <2>1, <4>1 DEF ConsumedOK
        <4>. QED BY <3>1, <3>3, <4>1, <4>2
      <3>. QED BY <3>2, <3>3 DEF ConsumedOK
    <2>. QED BY <2>2, <2>3, <2>4
  <1>4. ASSUME NEW h \in Handler, Flows!StateExpired(h) \/ Flows!GiveUp(h) \/ Flows!TakenMeanwhile(h)
        PROVE  FlowsInv'
    <2>1. /\ flowPc' = [flowPc EXCEPT ![h] = "idle"]
          /\ flowReq' = [flowReq EXCEPT ![h] = Flows!NoRequest]
          /\ UNCHANGED <<flowNow, flow, account, linked, tokens, entries, flowRaced>>
      BY <1>4 DEF Flows!StateExpired, Flows!GiveUp, Flows!TakenMeanwhile, Flows!Finish, Flows!Goto
    <2>2. Flows!TypeOK'
      BY <1>0, <2>1
    <2>. QED BY <2>1, <2>2 DEF FoundOK, ConsumedOK, Past
  <1>5. ASSUME NEW h \in Handler, NEW i \in Identity, NEW e \in Address \cup {Unset},
               Flows!FetchProfile(h, i, e)
        PROVE  FlowsInv'
    <2>1. /\ flowPc[h] = "provider"
          /\ flowPc' = [flowPc EXCEPT ![h] = IF linked[i] # Unset THEN "enter" ELSE "email"]
          /\ flowReq' = [flowReq EXCEPT
                           ![h] = [flowReq[h] EXCEPT !.identity = i, !.email = e, !.sub = linked[i]]]
          /\ UNCHANGED <<flowNow, flow, account, linked, tokens, entries, flowRaced>>
      BY <1>5 DEF Flows!FetchProfile, Flows!Goto
    <2>2. /\ flowReq'[h] \in Flows!Request
          /\ flowReq'[h].flow = flowReq[h].flow
          /\ flowReq'[h].identity = i /\ flowReq'[h].sub = linked[i]
      BY <2>1 DEF Flows!Request
    <2>3. Flows!TypeOK'
      BY <2>1, <2>2
    <2>4. FoundOK'
      BY <2>1, <2>2 DEF FoundOK
    <2>5. ConsumedOK'
      <3>1. \A g \in Handler, k \in Flow : Past(g, k)' <=> Past(g, k)
        BY <2>1, <2>2 DEF Past
      <3>. QED BY <2>1, <3>1 DEF ConsumedOK
    <2>. QED BY <2>3, <2>4, <2>5
  <1>6. ASSUME NEW h \in Handler, Flows!FindByEmail(h) PROVE FlowsInv'
    <2>. DEFINE a == flowReq[h].email
    <2>1. /\ flowPc[h] = "email" /\ a \in Address
          /\ flowPc' = [flowPc EXCEPT ![h] = IF account[a] = "NONE" THEN "create" ELSE "link"]
          /\ flowReq' = [flowReq EXCEPT ![h] = [flowReq[h] EXCEPT !.sub = a]]
          /\ UNCHANGED <<flowNow, flow, account, linked, tokens, entries, flowRaced>>
      BY <1>6 DEF Flows!FindByEmail, Flows!Goto, Flows!Request
    <2>2. /\ flowReq'[h] \in Flows!Request
          /\ flowReq'[h].flow = flowReq[h].flow
          /\ flowReq'[h].identity = flowReq[h].identity /\ flowReq'[h].sub = a
      BY <2>1 DEF Flows!Request
    <2>3. Flows!TypeOK'
      BY <2>1, <2>2
    <2>4. FoundOK'
      BY <2>1, <2>2 DEF FoundOK
    <2>5. ConsumedOK'
      <3>1. \A g \in Handler, k \in Flow : Past(g, k)' <=> Past(g, k)
        BY <2>1, <2>2 DEF Past
      <3>. QED BY <2>1, <3>1 DEF ConsumedOK
    <2>. QED BY <2>3, <2>4, <2>5
  <1>7. ASSUME NEW h \in Handler, Flows!Connect(h) PROVE FlowsInv'
    <2>. DEFINE i == flowReq[h].identity
    <2>1. flowPc[h] \in {"create", "link"} /\ i \in Identity /\ flowReq[h].sub \in Address
      BY <1>7 DEF Flows!Connect, FoundOK
    <2>2. linked[i] = Unset /\ linked' = [linked EXCEPT ![i] = flowReq[h].sub]
      BY <1>7 DEF Flows!Connect, Flows!MayLink
    <2>3. account' \in [Address -> {"NONE", "unverified", "verified"}]
      BY <1>7, <2>1 DEF Flows!Connect
    <2>. QED BY <1>7, <2>1, <2>2, <2>3, FlowsSignIn DEF Flows!Connect
  <1>8. ASSUME NEW h \in Handler, Flows!Enter(h) PROVE FlowsInv'
    <2>1. /\ flowPc[h] = "enter" /\ Flows!SignIn(h) /\ account' = account /\ linked' = linked
          /\ linked[flowReq[h].identity] = flowReq[h].sub
      BY <1>8 DEF Flows!Enter, FoundOK
    <2>. QED BY <2>1, FlowsSignIn
  <1>9. ASSUME NEW a \in Address, Flows!Register(a) \/ Flows!VerifyOtp(a) PROVE FlowsInv'
    BY <1>9 DEF Flows!Register, Flows!VerifyOtp, FoundOK, ConsumedOK, Past
  <1>10. CASE Flows!Purge
    BY <1>10 DEF Flows!Purge, FoundOK, ConsumedOK, Past
  <1>11. CASE Flows!Tick
    BY <1>11 DEF Flows!Tick, FoundOK, ConsumedOK, Past, Flows!Time
  <1>12. CASE UNCHANGED Flows!vars
    BY <1>12 DEF Flows!vars, FoundOK, ConsumedOK, Past
  <1>. QED BY <1>1, <1>2, <1>3, <1>4, <1>5, <1>6, <1>7, <1>8, <1>9, <1>10, <1>11, <1>12
           DEF Flows!Next

\* An identity always signs in to the same account, and a state leads to one
\* token, unless two callbacks with it overlap.
THEOREM SameAccount == Spec => []SameAccountAgain
  <1>1. Flows!Init /\ [][Flows!Next]_(Flows!vars) => []FlowsInv
    BY FlowsInit, FlowsNext, PTL
  <1>2. FlowsInv => SameAccountAgain
    BY DEF FlowsInv, FoundOK, ConsumedOK, SameAccountAgain, Flows!SameAccountAgain
  <1>. QED BY <1>1, <1>2, EachRuns, PTL DEF Flows!Spec
-----------------------------------------------------------------------------
(* Threads.                                                                *)

\* Whoever is being assigned is a person.
AssignOK ==
  \A h \in Handler : inboxPc[h] = "assign" => inboxReq[h].key.user \in Account

\* Whoever is about to insert a thread on a fresh lookup finds none still.
ThreadsInv ==
  /\ Threads!TypeOK
  /\ AssignOK
  /\ OneThread
  /\ \A h \in Handler :
       inboxPc[h] = "insert" /\ inboxReq[h].fresh => Threads!Matching(inboxReq[h].key) = {}

\* What a role lists it may open.
ListedOpens ==
  \A u \in Account, part \in {"user", "agent", "admin"} :
    \A t \in Threads!Listed(u, part) : Threads!CanAccess(t, u, part)

LEMMA ListedCanBeOpened == ListedOpens
  BY DEF ListedOpens, Threads!Listed, Threads!CanAccess

LEMMA ThreadsInit == Threads!Init => ThreadsInv
  <1>. SUFFICES ASSUME Threads!Init PROVE ThreadsInv
    OBVIOUS
  <1>. USE DEF Threads!Init
  <1>1. Threads!NoRequest \in Threads!Request
    BY ContentAssumption DEF Threads!NoRequest, Threads!Request, Threads!Key
  <1>2. Threads!TypeOK
    BY <1>1 DEF Threads!TypeOK, Threads!Steps, Threads!Listing
  <1>3. OneThread
    BY ListedCanBeOpened DEF ListedOpens, OneThread, Threads!OneThread, Threads!Threads
  <1>. QED BY <1>2, <1>3 DEF ThreadsInv, AssignOK

\* Threads that stay as they are, or lose rows, keep the invariant.
LEMMA FewerThreads ==
  ASSUME ThreadsInv, Threads!TypeOK', AssignOK',
         inboxRaced' = inboxRaced,
         \A t \in Thread : thread'[t] = thread[t] \/ thread'[t] = NoRow,
         \A h \in Handler :
           inboxPc'[h] = "insert" /\ inboxReq'[h].fresh =>
             Threads!Matching(inboxReq'[h].key) = {}
  PROVE  ThreadsInv'
  <1>1. Threads!Threads' \subseteq Threads!Threads
        /\ \A t \in Threads!Threads' : thread'[t] = thread[t]
    BY DEF Threads!Threads
  <1>2. OneThread'
    <2>1. ListedOpens'
      BY DEF ListedOpens, Threads!Listed, Threads!CanAccess
    <2>. QED BY <1>1, <2>1 DEF ThreadsInv, ListedOpens, OneThread, Threads!OneThread
  <1>3. ASSUME NEW h \in Handler, inboxPc'[h] = "insert", inboxReq'[h].fresh
        PROVE  Threads!Matching(inboxReq[h].key)' = {}
    <2>1. Threads!Matching(inboxReq'[h].key) = {}
      BY <1>3
    <2>. QED BY <1>1, <2>1 DEF Threads!Matching
  <1>. QED BY <1>2, <1>3 DEF ThreadsInv

LEMMA ThreadsNext == ThreadsInv /\ [Threads!Next]_(Threads!vars) => ThreadsInv'
  <1>. SUFFICES ASSUME ThreadsInv, [Threads!Next]_(Threads!vars) PROVE ThreadsInv'
    OBVIOUS
  <1>. USE DEF Threads!TypeOK, Threads!Steps
  <1>0. Threads!TypeOK /\ Threads!NoRequest \in Threads!Request
    BY ContentAssumption
       DEF ThreadsInv, Threads!NoRequest, Threads!Request, Threads!Key
  <1>1. ASSUME NEW h \in Handler, NEW k \in Threads!Key,
               \/ Threads!Begin(h, "find", k)
               \/ Threads!Begin(h, "assign", k) /\ k.user \in Account,
               UNCHANGED <<listing, thread, assigned, inboxRaced>>
        PROVE  ThreadsInv'
    <2>1. [key |-> k, fresh |-> TRUE] \in Threads!Request
      BY DEF Threads!Request
    <2>2. Threads!TypeOK'
      BY <1>0, <1>1, <2>1 DEF Threads!Begin
    <2>3. \A g \in Handler :
            inboxPc'[g] = "insert" /\ inboxReq'[g].fresh =>
              Threads!Matching(inboxReq'[g].key) = {}
      BY <1>0, <1>1 DEF Threads!Begin, ThreadsInv
    <2>4. AssignOK'
      BY <1>0, <1>1 DEF Threads!Begin, ThreadsInv, AssignOK
    <2>. QED BY <1>1, <2>2, <2>3, <2>4, FewerThreads
  <1>2. ASSUME NEW h \in Handler, Threads!Finish(h),
               UNCHANGED <<listing, thread, inboxRaced>>,
               assigned' \subseteq Property \X Account
        PROVE  ThreadsInv'
    <2>1. Threads!TypeOK'
      BY <1>0, <1>2 DEF Threads!Finish
    <2>2. \A g \in Handler :
            inboxPc'[g] = "insert" /\ inboxReq'[g].fresh =>
              Threads!Matching(inboxReq'[g].key) = {}
      BY <1>0, <1>2 DEF Threads!Finish, ThreadsInv
    <2>3. AssignOK'
      BY <1>0, <1>2 DEF Threads!Finish, ThreadsInv, AssignOK
    <2>. QED BY <1>2, <2>1, <2>2, <2>3, FewerThreads
  <1>3. ASSUME NEW h \in Handler, NEW k \in Threads!Key, Threads!ReadProperty(h, k)
        PROVE  ThreadsInv'
    BY <1>1, <1>3 DEF Threads!ReadProperty
  <1>4. ASSUME NEW h \in Handler, Threads!ReuseThread(h) \/ Threads!Fail(h) PROVE ThreadsInv'
    BY <1>0, <1>2, <1>4 DEF Threads!ReuseThread, Threads!Fail
  <1>5. ASSUME NEW h \in Handler, Threads!NoThread(h) PROVE ThreadsInv'
    <2>1. /\ Threads!Matching(inboxReq[h].key) = {}
          /\ inboxPc' = [inboxPc EXCEPT ![h] = "insert"]
          /\ inboxReq' = [inboxReq EXCEPT ![h] = [inboxReq[h] EXCEPT !.fresh = TRUE]]
          /\ UNCHANGED <<listing, thread, assigned, inboxRaced>>
      BY <1>5 DEF Threads!NoThread
    <2>2. /\ inboxReq'[h] \in Threads!Request
          /\ inboxReq'[h].key = inboxReq[h].key
      BY <1>0, <2>1 DEF Threads!Request
    <2>3. Threads!TypeOK'
      BY <1>0, <2>1, <2>2
    <2>4. \A g \in Handler :
            inboxPc'[g] = "insert" /\ inboxReq'[g].fresh =>
              Threads!Matching(inboxReq'[g].key) = {}
      BY <1>0, <2>1, <2>2 DEF ThreadsInv
    <2>5. AssignOK'
      BY <1>0, <2>1, <2>2 DEF ThreadsInv, AssignOK
    <2>. QED BY <2>1, <2>3, <2>4, <2>5, FewerThreads
  <1>6. ASSUME NEW h \in Handler, NEW t \in Thread, Threads!InsertThread(h, t) PROVE ThreadsInv'
    <2>. DEFINE k == inboxReq[h].key
                Same(g) == /\ inboxReq[g].key.property = k.property
                           /\ IF inboxReq[g].key.user # Unset
                              THEN inboxReq[g].key.user = k.user
                              ELSE inboxReq[g].key.email = k.email
    <2>1. /\ inboxPc[h] = "insert" /\ thread[t] = NoRow
          /\ thread' = [thread EXCEPT ![t] = k]
          /\ inboxRaced' = IF inboxReq[h].fresh THEN inboxRaced ELSE inboxRaced \cup {k}
          /\ inboxPc' = [inboxPc EXCEPT ![h] = "idle"]
          /\ UNCHANGED <<listing, assigned>>
      BY <1>6 DEF Threads!InsertThread
    <2>2. inboxReq' = [g \in Handler |->
                         IF g = h THEN Threads!NoRequest
                         ELSE [inboxReq[g] EXCEPT !.fresh = @ /\ ~ Same(g)]]
      BY <1>6 DEF Threads!InsertThread
    <2>3. k \in Threads!Key
      BY <1>0 DEF Threads!Request
    <2>4. ASSUME NEW g \in Handler, g # h
          PROVE  /\ inboxReq'[g] \in Threads!Request
                 /\ inboxReq'[g].key = inboxReq[g].key
                 /\ inboxReq'[g].fresh = (inboxReq[g].fresh /\ ~ Same(g))
      <3>. DEFINE b == inboxReq[g].fresh /\ ~ Same(g)
      <3>1. inboxReq[g] \in [key : Threads!Key, fresh : BOOLEAN]
        BY <1>0 DEF Threads!Request
      <3>2. inboxReq'[g] = [inboxReq[g] EXCEPT !.fresh = b]
        BY <2>2, <2>4
      <3>3. b \in BOOLEAN
        OBVIOUS
      <3>. HIDE DEF b
      <3>4. inboxReq'[g] \in Threads!Request /\ inboxReq'[g].key = inboxReq[g].key
        BY <3>1, <3>2, <3>3 DEF Threads!Request
      <3>5. inboxReq'[g].fresh = b
        BY <3>1, <3>2, Zenon
      <3>. QED BY <3>4, <3>5 DEF b
    <2>5. inboxReq'[h] = Threads!NoRequest
      BY <2>2
    <2>6. Threads!TypeOK'
      <3>1. inboxReq' \in [Handler -> Threads!Request]
        BY <1>0, <2>2, <2>4, <2>5
      <3>2. thread' \in [Thread -> Threads!Key \cup {NoRow}] /\ inboxRaced' \subseteq Threads!Key
        BY <1>0, <2>1, <2>3
      <3>. QED BY <1>0, <2>1, <3>1, <3>2
    <2>7. /\ Threads!Threads' \subseteq Threads!Threads \cup {t}
          /\ \A s \in Thread : s # t => thread'[s] = thread[s]
          /\ thread'[t] = k
      BY <1>0, <2>1 DEF Threads!Threads
    <2>8. OneThread'
      <3>1. ASSUME NEW s \in Threads!Threads, s # t, inboxReq[h].fresh,
                   thread[s].property = k.property, thread[s].user = k.user,
                   k.user # Unset \/ thread[s].email = k.email
            PROVE  FALSE
        BY <2>1, <3>1 DEF ThreadsInv, Threads!Matching
      <3>2. \A r, s \in Threads!Threads' :
              /\ thread'[r].property = thread'[s].property
              /\ thread'[r].user = thread'[s].user
              /\ thread'[r].user # Unset \/ thread'[r].email = thread'[s].email
              => r = s \/ thread'[r] \in inboxRaced' \/ thread'[s] \in inboxRaced'
        <4>. TAKE r, s \in Threads!Threads'
        <4>. HAVE /\ thread'[r].property = thread'[s].property
                  /\ thread'[r].user = thread'[s].user
                  /\ thread'[r].user # Unset \/ thread'[r].email = thread'[s].email
        <4>. SUFFICES ASSUME r # s
                      PROVE  thread'[r] \in inboxRaced' \/ thread'[s] \in inboxRaced'
          OBVIOUS
        <4>1. r \in Thread /\ s \in Thread
          BY DEF Threads!Threads
        <4>2. CASE r # t /\ s # t
          <5>1. r \in Threads!Threads /\ s \in Threads!Threads
                /\ thread'[r] = thread[r] /\ thread'[s] = thread[s]
            BY <2>7, <4>1, <4>2
          <5>2. thread[r] \in inboxRaced \/ thread[s] \in inboxRaced
            BY <5>1 DEF ThreadsInv, OneThread, Threads!OneThread
          <5>. QED BY <2>1, <5>1, <5>2
        <4>3. CASE r = t
          <5>1. s \in Threads!Threads /\ thread'[s] = thread[s] /\ thread'[r] = k
            BY <2>7, <4>1, <4>3
          <5>2. ~ inboxReq[h].fresh
            BY <3>1, <4>3, <5>1
          <5>. QED BY <2>1, <5>1, <5>2
        <4>4. CASE s = t
          <5>1. r \in Threads!Threads /\ thread'[r] = thread[r] /\ thread'[s] = k
            BY <2>7, <4>1, <4>4
          <5>2. ~ inboxReq[h].fresh
            BY <3>1, <4>4, <5>1
          <5>. QED BY <2>1, <5>1, <5>2
        <4>. QED BY <4>2, <4>3, <4>4
      <3>3. ListedOpens'
        BY DEF ListedOpens, Threads!Listed, Threads!CanAccess
      <3>. QED BY <3>2, <3>3 DEF ListedOpens, OneThread, Threads!OneThread
    <2>9. ASSUME NEW g \in Handler, inboxPc'[g] = "insert", inboxReq'[g].fresh
          PROVE  Threads!Matching(inboxReq[g].key)' = {}
      <3>1. g # h /\ inboxPc[g] = "insert"
        BY <1>0, <2>1, <2>9
      <3>2. inboxReq'[g].key = inboxReq[g].key /\ inboxReq[g].fresh /\ ~ Same(g)
        BY <2>4, <2>9, <3>1
      <3>3. Threads!Matching(inboxReq[g].key) = {}
        BY <3>1, <3>2 DEF ThreadsInv
      <3>4. ASSUME NEW s \in Threads!Threads',
                   thread'[s].property = inboxReq[g].key.property,
                   IF inboxReq[g].key.user # Unset THEN thread'[s].user = inboxReq[g].key.user
                                                   ELSE thread'[s].email = inboxReq[g].key.email
            PROVE  FALSE
        <4>1. CASE s = t
          BY <2>7, <3>2, <3>4, <4>1
        <4>2. CASE s # t
          <5>1. s \in Threads!Threads /\ thread'[s] = thread[s]
            BY <2>7, <4>2 DEF Threads!Threads
          <5>. QED BY <3>3, <3>4, <5>1 DEF Threads!Matching
        <4>. QED BY <4>1, <4>2
      <3>. QED BY <3>2, <3>4 DEF Threads!Matching
    <2>10. AssignOK'
      BY <1>0, <2>1, <2>4 DEF ThreadsInv, AssignOK
    <2>. QED BY <2>6, <2>8, <2>9, <2>10 DEF ThreadsInv
  <1>7. ASSUME NEW h \in Handler, NEW p \in Property, NEW a \in Account, NEW e \in Email,
               Threads!ReadAssignment(h, p, a, e)
        PROVE  ThreadsInv'
    <2>1. [property |-> p, user |-> a, email |-> e] \in Threads!Key
      BY DEF Threads!Key
    <2>2. [property |-> p, user |-> a, email |-> e].user \in Account
      OBVIOUS
    <2>. QED BY <1>1, <1>7, <2>1, <2>2 DEF Threads!ReadAssignment
  <1>8. ASSUME NEW h \in Handler, Threads!Assign(h) PROVE ThreadsInv'
    <2>1. inboxReq[h].key.property \in Property /\ inboxReq[h].key.user \in Account
      BY <1>0, <1>8 DEF Threads!Request, Threads!Key, Threads!Assign, ThreadsInv, AssignOK
    <2>2. assigned' \subseteq Property \X Account
      BY <1>0, <1>8, <2>1 DEF Threads!Assign
    <2>. QED BY <1>2, <1>8, <2>2 DEF Threads!Assign
  <1>9. ASSUME NEW p \in Property,
               \/ Threads!DeleteProperty(p) \/ Threads!RestoreProperty(p)
               \/ Threads!PurgeProperty(p)
               \/ \E a \in Account : Threads!Unassign(p, a)
        PROVE  ThreadsInv'
    <2>1. Threads!TypeOK'
      BY <1>0, <1>9
         DEF Threads!DeleteProperty, Threads!RestoreProperty, Threads!PurgeProperty,
             Threads!Unassign, Threads!Listing
    <2>2. /\ inboxRaced' = inboxRaced /\ inboxPc' = inboxPc /\ inboxReq' = inboxReq
          /\ \A t \in Thread : thread'[t] = thread[t] \/ thread'[t] = NoRow
      BY <1>0, <1>9
         DEF Threads!DeleteProperty, Threads!RestoreProperty, Threads!PurgeProperty,
             Threads!Unassign
    <2>. QED BY <2>1, <2>2, FewerThreads DEF ThreadsInv, AssignOK
  <1>10. CASE UNCHANGED Threads!vars
    <2>1. Threads!TypeOK'
      BY <1>0, <1>10 DEF Threads!vars
    <2>. QED BY <1>10, <2>1, FewerThreads DEF Threads!vars, ThreadsInv, AssignOK
  <1>. QED BY <1>3, <1>4, <1>5, <1>6, <1>7, <1>8, <1>9, <1>10 DEF Threads!Next

\* A guest has one thread on a property, unless two first messages overlap, and
\* what somebody's inbox lists may be opened.
THEOREM ThreadPerGuest == Spec => []OneThread
  <1>1. Threads!Init /\ [][Threads!Next]_(Threads!vars) => []ThreadsInv
    BY ThreadsInit, ThreadsNext, PTL
  <1>2. ThreadsInv => OneThread
    BY DEF ThreadsInv
  <1>. QED BY <1>1, <1>2, EachRuns, PTL DEF Threads!Spec
-----------------------------------------------------------------------------
(* Live delivery.                                                          *)

LEMMA AppendLater ==
  ASSUME NEW S, NEW s \in Seq(S), NEW q \in Seq(S), NEW e \in S
  PROVE  s \o Append(q, e) = Append(s \o q, e)
  OBVIOUS

LEMMA HeadMoves ==
  ASSUME NEW S, NEW s \in Seq(S), NEW q \in Seq(S), q # << >>
  PROVE  /\ Append(s, Head(q)) \in Seq(S) /\ Tail(q) \in Seq(S)
         /\ Append(s, Head(q)) \o Tail(q) = s \o q
  OBVIOUS

LEMMA ShorterQueue ==
  ASSUME NEW S, NEW s \in Seq(S), NEW q \in Seq(S), NEW n \in 0..Len(q)
  PROVE  /\ SubSeq(q, 1, n) \in Seq(S)
         /\ s \o SubSeq(q, 1, n) \in Seq(S)
         /\ Len(s \o SubSeq(q, 1, n)) <= Len(s \o q)
         /\ \A i \in 1..Len(s \o SubSeq(q, 1, n)) : (s \o SubSeq(q, 1, n))[i] = (s \o q)[i]
  OBVIOUS

\* What has come in by the subscription of a socket.
Stream(r) == reader[r].seen \o reader[r].queue

\* Every message in t is published, and those of one sender are in their order.
StreamOK(t) ==
  /\ t \in Seq(Live!Message)
  /\ \A i \in 1..Len(t) :
       /\ t[i][2] <= sent[t[i][1]]
       /\ at[t[i][1]] # Unset => t[i][2] < sent[t[i][1]]
  /\ \A i, j \in 1..Len(t) : i < j /\ t[i][1] = t[j][1] => t[i][2] < t[j][2]

\* A message that has come in on the bus since the history was fetched is in the
\* stream.
Heard(r) ==
  reader[r].history # Unset /\ ~ reader[r].late /\ reader[r].pump =>
    \A m \in Live!Stored :
      m \in reader[r].history \/ Live!Contains(Stream(r), m) \/ via[m] # reader[r].bus

SocketOK(r) ==
  /\ reader[r].bus = Unset => ~ reader[r].pump /\ (reader[r].history = Unset \/ reader[r].late)
  /\ StreamOK(Stream(r))
  /\ Heard(r)

\* What a worker has still to publish is stored, and marked so.
PostOK ==
  \A s \in Sender : at[s] # Unset => sent[s] \in 1..Posts /\ via[<<s, sent[s]>>] = "pending"

LiveInv ==
  /\ Live!TypeOK
  /\ PostOK
  /\ \A r \in Reader : SocketOK(r)

LEMMA ClosedIsOK ==
  ASSUME NEW r \in Reader, reader[r] = Live!Closed
  PROVE  SocketOK(r)
  <1>1. Stream(r) = << >>
    BY DEF Stream, Live!Closed
  <1>. QED BY <1>1 DEF SocketOK, StreamOK, Heard, Live!Closed

LEMMA ClosedIsSocket == Live!Closed \in Live!Socket
  BY DEF Live!Closed, Live!Socket

LEMMA LiveInit == Live!Init => LiveInv
  <1>. SUFFICES ASSUME Live!Init PROVE LiveInv
    OBVIOUS
  <1>1. Live!TypeOK
    BY ClosedIsSocket, ProcessAssumption DEF Live!Init, Live!TypeOK
  <1>2. PostOK
    BY DEF Live!Init, PostOK
  <1>3. \A r \in Reader : SocketOK(r)
    BY ClosedIsOK DEF Live!Init
  <1>. QED BY <1>1, <1>2, <1>3 DEF LiveInv

\* Each sender has as many messages as it has stored.
LEMMA RoomForPost ==
  ASSUME Live!TypeOK, NEW s \in Sender, Cardinality(Live!Stored) < Posts
  PROVE  sent[s] + 1 \in 1..Posts
  <1>. DEFINE Own == {s} \X (1..Posts)
  <1>1. IsFiniteSet(Live!Message)
    <2>1. IsFiniteSet(1..Posts) /\ IsFiniteSet(Sender)
      BY ProcessAssumption, FS_Interval
    <2>. QED BY <2>1, FS_Product DEF Live!Message
  <1>2. IsFiniteSet(Live!Stored)
    BY <1>1, FS_Subset DEF Live!Stored
  <1>3. Cardinality(Own) = Posts
    <2>1. IsFiniteSet({s}) /\ Cardinality({s}) = 1
      BY FS_Singleton
    <2>2. IsFiniteSet(1..Posts) /\ Cardinality(1..Posts) = Posts
      BY ProcessAssumption, FS_Interval
    <2>3. Cardinality({s} \X (1..Posts)) = Cardinality({s}) * Cardinality(1..Posts)
      BY <2>1, <2>2, FS_Product
    <2>. QED BY <2>1, <2>2, <2>3, ProcessAssumption
  <1>4. sent[s] \in 0..Posts
    BY DEF Live!TypeOK
  <1>5. ASSUME sent[s] = Posts PROVE FALSE
    <2>1. Own \in SUBSET Live!Stored
      BY <1>5 DEF Live!Stored, Live!Message
    <2>2. Cardinality(Own) <= Cardinality(Live!Stored)
      BY <1>2, <2>1, FS_Subset
    <2>3. Cardinality(Live!Stored) \in Nat
      BY <1>2, FS_CardinalityType
    <2>. QED BY <1>3, <2>2, <2>3, ProcessAssumption
  <1>. QED BY <1>4, <1>5, ProcessAssumption

\* A step of one socket leaves the others as they are.
LEMMA OneSocket ==
  ASSUME LiveInv, NEW r \in Reader, NEW x \in Live!Socket,
         reader' = [reader EXCEPT ![r] = x],
         UNCHANGED <<broker, sent, at, via>>,
         SocketOK(r)'
  PROVE  LiveInv'
  <1>1. Live!TypeOK'
    BY DEF LiveInv, Live!TypeOK
  <1>2. PostOK'
    BY DEF LiveInv, PostOK
  <1>3. ASSUME NEW g \in Reader, g # r PROVE SocketOK(g)'
    <2>1. SocketOK(g) /\ reader'[g] = reader[g]
      BY <1>3 DEF LiveInv, Live!TypeOK
    <2>2. Stream(g)' = Stream(g) /\ Live!Stored' = Live!Stored
      BY <2>1 DEF Stream, Live!Stored
    <2>3. StreamOK(Stream(g))'
      BY <2>1, <2>2 DEF SocketOK, StreamOK
    <2>4. Heard(g)'
      BY <2>1, <2>2 DEF SocketOK, Heard
    <2>. QED BY <2>1, <2>3, <2>4 DEF SocketOK
  <1>. QED BY <1>1, <1>2, <1>3 DEF LiveInv

\* A socket that stays as it is, while messages are stored or publications end.
LEMMA SocketStays ==
  ASSUME LiveInv, NEW r \in Reader,
         reader'[r] = reader[r],
         \A s \in Sender : sent'[s] \in Nat /\ sent'[s] >= sent[s],
         \A s \in Sender : at'[s] # Unset => \/ at'[s] = at[s] /\ sent'[s] = sent[s]
                                             \/ sent'[s] > sent[s],
         \A m \in Live!Stored' :
           \/ m \in Live!Stored /\ via'[m] = via[m]
           \/ via'[m] # reader[r].bus
           \/ ~ reader[r].pump
  PROVE  SocketOK(r)'
  <1>1. SocketOK(r) /\ Stream(r)' = Stream(r)
    BY DEF LiveInv, Stream
  <1>. DEFINE t == Stream(r)
  <1>2. t \in Seq(Live!Message)
    BY <1>1 DEF SocketOK, StreamOK
  <1>3. ASSUME NEW i \in 1..Len(t)
        PROVE  /\ t[i][2] <= sent'[t[i][1]]
               /\ at'[t[i][1]] # Unset => t[i][2] < sent'[t[i][1]]
    <2>1. t[i][1] \in Sender /\ t[i][2] \in Nat
      BY <1>2 DEF Live!Message
    <2>2. t[i][2] <= sent[t[i][1]] /\ (at[t[i][1]] # Unset => t[i][2] < sent[t[i][1]])
      BY <1>1 DEF SocketOK, StreamOK
    <2>3. sent[t[i][1]] \in Nat
      BY <2>1 DEF LiveInv, Live!TypeOK
    <2>. QED BY <2>1, <2>2, <2>3
  <1>4. StreamOK(Stream(r))'
    BY <1>1, <1>3 DEF SocketOK, StreamOK, Live!Message
  <1>5. Heard(r)'
    BY <1>1 DEF SocketOK, Heard
  <1>. QED BY <1>1, <1>4, <1>5 DEF SocketOK

LEMMA LivePost ==
  ASSUME LiveInv, NEW s \in Sender, NEW w \in Worker, Live!Post(s, w)
  PROVE  LiveInv'
  <1>1. sent[s] + 1 \in 1..Posts
    BY RoomForPost DEF Live!Post, LiveInv, Live!Cardinality, Cardinality
  <1>. USE ProcessAssumption DEF LiveInv, Live!TypeOK
  <1>2. /\ at[s] = Unset
        /\ sent' = [sent EXCEPT ![s] = sent[s] + 1]
        /\ at' = [at EXCEPT ![s] = w]
        /\ via' = [via EXCEPT ![<<s, sent[s] + 1>>] = "pending"]
        /\ broker' = broker /\ reader' = reader
    BY DEF Live!Post
  <1>3. Live!TypeOK'
    <2>1. sent' \in [Sender -> 0..Posts] /\ at' \in [Sender -> Worker \cup {Unset}]
      BY <1>1, <1>2
    <2>2. via' \in [Live!Message -> Live!Buses \cup {"none", "pending", "lost"}]
      BY <1>2
    <2>. QED BY <1>2, <2>1, <2>2
  <1>4. PostOK'
    <2>1. <<s, sent[s] + 1>> \in Live!Message
      BY <1>1 DEF Live!Message
    <2>2. via'[<<s, sent'[s]>>] = "pending"
      BY <1>2, <2>1
    <2>3. ASSUME NEW g \in Sender, g # s, at'[g] # Unset
          PROVE  sent'[g] \in 1..Posts /\ via'[<<g, sent'[g]>>] = "pending"
      <3>1. sent'[g] = sent[g] /\ at[g] # Unset
        BY <1>2, <2>3
      <3>2. sent[g] \in 1..Posts /\ via[<<g, sent[g]>>] = "pending"
        BY <3>1 DEF PostOK
      <3>3. <<g, sent[g]>> \in Live!Message /\ <<g, sent[g]>> # <<s, sent[s] + 1>>
        BY <2>3, <3>2 DEF Live!Message
      <3>. QED BY <1>2, <3>1, <3>2, <3>3
    <2>. QED BY <1>1, <1>2, <2>2, <2>3 DEF PostOK
  <1>5. ASSUME NEW r \in Reader PROVE SocketOK(r)'
    <2>1. reader'[r] = reader[r] /\ reader[r].bus \in Live!Buses \cup {Unset}
      BY <1>2 DEF Live!Socket
    <2>2. \A g \in Sender : /\ sent'[g] \in Nat /\ sent'[g] >= sent[g]
                            /\ at'[g] # Unset => \/ at'[g] = at[g] /\ sent'[g] = sent[g]
                                                 \/ sent'[g] > sent[g]
      BY <1>2, <1>1
    <2>3. ASSUME NEW m \in Live!Stored'
          PROVE  \/ m \in Live!Stored /\ via'[m] = via[m]
                 \/ via'[m] # reader[r].bus
                 \/ ~ reader[r].pump
      <3>1. m \in Live!Message /\ m[2] <= sent'[m[1]] /\ m = <<m[1], m[2]>>
        BY DEF Live!Stored, Live!Message
      <3>2. CASE m = <<s, sent[s] + 1>>
        <4>1. via'[m] = "pending"
          BY <1>2, <3>1, <3>2
        <4>2. reader[r].pump => reader[r].bus # Unset
          BY DEF SocketOK
        <4>. QED BY <2>1, <4>1, <4>2 DEF Live!Buses
      <3>3. CASE m # <<s, sent[s] + 1>>
        <4>1. via'[m] = via[m]
          BY <1>2, <3>3
        <4>2. m[2] <= sent[m[1]]
          <5>0. m[1] \in Sender /\ m[2] \in Nat /\ sent[s] \in Nat
            BY <3>1 DEF Live!Message
          <5>1. CASE m[1] = s
            <6>1. sent'[m[1]] = sent[s] + 1 /\ m[2] # sent[s] + 1
              BY <1>2, <3>1, <3>3, <5>1
            <6>2. m[2] <= sent[s]
              BY <3>1, <5>0, <6>1
            <6>. QED BY <5>1, <6>2
          <5>2. CASE m[1] # s
            <6>1. sent'[m[1]] = sent[m[1]]
              BY <1>2, <5>0, <5>2
            <6>. QED BY <3>1, <6>1
          <5>. QED BY <5>1, <5>2
        <4>. QED BY <3>1, <4>1, <4>2 DEF Live!Stored
      <3>. QED BY <3>2, <3>3
    <2>. QED BY <2>1, <2>2, <2>3, SocketStays
  <1>. QED BY <1>3, <1>4, <1>5

LEMMA LivePublish ==
  ASSUME LiveInv, NEW s \in Sender, Live!Publish(s)
  PROVE  LiveInv'
  <1>. DEFINE bus == broker[at[s]]
              m == <<s, sent[s]>>
  <1>1. /\ at[s] # Unset /\ bus # Unset
        /\ via' = [via EXCEPT ![m] = bus]
        /\ reader' = [r \in Reader |->
                        IF reader[r].bus = bus /\ reader[r].pump
                        THEN [reader[r] EXCEPT !.queue = Append(@, m)] ELSE reader[r]]
        /\ at' = [at EXCEPT ![s] = Unset]
        /\ broker' = broker /\ sent' = sent
    BY DEF Live!Publish, Live!Latest, Live!Receives
  <1>2. at[s] \in Worker /\ bus \in Live!Buses
    BY <1>1 DEF LiveInv, Live!TypeOK
  <1>3. sent[s] \in 1..Posts /\ m \in Live!Message /\ m[1] = s /\ m[2] = sent[s]
    BY <1>1 DEF LiveInv, PostOK, Live!Message
  <1>4. Live!Stored' = Live!Stored
    BY <1>1 DEF Live!Stored
  <1>5. ASSUME NEW r \in Reader, reader[r].bus = bus, reader[r].pump
        PROVE  /\ reader'[r] \in Live!Socket
               /\ reader'[r].seen = reader[r].seen
               /\ reader'[r].queue = Append(reader[r].queue, m)
               /\ reader'[r].bus = reader[r].bus /\ reader'[r].pump = reader[r].pump
               /\ reader'[r].history = reader[r].history /\ reader'[r].late = reader[r].late
    <2>1. reader[r] \in Live!Socket
      BY DEF LiveInv, Live!TypeOK
    <2>2. reader'[r] = [reader[r] EXCEPT !.queue = Append(reader[r].queue, m)]
      BY <1>1, <1>5
    <2>3. Append(reader[r].queue, m) \in Seq(Live!Message)
      BY <1>3, <2>1 DEF Live!Socket
    <2>. QED BY <2>1, <2>2, <2>3 DEF Live!Socket
  <1>6. ASSUME NEW r \in Reader, ~ (reader[r].bus = bus /\ reader[r].pump)
        PROVE  reader'[r] = reader[r]
    BY <1>1, <1>6
  <1>7. Live!TypeOK'
    <2>1. at' \in [Sender -> Worker \cup {Unset}]
      BY <1>1 DEF LiveInv, Live!TypeOK
    <2>2. via' \in [Live!Message -> Live!Buses \cup {"none", "pending", "lost"}]
      BY <1>1, <1>2 DEF LiveInv, Live!TypeOK
    <2>3. \A r \in Reader : reader'[r] \in Live!Socket
      BY <1>5, <1>6 DEF LiveInv, Live!TypeOK
    <2>4. reader' \in [Reader -> Live!Socket]
      BY <1>1, <2>3
    <2>. QED BY <1>1, <2>1, <2>2, <2>4 DEF LiveInv, Live!TypeOK
  <1>8. PostOK'
    <2>1. ASSUME NEW g \in Sender, at'[g] # Unset
          PROVE  sent'[g] \in 1..Posts /\ via'[<<g, sent'[g]>>] = "pending"
      <3>1. g # s /\ at[g] # Unset
        BY <1>1, <2>1 DEF LiveInv, Live!TypeOK
      <3>2. sent[g] \in 1..Posts /\ via[<<g, sent[g]>>] = "pending" /\ <<g, sent[g]>> # m
        BY <3>1 DEF LiveInv, PostOK
      <3>3. <<g, sent[g]>> \in Live!Message
        BY <3>2 DEF Live!Message
      <3>. QED BY <1>1, <3>2, <3>3 DEF LiveInv, Live!TypeOK
    <2>. QED BY <2>1 DEF PostOK
  <1>9. \A k \in Live!Stored : k # m => via'[k] = via[k]
    BY <1>1 DEF Live!Stored, LiveInv, Live!TypeOK
  <1>10. ASSUME NEW r \in Reader, ~ (reader[r].bus = bus /\ reader[r].pump)
         PROVE  SocketOK(r)'
    <2>1. \A g \in Sender : /\ sent'[g] \in Nat /\ sent'[g] >= sent[g]
                            /\ at'[g] # Unset => \/ at'[g] = at[g] /\ sent'[g] = sent[g]
                                                 \/ sent'[g] > sent[g]
      BY <1>1 DEF LiveInv, Live!TypeOK
    <2>2. via'[m] = bus
      BY <1>1, <1>3 DEF LiveInv, Live!TypeOK
    <2>3. ASSUME NEW k \in Live!Stored'
          PROVE  \/ k \in Live!Stored /\ via'[k] = via[k]
                 \/ via'[k] # reader[r].bus
                 \/ ~ reader[r].pump
      BY <1>4, <1>9, <1>10, <2>2, <2>3
    <2>. QED BY <1>6, <1>10, <2>1, <2>3, SocketStays
  <1>11. ASSUME NEW r \in Reader, reader[r].bus = bus, reader[r].pump
         PROVE  SocketOK(r)'
    <2>. DEFINE t == Stream(r)
    <2>1. SocketOK(r) /\ reader[r].seen \in Seq(Live!Message) /\ reader[r].queue \in Seq(Live!Message)
      BY DEF LiveInv, Live!TypeOK, Live!Socket
    <2>. DEFINE u == Append(t, m)
    <2>2. /\ t \in Seq(Live!Message) /\ u \in Seq(Live!Message)
          /\ Len(u) = Len(t) + 1 /\ u[Len(t) + 1] = m
          /\ \A i \in 1..Len(t) : u[i] = t[i]
      BY <1>3, <2>1, AppendProperties, SMTT(30) DEF SocketOK, StreamOK
    <2>3. Stream(r)' = u
      <3>1. Stream(r)' = reader[r].seen \o Append(reader[r].queue, m)
        BY <1>5, <1>11 DEF Stream
      <3>2. reader[r].seen \o Append(reader[r].queue, m) = Append(reader[r].seen \o reader[r].queue, m)
        <4>. HIDE DEF m
        <4>1. m \in Live!Message
          BY <1>3
        <4>2. \A a, b \in Seq(Live!Message), e \in Live!Message :
                a \o Append(b, e) = Append(a \o b, e)
          BY AppendLater
        <4>. QED BY <2>1, <4>1, <4>2
      <3>. QED BY <3>1, <3>2 DEF Stream
    <2>4. \A i \in 1..Len(t) : /\ t[i][1] \in Sender /\ t[i][2] \in Nat
                               /\ t[i][2] <= sent[t[i][1]]
                               /\ at[t[i][1]] # Unset => t[i][2] < sent[t[i][1]]
      BY <2>1, <2>2 DEF SocketOK, StreamOK, Live!Message
    <2>5. \A g \in Sender : at'[g] # Unset => at[g] # Unset
      BY <1>1 DEF LiveInv, Live!TypeOK
    <2>6. at'[s] = Unset
      BY <1>1 DEF LiveInv, Live!TypeOK
    <2>. HIDE DEF t, u, m, bus
    <2>7. \A i \in 1..Len(u) : /\ u[i][2] <= sent[u[i][1]]
                               /\ at'[u[i][1]] # Unset => u[i][2] < sent[u[i][1]]
      <3>. TAKE i \in 1..Len(u)
      <3>1. CASE i = Len(t) + 1
        BY <1>3, <2>2, <2>6, <3>1
      <3>2. CASE i # Len(t) + 1
        <4>1. i \in 1..Len(t) /\ u[i] = t[i]
          BY <2>2, <3>2
        <4>. QED BY <2>4, <2>5, <4>1
      <3>. QED BY <3>1, <3>2
    <2>8. \A i, j \in 1..Len(u) : i < j /\ u[i][1] = u[j][1] => u[i][2] < u[j][2]
      <3>. SUFFICES ASSUME NEW i \in 1..Len(u), NEW j \in 1..Len(u), i < j, u[i][1] = u[j][1]
                    PROVE  u[i][2] < u[j][2]
        OBVIOUS
      <3>1. i \in 1..Len(t) /\ u[i] = t[i]
        BY <2>2
      <3>2. CASE j = Len(t) + 1
        BY <1>1, <1>3, <2>2, <2>4, <3>1, <3>2
      <3>3. CASE j # Len(t) + 1
        <4>1. j \in 1..Len(t) /\ u[j] = t[j]
          BY <2>2, <3>3
        <4>. QED BY <2>1, <3>1, <4>1 DEF SocketOK, StreamOK, t
      <3>. QED BY <3>2, <3>3
    <2>9. StreamOK(Stream(r))'
      BY <1>1, <2>2, <2>3, <2>7, <2>8 DEF StreamOK, Live!Message
    <2>10. Heard(r)'
      <3>. SUFFICES ASSUME reader[r].history # Unset, ~ reader[r].late, NEW k \in Live!Stored
                    PROVE  \/ k \in reader[r].history \/ Live!Contains(u, k)
                           \/ via'[k] # reader[r].bus
        BY <1>4, <1>5, <1>11, <2>3 DEF Heard
      <3>1. CASE k = m
        BY <2>2, <3>1 DEF Live!Contains
      <3>2. CASE k # m
        <4>1. via'[k] = via[k]
          BY <1>9, <3>2
        <4>2. k \in reader[r].history \/ Live!Contains(t, k) \/ via[k] # reader[r].bus
          BY <1>11, <2>1 DEF SocketOK, Heard, t
        <4>3. Live!Contains(t, k) => Live!Contains(u, k)
          BY <2>2 DEF Live!Contains
        <4>. QED BY <4>1, <4>2, <4>3
      <3>. QED BY <3>1, <3>2
    <2>11. reader'[r].bus = reader[r].bus /\ reader[r].bus # Unset
      BY <1>1, <1>5, <1>11
    <2>. QED BY <2>9, <2>10, <2>11 DEF SocketOK
  <1>. QED BY <1>7, <1>8, <1>10, <1>11 DEF LiveInv

\* A publication that fails, and the workers that are restarted: what was being
\* published is lost, and some sockets are closed.
LEMMA LiveLosses ==
  ASSUME LiveInv, sent' = sent,
         broker' \in [Worker -> Live!Buses \cup {Unset}],
         at' \in [Sender -> Worker \cup {Unset}],
         via' \in [Live!Message -> Live!Buses \cup {"none", "pending", "lost"}],
         reader' \in [Reader -> Live!Socket],
         \A s \in Sender : at'[s] # Unset =>
           at'[s] = at[s] /\ (sent[s] \in 1..Posts => via'[<<s, sent[s]>>] = via[<<s, sent[s]>>]),
         \A m \in Live!Message : via'[m] = via[m] \/ via'[m] = "lost",
         \A r \in Reader : reader'[r] = reader[r] \/ reader'[r] = Live!Closed
  PROVE  LiveInv'
  <1>1. Live!TypeOK'
    BY DEF LiveInv, Live!TypeOK
  <1>2. PostOK'
    BY DEF LiveInv, PostOK
  <1>3. ASSUME NEW r \in Reader PROVE SocketOK(r)'
    <2>1. CASE reader'[r] = reader[r]
      <3>1. \A s \in Sender : /\ sent'[s] \in Nat /\ sent'[s] >= sent[s]
                              /\ at'[s] # Unset => \/ at'[s] = at[s] /\ sent'[s] = sent[s]
                                                   \/ sent'[s] > sent[s]
        <4>. TAKE s \in Sender
        <4>1. sent[s] \in 0..Posts /\ sent' = sent
          BY DEF LiveInv, Live!TypeOK
        <4>2. at'[s] # Unset => at'[s] = at[s]
          OBVIOUS
        <4>. QED BY <4>1, <4>2, ProcessAssumption
      <3>2. reader[r].pump => reader[r].bus \in Live!Buses
        BY DEF LiveInv, SocketOK, Live!TypeOK, Live!Socket
      <3>3. "lost" \notin Live!Buses
        BY ProcessAssumption DEF Live!Buses
      <3>4. ASSUME NEW m \in Live!Stored'
            PROVE  \/ m \in Live!Stored /\ via'[m] = via[m]
                   \/ via'[m] # reader[r].bus
                   \/ ~ reader[r].pump
        BY <3>2, <3>3, <3>4 DEF Live!Stored
      <3>. QED BY <2>1, <3>1, <3>4, SocketStays
    <2>2. CASE reader'[r] = Live!Closed
      <3>1. Stream(r)' = << >>
        BY <2>2 DEF Stream, Live!Closed
      <3>. QED BY <2>2, <3>1 DEF SocketOK, StreamOK, Heard, Live!Closed
    <2>. QED BY <2>1, <2>2
  <1>. QED BY <1>1, <1>2, <1>3 DEF LiveInv

\* The steps of one socket.
LEMMA LiveSocket ==
  ASSUME LiveInv, NEW r \in Reader,
         \/ \E w \in Worker : Live!Accept(r, w)
         \/ Live!Subscribe(r) \/ Live!ReadHistory(r) \/ Live!Relay(r)
         \/ Live!PumpStops(r) \/ Live!Disconnect(r)
  PROVE  LiveInv'
  <1>. DEFINE x == reader[r]
  <1>1. x \in Live!Socket /\ SocketOK(r) /\ Reader = DOMAIN reader
    BY DEF LiveInv, Live!TypeOK
  <1>2. UNCHANGED <<broker, sent, at, via>>
    BY DEF Live!Accept, Live!Subscribe, Live!ReadHistory, Live!Relay, Live!PumpStops,
           Live!Disconnect
  <1>3. Live!Stored' = Live!Stored
    BY <1>2 DEF Live!Stored
  \* Steps that leave the stream as it is.
  <1>4. ASSUME NEW y \in Live!Socket,
               reader' = [reader EXCEPT ![r] = y],
               y.seen \o y.queue = Stream(r),
               y.bus = Unset => ~ y.pump /\ (y.history = Unset \/ y.late),
               y.history # Unset /\ ~ y.late /\ y.pump =>
                 \A m \in Live!Stored :
                   m \in y.history \/ Live!Contains(Stream(r), m) \/ via[m] # y.bus
        PROVE  LiveInv'
    <2>1. reader'[r] = y
      BY <1>1, <1>4
    <2>2. Stream(r)' = Stream(r)
      BY <1>4, <2>1 DEF Stream
    <2>3. StreamOK(Stream(r))'
      BY <1>1, <1>2, <2>2 DEF SocketOK, StreamOK
    <2>4. Heard(r)'
      BY <1>2, <1>3, <1>4, <2>1, <2>2 DEF Heard
    <2>5. SocketOK(r)'
      BY <1>4, <2>1, <2>3, <2>4 DEF SocketOK
    <2>. QED BY <1>2, <1>4, <2>5, OneSocket
  <1>5. ASSUME NEW w \in Worker, Live!Accept(r, w) PROVE LiveInv'
    <2>. DEFINE y == [x EXCEPT !.at = w]
    <2>1. /\ y \in Live!Socket /\ reader' = [reader EXCEPT ![r] = y] /\ x = Live!Closed
          /\ y.seen = x.seen /\ y.queue = x.queue /\ y.bus = x.bus /\ y.pump = x.pump
          /\ y.history = x.history /\ y.late = x.late
      BY <1>1, <1>5 DEF Live!Accept, Live!Socket
    <2>2. y.seen \o y.queue = Stream(r) /\ ~ y.pump /\ y.history = Unset
      BY <2>1 DEF Stream, Live!Closed
    <2>. HIDE DEF y
    <2>. QED BY <1>4, <2>1, <2>2
  <1>6. CASE Live!Subscribe(r)
    <2>. DEFINE b == broker[x.at]
                y == [[x EXCEPT !.bus = b] EXCEPT !.pump = TRUE]
    <2>1. x.at \in Worker /\ b \in Live!Buses /\ b # Unset /\ x.bus = Unset
          /\ reader' = [reader EXCEPT ![r] = y]
      BY <1>1, <1>6 DEF Live!Subscribe, LiveInv, Live!TypeOK, Live!Socket
    <2>2. /\ y \in Live!Socket
          /\ y.seen = x.seen /\ y.queue = x.queue /\ y.bus = b
          /\ y.history = x.history /\ y.late = x.late
      BY <1>1, <2>1 DEF Live!Socket
    <2>3. y.history = Unset \/ y.late
      BY <1>1, <2>1, <2>2 DEF SocketOK
    <2>. QED BY <1>4, <2>1, <2>2, <2>3 DEF Stream
  <1>7. CASE Live!ReadHistory(r)
    <2>. DEFINE y == [[x EXCEPT !.history = Live!Stored] EXCEPT !.late = (x.bus = Unset)]
    <2>1. reader' = [reader EXCEPT ![r] = y]
      BY <1>1, <1>7 DEF Live!ReadHistory
    <2>2. /\ y \in Live!Socket
          /\ y.seen = x.seen /\ y.queue = x.queue /\ y.bus = x.bus /\ y.pump = x.pump
          /\ y.history = Live!Stored /\ y.late = (x.bus = Unset)
      BY <1>1 DEF Live!Socket, Live!Stored
    <2>. QED BY <1>1, <1>4, <2>1, <2>2 DEF Stream, SocketOK
  <1>8. CASE Live!Relay(r)
    <2>. DEFINE y == [[x EXCEPT !.queue = Tail(x.queue)] EXCEPT !.seen = Append(x.seen, Head(x.queue))]
    <2>1. reader' = [reader EXCEPT ![r] = y] /\ x.queue # << >>
      BY <1>1, <1>8 DEF Live!Relay
    <2>2. x.seen \in Seq(Live!Message) /\ x.queue \in Seq(Live!Message)
      BY <1>1 DEF Live!Socket
    <2>3. \A a, q \in Seq(Live!Message) : q # << >> =>
            /\ Append(a, Head(q)) \in Seq(Live!Message) /\ Tail(q) \in Seq(Live!Message)
            /\ Append(a, Head(q)) \o Tail(q) = a \o q
      BY HeadMoves
    <2>4. /\ Append(x.seen, Head(x.queue)) \in Seq(Live!Message)
          /\ Tail(x.queue) \in Seq(Live!Message)
          /\ Append(x.seen, Head(x.queue)) \o Tail(x.queue) = Stream(r)
      BY <2>1, <2>2, <2>3 DEF Stream
    <2>5. /\ y \in Live!Socket
          /\ y.seen = Append(x.seen, Head(x.queue)) /\ y.queue = Tail(x.queue)
          /\ y.bus = x.bus /\ y.pump = x.pump /\ y.history = x.history /\ y.late = x.late
      BY <1>1, <2>4 DEF Live!Socket
    <2>. HIDE DEF y
    <2>. QED BY <1>1, <1>4, <2>1, <2>4, <2>5 DEF SocketOK, Heard
  <1>9. CASE Live!PumpStops(r)
    <2>1. PICK n \in 0..Len(x.queue) :
            reader' = [reader EXCEPT
                         ![r] = [[x EXCEPT !.pump = FALSE] EXCEPT !.queue = SubSeq(x.queue, 1, n)]]
      BY <1>1, <1>9 DEF Live!PumpStops
    <2>. DEFINE q == SubSeq(x.queue, 1, n)
                y == [[x EXCEPT !.pump = FALSE] EXCEPT !.queue = q]
    <2>2. x.seen \in Seq(Live!Message) /\ x.queue \in Seq(Live!Message)
      BY <1>1 DEF Live!Socket
    <2>3. /\ q \in Seq(Live!Message) /\ x.seen \o q \in Seq(Live!Message)
          /\ Len(x.seen \o q) <= Len(Stream(r))
          /\ \A i \in 1..Len(x.seen \o q) : (x.seen \o q)[i] = Stream(r)[i]
      <3>1. \A a, b \in Seq(Live!Message) : \A k \in 0..Len(b) :
              /\ SubSeq(b, 1, k) \in Seq(Live!Message)
              /\ a \o SubSeq(b, 1, k) \in Seq(Live!Message)
              /\ Len(a \o SubSeq(b, 1, k)) <= Len(a \o b)
              /\ \A i \in 1..Len(a \o SubSeq(b, 1, k)) : (a \o SubSeq(b, 1, k))[i] = (a \o b)[i]
        BY ShorterQueue
      <3>. QED BY <2>2, <3>1 DEF Stream
    <2>. HIDE DEF q
    <2>4. /\ y \in Live!Socket /\ y.seen = x.seen /\ y.queue = q
          /\ y.bus = x.bus /\ ~ y.pump /\ y.history = x.history /\ y.late = x.late
      BY <1>1, <2>3 DEF Live!Socket
    <2>. HIDE DEF y
    <2>5. reader' = [reader EXCEPT ![r] = y] /\ reader'[r] = y
      BY <1>1, <2>1 DEF y, q
    <2>6. Stream(r)' = x.seen \o q
      BY <2>4, <2>5 DEF Stream
    <2>7. StreamOK(Stream(r))'
      <3>1. /\ StreamOK(Stream(r)) /\ Stream(r) \in Seq(Live!Message)
            /\ Len(x.seen \o q) \in Nat
        BY <1>1, <2>3 DEF SocketOK, StreamOK
      <3>2. 1..Len(x.seen \o q) \subseteq 1..Len(Stream(r))
        BY <2>3, <3>1
      <3>. QED BY <1>2, <2>3, <2>6, <3>1, <3>2 DEF StreamOK, Live!Message
    <2>8. SocketOK(r)'
      BY <1>1, <2>4, <2>5, <2>7 DEF SocketOK, Heard
    <2>. QED BY <1>2, <2>4, <2>5, <2>8, OneSocket
  <1>10. CASE Live!Disconnect(r)
    <2>1. reader' = [reader EXCEPT ![r] = Live!Closed] /\ reader'[r] = Live!Closed
      BY <1>1, <1>10 DEF Live!Disconnect
    <2>2. Stream(r)' = << >>
      BY <2>1 DEF Stream, Live!Closed
    <2>3. SocketOK(r)'
      BY <2>1, <2>2 DEF SocketOK, StreamOK, Heard, Live!Closed
    <2>. QED BY <1>2, <2>1, <2>3, ClosedIsSocket, OneSocket
  <1>. QED BY <1>5, <1>6, <1>7, <1>8, <1>9, <1>10

LEMMA LiveNext == LiveInv /\ [Live!Next]_(Live!vars) => LiveInv'
  <1>. SUFFICES ASSUME LiveInv, [Live!Next]_(Live!vars) PROVE LiveInv'
    OBVIOUS
  <1>0. Live!TypeOK
    BY DEF LiveInv
  <1>1. ASSUME NEW w \in Worker, NEW b \in Live!Buses, Live!ChooseBroker(w, b) PROVE LiveInv'
    BY <1>0, <1>1, LiveLosses DEF Live!ChooseBroker, Live!TypeOK
  <1>2. ASSUME NEW s \in Sender, NEW w \in Worker, Live!Post(s, w) PROVE LiveInv'
    BY <1>2, LivePost
  <1>3. ASSUME NEW s \in Sender, Live!Publish(s) PROVE LiveInv'
    BY <1>3, LivePublish
  <1>4. ASSUME NEW s \in Sender, Live!PublishFails(s) PROVE LiveInv'
    <2>1. /\ via' = [via EXCEPT ![<<s, sent[s]>>] = "lost"]
          /\ at' = [at EXCEPT ![s] = Unset]
          /\ UNCHANGED <<broker, sent, reader>>
      BY <1>4 DEF Live!PublishFails, Live!Latest
    <2>. QED BY <1>0, <2>1, LiveLosses DEF Live!TypeOK, Live!Message
  <1>5. ASSUME NEW w \in Worker, Live!Restart(w) PROVE LiveInv'
    <2>1. /\ broker' \in [Worker -> Live!Buses \cup {Unset}]
          /\ at' \in [Sender -> Worker \cup {Unset}]
          /\ \A s \in Sender : at'[s] = IF at[s] = w THEN Unset ELSE at[s]
          /\ sent' = sent
      BY <1>0, <1>5 DEF Live!Restart, Live!TypeOK
    <2>2. /\ via' \in [Live!Message -> Live!Buses \cup {"none", "pending", "lost"}]
          /\ \A m \in Live!Message : via'[m] = IF via[m] = "pending" /\ at[m[1]] = w
                                               THEN "lost" ELSE via[m]
      BY <1>0, <1>5 DEF Live!Restart, Live!TypeOK
    <2>3. /\ reader' \in [Reader -> Live!Socket]
          /\ \A r \in Reader : reader'[r] = reader[r] \/ reader'[r] = Live!Closed
      BY <1>0, <1>5, ClosedIsSocket DEF Live!Restart, Live!TypeOK
    <2>4. \A s \in Sender : at'[s] # Unset =>
            at'[s] = at[s] /\ (sent[s] \in 1..Posts => via'[<<s, sent[s]>>] = via[<<s, sent[s]>>])
      BY <2>1, <2>2 DEF Live!Message
    <2>. QED BY <2>1, <2>2, <2>3, <2>4, LiveLosses
  <1>6. ASSUME NEW r \in Reader,
               \/ Live!Subscribe(r) \/ Live!ReadHistory(r) \/ Live!Relay(r)
               \/ Live!PumpStops(r) \/ Live!Disconnect(r)
               \/ \E w \in Worker : Live!Accept(r, w)
        PROVE  LiveInv'
    BY <1>6, LiveSocket
  <1>7. CASE UNCHANGED Live!vars
    BY <1>0, <1>7, LiveLosses DEF Live!vars, Live!TypeOK
  <1>. QED BY <1>1, <1>2, <1>3, <1>4, <1>5, <1>6, <1>7 DEF Live!Next

\* A reader who subscribed before fetching the history misses nothing that is
\* published on its bus, and gets each sender's messages once and in order.
THEOREM NoneMissed == Spec => []NothingMissed
  <1>1. Live!Init /\ [][Live!Next]_(Live!vars) => []LiveInv
    BY LiveInit, LiveNext, PTL
  <1>2. LiveInv => NothingMissed
    <2>1. ASSUME LiveInv, NEW r \in Reader
          PROVE  /\ reader[r].history # Unset /\ ~ reader[r].late /\ reader[r].pump =>
                      \A m \in Live!Stored :
                        \/ m \in reader[r].history \/ Live!Contains(Stream(r), m)
                        \/ via[m] # reader[r].bus
                 /\ \A i, j \in DOMAIN Stream(r) :
                      i < j /\ Stream(r)[i][1] = Stream(r)[j][1] =>
                        Stream(r)[i][2] < Stream(r)[j][2]
      <3>1. Heard(r) /\ StreamOK(Stream(r))
        BY <2>1 DEF LiveInv, SocketOK
      <3>2. DOMAIN Stream(r) = 1..Len(Stream(r))
        BY <3>1 DEF StreamOK
      <3>. QED BY <3>1, <3>2 DEF Heard, StreamOK
    <2>. QED BY <2>1 DEF Stream, NothingMissed, Live!NothingMissed
  <1>. QED BY <1>1, <1>2, EachRuns, PTL DEF Live!Spec
-----------------------------------------------------------------------------
(* Rate limits.                                                            *)

\* At the time n the deque q holds the latest of the requests a that were
\* accepted; those it has forgotten are out of the window.
WindowOK(q, a, n) ==
  /\ Len(q) <= Count /\ Len(q) <= Len(a)
  /\ \A i \in 1..Len(q) : q[i] = a[Len(a) - Len(q) + i]
  /\ \A i \in 1..Len(a) : a[i] <= n
  /\ \A i \in 1..(Len(a) - Len(q)) : a[i] + Window <= n
  /\ \A i \in 1..(Len(a) - Count) : a[i + Count] >= a[i] + Window

LimitOK(w) ==
  /\ WindowOK(hits[w], accepted[w], limitNow)
  /\ hint[w] # Unset => Len(hits[w]) > 0 /\ hint[w] = hits[w][1] + Window + 1

LimitInv == Limiter!TypeOK /\ \A w \in Worker : LimitOK(w)

\* The expired hits are the first of the deque.
LEMMA ExpiredFirst ==
  ASSUME Limiter!TypeOK, NEW w \in Worker
  PROVE  \E k \in 0..Len(hits[w]) :
           /\ Limiter!Expired(w) = 1..k
           /\ Limiter!Recent(w) = SubSeq(hits[w], k + 1, Len(hits[w]))
           /\ \A i \in 1..k : hits[w][i] + Window <= limitNow
  <1>. DEFINE q == hits[w]
              old == Limiter!Expired(w)
              k == Cardinality(old)
  <1>1. q \in Seq(Nat) /\ limitNow \in Nat /\ Len(q) \in Nat
    BY ProcessAssumption DEF Limiter!TypeOK, Limiter!Time
  <1>2. old \in SUBSET (1..Len(q))
    BY <1>1 DEF Limiter!Expired
  <1>3. IsFiniteSet(1..Len(q)) /\ Cardinality(1..Len(q)) = Len(q)
    BY <1>1, FS_Interval
  <1>4. IsFiniteSet(old) /\ k \in Nat /\ k <= Len(q)
    BY <1>2, <1>3, FS_Subset, FS_CardinalityType
  <1>5. \A i \in old : \A j \in 1..i : j \in old
    BY <1>1 DEF Limiter!Expired
  <1>6. old \subseteq 1..k
    <2>. SUFFICES ASSUME NEW i \in old PROVE i \in 1..k
      OBVIOUS
    <2>1. i \in Nat /\ i >= 1 /\ 1..i \in SUBSET old
      BY <1>2, <1>5
    <2>2. Cardinality(1..i) = i
      BY <2>1, FS_Interval
    <2>3. i <= k
      BY <1>4, <2>1, <2>2, FS_Subset
    <2>. QED BY <1>4, <2>1, <2>3
  <1>7. IsFiniteSet(1..k) /\ Cardinality(1..k) = k
    BY <1>4, FS_Interval
  <1>8. old = 1..k
    <2>. DEFINE top == 1..k
    <2>1. IsFiniteSet(top) /\ old \in SUBSET top /\ Cardinality(top) = Cardinality(old)
      BY <1>6, <1>7
    <2>. HIDE DEF top, old
    <2>2. top = old
      BY <2>1, FS_Subset
    <2>. QED BY <2>2 DEF top
  <1>9. Limiter!Cardinality(old) = k
    BY DEF Limiter!Cardinality, Cardinality
  <1>10. Limiter!Recent(w) = SubSeq(q, k + 1, Len(q))
    BY <1>9 DEF Limiter!Recent
  <1>11. \A i \in 1..k : q[i] + Window <= limitNow
    <2>. SUFFICES ASSUME NEW i \in 1..k PROVE q[i] + Window <= limitNow
      OBVIOUS
    <2>0. i \in old
      BY <1>8
    <2>1. i \in 1..Len(q) /\ q[i] \in Nat /\ Window \in Nat /\ i \in 1..i
      <3>. HIDE DEF k, old
      <3>1. i \in 1..Len(q)
        BY <1>2, <2>0
      <3>2. Window \in Nat
        BY ProcessAssumption
      <3>. QED BY <1>1, <3>1, <3>2
    <2>2. ~ Limiter!InWindow(q[i])
      BY <2>0, <2>1 DEF Limiter!Expired
    <2>. QED BY <1>1, <2>1, <2>2 DEF Limiter!InWindow
  <1>. HIDE DEF k, old
  <1>12. k \in 0..Len(q)
    BY <1>1, <1>4
  <1>. QED BY <1>8, <1>10, <1>11, <1>12 DEF old

\* Whoever comes back as told finds that the oldest hit has expired.
LEMMA LimitKept == LimitInv => WithinLimit
  <1>. SUFFICES ASSUME LimitInv, NEW w \in Worker,
                       hint[w] # Unset, limitNow >= hint[w]
                PROVE  Len(Limiter!Recent(w)) < Count
    BY DEF LimitInv, LimitOK, WindowOK, WithinLimit, Limiter!WithinLimit
  <1>. DEFINE q == hits[w]
  <1>1. /\ q \in Seq(Nat) /\ Len(q) \in Nat /\ limitNow \in Nat
        /\ Window \in Nat /\ Count \in Nat
    BY ProcessAssumption DEF LimitInv, Limiter!TypeOK, Limiter!Time
  <1>2. Len(q) > 0 /\ hint[w] = q[1] + Window + 1 /\ Len(q) <= Count
    BY DEF LimitInv, LimitOK, WindowOK
  <1>3. PICK k \in 0..Len(q) : /\ Limiter!Expired(w) = 1..k
                               /\ Limiter!Recent(w) = SubSeq(q, k + 1, Len(q))
    BY ExpiredFirst DEF LimitInv
  <1>4. q[1] \in Nat /\ q[1] + Window < limitNow
    BY <1>1, <1>2
  <1>5. 1 \in Limiter!Expired(w)
    <2>1. 1 \in DOMAIN q /\ ~ Limiter!InWindow(q[1])
      BY <1>1, <1>2, <1>4 DEF Limiter!InWindow
    <2>2. \A j \in 1..1 : j = 1
      OBVIOUS
    <2>. QED BY <2>1, <2>2 DEF Limiter!Expired
  <1>6. k >= 1
    BY <1>3, <1>5
  <1>. QED BY <1>1, <1>2, <1>3, <1>6

\* Nothing has been asked for.
LEMMA LimitInit == Limiter!Init => LimitInv
  <1>. SUFFICES ASSUME Limiter!Init PROVE LimitInv
    OBVIOUS
  <1>1. MaxTime \in Nat /\ Count \in Nat
    BY ProcessAssumption
  <1>2. Limiter!TypeOK
    BY <1>1 DEF Limiter!Init, Limiter!TypeOK, Limiter!Time
  <1>3. \A w \in Worker : LimitOK(w)
    BY <1>1 DEF Limiter!Init, LimitOK, WindowOK
  <1>. QED BY <1>2, <1>3 DEF LimitInv

\* The first k of the deque expire and one request more is accepted.
LEMMA WindowSlides ==
  ASSUME NEW q \in Seq(Nat), NEW a \in Seq(Nat), NEW n \in Nat, WindowOK(q, a, n),
         NEW k \in 0..Len(q), \A i \in 1..k : q[i] + Window <= n, Len(q) - k < Count
  PROVE  WindowOK(Append(SubSeq(q, k + 1, Len(q)), n), Append(a, n), n)
  <1>1. PICK q2 \in Seq(Nat), a2 \in Seq(Nat) :
          q2 = Append(SubSeq(q, k + 1, Len(q)), n) /\ a2 = Append(a, n)
    <2>1. SubSeq(q, k + 1, Len(q)) \in Seq(Nat)
      BY SubSeqProperties
    <2>2. Append(SubSeq(q, k + 1, Len(q)), n) \in Seq(Nat) /\ Append(a, n) \in Seq(Nat)
      BY <2>1
    <2>. QED BY <2>2
  <1>2. PICK lq \in Nat, la \in Nat : lq = Len(q) /\ la = Len(a)
    OBVIOUS
  <1>3. /\ Len(q2) = lq - k + 1 /\ Len(a2) = la + 1
        /\ \A i \in 1..la : a2[i] = a[i]
        /\ a2[la + 1] = n
        /\ q2[lq - k + 1] = n
        /\ \A i \in 1..(lq - k) : q2[i] = q[k + i]
    BY <1>1, <1>2
  <1>4. /\ lq <= Count /\ lq <= la /\ k \in 0..lq /\ lq - k < Count
        /\ \A i \in 1..lq : q[i] = a[la - lq + i]
        /\ \A i \in 1..la : a[i] <= n /\ a[i] \in Nat
        /\ \A i \in 1..(la - lq) : a[i] + Window <= n
        /\ \A i \in 1..(la - Count) : a[i + Count] >= a[i] + Window
        /\ Count \in Nat /\ Count > 0 /\ Window \in Nat
    BY <1>2, ProcessAssumption DEF WindowOK
  <1>5. ASSUME NEW i \in 1..(la - lq + k) PROVE a[i] + Window <= n
    <2>1. CASE i <= la - lq
      BY <1>4, <2>1
    <2>2. CASE i > la - lq
      <3>1. PICK j \in 1..k : i = la - lq + j
        <4>1. i - (la - lq) \in 1..k
          BY <1>4, <2>2
        <4>. QED BY <1>4, <4>1
      <3>2. j \in 1..lq /\ q[j] + Window <= n
        BY <1>4, <3>1
      <3>3. q[j] = a[la - lq + j]
        BY <1>4, <3>2
      <3>. QED BY <3>1, <3>2, <3>3
    <2>. QED BY <2>1, <2>2
  <1>6. ASSUME NEW i \in 1..(lq - k + 1) PROVE q2[i] = a2[la - lq + k + i]
    <2>1. CASE i = lq - k + 1
      <3>1. la - lq + k + i = la + 1
        BY <1>4, <2>1
      <3>. QED BY <1>3, <2>1, <3>1
    <2>2. CASE i # lq - k + 1
      <3>1. i \in 1..(lq - k) /\ k + i \in 1..lq
        BY <1>4, <2>2
      <3>2. q2[i] = a[la - lq + (k + i)]
        BY <1>3, <1>4, <3>1
      <3>3. la - lq + (k + i) = la - lq + k + i /\ la - lq + k + i \in 1..la
        BY <1>4, <3>1
      <3>. QED BY <1>3, <3>2, <3>3
    <2>. QED BY <2>1, <2>2
  <1>7. ASSUME NEW i \in 1..(la + 1 - Count) PROVE a2[i + Count] >= a2[i] + Window
    <2>1. CASE i = la + 1 - Count
      <3>1. i \in 1..(la - lq + k) /\ i \in 1..la /\ i + Count = la + 1
        BY <1>4, <2>1
      <3>. QED BY <1>3, <1>4, <1>5, <3>1
    <2>2. CASE i # la + 1 - Count
      <3>1. i \in 1..(la - Count) /\ i \in 1..la /\ i + Count \in 1..la
        BY <1>4, <2>2
      <3>. QED BY <1>3, <1>4, <3>1
    <2>. QED BY <2>1, <2>2
  <1>8. Len(q2) <= Count /\ Len(q2) <= Len(a2) /\ Len(a2) - Len(q2) = la - lq + k
    BY <1>3, <1>4
  <1>9. \A i \in 1..Len(a2) : a2[i] <= n
    <2>. SUFFICES ASSUME NEW i \in 1..(la + 1) PROVE a2[i] <= n
      BY <1>3
    <2>1. CASE i = la + 1
      BY <1>3, <2>1
    <2>2. CASE i # la + 1
      <3>1. i \in 1..la
        BY <2>2
      <3>2. a2[i] = a[i] /\ a[i] <= n
        BY <1>3, <1>4, <3>1
      <3>. QED BY <3>2
    <2>. QED BY <2>1, <2>2
  <1>10. \A i \in 1..(la - lq + k) : a2[i] + Window <= n
    <2>1. \A i \in 1..(la - lq + k) : i \in 1..la
      BY <1>4
    <2>. QED BY <1>3, <1>5, <2>1
  <1>11. \A i \in 1..Len(q2) : q2[i] = a2[Len(a2) - Len(q2) + i]
    BY <1>3, <1>6, <1>8
  <1>12. \A i \in 1..(Len(a2) - Count) : a2[i + Count] >= a2[i] + Window
    <2>. SUFFICES ASSUME NEW i \in 1..(Len(a2) - Count) PROVE a2[i + Count] >= a2[i] + Window
      OBVIOUS
    <2>1. i \in 1..(la + 1 - Count)
      BY <1>3, <1>4
    <2>. QED BY <1>7, <2>1
  <1>13. WindowOK(q2, a2, n)
    BY <1>8, <1>9, <1>10, <1>11, <1>12 DEF WindowOK
  <1>. QED BY <1>1, <1>13

\* Time passes.
LEMMA WindowLater ==
  ASSUME NEW q \in Seq(Nat), NEW a \in Seq(Nat), NEW n \in Nat, WindowOK(q, a, n)
  PROVE  WindowOK(q, a, n + 1)
  <1>1. /\ Len(a) \in Nat /\ Len(q) \in Nat /\ Len(q) <= Len(a) /\ Window \in Nat
        /\ \A i \in 1..Len(a) : a[i] \in Nat /\ a[i] <= n
        /\ \A i \in 1..(Len(a) - Len(q)) : a[i] + Window <= n
    BY ProcessAssumption DEF WindowOK
  <1>2. \A i \in 1..Len(a) : a[i] <= n + 1
    BY <1>1
  <1>3. ASSUME NEW i \in 1..(Len(a) - Len(q)) PROVE a[i] + Window <= n + 1
    <2>1. i \in 1..Len(a)
      BY <1>1
    <2>. QED BY <1>1, <2>1
  <1>. QED BY <1>2, <1>3 DEF WindowOK

\* The rows of a limiter have their types.
LEMMA LimitTypes ==
  ASSUME Limiter!TypeOK, NEW w \in Worker
  PROVE  /\ hits[w] \in Seq(Nat) /\ accepted[w] \in Seq(Nat) /\ limitNow \in Nat
         /\ hits[w] \in Seq(Limiter!Time) /\ accepted[w] \in Seq(Limiter!Time)
         /\ limitNow \in Limiter!Time
         /\ Len(hits[w]) \in Nat
  BY ProcessAssumption DEF Limiter!TypeOK, Limiter!Time

\* A request is accepted when fewer than Count hits are in the window: the one
\* that came Count earlier is out of it.
LEMMA LimitAccept ==
  ASSUME LimitInv, NEW w \in Worker, Limiter!Accept(w)
  PROVE  LimitInv'
  <1>1. PICK k \in 0..Len(hits[w]) :
          /\ Limiter!Recent(w) = SubSeq(hits[w], k + 1, Len(hits[w]))
          /\ \A i \in 1..k : hits[w][i] + Window <= limitNow
    BY ExpiredFirst DEF LimitInv
  <1>2. PICK rest \in Seq(Limiter!Time) : /\ rest = SubSeq(hits[w], k + 1, Len(hits[w]))
                                          /\ Len(rest) = Len(hits[w]) - k
    <2>1. /\ SubSeq(hits[w], k + 1, Len(hits[w])) \in Seq(Limiter!Time)
          /\ Len(SubSeq(hits[w], k + 1, Len(hits[w]))) = Len(hits[w]) - k
      <3>1. hits[w] \in Seq(Limiter!Time) /\ Len(hits[w]) \in Nat
        BY LimitTypes DEF LimitInv
      <3>. QED BY <3>1, SubSeqProperties
    <2>. QED BY <2>1
  <1>3. /\ Len(rest) < Count
        /\ hits' = [hits EXCEPT ![w] = Append(rest, limitNow)]
        /\ accepted' = [accepted EXCEPT ![w] = Append(accepted[w], limitNow)]
        /\ hint' = [hint EXCEPT ![w] = Unset]
        /\ limitNow' = limitNow
    BY <1>1, <1>2 DEF Limiter!Accept
  <1>4. /\ Append(rest, limitNow) \in Seq(Limiter!Time)
        /\ Append(accepted[w], limitNow) \in Seq(Limiter!Time)
    BY <1>2, LimitTypes DEF LimitInv
  <1>5. Limiter!TypeOK'
    BY <1>3, <1>4 DEF LimitInv, Limiter!TypeOK
  <1>6. WindowOK(Append(rest, limitNow), Append(accepted[w], limitNow), limitNow)
    BY <1>1, <1>2, <1>3, LimitTypes, WindowSlides DEF LimitInv, LimitOK
  <1>7. /\ hits'[w] = Append(rest, limitNow) /\ hint'[w] = Unset
        /\ accepted'[w] = Append(accepted[w], limitNow)
    BY <1>3 DEF LimitInv, Limiter!TypeOK
  <1>8. LimitOK(w)'
    BY <1>3, <1>6, <1>7 DEF LimitOK
  <1>9. ASSUME NEW v \in Worker, v # w PROVE LimitOK(v)'
    <2>1. hits'[v] = hits[v] /\ hint'[v] = hint[v] /\ accepted'[v] = accepted[v]
      BY <1>3, <1>9 DEF LimitInv, Limiter!TypeOK
    <2>. QED BY <1>3, <2>1 DEF LimitInv, LimitOK
  <1>. QED BY <1>5, <1>8, <1>9 DEF LimitInv

\* A client is refused when the deque is full and nothing in it has expired.
LEMMA LimitRefuse ==
  ASSUME LimitInv, NEW w \in Worker, Limiter!Refuse(w)
  PROVE  LimitInv'
  <1>1. PICK q \in Seq(Limiter!Time), lq \in Nat :
          q = hits[w] /\ lq = Len(q) /\ lq <= Count /\ q \in Seq(Nat)
    BY LimitTypes DEF LimitInv, LimitOK, WindowOK
  <1>2. Window \in Nat /\ Count \in Nat /\ Count > 0
    BY ProcessAssumption
  <1>3. PICK k \in 0..lq : Limiter!Recent(w) = SubSeq(q, k + 1, lq)
    BY <1>1, ExpiredFirst DEF LimitInv
  <1>4. /\ Len(SubSeq(q, k + 1, lq)) >= Count
        /\ hits' = [hits EXCEPT ![w] = SubSeq(q, k + 1, lq)]
        /\ hint' = [hint EXCEPT ![w] = Head(SubSeq(q, k + 1, lq)) + Window + 1]
        /\ UNCHANGED <<limitNow, accepted>>
    BY <1>3 DEF Limiter!Refuse
  <1>5. Len(SubSeq(q, k + 1, lq)) = lq - k
    BY <1>1
  <1>6. k = 0 /\ lq > 0
    BY <1>1, <1>2, <1>4, <1>5
  <1>7. SubSeq(q, 1, lq) = q /\ Head(q) = q[1] /\ q[1] \in Nat
    BY <1>1, <1>6
  <1>8. hits' = hits /\ hint' = [hint EXCEPT ![w] = q[1] + Window + 1]
    <2>1. SubSeq(q, k + 1, lq) = q
      BY <1>6, <1>7
    <2>2. hits' = [hits EXCEPT ![w] = q] /\ hint' = [hint EXCEPT ![w] = Head(q) + Window + 1]
      BY <1>4, <2>1
    <2>. QED BY <1>1, <1>7, <2>2 DEF LimitInv, Limiter!TypeOK
  <1>9. Limiter!TypeOK'
    BY <1>2, <1>4, <1>7, <1>8 DEF LimitInv, Limiter!TypeOK
  <1>10. ASSUME NEW v \in Worker PROVE LimitOK(v)'
    <2>1. WindowOK(hits[v], accepted[v], limitNow)'
      BY <1>4, <1>8 DEF LimitInv, LimitOK
    <2>2. CASE v = w
      <3>1. hint'[v] = q[1] + Window + 1
        BY <1>8, <2>2 DEF LimitInv, Limiter!TypeOK
      <3>. QED BY <1>1, <1>6, <1>8, <2>1, <2>2, <3>1 DEF LimitOK
    <2>3. CASE v # w
      <3>1. hint'[v] = hint[v]
        BY <1>8, <2>3 DEF LimitInv, Limiter!TypeOK
      <3>. QED BY <1>8, <2>1, <3>1 DEF LimitInv, LimitOK
    <2>. QED BY <2>2, <2>3
  <1>. QED BY <1>9, <1>10 DEF LimitInv

\* The deque stays the end of what was accepted.
LEMMA LimitNext == LimitInv /\ [Limiter!Next]_(Limiter!vars) => LimitInv'
  <1>. SUFFICES ASSUME LimitInv, [Limiter!Next]_(Limiter!vars) PROVE LimitInv'
    OBVIOUS
  <1>0. MaxTime \in Nat /\ Count \in Nat /\ Window \in Nat
    BY ProcessAssumption
  <1>1. ASSUME NEW w \in Worker, Limiter!Restart(w) PROVE LimitInv'
    <2>1. Limiter!TypeOK'
      BY <1>1 DEF LimitInv, Limiter!TypeOK, Limiter!Restart
    <2>2. LimitOK(w)'
      <3>1. hits'[w] = << >> /\ accepted'[w] = << >> /\ hint'[w] = Unset
        BY <1>1 DEF LimitInv, Limiter!TypeOK, Limiter!Restart
      <3>2. WindowOK(<< >>, << >>, limitNow')
        BY <1>0 DEF WindowOK
      <3>. QED BY <3>1, <3>2 DEF LimitOK
    <2>3. ASSUME NEW v \in Worker, v # w PROVE LimitOK(v)'
      <3>1. /\ hits'[v] = hits[v] /\ hint'[v] = hint[v] /\ accepted'[v] = accepted[v]
            /\ limitNow' = limitNow
        BY <1>1, <2>3 DEF LimitInv, Limiter!TypeOK, Limiter!Restart
      <3>. QED BY <3>1 DEF LimitInv, LimitOK
    <2>. QED BY <2>1, <2>2, <2>3 DEF LimitInv
  <1>2. CASE Limiter!Tick
    <2>1. limitNow \in Nat /\ limitNow' = limitNow + 1 /\ UNCHANGED <<hits, accepted, hint>>
      BY <1>0, <1>2 DEF LimitInv, Limiter!TypeOK, Limiter!Time, Limiter!Tick
    <2>2. Limiter!TypeOK'
      BY <1>0, <1>2, <2>1 DEF LimitInv, Limiter!TypeOK, Limiter!Time, Limiter!Tick
    <2>3. ASSUME NEW w \in Worker PROVE LimitOK(w)'
      <3>1. WindowOK(hits[w], accepted[w], limitNow + 1)
        BY LimitTypes, WindowLater DEF LimitInv, LimitOK
      <3>. QED BY <2>1, <3>1 DEF LimitInv, LimitOK
    <2>. QED BY <2>2, <2>3 DEF LimitInv
  <1>3. CASE UNCHANGED Limiter!vars
    <2>1. UNCHANGED <<limitNow, hits, accepted, hint>>
      BY <1>3 DEF Limiter!vars
    <2>2. Limiter!TypeOK' /\ \A w \in Worker : LimitOK(w)'
      BY <2>1 DEF LimitInv, LimitOK, Limiter!TypeOK
    <2>. QED BY <2>2 DEF LimitInv
  <1>. QED BY <1>1, <1>2, <1>3, LimitAccept, LimitRefuse DEF Limiter!Next

\* No process accepts more than Count requests in any window, and a client who
\* comes back as told is let in if nobody took the place.
THEOREM LimitHolds == Spec => []WithinLimit
  <1>1. Limiter!Init /\ [][Limiter!Next]_(Limiter!vars) => []LimitInv
    BY LimitInit, LimitNext, PTL
  <1>. QED BY <1>1, LimitKept, EachRuns, PTL DEF Limiter!Spec
-----------------------------------------------------------------------------
(* The calendar of a property.                                             *)

\* No zone puts its clocks forward over midnight: the hour that is skipped may
\* begin at midnight, but midnight is not inside it.  The range of instants in
\* which tours are counted begins and ends at a midnight.
MidnightsShown ==
  \A c \in Calendars, d \in Int :
    ~ (/\ c.zone.at + c.zone.before < d * DayLength
       /\ d * DayLength < c.zone.at + c.zone.after)

DiaryInv ==
  /\ calendar \in Calendars
  /\ diaryNow \in 0..Horizon
  /\ DOMAIN booked \subseteq Int
  /\ booked \in [DOMAIN booked -> Nat \ {0}]

\* What a schedule row is made of.
LEMMA CalendarTypes ==
  ASSUME NEW c \in Calendars
  PROVE  /\ c \in CalendarRow
         /\ c.zone.at \in Int /\ c.zone.before \in Int /\ c.zone.after \in Int
         /\ c.capacity \in Nat /\ c.notice \in Nat /\ c.advance \in Nat
  <1>1. c \in CalendarRow
    BY CalendarAssumption
  <1>. QED BY <1>1 DEF CalendarRow

\* Local times have an instant.
LEMMA InstantType ==
  ASSUME calendar \in Calendars, NEW d \in Int, NEW t \in Int
  PROVE  d * DayLength + t \in Int /\ Diary!InstantOf(d, t) \in Int
  <1>1. DayLength \in Int
    BY CalendarAssumption
  <1>2. d * DayLength \in Int
    BY <1>1
  <1>. QED BY <1>2, CalendarTypes DEF Diary!InstantOf, Diary!ToUtc

\* A day is over before the next begins.
LEMMA DaysApart ==
  ASSUME NEW d \in Int, NEW e \in Int, d < e
  PROVE  d * DayLength + DayLength <= e * DayLength
  <1>1. PICK k \in Nat : e = d + 1 + k
    <2>1. e - d - 1 \in Nat /\ e = d + 1 + (e - d - 1)
      OBVIOUS
    <2>. QED BY <2>1
  <1>2. DayLength \in Nat
    BY CalendarAssumption
  <1>3. k * DayLength \in Nat
    BY <1>2
  <1>4. e * DayLength = d * DayLength + DayLength + k * DayLength
    BY <1>1, <1>2
  <1>5. d * DayLength \in Int
    BY <1>2
  <1>. QED BY <1>2, <1>3, <1>4, <1>5

\* A local time has one date and one time of day.
LEMMA OneDate ==
  ASSUME NEW d \in Int, NEW e \in Int, NEW t \in 0..(DayLength - 1), NEW u \in 0..(DayLength - 1),
         d * DayLength + t = e * DayLength + u
  PROVE  d = e /\ t = u
  <1>1. DayLength \in Nat /\ d * DayLength \in Int /\ e * DayLength \in Int
    BY CalendarAssumption
  <1>2. ~ (d < e)
    <2>. SUFFICES ASSUME d < e PROVE FALSE
      OBVIOUS
    <2>1. d * DayLength + DayLength <= e * DayLength
      BY DaysApart
    <2>. QED BY <1>1, <2>1
  <1>3. ~ (e < d)
    <2>. SUFFICES ASSUME e < d PROVE FALSE
      OBVIOUS
    <2>1. e * DayLength + DayLength <= d * DayLength
      BY DaysApart
    <2>. QED BY <1>1, <2>1
  <1>. QED BY <1>1, <1>2, <1>3

\* At the instant of a local time that is not skipped, the clock shows it.
LEMMA ClockShows ==
  ASSUME calendar \in Calendars, NEW d \in Int, NEW t \in Int, ~ Diary!Skipped(d, t)
  PROVE  Diary!ToLocal(calendar.zone, Diary!InstantOf(d, t)) = d * DayLength + t
  <1>. DEFINE z == calendar.zone
              l == d * DayLength + t
  <1>1. l \in Int /\ z.at \in Int /\ z.before \in Int /\ z.after \in Int
    BY InstantType, CalendarTypes
  <1>2. ~ (z.at + z.before <= l /\ l < z.at + z.after)
    BY DEF Diary!Skipped
  <1>3. Diary!InstantOf(d, t) = IF l < z.at + z.before \/ l < z.at + z.after
                                THEN l - z.before ELSE l - z.after
    BY DEF Diary!InstantOf, Diary!ToUtc
  <1>4. Diary!ToLocal(z, Diary!InstantOf(d, t)) =
          IF Diary!InstantOf(d, t) < z.at THEN Diary!InstantOf(d, t) + z.before
          ELSE Diary!InstantOf(d, t) + z.after
    BY DEF Diary!ToLocal
  <1>. HIDE DEF l, z
  <1>5. Diary!ToLocal(z, Diary!InstantOf(d, t)) = l
    BY <1>1, <1>2, <1>3, <1>4
  <1>. QED BY <1>5 DEF l, z

\* The instants of a day lie between its midnight and the next one.
LEMMA DayBetween ==
  ASSUME MidnightsShown, calendar \in Calendars, NEW from \in Int, NEW to \in Int,
         NEW d \in from..to, NEW t \in 0..(DayLength - 1), ~ Diary!Skipped(d, t)
  PROVE  Diary!InstantOf(from, 0) <= Diary!InstantOf(d, t)
         /\ Diary!InstantOf(d, t) < Diary!InstantOf(to + 1, 0)
  <1>. DEFINE z == calendar.zone
              l == d * DayLength + t
              first == from * DayLength
              last == (to + 1) * DayLength
              Utc(x) == IF x < z.at + z.before \/ x < z.at + z.after
                        THEN x - z.before ELSE x - z.after
  <1>1. d \in Int /\ to + 1 \in Int /\ DayLength \in Nat
    BY CalendarAssumption
  <1>2. /\ l \in Int /\ first \in Int /\ last \in Int
        /\ z.at \in Int /\ z.before \in Int /\ z.after \in Int
    BY <1>1, CalendarTypes
  <1>3. first <= l
    <2>1. CASE from = d
      BY <1>1, <1>2, <2>1
    <2>2. CASE from < d
      <3>1. first + DayLength <= d * DayLength
        BY <1>1, <2>2, DaysApart
      <3>2. d * DayLength \in Int
        BY <1>1
      <3>. HIDE DEF first
      <3>. QED BY <1>1, <1>2, <3>1, <3>2
    <2>. QED BY <1>1, <2>1, <2>2
  <1>4. l < last
    <2>1. d * DayLength + DayLength <= last
      BY <1>1, DaysApart
    <2>2. d * DayLength \in Int
      BY <1>1
    <2>. HIDE DEF last
    <2>. QED BY <1>1, <1>2, <2>1, <2>2
  <1>5. ~ (z.at + z.before <= l /\ l < z.at + z.after)
    BY DEF Diary!Skipped
  <1>6. /\ ~ (z.at + z.before < first /\ first < z.at + z.after)
        /\ ~ (z.at + z.before < last /\ last < z.at + z.after)
    BY <1>1 DEF MidnightsShown
  <1>7. /\ Diary!InstantOf(d, t) = Utc(l)
        /\ Diary!InstantOf(from, 0) = Utc(first)
        /\ Diary!InstantOf(to + 1, 0) = Utc(last)
    <2>1. first + 0 = first /\ last + 0 = last
      BY <1>2
    <2>. QED BY <2>1 DEF Diary!InstantOf, Diary!ToUtc
  <1>. HIDE DEF z, l, first, last
  <1>8. Utc(first) <= Utc(l) /\ Utc(l) < Utc(last)
    BY <1>2, <1>3, <1>4, <1>5, <1>6
  <1>. QED BY <1>7, <1>8

\* Counting in the range finds the tours of a slot that counting at its instant
\* finds.
LEMMA SameCount ==
  ASSUME DiaryInv, NEW u \in Int, NEW start \in Int, NEW end \in Int, start <= u, u < end
  PROVE  /\ Diary!ActiveCount(u, start, end) = Diary!ActiveCount(u, u, u + 1)
         /\ Diary!ActiveCount(u, start, end) \in Nat
  <1>1. u <= u /\ u < u + 1
    OBVIOUS
  <1>. QED BY <1>1 DEF DiaryInv, Diary!ActiveCount, Diary!BagIn, Diary!BagToSet

\* What is offered is what is accepted.
LEMMA CalendarHonest ==
  ASSUME MidnightsShown, DiaryInv
  PROVE  Diary!OfferedIsBookable
  <1>1. ASSUME NEW from \in Int, NEW to \in Int
        PROVE  LET slots == {s \in Diary!Availability(from, to) :
                               ~ Diary!Skipped(s.date, s.time)}
                   free == {<<s.date, s.time>> : s \in {x \in slots : x.available > 0}}
               IN
               /\ free = {s \in (from..to) \X (0..(DayLength - 1)) :
                            ~ Diary!Skipped(s[1], s[2]) /\ Diary!Resolves(s[1], s[2])}
               /\ \A s \in slots :
                    /\ Diary!ToLocal(calendar.zone, s.at) = s.date * DayLength + s.time
                    /\ \A r \in slots : r.at = s.at => r = s
    <2>. DEFINE At(d, t) == Diary!InstantOf(d, t)
                start == Diary!InstantOf(from, 0)
                end == Diary!InstantOf(to + 1, 0)
                room(u) == calendar.capacity - Diary!ActiveCount(u, start, end)
                left(u) == IF room(u) > 0 THEN room(u) ELSE 0
                Open(d, t) == /\ Diary!DateInWindow(d)
                              /\ t \in Diary!SlotTimes(d)
                              /\ ~ Diary!InNotice(At(d, t))
                Slot(d, t) == [date |-> d, time |-> t, at |-> At(d, t), available |-> left(At(d, t))]
                slots == {s \in Diary!Availability(from, to) : ~ Diary!Skipped(s.date, s.time)}
                Days == (from..to) \X (0..(DayLength - 1))
    <2>1. \A s \in slots : \E d \in from..to, t \in 0..(DayLength - 1) :
             s = Slot(d, t) /\ Open(d, t) /\ ~ Diary!Skipped(d, t)
      <3>. SUFFICES ASSUME NEW s \in slots
                    PROVE  \E d \in from..to, t \in 0..(DayLength - 1) :
                             s = Slot(d, t) /\ Open(d, t) /\ ~ Diary!Skipped(d, t)
        OBVIOUS
      <3>1. PICK x \in Days : s = Slot(x[1], x[2]) /\ Open(x[1], x[2])
        BY DEF Diary!Availability
      <3>2. ~ Diary!Skipped(x[1], x[2]) /\ x[1] \in from..to /\ x[2] \in 0..(DayLength - 1)
        BY <3>1
      <3>. QED BY <3>1, <3>2
    <2>2. ASSUME NEW d \in from..to, NEW t \in 0..(DayLength - 1), Open(d, t),
                 ~ Diary!Skipped(d, t)
          PROVE  Slot(d, t) \in slots
      <3>1. <<d, t>> \in {s \in Days : Open(s[1], s[2])}
        BY <2>2
      <3>2. Slot(d, t) \in Diary!Availability(from, to)
        BY <3>1 DEF Diary!Availability
      <3>. QED BY <2>2, <3>2
    <2>3. ASSUME NEW d \in from..to, NEW t \in 0..(DayLength - 1), ~ Diary!Skipped(d, t)
          PROVE  /\ left(At(d, t)) > 0 <=>
                      Diary!ActiveCount(At(d, t), At(d, t), At(d, t) + 1) < calendar.capacity
                 /\ Diary!ToLocal(calendar.zone, At(d, t)) = d * DayLength + t
      <3>1. start <= At(d, t) /\ At(d, t) < end
        BY <2>3, DayBetween DEF DiaryInv
      <3>2. d \in Int /\ t \in Int /\ to + 1 \in Int
        BY CalendarAssumption
      <3>3. At(d, t) \in Int /\ start \in Int /\ end \in Int
        BY <3>2, InstantType DEF DiaryInv
      <3>4. /\ Diary!ActiveCount(At(d, t), start, end)
                 = Diary!ActiveCount(At(d, t), At(d, t), At(d, t) + 1)
            /\ Diary!ActiveCount(At(d, t), start, end) \in Nat
        BY <3>1, <3>3, SameCount
      <3>5. calendar.capacity \in Nat
        BY CalendarTypes DEF DiaryInv
      <3>6. Diary!ToLocal(calendar.zone, At(d, t)) = d * DayLength + t
        BY <2>3, <3>2, ClockShows DEF DiaryInv
      <3>. HIDE DEF At, start, end
      <3>. QED BY <3>4, <3>5, <3>6
    <2>. HIDE DEF slots
    <2>4. {<<s.date, s.time>> : s \in {x \in slots : x.available > 0}}
            = {s \in Days : ~ Diary!Skipped(s[1], s[2]) /\ Diary!Resolves(s[1], s[2])}
      <3>1. ASSUME NEW s \in slots, s.available > 0
            PROVE  <<s.date, s.time>> \in
                     {x \in Days : ~ Diary!Skipped(x[1], x[2]) /\ Diary!Resolves(x[1], x[2])}
        <4>1. PICK d \in from..to, t \in 0..(DayLength - 1) :
                s = Slot(d, t) /\ Open(d, t) /\ ~ Diary!Skipped(d, t)
          BY <2>1
        <4>2. s.date = d /\ s.time = t /\ s.available = left(At(d, t))
          BY <4>1
        <4>3. Diary!ActiveCount(At(d, t), At(d, t), At(d, t) + 1) < calendar.capacity
          <5>. HIDE DEF left
          <5>. QED BY <2>3, <3>1, <4>1, <4>2
        <4>4. Diary!Resolves(d, t)
          BY <4>1, <4>3 DEF Diary!Resolves
        <4>. QED BY <4>1, <4>2, <4>4
      <3>2. ASSUME NEW d \in from..to, NEW t \in 0..(DayLength - 1),
                   ~ Diary!Skipped(d, t), Diary!Resolves(d, t)
            PROVE  \E s \in slots : s.available > 0 /\ <<s.date, s.time>> = <<d, t>>
        <4>1. Open(d, t)
              /\ Diary!ActiveCount(At(d, t), At(d, t), At(d, t) + 1) < calendar.capacity
          BY <3>2 DEF Diary!Resolves
        <4>2. Slot(d, t) \in slots
          BY <2>2, <3>2, <4>1
        <4>3. left(At(d, t)) > 0
          <5>. HIDE DEF left
          <5>. QED BY <2>3, <3>2, <4>1
        <4>4. /\ Slot(d, t).available = left(At(d, t))
              /\ Slot(d, t).date = d /\ Slot(d, t).time = t
          OBVIOUS
        <4>. HIDE DEF Slot, left
        <4>. QED BY <4>2, <4>3, <4>4
      <3>3. ASSUME NEW x \in Days, ~ Diary!Skipped(x[1], x[2]), Diary!Resolves(x[1], x[2])
            PROVE  x \in {<<s.date, s.time>> : s \in {y \in slots : y.available > 0}}
        <4>1. x[1] \in from..to /\ x[2] \in 0..(DayLength - 1) /\ x = <<x[1], x[2]>>
          OBVIOUS
        <4>2. PICK s \in slots : s.available > 0 /\ <<s.date, s.time>> = <<x[1], x[2]>>
          BY <3>2, <3>3, <4>1
        <4>. QED BY <4>1, <4>2
      <3>. QED BY <3>1, <3>3
    <2>5. ASSUME NEW s \in slots
          PROVE  /\ Diary!ToLocal(calendar.zone, s.at) = s.date * DayLength + s.time
                 /\ \A r \in slots : r.at = s.at => r = s
      <3>1. PICK d \in from..to, t \in 0..(DayLength - 1) :
              s = Slot(d, t) /\ ~ Diary!Skipped(d, t)
        BY <2>1
      <3>2. s.at = At(d, t) /\ s.date = d /\ s.time = t
        BY <3>1
      <3>3. Diary!ToLocal(calendar.zone, s.at) = d * DayLength + t
        BY <2>3, <3>1, <3>2
      <3>4. ASSUME NEW r \in slots, r.at = s.at PROVE r = s
        <4>1. PICK e \in from..to, u \in 0..(DayLength - 1) :
                r = Slot(e, u) /\ ~ Diary!Skipped(e, u)
          BY <2>1
        <4>2. r.at = At(e, u)
          BY <4>1
        <4>3. Diary!ToLocal(calendar.zone, r.at) = e * DayLength + u
          BY <2>3, <4>1, <4>2
        <4>4. d = e /\ t = u
          BY <3>3, <3>4, <4>3, OneDate
        <4>. QED BY <3>1, <4>1, <4>4
      <3>. QED BY <3>2, <3>3, <3>4
    <2>. QED BY <2>4, <2>5 DEF slots
  <1>2. Diary!Today \in Int
    <2>1. calendar.zone.before \in Int /\ calendar.zone.after \in Int /\ diaryNow \in Int
      BY CalendarTypes DEF DiaryInv
    <2>2. Diary!ToLocal(calendar.zone, diaryNow) \in Int
      BY <2>1 DEF Diary!ToLocal
    <2>3. DayLength \in Nat \ {0}
      BY CalendarAssumption
    <2>. QED BY <2>2, <2>3 DEF Diary!Today
  <1>3. calendar.advance \in Int
    BY CalendarTypes DEF DiaryInv
  <1>4. ASSUME NEW from \in (Diary!Today - 1)..(Diary!Today + calendar.advance + 1),
               NEW to \in from..(Diary!Today + calendar.advance + 1)
        PROVE  from \in Int /\ to \in Int
    BY <1>2, <1>3
  <1>. QED BY <1>1, <1>4 DEF Diary!OfferedIsBookable

\* The calendar starts without a tour.
LEMMA DiaryInit == Diary!Init => DiaryInv
  <1>. SUFFICES ASSUME Diary!Init PROVE DiaryInv
    OBVIOUS
  <1>1. booked = [e \in {} |-> 1]
    BY DEF Diary!Init, Diary!EmptyBag, Diary!SetToBag
  <1>2. calendar = DefaultCalendar /\ diaryNow = 0
    BY DEF Diary!Init
  <1>. QED BY <1>1, <1>2, CalendarAssumption DEF DiaryInv

\* Tours are counted per instant, and the row is one of Calendars.
LEMMA DiaryNext == DiaryInv /\ [Diary!Next]_(Diary!vars) => DiaryInv'
  <1>. SUFFICES ASSUME DiaryInv, [Diary!Next]_(Diary!vars) PROVE DiaryInv'
    OBVIOUS
  <1>. USE DEF DiaryInv
  <1>1. ASSUME NEW d \in Int, NEW t \in 0..(DayLength - 1), Diary!CreateTour(d, t)
        PROVE  DiaryInv'
    <2>1. Diary!InstantOf(d, t) \in Int
      BY CalendarAssumption, InstantType
    <2>2. /\ booked' = Diary!BagAdd(booked, Diary!InstantOf(d, t))
          /\ UNCHANGED <<calendar, diaryNow>>
      BY <1>1 DEF Diary!CreateTour
    <2>. QED BY <2>1, <2>2 DEF Diary!BagAdd
  <1>2. ASSUME NEW u, Diary!CancelTour(u) PROVE DiaryInv'
    <2>1. booked' = Diary!BagRemove(booked, u) /\ UNCHANGED <<calendar, diaryNow>>
      BY <1>2 DEF Diary!CancelTour
    <2>. QED BY <2>1 DEF Diary!BagRemove
  <1>3. ASSUME NEW c \in Calendars, Diary!UpdateSchedule(c) PROVE DiaryInv'
    BY <1>3 DEF Diary!UpdateSchedule
  <1>4. CASE Diary!Tick
    BY <1>4, CalendarAssumption DEF Diary!Tick
  <1>5. CASE UNCHANGED Diary!vars
    BY <1>5 DEF Diary!vars
  <1>6. Diary!Today \in Int /\ calendar.advance \in Int
    <2>1. calendar.zone.before \in Int /\ calendar.zone.after \in Int /\ diaryNow \in Int
          /\ calendar.advance \in Int
      BY CalendarTypes
    <2>2. Diary!ToLocal(calendar.zone, diaryNow) \in Int /\ DayLength \in Nat \ {0}
      BY <2>1, CalendarAssumption DEF Diary!ToLocal
    <2>. QED BY <2>1, <2>2 DEF Diary!Today
  <1>. QED BY <1>1, <1>2, <1>3, <1>4, <1>5, <1>6 DEF Diary!Next

\* Where no clock is put forward over midnight, the calendar shows as free what
\* it accepts, at the wall-clock times that it names, across every change of the
\* clock, every edit of the schedule and every booking.
THEOREM OfferedIsAccepted ==
  ASSUME MidnightsShown
  PROVE  Spec => []OfferedIsBookable
  <1>1. Diary!Init /\ [][Diary!Next]_(Diary!vars) => []DiaryInv
    BY DiaryInit, DiaryNext, PTL
  <1>2. DiaryInv => OfferedIsBookable
    BY CalendarHonest DEF OfferedIsBookable
  <1>. QED BY <1>1, <1>2, EachRuns, PTL DEF Diary!Spec

-----------------------------------------------------------------------------
(* Sums.                                                                   *)

\* A set of numbers has a least member.
LEMMA LeastOf ==
  ASSUME NEW T \in SUBSET Nat, T # {}
  PROVE  \E x \in T : \A y \in T : x <= y
  <1>. DEFINE R == OpToRel(<, Nat)
  <1>1. IsWellFoundedOn(R, Nat)
    BY NatLessThanWellFounded
  <1>2. \A x, y \in Nat : y < x => <<y, x>> \in R
    BY DEF OpToRel
  <1>. HIDE DEF R
  <1>3. PICK x \in T : \A y \in T : ~ (<<y, x>> \in R)
    BY <1>1, WFMin
  <1>4. ASSUME NEW y \in T PROVE x <= y
    <2>1. x \in Nat /\ y \in Nat /\ ~ (<<y, x>> \in R)
      BY <1>3
    <2>2. ~ (y < x)
      BY <1>2, <2>1
    <2>. QED BY <2>1, <2>2
  <1>. QED BY <1>4

\* A set of numbers that has 0, and with each number the next, has them all.
LEMMA AllNumbers ==
  ASSUME NEW T \in SUBSET Nat, 0 \in T, \A n \in T : n + 1 \in T
  PROVE  T = Nat
  <1>. SUFFICES ASSUME Nat \ T # {} PROVE FALSE
    OBVIOUS
  <1>1. PICK x \in Nat \ T : \A y \in Nat \ T : x <= y
    BY LeastOf
  <1>2. x # 0 /\ x - 1 \in Nat /\ x = (x - 1) + 1
    BY <1>1
  <1>. QED BY <1>1, <1>2

\* Some member of a set, always the same one.
Pick(s) == CHOOSE x \in s : TRUE

\* g sums f over every subset of S, in the order of Pick.
Adds(S, f, g) ==
  /\ g \in [SUBSET S -> Nat]
  /\ \A s \in SUBSET S : g[s] = IF s = {} THEN 0 ELSE f[Pick(s)] + g[s \ {Pick(s)}]

\* What is picked is a member, and one less is left.
LEMMA PickOne ==
  ASSUME NEW S, IsFiniteSet(S), NEW s \in SUBSET S, s # {}
  PROVE  /\ Pick(s) \in s
         /\ s \ {Pick(s)} \in SUBSET S
         /\ Cardinality(s) \in Nat \ {0}
         /\ Cardinality(s \ {Pick(s)}) = Cardinality(s) - 1
  <1>1. Pick(s) \in s
    BY DEF Pick
  <1>2. IsFiniteSet(s)
    BY FS_Subset
  <1>3. Cardinality(s) \in Nat /\ Cardinality(s) # 0
    BY <1>2, FS_CardinalityType, FS_EmptySet
  <1>. QED BY <1>1, <1>2, <1>3, FS_RemoveElement

\* A family of subsets that has the empty one, and each whose rest it has, has
\* them all.
LEMMA AllSubsets ==
  ASSUME NEW S, IsFiniteSet(S), NEW G \in SUBSET SUBSET S, {} \in G,
         \A s \in SUBSET S : s # {} /\ s \ {Pick(s)} \in G => s \in G
  PROVE  G = SUBSET S
  <1>. DEFINE T == {k \in Nat : \A s \in SUBSET S : Cardinality(s) <= k => s \in G}
  <1>1. \A s \in SUBSET S : Cardinality(s) \in Nat /\ (Cardinality(s) = 0 <=> s = {})
    BY FS_Subset, FS_CardinalityType, FS_EmptySet
  <1>2. 0 \in T
    BY <1>1
  <1>3. ASSUME NEW k \in T PROVE k + 1 \in T
    <2>1. ASSUME NEW s \in SUBSET S, Cardinality(s) <= k + 1, s # {} PROVE s \in G
      <3>1. /\ s \ {Pick(s)} \in SUBSET S
            /\ Cardinality(s) \in Nat
            /\ Cardinality(s \ {Pick(s)}) = Cardinality(s) - 1
        BY <2>1, PickOne
      <3>2. Cardinality(s \ {Pick(s)}) <= k
        BY <2>1, <3>1
      <3>3. s \ {Pick(s)} \in G
        BY <3>1, <3>2
      <3>. QED BY <2>1, <3>3
    <2>. QED BY <2>1
  <1>4. T = Nat
    <2>. HIDE DEF T
    <2>1. T \subseteq Nat
      BY DEF T
    <2>. QED BY <1>2, <1>3, <2>1, AllNumbers
  <1>. QED BY <1>1, <1>4

\* There is such a sum.
LEMMA SumExists ==
  ASSUME NEW S, IsFiniteSet(S), NEW f \in [S -> Nat]
  PROVE  \E g : Adds(S, f, g)
  <1>. DEFINE Small(k) == {s \in SUBSET S : Cardinality(s) <= k}
              Good(k, g) == \A s \in Small(k) :
                              g[s] = IF s = {} THEN 0 ELSE f[Pick(s)] + g[s \ {Pick(s)}]
              T == {k \in Nat : \E g \in [Small(k) -> Nat] : Good(k, g)}
  <1>1. \A s \in SUBSET S : Cardinality(s) \in Nat /\ (Cardinality(s) = 0 <=> s = {})
    BY FS_Subset, FS_CardinalityType, FS_EmptySet
  <1>2. 0 \in T
    <2>1. Small(0) = {{}}
      BY <1>1
    <2>. DEFINE g == [s \in Small(0) |-> 0]
    <2>2. g \in [Small(0) -> Nat] /\ Good(0, g)
      BY <2>1
    <2>. QED BY <2>2
  <1>3. ASSUME NEW k \in T PROVE k + 1 \in T
    <2>1. PICK g \in [Small(k) -> Nat] : Good(k, g)
      OBVIOUS
    <2>. DEFINE h == [s \in Small(k + 1) |->
                        IF s = {} THEN 0 ELSE f[Pick(s)] + g[s \ {Pick(s)}]]
    <2>2. ASSUME NEW s \in Small(k + 1), s # {}
          PROVE  /\ s \ {Pick(s)} \in Small(k)
                 /\ f[Pick(s)] \in Nat
                 /\ g[s \ {Pick(s)}] \in Nat
                 /\ s \ {Pick(s)} \in Small(k + 1)
      <3>1. /\ Pick(s) \in s /\ s \ {Pick(s)} \in SUBSET S
            /\ Cardinality(s) \in Nat
            /\ Cardinality(s \ {Pick(s)}) = Cardinality(s) - 1
        BY <2>2, PickOne
      <3>2. s \ {Pick(s)} \in Small(k) /\ s \ {Pick(s)} \in Small(k + 1)
        BY <3>1
      <3>. QED BY <3>1, <3>2
    <2>3. h \in [Small(k + 1) -> Nat]
      BY <2>2
    <2>4. ASSUME NEW s \in Small(k) PROVE s \in Small(k + 1) /\ h[s] = g[s]
      <3>1. s \in Small(k + 1)
        BY <1>1
      <3>. QED BY <2>1, <3>1
    <2>5. Good(k + 1, h)
      <3>1. ASSUME NEW s \in Small(k + 1), s # {}
            PROVE  h[s] = f[Pick(s)] + h[s \ {Pick(s)}]
        BY <2>2, <2>4, <3>1
      <3>2. ASSUME NEW s \in Small(k + 1), s = {}
            PROVE  h[s] = 0
        BY <3>2
      <3>. HIDE DEF h
      <3>. QED BY <3>1, <3>2
    <2>. HIDE DEF h, Small, Good
    <2>. QED BY <2>3, <2>5
  <1>4. T = Nat
    <2>. HIDE DEF Small, Good
    <2>. QED BY <1>2, <1>3, AllNumbers
  <1>5. Cardinality(S) \in Nat /\ Small(Cardinality(S)) = SUBSET S
    BY FS_CardinalityType, FS_Subset
  <1>6. PICK g \in [Small(Cardinality(S)) -> Nat] : Good(Cardinality(S), g)
    BY <1>4, <1>5
  <1>. QED BY <1>5, <1>6 DEF Adds

\* Whatever computes the sums by their definition is the sum.
LEMMA SumTyped ==
  ASSUME NEW S, IsFiniteSet(S), NEW f \in [S -> Nat], NEW h,
         h = [s \in SUBSET S |-> IF s = {} THEN 0 ELSE f[Pick(s)] + h[s \ {Pick(s)}]]
  PROVE  Adds(S, f, h)
  <1>. DEFINE G == {s \in SUBSET S : h[s] \in Nat}
  <1>1. /\ h[{}] = 0
        /\ \A s \in SUBSET S : s # {} => h[s] = f[Pick(s)] + h[s \ {Pick(s)}]
    OBVIOUS
  <1>2. ASSUME NEW s \in SUBSET S, s # {}, s \ {Pick(s)} \in G PROVE s \in G
    <2>1. f[Pick(s)] \in Nat /\ h[s \ {Pick(s)}] \in Nat
      BY <1>2, PickOne
    <2>2. h[s] = f[Pick(s)] + h[s \ {Pick(s)}]
      BY <1>1, <1>2
    <2>3. h[s] \in Nat
      BY <2>1, <2>2
    <2>. QED BY <2>3
  <1>3. {} \in G /\ G \in SUBSET SUBSET S
    BY <1>1
  <1>4. G = SUBSET S
    <2>. HIDE DEF G
    <2>. QED BY <1>2, <1>3, AllSubsets
  <1>5. \A s \in SUBSET S : h[s] \in Nat
    BY <1>4
  <1>. QED BY <1>5 DEF Adds

\* The sums that the figures are compared with.
TermSum(S, f) == Figures!SumOver(S, LAMBDA x : f[x])
CountSum(S, st) == Figures!SumOver(S, LAMBDA x : st[x].count)
ErrorSum(S, st) == Figures!SumOver(S, LAMBDA x : st[x].errors)

\* A sum of terms is such a sum.
LEMMA TermSumIs ==
  ASSUME NEW S, IsFiniteSet(S), NEW f \in [S -> Nat]
  PROVE  \E g : Adds(S, f, g) /\ TermSum(S, f) = g[S]
  <1>. DEFINE Step(h) == [s \in SUBSET S |-> IF s = {} THEN 0 ELSE f[Pick(s)] + h[s \ {Pick(s)}]]
              g == CHOOSE h : h = Step(h)
  <1>1. PICK h : Adds(S, f, h)
    BY SumExists
  <1>2. h = Step(h)
    BY <1>1 DEF Adds
  <1>3. g = Step(g)
    <2>. HIDE DEF Step
    <2>. QED BY <1>2
  <1>4. Adds(S, f, g)
    <2>. HIDE DEF g
    <2>. QED BY <1>3, SumTyped
  <1>5. TermSum(S, f) = g[S]
    BY DEF TermSum, Figures!SumOver, Figures!FoldSet, Figures!MapThenFoldSet, Pick
  <1>. QED BY <1>4, <1>5

\* So is a sum of counts.
LEMMA CountSumIs ==
  ASSUME NEW S, IsFiniteSet(S), NEW st, NEW f \in [S -> Nat], \A r \in S : f[r] = st[r].count
  PROVE  \E g : Adds(S, f, g) /\ CountSum(S, st) = g[S]
  <1>. DEFINE Step(h) == [s \in SUBSET S |-> IF s = {} THEN 0 ELSE f[Pick(s)] + h[s \ {Pick(s)}]]
              Own(h) == [s \in SUBSET S |->
                           IF s = {} THEN 0 ELSE st[Pick(s)].count + h[s \ {Pick(s)}]]
              g == CHOOSE i : i = Own(i)
  <1>1. PICK h : Adds(S, f, h)
    BY SumExists
  <1>2. h = Step(h)
    BY <1>1 DEF Adds
  <1>3. \A s \in SUBSET S : s # {} => Pick(s) \in S
    BY DEF Pick
  <1>4. \A i : Own(i) = Step(i)
    BY <1>3
  <1>5. g = Own(g)
    <2>1. h = Own(h)
      BY <1>2, <1>4
    <2>. HIDE DEF Own
    <2>. QED BY <2>1
  <1>6. Adds(S, f, g)
    <2>1. g = Step(g)
      BY <1>4, <1>5
    <2>. HIDE DEF g
    <2>. QED BY <2>1, SumTyped
  <1>7. CountSum(S, st) = g[S]
    BY DEF CountSum, Figures!SumOver, Figures!FoldSet, Figures!MapThenFoldSet, Pick
  <1>. QED BY <1>6, <1>7

\* So is a sum of errors.
LEMMA ErrorSumIs ==
  ASSUME NEW S, IsFiniteSet(S), NEW st, NEW f \in [S -> Nat], \A r \in S : f[r] = st[r].errors
  PROVE  \E g : Adds(S, f, g) /\ ErrorSum(S, st) = g[S]
  <1>. DEFINE Step(h) == [s \in SUBSET S |-> IF s = {} THEN 0 ELSE f[Pick(s)] + h[s \ {Pick(s)}]]
              Own(h) == [s \in SUBSET S |->
                           IF s = {} THEN 0 ELSE st[Pick(s)].errors + h[s \ {Pick(s)}]]
              g == CHOOSE i : i = Own(i)
  <1>1. PICK h : Adds(S, f, h)
    BY SumExists
  <1>2. h = Step(h)
    BY <1>1 DEF Adds
  <1>3. \A s \in SUBSET S : s # {} => Pick(s) \in S
    BY DEF Pick
  <1>4. \A i : Own(i) = Step(i)
    BY <1>3
  <1>5. g = Own(g)
    <2>1. h = Own(h)
      BY <1>2, <1>4
    <2>. HIDE DEF Own
    <2>. QED BY <2>1
  <1>6. Adds(S, f, g)
    <2>1. g = Step(g)
      BY <1>4, <1>5
    <2>. HIDE DEF g
    <2>. QED BY <2>1, SumTyped
  <1>7. ErrorSum(S, st) = g[S]
    BY DEF ErrorSum, Figures!SumOver, Figures!FoldSet, Figures!MapThenFoldSet, Pick
  <1>. QED BY <1>6, <1>7

\* One of the terms grows by d.
Grown(S, f, e, c, d) ==
  /\ f \in [S -> Nat] /\ c \in S /\ d \in Nat
  /\ e = [f EXCEPT ![c] = f[c] + d]

\* A sum grows by what one of its terms grows by.
LEMMA SumGrows ==
  ASSUME NEW S, IsFiniteSet(S), NEW f, NEW e, NEW c, NEW d, Grown(S, f, e, c, d),
         NEW g, Adds(S, f, g), NEW h, Adds(S, e, h)
  PROVE  h[S] = g[S] + d
  <1>. DEFINE More(s) == g[s] + (IF c \in s THEN d ELSE 0)
              G == {s \in SUBSET S : h[s] = More(s)}
  <1>0. /\ f \in [S -> Nat] /\ c \in S /\ d \in Nat
        /\ e \in [S -> Nat] /\ e = [f EXCEPT ![c] = f[c] + d]
    BY DEF Grown
  <1>1. /\ g[{}] = 0 /\ h[{}] = 0
        /\ \A s \in SUBSET S : s # {} => /\ g[s] = f[Pick(s)] + g[s \ {Pick(s)}]
                                         /\ h[s] = e[Pick(s)] + h[s \ {Pick(s)}]
        /\ \A s \in SUBSET S : g[s] \in Nat
    BY DEF Adds
  <1>2. ASSUME NEW s \in SUBSET S, s # {}, s \ {Pick(s)} \in G PROVE s \in G
    <2>1. Pick(s) \in s /\ s \ {Pick(s)} \in SUBSET S
      BY <1>2, PickOne
    <2>2. /\ f[Pick(s)] \in Nat /\ g[s \ {Pick(s)}] \in Nat
          /\ e[Pick(s)] = f[Pick(s)] + (IF Pick(s) = c THEN d ELSE 0)
      BY <1>0, <1>1, <2>1
    <2>3. /\ g[s] = f[Pick(s)] + g[s \ {Pick(s)}]
          /\ h[s] = e[Pick(s)] + h[s \ {Pick(s)}]
      BY <1>1, <1>2
    <2>4. h[s \ {Pick(s)}] = More(s \ {Pick(s)})
      BY <1>2
    <2>5. c \in s <=> c = Pick(s) \/ c \in s \ {Pick(s)}
      BY <2>1
    <2>6. h[s] = More(s)
      BY <1>0, <2>2, <2>3, <2>4, <2>5
    <2>. QED BY <2>6
  <1>3. {} \in G /\ G \in SUBSET SUBSET S
    BY <1>1
  <1>4. G = SUBSET S
    <2>. HIDE DEF G
    <2>. QED BY <1>2, <1>3, AllSubsets
  <1>. QED BY <1>0, <1>4

\* A sum of noughts is nought.
LEMMA SumOfNone ==
  ASSUME NEW S, IsFiniteSet(S), NEW f, f = [x \in S |-> 0], NEW g, Adds(S, f, g)
  PROVE  g[S] = 0
  <1>. DEFINE G == {s \in SUBSET S : g[s] = 0}
  <1>1. /\ g[{}] = 0
        /\ \A s \in SUBSET S : s # {} => g[s] = f[Pick(s)] + g[s \ {Pick(s)}]
    BY DEF Adds
  <1>2. ASSUME NEW s \in SUBSET S, s # {}, s \ {Pick(s)} \in G PROVE s \in G
    <2>1. f[Pick(s)] = 0 /\ g[s \ {Pick(s)}] = 0
      BY <1>2, PickOne
    <2>2. g[s] = f[Pick(s)] + g[s \ {Pick(s)}]
      BY <1>1, <1>2
    <2>3. g[s] = 0
      BY <2>1, <2>2
    <2>. QED BY <2>3
  <1>3. {} \in G /\ G \in SUBSET SUBSET S
    BY <1>1
  <1>4. G = SUBSET S
    <2>. HIDE DEF G
    <2>. QED BY <1>2, <1>3, AllSubsets
  <1>. QED BY <1>4

-----------------------------------------------------------------------------
(* Sorted lists.                                                           *)

\* A list can be put in order.
Sorting(s, n) ==
  {p \in Figures!Bijection(1..n, 1..n) : \A i, j \in 1..n : i < j => s[p[i]] <= s[p[j]]}

\* Whoever comes last finds a place in an ordered list.
LEMMA Inserted ==
  ASSUME NEW k \in Nat, NEW r \in [1..(k + 1) -> Nat], NEW p \in [1..k -> 1..k],
         \A i, j \in 1..k : i < j => r[p[i]] <= r[p[j]],
         \A i, j \in 1..k : p[i] = p[j] => i = j,
         \A y \in 1..k : \E i \in 1..k : p[i] = y
  PROVE  Sorting(r, k + 1) # {}
  <1>. DEFINE K == {i \in 1..(k + 1) : i = k + 1 \/ ~ (r[p[i]] <= r[k + 1])}
  <1>1. PICK m \in K : \A i \in K : m <= i
    <2>1. K \in SUBSET Nat /\ k + 1 \in K
      OBVIOUS
    <2>. HIDE DEF K
    <2>. QED BY <2>1, LeastOf
  <1>2. r[k + 1] \in Nat /\ \A x \in 1..k : r[p[x]] \in Nat /\ p[x] # k + 1 /\ p[x] \in 1..(k + 1)
    <2>1. k + 1 \in 1..(k + 1) /\ \A y \in 1..k : y \in 1..(k + 1) /\ y # k + 1
      OBVIOUS
    <2>2. \A x \in 1..k : p[x] \in 1..k
      OBVIOUS
    <2>3. \A y \in 1..(k + 1) : r[y] \in Nat
      OBVIOUS
    <2>. QED BY <2>1, <2>2, <2>3
  <1>3. m \in 1..(k + 1) /\ (m = k + 1 \/ (m \in 1..k /\ r[k + 1] < r[p[m]]))
    <2>1. m \in 1..(k + 1) /\ (m = k + 1 \/ ~ (r[p[m]] <= r[k + 1]))
      BY <1>1
    <2>2. m = k + 1 \/ m \in 1..k
      BY <2>1
    <2>3. ASSUME m \in 1..k, ~ (r[p[m]] <= r[k + 1]) PROVE r[k + 1] < r[p[m]]
      <3>. DEFINE a == r[p[m]]
                  b == r[k + 1]
      <3>1. a \in Nat /\ b \in Nat /\ ~ (a <= b)
        BY <1>2, <2>3
      <3>. HIDE DEF a, b
      <3>2. b < a
        BY <3>1
      <3>. QED BY <3>2 DEF a, b
    <2>. QED BY <2>1, <2>2, <2>3
  <1>4. ASSUME NEW i \in 1..k, i < m PROVE r[p[i]] <= r[k + 1]
    <2>1. i \in 1..(k + 1)
      OBVIOUS
    <2>2. i \notin K
      <3>. HIDE DEF K
      <3>1. m \in Nat /\ i \in Nat /\ ~ (m <= i)
        BY <1>3, <1>4
      <3>. QED BY <1>1, <3>1
    <2>. QED BY <2>1, <2>2
  <1>. HIDE DEF K
  <1>. DEFINE q == [i \in 1..(k + 1) |->
                      IF i < m THEN p[i] ELSE IF i = m THEN k + 1 ELSE p[i - 1]]
  <1>5. /\ \A i \in 1..(k + 1) : i < m => i \in 1..k /\ q[i] = p[i]
        /\ q[m] = k + 1
        /\ \A i \in 1..(k + 1) : m < i => i - 1 \in 1..k /\ q[i] = p[i - 1]
    <2>1. m \in 1..(k + 1)
      BY <1>3
    <2>2. ASSUME NEW i \in 1..(k + 1), i < m PROVE i \in 1..k /\ q[i] = p[i]
      BY <2>1, <2>2
    <2>3. ASSUME NEW i \in 1..(k + 1), m < i PROVE i - 1 \in 1..k /\ q[i] = p[i - 1]
      BY <2>1, <2>3
    <2>4. q[m] = k + 1
      BY <2>1
    <2>. QED BY <2>2, <2>3, <2>4
  <1>6. q \in [1..(k + 1) -> 1..(k + 1)]
    <2>1. ASSUME NEW i \in 1..(k + 1) PROVE q[i] \in 1..(k + 1)
      <3>1. i < m \/ i = m \/ m < i
        BY <1>3
      <3>2. k + 1 \in 1..(k + 1)
        OBVIOUS
      <3>. HIDE DEF q
      <3>. QED BY <1>2, <1>5, <3>1, <3>2
    <2>. QED BY <2>1
  <1>. HIDE DEF q
  <1>7. ASSUME NEW i \in 1..(k + 1), NEW j \in 1..(k + 1), q[i] = q[j] PROVE i = j
    <2>0. m \in Nat /\ i \in Nat /\ j \in Nat
      BY <1>3
    <2>1. CASE i = m
      BY <1>2, <1>5, <1>7, <2>0, <2>1
    <2>2. CASE j = m
      <3>1. q[i] = k + 1
        BY <1>5, <1>7, <2>2
      <3>2. i < m \/ i = m \/ m < i
        BY <2>0
      <3>. QED BY <1>2, <1>5, <2>2, <3>1, <3>2
    <2>3. CASE i < m /\ j < m
      BY <1>5, <1>7, <2>3
    <2>4. CASE m < i /\ m < j
      <3>1. i - 1 = j - 1
        BY <1>5, <1>7, <2>4
      <3>. QED BY <2>0, <3>1
    <2>5. CASE i < m /\ m < j
      <3>1. i = j - 1
        BY <1>5, <1>7, <2>5
      <3>. QED BY <2>0, <2>5, <3>1
    <2>6. CASE m < i /\ j < m
      <3>1. j = i - 1
        BY <1>5, <1>7, <2>6
      <3>. QED BY <2>0, <2>6, <3>1
    <2>. QED BY <2>0, <2>1, <2>2, <2>3, <2>4, <2>5, <2>6
  <1>8. ASSUME NEW y \in 1..(k + 1) PROVE \E i \in 1..(k + 1) : q[i] = y
    <2>1. CASE y = k + 1
      BY <1>3, <1>5, <2>1
    <2>2. CASE y # k + 1
      <3>1. PICK x \in 1..k : p[x] = y
        BY <2>2
      <3>2. CASE x < m
        <4>1. x \in 1..(k + 1)
          OBVIOUS
        <4>2. q[x] = y
          BY <1>5, <3>1, <3>2, <4>1
        <4>. QED BY <4>1, <4>2
      <3>3. CASE ~ (x < m)
        <4>1. x + 1 \in 1..(k + 1) /\ m < x + 1 /\ (x + 1) - 1 = x
          BY <1>3, <3>3
        <4>2. q[x + 1] = y
          BY <1>5, <3>1, <4>1
        <4>. QED BY <4>1, <4>2
      <3>. QED BY <3>2, <3>3
    <2>. QED BY <2>1, <2>2
  <1>9. ASSUME NEW i \in 1..(k + 1), NEW j \in 1..(k + 1), i < j PROVE r[q[i]] <= r[q[j]]
    <2>0. m \in Nat /\ i \in Nat /\ j \in Nat
      BY <1>3
    <2>1. CASE j < m
      <3>1. i < m
        BY <1>9, <2>0, <2>1
      <3>. QED BY <1>5, <1>9, <2>1, <3>1
    <2>2. CASE j = m
      <3>1. i < m
        BY <1>9, <2>2
      <3>2. i \in 1..k /\ q[i] = p[i] /\ q[j] = k + 1
        BY <1>5, <2>2, <3>1
      <3>. QED BY <1>4, <3>1, <3>2
    <2>3. CASE i < m /\ m < j
      <3>1. i \in 1..k /\ j - 1 \in 1..k /\ q[i] = p[i] /\ q[j] = p[j - 1]
        BY <1>5, <2>3
      <3>2. i = j - 1 \/ i < j - 1
        BY <2>0, <2>3
      <3>3. CASE i = j - 1
        <4>1. r[q[i]] = r[q[j]] /\ r[q[i]] \in Nat
          BY <1>2, <3>1, <3>3
        <4>. QED BY <4>1
      <3>4. CASE i < j - 1
        <4>1. r[p[i]] <= r[p[j - 1]]
          BY <3>1, <3>4
        <4>. QED BY <3>1, <4>1
      <3>. QED BY <3>2, <3>3, <3>4
    <2>4. CASE i = m
      <3>1. j - 1 \in 1..k /\ q[i] = k + 1 /\ q[j] = p[j - 1]
        BY <1>5, <1>9, <2>4
      <3>2. m \in 1..k /\ r[k + 1] < r[p[m]]
        <4>1. m # k + 1
          BY <1>9, <2>0, <2>4
        <4>. QED BY <1>3, <4>1
      <3>3. m = j - 1 \/ m < j - 1
        BY <1>9, <2>0, <2>4
      <3>4. r[p[m]] <= r[p[j - 1]]
        <4>1. CASE m = j - 1
          <5>1. r[p[m]] = r[p[j - 1]] /\ r[p[m]] \in Nat
            BY <1>2, <3>2, <4>1
          <5>. QED BY <5>1
        <4>2. CASE m < j - 1
          BY <3>1, <3>2, <4>2
        <4>. QED BY <3>3, <4>1, <4>2
      <3>5. r[p[m]] \in Nat /\ r[p[j - 1]] \in Nat
        BY <1>2, <3>1, <3>2
      <3>6. r[k + 1] <= r[p[j - 1]]
        <4>. DEFINE a == r[k + 1]
                    b == r[p[m]]
                    c == r[p[j - 1]]
        <4>1. a \in Nat /\ b \in Nat /\ c \in Nat /\ a < b /\ b <= c
          BY <1>2, <3>2, <3>4, <3>5
        <4>. HIDE DEF a, b, c
        <4>2. a <= c
          BY <4>1
        <4>. QED BY <4>2 DEF a, c
      <3>. QED BY <3>1, <3>6
    <2>5. CASE m < i
      <3>1. m < j /\ i - 1 < j - 1
        BY <1>9, <2>0, <2>5
      <3>2. i - 1 \in 1..k /\ j - 1 \in 1..k /\ q[i] = p[i - 1] /\ q[j] = p[j - 1]
        BY <1>5, <2>5, <3>1
      <3>3. r[p[i - 1]] <= r[p[j - 1]]
        BY <3>1, <3>2
      <3>. QED BY <3>2, <3>3
    <2>6. (i < m /\ m < j) \/ j < m \/ j = m \/ i = m \/ m < i
      BY <2>0
    <2>. QED BY <2>1, <2>2, <2>3, <2>4, <2>5, <2>6
  <1>10. q \in Sorting(r, k + 1)
    BY <1>6, <1>7, <1>8, <1>9 DEF Sorting, Figures!Bijection, Figures!Injection,
                               Figures!IsInjective, Figures!Surjection
  <1>. QED BY <1>10

\* Every list can be put in order.
LEMMA Sortable ==
  ASSUME NEW n \in Nat, NEW s \in [1..n -> Nat]
  PROVE  Sorting(s, n) # {}
  <1>. DEFINE T == {k \in Nat : \A r \in [1..k -> Nat] : Sorting(r, k) # {}}
  <1>1. 0 \in T
    <2>1. ASSUME NEW r \in [1..0 -> Nat] PROVE Sorting(r, 0) # {}
      <3>. DEFINE p == [i \in 1..0 |-> i]
      <3>1. 1..0 = {}
        OBVIOUS
      <3>2. p \in Sorting(r, 0)
        BY <3>1 DEF Sorting, Figures!Bijection, Figures!Injection,
                               Figures!IsInjective, Figures!Surjection
      <3>. QED BY <3>2
    <2>. QED BY <2>1
  <1>2. ASSUME NEW k \in T PROVE k + 1 \in T
    <2>0. k \in Nat
      OBVIOUS
    <2>1. ASSUME NEW r \in [1..(k + 1) -> Nat] PROVE Sorting(r, k + 1) # {}
      <3>. DEFINE b == [i \in 1..k |-> r[i]]
      <3>1. b \in [1..k -> Nat]
        BY <2>0
      <3>2. PICK p : p \in Sorting(b, k)
        BY <3>1
      <3>3. /\ p \in [1..k -> 1..k]
            /\ \A i, j \in 1..k : i < j => r[p[i]] <= r[p[j]]
            /\ \A i, j \in 1..k : p[i] = p[j] => i = j
            /\ \A y \in 1..k : \E i \in 1..k : p[i] = y
        BY <3>2 DEF Sorting, Figures!Bijection, Figures!Injection,
                               Figures!IsInjective, Figures!Surjection
      <3>. QED BY <2>0, <3>3, Inserted
    <2>. QED BY <2>0, <2>1
  <1>3. T = Nat
    <2>. HIDE DEF T
    <2>1. T \subseteq Nat
      BY DEF T
    <2>. QED BY <1>1, <1>2, <2>1, AllNumbers
  <1>. QED BY <1>3

\* Between two readings.
LEMMA Between ==
  ASSUME NEW a \in Nat, NEW b \in Nat, a <= b, NEW w \in 0..100, NEW v \in w..100
  PROVE  /\ a * 100 <= a * (100 - w) + b * w
         /\ a * (100 - w) + b * w <= a * (100 - v) + b * v
         /\ a * (100 - v) + b * v <= b * 100
  <1>1. PICK c \in Nat : b = a + c
    <2>1. b - a \in Nat /\ b = a + (b - a)
      OBVIOUS
    <2>. QED BY <2>1
  <1>2. 0 <= c * w /\ c * w <= c * v /\ c * v <= c * 100
    OBVIOUS
  <1>3. /\ a * (100 - w) + b * w = a * 100 + c * w
        /\ a * (100 - v) + b * v = a * 100 + c * v
        /\ b * 100 = a * 100 + c * 100
    BY <1>1
  <1>4. a * 100 \in Int /\ c * w \in Int /\ c * v \in Int /\ c * 100 \in Int
    OBVIOUS
  <1>. QED BY <1>2, <1>3, <1>4

\* The value at a position of a sorted list.
Reading(o, k) ==
  LET lo == k \div 100
      hi == (k + 99) \div 100
  IN IF lo = hi THEN o[lo + 1] * 100 ELSE o[lo + 1] * (hi * 100 - k) + o[hi + 1] * (k - lo * 100)

\* k lies w hundredths after the l-th value, counted from 0.
Lies(o, n, k, l, w) ==
  /\ k = l * 100 + w
  /\ w # 0 => l < n - 1
  /\ Reading(o, k) = IF w = 0 THEN o[l + 1] * 100 ELSE o[l + 1] * (100 - w) + o[l + 2] * w

\* Every position between the first and the last lies so.
LEMMA ReadingIs ==
  ASSUME NEW n \in Nat \ {0}, NEW o \in [1..n -> Nat], NEW k \in 0..((n - 1) * 100)
  PROVE  \E l \in 0..(n - 1), w \in 0..99 : Lies(o, n, k, l, w)
  <1>. DEFINE l == k \div 100
              w == k % 100
  <1>1. /\ l \in 0..(n - 1) /\ w \in 0..99 /\ k = l * 100 + w
        /\ w # 0 => l < n - 1
    OBVIOUS
  <1>2. (k + 99) \div 100 = IF w = 0 THEN l ELSE l + 1
    OBVIOUS
  <1>3. w # 0 => (l + 1) * 100 - k = 100 - w /\ k - l * 100 = w /\ (l + 1) + 1 = l + 2
    BY <1>1
  <1>4. w = 0 => Reading(o, k) = o[l + 1] * 100
    BY <1>2 DEF Reading
  <1>5. w # 0 => Reading(o, k) = o[l + 1] * (100 - w) + o[l + 2] * w
    <2>1. w # 0 => l # l + 1
      BY <1>1
    <2>. HIDE DEF w
    <2>. QED BY <1>2, <1>3, <2>1 DEF Reading
  <1>. HIDE DEF l, w
  <1>6. Lies(o, n, k, l, w)
    BY <1>1, <1>4, <1>5 DEF Lies
  <1>. QED BY <1>1, <1>6

\* Later positions have greater values, between the least and the greatest.
LEMMA ReadingRises ==
  ASSUME NEW n \in Nat \ {0}, NEW o \in [1..n -> Nat],
         \A i, j \in 1..n : i < j => o[i] <= o[j],
         NEW k \in 0..((n - 1) * 100), NEW j \in 0..k
  PROVE  /\ o[1] * 100 <= Reading(o, j)
         /\ Reading(o, j) <= Reading(o, k)
         /\ Reading(o, k) <= o[n] * 100
  <1>1. ASSUME NEW x \in 1..n, NEW y \in 1..n, x <= y
        PROVE  o[x] \in Nat /\ o[y] \in Nat /\ o[x] <= o[y] /\ o[x] * 100 <= o[y] * 100
    <2>1. o[x] \in Nat /\ o[y] \in Nat
      OBVIOUS
    <2>2. x = y \/ x < y
      BY <1>1
    <2>3. o[x] <= o[y]
      BY <2>1, <2>2
    <2>. QED BY <2>1, <2>3
  <1>2. ASSUME NEW i \in 0..((n - 1) * 100), NEW l \in 0..(n - 1), NEW w \in 0..99,
               Lies(o, n, i, l, w)
        PROVE  /\ Reading(o, i) \in Int
               /\ o[l + 1] * 100 <= Reading(o, i)
               /\ w # 0 => Reading(o, i) <= o[l + 2] * 100
               /\ Reading(o, i) <= o[n] * 100
               /\ o[1] * 100 <= Reading(o, i)
    <2>0. l + 1 \in 1..n /\ 1 \in 1..n /\ n \in 1..n
      OBVIOUS
    <2>1. o[l + 1] \in Nat /\ o[1] * 100 <= o[l + 1] * 100 /\ o[l + 1] * 100 <= o[n] * 100
      BY <1>1, <2>0
    <2>2. CASE w = 0
      BY <1>1, <1>2, <2>0, <2>1, <2>2 DEF Lies
    <2>3. CASE w # 0
      <3>1. l + 2 \in 1..n /\ l + 1 <= l + 2
        BY <1>2, <2>3 DEF Lies
      <3>2. /\ o[l + 2] \in Nat /\ o[l + 1] <= o[l + 2]
            /\ o[l + 2] * 100 <= o[n] * 100
        BY <1>1, <2>0, <3>1, SMTT(30)
      <3>3. /\ o[l + 1] * 100 <= o[l + 1] * (100 - w) + o[l + 2] * w
            /\ o[l + 1] * (100 - w) + o[l + 2] * w <= o[l + 2] * 100
        <4>1. w \in 0..100 /\ w \in w..100
          OBVIOUS
        <4>. QED BY <2>1, <3>2, <4>1, Between
      <3>4. Reading(o, i) = o[l + 1] * (100 - w) + o[l + 2] * w
        BY <1>2, <2>3 DEF Lies
      <3>5. Reading(o, i) \in Int
        BY <2>1, <3>2, <3>4
      <3>6. o[1] \in Nat /\ o[n] \in Nat
        BY <2>0
      <3>. DEFINE A == o[l + 1] * 100
                  B == o[l + 2] * 100
                  C == o[1] * 100
                  D == o[n] * 100
      <3>7. A \in Int /\ B \in Int /\ C \in Int /\ D \in Int
        BY <2>1, <3>2, <3>6
      <3>8. A <= Reading(o, i) /\ Reading(o, i) <= B /\ C <= A /\ B <= D
        BY <2>1, <3>2, <3>3, <3>4
      <3>. HIDE DEF A, B, C, D
      <3>9. A <= Reading(o, i) /\ Reading(o, i) <= B /\ Reading(o, i) <= D /\ C <= Reading(o, i)
        BY <3>5, <3>7, <3>8
      <3>. QED BY <3>5, <3>9 DEF A, B, C, D
    <2>. QED BY <2>2, <2>3
  <1>3. j \in 0..((n - 1) * 100)
    OBVIOUS
  <1>4. PICK l \in 0..(n - 1), w \in 0..99 : Lies(o, n, j, l, w)
    BY <1>3, ReadingIs
  <1>5. PICK m \in 0..(n - 1), v \in 0..99 : Lies(o, n, k, m, v)
    BY ReadingIs
  <1>6. /\ Reading(o, j) \in Int /\ o[1] * 100 <= Reading(o, j)
        /\ w # 0 => Reading(o, j) <= o[l + 2] * 100
    BY <1>2, <1>3, <1>4
  <1>7. /\ Reading(o, k) \in Int /\ Reading(o, k) <= o[n] * 100
        /\ o[m + 1] * 100 <= Reading(o, k)
    BY <1>2, <1>5
  <1>8. l < m \/ (l = m /\ w <= v)
    BY <1>4, <1>5, SMTT(30) DEF Lies
  <1>9. CASE l = m /\ w <= v
    <2>1. CASE w = 0
      BY <1>4, <1>6, <1>7, <1>9, <2>1 DEF Lies
    <2>2. CASE w # 0
      <3>1. l + 1 \in 1..n /\ l + 2 \in 1..n /\ l + 1 <= l + 2
        BY <1>4, <2>2 DEF Lies
      <3>2. o[l + 1] \in Nat /\ o[l + 2] \in Nat /\ o[l + 1] <= o[l + 2]
        BY <1>1, <3>1
      <3>3. w \in 0..100 /\ v \in w..100 /\ v # 0
        BY <1>9, <2>2, SMTT(30)
      <3>4. o[l + 1] * (100 - w) + o[l + 2] * w <= o[l + 1] * (100 - v) + o[l + 2] * v
        BY <3>2, <3>3, Between
      <3>. QED BY <1>4, <1>5, <1>6, <1>7, <1>9, <2>2, <3>3, <3>4 DEF Lies
    <2>. QED BY <2>1, <2>2
  <1>10. CASE l < m
    <2>1. l + 1 \in 1..n /\ m + 1 \in 1..n /\ l + 1 <= m + 1
      BY <1>10
    <2>2. o[l + 1] * 100 <= o[m + 1] * 100 /\ o[l + 1] \in Nat /\ o[m + 1] \in Nat
      BY <1>1, <2>1
    <2>3. CASE w = 0
      BY <1>4, <1>6, <1>7, <2>2, <2>3 DEF Lies
    <2>4. CASE w # 0
      <3>1. l + 2 \in 1..n /\ l + 2 <= m + 1
        BY <1>4, <1>10, <2>4 DEF Lies
      <3>2. o[l + 2] * 100 <= o[m + 1] * 100 /\ o[l + 2] \in Nat
        BY <1>1, <2>1, <3>1
      <3>. DEFINE B == o[l + 2] * 100
                  C == o[m + 1] * 100
      <3>3. B \in Int /\ C \in Int
        BY <2>2, <3>2
      <3>4. Reading(o, j) <= B /\ B <= C /\ C <= Reading(o, k)
        BY <1>6, <1>7, <2>4, <3>2
      <3>. HIDE DEF B, C
      <3>5. Reading(o, j) <= Reading(o, k)
        BY <1>6, <1>7, <3>3, <3>4
      <3>. QED BY <1>6, <1>7, <3>5
    <2>. QED BY <2>3, <2>4
  <1>. QED BY <1>8, <1>9, <1>10

-----------------------------------------------------------------------------
(* The figures of a process.                                               *)

\* What falls off the other end of a bounded list leaves its members and its
\* bound.
LEMMA PushBounded ==
  ASSUME NEW S, NEW e \in S, NEW s \in Seq(S), NEW n \in Nat \ {0}, Len(s) <= n
  PROVE  Figures!Push(e, s, n) \in Seq(S) /\ Len(Figures!Push(e, s, n)) <= n
  <1>. DEFINE t == <<e>> \o s
              m == IF Len(s) < n THEN Len(s) + 1 ELSE n
  <1>1. t \in Seq(S) /\ Len(t) = Len(s) + 1
    OBVIOUS
  <1>2. m \in 1..Len(t) /\ m <= n
    BY <1>1
  <1>. HIDE DEF t, m
  <1>3. SubSeq(t, 1, m) \in Seq(S) /\ Len(SubSeq(t, 1, m)) = m
    BY <1>1, <1>2
  <1>. QED BY <1>2, <1>3 DEF Figures!Push, t, m

\* A list read backwards has the same members and the same length.
LEMMA BackwardsSame ==
  ASSUME NEW S, NEW s \in Seq(S)
  PROVE  Figures!Reverse(s) \in Seq(S) /\ Len(Figures!Reverse(s)) = Len(s)
  <1>1. Len(s) \in Nat /\ \A i \in 1..Len(s) : s[Len(s) - i + 1] \in S
    OBVIOUS
  <1>. QED BY <1>1 DEF Figures!Reverse

\* The greater of two numbers is one of them.
LEMMA GreaterOf ==
  ASSUME NEW a \in Nat, NEW b \in Nat
  PROVE  Figures!Max({a, b}) \in {a, b}
  <1>1. \E x \in {a, b} : \A y \in {a, b} : x >= y
    OBVIOUS
  <1>. QED BY <1>1 DEF Figures!Max

\* Nothing is counted at the start.
LEMMA FiguresInit == Figures!Init => Figures!TypeOK
  BY ProcessAssumption DEF Figures!Init, Figures!TypeOK

\* Counting a request keeps the bounded lists in their bounds.
LEMMA FiguresNext == Figures!TypeOK /\ [Figures!Next]_(Figures!vars) => Figures!TypeOK'
  <1>. SUFFICES ASSUME Figures!TypeOK, [Figures!Next]_(Figures!vars) PROVE Figures!TypeOK'
    OBVIOUS
  <1>. USE DEF Figures!TypeOK
  <1>1. ASSUME NEW q \in Route, NEW c \in Figures!Class, NEW d \in Duration,
               Figures!Record(q, c, d)
        PROVE  Figures!TypeOK'
    <2>. DEFINE e == [id |-> total, route |-> q, class |-> c]
    <2>1. e \in Figures!Entry
      BY DEF Figures!Entry
    <2>2. /\ SampleSize \in Nat \ {0} /\ RecentSize \in Nat \ {0} /\ ErrorsKept \in Nat \ {0}
          /\ Duration \subseteq Nat /\ d \in Nat
      BY ProcessAssumption
    <2>3. total' \in Nat /\ classes' \in [Figures!Class -> Nat]
      BY <1>1 DEF Figures!Record
    <2>4. latencies' \in Seq(Duration) /\ Len(latencies') <= SampleSize
      <3>1. /\ Figures!Reverse(latencies) \in Seq(Duration)
            /\ Len(Figures!Reverse(latencies)) <= SampleSize
        BY BackwardsSame
      <3>2. /\ Figures!Push(d, Figures!Reverse(latencies), SampleSize) \in Seq(Duration)
            /\ Len(Figures!Push(d, Figures!Reverse(latencies), SampleSize)) <= SampleSize
        BY <2>2, <3>1, PushBounded
      <3>3. latencies' =
              Figures!Reverse(Figures!Push(d, Figures!Reverse(latencies), SampleSize))
        BY <1>1 DEF Figures!Record
      <3>. QED BY <3>2, <3>3, BackwardsSame
    <2>5. stat' \in [Route -> [count : Nat, sum : Nat, max : Duration \cup {0}, errors : Nat]]
      <3>. DEFINE Stat == [count : Nat, sum : Nat, max : Duration \cup {0}, errors : Nat]
                  m == Figures!Max({stat[q].max, d})
                  r == [count |-> stat[q].count + 1, sum |-> stat[q].sum + d, max |-> m,
                        errors |-> IF c = "5xx" THEN stat[q].errors + 1 ELSE stat[q].errors]
      <3>0. /\ stat[q].count \in Nat /\ stat[q].sum \in Nat /\ stat[q].errors \in Nat
            /\ stat[q].max \in Duration \cup {0}
        OBVIOUS
      <3>1. m \in Duration \cup {0}
        <4>1. stat[q].max \in Nat
          <5>1. CASE stat[q].max \in Duration
            <6>1. \A x : x \in Duration => x \in Nat
              BY <2>2, Zenon
            <6>. QED BY <5>1, <6>1, Zenon
          <5>2. CASE stat[q].max = 0
            BY <5>2
          <5>. QED BY <3>0, <5>1, <5>2, Zenon
        <4>2. m \in {stat[q].max, d}
          BY <2>2, <4>1, GreaterOf
        <4>. QED BY <3>0, <4>2
      <3>2. stat' = [stat EXCEPT ![q] = r]
        BY <1>1 DEF Figures!Record
      <3>. HIDE DEF m
      <3>3. r \in Stat
        BY <2>2, <3>0, <3>1
      <3>. HIDE DEF r, Stat
      <3>4. stat \in [Route -> Stat]
        BY DEF Stat
      <3>5. stat' \in [Route -> Stat]
        BY <3>2, <3>3, <3>4
      <3>. QED BY <3>5 DEF Stat
    <2>6. recent' \in Seq(Figures!Entry) /\ Len(recent') <= RecentSize
      BY <1>1, <2>1, <2>2, PushBounded DEF Figures!Record
    <2>7. errors' \in Seq(Figures!Entry) /\ Len(errors') <= ErrorsKept
      BY <1>1, <2>1, <2>2, PushBounded DEF Figures!Record, Figures!Errors
    <2>. QED BY <2>3, <2>4, <2>5, <2>6, <2>7
  <1>2. CASE UNCHANGED Figures!vars
    BY <1>2 DEF Figures!vars
  <1>. QED BY <1>1, <1>2 DEF Figures!Next

\* What a push leaves: the new entry first, each of the others one further on.
IsPushed(t, e, s, n) ==
  /\ Len(t) = IF Len(s) < n THEN Len(s) + 1 ELSE n
  /\ t[1] = e
  /\ \A i \in 1..(Len(t) - 1) : i \in 1..Len(s) /\ t[i + 1] = s[i]

\* That is what falling off the end does.
LEMMA Pushed ==
  ASSUME NEW S, NEW e \in S, NEW s \in Seq(S), NEW n \in Nat \ {0}, Len(s) <= n,
         NEW t, t = Figures!Push(e, s, n)
  PROVE  t \in Seq(S) /\ IsPushed(t, e, s, n)
  <1>. DEFINE u == <<e>> \o s
              m == IF Len(s) < n THEN Len(s) + 1 ELSE n
  <1>1. /\ u \in Seq(S) /\ Len(u) = Len(s) + 1 /\ Len(s) \in Nat
        /\ u[1] = e
        /\ \A i \in 1..Len(s) : u[i + 1] = s[i]
    OBVIOUS
  <1>2. m \in 1..Len(u)
    BY <1>1
  <1>3. t = SubSeq(u, 1, m)
    BY DEF Figures!Push
  <1>4. Len(s) < n => m = Len(s) + 1
    OBVIOUS
  <1>5. m - 1 \in Nat /\ m - 1 <= Len(s)
    BY <1>1
  <1>. HIDE DEF u, m
  <1>6. t \in Seq(S) /\ Len(t) = m /\ \A i \in 1..m : t[i] = u[i]
    BY <1>1, <1>2, <1>3
  <1>7. t[1] = e
    BY <1>1, <1>2, <1>6
  <1>8. ASSUME NEW i \in 1..(m - 1) PROVE i \in 1..Len(s) /\ t[i + 1] = s[i]
    <2>1. i \in 1..Len(s) /\ i + 1 \in 1..m
      BY <1>1, <1>2, <1>5
    <2>. QED BY <1>1, <1>6, <2>1
  <1>. QED BY <1>6, <1>7, <1>8 DEF m, IsPushed

\* The failed among the first i of a list.
Failed(s, i) == {j \in 1..i : s[j].class = "5xx"}

\* One request in front moves the others on by one, and counts if it failed.
LEMMA FailedMoved ==
  ASSUME NEW s, NEW t, NEW i \in Nat, \A j \in 1..i : t[j + 1] = s[j]
  PROVE  /\ Cardinality(Failed(s, i)) \in Nat
         /\ Cardinality(Failed(t, i + 1)) =
              Cardinality(Failed(s, i)) + (IF t[1].class = "5xx" THEN 1 ELSE 0)
  <1>. DEFINE A == Failed(s, i)
              B == {j \in 2..(i + 1) : t[j].class = "5xx"}
              f == [j \in A |-> j + 1]
  <1>1. IsFiniteSet(A) /\ Cardinality(A) \in Nat
    <2>1. IsFiniteSet(1..i)
      BY FS_Interval, SMTT(30)
    <2>2. A \in SUBSET (1..i)
      BY DEF Failed
    <2>. HIDE DEF A
    <2>3. IsFiniteSet(A)
      BY <2>1, <2>2, FS_Subset
    <2>. QED BY <2>3, FS_CardinalityType
  <1>2. f \in Bijection(A, B)
    <2>1. ASSUME NEW j \in A PROVE f[j] \in B /\ f[j] = j + 1 /\ j \in Int
      BY DEF Failed
    <2>2. ASSUME NEW j \in B PROVE j - 1 \in A /\ f[j - 1] = j
      <3>1. j - 1 \in 1..i /\ t[(j - 1) + 1] = s[j - 1] /\ (j - 1) + 1 = j
        OBVIOUS
      <3>2. j - 1 \in A
        BY <3>1 DEF Failed
      <3>. QED BY <3>1, <3>2
    <2>3. f \in [A -> B]
      BY <2>1
    <2>. HIDE DEF f, A, B
    <2>4. \A j, k \in A : f[j] = f[k] => j = k
      BY <2>1
    <2>5. \A k \in B : \E j \in A : f[j] = k
      BY <2>2
    <2>. QED BY <2>3, <2>4, <2>5 DEF Bijection, Injection, IsInjective, Surjection
  <1>3. IsFiniteSet(B) /\ Cardinality(B) = Cardinality(A)
    <2>1. ExistsBijection(A, B)
      BY <1>2 DEF ExistsBijection
    <2>. HIDE DEF A, B
    <2>. QED BY <1>1, <2>1, FS_Bijection
  <1>4. CASE t[1].class = "5xx"
    <2>1. Failed(t, i + 1) = B \cup {1} /\ 1 \notin B
      BY <1>4 DEF Failed
    <2>. HIDE DEF A, B
    <2>2. Cardinality(B \cup {1}) = Cardinality(B) + 1
      BY <1>3, <2>1, FS_AddElement
    <2>. QED BY <1>1, <1>3, <1>4, <2>1, <2>2 DEF A
  <1>5. CASE t[1].class # "5xx"
    <2>1. Failed(t, i + 1) = B
      BY <1>5 DEF Failed
    <2>. HIDE DEF A, B
    <2>. QED BY <1>1, <1>3, <1>5, <2>1 DEF A
  <1>. QED BY <1>1, <1>4, <1>5 DEF A

\* The lesser of two numbers.
LEMMA LesserOf ==
  ASSUME NEW a \in Nat, NEW b \in Nat
  PROVE  Figures!Min({a, b}) = IF a <= b THEN a ELSE b
  <1>. DEFINE c == IF a <= b THEN a ELSE b
  <1>1. c \in {a, b} /\ \A y \in {a, b} : c <= y
    OBVIOUS
  <1>2. \A x \in {a, b} : (\A y \in {a, b} : x <= y) => x = c
    OBVIOUS
  <1>. HIDE DEF c
  <1>3. Figures!Min({a, b}) = c
    BY <1>1, <1>2 DEF Figures!Min
  <1>. QED BY <1>3 DEF c

\* There are finitely many classes and routes.
LEMMA FewTerms == IsFiniteSet(Figures!Class) /\ IsFiniteSet(Route)
  <1>1. /\ IsFiniteSet({"2xx"}) /\ IsFiniteSet({"2xx"} \cup {"4xx"})
        /\ IsFiniteSet({"2xx"} \cup {"4xx"} \cup {"5xx"})
    BY FS_Singleton, FS_AddElement
  <1>2. Figures!Class = {"2xx"} \cup {"4xx"} \cup {"5xx"}
    BY DEF Figures!Class
  <1>. QED BY <1>1, <1>2, ProcessAssumption

\* The agreement of the sums, by their names.
SumsOK ==
  /\ total = TermSum(Figures!Class, classes)
  /\ total = CountSum(Route, stat)
  /\ classes["5xx"] = ErrorSum(Route, stat)

\* That is what the module says of them.
LEMMA SumsNamed == Figures!SumsAgree <=> SumsOK
  BY DEF Figures!SumsAgree, SumsOK, TermSum, CountSum, ErrorSum, Figures!SumOver,
         Figures!FoldSet, Figures!MapThenFoldSet

\* At the start all sums are nought.
LEMMA SumsAtFirst == Figures!Init => SumsOK
  <1>. SUFFICES ASSUME Figures!Init PROVE SumsOK
    OBVIOUS
  <1>. DEFINE none == [q \in Route |-> 0]
  <1>1. /\ total = 0
        /\ classes = [c \in Figures!Class |-> 0]
        /\ classes \in [Figures!Class -> Nat]
        /\ classes["5xx"] = 0
        /\ none \in [Route -> Nat]
        /\ \A q \in Route : none[q] = stat[q].count /\ none[q] = stat[q].errors
    BY DEF Figures!Init, Figures!Class
  <1>2. IsFiniteSet(Figures!Class) /\ IsFiniteSet(Route)
    BY FewTerms
  <1>3. TermSum(Figures!Class, classes) = 0
    <2>1. PICK g : /\ Adds(Figures!Class, classes, g)
                   /\ TermSum(Figures!Class, classes) = g[Figures!Class]
      BY <1>1, <1>2, TermSumIs
    <2>2. g[Figures!Class] = 0
      BY <1>1, <1>2, <2>1, SumOfNone
    <2>. QED BY <2>1, <2>2
  <1>4. CountSum(Route, stat) = 0
    <2>. HIDE DEF none
    <2>1. PICK g : /\ Adds(Route, none, g)
                   /\ CountSum(Route, stat) = g[Route]
      BY <1>1, <1>2, CountSumIs
    <2>2. g[Route] = 0
      BY <1>2, <2>1, SumOfNone DEF none
    <2>. QED BY <2>1, <2>2
  <1>5. ErrorSum(Route, stat) = 0
    <2>. HIDE DEF none
    <2>1. PICK g : /\ Adds(Route, none, g)
                   /\ ErrorSum(Route, stat) = g[Route]
      BY <1>1, <1>2, ErrorSumIs
    <2>2. g[Route] = 0
      BY <1>2, <2>1, SumOfNone DEF none
    <2>. QED BY <2>1, <2>2
  <1>. QED BY <1>1, <1>3, <1>4, <1>5 DEF SumsOK

\* A request adds one to the total and to one term of each sum.
LEMMA SumsKept ==
  ASSUME Figures!TypeOK, Figures!TypeOK', SumsOK,
         NEW q \in Route, NEW c \in Figures!Class, NEW d \in Duration, Figures!Record(q, c, d)
  PROVE  SumsOK'
  <1>1. IsFiniteSet(Figures!Class) /\ IsFiniteSet(Route)
    BY FewTerms
  <1>2. /\ total' = total + 1 /\ total \in Nat
        /\ classes \in [Figures!Class -> Nat] /\ classes' \in [Figures!Class -> Nat]
        /\ Grown(Figures!Class, classes, classes', c, 1)
    BY DEF Figures!Record, Figures!TypeOK, Grown
  <1>. DEFINE counts == [r \in Route |-> stat[r].count]
              counted == [counts EXCEPT ![q] = counts[q] + 1]
              fails == [r \in Route |-> stat[r].errors]
              one == IF c = "5xx" THEN 1 ELSE 0
              failing == [fails EXCEPT ![q] = fails[q] + one]
  <1>3. /\ counts \in [Route -> Nat] /\ fails \in [Route -> Nat] /\ one \in Nat
        /\ counted \in [Route -> Nat] /\ failing \in [Route -> Nat]
        /\ \A r \in Route : /\ counts[r] = stat[r].count
                            /\ fails[r] = stat[r].errors
    <2>1. \A r \in Route : stat[r].count \in Nat /\ stat[r].errors \in Nat
      BY DEF Figures!TypeOK
    <2>2. counts \in [Route -> Nat] /\ fails \in [Route -> Nat] /\ one \in Nat
      BY <2>1
    <2>. HIDE DEF one
    <2>3. counted \in [Route -> Nat] /\ failing \in [Route -> Nat]
      <3>. HIDE DEF counts, fails
      <3>. QED BY <2>2
    <2>. QED BY <2>2, <2>3
  <1>4. \A r \in Route : /\ counted[r] = stat'[r].count
                         /\ failing[r] = stat'[r].errors
    <2>1. PICK m : stat' = [stat EXCEPT ![q] =
                              [count |-> stat[q].count + 1, sum |-> stat[q].sum + d, max |-> m,
                               errors |-> IF c = "5xx" THEN stat[q].errors + 1
                                                       ELSE stat[q].errors]]
      BY DEF Figures!Record
    <2>2. stat[q].errors \in Nat /\ DOMAIN stat = Route
      BY DEF Figures!TypeOK
    <2>. QED BY <2>1, <2>2
  <1>5. Grown(Route, counts, counted, q, 1) /\ Grown(Route, fails, failing, q, one)
    BY <1>3 DEF Grown
  <1>. HIDE DEF counts, counted, fails, failing
  <1>6. total' = TermSum(Figures!Class, classes')
    <2>1. PICK g : /\ Adds(Figures!Class, classes, g)
                   /\ TermSum(Figures!Class, classes) = g[Figures!Class]
      BY <1>1, <1>2, TermSumIs
    <2>2. PICK h : /\ Adds(Figures!Class, classes', h)
                   /\ TermSum(Figures!Class, classes') = h[Figures!Class]
      BY <1>1, <1>2, TermSumIs
    <2>3. h[Figures!Class] = g[Figures!Class] + 1
      BY <1>1, <1>2, <2>1, <2>2, SumGrows, SMTT(30)
    <2>4. total = g[Figures!Class]
      BY <2>1 DEF SumsOK
    <2>. QED BY <1>2, <2>2, <2>3, <2>4
  <1>7. total' = CountSum(Route, stat')
    <2>1. PICK g : /\ Adds(Route, counts, g)
                   /\ CountSum(Route, stat) = g[Route]
      BY <1>1, <1>3, CountSumIs
    <2>2. PICK h : /\ Adds(Route, counted, h)
                   /\ CountSum(Route, stat') = h[Route]
      BY <1>1, <1>3, <1>4, CountSumIs
    <2>3. h[Route] = g[Route] + 1
      <3>. HIDE DEF one
      <3>. QED BY <1>1, <1>5, <2>1, <2>2, SumGrows, SMTT(30)
    <2>4. total = g[Route]
      BY <2>1 DEF SumsOK
    <2>. QED BY <1>2, <2>2, <2>3, <2>4
  <1>8. classes'["5xx"] = ErrorSum(Route, stat')
    <2>1. PICK g : /\ Adds(Route, fails, g)
                   /\ ErrorSum(Route, stat) = g[Route]
      BY <1>1, <1>3, ErrorSumIs
    <2>2. PICK h : /\ Adds(Route, failing, h)
                   /\ ErrorSum(Route, stat') = h[Route]
      BY <1>1, <1>3, <1>4, ErrorSumIs
    <2>3. h[Route] = g[Route] + one
      <3>. HIDE DEF one
      <3>. QED BY <1>1, <1>5, <2>1, <2>2, SumGrows, SMTT(30)
    <2>4. classes["5xx"] = g[Route]
      BY <2>1 DEF SumsOK
    <2>5. classes'["5xx"] = classes["5xx"] + one
      BY <1>2 DEF Figures!Class, Grown
    <2>. QED BY <2>2, <2>3, <2>4, <2>5
  <1>. QED BY <1>6, <1>7, <1>8 DEF SumsOK

\* A failed request goes to the front of both lists.
LEMMA ErrorsKeptInOrder ==
  ASSUME Figures!TypeOK, Figures!ErrorsListed,
         NEW q \in Route, NEW c \in Figures!Class, NEW d \in Duration, Figures!Record(q, c, d)
  PROVE  Figures!ErrorsListed'
  <1>. DEFINE e == [id |-> total, route |-> q, class |-> c]
  <1>1. /\ e \in Figures!Entry /\ e.class = c
        /\ RecentSize \in Nat \ {0} /\ ErrorsKept \in Nat \ {0}
        /\ recent \in Seq(Figures!Entry) /\ Len(recent) <= RecentSize
        /\ errors \in Seq(Figures!Entry) /\ Len(errors) <= ErrorsKept
        /\ classes["5xx"] \in Nat
    BY ProcessAssumption DEF Figures!TypeOK, Figures!Entry, Figures!Class
  <1>2. /\ recent' = Figures!Push(e, recent, RecentSize)
        /\ errors' = IF c = "5xx" THEN Figures!Push(e, errors, ErrorsKept) ELSE errors
        /\ classes'["5xx"] = classes["5xx"] + (IF c = "5xx" THEN 1 ELSE 0)
    BY DEF Figures!Record, Figures!Errors, Figures!TypeOK, Figures!Class
  <1>. HIDE DEF e
  <1>3. /\ recent' \in Seq(Figures!Entry)
        /\ recent'[1] = e
        /\ \A i \in 1..(Len(recent') - 1) : i \in 1..Len(recent) /\ recent'[i + 1] = recent[i]
    <2>1. recent' \in Seq(Figures!Entry) /\ IsPushed(recent', e, recent, RecentSize)
      BY <1>1, <1>2, Pushed
    <2>. QED BY <2>1 DEF IsPushed
  <1>4. c = "5xx" =>
          /\ errors' \in Seq(Figures!Entry)
          /\ Len(errors') = IF Len(errors) < ErrorsKept THEN Len(errors) + 1 ELSE ErrorsKept
          /\ errors'[1] = e
          /\ \A i \in 1..(Len(errors') - 1) : i \in 1..Len(errors) /\ errors'[i + 1] = errors[i]
    <2>. SUFFICES ASSUME c = "5xx"
                  PROVE  errors' \in Seq(Figures!Entry) /\ IsPushed(errors', e, errors, ErrorsKept)
      BY DEF IsPushed
    <2>1. errors' = Figures!Push(e, errors, ErrorsKept)
      BY <1>2
    <2>. QED BY <1>1, <2>1, Pushed
  <1>5. Len(errors) = IF classes["5xx"] <= ErrorsKept THEN classes["5xx"] ELSE ErrorsKept
    BY <1>1, LesserOf DEF Figures!ErrorsListed
  <1>6. Len(errors') = Figures!Min({classes'["5xx"], ErrorsKept})
    <2>1. Figures!Min({classes'["5xx"], ErrorsKept}) =
            IF classes'["5xx"] <= ErrorsKept THEN classes'["5xx"] ELSE ErrorsKept
      BY <1>1, <1>2, LesserOf
    <2>2. CASE c = "5xx"
      BY <1>1, <1>2, <1>4, <1>5, <2>1, <2>2
    <2>3. CASE c # "5xx"
      BY <1>1, <1>2, <1>5, <2>1, <2>3
    <2>. QED BY <2>2, <2>3
  <1>7. ASSUME NEW i \in 1..Len(recent'), recent'[i].class = "5xx",
               Cardinality(Failed(recent', i)) <= ErrorsKept
        PROVE  /\ Cardinality(Failed(recent', i)) \in 1..Len(errors')
               /\ errors'[Cardinality(Failed(recent', i))] = recent'[i]
    <2>1. CASE i = 1
      <3>1. c = "5xx"
        BY <1>1, <1>3, <1>7, <2>1
      <3>2. Failed(recent', i) = {1}
        BY <1>7, <2>1 DEF Failed
      <3>3. Cardinality(Failed(recent', i)) = 1
        BY <3>2, FS_Singleton
      <3>4. 1 \in 1..Len(errors')
        BY <1>1, <1>4, <3>1
      <3>. QED BY <1>3, <1>4, <2>1, <3>1, <3>3, <3>4
    <2>2. CASE i # 1
      <3>. DEFINE j == i - 1
                  n == Cardinality(Failed(recent, j))
      <3>1. /\ j \in 1..(Len(recent') - 1) /\ j + 1 = i /\ j \in Nat
            /\ \A k \in 1..j : k \in 1..(Len(recent') - 1)
        BY <1>3, <2>2
      <3>2. /\ j \in DOMAIN recent /\ recent'[i] = recent[j]
            /\ \A k \in 1..j : recent'[k + 1] = recent[k]
        BY <1>1, <1>3, <3>1
      <3>. HIDE DEF j
      <3>3. /\ n \in Nat
            /\ Cardinality(Failed(recent', i)) = n + (IF recent'[1].class = "5xx" THEN 1 ELSE 0)
        BY <3>1, <3>2, FailedMoved
      <3>4. Cardinality(Failed(recent', i)) = n + (IF c = "5xx" THEN 1 ELSE 0)
        BY <1>1, <1>3, <3>3
      <3>5. n \in 1..Len(errors) /\ errors[n] = recent[j]
        <4>1. n <= ErrorsKept
          BY <1>1, <1>7, <3>3, <3>4
        <4>2. Figures!FailedUpTo(j) = n
          BY DEF Figures!FailedUpTo, Failed, Figures!Cardinality, Cardinality
        <4>3. recent[j].class = "5xx"
          BY <1>7, <3>2
        <4>4. n \in DOMAIN errors /\ errors[n] = recent[j]
          <5>. HIDE DEF n
          <5>. QED BY <3>2, <4>1, <4>2, <4>3 DEF Figures!ErrorsListed
        <4>5. DOMAIN errors = 1..Len(errors)
          BY <1>1
        <4>. QED BY <4>4, <4>5
      <3>. HIDE DEF n
      <3>6. CASE c = "5xx"
        <4>1. n + 1 <= ErrorsKept
          BY <1>7, <3>4, <3>6
        <4>2. n \in 1..(Len(errors') - 1) /\ n + 1 \in 1..Len(errors')
          BY <1>1, <1>4, <3>3, <3>5, <3>6, <4>1
        <4>3. errors'[n + 1] = errors[n]
          BY <1>4, <3>6, <4>2
        <4>. QED BY <3>2, <3>4, <3>5, <3>6, <4>2, <4>3
      <3>7. CASE c # "5xx"
        BY <1>2, <3>2, <3>3, <3>4, <3>5, <3>7
      <3>. QED BY <3>6, <3>7
    <2>. QED BY <2>1, <2>2
  <1>8. DOMAIN recent' = 1..Len(recent') /\ DOMAIN errors' = 1..Len(errors')
    BY <1>1, <1>2, <1>3, <1>4
  <1>9. \A i : Figures!FailedUpTo(i)' = Cardinality(Failed(recent', i))
    BY DEF Figures!FailedUpTo, Failed, Figures!Cardinality, Cardinality
  <1>. QED BY <1>6, <1>7, <1>8, <1>9 DEF Figures!ErrorsListed

\* The sample can be put in order, and later positions have greater values.
LEMMA PercentilesInOrder == Figures!TypeOK => Figures!PercentilesRise
  <1>. SUFFICES ASSUME Figures!TypeOK, latencies # << >> PROVE Figures!PercentilesRise
    BY DEF Figures!PercentilesRise
  <1>. DEFINE n == Len(latencies)
              o == Figures!Ordered
  <1>1. n \in Nat \ {0} /\ latencies \in [1..n -> Nat]
    <2>1. latencies \in Seq(Duration) /\ \A d \in Duration : d \in Nat
      BY ProcessAssumption DEF Figures!TypeOK
    <2>2. n \in Nat /\ n # 0 /\ DOMAIN latencies = 1..n
      BY <2>1
    <2>3. \A i \in 1..n : latencies[i] \in Nat
      BY <2>1
    <2>4. latencies = [i \in 1..n |-> latencies[i]]
      BY <2>1
    <2>. HIDE DEF n
    <2>. QED BY <2>2, <2>3, <2>4
  <1>2. Sorting(latencies, n) # {}
    BY <1>1, Sortable
  <1>. DEFINE place == CHOOSE p \in Figures!Bijection(1..n, 1..n) :
                         \A i, j \in 1..n : i < j => latencies[p[i]] <= latencies[p[j]]
  <1>3. /\ place \in [1..n -> 1..n]
        /\ \A i, j \in 1..n : i < j => latencies[place[i]] <= latencies[place[j]]
    <2>. HIDE DEF n
    <2>. QED BY <1>2 DEF Sorting, Figures!Bijection, Figures!Injection
  <1>4. o = [i \in 1..n |-> latencies[place[i]]]
    BY DEF Figures!Ordered
  <1>. HIDE DEF n, o, place
  <1>5. o \in [1..n -> Nat]
    BY <1>1, <1>3, <1>4
  <1>6. ASSUME NEW i \in 1..n, NEW j \in 1..n, i < j PROVE o[i] <= o[j]
    BY <1>3, <1>4, <1>6
  <1>7. \A p : Figures!Percentile(p) = Reading(o, (n - 1) * p)
    BY DEF Figures!Percentile, Reading, n, o
  <1>8. /\ (n - 1) * 99 \in 0..((n - 1) * 100)
        /\ (n - 1) * 90 \in 0..((n - 1) * 99) /\ (n - 1) * 90 \in 0..((n - 1) * 100)
        /\ (n - 1) * 50 \in 0..((n - 1) * 90)
    BY <1>1
  <1>9. /\ o[1] * 100 <= Reading(o, (n - 1) * 50)
        /\ Reading(o, (n - 1) * 50) <= Reading(o, (n - 1) * 90)
    BY <1>1, <1>5, <1>6, <1>8, ReadingRises
  <1>10. /\ Reading(o, (n - 1) * 90) <= Reading(o, (n - 1) * 99)
         /\ Reading(o, (n - 1) * 99) <= o[n] * 100
    BY <1>1, <1>5, <1>6, <1>8, ReadingRises
  <1>. QED BY <1>7, <1>9, <1>10 DEF Figures!PercentilesRise, n, o

\* The figures that a process shows agree with each other, however many requests
\* it has counted and wherever its lists were cut.
THEOREM FiguresHold == Spec => []FiguresAgree
  <1>. DEFINE I == Figures!TypeOK /\ SumsOK /\ Figures!ErrorsListed
  <1>1. Figures!Init => I
    <2>. SUFFICES ASSUME Figures!Init PROVE Figures!ErrorsListed
      BY FiguresInit, SumsAtFirst
    <2>1. ErrorsKept \in Nat
      BY ProcessAssumption
    <2>2. /\ Len(errors) = 0 /\ classes["5xx"] = 0 /\ DOMAIN recent = {}
      BY DEF Figures!Init, Figures!Class
    <2>3. Figures!Min({0, ErrorsKept}) = 0
      BY <2>1, LesserOf
    <2>. QED BY <2>2, <2>3 DEF Figures!ErrorsListed
  <1>2. I /\ [Figures!Next]_(Figures!vars) => I'
    <2>. SUFFICES ASSUME I, [Figures!Next]_(Figures!vars) PROVE I'
      OBVIOUS
    <2>1. Figures!TypeOK'
      BY FiguresNext
    <2>2. CASE UNCHANGED Figures!vars
      <3>1. SumsOK'
        BY <2>2 DEF Figures!vars, SumsOK
      <3>2. Figures!ErrorsListed'
        BY <2>2 DEF Figures!vars, Figures!ErrorsListed, Figures!FailedUpTo
      <3>. QED BY <2>1, <3>1, <3>2
    <2>3. ASSUME NEW q \in Route, NEW c \in Figures!Class, NEW d \in Duration,
                 Figures!Record(q, c, d)
          PROVE  I'
      BY <2>1, <2>3, SumsKept, ErrorsKeptInOrder
    <2>. QED BY <2>2, <2>3 DEF Figures!Next
  <1>3. I => FiguresAgree
    BY SumsNamed, PercentilesInOrder DEF FiguresAgree, Figures!FiguresAgree
  <1>4. Figures!Spec => []FiguresAgree
    <2>. HIDE DEF I
    <2>. QED BY <1>1, <1>2, <1>3, PTL DEF Figures!Spec
  <1>. QED BY <1>4, EachRuns, PTL

-----------------------------------------------------------------------------
(* Types.                                                                  *)

\* The tours of a calendar are a bag of instants.
LEMMA DiaryTypes == DiaryInv => Diary!TypeOK
  <1>. SUFFICES ASSUME DiaryInv PROVE Diary!TypeOK
    OBVIOUS
  <1>1. calendar \in Diary!CalendarRow
    BY CalendarAssumption DEF DiaryInv, CalendarRow, Diary!CalendarRow
  <1>2. Diary!IsABag(booked) /\ Diary!BagToSet(booked) \subseteq Int
    BY DEF DiaryInv, Diary!IsABag, Diary!BagToSet
  <1>. QED BY <1>1, <1>2 DEF DiaryInv, Diary!TypeOK

\* The rows and the requests of all components keep their types: enumerated
\* columns keep to their values, bounded lists to their bounds, and what a
\* session remembers is what its statement needs.
THEOREM TypeCorrect == Spec => []TypeOK
  <1>1. Spec => [](Access!TypeOK /\ Desk!TypeOK /\ Codes!TypeOK /\ Tokens!TypeOK /\ Photos!TypeOK)
    BY EachRuns, Rules, Access!Invariant, Desk!Invariant, Codes!Invariant, Tokens!Invariant,
       Photos!Invariant, PTL
       DEF Access!IInv, Desk!IInv, Codes!IInv, Tokens!IInv, Photos!IInv
  <1>2. /\ LinksInv => Links!TypeOK
        /\ FlowsInv => Flows!TypeOK
        /\ ThreadsInv => Threads!TypeOK
        /\ LiveInv => Live!TypeOK
        /\ LimitInv => Limiter!TypeOK
    BY DEF LinksInv, FlowsInv, ThreadsInv, LiveInv, LimitInv
  <1>3. Links!Spec => []Links!TypeOK
    BY <1>2, LinksInit, LinksNext, PTL DEF Links!Spec
  <1>4. Flows!Spec => []Flows!TypeOK
    BY <1>2, FlowsInit, FlowsNext, PTL DEF Flows!Spec
  <1>5. Threads!Spec => []Threads!TypeOK
    BY <1>2, ThreadsInit, ThreadsNext, PTL DEF Threads!Spec
  <1>6. Live!Spec => []Live!TypeOK
    BY <1>2, LiveInit, LiveNext, PTL DEF Live!Spec
  <1>7. Limiter!Spec => []Limiter!TypeOK
    BY <1>2, LimitInit, LimitNext, PTL DEF Limiter!Spec
  <1>8. Diary!Spec => []Diary!TypeOK
    BY DiaryTypes, DiaryInit, DiaryNext, PTL DEF Diary!Spec
  <1>9. Figures!Spec => []Figures!TypeOK
    BY FiguresInit, FiguresNext, PTL DEF Figures!Spec
  <1>. QED BY <1>1, <1>3, <1>4, <1>5, <1>6, <1>7, <1>8, <1>9, EachRuns, PTL DEF TypeOK
=============================================================================
