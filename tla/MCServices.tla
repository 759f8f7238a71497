----------------------------- MODULE MCServices -----------------------------
(***************************************************************************)
(* Instances of the smaller components.  They share no rows, so nothing is *)
(* gained by interleaving them: each behaviour runs one of them, and the   *)
(* variables of the others keep their initial values.  Where a module with *)
(* proofs extends a component, the instance is of that module: what TLC    *)
(* checks here, ServicesProofs proves.                                     *)
(***************************************************************************)
EXTENDS StaffRules, AccountRules, ContentRules, ProcessRules, CalendarRules, TLC

CONSTANTS
  Focus,     \* the components that are explored
  Newcomer,  \* the addresses that sign up, and those with sessions
  Editor     \* the database sessions of those who edit properties

ASSUME NewcomerAssumption == Newcomer # {} /\ Newcomer \subseteq Address

\* Clocks that never change, and clocks that are put forward or back in the
\* middle of a day or at either side of midnight.
MCZones ==
  {[at |-> 0, before |-> 0, after |-> 0]}
    \cup {[at |-> a, before |-> o, after |-> 1 - o] : a \in 6..8, o \in {0, 1}}

MCCalendars ==
  {[zone |-> z, step |-> n,
    hours |-> [d \in 0..1 |-> IF d = 0 THEN {<<0, 3>>} ELSE {<<0, 1>>, <<1, 3>>}],
    blackout |-> b, advance |-> 1, notice |-> n - 1, capacity |-> 3 - n] :
     z \in MCZones, n \in {1, 2}, b \in {{}, {1}}}

MCDefaultCalendar ==
  CHOOSE c \in MCCalendars : c.zone.after = 0 /\ c.zone.before = 0 /\ c.step = 1 /\ c.blackout = {}

VARIABLES
  focus,
  role, active, audit, rolePc, roleReq,
  now, staff, session, deskPc, deskReq,
  codeNow, joined, verified, nin, otp, wrong, codeRaced, codePc, codeReq,
  tokenNow, enabled, confirmed, token, denied, out, tokenPc, tokenReq,
  linkNow, password, link, resets, linkRaced, linkPc, linkReq,
  flowNow, flow, account, linked, tokens, entries, flowRaced, flowPc, flowReq,
  listing, thread, assigned, inboxRaced, inboxPc, inboxReq,
  broker, sent, at, via, reader,
  photoNow, stored, created, catalogue, refs, lock, removed, late, sweep, photoPc, photoReq,
  limitNow, hits, accepted, hint,
  diaryNow, calendar, booked,
  total, classes, stat, latencies, recent, errors

RoleVars == <<role, active, audit, rolePc, roleReq>>
DeskVars == <<now, staff, session, deskPc, deskReq>>
CodeVars == <<codeNow, joined, verified, nin, otp, wrong, codeRaced, codePc, codeReq>>
TokenVars == <<tokenNow, enabled, confirmed, token, denied, out, tokenPc, tokenReq>>
LinkVars == <<linkNow, password, link, resets, linkRaced, linkPc, linkReq>>
FlowVars == <<flowNow, flow, account, linked, tokens, entries, flowRaced, flowPc, flowReq>>
InboxVars == <<listing, thread, assigned, inboxRaced, inboxPc, inboxReq>>
LiveVars == <<broker, sent, at, via, reader>>
PhotoVars == <<photoNow, stored, created, catalogue, refs, lock, removed, late, sweep,
               photoPc, photoReq>>
LimitVars == <<limitNow, hits, accepted, hint>>
DiaryVars == <<diaryNow, calendar, booked>>
FigureVars == <<total, classes, stat, latencies, recent, errors>>

vars == <<focus, RoleVars, DeskVars, CodeVars, TokenVars, LinkVars, FlowVars, InboxVars, LiveVars,
          PhotoVars, LimitVars, DiaryVars, FigureVars>>

Access == INSTANCE StaffRolesProofs WITH pc <- rolePc, req <- roleReq
Desk == INSTANCE AttendanceProofs WITH pc <- deskPc, req <- deskReq
Codes == INSTANCE EmailCodesProofs
  WITH Address <- Newcomer, now <- codeNow, raced <- codeRaced, pc <- codePc, req <- codeReq
Tokens == INSTANCE SessionsProofs
  WITH Address <- Newcomer, now <- tokenNow, active <- enabled, verified <- confirmed,
       pc <- tokenPc, req <- tokenReq
Links == INSTANCE ResetLinks WITH now <- linkNow, raced <- linkRaced, pc <- linkPc, req <- linkReq
Flows == INSTANCE ProviderSignIn
  WITH now <- flowNow, raced <- flowRaced, pc <- flowPc, req <- flowReq
Threads == INSTANCE Inbox WITH raced <- inboxRaced, pc <- inboxPc, req <- inboxReq
Live == INSTANCE LiveDelivery
Photos == INSTANCE MediaSweepProofs
  WITH Handler <- Editor, now <- photoNow, listing <- catalogue, pc <- photoPc, req <- photoReq
Limiter == INSTANCE RateLimiter WITH now <- limitNow
Diary == INSTANCE SlotCalendar WITH now <- diaryNow
Figures == INSTANCE RequestMetrics

Init ==
  /\ focus \in Focus
  /\ Access!Init
  /\ Desk!Init
  /\ Codes!Init
  /\ Tokens!Init
  /\ Links!Init
  /\ Flows!Init
  /\ Threads!Init
  /\ Live!Init
  /\ Photos!Init
  /\ Limiter!Init
  /\ Diary!Init
  /\ Figures!Init

\* Of all components, only c takes a step.
Only(c) ==
  /\ focus = c
  /\ UNCHANGED focus
  /\ IF c = "roles" THEN TRUE ELSE UNCHANGED RoleVars
  /\ IF c = "attendance" THEN TRUE ELSE UNCHANGED DeskVars
  /\ IF c = "codes" THEN TRUE ELSE UNCHANGED CodeVars
  /\ IF c = "tokens" THEN TRUE ELSE UNCHANGED TokenVars
  /\ IF c = "links" THEN TRUE ELSE UNCHANGED LinkVars
  /\ IF c = "providers" THEN TRUE ELSE UNCHANGED FlowVars
  /\ IF c = "inbox" THEN TRUE ELSE UNCHANGED InboxVars
  /\ IF c = "delivery" THEN TRUE ELSE UNCHANGED LiveVars
  /\ IF c = "photos" THEN TRUE ELSE UNCHANGED PhotoVars
  /\ IF c = "limiter" THEN TRUE ELSE UNCHANGED LimitVars
  /\ IF c = "calendar" THEN TRUE ELSE UNCHANGED DiaryVars
  /\ IF c = "figures" THEN TRUE ELSE UNCHANGED FigureVars

Next ==
  \/ Only("roles") /\ Access!Next
  \/ Only("attendance") /\ Desk!Next
  \/ Only("codes") /\ Codes!Next
  \/ Only("tokens") /\ Tokens!Next
  \/ Only("links") /\ Links!Next
  \/ Only("providers") /\ Flows!Next
  \/ Only("inbox") /\ Threads!Next
  \/ Only("delivery") /\ Live!Next
  \/ Only("photos") /\ Photos!Next
  \/ Only("limiter") /\ Limiter!Next
  \/ Only("calendar") /\ Diary!Next
  \/ Only("figures") /\ Figures!Next

Spec == Init /\ [][Next]_vars

\* No module tells one database session from another.
Symmetry == Permutations(Handler)

FairSpec ==
  /\ Spec
  /\ focus = "attendance" => Desk!Fairness
  /\ focus = "photos" => Photos!Fairness
-----------------------------------------------------------------------------
\* The types of every component's rows and requests.
TypeOK ==
  /\ Access!TypeOK
  /\ Desk!TypeOK
  /\ Codes!TypeOK
  /\ Tokens!TypeOK
  /\ Links!TypeOK
  /\ Flows!TypeOK
  /\ Threads!TypeOK
  /\ Live!TypeOK
  /\ Photos!TypeOK
  /\ Limiter!TypeOK
  /\ Diary!TypeOK
  /\ Figures!TypeOK

\* The last-admin guard works for a request that no other change races.
KeepsAdmin == Access!KeepsAdmin

\* A change that is answered 200 is in force.
ChangeTakesHold == Access!ChangeTakesHold

\* A closed session is never opened again.
ClosedStaysClosed == Desk!ClosedStaysClosed

\* One open session per user, unless two clock-ins race.
OneOpenSession == Desk!OneOpenSession

\* What is written to a record agrees with itself.
DurationMatches == Desk!DurationMatches

\* A forgotten session is closed in the end.
ForgottenIsClosed == Desk!ForgottenIsClosed

\* Wrong guesses at a code are counted, up to the limit.
GuessesCounted == Codes!GuessesCounted

\* An address is verified by the code that is in force.
VerifiedByItsCode == Codes!VerifiedByItsCode

\* Who has signed out stays out.
OutIsDenied == Tokens!OutIsDenied

\* A token is exchanged for one new token, unless two refreshes race.
ExchangedOnce == Tokens!ExchangedOnce

\* A link sets a password once, unless two resets race.
ResetOnce == Links!ResetOnce

\* A provider's identity always signs in to the same account.
SameAccountAgain == Flows!SameAccountAgain

\* One thread per property and guest, and what is listed can be opened.
OneThread == Threads!OneThread

\* A reader who is subscribed misses no message.
NothingMissed == Live!NothingMissed

\* The sweep takes no photo of a property.
SweepSparesAttached == Photos!SweepSparesAttached

\* A photo that nobody references is destroyed in the end.
OrphanIsSwept == Photos!OrphanIsSwept

\* A process accepts no more than the rule allows.
WithinLimit == Limiter!WithinLimit

\* The calendar shows as free what it accepts; computed only where it moves.
OfferedIsBookable == focus = "calendar" => Diary!OfferedIsBookable

\* The figures of a process agree with each other.
FiguresAgree == Figures!FiguresAgree
=============================================================================
