SPECIFICATION Spec

CONSTANTS
  Focus = {"roles", "attendance", "codes", "tokens", "links", "providers", "inbox",
           "delivery", "photos", "limiter", "calendar", "figures"}
  Handler = {h1, h2}
  MaxTime = 2
  NoRow = NoRow
  Unset = Unset
  Person = {p1, p2}
  Founder = p1
  Employee = {p2}
  Session = {s1, s2}
  Limit = 1
  Corrections = {1}
  Address = {a1, a2}
  Newcomer = {a1}
  Editor = {h1, h2}
  Nin = {n1}
  Code = {c1, c2}
  MaxAttempts = 2
  Ttl = 1
  Link = {l1, l2}
  Flow = {f1}
  Identity = {i1}
  Original = Original
  Token = {t1, t2}
  Life = 1
  RenewAfter = 1
  Property = {x1}
  Account = {u1}
  Email = {e1, e2}
  Thread = {v1, v2, v3}
  Asset = {m1}
  Grace = 1
  Worker = {w1, w2}
  Sender = {g1, g2}
  Reader = {r1}
  Posts = 2
  Count = 2
  Window = 2
  Route = {q1, q2}
  Duration = {1, 4}
  SampleSize = 3
  RecentSize = 3
  ErrorsKept = 2
  Requests = 4
  DayLength = 4
  Week = 2
  Calendars <- MCCalendars
  DefaultCalendar <- MCDefaultCalendar
  Horizon = 9
  MaxTours = 2

SYMMETRY Symmetry

INVARIANTS
  TypeOK
  GuessesCounted
  OutIsDenied
  ResetOnce
  SameAccountAgain
  OneThread
  NothingMissed
  SweepSparesAttached
  WithinLimit
  FiguresAgree
  OfferedIsBookable

PROPERTIES
  KeepsAdmin
  ChangeTakesHold
  ClosedStaysClosed
  OneOpenSession
  DurationMatches
  VerifiedByItsCode
  ExchangedOnce

CHECK_DEADLOCK FALSE
