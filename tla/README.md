# Zent bookings backend: a verification project in TLA+

This directory models the behaviour of the backend in `src/` (FastAPI, async
SQLAlchemy 2, PostgreSQL, Paystack), model-checks it with TLC on small instances
and proves its main invariants with TLAPS for instances of any size.  All line
numbers refer to files under `src/`.

## 1. The system

The server runs `WEB_CONCURRENCY` (default 2) uvicorn workers.  Each request is a
coroutine with a database session of its own (`app/core/database.py:15-26`);
coroutines of one worker interleave at every `await`, those of different workers
anywhere.  A session reads committed rows (READ COMMITTED), remembers the objects
it loaded (`expire_on_commit=False`), writes changed columns by primary key when it
flushes, holds the row locks from the flush to the commit, and rolls back on an
exception or a lost connection.  Every worker also runs the maintenance loop
(`app/services/maintenance.py:119-127`).  No code of bookings or payments takes a
lock before it tests a status; the tours' slot check is the one place that does
(`FOR UPDATE` on the schedule row).

### Inventory

| Component | State | Operations | Interacts with | Hard behaviour | What makes it correct |
|---|---|---|---|---|---|
| Bookings and availability (`services/booking_service.py`, `routes/bookings.py`) | `bookings` | create, guest cancel, account cancel, expire; list, lookup, blocked dates (read-only) | payments (started in the create request), audit, mailer, maintenance | create commits before the payment exists; cancel, expire and settle write one row from stale reads | a confirmed stay is paid for; a cancelled one stays cancelled; no two confirmed stays share a night |
| Payments (`services/payment_service.py`, `routes/payments.py`, `services/paystack.py`) | `payments` | initiate, settle, fail | Paystack (redirect, webhook), bookings, wallet, mailer | duplicated, overlapping, reordered webhooks; a worker that dies before it answers | settled once, credited with the confirmation, nothing forgotten |
| Owner wallet (`services/wallet_service.py`, `routes/staff.py:89-98`) | `wallets`, `wallet_transactions` | get or create, credit, (debit: no caller) | payments, dashboard | read-modify-write of the balance; concurrent first insert | running balance; wallet agrees with the ledger |
| Maintenance (`services/maintenance.py`, `main.py:32-43`) | none | purge expired tokens, close stale attendance, expire bookings, prune audit, sweep media | every table with an expiry, Cloudinary | passes of several workers overlap each other and the requests | takes only what is really stale; nothing stays stale for ever |
| Tours and scheduling (`services/tour_service.py`, `services/scheduling.py`) | `tours`, `property_schedules` | create, confirm, cancel, reschedule, edit the schedule, list what is free | properties, mailer | capacity is counted under a lock on a schedule row that may be missing; edits change the row under way; confirm races cancel; the listing and the check of a slot count tours separately, over days that a change of the clocks makes longer or shorter | no booking or reschedule fills a slot beyond the capacity its schedule has at that moment; what is shown as free is accepted |
| Identity (`services/auth_service.py`, `oauth.py`, `routes/auth.py`, `api/deps.py`, `core/security.py`) | `users`, `email_otps`, `password_reset_tokens`, `oauth_states`, `oauth_accounts`, `token_denylist` | register, verify, resend, log in, authenticate, renew, refresh, log out, forgot and reset password, sign in through Google or Apple | mailer, providers, rate limiter, maintenance | codes, links, states and the denylist are read, then written; attempt counter; the purges take rows away in between | a code is accepted while it is in force and its guesses are counted; who signed out stays out; a link works once; an identity always gets the same account |
| Staff roles (`services/staff_service.py`, `routes/admin.py`) | `users.role/is_active`, `property_agents` | set role, set status, invite, assign | identity, audit | "is there another admin" is a count before a write | an active admin remains |
| Attendance (`services/attendance_service.py`) | `staff_attendance` | clock in, clock out, edit, close stale | maintenance | check-then-insert; auto-close races clock-out | one open session per user |
| Messaging (`services/messaging_service.py`, `pubsub.py`, `routes/messaging.py`) | `conversations`, `messages`, subscriptions | open or reuse a thread, list, read, post, subscribe, relay | Redis or an in-process broker; assignments of agents | check-then-insert; commit before publish; accept before subscribe; a worker falls back to its own broker | one open thread per guest and property; who is subscribed before reading the history misses no message |
| Properties and media (`services/property_service.py`, `media.py`, `routes/media.py`) | `properties`, `property_agents`, Cloudinary assets | create, update, delete, restore, purge, assign, upload, destroy, sweep | maintenance, tours, messaging | the sweep reads the references, lists the store and destroys; photos are attached meanwhile; requests destroy before they commit | the sweep destroys no referenced photo, and every other one in the end |
| Rate limiting (`core/ratelimit.py`) | per-process windows | hit | every public route | what leaves the window, and the hint rounded down | at most n hits per window and process; the hint is right |
| Observability (`core/observability.py`, `routes/observability.py`) | per-process counters and bounded lists | record, snapshot | every request | bounded lists beside unbounded counters; interpolation | the figures agree with each other |
| Dashboard, e-mail, NIN check, configuration, schemas, migrations, scripts | none of their own | reads, formatting, I/O | - | - | not modelled: no behaviour over time |

PROJECT.json lists the same components with their status, and every hazard of the
code with its line and the properties that watch it.  Where a property leaves out part of
a hazard (requests that overlap, through `Apart`, `raced`, `fresh` or `late`; traffic that its run does
not have), the hazard's note says which part, and what the code does there.

## 2. Modules

| Module | Models | Size of the state |
|---|---|---|
| `Stays` | what a booking request fixes: property, dates, price, fee (`round`, half to even), overlap of two stays | constants only |
| `BookingLedger` | the promise of the booking, payment and wallet services: one atomic step per operation on the committed rows | rows, age, charges |
| `BookingPayments` | the same operations as the handlers run them, one step per statement between two awaits that touches the database | rows, sessions (`pc`, `req`), webhooks, notices |
| `BookingClaims` | what the documentation says, liveness, `Atomic == INSTANCE BookingLedger` and the condition under which it is implemented (`Apart`) | extends `BookingPayments` |
| `BookingPaymentsProofs` | the inductive invariants, the refinement of `BookingLedger` and the theorems | extends `BookingClaims` |
| `TourRules` | what tours and schedule rows are made of | constants only |
| `TourBook` | the promise of the tour desk: one atomic step per operation | schedule row, tours |
| `TourSlots` | the same operations as the handlers run them, with the lock of the schedule row, the insert of a missing one, and the tours' row locks | rows, sessions |
| `TourClaims` | `Promise == INSTANCE TourBook`, the promise as a property, and the condition under which it is kept (`CancelledAlone`) | extends `TourSlots` |
| `TourSlotsProofs` | the inductive invariants, the refinement of `TourBook` and the theorems | extends `TourClaims` |
| `ServiceRules` | the constants that all smaller components share: sessions, clock, absent values | constants only |
| `StaffRules`, `AccountRules`, `ContentRules`, `ProcessRules` | what the rows of staff, of accounts, of the catalogue and the inbox, and what a server process keeps to itself are made of, with the bounds | constants only |
| `StaffRoles` | role and status changes with the last-admin guard, invitations, the role script | users, audit, sessions |
| `Attendance` | clock-in, clock-out, corrections, the auto-close pass | records, clock, sessions |
| `EmailCodes` | sign-up, verification by a mailed code, resend, the purge of codes | accounts, codes, clock, sessions |
| `Sessions` | authentication of a request, renewal, refresh, logout, the denylist and its purge | tokens, denylist, clock, sessions |
| `ResetLinks` | forgotten and reset passwords, invitations' links, their purge | links, passwords, clock, sessions |
| `ProviderSignIn` | sign-in through Google or Apple: states, identities, accounts | states, links, accounts, clock, sessions |
| `Inbox` | threads of guests on properties, assignment of agents, deletion and restoring of properties | threads, assignments, sessions |
| `LiveDelivery` | storing, publishing and relaying of one conversation's messages | brokers of the workers, publications, sockets |
| `MediaSweep` | photos: upload, attachment, clean-up, the orphan sweep | store, properties, pass, clock, sessions |
| `RateLimiter` | one rule's sliding window in each process | hits, clock |
| `CalendarRules` | what a schedule row is made of, with the bounds | constants only |
| `SlotCalendar` | which slots a schedule opens, lists as free and accepts, in local time | clock, schedule row, tours |
| `RequestMetrics` | the counters, samples and lists of one process, and the percentiles | counters, lists |
| `StaffRolesProofs`, `AttendanceProofs`, `EmailCodesProofs`, `SessionsProofs`, `MediaSweepProofs` | the inductive invariants and the theorems | each extends its component |
| `MCBookingPayments`, `MCTourSlots` | the instances TLC checks | |
| `MCServices` | the smaller components side by side: they share no rows, so each behaviour picks one of them (`focus`) and their state spaces add up instead of multiplying | all twelve components |
| `ServicesProofs` | that the composition implements its components, and so keeps what is proved of the five with proof modules; and the invariants of the seven others | extends `MCServices` |

`Stays` <- `BookingLedger`, `Stays` <- `BookingPayments` <- `BookingClaims`
<- `MCBookingPayments`; `BookingClaims` instantiates `BookingLedger` on the rows of
`BookingPayments` (same variable names, so the refinement mapping is the identity).  In the same way
`TourRules` <- `TourBook`, `TourRules` <- `TourSlots` <- `TourClaims` <- `MCTourSlots`.
`ServiceRules` <- `StaffRules` <- `StaffRoles`, `Attendance`; `ServiceRules` <- `AccountRules`
<- `EmailCodes`, `Sessions`, `ResetLinks`, `ProviderSignIn`; `ServiceRules` <- `ContentRules` <-
`Inbox`, `MediaSweep`; `ServiceRules` <- `ProcessRules` <- `LiveDelivery`, `RateLimiter`,
`RequestMetrics`; `CalendarRules` <- `SlotCalendar`.  `MCServices` instantiates all twelve, those that have proofs through their
proof modules, and `ServicesProofs` extends it.

### How the state and the actions correspond to the code

* `status`, `payment`, `balance`, `ledger`, `wallets`, `audit` are the committed rows:
  `bookings.status`, `payments.status`, `wallets.balance`, `wallet_transactions`, which
  `wallets` rows exist, and the bookings with a `booking.cancel` audit row.  `"NONE"`
  is a row not inserted.  `ACTIVE` and `COMPLETED` are left out: no code assigns them.
* `req[h]` is what a session remembers (the status columns as loaded, the balance as
  loaded and then incremented, the batch of a sweep); `pc[h]` names its next statement.
  What a handler has written and not committed, and therefore locks, follows from the
  two (`WritesPayment`, `WritesBooking`, `WritesWallet`).
* `POST /bookings`: `CheckDates`, `InsertBooking` (first commit), `InsertPayment` or
  `RefusePayment` (second commit or failure).
* webhook, `charge.success`: `Receive`, `GetBooking`, `FlushStatus` (the autoflush of
  the next `db.get`), `GetWallet`, `InsertWallet`, `UpdateWallet`, `CommitSettlement`,
  `Respond`.  Other events: `FlushFailed`, `CommitFailed`, or `IgnoreFailed`.
* cancellation: `ReadForCancel`, `FlushCancel`, `CommitCancel`, `MailCancel`.
* the sweep: `ReadExpired`, `FlushExpired`, `CommitExpired`.
* `GET /staff/wallet` of an owner without a row: `LookAtWallet`, `InsertWallet`,
  `CommitWallet`.
* `Crash(h)` stands for every way a session ends without a commit.
* `GuestPays`, `AttemptDeclined`, `Age` are the world: Paystack charges a reference at
  most once, declines some attempts first, and repeats an event until it has been
  answered 200; time passes.

Tours (`TourSlots`), for the tours and the schedule row of one property:

* `schedule`, `status`, `slot` are the committed rows; `open` of a schedule row is the
  set of slots that its hours, slot length, time zone, blackout dates and window open;
  `soon` are the slots inside the notice period; `audit` the `tour.*` audit rows.
  `revived` is a history variable: cancelled tours that a confirmation brought back.
* `POST /tours`: `AskForTour`, `LockSchedule` (`SELECT ... FOR UPDATE`) or, without a row,
  `InsertSchedule` / `ScheduleExists` (IntegrityError), `AcceptSlot` or `RefuseSlot` (the
  count), `CommitTour`.
* `PATCH /tours/{id}`: `ReadForMove`, `FlushLead` (changed lead fields are flushed by the
  next query, before the lock), the same lock and count, `CommitMove`; or `ReadForNote`,
  `SaveNote`.
* confirm and cancel: `ReadForConfirm`, `SaveConfirm` or `ConfirmAgain`; `ReadForCancel`,
  `SaveCancel`.  They update the tour by primary key and take no schedule lock.
* `PUT /properties/{id}/schedule`: `ReadSchedule`, `WriteSchedule` (changed columns only).
  `GET .../availability` and `.../schedule` create a missing row as well and commit it: the
  edit that changes nothing.
* A last flush is one step with its commit; PostgreSQL's deadlock detection is
  `BreakDeadlock`, every other lost session `Crash`.

The calendar (`SlotCalendar`), for one property: times are numbers of units, a date is a local time
divided by `DayLength`, and a zone changes its offset once.  `ToUtc` is `local_to_utc`, `SlotTimes`
`slot_times_for_date`, `DateInWindow` `_date_in_window`, `Availability` and `Resolves` are `availability`
and `resolve_and_validate_slot`; the actions book, cancel, edit the schedule and let time pass.
Each request is one step here: how requests overlap is in `TourSlots`.

Staff (`StaffRoles`), for the `users` rows:

* `role` (`"NONE"`: no account), `active` and `audit` are the committed rows.  `self` of a
  request says that the target is the caller, whose row the session has had since
  `get_current_user`; `fresh` is a history variable, TRUE as long as no other change of a
  user has been committed since the row was read.
* `PATCH /admin/users/{id}/role` and `/status`: `Authorize`, `LoadUser` or `UserNotFound`,
  `CountAdmins` or `LastAdmin` (only when an active admin is taken away), `CommitChange`.
* `POST /admin/agents/invite`: `ReadForInvite`, `CommitInvite` or `AlreadyJoined` (unique
  e-mail).  `SignUp` is registration with verification; `GrantRole` the script.

Attendance (`Attendance`), for the `staff_attendance` rows:

* `session[s]` is a row with `in`, `out`, `minutes`, `auto`; one hour of the clock is one
  unit, of the duration too.  `seen` and `new` of a request are the rows as loaded and as
  assigned; an UPDATE writes the columns in which they differ (`Written`).
* `POST /staff/clock-in`: `ReadForClockIn` (`open_session` finds none), `InsertSession`.
  `POST /staff/clock-out`: `ReadForClockOut`, `Save`.  `PATCH /admin/attendance/{id}`:
  `ReadForEdit` (with the check of the two times), `Save`.
* `close_stale`: `ReadStale`, `FlushClose`, and `CommitClose` after the transaction has also
  dealt with the bookings; between the two the rows are locked.
* `Dismiss` takes the staff role away from a user, whose session then stays open.

In all account modules `pc[h]` and `req[h]` are a request's session as before, `fresh` is a
history variable (what the request read has not been written since), and `raced` collects the
rows that were written from a reading that was not fresh; a clock of a few seconds stands for
TTLs and lifetimes.

Codes (`EmailCodes`): `otp[a]` is the row of `email_otps`, `wrong` counts in history the wrong
guesses answered since it was issued.  `POST /auth/register` and `/auth/register-agent`:
`ReadForRegister`, `Register` or `TakenMeanwhile`; `/auth/resend-otp`: `ReadForResend`,
`ReadOldCode`, `IssueOtp`; `/auth/verify-otp`: `ReadForVerify`, `Judge` or `Refuse`, then `Confirm`
or `CountGuess`; `RowChanged` is an UPDATE that finds no row or an INSERT that finds one.

Tokens (`Sessions`): the server keeps nothing of a token; `token` is what clients hold, `denied`
the denylist, `out` the tokens whose logout or refresh was answered.  The dependency:
`Present` (signature and expiry), `Accept` (denylist), `LoadUser` with the renewal,
`Unauthorized`.  `/auth/refresh`, `/auth/logout`: `ReadClaims` (the token is decoded again) or
`SignedOutByExpiry`, `NotDeniedYet` or `DeniedAlready`, `Deny` or `DeniedMeanwhile`.

Links (`ResetLinks`): `Mail`, `ReadLink`, `ResetPassword` or `LinkGone`; a link's state says whether
its row is there.  Providers (`ProviderSignIn`): `Start`; the callback's `ReadState`, `Consume` or
`StateExpired`, `FetchProfile`, `FindByEmail`, `Connect` or `Enter`, `TakenMeanwhile`, `GiveUp`.

Inbox (`Inbox`): `ReadProperty`, `ReuseThread` or `NoThread`, `InsertThread`; `ReadAssignment`,
`Assign`, `Unassign`; `Listed` and `CanAccess` are the queries of the listing and of the single
thread.  Delivery (`LiveDelivery`): `broker[w]` is what the worker has chosen (`ChooseBroker`);
`Post` is the commit and `Publish` or `PublishFails` what follows it; a socket goes through `Accept`,
`Subscribe`, `ReadHistory` (a request of the client, at any time), `Relay`, `PumpStops`, `Disconnect`.
`via[m]` says on which bus a message went out, or that it was lost.

Photos (`MediaSweep`): `Upload`, `DeleteMedia`, `Create`; update and purge are `Load`, `Flush`,
`CleanUp` once per photo, `Commit`; a pass is `StartPass` (references and cutoff), `ListStore` (which may
end early), `Sweep` or `SweepFails` once per photo, `EndPass` or `PassDies`.  `removed` and `late`
are history: photos a request has destroyed, and photos attached when their grace period was over.

`RateLimiter!Accept` and `Refuse` are `SlidingWindowLimiter.hit`, `RequestMetrics!Record` is
`Metrics.record` and `Percentile` the interpolation, in hundredths.

Statements that only read rows no action writes (the listing, the guest's account)
are folded into their neighbours; a request refused before it writes anything leaves
no trace and is not a step.  One wait for several row locks (a sweep) is one step: the
sweep and the settlement lock rows in a fixed order, so a partial wait reaches no other
outcome.

## 3. Runs

The booking runs use one instance: `b1` and `b2` share a night in one
listing of `o1`, `b3` is for a listing without creator.  Totals are 5 and 10 naira, the
fee 10%, so the credits are 5 (0.5 rounds to the even 0) and 9.

| Run | Bounds | Question and answer |
|---|---|---|
| `overlapping` | 1 booking, 2 handlers, 1 crash, all traffic | What survives any interleaving: no confirmation without charge and credit, no credit without charge, wallet row = last `balance_after`, no settled payment uncredited, notices only for charged guests.  All hold. |
| `apart` | 2 bookings, 2 handlers, 1 crash, all traffic, column limit 14; requests that overlap are about different bookings, owners and nights | The handlers implement `BookingLedger`: a repeated webhook credits once, the balance runs, a payment that succeeded stays so and an audited cancellation is final.  All hold; the two credits of 5 and 9 fill the column exactly. |
| `retries` | 1 booking, 2 handlers, 2 crashes, fair | Requests end; a charge is eventually confirmed when nobody cancels. |
| `sweeps` | 1 booking of a listing without creator, 2 handlers, 1 crash, fair | An abandoned checkout is eventually resolved. |
| `tour_slots` | 2 tours, 2 slots, 2 handlers, capacity 1 or 2, row missing or present; create, reschedule, confirm, guest cancel | No placing of a tour overfills a slot, whatever overlaps.  Holds; tours that a confirmation revives are not counted as placed. |
| `shared_slots` | as before, with schedule edits, guests who cancel and tours that are confirmed; no tour is cancelled while it is being confirmed or moved | Every placing follows the schedule as committed at that moment, and the handlers implement `TourBook`: the lock does serialise them.  Both hold. |
| `tour_requests` | 1 tour, 2 handlers, all kinds of request, fair | Late confirmations are audited, PENDING never returns; requests end, the deadlock of two reschedules included.  Both hold. |
| `services` | 2 handlers, clock 0..2; the other bounds are below | What twelve components guarantee without locks.  All hold. |
| `services_live` | 1 record, 1 photo, 1 property, 2 handlers (1 for photos), clock 0..3, fair | A forgotten session is closed, an orphaned photo is destroyed in the end.  Both hold. |
| `double_credit`, `double_booking`, `sweep_race` | see their cfg | One documented claim each, which the code does not keep; the findings quote the text. |

What `services` asks of each component:

| Component | Bounds | Question |
|---|---|---|
| `StaffRoles` | 2 people | The guard keeps an admin, and a change is in force, unless another change races the request. |
| `Attendance` | 1 employee, 2 records, limit 1, one correction | A record is never reopened and agrees with itself unless it was changed under the request; one open session unless two clock-ins race. |
| `EmailCodes` | 1 address, 2 codes, 2 attempts, TTL 1 | The counter equals the wrong guesses answered and stops at the limit; an address is verified by the code in force. |
| `Sessions` | 1 account, 2 tokens, lifetime 1 | A token signed out or exchanged is denied as long as it decodes, whatever the purge does; it is exchanged once unless two refreshes race. |
| `ResetLinks` | 2 accounts, 2 links, TTL 1 | A link that has set a password is spent, through purges; it works once unless two resets race. |
| `ProviderSignIn` | 2 addresses, 1 state, 1 identity | An identity always gets the same account, whatever address the provider returns; a state leads to one token unless two callbacks race. |
| `Inbox` | 1 property, 1 account, 2 addresses, 3 threads | One thread per guest unless two first messages race, through deletion, restoring and purge; what a role lists it may open. |
| `LiveDelivery` | 2 workers, 2 senders, 1 socket, 2 messages | A socket subscribed before its client read the history misses nothing published on its bus, and gets each sender's messages once and in order. |
| `MediaSweep` | 1 property, 1 photo, 2 sessions, grace 1 | The sweep destroys no photo that was attached within its grace period. |
| `RateLimiter` | 2 processes, 2 hits in 2 seconds | Never more than 2 in any window, and the hint is right. |
| `SlotCalendar` | days of 4 units, a week of 2, 7 zones, 2 slot lengths, one day closed or not, 2 tours, clock 0..9 | What the calendar shows as free is what it accepts, for every range of dates; the wall clock shows each slot's date and time, and no two slots are one instant. |
| `RequestMetrics` | 2 routes, 3 classes, 2 durations, 4 requests, lists of 3 and 2 | Counters, lists and percentiles agree. |

Why the bounds are enough: the races are between two sessions over one payment, one
booking, one wallet row or one schedule row, so two handlers reach each of them.  Two
bookings are needed for double booking and for competing stays, and one is enough where
the property is about one booking; two credits of one wallet meet in
`apart`, one after the other, and overlap in the proofs, which drop all bounds.  Two tours fill a slot of capacity 1 or 2,
and `Approach` lets the notice period begin for one slot of two.  A crash can strike
between any two statements; `MaxCrashes` only bounds how often.  `IntMax` is small so
that a second credit of one booking overflows the column (9) or that two credits just
fit (14).  For staff, two people are an admin and the one admin left; two
records are what two racing clock-ins leave, and the clock runs just past the limit, so
that a record is open, then stale, and can be corrected in both states.  For the other services two
sessions are a race, a second token is what a refresh or a renewal issues, two addresses are
what a provider can return on two sign-ins, three threads are two that race and one more, and
a grace period of 1 within a clock of 2 lets a photo be attached in time, late, and during a
pass.  Two workers are one on Redis and one on its own broker, or two apart.  Four requests
overflow both lists and the sample.  The zones put
their clocks forward or back in the middle of a day, at its end and at midnight, and the clock of the
calendar passes the change.  Deadlock checking is off: a model in which everybody has been served
and every event answered really stops; that no request hangs is the property
`RequestsFinish`.  The runs with two handlers and no liveness use symmetry of handlers,
which nothing distinguishes (`services` keeps the sessions of `MediaSweep`, `Editor`, in the same set,
so that one permutation moves all).

### Fairness

`FairSpec` assumes that accepted requests go on (`SF` on `Continues(h)`: PostgreSQL
queues the waiters of a row lock, so a statement that can run again and again does run),
that Paystack repeats an event until it is answered (`SF` on `Redeliver`, which may
find all handlers busy), that the maintenance loop comes round (`SF` on `Sweep`;
`cleanup_loop` survives failing passes) and that bookings age (`WF`).  Guests and owners
need never act.  `TourSlots!FairSpec` assumes `SF` on `Continue(h)` only, with
PostgreSQL's deadlock detection among the continuations; no user need ever act.
`Attendance!Fairness` assumes that the maintenance loop comes round (`SF` on `ReadStale`),
that not every pass fails (`SF` on `Save`, `FlushClose` and `CommitClose`: a session may be
lost, but not each time) and that time passes; nobody need ever clock out or correct.
`MediaSweep!Fairness` assumes that the loop starts and ends its passes and that time passes
(`WF`), and that the store, asked again and again, answers: its whole listing and each
`destroy` are `SF`.  `cleanup_loop` catches what a pass raises, and `run_cleanup_once` what the
sweep raises, so a failure only delays the next attempt.  In `services_live` each component's
fairness is required of the behaviours that explore it.  Crashes are never fair.

## 4. Proofs

`BookingPaymentsProofs` proves, from `StaysAssumption` and `HandlersAssumption` only,
that `IInv` is inductive: `InitIInv`, `NextIInv` (one lemma per action) and
`Invariant == Spec => []IInv`.  The checked properties are not inductive by themselves.
`IInv` adds what the sessions know:

* `RequestOK`: each program point's facts about its request, e.g. a session that is
  crediting saw the booking pending and credits the owner of its listing;
* `RowsOK` and `InsertsOK`: rows exist before something refers to them, one handler
  inserts a booking;
* `SnapshotOK`: a status read may be stale, but a session that read `CONFIRMED` knows
  the credit is in the ledger, and one that read `CANCELLED` knows that the booking is
  still cancelled or credited: it is this part that makes `NoCreditForgotten` hold;
* `WalletOK`: row locks and the primary key make the writers of a wallet row exclusive,
  and a row being inserted is not committed: this part makes `BalanceIsLastAfter` hold
  although the balance itself may be computed from a stale read.

The theorems derive `TypeOK`, `ConfirmedIsCredited`, `CreditsAreEarned`,
`BalanceIsLastAfter`, `NoCreditForgotten`, `NoticeIsPaid` and the action property
`NeverPendingAgain` (which no run checks: a booking that left PENDING_PAYMENT never returns to it) from it, for any number of bookings, owners, listings, handlers and
crashes and any prices and fee.

The same module proves that the handlers implement `BookingLedger` (`LedgerImplemented`, `ApartSpec =>
ImplementsLedger`).  They do not in general: `double_credit` shows a booking that
overlapping confirmations credit twice.  `Apart` is a condition that rules such overlaps out: two requests
in flight are not about the same booking, do not credit the same owner, and do not take nights that a
booking being inserted asks for.  Requests about different rows overlap freely, and crash.  A behaviour with one handler
satisfies it always (`OneHandlerApart`).  The proof adds to `IInv` that what a session has read is still
what is committed (`AInv`, `InvariantApart`), and then shows of each action that it stutters or is, at its
commit, the atomic operation: a request that reads `PENDING_PAYMENT` and commits later settles the row
that it read.  `AuditedIsCancelled` follows from `AInv`; `CreditedOnce`, `RunningBalance` and
`SuccessIsFinal` are proved of `BookingLedger` alone (`LedgerKept`, by an invariant of five conjuncts) and
hold of the handlers because these implement it.

`TourSlotsProofs` does the same for the tours, from `TourRulesAssumption` and
`TrafficAssumption`.  Its invariant joins `TypeOK` with

* `RequestOK`: what each program point knows of its request;
* `CreatesOK`: a tour not yet committed is known to one handler only;
* `LockOK`: at most one handler holds the schedule row, or is inserting it;
* `FreshOK`: the holder knows the row as committed, or that there is none; this is what
  makes the handlers follow the schedule of the moment (`BookedAsOffered`);
* `RoomOK`: a slot that was accepted keeps its room until the commit.  Confirmations,
  cancellations and other bookings may come between; the lock stops the last, and the
  others never place a tour.  This part makes `PlacedWithinCapacity` hold.

It yields `TypeOK`, `PlacedWithinCapacity`, `BookedAsOffered` and `ConfirmedByStaff`
for any number of tours, slots, handlers, crashes and schedule edits.

`PromiseKept` is the refinement: `CalmSpec => ImplementsTourBook`.  `CancelledAlone` says that no tour is
being cancelled by one request while another confirms or moves it; without it the confirmation may
revive a cancelled tour (section 5), which no atomic operation does.  Everything else overlaps: bookings of one
slot, reschedules, notes, confirmations, schedule edits, two inserts of the missing row.  The invariant `CInv` adds to
`IInv` that the tour of a request past its check is still active (`CalmOK`).  Where nobody cancels, the
condition is void and the theorem holds of `Spec` (`PromiseKeptUncancelled`).

`StaffRolesProofs` proves `KeepsAdmin` and `ChangeTakesHold` from `StaffRulesAssumption`.
Its invariant joins `TypeOK` with `LoadedOK` (a loaded user exists), `SeenOK` (while `fresh`,
the columns loaded are the committed ones) and `CountedOK` (while `fresh`, the admin who was
counted is still one).

`AttendanceProofs` proves `ClosedHasDuration`, `ClosedStaysClosed`, `OneOpenSession` and
`DurationMatches`, from `StaffRulesAssumption` and `NoRowAssumption`.  Its invariant joins
`TypeOK` and `ClosedHasDuration` with

* `InsertOK`: the row a clock-in inserts is open and known to nobody else;
* `UpdateOK`: the columns assigned to a loaded row are closed together, keep the mark, and
  never set back an end; what was loaded as closed is still closed.  Since an UPDATE writes
  changed columns only, `out` and `minutes` always go from NULL to a value together: this is
  why no interleaving separates them;
* `FreshOK`: while `fresh`, the rows loaded are the committed ones, and a clock-in's user
  has no open session.

`EmailCodesProofs` proves `GuessesCounted` and `VerifiedByItsCode` from `AccountAssumption` and
`NoAccountRow`.  Its invariant says that a request whose reading is `fresh` holds the row as it
is committed, that a guess is being confirmed or counted only against a row that was in
force, and that a code no race has touched has the counter of the wrong guesses.

`SessionsProofs` proves `OutIsDenied` and `ExchangedOnce` from the same assumptions.  The invariant
adds of each request that, while `fresh`, its token is not on the denylist once that was read, and
that after `ReadClaims` no logout or refresh of the token has been answered.  A purge cannot make an
overlapping refresh count twice: it takes a row only when the token is past its `exp`, and
`ReadClaims` decodes the token a second time, after the denylist was read.

`MediaSweepProofs` proves `SweepSparesAttached` from `ContentAssumption`.  A pass destroys a photo that
was not referenced when the pass began and was older than the cutoff (`PassOK`); a photo attached
since is younger than the cutoff, or was attached late; and what is attached in time is in the
store when it is attached, since no pass can have taken it so young (`YoungOK`).  The row lock of
an update plays no part.

`ServicesProofs` carries all five over to `MCServices`: its behaviours are behaviours of each
component (`EachRuns`), so the theorems of the instances hold of the very definitions that
the run `services` checks.  Seven components have no proof module; their invariants are in
`ServicesProofs` itself:

* `LinksInv` (`ResetOnce`): a request whose reading is fresh holds a link that no reset has taken;
* `FlowsInv` (`SameAccountAgain`): tokens and callbacks that found an account agree with the row of
  the identity, which never changes once it is there (`FoundOK`); a state that was not raced is past
  with at most one callback, which has not answered, or with none (`ConsumedOK`);
* `ThreadsInv` (`OneThread`): whoever is about to insert a thread on a fresh lookup finds none still;
* `LiveInv` (`NothingMissed`): what a worker has still to publish is the last of its sender and marked
  so (`PostOK`), hence newer than all that sockets have from this sender (`StreamOK`); what came in on
  the bus since the history was fetched is in the stream (`Heard`);
* `LimitInv` (`WithinLimit`): the deque is the end of the list of accepted hits, in order, and what was
  popped is older than the window, so that `Count` accepted hits span more than a window (`WindowOK`);
  the hint is the first moment at which the oldest hit has expired.  `ExpiredFirst` shows that the hits
  which the loop pops are the first ones, as a loop that looks at `q[0]` only must assume;
* `DiaryInv` (`OfferedIsBookable`): the row is one of `Calendars` and the tours are a bag of instants.
  The work is in the arithmetic of days (`DaysApart`, `OneDate`) and of clocks (`ClockShows`, `DayBetween`):
  the instants of a date lie between the midnights that bound the count, so counting in the range and at
  the instant agree (`SameCount`);
* `Figures!TypeOK`, `SumsOK` and `Figures!ErrorsListed` (`FiguresAgree`): the bounded lists keep to their
  bounds (`PushBounded`), a request adds one to the total and to one term of each sum (`SumGrows`), and an entry
  that is pushed in front moves the rest on by one in both lists, so that the k-th failure of one stays the
  k-th entry of the other (`FailedMoved`).  The percentiles rise because the sample can be put in order
  (`Sortable`) and interpolation between the places of an ordered list rises (`ReadingRises`).

The sums and the ordered sample are defined by recursion or by `CHOOSE`, and theorems about them need
induction.  The induction theorems of the library take an operator and cannot be used here; `AllNumbers` and
`AllSubsets` state induction for a set of numbers and for a family of finite sets instead, and follow from the
existence of minimal elements (`LeastOf`).  For the same reason `RequestMetrics` defines the ordered sample by
what it is (`Ordered` chooses a permutation that sorts) and counts the failures of a prefix (`FailedUpTo`).

`TypeCorrect` joins the type invariants of all twelve.  They assume `AccountAssumption`, `ContentAssumption`,
`CalendarAssumption` and `ProcessAssumption`, of the latter that senders and
route templates are finite in number (the application registers its routes when it starts, and what
matches none is counted as `<unmatched>`) and that workers differ from the marks of a publication.

`OfferedIsAccepted` has a hypothesis, `MidnightsShown`: no zone of a schedule puts its clocks forward with a
midnight strictly inside the time that is skipped.  Changes at midnight, as most zones that change at night's
edge have them, and all others are covered, and the zones of `services` satisfy it.  The hypothesis is needed: `availability` counts the
tours of a range from `local_to_utc` of its first midnight (`scheduling.py:131`), and a midnight that
does not exist is mapped behind the first slots of the day, whose tours then go uncounted.  With a zone
that goes from 0 to 3 units ahead at instant 7, in days of 4, TLC finds a full slot that is shown as free.

Only model-checked: liveness (`RequestsFinish` of both components, `ChargeConfirms`,
`PendingIsResolved`, `ForgottenIsClosed`, `OrphanIsSwept`), which needs fairness and `ENABLED`.  Every
other property that a passing run checks is stated by a theorem.

## 5. Assumptions and omissions

* A listing whose net credit rounds to zero is left out (`NetOf(b) > 0` in
  `StaysAssumption`): there SQLAlchemy sees no change and emits no UPDATE.
* Properties keep their owner.  Their deletion, restoring and purge are modelled where photos,
  threads and assignments depend on them (`Inbox`, `MediaSweep`), not for bookings and tours.
* A repeated failed event with an identical payload emits no UPDATE in the code; the
  model lets it wait for the row lock all the same.
* The webhook signature and malformed or unknown events: rejected before any row is
  read, no step.
* E-mail is best effort: `mailed` records what was handed to the mailer.
* Tours: opening hours, time zones, blackout dates and the booking window are seen
  through the set of slots they open (`open`); lead status and staff notes only through
  the row lock their update takes; confirmation codes are unique; one property.  Tour
  e-mails and the listings of tours are left out.
* Calendar: a zone changes its offset once; ranges, slot lengths, notice and days are small numbers.
  Schedule rows have ranges that the schema validates (start before end).
* Codes and links: randomness and hashing are left out (a code is a member of `Code`, a link
  or a state never comes again).  `last_login_at`, `last_seen_at` and the comparison of passwords
  are left out; a failed update of `last_seen_at`, which rolls the session back and expires
  the loaded user (`auth_service.py:295`), ends the request like any other `Crash`.
* Tokens: a token is its subject and two times; roles are read from the row at each request.
* `LiveDelivery` has one conversation; the pages of `list_messages` are abstracted to the whole
  history, the screening of a message to whether it is stored.
* `MediaSweep` takes the two listings of the sweep (images, videos) as one, and a property's photos as
  one set, whatever column they are in.  Uploads stop when their grace period would outlast
  the clock, so that the bound of the clock hides no orphan.  Keys of the rate limiter do not
  interact: one rule and one client address are modelled.

### Not modelled

The agent dashboard, the listings, filters and searches and the blocked dates only read.  E-mail delivery
and the NIN check are stateless calls to external services; notices matter only where a property
is about them.  Configuration, schemas, migrations and scripts (but for the role script) have
no behaviour of their own.  Agent profiles and site settings are single rows that an admin overwrites.
The pruning of old audit rows touches rows nobody reads again.

Behaviours seen while modelling that no run is spent on: two settlements that overlap on
one wallet compute `balance_after` from the same balance, so the ledger's running
balance repeats a value (`wallet_service.py:26-38`; `BalanceIsLastAfter` is what
remains true); a settlement that overlaps a cancellation mails a confirmation for a
booking that is cancelled when the mail leaves (`routes/payments.py:58`; `NoticeIsPaid`
remains true); `patch_tour` tests for a cancelled tour before it waits for the schedule
lock, so a tour cancelled meanwhile is moved (`tour_service.py:192-198`; it stays
cancelled, which `ConfirmedByStaff` checks); a confirmation that read the tour before its
cancellation revives it after the slot was given away, so that the slot holds more active
tours than its capacity, although `get_or_create_schedule` says the check "can't race"
(`tour_service.py:160`, `scheduling.py:49-50`; `PlacedWithinCapacity` is what remains true).

Calendar: a local time that a change of the clocks skips is offered as a slot of its own, although its
instant is that of the slot an offset later; both are booked as one instant.  When the skipped
times end at midnight, the tours of such a slot lie behind the range of instants that is counted for its day,
and a full slot is shown as free (`scheduling.py:131`); the booking is then refused.  `OfferedIsBookable` leaves
skipped times out.

Staff: two admins who demote or deactivate each other at once both find another admin, and
none is left, although `README.md:193` calls the change last-admin guarded and
`MODULE_BREAKDOWN.md:174-175` says "refuse if it would leave zero active admins"; the same
happens when the target is made an admin after its row was loaded (`staff_service.py:89-93`;
`KeepsAdmin` is what remains true).  Two overlapping clock-ins of a user leave two open
sessions, although `README.md:200` says "one open session per user" and
`MODULE_BREAKDOWN.md:197` plans a partial unique index, which the migration does not create
(`attendance_service.py:59`; `OneOpenSession`).  A correction that overlaps a clock-out
leaves a duration computed from times one of them replaced (`attendance_service.py:187`;
`DurationMatches`).  A correction may move the start of an open record into the future; the
clock-out then ends before it starts, with duration 0 (`_minutes` is cut off at zero).

Accounts: two guesses that overlap are counted as one, so that a code may be tried more than
`OTP_MAX_ATTEMPTS` times (`auth_service.py:206`; `GuessesCounted` says what remains); a resend that
loaded the counter as 0 leaves a guess counted meanwhile on the new code (`:182-185`).  Two resets
with one link that overlap both set the password, although `README.md:64` calls it single-use
(`ResetOnce`).  `deps.py:62-63` says that no normal path issues a token before the code was
verified; signing in through a provider to an account that was registered by e-mail and not
verified issues one (`auth_service.py:149-161`), which the next request then refuses.
`ProviderSignIn!TokenAfterVerify` states the comment; no run checks it.

Messages: "One thread per (property, guest) pair" (`models/messaging.py:21`) holds for a visitor and
for an account each, not for a visitor who signs in later, and two first messages that overlap
open two threads (`OneThread`).  Nothing ever sets a thread to another status than OPEN.  A socket is
accepted before it is subscribed (`routes/messaging.py:243-252`), so a client that fetches the history
in between misses what is published then (`late` in `NothingMissed`); a worker that cannot reach
Redis at its first use keeps to its own process from then on.

Photos: an update or a purge destroys photos before it commits and does not ask whether another
property refers to them (`property_service.py:152-158`); whatever their kind, the clean-up destroys
them as images.  `_referenced_public_ids` looks at properties only, so an agent's headshot in the same
store folder is an orphan to the sweep (`maintenance.py:35-55`).

## 6. Plan

Done: money and confirmed stays (`BookingLedger`, `BookingPayments`), tour slots (`TourBook`,
`TourSlots`), staff roles, attendance, accounts (`EmailCodes`, `Sessions`, `ResetLinks`,
`ProviderSignIn`), threads and assignments (`Inbox`), `LiveDelivery`, `MediaSweep`, `RateLimiter`,
`RequestMetrics`, `SlotCalendar`; inductive proofs of all of them, and the two refinements.  What is left: headshots
of agents beside the photos of properties, and the sharing of one photo by two properties in a larger instance.

The number of runs stays small: the smaller components share `MCServices`, and a
documented claim that the code does not keep gets a run only where it matters more than
the ones above.
