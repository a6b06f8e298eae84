# Verification of the booking and payment core

This directory is a TLA+ development of the backend (`src/`) and the booking pages (`web/src/`): models of the code, TLC
configurations that check them on small instances, and TLAPS proofs of the properties that hold for
every instance. Paths below are relative to the repository root.

- [1. The system](#1-the-system): parts, state, interactions, hazards
- [2. Modules](#2-modules) and how they correspond to the code
- [3. Runs](#3-runs): questions, bounds, fairness, results
- [4. Proofs](#4-proofs)
- [5. Disagreements found](#5-disagreements-found)
- [6. What is not modelled](#6-what-is-not-modelled)
- [7. Plan](#7-plan)

## 1. The system

A pet-care marketplace: a pet parent books a provider, pays a deposit, the two run a session between
two one-time-password handshakes, the parent pays the rest, and the provider is paid out after a
dispute window. One Node process (Express and Socket.IO) serves the API over PostgreSQL (Prisma) and
talks to Razorpay; a Next.js application shows each party its page of the booking.

| Component | State | Operations | What makes it correct |
|---|---|---|---|
| Booking routes, state machine (`src/routes/bookings.routes.ts`, `src/services/bookingService.ts`, `src/utils/stateMachine.ts`) | `Booking` row (state, paid columns, password hashes), `BookingStateLog`, `SessionTracking` | create, confirm, cancel, otp/start, start-session, otp/end, end-session, session-tracking | the state moves along `transitionMap`; no service without deposit and handshake; every state has the log row that explains it |
| Soft lock (`src/middleware/softLock.ts`) | none | check in front of create and of messages | no new booking while a payment is pending |
| Payments (`src/services/paymentService.ts`, `src/routes/payments.webhook.ts`) | `PaymentTransaction`, `EscrowTransaction`, `WebhookEvent`, `ProviderPayout` | create order, confirm, webhook, release | captures, columns, escrow and payout rows agree; duplicates do nothing; captured money is recorded |
| Amounts (`splitAmounts`, `src/lib/payments/commission.ts`, `calculations.ts`) | amount columns | split, commission | nothing is lost to rounding; the payout is covered by what was collected |
| Recovery (`src/lib/payments/recovery.ts`) | the rows above | replay, mark released, set status, repair | replays bring lost captures back; a repair never makes a consistent booking inconsistent |
| Reconciliation (`src/lib/payments/reconciliation*.ts`, reports of `payoutAutomationService.ts`) | none | reports | no false alarm; the failures it counts |
| Payout automation (`src/services/payoutAutomationService.ts`) | `ProviderPayout.status`, transfers at Razorpay | process due, retry failed | no transfer in the dispute window; no more transfers than needed; a payout that is due gets somewhere; nothing says released of a booking that is not paid out |
| Advisory locks (`src/utils/locking.ts`) | PostgreSQL session locks on pooled connections | `withPgAdvisoryLock` | mutual exclusion, no lock left behind |
| Automation job and process (`src/jobs/paymentAutomationJob.ts`, `src/server.ts`) | two timers, `running`, `stopped` | start, iterate, stop, SIGTERM, `$disconnect` | one chain of iterations per job, none after stop; what a stop may cost |
| Booking pages (`web/src/app/{parent,provider}/bookings/[id]/page.tsx`) | a copy of the booking, buttons, the Razorpay dialog | press, refetch, pay, reload | the page offers what the API would take, and never from before its own write |
| Chat (`src/routes/chat.routes.ts`, `src/realtime/socket.ts`, the same pages) | `ChatMessage` rows, rooms, lists on the pages | send, load, emit, join | each message once, in order, and to whoever is in the room |
| Web session and onboarding (`web/src/contexts/auth-context.tsx`, ...) | session, user, role | sign in and out, choose a role | late answers do not overwrite newer ones |
| Auth middleware, users, pets, providers, health, failure simulation, audit log, other pages | own rows | plain reads and writes | no protocol |

**Interaction.** Booking and payment code meet in the `Booking` row. A captured deposit sets
`depositPaidAt`, which otp/start reads; a captured final payment moves the row through three states
and makes the payout row; releasing the payout, by hand or by a run of the automation, writes the
booking, payout and escrow rows. Razorpay calls back through the webhook, while the browser confirms
the same payment through the API. Automation runs meet each other, and operators, in the payout row
and in the advisory locks; the job starts them, and SIGTERM stops the job and closes the sessions, but not a run. Operators
replay events and repair bookings over the same rows. The pages know of all this only what their last
fetch of the booking says; the passwords go from the provider's page to the owner by word of mouth.
Chat messages reach a page on two ways, by loads and through the room.

**What is hard.** Every `await` is a point where other requests run. The transactions are READ
COMMITTED: a plain read takes no lock, so a value read before a write may be stale, while the writes
of one transaction become visible together. The handlers validate what they read and then update by
id alone; repair decides on a booking it read before, and reports read table by table without a
transaction. Webhooks arrive at least once and in any order (`KNOWN_LIMITATIONS.md:6`); responses
get lost; the process may die between two statements. Advisory locks belong to database sessions, and
a caller does not choose its session; a transfer at Razorpay is not undone by a rollback. In the
browser, refetches overlap with each other and with the requests that cause them, a load of messages
overlaps with the events of the room, and a reload forgets what the page was told once. The list of
hazards, each at its line and with the properties that watch it, is in `PROJECT.json`.

## 2. Modules

| Module | Role |
|---|---|
| `BookingStates` | `BookingState` and `transitionMap` |
| `BookingRow` | the changes of one booking row, each in one step |
| `BookingLifecycle` | abstract: `BookingRow` with creation under the soft lock and tracking; what the API promises, one step per request |
| `BookingRoutes` | detailed: every booking route, statement by statement, with faults |
| `BookingRoutesProofs` | inductive invariant and theorems about `BookingRoutes` |
| `PaymentService`, `PaymentServiceProofs` | `BookingRoutes` composed with orders, confirmations, webhooks and payout release; its invariant, the refinement of `BookingRoutes` |
| `WebhookReplay`, `WebhookReplayProofs` | `PaymentService` with operators who replay events; the same invariant with replays |
| `Amounts` | rounding, split and commission as operators |
| `PaymentOperations`, `PaymentOperationsProofs` | `PaymentService` with amounts, reconciliation and repair; theorems about `Amounts`, the books and operators |
| `AdvisoryLock` | session locks on a pool of connections |
| `PayoutAutomation` | `AdvisoryLock` composed with automation runs, manual releases and overrides of payouts |
| `PayoutAutomationProofs` | inductive invariant and theorems about `PayoutAutomation` |
| `AutomationJob`, `AutomationJobProofs` | `PayoutAutomation` under the timers, SIGTERM and restarts of the process; its chain theorem |
| `BookingPages`, `BookingPagesProofs` | the two booking pages over `BookingRow`; its invariant |
| `BookingChat`, `BookingChatProofs` | chat routes, room and pages; its invariant |
| `MC...` | instances for TLC, one module for each module that is run |

`PaymentService` extends `BookingRoutes` and shares its variables. `BookingRoutes` on its own closes
the system with two environment actions, `DepositCaptured` and `FinalCaptured`; in `PaymentService`
they are replaced by the transactions that do the capturing, and the property `ImplementsRoutes` says
that the composition is still a behaviour of `BookingRoutes`. So what is checked or proved about
`RoutesSpec` carries over.

`PayoutAutomation` starts where `PaymentService` ends: from bookings in PAYOUT_PENDING whose final
capture made the payout row. It has its own, finer model of that row, because there a status may be
overwritten, retried and rolled back; the manual release appears in both.

### BookingRow and BookingLifecycle

`BookingRow` has the changes of a row that the API promises: `Progress` along `transitionMap`, `PayDeposit`, `PayFinal`, `PayOut`,
each in one step. `BookingLifecycle` adds what relates bookings to each other and to other tables: `Create`, which
`MustPayFirst` refuses to whoever is owner or provider of a booking that still has to be paid for (the soft lock),
and `Track`, which needs a session that runs. It is the specification that `BookingRoutes` implements when requests do not
overlap; `BookingPages` takes the API from `BookingRow`.

### BookingRoutes

Variables are the columns and tables (`state`, `depositPaidAt`, `finalPaidAt`, `payoutReleasedAt`,
`otpStartHash`, `otpEndHash`, `stateLog`, `tracking`), what providers were told (`startShown`,
`endShown`), the requests in flight (`req`) and a fault counter. A row that does not exist yet has
state `"ABSENT"`; of tracking rows it is kept whether the session ran when they were inserted. A hash stands for its password, and an owner submits only passwords that a
provider was shown, because the provider passes them on.

A request goes through

    Arrive (the handler's own read and checks)
      -> ReadState / RejectState (findUniqueOrThrow + validateStateTransition)
      -> UpdateState -> AppendLog             confirm, cancel, start-session, end-session
      -> CommitOtpStart -> ShowStartOtp       otp/start: one transaction, then the response
      -> CommitOtpEnd -> ShowEndOtp           otp/end
      -> CommitRelease / AbortRelease         releasePayout

`UpdateState` and `AppendLog` are separate because those handlers pass `prisma` and not a transaction
to `transitionBookingState`. In a transaction the read is still a step of its own (it takes no lock),
the writes and the commit are one step (rows are locked from the first write on). The three transitions
of a final payment run after their transaction has locked the row by writing `finalPaidAt`, so they are
one step, `SettleBooking`, which needs the state to be PENDING_PAYMENT. `FailRequest` is a failing statement or a lost
response, `CrashRequests` the death of the process; `MaxFaults` bounds both.

### PaymentService

`txRow` is the payment row of a Razorpay order, `escrow`, `payoutStatus` and `webhookEvent` are the
other tables; `paidOrder` is what Razorpay knows (which order a payment captured money for), `acked`
the events that got a 200, `paused` the toggle, `call` what each call in flight is doing.

| Code | Actions |
|---|---|
| `createPaymentOrder` | `BeginOrder` (reads and checks), `InsertOrder`, `RejectOrder` (unique idempotency key) |
| `confirmPayment` | `BeginConfirm` (read of the row), `CommitConfirm`, `RejectConfirm` |
| `processWebhook` | `DeliverNew`, `DeliverKnown`, `DeliverPaused`; `InsertEvent`, `InsertConflict`; `LookUpRow`; `CommitWebhook`, `RejectWebhook`; `RecordFailure` (the catch block) |
| `applyCapturedPaymentInTx` | `RowIsNew`, `RowRepeats`, `RowMismatches`, `CanApply`, and `ApplyCapture` with all of its writes |
| `releasePayout` | `ReleasePayout` = `CommitRelease` and the payout and escrow rows |
| Razorpay | `Pay`, `PayForeign`, redelivery of an event until it is answered with 200 |

Several reads at the start of a call are one step where merging them gives no fewer outcomes: in
`createPaymentOrder` the booking is read last and any value it had at an earlier read led to the same
answer or to an error; in `processWebhook` the two lookups of the event have the same answer. The
inserted event row holds its unique key until the transaction ends (`KeyLocked`): another delivery of
the key waits and then gets a unique violation. An order that Razorpay made but whose row was refused
is never offered to anyone, so it is left out. Signatures and metadata are left out: the model starts from a
valid signature, which is to say from a payment that Razorpay captured for that order.

A statement of a payment call fails (`FailCall`) while there were fewer than `MaxCallFaults` faults of any kind; a
crash, which also ends the booking requests in flight, and a failing booking request happen while there were fewer than
`MaxFaults`.

### AdvisoryLock

`held[l][c]` counts how often session `c` holds lock `l`. `withPgAdvisoryLock` sends
`pg_try_advisory_lock` and `pg_advisory_unlock` as two queries through the pool, so each runs on any
connection not reserved by an open transaction. A session is granted a lock it has already (`Acquire`), which
is why the lock does not exclude callers; an unlock on a session that does not hold it does nothing, be it that another
one does (`Release`, second disjunct, at most `MaxMisses` times), in which case the lock stays until the connection ends
(`ReleaseAll`, `CloseSessions`), or that nobody does, the session having been closed (third disjunct).

### PayoutAutomation

Variables are the columns (`state`, `payoutReleasedAt`, `payoutStatus`, `escrowReleased`), the PAYOUT rows
by the prefix of their key (`payoutRows`), `due` (whose `eligibleAt` has passed), the transfers Razorpay
made (`transfers`), the automation runs (`worker`) and the calls of `releasePayout` (`releasing`) and `manuallyMarkPayoutReleased` (`marking`) in flight. A run goes through

    StartRun (gate lock, or the run ends) -> LeaveGate (the gate guards no work) -> ListRows
      -> Pick (a retry resets the row it listed)
      -> TryLock -> ReadPayout (opens the transaction, decides)
         -> Divert                        no transfer possible: manual, invalid, blocked
         -> MarkProcessing -> TransferMade -> Settle / SettleRejected
                           -> TransferRefused / TransferUnanswered
      -> GiveBack -> the next row, or the end

The transaction stays open across the call to Razorpay. Its read takes no lock, its first update locks
the payout row (`RowLocked`: other writers wait), and the status PROCESSING is seen by nobody else, since the
same transaction overwrites it before it commits. `AuditFails` is the audit row that is written on
another connection within the `try`: when that insert fails, the catch block runs in an intact
transaction and commits RETRYABLE_FAILED next to what was written before.

Operators call `BeginRelease` / `CommitRelease` / `AbortRelease` (`releasePayout`), `BeginMark` / `CommitMark` / `AbortMark` / `MarkAgain`
(`manuallyMarkPayoutReleased`, which reads the booking before its transaction and decides by that whether to move it) and `SetStatus`.
`FailRun` is an error in a run: `Rest` says what is left to do, which is nothing for a retry run, and for
the other one the rest of its list unless the catch block fails as well. What a provider's account and the amount allow is the constant `outcomes`. A failed statement, an
answer that does not arrive, a crash and an override by `SetStatus` count against `MaxIncidents`.

### WebhookReplay

`storedType` and `linked` are two more columns of a `WebhookEvent` row. They matter because processWebhook
writes `bookingId` only together with PROCESSED, and because a replay runs on the stored type and payload.
`StoreType` and `LinkEvents` go along with every step of `PaymentService`; `BeginReplay`, `ReplayLookUp` and
`CommitReplay` are `replayWebhookByDedupeKey`, which calls `processWebhook` under a fresh key, so that it
meets neither the row nor the lock of the event. The rows that replays leave are read by nothing but
another replay and are left out. `CountedFailures` is what the report of a booking counts.

### Amounts and PaymentOperations

A price is a number of grains, some to the paisa, since a request may name a fraction of a paisa.
JavaScript rounds a binary float, which is as often a little below a half as above; so `Nearest` has both
outcomes at a tie, and only there. `StoredAmount` is PostgreSQL's rounding to two decimals.

`PaymentOperations` adds the amounts of a booking (`amounts`, written by the insert and by nothing else)
and what an operator is doing (`operation`):

| Code | Actions |
|---|---|
| global reconciliation report | `ReconcileBookings`, `ReconcileTransactions`, `ReconcileEscrow`, `SendReport`: one step per query |
| `repairBookingPaymentState` | `RepairBooking`, `RepairTransactions`, `RepairState` (`transitionBookingState`, which reads the state anew) |

### AutomationJob

`job` is `JobState` of the two jobs (how many timers are set, `running`, `stopped`), `iteration` says
which run of `PayoutAutomation` is whose iteration, `phase` how far SIGTERM is. Each job has a slot for its run (`slotOf`).
`StartJobs` is the end of `bootstrap`, `TimerFires` and `BeginIteration` are `runProtectedJob`,
`Ends` its `finally` block; `Terminate` is the signal handler up to `stop()`, `Disconnect` its `prisma.$disconnect()`, `Exit` the end of the
process and `ProcessDies` a crash. `Disconnect` closes the sessions of the pool with the locks they hold, whatever runs: open transactions on them
roll back, though Razorpay may have made the transfer that one had asked for (`LoseTransactions`). Whether a session with an
open transaction is closed too or lives to its end is left open, since that is Prisma's. The runs are not told and go on: a Prisma client that was
disconnected connects again at the next query. `RunStep` and `RunFails` are the steps of `PayoutAutomation`. Delays are left open, so
a timer may go off at any time.

### BookingPages

The API side is `BookingRow` with the rows of orders (`order`) and what Razorpay captured (`paid`);
requests are taken one at a time there, `routes_serial` being the run that justifies it. The soft lock concerns other bookings
than the one on the page. `page` is a party's page:

    Press -> Handle (the API takes or refuses it) -> Answer -> ReadBooking -> ShowBooking

`Invalidate` is `invalidateQueries` of react-query: a newer fetch supersedes the one in flight, while a
refetch on focus (`Focus`) joins it. `OwnerOffers` and `ProviderOffers` are the `can...` conditions of the
pages. The dialogs of Razorpay are `checkout`, their handlers `verify`, sets of orders both: the buttons are enabled again
as soon as the order is made (`page.tsx:201-205`), so a dialog may be open while the page goes on. `LoseAnswer`, `LoseFetch`, `LoseVerify`
and `Reload` are the faults; `otps` are the passwords that the provider's page shows, and `told` those that
the owner has heard.

### BookingChat

`request` is how far a POST of a message is (`Refuse`, `Store`, `Emit`, `Answer`), `page` a party's list, its loads
in flight, its socket and the events on their way. `ReadMessages` and `ShowMessages` are the two halves
of `loadMessages`; the answer to the first replaces the list whatever came in meanwhile. `Deliver` is the handler of
`chat:new-message`. `NewSocket` is the effect that makes a socket anew: `RenewSession` (the token is refreshed),
`UserLoaded` (`/users/me` answered, a new object), `EditPosition` (the tracking card's coordinates). `LoseSocket`
leaves a socket that reconnects but does not join again.

## 3. Runs

The booking and payment runs use one owner and one provider (`OneOwner`, `OneProvider`) so that the soft lock bites. Slots, passwords,
orders, payments, keys and connections are symmetric in the safety runs (the code only compares them);
runs with liveness properties use no symmetry. Deadlock is not checked: a finished booking, a chat that is
read, a paid payout may stay as they are for ever.

| Run | Instance | Shows |
|---|---|---|
| `routes_overlap` | 1 booking, 2 requests, 2 passwords for otp/start and 1 for otp/end, 1 fault; 1.9 M states | `TypeOK`, `DepositBeforeService`, `HandshakeEvidence`, `PayoutAfterPayments`, `AuditTrail`, `PasswordLostByFaultOnly` under overlapping requests, lost updates and faults |
| `routes_serial` | 2 bookings, 1 request, 2 passwords, no fault; 50 k | one request at a time implements `BookingLifecycle` (`ImplementsLifecycle`), and a session whose end was requested reaches payment (`EndedSessionReachesPayment`) |
| `payments_race` | 2 calls, 2 orders, 2 payments, two payments of one order allowed, 1 crash or failing statement; 970 k | `PaymentTypeOK`, `LedgerAgrees`, `ProcessedMeansCaptured`, `ImplementsRoutes` |
| `payments_orders` | 1 call, 3 orders, 3 payments, webhooks paused at first; 280 k | `ReconciliationClean`, `OnePayoutPerBooking` over the whole life of a booking |
| `payments_replay` | 2 calls, 1 deposit order and payment, 2 event types on one key, 2 failing statements, replays; 210 k | `ProcessedMeansCaptured`, `CountedFailuresWereRecorded`, `ReplayRecordsMoney` |
| `payments_books` | a booking of Rs 97.01, 2 orders, commission 17.5 %, a report or a repair going on; 300 k | `PayoutIsCollected`, `FeesAddUp`, `NoFalseAlarm`, `PaidOutStaysPaidOut` |
| `payouts_race` | 1 payout, 2 runs, 2 connections, every outcome, 2 incidents, 1 missed unlock; 2.3 M | `PayoutTypeOK`, `NoTransferInDisputeWindow`, `PayoutRowsAgree`, `TransfersBounded`, `HoldersAreCovered` |
| `payouts_jobs` | 1 payout, both jobs, 2 runs, 2 connections, transfers possible, 1 incident or SIGTERM; 180 k | `OneChainPerJob`, `RepeatsBounded`, `DuePayoutGoesOn` |
| `booking_pages` | both pages, 1 order per stage, 1 loss or reload; 460 k | `ReadYourWrites`, `OffersMatchApi`, `EndedSessionReachesPayment` |
| `booking_chat` | both pages, 2 messages of one sender, loads of 2, 1 incident; 320 k | `NothingShownTwice`, `SenderOrderKept`, `MessageReachesRoom` |

The other two runs are the disagreements of section 5.

**What the less obvious properties say.**

- `ImplementsLifecycle` includes the soft lock and the check that only a session that runs is
  tracked: they are the guards of `Create` (`MustPayFirst`) and `Track` in `BookingLifecycle`. Its mutant is a soft lock that forgets
  the bookings whose payment is due and not yet under way.
- `PasswordLostByFaultOnly`: a password is known that opens the booking, or a request that carries it is about to answer, as long
  as no response is lost and no process dies. Two passwords are needed to tell a valid one from a replaced one; the run has them for otp/start, and
  `PasswordsStayKnown` for both.
- `HandshakeEvidence` says only that some password was issued and shown; which one is valid is left to the property before.
- `AuditTrail` allows that a fault takes a request's log row with it, and no more: the other rows are there and legal.
- `LedgerAgrees`: a settled payment row, the paid column of its booking and the escrow row go together.
- `OnePayoutPerBooking` and `ReconciliationClean`: of three paid orders at most one settles the final stage, and
  nothing that reconciliation calls CRITICAL about captures ever holds.
- `ReplayRecordsMoney`: when the event of a captured payment is still to be answered and webhooks are not
  paused, its stage is settled in the end, provided that operators replay what failed. The exception in it is an event
  of another type that took the key of the capture.
- `CountedFailuresWereRecorded`: the failures that the report of a booking shows are those that lost nothing;
  the ones that lost a payment carry no booking id.
- `PayoutIsCollected` counts the fraction of a paisa that a price not in whole paise may lack, which is none
  in this run (`grain = 1`); the theorems of section 4 have every grain.
- `NoFalseAlarm` lets one finding pass, `orphan_escrow_row`: an order inserted and paid between the query of the
  payments and that of escrow looks like one.
- `PayoutRowsAgree` is one-way: what says that money was released belongs to a booking that is paid out. It holds although the
  lock does not exclude, because the row lock and the final state PAID_OUT decide which of several writers may write
  the results. A booking that is paid out may well have a payout that says READY or RETRYABLE_FAILED, and escrow that is not released (section 5).
- `TransfersBounded` is what is left of "at most one transfer" when the lock fails to exclude: one
  per run in flight and one per incident.
- `HoldersAreCovered`: one session holds a lock at a time, as often as there are runs
  inside; runs on other sessions are shut out until the last one has left. A missed unlock leaves a hold
  too many, never one too few.
- `RepeatsBounded` is the same question for the process: an incident may be a SIGTERM, which loses at most two transfers, one by closing the
  sessions under a run and one by the exit. That there may be two is why `TransfersBounded` does not hold next to `Disconnect`; nor
  does `HoldersAreCovered`, since the runs go on without their locks.
- `DuePayoutGoesOn` leans on nothing but the timers here: that runs are started again and again is a consequence
  of how the job is written (`Reschedule`, `StartJobs`), across restarts.
- `ReadYourWrites`: `own` remembers the version that an answered request wrote; buttons come back only on a copy that is as new.
- `OffersMatchApi` compares the two codings of whose turn it is, the pages' and the API's, in both directions; what a
  page may offer in vain is the deposit that is paid already and a cancellation that `transitionMap` refuses.
- `SenderOrderKept` and `NothingShownTwice` hold for any interleaving of loads and events, because 201 is sent after the event.

**Why the bounds are enough.** Bookings interact only through the soft lock, which relates two
bookings of an owner: two bookings there, one elsewhere. Payouts share the gate and the loop of a
run and nothing else; one payout is enough for properties about each payout by itself, and what several payouts
would add, the batch limit and its order, is not modelled. The race conditions are between two handlers of
one booking, two runs on one payout, or two pages: two request slots, two call slots, two workers, two pages. Two connections
separate "the same session" from "another session". Settling one stage twice takes two orders of the
stage, and doing so with the final payment takes a third order for the deposit. One fault is enough to
separate any two statements of a handler; the payout runs allow two, because a transfer that is made but not
recorded and the retry of it may each meet one, and so does the replay run, where a delivery and a replay of it fail. In the payment
runs booking requests do not overlap with each other (one slot), though they interleave with payment
calls; that is a condition of `OnePayoutPerBooking`, whose claim of a single final payment is lost
when a stale end-session reopens a settled booking (see `routes_lost_update`). `payments_books` uses a price that the
stages cannot share evenly and a rate that leaves halves to round. In the chat two messages of one
sender are the least that can be out of order; the loads are long enough for both, as `SenderOrderKept` asks. The replay run
has a deposit only: webhooks record both stages by the same transaction, and what differs after it is in `payments_orders`. The
pages have one order per stage, so a second order of a stage is not made there (two are beyond five minutes); what
two orders of a stage do to the rows is in the payment runs.

**Fairness.**

- `FairRoutesSpec` (`routes_serial`): a handler that runs is continued (the event loop and the database
  make progress, `WF(Advance)`); the provider keeps asking for an end password and an owner who was told one that
  still works keeps submitting it (`SF`, since other requests may take the slot in between).
- `FairReplaySpec` (`payments_replay`): a call that runs is continued (`WF` of its steps), Razorpay redelivers a
  capture until it is answered with 200 (`SF(Deliver)` while not in `acked`), and operators replay a row that says FAILED
  (`SF(BeginReplay)`; the pause and the slots of calls may be in the way for a while).
- `FairJobSpec` (`payouts_jobs`): a process starts its jobs, a timer goes off, a process told to end ends
  (`WF(StartJobs)`, `WF(TimerFires)`, `WF(Exit)`); an iteration asks for its lock and a run goes on (`SF`: the pool serves its queue
  in order, so a run that waits for a connection or a row gets it); and Razorpay, asked for the same payout again and
  again, makes the transfer in the end (`SF` of `TransferMade`).
- `FairSpec` of `BookingPages`: requests, answers and refetches go on (`WF`), the owner's page gets the focus now and then,
  the provider tells a password that the page shows, and the owner who was told the end password presses the button
  again when it is there (`SF`).
- `FairSpec` of `BookingChat`: a stored message is emitted and an event delivered (`WF`), unless the process crashes or the socket goes away.

Nothing is assumed about owners paying, confirming or ordering, nor about faults not happening.

**Mutants.** Each checked property has a mutant: an operator, defined just before the one it stands for
and marked as such in its comment, that changes the code the way a plausible bug would (a dropped check,
a stale read, a missing write, a row committed too early). TLC finds the property violated when it is put in.

## 4. Proofs

Every safety property that a passing run checks, but `RepeatsBounded`, is also proved, for any values of the constants, and so are the two
refinements; three of them (`ImplementsLifecycle`, `OnePayoutPerBooking`, `PaidOutStaysPaidOut`) for booking requests that are taken one
at a time, as in their runs, because they are false when requests overlap. Theorems are about the specification without fairness; the one that a run checks with fairness implies it.
What the constants are assumed to be is stated where they are declared, and TLC evaluates it in every run: that null is
no value (`NoOtp`, `NoneIsNoRow`, `NoneIsNull`, and in the assumptions of `PaymentService` and `BookingChat`), that bounds are natural
numbers, and that the workers of `PayoutAutomation` and the orders that `PaymentOperations` adds up are finitely many.

### Booking routes

`BookingRoutesProofs`, for any sets of bookings, requests and passwords and any number of faults:

| Theorem | Says |
|---|---|
| `TypeCorrect` | `RoutesSpec => []TypeOK` |
| `DepositFirst` | `RoutesSpec => []DepositBeforeService` |
| `HandshakeFirst` | `RoutesSpec => []HandshakeEvidence` |
| `PasswordsStayKnown` | `RoutesSpec => []PasswordLostByFaultOnly` |
| `MoneyMovesInOrder` | `RoutesSpec => []PayoutAfterPayments` |
| `AuditTrailHolds` | `RoutesSpec => []AuditTrail` |
| `SerialRoutesImplementLifecycle` | one request at a time: `RoutesSpec => ImplementsLifecycle` |
| `SerialRoutesFollowMap` | one request at a time: `RoutesSpec => FollowsTransitionMap` |

None of the safety properties is inductive. A request in flight writes a state later that it
found legal earlier, while the row has moved on since, so the invariant must also say what such a request
knows. `Evidenced` is the strengthening:

- `Structure`: `TypeOK`, and `RequestSound`, that the `from` state of a validated request leads to
  its target in `transitionMap`;
- `BookingEvidence`: what has happened to a booking that is in a given state (`Evidence(b, s)`: deposit
  paid, passwords issued and shown, final payment recorded);
- `RequestEvidence`: the same for the state a request has read, and the admission check of a request
  that passed one.

The argument is that evidence only grows (`EvidenceGrows`: no action takes back a deposit, a shown password
or a final payment), so evidence for a stale `from` still stands when the request writes its target, and
`TransitionSources` says which states lead to which targets. `SlotStep`, `RequestEvidenceStep` and
`BookingEvidenceStep` split the step by action. This is the reason why lost updates break
`FollowsTransitionMap` but none of the evidence properties. `PasswordsStayKnown` rests on `HashStep`: a step that
replaces a hash is the commit of a handler that is about to answer with the new password. For the audit trail, `LogPendingStays` says that a log row still to
come is still to come, or a fault has been counted.

`SerialRoutesImplementLifecycle` and `SerialRoutesFollowMap` are stated for a single request slot (`\A q, r \in Requests : q = r`; payments are captured in between as they
like), because with two slots they are false: `routes_lost_update` is the counterexample. Their invariant
`NothingStale` says that what a request has read of its booking still holds; under the refinement mapping the
row's update is the abstract step, and the log row, the passwords' way to the provider and the reads are stutters.

### Payments

`PaymentServiceProofs`, for any bookings, orders, payments, keys, calls and faults:

| Theorem | Says |
|---|---|
| `PaymentTypes` | `Spec => []PaymentTypeOK` |
| `LedgersAgree` | `Spec => []LedgerAgrees` |
| `ProcessedIsCaptured` | `Spec => []ProcessedMeansCaptured` |
| `NothingToReconcile` | `Spec => []ReconciliationClean` |
| `PayoutRowsAgree` | `Spec => []PayoutsAgree`: the payout row exists from the final payment on, and is RELEASED when the booking says so |
| `PaymentsImplementRoutes` | `Spec => ImplementsRoutes` |
| `OnePayout` | one booking request at a time: `Spec => []OnePayoutPerBooking` |

The proof has two layers. `BooksStep` is what a step of any call or request does to the rows: a captured payment is recorded, an
order inserted, a payment made, a payout released, or the rows are left alone; `NextIsBooksStep` says that each action is one of the
five, given what its call has established (`CallsSound`). The invariant `BooksSound` is then about rows only: `Evidenced` from
`BookingRoutes`, which holds because every `BooksStep` is a step of the routes (`BooksStepIsRoutesStep`); the
agreement of the tables; and `SettledAtOnce`, that the states within a settlement are never left behind. What an event row says rests on it
(`EventsSound`). `OnePayout` needs one request at a time, and calls may overlap as they like: a request that writes a stale
PENDING_PAYMENT over a settled booking makes the final payment due again.

`WebhookReplayProofs` needs only that a replay is a `BooksStep` too, and an invariant for the two added columns:

| Theorem | Says |
|---|---|
| `CountedFailuresAreHarmless` | `ReplaySpec => []CountedFailuresWereRecorded` |
| `ReplayedIsCaptured` | `ReplaySpec => []ProcessedMeansCaptured` |
| `ReplayedLedgersAgree` | `ReplaySpec => []LedgerAgrees` |
| `ReplaysImplementRoutes` | `ReplaySpec => ImplementsRoutes` |

### Amounts and operators

`PaymentOperationsProofs` starts with the operators of `Amounts`, for every price, grain, rate and scale, and for
either way of rounding a half. They rest on `NearestBounds`: a result of `Nearest` is within half a unit of the quotient.

| Theorem | Says |
|---|---|
| `SplitWithinAPaisa` | deposit and final amount are together within a paisa of the stored price |
| `SplitLosesNothing` | a price of whole paise is split without loss |
| `CommissionWithinGross` | fee and share are not negative and add up to the gross |
| `FeesOfStagesAddUp` | fees of two amounts, rounded each by itself, are within a paisa of the fee of the sum |
| `CommissionIsKept` | `BooksSpec => []FeesAddUp` |
| `OperatorsChangeNothing` | `BooksSpec => Spec`: next to operators the service is that of `PaymentService` |
| `ReportsAreFair` | `BooksSpec => []NoFalseAlarm` |
| `PayoutsAreCollected` | `BooksSpec => []PayoutIsCollected` |
| `PayoutsAreFinal` | one booking request at a time: `BooksSpec => PaidOutStaysPaidOut` |

`AmountsSound` says that the amounts of a booking, written once by any step of any module below that inserts it, are
a split. `OperatorsChangeNothing` is why the theorems about payments hold here: a repair asks for a
transition that only leads from COMPLETED, which `SettledAtOnce` excludes. A report is fair because captures are never taken
back (`ReportSound`: what it found captured still is). `PayoutsAreCollected` puts all of them together; what escrow has collected is a sum
over a set of orders, and `SumsExist` and `SumBounds` say of such a sum that it is well defined and no less than any two of its
terms, by taking a smallest set that would be an exception (`SmallestSet`).

### Payouts

`PayoutAutomationProofs`, for any payouts, workers and connections, any `outcomes`, incidents and missed unlocks:

| Theorem | Says |
|---|---|
| `PayoutTypes` | `Spec => []PayoutTypeOK` |
| `WindowRespected` | `Spec => []NoTransferInDisputeWindow` |
| `RowsAgree` | `Spec => []PayoutRowsAgree` |
| `LocksCoverSections` | `Spec => []HoldersAreCovered` |
| `TransfersAreBounded` | `Spec => []TransfersBounded` |
| `OneRunSendsOnce` | one worker, no incident: `Spec => []TransferredOnce` |

The invariant `PayoutInv` adds `RunsSound` to the first three: a run past `TryLock` names a payout; one that is in its
transaction and may transfer read that the window had ended; one about to settle has its transfer at Razorpay.
The dispute window never reopens and a transfer is never taken back, so what a run read stays true, and
nothing in that argument needs the lock.

`LocksCoverSections` is about the lock. `Covers` is the property for one lock, and a run that enters or leaves a section changes the number of
those inside and the count of the session by one (`CoverEntered`, `CoverLeft`); that a second session is never granted a lock
that a first one has is what makes it inductive. `TransfersAreBounded` does not follow from it, because runs on one session share
a lock. Its invariant is `TransfersCounted`: until a payout is paid out, each of its transfers but the one that is about to be
recorded has cost an incident; after that, the transfers and the runs that may yet ask for one (`Underway`) are together no more than
workers and incidents. `OneWriter`, the row lock, says that there is one transfer about to be recorded. `OneRunSendsOnce` is its instance for a worker alone: what
`double_transfer` refutes does hold where nothing overlaps and nothing fails.

`AutomationJobProofs` proves `OneChain`, `FairJobSpec => []OneChainPerJob`, for any payouts, runs, incidents
and restarts. The property only speaks of timers and iterations; its invariant `JobInv` adds that a run is the iteration of a
job that runs, and of one only (`IterationsSound`), and that a job that runs was started (`Chained`). With it a run that ends, however
it ends, sets exactly the one timer that was missing (`RescheduleChains`, `EndsSound`), and nothing in the argument depends on what
the run did.

### Pages and chat

| Theorem | Says |
|---|---|
| `OwnWritesAreRead` | `BookingPages`: `Spec => []ReadYourWrites` |
| `OffersAgree` | `BookingPages`: `Spec => []OffersMatchApi` |
| `ShownOnce` | `BookingChat`: `Spec => []NothingShownTwice` |
| `OrderOfSenders` | `BookingChat`: `Spec => []SenderOrderKept` |

`BookingPagesProofs` has an invariant in two parts: `BookingSound` about the booking behind the pages, and
`PagesSound`, which says of every copy, shown or on its way, that it is old or is what the booking is now (`Seen`), and that a page
lacks a write of its own only while it shows an error or waits for the refetch, which was read after that write. Every change of the
booking is counted by its version (`NowMoves`), so a copy with the present version has missed nothing.

`BookingChatProofs` is about lists. The invariant `ChatInv` says of every list, shown, loaded or on its way, that it has stored
messages only, each once (`Faithful`), and none before one that its sender wrote earlier (`Sorted`, except for messages that were
given up). That is not inductive for the list on the page: an event is appended at its end, and if a later message of its
sender came with a load before, it would be out of order. So `Closed` says that what has a message has all that was
written before it and may still come, which holds of loads as long as they bring all rows, and `ButtonSound` why events come in
order: the page sends one message at a time, and the answer that ends its wait is not there before the event is out
(`Over`). `FirstUnsent` is about the `Min` of a set of messages, again by a smallest set.

### Only model-checked

`RepeatsBounded`, whose invariant would have to count the transfers that each stop of the process loses. Liveness, which the prover cannot do: `EndedSessionReachesPayment` (of the routes and of the pages), `ReplayRecordsMoney`,
`DuePayoutGoesOn`, `MessageReachesRoom`. Induction over data by the library's theorems is beyond it too; the one sum and the one minimum over
sets that the models use are handled by a smallest counterexample instead.

## 5. Disagreements found

Each is a run that TLC must find violated; the counterexample is what the code does, the property what
a comment, message, test or document says.

| Run | Property | What happens |
|---|---|---|
| `routes_lost_update` | `FollowsTransitionMap` | cancel and confirm overlap: CANCELLED_BY_OWNER becomes CONFIRMED, an illegal transition |
| `double_transfer` | `TransferredOnce` | without any fault, two overlapping runs get the payout's lock on one connection; both transfer, one result is recorded |

Behaviours of the code that are in the models, and that the properties above are worded around:

Bookings and payments

- otp/end commits before it answers: when the response is lost the provider never learns the password,
  and otp/end refuses a second call in PENDING_END_OTP, so the booking stays there (`ShowEndOtp` lost to `FailRequest`;
  the reason why `routes_serial` has no fault). `PasswordLostByFaultOnly` says that overlapping handlers alone never do that.
- A booking is inserted although a payment fell due after the soft lock's check, when the two requests overlap.
- The redelivery of an event after one failed attempt is "already processed" (`DeliverKnown`); only a replay by an operator
  records the payment then.
- Two deposit orders of one booking may both be captured, and nothing gives the second one back.
- The loser of two concurrent deliveries of an event runs its catch block and overwrites PROCESSED with
  FAILED (`RecordFailure`).
- A deposit order made in time can be paid after the booking was cancelled; it is captured.
- A stale read of the payment row lets a second payment replace the recorded payment id of an order.
- Without a top-level event id, payment.authorized takes the dedupe key of payment.captured; the capture is
  then "already processed" (the exception in `ReplayRecordsMoney`).
- Events that arrive during a pause are answered with 200 and lost, not delayed (`DeliverPaused`); there is no row that
  could be replayed.
- A tracking row can be inserted after the session ended.

Operators

- The report of a booking counts failed events by a booking id that only a processed event gets: a failure that
  lost a payment is not counted (`CountedFailuresWereRecorded`).
- An order made and paid while the report reads shows up as `orphan_escrow_row`.
- Repair asks for a transition to PAYOUT_PENDING, which `transitionMap` allows only from COMPLETED, a state that no
  booking is left in: on the bookings that can be reached it changes nothing (`RepairTarget`).
- For a price with a fraction of a paisa the two stages may be a paisa short of the estimated amount, which is what
  the provider is owed.

Payouts

- An unlock that misses, or that is never sent, leaves a lock to its session until the connection is
  closed; other sessions then skip that payout, or that job (`LockLeftBehind` in `DuePayoutGoesOn`).
- A run that is going on when SIGTERM comes loses its sessions, and with them its locks and its open transaction; it goes on without
  (`Disconnect`), and a transfer that was under way may be made again.
- The retry run resets the row it listed without looking again: a payout released since is READY once
  more, though its booking keeps it from being paid again.
- A failing audit insert after a transfer commits the booking as PAID_OUT without the PAYOUT row and with
  escrow unreleased (`AuditFails`).
- `releasePayout` does not know of transfers: next to a run that has made one, the payout row says it was paid
  by hand, and the provider may be paid twice.
- SIGTERM that comes while the server starts finds no jobs to stop; `bootstrap` then starts them in a process
  that is about to end (`StartJobs` after `Terminate`).

Pages and chat

- The end password is shown once, by the page that asked for it. After a reload nobody has it, and the booking stays in
  PENDING_END_OTP (`EndPasswordLost` in `EndedSessionReachesPayment`).
- A request that fails does not refetch: the page goes on offering what it offered, until the window gets the focus.
- The buttons are enabled while the Razorpay dialog is open or after it is dismissed; a second order of the same stage may be
  made and be paid (`Press` of `BookingPages` asks for no closed dialog, two orders of a stage are in `PaymentService`).
- A refetch that fails replaces the page by its error, until the next refetch.
- A load of messages that was read before an event arrives after it: the message shown vanishes until the next load.
- A socket that reconnects does not join the room again and gets no more events; one that a renewed session makes does.
- A message whose answer is lost is sent again by hand and stored twice.
- A crash between the row and the event of a message leaves it to the next load.

## 6. What is not modelled

- The relay of positions through the room and the provider's timer that posts them: each position stands for itself and
  overwrites nothing. The route that stores one is in `BookingRoutes`.
- Signing in and out, the redirects of `require-auth`, the choice of a role (planned, section 7). Reads of the user are not cancelled,
  so that a late answer may overwrite the user of a newer session; and `set-role` overwrites whatever role there is, though the
  onboarding page says that only support can switch it.
- The transfer that an order for a provider with an account makes at the capture. It leaves no row, so nothing relates it to the payout.
- The other web pages: forms and lists that read and write single rows.
- The batch limit of 20 payouts and its order; collisions of the hash that turns a lock name into a key.
- `PAYMENT_AUTOMATION_ENABLED` is taken to be on: when it is off there are no runs.
- Health, audit log, CSV export: they read, or append notes nobody reads back. Failure simulation: it throws
  where any statement may fail, which the models have anyway.
- Authentication, roles, rate limits and request validation: the models start where the handler's body
  does, for a caller with the right role. A refused message (`Refuse`) stands for the soft lock and the rate limit.
- Users, pets, providers: rows without a protocol.
- The state DISPUTED is in `transitionMap` but no route leads to it.
- Time, except as the order of steps and as the end of a dispute window; so also the length of delays and back-off.

## 7. Plan

1. Done, with proofs: `BookingStates`, `BookingRow`, `BookingLifecycle`, `BookingRoutes`; `PaymentService`, `WebhookReplay`;
   `Amounts`, `PaymentOperations`; `AdvisoryLock`, `PayoutAutomation`, `AutomationJob`; `BookingPages`; `BookingChat`.
2. `AccountSession`: the user, its late answers, the role and the redirects of the web application.
3. The batch: several payouts in order of `eligibleAt` and a limit below their number; a blocked
   batch starves the rest.
4. Proofs, beyond the properties that runs check: a mutex as abstract specification of `AdvisoryLock` for callers with a
   connection each; `FollowsTransitionMap` for any number of requests of which no two are for the same booking.
