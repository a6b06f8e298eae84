--------------------------- MODULE BookingRoutes ---------------------------
(***************************************************************************)
(* The booking routes of the API (routes/bookings.routes.ts), the          *)
(* transition helper they share (services/bookingService.ts) and the soft  *)
(* lock in front of booking creation (middleware/softLock.ts).             *)
(*                                                                         *)
(* Express handles requests concurrently: a handler is suspended at every  *)
(* await, so each of its database statements is a step of its own and the  *)
(* values it has read may be stale when it uses them.  transitionBooking-  *)
(* State reads the state, validates, and then updates by id alone; run     *)
(* inside prisma.$transaction (READ COMMITTED) the read still takes no     *)
(* lock, but the writes that follow it become visible together.            *)
(*                                                                         *)
(* Payments reach a booking through DepositCaptured and FinalCaptured,     *)
(* the effects on the booking row that module PaymentService implements.   *)
(***************************************************************************)
EXTENDS BookingStates, Naturals

CONSTANTS Bookings,     \* ids of booking rows that may be created
          Requests,     \* slots for booking requests in flight at a time
          StartOtps,    \* passwords that otp/start may draw
          EndOtps,      \* passwords that otp/end may draw
          NoOtp,        \* the null of otpStartHash and otpEndHash
          ownerOf,      \* the pet parent who creates each booking
          providerOf,   \* the provider whom it is made with
          MaxFaults     \* bound on lost responses and process crashes

\* A hash stands for its password.
Otps == StartOtps \cup EndOtps

ASSUME ConstantsAssumption ==
    /\ NoOtp \notin Otps
    /\ MaxFaults \in Nat

VARIABLES
    state,             \* Booking.state, "ABSENT" until the row is inserted
    depositPaidAt,     \* Booking.depositPaidAt is set
    finalPaidAt,       \* Booking.finalPaidAt is set
    payoutReleasedAt,  \* Booking.payoutReleasedAt is set, row payout-<id> exists
    otpStartHash,      \* Booking.otpStartHash
    otpEndHash,        \* Booking.otpEndHash
    stateLog,          \* BookingStateLog rows <<fromState, toState>> per booking
    tracking,          \* whether the session ran when SessionTracking rows were put
    startShown,        \* start passwords a provider got in a response
    endShown,          \* end passwords a provider got in a response
    req,               \* what each request slot is doing
    faults             \* faults so far, at most MaxFaults

paidColumns == <<depositPaidAt, finalPaidAt, payoutReleasedAt>>
otpColumns  == <<otpStartHash, otpEndHash>>
shown       == <<startShown, endShown>>
bookingVars == <<state, paidColumns, otpColumns, stateLog, tracking>>
routesVars  == <<bookingVars, shown, req, faults>>

-----------------------------------------------------------------------------
(* Requests *)

RowState == BookingState \cup {"ABSENT"}

TransitionKinds ==
    {"confirm", "cancelByOwner", "cancelByProvider", "otpStart",
     "startSession", "otpEnd", "endSession", "release"}

Kinds == TransitionKinds \cup {"create", "track"}

\* Handlers that run the transition and their other writes in one transaction.
Transactional == {"otpStart", "otpEnd", "release"}

\* The state each handler passes to transitionBookingState as nextState.
nextState ==
    [k \in TransitionKinds |->
        CASE k = "confirm"          -> "CONFIRMED"
          [] k = "cancelByOwner"    -> "CANCELLED_BY_OWNER"
          [] k = "cancelByProvider" -> "CANCELLED_BY_PROVIDER"
          [] k = "otpStart"         -> "OTP_READY"
          [] k = "startSession"     -> "IN_PROGRESS"
          [] k = "otpEnd"           -> "PENDING_END_OTP"
          [] k = "endSession"       -> "PENDING_PAYMENT"
          [] k = "release"          -> "PAID_OUT"]

\* admitted:  the handler's own read of the booking passed its checks;
\* validated: transitionBookingState read `from` and found the step legal;
\* updated:   the state column is written, its log row is not;
\* answered:  everything is committed and the response carries the password.
Request ==
    [pc      : {"admitted", "validated", "updated", "answered"},
     kind    : Kinds,
     booking : Bookings,
     from    : RowState,
     otp     : Otps \cup {NoOtp}]

Idle == [pc |-> "idle"]

InFlight(r) == req[r].pc # "idle"
At(r, pc, kinds) == req[r].pc = pc /\ req[r].kind \in kinds

Exists(b) == state[b] # "ABSENT"

\* The handler's first read of the booking found nothing to object to.
Admit(r, b, kind) ==
    /\ ~InFlight(r)
    /\ req' = [req EXCEPT ![r] = [pc |-> "admitted", kind |-> kind,
                 booking |-> b, from |-> "ABSENT", otp |-> NoOtp]]
    /\ UNCHANGED <<bookingVars, shown, faults>>

\* Mutant of Finish: the slot is marked free but keeps the finished request.
FinishWithoutReset(r) == req' = [req EXCEPT ![r].pc = "idle"]

Finish(r) == req' = [req EXCEPT ![r] = Idle]

-----------------------------------------------------------------------------
(* POST /bookings: the soft lock, then the insert *)

\* Mutant of SoftLockStates: a payment that is due does not lock yet.
SoftLockStatesOfPaying == {"PAYMENT_LOCKED"}

SoftLockStates == {"PENDING_PAYMENT", "PAYMENT_LOCKED"}

SoftLocked(u) ==
    \E b \in Bookings : u \in {ownerOf[b], providerOf[b]} /\ state[b] \in SoftLockStates

AdmitCreate(r, b) ==
    /\ ~Exists(b)
    /\ \A q \in Requests : InFlight(q) => req[q].kind # "create" \/ req[q].booking # b
    /\ ~SoftLocked(ownerOf[b])
    /\ Admit(r, b, "create")

InsertBooking(r) ==
    /\ At(r, "admitted", {"create"})
    /\ state' = [state EXCEPT ![req[r].booking] = "REQUESTED"]
    /\ Finish(r)
    /\ UNCHANGED <<paidColumns, otpColumns, stateLog, tracking, shown, faults>>

-----------------------------------------------------------------------------
(* Admission of the transition requests *)

\* /confirm and /cancel check the caller only.
AdmitConfirm(r, b) == Exists(b) /\ Admit(r, b, "confirm")

AdmitCancel(r, b) ==
    /\ Exists(b)
    /\ Admit(r, b, "cancelByOwner") \/ Admit(r, b, "cancelByProvider")

\* Mutant of DepositCollected: /otp/start without the DEPOSIT_REQUIRED check.
DepositNotChecked(b) == TRUE

\* /otp/start refuses while depositPaidAt is null.
DepositCollected(b) == depositPaidAt[b]

AdmitOtpStart(r, b) ==
    Exists(b) /\ DepositCollected(b) /\ Admit(r, b, "otpStart")

AdmitOtpEnd(r, b) == Exists(b) /\ Admit(r, b, "otpEnd")

\* Mutant of AdmitStartSession: any submitted password starts the session.
AdmitStartSessionUnchecked(r, b) == Exists(b) /\ Admit(r, b, "startSession")

\* /start-session and /end-session compare the hash of the submitted password.
\* Owners submit passwords that the provider was shown.
StartOtpMatches(b, otp) == otpStartHash[b] = otp

AdmitStartSession(r, b) ==
    /\ Exists(b)
    /\ \E otp \in startShown[b] : StartOtpMatches(b, otp)
    /\ Admit(r, b, "startSession")

\* Mutant of EndOtpMatches: /end-session compares with the start hash.
EndOtpMatchesStart(b, otp) == otpStartHash[b] = otp

EndOtpMatches(b, otp) == otpEndHash[b] = otp

AdmitEndSession(r, b) ==
    /\ Exists(b)
    /\ \E otp \in endShown[b] : EndOtpMatches(b, otp)
    /\ Admit(r, b, "endSession")

\* releasePayout checks the state itself before it calls the helper.
AdmitRelease(r, b) == state[b] = "PAYOUT_PENDING" /\ Admit(r, b, "release")

-----------------------------------------------------------------------------
(* transitionBookingState *)

Target(r) == nextState[req[r].kind]

LegalNow(r) == CanTransition(state[req[r].booking], Target(r))

ReadState(r) ==
    /\ At(r, "admitted", TransitionKinds)
    /\ LegalNow(r)
    /\ req' = [req EXCEPT ![r].pc = "validated", ![r].from = state[req[r].booking]]
    /\ UNCHANGED <<bookingVars, shown, faults>>

\* validateStateTransition throws: nothing was written.
RejectState(r) ==
    /\ At(r, "admitted", TransitionKinds)
    /\ ~LegalNow(r)
    /\ Finish(r)
    /\ UNCHANGED <<bookingVars, shown, faults>>

\* db.booking.update({ where: { id } }): the state that was read is not compared.
SetState(r) == state' = [state EXCEPT ![req[r].booking] = Target(r)]

\* Mutant of LogTransition: fromState is read again, after the update.
LogTransitionLate(r) ==
    stateLog' = [stateLog EXCEPT ![req[r].booking] =
                     @ \cup {<<state[req[r].booking], Target(r)>>}]

LogTransition(r) ==
    stateLog' = [stateLog EXCEPT ![req[r].booking] = @ \cup {<<req[r].from, Target(r)>>}]

\* Outside a transaction the update and the log row are separate commits.
UpdateState(r) ==
    /\ At(r, "validated", TransitionKinds \ Transactional)
    /\ SetState(r)
    /\ req' = [req EXCEPT ![r].pc = "updated"]
    /\ UNCHANGED <<paidColumns, otpColumns, stateLog, tracking, shown, faults>>

AppendLog(r) ==
    /\ At(r, "updated", TransitionKinds \ Transactional)
    /\ LogTransition(r)
    /\ Finish(r)
    /\ UNCHANGED <<state, paidColumns, otpColumns, tracking, shown, faults>>

-----------------------------------------------------------------------------
(* The transactional handlers: state, log row and column commit together *)

\* Mutant of Answer: the password in the response is another one than was hashed.
AnswerAnew(r, otp) ==
    \E other \in Otps : req' = [req EXCEPT ![r].pc = "answered", ![r].otp = other]

Answer(r, otp) == req' = [req EXCEPT ![r].pc = "answered", ![r].otp = otp]

CommitOtpStart(r) ==
    /\ At(r, "validated", {"otpStart"})
    /\ SetState(r)
    /\ LogTransition(r)
    /\ \E otp \in StartOtps :
          /\ otpStartHash' = [otpStartHash EXCEPT ![req[r].booking] = otp]
          /\ Answer(r, otp)
    /\ UNCHANGED <<paidColumns, otpEndHash, tracking, shown, faults>>

CommitOtpEnd(r) ==
    /\ At(r, "validated", {"otpEnd"})
    /\ SetState(r)
    /\ LogTransition(r)
    /\ \E otp \in EndOtps :
          /\ otpEndHash' = [otpEndHash EXCEPT ![req[r].booking] = otp]
          /\ Answer(r, otp)
    /\ UNCHANGED <<paidColumns, otpStartHash, tracking, shown, faults>>

\* The provider receives the password of the request that was answered.
ShowStartOtp(r) ==
    /\ At(r, "answered", {"otpStart"})
    /\ startShown' = [startShown EXCEPT ![req[r].booking] = @ \cup {req[r].otp}]
    /\ Finish(r)
    /\ UNCHANGED <<bookingVars, endShown, faults>>

ShowEndOtp(r) ==
    /\ At(r, "answered", {"otpEnd"})
    /\ endShown' = [endShown EXCEPT ![req[r].booking] = @ \cup {req[r].otp}]
    /\ Finish(r)
    /\ UNCHANGED <<bookingVars, startShown, faults>>

\* releasePayout; its row payout-<id> has a unique idempotency key.
CommitRelease(r) ==
    LET b == req[r].booking IN
    /\ At(r, "validated", {"release"})
    /\ ~payoutReleasedAt[b]
    /\ SetState(r)
    /\ LogTransition(r)
    /\ payoutReleasedAt' = [payoutReleasedAt EXCEPT ![b] = TRUE]
    /\ Finish(r)
    /\ UNCHANGED <<depositPaidAt, finalPaidAt, otpColumns, tracking, shown, faults>>

\* The second payout-<id> row is refused and the transaction rolls back.
AbortRelease(r) ==
    /\ At(r, "validated", {"release"})
    /\ payoutReleasedAt[req[r].booking]
    /\ Finish(r)
    /\ UNCHANGED <<bookingVars, shown, faults>>

-----------------------------------------------------------------------------
(* POST /session-tracking: check, then insert *)

AdmitTracking(r, b) == state[b] = "IN_PROGRESS" /\ Admit(r, b, "track")

Session(b) == IF state[b] = "IN_PROGRESS" THEN "RUNNING" ELSE "NOT_RUNNING"

InsertTracking(r) ==
    LET b == req[r].booking IN
    /\ At(r, "admitted", {"track"})
    /\ tracking' = [tracking EXCEPT ![b] = @ \cup {Session(b)}]
    /\ Finish(r)
    /\ UNCHANGED <<state, paidColumns, otpColumns, stateLog, shown, faults>>

-----------------------------------------------------------------------------
(* Faults *)

CanFail == faults < MaxFaults /\ faults' = faults + 1

\* A statement fails, or the response of a finished request is lost.
FailRequest(r) ==
    /\ InFlight(r)
    /\ CanFail
    /\ Finish(r)
    /\ UNCHANGED <<bookingVars, shown>>

\* The process dies: open transactions roll back, every request is gone.
CrashRequests ==
    /\ CanFail
    /\ req' = [r \in Requests |-> Idle]
    /\ UNCHANGED <<bookingVars, shown>>

-----------------------------------------------------------------------------
(* What a captured payment does to the booking row *)

SettlementLog ==
    {<<"PENDING_PAYMENT", "PAYMENT_LOCKED">>, <<"PAYMENT_LOCKED", "COMPLETED">>,
     <<"COMPLETED", "PAYOUT_PENDING">>}

MarkDepositPaid(b) ==
    /\ depositPaidAt' = [depositPaidAt EXCEPT ![b] = TRUE]
    /\ UNCHANGED <<state, finalPaidAt, payoutReleasedAt, otpColumns, stateLog,
                   tracking>>

\* Mutant of SettleBooking: finalPaidAt is not written.
SettleBookingUnrecorded(b) ==
    /\ CanTransition(state[b], "PAYMENT_LOCKED")
    /\ state' = [state EXCEPT ![b] = "PAYOUT_PENDING"]
    /\ stateLog' = [stateLog EXCEPT ![b] = @ \cup SettlementLog]
    /\ UNCHANGED <<paidColumns, otpColumns, tracking>>

\* The three transitions run in one transaction that has already locked the
\* booking row, so they commit as one step from PENDING_PAYMENT.
SettleBooking(b) ==
    /\ CanTransition(state[b], "PAYMENT_LOCKED")
    /\ state' = [state EXCEPT ![b] = "PAYOUT_PENDING"]
    /\ finalPaidAt' = [finalPaidAt EXCEPT ![b] = TRUE]
    /\ stateLog' = [stateLog EXCEPT ![b] = @ \cup SettlementLog]
    /\ UNCHANGED <<depositPaidAt, payoutReleasedAt, otpColumns, tracking>>

DepositCaptured(b) ==
    /\ Exists(b)
    /\ MarkDepositPaid(b)
    /\ UNCHANGED <<shown, req, faults>>

FinalCaptured(b) ==
    /\ Exists(b)
    /\ SettleBooking(b)
    /\ UNCHANGED <<shown, req, faults>>

-----------------------------------------------------------------------------

RoutesInit ==
    /\ state = [b \in Bookings |-> "ABSENT"]
    /\ depositPaidAt = [b \in Bookings |-> FALSE]
    /\ finalPaidAt = [b \in Bookings |-> FALSE]
    /\ payoutReleasedAt = [b \in Bookings |-> FALSE]
    /\ otpStartHash = [b \in Bookings |-> NoOtp]
    /\ otpEndHash = [b \in Bookings |-> NoOtp]
    /\ stateLog = [b \in Bookings |-> {}]
    /\ tracking = [b \in Bookings |-> {}]
    /\ startShown = [b \in Bookings |-> {}]
    /\ endShown = [b \in Bookings |-> {}]
    /\ req = [r \in Requests |-> Idle]
    /\ faults = 0

\* A new request arrives and passes the checks of its handler.
Arrive(r, b) ==
    \/ AdmitCreate(r, b)
    \/ AdmitConfirm(r, b)
    \/ AdmitCancel(r, b)
    \/ AdmitOtpStart(r, b)
    \/ AdmitStartSession(r, b)
    \/ AdmitOtpEnd(r, b)
    \/ AdmitEndSession(r, b)
    \/ AdmitTracking(r, b)
    \/ AdmitRelease(r, b)

\* The next statement of a request in flight.
Advance(r) ==
    \/ InsertBooking(r)
    \/ ReadState(r)
    \/ RejectState(r)
    \/ UpdateState(r)
    \/ AppendLog(r)
    \/ CommitOtpStart(r)
    \/ ShowStartOtp(r)
    \/ CommitOtpEnd(r)
    \/ ShowEndOtp(r)
    \/ CommitRelease(r)
    \/ AbortRelease(r)
    \/ InsertTracking(r)

RequestStep ==
    \/ \E r \in Requests, b \in Bookings : Arrive(r, b)
    \/ \E r \in Requests : Advance(r) \/ FailRequest(r)
    \/ CrashRequests

CaptureStep == \E b \in Bookings : DepositCaptured(b) \/ FinalCaptured(b)

RoutesNext == RequestStep \/ CaptureStep

RoutesSpec == RoutesInit /\ [][RoutesNext]_routesVars

-----------------------------------------------------------------------------
(* Properties *)

TypeOK ==
    /\ state \in [Bookings -> RowState]
    /\ depositPaidAt \in [Bookings -> BOOLEAN]
    /\ finalPaidAt \in [Bookings -> BOOLEAN]
    /\ payoutReleasedAt \in [Bookings -> BOOLEAN]
    /\ otpStartHash \in [Bookings -> Otps \cup {NoOtp}]
    /\ otpEndHash \in [Bookings -> Otps \cup {NoOtp}]
    /\ stateLog \in [Bookings -> SUBSET (BookingState \X BookingState)]
    /\ tracking \in [Bookings -> SUBSET {"RUNNING", "NOT_RUNNING"}]
    /\ startShown \in [Bookings -> SUBSET Otps]
    /\ endShown \in [Bookings -> SUBSET Otps]
    /\ req \in [Requests -> Request \cup {Idle}]
    /\ faults \in 0 .. MaxFaults

SettledStates == {"PAYMENT_LOCKED", "COMPLETED", "PAYOUT_PENDING", "PAID_OUT"}
EndedStates   == {"PENDING_PAYMENT"} \cup SettledStates
StartedStates == {"IN_PROGRESS", "PENDING_END_OTP"} \cup EndedStates
ServiceStates == {"OTP_READY"} \cup StartedStates

\* The start password is issued only against a paid deposit (otp/start,
\* DEPOSIT_REQUIRED), and no interleaving of requests, whatever stale state
\* their updates rest on, brings a booking without deposit to service.
DepositBeforeService ==
    \A b \in Bookings : state[b] \in ServiceStates => depositPaidAt[b]

\* The two-sided handshake: a session runs, or is tracked, only when the
\* provider was shown a start password that the owner then submitted, and
\* payment falls due only after the same with an end password.
HandshakeEvidence ==
    \A b \in Bookings :
        /\ state[b] = "OTP_READY" => otpStartHash[b] # NoOtp
        /\ state[b] \in StartedStates \/ tracking[b] # {} => startShown[b] # {}
        /\ state[b] \in EndedStates => endShown[b] # {}

\* A password that matches the hash of the row was shown to the provider, or is in
\* an answer on its way to him.
StartOtpKnown(b) ==
    \/ otpStartHash[b] \in startShown[b] \cup {NoOtp}
    \/ \E r \in Requests : /\ At(r, "answered", {"otpStart"}) /\ req[r].booking = b
                          /\ StartOtpMatches(b, req[r].otp)

EndOtpKnown(b) ==
    \/ otpEndHash[b] \in endShown[b] \cup {NoOtp}
    \/ \E r \in Requests : /\ At(r, "answered", {"otpEnd"}) /\ req[r].booking = b
                          /\ EndOtpMatches(b, req[r].otp)

\* However handlers of otp/start and otp/end overlap and replace each other's hash,
\* the provider can learn the password that opens the booking: only a lost
\* response or a crash between commit and answer makes it unknown.
PasswordLostByFaultOnly ==
    faults = 0 => \A b \in Bookings : StartOtpKnown(b) /\ EndOtpKnown(b)

\* Money moves in order: a booking awaits or has its payout only after the
\* final payment, and the final payment is recorded only after the deposit.
PayoutAfterPayments ==
    \A b \in Bookings :
        /\ state[b] \in SettledStates \/ payoutReleasedAt[b] => finalPaidAt[b]
        /\ finalPaidAt[b] => depositPaidAt[b]

\* The audit trail: each log row is a legal transition, a state written by a
\* transaction always has the row that explains it, and a state written
\* outside one lacks it only while its request is between its two writes or
\* after a fault took that request away.
AuditTrail ==
    \A b \in Bookings :
        /\ \A row \in stateLog[b] : CanTransition(row[1], row[2])
        /\ \/ state[b] \in {"ABSENT", "REQUESTED"}
           \/ \E from \in BookingState : <<from, state[b]>> \in stateLog[b]
           \/ /\ state[b] \notin {"OTP_READY", "PENDING_END_OTP",
                                  "PAYOUT_PENDING", "PAID_OUT"}
              /\ \/ faults > 0
                 \/ \E r \in Requests :
                       /\ At(r, "updated", TransitionKinds)
                       /\ req[r].booking = b /\ Target(r) = state[b]

\* Each booking moves only along transitionMap; the settlement of a final
\* payment takes three of its steps at once (tests/stateMachine.test.ts: an
\* illegal move such as PAID_OUT to PAYOUT_PENDING is refused).
FollowsTransitionMap ==
    [][\A b \in Bookings :
          \/ state'[b] = state[b]
          \/ state[b] = "ABSENT" /\ state'[b] = "REQUESTED"
          \/ Exists(b) /\ CanTransition(state[b], state'[b])
          \/ state[b] = "PENDING_PAYMENT" /\ state'[b] = "PAYOUT_PENDING"]_routesVars

\* One request at a time is indistinguishable from the lifecycle that the
\* routes promise, the soft lock and the tracking of running sessions included:
\* BookingLifecycle, with the columns as its variables.
Lifecycle == INSTANCE BookingLifecycle WITH
    depositPaid <- depositPaidAt, finalPaid <- finalPaidAt, paidOut <- payoutReleasedAt

ImplementsLifecycle == Lifecycle!LifecycleSpec

\* The event loop resumes every handler; the provider keeps asking for an end
\* password and an owner who was told one that still works keeps submitting it.
FairRoutesSpec ==
    /\ RoutesSpec
    /\ \A r \in Requests : WF_routesVars(Advance(r))
    /\ \A b \in Bookings :
          /\ SF_routesVars(\E r \in Requests : AdmitOtpEnd(r, b))
          /\ SF_routesVars(\E r \in Requests : AdmitEndSession(r, b))

\* A session whose end was requested reaches payment ("Start/end OTP flow ->
\* PENDING_PAYMENT"): the booking does not stay behind in PENDING_END_OTP.
EndedSessionReachesPayment ==
    \A b \in Bookings : state[b] = "PENDING_END_OTP" ~> state[b] = "PENDING_PAYMENT"

=============================================================================
