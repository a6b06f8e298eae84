------------------------ MODULE BookingRoutesProofs -------------------------
(***************************************************************************)
(* Proofs about BookingRoutes, for any number of bookings, request slots,  *)
(* passwords and faults.                                                   *)
(*                                                                         *)
(* Lost updates make the state column jump against transitionMap, so the   *)
(* safety of the money cannot rest on the order of the states.  It rests   *)
(* on evidence that only grows: a paid column is never reset, a password   *)
(* that was shown stays shown.  Evidence that held when a request read the *)
(* state still holds when its update lands, however late.                  *)
(***************************************************************************)
EXTENDS BookingRoutes, TLAPS

-----------------------------------------------------------------------------
(* Structure: types, and what a request in flight has already established *)

\* A request that reads a booking names one that exists, and one that is past
\* transitionBookingState's validation carries a legal transition.
RequestSound(r) ==
    InFlight(r) =>
        /\ req[r].kind # "create" => Exists(req[r].booking)
        /\ req[r].pc \in {"validated", "updated"} =>
              /\ req[r].kind \in TransitionKinds
              /\ req[r].from \in BookingState
              /\ CanTransition(req[r].from, Target(r))
        /\ req[r].pc = "answered" => req[r].otp \in Otps

Structure == TypeOK /\ \A r \in Requests : RequestSound(r)

\* Every handler hands a real booking state to transitionBookingState.
LEMMA TargetType == \A k \in TransitionKinds : nextState[k] \in BookingState
BY DEF nextState, TransitionKinds, BookingState

\* What the type invariant says of one request in flight.
LEMMA RequestType ==
    ASSUME TypeOK, NEW r \in Requests, InFlight(r)
    PROVE  /\ req[r] \in Request
           /\ req[r].booking \in Bookings
           /\ req[r].kind \in Kinds
           /\ req[r].kind \in TransitionKinds => Target(r) \in BookingState
BY TargetType DEF TypeOK, InFlight, Idle, Request, Target

\* The variables keep their types through every step of a request slot.
LEMMA TypeAdvance ==
    ASSUME Structure, NEW r \in Requests, Advance(r)
    PROVE  TypeOK'
<1> USE ConstantsAssumption DEF At, Structure
<1>0. InFlight(r)
  BY DEF Advance, InsertBooking, ReadState, RejectState, UpdateState, AppendLog,
     CommitOtpStart, ShowStartOtp, CommitOtpEnd, ShowEndOtp, CommitRelease,
     AbortRelease, InsertTracking, InFlight
<1>1. /\ req[r] \in Request
      /\ req[r].booking \in Bookings
      /\ req[r].kind \in TransitionKinds => Target(r) \in BookingState
  BY <1>0, RequestType
<1>2. CASE InsertBooking(r)
  BY <1>1, <1>2 DEF InsertBooking, TypeOK, Finish, Idle, RowState, BookingState,
     paidColumns, otpColumns, shown
<1>3. CASE ReadState(r)
  BY <1>1, <1>3 DEF ReadState, TypeOK, Request, RowState, bookingVars, paidColumns,
     otpColumns, shown
<1>4. CASE RejectState(r) \/ AbortRelease(r)
  BY <1>4 DEF RejectState, AbortRelease, TypeOK, Finish, bookingVars, paidColumns,
     otpColumns, shown
<1>5. CASE UpdateState(r)
  BY <1>1, <1>5 DEF UpdateState, SetState, TypeOK, Request, RowState, paidColumns,
     otpColumns, shown
<1>6. CASE AppendLog(r)
  BY <1>0, <1>1, <1>6 DEF AppendLog, LogTransition, RequestSound, TypeOK, Finish,
     paidColumns, otpColumns, shown
<1>7. CASE CommitOtpStart(r) \/ CommitOtpEnd(r)
  <2>1. /\ req[r].from \in BookingState
        /\ Target(r) \in BookingState
    BY <1>0, <1>1, <1>7 DEF CommitOtpStart, CommitOtpEnd, RequestSound, TransitionKinds
  <2>2. PICK otp \in Otps :
           /\ Answer(r, otp)
           /\ otpStartHash' \in [Bookings -> Otps \cup {NoOtp}]
           /\ otpEndHash' \in [Bookings -> Otps \cup {NoOtp}]
    BY <1>1, <1>7 DEF CommitOtpStart, CommitOtpEnd, Otps, TypeOK
  <2>3. req' \in [Requests -> Request \cup {Idle}]
    BY <1>1, <2>2 DEF Answer, TypeOK, Request
  <2>4. /\ state' \in [Bookings -> RowState]
        /\ stateLog' \in [Bookings -> SUBSET (BookingState \X BookingState)]
    BY <1>1, <1>7, <2>1 DEF CommitOtpStart, CommitOtpEnd, SetState, LogTransition, TypeOK,
       RowState
  <2> QED
    BY <1>7, <2>2, <2>3, <2>4 DEF CommitOtpStart, CommitOtpEnd, TypeOK, paidColumns,
       otpColumns, shown
<1>8. CASE ShowStartOtp(r) \/ ShowEndOtp(r)
  BY <1>0, <1>1, <1>8 DEF ShowStartOtp, ShowEndOtp, RequestSound, TypeOK, Request, Finish,
     bookingVars, paidColumns, otpColumns, shown
<1>9. CASE CommitRelease(r)
  BY <1>0, <1>1, <1>9 DEF CommitRelease, SetState, LogTransition, RequestSound, TypeOK,
     Finish, RowState, TransitionKinds, paidColumns, otpColumns, shown
<1>10. CASE InsertTracking(r)
  BY <1>0, <1>1, <1>10 DEF InsertTracking, Session, RequestSound, Exists, TypeOK, Finish, RowState,
     paidColumns, otpColumns, shown
<1> QED
  BY <1>2, <1>3, <1>4, <1>5, <1>6, <1>7, <1>8, <1>9, <1>10 DEF Advance

\* A new request, a fault and a capture keep the types as well.
LEMMA TypeOther ==
    ASSUME Structure
    PROVE  /\ \A r \in Requests, b \in Bookings : Arrive(r, b) => TypeOK'
           /\ \A r \in Requests : FailRequest(r) => TypeOK'
           /\ CrashRequests => TypeOK'
           /\ CaptureStep => TypeOK'
<1> USE ConstantsAssumption DEF Structure
<1>1. ASSUME NEW r \in Requests, NEW b \in Bookings, Arrive(r, b)
      PROVE  TypeOK'
  <2>1. PICK kind \in Kinds : Admit(r, b, kind)
    BY <1>1 DEF Arrive, AdmitCreate, AdmitConfirm, AdmitCancel, AdmitOtpStart,
       AdmitStartSession, AdmitOtpEnd, AdmitEndSession, AdmitTracking,
       AdmitRelease, Kinds, TransitionKinds
  <2> QED
    BY <2>1 DEF TypeOK, Admit, Request, RowState, Idle, bookingVars, paidColumns,
       otpColumns, shown
<1>2. ASSUME NEW r \in Requests, FailRequest(r)
      PROVE  TypeOK'
  BY <1>2 DEF FailRequest, CanFail, Finish, TypeOK, bookingVars, paidColumns, otpColumns,
     shown
<1>3. CrashRequests => TypeOK'
  BY DEF CrashRequests, CanFail, TypeOK, bookingVars, paidColumns, otpColumns, shown
<1>4. ASSUME NEW b \in Bookings, DepositCaptured(b) \/ FinalCaptured(b)
      PROVE  TypeOK'
  <2>1. SettlementLog \in SUBSET (BookingState \X BookingState)
    BY DEF SettlementLog, BookingState
  <2>2. CASE DepositCaptured(b)
    BY <2>2 DEF DepositCaptured, MarkDepositPaid, TypeOK, otpColumns, shown
  <2>3. CASE FinalCaptured(b)
    <3>1. /\ state' \in [Bookings -> RowState]
          /\ finalPaidAt' \in [Bookings -> BOOLEAN]
      BY <2>3 DEF FinalCaptured, SettleBooking, TypeOK, RowState, BookingState
    <3>2. stateLog' \in [Bookings -> SUBSET (BookingState \X BookingState)]
      BY <2>1, <2>3 DEF FinalCaptured, SettleBooking, TypeOK
    <3> QED
      BY <2>3, <3>1, <3>2 DEF FinalCaptured, SettleBooking, TypeOK, otpColumns, shown
  <2> QED
    BY <1>4, <2>2, <2>3
<1> QED
  BY <1>1, <1>2, <1>3, <1>4 DEF CaptureStep

\* Evidence only grows: no step of the routes undoes a paid column, forgets a
\* password, or removes a booking row.
LEMMA EvidenceGrows ==
    ASSUME Structure, [RoutesNext]_routesVars, NEW b \in Bookings
    PROVE  /\ Exists(b) => Exists(b)'
           /\ depositPaidAt[b] => depositPaidAt'[b]
           /\ finalPaidAt[b] => finalPaidAt'[b]
           /\ startShown[b] \subseteq startShown'[b]
           /\ endShown[b] \subseteq endShown'[b]
           /\ otpStartHash[b] # NoOtp => otpStartHash'[b] # NoOtp
<1> DEFINE Grows ==
             /\ Exists(b) => Exists(b)'
             /\ depositPaidAt[b] => depositPaidAt'[b]
             /\ finalPaidAt[b] => finalPaidAt'[b]
             /\ startShown[b] \subseteq startShown'[b]
             /\ endShown[b] \subseteq endShown'[b]
             /\ otpStartHash[b] # NoOtp => otpStartHash'[b] # NoOtp
<1>1. ASSUME UNCHANGED <<bookingVars, shown>>
      PROVE  Grows
  BY <1>1 DEF bookingVars, paidColumns, otpColumns, shown, Exists
<1>2. ASSUME NEW r \in Requests, Advance(r)
      PROVE  Grows
  <2> USE DEF At, Structure
  <2>0. InFlight(r)
    BY <1>2 DEF Advance, InsertBooking, ReadState, RejectState, UpdateState, AppendLog,
       CommitOtpStart, ShowStartOtp, CommitOtpEnd, ShowEndOtp, CommitRelease,
       AbortRelease, InsertTracking, InFlight
  <2>1. /\ req[r].booking \in Bookings
        /\ req[r].kind \in TransitionKinds => Target(r) # "ABSENT"
    BY <2>0, RequestType DEF BookingState
  <2>2. CASE ReadState(r) \/ RejectState(r) \/ AbortRelease(r)
    BY <1>1, <2>2 DEF ReadState, RejectState, AbortRelease
  <2>3. CASE InsertBooking(r) \/ UpdateState(r)
    BY <2>1, <2>3 DEF InsertBooking, UpdateState, SetState, TypeOK, paidColumns, otpColumns,
       shown, Exists
  <2>4. CASE AppendLog(r) \/ InsertTracking(r)
    BY <2>4 DEF AppendLog, InsertTracking, paidColumns, otpColumns, shown, Exists
  <2>5. CASE CommitOtpStart(r) \/ CommitOtpEnd(r)
    BY <2>1, <2>5, ConstantsAssumption DEF CommitOtpStart, CommitOtpEnd, Otps, SetState, TypeOK,
       TransitionKinds, paidColumns, otpColumns, shown, Exists
  <2>6. CASE ShowStartOtp(r) \/ ShowEndOtp(r)
    BY <2>1, <2>6 DEF ShowStartOtp, ShowEndOtp, TypeOK, bookingVars, paidColumns,
       otpColumns, shown, Exists
  <2>7. CASE CommitRelease(r)
    BY <2>1, <2>7 DEF CommitRelease, SetState, TypeOK, TransitionKinds, paidColumns,
       otpColumns, shown, Exists
  <2> QED
    BY <1>2, <2>2, <2>3, <2>4, <2>5, <2>6, <2>7 DEF Advance
<1>3. ASSUME CaptureStep
      PROVE  Grows
  BY <1>3 DEF CaptureStep, DepositCaptured, FinalCaptured, MarkDepositPaid, SettleBooking,
     Structure, TypeOK, otpColumns, shown, Exists
<1>4. ASSUME NEW r \in Requests, NEW c \in Bookings, Arrive(r, c)
      PROVE  UNCHANGED <<bookingVars, shown>>
  BY <1>4 DEF Arrive, AdmitCreate, AdmitConfirm, AdmitCancel, AdmitOtpStart,
     AdmitStartSession, AdmitOtpEnd, AdmitEndSession, AdmitTracking, AdmitRelease, Admit
<1> QED
  BY <1>1, <1>2, <1>3, <1>4 DEF RoutesNext, RequestStep, FailRequest, CrashRequests,
     routesVars

\* From the point of view of one slot, a step is one of its own, or clears it,
\* or leaves it alone.
LEMMA SlotStep ==
    ASSUME TypeOK, [RoutesNext]_routesVars, NEW q \in Requests
    PROVE  \/ \E b \in Bookings : Arrive(q, b)
           \/ Advance(q)
           \/ req'[q] = Idle
           \/ req'[q] = req[q]
<1>1. ASSUME NEW r \in Requests, r # q,
             Advance(r) \/ FailRequest(r) \/ \E b \in Bookings : Arrive(r, b)
      PROVE  req'[q] = req[q]
  BY <1>1 DEF Advance, InsertBooking, ReadState, RejectState, UpdateState, AppendLog,
     CommitOtpStart, ShowStartOtp, CommitOtpEnd, ShowEndOtp, CommitRelease, AbortRelease,
     InsertTracking, FailRequest, Finish, Answer, Arrive, AdmitCreate, AdmitConfirm,
     AdmitCancel, AdmitOtpStart, AdmitStartSession, AdmitOtpEnd, AdmitEndSession,
     AdmitTracking, AdmitRelease, Admit, TypeOK
<1>2. ASSUME FailRequest(q) \/ CrashRequests
      PROVE  req'[q] = Idle
  BY <1>2 DEF FailRequest, CrashRequests, Finish, TypeOK
<1>3. ASSUME CaptureStep \/ UNCHANGED routesVars
      PROVE  req'[q] = req[q]
  BY <1>3 DEF CaptureStep, DepositCaptured, FinalCaptured, routesVars
<1> QED
  BY <1>1, <1>2, <1>3 DEF RoutesNext, RequestStep

\* A new request is sound, and each statement of a request in flight keeps it sound.
LEMMA RequestsStep ==
    ASSUME Structure, [RoutesNext]_routesVars, NEW q \in Requests
    PROVE  RequestSound(q)'
<1> USE DEF At, Structure
<1>0. \A b \in Bookings : Exists(b) => Exists(b)'
  BY EvidenceGrows
<1>1. ASSUME req'[q] = req[q]
      PROVE  RequestSound(q)'
  <2>1. InFlight(q) => req[q].booking \in Bookings
    BY RequestType
  <2>2. /\ InFlight(q)' = InFlight(q)
        /\ Target(q)' = Target(q)
    BY <1>1 DEF InFlight, Target
  <2> QED
    BY <1>0, <1>1, <2>1, <2>2 DEF RequestSound, CanTransition
<1>2. ASSUME req'[q] = Idle
      PROVE  RequestSound(q)'
  BY <1>2 DEF RequestSound, InFlight, Idle
<1>3. ASSUME NEW b \in Bookings, Arrive(q, b)
      PROVE  RequestSound(q)'
  <2>1. PICK kind \in Kinds :
           /\ Admit(q, b, kind)
           /\ kind # "create" => Exists(b)
    BY <1>3 DEF Arrive, AdmitCreate, AdmitConfirm, AdmitCancel, AdmitOtpStart,
       AdmitStartSession, AdmitOtpEnd, AdmitEndSession, AdmitTracking,
       AdmitRelease, Kinds, TransitionKinds, Exists
  <2>2. /\ req'[q].pc = "admitted"
        /\ req'[q].kind = kind
        /\ req'[q].booking = b
    BY <2>1 DEF Admit, TypeOK
  <2> QED
    BY <1>0, <2>1, <2>2 DEF RequestSound, Exists
<1>4. ASSUME Advance(q)
      PROVE  RequestSound(q)'
  <2>0. InFlight(q)
    BY <1>4 DEF Advance, InsertBooking, ReadState, RejectState, UpdateState, AppendLog,
       CommitOtpStart, ShowStartOtp, CommitOtpEnd, ShowEndOtp, CommitRelease,
       AbortRelease, InsertTracking, InFlight
  <2>1. req[q] \in Request /\ req[q].booking \in Bookings
    BY <2>0, RequestType
  <2>2. CASE ReadState(q)
    <3>1. /\ req'[q].pc = "validated"
          /\ req'[q].kind = req[q].kind
          /\ req'[q].booking = req[q].booking
          /\ req'[q].from = state[req[q].booking]
      BY <2>1, <2>2 DEF ReadState, TypeOK, Request
    <3>2. /\ req[q].kind \in TransitionKinds
          /\ Exists(req[q].booking)
          /\ CanTransition(state[req[q].booking], Target(q))
      BY <2>0, <2>2 DEF ReadState, RequestSound, LegalNow, TransitionKinds
    <3>3. Exists(req[q].booking)'
      BY <1>0, <2>1, <3>1, <3>2 DEF Exists
    <3>4. state[req[q].booking] \in BookingState
      BY <2>1, <3>2 DEF TypeOK, RowState, Exists
    <3>5. Target(q)' = Target(q)
      BY <3>1 DEF Target
    <3> QED
      BY <3>1, <3>2, <3>3, <3>4, <3>5 DEF RequestSound, CanTransition
  <2>3. CASE UpdateState(q)
    <3>1. /\ req'[q].pc = "updated"
          /\ req'[q].kind = req[q].kind
          /\ req'[q].booking = req[q].booking
          /\ req'[q].from = req[q].from
      BY <2>1, <2>3 DEF UpdateState, TypeOK, Request
    <3>2. Exists(req[q].booking)'
      BY <1>0, <2>0, <2>1, <2>3, <3>1 DEF UpdateState, RequestSound, TransitionKinds, Exists
    <3>3. Target(q)' = Target(q)
      BY <3>1 DEF Target
    <3> QED
      BY <2>0, <2>3, <3>1, <3>2, <3>3 DEF UpdateState, RequestSound, CanTransition
  <2>4. CASE CommitOtpStart(q) \/ CommitOtpEnd(q)
    <3>1. PICK otp \in Otps : Answer(q, otp)
      BY <2>4 DEF CommitOtpStart, CommitOtpEnd, Otps
    <3>2. /\ req'[q].pc = "answered"
          /\ req'[q].otp = otp
          /\ req'[q].booking = req[q].booking
      BY <2>1, <3>1 DEF Answer, TypeOK, Request
    <3>3. Exists(req[q].booking)'
      BY <1>0, <2>0, <2>1, <2>4, <3>2 DEF CommitOtpStart, CommitOtpEnd, RequestSound, Exists
    <3> QED
      BY <3>2, <3>3 DEF RequestSound, Exists
  <2>5. CASE \/ InsertBooking(q) \/ RejectState(q) \/ AppendLog(q) \/ ShowStartOtp(q)
             \/ ShowEndOtp(q) \/ CommitRelease(q) \/ AbortRelease(q) \/ InsertTracking(q)
    BY <1>2, <2>5 DEF InsertBooking, RejectState, AppendLog, ShowStartOtp, ShowEndOtp,
       CommitRelease, AbortRelease, InsertTracking, Finish, TypeOK
  <2> QED
    BY <1>4, <2>2, <2>3, <2>4, <2>5 DEF Advance
<1> QED
  BY <1>1, <1>2, <1>3, <1>4, SlotStep

LEMMA StructureInit == RoutesInit => Structure
BY ConstantsAssumption DEF RoutesInit, Structure, TypeOK, RequestSound, InFlight, Idle, RowState

LEMMA StructureStep == Structure /\ [RoutesNext]_routesVars => Structure'
<1> SUFFICES ASSUME Structure, [RoutesNext]_routesVars
             PROVE  Structure'
  OBVIOUS
<1>1. ASSUME UNCHANGED routesVars
      PROVE  TypeOK'
  BY <1>1 DEF Structure, TypeOK, routesVars, bookingVars, paidColumns, otpColumns, shown
<1>2. ASSUME RoutesNext
      PROVE  TypeOK'
  BY <1>2, TypeAdvance, TypeOther DEF RoutesNext, RequestStep
<1>3. TypeOK'
  BY <1>1, <1>2 DEF Structure
<1>4. \A q \in Requests : RequestSound(q)'
  BY RequestsStep
<1> QED
  BY <1>3, <1>4 DEF Structure

\* In every reachable state the rows and the requests in flight are well
\* typed, and every request past validation carries a legal transition.
THEOREM TypeCorrect == RoutesSpec => []TypeOK
<1>1. RoutesSpec => []Structure
  BY StructureInit, StructureStep, PTL DEF RoutesSpec
<1>2. Structure => TypeOK
  BY DEF Structure
<1> QED
  BY <1>1, <1>2, PTL

-----------------------------------------------------------------------------
(* Evidence *)

\* What must have happened to booking b before it may be in state s.
Evidence(b, s) ==
    /\ s \in ServiceStates => depositPaidAt[b]
    /\ s = "OTP_READY" => otpStartHash[b] # NoOtp
    /\ s \in StartedStates => startShown[b] # {}
    /\ s \in EndedStates => endShown[b] # {}
    /\ s \in SettledStates => finalPaidAt[b]

\* What the handler of a request checked before it called the helper, and what
\* must have happened for the state that the helper read.
RequestEvidence(r) ==
    LET b == req[r].booking IN
    InFlight(r) =>
        /\ req[r].kind = "otpStart" => depositPaidAt[b]
        /\ req[r].kind \in {"startSession", "track"} => startShown[b] # {}
        /\ req[r].kind = "endSession" => endShown[b] # {}
        /\ req[r].kind = "release" => finalPaidAt[b]
        /\ req[r].pc = "validated" => Evidence(b, req[r].from)

BookingEvidence(b) ==
    /\ Evidence(b, state[b])
    /\ tracking[b] # {} => startShown[b] # {}
    /\ payoutReleasedAt[b] => finalPaidAt[b]
    /\ finalPaidAt[b] => depositPaidAt[b]

Evidenced ==
    /\ Structure
    /\ \A b \in Bookings : BookingEvidence(b)
    /\ \A r \in Requests : RequestEvidence(r)

\* Evidence for any state survives every step.
LEMMA EvidenceStable ==
    ASSUME Structure, [RoutesNext]_routesVars, NEW b \in Bookings, NEW s, Evidence(b, s)
    PROVE  Evidence(b, s)'
BY EvidenceGrows DEF Evidence

\* Where the handlers' transitions can come from: only the handlers that check
\* evidence lead into the states that need it from states that do not.
LEMMA TransitionSources ==
    ASSUME NEW from \in BookingState, NEW kind \in TransitionKinds,
           CanTransition(from, nextState[kind])
    PROVE  /\ nextState[kind] \in ServiceStates => from \in ServiceStates \/ kind = "otpStart"
           /\ nextState[kind] = "OTP_READY" => kind = "otpStart"
           /\ nextState[kind] \in StartedStates =>
                 from \in StartedStates \/ kind = "startSession"
           /\ nextState[kind] \in EndedStates => from \in EndedStates \/ kind = "endSession"
           /\ nextState[kind] \in SettledStates => from \in SettledStates
BY DEF CanTransition, transitionMap, nextState, TransitionKinds, BookingState, Cancelled,
   ServiceStates, StartedStates, EndedStates, SettledStates

\* Every step keeps the evidence of every request in flight.
LEMMA RequestEvidenceStep ==
    ASSUME Evidenced, [RoutesNext]_routesVars, NEW q \in Requests
    PROVE  RequestEvidence(q)'
<1> USE DEF At, Evidenced
<1>0. /\ TypeOK
      /\ RequestEvidence(q)
  BY DEF Structure
<1>1. ASSUME NEW b \in Bookings
      PROVE  /\ depositPaidAt[b] => depositPaidAt'[b]
             /\ finalPaidAt[b] => finalPaidAt'[b]
             /\ startShown[b] # {} => startShown'[b] # {}
             /\ endShown[b] # {} => endShown'[b] # {}
             /\ \A s : Evidence(b, s) => Evidence(b, s)'
  BY EvidenceGrows, EvidenceStable
<1>2. ASSUME InFlight(q), InFlight(q)',
             req'[q].kind = req[q].kind,
             req'[q].booking = req[q].booking,
             (req[q].pc = "validated" => Evidence(req[q].booking, req[q].from))'
      PROVE  RequestEvidence(q)'
  <2>1. req[q].booking \in Bookings
    BY <1>0, <1>2, RequestType
  <2> QED
    BY <1>0, <1>1, <1>2, <2>1 DEF RequestEvidence, Evidence
<1>3. ASSUME req'[q] = req[q] \/ req'[q] = Idle
      PROVE  RequestEvidence(q)'
  <2>1. CASE ~InFlight(q)'
    BY <2>1 DEF RequestEvidence
  <2>2. CASE InFlight(q)'
    <3>1. req'[q] = req[q] /\ InFlight(q)
      BY <1>3, <2>2 DEF InFlight, Idle
    <3>2. req[q].booking \in Bookings
      BY <1>0, <3>1, RequestType
    <3> QED
      BY <1>0, <1>1, <1>2, <2>2, <3>1, <3>2 DEF RequestEvidence
  <2> QED
    BY <2>1, <2>2
<1>4. ASSUME NEW b \in Bookings, Arrive(q, b)
      PROVE  RequestEvidence(q)'
  <2>1. BookingEvidence(b)
    OBVIOUS
  <2>2. PICK kind \in Kinds :
           /\ Admit(q, b, kind)
           /\ kind = "otpStart" => depositPaidAt[b]
           /\ kind \in {"startSession", "track"} => startShown[b] # {}
           /\ kind = "endSession" => endShown[b] # {}
           /\ kind = "release" => finalPaidAt[b]
    BY <1>4, <2>1 DEF Arrive, AdmitCreate, AdmitConfirm, AdmitCancel, AdmitOtpStart,
       AdmitStartSession, AdmitOtpEnd, AdmitEndSession, AdmitTracking, AdmitRelease, Kinds,
       TransitionKinds, DepositCollected, BookingEvidence, Evidence, StartedStates,
       SettledStates
  <2>3. /\ req'[q].pc = "admitted"
        /\ req'[q].kind = kind
        /\ req'[q].booking = b
        /\ UNCHANGED <<bookingVars, shown>>
    BY <1>0, <2>2 DEF Admit, TypeOK
  <2> QED
    BY <2>2, <2>3 DEF RequestEvidence, bookingVars, paidColumns, shown
<1>5. ASSUME Advance(q)
      PROVE  RequestEvidence(q)'
  <2>0. InFlight(q)
    BY <1>5 DEF Advance, InsertBooking, ReadState, RejectState, UpdateState, AppendLog,
       CommitOtpStart, ShowStartOtp, CommitOtpEnd, ShowEndOtp, CommitRelease,
       AbortRelease, InsertTracking, InFlight
  <2>1. req[q] \in Request /\ req[q].booking \in Bookings
    BY <1>0, <2>0, RequestType
  <2>2. CASE ReadState(q)
    <3>1. /\ req'[q].pc = "validated"
          /\ req'[q].kind = req[q].kind
          /\ req'[q].booking = req[q].booking
          /\ req'[q].from = state[req[q].booking]
      BY <1>0, <2>1, <2>2 DEF ReadState, TypeOK, Request
    <3>2. Evidence(req[q].booking, req[q].from)'
      <4>1. Evidence(req[q].booking, state[req[q].booking])
        BY <2>1 DEF BookingEvidence
      <4>2. UNCHANGED <<bookingVars, shown>>
        BY <2>2 DEF ReadState
      <4> QED
        BY <3>1, <4>1, <4>2 DEF Evidence, bookingVars, paidColumns, otpColumns, shown
    <3> QED
      BY <1>2, <2>0, <3>1, <3>2 DEF InFlight
  <2>3. CASE UpdateState(q)
    <3>1. /\ req'[q].pc = "updated"
          /\ req'[q].kind = req[q].kind
          /\ req'[q].booking = req[q].booking
      BY <1>0, <2>1, <2>3 DEF UpdateState, TypeOK, Request
    <3> QED
      BY <1>2, <2>0, <3>1 DEF InFlight
  <2>4. CASE CommitOtpStart(q) \/ CommitOtpEnd(q)
    <3>1. PICK otp \in Otps : Answer(q, otp)
      BY <2>4 DEF CommitOtpStart, CommitOtpEnd, Otps
    <3>2. /\ req'[q].pc = "answered"
          /\ req'[q].kind = req[q].kind
          /\ req'[q].booking = req[q].booking
      BY <1>0, <2>1, <3>1 DEF Answer, TypeOK, Request
    <3> QED
      BY <1>2, <2>0, <3>2 DEF InFlight
  <2>5. CASE \/ InsertBooking(q) \/ RejectState(q) \/ AppendLog(q) \/ ShowStartOtp(q)
             \/ ShowEndOtp(q) \/ CommitRelease(q) \/ AbortRelease(q) \/ InsertTracking(q)
    BY <1>0, <1>3, <2>5 DEF InsertBooking, RejectState, AppendLog, ShowStartOtp, ShowEndOtp,
       CommitRelease, AbortRelease, InsertTracking, Finish, TypeOK
  <2> QED
    BY <1>5, <2>2, <2>3, <2>4, <2>5 DEF Advance
<1> QED
  BY <1>0, <1>3, <1>4, <1>5, SlotStep

\* Every step keeps the evidence of every booking row.
LEMMA BookingEvidenceStep ==
    ASSUME Evidenced, [RoutesNext]_routesVars, NEW b \in Bookings
    PROVE  BookingEvidence(b)'
<1> USE DEF At, Evidenced
<1>0. TypeOK /\ Structure
  BY DEF Structure
<1>1. /\ depositPaidAt[b] => depositPaidAt'[b]
      /\ finalPaidAt[b] => finalPaidAt'[b]
      /\ startShown[b] # {} => startShown'[b] # {}
      /\ endShown[b] # {} => endShown'[b] # {}
      /\ \A s : Evidence(b, s) => Evidence(b, s)'
  BY EvidenceGrows, EvidenceStable
<1>2. ASSUME state'[b] = state[b],
             tracking'[b] # {} => tracking[b] # {} \/ startShown[b] # {},
             payoutReleasedAt'[b] => payoutReleasedAt[b] \/ finalPaidAt[b],
             finalPaidAt'[b] => finalPaidAt[b]
      PROVE  BookingEvidence(b)'
  <2>1. Evidence(b, state[b])'
    BY <1>1, <1>2 DEF BookingEvidence, Evidence
  <2> QED
    BY <1>1, <1>2, <2>1 DEF BookingEvidence
<1>3. ASSUME NEW r \in Requests, Advance(r)
      PROVE  BookingEvidence(b)'
  <2>0. InFlight(r)
    BY <1>3 DEF Advance, InsertBooking, ReadState, RejectState, UpdateState, AppendLog,
       CommitOtpStart, ShowStartOtp, CommitOtpEnd, ShowEndOtp, CommitRelease,
       AbortRelease, InsertTracking, InFlight
  <2>1. /\ req[r].booking \in Bookings
        /\ RequestSound(r)
        /\ RequestEvidence(r)
    BY <1>0, <2>0, RequestType DEF Structure
  <2>2. CASE req[r].booking # b
    BY <1>0, <1>2, <1>3, <2>2 DEF Advance, InsertBooking, ReadState, RejectState, UpdateState,
       AppendLog, CommitOtpStart, ShowStartOtp, CommitOtpEnd, ShowEndOtp, CommitRelease,
       AbortRelease, InsertTracking, SetState, TypeOK, bookingVars, paidColumns, otpColumns
  <2>3. CASE req[r].booking = b
    <3>1. CASE ReadState(r) \/ RejectState(r) \/ AppendLog(r) \/ ShowStartOtp(r)
               \/ ShowEndOtp(r) \/ AbortRelease(r)
      BY <1>2, <3>1 DEF ReadState, RejectState, AppendLog, ShowStartOtp, ShowEndOtp,
         AbortRelease, bookingVars, paidColumns
    <3>2. CASE InsertBooking(r)
      <4>1. state'[b] = "REQUESTED" /\ UNCHANGED <<paidColumns, tracking, shown>>
        BY <1>0, <2>3, <3>2 DEF InsertBooking, TypeOK
      <4> QED
        BY <4>1 DEF BookingEvidence, Evidence, ServiceStates, StartedStates, EndedStates,
           SettledStates, paidColumns, shown
    <3>3. CASE UpdateState(r) \/ CommitOtpStart(r) \/ CommitOtpEnd(r) \/ CommitRelease(r)
      <4>1. /\ req[r].kind \in TransitionKinds
            /\ req[r].pc = "validated"
            /\ state'[b] = nextState[req[r].kind]
        BY <1>0, <2>3, <3>3 DEF UpdateState, CommitOtpStart, CommitOtpEnd, CommitRelease,
           SetState, Target, TypeOK, TransitionKinds
      <4>2. PICK from \in BookingState, kind \in TransitionKinds :
               from = req[r].from /\ kind = req[r].kind
        BY <2>0, <2>1, <4>1 DEF RequestSound
      <4>3. /\ CanTransition(from, nextState[kind])
            /\ Evidence(b, from)
        BY <2>0, <2>1, <2>3, <4>1, <4>2 DEF RequestSound, RequestEvidence, Target
      <4>4. Evidence(b, from)'
        BY <1>1, <4>3
      <4>5. /\ kind = "otpStart" => depositPaidAt'[b] /\ otpStartHash'[b] # NoOtp
            /\ kind = "startSession" => startShown'[b] # {}
            /\ kind = "endSession" => endShown'[b] # {}
        <5>1. ASSUME kind = "otpStart"
              PROVE  otpStartHash'[b] # NoOtp
          <6>1. CommitOtpStart(r)
            BY <3>3, <4>2, <5>1 DEF UpdateState, CommitOtpEnd, CommitRelease, Transactional
          <6>2. otpStartHash'[b] \in Otps
            BY <1>0, <2>3, <6>1 DEF CommitOtpStart, Otps, TypeOK
          <6> QED
            BY <6>2, ConstantsAssumption
        <5> QED
          BY <1>1, <2>0, <2>1, <2>3, <4>2, <5>1 DEF RequestEvidence
      <4>6. Evidence(b, state[b])'
        BY <4>1, <4>2, <4>3, <4>4, <4>5, TransitionSources DEF Evidence
      <4>7. /\ UNCHANGED <<tracking, startShown, finalPaidAt, depositPaidAt>>
            /\ payoutReleasedAt'[b] => payoutReleasedAt[b] \/ req[r].kind = "release"
        BY <1>0, <3>3 DEF UpdateState, CommitOtpStart, CommitOtpEnd, CommitRelease,
           paidColumns, shown
      <4> QED
        BY <2>0, <2>1, <2>3, <4>6, <4>7 DEF BookingEvidence, RequestEvidence
    <3>4. CASE InsertTracking(r)
      <4>1. startShown[b] # {}
        BY <2>0, <2>1, <2>3, <3>4 DEF InsertTracking, RequestEvidence
      <4> QED
        BY <1>2, <3>4, <4>1 DEF InsertTracking, paidColumns
    <3> QED
      BY <1>3, <3>1, <3>2, <3>3, <3>4 DEF Advance
  <2> QED
    BY <2>2, <2>3
<1>4. ASSUME NEW c \in Bookings, DepositCaptured(c) \/ FinalCaptured(c)
      PROVE  BookingEvidence(b)'
  <2>1. CASE DepositCaptured(c) \/ c # b
    BY <1>0, <1>2, <1>4, <2>1 DEF DepositCaptured, FinalCaptured, MarkDepositPaid,
       SettleBooking, TypeOK
  <2>2. CASE FinalCaptured(c) /\ c = b
    <3>1. /\ state[b] \in BookingState
          /\ CanTransition(state[b], "PAYMENT_LOCKED")
          /\ state'[b] = "PAYOUT_PENDING"
          /\ finalPaidAt'[b]
          /\ UNCHANGED <<depositPaidAt, payoutReleasedAt, tracking, shown>>
      BY <1>0, <2>2 DEF FinalCaptured, SettleBooking, Exists, TypeOK, RowState
    <3>2. state[b] = "PENDING_PAYMENT"
      BY <3>1 DEF CanTransition, transitionMap, BookingState, Cancelled
    <3>3. Evidence(b, "PENDING_PAYMENT")
      BY <3>2 DEF BookingEvidence
    <3>4. depositPaidAt[b] /\ startShown[b] # {} /\ endShown[b] # {}
      BY <3>3 DEF Evidence, ServiceStates, StartedStates, EndedStates
    <3> QED
      BY <3>1, <3>4 DEF BookingEvidence, Evidence, shown
  <2> QED
    BY <1>4, <2>1, <2>2
<1>5. ASSUME NEW r \in Requests, NEW c \in Bookings, Arrive(r, c)
      PROVE  UNCHANGED bookingVars
  BY <1>5 DEF Arrive, AdmitCreate, AdmitConfirm, AdmitCancel, AdmitOtpStart,
     AdmitStartSession, AdmitOtpEnd, AdmitEndSession, AdmitTracking, AdmitRelease, Admit
<1>6. ASSUME UNCHANGED bookingVars
      PROVE  BookingEvidence(b)'
  BY <1>2, <1>6 DEF bookingVars, paidColumns
<1> QED
  BY <1>3, <1>4, <1>5, <1>6 DEF RoutesNext, RequestStep, CaptureStep, FailRequest,
     CrashRequests, routesVars

LEMMA EvidencedInit == RoutesInit => Evidenced
BY StructureInit DEF RoutesInit, Evidenced, BookingEvidence, Evidence, RequestEvidence, InFlight,
   Idle, ServiceStates, StartedStates, EndedStates, SettledStates

LEMMA EvidencedStep == Evidenced /\ [RoutesNext]_routesVars => Evidenced'
<1> SUFFICES ASSUME Evidenced, [RoutesNext]_routesVars
             PROVE  Evidenced'
  OBVIOUS
<1>1. Structure'
  BY StructureStep DEF Evidenced
<1>2. \A b \in Bookings : BookingEvidence(b)'
  BY BookingEvidenceStep
<1>3. \A r \in Requests : RequestEvidence(r)'
  BY RequestEvidenceStep
<1> QED
  BY <1>1, <1>2, <1>3 DEF Evidenced

LEMMA AlwaysEvidenced == RoutesSpec => []Evidenced
BY EvidencedInit, EvidencedStep, PTL DEF RoutesSpec

\* No interleaving of handlers, lost response or crash brings a booking whose
\* deposit was not collected to service (otp/start, DEPOSIT_REQUIRED).
THEOREM DepositFirst == RoutesSpec => []DepositBeforeService
<1>1. Evidenced => DepositBeforeService
  BY DEF Evidenced, BookingEvidence, Evidence, DepositBeforeService
<1> QED
  BY <1>1, AlwaysEvidenced, PTL

\* A session runs only after the start handshake, and payment falls due only
\* after the end handshake (start-session and end-session).
THEOREM HandshakeFirst == RoutesSpec => []HandshakeEvidence
<1>1. Evidenced => HandshakeEvidence
  BY DEF Evidenced, BookingEvidence, Evidence, HandshakeEvidence
<1> QED
  BY <1>1, AlwaysEvidenced, PTL

\* A payout needs the final payment and the final payment needs the deposit,
\* although neither is checked where the money is recorded.
THEOREM MoneyMovesInOrder == RoutesSpec => []PayoutAfterPayments
<1>1. Evidenced => PayoutAfterPayments
  BY DEF Evidenced, BookingEvidence, Evidence, PayoutAfterPayments
<1> QED
  BY <1>1, AlwaysEvidenced, PTL

-----------------------------------------------------------------------------
(* The passwords that open a booking *)

\* A slot whose answer is on its way keeps it, unless the step is the answer's
\* arrival or a fault.
LEMMA AnswerStays ==
    ASSUME Structure, RoutesNext, faults' = faults, NEW q \in Requests,
           req[q].pc = "answered", ~ShowStartOtp(q), ~ShowEndOtp(q)
    PROVE  req'[q] = req[q]
<1>0. TypeOK /\ InFlight(q) /\ faults # faults + 1
  BY ConstantsAssumption DEF Structure, TypeOK, InFlight
<1>1. ASSUME NEW b \in Bookings
      PROVE  ~Arrive(q, b)
  BY <1>0 DEF Arrive, AdmitCreate, AdmitConfirm, AdmitCancel, AdmitOtpStart,
     AdmitStartSession, AdmitOtpEnd, AdmitEndSession, AdmitTracking, AdmitRelease, Admit
<1>2. ~Advance(q)
  BY DEF Advance, At, InsertBooking, ReadState, RejectState, UpdateState, AppendLog,
     CommitOtpStart, CommitOtpEnd, CommitRelease, AbortRelease, InsertTracking
<1>3. ASSUME NEW r \in Requests, r # q, Advance(r) \/ \E b \in Bookings : Arrive(r, b)
      PROVE  req'[q] = req[q]
  BY <1>0, <1>3 DEF Advance, InsertBooking, ReadState, RejectState, UpdateState, AppendLog,
     CommitOtpStart, ShowStartOtp, CommitOtpEnd, ShowEndOtp, CommitRelease, AbortRelease,
     InsertTracking, Finish, Answer, Arrive, AdmitCreate, AdmitConfirm,
     AdmitCancel, AdmitOtpStart, AdmitStartSession, AdmitOtpEnd, AdmitEndSession,
     AdmitTracking, AdmitRelease, Admit, TypeOK
<1>4. ~CrashRequests /\ \A r \in Requests : ~FailRequest(r)
  BY <1>0 DEF CrashRequests, FailRequest, CanFail
<1>5. CaptureStep => req' = req
  BY DEF CaptureStep, DepositCaptured, FinalCaptured
<1> QED
  BY <1>1, <1>2, <1>3, <1>4, <1>5 DEF RoutesNext, RequestStep

\* Where the hashes and the slots that carry their passwords come from.
LEMMA HashStep ==
    ASSUME Structure, RoutesNext, NEW b \in Bookings
    PROVE  /\ \/ otpStartHash'[b] = otpStartHash[b]
              \/ \E r \in Requests :
                    /\ At(r, "answered", {"otpStart"})' /\ req'[r].booking = b
                    /\ otpStartHash'[b] = req'[r].otp
           /\ \/ otpEndHash'[b] = otpEndHash[b]
              \/ \E r \in Requests :
                    /\ At(r, "answered", {"otpEnd"})' /\ req'[r].booking = b
                    /\ otpEndHash'[b] = req'[r].otp
<1>0. TypeOK
  BY DEF Structure
<1>1. CASE UNCHANGED otpColumns
  BY <1>1 DEF otpColumns
<1>2. ASSUME NEW r \in Requests, CommitOtpStart(r) \/ CommitOtpEnd(r)
      PROVE  /\ req[r] \in Request /\ req[r].booking \in Bookings
  BY <1>0, <1>2, RequestType DEF CommitOtpStart, CommitOtpEnd, At, InFlight
<1>3. ASSUME NEW r \in Requests, CommitOtpStart(r)
      PROVE  /\ otpEndHash' = otpEndHash
             /\ otpStartHash'[b] = otpStartHash[b] \/ req[r].booking = b
             /\ At(r, "answered", {"otpStart"})' /\ req'[r].booking = req[r].booking
             /\ otpStartHash'[req[r].booking] = req'[r].otp
  <2>1. PICK otp \in Otps :
            /\ otpStartHash' = [otpStartHash EXCEPT ![req[r].booking] = otp]
            /\ req' = [req EXCEPT ![r].pc = "answered", ![r].otp = otp]
    BY <1>3 DEF CommitOtpStart, Answer, Otps
  <2>2. req[r].kind = "otpStart" /\ otpEndHash' = otpEndHash
    BY <1>3 DEF CommitOtpStart, At
  <2>3. req'[r] = [req[r] EXCEPT !.pc = "answered", !.otp = otp]
    BY <1>0, <2>1 DEF TypeOK
  <2>4. /\ req'[r].pc = "answered" /\ req'[r].otp = otp
        /\ req'[r].kind = req[r].kind /\ req'[r].booking = req[r].booking
    BY <1>2, <1>3, <2>3 DEF Request
  <2> QED
    BY <1>0, <1>2, <1>3, <2>1, <2>2, <2>4 DEF At, TypeOK
<1>4. ASSUME NEW r \in Requests, CommitOtpEnd(r)
      PROVE  /\ otpStartHash' = otpStartHash
             /\ otpEndHash'[b] = otpEndHash[b] \/ req[r].booking = b
             /\ At(r, "answered", {"otpEnd"})' /\ req'[r].booking = req[r].booking
             /\ otpEndHash'[req[r].booking] = req'[r].otp
  <2>1. PICK otp \in Otps :
            /\ otpEndHash' = [otpEndHash EXCEPT ![req[r].booking] = otp]
            /\ req' = [req EXCEPT ![r].pc = "answered", ![r].otp = otp]
    BY <1>4 DEF CommitOtpEnd, Answer, Otps
  <2>2. req[r].kind = "otpEnd" /\ otpStartHash' = otpStartHash
    BY <1>4 DEF CommitOtpEnd, At
  <2>3. req'[r] = [req[r] EXCEPT !.pc = "answered", !.otp = otp]
    BY <1>0, <2>1 DEF TypeOK
  <2>4. /\ req'[r].pc = "answered" /\ req'[r].otp = otp
        /\ req'[r].kind = req[r].kind /\ req'[r].booking = req[r].booking
    BY <1>2, <1>4, <2>3 DEF Request
  <2> QED
    BY <1>0, <1>2, <1>4, <2>1, <2>2, <2>4 DEF At, TypeOK
<1>5. ASSUME \A r \in Requests : ~CommitOtpStart(r) /\ ~CommitOtpEnd(r)
      PROVE  UNCHANGED otpColumns
  BY <1>5 DEF RoutesNext, RequestStep, CaptureStep, Arrive, Advance, InsertBooking, ReadState,
     RejectState, UpdateState, AppendLog, ShowStartOtp, ShowEndOtp, CommitRelease,
     AbortRelease, InsertTracking, FailRequest, CrashRequests, AdmitCreate, AdmitConfirm,
     AdmitCancel, AdmitOtpStart, AdmitStartSession, AdmitOtpEnd, AdmitEndSession,
     AdmitTracking, AdmitRelease, Admit, DepositCaptured, FinalCaptured, MarkDepositPaid,
     SettleBooking, bookingVars, otpColumns
<1>6. CASE \E r \in Requests : CommitOtpStart(r)
  BY <1>3, <1>6
<1>7. CASE \E r \in Requests : CommitOtpEnd(r)
  BY <1>4, <1>7
<1> QED
  BY <1>1, <1>5, <1>6, <1>7

\* A step counts one fault at most.
LEMMA FaultsCounted ==
    ASSUME RoutesNext
    PROVE  faults' \in {faults, faults + 1}
BY DEF RoutesNext, RequestStep, CaptureStep, Arrive, Advance, InsertBooking, ReadState,
   RejectState, UpdateState, AppendLog, CommitOtpStart, CommitOtpEnd, ShowStartOtp, ShowEndOtp,
   CommitRelease, AbortRelease, InsertTracking, FailRequest, CrashRequests, CanFail, AdmitCreate,
   AdmitConfirm, AdmitCancel, AdmitOtpStart, AdmitStartSession, AdmitOtpEnd, AdmitEndSession,
   AdmitTracking, AdmitRelease, Admit, DepositCaptured, FinalCaptured

\* The provider can learn the password that opens the booking, whichever of the
\* overlapping handlers of otp/start or otp/end wrote its hash last, unless a
\* response was lost or the process died (bookings.routes.ts, otp/start, otp/end).
THEOREM PasswordsStayKnown == RoutesSpec => []PasswordLostByFaultOnly
<1>1. ASSUME Structure, RoutesNext, faults' = faults, NEW b \in Bookings
      PROVE  /\ StartOtpKnown(b) => StartOtpKnown(b)'
             /\ EndOtpKnown(b) => EndOtpKnown(b)'
  <2>0. /\ TypeOK
        /\ startShown[b] \subseteq startShown'[b]
        /\ endShown[b] \subseteq endShown'[b]
    BY <1>1, EvidenceGrows DEF Structure
  <2>1. ASSUME NEW r \in Requests, req[r].pc = "answered", req[r].booking = b
        PROVE  /\ ShowStartOtp(r) => req[r].otp \in startShown'[b]
               /\ ShowEndOtp(r) => req[r].otp \in endShown'[b]
    BY <1>1, <2>0, <2>1 DEF ShowStartOtp, ShowEndOtp, TypeOK
  <2>2. ASSUME StartOtpKnown(b), otpStartHash'[b] = otpStartHash[b]
        PROVE  StartOtpKnown(b)'
    <3>1. CASE otpStartHash[b] \in startShown[b] \cup {NoOtp}
      BY <2>0, <2>2, <3>1 DEF StartOtpKnown
    <3>2. ASSUME NEW r \in Requests, At(r, "answered", {"otpStart"}), req[r].booking = b,
                 StartOtpMatches(b, req[r].otp)
          PROVE  StartOtpKnown(b)'
      <4>1. ~ShowEndOtp(r)
        BY <3>2 DEF ShowEndOtp, At
      <4>2. ShowStartOtp(r) \/ req'[r] = req[r]
        BY <1>1, <3>2, <4>1, AnswerStays DEF At
      <4> QED
        BY <2>1, <2>2, <3>2, <4>2 DEF StartOtpKnown, StartOtpMatches, At
    <3> QED
      BY <2>2, <3>1, <3>2 DEF StartOtpKnown
  <2>3. ASSUME EndOtpKnown(b), otpEndHash'[b] = otpEndHash[b]
        PROVE  EndOtpKnown(b)'
    <3>1. CASE otpEndHash[b] \in endShown[b] \cup {NoOtp}
      BY <2>0, <2>3, <3>1 DEF EndOtpKnown
    <3>2. ASSUME NEW r \in Requests, At(r, "answered", {"otpEnd"}), req[r].booking = b,
                 EndOtpMatches(b, req[r].otp)
          PROVE  EndOtpKnown(b)'
      <4>1. ~ShowStartOtp(r)
        BY <3>2 DEF ShowStartOtp, At
      <4>2. ShowEndOtp(r) \/ req'[r] = req[r]
        BY <1>1, <3>2, <4>1, AnswerStays DEF At
      <4> QED
        BY <2>1, <2>3, <3>2, <4>2 DEF EndOtpKnown, EndOtpMatches, At
    <3> QED
      BY <2>3, <3>1, <3>2 DEF EndOtpKnown
  <2>4. otpStartHash'[b] # otpStartHash[b] => StartOtpKnown(b)'
    BY <1>1, HashStep DEF StartOtpKnown, StartOtpMatches, At
  <2>5. otpEndHash'[b] # otpEndHash[b] => EndOtpKnown(b)'
    BY <1>1, HashStep DEF EndOtpKnown, EndOtpMatches, At
  <2> QED
    BY <2>2, <2>3, <2>4, <2>5
<1>2. RoutesInit => PasswordLostByFaultOnly
  BY DEF RoutesInit, PasswordLostByFaultOnly, StartOtpKnown, EndOtpKnown
<1>3. Evidenced /\ PasswordLostByFaultOnly /\ [RoutesNext]_routesVars
          => PasswordLostByFaultOnly'
  <2> SUFFICES ASSUME Evidenced, PasswordLostByFaultOnly, [RoutesNext]_routesVars, faults' = 0,
                      NEW b \in Bookings
               PROVE  StartOtpKnown(b)' /\ EndOtpKnown(b)'
    BY DEF PasswordLostByFaultOnly
  <2>1. CASE UNCHANGED routesVars
    BY <2>1 DEF routesVars, bookingVars, otpColumns, shown, PasswordLostByFaultOnly,
       StartOtpKnown, EndOtpKnown, StartOtpMatches, EndOtpMatches, At
  <2>2. CASE RoutesNext
    <3>1. Structure /\ faults \in Nat
      BY DEF Evidenced, Structure, TypeOK
    <3>2. faults' \in {faults, faults + 1}
      BY <2>2, FaultsCounted
    <3>3. faults = 0 /\ faults' = faults
      BY <3>1, <3>2
    <3> QED
      BY <1>1, <2>2, <3>1, <3>3 DEF PasswordLostByFaultOnly
  <2> QED
    BY <2>1, <2>2
<1> QED
  BY <1>2, <1>3, AlwaysEvidenced, PTL DEF RoutesSpec

-----------------------------------------------------------------------------
(* The audit trail *)

LegalLog == \A b \in Bookings : \A row \in stateLog[b] : CanTransition(row[1], row[2])

\* The state of a booking has its log row.
Logged(b) ==
    state[b] \in {"ABSENT", "REQUESTED"} \/ \E from \in BookingState : <<from, state[b]>> \in stateLog[b]

\* The log row is still to be written, or was lost to a fault.
LogPending(b) ==
    /\ state[b] \notin {"OTP_READY", "PENDING_END_OTP", "PAYOUT_PENDING", "PAID_OUT"}
    /\ \/ faults > 0
       \/ \E r \in Requests :
             /\ At(r, "updated", TransitionKinds)
             /\ req[r].booking = b /\ Target(r) = state[b]

LEMMA AuditTrailParts ==
    AuditTrail <=> LegalLog /\ \A b \in Bookings : Logged(b) \/ LogPending(b)
BY DEF AuditTrail, LegalLog, Logged, LogPending

\* Every log row is written by a request that was validated, or by a settlement.
LEMMA LegalLogStep ==
    ASSUME Structure, LegalLog, [RoutesNext]_routesVars
    PROVE  LegalLog'
<1>0. TypeOK
  BY DEF Structure
<1>1. CASE UNCHANGED stateLog
  BY <1>1 DEF LegalLog, CanTransition
<1>2. ASSUME NEW r \in Requests, Advance(r)
      PROVE  LegalLog'
  <2>1. CASE AppendLog(r) \/ CommitOtpStart(r) \/ CommitOtpEnd(r) \/ CommitRelease(r)
    <3>1. /\ InFlight(r) /\ req[r].pc \in {"validated", "updated"}
          /\ LogTransition(r)
      BY <2>1 DEF AppendLog, CommitOtpStart, CommitOtpEnd, CommitRelease, At, InFlight
    <3>2. req[r].booking \in Bookings /\ CanTransition(req[r].from, Target(r))
      BY <1>0, <3>1, RequestType DEF Structure, RequestSound
    <3> DEFINE new == <<req[r].from, Target(r)>>
    <3>3. CanTransition(new[1], new[2])
      BY <3>2
    <3>4. stateLog' = [stateLog EXCEPT ![req[r].booking] = @ \cup {new}]
      BY <3>1 DEF LogTransition
    <3> HIDE DEF new
    <3>5. \A b \in Bookings : stateLog'[b] \subseteq stateLog[b] \cup {new}
      BY <1>0, <3>2, <3>4 DEF TypeOK
    <3> QED
      BY <3>3, <3>5 DEF LegalLog, CanTransition
  <2>2. CASE UNCHANGED stateLog
    BY <1>1, <2>2
  <2> QED
    BY <1>2, <2>1, <2>2 DEF Advance, InsertBooking, ReadState, RejectState, UpdateState,
       ShowStartOtp, ShowEndOtp, AbortRelease, InsertTracking, bookingVars
<1>3. ASSUME NEW b \in Bookings, FinalCaptured(b)
      PROVE  LegalLog'
  <2>1. \A row \in SettlementLog : CanTransition(row[1], row[2])
    BY DEF SettlementLog, CanTransition, transitionMap, BookingState, Cancelled
  <2>2. \A c \in Bookings : stateLog'[c] \subseteq stateLog[c] \cup SettlementLog
    BY <1>0, <1>3 DEF FinalCaptured, SettleBooking, TypeOK
  <2> QED
    BY <2>1, <2>2 DEF LegalLog, CanTransition
<1>4. ASSUME NEW r \in Requests, NEW b \in Bookings, Arrive(r, b)
      PROVE  UNCHANGED stateLog
  BY <1>4 DEF Arrive, AdmitCreate, AdmitConfirm, AdmitCancel, AdmitOtpStart,
     AdmitStartSession, AdmitOtpEnd, AdmitEndSession, AdmitTracking, AdmitRelease, Admit,
     bookingVars
<1> QED
  BY <1>1, <1>2, <1>3, <1>4 DEF RoutesNext, RequestStep, CaptureStep, DepositCaptured,
     MarkDepositPaid, FailRequest, CrashRequests, routesVars, bookingVars

\* A step that leaves the state of a booking and the updated requests alone.
LEMMA LogPendingStays ==
    ASSUME Structure, NEW b \in Bookings, Logged(b) \/ LogPending(b),
           state'[b] = state[b], stateLog[b] \subseteq stateLog'[b], faults' \in {faults, faults + 1},
           faults' = faults => \A r \in Requests :
               At(r, "updated", TransitionKinds) /\ req[r].booking = b =>
                   \/ req'[r] = req[r]
                   \/ \E from \in BookingState : <<from, Target(r)>> \in stateLog'[b]
    PROVE  (Logged(b) \/ LogPending(b))'
<1>0. faults \in Nat
  BY ConstantsAssumption DEF Structure, TypeOK
<1>1. CASE Logged(b)
  BY <1>1 DEF Logged
<1>2. CASE LogPending(b) /\ (faults > 0 \/ faults' # faults)
  BY <1>0, <1>2 DEF LogPending
<1>3. CASE LogPending(b) /\ ~(faults > 0) /\ faults' = faults
  <2>1. PICK r \in Requests :
            /\ At(r, "updated", TransitionKinds)
            /\ req[r].booking = b /\ Target(r) = state[b]
    BY <1>3 DEF LogPending
  <2>2. CASE req'[r] = req[r]
    BY <1>3, <2>1, <2>2 DEF LogPending, At, Target
  <2>3. CASE \E from \in BookingState : <<from, Target(r)>> \in stateLog'[b]
    BY <2>1, <2>3 DEF Logged
  <2> QED
    BY <1>3, <2>1, <2>2, <2>3
<1> QED
  BY <1>1, <1>2, <1>3

LEMMA LoggedStep ==
    ASSUME Structure, NEW b \in Bookings, Logged(b) \/ LogPending(b), [RoutesNext]_routesVars
    PROVE  (Logged(b) \/ LogPending(b))'
<1>0. TypeOK
  BY DEF Structure
<1>1. ASSUME UNCHANGED bookingVars, faults' = faults,
             NEW r \in Requests, ~At(r, "updated", TransitionKinds),
             \A q \in Requests : q # r => req'[q] = req[q]
      PROVE  (Logged(b) \/ LogPending(b))'
  BY <1>1, LogPendingStays DEF bookingVars
<1>2. ASSUME NEW r \in Requests, NEW c \in Bookings, Arrive(r, c)
      PROVE  (Logged(b) \/ LogPending(b))'
  <2>1. PICK kind \in Kinds : Admit(r, c, kind)
    BY <1>2 DEF Arrive, AdmitCreate, AdmitConfirm, AdmitCancel, AdmitOtpStart,
       AdmitStartSession, AdmitOtpEnd, AdmitEndSession, AdmitTracking,
       AdmitRelease, Kinds, TransitionKinds
  <2> QED
    BY <1>0, <1>1, <2>1 DEF Admit, TypeOK, At, InFlight
<1>3. ASSUME NEW r \in Requests, Advance(r)
      PROVE  (Logged(b) \/ LogPending(b))'
  <2> USE DEF At
  <2>0. InFlight(r)
    BY <1>3 DEF Advance, InsertBooking, ReadState, RejectState, UpdateState, AppendLog,
       CommitOtpStart, ShowStartOtp, CommitOtpEnd, ShowEndOtp, CommitRelease,
       AbortRelease, InsertTracking, InFlight
  <2>1. /\ req[r] \in Request /\ req[r].booking \in Bookings
        /\ RequestSound(r)
    BY <1>0, <2>0, RequestType DEF Structure
  <2>2. CASE ReadState(r) \/ RejectState(r) \/ AbortRelease(r) \/ ShowStartOtp(r) \/ ShowEndOtp(r)
    BY <1>0, <1>1, <2>2 DEF ReadState, RejectState, AbortRelease, ShowStartOtp, ShowEndOtp,
       Finish, TypeOK
  <2>3. CASE InsertTracking(r)
    BY <1>0, <2>3, LogPendingStays DEF InsertTracking, Finish, TypeOK
  <2>4. CASE InsertBooking(r)
    <3>1. CASE req[r].booking = b
      BY <1>0, <2>4, <3>1 DEF InsertBooking, TypeOK, Logged
    <3>2. CASE req[r].booking # b
      BY <1>0, <2>4, <3>2, LogPendingStays DEF InsertBooking, Finish, TypeOK
    <3> QED
      BY <3>1, <3>2
  <2>5. CASE UpdateState(r)
    <3>1. CASE req[r].booking = b
      <4>1. /\ req'[r].pc = "updated" /\ req'[r].kind = req[r].kind /\ req'[r].booking = b
            /\ state'[b] = nextState[req[r].kind]
            /\ req[r].kind \in TransitionKinds \ Transactional
        BY <1>0, <2>1, <2>5, <3>1 DEF UpdateState, SetState, Target, TypeOK, Request
      <4>2. nextState[req[r].kind] \notin
                {"OTP_READY", "PENDING_END_OTP", "PAYOUT_PENDING", "PAID_OUT"}
        BY <4>1 DEF nextState, TransitionKinds, Transactional
      <4> QED
        BY <4>1, <4>2 DEF LogPending, Target
    <3>2. CASE req[r].booking # b
      <4>1. /\ state'[b] = state[b] /\ stateLog' = stateLog /\ faults' = faults
            /\ \A q \in Requests : q # r => req'[q] = req[q]
        BY <1>0, <2>1, <2>5, <3>2 DEF UpdateState, SetState, TypeOK
      <4> QED
        BY <1>0, <3>2, <4>1, LogPendingStays
    <3> QED
      BY <3>1, <3>2
  <2>6. CASE AppendLog(r)
    <3>1. /\ state' = state /\ faults' = faults
          /\ \A q \in Requests : q # r => req'[q] = req[q]
          /\ stateLog' = [stateLog EXCEPT ![req[r].booking] = @ \cup {<<req[r].from, Target(r)>>}]
          /\ req[r].from \in BookingState
      BY <1>0, <2>0, <2>1, <2>6 DEF AppendLog, LogTransition, Finish, RequestSound, TypeOK
    <3>2. /\ stateLog[b] \subseteq stateLog'[b]
          /\ req[r].booking = b => <<req[r].from, Target(r)>> \in stateLog'[b]
      BY <1>0, <3>1 DEF TypeOK
    <3> QED
      BY <3>1, <3>2, LogPendingStays
  <2>7. CASE CommitOtpStart(r) \/ CommitOtpEnd(r) \/ CommitRelease(r)
    <3>1. /\ req[r].pc = "validated" /\ SetState(r) /\ LogTransition(r) /\ faults' = faults
          /\ \A q \in Requests : q # r => req'[q] = req[q]
      BY <1>0, <2>7 DEF CommitOtpStart, CommitOtpEnd, CommitRelease, Answer, Finish, TypeOK
    <3>2. req[r].from \in BookingState
      BY <2>0, <2>1, <3>1 DEF RequestSound
    <3>3. CASE req[r].booking = b
      <4>1. state'[b] = Target(r) /\ <<req[r].from, Target(r)>> \in stateLog'[b]
        BY <1>0, <3>1, <3>3 DEF SetState, LogTransition, TypeOK
      <4> QED
        BY <3>2, <4>1 DEF Logged
    <3>4. CASE req[r].booking # b
      <4>1. state'[b] = state[b] /\ stateLog'[b] = stateLog[b]
        BY <1>0, <2>1, <3>1, <3>4 DEF SetState, LogTransition, TypeOK
      <4> QED
        BY <3>1, <3>4, <4>1, LogPendingStays
    <3> QED
      BY <3>3, <3>4
  <2> QED
    BY <1>3, <2>2, <2>3, <2>4, <2>5, <2>6, <2>7 DEF Advance
<1>4. ASSUME NEW c \in Bookings, DepositCaptured(c) \/ FinalCaptured(c)
      PROVE  (Logged(b) \/ LogPending(b))'
  <2>1. CASE FinalCaptured(c) /\ c = b
    <3>1. state'[b] = "PAYOUT_PENDING" /\ <<"COMPLETED", "PAYOUT_PENDING">> \in stateLog'[b]
      BY <1>0, <2>1 DEF FinalCaptured, SettleBooking, SettlementLog, TypeOK
    <3> QED
      BY <3>1 DEF Logged, BookingState
  <2>2. CASE DepositCaptured(c) \/ c # b
    BY <1>0, <1>4, <2>2, LogPendingStays DEF DepositCaptured, FinalCaptured, MarkDepositPaid,
       SettleBooking, TypeOK
  <2> QED
    BY <1>4, <2>1, <2>2
<1>5. CASE CrashRequests \/ \E r \in Requests : FailRequest(r)
  <2>1. UNCHANGED bookingVars /\ faults' = faults + 1 /\ faults \in Nat
    BY <1>0, <1>5, ConstantsAssumption DEF CrashRequests, FailRequest, CanFail, TypeOK
  <2> QED
    BY <2>1, LogPendingStays DEF bookingVars
<1>6. CASE UNCHANGED routesVars
  BY <1>6, LogPendingStays DEF routesVars, bookingVars
<1> QED
  BY <1>2, <1>3, <1>4, <1>5, <1>6 DEF RoutesNext, RequestStep, CaptureStep

\* The audit trail of a booking holds legal transitions only, and explains the
\* state of the booking; outside a transaction the row that does may be missing
\* while its request runs or when a fault stopped it (transitionBookingState
\* updates the state and then appends the row).
THEOREM AuditTrailHolds == RoutesSpec => []AuditTrail
<1>1. RoutesInit => AuditTrail
  BY DEF RoutesInit, AuditTrail
<1>2. Structure /\ AuditTrail /\ [RoutesNext]_routesVars => AuditTrail'
  <2> SUFFICES ASSUME Structure, AuditTrail, [RoutesNext]_routesVars
               PROVE  AuditTrail'
    OBVIOUS
  <2>1. LegalLog'
    BY AuditTrailParts, LegalLogStep
  <2>2. \A b \in Bookings : (Logged(b) \/ LogPending(b))'
    BY AuditTrailParts, LoggedStep
  <2>3. (LegalLog /\ \A b \in Bookings : Logged(b) \/ LogPending(b))'
    BY <2>1, <2>2
  <2> QED
    BY <2>3, AuditTrailParts DEF AuditTrail, LegalLog, Logged, LogPending
<1>3. Evidenced => Structure
  BY DEF Evidenced
<1> QED
  BY <1>1, <1>2, <1>3, AlwaysEvidenced, PTL DEF RoutesSpec

-----------------------------------------------------------------------------
(* Requests that do not overlap *)

\* No request writes the columns of the collected payments.
LEMMA PaidColumnsStay ==
    ASSUME RequestStep
    PROVE  UNCHANGED <<depositPaidAt, finalPaidAt>>
BY DEF RequestStep, Arrive, Advance, InsertBooking, ReadState, RejectState, UpdateState,
   AppendLog, CommitOtpStart, ShowStartOtp, CommitOtpEnd, ShowEndOtp, CommitRelease,
   AbortRelease, InsertTracking, FailRequest, CrashRequests, AdmitCreate, AdmitConfirm,
   AdmitCancel, AdmitOtpStart, AdmitStartSession, AdmitOtpEnd, AdmitEndSession,
   AdmitTracking, AdmitRelease, Admit, bookingVars, paidColumns

\* As long as the booking requests of the routes do not overlap, an update lands
\* on the state that was validated, what the checks of a new booking and of a
\* tracking row found is still so, and the state says what has been paid.
NothingStale ==
    /\ \A r \in Requests :
          /\ InFlight(r) /\ req[r].pc = "validated" => req[r].from = state[req[r].booking]
          /\ At(r, "admitted", {"create"}) =>
                ~Exists(req[r].booking) /\ ~SoftLocked(ownerOf[req[r].booking])
          /\ At(r, "admitted", {"track"}) => state[req[r].booking] = "IN_PROGRESS"
    /\ \A b \in Bookings : finalPaidAt[b] <=> state[b] \in {"PAYOUT_PENDING", "PAID_OUT"}

\* A final payment is captured where it is due, and never a second time.
LEMMA FinalIsDue ==
    ASSUME Structure, NEW b \in Bookings, FinalCaptured(b)
    PROVE  /\ state[b] = "PENDING_PAYMENT"
           /\ state' = [state EXCEPT ![b] = "PAYOUT_PENDING"]
           /\ finalPaidAt' = [finalPaidAt EXCEPT ![b] = TRUE]
           /\ UNCHANGED req
<1>1. state[b] \in BookingState /\ CanTransition(state[b], "PAYMENT_LOCKED")
  BY DEF FinalCaptured, SettleBooking, Exists, Structure, TypeOK, RowState
<1>2. state[b] = "PENDING_PAYMENT"
  BY <1>1 DEF CanTransition, transitionMap, BookingState, Cancelled
<1> QED
  BY <1>2 DEF FinalCaptured, SettleBooking

\* What the handlers' targets leave of transitionMap.
LEMMA HandlersMoves ==
    ASSUME NEW from \in BookingState, NEW kind \in TransitionKinds,
           CanTransition(from, nextState[kind])
    PROVE  /\ from # "PENDING_PAYMENT"
           /\ nextState[kind] \in {"PAYOUT_PENDING", "PAID_OUT"}
                 <=> from \in {"PAYOUT_PENDING", "PAID_OUT"}
BY DEF CanTransition, transitionMap, nextState, TransitionKinds, BookingState, Cancelled

LEMMA NothingStaleAfterCapture ==
    ASSUME Structure, NothingStale, NEW b \in Bookings, DepositCaptured(b) \/ FinalCaptured(b)
    PROVE  NothingStale'
<1>0. TypeOK
  BY DEF Structure
<1>1. CASE DepositCaptured(b)
  BY <1>1 DEF DepositCaptured, MarkDepositPaid, NothingStale, InFlight, At, Exists, SoftLocked
<1>2. CASE FinalCaptured(b)
  <2>1. /\ state[b] = "PENDING_PAYMENT"
        /\ state' = [state EXCEPT ![b] = "PAYOUT_PENDING"]
        /\ finalPaidAt' = [finalPaidAt EXCEPT ![b] = TRUE]
        /\ UNCHANGED req
    BY <1>0, <1>2, FinalIsDue
  <2>2. ASSUME NEW r \in Requests, InFlight(r)', req'[r].pc = "validated"
        PROVE  req'[r].from = state'[req'[r].booking]
    <3>1. /\ InFlight(r) /\ req[r].pc = "validated" /\ req[r].booking \in Bookings
          /\ req[r].from = state[req[r].booking]
      BY <1>0, <2>1, <2>2, RequestType DEF NothingStale, InFlight
    <3>2. PICK kind \in TransitionKinds, from \in BookingState :
              /\ kind = req[r].kind /\ from = req[r].from
              /\ CanTransition(from, nextState[kind])
      BY <1>0, <3>1 DEF Structure, RequestSound, Target
    <3>3. req[r].booking # b
      BY <2>1, <3>1, <3>2, HandlersMoves
    <3> QED
      BY <1>0, <2>1, <3>1, <3>3 DEF TypeOK
  <2>3. ASSUME NEW r \in Requests, At(r, "admitted", {"create"})'
        PROVE  (~Exists(req[r].booking) /\ ~SoftLocked(ownerOf[req[r].booking]))'
    <3>1. /\ At(r, "admitted", {"create"})
          /\ ~Exists(req[r].booking) /\ ~SoftLocked(ownerOf[req[r].booking])
      BY <2>1, <2>3 DEF NothingStale, At
    <3>2. req[r].booking # b
      BY <1>2, <3>1 DEF FinalCaptured
    <3>3. InFlight(r)
      BY <3>1 DEF At, InFlight
    <3>4. req[r].booking \in Bookings
      BY <1>0, <3>3, RequestType
    <3>5. SoftLocked(ownerOf[req[r].booking])' => SoftLocked(ownerOf[req[r].booking])
      BY <1>0, <2>1 DEF SoftLocked, SoftLockStates, TypeOK
    <3> QED
      BY <1>0, <2>1, <3>1, <3>2, <3>4, <3>5 DEF Exists, TypeOK
  <2>4. ASSUME NEW r \in Requests, At(r, "admitted", {"track"})'
        PROVE  (state[req[r].booking] = "IN_PROGRESS")'
    <3>1. At(r, "admitted", {"track"}) /\ state[req[r].booking] = "IN_PROGRESS"
      BY <2>1, <2>4 DEF NothingStale, At
    <3>2. req[r].booking \in Bookings
      BY <1>0, <3>1, RequestType DEF At, InFlight
    <3> QED
      BY <1>0, <2>1, <3>1, <3>2 DEF TypeOK
  <2>5. ASSUME NEW d \in Bookings
        PROVE  finalPaidAt'[d] <=> state'[d] \in {"PAYOUT_PENDING", "PAID_OUT"}
    BY <1>0, <2>1 DEF NothingStale, TypeOK
  <2> QED
    BY <2>2, <2>3, <2>4, <2>5 DEF NothingStale
<1> QED
  BY <1>1, <1>2

\* With one request at a time, nobody else writes between its read and its update.
LEMMA NothingStaleAfterRequest ==
    ASSUME \A q, r \in Requests : q = r, Structure, NothingStale, RequestStep
    PROVE  NothingStale'
<1>0. TypeOK
  BY DEF Structure
<1>1. UNCHANGED finalPaidAt
  BY PaidColumnsStay
<1>2. CASE CrashRequests
  BY <1>1, <1>2 DEF CrashRequests, NothingStale, InFlight, At, Idle, bookingVars
<1>3. ASSUME NEW r \in Requests, req'[r] = Idle, UNCHANGED state
      PROVE  NothingStale'
  BY <1>1, <1>3 DEF NothingStale, InFlight, At, Idle, SoftLocked
<1>4. ASSUME NEW r \in Requests, FailRequest(r)
      PROVE  NothingStale'
  BY <1>0, <1>3, <1>4 DEF FailRequest, Finish, TypeOK, bookingVars
<1>5. ASSUME NEW r \in Requests, NEW b \in Bookings, Arrive(r, b)
      PROVE  NothingStale'
  <2>1. PICK kind \in Kinds :
            /\ Admit(r, b, kind)
            /\ kind = "create" => ~Exists(b) /\ ~SoftLocked(ownerOf[b])
            /\ kind = "track" => state[b] = "IN_PROGRESS"
    BY <1>5 DEF Arrive, AdmitCreate, AdmitConfirm, AdmitCancel, AdmitOtpStart,
       AdmitStartSession, AdmitOtpEnd, AdmitEndSession, AdmitTracking, AdmitRelease, Kinds,
       TransitionKinds
  <2>2. /\ req'[r].pc = "admitted" /\ req'[r].kind = kind /\ req'[r].booking = b
        /\ UNCHANGED state
    BY <1>0, <2>1 DEF Admit, TypeOK, bookingVars
  <2> QED
    BY <1>1, <2>1, <2>2 DEF NothingStale, At, Exists, SoftLocked
<1>6. ASSUME NEW r \in Requests, Advance(r)
      PROVE  NothingStale'
  <2> USE DEF At
  <2>0. InFlight(r)
    BY <1>6 DEF Advance, InsertBooking, ReadState, RejectState, UpdateState, AppendLog,
       CommitOtpStart, ShowStartOtp, CommitOtpEnd, ShowEndOtp, CommitRelease,
       AbortRelease, InsertTracking, InFlight
  <2>1. /\ req[r] \in Request /\ req[r].booking \in Bookings
        /\ RequestSound(r)
    BY <1>0, <2>0, RequestType DEF Structure
  <2>2. CASE ReadState(r)
    <3>1. /\ req'[r].pc = "validated"
          /\ req'[r].booking = req[r].booking
          /\ req'[r].from = state[req[r].booking]
          /\ UNCHANGED state
      BY <1>0, <2>1, <2>2 DEF ReadState, TypeOK, Request, bookingVars
    <3> QED
      BY <1>1, <3>1 DEF NothingStale
  <2>3. CASE InsertBooking(r)
    <3>1. /\ req'[r] = Idle /\ ~Exists(req[r].booking)
          /\ state' = [state EXCEPT ![req[r].booking] = "REQUESTED"]
      BY <1>0, <2>3 DEF InsertBooking, Finish, TypeOK, NothingStale
    <3>2. \A b \in Bookings : finalPaidAt[b] <=> state'[b] \in {"PAYOUT_PENDING", "PAID_OUT"}
      BY <1>0, <2>1, <3>1 DEF NothingStale, TypeOK, Exists
    <3> QED
      BY <1>1, <3>1, <3>2 DEF NothingStale, InFlight, Idle
  <2>4. CASE UpdateState(r) \/ CommitOtpStart(r) \/ CommitOtpEnd(r) \/ CommitRelease(r)
    <3>1. /\ req[r].pc = "validated" /\ req[r].kind \in TransitionKinds
          /\ SetState(r)
      BY <2>4 DEF UpdateState, CommitOtpStart, CommitOtpEnd, CommitRelease, TransitionKinds
    <3>2. PICK kind \in TransitionKinds, from \in BookingState :
              /\ kind = req[r].kind /\ from = req[r].from
              /\ CanTransition(from, nextState[kind])
      BY <2>0, <2>1, <3>1 DEF RequestSound, Target
    <3>3. from = state[req[r].booking]
      BY <2>0, <3>1, <3>2 DEF NothingStale
    <3>4. \A b \in Bookings : finalPaidAt[b] <=> state'[b] \in {"PAYOUT_PENDING", "PAID_OUT"}
      BY <1>0, <2>1, <3>1, <3>2, <3>3, HandlersMoves DEF NothingStale, SetState, Target, TypeOK
    <3>5. req'[r].pc \in {"idle", "updated", "answered"}
      BY <1>0, <2>1, <2>4 DEF UpdateState, CommitOtpStart, CommitOtpEnd, CommitRelease,
         Answer, Finish, Idle, TypeOK, Request
    <3> QED
      BY <1>1, <3>4, <3>5 DEF NothingStale
  <2>5. CASE \/ RejectState(r) \/ AppendLog(r) \/ ShowStartOtp(r) \/ ShowEndOtp(r)
             \/ AbortRelease(r) \/ InsertTracking(r)
    <3>1. req'[r] = Idle /\ UNCHANGED state
      BY <1>0, <2>5 DEF RejectState, AppendLog, ShowStartOtp, ShowEndOtp, AbortRelease,
         InsertTracking, Finish, TypeOK, bookingVars
    <3> QED
      BY <1>3, <3>1
  <2> QED
    BY <1>6, <2>2, <2>3, <2>4, <2>5 DEF Advance
<1> QED
  BY <1>2, <1>4, <1>5, <1>6 DEF RequestStep


LEMMA NothingStaleNext ==
    ASSUME \A q, r \in Requests : q = r, Structure, NothingStale, [RoutesNext]_routesVars
    PROVE  NothingStale'
<1>1. CASE UNCHANGED routesVars
  BY <1>1 DEF routesVars, bookingVars, paidColumns, NothingStale, InFlight, At, Exists, SoftLocked
<1> QED
  BY <1>1, NothingStaleAfterRequest, NothingStaleAfterCapture DEF RoutesNext, CaptureStep

LEMMA AlwaysNothingStale ==
    ASSUME \A q, r \in Requests : q = r
    PROVE  RoutesSpec => []NothingStale
<1>1. RoutesInit => NothingStale
  BY DEF RoutesInit, NothingStale, InFlight, At, Idle
<1>2. Evidenced /\ NothingStale /\ [RoutesNext]_routesVars => NothingStale'
  BY NothingStaleNext DEF Evidenced
<1> QED
  BY <1>1, <1>2, AlwaysEvidenced, PTL DEF RoutesSpec

\* The statement of a request that changes what the lifecycle sees is the step
\* of the lifecycle that the request asked for.
LEMMA AdvanceIsLifecycleStep ==
    ASSUME Evidenced, NothingStale, NEW r \in Requests, Advance(r)
    PROVE  [Lifecycle!LifecycleNext]_(Lifecycle!lifecycleVars)
<1> USE DEF At
<1>0. Structure /\ TypeOK
  BY DEF Evidenced, Structure
<1>1. InFlight(r)
  BY DEF Advance, InsertBooking, ReadState, RejectState, UpdateState, AppendLog,
     CommitOtpStart, ShowStartOtp, CommitOtpEnd, ShowEndOtp, CommitRelease,
     AbortRelease, InsertTracking, InFlight
<1> DEFINE b == req[r].booking
<1>2. b \in Bookings /\ RequestSound(r) /\ RequestEvidence(r)
  BY <1>0, <1>1, RequestType DEF Structure, Evidenced
<1>3. CASE UNCHANGED <<state, depositPaidAt, finalPaidAt, payoutReleasedAt, tracking>>
  BY <1>3 DEF Lifecycle!lifecycleVars, Lifecycle!rowVars
<1>4. CASE InsertBooking(r)
  <2>1. ~Lifecycle!MustPayFirst(ownerOf[b])
    BY <1>4 DEF InsertBooking, NothingStale, SoftLocked, SoftLockStates, Lifecycle!MustPayFirst
  <2>2. Lifecycle!Create(b)
    BY <1>4, <2>1 DEF InsertBooking, NothingStale, Exists, Lifecycle!Create, paidColumns
  <2> QED
    BY <1>2, <2>2 DEF Lifecycle!LifecycleNext
<1>6. CASE InsertTracking(r)
  <2>1. Lifecycle!Track(b)
    BY <1>6 DEF InsertTracking, Session, NothingStale, Lifecycle!Track, Lifecycle!rowVars, paidColumns
  <2> QED
    BY <1>2, <2>1 DEF Lifecycle!LifecycleNext
<1>5. CASE UpdateState(r) \/ CommitOtpStart(r) \/ CommitOtpEnd(r) \/ CommitRelease(r)
  <2>1. /\ req[r].pc = "validated" /\ req[r].kind \in TransitionKinds
        /\ state' = [state EXCEPT ![b] = Target(r)]
        /\ UNCHANGED <<depositPaidAt, finalPaidAt, tracking>>
    BY <1>5 DEF UpdateState, CommitOtpStart, CommitOtpEnd, CommitRelease, SetState,
       TransitionKinds, paidColumns
  <2>2. PICK kind \in TransitionKinds, from \in BookingState :
            /\ kind = req[r].kind /\ from = state[b]
            /\ CanTransition(from, nextState[kind])
    BY <1>1, <1>2, <2>1 DEF RequestSound, Target, NothingStale
  <2>3. Target(r) = nextState[kind]
    BY <2>2 DEF Target
  <2>4. CASE kind = "release"
    <3>1. CommitRelease(r)
      BY <1>5, <2>2, <2>4 DEF UpdateState, CommitOtpStart, CommitOtpEnd, Transactional
    <3>2. from = "PAYOUT_PENDING" /\ nextState[kind] = "PAID_OUT"
      BY <2>2, <2>4 DEF CanTransition, transitionMap, BookingState, Cancelled, nextState,
         TransitionKinds
    <3>3. Lifecycle!PayOut(b)
      BY <2>1, <2>2, <2>3, <3>1, <3>2 DEF CommitRelease, Lifecycle!PayOut
    <3> QED
      BY <1>2, <2>1, <3>3 DEF Lifecycle!LifecycleNext, Lifecycle!RowStep
  <2>5. CASE kind # "release"
    <3>1. UNCHANGED payoutReleasedAt
      BY <1>5, <2>2, <2>5 DEF UpdateState, CommitOtpStart, CommitOtpEnd, CommitRelease,
         paidColumns
    <3>2. /\ nextState[kind] \in {"CONFIRMED", "OTP_READY", "IN_PROGRESS", "PENDING_END_OTP",
                                  "PENDING_PAYMENT"} \cup Cancelled
          /\ nextState[kind] = "OTP_READY" => kind = "otpStart"
          /\ nextState[kind] \in BookingState
      BY <2>5 DEF nextState, TransitionKinds, Cancelled, BookingState
    <3>3. nextState[kind] = "OTP_READY" => depositPaidAt[b]
      BY <1>1, <1>2, <2>2, <3>2 DEF RequestEvidence
    <3>4. /\ CanTransition(state[b], nextState[kind])
          /\ state[b] # "ABSENT"
      BY <2>2 DEF BookingState
    <3>5. Lifecycle!Progress(b, nextState[kind])
      BY <2>1, <2>3, <3>1, <3>2, <3>3, <3>4 DEF Lifecycle!Progress, CanTransition,
         Lifecycle!CanTransition, transitionMap, Lifecycle!transitionMap, Cancelled,
         Lifecycle!Cancelled, BookingState, Lifecycle!BookingState
    <3> QED
      BY <1>2, <2>1, <3>2, <3>5 DEF Lifecycle!LifecycleNext, Lifecycle!RowStep, BookingState,
         Lifecycle!BookingState
  <2> QED
    BY <2>4, <2>5
<1> QED
  BY <1>3, <1>4, <1>5, <1>6 DEF Advance, ReadState, RejectState, AppendLog, ShowStartOtp,
     ShowEndOtp, AbortRelease, bookingVars, paidColumns

LEMMA RoutesStepIsLifecycleStep ==
    ASSUME Evidenced, NothingStale, [RoutesNext]_routesVars
    PROVE  [Lifecycle!LifecycleNext]_(Lifecycle!lifecycleVars)
<1>1. CASE UNCHANGED bookingVars
  BY <1>1 DEF bookingVars, paidColumns, Lifecycle!lifecycleVars, Lifecycle!rowVars
<1>2. ASSUME NEW b \in Bookings, DepositCaptured(b)
      PROVE  Lifecycle!LifecycleNext
  <2>1. Lifecycle!PayDeposit(b)
    BY <1>2 DEF DepositCaptured, MarkDepositPaid, Exists, Lifecycle!PayDeposit
  <2> QED
    BY <1>2, <2>1 DEF DepositCaptured, MarkDepositPaid, Lifecycle!LifecycleNext, Lifecycle!RowStep
<1>3. ASSUME NEW b \in Bookings, FinalCaptured(b)
      PROVE  Lifecycle!LifecycleNext
  <2>1. /\ state[b] = "PENDING_PAYMENT"
        /\ state' = [state EXCEPT ![b] = "PAYOUT_PENDING"]
        /\ finalPaidAt' = [finalPaidAt EXCEPT ![b] = TRUE]
    BY <1>3, FinalIsDue DEF Evidenced
  <2>2. depositPaidAt[b]
    BY <2>1 DEF Evidenced, BookingEvidence, Evidence, ServiceStates, StartedStates, EndedStates
  <2>3. Lifecycle!PayFinal(b)
    BY <1>3, <2>1, <2>2 DEF FinalCaptured, SettleBooking, Lifecycle!PayFinal
  <2> QED
    BY <1>3, <2>3 DEF FinalCaptured, SettleBooking, Lifecycle!LifecycleNext, Lifecycle!RowStep
<1>4. ASSUME NEW r \in Requests, NEW b \in Bookings, Arrive(r, b)
      PROVE  UNCHANGED bookingVars
  BY <1>4 DEF Arrive, AdmitCreate, AdmitConfirm, AdmitCancel, AdmitOtpStart,
     AdmitStartSession, AdmitOtpEnd, AdmitEndSession, AdmitTracking, AdmitRelease, Admit
<1> QED
  BY <1>1, <1>2, <1>3, <1>4, AdvanceIsLifecycleStep DEF RoutesNext, RequestStep, CaptureStep,
     FailRequest, CrashRequests, routesVars

\* Requests that do not overlap are indistinguishable from the lifecycle that the
\* routes promise, whatever fails in between and whenever payments are captured:
\* each statement is a step of BookingLifecycle or a stutter.
THEOREM SerialRoutesImplementLifecycle ==
    ASSUME \A q, r \in Requests : q = r
    PROVE  RoutesSpec => ImplementsLifecycle
<1>1. RoutesInit => Lifecycle!LifecycleInit
  BY DEF RoutesInit, Lifecycle!LifecycleInit
<1>2. Evidenced /\ NothingStale /\ [RoutesNext]_routesVars
          => [Lifecycle!LifecycleNext]_(Lifecycle!lifecycleVars)
  BY RoutesStepIsLifecycleStep
<1> QED
  BY <1>1, <1>2, AlwaysEvidenced, AlwaysNothingStale, PTL
     DEF RoutesSpec, ImplementsLifecycle, Lifecycle!LifecycleSpec

\* A step of the lifecycle moves a booking along transitionMap.
LEMMA LifecycleFollowsMap ==
    ASSUME TypeOK, [Lifecycle!LifecycleNext]_(Lifecycle!lifecycleVars), NEW b \in Bookings
    PROVE  \/ state'[b] = state[b]
           \/ state[b] = "ABSENT" /\ state'[b] = "REQUESTED"
           \/ Exists(b) /\ CanTransition(state[b], state'[b])
           \/ state[b] = "PENDING_PAYMENT" /\ state'[b] = "PAYOUT_PENDING"
<1>1. CASE UNCHANGED state
  BY <1>1
<1>2. ASSUME NEW c \in Bookings, NEW next \in BookingState, Lifecycle!Progress(c, next)
      PROVE  \/ state'[b] = state[b]
             \/ Exists(b) /\ CanTransition(state[b], state'[b])
  <2>1. /\ state[c] # "ABSENT" /\ Lifecycle!CanTransition(state[c], next)
        /\ state' = [state EXCEPT ![c] = next]
    BY <1>2 DEF Lifecycle!Progress
  <2>2. CanTransition(state[c], next)
    BY <2>1 DEF CanTransition, Lifecycle!CanTransition, transitionMap,
       Lifecycle!transitionMap, Cancelled, Lifecycle!Cancelled, BookingState,
       Lifecycle!BookingState
  <2>3. state'[b] = IF b = c THEN next ELSE state[b]
    BY <2>1 DEF TypeOK
  <2> QED
    BY <2>1, <2>2, <2>3 DEF Exists
<1>3. ASSUME NEW c \in Bookings, Lifecycle!PayOut(c)
      PROVE  \/ state'[b] = state[b]
             \/ Exists(b) /\ CanTransition(state[b], state'[b])
  <2>1. state[c] = "PAYOUT_PENDING" /\ state' = [state EXCEPT ![c] = "PAID_OUT"]
    BY <1>3 DEF Lifecycle!PayOut
  <2>2. CanTransition("PAYOUT_PENDING", "PAID_OUT")
    BY DEF CanTransition, transitionMap, BookingState
  <2>3. state'[b] = IF b = c THEN "PAID_OUT" ELSE state[b]
    BY <2>1 DEF TypeOK
  <2> QED
    BY <2>1, <2>2, <2>3 DEF Exists
<1>4. ASSUME NEW c \in Bookings, Lifecycle!Create(c) \/ Lifecycle!PayFinal(c)
      PROVE  \/ state'[b] = state[b]
             \/ state[b] = "ABSENT" /\ state'[b] = "REQUESTED"
             \/ state[b] = "PENDING_PAYMENT" /\ state'[b] = "PAYOUT_PENDING"
  BY <1>4 DEF Lifecycle!Create, Lifecycle!PayFinal, TypeOK
<1>5. ASSUME NEW c \in Bookings, Lifecycle!Track(c) \/ Lifecycle!PayDeposit(c)
      PROVE  UNCHANGED state
  BY <1>5 DEF Lifecycle!Track, Lifecycle!PayDeposit, Lifecycle!rowVars
<1> QED
  BY <1>1, <1>2, <1>3, <1>4, <1>5 DEF Lifecycle!LifecycleNext, Lifecycle!RowStep,
     Lifecycle!lifecycleVars, Lifecycle!rowVars, Lifecycle!BookingState, BookingState

\* The state machine of utils/stateMachine.ts is kept as long as requests do not
\* overlap; the update by id alone is what breaks it when they do.
THEOREM SerialRoutesFollowMap ==
    ASSUME \A q, r \in Requests : q = r
    PROVE  RoutesSpec => FollowsTransitionMap
<1>1. Evidenced /\ NothingStale /\ [RoutesNext]_routesVars =>
          [\A b \in Bookings :
              \/ state'[b] = state[b]
              \/ state[b] = "ABSENT" /\ state'[b] = "REQUESTED"
              \/ Exists(b) /\ CanTransition(state[b], state'[b])
              \/ state[b] = "PENDING_PAYMENT" /\ state'[b] = "PAYOUT_PENDING"]_routesVars
  BY RoutesStepIsLifecycleStep, LifecycleFollowsMap DEF Evidenced, Structure
<1> QED
  BY <1>1, AlwaysEvidenced, AlwaysNothingStale, PTL DEF RoutesSpec, FollowsTransitionMap

=============================================================================
