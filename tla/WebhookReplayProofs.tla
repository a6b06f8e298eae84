------------------------ MODULE WebhookReplayProofs -------------------------
(***************************************************************************)
(* Proofs about WebhookReplay: what is proved of the payment rows holds    *)
(* when operators replay events, under keys that lock nothing, next to the *)
(* deliveries.  A replay takes steps of the same five kinds, see module    *)
(* PaymentServiceProofs.                                                   *)
(***************************************************************************)
EXTENDS WebhookReplay, PaymentServiceProofs

\* What a replay in flight has already established.
ReplaySound(c) ==
    ~Free(c) /\ call[c].op = "replay" =>
        /\ call[c].payment \in Payments
        /\ call[c].pc = "apply" => OrderOf(c) \in Orders

\* A row that has its bookingId is of a payment that was captured.
LinkedSound ==
    /\ linked \subseteq DedupeKeys
    /\ \A k \in linked : paidOrder[k[1]] \in Orders /\ Captured(paidOrder[k[1]])

ReplayedSound ==
    /\ BooksSound
    /\ CallsSound
    /\ EventsSound
    /\ \A c \in Calls : ReplaySound(c)
    /\ LinkedSound

\* The steps of a replay are of the five kinds, too.
LEMMA ReplayingIsBooksStep ==
    ASSUME ReplayedSound, Replaying
    PROVE  BooksStep
<1>0. ASSUME UNCHANGED <<routesVars, tables, paidOrder>>
      PROVE  BooksStep
  BY <1>0 DEF BooksStep, RowsUntouched, routesVars, bookingVars, paidColumns
<1>1. PICK c \in Calls : ReplayStep(c) \/ \E k \in DedupeKeys : BeginReplay(c, k)
  BY DEF Replaying
<1>2. CASE CommitReplay(c) /\ CanApply(c)
  <2>1. /\ ~Free(c) /\ call[c].op = "replay" /\ call[c].pc = "apply"
        /\ ApplyCapture(c) /\ UNCHANGED paidOrder
    BY <1>2 DEF CommitReplay, Running, Free, Idle, rzpVars
  <2>2. call[c].payment \in Payments /\ OrderOf(c) \in Orders
    BY <2>1 DEF ReplayedSound, ReplaySound
  <2>3. CaptureRecorded(call[c].payment)
    BY <1>2, <2>1, <2>2, ApplyIsCapture DEF ReplayedSound, BooksSound
  <2> QED
    BY <2>2, <2>3 DEF BooksStep
<1>3. CASE CommitReplay(c) /\ ~CanApply(c)
  BY <1>0, <1>3 DEF CommitReplay, rzpVars
<1>4. CASE ReplayLookUp(c) \/ \E k \in DedupeKeys : BeginReplay(c, k)
  BY <1>0, <1>4 DEF ReplayLookUp, BeginReplay, rzpVars
<1> QED
  BY <1>1, <1>2, <1>3, <1>4 DEF ReplayStep

LEMMA ReplayNextIsBooksStep ==
    ASSUME ReplayedSound, [ReplayNext]_replayVars
    PROVE  BooksStep
BY ReplayingIsBooksStep, NextIsBooksStep DEF ReplayNext, ReplayedSound, BooksSound, replayVars

\* What a replay does to its own call, and to nobody else's.
LEMMA ReplayingCalls ==
    ASSUME ReplayedSound, Replaying
    PROVE  /\ call' = [c \in Calls |-> call'[c]]
           /\ \A c \in Calls :
                 \/ call'[c] = call[c]
                 \/ CallSound(c)' /\ ReplaySound(c)'
<1>1. PICK d \in Calls : ReplayStep(d) \/ \E k \in DedupeKeys : BeginReplay(d, k)
  BY DEF Replaying
<1>2. CASE Return(d)
  BY <1>2 DEF Return, ReplayedSound, CallsSound, CallSound, ReplaySound, Free
<1>3. CASE \E k \in DedupeKeys : BeginReplay(d, k)
  <2>1. PICK k \in DedupeKeys :
            call' = [call EXCEPT ![d] = [op |-> "replay", pc |-> "inserted",
                                         payment |-> k[1], type |-> storedType[k]]]
    BY <1>3 DEF BeginReplay
  <2>2. k[1] \in Payments
    BY DEF DedupeKeys
  <2>3. /\ call'[d].op = "replay" /\ call'[d].pc = "inserted" /\ call'[d].payment = k[1]
        /\ \A c \in Calls : c # d => call'[c] = call[c]
        /\ call' = [c \in Calls |-> call'[c]]
    BY <2>1 DEF ReplayedSound, CallsSound
  <2> QED
    BY <2>2, <2>3 DEF CallSound, ReplaySound
<1>4. CASE ReplayLookUp(d) /\ GoTo(d, "apply")
  <2>1. /\ ~Free(d) /\ call[d].op = "replay" /\ UNCHANGED paidOrder
        /\ \/ OrderOf(d) \in Orders
           \/ Return(d)
    BY <1>4 DEF ReplayLookUp, Running, Free, Idle, OrderOf, rzpVars
  <2> DEFINE now == call[d]
  <2>2. /\ call'[d] = [now EXCEPT !.pc = "apply"]
        /\ \A c \in Calls : c # d => call'[c] = call[c]
        /\ call' = [c \in Calls |-> call'[c]]
    BY <1>4 DEF GoTo, ReplayedSound, CallsSound
  <2>3. call'[d].op = "replay" /\ call'[d].payment = call[d].payment
    BY <2>1, <2>2
  <2>4. call[d].payment \in Payments
    BY <2>1 DEF ReplayedSound, ReplaySound
  <2>5. CASE OrderOf(d) \in Orders
    BY <2>1, <2>2, <2>3, <2>4, <2>5 DEF CallSound, ReplaySound, OrderOf
  <2> QED
    BY <1>2, <2>1, <2>5
<1> QED
  BY <1>1, <1>2, <1>3, <1>4 DEF ReplayStep, ReplayLookUp, CommitReplay

\* Replays in flight are sound after the steps of others.
LEMMA ReplaysStaySound ==
    ASSUME ReplayedSound, [ReplayNext]_replayVars, NEW c \in Calls
    PROVE  ReplaySound(c)'
<1>0. BooksStep
  BY ReplayNextIsBooksStep
<1>1. CASE call'[c] = call[c]
  <2>1. \A p \in Payments : paidOrder[p] \in Orders => paidOrder'[p] = paidOrder[p]
    BY <1>0, PaidOrderStays, PaymentAssumption DEF ReplayedSound, BooksSound
  <2> QED
    BY <1>1, <2>1 DEF ReplayedSound, ReplaySound, OrderOf, Free
<1>2. CASE call'[c] = Idle
  BY <1>2 DEF ReplaySound, Free
<1>3. CASE Replaying
  BY <1>1, <1>3, ReplayingCalls
<1>4. CASE [Next]_vars
  <2>1. CASE CallStep(c) \/ FailCall(c)
    BY <1>2, <2>1, SteppedCallKind DEF ReplayedSound, ReplaySound
  <2>2. CASE \/ \E b \in Bookings, stage \in Stages, key \in Keys : BeginOrder(c, b, stage, key)
             \/ \E p \in Payments : BeginConfirm(c, p)
             \/ \E e \in Event : DeliverNew(c, e)
    BY <2>2 DEF BeginOrder, BeginConfirm, DeliverNew, ReplayedSound, CallsSound, ReplaySound
  <2> QED
    BY <1>1, <1>2, <1>4, <2>1, <2>2, CallsStep DEF ReplayedSound
<1> QED
  BY <1>3, <1>4 DEF ReplayNext, replayVars

LEMMA LinkedStaysSound ==
    ASSUME ReplayedSound, EventsSound', [ReplayNext]_replayVars
    PROVE  LinkedSound'
<1>0. BooksStep
  BY ReplayNextIsBooksStep
<1>1. \A k \in linked : paidOrder'[k[1]] \in Orders /\ Captured(paidOrder[k[1]])'
  <2>1. \A k \in linked : k[1] \in Payments
    BY DEF ReplayedSound, LinkedSound, DedupeKeys
  <2> QED
    BY <1>0, <2>1, CaptureStays DEF ReplayedSound, LinkedSound
<1>2. CASE UNCHANGED linked
  BY <1>1, <1>2 DEF ReplayedSound, LinkedSound
<1>3. CASE LinkEvents
  BY <1>1, <1>3 DEF LinkEvents, ReplayedSound, LinkedSound, EventsSound
<1> QED
  BY <1>2, <1>3 DEF ReplayNext, Replaying, replayVars

LEMMA ReplayedSoundStep ==
    ReplayedSound /\ [ReplayNext]_replayVars => ReplayedSound'
<1> SUFFICES ASSUME ReplayedSound, [ReplayNext]_replayVars
             PROVE  ReplayedSound'
  OBVIOUS
<1>0. BooksStep
  BY ReplayNextIsBooksStep
<1>1. BooksSound'
  BY <1>0, BooksStaySound DEF ReplayedSound
<1>2. CASE Replaying
  <2>1. \A c \in Calls : CallSound(c)'
    BY <1>0, <1>2, ReplayingCalls, IdleCallsStaySound DEF ReplayedSound, CallsSound
  <2>2. UNCHANGED webhookEvent
    BY <1>2 DEF Replaying, ReplayStep, ReplayLookUp, CommitReplay, BeginReplay
  <2>3. EventsSound'
    BY <1>0, <2>2, OldEventsStaySound DEF ReplayedSound, EventsSound
  <2>4. CallsSound'
    BY <1>2, <2>1, ReplayingCalls DEF CallsSound
  <2> QED
    BY <1>1, <2>3, <2>4, ReplaysStaySound, LinkedStaysSound DEF ReplayedSound
<1>3. CASE [Next]_vars
  <2>1. CallsSound' /\ EventsSound'
    BY <1>3, CallsStaySound, EventsStaySound DEF ReplayedSound
  <2> QED
    BY <1>1, <2>1, ReplaysStaySound, LinkedStaysSound DEF ReplayedSound
<1> QED
  BY <1>2, <1>3 DEF ReplayNext, replayVars

LEMMA AlwaysReplayedSound == ReplaySpec => []ReplayedSound
<1>1. ReplayInit => ReplayedSound
  BY ServiceSoundInit DEF ReplayInit, ServiceSound, ReplayedSound, Init, ReplaySound,
     LinkedSound, Free
<1> QED
  BY <1>1, ReplayedSoundStep, PTL DEF ReplaySpec

\* A failure that the report of a booking counts is of a payment that is on the
\* books (the bookingId of an event row is written with PROCESSED): replays,
\* redeliveries and later failures of the same event do not change that.
THEOREM CountedFailuresAreHarmless == ReplaySpec => []CountedFailuresWereRecorded
<1>1. ReplayedSound => CountedFailuresWereRecorded
  <2> SUFFICES ASSUME ReplayedSound, NEW e \in Event, DedupeKey(e) \in CountedFailures
               PROVE  paidOrder[e.payment] \in Orders /\ Captured(paidOrder[e.payment])
    BY DEF CountedFailuresWereRecorded
  <2>1. DedupeKey(e) \in linked /\ DedupeKey(e)[1] = e.payment
    BY DEF CountedFailures, DedupeKey
  <2> QED
    BY <2>1 DEF ReplayedSound, LinkedSound
<1> QED
  BY <1>1, AlwaysReplayedSound, PTL

\* Replays keep what PROCESSED means.
THEOREM ReplayedIsCaptured == ReplaySpec => []ProcessedMeansCaptured
<1>1. ReplayedSound => ProcessedMeansCaptured
  <2> SUFFICES ASSUME ReplayedSound, NEW e \in Event, webhookEvent[DedupeKey(e)] = "PROCESSED"
               PROVE  paidOrder[e.payment] \in Orders /\ Captured(paidOrder[e.payment])
    BY DEF ProcessedMeansCaptured
  <2>1. DedupeKey(e) \in DedupeKeys /\ DedupeKey(e)[1] = e.payment
    BY DEF DedupeKey, DedupeKeys, Event
  <2> QED
    BY <2>1 DEF ReplayedSound, EventsSound
<1> QED
  BY <1>1, AlwaysReplayedSound, PTL

\* Replays keep the paid columns of a booking and its payment rows in agreement.
THEOREM ReplayedLedgersAgree == ReplaySpec => []LedgerAgrees
<1>1. ReplayedSound => LedgerAgrees
  BY DEF ReplayedSound, BooksSound
<1> QED
  BY <1>1, AlwaysReplayedSound, PTL

\* With replays too, the booking rows see nothing but the captures that module
\* BookingRoutes allows for.
THEOREM ReplaysImplementRoutes == ReplaySpec => ImplementsRoutes
<1>1. ReplayInit => RoutesInit
  BY DEF ReplayInit, Init
<1>2. ReplayedSound /\ [ReplayNext]_replayVars => [RoutesNext]_routesVars
  BY ReplayNextIsBooksStep, BooksStepIsRoutesStep DEF ReplayedSound, BooksSound
<1> QED
  BY <1>1, <1>2, AlwaysReplayedSound, PTL DEF ReplaySpec, ImplementsRoutes, RoutesSpec

=============================================================================
