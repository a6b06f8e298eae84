--------------------------- MODULE PaymentService ---------------------------
(***************************************************************************)
(* Payment collection: services/paymentService.ts with its webhook route   *)
(* (routes/payments.webhook.ts), on top of the booking routes.             *)
(*                                                                         *)
(* Three kinds of calls run concurrently: an owner orders a payment, the   *)
(* owner's browser confirms it after checkout, and Razorpay delivers       *)
(* webhook events, at least once and in any order.  Each call is one       *)
(* READ COMMITTED transaction.  Its reads take no lock, so what they       *)
(* return may be stale when it writes; from its first write to its commit  *)
(* the rows are locked, so the writes are one step.  The one lock held     *)
(* across steps is the unique key of the webhook event row, inserted       *)
(* before the payment is looked up.                                        *)
(***************************************************************************)
EXTENDS BookingRoutes, FiniteSets

CONSTANTS Calls,              \* slots for payment calls in flight at a time
          Orders,             \* Razorpay order ids
          ForeignOrder,       \* an order of the Razorpay account made elsewhere
          Payments,           \* Razorpay payment ids
          None,               \* null: no row, no payment, no order
          Keys,               \* client idempotency keys
          EventTypes,         \* webhook event types the account subscribes to
          EventsCarryId,      \* the body has a top-level id per event
          OnePaymentPerOrder, \* Razorpay captures one payment of an order
          MaxCallFaults,      \* bound on faults when a statement of a call fails
          MayPause            \* PAYMENT_WEBHOOK_PAUSED may be on at first

ASSUME PaymentAssumption ==
    /\ ForeignOrder \notin Orders
    /\ None \notin Orders \cup Payments \cup {ForeignOrder}
    /\ {EventsCarryId, OnePaymentPerOrder, MayPause} \subseteq BOOLEAN
    /\ MaxCallFaults \in Nat

VARIABLES
    txRow,         \* PaymentTransaction of a Razorpay order, or None
    escrow,        \* EscrowTransaction of the order's row
    payoutStatus,  \* ProviderPayout.status of a booking
    webhookEvent,  \* WebhookEvent.status by dedupeKey
    paidOrder,     \* the order that a Razorpay payment captured money for
    acked,         \* webhook events answered with 200
    paused,        \* paymentEnv.PAYMENT_WEBHOOK_PAUSED
    call,          \* what each call slot is doing
    callFaults     \* failed statements so far, at most MaxCallFaults

tables  == <<txRow, escrow, payoutStatus>>
rzpVars == <<paidOrder, acked>>
control == <<paused, callFaults>>
payVars == <<tables, webhookEvent, rzpVars, control, call>>
vars    == <<routesVars, payVars>>

-----------------------------------------------------------------------------
(* Rows, events and calls *)

Stages == {"DEPOSIT", "FINAL"}

TxRow == [booking : Bookings, stage : Stages, key : Keys,
          status : {"CREATED", "CAPTURED"}, payment : Payments \cup {None}]

ASSUME NoneIsNoRow == None \notin TxRow

HasRow(o) == txRow[o] # None
Captured(o) == HasRow(o) /\ txRow[o].status = "CAPTURED"

\* Captured payments of one stage of a booking.
Settling(b, stage) ==
    {o \in Orders : Captured(o) /\ txRow[o].booking = b /\ txRow[o].stage = stage}

Event == [payment : Payments, type : EventTypes]

DedupeKeys == Payments \X (EventTypes \cup {"manual-dedupe"})

\* resolveWebhookDedupeKey: the event's own id, or a key made of the payment id.
DedupeKey(e) == <<e.payment, IF EventsCarryId THEN e.type ELSE "manual-dedupe">>

OrderCall   == [op : {"order"}, pc : {"ordering"}, booking : Bookings, stage : Stages,
                key : Keys]
ConfirmCall == [op : {"confirm"}, pc : {"apply"}, payment : Payments]
WebhookCall == [op : {"webhook"}, pc : {"checked", "inserted", "apply", "failed"},
                payment : Payments, type : EventTypes]

Free(c) == call[c] = Idle
Running(c, op, pc) == call[c].pc = pc /\ call[c].op = op

EventOf(c) == [payment |-> call[c].payment, type |-> call[c].type]
OrderOf(c) == paidOrder[call[c].payment]

Return(c) == call' = [call EXCEPT ![c] = Idle]
GoTo(c, pc) == call' = [call EXCEPT ![c].pc = pc]

-----------------------------------------------------------------------------
(* createPaymentOrder *)

DepositEligible == {"REQUESTED", "CONFIRMED", "OTP_READY"}

\* The booking may be asked for this stage now.
StageDue(b, stage) ==
    \/ stage = "DEPOSIT" /\ state[b] \in DepositEligible
    \/ stage = "FINAL" /\ state[b] = "PENDING_PAYMENT" /\ depositPaidAt[b]

\* The reads of the transaction: no row under this key, no captured payment of
\* the stage, and the stage is due.  A known key returns the order it made.
BeginOrder(c, b, stage, key) ==
    /\ Free(c)
    /\ StageDue(b, stage)
    /\ Settling(b, stage) = {}
    /\ \A o \in Orders : HasRow(o) => txRow[o].key # key
    /\ call' = [call EXCEPT ![c] = [op |-> "order", pc |-> "ordering", booking |-> b,
                                    stage |-> stage, key |-> key]]
    /\ UNCHANGED <<routesVars, tables, webhookEvent, rzpVars, control>>

\* razorpay.orders.create gives a fresh order id; the row is inserted.
InsertOrder(c) ==
    /\ Running(c, "order", "ordering")
    /\ \A o \in Orders : HasRow(o) => txRow[o].key # call[c].key
    /\ \E o \in Orders :
          /\ ~HasRow(o)
          /\ txRow' = [txRow EXCEPT ![o] =
                 [booking |-> call[c].booking, stage |-> call[c].stage, key |-> call[c].key,
                  status |-> "CREATED", payment |-> None]]
    /\ Return(c)
    /\ UNCHANGED <<routesVars, escrow, payoutStatus, webhookEvent, rzpVars, control>>

\* The unique idempotency key refuses the row: the new order is never offered.
RejectOrder(c) ==
    /\ Running(c, "order", "ordering")
    /\ \E o \in Orders : HasRow(o) /\ txRow[o].key = call[c].key
    /\ Return(c)
    /\ UNCHANGED <<routesVars, tables, webhookEvent, rzpVars, control>>

-----------------------------------------------------------------------------
(* Razorpay: a payment of an order is captured, and its events are sent *)

Paid(o) == \E p \in Payments : paidOrder[p] = o

Pay(p, o) ==
    /\ paidOrder[p] = None
    /\ HasRow(o)
    /\ OnePaymentPerOrder => ~Paid(o)
    /\ paidOrder' = [paidOrder EXCEPT ![p] = o]
    /\ UNCHANGED <<routesVars, tables, webhookEvent, acked, control, call>>

PayForeign(p) ==
    /\ paidOrder[p] = None
    /\ paidOrder' = [paidOrder EXCEPT ![p] = ForeignOrder]
    /\ UNCHANGED <<routesVars, tables, webhookEvent, acked, control, call>>

Sent(e) == paidOrder[e.payment] # None

-----------------------------------------------------------------------------
(* applyCapturedPaymentInTx: its read, and its writes with the commit *)

\* What the read of the row by order id finds.
RowIsNew(p) == txRow[paidOrder[p]].status = "CREATED"
\* Mutant of RowRepeats: a row that has no payment yet counts as a repeat.
RowRepeatsUnpaid(p) == txRow[paidOrder[p]].payment \in {p, None}

RowRepeats(p) == Captured(paidOrder[p]) /\ txRow[paidOrder[p]].payment = p
RowMismatches(p) == Captured(paidOrder[p]) /\ txRow[paidOrder[p]].payment # p

\* A FINAL payment moves the booking on, or throws and rolls back.
CanApply(c) ==
    LET row == txRow[OrderOf(c)] IN
    row.stage = "FINAL" => CanTransition(state[row.booking], "PAYMENT_LOCKED")

RecordPayment(o, p) ==
    txRow' = [txRow EXCEPT ![o].status = "CAPTURED", ![o].payment = p]

\* Mutant of CreateEscrow: looks for any escrow row of the booking.
CreateEscrowOncePerBooking(o) ==
    escrow' = [escrow EXCEPT ![o] =
        IF \E q \in Orders : escrow[q] # "NONE" /\ txRow[q].booking = txRow[o].booking
        THEN @ ELSE "HELD"]

CreateEscrow(o) == escrow' = [escrow EXCEPT ![o] = IF @ = "NONE" THEN "HELD" ELSE @]

\* Mutant of EnsurePayout: uses the booking that was read before the writes.
EnsurePayoutStale(b) ==
    payoutStatus' =
        [payoutStatus EXCEPT ![b] =
            IF state[b] = "PAYOUT_PENDING" /\ @ = "NONE"
            THEN "READY_AFTER_DISPUTE_WINDOW" ELSE @]

\* ensureProviderPayoutRowInTx reads the state that this transaction wrote.
EnsurePayout(b) ==
    payoutStatus' =
        [payoutStatus EXCEPT ![b] =
            IF state'[b] = "PAYOUT_PENDING" /\ @ = "NONE"
            THEN "READY_AFTER_DISPUTE_WINDOW" ELSE @]

\* Mutant of UpdateBooking: the stage of the payment is not looked at.
UpdateBookingAsDeposit(b, stage) == MarkDepositPaid(b)

\* Mutant of UpdateBooking: the state is written without transitionBookingState.
UpdateBookingUnlogged(b, stage) ==
    \/ stage = "DEPOSIT" /\ MarkDepositPaid(b)
    \/ /\ stage = "FINAL"
       /\ state' = [state EXCEPT ![b] = "PAYOUT_PENDING"]
       /\ finalPaidAt' = [finalPaidAt EXCEPT ![b] = TRUE]
       /\ UNCHANGED <<depositPaidAt, payoutReleasedAt, otpColumns, stateLog, tracking>>

UpdateBooking(b, stage) ==
    \/ stage = "DEPOSIT" /\ MarkDepositPaid(b)
    \/ stage = "FINAL" /\ SettleBooking(b)

ApplyCapture(c) ==
    LET o == OrderOf(c)
        row == txRow[o]
    IN  /\ RecordPayment(o, call[c].payment)
        /\ UpdateBooking(row.booking, row.stage)
        /\ CreateEscrow(o)
        /\ EnsurePayout(row.booking)
        /\ UNCHANGED <<shown, req, faults>>

-----------------------------------------------------------------------------
(* confirmPayment, with the signature of a payment that Razorpay captured *)

\* A repeated confirmation and one of another payment change nothing.
BeginConfirm(c, p) ==
    /\ Free(c)
    /\ paidOrder[p] \in Orders
    /\ RowIsNew(p)
    /\ call' = [call EXCEPT ![c] = [op |-> "confirm", pc |-> "apply", payment |-> p]]
    /\ UNCHANGED <<routesVars, tables, webhookEvent, rzpVars, control>>

CommitConfirm(c) ==
    /\ Running(c, "confirm", "apply")
    /\ CanApply(c)
    /\ ApplyCapture(c)
    /\ Return(c)
    /\ UNCHANGED <<webhookEvent, rzpVars, control>>

RejectConfirm(c) ==
    /\ Running(c, "confirm", "apply")
    /\ ~CanApply(c)
    /\ Return(c)
    /\ UNCHANGED <<routesVars, tables, webhookEvent, rzpVars, control>>

-----------------------------------------------------------------------------
(* processWebhook *)

Known(e) == webhookEvent[DedupeKey(e)] # "NONE"

\* Another transaction has inserted the event row and not yet ended.
KeyLocked(e) ==
    \E d \in Calls :
        /\ Running(d, "webhook", "inserted") \/ Running(d, "webhook", "apply")
        /\ DedupeKey(EventOf(d)) = DedupeKey(e)

\* Mutant of Finalize: the event row is left as it was inserted.
FinalizeAsReceived(c, status) ==
    /\ webhookEvent' = [webhookEvent EXCEPT ![DedupeKey(EventOf(c))] = "RECEIVED"]
    /\ acked' = acked \cup {EventOf(c)}
    /\ Return(c)
    /\ UNCHANGED <<paidOrder, control>>

Finalize(c, status) ==
    /\ webhookEvent' = [webhookEvent EXCEPT ![DedupeKey(EventOf(c))] = status]
    /\ acked' = acked \cup {EventOf(c)}
    /\ Return(c)
    /\ UNCHANGED <<paidOrder, control>>

\* The delivery is not in the table, neither before nor in the transaction.
DeliverNew(c, e) ==
    /\ Free(c)
    /\ Sent(e)
    /\ ~paused
    /\ ~Known(e)
    /\ call' = [call EXCEPT ![c] = [op |-> "webhook", pc |-> "checked",
                                    payment |-> e.payment, type |-> e.type]]
    /\ UNCHANGED <<routesVars, tables, webhookEvent, rzpVars, control>>

\* alreadyProcessed, whatever the status of the row: answered with 200.
DeliverKnown(e) ==
    /\ Sent(e)
    /\ ~paused
    /\ Known(e)
    /\ acked' = acked \cup {e}
    /\ UNCHANGED <<routesVars, tables, webhookEvent, paidOrder, control, call>>

\* webhook_paused: answered with 200, nothing is stored.
DeliverPaused(e) ==
    /\ Sent(e)
    /\ paused
    /\ acked' = acked \cup {e}
    /\ UNCHANGED <<routesVars, tables, webhookEvent, paidOrder, control, call>>

\* Mutant of InsertEvent: the event row is committed before the transaction.
InsertEventEarly(c) ==
    LET e == EventOf(c) IN
    /\ Running(c, "webhook", "checked")
    /\ ~KeyLocked(e)
    /\ ~Known(e)
    /\ \/ /\ e.type = "payment.captured"
          /\ GoTo(c, "inserted")
          /\ webhookEvent' = [webhookEvent EXCEPT ![DedupeKey(e)] = "RECEIVED"]
          /\ UNCHANGED <<rzpVars, control>>
       \/ /\ e.type # "payment.captured"
          /\ Finalize(c, "IGNORED")
    /\ UNCHANGED <<routesVars, tables>>

\* The event row; an unsupported event is ignored and commits at once.
InsertEvent(c) ==
    LET e == EventOf(c) IN
    /\ Running(c, "webhook", "checked")
    /\ ~KeyLocked(e)
    /\ ~Known(e)
    /\ \/ /\ e.type = "payment.captured"
          /\ GoTo(c, "inserted")
          /\ UNCHANGED <<webhookEvent, rzpVars, control>>
       \/ /\ e.type # "payment.captured"
          /\ Finalize(c, "IGNORED")
    /\ UNCHANGED <<routesVars, tables>>

\* The key was committed after this call's check: the insert throws.
InsertConflict(c) ==
    /\ Running(c, "webhook", "checked")
    /\ ~KeyLocked(EventOf(c))
    /\ Known(EventOf(c))
    /\ GoTo(c, "failed")
    /\ UNCHANGED <<routesVars, tables, webhookEvent, rzpVars, control>>

\* The lookup of the payment row decides how the event goes on.
LookUpRow(c) ==
    LET p == call[c].payment IN
    /\ Running(c, "webhook", "inserted")
    /\ \/ /\ paidOrder[p] = ForeignOrder
          /\ Finalize(c, "IGNORED")
       \/ /\ paidOrder[p] \in Orders
          /\ RowRepeats(p)
          /\ Finalize(c, "PROCESSED")
       \/ /\ paidOrder[p] \in Orders
          /\ ~RowRepeats(p)
          /\ GoTo(c, IF RowMismatches(p) THEN "failed" ELSE "apply")
          /\ UNCHANGED <<webhookEvent, rzpVars, control>>
    /\ UNCHANGED <<routesVars, tables>>

CommitWebhook(c) ==
    /\ Running(c, "webhook", "apply")
    /\ CanApply(c)
    /\ ApplyCapture(c)
    /\ Finalize(c, "PROCESSED")

RejectWebhook(c) ==
    /\ Running(c, "webhook", "apply")
    /\ ~CanApply(c)
    /\ GoTo(c, "failed")
    /\ UNCHANGED <<routesVars, tables, webhookEvent, rzpVars, control>>

\* The catch block: upsert FAILED over whatever is there, answer with an error.
RecordFailure(c) ==
    LET e == EventOf(c) IN
    /\ Running(c, "webhook", "failed")
    /\ ~KeyLocked(e)
    /\ webhookEvent' = [webhookEvent EXCEPT ![DedupeKey(e)] = "FAILED"]
    /\ Return(c)
    /\ UNCHANGED <<routesVars, tables, rzpVars, control>>

\* The operator restarts the drained process with the toggle off.
Resume ==
    /\ paused
    /\ \A c \in Calls : Free(c)
    /\ \A r \in Requests : ~InFlight(r)
    /\ paused' = FALSE
    /\ UNCHANGED <<routesVars, tables, webhookEvent, rzpVars, call, callFaults>>

-----------------------------------------------------------------------------
(* The booking requests: releasePayout writes payment rows too *)

\* The update throws without a payout row, and the release would roll back:
\* OnePayoutPerBooking says that this cannot happen to a booking to be paid out.
ReleaseRows(b) ==
    /\ payoutStatus[b] # "NONE"
    /\ payoutStatus' = [payoutStatus EXCEPT ![b] = "RELEASED"]
    /\ escrow' = [o \in Orders |->
                     IF escrow[o] # "NONE" /\ txRow[o].booking = b THEN "RELEASED"
                                                                   ELSE escrow[o]]
    /\ UNCHANGED <<txRow, webhookEvent, rzpVars, control, call>>

ReleasePayout(r) == CommitRelease(r) /\ ReleaseRows(req[r].booking)

\* Every other statement of a booking request leaves the payment tables alone.
AdvanceRequest(r) ==
    /\ Advance(r)
    /\ UNCHANGED <<payoutReleasedAt, payVars>>

-----------------------------------------------------------------------------
(* Faults *)

\* A failing statement ends an order or a confirmation; a webhook is caught
\* by processWebhook, unless it is the upsert in the catch block that fails.
FailCall(c) ==
    /\ ~Free(c)
    /\ faults + callFaults < MaxCallFaults
    /\ callFaults' = callFaults + 1
    /\ IF call[c].op = "webhook" /\ call[c].pc # "failed" THEN GoTo(c, "failed") ELSE Return(c)
    /\ UNCHANGED <<routesVars, tables, webhookEvent, rzpVars, paused>>

FailBookingRequest(r) ==
    /\ faults + callFaults < MaxFaults
    /\ FailRequest(r)
    /\ UNCHANGED payVars

\* The process dies: open transactions roll back and no event is recorded.
Crash ==
    /\ faults + callFaults < MaxFaults
    /\ CrashRequests
    /\ call' = [c \in Calls |-> Idle]
    /\ UNCHANGED <<tables, webhookEvent, rzpVars, control>>

-----------------------------------------------------------------------------

Init ==
    /\ RoutesInit
    /\ txRow = [o \in Orders |-> None]
    /\ escrow = [o \in Orders |-> "NONE"]
    /\ payoutStatus = [b \in Bookings |-> "NONE"]
    /\ webhookEvent = [k \in DedupeKeys |-> "NONE"]
    /\ paidOrder = [p \in Payments |-> None]
    /\ acked = {}
    /\ paused \in {FALSE, MayPause}
    /\ call = [c \in Calls |-> Idle]
    /\ callFaults = 0

\* The next statement of a call in flight.
CallStep(c) ==
    \/ InsertOrder(c)
    \/ RejectOrder(c)
    \/ CommitConfirm(c)
    \/ RejectConfirm(c)
    \/ InsertEvent(c)
    \/ InsertConflict(c)
    \/ LookUpRow(c)
    \/ CommitWebhook(c)
    \/ RejectWebhook(c)
    \/ RecordFailure(c)

\* Razorpay delivers an event, again and again if it likes.
Deliver(e) ==
    \/ \E c \in Calls : DeliverNew(c, e)
    \/ DeliverKnown(e)
    \/ DeliverPaused(e)

RequestStepOfBooking ==
    \E r \in Requests :
        \/ \E b \in Bookings : Arrive(r, b) /\ UNCHANGED payVars
        \/ AdvanceRequest(r)
        \/ ReleasePayout(r)
        \/ FailBookingRequest(r)

PaymentStep ==
    \/ \E c \in Calls :
          \/ \E b \in Bookings, stage \in Stages, key \in Keys : BeginOrder(c, b, stage, key)
          \/ \E p \in Payments : BeginConfirm(c, p)
          \/ CallStep(c)
          \/ FailCall(c)
    \/ \E e \in Event : Deliver(e)
    \/ \E p \in Payments : PayForeign(p) \/ \E o \in Orders : Pay(p, o)

Next == RequestStepOfBooking \/ PaymentStep \/ Resume \/ Crash

Spec == Init /\ [][Next]_vars

-----------------------------------------------------------------------------
(* Properties *)

PaymentTypeOK ==
    /\ TypeOK
    /\ txRow \in [Orders -> TxRow \cup {None}]
    /\ escrow \in [Orders -> {"NONE", "HELD", "RELEASED"}]
    /\ payoutStatus \in [Bookings -> {"NONE", "READY_AFTER_DISPUTE_WINDOW", "RELEASED"}]
    /\ webhookEvent \in [DedupeKeys -> {"NONE", "PROCESSED", "IGNORED", "FAILED"}]
    /\ paidOrder \in [Payments -> Orders \cup {ForeignOrder, None}]
    /\ acked \subseteq Event
    /\ paused \in BOOLEAN
    /\ callFaults \in 0 .. MaxCallFaults
    /\ call \in [Calls -> OrderCall \cup ConfirmCall \cup WebhookCall \cup {Idle}]

\* The paid columns of a booking say exactly what its payment rows say,
\* although the two tables are written by separate statements.
LedgerAgrees ==
    \A b \in Bookings :
        /\ depositPaidAt[b] <=> Settling(b, "DEPOSIT") # {}
        /\ finalPaidAt[b] <=> Settling(b, "FINAL") # {}

\* Global reconciliation never has anything CRITICAL to report about captures:
\* no final_without_deposit, missing or orphan escrow, captured row without its
\* payment, stuck_payment_locked; and the recorded payment paid that order.
ReconciliationClean ==
    /\ \A b \in Bookings :
          /\ Settling(b, "FINAL") # {} => Settling(b, "DEPOSIT") # {}
          /\ state[b] # "PAYMENT_LOCKED"
    /\ \A o \in Orders :
          /\ escrow[o] # "NONE" <=> Captured(o)
          /\ Captured(o) => txRow[o].payment # None /\ paidOrder[txRow[o].payment] = o

\* The provider is owed a booking once: at most one final payment is recorded
\* however many orders were paid, and the payout row follows it and its release.
OnePayoutPerBooking ==
    \A b \in Bookings :
        /\ Cardinality(Settling(b, "FINAL")) <= 1
        /\ payoutStatus[b] # "NONE" <=> finalPaidAt[b]
        /\ payoutStatus[b] = "RELEASED" <=> payoutReleasedAt[b]

\* A webhook event marked PROCESSED has its payment's order captured.
ProcessedMeansCaptured ==
    \A e \in Event :
        e.type = "payment.captured" /\ webhookEvent[DedupeKey(e)] = "PROCESSED" =>
            /\ paidOrder[e.payment] \in Orders
            /\ Captured(paidOrder[e.payment])

\* Seen from the booking row, payments are the captures that module
\* BookingRoutes allows for: RoutesSpec is implemented.  A step that leaves the
\* row alone is a stutter of it, which TLC is spared looking for in RoutesNext.
ImplementsRoutes == RoutesInit /\ [][routesVars' # routesVars => RoutesNext]_routesVars

=============================================================================
