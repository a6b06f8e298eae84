------------------------- MODULE PaymentOperations -------------------------
(***************************************************************************)
(* The books of the payments and what operators do with them: the amounts  *)
(* on the rows that module PaymentService writes, reconciliation           *)
(* (lib/payments/reconciliation.ts, the reports of services/               *)
(* payoutAutomationService.ts) and repair-state (lib/payments/recovery.ts).*)
(*                                                                         *)
(* Both read with one query per table and no transaction around them, in   *)
(* the order of the `include`, so payments are captured and released while *)
(* they read.                                                              *)
(***************************************************************************)
EXTENDS PaymentService, Amounts, FiniteSetsExt

CONSTANTS priceOf,     \* the estimatedAmount that a booking is requested with
          grain,       \* grains to a paisa, see module Amounts
          rate,        \* PLATFORM_COMMISSION_RATE, in parts of `scale`
          scale,
          Operated     \* operators reconcile and repair

ASSUME OperationsAssumption ==
    /\ priceOf \in [Bookings -> Nat]
    /\ {grain, scale} \subseteq Nat \ {0}
    /\ rate \in 0 .. scale
    /\ Operated \in BOOLEAN
    /\ IsFiniteSet(Orders)

VARIABLES
    amounts,   \* depositAmount, finalAmount and estimatedAmount of a booking
    operation  \* the report or repair in progress, and what it has read

booksVars == <<vars, amounts, operation>>

-----------------------------------------------------------------------------
(* Amounts *)

NoAmounts == [deposit |-> 0, final |-> 0, estimated |-> 0]

Inserted(b) == ~Exists(b) /\ state'[b] = "REQUESTED"

\* The amounts of a booking are written when it is created, and never again.
WriteAmounts ==
    \/ /\ \A b \in Bookings : ~Inserted(b)
       /\ UNCHANGED amounts
    \/ \E b \in Bookings :
          /\ Inserted(b)
          /\ \E split \in SplitAmounts(priceOf[b], grain) :
                amounts' = [amounts EXCEPT ![b] = split]

\* An order is made over the amount of its stage, and the escrow row of its
\* capture takes the amount of the order.
GrossAmount(o) ==
    LET booked == amounts[txRow[o].booking] IN
    IF txRow[o].stage = "DEPOSIT" THEN booked.deposit ELSE booked.final

\* What escrow has collected for a booking.
Collected(b) ==
    MapThenSumSet(GrossAmount, {o \in Orders : escrow[o] # "NONE" /\ txRow[o].booking = b})

\* ensureProviderPayoutRowInTx: the provider is owed the estimated amount.
PayoutAmount(b) == amounts[b].estimated

-----------------------------------------------------------------------------
(* Reconciliation, and what it finds *)

Resting == [task |-> "none"]

Operating(task, pc) == operation.task = task /\ operation.pc = pc

\* The bookings; one that is PAYMENT_LOCKED has been so for 15 minutes.
ReconcileBookings ==
    /\ operation = Resting
    /\ operation' =
        [task |-> "reconcile", pc |-> "bookings", found |-> {b \in Bookings : Exists(b)},
         issues |-> {"stuck_payment_locked" : b \in {x \in Bookings : state[x] = "PAYMENT_LOCKED"}}]

\* Two rows with one order id are refused by the unique column, so that
\* duplicate_order_id has nothing to find.
ReconcileTransactions ==
    LET rows == {o \in Orders : HasRow(o) /\ txRow[o].booking \in operation.found}
        captured == {o \in rows : Captured(o)}
        of(b, stage) == {o \in captured : txRow[o].booking = b /\ txRow[o].stage = stage}
    IN  /\ Operating("reconcile", "bookings")
        /\ operation' =
            [task |-> "reconcile", pc |-> "transactions", found |-> operation.found,
             rows |-> rows, captured |-> captured,
             issues |-> operation.issues
                 \cup {"captured_without_payment_id" :
                          o \in {x \in captured : txRow[x].payment = None}}
                 \cup {"final_without_deposit" :
                          b \in {x \in Bookings : of(x, "FINAL") # {} /\ of(x, "DEPOSIT") = {}}}]

\* Mutant of EscrowIssues: every payment row is expected to have escrow.
EscrowIssuesOfAll(rows) ==
    {"missing_escrow" : o \in operation.rows \ rows}
        \cup {"orphan_escrow_row" : o \in rows \ operation.rows}

EscrowIssues(rows) ==
    {"missing_escrow" : o \in operation.captured \ rows}
        \cup {"orphan_escrow_row" : o \in rows \ operation.rows}

\* A booking has one payout row, so duplicate_transfer_reference has nothing to
\* find, and PROCESSING is overwritten before it can be read.
ReconcileEscrow ==
    /\ Operating("reconcile", "transactions")
    /\ operation' =
        [task |-> "reconcile", pc |-> "report",
         issues |-> operation.issues \cup
             EscrowIssues({o \in Orders : escrow[o] # "NONE"
                                              /\ txRow[o].booking \in operation.found})]

SendReport ==
    /\ Operating("reconcile", "report")
    /\ operation' = Resting

-----------------------------------------------------------------------------
(* repairBookingPaymentState *)

RepairBooking(b) ==
    /\ operation = Resting
    /\ Exists(b)
    /\ operation' = [task |-> "repair", pc |-> "booking", booking |-> b, seen |-> state[b]]

\* The booking may have moved on since it was read.
RepairTransactions ==
    /\ Operating("repair", "booking")
    /\ LET b == operation.booking IN
       operation' = IF /\ Settling(b, "FINAL") # {}
                       /\ Settling(b, "DEPOSIT") # {}
                       /\ operation.seen \notin {"PAYOUT_PENDING", "PAID_OUT"}
                    THEN [operation EXCEPT !.pc = "repair"]
                    ELSE Resting

\* Mutant of RepairTarget: the booking that was read is moved on as it is.
RepairTargetUnchecked(b) == "PAYOUT_PENDING"

\* transitionBookingState: only COMPLETED leads to PAYOUT_PENDING, from every
\* other state it throws.
RepairTarget(b) == IF CanTransition(state[b], "PAYOUT_PENDING") THEN "PAYOUT_PENDING"
                                                                ELSE state[b]

RepairState ==
    LET b == operation.booking IN
    /\ Operating("repair", "repair")
    /\ state' = [state EXCEPT ![b] = RepairTarget(b)]
    /\ stateLog' = IF state'[b] = state[b] THEN stateLog
                   ELSE [stateLog EXCEPT ![b] = @ \cup {<<state[b], state'[b]>>}]
    /\ operation' = Resting
    /\ UNCHANGED <<paidColumns, otpColumns, tracking, shown, req, faults>>

-----------------------------------------------------------------------------

BooksInit ==
    /\ Init
    /\ amounts = [b \in Bookings |-> NoAmounts]
    /\ operation = Resting

Reconcile ==
    \/ ReconcileBookings
    \/ ReconcileTransactions
    \/ ReconcileEscrow
    \/ SendReport

Repair == \/ \E b \in Bookings : RepairBooking(b)
          \/ RepairTransactions

Operate ==
    /\ Operated
    /\ \/ (Reconcile \/ Repair) /\ UNCHANGED routesVars
       \/ RepairState
    /\ UNCHANGED <<payVars, amounts>>

\* The process that dies takes a report or a repair in progress along.
BooksNext ==
    \/ /\ \/ (RequestStepOfBooking \/ PaymentStep \/ Resume) /\ UNCHANGED operation
          \/ Crash /\ operation' = Resting
       /\ WriteAmounts
    \/ Operate

BooksSpec == BooksInit /\ [][BooksNext]_booksVars

-----------------------------------------------------------------------------
(* Properties *)

\* A provider's payout is paid for: once its row exists, what escrow collected
\* for the booking covers it, however its price was rounded into two stages and
\* however many orders were paid; only a fraction of a paisa may be missing.
PayoutIsCollected ==
    \A b \in Bookings :
        payoutStatus[b] # "NONE" =>
            Collected(b) + (IF grain = 1 THEN 0 ELSE 1) >= PayoutAmount(b)

\* The platform keeps its commission of a booking: the fees of its two stages,
\* each rounded by itself, are the fee of the whole, give or take one paisa.
FeesAddUp ==
    \A b \in Bookings :
        \A ofDeposit \in SplitCommission(amounts[b].deposit, rate, scale),
           ofFinal \in SplitCommission(amounts[b].final, rate, scale),
           ofWhole \in SplitCommission(amounts[b].deposit + amounts[b].final, rate, scale) :
            /\ ofDeposit.fee + ofFinal.fee - ofWhole.fee \in -1 .. 1
            /\ ofDeposit.share >= 0 /\ ofFinal.share >= 0

\* A report does not cry wolf about captures: although its queries see different
\* moments, it finds no capture without its escrow row or payment, no final
\* payment without a deposit and no booking stuck.  (An order that is made and
\* paid while it reads does show up as an orphan escrow row.)
NoFalseAlarm ==
    operation.task = "reconcile" => operation.issues \subseteq {"orphan_escrow_row"}

\* A booking that is paid out stays so: no repair, whatever it read before the
\* release, takes it back to where it would be paid out again.
PaidOutStaysPaidOut ==
    [][\A b \in Bookings : state[b] = "PAID_OUT" => state'[b] = "PAID_OUT"]_booksVars

=============================================================================
