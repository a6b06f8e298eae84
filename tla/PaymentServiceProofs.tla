------------------------ MODULE PaymentServiceProofs ------------------------
(***************************************************************************)
(* Proofs about PaymentService, for any number of bookings, requests,      *)
(* calls, orders, payments, events and faults.                             *)
(*                                                                         *)
(* As far as the rows are concerned, every step is one of five: a capture  *)
(* is recorded, an order is inserted, a payment is made, a payout is       *)
(* released, or a booking request moves on and the rows stay as they are.  *)
(* Three lemmas carry the proofs: each step is one of the five, each of    *)
(* the five is a step that BookingRoutes allows for, and each of the five  *)
(* keeps the books sound.  They say nothing of the calls that took the     *)
(* step, so the modules that add calls of their own use them as well.      *)
(***************************************************************************)
EXTENDS PaymentService, BookingRoutesProofs, FiniteSetTheorems

-----------------------------------------------------------------------------
(* The five steps *)

\* applyCapturedPaymentInTx for payment p, once its order's row was found.
CaptureRecorded(p) ==
    LET o   == paidOrder[p]
        row == txRow[o]
    IN  /\ o \in Orders /\ HasRow(o)
        /\ row.stage = "FINAL" => CanTransition(state[row.booking], "PAYMENT_LOCKED")
        /\ RecordPayment(o, p)
        /\ UpdateBooking(row.booking, row.stage)
        /\ CreateEscrow(o)
        /\ EnsurePayout(row.booking)
        /\ UNCHANGED <<shown, req, faults, paidOrder>>

OrderInserted ==
    \E o \in Orders, row \in TxRow :
        /\ ~HasRow(o)
        /\ row.status = "CREATED" /\ Exists(row.booking)
        /\ txRow' = [txRow EXCEPT ![o] = row]
        /\ UNCHANGED <<routesVars, escrow, payoutStatus, paidOrder>>

PaymentMade ==
    \E p \in Payments, o \in Orders \cup {ForeignOrder} :
        /\ paidOrder[p] = None
        /\ o \in Orders => HasRow(o)
        /\ paidOrder' = [paidOrder EXCEPT ![p] = o]
        /\ UNCHANGED <<routesVars, tables>>

PayoutReleased ==
    \E r \in Requests :
        /\ CommitRelease(r)
        /\ payoutStatus[req[r].booking] # "NONE"
        /\ payoutStatus' = [payoutStatus EXCEPT ![req[r].booking] = "RELEASED"]
        /\ escrow' = [o \in Orders |->
                         IF escrow[o] # "NONE" /\ txRow[o].booking = req[r].booking
                         THEN "RELEASED" ELSE escrow[o]]
        /\ UNCHANGED <<txRow, paidOrder>>

RowsUntouched ==
    /\ RequestStep \/ UNCHANGED routesVars
    /\ UNCHANGED <<payoutReleasedAt, tables, paidOrder>>

BooksStep ==
    \/ \E p \in Payments : CaptureRecorded(p)
    \/ OrderInserted
    \/ PaymentMade
    \/ PayoutReleased
    \/ RowsUntouched

-----------------------------------------------------------------------------
(* The inductive invariant *)

BooksTypeOK ==
    /\ txRow \in [Orders -> TxRow \cup {None}]
    /\ escrow \in [Orders -> {"NONE", "HELD", "RELEASED"}]
    /\ payoutStatus \in [Bookings -> {"NONE", "READY_AFTER_DISPUTE_WINDOW", "RELEASED"}]
    /\ paidOrder \in [Payments -> Orders \cup {ForeignOrder, None}]

RowsHaveBookings == \A o \in Orders : HasRow(o) => Exists(txRow[o].booking)

PaidOrdersHaveRows == \A p \in Payments : paidOrder[p] \in Orders => HasRow(paidOrder[p])

EscrowAgrees ==
    \A o \in Orders :
        /\ escrow[o] # "NONE" <=> Captured(o)
        /\ Captured(o) => /\ txRow[o].payment \in Payments
                          /\ paidOrder[txRow[o].payment] = o

\* The states that a settlement passes through are never seen.
SettledAtOnce == \A b \in Bookings : state[b] \notin {"PAYMENT_LOCKED", "COMPLETED"}

BooksSound ==
    /\ Evidenced
    /\ BooksTypeOK
    /\ RowsHaveBookings
    /\ PaidOrdersHaveRows
    /\ LedgerAgrees
    /\ EscrowAgrees
    /\ SettledAtOnce

\* What a call in flight has already established.
CallSound(c) ==
    ~Free(c) =>
        /\ call[c].op = "order" => call[c] \in OrderCall /\ Exists(call[c].booking)
        /\ call[c].op = "confirm" => call[c] \in ConfirmCall /\ OrderOf(c) \in Orders
        /\ call[c].op = "webhook" =>
              /\ call[c] \in WebhookCall
              /\ call[c].pc \in {"inserted", "apply"} => call[c].type = "payment.captured"
              /\ call[c].pc = "apply" => OrderOf(c) \in Orders

CallsSound ==
    /\ call = [c \in Calls |-> call[c]]
    /\ \A c \in Calls : CallSound(c)

\* What is PROCESSED was captured, under whatever key it is stored.
EventsSound ==
    /\ webhookEvent \in [DedupeKeys -> {"NONE", "PROCESSED", "IGNORED", "FAILED"}]
    /\ \A k \in DedupeKeys :
          webhookEvent[k] = "PROCESSED" =>
              paidOrder[k[1]] \in Orders /\ Captured(paidOrder[k[1]])

-----------------------------------------------------------------------------
(* Each of the five is a step of the routes *)

\* What the types say of a payment row that is there.
LEMMA RowType ==
    ASSUME BooksTypeOK, NEW o \in Orders, HasRow(o)
    PROVE  /\ txRow[o] \in TxRow
           /\ txRow[o].booking \in Bookings
           /\ txRow[o].stage \in Stages
           /\ txRow[o].status \in {"CREATED", "CAPTURED"}
BY DEF BooksTypeOK, HasRow, TxRow

\* Recording a capture is the settlement of its stage that BookingRoutes names.
LEMMA CaptureIsSettlement ==
    ASSUME BooksTypeOK, RowsHaveBookings, NEW p \in Payments, CaptureRecorded(p)
    PROVE  /\ txRow[paidOrder[p]].booking \in Bookings
           /\ \/ /\ txRow[paidOrder[p]].stage = "DEPOSIT"
                 /\ DepositCaptured(txRow[paidOrder[p]].booking)
              \/ /\ txRow[paidOrder[p]].stage = "FINAL"
                 /\ FinalCaptured(txRow[paidOrder[p]].booking)
BY RowType DEF CaptureRecorded, UpdateBooking, DepositCaptured, FinalCaptured,
   RowsHaveBookings, Stages

LEMMA BooksStepIsRoutesStep ==
    ASSUME BooksTypeOK, RowsHaveBookings, BooksStep
    PROVE  [RoutesNext]_routesVars
<1>1. CASE \E p \in Payments : CaptureRecorded(p)
  BY <1>1, CaptureIsSettlement DEF RoutesNext, CaptureStep
<1>2. CASE OrderInserted \/ PaymentMade
  BY <1>2 DEF OrderInserted, PaymentMade
<1>3. CASE PayoutReleased
  BY <1>3 DEF PayoutReleased, RoutesNext, RequestStep, Advance
<1>4. CASE RowsUntouched
  BY <1>4 DEF RowsUntouched, RoutesNext
<1> QED
  BY <1>1, <1>2, <1>3, <1>4 DEF BooksStep

-----------------------------------------------------------------------------
(* Each of the five keeps the books sound *)

\* A capture leaves its row captured, with the payment that was recorded.
LEMMA CapturedRow ==
    ASSUME BooksTypeOK, NEW p \in Payments, CaptureRecorded(p)
    PROVE  LET o == paidOrder[p] IN
           /\ txRow' = [txRow EXCEPT ![o] = txRow'[o]]
           /\ txRow'[o].booking = txRow[o].booking
           /\ txRow'[o].stage = txRow[o].stage
           /\ txRow'[o].status = "CAPTURED"
           /\ txRow'[o].payment = p
           /\ txRow'[o] \in TxRow /\ txRow'[o] # None
           /\ \A q \in Orders : q # o => txRow'[q] = txRow[q]
<1> DEFINE o == paidOrder[p]
<1> DEFINE row == txRow[o]
<1>0. o \in Orders /\ row \in TxRow
  BY RowType DEF CaptureRecorded
<1>1. txRow' = [txRow EXCEPT ![o] = [[row EXCEPT !.status = "CAPTURED"] EXCEPT !.payment = p]]
  BY <1>0 DEF CaptureRecorded, RecordPayment, BooksTypeOK
<1>2. row = [booking |-> row.booking, stage |-> row.stage, key |-> row.key,
             status |-> row.status, payment |-> row.payment]
  <2> HIDE DEF row, o
  <2> QED
    BY <1>0 DEF TxRow
<1>3. [[row EXCEPT !.status = "CAPTURED"] EXCEPT !.payment = p]
         = [booking |-> row.booking, stage |-> row.stage, key |-> row.key,
            status |-> "CAPTURED", payment |-> p]
  <2> HIDE DEF row, o
  <2> DEFINE new == [[row EXCEPT !.status = "CAPTURED"] EXCEPT !.payment = p]
  <2>1. new = [[row EXCEPT !.status = "CAPTURED"] EXCEPT !.payment = p]
    OBVIOUS
  <2> HIDE DEF new
  <2>2. new = [booking |-> row.booking, stage |-> row.stage, key |-> row.key,
               status |-> "CAPTURED", payment |-> p]
    BY <1>2, <2>1
  <2> QED
    BY <2>1, <2>2
<1>4. txRow'[o] = [booking |-> row.booking, stage |-> row.stage, key |-> row.key,
                   status |-> "CAPTURED", payment |-> p]
  BY <1>0, <1>1, <1>3 DEF BooksTypeOK
<1>5. txRow'[o] \in TxRow /\ txRow'[o] # None
  <2>1. txRow'[o] \in TxRow
    BY <1>0, <1>4 DEF TxRow
  <2> QED
    BY <2>1, NoneIsNoRow
<1>6. \A q \in Orders : q # o => txRow'[q] = txRow[q]
  BY <1>0, <1>1 DEF BooksTypeOK
<1> QED
  BY <1>1, <1>3, <1>4, <1>5, <1>6

\* What a new row looks like, and that it is nobody's capture yet.
LEMMA InsertedRow ==
    ASSUME BooksTypeOK, NEW o \in Orders, NEW row \in TxRow, ~HasRow(o),
           row.status = "CREATED", txRow' = [txRow EXCEPT ![o] = row]
    PROVE  /\ txRow'[o] = row
           /\ row # None
           /\ \A q \in Orders : q # o => txRow'[q] = txRow[q]
           /\ \A q \in Orders : Captured(q)' <=> Captured(q)
BY NoneIsNoRow DEF BooksTypeOK, Captured, HasRow

\* A row stays, with its booking and stage, and a capture is never undone.
LEMMA RowsStay ==
    ASSUME BooksTypeOK, BooksStep, NEW o \in Orders, HasRow(o)
    PROVE  /\ HasRow(o)'
           /\ txRow'[o].booking = txRow[o].booking
           /\ txRow'[o].stage = txRow[o].stage
           /\ Captured(o) => Captured(o)'
<1>1. CASE \E p \in Payments : CaptureRecorded(p)
  <2>1. PICK p \in Payments : CaptureRecorded(p)
    BY <1>1
  <2>2. CASE o = paidOrder[p]
    BY <2>1, <2>2, CapturedRow DEF Captured, HasRow
  <2>3. CASE o # paidOrder[p]
    BY <2>1, <2>3, CapturedRow DEF Captured, HasRow
  <2> QED
    BY <2>2, <2>3
<1>2. CASE OrderInserted
  <2>1. PICK q \in Orders, row \in TxRow :
            /\ ~HasRow(q) /\ row.status = "CREATED"
            /\ txRow' = [txRow EXCEPT ![q] = row]
    BY <1>2 DEF OrderInserted
  <2>2. txRow'[o] = txRow[o]
    BY <2>1, InsertedRow DEF HasRow
  <2> QED
    BY <2>2 DEF Captured, HasRow
<1>3. CASE UNCHANGED txRow
  BY <1>3 DEF Captured, HasRow
<1> QED
  BY <1>1, <1>2, <1>3 DEF BooksStep, PaymentMade, PayoutReleased, RowsUntouched, tables

\* The order of a payment is final once it is known.
LEMMA PaidOrderStays ==
    ASSUME BooksTypeOK, BooksStep, NEW p \in Payments, paidOrder[p] # None
    PROVE  paidOrder'[p] = paidOrder[p]
BY DEF BooksStep, CaptureRecorded, OrderInserted, PaymentMade, PayoutReleased, RowsUntouched,
   BooksTypeOK

LEMMA BooksTypeStep ==
    ASSUME Evidenced, BooksTypeOK, BooksStep
    PROVE  BooksTypeOK'
<1>1. CASE \E p \in Payments : CaptureRecorded(p)
  <2>1. PICK p \in Payments : CaptureRecorded(p)
    BY <1>1
  <2>2. paidOrder[p] \in Orders /\ txRow[paidOrder[p]].booking \in Bookings
    BY <2>1, RowType DEF CaptureRecorded
  <2>3. txRow' \in [Orders -> TxRow \cup {None}]
    BY <2>1, <2>2, CapturedRow DEF BooksTypeOK
  <2>4. escrow' \in [Orders -> {"NONE", "HELD", "RELEASED"}]
    BY <2>1, <2>2 DEF CaptureRecorded, CreateEscrow, BooksTypeOK
  <2>5. payoutStatus' \in [Bookings -> {"NONE", "READY_AFTER_DISPUTE_WINDOW", "RELEASED"}]
    BY <2>1, <2>2 DEF CaptureRecorded, EnsurePayout, BooksTypeOK
  <2> QED
    BY <2>1, <2>3, <2>4, <2>5 DEF CaptureRecorded, BooksTypeOK
<1>2. CASE OrderInserted
  BY <1>2 DEF OrderInserted, BooksTypeOK
<1>3. CASE PaymentMade
  BY <1>3 DEF PaymentMade, BooksTypeOK, tables
<1>4. CASE PayoutReleased
  <2>1. PICK r \in Requests :
            /\ CommitRelease(r)
            /\ payoutStatus' = [payoutStatus EXCEPT ![req[r].booking] = "RELEASED"]
            /\ escrow' = [o \in Orders |->
                             IF escrow[o] # "NONE" /\ txRow[o].booking = req[r].booking
                             THEN "RELEASED" ELSE escrow[o]]
            /\ UNCHANGED <<txRow, paidOrder>>
    BY <1>4 DEF PayoutReleased
  <2>2. req[r].booking \in Bookings
    BY <2>1, RequestType DEF CommitRelease, At, InFlight, Evidenced, Structure
  <2> QED
    BY <2>1, <2>2 DEF BooksTypeOK
<1>5. CASE RowsUntouched
  BY <1>5 DEF RowsUntouched, BooksTypeOK, tables
<1> QED
  BY <1>1, <1>2, <1>3, <1>4, <1>5 DEF BooksStep

LEMMA RowsHaveBookingsStep ==
    ASSUME Evidenced, BooksTypeOK, RowsHaveBookings, BooksStep
    PROVE  RowsHaveBookings'
<1> SUFFICES ASSUME NEW o \in Orders, HasRow(o)'
             PROVE  Exists(txRow[o].booking)'
  BY DEF RowsHaveBookings
<1>0. \A b \in Bookings : Exists(b) => Exists(b)'
  BY BooksStepIsRoutesStep, EvidenceGrows DEF Evidenced
<1>1. CASE HasRow(o)
  <2>1. txRow'[o].booking = txRow[o].booking /\ txRow[o].booking \in Bookings
    BY <1>1, RowsStay, RowType
  <2>2. Exists(txRow[o].booking)
    BY <1>1 DEF RowsHaveBookings
  <2> QED
    BY <1>0, <2>1, <2>2 DEF Exists
<1>2. CASE ~HasRow(o)
  <2>1. OrderInserted
    <3>1. ASSUME NEW p \in Payments, CaptureRecorded(p)
          PROVE  FALSE
      <4>1. o # paidOrder[p]
        BY <1>2, <3>1 DEF CaptureRecorded
      <4>2. txRow'[o] = txRow[o]
        BY <3>1, <4>1, CapturedRow
      <4> QED
        BY <1>2, <4>2 DEF HasRow
    <3>2. ~UNCHANGED txRow
      BY <1>2 DEF HasRow
    <3> QED
      BY <3>1, <3>2 DEF BooksStep, PaymentMade, PayoutReleased, RowsUntouched, tables
  <2>2. PICK q \in Orders, row \in TxRow :
            /\ ~HasRow(q) /\ row.status = "CREATED" /\ Exists(row.booking)
            /\ txRow' = [txRow EXCEPT ![q] = row]
            /\ UNCHANGED routesVars
    BY <2>1 DEF OrderInserted
  <2>3. q = o
    BY <1>2, <2>2, InsertedRow DEF HasRow
  <2>4. txRow'[o] = row
    BY <2>2, <2>3, InsertedRow
  <2> QED
    BY <2>2, <2>4 DEF Exists, routesVars, bookingVars
<1> QED
  BY <1>1, <1>2

LEMMA PaidOrdersHaveRowsStep ==
    ASSUME BooksTypeOK, PaidOrdersHaveRows, BooksStep
    PROVE  PaidOrdersHaveRows'
<1> SUFFICES ASSUME NEW p \in Payments, paidOrder'[p] \in Orders
             PROVE  HasRow(paidOrder[p])'
  BY DEF PaidOrdersHaveRows
<1>1. CASE paidOrder[p] # None
  <2>1. paidOrder'[p] = paidOrder[p]
    BY <1>1, PaidOrderStays
  <2>2. HasRow(paidOrder[p])
    BY <2>1 DEF PaidOrdersHaveRows
  <2> QED
    BY <2>1, <2>2, RowsStay DEF HasRow
<1>2. CASE paidOrder[p] = None
  <2>1. PaymentMade
    BY <1>2, PaymentAssumption DEF BooksStep, CaptureRecorded, OrderInserted, PayoutReleased,
       RowsUntouched
  <2>2. PICK q \in Payments, o \in Orders \cup {ForeignOrder} :
            /\ o \in Orders => HasRow(o)
            /\ paidOrder' = [paidOrder EXCEPT ![q] = o]
            /\ UNCHANGED txRow
    BY <2>1 DEF PaymentMade, tables
  <2>3. paidOrder'[p] = o
    BY <1>2, <2>2, PaymentAssumption DEF BooksTypeOK
  <2> QED
    BY <2>2, <2>3 DEF HasRow
<1> QED
  BY <1>1, <1>2

\* Between captures, no stage of a booking gains or loses a capture.
LEMMA SettlingStays ==
    ASSUME BooksTypeOK, OrderInserted \/ PaymentMade \/ PayoutReleased \/ RowsUntouched
    PROVE  \A b \in Bookings, stage \in Stages : Settling(b, stage)' = Settling(b, stage)
<1>1. CASE OrderInserted
  <2>1. PICK o \in Orders, row \in TxRow :
            /\ ~HasRow(o) /\ row.status = "CREATED"
            /\ txRow' = [txRow EXCEPT ![o] = row]
    BY <1>1 DEF OrderInserted
  <2>2. /\ \A q \in Orders : Captured(q)' <=> Captured(q)
        /\ \A q \in Orders : Captured(q) => txRow'[q] = txRow[q]
    BY <2>1, InsertedRow DEF Captured
  <2> QED
    BY <2>2 DEF Settling
<1>2. CASE UNCHANGED txRow
  BY <1>2 DEF Settling, Captured, HasRow
<1> QED
  BY <1>1, <1>2 DEF PaymentMade, PayoutReleased, RowsUntouched, tables

\* A recorded capture counts for its own stage of its own booking.
LEMMA SettlingGrows ==
    ASSUME BooksTypeOK, NEW p \in Payments, CaptureRecorded(p)
    PROVE  LET o == paidOrder[p] IN
           \A b \in Bookings, stage \in Stages :
               Settling(b, stage)' = Settling(b, stage) \cup
                   {q \in {o} : txRow[o].booking = b /\ txRow[o].stage = stage}
<1> DEFINE o == paidOrder[p]
<1>0. o \in Orders
  BY DEF CaptureRecorded
<1>1. /\ txRow'[o].booking = txRow[o].booking
      /\ txRow'[o].stage = txRow[o].stage
      /\ txRow'[o].status = "CAPTURED"
      /\ txRow'[o] # None
      /\ \A q \in Orders : q # o => txRow'[q] = txRow[q]
  BY CapturedRow
<1> HIDE DEF o
<1>2. \A q \in Orders : Captured(q)' <=> Captured(q) \/ q = o
  BY <1>0, <1>1 DEF Captured, HasRow
<1> QED
  BY <1>0, <1>1, <1>2 DEF Settling, o

LEMMA LedgerAgreesStep ==
    ASSUME Evidenced, BooksTypeOK, RowsHaveBookings, LedgerAgrees, BooksStep
    PROVE  LedgerAgrees'
<1>1. CASE OrderInserted \/ PaymentMade \/ PayoutReleased \/ RowsUntouched
  <2>1. UNCHANGED <<depositPaidAt, finalPaidAt>>
    BY <1>1, PaidColumnsStay DEF OrderInserted, PaymentMade, PayoutReleased, RowsUntouched,
       RequestStep, Advance, routesVars, bookingVars, paidColumns
  <2>2. \A b \in Bookings, stage \in Stages : Settling(b, stage)' = Settling(b, stage)
    BY <1>1, SettlingStays
  <2> QED
    BY <2>1, <2>2 DEF LedgerAgrees, Stages
<1>2. CASE \E p \in Payments : CaptureRecorded(p)
  <2>1. PICK p \in Payments : CaptureRecorded(p)
    BY <1>2
  <2> DEFINE row == txRow[paidOrder[p]]
  <2>2. \A b \in Bookings, stage \in Stages :
            Settling(b, stage)' = Settling(b, stage) \cup
                {q \in {paidOrder[p]} : row.booking = b /\ row.stage = stage}
    BY <2>1, SettlingGrows
  <2>3. /\ row.booking \in Bookings
        /\ \/ row.stage = "DEPOSIT" /\ DepositCaptured(row.booking)
           \/ row.stage = "FINAL" /\ FinalCaptured(row.booking)
    BY <2>1, CaptureIsSettlement
  <2> HIDE DEF row
  <2>4. CASE row.stage = "DEPOSIT" /\ DepositCaptured(row.booking)
    <3>1. /\ depositPaidAt' = [depositPaidAt EXCEPT ![row.booking] = TRUE]
          /\ finalPaidAt' = finalPaidAt
      BY <2>4 DEF DepositCaptured, MarkDepositPaid
    <3>2. depositPaidAt \in [Bookings -> BOOLEAN]
      BY DEF Evidenced, Structure, TypeOK
    <3> QED
      BY <2>2, <2>3, <2>4, <3>1, <3>2 DEF LedgerAgrees, Stages
  <2>5. CASE row.stage = "FINAL" /\ FinalCaptured(row.booking)
    <3>1. /\ finalPaidAt' = [finalPaidAt EXCEPT ![row.booking] = TRUE]
          /\ depositPaidAt' = depositPaidAt
      BY <2>5 DEF FinalCaptured, SettleBooking
    <3>2. finalPaidAt \in [Bookings -> BOOLEAN]
      BY DEF Evidenced, Structure, TypeOK
    <3> QED
      BY <2>2, <2>3, <2>5, <3>1, <3>2 DEF LedgerAgrees, Stages
  <2> QED
    BY <2>3, <2>4, <2>5
<1> QED
  BY <1>1, <1>2 DEF BooksStep

LEMMA EscrowAgreesStep ==
    ASSUME BooksTypeOK, EscrowAgrees, BooksStep
    PROVE  EscrowAgrees'
<1>1. CASE \E p \in Payments : CaptureRecorded(p)
  <2>1. PICK p \in Payments : CaptureRecorded(p)
    BY <1>1
  <2> DEFINE o == paidOrder[p]
  <2>2. /\ o \in Orders
        /\ escrow'[o] # "NONE"
        /\ \A q \in Orders : q # o => escrow'[q] = escrow[q]
        /\ paidOrder' = paidOrder
    BY <2>1 DEF CaptureRecorded, CreateEscrow, BooksTypeOK
  <2>3. /\ txRow'[o].status = "CAPTURED" /\ txRow'[o].payment = p /\ txRow'[o] # None
        /\ \A q \in Orders : q # o => txRow'[q] = txRow[q]
    BY <2>1, CapturedRow
  <2> HIDE DEF o
  <2>4. ASSUME NEW q \in Orders, q # o
        PROVE  Captured(q)' <=> Captured(q)
    BY <2>3, <2>4 DEF Captured, HasRow
  <2>5. (txRow[o].status)' = "CAPTURED" /\ (txRow[o].payment)' = p
    BY <2>2, <2>3 DEF o
  <2>6. paidOrder[p] = o
    BY DEF o
  <2> QED
    BY <2>2, <2>3, <2>4, <2>6 DEF EscrowAgrees, Captured, HasRow
<1>2. CASE OrderInserted
  <2>1. PICK o \in Orders, row \in TxRow :
            /\ ~HasRow(o) /\ row.status = "CREATED"
            /\ txRow' = [txRow EXCEPT ![o] = row]
    BY <1>2 DEF OrderInserted
  <2>2. /\ \A q \in Orders : Captured(q)' <=> Captured(q)
        /\ \A q \in Orders : Captured(q) => txRow'[q] = txRow[q]
    BY <2>1, InsertedRow DEF Captured
  <2> QED
    BY <1>2, <2>2 DEF OrderInserted, EscrowAgrees
<1>3. CASE PaymentMade
  <2>1. UNCHANGED <<txRow, escrow>>
    BY <1>3 DEF PaymentMade, tables
  <2>2. \A q \in Orders : Captured(q)' <=> Captured(q)
    BY <2>1 DEF Captured, HasRow
  <2>3. \A q \in Payments : paidOrder[q] # None => paidOrder'[q] = paidOrder[q]
    BY PaidOrderStays
  <2> QED
    BY <2>1, <2>2, <2>3, PaymentAssumption DEF EscrowAgrees
<1>4. CASE PayoutReleased \/ RowsUntouched
  <2>1. /\ UNCHANGED <<txRow, paidOrder>>
        /\ \A o \in Orders : escrow'[o] # "NONE" <=> escrow[o] # "NONE"
    BY <1>4 DEF PayoutReleased, RowsUntouched, tables
  <2> QED
    BY <2>1 DEF EscrowAgrees, Captured, HasRow
<1> QED
  BY <1>1, <1>2, <1>3, <1>4 DEF BooksStep

\* No handler of the routes writes the states that a settlement passes through.
LEMMA SettledAtOnceStep ==
    ASSUME Evidenced, BooksTypeOK, RowsHaveBookings, SettledAtOnce, BooksStep
    PROVE  SettledAtOnce'
<1>0. TypeOK
  BY DEF Evidenced, Structure
<1>1. CASE \E p \in Payments : CaptureRecorded(p)
  <2>1. PICK b \in Bookings : DepositCaptured(b) \/ FinalCaptured(b)
    BY <1>1, CaptureIsSettlement
  <2> QED
    BY <1>0, <2>1 DEF DepositCaptured, FinalCaptured, MarkDepositPaid, SettleBooking, TypeOK,
       SettledAtOnce
<1>2. CASE UNCHANGED state
  BY <1>2 DEF SettledAtOnce
<1>3. CASE \E r \in Requests : Advance(r)
  <2>1. PICK r \in Requests : Advance(r)
    BY <1>3
  <2>2. CASE UNCHANGED state
    BY <1>2, <2>2
  <2>3. CASE InsertBooking(r)
    BY <1>0, <2>3 DEF InsertBooking, TypeOK, SettledAtOnce
  <2>4. CASE UpdateState(r) \/ CommitOtpStart(r) \/ CommitOtpEnd(r) \/ CommitRelease(r)
    <3>1. req[r].kind \in TransitionKinds /\ SetState(r)
      BY <2>4 DEF UpdateState, CommitOtpStart, CommitOtpEnd, CommitRelease, At, TransitionKinds
    <3>2. Target(r) \notin {"PAYMENT_LOCKED", "COMPLETED"}
      BY <3>1 DEF Target, nextState, TransitionKinds
    <3> QED
      BY <1>0, <3>1, <3>2 DEF SetState, TypeOK, SettledAtOnce
  <2> QED
    BY <2>1, <2>2, <2>3, <2>4 DEF Advance, ReadState, RejectState, AppendLog, ShowStartOtp,
       ShowEndOtp, AbortRelease, InsertTracking, bookingVars
<1>4. ASSUME NEW r \in Requests, NEW b \in Bookings, Arrive(r, b)
      PROVE  UNCHANGED state
  BY <1>4 DEF Arrive, AdmitCreate, AdmitConfirm, AdmitCancel, AdmitOtpStart,
     AdmitStartSession, AdmitOtpEnd, AdmitEndSession, AdmitTracking, AdmitRelease, Admit,
     bookingVars
<1>5. CASE RowsUntouched
  BY <1>2, <1>3, <1>4, <1>5 DEF RowsUntouched, RequestStep, FailRequest, CrashRequests,
     routesVars, bookingVars
<1>6. CASE OrderInserted \/ PaymentMade \/ PayoutReleased
  BY <1>2, <1>3, <1>6 DEF OrderInserted, PaymentMade, PayoutReleased, Advance, routesVars,
     bookingVars
<1> QED
  BY <1>1, <1>5, <1>6 DEF BooksStep

\* The books stay sound through every step of the five kinds.
LEMMA BooksStaySound ==
    ASSUME BooksSound, BooksStep
    PROVE  BooksSound'
<1>1. Evidenced'
  BY BooksStepIsRoutesStep, EvidencedStep DEF BooksSound
<1> QED
  BY <1>1, BooksTypeStep, RowsHaveBookingsStep, PaidOrdersHaveRowsStep, LedgerAgreesStep,
     EscrowAgreesStep, SettledAtOnceStep DEF BooksSound

-----------------------------------------------------------------------------
(* Each step of the service is one of the five *)

\* A call that runs applyCapturedPaymentInTx on an order of ours records it.
LEMMA ApplyIsCapture ==
    ASSUME PaidOrdersHaveRows, NEW c \in Calls, call[c].payment \in Payments,
           OrderOf(c) \in Orders, CanApply(c), ApplyCapture(c), UNCHANGED paidOrder
    PROVE  CaptureRecorded(call[c].payment)
BY DEF ApplyCapture, CanApply, OrderOf, CaptureRecorded, PaidOrdersHaveRows

\* What is known of a call of each kind while it runs.
LEMMA CallFields ==
    ASSUME CallsSound, NEW c \in Calls, ~Free(c)
    PROVE  /\ call[c].op = "order" =>
                 /\ call[c].booking \in Bookings /\ call[c].stage \in Stages
                 /\ call[c].key \in Keys /\ Exists(call[c].booking)
           /\ call[c].op = "confirm" => call[c].payment \in Payments /\ OrderOf(c) \in Orders
           /\ call[c].op = "webhook" =>
                 /\ call[c].payment \in Payments /\ call[c].type \in EventTypes
                 /\ call[c].pc \in {"inserted", "apply"} => call[c].type = "payment.captured"
                 /\ call[c].pc = "apply" => OrderOf(c) \in Orders
BY DEF CallsSound, CallSound, OrderCall, ConfirmCall, WebhookCall

LEMMA CallStepIsBooksStep ==
    ASSUME PaidOrdersHaveRows, CallsSound, NEW c \in Calls, CallStep(c)
    PROVE  BooksStep
<1>1. CASE InsertOrder(c)
  <2>0. /\ ~Free(c) /\ call[c].op = "order"
    BY <1>1 DEF InsertOrder, Running, Free, Idle
  <2>1. PICK o \in Orders :
            /\ ~HasRow(o)
            /\ txRow' = [txRow EXCEPT ![o] =
                   [booking |-> call[c].booking, stage |-> call[c].stage,
                    key |-> call[c].key, status |-> "CREATED", payment |-> None]]
    BY <1>1 DEF InsertOrder
  <2> DEFINE row == [booking |-> call[c].booking, stage |-> call[c].stage,
                     key |-> call[c].key, status |-> "CREATED", payment |-> None]
  <2>2. row \in TxRow /\ row.status = "CREATED" /\ Exists(row.booking)
    BY <2>0, CallFields DEF TxRow
  <2>3. UNCHANGED <<routesVars, escrow, payoutStatus, paidOrder>>
    BY <1>1 DEF InsertOrder, rzpVars
  <2>4. txRow' = [txRow EXCEPT ![o] = row]
    BY <2>1
  <2> HIDE DEF row
  <2>5. OrderInserted
    BY <2>1, <2>2, <2>3, <2>4 DEF OrderInserted
  <2> QED
    BY <2>5 DEF BooksStep
<1>2. CASE CommitConfirm(c)
  <2>0. ~Free(c) /\ call[c].op = "confirm"
    BY <1>2 DEF CommitConfirm, Running, Free, Idle
  <2>1. CaptureRecorded(call[c].payment)
    BY <1>2, <2>0, CallFields, ApplyIsCapture DEF CommitConfirm, rzpVars
  <2> QED
    BY <2>0, <2>1, CallFields DEF BooksStep
<1>3. CASE CommitWebhook(c)
  <2>0. ~Free(c) /\ call[c].op = "webhook" /\ call[c].pc = "apply"
    BY <1>3 DEF CommitWebhook, Running, Free, Idle
  <2>1. CaptureRecorded(call[c].payment)
    BY <1>3, <2>0, CallFields, ApplyIsCapture DEF CommitWebhook, Finalize
  <2> QED
    BY <2>0, <2>1, CallFields DEF BooksStep
<1>4. CASE \/ RejectOrder(c) \/ RejectConfirm(c) \/ InsertEvent(c) \/ InsertConflict(c)
           \/ LookUpRow(c) \/ RejectWebhook(c) \/ RecordFailure(c)
  <2>1. UNCHANGED <<routesVars, tables, paidOrder>>
    BY <1>4 DEF RejectOrder, RejectConfirm, InsertEvent, InsertConflict, LookUpRow,
       RejectWebhook, RecordFailure, Finalize, rzpVars
  <2> QED
    BY <2>1 DEF BooksStep, RowsUntouched, routesVars, bookingVars, paidColumns
<1> QED
  BY <1>1, <1>2, <1>3, <1>4 DEF CallStep

LEMMA NextIsBooksStep ==
    ASSUME PaidOrdersHaveRows, CallsSound, [Next]_vars
    PROVE  BooksStep
<1>0. ASSUME UNCHANGED <<routesVars, tables, paidOrder>>
      PROVE  BooksStep
  BY <1>0 DEF BooksStep, RowsUntouched, routesVars, bookingVars, paidColumns
<1>1. CASE RequestStepOfBooking
  <2>1. PICK r \in Requests :
            \/ \E b \in Bookings : Arrive(r, b) /\ UNCHANGED payVars
            \/ AdvanceRequest(r)
            \/ ReleasePayout(r)
            \/ FailBookingRequest(r)
    BY <1>1 DEF RequestStepOfBooking
  <2>2. CASE ReleasePayout(r)
    BY <2>2 DEF ReleasePayout, ReleaseRows, BooksStep, PayoutReleased, rzpVars
  <2>3. CASE \E b \in Bookings : Arrive(r, b) /\ UNCHANGED payVars
    <3>1. UNCHANGED payoutReleasedAt
      BY <2>3 DEF Arrive, AdmitCreate, AdmitConfirm, AdmitCancel, AdmitOtpStart,
         AdmitStartSession, AdmitOtpEnd, AdmitEndSession, AdmitTracking, AdmitRelease, Admit,
         bookingVars, paidColumns
    <3> QED
      BY <2>3, <3>1 DEF BooksStep, RowsUntouched, RequestStep, payVars, rzpVars
  <2>4. CASE AdvanceRequest(r)
    BY <2>4 DEF AdvanceRequest, BooksStep, RowsUntouched, RequestStep, payVars, rzpVars
  <2>5. CASE FailBookingRequest(r)
    BY <2>5 DEF FailBookingRequest, FailRequest, BooksStep, RowsUntouched, RequestStep,
       payVars, rzpVars, bookingVars, paidColumns
  <2> QED
    BY <2>1, <2>2, <2>3, <2>4, <2>5
<1>2. CASE PaymentStep
  <2>1. ASSUME NEW c \in Calls, NEW b \in Bookings, NEW stage \in Stages, NEW key \in Keys,
               BeginOrder(c, b, stage, key)
        PROVE  BooksStep
    BY <1>0, <2>1 DEF BeginOrder, rzpVars
  <2>2. ASSUME NEW c \in Calls, NEW p \in Payments, BeginConfirm(c, p)
        PROVE  BooksStep
    BY <1>0, <2>2 DEF BeginConfirm, rzpVars
  <2>3. ASSUME NEW c \in Calls, FailCall(c)
        PROVE  BooksStep
    BY <1>0, <2>3 DEF FailCall, rzpVars
  <2>4. ASSUME NEW e \in Event, Deliver(e)
        PROVE  BooksStep
    BY <1>0, <2>4 DEF Deliver, DeliverNew, DeliverKnown, DeliverPaused, rzpVars
  <2>5. ASSUME NEW p \in Payments, PayForeign(p) \/ \E o \in Orders : Pay(p, o)
        PROVE  BooksStep
    BY <2>5, PaymentAssumption DEF Pay, PayForeign, BooksStep, PaymentMade
  <2> QED
    BY <1>2, <2>1, <2>2, <2>3, <2>4, <2>5, CallStepIsBooksStep DEF PaymentStep
<1>3. CASE Resume
  BY <1>0, <1>3 DEF Resume, rzpVars
<1>4. CASE Crash
  BY <1>4 DEF Crash, CrashRequests, BooksStep, RowsUntouched, RequestStep, rzpVars,
     bookingVars, paidColumns
<1>5. CASE UNCHANGED vars
  BY <1>0, <1>5 DEF vars, payVars, rzpVars
<1> QED
  BY <1>1, <1>2, <1>3, <1>4, <1>5 DEF Next

-----------------------------------------------------------------------------
(* Calls in flight *)

\* What a call has established stays true while other steps are taken.
LEMMA IdleCallsStaySound ==
    ASSUME BooksSound, BooksStep, NEW c \in Calls, CallSound(c), call'[c] = call[c]
    PROVE  CallSound(c)'
<1>1. \A b \in Bookings : Exists(b) => Exists(b)'
  BY BooksStepIsRoutesStep, EvidenceGrows DEF BooksSound, Evidenced
<1>2. \A p \in Payments : paidOrder[p] \in Orders => paidOrder'[p] = paidOrder[p]
  BY PaidOrderStays, PaymentAssumption DEF BooksSound
<1>3. CASE Free(c)
  BY <1>3 DEF CallSound, Free
<1>4. CASE ~Free(c)
  <2>1. call[c].op = "order" => Exists(call[c].booking)'
    BY <1>1, <1>4 DEF CallSound, OrderCall
  <2>2. /\ call[c].op = "confirm" => OrderOf(c)' \in Orders
        /\ call[c].op = "webhook" /\ call[c].pc = "apply" => OrderOf(c)' \in Orders
    BY <1>2, <1>4 DEF CallSound, ConfirmCall, WebhookCall, OrderOf
  <2> QED
    BY <1>4, <2>1, <2>2 DEF CallSound, Free
<1> QED
  BY <1>3, <1>4

\* A new call starts sound.
LEMMA BegunCallSound ==
    ASSUME BooksSound, CallsSound, NEW c \in Calls,
           \/ \E b \in Bookings, stage \in Stages, key \in Keys : BeginOrder(c, b, stage, key)
           \/ \E p \in Payments : BeginConfirm(c, p)
           \/ \E e \in Event : DeliverNew(c, e)
    PROVE  CallSound(c)'
<1>1. ASSUME NEW b \in Bookings, NEW stage \in Stages, NEW key \in Keys,
             BeginOrder(c, b, stage, key)
      PROVE  CallSound(c)'
  <2>1. call'[c] = [op |-> "order", pc |-> "ordering", booking |-> b, stage |-> stage,
                    key |-> key]
    BY <1>1 DEF BeginOrder, CallsSound
  <2>2. Exists(b)'
    BY <1>1 DEF BeginOrder, StageDue, DepositEligible, Exists, routesVars, bookingVars
  <2> QED
    BY <2>1, <2>2 DEF CallSound, OrderCall, Exists
<1>2. ASSUME NEW p \in Payments, BeginConfirm(c, p)
      PROVE  CallSound(c)'
  <2>1. call'[c] = [op |-> "confirm", pc |-> "apply", payment |-> p]
    BY <1>2 DEF BeginConfirm, CallsSound
  <2>2. paidOrder'[p] \in Orders
    BY <1>2 DEF BeginConfirm, rzpVars
  <2> QED
    BY <2>1, <2>2 DEF CallSound, ConfirmCall, OrderOf
<1>3. ASSUME NEW e \in Event, DeliverNew(c, e)
      PROVE  CallSound(c)'
  <2>1. call'[c] = [op |-> "webhook", pc |-> "checked", payment |-> e.payment,
                    type |-> e.type]
    BY <1>3 DEF DeliverNew, CallsSound
  <2>2. e.payment \in Payments /\ e.type \in EventTypes
    BY DEF Event
  <2> QED
    BY <2>1, <2>2 DEF CallSound, WebhookCall
<1> QED
  BY <1>1, <1>2, <1>3

\* A call of the webhook moves from statement to statement.
LEMMA AdvancedCallSound ==
    ASSUME CallsSound, NEW c \in Calls, ~Free(c), call[c].op = "webhook",
           NEW pc \in {"inserted", "apply", "failed"}, GoTo(c, pc),
           pc \in {"inserted", "apply"} => call[c].type = "payment.captured",
           pc = "apply" => OrderOf(c) \in Orders, UNCHANGED paidOrder
    PROVE  CallSound(c)'
<1> DEFINE now == call[c]
<1>1. now \in WebhookCall
  BY DEF CallsSound, CallSound
<1>2. now = [op |-> now.op, pc |-> now.pc, payment |-> now.payment, type |-> now.type]
  <2> HIDE DEF now
  <2> QED
    BY <1>1 DEF WebhookCall
<1>3. call'[c] = [now EXCEPT !.pc = pc]
  BY DEF GoTo, CallsSound
<1> HIDE DEF now
<1>4. call'[c] = [op |-> now.op, pc |-> pc, payment |-> now.payment, type |-> now.type]
  BY <1>2, <1>3
<1>5. /\ call'[c] \in WebhookCall
      /\ call'[c].op = "webhook"
      /\ call'[c].payment = call[c].payment
      /\ call'[c].pc = pc /\ call'[c].type = call[c].type
  BY <1>1, <1>4 DEF WebhookCall, now
<1> QED
  BY <1>5 DEF CallSound, OrderOf

\* The statements of a call in flight leave a sound call, or none.
LEMMA SteppedCallSound ==
    ASSUME BooksSound, CallsSound, NEW c \in Calls, CallStep(c)
    PROVE  CallSound(c)'
<1>0. ~Free(c)
  BY DEF CallStep, InsertOrder, RejectOrder, CommitConfirm, RejectConfirm, InsertEvent,
     InsertConflict, LookUpRow, CommitWebhook, RejectWebhook, RecordFailure, Running, Free, Idle
<1>1. ASSUME Return(c)
      PROVE  CallSound(c)'
  BY <1>1 DEF Return, CallsSound, CallSound, Free
<1>2. CASE InsertEvent(c)
  <2>1. call[c].op = "webhook"
    BY <1>2 DEF InsertEvent, Running
  <2>2. \/ Return(c)
        \/ call[c].type = "payment.captured" /\ GoTo(c, "inserted") /\ UNCHANGED paidOrder
    BY <1>2 DEF InsertEvent, Finalize, EventOf, rzpVars
  <2> QED
    BY <1>0, <1>1, <2>1, <2>2, AdvancedCallSound
<1>3. CASE InsertConflict(c) \/ RejectWebhook(c)
  <2>1. /\ call[c].op = "webhook"
        /\ GoTo(c, "failed") /\ UNCHANGED paidOrder
    BY <1>3 DEF InsertConflict, RejectWebhook, Running, rzpVars
  <2> QED
    BY <1>0, <2>1, AdvancedCallSound
<1>4. CASE LookUpRow(c)
  <2>1. call[c].op = "webhook" /\ call[c].pc = "inserted"
    BY <1>4 DEF LookUpRow, Running
  <2>2. \/ Return(c)
        \/ /\ OrderOf(c) \in Orders
           /\ GoTo(c, "failed") \/ GoTo(c, "apply")
           /\ UNCHANGED paidOrder
    BY <1>4 DEF LookUpRow, Finalize, OrderOf, rzpVars
  <2>3. call[c].type = "payment.captured"
    BY <1>0, <2>1, CallFields
  <2> QED
    BY <1>0, <1>1, <2>1, <2>2, <2>3, AdvancedCallSound
<1>5. CASE \/ InsertOrder(c) \/ RejectOrder(c) \/ CommitConfirm(c) \/ RejectConfirm(c)
           \/ CommitWebhook(c) \/ RecordFailure(c)
  BY <1>1, <1>5 DEF InsertOrder, RejectOrder, CommitConfirm, RejectConfirm, CommitWebhook,
     RecordFailure, Finalize
<1> QED
  BY <1>2, <1>3, <1>4, <1>5 DEF CallStep

\* A failed statement ends a call, or leads a webhook to its catch block.
LEMMA FailedCallSound ==
    ASSUME CallsSound, NEW c \in Calls, FailCall(c)
    PROVE  CallSound(c)'
<1>1. CASE Return(c)
  BY <1>1 DEF Return, CallsSound, CallSound, Free
<1>2. CASE call[c].op = "webhook" /\ GoTo(c, "failed")
  <2>1. ~Free(c) /\ UNCHANGED paidOrder
    BY DEF FailCall, rzpVars
  <2> QED
    BY <1>2, <2>1, AdvancedCallSound
<1> QED
  BY <1>1, <1>2 DEF FailCall

\* A call that goes on after a statement of it is a webhook's.
LEMMA SteppedCallKind ==
    ASSUME CallsSound, NEW c \in Calls, CallStep(c) \/ FailCall(c)
    PROVE  call'[c] = Idle \/ call'[c].op = "webhook"
<1>1. /\ ~Free(c)
      /\ Return(c) \/ (call[c].op = "webhook" /\ \E pc : GoTo(c, pc))
  BY DEF CallStep, FailCall, InsertOrder, RejectOrder, CommitConfirm, RejectConfirm,
     InsertEvent, InsertConflict, LookUpRow, CommitWebhook, RejectWebhook, RecordFailure,
     Finalize, Running, Free, Idle
<1>2. CASE Return(c)
  BY <1>2 DEF Return, CallsSound
<1>3. CASE call[c].op = "webhook" /\ \E pc : GoTo(c, pc)
  <2>1. PICK pc : GoTo(c, pc)
    BY <1>3
  <2> DEFINE now == call[c]
  <2>2. now = [op |-> now.op, pc |-> now.pc, payment |-> now.payment, type |-> now.type]
    <3>1. now \in WebhookCall
      BY <1>1, <1>3 DEF CallsSound, CallSound
    <3> HIDE DEF now
    <3> QED
      BY <3>1 DEF WebhookCall
  <2>3. call'[c] = [now EXCEPT !.pc = pc]
    BY <2>1 DEF GoTo, CallsSound
  <2>4. now.op = "webhook"
    BY <1>3
  <2> HIDE DEF now
  <2> QED
    BY <2>2, <2>3, <2>4
<1> QED
  BY <1>1, <1>2, <1>3

\* From the point of view of one call, a step is its own or leaves it alone.
LEMMA CallsStep ==
    ASSUME CallsSound, [Next]_vars
    PROVE  /\ call' = [c \in Calls |-> call'[c]]
           /\ \A c \in Calls :
                 \/ \E b \in Bookings, stage \in Stages, key \in Keys :
                       BeginOrder(c, b, stage, key)
                 \/ \E p \in Payments : BeginConfirm(c, p)
                 \/ \E e \in Event : DeliverNew(c, e)
                 \/ CallStep(c)
                 \/ FailCall(c)
                 \/ call'[c] = Idle
                 \/ call'[c] = call[c]
<1>1. ASSUME UNCHANGED call
      PROVE  /\ call' = [c \in Calls |-> call'[c]]
             /\ \A c \in Calls : call'[c] = call[c]
  BY <1>1 DEF CallsSound
<1>2. ASSUME NEW d \in Calls, NEW new, call' = [call EXCEPT ![d] = new]
      PROVE  /\ call' = [c \in Calls |-> call'[c]]
             /\ \A c \in Calls : c # d => call'[c] = call[c]
  BY <1>2 DEF CallsSound
<1>3. ASSUME NEW d \in Calls, Return(d) \/ \E pc \in {"inserted", "apply", "failed"} : GoTo(d, pc)
      PROVE  /\ call' = [c \in Calls |-> call'[c]]
             /\ \A c \in Calls : c # d => call'[c] = call[c]
  BY <1>2, <1>3 DEF Return, GoTo, CallsSound
<1>4. CASE RequestStepOfBooking \/ Resume \/ UNCHANGED vars
  BY <1>1, <1>4 DEF RequestStepOfBooking, AdvanceRequest, ReleasePayout, ReleaseRows,
     FailBookingRequest, Resume, vars, payVars
<1>5. CASE Crash
  BY <1>5 DEF Crash
<1>6. CASE \E p \in Payments : PayForeign(p) \/ \E o \in Orders : Pay(p, o)
  BY <1>1, <1>6 DEF PayForeign, Pay
<1>7. CASE \E e \in Event : DeliverKnown(e) \/ DeliverPaused(e)
  BY <1>1, <1>7 DEF DeliverKnown, DeliverPaused
<1>8. CASE \E c \in Calls, e \in Event : DeliverNew(c, e)
  BY <1>2, <1>8 DEF DeliverNew
<1>9. CASE \E c \in Calls, b \in Bookings, stage \in Stages, key \in Keys :
               BeginOrder(c, b, stage, key)
  BY <1>2, <1>9 DEF BeginOrder
<1>10. CASE \E c \in Calls, p \in Payments : BeginConfirm(c, p)
  BY <1>2, <1>10 DEF BeginConfirm
<1>11. CASE \E c \in Calls : CallStep(c) \/ FailCall(c)
  <2>1. PICK d \in Calls : CallStep(d) \/ FailCall(d)
    BY <1>11
  <2>2. Return(d) \/ \E pc \in {"inserted", "apply", "failed"} : GoTo(d, pc)
    BY <2>1 DEF CallStep, FailCall, InsertOrder, RejectOrder, CommitConfirm, RejectConfirm,
       InsertEvent, InsertConflict, LookUpRow, CommitWebhook, RejectWebhook, RecordFailure,
       Finalize
  <2> QED
    BY <1>3, <2>1, <2>2
<1> QED
  BY <1>4, <1>5, <1>6, <1>7, <1>8, <1>9, <1>10, <1>11 DEF Next, PaymentStep, Deliver

LEMMA CallsStaySound ==
    ASSUME BooksSound, CallsSound, [Next]_vars
    PROVE  CallsSound'
<1>0. BooksStep
  BY NextIsBooksStep DEF BooksSound
<1>1. ASSUME NEW c \in Calls
      PROVE  CallSound(c)'
  <2>1. CASE call'[c] = Idle
    BY <2>1 DEF CallSound, Free
  <2>2. CASE call'[c] = call[c]
    BY <1>0, <2>2, IdleCallsStaySound DEF CallsSound
  <2> QED
    BY <2>1, <2>2, CallsStep, BegunCallSound, SteppedCallSound, FailedCallSound
<1> QED
  BY <1>1, CallsStep DEF CallsSound

-----------------------------------------------------------------------------
(* Events *)

\* A payment whose order was captured keeps it captured.
LEMMA CaptureStays ==
    ASSUME BooksSound, BooksStep, NEW p \in Payments, paidOrder[p] \in Orders,
           Captured(paidOrder[p])
    PROVE  paidOrder'[p] \in Orders /\ Captured(paidOrder[p])'
<1>1. paidOrder'[p] = paidOrder[p]
  BY PaidOrderStays, PaymentAssumption DEF BooksSound
<1>2. PICK o \in Orders : o = paidOrder[p]
  OBVIOUS
<1>3. Captured(o)'
  BY <1>2, RowsStay DEF BooksSound, Captured
<1> QED
  BY <1>1, <1>2, <1>3 DEF Captured, HasRow

\* Soundness of the events, when no step marks one PROCESSED.
LEMMA OldEventsStaySound ==
    ASSUME BooksSound, EventsSound, BooksStep, NEW k \in DedupeKeys,
           webhookEvent[k] = "PROCESSED"
    PROVE  paidOrder'[k[1]] \in Orders /\ Captured(paidOrder[k[1]])'
<1>1. k[1] \in Payments
  BY DEF DedupeKeys
<1>2. paidOrder[k[1]] \in Orders /\ Captured(paidOrder[k[1]])
  BY DEF EventsSound
<1> QED
  BY <1>1, <1>2, CaptureStays

\* The key of a delivery names its payment.
LEMMA KeyOfCall ==
    ASSUME CallsSound, NEW c \in Calls, ~Free(c), call[c].op = "webhook"
    PROVE  /\ DedupeKey(EventOf(c)) \in DedupeKeys
           /\ DedupeKey(EventOf(c))[1] = call[c].payment
           /\ EventOf(c) \in Event
BY CallFields DEF DedupeKey, EventOf, DedupeKeys, Event

\* An event is marked PROCESSED in the transaction that captures its payment,
\* or when that payment was already recorded.
LEMMA ProcessedStep ==
    ASSUME BooksSound, CallsSound, NEW c \in Calls, ~Free(c), call[c].op = "webhook",
           CommitWebhook(c) \/ (LookUpRow(c) /\ RowRepeats(call[c].payment)
                                             /\ OrderOf(c) \in Orders)
    PROVE  OrderOf(c) \in Orders
           /\ paidOrder'[call[c].payment] \in Orders
           /\ (\A o \in Orders : o = OrderOf(c) => txRow'[o] # None
                                                  /\ txRow'[o].status = "CAPTURED")
           /\ paidOrder'[call[c].payment] = OrderOf(c)
<1>0. call[c].payment \in Payments
  BY CallFields
<1>1. CASE CommitWebhook(c)
  <2>1. CaptureRecorded(call[c].payment)
    BY <1>0, <1>1, CallFields, ApplyIsCapture DEF CommitWebhook, Running, Finalize, BooksSound
  <2> QED
    BY <1>0, <2>1, CapturedRow DEF BooksSound, OrderOf, CaptureRecorded
<1>2. CASE LookUpRow(c) /\ RowRepeats(call[c].payment) /\ OrderOf(c) \in Orders
  <2>1. UNCHANGED <<txRow, paidOrder>>
    BY <1>2 DEF LookUpRow, Finalize, tables, rzpVars
  <2> QED
    BY <1>2, <2>1 DEF RowRepeats, Captured, HasRow, OrderOf
<1> QED
  BY <1>1, <1>2

LEMMA EventsStaySound ==
    ASSUME BooksSound, CallsSound, EventsSound, [Next]_vars
    PROVE  EventsSound'
<1>0. BooksStep
  BY NextIsBooksStep DEF BooksSound
<1>1. CASE UNCHANGED webhookEvent
  BY <1>0, <1>1, OldEventsStaySound DEF EventsSound
<1>2. ASSUME NEW c \in Calls, NEW status \in {"PROCESSED", "IGNORED", "FAILED"},
             NEW p \in Payments, p = call[c].payment, ~Free(c), call[c].op = "webhook",
             webhookEvent' = [webhookEvent EXCEPT ![DedupeKey(EventOf(c))] = status],
             status = "PROCESSED" => paidOrder'[p] \in Orders /\ Captured(paidOrder[p])'
      PROVE  EventsSound'
  <2> DEFINE key == DedupeKey(EventOf(c))
  <2>1. key \in DedupeKeys /\ key[1] = call[c].payment
    BY <1>2, KeyOfCall
  <2> HIDE DEF key
  <2>2. webhookEvent' = [webhookEvent EXCEPT ![key] = status]
    BY <1>2 DEF key
  <2>3. /\ webhookEvent' \in [DedupeKeys -> {"NONE", "PROCESSED", "IGNORED", "FAILED"}]
        /\ webhookEvent'[key] = status
        /\ \A k \in DedupeKeys : k # key => webhookEvent'[k] = webhookEvent[k]
    BY <2>1, <2>2 DEF EventsSound
  <2>4. ASSUME NEW k \in DedupeKeys, webhookEvent'[k] = "PROCESSED"
        PROVE  paidOrder'[k[1]] \in Orders /\ Captured(paidOrder[k[1]])'
    <3>1. CASE k # key
      BY <1>0, <2>3, <2>4, <3>1, OldEventsStaySound
    <3>2. CASE k = key
      <4>1. k[1] = p /\ status = "PROCESSED"
        BY <1>2, <2>1, <2>3, <2>4, <3>2
      <4> QED
        BY <1>2, <4>1 DEF Captured, HasRow
    <3> QED
      BY <3>1, <3>2
  <2> QED
    BY <2>3, <2>4 DEF EventsSound
<1>3. ASSUME NEW c \in Calls, CallStep(c)
      PROVE  EventsSound'
  <2>0. ~Free(c) /\ call[c].op = "webhook" =>
            \E p \in Payments : p = call[c].payment
    BY CallFields
  <2>1. CASE RecordFailure(c)
    <3>1. ~Free(c) /\ call[c].op = "webhook"
      BY <2>1 DEF RecordFailure, Running, Free, Idle
    <3> QED
      BY <1>2, <2>0, <2>1, <3>1 DEF RecordFailure
  <2>2. CASE InsertEvent(c)
    BY <1>1, <1>2, <2>0, <2>2 DEF InsertEvent, Running, Free, Idle, Finalize
  <2>3. CASE LookUpRow(c) \/ CommitWebhook(c)
    <3>1. ~Free(c) /\ call[c].op = "webhook"
      BY <2>3 DEF LookUpRow, CommitWebhook, Running, Free, Idle
    <3>2. CASE CommitWebhook(c) \/ (LookUpRow(c) /\ RowRepeats(call[c].payment)
                                                 /\ OrderOf(c) \in Orders)
      <4>1. /\ paidOrder'[call[c].payment] \in Orders
            /\ paidOrder'[call[c].payment] = OrderOf(c)
            /\ \A o \in Orders : o = OrderOf(c) =>
                   txRow'[o] # None /\ txRow'[o].status = "CAPTURED"
        BY <3>1, <3>2, ProcessedStep
      <4>2. \E status \in {"PROCESSED", "IGNORED"} :
                webhookEvent' = [webhookEvent EXCEPT ![DedupeKey(EventOf(c))] = status]
        BY <3>2 DEF CommitWebhook, LookUpRow, Finalize, RowRepeats, OrderOf
      <4>3. PICK p \in Payments : p = call[c].payment
        BY <2>0, <3>1
      <4>4. paidOrder'[p] \in Orders /\ Captured(paidOrder[p])'
        BY <4>1, <4>3 DEF Captured, HasRow
      <4> QED
        BY <1>2, <3>1, <4>2, <4>3, <4>4
    <3>3. CASE LookUpRow(c) /\ ~(RowRepeats(call[c].payment) /\ OrderOf(c) \in Orders)
      BY <1>1, <1>2, <2>0, <3>1, <3>3 DEF LookUpRow, Finalize, OrderOf
    <3> QED
      BY <2>3, <3>2, <3>3
  <2>4. CASE \/ InsertOrder(c) \/ RejectOrder(c) \/ CommitConfirm(c) \/ RejectConfirm(c)
             \/ InsertConflict(c) \/ RejectWebhook(c)
    BY <1>1, <2>4 DEF InsertOrder, RejectOrder, CommitConfirm, RejectConfirm, InsertConflict,
       RejectWebhook
  <2> QED
    BY <1>3, <2>1, <2>2, <2>3, <2>4 DEF CallStep
<1>4. CASE RequestStepOfBooking \/ Resume \/ Crash \/ UNCHANGED vars
  BY <1>1, <1>4 DEF RequestStepOfBooking, AdvanceRequest, ReleasePayout, ReleaseRows,
     FailBookingRequest, Resume, Crash, vars, payVars
<1>5. CASE PaymentStep
  BY <1>1, <1>3, <1>5 DEF PaymentStep, BeginOrder, BeginConfirm, FailCall, Deliver,
     DeliverNew, DeliverKnown, DeliverPaused, PayForeign, Pay
<1> QED
  BY <1>4, <1>5 DEF Next

-----------------------------------------------------------------------------
(* Types *)

\* The variables of the service that no row depends on, and the kinds of calls.
ControlTypeOK ==
    /\ acked \subseteq Event
    /\ paused \in BOOLEAN
    /\ callFaults \in 0 .. MaxCallFaults
    /\ \A c \in Calls : ~Free(c) => call[c].op \in {"order", "confirm", "webhook"}

LEMMA ControlTypeStep ==
    ASSUME BooksSound, CallsSound, ControlTypeOK, [Next]_vars
    PROVE  ControlTypeOK'
<1>1. acked' \subseteq Event
  <2>1. ASSUME NEW c \in Calls, CallStep(c)
        PROVE  acked' \subseteq Event
    <3>1. UNCHANGED acked \/ /\ ~Free(c) /\ call[c].op = "webhook"
                             /\ acked' = acked \cup {EventOf(c)}
      BY <2>1 DEF CallStep, InsertOrder, RejectOrder, CommitConfirm, RejectConfirm,
         InsertEvent, InsertConflict, LookUpRow, CommitWebhook, RejectWebhook, RecordFailure,
         Finalize, Running, Free, Idle, rzpVars
    <3> QED
      BY <3>1, KeyOfCall DEF ControlTypeOK
  <2>2. CASE RequestStepOfBooking \/ Resume \/ Crash \/ UNCHANGED vars
    BY <2>2 DEF RequestStepOfBooking, AdvanceRequest, ReleasePayout, ReleaseRows,
       FailBookingRequest, Resume, Crash, vars, payVars, rzpVars, ControlTypeOK
  <2>3. CASE PaymentStep
    BY <2>1, <2>3 DEF PaymentStep, BeginOrder, BeginConfirm, FailCall, Deliver, DeliverNew,
       DeliverKnown, DeliverPaused, PayForeign, Pay, rzpVars, ControlTypeOK
  <2> QED
    BY <2>2, <2>3 DEF Next
<1>2. paused' \in BOOLEAN /\ callFaults' \in 0 .. MaxCallFaults
  <2>1. CASE Resume
    BY <2>1 DEF Resume, ControlTypeOK
  <2>2. CASE \E c \in Calls : FailCall(c)
    <3>1. PICK c \in Calls : FailCall(c)
      BY <2>2
    <3>2. faults \in Nat
      BY ConstantsAssumption DEF BooksSound, Evidenced, Structure, TypeOK
    <3>3. paused' = paused /\ faults + callFaults < MaxCallFaults
          /\ callFaults' = callFaults + 1
      BY <3>1 DEF FailCall
    <3> QED
      BY <3>2, <3>3, PaymentAssumption DEF ControlTypeOK
  <2>3. CASE UNCHANGED control
    BY <2>3 DEF control, ControlTypeOK
  <2>4. ASSUME NEW c \in Calls, CallStep(c)
        PROVE  UNCHANGED control
    BY <2>4 DEF CallStep, InsertOrder, RejectOrder, CommitConfirm, RejectConfirm,
       InsertEvent, InsertConflict, LookUpRow, CommitWebhook, RejectWebhook, RecordFailure,
       Finalize
  <2>5. CASE RequestStepOfBooking \/ Crash \/ UNCHANGED vars
    BY <2>3, <2>5 DEF RequestStepOfBooking, AdvanceRequest, ReleasePayout, ReleaseRows,
       FailBookingRequest, Crash, vars, payVars
  <2>6. CASE PaymentStep
    BY <2>2, <2>3, <2>4, <2>6 DEF PaymentStep, BeginOrder, BeginConfirm, Deliver, DeliverNew,
       DeliverKnown, DeliverPaused, PayForeign, Pay
  <2> QED
    BY <2>1, <2>5, <2>6 DEF Next
<1>3. ASSUME NEW c \in Calls, ~Free(c)'
      PROVE  call'[c].op \in {"order", "confirm", "webhook"}
  <2>1. CASE call'[c] = call[c] \/ call'[c] = Idle
    BY <1>3, <2>1 DEF Free, ControlTypeOK
  <2>2. CASE \/ \E b \in Bookings, stage \in Stages, key \in Keys : BeginOrder(c, b, stage, key)
             \/ \E p \in Payments : BeginConfirm(c, p)
             \/ \E e \in Event : DeliverNew(c, e)
    BY <2>2 DEF BeginOrder, BeginConfirm, DeliverNew, CallsSound
  <2>3. CASE CallStep(c) \/ FailCall(c)
    BY <1>3, <2>3, SteppedCallKind DEF Free
  <2> QED
    BY <2>1, <2>2, <2>3, CallsStep
<1> QED
  BY <1>1, <1>2, <1>3 DEF ControlTypeOK, Free

ServiceSound ==
    /\ BooksSound
    /\ CallsSound
    /\ EventsSound
    /\ ControlTypeOK

LEMMA ServiceSoundInit == Init => ServiceSound
<1> SUFFICES ASSUME Init
             PROVE  ServiceSound
  OBVIOUS
<1>1. Evidenced
  BY EvidencedInit DEF Init
<1>2. \A o \in Orders : ~HasRow(o)
  BY DEF Init, HasRow
<1>3. BooksSound
  <2>1. BooksTypeOK
    BY DEF Init, BooksTypeOK
  <2>2. RowsHaveBookings /\ EscrowAgrees
    BY <1>2 DEF Init, RowsHaveBookings, EscrowAgrees, Captured
  <2>3. PaidOrdersHaveRows
    BY PaymentAssumption DEF Init, PaidOrdersHaveRows
  <2>4. LedgerAgrees
    BY <1>2 DEF Init, RoutesInit, LedgerAgrees, Settling, Captured
  <2>5. SettledAtOnce
    BY DEF Init, RoutesInit, SettledAtOnce
  <2> QED
    BY <1>1, <2>1, <2>2, <2>3, <2>4, <2>5 DEF BooksSound
<1>4. CallsSound
  BY DEF Init, CallsSound, CallSound, Free
<1>5. EventsSound
  BY DEF Init, EventsSound
<1>6. ControlTypeOK
  <2>1. MayPause \in BOOLEAN
    BY PaymentAssumption
  <2>2. paused \in BOOLEAN
    BY <2>1 DEF Init
  <2>3. callFaults \in 0 .. MaxCallFaults
    BY PaymentAssumption DEF Init
  <2> QED
    BY <2>2, <2>3 DEF Init, ControlTypeOK, Free
<1> QED
  BY <1>3, <1>4, <1>5, <1>6 DEF ServiceSound

LEMMA ServiceSoundStep == ServiceSound /\ [Next]_vars => ServiceSound'
<1> SUFFICES ASSUME ServiceSound, [Next]_vars
             PROVE  ServiceSound'
  OBVIOUS
<1>1. BooksSound'
  BY NextIsBooksStep, BooksStaySound DEF ServiceSound, BooksSound
<1> QED
  BY <1>1, CallsStaySound, EventsStaySound, ControlTypeStep DEF ServiceSound

LEMMA AlwaysServiceSound == Spec => []ServiceSound
BY ServiceSoundInit, ServiceSoundStep, PTL DEF Spec

-----------------------------------------------------------------------------
(* Theorems *)

\* The tables, the webhook events and the calls in flight keep their types.
THEOREM PaymentTypes == Spec => []PaymentTypeOK
<1>1. ServiceSound => PaymentTypeOK
  <2> SUFFICES ASSUME ServiceSound
               PROVE  PaymentTypeOK
    OBVIOUS
  <2>1. ASSUME NEW c \in Calls
        PROVE  call[c] \in OrderCall \cup ConfirmCall \cup WebhookCall \cup {Idle}
    BY DEF ServiceSound, CallsSound, CallSound, ControlTypeOK, Free
  <2>2. call \in [Calls -> OrderCall \cup ConfirmCall \cup WebhookCall \cup {Idle}]
    BY <2>1 DEF ServiceSound, CallsSound
  <2> QED
    BY <2>2 DEF ServiceSound, BooksSound, Evidenced, Structure, BooksTypeOK, EventsSound,
       ControlTypeOK, PaymentTypeOK
<1> QED
  BY <1>1, AlwaysServiceSound, PTL

\* The paid columns of a booking and its payment rows never disagree, whichever
\* calls race over the same order and wherever one of them fails
\* (applyCapturedPaymentInTx writes the two tables by separate statements).
THEOREM LedgersAgree == Spec => []LedgerAgrees
<1>1. ServiceSound => LedgerAgrees
  BY DEF ServiceSound, BooksSound
<1> QED
  BY <1>1, AlwaysServiceSound, PTL

\* An event is only marked PROCESSED when its payment is on the books
\* (processWebhook), so a redelivery that is waved through loses no money.
THEOREM ProcessedIsCaptured == Spec => []ProcessedMeansCaptured
<1>1. ServiceSound => ProcessedMeansCaptured
  <2> SUFFICES ASSUME ServiceSound, NEW e \in Event, webhookEvent[DedupeKey(e)] = "PROCESSED"
               PROVE  paidOrder[e.payment] \in Orders /\ Captured(paidOrder[e.payment])
    BY DEF ProcessedMeansCaptured
  <2>1. DedupeKey(e) \in DedupeKeys /\ DedupeKey(e)[1] = e.payment
    BY DEF DedupeKey, DedupeKeys, Event
  <2> QED
    BY <2>1 DEF ServiceSound, EventsSound
<1> QED
  BY <1>1, AlwaysServiceSound, PTL

\* What reconciliation looks for does not come to be: every capture has its
\* escrow row and its payment, every final payment a deposit, and no booking is
\* left PAYMENT_LOCKED (lib/payments/reconciliation.ts).
THEOREM NothingToReconcile == Spec => []ReconciliationClean
<1>1. ServiceSound => ReconciliationClean
  <2> SUFFICES ASSUME ServiceSound
               PROVE  ReconciliationClean
    OBVIOUS
  <2>1. ASSUME NEW b \in Bookings
        PROVE  /\ Settling(b, "FINAL") # {} => Settling(b, "DEPOSIT") # {}
               /\ state[b] # "PAYMENT_LOCKED"
    BY DEF ServiceSound, BooksSound, LedgerAgrees, Evidenced, BookingEvidence, SettledAtOnce
  <2>2. ASSUME NEW o \in Orders
        PROVE  /\ escrow[o] # "NONE" <=> Captured(o)
               /\ Captured(o) => /\ txRow[o].payment # None
                                 /\ paidOrder[txRow[o].payment] = o
    BY PaymentAssumption DEF ServiceSound, BooksSound, EscrowAgrees
  <2> QED
    BY <2>1, <2>2 DEF ReconciliationClean
<1> QED
  BY <1>1, AlwaysServiceSound, PTL

\* Seen from the booking rows, payment collection is the captures that module
\* BookingRoutes allows for: each step of the service maps to one of its steps
\* or to a stutter, so what is proved of the routes holds with payments too.
THEOREM PaymentsImplementRoutes == Spec => ImplementsRoutes
<1>1. Init => RoutesInit
  BY DEF Init
<1>2. ServiceSound /\ [Next]_vars => [RoutesNext]_routesVars
  BY NextIsBooksStep, BooksStepIsRoutesStep DEF ServiceSound, BooksSound
<1> QED
  BY <1>1, <1>2, AlwaysServiceSound, PTL DEF Spec, ImplementsRoutes, RoutesSpec

-----------------------------------------------------------------------------
(* Payouts *)

\* The payout row of a booking follows its final payment and its release.
PayoutsAgree ==
    \A b \in Bookings :
        /\ payoutStatus[b] # "NONE" <=> finalPaidAt[b]
        /\ payoutStatus[b] = "RELEASED" <=> payoutReleasedAt[b]

LEMMA PayoutsAgreeStep ==
    ASSUME BooksSound, PayoutsAgree, BooksStep
    PROVE  PayoutsAgree'
<1>0. TypeOK /\ BooksTypeOK
  BY DEF BooksSound, Evidenced, Structure
<1>1. CASE \E p \in Payments : CaptureRecorded(p)
  <2>1. PICK p \in Payments : CaptureRecorded(p)
    BY <1>1
  <2> DEFINE c == txRow[paidOrder[p]].booking
  <2>2. /\ c \in Bookings
        /\ DepositCaptured(c) \/ FinalCaptured(c)
        /\ EnsurePayout(c)
    BY <2>1, CaptureIsSettlement DEF CaptureRecorded, BooksSound
  <2> HIDE DEF c
  <2>3. /\ UNCHANGED payoutReleasedAt
        /\ \A b \in Bookings : b # c => /\ payoutStatus'[b] = payoutStatus[b]
                                        /\ finalPaidAt'[b] = finalPaidAt[b]
    BY <1>0, <2>2 DEF DepositCaptured, FinalCaptured, MarkDepositPaid, SettleBooking,
       EnsurePayout, BooksTypeOK, TypeOK
  <2>4. payoutStatus'[c] = IF state'[c] = "PAYOUT_PENDING" /\ payoutStatus[c] = "NONE"
                           THEN "READY_AFTER_DISPUTE_WINDOW" ELSE payoutStatus[c]
    BY <1>0, <2>2 DEF EnsurePayout, BooksTypeOK
  <2>5. CASE DepositCaptured(c)
    <3>1. finalPaidAt'[c] = finalPaidAt[c] /\ state'[c] = state[c]
      BY <2>5 DEF DepositCaptured, MarkDepositPaid
    <3>2. state[c] = "PAYOUT_PENDING" => finalPaidAt[c]
      BY <2>2 DEF BooksSound, Evidenced, BookingEvidence, Evidence, SettledStates
    <3> QED
      BY <2>2, <2>3, <2>4, <3>1, <3>2 DEF PayoutsAgree
  <2>6. CASE FinalCaptured(c)
    <3>1. finalPaidAt'[c] = TRUE /\ state'[c] = "PAYOUT_PENDING"
      BY <1>0, <2>2, <2>6 DEF FinalCaptured, SettleBooking, TypeOK
    <3> QED
      BY <2>2, <2>3, <2>4, <3>1 DEF PayoutsAgree
  <2> QED
    BY <2>2, <2>5, <2>6
<1>2. CASE PayoutReleased
  <2>1. PICK r \in Requests :
            /\ CommitRelease(r)
            /\ payoutStatus[req[r].booking] # "NONE"
            /\ payoutStatus' = [payoutStatus EXCEPT ![req[r].booking] = "RELEASED"]
    BY <1>2 DEF PayoutReleased
  <2> DEFINE c == req[r].booking
  <2>2. /\ c \in Bookings
        /\ payoutReleasedAt' = [payoutReleasedAt EXCEPT ![c] = TRUE]
        /\ UNCHANGED finalPaidAt
    BY <1>0, <2>1, RequestType DEF CommitRelease, At, InFlight
  <2> QED
    BY <1>0, <2>1, <2>2 DEF PayoutsAgree, BooksTypeOK, TypeOK
<1>3. CASE OrderInserted \/ PaymentMade \/ RowsUntouched
  <2>1. UNCHANGED <<payoutStatus, finalPaidAt, payoutReleasedAt>>
    BY <1>3, PaidColumnsStay DEF OrderInserted, PaymentMade, RowsUntouched, tables,
       routesVars, bookingVars, paidColumns
  <2> QED
    BY <2>1 DEF PayoutsAgree
<1> QED
  BY <1>1, <1>2, <1>3 DEF BooksStep

\* The row payout-<id> exists from the final payment of a booking on, and says
\* RELEASED exactly when the booking says so, however requests and payments race
\* (ensureProviderPayoutRowInTx, releasePayout).
THEOREM PayoutRowsAgree == Spec => []PayoutsAgree
<1>1. Init => PayoutsAgree
  BY DEF Init, RoutesInit, PayoutsAgree
<1>2. ServiceSound /\ PayoutsAgree /\ [Next]_vars => PayoutsAgree'
  BY NextIsBooksStep, PayoutsAgreeStep DEF ServiceSound, BooksSound
<1> QED
  BY <1>1, <1>2, AlwaysServiceSound, PTL DEF Spec

LEMMA NothingStaleStep ==
    ASSUME \A q, r \in Requests : q = r, BooksSound, NothingStale, BooksStep
    PROVE  NothingStale'
<1>1. ASSUME UNCHANGED routesVars
      PROVE  NothingStale'
  <2>1. /\ UNCHANGED <<req, state, finalPaidAt>>
        /\ \A u : SoftLocked(u)' <=> SoftLocked(u)
    BY <1>1 DEF routesVars, bookingVars, paidColumns, SoftLocked
  <2> QED
    BY <2>1 DEF NothingStale, InFlight, At, Exists
<1>2. CASE \E p \in Payments : CaptureRecorded(p)
  <2>1. PICK b \in Bookings : DepositCaptured(b) \/ FinalCaptured(b)
    BY <1>2, CaptureIsSettlement DEF BooksSound
  <2> QED
    BY <2>1, NothingStaleAfterCapture DEF BooksSound, Evidenced
<1>3. CASE OrderInserted \/ PaymentMade
  BY <1>1, <1>3 DEF OrderInserted, PaymentMade
<1>4. CASE PayoutReleased \/ RowsUntouched
  BY <1>1, <1>4, NothingStaleAfterRequest DEF PayoutReleased, RowsUntouched, RequestStep,
     Advance, BooksSound, Evidenced
<1> QED
  BY <1>2, <1>3, <1>4 DEF BooksStep

\* All captured final payments of a booking are the same one.
OneFinal == \A b \in Bookings : \A o, q \in Settling(b, "FINAL") : o = q

LEMMA OneFinalStep ==
    ASSUME BooksSound, NothingStale, OneFinal, BooksStep
    PROVE  OneFinal'
<1>1. CASE OrderInserted \/ PaymentMade \/ PayoutReleased \/ RowsUntouched
  <2>1. \A b \in Bookings : Settling(b, "FINAL")' = Settling(b, "FINAL")
    BY <1>1, SettlingStays DEF BooksSound, Stages
  <2> QED
    BY <2>1 DEF OneFinal
<1>2. CASE \E p \in Payments : CaptureRecorded(p)
  <2>1. PICK p \in Payments : CaptureRecorded(p)
    BY <1>2
  <2> DEFINE row == txRow[paidOrder[p]]
  <2>2. \A b \in Bookings :
            Settling(b, "FINAL")' = Settling(b, "FINAL") \cup
                {q \in {paidOrder[p]} : row.booking = b /\ row.stage = "FINAL"}
    BY <2>1, SettlingGrows DEF BooksSound, Stages
  <2>3. /\ row.booking \in Bookings
        /\ row.stage = "DEPOSIT" \/ FinalCaptured(row.booking)
    BY <2>1, CaptureIsSettlement DEF BooksSound
  <2> HIDE DEF row
  <2>4. FinalCaptured(row.booking) => Settling(row.booking, "FINAL") = {}
    BY <2>3, FinalIsDue DEF BooksSound, Evidenced, NothingStale, LedgerAgrees
  <2> QED
    BY <2>2, <2>3, <2>4 DEF OneFinal
<1> QED
  BY <1>1, <1>2 DEF BooksStep

LEMMA NothingStaleInit == Init => NothingStale /\ OneFinal
<1> SUFFICES ASSUME Init
             PROVE  NothingStale /\ OneFinal
  OBVIOUS
<1>1. \A o \in Orders : ~HasRow(o)
  BY DEF Init, HasRow
<1> QED
  BY <1>1 DEF Init, RoutesInit, NothingStale, OneFinal, Settling, Captured, InFlight, At, Idle

LEMMA AlwaysOneFinal ==
    ASSUME \A q, r \in Requests : q = r
    PROVE  Spec => [](NothingStale /\ OneFinal)
<1>1. ServiceSound /\ (NothingStale /\ OneFinal) /\ [Next]_vars => (NothingStale /\ OneFinal)'
  BY NextIsBooksStep, NothingStaleStep, OneFinalStep DEF ServiceSound, BooksSound
<1> QED
  BY <1>1, NothingStaleInit, AlwaysServiceSound, PTL DEF Spec

\* Where the state that a request validated is the state that it updates, no
\* step leads away from PAID_OUT.
LEMMA PaidOutIsFinal ==
    ASSUME BooksSound, NothingStale, BooksStep, NEW b \in Bookings, state[b] = "PAID_OUT"
    PROVE  state'[b] = "PAID_OUT"
<1>0. Structure /\ TypeOK
  BY DEF BooksSound, Evidenced, Structure
<1>1. CASE \E p \in Payments : CaptureRecorded(p)
  <2>1. PICK c \in Bookings : DepositCaptured(c) \/ FinalCaptured(c)
    BY <1>1, CaptureIsSettlement DEF BooksSound
  <2>2. CASE DepositCaptured(c)
    BY <2>2 DEF DepositCaptured, MarkDepositPaid
  <2>3. CASE FinalCaptured(c)
    BY <1>0, <2>3, FinalIsDue DEF TypeOK
  <2> QED
    BY <2>1, <2>2, <2>3
<1>2. ASSUME NEW r \in Requests, Advance(r)
      PROVE  state'[b] = "PAID_OUT"
  <2>0. InFlight(r)
    BY <1>2 DEF Advance, InsertBooking, ReadState, RejectState, UpdateState, AppendLog,
       CommitOtpStart, ShowStartOtp, CommitOtpEnd, ShowEndOtp, CommitRelease,
       AbortRelease, InsertTracking, InFlight, At
  <2>1. CASE InsertBooking(r)
    <3>1. ~Exists(req[r].booking)
      BY <2>1 DEF InsertBooking, NothingStale
    <3> QED
      BY <1>0, <2>1, <3>1 DEF InsertBooking, Exists, TypeOK
  <2>2. CASE UpdateState(r) \/ CommitOtpStart(r) \/ CommitOtpEnd(r) \/ CommitRelease(r)
    <3>1. /\ req[r].pc = "validated" /\ req[r].kind \in TransitionKinds
          /\ SetState(r)
      BY <2>2 DEF UpdateState, CommitOtpStart, CommitOtpEnd, CommitRelease, At, TransitionKinds
    <3>2. PICK kind \in TransitionKinds, from \in BookingState :
              /\ kind = req[r].kind /\ from = req[r].from
              /\ CanTransition(from, nextState[kind])
      BY <1>0, <2>0, <3>1 DEF Structure, RequestSound, Target
    <3>3. from # "PAID_OUT"
      BY <3>2 DEF CanTransition, transitionMap, BookingState, Cancelled
    <3>4. req[r].booking # b
      BY <2>0, <3>1, <3>2, <3>3 DEF NothingStale
    <3> QED
      BY <1>0, <3>1, <3>4 DEF SetState, TypeOK
  <2> QED
    BY <1>2, <2>1, <2>2 DEF Advance, ReadState, RejectState, AppendLog, ShowStartOtp,
       ShowEndOtp, AbortRelease, InsertTracking, bookingVars
<1>3. CASE RowsUntouched
  BY <1>2, <1>3 DEF RowsUntouched, RequestStep, Arrive, AdmitCreate, AdmitConfirm,
     AdmitCancel, AdmitOtpStart, AdmitStartSession, AdmitOtpEnd, AdmitEndSession,
     AdmitTracking, AdmitRelease, Admit, FailRequest, CrashRequests, routesVars, bookingVars
<1>4. CASE OrderInserted \/ PaymentMade \/ PayoutReleased
  BY <1>2, <1>4 DEF OrderInserted, PaymentMade, PayoutReleased, Advance, routesVars,
     bookingVars
<1> QED
  BY <1>1, <1>3, <1>4 DEF BooksStep

\* The provider is owed a booking once.  The payment calls may race, repeat and
\* fail as they like; the booking requests are taken one at a time, because two
\* that overlap can put a settled booking back to PENDING_PAYMENT
\* (transitionBookingState updates by id alone).
THEOREM OnePayout ==
    ASSUME \A q, r \in Requests : q = r
    PROVE  Spec => []OnePayoutPerBooking
<1>1. PayoutsAgree /\ OneFinal => OnePayoutPerBooking
  <2> SUFFICES ASSUME PayoutsAgree, OneFinal, NEW b \in Bookings
               PROVE  /\ Cardinality(Settling(b, "FINAL")) <= 1
                      /\ payoutStatus[b] # "NONE" <=> finalPaidAt[b]
                      /\ payoutStatus[b] = "RELEASED" <=> payoutReleasedAt[b]
    BY DEF OnePayoutPerBooking
  <2>1. CASE Settling(b, "FINAL") = {}
    BY <2>1, FS_EmptySet DEF PayoutsAgree
  <2>2. CASE Settling(b, "FINAL") # {}
    <3>0. PICK o \in Settling(b, "FINAL") : TRUE
      BY <2>2
    <3>1. Settling(b, "FINAL") = {o}
      BY <3>0 DEF OneFinal
    <3>2. Cardinality({o}) = 1
      BY FS_Singleton
    <3> QED
      BY <3>1, <3>2 DEF PayoutsAgree
  <2> QED
    BY <2>1, <2>2
<1> QED
  BY <1>1, PayoutRowsAgree, AlwaysOneFinal, PTL

=============================================================================
