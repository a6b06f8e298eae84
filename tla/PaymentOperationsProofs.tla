---------------------- MODULE PaymentOperationsProofs -----------------------
(***************************************************************************)
(* What splitting a price and a fee keeps, for every amount and rate; what *)
(* the amounts on the rows promise, and what operators find and do, for    *)
(* any bookings, prices, orders, calls and operators.                      *)
(***************************************************************************)
EXTENDS PaymentOperations, PaymentServiceProofs, FiniteSetTheorems, WellFoundedInduction

-----------------------------------------------------------------------------
(* Amounts: rounding, split and commission *)

\* Rounding is off by half a unit at most.
LEMMA NearestBounds ==
    ASSUME NEW n \in Nat, NEW d \in Nat \ {0}, NEW x \in Nearest(n, d)
    PROVE  /\ x \in Nat
           /\ 2 * n - d <= 2 * (d * x)
           /\ 2 * (d * x) <= 2 * n + d
<1> DEFINE e == 2 * d
<1>1. e \in Nat \ {0}
  OBVIOUS
<1>2. \A m \in Nat : /\ m \div e \in Nat
                     /\ m - e < e * (m \div e)
                     /\ e * (m \div e) <= m
  <2> TAKE m \in Nat
  <2> HIDE DEF e
  <2>1. /\ m = (e * (m \div e)) + (m % e)
            /\ m % e \in 0 .. (e - 1)
            /\ m \div e \in Int
    BY <1>1
  <2> DEFINE q == m \div e
  <2> HIDE DEF q
  <2>2. q \in Int /\ e * q <= m /\ m - e < e * q
    BY <2>1, <1>1 DEF q
  <2>3. q \in Nat
    BY <2>2, <1>1
  <2> QED
    BY <2>2, <2>3 DEF q
<1>3. 2 * n + d \in Nat /\ 2 * n + d - 1 \in Nat
  OBVIOUS
<1>4. e * x = 2 * (d * x) \/ x \notin Int
  OBVIOUS
<1>5. CASE x = RoundUp(n, d)
  <2>1. x = (2 * n + d) \div e
    BY <1>5 DEF RoundUp
  <2> HIDE DEF e
  <2>2. x \in Nat /\ (2 * n + d) - e < e * x /\ e * x <= 2 * n + d
    BY <2>1, <1>2, <1>3
  <2> QED
    BY <2>2, <1>4 DEF e
<1>6. CASE x = RoundDown(n, d)
  <2>1. x = (2 * n + d - 1) \div e
    BY <1>6 DEF RoundDown
  <2> HIDE DEF e
  <2>2. x \in Nat /\ (2 * n + d - 1) - e < e * x /\ e * x <= 2 * n + d - 1
    BY <2>1, <1>2, <1>3
  <2> QED
    BY <2>2, <1>4 DEF e
<1> QED
  BY <1>5, <1>6 DEF Nearest

-----------------------------------------------------------------------------

\* Dividing an inequality by a positive number.
LEMMA Cancel ==
    ASSUME NEW d \in Nat \ {0}, NEW k \in Int, NEW m \in Int, d * k < d * (m + 1)
    PROVE  k <= m
<1> SUFFICES ASSUME k >= m + 1
             PROVE  FALSE
  OBVIOUS
<1>1. PICK j \in Nat : k = (m + 1) + j
  <2>1. k - (m + 1) \in Nat /\ k = (m + 1) + (k - (m + 1))
    OBVIOUS
  <2> QED
    BY <2>1
<1>2. d * k = d * (m + 1) + d * j
  BY <1>1
<1>3. d * j \in Nat
  BY <1>1
<1>4. d * k \in Int /\ d * (m + 1) \in Int
  OBVIOUS
<1> QED
  BY <1>2, <1>3, <1>4

\* createBooking stores amounts that differ from the price it stores by a paisa
\* at most, whatever fraction of a paisa the price has: collecting the two
\* stages collects what will be paid out, give or take one paisa.
THEOREM SplitWithinAPaisa ==
    ASSUME NEW price \in Nat, NEW units \in Nat \ {0},
           NEW split \in SplitAmounts(price, units)
    PROVE  /\ split.deposit \in Nat /\ split.final \in Nat /\ split.estimated \in Nat
           /\ split.deposit + split.final - split.estimated \in -1 .. 1
<1>0. PICK half \in Nearest(price, 2 * units) :
        \E final \in Nearest(price - half * units, units) :
            split = [deposit |-> half, final |-> final, estimated |-> StoredAmount(price, units)]
  BY DEF SplitAmounts
<1>1. PICK final \in Nearest(price - half * units, units) :
        split = [deposit |-> half, final |-> final, estimated |-> StoredAmount(price, units)]
  BY <1>0
<1>2. 2 * units \in Nat \ {0}
  OBVIOUS
<1>3. half \in Nat /\ 2 * ((2 * units) * half) <= 2 * price + 2 * units
  BY <1>2, NearestBounds
<1> DEFINE g == units * half
           stored == StoredAmount(price, units)
<1>4. g \in Nat /\ (2 * units) * half = 2 * g /\ half * units = g
  BY <1>3
<1>5. price - g \in Nat
  <2>1. CASE half = 0
    BY <2>1
  <2>2. CASE half # 0
    <3>1. half - 1 \in Nat /\ g = units * (half - 1) + units /\ units * (half - 1) \in Nat
      BY <2>2, <1>3
    <3>2. 2 * g <= price + units
      BY <1>3, <1>4
    <3>3. units <= g
      BY <3>1
    <3> QED
      BY <3>2, <3>3, <1>4
  <2> QED
    BY <2>1, <2>2
<1>6. final \in Nearest(price - g, units)
  BY <1>4
<1>7. /\ final \in Nat
      /\ 2 * (price - g) - units <= 2 * (units * final)
      /\ 2 * (units * final) <= 2 * (price - g) + units
  <2> HIDE DEF g
  <2> QED
    BY <1>5, <1>6, NearestBounds
<1>8. /\ stored \in Nat
      /\ 2 * price - units <= 2 * (units * stored)
      /\ 2 * (units * stored) <= 2 * price + units
  <2>1. stored \in Nearest(price, units)
    BY DEF StoredAmount, Nearest
  <2> QED
    BY <2>1, NearestBounds
<1> HIDE DEF stored
<1>9. units * (half + final - stored) = g + units * final - units * stored
  BY <1>3, <1>7, <1>8
<1>10. units * (stored - half - final) = units * stored - g - units * final
  BY <1>3, <1>7, <1>8
<1>11. half + final - stored <= 1
  <2>1. units * (half + final - stored) < units * (1 + 1)
    BY <1>4, <1>7, <1>8, <1>9
  <2> QED
    BY <2>1, <1>3, <1>7, <1>8, Cancel
<1>12. stored - half - final <= 1
  <2>1. units * (stored - half - final) < units * (1 + 1)
    BY <1>4, <1>7, <1>8, <1>10
  <2> QED
    BY <2>1, <1>3, <1>7, <1>8, Cancel
<1>13. half + final - stored \in -1 .. 1
  BY <1>3, <1>7, <1>8, <1>11, <1>12
<1> QED
  BY <1>1, <1>3, <1>7, <1>8, <1>13 DEF stored

\* Of a price in whole paise nothing is lost: the two amounts add up to it and
\* differ by one paisa at most.
THEOREM SplitLosesNothing ==
    ASSUME NEW price \in Nat, NEW split \in SplitAmounts(price, 1)
    PROVE  /\ split.deposit + split.final = price
           /\ split.estimated = price
           /\ split.deposit - split.final \in -1 .. 1
<1>0. PICK half \in Nearest(price, 2 * 1) :
        \E final \in Nearest(price - half * 1, 1) :
            split = [deposit |-> half, final |-> final, estimated |-> StoredAmount(price, 1)]
  BY DEF SplitAmounts
<1>1. PICK final \in Nearest(price - half * 1, 1) :
        split = [deposit |-> half, final |-> final, estimated |-> StoredAmount(price, 1)]
  BY <1>0
<1>2. half \in Nat /\ 2 * price - 2 <= 4 * half /\ 4 * half <= 2 * price + 2
  <2>1. half \in Nearest(price, 2) /\ 2 \in Nat \ {0}
    OBVIOUS
  <2>2. half \in Nat /\ 2 * price - 2 <= 2 * (2 * half) /\ 2 * (2 * half) <= 2 * price + 2
    BY <2>1, NearestBounds
  <2> QED
    BY <2>2
<1>3. price - half * 1 \in Nat
  BY <1>2
<1>4. final = price - half
  <2>1. final \in Nat /\ 2 * (price - half * 1) - 1 <= 2 * (1 * final)
                      /\ 2 * (1 * final) <= 2 * (price - half * 1) + 1
    BY <1>3, NearestBounds
  <2> QED
    BY <2>1, <1>2
<1>5. StoredAmount(price, 1) = price
  <2>1. StoredAmount(price, 1) \in Nearest(price, 1)
    BY DEF StoredAmount, Nearest
  <2>2. /\ StoredAmount(price, 1) \in Nat
        /\ 2 * price - 1 <= 2 * (1 * StoredAmount(price, 1))
        /\ 2 * (1 * StoredAmount(price, 1)) <= 2 * price + 1
    BY <2>1, NearestBounds
  <2> QED
    BY <2>2
<1> QED
  BY <1>1, <1>2, <1>4, <1>5

-----------------------------------------------------------------------------

\* The fee and the provider's share of a captured amount add up to it, and
\* neither is negative: rounding never takes the fee beyond the gross amount.
THEOREM CommissionWithinGross ==
    ASSUME NEW gross \in Nat, NEW parts \in Nat \ {0}, NEW taken \in 0 .. parts,
           NEW split \in SplitCommission(gross, taken, parts)
    PROVE  /\ split.fee \in 0 .. gross
           /\ split.share \in 0 .. gross
           /\ split.fee + split.share = gross
<1>1. PICK fee \in Nearest(gross * taken, parts) : split = [fee |-> fee, share |-> gross - fee]
  BY DEF SplitCommission
<1>2. taken \in Nat /\ gross * taken \in Nat
  OBVIOUS
<1>3. fee \in Nat /\ 2 * (parts * fee) <= 2 * (gross * taken) + parts
  BY <1>2, NearestBounds
<1>4. gross * taken <= gross * parts
  <2>1. PICK rest \in Nat : parts = taken + rest
    <3>1. parts - taken \in Nat /\ parts = taken + (parts - taken)
      OBVIOUS
    <3> QED
      BY <3>1
  <2>2. gross * parts = gross * taken + gross * rest /\ gross * rest \in Nat
    BY <2>1, <1>2
  <2> QED
    BY <2>2, <1>2
<1>5. fee <= gross
  <2>1. gross * parts = parts * gross /\ parts * gross \in Nat /\ parts * fee \in Nat
    BY <1>3
  <2>2. parts * (gross + 1) = parts * gross + parts
    OBVIOUS
  <2>3. parts * fee < parts * (gross + 1)
    BY <1>2, <1>3, <1>4, <2>1, <2>2
  <2> QED
    BY <2>3, <1>3, Cancel
<1> QED
  BY <1>1, <1>3, <1>5

\* Two fees rounded apart, one per stage, are within a paisa of the fee of the
\* whole: splitting a booking's price costs neither side more than that.
THEOREM FeesOfStagesAddUp ==
    ASSUME NEW deposit \in Nat, NEW final \in Nat,
           NEW parts \in Nat \ {0}, NEW taken \in 0 .. parts,
           NEW d \in SplitCommission(deposit, taken, parts),
           NEW f \in SplitCommission(final, taken, parts),
           NEW whole \in SplitCommission(deposit + final, taken, parts)
    PROVE  d.fee + f.fee - whole.fee \in -1 .. 1
<1> DEFINE p == deposit * taken
           q == final * taken
<1>1. taken \in Nat /\ p \in Nat /\ q \in Nat
  OBVIOUS
<1>2. (deposit + final) * taken = p + q
  BY <1>1
<1>3. d.fee \in Nearest(p, parts) /\ f.fee \in Nearest(q, parts)
  BY DEF SplitCommission
<1>4. whole.fee \in Nearest(p + q, parts)
  BY <1>2 DEF SplitCommission
<1> HIDE DEF p, q
<1>5. d.fee \in Nat /\ 2 * p - parts <= 2 * (parts * d.fee)
                    /\ 2 * (parts * d.fee) <= 2 * p + parts
  BY <1>1, <1>3, NearestBounds
<1>6. f.fee \in Nat /\ 2 * q - parts <= 2 * (parts * f.fee)
                    /\ 2 * (parts * f.fee) <= 2 * q + parts
  BY <1>1, <1>3, NearestBounds
<1>7. whole.fee \in Nat /\ 2 * (p + q) - parts <= 2 * (parts * whole.fee)
                        /\ 2 * (parts * whole.fee) <= 2 * (p + q) + parts
  BY <1>1, <1>4, NearestBounds
<1> DEFINE a == d.fee
           b == f.fee
           c == whole.fee
<1>8. a \in Nat /\ b \in Nat /\ c \in Nat
  BY <1>5, <1>6, <1>7
<1> HIDE DEF a, b, c
<1>9. /\ parts * (a + b - c) = parts * a + parts * b - parts * c
      /\ parts * (c - a - b) = parts * c - parts * a - parts * b
      /\ parts * a \in Nat /\ parts * b \in Nat /\ parts * c \in Nat
  BY <1>8
<1>10. parts * (a + b - c) < parts * (1 + 1) /\ parts * (c - a - b) < parts * (1 + 1)
  BY <1>1, <1>5, <1>6, <1>7, <1>9 DEF a, b, c
<1>11. a + b - c <= 1 /\ c - a - b <= 1
  BY <1>8, <1>10, Cancel
<1> QED
  BY <1>8, <1>11 DEF a, b, c

-----------------------------------------------------------------------------
(* The rows *)

\* What the stages of a booking may be off its price.
Slack == IF grain = 1 THEN {0} ELSE -1 .. 1

\* The stages of a booking and its price are whole paise, and belong together.
AmountsSound ==
    amounts \in [Bookings -> {NoAmounts} \cup
        {split \in [deposit : Nat, final : Nat, estimated : Nat] :
            split.deposit + split.final - split.estimated \in Slack}]

\* Whatever a split may be, it is sound.
LEMMA SplitIsSound ==
    ASSUME NEW b \in Bookings, NEW split \in SplitAmounts(priceOf[b], grain)
    PROVE  split \in {s \in [deposit : Nat, final : Nat, estimated : Nat] :
                          s.deposit + s.final - s.estimated \in Slack}
<1>1. priceOf[b] \in Nat /\ grain \in Nat \ {0}
  BY OperationsAssumption
<1>2. /\ split.deposit \in Nat /\ split.final \in Nat /\ split.estimated \in Nat
      /\ split.deposit + split.final - split.estimated \in -1 .. 1
  BY <1>1, SplitWithinAPaisa
<1>3. grain = 1 => split.deposit + split.final - split.estimated = 0
  <2>1. ASSUME grain = 1
        PROVE  /\ split.deposit + split.final = priceOf[b]
               /\ split.estimated = priceOf[b]
    <3>1. split \in SplitAmounts(priceOf[b], 1)
      BY <2>1
    <3> QED
      BY <1>1, <3>1, SplitLosesNothing
  <2> QED
    BY <1>1, <1>2, <2>1
<1>4. split = [deposit |-> split.deposit, final |-> split.final, estimated |-> split.estimated]
  BY DEF SplitAmounts
<1> QED
  BY <1>2, <1>3, <1>4 DEF Slack

\* Only the insert of a booking writes amounts, and it writes a split.
LEMMA AmountsStaySound ==
    ASSUME AmountsSound, [BooksNext]_booksVars
    PROVE  AmountsSound'
<1>1. CASE WriteAmounts
  <2>1. CASE UNCHANGED amounts
    BY <2>1 DEF AmountsSound
  <2>2. CASE \E b \in Bookings : \E split \in SplitAmounts(priceOf[b], grain) :
                amounts' = [amounts EXCEPT ![b] = split]
    <3>1. PICK b \in Bookings : \E split \in SplitAmounts(priceOf[b], grain) :
              amounts' = [amounts EXCEPT ![b] = split]
      BY <2>2
    <3>2. PICK split \in SplitAmounts(priceOf[b], grain) : amounts' = [amounts EXCEPT ![b] = split]
      BY <3>1
    <3> QED
      BY <3>2, SplitIsSound DEF AmountsSound
  <2> QED
    BY <1>1, <2>1, <2>2 DEF WriteAmounts
<1>2. CASE Operate
  BY <1>2 DEF Operate, AmountsSound
<1>3. CASE UNCHANGED booksVars
  BY <1>3 DEF booksVars, AmountsSound
<1> QED
  BY <1>1, <1>2, <1>3 DEF BooksNext

\* Sound amounts have fees that add up.
LEMMA SoundFees ==
    ASSUME AmountsSound
    PROVE  FeesAddUp
<1> SUFFICES ASSUME NEW b \in Bookings,
                    NEW ofDeposit \in SplitCommission(amounts[b].deposit, rate, scale),
                    NEW ofFinal \in SplitCommission(amounts[b].final, rate, scale),
                    NEW ofWhole \in SplitCommission(amounts[b].deposit + amounts[b].final, rate, scale)
             PROVE  /\ ofDeposit.fee + ofFinal.fee - ofWhole.fee \in -1 .. 1
                    /\ ofDeposit.share >= 0 /\ ofFinal.share >= 0
  BY DEF FeesAddUp
<1>1. amounts[b].deposit \in Nat /\ amounts[b].final \in Nat
  BY DEF AmountsSound, NoAmounts
<1>2. scale \in Nat \ {0} /\ rate \in 0 .. scale
  BY OperationsAssumption
<1>3. ofDeposit.fee + ofFinal.fee - ofWhole.fee \in -1 .. 1
  BY <1>1, <1>2, FeesOfStagesAddUp
<1>4. ofDeposit.share \in 0 .. amounts[b].deposit /\ ofFinal.share \in 0 .. amounts[b].final
  BY <1>1, <1>2, CommissionWithinGross
<1> QED
  BY <1>1, <1>3, <1>4

\* In every run of the payments next to operators, the fees of the stages of a
\* booking add up to its commission, give or take a paisa (lib/payments/commission.ts).
THEOREM CommissionIsKept == BooksSpec => []FeesAddUp
<1>1. BooksInit => AmountsSound
  BY DEF BooksInit, AmountsSound
<1>2. AmountsSound /\ [BooksNext]_booksVars => AmountsSound'
  BY AmountsStaySound
<1>3. AmountsSound => FeesAddUp
  BY SoundFees
<1> QED
  BY <1>1, <1>2, <1>3, PTL DEF BooksSpec

-----------------------------------------------------------------------------
(* Operators *)

\* What a repair in progress has read of its booking.
RepairSound ==
    operation.task = "repair" => operation.booking \in Bookings /\ Exists(operation.booking)

\* repair-state has nothing to repair: the one state that it could move on is
\* passed through within the settlement, so its transition throws.
LEMMA RepairIsRefused ==
    ASSUME BooksSound, RepairSound, RepairState
    PROVE  UNCHANGED routesVars
<1> DEFINE b == operation.booking
<1>1. /\ b \in Bookings /\ state[b] \in BookingState /\ state[b] # "COMPLETED"
      /\ state \in [Bookings -> RowState]
  BY DEF RepairState, Operating, RepairSound, BooksSound, Evidenced, Structure, TypeOK,
     Exists, RowState, SettledAtOnce
<1>2. state' = [state EXCEPT ![b] = RepairTarget(b)]
  BY DEF RepairState
<1> HIDE DEF b
<1>3. RepairTarget(b) = state[b]
  BY <1>1 DEF RepairTarget, CanTransition, transitionMap, BookingState, Cancelled
<1>4. state' = state
  BY <1>1, <1>2, <1>3
<1> QED
  BY <1>4 DEF RepairState, routesVars, bookingVars, b

\* Whatever operators do, the service takes a step of its own, or none.
LEMMA BooksNextIsNext ==
    ASSUME BooksSound, RepairSound, [BooksNext]_booksVars
    PROVE  [Next]_vars
<1>1. CASE Operate
  <2>1. UNCHANGED routesVars
    BY <1>1, RepairIsRefused DEF Operate
  <2> QED
    BY <1>1, <2>1 DEF Operate, vars
<1> QED
  BY <1>1 DEF BooksNext, Next, booksVars

LEMMA RepairStaysSound ==
    ASSUME BooksSound, CallsSound, RepairSound, [BooksNext]_booksVars
    PROVE  RepairSound'
<1>1. \A b \in Bookings : Exists(b) => Exists(b)'
  BY BooksNextIsNext, NextIsBooksStep, BooksStepIsRoutesStep, EvidenceGrows
     DEF BooksSound, Evidenced
<1>2. CASE UNCHANGED operation
  BY <1>1, <1>2 DEF RepairSound, Exists
<1>3. CASE operation'.task # "repair"
  BY <1>3 DEF RepairSound
<1>4. ASSUME NEW b \in Bookings, RepairBooking(b)
      PROVE  RepairSound'
  <2>1. operation'.booking = b /\ Exists(b)
    BY <1>4 DEF RepairBooking
  <2> QED
    BY <1>1, <2>1 DEF RepairSound, Exists
<1>5. CASE RepairTransactions
  <2>1. operation' = [operation EXCEPT !.pc = "repair"] \/ operation' = Resting
    BY <1>5 DEF RepairTransactions
  <2>2. CASE operation' = [operation EXCEPT !.pc = "repair"]
    <3>1. operation'.booking = operation.booking /\ operation'.task = operation.task
      BY <2>2
    <3> QED
      BY <1>1, <1>5, <3>1 DEF RepairTransactions, Operating, RepairSound, Exists
  <2> QED
    BY <1>3, <2>1, <2>2 DEF Resting
<1>6. CASE Operate
  BY <1>3, <1>4, <1>5, <1>6 DEF Operate, Reconcile, Repair, RepairState, ReconcileBookings,
     ReconcileTransactions, ReconcileEscrow, SendReport, Resting
<1> QED
  BY <1>2, <1>3, <1>6 DEF BooksNext, booksVars, Resting

\* The service, and a repair next to it.
OperatedSound == ServiceSound /\ RepairSound

LEMMA AlwaysOperatedSound == BooksSpec => []OperatedSound
<1>1. BooksInit => OperatedSound
  BY ServiceSoundInit DEF BooksInit, OperatedSound, RepairSound, Resting
<1>2. OperatedSound /\ [BooksNext]_booksVars => OperatedSound'
  BY BooksNextIsNext, ServiceSoundStep, RepairStaysSound DEF OperatedSound, ServiceSound
<1> QED
  BY <1>1, <1>2, PTL DEF BooksSpec

\* Reports and repairs leave no trace: next to operators the service behaves as
\* module PaymentService says, so all that is proved of it holds here.
THEOREM OperatorsChangeNothing == BooksSpec => Spec
<1>1. BooksInit => Init
  BY DEF BooksInit
<1>2. OperatedSound /\ [BooksNext]_booksVars => [Next]_vars
  BY BooksNextIsNext DEF OperatedSound, ServiceSound
<1> QED
  BY <1>1, <1>2, AlwaysOperatedSound, PTL DEF BooksSpec, Spec

\* What a report in progress has read: rows of bookings it found, which were
\* captured and still are.
ReportSound ==
    operation.task = "reconcile" =>
        /\ operation.issues \subseteq {"orphan_escrow_row"}
        /\ operation.pc = "transactions" =>
              \A o \in operation.captured :
                  o \in Orders /\ Captured(o) /\ txRow[o].booking \in operation.found

\* No row that reconciliation reads is without its payment or its deposit.
LEMMA TransactionsAreClean ==
    ASSUME BooksSound, ReportSound, ReconcileTransactions
    PROVE  /\ operation'.issues \subseteq {"orphan_escrow_row"}
           /\ \A o \in operation'.captured :
                 o \in Orders /\ Captured(o) /\ txRow[o].booking \in operation'.found
<1> DEFINE rows == {o \in Orders : HasRow(o) /\ txRow[o].booking \in operation.found}
           captured == {o \in rows : Captured(o)}
           of(b, stage) == {o \in captured : txRow[o].booking = b /\ txRow[o].stage = stage}
<1>1. {x \in captured : txRow[x].payment = None} = {}
  BY PaymentAssumption DEF BooksSound, EscrowAgrees
<1>2. {x \in Bookings : of(x, "FINAL") # {} /\ of(x, "DEPOSIT") = {}} = {}
  <2> SUFFICES ASSUME NEW b \in Bookings, of(b, "FINAL") # {}
               PROVE  of(b, "DEPOSIT") # {}
    OBVIOUS
  <2>1. b \in operation.found /\ Settling(b, "FINAL") # {}
    BY DEF Settling
  <2>2. PICK o \in Settling(b, "DEPOSIT") : TRUE
    BY <2>1 DEF BooksSound, LedgerAgrees, Evidenced, BookingEvidence
  <2>3. o \in of(b, "DEPOSIT")
    BY <2>1, <2>2 DEF Settling, Captured
  <2> QED
    BY <2>3
<1>3. operation.issues \subseteq {"orphan_escrow_row"}
  BY DEF ReconcileTransactions, Operating, ReportSound
<1>4. operation' =
        [task |-> "reconcile", pc |-> "transactions", found |-> operation.found,
         rows |-> rows, captured |-> captured,
         issues |-> operation.issues
             \cup {"captured_without_payment_id" :
                      o \in {x \in captured : txRow[x].payment = None}}
             \cup {"final_without_deposit" :
                      b \in {x \in Bookings : of(x, "FINAL") # {} /\ of(x, "DEPOSIT") = {}}}]
  BY DEF ReconcileTransactions
<1> HIDE DEF of
<1>5. operation' =
        [task |-> "reconcile", pc |-> "transactions", found |-> operation.found,
         rows |-> rows, captured |-> captured, issues |-> operation.issues \cup {} \cup {}]
  BY <1>1, <1>2, <1>4
<1> QED
  BY <1>3, <1>5

LEMMA ReportStaysSound ==
    ASSUME BooksSound, CallsSound, RepairSound, ReportSound, [BooksNext]_booksVars
    PROVE  ReportSound'
<1>1. ASSUME NEW o \in Orders, Captured(o)
      PROVE  Captured(o)' /\ txRow'[o].booking = txRow[o].booking
  BY <1>1, BooksNextIsNext, NextIsBooksStep, RowsStay DEF BooksSound, Captured
<1>2. CASE UNCHANGED operation
  BY <1>1, <1>2 DEF ReportSound
<1>3. CASE operation'.task # "reconcile"
  BY <1>3 DEF ReportSound
<1>4. CASE ReconcileBookings
  <2>1. {x \in Bookings : state[x] = "PAYMENT_LOCKED"} = {}
    BY DEF BooksSound, SettledAtOnce
  <2>2. operation' = [task |-> "reconcile", pc |-> "bookings",
                      found |-> {b \in Bookings : Exists(b)},
                      issues |-> {"stuck_payment_locked" :
                                     b \in {x \in Bookings : state[x] = "PAYMENT_LOCKED"}}]
    BY <1>4 DEF ReconcileBookings
  <2>3. operation'.issues = {} /\ operation'.pc = "bookings"
    BY <2>1, <2>2
  <2> QED
    BY <2>3 DEF ReportSound
<1>5. CASE ReconcileTransactions /\ UNCHANGED payVars
  <2>1. /\ operation'.issues \subseteq {"orphan_escrow_row"}
        /\ \A o \in operation'.captured :
              o \in Orders /\ Captured(o) /\ txRow[o].booking \in operation'.found
    BY <1>5, TransactionsAreClean
  <2> QED
    BY <1>5, <2>1 DEF ReportSound, payVars, tables, Captured, HasRow
<1>6. CASE ReconcileEscrow
  <2> DEFINE rows == {o \in Orders : escrow[o] # "NONE" /\ txRow[o].booking \in operation.found}
  <2>1. operation.captured \ rows = {} /\ operation.issues \subseteq {"orphan_escrow_row"}
    BY <1>6 DEF ReconcileEscrow, Operating, ReportSound, BooksSound, EscrowAgrees
  <2>2. operation' = [task |-> "reconcile", pc |-> "report",
                      issues |-> operation.issues \cup EscrowIssues(rows)]
    BY <1>6 DEF ReconcileEscrow
  <2>3. EscrowIssues(rows) \subseteq {"orphan_escrow_row"}
    BY <2>1 DEF EscrowIssues
  <2> HIDE DEF rows
  <2>4. /\ operation'.issues \subseteq {"orphan_escrow_row"}
        /\ operation'.pc = "report"
    BY <2>1, <2>2, <2>3
  <2> QED
    BY <2>4 DEF ReportSound
<1>7. CASE \E b \in Bookings : RepairBooking(b)
  BY <1>3, <1>7 DEF RepairBooking
<1>8. CASE RepairTransactions
  <2>1. operation.task = "repair"
    BY <1>8 DEF RepairTransactions, Operating
  <2>2. operation' = [operation EXCEPT !.pc = "repair"] \/ operation' = Resting
    BY <1>8 DEF RepairTransactions
  <2>3. CASE operation' = [operation EXCEPT !.pc = "repair"]
    <3>1. operation'.task = operation.task
      BY <2>3
    <3> QED
      BY <1>3, <2>1, <3>1
  <2> QED
    BY <1>3, <2>2, <2>3 DEF Resting
<1>9. CASE Operate
  BY <1>3, <1>4, <1>5, <1>6, <1>7, <1>8, <1>9 DEF Operate, Reconcile, Repair, RepairState,
     SendReport, Resting
<1> QED
  BY <1>2, <1>3, <1>9 DEF BooksNext, booksVars, Resting

\* A report does not cry wolf: its three queries see three moments of tables that
\* payments keep writing, and yet it misses no escrow row, payment or deposit of a
\* capture (lib/payments/reconciliation.ts).
THEOREM ReportsAreFair == BooksSpec => []NoFalseAlarm
<1>1. BooksInit => ReportSound
  BY DEF BooksInit, ReportSound, Resting
<1>2. OperatedSound /\ ReportSound /\ [BooksNext]_booksVars => ReportSound'
  BY ReportStaysSound DEF OperatedSound, ServiceSound
<1>3. ReportSound => NoFalseAlarm
  BY DEF ReportSound, NoFalseAlarm
<1> QED
  BY <1>1, <1>2, <1>3, AlwaysOperatedSound, PTL DEF BooksSpec

\* A booking that is paid out stays so.  No repair, whatever it read before the
\* release, takes it back, and no request does, as long as requests are taken one
\* at a time (two that overlap can: the update goes by id alone).
THEOREM PayoutsAreFinal ==
    ASSUME \A q, r \in Requests : q = r
    PROVE  BooksSpec => PaidOutStaysPaidOut
<1>1. OperatedSound /\ NothingStale /\ [BooksNext]_booksVars =>
          [\A b \in Bookings : state[b] = "PAID_OUT" => state'[b] = "PAID_OUT"]_booksVars
  BY BooksNextIsNext, NextIsBooksStep, PaidOutIsFinal DEF OperatedSound, ServiceSound, BooksSound
<1>2. BooksSpec => [](NothingStale /\ OneFinal)
  BY OperatorsChangeNothing, AlwaysOneFinal
<1> QED
  BY <1>1, <1>2, AlwaysOperatedSound, PTL DEF BooksSpec, PaidOutStaysPaidOut

-----------------------------------------------------------------------------
(* What escrow has collected *)

\* The element that MapThenSumSet takes of a set.
First(s) == CHOOSE x \in s : TRUE

\* i is the sum of f over each subset of U, as MapThenSumSet computes it.
Sums(i, U, f) ==
    /\ i = [s \in SUBSET U |-> i[s]]
    /\ \A s \in SUBSET U :
          i[s] = IF s = {} THEN 0 ELSE f[First(s)] + i[s \ {First(s)}]

LEMMA FirstIsIn == \A s : s # {} => First(s) \in s
BY DEF First

\* Of some finite sets one has no other of them within.
LEMMA SmallestSet ==
    ASSUME NEW U, IsFiniteSet(U), NEW T \in SUBSET SUBSET U, T # {}
    PROVE  \E s \in T : \A t \in SUBSET s : t \in T => t = s
<1>1. T \subseteq FiniteSubsetsOf(U)
  BY FS_FiniteSubsetsOfFinite
<1>2. PICK s \in T : \A t \in T : <<t, s>> \notin StrictSubsetOrdering(U)
  BY <1>1, FS_StrictSubsetOrderingWellFounded, WFMin
<1> QED
  BY <1>2 DEF StrictSubsetOrdering

\* Two such functions agree where both are defined.
LEMMA SumsAgree ==
    ASSUME NEW U, IsFiniteSet(U), NEW f \in [U -> Nat], NEW V \in SUBSET U, NEW W \in SUBSET U,
           NEW i, Sums(i, V, f), NEW j, Sums(j, W, f),
           NEW s \in SUBSET V, s \in SUBSET W
    PROVE  i[s] = j[s]
<1> DEFINE T == {t \in SUBSET U : t \in SUBSET V /\ t \in SUBSET W /\ i[t] # j[t]}
<1>1. SUFFICES T = {}
  OBVIOUS
<1>2. SUFFICES ASSUME T # {} PROVE FALSE
  BY <1>1
<1>3. PICK t \in T : \A r \in SUBSET t : r \in T => r = t
  <2> HIDE DEF T
  <2> T \in SUBSET SUBSET U
    BY DEF T
  <2> QED
    BY <1>2, SmallestSet
<1>4. t # {}
  BY <1>3 DEF Sums
<1>5. /\ i[t] = f[First(t)] + i[t \ {First(t)}] 
      /\ j[t] = f[First(t)] + j[t \ {First(t)}]
  BY <1>3, <1>4 DEF Sums
<1>6. t \ {First(t)} \in SUBSET t /\ t \ {First(t)} # t
  BY <1>4, FirstIsIn
<1>7. i[t \ {First(t)}] = j[t \ {First(t)}]
  BY <1>3, <1>6
<1> QED
  BY <1>3, <1>5, <1>7

\* There is one for every finite set: sums over the smaller sets are put together.
LEMMA SumsExist ==
    ASSUME NEW U, IsFiniteSet(U), NEW f \in [U -> Nat]
    PROVE  \E i : Sums(i, U, f)
<1> DEFINE T == {t \in SUBSET U : ~ \E i : Sums(i, t, f)}
<1>1. SUFFICES ASSUME T # {} PROVE FALSE
  OBVIOUS
<1>2. PICK t \in T : \A r \in SUBSET t : r \in T => r = t
  <2> T \in SUBSET SUBSET U
    OBVIOUS
  <2> HIDE DEF T
  <2> QED
    BY <1>1, SmallestSet
<1>3. t \in SUBSET U /\ ~ \E i : Sums(i, t, f)
  BY <1>2
<1>4. \A r \in SUBSET t : r # t => \E i : Sums(i, r, f)
  BY <1>2
<1> HIDE DEF T
<1> DEFINE of(r)  == CHOOSE i : Sums(i, r, f)
           rest(r) == r \ {First(r)}
           i == [r \in SUBSET t |->
                   IF r = {} THEN 0
                   ELSE IF r = t THEN f[First(r)] + of(rest(r))[rest(r)] ELSE of(r)[r]]
<1>5. \A r \in SUBSET t : r # t => Sums(of(r), r, f)
  BY <1>4
<1>6. \A r \in SUBSET t : r # {} => /\ First(r) \in r /\ f[First(r)] \in Nat
                                    /\ rest(r) \in SUBSET r /\ rest(r) # r
                                    /\ rest(r) \in SUBSET t /\ rest(r) # t
  BY <1>3, FirstIsIn
<1> HIDE DEF of
<1>8. ASSUME NEW r \in SUBSET t, r # {}
      PROVE  i[r] = f[First(r)] + i[rest(r)]
  <2>1. i[rest(r)] = of(rest(r))[rest(r)]
    <3>1. CASE rest(r) = {}
      <4>1. of({})[{}] = 0
        BY <1>5, <1>6, <1>8, <3>1 DEF Sums
      <4> QED
        BY <3>1, <4>1
    <3>2. CASE rest(r) # {}
      BY <1>6, <1>8, <3>2
    <3> QED
      BY <3>1, <3>2
  <2>2. CASE r = t
    BY <1>8, <2>1, <2>2
  <2>3. CASE r # t
    <3>1. of(r)[r] = f[First(r)] + of(r)[rest(r)]
      BY <1>5, <1>8, <2>3 DEF Sums
    <3>2. of(r)[rest(r)] = of(rest(r))[rest(r)]
      <4>1. Sums(of(r), r, f) /\ Sums(of(rest(r)), rest(r), f)
        BY <1>5, <1>6, <1>8, <2>3
      <4>2. r \in SUBSET U /\ rest(r) \in SUBSET U /\ rest(r) \in SUBSET r
        BY <1>3, <1>6, <1>8
      <4> HIDE DEF rest
      <4> QED
        BY <4>1, <4>2, SumsAgree
    <3>3. i[r] = of(r)[r]
      BY <1>8, <2>3
    <3> QED
      BY <2>1, <3>1, <3>2, <3>3
  <2> QED
    BY <2>2, <2>3
<1>9. Sums(i, t, f)
  <2>0. i = [r \in SUBSET t |-> i[r]]
    OBVIOUS
  <2>1. i[{}] = 0
    OBVIOUS
  <2> HIDE DEF i
  <2> QED
    BY <1>8, <2>0, <2>1 DEF Sums
<1> QED
  BY <1>3, <1>9

\* A sum of amounts is no less than any two of them.
LEMMA SumBounds ==
    ASSUME NEW U, IsFiniteSet(U), NEW f \in [U -> Nat],
           NEW i, Sums(i, U, f)
    PROVE  i[U] \in Nat /\ \A a, b \in U : a # b => i[U] >= f[a] + f[b]
<1> DEFINE T == {t \in SUBSET U :
                    ~ /\ i[t] \in Nat
                      /\ \A a \in t : i[t] >= f[a]
                      /\ \A a, b \in t : a # b => i[t] >= f[a] + f[b]}
<1>1. SUFFICES ASSUME T # {} PROVE FALSE
  OBVIOUS
<1>2. PICK t \in T : \A r \in SUBSET t : r \in T => r = t
  <2> T \in SUBSET SUBSET U
    OBVIOUS
  <2> HIDE DEF T
  <2> QED
    BY <1>1, SmallestSet
<1>3. t # {}
  <2>1. t = {} => i[t] = 0
    BY DEF Sums
  <2> QED
    BY <1>2, <2>1
<1> DEFINE x == First(t)
           r == t \ {x}
<1>4. x \in t /\ r \in SUBSET t /\ r # t
  BY <1>3, FirstIsIn
<1> HIDE DEF x
<1>5. /\ \A a \in r : i[r] >= f[a]
      /\ \A a, b \in r : a # b => i[r] >= f[a] + f[b]
  BY <1>2, <1>4
<1>6. i[t] = f[x] + i[r]
  BY <1>2, <1>3 DEF Sums, x
<1>7. i[r] \in Nat /\ i[t] \in Nat /\ \A a \in t : f[a] \in Nat
  BY <1>2, <1>4, <1>6
<1>8. \A a \in t : a = x \/ a \in r
  OBVIOUS
<1>9. \A a \in t : i[t] >= f[a]
  BY <1>4, <1>5, <1>6, <1>7, <1>8
<1>10. \A a, b \in t : a # b => i[t] >= f[a] + f[b]
  BY <1>4, <1>5, <1>6, <1>7, <1>8
<1> QED
  BY <1>2, <1>7, <1>9, <1>10


\* Two orders of a booking with escrow, and more there may be.
LEMMA CollectedOfTwo ==
    ASSUME NEW b, \A o \in Orders : escrow[o] # "NONE" => GrossAmount(o) \in Nat,
           NEW o \in Orders, escrow[o] # "NONE", txRow[o].booking = b,
           NEW p \in Orders, escrow[p] # "NONE", txRow[p].booking = b, o # p
    PROVE  Collected(b) \in Nat /\ Collected(b) >= GrossAmount(o) + GrossAmount(p)
<1> DEFINE paid == {x \in Orders : escrow[x] # "NONE" /\ txRow[x].booking = b}
           f    == [x \in paid |-> GrossAmount(x)]
           sum  == CHOOSE i : i = [s \in SUBSET paid |->
                       IF s = {} THEN 0 ELSE GrossAmount(First(s)) + i[s \ {First(s)}]]
<1>1. Collected(b) = sum[paid]
  BY DEF Collected, MapThenSumSet, MapThenFoldSet, First
<1>2. IsFiniteSet(paid)
  BY OperationsAssumption, FS_Subset
<1>3. f \in [paid -> Nat]
  OBVIOUS
<1> HIDE DEF paid
<1>4. \A i : Sums(i, paid, f) <=> i = [s \in SUBSET paid |->
                  IF s = {} THEN 0 ELSE GrossAmount(First(s)) + i[s \ {First(s)}]]
  <2>1. \A s \in SUBSET paid : s # {} => f[First(s)] = GrossAmount(First(s))
    BY FirstIsIn
  <2> HIDE DEF f
  <2> QED
    BY <2>1 DEF Sums
<1>5. f[o] = GrossAmount(o) /\ f[p] = GrossAmount(p) /\ o \in paid /\ p \in paid
  BY DEF paid
<1> HIDE DEF f
<1>6. PICK i : Sums(i, paid, f)
  BY <1>2, <1>3, SumsExist
<1>7. Sums(sum, paid, f)
  BY <1>4, <1>6
<1> HIDE DEF sum
<1>8. sum[paid] \in Nat /\ sum[paid] >= f[o] + f[p]
  BY <1>2, <1>3, <1>5, <1>7, SumBounds
<1> QED
  BY <1>1, <1>5, <1>8

\* A provider's payout is paid for: its row follows the final payment, which
\* follows the deposit, and escrow has taken in both amounts; together they are
\* the price but for a fraction of a paisa (ensureProviderPayoutRowInTx).
THEOREM PayoutsAreCollected == BooksSpec => []PayoutIsCollected
<1>1. ASSUME OperatedSound, AmountsSound, PayoutsAgree
      PROVE  PayoutIsCollected
  <2> SUFFICES ASSUME NEW b \in Bookings, payoutStatus[b] # "NONE"
               PROVE  Collected(b) + (IF grain = 1 THEN 0 ELSE 1) >= PayoutAmount(b)
    BY DEF PayoutIsCollected
  <2>1. Settling(b, "FINAL") # {} /\ Settling(b, "DEPOSIT") # {}
    BY <1>1 DEF PayoutsAgree, OperatedSound, ServiceSound, BooksSound, LedgerAgrees, Evidenced,
       BookingEvidence
  <2>2. PICK o \in Settling(b, "DEPOSIT"), p \in Settling(b, "FINAL") : TRUE
    BY <2>1
  <2>3. /\ o \in Orders /\ escrow[o] # "NONE" /\ txRow[o].booking = b /\ txRow[o].stage = "DEPOSIT"
        /\ p \in Orders /\ escrow[p] # "NONE" /\ txRow[p].booking = b /\ txRow[p].stage = "FINAL"
        /\ o # p
    BY <1>1, <2>2 DEF Settling, OperatedSound, ServiceSound, BooksSound, EscrowAgrees
  <2>4. \A x \in Bookings :
            /\ amounts[x].deposit \in Nat /\ amounts[x].final \in Nat /\ amounts[x].estimated \in Nat
            /\ amounts[x].deposit + amounts[x].final - amounts[x].estimated \in Slack
    <3> TAKE x \in Bookings
    <3>1. 0 \in Slack
      BY DEF Slack
    <3>2. amounts[x] \in {NoAmounts} \cup
              {split \in [deposit : Nat, final : Nat, estimated : Nat] :
                  split.deposit + split.final - split.estimated \in Slack}
      BY <1>1 DEF AmountsSound
    <3>3. CASE amounts[x] = NoAmounts
      <4>1. 0 + 0 - 0 = 0
        OBVIOUS
      <4> QED
        BY <3>1, <3>3, <4>1 DEF NoAmounts
    <3>4. CASE amounts[x] # NoAmounts
      BY <3>2, <3>4
    <3> QED
      BY <3>3, <3>4
  <2>5. \A x \in Orders : escrow[x] # "NONE" => GrossAmount(x) \in Nat
    <3> SUFFICES ASSUME NEW x \in Orders, escrow[x] # "NONE"
                 PROVE  GrossAmount(x) \in Nat
      OBVIOUS
    <3>1. txRow[x].booking \in Bookings
      BY <1>1, RowType DEF OperatedSound, ServiceSound, BooksSound, EscrowAgrees, Captured
    <3> QED
      BY <2>4, <3>1 DEF GrossAmount
  <2>6. Collected(b) \in Nat /\ Collected(b) >= amounts[b].deposit + amounts[b].final
    <3>1. Collected(b) \in Nat /\ Collected(b) >= GrossAmount(o) + GrossAmount(p)
      BY <2>3, <2>5, CollectedOfTwo
    <3> QED
      BY <2>3, <3>1 DEF GrossAmount
  <2> QED
    BY <2>4, <2>6 DEF PayoutAmount, Slack
<1>2. BooksInit => AmountsSound
  BY DEF BooksInit, AmountsSound
<1>3. AmountsSound /\ [BooksNext]_booksVars => AmountsSound'
  BY AmountsStaySound
<1>4. BooksSpec => []PayoutsAgree
  BY OperatorsChangeNothing, PayoutRowsAgree
<1> QED
  BY <1>1, <1>2, <1>3, <1>4, AlwaysOperatedSound, PTL DEF BooksSpec

=============================================================================
