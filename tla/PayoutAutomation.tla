-------------------------- MODULE PayoutAutomation --------------------------
(***************************************************************************)
(* The payout of bookings whose final payment was captured:                *)
(* services/payoutAutomationService.ts (runs started by the two timers of  *)
(* jobs/paymentAutomationJob.ts and by the internal routes), next to       *)
(* releasePayout and the recovery routes, which operators call.            *)
(*                                                                         *)
(* executeSinglePayout keeps one transaction open across the transfer at   *)
(* Razorpay.  Its read takes no lock, its first update locks the payout    *)
(* row until the end, and a rollback does not take a transfer back.        *)
(***************************************************************************)
EXTENDS AdvisoryLock, FiniteSets

CONSTANTS Payouts,       \* bookings with a payout row, which has their id
          Workers,       \* slots for automation runs at a time
          None,          \* no payout, no connection
          outcomes,      \* what executeSinglePayout may find out about a payout
          MaxIncidents   \* bound on faults and status overrides by operators

\* "route": Route is on, the provider has a linked account and the amount is
\* positive; "manual": no Route, or no account yet; "invalid": nothing to pay;
\* "blocked": transfers are switched off, or a dry run.
ASSUME PayoutAssumption ==
    /\ IsFiniteSet(Workers)
    /\ Locks = Payouts \cup {"process-due", "retry-failed"}
    /\ {"process-due", "retry-failed"} \cap Payouts = {}
    /\ None \notin Payouts \cup Conns
    /\ outcomes \in [Payouts -> SUBSET {"route", "manual", "invalid", "blocked"}]
    /\ MaxIncidents \in Nat

VARIABLES
    state,             \* Booking.state
    payoutReleasedAt,  \* Booking.payoutReleasedAt is set
    payoutStatus,      \* ProviderPayout.status
    due,               \* payouts whose eligibleAt has passed
    payoutRows,        \* PAYOUT rows of PaymentTransaction, by key prefix
    escrowReleased,    \* EscrowTransaction.releasedAt is set
    transfers,         \* transfers that Razorpay made for the payout
    worker,            \* what each automation run is doing
    releasing,         \* releasePayout calls that passed their checks
    marking,           \* manuallyMarkPayoutReleased calls that are to move the booking
    incidents          \* failed statements, lost answers, crashes and status
                       \* overrides so far, at most MaxIncidents

bookingCols == <<state, payoutReleasedAt>>
rows == <<bookingCols, payoutStatus, payoutRows, escrowReleased>>
calls == <<releasing, marking>>
vars == <<lockVars, rows, due, transfers, worker, calls, incidents>>

-----------------------------------------------------------------------------
(* Runs *)

Jobs == {"process-due", "retry-failed"}

\* gated:    has the gate lock of the job, about to give it back;
\* list:     about to query the rows to work on;
\* next:     in the loop over the rows found, `todo` is what is left of them;
\* lock:     executeSinglePayout is called, about to try the payout's lock;
\* begin:    has it, about to open the transaction;
\* manual, invalid, blocked: no transfer is possible, about to note why;
\* route:    about to write PROCESSING;
\* transfer: PROCESSING is written, Razorpay is being called;
\* settle:   Razorpay made the transfer, the results are about to be written;
\* unlock:   the transaction is over, about to give the payout's lock back.
InTransaction == {"manual", "invalid", "blocked", "route", "transfer", "settle"}

Run == [pc   : {"gated", "list", "next", "lock", "begin", "unlock"} \cup InTransaction,
        job  : Jobs,
        todo : SUBSET Payouts,
        p    : Payouts \cup {None},
        conn : Conns \cup {None}]

Idle == [pc |-> "idle", p |-> None, conn |-> None]

At(w, pc) == worker[w].pc = pc

\* The connection is not reserved for an open transaction.
FreeConn(c) == \A w \in Workers : worker[w].conn # c

\* The payout row was written by an open transaction.
RowLocked(p) == \E w \in Workers : worker[w].p = p /\ worker[w].pc \in {"transfer", "settle"}

Incident == incidents < MaxIncidents /\ incidents' = incidents + 1

GoTo(w, pc) == worker' = [worker EXCEPT ![w].pc = pc]

\* The transaction has ended one way or the other; its connection is free.
EndTransaction(w) ==
    worker' = [worker EXCEPT ![w].pc = "unlock", ![w].conn = None]

\* To the next row of the loop, or to the end of the run.
Continue(w) ==
    worker' = [worker EXCEPT ![w] =
        IF @.todo = {} THEN Idle ELSE [@ EXCEPT !.pc = "next", !.p = None]]

\* The gate lock guards no work: it is given back before the rows are listed.
\* A run that is refused the gate ends there.
StartRun(w, job) ==
    /\ At(w, "idle")
    /\ \E c \in Conns :
          /\ FreeConn(c)
          /\ \/ /\ Acquire(job, c)
                /\ worker' = [worker EXCEPT ![w] =
                       [pc |-> "gated", job |-> job, todo |-> {}, p |-> None, conn |-> None]]
             \/ /\ Refuse(job, c)
                /\ UNCHANGED worker
    /\ UNCHANGED <<rows, due, transfers, calls, incidents>>

LeaveGate(w) ==
    /\ At(w, "gated")
    /\ \E c \in Conns : FreeConn(c) /\ Release(worker[w].job, c)
    /\ GoTo(w, "list")
    /\ UNCHANGED <<rows, due, transfers, calls, incidents>>

Listed(job) ==
    {p \in Payouts :
        \/ job = "process-due" /\ payoutStatus[p] = "READY_AFTER_DISPUTE_WINDOW" /\ p \in due
        \/ job = "retry-failed" /\ payoutStatus[p] = "RETRYABLE_FAILED"}

ListRows(w) ==
    /\ At(w, "list")
    /\ LET found == Listed(worker[w].job) IN
       worker' = [worker EXCEPT ![w] =
           IF found = {} THEN Idle ELSE [@ EXCEPT !.pc = "next", !.todo = found]]
    /\ UNCHANGED <<lockVars, rows, due, transfers, calls, incidents>>

\* Mutant of Reopen: the retry run does not reset the status.
ReopenNothing(p) == UNCHANGED payoutStatus

\* The retry run resets the row it listed, by id, with no lock.
Reopen(p) == payoutStatus' = [payoutStatus EXCEPT ![p] = "READY_AFTER_DISPUTE_WINDOW"]

Pick(w, p) ==
    /\ At(w, "next")
    /\ p \in worker[w].todo
    /\ \/ /\ worker[w].job = "process-due"
          /\ UNCHANGED payoutStatus
       \/ /\ worker[w].job = "retry-failed"
          /\ ~RowLocked(p)
          /\ Reopen(p)
    /\ worker' = [worker EXCEPT ![w].pc = "lock", ![w].p = p, ![w].todo = @ \ {p}]
    /\ UNCHANGED <<lockVars, bookingCols, payoutRows, escrowReleased, due, transfers,
                   calls, incidents>>

-----------------------------------------------------------------------------
(* executeSinglePayout *)

TryLock(w) ==
    /\ At(w, "lock")
    /\ \E c \in Conns :
          /\ FreeConn(c)
          /\ \/ Acquire(worker[w].p, c) /\ GoTo(w, "begin")
             \/ Refuse(worker[w].p, c) /\ Continue(w)
    /\ UNCHANGED <<rows, due, transfers, calls, incidents>>

\* Mutant of Ready: isDueForPayout is not asked again.
ReadyAsListed(p) ==
    payoutStatus[p] = "READY_AFTER_DISPUTE_WINDOW" /\ state[p] = "PAYOUT_PENDING"

\* Mutant of Ready: the booking's state is not looked at.
ReadyAnyBooking(p) ==
    payoutStatus[p] = "READY_AFTER_DISPUTE_WINDOW" /\ p \in due

Ready(p) ==
    /\ payoutStatus[p] = "READY_AFTER_DISPUTE_WINDOW"
    /\ p \in due
    /\ state[p] = "PAYOUT_PENDING"

\* The transaction reads the payout and its booking and decides.
ReadPayout(w) ==
    LET p == worker[w].p IN
    /\ At(w, "begin")
    /\ \E c \in Conns :
          /\ FreeConn(c)
          /\ \/ /\ ~Ready(p)
                /\ GoTo(w, "unlock")
             \/ /\ Ready(p)
                /\ \E found \in outcomes[p] :
                      worker' = [worker EXCEPT ![w].pc = found, ![w].conn = c]
    /\ UNCHANGED <<lockVars, rows, due, transfers, calls, incidents>>

\* The transaction commits without a transfer; a blocked payout stays as it is.
Divert(w) ==
    LET p == worker[w].p IN
    /\ \/ /\ At(w, "manual")
          /\ ~RowLocked(p)
          /\ payoutStatus' = [payoutStatus EXCEPT ![p] = "MANUAL_PENDING"]
       \/ /\ At(w, "invalid")
          /\ ~RowLocked(p)
          /\ payoutStatus' = [payoutStatus EXCEPT ![p] = "RETRYABLE_FAILED"]
       \/ /\ At(w, "blocked")
          /\ UNCHANGED payoutStatus
    /\ EndTransaction(w)
    /\ UNCHANGED <<lockVars, bookingCols, payoutRows, escrowReleased, due, transfers,
                   calls, incidents>>

\* PROCESSING is seen by nobody else before the commit, which overwrites it;
\* what the update does is to lock the row.
MarkProcessing(w) ==
    /\ At(w, "route")
    /\ ~RowLocked(worker[w].p)
    /\ GoTo(w, "transfer")
    /\ UNCHANGED <<lockVars, rows, due, transfers, calls, incidents>>

CountTransfer(w) == transfers' = [transfers EXCEPT ![worker[w].p] = @ + 1]

TransferMade(w) ==
    /\ At(w, "transfer")
    /\ CountTransfer(w)
    /\ GoTo(w, "settle")
    /\ UNCHANGED <<lockVars, rows, due, calls, incidents>>

\* The catch block inside the transaction: the row may be retried.
MarkRetryable(w) ==
    /\ payoutStatus' = [payoutStatus EXCEPT ![worker[w].p] = "RETRYABLE_FAILED"]
    /\ EndTransaction(w)
    /\ UNCHANGED <<lockVars, payoutRows, escrowReleased, due, calls>>

TransferRefused(w) ==
    /\ At(w, "transfer")
    /\ MarkRetryable(w)
    /\ UNCHANGED <<bookingCols, transfers, incidents>>

\* Razorpay made the transfer, but its answer did not arrive.
TransferUnanswered(w) ==
    /\ At(w, "transfer")
    /\ Incident
    /\ CountTransfer(w)
    /\ MarkRetryable(w)
    /\ UNCHANGED bookingCols

\* Mutant of PayOut: escrow is left to a later job.
PayOutOnly(p, key) ==
    /\ state' = [state EXCEPT ![p] = "PAID_OUT"]
    /\ payoutReleasedAt' = [payoutReleasedAt EXCEPT ![p] = TRUE]
    /\ payoutStatus' = [payoutStatus EXCEPT ![p] = "RELEASED"]
    /\ payoutRows' = [payoutRows EXCEPT ![p] = @ \cup {key}]
    /\ UNCHANGED escrowReleased

\* Mutant of PayOut: the payout gets the status of the booking.
PayOutSameStatus(p, key) ==
    /\ state' = [state EXCEPT ![p] = "PAID_OUT"]
    /\ payoutReleasedAt' = [payoutReleasedAt EXCEPT ![p] = TRUE]
    /\ payoutStatus' = [payoutStatus EXCEPT ![p] = "PAID_OUT"]
    /\ payoutRows' = [payoutRows EXCEPT ![p] = @ \cup {key}]
    /\ escrowReleased' = [escrowReleased EXCEPT ![p] = TRUE]

\* The writes that releasePayout and the automation both make.
PayOut(p, key) ==
    /\ state' = [state EXCEPT ![p] = "PAID_OUT"]
    /\ payoutReleasedAt' = [payoutReleasedAt EXCEPT ![p] = TRUE]
    /\ payoutStatus' = [payoutStatus EXCEPT ![p] = "RELEASED"]
    /\ payoutRows' = [payoutRows EXCEPT ![p] = @ \cup {key}]
    /\ escrowReleased' = [escrowReleased EXCEPT ![p] = TRUE]

\* transitionBookingState finds PAYOUT_PENDING; everything commits.
Settle(w) ==
    /\ At(w, "settle")
    /\ state[worker[w].p] = "PAYOUT_PENDING"
    /\ PayOut(worker[w].p, "payout-auto")
    /\ EndTransaction(w)
    /\ UNCHANGED <<lockVars, due, transfers, calls, incidents>>

\* transitionBookingState throws: PAID_OUT is final.
SettleRejected(w) ==
    /\ At(w, "settle")
    /\ state[worker[w].p] # "PAYOUT_PENDING"
    /\ MarkRetryable(w)
    /\ UNCHANGED <<bookingCols, transfers, incidents>>

\* The audit row is written on another connection.  When that fails, the catch
\* block runs with the transaction intact: of a release half the writes commit.
AuditFails(w) ==
    LET p == worker[w].p IN
    /\ Incident
    /\ \/ /\ At(w, "blocked")
          /\ ~RowLocked(p)
          /\ UNCHANGED bookingCols
       \/ /\ At(w, "settle")
          /\ state[p] = "PAYOUT_PENDING"
          /\ state' = [state EXCEPT ![p] = "PAID_OUT"]
          /\ payoutReleasedAt' = [payoutReleasedAt EXCEPT ![p] = TRUE]
    /\ MarkRetryable(w)
    /\ UNCHANGED transfers

GiveBack(w) ==
    /\ At(w, "unlock")
    /\ \E c \in Conns : FreeConn(c) /\ Release(worker[w].p, c)
    /\ Continue(w)
    /\ UNCHANGED <<rows, due, transfers, calls, incidents>>

-----------------------------------------------------------------------------
(* Operators *)

\* releasePayout: its checks, then its writes.  They wait for the row lock, and
\* a second call overlapping with this one is refused by the unique key
\* payout-<bookingId>, so one call per booking is enough.
BeginRelease(p) ==
    /\ p \notin releasing
    /\ state[p] = "PAYOUT_PENDING"
    /\ releasing' = releasing \cup {p}
    /\ UNCHANGED <<lockVars, rows, due, transfers, worker, marking, incidents>>

CommitRelease(p) ==
    /\ p \in releasing
    /\ ~RowLocked(p)
    /\ PayOut(p, "payout")
    /\ releasing' = releasing \ {p}
    /\ UNCHANGED <<lockVars, due, transfers, worker, marking, incidents>>

\* A statement fails, or PostgreSQL ends a deadlock with an automation run.
AbortRelease(p) ==
    /\ p \in releasing
    /\ releasing' = releasing \ {p}
    /\ UNCHANGED <<lockVars, rows, due, transfers, worker, marking, incidents>>

\* manuallyMarkPayoutReleased reads the booking before its transaction, and by
\* that decides whether the transaction is to move the booking first.
BeginMark(p) ==
    /\ p \notin marking
    /\ state[p] = "PAYOUT_PENDING"
    /\ marking' = marking \cup {p}
    /\ UNCHANGED <<lockVars, rows, due, transfers, worker, releasing, incidents>>

\* The writes of its transaction, by id.
MarkReleased(p) ==
    /\ ~RowLocked(p)
    /\ state' = [state EXCEPT ![p] = "PAID_OUT"]
    /\ payoutReleasedAt' = [payoutReleasedAt EXCEPT ![p] = TRUE]
    /\ payoutStatus' = [payoutStatus EXCEPT ![p] = "RELEASED"]
    /\ UNCHANGED <<lockVars, payoutRows, escrowReleased, due, transfers, worker, releasing,
                   incidents>>

\* transitionBookingState finds the booking where the call has seen it.
CommitMark(p) ==
    /\ p \in marking
    /\ state[p] = "PAYOUT_PENDING"
    /\ MarkReleased(p)
    /\ marking' = marking \ {p}

\* A call that sees the booking paid out, which is final, writes the rest again.
MarkAgain(p) ==
    /\ state[p] = "PAID_OUT"
    /\ MarkReleased(p)
    /\ UNCHANGED marking

\* transitionBookingState throws, since the booking was paid out meanwhile, or
\* as AbortRelease.
AbortMark(p) ==
    /\ p \in marking
    /\ marking' = marking \ {p}
    /\ UNCHANGED <<lockVars, rows, due, transfers, worker, releasing, incidents>>

\* manuallySetPayoutStatus, and the forced failure of failureSimulation.ts.
SetStatus(p, status) ==
    /\ ~RowLocked(p)
    /\ Incident
    /\ payoutStatus' = [payoutStatus EXCEPT ![p] = status]
    /\ UNCHANGED <<lockVars, bookingCols, payoutRows, escrowReleased, due, transfers, worker,
                   calls>>

-----------------------------------------------------------------------------
(* The dispute window, faults *)

WindowEnds(p) ==
    /\ p \notin due
    /\ due' = due \cup {p}
    /\ UNCHANGED <<lockVars, rows, transfers, worker, calls, incidents>>

\* What is left to do after an error.  processDueProviderPayouts catches the error
\* of one payout and goes on, unless the audit row of the error cannot be written
\* either; any error ends the retry run.
Rest(run) == {{}} \cup IF run.job = "process-due" THEN {run.todo} ELSE {}

\* An open transaction rolls back and `finally` still gives the lock back.
AfterError(run, rest) ==
    CASE run.pc \in InTransaction \cup {"begin"} ->
             [run EXCEPT !.pc = "unlock", !.conn = None, !.todo = rest]
      [] run.pc \in {"lock", "unlock"} /\ rest # {} ->
             [run EXCEPT !.pc = "next", !.p = None]
      [] OTHER -> Idle

\* A statement fails, or the transaction has been open for too long.
FailRun(w) ==
    /\ ~At(w, "idle")
    /\ At(w, "next") => worker[w].job = "retry-failed"
    /\ Incident
    /\ \E rest \in Rest(worker[w]) : worker' = [worker EXCEPT ![w] = AfterError(@, rest)]
    /\ UNCHANGED <<lockVars, rows, due, transfers, calls>>

NoCalls == releasing' = {} /\ marking' = {}

Crash ==
    /\ Incident
    /\ worker' = [w \in Workers |-> Idle]
    /\ NoCalls
    /\ ReleaseAll
    /\ UNCHANGED <<rows, due, transfers>>

-----------------------------------------------------------------------------

Init ==
    /\ LockInit
    /\ state = [p \in Payouts |-> "PAYOUT_PENDING"]
    /\ payoutReleasedAt = [p \in Payouts |-> FALSE]
    /\ payoutStatus = [p \in Payouts |-> "READY_AFTER_DISPUTE_WINDOW"]
    /\ due = {}
    /\ payoutRows = [p \in Payouts |-> {}]
    /\ escrowReleased = [p \in Payouts |-> FALSE]
    /\ transfers = [p \in Payouts |-> 0]
    /\ worker = [w \in Workers |-> Idle]
    /\ releasing = {}
    /\ marking = {}
    /\ incidents = 0

Progress(w) ==
    \/ LeaveGate(w)
    \/ ListRows(w)
    \/ \E p \in Payouts : Pick(w, p)
    \/ TryLock(w)
    \/ ReadPayout(w)
    \/ Divert(w)
    \/ MarkProcessing(w)
    \/ TransferMade(w)
    \/ TransferRefused(w)
    \/ Settle(w)
    \/ SettleRejected(w)
    \/ GiveBack(w)

Operate(p) ==
    \/ BeginRelease(p)
    \/ CommitRelease(p)
    \/ AbortRelease(p)
    \/ BeginMark(p)
    \/ CommitMark(p)
    \/ MarkAgain(p)
    \/ AbortMark(p)
    \/ \E status \in {"RETRYABLE_FAILED", "READY_AFTER_DISPUTE_WINDOW"} : SetStatus(p, status)

Next ==
    \/ \E w \in Workers :
          \/ \E job \in Jobs : StartRun(w, job)
          \/ Progress(w)
          \/ TransferUnanswered(w)
          \/ AuditFails(w)
          \/ FailRun(w)
    \/ \E p \in Payouts : Operate(p) \/ WindowEnds(p)
    \/ Crash

Spec == Init /\ [][Next]_vars

-----------------------------------------------------------------------------
(* Properties *)

PayoutTypeOK ==
    /\ LockTypeOK
    /\ state \in [Payouts -> {"PAYOUT_PENDING", "PAID_OUT"}]
    /\ payoutReleasedAt \in [Payouts -> BOOLEAN]
    /\ payoutStatus \in [Payouts -> {"READY_AFTER_DISPUTE_WINDOW", "RELEASED",
                                     "MANUAL_PENDING", "RETRYABLE_FAILED"}]
    /\ due \subseteq Payouts
    /\ payoutRows \in [Payouts -> SUBSET {"payout", "payout-auto"}]
    /\ escrowReleased \in [Payouts -> BOOLEAN]
    /\ transfers \in [Payouts -> Nat]
    /\ worker \in [Workers -> Run \cup {Idle}]
    /\ releasing \subseteq Payouts /\ marking \subseteq Payouts
    /\ incidents \in 0 .. MaxIncidents

\* isDueForPayout: Razorpay is never asked for a transfer before the dispute
\* window of 24 hours has ended, whatever an operator sets the status to.
NoTransferInDisputeWindow ==
    \A p \in Payouts : transfers[p] > 0 => p \in due

\* What each row says when it says that money was released: a payout that is
\* RELEASED belongs to a booking that is paid out, escrow is released with a PAYOUT
\* row, which stands for a booking that is paid out, and payout-auto for a transfer
\* that Razorpay made.  Not the converse: a booking that is paid out may have a
\* payout that is still to be tried, and escrow that is not released.
PayoutRowsAgree ==
    \A p \in Payouts :
        /\ payoutStatus[p] = "RELEASED" => state[p] = "PAID_OUT"
        /\ state[p] = "PAID_OUT" <=> payoutReleasedAt[p]
        /\ escrowReleased[p] <=> payoutRows[p] # {}
        /\ payoutRows[p] # {} => state[p] = "PAID_OUT"
        /\ "payout-auto" \in payoutRows[p] => transfers[p] > 0

\* Overlapping runs and faults may repeat a transfer, but a paid booking takes
\* no new ones: at most one per run in flight and one per incident.
TransfersBounded ==
    \A p \in Payouts : transfers[p] <= Cardinality(Workers) + incidents

\* The runs between the grant of a lock and the query that gives it back.
Holders(l) ==
    {w \in Workers :
        \/ At(w, "gated") /\ worker[w].job = l
        \/ worker[w].pc \in {"begin", "unlock"} \cup InTransaction /\ worker[w].p = l}

\* Every run inside a locked section is covered by the lock: one session has it,
\* once per such run at least, so runs on other sessions are shut out until the
\* last of them has given it back.
HoldersAreCovered ==
    /\ OneSession
    /\ \A l \in Locks : Holders(l) # {} =>
          \E c \in Conns : held[l][c] >= Cardinality(Holders(l))

\* An unlock missed or failed, and the session keeps a lock nobody will return.
LockLeftBehind ==
    \E l \in Locks, c \in Conns : held[l][c] > Cardinality(Holders(l))

\* "Advisory locking prevents duplicate side effects": at most one transfer.
TransferredOnce == \A p \in Payouts : transfers[p] <= 1

=============================================================================
