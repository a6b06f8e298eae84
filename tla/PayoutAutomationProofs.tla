----------------------- MODULE PayoutAutomationProofs -----------------------
(***************************************************************************)
(* What holds of PayoutAutomation for any payouts, runs and connections    *)
(* and any number of incidents.                                            *)
(***************************************************************************)
EXTENDS PayoutAutomation, FiniteSetTheorems, TLAPS

Located == {"lock", "begin", "unlock"} \cup InTransaction

\* What a run knows that has got as far as working on one payout: which one it
\* is; in the transaction, that the dispute window had ended; after Razorpay's
\* answer, that there is a transfer.
RunSound(run, d, t) ==
    /\ run.pc \in Located => run.p \in Payouts
    /\ run.pc \in InTransaction => run.p \in d
    /\ run.pc = "settle" => t[run.p] > 0

RunsSound == \A w \in Workers : RunSound(worker[w], due, transfers)

PayoutInv ==
    /\ PayoutTypeOK
    /\ RunsSound
    /\ NoTransferInDisputeWindow
    /\ PayoutRowsAgree

-----------------------------------------------------------------------------
(* Locks and runs *)

\* Whatever happens to one lock, the lock variables keep their types.
LEMMA LockStep ==
    ASSUME LockTypeOK, NEW l \in Locks, NEW c \in Conns,
           Acquire(l, c) \/ Refuse(l, c) \/ Release(l, c)
    PROVE  LockTypeOK'
BY LockAssumption DEF LockTypeOK, Acquire, Refuse, Release, Unheld, lockVars

\* The run of a slot that is not idle is a proper record.
LEMMA RunType ==
    ASSUME PayoutTypeOK, NEW w \in Workers, worker[w].pc # "idle"
    PROVE  worker[w] \in Run
BY DEF PayoutTypeOK, Idle

\* What a run knows stays true: windows do not reopen, transfers are not undone.
LEMMA KnowledgeKept ==
    ASSUME PayoutTypeOK, NEW run, RunSound(run, due, transfers),
           due \subseteq due',
           \A p \in Payouts : transfers[p] > 0 => transfers'[p] > 0
    PROVE  RunSound(run, due', transfers')
BY DEF RunSound, Located, InTransaction

\* The step of one run: its new record is a proper and a sound one.
LEMMA RunStep ==
    ASSUME PayoutInv, NEW w \in Workers,
           (\E job \in Jobs : StartRun(w, job)) \/ Progress(w) \/ TransferUnanswered(w)
               \/ AuditFails(w) \/ FailRun(w)
    PROVE  /\ worker' \in [Workers -> Run \cup {Idle}]
           /\ RunsSound'
<1> DEFINE step(run) == /\ run \in Run \cup {Idle}
                        /\ RunSound(run, due', transfers')
                        /\ worker' = [worker EXCEPT ![w] = run]
<1> USE DEF PayoutInv
<1>1. due' = due
  BY DEF Progress, StartRun, LeaveGate, ListRows, Pick, TryLock, ReadPayout, Divert,
     MarkProcessing, TransferMade, TransferRefused, TransferUnanswered, MarkRetryable,
     AuditFails, Settle, SettleRejected, GiveBack, FailRun
<1>2. \A p \in Payouts : transfers[p] > 0 => transfers'[p] > 0
  <2>1. \/ UNCHANGED transfers
        \/ CountTransfer(w)
    BY DEF Progress, StartRun, LeaveGate, ListRows, Pick, TryLock, ReadPayout, Divert,
       MarkProcessing, TransferMade, TransferRefused, TransferUnanswered, AuditFails,
       Settle, SettleRejected, GiveBack, FailRun
  <2> QED
    BY <2>1 DEF CountTransfer, PayoutTypeOK
<1>3. SUFFICES \E run : step(run)
  <2>1. PICK run : step(run)
    BY <1>3
  <2>2. worker' \in [Workers -> Run \cup {Idle}]
    BY <2>1 DEF PayoutTypeOK
  <2>3. ASSUME NEW v \in Workers
        PROVE  RunSound(worker'[v], due', transfers')
    <3>1. CASE v = w
      BY <2>1, <3>1 DEF PayoutTypeOK
    <3>2. CASE v # w
      <4>1. worker'[v] = worker[v]
        BY <2>1, <3>2 DEF PayoutTypeOK
      <4> QED
        BY <4>1, <1>1, <1>2, KnowledgeKept DEF RunsSound
    <3> QED
      BY <3>1, <3>2
  <2> QED
    BY <2>2, <2>3 DEF RunsSound
<1>4. RunSound(worker[w], due', transfers')
  BY <1>1, <1>2, KnowledgeKept DEF RunsSound
<1>5. Idle \in Run \cup {Idle} /\ RunSound(Idle, due', transfers')
  BY DEF RunSound, Idle, Located, InTransaction
<1>6. ASSUME NEW job \in Jobs, StartRun(w, job)
      PROVE  \E run : step(run)
  <2>1. CASE UNCHANGED worker
    <3>1. step(Idle) \/ step(worker[w])
      BY <2>1, <1>4 DEF PayoutTypeOK
    <3> QED
      BY <3>1
  <2>2. CASE worker' = [worker EXCEPT ![w] = [pc |-> "gated", job |-> job, todo |-> {},
                                              p |-> None, conn |-> None]]
    <3> DEFINE started == [pc |-> "gated", job |-> job, todo |-> {}, p |-> None, conn |-> None]
    <3>1. step(started)
      BY <2>2 DEF Run, RunSound, Located, InTransaction
    <3> QED
      BY <3>1
  <2> QED
    BY <1>6, <2>1, <2>2 DEF StartRun
<1>7. CASE ~At(w, "idle") /\ ~\E job \in Jobs : StartRun(w, job)
  <2> DEFINE r == worker[w]
  <2>1. r \in Run /\ r.todo \in SUBSET Payouts
    BY <1>7, RunType DEF At, Run
  <2>2. CASE LeaveGate(w) \/ MarkProcessing(w)
    <3>1. step([r EXCEPT !.pc = "list"]) \/ step([r EXCEPT !.pc = "transfer"])
      BY <2>1, <2>2, <1>4 DEF LeaveGate, MarkProcessing, GoTo, At, Run, RunSound, Located,
         InTransaction
    <3> QED
      BY <3>1
  <2>3. CASE ListRows(w)
    <3> DEFINE found == Listed(r.job)
    <3>1. found \in SUBSET Payouts
      BY DEF Listed
    <3>2. step(Idle) \/ step([r EXCEPT !.pc = "next", !.todo = found])
      BY <2>1, <2>3, <3>1, <1>5 DEF ListRows, Run, RunSound, Located, InTransaction
    <3> QED
      BY <3>2
  <2>4. ASSUME NEW p \in Payouts, Pick(w, p)
        PROVE  \E run : step(run)
    <3>1. step([r EXCEPT !.pc = "lock", !.p = p, !.todo = @ \ {p}])
      BY <2>1, <2>4 DEF Pick, Run, RunSound, Located, InTransaction
    <3> QED
      BY <3>1
  <2>5. Continue(w) => \E run : step(run)
    <3>1. ASSUME Continue(w)
          PROVE  step(Idle) \/ step([r EXCEPT !.pc = "next", !.p = None])
      BY <2>1, <3>1, <1>5 DEF Continue, Run, RunSound, Located, InTransaction
    <3> QED
      BY <3>1
  <2>6. CASE TryLock(w)
    <3>1. GoTo(w, "begin") => step([r EXCEPT !.pc = "begin"])
      BY <2>1, <2>6, <1>4 DEF TryLock, GoTo, At, Run, RunSound, Located, InTransaction
    <3> QED
      BY <2>5, <2>6, <3>1 DEF TryLock
  <2>7. CASE ReadPayout(w)
    <3>1. GoTo(w, "unlock") => step([r EXCEPT !.pc = "unlock"])
      BY <2>1, <2>7, <1>4 DEF ReadPayout, GoTo, At, Run, RunSound, Located, InTransaction
    <3>2. ASSUME NEW c \in Conns, NEW found \in outcomes[r.p], Ready(r.p),
                 worker' = [worker EXCEPT ![w].pc = found, ![w].conn = c]
          PROVE  step([r EXCEPT !.pc = found, !.conn = c])
      <4>1. r.p \in Payouts
        BY <2>7, <1>4 DEF ReadPayout, At, RunSound, Located
      <4>2. found \in {"manual", "invalid", "route", "blocked"}
        BY <4>1, PayoutAssumption
      <4> QED
        BY <2>1, <3>2, <4>1, <4>2, <1>1 DEF Ready, Run, RunSound, Located, InTransaction
    <3> QED
      BY <2>7, <3>1, <3>2 DEF ReadPayout
  <2>8. EndTransaction(w) /\ r.pc \in InTransaction => \E run : step(run)
    <3>1. ASSUME EndTransaction(w), r.pc \in InTransaction
          PROVE  step([r EXCEPT !.pc = "unlock", !.conn = None])
      BY <2>1, <3>1, <1>4 DEF EndTransaction, Run, RunSound, Located, InTransaction
    <3> QED
      BY <3>1
  <2>9. CASE \/ Divert(w) \/ TransferRefused(w) \/ TransferUnanswered(w)
             \/ Settle(w) \/ SettleRejected(w) \/ AuditFails(w)
    BY <2>8, <2>9 DEF Divert, TransferRefused, TransferUnanswered, MarkRetryable, Settle,
       SettleRejected, AuditFails, At, InTransaction
  <2>10. CASE TransferMade(w)
    <3>1. r.p \in Payouts /\ transfers'[r.p] > 0
      BY <2>10, <1>4 DEF TransferMade, CountTransfer, At, RunSound, Located, InTransaction,
         PayoutTypeOK
    <3>2. step([r EXCEPT !.pc = "settle"])
      BY <2>1, <2>10, <3>1, <1>4 DEF TransferMade, GoTo, At, Run, RunSound, Located,
         InTransaction
    <3> QED
      BY <3>2
  <2>11. CASE GiveBack(w)
    BY <2>5, <2>11 DEF GiveBack
  <2>12. CASE FailRun(w)
    <3>1. PICK rest \in Rest(r) : worker' = [worker EXCEPT ![w] = AfterError(r, rest)]
      BY <2>12 DEF FailRun
    <3>2. rest \in SUBSET Payouts
      BY <2>1, <3>1 DEF Rest
    <3>3. AfterError(r, rest) \in Run \cup {Idle}
      BY <2>1, <3>2 DEF AfterError, Run
    <3>4. RunSound(AfterError(r, rest), due', transfers')
      BY <2>1, <1>4, <1>5 DEF AfterError, Run, RunSound, Located, InTransaction
    <3>5. step(AfterError(r, rest))
      BY <3>1, <3>3, <3>4
    <3> QED
      BY <3>5
  <2> QED
    BY <1>7, <2>2, <2>3, <2>4, <2>6, <2>7, <2>9, <2>10, <2>11, <2>12 DEF Progress
<1> QED
  BY <1>6, <1>7 DEF Progress, At, LeaveGate, ListRows, Pick, TryLock, ReadPayout, Divert,
     MarkProcessing, TransferMade, TransferRefused, TransferUnanswered, Settle,
     SettleRejected, GiveBack, AuditFails, FailRun

-----------------------------------------------------------------------------
(* The rows *)

RowTypes ==
    /\ state \in [Payouts -> {"PAYOUT_PENDING", "PAID_OUT"}]
    /\ payoutReleasedAt \in [Payouts -> BOOLEAN]
    /\ payoutStatus \in [Payouts -> {"READY_AFTER_DISPUTE_WINDOW", "RELEASED",
                                     "MANUAL_PENDING", "RETRYABLE_FAILED"}]
    /\ payoutRows \in [Payouts -> SUBSET {"payout", "payout-auto"}]
    /\ escrowReleased \in [Payouts -> BOOLEAN]

RowsHold == RowTypes /\ PayoutRowsAgree

\* Another transfer makes none of the rows wrong.
LEMMA TransferKeepsRows ==
    ASSUME RowsHold, UNCHANGED rows,
           \A p \in Payouts : transfers[p] > 0 => transfers'[p] > 0
    PROVE  RowsHold'
BY DEF RowsHold, RowTypes, PayoutRowsAgree, rows, bookingCols

\* A status may change to any but RELEASED on its own.
LEMMA StatusChange ==
    ASSUME RowsHold, NEW p \in Payouts,
           NEW status \in {"READY_AFTER_DISPUTE_WINDOW", "MANUAL_PENDING", "RETRYABLE_FAILED"},
           payoutStatus' = [payoutStatus EXCEPT ![p] = status],
           UNCHANGED <<bookingCols, payoutRows, escrowReleased>>,
           \A q \in Payouts : transfers[q] > 0 => transfers'[q] > 0
    PROVE  RowsHold'
BY DEF RowsHold, RowTypes, PayoutRowsAgree, bookingCols

\* The writes of a release agree with each other.
LEMMA PayOutAgrees ==
    ASSUME RowsHold, NEW p \in Payouts, NEW key \in {"payout", "payout-auto"},
           PayOut(p, key), UNCHANGED transfers,
           key = "payout-auto" => transfers[p] > 0
    PROVE  RowsHold'
BY DEF RowsHold, RowTypes, PayoutRowsAgree, PayOut

\* The rows agree after every step of a run: it writes RELEASED only together
\* with everything else, and only when it knows of a transfer.
LEMMA RowsStepOfRun ==
    ASSUME PayoutInv, NEW w \in Workers,
           (\E job \in Jobs : StartRun(w, job)) \/ Progress(w) \/ TransferUnanswered(w)
               \/ AuditFails(w) \/ FailRun(w)
    PROVE  RowsHold'
<1> DEFINE p == worker[w].p
<1>1. RowsHold /\ RunSound(worker[w], due, transfers)
  BY DEF PayoutInv, RowsHold, RowTypes, PayoutTypeOK, RunsSound
<1>2. CountTransfer(w) => \A q \in Payouts : transfers[q] > 0 => transfers'[q] > 0
  BY DEF CountTransfer, PayoutInv, PayoutTypeOK
<1>3. CASE UNCHANGED <<rows, transfers>>
  BY <1>1, <1>3, TransferKeepsRows
<1>4. CASE TransferMade(w)
  BY <1>1, <1>2, <1>4, TransferKeepsRows DEF TransferMade
<1>5. ASSUME NEW q \in Payouts, Pick(w, q)
      PROVE  RowsHold'
  <2>1. CASE UNCHANGED payoutStatus
    BY <1>1, <1>5, <2>1, TransferKeepsRows DEF Pick, rows
  <2>2. CASE Reopen(q)
    BY <1>1, <1>5, <2>2, StatusChange DEF Pick, Reopen
  <2> QED
    BY <1>5, <2>1, <2>2 DEF Pick
<1>6. CASE Divert(w)
  <2>1. p \in Payouts
    BY <1>1, <1>6 DEF Divert, At, RunSound, Located, InTransaction
  <2>2. CASE UNCHANGED payoutStatus
    BY <1>3, <1>6, <2>2 DEF Divert, rows
  <2> QED
    BY <1>1, <1>6, <2>1, <2>2, StatusChange DEF Divert
<1>7. CASE TransferRefused(w) \/ TransferUnanswered(w) \/ SettleRejected(w)
  <2>1. p \in Payouts
    BY <1>1, <1>7 DEF TransferRefused, TransferUnanswered, SettleRejected, At, RunSound,
       Located, InTransaction
  <2>2. \A q \in Payouts : transfers[q] > 0 => transfers'[q] > 0
    BY <1>2, <1>7 DEF TransferRefused, TransferUnanswered, SettleRejected
  <2>3. MarkRetryable(w)
    BY <1>7 DEF TransferRefused, TransferUnanswered, SettleRejected
  <2> QED
    BY <1>1, <1>7, <2>1, <2>2, <2>3, StatusChange DEF MarkRetryable, TransferRefused,
       TransferUnanswered, SettleRejected
<1>8. CASE Settle(w)
  <2>1. p \in Payouts /\ transfers[p] > 0
    BY <1>1, <1>8 DEF Settle, At, RunSound, Located, InTransaction
  <2> QED
    BY <1>1, <1>8, <2>1, PayOutAgrees DEF Settle
<1>9. CASE AuditFails(w)
  <2>1. p \in Payouts
    BY <1>1, <1>9 DEF AuditFails, At, RunSound, Located, InTransaction
  <2>2. CASE UNCHANGED bookingCols
    BY <1>1, <1>9, <2>1, <2>2, StatusChange DEF AuditFails, MarkRetryable
  <2>3. CASE /\ state' = [state EXCEPT ![p] = "PAID_OUT"]
             /\ payoutReleasedAt' = [payoutReleasedAt EXCEPT ![p] = TRUE]
    BY <1>1, <1>9, <2>1, <2>3 DEF AuditFails, MarkRetryable, RowsHold, RowTypes,
       PayoutRowsAgree
  <2> QED
    BY <1>9, <2>2, <2>3 DEF AuditFails
<1> QED
  BY <1>3, <1>4, <1>5, <1>6, <1>7, <1>8, <1>9 DEF Progress, StartRun, LeaveGate, ListRows,
     TryLock, ReadPayout, MarkProcessing, GiveBack, AuditFails, FailRun

\* They agree after every step of an operator.
LEMMA RowsStepOfOperator ==
    ASSUME PayoutInv, NEW p \in Payouts, Operate(p)
    PROVE  RowsHold'
<1>1. RowsHold
  BY DEF PayoutInv, RowsHold, RowTypes, PayoutTypeOK
<1>2. CASE BeginRelease(p) \/ AbortRelease(p) \/ BeginMark(p) \/ AbortMark(p)
  BY <1>1, <1>2, TransferKeepsRows DEF BeginRelease, AbortRelease, BeginMark, AbortMark
<1>3. CASE CommitRelease(p)
  BY <1>1, <1>3, PayOutAgrees DEF CommitRelease
<1>4. CASE CommitMark(p) \/ MarkAgain(p)
  <2>1. MarkReleased(p)
    BY <1>4 DEF CommitMark, MarkAgain
  <2> QED
    BY <1>1, <2>1 DEF MarkReleased, RowsHold, RowTypes, PayoutRowsAgree
<1>5. ASSUME NEW status \in {"RETRYABLE_FAILED", "READY_AFTER_DISPUTE_WINDOW"},
             SetStatus(p, status)
      PROVE  RowsHold'
  BY <1>1, <1>5, StatusChange DEF SetStatus
<1> QED
  BY <1>2, <1>3, <1>4, <1>5 DEF Operate

-----------------------------------------------------------------------------
(* The invariant *)

\* The rest of the types.
LEMMA TypeStep ==
    ASSUME PayoutInv, Next
    PROVE  /\ LockTypeOK'
           /\ due' \subseteq Payouts
           /\ transfers' \in [Payouts -> Nat]
           /\ releasing' \subseteq Payouts /\ marking' \subseteq Payouts
           /\ incidents' \in 0 .. MaxIncidents
<1> USE DEF PayoutInv, PayoutTypeOK
<1>1. LockTypeOK'
  <2>1. CASE UNCHANGED lockVars \/ ReleaseAll
    BY <2>1, LockAssumption DEF lockVars, ReleaseAll, NothingHeld, LockTypeOK
  <2>2. ASSUME NEW w \in Workers, NEW job \in Jobs, StartRun(w, job)
        PROVE  LockTypeOK'
    BY <2>2, LockStep, PayoutAssumption DEF StartRun, Jobs
  <2>3. ASSUME NEW w \in Workers, LeaveGate(w)
        PROVE  LockTypeOK'
    <3>1. worker[w].job \in Locks
      BY <2>3, RunType, PayoutAssumption DEF LeaveGate, At, Run, Jobs
    <3> QED
      BY <2>3, <3>1, LockStep DEF LeaveGate
  <2>4. ASSUME NEW w \in Workers, TryLock(w) \/ GiveBack(w)
        PROVE  LockTypeOK'
    <3>1. worker[w].p \in Locks
      BY <2>4, PayoutAssumption DEF TryLock, GiveBack, At, RunsSound, RunSound, Located
    <3> QED
      BY <2>4, <3>1, LockStep DEF TryLock, GiveBack
  <2> QED
    BY <2>1, <2>2, <2>3, <2>4 DEF Next, Progress, Operate, ListRows, Pick, ReadPayout, Divert,
       MarkProcessing, TransferMade, TransferRefused, TransferUnanswered, MarkRetryable,
       AuditFails, Settle, SettleRejected, FailRun, BeginRelease, CommitRelease, AbortRelease,
       BeginMark, CommitMark, MarkAgain, AbortMark, MarkReleased, SetStatus, WindowEnds, Crash
<1>2. due' \subseteq Payouts /\ releasing' \subseteq Payouts /\ marking' \subseteq Payouts
  <2>1. UNCHANGED due \/ \E p \in Payouts : due' = due \cup {p}
    BY DEF Next, Progress, Operate, StartRun, LeaveGate, ListRows, Pick, TryLock, ReadPayout,
       Divert, MarkProcessing, TransferMade, TransferRefused, TransferUnanswered,
       MarkRetryable, Settle, SettleRejected, GiveBack, AuditFails, FailRun, BeginRelease,
       CommitRelease, AbortRelease, BeginMark, CommitMark, MarkAgain, AbortMark, MarkReleased, SetStatus, WindowEnds, Crash
  <2>2. \/ UNCHANGED releasing \/ releasing' = {}
        \/ \E p \in Payouts : releasing' = releasing \cup {p} \/ releasing' = releasing \ {p}
    BY DEF Next, Progress, Operate, StartRun, LeaveGate, ListRows, Pick, TryLock, ReadPayout,
       Divert, MarkProcessing, TransferMade, TransferRefused, TransferUnanswered,
       MarkRetryable, Settle, SettleRejected, GiveBack, AuditFails, FailRun, BeginRelease,
       CommitRelease, AbortRelease, BeginMark, CommitMark, MarkAgain, AbortMark, MarkReleased, SetStatus, WindowEnds, Crash, NoCalls, calls
  <2>3. \/ UNCHANGED marking \/ marking' = {}
        \/ \E p \in Payouts : marking' = marking \cup {p} \/ marking' = marking \ {p}
    BY DEF Next, Progress, Operate, StartRun, LeaveGate, ListRows, Pick, TryLock, ReadPayout,
       Divert, MarkProcessing, TransferMade, TransferRefused, TransferUnanswered,
       MarkRetryable, Settle, SettleRejected, GiveBack, AuditFails, FailRun, BeginRelease,
       CommitRelease, AbortRelease, BeginMark, CommitMark, MarkAgain, AbortMark, MarkReleased, SetStatus, WindowEnds, Crash, NoCalls, calls
  <2> QED
    BY <2>1, <2>2, <2>3
<1>3. transfers' \in [Payouts -> Nat]
  <2>1. UNCHANGED transfers \/ \E w \in Workers : CountTransfer(w)
    BY DEF Next, Progress, Operate, StartRun, LeaveGate, ListRows, Pick, TryLock, ReadPayout,
       Divert, MarkProcessing, TransferMade, TransferRefused, TransferUnanswered, AuditFails,
       Settle, SettleRejected, GiveBack, FailRun, BeginRelease, CommitRelease,
       AbortRelease, BeginMark, CommitMark, MarkAgain, AbortMark, MarkReleased, SetStatus, WindowEnds, Crash
  <2> QED
    BY <2>1 DEF CountTransfer
<1>4. incidents' \in 0 .. MaxIncidents
  <2>1. UNCHANGED incidents \/ Incident
    BY DEF Next, Progress, Operate, StartRun, LeaveGate, ListRows, Pick, TryLock, ReadPayout,
       Divert, MarkProcessing, TransferMade, TransferRefused, TransferUnanswered, AuditFails,
       Settle, SettleRejected, GiveBack, FailRun, BeginRelease, CommitRelease,
       AbortRelease, BeginMark, CommitMark, MarkAgain, AbortMark, MarkReleased, SetStatus, WindowEnds, Crash
  <2> QED
    BY <2>1, PayoutAssumption DEF Incident
<1> QED
  BY <1>1, <1>2, <1>3, <1>4

\* A new transfer is one that a run in its transaction asked for.
LEMMA WindowStep ==
    ASSUME PayoutInv, Next
    PROVE  NoTransferInDisputeWindow'
<1>1. due \subseteq due'
  BY DEF Next, Progress, Operate, StartRun, LeaveGate, ListRows, Pick, TryLock, ReadPayout,
     Divert, MarkProcessing, TransferMade, TransferRefused, TransferUnanswered,
     MarkRetryable, Settle, SettleRejected, GiveBack, AuditFails, FailRun, BeginRelease,
     CommitRelease, AbortRelease, BeginMark, CommitMark, MarkAgain, AbortMark, MarkReleased, SetStatus, WindowEnds, Crash
<1>2. \/ UNCHANGED transfers
      \/ \E w \in Workers : At(w, "transfer") /\ CountTransfer(w)
  BY DEF Next, Progress, Operate, StartRun, LeaveGate, ListRows, Pick, TryLock, ReadPayout,
     Divert, MarkProcessing, TransferMade, TransferRefused, TransferUnanswered, AuditFails,
     Settle, SettleRejected, GiveBack, FailRun, BeginRelease, CommitRelease,
     AbortRelease, BeginMark, CommitMark, MarkAgain, AbortMark, MarkReleased, SetStatus, WindowEnds, Crash
<1>3. ASSUME NEW w \in Workers, At(w, "transfer"), CountTransfer(w)
      PROVE  NoTransferInDisputeWindow'
  <2>1. worker[w].p \in due
    BY <1>3 DEF At, PayoutInv, RunsSound, RunSound, InTransaction
  <2> QED
    BY <1>1, <1>3, <2>1 DEF CountTransfer, PayoutInv, PayoutTypeOK, NoTransferInDisputeWindow
<1> QED
  BY <1>1, <1>2, <1>3 DEF PayoutInv, NoTransferInDisputeWindow

LEMMA InvariantStep ==
    ASSUME PayoutInv, Next
    PROVE  PayoutInv'
<1>1. NoTransferInDisputeWindow'
  BY WindowStep
<1>2. ASSUME NEW w \in Workers,
             (\E job \in Jobs : StartRun(w, job)) \/ Progress(w) \/ TransferUnanswered(w)
                 \/ AuditFails(w) \/ FailRun(w)
      PROVE  RowsHold' /\ worker' \in [Workers -> Run \cup {Idle}] /\ RunsSound'
  BY <1>2, RunStep, RowsStepOfRun
<1>3. ASSUME NEW p \in Payouts, Operate(p) \/ WindowEnds(p)
      PROVE  RowsHold' /\ worker' \in [Workers -> Run \cup {Idle}] /\ RunsSound'
  <2>1. UNCHANGED <<worker, transfers>> /\ due \subseteq due'
    BY <1>3 DEF Operate, BeginRelease, CommitRelease, AbortRelease, BeginMark, CommitMark, MarkAgain, AbortMark, MarkReleased, SetStatus,
       WindowEnds
  <2>2. RunsSound'
    BY <2>1, KnowledgeKept DEF PayoutInv, RunsSound
  <2>3. RowsHold'
    <3>1. CASE Operate(p)
      BY <3>1, RowsStepOfOperator
    <3>2. CASE WindowEnds(p)
      BY <3>2, TransferKeepsRows DEF WindowEnds, PayoutInv, PayoutTypeOK, RowsHold, RowTypes
    <3> QED
      BY <1>3, <3>1, <3>2
  <2> QED
    BY <2>1, <2>2, <2>3 DEF PayoutInv, PayoutTypeOK
<1>4. ASSUME Crash
      PROVE  RowsHold' /\ worker' \in [Workers -> Run \cup {Idle}] /\ RunsSound'
  <2>1. RowsHold'
    BY <1>4, TransferKeepsRows DEF Crash, PayoutInv, PayoutTypeOK, RowsHold, RowTypes
  <2>2. worker' \in [Workers -> Run \cup {Idle}] /\ RunsSound'
    BY <1>4 DEF Crash, RunsSound, RunSound, Idle, Located, InTransaction
  <2> QED
    BY <2>1, <2>2
<1>5. RowsHold' /\ worker' \in [Workers -> Run \cup {Idle}] /\ RunsSound'
  BY <1>2, <1>3, <1>4 DEF Next
<1> QED
  BY <1>1, <1>5, TypeStep DEF PayoutInv, PayoutTypeOK, RowsHold, RowTypes

\* The invariant that carries the theorems holds in every reachable state.
LEMMA PayoutInvariant == Spec => []PayoutInv
<1>1. Init => PayoutInv
  BY PayoutAssumption, LockAssumption DEF Init, LockInit, NothingHeld, LockTypeOK, PayoutInv,
     PayoutTypeOK, RunsSound, RunSound, Idle, Located, InTransaction,
     NoTransferInDisputeWindow, PayoutRowsAgree
<1>2. PayoutInv /\ UNCHANGED vars => PayoutInv'
  BY DEF PayoutInv, PayoutTypeOK, LockTypeOK, RunsSound, NoTransferInDisputeWindow,
     PayoutRowsAgree, vars, lockVars, rows, bookingCols, calls
<1>3. PayoutInv /\ [Next]_vars => PayoutInv'
  BY <1>2, InvariantStep
<1> QED
  BY <1>1, <1>3, PTL DEF Spec

-----------------------------------------------------------------------------
(* Locked sections *)

\* The run is between the grant of lock l and the query that gives it back.
Inside(run, l) ==
    \/ run.pc = "gated" /\ run.job = l
    \/ run.pc \in {"begin", "unlock"} \cup InTransaction /\ run.p = l

\* HoldersAreCovered says this of every lock.
Covers(l) == Holders(l) # {} => \E c \in Conns : held[l][c] >= Cardinality(Holders(l))

LEMMA HoldersAreInside ==
    ASSUME NEW l
    PROVE  /\ Holders(l) = {w \in Workers : Inside(worker[w], l)}
           /\ Holders(l)' = {w \in Workers : Inside(worker'[w], l)}
BY DEF Holders, Inside, At

LEMMA HoldersFinite ==
    ASSUME NEW l
    PROVE  IsFiniteSet(Holders(l)) /\ Cardinality(Holders(l)) \in Nat
<1>1. Holders(l) \subseteq Workers
  BY DEF Holders
<1> QED
  BY <1>1, PayoutAssumption, FS_Subset, FS_CardinalityType

LEMMA FewerHolders ==
    ASSUME NEW l, Holders(l)' \subseteq Holders(l)
    PROVE  IsFiniteSet(Holders(l)') /\ Cardinality(Holders(l)') <= Cardinality(Holders(l))
           /\ Cardinality(Holders(l)') \in Nat
BY HoldersFinite, FS_Subset, FS_CardinalityType

\* Runs may leave a section without a word: that covers no fewer of the rest.
LEMMA CoverKept ==
    ASSUME LockTypeOK, NEW l \in Locks, Covers(l), held'[l] = held[l],
           Holders(l)' \subseteq Holders(l)
    PROVE  Covers(l)'
<1>1. CASE Holders(l)' = {}
  BY <1>1 DEF Covers
<1>2. CASE Holders(l)' # {}
  <2>1. PICK c \in Conns : held[l][c] >= Cardinality(Holders(l))
    BY <1>2 DEF Covers
  <2>2. held'[l][c] >= Cardinality(Holders(l)')
    BY <2>1, HoldersFinite, FewerHolders DEF LockTypeOK
  <2>3. held'[l][c] >= Cardinality(Holders(l))'
    BY <2>2
  <2> QED
    BY <2>3 DEF Covers
<1> QED
  BY <1>1, <1>2

\* A run that is granted the lock is one hold more for one run more, and on the
\* session that has the lock if any has.
LEMMA CoverEntered ==
    ASSUME LockTypeOK, OneSession, NEW l \in Locks, Covers(l), NEW c \in Conns, Acquire(l, c),
           NEW w \in Workers, w \notin Holders(l), Holders(l)' = Holders(l) \cup {w}
    PROVE  OneSession' /\ Covers(l)'
<1>1. held'[l][c] = held[l][c] + 1 /\ \A k \in Locks, d \in Conns :
          k # l \/ d # c => held'[k][d] = held[k][d]
  BY DEF Acquire, LockTypeOK
<1>2. OneSession'
  BY <1>1 DEF OneSession, Acquire, Granted, LockTypeOK
<1>3. Cardinality(Holders(l)') = Cardinality(Holders(l)) + 1
  BY HoldersFinite, FS_AddElement
<1>4. held[l][c] >= Cardinality(Holders(l))
  <2>1. CASE Holders(l) = {}
    BY <2>1, FS_EmptySet DEF LockTypeOK
  <2>2. CASE Holders(l) # {}
    <3>1. PICK d \in Conns : held[l][d] >= Cardinality(Holders(l))
      BY <2>2 DEF Covers
    <3>2. Cardinality(Holders(l)) > 0
      BY <2>2, HoldersFinite, FS_EmptySet
    <3>3. d = c
      BY <3>1, <3>2, HoldersFinite DEF Acquire, Granted, LockTypeOK
    <3> QED
      BY <3>1, <3>3
  <2> QED
    BY <2>1, <2>2
<1>5. held'[l][c] >= Cardinality(Holders(l))'
  BY <1>1, <1>3, <1>4, HoldersFinite DEF LockTypeOK
<1> QED
  BY <1>2, <1>5 DEF Covers

\* A run that gives the lock back takes away at most the hold that stood for it.
LEMMA CoverLeft ==
    ASSUME LockTypeOK, OneSession, NEW l \in Locks, Covers(l), NEW c \in Conns, Release(l, c),
           NEW w \in Holders(l), Holders(l)' \subseteq Holders(l) \ {w}
    PROVE  OneSession' /\ Covers(l)'
<1>1. \A k \in Locks, d \in Conns : held'[k][d] \in Nat /\ held'[k][d] <= held[k][d]
  BY DEF Release, LockTypeOK, lockVars
<1>2. OneSession'
  BY <1>1 DEF OneSession, LockTypeOK
<1>3. PICK d \in Conns : held[l][d] >= Cardinality(Holders(l))
  BY DEF Covers
<1>4. held'[l][d] >= held[l][d] - 1
  BY DEF Release, LockTypeOK, lockVars
<1>5. /\ Cardinality(Holders(l) \ {w}) = Cardinality(Holders(l)) - 1
      /\ Cardinality(Holders(l)') <= Cardinality(Holders(l) \ {w})
      /\ Cardinality(Holders(l)') \in Nat
  BY HoldersFinite, FS_RemoveElement, FS_Subset, FS_CardinalityType
<1>6. held'[l][d] >= Cardinality(Holders(l))'
  BY <1>1, <1>3, <1>4, <1>5, HoldersFinite DEF LockTypeOK
<1> QED
  BY <1>2, <1>6 DEF Covers

\* Who is inside changes for the run that took the step.
LEMMA HoldersStep ==
    ASSUME PayoutTypeOK, NEW w \in Workers, NEW run, worker' = [worker EXCEPT ![w] = run], NEW l
    PROVE  /\ Inside(run, l) => Holders(l)' = Holders(l) \cup {w}
           /\ ~Inside(run, l) => Holders(l)' = Holders(l) \ {w}
<1>1. \A v \in Workers : worker'[v] = IF v = w THEN run ELSE worker[v]
  BY DEF PayoutTypeOK
<1> QED
  BY <1>1, HoldersAreInside

\* The step of a run that leaves the locks alone takes nobody inside.
LEMMA QuietStep ==
    ASSUME PayoutTypeOK, HoldersAreCovered, UNCHANGED held,
           NEW w \in Workers, NEW run, worker' = [worker EXCEPT ![w] = run],
           \A l \in Locks : Inside(run, l) => Inside(worker[w], l)
    PROVE  HoldersAreCovered'
<1>1. ASSUME NEW l \in Locks
      PROVE  Covers(l)'
  <2>1. Holders(l)' \subseteq Holders(l)
    BY HoldersStep, HoldersAreInside
  <2> QED
    BY <2>1, CoverKept DEF HoldersAreCovered, Covers, PayoutTypeOK
<1> QED
  BY <1>1 DEF HoldersAreCovered, Covers, OneSession

\* A run is granted a lock and goes inside.
LEMMA EnterStep ==
    ASSUME PayoutTypeOK, HoldersAreCovered,
           NEW l \in Locks, NEW c \in Conns, Acquire(l, c),
           NEW w \in Workers, NEW run, worker' = [worker EXCEPT ![w] = run],
           \A k \in Locks : Inside(run, k) <=> k = l,
           \A k \in Locks : ~Inside(worker[w], k)
    PROVE  HoldersAreCovered'
<1> USE DEF PayoutTypeOK
<1>1. OneSession' /\ Covers(l)'
  <2>1. w \notin Holders(l) /\ Holders(l)' = Holders(l) \cup {w}
    BY HoldersStep, HoldersAreInside
  <2> QED
    BY <2>1, CoverEntered DEF HoldersAreCovered, Covers
<1>2. ASSUME NEW k \in Locks, k # l
      PROVE  Covers(k)'
  <2>1. Holders(k)' \subseteq Holders(k)
    BY <1>2, HoldersStep, HoldersAreInside
  <2>2. held'[k] = held[k]
    BY <1>2 DEF Acquire, LockTypeOK
  <2> QED
    BY <2>1, <2>2, CoverKept DEF HoldersAreCovered, Covers
<1> QED
  BY <1>1, <1>2 DEF HoldersAreCovered, Covers

\* A run gives its lock back, or tries to, and is inside no more.
LEMMA LeaveStep ==
    ASSUME PayoutTypeOK, HoldersAreCovered,
           NEW l \in Locks, NEW c \in Conns, Release(l, c),
           NEW w \in Workers, NEW run, worker' = [worker EXCEPT ![w] = run],
           \A k \in Locks : ~Inside(run, k),
           Inside(worker[w], l)
    PROVE  HoldersAreCovered'
<1> USE DEF PayoutTypeOK
<1>1. OneSession' /\ Covers(l)'
  <2>1. w \in Holders(l) /\ Holders(l)' \subseteq Holders(l) \ {w}
    BY HoldersStep, HoldersAreInside
  <2> QED
    BY <2>1, CoverLeft DEF HoldersAreCovered, Covers
<1>2. ASSUME NEW k \in Locks, k # l
      PROVE  Covers(k)'
  <2>1. Holders(k)' \subseteq Holders(k)
    BY <1>2, HoldersStep, HoldersAreInside
  <2>2. held'[k] = held[k]
    BY <1>2 DEF Release, LockTypeOK, lockVars
  <2> QED
    BY <2>1, <2>2, CoverKept DEF HoldersAreCovered, Covers
<1> QED
  BY <1>1, <1>2 DEF HoldersAreCovered, Covers

\* Every step of the payout automation is one of these, or a crash.
LEMMA CoveredStep ==
    ASSUME PayoutInv, HoldersAreCovered, Next
    PROVE  HoldersAreCovered'
<1> USE DEF PayoutInv
<1>1. CASE UNCHANGED <<held, worker>>
  BY <1>1 DEF HoldersAreCovered, OneSession, Holders, At
<1>2. CASE Crash
  <2>1. \A l \in Locks, c \in Conns : held'[l][c] = 0
    BY <1>2 DEF Crash, ReleaseAll, NothingHeld
  <2>2. \A l : Holders(l)' = {}
    BY <1>2 DEF Crash, Holders, At, Idle, InTransaction
  <2> QED
    BY <2>1, <2>2 DEF HoldersAreCovered, OneSession
<1>3. ASSUME NEW w \in Workers, NEW job \in Jobs, StartRun(w, job)
      PROVE  HoldersAreCovered'
  <2> DEFINE started == [pc |-> "gated", job |-> job, todo |-> {}, p |-> None, conn |-> None]
  <2>1. CASE UNCHANGED <<held, worker>>
    BY <1>1, <2>1
  <2>2. ASSUME NEW c \in Conns, Acquire(job, c), worker' = [worker EXCEPT ![w] = started]
        PROVE  HoldersAreCovered'
    <3>1. \A k \in Locks : ~Inside(worker[w], k)
      BY <1>3 DEF StartRun, At, Inside, InTransaction
    <3>2. \A k \in Locks : Inside(started, k) <=> k = job
      BY DEF Inside, InTransaction
    <3>3. job \in Locks
      BY PayoutAssumption DEF Jobs
    <3> HIDE DEF started
    <3> QED
      BY <2>2, <3>1, <3>2, <3>3, EnterStep
  <2> QED
    BY <1>3, <2>1, <2>2 DEF StartRun, Refuse, lockVars
<1>4. ASSUME NEW w \in Workers, Progress(w) \/ TransferUnanswered(w) \/ AuditFails(w) \/ FailRun(w)
      PROVE  HoldersAreCovered'
  <2> DEFINE r == worker[w]
             On(pc) == [r EXCEPT !.pc = pc]
  <2>1. r \in Run
    BY <1>4, RunType DEF Progress, LeaveGate, ListRows, Pick, TryLock, ReadPayout, Divert,
       MarkProcessing, TransferMade, TransferRefused, TransferUnanswered, AuditFails, Settle,
       SettleRejected, GiveBack, FailRun, At, InTransaction
  <2>2. /\ r.pc \in Located => r.p \in Locks
        /\ r.job \in Locks
    BY <2>1, PayoutAssumption DEF RunsSound, RunSound, Run, Jobs
  <2>3. ASSUME NEW pc, worker' = [worker EXCEPT ![w].pc = pc]
        PROVE  worker' = [worker EXCEPT ![w] = On(pc)]
    BY <2>3
  <2>4. Continue(w) => \E run : /\ worker' = [worker EXCEPT ![w] = run]
                                /\ \A k : ~Inside(run, k)
    <3>1. ASSUME Continue(w)
          PROVE  \/ worker' = [worker EXCEPT ![w] = Idle]
                 \/ worker' = [worker EXCEPT ![w] = [r EXCEPT !.pc = "next", !.p = None]]
      BY <3>1 DEF Continue
    <3>2. \A k : ~Inside(Idle, k) /\ ~Inside([r EXCEPT !.pc = "next", !.p = None], k)
      BY <2>1 DEF Inside, Idle, InTransaction, Run
    <3> QED
      BY <3>1, <3>2
  <2>5. CASE LeaveGate(w)
    <3>1. PICK c \in Conns : Release(r.job, c)
      BY <2>5 DEF LeaveGate
    <3>2. worker' = [worker EXCEPT ![w] = On("list")]
      BY <2>5 DEF LeaveGate, GoTo
    <3>3. (\A k : ~Inside(On("list"), k)) /\ Inside(r, r.job)
      BY <2>1, <2>5 DEF LeaveGate, Inside, InTransaction, Run, At
    <3> QED
      BY <2>2, <3>1, <3>2, <3>3, LeaveStep
  <2>6. CASE GiveBack(w)
    <3>1. PICK c \in Conns : Release(r.p, c)
      BY <2>6 DEF GiveBack
    <3>2. PICK run : worker' = [worker EXCEPT ![w] = run] /\ \A k : ~Inside(run, k)
      BY <2>4, <2>6 DEF GiveBack
    <3>3. Inside(r, r.p) /\ r.p \in Locks
      BY <2>2, <2>6 DEF GiveBack, Inside, At, Located
    <3> QED
      BY <3>1, <3>2, <3>3, LeaveStep
  <2>7. CASE TryLock(w)
    <3>1. ASSUME NEW c \in Conns, Acquire(r.p, c), GoTo(w, "begin")
          PROVE  HoldersAreCovered'
      <4>1. worker' = [worker EXCEPT ![w] = On("begin")]
        BY <3>1 DEF GoTo
      <4>2. \A k : (Inside(On("begin"), k) <=> k = r.p) /\ ~Inside(r, k)
        BY <2>1, <2>7 DEF TryLock, Inside, InTransaction, Run, At
      <4>3. r.p \in Locks
        BY <2>2, <2>7 DEF TryLock, At, Located
      <4> QED
        BY <3>1, <4>1, <4>2, <4>3, EnterStep
    <3>2. ASSUME UNCHANGED held, Continue(w)
          PROVE  HoldersAreCovered'
      BY <2>4, <3>2, QuietStep
    <3> QED
      BY <2>7, <3>1, <3>2 DEF TryLock, Refuse, lockVars
  <2>8. ASSUME UNCHANGED held,
               NEW run, worker' = [worker EXCEPT ![w] = run],
               \A k : Inside(run, k) => Inside(r, k)
        PROVE  HoldersAreCovered'
    BY <2>8, QuietStep
  <2>9. CASE FailRun(w)
    <3>1. PICK rest \in Rest(r) : worker' = [worker EXCEPT ![w] = AfterError(r, rest)]
      BY <2>9 DEF FailRun
    <3>2. \A k : Inside(AfterError(r, rest), k) => Inside(r, k)
      BY <2>1 DEF AfterError, Inside, InTransaction, Run, Idle
    <3> QED
      BY <2>8, <2>9, <3>1, <3>2 DEF FailRun, lockVars
  <2>10. CASE ListRows(w)
    <3> DEFINE found == Listed(r.job)
    <3>1. \/ worker' = [worker EXCEPT ![w] = Idle]
          \/ worker' = [worker EXCEPT ![w] = [r EXCEPT !.pc = "next", !.todo = found]]
      BY <2>10 DEF ListRows
    <3>2. \A k : ~Inside(Idle, k) /\ ~Inside([r EXCEPT !.pc = "next", !.todo = found], k)
      BY <2>1 DEF Inside, Idle, InTransaction, Run
    <3> QED
      BY <2>8, <2>10, <3>1, <3>2 DEF ListRows, lockVars
  <2>11. ASSUME NEW p \in Payouts, Pick(w, p)
         PROVE  HoldersAreCovered'
    <3>1. worker' = [worker EXCEPT ![w] = [r EXCEPT !.pc = "lock", !.p = p, !.todo = @ \ {p}]]
      BY <2>11 DEF Pick
    <3>2. \A k : ~Inside([r EXCEPT !.pc = "lock", !.p = p, !.todo = @ \ {p}], k)
      BY <2>1 DEF Inside, InTransaction, Run
    <3> QED
      BY <2>8, <2>11, <3>1, <3>2 DEF Pick, lockVars
  <2>12. CASE MarkProcessing(w) \/ TransferMade(w)
    <3>1. \A k : /\ At(w, "route") => (Inside(On("transfer"), k) => Inside(r, k))
                 /\ At(w, "transfer") => (Inside(On("settle"), k) => Inside(r, k))
      BY <2>1 DEF Inside, InTransaction, Run, At
    <3>2. CASE MarkProcessing(w)
      BY <2>8, <3>1, <3>2 DEF MarkProcessing, GoTo, lockVars
    <3>3. CASE TransferMade(w)
      BY <2>8, <3>1, <3>3 DEF TransferMade, GoTo, lockVars
    <3> QED
      BY <2>12, <3>2, <3>3
  <2>13. CASE ReadPayout(w)
    <3>1. \A k : At(w, "begin") => (Inside(On("unlock"), k) => Inside(r, k))
      BY <2>1 DEF Inside, InTransaction, Run, At
    <3>2. ASSUME NEW c \in Conns, NEW found \in outcomes[r.p],
                 worker' = [worker EXCEPT ![w].pc = found, ![w].conn = c]
          PROVE  HoldersAreCovered'
      <4>1. worker' = [worker EXCEPT ![w] = [r EXCEPT !.pc = found, !.conn = c]]
        BY <3>2
      <4>2. \A k : Inside([r EXCEPT !.pc = found, !.conn = c], k) => Inside(r, k)
        <5>1. r.p \in Payouts /\ r.pc = "begin"
          BY <2>13 DEF ReadPayout, At, RunsSound, RunSound, Located
        <5>2. found \in {"manual", "invalid", "route", "blocked"}
          BY <5>1, PayoutAssumption
        <5> QED
          BY <2>1, <5>1, <5>2 DEF Inside, InTransaction, Run
      <4> QED
        BY <2>8, <2>13, <4>1, <4>2 DEF ReadPayout, lockVars
    <3> QED
      BY <2>8, <2>13, <3>1, <3>2 DEF ReadPayout, GoTo, lockVars
  <2>14. CASE EndTransaction(w) /\ r.pc \in InTransaction /\ UNCHANGED held
    <3>1. worker' = [worker EXCEPT ![w] = [r EXCEPT !.pc = "unlock", !.conn = None]]
      BY <2>14 DEF EndTransaction
    <3>2. \A k : Inside([r EXCEPT !.pc = "unlock", !.conn = None], k) => Inside(r, k)
      BY <2>1, <2>14 DEF Inside, Run
    <3> QED
      BY <2>8, <2>14, <3>1, <3>2
  <2>15. CASE \/ Divert(w) \/ TransferRefused(w) \/ TransferUnanswered(w)
              \/ Settle(w) \/ SettleRejected(w) \/ AuditFails(w)
    BY <2>14, <2>15 DEF Divert, TransferRefused, TransferUnanswered, MarkRetryable, Settle,
       SettleRejected, AuditFails, At, InTransaction, lockVars
  <2> QED
    BY <1>4, <2>5, <2>6, <2>7, <2>9, <2>10, <2>11, <2>12, <2>13, <2>15 DEF Progress
<1> QED
  BY <1>1, <1>2, <1>3, <1>4 DEF Next, Operate, BeginRelease, CommitRelease, AbortRelease,
     BeginMark, CommitMark, MarkAgain, AbortMark, MarkReleased, SetStatus, WindowEnds, lockVars

-----------------------------------------------------------------------------
(* How often money is sent *)

Writing(run) == run.pc \in {"transfer", "settle"}

\* The row lock: one open transaction at a time has written a payout.
OneWriter ==
    \A v, w \in Workers :
        Writing(worker[v]) /\ Writing(worker[w]) /\ worker[v].p = worker[w].p => v = w

\* The runs that have passed the check of the booking's state and may yet ask
\* for a transfer of p, and whether one has its answer.
Underway(p) == {w \in Workers : worker[w].pc \in {"route", "transfer"} /\ worker[w].p = p}
Settling(p) == \E w \in Workers : worker[w].pc = "settle" /\ worker[w].p = p

\* Before the booking is paid out, every transfer but the one that is about to be
\* recorded has cost an incident.  After that, what may yet come is underway.
Bounded(p) ==
    /\ state[p] = "PAYOUT_PENDING" =>
          transfers[p] <= incidents + (IF Settling(p) THEN 1 ELSE 0)
    /\ state[p] = "PAID_OUT" =>
          transfers[p] + Cardinality(Underway(p)) <= Cardinality(Workers) + incidents

TransfersCounted == OneWriter /\ \A p \in Payouts : Bounded(p)

LEMMA UnderwayFinite ==
    ASSUME NEW p
    PROVE  /\ IsFiniteSet(Underway(p))
           /\ Cardinality(Underway(p)) \in Nat
           /\ Cardinality(Underway(p)) + (IF Settling(p) THEN 1 ELSE 0) <= Cardinality(Workers)
           /\ Cardinality(Workers) \in Nat
<1>1. /\ IsFiniteSet(Workers) /\ Cardinality(Workers) \in Nat
      /\ Underway(p) \subseteq Workers
  BY PayoutAssumption, FS_CardinalityType DEF Underway
<1>2. IsFiniteSet(Underway(p)) /\ Cardinality(Underway(p)) <= Cardinality(Workers)
  BY <1>1, FS_Subset
<1>3. Cardinality(Underway(p)) \in Nat
  BY <1>2, FS_CardinalityType
<1>4. ASSUME Settling(p)
      PROVE  Cardinality(Underway(p)) + 1 <= Cardinality(Workers)
  <2>1. PICK w \in Workers : worker[w].pc = "settle"
    BY <1>4 DEF Settling
  <2>2. Underway(p) \cup {w} \subseteq Workers /\ w \notin Underway(p)
    BY <2>1 DEF Underway
  <2>3. Cardinality(Underway(p) \cup {w}) = Cardinality(Underway(p)) + 1
    BY <1>2, <2>2, FS_AddElement
  <2> QED
    BY <1>1, <2>2, <2>3, FS_Subset
<1> QED
  BY <1>1, <1>2, <1>3, <1>4

\* A step that sends nothing and pays nothing out.
LEMMA BoundKept ==
    ASSUME PayoutTypeOK, NEW p \in Payouts, Bounded(p), incidents' \in Nat,
           incidents' >= incidents, transfers'[p] = transfers[p], state'[p] = state[p],
           state[p] = "PAYOUT_PENDING" /\ Settling(p) => Settling(p)' \/ incidents' > incidents,
           state[p] = "PAID_OUT" => Underway(p)' \subseteq Underway(p)
    PROVE  Bounded(p)'
<1> USE DEF PayoutTypeOK
<1>1. CASE state[p] = "PAYOUT_PENDING"
  <2>1. transfers'[p] <= incidents' + (IF Settling(p)' THEN 1 ELSE 0)
    BY <1>1 DEF Bounded
  <2> QED
    BY <1>1, <2>1 DEF Bounded
<1>2. CASE state[p] = "PAID_OUT"
  <2>1. /\ Cardinality(Underway(p)') <= Cardinality(Underway(p))
        /\ Cardinality(Underway(p)') \in Nat
    BY <1>2, UnderwayFinite, FS_Subset, FS_CardinalityType
  <2>2. transfers'[p] + Cardinality(Underway(p)') <= Cardinality(Workers) + incidents'
    BY <1>2, <2>1, UnderwayFinite DEF Bounded
  <2> QED
    BY <1>2, <2>2 DEF Bounded
<1> QED
  BY <1>1, <1>2

\* A step that pays the booking out: the transfers so far and the ones underway
\* are no more than the incidents and the runs.
LEMMA BoundPaidOut ==
    ASSUME PayoutTypeOK, NEW p \in Payouts, Bounded(p), incidents' \in Nat,
           incidents' >= incidents, transfers'[p] = transfers[p], state'[p] = "PAID_OUT",
           Underway(p)' \subseteq Underway(p)
    PROVE  Bounded(p)'
<1> USE DEF PayoutTypeOK
<1>1. /\ Cardinality(Underway(p)') <= Cardinality(Underway(p))
      /\ Cardinality(Underway(p)') \in Nat
  BY UnderwayFinite, FS_Subset, FS_CardinalityType
<1>2. transfers[p] + Cardinality(Underway(p)) <= Cardinality(Workers) + incidents
  BY UnderwayFinite DEF Bounded
<1>3. transfers'[p] + Cardinality(Underway(p)') <= Cardinality(Workers) + incidents'
  BY <1>1, <1>2, UnderwayFinite
<1> QED
  BY <1>3 DEF Bounded

\* A step that sends money: the run is not underway any more, and its answer is
\* there to be recorded, or was lost in an incident.
LEMMA BoundTransferred ==
    ASSUME PayoutTypeOK, NEW p \in Payouts, Bounded(p), ~Settling(p),
           transfers'[p] = transfers[p] + 1, state'[p] = state[p],
           NEW w \in Underway(p), Underway(p)' \subseteq Underway(p) \ {w},
           \/ incidents' = incidents + 1
           \/ incidents' = incidents /\ Settling(p)'
    PROVE  Bounded(p)'
<1> USE DEF PayoutTypeOK
<1>1. /\ Cardinality(Underway(p) \ {w}) = Cardinality(Underway(p)) - 1
      /\ Cardinality(Underway(p)') <= Cardinality(Underway(p) \ {w})
      /\ Cardinality(Underway(p)') \in Nat
  BY UnderwayFinite, FS_RemoveElement, FS_Subset, FS_CardinalityType
<1>2. state[p] = "PAYOUT_PENDING" =>
          transfers'[p] <= incidents' + (IF Settling(p)' THEN 1 ELSE 0)
  BY DEF Bounded
<1>3. state[p] = "PAID_OUT" =>
          transfers'[p] + Cardinality(Underway(p)') <= Cardinality(Workers) + incidents'
  BY <1>1, UnderwayFinite DEF Bounded
<1> QED
  BY <1>2, <1>3 DEF Bounded

\* A run writes to a payout row only when no other transaction has.
LEMMA WriterStep ==
    ASSUME PayoutTypeOK, OneWriter,
           NEW w \in Workers, NEW run, worker' = [worker EXCEPT ![w] = run],
           Writing(run) => \/ Writing(worker[w]) /\ run.p = worker[w].p
                           \/ ~RowLocked(run.p)
    PROVE  OneWriter'
<1>1. \A v \in Workers : worker'[v] = IF v = w THEN run ELSE worker[v]
  BY DEF PayoutTypeOK
<1> QED
  BY <1>1 DEF OneWriter, Writing, RowLocked

\* The step of a run that sends nothing and pays nothing out.
LEMMA CountKept ==
    ASSUME PayoutTypeOK, TransfersCounted, UNCHANGED <<state, transfers>>,
           UNCHANGED incidents \/ Incident,
           NEW w \in Workers, NEW run, worker' = [worker EXCEPT ![w] = run],
           Writing(run) => \/ Writing(worker[w]) /\ run.p = worker[w].p
                           \/ ~RowLocked(run.p),
           run.pc \in {"route", "transfer"} =>
               \/ state[run.p] = "PAYOUT_PENDING"
               \/ worker[w].pc \in {"route", "transfer"} /\ run.p = worker[w].p,
           worker[w].pc = "settle" => \/ state[worker[w].p] = "PAID_OUT"
                                      \/ Incident
    PROVE  TransfersCounted'
<1>0. incidents' \in Nat /\ incidents' >= incidents /\ (Incident => incidents' > incidents)
  BY DEF PayoutTypeOK, Incident
<1>1. \A v \in Workers : worker'[v] = IF v = w THEN run ELSE worker[v]
  BY DEF PayoutTypeOK
<1>2. OneWriter'
  BY WriterStep DEF TransfersCounted
<1>3. ASSUME NEW p \in Payouts
      PROVE  Bounded(p)'
  <2>1. state[p] = "PAYOUT_PENDING" /\ Settling(p) => Settling(p)' \/ incidents' > incidents
    BY <1>0, <1>1 DEF Settling
  <2>2. state[p] = "PAID_OUT" => Underway(p)' \subseteq Underway(p)
    BY <1>1 DEF Underway
  <2> QED
    BY <1>0, <2>1, <2>2, BoundKept DEF TransfersCounted
<1> QED
  BY <1>2, <1>3 DEF TransfersCounted

\* The step in which Razorpay makes the transfer a run asked for.
LEMMA CountSent ==
    ASSUME PayoutTypeOK, TransfersCounted, UNCHANGED state,
           NEW w \in Workers, CountTransfer(w), worker[w].pc = "transfer",
           NEW run, worker' = [worker EXCEPT ![w] = run],
           \/ run.pc = "settle" /\ run.p = worker[w].p /\ UNCHANGED incidents
           \/ run.pc = "unlock" /\ incidents' = incidents + 1
    PROVE  TransfersCounted'
<1>1. \A v \in Workers : worker'[v] = IF v = w THEN run ELSE worker[v]
  BY DEF PayoutTypeOK
<1>2. OneWriter'
  BY WriterStep DEF TransfersCounted, Writing
<1>3. incidents' \in Nat /\ incidents' >= incidents
  BY DEF PayoutTypeOK
<1>4. ASSUME NEW p \in Payouts, p # worker[w].p
      PROVE  Bounded(p)'
  <2>1. Underway(p)' \subseteq Underway(p) /\ (Settling(p) => Settling(p)')
    BY <1>1, <1>4 DEF Underway, Settling
  <2>2. transfers'[p] = transfers[p] /\ state'[p] = state[p]
    BY <1>4 DEF CountTransfer, PayoutTypeOK
  <2> QED
    BY <1>3, <2>1, <2>2, BoundKept DEF TransfersCounted
<1>5. ASSUME NEW p \in Payouts, p = worker[w].p
      PROVE  Bounded(p)'
  <2>1. w \in Underway(p) /\ Underway(p)' \subseteq Underway(p) \ {w}
    BY <1>1, <1>5 DEF Underway
  <2>2. ~Settling(p)
    BY <1>5 DEF Settling, TransfersCounted, OneWriter, Writing
  <2>3. transfers'[p] = transfers[p] + 1 /\ state'[p] = state[p]
    BY <1>5 DEF CountTransfer, PayoutTypeOK
  <2>4. \/ incidents' = incidents + 1
        \/ incidents' = incidents /\ Settling(p)'
    BY <1>1, <1>5 DEF Settling
  <2> QED
    BY <2>1, <2>2, <2>3, <2>4, BoundTransferred DEF TransfersCounted
<1> QED
  BY <1>2, <1>4, <1>5 DEF TransfersCounted

\* A booking is paid out, by a run that ends its transaction or by an operator.
LEMMA CountPaidOut ==
    ASSUME PayoutTypeOK, TransfersCounted, UNCHANGED transfers,
           UNCHANGED incidents \/ Incident,
           NEW q \in Payouts, state' = [state EXCEPT ![q] = "PAID_OUT"],
           \A v \in Workers : \/ worker'[v] = worker[v]
                              \/ worker'[v].pc = "unlock" /\ worker[v].p = q
    PROVE  TransfersCounted'
<1>0. incidents' \in Nat /\ incidents' >= incidents
  BY DEF PayoutTypeOK, Incident
<1>1. OneWriter'
  BY DEF TransfersCounted, OneWriter, Writing
<1>2. \A p \in Payouts : Underway(p)' \subseteq Underway(p)
  BY DEF Underway
<1>3. ASSUME NEW p \in Payouts, p # q
      PROVE  Bounded(p)'
  <2>1. (Settling(p) => Settling(p)') /\ state'[p] = state[p]
    BY <1>3 DEF Settling, PayoutTypeOK
  <2> QED
    BY <1>0, <1>2, <2>1, BoundKept DEF TransfersCounted
<1>4. Bounded(q)'
  <2>1. state'[q] = "PAID_OUT"
    BY DEF PayoutTypeOK
  <2> QED
    BY <1>0, <1>2, <2>1, BoundPaidOut DEF TransfersCounted
<1> QED
  BY <1>1, <1>3, <1>4 DEF TransfersCounted

\* Every step of the payout automation is one of these, or a crash.
LEMMA CountStep ==
    ASSUME PayoutInv, TransfersCounted, Next
    PROVE  TransfersCounted'
<1> USE DEF PayoutInv
<1>1. CASE UNCHANGED <<worker, state, transfers>> /\ (UNCHANGED incidents \/ Incident)
  <2>1. incidents' \in Nat /\ incidents' >= incidents
    BY <1>1 DEF Incident, PayoutTypeOK
  <2>2. \A p \in Payouts : (Settling(p)' <=> Settling(p)) /\ Underway(p)' = Underway(p)
    BY <1>1 DEF Settling, Underway
  <2>3. \A p \in Payouts : Bounded(p)'
    BY <1>1, <2>1, <2>2, BoundKept DEF TransfersCounted
  <2> QED
    BY <1>1, <2>3 DEF TransfersCounted, OneWriter, Writing
<1>2. CASE Crash
  <2>1. UNCHANGED <<state, transfers>> /\ incidents' \in Nat /\ incidents' > incidents
    BY <1>2 DEF Crash, Incident, PayoutTypeOK, rows, bookingCols
  <2>2. OneWriter' /\ \A p : Underway(p)' = {}
    BY <1>2 DEF Crash, OneWriter, Writing, Underway, Idle
  <2>3. \A p \in Payouts : Bounded(p)'
    BY <2>1, <2>2, BoundKept DEF TransfersCounted, PayoutTypeOK
  <2> QED
    BY <2>2, <2>3 DEF TransfersCounted
<1>3. ASSUME NEW p \in Payouts, CommitRelease(p) \/ CommitMark(p) \/ MarkAgain(p)
      PROVE  TransfersCounted'
  BY <1>3, CountPaidOut DEF CommitRelease, CommitMark, MarkAgain, MarkReleased, PayOut, PayoutTypeOK
<1>4. ASSUME NEW w \in Workers, NEW job \in Jobs, StartRun(w, job)
      PROVE  TransfersCounted'
  <2> DEFINE started == [pc |-> "gated", job |-> job, todo |-> {}, p |-> None, conn |-> None]
  <2>1. CASE UNCHANGED worker
    BY <1>1, <1>4, <2>1 DEF StartRun, rows, bookingCols
  <2>2. CASE worker' = [worker EXCEPT ![w] = started]
    <3>1. started.pc = "gated" /\ worker[w].pc = "idle"
      BY <1>4 DEF StartRun, At
    <3>2. UNCHANGED <<state, transfers, incidents>> /\ incidents \in Nat
      BY <1>4 DEF StartRun, rows, bookingCols, PayoutTypeOK
    <3> HIDE DEF started
    <3> QED
      BY <2>2, <3>1, <3>2, CountKept DEF Writing
  <2> QED
    BY <1>4, <2>1, <2>2 DEF StartRun
<1>5. ASSUME NEW w \in Workers, Progress(w) \/ TransferUnanswered(w) \/ AuditFails(w) \/ FailRun(w)
      PROVE  TransfersCounted'
  <2> DEFINE r == worker[w]
             On(pc) == [r EXCEPT !.pc = pc]
             ended == [r EXCEPT !.pc = "unlock", !.conn = None]
  <2>1. r \in Run
    BY <1>5, RunType DEF Progress, LeaveGate, ListRows, Pick, TryLock, ReadPayout, Divert,
       MarkProcessing, TransferMade, TransferRefused, TransferUnanswered, AuditFails, Settle,
       SettleRejected, GiveBack, FailRun, At, InTransaction
  <2>2. /\ incidents \in Nat
        /\ Incident => incidents' \in Nat /\ incidents' = incidents + 1
        /\ r.pc \in Located => r.p \in Payouts
    BY DEF PayoutTypeOK, Incident, RunsSound, RunSound
  <2>3. \A pc : On(pc).pc = pc /\ On(pc).p = r.p
    BY <2>1 DEF Run
  <2>4. ended.pc = "unlock" /\ ended.p = r.p
    BY <2>1 DEF Run
  <2>5. ASSUME UNCHANGED <<state, transfers>>, UNCHANGED incidents \/ Incident,
               NEW run, worker' = [worker EXCEPT ![w] = run],
               run.pc \notin {"route", "transfer", "settle"},
               r.pc = "settle" => state[r.p] = "PAID_OUT" \/ Incident
        PROVE  TransfersCounted'
    BY <2>2, <2>5, CountKept DEF Writing
  <2>6. ASSUME Continue(w), UNCHANGED <<state, transfers, incidents>>, r.pc # "settle"
        PROVE  TransfersCounted'
    <3> DEFINE onward == [r EXCEPT !.pc = "next", !.p = None]
    <3>1. worker' = [worker EXCEPT ![w] = Idle] \/ worker' = [worker EXCEPT ![w] = onward]
      BY <2>6 DEF Continue
    <3>2. Idle.pc = "idle" /\ onward.pc = "next"
      BY <2>1 DEF Idle, Run
    <3> HIDE DEF onward
    <3> QED
      BY <2>5, <2>6, <3>1, <3>2
  <2>7. CASE LeaveGate(w)
    BY <2>3, <2>5, <2>7 DEF LeaveGate, GoTo, At, rows, bookingCols
  <2>8. CASE ListRows(w)
    <3> DEFINE listed == [r EXCEPT !.pc = "next", !.todo = Listed(r.job)]
    <3>1. worker' = [worker EXCEPT ![w] = Idle] \/ worker' = [worker EXCEPT ![w] = listed]
      BY <2>8 DEF ListRows
    <3>2. Idle.pc = "idle" /\ listed.pc = "next"
      BY <2>1 DEF Idle, Run
    <3> HIDE DEF listed
    <3> QED
      BY <2>5, <2>8, <3>1, <3>2 DEF ListRows, At, rows, bookingCols
  <2>9. ASSUME NEW p \in Payouts, Pick(w, p)
        PROVE  TransfersCounted'
    <3> DEFINE picked == [r EXCEPT !.pc = "lock", !.p = p, !.todo = @ \ {p}]
    <3>1. worker' = [worker EXCEPT ![w] = picked]
      BY <2>9 DEF Pick
    <3>2. picked.pc = "lock"
      BY <2>1 DEF Run
    <3> HIDE DEF picked
    <3> QED
      BY <2>5, <2>9, <3>1, <3>2 DEF Pick, At, bookingCols
  <2>10. CASE TryLock(w)
    <3>1. CASE GoTo(w, "begin")
      BY <2>3, <2>5, <2>10, <3>1 DEF TryLock, GoTo, At, rows, bookingCols
    <3>2. CASE Continue(w)
      BY <2>6, <2>10, <3>2 DEF TryLock, At, rows, bookingCols
    <3> QED
      BY <2>10, <3>1, <3>2 DEF TryLock
  <2>11. CASE GiveBack(w)
    BY <2>6, <2>11 DEF GiveBack, At, rows, bookingCols
  <2>12. CASE ReadPayout(w)
    <3>1. CASE GoTo(w, "unlock")
      BY <2>3, <2>5, <2>12, <3>1 DEF ReadPayout, GoTo, At, rows, bookingCols
    <3>2. ASSUME NEW c \in Conns, NEW found \in outcomes[r.p], Ready(r.p),
                 worker' = [worker EXCEPT ![w].pc = found, ![w].conn = c]
          PROVE  TransfersCounted'
      <4> DEFINE read == [r EXCEPT !.pc = found, !.conn = c]
      <4>1. found \in {"manual", "invalid", "route", "blocked"}
        BY <2>2, <2>12, PayoutAssumption DEF ReadPayout, At, Located
      <4>2. worker' = [worker EXCEPT ![w] = read] /\ read.pc = found /\ read.p = r.p
        BY <2>1, <3>2 DEF Run
      <4>3. state[r.p] = "PAYOUT_PENDING" /\ r.pc = "begin"
        BY <2>12, <3>2 DEF Ready, ReadPayout, At
      <4>4. UNCHANGED <<state, transfers, incidents>>
        BY <2>12 DEF ReadPayout, rows, bookingCols
      <4> HIDE DEF read
      <4> QED
        BY <2>2, <4>1, <4>2, <4>3, <4>4, CountKept DEF Writing
    <3> QED
      BY <2>12, <3>1, <3>2 DEF ReadPayout
  <2>13. CASE MarkProcessing(w)
    <3>1. worker' = [worker EXCEPT ![w] = On("transfer")]
      BY <2>13 DEF MarkProcessing, GoTo
    <3>2. r.pc = "route" /\ ~RowLocked(r.p) /\ UNCHANGED <<state, transfers, incidents>>
      BY <2>13 DEF MarkProcessing, At, rows, bookingCols
    <3> HIDE DEF On
    <3> QED
      BY <2>2, <2>3, <3>1, <3>2, CountKept DEF Writing
  <2>14. CASE TransferMade(w)
    <3>1. worker' = [worker EXCEPT ![w] = On("settle")]
      BY <2>14 DEF TransferMade, GoTo
    <3> QED
      BY <2>3, <2>14, <3>1, CountSent DEF TransferMade, At, rows, bookingCols
  <2>15. EndTransaction(w) => worker' = [worker EXCEPT ![w] = ended]
    BY DEF EndTransaction
  <2> HIDE DEF ended, On
  <2>16. CASE TransferUnanswered(w)
    BY <2>2, <2>4, <2>15, <2>16, CountSent DEF TransferUnanswered, MarkRetryable, At, bookingCols
  <2>17. CASE Divert(w) \/ TransferRefused(w)
    BY <2>4, <2>5, <2>15, <2>17 DEF Divert, TransferRefused, MarkRetryable, At, bookingCols
  <2>18. CASE SettleRejected(w)
    <3>1. state[r.p] = "PAID_OUT"
      BY <2>2, <2>18 DEF SettleRejected, At, Located, InTransaction, PayoutTypeOK
    <3> QED
      BY <2>4, <2>5, <2>15, <2>18, <3>1 DEF SettleRejected, MarkRetryable, bookingCols
  <2>19. ASSUME state' = [state EXCEPT ![r.p] = "PAID_OUT"], r.pc = "settle", EndTransaction(w),
                UNCHANGED transfers, UNCHANGED incidents \/ Incident
         PROVE  TransfersCounted'
    <3>1. \A v \in Workers : \/ worker'[v] = worker[v]
                             \/ worker'[v].pc = "unlock" /\ worker[v].p = r.p
      BY <2>4, <2>15, <2>19 DEF PayoutTypeOK
    <3>2. r.p \in Payouts
      BY <2>2, <2>19 DEF Located, InTransaction
    <3> QED
      BY <2>2, <2>19, <3>1, <3>2, CountPaidOut
  <2>20. CASE Settle(w)
    BY <2>19, <2>20 DEF Settle, At, PayOut
  <2>21. CASE AuditFails(w)
    <3>1. CASE At(w, "blocked") /\ UNCHANGED bookingCols
      BY <2>4, <2>5, <2>15, <2>21, <3>1 DEF AuditFails, MarkRetryable, At, bookingCols
    <3>2. CASE At(w, "settle") /\ state' = [state EXCEPT ![r.p] = "PAID_OUT"]
      BY <2>19, <2>21, <3>2 DEF AuditFails, MarkRetryable, At
    <3> QED
      BY <2>21, <3>1, <3>2 DEF AuditFails
  <2>22. CASE FailRun(w)
    <3>1. PICK rest \in Rest(r) : worker' = [worker EXCEPT ![w] = AfterError(r, rest)]
      BY <2>22 DEF FailRun
    <3>2. AfterError(r, rest).pc \notin {"route", "transfer", "settle"}
      BY <2>1 DEF AfterError, Run, Idle
    <3> QED
      BY <2>5, <2>22, <3>1, <3>2 DEF FailRun, rows, bookingCols
  <2> QED
    BY <1>5, <2>7, <2>8, <2>9, <2>10, <2>11, <2>12, <2>13, <2>14, <2>16, <2>17, <2>18, <2>20,
       <2>21, <2>22 DEF Progress
<1> QED
  BY <1>1, <1>2, <1>3, <1>4, <1>5 DEF Next, Operate, BeginRelease, AbortRelease, BeginMark, AbortMark, SetStatus,
     WindowEnds, rows, bookingCols

-----------------------------------------------------------------------------
(* Theorems *)

\* Every variable of the payout automation keeps its type, in every run of any
\* number of workers, payouts and connections.
THEOREM PayoutTypes == Spec => []PayoutTypeOK
BY PayoutInvariant, PTL DEF PayoutInv

\* isDueForPayout, asked again inside the transaction, is enough: no transfer is
\* made before the dispute window ends, however runs and overrides interleave.
THEOREM WindowRespected == Spec => []NoTransferInDisputeWindow
BY PayoutInvariant, PTL DEF PayoutInv

\* No row says that money was released unless the rows it stands on say so too,
\* after any sequence of automated and manual releases, overrides, failures and
\* crashes.  The converse, which failures break, is not claimed.
THEOREM RowsAgree == Spec => []PayoutRowsAgree
BY PayoutInvariant, PTL DEF PayoutInv

\* withPgAdvisoryLock does what a lock on sessions can do: the session that has a
\* lock holds it once for every run inside at least, and no other session has it,
\* whatever runs share a session, unlocks miss and calls fail.
THEOREM LocksCoverSections == Spec => []HoldersAreCovered
<1>1. Init => HoldersAreCovered
  BY DEF Init, LockInit, NothingHeld, HoldersAreCovered, OneSession, Holders, At, Idle,
     InTransaction
<1>2. HoldersAreCovered /\ UNCHANGED vars => HoldersAreCovered'
  BY DEF HoldersAreCovered, OneSession, Holders, At, vars, lockVars
<1>3. PayoutInv /\ HoldersAreCovered /\ [Next]_vars => HoldersAreCovered'
  BY <1>2, CoveredStep
<1> QED
  BY <1>1, <1>3, PayoutInvariant, PTL DEF Spec

\* What the row lock and the final state bound: runs that overlap and incidents
\* may each repeat the transfer of a payout once, and nothing else may.
THEOREM TransfersAreBounded == Spec => []TransfersBounded
<1>1. Init => TransfersCounted
  <2>1. ASSUME Init, NEW p \in Payouts
        PROVE  Bounded(p)
    BY <2>1 DEF Init, Bounded, Settling, Idle
  <2> QED
    BY <2>1 DEF Init, TransfersCounted, OneWriter, Writing, Idle
<1>2. TransfersCounted /\ UNCHANGED vars => TransfersCounted'
  BY DEF TransfersCounted, OneWriter, Writing, Bounded, Settling, Underway, vars, rows,
     bookingCols
<1>3. PayoutInv /\ TransfersCounted /\ [Next]_vars => TransfersCounted'
  BY <1>2, CountStep
<1>4. PayoutInv /\ TransfersCounted => TransfersBounded
  <2>1. ASSUME PayoutInv, TransfersCounted, NEW p \in Payouts
        PROVE  transfers[p] <= Cardinality(Workers) + incidents
    <3>1. /\ incidents \in Nat /\ transfers[p] \in Nat
          /\ state[p] \in {"PAYOUT_PENDING", "PAID_OUT"}
      BY <2>1 DEF PayoutInv, PayoutTypeOK
    <3>2. Bounded(p)
      BY <2>1 DEF TransfersCounted
    <3> QED
      BY <3>1, <3>2, UnderwayFinite DEF Bounded
  <2> QED
    BY <2>1 DEF TransfersBounded
<1> QED
  BY <1>1, <1>3, <1>4, PayoutInvariant, PTL DEF Spec

\* So what the documentation says of the lock, that it prevents duplicate side
\* effects, takes one run at a time and no incident: then money is sent once.
\* With two runs on one session it is not (double_transfer).
THEOREM OneRunSendsOnce ==
    ASSUME Cardinality(Workers) = 1, MaxIncidents = 0
    PROVE  Spec => []TransferredOnce
<1>1. PayoutTypeOK /\ TransfersBounded => TransferredOnce
  BY DEF PayoutTypeOK, TransfersBounded, TransferredOnce
<1> QED
  BY <1>1, PayoutTypes, TransfersAreBounded, PTL

=============================================================================
