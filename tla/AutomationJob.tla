--------------------------- MODULE AutomationJob ----------------------------
(***************************************************************************)
(* The process that runs the payout automation: its start and its end on   *)
(* SIGTERM (server.ts) and the two self-scheduling jobs of                 *)
(* jobs/paymentAutomationJob.ts, around the runs of PayoutAutomation.      *)
(*                                                                         *)
(* A job is a chain: an iteration runs at once when the process is up, and *)
(* each iteration sets the timer of the next one when it ends, however it  *)
(* ends.  Delays and their back-off are left out: a timer goes off at any  *)
(* time.                                                                   *)
(* Runs that the internal routes start are left to PayoutAutomation alone. *)
(***************************************************************************)
EXTENDS PayoutAutomation

CONSTANT slotOf   \* the slot for the runs of each job, which has one at a time

ASSUME JobAssumption ==
    /\ None \notin Jobs
    /\ slotOf \in [Jobs -> Workers]
    /\ \A i, j \in Jobs : slotOf[i] = slotOf[j] => i = j

VARIABLES
    job,          \* JobState of each job: timers set, running, stopped
    iteration,    \* the job whose iteration a run is, or None
    phase         \* "up"; "stopping" since SIGTERM; "closing" since $disconnect

jobVars == <<vars, job, iteration, phase>>

\* buildJobState has not been called yet.
NotStarted == [timers |-> 0, running |-> FALSE, stopped |-> FALSE, started |-> FALSE]

Started(j) == job[j].started

\* The first iteration is called at once, by startPaymentAutomationJob itself.
Fresh == [NotStarted EXCEPT !.running = TRUE, !.started = TRUE]

\* bootstrap() goes on although SIGTERM may have come in meanwhile.
StartJobs ==
    /\ \A j \in Jobs : ~Started(j)
    /\ job' = [j \in Jobs |-> Fresh]
    /\ UNCHANGED <<vars, iteration, phase>>

\* runProtectedJob returns at once while an iteration runs or after stop().
TimerFires(j) ==
    /\ job[j].timers > 0
    /\ ~job[j].running /\ ~job[j].stopped
    /\ job' = [job EXCEPT ![j].timers = @ - 1, ![j].running = TRUE]
    /\ UNCHANGED <<vars, iteration, phase>>

\* Mutant of Reschedule: a stopped job sets its timer too.
RescheduleAlways(j) == [job[j] EXCEPT !.running = FALSE, !.timers = @ + 1]

\* The `finally` block of an iteration.
Reschedule(j) ==
    [job[j] EXCEPT !.running = FALSE, !.timers = IF job[j].stopped THEN @ ELSE @ + 1]

Running(j) == {w \in Workers : iteration[w] = j}

\* The runner asks for the gate lock; refused, the iteration is over.
BeginIteration(j) ==
    /\ job[j].running
    /\ Running(j) = {}
    /\ LET w == slotOf[j] IN
          /\ StartRun(w, j)
          /\ IF worker'[w] = Idle
             THEN job' = [job EXCEPT ![j] = Reschedule(j)] /\ UNCHANGED iteration
             ELSE iteration' = [iteration EXCEPT ![w] = j] /\ UNCHANGED job
    /\ UNCHANGED phase

\* The run w may end with this step, and its iteration with it.
Ends(w) ==
    LET j == iteration[w] IN
    IF j # None /\ worker'[w] = Idle
    THEN /\ job' = [job EXCEPT ![j] = Reschedule(j)]
         /\ iteration' = [iteration EXCEPT ![w] = None]
    ELSE UNCHANGED <<job, iteration>>

RunStep(w) ==
    /\ Progress(w) \/ TransferUnanswered(w) \/ AuditFails(w)
    /\ Ends(w)
    /\ UNCHANGED phase

RunFails(w) == FailRun(w) /\ Ends(w) /\ UNCHANGED phase

-----------------------------------------------------------------------------
(* The end of the process, and the next one *)

\* stop() of the jobs clears the timers, and an iteration that runs goes on;
\* before the jobs are started there is nothing to stop.
Terminate ==
    /\ phase = "up"
    /\ Incident
    /\ phase' = "stopping"
    /\ job' = [j \in Jobs |->
                  IF Started(j) THEN [job[j] EXCEPT !.stopped = TRUE, !.timers = 0]
                                ELSE job[j]]
    /\ UNCHANGED <<lockVars, rows, due, transfers, worker, calls, iteration>>

\* Open transactions of the runs whose session is closed roll back.  Razorpay may
\* have made the transfer that such a run asked for.
LoseTransactions(closed) ==
    LET lost == {w \in Workers : worker[w].conn \in closed} IN
    /\ \E rest \in [lost -> SUBSET Payouts] :
          /\ \A w \in lost : rest[w] \in Rest(worker[w])
          /\ worker' = [w \in Workers |->
                 IF w \in lost THEN AfterError(worker[w], rest[w]) ELSE worker[w]]
    /\ \E made \in SUBSET {w \in lost : At(w, "transfer")} :
          transfers' = [p \in Payouts |->
              transfers[p] + Cardinality({w \in made : worker[w].p = p})]

\* SIGTERM's $disconnect closes the sessions of the pool, whatever runs, with the
\* advisory locks they hold; it may leave a session with an open transaction to
\* its end.  The runs are not told: their next queries open new sessions.
Disconnect ==
    /\ phase = "stopping"
    /\ phase' = "closing"
    /\ \E closed \in SUBSET Conns :
          /\ \A c \in Conns \ closed : ~FreeConn(c)
          /\ CloseSessions(closed)
          /\ LoseTransactions(closed)
    /\ UNCHANGED <<rows, due, calls, incidents, job, iteration>>

NewProcess ==
    /\ worker' = [w \in Workers |-> Idle]
    /\ NoCalls
    /\ ReleaseAll
    /\ job' = [j \in Jobs |-> NotStarted]
    /\ iteration' = [w \in Workers |-> None]
    /\ phase' = "up"
    /\ UNCHANGED <<rows, due, transfers>>

\* The server is closed, or the platform has waited long enough: whatever runs is
\* cut off.
Exit == phase # "up" /\ NewProcess /\ UNCHANGED incidents

ProcessDies == Incident /\ NewProcess

-----------------------------------------------------------------------------

JobInit ==
    /\ Init
    /\ job = [j \in Jobs |-> NotStarted]
    /\ iteration = [w \in Workers |-> None]
    /\ phase = "up"

JobNext ==
    \/ StartJobs
    \/ \E j \in Jobs : TimerFires(j) \/ BeginIteration(j)
    \/ \E w \in Workers : RunStep(w) \/ RunFails(w)
    \/ \E p \in Payouts : (Operate(p) \/ WindowEnds(p)) /\ UNCHANGED <<job, iteration, phase>>
    \/ Terminate
    \/ Disconnect
    \/ Exit
    \/ ProcessDies

\* A process starts its jobs and ends when it is told to, a timer goes off and
\* a run goes on (its queries queue for a connection), and Razorpay accepts a
\* transfer it is asked for again and again.
FairJobSpec ==
    /\ JobInit /\ [][JobNext]_jobVars
    /\ WF_jobVars(StartJobs)
    /\ WF_jobVars(Exit)
    /\ \A j \in Jobs : WF_jobVars(TimerFires(j)) /\ SF_jobVars(BeginIteration(j))
    /\ \A w \in Workers : SF_jobVars(RunStep(w))
    /\ \A p \in Payouts :
          SF_jobVars(\E w \in Workers : worker[w].p = p /\ TransferMade(w) /\ RunStep(w))

-----------------------------------------------------------------------------
(* Properties *)

\* A job that was started is one chain: until it is stopped either one iteration
\* of it goes on or one timer is set, however iterations fail, and after that no
\* timer is left that would start another.
OneChainPerJob ==
    \A j \in Jobs :
        LET going == IF job[j].running THEN 1 ELSE 0 IN
        /\ Cardinality(Running(j)) <= going
        /\ Started(j) => job[j].timers = IF job[j].stopped THEN 0 ELSE 1 - going

\* To stop the process costs a payout two repeated transfers at most, one by the
\* sessions closed under runs that go on and one by the exit under such runs, and
\* any other incident one, next to those of runs that overlap.
RepeatsBounded ==
    \A p \in Payouts : transfers[p] <= Cardinality(Workers) + 2 * incidents

\* Every payout that is due gets somewhere, by the work of the timers alone and
\* across deployments and crashes: it is paid out or handed to an operator,
\* unless a lock is left behind.
DuePayoutGoesOn ==
    \A p \in Payouts :
        p \in due /\ outcomes[p] \subseteq {"route", "manual"}
            ~> state[p] = "PAID_OUT" \/ payoutStatus[p] = "MANUAL_PENDING" \/ LockLeftBehind

=============================================================================
