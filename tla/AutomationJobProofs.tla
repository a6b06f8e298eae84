------------------------ MODULE AutomationJobProofs -------------------------
(***************************************************************************)
(* A job stays one chain of iterations, for any payouts, runs, incidents   *)
(* and restarts, whatever the runs of module PayoutAutomation do.          *)
(***************************************************************************)
EXTENDS AutomationJob, FiniteSetTheorems, TLAPS

JobState == [timers : Nat, running : BOOLEAN, stopped : BOOLEAN, started : BOOLEAN]

JobTypeOK ==
    /\ job \in [Jobs -> JobState]
    /\ iteration \in [Workers -> Jobs \cup {None}]

\* A run is the iteration of a job that is running, and the only one.
IterationsSound ==
    /\ \A w \in Workers : iteration[w] # None => job[iteration[w]].running
    /\ \A v, w \in Workers : iteration[v] = iteration[w] /\ iteration[v] # None => v = w

\* What a job is going to do next.
Chained(s) ==
    /\ s.running => s.started
    /\ s.started => s.timers = IF s.stopped \/ s.running THEN 0 ELSE 1

JobInv == JobTypeOK /\ IterationsSound /\ \A j \in Jobs : Chained(job[j])

-----------------------------------------------------------------------------

\* An iteration that ends leaves its job chained.
LEMMA RescheduleChains ==
    ASSUME NEW j \in Jobs, JobTypeOK, Chained(job[j]), job[j].running
    PROVE  /\ Reschedule(j) \in JobState
           /\ Chained(Reschedule(j))
           /\ ~Reschedule(j).running
<1>1. job[j] \in JobState
  BY DEF JobTypeOK
<1>2. job[j].timers = 0 /\ job[j].started
  BY <1>1 DEF Chained, JobState
<1>3. Reschedule(j) = [timers  |-> IF job[j].stopped THEN 0 ELSE 1, running |-> FALSE,
                      stopped |-> job[j].stopped, started |-> TRUE]
  <2> DEFINE s == job[j]
             n == IF s.stopped THEN s.timers ELSE s.timers + 1
  <2>1. s \in JobState /\ s.timers = 0 /\ s.started
    BY <1>1, <1>2
  <2>2. n = IF s.stopped THEN 0 ELSE 1
    BY <2>1
  <2> DEFINE x == Reschedule(j)
  <2>3. x = [s EXCEPT !.running = FALSE, !.timers = n]
    BY DEF Reschedule
  <2> HIDE DEF s, n, x
  <2>4. s = [timers |-> s.timers, running |-> s.running, stopped |-> s.stopped,
             started |-> s.started]
    BY <2>1 DEF JobState
  <2>5. x = [timers |-> n, running |-> FALSE, stopped |-> s.stopped, started |-> s.started]
    BY <2>3, <2>4
  <2>6. x = [timers |-> n, running |-> FALSE, stopped |-> s.stopped, started |-> TRUE]
    BY <2>1, <2>5 DEF JobState
  <2> QED
    BY <2>2, <2>6 DEF s, x
<1>4. job[j].stopped \in BOOLEAN
  BY <1>1 DEF JobState
<1>5. Reschedule(j) \in JobState
  BY <1>3, <1>4 DEF JobState
<1>6. Chained(Reschedule(j)) /\ ~Reschedule(j).running
  BY <1>3 DEF Chained
<1> QED
  BY <1>5, <1>6

\* The end of a run, or none.
LEMMA EndsSound ==
    ASSUME JobInv, NEW w \in Workers, Ends(w)
    PROVE  JobInv'
<1> DEFINE j == iteration[w]
<1>1. CASE j # None /\ worker'[w] = Idle
  <2>1. /\ job' = [job EXCEPT ![j] = Reschedule(j)]
        /\ iteration' = [iteration EXCEPT ![w] = None]
        /\ j \in Jobs
    BY <1>1 DEF Ends, JobInv, JobTypeOK
  <2>2. Reschedule(j) \in JobState /\ Chained(Reschedule(j))
    BY <1>1, <2>1, RescheduleChains DEF JobInv, IterationsSound
  <2>3. JobTypeOK'
    BY <2>1, <2>2 DEF JobInv, JobTypeOK
  <2>4. \A v \in Workers : iteration'[v] # None => iteration'[v] = iteration[v] /\ iteration[v] # j
    BY <1>1, <2>1 DEF JobInv, JobTypeOK, IterationsSound
  <2>5. IterationsSound'
    BY <2>1, <2>4 DEF JobInv, JobTypeOK, IterationsSound
  <2>6. \A i \in Jobs : Chained(job'[i])
    BY <2>1, <2>2 DEF JobInv, JobTypeOK
  <2> QED
    BY <2>3, <2>5, <2>6 DEF JobInv
<1>2. CASE UNCHANGED <<job, iteration>>
  BY <1>2 DEF JobInv, JobTypeOK, IterationsSound
<1> QED
  BY <1>1, <1>2 DEF Ends

\* A new process has neither timers nor iterations.
LEMMA NewProcessSound ==
    ASSUME NewProcess
    PROVE  JobInv'
<1>1. /\ job' = [j \in Jobs |-> NotStarted]
      /\ iteration' = [w \in Workers |-> None]
  BY DEF NewProcess
<1> QED
  BY <1>1 DEF JobInv, JobTypeOK, IterationsSound, JobState, NotStarted, Chained

LEMMA JobInvInitially ==
    ASSUME JobInit
    PROVE  JobInv
BY DEF JobInit, JobInv, JobTypeOK, IterationsSound, JobState, NotStarted, Chained

LEMMA JobInvStep ==
    ASSUME JobInv, [JobNext]_jobVars
    PROVE  JobInv'
<1>1. CASE StartJobs
  <2>1. /\ job' = [j \in Jobs |-> Fresh] /\ iteration' = iteration
        /\ \A j \in Jobs : ~job[j].started /\ ~job[j].running
    BY <1>1 DEF StartJobs, Started, JobInv, Chained
  <2>2. \A w \in Workers : iteration[w] = None
    BY <2>1 DEF JobInv, JobTypeOK, IterationsSound
  <2> QED
    BY <2>1, <2>2 DEF JobInv, JobTypeOK, IterationsSound, JobState, Fresh, NotStarted, Chained
<1>2. ASSUME NEW j \in Jobs, TimerFires(j)
      PROVE  JobInv'
  <2>1. /\ job' = [job EXCEPT ![j].timers = @ - 1, ![j].running = TRUE]
        /\ iteration' = iteration
        /\ job[j].timers > 0 /\ ~job[j].running /\ ~job[j].stopped
    BY <1>2 DEF TimerFires
  <2>2. job[j] \in JobState /\ Chained(job[j])
    BY DEF JobInv, JobTypeOK
  <2>3. job' = [job EXCEPT ![j] = [job[j] EXCEPT !.timers = @ - 1, !.running = TRUE]]
    BY <2>1
  <2> QED
    BY <2>1, <2>2, <2>3 DEF JobInv, JobTypeOK, IterationsSound, JobState, Chained
<1>3. ASSUME NEW j \in Jobs, BeginIteration(j)
      PROVE  JobInv'
  <2> DEFINE w == slotOf[j]
  <2>1. /\ w \in Workers
        /\ IF worker'[w] = Idle
           THEN job' = [job EXCEPT ![j] = Reschedule(j)] /\ UNCHANGED iteration
           ELSE iteration' = [iteration EXCEPT ![w] = j] /\ UNCHANGED job
    BY <1>3, JobAssumption DEF BeginIteration
  <2>2. job[j].running /\ \A v \in Workers : iteration[v] # j
    BY <1>3 DEF BeginIteration, Running
  <2>3. Reschedule(j) \in JobState /\ Chained(Reschedule(j))
    BY <2>2, RescheduleChains DEF JobInv
  <2>4. CASE job' = [job EXCEPT ![j] = Reschedule(j)] /\ UNCHANGED iteration
    BY <2>2, <2>3, <2>4 DEF JobInv, JobTypeOK, IterationsSound
  <2>5. CASE iteration' = [iteration EXCEPT ![w] = j] /\ UNCHANGED job
    BY <2>2, <2>5 DEF JobInv, JobTypeOK, IterationsSound
  <2> QED
    BY <2>1, <2>4, <2>5
<1>4. ASSUME NEW w \in Workers, RunStep(w) \/ RunFails(w)
      PROVE  JobInv'
  BY <1>4, EndsSound DEF RunStep, RunFails
<1>5. CASE Terminate
  <2>1. /\ job' = [j \in Jobs |->
              IF job[j].started THEN [job[j] EXCEPT !.stopped = TRUE, !.timers = 0] ELSE job[j]]
        /\ iteration' = iteration
    BY <1>5 DEF Terminate, Started
  <2>2. \A j \in Jobs : job[j] \in JobState
    BY DEF JobInv, JobTypeOK
  <2>3. ASSUME NEW j \in Jobs
        PROVE  /\ job'[j] \in JobState /\ Chained(job'[j])
               /\ job[j].running => job'[j].running
    <3>1. CASE job[j].started
      <4> DEFINE r == job[j]
      <4>1. job'[j] = [r EXCEPT !.stopped = TRUE, !.timers = 0]
        BY <2>1, <3>1
      <4>2. r \in JobState
        BY <2>2
      <4> HIDE DEF r
      <4>3. r = [timers |-> r.timers, running |-> r.running, stopped |-> r.stopped,
                 started |-> r.started]
        BY <4>2 DEF JobState
      <4>4. job'[j] = [timers |-> 0, running |-> r.running, stopped |-> TRUE,
                       started |-> r.started]
        BY <4>1, <4>3
      <4>5. r.running \in BOOLEAN /\ r.started \in BOOLEAN
        BY <4>2 DEF JobState
      <4>6. r.running => r.started
        BY <2>2 DEF r, JobInv, Chained
      <4>7. job'[j] \in JobState
        BY <4>4, <4>5 DEF JobState
      <4>8. Chained(job'[j]) /\ job'[j].running = r.running
        BY <4>4, <4>6 DEF Chained
      <4> QED
        BY <4>7, <4>8 DEF r
    <3>2. CASE ~job[j].started
      <4>1. job'[j] = job[j]
        BY <2>1, <3>2
      <4> QED
        BY <2>2, <4>1 DEF JobInv
    <3> QED
      BY <3>1, <3>2
  <2> QED
    BY <2>1, <2>3 DEF JobInv, JobTypeOK, IterationsSound
<1>6. CASE Exit \/ ProcessDies
  BY <1>6, NewProcessSound DEF Exit, ProcessDies
<1>7. CASE UNCHANGED <<job, iteration>>
  BY <1>7 DEF JobInv, JobTypeOK, IterationsSound
<1> QED
  <2>1. CASE \E p \in Payouts : (Operate(p) \/ WindowEnds(p)) /\ UNCHANGED <<job, iteration, phase>>
    BY <2>1, <1>7
  <2>2. CASE UNCHANGED jobVars
    BY <2>2, <1>7 DEF jobVars
  <2>3. CASE Disconnect
    BY <2>3, <1>7 DEF Disconnect
  <2> QED
    BY <1>1, <1>2, <1>3, <1>4, <1>5, <1>6, <2>1, <2>2, <2>3 DEF JobNext

LEMMA JobInvImplies ==
    ASSUME JobInv
    PROVE  OneChainPerJob
<1> SUFFICES ASSUME NEW j \in Jobs
             PROVE  /\ Cardinality(Running(j)) <= (IF job[j].running THEN 1 ELSE 0)
                    /\ Started(j) => job[j].timers =
                          IF job[j].stopped THEN 0 ELSE 1 - (IF job[j].running THEN 1 ELSE 0)
  BY DEF OneChainPerJob
<1>1. job[j] \in JobState /\ Chained(job[j])
  BY DEF JobInv, JobTypeOK
<1>2. Started(j) => job[j].timers =
          IF job[j].stopped THEN 0 ELSE 1 - (IF job[j].running THEN 1 ELSE 0)
  BY <1>1 DEF Started, Chained, JobState
<1>3. CASE Running(j) = {}
  BY <1>2, <1>3, FS_EmptySet
<1>4. CASE Running(j) # {}
  <2>1. PICK w \in Workers : iteration[w] = j
    BY <1>4 DEF Running
  <2>2. j # None
    BY JobAssumption
  <2>3. Running(j) = {w} /\ job[j].running
    BY <2>1, <2>2 DEF Running, JobInv, IterationsSound
  <2>4. Cardinality(Running(j)) = 1
    BY <2>3, FS_Singleton
  <2> QED
    BY <1>2, <2>3, <2>4
<1> QED
  BY <1>3, <1>4

\* Whatever its runs meet, a job that was started is one chain of iterations until
\* it is stopped, and stays stopped then (jobs/paymentAutomationJob.ts).
THEOREM OneChain == FairJobSpec => []OneChainPerJob
<1>1. JobInit => JobInv
  BY JobInvInitially
<1>2. JobInv /\ [JobNext]_jobVars => JobInv'
  BY JobInvStep
<1>3. JobInv => OneChainPerJob
  BY JobInvImplies
<1> QED
  BY <1>1, <1>2, <1>3, PTL DEF FairJobSpec

=============================================================================
