-------------------------- MODULE MCAutomationJob --------------------------
(***************************************************************************)
(* Instances of AutomationJob for TLC.                                     *)
(***************************************************************************)
EXTENDS AutomationJob, TLC

AllLocks == Payouts \cup Jobs

\* The account at Razorpay Route is there, and transfers are switched on.
RouteOnly == [p \in Payouts |-> {"route"}]

\* Any assignment of slots to jobs.
SomeSlots == CHOOSE f \in [Jobs -> Workers] : \A i, j \in Jobs : f[i] = f[j] => i = j

=============================================================================
