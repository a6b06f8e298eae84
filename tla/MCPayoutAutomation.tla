------------------------- MODULE MCPayoutAutomation -------------------------
(***************************************************************************)
(* Instances of PayoutAutomation for TLC.                                  *)
(***************************************************************************)
EXTENDS PayoutAutomation, TLC

AllLocks == Payouts \cup Jobs

\* The account at Razorpay Route is there, and transfers are switched on.
RouteOnly == [p \in Payouts |-> {"route"}]

\* The account may be missing, the amount zero, the transfers switched off.
AnyOutcome == [p \in Payouts |-> {"route", "manual", "invalid", "blocked"}]

\* Runs and connections are interchangeable in the safety properties.
Interchangeable == Permutations(Workers) \cup Permutations(Conns)

=============================================================================
