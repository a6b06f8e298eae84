----------------------------- MODULE BookingRow -----------------------------
(***************************************************************************)
(* The columns of a booking row that the parties and the payments change,  *)
(* and the changes that the API promises, each as a single step: the state *)
(* moves along transitionMap, service starts only after the deposit, and   *)
(* money moves only in this order: deposit, final payment, payout.         *)
(***************************************************************************)
EXTENDS BookingStates

CONSTANT Bookings

VARIABLES state, depositPaid, finalPaid, paidOut

rowVars == <<state, depositPaid, finalPaid, paidOut>>

\* A deposit ordered earlier may be captured in any later state.
PayDeposit(b) ==
    /\ state[b] # "ABSENT"
    /\ depositPaid' = [depositPaid EXCEPT ![b] = TRUE]
    /\ UNCHANGED <<state, finalPaid, paidOut>>

\* The steps that the two parties take themselves.
Progress(b, next) ==
    /\ state[b] # "ABSENT"
    /\ CanTransition(state[b], next)
    /\ next \in {"CONFIRMED", "OTP_READY", "IN_PROGRESS", "PENDING_END_OTP",
                 "PENDING_PAYMENT"} \cup Cancelled
    /\ next = "OTP_READY" => depositPaid[b]
    /\ state' = [state EXCEPT ![b] = next]
    /\ UNCHANGED <<depositPaid, finalPaid, paidOut>>

PayFinal(b) ==
    /\ state[b] = "PENDING_PAYMENT"
    /\ depositPaid[b]
    /\ state' = [state EXCEPT ![b] = "PAYOUT_PENDING"]
    /\ finalPaid' = [finalPaid EXCEPT ![b] = TRUE]
    /\ UNCHANGED <<depositPaid, paidOut>>

PayOut(b) ==
    /\ state[b] = "PAYOUT_PENDING"
    /\ ~paidOut[b]
    /\ state' = [state EXCEPT ![b] = "PAID_OUT"]
    /\ paidOut' = [paidOut EXCEPT ![b] = TRUE]
    /\ UNCHANGED <<depositPaid, finalPaid>>

=============================================================================
