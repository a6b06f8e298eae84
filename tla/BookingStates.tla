--------------------------- MODULE BookingStates ---------------------------
(***************************************************************************)
(* The booking state machine of utils/stateMachine.ts: the states of the   *)
(* Prisma enum BookingState and the map of legal transitions.              *)
(***************************************************************************)

BookingState ==
    {"REQUESTED", "CONFIRMED", "OTP_READY", "IN_PROGRESS", "PENDING_END_OTP",
     "PENDING_PAYMENT", "PAYMENT_LOCKED", "COMPLETED", "PAYOUT_PENDING",
     "PAID_OUT", "CANCELLED_BY_OWNER", "CANCELLED_BY_PROVIDER", "DISPUTED"}

Cancelled == {"CANCELLED_BY_OWNER", "CANCELLED_BY_PROVIDER"}

transitionMap ==
    [s \in BookingState |->
        CASE s = "REQUESTED"       -> {"CONFIRMED"} \cup Cancelled
          [] s = "CONFIRMED"       -> {"OTP_READY", "DISPUTED"} \cup Cancelled
          [] s = "OTP_READY"       -> {"IN_PROGRESS", "DISPUTED"} \cup Cancelled
          [] s = "IN_PROGRESS"     -> {"PENDING_END_OTP", "DISPUTED"}
          [] s = "PENDING_END_OTP" -> {"PENDING_PAYMENT", "DISPUTED"}
          [] s = "PENDING_PAYMENT" -> {"PAYMENT_LOCKED", "DISPUTED"}
          [] s = "PAYMENT_LOCKED"  -> {"COMPLETED", "DISPUTED"}
          [] s = "COMPLETED"       -> {"PAYOUT_PENDING", "DISPUTED"}
          [] s = "PAYOUT_PENDING"  -> {"PAID_OUT", "DISPUTED"}
          [] OTHER                 -> {}]

\* canTransition, and the test on which validateStateTransition throws.
CanTransition(current, next) == next \in transitionMap[current]

=============================================================================
