-------------------------- MODULE BookingLifecycle --------------------------
(***************************************************************************)
(* What the booking API promises about the bookings, with every request    *)
(* taken as a single step: each row changes as BookingRow has it, nobody   *)
(* books anew who is a party of a booking that still has to be paid for    *)
(* (middleware/softLock.ts), and only a session that runs is tracked       *)
(* (POST /session-tracking).                                               *)
(***************************************************************************)
EXTENDS BookingRow

CONSTANTS ownerOf,     \* the pet parent who creates each booking
          providerOf   \* the provider whom it is made with

VARIABLE tracking      \* whether each booking ran when it was tracked

lifecycleVars == <<rowVars, tracking>>

LifecycleInit ==
    /\ state = [b \in Bookings |-> "ABSENT"]
    /\ depositPaid = [b \in Bookings |-> FALSE]
    /\ finalPaid = [b \in Bookings |-> FALSE]
    /\ paidOut = [b \in Bookings |-> FALSE]
    /\ tracking = [b \in Bookings |-> {}]

MustPayFirst(u) ==
    \E b \in Bookings :
        /\ u \in {ownerOf[b], providerOf[b]}
        /\ state[b] \in {"PENDING_PAYMENT", "PAYMENT_LOCKED"}

Create(b) ==
    /\ state[b] = "ABSENT"
    /\ ~MustPayFirst(ownerOf[b])
    /\ state' = [state EXCEPT ![b] = "REQUESTED"]
    /\ UNCHANGED <<depositPaid, finalPaid, paidOut, tracking>>

Track(b) ==
    /\ state[b] = "IN_PROGRESS"
    /\ tracking' = [tracking EXCEPT ![b] = @ \cup {"RUNNING"}]
    /\ UNCHANGED rowVars

RowStep(b) ==
    \/ PayDeposit(b)
    \/ \E next \in BookingState : Progress(b, next)
    \/ PayFinal(b)
    \/ PayOut(b)

LifecycleNext ==
    \E b \in Bookings :
        \/ Create(b)
        \/ Track(b)
        \/ RowStep(b) /\ UNCHANGED tracking

LifecycleSpec == LifecycleInit /\ [][LifecycleNext]_lifecycleVars

=============================================================================
