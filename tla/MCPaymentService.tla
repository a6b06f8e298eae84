-------------------------- MODULE MCPaymentService --------------------------
(***************************************************************************)
(* Instances of PaymentService for TLC.                                    *)
(***************************************************************************)
EXTENDS PaymentService, TLC

OneOwner == [b \in Bookings |-> "owner"]

OneProvider == [b \in Bookings |-> "provider"]

\* Ids that the service only compares are interchangeable.
Interchangeable ==
    Permutations(Calls) \cup Permutations(Orders) \cup Permutations(Payments)
        \cup Permutations(Keys)

CapturedOnly == {"payment.captured"}

=============================================================================
