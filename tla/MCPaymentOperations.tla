------------------------ MODULE MCPaymentOperations -------------------------
(***************************************************************************)
(* Instances of PaymentOperations for TLC.                                 *)
(***************************************************************************)
EXTENDS PaymentOperations, TLC

OneOwner == [b \in Bookings |-> "owner"]

OneProvider == [b \in Bookings |-> "provider"]

\* Rs 97.01, which the stages cannot share evenly.
OddPrice == [b \in Bookings |-> 9701]

\* Ids that the service only compares are interchangeable.
Interchangeable ==
    Permutations(Calls) \cup Permutations(Orders) \cup Permutations(Payments)
        \cup Permutations(Keys)

CapturedOnly == {"payment.captured"}

=============================================================================
