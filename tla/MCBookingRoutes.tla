-------------------------- MODULE MCBookingRoutes ---------------------------
(***************************************************************************)
(* Instances of BookingRoutes for TLC.                                     *)
(***************************************************************************)
EXTENDS BookingRoutes, TLC

\* Every booking is made by the same pet parent, so that the soft lock bites.
OneOwner == [b \in Bookings |-> "owner"]

OneProvider == [b \in Bookings |-> "provider"]

\* Request slots, and passwords that only otp/start draws, are interchangeable in the
\* safety properties.
Interchangeable == Permutations(Requests) \cup Permutations(StartOtps)

=============================================================================
