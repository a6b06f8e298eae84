--------------------------- MODULE MCBookingChat ----------------------------
(***************************************************************************)
(* Instances of BookingChat for TLC.                                       *)
(***************************************************************************)
EXTENDS BookingChat, TLC

\* One party writes all messages.
OwnerWrites == [m \in Messages |-> "owner"]

=============================================================================
