--------------------------- MODULE MCBookingPages ---------------------------
(***************************************************************************)
(* Instances of BookingPages for TLC.                                      *)
(***************************************************************************)
EXTENDS BookingPages, TLC

OnlyBooking == {TheBooking}

=============================================================================
