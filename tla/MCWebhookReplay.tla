-------------------------- MODULE MCWebhookReplay --------------------------
(***************************************************************************)
(* Instances of WebhookReplay for TLC.                                     *)
(***************************************************************************)
EXTENDS WebhookReplay, TLC

OneOwner == [b \in Bookings |-> "owner"]

OneProvider == [b \in Bookings |-> "provider"]

AllTypes == {"payment.captured", "payment.authorized"}

=============================================================================
