--------------------------- MODULE WebhookReplay ----------------------------
(***************************************************************************)
(* Replay of webhook events by operators (replayWebhookByDedupeKey of      *)
(* lib/payments/recovery.ts), next to the deliveries of Razorpay: the only *)
(* way on for an event that failed once, since its redeliveries are taken  *)
(* for already processed.                                                  *)
(*                                                                         *)
(* A replay runs processWebhook on the type and payload that the event's   *)
(* row has stored, under a key of its own, so neither the row of the event *)
(* nor its lock is in the way.  The rows of replays are not kept here:     *)
(* nothing but another replay would read them.                             *)
(***************************************************************************)
EXTENDS PaymentService

VARIABLES
    storedType,  \* WebhookEvent.eventType by dedupeKey, or None
    linked       \* the events whose row has a bookingId

replayVars == <<vars, storedType, linked>>

\* The row is inserted by the call whose step makes it visible; later calls under
\* its key update the status and leave the type.
Stores(c, k) ==
    /\ call'[c] # call[c]
    /\ call[c].op = "webhook" /\ DedupeKey(EventOf(c)) = k

StoreType ==
    storedType' = [k \in DedupeKeys |->
        IF webhookEvent[k] = "NONE" /\ webhookEvent'[k] # "NONE"
        THEN EventOf(CHOOSE c \in Calls : Stores(c, k)).type
        ELSE storedType[k]]

\* Mutant of LinkEvents: the row gets its bookingId however the event ends.
LinkEventsOfAll == linked' = linked \cup {k \in DedupeKeys : webhookEvent'[k] # "NONE"}

\* processWebhook writes bookingId in the one update that says PROCESSED.
LinkEvents == linked' = linked \cup {k \in DedupeKeys : webhookEvent'[k] = "PROCESSED"}

\* Of the FAILED events, the report of a booking counts those with its id.
CountedFailures == {k \in linked : webhookEvent[k] = "FAILED"}

-----------------------------------------------------------------------------

\* Mutant of BeginReplay: the replay runs under the key of the event, which is
\* known.
BeginReplayUnderKey(c, k) == FALSE

\* The row is there and webhooks are not paused.  An event of another type is
\* ignored once more, which changes nothing.
BeginReplay(c, k) ==
    /\ Free(c)
    /\ webhookEvent[k] # "NONE"
    /\ storedType[k] = "payment.captured"
    /\ ~paused
    /\ call' = [call EXCEPT ![c] = [op |-> "replay", pc |-> "inserted", payment |-> k[1],
                                    type |-> storedType[k]]]
    /\ UNCHANGED <<routesVars, tables, webhookEvent, rzpVars, control>>

\* The lookup of the payment row: a foreign order is ignored, a repeat confirmed,
\* a mismatch refused, and each ends the replay.
ReplayLookUp(c) ==
    LET p == call[c].payment IN
    /\ Running(c, "replay", "inserted")
    /\ IF paidOrder[p] \in Orders /\ ~RowRepeats(p) /\ ~RowMismatches(p)
       THEN GoTo(c, "apply") ELSE Return(c)
    /\ UNCHANGED <<routesVars, tables, webhookEvent, rzpVars, control>>

CommitReplay(c) ==
    /\ Running(c, "replay", "apply")
    /\ IF CanApply(c) THEN ApplyCapture(c) ELSE UNCHANGED <<routesVars, tables>>
    /\ Return(c)
    /\ UNCHANGED <<webhookEvent, rzpVars, control>>

ReplayStep(c) == ReplayLookUp(c) \/ CommitReplay(c)

-----------------------------------------------------------------------------

ReplayInit ==
    /\ Init
    /\ storedType = [k \in DedupeKeys |-> None]
    /\ linked = {}

Replaying ==
    /\ \E c \in Calls : ReplayStep(c) \/ \E k \in DedupeKeys : BeginReplay(c, k)
    /\ UNCHANGED <<storedType, linked>>

ReplayNext ==
    \/ Next /\ StoreType /\ LinkEvents
    \/ Replaying

ReplaySpec == ReplayInit /\ [][ReplayNext]_replayVars

\* The event loop runs every call, Razorpay redelivers a capture until it is
\* answered with 200, and operators replay a capture again and again as long as
\* a row says FAILED.
FairReplaySpec ==
    /\ ReplaySpec
    /\ \A c \in Calls : WF_vars(CallStep(c) \/ ReplayStep(c))
    /\ \A p \in Payments :
          LET e == [payment |-> p, type |-> "payment.captured"] IN
          SF_vars(e \notin acked /\ Deliver(e))
    /\ SF_vars(\E k \in DedupeKeys, c \in Calls :
                   webhookEvent[k] = "FAILED" /\ BeginReplay(c, k))

\* The failures that a booking's report counts are of payments that were
\* recorded all the same: a failure that lost the payment has no booking id.
CountedFailuresWereRecorded ==
    \A e \in Event : e.type = "payment.captured" /\ DedupeKey(e) \in CountedFailures =>
        paidOrder[e.payment] \in Orders /\ Captured(paidOrder[e.payment])

Recorded(o) == HasRow(o) /\ Settling(txRow[o].booking, txRow[o].stage) # {}

\* With operators who replay failed events, captured money is recorded in the
\* end, whatever calls race and whichever of them fail: when the event of a
\* payment is still to be answered and webhooks are not paused, its stage gets
\* settled, unless an event of another type holds its key.
ReplayRecordsMoney ==
    \A p \in Payments, o \in Orders :
        LET e == [payment |-> p, type |-> "payment.captured"] IN
        paidOrder[p] = o /\ ~paused /\ e \notin acked
            ~> Recorded(o) \/ storedType[DedupeKey(e)] \notin {None, "payment.captured"}

=============================================================================
