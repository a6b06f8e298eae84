---------------------------- MODULE BookingPages ----------------------------
(***************************************************************************)
(* The two web pages of a booking, the owner's (src/web/src/app/parent/    *)
(* bookings/[id]/page.tsx) and the provider's (provider/bookings/[id]/     *)
(* page.tsx), against the booking API.                                     *)
(*                                                                         *)
(* A page shows a copy of the booking and offers the buttons that fit the  *)
(* copy.  A press disables the buttons until the answer is there and the   *)
(* copy is fetched again; a request that fails leaves the copy as it is.   *)
(* react-query keeps the copy: a newer refetch supersedes the one in       *)
(* flight, and one on focus joins it.  A Razorpay dialog does not keep the *)
(* buttons disabled.  The network loses requests and answers, and a reload *)
(* forgets all that a page knows.                                          *)
(*                                                                         *)
(* The API takes every request in one step, as BookingRow promises;        *)
(* module BookingRoutes has what happens when requests overlap.            *)
(***************************************************************************)
EXTENDS BookingRow, Naturals

CONSTANTS TheBooking,      \* the booking that both pages are open on
          OrdersPerStage,  \* bound on the Razorpay orders made for a payment
          None,            \* null
          MaxLosses        \* bound on lost requests and answers and on reloads

ASSUME PagesAssumption ==
    /\ Bookings = {TheBooking}
    /\ {OrdersPerStage, MaxLosses} \subseteq Nat

VARIABLES
    order,     \* the status of the payment row of an order, or "NONE"
    paid,      \* orders that Razorpay captured a payment of
    version,   \* how often the booking was written: what a copy is compared with
    page,      \* the page of each party
    checkout,  \* the orders that a Razorpay dialog is open for
    verify,    \* the orders that the handler of a dialog is verifying
    told,      \* the passwords that the provider has told the owner
    losses     \* requests and answers lost and pages reloaded, at most MaxLosses

Orders == {"DEPOSIT", "FINAL"} \X (1 .. OrdersPerStage)

OrdersOf(stage) == {stage} \X (1 .. OrdersPerStage)

apiVars == <<rowVars, order, paid>>
vars == <<apiVars, version, page, checkout, verify, told, losses>>

-----------------------------------------------------------------------------
(* The pages *)

Parties == {"owner", "provider"}

Ops == {"payDeposit", "startSession", "endSession", "payFinal", "confirm", "otpStart",
        "otpEnd", "cancel"}

\* null is neither a booking nor a request.
ASSUME NoneIsNull ==
    /\ None \notin [state : BookingState, depositPaidAt : BOOLEAN, version : Nat]
    /\ None \notin [op : Ops, pc : {"sent", "refused", "refetching"}]

now == [state |-> state[TheBooking], depositPaidAt |-> depositPaid[TheBooking],
        version |-> version]

\* copy:  the booking that useQuery has, or None;
\* fetch: whether a fetch is "none", "asked" or "read", and on its way back;
\* found: what a fetch that was read has found;
\* error: the last fetch failed, and nothing else is shown;
\* asked: the request that keeps the buttons disabled, or None;
\* own:   the version that an answered request wrote and the copy lacks, or 0;
\* otps:  the passwords that the provider's page shows.
Loading == [copy |-> None, fetch |-> "asked", found |-> None, error |-> FALSE,
            asked |-> None, own |-> 0, otps |-> {}]

\* The page shows its buttons, and they are not disabled.
Open(q) == page[q].copy # None /\ ~page[q].error /\ page[q].asked = None

\* Mutant of OwnerOffers: the end password is asked for while the session runs.
OwnerOffersEarly(copy) ==
    {op \in {"payDeposit", "startSession", "endSession", "payFinal", "cancel"} :
        \/ op = "payDeposit"   /\ copy.state \in {"REQUESTED", "CONFIRMED", "OTP_READY"}
        \/ op = "startSession" /\ copy.state = "OTP_READY"
        \/ op = "endSession"   /\ copy.state = "IN_PROGRESS"
        \/ op = "payFinal"     /\ copy.state = "PENDING_PAYMENT"
        \/ op = "cancel"       /\ copy.state \notin {"COMPLETED", "PAID_OUT"} \cup Cancelled}

\* canPayDeposit ... canCancel of the owner's page.
OwnerOffers(copy) ==
    {op \in {"payDeposit", "startSession", "endSession", "payFinal", "cancel"} :
        \/ op = "payDeposit"   /\ copy.state \in {"REQUESTED", "CONFIRMED", "OTP_READY"}
        \/ op = "startSession" /\ copy.state = "OTP_READY"
        \/ op = "endSession"   /\ copy.state = "PENDING_END_OTP"
        \/ op = "payFinal"     /\ copy.state = "PENDING_PAYMENT"
        \/ op = "cancel"       /\ copy.state \notin {"COMPLETED", "PAID_OUT"} \cup Cancelled}

\* Mutant of ProviderOffers: a confirmed booking is offered its password.
ProviderOffersUnpaid(copy) ==
    {op \in {"confirm", "otpStart", "otpEnd", "cancel"} :
        \/ op = "confirm"  /\ copy.state = "REQUESTED"
        \/ op = "otpStart" /\ copy.state = "CONFIRMED"
        \/ op = "otpEnd"   /\ copy.state = "IN_PROGRESS"
        \/ op = "cancel"   /\ copy.state \notin {"COMPLETED", "PAID_OUT"} \cup Cancelled}

\* canConfirm ... canCancel of the provider's page.
ProviderOffers(copy) ==
    {op \in {"confirm", "otpStart", "otpEnd", "cancel"} :
        \/ op = "confirm"  /\ copy.state = "REQUESTED"
        \/ op = "otpStart" /\ copy.state = "CONFIRMED" /\ copy.depositPaidAt
        \/ op = "otpEnd"   /\ copy.state = "IN_PROGRESS"
        \/ op = "cancel"   /\ copy.state \notin {"COMPLETED", "PAID_OUT"} \cup Cancelled}

Offers(q) == IF q = "owner" THEN OwnerOffers(page[q].copy) ELSE ProviderOffers(page[q].copy)

\* The password that the owner has to type in, if the request needs one.
Password(op) == CASE op = "startSession" -> {"start"}
                  [] op = "endSession"   -> {"end"}
                  [] OTHER               -> {}

\* The payment stage that a request pays for.
StageOf(op) == IF op = "payDeposit" THEN "DEPOSIT" ELSE "FINAL"

Paying == {"payDeposit", "payFinal"}

\* post() and pay(): the buttons stay disabled while the request is out, and no
\* longer: not while a dialog is open.
Press(q, op) ==
    /\ Open(q)
    /\ op \in Offers(q)
    /\ Password(op) \subseteq told
    /\ op \in Paying => \E o \in OrdersOf(StageOf(op)) : order[o] = "NONE"
    /\ page' = [page EXCEPT ![q].asked = [op |-> op, pc |-> "sent"]]
    /\ UNCHANGED <<apiVars, checkout, verify, told, losses>>

-----------------------------------------------------------------------------
(* The booking API *)

Settled(stage) == \E o \in OrdersOf(stage) : order[o] = "CAPTURED"

\* The state that a request asks for.
Wanted(q, op) ==
    CASE op = "confirm"      -> "CONFIRMED"
      [] op = "otpStart"     -> "OTP_READY"
      [] op = "startSession" -> "IN_PROGRESS"
      [] op = "otpEnd"       -> "PENDING_END_OTP"
      [] op = "endSession"   -> "PENDING_PAYMENT"
      [] op = "cancel"       -> IF q = "owner" THEN "CANCELLED_BY_OWNER"
                                               ELSE "CANCELLED_BY_PROVIDER"

\* createPaymentOrder: the stage is due and not settled.
OrderAdmitted(op) ==
    /\ ~Settled(StageOf(op))
    /\ IF op = "payDeposit" THEN now.state \in {"REQUESTED", "CONFIRMED", "OTP_READY"}
                            ELSE now.state = "PENDING_PAYMENT" /\ now.depositPaidAt

Admitted(q, op) ==
    IF op \in Paying THEN OrderAdmitted(op)
    ELSE CanTransition(now.state, Wanted(q, op)) /\ (op = "otpStart" => now.depositPaidAt)

\* Order ids are fresh, and one is as good as another.
CreateOrder(op, o) ==
    /\ o = CHOOSE x \in OrdersOf(StageOf(op)) : order[x] = "NONE"
    /\ order' = [order EXCEPT ![o] = "CREATED"]
    /\ UNCHANGED <<rowVars, paid>>

Perform(q, op) ==
    /\ Progress(TheBooking, Wanted(q, op))
    /\ UNCHANGED <<order, paid>>

\* The request of a page is taken.
Handle(q) ==
    LET asked == page[q].asked IN
    /\ asked # None /\ asked.pc = "sent"
    /\ \/ /\ Admitted(q, asked.op)
          /\ \/ /\ asked.op \in Paying
                /\ \E o \in Orders :
                      /\ CreateOrder(asked.op, o)
                      /\ page' = [page EXCEPT ![q].asked =
                                     [op |-> asked.op, pc |-> "ordered", order |-> o]]
             \/ /\ asked.op \notin Paying
                /\ Perform(q, asked.op)
                /\ page' = [page EXCEPT ![q].asked =
                               [op |-> asked.op, pc |-> "done", version |-> version + 1]]
       \/ /\ ~Admitted(q, asked.op)
          /\ page' = [page EXCEPT ![q].asked = [op |-> asked.op, pc |-> "refused"]]
          /\ UNCHANGED apiVars
    /\ UNCHANGED <<checkout, verify, told, losses>>

\* applyCapturedPaymentInTx: a second final payment is refused.
RecordCapture(o) ==
    /\ order' = [order EXCEPT ![o] = "CAPTURED"]
    /\ IF o \in OrdersOf("DEPOSIT") THEN PayDeposit(TheBooking) ELSE PayFinal(TheBooking)
    /\ UNCHANGED paid

Recordable(o) ==
    /\ o \in paid /\ order[o] = "CREATED"
    /\ o \in OrdersOf("FINAL") => now.state = "PENDING_PAYMENT"

Webhook(o) ==
    /\ Recordable(o)
    /\ RecordCapture(o)
    /\ UNCHANGED <<page, checkout, verify, told, losses>>

\* The payout of the booking, by whoever releases it.
Release ==
    /\ PayOut(TheBooking)
    /\ UNCHANGED <<order, paid, page, checkout, verify, told, losses>>

-----------------------------------------------------------------------------
(* Answers and refetches *)

\* Mutant of Invalidate: a fetch that is in flight will do.
InvalidateJoining(p) == IF p.fetch = "none" THEN [p EXCEPT !.fetch = "asked"] ELSE p

\* invalidateQueries: a new fetch supersedes the one in flight, and whoever waits
\* for that one waits for the new one.
Invalidate(p) == [p EXCEPT !.fetch = "asked", !.found = None]

OtpOf(op) == CASE op = "otpStart" -> {"start"} [] op = "otpEnd" -> {"end"} [] OTHER -> {}

\* The answer of post(): success shows the password and refetches.
Answer(q) ==
    LET asked == page[q].asked IN
    /\ asked # None
    /\ \/ /\ asked.pc = "done"
          /\ page' = [page EXCEPT ![q] =
                 [Invalidate(page[q]) EXCEPT !.asked = [op |-> asked.op, pc |-> "refetching"],
                                             !.own = asked.version,
                                             !.otps = @ \cup OtpOf(asked.op)]]
          /\ UNCHANGED checkout
       \/ /\ asked.pc = "ordered"
          /\ page' = [page EXCEPT ![q].asked = None]
          /\ checkout' = checkout \cup {asked.order}
       \/ /\ asked.pc = "refused"
          /\ page' = [page EXCEPT ![q].asked = None]
          /\ UNCHANGED checkout
    /\ UNCHANGED <<apiVars, verify, told, losses>>

\* The refetch that a button waits for is over.
Unblock(p) == IF p.asked # None /\ p.asked.pc = "refetching" THEN [p EXCEPT !.asked = None] ELSE p

ReadBooking(q) ==
    /\ page[q].fetch = "asked"
    /\ page' = [page EXCEPT ![q].fetch = "read", ![q].found = now]
    /\ UNCHANGED <<apiVars, checkout, verify, told, losses>>

ShowBooking(q) ==
    LET found == page[q].found IN
    /\ page[q].fetch = "read"
    /\ page' = [page EXCEPT ![q] =
           [Unblock(page[q]) EXCEPT !.copy = found, !.found = None, !.fetch = "none",
                                    !.error = FALSE,
                                    !.own = IF found.version >= @ THEN 0 ELSE @]]
    /\ UNCHANGED <<apiVars, checkout, verify, told, losses>>

Behind(q) == page[q].copy # None /\ page[q].copy.version # version

\* The window gets the focus with a copy gone stale.  (A refetch that finds
\* nothing new is left out.)
Focus(q) ==
    /\ page[q].fetch = "none"
    /\ page[q].error \/ Behind(q)
    /\ page' = [page EXCEPT ![q].fetch = "asked"]
    /\ UNCHANGED <<apiVars, checkout, verify, told, losses>>

\* The provider reads a password out to the owner.
Tell(otp) ==
    /\ otp \in page["provider"].otps \ told
    /\ told' = told \cup {otp}
    /\ UNCHANGED <<apiVars, page, checkout, verify, losses>>

-----------------------------------------------------------------------------
(* The Razorpay dialog *)

\* A payment started in a dialog may be captured after the dialog was closed.
Charge(o) ==
    /\ order[o] # "NONE" /\ o \notin paid
    /\ paid' = paid \cup {o}
    /\ IF o \in checkout
       THEN checkout' = checkout \ {o} /\ verify' = verify \cup {o}
       ELSE UNCHANGED <<checkout, verify>>
    /\ UNCHANGED <<rowVars, order, page, told, losses>>

Dismiss(o) ==
    /\ o \in checkout
    /\ checkout' = checkout \ {o}
    /\ UNCHANGED <<apiVars, page, verify, told, losses>>

\* verify-payment records the capture unless the webhook was first; on success
\* the page refetches.  Its buttons were never disabled.
Verify(o) ==
    /\ o \in verify
    /\ IF Recordable(o) THEN RecordCapture(o) ELSE UNCHANGED apiVars
    /\ page' = [page EXCEPT !["owner"] =
           IF order'[o] = "CAPTURED" THEN Invalidate(@) ELSE @]
    /\ verify' = verify \ {o}
    /\ UNCHANGED <<checkout, told, losses>>

-----------------------------------------------------------------------------
(* Faults *)

Lose == losses < MaxLosses /\ losses' = losses + 1

\* A request or its answer is lost: the page shows an error and enables its
\* buttons, and the copy stays.
LoseAnswer(q) ==
    /\ page[q].asked # None /\ page[q].asked.pc # "refetching"
    /\ Lose
    /\ page' = [page EXCEPT ![q].asked = None]
    /\ UNCHANGED <<apiVars, checkout, verify, told>>

LoseFetch(q) ==
    /\ page[q].fetch # "none"
    /\ Lose
    /\ page' = [page EXCEPT ![q] =
           [Unblock(@) EXCEPT !.fetch = "none", !.found = None, !.error = TRUE]]
    /\ UNCHANGED <<apiVars, checkout, verify, told>>

LoseVerify(o) ==
    /\ o \in verify
    /\ Lose
    /\ verify' = verify \ {o}
    /\ UNCHANGED <<apiVars, page, checkout, told>>

\* A request under way is taken all the same: the model has that happen first.
Reload(q) ==
    /\ page[q].asked # None => page[q].asked.pc # "sent"
    /\ Lose
    /\ page' = [page EXCEPT ![q] = Loading]
    /\ IF q = "owner" THEN checkout' = {} /\ verify' = {} ELSE UNCHANGED <<checkout, verify>>
    /\ UNCHANGED <<apiVars, told>>

-----------------------------------------------------------------------------

Init ==
    /\ state = [b \in Bookings |-> "REQUESTED"]
    /\ depositPaid = [b \in Bookings |-> FALSE]
    /\ finalPaid = [b \in Bookings |-> FALSE]
    /\ paidOut = [b \in Bookings |-> FALSE]
    /\ order = [o \in Orders |-> "NONE"]
    /\ paid = {}
    /\ version = 0
    /\ page = [q \in Parties |-> Loading]
    /\ checkout = {} /\ verify = {}
    /\ told = {}
    /\ losses = 0

\* What goes on without anybody's doing.
Proceed(q) == Handle(q) \/ Answer(q)
Fetch(q)   == ReadBooking(q) \/ ShowBooking(q)

Step ==
    \/ \E q \in Parties :
          \/ Proceed(q) \/ Fetch(q)
          \/ Focus(q)
          \/ LoseAnswer(q)
          \/ LoseFetch(q)
          \/ Reload(q)
          \/ \E op \in Ops : Press(q, op)
    \/ \E o \in Orders : Charge(o) \/ Dismiss(o) \/ Verify(o) \/ LoseVerify(o) \/ Webhook(o)
    \/ \E otp \in {"start", "end"} : Tell(otp)
    \/ Release

\* Every write of what a page shows counts.
CountWrites ==
    version' = IF <<state, depositPaid>>' # <<state, depositPaid>> THEN version + 1 ELSE version

Next == Step /\ CountWrites

Spec == Init /\ [][Next]_vars

\* Requests, answers and refetches go on, pages get the focus, the provider tells
\* the owner a password that the page shows, and the owner who was told the end
\* password presses the button again and again.
FairSpec ==
    /\ Spec
    /\ \A q \in Parties : WF_vars(Proceed(q) /\ CountWrites) /\ WF_vars(Fetch(q) /\ CountWrites)
    /\ SF_vars(Focus("owner") /\ CountWrites)
    /\ WF_vars(Tell("end") /\ CountWrites)
    /\ SF_vars(Press("owner", "endSession") /\ CountWrites)

-----------------------------------------------------------------------------
(* Properties *)

\* Buttons are enabled on a copy that has the page's own last write in it: no
\* button is offered that only fits the booking before the answered request,
\* however refetches of presses, focus and payments overlap.
ReadYourWrites ==
    \A q \in Parties : Open(q) => page[q].own = 0

\* The pages and the API agree on whose turn it is.  On an up-to-date copy all
\* that the API would take from a party is offered to it, and it refuses none of
\* the buttons but the deposit paid before and the cancellation come too late.
OffersMatchApi ==
    \A q \in Parties :
        Open(q) /\ page[q].copy.version = version =>
            LET taken == {op \in (IF q = "owner" THEN {"payDeposit", "startSession", "endSession",
                                                        "payFinal", "cancel"}
                                  ELSE {"confirm", "otpStart", "otpEnd", "cancel"}) :
                             Admitted(q, op)}
            IN  taken \subseteq Offers(q) /\ Offers(q) \ taken \subseteq {"payDeposit", "cancel"}

\* Nobody has the end password any more.
EndPasswordLost ==
    /\ "end" \notin told \cup page["provider"].otps
    /\ page["provider"].asked # None => page["provider"].asked.op # "otpEnd"

\* A session whose end was requested gets paid for in the end, although the
\* owner's copy is old and requests get lost, unless the password is: no page
\* shows it again and no request makes another.
EndedSessionReachesPayment ==
    state[TheBooking] = "PENDING_END_OTP" ~>
        state[TheBooking] = "PENDING_PAYMENT" \/ EndPasswordLost

=============================================================================
