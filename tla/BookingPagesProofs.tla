------------------------- MODULE BookingPagesProofs -------------------------
(***************************************************************************)
(* What holds of BookingPages for any number of orders and of losses.      *)
(***************************************************************************)
EXTENDS BookingPages, TLAPS

-----------------------------------------------------------------------------
(* The booking *)

\* What the API keeps of the booking: the service only after the deposit, and a
\* captured final payment only with the state that comes with it.
BookingSound ==
    /\ state \in [Bookings -> BookingState]
    /\ depositPaid \in [Bookings -> BOOLEAN]
    /\ order \in [Orders -> {"NONE", "CREATED", "CAPTURED"}]
    /\ paid \subseteq Orders
    /\ now.state \in {"OTP_READY", "IN_PROGRESS", "PENDING_END_OTP", "PENDING_PAYMENT"}
           => now.depositPaidAt
    /\ Settled("FINAL") => now.state \in {"PAYOUT_PENDING", "PAID_OUT"}

\* The ways in which the API changes anything.
ApiStep ==
    \/ UNCHANGED apiVars
    \/ \E op \in Paying, o \in Orders : CreateOrder(op, o)
    \/ \E q \in Parties, op \in Ops \ Paying : Perform(q, op)
    \/ \E o \in Orders : Recordable(o) /\ RecordCapture(o)
    \/ PayOut(TheBooking) /\ UNCHANGED <<order, paid>>
    \/ \E o \in Orders : paid' = paid \cup {o} /\ UNCHANGED <<rowVars, order>>

\* A step along transitionMap goes to another state, never leaves the states of a
\* paid booking, and gets to the service with the deposit only.
LEMMA ProgressMoves ==
    ASSUME NEW s \in BookingState, NEW next, CanTransition(s, next)
    PROVE  /\ next \in BookingState
           /\ next # s
           /\ s \notin {"PAID_OUT"} \cup Cancelled
           /\ s = "PAYOUT_PENDING" => next \in {"PAID_OUT", "DISPUTED"}
           /\ next = "IN_PROGRESS" => s = "OTP_READY"
           /\ next = "PENDING_END_OTP" => s = "IN_PROGRESS"
           /\ next = "PENDING_PAYMENT" => s = "PENDING_END_OTP"
BY DEF BookingState, CanTransition, transitionMap, Cancelled

LEMMA BookingStep ==
    ASSUME BookingSound, ApiStep
    PROVE  BookingSound'
<1> USE PagesAssumption DEF BookingSound
<1>1. CASE UNCHANGED apiVars
  BY <1>1 DEF apiVars, rowVars, now, Settled
<1>2. ASSUME NEW op \in Paying, NEW o \in Orders, CreateOrder(op, o)
      PROVE  BookingSound'
  <2>1. Settled("FINAL")' => Settled("FINAL")
    <3>1. order' = [order EXCEPT ![o] = "CREATED"]
      BY <1>2 DEF CreateOrder
    <3> QED
      BY <3>1 DEF Settled, OrdersOf, Orders
  <2> QED
    BY <1>2, <2>1 DEF CreateOrder, rowVars, now
<1>3. ASSUME NEW q \in Parties, NEW op \in Ops \ Paying, Perform(q, op)
      PROVE  BookingSound'
  <2> DEFINE s    == state[TheBooking]
             next == Wanted(q, op)
  <2> HIDE DEF next
  <2>1. /\ CanTransition(s, next) /\ s \in BookingState
        /\ state' = [state EXCEPT ![TheBooking] = next]
        /\ next = "OTP_READY" => depositPaid[TheBooking]
        /\ UNCHANGED <<depositPaid, order, paid>>
    BY <1>3 DEF Perform, Progress, next
  <2>2. state' \in [Bookings -> BookingState] /\ now'.state = next
    BY <2>1, ProgressMoves DEF now
  <2>3. Settled("FINAL")' => now.state \in {"PAYOUT_PENDING", "PAID_OUT"}
    BY <2>1 DEF Settled
  <2>4. ~Settled("FINAL")'
    <3>1. next \notin {"PAID_OUT", "DISPUTED"}
      BY <1>3 DEF Perform, Progress, Cancelled, next
    <3> QED
      BY <2>1, <2>3, <3>1, ProgressMoves DEF now
  <2>5. next \in {"OTP_READY", "IN_PROGRESS", "PENDING_END_OTP", "PENDING_PAYMENT"}
            => depositPaid[TheBooking]
    BY <2>1, ProgressMoves DEF now
  <2> QED
    BY <2>1, <2>2, <2>4, <2>5 DEF now
<1>4. ASSUME NEW o \in Orders, Recordable(o), RecordCapture(o)
      PROVE  BookingSound'
  <2>1. order' = [order EXCEPT ![o] = "CAPTURED"] /\ UNCHANGED paid
    BY <1>4 DEF RecordCapture
  <2>2. CASE o \in OrdersOf("DEPOSIT")
    <3>1. PayDeposit(TheBooking)
      BY <1>4, <2>2 DEF RecordCapture
    <3>2. o \notin OrdersOf("FINAL")
      BY <2>2 DEF OrdersOf
    <3>3. Settled("FINAL")' => Settled("FINAL")
      BY <2>1, <3>2 DEF Settled, OrdersOf, Orders
    <3> QED
      BY <2>1, <3>1, <3>3 DEF PayDeposit, now
  <2>3. CASE o \notin OrdersOf("DEPOSIT")
    BY <1>4, <2>1, <2>3 DEF RecordCapture, PayFinal, now, BookingState
  <2> QED
    BY <2>2, <2>3
<1>5. CASE PayOut(TheBooking) /\ UNCHANGED <<order, paid>>
  BY <1>5 DEF PayOut, now, Settled, BookingState
<1>6. CASE \E o \in Orders : paid' = paid \cup {o} /\ UNCHANGED <<rowVars, order>>
  BY <1>6 DEF rowVars, now, Settled
<1> QED
  BY <1>1, <1>2, <1>3, <1>4, <1>5, <1>6 DEF ApiStep

-----------------------------------------------------------------------------
(* What a page knows *)

Snapshot == [state : BookingState, depositPaidAt : BOOLEAN, version : Nat]

Request ==
    [op : Ops, pc : {"sent", "refused", "refetching"}]
        \cup [op : Ops, pc : {"ordered"}, order : Orders]
        \cup [op : Ops, pc : {"done"}, version : Nat]

Page == [copy  : Snapshot \cup {None},
         fetch : {"none", "asked", "read"},
         found : Snapshot \cup {None},
         error : BOOLEAN,
         asked : Request \cup {None},
         own   : Nat,
         otps  : SUBSET {"start", "end"}]

\* What a page has seen is old, or it is how things are: no write goes uncounted.
Seen(copy, n) ==
    /\ copy \in Snapshot
    /\ copy.version <= n.version
    /\ copy.version = n.version => copy = n

\* A page lacks a write of its own only while it shows an error or waits for the
\* refetch, and what a fetch brings was read after that write.
PageSound(p, n) ==
    /\ p \in Page
    /\ p.copy # None => Seen(p.copy, n)
    /\ p.fetch = "read" => Seen(p.found, n) /\ p.found.version >= p.own
    /\ p.own <= n.version
    /\ p.asked # None /\ p.asked.pc = "done" => p.asked.version <= n.version
    /\ p.own > 0 => p.error \/ (p.asked # None /\ p.asked.pc = "refetching")

PagesSound ==
    /\ version \in Nat
    /\ page \in [Parties -> Page]
    /\ \A q \in Parties : PageSound(page[q], now)

PagesInv == BookingSound /\ PagesSound

LEMMA NowIsSnapshot ==
    ASSUME BookingSound, version \in Nat
    PROVE  now \in Snapshot
BY PagesAssumption DEF BookingSound, now, Snapshot

\* Writes are counted, so what was seen is older after each.
LEMMA NowMoves ==
    ASSUME BookingSound, BookingSound', version \in Nat, CountWrites
    PROVE  /\ now \in Snapshot /\ now' \in Snapshot /\ version' \in Nat
           /\ now.version = version /\ now'.version = version'
           /\ now' = now \/ now'.version = now.version + 1
<1>1. version' \in Nat
  BY DEF CountWrites
<1>2. now' \in Snapshot /\ now'.version = version'
  BY <1>1, PagesAssumption DEF BookingSound, now, Snapshot
<1>3. now' = now \/ now'.version = now.version + 1
  BY DEF CountWrites, now
<1> QED
  BY <1>1, <1>2, <1>3, NowIsSnapshot DEF now

\* What a page knows stays true.
LEMMA KnowledgeKept ==
    ASSUME NEW p, NEW n \in Snapshot, NEW m \in Snapshot, PageSound(p, n),
           m = n \/ m.version = n.version + 1
    PROVE  PageSound(p, m)
<1>1. n.version \in Nat /\ m.version \in Nat
  BY DEF Snapshot
<1>2. ASSUME NEW copy, Seen(copy, n)
      PROVE  Seen(copy, m)
  BY <1>1, <1>2 DEF Seen, Snapshot
<1>3. CASE m = n
  BY <1>3
<1>4. CASE m.version = n.version + 1
  <2>1. p.own \in Nat /\ (p.asked # None /\ p.asked.pc = "done" => p.asked.version \in Nat)
    BY DEF PageSound, Page, Request
  <2> QED
    BY <1>1, <1>2, <1>4, <2>1 DEF PageSound
<1> QED
  BY <1>3, <1>4

\* One page changes; the other knows what it knew.
LEMMA OnePageStep ==
    ASSUME PagesInv, BookingSound', CountWrites,
           NEW q \in Parties, NEW p, page' = [page EXCEPT ![q] = p], PageSound(p, now')
    PROVE  PagesSound'
<1>1. ASSUME NEW r \in Parties
      PROVE  PageSound(page'[r], now')
  <2>1. page'[r] = IF r = q THEN p ELSE page[r]
    BY DEF PagesInv, PagesSound
  <2> QED
    BY <2>1, NowMoves, KnowledgeKept DEF PagesInv, PagesSound
<1>2. page' \in [Parties -> Page]
  BY DEF PagesInv, PagesSound, PageSound
<1> QED
  BY <1>1, <1>2, NowMoves DEF PagesInv, PagesSound

LEMMA NoPageStep ==
    ASSUME PagesInv, BookingSound', CountWrites, UNCHANGED page
    PROVE  PagesSound'
BY NowMoves, KnowledgeKept DEF PagesInv, PagesSound

-----------------------------------------------------------------------------
(* The steps *)

\* What a page does on its own: presses, fetches, focus, losses.
LEMMA OwnStep ==
    ASSUME PagesInv, BookingSound', CountWrites, NEW q \in Parties,
           \/ \E op \in Ops : Press(q, op)
           \/ Answer(q) \/ ReadBooking(q) \/ ShowBooking(q) \/ Focus(q)
           \/ LoseAnswer(q) \/ LoseFetch(q) \/ Reload(q)
    PROVE  PagesSound'
<1> DEFINE p == page[q]
<1>1. p \in Page /\ PageSound(p, now) /\ now' = now /\ now \in Snapshot
  <2>1. UNCHANGED <<state, depositPaid>>
    BY DEF Press, Answer, ReadBooking, ShowBooking, Focus, LoseAnswer, LoseFetch, Reload,
       apiVars, rowVars
  <2> QED
    BY <2>1, NowIsSnapshot DEF PagesInv, PagesSound, CountWrites, now
<1>2. SUFFICES \E new : page' = [page EXCEPT ![q] = new] /\ PageSound(new, now)
  BY <1>1, <1>2, OnePageStep
<1>3. ASSUME NEW op \in Ops, Press(q, op)
      PROVE  PageSound([p EXCEPT !.asked = [op |-> op, pc |-> "sent"]], now)
  BY <1>1, <1>3 DEF Press, Open, PageSound, Page, Request
<1>4. CASE Answer(q)
  <2> DEFINE done == [Invalidate(p) EXCEPT !.asked = [op |-> p.asked.op, pc |-> "refetching"],
                                           !.own = p.asked.version,
                                           !.otps = @ \cup OtpOf(p.asked.op)]
             idle == [p EXCEPT !.asked = None]
  <2>1. \/ p.asked.pc = "done" /\ page' = [page EXCEPT ![q] = done]
        \/ p.asked.pc \in {"ordered", "refused"} /\ page' = [page EXCEPT ![q] = idle]
    <3>1. CASE p.asked.pc = "done"
      BY <1>4, <3>1 DEF Answer
    <3>2. CASE p.asked.pc # "done"
      <4>1. p.asked.pc \in {"ordered", "refused"} /\ page' = [page EXCEPT ![q].asked = None]
        BY <1>4, <3>2 DEF Answer
      <4> QED
        BY <4>1
    <3> QED
      BY <3>1, <3>2
  <2>2. p.asked \in Request
    BY <1>1, <1>4 DEF Answer, Page
  <2>3. ASSUME p.asked.pc = "done"
        PROVE  PageSound(done, now)
    <3>1. p.asked.op \in Ops /\ p.asked.version \in Nat /\ p.asked.version <= now.version
      BY <1>1, <1>4, <2>2, <2>3 DEF Answer, Request, PageSound
    <3>2. [op |-> p.asked.op, pc |-> "refetching"] \in Request \ {None}
      BY <3>1, NoneIsNull DEF Request
    <3>3. OtpOf(p.asked.op) \subseteq {"start", "end"}
      BY DEF OtpOf
    <3> DEFINE request == [op |-> p.asked.op, pc |-> "refetching"]
               otps == p.otps \cup OtpOf(p.asked.op)
    <3>4. request.pc = "refetching" /\ otps \in SUBSET {"start", "end"}
      BY <1>1, <3>3 DEF Page
    <3>5. done = [p EXCEPT !.fetch = "asked", !.found = None, !.asked = request,
                           !.own = p.asked.version, !.otps = otps]
      BY <1>1 DEF Invalidate, Page
    <3> HIDE DEF request, otps, done
    <3>6. request \in Request \ {None}
      BY <3>2 DEF request
    <3> QED
      BY <1>1, <3>1, <3>4, <3>5, <3>6 DEF PageSound, Page
  <2>4. ASSUME p.asked.pc \in {"ordered", "refused"}
        PROVE  PageSound(idle, now)
    BY <1>1, <2>4 DEF PageSound, Page
  <2> QED
    BY <2>1, <2>3, <2>4
<1>5. ASSUME ReadBooking(q)
      PROVE  PageSound([p EXCEPT !.fetch = "read", !.found = now], now)
  <2> DEFINE new == [p EXCEPT !.fetch = "read", !.found = now]
  <2>1. Seen(now, now) /\ now.version >= p.own
    BY <1>1 DEF Seen, Snapshot, PageSound, Page
  <2>2. /\ new \in Page /\ new.found = now /\ new.copy = p.copy /\ new.own = p.own
        /\ new.asked = p.asked /\ new.error = p.error
    BY <1>1 DEF Page
  <2> HIDE DEF new
  <2>3. PageSound(new, now)
    BY <1>1, <2>1, <2>2 DEF PageSound
  <2> QED
    BY <2>3 DEF new
<1>6. CASE ShowBooking(q)
  <2> DEFINE new == [Unblock(p) EXCEPT !.copy = p.found, !.found = None, !.fetch = "none",
                                       !.error = FALSE,
                                       !.own = IF p.found.version >= @ THEN 0 ELSE @]
  <2>1. Seen(p.found, now) /\ p.found.version >= p.own
    BY <1>1, <1>6 DEF ShowBooking, PageSound
  <2>2. Unblock(p) \in Page /\ Unblock(p).own = p.own
        /\ (Unblock(p).asked = p.asked \/ Unblock(p).asked = None)
    BY <1>1 DEF Unblock, Page
  <2>3. /\ new \in Page /\ new.copy = p.found /\ new.fetch = "none" /\ new.own = 0
        /\ new.asked = p.asked \/ new.asked = None
    BY <2>1, <2>2 DEF Page, Seen
  <2>4. page' = [page EXCEPT ![q] = new]
    BY <1>6 DEF ShowBooking
  <2> HIDE DEF new
  <2>5. PageSound(new, now)
    BY <1>1, <2>1, <2>3 DEF PageSound, Snapshot
  <2> QED
    BY <2>4, <2>5
<1>7. ASSUME Focus(q)
      PROVE  PageSound([p EXCEPT !.fetch = "asked"], now)
  BY <1>1, <1>7 DEF PageSound, Page
<1>8. ASSUME LoseAnswer(q)
      PROVE  PageSound([p EXCEPT !.asked = None], now)
  BY <1>1, <1>8 DEF LoseAnswer, PageSound, Page
<1>9. CASE LoseFetch(q)
  <2> DEFINE new == [Unblock(p) EXCEPT !.fetch = "none", !.found = None, !.error = TRUE]
  <2>1. Unblock(p) \in Page /\ Unblock(p).own = p.own /\ Unblock(p).copy = p.copy
        /\ (Unblock(p).asked = p.asked \/ Unblock(p).asked = None)
    BY <1>1 DEF Unblock, Page
  <2>2. /\ new \in Page /\ new.copy = p.copy /\ new.fetch = "none" /\ new.own = p.own /\ new.error
        /\ new.asked = p.asked \/ new.asked = None
    BY <2>1 DEF Page
  <2>3. page' = [page EXCEPT ![q] = new]
    BY <1>9 DEF LoseFetch
  <2> HIDE DEF new
  <2>4. PageSound(new, now)
    BY <1>1, <2>2 DEF PageSound
  <2> QED
    BY <2>3, <2>4
<1>10. PageSound(Loading, now)
  BY <1>1 DEF PageSound, Page, Loading, Snapshot
<1>11. ASSUME NEW op \in Ops, Press(q, op)
       PROVE  page' = [page EXCEPT ![q] = [p EXCEPT !.asked = [op |-> op, pc |-> "sent"]]]
  BY <1>11 DEF Press
<1>12. ReadBooking(q) => page' = [page EXCEPT ![q] = [p EXCEPT !.fetch = "read", !.found = now]]
  BY DEF ReadBooking
<1>13. Focus(q) => page' = [page EXCEPT ![q] = [p EXCEPT !.fetch = "asked"]]
  BY DEF Focus
<1>14. LoseAnswer(q) => page' = [page EXCEPT ![q] = [p EXCEPT !.asked = None]]
  BY DEF LoseAnswer
<1>15. Reload(q) => page' = [page EXCEPT ![q] = Loading]
  BY DEF Reload
<1> QED
  BY <1>3, <1>4, <1>5, <1>6, <1>7, <1>8, <1>9, <1>10, <1>11, <1>12, <1>13, <1>14, <1>15

\* The API answers a page: a write that was made has been counted.
LEMMA HandleStep ==
    ASSUME PagesInv, BookingSound', CountWrites, NEW q \in Parties, Handle(q)
    PROVE  PagesSound'
<1> DEFINE p == page[q]
           With(request) == [p EXCEPT !.asked = request]
<1>1. p \in Page /\ PageSound(p, now') /\ p.asked.op \in Ops /\ p.asked.pc = "sent"
  <2>1. PageSound(p, now')
    BY NowMoves, KnowledgeKept DEF PagesInv, PagesSound
  <2> QED
    BY <2>1 DEF Handle, PageSound, Page, Request
<1>2. ASSUME NEW request \in Request, request.pc \in {"ordered", "refused", "done"},
             request.pc = "done" => request.version <= now'.version,
             page' = [page EXCEPT ![q].asked = request]
      PROVE  PagesSound'
  <2>1. With(request) \in Page /\ PageSound(With(request), now')
    <3>1. p.asked # None
      BY DEF Handle
    <3>2. p.own > 0 => p.error
      BY <1>1, <3>1 DEF PageSound
    <3> QED
      BY <1>1, <1>2, <3>2 DEF PageSound, Page
  <2>2. page' = [page EXCEPT ![q] = With(request)]
    BY <1>2
  <2> QED
    BY <2>1, <2>2, OnePageStep
<1>3. ASSUME NEW o \in Orders,
             page' = [page EXCEPT ![q].asked = [op |-> p.asked.op, pc |-> "ordered", order |-> o]]
      PROVE  PagesSound'
  <2> DEFINE request == [op |-> p.asked.op, pc |-> "ordered", order |-> o]
  <2>1. request \in Request /\ request.pc = "ordered"
    BY <1>1 DEF Request
  <2> HIDE DEF request
  <2>2. page' = [page EXCEPT ![q].asked = request]
    BY <1>3 DEF request
  <2> QED
    BY <1>2, <2>1, <2>2
<1>4. ASSUME Perform(q, p.asked.op),
             page' = [page EXCEPT ![q].asked =
                         [op |-> p.asked.op, pc |-> "done", version |-> version + 1]]
      PROVE  PagesSound'
  <2> DEFINE request == [op |-> p.asked.op, pc |-> "done", version |-> version + 1]
  <2>1. now'.version = version + 1
    <3>1. now' # now
      BY <1>4, PagesAssumption, ProgressMoves DEF Perform, Progress, PagesInv, BookingSound, now
    <3> QED
      BY <3>1, NowMoves DEF PagesInv, PagesSound
  <2>2. request \in Request /\ request.pc = "done" /\ request.version = version + 1
    BY <1>1 DEF Request, PagesInv, PagesSound
  <2> HIDE DEF request
  <2>3. page' = [page EXCEPT ![q].asked = request]
    BY <1>4 DEF request
  <2>4. request.version <= now'.version
    BY <2>1, <2>2 DEF PagesInv, PagesSound
  <2> QED
    BY <1>2, <2>2, <2>3, <2>4
<1>5. ASSUME page' = [page EXCEPT ![q].asked = [op |-> p.asked.op, pc |-> "refused"]]
      PROVE  PagesSound'
  <2> DEFINE request == [op |-> p.asked.op, pc |-> "refused"]
  <2>1. request \in Request /\ request.pc = "refused"
    BY <1>1 DEF Request
  <2> HIDE DEF request
  <2>2. page' = [page EXCEPT ![q].asked = request]
    BY <1>5 DEF request
  <2> QED
    BY <1>2, <2>1, <2>2
<1> QED
  BY <1>3, <1>4, <1>5 DEF Handle

\* The owner's page fetches again after a payment was verified.
LEMMA VerifyStep ==
    ASSUME PagesInv, BookingSound', CountWrites, NEW o \in Orders, Verify(o)
    PROVE  PagesSound'
<1> DEFINE p == page["owner"]
<1>1. p \in Page /\ PageSound(p, now')
  <2>1. PageSound(p, now')
    BY NowMoves, KnowledgeKept DEF PagesInv, PagesSound, Parties
  <2> QED
    BY <2>1 DEF PageSound
<1>2. PageSound(Invalidate(p), now')
  BY <1>1 DEF PageSound, Page, Invalidate
<1>3. \/ page' = [page EXCEPT !["owner"] = Invalidate(p)]
      \/ page' = [page EXCEPT !["owner"] = p]
  BY DEF Verify
<1> HIDE DEF p
<1> QED
  BY <1>1, <1>2, <1>3, OnePageStep DEF Parties

\* Whatever happens, the API takes one of its steps.
LEMMA StepOfApi ==
    ASSUME PagesInv, Step
    PROVE  ApiStep
<1>1. ASSUME NEW q \in Parties, Handle(q)
      PROVE  ApiStep
  <2> DEFINE op == page[q].asked.op
  <2>1. op \in Ops
    BY <1>1 DEF Handle, PagesInv, PagesSound, Page, Request
  <2>2. \/ UNCHANGED apiVars
        \/ op \in Paying /\ \E o \in Orders : CreateOrder(op, o)
        \/ op \notin Paying /\ Perform(q, op)
    BY <1>1 DEF Handle
  <2> QED
    BY <2>1, <2>2 DEF ApiStep
<1>2. ASSUME NEW o \in Orders, Verify(o)
      PROVE  ApiStep
  <2>1. CASE Recordable(o)
    BY <1>2, <2>1 DEF Verify, ApiStep
  <2>2. CASE ~Recordable(o)
    BY <1>2, <2>2 DEF Verify, ApiStep
  <2> QED
    BY <2>1, <2>2
<1>3. ASSUME NEW o \in Orders, Charge(o) \/ Webhook(o)
      PROVE  ApiStep
  BY <1>3 DEF Charge, Webhook, ApiStep
<1>4. CASE Release
  BY <1>4 DEF Release, ApiStep
<1>5. ASSUME NEW q \in Parties,
             \/ \E op \in Ops : Press(q, op)
             \/ Answer(q) \/ ReadBooking(q) \/ ShowBooking(q) \/ Focus(q)
             \/ LoseAnswer(q) \/ LoseFetch(q) \/ Reload(q)
      PROVE  UNCHANGED apiVars
  BY <1>5 DEF Press, Answer, ReadBooking, ShowBooking, Focus, LoseAnswer, LoseFetch, Reload
<1>6. CASE \/ \E otp \in {"start", "end"} : Tell(otp)
           \/ \E o \in Orders : Dismiss(o) \/ LoseVerify(o)
  BY <1>6 DEF Tell, Dismiss, LoseVerify, ApiStep
<1> QED
  BY <1>1, <1>2, <1>3, <1>4, <1>5, <1>6 DEF Step, Proceed, Fetch, ApiStep

\* The booking and what the pages know of it, in every reachable state.
LEMMA PagesInvariant == Spec => []PagesInv
<1>1. ASSUME Init
      PROVE  PagesInv
  <2>1. BookingSound /\ now \in Snapshot
    BY <1>1, PagesAssumption DEF Init, BookingSound, now, Settled, OrdersOf, Orders, Snapshot,
       BookingState
  <2>2. PageSound(Loading, now) /\ Loading \in Page
    BY <2>1 DEF PageSound, Page, Loading, Snapshot
  <2> QED
    BY <1>1, <2>1, <2>2 DEF Init, PagesInv, PagesSound
<1>2. ASSUME PagesInv, Next
      PROVE  PagesInv'
  <2>1. BookingSound' /\ CountWrites
    BY <1>2, StepOfApi, BookingStep DEF Next, PagesInv
  <2>2. PagesSound'
    <3>1. ASSUME NEW q \in Parties, Handle(q)
          PROVE  PagesSound'
      BY <1>2, <2>1, <3>1, HandleStep
    <3>2. ASSUME NEW q \in Parties,
                 \/ \E op \in Ops : Press(q, op)
                 \/ Answer(q) \/ ReadBooking(q) \/ ShowBooking(q) \/ Focus(q)
                 \/ LoseAnswer(q) \/ LoseFetch(q) \/ Reload(q)
          PROVE  PagesSound'
      BY <1>2, <2>1, <3>2, OwnStep
    <3>3. ASSUME NEW o \in Orders, Verify(o)
          PROVE  PagesSound'
      BY <1>2, <2>1, <3>3, VerifyStep
    <3>4. CASE UNCHANGED page
      BY <1>2, <2>1, <3>4, NoPageStep
    <3> QED
      BY <1>2, <3>1, <3>2, <3>3, <3>4 DEF Next, Step, Proceed, Fetch, Charge, Webhook, Tell,
         Dismiss, LoseVerify, Release
  <2> QED
    BY <2>1, <2>2 DEF PagesInv
<1>3. PagesInv /\ UNCHANGED vars => PagesInv'
  BY DEF PagesInv, BookingSound, PagesSound, now, Settled, vars, apiVars, rowVars
<1> QED
  BY <1>1, <1>2, <1>3, PTL DEF Spec

-----------------------------------------------------------------------------
(* Theorems *)

\* A button that is enabled fits the booking as the page's own last request left
\* it, however answers, refetches, focus, payments and losses are interleaved.
THEOREM OwnWritesAreRead == Spec => []ReadYourWrites
<1>1. PagesInv => ReadYourWrites
  BY DEF PagesInv, PagesSound, PageSound, Page, ReadYourWrites, Open
<1> QED
  BY <1>1, PagesInvariant, PTL

\* canPayDeposit ... canCancel of the two pages and the guards of the API are two
\* ways to write the same rules: on an up-to-date copy they agree.
THEOREM OffersAgree == Spec => []OffersMatchApi
<1> DEFINE OwnerOps    == {"payDeposit", "startSession", "endSession", "payFinal", "cancel"}
           ProviderOps == {"confirm", "otpStart", "otpEnd", "cancel"}
<1>1. ASSUME PagesInv, NEW q \in Parties, Open(q), page[q].copy.version = version
      PROVE  page[q].copy = now /\ now.state \in BookingState
  <2>1. Seen(page[q].copy, now) /\ now.version = version
    BY <1>1 DEF PagesInv, PagesSound, PageSound, Open, now
  <2> QED
    BY <1>1, <2>1, PagesAssumption DEF Seen, PagesInv, BookingSound, now
<1>2. ASSUME PagesInv, Open("owner"), page["owner"].copy = now, now.state \in BookingState
      PROVE  /\ \A op \in OwnerOps : Admitted("owner", op) => op \in Offers("owner")
             /\ \A op \in Offers("owner") :
                    op \notin {"payDeposit", "cancel"} => Admitted("owner", op)
  BY <1>2 DEF Offers, OwnerOffers, Admitted, OrderAdmitted, Wanted, StageOf, Paying,
     CanTransition, transitionMap, Cancelled, BookingState, PagesInv, BookingSound
<1>3. ASSUME PagesInv, Open("provider"), page["provider"].copy = now, now.state \in BookingState
      PROVE  /\ \A op \in ProviderOps : Admitted("provider", op) => op \in Offers("provider")
             /\ \A op \in Offers("provider") :
                    op \notin {"payDeposit", "cancel"} => Admitted("provider", op)
  BY <1>3 DEF Offers, ProviderOffers, Admitted, OrderAdmitted, Wanted, StageOf, Paying,
     CanTransition, transitionMap, Cancelled, BookingState
<1>4. Offers("owner") \subseteq OwnerOps /\ Offers("provider") \subseteq ProviderOps
  BY DEF Offers, OwnerOffers, ProviderOffers
<1>5. PagesInv => OffersMatchApi
  BY <1>1, <1>2, <1>3, <1>4 DEF OffersMatchApi, Parties
<1> QED
  BY <1>5, PagesInvariant, PTL

=============================================================================
