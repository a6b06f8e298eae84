---------------------------- MODULE BookingChat -----------------------------
(***************************************************************************)
(* The chat of a booking: the HTTP routes (routes/chat.routes.ts), the     *)
(* Socket.IO room of the booking (realtime/socket.ts) and the two pages    *)
(* that have it open (sendChat, loadMessages and the socket effect of      *)
(* src/web/src/app/{parent,provider}/bookings/[id]/page.tsx).              *)
(*                                                                         *)
(* A page gets messages on two ways that know nothing of each other: a     *)
(* load replaces its list, an event of the room is appended to it.  Loads  *)
(* overtake each other; the events of a socket keep their order.  A page   *)
(* asks to join the room once per socket it creates, and it creates one    *)
(* anew whenever the session or what else its effect depends on changes.   *)
(***************************************************************************)
EXTENDS Naturals, SequencesExt

CONSTANTS NumMessages,  \* bound on the messages that are sent
          author,       \* who sends each of them
          Limit,        \* how many messages a load asks for
          None,         \* null
          MaxIncidents  \* bound on losses, crashes, renewed sessions, edits of the
                        \* coordinates and reopened pages

Parties == {"owner", "provider"}

\* Ids of messages, in the order in which they are written.
Messages == 1 .. NumMessages

ASSUME ChatAssumption ==
    /\ {NumMessages, MaxIncidents} \subseteq Nat
    /\ Limit \in Nat \ {0}
    /\ None \notin Messages
    /\ author \in [Messages -> Parties]

VARIABLES
    rows,       \* the ChatMessage rows of the booking, oldest first
    request,    \* how far POST /messages of each message is
    page,       \* the page of each party
    abandoned,  \* messages whose sender never got the answer
    incidents   \* those so far, at most MaxIncidents

vars == <<rows, request, page, abandoned, incidents>>

-----------------------------------------------------------------------------
(* Pages *)

Load(session, m) == [session |-> session, message |-> m, read |-> FALSE, found |-> <<>>]

\* shown:   the list on the page;
\* loads:   loadMessages calls in flight, each by the session it was called in
\*          and the message it was called after, or None;
\* session: counts the sessions that the page was given;
\* sending: the message that disables the button, or None, and `answered` when
\*          only its load is still to come;
\* socket:  "connecting" with the join buffered, "joined" or "detached";
\* inbox:   events on their way through the socket;
\* renewed: the session was renewed and /users/me is being read again.
Mounted(session) ==
    [shown |-> <<>>, loads |-> {Load(session, None)}, session |-> session, sending |-> None,
     answered |-> FALSE, socket |-> "connecting", inbox |-> <<>>, renewed |-> FALSE]

\* The clean-up of the effect disconnects the old socket.
NewSocket(p) == [p EXCEPT !.socket = "connecting", !.inbox = <<>>]

Released(p) == [p EXCEPT !.sending = None, !.answered = FALSE]

Waits(m) == page[author[m]].sending = m /\ ~page[author[m]].answered

\* sendChat, which the disabled button allows one of.
Send(q) ==
    LET unsent == {m \in Messages : author[m] = q /\ request[m] = "none"} IN
    /\ page[q].sending = None
    /\ unsent # {}
    /\ request' = [request EXCEPT ![Min(unsent)] = "posted"]
    /\ page' = [page EXCEPT ![q].sending = Min(unsent)]
    /\ UNCHANGED <<rows, abandoned, incidents>>

-----------------------------------------------------------------------------
(* POST /messages *)

\* The soft lock or the rate limit says no.
Refuse(m) ==
    /\ request[m] = "posted"
    /\ request' = [request EXCEPT ![m] = "over"]
    /\ page' = [page EXCEPT ![author[m]] = IF Waits(m) THEN Released(@) ELSE @]
    /\ UNCHANGED <<rows, abandoned, incidents>>

Store(m) ==
    /\ request[m] = "posted"
    /\ request' = [request EXCEPT ![m] = "stored"]
    /\ rows' = Append(rows, m)
    /\ UNCHANGED <<page, abandoned, incidents>>

\* Mutant of Reached: the sender is left out, as socket.to() does.
ReachedByOthers(m) == {q \in Parties : page[q].socket = "joined" /\ q # author[m]}

\* io.to(room): whoever is in the room.
Reached(m) == {q \in Parties : page[q].socket = "joined"}

Emit(m) ==
    /\ request[m] = "stored"
    /\ request' = [request EXCEPT ![m] = "emitted"]
    /\ page' = [q \in Parties |->
                   IF q \in Reached(m) THEN [page[q] EXCEPT !.inbox = Append(@, m)] ELSE page[q]]
    /\ UNCHANGED <<rows, abandoned, incidents>>

\* Mutant of Answerable: 201 is sent as soon as the row is there.
AnswerableAtOnce(m) == request[m] \in {"stored", "emitted"}

Answerable(m) == request[m] = "emitted"

\* 201, and sendChat loads the messages.
Answer(m) ==
    /\ Answerable(m) /\ Waits(m)
    /\ page' = [page EXCEPT ![author[m]].answered = TRUE,
                            ![author[m]].loads = @ \cup {Load(page[author[m]].session, m)}]
    /\ UNCHANGED <<rows, request, abandoned, incidents>>

-----------------------------------------------------------------------------
(* GET /messages *)

\* The newest `Limit` rows, in the order in which the page shows them.
Newest == SubSeq(rows, Max({1, Len(rows) - Limit + 1}), Len(rows))

ReadMessages(q, l) ==
    /\ ~l.read
    /\ page' = [page EXCEPT ![q].loads =
                   (@ \ {l}) \cup {[l EXCEPT !.read = TRUE, !.found = Newest]}]
    /\ UNCHANGED <<rows, request, abandoned, incidents>>

\* A load of sendChat is over, and the button enabled again.
Done(p, l) == IF l.message # None /\ p.sending = l.message THEN Released(p) ELSE p

\* setMessages with the answer, whatever the list has become meanwhile.
ShowMessages(q, l) ==
    /\ l.read
    /\ page' = [page EXCEPT ![q] = [Done(page[q], l) EXCEPT !.shown = l.found, !.loads = @ \ {l}]]
    /\ UNCHANGED <<rows, request, abandoned, incidents>>

-----------------------------------------------------------------------------
(* The socket *)

\* Connected, the client sends the join that it has buffered.
Connect(q) ==
    /\ page[q].socket = "connecting"
    /\ page' = [page EXCEPT ![q].socket = "joined"]
    /\ UNCHANGED <<rows, request, abandoned, incidents>>

\* Mutant of WithEvent: whatever comes in is appended.
WithEventAppended(shown, m) == Append(shown, m)

\* The handler of chat:new-message.
WithEvent(shown, m) == IF Contains(shown, m) THEN shown ELSE Append(shown, m)

Deliver(q) ==
    /\ page[q].inbox # <<>>
    /\ page' = [page EXCEPT ![q].inbox = Tail(@), ![q].shown = WithEvent(@, Head(page[q].inbox))]
    /\ UNCHANGED <<rows, request, abandoned, incidents>>

-----------------------------------------------------------------------------
(* Changes of the session and of the page *)

Incident == incidents < MaxIncidents /\ incidents' = incidents + 1

\* TOKEN_REFRESHED: the effects of the session run again, and the user is read.
RenewSession(q) ==
    /\ Incident
    /\ page' = [page EXCEPT ![q] =
           [NewSocket(page[q]) EXCEPT !.session = @ + 1, !.renewed = TRUE,
                                      !.loads = @ \cup {Load(page[q].session + 1, None)}]]
    /\ UNCHANGED <<rows, request, abandoned>>

\* The owner's socket depends on the user too, and every answer is a new object.
UserLoaded(q) ==
    /\ page[q].renewed
    /\ page' = [page EXCEPT ![q] = [(IF q = "owner" THEN NewSocket(@) ELSE @)
                                       EXCEPT !.renewed = FALSE]]
    /\ UNCHANGED <<rows, request, abandoned, incidents>>

\* The provider's socket depends on the coordinates in the tracking card.
EditPosition ==
    /\ Incident
    /\ page' = [page EXCEPT !["provider"] = NewSocket(@)]
    /\ UNCHANGED <<rows, request, abandoned>>

\* The messages that a page will get no answer for any more.
Awaited(q) == {m \in Messages : page[q].sending = m /\ ~page[q].answered}

\* The page is left and opened again: what it waited for is answered to nobody.
Reopen(q) ==
    /\ Incident
    /\ page' = [page EXCEPT ![q] = Mounted(0)]
    /\ abandoned' = abandoned \cup Awaited(q)
    /\ UNCHANGED <<rows, request>>

-----------------------------------------------------------------------------
(* Faults *)

\* sendChat says "Failed to send" and the request goes on, if it has arrived.
LoseAnswer(q) ==
    /\ Awaited(q) # {}
    /\ Incident
    /\ page' = [page EXCEPT ![q] = Released(@)]
    /\ abandoned' = abandoned \cup Awaited(q)
    /\ UNCHANGED <<rows, request>>

LoseLoad(q, l) ==
    /\ l \in page[q].loads
    /\ Incident
    /\ page' = [page EXCEPT ![q] = [Done(page[q], l) EXCEPT !.loads = @ \ {l}]]
    /\ UNCHANGED <<rows, request, abandoned>>

\* The handshake is refused, or the connection drops: socket.io connects again,
\* and nobody joins the room again.
LoseSocket(q) ==
    /\ page[q].socket # "detached"
    /\ Incident
    /\ page' = [page EXCEPT ![q].socket = "detached", ![q].inbox = <<>>]
    /\ UNCHANGED <<rows, request, abandoned>>

\* A socket that was still connecting keeps its join and tries again.
Crash ==
    /\ Incident
    /\ request' = [m \in Messages |->
                      IF request[m] \in {"posted", "stored"} THEN "over" ELSE request[m]]
    /\ page' = [q \in Parties |->
           [(IF page[q].answered THEN page[q] ELSE Released(page[q])) EXCEPT
               !.socket = IF @ = "connecting" THEN @ ELSE "detached", !.inbox = <<>>]]
    /\ abandoned' = abandoned \cup UNION {Awaited(q) : q \in Parties}
    /\ UNCHANGED rows

-----------------------------------------------------------------------------

Init ==
    /\ rows = <<>>
    /\ request = [m \in Messages |-> "none"]
    /\ page = [q \in Parties |-> Mounted(0)]
    /\ abandoned = {}
    /\ incidents = 0

Next ==
    \/ \E q \in Parties :
          \/ Send(q)
          \/ \E l \in page[q].loads : ReadMessages(q, l) \/ ShowMessages(q, l) \/ LoseLoad(q, l)
          \/ Connect(q)
          \/ Deliver(q)
          \/ RenewSession(q)
          \/ UserLoaded(q)
          \/ Reopen(q)
          \/ LoseAnswer(q)
          \/ LoseSocket(q)
    \/ \E m \in Messages :
          \/ Refuse(m)
          \/ Store(m)
          \/ Emit(m)
          \/ Answer(m)
    \/ EditPosition
    \/ Crash

Spec == Init /\ [][Next]_vars

\* The server gets on with the requests it has, and events reach the pages.
FairSpec ==
    /\ Spec
    /\ \A m \in Messages : WF_vars(Emit(m))
    /\ \A q \in Parties : WF_vars(Deliver(q))

-----------------------------------------------------------------------------
(* Properties *)

\* No message is on a page twice, although its sender gets it from the load after
\* sendChat and from the room, in any order.
NothingShownTwice ==
    \A q \in Parties : IsInjective(page[q].shown)

\* What one sender wrote is shown in the order it was written in, whether it came
\* with a load or with events: sendChat keeps the button disabled until the answer
\* is there, which is not before the event is out.  (Not so for a message whose
\* answer the sender never got, and which may be on its way for longer, and not
\* when a load is too short for what is on its way.)
SenderOrderKept ==
    Len(rows) <= Limit =>
    \A q \in Parties :
        LET shown == page[q].shown IN
        \A i, j \in DOMAIN shown :
            i < j /\ author[shown[i]] = author[shown[j]] /\ shown[i] \notin abandoned
                  /\ shown[j] \notin abandoned
                => shown[i] < shown[j]

\* Whoever is in the room when a message is stored gets to see it without a load,
\* the sender included, unless the socket goes away meanwhile.
MessageReachesRoom ==
    \A q \in Parties, m \in Messages :
        request[m] = "stored" /\ page[q].socket = "joined"
            ~> Contains(page[q].shown, m) \/ page[q].socket # "joined"

=============================================================================
