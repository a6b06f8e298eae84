------------------------- MODULE BookingChatProofs --------------------------
(***************************************************************************)
(* What holds of BookingChat for any messages, limit and incidents.        *)
(***************************************************************************)
EXTENDS BookingChat, SequenceTheorems, FiniteSetTheorems, TLAPS

-----------------------------------------------------------------------------
(* Lists of messages *)

\* The two are by one sender, who got the answer to m or may yet get it, and wrote
\* it first: a list must not have them the other way round.
Before(m, x, lost) == m < x /\ author[m] = author[x] /\ m \notin lost

Sorted(s, lost) == \A i, j \in DOMAIN s : i < j => ~Before(s[j], s[i], lost)

\* A list shows stored messages, each once.
Faithful(s, stored) ==
    /\ s \in Seq(Messages)
    /\ IsInjective(s)
    /\ \A m \in Messages : Contains(s, m) => Contains(stored, m)

\* It has whatever of `other` was written before a message it has.
Closed(s, other, lost) ==
    \A m, x \in Messages :
        Contains(s, x) /\ Before(m, x, lost) /\ Contains(other, m) => Contains(s, m)

-----------------------------------------------------------------------------
(* The invariant *)

Over(m, req) == req[m] \in {"emitted", "over"}

\* A sender's messages are written one after the other, and stored in that order.
RowsSound(stored, req, lost) ==
    /\ req \in [Messages -> {"none", "posted", "stored", "emitted", "over"}]
    /\ Faithful(stored, stored)
    /\ Sorted(stored, lost)
    /\ \A m \in Messages :
          /\ Contains(stored, m) => req[m] \notin {"none", "posted"}
          /\ req[m] \in {"stored", "emitted"} => Contains(stored, m)
    /\ \A m, x \in Messages : Before(m, x, lost) /\ req[x] # "none" => Over(m, req)

Loads == [session : Nat, message : Messages \cup {None}, read : BOOLEAN, found : Seq(Messages)]

Page == [shown   : Seq(Messages),
         loads   : SUBSET Loads,
         session : Nat,
         sending : Messages \cup {None},
         answered : BOOLEAN,
         socket  : {"connecting", "joined", "detached"},
         inbox   : Seq(Messages),
         renewed : BOOLEAN]

\* The button: it is disabled as long as a request is out whose answer may come.
ButtonSound(q, p, req, lost) ==
    /\ p.answered => p.sending # None /\ Over(p.sending, req)
    /\ \A l \in p.loads : l.message # None => Over(l.message, req)
    /\ \A m \in Messages :
          author[m] = q /\ req[m] \in {"posted", "stored"} /\ m \notin lost
              => p.sending = m /\ ~p.answered

\* The lists: loads bring all that there was, and events come in order, so none
\* comes late for a list that has what was written after it.
ListsSound(p, stored, req, lost) ==
    /\ Faithful(p.shown, stored)
    /\ Faithful(p.inbox, stored)
    /\ Sorted(p.inbox, lost)
    /\ \A m \in Messages : Contains(p.inbox, m) => req[m] = "emitted"
    /\ \A l \in p.loads :
          /\ Faithful(l.found, stored)
          /\ Sorted(l.found, lost)
          /\ Len(stored) <= Limit => Closed(l.found, stored, lost)
    /\ Len(stored) <= Limit =>
          /\ Sorted(p.shown, lost)
          /\ Closed(p.shown, p.inbox, lost)

PageSound(q, p, stored, req, lost) ==
    p \in Page /\ ButtonSound(q, p, req, lost) /\ ListsSound(p, stored, req, lost)

ChatInv ==
    /\ RowsSound(rows, request, abandoned)
    /\ page \in [Parties -> Page]
    /\ \A q \in Parties : PageSound(q, page[q], rows, request, abandoned)

-----------------------------------------------------------------------------
(* Operations on lists *)

LEMMA MessagesAreNumbers == Messages \subseteq Nat /\ NumMessages \in Nat
BY ChatAssumption DEF Messages

LEMMA AppendToList ==
    ASSUME NEW s \in Seq(Messages), NEW m \in Messages
    PROVE  /\ Append(s, m) \in Seq(Messages)
           /\ Len(Append(s, m)) = Len(s) + 1
           /\ DOMAIN Append(s, m) = 1 .. Len(s) + 1
           /\ DOMAIN s = 1 .. Len(s) /\ Len(s) \in Nat
           /\ \A i \in 1 .. Len(s) : Append(s, m)[i] = s[i]
           /\ Append(s, m)[Len(s) + 1] = m
           /\ \A x : Contains(Append(s, m), x) <=> Contains(s, x) \/ x = m
<1>1. /\ Append(s, m) \in Seq(Messages)
      /\ Len(Append(s, m)) = Len(s) + 1
      /\ DOMAIN Append(s, m) = 1 .. Len(s) + 1
      /\ DOMAIN s = 1 .. Len(s) /\ Len(s) \in Nat
      /\ \A i \in 1 .. Len(s) : Append(s, m)[i] = s[i]
      /\ Append(s, m)[Len(s) + 1] = m
  BY LenProperties
<1> QED
  BY <1>1 DEF Contains

LEMMA FaithfulAppend ==
    ASSUME NEW s, NEW stored, NEW m \in Messages,
           Faithful(s, stored), Contains(stored, m), ~Contains(s, m)
    PROVE  Faithful(Append(s, m), stored)
<1>1. s \in Seq(Messages)
  BY DEF Faithful
<1>2. IsInjective(Append(s, m))
  BY <1>1, AppendToList DEF Faithful, IsInjective, Contains
<1> QED
  BY <1>1, <1>2, AppendToList DEF Faithful

LEMMA SortedAppend ==
    ASSUME NEW s \in Seq(Messages), NEW lost, NEW m \in Messages, Sorted(s, lost),
           \A x \in Messages : Contains(s, x) => ~Before(m, x, lost)
    PROVE  Sorted(Append(s, m), lost)
<1>1. ASSUME NEW i \in 1 .. Len(s) + 1, NEW j \in 1 .. Len(s) + 1, i < j
      PROVE  ~Before(Append(s, m)[j], Append(s, m)[i], lost)
  <2>1. i \in 1 .. Len(s) /\ s[i] \in Messages /\ Contains(s, s[i])
    BY <1>1, AppendToList, ElementOfSeq DEF Contains
  <2>2. CASE j \in 1 .. Len(s)
    BY <1>1, <2>1, <2>2, AppendToList DEF Sorted
  <2>3. CASE j = Len(s) + 1
    BY <1>1, <2>1, <2>3, AppendToList
  <2> QED
    BY <2>2, <2>3, AppendToList
<1> QED
  BY <1>1, AppendToList DEF Sorted

\* What comes after the head of a list of events.
LEMMA TailOfList ==
    ASSUME NEW s \in Seq(Messages), s # <<>>, NEW stored, NEW lost,
           Faithful(s, stored), Sorted(s, lost)
    PROVE  /\ Head(s) \in Messages /\ Contains(s, Head(s))
           /\ Faithful(Tail(s), stored) /\ Sorted(Tail(s), lost)
           /\ \A x \in Messages :
                 Contains(Tail(s), x) => Contains(s, x) /\ ~Before(x, Head(s), lost)
<1>1. /\ Head(s) = s[1] /\ Head(s) \in Messages /\ Tail(s) \in Seq(Messages)
      /\ Len(s) \in Nat \ {0} /\ Len(Tail(s)) = Len(s) - 1
      /\ DOMAIN s = 1 .. Len(s) /\ DOMAIN Tail(s) = 1 .. Len(s) - 1
      /\ \A i \in 1 .. Len(s) - 1 : Tail(s)[i] = s[i + 1]
  BY HeadTailProperties, LenProperties, EmptySeq
<1>2. Contains(s, Head(s))
  BY <1>1 DEF Contains
<1>3. IsInjective(Tail(s))
  BY <1>1 DEF Faithful, IsInjective
<1>4. ASSUME NEW x \in Messages, Contains(Tail(s), x)
      PROVE  Contains(s, x) /\ ~Before(x, Head(s), lost)
  <2>1. PICK i \in 1 .. Len(s) - 1 : s[i + 1] = x
    BY <1>1, <1>4 DEF Contains
  <2> QED
    BY <1>1, <2>1 DEF Contains, Sorted
<1>5. Sorted(Tail(s), lost)
  BY <1>1 DEF Sorted
<1> QED
  BY <1>1, <1>2, <1>3, <1>4, <1>5 DEF Faithful

\* Messages that nobody waits for make a list no less sorted.
LEMMA MoreLost ==
    ASSUME NEW lost, NEW more, lost \subseteq more
    PROVE  /\ \A s : Sorted(s, lost) => Sorted(s, more)
           /\ \A s, other : Closed(s, other, lost) => Closed(s, other, more)
           /\ \A m, x : Before(m, x, more) => Before(m, x, lost)
BY DEF Sorted, Closed, Before

\* What is left of a list when the first of it is cut off.
LEMMA EndOfList ==
    ASSUME NEW s \in Seq(Messages), NEW first \in Nat \ {0}, NEW end, end = SubSeq(s, first, Len(s))
    PROVE  /\ end \in Seq(Messages)
           /\ DOMAIN end = 1 .. Len(s) - first + 1
           /\ \A i \in DOMAIN end : first + i - 1 \in DOMAIN s /\ end[i] = s[first + i - 1]
<1>1. Len(s) \in Nat /\ DOMAIN s = 1 .. Len(s)
  BY LenProperties
<1>2. \A i \in first .. Len(s) : s[i] \in Messages
  BY <1>1, ElementOfSeq
<1>3. first \in Int /\ Len(s) \in Int
  BY <1>1
<1>4. /\ end \in Seq(Messages)
      /\ Len(end) = IF first <= Len(s) THEN Len(s) - first + 1 ELSE 0
  BY <1>2, <1>3, SubSeqProperties
<1>5. \A i \in 1 .. Len(s) - first + 1 : end[i] = s[first + i - 1]
  BY <1>2, <1>3, SubSeqProperties
<1>6. DOMAIN end = 1 .. Len(end)
  BY <1>4, LenProperties
<1>7. 1 .. Len(end) = 1 .. Len(s) - first + 1
  BY <1>1, <1>4
<1>8. \A i \in 1 .. Len(s) - first + 1 : first + i - 1 \in 1 .. Len(s)
  BY <1>1
<1> QED
  BY <1>1, <1>4, <1>5, <1>6, <1>7, <1>8

\* A load brings a part of the rows, and all of them while they are few.
LEMMA NewestRows ==
    ASSUME NEW lost, Faithful(rows, rows), Sorted(rows, lost)
    PROVE  /\ Faithful(Newest, rows) /\ Sorted(Newest, lost)
           /\ Len(rows) <= Limit => Closed(Newest, rows, lost)
<1> DEFINE first == Max({1, Len(rows) - Limit + 1})
<1>1. rows \in Seq(Messages) /\ Len(rows) \in Nat /\ DOMAIN rows = 1 .. Len(rows)
  BY LenProperties DEF Faithful
<1>2. first \in Nat \ {0} /\ (Len(rows) <= Limit => first = 1)
  <2>1. Limit \in Nat \ {0}
    BY ChatAssumption
  <2>2. \E x \in {1, Len(rows) - Limit + 1} : \A y \in {1, Len(rows) - Limit + 1} : x >= y
    BY <1>1, <2>1
  <2>3. first \in {1, Len(rows) - Limit + 1} /\ \A y \in {1, Len(rows) - Limit + 1} : first >= y
    BY <2>2 DEF Max
  <2> QED
    BY <1>1, <2>1, <2>3
<1> HIDE DEF first
<1>3. /\ Newest \in Seq(Messages)
      /\ DOMAIN Newest = 1 .. Len(rows) - first + 1
      /\ \A i \in DOMAIN Newest : first + i - 1 \in DOMAIN rows /\ Newest[i] = rows[first + i - 1]
  <2>1. Newest = SubSeq(rows, first, Len(rows))
    BY DEF Newest, first
  <2> HIDE DEF Newest
  <2> QED
    BY <1>1, <1>2, <2>1, EndOfList
<1>4. \A i, j \in DOMAIN Newest :
          /\ first + i - 1 = first + j - 1 => i = j
          /\ i < j => first + i - 1 < first + j - 1
  BY <1>1, <1>2, <1>3
<1>5. IsInjective(Newest)
  BY <1>3, <1>4 DEF Faithful, IsInjective
<1>6. Sorted(Newest, lost)
  BY <1>3, <1>4 DEF Sorted
<1>7. Len(Newest) \in Nat /\ DOMAIN Newest = 1 .. Len(Newest)
  BY <1>3, LenProperties
<1>8. \A m : Contains(Newest, m) => Contains(rows, m)
  BY <1>1, <1>3, <1>7 DEF Contains
<1>9. Len(rows) <= Limit => Closed(Newest, rows, lost)
  <2>1. ASSUME Len(rows) <= Limit
        PROVE  \A m : Contains(rows, m) => Contains(Newest, m)
    <3>1. \A i \in 1 .. Len(rows) : i \in 1 .. Len(Newest) /\ Newest[i] = rows[i]
      BY <1>1, <1>2, <1>3, <1>7, <2>1
    <3> QED
      BY <3>1 DEF Contains
  <2> QED
    BY <2>1 DEF Closed
<1> QED
  BY <1>3, <1>5, <1>6, <1>8, <1>9 DEF Faithful

\* sendChat takes the first of the messages that are still to be sent.
LEMMA FirstUnsent ==
    ASSUME NEW unsent \in SUBSET Messages, unsent # {}
    PROVE  Min(unsent) \in unsent /\ \A m \in unsent : Min(unsent) <= m
<1> DEFINE upTo(x) == {y \in unsent : y <= x}
           heads   == {upTo(x) : x \in unsent}
<1>1. unsent \subseteq Nat
  BY MessagesAreNumbers
<1>2. heads \subseteq FiniteSubsetsOf(Messages) /\ heads # {}
  <2>1. IsFiniteSet(Messages)
    BY MessagesAreNumbers, FS_Interval DEF Messages
  <2>2. FiniteSubsetsOf(Messages) = SUBSET Messages
    BY <2>1, FS_FiniteSubsetsOfFinite
  <2>3. \A x \in unsent : upTo(x) \subseteq Messages
    OBVIOUS
  <2>4. PICK x \in unsent : TRUE
    OBVIOUS
  <2> HIDE DEF upTo
  <2>5. upTo(x) \in heads
    OBVIOUS
  <2> QED
    BY <2>2, <2>3, <2>5
<1>3. PICK x \in unsent : \A y \in unsent :
          <<upTo(y), upTo(x)>> \notin StrictSubsetOrdering(Messages)
  <2> HIDE DEF heads
  <2>1. PICK h \in heads : \A k \in heads : <<k, h>> \notin StrictSubsetOrdering(Messages)
    BY <1>2, FS_StrictSubsetOrderingWellFounded, WFMin
  <2> QED
    BY <2>1 DEF heads
<1>4. ASSUME NEW y \in unsent
      PROVE  x <= y
  <2>1. upTo(y) \in SUBSET Messages /\ upTo(x) \in SUBSET Messages
    OBVIOUS
  <2>2. ~(upTo(y) \subseteq upTo(x) /\ upTo(y) # upTo(x))
    <3> HIDE DEF upTo
    <3> QED
      BY <1>3, <2>1 DEF StrictSubsetOrdering
  <2>3. CASE y < x
    <3>1. x \in Nat /\ y \in Nat /\ \A z \in unsent : z \in Nat
      BY <1>1
    <3>2. x \in upTo(x) /\ x \notin upTo(y)
      BY <2>3, <3>1
    <3>3. \A z \in unsent : z <= y => z <= x
      BY <2>3, <3>1
    <3>4. upTo(y) \subseteq upTo(x)
      BY <3>3
    <3> QED
      BY <2>2, <3>2, <3>4
  <2> QED
    BY <1>1, <2>3
<1> QED
  BY <1>4 DEF Min

-----------------------------------------------------------------------------
(* What one page knows *)

LEMMA EmptyList ==
    ASSUME NEW stored, NEW lost
    PROVE  /\ <<>> \in Seq(Messages) /\ Faithful(<<>>, stored) /\ Sorted(<<>>, lost)
           /\ \A other : Closed(<<>>, other, lost) /\ \A s : Closed(s, <<>>, lost)
           /\ \A m : ~Contains(<<>>, m)
<1>1. <<>> \in Seq(Messages) /\ Len(<<>>) = 0 /\ DOMAIN <<>> = 1 .. 0
  BY EmptySeq, LenProperties
<1>2. \A m : ~Contains(<<>>, m)
  BY <1>1 DEF Contains
<1>3. IsInjective(<<>>) /\ Sorted(<<>>, lost)
  BY <1>1 DEF IsInjective, Sorted
<1> QED
  BY <1>1, <1>2, <1>3 DEF Faithful, Closed

\* Its lists stay good when requests go on and answers are lost.
LEMMA ListsKept ==
    ASSUME NEW p, NEW stored, NEW req, NEW new, NEW lost, NEW more,
           ListsSound(p, stored, req, lost), lost \subseteq more,
           \A m \in Messages : req[m] = "emitted" => new[m] = "emitted"
    PROVE  ListsSound(p, stored, new, more)
BY MoreLost DEF ListsSound

\* So does what its button says, if no request of its own is sent.
LEMMA ButtonKept ==
    ASSUME NEW q, NEW p \in Page, NEW req, NEW new, NEW lost, NEW more,
           ButtonSound(q, p, req, lost), lost \subseteq more,
           \A m \in Messages : Over(m, req) => Over(m, new),
           \A m \in Messages : author[m] = q /\ new[m] \in {"posted", "stored"}
                                   => req[m] \in {"posted", "stored"}
    PROVE  ButtonSound(q, p, new, more)
<1>1. p.sending \in Messages \cup {None} /\ \A l \in p.loads : l.message \in Messages \cup {None}
  BY DEF Page, Loads
<1> QED
  BY <1>1 DEF ButtonSound

\* A change that leaves the list on the page alone.
LEMMA ListsOfPart ==
    ASSUME NEW p, NEW new, NEW stored, NEW req, NEW lost, ListsSound(p, stored, req, lost),
           new.shown = p.shown, new.inbox = p.inbox \/ new.inbox = <<>>,
           \A l \in new.loads : l \in p.loads \/ l.found = <<>>
    PROVE  ListsSound(new, stored, req, lost)
<1>1. \A l \in new.loads : /\ Faithful(l.found, stored)
                           /\ Sorted(l.found, lost)
                           /\ Len(stored) <= Limit => Closed(l.found, stored, lost)
  BY EmptyList DEF ListsSound
<1>2. CASE new.inbox = p.inbox
  BY <1>1, <1>2 DEF ListsSound
<1>3. CASE new.inbox = <<>>
  BY <1>1, <1>3, EmptyList DEF ListsSound
<1> QED
  BY <1>2, <1>3

\* A change that leaves the button alone.
LEMMA ButtonOfPart ==
    ASSUME NEW q, NEW p, NEW new, NEW req, NEW lost, ButtonSound(q, p, req, lost),
           new.sending = p.sending, new.answered = p.answered,
           \A l \in new.loads : l.message = None \/ \E k \in p.loads : k.message = l.message
    PROVE  ButtonSound(q, new, req, lost)
BY DEF ButtonSound

\* The button is enabled: nothing is out whose answer may come.
LEMMA ButtonReleased ==
    ASSUME NEW q, NEW p, NEW new, NEW req, NEW lost, NEW more, ButtonSound(q, p, req, lost),
           lost \subseteq more, new.sending = None, ~new.answered, new.loads \subseteq p.loads,
           p.sending # None => Over(p.sending, req) \/ p.sending \in more
    PROVE  ButtonSound(q, new, req, more)
<1>1. ASSUME NEW m \in Messages, author[m] = q, req[m] \in {"posted", "stored"}, m \notin more
      PROVE  FALSE
  <2>1. p.sending = m /\ m # None
    BY <1>1, ChatAssumption DEF ButtonSound
  <2> QED
    BY <1>1, <2>1 DEF Over
<1> QED
  BY <1>1 DEF ButtonSound

\* A load is over, with or without an answer.
LEMMA ButtonDone ==
    ASSUME NEW q, NEW p \in Page, NEW req, NEW lost, ButtonSound(q, p, req, lost),
           NEW l \in p.loads, NEW new \in Page, new.loads \subseteq p.loads,
           new.sending = Done(p, l).sending, new.answered = Done(p, l).answered
    PROVE  ButtonSound(q, new, req, lost)
<1>1. CASE l.message # None /\ p.sending = l.message
  <2>1. new.sending = None /\ ~new.answered /\ Over(p.sending, req)
    BY <1>1 DEF Done, Released, Page, ButtonSound
  <2> QED
    BY <2>1, ButtonReleased
<1>2. CASE ~(l.message # None /\ p.sending = l.message)
  BY <1>2, ButtonOfPart DEF Done
<1> QED
  BY <1>1, <1>2

\* A row is added: what was written before it is there already.
LEMMA ListsStored ==
    ASSUME NEW p \in Page, NEW stored, NEW req, NEW lost, NEW m \in Messages,
           RowsSound(stored, req, lost), ListsSound(p, stored, req, lost), req[m] = "posted"
    PROVE  ListsSound(p, Append(stored, m), [req EXCEPT ![m] = "stored"], lost)
<1>1. /\ stored \in Seq(Messages) /\ Len(stored) \in Nat /\ Len(Append(stored, m)) = Len(stored) + 1
      /\ \A x : Contains(Append(stored, m), x) <=> Contains(stored, x) \/ x = m
  BY AppendToList DEF RowsSound, Faithful
<1>2. Len(Append(stored, m)) <= Limit => Len(stored) <= Limit
  BY <1>1, ChatAssumption
<1>3. \A s : Faithful(s, stored) => Faithful(s, Append(stored, m))
  BY <1>1 DEF Faithful
<1>4. ASSUME NEW s, Faithful(s, stored), Closed(s, stored, lost)
      PROVE  Closed(s, Append(stored, m), lost)
  <2>1. \A x \in Messages : Contains(s, x) => ~Before(m, x, lost)
    BY <1>4 DEF Faithful, RowsSound, Over
  <2> QED
    BY <1>1, <1>4, <2>1 DEF Closed
<1>5. \A x \in Messages : req[x] = "emitted" => [req EXCEPT ![m] = "stored"][x] = "emitted"
  BY DEF RowsSound
<1> QED
  BY <1>2, <1>3, <1>4, <1>5 DEF ListsSound

\* An event is sent: nothing that was written after it has been seen.
LEMMA ListsEmitted ==
    ASSUME NEW p \in Page, NEW new \in Page, NEW stored, NEW req, NEW lost, NEW m \in Messages,
           RowsSound(stored, req, lost), ListsSound(p, stored, req, lost), req[m] = "stored",
           new.shown = p.shown, new.loads = p.loads,
           new.inbox = p.inbox \/ new.inbox = Append(p.inbox, m)
    PROVE  ListsSound(new, stored, [req EXCEPT ![m] = "emitted"], lost)
<1> DEFINE now == [req EXCEPT ![m] = "emitted"]
<1>1. ListsSound(p, stored, now, lost)
  BY ListsKept DEF RowsSound
<1>2. CASE new.inbox = p.inbox
  BY <1>1, <1>2 DEF ListsSound
<1>3. CASE new.inbox = Append(p.inbox, m)
  <2>1. \A x \in Messages : Contains(stored, x) => ~Before(m, x, lost)
    BY DEF RowsSound, Over
  <2>2. p.inbox \in Seq(Messages) /\ Contains(stored, m) /\ ~Contains(p.inbox, m)
    BY DEF Page, RowsSound, ListsSound
  <2>3. Faithful(new.inbox, stored)
    BY <1>3, <2>2, FaithfulAppend DEF ListsSound
  <2>4. Sorted(new.inbox, lost)
    BY <1>3, <2>1, <2>2, SortedAppend DEF ListsSound, Faithful
  <2>5. \A x : Contains(new.inbox, x) <=> Contains(p.inbox, x) \/ x = m
    BY <1>3, <2>2, AppendToList
  <2>6. now[m] = "emitted"
    BY DEF RowsSound
  <2>7. Len(stored) <= Limit => Closed(new.shown, new.inbox, lost)
    BY <2>1, <2>5 DEF ListsSound, Closed, Faithful
  <2>8. \A x \in Messages : Contains(new.inbox, x) => now[x] = "emitted"
    BY <1>1, <2>5, <2>6 DEF ListsSound
  <2> QED
    BY <1>1, <2>3, <2>4, <2>7, <2>8 DEF ListsSound
<1> QED
  BY <1>2, <1>3

\* An event arrives: it is new and last, or there already.
LEMMA ListsDelivered ==
    ASSUME NEW p \in Page, NEW new, NEW stored, NEW req, NEW lost,
           ListsSound(p, stored, req, lost), p.inbox # <<>>,
           new.shown = WithEvent(p.shown, Head(p.inbox)), new.loads = p.loads,
           new.inbox = Tail(p.inbox)
    PROVE  ListsSound(new, stored, req, lost)
<1> DEFINE h == Head(p.inbox)
<1>1. /\ h \in Messages /\ Contains(p.inbox, h)
      /\ Faithful(new.inbox, stored) /\ Sorted(new.inbox, lost)
      /\ \A x \in Messages : Contains(new.inbox, x) => Contains(p.inbox, x) /\ ~Before(x, h, lost)
  BY TailOfList DEF ListsSound, Page
<1> HIDE DEF h
<1>2. CASE Contains(p.shown, h)
  <2>1. new.shown = p.shown
    BY <1>2 DEF WithEvent, h
  <2> QED
    BY <1>1, <2>1 DEF ListsSound, Closed
<1>3. CASE ~Contains(p.shown, h)
  <2>1. new.shown = Append(p.shown, h) /\ p.shown \in Seq(Messages) /\ Contains(stored, h)
    BY <1>1, <1>3 DEF WithEvent, h, Page, ListsSound, Faithful
  <2>2. Faithful(new.shown, stored)
    BY <1>1, <1>3, <2>1, FaithfulAppend DEF ListsSound
  <2>3. \A x : Contains(new.shown, x) <=> Contains(p.shown, x) \/ x = h
    <3>1. \A x : Contains(Append(p.shown, h), x) <=> Contains(p.shown, x) \/ x = h
      BY <1>1, <2>1, AppendToList
    <3> QED
      BY <2>1, <3>1
  <2>4. Len(stored) <= Limit => Sorted(new.shown, lost)
    BY <1>1, <1>3, <2>1, SortedAppend DEF ListsSound, Closed
  <2>5. Len(stored) <= Limit => Closed(new.shown, new.inbox, lost)
    BY <1>1, <2>3 DEF ListsSound, Closed
  <2> QED
    BY <1>1, <2>2, <2>4, <2>5 DEF ListsSound
<1> QED
  BY <1>2, <1>3

\* The answer of a load replaces the list.
LEMMA ListsShown ==
    ASSUME NEW p \in Page, NEW new, NEW stored, NEW req, NEW lost, NEW l \in p.loads,
           ListsSound(p, stored, req, lost), new.shown = l.found, new.inbox = p.inbox,
           new.loads \subseteq p.loads
    PROVE  ListsSound(new, stored, req, lost)
BY DEF ListsSound, Closed, Faithful

-----------------------------------------------------------------------------
(* The steps *)

\* The page of one party changes, and nothing that the other one knows of.
LEMMA OnePageStep ==
    ASSUME ChatInv, UNCHANGED <<rows, request>>, abandoned \subseteq abandoned',
           NEW q \in Parties, NEW new \in Page, page' = [page EXCEPT ![q] = new],
           ButtonSound(q, new, request, abandoned'),
           ListsSound(new, rows, request, abandoned)
    PROVE  ChatInv'
<1>1. RowsSound(rows, request, abandoned')
  BY MoreLost DEF ChatInv, RowsSound
<1>2. page' \in [Parties -> Page]
  BY DEF ChatInv
<1>3. ASSUME NEW r \in Parties
      PROVE  PageSound(r, page'[r], rows, request, abandoned')
  <2>1. CASE r = q
    <3>1. page'[r] = new
      BY <2>1 DEF ChatInv
    <3> QED
      BY <2>1, <3>1, ListsKept DEF PageSound
  <2>2. CASE r # q
    <3>1. page'[r] = page[r] /\ PageSound(r, page[r], rows, request, abandoned)
      BY <2>2 DEF ChatInv
    <3> QED
      BY <3>1, ListsKept, ButtonKept DEF PageSound
  <2> QED
    BY <2>1, <2>2
<1> QED
  BY <1>1, <1>2, <1>3 DEF ChatInv

\* What a page does on its own with its lists and sockets.
LEMMA PageStep ==
    ASSUME ChatInv, NEW q \in Parties,
           \/ \E l \in page[q].loads : ReadMessages(q, l) \/ ShowMessages(q, l) \/ LoseLoad(q, l)
           \/ Connect(q) \/ Deliver(q) \/ RenewSession(q) \/ UserLoaded(q)
           \/ LoseSocket(q) \/ (q = "provider" /\ EditPosition)
    PROVE  ChatInv'
<1> DEFINE p == page[q]
<1>1. /\ p \in Page /\ ButtonSound(q, p, request, abandoned)
      /\ ListsSound(p, rows, request, abandoned)
  BY DEF ChatInv, PageSound
<1>2. UNCHANGED <<rows, request, abandoned>>
  BY DEF ReadMessages, ShowMessages, LoseLoad, Connect, Deliver, RenewSession, UserLoaded,
     LoseSocket, EditPosition
<1>3. ASSUME NEW new \in Page, page' = [page EXCEPT ![q] = new],
             ButtonSound(q, new, request, abandoned), ListsSound(new, rows, request, abandoned)
      PROVE  ChatInv'
  BY <1>2, <1>3, OnePageStep
\* The lists and the button are left alone.
<1>4. ASSUME NEW new \in Page, page' = [page EXCEPT ![q] = new],
             new.shown = p.shown, new.inbox = p.inbox \/ new.inbox = <<>>,
             new.sending = p.sending, new.answered = p.answered,
             \A l \in new.loads : l \in p.loads \/ (l.found = <<>> /\ l.message = None)
      PROVE  ChatInv'
  BY <1>1, <1>3, <1>4, ListsOfPart, ButtonOfPart
<1>5. ASSUME NEW l \in p.loads, ReadMessages(q, l)
      PROVE  ChatInv'
  <2> DEFINE brought == [l EXCEPT !.read = TRUE, !.found = Newest]
             loads   == (p.loads \ {l}) \cup {brought}
             new     == [p EXCEPT !.loads = loads]
  <2>1. /\ Faithful(Newest, rows) /\ Sorted(Newest, abandoned)
        /\ Len(rows) <= Limit => Closed(Newest, rows, abandoned)
    BY NewestRows DEF ChatInv, RowsSound
  <2>2. brought \in Loads /\ brought.found = Newest /\ brought.message = l.message
    BY <1>1, <2>1 DEF Page, Loads, Faithful
  <2> HIDE DEF brought
  <2>3. loads \in SUBSET Loads
    BY <1>1, <2>2 DEF Page
  <2>4. /\ new \in Page /\ new.loads = loads /\ new.shown = p.shown /\ new.inbox = p.inbox
        /\ new.sending = p.sending /\ new.answered = p.answered
    BY <1>1, <2>3 DEF Page
  <2>5. page' = [page EXCEPT ![q] = new]
    BY <1>5 DEF ReadMessages, brought
  <2> HIDE DEF new
  <2>6. ButtonSound(q, new, request, abandoned)
    BY <1>1, <2>2, <2>4, ButtonOfPart
  <2>7. ListsSound(new, rows, request, abandoned)
    BY <1>1, <2>1, <2>2, <2>4 DEF ListsSound
  <2> QED
    BY <1>3, <2>4, <2>5, <2>6, <2>7
<1>6. ASSUME NEW l \in p.loads, ShowMessages(q, l) \/ LoseLoad(q, l)
      PROVE  ChatInv'
  <2>1. /\ Done(p, l) \in Page /\ Done(p, l).loads = p.loads /\ Done(p, l).shown = p.shown
        /\ Done(p, l).inbox = p.inbox
    BY <1>1 DEF Done, Released, Page
  <2>2. CASE ShowMessages(q, l)
    <3> DEFINE new == [Done(p, l) EXCEPT !.shown = l.found, !.loads = @ \ {l}]
    <3>1. /\ new \in Page /\ new.shown = l.found /\ new.inbox = p.inbox
          /\ new.loads \subseteq p.loads
          /\ new.sending = Done(p, l).sending /\ new.answered = Done(p, l).answered
      BY <1>1, <2>1 DEF Page, Loads
    <3>2. page' = [page EXCEPT ![q] = new]
      BY <2>2 DEF ShowMessages
    <3> HIDE DEF new
    <3>3. ButtonSound(q, new, request, abandoned)
      BY <1>1, <3>1, ButtonDone
    <3>4. ListsSound(new, rows, request, abandoned)
      BY <1>1, <3>1, ListsShown
    <3> QED
      BY <1>3, <3>1, <3>2, <3>3, <3>4
  <2>3. CASE LoseLoad(q, l)
    <3> DEFINE new == [Done(p, l) EXCEPT !.loads = @ \ {l}]
    <3>1. /\ new \in Page /\ new.shown = p.shown /\ new.inbox = p.inbox
          /\ new.loads \subseteq p.loads
          /\ new.sending = Done(p, l).sending /\ new.answered = Done(p, l).answered
      BY <1>1, <2>1 DEF Page, Loads
    <3>2. page' = [page EXCEPT ![q] = new]
      BY <2>3 DEF LoseLoad
    <3> HIDE DEF new
    <3>3. ButtonSound(q, new, request, abandoned)
      BY <1>1, <3>1, ButtonDone
    <3>4. ListsSound(new, rows, request, abandoned)
      BY <1>1, <3>1, ListsOfPart
    <3> QED
      BY <1>3, <3>1, <3>2, <3>3, <3>4
  <2> QED
    BY <1>6, <2>2, <2>3
<1>7. CASE Deliver(q)
  <2> DEFINE new == [p EXCEPT !.inbox = Tail(@), !.shown = WithEvent(@, Head(p.inbox))]
  <2>1. p.inbox \in Seq(Messages) /\ p.inbox # <<>> /\ p.shown \in Seq(Messages)
    BY <1>1, <1>7 DEF Page, Deliver
  <2>2. /\ Tail(p.inbox) \in Seq(Messages)
        /\ WithEvent(p.shown, Head(p.inbox)) \in Seq(Messages)
    BY <2>1, HeadTailProperties, AppendToList DEF WithEvent
  <2>3. /\ new \in Page /\ new.shown = WithEvent(p.shown, Head(p.inbox))
        /\ new.inbox = Tail(p.inbox) /\ new.loads = p.loads
        /\ new.sending = p.sending /\ new.answered = p.answered
    BY <1>1, <2>2 DEF Page
  <2>4. page' = [page EXCEPT ![q] = new]
    BY <1>7 DEF Deliver
  <2> HIDE DEF new
  <2>5. ListsSound(new, rows, request, abandoned)
    BY <1>1, <2>1, <2>3, ListsDelivered
  <2>6. ButtonSound(q, new, request, abandoned)
    BY <1>1, <2>3, ButtonOfPart
  <2> QED
    BY <1>3, <2>3, <2>4, <2>5, <2>6
<1>8. CASE Connect(q) \/ LoseSocket(q) \/ (q = "provider" /\ EditPosition) \/ UserLoaded(q)
  <2>1. PICK socket \in {"connecting", "joined", "detached"}, inbox \in {p.inbox, <<>>},
             renewed \in BOOLEAN :
            page' = [page EXCEPT ![q] = [p EXCEPT !.socket = socket, !.inbox = inbox,
                                                  !.renewed = renewed]]
    <3> DEFINE made(socket, inbox, renewed) ==
                   [p EXCEPT !.socket = socket, !.inbox = inbox, !.renewed = renewed]
    <3>1. p = [shown |-> p.shown, loads |-> p.loads, session |-> p.session,
               sending |-> p.sending, answered |-> p.answered, socket |-> p.socket,
               inbox |-> p.inbox, renewed |-> p.renewed]
          /\ p.socket \in {"connecting", "joined", "detached"} /\ p.renewed \in BOOLEAN
      BY <1>1 DEF Page
    <3>2. CASE Connect(q)
      <4>1. page' = [page EXCEPT ![q] = made("joined", p.inbox, p.renewed)]
        BY <3>1, <3>2 DEF Connect
      <4> QED
        BY <3>1, <4>1
    <3>3. CASE LoseSocket(q)
      <4>1. page' = [page EXCEPT ![q] = made("detached", <<>>, p.renewed)]
        BY <3>1, <3>3 DEF LoseSocket
      <4> QED
        BY <3>1, <4>1
    <3>4. CASE q = "provider" /\ EditPosition
      <4>1. page' = [page EXCEPT ![q] = made("connecting", <<>>, p.renewed)]
        BY <3>1, <3>4 DEF EditPosition, NewSocket
      <4> QED
        BY <3>1, <4>1
    <3>5. CASE UserLoaded(q)
      <4>1. \/ page' = [page EXCEPT ![q] = made("connecting", <<>>, FALSE)]
            \/ page' = [page EXCEPT ![q] = made(p.socket, p.inbox, FALSE)]
        BY <3>1, <3>5 DEF UserLoaded, NewSocket
      <4> QED
        BY <3>1, <4>1
    <3> QED
      BY <1>8, <3>2, <3>3, <3>4, <3>5
  <2> DEFINE new == [p EXCEPT !.socket = socket, !.inbox = inbox, !.renewed = renewed]
  <2>2. inbox \in Seq(Messages)
    BY <1>1, EmptyList DEF Page
  <2>3. /\ new \in Page /\ new.shown = p.shown /\ new.inbox = inbox /\ new.loads = p.loads
        /\ new.sending = p.sending /\ new.answered = p.answered
    BY <1>1, <2>2 DEF Page
  <2> HIDE DEF new
  <2>4. page' = [page EXCEPT ![q] = new]
    BY <2>1 DEF new
  <2> QED
    BY <1>4, <2>3, <2>4
<1>9. CASE RenewSession(q)
  <2> DEFINE count == p.session + 1
             load  == Load(count, None)
             loads == p.loads \cup {load}
             fresh == NewSocket(p)
             new   == [fresh EXCEPT !.session = count, !.renewed = TRUE, !.loads = loads]
  <2>1. count \in Nat
    BY <1>1 DEF Page
  <2>2. load \in Loads /\ load.found = <<>> /\ load.message = None
    BY <2>1, EmptyList DEF Load, Loads
  <2>3. page' = [page EXCEPT ![q] = new]
    BY <1>1, <1>9 DEF RenewSession, NewSocket, Page
  <2>4. /\ fresh \in Page /\ fresh.shown = p.shown /\ fresh.inbox = <<>>
        /\ fresh.sending = p.sending /\ fresh.answered = p.answered
    <3>1. <<>> \in Seq(Messages)
      BY EmptyList
    <3> QED
      BY <1>1, <3>1 DEF Page, NewSocket
  <2> HIDE DEF load
  <2>5. loads \in SUBSET Loads
    BY <1>1, <2>2 DEF Page
  <2>6. \A l \in loads : l \in p.loads \/ (l.found = <<>> /\ l.message = None)
    BY <2>2
  <2> HIDE DEF count, loads, fresh
  <2>7. /\ new \in Page /\ new.shown = p.shown /\ new.inbox = <<>> /\ new.loads = loads
        /\ new.sending = p.sending /\ new.answered = p.answered
    BY <2>1, <2>4, <2>5 DEF Page
  <2> HIDE DEF new
  <2> QED
    BY <1>4, <2>3, <2>6, <2>7
<1> QED
  BY <1>5, <1>6, <1>7, <1>8, <1>9

\* The page of one party changes, and a request that is its own.
LEMMA OwnRequestStep ==
    ASSUME ChatInv, UNCHANGED <<rows, abandoned>>, RowsSound(rows, request', abandoned),
           NEW q \in Parties, NEW new \in Page, page' = [page EXCEPT ![q] = new],
           ButtonSound(q, new, request', abandoned), ListsSound(new, rows, request', abandoned),
           \A m \in Messages : request[m] = "emitted" => request'[m] = "emitted",
           \A m \in Messages : Over(m, request) => Over(m, request'),
           \A m \in Messages : author[m] # q => request'[m] = request[m]
    PROVE  ChatInv'
<1>1. page' \in [Parties -> Page]
  BY DEF ChatInv
<1>2. ASSUME NEW r \in Parties
      PROVE  PageSound(r, page'[r], rows, request', abandoned)
  <2>1. CASE r = q
    <3>1. page'[r] = new
      BY <2>1 DEF ChatInv
    <3> QED
      BY <2>1, <3>1 DEF PageSound
  <2>2. CASE r # q
    <3>1. page'[r] = page[r] /\ PageSound(r, page[r], rows, request, abandoned)
      BY <2>2 DEF ChatInv
    <3>2. ButtonSound(r, page[r], request', abandoned)
      BY <2>2, <3>1, ButtonKept DEF PageSound
    <3>3. ListsSound(page[r], rows, request', abandoned)
      BY <3>1, ListsKept DEF PageSound
    <3> QED
      BY <3>1, <3>2, <3>3 DEF PageSound
  <2> QED
    BY <2>1, <2>2
<1> QED
  BY <1>1, <1>2 DEF ChatInv

\* What was written before the message that is sent now is over, or lost.
LEMMA SendStep ==
    ASSUME ChatInv, NEW q \in Parties, Send(q)
    PROVE  ChatInv'
<1> DEFINE p      == page[q]
           unsent == {m \in Messages : author[m] = q /\ request[m] = "none"}
           first  == Min(unsent)
           new    == [p EXCEPT !.sending = first]
<1>1. /\ p \in Page /\ ButtonSound(q, p, request, abandoned)
      /\ ListsSound(p, rows, request, abandoned)
      /\ RowsSound(rows, request, abandoned)
  BY DEF ChatInv, PageSound
<1>2. /\ first \in Messages /\ author[first] = q /\ request[first] = "none"
      /\ \A m \in Messages : author[m] = q /\ request[m] = "none" => first <= m
  <2>1. unsent # {} /\ unsent \in SUBSET Messages
    BY DEF Send
  <2>2. first \in unsent /\ \A m \in unsent : first <= m
    BY <2>1, FirstUnsent
  <2> HIDE DEF first
  <2> QED
    BY <2>2
<1>3. /\ p.sending = None /\ page' = [page EXCEPT ![q] = new]
      /\ request' = [request EXCEPT ![first] = "posted"] /\ UNCHANGED <<rows, abandoned>>
  BY DEF Send
<1> HIDE DEF first
<1>4. /\ \A m \in Messages : m # first => request'[m] = request[m]
      /\ request'[first] = "posted"
      /\ request' \in [Messages -> {"none", "posted", "stored", "emitted", "over"}]
  BY <1>1, <1>2, <1>3 DEF RowsSound
<1>5. ASSUME NEW m \in Messages, Before(m, first, abandoned)
      PROVE  Over(m, request)
  <2>1. m \in Nat /\ first \in Nat
    BY <1>2, MessagesAreNumbers
  <2>2. request[m] # "none"
    BY <1>2, <1>5, <2>1 DEF Before
  <2>3. request[m] \notin {"posted", "stored"}
    BY <1>1, <1>2, <1>3, <1>5, ChatAssumption DEF ButtonSound, Before
  <2> QED
    BY <1>1, <2>2, <2>3 DEF RowsSound, Over
<1>6. \A m \in Messages : /\ request[m] = "emitted" => request'[m] = "emitted"
                          /\ Over(m, request) => Over(m, request')
  BY <1>2, <1>4 DEF Over
<1>7. RowsSound(rows, request', abandoned)
  <2>1. \A m, x \in Messages : Before(m, x, abandoned) /\ request'[x] # "none" => Over(m, request')
    BY <1>1, <1>4, <1>5, <1>6 DEF RowsSound
  <2>2. \A m \in Messages :
            /\ Contains(rows, m) => request'[m] \notin {"none", "posted"}
            /\ request'[m] \in {"stored", "emitted"} => Contains(rows, m)
    BY <1>1, <1>2, <1>4 DEF RowsSound
  <2> QED
    BY <1>1, <1>4, <2>1, <2>2 DEF RowsSound
<1>8. /\ new \in Page /\ new.sending = first /\ new.answered = p.answered
      /\ new.loads = p.loads /\ new.shown = p.shown /\ new.inbox = p.inbox
  BY <1>1, <1>2 DEF Page
<1> HIDE DEF new
<1>9. ButtonSound(q, new, request', abandoned)
  <2>1. ~p.answered
    BY <1>1, <1>3 DEF ButtonSound
  <2>2. \A l \in p.loads : l.message # None => Over(l.message, request')
    BY <1>1, <1>6 DEF ButtonSound, Page, Loads
  <2>3. \A m \in Messages : author[m] = q /\ request'[m] \in {"posted", "stored"}
                                /\ m \notin abandoned => m = first
    BY <1>1, <1>3, <1>4, ChatAssumption DEF ButtonSound
  <2> QED
    BY <1>8, <2>1, <2>2, <2>3 DEF ButtonSound
<1>10. ListsSound(new, rows, request', abandoned)
  <2>1. ListsSound(new, rows, request, abandoned)
    BY <1>1, <1>8, ListsOfPart
  <2> QED
    BY <1>6, <2>1, ListsKept
<1> QED
  BY <1>2, <1>3, <1>4, <1>6, <1>7, <1>8, <1>9, <1>10, OwnRequestStep

\* A request that is refused is over, and its sender may write again.
LEMMA RefuseStep ==
    ASSUME ChatInv, NEW m \in Messages, Refuse(m)
    PROVE  ChatInv'
<1> DEFINE q   == author[m]
           p   == page[q]
           new == IF Waits(m) THEN Released(p) ELSE p
<1>1. q \in Parties
  BY ChatAssumption
<1>2. /\ p \in Page /\ ButtonSound(q, p, request, abandoned)
      /\ ListsSound(p, rows, request, abandoned)
      /\ RowsSound(rows, request, abandoned)
  BY <1>1 DEF ChatInv, PageSound
<1>3. /\ request[m] = "posted" /\ request' = [request EXCEPT ![m] = "over"]
      /\ UNCHANGED <<rows, abandoned>>
      /\ page' = [page EXCEPT ![q] = new]
  BY <1>1 DEF Refuse, ChatInv
<1>4. /\ \A x \in Messages : x # m => request'[x] = request[x]
      /\ request'[m] = "over"
      /\ request' \in [Messages -> {"none", "posted", "stored", "emitted", "over"}]
  BY <1>2, <1>3 DEF RowsSound
<1>5. \A x \in Messages : /\ request[x] = "emitted" => request'[x] = "emitted"
                          /\ Over(x, request) => Over(x, request')
                          /\ request'[x] \in {"posted", "stored"} =>
                                 request[x] \in {"posted", "stored"}
  BY <1>3, <1>4 DEF Over
<1>6. RowsSound(rows, request', abandoned)
  <2>1. \A y, x \in Messages : Before(y, x, abandoned) /\ request'[x] # "none" => Over(y, request')
    BY <1>2, <1>3, <1>4, <1>5 DEF RowsSound
  <2>2. \A x \in Messages :
            /\ Contains(rows, x) => request'[x] \notin {"none", "posted"}
            /\ request'[x] \in {"stored", "emitted"} => Contains(rows, x)
    BY <1>2, <1>3, <1>4 DEF RowsSound
  <2> QED
    BY <1>2, <1>4, <2>1, <2>2 DEF RowsSound
<1>7. ButtonSound(q, p, request', abandoned) /\ ListsSound(p, rows, request', abandoned)
  BY <1>2, <1>5, ButtonKept, ListsKept
<1>8. /\ new \in Page /\ ButtonSound(q, new, request', abandoned)
      /\ ListsSound(new, rows, request', abandoned)
  <2>1. CASE Waits(m)
    <3>1. /\ Released(p) \in Page /\ Released(p).sending = None /\ ~Released(p).answered
          /\ Released(p).loads = p.loads /\ Released(p).shown = p.shown
          /\ Released(p).inbox = p.inbox
      BY <1>2 DEF Released, Page
    <3>2. Over(p.sending, request')
      BY <1>4, <2>1 DEF Waits, Over
    <3>3. /\ ButtonSound(q, Released(p), request', abandoned)
          /\ ListsSound(Released(p), rows, request', abandoned)
      BY <1>7, <3>1, <3>2, ButtonReleased, ListsOfPart
    <3> QED
      BY <2>1, <3>1, <3>3
  <2>2. CASE ~Waits(m)
    BY <1>2, <1>7, <2>2
  <2> QED
    BY <2>1, <2>2
<1> HIDE DEF new
<1> QED
  BY <1>1, <1>3, <1>4, <1>5, <1>6, <1>8, OwnRequestStep

\* What its sender wrote before a message that is stored now has been stored, or
\* lost.
LEMMA StoreStep ==
    ASSUME ChatInv, NEW m \in Messages, Store(m)
    PROVE  ChatInv'
<1>1. RowsSound(rows, request, abandoned) /\ rows \in Seq(Messages)
  BY DEF ChatInv, RowsSound, Faithful
<1>2. /\ request[m] = "posted" /\ request' = [request EXCEPT ![m] = "stored"]
      /\ rows' = Append(rows, m) /\ UNCHANGED <<page, abandoned>>
  BY DEF Store
<1>3. /\ \A x \in Messages : x # m => request'[x] = request[x]
      /\ request'[m] = "stored"
      /\ request' \in [Messages -> {"none", "posted", "stored", "emitted", "over"}]
  BY <1>1, <1>2 DEF RowsSound
<1>4. \A x : Contains(rows', x) <=> Contains(rows, x) \/ x = m
  BY <1>1, <1>2, AppendToList
<1>5. \A x \in Messages : Over(x, request) <=> Over(x, request')
  BY <1>2, <1>3 DEF Over
<1>6. RowsSound(rows', request', abandoned)
  <2>1. Faithful(rows, rows')
    BY <1>1, <1>4 DEF RowsSound, Faithful
  <2>2. Contains(rows', m) /\ ~Contains(rows, m)
    BY <1>1, <1>2, <1>4 DEF RowsSound
  <2>3. Faithful(rows', rows')
    BY <1>2, <2>1, <2>2, FaithfulAppend
  <2>4. \A x \in Messages : Contains(rows, x) => ~Before(m, x, abandoned)
    BY <1>1, <1>2 DEF RowsSound, Over
  <2>5. Sorted(rows', abandoned)
    BY <1>1, <1>2, <2>4, SortedAppend DEF RowsSound
  <2>6. \A x \in Messages :
            /\ Contains(rows', x) => request'[x] \notin {"none", "posted"}
            /\ request'[x] \in {"stored", "emitted"} => Contains(rows', x)
    BY <1>1, <1>3, <1>4 DEF RowsSound
  <2>7. \A y, x \in Messages : Before(y, x, abandoned) /\ request'[x] # "none" => Over(y, request')
    BY <1>1, <1>2, <1>3, <1>5 DEF RowsSound
  <2> QED
    BY <1>3, <2>3, <2>5, <2>6, <2>7 DEF RowsSound
<1>7. ASSUME NEW q \in Parties
      PROVE  PageSound(q, page[q], rows', request', abandoned)
  <2>1. PageSound(q, page[q], rows, request, abandoned)
    BY DEF ChatInv
  <2>2. ListsSound(page[q], rows', request', abandoned)
    BY <1>1, <1>2, <2>1, ListsStored DEF PageSound
  <2>3. ButtonSound(q, page[q], request', abandoned)
    BY <1>2, <1>3, <1>5, <2>1, ButtonKept DEF PageSound
  <2> QED
    BY <2>1, <2>2, <2>3 DEF PageSound
<1> QED
  BY <1>2, <1>6, <1>7 DEF ChatInv

\* The event of a message reaches whoever is in the room behind all that were
\* written before it.
LEMMA EmitStep ==
    ASSUME ChatInv, NEW m \in Messages, Emit(m)
    PROVE  ChatInv'
<1>1. RowsSound(rows, request, abandoned)
  BY DEF ChatInv
<1>2. /\ request[m] = "stored" /\ request' = [request EXCEPT ![m] = "emitted"]
      /\ UNCHANGED <<rows, abandoned>>
  BY DEF Emit
<1>3. /\ \A x \in Messages : x # m => request'[x] = request[x]
      /\ request'[m] = "emitted"
      /\ request' \in [Messages -> {"none", "posted", "stored", "emitted", "over"}]
  BY <1>1, <1>2 DEF RowsSound
<1>4. \A x \in Messages : Over(x, request) => Over(x, request')
  BY <1>3 DEF Over
<1>5. RowsSound(rows, request', abandoned)
  <2>1. \A y, x \in Messages : Before(y, x, abandoned) /\ request'[x] # "none" => Over(y, request')
    BY <1>1, <1>2, <1>3, <1>4 DEF RowsSound
  <2>2. \A x \in Messages :
            /\ Contains(rows, x) => request'[x] \notin {"none", "posted"}
            /\ request'[x] \in {"stored", "emitted"} => Contains(rows, x)
    BY <1>1, <1>2, <1>3 DEF RowsSound
  <2> QED
    BY <1>1, <1>3, <2>1, <2>2 DEF RowsSound
<1>6. ASSUME NEW q \in Parties
      PROVE  PageSound(q, page'[q], rows, request', abandoned)
  <2> DEFINE p == page[q]
             new == page'[q]
  <2>1. /\ p \in Page /\ ButtonSound(q, p, request, abandoned)
        /\ ListsSound(p, rows, request, abandoned)
    BY DEF ChatInv, PageSound
  <2>2. new = p \/ new = [p EXCEPT !.inbox = Append(p.inbox, m)]
    BY DEF Emit
  <2>3. p.inbox \in Seq(Messages) /\ Append(p.inbox, m) \in Seq(Messages)
    BY <2>1, AppendToList DEF Page
  <2>4. /\ new \in Page /\ new.shown = p.shown /\ new.loads = p.loads
        /\ new.inbox = p.inbox \/ new.inbox = Append(p.inbox, m)
        /\ new.sending = p.sending /\ new.answered = p.answered
    BY <2>1, <2>2, <2>3 DEF Page
  <2> HIDE DEF p, new
  <2>5. ListsSound(new, rows, request', abandoned)
    BY <1>1, <1>2, <2>1, <2>4, ListsEmitted
  <2>6. ButtonSound(q, p, request', abandoned)
    BY <1>2, <1>3, <1>4, <2>1, ButtonKept
  <2>7. ButtonSound(q, new, request', abandoned)
    BY <2>4, <2>6, ButtonOfPart
  <2> QED
    BY <2>4, <2>5, <2>7 DEF PageSound, new
<1>7. page' \in [Parties -> Page]
  <2>1. page' = [q \in Parties |-> page'[q]]
    BY DEF Emit
  <2> QED
    BY <1>6, <2>1 DEF PageSound
<1> QED
  BY <1>2, <1>5, <1>6, <1>7 DEF ChatInv

\* The answer is not there before the event is out.
LEMMA AnswerStep ==
    ASSUME ChatInv, NEW m \in Messages, Answer(m)
    PROVE  ChatInv'
<1> DEFINE q     == author[m]
           p     == page[q]
           load  == Load(p.session, m)
           loads == p.loads \cup {load}
           new   == [p EXCEPT !.answered = TRUE, !.loads = loads]
<1>1. q \in Parties
  BY ChatAssumption
<1>2. /\ p \in Page /\ ButtonSound(q, p, request, abandoned)
      /\ ListsSound(p, rows, request, abandoned)
  BY <1>1 DEF ChatInv, PageSound
<1>3. /\ request[m] = "emitted" /\ p.sending = m /\ ~p.answered
      /\ UNCHANGED <<rows, request, abandoned>>
      /\ page' = [page EXCEPT ![q] = new]
  BY <1>1 DEF Answer, Answerable, Waits, ChatInv
<1>4. load \in Loads /\ load.found = <<>> /\ load.message = m
  BY <1>2, EmptyList DEF Load, Loads, Page
<1> HIDE DEF load
<1>5. loads \in SUBSET Loads /\ \A l \in loads : l \in p.loads \/ (l.found = <<>> /\ l.message = m)
  BY <1>2, <1>4 DEF Page
<1> HIDE DEF loads
<1>6. /\ new \in Page /\ new.shown = p.shown /\ new.inbox = p.inbox /\ new.loads = loads
      /\ new.sending = m /\ new.answered
  BY <1>2, <1>3, <1>5 DEF Page
<1> HIDE DEF new
<1>7. ListsSound(new, rows, request, abandoned)
  BY <1>2, <1>5, <1>6, ListsOfPart
<1>8. ButtonSound(q, new, request, abandoned)
  <2>1. Over(m, request) /\ m # None
    BY <1>3, ChatAssumption DEF Over
  <2>2. \A x \in Messages :
            ~(author[x] = q /\ request[x] \in {"posted", "stored"} /\ x \notin abandoned)
    BY <1>2, <1>3 DEF ButtonSound
  <2> QED
    BY <1>2, <1>5, <1>6, <2>1, <2>2 DEF ButtonSound
<1> QED
  BY <1>1, <1>3, <1>6, <1>7, <1>8, OnePageStep

\* A page is left, or told that it failed: what it waited for is lost.
LEMMA LossStep ==
    ASSUME ChatInv, NEW q \in Parties, Reopen(q) \/ LoseAnswer(q)
    PROVE  ChatInv'
<1> DEFINE p == page[q]
<1>1. /\ p \in Page /\ ButtonSound(q, p, request, abandoned)
      /\ ListsSound(p, rows, request, abandoned)
  BY DEF ChatInv, PageSound
<1>2. /\ UNCHANGED <<rows, request>> /\ abandoned \subseteq abandoned'
      /\ \A m \in Messages : p.sending = m /\ ~p.answered => m \in abandoned'
  BY DEF Reopen, LoseAnswer, Awaited
<1>3. CASE Reopen(q)
  <2> DEFINE load == Load(0, None)
             new  == Mounted(0)
  <2>1. load \in Loads /\ load.found = <<>> /\ load.message = None
    BY EmptyList DEF Load, Loads
  <2>2. /\ new \in Page /\ new.shown = <<>> /\ new.inbox = <<>> /\ new.loads = {load}
        /\ ~new.answered
    <3> HIDE DEF load
    <3>1. <<>> \in Seq(Messages)
      BY EmptyList
    <3>2. new = [shown |-> <<>>, loads |-> {load}, session |-> 0, sending |-> None,
                 answered |-> FALSE, socket |-> "connecting", inbox |-> <<>>, renewed |-> FALSE]
      BY DEF Mounted, load
    <3>3. {load} \in SUBSET Loads
      BY <2>1
    <3> HIDE DEF new
    <3>4. new \in Page
      BY <3>1, <3>2, <3>3 DEF Page
    <3> QED
      BY <3>2, <3>4
  <2>3. page' = [page EXCEPT ![q] = new]
    BY <1>3 DEF Reopen
  <2> HIDE DEF load, new
  <2>4. ButtonSound(q, new, request, abandoned')
    BY <1>1, <1>2, <2>1, <2>2 DEF ButtonSound
  <2>5. ListsSound(new, rows, request, abandoned)
    BY <2>1, <2>2, EmptyList DEF ListsSound
  <2> QED
    BY <1>2, <2>2, <2>3, <2>4, <2>5, OnePageStep
<1>4. CASE LoseAnswer(q)
  <2> DEFINE new == Released(p)
  <2>1. /\ new \in Page /\ new.sending = None /\ ~new.answered /\ new.loads = p.loads
        /\ new.shown = p.shown /\ new.inbox = p.inbox
    BY <1>1 DEF Released, Page
  <2>2. page' = [page EXCEPT ![q] = new]
    BY <1>4 DEF LoseAnswer
  <2> HIDE DEF new
  <2>3. p.sending # None => Over(p.sending, request) \/ p.sending \in abandoned'
    BY <1>1, <1>2 DEF ButtonSound, Page
  <2>4. ButtonSound(q, new, request, abandoned')
    BY <1>1, <1>2, <2>1, <2>3, ButtonReleased
  <2>5. ListsSound(new, rows, request, abandoned)
    BY <1>1, <2>1, ListsOfPart
  <2> QED
    BY <1>2, <2>1, <2>2, <2>4, <2>5, OnePageStep
<1> QED
  BY <1>3, <1>4

\* The process dies: requests are over, events are lost, and whoever waits for an
\* answer is told that it failed.
LEMMA CrashStep ==
    ASSUME ChatInv, Crash
    PROVE  ChatInv'
<1>1. RowsSound(rows, request, abandoned)
  BY DEF ChatInv
<1>2. /\ \A m \in Messages : request'[m] =
             IF request[m] \in {"posted", "stored"} THEN "over" ELSE request[m]
      /\ request' \in [Messages -> {"none", "posted", "stored", "emitted", "over"}]
      /\ rows' = rows /\ abandoned \subseteq abandoned'
  BY <1>1 DEF Crash, RowsSound
<1>3. \A m \in Messages : /\ Over(m, request) => Over(m, request')
                          /\ request[m] = "emitted" => request'[m] = "emitted"
                          /\ request'[m] \notin {"posted", "stored"}
  BY <1>2 DEF Over
<1>4. RowsSound(rows, request', abandoned')
  <2>1. Sorted(rows, abandoned')
    BY <1>1, <1>2, MoreLost DEF RowsSound
  <2>2. \A m, x \in Messages : Before(m, x, abandoned') /\ request'[x] # "none" => Over(m, request')
    <3>1. \A x \in Messages : request'[x] # "none" => request[x] # "none"
      BY <1>2
    <3> QED
      BY <1>1, <1>2, <1>3, <3>1, MoreLost DEF RowsSound
  <2>3. \A m \in Messages :
            /\ Contains(rows, m) => request'[m] \notin {"none", "posted"}
            /\ request'[m] \in {"stored", "emitted"} => Contains(rows, m)
    BY <1>1, <1>2 DEF RowsSound
  <2> QED
    BY <1>1, <1>2, <2>1, <2>2, <2>3 DEF RowsSound
<1>5. ASSUME NEW q \in Parties
      PROVE  PageSound(q, page'[q], rows, request', abandoned')
  <2> DEFINE p   == page[q]
             new == page'[q]
  <2>1. /\ p \in Page /\ ButtonSound(q, p, request, abandoned)
        /\ ListsSound(p, rows, request, abandoned)
    BY DEF ChatInv, PageSound
  <2>2. PICK kept \in {p, Released(p)}, socket \in {"connecting", "detached"} :
            /\ kept = IF p.answered THEN p ELSE Released(p)
            /\ new = [kept EXCEPT !.socket = socket, !.inbox = <<>>]
    BY DEF Crash
  <2>3. /\ kept \in Page /\ kept.shown = p.shown /\ kept.loads = p.loads
        /\ kept.answered => kept.sending = p.sending /\ p.answered
    BY <2>1, <2>2 DEF Released, Page
  <2>4. <<>> \in Seq(Messages)
    BY EmptyList
  <2>5. /\ new \in Page /\ new.shown = p.shown /\ new.loads = p.loads /\ new.inbox = <<>>
        /\ new.answered => p.answered /\ new.sending = p.sending
    BY <2>2, <2>3, <2>4 DEF Page
  <2> HIDE DEF p, new
  <2>6. ButtonSound(q, new, request', abandoned')
    <3>1. new.answered => new.sending # None /\ Over(new.sending, request')
      BY <1>3, <2>1, <2>5 DEF ButtonSound, Page
    <3>2. \A l \in new.loads : l.message # None => Over(l.message, request')
      BY <1>3, <2>1, <2>5 DEF ButtonSound, Page, Loads
    <3> QED
      BY <1>3, <3>1, <3>2 DEF ButtonSound
  <2>7. ListsSound(new, rows, request', abandoned')
    <3>1. ListsSound(new, rows, request, abandoned)
      BY <2>1, <2>5, ListsOfPart
    <3> QED
      BY <1>2, <1>3, <3>1, ListsKept
  <2> QED
    BY <2>5, <2>6, <2>7 DEF PageSound, new
<1>6. page' \in [Parties -> Page]
  <2>1. page' = [q \in Parties |-> page'[q]]
    BY DEF Crash
  <2> QED
    BY <1>5, <2>1 DEF PageSound
<1> QED
  BY <1>2, <1>4, <1>5, <1>6 DEF ChatInv

-----------------------------------------------------------------------------
(* The invariant and what it says *)

LEMMA ChatInit == Init => ChatInv
<1> SUFFICES ASSUME Init PROVE ChatInv
  OBVIOUS
<1>1. /\ rows = <<>> /\ request = [m \in Messages |-> "none"] /\ abandoned = {}
      /\ page = [q \in Parties |-> Mounted(0)]
  BY DEF Init
<1>2. <<>> \in Seq(Messages) /\ Faithful(<<>>, <<>>) /\ Sorted(<<>>, {})
      /\ Closed(<<>>, <<>>, {}) /\ \A m : ~Contains(<<>>, m)
  BY EmptyList
<1>3. RowsSound(rows, request, abandoned)
  BY <1>1, <1>2 DEF RowsSound
<1> DEFINE load == Load(0, None)
           new  == Mounted(0)
<1>4. load \in Loads /\ load.found = <<>> /\ load.message = None
  BY <1>2 DEF Load, Loads
<1>5. new = [shown |-> <<>>, loads |-> {load}, session |-> 0, sending |-> None,
             answered |-> FALSE, socket |-> "connecting", inbox |-> <<>>, renewed |-> FALSE]
  BY DEF Mounted
<1>6. \A q \in Parties : page[q] = new
  BY <1>1
<1> HIDE DEF load, new
<1>7. new \in Page
  <2>1. {load} \in SUBSET Loads
    BY <1>4
  <2> QED
    BY <1>2, <1>5, <2>1 DEF Page
<1>8. new.shown = <<>> /\ new.inbox = <<>> /\ new.loads = {load} /\ ~new.answered
  BY <1>5
<1>9. ASSUME NEW q \in Parties
      PROVE  PageSound(q, new, rows, request, abandoned)
  <2>1. ListsSound(new, rows, request, abandoned)
    BY <1>1, <1>2, <1>4, <1>8 DEF ListsSound
  <2>2. ButtonSound(q, new, request, abandoned)
    BY <1>1, <1>4, <1>8 DEF ButtonSound
  <2> QED
    BY <1>7, <2>1, <2>2 DEF PageSound
<1>10. page \in [Parties -> Page]
  BY <1>1, <1>7 DEF new
<1> QED
  BY <1>3, <1>6, <1>9, <1>10 DEF ChatInv

LEMMA ChatStep == ChatInv /\ [Next]_vars => ChatInv'
<1> SUFFICES ASSUME ChatInv, [Next]_vars PROVE ChatInv'
  OBVIOUS
<1>1. ASSUME NEW q \in Parties,
             \/ Send(q)
             \/ \E l \in page[q].loads :
                   ReadMessages(q, l) \/ ShowMessages(q, l) \/ LoseLoad(q, l)
             \/ Connect(q)
             \/ Deliver(q)
             \/ RenewSession(q)
             \/ UserLoaded(q)
             \/ Reopen(q)
             \/ LoseAnswer(q)
             \/ LoseSocket(q)
      PROVE  ChatInv'
  BY <1>1, SendStep, PageStep, LossStep
<1>2. ASSUME NEW m \in Messages, Refuse(m) \/ Store(m) \/ Emit(m) \/ Answer(m)
      PROVE  ChatInv'
  BY <1>2, RefuseStep, StoreStep, EmitStep, AnswerStep
<1>3. CASE EditPosition
  BY <1>3, PageStep DEF Parties
<1>4. CASE Crash
  BY <1>4, CrashStep
<1>5. CASE UNCHANGED vars
  BY <1>5 DEF vars, ChatInv
<1> QED
  BY <1>1, <1>2, <1>3, <1>4, <1>5 DEF Next

LEMMA ChatInvariant == Spec => []ChatInv
BY ChatInit, ChatStep, PTL DEF Spec

\* A load replaces what is shown, and an event that is there already is not
\* appended: no message is on a page twice.
THEOREM ShownOnce == Spec => []NothingShownTwice
<1>1. ChatInv => NothingShownTwice
  BY DEF ChatInv, PageSound, ListsSound, Faithful, NothingShownTwice
<1> QED
  BY <1>1, ChatInvariant, PTL

\* As long as a load brings all rows, the two ways agree on the order of what one
\* sender wrote, but for what was still on its way when it was given up.
THEOREM OrderOfSenders == Spec => []SenderOrderKept
<1>1. ASSUME ChatInv PROVE SenderOrderKept
  <2> SUFFICES ASSUME Len(rows) <= Limit, NEW q \in Parties,
                      NEW i \in DOMAIN page[q].shown, NEW j \in DOMAIN page[q].shown, i < j,
                      author[page[q].shown[i]] = author[page[q].shown[j]],
                      page[q].shown[i] \notin abandoned, page[q].shown[j] \notin abandoned
               PROVE  page[q].shown[i] < page[q].shown[j]
    BY DEF SenderOrderKept
  <2> DEFINE s == page[q].shown
  <2>1. s \in Seq(Messages) /\ IsInjective(s) /\ Sorted(s, abandoned)
    BY <1>1 DEF ChatInv, PageSound, ListsSound, Faithful
  <2>2. DOMAIN s = 1 .. Len(s) /\ Len(s) \in Nat
    BY <2>1, LenProperties
  <2>3. s[i] \in Messages /\ s[j] \in Messages
    BY <2>1, <2>2, ElementOfSeq
  <2>4. i \in Nat /\ j \in Nat /\ s[i] \in Nat /\ s[j] \in Nat
    <3>1. i \in DOMAIN s /\ j \in DOMAIN s
      OBVIOUS
    <3>2. s[i] \in Nat /\ s[j] \in Nat
      BY <2>3, MessagesAreNumbers
    <3> HIDE DEF s
    <3>3. i \in 1 .. Len(s) /\ j \in 1 .. Len(s)
      BY <2>2, <3>1
    <3>4. i \in Nat /\ j \in Nat
      BY <2>2, <3>3
    <3> QED
      BY <3>2, <3>4
  <2>5. s[i] # s[j]
    BY <2>1, <2>4 DEF IsInjective
  <2>6. ~Before(s[j], s[i], abandoned)
    BY <2>1 DEF Sorted
  <2> QED
    BY <2>4, <2>5, <2>6 DEF Before
<1> QED
  BY <1>1, ChatInvariant, PTL

=============================================================================
