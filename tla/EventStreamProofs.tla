------------------------- MODULE EventStreamProofs -------------------------
(***************************************************************************)
(* What holds of a session's events for every number of connections, any   *)
(* capacities and any number of events, deletions, faults and crashes.     *)
(***************************************************************************)
EXTENDS EventStream, SequenceTheorems, WellFoundedInduction, TLAPS

-----------------------------------------------------------------------------
(* What a connection's state says. *)

\* A connection that is subscribed is routed to, one that is not is owed
\* nothing; nothing is written before the acknowledgement; and only events that
\* no channel may drop are ever owed.
ConnOK ==
  \A c \in Conns :
    /\ conn[c].st = "out" => pc[c] = "idle" /\ last[c] = NoEvent
    /\ conn[c].st \in {"init", "open"} => conn[c].joined
    /\ conn[c].st \in {"out", "closed"} => due[c] = {}
    /\ conn[c].st = "init" /\ pc[c] # "flush" => conn[c].out = << >>
    /\ \A e \in due[c] : ~Droppable(e)

\* Every number there is: of the counter, of events in a goroutine's hand, and of
\* what the collector and the table hold.
HandNumbers == {held.n} \cup {ev[p].n : p \in Procs}
StoreNumbers == {x.n : x \in Contents(capture) \cup Contents(accum) \cup stored}
Known == {counter} \cup HandNumbers \cup StoreNumbers

\* The table of events has a latest number, because there always is a bound.
Bounded == \E b \in Nat : \A n \in Known : n <= b

BaseInv == HTypeOK /\ ConnOK /\ NothingSkipped /\ Bounded

-----------------------------------------------------------------------------
(* Order. *)

ForwardHolds == {"send", "await", "capture", "held", "heldwait", "hidden", "hiddenwait",
                 "last", "fact"}
SenderHolds == {"numbering", "sending", "waiting"}

\* The order lock is held exactly at these places.
LockOK ==
  /\ order = "forwarder" <=> pc["forwarder"] \in ForwardHolds
  /\ order = "sender" <=> pc["sender"] \in SenderHolds

Sorted(q) == \A i, j \in DOMAIN q : i < j => MayFollow(q[i], q[j])
Below(A, B) == \A a \in A, b \in B : MayFollow(a, b)

\* What client c has received last and has in its buffers.
Near(c) == {last[c]} \cup Contents(conn[c].out) \cup Contents(conn[c].box)
Transit == Contents(bcast) \cup UNION {Near(c) : c \in Conns}

\* What is sent first is in front; only a handshake fills the init buffer.
Lined(c) ==
  /\ conn[c].st = "open" => conn[c].box = << >>
  /\ Sorted(conn[c].out) /\ Sorted(conn[c].box)
  /\ Below({last[c]}, Contents(conn[c].out))
  /\ Below({last[c]} \cup Contents(conn[c].out), Contents(conn[c].box))
  /\ conn[c].joined => Below(Near(c), Contents(bcast))

\* An ordered event that was numbered already.
Past(e) == e.ordered => e.gen < gen \/ (e.gen = gen /\ e.n <= counter)

\* The event in a producer's hand is behind everything that was sent.
Newest(p) == Past(ev[p]) /\ Below(Transit, {ev[p]})

OrderInv ==
  /\ LockOK
  /\ ~held.ordered /\ \A p \in Procs \ {"forwarder", "sender"} : ~ev[p].ordered
  /\ Sorted(bcast) /\ \A c \in Conns : Lined(c)
  /\ \A e \in Transit : Past(e)
  /\ pc["forwarder"] = "send" => Newest("forwarder")
  /\ pc["sender"] = "sending" => Newest("sender")

-----------------------------------------------------------------------------
(* Numbers. *)

\* The entry the forwarder will hand to the collector.
Carried == IF pc["forwarder"] \in {"send", "await", "capture"} THEN {Entry(ev["forwarder"])} ELSE {}
Waiting == Contents(capture) \cup Contents(accum) \cup Carried

Distinct(q) == \A i, j \in DOMAIN q : Meet(q[i], q[j]) => i = j
Apart(A, B) == \A a \in A, b \in B : ~Meet(a, b)

\* Only a hydrated counter leaves worker events under way, and it is above all
\* of them, stored or not.
CountInv ==
  /\ ~held.safe /\ ~ev["inbound"].safe
  /\ \A x \in Waiting : x.safe => hydrated /\ 0 < x.n /\ x.n <= counter
  /\ hydrated => \A y \in stored : y.safe => y.n <= counter
  /\ Distinct(capture)
  /\ Apart(Contents(capture), Contents(accum))
  /\ Apart(Contents(capture) \cup Contents(accum), Carried)
  /\ Apart(stored, Waiting)

-----------------------------------------------------------------------------
(* Sequences. *)

LEMMA EmptyContents == Contents(<< >>) = {}
  BY DEF Contents

LEMMA OneContents == ASSUME NEW x PROVE Contents(<<x>>) = {x}
  BY DEF Contents

LEMMA Appended ==
  ASSUME NEW S, NEW q \in Seq(S), NEW e \in S
  PROVE  /\ Append(q, e) \in Seq(S) /\ Len(Append(q, e)) = Len(q) + 1
         /\ Contents(Append(q, e)) = Contents(q) \cup {e}
         /\ \A i \in DOMAIN q : Append(q, e)[i] = q[i]
         /\ DOMAIN Append(q, e) = 1..Len(q) + 1 /\ DOMAIN q = 1..Len(q)
         /\ Append(q, e)[Len(q) + 1] = e
  BY DEF Contents

LEMMA Tailed ==
  ASSUME NEW S, NEW q \in Seq(S), q # << >>
  PROVE  /\ Head(q) \in S /\ Tail(q) \in Seq(S) /\ Len(Tail(q)) = Len(q) - 1
         /\ Contents(q) = {Head(q)} \cup Contents(Tail(q))
         /\ \A i \in DOMAIN Tail(q) : i + 1 \in DOMAIN q /\ Tail(q)[i] = q[i + 1]
         /\ 1 \in DOMAIN q /\ Head(q) = q[1]
  <1>1. /\ Head(q) \in S /\ Tail(q) \in Seq(S) /\ Len(Tail(q)) = Len(q) - 1
        /\ \A i \in DOMAIN Tail(q) : i + 1 \in DOMAIN q /\ Tail(q)[i] = q[i + 1]
        /\ 1 \in DOMAIN q /\ Head(q) = q[1]
    OBVIOUS
  <1>2. ASSUME NEW i \in DOMAIN q, i # 1
        PROVE  i - 1 \in DOMAIN Tail(q) /\ Tail(q)[i - 1] = q[i]
    BY <1>2
  <1>3. Contents(q) \subseteq {Head(q)} \cup Contents(Tail(q))
    <2>1. ASSUME NEW i \in DOMAIN q
          PROVE  q[i] \in {Head(q)} \cup Contents(Tail(q))
      <3>1. CASE i = 1
        BY <1>1, <3>1
      <3>2. CASE i # 1
        BY <1>2, <3>2 DEF Contents
      <3> QED BY <3>1, <3>2
    <2> QED BY <2>1 DEF Contents
  <1> QED BY <1>1, <1>3 DEF Contents

LEMMA Concatenated ==
  ASSUME NEW S, NEW p \in Seq(S), NEW q \in Seq(S)
  PROVE  /\ p \o q \in Seq(S) /\ Len(p \o q) = Len(p) + Len(q)
         /\ Contents(p \o q) = Contents(p) \cup Contents(q)
         /\ \A i \in DOMAIN (p \o q) :
              \/ i \in DOMAIN p /\ (p \o q)[i] = p[i]
              \/ i > Len(p) /\ i - Len(p) \in DOMAIN q /\ (p \o q)[i] = q[i - Len(p)]
  <1>1. /\ p \o q \in Seq(S) /\ Len(p \o q) = Len(p) + Len(q)
        /\ \A i \in DOMAIN (p \o q) :
             \/ i \in DOMAIN p /\ (p \o q)[i] = p[i]
             \/ i > Len(p) /\ i - Len(p) \in DOMAIN q /\ (p \o q)[i] = q[i - Len(p)]
    OBVIOUS
  <1>2. Contents(p \o q) \subseteq Contents(p) \cup Contents(q)
    BY <1>1 DEF Contents
  <1>3. ASSUME NEW i \in DOMAIN p
        PROVE  i \in DOMAIN (p \o q) /\ (p \o q)[i] = p[i]
    OBVIOUS
  <1>4. ASSUME NEW i \in DOMAIN q
        PROVE  i + Len(p) \in DOMAIN (p \o q) /\ (p \o q)[i + Len(p)] = q[i]
    OBVIOUS
  <1>5. Contents(p) \cup Contents(q) \subseteq Contents(p \o q)
    BY <1>3, <1>4 DEF Contents
  <1> QED BY <1>1, <1>2, <1>5

LEMMA SortedEmpty == Sorted(<< >>) /\ Distinct(<< >>)
  BY DEF Sorted, Distinct

LEMMA SortedAppend ==
  ASSUME NEW S, NEW q \in Seq(S), NEW e \in S, Sorted(q), Below(Contents(q), {e})
  PROVE  Sorted(Append(q, e))
  <1>1. \A i \in DOMAIN q : q[i] \in Contents(q)
    BY DEF Contents
  <1> QED BY <1>1, Appended DEF Sorted, Below

LEMMA SortedTail ==
  ASSUME NEW S, NEW q \in Seq(S), q # << >>, Sorted(q)
  PROVE  Sorted(Tail(q)) /\ Below({Head(q)}, Contents(Tail(q)))
  <1>1. Sorted(Tail(q))
    BY Tailed DEF Sorted
  <1>2. ASSUME NEW i \in DOMAIN Tail(q)
        PROVE  MayFollow(Head(q), Tail(q)[i])
    BY Tailed DEF Sorted
  <1> QED BY <1>1, <1>2 DEF Below, Contents

LEMMA SortedConcat ==
  ASSUME NEW S, NEW p \in Seq(S), NEW q \in Seq(S), Sorted(p), Sorted(q),
         Below(Contents(p), Contents(q))
  PROVE  Sorted(p \o q)
  <1>1. \A i \in DOMAIN p : p[i] \in Contents(p)
    BY DEF Contents
  <1>2. \A i \in DOMAIN q : q[i] \in Contents(q)
    BY DEF Contents
  <1>3. ASSUME NEW i \in DOMAIN (p \o q), NEW j \in DOMAIN (p \o q), i < j
        PROVE  MayFollow((p \o q)[i], (p \o q)[j])
    <2>1. i \in Nat /\ j \in Nat /\ Len(p) \in Nat
      OBVIOUS
    <2>2. CASE i \in DOMAIN p /\ j \in DOMAIN p
      BY <1>3, <2>2, Concatenated DEF Sorted
    <2>3. CASE i \in DOMAIN p /\ j \notin DOMAIN p
      BY <1>1, <1>2, <2>3, Concatenated DEF Below
    <2>4. CASE i \notin DOMAIN p
      <3>1. j \notin DOMAIN p
        BY <1>3, <2>1, <2>4
      <3>2. i - Len(p) \in DOMAIN q /\ j - Len(p) \in DOMAIN q /\ i - Len(p) < j - Len(p)
            /\ (p \o q)[i] = q[i - Len(p)] /\ (p \o q)[j] = q[j - Len(p)]
        BY <1>3, <2>1, <2>4, <3>1, Concatenated
      <3> QED BY <3>2 DEF Sorted
    <2> QED BY <2>2, <2>3, <2>4
  <1> QED BY <1>3 DEF Sorted

LEMMA MeetSymmetric == ASSUME NEW x, NEW y PROVE Meet(x, y) <=> Meet(y, x)
  BY DEF Meet

LEMMA DistinctConcat ==
  ASSUME NEW S, NEW p \in Seq(S), NEW q \in Seq(S), Distinct(p), Distinct(q),
         Apart(Contents(p), Contents(q))
  PROVE  Distinct(p \o q)
  <1>1. \A i \in DOMAIN p : p[i] \in Contents(p)
    BY DEF Contents
  <1>2. \A i \in DOMAIN q : q[i] \in Contents(q)
    BY DEF Contents
  <1>3. ASSUME NEW i \in DOMAIN (p \o q), NEW j \in DOMAIN (p \o q), Meet((p \o q)[i], (p \o q)[j])
        PROVE  i = j
    <2>1. i \in Nat /\ j \in Nat /\ Len(p) \in Nat
      OBVIOUS
    <2>2. CASE i \in DOMAIN p /\ j \in DOMAIN p
      BY <1>3, <2>2, Concatenated DEF Distinct
    <2>3. CASE i \in DOMAIN p /\ j \notin DOMAIN p
      BY <1>1, <1>2, <1>3, <2>3, Concatenated DEF Apart
    <2>4. CASE i \notin DOMAIN p /\ j \in DOMAIN p
      BY <1>1, <1>2, <1>3, <2>4, Concatenated, MeetSymmetric DEF Apart
    <2>5. CASE i \notin DOMAIN p /\ j \notin DOMAIN p
      <3>1. i - Len(p) \in DOMAIN q /\ j - Len(p) \in DOMAIN q
            /\ (p \o q)[i] = q[i - Len(p)] /\ (p \o q)[j] = q[j - Len(p)]
        BY <2>1, <2>5, Concatenated
      <3>2. i - Len(p) = j - Len(p)
        BY <1>3, <3>1 DEF Distinct
      <3> QED BY <2>1, <3>2
    <2> QED BY <2>2, <2>3, <2>4, <2>5
  <1> QED BY <1>3 DEF Distinct

LEMMA DistinctTail ==
  ASSUME NEW S, NEW q \in Seq(S), q # << >>, Distinct(q)
  PROVE  Distinct(Tail(q)) /\ Apart({Head(q)}, Contents(Tail(q)))
  <1>1. \A i \in DOMAIN Tail(q) : i \in Nat /\ i # 0
    BY Tailed
  <1>2. Distinct(Tail(q))
    BY <1>1, Tailed DEF Distinct
  <1>3. ASSUME NEW i \in DOMAIN Tail(q)
        PROVE  ~Meet(Head(q), Tail(q)[i])
    BY <1>1, Tailed DEF Distinct
  <1> QED BY <1>2, <1>3 DEF Apart, Contents

LEMMA DistinctPrefix ==
  ASSUME NEW S, NEW q \in Seq(S), NEW n \in 0..Len(q)
  PROVE  /\ SubSeq(q, 1, n) \in Seq(S) /\ Len(SubSeq(q, 1, n)) = n
         /\ Contents(SubSeq(q, 1, n)) \subseteq Contents(q)
         /\ Distinct(q) => Distinct(SubSeq(q, 1, n))
  <1>1. /\ SubSeq(q, 1, n) \in Seq(S) /\ Len(SubSeq(q, 1, n)) = n
        /\ \A i \in DOMAIN SubSeq(q, 1, n) : i \in DOMAIN q /\ SubSeq(q, 1, n)[i] = q[i]
    OBVIOUS
  <1> QED BY <1>1 DEF Contents, Distinct

-----------------------------------------------------------------------------
(* Types. *)

TablesOK ==
  /\ row \in {"none", "live", "deleted"} /\ run \in BOOLEAN
  /\ counter \in Nat /\ hydrated \in BOOLEAN /\ gen \in Nat

HandsOK ==
  /\ pc \in [Procs -> Places] /\ job \in [Procs -> Jobs]
  /\ ev \in [Procs -> Events] /\ held \in Events
  /\ order \in {"none", "forwarder", "sender"}

RoutingOK ==
  /\ bcast \in Seq(Events) /\ Len(bcast) <= Broadcast
  /\ owner \in Conns \cup {NoConn}
  /\ conn \in [Conns -> Connections] /\ \A c \in Conns : Len(conn[c].out) <= WriteCap
  /\ last \in [Conns -> Events] /\ due \in [Conns -> SUBSET Events]

CollectorOK ==
  /\ accum \in Seq(Entries) /\ Len(accum) <= 1
  /\ capture \in Seq(Entries) /\ Len(capture) <= CaptureCap
  /\ stored \subseteq Entries

LEMMA TypeParts == HTypeOK <=> TablesOK /\ HandsOK /\ RoutingOK /\ CollectorOK
  BY Zenon DEF HTypeOK, TablesOK, HandsOK, RoutingOK, CollectorOK

LEMMA TypePartsNext == HTypeOK' <=> TablesOK' /\ HandsOK' /\ RoutingOK' /\ CollectorOK'
  BY TypeParts, PTL

\* The goroutines are told apart.
LEMMA Names ==
  /\ {"forwarder", "sender", "notifier", "inbound", "deleter"} \subseteq Procs
  /\ Conns \subseteq Procs
  /\ \A c \in Conns : c \notin {"forwarder", "sender", "notifier", "inbound", "deleter"}
  /\ \A c \in Conns : c # NoConn
  /\ Broadcast \in Nat \ {0} /\ WriteCap \in Nat \ {0} /\ CaptureCap \in Nat \ {0}
  BY StreamAssumption DEF Procs, StreamAssumption

LEMMA NoEventType == NoEvent \in Events /\ ~NoEvent.ordered /\ NoEvent.n = 0
  BY DEF NoEvent, Events, Kinds

LEMMA NumberType ==
  ASSUME TablesOK, NEW kind \in Kinds, NEW ordered \in BOOLEAN, NEW pinned \in BOOLEAN
  PROVE  /\ Number(kind, ordered, pinned) \in Events
         /\ Number(kind, ordered, pinned).n = counter + 1
         /\ Number(kind, ordered, pinned).gen = gen
         /\ Number(kind, ordered, pinned).kind = kind
         /\ Number(kind, ordered, pinned).ordered <=> ordered
         /\ Number(kind, ordered, pinned).safe <=> pinned /\ hydrated
  <1>1. counter + 1 \in Nat /\ gen \in Nat /\ (pinned /\ hydrated) \in BOOLEAN
    BY DEF TablesOK
  <1> QED BY <1>1, Zenon DEF Number, Events

LEMMA EntryType ==
  ASSUME NEW e \in Events
  PROVE  Entry(e) \in Entries /\ Entry(e).n = e.n /\ (Entry(e).safe <=> e.safe)
  BY Zenon DEF Entry, Entries, Events

LEMMA EnqueueFacts ==
  ASSUME RoutingOK, NEW e \in Events, Enqueue(e)
  PROVE  /\ bcast' \in Seq(Events) /\ Len(bcast') <= Broadcast
         /\ due' \in [Conns -> SUBSET Events]
         /\ \/ bcast' = Append(bcast, e)
            \/ bcast' = bcast /\ Droppable(e) /\ due' = due
         /\ \A c \in Conns :
              \/ due'[c] = due[c]
              \/ due'[c] = due[c] \cup {e} /\ ~Droppable(e) /\ bcast' = Append(bcast, e)
                 /\ conn[c].st \in {"init", "open"}
  <1>1. bcast \in Seq(Events) /\ Len(bcast) <= Broadcast /\ due \in [Conns -> SUBSET Events]
    BY DEF RoutingOK
  <1>2. CASE Full /\ Droppable(e) /\ UNCHANGED <<bcast, due>>
    BY <1>1, <1>2
  <1>3. CASE /\ ~Full /\ bcast' = Append(bcast, e)
             /\ due' = [c \in Conns |-> IF conn[c].st \in {"init", "open"} /\ ~Droppable(e)
                                        THEN due[c] \cup {e} ELSE due[c]]
    <2>1. bcast' \in Seq(Events) /\ Len(bcast') <= Broadcast
      <3>1. Len(bcast) \in Nat /\ ~(Len(bcast) >= Broadcast) /\ Broadcast \in Nat
        BY <1>1, <1>3, Names DEF Full
      <3> QED BY <1>1, <1>3, <3>1, Appended
    <2>2. \A c \in Conns : due[c] \in SUBSET Events /\ due[c] \cup {e} \in SUBSET Events
      BY <1>1
    <2> QED BY <1>3, <2>1, <2>2, Zenon
  <1> QED BY <1>2, <1>3 DEF Enqueue

LEMMA SentFacts ==
  ASSUME NEW q \in Seq(Entries), NEW r \in Seq(Entries), Len(q) <= CaptureCap
  PROVE  /\ Sent(q, r) \in Seq(Entries) /\ Len(Sent(q, r)) <= CaptureCap
         /\ Contents(Sent(q, r)) \subseteq Contents(q) \cup Contents(r)
         /\ Distinct(q) /\ Distinct(r) /\ Apart(Contents(q), Contents(r)) => Distinct(Sent(q, r))
  <1>1. Len(q) \in Nat /\ Len(r) \in Nat /\ CaptureCap \in Nat
    BY Names
  <1>2. CASE Len(q) + Len(r) <= CaptureCap
    <2>1. Sent(q, r) = q \o r
      BY <1>2 DEF Sent
    <2> QED BY <1>2, <2>1, Concatenated, DistinctConcat
  <1>3. CASE ~(Len(q) + Len(r) <= CaptureCap)
    <2> DEFINE n == CaptureCap - Len(q)
               t == SubSeq(r, 1, n)
    <2>1. Sent(q, r) = q \o t
      BY <1>3 DEF Sent
    <2>2. n \in 0..Len(r) /\ n + Len(q) = CaptureCap
      BY <1>1, <1>3
    <2> HIDE DEF n
    <2>3. /\ t \in Seq(Entries) /\ Len(t) = n
          /\ Contents(t) \subseteq Contents(r)
          /\ Distinct(r) => Distinct(t)
      BY <2>2, DistinctPrefix
    <2> HIDE DEF t
    <2>4. Apart(Contents(q), Contents(r)) => Apart(Contents(q), Contents(t))
      BY <2>3 DEF Apart
    <2> QED BY <1>1, <2>1, <2>2, <2>3, <2>4, Concatenated, DistinctConcat
  <1> QED BY <1>2, <1>3

LEMMA OneEntry ==
  ASSUME NEW x \in Entries
  PROVE  <<x>> \in Seq(Entries) /\ Len(<<x>>) = 1 /\ Contents(<<x>>) = {x} /\ Distinct(<<x>>)
  <1>1. <<x>> \in Seq(Entries) /\ Len(<<x>>) = 1
    OBVIOUS
  <1>2. DOMAIN <<x>> = {1}
    OBVIOUS
  <1>3. Distinct(<<x>>)
    BY <1>2 DEF Distinct
  <1> QED BY <1>1, <1>3, OneContents

LEMMA ShortDistinct ==
  ASSUME NEW q \in Seq(Entries), Len(q) <= 1
  PROVE  Distinct(q)
  BY DEF Distinct

LEMMA CaptureFacts ==
  ASSUME CollectorOK, NEW e \in Events, Capture(e)
  PROVE  /\ accum' \in Seq(Entries) /\ Len(accum') <= 1
         /\ capture' \in Seq(Entries) /\ Len(capture') <= CaptureCap
         /\ Contents(capture') \cup Contents(accum')
              \subseteq Contents(capture) \cup Contents(accum) \cup {Entry(e)}
         /\ /\ Distinct(capture) /\ Apart(Contents(capture), Contents(accum))
            /\ Apart(Contents(capture) \cup Contents(accum), {Entry(e)})
            => Distinct(capture') /\ Apart(Contents(capture'), Contents(accum'))
  <1> DEFINE x == Entry(e)
  <1>0. PICK one : one = <<x>>
    OBVIOUS
  <1>1. /\ accum \in Seq(Entries) /\ Len(accum) <= 1
        /\ capture \in Seq(Entries) /\ Len(capture) <= CaptureCap
        /\ x \in Entries
        /\ Distinct(accum)
    BY EntryType, ShortDistinct DEF CollectorOK
  <1>o. one \in Seq(Entries) /\ Len(one) = 1 /\ Contents(one) = {x} /\ Distinct(one)
    BY <1>0, <1>1, OneEntry
  <1>e. << >> \in Seq(Entries) /\ Len(<< >>) = 0 /\ Contents(<< >>) = {}
    BY EmptyContents
  <1> HIDE DEF x
  <1>2. CASE accum' = one /\ capture' = capture
    <2>1. Contents(accum') = {x} /\ Contents(capture') = Contents(capture)
      BY <1>o, <1>2
    <2>2. Distinct(capture') <=> Distinct(capture)
      BY <1>2
    <2>3. Apart(Contents(capture) \cup Contents(accum), {x}) => Apart(Contents(capture'), Contents(accum'))
      BY <2>1 DEF Apart
    <2>4. /\ accum' \in Seq(Entries) /\ Len(accum') <= 1
          /\ capture' \in Seq(Entries) /\ Len(capture') <= CaptureCap
      <3>1. accum' = one /\ capture' = capture
        BY <1>2
      <3>2. Len(one) <= 1
        BY <1>o
      <3> QED BY <1>1, <1>o, <3>1, <3>2, Zenon
    <2>5. Contents(capture') \cup Contents(accum')
            \subseteq Contents(capture) \cup Contents(accum) \cup {x}
      BY <2>1
    <2> QED BY <2>2, <2>3, <2>4, <2>5, Zenon DEF x
  <1>3. CASE accum' = << >> /\ capture' = Sent(capture, one)
    <2>1. /\ capture' \in Seq(Entries) /\ Len(capture') <= CaptureCap
          /\ Contents(capture') \subseteq Contents(capture) \cup {x}
          /\ Distinct(capture) /\ Apart(Contents(capture), {x}) => Distinct(capture')
      BY <1>1, <1>o, <1>3, SentFacts
    <2> QED BY <1>1, <1>e, <1>3, <2>1 DEF Apart, x
  <1>4. CASE UNCHANGED <<accum, capture>>
    <2>1. accum' = accum /\ capture' = capture
      BY <1>4
    <2>2. Distinct(capture') <=> Distinct(capture)
      BY <2>1
    <2>3. Apart(Contents(capture'), Contents(accum')) <=> Apart(Contents(capture), Contents(accum))
      BY <2>1
    <2>4. Contents(capture') \cup Contents(accum') = Contents(capture) \cup Contents(accum)
      BY <2>1
    <2> QED BY <1>1, <2>1, <2>2, <2>3, <2>4
  <1>5. CASE accum' = << >> /\ capture' = Sent(capture, accum \o one)
    <2>0. PICK both : both = accum \o one
      OBVIOUS
    <2>1. /\ both \in Seq(Entries)
          /\ Contents(both) = Contents(accum) \cup {x}
          /\ Apart(Contents(accum), {x}) => Distinct(both)
      <3>1. both \in Seq(Entries) /\ Contents(both) = Contents(accum) \cup Contents(one)
        BY <1>1, <1>o, <2>0, Concatenated
      <3>2. ASSUME Apart(Contents(accum), Contents(one))
            PROVE  Distinct(both)
        BY <1>1, <1>o, <2>0, <3>2, DistinctConcat
      <3> QED BY <1>o, <3>1, <3>2
    <2>2. /\ capture' \in Seq(Entries) /\ Len(capture') <= CaptureCap
          /\ Contents(capture') \subseteq Contents(capture) \cup Contents(both)
          /\ Distinct(capture) /\ Distinct(both) /\ Apart(Contents(capture), Contents(both))
             => Distinct(capture')
      BY <1>1, <1>5, <2>0, <2>1, SentFacts
    <2>3. ASSUME Apart(Contents(capture), Contents(accum)),
                 Apart(Contents(capture) \cup Contents(accum), {x})
          PROVE  Apart(Contents(accum), {x}) /\ Apart(Contents(capture), Contents(both))
      BY <2>1, <2>3 DEF Apart
    <2>4. Apart(Contents(capture'), Contents(accum')) /\ Contents(accum') = {}
      BY <1>5, <1>e DEF Apart
    <2>5. accum' \in Seq(Entries) /\ Len(accum') <= 1
      BY <1>5, <1>e
    <2>6. Contents(capture') \cup Contents(accum')
            \subseteq Contents(capture) \cup Contents(accum) \cup {x}
      BY <2>1, <2>2, <2>4
    <2> HIDE DEF Apart, Distinct
    <2> QED BY <2>1, <2>2, <2>3, <2>4, <2>5, <2>6 DEF x
  <1> QED BY <1>0, <1>2, <1>3, <1>4, <1>5 DEF Capture, x

LEMMA FlushFacts ==
  ASSUME CollectorOK, FlushSession
  PROVE  /\ CollectorOK' /\ accum' = << >> /\ capture' = << >>
         /\ Contents(accum') = {} /\ Contents(capture') = {}
         /\ stored \subseteq stored'
         /\ stored' \subseteq stored \cup Contents(capture) \cup Contents(accum)
  <1> DEFINE all == Sent(capture, accum)
             I == {k \in DOMAIN all : Fresh(all[k]) /\ all[k].n \notin {all[j].n : j \in 1..k - 1}}
  <1>2. all \in Seq(Entries) /\ Contents(all) \subseteq Contents(capture) \cup Contents(accum)
    BY SentFacts DEF CollectorOK
  <1>3. accum' = << >> /\ capture' = << >>
    BY DEF FlushSession
  <1>4. stored' = stored \cup {all[i] : i \in I}
    BY DEF FlushSession
  <1>i. I \subseteq DOMAIN all
    OBVIOUS
  <1> HIDE DEF I, all
  <1>5. stored \subseteq stored' /\ stored' \subseteq stored \cup Contents(all)
    BY <1>4, <1>i DEF Contents
  <1>6. Contents(all) \subseteq Entries
    BY <1>2 DEF Contents
  <1>7. << >> \in Seq(Entries) /\ Len(<< >>) = 0 /\ CaptureCap \in Nat
    BY Names
  <1>8. CollectorOK'
    BY <1>3, <1>5, <1>6, <1>7 DEF CollectorOK
  <1> QED BY <1>2, <1>3, <1>5, <1>8, EmptyContents

LEMMA InsertFacts ==
  ASSUME CollectorOK, NEW x \in Entries
  PROVE  /\ Insert(x) \subseteq Entries /\ Insert(x) \subseteq stored \cup {x}
         /\ stored \subseteq Insert(x)
  BY DEF Insert, CollectorOK

\* A set of natural numbers that is not empty has a least element, because < on
\* the natural numbers is well founded.
LEMMA LeastNumber ==
  ASSUME NEW T \in SUBSET Nat, T # {}
  PROVE  \E x \in T : \A y \in T : x <= y
  <1> DEFINE Less == {p \in Nat \X Nat : p[1] < p[2]}
  <1>1. IsWellFoundedOn(Less, Nat)
    BY NatLessThanWellFounded DEF OpToRel
  <1>2. PICK x \in T : \A y \in T : ~(<<y, x>> \in Less)
    <2> HIDE DEF Less
    <2> QED BY <1>1, WFMin
  <1>3. ASSUME NEW y \in T
        PROVE  x <= y
    <2>1. <<y, x>> \in Nat \X Nat /\ <<y, x>>[1] = y /\ <<y, x>>[2] = x
      OBVIOUS
    <2> QED BY <1>2, <2>1
  <1> QED BY <1>3

\* The latest number of a table whose numbers have a bound.
LEMMA Latest ==
  ASSUME NEW T \in SUBSET Entries, NEW b \in Nat, \A x \in T : x.n <= b
  PROVE  /\ LatestSeq(T) \in {0} \cup {x.n : x \in T}
         /\ LatestSeq(T) \in Nat
         /\ \A x \in T : x.n <= LatestSeq(T)
  <1>0. \A x \in T : x.n \in Nat
    BY DEF Entries
  <1>1. CASE T = {}
    BY <1>1 DEF LatestSeq
  <1>2. CASE T # {}
    <2> DEFINE U == {u \in Nat : \A x \in T : x.n <= u}
    <2>1. PICK u \in U : \A v \in U : u <= v
      <3>1. b \in U
        OBVIOUS
      <3> HIDE DEF U
      <3>2. U \in SUBSET Nat
        BY DEF U
      <3> QED BY <3>1, <3>2, LeastNumber
    <2>2. u \in Nat /\ \A x \in T : x.n <= u
      OBVIOUS
    <2>3. \E x \in T : x.n = u
      <3>1. SUFFICES ASSUME \A x \in T : x.n # u
                     PROVE  FALSE
        OBVIOUS
      <3>2. \A x \in T : x.n < u
        BY <1>0, <2>2, <3>1
      <3>3. u - 1 \in Nat /\ \A x \in T : x.n <= u - 1
        BY <1>0, <1>2, <2>2, <3>2
      <3> QED BY <2>1, <2>2, <3>3
    <2>4. \E n \in {x.n : x \in T} : \A y \in T : y.n <= n
      BY <2>2, <2>3
    <2>5. LatestSeq(T) \in {x.n : x \in T} /\ \A y \in T : y.n <= LatestSeq(T)
      BY <1>2, <2>4 DEF LatestSeq
    <2> QED BY <1>0, <2>5
  <1> QED BY <1>1, <1>2

\* One goroutine moves, or takes another event in hand.
LEMMA Moves ==
  ASSUME HandsOK, NEW p \in Procs, NEW w \in Places, Goes(p, w)
  PROVE  /\ pc' \in [Procs -> Places] /\ pc'[p] = w
         /\ \A q \in Procs : q # p => pc'[q] = pc[q]
  BY DEF HandsOK, Goes

LEMMA Takes ==
  ASSUME HandsOK, NEW p \in Procs, NEW e \in Events, ev' = [ev EXCEPT ![p] = e]
  PROVE  /\ ev' \in [Procs -> Events] /\ ev'[p] = e
         /\ \A q \in Procs : q # p => ev'[q] = ev[q]
         /\ {ev'[q].n : q \in Procs} \subseteq {ev[q].n : q \in Procs} \cup {e.n}
  <1>1. /\ ev' \in [Procs -> Events] /\ ev'[p] = e
        /\ \A q \in Procs : q # p => ev'[q] = ev[q]
    BY DEF HandsOK
  <1>2. \A q \in Procs : ev'[q].n = ev[q].n \/ ev'[q].n = e.n
    BY <1>1, Zenon
  <1> QED BY <1>1, <1>2

\* Nothing new comes to the collector.
LEMMA CollectorRests ==
  ASSUME CollectorOK, UNCHANGED collector
  PROVE  CollectorOK' /\ StoreNumbers' = StoreNumbers
  <1>1. accum' = accum /\ capture' = capture /\ stored' = stored
    BY DEF collector
  <1> QED BY <1>1 DEF CollectorOK, StoreNumbers, Contents

LEMMA CollectorCaptures ==
  ASSUME CollectorOK, NEW e \in Events, Capture(e), UNCHANGED stored
  PROVE  CollectorOK' /\ StoreNumbers' \subseteq StoreNumbers \cup {e.n}
  <1>1. CollectorOK'
    BY CaptureFacts, Zenon DEF CollectorOK
  <1>2. Contents(capture') \cup Contents(accum')
          \subseteq Contents(capture) \cup Contents(accum) \cup {Entry(e)}
    BY CaptureFacts
  <1>3. Entry(e).n = e.n
    BY EntryType
  <1>4. stored' = stored
    OBVIOUS
  <1>5. ASSUME NEW x \in Contents(capture') \cup Contents(accum') \cup stored'
        PROVE  x.n \in StoreNumbers \cup {e.n}
    BY <1>2, <1>3, <1>4, <1>5 DEF StoreNumbers
  <1>6. StoreNumbers' = {x.n : x \in Contents(capture') \cup Contents(accum') \cup stored'}
    BY DEF StoreNumbers, Contents
  <1> QED BY <1>1, <1>5, <1>6

LEMMA CollectorFlushes ==
  ASSUME CollectorOK, FlushSession
  PROVE  CollectorOK' /\ StoreNumbers' \subseteq StoreNumbers
  <1>1. /\ CollectorOK' /\ Contents(accum') = {} /\ Contents(capture') = {}
        /\ stored' \subseteq stored \cup Contents(capture) \cup Contents(accum)
    BY FlushFacts
  <1>2. StoreNumbers' = {x.n : x \in Contents(capture') \cup Contents(accum') \cup stored'}
    BY DEF StoreNumbers, Contents
  <1> QED BY <1>1, <1>2 DEF StoreNumbers

-----------------------------------------------------------------------------
(* Steps that leave the connections alone. *)

\* Whatever is sent to the channel, nothing else in routing changes.
Sends == \E e \in Events : Enqueue(e) /\ UNCHANGED <<owner, conn, last>>

\* No connection comes to or leaves a place at which it is idle or has still to
\* flush.
ConnsStay ==
  \A c \in Conns : pc'[c] = pc[c] \/ (pc[c] \notin {"idle", "flush"})

LEMMA QuietRouting ==
  ASSUME RoutingOK, ConnOK, NothingSkipped, UNCHANGED routing, ConnsStay
  PROVE  RoutingOK' /\ ConnOK' /\ NothingSkipped'
  <1>1. bcast' = bcast /\ owner' = owner /\ conn' = conn /\ last' = last /\ due' = due
    BY DEF routing
  <1>2. RoutingOK'
    BY <1>1, Zenon DEF RoutingOK
  <1>3. NothingSkipped'
    BY <1>1 DEF NothingSkipped, Contents
  <1>4. ConnOK'
    <2> SUFFICES ASSUME NEW c \in Conns
                 PROVE  /\ conn[c].st = "out" => pc'[c] = "idle" /\ last[c] = NoEvent
                        /\ conn[c].st \in {"init", "open"} => conn[c].joined
                        /\ conn[c].st \in {"out", "closed"} => due[c] = {}
                        /\ conn[c].st = "init" /\ pc'[c] # "flush" => conn[c].out = << >>
                        /\ \A e \in due[c] : ~Droppable(e)
      BY <1>1, Zenon DEF ConnOK, Droppable
    <2> QED BY Zenon DEF ConnOK, ConnsStay
  <1> QED BY <1>2, <1>3, <1>4

LEMMA SendingRouting ==
  ASSUME RoutingOK, ConnOK, NothingSkipped, Sends, ConnsStay
  PROVE  RoutingOK' /\ ConnOK' /\ NothingSkipped'
  <1>1. PICK e \in Events : Enqueue(e) /\ UNCHANGED <<owner, conn, last>>
    BY DEF Sends
  <1>2. owner' = owner /\ conn' = conn /\ last' = last
    BY <1>1
  <1>3. /\ bcast' \in Seq(Events) /\ Len(bcast') <= Broadcast
        /\ due' \in [Conns -> SUBSET Events]
        /\ bcast' = Append(bcast, e) \/ bcast' = bcast
        /\ \A c \in Conns :
             \/ due'[c] = due[c]
             \/ due'[c] = due[c] \cup {e} /\ ~Droppable(e) /\ bcast' = Append(bcast, e)
                /\ conn[c].st \in {"init", "open"}
    BY <1>1, EnqueueFacts
  <1>4. RoutingOK'
    BY <1>2, <1>3, Zenon DEF RoutingOK
  <1>5. /\ Contents(bcast) \subseteq Contents(bcast')
        /\ bcast' = Append(bcast, e) => e \in Contents(bcast')
    <2>1. bcast \in Seq(Events)
      BY DEF RoutingOK
    <2>2. Contents(Append(bcast, e)) = Contents(bcast) \cup {e}
      BY <2>1, Appended
    <2> QED BY <1>3, <2>2
  <1>6. NothingSkipped'
    <2> SUFFICES ASSUME NEW c \in Conns, conn[c].st \in {"init", "open"}
                 PROVE  due'[c] \subseteq Contents(bcast') \cup Contents(conn[c].box)
                                          \cup Contents(conn[c].out)
      BY <1>2 DEF NothingSkipped, Contents
    <2>1. due[c] \subseteq Contents(bcast) \cup Contents(conn[c].box) \cup Contents(conn[c].out)
      BY DEF NothingSkipped
    <2> QED BY <1>3, <1>5, <2>1
  <1>7. ConnOK'
    <2> SUFFICES ASSUME NEW c \in Conns
                 PROVE  /\ conn[c].st = "out" => pc'[c] = "idle" /\ last[c] = NoEvent
                        /\ conn[c].st \in {"init", "open"} => conn[c].joined
                        /\ conn[c].st \in {"out", "closed"} => due'[c] = {}
                        /\ conn[c].st = "init" /\ pc'[c] # "flush" => conn[c].out = << >>
                        /\ \A d \in due'[c] : ~Droppable(d)
      BY <1>2, Zenon DEF ConnOK, Droppable
    <2>1. /\ conn[c].st = "out" => pc[c] = "idle" /\ last[c] = NoEvent
          /\ conn[c].st \in {"init", "open"} => conn[c].joined
          /\ conn[c].st \in {"out", "closed"} => due[c] = {}
          /\ conn[c].st = "init" /\ pc[c] # "flush" => conn[c].out = << >>
          /\ \A d \in due[c] : ~Droppable(d)
      BY Zenon DEF ConnOK
    <2>2. conn[c].st \in {"out", "closed"} => due'[c] = {}
      BY <1>3, <2>1
    <2>3. \A d \in due'[c] : ~Droppable(d)
      BY <1>3, <2>1
    <2> QED BY <2>1, <2>2, <2>3, Zenon DEF ConnsStay
  <1> QED BY <1>4, <1>6, <1>7

LEMMA KnownNumbers ==
  ASSUME TablesOK, HandsOK, CollectorOK
  PROVE  Known \subseteq Nat
  <1>1. held.n \in Nat /\ \A p \in Procs : ev[p].n \in Nat
    BY DEF HandsOK, Events
  <1>2. \A x \in Entries : x.n \in Nat
    BY DEF Entries
  <1>3. Contents(capture) \cup Contents(accum) \cup stored \subseteq Entries
    BY DEF CollectorOK, Contents
  <1> QED BY <1>1, <1>2, <1>3 DEF Known, HandNumbers, StoreNumbers, TablesOK

\* The bound moves by one.
LEMMA StillBounded ==
  ASSUME TablesOK, HandsOK, CollectorOK, Bounded, Known' \subseteq Known \cup {0, counter + 1}
  PROVE  Bounded'
  <1>1. PICK b \in Nat : \A n \in Known : n <= b
    BY DEF Bounded
  <1>2. Known \subseteq Nat /\ counter \in Known
    BY KnownNumbers DEF Known
  <1>3. \A n \in Known \cup {0, counter + 1} : n <= b + 1
    BY <1>1, <1>2
  <1>4. b + 1 \in Nat /\ \A n \in Known' : n <= b + 1
    BY <1>3
  <1> QED BY <1>4 DEF Bounded

LEMMA BaseParts ==
  ASSUME BaseInv
  PROVE  TablesOK /\ HandsOK /\ RoutingOK /\ CollectorOK /\ ConnOK /\ NothingSkipped /\ Bounded
  BY TypeParts, Zenon DEF BaseInv

LEMMA BaseFrame ==
  ASSUME BaseInv, TablesOK', HandsOK', CollectorOK', UNCHANGED routing \/ Sends, ConnsStay,
         counter' \in Known \cup {0, counter + 1},
         HandNumbers' \subseteq Known \cup {0, counter + 1},
         StoreNumbers' \subseteq Known \cup {0, counter + 1}
  PROVE  BaseInv'
  <1>1. RoutingOK' /\ ConnOK' /\ NothingSkipped'
    BY BaseParts, QuietRouting, SendingRouting
  <1>2. Known' \subseteq Known \cup {0, counter + 1}
    BY DEF Known
  <1>3. Bounded'
    BY <1>2, BaseParts, StillBounded
  <1> QED BY <1>1, <1>3, TypePartsNext DEF BaseInv


\* A number that is in use, the next one, or that of no event.
Numbers == Known \cup {0, counter + 1}

MovesOnly(p) == UNCHANGED pc \/ \E w \in Places : Goes(p, w)
TakesKnown(p) == UNCHANGED ev \/ \E e \in Events : e.n \in Numbers /\ ev' = [ev EXCEPT ![p] = e]
CapturesKnown ==
  UNCHANGED collector \/ \E e \in Events : e.n \in Numbers /\ Capture(e) /\ UNCHANGED stored

\* What every step of a producer does.
LEMMA ProducerFrame ==
  ASSUME BaseInv, NEW p \in Procs, p \notin Conns, TablesOK', MovesOnly(p), TakesKnown(p),
         CapturesKnown, UNCHANGED routing \/ Sends,
         job' \in [Procs -> Jobs], order' \in {"none", "forwarder", "sender"},
         held' \in Events, held'.n \in Numbers, counter' \in {counter, counter + 1}
  PROVE  BaseInv'
  <1>1. HandsOK /\ CollectorOK
    BY BaseParts
  <1>2. pc' \in [Procs -> Places] /\ ConnsStay
    <2>1. CASE UNCHANGED pc
      BY <1>1, <2>1 DEF HandsOK, ConnsStay
    <2>2. CASE \E w \in Places : Goes(p, w)
      BY <1>1, <2>2, Moves, Names DEF ConnsStay
    <2> QED BY <2>1, <2>2 DEF MovesOnly
  <1>3. ev' \in [Procs -> Events] /\ {ev'[q].n : q \in Procs} \subseteq Numbers
    <2>1. {ev[q].n : q \in Procs} \subseteq Numbers
      BY DEF Numbers, Known, HandNumbers
    <2>2. CASE UNCHANGED ev
      BY <1>1, <2>1, <2>2 DEF HandsOK
    <2>3. CASE \E e \in Events : e.n \in Numbers /\ ev' = [ev EXCEPT ![p] = e]
      <3>1. PICK e \in Events : e.n \in Numbers /\ ev' = [ev EXCEPT ![p] = e]
        BY <2>3
      <3>2. /\ ev' \in [Procs -> Events]
            /\ {ev'[q].n : q \in Procs} \subseteq {ev[q].n : q \in Procs} \cup {e.n}
        BY <1>1, <3>1, Takes
      <3> QED BY <2>1, <3>1, <3>2
    <2> QED BY <2>2, <2>3 DEF TakesKnown
  <1>4. HandsOK'
    BY <1>2, <1>3, Zenon DEF HandsOK
  <1>5. HandNumbers' \subseteq Numbers
    BY <1>3 DEF HandNumbers
  <1>6. CollectorOK' /\ StoreNumbers' \subseteq Numbers
    <2>1. StoreNumbers \subseteq Numbers
      BY DEF Numbers, Known
    <2>2. CASE UNCHANGED collector
      BY <1>1, <2>1, <2>2, CollectorRests
    <2>3. CASE \E e \in Events : e.n \in Numbers /\ Capture(e) /\ UNCHANGED stored
      BY <1>1, <2>1, <2>3, CollectorCaptures
    <2> QED BY <2>2, <2>3 DEF CapturesKnown
  <1>7. counter' \in Numbers
    BY DEF Numbers, Known
  <1> QED BY <1>2, <1>4, <1>5, <1>6, <1>7, BaseFrame DEF Numbers

\* The numbers a step finds.
LEMMA OldNumbers ==
  ASSUME BaseInv
  PROVE  /\ \A p \in Procs : ev[p] \in Events /\ ev[p].n \in Numbers
         /\ held \in Events /\ held.n \in Numbers
         /\ NoEvent \in Events /\ NoEvent.n \in Numbers
         /\ \A kind \in Kinds, ordered \in BOOLEAN, pinned \in BOOLEAN :
              Number(kind, ordered, pinned) \in Events
              /\ Number(kind, ordered, pinned).n \in Numbers
  <1>1. TablesOK /\ HandsOK
    BY BaseParts
  <1>2. \A p \in Procs : ev[p] \in Events /\ ev[p].n \in Numbers
    BY <1>1 DEF HandsOK, Numbers, Known, HandNumbers
  <1>3. held \in Events /\ held.n \in Numbers
    BY <1>1 DEF HandsOK, Numbers, Known, HandNumbers
  <1>4. NoEvent \in Events /\ NoEvent.n \in Numbers
    BY NoEventType DEF Numbers
  <1>5. \A kind \in Kinds, ordered \in BOOLEAN, pinned \in BOOLEAN :
          Number(kind, ordered, pinned) \in Events
          /\ Number(kind, ordered, pinned).n \in Numbers
    BY <1>1, NumberType DEF Numbers
  <1> QED BY <1>2, <1>3, <1>4, <1>5

\* Every goroutine's place is one of the places.
LEMMA AllPlaces ==
  {"idle", "pinned", "send", "await", "capture", "held", "heldwait", "hidden", "hiddenwait",
   "exit", "exitwait", "last", "fact", "notify", "wait", "lock", "create", "start", "ack",
   "flush", "failed", "numbering", "sending", "waiting", "captureinbound", "notice", "tell"}
  \subseteq Places
  BY DEF Places, Pinned

LEMMA TablesRest ==
  ASSUME TablesOK, UNCHANGED tables
  PROVE  TablesOK' /\ counter' = counter
  BY Zenon DEF TablesOK, tables

\* A number is taken and nothing else of the tables changes.
LEMMA TablesCount ==
  ASSUME TablesOK, TakeNumber, UNCHANGED <<row, run, hydrated, gen>>
  PROVE  TablesOK' /\ counter' = counter + 1
  <1>1. counter' \in Nat /\ counter' = counter + 1
    BY DEF TablesOK, TakeNumber
  <1>2. row' = row /\ run' = run /\ hydrated' = hydrated /\ gen' = gen
    OBVIOUS
  <1> QED BY <1>1, <1>2, Zenon DEF TablesOK

LEMMA ForwardBeginStep ==
  ASSUME BaseInv, ForwardBegin
  PROVE  BaseInv'
  <1>1. /\ Goes("forwarder", "pinned")
        /\ UNCHANGED tables /\ UNCHANGED <<job, ev, held, order>>
        /\ UNCHANGED routing /\ UNCHANGED collector
    BY DEF ForwardBegin
  <1>2. TablesOK' /\ counter' = counter
    BY <1>1, BaseParts, TablesRest
  <1>3. MovesOnly("forwarder") /\ TakesKnown("forwarder") /\ CapturesKnown
    BY <1>1, AllPlaces DEF MovesOnly, TakesKnown, CapturesKnown
  <1>4. /\ job' \in [Procs -> Jobs] /\ order' \in {"none", "forwarder", "sender"}
        /\ held' \in Events /\ held'.n \in Numbers
    BY <1>1, OldNumbers, BaseParts DEF HandsOK
  <1> QED BY <1>1, <1>2, <1>3, <1>4, Names, ProducerFrame

LEMMA ForwardNumberStep ==
  ASSUME BaseInv, ForwardNumber
  PROVE  BaseInv'
  <1>1. UNCHANGED <<row, run, hydrated, gen, job>> /\ UNCHANGED routing /\ UNCHANGED collector
    BY DEF ForwardNumber
  <1>2. CapturesKnown /\ job' \in [Procs -> Jobs] /\ "forwarder" \in Procs
    BY <1>1, BaseParts, Names DEF CapturesKnown, HandsOK
  <1>o. /\ TablesOK /\ order \in {"none", "forwarder", "sender"}
        /\ held \in Events /\ held.n \in Numbers
    BY OldNumbers, BaseParts DEF HandsOK
  <1>3. ASSUME NEW kind \in Kinds, TakeNumber,
               ev' = [ev EXCEPT !["forwarder"] = Number(kind, TRUE, TRUE)],
               order' = "forwarder", Goes("forwarder", "send"), UNCHANGED held
        PROVE  BaseInv'
    <2>1. TablesOK' /\ counter' = counter + 1
      BY <1>1, <1>3, <1>o, TablesCount
    <2>2. MovesOnly("forwarder") /\ TakesKnown("forwarder")
      BY <1>3, OldNumbers, AllPlaces DEF MovesOnly, TakesKnown
    <2> QED BY <1>1, <1>2, <1>o, <1>3, <2>1, <2>2, Names, ProducerFrame
  <1>4. ASSUME TakeNumber, held' = Number("done", FALSE, FALSE),
               Goes("forwarder", "idle"), UNCHANGED <<ev, order>>
        PROVE  BaseInv'
    <2>1. TablesOK' /\ counter' = counter + 1
      BY <1>1, <1>4, <1>o, TablesCount
    <2>2. MovesOnly("forwarder") /\ TakesKnown("forwarder")
      BY <1>4, AllPlaces DEF MovesOnly, TakesKnown
    <2>3. held' \in Events /\ held'.n \in Numbers
      BY <1>4, OldNumbers DEF Kinds
    <2> QED BY <1>1, <1>2, <1>o, <1>4, <2>1, <2>2, <2>3, Names, ProducerFrame
  <1>5. ASSUME order' = "forwarder", Goes("forwarder", "hidden"), UNCHANGED <<ev, held, counter>>
        PROVE  BaseInv'
    <2>1. TablesOK' /\ counter' = counter
      BY <1>1, <1>5, <1>o, TablesRest DEF tables
    <2>2. MovesOnly("forwarder") /\ TakesKnown("forwarder")
      BY <1>5, AllPlaces DEF MovesOnly, TakesKnown
    <2> QED BY <1>1, <1>2, <1>o, <1>5, <2>1, <2>2, Names, ProducerFrame
  <1>6. ASSUME (TakeNumber /\ UNCHANGED held) \/ (UNCHANGED counter /\ held' = NoEvent),
               Goes("forwarder", "idle"), UNCHANGED <<ev, order>>
        PROVE  BaseInv'
    <2>1. TablesOK' /\ counter' \in {counter, counter + 1}
      BY <1>1, <1>6, <1>o, TablesRest, TablesCount DEF tables
    <2>2. MovesOnly("forwarder") /\ TakesKnown("forwarder")
      BY <1>6, AllPlaces DEF MovesOnly, TakesKnown
    <2>3. held' \in Events /\ held'.n \in Numbers
      BY <1>o, <1>6, OldNumbers
    <2> QED BY <1>1, <1>2, <1>o, <1>6, <2>1, <2>2, <2>3, Names, ProducerFrame
  <1> QED BY <1>3, <1>4, <1>5, <1>6 DEF ForwardNumber


\* Sending an event that is in someone's hand.
LEMMA SendsKnown ==
  ASSUME BaseInv, NEW e \in Events, Enqueue(e), UNCHANGED <<owner, conn, last>>
  PROVE  Sends
  BY DEF Sends

LEMMA ForwardSendStep ==
  ASSUME BaseInv, ForwardSend
  PROVE  BaseInv'
  <1>1. /\ Enqueue(ev["forwarder"]) /\ UNCHANGED <<owner, conn, last>>
        /\ UNCHANGED tables /\ UNCHANGED <<job, ev, held, order>> /\ UNCHANGED collector
        /\ \E w \in Places : Goes("forwarder", w)
    BY AllPlaces DEF ForwardSend
  <1>2. TablesOK' /\ counter' = counter
    BY <1>1, BaseParts, TablesRest
  <1>3. MovesOnly("forwarder") /\ TakesKnown("forwarder") /\ CapturesKnown
    BY <1>1 DEF MovesOnly, TakesKnown, CapturesKnown
  <1>4. /\ job' \in [Procs -> Jobs] /\ order' \in {"none", "forwarder", "sender"}
        /\ held' \in Events /\ held'.n \in Numbers /\ Sends
    BY <1>1, OldNumbers, BaseParts, Names, SendsKnown DEF HandsOK
  <1> QED BY <1>2, <1>3, <1>4, Names, ProducerFrame

LEMMA ForwardAwaitStep ==
  ASSUME BaseInv, ForwardAwait
  PROVE  BaseInv'
  <1>1. /\ Goes("forwarder", "capture")
        /\ UNCHANGED tables /\ UNCHANGED <<job, ev, held, order>>
        /\ UNCHANGED routing /\ UNCHANGED collector
    BY DEF ForwardAwait
  <1>2. TablesOK' /\ counter' = counter
    BY <1>1, BaseParts, TablesRest
  <1>3. MovesOnly("forwarder") /\ TakesKnown("forwarder") /\ CapturesKnown
    BY <1>1, AllPlaces DEF MovesOnly, TakesKnown, CapturesKnown
  <1>4. /\ job' \in [Procs -> Jobs] /\ order' \in {"none", "forwarder", "sender"}
        /\ held' \in Events /\ held'.n \in Numbers
    BY <1>1, OldNumbers, BaseParts DEF HandsOK
  <1> QED BY <1>1, <1>2, <1>3, <1>4, Names, ProducerFrame

LEMMA ForwardCaptureStep ==
  ASSUME BaseInv, ForwardCapture
  PROVE  BaseInv'
  <1>1. /\ Capture(ev["forwarder"]) /\ UNCHANGED stored /\ UNCHANGED tables /\ job' = job
        /\ UNCHANGED routing /\ ev' = [ev EXCEPT !["forwarder"] = NoEvent]
        /\ \E w \in Places : Goes("forwarder", w)
        /\ order' \in {order, "none"} /\ held' \in {held, NoEvent}
    BY AllPlaces DEF ForwardCapture
  <1>2. TablesOK' /\ counter' = counter
    BY <1>1, BaseParts, TablesRest
  <1>3. MovesOnly("forwarder") /\ TakesKnown("forwarder") /\ CapturesKnown
    BY <1>1, OldNumbers, Names DEF MovesOnly, TakesKnown, CapturesKnown
  <1>4. /\ job' \in [Procs -> Jobs] /\ order' \in {"none", "forwarder", "sender"}
        /\ held' \in Events /\ held'.n \in Numbers
    BY <1>1, OldNumbers, BaseParts DEF HandsOK
  <1> QED BY <1>1, <1>2, <1>3, <1>4, Names, ProducerFrame

LEMMA ForwardHeldStep ==
  ASSUME BaseInv, ForwardHeld
  PROVE  BaseInv'
  <1>1. /\ Enqueue(held) /\ UNCHANGED <<owner, conn, last>>
        /\ UNCHANGED tables /\ UNCHANGED <<job, ev, held, order>> /\ UNCHANGED collector
    BY DEF ForwardHeld
  <1>0. \E w \in Places : Goes("forwarder", w)
    BY AllPlaces DEF ForwardHeld, Routing
  <1>2. TablesOK' /\ counter' = counter
    BY <1>1, BaseParts, TablesRest
  <1>3. MovesOnly("forwarder") /\ TakesKnown("forwarder") /\ CapturesKnown
    BY <1>0, <1>1 DEF MovesOnly, TakesKnown, CapturesKnown
  <1>4. /\ job' \in [Procs -> Jobs] /\ order' \in {"none", "forwarder", "sender"}
        /\ held' \in Events /\ held'.n \in Numbers /\ Sends
    BY <1>1, OldNumbers, BaseParts, SendsKnown DEF HandsOK
  <1> QED BY <1>2, <1>3, <1>4, Names, ProducerFrame

LEMMA ForwardHeldCaptureStep ==
  ASSUME BaseInv, ForwardHeldCapture
  PROVE  BaseInv'
  <1>1. /\ Capture(held) /\ UNCHANGED stored /\ UNCHANGED tables /\ UNCHANGED <<job, ev>>
        /\ UNCHANGED routing /\ held' = NoEvent
        /\ \E w \in Places : Goes("forwarder", w)
        /\ order' \in {order, "none"}
    BY AllPlaces DEF ForwardHeldCapture
  <1>2. TablesOK' /\ counter' = counter
    BY <1>1, BaseParts, TablesRest
  <1>3. MovesOnly("forwarder") /\ TakesKnown("forwarder") /\ CapturesKnown
    BY <1>1, OldNumbers DEF MovesOnly, TakesKnown, CapturesKnown
  <1>4. /\ job' \in [Procs -> Jobs] /\ order' \in {"none", "forwarder", "sender"}
        /\ held' \in Events /\ held'.n \in Numbers
    BY <1>1, OldNumbers, BaseParts DEF HandsOK
  <1> QED BY <1>1, <1>2, <1>3, <1>4, Names, ProducerFrame

LEMMA ForwardHiddenStep ==
  ASSUME BaseInv, ForwardHidden
  PROVE  BaseInv'
  <1>1. /\ Capture(Number("done", FALSE, TRUE)) /\ UNCHANGED stored
        /\ TakeNumber /\ UNCHANGED <<row, run, hydrated, gen>>
        /\ UNCHANGED <<job, ev, held, order>> /\ UNCHANGED routing
        /\ Goes("forwarder", "fact")
    BY DEF ForwardHidden
  <1>2. TablesOK' /\ counter' = counter + 1
    BY <1>1, BaseParts, TablesCount
  <1>3. Number("done", FALSE, TRUE) \in Events /\ Number("done", FALSE, TRUE).n \in Numbers
    BY OldNumbers DEF Kinds
  <1>4. MovesOnly("forwarder") /\ TakesKnown("forwarder") /\ CapturesKnown
    BY <1>1, <1>3, AllPlaces DEF MovesOnly, TakesKnown, CapturesKnown
  <1>5. /\ job' \in [Procs -> Jobs] /\ order' \in {"none", "forwarder", "sender"}
        /\ held' \in Events /\ held'.n \in Numbers
    BY <1>1, OldNumbers, BaseParts DEF HandsOK
  <1> QED BY <1>1, <1>2, <1>4, <1>5, Names, ProducerFrame

LEMMA ForwardFactStep ==
  ASSUME BaseInv, ForwardFact
  PROVE  BaseInv'
  <1>1. /\ Goes("forwarder", "idle") /\ order' = "none"
        /\ UNCHANGED <<row, run, hydrated, gen, job, ev, held, owner, conn, last>>
        /\ UNCHANGED collector
    BY DEF ForwardFact
  <1>2. /\ TablesOK' /\ counter' \in {counter, counter + 1}
        /\ UNCHANGED routing \/ Sends
    <2>1. Number("plain", TRUE, FALSE) \in Events
      BY OldNumbers DEF Kinds
    <2>2. CASE TakeNumber /\ Enqueue(Number("plain", TRUE, FALSE))
      BY <1>1, <2>1, <2>2, BaseParts, TablesCount, SendsKnown
    <2>3. CASE UNCHANGED <<counter, bcast, due>>
      <3>1. UNCHANGED tables /\ UNCHANGED routing
        BY <1>1, <2>3 DEF tables, routing
      <3> QED BY <3>1, BaseParts, TablesRest
    <2> QED BY <2>2, <2>3 DEF ForwardFact
  <1>3. MovesOnly("forwarder") /\ TakesKnown("forwarder") /\ CapturesKnown
    BY <1>1, AllPlaces DEF MovesOnly, TakesKnown, CapturesKnown
  <1>4. /\ job' \in [Procs -> Jobs] /\ order' \in {"none", "forwarder", "sender"}
        /\ held' \in Events /\ held'.n \in Numbers
    BY <1>1, OldNumbers, BaseParts DEF HandsOK
  <1> QED BY <1>2, <1>3, <1>4, Names, ProducerFrame

LEMMA WorkerEndsStep ==
  ASSUME BaseInv, WorkerEnds
  PROVE  BaseInv'
  <1>1. /\ run' = FALSE /\ UNCHANGED <<row, counter, hydrated, gen, job, ev, order>>
        /\ UNCHANGED routing /\ UNCHANGED collector
        /\ held' \in {held, NoEvent}
        /\ UNCHANGED pc \/ Goes("forwarder", "exit")
    BY DEF WorkerEnds
  <1>2. TablesOK' /\ counter' = counter
    BY <1>1, BaseParts, Zenon DEF TablesOK
  <1>3. MovesOnly("forwarder") /\ TakesKnown("forwarder") /\ CapturesKnown
    BY <1>1, AllPlaces DEF MovesOnly, TakesKnown, CapturesKnown
  <1>4. /\ job' \in [Procs -> Jobs] /\ order' \in {"none", "forwarder", "sender"}
        /\ held' \in Events /\ held'.n \in Numbers
    BY <1>1, OldNumbers, BaseParts DEF HandsOK
  <1> QED BY <1>1, <1>2, <1>3, <1>4, Names, ProducerFrame

LEMMA SendLockStep ==
  ASSUME BaseInv, SendLock
  PROVE  BaseInv'
  <1>1. /\ Goes("sender", "numbering") /\ order' = "sender"
        /\ UNCHANGED tables /\ UNCHANGED <<job, ev, held>>
        /\ UNCHANGED routing /\ UNCHANGED collector
    BY DEF SendLock
  <1>2. TablesOK' /\ counter' = counter
    BY <1>1, BaseParts, TablesRest
  <1>3. MovesOnly("sender") /\ TakesKnown("sender") /\ CapturesKnown
    BY <1>1, AllPlaces DEF MovesOnly, TakesKnown, CapturesKnown
  <1>4. /\ job' \in [Procs -> Jobs] /\ order' \in {"none", "forwarder", "sender"}
        /\ held' \in Events /\ held'.n \in Numbers
    BY <1>1, OldNumbers, BaseParts DEF HandsOK
  <1> QED BY <1>1, <1>2, <1>3, <1>4, Names, ProducerFrame

LEMMA SendNumberStep ==
  ASSUME BaseInv, SendNumber
  PROVE  BaseInv'
  <1>1. /\ UNCHANGED <<row, run, hydrated, gen, job, held>>
        /\ UNCHANGED routing /\ UNCHANGED collector
    BY DEF SendNumber
  <1>2. /\ TablesOK' /\ counter' \in {counter, counter + 1}
        /\ MovesOnly("sender") /\ TakesKnown("sender") /\ order' \in {order, "none"}
    <2>1. CASE /\ TakeNumber
               /\ \E kind \in {"plain", "done"} :
                    ev' = [ev EXCEPT !["sender"] = Number(kind, TRUE, FALSE)]
               /\ Goes("sender", "sending") /\ UNCHANGED order
      BY <1>1, <2>1, BaseParts, TablesCount, OldNumbers, AllPlaces
      DEF MovesOnly, TakesKnown, Kinds
    <2>2. CASE Goes("sender", "idle") /\ order' = "none" /\ UNCHANGED <<counter, ev>>
      <3>1. UNCHANGED tables
        BY <1>1, <2>2 DEF tables
      <3> QED BY <2>2, <3>1, BaseParts, TablesRest, AllPlaces DEF MovesOnly, TakesKnown
    <2> QED BY <2>1, <2>2 DEF SendNumber
  <1>3. CapturesKnown
    BY <1>1 DEF CapturesKnown
  <1>4. /\ job' \in [Procs -> Jobs] /\ order' \in {"none", "forwarder", "sender"}
        /\ held' \in Events /\ held'.n \in Numbers
    BY <1>1, <1>2, OldNumbers, BaseParts DEF HandsOK
  <1> QED BY <1>1, <1>2, <1>3, <1>4, Names, ProducerFrame

LEMMA SendEnqueueStep ==
  ASSUME BaseInv, SendEnqueue
  PROVE  BaseInv'
  <1>1. /\ Enqueue(ev["sender"]) /\ UNCHANGED <<owner, conn, last>>
        /\ UNCHANGED tables /\ UNCHANGED <<job, held>> /\ UNCHANGED collector
        /\ \E w \in Places : Goes("sender", w)
        /\ UNCHANGED ev \/ ev' = [ev EXCEPT !["sender"] = NoEvent]
        /\ order' \in {order, "none"}
    BY AllPlaces DEF SendEnqueue
  <1>2. TablesOK' /\ counter' = counter
    BY <1>1, BaseParts, TablesRest
  <1>3. MovesOnly("sender") /\ TakesKnown("sender") /\ CapturesKnown
    BY <1>1, OldNumbers DEF MovesOnly, TakesKnown, CapturesKnown
  <1>4. /\ job' \in [Procs -> Jobs] /\ order' \in {"none", "forwarder", "sender"}
        /\ held' \in Events /\ held'.n \in Numbers /\ Sends
    BY <1>1, OldNumbers, BaseParts, Names, SendsKnown DEF HandsOK
  <1> QED BY <1>2, <1>3, <1>4, Names, ProducerFrame

LEMMA SendAwaitStep ==
  ASSUME BaseInv, SendAwait
  PROVE  BaseInv'
  <1>1. /\ Goes("sender", "idle") /\ order' = "none"
        /\ ev' = [ev EXCEPT !["sender"] = NoEvent]
        /\ UNCHANGED tables /\ UNCHANGED <<job, held>>
        /\ UNCHANGED routing /\ UNCHANGED collector
    BY DEF SendAwait
  <1>2. TablesOK' /\ counter' = counter
    BY <1>1, BaseParts, TablesRest
  <1>3. MovesOnly("sender") /\ TakesKnown("sender") /\ CapturesKnown
    BY <1>1, AllPlaces, OldNumbers DEF MovesOnly, TakesKnown, CapturesKnown
  <1>4. /\ job' \in [Procs -> Jobs] /\ order' \in {"none", "forwarder", "sender"}
        /\ held' \in Events /\ held'.n \in Numbers
    BY <1>1, OldNumbers, BaseParts DEF HandsOK
  <1> QED BY <1>1, <1>2, <1>3, <1>4, Names, ProducerFrame


LEMMA NotifyNumberStep ==
  ASSUME BaseInv, NotifyNumber
  PROVE  BaseInv'
  <1>1. /\ TakeNumber /\ UNCHANGED <<row, run, hydrated, gen, job, held, order>>
        /\ UNCHANGED routing /\ UNCHANGED collector
        /\ ev' = [ev EXCEPT !["notifier"] = Number("plain", FALSE, FALSE)]
        /\ Goes("notifier", "notify")
    BY DEF NotifyNumber
  <1>2. TablesOK' /\ counter' = counter + 1
    BY <1>1, BaseParts, TablesCount
  <1>3. MovesOnly("notifier") /\ TakesKnown("notifier") /\ CapturesKnown
    BY <1>1, OldNumbers, AllPlaces DEF MovesOnly, TakesKnown, CapturesKnown, Kinds
  <1>4. /\ job' \in [Procs -> Jobs] /\ order' \in {"none", "forwarder", "sender"}
        /\ held' \in Events /\ held'.n \in Numbers
    BY <1>1, OldNumbers, BaseParts DEF HandsOK
  <1> QED BY <1>1, <1>2, <1>3, <1>4, Names, ProducerFrame

LEMMA NotifyEnqueueStep ==
  ASSUME BaseInv, NotifyEnqueue
  PROVE  BaseInv'
  <1>1. /\ Enqueue(ev["notifier"]) /\ UNCHANGED <<owner, conn, last>>
        /\ UNCHANGED tables /\ UNCHANGED <<job, held, order>> /\ UNCHANGED collector
        /\ Goes("notifier", "idle")
        /\ ev' = [ev EXCEPT !["notifier"] = NoEvent]
    BY DEF NotifyEnqueue
  <1>2. TablesOK' /\ counter' = counter
    BY <1>1, BaseParts, TablesRest
  <1>3. MovesOnly("notifier") /\ TakesKnown("notifier") /\ CapturesKnown
    BY <1>1, OldNumbers, AllPlaces DEF MovesOnly, TakesKnown, CapturesKnown
  <1>4. /\ job' \in [Procs -> Jobs] /\ order' \in {"none", "forwarder", "sender"}
        /\ held' \in Events /\ held'.n \in Numbers /\ Sends
    BY <1>1, OldNumbers, BaseParts, Names, SendsKnown DEF HandsOK
  <1> QED BY <1>2, <1>3, <1>4, Names, ProducerFrame

LEMMA ReadNumberStep ==
  ASSUME BaseInv, ReadNumber
  PROVE  BaseInv'
  <1>1. /\ TakeNumber /\ UNCHANGED <<row, run, hydrated, gen, job, held, order>>
        /\ UNCHANGED routing /\ UNCHANGED collector
        /\ ev' = [ev EXCEPT !["inbound"] = Number("plain", FALSE, FALSE)]
        /\ Goes("inbound", "captureinbound")
    BY DEF ReadNumber
  <1>2. TablesOK' /\ counter' = counter + 1
    BY <1>1, BaseParts, TablesCount
  <1>3. MovesOnly("inbound") /\ TakesKnown("inbound") /\ CapturesKnown
    BY <1>1, OldNumbers, AllPlaces DEF MovesOnly, TakesKnown, CapturesKnown, Kinds
  <1>4. /\ job' \in [Procs -> Jobs] /\ order' \in {"none", "forwarder", "sender"}
        /\ held' \in Events /\ held'.n \in Numbers
    BY <1>1, OldNumbers, BaseParts DEF HandsOK
  <1> QED BY <1>1, <1>2, <1>3, <1>4, Names, ProducerFrame

LEMMA CaptureInboundStep ==
  ASSUME BaseInv, CaptureInbound
  PROVE  BaseInv'
  <1>1. /\ ev' = [ev EXCEPT !["inbound"] = NoEvent] /\ Goes("inbound", "idle")
        /\ UNCHANGED tables /\ UNCHANGED <<job, held, order>> /\ UNCHANGED routing
        /\ UNCHANGED stored
        /\ Capture(ev["inbound"]) \/ UNCHANGED <<accum, capture>>
    BY DEF CaptureInbound
  <1>2. TablesOK' /\ counter' = counter
    BY <1>1, BaseParts, TablesRest
  <1>3. MovesOnly("inbound") /\ TakesKnown("inbound")
    BY <1>1, OldNumbers, AllPlaces DEF MovesOnly, TakesKnown
  <1>4. CapturesKnown
    BY <1>1, OldNumbers, Names DEF CapturesKnown, collector
  <1>5. /\ job' \in [Procs -> Jobs] /\ order' \in {"none", "forwarder", "sender"}
        /\ held' \in Events /\ held'.n \in Numbers
    BY <1>1, OldNumbers, BaseParts DEF HandsOK
  <1> QED BY <1>1, <1>2, <1>3, <1>4, <1>5, Names, ProducerFrame

LEMMA DeleteStep ==
  ASSUME BaseInv, Delete
  PROVE  BaseInv'
  <1>1. /\ row' = "deleted" /\ Goes("deleter", "notice")
        /\ UNCHANGED <<run, counter, hydrated, gen, job, ev, held, order>>
        /\ UNCHANGED routing /\ UNCHANGED collector
    BY DEF Delete
  <1>2. TablesOK' /\ counter' = counter
    BY <1>1, BaseParts, Zenon DEF TablesOK
  <1>3. MovesOnly("deleter") /\ TakesKnown("deleter") /\ CapturesKnown
    BY <1>1, AllPlaces DEF MovesOnly, TakesKnown, CapturesKnown
  <1>4. /\ job' \in [Procs -> Jobs] /\ order' \in {"none", "forwarder", "sender"}
        /\ held' \in Events /\ held'.n \in Numbers
    BY <1>1, OldNumbers, BaseParts DEF HandsOK
  <1> QED BY <1>1, <1>2, <1>3, <1>4, Names, ProducerFrame

LEMMA NoticeNumberStep ==
  ASSUME BaseInv, NoticeNumber
  PROVE  BaseInv'
  <1>1. /\ TakeNumber /\ UNCHANGED <<row, run, hydrated, gen, job, held, order>>
        /\ UNCHANGED routing /\ UNCHANGED collector
        /\ ev' = [ev EXCEPT !["deleter"] = Number("plain", FALSE, FALSE)]
        /\ Goes("deleter", "tell")
    BY DEF NoticeNumber
  <1>2. TablesOK' /\ counter' = counter + 1
    BY <1>1, BaseParts, TablesCount
  <1>3. MovesOnly("deleter") /\ TakesKnown("deleter") /\ CapturesKnown
    BY <1>1, OldNumbers, AllPlaces DEF MovesOnly, TakesKnown, CapturesKnown, Kinds
  <1>4. /\ job' \in [Procs -> Jobs] /\ order' \in {"none", "forwarder", "sender"}
        /\ held' \in Events /\ held'.n \in Numbers
    BY <1>1, OldNumbers, BaseParts DEF HandsOK
  <1> QED BY <1>1, <1>2, <1>3, <1>4, Names, ProducerFrame

LEMMA NoticeEnqueueStep ==
  ASSUME BaseInv, NoticeEnqueue
  PROVE  BaseInv'
  <1>1. /\ Enqueue(ev["deleter"]) /\ UNCHANGED <<owner, conn, last>>
        /\ UNCHANGED tables /\ UNCHANGED <<held, order>> /\ UNCHANGED collector
        /\ Goes("deleter", "wait") /\ job' = [job EXCEPT !["deleter"] = "release"]
        /\ ev' = [ev EXCEPT !["deleter"] = NoEvent]
    BY DEF NoticeEnqueue
  <1>2. TablesOK' /\ counter' = counter
    BY <1>1, BaseParts, TablesRest
  <1>3. MovesOnly("deleter") /\ TakesKnown("deleter") /\ CapturesKnown
    BY <1>1, OldNumbers, AllPlaces DEF MovesOnly, TakesKnown, CapturesKnown
  <1>4. /\ job' \in [Procs -> Jobs] /\ order' \in {"none", "forwarder", "sender"}
        /\ held' \in Events /\ held'.n \in Numbers /\ Sends
    BY <1>1, OldNumbers, BaseParts, Names, SendsKnown DEF HandsOK, Jobs
  <1> QED BY <1>2, <1>3, <1>4, Names, ProducerFrame

\* Steps of the collector alone.
LEMMA WriteStep ==
  ASSUME BaseInv, Write
  PROVE  BaseInv'
  <1>1. UNCHANGED tables /\ UNCHANGED <<pc, job, ev, held, order>> /\ UNCHANGED routing
        /\ accum' = accum /\ capture # << >>
    BY DEF Write
  <1>2. CollectorOK /\ capture \in Seq(Entries)
    BY BaseParts DEF CollectorOK
  <1>3. /\ Head(capture) \in Entries /\ Tail(capture) \in Seq(Entries)
        /\ Len(Tail(capture)) <= CaptureCap
        /\ Contents(capture) = {Head(capture)} \cup Contents(Tail(capture))
    <2>1. Len(Tail(capture)) = Len(capture) - 1 /\ Len(capture) \in Nat /\ Len(capture) <= CaptureCap
          /\ CaptureCap \in Nat
      BY <1>1, <1>2, Tailed, Names DEF CollectorOK
    <2> QED BY <1>1, <1>2, <2>1, Tailed
  <1>4. /\ CollectorOK'
        /\ Contents(capture') \cup Contents(accum') \cup stored'
             \subseteq Contents(capture) \cup Contents(accum) \cup stored
    <2>1. CASE stored' = Insert(Head(capture)) /\ capture' = Tail(capture)
      <3>1. stored' \subseteq Entries /\ stored' \subseteq stored \cup {Head(capture)}
        BY <1>2, <1>3, <2>1, InsertFacts
      <3>2. Contents(accum') = Contents(accum) /\ Contents(capture') = Contents(Tail(capture))
        BY <1>1, <2>1
      <3>3. CollectorOK'
        BY <1>1, <1>2, <1>3, <2>1, <3>1, Zenon DEF CollectorOK
      <3> QED BY <1>3, <3>1, <3>2, <3>3
    <2>2. CASE capture' = << >> /\ UNCHANGED stored
      <3>1. << >> \in Seq(Entries) /\ Len(<< >>) <= CaptureCap
        BY Names
      <3>2. CollectorOK'
        BY <1>1, <1>2, <2>2, <3>1, Zenon DEF CollectorOK
      <3>3. Contents(capture') = {} /\ Contents(accum') = Contents(accum)
        BY <1>1, <2>2, EmptyContents
      <3> QED BY <2>2, <3>2, <3>3
    <2> QED BY <2>1, <2>2 DEF Write
  <1>5. StoreNumbers' \subseteq StoreNumbers
    <2>1. StoreNumbers' = {x.n : x \in Contents(capture') \cup Contents(accum') \cup stored'}
      BY DEF StoreNumbers, Contents
    <2> QED BY <1>4, <2>1 DEF StoreNumbers
  <1>6. TablesOK' /\ counter' = counter
    BY <1>1, BaseParts, TablesRest
  <1>7. HandsOK' /\ HandNumbers' = HandNumbers /\ ConnsStay
    BY <1>1, BaseParts, Zenon DEF HandsOK, HandNumbers, ConnsStay
  <1> QED BY <1>1, <1>4, <1>5, <1>6, <1>7, BaseFrame DEF Known

LEMMA FlushTimedOutAccumulatorsStep ==
  ASSUME BaseInv, FlushTimedOutAccumulators
  PROVE  BaseInv'
  <1>1. UNCHANGED tables /\ UNCHANGED <<pc, job, ev, held, order>> /\ UNCHANGED routing
        /\ accum' = << >> /\ capture' = capture /\ accum # << >>
        /\ stored' = Insert(accum[1])
    BY DEF FlushTimedOutAccumulators
  <1>2. CollectorOK /\ accum \in Seq(Entries)
    BY BaseParts DEF CollectorOK
  <1>3. accum[1] \in Entries /\ accum[1] \in Contents(accum)
    BY <1>1, <1>2 DEF Contents
  <1>4. /\ CollectorOK'
        /\ Contents(capture') \cup Contents(accum') \cup stored'
             \subseteq Contents(capture) \cup Contents(accum) \cup stored
    <2>1. stored' \subseteq Entries /\ stored' \subseteq stored \cup {accum[1]}
      BY <1>1, <1>2, <1>3, InsertFacts
    <2>2. << >> \in Seq(Entries) /\ Len(<< >>) <= 1
      OBVIOUS
    <2>3. CollectorOK'
      BY <1>1, <1>2, <2>1, <2>2, Zenon DEF CollectorOK
    <2>4. Contents(accum') = {} /\ Contents(capture') = Contents(capture)
      BY <1>1, EmptyContents
    <2> QED BY <1>3, <2>1, <2>3, <2>4
  <1>5. StoreNumbers' \subseteq StoreNumbers
    <2>1. StoreNumbers' = {x.n : x \in Contents(capture') \cup Contents(accum') \cup stored'}
      BY DEF StoreNumbers, Contents
    <2> QED BY <1>4, <2>1 DEF StoreNumbers
  <1>6. TablesOK' /\ counter' = counter
    BY <1>1, BaseParts, TablesRest
  <1>7. HandsOK' /\ HandNumbers' = HandNumbers /\ ConnsStay
    BY <1>1, BaseParts, Zenon DEF HandsOK, HandNumbers, ConnsStay
  <1> QED BY <1>1, <1>4, <1>5, <1>6, <1>7, BaseFrame DEF Known

\* Steps that wait for the barrier or work behind it.

LEMMA ConnMoves ==
  ASSUME HandsOK, NEW p \in Procs, NEW w \in Places, Goes(p, w), pc[p] \notin {"idle", "flush"}
  PROVE  pc' \in [Procs -> Places] /\ ConnsStay
  BY Moves, Names DEF ConnsStay

LEMMA AnnounceStep ==
  ASSUME BaseInv, NEW p \in Procs, Announce(p)
  PROVE  BaseInv'
  <1>1. /\ pc[p] = "wait" /\ Goes(p, "lock")
        /\ UNCHANGED tables /\ UNCHANGED <<job, ev, held, order>>
        /\ UNCHANGED routing /\ UNCHANGED collector
    BY DEF Announce
  <1>2. TablesOK' /\ counter' = counter /\ CollectorOK' /\ StoreNumbers' = StoreNumbers
    BY <1>1, BaseParts, TablesRest, CollectorRests
  <1>3. pc' \in [Procs -> Places] /\ ConnsStay
    BY <1>1, BaseParts, AllPlaces, ConnMoves
  <1>4. HandsOK' /\ HandNumbers' = HandNumbers
    BY <1>1, <1>3, BaseParts, Zenon DEF HandsOK, HandNumbers
  <1> QED BY <1>1, <1>2, <1>3, <1>4, BaseFrame DEF Known

LEMMA ReleaseSeqStep ==
  ASSUME BaseInv, NEW p \in Procs, ReleaseSeq(p)
  PROVE  BaseInv'
  <1>1. /\ pc[p] = "lock" /\ Goes(p, AfterRelease(p)) /\ AfterRelease(p) \in Places
        /\ job' = [job EXCEPT ![p] = "none"]
        /\ UNCHANGED <<row, run, ev, held, order>> /\ UNCHANGED routing
    BY AllPlaces DEF ReleaseSeq, Locked, AfterRelease
  <1>2. /\ TablesOK' /\ counter' \in {0, counter}
        /\ UNCHANGED collector \/ FlushSession
    <2>1. CASE /\ IF counter = 0 THEN UNCHANGED collector ELSE FlushSession
               /\ counter' = 0 /\ hydrated' = FALSE /\ gen' = gen + 1
      <3>1. gen + 1 \in Nat /\ 0 \in Nat /\ TablesOK
        BY BaseParts DEF TablesOK
      <3>2. TablesOK'
        BY <1>1, <2>1, <3>1, Zenon DEF TablesOK
      <3> QED BY <2>1, <3>2
    <2>2. CASE UNCHANGED collector /\ UNCHANGED <<counter, hydrated, gen>>
      <3>1. UNCHANGED tables
        BY <1>1, <2>2 DEF tables
      <3> QED BY <2>2, <3>1, BaseParts, TablesRest
    <2> QED BY <2>1, <2>2 DEF ReleaseSeq
  <1>3. CollectorOK' /\ StoreNumbers' \subseteq StoreNumbers
    BY <1>2, BaseParts, CollectorRests, CollectorFlushes
  <1>4. pc' \in [Procs -> Places] /\ ConnsStay
    BY <1>1, BaseParts, ConnMoves
  <1>5. job' \in [Procs -> Jobs]
    BY <1>1, BaseParts DEF HandsOK, Jobs
  <1>6. HandsOK' /\ HandNumbers' = HandNumbers
    BY <1>1, <1>4, <1>5, BaseParts, Zenon DEF HandsOK, HandNumbers
  <1> QED BY <1>1, <1>2, <1>3, <1>4, <1>6, BaseFrame DEF Known

LEMMA CreateSessionStep ==
  ASSUME BaseInv, NEW c \in Conns, CreateSession(c)
  PROVE  BaseInv'
  <1>1. /\ pc[c] = "create" /\ Goes(c, "wait") /\ job' = [job EXCEPT ![c] = "fresh"]
        /\ row' = "live" /\ UNCHANGED <<run, counter, hydrated, gen, ev, held, order>>
        /\ UNCHANGED routing /\ UNCHANGED collector
    BY DEF CreateSession
  <1>2. TablesOK' /\ counter' = counter
    BY <1>1, BaseParts, Zenon DEF TablesOK
  <1>3. CollectorOK' /\ StoreNumbers' = StoreNumbers
    BY <1>1, BaseParts, CollectorRests
  <1>4. pc' \in [Procs -> Places] /\ ConnsStay /\ c \in Procs
    BY <1>1, BaseParts, AllPlaces, ConnMoves, Names
  <1>5. job' \in [Procs -> Jobs]
    BY <1>1, <1>4, BaseParts DEF HandsOK, Jobs
  <1>6. HandsOK' /\ HandNumbers' = HandNumbers
    BY <1>1, <1>4, <1>5, BaseParts, Zenon DEF HandsOK, HandNumbers
  <1> QED BY <1>1, <1>2, <1>3, <1>4, <1>6, BaseFrame DEF Known

\* A hydration reads the latest number of a table that has one.
LEMMA HydrationReads ==
  ASSUME BaseInv, FlushSession
  PROVE  /\ LatestSeq(stored') \in Nat /\ LatestSeq(stored') \in Known \cup {0}
         /\ \A x \in stored' : x.n <= LatestSeq(stored')
  <1>1. PICK b \in Nat : \A n \in Known : n <= b
    BY BaseParts DEF Bounded
  <1>2. stored' \subseteq stored \cup Contents(capture) \cup Contents(accum) /\ CollectorOK'
    BY BaseParts, FlushFacts
  <1>3. stored' \in SUBSET Entries
    BY <1>2 DEF CollectorOK
  <1>4. {x.n : x \in stored'} \subseteq StoreNumbers /\ StoreNumbers \subseteq Known
    BY <1>2 DEF StoreNumbers, Known
  <1>5. \A x \in stored' : x.n <= b
    BY <1>1, <1>4
  <1> QED BY <1>3, <1>4, <1>5, Latest

LEMMA EnsureSeqHydratedStep ==
  ASSUME BaseInv, NEW c \in Conns, EnsureSeqHydrated(c)
  PROVE  BaseInv'
  <1>1. /\ pc[c] = "lock" /\ \E w \in Places : Goes(c, w)
        /\ \E k \in Jobs : job' = [job EXCEPT ![c] = k]
        /\ UNCHANGED <<run, gen, ev, held, order>> /\ UNCHANGED routing
    BY AllPlaces DEF EnsureSeqHydrated, Locked, Jobs
  <1>2. /\ TablesOK' /\ counter' \in Known \cup {0, counter + 1}
        /\ UNCHANGED collector \/ FlushSession
    <2>1. counter \in Known /\ TablesOK
      BY BaseParts DEF Known
    <2>2. CASE /\ row = "live"
               /\ IF hydrated THEN UNCHANGED <<collector, counter>>
                  ELSE FlushSession /\ counter' = Raised(LatestSeq(stored'))
               /\ hydrated' = TRUE /\ row' = row
      <3>1. CASE UNCHANGED <<collector, counter>>
        BY <1>1, <2>1, <2>2, <3>1, Zenon DEF TablesOK
      <3>2. CASE FlushSession /\ counter' = Raised(LatestSeq(stored'))
        <4>1. counter' \in Nat /\ counter' \in Known \cup {0}
          BY <2>1, <3>2, HydrationReads DEF Raised, TablesOK
        <4>2. TablesOK'
          BY <1>1, <2>1, <2>2, <4>1, Zenon DEF TablesOK
        <4> QED BY <3>2, <4>1, <4>2
      <3> QED BY <2>2, <3>1, <3>2
    <2>3. CASE row' \in {row, "none"} /\ UNCHANGED <<collector, counter, hydrated>>
      <3>1. TablesOK'
        BY <1>1, <2>1, <2>3, Zenon DEF TablesOK
      <3> QED BY <2>1, <2>3, <3>1
    <2> QED BY <2>2, <2>3 DEF EnsureSeqHydrated
  <1>3. CollectorOK' /\ StoreNumbers' \subseteq StoreNumbers
    BY <1>2, BaseParts, CollectorRests, CollectorFlushes
  <1>4. pc' \in [Procs -> Places] /\ ConnsStay /\ c \in Procs
    BY <1>1, BaseParts, ConnMoves, Names
  <1>5. job' \in [Procs -> Jobs]
    BY <1>1, <1>4, BaseParts DEF HandsOK
  <1>6. HandsOK' /\ HandNumbers' = HandNumbers
    BY <1>1, <1>4, <1>5, BaseParts, Zenon DEF HandsOK, HandNumbers
  <1> QED BY <1>1, <1>2, <1>3, <1>4, <1>6, BaseFrame DEF Known

LEMMA StartWorkerStep ==
  ASSUME BaseInv, NEW c \in Conns, StartWorker(c)
  PROVE  BaseInv'
  <1>1. /\ pc[c] = "start" /\ Goes(c, "ack") /\ run' = (run \/ row = "live")
        /\ UNCHANGED <<row, counter, hydrated, gen, job, ev, held, order>>
        /\ UNCHANGED routing /\ UNCHANGED collector
    BY DEF StartWorker
  <1>2. run' \in BOOLEAN
    BY <1>1
  <1>3. TablesOK' /\ counter' = counter
    BY <1>1, <1>2, BaseParts, Zenon DEF TablesOK
  <1>4. CollectorOK' /\ StoreNumbers' = StoreNumbers
    BY <1>1, BaseParts, CollectorRests
  <1>5. pc' \in [Procs -> Places] /\ ConnsStay /\ c \in Procs
    BY <1>1, BaseParts, AllPlaces, ConnMoves, Names
  <1>6. HandsOK' /\ HandNumbers' = HandNumbers
    BY <1>1, <1>5, BaseParts, Zenon DEF HandsOK, HandNumbers
  <1> QED BY <1>1, <1>3, <1>4, <1>5, <1>6, BaseFrame DEF Known


-----------------------------------------------------------------------------
(* Steps of one connection, and routing. *)

\* The record of a connection, field by field.
LEMMA ConnectionType ==
  ASSUME NEW x \in Connections
  PROVE  /\ x.st \in {"out", "init", "open", "closed"} /\ x.joined \in BOOLEAN
         /\ x.box \in Seq(Events) /\ x.out \in Seq(Events)
  BY Zenon DEF Connections

LEMMA RecordFields ==
  ASSUME NEW S, NEW B, NEW Q, NEW x \in [st: S, joined: B, box: Q, out: Q]
  PROVE  /\ \A b \in Q : LET y == [x EXCEPT !.box = b] IN
              /\ y \in [st: S, joined: B, box: Q, out: Q]
              /\ y.st = x.st /\ y.joined = x.joined /\ y.box = b /\ y.out = x.out
         /\ \A b \in Q : LET y == [x EXCEPT !.out = b] IN
              /\ y \in [st: S, joined: B, box: Q, out: Q]
              /\ y.st = x.st /\ y.joined = x.joined /\ y.box = x.box /\ y.out = b
         /\ \A s \in S, j \in B : LET y == [x EXCEPT !.st = s, !.joined = j] IN
              /\ y \in [st: S, joined: B, box: Q, out: Q]
              /\ y.st = s /\ y.joined = j /\ y.box = x.box /\ y.out = x.out
         /\ \A s \in S, b \in Q : LET y == [x EXCEPT !.st = s, !.box = b, !.out = b] IN
              /\ y \in [st: S, joined: B, box: Q, out: Q]
              /\ y.st = s /\ y.joined = x.joined /\ y.box = b /\ y.out = b
         /\ \A s \in S, b \in Q, j \in B :
              LET y == [[x EXCEPT !.st = s, !.box = b, !.out = b] EXCEPT !.joined = j] IN
              /\ y \in [st: S, joined: B, box: Q, out: Q]
              /\ y.st = s /\ y.joined = j /\ y.box = b /\ y.out = b
         /\ \A s \in S, b \in Q, o \in Q :
              LET y == [x EXCEPT !.st = s, !.out = o, !.box = b] IN
              /\ y \in [st: S, joined: B, box: Q, out: Q]
              /\ y.st = s /\ y.joined = x.joined /\ y.box = b /\ y.out = o
  OBVIOUS

\* The same for a connection, one change at a time.
LEMMA BoxField ==
  ASSUME NEW x \in Connections, NEW b \in Seq(Events), NEW y, y = [x EXCEPT !.box = b]
  PROVE  /\ y \in Connections
         /\ y.st = x.st /\ (y.joined <=> x.joined) /\ y.box = b /\ y.out = x.out
  <1>1. LET z == [x EXCEPT !.box = b] IN
          /\ z \in Connections
          /\ z.st = x.st /\ z.joined = x.joined /\ z.box = b /\ z.out = x.out
    BY RecordFields, ConnectionType, Zenon DEF Connections
  <1> QED BY <1>1

LEMMA OutField ==
  ASSUME NEW x \in Connections, NEW b \in Seq(Events), NEW y, y = [x EXCEPT !.out = b]
  PROVE  /\ y \in Connections
         /\ y.st = x.st /\ (y.joined <=> x.joined) /\ y.box = x.box /\ y.out = b
  <1>1. LET z == [x EXCEPT !.out = b] IN
          /\ z \in Connections
          /\ z.st = x.st /\ z.joined = x.joined /\ z.box = x.box /\ z.out = b
    BY RecordFields, ConnectionType, Zenon DEF Connections
  <1> QED BY <1>1

LEMMA JoinedFields ==
  ASSUME NEW x \in Connections, NEW y, y = [x EXCEPT !.st = "init", !.joined = TRUE]
  PROVE  /\ y \in Connections
         /\ y.st = "init" /\ y.joined /\ y.box = x.box /\ y.out = x.out
  <1>0. "init" \in {"out", "init", "open", "closed"} /\ TRUE \in BOOLEAN
    OBVIOUS
  <1>1. LET z == [x EXCEPT !.st = "init", !.joined = TRUE] IN
          /\ z \in Connections
          /\ z.st = "init" /\ z.joined = TRUE /\ z.box = x.box /\ z.out = x.out
    BY <1>0, RecordFields, ConnectionType, Zenon DEF Connections
  <1> QED BY <1>1

LEMMA OutsideType ==
  /\ Outside \in Connections /\ Outside.st = "out" /\ Outside.box = << >> /\ Outside.out = << >>
  /\ Outside.joined = FALSE /\ Len(Outside.out) <= WriteCap
  <1>1. << >> \in Seq(Events) /\ Len(<< >>) = 0 /\ WriteCap \in Nat
    BY Names
  <1>2. Outside.st = "out" /\ Outside.box = << >> /\ Outside.out = << >> /\ Outside.joined = FALSE
    BY DEF Outside
  <1>3. Outside \in Connections
    BY <1>1, Zenon DEF Outside, Connections
  <1> QED BY <1>1, <1>2, <1>3

LEMMA ShutType ==
  ASSUME NEW x \in Connections
  PROVE  /\ Shut(x) \in Connections /\ Shut(x).st = "closed" /\ Shut(x).box = << >>
         /\ Shut(x).out = << >> /\ (Shut(x).joined <=> x.joined) /\ Len(Shut(x).out) <= WriteCap
  <1>1. << >> \in Seq(Events) /\ Len(<< >>) = 0 /\ WriteCap \in Nat
    BY Names
  <1>2. PICK e : e = << >>
    OBVIOUS
  <1>3. e \in Seq(Events) /\ "closed" \in {"out", "init", "open", "closed"}
    BY <1>1, <1>2
  <1>4. Shut(x) = [x EXCEPT !.st = "closed", !.box = e, !.out = e]
    BY <1>2, Zenon DEF Shut
  <1>5. /\ Shut(x) \in Connections /\ Shut(x).st = "closed" /\ Shut(x).box = e
        /\ Shut(x).out = e /\ (Shut(x).joined <=> x.joined)
    <2>1. LET z == [x EXCEPT !.st = "closed", !.box = e, !.out = e] IN
            /\ z \in Connections
            /\ z.st = "closed" /\ z.joined = x.joined /\ z.box = e /\ z.out = e
      BY <1>3, RecordFields, ConnectionType, Zenon DEF Connections
    <2> QED BY <1>4, <2>1
  <1>6. Len(e) <= WriteCap
    BY <1>1, <1>2
  <1> QED BY <1>2, <1>5, <1>6, Zenon

LEMMA OfferFacts ==
  ASSUME NEW x \in Connections, Len(x.out) <= WriteCap, NEW e \in Events
  PROVE  /\ Offer(x, e) \in Connections /\ Len(Offer(x, e).out) <= WriteCap
         /\ \/ Offer(x, e) = x /\ e.kind = "raw"
            \/ /\ x.st = "init" /\ Offer(x, e).st = "init" /\ (Offer(x, e).joined <=> x.joined)
               /\ Offer(x, e).box = Append(x.box, e) /\ Offer(x, e).out = x.out
            \/ /\ x.st = "open" /\ Offer(x, e).st = "open" /\ (Offer(x, e).joined <=> x.joined)
               /\ Offer(x, e).box = x.box /\ Offer(x, e).out = Append(x.out, e)
            \/ /\ Offer(x, e).st = "closed" /\ ~Offer(x, e).joined
               /\ Offer(x, e).box = << >> /\ Offer(x, e).out = << >>
  <1>1. /\ x.st \in {"out", "init", "open", "closed"} /\ x.joined \in BOOLEAN
        /\ x.box \in Seq(Events) /\ x.out \in Seq(Events)
    BY ConnectionType
  <1>2. CASE x.st = "init"
    <2>1. PICK q : q = Append(x.box, e)
      OBVIOUS
    <2>2. q \in Seq(Events)
      BY <1>1, <2>1
    <2>3. Offer(x, e) = [x EXCEPT !.box = q]
      BY <1>2, <2>1 DEF Offer
    <2>4. /\ Offer(x, e) \in Connections /\ Offer(x, e).st = x.st
          /\ (Offer(x, e).joined <=> x.joined) /\ Offer(x, e).box = q /\ Offer(x, e).out = x.out
      BY <2>2, <2>3, BoxField
    <2> QED BY <1>2, <2>1, <2>4
  <1>3. CASE x.st = "open" /\ Len(x.out) < WriteCap
    <2>1. PICK q : q = Append(x.out, e)
      OBVIOUS
    <2>2. q \in Seq(Events) /\ Len(q) <= WriteCap
      <3>1. Len(x.out) \in Nat /\ WriteCap \in Nat
        BY <1>1, Names
      <3> QED BY <1>1, <1>3, <2>1, <3>1, Appended
    <2>3. Offer(x, e) = [x EXCEPT !.out = q]
      <3>1. x.st # "init" /\ ~(Len(x.out) >= WriteCap)
        BY <1>1, <1>3, Names
      <3> QED BY <1>3, <2>1, <3>1 DEF Offer
    <2>4. /\ Offer(x, e) \in Connections /\ Offer(x, e).st = x.st
          /\ (Offer(x, e).joined <=> x.joined) /\ Offer(x, e).box = x.box /\ Offer(x, e).out = q
      BY <2>2, <2>3, OutField
    <2> QED BY <1>3, <2>1, <2>2, <2>4
  <1>4. CASE x.st = "open" /\ Len(x.out) >= WriteCap /\ e.kind = "raw"
    <2>1. Len(x.out) \in Nat /\ WriteCap \in Nat
      BY <1>1, Names
    <2>2. Offer(x, e) = x
      BY <1>4, <2>1 DEF Offer
    <2> QED BY <1>4, <2>2
  <1>5. CASE /\ x.st # "init" /\ ~(x.st = "open" /\ Len(x.out) < WriteCap)
             /\ ~(x.st = "open" /\ Len(x.out) >= WriteCap /\ e.kind = "raw")
    <2>1. Offer(x, e) = [Shut(x) EXCEPT !.joined = FALSE]
      BY <1>5 DEF Offer
    <2>2. << >> \in Seq(Events) /\ Len(<< >>) = 0 /\ WriteCap \in Nat
      BY Names
    <2>3. PICK q : q = << >>
      OBVIOUS
    <2>4. q \in Seq(Events) /\ "closed" \in {"out", "init", "open", "closed"} /\ FALSE \in BOOLEAN
      BY <2>2, <2>3
    <2>5. Offer(x, e) = [[x EXCEPT !.st = "closed", !.box = q, !.out = q] EXCEPT !.joined = FALSE]
      BY <2>1, <2>3, Zenon DEF Shut
    <2>6. /\ Offer(x, e) \in Connections /\ Offer(x, e).st = "closed"
          /\ ~Offer(x, e).joined /\ Offer(x, e).box = q /\ Offer(x, e).out = q
      <3>1. LET z == [[x EXCEPT !.st = "closed", !.box = q, !.out = q] EXCEPT !.joined = FALSE] IN
              /\ z \in Connections
              /\ z.st = "closed" /\ z.joined = FALSE /\ z.box = q /\ z.out = q
        BY <2>4, RecordFields, ConnectionType, Zenon DEF Connections
      <3> QED BY <2>5, <3>1
    <2> QED BY <2>2, <2>3, <2>6
  <1> QED BY <1>2, <1>3, <1>4, <1>5

\* What has to be shown when one connection changes.
LEMMA OneConnection ==
  ASSUME RoutingOK, ConnOK, NothingSkipped,
         NEW c \in Conns, NEW x \in Connections, NEW l \in Events, NEW D \in SUBSET Events,
         conn' = [conn EXCEPT ![c] = x], last' = [last EXCEPT ![c] = l],
         due' = [due EXCEPT ![c] = D], bcast' = bcast, owner' \in Conns \cup {NoConn},
         \A d \in Conns : d # c => pc'[d] = pc[d],
         Len(x.out) <= WriteCap,
         x.st = "out" => pc'[c] = "idle" /\ l = NoEvent,
         x.st \in {"init", "open"} => x.joined,
         x.st \in {"out", "closed"} => D = {},
         x.st = "init" /\ pc'[c] # "flush" => x.out = << >>,
         \A e \in D : ~Droppable(e),
         x.st \in {"init", "open"} => D \subseteq Contents(bcast) \cup Contents(x.box)
                                                  \cup Contents(x.out)
  PROVE  RoutingOK' /\ ConnOK' /\ NothingSkipped'
  <1>1. /\ conn' \in [Conns -> Connections] /\ last' \in [Conns -> Events]
        /\ due' \in [Conns -> SUBSET Events]
        /\ conn'[c] = x /\ last'[c] = l /\ due'[c] = D
    BY DEF RoutingOK
  <1>2. \A d \in Conns : d # c => conn'[d] = conn[d] /\ last'[d] = last[d] /\ due'[d] = due[d]
    BY DEF RoutingOK
  <1>3. RoutingOK'
    <2>1. \A d \in Conns : Len(conn'[d].out) <= WriteCap
      BY <1>1, <1>2, Zenon DEF RoutingOK
    <2> QED BY <1>1, <2>1, Zenon DEF RoutingOK
  <1>4. ConnOK'
    <2> SUFFICES ASSUME NEW d \in Conns
                 PROVE  /\ conn'[d].st = "out" => pc'[d] = "idle" /\ last'[d] = NoEvent
                        /\ conn'[d].st \in {"init", "open"} => conn'[d].joined
                        /\ conn'[d].st \in {"out", "closed"} => due'[d] = {}
                        /\ conn'[d].st = "init" /\ pc'[d] # "flush" => conn'[d].out = << >>
                        /\ \A e \in due'[d] : ~Droppable(e)
      <3>1. ConnOK' <=> \A d \in Conns :
                          /\ conn'[d].st = "out" => pc'[d] = "idle" /\ last'[d] = NoEvent
                          /\ conn'[d].st \in {"init", "open"} => conn'[d].joined
                          /\ conn'[d].st \in {"out", "closed"} => due'[d] = {}
                          /\ conn'[d].st = "init" /\ pc'[d] # "flush" => conn'[d].out = << >>
                          /\ \A e \in due'[d] : ~Droppable(e)
        BY Zenon DEF ConnOK, Droppable
      <3> QED BY <3>1, Zenon
    <2>1. CASE d = c
      BY <1>1, <2>1, Zenon
    <2>2. CASE d # c
      <3>1. /\ conn[d].st = "out" => pc[d] = "idle" /\ last[d] = NoEvent
            /\ conn[d].st \in {"init", "open"} => conn[d].joined
            /\ conn[d].st \in {"out", "closed"} => due[d] = {}
            /\ conn[d].st = "init" /\ pc[d] # "flush" => conn[d].out = << >>
            /\ \A e \in due[d] : ~Droppable(e)
        BY Zenon DEF ConnOK
      <3> QED BY <1>2, <2>2, <3>1, Zenon
    <2> QED BY <2>1, <2>2
  <1>5. NothingSkipped'
    <2> SUFFICES ASSUME NEW d \in Conns, conn'[d].st \in {"init", "open"}
                 PROVE  due'[d] \subseteq Contents(bcast) \cup Contents(conn'[d].box)
                                          \cup Contents(conn'[d].out)
      BY DEF NothingSkipped, Contents
    <2>1. CASE d = c
      BY <1>1, <2>1, Zenon
    <2>2. CASE d # c
      BY <1>2, <2>2, Zenon DEF NothingSkipped
    <2> QED BY <2>1, <2>2
  <1> QED BY <1>3, <1>4, <1>5

\* What stays as it is may be written as a change to the same.
LEMMA Same ==
  ASSUME RoutingOK, NEW c \in Conns
  PROVE  /\ conn = [conn EXCEPT ![c] = conn[c]] /\ last = [last EXCEPT ![c] = last[c]]
         /\ due = [due EXCEPT ![c] = due[c]]
         /\ conn[c] \in Connections /\ last[c] \in Events /\ due[c] \in SUBSET Events
         /\ Len(conn[c].out) <= WriteCap
  BY DEF RoutingOK

LEMMA ConnectionFrame ==
  ASSUME BaseInv, TablesOK', HandsOK', UNCHANGED collector,
         RoutingOK', ConnOK', NothingSkipped', counter' \in {counter, counter + 1}, UNCHANGED <<ev, held>>
  PROVE  BaseInv'
  <1>1. CollectorOK' /\ StoreNumbers' = StoreNumbers
    BY BaseParts, CollectorRests
  <1>2. HandNumbers' = HandNumbers
    BY DEF HandNumbers
  <1>3. Known' \subseteq Known \cup {0, counter + 1}
    BY <1>1, <1>2 DEF Known
  <1>4. Bounded'
    BY <1>3, BaseParts, StillBounded
  <1> QED BY <1>1, <1>4, TypePartsNext DEF BaseInv

LEMMA HandshakeStep ==
  ASSUME BaseInv, NEW c \in Conns, Handshake(c)
  PROVE  BaseInv'
  <1> DEFINE x == [Outside EXCEPT !.st = "init", !.joined = TRUE]
  <1>1. /\ conn[c].st = "out" /\ owner' = c /\ conn' = [conn EXCEPT ![c] = x]
        /\ \E w \in Places : Goes(c, w)
        /\ \E k \in Jobs : job' = [job EXCEPT ![c] = k]
        /\ row' \in {row, "none"}
        /\ UNCHANGED <<run, counter, hydrated, gen, ev, held, order, bcast, last, due>>
        /\ UNCHANGED collector
    <2>1. /\ "hydrate" \in Jobs /\ "release" \in Jobs /\ "none" \in Jobs
          /\ "create" \in Places /\ "wait" \in Places
      BY AllPlaces DEF Jobs
    <2>2. \E k \in Jobs : job' = [job EXCEPT ![c] = k]
      <3>1. (CASE row = "live" -> "hydrate" [] row = "deleted" -> "release" [] OTHER -> "none") \in Jobs
        BY <2>1
      <3> QED BY <3>1 DEF Handshake
    <2> QED BY <2>1, <2>2 DEF Handshake
  <1>2. x \in Connections /\ x.st = "init" /\ x.joined /\ x.box = << >> /\ x.out = << >>
    BY OutsideType, JoinedFields
  <1> HIDE DEF x
  <1>3. c \in Procs /\ HandsOK /\ TablesOK /\ RoutingOK
    BY BaseParts, Names
  <1>4. pc' \in [Procs -> Places] /\ \A d \in Conns : d # c => pc'[d] = pc[d]
    BY <1>1, <1>3, Moves, Names
  <1>5. TablesOK'
    BY <1>1, <1>3, Zenon DEF TablesOK
  <1>6. job' \in [Procs -> Jobs]
    BY <1>1, <1>3 DEF HandsOK
  <1>7. HandsOK'
    BY <1>1, <1>3, <1>4, <1>6, Zenon DEF HandsOK
  <1>8. /\ last' = [last EXCEPT ![c] = last[c]] /\ due' = [due EXCEPT ![c] = due[c]]
        /\ last[c] \in Events /\ due[c] \in SUBSET Events
    BY <1>1, <1>3, Same
  <1>9. due[c] = {} /\ Len(x.out) <= WriteCap
    <2>1. due[c] = {}
      BY <1>1, BaseParts, Zenon DEF ConnOK
    <2>2. Len(<< >>) = 0 /\ WriteCap \in Nat
      BY Names
    <2> QED BY <1>2, <2>1, <2>2
  <1>10. RoutingOK' /\ ConnOK' /\ NothingSkipped'
    <2>1. ConnOK /\ NothingSkipped /\ owner' \in Conns \cup {NoConn} /\ bcast' = bcast
      BY <1>1, BaseParts
    <2> QED BY <1>1, <1>2, <1>3, <1>4, <1>8, <1>9, <2>1, OneConnection
  <1> QED BY <1>1, <1>5, <1>7, <1>10, ConnectionFrame

LEMMA InitAckStep ==
  ASSUME BaseInv, NEW c \in Conns, InitAck(c)
  PROVE  BaseInv'
  <1>0. PICK e \in Events : e = IF row = "live" THEN Number("plain", FALSE, FALSE) ELSE NoEvent
    BY OldNumbers DEF Kinds
  <1>1. /\ pc[c] = "ack" /\ Goes(c, IF conn[c].st = "init" THEN "flush" ELSE "failed")
        /\ IF row = "live" THEN TakeNumber ELSE UNCHANGED counter
        /\ conn' = [conn EXCEPT ![c].out = IF conn[c].st = "init" THEN Append(@, e) ELSE @]
        /\ UNCHANGED <<row, run, hydrated, gen, job, ev, held, order, bcast, owner, last, due>>
        /\ UNCHANGED collector
    BY <1>0 DEF InitAck
  <1>2. c \in Procs /\ HandsOK /\ TablesOK /\ RoutingOK /\ ConnOK /\ NothingSkipped
    BY BaseParts, Names
  <1>3. TablesOK' /\ counter' \in {counter, counter + 1}
    <2>1. CASE row = "live"
      BY <1>1, <1>2, <2>1, TablesCount
    <2>2. CASE row # "live"
      <3>1. UNCHANGED tables
        BY <1>1, <2>2 DEF tables
      <3> QED BY <1>2, <3>1, TablesRest
    <2> QED BY <2>1, <2>2
  <1>4. /\ pc' \in [Procs -> Places] /\ \A d \in Conns : d # c => pc'[d] = pc[d]
        /\ conn[c].st = "init" => pc'[c] = "flush"
        /\ conn[c].st # "out"
    <2>1. conn[c].st # "out"
      BY <1>1, <1>2, Zenon DEF ConnOK
    <2>2. PICK w \in Places : w = IF conn[c].st = "init" THEN "flush" ELSE "failed"
      BY AllPlaces
    <2> QED BY <1>1, <1>2, <2>1, <2>2, Moves, Names
  <1>5. HandsOK'
    BY <1>1, <1>2, <1>4, Zenon DEF HandsOK
  <1>6. /\ last' = [last EXCEPT ![c] = last[c]] /\ due' = [due EXCEPT ![c] = due[c]]
        /\ conn = [conn EXCEPT ![c] = conn[c]]
        /\ last[c] \in Events /\ due[c] \in SUBSET Events
        /\ conn[c] \in Connections /\ Len(conn[c].out) <= WriteCap
        /\ bcast' = bcast /\ owner' \in Conns \cup {NoConn}
    BY <1>1, <1>2, Same DEF RoutingOK
  <1>7. /\ conn[c].st \in {"init", "open"} => conn[c].joined
        /\ conn[c].st \in {"out", "closed"} => due[c] = {}
        /\ conn[c].st = "init" => conn[c].out = << >>
        /\ \A d \in due[c] : ~Droppable(d)
    BY <1>1, <1>2, Zenon DEF ConnOK
  <1>8. conn[c].st \in {"init", "open"}
          => due[c] \subseteq Contents(bcast) \cup Contents(conn[c].box) \cup Contents(conn[c].out)
    BY <1>2 DEF NothingSkipped
  <1>9. RoutingOK' /\ ConnOK' /\ NothingSkipped'
    <2>1. CASE conn[c].st # "init"
      <3>1. PICK x : x = [conn[c] EXCEPT !.out = conn[c].out]
        OBVIOUS
      <3>2. /\ x \in Connections /\ x.st = conn[c].st /\ (x.joined <=> conn[c].joined)
            /\ x.box = conn[c].box /\ x.out = conn[c].out
        <4>1. conn[c].out \in Seq(Events)
          BY <1>6, ConnectionType
        <4> QED BY <1>6, <3>1, <4>1, OutField
      <3>3. conn' = [conn EXCEPT ![c] = x]
        BY <1>1, <2>1, <3>1
      <3> QED BY <1>2, <1>4, <1>6, <1>7, <1>8, <2>1, <3>2, <3>3, OneConnection
    <2>2. CASE conn[c].st = "init"
      <3>1. PICK q : q = Append(conn[c].out, e)
        OBVIOUS
      <3>2. /\ q \in Seq(Events) /\ Len(q) <= WriteCap
            /\ Contents(conn[c].out) \subseteq Contents(q)
        <4>1. conn[c].out = << >> /\ << >> \in Seq(Events) /\ WriteCap \in Nat \ {0}
          BY <1>7, <2>2, Names
        <4>2. q \in Seq(Events) /\ Len(q) = 1
          BY <3>1, <4>1
        <4> QED BY <4>1, <4>2, EmptyContents
      <3>3. PICK x : x = [conn[c] EXCEPT !.out = q]
        OBVIOUS
      <3>4. /\ x \in Connections /\ x.st = "init" /\ (x.joined <=> conn[c].joined)
            /\ x.box = conn[c].box /\ x.out = q
        BY <1>6, <2>2, <3>2, <3>3, OutField
      <3>5. conn' = [conn EXCEPT ![c] = x]
        BY <1>1, <2>2, <3>1, <3>3
      <3>6. pc'[c] = "flush" /\ x.joined /\ due[c] \subseteq Contents(bcast)
                                          \cup Contents(x.box) \cup Contents(x.out)
        BY <1>4, <1>7, <1>8, <2>2, <3>2, <3>4
      <3>7. Len(x.out) <= WriteCap
        BY <3>2, <3>4
      <3> QED BY <1>2, <1>4, <1>6, <1>7, <3>4, <3>5, <3>6, <3>7, OneConnection
    <2> QED BY <2>1, <2>2
  <1> QED BY <1>1, <1>3, <1>5, <1>9, ConnectionFrame

LEMMA MarkInitDoneStep ==
  ASSUME BaseInv, NEW c \in Conns, MarkInitDone(c)
  PROVE  BaseInv'
  <1> DEFINE x == conn[c]
             y == CASE x.st = "closed" -> x
                    [] x.st # "closed" /\ Len(x.out) + Len(x.box) <= WriteCap ->
                         [x EXCEPT !.st = "open", !.out = @ \o x.box, !.box = << >>]
                    [] OTHER -> Shut(x)
  <1>1. /\ pc[c] = "flush" /\ Goes(c, "idle") /\ conn' = [conn EXCEPT ![c] = y]
        /\ due' = IF conn'[c].st = "closed" THEN [due EXCEPT ![c] = {}] ELSE due
        /\ UNCHANGED tables /\ UNCHANGED <<job, ev, held, order, bcast, owner, last>>
        /\ UNCHANGED collector
    BY DEF MarkInitDone
  <1>2. c \in Procs /\ HandsOK /\ RoutingOK /\ ConnOK /\ NothingSkipped
    BY BaseParts, Names
  <1>3. TablesOK' /\ counter' = counter
    BY <1>1, BaseParts, TablesRest
  <1>4. /\ pc' \in [Procs -> Places] /\ \A d \in Conns : d # c => pc'[d] = pc[d]
        /\ pc'[c] = "idle"
    BY <1>1, <1>2, AllPlaces, Moves, Names
  <1>5. HandsOK'
    BY <1>1, <1>2, <1>4, Zenon DEF HandsOK
  <1>6. /\ last' = [last EXCEPT ![c] = last[c]] /\ due = [due EXCEPT ![c] = due[c]]
        /\ last[c] \in Events /\ due[c] \in SUBSET Events
        /\ x \in Connections /\ Len(x.out) <= WriteCap
        /\ bcast' = bcast /\ owner' \in Conns \cup {NoConn}
    BY <1>1, <1>2, Same DEF RoutingOK
  <1>7. /\ x.st \in {"init", "open"} => x.joined
        /\ x.st \in {"out", "closed"} => due[c] = {}
        /\ x.st # "out"
        /\ \A d \in due[c] : ~Droppable(d)
    BY <1>1, <1>2, Zenon DEF ConnOK
  <1>8. x.st \in {"init", "open"}
          => due[c] \subseteq Contents(bcast) \cup Contents(x.box) \cup Contents(x.out)
    BY <1>2 DEF NothingSkipped
  <1>9. /\ x.st \in {"out", "init", "open", "closed"}
        /\ x.box \in Seq(Events) /\ x.out \in Seq(Events)
    BY <1>6, ConnectionType
  <1>10. \/ y \in Connections /\ y.st = "closed" /\ Len(y.out) <= WriteCap
         \/ /\ y \in Connections /\ y.st = "open" /\ (y.joined <=> x.joined)
            /\ x.st \in {"init", "open"}
            /\ y.box = << >> /\ y.out = x.out \o x.box /\ Len(y.out) <= WriteCap
    <2>1. CASE x.st = "closed"
      <3>1. y = x
        BY <2>1
      <3> QED BY <1>6, <2>1, <3>1
    <2>2. CASE x.st # "closed" /\ Len(x.out) + Len(x.box) <= WriteCap
      <3>1. PICK q, z : q = x.out \o x.box /\ z = << >>
        OBVIOUS
      <3>2. q \in Seq(Events) /\ z \in Seq(Events) /\ Len(q) <= WriteCap
        <4> HIDE DEF x, y
        <4>1. q \in Seq(Events) /\ Len(q) = Len(x.out) + Len(x.box)
          BY <1>9, <3>1, Concatenated
        <4>2. z \in Seq(Events)
          BY <3>1
        <4> QED BY <2>2, <4>1, <4>2
      <3>3. y = [x EXCEPT !.st = "open", !.out = q, !.box = z]
        BY <2>2, <3>1
      <3>4. LET w == [x EXCEPT !.st = "open", !.out = q, !.box = z] IN
              /\ w \in Connections
              /\ w.st = "open" /\ w.joined = x.joined /\ w.box = z /\ w.out = q
        <4>1. "open" \in {"out", "init", "open", "closed"}
          OBVIOUS
        <4> QED BY <1>6, <3>2, <4>1, RecordFields, ConnectionType, Zenon DEF Connections
      <3> HIDE DEF x, y
      <3>5. /\ y \in Connections /\ y.st = "open" /\ y.joined = x.joined /\ y.box = z /\ y.out = q
        BY <3>3, <3>4
      <3>6. x.st \in {"init", "open"}
        BY <1>7, <1>9, <2>2
      <3> QED BY <3>1, <3>2, <3>5, <3>6
    <2>3. CASE x.st # "closed" /\ ~(Len(x.out) + Len(x.box) <= WriteCap)
      <3>1. y = Shut(x)
        BY <2>3
      <3> HIDE DEF x, y
      <3> QED BY <1>6, <3>1, ShutType
    <2> QED BY <2>1, <2>2, <2>3
  <1> HIDE DEF x, y
  <1>11. conn'[c] = y
    BY <1>1, <1>2 DEF RoutingOK
  <1>12. RoutingOK' /\ ConnOK' /\ NothingSkipped'
    <2>1. CASE y \in Connections /\ y.st = "closed" /\ Len(y.out) <= WriteCap
      <3>1. due' = [due EXCEPT ![c] = {}] /\ {} \in SUBSET Events
        BY <1>1, <1>11, <2>1
      <3> QED BY <1>1, <1>2, <1>4, <1>6, <2>1, <3>1, OneConnection
    <2>2. CASE /\ y \in Connections /\ y.st = "open" /\ (y.joined <=> x.joined)
               /\ x.st \in {"init", "open"}
               /\ y.box = << >> /\ y.out = x.out \o x.box /\ Len(y.out) <= WriteCap
      <3>1. due' = [due EXCEPT ![c] = due[c]]
        BY <1>1, <1>6, <1>11, <2>2
      <3>2. Contents(y.out) = Contents(x.out) \cup Contents(x.box)
        BY <1>9, <2>2, Concatenated
      <3>3. y.joined /\ due[c] \subseteq Contents(bcast) \cup Contents(y.box) \cup Contents(y.out)
        BY <1>7, <1>8, <2>2, <3>2
      <3>4. y.st # "out" /\ y.st # "closed" /\ y.st # "init"
        BY <2>2
      <3> QED BY <1>1, <1>2, <1>4, <1>6, <1>7, <2>2, <3>1, <3>3, <3>4, OneConnection
    <2> QED BY <1>10, <2>1, <2>2
  <1> QED BY <1>1, <1>3, <1>5, <1>12, ConnectionFrame

LEMMA WritePumpStep ==
  ASSUME BaseInv, NEW c \in Conns, WritePump(c)
  PROVE  BaseInv'
  <1>0. PICK e : e = Head(conn[c].out)
    OBVIOUS
  <1>1. /\ conn[c].st \in {"init", "open"} /\ conn[c].out # << >>
        /\ conn' = [conn EXCEPT ![c].out = Tail(@)]
        /\ last' = [last EXCEPT ![c] = IF e.ordered THEN e ELSE @]
        /\ due' = [due EXCEPT ![c] = @ \ {e}]
        /\ UNCHANGED tables /\ UNCHANGED <<pc, job, ev, held, order, bcast, owner>>
        /\ UNCHANGED collector
    BY <1>0 DEF WritePump
  <1>2. c \in Procs /\ HandsOK /\ RoutingOK /\ ConnOK /\ NothingSkipped
    BY BaseParts, Names
  <1>3. TablesOK' /\ counter' = counter
    BY <1>1, BaseParts, TablesRest
  <1>4. HandsOK'
    BY <1>1, <1>2, Zenon DEF HandsOK
  <1>5. /\ last[c] \in Events /\ due[c] \in SUBSET Events
        /\ conn[c] \in Connections /\ Len(conn[c].out) <= WriteCap
        /\ owner' \in Conns \cup {NoConn}
    BY <1>1, <1>2, Same DEF RoutingOK
  <1>6. conn[c].out \in Seq(Events) /\ conn[c].box \in Seq(Events)
    BY <1>5, ConnectionType
  <1>7. /\ e \in Events /\ Tail(conn[c].out) \in Seq(Events) /\ Len(Tail(conn[c].out)) <= WriteCap
        /\ Contents(conn[c].out) = {e} \cup Contents(Tail(conn[c].out))
    <2>1. Len(conn[c].out) \in Nat /\ WriteCap \in Nat
      BY <1>6, Names
    <2>2. Len(Tail(conn[c].out)) = Len(conn[c].out) - 1
      BY <1>1, <1>6, Tailed
    <2>3. Len(Tail(conn[c].out)) <= WriteCap
      BY <1>5, <2>1, <2>2
    <2> QED BY <1>0, <1>1, <1>6, <2>3, Tailed
  <1>8. PICK q, x : q = Tail(conn[c].out) /\ x = [conn[c] EXCEPT !.out = q]
    OBVIOUS
  <1>9. /\ x \in Connections /\ x.st = conn[c].st /\ (x.joined <=> conn[c].joined)
        /\ x.box = conn[c].box /\ x.out = q /\ Len(x.out) <= WriteCap
    <2>1. q \in Seq(Events) /\ Len(q) <= WriteCap
      BY <1>7, <1>8
    <2>2. /\ x \in Connections /\ x.st = conn[c].st /\ (x.joined <=> conn[c].joined)
          /\ x.box = conn[c].box /\ x.out = q
      <3>1. x = [conn[c] EXCEPT !.out = q] /\ conn[c] \in Connections /\ q \in Seq(Events)
        BY <1>5, <1>8, <2>1
      <3> QED BY <3>1, OutField
    <2> QED BY <2>1, <2>2
  <1>10. conn' = [conn EXCEPT ![c] = x]
    BY <1>1, <1>8
  <1>11. PICK l \in Events : l = IF e.ordered THEN e ELSE last[c]
    BY <1>5, <1>7
  <1>12. PICK D \in SUBSET Events : D = due[c] \ {e}
    BY <1>5
  <1>13. last' = [last EXCEPT ![c] = l] /\ due' = [due EXCEPT ![c] = D]
    BY <1>1, <1>11, <1>12
  <1>14. /\ conn[c].joined /\ conn[c].st # "out" /\ conn[c].st # "closed"
         /\ conn[c].st = "init" => pc[c] = "flush"
         /\ \A d \in D : ~Droppable(d)
    <2>1. /\ conn[c].st \in {"init", "open"} => conn[c].joined
          /\ conn[c].st = "init" /\ pc[c] # "flush" => conn[c].out = << >>
          /\ \A d \in due[c] : ~Droppable(d)
      BY <1>2, Zenon DEF ConnOK
    <2> QED BY <1>1, <1>12, <2>1
  <1>15. D \subseteq Contents(bcast) \cup Contents(x.box) \cup Contents(x.out)
    <2>1. due[c] \subseteq Contents(bcast) \cup Contents(conn[c].box) \cup Contents(conn[c].out)
      BY <1>1, <1>2 DEF NothingSkipped
    <2>2. x.box = conn[c].box /\ Contents(conn[c].out) = {e} \cup Contents(x.out)
      BY <1>7, <1>8, <1>9
    <2> QED BY <1>12, <2>1, <2>2
  <1>16. pc'[c] = pc[c] /\ \A d \in Conns : d # c => pc'[d] = pc[d]
    BY <1>1
  <1>17. RoutingOK' /\ ConnOK' /\ NothingSkipped'
    <2>1. bcast' = bcast
      BY <1>1
    <2>2. x.st # "out" /\ x.st # "closed" /\ x.joined /\ (x.st = "init" => pc'[c] = "flush")
      BY <1>9, <1>14, <1>16
    <2> QED BY <1>2, <1>5, <1>9, <1>10, <1>13, <1>14, <1>15, <1>16, <2>1, <2>2, OneConnection
  <1> QED BY <1>1, <1>3, <1>4, <1>17, ConnectionFrame

LEMMA DisconnectStep ==
  ASSUME BaseInv, NEW c \in Conns, Disconnect(c)
  PROVE  BaseInv'
  <1>1. /\ conn' = [conn EXCEPT ![c] = Shut(conn[c])] /\ due' = [due EXCEPT ![c] = {}]
        /\ UNCHANGED tables /\ UNCHANGED <<pc, job, ev, held, order, bcast, owner, last>>
        /\ UNCHANGED collector
    BY DEF Disconnect
  <1>2. HandsOK /\ RoutingOK /\ ConnOK /\ NothingSkipped
    BY BaseParts
  <1>3. TablesOK' /\ counter' = counter
    BY <1>1, BaseParts, TablesRest
  <1>4. HandsOK'
    BY <1>1, <1>2, Zenon DEF HandsOK
  <1>5. /\ last' = [last EXCEPT ![c] = last[c]]
        /\ last[c] \in Events /\ {} \in SUBSET Events
        /\ conn[c] \in Connections
        /\ owner' \in Conns \cup {NoConn} /\ bcast' = bcast
        /\ \A d \in Conns : d # c => pc'[d] = pc[d]
    BY <1>1, <1>2, Same DEF RoutingOK
  <1>6. /\ Shut(conn[c]) \in Connections /\ Shut(conn[c]).st = "closed"
        /\ Len(Shut(conn[c]).out) <= WriteCap
    BY <1>5, ShutType
  <1>7. RoutingOK' /\ ConnOK' /\ NothingSkipped'
    BY <1>1, <1>2, <1>5, <1>6, OneConnection
  <1> QED BY <1>1, <1>3, <1>4, <1>7, ConnectionFrame

LEMMA UnregisterConnStep ==
  ASSUME BaseInv, NEW c \in Conns, UnregisterConn(c)
  PROVE  BaseInv'
  <1>1. /\ conn[c].st = "closed" /\ Goes(c, "idle")
        /\ conn' = [conn EXCEPT ![c] = Outside] /\ last' = [last EXCEPT ![c] = NoEvent]
        /\ owner' \in {owner, NoConn}
        /\ UNCHANGED tables /\ UNCHANGED <<job, ev, held, order, bcast, due>>
        /\ UNCHANGED collector
    BY DEF UnregisterConn
  <1>2. c \in Procs /\ HandsOK /\ RoutingOK /\ ConnOK /\ NothingSkipped
    BY BaseParts, Names
  <1>3. TablesOK' /\ counter' = counter
    BY <1>1, BaseParts, TablesRest
  <1>4. /\ pc' \in [Procs -> Places] /\ \A d \in Conns : d # c => pc'[d] = pc[d]
        /\ pc'[c] = "idle"
    BY <1>1, <1>2, AllPlaces, Moves, Names
  <1>5. HandsOK'
    BY <1>1, <1>2, <1>4, Zenon DEF HandsOK
  <1>6. /\ due' = [due EXCEPT ![c] = due[c]] /\ due[c] = {}
        /\ NoEvent \in Events /\ due[c] \in SUBSET Events
        /\ owner' \in Conns \cup {NoConn} /\ bcast' = bcast
    <2>1. due[c] = {}
      BY <1>1, <1>2, Zenon DEF ConnOK
    <2> QED BY <1>1, <1>2, <2>1, Same, NoEventType DEF RoutingOK
  <1>7. RoutingOK' /\ ConnOK' /\ NothingSkipped'
    BY <1>1, <1>2, <1>4, <1>6, OutsideType, OneConnection
  <1> QED BY <1>1, <1>3, <1>5, <1>7, ConnectionFrame

\* Where the first event of the channel goes.
LEMMA RouteFacts ==
  ASSUME RoutingOK, Route, NEW e, e = Head(bcast)
  PROVE  /\ bcast # << >> /\ bcast' = Tail(bcast)
         /\ e \in Events /\ bcast' \in Seq(Events) /\ Len(bcast') <= Broadcast
         /\ Contents(bcast) = {e} \cup Contents(bcast')
         /\ \A c \in Conns :
              /\ conn'[c] \in Connections /\ Len(conn'[c].out) <= WriteCap
              /\ \/ conn'[c] = conn[c] /\ (conn[c].joined => e.kind = "raw")
                 \/ /\ conn[c].st = "init" /\ conn'[c].st = "init"
                    /\ (conn'[c].joined <=> conn[c].joined)
                    /\ conn'[c].box = Append(conn[c].box, e) /\ conn'[c].out = conn[c].out
                 \/ /\ conn[c].st = "open" /\ conn'[c].st = "open"
                    /\ (conn'[c].joined <=> conn[c].joined)
                    /\ conn'[c].box = conn[c].box /\ conn'[c].out = Append(conn[c].out, e)
                 \/ /\ conn'[c].st = "closed" /\ ~conn'[c].joined
                    /\ conn'[c].box = << >> /\ conn'[c].out = << >>
  <1>1. /\ bcast # << >> /\ bcast' = Tail(bcast)
        /\ conn' = [c \in Conns |-> IF conn[c].joined THEN Offer(conn[c], e) ELSE conn[c]]
    BY DEF Route
  <1>5. /\ e \in Events /\ bcast' \in Seq(Events) /\ Len(bcast') <= Broadcast
        /\ Contents(bcast) = {e} \cup Contents(bcast')
    <2>1. bcast \in Seq(Events) /\ Len(bcast) <= Broadcast /\ Len(bcast) \in Nat /\ Broadcast \in Nat
      BY Names DEF RoutingOK
    <2>2. /\ Head(bcast) \in Events /\ Tail(bcast) \in Seq(Events)
          /\ Len(Tail(bcast)) = Len(bcast) - 1
          /\ Contents(bcast) = {Head(bcast)} \cup Contents(Tail(bcast))
      BY <1>1, <2>1, Tailed
    <2>3. Contents(bcast') = Contents(Tail(bcast))
      BY <1>1
    <2>4. Len(Tail(bcast)) <= Broadcast
      BY <2>1, <2>2
    <2> QED BY <1>1, <2>2, <2>3, <2>4
  <1>6. ASSUME NEW c \in Conns
        PROVE  /\ conn'[c] \in Connections /\ Len(conn'[c].out) <= WriteCap
               /\ \/ conn'[c] = conn[c] /\ (conn[c].joined => e.kind = "raw")
                  \/ /\ conn[c].st = "init" /\ conn'[c].st = "init"
                     /\ (conn'[c].joined <=> conn[c].joined)
                     /\ conn'[c].box = Append(conn[c].box, e) /\ conn'[c].out = conn[c].out
                  \/ /\ conn[c].st = "open" /\ conn'[c].st = "open"
                     /\ (conn'[c].joined <=> conn[c].joined)
                     /\ conn'[c].box = conn[c].box /\ conn'[c].out = Append(conn[c].out, e)
                  \/ /\ conn'[c].st = "closed" /\ ~conn'[c].joined
                     /\ conn'[c].box = << >> /\ conn'[c].out = << >>
    <2>1. conn[c] \in Connections /\ Len(conn[c].out) <= WriteCap
      BY Same
    <2>2. CASE ~conn[c].joined
      <3>1. conn'[c] = conn[c]
        BY <1>1, <2>2, Zenon
      <3> QED BY <2>1, <2>2, <3>1
    <2>3. CASE conn[c].joined
      <3>1. conn'[c] = Offer(conn[c], e)
        BY <1>1, <2>3, Zenon
      <3>2. /\ Offer(conn[c], e) \in Connections /\ Len(Offer(conn[c], e).out) <= WriteCap
            /\ \/ Offer(conn[c], e) = conn[c] /\ e.kind = "raw"
               \/ /\ conn[c].st = "init" /\ Offer(conn[c], e).st = "init"
                  /\ (Offer(conn[c], e).joined <=> conn[c].joined)
                  /\ Offer(conn[c], e).box = Append(conn[c].box, e)
                  /\ Offer(conn[c], e).out = conn[c].out
               \/ /\ conn[c].st = "open" /\ Offer(conn[c], e).st = "open"
                  /\ (Offer(conn[c], e).joined <=> conn[c].joined)
                  /\ Offer(conn[c], e).box = conn[c].box
                  /\ Offer(conn[c], e).out = Append(conn[c].out, e)
               \/ /\ Offer(conn[c], e).st = "closed" /\ ~Offer(conn[c], e).joined
                  /\ Offer(conn[c], e).box = << >> /\ Offer(conn[c], e).out = << >>
        BY <1>5, <2>1, OfferFacts, Zenon
      <3> QED BY <3>1, <3>2, Zenon
    <2> QED BY <2>2, <2>3
  <1> QED BY <1>1, <1>5, <1>6, Zenon

LEMMA RouteStep ==
  ASSUME BaseInv, Route
  PROVE  BaseInv'
  <1>0. PICK e : e = Head(bcast)
    OBVIOUS
  <1>1. /\ bcast # << >> /\ bcast' = Tail(bcast)
        /\ conn' = [c \in Conns |-> IF conn[c].joined THEN Offer(conn[c], e) ELSE conn[c]]
        /\ due' = [c \in Conns |-> IF conn'[c].st = "closed" THEN {} ELSE due[c]]
        /\ UNCHANGED tables /\ UNCHANGED <<pc, job, ev, held, order, owner, last>>
        /\ UNCHANGED collector
    BY <1>0 DEF Route
  <1>2. HandsOK /\ RoutingOK /\ ConnOK /\ NothingSkipped
    BY BaseParts
  <1>3. TablesOK' /\ counter' = counter
    BY <1>1, BaseParts, TablesRest
  <1>4. HandsOK'
    BY <1>1, <1>2, Zenon DEF HandsOK
  <1>5. /\ e \in Events /\ bcast' \in Seq(Events) /\ Len(bcast') <= Broadcast
        /\ Contents(bcast) = {e} \cup Contents(bcast')
    BY <1>0, <1>2, RouteFacts, Zenon
  <1>6. ASSUME NEW c \in Conns
        PROVE  /\ conn'[c] \in Connections /\ Len(conn'[c].out) <= WriteCap
               /\ \/ conn'[c] = conn[c] /\ (conn[c].joined => e.kind = "raw")
                  \/ /\ conn[c].st = "init" /\ conn'[c].st = "init"
                     /\ (conn'[c].joined <=> conn[c].joined)
                     /\ conn'[c].box = Append(conn[c].box, e) /\ conn'[c].out = conn[c].out
                  \/ /\ conn[c].st = "open" /\ conn'[c].st = "open"
                     /\ (conn'[c].joined <=> conn[c].joined)
                     /\ conn'[c].box = conn[c].box /\ conn'[c].out = Append(conn[c].out, e)
                  \/ /\ conn'[c].st = "closed" /\ ~conn'[c].joined
                     /\ conn'[c].box = << >> /\ conn'[c].out = << >>
    BY <1>0, <1>2, RouteFacts, Zenon
  <1>7. ASSUME NEW c \in Conns
        PROVE  due'[c] = IF conn'[c].st = "closed" THEN {} ELSE due[c]
    BY <1>1
  <1>8. RoutingOK'
    <2>1. conn' \in [Conns -> Connections] /\ \A c \in Conns : Len(conn'[c].out) <= WriteCap
      <3>1. conn' = [c \in Conns |-> conn'[c]]
        BY <1>1
      <3> QED BY <1>6, <3>1, Zenon
    <2>2. due' \in [Conns -> SUBSET Events]
      <3>1. \A c \in Conns : due[c] \in SUBSET Events
        BY <1>2 DEF RoutingOK
      <3>2. \A c \in Conns : (IF conn'[c].st = "closed" THEN {} ELSE due[c]) \in SUBSET Events
        BY <3>1
      <3> QED BY <1>1, <3>2, Zenon
    <2> QED BY <1>1, <1>2, <1>5, <2>1, <2>2, Zenon DEF RoutingOK
  <1>9. ConnOK'
    <2>1. ConnOK' <=> \A c \in Conns :
                        /\ conn'[c].st = "out" => pc'[c] = "idle" /\ last'[c] = NoEvent
                        /\ conn'[c].st \in {"init", "open"} => conn'[c].joined
                        /\ conn'[c].st \in {"out", "closed"} => due'[c] = {}
                        /\ conn'[c].st = "init" /\ pc'[c] # "flush" => conn'[c].out = << >>
                        /\ \A d \in due'[c] : ~Droppable(d)
      BY Zenon DEF ConnOK, Droppable
    <2>2. ASSUME NEW c \in Conns
          PROVE  /\ conn'[c].st = "out" => pc'[c] = "idle" /\ last'[c] = NoEvent
                 /\ conn'[c].st \in {"init", "open"} => conn'[c].joined
                 /\ conn'[c].st \in {"out", "closed"} => due'[c] = {}
                 /\ conn'[c].st = "init" /\ pc'[c] # "flush" => conn'[c].out = << >>
                 /\ \A d \in due'[c] : ~Droppable(d)
      <3>1. /\ conn[c].st = "out" => pc[c] = "idle" /\ last[c] = NoEvent
            /\ conn[c].st \in {"init", "open"} => conn[c].joined
            /\ conn[c].st \in {"out", "closed"} => due[c] = {}
            /\ conn[c].st = "init" /\ pc[c] # "flush" => conn[c].out = << >>
            /\ \A d \in due[c] : ~Droppable(d)
        BY <1>2, Zenon DEF ConnOK
      <3>2. pc'[c] = pc[c] /\ last'[c] = last[c]
        BY <1>1
      <3> QED BY <1>6, <1>7, <3>1, <3>2
    <2> QED BY <2>1, <2>2, Zenon
  <1>10. NothingSkipped'
    <2> SUFFICES ASSUME NEW c \in Conns, conn'[c].st \in {"init", "open"}
                 PROVE  due'[c] \subseteq Contents(bcast') \cup Contents(conn'[c].box)
                                          \cup Contents(conn'[c].out)
      BY DEF NothingSkipped, Contents
    <2>1. due'[c] = due[c]
      BY <1>7
    <2>2. conn[c] \in Connections /\ conn[c].box \in Seq(Events) /\ conn[c].out \in Seq(Events)
      BY <1>2, Same, ConnectionType
    <2>3. \A d \in due[c] : ~Droppable(d)
      BY <1>2, Zenon DEF ConnOK
    <2>4. conn[c].st \in {"init", "open"}
      BY <1>6
    <2>5. due[c] \subseteq Contents(bcast) \cup Contents(conn[c].box) \cup Contents(conn[c].out)
      BY <1>2, <2>4 DEF NothingSkipped
    <2>6. /\ Contents(Append(conn[c].box, e)) = Contents(conn[c].box) \cup {e}
          /\ Contents(Append(conn[c].out, e)) = Contents(conn[c].out) \cup {e}
      BY <1>5, <2>2, Appended
    <2>7. CASE conn'[c] = conn[c] /\ (conn[c].joined => e.kind = "raw")
      <3>1. conn[c].joined
        BY <1>2, <2>4, Zenon DEF ConnOK
      <3>2. e \notin due[c]
        BY <2>3, <2>7, <3>1 DEF Droppable
      <3> QED BY <1>5, <2>1, <2>5, <2>7, <3>2
    <2>8. CASE conn'[c].box = Append(conn[c].box, e) /\ conn'[c].out = conn[c].out
      <3>1. Contents(conn'[c].box) = Contents(conn[c].box) \cup {e}
            /\ Contents(conn'[c].out) = Contents(conn[c].out)
        BY <2>6, <2>8
      <3> QED BY <1>5, <2>1, <2>5, <3>1
    <2>9. CASE conn'[c].box = conn[c].box /\ conn'[c].out = Append(conn[c].out, e)
      <3>1. Contents(conn'[c].out) = Contents(conn[c].out) \cup {e}
            /\ Contents(conn'[c].box) = Contents(conn[c].box)
        BY <2>6, <2>9
      <3> QED BY <1>5, <2>1, <2>5, <3>1
    <2> QED BY <1>6, <2>7, <2>8, <2>9
  <1> QED BY <1>1, <1>3, <1>4, <1>8, <1>9, <1>10, ConnectionFrame

\* A gateway that has just been started: nothing but the row and the table.
Blank ==
  /\ pc = [p \in Procs |-> "idle"] /\ job = [p \in Procs |-> "none"]
  /\ ev = [p \in Procs |-> NoEvent] /\ held = NoEvent /\ order = "none"
  /\ bcast = << >> /\ owner = NoConn
  /\ conn = [c \in Conns |-> Outside] /\ last = [c \in Conns |-> NoEvent]
  /\ due = [c \in Conns |-> {}]
  /\ accum = << >> /\ capture = << >> /\ stored \subseteq Entries

LEMMA BlankStart == Blank => HandsOK /\ RoutingOK /\ CollectorOK /\ ConnOK /\ NothingSkipped
  <1> SUFFICES ASSUME Blank
               PROVE  HandsOK /\ RoutingOK /\ CollectorOK /\ ConnOK /\ NothingSkipped
    OBVIOUS
  <1> USE DEF Blank
  <1>1. HandsOK
    <2>1. "idle" \in Places /\ "none" \in Jobs /\ NoEvent \in Events
      BY AllPlaces, NoEventType DEF Jobs
    <2> QED BY <2>1 DEF HandsOK
  <1>2. /\ << >> \in Seq(Events) /\ << >> \in Seq(Entries) /\ Len(<< >>) = 0
        /\ Broadcast \in Nat /\ CaptureCap \in Nat /\ WriteCap \in Nat
    BY Names
  <1>3. \A c \in Conns : conn[c] = Outside /\ last[c] = NoEvent /\ due[c] = {} /\ pc[c] = "idle"
    BY Names
  <1>4. RoutingOK
    <2>1. conn \in [Conns -> Connections] /\ \A c \in Conns : Len(conn[c].out) <= WriteCap
      BY <1>3, OutsideType, Zenon
    <2>2. last \in [Conns -> Events] /\ due \in [Conns -> SUBSET Events]
      BY NoEventType
    <2>3. bcast \in Seq(Events) /\ Len(bcast) <= Broadcast /\ owner \in Conns \cup {NoConn}
      BY <1>2
    <2> QED BY <2>1, <2>2, <2>3, Zenon DEF RoutingOK
  <1>5. CollectorOK
    BY <1>2 DEF CollectorOK
  <1>6. ConnOK
    <2>1. Outside.st = "out" /\ Outside.st \notin {"init", "open"} /\ Outside.out = << >>
      BY OutsideType
    <2> QED BY <1>3, <2>1 DEF ConnOK
  <1>7. NothingSkipped
    BY <1>3 DEF NothingSkipped
  <1> QED BY <1>1, <1>4, <1>5, <1>6, <1>7

LEMMA BaseInit ==
  ASSUME Init
  PROVE  BaseInv
  <1>1. /\ pc = [p \in Procs |-> "idle"] /\ job = [p \in Procs |-> "none"]
        /\ ev = [p \in Procs |-> NoEvent] /\ held = NoEvent /\ order = "none"
        /\ bcast = << >> /\ owner = NoConn
        /\ conn = [c \in Conns |-> Outside] /\ last = [c \in Conns |-> NoEvent]
        /\ due = [c \in Conns |-> {}]
        /\ accum = << >> /\ capture = << >> /\ stored = {}
        /\ row = "none" /\ run = FALSE /\ counter = 0 /\ hydrated = FALSE /\ gen = 0
    BY DEF Init
  <1>2. HandsOK /\ RoutingOK /\ CollectorOK /\ ConnOK /\ NothingSkipped
    BY <1>1, BlankStart DEF Blank
  <1>3. TablesOK
    BY <1>1 DEF TablesOK
  <1>4. Bounded
    <2>1. StoreNumbers = {}
      BY <1>1, EmptyContents DEF StoreNumbers
    <2>2. \A n \in HandNumbers : n = 0
      BY <1>1, NoEventType DEF HandNumbers
    <2>3. 0 \in Nat /\ \A n \in Known : n <= 0
      BY <1>1, <2>1, <2>2 DEF Known
    <2> QED BY <2>3 DEF Bounded
  <1> QED BY <1>2, <1>3, <1>4, TypeParts DEF BaseInv

LEMMA CrashStep ==
  ASSUME BaseInv, Crash
  PROVE  BaseInv'
  <1>1. /\ pc' = [p \in Procs |-> "idle"] /\ job' = [p \in Procs |-> "none"]
        /\ ev' = [p \in Procs |-> NoEvent] /\ held' = NoEvent /\ order' = "none"
        /\ bcast' = << >> /\ owner' = NoConn
        /\ conn' = [c \in Conns |-> Outside] /\ last' = [c \in Conns |-> NoEvent]
        /\ due' = [c \in Conns |-> {}]
        /\ accum' = << >> /\ capture' = << >> /\ stored' = stored
        /\ row' = row /\ run' = FALSE /\ counter' = 0 /\ hydrated' = FALSE /\ gen' = gen + 1
    BY DEF Crash
  <1>2. stored \subseteq Entries /\ TablesOK
    BY BaseParts DEF CollectorOK
  <1>3. HandsOK' /\ RoutingOK' /\ CollectorOK' /\ ConnOK' /\ NothingSkipped'
    <2>1. Blank'
      BY <1>1, <1>2 DEF Blank
    <2> QED BY <2>1, BlankStart, PTL
  <1>4. TablesOK'
    <2>1. gen + 1 \in Nat
      BY <1>2 DEF TablesOK
    <2> QED BY <1>1, <1>2, <2>1 DEF TablesOK
  <1>5. Bounded'
    <2>1. StoreNumbers' \subseteq StoreNumbers
      BY <1>1, EmptyContents DEF StoreNumbers, Contents
    <2>2. \A n \in HandNumbers' : n = 0
      BY <1>1, NoEventType DEF HandNumbers
    <2>3. Known' \subseteq Known \cup {0, counter + 1}
      BY <1>1, <2>1, <2>2 DEF Known
    <2> QED BY <2>3, BaseParts, StillBounded
  <1> QED BY <1>3, <1>4, <1>5, TypePartsNext DEF BaseInv

LEMMA BaseStep == BaseInv /\ [Next]_vars => BaseInv'
  <1> SUFFICES ASSUME BaseInv, [Next]_vars
               PROVE  BaseInv'
    OBVIOUS
  <1>1. CASE Producer
    BY <1>1, ForwardBeginStep, ForwardNumberStep, ForwardSendStep, ForwardAwaitStep,
       ForwardCaptureStep, ForwardHeldStep, ForwardHeldCaptureStep, ForwardHiddenStep,
       ForwardFactStep, WorkerEndsStep, SendLockStep, SendNumberStep, SendEnqueueStep,
       SendAwaitStep, NotifyNumberStep, NotifyEnqueueStep, ReadNumberStep, CaptureInboundStep
    DEF Producer
  <1>2. CASE Delete \/ NoticeNumber \/ NoticeEnqueue \/ Route \/ Write
             \/ FlushTimedOutAccumulators \/ Crash
    BY <1>2, DeleteStep, NoticeNumberStep, NoticeEnqueueStep, RouteStep, WriteStep,
       FlushTimedOutAccumulatorsStep, CrashStep
  <1>3. CASE \E p \in Procs : Announce(p) \/ ReleaseSeq(p)
    BY <1>3, AnnounceStep, ReleaseSeqStep
  <1>4. ASSUME NEW c \in Conns,
               \/ Handshake(c) \/ CreateSession(c) \/ EnsureSeqHydrated(c) \/ StartWorker(c)
               \/ InitAck(c) \/ MarkInitDone(c) \/ WritePump(c) \/ Disconnect(c)
               \/ UnregisterConn(c)
        PROVE  BaseInv'
    BY <1>4, HandshakeStep, CreateSessionStep, EnsureSeqHydratedStep, StartWorkerStep,
       InitAckStep, MarkInitDoneStep, WritePumpStep, DisconnectStep, UnregisterConnStep
  <1>5. CASE UNCHANGED vars
    <2>1. /\ UNCHANGED tables /\ UNCHANGED <<pc, job, ev, held, order>>
          /\ UNCHANGED routing /\ UNCHANGED collector
      BY <1>5 DEF vars
    <2>2. TablesOK' /\ counter' = counter /\ CollectorOK' /\ StoreNumbers' = StoreNumbers
      BY <2>1, BaseParts, TablesRest, CollectorRests
    <2>3. HandsOK' /\ HandNumbers' = HandNumbers /\ ConnsStay
      BY <2>1, BaseParts, Zenon DEF HandsOK, HandNumbers, ConnsStay
    <2> QED BY <2>1, <2>2, <2>3, BaseFrame DEF Known
  <1> QED BY <1>1, <1>2, <1>3, <1>4, <1>5 DEF Next

LEMMA Based == Spec => []BaseInv
  <1>1. Init => BaseInv
    BY BaseInit
  <1> QED BY <1>1, BaseStep, PTL DEF Spec

\* Locks, channels, tables and connections hold values of their types and channels
\* stay within their capacities: the channel of gateway/hub.go, the write channels
\* of gateway/conn.go and the queue of eventstore/collector.go.
THEOREM StreamTypeCorrect == Spec => []HTypeOK
  <1>1. BaseInv => HTypeOK
    BY DEF BaseInv
  <1> QED BY <1>1, Based, PTL

\* A connected client never misses a guaranteed event: whatever routeMessage and
\* writeDispatch do with one leaves it in a buffer of the connection or closes
\* the connection, and markInitDone and the write pump keep what they move.
THEOREM NoGap == Spec => []NothingSkipped
  <1>1. BaseInv => NothingSkipped
    BY DEF BaseInv
  <1> QED BY <1>1, Based, PTL


-----------------------------------------------------------------------------
(* The order of events. *)

\* The counter only moves on, within its generation or to a next one.
Later == gen' > gen \/ (gen' = gen /\ counter' >= counter)

LEMMA PastStays ==
  ASSUME TablesOK, TablesOK', Later, NEW e \in Events, Past(e)
  PROVE  Past(e)'
  <1>1. e.gen \in Nat /\ e.n \in Nat
    BY DEF Events
  <1>2. counter \in Nat /\ gen \in Nat /\ counter' \in Nat /\ gen' \in Nat
    BY DEF TablesOK
  <1>3. CASE ~e.ordered
    BY <1>3 DEF Past
  <1>4. CASE e.ordered
    BY <1>1, <1>2, <1>4 DEF Past, Later
  <1> QED BY <1>3, <1>4

LEMMA NewestStays ==
  ASSUME TablesOK, TablesOK', Later, NEW p \in Procs, ev[p] \in Events, Newest(p), ev'[p] = ev[p],
         \A t \in Transit' : t \in Transit \/ ~t.ordered
  PROVE  Newest(p)'
  <1>1. PICK e \in Events : e = ev[p]
    OBVIOUS
  <1>2. Past(e)'
    BY <1>1, PastStays DEF Newest
  <1>3. Below(Transit', {e})
    BY <1>1 DEF Newest, Below, MayFollow
  <1>4. (Past(ev[p]))' <=> Past(e)'
    BY <1>1 DEF Past
  <1>5. Below(Transit', {ev'[p]})
    BY <1>1, <1>3
  <1> QED BY <1>2, <1>4, <1>5 DEF Newest, Below, MayFollow

\* A number that is just taken is behind all that was sent.
LEMMA FreshIsNewest ==
  ASSUME TablesOK, TablesOK', \A t \in Transit : t \in Events /\ Past(t),
         NEW e \in Events, e.ordered => e.gen = gen /\ e.n = counter + 1,
         TakeNumber, gen' = gen
  PROVE  Past(e)' /\ Below(Transit, {e})
  <1>1. counter \in Nat /\ gen \in Nat /\ counter' = counter + 1
    BY DEF TablesOK, TakeNumber
  <1>2. Past(e)'
    BY <1>1 DEF Past
  <1>3. ASSUME NEW t \in Transit
        PROVE  MayFollow(t, e)
    <2>1. t.n \in Nat /\ t.gen \in Nat /\ (t.ordered => t.gen < gen \/ (t.gen = gen /\ t.n <= counter))
      BY <1>3 DEF Past, Events
    <2> QED BY <1>1, <2>1 DEF MayFollow
  <1> QED BY <1>2, <1>3 DEF Below

LEMMA TransitType ==
  ASSUME RoutingOK
  PROVE  /\ Contents(bcast) \subseteq Events /\ Transit \subseteq Events
         /\ \A c \in Conns : /\ conn[c].out \in Seq(Events) /\ conn[c].box \in Seq(Events)
                             /\ Near(c) \subseteq Events /\ Near(c) \subseteq Transit
                             /\ Contents(conn[c].out) \subseteq Events
                             /\ Contents(conn[c].box) \subseteq Events
                             /\ last[c] \in Events
  <1>1. \A q \in Seq(Events) : Contents(q) \subseteq Events
    BY DEF Contents
  <1>2. bcast \in Seq(Events) /\ \A c \in Conns : conn[c] \in Connections /\ last[c] \in Events
    BY DEF RoutingOK
  <1>3. \A c \in Conns : conn[c].out \in Seq(Events) /\ conn[c].box \in Seq(Events)
    BY <1>2, ConnectionType
  <1>4. \A c \in Conns : Near(c) \subseteq Events /\ Near(c) \subseteq Transit
    BY <1>1, <1>2, <1>3 DEF Near, Transit
  <1>5. Contents(bcast) \subseteq Events
    BY <1>1, <1>2
  <1>6. Transit \subseteq Events
    BY <1>4, <1>5 DEF Transit
  <1> QED BY <1>1, <1>2, <1>3, <1>4, <1>5, <1>6

\* The channel, the buffers and what was received do not change.
LEMMA LinesRest ==
  ASSUME OrderInv, UNCHANGED <<bcast, conn, last>>
  PROVE  Sorted(bcast') /\ (\A c \in Conns : Lined(c)') /\ Transit' = Transit
  <1>1. bcast' = bcast /\ conn' = conn /\ last' = last
    OBVIOUS
  <1>2. Transit' = Transit
    BY <1>1 DEF Transit, Near, Contents
  <1>3. ASSUME NEW c \in Conns
        PROVE  Lined(c)' <=> Lined(c)
    BY <1>1 DEF Lined, Near, Sorted, Below, Contents, MayFollow
  <1>4. \A c \in Conns : Lined(c)'
    BY <1>3 DEF OrderInv
  <1> QED BY <1>1, <1>2, <1>4 DEF OrderInv

\* What an event in hand needs after a quiet step.
StillNewest(p, place) ==
  pc'[p] = place => Newest(p)' \/ (pc[p] = place /\ ev'[p] = ev[p])

Unordered == ~held.ordered /\ \A p \in Procs \ {"forwarder", "sender"} : ~ev[p].ordered

LEMMA OrderQuiet ==
  ASSUME BaseInv, BaseInv', OrderInv, Later, UNCHANGED <<bcast, conn, last>>,
         LockOK', Unordered', StillNewest("forwarder", "send"), StillNewest("sender", "sending")
  PROVE  OrderInv'
  <1>1. TablesOK /\ TablesOK' /\ RoutingOK /\ HandsOK
    BY BaseParts, TypePartsNext DEF BaseInv
  <1>2. Sorted(bcast') /\ (\A c \in Conns : Lined(c)') /\ Transit' = Transit
    BY LinesRest
  <1>3. \A t \in Transit' : Past(t)'
    BY <1>1, <1>2, TransitType, PastStays DEF OrderInv
  <1>4. ev["forwarder"] \in Events /\ ev["sender"] \in Events
    BY <1>1, Names DEF HandsOK
  <1>5. pc'["forwarder"] = "send" => Newest("forwarder")'
    BY <1>1, <1>2, <1>4, Names, NewestStays DEF StillNewest, OrderInv
  <1>6. pc'["sender"] = "sending" => Newest("sender")'
    BY <1>1, <1>2, <1>4, Names, NewestStays DEF StillNewest, OrderInv
  <1>7. (\A e \in Transit : Past(e))'
    BY <1>3
  <1>8. (Sorted(bcast))'
    BY <1>2 DEF Sorted, MayFollow
  <1> QED BY <1>2, <1>5, <1>6, <1>7, <1>8, Zenon DEF OrderInv, Unordered

\* An event that was not numbered under the order lock fits anywhere.
LEMMA UnorderedFits ==
  ASSUME NEW e, ~e.ordered
  PROVE  Past(e) /\ Past(e)' /\ Below(Transit, {e})
  BY DEF Past, Below, MayFollow

\* What goes into the channel is behind everything under way.
LEMMA OrderSends ==
  ASSUME BaseInv, BaseInv', OrderInv, Later, NEW e \in Events, Enqueue(e),
         UNCHANGED <<conn, last>>, Past(e)', Below(Transit, {e}), LockOK', Unordered',
         pc'["forwarder"] = "send" =>
           ~e.ordered /\ pc["forwarder"] = "send" /\ ev'["forwarder"] = ev["forwarder"],
         pc'["sender"] = "sending" =>
           ~e.ordered /\ pc["sender"] = "sending" /\ ev'["sender"] = ev["sender"]
  PROVE  OrderInv'
  <1>1. TablesOK /\ TablesOK' /\ RoutingOK /\ HandsOK
    BY BaseParts, TypePartsNext DEF BaseInv
  <1>2. CASE bcast' = bcast
    <2>1. UNCHANGED <<bcast, conn, last>>
      BY <1>2
    <2> QED BY <2>1, OrderQuiet DEF StillNewest
  <1>3. CASE bcast' = Append(bcast, e)
    <2>1. bcast \in Seq(Events) /\ Contents(bcast') = Contents(bcast) \cup {e}
      BY <1>1, <1>3, Appended DEF RoutingOK
    <2>2. Contents(bcast) \subseteq Transit
      BY DEF Transit
    <2>3. Sorted(bcast')
      <3>1. Sorted(bcast) /\ Below(Contents(bcast), {e})
        BY <2>2 DEF OrderInv, Below
      <3> QED BY <1>3, <2>1, <3>1, SortedAppend
    <2>4. conn' = conn /\ last' = last
      OBVIOUS
    <2>5. \A c \in Conns : Near(c)' = Near(c)
      BY <2>4 DEF Near, Contents
    <2>6. Transit' = Transit \cup {e}
      <3>1. Transit' = Contents(bcast') \cup UNION {Near(c)' : c \in Conns}
        BY DEF Transit, Contents
      <3> QED BY <2>1, <2>5, <3>1 DEF Transit
    <2>7. \A c \in Conns : Lined(c)'
      <3> SUFFICES ASSUME NEW c \in Conns
                   PROVE  Lined(c)'
        OBVIOUS
      <3>1. Lined(c) /\ Near(c) \subseteq Transit
        BY <1>1, TransitType DEF OrderInv
      <3>2. conn[c].joined => Below(Near(c), Contents(bcast'))
        BY <2>1, <3>1 DEF Lined, Below
      <3>3. /\ (Below(Near(c), Contents(bcast)))' <=> Below(Near(c), Contents(bcast'))
            /\ (Sorted(conn[c].out) /\ Sorted(conn[c].box))' <=> Sorted(conn[c].out) /\ Sorted(conn[c].box)
            /\ (Below({last[c]}, Contents(conn[c].out)))' <=> Below({last[c]}, Contents(conn[c].out))
            /\ (Below({last[c]} \cup Contents(conn[c].out), Contents(conn[c].box)))'
                 <=> Below({last[c]} \cup Contents(conn[c].out), Contents(conn[c].box))
            /\ conn'[c].joined <=> conn[c].joined
            /\ (conn'[c].st = "open" => conn'[c].box = << >>)
                 <=> (conn[c].st = "open" => conn[c].box = << >>)
        BY <2>4, <2>5 DEF Below, Sorted, MayFollow, Contents
      <3> QED BY <3>1, <3>2, <3>3 DEF Lined
    <2>8. \A t \in Transit' : Past(t)'
      <3>1. \A t \in Transit : Past(t)'
        BY <1>1, TransitType, PastStays DEF OrderInv
      <3> QED BY <2>6, <3>1
    <2>9. ev["forwarder"] \in Events /\ ev["sender"] \in Events
      BY <1>1, Names DEF HandsOK
    <2>10. pc'["forwarder"] = "send" => Newest("forwarder")'
      BY <1>1, <2>6, <2>9, Names, NewestStays DEF OrderInv
    <2>11. pc'["sender"] = "sending" => Newest("sender")'
      BY <1>1, <2>6, <2>9, Names, NewestStays DEF OrderInv
    <2>12. (\A t \in Transit : Past(t))'
      BY <2>8
    <2>13. (Sorted(bcast))'
      BY <2>3 DEF Sorted, MayFollow
    <2> QED BY <2>7, <2>10, <2>11, <2>12, <2>13, Zenon DEF OrderInv, Unordered
  <1> QED BY <1>1, <1>2, <1>3, EnqueueFacts

\* Who takes the order lock and who gives it back.
LEMMA ForwarderLock ==
  ASSUME HandsOK, LockOK, NEW w \in Places, Goes("forwarder", w),
         order' = "forwarder" <=> w \in ForwardHolds,
         order' = "sender" <=> order = "sender"
  PROVE  LockOK' /\ pc'["forwarder"] = w /\ pc'["sender"] = pc["sender"]
  BY Moves, Names DEF LockOK, ForwardHolds, SenderHolds

LEMMA SenderLock ==
  ASSUME HandsOK, LockOK, NEW w \in Places, Goes("sender", w),
         order' = "sender" <=> w \in SenderHolds,
         order' = "forwarder" <=> order = "forwarder"
  PROVE  LockOK' /\ pc'["sender"] = w /\ pc'["forwarder"] = pc["forwarder"]
  BY Moves, Names DEF LockOK, ForwardHolds, SenderHolds

\* Someone else.
LEMMA OtherLock ==
  ASSUME HandsOK, LockOK, NEW p \in Procs, p \notin {"forwarder", "sender"}, MovesOnly(p),
         order' = order
  PROVE  LockOK' /\ pc'["forwarder"] = pc["forwarder"] /\ pc'["sender"] = pc["sender"]
  <1>1. pc'["forwarder"] = pc["forwarder"] /\ pc'["sender"] = pc["sender"]
    BY Moves, Names DEF MovesOnly
  <1> QED BY <1>1 DEF LockOK, ForwardHolds, SenderHolds

\* Whoever takes no part in the order.
LEMMA Bystander ==
  ASSUME BaseInv, BaseInv', OrderInv, Later, NEW p \in Procs, p \notin {"forwarder", "sender"},
         MovesOnly(p), UNCHANGED <<order, held>>,
         UNCHANGED ev \/ (\E e \in Events : ~e.ordered /\ ev' = [ev EXCEPT ![p] = e]),
         UNCHANGED <<bcast, conn, last>>
           \/ (UNCHANGED <<conn, last>> /\ \E e \in Events : ~e.ordered /\ Enqueue(e))
  PROVE  OrderInv'
  <1>1. HandsOK
    BY BaseParts
  <1>2. LockOK' /\ pc'["forwarder"] = pc["forwarder"] /\ pc'["sender"] = pc["sender"]
    BY <1>1, OtherLock DEF OrderInv
  <1>3. /\ ev'["forwarder"] = ev["forwarder"] /\ ev'["sender"] = ev["sender"]
        /\ \A q \in Procs \ {"forwarder", "sender"} : ~ev'[q].ordered
    <2>1. CASE UNCHANGED ev
      BY <2>1 DEF OrderInv
    <2>2. CASE \E e \in Events : ~e.ordered /\ ev' = [ev EXCEPT ![p] = e]
      BY <1>1, <2>2, Takes, Names DEF OrderInv
    <2> QED BY <2>1, <2>2
  <1>4. Unordered'
    BY <1>3 DEF Unordered, OrderInv
  <1>5. CASE UNCHANGED <<bcast, conn, last>>
    BY <1>2, <1>3, <1>4, <1>5, OrderQuiet DEF StillNewest
  <1>6. CASE UNCHANGED <<conn, last>> /\ \E e \in Events : ~e.ordered /\ Enqueue(e)
    BY <1>2, <1>3, <1>4, <1>6, OrderSends, UnorderedFits
  <1> QED BY <1>5, <1>6

\* Whoever is behind the barrier, or waits for it.
LEMMA BehindBarrier ==
  ASSUME BaseInv, BaseInv', OrderInv, Later, NEW p \in Procs, NEW w \in Places, Goes(p, w),
         pc[p] \notin ForwardHolds \cup SenderHolds, w \notin ForwardHolds \cup SenderHolds,
         UNCHANGED <<order, held, ev, bcast, conn, last>>
  PROVE  OrderInv'
  <1>1. HandsOK
    BY BaseParts
  <1>2. pc'[p] = w /\ \A q \in Procs : q # p => pc'[q] = pc[q]
    BY <1>1, Moves
  <1>3. "forwarder" \in Procs /\ "sender" \in Procs
    BY Names
  <1>4. LockOK'
    BY <1>2, <1>3 DEF OrderInv, LockOK, ForwardHolds, SenderHolds
  <1>5. StillNewest("forwarder", "send") /\ StillNewest("sender", "sending")
    BY <1>2, <1>3 DEF StillNewest, ForwardHolds, SenderHolds
  <1>6. Unordered'
    BY DEF Unordered, OrderInv
  <1> QED BY <1>4, <1>5, <1>6, OrderQuiet

LEMMA LaterCases ==
  ASSUME BaseInv
  PROVE  /\ UNCHANGED <<counter, gen>> => Later
         /\ UNCHANGED tables => Later
         /\ TakeNumber /\ gen' = gen => Later
  BY BaseParts DEF Later, TablesOK, TakeNumber, tables

LEMMA UnorderedNumber ==
  ASSUME BaseInv, NEW kind \in {"plain", "done"}
  PROVE  /\ Number(kind, FALSE, FALSE) \in Events /\ ~Number(kind, FALSE, FALSE).ordered
         /\ NoEvent \in Events /\ ~NoEvent.ordered
  BY BaseParts, NumberType, NoEventType, OldNumbers DEF Kinds

LEMMA BystanderSteps ==
  ASSUME BaseInv, BaseInv', OrderInv,
         NotifyNumber \/ NotifyEnqueue \/ ReadNumber \/ CaptureInbound \/ Delete
           \/ NoticeNumber \/ NoticeEnqueue
  PROVE  OrderInv'
  <1>1. /\ "notifier" \in Procs /\ "inbound" \in Procs /\ "deleter" \in Procs
        /\ "notifier" \notin {"forwarder", "sender"} /\ "inbound" \notin {"forwarder", "sender"}
        /\ "deleter" \notin {"forwarder", "sender"}
    BY Names
  <1>2. \A q \in {"notifier", "inbound", "deleter"} : ev[q] \in Events /\ ~ev[q].ordered
    BY <1>1, BaseParts DEF OrderInv, HandsOK
  <1>3. /\ Number("plain", FALSE, FALSE) \in Events /\ ~Number("plain", FALSE, FALSE).ordered
        /\ NoEvent \in Events /\ ~NoEvent.ordered
    BY UnorderedNumber
  <1>4. CASE NotifyNumber
    <2>1. Later /\ MovesOnly("notifier") /\ UNCHANGED <<order, held>>
          /\ UNCHANGED <<bcast, conn, last>>
          /\ ev' = [ev EXCEPT !["notifier"] = Number("plain", FALSE, FALSE)]
      BY <1>4, LaterCases, AllPlaces DEF NotifyNumber, MovesOnly, routing
    <2> QED BY <1>1, <1>3, <2>1, Bystander
  <1>5. CASE NotifyEnqueue
    <2>1. Later /\ MovesOnly("notifier") /\ UNCHANGED <<order, held>>
          /\ UNCHANGED <<conn, last>> /\ Enqueue(ev["notifier"])
          /\ ev' = [ev EXCEPT !["notifier"] = NoEvent]
      BY <1>5, LaterCases, AllPlaces DEF NotifyEnqueue, MovesOnly
    <2> QED BY <1>1, <1>2, <1>3, <2>1, Bystander
  <1>6. CASE ReadNumber
    <2>1. Later /\ MovesOnly("inbound") /\ UNCHANGED <<order, held>>
          /\ UNCHANGED <<bcast, conn, last>>
          /\ ev' = [ev EXCEPT !["inbound"] = Number("plain", FALSE, FALSE)]
      BY <1>6, LaterCases, AllPlaces DEF ReadNumber, MovesOnly, routing
    <2> QED BY <1>1, <1>3, <2>1, Bystander
  <1>7. CASE CaptureInbound
    <2>1. Later /\ MovesOnly("inbound") /\ UNCHANGED <<order, held>>
          /\ UNCHANGED <<bcast, conn, last>>
          /\ ev' = [ev EXCEPT !["inbound"] = NoEvent]
      BY <1>7, LaterCases, AllPlaces DEF CaptureInbound, MovesOnly, routing
    <2> QED BY <1>1, <1>3, <2>1, Bystander
  <1>8. CASE Delete
    <2>1. Later /\ MovesOnly("deleter") /\ UNCHANGED <<order, held>>
          /\ UNCHANGED <<bcast, conn, last>> /\ UNCHANGED ev
      BY <1>8, LaterCases, AllPlaces DEF Delete, MovesOnly, routing
    <2> QED BY <1>1, <2>1, Bystander
  <1>9. CASE NoticeNumber
    <2>1. Later /\ MovesOnly("deleter") /\ UNCHANGED <<order, held>>
          /\ UNCHANGED <<bcast, conn, last>>
          /\ ev' = [ev EXCEPT !["deleter"] = Number("plain", FALSE, FALSE)]
      BY <1>9, LaterCases, AllPlaces DEF NoticeNumber, MovesOnly, routing
    <2> QED BY <1>1, <1>3, <2>1, Bystander
  <1>10. CASE NoticeEnqueue
    <2>1. Later /\ MovesOnly("deleter") /\ UNCHANGED <<order, held>>
          /\ UNCHANGED <<conn, last>> /\ Enqueue(ev["deleter"])
          /\ ev' = [ev EXCEPT !["deleter"] = NoEvent]
      BY <1>10, LaterCases, AllPlaces DEF NoticeEnqueue, MovesOnly
    <2> QED BY <1>1, <1>2, <1>3, <2>1, Bystander
  <1> QED BY <1>4, <1>5, <1>6, <1>7, <1>8, <1>9, <1>10

\* The collector's own steps, and none.
LEMMA OrderRests ==
  ASSUME BaseInv, BaseInv', OrderInv,
         Write \/ FlushTimedOutAccumulators \/ UNCHANGED vars
  PROVE  OrderInv'
  <1>1. /\ UNCHANGED tables /\ UNCHANGED <<pc, ev, held, order>> /\ UNCHANGED <<bcast, conn, last>>
    BY DEF Write, FlushTimedOutAccumulators, vars, routing
  <1>2. MovesOnly("deleter") /\ "deleter" \in Procs /\ "deleter" \notin {"forwarder", "sender"}
    BY <1>1, Names DEF MovesOnly
  <1> QED BY <1>1, <1>2, LaterCases, Bystander

LEMMA BarrierSteps ==
  ASSUME BaseInv, BaseInv', OrderInv, NEW p \in Procs, Announce(p) \/ ReleaseSeq(p)
  PROVE  OrderInv'
  <1>1. /\ pc[p] \in {"wait", "lock"} /\ UNCHANGED <<order, held, ev>> /\ UNCHANGED <<bcast, conn, last>>
    BY DEF Announce, ReleaseSeq, Locked, routing
  <1>2. \E w \in {"lock", "create", "failed", "idle"} : Goes(p, w)
    BY DEF Announce, ReleaseSeq, AfterRelease
  <1>3. Later
    <2>1. CASE Announce(p)
      BY <2>1, LaterCases DEF Announce
    <2>2. CASE ReleaseSeq(p)
      <3>1. gen \in Nat /\ (gen' = gen + 1 \/ UNCHANGED <<counter, gen>>)
        BY <2>2, BaseParts DEF ReleaseSeq, TablesOK
      <3> QED BY <3>1, LaterCases DEF Later
    <2> QED BY <2>1, <2>2
  <1>4. PICK w \in {"lock", "create", "failed", "idle"} : Goes(p, w)
    BY <1>2
  <1>5. /\ w \in Places /\ w \notin ForwardHolds \cup SenderHolds
        /\ pc[p] \notin ForwardHolds \cup SenderHolds
    BY <1>1, AllPlaces DEF ForwardHolds, SenderHolds
  <1> QED BY <1>1, <1>3, <1>4, <1>5, BehindBarrier

LEMMA ArrivalSteps ==
  ASSUME BaseInv, BaseInv', OrderInv, NEW c \in Conns,
         CreateSession(c) \/ EnsureSeqHydrated(c) \/ StartWorker(c)
  PROVE  OrderInv'
  <1>1. c \in Procs /\ UNCHANGED <<order, held, ev>> /\ UNCHANGED <<bcast, conn, last>>
    BY Names DEF CreateSession, EnsureSeqHydrated, StartWorker, routing
  <1>2. /\ pc[c] \in {"create", "lock", "start"}
        /\ \E w \in {"wait", "start", "failed", "ack"} : Goes(c, w)
    BY DEF CreateSession, EnsureSeqHydrated, StartWorker, Locked
  <1>3. Later
    <2>1. CASE CreateSession(c) \/ StartWorker(c)
      BY <2>1, LaterCases DEF CreateSession, StartWorker
    <2>2. CASE EnsureSeqHydrated(c)
      <3>1. gen' = gen /\ (UNCHANGED counter \/ (FlushSession /\ counter' = Raised(LatestSeq(stored'))))
        BY <2>2 DEF EnsureSeqHydrated
      <3>2. CASE UNCHANGED counter
        BY <3>1, <3>2, LaterCases
      <3>3. CASE FlushSession /\ counter' = Raised(LatestSeq(stored'))
        <4>1. counter \in Nat /\ LatestSeq(stored') \in Nat
          BY <3>3, BaseParts, HydrationReads DEF TablesOK
        <4> QED BY <3>1, <3>3, <4>1 DEF Raised, Later
      <3> QED BY <3>1, <3>2, <3>3
    <2> QED BY <2>1, <2>2
  <1>4. PICK w \in {"wait", "start", "failed", "ack"} : Goes(c, w)
    BY <1>2
  <1>5. /\ w \in Places /\ w \notin ForwardHolds \cup SenderHolds
        /\ pc[c] \notin ForwardHolds \cup SenderHolds
    BY <1>2, AllPlaces DEF ForwardHolds, SenderHolds
  <1> QED BY <1>1, <1>3, <1>4, <1>5, BehindBarrier

\* A producer under the order lock changes no hand but its own.
LEMMA OwnHand ==
  ASSUME BaseInv, OrderInv, NEW p \in {"forwarder", "sender"},
         UNCHANGED ev \/ (\E e \in Events : ev' = [ev EXCEPT ![p] = e]), ~held'.ordered
  PROVE  Unordered' /\ \A q \in {"forwarder", "sender"} : q # p => ev'[q] = ev[q]
  <1>1. HandsOK /\ p \in Procs
    BY BaseParts, Names
  <1>2. \A q \in Procs : q # p => ev'[q] = ev[q]
    BY <1>1, Takes
  <1>3. \A q \in Procs \ {"forwarder", "sender"} : ~ev'[q].ordered
    BY <1>2 DEF OrderInv
  <1> QED BY <1>2, <1>3, Names DEF Unordered

\* A step of the forwarder that sends nothing.
LEMMA ForwarderQuiet ==
  ASSUME BaseInv, BaseInv', OrderInv, Later, UNCHANGED <<bcast, conn, last>>,
         NEW w \in Places \ {"send"}, Goes("forwarder", w),
         UNCHANGED ev \/ (\E e \in Events : ev' = [ev EXCEPT !["forwarder"] = e]), ~held'.ordered,
         order' = "forwarder" <=> w \in ForwardHolds,
         order' = "sender" <=> order = "sender"
  PROVE  OrderInv'
  <1>1. HandsOK
    BY BaseParts
  <1>2. LockOK' /\ pc'["forwarder"] = w /\ pc'["sender"] = pc["sender"]
    BY <1>1, ForwarderLock DEF OrderInv
  <1>3. Unordered' /\ ev'["sender"] = ev["sender"]
    BY OwnHand
  <1> QED BY <1>2, <1>3, OrderQuiet DEF StillNewest

LEMMA SenderQuiet ==
  ASSUME BaseInv, BaseInv', OrderInv, Later, UNCHANGED <<bcast, conn, last>>,
         NEW w \in Places \ {"sending"}, Goes("sender", w),
         UNCHANGED ev \/ (\E e \in Events : ev' = [ev EXCEPT !["sender"] = e]), UNCHANGED held,
         order' = "sender" <=> w \in SenderHolds,
         order' = "forwarder" <=> order = "forwarder"
  PROVE  OrderInv'
  <1>1. HandsOK
    BY BaseParts
  <1>2. LockOK' /\ pc'["sender"] = w /\ pc'["forwarder"] = pc["forwarder"]
    BY <1>1, SenderLock DEF OrderInv
  <1>3. Unordered' /\ ev'["forwarder"] = ev["forwarder"]
    BY OwnHand DEF OrderInv
  <1> QED BY <1>2, <1>3, OrderQuiet DEF StillNewest

\* What the order lock says at a place.
LEMMA LockAt ==
  ASSUME OrderInv
  PROVE  /\ pc["forwarder"] \in ForwardHolds => order = "forwarder" /\ pc["sender"] \notin SenderHolds
         /\ pc["forwarder"] \notin ForwardHolds => order # "forwarder"
         /\ pc["sender"] \in SenderHolds => order = "sender" /\ pc["forwarder"] \notin ForwardHolds
         /\ pc["sender"] \notin SenderHolds => order # "sender"
  BY DEF OrderInv, LockOK

LEMMA ForwardQuietSteps ==
  ASSUME BaseInv, BaseInv', OrderInv,
         ForwardBegin \/ ForwardAwait \/ ForwardCapture \/ ForwardHeldCapture \/ ForwardHidden
           \/ WorkerEnds
  PROVE  OrderInv'
  <1>1. ~held.ordered /\ ~NoEvent.ordered /\ NoEvent \in Events
    BY NoEventType DEF OrderInv
  <1>2. CASE ForwardBegin
    <2>1. /\ Later /\ UNCHANGED <<bcast, conn, last>> /\ Goes("forwarder", "pinned")
          /\ UNCHANGED <<ev, held, order>> /\ pc["forwarder"] = "idle"
      BY <1>2, LaterCases DEF ForwardBegin, routing
    <2>2. order # "forwarder" /\ "pinned" \notin ForwardHolds /\ "pinned" \in Places \ {"send"}
      BY <2>1, LockAt, AllPlaces DEF ForwardHolds
    <2> QED BY <1>1, <2>1, <2>2, ForwarderQuiet
  <1>3. CASE ForwardAwait
    <2>1. /\ Later /\ UNCHANGED <<bcast, conn, last>> /\ Goes("forwarder", "capture")
          /\ UNCHANGED <<ev, held, order>> /\ pc["forwarder"] = "await"
      BY <1>3, LaterCases DEF ForwardAwait, routing
    <2>2. order = "forwarder" /\ "capture" \in ForwardHolds /\ "capture" \in Places \ {"send"}
      BY <2>1, LockAt, AllPlaces DEF ForwardHolds
    <2> QED BY <1>1, <2>1, <2>2, ForwarderQuiet
  <1>4. CASE ForwardCapture
    <2>1. /\ Later /\ UNCHANGED <<bcast, conn, last>> /\ pc["forwarder"] = "capture"
          /\ ev' = [ev EXCEPT !["forwarder"] = NoEvent] /\ held' \in {held, NoEvent}
          /\ \/ Goes("forwarder", "fact") /\ order' = order
             \/ Goes("forwarder", "held") /\ order' = order
             \/ Goes("forwarder", "idle") /\ order' = "none"
      BY <1>4, LaterCases DEF ForwardCapture, routing
    <2>2. /\ order = "forwarder" /\ "fact" \in ForwardHolds /\ "held" \in ForwardHolds
          /\ "idle" \notin ForwardHolds /\ {"fact", "held", "idle"} \subseteq Places \ {"send"}
      BY <2>1, LockAt, AllPlaces DEF ForwardHolds
    <2> QED BY <1>1, <2>1, <2>2, ForwarderQuiet
  <1>5. CASE ForwardHeldCapture
    <2>1. /\ Later /\ UNCHANGED <<bcast, conn, last>> /\ UNCHANGED ev /\ held' = NoEvent
          /\ \/ pc["forwarder"] = "heldwait" /\ Goes("forwarder", "idle") /\ order' = "none"
             \/ pc["forwarder"] = "hiddenwait" /\ Goes("forwarder", "last") /\ order' = order
             \/ pc["forwarder"] = "exitwait" /\ Goes("forwarder", "idle") /\ order' = order
      BY <1>5, LaterCases DEF ForwardHeldCapture, routing
    <2>2. /\ pc["forwarder"] \in {"heldwait", "hiddenwait"} => order = "forwarder"
          /\ pc["forwarder"] = "exitwait" => order # "forwarder"
          /\ "last" \in ForwardHolds
          /\ "idle" \notin ForwardHolds /\ {"last", "idle"} \subseteq Places \ {"send"}
      BY LockAt, AllPlaces DEF ForwardHolds
    <2> QED BY <1>1, <2>1, <2>2, ForwarderQuiet
  <1>6. CASE ForwardHidden
    <2>1. /\ Later /\ UNCHANGED <<bcast, conn, last>> /\ Goes("forwarder", "fact")
          /\ UNCHANGED <<ev, held, order>> /\ pc["forwarder"] = "last"
      BY <1>6, LaterCases DEF ForwardHidden, routing
    <2>2. order = "forwarder" /\ "fact" \in ForwardHolds /\ "fact" \in Places \ {"send"}
      BY <2>1, LockAt, AllPlaces DEF ForwardHolds
    <2> QED BY <1>1, <2>1, <2>2, ForwarderQuiet
  <1>7. CASE WorkerEnds
    <2>1. /\ Later /\ UNCHANGED <<bcast, conn, last>> /\ UNCHANGED <<ev, order>>
          /\ pc["forwarder"] = "idle" /\ held' \in {held, NoEvent}
          /\ UNCHANGED pc \/ Goes("forwarder", "exit")
      BY <1>7, LaterCases DEF WorkerEnds, routing
    <2>2. order # "forwarder" /\ "exit" \notin ForwardHolds /\ "exit" \in Places \ {"send"}
      BY <2>1, LockAt, AllPlaces DEF ForwardHolds
    <2>3. CASE Goes("forwarder", "exit")
      BY <1>1, <2>1, <2>2, <2>3, ForwarderQuiet
    <2>4. CASE UNCHANGED pc
      <3>1. LockOK' /\ Unordered'
        BY <1>1, <2>1, <2>4 DEF OrderInv, LockOK, Unordered
      <3> QED BY <2>1, <2>4, <3>1, OrderQuiet DEF StillNewest
    <2> QED BY <2>1, <2>3, <2>4
  <1> QED BY <1>2, <1>3, <1>4, <1>5, <1>6, <1>7

LEMMA ForwardNumberOrder ==
  ASSUME BaseInv, BaseInv', OrderInv, ForwardNumber
  PROVE  OrderInv'
  <1>1. /\ pc["forwarder"] = "pinned" /\ order = "none" /\ gen' = gen
        /\ UNCHANGED <<bcast, conn, last>>
    BY DEF ForwardNumber, OrderFree, routing
  <1>2. ~held.ordered /\ ~NoEvent.ordered /\ ~Number("done", FALSE, FALSE).ordered
    BY NoEventType, UnorderedNumber DEF OrderInv
  <1>3. ASSUME NEW kind \in Kinds, TakeNumber,
               ev' = [ev EXCEPT !["forwarder"] = Number(kind, TRUE, TRUE)],
               order' = "forwarder", Goes("forwarder", "send"), UNCHANGED held
        PROVE  OrderInv'
    <2>1. TablesOK /\ TablesOK' /\ RoutingOK /\ HandsOK
      BY BaseParts, TypePartsNext DEF BaseInv
    <2>2. PICK e \in Events : e = Number(kind, TRUE, TRUE) /\ e.gen = gen /\ e.n = counter + 1
      BY <2>1, NumberType
    <2>3. \A t \in Transit : t \in Events /\ Past(t)
      BY <2>1, TransitType DEF OrderInv
    <2>4. Past(e)' /\ Below(Transit, {e})
      BY <1>1, <1>3, <2>1, <2>2, <2>3, FreshIsNewest
    <2>5. Transit' = Transit
      BY <1>1, LinesRest
    <2>6. ev'["forwarder"] = e
      BY <1>3, <2>1, <2>2, Takes, Names
    <2>7. Newest("forwarder")'
      <3>1. Past(e)' <=> (Past(ev["forwarder"]))'
        BY <2>6 DEF Past
      <3>2. Below(Transit', {ev'["forwarder"]})
        BY <2>4, <2>5, <2>6
      <3>3. (Below(Transit, {ev["forwarder"]}))' <=> Below(Transit', {ev'["forwarder"]})
        BY DEF Below, MayFollow
      <3> QED BY <2>4, <3>1, <3>2, <3>3 DEF Newest
    <2>8. "send" \in Places /\ "send" \in ForwardHolds
      BY AllPlaces DEF ForwardHolds
    <2>9. LockOK' /\ pc'["forwarder"] = "send" /\ pc'["sender"] = pc["sender"]
      BY <1>1, <1>3, <2>1, <2>8, ForwarderLock DEF OrderInv
    <2>10. Unordered' /\ ev'["sender"] = ev["sender"]
      BY <1>2, <1>3, <2>2, OwnHand
    <2>11. Later
      BY <1>1, <1>3, LaterCases
    <2> QED BY <1>1, <2>7, <2>9, <2>10, <2>11, OrderQuiet DEF StillNewest
  <1>4. ASSUME TakeNumber \/ UNCHANGED counter, held' \in {held, NoEvent, Number("done", FALSE, FALSE)},
               Goes("forwarder", "idle"), UNCHANGED <<ev, order>>
        PROVE  OrderInv'
    <2>1. Later /\ "idle" \in Places \ {"send"} /\ "idle" \notin ForwardHolds
      BY <1>1, <1>4, LaterCases, AllPlaces DEF ForwardHolds
    <2> QED BY <1>1, <1>2, <1>4, <2>1, ForwarderQuiet
  <1>5. ASSUME order' = "forwarder", Goes("forwarder", "hidden"), UNCHANGED <<ev, held, counter>>
        PROVE  OrderInv'
    <2>1. Later /\ "hidden" \in Places \ {"send"} /\ "hidden" \in ForwardHolds
      BY <1>1, <1>5, LaterCases, AllPlaces DEF ForwardHolds
    <2> QED BY <1>1, <1>2, <1>5, <2>1, ForwarderQuiet
  <1> QED BY <1>3, <1>4, <1>5 DEF ForwardNumber

LEMMA ForwardSendOrder ==
  ASSUME BaseInv, BaseInv', OrderInv, ForwardSend \/ ForwardHeld
  PROVE  OrderInv'
  <1>1. /\ Later /\ UNCHANGED <<conn, last>> /\ UNCHANGED <<ev, held, order>>
    BY LaterCases DEF ForwardSend, ForwardHeld
  <1>2. HandsOK /\ Unordered' /\ ev'["sender"] = ev["sender"]
    BY <1>1, BaseParts DEF OrderInv, Unordered
  <1>3. CASE ForwardSend
    <2>1. PICK e \in Events : e = ev["forwarder"]
      BY <1>2, Names DEF HandsOK
    <2>2. /\ pc["forwarder"] = "send" /\ Enqueue(e)
          /\ \E w \in {"await", "capture"} : Goes("forwarder", w)
      BY <1>3, <2>1 DEF ForwardSend
    <2>3. PICK w \in {"await", "capture"} : Goes("forwarder", w)
      BY <2>2
    <2>4. /\ order = "forwarder" /\ pc["sender"] # "sending"
          /\ w \in Places /\ w # "send" /\ w \in ForwardHolds
      BY <2>2, LockAt, AllPlaces DEF ForwardHolds, SenderHolds
    <2>5. LockOK' /\ pc'["forwarder"] = w /\ pc'["sender"] = pc["sender"]
      BY <1>1, <1>2, <2>3, <2>4, ForwarderLock DEF OrderInv
    <2>6. Past(e) /\ Below(Transit, {e})
      BY <2>1, <2>2 DEF OrderInv, Newest
    <2>7. Past(e)'
      BY <1>1, <2>6, BaseParts, TypePartsNext, PastStays DEF BaseInv
    <2> QED BY <1>1, <1>2, <2>2, <2>4, <2>5, <2>6, <2>7, OrderSends
  <1>4. CASE ForwardHeld
    <2>1. PICK e \in Events : e = held
      BY <1>2 DEF HandsOK
    <2>2. /\ Enqueue(e) /\ ~e.ordered
          /\ \/ pc["forwarder"] = "held" /\ Goes("forwarder", "heldwait")
             \/ pc["forwarder"] = "hidden" /\ Goes("forwarder", "hiddenwait")
             \/ pc["forwarder"] = "exit" /\ Goes("forwarder", "exitwait")
      BY <1>4, <2>1 DEF ForwardHeld, Routing, OrderInv
    <2>3. PICK w \in {"heldwait", "hiddenwait", "exitwait"} :
            /\ Goes("forwarder", w)
            /\ pc["forwarder"] \in ForwardHolds <=> w \in ForwardHolds
      BY <2>2 DEF ForwardHolds
    <2>4. w \in Places /\ w # "send" /\ (order = "forwarder" <=> w \in ForwardHolds)
      BY <2>3, LockAt, AllPlaces
    <2>5. LockOK' /\ pc'["forwarder"] = w /\ pc'["sender"] = pc["sender"]
      BY <1>1, <1>2, <2>3, <2>4, ForwarderLock DEF OrderInv
    <2>6. Past(e)' /\ Below(Transit, {e})
      BY <2>2, UnorderedFits
    <2> QED BY <1>1, <1>2, <2>2, <2>4, <2>5, <2>6, OrderSends
  <1> QED BY <1>3, <1>4

LEMMA ForwardFactOrder ==
  ASSUME BaseInv, BaseInv', OrderInv, ForwardFact
  PROVE  OrderInv'
  <1>1. /\ UNCHANGED <<conn, last>> /\ UNCHANGED <<ev, held>> /\ gen' = gen /\ order' = "none"
        /\ pc["forwarder"] = "fact" /\ Goes("forwarder", "idle")
    BY DEF ForwardFact
  <1>2. /\ order = "forwarder" /\ pc["sender"] # "sending"
        /\ "idle" \in Places \ {"send"} /\ "idle" \notin ForwardHolds
    BY <1>1, LockAt, AllPlaces DEF ForwardHolds, SenderHolds
  <1>3. HandsOK /\ Unordered'
    BY <1>1, BaseParts DEF OrderInv, Unordered
  <1>4. LockOK' /\ pc'["forwarder"] = "idle" /\ pc'["sender"] = pc["sender"]
    BY <1>1, <1>2, <1>3, ForwarderLock DEF OrderInv
  <1>5. CASE TakeNumber /\ Enqueue(Number("plain", TRUE, FALSE))
    <2>1. TablesOK /\ TablesOK' /\ RoutingOK
      BY BaseParts, TypePartsNext DEF BaseInv
    <2>2. PICK e \in Events : e = Number("plain", TRUE, FALSE) /\ e.gen = gen /\ e.n = counter + 1
      BY <2>1, NumberType DEF Kinds
    <2>3. \A t \in Transit : t \in Events /\ Past(t)
      BY <2>1, TransitType DEF OrderInv
    <2>4. Past(e)' /\ Below(Transit, {e})
      BY <1>1, <1>5, <2>1, <2>2, <2>3, FreshIsNewest
    <2>5. Later /\ Enqueue(e)
      BY <1>1, <1>5, <2>2, LaterCases
    <2> QED BY <1>1, <1>2, <1>3, <1>4, <2>4, <2>5, OrderSends
  <1>6. CASE UNCHANGED <<counter, bcast, due>>
    <2>1. Later /\ UNCHANGED <<bcast, conn, last>>
      BY <1>1, <1>6, LaterCases
    <2> QED BY <1>1, <1>2, <1>3, <1>4, <2>1, OrderQuiet DEF StillNewest
  <1> QED BY <1>5, <1>6 DEF ForwardFact

LEMMA SendLockOrder ==
  ASSUME BaseInv, BaseInv', OrderInv, SendLock \/ SendAwait
  PROVE  OrderInv'
  <1>1. /\ Later /\ UNCHANGED <<bcast, conn, last>> /\ UNCHANGED held
        /\ UNCHANGED ev \/ ev' = [ev EXCEPT !["sender"] = NoEvent]
        /\ \/ order = "none" /\ Goes("sender", "numbering") /\ order' = "sender"
           \/ pc["sender"] = "waiting" /\ Goes("sender", "idle") /\ order' = "none"
    BY LaterCases DEF SendLock, SendAwait, routing, OrderFree
  <1>2. /\ pc["sender"] = "waiting" => order = "sender"
        /\ "numbering" \in SenderHolds /\ "idle" \notin SenderHolds
        /\ {"numbering", "idle"} \subseteq Places \ {"sending"}
    BY LockAt, AllPlaces DEF SenderHolds
  <1>3. NoEvent \in Events
    BY NoEventType
  <1> QED BY <1>1, <1>2, <1>3, SenderQuiet

LEMMA SendNumberOrder ==
  ASSUME BaseInv, BaseInv', OrderInv, SendNumber
  PROVE  OrderInv'
  <1>1. /\ pc["sender"] = "numbering" /\ gen' = gen
        /\ UNCHANGED <<bcast, conn, last>> /\ UNCHANGED held
    BY DEF SendNumber, routing
  <1>2. order = "sender"
    BY <1>1, LockAt DEF SenderHolds
  <1>3. ASSUME NEW kind \in {"plain", "done"}, TakeNumber,
               ev' = [ev EXCEPT !["sender"] = Number(kind, TRUE, FALSE)],
               UNCHANGED order, Goes("sender", "sending")
        PROVE  OrderInv'
    <2>1. TablesOK /\ TablesOK' /\ RoutingOK /\ HandsOK
      BY BaseParts, TypePartsNext DEF BaseInv
    <2>2. PICK e \in Events : e = Number(kind, TRUE, FALSE) /\ e.gen = gen /\ e.n = counter + 1
      BY <2>1, NumberType DEF Kinds
    <2>3. \A t \in Transit : t \in Events /\ Past(t)
      BY <2>1, TransitType DEF OrderInv
    <2>4. Past(e)' /\ Below(Transit, {e})
      BY <1>1, <1>3, <2>1, <2>2, <2>3, FreshIsNewest
    <2>5. Transit' = Transit
      BY <1>1, LinesRest
    <2>6. ev'["sender"] = e
      BY <1>3, <2>1, <2>2, Takes, Names
    <2>7. Newest("sender")'
      <3>1. Past(e)' <=> (Past(ev["sender"]))'
        BY <2>6 DEF Past
      <3>2. Below(Transit', {ev'["sender"]})
        BY <2>4, <2>5, <2>6
      <3>3. (Below(Transit, {ev["sender"]}))' <=> Below(Transit', {ev'["sender"]})
        BY DEF Below, MayFollow
      <3> QED BY <2>4, <3>1, <3>2, <3>3 DEF Newest
    <2>8. "sending" \in Places /\ "sending" \in SenderHolds
      BY AllPlaces DEF SenderHolds
    <2>9. LockOK' /\ pc'["sender"] = "sending" /\ pc'["forwarder"] = pc["forwarder"]
      BY <1>2, <1>3, <2>1, <2>8, SenderLock DEF OrderInv
    <2>10. Unordered' /\ ev'["forwarder"] = ev["forwarder"]
      BY <1>1, <1>3, <2>2, OwnHand DEF OrderInv
    <2>11. Later
      BY <1>1, <1>3, LaterCases
    <2> QED BY <1>1, <2>7, <2>9, <2>10, <2>11, OrderQuiet DEF StillNewest
  <1>4. ASSUME Goes("sender", "idle"), order' = "none", UNCHANGED <<counter, ev>>
        PROVE  OrderInv'
    <2>1. Later /\ "idle" \in Places \ {"sending"} /\ "idle" \notin SenderHolds
      BY <1>1, <1>4, LaterCases, AllPlaces DEF SenderHolds
    <2> QED BY <1>1, <1>2, <1>4, <2>1, SenderQuiet
  <1> QED BY <1>3, <1>4 DEF SendNumber

LEMMA SendEnqueueOrder ==
  ASSUME BaseInv, BaseInv', OrderInv, SendEnqueue
  PROVE  OrderInv'
  <1>1. /\ Later /\ UNCHANGED <<conn, last>> /\ UNCHANGED held /\ pc["sender"] = "sending"
        /\ \/ Goes("sender", "waiting") /\ UNCHANGED <<ev, order>>
           \/ Goes("sender", "idle") /\ order' = "none" /\ ev' = [ev EXCEPT !["sender"] = NoEvent]
    BY LaterCases DEF SendEnqueue
  <1>2. HandsOK /\ NoEvent \in Events
    BY BaseParts, NoEventType
  <1>3. PICK e \in Events : e = ev["sender"] /\ Enqueue(e)
    BY <1>2, Names DEF SendEnqueue, HandsOK
  <1>4. PICK w \in {"waiting", "idle"} : Goes("sender", w) /\ (order' = IF w = "idle" THEN "none" ELSE order)
    BY <1>1
  <1>5. /\ order = "sender" /\ pc["forwarder"] # "send"
        /\ w \in Places /\ w # "sending" /\ (order' = "sender" <=> w \in SenderHolds)
        /\ order' # "forwarder"
    BY <1>1, <1>4, LockAt, AllPlaces DEF SenderHolds, ForwardHolds
  <1>6. LockOK' /\ pc'["sender"] = w /\ pc'["forwarder"] = pc["forwarder"]
    BY <1>2, <1>4, <1>5, SenderLock DEF OrderInv
  <1>7. Past(e) /\ Below(Transit, {e})
    BY <1>1, <1>3 DEF OrderInv, Newest
  <1>8. Past(e)'
    BY <1>1, <1>7, BaseParts, TypePartsNext, PastStays DEF BaseInv
  <1>9. Unordered'
    BY <1>1, <1>2, OwnHand DEF OrderInv
  <1> QED BY <1>1, <1>3, <1>5, <1>6, <1>7, <1>8, <1>9, OrderSends

\* The same of a connection's record x and last event l, in front of events B.
InLine(x, l, B) ==
  /\ x.st = "open" => x.box = << >>
  /\ Sorted(x.out) /\ Sorted(x.box)
  /\ Below({l}, Contents(x.out))
  /\ Below({l} \cup Contents(x.out), Contents(x.box))
  /\ x.joined => Below({l} \cup Contents(x.out) \cup Contents(x.box), B)

LEMMA LinedNow ==
  ASSUME NEW c \in Conns
  PROVE  Lined(c) <=> InLine(conn[c], last[c], Contents(bcast))
  BY DEF Lined, InLine, Near

LEMMA LinedNext ==
  ASSUME NEW c \in Conns
  PROVE  Lined(c)' <=> InLine(conn'[c], last'[c], Contents(bcast'))
  BY DEF Lined, InLine, Near, Sorted, Below, Contents, MayFollow

\* Events come closer to the clients.
LEMMA OrderCloser ==
  ASSUME BaseInv, BaseInv', OrderInv, Later, UNCHANGED <<ev, held, order>>,
         pc'["forwarder"] = pc["forwarder"], pc'["sender"] = pc["sender"],
         Sorted(bcast'), \A c \in Conns : InLine(conn'[c], last'[c], Contents(bcast')),
         \A t \in Transit' : t \in Transit \/ ~t.ordered
  PROVE  OrderInv'
  <1>1. TablesOK /\ TablesOK' /\ RoutingOK /\ HandsOK
    BY BaseParts, TypePartsNext DEF BaseInv
  <1>2. \A c \in Conns : Lined(c)'
    BY LinedNext
  <1>3. \A t \in Transit' : Past(t)'
    <2>1. \A t \in Transit : Past(t)'
      BY <1>1, TransitType, PastStays DEF OrderInv
    <2> QED BY <2>1, UnorderedFits
  <1>4. ev["forwarder"] \in Events /\ ev["sender"] \in Events
    BY <1>1, Names DEF HandsOK
  <1>5. pc'["forwarder"] = "send" => Newest("forwarder")'
    BY <1>1, <1>4, Names, NewestStays DEF OrderInv
  <1>6. pc'["sender"] = "sending" => Newest("sender")'
    BY <1>1, <1>4, Names, NewestStays DEF OrderInv
  <1>7. (\A e \in Transit : Past(e))'
    BY <1>3
  <1>8. (Sorted(bcast))'
    BY DEF Sorted, MayFollow
  <1>9. LockOK' /\ ~held'.ordered /\ \A p \in Procs \ {"forwarder", "sender"} : ~ev'[p].ordered
    BY DEF OrderInv, LockOK
  <1> QED BY <1>2, <1>5, <1>6, <1>7, <1>8, <1>9, Zenon DEF OrderInv

\* One connection changes to x, its client's last event to l.
LEMMA OneCloser ==
  ASSUME BaseInv, BaseInv', OrderInv, Later, UNCHANGED <<ev, held, order, bcast>>,
         pc'["forwarder"] = pc["forwarder"], pc'["sender"] = pc["sender"],
         NEW c \in Conns, NEW x, NEW l, conn' = [conn EXCEPT ![c] = x], last' = [last EXCEPT ![c] = l],
         InLine(x, l, Contents(bcast)),
         \A t \in {l} \cup Contents(x.out) \cup Contents(x.box) : t \in Transit \/ ~t.ordered
  PROVE  OrderInv'
  <1>1. RoutingOK
    BY BaseParts
  <1>2. conn'[c] = x /\ last'[c] = l /\ bcast' = bcast
    BY <1>1 DEF RoutingOK
  <1>3. \A d \in Conns : d # c => conn'[d] = conn[d] /\ last'[d] = last[d]
    BY <1>1 DEF RoutingOK
  <1>4. ASSUME NEW d \in Conns
        PROVE  InLine(conn'[d], last'[d], Contents(bcast'))
    <2>1. CASE d = c
      BY <1>2, <2>1
    <2>2. CASE d # c
      <3>1. conn'[d] = conn[d] /\ last'[d] = last[d] /\ InLine(conn[d], last[d], Contents(bcast))
        BY <1>3, <2>2, LinedNow DEF OrderInv
      <3> QED BY <1>2, <3>1
    <2> QED BY <2>1, <2>2
  <1>5. ASSUME NEW t \in Transit'
        PROVE  t \in Transit \/ ~t.ordered
    <2>1. Transit' = Contents(bcast') \cup
            UNION {{last'[d]} \cup Contents(conn'[d].out) \cup Contents(conn'[d].box) : d \in Conns}
      BY DEF Transit, Near, Contents
    <2>2. CASE t \in Contents(bcast')
      BY <1>2, <2>2 DEF Transit
    <2>3. ASSUME NEW d \in Conns,
                 t \in {last'[d]} \cup Contents(conn'[d].out) \cup Contents(conn'[d].box)
          PROVE  t \in Transit \/ ~t.ordered
      <3>1. CASE d = c
        BY <1>2, <2>3, <3>1
      <3>2. CASE d # c
        <4>1. t \in Near(d)
          BY <1>3, <2>3, <3>2 DEF Near
        <4> QED BY <4>1 DEF Transit
      <3> QED BY <3>1, <3>2
    <2> QED BY <2>1, <2>2, <2>3
  <1>6. Sorted(bcast')
    BY <1>2 DEF OrderInv
  <1> QED BY <1>4, <1>5, <1>6, OrderCloser

\* Moving a connection's goroutine moves no producer under the order lock.
LEMMA Goer ==
  ASSUME BaseInv, NEW c \in Conns, NEW w, Goes(c, w)
  PROVE  pc'["forwarder"] = pc["forwarder"] /\ pc'["sender"] = pc["sender"]
  BY BaseParts, Names DEF Goes, HandsOK

\* Nothing but what was received before, or nothing at all.
LEMMA ShutInLine ==
  ASSUME NEW x \in Connections, NEW l, NEW B, InLine(x, l, B)
  PROVE  InLine(Shut(x), l, B) /\ Contents(Shut(x).out) = {} /\ Contents(Shut(x).box) = {}
  <1>1. /\ Shut(x).st = "closed" /\ Shut(x).box = << >>
        /\ Shut(x).out = << >> /\ (Shut(x).joined <=> x.joined)
    BY ShutType
  <1>2. Contents(Shut(x).out) = {} /\ Contents(Shut(x).box) = {}
    BY <1>1, EmptyContents
  <1>3. Sorted(Shut(x).out) /\ Sorted(Shut(x).box)
    BY <1>1, SortedEmpty
  <1>4. x.joined => Below({l}, B)
    BY DEF InLine, Below
  <1>5. Below({l}, {}) /\ Below({l} \cup {}, {}) /\ {l} \cup {} \cup {} = {l}
    BY DEF Below
  <1> QED BY <1>1, <1>2, <1>3, <1>4, <1>5 DEF InLine

LEMMA HandshakeOrder ==
  ASSUME BaseInv, BaseInv', OrderInv, NEW c \in Conns, Handshake(c) \/ UnregisterConn(c)
  PROVE  OrderInv'
  <1>1. RoutingOK /\ NoEvent \in Events /\ ~NoEvent.ordered
    BY BaseParts, NoEventType
  <1>2. /\ Later /\ UNCHANGED <<ev, held, order, bcast>>
        /\ \E w : Goes(c, w)
    BY LaterCases DEF Handshake, UnregisterConn
  <1>3. pc'["forwarder"] = pc["forwarder"] /\ pc'["sender"] = pc["sender"]
    BY <1>2, Goer
  <1>4. PICK x : /\ conn' = [conn EXCEPT ![c] = x]
                 /\ x.box = << >> /\ x.out = << >>
                 /\ last' = [last EXCEPT ![c] = NoEvent]
    <2>1. CASE Handshake(c)
      <3>1. PICK x : x = [Outside EXCEPT !.st = "init", !.joined = TRUE]
        OBVIOUS
      <3>2. x.box = << >> /\ x.out = << >>
        BY <3>1, OutsideType, JoinedFields
      <3>3. last[c] = NoEvent
        <4>1. conn[c].st = "out" /\ ConnOK
          BY <2>1, BaseParts DEF Handshake
        <4> QED BY <4>1, Zenon DEF ConnOK
      <3>4. last' = [last EXCEPT ![c] = NoEvent]
        BY <1>1, <2>1, <3>3, Same DEF Handshake
      <3> QED BY <2>1, <3>1, <3>2, <3>4 DEF Handshake
    <2>2. CASE UnregisterConn(c)
      BY <2>2, OutsideType DEF UnregisterConn
    <2> QED BY <2>1, <2>2
  <1>5. Contents(x.out) = {} /\ Contents(x.box) = {}
    BY <1>4, EmptyContents
  <1>6. InLine(x, NoEvent, Contents(bcast))
    <2>1. Sorted(x.out) /\ Sorted(x.box)
      BY <1>4, SortedEmpty
    <2>2. {NoEvent} \cup {} \cup {} = {NoEvent} /\ Below({NoEvent}, Contents(bcast))
          /\ Below({NoEvent}, {}) /\ Below({NoEvent} \cup {}, {})
      BY <1>1 DEF Below, MayFollow
    <2> QED BY <1>4, <1>5, <2>1, <2>2 DEF InLine
  <1> QED BY <1>1, <1>2, <1>3, <1>4, <1>5, <1>6, OneCloser

\* What a step of one connection finds.
LEMMA AtConnection ==
  ASSUME BaseInv, OrderInv, NEW c \in Conns
  PROVE  /\ conn[c] \in Connections /\ conn[c].out \in Seq(Events) /\ conn[c].box \in Seq(Events)
         /\ conn = [conn EXCEPT ![c] = conn[c]] /\ last = [last EXCEPT ![c] = last[c]]
         /\ InLine(conn[c], last[c], Contents(bcast))
         /\ {last[c]} \cup Contents(conn[c].out) \cup Contents(conn[c].box) \subseteq Transit
  <1>1. RoutingOK
    BY BaseParts
  <1>2. conn[c] \in Connections /\ conn[c].out \in Seq(Events) /\ conn[c].box \in Seq(Events)
    BY <1>1, Same, TransitType
  <1>3. InLine(conn[c], last[c], Contents(bcast))
    BY LinedNow DEF OrderInv
  <1>4. {last[c]} \cup Contents(conn[c].out) \cup Contents(conn[c].box) \subseteq Transit
    BY DEF Transit, Near
  <1> QED BY <1>1, <1>2, <1>3, <1>4, Same

LEMMA DisconnectOrder ==
  ASSUME BaseInv, BaseInv', OrderInv, NEW c \in Conns, Disconnect(c)
  PROVE  OrderInv'
  <1>1. /\ Later /\ UNCHANGED <<ev, held, order, bcast>> /\ UNCHANGED pc /\ last' = last
        /\ conn' = [conn EXCEPT ![c] = Shut(conn[c])]
    BY LaterCases DEF Disconnect
  <1>2. last' = [last EXCEPT ![c] = last[c]]
    BY <1>1, AtConnection
  <1>3. /\ InLine(Shut(conn[c]), last[c], Contents(bcast))
        /\ Contents(Shut(conn[c]).out) = {} /\ Contents(Shut(conn[c]).box) = {}
        /\ last[c] \in Transit
    BY AtConnection, ShutInLine
  <1> QED BY <1>1, <1>2, <1>3, OneCloser

LEMMA MarkInitDoneOrder ==
  ASSUME BaseInv, BaseInv', OrderInv, NEW c \in Conns, MarkInitDone(c)
  PROVE  OrderInv'
  <1> DEFINE x == conn[c]
  <1>1. /\ Later /\ UNCHANGED <<ev, held, order, bcast>> /\ Goes(c, "idle") /\ last' = last
        /\ \/ x.st = "closed" /\ conn' = [conn EXCEPT ![c] = x]
           \/ /\ x.st # "closed"
              /\ conn' = [conn EXCEPT ![c] = [x EXCEPT !.st = "open", !.out = @ \o x.box, !.box = << >>]]
           \/ conn' = [conn EXCEPT ![c] = Shut(x)]
    BY LaterCases DEF MarkInitDone
  <1>2. pc'["forwarder"] = pc["forwarder"] /\ pc'["sender"] = pc["sender"]
    BY <1>1, Goer
  <1>3. /\ x \in Connections /\ x.out \in Seq(Events) /\ x.box \in Seq(Events)
        /\ last' = [last EXCEPT ![c] = last[c]]
        /\ InLine(x, last[c], Contents(bcast))
        /\ {last[c]} \cup Contents(x.out) \cup Contents(x.box) \subseteq Transit
    BY <1>1, AtConnection
  <1> HIDE DEF x
  <1>4. CASE conn' = [conn EXCEPT ![c] = x]
    BY <1>1, <1>2, <1>3, <1>4, OneCloser
  <1>5. CASE conn' = [conn EXCEPT ![c] = Shut(x)]
    <2>1. /\ InLine(Shut(x), last[c], Contents(bcast))
          /\ Contents(Shut(x).out) = {} /\ Contents(Shut(x).box) = {}
          /\ last[c] \in Transit
      BY <1>3, ShutInLine
    <2> QED BY <1>1, <1>2, <1>3, <1>5, <2>1, OneCloser
  <1>6. CASE conn' = [conn EXCEPT ![c] = [x EXCEPT !.st = "open", !.out = @ \o x.box, !.box = << >>]]
    <2>1. PICK q, z : q = x.out \o x.box /\ z = << >>
      OBVIOUS
    <2>2. q \in Seq(Events) /\ Contents(q) = Contents(x.out) \cup Contents(x.box)
      BY <1>3, <2>1, Concatenated
    <2>3. z \in Seq(Events) /\ Contents(z) = {} /\ Sorted(z)
      BY <2>1, EmptyContents, SortedEmpty
    <2>4. PICK y : y = [x EXCEPT !.st = "open", !.out = q, !.box = z]
      OBVIOUS
    <2>5. conn' = [conn EXCEPT ![c] = y]
      BY <1>6, <2>1, <2>4
    <2>6. y.st = "open" /\ y.joined = x.joined /\ y.box = z /\ y.out = q
      <3>1. LET w == [x EXCEPT !.st = "open", !.out = q, !.box = z] IN
              /\ w \in Connections
              /\ w.st = "open" /\ w.joined = x.joined /\ w.box = z /\ w.out = q
        <4>1. "open" \in {"out", "init", "open", "closed"}
          OBVIOUS
        <4> QED BY <1>3, <2>2, <2>3, <4>1, RecordFields, ConnectionType, Zenon DEF Connections
      <3> QED BY <2>4, <3>1
    <2>7. Sorted(q)
      <3>1. Sorted(x.out) /\ Sorted(x.box) /\ Below(Contents(x.out), Contents(x.box))
        BY <1>3 DEF InLine, Below
      <3> QED BY <1>3, <2>1, <3>1, SortedConcat
    <2>8. InLine(y, last[c], Contents(bcast))
      <3>1. Below({last[c]}, Contents(q)) /\ Below({last[c]} \cup Contents(q), {})
        BY <1>3, <2>2 DEF InLine, Below
      <3>2. x.joined => Below({last[c]} \cup Contents(q) \cup {}, Contents(bcast))
        BY <1>3, <2>2 DEF InLine, Below
      <3>3. y.box = << >>
        BY <2>1, <2>6
      <3>4. Contents(y.box) = {} /\ Sorted(y.box) /\ Sorted(y.out) /\ Contents(y.out) = Contents(q)
            /\ (y.joined <=> x.joined)
        BY <2>3, <2>6, <2>7
      <3> QED BY <3>1, <3>2, <3>3, <3>4 DEF InLine
    <2>9. \A t \in {last[c]} \cup Contents(y.out) \cup Contents(y.box) : t \in Transit
      BY <1>3, <2>2, <2>3, <2>6
    <2> QED BY <1>1, <1>2, <1>3, <2>5, <2>8, <2>9, OneCloser
  <1> QED BY <1>1, <1>4, <1>5, <1>6

LEMMA WritePumpOrder ==
  ASSUME BaseInv, BaseInv', OrderInv, NEW c \in Conns, WritePump(c)
  PROVE  OrderInv'
  <1>0. PICK e, q : e = Head(conn[c].out) /\ q = Tail(conn[c].out)
    OBVIOUS
  <1>1. /\ Later /\ UNCHANGED <<ev, held, order, bcast>> /\ UNCHANGED pc
        /\ conn[c].out # << >>
        /\ conn' = [conn EXCEPT ![c].out = q]
        /\ last' = [last EXCEPT ![c] = IF e.ordered THEN e ELSE @]
    BY <1>0, LaterCases DEF WritePump
  <1>2. /\ conn[c] \in Connections /\ conn[c].out \in Seq(Events) /\ conn[c].box \in Seq(Events)
        /\ InLine(conn[c], last[c], Contents(bcast))
        /\ {last[c]} \cup Contents(conn[c].out) \cup Contents(conn[c].box) \subseteq Transit
    BY AtConnection
  <1>3. /\ q \in Seq(Events) /\ Contents(conn[c].out) = {e} \cup Contents(q)
        /\ Sorted(q) /\ Below({e}, Contents(q))
    <2>1. Sorted(conn[c].out)
      BY <1>2 DEF InLine
    <2> QED BY <1>0, <1>1, <1>2, <2>1, Tailed, SortedTail
  <1>4. PICK x : x = [conn[c] EXCEPT !.out = q]
    OBVIOUS
  <1>5. /\ x.st = conn[c].st /\ (x.joined <=> conn[c].joined) /\ x.box = conn[c].box /\ x.out = q
    BY <1>2, <1>3, <1>4, OutField
  <1>6. PICK l : l = IF e.ordered THEN e ELSE last[c]
    OBVIOUS
  <1>7. conn' = [conn EXCEPT ![c] = x] /\ last' = [last EXCEPT ![c] = l]
    BY <1>1, <1>4, <1>6
  <1>8. InLine(x, l, Contents(bcast))
    <2>1. Below({l}, Contents(q))
      BY <1>2, <1>3, <1>6 DEF InLine, Below
    <2>2. Below({l} \cup Contents(q), Contents(conn[c].box))
      BY <1>2, <1>3, <1>6 DEF InLine, Below
    <2>3. conn[c].joined => Below({l} \cup Contents(q) \cup Contents(conn[c].box), Contents(bcast))
      BY <1>2, <1>3, <1>6 DEF InLine, Below
    <2>4. Sorted(conn[c].box) /\ (conn[c].st = "open" => conn[c].box = << >>)
      BY <1>2 DEF InLine
    <2> QED BY <1>3, <1>5, <2>1, <2>2, <2>3, <2>4 DEF InLine
  <1>9. \A t \in {l} \cup Contents(x.out) \cup Contents(x.box) : t \in Transit
    <2>1. Contents(x.out) = Contents(q) /\ Contents(x.box) = Contents(conn[c].box)
      BY <1>5
    <2> QED BY <1>2, <1>3, <1>6, <2>1
  <1> QED BY <1>1, <1>7, <1>8, <1>9, OneCloser

LEMMA InitAckOrder ==
  ASSUME BaseInv, BaseInv', OrderInv, NEW c \in Conns, InitAck(c)
  PROVE  OrderInv'
  <1>0. PICK e \in Events : e = (IF row = "live" THEN Number("plain", FALSE, FALSE) ELSE NoEvent)
                            /\ ~e.ordered
    BY UnorderedNumber
  <1>1. /\ UNCHANGED <<ev, held, order, bcast>> /\ last' = last /\ gen' = gen
        /\ TakeNumber \/ UNCHANGED counter
        /\ pc[c] = "ack" /\ \E w : Goes(c, w)
        /\ conn' = [conn EXCEPT ![c].out = IF conn[c].st = "init" THEN Append(@, e) ELSE @]
    BY <1>0 DEF InitAck
  <1>2. Later
    BY <1>1, LaterCases
  <1>3. pc'["forwarder"] = pc["forwarder"] /\ pc'["sender"] = pc["sender"]
    BY <1>1, Goer
  <1>4. /\ conn[c] \in Connections /\ conn[c].out \in Seq(Events) /\ conn[c].box \in Seq(Events)
        /\ last' = [last EXCEPT ![c] = last[c]]
        /\ InLine(conn[c], last[c], Contents(bcast))
        /\ {last[c]} \cup Contents(conn[c].out) \cup Contents(conn[c].box) \subseteq Transit
    BY <1>1, AtConnection
  <1>5. PICK q : q = IF conn[c].st = "init" THEN Append(conn[c].out, e) ELSE conn[c].out
    OBVIOUS
  <1>6. PICK x : x = [conn[c] EXCEPT !.out = q]
    OBVIOUS
  <1>7. /\ q \in Seq(Events) /\ Sorted(q)
        /\ Contents(q) \subseteq Contents(conn[c].out) \cup {e}
    <2>1. CASE conn[c].st = "init"
      <3>1. Append(conn[c].out, e) \in Seq(Events)
            /\ Contents(Append(conn[c].out, e)) = Contents(conn[c].out) \cup {e}
        <4>1. e \in Events /\ conn[c].out \in Seq(Events)
          BY <1>0, <1>4
        <4> QED BY <4>1, Appended
      <3>2. Below(Contents(conn[c].out), {e}) /\ Sorted(conn[c].out)
        BY <1>0, <1>4 DEF InLine, Below, MayFollow
      <3>3. Sorted(Append(conn[c].out, e))
        BY <1>0, <1>4, <3>2, SortedAppend
      <3> QED BY <1>5, <2>1, <3>1, <3>3
    <2>2. CASE conn[c].st # "init"
      BY <1>4, <1>5, <2>2 DEF InLine
    <2> QED BY <2>1, <2>2
  <1>8. x.st = conn[c].st /\ (x.joined <=> conn[c].joined) /\ x.box = conn[c].box /\ x.out = q
    BY <1>4, <1>6, <1>7, OutField
  <1>9. conn' = [conn EXCEPT ![c] = x]
    BY <1>1, <1>5, <1>6
  <1>10. InLine(x, last[c], Contents(bcast))
    <2>1. \A t : MayFollow(e, t) /\ MayFollow(t, e)
      BY <1>0 DEF MayFollow
    <2>2. Below({last[c]}, Contents(q))
      BY <1>4, <1>7, <2>1 DEF InLine, Below
    <2>3. Below({last[c]} \cup Contents(q), Contents(conn[c].box))
      BY <1>4, <1>7, <2>1 DEF InLine, Below
    <2>4. conn[c].joined => Below({last[c]} \cup Contents(q) \cup Contents(conn[c].box), Contents(bcast))
      BY <1>4, <1>7, <2>1 DEF InLine, Below
    <2>5. Sorted(conn[c].box) /\ (conn[c].st = "open" => conn[c].box = << >>)
      BY <1>4 DEF InLine
    <2> QED BY <1>7, <1>8, <2>2, <2>3, <2>4, <2>5 DEF InLine
  <1>11. \A t \in {last[c]} \cup Contents(x.out) \cup Contents(x.box) : t \in Transit \/ ~t.ordered
    <2>1. Contents(x.out) = Contents(q) /\ Contents(x.box) = Contents(conn[c].box)
      BY <1>8
    <2> QED BY <1>0, <1>4, <1>7, <2>1
  <1> QED BY <1>1, <1>2, <1>3, <1>4, <1>9, <1>10, <1>11, OneCloser

LEMMA RouteOrder ==
  ASSUME BaseInv, BaseInv', OrderInv, Route
  PROVE  OrderInv'
  <1>0. PICK e : e = Head(bcast)
    OBVIOUS
  <1>1. /\ Later /\ UNCHANGED <<pc, ev, held, order>> /\ last' = last
    BY LaterCases DEF Route
  <1>2. RoutingOK /\ ConnOK /\ bcast \in Seq(Events)
    BY BaseParts DEF RoutingOK
  <1>3. /\ bcast # << >> /\ bcast' = Tail(bcast) /\ e \in Events
        /\ Contents(bcast) = {e} \cup Contents(bcast')
    BY <1>0, <1>2, RouteFacts, Zenon
  <1>4. Sorted(bcast') /\ Below({e}, Contents(bcast'))
    <2>1. Sorted(bcast)
      BY DEF OrderInv
    <2> QED BY <1>0, <1>2, <1>3, <2>1, SortedTail
  <1>5. ASSUME NEW c \in Conns
        PROVE  /\ InLine(conn'[c], last'[c], Contents(bcast'))
               /\ {last'[c]} \cup Contents(conn'[c].out) \cup Contents(conn'[c].box) \subseteq Transit
    <2> DEFINE x == conn[c]
               y == conn'[c]
               l == last[c]
               B == Contents(bcast')
    <2>1. /\ \/ y = x /\ (x.joined => e.kind = "raw")
             \/ /\ x.st = "init" /\ y.st = "init" /\ (y.joined <=> x.joined)
                /\ y.box = Append(x.box, e) /\ y.out = x.out
             \/ /\ x.st = "open" /\ y.st = "open" /\ (y.joined <=> x.joined)
                /\ y.box = x.box /\ y.out = Append(x.out, e)
             \/ /\ y.st = "closed" /\ ~y.joined /\ y.box = << >> /\ y.out = << >>
      BY <1>0, <1>2, RouteFacts, Zenon
    <2>2. /\ x \in Connections /\ x.out \in Seq(Events) /\ x.box \in Seq(Events)
          /\ InLine(x, l, Contents(bcast))
          /\ {l} \cup Contents(x.out) \cup Contents(x.box) \subseteq Transit
      BY AtConnection
    <2>3. x.st \in {"init", "open"} => x.joined
      BY <1>2, Zenon DEF ConnOK
    <2>4. last'[c] = l /\ e \in Transit
      BY <1>1, <1>3 DEF Transit
    <2>5. /\ Contents(Append(x.box, e)) = Contents(x.box) \cup {e}
          /\ Contents(Append(x.out, e)) = Contents(x.out) \cup {e}
      <3> HIDE DEF x
      <3> QED BY <1>3, <2>2, Appended
    <2> HIDE DEF x, y, l, B
    <2>6. x.joined => Below({l} \cup Contents(x.out) \cup Contents(x.box), {e} \cup B)
      BY <1>3, <2>2 DEF InLine, B
    <2>b. Below({e}, B)
      BY <1>4 DEF B
    <2>7. CASE y = x
      <3>1. InLine(x, l, B)
        BY <2>2, <2>6 DEF InLine, Below
      <3> QED BY <2>2, <2>4, <2>7, <3>1 DEF y, B
    <2>8. CASE /\ x.st = "init" /\ y.st = "init" /\ (y.joined <=> x.joined)
               /\ y.box = Append(x.box, e) /\ y.out = x.out
      <3>1. x.joined
        BY <2>3, <2>8
      <3>2. Below(Contents(x.box), {e}) /\ Below({l} \cup Contents(x.out), {e})
        BY <2>6, <3>1 DEF Below
      <3>3. Sorted(Append(x.box, e)) /\ Sorted(x.out)
        BY <1>3, <2>2, <3>2, SortedAppend DEF InLine
      <3>4. Below({l}, Contents(x.out))
            /\ Below({l} \cup Contents(x.out), Contents(x.box) \cup {e})
        BY <2>2, <3>2 DEF InLine, Below
      <3>5. Below({l} \cup Contents(x.out) \cup (Contents(x.box) \cup {e}), B)
        BY <2>6, <2>b, <3>1 DEF Below
      <3>6. Contents(y.out) = Contents(x.out) /\ Contents(y.box) = Contents(x.box) \cup {e}
            /\ Sorted(y.out) /\ Sorted(y.box) /\ y.st # "open"
        BY <2>5, <2>8, <3>3
      <3>7. InLine(y, l, B)
        BY <3>4, <3>5, <3>6 DEF InLine
      <3> QED BY <2>2, <2>4, <3>6, <3>7 DEF y, B
    <2>9. CASE /\ x.st = "open" /\ y.st = "open" /\ (y.joined <=> x.joined)
               /\ y.box = x.box /\ y.out = Append(x.out, e)
      <3>1. x.joined /\ x.box = << >> /\ Contents(x.box) = {}
        BY <2>2, <2>3, <2>9, EmptyContents DEF InLine
      <3>2. Below(Contents(x.out), {e}) /\ Below({l}, {e})
        BY <2>6, <3>1 DEF Below
      <3>3. Sorted(Append(x.out, e))
        <4>1. Sorted(x.out)
          BY <2>2 DEF InLine
        <4> QED BY <1>3, <2>2, <3>2, <4>1, SortedAppend
      <3>4. Below({l}, Contents(x.out) \cup {e}) /\ Below({l} \cup (Contents(x.out) \cup {e}), {})
        BY <2>2, <3>2 DEF InLine, Below
      <3>5. Below({l} \cup (Contents(x.out) \cup {e}) \cup {}, B)
        BY <2>6, <2>b, <3>1 DEF Below
      <3>6. Contents(y.out) = Contents(x.out) \cup {e} /\ Contents(y.box) = {}
            /\ Sorted(y.out) /\ Sorted(y.box) /\ y.box = << >>
        BY <2>5, <2>9, <3>1, <3>3, SortedEmpty
      <3>7. InLine(y, l, B)
        BY <3>4, <3>5, <3>6 DEF InLine
      <3> QED BY <2>2, <2>4, <3>6, <3>7 DEF y, B
    <2>10. CASE /\ y.st = "closed" /\ ~y.joined /\ y.box = << >> /\ y.out = << >>
      <3>1. Contents(y.out) = {} /\ Contents(y.box) = {} /\ Sorted(y.out) /\ Sorted(y.box)
        BY <2>10, EmptyContents, SortedEmpty
      <3>2. Below({l}, {}) /\ Below({l} \cup {}, {})
        BY DEF Below
      <3>3. InLine(y, l, B)
        BY <2>10, <3>1, <3>2 DEF InLine
      <3> QED BY <2>2, <2>4, <3>1, <3>3 DEF y, B
    <2> QED BY <2>1, <2>7, <2>8, <2>9, <2>10
  <1>6. \A t \in Transit' : t \in Transit
    <2>1. Transit' = Contents(bcast') \cup
            UNION {{last'[d]} \cup Contents(conn'[d].out) \cup Contents(conn'[d].box) : d \in Conns}
      BY DEF Transit, Near, Contents
    <2>2. Contents(bcast') \subseteq Transit
      BY <1>3 DEF Transit
    <2> QED BY <1>5, <2>1, <2>2
  <1> QED BY <1>1, <1>4, <1>5, <1>6, OrderCloser

\* Nothing is under way.
LEMMA BlankOrder ==
  Blank => OrderInv
  <1> SUFFICES ASSUME Blank
               PROVE  OrderInv
    OBVIOUS
  <1>1. /\ ~held.ordered /\ \A p \in Procs : ~ev[p].ordered /\ pc[p] = "idle"
        /\ order = "none"
    BY NoEventType DEF Blank
  <1>2. LockOK /\ pc["forwarder"] # "send" /\ pc["sender"] # "sending"
    BY <1>1, Names DEF LockOK, ForwardHolds, SenderHolds
  <1>3. Contents(bcast) = {} /\ Sorted(bcast)
    BY EmptyContents, SortedEmpty DEF Blank
  <1>4. ASSUME NEW c \in Conns
        PROVE  /\ conn[c] = Outside /\ last[c] = NoEvent
               /\ Contents(conn[c].out) = {} /\ Contents(conn[c].box) = {}
               /\ Sorted(conn[c].out) /\ Sorted(conn[c].box)
               /\ Near(c) = {NoEvent} /\ Lined(c)
    <2>1. conn[c] = Outside /\ last[c] = NoEvent
      BY DEF Blank
    <2>2. conn[c].out = << >> /\ conn[c].box = << >>
      BY <2>1, OutsideType
    <2>3. /\ Contents(conn[c].out) = {} /\ Contents(conn[c].box) = {}
          /\ Sorted(conn[c].out) /\ Sorted(conn[c].box)
      BY <2>2, EmptyContents, SortedEmpty
    <2>4. Near(c) = {NoEvent}
      BY <2>1, <2>3 DEF Near
    <2>5. Lined(c)
      BY <1>3, <2>2, <2>3 DEF Lined, Below
    <2> QED BY <2>1, <2>3, <2>4, <2>5
  <1>5. \A t \in Transit : Past(t)
    <2>1. \A t \in Transit : t = NoEvent
      BY <1>3, <1>4 DEF Transit
    <2> QED BY <2>1, NoEventType DEF Past
  <1> QED BY <1>1, <1>2, <1>3, <1>4, <1>5 DEF OrderInv

LEMMA OrderStep == BaseInv /\ BaseInv' /\ OrderInv /\ [Next]_vars => OrderInv'
  <1> SUFFICES ASSUME BaseInv, BaseInv', OrderInv, [Next]_vars
               PROVE  OrderInv'
    OBVIOUS
  <1>1. CASE Producer
    BY <1>1, ForwardQuietSteps, ForwardNumberOrder, ForwardSendOrder, ForwardFactOrder,
       SendLockOrder, SendNumberOrder, SendEnqueueOrder, BystanderSteps
    DEF Producer
  <1>2. CASE Delete \/ NoticeNumber \/ NoticeEnqueue \/ Route \/ Write
             \/ FlushTimedOutAccumulators \/ UNCHANGED vars
    BY <1>2, BystanderSteps, RouteOrder, OrderRests
  <1>3. CASE \E p \in Procs : Announce(p) \/ ReleaseSeq(p)
    BY <1>3, BarrierSteps
  <1>4. ASSUME NEW c \in Conns,
               \/ Handshake(c) \/ CreateSession(c) \/ EnsureSeqHydrated(c) \/ StartWorker(c)
               \/ InitAck(c) \/ MarkInitDone(c) \/ WritePump(c) \/ Disconnect(c)
               \/ UnregisterConn(c)
        PROVE  OrderInv'
    BY <1>4, HandshakeOrder, ArrivalSteps, InitAckOrder, MarkInitDoneOrder, WritePumpOrder,
       DisconnectOrder
  <1>5. CASE Crash
    <2>1. Blank'
      BY <1>5, BaseParts DEF Blank, Crash, CollectorOK
    <2> QED BY <2>1, BlankOrder, PTL
  <1> QED BY <1>1, <1>2, <1>3, <1>4, <1>5 DEF Next

LEMMA Ordered == Spec => []OrderInv
  <1>1. Init => OrderInv
    BY BlankOrder DEF Init, Blank
  <1> QED BY <1>1, OrderStep, Based, PTL DEF Spec

LEMMA Continued ==
  \A p, q \in Seq(Events) : \A A, r :
    /\ Sorted(p) /\ Sorted(q) /\ Contents(p) = A /\ Below(A, Contents(q)) /\ r = p \o q
    => r \in Seq(Events) /\ Sorted(r) /\ Contents(r) = A \cup Contents(q)
  <1> SUFFICES ASSUME NEW p \in Seq(Events), NEW q \in Seq(Events), Sorted(p), Sorted(q),
                      Below(Contents(p), Contents(q))
               PROVE  /\ p \o q \in Seq(Events) /\ Sorted(p \o q)
                      /\ Contents(p \o q) = Contents(p) \cup Contents(q)
    BY Zenon
  <1>1. p \o q \in Seq(Events) /\ Contents(p \o q) = Contents(p) \cup Contents(q)
    BY Concatenated
  <1>2. Sorted(p \o q)
    BY SortedConcat
  <1> QED BY <1>1, <1>2

\* Ahead in one piece.
LEMMA AheadSorted ==
  ASSUME BaseInv, OrderInv, NEW c \in Conns
  PROVE  Sorted(Ahead(c))
  <1>1. /\ conn[c].out \in Seq(Events) /\ conn[c].box \in Seq(Events)
        /\ InLine(conn[c], last[c], Contents(bcast))
    BY AtConnection
  <1>2. bcast \in Seq(Events) /\ last[c] \in Events /\ Sorted(bcast)
    BY BaseParts DEF RoutingOK, OrderInv
  <1>3. PICK one : one = <<last[c]>>
    OBVIOUS
  <1>4. one \in Seq(Events) /\ Contents(one) = {last[c]} /\ Sorted(one)
    <2>1. one \in Seq(Events) /\ DOMAIN one = {1}
      BY <1>2, <1>3
    <2>2. Contents(one) = {last[c]}
      BY <1>3, OneContents
    <2>3. Sorted(one)
      BY <2>1 DEF Sorted
    <2> QED BY <2>1, <2>2, <2>3
  <1>5. PICK two : two = one \o conn[c].out
    OBVIOUS
  <1>6. /\ two \in Seq(Events) /\ Sorted(two)
        /\ Contents(two) = {last[c]} \cup Contents(conn[c].out)
    <2>1. Below({last[c]}, Contents(conn[c].out)) /\ Sorted(conn[c].out)
      BY <1>1 DEF InLine
    <2>2. conn[c].out \in Seq(Events)
      BY <1>1
    <2>3. one \in Seq(Events) /\ Sorted(one) /\ Contents(one) = {last[c]} /\ two = one \o conn[c].out
      BY <1>4, <1>5
    <2>4. \A A, r : /\ Sorted(one) /\ Sorted(conn[c].out) /\ Contents(one) = A
                     /\ Below(A, Contents(conn[c].out)) /\ r = one \o conn[c].out
                    => r \in Seq(Events) /\ Sorted(r) /\ Contents(r) = A \cup Contents(conn[c].out)
      BY <2>2, <2>3, Continued, Zenon
    <2> QED BY <2>1, <2>3, <2>4, Zenon
  <1>7. PICK three : three = two \o conn[c].box
    OBVIOUS
  <1>8. /\ three \in Seq(Events) /\ Sorted(three)
        /\ Contents(three) = {last[c]} \cup Contents(conn[c].out) \cup Contents(conn[c].box)
    <2>1. Below({last[c]} \cup Contents(conn[c].out), Contents(conn[c].box)) /\ Sorted(conn[c].box)
      BY <1>1 DEF InLine
    <2>2. conn[c].box \in Seq(Events)
      BY <1>1
    <2>3. /\ two \in Seq(Events) /\ Sorted(two)
          /\ Contents(two) = {last[c]} \cup Contents(conn[c].out)
          /\ three = two \o conn[c].box
      BY <1>6, <1>7
    <2>4. \A A, r : /\ Sorted(two) /\ Sorted(conn[c].box) /\ Contents(two) = A
                     /\ Below(A, Contents(conn[c].box)) /\ r = two \o conn[c].box
                    => r \in Seq(Events) /\ Sorted(r) /\ Contents(r) = A \cup Contents(conn[c].box)
      BY <2>2, <2>3, Continued, Zenon
    <2> QED BY <2>1, <2>3, <2>4, Zenon
  <1>9. CASE conn[c].joined
    <2>1. Below(Contents(three), Contents(bcast))
      BY <1>1, <1>8, <1>9 DEF InLine
    <2>2. Sorted(three \o bcast)
      BY <1>2, <1>8, <2>1, SortedConcat
    <2> QED BY <1>3, <1>5, <1>7, <1>9, <2>2 DEF Ahead
  <1>10. CASE ~conn[c].joined
    <2>1. three \o << >> = three
      BY <1>8
    <2>2. Ahead(c) = three \o << >>
      BY <1>3, <1>5, <1>7, <1>10, Zenon DEF Ahead
    <2> QED BY <1>8, <2>1, <2>2
  <1> QED BY <1>9, <1>10

\* Events numbered under the order lock reach every client in the order of their
\* numbers: SendToSession and processForwardedEvent send what they numbered
\* before the lock is free again, and no buffer on the way lets one pass another.
THEOREM EventsInOrder == Spec => []InOrder
  <1>1. BaseInv /\ OrderInv => InOrder
    BY AheadSorted DEF InOrder, Sorted
  <1> QED BY <1>1, Based, Ordered, PTL

-----------------------------------------------------------------------------
(* Numbers. *)

LEMMA CarriedIs == Contents(InHand) = Carried
  BY EmptyContents, OneContents DEF InHand, Carried

LEMMA WaitingType ==
  ASSUME BaseInv
  PROVE  /\ Waiting \subseteq Entries /\ stored \subseteq Entries
         /\ \A x \in Waiting \cup stored : x.n \in Nat
         /\ counter \in Nat
  <1>1. HandsOK /\ CollectorOK /\ counter \in Nat /\ "forwarder" \in Procs
    BY BaseParts, Names DEF TablesOK
  <1>2. Carried \subseteq Entries
    BY <1>1, EntryType DEF HandsOK, Carried
  <1>3. Contents(capture) \subseteq Entries /\ Contents(accum) \subseteq Entries
        /\ stored \subseteq Entries
    BY <1>1 DEF CollectorOK, Contents
  <1> QED BY <1>1, <1>2, <1>3 DEF Waiting, Entries

LEMMA WaitingNext ==
  Waiting' = Contents(capture') \cup Contents(accum') \cup Carried'
  BY DEF Waiting, Contents

\* What is never stored as safe, and where the counter goes.
Unsafe == ~held.safe /\ ~ev["inbound"].safe
Counts == hydrated' = hydrated /\ counter' \in {counter, counter + 1}

\* The collector rests, and the forwarder takes nothing new in hand.
LEMMA CountRests ==
  ASSUME BaseInv, CountInv, UNCHANGED collector, Carried' \subseteq Carried, Counts, Unsafe'
  PROVE  CountInv'
  <1>1. Waiting' \subseteq Waiting /\ stored' = stored
    BY WaitingNext DEF collector, Waiting
  <1>2. \A x \in Waiting \cup stored : x.n \in Nat
    BY WaitingType
  <1>3. counter \in Nat /\ counter' \in Nat /\ counter <= counter'
    BY WaitingType DEF Counts
  <1>4. \A x \in Waiting' : x.safe => hydrated' /\ 0 < x.n /\ x.n <= counter'
    BY <1>1, <1>2, <1>3 DEF CountInv, Counts
  <1>5. hydrated' => \A y \in stored' : y.safe => y.n <= counter'
    BY <1>1, <1>2, <1>3 DEF CountInv, Counts
  <1>6. capture' = capture /\ accum' = accum
    BY DEF collector
  <1>7. Distinct(capture') /\ Apart(Contents(capture'), Contents(accum'))
        /\ Apart(Contents(capture') \cup Contents(accum'), Carried')
    BY <1>6 DEF CountInv, Apart
  <1>8. Apart(stored', Waiting')
    BY <1>1 DEF CountInv, Apart
  <1> QED BY <1>4, <1>5, <1>7, <1>8 DEF CountInv, Unsafe, Contents, Distinct, Apart, Meet


\* The collector takes one entry: what the forwarder had in hand, or one that
\* nothing meets.
LEMMA CountCaptures ==
  ASSUME BaseInv, CountInv, NEW e \in Events, Capture(e), stored' = stored,
         Carried' \subseteq Carried, Counts, Unsafe',
         e.safe => /\ Carried' = {} /\ hydrated /\ 0 < e.n /\ e.n <= counter'
                   /\ Apart(Contents(capture) \cup Contents(accum) \cup stored, {Entry(e)})
  PROVE  CountInv'
  <1> DEFINE x == Entry(e)
  <1>1. x \in Entries /\ x.n = e.n /\ (x.safe <=> e.safe)
    BY EntryType
  <1>2. ~x.safe => \A y : ~Meet(x, y) /\ ~Meet(y, x)
    BY DEF Meet
  <1>3. Apart(Contents(capture) \cup Contents(accum) \cup stored, {x})
    BY <1>1, <1>2 DEF Apart
  <1> HIDE DEF x
  <1>4. /\ Contents(capture') \cup Contents(accum') \subseteq Contents(capture) \cup Contents(accum) \cup {x}
        /\ /\ Distinct(capture) /\ Apart(Contents(capture), Contents(accum))
           /\ Apart(Contents(capture) \cup Contents(accum), {x})
           => Distinct(capture') /\ Apart(Contents(capture'), Contents(accum'))
    BY BaseParts, CaptureFacts DEF x
  <1>5. Apart(Contents(capture) \cup Contents(accum), {x})
    BY <1>3 DEF Apart
  <1>6. Distinct(capture') /\ Apart(Contents(capture'), Contents(accum'))
    BY <1>4, <1>5 DEF CountInv
  <1>7. Waiting' \subseteq Waiting \cup {x}
    BY <1>4, WaitingNext DEF Waiting
  <1>8. \A y \in Waiting \cup stored : y.n \in Nat
    BY WaitingType
  <1>9. counter \in Nat /\ counter' \in Nat /\ counter <= counter'
    BY WaitingType DEF Counts
  <1>10. \A y \in Waiting' : y.safe => hydrated' /\ 0 < y.n /\ y.n <= counter'
    BY <1>1, <1>7, <1>8, <1>9 DEF CountInv, Counts
  <1>11. hydrated' => \A y \in stored' : y.safe => y.n <= counter'
    BY <1>8, <1>9 DEF CountInv, Counts
  <1>12. Apart(stored', Waiting')
    BY <1>3, <1>7 DEF CountInv, Apart
  <1>13. Apart(Contents(capture') \cup Contents(accum'), Carried')
    <2>1. CASE e.safe
      BY <2>1 DEF Apart
    <2>2. CASE ~e.safe
      BY <1>1, <1>2, <1>4, <2>2 DEF CountInv, Apart
    <2> QED BY <2>1, <2>2
  <1> QED BY <1>6, <1>10, <1>11, <1>12, <1>13 DEF CountInv, Unsafe, Contents, Distinct, Apart, Meet

\* An entry of the collector goes to the table, or is lost.
LEMMA CountStores ==
  ASSUME BaseInv, CountInv, NEW x \in Waiting, stored' \subseteq stored \cup {x},
         Contents(capture') \subseteq Contents(capture),
         Contents(accum') \subseteq Contents(accum),
         Distinct(capture'), Apart({x}, Waiting'),
         Carried' = Carried, UNCHANGED <<hydrated, counter>>, Unsafe'
  PROVE  CountInv'
  <1>1. Waiting' \subseteq Waiting
    BY WaitingNext DEF Waiting
  <1>2. \A y \in Waiting' : y.safe => hydrated' /\ 0 < y.n /\ y.n <= counter'
    BY <1>1 DEF CountInv
  <1>3. hydrated' => \A y \in stored' : y.safe => y.n <= counter'
    BY DEF CountInv
  <1>4. /\ Apart(Contents(capture'), Contents(accum'))
        /\ Apart(Contents(capture') \cup Contents(accum'), Carried')
    BY DEF CountInv, Apart
  <1>5. Apart(stored', Waiting')
    BY <1>1 DEF CountInv, Apart
  <1> QED BY <1>2, <1>3, <1>4, <1>5 DEF CountInv, Unsafe, Contents, Distinct, Apart, Meet

\* The collector is empty.
LEMMA CountEmpties ==
  ASSUME capture' = << >>, Contents(accum') = {}, Carried' = {}, Unsafe',
         hydrated' => \A y \in stored' : y.safe => y.n <= counter'
  PROVE  CountInv'
  <1>1. Contents(capture') = {} /\ Distinct(capture')
    BY EmptyContents, SortedEmpty
  <1>2. Waiting' = {}
    BY <1>1, WaitingNext
  <1> QED BY <1>1, <1>2 DEF CountInv, Unsafe, Contents, Distinct, Apart, Meet

LEMMA CountWrites ==
  ASSUME BaseInv, CountInv, Write
  PROVE  CountInv'
  <1>1. /\ capture # << >> /\ capture \in Seq(Entries) /\ accum' = accum
        /\ Carried' = Carried /\ UNCHANGED <<hydrated, counter>>
    BY BaseParts DEF Write, CollectorOK, Carried, tables
  <1>2. Unsafe'
    BY DEF Write, CountInv, Unsafe
  <1>3. CASE stored' = Insert(Head(capture)) /\ capture' = Tail(capture)
    <2>1. PICK x : x = Head(capture)
      OBVIOUS
    <2>2. /\ x \in Entries /\ Tail(capture) \in Seq(Entries)
          /\ Contents(capture) = {x} \cup Contents(Tail(capture))
          /\ Distinct(Tail(capture)) /\ Apart({x}, Contents(Tail(capture)))
      BY <1>1, <2>1, Tailed, DistinctTail DEF CountInv
    <2>3. /\ Contents(capture') \subseteq Contents(capture) /\ Contents(accum') = Contents(accum)
          /\ Contents(capture') = Contents(Tail(capture)) /\ Distinct(capture')
          /\ x \in Contents(capture)
      BY <1>1, <1>3, <2>2
    <2>4. Apart({x}, Waiting')
      BY <1>1, <2>2, <2>3, WaitingNext DEF CountInv, Apart
    <2>5. stored' \subseteq stored \cup {x}
      BY <1>3, <2>1, <2>2, BaseParts, InsertFacts
    <2>6. x \in Waiting
      BY <2>3 DEF Waiting
    <2> QED BY <1>1, <1>2, <2>3, <2>4, <2>5, <2>6, CountStores
  <1>4. CASE capture' = << >> /\ UNCHANGED stored
    <2>1. /\ Contents(capture') = {} /\ Distinct(capture')
          /\ Contents(accum') = Contents(accum)
      BY <1>1, <1>4, EmptyContents, SortedEmpty
    <2>2. Waiting' \subseteq Waiting
      BY <1>1, <2>1, WaitingNext DEF Waiting
    <2>3. Apart(stored', Waiting')
      BY <1>4, <2>2 DEF CountInv, Apart
    <2>4. /\ \A y \in Waiting' : y.safe => hydrated' /\ 0 < y.n /\ y.n <= counter'
          /\ hydrated' => \A y \in stored' : y.safe => y.n <= counter'
      BY <1>1, <1>4, <2>2 DEF CountInv
    <2>5. /\ Apart(Contents(capture'), Contents(accum'))
          /\ Apart(Contents(capture') \cup Contents(accum'), Carried')
      BY <1>1, <2>1 DEF CountInv, Apart
    <2> QED BY <1>2, <2>1, <2>3, <2>4, <2>5 DEF CountInv, Unsafe, Contents, Distinct, Apart, Meet
  <1> QED BY <1>3, <1>4 DEF Write

LEMMA CountFlushes ==
  ASSUME BaseInv, CountInv, FlushTimedOutAccumulators
  PROVE  CountInv'
  <1>1. /\ accum # << >> /\ accum \in Seq(Entries) /\ accum' = << >> /\ capture' = capture
        /\ Carried' = Carried /\ UNCHANGED <<hydrated, counter>>
        /\ stored' = Insert(accum[1])
    BY BaseParts DEF FlushTimedOutAccumulators, CollectorOK, Carried, tables
  <1>2. Unsafe'
    BY DEF FlushTimedOutAccumulators, CountInv, Unsafe
  <1>3. PICK x : x = accum[1]
    OBVIOUS
  <1>4. x \in Entries /\ x \in Contents(accum)
    BY <1>1, <1>3 DEF Contents
  <1>5. stored' \subseteq stored \cup {x}
    BY <1>1, <1>3, <1>4, BaseParts, InsertFacts
  <1>6. Contents(accum') = {} /\ Contents(capture') = Contents(capture) /\ Distinct(capture')
    BY <1>1, EmptyContents DEF CountInv
  <1>7. Apart({x}, Waiting')
    BY <1>1, <1>4, <1>6, WaitingNext, MeetSymmetric DEF CountInv, Apart
  <1>8. x \in Waiting
    BY <1>4 DEF Waiting
  <1> QED BY <1>1, <1>2, <1>5, <1>6, <1>7, <1>8, CountStores


LEMMA CarriedStays ==
  /\ pc'["forwarder"] = pc["forwarder"] /\ ev'["forwarder"] = ev["forwarder"] => Carried' = Carried
  /\ pc'["forwarder"] \notin {"send", "await", "capture"} => Carried' = {}
  /\ pc["forwarder"] \in {"send", "await", "capture"} => Carried = {Entry(ev["forwarder"])}
  /\ pc["forwarder"] \notin {"send", "await", "capture"} => Carried = {}
  <1>1. pc'["forwarder"] = pc["forwarder"] /\ ev'["forwarder"] = ev["forwarder"] => Carried' = Carried
    BY DEF Carried, Entry
  <1> QED BY <1>1 DEF Carried

\* The number a producer takes next, and none.
LEMMA UnsafeNumber ==
  ASSUME BaseInv, NEW kind \in Kinds, NEW ordered \in BOOLEAN
  PROVE  /\ Number(kind, ordered, FALSE) \in Events /\ ~Number(kind, ordered, FALSE).safe
         /\ NoEvent \in Events /\ ~NoEvent.safe
  <1>1. NoEvent \in Events
    BY NoEventType
  <1>2. ~NoEvent.safe
    BY DEF NoEvent
  <1>3. Number(kind, ordered, FALSE) \in Events /\ ~Number(kind, ordered, FALSE).safe
    BY BaseParts, NumberType
  <1> QED BY <1>1, <1>2, <1>3

\* Whoever is not the forwarder.
LEMMA CountBystander ==
  ASSUME BaseInv, CountInv, NEW p \in Procs, p # "forwarder", MovesOnly(p), UNCHANGED collector,
         held' = held, Counts,
         UNCHANGED ev \/ \E e \in Events : (p = "inbound" => ~e.safe) /\ ev' = [ev EXCEPT ![p] = e]
  PROVE  CountInv'
  <1>1. HandsOK /\ "forwarder" \in Procs /\ "inbound" \in Procs
    BY BaseParts, Names
  <1>2. pc'["forwarder"] = pc["forwarder"]
    BY <1>1, Moves DEF MovesOnly
  <1>3. ev'["forwarder"] = ev["forwarder"] /\ ~ev'["inbound"].safe
    <2>1. CASE UNCHANGED ev
      BY <2>1 DEF CountInv
    <2>2. CASE \E e \in Events : (p = "inbound" => ~e.safe) /\ ev' = [ev EXCEPT ![p] = e]
      BY <1>1, <2>2, Takes DEF CountInv
    <2> QED BY <2>1, <2>2
  <1>4. Carried' \subseteq Carried
    BY <1>2, <1>3, CarriedStays
  <1>5. Unsafe'
    BY <1>3 DEF Unsafe, CountInv
  <1> QED BY <1>4, <1>5, CountRests

\* The forwarder, when it takes no event in hand.
LEMMA CountForwarder ==
  ASSUME BaseInv, CountInv, NEW w \in Places, UNCHANGED pc \/ Goes("forwarder", w),
         pc["forwarder"] \notin {"send", "await", "capture"}
           => pc["forwarder"] = w \/ w \notin {"send", "await", "capture"},
         UNCHANGED collector, UNCHANGED ev, ~held'.safe, Counts
  PROVE  CountInv'
  <1>1. HandsOK /\ "forwarder" \in Procs
    BY BaseParts, Names
  <1>2. pc'["forwarder"] = w \/ UNCHANGED pc
    BY <1>1, Moves
  <1>3. Carried' \subseteq Carried
    <2>1. ev'["forwarder"] = ev["forwarder"]
      OBVIOUS
    <2> QED BY <1>2, <2>1 DEF Carried, Entry
  <1>4. Unsafe'
    BY DEF Unsafe, CountInv
  <1> QED BY <1>3, <1>4, CountRests

LEMMA CountsCases ==
  ASSUME BaseInv
  PROVE  /\ UNCHANGED <<counter, hydrated>> => Counts
         /\ UNCHANGED tables => Counts
         /\ TakeNumber /\ hydrated' = hydrated => Counts
  BY DEF Counts, TakeNumber, tables

LEMMA CountForwardQuiet ==
  ASSUME BaseInv, CountInv,
         ForwardBegin \/ ForwardSend \/ ForwardAwait \/ ForwardHeld \/ ForwardFact \/ WorkerEnds
  PROVE  CountInv'
  <1>1. ~held.safe /\ ~NoEvent.safe
    BY UnsafeNumber DEF CountInv, Kinds
  <1>2. CASE ForwardBegin
    <2>1. /\ pc["forwarder"] = "idle" /\ Goes("forwarder", "pinned") /\ "pinned" \in Places
          /\ UNCHANGED collector /\ UNCHANGED <<ev, held>> /\ Counts
      BY <1>2, CountsCases, AllPlaces DEF ForwardBegin
    <2> QED BY <1>1, <2>1, CountForwarder
  <1>3. CASE ForwardSend
    <2>1. /\ pc["forwarder"] = "send"
          /\ Goes("forwarder", "await") \/ Goes("forwarder", "capture")
          /\ {"await", "capture"} \subseteq Places
          /\ UNCHANGED collector /\ UNCHANGED <<ev, held>> /\ Counts
      BY <1>3, CountsCases, AllPlaces DEF ForwardSend
    <2> QED BY <1>1, <2>1, CountForwarder
  <1>4. CASE ForwardAwait
    <2>1. /\ pc["forwarder"] = "await" /\ Goes("forwarder", "capture") /\ "capture" \in Places
          /\ UNCHANGED collector /\ UNCHANGED <<ev, held>> /\ Counts
      BY <1>4, CountsCases, AllPlaces DEF ForwardAwait, collector
    <2> QED BY <1>1, <2>1, CountForwarder
  <1>5. CASE ForwardHeld
    <2>1. /\ \E w \in {"heldwait", "hiddenwait", "exitwait"} : Goes("forwarder", w)
          /\ {"heldwait", "hiddenwait", "exitwait"} \subseteq Places
          /\ UNCHANGED collector /\ UNCHANGED <<ev, held>> /\ Counts
      BY <1>5, CountsCases, AllPlaces DEF ForwardHeld, Routing
    <2> QED BY <1>1, <2>1, CountForwarder
  <1>6. CASE ForwardFact
    <2>1. /\ Goes("forwarder", "idle") /\ "idle" \in Places
          /\ UNCHANGED collector /\ UNCHANGED <<ev, held>> /\ Counts
      BY <1>6, CountsCases, AllPlaces DEF ForwardFact
    <2> QED BY <1>1, <2>1, CountForwarder
  <1>7. CASE WorkerEnds
    <2>1. /\ UNCHANGED pc \/ Goes("forwarder", "exit")
          /\ "exit" \in Places
          /\ UNCHANGED collector /\ UNCHANGED ev /\ held' \in {held, NoEvent} /\ Counts
      BY <1>7, CountsCases, AllPlaces DEF WorkerEnds
    <2>2. CASE Goes("forwarder", "exit")
      BY <1>1, <2>1, <2>2, CountForwarder
    <2>3. CASE UNCHANGED pc
      BY <1>1, <1>7, <2>1, <2>3, CountForwarder, AllPlaces DEF WorkerEnds
    <2> QED BY <2>1, <2>2, <2>3
  <1> QED BY <1>2, <1>3, <1>4, <1>5, <1>6, <1>7


\* The new number is above every number that waits or is stored.
LEMMA CountForwardNumber ==
  ASSUME BaseInv, CountInv, ForwardNumber
  PROVE  CountInv'
  <1>1. /\ pc["forwarder"] = "pinned" /\ UNCHANGED collector /\ hydrated' = hydrated
        /\ Carried = {} /\ HandsOK /\ "forwarder" \in Procs
    BY BaseParts, CarriedStays, Names DEF ForwardNumber
  <1>2. ~held.safe /\ ~NoEvent.safe /\ ~Number("done", FALSE, FALSE).safe
    BY UnsafeNumber DEF CountInv, Kinds
  <1>3. CASE \E kind \in Kinds :
               /\ TakeNumber /\ ev' = [ev EXCEPT !["forwarder"] = Number(kind, TRUE, TRUE)]
               /\ Goes("forwarder", "send") /\ UNCHANGED held
    <2>1. PICK kind \in Kinds :
               /\ TakeNumber /\ ev' = [ev EXCEPT !["forwarder"] = Number(kind, TRUE, TRUE)]
               /\ Goes("forwarder", "send") /\ UNCHANGED held
      BY <1>3
    <2>2. PICK e : e = Number(kind, TRUE, TRUE)
      OBVIOUS
    <2>3. e \in Events /\ e.n = counter + 1 /\ (e.safe <=> hydrated)
      BY <2>2, BaseParts, NumberType
    <2>4. pc'["forwarder"] = "send" /\ ev'["forwarder"] = e /\ ev'["inbound"] = ev["inbound"]
      BY <1>1, <2>1, <2>2, <2>3, AllPlaces, Moves, Takes, Names
    <2>5. PICK x : x = Entry(e)
      OBVIOUS
    <2>6. Carried' = {x} /\ x \in Entries /\ x.n = counter + 1 /\ (x.safe <=> hydrated)
      <3>1. Carried' = {Entry(ev'["forwarder"])}
        BY <2>4 DEF Carried, Entry
      <3> QED BY <2>3, <2>4, <2>5, <3>1, EntryType
    <2>7. capture' = capture /\ accum' = accum /\ stored' = stored
      BY <1>1 DEF collector
    <2>8. Waiting' = Waiting \cup {x}
      BY <1>1, <2>6, <2>7, WaitingNext DEF Waiting
    <2>9. \A y \in Waiting \cup stored : ~Meet(y, x)
      <3>1. \A y \in Waiting \cup stored : y.safe /\ hydrated => y.n <= counter /\ y.n \in Nat
        BY WaitingType DEF CountInv
      <3> QED BY <2>6, <3>1, WaitingType DEF Meet
    <2>10. counter' = counter + 1 /\ counter \in Nat /\ \A y \in Waiting \cup stored : y.n \in Nat
      BY <2>1, WaitingType DEF TakeNumber
    <2>11. \A y \in Waiting' : y.safe => hydrated' /\ 0 < y.n /\ y.n <= counter'
      BY <1>1, <2>6, <2>8, <2>10 DEF CountInv
    <2>12. hydrated' => \A y \in stored' : y.safe => y.n <= counter'
      BY <1>1, <2>7, <2>10 DEF CountInv
    <2>13. Contents(capture) \cup Contents(accum) \subseteq Waiting
      BY DEF Waiting
    <2>14. /\ Apart(Contents(capture'), Contents(accum')) /\ Distinct(capture')
           /\ Apart(Contents(capture') \cup Contents(accum'), Carried')
      BY <2>6, <2>7, <2>9, <2>13 DEF CountInv, Apart
    <2>15. Apart(stored', Waiting')
      BY <2>7, <2>8, <2>9 DEF CountInv, Apart
    <2>16. Unsafe'
      BY <2>1, <2>4 DEF CountInv, Unsafe
    <2> QED BY <2>11, <2>12, <2>14, <2>15, <2>16 DEF CountInv, Unsafe, Contents, Distinct, Apart, Meet
  <1>4. CASE /\ Goes("forwarder", "idle") \/ Goes("forwarder", "hidden")
             /\ held' \in {held, NoEvent, Number("done", FALSE, FALSE)} /\ ev' = ev
             /\ TakeNumber \/ UNCHANGED counter
    <2>1. Counts
      BY <1>1, <1>4, CountsCases
    <2> QED BY <1>1, <1>2, <1>4, <2>1, AllPlaces, CountForwarder
  <1> QED BY <1>3, <1>4 DEF ForwardNumber

LEMMA CountForwardCapture ==
  ASSUME BaseInv, CountInv, ForwardCapture
  PROVE  CountInv'
  <1>1. /\ pc["forwarder"] = "capture" /\ Capture(ev["forwarder"]) /\ stored' = stored
        /\ ev' = [ev EXCEPT !["forwarder"] = NoEvent] /\ held' \in {held, NoEvent}
        /\ \E w \in {"fact", "held", "idle"} : Goes("forwarder", w)
        /\ UNCHANGED tables /\ HandsOK /\ "forwarder" \in Procs
    BY BaseParts, Names DEF ForwardCapture
  <1>2. PICK e : e = ev["forwarder"]
    OBVIOUS
  <1>3. e \in Events /\ Capture(e) /\ Counts /\ counter' = counter
    BY <1>1, <1>2, CountsCases DEF HandsOK, tables
  <1>4. Carried = {Entry(e)} /\ Entry(e).n = e.n /\ (Entry(e).safe <=> e.safe)
    BY <1>1, <1>2, <1>3, CarriedStays, EntryType
  <1>5. Carried' = {}
    <2>1. pc'["forwarder"] \in {"fact", "held", "idle"}
      BY <1>1, AllPlaces, Moves
    <2> QED BY <2>1, CarriedStays
  <1>6. e.safe => hydrated /\ 0 < e.n /\ e.n <= counter'
    BY <1>3, <1>4 DEF CountInv, Waiting
  <1>7. Apart(Contents(capture) \cup Contents(accum) \cup stored, {Entry(e)})
    BY <1>4 DEF CountInv, Waiting, Apart
  <1>8. Unsafe'
    <2>1. ev'["inbound"] = ev["inbound"]
      BY <1>1, Takes, NoEventType, Names
    <2> QED BY <1>1, <2>1, UnsafeNumber DEF CountInv, Unsafe, Kinds
  <1> QED BY <1>1, <1>3, <1>5, <1>6, <1>7, <1>8, CountCaptures

\* A held error has a number from before, and is never counted among the safe.
LEMMA CountHeldCapture ==
  ASSUME BaseInv, CountInv, ForwardHeldCapture
  PROVE  CountInv'
  <1>1. /\ Capture(held) /\ held \in Events /\ ~held.safe /\ stored' = stored /\ held' = NoEvent
        /\ Goes("forwarder", "last") \/ Goes("forwarder", "idle")
        /\ UNCHANGED ev /\ UNCHANGED tables /\ HandsOK /\ "forwarder" \in Procs
    BY BaseParts, Names DEF ForwardHeldCapture, HandsOK, CountInv
  <1>2. Carried' \subseteq Carried
    <2>1. pc'["forwarder"] \in {"last", "idle"}
      BY <1>1, AllPlaces, Moves
    <2> QED BY <2>1, CarriedStays
  <1>3. Unsafe'
    BY <1>1, UnsafeNumber DEF CountInv, Unsafe, Kinds
  <1> QED BY <1>1, <1>2, <1>3, CountsCases, CountCaptures

LEMMA CountForwardHidden ==
  ASSUME BaseInv, CountInv, ForwardHidden
  PROVE  CountInv'
  <1>1. /\ pc["forwarder"] = "last" /\ Capture(Number("done", FALSE, TRUE)) /\ stored' = stored
        /\ Goes("forwarder", "fact") /\ TakeNumber /\ hydrated' = hydrated
        /\ UNCHANGED <<ev, held>> /\ HandsOK /\ "forwarder" \in Procs
    BY BaseParts, Names DEF ForwardHidden
  <1>2. PICK e : e = Number("done", FALSE, TRUE)
    OBVIOUS
  <1>3. e \in Events /\ e.n = counter + 1 /\ (e.safe <=> hydrated) /\ Capture(e)
    BY <1>1, <1>2, BaseParts, NumberType DEF Kinds
  <1>4. Carried' = {} /\ Counts /\ counter' = counter + 1
    <2>1. pc'["forwarder"] = "fact"
      BY <1>1, AllPlaces, Moves
    <2> QED BY <1>1, <2>1, CarriedStays, CountsCases DEF TakeNumber
  <1>5. Entry(e).n = e.n /\ (Entry(e).safe <=> e.safe)
    BY <1>3, EntryType
  <1>6. counter \in Nat /\ \A y \in Waiting \cup stored : y.n \in Nat
    BY WaitingType
  <1>7. e.safe => Apart(Contents(capture) \cup Contents(accum) \cup stored, {Entry(e)})
    <2>1. \A y \in Waiting \cup stored : y.safe /\ hydrated => y.n <= counter
      BY DEF CountInv
    <2>2. \A y \in Waiting \cup stored : ~Meet(y, Entry(e))
      BY <1>3, <1>5, <1>6, <2>1 DEF Meet
    <2> QED BY <2>2 DEF Apart, Waiting
  <1>8. e.safe => hydrated /\ 0 < e.n /\ e.n <= counter'
    BY <1>3, <1>4, <1>6
  <1>9. Unsafe'
    BY <1>1 DEF CountInv, Unsafe
  <1> QED BY <1>1, <1>3, <1>4, <1>7, <1>8, <1>9, CountCaptures

LEMMA CountInbound ==
  ASSUME BaseInv, CountInv, CaptureInbound
  PROVE  CountInv'
  <1>1. /\ Goes("inbound", "idle") /\ UNCHANGED tables /\ stored' = stored /\ UNCHANGED held
        /\ ev' = [ev EXCEPT !["inbound"] = NoEvent] /\ HandsOK /\ "inbound" \in Procs
        /\ "forwarder" \in Procs
    BY BaseParts, Names DEF CaptureInbound
  <1>2. ev["inbound"] \in Events /\ ~ev["inbound"].safe
    BY <1>1 DEF HandsOK, CountInv
  <1>3. /\ pc'["forwarder"] = pc["forwarder"] /\ ev'["forwarder"] = ev["forwarder"]
        /\ ev'["inbound"] = NoEvent
    <2>1. pc'["forwarder"] = pc["forwarder"]
      BY <1>1, AllPlaces, Moves
    <2>2. ev'["inbound"] = NoEvent /\ ev'["forwarder"] = ev["forwarder"]
      BY <1>1, Takes, NoEventType
    <2> QED BY <2>1, <2>2
  <1>4. Carried' = Carried
    BY <1>3, CarriedStays
  <1>5. Unsafe'
    BY <1>1, <1>3, UnsafeNumber DEF CountInv, Unsafe, Kinds
  <1>6. Counts
    BY <1>1, CountsCases
  <1>7. CASE Capture(ev["inbound"])
    BY <1>1, <1>2, <1>4, <1>5, <1>6, <1>7, CountCaptures
  <1>8. CASE UNCHANGED <<accum, capture>>
    <2>1. UNCHANGED collector
      BY <1>1, <1>8 DEF collector
    <2> QED BY <1>4, <1>5, <1>6, <2>1, CountRests
  <1> QED BY <1>7, <1>8 DEF CaptureInbound


LEMMA CountOthers ==
  ASSUME BaseInv, CountInv,
         \/ SendLock \/ SendNumber \/ SendEnqueue \/ SendAwait
         \/ NotifyNumber \/ NotifyEnqueue \/ ReadNumber
         \/ Delete \/ NoticeNumber \/ NoticeEnqueue
  PROVE  CountInv'
  <1>1. /\ {"sender", "notifier", "inbound", "deleter"} \subseteq Procs
        /\ "forwarder" \notin {"sender", "notifier", "inbound", "deleter"}
        /\ "inbound" \notin {"sender", "notifier", "deleter"}
    BY Names
  <1>2. /\ \A kind \in Kinds, ordered \in BOOLEAN : Number(kind, ordered, FALSE) \in Events
        /\ ~Number("plain", FALSE, FALSE).safe /\ NoEvent \in Events
    BY UnsafeNumber DEF Kinds
  <1>3. CASE SendLock \/ SendNumber \/ SendEnqueue \/ SendAwait
    <2>1. /\ MovesOnly("sender") /\ UNCHANGED collector /\ held' = held
      BY <1>3, AllPlaces
      DEF SendLock, SendNumber, SendEnqueue, SendAwait, MovesOnly, collector
    <2>2. Counts
      BY <1>3, CountsCases DEF SendLock, SendNumber, SendEnqueue, SendAwait
    <2>3. UNCHANGED ev \/ \E e \in Events : ev' = [ev EXCEPT !["sender"] = e]
      <3>1. CASE SendLock
        BY <3>1 DEF SendLock
      <3>2. CASE SendNumber
        BY <1>2, <3>2 DEF SendNumber, Kinds
      <3>3. CASE SendEnqueue
        BY <1>2, <3>3 DEF SendEnqueue
      <3>4. CASE SendAwait
        BY <1>2, <3>4 DEF SendAwait
      <3> QED BY <1>3, <3>1, <3>2, <3>3, <3>4
    <2> QED BY <1>1, <2>1, <2>2, <2>3, CountBystander
  <1>4. CASE NotifyNumber \/ NotifyEnqueue
    <2>1. /\ MovesOnly("notifier") /\ UNCHANGED collector /\ held' = held /\ Counts
          /\ \E e \in Events : ev' = [ev EXCEPT !["notifier"] = e]
      BY <1>2, <1>4, AllPlaces, CountsCases
      DEF NotifyNumber, NotifyEnqueue, MovesOnly, collector, Kinds
    <2> QED BY <1>1, <2>1, CountBystander
  <1>5. CASE ReadNumber
    <2>1. /\ MovesOnly("inbound") /\ UNCHANGED collector /\ held' = held /\ Counts
          /\ \E e \in Events : ~e.safe /\ ev' = [ev EXCEPT !["inbound"] = e]
      BY <1>2, <1>5, AllPlaces, CountsCases DEF ReadNumber, MovesOnly, collector, Kinds
    <2> QED BY <1>1, <2>1, CountBystander
  <1>6. CASE Delete \/ NoticeNumber \/ NoticeEnqueue
    <2>1. /\ MovesOnly("deleter") /\ UNCHANGED collector /\ held' = held
      BY <1>6, AllPlaces DEF Delete, NoticeNumber, NoticeEnqueue, MovesOnly, collector
    <2>2. Counts
      BY <1>6, CountsCases DEF Delete, NoticeNumber, NoticeEnqueue
    <2>3. UNCHANGED ev \/ \E e \in Events : ev' = [ev EXCEPT !["deleter"] = e]
      BY <1>2, <1>6 DEF Delete, NoticeNumber, NoticeEnqueue, Kinds
    <2> QED BY <1>1, <2>1, <2>2, <2>3, CountBystander
  <1> QED BY <1>3, <1>4, <1>5, <1>6

\* Behind the barrier nobody has an entry in hand.
LEMMA Alone ==
  ASSUME BaseInv, NEW p \in Procs, Locked(p), NEW w \in Places, Goes(p, w),
         w \notin {"send", "await", "capture"}
  PROVE  Carried = {} /\ Carried' = {}
  <1>1. pc["forwarder"] \notin {"send", "await", "capture"}
    <2>1. "forwarder" \notin Readers
      BY DEF Locked
    <2> QED BY <2>1 DEF Readers, Pinned
  <1>2. pc'["forwarder"] \notin {"send", "await", "capture"}
    BY <1>1, BaseParts, Moves, Names
  <1> QED BY <1>1, <1>2, CarriedStays

LEMMA CountAnnounce ==
  ASSUME BaseInv, CountInv, NEW p \in Procs, Announce(p)
  PROVE  CountInv'
  <1>1. /\ Goes(p, "lock") /\ UNCHANGED tables /\ UNCHANGED <<ev, held>> /\ UNCHANGED collector
        /\ HandsOK /\ "forwarder" \in Procs
    BY BaseParts, Names DEF Announce
  <1>2. pc'["forwarder"] = pc["forwarder"] \/ pc'["forwarder"] = "lock"
    BY <1>1, AllPlaces, Moves
  <1>3. Carried' \subseteq Carried
    BY <1>1, <1>2, CarriedStays
  <1>4. Unsafe'
    BY <1>1 DEF CountInv, Unsafe
  <1> QED BY <1>1, <1>3, <1>4, CountsCases, CountRests

\* The counter is forgotten when nothing waits, or nothing that has a number.
LEMMA CountRelease ==
  ASSUME BaseInv, CountInv, NEW p \in Procs, ReleaseSeq(p)
  PROVE  CountInv'
  <1>1. /\ Locked(p) /\ Goes(p, AfterRelease(p)) /\ AfterRelease(p) \in {"create", "failed", "idle"}
        /\ UNCHANGED <<ev, held>>
    BY DEF ReleaseSeq, AfterRelease
  <1>2. Carried = {} /\ Carried' = {}
    BY <1>1, AllPlaces, Alone
  <1>3. Unsafe'
    BY <1>1 DEF CountInv, Unsafe
  <1>4. CASE counter = 0 /\ UNCHANGED collector /\ counter' = 0 /\ hydrated' = FALSE
    <2>1. accum' = accum /\ capture' = capture /\ stored' = stored
      BY <1>4 DEF collector
    <2>2. Waiting' = Waiting
      BY <1>2, <2>1, WaitingNext DEF Waiting
    <2>3. \A x \in Waiting : ~x.safe
      <3>1. ASSUME NEW x \in Waiting, x.safe
            PROVE  FALSE
        <4>1. 0 < x.n /\ x.n <= 0 /\ x.n \in Nat
          BY <1>4, <3>1, WaitingType DEF CountInv
        <4> QED BY <4>1
      <3> QED BY <3>1
    <2>4. \A x \in Waiting' : x.safe => hydrated' /\ 0 < x.n /\ x.n <= counter'
      BY <2>2, <2>3
    <2>5. hydrated' => \A y \in stored' : y.safe => y.n <= counter'
      BY <1>4
    <2>6. /\ Distinct(capture') /\ Apart(Contents(capture'), Contents(accum'))
          /\ Apart(Contents(capture') \cup Contents(accum'), Carried')
          /\ Apart(stored', Waiting')
      BY <1>2, <2>1, <2>2 DEF CountInv
    <2> QED BY <1>3, <2>4, <2>5, <2>6 DEF CountInv, Unsafe, Contents, Distinct, Apart, Meet
  <1>5. CASE FlushSession /\ hydrated' = FALSE
    BY <1>2, <1>3, <1>5, BaseParts, FlushFacts, CountEmpties
  <1>6. CASE UNCHANGED <<collector, counter, hydrated>>
    BY <1>2, <1>3, <1>6, CountsCases, CountRests
  <1> QED BY <1>4, <1>5, <1>6 DEF ReleaseSeq

\* A hydration raises the counter above whatever the drain has stored.
LEMMA CountHydrate ==
  ASSUME BaseInv, CountInv, NEW c \in Conns, EnsureSeqHydrated(c)
  PROVE  CountInv'
  <1>1. /\ Locked(c) /\ c \in Procs /\ \E w \in {"start", "wait", "failed"} : Goes(c, w)
        /\ UNCHANGED <<ev, held>>
    BY Names DEF EnsureSeqHydrated
  <1>2. Carried = {} /\ Carried' = {}
    BY <1>1, AllPlaces, Alone
  <1>3. Unsafe'
    BY <1>1 DEF CountInv, Unsafe
  <1>4. CASE UNCHANGED <<collector, counter>> /\ hydrated' = hydrated
    BY <1>2, <1>3, <1>4, CountsCases, CountRests
  <1>5. CASE FlushSession /\ counter' = Raised(LatestSeq(stored'))
    <2>1. /\ LatestSeq(stored') \in Nat /\ \A y \in stored' : y.n <= LatestSeq(stored')
          /\ counter \in Nat
      BY <1>5, HydrationReads, WaitingType
    <2>2. stored' \subseteq Entries
      BY <1>5, BaseParts, FlushFacts DEF CollectorOK
    <2>3. \A y \in stored' : y.n \in Nat /\ y.n <= counter'
      BY <1>5, <2>1, <2>2 DEF Raised, Entries
    <2> QED BY <1>2, <1>3, <1>5, <2>3, BaseParts, FlushFacts, CountEmpties
  <1>6. hydrated \in BOOLEAN
    BY BaseParts DEF TablesOK
  <1> QED BY <1>4, <1>5, <1>6 DEF EnsureSeqHydrated


LEMMA CountConnections ==
  ASSUME BaseInv, CountInv, NEW c \in Conns,
         \/ Handshake(c) \/ CreateSession(c) \/ StartWorker(c) \/ InitAck(c) \/ MarkInitDone(c)
         \/ WritePump(c) \/ Disconnect(c) \/ UnregisterConn(c)
  PROVE  CountInv'
  <1>1. c \in Procs /\ c # "forwarder"
    BY Names
  <1>2. MovesOnly(c) /\ UNCHANGED collector /\ UNCHANGED <<ev, held>>
    <2>1. CASE Handshake(c) \/ CreateSession(c) \/ StartWorker(c) \/ InitAck(c)
      BY <2>1, AllPlaces DEF Handshake, CreateSession, StartWorker, InitAck, MovesOnly
    <2>2. CASE MarkInitDone(c) \/ WritePump(c) \/ Disconnect(c) \/ UnregisterConn(c)
      BY <2>2, AllPlaces DEF MarkInitDone, WritePump, Disconnect, UnregisterConn, MovesOnly
    <2> QED BY <2>1, <2>2
  <1>3. Counts
    <2>1. CASE Handshake(c) \/ CreateSession(c) \/ StartWorker(c)
      BY <2>1, CountsCases DEF Handshake, CreateSession, StartWorker
    <2>2. CASE InitAck(c)
      BY <2>2, CountsCases DEF InitAck
    <2>3. CASE MarkInitDone(c) \/ WritePump(c) \/ Disconnect(c) \/ UnregisterConn(c)
      BY <2>3, CountsCases DEF MarkInitDone, WritePump, Disconnect, UnregisterConn
    <2> QED BY <2>1, <2>2, <2>3
  <1> QED BY <1>1, <1>2, <1>3, CountBystander

\* Routing, and no step at all.
LEMMA CountStutters ==
  ASSUME BaseInv, CountInv, Route \/ UNCHANGED vars
  PROVE  CountInv'
  <1>1. UNCHANGED collector /\ UNCHANGED tables /\ UNCHANGED <<pc, ev, held>>
    BY DEF Route, vars
  <1>2. MovesOnly("deleter") /\ "deleter" \in Procs
    BY <1>1, Names DEF MovesOnly
  <1> QED BY <1>1, <1>2, CountsCases, CountBystander

\* A stop of the gateway loses what waits, and the next counter is not hydrated.
LEMMA CountCrash ==
  ASSUME Crash
  PROVE  CountInv'
  <1>1. /\ capture' = << >> /\ accum' = << >> /\ held' = NoEvent /\ hydrated' = FALSE
        /\ ev'["inbound"] = NoEvent /\ pc'["forwarder"] = "idle"
    BY Names DEF Crash
  <1>2. Contents(accum') = {} /\ Carried' = {}
    BY <1>1, EmptyContents, CarriedStays
  <1>3. Unsafe'
    BY <1>1 DEF Unsafe, NoEvent
  <1> QED BY <1>1, <1>2, <1>3, CountEmpties

LEMMA CountInit == Init => CountInv
  <1> SUFFICES ASSUME Init
               PROVE  CountInv
    OBVIOUS
  <1>1. /\ capture = << >> /\ accum = << >> /\ stored = {} /\ held = NoEvent
        /\ ev["inbound"] = NoEvent /\ pc["forwarder"] = "idle"
    BY Names DEF Init
  <1>2. Contents(accum) = {} /\ Contents(capture) = {} /\ Carried = {} /\ Distinct(capture)
    BY <1>1, EmptyContents, CarriedStays, SortedEmpty
  <1> QED BY <1>1, <1>2 DEF CountInv, Waiting, Apart, NoEvent

LEMMA CountStep == BaseInv /\ CountInv /\ [Next]_vars => CountInv'
  <1> SUFFICES ASSUME BaseInv, CountInv, [Next]_vars
               PROVE  CountInv'
    OBVIOUS
  <1>1. CASE Producer
    BY <1>1, CountForwardQuiet, CountForwardNumber, CountForwardCapture, CountHeldCapture,
       CountForwardHidden, CountInbound, CountOthers
    DEF Producer
  <1>2. CASE Delete \/ NoticeNumber \/ NoticeEnqueue \/ Route \/ Write
             \/ FlushTimedOutAccumulators \/ UNCHANGED vars
    BY <1>2, CountOthers, CountStutters, CountWrites, CountFlushes
  <1>3. CASE \E p \in Procs : Announce(p) \/ ReleaseSeq(p)
    BY <1>3, CountAnnounce, CountRelease
  <1>4. ASSUME NEW c \in Conns,
               \/ Handshake(c) \/ CreateSession(c) \/ EnsureSeqHydrated(c) \/ StartWorker(c)
               \/ InitAck(c) \/ MarkInitDone(c) \/ WritePump(c) \/ Disconnect(c)
               \/ UnregisterConn(c)
        PROVE  CountInv'
    BY <1>4, CountConnections, CountHydrate
  <1>5. CASE Crash
    BY <1>5, CountCrash
  <1> QED BY <1>1, <1>2, <1>3, <1>4, <1>5 DEF Next

LEMMA Counted == Spec => []CountInv
  BY CountInit, CountStep, Based, PTL DEF Spec

LEMMA PendingDistinct ==
  ASSUME BaseInv, CountInv
  PROVE  Distinct(Pending) /\ Contents(Pending) = Waiting
  <1>1. /\ capture \in Seq(Entries) /\ accum \in Seq(Entries) /\ Distinct(capture)
        /\ Distinct(accum)
    BY BaseParts, ShortDistinct DEF CollectorOK, CountInv
  <1>2. InHand \in Seq(Entries) /\ Distinct(InHand)
    <2>1. ev["forwarder"] \in Events
      BY BaseParts, Names DEF HandsOK
    <2>2. Entry(ev["forwarder"]) \in Entries
      BY <2>1, EntryType
    <2>3. InHand = <<Entry(ev["forwarder"])>> \/ InHand = << >>
      BY Zenon DEF InHand
    <2>4. << >> \in Seq(Entries) /\ Distinct(<< >>)
      BY SortedEmpty
    <2> QED BY <2>2, <2>3, <2>4, OneEntry
  <1>3. PICK both : both = capture \o accum
    OBVIOUS
  <1>4. /\ both \in Seq(Entries) /\ Contents(both) = Contents(capture) \cup Contents(accum)
        /\ Distinct(both)
    BY <1>1, <1>3, Concatenated, DistinctConcat DEF CountInv
  <1>5. PICK hand : hand = InHand
    OBVIOUS
  <1>6. hand \in Seq(Entries) /\ Distinct(hand) /\ Contents(hand) = Carried
    BY <1>2, <1>5, CarriedIs
  <1>7. Apart(Contents(both), Contents(hand))
    BY <1>4, <1>6 DEF CountInv
  <1>8. Distinct(both \o hand) /\ Contents(both \o hand) = Contents(both) \cup Contents(hand)
    <2>1. both \in Seq(Entries) /\ hand \in Seq(Entries) /\ Distinct(both) /\ Distinct(hand)
      BY <1>4, <1>6
    <2>2. Distinct(both \o hand)
      BY <1>7, <2>1, DistinctConcat
    <2>3. Contents(both \o hand) = Contents(both) \cup Contents(hand)
      BY <2>1, Concatenated
    <2> QED BY <2>2, <2>3
  <1>9. Pending = both \o hand
    BY <1>3, <1>5 DEF Pending
  <1> QED BY <1>4, <1>6, <1>8, <1>9 DEF Waiting

\* A worker event numbered from a hydrated counter never meets another under its
\* number in the collector or in the table: EnsureSeqHydrated raises the counter
\* above the table, and ReleaseSeq forgets it only when the producers have left
\* the barrier and FlushSession has drained the collector.
THEOREM NumbersNeverMeet == Spec => []NoCollision
  <1>1. BaseInv /\ CountInv => NoCollision
    <2> SUFFICES ASSUME BaseInv, CountInv
                 PROVE  NoCollision
      OBVIOUS
    <2>1. Distinct(Pending) /\ Contents(Pending) = Waiting
      BY PendingDistinct
    <2>2. ASSUME NEW i \in DOMAIN Pending
          PROVE  /\ \A j \in DOMAIN Pending : Meet(Pending[i], Pending[j]) => i = j
                 /\ \A y \in stored : ~Meet(y, Pending[i])
      <3>1. Pending[i] \in Waiting
        BY <2>1 DEF Contents
      <3>2. \A j \in DOMAIN Pending : Meet(Pending[i], Pending[j]) => i = j
        BY <2>1 DEF Distinct
      <3> QED BY <3>1, <3>2 DEF CountInv, Apart
    <2> QED BY <2>2 DEF NoCollision
  <1> QED BY <1>1, Based, Counted, PTL


=============================================================================
