-------------------------- MODULE AuditTrailProofs --------------------------
(***************************************************************************)
(* What holds of the audit trail for every number of events, every size of *)
(* the channel and of a batch, every retention, every legacy chain and any *)
(* number of faults and restarts.                                          *)
(***************************************************************************)
EXTENDS AuditTrail, WellFoundedInduction, TLAPS

-----------------------------------------------------------------------------
(* Numbers and sequences. *)

\* A set of natural numbers has a least element.
LEMMA LeastExists ==
    ASSUME NEW T \in SUBSET Nat, T # {}
    PROVE  \E x \in T : \A y \in T : x <= y
<1> DEFINE LT == {p \in Nat \X Nat : p[1] < p[2]}
<1>1. IsWellFoundedOn(LT, Nat)
    BY NatLessThanWellFounded DEF OpToRel
<1>2. PICK x \in T : \A y \in T : ~(<<y, x>> \in LT)
    <2> HIDE DEF LT
    <2> QED BY <1>1, WFMin
<1>3. ASSUME NEW y \in T PROVE x <= y
    <2>1. <<y, x>> \in Nat \X Nat /\ <<y, x>>[1] = y /\ <<y, x>>[2] = x
        OBVIOUS
    <2>2. ~(y < x)
        BY <2>1, <1>2
    <2> QED BY <2>2
<1> QED BY <1>3

\* A set of natural numbers below a bound has a greatest element.
LEMMA GreatestExists ==
    ASSUME NEW N \in Nat, NEW T \in SUBSET (0..N), T # {}
    PROVE  \E x \in T : \A y \in T : x >= y
<1> DEFINE U == {N - t : t \in T}
<1>1. U \in SUBSET Nat /\ U # {}
    <2>1. \A t \in T : N - t \in Nat
        OBVIOUS
    <2>2. PICK t \in T : TRUE
        OBVIOUS
    <2>3. N - t \in U
        BY <2>2
    <2> QED BY <2>1, <2>3
<1>2. PICK u \in U : \A v \in U : u <= v
    <2> HIDE DEF U
    <2> QED BY <1>1, LeastExists
<1>3. PICK x \in T : u = N - x
    BY <1>2
<1>4. ASSUME NEW y \in T PROVE x >= y
    <2>1. N - x <= N - y
        BY <1>2, <1>3
    <2> QED BY <2>1
<1> QED BY <1>4

\* The elements of a sequence that grew by one.
LEMMA ToSetAppend ==
    ASSUME NEW S, NEW s \in Seq(S), NEW x
    PROVE  ToSet(Append(s, x)) = ToSet(s) \cup {x}
BY DEF ToSet

\* The elements of a sequence are its head and the elements of its tail.
LEMMA ToSetTail ==
    ASSUME NEW S, NEW s \in Seq(S), s # << >>
    PROVE  ToSet(s) = ToSet(Tail(s)) \cup {Head(s)}
<1>1. Head(s) = s[1] /\ Len(s) \in Nat /\ Len(s) > 0 /\ DOMAIN s = 1..Len(s)
    OBVIOUS
<1>2. /\ DOMAIN Tail(s) = 1..(Len(s) - 1)
      /\ \A i \in 1..(Len(s) - 1) : Tail(s)[i] = s[i + 1]
    BY <1>1
<1>3. ASSUME NEW i \in DOMAIN s
      PROVE  s[i] = Head(s) \/ \E j \in DOMAIN Tail(s) : s[i] = Tail(s)[j]
    <2>1. CASE i = 1
        BY <2>1, <1>1
    <2>2. CASE i # 1
        <3>1. i - 1 \in DOMAIN Tail(s) /\ Tail(s)[i - 1] = s[i]
            BY <2>2, <1>1, <1>2
        <3> QED BY <3>1
    <2> QED BY <2>1, <2>2
<1>4. ASSUME NEW j \in DOMAIN Tail(s) PROVE \E i \in DOMAIN s : s[i] = Tail(s)[j]
    BY <1>1, <1>2, j + 1 \in DOMAIN s
<1>5. 1 \in DOMAIN s
    BY <1>1
<1> QED BY <1>1, <1>3, <1>4, <1>5 DEF ToSet

\* The elements of a sequence over a set are in the set; the empty one has none.
LEMMA ToSetSubset ==
    ASSUME NEW S, NEW s \in Seq(S)
    PROVE  ToSet(s) \subseteq S /\ ToSet(<< >>) = {}
BY DEF ToSet

LEMMA HeadTailType ==
    ASSUME NEW S, NEW s \in Seq(S), s # << >>
    PROVE  Head(s) \in S /\ Tail(s) \in Seq(S) /\ Len(Tail(s)) = Len(s) - 1
OBVIOUS

-----------------------------------------------------------------------------
(* Types. *)

\* The spill file with another record, whole or torn.
LEMMA SpillType ==
    ASSUME ATypeOK, NEW r \in Events
    PROVE  /\ spill \in Seq(Events \cup {Torn})
           /\ Append(spill, r) \in Seq(Events \cup {Torn})
           /\ Append(spill, Torn) \in Seq(Events \cup {Torn})
BY DEF ATypeOK

\* What a reader of the spill file makes out are events.
LEMMA ReadableType ==
    ASSUME ATypeOK
    PROVE  Readable \in Seq(Events)
<1> DEFINE torn == {i \in DOMAIN spill : spill[i] = Torn}
<1>1. spill \in Seq(Events \cup {Torn}) /\ Len(spill) \in Nat /\ DOMAIN spill = 1..Len(spill)
    BY DEF ATypeOK
<1>2. CASE torn = {}
    <2>1. \A i \in 1..Len(spill) : spill[i] \in Events
        BY <1>1, <1>2
    <2>2. spill \in Seq(Events)
        BY <1>1, <2>1
    <2> QED BY <1>2, <2>2 DEF Readable
<1>3. CASE torn # {}
    <2>1. torn \in SUBSET Nat
        BY <1>1
    <2> DEFINE k == CHOOSE i \in torn : \A j \in torn : i <= j
    <2>2. k \in torn /\ \A j \in torn : k <= j
        <3> HIDE DEF torn
        <3> QED BY <1>3, <2>1, LeastExists
    <2>3. Readable = SubSeq(spill, 1, k - 1)
        BY <1>3 DEF Readable
    <2> HIDE DEF k
    <2>4. k \in 1..Len(spill)
        BY <2>2, <1>1
    <2>5. \A i \in 1..(k - 1) : spill[i] \in Events
        BY <2>2, <2>4, <1>1
    <2>6. SubSeq(spill, 1, k - 1) \in Seq(Events)
        BY <2>4, <2>5, <1>1
    <2> QED BY <2>3, <2>6
<1> QED BY <1>2, <1>3

LEMMA ATypeInit == Init => ATypeOK
BY AuditAssumption DEF Init, ATypeOK

\* Calls of Enqueue.
LEMMA ATypeCalls ==
    ASSUME ATypeOK, NEW e \in Events,
           Call(e) \/ Send(e) \/ Overflow(e) \/ SpillWrite(e) \/ SpillFails(e) \/ GiveUp(e)
    PROVE  ATypeOK'
<1> USE AuditAssumption
<1>1. CASE Call(e)
    BY <1>1 DEF ATypeOK, Call, memory, fate
<1>2. CASE Send(e)
    BY <1>2 DEF ATypeOK, Send, HasRoom, fate
<1>3. CASE Overflow(e)
    BY <1>3 DEF ATypeOK, Overflow, memory, fate
<1>4. CASE SpillWrite(e)
    BY <1>4 DEF ATypeOK, SpillWrite, Written, HasRoom, fate
<1>5. CASE SpillFails(e)
    <2>1. spill' \in Seq(Events \cup {Torn})
        BY <1>5, SpillType DEF SpillFails, NotWritten
    <2> QED BY <1>5, <2>1 DEF ATypeOK, SpillFails, memory, fate
<1>6. CASE GiveUp(e)
    BY <1>6 DEF ATypeOK, GiveUp, memory
<1> QED BY <1>1, <1>2, <1>3, <1>4, <1>5, <1>6

\* A committed batch leaves the collector's own state to its flush.
LEMMA CommitType ==
    ASSUME ATypeOK, NEW es \in Seq(Events), Commit(es)
    PROVE  stored' \subseteq Events
BY ToSetSubset DEF ATypeOK, Commit

LEMMA ReturnType ==
    ASSUME ATypeOK, NEW r \in Events, Return(r)
    PROVE  spill' \in Seq(Events \cup {Torn}) /\ dropped' \subseteq Events
<1>1. CASE Written(r) /\ UNCHANGED dropped
    BY <1>1, SpillType DEF ATypeOK, Written
<1>2. CASE NotWritten /\ dropped' = dropped \cup {r}
    BY <1>2, SpillType DEF ATypeOK, NotWritten
<1> QED BY <1>1, <1>2 DEF Return

\* The writer's steps.
LEMMA ATypeWriter ==
    ASSUME ATypeOK, Writes \/ FlushTick
    PROVE  ATypeOK'
<1> USE AuditAssumption
<1>1. CASE TakeOne
    <2>1. Head(channel) \in Events \cup {Sentinel} /\ Tail(channel) \in Seq(Events \cup {Sentinel})
          /\ Len(Tail(channel)) = Len(channel) - 1
        BY <1>1, HeadTailType DEF TakeOne, ATypeOK
    <2> QED BY <1>1, <2>1 DEF ATypeOK, TakeOne, WithHead, calls, fate
<1>2. CASE TakeRest
    <2>1. CASE channel # << >>
        <3>1. Head(channel) \in Events \cup {Sentinel} /\ Tail(channel) \in Seq(Events \cup {Sentinel})
              /\ Len(Tail(channel)) = Len(channel) - 1
            BY <2>1, HeadTailType DEF ATypeOK
        <3>2. batch' \in Seq(Events)
            <4>1. batch' = WithHead /\ batch \in Seq(Events)
                BY <1>2, <2>1 DEF ATypeOK, TakeRest
            <4> QED BY <4>1, <3>1 DEF WithHead
        <3>3. channel' = Tail(channel) /\ writer' = "closing" /\ UNCHANGED after
            BY <1>2, <2>1 DEF TakeRest
        <3> QED BY <1>2, <3>1, <3>2, <3>3 DEF ATypeOK, TakeRest, calls, fate
    <2>2. CASE channel = << >>
        BY <1>2, <2>2 DEF ATypeOK, TakeRest, calls, fate
    <2> QED BY <2>1, <2>2
<1>3. CASE FlushTick
    BY <1>3 DEF ATypeOK, FlushTick, calls, fate
<1>4. CASE Flush
    <2>1. stored' \subseteq Events
        BY <1>4, CommitType DEF ATypeOK, Flush, FlushBatch, chain
    <2> QED BY <1>4, <2>1 DEF ATypeOK, Flush, FlushBatch, FlushedTo, calls
<1>5. CASE Respill
    <2>1. Head(batch) \in Events /\ Tail(batch) \in Seq(Events)
        BY <1>5, HeadTailType DEF Respill, ATypeOK
    <2>2. spill' \in Seq(Events \cup {Torn}) /\ dropped' \subseteq Events
        BY <1>5, <2>1, ReturnType DEF Respill
    <2> QED BY <1>5, <2>1, <2>2 DEF ATypeOK, Respill, FlushedTo, calls
<1>6. CASE Drain
    <2>1. Readable \in Seq(Events)
        BY ReadableType
    <2>2. buried' \subseteq Events
        BY <1>6, ToSetSubset DEF ATypeOK, Drain
    <2>3. recs' \in Seq(Events) /\ spill' \in Seq(Events \cup {Torn})
        <3>1. \/ recs' = recs /\ spill' = spill
              \/ recs' = Readable /\ spill' = << >>
            BY <1>6 DEF Drain
        <3>2. /\ recs \in Seq(Events) /\ spill \in Seq(Events \cup {Torn})
              /\ << >> \in Seq(Events \cup {Torn})
            BY DEF ATypeOK
        <3> QED BY <2>1, <3>1, <3>2, Zenon
    <2>4. DrainedTo \in {"select", "ended"} /\ recs = << >>
        BY <1>6 DEF ATypeOK, Drain, DrainedTo
    <2>5. /\ writer' \in {"select", "ended", "replay"}
          /\ (writer' = "replay") <=> (recs' # << >>)
        BY <1>6, <2>4 DEF Drain
    <2> QED BY <1>6, <2>2, <2>3, <2>5 DEF ATypeOK, Drain, calls
<1>7. CASE Replay
    <2>1. stored' \subseteq Events
        BY <1>7, CommitType DEF ATypeOK, Replay, FlushBatch, chain
    <2>2. DrainedTo \in {"select", "ended"} /\ recs # << >>
        BY <1>7 DEF ATypeOK, Replay, DrainedTo
    <2>3. \/ recs' = << >> /\ writer' = DrainedTo
          \/ recs' = recs /\ writer' = "restore"
        BY <1>7 DEF Replay, FlushBatch
    <2>4. UNCHANGED <<profile, now, calls, channel, batch, after, spill, dropped, lost, buried>>
        BY <1>7 DEF Replay
    <2>5. /\ recs' \in Seq(Events)
          /\ writer' \in {"select", "ended", "restore"}
          /\ (writer' = "restore") <=> (recs' # << >>)
        <3>1. recs \in Seq(Events) /\ << >> \in Seq(Events)
            BY DEF ATypeOK
        <3>2. CASE recs' = << >> /\ writer' = DrainedTo
            BY <3>1, <3>2, <2>2
        <3>3. CASE recs' = recs /\ writer' = "restore"
            BY <3>1, <3>3, <2>2
        <3> QED BY <3>2, <3>3, <2>3
    <2> QED BY <2>1, <2>4, <2>5 DEF ATypeOK, calls
<1>8. CASE Restore
    <2>1. Head(recs) \in Events /\ Tail(recs) \in Seq(Events)
        BY <1>8, HeadTailType DEF Restore, ATypeOK
    <2>2. spill' \in Seq(Events \cup {Torn}) /\ dropped' \subseteq Events
        BY <1>8, <2>1, ReturnType DEF Restore
    <2> QED BY <1>8, <2>1, <2>2 DEF ATypeOK, Restore, DrainedTo, calls
<1> QED BY <1>1, <1>2, <1>3, <1>4, <1>5, <1>6, <1>7, <1>8 DEF Writes

LEMMA ATypeRestart ==
    ASSUME ATypeOK, Restart
    PROVE  ATypeOK'
<1>1. InMemory \subseteq Events
    BY ToSetSubset DEF InMemory, ATypeOK
<1>2. pc' \in [Events -> {"new", "admit", "write", "block", "accepted", "refused"}]
    BY DEF ATypeOK, Restart
<1>3. spill' \in Seq(Events \cup {Torn})
    <2>1. Append(spill, Torn) \in Seq(Events \cup {Torn})
        BY DEF ATypeOK
    <2> QED BY <2>1 DEF ATypeOK, Restart
<1> QED BY <1>1, <1>2, <1>3, AuditAssumption DEF ATypeOK, Restart

LEMMA ATypeNext ==
    ASSUME ATypeOK, [Next]_vars
    PROVE  ATypeOK'
<1> USE AuditAssumption
<1>1. ASSUME NEW e \in Events, Call(e) \/ Send(e) \/ Overflow(e) \/ SpillWrite(e)
                               \/ SpillFails(e) \/ GiveUp(e)
      PROVE  ATypeOK'
    BY <1>1, ATypeCalls
<1>2. CASE Writes \/ FlushTick
    BY <1>2, ATypeWriter
<1>3. CASE Close
    BY <1>3 DEF ATypeOK, Close, calls, fate
<1>4. CASE Restart
    BY <1>4, ATypeRestart
<1>5. CASE Clock
    BY <1>5 DEF ATypeOK, Clock, calls, memory, fate
<1>6. ASSUME NEW cutoff \in 0..now, Prune(cutoff) PROVE ATypeOK'
    BY <1>6 DEF ATypeOK, Prune, calls, memory, fate
<1>7. ASSUME NEW i \in DOMAIN rows, RebaseRead(i) PROVE ATypeOK'
    BY <1>7 DEF ATypeOK, RebaseRead, calls, memory, fate
<1>8. CASE RebaseSave
    BY <1>8 DEF ATypeOK, RebaseSave, calls, memory, fate
<1>9. CASE UNCHANGED vars
    BY <1>9 DEF ATypeOK, vars, calls, memory, fate
<1> QED BY <1>1, <1>2, <1>3, <1>4, <1>5, <1>6, <1>7, <1>8, <1>9 DEF Next

\* Every reachable state of the collector, its spill file and its writer is
\* well typed, and the writer holds drained records only while it replays or
\* returns them.
THEOREM AuditTypeCorrect == Spec => []ATypeOK
BY ATypeInit, ATypeNext, PTL DEF Spec

-----------------------------------------------------------------------------
(* Accepted events. *)

\* Where an accepted event may be, or what became of it.
Accounted == InMemory \cup ToSet(spill) \cup stored \cup dropped \cup lost \cup buried

\* Nothing is lost by a step that accepts nothing new and keeps what it finds.
LEMMA Kept ==
    ASSUME NothingLost,
           \A x \in Events : pc'[x] = "accepted" => pc[x] = "accepted",
           \A x \in Events : x \in Accounted => x \in Accounted'
    PROVE  NothingLost'
BY DEF NothingLost, Accounted

\* The elements of the sequences an event may be in are those of their types.
LEMMA SpillGrows ==
    ASSUME ATypeOK, NEW r, spill' \in {spill, Append(spill, r)}
    PROVE  ToSet(spill) \subseteq ToSet(spill')
BY ToSetAppend DEF ATypeOK

LEMMA NothingLostCalls ==
    ASSUME ATypeOK, NothingLost, NEW e \in Events,
           Call(e) \/ Send(e) \/ Overflow(e) \/ SpillWrite(e) \/ SpillFails(e) \/ GiveUp(e)
    PROVE  NothingLost'
<1>0. pc \in [Events -> {"new", "admit", "write", "block", "accepted", "refused"}]
    BY DEF ATypeOK
<1>1. CASE Call(e)
    <2>1. \A x \in Events : pc'[x] = "accepted" => pc[x] = "accepted"
        BY <1>0, <1>1 DEF Call
    <2>2. Accounted' = Accounted
        BY <1>1 DEF Call, Accounted, InMemory, memory, fate
    <2> QED BY <2>1, <2>2, Kept
<1>2. CASE Send(e)
    <2>1. ToSet(channel') = ToSet(channel) \cup {e}
        BY <1>2, ToSetAppend DEF Send, ATypeOK
    <2>2. \A x \in Events : pc'[x] = "accepted" => pc[x] = "accepted" \/ x = e
        BY <1>0, <1>2 DEF Send
    <2> QED BY <1>2, <2>1, <2>2, AuditAssumption DEF NothingLost, InMemory, Send, fate
<1>3. CASE Overflow(e)
    <2>1. \A x \in Events : pc'[x] = "accepted" => pc[x] = "accepted"
        BY <1>0, <1>3 DEF Overflow
    <2>2. Accounted' = Accounted
        BY <1>3 DEF Overflow, Accounted, InMemory, memory, fate
    <2> QED BY <2>1, <2>2, Kept
<1>4. CASE SpillWrite(e)
    <2>1. ToSet(spill') = ToSet(spill) \cup {e}
        BY <1>4, ToSetAppend DEF SpillWrite, Written, ATypeOK
    <2>2. ToSet(channel) \subseteq ToSet(channel')
        BY <1>4, ToSetAppend DEF SpillWrite, ATypeOK
    <2>3. \A x \in Events : pc'[x] = "accepted" => pc[x] = "accepted" \/ x = e
        BY <1>0, <1>4 DEF SpillWrite
    <2> QED BY <1>4, <2>1, <2>2, <2>3 DEF NothingLost, InMemory, SpillWrite, fate
<1>5. CASE SpillFails(e)
    <2>1. \A x \in Events : pc'[x] = "accepted" => pc[x] = "accepted"
        BY <1>0, <1>5 DEF SpillFails
    <2>2. ToSet(spill) \subseteq ToSet(spill')
        BY <1>5, SpillGrows DEF SpillFails, NotWritten
    <2>3. Accounted \subseteq Accounted'
        BY <1>5, <2>2 DEF SpillFails, Accounted, InMemory, memory, fate
    <2> QED BY <2>1, <2>3, Kept
<1>6. CASE GiveUp(e)
    <2>1. \A x \in Events : pc'[x] = "accepted" => pc[x] = "accepted"
        BY <1>0, <1>6 DEF GiveUp
    <2>2. Accounted \subseteq Accounted'
        BY <1>6 DEF GiveUp, Accounted, InMemory, memory
    <2> QED BY <2>1, <2>2, Kept
<1> QED BY <1>1, <1>2, <1>3, <1>4, <1>5, <1>6

\* A record that returns to the spill file is in it afterwards or is counted.
LEMMA ReturnKeeps ==
    ASSUME ATypeOK, NEW r \in Events, Return(r)
    PROVE  ToSet(spill) \cup dropped \cup {r} \subseteq ToSet(spill') \cup dropped'
<1>1. CASE Written(r) /\ UNCHANGED dropped
    BY <1>1, ToSetAppend DEF ATypeOK, Written
<1>2. CASE NotWritten /\ dropped' = dropped \cup {r}
    BY <1>2, SpillGrows DEF NotWritten
<1> QED BY <1>1, <1>2 DEF Return

LEMMA NothingLostWriter ==
    ASSUME ATypeOK, NothingLost, Writes \/ FlushTick
    PROVE  NothingLost'
<1>1. UNCHANGED pc
    <2>1. UNCHANGED calls
        BY DEF Writes, TakeOne, TakeRest, FlushTick, Flush, Respill, Drain, Replay, Restore
    <2> QED BY <2>1 DEF calls
<1> SUFFICES \A x \in Events : x \in Accounted => x \in Accounted'
    BY <1>1, Kept
<1>2. ASSUME channel # << >>, channel' = Tail(channel), batch' = WithHead,
             UNCHANGED <<recs, spill, fate>>
      PROVE  \A x \in Events : x \in Accounted => x \in Accounted'
    <2>1. ToSet(channel) = ToSet(channel') \cup {Head(channel)}
        BY <1>2, ToSetTail DEF ATypeOK
    <2>2. /\ ToSet(batch) \subseteq ToSet(batch')
          /\ Head(channel) # Sentinel => Head(channel) \in ToSet(batch')
        BY <1>2, ToSetAppend DEF ATypeOK, WithHead
    <2> QED BY <1>2, <2>1, <2>2, AuditAssumption DEF Accounted, InMemory, fate
<1>3. CASE TakeOne
    BY <1>2, <1>3 DEF TakeOne
<1>4. CASE TakeRest
    <2>1. CASE channel # << >>
        BY <1>2, <1>4, <2>1 DEF TakeRest
    <2>2. CASE channel = << >>
        BY <1>4, <2>2 DEF TakeRest, Accounted, InMemory, fate
    <2> QED BY <2>1, <2>2
<1>5. CASE FlushTick
    BY <1>5 DEF FlushTick, Accounted, InMemory, fate
<1>6. CASE Flush
    <2>1. UNCHANGED <<channel, recs, spill, dropped, lost, buried>>
        BY <1>6 DEF Flush
    <2>2. \/ batch' = batch /\ stored \subseteq stored'
          \/ ToSet(batch) \cup stored \subseteq stored'
        BY <1>6 DEF Flush, FlushBatch, Commit
    <2> QED BY <2>1, <2>2 DEF Accounted, InMemory
<1>7. CASE Respill
    <2>1. Head(batch) \in Events /\ batch # << >>
        BY <1>7, HeadTailType DEF Respill, ATypeOK
    <2>2. ToSet(batch) = ToSet(batch') \cup {Head(batch)}
        BY <1>7, <2>1, ToSetTail DEF Respill, ATypeOK
    <2>3. ToSet(spill) \cup dropped \cup {Head(batch)} \subseteq ToSet(spill') \cup dropped'
        BY <1>7, <2>1, ReturnKeeps DEF Respill
    <2>4. UNCHANGED <<channel, recs, stored, lost, buried>>
        BY <1>7 DEF Respill
    <2> QED BY <2>2, <2>3, <2>4 DEF Accounted, InMemory
<1>8. CASE Drain
    <2>1. UNCHANGED <<channel, batch, stored, dropped, lost>>
        BY <1>8 DEF Drain
    <2>2. recs = << >>
        BY <1>8 DEF Drain, ATypeOK
    <2>3. \/ UNCHANGED <<recs, spill, buried>>
          \/ /\ recs' = Readable
             /\ buried' = buried \cup ((ToSet(spill) \ {Torn}) \ ToSet(Readable))
        BY <1>8 DEF Drain
    <2>4. ToSet(recs) = {}
        BY <2>2, ToSetSubset DEF ATypeOK
    <2> QED BY <2>1, <2>3, <2>4, AuditAssumption DEF Accounted, InMemory
<1>9. CASE Replay
    <2>1. UNCHANGED <<channel, batch, spill, dropped, lost, buried>>
        BY <1>9 DEF Replay
    <2>2. \/ recs' = recs /\ stored \subseteq stored'
          \/ ToSet(recs) \cup stored \subseteq stored'
        BY <1>9 DEF Replay, FlushBatch, Commit
    <2> QED BY <2>1, <2>2 DEF Accounted, InMemory
<1>10. CASE Restore
    <2>1. Head(recs) \in Events /\ recs # << >>
        BY <1>10, HeadTailType DEF Restore, ATypeOK
    <2>2. ToSet(recs) = ToSet(recs') \cup {Head(recs)}
        BY <1>10, <2>1, ToSetTail DEF Restore, ATypeOK
    <2>3. ToSet(spill) \cup dropped \cup {Head(recs)} \subseteq ToSet(spill') \cup dropped'
        BY <1>10, <2>1, ReturnKeeps DEF Restore
    <2>4. UNCHANGED <<channel, batch, stored, lost, buried>>
        BY <1>10 DEF Restore
    <2> QED BY <2>2, <2>3, <2>4 DEF Accounted, InMemory
<1> QED BY <1>3, <1>4, <1>5, <1>6, <1>7, <1>8, <1>9, <1>10 DEF Writes

LEMMA NothingLostNext ==
    ASSUME ATypeOK, NothingLost, [Next]_vars
    PROVE  NothingLost'
<1>1. ASSUME NEW e \in Events, Call(e) \/ Send(e) \/ Overflow(e) \/ SpillWrite(e)
                               \/ SpillFails(e) \/ GiveUp(e)
      PROVE  NothingLost'
    BY <1>1, NothingLostCalls
<1>2. CASE Writes \/ FlushTick
    BY <1>2, NothingLostWriter
<1>3. CASE Restart
    <2>1. \A x \in Events : pc'[x] = "accepted" => pc[x] = "accepted"
        BY <1>3 DEF Restart
    <2>2. ToSet(spill) \subseteq ToSet(spill')
        BY <1>3, SpillGrows DEF Restart
    <2>3. Accounted \subseteq Accounted'
        BY <1>3, <2>2 DEF Restart, Accounted
    <2> QED BY <2>1, <2>3, Kept
<1>4. ASSUME UNCHANGED <<pc, channel, batch, recs, spill, fate>> PROVE NothingLost'
    BY <1>4 DEF NothingLost, InMemory, fate
<1>5. CASE Close
    BY <1>4, <1>5 DEF Close, calls
<1>6. CASE Clock
    BY <1>4, <1>6 DEF Clock, calls, memory
<1>7. ASSUME NEW cutoff \in 0..now, Prune(cutoff) PROVE NothingLost'
    BY <1>4, <1>7 DEF Prune, calls, memory
<1>8. ASSUME NEW i \in DOMAIN rows, RebaseRead(i) PROVE NothingLost'
    BY <1>4, <1>8 DEF RebaseRead, calls, memory
<1>9. CASE RebaseSave
    BY <1>4, <1>9 DEF RebaseSave, calls, memory
<1>10. CASE UNCHANGED vars
    BY <1>4, <1>10 DEF vars, calls, memory
<1> QED BY <1>1, <1>2, <1>3, <1>5, <1>6, <1>7, <1>8, <1>9, <1>10 DEF Next

\* An event whose Enqueue call returned without error is in memory, in the spill
\* file or committed, or its loss has one of the known causes, through any
\* pattern of failed flushes, failed drains, torn writes and restarts.
THEOREM AcceptedNotLost == Spec => []NothingLost
<1>1. Init => NothingLost
    BY DEF Init, NothingLost
<1> QED BY <1>1, AuditTypeCorrect, NothingLostNext, PTL DEF Spec

-----------------------------------------------------------------------------
(* The chain.  Its invariant says that the rows stand in the order of their *)
(* ids, that links are broken only where the legacy chain's were, that the  *)
(* checkpoint fits the first row a verification reads, and, of the          *)
(* lifecycle chain, that this row is the first one there is and that an     *)
(* empty table starts from the genesis hash.                                *)

Source == IF profile = "lifecycle" THEN Events ELSE LegacyEvents
Gap == IF profile = "legacy" THEN LegacyGap ELSE {}

Ordered == \A i, j \in DOMAIN rows : i < j => rows[i].id < rows[j].id
Linked ==
    \A i \in DOMAIN rows :
        /\ rows[i].self # Hash(rows[i].prev, rows[i].ev) => rows[i].id \in Gap
        /\ i # 1 /\ rows[i].prev # rows[i - 1].self => rows[i].id \in Gap
Anchored ==
    \A i \in DOMAIN rows :
        /\ rows[i].id >= cp.next
        /\ i = 1 \/ rows[i - 1].id < cp.next
        /\ rows[i].prev # cp.hash
        => rows[i].id \in Gap
Fresh ==
    /\ ~stale /\ rebase.id = 0
    /\ cp.next <= nextId
    /\ \A i \in DOMAIN rows : rows[i].id >= cp.next
    /\ rows = << >> => cp.hash = Genesis
ChainInv ==
    /\ profile \in {"lifecycle", "legacy"} /\ now \in Nat
    /\ expires \in [Events -> Nat]
    /\ rows \in Seq(Row(Source))
    /\ nextId \in Nat \ {0} /\ cp.next \in Nat /\ rebase.id \in Nat
    /\ \A i \in DOMAIN rows : rows[i].id < nextId
    /\ Ordered /\ Linked
    /\ ~stale => Anchored
    /\ profile = "lifecycle" => Fresh
    /\ rebase.id # 0 =>
         \A i \in DOMAIN rows : rows[i].id = rebase.id => rows[i].prev = rebase.hash

\* The invariant gives what a verification needs.
LEMMA ChainInvSound == ChainInv => ChainSound
<1> SUFFICES ASSUME ChainInv, ~stale, NEW x \in VerifyOnce PROVE x \in Gap
    BY DEF ChainSound, Gap
<1>1. PICK i \in DOMAIN rows :
        /\ x = rows[i].id /\ rows[i].id >= cp.next
        /\ \/ rows[i].prev # Cursor(rows, i, cp.next, cp.hash)
           \/ rows[i].self # Hash(rows[i].prev, rows[i].ev)
    BY DEF VerifyOnce, VerifyChain
<1>2. CASE rows[i].self # Hash(rows[i].prev, rows[i].ev)
    BY <1>1, <1>2 DEF ChainInv, Linked
<1>3. CASE rows[i].prev # Cursor(rows, i, cp.next, cp.hash)
    <2>1. CASE i = 1 \/ rows[i - 1].id < cp.next
        BY <1>1, <1>3, <2>1 DEF ChainInv, Anchored, Cursor
    <2>2. CASE ~(i = 1 \/ rows[i - 1].id < cp.next)
        BY <1>1, <1>3, <2>2 DEF ChainInv, Linked, Cursor
    <2> QED BY <2>1, <2>2
<1> QED BY <1>1, <1>2, <1>3

\* A row of the chain and the sequence they form.
LEMMA RowType ==
    ASSUME ChainInv, NEW i \in DOMAIN rows
    PROVE  /\ Len(rows) \in Nat /\ DOMAIN rows = 1..Len(rows)
           /\ rows[i] \in Row(Source) /\ rows[i].id \in Nat /\ rows[i].id # 0
           /\ rows[i].at \in Nat
           /\ rows[i].self \in Seq(Source) /\ rows[i].prev \in Seq(Source)
<1>1. Len(rows) \in Nat /\ DOMAIN rows = 1..Len(rows) /\ rows[i] \in Row(Source)
    BY DEF ChainInv
<1> QED BY <1>1 DEF Row

LEMMA ChainInit == Init => ChainInv
<1> SUFFICES ASSUME Init PROVE ChainInv
    OBVIOUS
<1>0. /\ now = 0 /\ expires = [e \in Events |-> 0]
      /\ cp = [hash |-> Genesis, next |-> 1] /\ rebase = [id |-> 0, hash |-> Genesis] /\ ~stale
    BY DEF Init
<1>1. CASE profile = "lifecycle"
    <2>1. rows = << >> /\ nextId = 1
        BY <1>1 DEF Init
    <2>2. rows \in Seq(Row(Source))
        BY <2>1
    <2> QED BY <1>0, <1>1, <2>1, <2>2 DEF ChainInv, Ordered, Linked, Anchored, Fresh
<1>2. CASE profile = "legacy"
    <2>1. rows = LegacyRows /\ Source = LegacyEvents /\ Gap = LegacyGap
        BY <1>2 DEF Init, Source, Gap
    <2>2. rows \in Seq(Row(Source)) /\ Ordered
        BY <2>1, LegacyAssumption DEF Ordered
    <2>3. ASSUME NEW i \in DOMAIN rows
          PROVE  rows[i].id \in Nat \ {0} /\ Len(rows) \in Nat /\ DOMAIN rows = 1..Len(rows)
        <3>1. rows[i] \in Row(Source) /\ Len(rows) \in Nat /\ DOMAIN rows = 1..Len(rows)
            BY <2>2
        <3> QED BY <3>1 DEF Row
    <2>4. /\ nextId \in Nat \ {0}
          /\ \A i \in DOMAIN rows : rows[i].id < nextId
        <3>1. CASE rows = << >>
            BY <3>1 DEF Init
        <3>2. CASE rows # << >>
            <4>1. nextId = rows[Len(rows)].id + 1 /\ Len(rows) \in DOMAIN rows
                BY <2>2, <3>2 DEF Init, Last
            <4>2. ASSUME NEW i \in DOMAIN rows PROVE rows[i].id <= rows[Len(rows)].id
                <5>1. i = Len(rows) \/ i < Len(rows)
                    BY <2>3
                <5> QED BY <5>1, <4>1, <2>2, <2>3 DEF Ordered
            <4> QED BY <4>1, <4>2, <2>3
        <3> QED BY <3>1, <3>2
    <2>5. ASSUME NEW i \in DOMAIN rows,
                 \/ rows[i].prev # Cursor(rows, i, 1, Genesis)
                 \/ rows[i].self # Hash(rows[i].prev, rows[i].ev)
          PROVE  rows[i].id \in Gap
        <3>1. rows[i].id >= 1
            BY <2>3
        <3> QED BY <2>1, <2>5, <3>1 DEF LegacyGap, VerifyChain
    <2>6. Linked
        <3>1. ASSUME NEW i \in DOMAIN rows, i # 1
              PROVE  Cursor(rows, i, 1, Genesis) = rows[i - 1].self
            <4>1. i - 1 \in DOMAIN rows
                BY <2>3, <3>1
            <4>2. ~(rows[i - 1].id < 1)
                BY <4>1, <2>3
            <4> QED BY <3>1, <4>2 DEF Cursor
        <3> QED BY <2>5, <3>1 DEF Linked
    <2>7. Anchored
        <3>1. ASSUME NEW i \in DOMAIN rows, i = 1 \/ rows[i - 1].id < 1
              PROVE  Cursor(rows, i, 1, Genesis) = Genesis
            BY <3>1 DEF Cursor
        <3> QED BY <1>0, <2>5, <3>1 DEF Anchored
    <2> QED BY <1>0, <1>2, <2>2, <2>4, <2>6, <2>7 DEF ChainInv
<1> QED BY <1>1, <1>2 DEF Init

\* The hash of a sequence cut at `i' is the hash of what comes before, and its
\* last event.
LEMMA HashOfPrefix ==
    ASSUME NEW S, NEW h \in Seq(S), NEW es \in Seq(S), NEW i \in 1..Len(es)
    PROVE  /\ h \o SubSeq(es, 1, i - 1) \in Seq(S) /\ h \o SubSeq(es, 1, i) \in Seq(S)
           /\ h \o SubSeq(es, 1, i) = Hash(h \o SubSeq(es, 1, i - 1), es[i])
           /\ i = 1 => h \o SubSeq(es, 1, i - 1) = h
<1>1. SubSeq(es, 1, i - 1) \in Seq(S) /\ SubSeq(es, 1, i) \in Seq(S)
    OBVIOUS
<1>2. SubSeq(es, 1, i) = Append(SubSeq(es, 1, i - 1), es[i])
    OBVIOUS
<1>3. es[i] \in S
    OBVIOUS
<1>4. \A p \in Seq(S) : h \o Append(p, es[i]) = Append(h \o p, es[i])
    BY <1>3
<1>5. i = 1 => SubSeq(es, 1, i - 1) = << >>
    OBVIOUS
<1>6. h \o << >> = h
    OBVIOUS
<1> QED BY <1>1, <1>2, <1>4, <1>5, <1>6 DEF Hash

\* A record with the columns of a row is a row.
LEMMA RowBuilt ==
    ASSUME NEW S, NEW id \in Nat \ {0}, NEW ev \in S, NEW at \in Nat,
           NEW prev \in Seq(S), NEW self \in Seq(S)
    PROVE  [id |-> id, ev |-> ev, at |-> at, prev |-> prev, self |-> self] \in Row(S)
BY DEF Row

\* The rows of a batch.
LEMMA NewRowsShape ==
    ASSUME ChainInv, profile = "lifecycle", NEW es \in Seq(Events)
    PROVE  /\ NewRows(es) \in Seq(Row(Events)) /\ Len(NewRows(es)) = Len(es)
           /\ TailHash \in Seq(Events)
           /\ \A i \in 1..Len(es) :
                /\ NewRows(es)[i].id = nextId + i - 1
                /\ NewRows(es)[i].self = Hash(NewRows(es)[i].prev, NewRows(es)[i].ev)
                /\ NewRows(es)[i].prev = IF i = 1 THEN TailHash ELSE NewRows(es)[i - 1].self
<1>1. TailHash \in Seq(Events)
    <2>1. CASE rows = << >>
        BY <2>1 DEF TailHash, Genesis
    <2>2. CASE rows # << >>
        <3>1. Len(rows) \in DOMAIN rows
            BY <2>2 DEF ChainInv
        <3>2. rows[Len(rows)].self \in Seq(Events)
            BY <3>1, RowType DEF Source
        <3> QED BY <2>2, <3>2 DEF TailHash, Last
    <2> QED BY <2>1, <2>2
<1>2. DOMAIN es = 1..Len(es) /\ Len(es) \in Nat /\ \A i \in 1..Len(es) : es[i] \in Events
    OBVIOUS
<1>3. DOMAIN NewRows(es) = 1..Len(es)
    BY <1>2 DEF NewRows
<1>4. ASSUME NEW i \in 1..Len(es)
      PROVE  /\ NewRows(es)[i] \in Row(Events)
             /\ NewRows(es)[i].id = nextId + i - 1
             /\ NewRows(es)[i].ev = es[i]
             /\ NewRows(es)[i].prev = TailHash \o SubSeq(es, 1, i - 1)
             /\ NewRows(es)[i].self = TailHash \o SubSeq(es, 1, i)
    <2>1. NewRows(es)[i] = [id |-> nextId + i - 1, ev |-> es[i], at |-> expires[es[i]],
                            prev |-> TailHash \o SubSeq(es, 1, i - 1),
                            self |-> TailHash \o SubSeq(es, 1, i)]
        BY <1>2 DEF NewRows
    <2>2. nextId + i - 1 \in Nat \ {0} /\ es[i] \in Events /\ expires[es[i]] \in Nat
        BY <1>2 DEF ChainInv
    <2>3. TailHash \o SubSeq(es, 1, i - 1) \in Seq(Events) /\ TailHash \o SubSeq(es, 1, i) \in Seq(Events)
        BY <1>1, HashOfPrefix
    <2>4. NewRows(es)[i] \in Row(Events)
        <3>1. \A id \in Nat \ {0}, ev \in Events, at \in Nat, prev, self \in Seq(Events) :
                [id |-> id, ev |-> ev, at |-> at, prev |-> prev, self |-> self] \in Row(Events)
            BY RowBuilt
        <3> QED BY <2>1, <2>2, <2>3, <3>1
    <2> QED BY <2>1, <2>4
<1>5. NewRows(es) \in Seq(Row(Events)) /\ Len(NewRows(es)) = Len(es)
    <2>1. NewRows(es) \in [1..Len(es) -> Row(Events)]
        BY <1>2, <1>3, <1>4 DEF NewRows
    <2> QED BY <2>1, <1>2
<1>6. ASSUME NEW i \in 1..Len(es)
      PROVE  /\ NewRows(es)[i].self = Hash(NewRows(es)[i].prev, NewRows(es)[i].ev)
             /\ NewRows(es)[i].prev = IF i = 1 THEN TailHash ELSE NewRows(es)[i - 1].self
    <2>1. NewRows(es)[i].self = Hash(NewRows(es)[i].prev, NewRows(es)[i].ev)
        <3>1. TailHash \o SubSeq(es, 1, i) = Hash(TailHash \o SubSeq(es, 1, i - 1), es[i])
            BY <1>1, HashOfPrefix
        <3> QED BY <3>1, <1>4, Zenon
    <2>2. CASE i = 1
        <3>1. TailHash \o SubSeq(es, 1, i - 1) = TailHash
            BY <2>2, <1>1, HashOfPrefix
        <3>2. NewRows(es)[i].prev = TailHash
            BY <3>1, <1>4, Zenon
        <3> QED BY <2>1, <2>2, <3>2
    <2>3. CASE i # 1
        <3>1. i - 1 \in 1..Len(es)
            BY <2>3
        <3>2. NewRows(es)[i - 1].self = TailHash \o SubSeq(es, 1, i - 1)
            BY <3>1, <1>4
        <3> QED BY <2>1, <2>3, <3>2, <1>4
    <2> QED BY <2>2, <2>3
<1> QED BY <1>1, <1>4, <1>5, <1>6

LEMMA ConcatShape ==
    ASSUME NEW S, NEW s \in Seq(S), NEW t \in Seq(S)
    PROVE  /\ s \o t \in Seq(S) /\ DOMAIN (s \o t) = 1..(Len(s) + Len(t))
           /\ DOMAIN s = 1..Len(s) /\ Len(s) \in Nat /\ Len(t) \in Nat
           /\ \A i \in 1..Len(s) : (s \o t)[i] = s[i]
           /\ \A i \in 1..Len(t) : (s \o t)[Len(s) + i] = t[i]
OBVIOUS

\* The table after a batch: the old rows in their places, the new ones behind.
LEMMA CommitRows ==
    ASSUME ChainInv, profile = "lifecycle", NEW es \in Seq(Events), Commit(es)
    PROVE  /\ rows' \in Seq(Row(Events)) /\ DOMAIN rows' = 1..(Len(rows) + Len(es))
           /\ DOMAIN rows = 1..Len(rows) /\ Len(rows) \in Nat /\ Len(es) \in Nat
           /\ \A i \in 1..Len(rows) : rows'[i] = rows[i]
           /\ \A i \in 1..Len(es) : rows'[Len(rows) + i] = NewRows(es)[i]
<1>1. rows \in Seq(Row(Events))
    BY DEF ChainInv, Source
<1>2. NewRows(es) \in Seq(Row(Events)) /\ Len(NewRows(es)) = Len(es) /\ Len(es) \in Nat
    BY NewRowsShape
<1>3. rows' = rows \o NewRows(es)
    BY DEF Commit
<1>4. /\ rows \o NewRows(es) \in Seq(Row(Events))
      /\ DOMAIN (rows \o NewRows(es)) = 1..(Len(rows) + Len(NewRows(es)))
      /\ DOMAIN rows = 1..Len(rows) /\ Len(rows) \in Nat
      /\ \A i \in 1..Len(rows) : (rows \o NewRows(es))[i] = rows[i]
      /\ \A i \in 1..Len(NewRows(es)) : (rows \o NewRows(es))[Len(rows) + i] = NewRows(es)[i]
    <2>1. \A t \in Seq(Row(Events)) :
            /\ rows \o t \in Seq(Row(Events)) /\ DOMAIN (rows \o t) = 1..(Len(rows) + Len(t))
            /\ DOMAIN rows = 1..Len(rows) /\ Len(rows) \in Nat
            /\ \A i \in 1..Len(rows) : (rows \o t)[i] = rows[i]
            /\ \A i \in 1..Len(t) : (rows \o t)[Len(rows) + i] = t[i]
        <3> TAKE t \in Seq(Row(Events))
        <3> QED BY <1>1, ConcatShape
    <2> QED BY <1>2, <2>1, Zenon
<1> QED BY <1>2, <1>3, <1>4, Zenon

LEMMA ChainCommit ==
    ASSUME ChainInv, profile = "lifecycle", NEW es \in Seq(Events), Commit(es),
           UNCHANGED <<profile, now, expires, rebase>>
    PROVE  ChainInv'
<1> DEFINE n == Len(rows)
<1>1. /\ rows' \in Seq(Row(Events)) /\ DOMAIN rows' = 1..(n + Len(es))
      /\ DOMAIN rows = 1..n /\ n \in Nat /\ Len(es) \in Nat
      /\ \A i \in 1..n : rows'[i] = rows[i]
      /\ \A i \in 1..Len(es) : rows'[n + i] = NewRows(es)[i]
    BY CommitRows
<1>2. \A i \in 1..Len(es) :
        /\ NewRows(es)[i].id = nextId + i - 1
        /\ NewRows(es)[i].self = Hash(NewRows(es)[i].prev, NewRows(es)[i].ev)
        /\ NewRows(es)[i].prev = IF i = 1 THEN TailHash ELSE NewRows(es)[i - 1].self
    BY NewRowsShape
<1>3. /\ nextId \in Nat \ {0} /\ nextId' = nextId + Len(es) /\ UNCHANGED <<cp, stale>>
      /\ ~stale /\ rebase.id = 0 /\ cp.next \in Nat /\ cp.next <= nextId
      /\ Gap = {} /\ Gap' = {} /\ Source' = Events
    BY DEF ChainInv, Fresh, Commit, Gap, Source
<1>4. ASSUME NEW i \in 1..n
      PROVE  rows[i].id \in Nat /\ rows[i].id < nextId /\ rows[i].id >= cp.next
    BY <1>1, RowType DEF ChainInv, Fresh
<1>5. ASSUME NEW k \in DOMAIN rows', ~(k \in 1..n)
      PROVE  /\ k - n \in 1..Len(es) /\ rows'[k] = NewRows(es)[k - n]
             /\ rows'[k].id = nextId + (k - n) - 1
    <2>1. k - n \in 1..Len(es) /\ n + (k - n) = k
        BY <1>1, <1>5
    <2>2. rows'[n + (k - n)] = NewRows(es)[k - n]
        BY <1>1, <2>1
    <2> QED BY <2>1, <2>2, <1>2
<1> HIDE DEF n
<1>6. \A k \in DOMAIN rows' : rows'[k].id \in Nat /\ rows'[k].id < nextId' /\ rows'[k].id >= cp.next
    <2> TAKE k \in DOMAIN rows'
    <2>1. CASE k \in 1..n
        BY <2>1, <1>1, <1>3, <1>4
    <2>2. CASE ~(k \in 1..n)
        BY <2>2, <1>1, <1>3, <1>5
    <2> QED BY <2>1, <2>2
<1>7. Ordered'
    <2> SUFFICES ASSUME NEW i \in DOMAIN rows', NEW j \in DOMAIN rows', i < j
                 PROVE  rows'[i].id < rows'[j].id
        BY DEF Ordered
    <2>1. CASE i \in 1..n /\ j \in 1..n
        BY <2>1, <1>1 DEF ChainInv, Ordered
    <2>2. CASE i \in 1..n /\ ~(j \in 1..n)
        <3>1. rows'[i].id < nextId /\ rows'[i].id \in Nat
            BY <2>2, <1>1, <1>4
        <3>2. rows'[j].id >= nextId /\ rows'[j].id \in Nat
            BY <2>2, <1>5, <1>3, <1>1
        <3> QED BY <3>1, <3>2, <1>3
    <2>3. CASE ~(i \in 1..n)
        <3>1. ~(j \in 1..n)
            BY <2>3, <1>1
        <3> QED BY <2>3, <3>1, <1>5, <1>3, <1>1
    <2> QED BY <2>1, <2>2, <2>3
<1>8. ASSUME NEW k \in DOMAIN rows'
      PROVE  /\ rows'[k].self = Hash(rows'[k].prev, rows'[k].ev)
             /\ k # 1 => rows'[k].prev = rows'[k - 1].self
    <2>1. CASE k \in 1..n
        <3>1. k # 1 => k - 1 \in 1..n
            BY <2>1, <1>1
        <3> QED BY <2>1, <3>1, <1>1, <1>3 DEF ChainInv, Linked
    <2>2. CASE ~(k \in 1..n)
        <3>1. k - n \in 1..Len(es) /\ rows'[k] = NewRows(es)[k - n]
            BY <2>2, <1>5
        <3>2. rows'[k].self = Hash(rows'[k].prev, rows'[k].ev)
            BY <3>1, <1>2
        <3>3. CASE k - n = 1
            <4>1. rows'[k].prev = TailHash /\ k - 1 = n
                BY <3>1, <3>3, <1>2, <1>1
            <4>2. k # 1 => n \in 1..n /\ rows # << >>
                BY <4>1, <1>1, <3>3 DEF n
            <4>3. k # 1 => TailHash = rows[n].self
                BY <4>2 DEF TailHash, Last, n
            <4> QED BY <3>2, <4>1, <4>2, <4>3, <1>1
        <3>4. CASE k - n # 1
            <4>1. (k - 1) - n \in 1..Len(es) /\ k - 1 \in DOMAIN rows' /\ ~(k - 1 \in 1..n)
                BY <3>1, <3>4, <1>1
            <4>2. rows'[k - 1] = NewRows(es)[(k - 1) - n]
                BY <4>1, <1>5
            <4>3. (k - 1) - n = (k - n) - 1
                BY <1>1
            <4>4. rows'[k].prev = NewRows(es)[(k - n) - 1].self
                BY <3>1, <3>4, <1>2
            <4> QED BY <3>2, <4>2, <4>3, <4>4
        <3> QED BY <3>3, <3>4
    <2> QED BY <2>1, <2>2
<1>9. Linked'
    BY <1>8 DEF Linked
<1>10. Anchored'
    <2> SUFFICES ASSUME NEW k \in DOMAIN rows', k = 1 \/ rows'[k - 1].id < cp.next
                 PROVE  rows'[k].prev = cp.hash
        BY <1>3 DEF Anchored
    <2>1. k = 1
        <3>1. k # 1 => k - 1 \in DOMAIN rows'
            BY <1>1
        <3> QED BY <3>1, <1>6, <1>3
    <2>2. CASE n = 0
        <3>1. rows = << >> /\ cp.hash = Genesis
            BY <2>2, <1>1 DEF n, ChainInv, Fresh
        <3>2. ~(k \in 1..n) /\ k - n = 1
            BY <2>1, <2>2
        <3>3. rows'[k] = NewRows(es)[1] /\ 1 \in 1..Len(es)
            BY <3>2, <1>5
        <3>4. rows'[k].prev = TailHash
            BY <3>3, <1>2
        <3> QED BY <3>1, <3>4 DEF TailHash
    <2>3. CASE n # 0
        <3>1. 1 \in 1..n /\ rows'[k] = rows[1]
            BY <2>1, <2>3, <1>1
        <3>2. rows[1].id >= cp.next
            BY <3>1, <1>4
        <3> QED BY <3>1, <3>2, <1>1, <1>3 DEF ChainInv, Anchored
    <2> QED BY <2>2, <2>3
<1>11. rows' = << >> => cp.hash = Genesis
    <2>1. rows' = << >> => n = 0
        BY <1>1
    <2>2. n = 0 => rows = << >>
        BY DEF n, ChainInv
    <2> QED BY <2>1, <2>2 DEF ChainInv, Fresh
<1>12. Fresh'
    <2>1. cp.next <= nextId'
        BY <1>3, <1>1
    <2> QED BY <1>3, <1>6, <1>11, <2>1 DEF Fresh
<1>13. nextId' \in Nat \ {0}
    BY <1>3, <1>1
<1> QED BY <1>1, <1>3, <1>6, <1>7, <1>9, <1>10, <1>12, <1>13 DEF ChainInv

\* A prune covers a prefix of the rows; of the lifecycle chain only rows whose
\* time has come.
LEMMA PruneLength ==
    ASSUME ChainInv, NEW cutoff \in Nat
    PROVE  /\ LastRowBefore(cutoff) \in 0..Len(rows)
           /\ profile = "lifecycle" =>
                \A i \in 1..LastRowBefore(cutoff) : rows[i].at < cutoff
<1>1. Len(rows) \in Nat /\ DOMAIN rows = 1..Len(rows)
    BY DEF ChainInv
<1>2. \A i \in DOMAIN rows : rows[i].at \in Nat
    BY RowType
<1>3. CASE profile = "lifecycle"
    <2> DEFINE live == {i \in DOMAIN rows : rows[i].at >= cutoff}
    <2>1. LastRowBefore(cutoff) = IF live = {} THEN Len(rows) ELSE Min(live) - 1
        BY <1>3 DEF LastRowBefore
    <2>2. CASE live = {}
        BY <2>1, <2>2, <1>1, <1>2
    <2>3. CASE live # {}
        <3>1. live \in SUBSET Nat
            BY <1>1
        <3>2. Min(live) \in live /\ \A j \in live : Min(live) <= j
            <4> HIDE DEF live
            <4> QED BY <2>3, <3>1, LeastExists DEF Min
        <3>3. Min(live) \in 1..Len(rows)
            BY <3>2, <1>1
        <3>4. LastRowBefore(cutoff) = Min(live) - 1
            BY <2>1, <2>3
        <3>5. ASSUME NEW i \in 1..(Min(live) - 1) PROVE rows[i].at < cutoff
            <4>1. i \in DOMAIN rows /\ ~(Min(live) <= i)
                BY <3>3, <1>1
            <4>2. ~(i \in live)
                BY <3>2, <4>1
            <4> QED BY <4>1, <4>2, <1>2
        <3> QED BY <3>3, <3>4, <3>5, <1>1
    <2> QED BY <2>2, <2>3
<1>4. CASE profile # "lifecycle"
    <2> DEFINE old == {i \in DOMAIN rows : rows[i].at < cutoff}
    <2>1. LastRowBefore(cutoff) = IF old = {} THEN 0 ELSE Max(old)
        BY <1>4 DEF LastRowBefore
    <2>2. CASE old # {}
        <3>1. old \in SUBSET (0..Len(rows))
            BY <1>1
        <3>2. Max(old) \in old
            <4> HIDE DEF old
            <4> QED BY <1>1, <2>2, <3>1, GreatestExists DEF Max
        <3> QED BY <2>1, <2>2, <3>2, <1>1, <1>4
    <2> QED BY <2>1, <2>2, <1>1, <1>4
<1> QED BY <1>3, <1>4

LEMMA SuffixShape ==
    ASSUME NEW S, NEW s \in Seq(S), NEW n \in 0..Len(s)
    PROVE  /\ SubSeq(s, n + 1, Len(s)) \in Seq(S)
           /\ DOMAIN SubSeq(s, n + 1, Len(s)) = 1..(Len(s) - n)
           /\ \A i \in 1..(Len(s) - n) : SubSeq(s, n + 1, Len(s))[i] = s[n + i]
OBVIOUS

\* A prune leaves the chain anchored at the first row that stays.
LEMMA ChainPrune ==
    ASSUME ChainInv, NEW cutoff \in Nat, Prune(cutoff)
    PROVE  ChainInv'
<1> DEFINE n == LastRowBefore(cutoff)
<1>1. /\ n \in 0..Len(rows) /\ n > 0 /\ rows' = SubSeq(rows, n + 1, Len(rows))
      /\ cp' = Anchor(rows[n], rows') /\ stale' = FALSE
      /\ UNCHANGED <<profile, now, expires, nextId, rebase>>
    BY PruneLength DEF Prune, calls
<1> HIDE DEF n
<1>2. Len(rows) \in Nat /\ DOMAIN rows = 1..Len(rows) /\ rows \in Seq(Row(Source))
    BY DEF ChainInv
<1>3. n \in 1..Len(rows) /\ n \in Nat
    BY <1>1, <1>2
<1>4. /\ rows' \in Seq(Row(Source)) /\ DOMAIN rows' = 1..(Len(rows) - n)
      /\ \A i \in 1..(Len(rows) - n) : rows'[i] = rows[n + i]
    BY <1>1, <1>2, SuffixShape
<1>5. Source' = Source /\ Gap' = Gap
    BY <1>1 DEF Source, Gap
<1>6. ASSUME NEW i \in DOMAIN rows'
      PROVE  /\ n + i \in DOMAIN rows /\ rows'[i] = rows[n + i]
             /\ rows[n + i].id \in Nat /\ rows[n].id \in Nat /\ rows[n].id < rows[n + i].id
    <2>1. n + i \in DOMAIN rows /\ rows'[i] = rows[n + i] /\ n < n + i /\ n \in DOMAIN rows
        BY <1>2, <1>3, <1>4
    <2>2. rows[n + i].id \in Nat /\ rows[n].id \in Nat
        BY <2>1, RowType
    <2> QED BY <2>1, <2>2 DEF ChainInv, Ordered
<1>7. rows[n].id \in Nat /\ rows[n].id < nextId /\ nextId \in Nat \ {0}
    BY <1>2, <1>3, RowType DEF ChainInv
<1>8. cp'.next = rows[n].id + 1 /\ (rows' # << >> => cp'.hash = rows[n].self)
      /\ (rows' = << >> => cp'.hash = Genesis)
    BY <1>1 DEF Anchor
<1>9. Ordered'
    <2> SUFFICES ASSUME NEW i \in DOMAIN rows', NEW j \in DOMAIN rows', i < j
                 PROVE  rows'[i].id < rows'[j].id
        BY DEF Ordered
    <2>1. n + i < n + j
        BY <1>3, <1>4
    <2> QED BY <2>1, <1>6 DEF ChainInv, Ordered
<1>10. Linked'
    <2> SUFFICES ASSUME NEW i \in DOMAIN rows'
                 PROVE  /\ rows'[i].self # Hash(rows'[i].prev, rows'[i].ev) => rows'[i].id \in Gap
                        /\ i # 1 /\ rows'[i].prev # rows'[i - 1].self => rows'[i].id \in Gap
        BY <1>5 DEF Linked
    <2>1. n + i # 1 /\ (n + i) - 1 = n + (i - 1)
        BY <1>3, <1>4
    <2>2. i # 1 => rows'[i - 1] = rows[(n + i) - 1]
        <3>1. i # 1 => i - 1 \in DOMAIN rows'
            BY <1>2, <1>3, <1>4
        <3> QED BY <3>1, <2>1, <1>6
    <2> QED BY <2>1, <2>2, <1>6 DEF ChainInv, Linked
<1>11. Anchored'
    <2> SUFFICES ASSUME NEW i \in DOMAIN rows', i = 1 \/ rows'[i - 1].id < cp'.next,
                        rows'[i].prev # cp'.hash
                 PROVE  rows'[i].id \in Gap
        BY <1>5 DEF Anchored
    <2>1. i = 1
        <3>1. i # 1 => i - 1 \in DOMAIN rows'
            BY <1>2, <1>3, <1>4
        <3>2. i # 1 => rows'[i - 1].id \in Nat /\ rows'[i - 1].id > rows[n].id
            BY <3>1, <1>6
        <3> QED BY <3>2, <1>7, <1>8
    <2>2. rows' # << >>
        <3>1. i \in DOMAIN rows'
            OBVIOUS
        <3>2. DOMAIN << >> = {}
            OBVIOUS
        <3> QED BY <3>1, <3>2
    <2>3. rows[n + 1].prev # rows[n].self /\ n + 1 \in DOMAIN rows /\ rows'[i] = rows[n + 1]
        BY <2>1, <2>2, <1>6, <1>8
    <2>4. n + 1 # 1 /\ (n + 1) - 1 = n
        BY <1>3
    <2> QED BY <2>3, <2>4 DEF ChainInv, Linked
<1>12. \A i \in DOMAIN rows' : rows'[i].id < nextId /\ rows'[i].id >= cp'.next
    <2> TAKE i \in DOMAIN rows'
    <2>1. rows[n + i].id < nextId
        BY <1>6 DEF ChainInv
    <2> QED BY <2>1, <1>6, <1>8
<1>13. profile = "lifecycle" => Fresh'
    <2>1. profile = "lifecycle" => rebase.id = 0
        BY DEF ChainInv, Fresh
    <2>2. cp'.next <= nextId
        BY <1>7, <1>8
    <2> QED BY <1>1, <1>8, <1>12, <2>1, <2>2 DEF Fresh
<1>14. rebase.id # 0 => \A i \in DOMAIN rows' : rows'[i].id = rebase.id => rows'[i].prev = rebase.hash
    BY <1>6 DEF ChainInv
<1>15. cp'.next \in Nat
    BY <1>7, <1>8
<1> QED BY <1>1, <1>4, <1>5, <1>9, <1>10, <1>11, <1>12, <1>13, <1>14, <1>15 DEF ChainInv

\* Re-anchoring.
LEMMA ChainRebase ==
    ASSUME ChainInv, (\E i \in DOMAIN rows : RebaseRead(i)) \/ RebaseSave
    PROVE  ChainInv'
<1>1. ASSUME NEW i \in DOMAIN rows, RebaseRead(i) PROVE ChainInv'
    <2>1. /\ UNCHANGED <<profile, now, expires, rows, nextId, cp, stale>> /\ profile = "legacy"
          /\ rebase' = [id |-> rows[i].id, hash |-> rows[i].prev]
        BY <1>1 DEF RebaseRead, calls, chain
    <2>2. rows[i].id \in Nat
        BY RowType
    <2>3. ASSUME NEW j \in DOMAIN rows, rows[j].id = rows[i].id PROVE rows[j].prev = rows[i].prev
        <3>1. ~(i < j) /\ ~(j < i)
            BY <2>2, <2>3 DEF ChainInv, Ordered
        <3>2. i \in Nat /\ j \in Nat
            BY RowType
        <3> QED BY <3>1, <3>2
    <2>4. Source' = Source /\ Gap' = Gap
        BY <2>1 DEF Source, Gap
    <2>5. Ordered' /\ Linked' /\ (~stale' => Anchored')
        BY <2>1, <2>4 DEF ChainInv, Ordered, Linked, Anchored
    <2> QED BY <2>1, <2>2, <2>3, <2>4, <2>5 DEF ChainInv
<1>2. CASE RebaseSave
    <2>1. /\ UNCHANGED <<profile, now, expires, rows, nextId>> /\ rebase.id # 0
          /\ cp' = [hash |-> rebase.hash, next |-> rebase.id]
          /\ stale' = (\A i \in DOMAIN rows : rows[i].id # rebase.id)
          /\ rebase' = [id |-> 0, hash |-> Genesis]
        BY <1>2 DEF RebaseSave, calls
    <2>2. profile # "lifecycle"
        BY <2>1 DEF ChainInv, Fresh
    <2>3. Source' = Source /\ Gap' = Gap
        BY <2>1 DEF Source, Gap
    <2>4. Ordered' /\ Linked'
        BY <2>1, <2>3 DEF ChainInv, Ordered, Linked
    <2>5. ASSUME ~stale' PROVE Anchored'
        <3>1. PICK k \in DOMAIN rows : rows[k].id = rebase.id
            BY <2>1, <2>5
        <3> SUFFICES ASSUME NEW i \in DOMAIN rows, rows[i].id >= rebase.id,
                            i = 1 \/ rows[i - 1].id < rebase.id
                     PROVE  rows[i].prev = rebase.hash
            BY <2>1, <2>3 DEF Anchored
        <3>2. /\ rows[i].id \in Nat /\ rows[k].id \in Nat /\ Len(rows) \in Nat
              /\ DOMAIN rows = 1..Len(rows)
            BY RowType
        <3>3. ~(i < k)
            BY <3>1, <3>2 DEF ChainInv, Ordered
        <3>4. ~(k < i)
            <4> SUFFICES ASSUME k < i PROVE FALSE
                OBVIOUS
            <4>1. i - 1 \in DOMAIN rows /\ (k = i - 1 \/ k < i - 1) /\ i # 1
                BY <3>2
            <4>2. rows[i - 1].id \in Nat
                BY <4>1, RowType
            <4>3. rows[k].id <= rows[i - 1].id
                BY <4>1, <4>2, <3>2 DEF ChainInv, Ordered
            <4> QED BY <4>1, <4>2, <4>3, <3>1, <3>2
        <3>5. i = k
            BY <3>2, <3>3, <3>4
        <3> QED BY <3>1, <3>5, <2>1 DEF ChainInv
    <2> QED BY <2>1, <2>2, <2>3, <2>4, <2>5 DEF ChainInv
<1> QED BY <1>1, <1>2

LEMMA ChainNext ==
    ASSUME ATypeOK, ATypeOK', ChainInv, [Next]_vars
    PROVE  ChainInv'
<1>0. now' \in Nat /\ expires' \in [Events -> Nat]
    BY AuditAssumption DEF ATypeOK
<1>1. ASSUME UNCHANGED <<profile, chain, rebase>> PROVE ChainInv'
    <2>1. Source' = Source /\ Gap' = Gap
        BY <1>1 DEF Source, Gap
    <2>2. Ordered' /\ Linked' /\ (Anchored' <=> Anchored) /\ (Fresh' <=> Fresh)
        BY <1>1, <2>1 DEF ChainInv, Ordered, Linked, Anchored, Fresh, chain
    <2> QED BY <1>0, <1>1, <2>1, <2>2 DEF ChainInv, chain
<1>2. ASSUME NEW e \in Events, Call(e) \/ Send(e) \/ Overflow(e) \/ SpillWrite(e)
                               \/ SpillFails(e) \/ GiveUp(e)
      PROVE  ChainInv'
    BY <1>1, <1>2 DEF Call, Send, Overflow, SpillWrite, SpillFails, GiveUp
<1>3. CASE profile = "lifecycle" /\ (Writes \/ FlushTick)
    <2>1. CASE TakeOne \/ TakeRest \/ FlushTick \/ Respill \/ Drain \/ Restore
        BY <1>1, <2>1 DEF TakeOne, TakeRest, FlushTick, Respill, Drain, Restore
    <2>2. ASSUME NEW es \in Seq(Events), Commit(es) \/ UNCHANGED chain,
                 UNCHANGED <<profile, now, calls, rebase>>
          PROVE  ChainInv'
        BY <1>1, <1>3, <2>2, ChainCommit DEF calls
    <2>3. CASE Flush
        <3>1. batch \in Seq(Events)
            BY DEF ATypeOK
        <3>2. (Commit(batch) \/ UNCHANGED chain) /\ UNCHANGED <<profile, now, calls, rebase>>
            BY <2>3 DEF Flush, FlushBatch
        <3> QED BY <2>2, <3>1, <3>2
    <2>4. CASE Replay
        <3>1. recs \in Seq(Events)
            BY DEF ATypeOK
        <3>2. (Commit(recs) \/ UNCHANGED chain) /\ UNCHANGED <<profile, now, calls, rebase>>
            BY <2>4 DEF Replay, FlushBatch
        <3> QED BY <2>2, <3>1, <3>2
    <2> QED BY <1>3, <2>1, <2>3, <2>4 DEF Writes
<1>4. CASE Close \/ Restart \/ Clock
    BY <1>1, <1>4 DEF Close, Restart, Clock
<1>5. ASSUME NEW cutoff \in 0..now, Prune(cutoff) PROVE ChainInv'
    BY <1>5, ChainPrune DEF ChainInv
<1>6. CASE (\E i \in DOMAIN rows : RebaseRead(i)) \/ RebaseSave
    BY <1>6, ChainRebase
<1>7. CASE UNCHANGED vars
    BY <1>1, <1>7 DEF vars
<1> QED BY <1>2, <1>3, <1>4, <1>5, <1>6, <1>7 DEF Next

LEMMA ChainAlways == Spec => []ChainInv
BY ChainInit, ChainNext, AuditTypeCorrect, PTL DEF Spec

\* A verification that nothing disturbs finds no break that was not in the
\* legacy chain from the start, for any batches, replays, prunes and
\* re-anchorings; a re-anchoring at a row pruned meanwhile is the exception.
THEOREM ChainIsSound == Spec => []ChainSound
BY ChainAlways, ChainInvSound, PTL

\* No lifecycle row leaves the table before its own expiry, whatever order the
\* spill file brought the rows into.
THEOREM RetentionIsKept == Spec => RetentionKept
<1> DEFINE Step == profile = "lifecycle" =>
                     \A i \in DOMAIN rows : rows[i] \notin ToSet(rows') => rows[i].at < now
<1>1. ASSUME ATypeOK, ChainInv, [Next]_vars PROVE [Step]_vars
    <2> SUFFICES ASSUME profile = "lifecycle", NEW i \in DOMAIN rows, rows[i] \notin ToSet(rows')
                 PROVE  rows[i].at < now
        OBVIOUS
    <2>1. ASSUME UNCHANGED rows PROVE FALSE
        BY <2>1 DEF ToSet
    <2>2. ASSUME NEW es \in Seq(Events), Commit(es) PROVE FALSE
        <3>1. /\ DOMAIN rows = 1..Len(rows) /\ Len(rows) \in Nat /\ Len(es) \in Nat
              /\ DOMAIN rows' = 1..(Len(rows) + Len(es))
              /\ \A k \in 1..Len(rows) : rows'[k] = rows[k]
            BY <1>1, <2>2, CommitRows
        <3>2. i \in DOMAIN rows' /\ rows'[i] = rows[i]
            BY <3>1
        <3> QED BY <3>2 DEF ToSet
    <2>3. ASSUME NEW cutoff \in 0..now, Prune(cutoff) PROVE rows[i].at < now
        <3> DEFINE n == LastRowBefore(cutoff)
        <3>1. cutoff \in Nat /\ cutoff = now
            BY <1>1, <2>3 DEF Prune, ChainInv
        <3>2a. n \in 0..Len(rows) /\ \A k \in 1..n : rows[k].at < cutoff
            BY <1>1, <3>1, PruneLength
        <3>2b. rows' = SubSeq(rows, n + 1, Len(rows))
            BY <2>3 DEF Prune
        <3> HIDE DEF n
        <3>2. /\ n \in 0..Len(rows) /\ rows' = SubSeq(rows, n + 1, Len(rows))
              /\ \A k \in 1..n : rows[k].at < cutoff
            BY <3>2a, <3>2b
        <3>3. /\ DOMAIN rows = 1..Len(rows) /\ Len(rows) \in Nat /\ i \in Nat /\ n \in Nat
            BY <3>2 DEF ChainInv
        <3>4. /\ DOMAIN rows' = 1..(Len(rows) - n)
              /\ \A k \in 1..(Len(rows) - n) : rows'[k] = rows[n + k]
            BY <3>2, SuffixShape DEF ChainInv
        <3>5. ASSUME i > n PROVE FALSE
            <4>1. i - n \in DOMAIN rows' /\ n + (i - n) = i
                BY <3>3, <3>4, <3>5
            <4>2. rows'[i - n] = rows[n + (i - n)]
                BY <4>1, <3>4
            <4> QED BY <4>1, <4>2 DEF ToSet
        <3>6. i \in 1..n
            BY <3>3, <3>5
        <3> QED BY <3>1, <3>2, <3>6
    <2>4. ASSUME NEW e \in Events, Call(e) \/ Send(e) \/ Overflow(e) \/ SpillWrite(e)
                                   \/ SpillFails(e) \/ GiveUp(e)
          PROVE  FALSE
        BY <2>1, <2>4 DEF Call, Send, Overflow, SpillWrite, SpillFails, GiveUp, chain
    <2>5. CASE Writes \/ FlushTick
        <3>1. CASE TakeOne \/ TakeRest \/ FlushTick \/ Respill \/ Drain \/ Restore
            BY <2>1, <3>1 DEF TakeOne, TakeRest, FlushTick, Respill, Drain, Restore, chain
        <3>2. CASE Flush
            <4>1. Commit(batch) \/ UNCHANGED chain
                BY <3>2 DEF Flush, FlushBatch
            <4>2. batch \in Seq(Events)
                BY <1>1 DEF ATypeOK
            <4>3. CASE Commit(batch)
                BY <2>2, <4>2, <4>3
            <4>4. CASE UNCHANGED chain
                BY <2>1, <4>4 DEF chain
            <4> QED BY <4>1, <4>3, <4>4
        <3>3. CASE Replay
            <4>1. Commit(recs) \/ UNCHANGED chain
                BY <3>3 DEF Replay, FlushBatch
            <4>2. recs \in Seq(Events)
                BY <1>1 DEF ATypeOK
            <4>3. CASE Commit(recs)
                BY <2>2, <4>2, <4>3
            <4>4. CASE UNCHANGED chain
                BY <2>1, <4>4 DEF chain
            <4> QED BY <4>1, <4>3, <4>4
        <3> QED BY <2>5, <3>1, <3>2, <3>3 DEF Writes
    <2>6. CASE Close \/ Restart \/ Clock
        BY <2>1, <2>6 DEF Close, Restart, Clock, chain
    <2>7. ASSUME NEW j \in DOMAIN rows, RebaseRead(j) PROVE FALSE
        BY <2>1, <2>7 DEF RebaseRead, chain
    <2>8. CASE RebaseSave
        BY <2>1, <2>8 DEF RebaseSave
    <2>9. CASE UNCHANGED vars
        BY <2>1, <2>9 DEF vars, chain
    <2> QED BY <1>1, <2>3, <2>4, <2>5, <2>6, <2>7, <2>8, <2>9 DEF Next
<1>2. Spec => [][Step]_vars
    BY <1>1, AuditTypeCorrect, ChainAlways, PTL DEF Spec
<1> QED BY <1>2 DEF RetentionKept
=============================================================================
