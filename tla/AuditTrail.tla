----------------------------- MODULE AuditTrail -----------------------------
(***************************************************************************)
(* The audit trail: the collector that takes events from every part of the *)
(* gateway, its spill file, the hash chain it appends to, the retention    *)
(* collector that prunes the chain and the operator's re-anchoring of it.  *)
(*                                                                         *)
(* There are two chains with separate tables and locks.  The collector     *)
(* writes the lifecycle chain; the legacy chain has only its old rows, and *)
(* the command line re-anchors only that one.  They share nothing, so a    *)
(* behaviour is about one of them, `profile'.                              *)
(*                                                                         *)
(* A hash is the sequence of events it covers: Hash is then injective, as  *)
(* SHA-256 is taken to be, and the empty sequence is the code's "".        *)
(* Transactions are single steps, since the writer mutex (SQLite) or the   *)
(* advisory lock (PostgreSQL) is held from BeginTx to Commit.  The sinks   *)
(* that copy committed events to external systems are left out.            *)
(***************************************************************************)
EXTENDS Integers, Sequences, FiniteSets, SequencesExt

CONSTANTS
    Events,       \* the events the gateway reports, each by one Enqueue call
    Sentinel,     \* the channel element that asks for a drain
    Torn,         \* a spill record whose write stopped in the middle
    LegacyEvents, \* the events of the legacy chain
    LegacyRows,   \* the rows it starts with, in the order of their ids
    ChannelCap,   \* capacity of captureC
    BatchSize,    \* rows per transaction
    Retention,    \* how long a fact is kept
    MaxTime,      \* bound on the clock
    MaxFaults,    \* bound on failures of the database and of the spill file
    MaxCrashes    \* bound on ends of the process

Genesis == << >>
Hash(prev, e) == Append(prev, e)

\* What the row at `i' must name as its predecessor in a walk that starts at
\* the row id `first' with the hash `anchor'.
Cursor(rs, i, first, anchor) ==
    IF i = 1 \/ rs[i - 1].id < first THEN anchor ELSE rs[i - 1].self

\* The ids of the rows at which that walk finds a break.
VerifyChain(rs, first, anchor) ==
    {rs[i].id : i \in {j \in DOMAIN rs :
        /\ rs[j].id >= first
        /\ \/ rs[j].prev # Cursor(rs, j, first, anchor)
           \/ rs[j].self # Hash(rs[j].prev, rs[j].ev)}}

\* Breaks that rows deleted by hand left in the legacy chain long ago.
LegacyGap == VerifyChain(LegacyRows, 1, Genesis)

Row(events) == [id : Nat \ {0}, ev : events, at : Nat, prev : Seq(events), self : Seq(events)]

ASSUME AuditAssumption ==
    /\ ChannelCap \in Nat \ {0} /\ BatchSize \in Nat \ {0}
    /\ Retention \in Nat /\ MaxTime \in Nat
    /\ MaxFaults \in Nat /\ MaxCrashes \in Nat
    /\ Sentinel \notin Events /\ Torn \notin Events

ASSUME LegacyAssumption ==
    /\ LegacyRows \in Seq(Row(LegacyEvents))
    /\ \A i, j \in DOMAIN LegacyRows : i < j => LegacyRows[i].id < LegacyRows[j].id

VARIABLES
    profile,    \* the chain this behaviour is about
    now,        \* the clock
    pc,         \* the Enqueue call of each event
    expires,    \* the expiry Enqueue gave each event
    channel,    \* captureC
    batch,      \* the writer's batch
    recs,       \* the records the writer drained from the spill file
    writer,     \* where runWriter is
    after,      \* what follows the flush under way
    closed,     \* closeC
    spill,      \* the spill file's records
    handle,     \* the collector's spill file, open or not
    rows,       \* the chain's table
    nextId,     \* its next row id
    cp,         \* its latest checkpoint, where a walk starts
    rebase,     \* the operator's re-anchoring under way
    stale,      \* the latest checkpoint anchors a row that was gone
    dropped,    \* events counted as dropped
    stored,     \* history: events ever committed
    lost,       \* history: events in memory when a process ended
    buried,     \* history: events behind a torn record when drained
    faults, crashes

calls == <<pc, expires>>
memory == <<channel, batch, recs, writer, after, closed, handle>>
chain == <<rows, nextId, cp, stale>>
fate == <<dropped, stored, lost, buried>>
vars == <<profile, now, calls, memory, spill, chain, rebase, fate, faults, crashes>>

Init ==
    /\ profile \in {"lifecycle", "legacy"}
    /\ now = 0
    /\ pc = [e \in Events |-> "new"] /\ expires = [e \in Events |-> 0]
    /\ channel = << >> /\ batch = << >> /\ recs = << >> /\ spill = << >>
    /\ writer = "select" /\ after = "select" /\ closed = FALSE /\ handle = "open"
    /\ rows = IF profile = "legacy" THEN LegacyRows ELSE << >>
    /\ nextId = IF rows = << >> THEN 1 ELSE Last(rows).id + 1
    /\ cp = [hash |-> Genesis, next |-> 1]
    /\ rebase = [id |-> 0, hash |-> Genesis] /\ stale = FALSE
    /\ dropped = {} /\ stored = {} /\ lost = {} /\ buried = {}
    /\ faults = 0 /\ crashes = 0

-----------------------------------------------------------------------------
(* Enqueue, one call per event. *)

Fault == faults < MaxFaults /\ faults' = faults + 1
NoFault == UNCHANGED faults

\* The event is stamped and the collector found open or closed.
Call(e) ==
    /\ profile = "lifecycle" /\ pc[e] = "new"
    /\ expires' = [expires EXCEPT ![e] = now + Retention]
    /\ pc' = [pc EXCEPT ![e] = IF closed THEN "refused" ELSE "admit"]
    /\ UNCHANGED <<profile, now, memory, spill, chain, rebase, fate, faults, crashes>>

HasRoom == Len(channel) < ChannelCap

\* The channel takes the event, in the first attempt or in the bounded wait.
Send(e) ==
    /\ pc[e] \in {"admit", "block"} /\ HasRoom
    /\ channel' = Append(channel, e)
    /\ pc' = [pc EXCEPT ![e] = "accepted"]
    /\ UNCHANGED <<profile, now, expires, batch, recs, writer, after, closed, handle,
                   spill, chain, rebase, fate, faults, crashes>>

\* The channel is full: on to the spill file, if there still is one.  Close
\* clears the field without synchronisation, so once the file is shut a call
\* may see either.
Overflow(e) ==
    /\ pc[e] = "admit" /\ ~HasRoom
    /\ \E next \in IF handle = "open" THEN {"write"} ELSE {"write", "block"} :
         pc' = [pc EXCEPT ![e] = next]
    /\ UNCHANGED <<profile, now, expires, memory, spill, chain, rebase, fate, faults, crashes>>

\* A write to the spill file leaves a whole record, or fails having written
\* nothing or part of one.
Written(r) == handle = "open" /\ spill' = Append(spill, r) /\ NoFault
NotWritten == handle = "open" /\ spill' \in {spill, Append(spill, Torn)} /\ Fault

\* The record is on disk; the writer is asked to drain if the channel has room.
SpillWrite(e) ==
    /\ pc[e] = "write" /\ Written(e)
    /\ channel' = IF HasRoom THEN Append(channel, Sentinel) ELSE channel
    /\ pc' = [pc EXCEPT ![e] = "accepted"]
    /\ UNCHANGED <<profile, now, expires, batch, recs, writer, after, closed, handle,
                   chain, rebase, fate, crashes>>

\* The write fails; on a file that Close has shut it fails too, or the cleared
\* field makes the call panic.
SpillFails(e) ==
    /\ pc[e] = "write"
    /\ \/ /\ NotWritten
          /\ pc' = [pc EXCEPT ![e] = "block"]
       \/ /\ handle = "shut" /\ NoFault /\ UNCHANGED spill
          /\ \E next \in {"block", "refused"} : pc' = [pc EXCEPT ![e] = next]
    /\ UNCHANGED <<profile, now, expires, memory, chain, rebase, fate, crashes>>

\* The bounded wait ends with a timeout, which is counted, or by the close of
\* the collector or the end of the caller's context, which are not.
GiveUp(e) ==
    /\ pc[e] = "block"
    /\ dropped' \in {dropped, dropped \cup {e}}
    /\ pc' = [pc EXCEPT ![e] = "refused"]
    /\ UNCHANGED <<profile, now, expires, memory, spill, chain, rebase,
                   stored, lost, buried, faults, crashes>>

-----------------------------------------------------------------------------
(* runWriter. *)

\* The batch with the channel's next element; a sentinel is not an event.
WithHead == IF Head(channel) = Sentinel THEN batch ELSE Append(batch, Head(channel))

\* One element of the channel: a full batch is flushed, the sentinel flushes
\* and drains.
TakeOne ==
    /\ writer = "select" /\ channel # << >>
    /\ channel' = Tail(channel)
    /\ batch' = WithHead
    /\ after' = IF Head(channel) = Sentinel THEN "drain" ELSE "select"
    /\ writer' = IF Head(channel) = Sentinel \/ Len(batch') >= BatchSize
                 THEN "flush" ELSE "select"
    /\ UNCHANGED <<profile, now, calls, recs, closed, handle, spill, chain, rebase,
                   fate, faults, crashes>>

\* Defect: the ticker only flushes.
FlushTickOnly ==
    /\ writer = "select"
    /\ writer' = "flush" /\ after' = "select"
    /\ UNCHANGED <<profile, now, calls, channel, batch, recs, closed, handle, spill, chain,
                   rebase, fate, faults, crashes>>

\* The ticker flushes and drains, whatever the channel holds.
FlushTick ==
    /\ writer = "select"
    /\ writer' = "flush" /\ after' = "drain"
    /\ UNCHANGED <<profile, now, calls, channel, batch, recs, closed, handle, spill, chain,
                   rebase, fate, faults, crashes>>

\* closeC: what the channel still holds joins the last batch, one by one, and an
\* empty channel ends the loop.
TakeRest ==
    /\ writer \in {"select", "closing"} /\ closed
    /\ IF channel # << >>
       THEN /\ channel' = Tail(channel) /\ batch' = WithHead
            /\ writer' = "closing" /\ UNCHANGED after
       ELSE /\ writer' = "flush" /\ after' = "final" /\ UNCHANGED <<channel, batch>>
    /\ UNCHANGED <<profile, now, calls, recs, closed, handle, spill, chain, rebase,
                   fate, faults, crashes>>

\* The rows flushBatch appends for `es', each linked to the one before.
TailHash == IF rows = << >> THEN Genesis ELSE Last(rows).self
NewRows(es) ==
    [i \in DOMAIN es |->
        [id   |-> nextId + i - 1,
         ev   |-> es[i],
         at   |-> expires[es[i]],
         prev |-> TailHash \o SubSeq(es, 1, i - 1),
         self |-> TailHash \o SubSeq(es, 1, i)]]
Commit(es) ==
    /\ rows' = rows \o NewRows(es) /\ nextId' = nextId + Len(es)
    /\ stored' = stored \cup ToSet(es)
    /\ UNCHANGED <<cp, stale>>

\* flushBatch: committed; rolled back; or committed with the answer lost.
FlushBatch(es, succeeds, fails) ==
    \/ NoFault /\ Commit(es) /\ succeeds
    \/ Fault /\ UNCHANGED <<chain, stored>> /\ fails
    \/ Fault /\ Commit(es) /\ fails

FlushedTo == IF after = "select" THEN "select" ELSE "drain"
DrainedTo == IF after = "final" THEN "ended" ELSE "select"

\* flushLocked, whose failure is followed by the batch's return to the file.
Flush ==
    /\ writer = "flush"
    /\ \/ /\ batch = << >> /\ writer' = FlushedTo
          /\ UNCHANGED <<batch, chain, stored, faults>>
       \/ /\ batch # << >>
          /\ FlushBatch(batch, batch' = << >> /\ writer' = FlushedTo,
                               writer' = "respill" /\ UNCHANGED batch)
    /\ UNCHANGED <<profile, now, calls, channel, recs, after, closed, handle, spill, rebase,
                   dropped, lost, buried, crashes>>

\* Defect: a record that cannot be returned is not counted.
ReturnQuietly(r) == (Written(r) \/ NotWritten) /\ UNCHANGED dropped

\* One record of a failed flush returns to the file, or is counted as dropped.
Return(r) ==
    \/ Written(r) /\ UNCHANGED dropped
    \/ NotWritten /\ dropped' = dropped \cup {r}

Respill ==
    /\ writer = "respill"
    /\ Return(Head(batch))
    /\ batch' = Tail(batch)
    /\ writer' = IF batch' = << >> THEN FlushedTo ELSE writer
    /\ UNCHANGED <<profile, now, calls, channel, recs, after, closed, handle, chain, rebase,
                   stored, lost, buried, crashes>>

\* What a reader of the file makes out: the records before the first torn one.
Readable ==
    LET torn == {i \in DOMAIN spill : spill[i] = Torn}
    IN IF torn = {} THEN spill
       ELSE SubSeq(spill, 1, (CHOOSE i \in torn : \A j \in torn : i <= j) - 1)

\* Drain reads the file and empties it under the file's lock.  A fault comes
\* before the truncation; a read that ends early for another reason than a torn
\* record, and a seek that fails after the truncation, would both lose records
\* and are left out.
Drain ==
    /\ writer = "drain"
    /\ \/ /\ Fault /\ writer' = DrainedTo
          /\ UNCHANGED <<recs, spill, buried>>
       \/ /\ NoFault
          /\ recs' = Readable /\ spill' = << >>
          /\ buried' = buried \cup ((ToSet(spill) \ {Torn}) \ ToSet(Readable))
          /\ writer' = IF recs' = << >> THEN DrainedTo ELSE "replay"
    /\ UNCHANGED <<profile, now, calls, channel, batch, after, closed, handle, chain, rebase,
                   dropped, stored, lost, crashes>>

Replay ==
    /\ writer = "replay"
    /\ FlushBatch(recs, recs' = << >> /\ writer' = DrainedTo,
                        writer' = "restore" /\ UNCHANGED recs)
    /\ UNCHANGED <<profile, now, calls, channel, batch, after, closed, handle, spill, rebase,
                   dropped, lost, buried, crashes>>

Restore ==
    /\ writer = "restore"
    /\ Return(Head(recs))
    /\ recs' = Tail(recs)
    /\ writer' = IF recs' = << >> THEN DrainedTo ELSE writer
    /\ UNCHANGED <<profile, now, calls, channel, batch, after, closed, handle, chain, rebase,
                   stored, lost, buried, crashes>>

\* Close signals the writer; it shuts the spill file once the writer has ended.
Close ==
    /\ profile = "lifecycle"
    /\ \/ ~closed /\ closed' = TRUE /\ UNCHANGED handle
       \/ writer = "ended" /\ handle = "open" /\ handle' = "shut" /\ UNCHANGED closed
    /\ UNCHANGED <<profile, now, calls, channel, batch, recs, writer, after, spill, chain,
                   rebase, fate, faults, crashes>>

\* The process ends, by a crash or after its shutdown, and a new one starts on
\* the same spill file.  A write under way may leave a torn record.
Writing == writer \in {"respill", "restore"} \/ \E e \in Events : pc[e] = "write"
InMemory == (ToSet(channel) \ {Sentinel}) \cup ToSet(batch) \cup ToSet(recs)
Restart ==
    /\ profile = "lifecycle" /\ crashes < MaxCrashes
    /\ crashes' = crashes + 1
    /\ spill' \in {spill} \cup (IF Writing /\ handle = "open" THEN {Append(spill, Torn)} ELSE {})
    /\ lost' = lost \cup InMemory
    /\ pc' = [e \in Events |-> IF pc[e] \in {"admit", "write", "block"} THEN "refused" ELSE pc[e]]
    /\ channel' = << >> /\ batch' = << >> /\ recs' = << >>
    /\ writer' = "select" /\ after' = "select" /\ closed' = FALSE /\ handle' = "open"
    /\ UNCHANGED <<profile, now, expires, chain, rebase, dropped, stored, buried, faults>>

-----------------------------------------------------------------------------
(* Retention and repair of the chain. *)

\* Defect: the lifecycle chain is pruned the way the legacy chain is.
LastRowExpired(cutoff) ==
    LET old == {i \in DOMAIN rows : rows[i].at < cutoff}
    IN IF old = {} THEN 0 ELSE Max(old)

\* How many rows from the front the prune covers: of the lifecycle chain the
\* rows before the first unexpired one, of the legacy chain the rows up to the
\* last old one.
LastRowBefore(cutoff) ==
    IF profile = "lifecycle"
    THEN LET live == {i \in DOMAIN rows : rows[i].at >= cutoff}
         IN IF live = {} THEN Len(rows) ELSE Min(live) - 1
    ELSE LET old == {i \in DOMAIN rows : rows[i].at < cutoff}
         IN IF old = {} THEN 0 ELSE Max(old)

\* Defect: the last pruned hash stays the anchor of an empty table.
AnchorLast(last, left) == [hash |-> last.self, next |-> last.id + 1]

\* The checkpoint a prune leaves: it anchors the first row that stays, and
\* a table that became empty starts again from the genesis hash.
Anchor(last, left) ==
    [hash |-> IF left = << >> THEN Genesis ELSE last.self, next |-> last.id + 1]

\* GC.Tick.  The legacy retention can be reloaded, so its cutoff is any time
\* up to now.
Prune(cutoff) ==
    LET n == LastRowBefore(cutoff) IN
    /\ profile = "lifecycle" => cutoff = now
    /\ n > 0
    /\ rows' = SubSeq(rows, n + 1, Len(rows))
    /\ cp' = Anchor(rows[n], rows')
    /\ stale' = FALSE
    /\ UNCHANGED <<profile, now, calls, memory, spill, nextId, rebase, fate, faults, crashes>>

\* Rebase reads the row to anchor at, then saves the checkpoint, in separate
\* statements.
RebaseRead(i) ==
    /\ profile = "legacy" /\ rebase.id = 0
    /\ rebase' = [id |-> rows[i].id, hash |-> rows[i].prev]
    /\ UNCHANGED <<profile, now, calls, memory, spill, chain, fate, faults, crashes>>

RebaseSave ==
    /\ rebase.id # 0
    /\ cp' = [hash |-> rebase.hash, next |-> rebase.id]
    /\ stale' = (\A i \in DOMAIN rows : rows[i].id # rebase.id)
    /\ rebase' = [id |-> 0, hash |-> Genesis]
    /\ UNCHANGED <<profile, now, calls, memory, spill, rows, nextId, fate, faults, crashes>>

\* The breaks a verification of the rows from the checkpoint on reports.
VerifyOnce == VerifyChain(rows, cp.next, cp.hash)

Clock ==
    /\ now < MaxTime /\ now' = now + 1
    /\ UNCHANGED <<profile, calls, memory, spill, chain, rebase, fate, faults, crashes>>

Writes == TakeOne \/ TakeRest \/ Flush \/ Respill \/ Drain \/ Replay \/ Restore

Next ==
    \/ \E e \in Events : \/ Call(e) \/ Send(e) \/ Overflow(e) \/ SpillWrite(e)
                         \/ SpillFails(e) \/ GiveUp(e)
    \/ profile = "lifecycle" /\ (Writes \/ FlushTick)
    \/ Close \/ Restart \/ Clock
    \/ \E cutoff \in 0..now : Prune(cutoff)
    \/ \E i \in DOMAIN rows : RebaseRead(i)
    \/ RebaseSave

Spec == Init /\ [][Next]_vars

\* The writer keeps running, and Go's select takes each ready case in the end.
Fairness ==
    /\ SF_vars(TakeOne) /\ SF_vars(FlushTick)
    /\ WF_vars(\/ Flush \/ Respill \/ Drain \/ Replay \/ Restore
               \/ writer = "closing" /\ TakeRest)

LiveSpec == Spec /\ Fairness

-----------------------------------------------------------------------------
(* Properties. *)

\* Every value has its type; only the writer's own steps hold its records.
ATypeOK ==
    /\ profile \in {"lifecycle", "legacy"} /\ now \in 0..MaxTime
    /\ pc \in [Events -> {"new", "admit", "write", "block", "accepted", "refused"}]
    /\ expires \in [Events -> Nat]
    /\ channel \in Seq(Events \cup {Sentinel}) /\ Len(channel) <= ChannelCap
    /\ batch \in Seq(Events) /\ recs \in Seq(Events) /\ spill \in Seq(Events \cup {Torn})
    /\ writer \in {"select", "closing", "flush", "respill", "drain", "replay", "restore", "ended"}
    /\ after \in {"select", "drain", "final"}
    /\ writer = "respill" => batch # << >>
    /\ writer \in {"replay", "restore"} <=> recs # << >>
    /\ dropped \cup stored \cup lost \cup buried \subseteq Events

\* An event whose Enqueue call returned without error is always somewhere it
\* can still be committed from, or has been committed, or its loss has a known
\* cause: counted as dropped, in memory when a process ended, or behind a torn
\* record of the spill file.  Failed flushes, failed drains and writes that
\* race a drain lose nothing else.
NothingLost ==
    \A e \in Events : pc[e] = "accepted" =>
        e \in InMemory \cup ToSet(spill) \cup stored \cup dropped \cup lost \cup buried

\* A verification that nothing disturbs finds no break but those of the legacy
\* chain's past: batches, replays, prunes (of all rows, too) and re-anchorings
\* keep the chain and its checkpoint in step.  A re-anchoring whose row was
\* pruned between its two statements is the exception, until the next prune.
ChainSound ==
    stale \/ VerifyOnce \subseteq (IF profile = "legacy" THEN LegacyGap ELSE {})

\* The lifecycle chain never loses a row before its own expiry, although rows
\* that were spilled stand behind rows that expire later.
RetentionKept ==
    [][profile = "lifecycle" =>
         \A i \in DOMAIN rows : rows[i] \notin ToSet(rows') => rows[i].at < now]_vars

\* While the collector runs every accepted event is settled in the end, also
\* one whose drain request found the channel full and one whose flush failed.
AcceptedSettles ==
    \A e \in Events :
        pc[e] = "accepted" ~> \/ e \in stored \cup dropped \cup lost \cup buried
                              \/ writer = "ended"
=============================================================================
