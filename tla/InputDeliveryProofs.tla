------------------------ MODULE InputDeliveryProofs ------------------------
(***************************************************************************)
(* Proofs about the input ledger and, from its theorems on, about the      *)
(* delivery path that works on it: for any number of sessions, inputs,     *)
(* gateway incarnations and worker runs, any limits and any clock skew.    *)
(***************************************************************************)
EXTENDS InputDelivery, FiniteSetTheorems, SequenceTheorems, TLAPS

-----------------------------------------------------------------------------
(* THE LEDGER: ExecutionLedger.                                            *)

\* The inductive invariant.  SingleSlot alone is not inductive: lease recovery
\* fences rows without looking at the rest of the session, which is safe only
\* because the rows it fences already hold the slot, and a claim is safe only
\* because a queue row belongs to a row that holds no slot.
IInv ==
  /\ TypeOK
  /\ SingleSlot
  /\ FencedOnceAndUnknown
  /\ QueueMatchesRows
  /\ OrdinalsUnique

\* The same facts about one row.
Holds(q) == q.rt \in {"pending", "running"} \/ q.fence # "none"

FenceOK(q) ==
  /\ q.fence # "none" => q.rt = "unknown" /\ q.fver = 1
  /\ q.fver <= 1
  /\ q.rt \in {"none", "queued", "pending", "running"} => q.fver = 0

-----------------------------------------------------------------------------
(* What each UPDATE does to a row: one lemma per operator. *)

\* fenceEntryBump counts one more exactly when the row was not fenced.
LEMMA Bumped ==
  ASSUME NEW q \in Row
  PROVE  BumpedVersion(q) \in Nat /\ (q.fence = "none" => BumpedVersion(q) = q.fver + 1)
  BY SMT DEF Row, BumpedVersion

\* MarkRunning moves the runtime and the run, and nothing else.
LEMMA RunningRow ==
  ASSUME NEW q \in Row, NEW r \in Runs
  PROVE  /\ Running(q, r) \in Row
         /\ Running(q, r).rt = "running"
         /\ Running(q, r).run = r
         /\ Running(q, r).fence = q.fence
         /\ Running(q, r).fver = q.fver
         /\ Running(q, r).status = q.status
  BY Zenon DEF Row, Runtime, Running

\* FinishRuntime sets the outcome, and fences exactly the ambiguous one.
LEMMA FinishedRow ==
  ASSUME NEW q \in Row, NEW st \in {"completed", "failed", "unknown"}
  PROVE  /\ Finished(q, st) \in Row
         /\ Finished(q, st).rt = st
         /\ Finished(q, st).run = q.run
         /\ Finished(q, st).status = q.status
         /\ st = "unknown" => Finished(q, st).fence = "RUNTIME_AMBIGUOUS"
                               /\ Finished(q, st).fver = BumpedVersion(q)
         /\ st # "unknown" => Finished(q, st).fence = "none"
                               /\ Finished(q, st).fver = q.fver
  <1>1. CASE st = "unknown"
    BY <1>1, Bumped, Zenon DEF Row, Runtime, Finished, FenceReason
  <1>2. CASE st # "unknown"
    BY <1>2, Bumped, Zenon DEF Row, Runtime, Finished, FenceReason
  <1> QED BY <1>1, <1>2

\* Lease recovery and shutdown leave a fenced, runtime-unknown row.
LEMMA FencedRow ==
  ASSUME NEW q \in Row, NEW reason \in FenceReason
  PROVE  /\ Fenced(q, reason) \in Row
         /\ Fenced(q, reason).rt = "unknown"
         /\ Fenced(q, reason).run = q.run
         /\ Fenced(q, reason).fence = reason
         /\ Fenced(q, reason).fver = BumpedVersion(q)
         /\ q.status # "accepted" => Fenced(q, reason).status = q.status
  <1>1. CASE q.status = "accepted"
    BY <1>1, Bumped, Zenon DEF Row, Runtime, Delivery, Fenced
  <1>2. CASE q.status # "accepted"
    BY <1>2, Bumped, Zenon DEF Row, Runtime, Delivery, Fenced
  <1> QED BY <1>1, <1>2

\* A claim makes the row pending and does not touch its fence.
LEMMA ClaimedRow ==
  ASSUME NEW q \in Row, NEW g \in Gateways, NEW r \in Runs \cup {NoRun}, NEW t \in Int
  PROVE  /\ Claimed(q, g, r, t) \in Row
         /\ Claimed(q, g, r, t).rt = "pending"
         /\ Claimed(q, g, r, t).run = r
         /\ Claimed(q, g, r, t).fence = q.fence
         /\ Claimed(q, g, r, t).fver = q.fver
         /\ Claimed(q, g, r, t).status = q.status
  BY Zenon DEF Row, Runtime, Claimed

\* settleQueuedTx fails both facts of a row and does not touch its fence.
LEMMA DroppedRow ==
  ASSUME NEW q \in Row
  PROVE  /\ Dropped(q) \in Row
         /\ Dropped(q).rt = "failed"
         /\ Dropped(q).run = q.run
         /\ Dropped(q).fence = q.fence
         /\ Dropped(q).fver = q.fver
         /\ Dropped(q).status = "failed"
  BY Zenon DEF Row, Runtime, Delivery, Dropped

\* ClearFenceAfterFreshStart lifts the fence and keeps the unknown runtime.
LEMMA FreshlyStartedRow ==
  ASSUME NEW q \in Row, NEW r \in Runs
  PROVE  /\ FreshlyStarted(q, r) \in Row
         /\ FreshlyStarted(q, r).fence = "none"
         /\ FreshlyStarted(q, r).rt = q.rt
         /\ FreshlyStarted(q, r).run = r
         /\ FreshlyStarted(q, r).fver = q.fver
         /\ FreshlyStarted(q, r).status = q.status
         /\ FreshlyStarted(q, r).lease = q.lease
  BY Zenon DEF Row, FreshlyStarted

\* Abandoning lifts the fence and fails the runtime.
LEMMA AbandonedRow ==
  ASSUME NEW q \in Row
  PROVE  /\ Abandoned(q) \in Row
         /\ Abandoned(q).fence = "none"
         /\ Abandoned(q).rt = "failed"
         /\ Abandoned(q).run = q.run
         /\ Abandoned(q).fver = q.fver
         /\ Abandoned(q).status = q.status
  BY Zenon DEF Row, Abandoned, Runtime

\* Compaction drops the owner and the lease, and no fact.
LEMMA CompactedRow ==
  ASSUME NEW q \in Row
  PROVE  /\ Compacted(q) \in Row
         /\ Compacted(q).fence = q.fence
         /\ Compacted(q).rt = q.rt
         /\ Compacted(q).fver = q.fver
         /\ Compacted(q).status = q.status
         /\ Compacted(q).run = q.run
         /\ Compacted(q).lease = 0
  <1>1. 0 \in Int BY SMT
  <1> QED BY <1>1, Zenon DEF Row, Compacted

-----------------------------------------------------------------------------
(* The inductive invariant, action by action. *)

\* Facts of one row that an action which only rewrites rows may rely on.
LEMMA RowFacts ==
  ASSUME IInv, NEW j \in Inputs
  PROVE  /\ rows[j] \in Row
         /\ FenceOK(rows[j])
         /\ rows[j].rt = "queued" => rows[j].run = NoRun /\ rows[j].lease = 0
  BY DEF IInv, TypeOK, FencedOnceAndUnknown, QueueMatchesRows, FenceOK

\* An action that rewrites rows only, hands nobody a slot it did not hold, and
\* leaves queued rows alone preserves the invariant.
LEMMA QuietRows ==
  ASSUME IInv,
         rows' \in [Inputs -> Row],
         UNCHANGED <<queue, nextSeq, budget, open, now>>,
         \A j \in Inputs : /\ Holds(rows'[j]) => Holds(rows[j])
                           /\ FenceOK(rows'[j])
                           /\ rows'[j].rt = "queued" <=> rows[j].rt = "queued"
                           /\ rows[j].rt = "queued" => rows'[j].run = rows[j].run
                                                       /\ rows'[j].lease = rows[j].lease
  PROVE  IInv'
  <1>1. TypeOK'
    BY DEF IInv, TypeOK
  <1>2. SingleSlot'
    BY DEF IInv, SingleSlot, HoldsSlot, Active, Holds
  <1>3. FencedOnceAndUnknown'
    BY DEF FencedOnceAndUnknown, FenceOK
  <1>4. QueueMatchesRows'
    BY DEF IInv, QueueMatchesRows, Queued
  <1>5. OrdinalsUnique'
    BY DEF IInv, OrdinalsUnique, QueueOf, Queued
  <1> QED BY <1>1, <1>2, <1>3, <1>4, <1>5 DEF IInv

\* Accept inserts into a session whose slot is free.
LEMMA AcceptStep ==
  ASSUME IInv, NEW g \in Gateways, NEW i \in Inputs, NEW r \in Runs \cup {NoRun},
         Accept(g, i, r)
  PROVE  IInv'
  <1> USE LedgerAssumption DEF LedgerAssumption, IInv, Accept
  <1>1. TypeOK'
    BY DEF TypeOK, Row, Delivery, Runtime, LocalNow
  <1>2. SingleSlot'
    BY DEF TypeOK, Row, SingleSlot, Busy, HoldsSlot, Active
  <1>3. FencedOnceAndUnknown'
    BY DEF TypeOK, Row, FencedOnceAndUnknown
  <1>4. QueueMatchesRows'
    BY DEF TypeOK, Row, QueueMatchesRows, Queued
  <1>5. OrdinalsUnique'
    BY DEF TypeOK, OrdinalsUnique, QueueOf, Queued
  <1> QED BY <1>1, <1>2, <1>3, <1>4, <1>5

\* SetDelivery touches neither the runtime nor the fence.
LEMMA SetDeliveryStep ==
  ASSUME IInv, NEW g \in Gateways, NEW i \in Inputs, NEW st \in Outcome,
         SetDelivery(g, i, st)
  PROVE  IInv'
  <1> DEFINE q == [rows[i] EXCEPT !.status = st]
  <1>1. /\ q \in Row /\ q.rt = rows[i].rt /\ q.fence = rows[i].fence
        /\ q.fver = rows[i].fver /\ q.run = rows[i].run /\ q.lease = rows[i].lease
    BY RowFacts, Zenon DEF Row, Delivery, Outcome
  <1>2. rows' = [rows EXCEPT ![i] = q] /\ UNCHANGED <<queue, nextSeq, budget, open, now>>
    BY DEF SetDelivery
  <1> HIDE DEF q
  <1> QED BY <1>1, <1>2, QuietRows, RowFacts DEF IInv, TypeOK, Holds, FenceOK

\* MarkRunning keeps the slot that the pending row already holds.
LEMMA MarkRunningStep ==
  ASSUME IInv, NEW g \in Gateways, NEW i \in Inputs, NEW r \in Runs, MarkRunning(g, i, r)
  PROVE  IInv'
  <1>1. rows[i].rt = "pending" /\ UNCHANGED <<queue, nextSeq, budget, open, now>>
        /\ rows' = [rows EXCEPT ![i] = Running(rows[i], r)]
    BY DEF MarkRunning
  <1> QED BY <1>1, RunningRow, QuietRows, RowFacts DEF IInv, TypeOK, Holds, FenceOK

\* FinishRuntime frees the slot, or fences the row that holds it.
LEMMA FinishRuntimeStep ==
  ASSUME IInv, NEW i \in Inputs, NEW r \in Runs \cup {NoRun},
         NEW st \in {"completed", "failed", "unknown"}, FinishRuntime(i, r, st)
  PROVE  IInv'
  <1>1. rows[i].rt \in FinishableTo(st) /\ UNCHANGED <<queue, nextSeq, budget, open, now>>
        /\ rows' = [rows EXCEPT ![i] = Finished(rows[i], st)]
    BY DEF FinishRuntime
  <1>2. CASE st = "unknown"
    <2>1. rows[i].fence = "none" /\ rows[i].fver = 0 /\ rows[i].rt \in {"pending", "running"}
      BY <1>1, <1>2, RowFacts DEF FinishableTo, FenceOK
    <2>2. BumpedVersion(rows[i]) = 1 /\ rows[i] \in Row
      BY <2>1, Bumped, RowFacts
    <2>3. Finished(rows[i], st).fver = 1
      BY <1>2, <2>2, FinishedRow
    <2> QED BY <1>1, <1>2, <2>1, <2>3, FinishedRow, QuietRows, RowFacts
            DEF IInv, TypeOK, Holds, FenceOK
  <1>3. CASE st # "unknown"
    <2>1. rows[i].rt \in {"pending", "running", "unknown"}
      BY <1>1, <1>3 DEF FinishableTo
    <2> QED BY <1>1, <1>3, <2>1, FinishedRow, QuietRows, RowFacts
            DEF IInv, TypeOK, Holds, FenceOK
  <1> QED BY <1>2, <1>3

\* ConvergeDeliveryFailed touches only the delivery of a finished row.
LEMMA ConvergeStep ==
  ASSUME IInv, NEW i \in Inputs, NEW r \in Runs, ConvergeDeliveryFailed(i, r)
  PROVE  IInv'
  <1> DEFINE q == [rows[i] EXCEPT !.status = "unknown"]
  <1>1. /\ q \in Row /\ q.rt = rows[i].rt /\ q.fence = rows[i].fence
        /\ q.fver = rows[i].fver /\ q.run = rows[i].run /\ q.lease = rows[i].lease
    BY RowFacts, Zenon DEF Row, Delivery
  <1>2. rows' = [rows EXCEPT ![i] = q] /\ UNCHANGED <<queue, nextSeq, budget, open, now>>
    BY DEF ConvergeDeliveryFailed
  <1> HIDE DEF q
  <1> QED BY <1>1, <1>2, QuietRows, RowFacts DEF IInv, TypeOK, Holds, FenceOK

\* ClearFenceAfterFreshStart frees the slot of a fenced row.
LEMMA FreshStartStep ==
  ASSUME IInv, NEW i \in Inputs, NEW reason \in FenceReason, NEW r \in Runs,
         ClearFenceAfterFreshStart(i, reason, r)
  PROVE  IInv'
  <1>1. rows[i].fence = reason /\ UNCHANGED <<queue, nextSeq, budget, open, now>>
        /\ rows' = [rows EXCEPT ![i] = FreshlyStarted(rows[i], r)]
    BY DEF ClearFenceAfterFreshStart
  <1>2. rows[i].rt = "unknown"
    BY <1>1, RowFacts DEF FenceOK, FenceReason
  <1> QED BY <1>1, <1>2, FreshlyStartedRow, QuietRows, RowFacts
          DEF IInv, TypeOK, Holds, FenceOK

\* Resolving a fence frees the slot.
LEMMA ResolveStep ==
  ASSUME IInv, NEW i \in Inputs, NEW v \in Nat, ResolveFence(i, v)
  PROVE  IInv'
  <1> DEFINE q == [rows[i] EXCEPT !.fence = "none"]
  <1>1. /\ q \in Row /\ q.rt = rows[i].rt /\ q.fence = "none"
        /\ q.fver = rows[i].fver /\ q.run = rows[i].run /\ q.lease = rows[i].lease
    BY RowFacts, Zenon DEF Row
  <1>2. rows' = [rows EXCEPT ![i] = q] /\ UNCHANGED <<queue, nextSeq, budget, open, now>>
    BY DEF ResolveFence
  <1> HIDE DEF q
  <1> QED BY <1>1, <1>2, QuietRows, RowFacts DEF IInv, TypeOK, Holds, FenceOK

\* Abandoning a fence frees the slot and settles the row.
LEMMA AbandonStep ==
  ASSUME IInv, NEW i \in Inputs, NEW v \in Nat, AbandonFence(i, v)
  PROVE  IInv'
  <1>1. rows[i].rt = "unknown" /\ UNCHANGED <<queue, nextSeq, budget, open, now>>
        /\ rows' = [rows EXCEPT ![i] = Abandoned(rows[i])]
    BY DEF AbandonFence
  <1> QED BY <1>1, AbandonedRow, QuietRows, RowFacts DEF IInv, TypeOK, Holds, FenceOK

\* Fencing any set of active rows is quiet: each of them held the slot before.
LEMMA FenceActive ==
  ASSUME IInv, NEW S \in SUBSET Inputs, NEW reason \in FenceReason,
         \A j \in S : Active(j),
         rows' = [j \in Inputs |-> IF j \in S THEN Fenced(rows[j], reason) ELSE rows[j]],
         UNCHANGED <<queue, nextSeq, budget, open, now>>
  PROVE  IInv'
  <1>1. \A j \in S : /\ rows[j].fence = "none" /\ rows[j].fver = 0
                     /\ Holds(rows[j]) /\ rows[j].rt # "queued"
    BY RowFacts DEF FenceOK, Active, Holds
  <1>2. \A j \in S : /\ Fenced(rows[j], reason) \in Row
                     /\ Fenced(rows[j], reason).rt = "unknown"
                     /\ Fenced(rows[j], reason).fver = 1
    <2>1. \A j \in S : BumpedVersion(rows[j]) = 1 /\ rows[j] \in Row
      BY <1>1, Bumped, RowFacts
    <2> QED BY <2>1, FencedRow
  <1>3. \A j \in Inputs : /\ rows'[j] \in Row
                          /\ Holds(rows'[j]) => Holds(rows[j])
                          /\ FenceOK(rows'[j])
                          /\ rows'[j].rt = "queued" <=> rows[j].rt = "queued"
                          /\ rows[j].rt = "queued" => rows'[j] = rows[j]
    <2> TAKE j \in Inputs
    <2>1. CASE j \in S
      <3>1. rows'[j] = Fenced(rows[j], reason)
        BY <2>1
      <3> QED BY <3>1, <2>1, <1>1, <1>2, SMT DEF FenceOK
    <2>2. CASE j \notin S
      <3>1. rows'[j] = rows[j]
        BY <2>2
      <3> QED BY <3>1, RowFacts
    <2> QED BY <2>1, <2>2
  <1> QED BY <1>3, QuietRows

\* Lease recovery fences only rows that hold a slot.
LEMMA RecoverStep ==
  ASSUME IInv, RecoverExpiredLeases
  PROVE  IInv'
  <1>1. /\ UNCHANGED <<queue, nextSeq, budget, open, now>>
        /\ rows' = [j \in Inputs |-> IF j \in Expired
                                     THEN Fenced(rows[j], "GATEWAY_LEASE_EXPIRED")
                                     ELSE rows[j]]
    BY DEF RecoverExpiredLeases
  <1>2. Expired \in SUBSET Inputs /\ \A j \in Expired : Active(j)
    BY DEF Expired
  <1>3. "GATEWAY_LEASE_EXPIRED" \in FenceReason
    BY DEF FenceReason
  <1> QED BY <1>1, <1>2, <1>3, FenceActive

\* Shutdown fences only rows that hold a slot.
LEMMA TerminateStep ==
  ASSUME IInv, NEW g \in Gateways, TerminateOwnerLeases(g)
  PROVE  IInv'
  <1>1. /\ UNCHANGED <<queue, nextSeq, budget, open, now>>
        /\ rows' = [j \in Inputs |-> IF j \in OwnedActive(g)
                                     THEN Fenced(rows[j], "GATEWAY_SHUTDOWN")
                                     ELSE rows[j]]
    BY DEF TerminateOwnerLeases
  <1>2. OwnedActive(g) \in SUBSET Inputs /\ \A j \in OwnedActive(g) : Active(j)
    BY DEF OwnedActive
  <1>3. "GATEWAY_SHUTDOWN" \in FenceReason
    BY DEF FenceReason
  <1> QED BY <1>1, <1>2, <1>3, FenceActive

\* Renewal changes nothing but leases, and none of a queued row.
LEMMA RenewStep ==
  ASSUME IInv, NEW g \in Gateways, NEW excluded \in SUBSET Inputs, RenewLeases(g, excluded)
  PROVE  IInv'
  <1> DEFINE q(j) == [rows[j] EXCEPT !.lease = now + LeaseTTL]
  <1>1. now + LeaseTTL \in Int
    BY LedgerAssumption DEF LedgerAssumption, IInv, TypeOK
  <1>2. \A j \in Inputs : /\ q(j) \in Row /\ q(j).rt = rows[j].rt
                          /\ q(j).fence = rows[j].fence /\ q(j).fver = rows[j].fver
    BY <1>1, RowFacts, Zenon DEF Row
  <1>3. /\ UNCHANGED <<queue, nextSeq, budget, open, now>>
        /\ rows' = [j \in Inputs |-> IF j \in OwnedActive(g) \ excluded
                                     THEN q(j) ELSE rows[j]]
    BY DEF RenewLeases
  <1> HIDE DEF q
  <1>4. \A j \in Inputs : /\ rows'[j] \in Row
                          /\ Holds(rows'[j]) => Holds(rows[j])
                          /\ FenceOK(rows'[j])
                          /\ rows'[j].rt = "queued" <=> rows[j].rt = "queued"
                          /\ rows[j].rt = "queued" => rows'[j] = rows[j]
    BY <1>2, <1>3, RowFacts DEF Holds, FenceOK, OwnedActive, Active
  <1> QED BY <1>3, <1>4, QuietRows

\* Compaction touches only settled rows.
LEMMA CompactStep ==
  ASSUME IInv, NEW S \in SUBSET Compactable, CompactSettledFacts(S)
  PROVE  IInv'
  <1>1. /\ UNCHANGED <<queue, nextSeq, budget, open, now>>
        /\ rows' = [j \in Inputs |-> IF j \in S THEN Compacted(rows[j]) ELSE rows[j]]
    BY DEF CompactSettledFacts
  <1>2. \A j \in S : rows[j].rt # "queued"
    BY DEF Compactable
  <1>3. \A j \in Inputs : /\ rows'[j] \in Row
                          /\ Holds(rows'[j]) => Holds(rows[j])
                          /\ FenceOK(rows'[j])
                          /\ rows'[j].rt = "queued" <=> rows[j].rt = "queued"
                          /\ rows[j].rt = "queued" => rows'[j] = rows[j]
    BY <1>1, <1>2, CompactedRow, RowFacts DEF Holds, FenceOK
  <1> QED BY <1>1, <1>3, QuietRows

\* AcceptQueued takes an ordinal above every ordinal of the session.
LEMMA AcceptQueuedStep ==
  ASSUME IInv, NEW g \in Gateways, NEW i \in Inputs, NEW rev \in Revisions \cup {0},
         AcceptQueued(g, i, rev)
  PROVE  IInv'
  <1> DEFINE s == SessionOf[i]
             q == [status |-> "accepted", rt |-> "queued", owner |-> g,
                   run |-> NoRun, lease |-> 0, fence |-> "none", fver |-> 0,
                   created |-> LocalNow(g)]
             e == [seq |-> nextSeq[s], expires |-> LocalNow(g) + QueueTTL, rev |-> rev]
  <1>1. /\ rows[i].rt = "none"
        /\ nextSeq' = [nextSeq EXCEPT ![s] = @ + 1]
        /\ rows' = [rows EXCEPT ![i] = q]
        /\ queue' = [queue EXCEPT ![i] = e]
        /\ budget' = QueueDepth + 1
        /\ UNCHANGED <<open, now>>
    BY DEF AcceptQueued, NextOrdinal
  <1>2. s \in Sessions /\ LocalNow(g) \in Int /\ LocalNow(g) + QueueTTL \in Int
        /\ rev \in Nat
    BY LedgerAssumption DEF LedgerAssumption, IInv, TypeOK, LocalNow
  <1>3. q \in Row
    BY <1>2 DEF Row, Delivery, Runtime
  <1>4. /\ q.rt = "queued" /\ q.run = NoRun /\ q.lease = 0
        /\ q.fence = "none" /\ q.fver = 0
    OBVIOUS
  <1>5. e \in QueueEntry /\ e.seq = nextSeq[s] /\ e.seq # 0
    BY <1>2 DEF QueueEntry, IInv, TypeOK
  <1>6. budget' \in Nat
    <2>1. IsFiniteSet({j \in Inputs : Queued(j)})
      BY InputsFinite, FS_Subset
    <2> QED BY <2>1, <1>1, FS_CardinalityType DEF QueueDepth
  <1> HIDE DEF q, e
  <1>7. TypeOK'
    BY <1>1, <1>2, <1>3, <1>5, <1>6 DEF IInv, TypeOK, s
  <1>8. SingleSlot'
    BY <1>1, <1>3, <1>4, SMT DEF IInv, TypeOK, SingleSlot, HoldsSlot, Active
  <1>9. FencedOnceAndUnknown'
    BY <1>1, <1>3, <1>4, SMT DEF IInv, TypeOK, FencedOnceAndUnknown
  <1>10. QueueMatchesRows'
    BY <1>1, <1>3, <1>4, <1>5, SMT DEF IInv, TypeOK, QueueMatchesRows, Queued
  <1>11. OrdinalsUnique'
    BY <1>1, <1>2, <1>5, SMT, LedgerAssumption
    DEF IInv, TypeOK, QueueEntry, OrdinalsUnique, QueueOf, Queued, LedgerAssumption, s
  <1> QED BY <1>7, <1>8, <1>9, <1>10, <1>11 DEF IInv

\* ClaimQueued moves a queued row into a free slot.
LEMMA ClaimQueuedStep ==
  ASSUME IInv, NEW g \in Gateways, NEW i \in Inputs, NEW r \in Runs \cup {NoRun},
         NEW rev \in Revisions \cup {0}, ClaimQueued(g, i, r, rev)
  PROVE  IInv'
  <1> DEFINE q == Claimed(rows[i], g, r, LocalNow(g) + LeaseTTL)
  <1>1. /\ rows[i].rt = "queued" /\ ~Busy(SessionOf[i])
        /\ rows' = [rows EXCEPT ![i] = q]
        /\ queue' = [queue EXCEPT ![i] = NoEntry]
        /\ UNCHANGED <<nextSeq, budget, open, now>>
    BY DEF ClaimQueued
  <1>2. LocalNow(g) + LeaseTTL \in Int
    BY LedgerAssumption DEF LedgerAssumption, IInv, TypeOK, LocalNow
  <1>3. /\ q \in Row /\ q.rt = "pending" /\ q.fence = "none" /\ q.fver = 0
    <2>1. rows[i] \in Row /\ rows[i].fence = "none" /\ rows[i].fver = 0
      BY <1>1, RowFacts DEF FenceOK
    <2> DEFINE t == LocalNow(g) + LeaseTTL
    <2>2. t \in Int
      BY <1>2
    <2> HIDE DEF t
    <2>3. /\ Claimed(rows[i], g, r, t) \in Row
          /\ Claimed(rows[i], g, r, t).rt = "pending"
          /\ Claimed(rows[i], g, r, t).fence = rows[i].fence
          /\ Claimed(rows[i], g, r, t).fver = rows[i].fver
      BY <2>1, <2>2, ClaimedRow
    <2> QED BY <2>1, <2>3 DEF t
  <1>4. NoEntry \in QueueEntry /\ NoEntry.seq = 0
    BY DEF NoEntry, QueueEntry
  <1> HIDE DEF q
  <1>5. TypeOK'
    BY <1>1, <1>3, <1>4 DEF IInv, TypeOK
  <1>6. SingleSlot'
    BY <1>1, <1>3, SMT DEF IInv, TypeOK, SingleSlot, HoldsSlot, Active, Busy
  <1>7. FencedOnceAndUnknown'
    BY <1>1, <1>3, SMT DEF IInv, TypeOK, FencedOnceAndUnknown
  <1>8. QueueMatchesRows'
    BY <1>1, <1>3, <1>4, SMT DEF IInv, TypeOK, QueueMatchesRows, Queued
  <1>9. OrdinalsUnique'
    BY <1>1, <1>4, SMT DEF IInv, TypeOK, OrdinalsUnique, QueueOf, Queued
  <1> QED BY <1>5, <1>6, <1>7, <1>8, <1>9 DEF IInv

\* settleQueuedTx, on any set of rows in one transaction.
LEMMA SettleStep ==
  ASSUME IInv, NEW S \in SUBSET Inputs, SettleQueued(S),
         UNCHANGED <<nextSeq, budget, open, now>>
  PROVE  IInv'
  <1> DEFINE D == {j \in S : rows[j].rt = "queued"}
  <1>1. /\ rows' = [j \in Inputs |-> IF j \in D THEN Dropped(rows[j]) ELSE rows[j]]
        /\ queue' = [j \in Inputs |-> IF j \in D THEN NoEntry ELSE queue[j]]
    BY DEF SettleQueued
  <1>2. \A j \in D : /\ Dropped(rows[j]) \in Row /\ Dropped(rows[j]).rt = "failed"
                     /\ Dropped(rows[j]).fence = "none" /\ Dropped(rows[j]).fver = 0
                     /\ rows[j].rt = "queued"
    BY RowFacts, DroppedRow DEF FenceOK
  <1>3. NoEntry \in QueueEntry /\ NoEntry.seq = 0
    BY DEF NoEntry, QueueEntry
  <1>4. D \subseteq Inputs
    OBVIOUS
  <1> HIDE DEF D
  <1>5. \A j \in Inputs : /\ rows'[j] \in Row
                          /\ queue'[j] \in QueueEntry
                          /\ Holds(rows'[j]) => Holds(rows[j])
                          /\ FenceOK(rows'[j])
                          /\ \/ rows'[j] = rows[j] /\ queue'[j] = queue[j]
                             \/ rows'[j].rt = "failed" /\ queue'[j].seq = 0
    <2> TAKE j \in Inputs
    <2>1. CASE j \in D
      BY <1>1, <1>2, <1>3, <2>1, SMT DEF Holds, FenceOK
    <2>2. CASE j \notin D
      <3>1. rows'[j] = rows[j] /\ queue'[j] = queue[j]
        BY <1>1, <2>2
      <3>2. queue[j] \in QueueEntry
        BY DEF IInv, TypeOK
      <3>3. rows[j] \in Row /\ FenceOK(rows[j])
        BY RowFacts
      <3> QED BY <3>1, <3>2, <3>3, Zenon
    <2> QED BY <2>1, <2>2
  <1>6. TypeOK'
    BY <1>1, <1>5 DEF IInv, TypeOK
  <1>7. SingleSlot'
    BY <1>5 DEF IInv, SingleSlot, HoldsSlot, Active, Holds
  <1>8. FencedOnceAndUnknown'
    BY <1>5 DEF FencedOnceAndUnknown, FenceOK
  <1>9. QueueMatchesRows'
    BY <1>5 DEF IInv, QueueMatchesRows, Queued
  <1>10. OrdinalsUnique'
    BY <1>5 DEF IInv, OrdinalsUnique, QueueOf, Queued
  <1> QED BY <1>6, <1>7, <1>8, <1>9, <1>10 DEF IInv

\* A step that leaves the two tables and the counters alone.
LEMMA IdleStep ==
  ASSUME IInv, UNCHANGED <<rows, queue, nextSeq, budget>>,
         open' \subseteq Sessions, now' \in Nat
  PROVE  IInv'
  <1> USE DEF IInv
  <1>1. TypeOK'
    BY DEF TypeOK
  <1>2. SingleSlot'
    BY DEF SingleSlot, HoldsSlot, Active
  <1>3. FencedOnceAndUnknown'
    BY DEF FencedOnceAndUnknown
  <1>4. QueueMatchesRows'
    BY DEF QueueMatchesRows, Queued
  <1>5. OrdinalsUnique'
    BY DEF OrdinalsUnique, QueueOf, Queued
  <1> QED BY <1>1, <1>2, <1>3, <1>4, <1>5

\* The empty ledger satisfies the invariant.
LEMMA InitStep ==
  ASSUME Init
  PROVE  IInv
  <1>1. NoRow \in Row /\ NoRow.rt = "none" /\ NoRow.fence = "none" /\ NoRow.fver = 0
    BY DEF NoRow, Row, Delivery, Runtime
  <1>2. NoEntry \in QueueEntry /\ NoEntry.seq = 0
    BY DEF NoEntry, QueueEntry
  <1>3. TypeOK
    BY <1>1, <1>2 DEF Init, TypeOK
  <1>4. SingleSlot
    BY <1>1 DEF Init, SingleSlot, HoldsSlot, Active
  <1>5. FencedOnceAndUnknown
    BY <1>1 DEF Init, FencedOnceAndUnknown
  <1>6. QueueMatchesRows
    BY <1>1, <1>2 DEF Init, QueueMatchesRows, Queued
  <1>7. OrdinalsUnique
    BY <1>2 DEF Init, OrdinalsUnique, Queued
  <1> QED BY <1>3, <1>4, <1>5, <1>6, <1>7 DEF IInv

\* Every step of the ledger keeps the invariant.
LEMMA NextStep ==
  ASSUME IInv, [Next]_vars
  PROVE  IInv'
  <1>1. ASSUME NEW g \in Gateways, NEW i \in Inputs, NEW r \in Runs, Accept(g, i, r)
        PROVE  IInv'
    BY <1>1, AcceptStep
  <1>2. ASSUME NEW g \in Gateways, NEW i \in Inputs, NEW rev \in Revisions \cup {0},
               AcceptQueued(g, i, rev)
        PROVE  IInv'
    BY <1>2, AcceptQueuedStep
  <1>3. ASSUME NEW g \in Gateways, NEW i \in Inputs, NEW st \in Outcome, SetDelivery(g, i, st)
        PROVE  IInv'
    BY <1>3, SetDeliveryStep
  <1>4. ASSUME NEW g \in Gateways, NEW i \in Inputs, NEW r \in Runs, MarkRunning(g, i, r)
        PROVE  IInv'
    BY <1>4, MarkRunningStep
  <1>5. ASSUME NEW g \in Gateways, NEW i \in Inputs, NEW r \in Runs,
               NEW rev \in Revisions \cup {0}, ClaimQueued(g, i, r, rev)
        PROVE  IInv'
    BY <1>5, ClaimQueuedStep
  <1>6. ASSUME NEW i \in Inputs, NEW r \in Runs, NEW st \in {"completed", "failed", "unknown"},
               FinishRuntime(i, r, st)
        PROVE  IInv'
    BY <1>6, FinishRuntimeStep
  <1>7. ASSUME NEW i \in Inputs, NEW r \in Runs, ConvergeDeliveryFailed(i, r)
        PROVE  IInv'
    BY <1>7, ConvergeStep
  <1>8. ASSUME NEW i \in Inputs, NEW reason \in FenceReason, NEW r \in Runs,
               ClearFenceAfterFreshStart(i, reason, r)
        PROVE  IInv'
    BY <1>8, FreshStartStep
  <1>9. ASSUME NEW i \in Inputs, NEW v \in 0..2, ResolveFence(i, v)
        PROVE  IInv'
    BY <1>9, ResolveStep
  <1>10. ASSUME NEW i \in Inputs, NEW v \in 0..2, AbandonFence(i, v)
         PROVE  IInv'
    BY <1>10, AbandonStep
  <1>11. ASSUME NEW i \in Inputs, CancelQueued(i)
         PROVE  IInv'
    BY <1>11, SettleStep DEF CancelQueued
  <1>12. ASSUME NEW g \in Gateways, NEW excluded \in SUBSET Inputs, RenewLeases(g, excluded)
         PROVE  IInv'
    BY <1>12, RenewStep
  <1>13. ASSUME NEW g \in Gateways, TerminateOwnerLeases(g)
         PROVE  IInv'
    BY <1>13, TerminateStep
  <1>14. ASSUME NEW g \in Gateways, ExpireQueued(g)
         PROVE  IInv'
    <2>1. PICK S \in SUBSET Inputs : SettleQueued(S)
      BY <1>14 DEF ExpireQueued
    <2>2. UNCHANGED <<nextSeq, budget, open, now>>
      BY <1>14 DEF ExpireQueued
    <2> QED BY <2>1, <2>2, SettleStep
  <1>15. ASSUME RecoverExpiredLeases
         PROVE  IInv'
    BY <1>15, RecoverStep
  <1>16. ASSUME NEW s \in Sessions, ClearQueue(s)
         PROVE  IInv'
    <2>1. QueueOf(s) \in SUBSET Inputs
      BY DEF QueueOf
    <2> QED BY <1>16, <2>1, SettleStep DEF ClearQueue
  <1>17. ASSUME NEW s \in Sessions, RetireSession(s)
         PROVE  IInv'
    BY <1>17, IdleStep DEF RetireSession, IInv, TypeOK
  <1>18. ASSUME NEW S \in SUBSET Compactable, CompactSettledFacts(S)
         PROVE  IInv'
    BY <1>18, CompactStep
  <1>19. ASSUME Tick
         PROVE  IInv'
    BY <1>19, IdleStep DEF Tick, IInv, TypeOK
  <1>20. CASE UNCHANGED vars
    BY <1>20, IdleStep DEF vars, IInv, TypeOK
  <1> QED
    BY <1>1, <1>2, <1>3, <1>4, <1>5, <1>6, <1>7, <1>8, <1>9, <1>10, <1>11, <1>12,
       <1>13, <1>14, <1>15, <1>16, <1>17, <1>18, <1>19, <1>20 DEF Next

\* The columns keep their types under every operation of the store.
THEOREM TypeCorrect == Spec => []TypeOK
  <1>1. IInv => TypeOK
    BY DEF IInv
  <1> QED BY <1>1, InitStep, NextStep, PTL DEF Spec

\* ErrSessionBusy and the single-active index: whatever the gateways, the
\* dispatcher, lease recovery, shutdown and the operator do, and however far
\* their clocks drift apart, one session never has two inputs that are
\* pending, running or fenced.
THEOREM OneSlotPerSession == Spec => []SingleSlot
  <1>1. IInv => SingleSlot
    BY DEF IInv
  <1> QED BY <1>1, InitStep, NextStep, PTL DEF Spec

\* ApplyFenceDecision's premise: a fenced row is runtime-unknown, and no row is
\* fenced twice, so the version an operator names identifies the fence it saw.
THEOREM FencesAreUnknown == Spec => []FencedOnceAndUnknown
  <1>1. IInv => FencedOnceAndUnknown
    BY DEF IInv
  <1> QED BY <1>1, InitStep, NextStep, PTL DEF Spec

\* AcceptQueued, ClaimQueued and settleQueuedTx keep execution_inputs and
\* execution_queue in step.
THEOREM QueueAndRowsAgree == Spec => []QueueMatchesRows
  <1>1. IInv => QueueMatchesRows
    BY DEF IInv
  <1> QED BY <1>1, InitStep, NextStep, PTL DEF Spec

\* The ordinal allocator never hands out an ordinal twice.
THEOREM OrdinalsNeverCollide == Spec => []OrdinalsUnique
  <1>1. IInv => OrdinalsUnique
    BY DEF IInv
  <1> QED BY <1>1, InitStep, NextStep, PTL DEF Spec

-----------------------------------------------------------------------------
(* What the store may be asked to do. *)

\* The calls of Next, and those the gateway makes of a session without a worker:
\* the code then records a placeholder run id, which names no run.
StoreCall ==
  \/ Next
  \/ \E g \in Gateways, i \in Inputs : Accept(g, i, NoRun) \/ ClaimQueued(g, i, NoRun, 0)
  \/ \E g \in Gateways, i \in Inputs, st \in Outcome : SetDelivery(g, i, st)
  \/ \E i \in Inputs : FinishRuntime(i, NoRun, "failed")

-----------------------------------------------------------------------------
(* Runtime facts only move forward. *)

\* One call of the store, as it shows in one row.
LEMMA RowMoves ==
  ASSUME IInv, [StoreCall]_vars, NEW j \in Inputs
  PROVE  \/ rows'[j].rt = rows[j].rt
         \/ rows[j].rt = "none" /\ rows'[j].rt \in {"queued", "pending"}
         \/ rows[j].rt = "queued" /\ rows'[j].rt \in {"pending", "failed"}
         \/ rows[j].rt = "pending" /\ rows'[j].rt \in {"running", "completed", "failed", "unknown"}
         \/ rows[j].rt = "running" /\ rows'[j].rt \in {"completed", "failed", "unknown"}
         \/ rows[j].rt = "unknown" /\ rows'[j].rt \in {"completed", "failed"}
  <1> DEFINE Goal ==
        \/ rows'[j].rt = rows[j].rt
        \/ rows[j].rt = "none" /\ rows'[j].rt \in {"queued", "pending"}
        \/ rows[j].rt = "queued" /\ rows'[j].rt \in {"pending", "failed"}
        \/ rows[j].rt = "pending" /\ rows'[j].rt \in {"running", "completed", "failed", "unknown"}
        \/ rows[j].rt = "running" /\ rows'[j].rt \in {"completed", "failed", "unknown"}
        \/ rows[j].rt = "unknown" /\ rows'[j].rt \in {"completed", "failed"}
  <1> USE RowFacts
  <1>0. rows \in [Inputs -> Row]
    BY DEF IInv, TypeOK
  <1>1. ASSUME NEW g \in Gateways, NEW i \in Inputs, NEW r \in Runs \cup {NoRun}, Accept(g, i, r)
        PROVE  Goal
    BY <1>0, <1>1 DEF Accept
  <1>2. ASSUME NEW g \in Gateways, NEW i \in Inputs, NEW rev \in Revisions \cup {0},
               AcceptQueued(g, i, rev)
        PROVE  Goal
    BY <1>0, <1>2 DEF AcceptQueued
  <1>3. ASSUME NEW g \in Gateways, NEW i \in Inputs, NEW st \in Outcome, SetDelivery(g, i, st)
        PROVE  Goal
    BY <1>0, <1>3 DEF SetDelivery, Row
  <1>4. ASSUME NEW g \in Gateways, NEW i \in Inputs, NEW r \in Runs, MarkRunning(g, i, r)
        PROVE  Goal
    BY <1>0, <1>4, RunningRow DEF MarkRunning
  <1>5. ASSUME NEW g \in Gateways, NEW i \in Inputs, NEW r \in Runs \cup {NoRun},
               NEW rev \in Revisions \cup {0}, ClaimQueued(g, i, r, rev)
        PROVE  Goal
    <2>1. LocalNow(g) + LeaseTTL \in Int
      BY LedgerAssumption DEF LedgerAssumption, IInv, TypeOK, LocalNow
    <2>2. Claimed(rows[i], g, r, LocalNow(g) + LeaseTTL).rt = "pending"
      BY <2>1, ClaimedRow
    <2>3. /\ rows[i].rt = "queued"
          /\ rows' = [rows EXCEPT ![i] = Claimed(rows[i], g, r, LocalNow(g) + LeaseTTL)]
      BY <1>5 DEF ClaimQueued
    <2>4. rows'[i].rt = "pending" /\ (j # i => rows'[j] = rows[j])
      BY <1>0, <2>2, <2>3
    <2> QED BY <2>3, <2>4
  <1>6. ASSUME NEW i \in Inputs, NEW r \in Runs \cup {NoRun},
               NEW st \in {"completed", "failed", "unknown"}, FinishRuntime(i, r, st)
        PROVE  Goal
    BY <1>0, <1>6, FinishedRow DEF FinishRuntime, FinishableTo
  <1>7. ASSUME NEW i \in Inputs, NEW r \in Runs, ConvergeDeliveryFailed(i, r)
        PROVE  Goal
    BY <1>0, <1>7 DEF ConvergeDeliveryFailed, Row
  <1>8. ASSUME NEW i \in Inputs, NEW reason \in FenceReason, NEW r \in Runs,
               ClearFenceAfterFreshStart(i, reason, r)
        PROVE  Goal
    BY <1>0, <1>8, FreshlyStartedRow DEF ClearFenceAfterFreshStart
  <1>9. ASSUME NEW i \in Inputs, NEW v \in 0..2, ResolveFence(i, v)
        PROVE  Goal
    BY <1>0, <1>9 DEF ResolveFence, Row
  <1>10. ASSUME NEW i \in Inputs, NEW v \in 0..2, AbandonFence(i, v)
         PROVE  Goal
    BY <1>0, <1>10, AbandonedRow DEF AbandonFence
  <1>11. ASSUME NEW S \in SUBSET Inputs, SettleQueued(S)
         PROVE  Goal
    BY <1>0, <1>11, DroppedRow DEF SettleQueued
  <1>12. ASSUME NEW g \in Gateways, NEW excluded \in SUBSET Inputs, RenewLeases(g, excluded)
         PROVE  Goal
    BY <1>0, <1>12 DEF RenewLeases, Row
  <1>13. ASSUME NEW g \in Gateways, TerminateOwnerLeases(g)
         PROVE  Goal
    BY <1>0, <1>13, FencedRow DEF TerminateOwnerLeases, OwnedActive, Active, FenceReason
  <1>14. ASSUME RecoverExpiredLeases
         PROVE  Goal
    BY <1>0, <1>14, FencedRow DEF RecoverExpiredLeases, Expired, Active, FenceReason
  <1>15. ASSUME NEW S \in SUBSET Compactable, CompactSettledFacts(S)
         PROVE  Goal
    BY <1>0, <1>15, CompactedRow DEF CompactSettledFacts
  <1>16. ASSUME UNCHANGED rows
         PROVE  Goal
    BY <1>16
  <1>17. ASSUME NEW g \in Gateways, ExpireQueued(g)
         PROVE  \E S \in SUBSET Inputs : SettleQueued(S)
    BY <1>17 DEF ExpireQueued
  <1>18. ASSUME NEW s \in Sessions, ClearQueue(s)
         PROVE  \E S \in SUBSET Inputs : SettleQueued(S)
    BY <1>18 DEF ClearQueue, QueueOf
  <1> HIDE DEF Goal
  <1>19. Goal
    BY <1>1, <1>2, <1>3, <1>4, <1>5, <1>6, <1>7, <1>8, <1>9, <1>10, <1>11, <1>12, <1>13,
       <1>14, <1>15, <1>16, <1>17, <1>18
    DEF StoreCall, Next, vars, CancelQueued, RetireSession, Tick
  <1> QED BY <1>19 DEF Goal

\* "terminals never regress": no operation of the store moves an input back to
\* the dispatch boundary, and none replaces an outcome.
THEOREM RuntimeForward == Spec => RuntimeNeverGoesBack
  <1>1. ASSUME IInv, [Next]_vars
        PROVE  [\A i \in Inputs :
                  rows'[i].rt # rows[i].rt => Rank(rows'[i].rt) > Rank(rows[i].rt)]_vars
    BY <1>1, RowMoves DEF Rank, StoreCall
  <1> QED BY <1>1, InitStep, NextStep, PTL DEF Spec, RuntimeNeverGoesBack

-----------------------------------------------------------------------------
(* Delivery outcomes stand. *)

\* An input that has not crossed the dispatch boundary has no delivery outcome.
\* This is what lets settleQueuedTx write a failed delivery without looking at
\* the delivery that is there.
Unsent == \A i \in Inputs : rows[i].rt \in {"none", "queued"} => rows[i].status \in {"none", "accepted"}

\* One step of the store, as it shows in the delivery fact of one row.
LEMMA StatusMoves ==
  ASSUME IInv, Unsent, [Next]_vars, NEW j \in Inputs
  PROVE  /\ rows'[j].rt \in {"none", "queued"} => rows'[j].status \in {"none", "accepted"}
         /\ rows'[j].status # rows[j].status =>
              \/ rows[j].status \in {"none", "accepted"}
              \/ rows[j].status = "failed" /\ rows'[j].status = "unknown"
                 /\ rows[j].rt = "completed"
  <1> DEFINE Goal ==
        /\ rows'[j].rt \in {"none", "queued"} => rows'[j].status \in {"none", "accepted"}
        /\ rows'[j].status # rows[j].status =>
             \/ rows[j].status \in {"none", "accepted"}
             \/ rows[j].status = "failed" /\ rows'[j].status = "unknown"
                /\ rows[j].rt = "completed"
  <1> USE RowFacts
  <1>0. rows \in [Inputs -> Row]
    BY DEF IInv, TypeOK
  <1>u. \A i \in Inputs : rows[i].rt \in {"none", "queued"} => rows[i].status \in {"none", "accepted"}
    BY DEF Unsent
  <1>1. ASSUME NEW g \in Gateways, NEW i \in Inputs, NEW r \in Runs, Accept(g, i, r)
        PROVE  Goal
    BY <1>0, <1>u, <1>1 DEF Accept
  <1>2. ASSUME NEW g \in Gateways, NEW i \in Inputs, NEW rev \in Revisions \cup {0},
               AcceptQueued(g, i, rev)
        PROVE  Goal
    BY <1>0, <1>u, <1>2 DEF AcceptQueued
  <1>3. ASSUME NEW g \in Gateways, NEW i \in Inputs, NEW st \in Outcome,
               CrossedDispatch(i), SetDelivery(g, i, st)
        PROVE  Goal
    BY <1>0, <1>u, <1>3 DEF SetDelivery, Row, CrossedDispatch
  <1>4. ASSUME NEW g \in Gateways, NEW i \in Inputs, NEW r \in Runs, MarkRunning(g, i, r)
        PROVE  Goal
    BY <1>0, <1>u, <1>4, RunningRow DEF MarkRunning
  <1>5. ASSUME NEW g \in Gateways, NEW i \in Inputs, NEW r \in Runs,
               NEW rev \in Revisions \cup {0}, ClaimQueued(g, i, r, rev)
        PROVE  Goal
    <2>1. LocalNow(g) + LeaseTTL \in Int
      BY LedgerAssumption DEF LedgerAssumption, IInv, TypeOK, LocalNow
    <2> QED BY <1>0, <1>u, <1>5, <2>1, ClaimedRow DEF ClaimQueued
  <1>6. ASSUME NEW i \in Inputs, NEW r \in Runs, NEW st \in {"completed", "failed", "unknown"},
               FinishRuntime(i, r, st)
        PROVE  Goal
    BY <1>0, <1>u, <1>6, FinishedRow DEF FinishRuntime
  <1>7. ASSUME NEW i \in Inputs, NEW r \in Runs, ConvergeDeliveryFailed(i, r)
        PROVE  Goal
    BY <1>0, <1>u, <1>7 DEF ConvergeDeliveryFailed, Row
  <1>8. ASSUME NEW i \in Inputs, NEW reason \in FenceReason, NEW r \in Runs,
               ClearFenceAfterFreshStart(i, reason, r)
        PROVE  Goal
    BY <1>0, <1>u, <1>8, FreshlyStartedRow DEF ClearFenceAfterFreshStart
  <1>9. ASSUME NEW i \in Inputs, NEW v \in 0..2, ResolveFence(i, v)
        PROVE  Goal
    BY <1>0, <1>u, <1>9 DEF ResolveFence, Row
  <1>10. ASSUME NEW i \in Inputs, NEW v \in 0..2, AbandonFence(i, v)
         PROVE  Goal
    BY <1>0, <1>u, <1>10, AbandonedRow DEF AbandonFence
  <1>11. ASSUME NEW S \in SUBSET Inputs, SettleQueued(S)
         PROVE  Goal
    BY <1>0, <1>u, <1>11, DroppedRow DEF SettleQueued
  <1>12. ASSUME NEW g \in Gateways, NEW excluded \in SUBSET Inputs, RenewLeases(g, excluded)
         PROVE  Goal
    BY <1>0, <1>u, <1>12 DEF RenewLeases, Row
  <1>13. ASSUME NEW g \in Gateways, TerminateOwnerLeases(g)
         PROVE  Goal
    BY <1>0, <1>u, <1>13, FencedRow DEF TerminateOwnerLeases, FenceReason
  <1>14. ASSUME RecoverExpiredLeases
         PROVE  Goal
    BY <1>0, <1>u, <1>14, FencedRow DEF RecoverExpiredLeases, FenceReason
  <1>15. ASSUME NEW S \in SUBSET Compactable, CompactSettledFacts(S)
         PROVE  Goal
    BY <1>0, <1>u, <1>15, CompactedRow DEF CompactSettledFacts
  <1>16. ASSUME UNCHANGED rows
         PROVE  Goal
    BY <1>u, <1>16
  <1>17. ASSUME NEW g \in Gateways, ExpireQueued(g)
         PROVE  \E S \in SUBSET Inputs : SettleQueued(S)
    BY <1>17 DEF ExpireQueued
  <1>18. ASSUME NEW s \in Sessions, ClearQueue(s)
         PROVE  \E S \in SUBSET Inputs : SettleQueued(S)
    BY <1>18 DEF ClearQueue, QueueOf
  <1> HIDE DEF Goal
  <1>19. Goal
    BY <1>1, <1>2, <1>3, <1>4, <1>5, <1>6, <1>7, <1>8, <1>9, <1>10, <1>11, <1>12, <1>13,
       <1>14, <1>15, <1>16, <1>17, <1>18
    DEF Next, vars, CancelQueued, RetireSession, Tick
  <1> QED BY <1>19 DEF Goal

\* SetDelivery's guard on accepted rows, and every operation that writes the
\* delivery fact without that guard (lease recovery, shutdown, settleQueuedTx):
\* an outcome that was recorded stands, except that a failed delivery whose
\* runtime completed becomes unknown.
THEOREM OutcomesStand == Spec => DeliveryNeverRegresses
  <1>1. Init => Unsent
    BY DEF Init, Unsent, NoRow
  <1>2. ASSUME IInv, Unsent, [Next]_vars
        PROVE  /\ Unsent'
               /\ [\A i \in Inputs :
                     rows'[i].status # rows[i].status =>
                       \/ rows[i].status \in {"none", "accepted"}
                       \/ rows[i].status = "failed" /\ rows'[i].status = "unknown"
                          /\ rows[i].rt = "completed"]_vars
    <2>1. Unsent'
      BY <1>2, StatusMoves DEF Unsent
    <2> QED BY <1>2, <2>1, StatusMoves
  <1> QED BY <1>1, <1>2, InitStep, NextStep, PTL DEF Spec, DeliveryNeverRegresses

-----------------------------------------------------------------------------
(* Refinement of InputLifecycle. *)

phi == [i \in Inputs |-> PhaseOf(rows[i])]

\* The phase of a row, by its runtime fact and its fence.
LEMMA Phases ==
  ASSUME NEW q \in Row
  PROVE  /\ q.rt = "none" => PhaseOf(q) = "new"
         /\ q.rt = "queued" => PhaseOf(q) = "waiting"
         /\ q.rt \in {"pending", "running"} => PhaseOf(q) = "active"
         /\ q.rt = "unknown" /\ q.fence # "none" => PhaseOf(q) = "fenced"
         /\ q.rt = "unknown" /\ q.fence = "none" => PhaseOf(q) = "released"
         /\ q.rt \in {"completed", "failed"} => PhaseOf(q) = "settled"
  BY DEF PhaseOf

\* A session that is not busy is free in the abstract specification.
LEMMA NotBusyIsFree ==
  ASSUME IInv, NEW s, ~Busy(s)
  PROVE  Lifecycle!Free(s)
  <1>1. \A i \in Inputs : SessionOf[i] = s => ~HoldsSlot(i)
    BY DEF Busy
  <1>2. ASSUME NEW i \in Inputs, SessionOf[i] = s
        PROVE  PhaseOf(rows[i]) \notin {"active", "fenced"}
    <2>1. rows[i].rt \in Runtime /\ rows[i] \in Row
      BY RowFacts DEF Row
    <2>2. rows[i].rt \notin {"pending", "running"} /\ rows[i].fence = "none"
      BY <1>1, <1>2 DEF HoldsSlot, Active
    <2> QED BY <2>1, <2>2, Phases DEF Runtime
  <1> QED BY <1>2 DEF Lifecycle!Free, Lifecycle!Blocking

\* One row moves from phase to phase and every other row keeps its own.
LEMMA OneMoves ==
  ASSUME IInv, NEW i \in Inputs, NEW q \in Row, rows' = [rows EXCEPT ![i] = q]
  PROVE  phi' = [phi EXCEPT ![i] = PhaseOf(q)]
  <1>1. rows \in [Inputs -> Row]
    BY DEF IInv, TypeOK
  <1>2. rows' \in [Inputs -> Row] /\ rows'[i] = q /\ \A j \in Inputs : j # i => rows'[j] = rows[j]
    BY <1>1
  <1> QED BY <1>2, Zenon DEF phi

\* A set of rows moves at once.
LEMMA SomeMove ==
  ASSUME NEW S \in SUBSET Inputs, NEW to,
         \A j \in S : PhaseOf(rows'[j]) = to,
         \A j \in Inputs \ S : PhaseOf(rows'[j]) = PhaseOf(rows[j])
  PROVE  phi' = [j \in Inputs |-> IF j \in S THEN to ELSE phi[j]]
  BY Zenon DEF phi

\* No row changes its phase.
LEMMA NoneMoves ==
  ASSUME \A j \in Inputs : PhaseOf(rows'[j]) = PhaseOf(rows[j])
  PROVE  phi' = phi
  BY Zenon DEF phi

\* The abstract actions, said of phi.
LEMMA AbstractActions ==
  /\ \A i \in Inputs :
       /\ phi[i] = "new" /\ phi' = [phi EXCEPT ![i] = "waiting"] => Lifecycle!Next
       /\ phi[i] \in {"new", "waiting"} /\ Lifecycle!Free(SessionOf[i])
            /\ phi' = [phi EXCEPT ![i] = "active"] => Lifecycle!Next
       /\ phi[i] = "fenced" /\ phi' = [phi EXCEPT ![i] = "released"] => Lifecycle!Next
       /\ phi[i] \in {"active", "fenced", "released"}
            /\ phi' = [phi EXCEPT ![i] = "settled"] => Lifecycle!Next
  /\ \A S \in SUBSET Inputs :
       /\ (\A i \in S : phi[i] = "active")
            /\ phi' = [i \in Inputs |-> IF i \in S THEN "fenced" ELSE phi[i]] => Lifecycle!Next
       /\ (\A i \in S : phi[i] = "waiting")
            /\ phi' = [i \in Inputs |-> IF i \in S THEN "settled" ELSE phi[i]] => Lifecycle!Next
  BY Zenon DEF phi, Lifecycle!Next, Lifecycle!Wait, Lifecycle!Start, Lifecycle!Release,
     Lifecycle!Settle, Lifecycle!Fence, Lifecycle!Drop

\* Every call of the store is a step of InputLifecycle or changes no phase.
LEMMA StepRefines ==
  ASSUME IInv, [StoreCall]_vars
  PROVE  Lifecycle!Next \/ phi' = phi
  <1> DEFINE Goal == Lifecycle!Next \/ phi' = phi
  <1> USE RowFacts
  <1>0. rows \in [Inputs -> Row] /\ \A j \in Inputs : phi[j] = PhaseOf(rows[j])
    BY DEF IInv, TypeOK, phi
  <1>1. ASSUME NEW g \in Gateways, NEW i \in Inputs, NEW r \in Runs \cup {NoRun}, Accept(g, i, r)
        PROVE  Goal
    <2> DEFINE q == [status |-> "accepted", rt |-> "pending", owner |-> g,
                     run |-> r, lease |-> now + LeaseTTL, fence |-> "none", fver |-> 0,
                     created |-> LocalNow(g)]
    <2>1. now + LeaseTTL \in Int /\ LocalNow(g) \in Int
      BY LedgerAssumption DEF LedgerAssumption, IInv, TypeOK, LocalNow
    <2>2. q \in Row /\ q.rt = "pending"
      BY <2>1 DEF Row, Delivery, Runtime
    <2>3. rows' = [rows EXCEPT ![i] = q] /\ rows[i].rt = "none" /\ ~Busy(SessionOf[i])
      BY <1>1 DEF Accept
    <2> HIDE DEF q
    <2>4. phi[i] = "new" /\ phi' = [phi EXCEPT ![i] = "active"]
      BY <1>0, <2>2, <2>3, OneMoves, Phases
    <2> QED BY <2>3, <2>4, NotBusyIsFree, AbstractActions
  <1>2. ASSUME NEW g \in Gateways, NEW i \in Inputs, NEW rev \in Revisions \cup {0},
               AcceptQueued(g, i, rev)
        PROVE  Goal
    <2> DEFINE q == [status |-> "accepted", rt |-> "queued", owner |-> g,
                     run |-> NoRun, lease |-> 0, fence |-> "none", fver |-> 0,
                     created |-> LocalNow(g)]
    <2>1. LocalNow(g) \in Int
      BY LedgerAssumption DEF LedgerAssumption, IInv, TypeOK, LocalNow
    <2>2. q \in Row /\ q.rt = "queued"
      BY <2>1 DEF Row, Delivery, Runtime
    <2>3. rows' = [rows EXCEPT ![i] = q] /\ rows[i].rt = "none"
      BY <1>2 DEF AcceptQueued
    <2> HIDE DEF q
    <2>4. phi[i] = "new" /\ phi' = [phi EXCEPT ![i] = "waiting"]
      BY <1>0, <2>2, <2>3, OneMoves, Phases
    <2> QED BY <2>4, AbstractActions
  <1>3. ASSUME NEW g \in Gateways, NEW i \in Inputs, NEW r \in Runs \cup {NoRun},
               NEW rev \in Revisions \cup {0}, ClaimQueued(g, i, r, rev)
        PROVE  Goal
    <2> DEFINE q == Claimed(rows[i], g, r, LocalNow(g) + LeaseTTL)
    <2>1. LocalNow(g) + LeaseTTL \in Int
      BY LedgerAssumption DEF LedgerAssumption, IInv, TypeOK, LocalNow
    <2>2. q \in Row /\ q.rt = "pending"
      BY <2>1, ClaimedRow
    <2>3. rows' = [rows EXCEPT ![i] = q] /\ rows[i].rt = "queued" /\ ~Busy(SessionOf[i])
      BY <1>3 DEF ClaimQueued
    <2> HIDE DEF q
    <2>4. phi[i] = "waiting" /\ phi' = [phi EXCEPT ![i] = "active"]
      BY <1>0, <2>2, <2>3, OneMoves, Phases
    <2> QED BY <2>3, <2>4, NotBusyIsFree, AbstractActions
  <1>4. ASSUME NEW i \in Inputs, NEW r \in Runs \cup {NoRun},
               NEW st \in {"completed", "failed", "unknown"}, FinishRuntime(i, r, st)
        PROVE  Goal
    <2> DEFINE q == Finished(rows[i], st)
    <2>1. rows' = [rows EXCEPT ![i] = q] /\ rows[i].rt \in FinishableTo(st)
      BY <1>4 DEF FinishRuntime
    <2>2. /\ q \in Row /\ q.rt = st
          /\ st = "unknown" => q.fence # "none"
          /\ st # "unknown" => q.fence = "none"
      BY FinishedRow
    <2> HIDE DEF q
    <2>3. CASE st = "unknown"
      <3>1. phi[i] = "active"
        BY <1>0, <2>1, <2>3, Phases DEF FinishableTo
      <3>2. PhaseOf(q) = "fenced"
        BY <2>2, <2>3, Phases
      <3>3. phi' = [phi EXCEPT ![i] = "fenced"]
        BY <2>1, <2>2, <3>2, OneMoves
      <3>4. phi' = [j \in Inputs |-> IF j \in {i} THEN "fenced" ELSE phi[j]]
        BY <3>3 DEF phi
      <3> QED BY <3>1, <3>4, AbstractActions
    <2>4. CASE st # "unknown"
      <3>1. phi' = [phi EXCEPT ![i] = "settled"]
        BY <1>0, <2>1, <2>4, <2>2, OneMoves, Phases
      <3>2. phi[i] \in {"active", "fenced", "released"}
        BY <1>0, <2>1, <2>4, Phases DEF FinishableTo
      <3> QED BY <3>1, <3>2, AbstractActions
    <2> QED BY <2>3, <2>4
  <1>5. ASSUME NEW i \in Inputs, NEW reason \in FenceReason, NEW r \in Runs,
               ClearFenceAfterFreshStart(i, reason, r)
        PROVE  Goal
    <2> DEFINE q == FreshlyStarted(rows[i], r)
    <2>1. /\ rows' = [rows EXCEPT ![i] = q]
          /\ rows[i].fence # "none" /\ rows[i].rt = "unknown"
      BY <1>5 DEF ClearFenceAfterFreshStart, FenceReason, FenceOK
    <2>2. q \in Row /\ q.fence = "none" /\ q.rt = "unknown"
      BY <2>1, FreshlyStartedRow
    <2> HIDE DEF q
    <2>3. phi[i] = "fenced" /\ phi' = [phi EXCEPT ![i] = "released"]
      BY <1>0, <2>1, <2>2, OneMoves, Phases
    <2> QED BY <2>3, AbstractActions
  <1>6. ASSUME NEW i \in Inputs, NEW v \in 0..2, ResolveFence(i, v)
        PROVE  Goal
    <2> DEFINE q == [rows[i] EXCEPT !.fence = "none"]
    <2>1. /\ rows' = [rows EXCEPT ![i] = q]
          /\ rows[i].fence # "none" /\ rows[i].rt = "unknown"
      BY <1>6 DEF ResolveFence, FenceOK
    <2>2. q \in Row /\ q.rt = rows[i].rt /\ q.fence = "none"
      BY Zenon DEF Row
    <2> HIDE DEF q
    <2>3. phi[i] = "fenced" /\ phi' = [phi EXCEPT ![i] = "released"]
      BY <1>0, <2>1, <2>2, OneMoves, Phases
    <2> QED BY <2>3, AbstractActions
  <1>7. ASSUME NEW i \in Inputs, NEW v \in 0..2, AbandonFence(i, v)
        PROVE  Goal
    <2> DEFINE q == Abandoned(rows[i])
    <2>1. /\ rows' = [rows EXCEPT ![i] = q]
          /\ rows[i].fence # "none" /\ rows[i].rt = "unknown"
      BY <1>7 DEF AbandonFence
    <2>2. q \in Row /\ q.fence = "none" /\ q.rt = "failed"
      BY <2>1, AbandonedRow
    <2> HIDE DEF q
    <2>3. phi[i] = "fenced" /\ phi' = [phi EXCEPT ![i] = "settled"]
      BY <1>0, <2>1, <2>2, OneMoves, Phases
    <2> QED BY <2>3, AbstractActions
  <1>8. ASSUME NEW S \in SUBSET Inputs, SettleQueued(S)
        PROVE  Goal
    <2> DEFINE D == {j \in S : rows[j].rt = "queued"}
    <2>1. \A j \in D : rows'[j] = Dropped(rows[j]) /\ rows[j].rt = "queued"
      BY <1>8 DEF SettleQueued
    <2>2. D \in SUBSET Inputs /\ \A j \in Inputs \ D : rows'[j] = rows[j]
      BY <1>8 DEF SettleQueued
    <2> HIDE DEF D
    <2>3. \A j \in D : phi[j] = "waiting" /\ PhaseOf(rows'[j]) = "settled"
      BY <1>0, <2>1, <2>2, DroppedRow, Phases
    <2>4. phi' = [j \in Inputs |-> IF j \in D THEN "settled" ELSE phi[j]]
      BY <2>2, <2>3, SomeMove
    <2> QED BY <2>2, <2>3, <2>4, AbstractActions
  <1>9. ASSUME NEW S \in SUBSET Inputs, NEW reason \in FenceReason,
               \A j \in S : Active(j),
               rows' = [j \in Inputs |-> IF j \in S THEN Fenced(rows[j], reason) ELSE rows[j]]
        PROVE  Goal
    <2>1. \A j \in S : rows'[j] = Fenced(rows[j], reason)
      BY <1>9
    <2>2. \A j \in Inputs \ S : rows'[j] = rows[j]
      BY <1>9
    <2>3. \A j \in S : phi[j] = "active" /\ PhaseOf(rows'[j]) = "fenced"
      BY <1>0, <1>9, <2>1, FencedRow, Phases DEF Active, FenceReason
    <2>4. phi' = [j \in Inputs |-> IF j \in S THEN "fenced" ELSE phi[j]]
      BY <2>2, <2>3, SomeMove
    <2> QED BY <2>3, <2>4, AbstractActions
  <1>10. ASSUME \A j \in Inputs : rows'[j] \in Row /\ rows'[j].rt = rows[j].rt
                                  /\ rows'[j].fence = rows[j].fence
         PROVE  Goal
    <2>1. \A j \in Inputs : PhaseOf(rows'[j]) = PhaseOf(rows[j])
      BY <1>10 DEF PhaseOf
    <2> QED BY <2>1, NoneMoves
  <1> HIDE DEF Goal
  <1>11. ASSUME NEW g \in Gateways, TerminateOwnerLeases(g)
         PROVE  Goal
    <2>1. OwnedActive(g) \in SUBSET Inputs /\ (\A j \in OwnedActive(g) : Active(j))
          /\ "GATEWAY_SHUTDOWN" \in FenceReason
      BY DEF OwnedActive, FenceReason
    <2> QED BY <1>9, <1>11, <2>1 DEF TerminateOwnerLeases
  <1>12. ASSUME RecoverExpiredLeases
         PROVE  Goal
    <2>1. Expired \in SUBSET Inputs /\ (\A j \in Expired : Active(j))
          /\ "GATEWAY_LEASE_EXPIRED" \in FenceReason
      BY DEF Expired, FenceReason
    <2> QED BY <1>9, <1>12, <2>1 DEF RecoverExpiredLeases
  <1>13. ASSUME NEW g \in Gateways, NEW i \in Inputs, NEW st \in Outcome, SetDelivery(g, i, st)
         PROVE  Goal
    <2> DEFINE q == [rows[i] EXCEPT !.status = st]
    <2>1. q \in Row /\ q.rt = rows[i].rt /\ q.fence = rows[i].fence
      BY Zenon DEF Row, Outcome, Delivery
    <2>2. rows' = [rows EXCEPT ![i] = q]
      BY <1>13 DEF SetDelivery
    <2> HIDE DEF q
    <2> QED BY <1>0, <1>10, <2>1, <2>2
  <1>14. ASSUME NEW g \in Gateways, NEW i \in Inputs, NEW r \in Runs, MarkRunning(g, i, r)
         PROVE  Goal
    <2>1. rows' = [rows EXCEPT ![i] = Running(rows[i], r)] /\ rows[i].rt = "pending"
      BY <1>14 DEF MarkRunning
    <2>2. \A j \in Inputs : PhaseOf(rows'[j]) = PhaseOf(rows[j])
      BY <1>0, <2>1, RunningRow, Phases
    <2> QED BY <2>2, NoneMoves DEF Goal
  <1>15. ASSUME NEW i \in Inputs, NEW r \in Runs, ConvergeDeliveryFailed(i, r)
         PROVE  Goal
    <2> DEFINE q == [rows[i] EXCEPT !.status = "unknown"]
    <2>1. q \in Row /\ q.rt = rows[i].rt /\ q.fence = rows[i].fence
      BY Zenon DEF Row, Delivery
    <2>2. rows' = [rows EXCEPT ![i] = q]
      BY <1>15 DEF ConvergeDeliveryFailed
    <2> HIDE DEF q
    <2> QED BY <1>0, <1>10, <2>1, <2>2
  <1>16. ASSUME NEW g \in Gateways, NEW excluded \in SUBSET Inputs, RenewLeases(g, excluded)
         PROVE  Goal
    <2> DEFINE q(j) == [rows[j] EXCEPT !.lease = now + LeaseTTL]
    <2>1. now + LeaseTTL \in Int
      BY LedgerAssumption DEF LedgerAssumption, IInv, TypeOK
    <2>2. \A j \in Inputs : q(j) \in Row /\ q(j).rt = rows[j].rt /\ q(j).fence = rows[j].fence
      BY <2>1, Zenon DEF Row
    <2>3. \A j \in Inputs : rows'[j] = q(j) \/ rows'[j] = rows[j]
      BY <1>16 DEF RenewLeases
    <2> HIDE DEF q
    <2> QED BY <1>10, <2>2, <2>3
  <1>17. ASSUME NEW S \in SUBSET Compactable, CompactSettledFacts(S)
         PROVE  Goal
    <2>1. \A j \in Inputs : rows'[j] = Compacted(rows[j]) \/ rows'[j] = rows[j]
      BY <1>17 DEF CompactSettledFacts
    <2> QED BY <1>10, <2>1, CompactedRow
  <1>18. ASSUME UNCHANGED rows
         PROVE  Goal
    BY <1>10, <1>18
  <1>19. ASSUME NEW g \in Gateways, ExpireQueued(g)
         PROVE  \E S \in SUBSET Inputs : SettleQueued(S)
    BY <1>19 DEF ExpireQueued
  <1>20. ASSUME NEW s \in Sessions, ClearQueue(s)
         PROVE  \E S \in SUBSET Inputs : SettleQueued(S)
    BY <1>20 DEF ClearQueue, QueueOf
  <1>21. Goal
    BY <1>1, <1>2, <1>3, <1>4, <1>5, <1>6, <1>7, <1>8, <1>11, <1>12, <1>13, <1>14,
       <1>15, <1>16, <1>17, <1>18, <1>19, <1>20
    DEF StoreCall, Next, vars, CancelQueued, RetireSession, Tick
  <1> QED BY <1>21 DEF Goal

\* The ledger implements InputLifecycle: every input is dispatched at most
\* once, one input of a session at a time, and settled outcomes are final.
THEOREM LedgerRefinesLifecycle == Spec => ImplementsLifecycle
  <1>1. Init => Lifecycle!Init
    <2>1. NoRow \in Row /\ NoRow.rt = "none"
      BY DEF NoRow, Row, Delivery, Runtime
    <2> QED BY <2>1, Phases DEF Init, Lifecycle!Init
  <1>2. ASSUME IInv, [Next]_vars
        PROVE  [Lifecycle!Next]_([i \in Inputs |-> PhaseOf(rows[i])])
    BY <1>2, StepRefines DEF phi, StoreCall
  <1> QED BY <1>1, <1>2, InitStep, NextStep, PTL DEF Spec, ImplementsLifecycle, Lifecycle!Spec

-----------------------------------------------------------------------------
(* Refinement of WaitingLine. *)

places == [i \in Inputs |-> PlaceOf(rows[i])]
pairs == {p \in Inputs \X Inputs : Precedes(p[1], p[2])}

\* How a call of the store shows in the runtime fact of one row (RowMoves).
MovesAs(j) ==
  \/ rows'[j].rt = rows[j].rt
  \/ rows[j].rt = "none" /\ rows'[j].rt \in {"queued", "pending"}
  \/ rows[j].rt = "queued" /\ rows'[j].rt \in {"pending", "failed"}
  \/ rows[j].rt = "pending" /\ rows'[j].rt \in {"running", "completed", "failed", "unknown"}
  \/ rows[j].rt = "running" /\ rows'[j].rt \in {"completed", "failed", "unknown"}
  \/ rows[j].rt = "unknown" /\ rows'[j].rt \in {"completed", "failed"}

\* The place of a row, by its runtime fact.
LEMMA PlaceByRuntime ==
  ASSUME NEW q \in Row
  PROVE  /\ q.rt = "none" => PlaceOf(q) = "outside"
         /\ q.rt = "queued" => PlaceOf(q) = "waiting"
         /\ q.rt \in {"pending", "running"} => PlaceOf(q) = "taken"
         /\ q.rt \in {"unknown", "completed", "failed"} => PlaceOf(q) = "over"
         /\ PlaceOf(q) = "waiting" => q.rt = "queued"
         /\ PlaceOf(q) \in Line!Place
  BY DEF PlaceOf, Row, Runtime, Line!Place

\* Whoever waits in the line has a queue row, and only they have one.
LEMMA WaitingIsQueued ==
  ASSUME IInv, NEW j \in Inputs
  PROVE  /\ places[j] = PlaceOf(rows[j])
         /\ places[j] = "waiting" <=> Queued(j)
         /\ places[j] = "outside" <=> rows[j].rt = "none"
  <1>1. rows[j] \in Row /\ (Queued(j) <=> rows[j].rt = "queued")
    BY RowFacts DEF IInv, QueueMatchesRows
  <1> QED BY <1>1, PlaceByRuntime DEF places, Row, Runtime

\* A step that leaves the queue's table alone leaves the line alone.
LEMMA AwayFromLine ==
  ASSUME IInv, IInv', queue' = queue, \A j \in Inputs : MovesAs(j)
  PROVE  Line!Elsewhere
  <1>1. pairs' = pairs
    BY DEF pairs, Precedes, Queued
  <1>2. \A j \in Inputs : rows[j] \in Row /\ rows'[j] \in Row
    BY DEF IInv, TypeOK
  <1>3. \A j \in Inputs : rows[j].rt = "queued" <=> rows'[j].rt = "queued"
    BY DEF IInv, QueueMatchesRows, Queued
  <1>4. places' \in [Inputs -> Line!Place]
    BY <1>2, PlaceByRuntime DEF places
  <1>5. ASSUME NEW j \in Inputs, places'[j] # places[j]
        PROVE  <<places[j], places'[j]>> \in {<<"outside", "taken">>, <<"taken", "over">>}
    <2>1. places[j] = PlaceOf(rows[j]) /\ places'[j] = PlaceOf(rows'[j])
      BY DEF places
    <2>2. rows[j].rt # rows'[j].rt
      BY <1>2, <1>5, <2>1, PlaceByRuntime DEF Row, Runtime
    <2>3. CASE rows[j].rt = "none"
      BY <1>2, <1>3, <2>1, <2>2, <2>3, PlaceByRuntime DEF MovesAs
    <2>4. CASE rows[j].rt \in {"pending", "running"}
      BY <1>2, <1>5, <2>1, <2>2, <2>4, PlaceByRuntime DEF MovesAs
    <2>5. CASE rows[j].rt = "unknown"
      BY <1>2, <1>5, <2>1, <2>2, <2>5, PlaceByRuntime DEF MovesAs
    <2> QED BY <1>3, <2>2, <2>3, <2>4, <2>5 DEF MovesAs
  <1> QED BY <1>1, <1>4, <1>5 DEF Line!Elsewhere, places, pairs

\* AcceptQueued's ordinal is above those of every row that waits, so the input
\* joins behind them.
LEMMA QueueingJoins ==
  ASSUME IInv, IInv', NEW g \in Gateways, NEW i \in Inputs, NEW rev \in Revisions \cup {0},
         AcceptQueued(g, i, rev)
  PROVE  Line!Join(i)
  <1> DEFINE s == SessionOf[i]
  <1>1. /\ rows[i].rt = "none" /\ ~Queued(i)
        /\ \A j \in Inputs : j # i => rows'[j] = rows[j] /\ queue'[j] = queue[j]
        /\ rows'[i].rt = "queued"
    BY DEF AcceptQueued, IInv, TypeOK, QueueMatchesRows
  <1>2. queue'[i].seq = nextSeq[s] /\ Queued(i)'
    <2>1. queue' = [queue EXCEPT ![i] = [seq |-> nextSeq[s], expires |-> LocalNow(g) + QueueTTL,
                                         rev |-> rev]]
      BY DEF AcceptQueued, NextOrdinal
    <2>2. queue'[i].seq = nextSeq[s]
      BY <2>1 DEF IInv, TypeOK
    <2> QED BY <1>1, <2>2 DEF IInv, QueueMatchesRows
  <1>3. \A j \in Inputs : SessionOf[j] = s /\ Queued(j) => queue[j].seq < nextSeq[s]
    BY DEF IInv, OrdinalsUnique
  <1>4. ASSUME NEW j \in Inputs, NEW k \in Inputs
        PROVE  Precedes(j, k)' <=> Precedes(j, k) \/ (k = i /\ SessionOf[j] = s /\ Queued(j))
    <2>1. \A m \in Inputs : queue[m].seq \in Nat /\ nextSeq[s] \in Nat
      BY LedgerAssumption DEF LedgerAssumption, IInv, TypeOK, QueueEntry
    <2>2. CASE k = i
      BY <1>1, <1>2, <1>3, <2>1, <2>2 DEF Precedes, Queued
    <2>3. CASE k # i /\ j = i
      BY <1>1, <1>2, <1>3, <2>1, <2>3 DEF Precedes, Queued
    <2>4. CASE k # i /\ j # i
      BY <1>1, <2>4 DEF Precedes, Queued
    <2> QED BY <2>2, <2>3, <2>4
  <1>5. \A j \in Inputs : places[j] = "waiting" <=> Queued(j)
    BY WaitingIsQueued
  <1>6. pairs' = pairs \cup {<<j, i>> : j \in {j \in Inputs : SessionOf[j] = s /\ places[j] = "waiting"}}
    BY <1>4, <1>5 DEF pairs
  <1>7. places[i] = "outside" /\ places' = [places EXCEPT ![i] = "waiting"]
    <2>1. PlaceOf(rows'[i]) = "waiting" /\ places[i] = "outside"
      BY <1>1, PlaceByRuntime, WaitingIsQueued DEF IInv, TypeOK
    <2> QED BY <1>1, <2>1 DEF places
  <1> QED BY <1>6, <1>7 DEF Line!Join, Line!Waiting, places, pairs

\* Some rows leave the queue's table, and the others keep their ordinals.
LEMMA PairsShrink ==
  ASSUME NEW S \in SUBSET Inputs,
         \A j \in S : ~Queued(j)',
         \A j \in Inputs \ S : queue'[j] = queue[j]
  PROVE  pairs' = {p \in pairs : p[1] \notin S /\ p[2] \notin S}
  <1>1. ASSUME NEW j \in Inputs, NEW k \in Inputs
        PROVE  Precedes(j, k)' <=> Precedes(j, k) /\ j \notin S /\ k \notin S
    BY <1>1 DEF Precedes, Queued
  <1> QED BY <1>1 DEF pairs

\* ClaimQueued's head has nobody ahead of it.
LEMMA ClaimTakesFirst ==
  ASSUME IInv, IInv', NEW g \in Gateways, NEW i \in Inputs, NEW r \in Runs \cup {NoRun},
         NEW rev \in Revisions \cup {0}, ClaimQueued(g, i, r, rev)
  PROVE  Line!TakeFirst(i)
  <1>1. /\ rows[i].rt = "queued" /\ IsHead(i)
        /\ \A j \in Inputs : j # i => rows'[j] = rows[j] /\ queue'[j] = queue[j]
        /\ rows'[i].rt = "pending" /\ rows'[i] \in Row
    <2> DEFINE q == Claimed(rows[i], g, r, LocalNow(g) + LeaseTTL)
    <2>1. LocalNow(g) + LeaseTTL \in Int
      BY LedgerAssumption DEF LedgerAssumption, IInv, TypeOK, LocalNow
    <2>2. q.rt = "pending"
      BY <2>1, ClaimedRow, RowFacts
    <2>3. rows' = [rows EXCEPT ![i] = q]
      BY DEF ClaimQueued
    <2> HIDE DEF q
    <2>4. rows'[i].rt = "pending"
      BY <2>2, <2>3 DEF IInv, TypeOK
    <2> QED BY <2>4 DEF ClaimQueued, IInv, TypeOK
  <1>2. ~Queued(i)'
    BY <1>1 DEF IInv, QueueMatchesRows
  <1>3. pairs' = {p \in pairs : p[1] \notin {i} /\ p[2] \notin {i}}
    BY <1>1, <1>2, PairsShrink
  <1>4. ASSUME NEW j \in Inputs, <<j, i>> \in pairs
        PROVE  FALSE
    <2>1. Precedes(j, i) /\ queue[i].seq \in Nat /\ queue[j].seq \in Nat
      BY <1>4 DEF pairs, IInv, TypeOK, QueueEntry
    <2> QED BY <1>1, <2>1 DEF IsHead, Precedes, QueueOf
  <1>5. places[i] = "waiting" /\ places' = [places EXCEPT ![i] = "taken"]
    <2>1. PlaceOf(rows'[i]) = "taken" /\ places[i] = "waiting"
      BY <1>1, PlaceByRuntime, WaitingIsQueued DEF IInv, QueueMatchesRows
    <2> QED BY <1>1, <2>1 DEF places
  <1> QED BY <1>3, <1>4, <1>5 DEF Line!TakeFirst, Line!Without, places, pairs

\* settleQueuedTx sends its rows away and moves nobody up but by their leaving.
LEMMA SettlingLeaves ==
  ASSUME IInv, IInv', NEW S \in SUBSET Inputs, SettleQueued(S)
  PROVE  \E D \in SUBSET Inputs : Line!Leave(D)
  <1> DEFINE D == {j \in S : rows[j].rt = "queued"}
  <1>1. D \in SUBSET Inputs /\ \A j \in D : rows[j].rt = "queued"
    OBVIOUS
  <1>2. /\ \A j \in D : rows'[j] = Dropped(rows[j])
        /\ \A j \in Inputs \ D : rows'[j] = rows[j] /\ queue'[j] = queue[j]
    BY DEF SettleQueued
  <1> HIDE DEF D
  <1>3. \A j \in D : rows'[j].rt = "failed" /\ rows'[j] \in Row
    BY <1>1, <1>2, RowFacts, DroppedRow
  <1>4. \A j \in D : ~Queued(j)'
    BY <1>1, <1>3 DEF IInv, QueueMatchesRows
  <1>5. pairs' = {p \in pairs : p[1] \notin D /\ p[2] \notin D}
    BY <1>1, <1>2, <1>4, PairsShrink
  <1>6. \A j \in D : places[j] = "waiting" /\ PlaceOf(rows'[j]) = "over"
    BY <1>1, <1>3, PlaceByRuntime, WaitingIsQueued DEF IInv, QueueMatchesRows
  <1>7. places' = [j \in Inputs |-> IF j \in D THEN "over" ELSE places[j]]
    BY <1>2, <1>6 DEF places
  <1>8. Line!Leave(D)
    BY <1>5, <1>6, <1>7 DEF Line!Leave, Line!Without, places, pairs
  <1> QED BY <1>1, <1>8

\* The calls that touch the queue's table.
LEMMA QueueCalls ==
  ASSUME [StoreCall]_vars
  PROVE  \/ queue' = queue
         \/ \E g \in Gateways, i \in Inputs, rev \in Revisions \cup {0} : AcceptQueued(g, i, rev)
         \/ \E g \in Gateways, i \in Inputs, r \in Runs \cup {NoRun}, rev \in Revisions \cup {0} :
              ClaimQueued(g, i, r, rev)
         \/ \E S \in SUBSET Inputs : SettleQueued(S)
  <1>1. ASSUME NEW g \in Gateways, ExpireQueued(g)
        PROVE  \E S \in SUBSET Inputs : SettleQueued(S)
    BY <1>1 DEF ExpireQueued
  <1>2. ASSUME NEW s \in Sessions, ClearQueue(s)
        PROVE  \E S \in SUBSET Inputs : SettleQueued(S)
    BY <1>2 DEF ClearQueue, QueueOf
  <1>3. ASSUME NEW i \in Inputs, CancelQueued(i)
        PROVE  \E S \in SUBSET Inputs : SettleQueued(S)
    BY <1>3 DEF CancelQueued
  <1>4. ASSUME NEW i \in Inputs,
               \/ \E g \in Gateways, r \in Runs \cup {NoRun} : Accept(g, i, r) \/ MarkRunning(g, i, r)
               \/ \E g \in Gateways, st \in Outcome : SetDelivery(g, i, st)
               \/ \E r \in Runs \cup {NoRun}, st \in {"completed", "failed", "unknown"} :
                    FinishRuntime(i, r, st)
               \/ \E r \in Runs : ConvergeDeliveryFailed(i, r)
               \/ \E reason \in FenceReason, r \in Runs : ClearFenceAfterFreshStart(i, reason, r)
               \/ \E v \in 0..2 : ResolveFence(i, v) \/ AbandonFence(i, v)
        PROVE  queue' = queue
    BY <1>4 DEF Accept, MarkRunning, SetDelivery, FinishRuntime, ConvergeDeliveryFailed,
       ClearFenceAfterFreshStart, ResolveFence, AbandonFence
  <1>5. ASSUME \/ \E g \in Gateways : \/ TerminateOwnerLeases(g)
                                      \/ \E excluded \in SUBSET Inputs : RenewLeases(g, excluded)
               \/ RecoverExpiredLeases
               \/ \E S \in SUBSET Compactable : CompactSettledFacts(S)
               \/ \E s \in Sessions : RetireSession(s)
               \/ Tick
        PROVE  queue' = queue
    BY <1>5 DEF TerminateOwnerLeases, RenewLeases, RecoverExpiredLeases, CompactSettledFacts,
       RetireSession, Tick
  <1> QED BY <1>1, <1>2, <1>3, <1>4, <1>5 DEF StoreCall, Next, vars

\* Every call of the store is a step of the line or leaves it as it is.
LEMMA LineStep ==
  ASSUME IInv, IInv', [StoreCall]_vars
  PROVE  Line!Next
  <1>1. CASE queue' = queue
    <2>1. \A j \in Inputs : MovesAs(j)
      BY RowMoves DEF MovesAs
    <2> QED BY <1>1, <2>1, AwayFromLine DEF Line!Next
  <1> QED BY <1>1, QueueCalls, QueueingJoins, ClaimTakesFirst, SettlingLeaves DEF Line!Next

\* The line starts empty.
LEMMA LineStarts == Init => Line!Init
  <1>1. ASSUME Init
        PROVE  places = [i \in Inputs |-> "outside"] /\ pairs = {}
    <2>1. NoRow \in Row /\ NoRow.rt = "none"
      BY DEF NoRow, Row, Delivery, Runtime
    <2>2. PlaceOf(NoRow) = "outside"
      BY <2>1, PlaceByRuntime
    <2>3. \A i \in Inputs : rows[i] = NoRow /\ ~Queued(i)
      BY <1>1 DEF Init, NoEntry, Queued
    <2> QED BY <2>2, <2>3 DEF places, pairs, Precedes
  <1> QED BY <1>1 DEF Line!Init, places, pairs

\* The ledger implements WaitingLine: ordinals allocated, rolled back with a full
\* queue, and never reused order the dispatch of everything that waits as it came
\* to wait, whichever gateway dispatches and whatever is settled around it.
THEOREM DispatchFollowsTheQueue == Spec => ImplementsWaitingLine
  <1>1. ASSUME IInv, IInv', [Next]_vars
        PROVE  [Line!Next]_<<[i \in Inputs |-> PlaceOf(rows[i])],
                             {p \in Inputs \X Inputs : Precedes(p[1], p[2])}>>
    BY <1>1, LineStep DEF StoreCall
  <1> QED BY <1>1, LineStarts, InitStep, NextStep, PTL DEF Spec, ImplementsWaitingLine, Line!Spec

-----------------------------------------------------------------------------
(* THE DELIVERY PATH: InputDelivery.                                       *)

\* The elements of a sequence of inputs, and the inputs a sequence of Done
\* events names.
Items(q) == {q[n] : n \in DOMAIN q}
Named(q) == {q[n].input : n \in DOMAIN q}

Report == [input: Inputs, ok: BOOLEAN]

Distinct(q) == \A m, n \in DOMAIN q : q[m] = q[n] => m = n
NamesDistinct(q) == \A m, n \in DOMAIN q : q[m].input = q[n].input => m = n

\* Runtime facts of an input no worker has been given yet.
Early == {"none", "queued", "pending"}

\* The inputs a run's worker holds, and those it has reported as done.
Working(r) == Items(work[r])
Reported(r) == Named(dones[r])

\* The delivery path gives an input away only from positions at which it never
\* was given, and past the ledger's record of its run.
HandlerOK ==
  \A i \in Inputs :
    /\ pc[i] \in {"claimed", "accepted", "marked"} => given[i] = 0
    /\ pc[i] = "marked" => rows[i].rt \notin Early
    /\ pc[i] = "fresh" => target[i].row \in Inputs /\ target[i].run \in Runs

\* What a worker, its forwarder or a retry timer holds was given before.
GivenOK ==
  /\ \A r \in Runs :
       /\ \A d \in Working(r) \cup Reported(r) : given[d] > 0
       /\ seen[r] # NoInput => dones[r] # << >>
  /\ \A s \in Sessions : retry[s] # NoInput => given[retry[s]] > 0

\* The dispatcher looks at the queue of one session.
PeekOK == \A s \in Sessions : peeked[s] # NoInput => SessionOf[peeked[s]] = s

\* What the gateway remembers about inputs is backed by the ledger.
WInv ==
  /\ DTypeOK
  /\ IInv
  /\ WriteAhead
  /\ HandlerOK
  /\ GivenOK
  /\ PeekOK

-----------------------------------------------------------------------------
(* Turns. *)

\* The inputs a run still has to answer for: its worker holds them, or has sent
\* a Done that the forwarder has not taken.
Engaged(r) == Working(r) \cup Reported(r)

\* What a run sent can no longer be about an execution that holds the slot.
Stale(r, s) ==
  /\ bound[s] # r
  /\ \A i \in Inputs : SessionOf[i] = s /\ Holds(rows[i]) => rows[i].run # r

\* dispatchGate admits one delivery of a session at a time.
GateExclusive ==
  \A i, j \in Inputs :
    SessionOf[i] = SessionOf[j] /\ pc[i] \in InsideGate /\ pc[j] \in InsideGate => i = j

\* A run id is given out once, and a run serves one session.
RunsApart ==
  /\ \A s \in Sessions : bound[s] # NoRun => bound[s] \in used
  /\ \A s, t \in Sessions : bound[s] = bound[t] /\ bound[s] # NoRun => s = t
  /\ \A r \in Runs : work[r] # <<>> \/ dones[r] # <<>> => r \in used

\* A worker holds inputs only of the session it is bound to, and what a run
\* holds or has reported is in the slot of its session or can no longer matter.
Tied ==
  \A r \in Runs :
    /\ \A d \in Working(r) : bound[SessionOf[d]] = r
    /\ \A d \in Engaged(r) : Holds(rows[d]) \/ Stale(r, SessionOf[d])

\* An input is in one place: one worker, or one report.
Once ==
  \A r, q \in Runs :
    /\ Distinct(work[r]) /\ NamesDistinct(dones[r])
    /\ r # q => Working(r) \cap Working(q) = {} /\ Reported(r) \cap Reported(q) = {}
    /\ Working(r) \cap Reported(q) = {}

\* While a fenced session's worker is being replaced, the fresh worker is bound
\* or gone, and has been given nothing.
FreshIsIdle ==
  \A i \in Inputs : pc[i] = "fresh" =>
    /\ SessionOf[target[i].row] = SessionOf[i]
    /\ bound[SessionOf[i]] \in {target[i].run, NoRun}
    /\ target[i].run \in used
    /\ \A d \in Engaged(target[i].run) : SessionOf[d] # SessionOf[i]

\* A delivery past MarkRunning has the slot.
MarkedHolds == \A i \in Inputs : pc[i] = "marked" => Holds(rows[i])

\* A Done that reports success was sent by a worker that succeeded.
DonesTrue ==
  \A r \in Runs : \A n \in DOMAIN dones[r] : dones[r][n].ok => dones[r][n].input \in served

\* The record a forwarder read is of the session whose Done it handles.
SeenOK ==
  \A r \in Runs : seen[r] # NoInput => SessionOf[seen[r].input] = SessionOf[Head(dones[r]).input]

NoRetry == \A s \in Sessions : retry[s] = NoInput

\* Without auto-retry and operator, a turn is tied to the slot of its session.
TInv ==
  /\ GateExclusive
  /\ RunsApart
  /\ Tied
  /\ Once
  /\ FreshIsIdle
  /\ MarkedHolds
  /\ DonesTrue
  /\ SeenOK
  /\ NoRetry

-----------------------------------------------------------------------------
(* Sequences of inputs and of Done events. *)

LEMMA ItemsTyped ==
  ASSUME NEW q \in Seq(Inputs)
  PROVE  Items(q) \subseteq Inputs /\ (q # << >> => Head(q) \in Items(q))
  <1>1. q # << >> => 1 \in DOMAIN q /\ Head(q) = q[1]
    OBVIOUS
  <1> QED BY <1>1 DEF Items

LEMMA ItemsEmpty == Items(<< >>) = {} /\ Distinct(<< >>)
  BY DEF Items, Distinct

\* Dispatch: the worker is given one more input.
LEMMA ItemsAppend ==
  ASSUME NEW q \in Seq(Inputs), NEW x \in Inputs
  PROVE  /\ Items(Append(q, x)) = Items(q) \cup {x}
         /\ Distinct(q) /\ x \notin Items(q) => Distinct(Append(q, x))
  <1>1. /\ Len(q) \in Nat /\ DOMAIN q = 1..Len(q)
        /\ DOMAIN Append(q, x) = 1..(Len(q) + 1)
        /\ \A n \in 1..Len(q) : Append(q, x)[n] = q[n]
        /\ Append(q, x)[Len(q) + 1] = x
    OBVIOUS
  <1> QED BY <1>1 DEF Items, Distinct

\* WorkerDone: the worker is through with its first input.
LEMMA ItemsTail ==
  ASSUME NEW q \in Seq(Inputs), q # << >>
  PROVE  /\ Items(q) = Items(Tail(q)) \cup {Head(q)}
         /\ Distinct(q) => Distinct(Tail(q)) /\ Head(q) \notin Items(Tail(q))
  <1>1. /\ Len(q) \in Nat /\ Len(q) > 0 /\ DOMAIN q = 1..Len(q) /\ Head(q) = q[1]
        /\ DOMAIN Tail(q) = 1..(Len(q) - 1)
        /\ \A n \in 1..(Len(q) - 1) : Tail(q)[n] = q[n + 1]
    OBVIOUS
  <1>2. \A n \in DOMAIN q : n = 1 \/ (n - 1 \in DOMAIN Tail(q) /\ Tail(q)[n - 1] = q[n])
    BY <1>1
  <1>3. Items(q) \subseteq Items(Tail(q)) \cup {Head(q)}
    BY <1>1, <1>2 DEF Items
  <1>4. \A n \in DOMAIN Tail(q) : n + 1 \in DOMAIN q /\ Tail(q)[n] = q[n + 1] /\ n + 1 # 1
    BY <1>1
  <1>5. Items(Tail(q)) \cup {Head(q)} \subseteq Items(q)
    BY <1>1, <1>4, 1 \in DOMAIN q DEF Items
  <1>6. ASSUME Distinct(q) PROVE Distinct(Tail(q)) /\ Head(q) \notin Items(Tail(q))
    <2>1. Distinct(Tail(q))
      BY <1>1, <1>4, <1>6 DEF Distinct
    <2>2. Head(q) \notin Items(Tail(q))
      BY <1>1, <1>4, <1>6, 1 \in DOMAIN q DEF Distinct, Items
    <2> QED BY <2>1, <2>2
  <1> QED BY <1>3, <1>5, <1>6

\* One input alone, as the fallback gives it to a fresh worker.
LEMMA ItemsSingle ==
  ASSUME NEW x
  PROVE  Items(<<x>>) = {x} /\ Distinct(<<x>>)
  BY DEF Items, Distinct

LEMMA NamedTyped ==
  ASSUME NEW q \in Seq(Report)
  PROVE  /\ Named(q) \subseteq Inputs
         /\ q # << >> => /\ Head(q) \in Report /\ Head(q).input \in Named(q)
                         /\ 1 \in DOMAIN q /\ Head(q) = q[1]
  <1>1. q # << >> => 1 \in DOMAIN q /\ Head(q) = q[1]
    OBVIOUS
  <1>2. \A n \in DOMAIN q : q[n] \in Report /\ q[n].input \in Inputs
    <2>1. \A n \in DOMAIN q : q[n] \in Report
      OBVIOUS
    <2>2. \A x \in Report : x.input \in Inputs
      BY DEF Report
    <2> QED BY <2>1, <2>2
  <1> QED BY <1>1, <1>2 DEF Named

LEMMA NamedEmpty == Named(<< >>) = {} /\ NamesDistinct(<< >>)
  BY DEF Named, NamesDistinct

LEMMA NamedAppend ==
  ASSUME NEW q \in Seq(Report), NEW x \in Report
  PROVE  /\ Named(Append(q, x)) = Named(q) \cup {x.input}
         /\ NamesDistinct(q) /\ x.input \notin Named(q) => NamesDistinct(Append(q, x))
  <1>1. /\ Len(q) \in Nat /\ DOMAIN q = 1..Len(q)
        /\ DOMAIN Append(q, x) = 1..(Len(q) + 1)
        /\ \A n \in 1..Len(q) : Append(q, x)[n] = q[n]
        /\ Append(q, x)[Len(q) + 1] = x
    OBVIOUS
  <1> QED BY <1>1 DEF Named, NamesDistinct

\* ReadOpen and FinishDone: the first Done is taken.
LEMMA NamedTail ==
  ASSUME NEW q \in Seq(Report), q # << >>
  PROVE  /\ Named(q) = Named(Tail(q)) \cup {Head(q).input}
         /\ NamesDistinct(q) => NamesDistinct(Tail(q)) /\ Head(q).input \notin Named(Tail(q))
         /\ \A n \in DOMAIN Tail(q) : n + 1 \in DOMAIN q /\ Tail(q)[n] = q[n + 1]
  <1>1. /\ Len(q) \in Nat /\ Len(q) > 0 /\ DOMAIN q = 1..Len(q) /\ Head(q) = q[1]
        /\ DOMAIN Tail(q) = 1..(Len(q) - 1)
        /\ \A n \in 1..(Len(q) - 1) : Tail(q)[n] = q[n + 1]
    OBVIOUS
  <1>2. \A n \in DOMAIN q : n = 1 \/ (n - 1 \in DOMAIN Tail(q) /\ Tail(q)[n - 1] = q[n])
    BY <1>1
  <1>3. ASSUME NEW x \in Named(q) PROVE x \in Named(Tail(q)) \cup {Head(q).input}
    <2>1. PICK n \in DOMAIN q : x = q[n].input
      BY <1>3 DEF Named
    <2>2. CASE n = 1
      BY <1>1, <2>1, <2>2
    <2>3. CASE n # 1
      BY <1>2, <2>1, <2>3 DEF Named
    <2> QED BY <2>2, <2>3
  <1>4. \A n \in DOMAIN Tail(q) : n + 1 \in DOMAIN q /\ Tail(q)[n] = q[n + 1] /\ n + 1 # 1
    BY <1>1
  <1>5. Named(Tail(q)) \cup {Head(q).input} \subseteq Named(q)
    BY <1>1, <1>4, 1 \in DOMAIN q DEF Named
  <1>6. ASSUME NamesDistinct(q)
        PROVE  NamesDistinct(Tail(q)) /\ Head(q).input \notin Named(Tail(q))
    <2>1. NamesDistinct(Tail(q))
      BY <1>1, <1>4, <1>6 DEF NamesDistinct
    <2>2. Head(q).input \notin Named(Tail(q))
      BY <1>1, <1>4, <1>6, 1 \in DOMAIN q DEF NamesDistinct, Named
    <2> QED BY <2>1, <2>2
  <1> QED BY <1>3, <1>4, <1>5, <1>6

LEMMA NamedSingle ==
  ASSUME NEW x
  PROVE  Named(<<x>>) = {x.input} /\ NamesDistinct(<<x>>)
  BY DEF Named, NamesDistinct

-----------------------------------------------------------------------------
(* What the steps of the ledger do to the rows. *)

\* A row that left the early facts never comes back to them and keeps a run.
Forward ==
  \A j \in Inputs : rows[j].rt \notin Early =>
    /\ rows'[j].rt \notin Early
    /\ rows[j].run # NoRun => rows'[j].run # NoRun

\* Who holds a slot held it before, for the same run.
NobodyEnters ==
  \A j \in Inputs : Holds(rows'[j]) => Holds(rows[j]) /\ rows'[j].run = rows[j].run

NobodyLeaves == \A j \in Inputs : Holds(rows[j]) => Holds(rows'[j])

NobodyCompletes == \A j \in Inputs : rows'[j].rt = "completed" => rows[j].rt = "completed"

\* A step of the ledger that concerns no turn.
Calm ==
  /\ IInv'
  /\ Forward /\ NobodyEnters /\ NobodyLeaves /\ NobodyCompletes

LEMMA HoldsIsHoldsSlot == \A j \in Inputs : HoldsSlot(j) <=> Holds(rows[j])
  BY DEF HoldsSlot, Holds, Active

LEMMA IdleCalm ==
  ASSUME IInv, UNCHANGED vars
  PROVE  Calm
  <1>1. IInv'
    BY IdleStep DEF vars, IInv, TypeOK
  <1> QED BY <1>1 DEF Calm, Forward, NobodyEnters, NobodyLeaves, NobodyCompletes, vars

LEMMA TickCalm ==
  ASSUME IInv, Tick
  PROVE  Calm
  <1>1. IInv'
    BY IdleStep DEF Tick, IInv, TypeOK
  <1> QED BY <1>1 DEF Calm, Forward, NobodyEnters, NobodyLeaves, NobodyCompletes, Tick

LEMMA SetDeliveryCalm ==
  ASSUME IInv, NEW g \in Gateways, NEW i \in Inputs, NEW st \in Outcome, SetDelivery(g, i, st)
  PROVE  Calm
  <1> DEFINE q == [rows[i] EXCEPT !.status = st]
  <1>1. q.rt = rows[i].rt /\ q.fence = rows[i].fence /\ q.run = rows[i].run
    BY RowFacts, Zenon DEF Row
  <1>2. rows' = [rows EXCEPT ![i] = q] /\ rows \in [Inputs -> Row]
    BY DEF SetDelivery, IInv, TypeOK
  <1>3. IInv'
    BY SetDeliveryStep
  <1> HIDE DEF q
  <1>4. \A j \in Inputs : /\ rows'[j].rt = rows[j].rt /\ rows'[j].run = rows[j].run
                          /\ Holds(rows'[j]) <=> Holds(rows[j])
    BY <1>1, <1>2 DEF Holds
  <1> QED BY <1>3, <1>4 DEF Calm, Forward, NobodyEnters, NobodyLeaves, NobodyCompletes

\* Recovery and shutdown fence rows that hold their slot.
LEMMA FenceCalm ==
  ASSUME IInv, NEW S \in SUBSET Inputs, NEW reason \in FenceReason,
         \A j \in S : Active(j),
         rows' = [j \in Inputs |-> IF j \in S THEN Fenced(rows[j], reason) ELSE rows[j]],
         UNCHANGED <<queue, nextSeq, budget, open, now>>
  PROVE  Calm
  <1>1. IInv'
    BY FenceActive
  <1>2. \A j \in S : /\ Fenced(rows[j], reason).rt = "unknown"
                     /\ Fenced(rows[j], reason).run = rows[j].run
                     /\ Fenced(rows[j], reason).fence = reason
    BY FencedRow, RowFacts
  <1>3. reason # "none"
    BY DEF FenceReason
  <1>4. \A j \in S : Holds(rows[j]) /\ Holds(rows'[j]) /\ rows'[j].run = rows[j].run
                     /\ rows'[j].rt = "unknown"
    BY <1>2, <1>3 DEF Holds, Active
  <1>5. \A j \in Inputs : j \notin S => rows'[j] = rows[j]
    OBVIOUS
  <1> QED BY <1>1, <1>4, <1>5 DEF Calm, Forward, NobodyEnters, NobodyLeaves, NobodyCompletes, Early

LEMMA RecoverCalm ==
  ASSUME IInv, RecoverExpiredLeases
  PROVE  Calm
  <1>1. /\ UNCHANGED <<queue, nextSeq, budget, open, now>>
        /\ rows' = [j \in Inputs |-> IF j \in Expired
                                     THEN Fenced(rows[j], "GATEWAY_LEASE_EXPIRED")
                                     ELSE rows[j]]
    BY DEF RecoverExpiredLeases
  <1>2. Expired \in SUBSET Inputs /\ \A j \in Expired : Active(j)
    BY DEF Expired
  <1>3. "GATEWAY_LEASE_EXPIRED" \in FenceReason
    BY DEF FenceReason
  <1> QED BY <1>1, <1>2, <1>3, FenceCalm

LEMMA TerminateCalm ==
  ASSUME IInv, NEW g \in Gateways, TerminateOwnerLeases(g)
  PROVE  Calm
  <1>1. /\ UNCHANGED <<queue, nextSeq, budget, open, now>>
        /\ rows' = [j \in Inputs |-> IF j \in OwnedActive(g)
                                     THEN Fenced(rows[j], "GATEWAY_SHUTDOWN")
                                     ELSE rows[j]]
    BY DEF TerminateOwnerLeases
  <1>2. OwnedActive(g) \in SUBSET Inputs /\ \A j \in OwnedActive(g) : Active(j)
    BY DEF OwnedActive
  <1>3. "GATEWAY_SHUTDOWN" \in FenceReason
    BY DEF FenceReason
  <1> QED BY <1>1, <1>2, <1>3, FenceCalm

LEMMA RenewCalm ==
  ASSUME IInv, NEW g \in Gateways, NEW excluded \in SUBSET Inputs, RenewLeases(g, excluded)
  PROVE  Calm
  <1> DEFINE q(j) == [rows[j] EXCEPT !.lease = now + LeaseTTL]
  <1>1. \A j \in Inputs : q(j).rt = rows[j].rt /\ q(j).fence = rows[j].fence
                          /\ q(j).run = rows[j].run
    BY RowFacts, Zenon DEF Row
  <1>2. rows' = [j \in Inputs |-> IF j \in OwnedActive(g) \ excluded THEN q(j) ELSE rows[j]]
    BY DEF RenewLeases
  <1>3. IInv'
    BY RenewStep
  <1> HIDE DEF q
  <1>4. \A j \in Inputs : /\ rows'[j].rt = rows[j].rt /\ rows'[j].run = rows[j].run
                          /\ Holds(rows'[j]) <=> Holds(rows[j])
    BY <1>1, <1>2 DEF Holds
  <1> QED BY <1>3, <1>4 DEF Calm, Forward, NobodyEnters, NobodyLeaves, NobodyCompletes

\* Queued rows are settled; none of them holds a slot.
LEMMA SettleCalm ==
  ASSUME IInv, NEW S \in SUBSET Inputs, SettleQueued(S),
         UNCHANGED <<nextSeq, budget, open, now>>
  PROVE  Calm
  <1>1. IInv'
    BY SettleStep
  <1>2. rows' = [j \in Inputs |-> IF j \in {k \in S : rows[k].rt = "queued"}
                                  THEN Dropped(rows[j]) ELSE rows[j]]
    BY DEF SettleQueued
  <1>3. \A j \in Inputs : rows'[j] = rows[j] \/
          (/\ rows[j].rt = "queued" /\ rows'[j].rt = "failed"
           /\ ~Holds(rows[j]) /\ ~Holds(rows'[j]))
    <2>1. SUFFICES ASSUME NEW j \in Inputs, rows'[j] # rows[j]
                   PROVE  /\ rows[j].rt = "queued" /\ rows'[j].rt = "failed"
                          /\ ~Holds(rows[j]) /\ ~Holds(rows'[j])
      OBVIOUS
    <2>2. rows[j].rt = "queued" /\ rows'[j] = Dropped(rows[j])
      BY <1>2, <2>1
    <2>3. rows[j] \in Row /\ rows[j].fence = "none"
      BY <2>2, RowFacts DEF FenceOK
    <2> QED BY <2>2, <2>3, DroppedRow DEF Holds
  <1> QED BY <1>1, <1>3 DEF Calm, Forward, NobodyEnters, NobodyLeaves, NobodyCompletes, Early

LEMMA AcceptQueuedCalm ==
  ASSUME IInv, NEW g \in Gateways, NEW i \in Inputs, AcceptQueued(g, i, 0)
  PROVE  Calm
  <1>1. IInv'
    BY AcceptQueuedStep, 0 \in Revisions \cup {0}
  <1>2. rows \in [Inputs -> Row] /\ rows[i].rt = "none" /\ rows[i].fence = "none"
    BY RowFacts DEF AcceptQueued, IInv, TypeOK, FenceOK
  <1>3. /\ \A j \in Inputs : j # i => rows'[j] = rows[j]
        /\ rows'[i].rt = "queued" /\ rows'[i].fence = "none"
    BY <1>2 DEF AcceptQueued
  <1> QED BY <1>1, <1>2, <1>3 
          DEF Calm, Forward, NobodyEnters, NobodyLeaves, NobodyCompletes, Early, Holds

\* ClaimQueued and Accept give the free slot to a row nobody was given.
LEMMA TakesSlot ==
  ASSUME IInv, NEW g \in Gateways, NEW i \in Inputs, NEW r \in Runs \cup {NoRun},
         Accept(g, i, r) \/ ClaimQueued(g, i, r, 0)
  PROVE  /\ IInv' /\ Forward
         /\ rows[i].rt \in {"none", "queued"} /\ rows'[i].rt = "pending" /\ rows'[i].run = r
         /\ \A j \in Inputs : j # i => rows'[j] = rows[j]
         /\ \A j \in Inputs : SessionOf[j] = SessionOf[i] => ~Holds(rows[j])
  <1>1. rows \in [Inputs -> Row] /\ rows[i] \in Row
    BY DEF IInv, TypeOK
  <1>2. CASE Accept(g, i, r)
    <2>1. IInv'
      BY <1>2, AcceptStep
    <2>2. /\ rows[i].rt = "none" /\ ~Busy(SessionOf[i])
          /\ rows'[i].rt = "pending" /\ rows'[i].run = r
          /\ \A j \in Inputs : j # i => rows'[j] = rows[j]
      BY <1>1, <1>2 DEF Accept
    <2> QED BY <2>1, <2>2, HoldsIsHoldsSlot DEF Busy, Forward, Early
  <1>3. CASE ClaimQueued(g, i, r, 0)
    <2>1. IInv'
      BY <1>3, ClaimQueuedStep, 0 \in Revisions \cup {0}
    <2> DEFINE t == LocalNow(g) + LeaseTTL
    <2>2. t \in Int
      BY LedgerAssumption DEF LedgerAssumption, IInv, TypeOK, LocalNow
    <2>3. /\ rows[i].rt = "queued" /\ ~Busy(SessionOf[i])
          /\ rows' = [rows EXCEPT ![i] = Claimed(rows[i], g, r, t)]
      BY <1>3 DEF ClaimQueued
    <2> HIDE DEF t
    <2>4. Claimed(rows[i], g, r, t).rt = "pending" /\ Claimed(rows[i], g, r, t).run = r
      BY <1>1, <2>2, ClaimedRow
    <2> QED BY <1>1, <2>1, <2>3, <2>4, HoldsIsHoldsSlot DEF Busy, Forward, Early
  <1> QED BY <1>2, <1>3

\* MarkRunning names the run in a pending row.
LEMMA Starts ==
  ASSUME IInv, NEW g \in Gateways, NEW i \in Inputs, NEW r \in Runs, MarkRunning(g, i, r)
  PROVE  /\ IInv' /\ Forward
         /\ rows[i].rt = "pending" /\ rows'[i].rt = "running" /\ rows'[i].run = r
         /\ Holds(rows[i]) /\ Holds(rows'[i])
         /\ \A j \in Inputs : j # i => rows'[j] = rows[j]
  <1>1. rows \in [Inputs -> Row] /\ rows[i] \in Row
    BY DEF IInv, TypeOK
  <1>2. IInv'
    BY MarkRunningStep
  <1>3. rows[i].rt = "pending" /\ rows' = [rows EXCEPT ![i] = Running(rows[i], r)]
    BY DEF MarkRunning
  <1>4. rows'[i].rt = "running" /\ rows'[i].run = r
    BY <1>1, <1>3, RunningRow
  <1> QED BY <1>1, <1>2, <1>3, <1>4 DEF Forward, Early, Holds

\* A row is finished: it gives up the slot, if it had it, and keeps its run.
LEMMA Finishes ==
  ASSUME IInv, NEW i \in Inputs, NEW r \in Runs \cup {NoRun}, FinishRuntime(i, r, "failed")
  PROVE  /\ IInv' /\ Forward /\ NobodyEnters /\ NobodyCompletes
         /\ \A j \in Inputs : j # i => rows'[j] = rows[j]
  <1>1. rows \in [Inputs -> Row] /\ rows[i] \in Row
    BY DEF IInv, TypeOK
  <1>2. IInv'
    BY FinishRuntimeStep
  <1>3. rows' = [rows EXCEPT ![i] = Finished(rows[i], "failed")]
    BY DEF FinishRuntime
  <1>4. rows'[i].rt = "failed" /\ rows'[i].run = rows[i].run /\ rows'[i].fence = "none"
    BY <1>1, <1>3, FinishedRow
  <1>5. \A j \in Inputs : j # i => rows'[j] = rows[j]
    BY <1>1, <1>3
  <1> QED BY <1>2, <1>4, <1>5 DEF Forward, Early, Holds, NobodyEnters, NobodyCompletes

\* The fence is lifted after a fresh start: the row is out of the slot.
LEMMA Clears ==
  ASSUME IInv, NEW i \in Inputs, NEW r \in Runs, rows[i].fence # "none",
         ClearFenceAfterFreshStart(i, rows[i].fence, r)
  PROVE  /\ IInv' /\ Forward /\ NobodyEnters /\ NobodyCompletes
         /\ Holds(rows[i]) /\ ~Holds(rows'[i])
         /\ \A j \in Inputs : j # i => rows'[j] = rows[j]
  <1>1. rows \in [Inputs -> Row] /\ rows[i] \in Row /\ rows[i].rt = "unknown"
    BY RowFacts DEF IInv, TypeOK, FenceOK
  <1>2. rows[i].fence \in FenceReason
    BY <1>1 DEF Row
  <1>3. IInv'
    BY <1>2, FreshStartStep
  <1>4. rows' = [rows EXCEPT ![i] = FreshlyStarted(rows[i], r)]
    BY DEF ClearFenceAfterFreshStart
  <1>5. rows'[i].rt = "unknown" /\ rows'[i].run = r /\ rows'[i].fence = "none"
    BY <1>1, <1>4, FreshlyStartedRow
  <1>6. r # NoRun
    BY LedgerAssumption DEF LedgerAssumption
  <1>7. \A j \in Inputs : j # i => rows'[j] = rows[j]
    BY <1>1, <1>4
  <1> QED BY <1>1, <1>3, <1>5, <1>6, <1>7
          DEF Forward, Early, Holds, NobodyEnters, NobodyCompletes

\* An operator's decision on a fence.
LEMMA Decides ==
  ASSUME IInv, NEW i \in Inputs, ResolveFence(i, 1) \/ AbandonFence(i, 1)
  PROVE  IInv' /\ Forward
  <1>1. rows \in [Inputs -> Row] /\ rows[i] \in Row
    BY DEF IInv, TypeOK
  <1>2. 1 \in Nat
    OBVIOUS
  <1>3. CASE ResolveFence(i, 1)
    <2>1. IInv'
      BY <1>2, <1>3, ResolveStep
    <2>2. [rows[i] EXCEPT !.fence = "none"].rt = rows[i].rt
          /\ [rows[i] EXCEPT !.fence = "none"].run = rows[i].run
      BY <1>1, Zenon DEF Row
    <2>3. rows' = [rows EXCEPT ![i] = [rows[i] EXCEPT !.fence = "none"]]
      BY <1>3 DEF ResolveFence
    <2> QED BY <1>1, <2>1, <2>2, <2>3 DEF Forward
  <1>4. CASE AbandonFence(i, 1)
    <2>1. IInv'
      BY <1>2, <1>4, AbandonStep
    <2>2. rows' = [rows EXCEPT ![i] = Abandoned(rows[i])]
      BY <1>4 DEF AbandonFence
    <2>3. rows'[i].rt = "failed" /\ rows'[i].run = rows[i].run
      BY <1>1, <2>2, AbandonedRow
    <2> QED BY <1>1, <2>1, <2>2, <2>3 DEF Forward, Early
  <1> QED BY <1>3, <1>4

-----------------------------------------------------------------------------
(* Write ahead: the parts of WInv under the steps of the handler. *)

LEMMA AheadKept ==
  ASSUME WInv, Forward, given' = given
  PROVE  WriteAhead'
  BY DEF WInv, Forward, WriteAhead, Early

\* At most the goroutine of one input holds another record and run than before.
Noted(i) ==
  /\ target' \in [Inputs -> [row: Inputs \cup {NoInput}, run: Runs \cup {NoRun}]]
  /\ \A j \in Inputs : j # i => target'[j] = target[j]

LEMMA NotesOne ==
  ASSUME WInv, NEW i \in Inputs, NEW f \in Inputs, NEW r \in Runs \cup {NoRun},
         Note(i, f, r)
  PROVE  Noted(i)
  BY DEF WInv, DTypeOK, Note, Noted

\* The goroutine of one input moves.
LEMMA Moves ==
  ASSUME WInv, Forward, given' = given,
         NEW i \in Inputs, target' = target \/ Noted(i), NEW p \in Position, Move(i, p), p # "fresh",
         p \in {"claimed", "accepted", "marked"} => given[i] = 0,
         p = "marked" => rows'[i].rt \notin Early
  PROVE  pc' \in [Inputs -> Position] /\ HandlerOK'
  <1>1. pc' = [pc EXCEPT ![i] = p] /\ pc \in [Inputs -> Position]
    BY DEF Move, WInv, DTypeOK
  <1>2. \A j \in Inputs : pc'[j] = IF j = i THEN p ELSE pc[j]
    BY <1>1
  <1>3. \A j \in Inputs : pc[j] = "marked" => rows'[j].rt \notin Early
    BY DEF WInv, HandlerOK, Forward
  <1>4. \A j \in Inputs : j # i => target'[j] = target[j]
    BY DEF Noted
  <1> QED BY <1>1, <1>2, <1>3, <1>4 DEF WInv, HandlerOK

\* Nobody moves.
LEMMA Rests ==
  ASSUME WInv, Forward, given' = given, target' = target, pc' = pc
  PROVE  pc' \in [Inputs -> Position] /\ HandlerOK'
  <1>1. \A j \in Inputs : pc[j] = "marked" => rows'[j].rt \notin Early
    BY DEF WInv, HandlerOK, Forward
  <1> QED BY <1>1 DEF WInv, HandlerOK, DTypeOK

\* Nothing is given or taken; a retry may be cancelled.
LEMMA Holding ==
  ASSUME WInv, UNCHANGED <<work, dones, seen, given>>, NEW s \in Sessions,
         retry' = retry \/ CancelRetry(s)
  PROVE  GivenOK' /\ retry' \in [Sessions -> Inputs \cup {NoInput}]
  <1>1. retry \in [Sessions -> Inputs \cup {NoInput}]
    BY DEF WInv, DTypeOK
  <1>2. \A r \in Runs : Working(r)' = Working(r) /\ Reported(r)' = Reported(r)
    BY DEF Working, Reported
  <1>3. \A t \in Sessions : retry'[t] \in {retry[t], NoInput}
    BY <1>1 DEF CancelRetry
  <1>4. retry' \in [Sessions -> Inputs \cup {NoInput}]
    BY <1>1 DEF CancelRetry
  <1> QED BY <1>2, <1>3, <1>4 DEF WInv, GivenOK

\* A step of one input's goroutine that touches no worker, apart from binding
\* one, and no table of the dispatcher.
LEMMA HandlerStep ==
  ASSUME WInv, IInv', Forward, NEW i \in Inputs, NEW p \in Position, Move(i, p), p # "fresh",
         p \in {"claimed", "accepted", "marked"} => given[i] = 0,
         p = "marked" => rows'[i].rt \notin Early,
         retry' = retry \/ CancelRetry(SessionOf[i]), target' = target \/ Noted(i),
         UNCHANGED <<gw, spare, wake, peeked, bound, used, ended, work, dones, seen, history>>
  PROVE  WInv'
  <1>1. given' = given /\ served' = served
    BY DEF history
  <1>2. SessionOf[i] \in Sessions
    BY LedgerAssumption DEF LedgerAssumption
  <1>3. GivenOK' /\ retry' \in [Sessions -> Inputs \cup {NoInput}]
    BY <1>1, <1>2, Holding
  <1>4. pc' \in [Inputs -> Position] /\ HandlerOK'
    BY <1>1, Moves
  <1>5. DTypeOK'
    BY <1>1, <1>3, <1>4 DEF WInv, IInv, DTypeOK, Noted
  <1> QED BY <1>1, <1>3, <1>4, <1>5, AheadKept DEF WInv, PeekOK

LEMMA NotYetGiven ==
  ASSUME WInv, NEW i \in Inputs, rows[i].rt \in Early
  PROVE  given[i] = 0
  BY DEF WInv, WriteAhead, Early, DTypeOK

LEMMA BoundTyped ==
  ASSUME WInv, NEW i \in Inputs
  PROVE  bound[SessionOf[i]] \in Runs \cup {NoRun} /\ SessionOf[i] \in Sessions /\ gw \in Gateways
  BY LedgerAssumption DEF LedgerAssumption, WInv, DTypeOK

LEMMA WDeliver ==
  ASSUME WInv, NEW i \in Inputs, Deliver(i)
  PROVE  WInv'
  <1>1. Accept(gw, i, bound[SessionOf[i]]) /\ IInv
    BY DEF Deliver, WInv
  <1>2. IInv' /\ Forward /\ rows[i].rt \in {"none", "queued"}
    BY <1>1, BoundTyped, TakesSlot
  <1>3. given[i] = 0
    BY <1>2, NotYetGiven DEF Early
  <1>4. "accepted" \in Position
    BY DEF Position, InsideGate
  <1> QED BY <1>2, <1>3, <1>4, BoundTyped, NotesOne, HandlerStep DEF Deliver

LEMMA WDeliverBusy ==
  ASSUME WInv, NEW i \in Inputs, DeliverBusy(i)
  PROVE  WInv'
  <1>1. IInv' /\ Forward
    BY IdleCalm DEF DeliverBusy, WInv, Calm
  <1>2. "busy" \in Position
    BY DEF Position
  <1> QED BY <1>1, <1>2, HandlerStep DEF DeliverBusy

LEMMA WClearFence ==
  ASSUME WInv, NEW i \in Inputs, ClearFence(i)
  PROVE  WInv'
  <1> DEFINE f == target[i].row
  <1>1. f \in Inputs /\ target[i].run \in Runs /\ IInv
    BY DEF ClearFence, WInv, HandlerOK
  <1>2. "cleared" \in Position
    BY DEF Position, InsideGate
  <1>3. Move(i, "cleared") /\ UNCHANGED <<gw, spare, target, wake, peeked, workers, history>>
    BY DEF ClearFence
  <1>4. CASE /\ ClearFenceAfterFreshStart(f, rows[f].fence, target[i].run)
             /\ rows[f].fence # "none"
    <2>1. IInv' /\ Forward
      BY <1>1, <1>4, Clears
    <2> QED BY <1>2, <1>3, <2>1, HandlerStep DEF workers
  <1>5. CASE UNCHANGED vars
    <2>1. IInv' /\ Forward
      BY <1>5, IdleCalm DEF WInv, Calm
    <2> QED BY <1>2, <1>3, <2>1, HandlerStep DEF workers
  <1> QED BY <1>4, <1>5 DEF ClearFence

LEMMA WRetryAccept ==
  ASSUME WInv, NEW i \in Inputs, RetryAccept(i)
  PROVE  WInv'
  <1>1. CASE /\ Accept(gw, i, bound[SessionOf[i]]) /\ Move(i, "accepted")
             /\ Note(i, i, bound[SessionOf[i]])
    <2>1. IInv' /\ Forward /\ rows[i].rt \in {"none", "queued"}
      BY <1>1, BoundTyped, TakesSlot DEF WInv
    <2>2. given[i] = 0
      BY <2>1, NotYetGiven DEF Early
    <2>3. "accepted" \in Position
      BY DEF Position, InsideGate
    <2> QED BY <1>1, <2>1, <2>2, <2>3, BoundTyped, NotesOne, HandlerStep DEF RetryAccept
  <1>2. CASE Move(i, "busy") /\ UNCHANGED <<vars, target>>
    <2>1. IInv' /\ Forward
      BY <1>2, IdleCalm DEF WInv, Calm
    <2>2. "busy" \in Position
      BY DEF Position
    <2> QED BY <1>2, <2>1, <2>2, HandlerStep DEF RetryAccept
  <1> QED BY <1>1, <1>2 DEF RetryAccept

LEMMA WEnqueue ==
  ASSUME WInv, NEW i \in Inputs, EnqueueBusyInput(i)
  PROVE  WInv'
  <1>1. IInv' /\ Forward
    BY BoundTyped, AcceptQueuedCalm DEF EnqueueBusyInput, WInv, Calm
  <1>2. "idle" \in Position
    BY DEF Position
  <1> QED BY <1>1, <1>2, HandlerStep DEF EnqueueBusyInput, workers

LEMMA WSupplement ==
  ASSUME WInv, NEW i \in Inputs, SupplementNotDurable(i)
  PROVE  WInv'
  <1>1. IInv' /\ Forward
    BY IdleCalm DEF SupplementNotDurable, WInv, Calm
  <1>2. "idle" \in Position
    BY DEF Position
  <1> QED BY <1>1, <1>2, HandlerStep DEF SupplementNotDurable, workers

LEMMA WSettleUndispatchable ==
  ASSUME WInv, NEW i \in Inputs, SettleUndispatchable(i)
  PROVE  WInv'
  <1>1. "failed" \in Outcome /\ "idle" \in Position /\ gw \in Gateways
    BY BoundTyped DEF Outcome, Position
  <1>2. IInv' /\ Forward
    BY <1>1, SetDeliveryCalm, IdleCalm DEF SettleUndispatchable, WInv, Calm
  <1> QED BY <1>1, <1>2, HandlerStep DEF SettleUndispatchable, workers

LEMMA WDeliverClaimed ==
  ASSUME WInv, NEW i \in Inputs, DeliverClaimed(i)
  PROVE  WInv'
  <1>1. IInv' /\ Forward
    BY IdleCalm DEF DeliverClaimed, WInv, Calm
  <1>2. "accepted" \in Position /\ given[i] = 0
    BY DEF Position, InsideGate, DeliverClaimed, WInv, HandlerOK
  <1> QED BY <1>1, <1>2, HandlerStep DEF DeliverClaimed

LEMMA WRefuseAccepted ==
  ASSUME WInv, NEW i \in Inputs, RefuseAccepted(i)
  PROVE  WInv'
  <1>1. IInv' /\ Forward
    BY IdleCalm DEF RefuseAccepted, WInv, Calm
  <1>2. "refused" \in Position
    BY DEF Position, InsideGate
  <1> QED BY <1>1, <1>2, HandlerStep DEF RefuseAccepted, workers

\* The outcome of an input that was not sent is stored or refused.
LEMMA UnsentFinish ==
  ASSUME IInv, NEW i \in Inputs, NEW r \in Runs \cup {NoRun}, FinishUnsent(i, r)
  PROVE  /\ IInv' /\ Forward /\ NobodyEnters /\ NobodyCompletes
         /\ \A j \in Inputs : j # i => rows'[j] = rows[j]
  <1>1. CASE FinishRuntime(i, r, "failed")
    BY <1>1, Finishes
  <1>2. CASE UNCHANGED vars
    BY <1>2, IdleCalm DEF Calm, vars
  <1> QED BY <1>1, <1>2 DEF FinishUnsent

\* The run a goroutine holds.
LEMMA HeldRun ==
  ASSUME WInv, NEW i \in Inputs
  PROVE  target[i].run \in Runs \cup {NoRun}
  BY DEF WInv, DTypeOK

LEMMA WMarkDelivery ==
  ASSUME WInv, NEW i \in Inputs, MarkDelivery(i)
  PROVE  WInv'
  <1> DEFINE r == bound[SessionOf[i]]
  <1>1. r \in Runs /\ gw \in Gateways /\ given[i] = 0
    BY BoundTyped DEF MarkDelivery, WInv, HandlerOK
  <1>2. "marked" \in Position /\ "refused" \in Position
    BY DEF Position, InsideGate
  <1>3. CASE MarkRunning(gw, i, r) /\ Move(i, "marked") /\ Note(i, i, r)
    <2>1. IInv' /\ Forward /\ rows'[i].rt = "running"
      BY <1>1, <1>3, Starts DEF WInv
    <2> QED BY <1>1, <1>2, <1>3, <2>1, NotesOne, HandlerStep DEF MarkDelivery, workers, Early
  <1>4. CASE FinishUnsent(i, target[i].run) /\ Move(i, "refused") /\ UNCHANGED target
    <2>1. IInv' /\ Forward
      BY <1>4, HeldRun, UnsentFinish DEF WInv
    <2> QED BY <1>2, <1>4, <2>1, HandlerStep DEF MarkDelivery, workers
  <1> QED BY <1>3, <1>4 DEF MarkDelivery

LEMMA WRefuseTurn ==
  ASSUME WInv, NEW i \in Inputs, RefuseTurn(i)
  PROVE  WInv'
  <1>1. IInv' /\ Forward
    BY HeldRun, UnsentFinish DEF RefuseTurn, WInv
  <1>2. "refused" \in Position
    BY DEF Position, InsideGate
  <1> QED BY <1>1, <1>2, HandlerStep DEF RefuseTurn, workers

LEMMA WNotTaken ==
  ASSUME WInv, NEW i \in Inputs, NEW p \in {"refused", "failed", "unknown"}, NotTaken(i, p)
  PROVE  WInv'
  <1>1. IInv' /\ Forward
    BY IdleCalm DEF NotTaken, WInv, Calm
  <1>2. p \in Position
    BY DEF Position, InsideGate
  <1> QED BY <1>1, <1>2, HandlerStep DEF NotTaken, workers

LEMMA WFinishInput ==
  ASSUME WInv, NEW i \in Inputs, FinishInputExecution(i)
  PROVE  WInv'
  <1> DEFINE st == IF pc[i] = "refused" THEN "failed" ELSE pc[i]
  <1>1. st \in Outcome /\ "idle" \in Position /\ gw \in Gateways
    BY BoundTyped DEF Outcome, Position, FinishInputExecution
  <1>2. SetDelivery(gw, i, st) \/ UNCHANGED vars
    BY DEF FinishInputExecution
  <1> HIDE DEF st
  <1>3. IInv' /\ Forward
    BY <1>1, <1>2, SetDeliveryCalm, IdleCalm DEF WInv, Calm
  <1> QED BY <1>1, <1>3, HandlerStep DEF FinishInputExecution, workers

LEMMA WDeliverFenced ==
  ASSUME WInv, NEW i \in Inputs, NEW f \in Inputs, NEW r \in Runs, DeliverFenced(i, f, r)
  PROVE  WInv'
  <1>1. IInv' /\ Forward /\ given' = given /\ served' = served
    BY IdleCalm DEF DeliverFenced, WInv, Calm, history
  <1>2. /\ pc' = [pc EXCEPT ![i] = "fresh"]
        /\ target' = [target EXCEPT ![i] = [row |-> f, run |-> r]]
        /\ bound' = [bound EXCEPT ![SessionOf[i]] = r]
        /\ used' = used \cup {r}
        /\ work' = WorkAfterTerminate(SessionOf[i])
        /\ UNCHANGED <<gw, spare, wake, peeked, ended, dones, seen, retry>>
    BY DEF DeliverFenced, Move, Note
  <1>3. "fresh" \in Position /\ SessionOf[i] \in Sessions /\ << >> \in Seq(Inputs)
    BY BoundTyped DEF Position, InsideGate
  <1>4. work' \in [Runs -> Seq(Inputs)]
    BY <1>2, <1>3 DEF WorkAfterTerminate, WInv, DTypeOK
  <1>5. target' \in [Inputs -> [row: Inputs \cup {NoInput}, run: Runs \cup {NoRun}]]
    BY <1>2 DEF WInv, DTypeOK
  <1>6. DTypeOK'
    BY <1>1, <1>2, <1>3, <1>4, <1>5 DEF WInv, DTypeOK, IInv
  <1>7. HandlerOK'
    <2>1. \A j \in Inputs : j # i => pc'[j] = pc[j] /\ target'[j] = target[j]
      BY <1>2 DEF WInv, DTypeOK
    <2>2. pc'[i] = "fresh" /\ target'[i].row = f /\ target'[i].run = r
      BY <1>2 DEF WInv, DTypeOK
    <2>3. \A j \in Inputs : pc[j] = "marked" => rows'[j].rt \notin Early
      BY <1>1 DEF WInv, HandlerOK, Forward
    <2> QED BY <1>1, <2>1, <2>2, <2>3 DEF WInv, HandlerOK
  <1>8. GivenOK'
    <2>1. \A q \in Runs : Working(q)' \subseteq Working(q) /\ Reported(q)' = Reported(q)
      BY <1>2, ItemsEmpty DEF Working, Reported, WorkAfterTerminate
    <2> QED BY <1>1, <1>2, <2>1 DEF WInv, GivenOK
  <1> QED BY <1>1, <1>2, <1>6, <1>7, <1>8, AheadKept DEF WInv, PeekOK

LEMMA WFreshStartFails ==
  ASSUME WInv, NEW i \in Inputs, NEW f \in Inputs, FreshStartFails(i, f)
  PROVE  WInv'
  <1> DEFINE s == SessionOf[i]
  <1>1. IInv' /\ Forward /\ given' = given /\ served' = served
    BY IdleCalm DEF FreshStartFails, WInv, Calm, history
  <1>2. s \in Sessions /\ "busy" \in Position /\ << >> \in Seq(Inputs)
    BY BoundTyped DEF Position
  <1>3. /\ Move(i, "busy") /\ CancelRetry(s)
        /\ bound' = bound \/ bound' = [bound EXCEPT ![s] = NoRun]
        /\ work' = work \/ work' = WorkAfterTerminate(s)
        /\ UNCHANGED <<gw, spare, target, wake, peeked, used, ended, dones, seen>>
    BY DEF FreshStartFails
  <1>4. pc' \in [Inputs -> Position] /\ HandlerOK'
    BY <1>1, <1>2, <1>3, Moves
  <1>5. retry' \in [Sessions -> Inputs \cup {NoInput}] /\ \A q \in Sessions : retry'[q] \in {retry[q], NoInput}
    BY <1>2, <1>3 DEF CancelRetry, WInv, DTypeOK
  <1>6. work' \in [Runs -> Seq(Inputs)] /\ bound' \in [Sessions -> Runs \cup {NoRun}]
    BY <1>2, <1>3 DEF WorkAfterTerminate, WInv, DTypeOK
  <1>7. DTypeOK'
    BY <1>1, <1>3, <1>4, <1>5, <1>6 DEF WInv, DTypeOK, IInv
  <1>8. GivenOK'
    <2>1. \A q \in Runs : Working(q)' \subseteq Working(q) /\ Reported(q)' = Reported(q)
      BY <1>3, ItemsEmpty DEF Working, Reported, WorkAfterTerminate
    <2> QED BY <1>1, <1>3, <1>5, <2>1 DEF WInv, GivenOK
  <1> QED BY <1>1, <1>3, <1>4, <1>7, <1>8, AheadKept DEF WInv, PeekOK

LEMMA WResume ==
  ASSUME WInv, NEW i \in Inputs, NEW r \in Runs, ResumeSession(i, r)
  PROVE  WInv'
  <1>1. IInv' /\ Forward
    BY IdleCalm DEF ResumeSession, WInv, Calm
  <1>2. /\ bound' = [bound EXCEPT ![SessionOf[i]] = r] /\ used' = used \cup {r}
        /\ UNCHANGED <<gw, spare, pc, target, wake, peeked, ended, work, dones, seen, retry,
                       given, served>>
    BY DEF ResumeSession, handler, history
  <1>3. SessionOf[i] \in Sessions
    BY BoundTyped
  <1>4. DTypeOK'
    BY <1>1, <1>2, <1>3 DEF WInv, DTypeOK, IInv
  <1>5. GivenOK'
    BY <1>2, <1>3, Holding DEF WInv
  <1> QED BY <1>1, <1>2, <1>4, <1>5, AheadKept, Rests DEF WInv, PeekOK

\* A step of the dispatcher: only the queue, the wake-ups and what it read.
LEMMA DispatcherStep ==
  ASSUME WInv, IInv', Forward, HandlerOK', pc' \in [Inputs -> Position],
         NEW s \in Sessions, NEW i \in Inputs \cup {NoInput}, i # NoInput => SessionOf[i] = s,
         peeked' = [peeked EXCEPT ![s] = i] \/ peeked' = peeked, wake' \subseteq wake,
         target' = target \/ \E j \in Inputs : Noted(j),
         UNCHANGED <<gw, spare, workers, history>>
  PROVE  WInv'
  <1>1. UNCHANGED <<bound, used, ended, work, dones, seen, retry, given, served>>
    BY DEF workers, history
  <1>2. peeked' \in [Sessions -> Inputs \cup {NoInput}] /\ PeekOK'
    BY DEF WInv, DTypeOK, PeekOK
  <1>3. DTypeOK'
    BY <1>1, <1>2 DEF WInv, DTypeOK, IInv, Noted
  <1>4. GivenOK'
    BY <1>1, Holding DEF WInv
  <1> QED BY <1>1, <1>2, <1>3, <1>4, AheadKept DEF WInv

LEMMA WPeek ==
  ASSUME WInv, NEW s \in Sessions, PeekQueue(s)
  PROVE  WInv'
  <1>1. /\ wake' \subseteq wake
        /\ UNCHANGED <<gw, spare, target, workers, history>> /\ pc' = pc
    BY DEF PeekQueue
  <1>2. given' = given /\ target' = target
    BY <1>1 DEF history
  <1>3. CASE UNCHANGED <<vars, peeked>>
    <2>1. IInv' /\ Forward
      BY <1>3, IdleCalm DEF WInv, Calm
    <2>2. pc' \in [Inputs -> Position] /\ HandlerOK'
      BY <1>1, <1>2, <2>1, Rests
    <2> QED BY <1>1, <1>3, <2>1, <2>2, DispatcherStep
  <1>4. ASSUME NEW i \in QueueOf(s), peeked' = [peeked EXCEPT ![s] = i], UNCHANGED vars
        PROVE  WInv'
    <2>1. IInv' /\ Forward
      BY <1>4, IdleCalm DEF WInv, Calm
    <2>2. pc' \in [Inputs -> Position] /\ HandlerOK'
      BY <1>1, <1>2, <2>1, Rests
    <2>3. i \in Inputs /\ SessionOf[i] = s
      BY <1>4 DEF QueueOf
    <2> QED BY <1>1, <1>4, <2>1, <2>2, <2>3, DispatcherStep
  <1>5. ASSUME NEW i \in QueueOf(s), CancelQueued(i), UNCHANGED peeked
        PROVE  WInv'
    <2>1. {i} \in SUBSET Inputs
      BY <1>5 DEF QueueOf
    <2>2. IInv' /\ Forward
      BY <1>5, <2>1, SettleCalm DEF WInv, Calm, CancelQueued
    <2>3. pc' \in [Inputs -> Position] /\ HandlerOK'
      BY <1>1, <1>2, <2>2, Rests
    <2> QED BY <1>1, <1>5, <2>2, <2>3, DispatcherStep
  <1> QED BY <1>3, <1>4, <1>5 DEF PeekQueue

LEMMA WClaimHead ==
  ASSUME WInv, NEW s \in Sessions, ClaimHead(s)
  PROVE  WInv'
  <1> DEFINE i == peeked[s]
  <1>1. /\ i # NoInput /\ peeked' = [peeked EXCEPT ![s] = NoInput]
        /\ UNCHANGED <<gw, spare, wake, workers, history>>
    BY DEF ClaimHead
  <1>2. /\ given' = given /\ i \in Inputs /\ gw \in Gateways
        /\ bound[s] \in Runs \cup {NoRun}
    BY <1>1 DEF WInv, DTypeOK, history
  <1> HIDE DEF i
  <1>3. CASE ClaimQueued(gw, i, bound[s], 0) /\ Move(i, "claimed") /\ Note(i, i, bound[s])
    <2>1. IInv' /\ Forward /\ rows[i].rt \in {"none", "queued"}
      BY <1>2, <1>3, TakesSlot DEF WInv
    <2>2. given[i] = 0 /\ "claimed" \in Position
      BY <1>2, <2>1, NotYetGiven DEF Early, Position
    <2>3. Noted(i)
      BY <1>2, <1>3, NotesOne
    <2>4. pc' \in [Inputs -> Position] /\ HandlerOK'
      BY <1>1, <1>2, <1>3, <2>1, <2>2, <2>3, Moves
    <2>5. target' = target \/ \E j \in Inputs : Noted(j)
      BY <1>2, <2>3
    <2>6. UNCHANGED <<gw, spare, workers, history>> /\ wake' \subseteq wake
      BY <1>1
    <2>7. ASSUME NEW j \in Inputs \cup {NoInput}, j = NoInput PROVE WInv'
      <3>1. j # NoInput => SessionOf[j] = s
        BY <2>7
      <3>2. peeked' = [peeked EXCEPT ![s] = j] \/ peeked' = peeked
        BY <1>1, <2>7
      <3> QED BY <2>1, <2>4, <2>5, <2>6, <3>1, <3>2, DispatcherStep
    <2> QED BY <2>7
  <1>4. CASE UNCHANGED <<vars, pc, target>>
    <2>1. IInv' /\ Forward
      BY <1>4, IdleCalm DEF WInv, Calm
    <2>2. pc' \in [Inputs -> Position] /\ HandlerOK'
      BY <1>1, <1>2, <1>4, <2>1, Rests
    <2> QED BY <1>1, <1>4, <2>1, <2>2, DispatcherStep
  <1> QED BY <1>3, <1>4 DEF ClaimHead, i

-----------------------------------------------------------------------------
(* Write ahead: the parts of WInv under the steps of workers and forwarders. *)

\* What a run holds and has reported, for the types of WInv.
LEMMA Streams ==
  ASSUME WInv, NEW r \in Runs
  PROVE  work[r] \in Seq(Inputs) /\ dones[r] \in Seq(Report)
         /\ Working(r) \subseteq Inputs /\ Reported(r) \subseteq Inputs
  <1>1. work[r] \in Seq(Inputs) /\ dones[r] \in Seq(Report)
    BY DEF WInv, DTypeOK, Report
  <1> QED BY <1>1, ItemsTyped, NamedTyped DEF Working, Reported

\* A step of workers, forwarders or the stop command that gives nothing away.
LEMMA WorkerStep ==
  ASSUME WInv, IInv', Forward,
         UNCHANGED <<gw, spare, pc, target, peeked, given>>,
         wake' \subseteq Sessions, bound' \in [Sessions -> Runs \cup {NoRun}],
         used' \subseteq Runs, ended' \subseteq Runs,
         work' \in [Runs -> Seq(Inputs)], dones' \in [Runs -> Seq(Report)],
         seen' \in [Runs -> [input: Inputs, status: Delivery] \cup {NoInput}],
         retry' \in [Sessions -> Inputs \cup {NoInput}], served' \subseteq Inputs,
         \A r \in Runs :
           /\ (Working(r) \cup Reported(r))' \subseteq Working(r) \cup Reported(r)
           /\ seen'[r] # NoInput => dones'[r] # << >>,
         \A s \in Sessions : retry'[s] \in {retry[s], NoInput} \/ given[retry'[s]] > 0
  PROVE  WInv'
  <1>1. DTypeOK'
    BY DEF WInv, DTypeOK, IInv, Report
  <1>2. GivenOK'
    BY DEF WInv, GivenOK
  <1>3. HandlerOK'
    BY Rests
  <1> QED BY <1>1, <1>2, <1>3, AheadKept DEF WInv, PeekOK

LEMMA CancelTyped ==
  ASSUME WInv, NEW s \in Sessions, retry' = retry \/ CancelRetry(s)
  PROVE  /\ retry' \in [Sessions -> Inputs \cup {NoInput}]
         /\ \A t \in Sessions : retry'[t] \in {retry[t], NoInput}
  BY DEF WInv, DTypeOK, CancelRetry

LEMMA WWorkerDone ==
  ASSUME WInv, NEW r \in Runs, NEW ok \in BOOLEAN, WorkerDone(r, ok)
  PROVE  WInv'
  <1> DEFINE d == Head(work[r])
             x == [input |-> d, ok |-> ok]
  <1>1. /\ work[r] # << >> /\ work' = [work EXCEPT ![r] = Tail(work[r])]
        /\ dones' = [dones EXCEPT ![r] = Append(dones[r], x)]
        /\ served' \subseteq served \cup {d}
        /\ UNCHANGED <<vars, gw, spare, handler, bound, used, ended, seen, retry, given>>
    BY DEF WorkerDone
  <1>2. work[r] \in Seq(Inputs) /\ dones[r] \in Seq(Report)
    BY Streams
  <1>3. d \in Inputs /\ Tail(work[r]) \in Seq(Inputs) /\ Items(work[r]) = Items(Tail(work[r])) \cup {d}
    BY <1>1, <1>2, ItemsTail, ItemsTyped
  <1> HIDE DEF d
  <1>4. x \in Report /\ x.input = d
    BY <1>3 DEF Report
  <1> HIDE DEF x
  <1>5. Append(dones[r], x) \in Seq(Report) /\ Append(dones[r], x) # << >>
        /\ Named(Append(dones[r], x)) = Named(dones[r]) \cup {d}
    BY <1>2, <1>4, NamedAppend
  <1>6. work \in [Runs -> Seq(Inputs)] /\ dones \in [Runs -> Seq(Report)]
    BY DEF WInv, DTypeOK, Report
  <1>7. \A q \in Runs :
          /\ (Working(q) \cup Reported(q))' \subseteq Working(q) \cup Reported(q)
          /\ seen'[q] # NoInput => dones'[q] # << >>
    BY <1>1, <1>3, <1>5, <1>6 DEF Working, Reported, WInv, GivenOK
  <1>8. IInv' /\ Forward
    BY <1>1, IdleCalm DEF WInv, Calm
  <1>9. work' \in [Runs -> Seq(Inputs)] /\ dones' \in [Runs -> Seq(Report)]
    BY <1>1, <1>3, <1>5, <1>6
  <1> QED BY <1>1, <1>3, <1>7, <1>8, <1>9, WorkerStep DEF WInv, DTypeOK, handler

LEMMA WReadOpen ==
  ASSUME WInv, NEW s \in Sessions, NEW r \in Runs, ReadOpen(s, r)
  PROVE  WInv'
  <1>1. /\ dones[r] # << >> /\ IInv' /\ Forward
        /\ UNCHANGED <<vars, gw, spare, handler, bound, used, work, retry, history>>
    BY IdleCalm DEF ReadOpen, WInv, Calm
  <1>2. dones[r] \in Seq(Report) /\ dones \in [Runs -> Seq(Report)]
    BY Streams DEF WInv, DTypeOK, Report
  <1>3. CASE /\ dones' = [dones EXCEPT ![r] = Tail(@)]
             /\ ended' = ended \cup {r}
             /\ UNCHANGED seen
             /\ seen[r] = NoInput
    <2>1. Tail(dones[r]) \in Seq(Report) /\ Named(Tail(dones[r])) \subseteq Named(dones[r])
      BY <1>1, <1>2, NamedTail
    <2>2. dones' \in [Runs -> Seq(Report)]
      BY <1>2, <1>3, <2>1
    <2>3. \A q \in Runs :
            /\ (Working(q) \cup Reported(q))' \subseteq Working(q) \cup Reported(q)
            /\ seen'[q] # NoInput => dones'[q] # << >>
      BY <1>1, <1>2, <1>3, <2>1 DEF Working, Reported, WInv, GivenOK
    <2> QED BY <1>1, <1>3, <2>2, <2>3, WorkerStep DEF WInv, DTypeOK, handler, history
  <1>4. ASSUME NEW i \in OpenBySession(s),
               seen' = [seen EXCEPT ![r] = [input |-> i, status |-> rows[i].status]],
               UNCHANGED <<dones, ended>>
        PROVE  WInv'
    <2>1. i \in Inputs /\ rows[i].status \in Delivery
      BY <1>4, RowFacts DEF OpenBySession, Row, WInv
    <2>2. seen' \in [Runs -> [input: Inputs, status: Delivery] \cup {NoInput}]
      BY <1>4, <2>1 DEF WInv, DTypeOK
    <2>3. \A q \in Runs :
            /\ (Working(q) \cup Reported(q))' \subseteq Working(q) \cup Reported(q)
            /\ seen'[q] # NoInput => dones'[q] # << >>
      <3>1. \A q \in Runs : q # r => seen'[q] = seen[q]
        BY <1>4 DEF WInv, DTypeOK
      <3> QED BY <1>1, <1>4, <3>1 DEF Working, Reported, WInv, GivenOK
    <2> QED BY <1>1, <1>4, <2>2, <2>3, <1>2, WorkerStep DEF WInv, DTypeOK, handler, history
  <1> QED BY <1>3, <1>4 DEF ReadOpen

\* The row a Done event finishes, with its delivery converged or not.
LEMMA DoneRow ==
  ASSUME IInv, NEW i \in Inputs, NEW r \in Runs, NEW st \in {"completed", "failed"},
         Takes(i, r, st), NEW q,
         \/ q = Finished(rows[i], st)
         \/ q = [Finished(rows[i], st) EXCEPT !.status = "unknown"],
         rows' = [rows EXCEPT ![i] = q],
         UNCHANGED <<queue, nextSeq, budget, open, now>>
  PROVE  /\ IInv' /\ Forward /\ NobodyEnters
         /\ rows'[i].rt = st /\ ~Holds(rows'[i])
         /\ \A j \in Inputs : j # i => rows'[j] = rows[j]
  <1> DEFINE after == Finished(rows[i], st)
  <1>1. rows[i] \in Row /\ FenceOK(rows[i]) /\ rows \in [Inputs -> Row]
    BY RowFacts DEF IInv, TypeOK
  <1>2. rows[i].rt \in {"pending", "running", "unknown"} /\ rows[i].run = r
    BY DEF Takes, FinishableTo
  <1>3. /\ after \in Row /\ after.rt = st /\ after.run = rows[i].run
        /\ after.fence = "none" /\ after.fver = rows[i].fver
    BY <1>1, FinishedRow
  <1> HIDE DEF after
  <1>4. [after EXCEPT !.status = "unknown"] \in Row
        /\ [after EXCEPT !.status = "unknown"].rt = after.rt
        /\ [after EXCEPT !.status = "unknown"].run = after.run
        /\ [after EXCEPT !.status = "unknown"].fence = after.fence
        /\ [after EXCEPT !.status = "unknown"].fver = after.fver
    BY <1>3, Zenon DEF Row, Delivery
  <1>5. /\ q \in Row /\ q.rt = st /\ q.run = rows[i].run
        /\ q.fence = "none" /\ q.fver = rows[i].fver
    BY <1>3, <1>4 DEF after
  <1>6. \A j \in Inputs : j # i => rows'[j] = rows[j]
    BY <1>1
  <1>7. rows'[i] = q /\ rows' \in [Inputs -> Row]
    BY <1>1, <1>5
  <1>8. FenceOK(rows'[i]) /\ ~Holds(rows'[i])
    BY <1>1, <1>5, <1>7 DEF FenceOK, Holds
  <1>9. \A j \in Inputs : /\ Holds(rows'[j]) => Holds(rows[j])
                          /\ FenceOK(rows'[j])
                          /\ rows'[j].rt = "queued" <=> rows[j].rt = "queued"
                          /\ rows[j].rt = "queued" => rows'[j] = rows[j]
    BY <1>2, <1>5, <1>6, <1>7, <1>8, RowFacts
  <1>10. IInv'
    BY <1>7, <1>9, QuietRows
  <1> QED BY <1>1, <1>2, <1>5, <1>6, <1>7, <1>8, <1>10 DEF Forward, NobodyEnters, Early

\* What finishRuntimeOnDone does to the rows.
LEMMA DoneRows ==
  ASSUME WInv, NEW s \in Sessions, NEW r \in Runs, FinishDone(s, r)
  PROVE  /\ IInv' /\ Forward /\ NobodyEnters
         /\ seen[r].input \in Inputs
         /\ \A j \in Inputs : j # seen[r].input => rows'[j] = rows[j]
         /\ \/ rows' = rows
            \/ /\ rows[seen[r].input].run = r
               /\ rows[seen[r].input].rt \in {"pending", "running", "unknown"}
               /\ rows'[seen[r].input].rt = (IF Head(dones[r]).ok THEN "completed" ELSE "failed")
               /\ ~Holds(rows'[seen[r].input])
  <1> DEFINE i == seen[r].input
             st == IF Head(dones[r]).ok THEN "completed" ELSE "failed"
  <1>1. i \in Inputs /\ st \in {"completed", "failed"} /\ IInv
    BY DEF FinishDone, WInv, DTypeOK
  <1>2. UNCHANGED <<queue, nextSeq, budget, open, now>>
    BY DEF FinishDone
  <1>3. CASE Takes(i, r, st)
    <2>1. \/ rows' = [rows EXCEPT ![i] = Finished(rows[i], st)]
          \/ rows' = [rows EXCEPT ![i] = [Finished(rows[i], st) EXCEPT !.status = "unknown"]]
      BY <1>3 DEF FinishDone
    <2>2. rows[i].run = r /\ rows[i].rt \in {"pending", "running", "unknown"}
      BY <1>1, <1>3 DEF Takes, FinishableTo
    <2> HIDE DEF i, st
    <2>3. /\ IInv' /\ Forward /\ NobodyEnters
          /\ rows'[i].rt = st /\ ~Holds(rows'[i])
          /\ \A j \in Inputs : j # i => rows'[j] = rows[j]
      BY <1>1, <1>2, <1>3, <2>1, DoneRow
    <2> QED BY <1>1, <2>2, <2>3 DEF i, st
  <1>4. CASE ~Takes(i, r, st)
    <2>1. rows' = rows
      BY <1>4 DEF FinishDone
    <2>2. IInv' /\ Forward /\ NobodyEnters
      BY <1>1, <1>2, <2>1, IdleCalm DEF Calm, vars
    <2> QED BY <1>1, <2>1, <2>2
  <1> QED BY <1>3, <1>4

\* What finishRuntimeOnDone does to the forwarder.
LEMMA DoneTaken ==
  ASSUME WInv, NEW s \in Sessions, NEW r \in Runs, FinishDone(s, r)
  PROVE  /\ dones[r] # << >> /\ dones[r] \in Seq(Report)
         /\ dones' = [dones EXCEPT ![r] = Tail(dones[r])] /\ dones' \in [Runs -> Seq(Report)]
         /\ Reported(r) = Reported(r)' \cup {Head(dones[r]).input}
         /\ \A q \in Runs : q # r => Reported(q)' = Reported(q)
         /\ \A q \in Runs : Working(q)' = Working(q)
         /\ seen' = [seen EXCEPT ![r] = NoInput]
         /\ UNCHANGED <<gw, spare, pc, target, peeked, bound, used, work, given, served>>
  <1>1. /\ dones' = [dones EXCEPT ![r] = Tail(dones[r])]
        /\ seen' = [seen EXCEPT ![r] = NoInput] /\ seen[r] # NoInput
        /\ UNCHANGED <<gw, spare, pc, target, peeked, bound, used, work, given, served>>
    BY DEF FinishDone, history
  <1>2. dones[r] # << >> /\ dones[r] \in Seq(Report) /\ dones \in [Runs -> Seq(Report)]
    BY <1>1, Streams DEF WInv, GivenOK, DTypeOK, Report
  <1>3. Named(dones[r]) = Named(Tail(dones[r])) \cup {Head(dones[r]).input}
        /\ Tail(dones[r]) \in Seq(Report)
    BY <1>2, NamedTail
  <1>4. dones' \in [Runs -> Seq(Report)]
    BY <1>1, <1>2, <1>3
  <1> QED BY <1>1, <1>2, <1>3, <1>4 DEF Reported, Working

LEMMA WFinishDone ==
  ASSUME WInv, NEW s \in Sessions, NEW r \in Runs, FinishDone(s, r)
  PROVE  WInv'
  <1>1. IInv' /\ Forward
    BY DoneRows
  <1>2. wake' \subseteq Sessions /\ ended' \subseteq Runs
    BY DEF FinishDone, WInv, DTypeOK
  <1>3. /\ dones[r] # << >> /\ dones[r] \in Seq(Report) /\ dones' \in [Runs -> Seq(Report)]
        /\ dones' = [dones EXCEPT ![r] = Tail(dones[r])]
        /\ seen' = [seen EXCEPT ![r] = NoInput]
        /\ UNCHANGED <<gw, spare, pc, target, peeked, bound, used, work, given, served>>
        /\ \A q \in Runs : (Working(q) \cup Reported(q))' \subseteq Working(q) \cup Reported(q)
    BY DoneTaken
  <1>4. Head(dones[r]).input \in Reported(r) /\ Head(dones[r]).input \in Inputs
    BY <1>3, NamedTyped DEF Reported
  <1>5. given[Head(dones[r]).input] > 0
    BY <1>4 DEF WInv, GivenOK
  <1>6. retry' = retry \/ retry' = [retry EXCEPT ![s] = Head(dones[r]).input]
    BY DEF FinishDone
  <1>7. retry' \in [Sessions -> Inputs \cup {NoInput}]
        /\ \A t \in Sessions : retry'[t] \in {retry[t], NoInput} \/ given[retry'[t]] > 0
    BY <1>4, <1>5, <1>6 DEF WInv, DTypeOK
  <1>8. seen' \in [Runs -> [input: Inputs, status: Delivery] \cup {NoInput}]
        /\ \A q \in Runs : seen'[q] # NoInput => dones'[q] # << >>
    <2>1. \A q \in Runs : q # r => seen'[q] = seen[q] /\ dones'[q] = dones[q]
      BY <1>3 DEF WInv, DTypeOK
    <2>2. seen'[r] = NoInput
      BY <1>3 DEF WInv, DTypeOK
    <2> QED BY <1>3, <2>1, <2>2 DEF WInv, DTypeOK, GivenOK
  <1> QED BY <1>1, <1>2, <1>3, <1>7, <1>8, WorkerStep DEF WInv, DTypeOK

\* The input a run is given joins what its worker holds.
LEMMA SendFacts ==
  ASSUME WInv, NEW i \in Inputs, NEW r \in Runs, SendTo(r, i)
  PROVE  /\ given[i] < MaxGiven /\ given' = [given EXCEPT ![i] = @ + 1]
         /\ work' = [work EXCEPT ![r] = Append(work[r], i)]
         /\ work' \in [Runs -> Seq(Inputs)]
         /\ Working(r)' = Working(r) \cup {i}
         /\ \A q \in Runs : q # r => Working(q)' = Working(q)
  <1>1. /\ given[i] < MaxGiven /\ given' = [given EXCEPT ![i] = @ + 1]
        /\ work' = [work EXCEPT ![r] = Append(work[r], i)]
    BY DEF SendTo
  <1>2. work[r] \in Seq(Inputs) /\ work \in [Runs -> Seq(Inputs)]
    BY Streams DEF WInv, DTypeOK
  <1>3. Append(work[r], i) \in Seq(Inputs) /\ Items(Append(work[r], i)) = Items(work[r]) \cup {i}
    BY <1>2, ItemsAppend
  <1>4. work' \in [Runs -> Seq(Inputs)]
    BY <1>1, <1>2, <1>3
  <1> QED BY <1>1, <1>2, <1>3, <1>4 DEF Working

\* An input is sent to a run: it has been given before, or the ledger has its
\* run and it now has been given once.
LEMMA Sends ==
  ASSUME WInv, IInv', UNCHANGED <<rows, gw, spare, target, peeked, served>>,
         NEW i \in Inputs, rows[i].run # NoRun /\ rows[i].rt \notin Early,
         given[i] < MaxGiven, given' = [given EXCEPT ![i] = @ + 1],
         work' \in [Runs -> Seq(Inputs)],
         \A q \in Runs : Working(q)' \subseteq Working(q) \cup {i},
         pc' \in [Inputs -> Position],
         \A j \in Inputs : pc'[j] = "fresh" => pc[j] = "fresh",
         \A j \in Inputs : pc'[j] \in {"claimed", "accepted", "marked"} => pc[j] = pc'[j] /\ j # i,
         wake' \subseteq Sessions, bound' \in [Sessions -> Runs \cup {NoRun}],
         used' \subseteq Runs, ended' \subseteq Runs, UNCHANGED <<dones, seen>>,
         \A s \in Sessions : retry'[s] \in {retry[s], NoInput},
         retry' \in [Sessions -> Inputs \cup {NoInput}]
  PROVE  WInv'
  <1>2. given \in [Inputs -> 0..MaxGiven] /\ MaxGiven \in Nat
    BY DeliveryAssumption DEF WInv, DTypeOK, DeliveryAssumption
  <1>3. given' \in [Inputs -> 0..MaxGiven] /\ given'[i] > 0
        /\ \A j \in Inputs : j # i => given'[j] = given[j]
    BY <1>2
  <1>7. \A q \in Runs : Reported(q)' = Reported(q)
    BY DEF Reported
  <1>8. DTypeOK'
    BY <1>3 DEF WInv, DTypeOK, IInv
  <1>9. GivenOK'
    <2>1. \A q \in Runs : \A d \in (Working(q) \cup Reported(q))' : given'[d] > 0
      <3>1. SUFFICES ASSUME NEW q \in Runs, NEW d \in (Working(q) \cup Reported(q))', d # i
                     PROVE  given'[d] > 0
        BY <1>3
      <3>2. d \in Working(q) \cup Reported(q) /\ d \in Inputs
        BY <1>7, <3>1, Streams
      <3> QED BY <1>3, <3>1, <3>2 DEF WInv, GivenOK
    <2>2. \A s \in Sessions : retry'[s] # NoInput => given'[retry'[s]] > 0
      <3>1. SUFFICES ASSUME NEW s \in Sessions, retry'[s] # NoInput
                     PROVE  given'[retry'[s]] > 0
        OBVIOUS
      <3>2. retry'[s] = retry[s] /\ retry[s] \in Inputs /\ given[retry[s]] > 0
        BY <3>1 DEF WInv, GivenOK, DTypeOK
      <3> QED BY <1>3, <3>2
    <2> QED BY <2>1, <2>2 DEF WInv, GivenOK
  <1>10. WriteAhead'
    BY <1>3 DEF WInv, WriteAhead, Early
  <1>11. HandlerOK'
    BY <1>3 DEF WInv, HandlerOK
  <1> QED BY <1>8, <1>9, <1>10, <1>11 DEF WInv, PeekOK

LEMMA WDispatch ==
  ASSUME WInv, NEW i \in Inputs, NEW p \in {"delivered", "failed", "unknown"}, Dispatch(i, p)
  PROVE  WInv'
  <1> DEFINE r == bound[SessionOf[i]]
  <1>1. r \in Runs /\ rows[i].run # NoRun /\ rows[i].rt \notin Early
    BY BoundTyped DEF Dispatch, WInv, HandlerOK
  <1>2. /\ SendTo(r, i) /\ pc' = [pc EXCEPT ![i] = p] /\ ended' \subseteq ended
        /\ UNCHANGED <<vars, gw, spare, target, wake, peeked, bound, used, dones, seen, retry, served>>
    BY DEF Dispatch, Move
  <1> HIDE DEF r
  <1>3. p \in Position /\ pc \in [Inputs -> Position]
    BY DEF Position, InsideGate, WInv, DTypeOK
  <1>4. /\ pc' \in [Inputs -> Position]
        /\ \A j \in Inputs : pc'[j] = "fresh" => pc[j] = "fresh"
        /\ \A j \in Inputs : pc'[j] \in {"claimed", "accepted", "marked"} => pc[j] = pc'[j] /\ j # i
    BY <1>2, <1>3
  <1>5. IInv' /\ rows' = rows
    BY <1>2, IdleCalm DEF WInv, Calm, vars
  <1>6. /\ given[i] < MaxGiven /\ given' = [given EXCEPT ![i] = @ + 1]
        /\ work' \in [Runs -> Seq(Inputs)]
        /\ \A q \in Runs : Working(q)' \subseteq Working(q) \cup {i}
    BY <1>1, <1>2, SendFacts
  <1> QED BY <1>1, <1>2, <1>4, <1>5, <1>6, Sends DEF WInv, DTypeOK

LEMMA WRetryFires ==
  ASSUME WInv, NEW s \in Sessions, RetryFires(s)
  PROVE  WInv'
  <1> DEFINE r == bound[s]
             i == retry[s]
  <1>1. /\ r \in Runs /\ i \in Inputs /\ given[i] > 0
    BY DEF RetryFires, WInv, DTypeOK, GivenOK
  <1>2. rows[i].run # NoRun /\ rows[i].rt \notin Early
    BY <1>1 DEF WInv, WriteAhead, Early
  <1>3. /\ SendTo(r, i) /\ CancelRetry(s)
        /\ UNCHANGED <<vars, gw, spare, handler, bound, used, ended, dones, seen, served>>
    BY DEF RetryFires
  <1> HIDE DEF r, i
  <1>4. IInv' /\ rows' = rows /\ UNCHANGED <<pc, target, wake, peeked>>
    BY <1>3, IdleCalm DEF WInv, Calm, vars, handler
  <1>5. pc[i] \notin {"claimed", "accepted", "marked"}
    BY <1>1 DEF WInv, HandlerOK
  <1>6. /\ given[i] < MaxGiven /\ given' = [given EXCEPT ![i] = @ + 1]
        /\ work' \in [Runs -> Seq(Inputs)]
        /\ \A q \in Runs : Working(q)' \subseteq Working(q) \cup {i}
    BY <1>1, <1>3, SendFacts
  <1> QED BY <1>1, <1>2, <1>3, <1>4, <1>5, <1>6, CancelTyped, Sends DEF WInv, DTypeOK

LEMMA WWorkerCrash ==
  ASSUME WInv, NEW s \in Sessions, WorkerCrash(s)
  PROVE  WInv'
  <1> DEFINE r == bound[s]
  <1>1. /\ bound' = [bound EXCEPT ![s] = NoRun]
        /\ work' = [work EXCEPT ![r] = << >>]
        /\ CancelRetry(s)
        /\ UNCHANGED <<vars, gw, spare, handler, used, ended, dones, seen, history>>
    BY DEF WorkerCrash
  <1>2. IInv' /\ Forward /\ UNCHANGED <<pc, target, wake, peeked, given, served>>
    BY <1>1, IdleCalm DEF WInv, Calm, handler, history
  <1>3. work' \in [Runs -> Seq(Inputs)] /\ bound' \in [Sessions -> Runs \cup {NoRun}]
    <2>1. << >> \in Seq(Inputs)
      OBVIOUS
    <2>2. work \in [Runs -> Seq(Inputs)] /\ bound \in [Sessions -> Runs \cup {NoRun}]
      BY DEF WInv, DTypeOK
    <2> QED BY <1>1, <2>1, <2>2
  <1>4. \A q \in Runs : Working(q)' \subseteq Working(q) /\ Reported(q)' = Reported(q)
    BY <1>1, ItemsEmpty DEF Working, Reported, WInv, DTypeOK
  <1> QED BY <1>1, <1>2, <1>3, <1>4, CancelTyped, WorkerStep DEF WInv, DTypeOK, GivenOK, Report

LEMMA WCrashFallback ==
  ASSUME WInv, NEW s \in Sessions, NEW q \in Runs, CrashFallback(s, q)
  PROVE  WInv'
  <1> DEFINE r == bound[s]
             lost == Head(work[r])
  <1>1. /\ r # NoRun /\ work[r] # << >> /\ given[lost] < MaxGiven
        /\ bound' = [bound EXCEPT ![s] = q] /\ used' = used \cup {q}
        /\ work' = [work EXCEPT ![r] = << >>, ![q] = <<lost>>]
        /\ given' = [given EXCEPT ![lost] = @ + 1]
        /\ CancelRetry(s)
        /\ UNCHANGED <<vars, gw, spare, handler, ended, dones, seen, served>>
    BY DEF CrashFallback
  <1>2. r \in Runs
    BY <1>1 DEF WInv, DTypeOK
  <1>3. lost \in Inputs /\ lost \in Working(r)
    BY <1>1, <1>2, Streams, ItemsTyped DEF Working
  <1>4. given[lost] > 0
    BY <1>2, <1>3 DEF WInv, GivenOK
  <1>5. /\ rows[lost].run # NoRun /\ rows[lost].rt \notin Early
        /\ pc[lost] \notin {"claimed", "accepted", "marked"}
    BY <1>3, <1>4 DEF WInv, WriteAhead, HandlerOK, Early
  <1> HIDE DEF r, lost
  <1>6. work \in [Runs -> Seq(Inputs)] /\ << >> \in Seq(Inputs) /\ <<lost>> \in Seq(Inputs)
    BY <1>3 DEF WInv, DTypeOK
  <1>7. work' \in [Runs -> Seq(Inputs)]
    BY <1>1, <1>2, <1>6
  <1>8. \A p \in Runs : Working(p)' \subseteq Working(p) \cup {lost}
    BY <1>1, <1>2, <1>6, ItemsEmpty, ItemsSingle DEF Working
  <1>9. IInv' /\ rows' = rows /\ UNCHANGED <<pc, target, wake, peeked>>
    BY <1>1, IdleCalm DEF WInv, Calm, vars, handler
  <1> QED BY <1>1, <1>3, <1>5, <1>7, <1>8, <1>9, CancelTyped, Sends DEF WInv, DTypeOK

\* What a deadline finds a run still to owe.
LEMMA HeadHeld ==
  ASSUME NEW q \in Seq(Report), NEW w \in Seq(Inputs), NEW h,
         h = [n \in DOMAIN q |-> q[n].input] \o w, h # << >>
  PROVE  Head(h) \in Named(q) \cup Items(w)
  <1> DEFINE f == [n \in 1..Len(q) |-> q[n].input]
  <1>1. Len(q) \in Nat /\ DOMAIN q = 1..Len(q) /\ \A n \in 1..Len(q) : q[n].input \in Inputs
    <2>1. Len(q) \in Nat /\ DOMAIN q = 1..Len(q) /\ \A n \in DOMAIN q : q[n].input \in Named(q)
      BY DEF Named
    <2> QED BY <2>1, NamedTyped
  <1>2. f \in Seq(Inputs) /\ Len(f) = Len(q) /\ h = f \o w
    BY <1>1
  <1>3. \A n \in 1..Len(f) : f[n] = q[n].input
    BY <1>2
  <1> HIDE DEF f
  <1>4. CASE Len(f) = 0
    <2>1. f = << >> /\ h = w
      BY <1>2, <1>4
    <2> QED BY <2>1, ItemsTyped
  <1>5. CASE Len(f) # 0
    <2>1. 1 \in 1..Len(f) /\ Head(h) = f[1]
      BY <1>1, <1>2, <1>5
    <2> QED BY <1>1, <1>2, <1>3, <2>1 DEF Named
  <1> QED BY <1>4, <1>5

\* What a deadline does to the worker and its stream.
LEMMA TimedOut ==
  ASSUME WInv, NEW s \in Sessions, TurnTimeout(s)
  PROVE  \E d \in Working(bound[s]) \cup Reported(bound[s]) :
           /\ bound[s] \in Runs /\ d \in Inputs /\ seen[bound[s]] = NoInput
           /\ bound' = [bound EXCEPT ![s] = NoRun]
           /\ work' = [work EXCEPT ![bound[s]] = << >>]
           /\ dones' = [dones EXCEPT ![bound[s]] = <<[input |-> d, ok |-> FALSE]>>]
           /\ CancelRetry(s)
           /\ UNCHANGED <<vars, gw, spare, handler, used, ended, seen, history>>
  <1> DEFINE r == bound[s]
             held == [n \in DOMAIN dones[r] |-> dones[r][n].input] \o work[r]
  <1>1. r \in Runs
    BY DEF TurnTimeout, WInv, DTypeOK
  <1>2. Head(held) \in Working(r) \cup Reported(r)
    <2>1. held # << >>
      BY DEF TurnTimeout
    <2> QED BY <1>1, <2>1, Streams, HeadHeld DEF Working, Reported
  <1>3. Head(held) \in Inputs
    BY <1>1, <1>2, Streams
  <1>4. /\ seen[r] = NoInput
        /\ bound' = [bound EXCEPT ![s] = NoRun]
        /\ work' = [work EXCEPT ![r] = << >>]
        /\ dones' = [dones EXCEPT ![r] = <<[input |-> Head(held), ok |-> FALSE]>>]
        /\ CancelRetry(s)
        /\ UNCHANGED <<vars, gw, spare, handler, used, ended, seen, history>>
    BY DEF TurnTimeout
  <1> HIDE DEF held
  <1> QED BY <1>1, <1>2, <1>3, <1>4

LEMMA WTurnTimeout ==
  ASSUME WInv, NEW s \in Sessions, TurnTimeout(s)
  PROVE  WInv'
  <1> DEFINE r == bound[s]
  <1>1. PICK d \in Working(r) \cup Reported(r) :
          /\ r \in Runs /\ d \in Inputs /\ seen[r] = NoInput
          /\ bound' = [bound EXCEPT ![s] = NoRun]
          /\ work' = [work EXCEPT ![r] = << >>]
          /\ dones' = [dones EXCEPT ![r] = <<[input |-> d, ok |-> FALSE]>>]
          /\ CancelRetry(s)
          /\ UNCHANGED <<vars, gw, spare, handler, used, ended, seen, history>>
    BY TimedOut
  <1> HIDE DEF r
  <1>2. IInv' /\ Forward /\ UNCHANGED <<pc, target, wake, peeked, given, served>>
    BY <1>1, IdleCalm DEF WInv, Calm, handler, history
  <1> DEFINE x == [input |-> d, ok |-> FALSE]
  <1>3. x \in Report /\ x.input = d
    BY <1>1 DEF Report
  <1>4. dones' = [dones EXCEPT ![r] = <<x>>]
    BY <1>1
  <1> HIDE DEF x
  <1>5. /\ << >> \in Seq(Inputs) /\ <<x>> \in Seq(Report)
        /\ Items(<< >>) = {} /\ Named(<<x>>) = {d}
    BY <1>3, ItemsEmpty, NamedSingle
  <1>6. /\ work \in [Runs -> Seq(Inputs)] /\ dones \in [Runs -> Seq(Report)]
        /\ bound \in [Sessions -> Runs \cup {NoRun}]
    BY DEF WInv, DTypeOK, Report
  <1>7. /\ work' \in [Runs -> Seq(Inputs)] /\ dones' \in [Runs -> Seq(Report)]
        /\ bound' \in [Sessions -> Runs \cup {NoRun}]
    BY <1>1, <1>4, <1>5, <1>6
  <1>8. \A q \in Runs :
          /\ (Working(q) \cup Reported(q))' \subseteq Working(q) \cup Reported(q)
          /\ seen'[q] # NoInput => dones'[q] # << >>
    <2>1. SUFFICES ASSUME NEW q \in Runs
                   PROVE  /\ (Working(q) \cup Reported(q))' \subseteq Working(q) \cup Reported(q)
                          /\ seen'[q] # NoInput => dones'[q] # << >>
      OBVIOUS
    <2>2. CASE q = r
      BY <1>1, <1>4, <1>5, <1>6, <2>2 DEF Working, Reported
    <2>3. CASE q # r
      <3>1. work'[q] = work[q] /\ dones'[q] = dones[q] /\ seen'[q] = seen[q]
        BY <1>1, <1>4, <1>6, <2>3
      <3> QED BY <3>1 DEF Working, Reported, WInv, GivenOK
    <2> QED BY <2>2, <2>3
  <1> QED BY <1>1, <1>2, <1>7, <1>8, CancelTyped, WorkerStep DEF WInv, DTypeOK

\* What the stop command does to the rows.
LEMMA StopRows ==
  ASSUME WInv, NEW s \in Sessions, Stop(s)
  PROVE  /\ IInv' /\ Forward /\ NobodyEnters /\ NobodyCompletes
         /\ \/ NobodyLeaves
            \/ \E i \in Inputs : SessionOf[i] = s /\ \A j \in Inputs : j # i => rows'[j] = rows[j]
  <1>1. bound[s] \in Runs
    BY DEF Stop, WInv, DTypeOK
  <1>2. ASSUME NEW i \in OpenBySession(s), FinishRuntime(i, bound[s], "failed")
        PROVE  /\ IInv' /\ Forward /\ NobodyEnters /\ NobodyCompletes
               /\ i \in Inputs /\ SessionOf[i] = s
               /\ \A j \in Inputs : j # i => rows'[j] = rows[j]
    <2>1. i \in Inputs /\ SessionOf[i] = s
      BY <1>2 DEF OpenBySession
    <2> QED BY <1>1, <1>2, <2>1, Finishes DEF WInv
  <1>3. CASE UNCHANGED vars
    BY <1>3, IdleCalm DEF WInv, Calm
  <1> QED BY <1>2, <1>3 DEF Stop

LEMMA WStop ==
  ASSUME WInv, NEW s \in Sessions, Stop(s)
  PROVE  WInv'
  <1> DEFINE r == bound[s]
  <1>1. /\ r # NoRun /\ seen[r] = NoInput
        /\ bound' = [bound EXCEPT ![s] = NoRun]
        /\ work' = [work EXCEPT ![r] = << >>]
        /\ dones' = [dones EXCEPT ![r] = << >>]
        /\ CancelRetry(s)
        /\ UNCHANGED <<gw, spare, handler, used, ended, seen, history>>
    BY DEF Stop
  <1>2. IInv' /\ Forward /\ UNCHANGED <<pc, target, wake, peeked, given, served>>
    BY <1>1, StopRows DEF handler, history
  <1>3. /\ << >> \in Seq(Inputs) /\ << >> \in Seq(Report)
        /\ work \in [Runs -> Seq(Inputs)] /\ dones \in [Runs -> Seq(Report)]
        /\ bound \in [Sessions -> Runs \cup {NoRun}]
    <2>1. << >> \in Seq(Inputs) /\ << >> \in Seq(Report)
      OBVIOUS
    <2>2. /\ work \in [Runs -> Seq(Inputs)] /\ dones \in [Runs -> Seq(Report)]
          /\ bound \in [Sessions -> Runs \cup {NoRun}]
      BY DEF WInv, DTypeOK, Report
    <2> QED BY <2>1, <2>2
  <1>4. /\ work' \in [Runs -> Seq(Inputs)] /\ dones' \in [Runs -> Seq(Report)]
        /\ bound' \in [Sessions -> Runs \cup {NoRun}]
    BY <1>1, <1>3
  <1>5. \A q \in Runs :
          /\ (Working(q) \cup Reported(q))' \subseteq Working(q) \cup Reported(q)
          /\ seen'[q] # NoInput => dones'[q] # << >>
    BY <1>1, <1>3, ItemsEmpty, NamedEmpty DEF Working, Reported, WInv, GivenOK
  <1> QED BY <1>1, <1>2, <1>4, <1>5, CancelTyped, WorkerStep DEF WInv, DTypeOK

LEMMA WRestarted ==
  ASSUME WInv, NEW g \in Gateways, GatewayCrash(g) \/ GatewayShutdown(g)
  PROVE  WInv'
  <1>1. Restarted(g)
    BY DEF GatewayCrash, GatewayShutdown
  <1>2. IInv' /\ Forward
    <2>1. CASE UNCHANGED vars
      BY <2>1, IdleCalm DEF WInv, Calm
    <2>2. CASE TerminateOwnerLeases(gw)
      BY <2>2, TerminateCalm DEF WInv, Calm, DTypeOK
    <2> QED BY <2>1, <2>2 DEF GatewayCrash, GatewayShutdown
  <1>3. /\ gw' = g /\ spare' \subseteq spare
        /\ pc' = [i \in Inputs |-> "idle"]
        /\ target' = [i \in Inputs |-> [row |-> NoInput, run |-> NoRun]]
        /\ wake' = {} /\ peeked' = [s \in Sessions |-> NoInput]
        /\ bound' = [s \in Sessions |-> NoRun]
        /\ ended' = {}
        /\ work' = [r \in Runs |-> << >>] /\ dones' = [r \in Runs |-> << >>]
        /\ seen' = [r \in Runs |-> NoInput]
        /\ retry' = [s \in Sessions |-> NoInput]
        /\ UNCHANGED <<used, given, served>>
    BY <1>1 DEF Restarted, history
  <1>4. "idle" \in Position /\ << >> \in Seq(Inputs)
        /\ << >> \in Seq([input: Inputs, ok: BOOLEAN])
    BY DEF Position
  <1>5. DTypeOK'
    BY <1>2, <1>3, <1>4 DEF WInv, DTypeOK, IInv
  <1>6. HandlerOK' /\ PeekOK'
    BY <1>3 DEF HandlerOK, PeekOK
  <1>7. GivenOK'
    BY <1>3, ItemsEmpty, NamedEmpty DEF GivenOK, Working, Reported
  <1> QED BY <1>2, <1>3, <1>5, <1>6, <1>7, AheadKept DEF WInv

\* The background jobs touch only the ledger; but for an operator, none of them
\* concerns a turn.
LEMMA BackgroundRows ==
  ASSUME WInv, Background
  PROVE  IInv' /\ Forward /\ (~Operator => Calm)
  <1>1. gw \in Gateways /\ IInv /\ {} \in SUBSET Inputs
    BY DEF WInv, DTypeOK
  <1>2. CASE RenewLeases(gw, {})
    BY <1>1, <1>2, RenewCalm DEF Calm
  <1>3. CASE RecoverExpiredLeases
    BY <1>1, <1>3, RecoverCalm DEF Calm
  <1>4. CASE ExpireQueued(gw)
    <2>1. PICK S \in SUBSET Inputs : SettleQueued(S)
      BY <1>4 DEF ExpireQueued
    <2>2. UNCHANGED <<nextSeq, budget, open, now>>
      BY <1>4 DEF ExpireQueued
    <2> QED BY <1>1, <2>1, <2>2, SettleCalm DEF Calm
  <1>5. ASSUME NEW i \in Inputs, CancelQueued(i)
        PROVE  Calm
    <2>1. {i} \in SUBSET Inputs
      OBVIOUS
    <2> QED BY <1>1, <1>5, <2>1, SettleCalm DEF CancelQueued
  <1>6. ASSUME NEW s \in Sessions, ClearQueue(s)
        PROVE  Calm
    <2>1. QueueOf(s) \in SUBSET Inputs
      BY DEF QueueOf
    <2> QED BY <1>1, <1>6, <2>1, SettleCalm DEF ClearQueue
  <1>7. ASSUME Operator, NEW i \in Inputs, ResolveFence(i, 1) \/ AbandonFence(i, 1)
        PROVE  IInv' /\ Forward
    BY <1>1, <1>7, Decides
  <1>8. CASE Tick
    BY <1>1, <1>8, TickCalm DEF Calm
  <1> QED BY <1>2, <1>3, <1>4, <1>5, <1>6, <1>7, <1>8 DEF Background, Calm

LEMMA WBackground ==
  ASSUME WInv, Background
  PROVE  WInv'
  <1>1. IInv' /\ Forward
    BY BackgroundRows
  <1>2. UNCHANGED <<gw, spare, pc, target, wake, peeked, bound, used, ended, work, dones, seen,
                    retry, given, served>>
    BY DEF Background, handler, workers, history
  <1>3. DTypeOK'
    BY <1>1, <1>2 DEF WInv, DTypeOK, IInv
  <1>4. GivenOK'
    BY <1>2 DEF WInv, GivenOK, Working, Reported
  <1> QED BY <1>1, <1>2, <1>3, <1>4, AheadKept, Rests DEF WInv, PeekOK

LEMMA WInit ==
  ASSUME DInit
  PROVE  WInv
  <1>1. IInv
    BY InitStep DEF DInit
  <1>2. "idle" \in Position /\ << >> \in Seq(Inputs)
        /\ << >> \in Seq([input: Inputs, ok: BOOLEAN])
    BY DEF Position
  <1>3. given \in [Inputs -> 0..MaxGiven]
    BY DeliveryAssumption DEF DInit, DeliveryAssumption
  <1>4. DTypeOK
    BY <1>1, <1>2, <1>3 DEF DInit, DTypeOK, IInv
  <1>5. WriteAhead /\ HandlerOK /\ PeekOK
    BY DEF DInit, WriteAhead, HandlerOK, PeekOK
  <1>6. GivenOK
    BY ItemsEmpty, NamedEmpty DEF DInit, GivenOK, Working, Reported
  <1> QED BY <1>1, <1>4, <1>5, <1>6 DEF WInv

LEMMA WNext ==
  ASSUME WInv, [DNext]_all
  PROVE  WInv'
  <1>1. ASSUME NEW i \in Inputs,
               \/ Deliver(i) \/ DeliverBusy(i) \/ ClearFence(i) \/ RetryAccept(i)
               \/ EnqueueBusyInput(i) \/ SupplementNotDurable(i)
        PROVE  WInv'
    BY <1>1, WDeliver, WDeliverBusy, WClearFence, WRetryAccept, WEnqueue, WSupplement
  <1>2. ASSUME NEW i \in Inputs,
               \/ SettleUndispatchable(i) \/ DeliverClaimed(i) \/ RefuseAccepted(i)
               \/ MarkDelivery(i) \/ RefuseTurn(i) \/ FinishInputExecution(i)
        PROVE  WInv'
    BY <1>2, WSettleUndispatchable, WDeliverClaimed, WRefuseAccepted, WMarkDelivery, WRefuseTurn,
       WFinishInput
  <1>3. ASSUME NEW i \in Inputs, NEW p \in {"delivered", "failed", "unknown"}, Dispatch(i, p)
        PROVE  WInv'
    BY <1>3, WDispatch
  <1>4. ASSUME NEW i \in Inputs, NEW p \in {"refused", "failed", "unknown"}, NotTaken(i, p)
        PROVE  WInv'
    BY <1>4, WNotTaken
  <1>5. ASSUME NEW i \in Inputs, NEW r \in Runs, ResumeSession(i, r)
        PROVE  WInv'
    BY <1>5, WResume
  <1>6. ASSUME NEW i \in Inputs, NEW f \in Inputs,
               FreshStartFails(i, f) \/ \E r \in Runs : DeliverFenced(i, f, r)
        PROVE  WInv'
    BY <1>6, WFreshStartFails, WDeliverFenced
  <1>7. ASSUME NEW s \in Sessions,
               \/ PeekQueue(s) \/ ClaimHead(s) \/ RetryFires(s)
               \/ WorkerCrash(s) \/ TurnTimeout(s) \/ Stop(s)
        PROVE  WInv'
    BY <1>7, WPeek, WClaimHead, WRetryFires, WWorkerCrash, WTurnTimeout, WStop
  <1>8. ASSUME NEW s \in Sessions, NEW r \in Runs,
               ReadOpen(s, r) \/ FinishDone(s, r) \/ CrashFallback(s, r)
        PROVE  WInv'
    BY <1>8, WReadOpen, WFinishDone, WCrashFallback
  <1>9. ASSUME NEW r \in Runs, NEW ok \in BOOLEAN, WorkerDone(r, ok)
        PROVE  WInv'
    BY <1>9, WWorkerDone
  <1>10. ASSUME NEW g \in Gateways, GatewayCrash(g) \/ GatewayShutdown(g)
         PROVE  WInv'
    BY <1>10, WRestarted
  <1>11. CASE Background
    BY <1>11, WBackground
  <1>12. CASE UNCHANGED all
    <2>1. UNCHANGED <<vars, gw, spare, pc, target, wake, peeked, bound, used, ended, work, dones,
                      seen, retry, given, served>>
      BY <1>12 DEF all, handler, workers, history
    <2>2. IInv' /\ Forward
      BY <2>1, IdleCalm DEF WInv, Calm
    <2>3. DTypeOK'
      BY <2>1, <2>2 DEF WInv, DTypeOK, IInv
    <2>4. GivenOK'
      BY <2>1 DEF WInv, GivenOK, Working, Reported
    <2> QED BY <2>1, <2>2, <2>3, <2>4, AheadKept, Rests DEF WInv, PeekOK
  <1> QED BY <1>1, <1>2, <1>3, <1>4, <1>5, <1>6, <1>7, <1>8, <1>9, <1>10, <1>11, <1>12 DEF DNext

\* Positions, bindings, worker streams, retries and the ledger they drive are
\* well typed, whatever fails and whoever restarts.
THEOREM DeliveryTypeCorrect == DSpec => []DTypeOK
  <1>1. WInv => DTypeOK
    BY DEF WInv
  <1> QED BY <1>1, WInit, WNext, PTL DEF DSpec

\* The slot of a session stays single when the ledger is driven by the gateway,
\* also for rows that name no run because no worker was attached.
THEOREM SlotStaysSingle == DSpec => []SingleSlot
  <1>1. WInv => SingleSlot
    BY DEF WInv, IInv
  <1> QED BY <1>1, WInit, WNext, PTL DEF DSpec

\* An input is with a worker only after the ledger recorded the run that carries
\* it, under retries, fallbacks, operators, crashes and clock skew.
THEOREM LedgerFirst == DSpec => []WriteAhead
  <1>1. WInv => WriteAhead
    BY DEF WInv
  <1> QED BY <1>1, WInit, WNext, PTL DEF DSpec

\* The delivery path sends an input to a worker at most once.
THEOREM DispatchedOnce == DSpec => PrimaryDispatchOnce
  <1>1. ASSUME WInv
        PROVE  \A i \in Inputs : pc[i] = "marked" /\ given'[i] # given[i] => given[i] = 0
    BY <1>1 DEF WInv, HandlerOK
  <1> QED BY <1>1, WInit, WNext, PTL DEF DSpec, PrimaryDispatchOnce

-----------------------------------------------------------------------------
(* What the delivery path makes of the ledger's promise. *)

\* A delivery calls the store or leaves the ledger alone.
LEMMA HandlerCalls ==
  ASSUME WInv, NEW i \in Inputs,
         \/ Deliver(i) \/ ClearFence(i) \/ RetryAccept(i) \/ EnqueueBusyInput(i)
         \/ SettleUndispatchable(i) \/ MarkDelivery(i) \/ RefuseTurn(i) \/ FinishInputExecution(i)
  PROVE  [StoreCall]_vars
  <1> DEFINE s == SessionOf[i]
  <1>1. gw \in Gateways /\ bound[s] \in Runs \cup {NoRun}
    BY BoundTyped DEF WInv
  <1>2. target[i].run \in Runs \cup {NoRun}
    BY HeldRun
  <1>3. ASSUME Accept(gw, i, bound[s])
        PROVE  StoreCall
    BY <1>1, <1>3 DEF StoreCall, Next
  <1>4. ASSUME NEW st \in Outcome, SetDelivery(gw, i, st)
        PROVE  StoreCall
    BY <1>1, <1>4 DEF StoreCall
  <1>5. ASSUME FinishUnsent(i, target[i].run)
        PROVE  [StoreCall]_vars
    BY <1>2, <1>5 DEF FinishUnsent, StoreCall, Next
  <1>6. CASE ClearFence(i)
    <2> DEFINE f == target[i].row
    <2>1. f \in Inputs /\ target[i].run \in Runs
      BY <1>6 DEF ClearFence, WInv, HandlerOK
    <2>2. rows[f].fence \in FenceReason \cup {"none"}
      BY <2>1, RowFacts DEF WInv, Row
    <2> QED BY <1>6, <2>1, <2>2 DEF ClearFence, StoreCall, Next
  <1>7. CASE EnqueueBusyInput(i)
    BY <1>1, <1>7 DEF EnqueueBusyInput, StoreCall, Next
  <1>8. CASE MarkDelivery(i)
    <2>1. CASE MarkRunning(gw, i, bound[s]) /\ bound[s] # NoRun
      BY <1>1, <2>1 DEF StoreCall, Next
    <2> QED BY <1>5, <1>8, <2>1 DEF MarkDelivery
  <1>9. CASE FinishInputExecution(i)
    <2> DEFINE st == IF pc[i] = "refused" THEN "failed" ELSE pc[i]
    <2>1. st \in Outcome
      BY <1>9 DEF FinishInputExecution, Outcome
    <2>2. SetDelivery(gw, i, st) \/ UNCHANGED vars
      BY <1>9 DEF FinishInputExecution
    <2> HIDE DEF st
    <2> QED BY <1>4, <2>1, <2>2
  <1>10. CASE SettleUndispatchable(i)
    BY <1>4, <1>10 DEF SettleUndispatchable, Outcome
  <1> QED BY <1>3, <1>5, <1>6, <1>7, <1>8, <1>9, <1>10 DEF Deliver, RetryAccept, RefuseTurn

\* The dispatcher, the stop command, the process's end and the background jobs
\* call the store or leave the ledger alone.
LEMMA OtherCalls ==
  ASSUME WInv,
         \/ \E s \in Sessions : PeekQueue(s) \/ ClaimHead(s) \/ Stop(s)
         \/ \E g \in Gateways : GatewayCrash(g) \/ GatewayShutdown(g)
         \/ Background
  PROVE  [StoreCall]_vars
  <1>1. gw \in Gateways /\ bound \in [Sessions -> Runs \cup {NoRun}]
    BY DEF WInv, DTypeOK
  <1>2. ASSUME NEW i \in Inputs, CancelQueued(i)
        PROVE  StoreCall
    BY <1>2 DEF StoreCall, Next
  <1>3. ASSUME NEW s \in Sessions, PeekQueue(s)
        PROVE  [StoreCall]_vars
    BY <1>2, <1>3 DEF PeekQueue, QueueOf
  <1>4. ASSUME NEW s \in Sessions, ClaimHead(s)
        PROVE  [StoreCall]_vars
    <2> DEFINE i == peeked[s]
    <2>1. i \in Inputs
      BY <1>4 DEF ClaimHead, WInv, DTypeOK
    <2>2. ClaimQueued(gw, i, bound[s], 0) \/ UNCHANGED vars
      BY <1>4 DEF ClaimHead
    <2> HIDE DEF i
    <2> QED BY <1>1, <2>1, <2>2 DEF StoreCall, Next
  <1>5. ASSUME NEW s \in Sessions, Stop(s)
        PROVE  [StoreCall]_vars
    <2>1. ASSUME NEW i \in OpenBySession(s), FinishRuntime(i, bound[s], "failed")
          PROVE  StoreCall
      <3>1. i \in Inputs /\ bound[s] \in Runs \cup {NoRun}
        BY <1>1 DEF OpenBySession
      <3> QED BY <2>1, <3>1 DEF StoreCall, Next
    <2> QED BY <1>5, <2>1 DEF Stop
  <1>6. ASSUME NEW g \in Gateways, GatewayCrash(g) \/ GatewayShutdown(g)
        PROVE  [StoreCall]_vars
    BY <1>1, <1>6 DEF GatewayCrash, GatewayShutdown, StoreCall, Next
  <1>7. CASE Background
    <2>1. ASSUME NEW i \in Inputs, ResolveFence(i, 1) \/ AbandonFence(i, 1)
          PROVE  StoreCall
      <3>1. 1 \in 0..2
        OBVIOUS
      <3> QED BY <2>1, <3>1 DEF StoreCall, Next
    <2>2. ASSUME RenewLeases(gw, {})
          PROVE  StoreCall
      <3>1. {} \in SUBSET Inputs
        OBVIOUS
      <3> QED BY <1>1, <2>2, <3>1 DEF StoreCall, Next
    <2>3. ASSUME ExpireQueued(gw) \/ RecoverExpiredLeases \/ Tick
                 \/ \E s \in Sessions : ClearQueue(s)
          PROVE  StoreCall
      BY <1>1, <2>3 DEF StoreCall, Next
    <2> QED BY <1>2, <1>7, <2>1, <2>2, <2>3 DEF Background
  <1> QED BY <1>3, <1>4, <1>5, <1>6, <1>7

\* A step of the delivery path is a call of the store, leaves the ledger alone,
\* or is the forwarder's finish, which may write an outcome and converge a
\* failed delivery in one go.
LEMMA DeliveryCalls ==
  ASSUME WInv, [DNext]_all
  PROVE  [StoreCall]_vars \/ \E s \in Sessions, r \in Runs : FinishDone(s, r)
  <1>1. ASSUME NEW i \in Inputs,
               \/ DeliverBusy(i) \/ SupplementNotDurable(i) \/ DeliverClaimed(i)
               \/ RefuseAccepted(i)
               \/ \E p \in {"delivered", "failed", "unknown"} : Dispatch(i, p)
               \/ \E p \in {"refused", "failed", "unknown"} : NotTaken(i, p)
               \/ \E r \in Runs : ResumeSession(i, r)
               \/ \E f \in Inputs : FreshStartFails(i, f) \/ \E r \in Runs : DeliverFenced(i, f, r)
        PROVE  UNCHANGED vars
    BY <1>1 DEF DeliverBusy, SupplementNotDurable, DeliverClaimed, RefuseAccepted, Dispatch,
       NotTaken, ResumeSession, FreshStartFails, DeliverFenced
  <1>2. ASSUME NEW s \in Sessions,
               \/ RetryFires(s) \/ WorkerCrash(s) \/ TurnTimeout(s)
               \/ \E r \in Runs : ReadOpen(s, r) \/ CrashFallback(s, r)
        PROVE  UNCHANGED vars
    BY <1>2 DEF RetryFires, WorkerCrash, TurnTimeout, ReadOpen, CrashFallback
  <1>3. ASSUME NEW r \in Runs, NEW ok \in BOOLEAN, WorkerDone(r, ok)
        PROVE  UNCHANGED vars
    BY <1>3 DEF WorkerDone
  <1> QED BY <1>1, <1>2, <1>3, HandlerCalls, OtherCalls DEF DNext, all

\* The forwarder's finish settles the record it read, or nothing.
LEMMA DoneSettles ==
  ASSUME WInv, NEW s \in Sessions, NEW r \in Runs, FinishDone(s, r)
  PROVE  \/ rows' = rows
         \/ \E i \in Inputs :
              /\ rows[i].rt \in {"pending", "running", "unknown"}
              /\ rows'[i] \in Row /\ rows'[i].rt \in {"completed", "failed"}
              /\ rows' = [rows EXCEPT ![i] = rows'[i]]
  <1>1. IInv' /\ rows \in [Inputs -> Row]
    BY DoneRows DEF WInv, IInv, TypeOK
  <1>2. rows' \in [Inputs -> Row]
    BY <1>1 DEF IInv, TypeOK
  <1>3. CASE rows' # rows
    <2> DEFINE i == seen[r].input
    <2>1. /\ i \in Inputs
          /\ \A j \in Inputs : j # i => rows'[j] = rows[j]
          /\ rows[i].rt \in {"pending", "running", "unknown"}
          /\ rows'[i].rt \in {"completed", "failed"}
      BY <1>3, DoneRows
    <2> HIDE DEF i
    <2>2. rows' = [rows EXCEPT ![i] = rows'[i]]
      BY <1>1, <1>2, <2>1
    <2> QED BY <1>2, <2>1, <2>2
  <1> QED BY <1>3

\* A settled record is a step of InputLifecycle.
LEMMA DoneRefines ==
  ASSUME WInv, NEW s \in Sessions, NEW r \in Runs, FinishDone(s, r)
  PROVE  Lifecycle!Next \/ phi' = phi
  <1>1. CASE rows' = rows
    BY <1>1, NoneMoves
  <1>2. ASSUME NEW i \in Inputs, NEW q \in Row,
               rows[i].rt \in {"pending", "running", "unknown"},
               q.rt \in {"completed", "failed"}, rows' = [rows EXCEPT ![i] = q]
        PROVE  Lifecycle!Next
    <2>1. IInv /\ rows[i] \in Row
      BY RowFacts DEF WInv
    <2>2. phi' = [phi EXCEPT ![i] = "settled"]
      BY <1>2, <2>1, OneMoves, Phases
    <2>3. phi[i] \in {"active", "fenced", "released"}
      BY <1>2, <2>1, Phases DEF phi
    <2> QED BY <2>2, <2>3, AbstractActions
  <1> QED BY <1>1, <1>2, DoneSettles

\* The gateway keeps the ledger's promise: acceptance, queue promotion, fence
\* recovery, stale forwarders, stops, crashes, restarts and the operator only
\* move an input along the phases of InputLifecycle, so it is handed over at
\* most once and its outcome is final, with or without a bound worker.
THEOREM DeliveryKeepsThePromise == DSpec => ImplementsLifecycle
  <1>1. DInit => Lifecycle!Init
    <2>1. NoRow \in Row /\ NoRow.rt = "none"
      BY DEF NoRow, Row, Delivery, Runtime
    <2> QED BY <2>1, Phases DEF DInit, Init, Lifecycle!Init
  <1>2. ASSUME WInv, [DNext]_all
        PROVE  [Lifecycle!Next]_([i \in Inputs |-> PhaseOf(rows[i])])
    <2>1. IInv
      BY <1>2 DEF WInv
    <2>2. Lifecycle!Next \/ phi' = phi
      BY <1>2, <2>1, DeliveryCalls, StepRefines, DoneRefines
    <2> QED BY <2>2 DEF phi
  <1> QED BY <1>1, <1>2, WInit, WNext, PTL DEF DSpec, ImplementsLifecycle, Lifecycle!Spec

\* No step of the gateway takes a runtime fact back: an input that crossed the
\* dispatch boundary is never queued or pending again, and an outcome stands.
THEOREM DeliveryRuntimeForward == DSpec => RuntimeNeverGoesBack
  <1>1. ASSUME WInv, [DNext]_all
        PROVE  [\A i \in Inputs :
                  rows'[i].rt # rows[i].rt => Rank(rows'[i].rt) > Rank(rows[i].rt)]_vars
    <2>1. IInv /\ rows \in [Inputs -> Row]
      BY <1>1 DEF WInv, IInv, TypeOK
    <2>2. CASE [StoreCall]_vars
      BY <2>1, <2>2, RowMoves DEF Rank
    <2>3. ASSUME NEW s \in Sessions, NEW r \in Runs, FinishDone(s, r)
          PROVE  \A i \in Inputs :
                   rows'[i].rt # rows[i].rt => Rank(rows'[i].rt) > Rank(rows[i].rt)
      BY <1>1, <2>1, <2>3, DoneSettles DEF Rank
    <2> QED BY <1>1, <2>2, <2>3, DeliveryCalls
  <1> QED BY <1>1, WInit, WNext, PTL DEF DSpec, RuntimeNeverGoesBack

\* The dispatcher of the gateway, whose head may be stale by the time it claims
\* it, takes the inputs that wait in the order in which they came to wait, across
\* restarts, stale forwarders and whatever is settled around it.
THEOREM DeliveryFollowsTheQueue == DSpec => ImplementsWaitingLine
  <1>1. DInit => Line!Init
    BY LineStarts DEF DInit
  <1>2. ASSUME WInv, WInv', [DNext]_all
        PROVE  [Line!Next]_<<[i \in Inputs |-> PlaceOf(rows[i])],
                             {p \in Inputs \X Inputs : Precedes(p[1], p[2])}>>
    <2>1. IInv /\ IInv'
      BY <1>2 DEF WInv
    <2>2. CASE [StoreCall]_vars
      BY <2>1, <2>2, LineStep DEF places, pairs
    <2>3. ASSUME NEW s \in Sessions, NEW r \in Runs, FinishDone(s, r)
          PROVE  Line!Elsewhere
      <3>1. queue' = queue
        BY <2>3 DEF FinishDone
      <3>2. rows \in [Inputs -> Row]
        BY <2>1 DEF IInv, TypeOK
      <3>3. ASSUME NEW j \in Inputs
            PROVE  \/ rows'[j].rt = rows[j].rt
                   \/ rows[j].rt \in {"pending", "running", "unknown"}
                      /\ rows'[j].rt \in {"completed", "failed"}
        BY <1>2, <2>3, <3>2, DoneSettles
      <3>4. \A j \in Inputs : MovesAs(j)
        BY <3>3 DEF MovesAs
      <3> QED BY <2>1, <3>1, <3>4, AwayFromLine
    <2> QED BY <1>2, <2>2, <2>3, DeliveryCalls DEF Line!Next
  <1> QED BY <1>1, <1>2, WInit, WNext, PTL DEF DSpec, ImplementsWaitingLine, Line!Spec

-----------------------------------------------------------------------------
(* Turns: what a step may do to slots, runs and streams. *)

\* Who holds a slot held it before for the same run, or takes it for the run
\* that is bound to the session.
HoldersOK ==
  \A j \in Inputs : Holds(rows'[j]) =>
    \/ Holds(rows[j]) /\ rows'[j].run = rows[j].run
    \/ rows'[j].run = bound[SessionOf[j]]

\* A session keeps its run, loses it, or is bound to a new one.
BoundOK == \A s \in Sessions : bound'[s] \in {bound[s], NoRun} \/ bound'[s] \notin used

\* What runs hold and have reported only gets less.
Shrinks ==
  \A r \in Runs :
    /\ work'[r] \in {work[r], << >>}
    /\ \/ dones'[r] \in {dones[r], << >>}
       \/ dones[r] # << >> /\ dones'[r] = Tail(dones[r])

LEMMA NewRuns == NoRun \notin Runs
  BY LedgerAssumption DEF LedgerAssumption

LEMMA SessionTyped == \A i \in Inputs : SessionOf[i] \in Sessions
  BY LedgerAssumption DEF LedgerAssumption

\* A run that has something to answer for was given out.
LEMMA EngagedUsed ==
  ASSUME RunsApart, NEW r \in Runs, NEW d \in Engaged(r)
  PROVE  r \in used
  <1>1. work[r] # << >> \/ dones[r] # << >>
    BY ItemsEmpty, NamedEmpty DEF Engaged, Working, Reported
  <1> QED BY <1>1 DEF RunsApart

LEMMA EngagedTyped ==
  ASSUME WInv, NEW r \in Runs, NEW d \in Engaged(r)
  PROVE  d \in Inputs /\ SessionOf[d] \in Sessions /\ given[d] > 0
  BY Streams, SessionTyped DEF Engaged, WInv, GivenOK

\* A run that was given out and went stale stays stale.
LEMMA StaleStays ==
  ASSUME HoldersOK, BoundOK, NEW r \in Runs, r \in used, NEW s \in Sessions, Stale(r, s)
  PROVE  Stale(r, s)'
  <1>1. bound'[s] # r
    BY NewRuns DEF BoundOK, Stale
  <1>2. ASSUME NEW i \in Inputs, SessionOf[i] = s, Holds(rows'[i])
        PROVE  rows'[i].run # r
    BY <1>2 DEF HoldersOK, Stale
  <1> QED BY <1>1, <1>2 DEF Stale

\* Nobody new is engaged, and who leaves the slot leaves a stale run behind.
LEMMA TiedStays ==
  ASSUME WInv, RunsApart, Tied, HoldersOK, BoundOK,
         \A r \in Runs : Working(r)' \subseteq Working(r) /\ Engaged(r)' \subseteq Engaged(r),
         \A r \in Runs : \A d \in Working(r)' : bound'[SessionOf[d]] = bound[SessionOf[d]],
         \A r \in Runs : \A d \in Engaged(r)' :
           Holds(rows[d]) => Holds(rows'[d]) \/ Stale(r, SessionOf[d])'
  PROVE  Tied'
  <1>1. ASSUME NEW r \in Runs, NEW d \in Working(r)' PROVE bound'[SessionOf[d]] = r
    BY <1>1 DEF Tied
  <1>2. ASSUME NEW r \in Runs, NEW d \in Engaged(r)'
        PROVE  Holds(rows'[d]) \/ Stale(r, SessionOf[d])'
    <2>1. d \in Engaged(r)
      BY <1>2
    <2>2. r \in used /\ SessionOf[d] \in Sessions
      BY <2>1, EngagedUsed, EngagedTyped
    <2>3. CASE Holds(rows[d])
      BY <1>2, <2>3
    <2>4. CASE Stale(r, SessionOf[d])
      BY <2>2, <2>4, StaleStays
    <2> QED BY <2>1, <2>3, <2>4 DEF Tied
  <1>3. \A r \in Runs : /\ \A d \in Working(r)' : bound'[SessionOf[d]] = r
                        /\ \A d \in Engaged(r)' : Holds(rows'[d]) \/ Stale(r, SessionOf[d])'
    BY <1>1, <1>2
  <1> QED BY <1>3 DEF Tied

\* The run of a session is left alone, detached, or replaced by a new one.
LEMMA Bindings ==
  ASSUME WInv, RunsApart,
         \A r \in Runs : work'[r] # << >> \/ dones'[r] # << >> => r \in used',
         \/ UNCHANGED <<bound, used>>
         \/ \E s \in Sessions : bound' = [bound EXCEPT ![s] = NoRun] /\ used' = used
         \/ \E s \in Sessions, r \in Runs \ used :
              bound' = [bound EXCEPT ![s] = r] /\ used' = used \cup {r}
  PROVE  RunsApart' /\ BoundOK
  <1>1. bound \in [Sessions -> Runs \cup {NoRun}]
    BY DEF WInv, DTypeOK
  <1>2. CASE UNCHANGED <<bound, used>>
    BY <1>2 DEF RunsApart, BoundOK
  <1>3. ASSUME NEW s \in Sessions, bound' = [bound EXCEPT ![s] = NoRun], used' = used
        PROVE  RunsApart' /\ BoundOK
    BY <1>1, <1>3 DEF RunsApart, BoundOK
  <1>4. ASSUME NEW s \in Sessions, NEW r \in Runs \ used,
               bound' = [bound EXCEPT ![s] = r], used' = used \cup {r}
        PROVE  RunsApart' /\ BoundOK
    BY <1>1, <1>4 DEF RunsApart, BoundOK
  <1> QED BY <1>2, <1>3, <1>4

LEMMA Shrunk ==
  ASSUME WInv, Once, RunsApart, Shrinks
  PROVE  /\ Once'
         /\ \A r \in Runs : Working(r)' \subseteq Working(r) /\ Reported(r)' \subseteq Reported(r)
                            /\ Engaged(r)' \subseteq Engaged(r)
         /\ \A r \in Runs : work'[r] # << >> \/ dones'[r] # << >> => r \in used
         /\ DonesTrue /\ served' = served => DonesTrue'
  <1>1. ASSUME NEW r \in Runs
        PROVE  /\ Working(r)' \subseteq Working(r) /\ Distinct(work'[r])
               /\ work'[r] # << >> => r \in used
    BY ItemsEmpty DEF Shrinks, Working, Once, RunsApart
  <1>2. ASSUME NEW r \in Runs
        PROVE  /\ Reported(r)' \subseteq Reported(r) /\ NamesDistinct(dones'[r])
               /\ dones'[r] # << >> => r \in used
               /\ DonesTrue /\ served' = served =>
                    \A n \in DOMAIN dones'[r] : dones'[r][n].ok => dones'[r][n].input \in served'
    <2>1. dones[r] \in Seq(Report)
      BY Streams
    <2>2. CASE dones'[r] = dones[r]
      BY <2>2 DEF Reported, Once, RunsApart, DonesTrue
    <2>3. CASE dones'[r] = << >>
      BY <2>3, NamedEmpty DEF Reported
    <2>4. CASE dones[r] # << >> /\ dones'[r] = Tail(dones[r])
      BY <2>1, <2>4, NamedTail DEF Reported, Once, RunsApart, DonesTrue
    <2> QED BY <2>2, <2>3, <2>4 DEF Shrinks
  <1>3. Once'
    BY <1>1, <1>2 DEF Once
  <1>4. DonesTrue /\ served' = served => DonesTrue'
    BY <1>2 DEF DonesTrue
  <1>5. \A r \in Runs : Engaged(r)' \subseteq Engaged(r)
    BY <1>1, <1>2 DEF Engaged
  <1> QED BY <1>1, <1>2, <1>3, <1>4, <1>5

LEMMA GateMoves ==
  ASSUME WInv, GateExclusive, NEW i \in Inputs, NEW p \in Position, Move(i, p),
         p \in InsideGate => pc[i] \in InsideGate \/ GateFree(SessionOf[i])
  PROVE  /\ GateExclusive'
         /\ pc'[i] = p /\ \A j \in Inputs : j # i => pc'[j] = pc[j]
  <1>1. pc'[i] = p /\ \A j \in Inputs : j # i => pc'[j] = pc[j]
    BY DEF Move, WInv, DTypeOK
  <1> QED BY <1>1 DEF GateExclusive, GateFree

\* A cancelled retry leaves no retry, and none fires.
LEMMA StaysQuiet ==
  ASSUME WInv, NoRetry, NEW s \in Sessions, retry' = retry \/ CancelRetry(s)
  PROVE  NoRetry'
  BY DEF NoRetry, CancelRetry, WInv, DTypeOK

\* A step that touches no worker and no run.
LEMMA TurnsUntouched ==
  ASSUME WInv, TInv, HoldersOK, UNCHANGED <<bound, used, work, dones, seen, served>>,
         NoRetry', GateExclusive',
         \A j \in Inputs : pc'[j] = "fresh" => pc[j] = "fresh" /\ target'[j] = target[j],
         \A j \in Inputs : pc'[j] = "marked" => Holds(rows'[j]),
         \A r \in Runs : \A d \in Engaged(r) :
           Holds(rows[d]) => Holds(rows'[d]) \/ Stale(r, SessionOf[d])'
  PROVE  TInv'
  <1>1. Shrinks /\ \A r \in Runs : Working(r)' = Working(r) /\ Engaged(r)' = Engaged(r)
    BY DEF Shrinks, Working, Reported, Engaged
  <1>2. Once' /\ DonesTrue' /\ RunsApart' /\ BoundOK
    BY <1>1, Shrunk, Bindings DEF TInv
  <1>3. Tied'
    BY <1>1, <1>2, TiedStays DEF TInv
  <1>4. FreshIsIdle'
    BY <1>1 DEF TInv, FreshIsIdle, Working, Reported, Engaged
  <1>5. MarkedHolds' /\ SeenOK'
    BY DEF TInv, MarkedHolds, SeenOK
  <1> QED BY <1>2, <1>3, <1>4, <1>5 DEF TInv

\* One input's goroutine moves; the slot is given up by nobody else, and by the
\* input only if it was never given to a worker.
LEMMA TurnsMove ==
  ASSUME WInv, TInv, HoldersOK, UNCHANGED <<bound, used, work, dones, seen, served>>,
         NEW s \in Sessions, retry' = retry \/ CancelRetry(s),
         NEW i \in Inputs, target' = target \/ Noted(i),
         NEW p \in Position, Move(i, p), p # "fresh",
         p \in InsideGate => pc[i] \in InsideGate \/ GateFree(SessionOf[i]),
         p = "marked" => Holds(rows'[i]),
         \A j \in Inputs : Holds(rows[j]) => Holds(rows'[j]) \/ (j = i /\ given[i] = 0)
  PROVE  TInv'
  <1>1. GateExclusive' /\ pc'[i] = p /\ \A j \in Inputs : j # i => pc'[j] = pc[j]
    BY GateMoves DEF TInv
  <1>2. \A j \in Inputs : pc'[j] = "fresh" => pc[j] = "fresh" /\ target'[j] = target[j]
    BY <1>1 DEF Noted
  <1>3. \A j \in Inputs : pc'[j] = "marked" => Holds(rows'[j])
    BY <1>1 DEF TInv, MarkedHolds
  <1>4. \A r \in Runs : \A d \in Engaged(r) : Holds(rows[d]) => Holds(rows'[d])
    <2>1. SUFFICES ASSUME NEW r \in Runs, NEW d \in Engaged(r), Holds(rows[d])
                   PROVE  Holds(rows'[d])
      OBVIOUS
    <2>2. d \in Inputs /\ given[d] > 0
      BY EngagedTyped
    <2> QED BY <2>1, <2>2
  <1>5. NoRetry'
    BY StaysQuiet DEF TInv
  <1> QED BY <1>1, <1>2, <1>3, <1>4, <1>5, TurnsUntouched

\* The same when the ledger step concerns no turn.
LEMMA TurnsCalm ==
  ASSUME WInv, TInv, Calm, UNCHANGED <<target, bound, used, work, dones, seen, served>>,
         NEW s \in Sessions, retry' = retry \/ CancelRetry(s),
         NEW i \in Inputs, NEW p \in Position, Move(i, p), p \notin {"fresh", "marked"},
         p \in InsideGate => pc[i] \in InsideGate \/ GateFree(SessionOf[i])
  PROVE  TInv'
  <1>1. HoldersOK
    BY DEF Calm, NobodyEnters, HoldersOK
  <1>2. \A j \in Inputs : Holds(rows[j]) => Holds(rows'[j]) \/ (j = i /\ given[i] = 0)
    BY DEF Calm, NobodyLeaves
  <1> QED BY <1>1, <1>2, TurnsMove

\* Nobody moves and the ledger step concerns no turn.
LEMMA TurnsIdle ==
  ASSUME WInv, TInv, Calm,
         UNCHANGED <<pc, target, bound, used, work, dones, seen, retry, served>>
  PROVE  TInv'
  <1>1. HoldersOK
    BY DEF Calm, NobodyEnters, HoldersOK
  <1>2. \A j \in Inputs : pc'[j] = "marked" => Holds(rows'[j])
    BY DEF Calm, NobodyLeaves, TInv, MarkedHolds
  <1>3. \A r \in Runs : \A d \in Engaged(r) : Holds(rows[d]) => Holds(rows'[d])
    BY EngagedTyped DEF Calm, NobodyLeaves
  <1>4. GateExclusive' /\ NoRetry'
    BY DEF TInv, GateExclusive, NoRetry
  <1> QED BY <1>1, <1>2, <1>3, <1>4, TurnsUntouched

\* Accept and ClaimQueued: the slot was free, and goes to the bound run.
LEMMA TurnsTake ==
  ASSUME WInv, TInv, NEW i \in Inputs, NEW p \in Position \ {"fresh", "marked"}, Move(i, p),
         \/ Accept(gw, i, bound[SessionOf[i]])
         \/ ClaimQueued(gw, i, bound[SessionOf[i]], 0),
         p \in InsideGate => pc[i] \in InsideGate \/ GateFree(SessionOf[i]),
         UNCHANGED <<bound, used, work, dones, seen, served>>, target' = target \/ Noted(i),
         retry' = retry \/ CancelRetry(SessionOf[i])
  PROVE  TInv'
  <1>1. /\ rows[i].rt \in {"none", "queued"} /\ rows'[i].run = bound[SessionOf[i]]
        /\ rows'[i].rt = "pending"
        /\ \A j \in Inputs : j # i => rows'[j] = rows[j]
    BY BoundTyped, TakesSlot DEF WInv
  <1>2. HoldersOK
    BY <1>1 DEF HoldersOK
  <1>3. \A j \in Inputs : Holds(rows[j]) => Holds(rows'[j])
    BY <1>1 DEF Holds
  <1> QED BY <1>2, <1>3, TurnsMove, BoundTyped

LEMMA Places ==
  /\ {"idle", "busy", "claimed", "failed", "unknown"} \subseteq Position
  /\ InsideGate \subseteq Position
  /\ {"fresh", "cleared", "accepted", "marked", "refused", "delivered"} = InsideGate
  /\ \A p \in {"idle", "busy", "claimed", "failed", "unknown"} : p \notin InsideGate
  BY DEF Position, InsideGate

LEMMA TDeliver ==
  ASSUME WInv, TInv, NEW i \in Inputs, Deliver(i)
  PROVE  TInv'
  <1>1. /\ Accept(gw, i, bound[SessionOf[i]]) /\ Move(i, "accepted") /\ GateFree(SessionOf[i])
        /\ CancelRetry(SessionOf[i]) /\ Note(i, i, bound[SessionOf[i]])
        /\ UNCHANGED <<bound, used, work, dones, seen, served>>
    BY DEF Deliver, history
  <1> QED BY <1>1, BoundTyped, NotesOne, TurnsTake, Places

LEMMA TDeliverBusy ==
  ASSUME WInv, TInv, NEW i \in Inputs, DeliverBusy(i)
  PROVE  TInv'
  <1>1. /\ Calm /\ Move(i, "busy") /\ CancelRetry(SessionOf[i])
        /\ UNCHANGED <<target, bound, used, work, dones, seen, served>>
    BY IdleCalm DEF DeliverBusy, WInv, history
  <1> QED BY <1>1, TurnsCalm, Places, SessionTyped

LEMMA TRetryAccept ==
  ASSUME WInv, TInv, NEW i \in Inputs, RetryAccept(i)
  PROVE  TInv'
  <1>1. /\ pc[i] = "cleared" /\ CancelRetry(SessionOf[i])
        /\ UNCHANGED <<bound, used, work, dones, seen, served>>
    BY DEF RetryAccept, history
  <1>2. CASE /\ Accept(gw, i, bound[SessionOf[i]]) /\ Move(i, "accepted")
             /\ Note(i, i, bound[SessionOf[i]])
    BY <1>1, <1>2, BoundTyped, NotesOne, TurnsTake, Places
  <1>3. CASE Move(i, "busy") /\ UNCHANGED <<vars, target>>
    BY <1>1, <1>3, IdleCalm, TurnsCalm, Places, SessionTyped DEF WInv
  <1> QED BY <1>2, <1>3 DEF RetryAccept

\* Steps of the handler that leave the ledger and the workers alone, or settle
\* only the delivery.
LEMMA TQuietMoves ==
  ASSUME WInv, TInv, NEW i \in Inputs,
         \/ EnqueueBusyInput(i) \/ SupplementNotDurable(i) \/ SettleUndispatchable(i)
         \/ RefuseAccepted(i) \/ FinishInputExecution(i)
         \/ \E p \in {"refused", "failed", "unknown"} : NotTaken(i, p)
  PROVE  TInv'
  <1>1. SessionOf[i] \in Sessions /\ gw \in Gateways
    BY BoundTyped
  <1>2. CASE EnqueueBusyInput(i)
    <2>1. Calm /\ Move(i, "idle") /\ UNCHANGED <<target, bound, used, work, dones, seen, served, retry>>
      BY <1>1, <1>2, AcceptQueuedCalm DEF EnqueueBusyInput, WInv, workers, history
    <2> QED BY <1>1, <2>1, TurnsCalm, Places
  <1>3. CASE SupplementNotDurable(i)
    <2>1. Calm /\ Move(i, "idle") /\ UNCHANGED <<target, bound, used, work, dones, seen, served, retry>>
      BY <1>3, IdleCalm DEF SupplementNotDurable, WInv, workers, history
    <2> QED BY <1>1, <2>1, TurnsCalm, Places
  <1>4. CASE SettleUndispatchable(i)
    <2>1. Calm
      BY <1>1, <1>4, SetDeliveryCalm, IdleCalm DEF SettleUndispatchable, WInv, Outcome
    <2>2. Move(i, "idle") /\ UNCHANGED <<target, bound, used, work, dones, seen, served, retry>>
      BY <1>4 DEF SettleUndispatchable, workers, history
    <2> QED BY <1>1, <2>1, <2>2, TurnsCalm, Places
  <1>5. CASE RefuseAccepted(i)
    <2>1. Calm /\ Move(i, "refused") /\ pc[i] = "accepted"
          /\ UNCHANGED <<target, bound, used, work, dones, seen, served, retry>>
      BY <1>5, IdleCalm DEF RefuseAccepted, WInv, workers, history
    <2> QED BY <1>1, <2>1, TurnsCalm, Places
  <1>6. CASE FinishInputExecution(i)
    <2> DEFINE st == IF pc[i] = "refused" THEN "failed" ELSE pc[i]
    <2>1. st \in Outcome /\ (SetDelivery(gw, i, st) \/ UNCHANGED vars)
      BY <1>6 DEF FinishInputExecution, Outcome
    <2>2. Move(i, "idle") /\ UNCHANGED <<target, bound, used, work, dones, seen, served, retry>>
      BY <1>6 DEF FinishInputExecution, workers, history
    <2> HIDE DEF st
    <2>3. Calm
      BY <1>1, <2>1, SetDeliveryCalm, IdleCalm DEF WInv
    <2> QED BY <1>1, <2>2, <2>3, TurnsCalm, Places
  <1>7. ASSUME NEW p \in {"refused", "failed", "unknown"}, NotTaken(i, p)
        PROVE  TInv'
    <2>1. Calm /\ Move(i, p) /\ pc[i] = "marked"
          /\ UNCHANGED <<target, bound, used, work, dones, seen, served, retry>>
      BY <1>7, IdleCalm DEF NotTaken, WInv, workers, history
    <2>2. p \in Position \ {"fresh", "marked"}
      BY Places
    <2> QED BY <1>1, <2>1, <2>2, TurnsCalm, Places
  <1> QED BY <1>2, <1>3, <1>4, <1>5, <1>6, <1>7

LEMMA TDeliverClaimed ==
  ASSUME WInv, TInv, NEW i \in Inputs, DeliverClaimed(i)
  PROVE  TInv'
  <1>1. /\ Calm /\ Move(i, "accepted") /\ CancelRetry(SessionOf[i]) /\ GateFree(SessionOf[i])
        /\ UNCHANGED <<target, bound, used, work, dones, seen, served>>
    BY IdleCalm DEF DeliverClaimed, WInv, history
  <1> QED BY <1>1, TurnsCalm, Places, SessionTyped

\* An input that was not sent is finished.
LEMMA TurnsUnsent ==
  ASSUME WInv, TInv, NEW i \in Inputs, pc[i] \in {"accepted", "marked"},
         FinishUnsent(i, target[i].run), Move(i, "refused"),
         UNCHANGED <<target, bound, used, work, dones, seen, served, retry>>
  PROVE  TInv'
  <1>1. NobodyEnters /\ \A j \in Inputs : j # i => rows'[j] = rows[j]
    BY HeldRun, UnsentFinish DEF WInv
  <1>2. given[i] = 0
    BY DEF WInv, HandlerOK
  <1>3. HoldersOK
    BY <1>1 DEF NobodyEnters, HoldersOK
  <1>4. \A j \in Inputs : Holds(rows[j]) => Holds(rows'[j]) \/ (j = i /\ given[i] = 0)
    BY <1>1, <1>2
  <1>5. "refused" \in Position /\ "refused" \in InsideGate /\ pc[i] \in InsideGate
    BY Places
  <1> QED BY <1>3, <1>4, <1>5, TurnsMove, SessionTyped

LEMMA TMarkDelivery ==
  ASSUME WInv, TInv, NEW i \in Inputs, MarkDelivery(i)
  PROVE  TInv'
  <1>1. /\ pc[i] = "accepted" /\ bound[SessionOf[i]] # NoRun
        /\ UNCHANGED <<bound, used, work, dones, seen, served, retry>>
    BY DEF MarkDelivery, workers, history
  <1>2. CASE /\ MarkRunning(gw, i, bound[SessionOf[i]]) /\ Move(i, "marked")
             /\ Note(i, i, bound[SessionOf[i]])
    <2>1. bound[SessionOf[i]] \in Runs /\ gw \in Gateways
      BY <1>1, BoundTyped
    <2>2. /\ rows'[i].run = bound[SessionOf[i]] /\ Holds(rows'[i])
          /\ \A j \in Inputs : j # i => rows'[j] = rows[j]
      BY <1>2, <2>1, Starts DEF WInv
    <2>3. HoldersOK /\ \A j \in Inputs : Holds(rows[j]) => Holds(rows'[j])
      BY <2>2 DEF HoldersOK
    <2>4. "marked" \in Position /\ pc[i] \in InsideGate
      BY <1>1, Places
    <2> QED BY <1>1, <1>2, <2>1, <2>2, <2>3, <2>4, NotesOne, TurnsMove, SessionTyped
  <1>3. CASE FinishUnsent(i, target[i].run) /\ Move(i, "refused") /\ UNCHANGED target
    BY <1>1, <1>3, TurnsUnsent
  <1> QED BY <1>2, <1>3 DEF MarkDelivery

LEMMA TRefuseTurn ==
  ASSUME WInv, TInv, NEW i \in Inputs, RefuseTurn(i)
  PROVE  TInv'
  <1>1. /\ pc[i] = "marked" /\ FinishUnsent(i, target[i].run) /\ Move(i, "refused")
        /\ UNCHANGED <<target, bound, used, work, dones, seen, served, retry>>
    BY DEF RefuseTurn, workers, history
  <1> QED BY <1>1, TurnsUnsent

LEMMA SlotFacts ==
  ASSUME WInv, NEW i \in Inputs, NEW j \in Inputs, SessionOf[i] = SessionOf[j],
         Holds(rows[i]), Holds(rows[j])
  PROVE  i = j
  BY HoldsIsHoldsSlot DEF WInv, IInv, SingleSlot

\* The fence of a replaced worker's row is lifted: what the old run sent is
\* stale, for the fresh worker has been given nothing.
LEMMA TClearFence ==
  ASSUME WInv, TInv, NEW i \in Inputs, ClearFence(i)
  PROVE  TInv'
  <1>1. /\ pc[i] = "fresh" /\ Move(i, "cleared")
        /\ UNCHANGED <<target, bound, used, work, dones, seen, served, retry>>
    BY DEF ClearFence, workers, history
  <1> DEFINE f == target[i].row
             s == SessionOf[i]
  <1>2. f \in Inputs /\ target[i].run \in Runs /\ SessionOf[f] = s /\ s \in Sessions
    BY <1>1, SessionTyped DEF WInv, HandlerOK, TInv, FreshIsIdle
  <1>3. CASE /\ ClearFenceAfterFreshStart(f, rows[f].fence, target[i].run)
             /\ rows[f].fence # "none"
    <2>1. /\ NobodyEnters /\ Holds(rows[f]) /\ ~Holds(rows'[f])
          /\ \A j \in Inputs : j # f => rows'[j] = rows[j]
      BY <1>2, <1>3, Clears DEF WInv
    <2>2. GateExclusive' /\ pc'[i] = "cleared" /\ \A j \in Inputs : j # i => pc'[j] = pc[j]
      BY <1>1, <1>3, GateMoves, Places DEF TInv
    <2>3. HoldersOK
      BY <2>1 DEF NobodyEnters, HoldersOK
    <2>4. \A j \in Inputs : pc'[j] = "marked" => Holds(rows'[j])
      <3>1. SUFFICES ASSUME NEW j \in Inputs, pc'[j] = "marked"
                     PROVE  Holds(rows'[j])
        OBVIOUS
      <3>2. j # i /\ pc[j] = "marked" /\ Holds(rows[j])
        BY <2>2, <3>1 DEF TInv, MarkedHolds
      <3>3. SessionOf[j] # s
        BY <1>1, <3>2, Places DEF TInv, GateExclusive
      <3> QED BY <1>2, <2>1, <3>2, <3>3
    <2>a. \A j \in Inputs : pc'[j] = "fresh" => pc[j] = "fresh" /\ target'[j] = target[j]
      BY <1>1, <2>2
    <2>5. \A r \in Runs : \A d \in Engaged(r) :
            Holds(rows[d]) => Holds(rows'[d]) \/ Stale(r, SessionOf[d])'
      <3>1. SUFFICES ASSUME NEW r \in Runs, NEW d \in Engaged(r), Holds(rows[d]), ~Holds(rows'[d])
                     PROVE  Stale(r, SessionOf[d])'
        OBVIOUS
      <3>2. d = f
        BY <2>1, <3>1, EngagedTyped
      <3>3. r # target[i].run
        BY <1>1, <1>2, <3>1, <3>2 DEF TInv, FreshIsIdle
      <3>4. bound'[s] # r
        BY <1>1, <3>3, NewRuns DEF TInv, FreshIsIdle
      <3>5. \A j \in Inputs : SessionOf[j] = s => ~Holds(rows'[j])
        BY <1>2, <2>1, SlotFacts
      <3> QED BY <1>2, <3>2, <3>4, <3>5 DEF Stale
    <2>6. NoRetry'
      BY <1>1 DEF TInv, NoRetry
    <2> QED BY <1>1, <2>2, <2>a, <2>3, <2>4, <2>5, <2>6, TurnsUntouched
  <1>4. CASE UNCHANGED vars
    BY <1>1, <1>2, <1>4, IdleCalm, TurnsCalm, Places DEF WInv
  <1> QED BY <1>3, <1>4 DEF ClearFence

LEMMA TPeek ==
  ASSUME WInv, TInv, NEW s \in Sessions, PeekQueue(s)
  PROVE  TInv'
  <1>1. UNCHANGED <<pc, target, bound, used, work, dones, seen, served, retry>>
    BY DEF PeekQueue, workers, history
  <1>2. CASE UNCHANGED vars
    BY <1>1, <1>2, IdleCalm, TurnsIdle DEF WInv
  <1>3. ASSUME NEW i \in QueueOf(s), CancelQueued(i)
        PROVE  TInv'
    <2>1. {i} \in SUBSET Inputs
      BY DEF QueueOf
    <2> QED BY <1>1, <1>3, <2>1, SettleCalm, TurnsIdle DEF WInv, CancelQueued
  <1> QED BY <1>2, <1>3 DEF PeekQueue

LEMMA TClaimHead ==
  ASSUME WInv, TInv, NEW s \in Sessions, ClaimHead(s)
  PROVE  TInv'
  <1>1. UNCHANGED <<bound, used, work, dones, seen, served, retry>>
    BY DEF ClaimHead, workers, history
  <1>2. PICK i \in Inputs : i = peeked[s] /\ SessionOf[i] = s
    BY DEF ClaimHead, WInv, DTypeOK, PeekOK
  <1>3. CASE ClaimQueued(gw, i, bound[s], 0) /\ Move(i, "claimed") /\ Note(i, i, bound[s])
    BY <1>1, <1>2, <1>3, BoundTyped, NotesOne, TurnsTake, Places
  <1>4. CASE UNCHANGED <<vars, pc, target>>
    BY <1>1, <1>4, IdleCalm, TurnsIdle DEF WInv
  <1> QED BY <1>2, <1>3, <1>4 DEF ClaimHead

LEMMA TBackground ==
  ASSUME WInv, TInv, ~Operator, Background
  PROVE  TInv'
  <1>1. UNCHANGED <<pc, target, bound, used, work, dones, seen, served, retry>>
    BY DEF Background, handler, workers, history
  <1> QED BY <1>1, BackgroundRows, TurnsIdle

\* Rows stay, streams shrink, and a session's run may change.
LEMMA TurnsRebind ==
  ASSUME WInv, TInv, Shrinks, UNCHANGED <<rows, served>>,
         NEW s \in Sessions, retry' = retry \/ CancelRetry(s),
         \/ UNCHANGED <<bound, used>>
         \/ bound' = [bound EXCEPT ![s] = NoRun] /\ used' = used
         \/ \E r \in Runs \ used : bound' = [bound EXCEPT ![s] = r] /\ used' = used \cup {r},
         \A r \in Runs : \A d \in Working(r)' : bound'[SessionOf[d]] = bound[SessionOf[d]],
         GateExclusive', FreshIsIdle', MarkedHolds', SeenOK'
  PROVE  TInv'
  <1>1. /\ Once' /\ DonesTrue'
        /\ \A r \in Runs : Working(r)' \subseteq Working(r) /\ Engaged(r)' \subseteq Engaged(r)
        /\ \A r \in Runs : work'[r] # << >> \/ dones'[r] # << >> => r \in used
    BY Shrunk DEF TInv
  <1>2. used \subseteq used'
    OBVIOUS
  <1>3. RunsApart' /\ BoundOK
    BY <1>1, <1>2, Bindings DEF TInv
  <1>4. HoldersOK
    BY DEF HoldersOK
  <1>5. Tied'
    BY <1>1, <1>3, <1>4, TiedStays DEF TInv
  <1> QED BY <1>1, <1>3, <1>5, StaysQuiet DEF TInv

\* A replacement under way stays as it is while nobody is engaged anew and no
\* session is bound anew.
LEMMA FreshStays ==
  ASSUME WInv, TInv, UNCHANGED <<pc, target>>, used \subseteq used',
         \A s \in Sessions : bound'[s] \in {bound[s], NoRun},
         \A r \in Runs : Engaged(r)' \subseteq Engaged(r)
  PROVE  FreshIsIdle'
  <1>1. SUFFICES ASSUME NEW i \in Inputs, pc[i] = "fresh"
                 PROVE  /\ bound'[SessionOf[i]] \in {target[i].run, NoRun}
                        /\ target[i].run \in used'
                        /\ \A d \in Engaged(target[i].run)' : SessionOf[d] # SessionOf[i]
    BY DEF TInv, FreshIsIdle
  <1>2. target[i].run \in Runs /\ target[i].run \in used /\ SessionOf[i] \in Sessions
    BY <1>1, SessionTyped DEF TInv, FreshIsIdle, WInv, HandlerOK
  <1>3. \A q \in Runs : q = target[i].run =>
          \A d \in Engaged(q)' : SessionOf[d] # SessionOf[i]
    BY <1>1 DEF TInv, FreshIsIdle
  <1> QED BY <1>1, <1>2, <1>3 DEF TInv, FreshIsIdle

LEMMA TWorkerCrash ==
  ASSUME WInv, TInv, NEW s \in Sessions, WorkerCrash(s)
  PROVE  TInv'
  <1>1. PICK r \in Runs : r = bound[s]
    BY DEF WorkerCrash, WInv, DTypeOK
  <1>2. /\ bound' = [bound EXCEPT ![s] = NoRun] /\ used' = used
        /\ work' = [work EXCEPT ![r] = << >>]
        /\ CancelRetry(s)
        /\ UNCHANGED <<rows, pc, target, dones, seen, served>>
    BY <1>1 DEF WorkerCrash, vars, handler, history
  <1>3. /\ work \in [Runs -> Seq(Inputs)] /\ bound \in [Sessions -> Runs \cup {NoRun}]
    BY DEF WInv, DTypeOK
  <1>4. Shrinks
    BY <1>2, <1>3 DEF Shrinks
  <1>5. \A q \in Runs : Engaged(q)' \subseteq Engaged(q)
    BY <1>4, Shrunk DEF TInv
  <1>6. \A q \in Runs : \A d \in Working(q)' : bound'[SessionOf[d]] = bound[SessionOf[d]]
    <2>1. SUFFICES ASSUME NEW q \in Runs, NEW d \in Working(q)', SessionOf[d] = s
                   PROVE  FALSE
      BY <1>2, <1>3
    <2>2. q # r
      BY <1>2, <1>3, <2>1, ItemsEmpty DEF Working
    <2>3. d \in Working(q)
      BY <1>2, <1>3, <2>1, <2>2 DEF Working
    <2> QED BY <1>1, <2>1, <2>2, <2>3 DEF TInv, Tied
  <1>7. GateExclusive' /\ MarkedHolds' /\ SeenOK'
    BY <1>2 DEF TInv, GateExclusive, MarkedHolds, SeenOK
  <1>8. \A t \in Sessions : bound'[t] \in {bound[t], NoRun}
    BY <1>2, <1>3
  <1>9. FreshIsIdle'
    BY <1>2, <1>5, <1>8, FreshStays
  <1> QED BY <1>2, <1>4, <1>6, <1>7, <1>9, TurnsRebind

LEMMA TReadOpen ==
  ASSUME WInv, TInv, NEW s \in Sessions, NEW r \in Runs, ReadOpen(s, r)
  PROVE  TInv'
  <1>1. /\ dones[r] # << >> /\ seen[r] = NoInput /\ SessionOf[Head(dones[r]).input] = s
        /\ UNCHANGED <<rows, pc, target, bound, used, work, retry, served>>
    BY DEF ReadOpen, vars, handler, history
  <1>2. /\ dones \in [Runs -> Seq(Report)]
        /\ seen \in [Runs -> [input: Inputs, status: Delivery] \cup {NoInput}]
    BY DEF WInv, DTypeOK, Report
  <1>3. Shrinks /\ SeenOK'
    <2>1. CASE dones' = [dones EXCEPT ![r] = Tail(@)] /\ UNCHANGED seen
      BY <1>1, <1>2, <2>1 DEF Shrinks, SeenOK, TInv
    <2>2. ASSUME NEW i \in OpenBySession(s), UNCHANGED dones,
                 seen' = [seen EXCEPT ![r] = [input |-> i, status |-> rows[i].status]]
          PROVE  Shrinks /\ SeenOK'
      <3>1. SessionOf[i] = s
        BY DEF OpenBySession
      <3>2. seen'[r].input = i /\ \A q \in Runs : q # r => seen'[q] = seen[q]
        BY <1>2, <2>2
      <3> QED BY <1>1, <2>2, <3>1, <3>2 DEF Shrinks, SeenOK, TInv
    <2> QED BY <2>1, <2>2 DEF ReadOpen
  <1>4. \A q \in Runs : Engaged(q)' \subseteq Engaged(q)
    BY <1>3, Shrunk DEF TInv
  <1>5. FreshIsIdle'
    BY <1>1, <1>4, FreshStays
  <1>6. GateExclusive' /\ MarkedHolds'
    BY <1>1 DEF TInv, GateExclusive, MarkedHolds
  <1> QED BY <1>1, <1>3, <1>5, <1>6, TurnsRebind

LEMMA TResume ==
  ASSUME WInv, TInv, NEW i \in Inputs, NEW r \in Runs, ResumeSession(i, r)
  PROVE  TInv'
  <1> DEFINE s == SessionOf[i]
  <1>1. /\ pc[i] = "accepted" /\ bound[s] = NoRun /\ r \in Runs \ used
        /\ bound' = [bound EXCEPT ![s] = r] /\ used' = used \cup {r}
        /\ UNCHANGED <<rows, pc, target, work, dones, seen, retry, served>>
    BY DEF ResumeSession, vars, handler, history
  <1>2. s \in Sessions /\ bound \in [Sessions -> Runs \cup {NoRun}]
    BY SessionTyped DEF WInv, DTypeOK
  <1>3. Shrinks /\ \A q \in Runs : Working(q)' = Working(q) /\ Engaged(q)' = Engaged(q)
    BY <1>1 DEF Shrinks, Working, Reported, Engaged
  <1>4. \A q \in Runs : \A d \in Working(q)' : bound'[SessionOf[d]] = bound[SessionOf[d]]
    <2>1. SUFFICES ASSUME NEW q \in Runs, NEW d \in Working(q), SessionOf[d] = s
                   PROVE  FALSE
      BY <1>1, <1>2, <1>3
    <2> QED BY <1>1, <2>1, NewRuns DEF TInv, Tied
  <1>5. FreshIsIdle'
    <2>1. SUFFICES ASSUME NEW j \in Inputs, pc[j] = "fresh"
                   PROVE  /\ bound'[SessionOf[j]] \in {target[j].run, NoRun}
                          /\ target[j].run \in used'
                          /\ \A d \in Engaged(target[j].run)' : SessionOf[d] # SessionOf[j]
      BY <1>1 DEF TInv, FreshIsIdle
    <2>2. SessionOf[j] # s
      BY <1>1, <2>1, Places DEF TInv, GateExclusive
    <2>3. bound'[SessionOf[j]] = bound[SessionOf[j]]
      BY <1>1, <1>2, <2>2
    <2>4. Engaged(target[j].run)' = Engaged(target[j].run)
      BY <1>1 DEF Working, Reported, Engaged
    <2> QED BY <1>1, <2>1, <2>3, <2>4 DEF TInv, FreshIsIdle
  <1>6. GateExclusive' /\ MarkedHolds' /\ SeenOK'
    BY <1>1 DEF TInv, GateExclusive, MarkedHolds, SeenOK
  <1> QED BY <1>1, <1>2, <1>3, <1>4, <1>5, <1>6, TurnsRebind

LEMMA TFreshStartFails ==
  ASSUME WInv, TInv, NEW i \in Inputs, NEW f \in Inputs, FreshStartFails(i, f)
  PROVE  TInv'
  <1> DEFINE s == SessionOf[i]
  <1>1. /\ Move(i, "busy") /\ CancelRetry(s)
        /\ UNCHANGED <<rows, target, used, dones, seen, served>>
    BY DEF FreshStartFails, vars, history
  <1>2. s \in Sessions /\ bound \in [Sessions -> Runs \cup {NoRun}]
    BY SessionTyped DEF WInv, DTypeOK
  <1>3. CASE UNCHANGED <<bound, work>>
    <2>1. Calm
      BY IdleCalm DEF FreshStartFails, WInv
    <2> QED BY <1>1, <1>2, <1>3, <2>1, TurnsCalm, Places
  <1>4. CASE bound' = [bound EXCEPT ![s] = NoRun] /\ work' = WorkAfterTerminate(s)
    <2>1. /\ Shrinks
          /\ \A t \in Sessions : bound'[t] \in {bound[t], NoRun}
      BY <1>1, <1>2, <1>4 DEF Shrinks, WorkAfterTerminate
    <2>2. \A q \in Runs : Engaged(q)' \subseteq Engaged(q)
      BY <2>1, Shrunk DEF TInv
    <2>3. \A q \in Runs : \A d \in Working(q)' : bound'[SessionOf[d]] = bound[SessionOf[d]]
      <3>1. SUFFICES ASSUME NEW q \in Runs, NEW d \in Working(q)', SessionOf[d] = s
                     PROVE  FALSE
        BY <1>2, <1>4
      <3>2. q # bound[s]
        BY <1>4, <3>1, ItemsEmpty DEF Working, WorkAfterTerminate
      <3>3. d \in Working(q)
        BY <1>4, <3>1, <3>2 DEF Working, WorkAfterTerminate
      <3> QED BY <3>1, <3>2, <3>3 DEF TInv, Tied
    <2>4. GateExclusive' /\ pc'[i] = "busy" /\ \A j \in Inputs : j # i => pc'[j] = pc[j]
      BY <1>1, GateMoves, Places DEF TInv
    <2>5. FreshIsIdle'
      <3>1. SUFFICES ASSUME NEW j \in Inputs, pc[j] = "fresh"
                     PROVE  /\ bound'[SessionOf[j]] \in {target[j].run, NoRun}
                            /\ \A d \in Engaged(target[j].run)' : SessionOf[d] # SessionOf[j]
        BY <1>1, <2>4 DEF TInv, FreshIsIdle
      <3>2. target[j].run \in Runs /\ SessionOf[j] \in Sessions
        BY <3>1, SessionTyped DEF WInv, HandlerOK
      <3>3. \A q \in Runs : q = target[j].run =>
              \A d \in Engaged(q)' : SessionOf[d] # SessionOf[j]
        BY <2>2, <3>1 DEF TInv, FreshIsIdle
      <3>4. \A d \in Engaged(target[j].run)' : SessionOf[d] # SessionOf[j]
        BY <1>1, <3>2, <3>3 DEF Engaged, Working, Reported
      <3> QED BY <2>1, <3>1, <3>2, <3>4 DEF TInv, FreshIsIdle
    <2>6. MarkedHolds' /\ SeenOK'
      BY <1>1, <2>4 DEF TInv, MarkedHolds, SeenOK
    <2> QED BY <1>1, <1>2, <1>4, <2>1, <2>3, <2>4, <2>5, <2>6, TurnsRebind
  <1> QED BY <1>3, <1>4 DEF FreshStartFails

LEMMA TDeliverFenced ==
  ASSUME WInv, TInv, NEW i \in Inputs, NEW f \in Inputs, NEW r \in Runs, DeliverFenced(i, f, r)
  PROVE  TInv'
  <1> DEFINE s == SessionOf[i]
  <1>1. /\ GateFree(s) /\ SessionOf[f] = s /\ r \in Runs \ used /\ Move(i, "fresh")
        /\ target' = [target EXCEPT ![i] = [row |-> f, run |-> r]]
        /\ bound' = [bound EXCEPT ![s] = r] /\ used' = used \cup {r}
        /\ work' = [q \in Runs |-> IF q = bound[s] THEN <<>> ELSE work[q]]
        /\ UNCHANGED <<rows, dones, seen, retry, served>>
    BY DEF DeliverFenced, Note, vars, history, WorkAfterTerminate
  <1>2. /\ s \in Sessions /\ bound \in [Sessions -> Runs \cup {NoRun}]
        /\ target \in [Inputs -> [row: Inputs \cup {NoInput}, run: Runs \cup {NoRun}]]
    BY SessionTyped DEF WInv, DTypeOK
  <1>3. GateExclusive' /\ pc'[i] = "fresh" /\ \A j \in Inputs : j # i => pc'[j] = pc[j]
    BY <1>1, GateMoves, Places DEF TInv
  <1>4. Shrinks
    BY <1>1 DEF Shrinks
  <1>5. \A q \in Runs : Engaged(q)' \subseteq Engaged(q)
    BY <1>4, Shrunk DEF TInv
  <1>6. \A q \in Runs : \A d \in Working(q)' : bound'[SessionOf[d]] = bound[SessionOf[d]]
    <2>1. SUFFICES ASSUME NEW q \in Runs, NEW d \in Working(q)', SessionOf[d] = s
                   PROVE  FALSE
      BY <1>1, <1>2
    <2>2. q # bound[s]
      BY <1>1, <2>1, ItemsEmpty DEF Working
    <2>3. d \in Working(q)
      BY <1>1, <2>1, <2>2 DEF Working
    <2> QED BY <2>1, <2>2, <2>3 DEF TInv, Tied
  <1>7. FreshIsIdle'
    <2>1. SUFFICES ASSUME NEW j \in Inputs, pc'[j] = "fresh"
                   PROVE  /\ SessionOf[target'[j].row] = SessionOf[j]
                          /\ bound'[SessionOf[j]] \in {target'[j].run, NoRun}
                          /\ target'[j].run \in used'
                          /\ \A d \in Engaged(target[j].run)' : SessionOf[d] # SessionOf[j]
      BY DEF FreshIsIdle
    <2>2. CASE j = i
      <3>1. target'[j].row = f /\ target'[j].run = r
        BY <1>1, <1>2, <2>2
      <3>2. \A d \in Engaged(r)' : FALSE
        BY <1>1, <1>5, EngagedUsed DEF TInv
      <3>3. \A d \in Engaged(target[j].run)' : FALSE
        BY <3>1, <3>2 DEF Engaged, Working, Reported
      <3> QED BY <1>1, <1>2, <2>2, <3>1, <3>3
    <2>3. CASE j # i
      <3>1. pc[j] = "fresh" /\ target'[j] = target[j]
        BY <1>1, <1>2, <1>3, <2>1, <2>3
      <3>2. SessionOf[j] # s
        BY <1>1, <3>1, Places DEF GateFree
      <3>3. bound'[SessionOf[j]] = bound[SessionOf[j]]
        BY <1>1, <1>2, <3>2
      <3>4. target[j].run \in Runs
        BY <3>1 DEF WInv, HandlerOK
      <3>5. \A q \in Runs : q = target[j].run =>
              \A d \in Engaged(q)' : SessionOf[d] # SessionOf[j]
        BY <1>5, <3>1 DEF TInv, FreshIsIdle
      <3>6. \A d \in Engaged(target[j].run)' : SessionOf[d] # SessionOf[j]
        BY <3>1, <3>4, <3>5 DEF Engaged, Working, Reported
      <3> QED BY <1>1, <3>1, <3>3, <3>6 DEF TInv, FreshIsIdle
    <2> QED BY <2>2, <2>3
  <1>8. MarkedHolds' /\ SeenOK'
    BY <1>1, <1>3 DEF TInv, MarkedHolds, SeenOK
  <1> QED BY <1>1, <1>2, <1>3, <1>4, <1>6, <1>7, <1>8, TurnsRebind

LEMMA ReportFacts ==
  ASSUME NEW d \in Inputs, NEW ok \in BOOLEAN
  PROVE  /\ [input |-> d, ok |-> ok] \in Report
         /\ [input |-> d, ok |-> ok].input = d
         /\ [input |-> d, ok |-> ok].ok <=> ok
  BY Zenon DEF Report

LEMMA TWorkerDone ==
  ASSUME WInv, TInv, NEW r \in Runs, NEW ok \in BOOLEAN, WorkerDone(r, ok)
  PROVE  TInv'
  <1>1. PICK d \in Inputs : d = Head(work[r]) /\ d \in Working(r)
    BY Streams, ItemsTyped DEF WorkerDone, Working
  <1>2. PICK x \in Report : x = [input |-> d, ok |-> ok] /\ x.input = d /\ (x.ok <=> ok)
    BY ReportFacts, Zenon
  <1>3. /\ work[r] # << >> /\ work' = [work EXCEPT ![r] = Tail(work[r])]
        /\ dones' = [dones EXCEPT ![r] = Append(dones[r], x)]
        /\ served \subseteq served' /\ (ok => d \in served')
        /\ UNCHANGED <<rows, pc, target, bound, used, seen, retry>>
    BY <1>1, <1>2 DEF WorkerDone, vars, handler
  <1>4. /\ work \in [Runs -> Seq(Inputs)] /\ dones \in [Runs -> Seq(Report)]
        /\ work[r] \in Seq(Inputs) /\ dones[r] \in Seq(Report)
    BY DEF WInv, DTypeOK, Report
  <1>5. \A q \in Runs : q # r => /\ work'[q] = work[q] /\ dones'[q] = dones[q]
                                 /\ Working(q)' = Working(q) /\ Reported(q)' = Reported(q)
    BY <1>3, <1>4 DEF Working, Reported
  <1>6. /\ Working(r) = Working(r)' \cup {d} /\ d \notin Working(r)' /\ Distinct(work'[r])
    <2>1. work'[r] = Tail(work[r]) /\ Distinct(work[r])
      BY <1>3, <1>4 DEF TInv, Once
    <2> QED BY <1>1, <1>3, <1>4, <2>1, ItemsTail DEF Working
  <1>7. /\ dones'[r] = Append(dones[r], x)
        /\ Reported(r)' = Reported(r) \cup {d} /\ NamesDistinct(dones'[r])
    <2>1. dones'[r] = Append(dones[r], x) /\ NamesDistinct(dones[r]) /\ d \notin Reported(r)
      BY <1>1, <1>3, <1>4 DEF TInv, Once
    <2> QED BY <1>2, <1>4, <2>1, NamedAppend DEF Reported
  <1>8. \A q \in Runs : /\ Working(q)' \subseteq Working(q)
                        /\ Engaged(q)' \subseteq Engaged(q)
    BY <1>1, <1>5, <1>6, <1>7 DEF Engaged
  <1>9. RunsApart' /\ BoundOK
    <2>1. r \in used
      BY <1>1, EngagedUsed DEF TInv, Engaged
    <2>2. \A q \in Runs : work'[q] # << >> \/ dones'[q] # << >> => q \in used'
      BY <1>3, <1>5, <2>1 DEF TInv, RunsApart
    <2> QED BY <1>3, <2>2, Bindings DEF TInv
  <1>10. HoldersOK
    BY <1>3 DEF HoldersOK
  <1>11. Tied'
    BY <1>3, <1>8, <1>9, <1>10, TiedStays DEF TInv
  <1>12. Once'
    <2>1. \A p, q \in Runs : /\ p # q => /\ Working(p) \cap Working(q) = {}
                                         /\ Reported(p) \cap Reported(q) = {}
                             /\ Working(p) \cap Reported(q) = {}
                             /\ Distinct(work[p]) /\ NamesDistinct(dones[p])
      BY DEF TInv, Once
    <2>2. \A p \in Runs : Distinct(work'[p]) /\ NamesDistinct(dones'[p])
      BY <1>5, <1>6, <1>7, <2>1
    <2>3. \A p, q \in Runs : p # q => Working(p)' \cap Working(q)' = {}
      BY <1>8, <2>1
    <2>4. \A p, q \in Runs : p # q => Reported(p)' \cap Reported(q)' = {}
      BY <1>1, <1>5, <1>7, <2>1
    <2>5. \A p, q \in Runs : Working(p)' \cap Reported(q)' = {}
      BY <1>1, <1>5, <1>6, <1>7, <2>1
    <2> QED BY <2>2, <2>3, <2>4, <2>5 DEF Once
  <1>13. DonesTrue'
    <2>1. SUFFICES ASSUME NEW q \in Runs, NEW n \in DOMAIN dones'[q], dones'[q][n].ok
                   PROVE  dones'[q][n].input \in served'
      BY DEF DonesTrue
    <2>2. CASE q # r
      BY <1>3, <1>5, <2>1, <2>2 DEF TInv, DonesTrue
    <2>3. CASE q = r /\ n \in DOMAIN dones[r] /\ dones'[q][n] = dones[r][n]
      BY <1>3, <2>1, <2>3 DEF TInv, DonesTrue
    <2>4. CASE q = r /\ dones'[q][n] = x
      BY <1>2, <1>3, <2>1, <2>4
    <2>5. q = r => (n \in DOMAIN dones[r] /\ dones'[q][n] = dones[r][n]) \/ dones'[q][n] = x
      <3>1. /\ Len(dones[r]) \in Nat /\ DOMAIN dones[r] = 1..Len(dones[r])
            /\ DOMAIN Append(dones[r], x) = 1..(Len(dones[r]) + 1)
            /\ \A m \in 1..Len(dones[r]) : Append(dones[r], x)[m] = dones[r][m]
            /\ Append(dones[r], x)[Len(dones[r]) + 1] = x
        BY <1>4
      <3> QED BY <1>7, <2>1, <3>1
    <2> QED BY <2>2, <2>3, <2>4, <2>5
  <1>14. SeenOK'
    <2>1. seen[r] # NoInput => dones[r] # << >>
      BY DEF WInv, GivenOK
    <2>2. dones[r] # << >> => Head(dones'[r]) = Head(dones[r])
      BY <1>4, <1>7
    <2> QED BY <1>3, <1>5, <2>1, <2>2 DEF TInv, SeenOK
  <1>15. FreshIsIdle'
    BY <1>3, <1>8, FreshStays
  <1>16. GateExclusive' /\ MarkedHolds' /\ NoRetry'
    BY <1>3 DEF TInv, GateExclusive, MarkedHolds, NoRetry
  <1> QED BY <1>9, <1>11, <1>12, <1>13, <1>14, <1>15, <1>16 DEF TInv

LEMMA TTurnTimeout ==
  ASSUME WInv, TInv, NEW s \in Sessions, TurnTimeout(s)
  PROVE  TInv'
  <1>1. PICK r \in Runs : r = bound[s]
    BY DEF TurnTimeout, WInv, DTypeOK
  <1>2. PICK d \in Engaged(r) :
          /\ d \in Inputs /\ seen[r] = NoInput
          /\ bound' = [bound EXCEPT ![s] = NoRun]
          /\ work' = [work EXCEPT ![r] = << >>]
          /\ dones' = [dones EXCEPT ![r] = <<[input |-> d, ok |-> FALSE]>>]
          /\ CancelRetry(s)
          /\ UNCHANGED <<vars, gw, spare, handler, used, ended, seen, history>>
    BY <1>1, TimedOut DEF Engaged
  <1>3. PICK x \in Report : x = [input |-> d, ok |-> FALSE] /\ x.input = d /\ ~x.ok
    BY <1>2, ReportFacts, FALSE \in BOOLEAN, Zenon
  <1>4. UNCHANGED <<rows, pc, target, used, seen, served>>
    BY <1>2 DEF vars, handler, history
  <1>5. /\ work \in [Runs -> Seq(Inputs)] /\ dones \in [Runs -> Seq(Report)]
        /\ bound \in [Sessions -> Runs \cup {NoRun}]
    BY DEF WInv, DTypeOK, Report
  <1>6. \A q \in Runs : q # r => /\ work'[q] = work[q] /\ dones'[q] = dones[q]
                                 /\ Working(q)' = Working(q) /\ Reported(q)' = Reported(q)
    BY <1>2, <1>5 DEF Working, Reported
  <1>7. /\ work'[r] = << >> /\ dones'[r] = <<x>> /\ Working(r)' = {} /\ Reported(r)' = {d}
        /\ Distinct(work'[r]) /\ NamesDistinct(dones'[r])
    <2>1. work'[r] = << >> /\ dones'[r] = <<x>>
      BY <1>2, <1>3, <1>5
    <2> QED BY <1>3, <2>1, ItemsEmpty, NamedSingle DEF Working, Reported
  <1>8. \A q \in Runs : /\ Working(q)' \subseteq Working(q)
                        /\ Engaged(q)' \subseteq Engaged(q)
    BY <1>2, <1>6, <1>7 DEF Engaged
  <1>9. RunsApart' /\ BoundOK
    <2>1. r \in used
      BY <1>2, EngagedUsed DEF TInv
    <2>2. \A q \in Runs : work'[q] # << >> \/ dones'[q] # << >> => q \in used'
      BY <1>4, <1>6, <2>1 DEF TInv, RunsApart
    <2> QED BY <1>2, <1>4, <2>2, Bindings DEF TInv
  <1>10. HoldersOK
    BY <1>4 DEF HoldersOK
  <1>11. \A q \in Runs : \A c \in Working(q)' : bound'[SessionOf[c]] = bound[SessionOf[c]]
    <2>1. SUFFICES ASSUME NEW q \in Runs, NEW c \in Working(q)', SessionOf[c] = s
                   PROVE  FALSE
      BY <1>2, <1>5
    <2>2. q # r /\ c \in Working(q)
      BY <1>6, <1>7, <2>1
    <2> QED BY <1>1, <2>1, <2>2 DEF TInv, Tied
  <1>12. Tied'
    BY <1>4, <1>8, <1>9, <1>10, <1>11, TiedStays DEF TInv
  <1>13. Once'
    <2>1. \A p, q \in Runs : /\ p # q => /\ Working(p) \cap Working(q) = {}
                                         /\ Reported(p) \cap Reported(q) = {}
                             /\ Working(p) \cap Reported(q) = {}
                             /\ Distinct(work[p]) /\ NamesDistinct(dones[p])
      BY DEF TInv, Once
    <2>2. \A p \in Runs : Distinct(work'[p]) /\ NamesDistinct(dones'[p])
      BY <1>6, <1>7, <2>1
    <2>3. \A p, q \in Runs : p # q => Working(p)' \cap Working(q)' = {}
      BY <1>8, <2>1
    <2>4. \A q \in Runs : q # r => d \notin Working(q) /\ d \notin Reported(q)
      BY <1>2, <2>1 DEF Engaged
    <2>5. \A p, q \in Runs : p # q => Reported(p)' \cap Reported(q)' = {}
      BY <1>6, <1>7, <2>1, <2>4
    <2>6. \A p, q \in Runs : Working(p)' \cap Reported(q)' = {}
      BY <1>6, <1>7, <2>1, <2>4
    <2> QED BY <2>2, <2>3, <2>5, <2>6 DEF Once
  <1>14. DonesTrue'
    <2>1. SUFFICES ASSUME NEW q \in Runs, NEW n \in DOMAIN dones'[q], dones'[q][n].ok
                   PROVE  dones'[q][n].input \in served'
      BY DEF DonesTrue
    <2>2. CASE q # r
      BY <1>4, <1>6, <2>1, <2>2 DEF TInv, DonesTrue
    <2>3. q # r
      <3>1. q = r => dones'[q][n] = x
        BY <1>7
      <3> QED BY <1>3, <2>1, <3>1
    <2> QED BY <2>2, <2>3
  <1>15. SeenOK'
    BY <1>2, <1>4, <1>6 DEF TInv, SeenOK
  <1>16. \A t \in Sessions : bound'[t] \in {bound[t], NoRun}
    BY <1>2, <1>5
  <1>17. FreshIsIdle'
    BY <1>4, <1>8, <1>16, FreshStays
  <1>18. GateExclusive' /\ MarkedHolds' /\ NoRetry'
    BY <1>2, <1>4, StaysQuiet DEF TInv, GateExclusive, MarkedHolds
  <1> QED BY <1>9, <1>12, <1>13, <1>14, <1>15, <1>17, <1>18 DEF TInv

\* What one place holds no other place holds.
LEMMA OnceFacts ==
  ASSUME Once
  PROVE  \A p, q \in Runs : /\ p # q => /\ Working(p) \cap Working(q) = {}
                                        /\ Reported(p) \cap Reported(q) = {}
                            /\ Working(p) \cap Reported(q) = {}
                            /\ Distinct(work[p]) /\ NamesDistinct(dones[p])
  BY DEF Once

LEMMA TDispatch ==
  ASSUME WInv, TInv, NEW i \in Inputs, NEW o \in {"delivered", "failed", "unknown"},
         Dispatch(i, o)
  PROVE  TInv'
  <1> DEFINE s == SessionOf[i]
  <1>1. PICK r \in Runs : r = bound[s]
    BY BoundTyped DEF Dispatch
  <1>2. /\ pc[i] = "marked" /\ SendTo(r, i) /\ Move(i, o)
        /\ UNCHANGED <<rows, target, bound, used, dones, seen, retry, served>>
    BY <1>1 DEF Dispatch, vars
  <1>3. o \in Position /\ pc[i] \in InsideGate
    BY <1>2, Places
  <1>4. GateExclusive' /\ pc'[i] = o /\ \A j \in Inputs : j # i => pc'[j] = pc[j]
    BY <1>2, <1>3, GateMoves DEF TInv
  <1>5. /\ Working(r)' = Working(r) \cup {i}
        /\ \A q \in Runs : q # r => Working(q)' = Working(q)
        /\ \A q \in Runs : Reported(q)' = Reported(q)
        /\ work' = [work EXCEPT ![r] = Append(work[r], i)]
    BY <1>2, SendFacts DEF Reported
  <1>6. \A q \in Runs : i \notin Engaged(q)
    BY <1>2, EngagedTyped DEF WInv, HandlerOK
  <1>7. Holds(rows[i]) /\ s \in Sessions /\ r \in used
    BY <1>1, <1>2, NewRuns, SessionTyped DEF TInv, MarkedHolds, RunsApart
  <1>8. RunsApart' /\ BoundOK
    <2>1. \A q \in Runs : work'[q] # << >> \/ dones'[q] # << >> => q \in used'
      BY <1>2, <1>5, <1>7 DEF TInv, RunsApart, WInv, DTypeOK
    <2> QED BY <1>2, <2>1, Bindings DEF TInv
  <1>9. HoldersOK
    BY <1>2 DEF HoldersOK
  <1>10. Tied'
    <2>1. ASSUME NEW q \in Runs, NEW d \in Working(q)' PROVE bound'[SessionOf[d]] = q
      BY <1>1, <1>2, <1>5, <2>1 DEF TInv, Tied
    <2>2. ASSUME NEW q \in Runs, NEW d \in Engaged(q)'
          PROVE  Holds(rows'[d]) \/ Stale(q, SessionOf[d])'
      <3>1. CASE d = i
        BY <1>2, <1>7, <3>1
      <3>2. CASE d # i
        <4>1. d \in Engaged(q)
          BY <1>5, <2>2, <3>2 DEF Engaged
        <4>2. q \in used /\ SessionOf[d] \in Sessions
          BY <4>1, EngagedUsed, EngagedTyped DEF TInv
        <4>3. Stale(q, SessionOf[d]) => Stale(q, SessionOf[d])'
          BY <1>8, <1>9, <4>2, StaleStays
        <4> QED BY <1>2, <4>1, <4>3 DEF TInv, Tied
      <3> QED BY <3>1, <3>2
    <2>3. \A q \in Runs : /\ \A d \in Working(q)' : bound'[SessionOf[d]] = q
                          /\ \A d \in Engaged(q)' : Holds(rows'[d]) \/ Stale(q, SessionOf[d])'
      BY <2>1, <2>2
    <2> QED BY <2>3 DEF Tied
  <1>11. Once'
    <2>1. \A q \in Runs : i \notin Working(q) /\ i \notin Reported(q)
      BY <1>6 DEF Engaged
    <2>2. \A q \in Runs : Distinct(work'[q]) /\ NamesDistinct(dones'[q])
      <3>1. work[r] \in Seq(Inputs) /\ work \in [Runs -> Seq(Inputs)]
        BY DEF WInv, DTypeOK
      <3>2. Distinct(Append(work[r], i))
        BY <2>1, <3>1, OnceFacts, ItemsAppend DEF TInv, Working
      <3> QED BY <1>2, <1>5, <3>1, <3>2, OnceFacts DEF TInv
    <2>3. \A p, q \in Runs : p # q => /\ Working(p)' \cap Working(q)' = {}
                                      /\ Reported(p)' \cap Reported(q)' = {}
      BY <1>5, <2>1, OnceFacts DEF TInv
    <2>4. \A p, q \in Runs : Working(p)' \cap Reported(q)' = {}
      BY <1>5, <2>1, OnceFacts DEF TInv
    <2> QED BY <2>2, <2>3, <2>4 DEF Once
  <1>12. FreshIsIdle'
    <2>1. SUFFICES ASSUME NEW j \in Inputs, pc'[j] = "fresh", NEW d \in Engaged(target[j].run)'
                   PROVE  pc[j] = "fresh" /\ SessionOf[d] # SessionOf[j]
      <3>1. \A j \in Inputs : pc'[j] = "fresh" => pc[j] = "fresh"
        BY <1>4
      <3> QED BY <1>2, <2>1, <3>1 DEF TInv, FreshIsIdle
    <2>2. pc[j] = "fresh" /\ SessionOf[j] # s
      BY <1>2, <1>4, <2>1, Places DEF TInv, GateExclusive
    <2>3. PICK q \in Runs : q = target[j].run
      BY <2>2 DEF WInv, HandlerOK
    <2>4. d \in Engaged(q)'
      BY <1>2, <2>1, <2>3 DEF Engaged, Working, Reported
    <2>5. d = i \/ d \in Engaged(q)
      BY <1>5, <2>4 DEF Engaged
    <2> QED BY <2>2, <2>3, <2>5 DEF TInv, FreshIsIdle
  <1>13. MarkedHolds'
    BY <1>2, <1>4 DEF TInv, MarkedHolds
  <1>14. DonesTrue' /\ SeenOK' /\ NoRetry'
    BY <1>2 DEF TInv, DonesTrue, SeenOK, NoRetry
  <1> QED BY <1>4, <1>8, <1>10, <1>11, <1>12, <1>13, <1>14 DEF TInv

\* The input a crashed worker was busy with has the slot, and the fresh worker
\* is the only one that holds it.
LEMMA TCrashFallback ==
  ASSUME WInv, TInv, NEW s \in Sessions, NEW q \in Runs, CrashFallback(s, q)
  PROVE  TInv'
  <1>1. PICK r \in Runs : r = bound[s]
    BY DEF CrashFallback, WInv, DTypeOK
  <1>2. PICK x \in Inputs : x = Head(work[r]) /\ x \in Working(r)
    BY <1>1, Streams, ItemsTyped DEF CrashFallback, Working
  <1>3. /\ dones[r] = << >> /\ q \in Runs \ used
        /\ bound' = [bound EXCEPT ![s] = q] /\ used' = used \cup {q}
        /\ work' = [work EXCEPT ![r] = << >>, ![q] = <<x>>]
        /\ CancelRetry(s)
        /\ UNCHANGED <<rows, pc, target, dones, seen, served>>
    BY <1>1, <1>2 DEF CrashFallback, vars, handler
  <1>4. r \in used /\ r # q
    BY <1>2, <1>3, EngagedUsed DEF TInv, Engaged
  <1>5. SessionOf[x] = s
    <2>1. bound[SessionOf[x]] = r /\ SessionOf[x] \in Sessions
      BY <1>2, SessionTyped DEF TInv, Tied
    <2> QED BY <1>1, <2>1, NewRuns DEF TInv, RunsApart
  <1>6. Holds(rows[x])
    <2>1. ~Stale(r, s)
      BY <1>1 DEF Stale
    <2> QED BY <1>2, <1>5, <2>1 DEF TInv, Tied, Engaged
  <1>7. /\ work \in [Runs -> Seq(Inputs)] /\ bound \in [Sessions -> Runs \cup {NoRun}]
    BY DEF WInv, DTypeOK
  <1>8. /\ \A p \in Runs : Reported(p)' = Reported(p)
        /\ \A p \in Runs \ {r, q} : work'[p] = work[p] /\ Working(p)' = Working(p)
        /\ work'[r] = << >> /\ work'[q] = <<x>>
    BY <1>3, <1>4, <1>7 DEF Working, Reported
  <1>9. Working(r)' = {} /\ Working(q)' = {x} /\ Reported(r) = {} /\ Reported(q) = {}
    <2>1. Working(r)' = {} /\ Working(q)' = {x} /\ Reported(r) = {}
      BY <1>3, <1>8, ItemsEmpty, ItemsSingle, NamedEmpty DEF Working, Reported
    <2>2. Reported(q) = {}
      BY <1>3, EngagedUsed DEF TInv, Engaged
    <2> QED BY <2>1, <2>2
  <1>10. RunsApart' /\ BoundOK
    <2>1. \A p \in Runs : work'[p] # << >> \/ dones'[p] # << >> => p \in used'
      BY <1>3, <1>4, <1>8 DEF TInv, RunsApart
    <2> QED BY <1>3, <2>1, Bindings DEF TInv
  <1>11. HoldersOK
    BY <1>3 DEF HoldersOK
  <1>12. Tied'
    <2>1. ASSUME NEW p \in Runs, NEW d \in Working(p)' PROVE bound'[SessionOf[d]] = p
      <3>1. CASE p = q
        BY <1>3, <1>5, <1>7, <1>9, <2>1, <3>1
      <3>2. CASE p # q
        <4>1. p # r /\ d \in Working(p)
          BY <1>8, <1>9, <2>1, <3>2
        <4>2. bound[SessionOf[d]] = p
          BY <4>1 DEF TInv, Tied
        <4> QED BY <1>1, <1>3, <1>7, <4>1, <4>2
      <3> QED BY <3>1, <3>2
    <2>2. ASSUME NEW p \in Runs, NEW d \in Engaged(p)'
          PROVE  Holds(rows'[d]) \/ Stale(p, SessionOf[d])'
      <3>1. CASE d = x
        BY <1>3, <1>6, <3>1
      <3>2. CASE d # x
        <4>1. d \in Engaged(p)
          BY <1>8, <1>9, <2>2, <3>2 DEF Engaged
        <4>2. p \in used /\ SessionOf[d] \in Sessions
          BY <4>1, EngagedUsed, EngagedTyped DEF TInv
        <4>3. Stale(p, SessionOf[d]) => Stale(p, SessionOf[d])'
          BY <1>10, <1>11, <4>2, StaleStays
        <4> QED BY <1>3, <4>1, <4>3 DEF TInv, Tied
      <3> QED BY <3>1, <3>2
    <2>3. \A p \in Runs : /\ \A d \in Working(p)' : bound'[SessionOf[d]] = p
                          /\ \A d \in Engaged(p)' : Holds(rows'[d]) \/ Stale(p, SessionOf[d])'
      BY <2>1, <2>2
    <2> QED BY <2>3 DEF Tied
  <1>13. Once'
    <2>1. \A p \in Runs : p # r => x \notin Working(p)
      BY <1>2, OnceFacts DEF TInv
    <2>2. \A p \in Runs : x \notin Reported(p)
      BY <1>2, OnceFacts DEF TInv
    <2>3. \A p \in Runs : Distinct(work'[p]) /\ NamesDistinct(dones'[p])
      <3>1. Distinct(work'[r]) /\ Distinct(work'[q])
        BY <1>8, ItemsEmpty, ItemsSingle
      <3>2. \A p \in Runs : Distinct(work[p]) /\ NamesDistinct(dones[p])
        BY OnceFacts DEF TInv
      <3> QED BY <1>3, <1>8, <3>1, <3>2
    <2>4. \A p, u \in Runs : p # u => /\ Working(p)' \cap Working(u)' = {}
                                      /\ Reported(p)' \cap Reported(u)' = {}
      BY <1>8, <1>9, <2>1, OnceFacts DEF TInv
    <2>5. \A p, u \in Runs : Working(p)' \cap Reported(u)' = {}
      BY <1>8, <1>9, <2>2, OnceFacts DEF TInv
    <2> QED BY <2>3, <2>4, <2>5 DEF Once
  <1>14. FreshIsIdle'
    <2>1. SUFFICES ASSUME NEW j \in Inputs, pc[j] = "fresh"
                   PROVE  /\ bound'[SessionOf[j]] \in {target[j].run, NoRun}
                          /\ target[j].run \in used'
                          /\ \A d \in Engaged(target[j].run)' : SessionOf[d] # SessionOf[j]
      BY <1>3 DEF TInv, FreshIsIdle
    <2>2. PICK p \in Runs : p = target[j].run
      BY <2>1 DEF WInv, HandlerOK
    <2>3. /\ bound[SessionOf[j]] \in {p, NoRun} /\ p \in used
          /\ \A d \in Engaged(p) : SessionOf[d] # SessionOf[j]
      BY <2>1, <2>2 DEF TInv, FreshIsIdle
    <2>4. SessionOf[j] # s
      BY <1>1, <1>2, <1>5, <2>3, NewRuns DEF Engaged
    <2>5. p # q /\ bound'[SessionOf[j]] = bound[SessionOf[j]]
      BY <1>3, <1>7, <2>3, <2>4
    <2>6. Engaged(p)' \subseteq Engaged(p)
      BY <1>8, <1>9, <2>5 DEF Engaged
    <2>7. Engaged(target[j].run)' = Engaged(p)'
      BY <1>3, <2>2 DEF Engaged, Working, Reported
    <2> QED BY <1>3, <2>2, <2>3, <2>5, <2>6, <2>7
  <1>15. GateExclusive' /\ MarkedHolds' /\ DonesTrue' /\ SeenOK' /\ NoRetry'
    BY <1>3, StaysQuiet DEF TInv, GateExclusive, MarkedHolds, DonesTrue, SeenOK
  <1> QED BY <1>10, <1>12, <1>13, <1>14, <1>15 DEF TInv

\* A Done that finishes a record in the slot is the Done of that input.
LEMMA DoneIsOwn ==
  ASSUME WInv, TInv, NEW s \in Sessions, NEW r \in Runs, FinishDone(s, r),
         Holds(rows[seen[r].input]), rows[seen[r].input].run = r
  PROVE  /\ Head(dones[r]).input = seen[r].input
         /\ Head(dones[r]).input \in Reported(r)
  <1>1. PICK i \in Inputs : i = seen[r].input /\ SessionOf[i] = s
    BY DEF FinishDone, WInv, DTypeOK
  <1>2. dones[r] # << >> /\ dones[r] \in Seq(Report)
    BY DoneTaken
  <1>3. PICK d \in Inputs : d = Head(dones[r]).input /\ d \in Reported(r)
    BY <1>2, NamedTyped DEF Reported
  <1>4. SessionOf[d] = s
    BY <1>1, <1>3 DEF FinishDone, TInv, SeenOK
  <1>5. ~Stale(r, s)
    BY <1>1 DEF Stale
  <1>6. Holds(rows[d])
    BY <1>3, <1>4, <1>5 DEF TInv, Tied, Engaged
  <1>7. d = i
    BY <1>1, <1>4, <1>6, SlotFacts
  <1> QED BY <1>1, <1>3, <1>7

LEMMA TFinishDone ==
  ASSUME WInv, TInv, ~AutoRetry, NEW s \in Sessions, NEW r \in Runs, FinishDone(s, r)
  PROVE  TInv'
  <1>1. PICK i \in Inputs : i = seen[r].input
    BY DEF FinishDone, WInv, DTypeOK
  <1>2. /\ NobodyEnters /\ \A j \in Inputs : j # i => rows'[j] = rows[j]
        /\ rows' = rows \/ rows[i].run = r
    BY <1>1, DoneRows
  <1>3. /\ dones[r] # << >> /\ dones[r] \in Seq(Report)
        /\ dones' = [dones EXCEPT ![r] = Tail(dones[r])]
        /\ seen' = [seen EXCEPT ![r] = NoInput]
        /\ UNCHANGED <<pc, target, bound, used, work, served>>
    BY DoneTaken
  <1>4. retry' = retry
    BY DEF FinishDone
  <1>5. dones \in [Runs -> Seq(Report)]
        /\ seen \in [Runs -> [input: Inputs, status: Delivery] \cup {NoInput}]
    BY DEF WInv, DTypeOK, Report
  <1>6. Shrinks
    BY <1>3, <1>5 DEF Shrinks
  <1>7. /\ Once' /\ DonesTrue'
        /\ \A q \in Runs : Working(q)' \subseteq Working(q) /\ Reported(q)' \subseteq Reported(q)
                           /\ Engaged(q)' \subseteq Engaged(q)
        /\ \A q \in Runs : work'[q] # << >> \/ dones'[q] # << >> => q \in used
    BY <1>3, <1>6, Shrunk DEF TInv
  <1>8. RunsApart' /\ BoundOK
    BY <1>3, <1>7, Bindings DEF TInv
  <1>9. HoldersOK
    BY <1>2 DEF NobodyEnters, HoldersOK
  \* Who leaves the slot is the input whose Done is taken.
  <1>10. ASSUME NEW j \in Inputs, Holds(rows[j]), ~Holds(rows'[j])
         PROVE  /\ j \in Reported(r) /\ j \notin Reported(r)'
                /\ \A q \in Runs : j \notin Engaged(q)'
    <2>1. j = i /\ rows[i].run = r
      BY <1>2, <1>10
    <2>2. Head(dones[r]).input = j /\ j \in Reported(r)
      BY <1>1, <1>10, <2>1, DoneIsOwn
    <2>3. j \notin Reported(r)'
      <3>1. NamesDistinct(dones[r]) /\ dones'[r] = Tail(dones[r])
        BY <1>3, <1>5, OnceFacts DEF TInv
      <3> QED BY <1>3, <2>2, <3>1, NamedTail DEF Reported
    <2>4. \A q \in Runs : j \notin Working(q) /\ (q # r => j \notin Reported(q))
      BY <2>2, OnceFacts DEF TInv
    <2> QED BY <1>7, <2>2, <2>3, <2>4 DEF Engaged
  <1>11. Tied'
    <2>1. \A q \in Runs : \A d \in Engaged(q)' : Holds(rows[d]) => Holds(rows'[d])
      <3>1. SUFFICES ASSUME NEW q \in Runs, NEW d \in Engaged(q)', Holds(rows[d]), ~Holds(rows'[d])
                     PROVE  FALSE
        OBVIOUS
      <3>2. d \in Inputs
        BY <1>7, <3>1, EngagedTyped
      <3> QED BY <1>10, <3>1, <3>2
    <2> QED BY <1>3, <1>7, <1>8, <1>9, <2>1, TiedStays DEF TInv
  <1>12. MarkedHolds'
    <2>1. SUFFICES ASSUME NEW j \in Inputs, pc[j] = "marked", ~Holds(rows'[j])
                   PROVE  FALSE
      BY <1>3 DEF MarkedHolds
    <2>2. j \in Engaged(r)
      BY <1>10, <2>1 DEF TInv, MarkedHolds, Engaged
    <2> QED BY <2>1, <2>2, EngagedTyped DEF WInv, HandlerOK
  <1>13. SeenOK'
    <2>1. seen'[r] = NoInput /\ \A q \in Runs : q # r => seen'[q] = seen[q] /\ dones'[q] = dones[q]
      BY <1>3, <1>5
    <2> QED BY <2>1 DEF TInv, SeenOK
  <1>14. FreshIsIdle'
    BY <1>3, <1>7, FreshStays
  <1>15. GateExclusive' /\ NoRetry'
    BY <1>3, <1>4 DEF TInv, GateExclusive, NoRetry
  <1> QED BY <1>7, <1>8, <1>11, <1>12, <1>13, <1>14, <1>15 DEF TInv

LEMMA TStop ==
  ASSUME WInv, TInv, NEW s \in Sessions, Stop(s)
  PROVE  TInv'
  <1>1. PICK r \in Runs : r = bound[s]
    BY DEF Stop, WInv, DTypeOK
  <1>2. /\ GateFree(s) /\ seen[r] = NoInput
        /\ bound' = [bound EXCEPT ![s] = NoRun] /\ used' = used
        /\ work' = [work EXCEPT ![r] = << >>] /\ dones' = [dones EXCEPT ![r] = << >>]
        /\ CancelRetry(s)
        /\ UNCHANGED <<pc, target, seen, served>>
    BY <1>1 DEF Stop, handler, history
  <1>3. /\ work \in [Runs -> Seq(Inputs)] /\ dones \in [Runs -> Seq(Report)]
        /\ bound \in [Sessions -> Runs \cup {NoRun}]
    BY DEF WInv, DTypeOK, Report
  <1>4. Shrinks
    BY <1>2, <1>3 DEF Shrinks
  <1>5. /\ Once' /\ DonesTrue'
        /\ \A q \in Runs : Working(q)' \subseteq Working(q) /\ Engaged(q)' \subseteq Engaged(q)
        /\ \A q \in Runs : work'[q] # << >> \/ dones'[q] # << >> => q \in used
    BY <1>2, <1>4, Shrunk DEF TInv
  <1>6. RunsApart' /\ BoundOK
    BY <1>2, <1>5, Bindings DEF TInv
  <1>7. /\ NobodyEnters
        /\ \/ NobodyLeaves
           \/ \E i \in Inputs : SessionOf[i] = s /\ \A j \in Inputs : j # i => rows'[j] = rows[j]
    BY StopRows
  <1>8. HoldersOK
    BY <1>7 DEF NobodyEnters, HoldersOK
  <1>9. ASSUME NEW j \in Inputs, Holds(rows[j]), ~Holds(rows'[j])
        PROVE  SessionOf[j] = s
    BY <1>7, <1>9 DEF NobodyLeaves
  <1>10. \A q \in Runs : \A d \in Working(q)' : bound'[SessionOf[d]] = bound[SessionOf[d]]
    <2>1. SUFFICES ASSUME NEW q \in Runs, NEW d \in Working(q)', SessionOf[d] = s
                   PROVE  FALSE
      BY <1>2, <1>3
    <2>2. q # r
      BY <1>2, <1>3, <2>1, ItemsEmpty DEF Working
    <2>3. d \in Working(q)
      BY <1>5, <2>1
    <2> QED BY <1>1, <2>1, <2>2, <2>3 DEF TInv, Tied
  <1>11. \A q \in Runs : \A d \in Engaged(q)' :
           Holds(rows[d]) => Holds(rows'[d]) \/ Stale(q, SessionOf[d])'
    <2>1. SUFFICES ASSUME NEW q \in Runs, NEW d \in Engaged(q)', Holds(rows[d]), ~Holds(rows'[d])
                   PROVE  Stale(q, SessionOf[d])'
      OBVIOUS
    <2>2. d \in Inputs
      BY <1>5, <2>1, EngagedTyped
    <2>3. SessionOf[d] = s
      BY <1>9, <2>1, <2>2
    <2>4. \A j \in Inputs : SessionOf[j] = s => ~Holds(rows'[j])
      BY <1>7, <2>1, <2>2, <2>3, SlotFacts DEF NobodyEnters
    <2>5. bound'[s] # q
      BY <1>2, <1>3, NewRuns
    <2> QED BY <2>3, <2>4, <2>5 DEF Stale
  <1>12. Tied'
    BY <1>5, <1>6, <1>8, <1>10, <1>11, TiedStays DEF TInv
  <1>13. MarkedHolds'
    <2>1. SUFFICES ASSUME NEW j \in Inputs, pc[j] = "marked"
                   PROVE  Holds(rows'[j])
      BY <1>2 DEF MarkedHolds
    <2> QED BY <1>2, <1>9, <2>1, Places DEF TInv, MarkedHolds, GateFree
  <1>14. SeenOK'
    <2>1. \A q \in Runs : q # r => dones'[q] = dones[q]
      BY <1>2, <1>3
    <2> QED BY <1>2, <2>1 DEF TInv, SeenOK
  <1>15. \A t \in Sessions : bound'[t] \in {bound[t], NoRun}
    BY <1>2, <1>3
  <1>16. FreshIsIdle'
    BY <1>2, <1>5, <1>15, FreshStays
  <1>17. GateExclusive' /\ NoRetry'
    BY <1>2, StaysQuiet DEF TInv, GateExclusive
  <1> QED BY <1>5, <1>6, <1>12, <1>13, <1>14, <1>16, <1>17 DEF TInv

\* Nobody is at work and no delivery is under way, as at a start.
LEMMA TAtRest ==
  ASSUME \A i \in Inputs : pc[i] = "idle",
         \A s \in Sessions : bound[s] = NoRun /\ retry[s] = NoInput,
         \A r \in Runs : work[r] = << >> /\ dones[r] = << >> /\ seen[r] = NoInput
  PROVE  TInv
  <1>1. \A r \in Runs : Working(r) = {} /\ Reported(r) = {} /\ Engaged(r) = {}
                        /\ Distinct(work[r]) /\ NamesDistinct(dones[r])
    BY ItemsEmpty, NamedEmpty DEF Working, Reported, Engaged
  <1>2. GateExclusive /\ FreshIsIdle /\ MarkedHolds
    BY Places DEF GateExclusive, FreshIsIdle, MarkedHolds
  <1>3. RunsApart /\ Tied /\ Once
    BY <1>1 DEF RunsApart, Tied, Once
  <1>4. DonesTrue /\ SeenOK /\ NoRetry
    BY DEF DonesTrue, SeenOK, NoRetry
  <1> QED BY <1>2, <1>3, <1>4 DEF TInv

LEMMA TRestarted ==
  ASSUME NEW g \in Gateways, GatewayCrash(g) \/ GatewayShutdown(g)
  PROVE  TInv'
  <1>1. Restarted(g)
    BY DEF GatewayCrash, GatewayShutdown
  <1>2. /\ \A i \in Inputs : pc'[i] = "idle"
        /\ \A s \in Sessions : bound'[s] = NoRun /\ retry'[s] = NoInput
        /\ \A r \in Runs : work'[r] = << >> /\ dones'[r] = << >> /\ seen'[r] = NoInput
    BY <1>1 DEF Restarted
  <1>3. \A r \in Runs : Working(r)' = {} /\ Reported(r)' = {} /\ Engaged(r)' = {}
                        /\ Distinct(work'[r]) /\ NamesDistinct(dones'[r])
    BY <1>2, ItemsEmpty, NamedEmpty DEF Working, Reported, Engaged
  <1>4. GateExclusive' /\ FreshIsIdle' /\ MarkedHolds'
    BY <1>2, Places DEF GateExclusive, FreshIsIdle, MarkedHolds
  <1>5. RunsApart' /\ Tied' /\ Once'
    BY <1>2, <1>3 DEF RunsApart, Tied, Once
  <1>6. DonesTrue' /\ SeenOK' /\ NoRetry'
    BY <1>2 DEF DonesTrue, SeenOK, NoRetry
  <1> QED BY <1>4, <1>5, <1>6 DEF TInv

LEMMA TInit ==
  ASSUME DInit
  PROVE  TInv
  BY TAtRest DEF DInit

LEMMA TNext ==
  ASSUME WInv, TInv, ~AutoRetry, ~Operator, [DNext]_all
  PROVE  TInv'
  <1>1. ASSUME NEW i \in Inputs,
               \/ Deliver(i) \/ DeliverBusy(i) \/ ClearFence(i) \/ RetryAccept(i)
               \/ DeliverClaimed(i) \/ MarkDelivery(i) \/ RefuseTurn(i)
        PROVE  TInv'
    BY <1>1, TDeliver, TDeliverBusy, TClearFence, TRetryAccept, TDeliverClaimed, TMarkDelivery,
       TRefuseTurn
  <1>2. ASSUME NEW i \in Inputs,
               \/ EnqueueBusyInput(i) \/ SupplementNotDurable(i) \/ SettleUndispatchable(i)
               \/ RefuseAccepted(i) \/ FinishInputExecution(i)
               \/ \E p \in {"refused", "failed", "unknown"} : NotTaken(i, p)
        PROVE  TInv'
    BY <1>2, TQuietMoves
  <1>3. ASSUME NEW i \in Inputs, NEW p \in {"delivered", "failed", "unknown"}, Dispatch(i, p)
        PROVE  TInv'
    BY <1>3, TDispatch
  <1>4. ASSUME NEW i \in Inputs, NEW r \in Runs, ResumeSession(i, r)
        PROVE  TInv'
    BY <1>4, TResume
  <1>5. ASSUME NEW i \in Inputs, NEW f \in Inputs,
               FreshStartFails(i, f) \/ \E r \in Runs : DeliverFenced(i, f, r)
        PROVE  TInv'
    BY <1>5, TFreshStartFails, TDeliverFenced
  <1>6. ASSUME NEW s \in Sessions,
               \/ PeekQueue(s) \/ ClaimHead(s) \/ WorkerCrash(s) \/ TurnTimeout(s) \/ Stop(s)
        PROVE  TInv'
    BY <1>6, TPeek, TClaimHead, TWorkerCrash, TTurnTimeout, TStop
  <1>7. ASSUME NEW s \in Sessions, RetryFires(s)
        PROVE  FALSE
    BY <1>7 DEF RetryFires, TInv, NoRetry
  <1>8. ASSUME NEW s \in Sessions, NEW r \in Runs,
               ReadOpen(s, r) \/ FinishDone(s, r) \/ CrashFallback(s, r)
        PROVE  TInv'
    BY <1>8, TReadOpen, TFinishDone, TCrashFallback
  <1>9. ASSUME NEW r \in Runs, NEW ok \in BOOLEAN, WorkerDone(r, ok)
        PROVE  TInv'
    BY <1>9, TWorkerDone
  <1>10. ASSUME NEW g \in Gateways, GatewayCrash(g) \/ GatewayShutdown(g)
         PROVE  TInv'
    BY <1>10, TRestarted
  <1>11. CASE Background
    BY <1>11, TBackground
  <1>12. CASE UNCHANGED all
    <2>1. UNCHANGED <<vars, pc, target, bound, used, work, dones, seen, retry, served>>
      BY <1>12 DEF all, handler, workers, history
    <2> QED BY <2>1, IdleCalm, TurnsIdle DEF WInv
  <1> QED BY <1>1, <1>2, <1>3, <1>4, <1>5, <1>6, <1>7, <1>8, <1>9, <1>10, <1>11, <1>12 DEF DNext

\* All that workers hold of one session is one input in one place.
LEMMA OnePlace ==
  ASSUME WInv, TInv, NEW p \in Runs, NEW q \in Runs,
         NEW m \in DOMAIN work[p], NEW n \in DOMAIN work[q],
         SessionOf[work[p][m]] = SessionOf[work[q][n]]
  PROVE  p = q /\ m = n
  <1>1. work[p][m] \in Working(p) /\ work[q][n] \in Working(q)
    BY DEF Working, Items
  <1>2. p = q
    BY <1>1 DEF TInv, Tied
  <1>3. \A d \in Working(p) : d \in Inputs /\ Holds(rows[d])
    BY Streams DEF TInv, Tied, Stale, Engaged
  <1>4. work[p][m] = work[q][n]
    BY <1>1, <1>2, <1>3, SlotFacts
  <1> QED BY <1>2, <1>4 DEF TInv, Once, Distinct

\* Without auto-retry and operator decisions, the slot serialises the turns of
\* every session: a session has one worker at work on one input, whatever
\* crashes, times out, is fenced, stopped, restarted or sent again by the
\* crash fallback.
THEOREM TurnsAreSerial ==
  ASSUME ~AutoRetry, ~Operator
  PROVE  DSpec => []OneTurnAtATime
  <1>1. ASSUME WInv, TInv PROVE OneTurnAtATime
    <2>1. SUFFICES ASSUME NEW s \in Sessions
                   PROVE  Cardinality({at \in Runs \X (1..Cardinality(Inputs)) :
                            at[2] <= Len(work[at[1]]) /\ SessionOf[work[at[1]][at[2]]] = s}) <= 1
      BY DEF OneTurnAtATime
    <2> DEFINE held == {at \in Runs \X (1..Cardinality(Inputs)) :
                          at[2] <= Len(work[at[1]]) /\ SessionOf[work[at[1]][at[2]]] = s}
    <2>2. ASSUME NEW a \in held, NEW b \in held PROVE a = b
      <3>1. PICK p \in Runs, m \in 1..Cardinality(Inputs) : a = <<p, m>>
        OBVIOUS
      <3>2. PICK q \in Runs, n \in 1..Cardinality(Inputs) : b = <<q, n>>
        OBVIOUS
      <3>3. m <= Len(work[p]) /\ SessionOf[work[p][m]] = s
        BY <2>2, <3>1
      <3>4. n <= Len(work[q]) /\ SessionOf[work[q][n]] = s
        BY <2>2, <3>2
      <3>5. work[p] \in Seq(Inputs) /\ work[q] \in Seq(Inputs)
        BY <1>1, Streams
      <3>6. m \in Nat /\ n \in Nat /\ m >= 1 /\ n >= 1
        BY FS_CardinalityType, LedgerAssumption DEF LedgerAssumption
      <3>7. m \in DOMAIN work[p] /\ n \in DOMAIN work[q]
        BY <3>3, <3>4, <3>5, <3>6
      <3>8. p = q /\ m = n
        BY <1>1, <3>3, <3>4, <3>7, OnePlace
      <3> QED BY <3>1, <3>2, <3>8
    <2> HIDE DEF held
    <2>3. CASE held = {}
      <3>1. Cardinality(held) = 0
        BY <2>3, FS_EmptySet
      <3> QED BY <3>1 DEF held
    <2>4. CASE held # {}
      <3>1. PICK a : held = {a}
        BY <2>2, <2>4
      <3>2. Cardinality(held) = 1
        BY <3>1, FS_Singleton
      <3> QED BY <3>2 DEF held
    <2> QED BY <2>3, <2>4
  <1> QED BY <1>1, WInit, WNext, TInit, TNext, PTL DEF DSpec

\* Only finishRuntimeOnDone completes a record.
LEMMA OnlyDoneCompletes ==
  ASSUME WInv, ~Operator, [DNext]_all,
         ~\E s \in Sessions, r \in Runs : FinishDone(s, r)
  PROVE  NobodyCompletes
  <1>1. CASE UNCHANGED vars
    BY <1>1, IdleCalm DEF WInv, Calm
  <1>2. ASSUME NEW i \in Inputs,
               \/ Accept(gw, i, bound[SessionOf[i]])
               \/ ClaimQueued(gw, i, bound[SessionOf[i]], 0)
        PROVE  NobodyCompletes
    <2>1. rows'[i].rt = "pending" /\ \A j \in Inputs : j # i => rows'[j] = rows[j]
      BY <1>2, BoundTyped, TakesSlot DEF WInv
    <2> QED BY <2>1 DEF NobodyCompletes
  <1>3. ASSUME NEW i \in Inputs, FinishUnsent(i, target[i].run) PROVE NobodyCompletes
    BY <1>3, HeldRun, UnsentFinish DEF WInv
  <1>4. ASSUME NEW i \in Inputs, NEW st \in Outcome, SetDelivery(gw, i, st) PROVE NobodyCompletes
    BY <1>4, BoundTyped, SetDeliveryCalm DEF WInv, Calm
  <1>5. ASSUME NEW i \in Inputs, Deliver(i) \/ DeliverBusy(i) \/ RetryAccept(i)
                                 \/ SupplementNotDurable(i) \/ DeliverClaimed(i)
                                 \/ RefuseAccepted(i)
        PROVE  NobodyCompletes
    BY <1>1, <1>2, <1>5
       DEF Deliver, DeliverBusy, RetryAccept, SupplementNotDurable, DeliverClaimed, RefuseAccepted
  <1>6. ASSUME NEW i \in Inputs, ClearFence(i) PROVE NobodyCompletes
    <2>1. target[i].row \in Inputs /\ target[i].run \in Runs
      BY <1>6 DEF ClearFence, WInv, HandlerOK
    <2> QED BY <1>1, <1>6, <2>1, Clears DEF ClearFence, WInv
  <1>7. ASSUME NEW i \in Inputs, EnqueueBusyInput(i) PROVE NobodyCompletes
    BY <1>7, BoundTyped, AcceptQueuedCalm DEF EnqueueBusyInput, WInv, Calm
  <1>8. ASSUME NEW i \in Inputs, SettleUndispatchable(i) PROVE NobodyCompletes
    BY <1>1, <1>4, <1>8, "failed" \in Outcome DEF SettleUndispatchable, Outcome
  <1>9. ASSUME NEW i \in Inputs, MarkDelivery(i) PROVE NobodyCompletes
    <2>1. bound[SessionOf[i]] \in Runs /\ gw \in Gateways
      BY <1>9, BoundTyped DEF MarkDelivery
    <2>2. CASE MarkRunning(gw, i, bound[SessionOf[i]])
      <3>1. rows'[i].rt = "running" /\ \A j \in Inputs : j # i => rows'[j] = rows[j]
        BY <2>1, <2>2, Starts DEF WInv
      <3> QED BY <3>1 DEF NobodyCompletes
    <2> QED BY <1>3, <1>9, <2>2 DEF MarkDelivery
  <1>10. ASSUME NEW i \in Inputs, RefuseTurn(i) PROVE NobodyCompletes
    BY <1>3, <1>10 DEF RefuseTurn
  <1>11. ASSUME NEW i \in Inputs, FinishInputExecution(i) PROVE NobodyCompletes
    <2>1. (IF pc[i] = "refused" THEN "failed" ELSE pc[i]) \in Outcome
      BY <1>11 DEF FinishInputExecution, Outcome
    <2> QED BY <1>1, <1>4, <1>11, <2>1 DEF FinishInputExecution
  <1>12. ASSUME NEW i \in Inputs, \E p \in Position : Dispatch(i, p) \/ NotTaken(i, p)
         PROVE  NobodyCompletes
    BY <1>1, <1>12 DEF Dispatch, NotTaken
  <1>13. ASSUME NEW i \in Inputs, NEW f \in Inputs, NEW r \in Runs,
                ResumeSession(i, r) \/ DeliverFenced(i, f, r)
         PROVE  NobodyCompletes
    BY <1>1, <1>13 DEF ResumeSession, DeliverFenced
  <1>28. ASSUME NEW i \in Inputs, NEW f \in Inputs, FreshStartFails(i, f) PROVE NobodyCompletes
    BY <1>1, <1>28 DEF FreshStartFails
  <1>14. ASSUME NEW s \in Sessions, PeekQueue(s) PROVE NobodyCompletes
    <2>1. ASSUME NEW i \in QueueOf(s), CancelQueued(i) PROVE NobodyCompletes
      <3>1. {i} \in SUBSET Inputs
        BY DEF QueueOf
      <3> QED BY <2>1, <3>1, SettleCalm DEF WInv, CancelQueued, Calm
    <2> QED BY <1>1, <1>14, <2>1 DEF PeekQueue
  <1>15. ASSUME NEW s \in Sessions, ClaimHead(s) PROVE NobodyCompletes
    <2>1. PICK i \in Inputs : i = peeked[s] /\ SessionOf[i] = s
      BY <1>15 DEF ClaimHead, WInv, DTypeOK, PeekOK
    <2> QED BY <1>1, <1>2, <1>15, <2>1 DEF ClaimHead
  <1>16. ASSUME NEW s \in Sessions, RetryFires(s) \/ WorkerCrash(s) PROVE NobodyCompletes
    BY <1>1, <1>16 DEF RetryFires, WorkerCrash
  <1>17. ASSUME NEW s \in Sessions, TurnTimeout(s) PROVE NobodyCompletes
    BY <1>1, <1>17 DEF TurnTimeout
  <1>18. ASSUME NEW s \in Sessions, Stop(s) PROVE NobodyCompletes
    BY <1>18, StopRows
  <1>19. ASSUME NEW s \in Sessions, NEW r \in Runs, ReadOpen(s, r) \/ CrashFallback(s, r)
         PROVE  NobodyCompletes
    BY <1>1, <1>19 DEF ReadOpen, CrashFallback
  <1>20. ASSUME NEW r \in Runs, NEW ok \in BOOLEAN, WorkerDone(r, ok) PROVE NobodyCompletes
    BY <1>1, <1>20 DEF WorkerDone
  <1>21. ASSUME NEW g \in Gateways, GatewayCrash(g) \/ GatewayShutdown(g) PROVE NobodyCompletes
    <2>1. CASE TerminateOwnerLeases(gw)
      BY <2>1, TerminateCalm DEF WInv, DTypeOK, Calm
    <2> QED BY <1>1, <1>21, <2>1 DEF GatewayCrash, GatewayShutdown
  <1>22. CASE Background
    BY <1>22, BackgroundRows DEF Calm
  <1>23. CASE UNCHANGED all
    BY <1>1, <1>23 DEF all
  <1>24. \A p \in {"delivered", "failed", "unknown"} \cup {"refused", "failed", "unknown"} :
           p \in Position
    BY DEF Position, InsideGate
  <1>25. CASE \E i \in Inputs :
                \/ Deliver(i) \/ DeliverBusy(i) \/ ClearFence(i) \/ RetryAccept(i)
                \/ EnqueueBusyInput(i) \/ SupplementNotDurable(i)
                \/ SettleUndispatchable(i) \/ DeliverClaimed(i) \/ RefuseAccepted(i)
                \/ MarkDelivery(i) \/ RefuseTurn(i) \/ FinishInputExecution(i)
    BY <1>5, <1>6, <1>7, <1>8, <1>9, <1>10, <1>11, <1>25
  <1>26. CASE \E i \in Inputs :
                \/ \E p \in {"delivered", "failed", "unknown"} : Dispatch(i, p)
                \/ \E p \in {"refused", "failed", "unknown"} : NotTaken(i, p)
                \/ \E r \in Runs : ResumeSession(i, r)
                \/ \E f \in Inputs : FreshStartFails(i, f) \/ \E r \in Runs : DeliverFenced(i, f, r)
    BY <1>12, <1>13, <1>24, <1>26, <1>28
  <1>27. CASE \E s \in Sessions :
                \/ PeekQueue(s) \/ ClaimHead(s) \/ RetryFires(s)
                \/ WorkerCrash(s) \/ TurnTimeout(s) \/ Stop(s)
                \/ \E r \in Runs : ReadOpen(s, r) \/ CrashFallback(s, r)
    BY <1>14, <1>15, <1>16, <1>17, <1>18, <1>19, <1>27
  <1> QED BY <1>20, <1>21, <1>22, <1>23, <1>25, <1>26, <1>27 DEF DNext

\* Without auto-retry and operator decisions, a Done completes the record of
\* its own input, but for a record that a fresh start released.
THEOREM CompletionIsTruthful ==
  ASSUME ~AutoRetry, ~Operator
  PROVE  DSpec => TruthfulCompletion
  <1>1. ASSUME WInv, TInv, [DNext]_all
        PROVE  \A i \in Inputs :
                 rows[i].rt # "completed" /\ rows'[i].rt = "completed" =>
                   \/ i \in served
                   \/ rows[i].rt = "unknown" /\ rows[i].fence = "none"
    <2>1. CASE ~\E s \in Sessions, r \in Runs : FinishDone(s, r)
      BY <1>1, <2>1, OnlyDoneCompletes DEF NobodyCompletes
    <2>2. ASSUME NEW s \in Sessions, NEW r \in Runs, FinishDone(s, r), NEW i \in Inputs,
                 rows[i].rt # "completed", rows'[i].rt = "completed",
                 ~(rows[i].rt = "unknown" /\ rows[i].fence = "none")
          PROVE  i \in served
      <3>1. /\ i = seen[r].input /\ rows[i].run = r
            /\ rows[i].rt \in {"pending", "running", "unknown"}
            /\ Head(dones[r]).ok
        BY <1>1, <2>2, DoneRows
      <3>2. Holds(rows[i])
        BY <2>2, <3>1 DEF Holds
      <3>3. Head(dones[r]).input = i
        BY <1>1, <2>2, <3>1, <3>2, DoneIsOwn
      <3>4. 1 \in DOMAIN dones[r] /\ Head(dones[r]) = dones[r][1]
        BY <1>1, <2>2, DoneTaken, NamedTyped
      <3> QED BY <1>1, <3>1, <3>3, <3>4 DEF TInv, DonesTrue
    <2> QED BY <2>1, <2>2
  <1> QED BY <1>1, WInit, WNext, TInit, TNext, PTL DEF DSpec, TruthfulCompletion

-----------------------------------------------------------------------------
(* A turn whose worker is gone. *)

\* The record is still running, or has been fenced.
Stays(i) == rows'[i].rt = "running" \/ (rows'[i].rt = "unknown" /\ rows'[i].fence # "none")

\* A step of the ledger that concerns no turn leaves it in its slot.
LEMMA CalmStays ==
  ASSUME IInv, Calm, NEW i \in Inputs, rows[i].rt = "running"
  PROVE  Stays(i)
  <1>1. rows'[i] \in Row /\ FenceOK(rows'[i])
    BY DEF Calm, IInv, TypeOK, FencedOnceAndUnknown, FenceOK
  <1>2. Holds(rows'[i]) /\ rows'[i].rt # "pending"
    BY DEF Calm, NobodyLeaves, Forward, Early, Holds
  <1> QED BY <1>1, <1>2 DEF Holds, FenceOK, Stays

LEMMA OthersStay ==
  ASSUME NEW i \in Inputs, Deserted(i), NEW k \in Inputs, k # i,
         \A j \in Inputs : j # k => rows'[j] = rows[j]
  PROVE  Stays(i)
  BY DEF Deserted, Stays

\* The calls of a delivery concern its own record, or the fenced row it clears.
LEMMA DesertedByHandlers ==
  ASSUME WInv, NEW i \in Inputs, Deserted(i), NEW k \in Inputs,
         \/ Deliver(k) \/ ClearFence(k) \/ RetryAccept(k) \/ EnqueueBusyInput(k)
         \/ SettleUndispatchable(k) \/ MarkDelivery(k) \/ RefuseTurn(k) \/ FinishInputExecution(k)
  PROVE  Stays(i)
  <1> DEFINE s == SessionOf[k]
  <1>1. /\ gw \in Gateways /\ bound[s] \in Runs \cup {NoRun} /\ IInv
        /\ rows[i].rt = "running" /\ pc[i] = "idle"
    BY BoundTyped DEF WInv, Deserted
  <1>2. CASE UNCHANGED vars
    BY <1>1, <1>2, IdleCalm, CalmStays
  <1>3. ASSUME Accept(gw, k, bound[s]) PROVE Stays(i)
    <2>1. k # i /\ \A j \in Inputs : j # k => rows'[j] = rows[j]
      BY <1>1, <1>3, TakesSlot
    <2> QED BY <2>1, OthersStay
  <1>4. ASSUME NEW st \in Outcome, SetDelivery(gw, k, st) PROVE Stays(i)
    BY <1>1, <1>4, SetDeliveryCalm, CalmStays
  <1>5. ASSUME pc[k] # "idle", FinishUnsent(k, target[k].run) PROVE Stays(i)
    <2>1. k # i /\ \A j \in Inputs : j # k => rows'[j] = rows[j]
      BY <1>1, <1>5, HeldRun, UnsentFinish
    <2> QED BY <2>1, OthersStay
  <1>6. CASE ClearFence(k)
    <2> DEFINE f == target[k].row
    <2>1. f \in Inputs /\ target[k].run \in Runs
      BY <1>6 DEF ClearFence, WInv, HandlerOK
    <2>2. CASE ClearFenceAfterFreshStart(f, rows[f].fence, target[k].run) /\ rows[f].fence # "none"
      <3>1. rows[f].rt = "unknown"
        BY <1>1, <2>1, <2>2, RowFacts DEF FenceOK
      <3>2. f # i /\ \A j \in Inputs : j # f => rows'[j] = rows[j]
        BY <1>1, <2>1, <2>2, <3>1, Clears
      <3> QED BY <2>1, <3>2, OthersStay
    <2> QED BY <1>2, <1>6, <2>2 DEF ClearFence
  <1>7. CASE EnqueueBusyInput(k)
    BY <1>1, <1>7, AcceptQueuedCalm, CalmStays DEF EnqueueBusyInput
  <1>8. CASE MarkDelivery(k)
    <2>1. pc[k] = "accepted" /\ bound[s] \in Runs
      BY <1>1, <1>8 DEF MarkDelivery
    <2>2. CASE MarkRunning(gw, k, bound[s])
      <3>1. k # i /\ \A j \in Inputs : j # k => rows'[j] = rows[j]
        BY <1>1, <2>1, <2>2, Starts
      <3> QED BY <3>1, OthersStay
    <2> QED BY <1>5, <1>8, <2>1, <2>2 DEF MarkDelivery
  <1>9. CASE FinishInputExecution(k)
    <2>1. (IF pc[k] = "refused" THEN "failed" ELSE pc[k]) \in Outcome
      BY <1>9 DEF FinishInputExecution, Outcome
    <2> QED BY <1>2, <1>4, <1>9, <2>1 DEF FinishInputExecution
  <1>10. CASE SettleUndispatchable(k)
    BY <1>2, <1>4, <1>10, "failed" \in Outcome DEF SettleUndispatchable, Outcome
  <1> QED BY <1>2, <1>3, <1>5, <1>6, <1>7, <1>8, <1>9, <1>10 DEF Deliver, RetryAccept, RefuseTurn

\* The dispatcher, a stop, the end of the process, the background jobs.
LEMMA DesertedByOthers ==
  ASSUME WInv, NEW i \in Inputs, Deserted(i),
         \/ \E s \in Sessions : PeekQueue(s) \/ ClaimHead(s) \/ Stop(s)
         \/ \E g \in Gateways : GatewayCrash(g) \/ GatewayShutdown(g)
         \/ Background
  PROVE  Stays(i)
  <1>1. /\ gw \in Gateways /\ IInv
        /\ rows[i].rt = "running" /\ rows[i].run # bound[SessionOf[i]]
    BY DEF WInv, DTypeOK, Deserted
  <1>2. CASE Calm
    BY <1>1, <1>2, CalmStays
  <1>3. CASE UNCHANGED vars
    BY <1>1, <1>2, <1>3, IdleCalm
  <1>4. ASSUME NEW k \in Inputs, CancelQueued(k) PROVE Stays(i)
    <2>1. {k} \in SUBSET Inputs
      OBVIOUS
    <2> QED BY <1>1, <1>2, <1>4, <2>1, SettleCalm DEF CancelQueued
  <1>5. ASSUME NEW s \in Sessions, PeekQueue(s) PROVE Stays(i)
    BY <1>3, <1>4, <1>5 DEF PeekQueue, QueueOf
  <1>6. ASSUME NEW s \in Sessions, ClaimHead(s) PROVE Stays(i)
    <2>1. PICK k \in Inputs : k = peeked[s] /\ SessionOf[k] = s
      BY <1>6 DEF ClaimHead, WInv, DTypeOK, PeekOK
    <2>2. CASE ClaimQueued(gw, k, bound[SessionOf[k]], 0)
      <3>1. k # i /\ \A j \in Inputs : j # k => rows'[j] = rows[j]
        BY <1>1, <2>2, BoundTyped, TakesSlot
      <3> QED BY <3>1, OthersStay
    <2> QED BY <1>3, <1>6, <2>1, <2>2 DEF ClaimHead
  <1>7. ASSUME NEW s \in Sessions, Stop(s) PROVE Stays(i)
    <2>1. ASSUME NEW k \in OpenBySession(s), FinishRuntime(k, bound[s], "failed")
          PROVE  Stays(i)
      <3>1. k \in Inputs /\ SessionOf[k] = s
        BY <2>1 DEF OpenBySession
      <3>2. rows[k].run = bound[s]
        BY <2>1 DEF FinishRuntime
      <3>3. bound[s] \in Runs
        BY <1>7 DEF Stop, WInv, DTypeOK
      <3>4. k # i /\ \A j \in Inputs : j # k => rows'[j] = rows[j]
        BY <1>1, <2>1, <3>1, <3>2, <3>3, Finishes
      <3> QED BY <3>1, <3>4, OthersStay
    <2> QED BY <1>3, <1>7, <2>1 DEF Stop
  <1>8. ASSUME NEW g \in Gateways, GatewayCrash(g) \/ GatewayShutdown(g) PROVE Stays(i)
    BY <1>1, <1>2, <1>3, <1>8, TerminateCalm DEF GatewayCrash, GatewayShutdown
  <1>9. CASE Background
    <2>1. ASSUME NEW k \in Inputs, ResolveFence(k, 1) \/ AbandonFence(k, 1) PROVE Stays(i)
      <3>1. rows[k].fence # "none" /\ \A j \in Inputs : j # k => rows'[j] = rows[j]
        BY <1>1, <2>1 DEF ResolveFence, AbandonFence, IInv, TypeOK
      <3>2. k # i
        BY <1>1, <3>1, RowFacts DEF FenceOK
      <3> QED BY <3>1, <3>2, OthersStay
    <2>2. CASE ~Operator
      BY <1>2, <1>9, <2>2, BackgroundRows
    <2>3. CASE RenewLeases(gw, {})
      BY <1>1, <1>2, <2>3, RenewCalm, {} \in SUBSET Inputs
    <2>4. CASE ExpireQueued(gw)
      <3>1. PICK S \in SUBSET Inputs : SettleQueued(S)
        BY <2>4 DEF ExpireQueued
      <3>2. UNCHANGED <<nextSeq, budget, open, now>>
        BY <2>4 DEF ExpireQueued
      <3> QED BY <1>1, <1>2, <3>1, <3>2, SettleCalm
    <2>5. ASSUME NEW s \in Sessions, ClearQueue(s) PROVE Stays(i)
      <3>1. QueueOf(s) \in SUBSET Inputs
        BY DEF QueueOf
      <3> QED BY <1>1, <1>2, <2>5, <3>1, SettleCalm DEF ClearQueue
    <2>6. CASE RecoverExpiredLeases \/ Tick
      BY <1>1, <1>2, <2>6, RecoverCalm, TickCalm
    <2> QED BY <1>4, <1>9, <2>1, <2>3, <2>4, <2>5, <2>6 DEF Background
  <1> QED BY <1>5, <1>6, <1>7, <1>8, <1>9

\* A turn whose worker died with it is settled by nobody: no later run, crash
\* fallback, stop, stale forwarder or delivery of the session gives it an
\* outcome; lease recovery or a shutdown fences it.
THEOREM DesertedIsFenced == DSpec => DesertedTurnIsFenced
  <1>1. ASSUME WInv, [DNext]_all, NEW i \in Inputs, Deserted(i)
        PROVE  Stays(i)
    <2>1. /\ IInv /\ rows[i].rt = "running" /\ rows[i].run \in Runs
          /\ seen[rows[i].run] = NoInput
      BY <1>1 DEF WInv, Deserted
    <2>2. CASE UNCHANGED vars
      BY <2>1, <2>2, IdleCalm, CalmStays
    <2>3. ASSUME NEW s \in Sessions, NEW q \in Runs, FinishDone(s, q)
          PROVE  Stays(i)
      <3>1. seen[q] # NoInput
        BY <2>3 DEF FinishDone
      <3>2. CASE rows'[i] = rows[i]
        BY <2>1, <3>2 DEF Stays
      <3> QED BY <1>1, <2>1, <2>3, <3>1, <3>2, DoneRows
    <2>4. ASSUME NEW k \in Inputs,
                 \/ DeliverBusy(k) \/ SupplementNotDurable(k) \/ DeliverClaimed(k)
                 \/ RefuseAccepted(k)
                 \/ \E p \in {"delivered", "failed", "unknown"} : Dispatch(k, p)
                 \/ \E p \in {"refused", "failed", "unknown"} : NotTaken(k, p)
                 \/ \E r \in Runs : ResumeSession(k, r)
                 \/ \E f \in Inputs : FreshStartFails(k, f)
                                    \/ \E r \in Runs : DeliverFenced(k, f, r)
          PROVE  UNCHANGED vars
      BY <2>4 DEF DeliverBusy, SupplementNotDurable, DeliverClaimed, RefuseAccepted, Dispatch,
         NotTaken, ResumeSession, FreshStartFails, DeliverFenced
    <2>5. ASSUME NEW s \in Sessions,
                 \/ RetryFires(s) \/ WorkerCrash(s) \/ TurnTimeout(s)
                 \/ \E r \in Runs : ReadOpen(s, r) \/ CrashFallback(s, r)
          PROVE  UNCHANGED vars
      BY <2>5 DEF RetryFires, WorkerCrash, TurnTimeout, ReadOpen, CrashFallback
    <2>6. ASSUME NEW r \in Runs, NEW ok \in BOOLEAN, WorkerDone(r, ok)
          PROVE  UNCHANGED vars
      BY <2>6 DEF WorkerDone
    <2>7. CASE UNCHANGED all
      BY <2>2, <2>7 DEF all
    <2> QED BY <1>1, <2>2, <2>3, <2>4, <2>5, <2>6, <2>7, DesertedByHandlers, DesertedByOthers
            DEF DNext
  <1>2. ASSUME WInv, [DNext]_all
        PROVE  \A i \in Inputs : Deserted(i) =>
                 rows'[i].rt = "running" \/ (rows'[i].rt = "unknown" /\ rows'[i].fence # "none")
    BY <1>1, <1>2 DEF Stays
  <1> QED BY <1>2, WInit, WNext, PTL DEF DSpec, DesertedTurnIsFenced

=============================================================================
