--------------------------- MODULE ExecutionLedger ---------------------------
(***************************************************************************)
(* The durable input ledger of the gateway: tables execution_inputs,      *)
(* execution_queue, execution_queue_counters and execution_queue_budget,  *)
(* and every operation of execution.SQLStore that writes them             *)
(* (internal/execution/sql_store.go, sql_queue.go, sql_queue_dispatch.go, *)
(* lifecycle_gc.go).  Several gateway instances share one ledger.  Every  *)
(* store operation is one SQL statement or one transaction under the      *)
(* write lock, so every operation is one action.  A call that the store   *)
(* refuses (duplicate key, busy session, full queue, owner or run         *)
(* mismatch, moved head) writes nothing: it is a stuttering step here.    *)
(* The payload hash only decides what a refused duplicate is told, so it  *)
(* is left out.                                                           *)
(***************************************************************************)
EXTENDS Integers, FiniteSets

CONSTANTS
  Sessions,    \* session ids
  Inputs,      \* input keys: one per (session_id, client_message_id)
  SessionOf,   \* the session_id of a key
  Gateways,    \* gateway instance ids (owner_instance_id)
  Runs,        \* worker run ids
  NoOwner,     \* the empty owner_instance_id
  NoRun,       \* the empty worker_run_id
  Revisions,   \* positive session lifecycle revisions a caller may name
  LeaseTTL,    \* lease.go LeaseTTL, in ticks
  QueueTTL,    \* QueueLimits.TTL, in ticks
  PerSession,  \* QueueLimits.PerSession
  Global,      \* QueueLimits.Global
  SweepBatch,  \* rows one ExpireQueued call may settle
  Skew,        \* offset of a gateway's clock from the database's clock
  MaxTime      \* bound on the database clock

ASSUME LedgerAssumption ==
  /\ SessionOf \in [Inputs -> Sessions]
  /\ LeaseTTL \in Nat \ {0}
  /\ QueueTTL \in Nat \ {0}
  /\ PerSession \in Nat \ {0}
  /\ Global \in Nat \ {0}
  /\ SweepBatch \in Nat \ {0}
  /\ Revisions \subseteq Nat \ {0}
  /\ Skew \in [Gateways -> Int]
  /\ MaxTime \in Nat
  /\ NoOwner \notin Gateways /\ NoRun \notin Runs

ASSUME InputsFinite == IsFiniteSet(Inputs)

VARIABLES
  rows,     \* execution_inputs, by key: rt = "none" means no such row,
            \* fence = "none" means an empty fence_reason
  queue,    \* execution_queue, by key; seq = 0 means no such row
  nextSeq,  \* execution_queue_counters.next_seq, by session
  budget,   \* execution_queue_budget.used, the mirror of the queue depth
  open,     \* sessions that may take new inputs (lockAcceptableSession)
  now       \* the database clock

store == <<rows, queue, nextSeq, budget>>
vars == <<rows, queue, nextSeq, budget, open, now>>

-----------------------------------------------------------------------------
(* Rows. *)

Delivery == {"none", "accepted", "delivered", "unknown", "failed"}
Runtime == {"none", "queued", "pending", "running", "completed", "failed",
            "unknown"}
FenceReason == {"RUNTIME_AMBIGUOUS", "GATEWAY_LEASE_EXPIRED",
                "GATEWAY_SHUTDOWN"}
Outcome == {"delivered", "unknown", "failed"}  \* what SetDelivery accepts

Row == [status: Delivery, rt: Runtime,
        owner: Gateways \cup {NoOwner}, run: Runs \cup {NoRun}, lease: Int,
        fence: FenceReason \cup {"none"}, fver: Nat, created: Int]

NoRow == [status |-> "none", rt |-> "none", owner |-> NoOwner,
          run |-> NoRun, lease |-> 0, fence |-> "none", fver |-> 0, created |-> 0]

QueueEntry == [seq: Nat, expires: Int, rev: Nat]
NoEntry == [seq |-> 0, expires |-> 0, rev |-> 0]

\* time.Now() of gateway g, as opposed to dbNowMillisExpr.
LocalNow(g) == now + Skew[g]

Active(i) == rows[i].rt \in {"pending", "running"}

\* The predicate of the partial unique index
\* idx_execution_one_active_per_session.
HoldsSlot(i) == Active(i) \/ rows[i].fence # "none"

\* Defect: a fenced session is not busy.
BusyIgnoringFences(s) == \E i \in Inputs : SessionOf[i] = s /\ Active(i)

Busy(s) == \E i \in Inputs : SessionOf[i] = s /\ HoldsSlot(i)

Queued(i) == queue[i].seq # 0
QueueOf(s) == {i \in Inputs : SessionOf[i] = s /\ Queued(i)}
QueueDepth == Cardinality({i \in Inputs : Queued(i)})

\* Defect: any queued row may be promoted.
IsQueued(i) == Queued(i)

\* The row with the smallest queue_seq of its session.
IsHead(i) == Queued(i) /\ \A j \in QueueOf(SessionOf[i]) : queue[i].seq <= queue[j].seq

\* fenceEntryBump: the version moves only when the row was not fenced.
BumpedVersion(r) == IF r.fence = "none" THEN r.fver + 1 ELSE r.fver

-----------------------------------------------------------------------------
(* What the UPDATE statements set, row by row. *)

Running(q, r) == [q EXCEPT !.rt = "running", !.run = r]

\* Defect: an outcome leaves the fence up.
FinishedBehindFence(q, st) == [q EXCEPT !.rt = st]

\* A definite outcome lifts the fence, an ambiguous one sets it.
Finished(q, st) ==
  [q EXCEPT !.rt = st,
            !.fence = IF st = "unknown" THEN "RUNTIME_AMBIGUOUS" ELSE "none",
            !.fver = IF st = "unknown" THEN BumpedVersion(q) ELSE q.fver]

\* Lease recovery and shutdown: fence the row, and give up on a delivery that
\* is still only accepted.
Fenced(q, reason) ==
  [q EXCEPT !.status = IF q.status = "accepted" THEN "unknown" ELSE q.status,
            !.rt = "unknown",
            !.fence = reason,
            !.fver = BumpedVersion(q)]

FreshlyStarted(q, r) == [q EXCEPT !.fence = "none", !.run = r]
Abandoned(q) == [q EXCEPT !.fence = "none", !.rt = "failed"]

Claimed(q, g, r, until) ==
  [q EXCEPT !.rt = "pending", !.owner = g, !.run = r, !.lease = until]

Dropped(q) == [q EXCEPT !.status = "failed", !.rt = "failed"]
Compacted(q) == [q EXCEPT !.owner = NoOwner, !.lease = 0]

-----------------------------------------------------------------------------
(* Direct acceptance and delivery. *)

\* Defect: the key's uniqueness only covers active rows.
AcceptAgain(g, i, r) ==
  /\ SessionOf[i] \in open
  /\ ~Busy(SessionOf[i])
  /\ rows' = [rows EXCEPT ![i] =
       [NoRow EXCEPT !.status = "accepted", !.rt = "pending", !.owner = g,
                     !.run = r, !.lease = now + LeaseTTL, !.created = LocalNow(g)]]
  /\ UNCHANGED <<queue, nextSeq, budget, open, now>>

Accept(g, i, r) ==
  /\ rows[i].rt = "none"
  /\ SessionOf[i] \in open
  /\ ~Busy(SessionOf[i])
  /\ rows' = [rows EXCEPT ![i] =
       [status |-> "accepted", rt |-> "pending", owner |-> g,
        run |-> r, lease |-> now + LeaseTTL, fence |-> "none", fver |-> 0,
        created |-> LocalNow(g)]]
  /\ UNCHANGED <<queue, nextSeq, budget, open, now>>

\* Defect: a later outcome overwrites an earlier one.
SetDeliveryAlways(g, i, st) ==
  /\ rows[i].owner = g
  /\ rows' = [rows EXCEPT ![i].status = st]
  /\ UNCHANGED <<queue, nextSeq, budget, open, now>>

SetDelivery(g, i, st) ==
  /\ rows[i].owner = g
  /\ rows[i].status = "accepted"
  /\ rows' = [rows EXCEPT ![i].status = st]
  /\ UNCHANGED <<queue, nextSeq, budget, open, now>>

\* Defect: any row of the owner can be started again.
MarkRunningAlways(g, i, r) ==
  /\ rows[i].owner = g
  /\ rows' = [rows EXCEPT ![i] = Running(rows[i], r)]
  /\ UNCHANGED <<queue, nextSeq, budget, open, now>>

MarkRunning(g, i, r) ==
  /\ rows[i].owner = g
  /\ rows[i].rt = "pending"
  /\ rows' = [rows EXCEPT ![i] = Running(rows[i], r)]
  /\ UNCHANGED <<queue, nextSeq, budget, open, now>>

\* Defect: one outcome may replace another.
FinishableAlways(st) == {"pending", "running", "unknown", "completed", "failed"}

\* completed and failed may refine unknown; unknown itself may not.
FinishableTo(st) == IF st = "unknown" THEN {"pending", "running"}
                                      ELSE {"pending", "running", "unknown"}

FinishRuntime(i, r, st) ==
  /\ rows[i].run = r
  /\ rows[i].rt \in FinishableTo(st)
  /\ rows' = [rows EXCEPT ![i] = Finished(rows[i], st)]
  /\ UNCHANGED <<queue, nextSeq, budget, open, now>>

ConvergeDeliveryFailed(i, r) ==
  /\ rows[i].run = r
  /\ rows[i].status = "failed"
  /\ rows[i].rt = "completed"
  /\ rows' = [rows EXCEPT ![i].status = "unknown"]
  /\ UNCHANGED <<queue, nextSeq, budget, open, now>>

-----------------------------------------------------------------------------
(* Fences. *)

ClearFenceAfterFreshStart(i, reason, r) ==
  /\ rows[i].fence = reason
  /\ rows' = [rows EXCEPT ![i] = FreshlyStarted(rows[i], r)]
  /\ UNCHANGED <<queue, nextSeq, budget, open, now>>

ResolveFence(i, version) ==
  /\ rows[i].fence # "none"
  /\ rows[i].fver = version
  /\ rows' = [rows EXCEPT ![i].fence = "none"]
  /\ UNCHANGED <<queue, nextSeq, budget, open, now>>

AbandonFence(i, version) ==
  /\ rows[i].fence # "none"
  /\ rows[i].fver = version
  /\ rows[i].rt = "unknown"
  /\ rows' = [rows EXCEPT ![i] = Abandoned(rows[i])]
  /\ UNCHANGED <<queue, nextSeq, budget, open, now>>

Expired == {i \in Inputs : Active(i) /\ rows[i].lease <= now}

RecoverExpiredLeases ==
  /\ Expired # {}
  /\ rows' = [i \in Inputs |-> IF i \in Expired
                               THEN Fenced(rows[i], "GATEWAY_LEASE_EXPIRED")
                               ELSE rows[i]]
  /\ UNCHANGED <<queue, nextSeq, budget, open, now>>

OwnedActive(g) == {i \in Inputs : Active(i) /\ rows[i].owner = g}

TerminateOwnerLeases(g) ==
  /\ OwnedActive(g) # {}
  /\ rows' = [i \in Inputs |-> IF i \in OwnedActive(g)
                               THEN Fenced(rows[i], "GATEWAY_SHUTDOWN")
                               ELSE rows[i]]
  /\ UNCHANGED <<queue, nextSeq, budget, open, now>>

\* Renewal does not look at lease_until: an expired lease that recovery has
\* not reached yet is extended like any other.
RenewLeases(g, excluded) ==
  /\ rows' = [i \in Inputs |-> IF i \in OwnedActive(g) \ excluded
                               THEN [rows[i] EXCEPT !.lease = now + LeaseTTL]
                               ELSE rows[i]]
  /\ UNCHANGED <<queue, nextSeq, budget, open, now>>

-----------------------------------------------------------------------------
(* The durable queue. *)

HasRoom(s) == QueueDepth < Global /\ Cardinality(QueueOf(s)) < PerSession

NextOrdinal(s) == nextSeq[s]

\* The capacity and ordinal decisions commit with the rows; a full queue
\* rolls the ordinal back.  A queued row holds no lease and names no run.
AcceptQueued(g, i, rev) ==
  LET s == SessionOf[i]
      local == LocalNow(g)
  IN /\ rows[i].rt = "none"
     /\ s \in open
     /\ HasRoom(s)
     /\ nextSeq' = [nextSeq EXCEPT ![s] = NextOrdinal(s) + 1]
     /\ rows' = [rows EXCEPT ![i] =
          [status |-> "accepted", rt |-> "queued", owner |-> g,
           run |-> NoRun, lease |-> 0, fence |-> "none", fver |-> 0,
           created |-> local]]
     /\ queue' = [queue EXCEPT ![i] =
          [seq |-> NextOrdinal(s), expires |-> local + QueueTTL, rev |-> rev]]
     /\ budget' = QueueDepth + 1
     /\ UNCHANGED <<open, now>>

\* rev = 0 skips the revision check, as the gateway's dispatcher does.
\* The lease is stamped from the gateway's clock, not the database's.
ClaimQueued(g, i, r, rev) ==
  /\ IsHead(i)
  /\ rev > 0 => queue[i].rev = rev
  /\ rows[i].rt = "queued"
  /\ ~Busy(SessionOf[i])
  /\ rows' = [rows EXCEPT ![i] = Claimed(rows[i], g, r, LocalNow(g) + LeaseTTL)]
  /\ queue' = [queue EXCEPT ![i] = NoEntry]
  /\ UNCHANGED <<nextSeq, budget, open, now>>

\* Defect: the queue row outlives the settled execution.
SettleKeepingEntry(S) ==
  /\ rows' = [i \in Inputs |-> IF i \in S THEN Dropped(rows[i]) ELSE rows[i]]
  /\ UNCHANGED queue

\* settleQueuedTx, applied to every row of S inside one transaction.
SettleQueued(S) ==
  LET settled == {i \in S : rows[i].rt = "queued"}
  IN /\ rows' = [i \in Inputs |-> IF i \in settled
                   THEN Dropped(rows[i])
                   ELSE rows[i]]
     /\ queue' = [i \in Inputs |-> IF i \in settled THEN NoEntry ELSE queue[i]]

CancelQueued(i) ==
  /\ rows[i].rt = "queued"
  /\ SettleQueued({i})
  /\ UNCHANGED <<nextSeq, budget, open, now>>

ClearQueue(s) ==
  /\ QueueOf(s) # {}
  /\ SettleQueued(QueueOf(s))
  /\ UNCHANGED <<nextSeq, budget, open, now>>

\* One sweep settles the SweepBatch oldest rows that are past their TTL.
ExpireQueued(g) ==
  LET due == {i \in Inputs : Queued(i) /\ queue[i].expires <= LocalNow(g)}
  IN /\ due # {}
     /\ \E S \in SUBSET due :
          /\ IF Cardinality(due) <= SweepBatch THEN S = due
                                               ELSE Cardinality(S) = SweepBatch
          /\ \A i \in S, j \in due \ S : queue[i].expires <= queue[j].expires
          /\ SettleQueued(S)
     /\ UNCHANGED <<nextSeq, budget, open, now>>

-----------------------------------------------------------------------------
(* Retention, sessions and time. *)

Compactable == {i \in Inputs : /\ rows[i].status \in {"delivered", "failed"}
                               /\ rows[i].rt \in {"completed", "failed"}
                               /\ rows[i].fence = "none"
                               /\ ~(rows[i].status = "failed" /\ rows[i].rt = "completed")
                               /\ ~Queued(i)
                               /\ rows[i].owner # NoOwner \/ rows[i].lease # 0}

\* The retention window and the batch limit pick some of the settled rows.
CompactSettledFacts(S) ==
  /\ S # {}
  /\ rows' = [i \in Inputs |-> IF i \in S
                               THEN Compacted(rows[i])
                               ELSE rows[i]]
  /\ UNCHANGED <<queue, nextSeq, budget, open, now>>

\* The session is deleted, or its v2 conversation deadline passes.  Its rows
\* stay here; in the database the foreign key of migration 037 removes them with
\* the session's row, once that is deleted physically.
RetireSession(s) ==
  /\ s \in open
  /\ open' = open \ {s}
  /\ UNCHANGED <<rows, queue, nextSeq, budget, now>>

Tick ==
  /\ now < MaxTime
  /\ now' = now + 1
  /\ UNCHANGED <<rows, queue, nextSeq, budget, open>>

-----------------------------------------------------------------------------
Init ==
  /\ rows = [i \in Inputs |-> NoRow]
  /\ queue = [i \in Inputs |-> NoEntry]
  /\ nextSeq = [s \in Sessions |-> 1]
  /\ budget = 0
  /\ open = Sessions
  /\ now = 0

\* finishInputExecution and the repairer settle the delivery of a record that
\* Accept or ClaimQueued returned, never of one that still waits in the queue.
CrossedDispatch(i) == rows[i].rt \notin {"none", "queued"}

\* Every caller the store can have: any gateway, for any input, with any run,
\* decision or status, at any moment.
Next ==
  \/ \E g \in Gateways, i \in Inputs :
       \/ \E r \in Runs : Accept(g, i, r)
       \/ \E rev \in Revisions \cup {0} : AcceptQueued(g, i, rev)
       \/ \E st \in Outcome : CrossedDispatch(i) /\ SetDelivery(g, i, st)
       \/ \E r \in Runs : MarkRunning(g, i, r)
       \/ \E r \in Runs, rev \in Revisions \cup {0} : ClaimQueued(g, i, r, rev)
  \/ \E i \in Inputs :
       \/ \E r \in Runs, st \in {"completed", "failed", "unknown"} : FinishRuntime(i, r, st)
       \/ \E r \in Runs : ConvergeDeliveryFailed(i, r)
       \/ \E reason \in FenceReason, r \in Runs : ClearFenceAfterFreshStart(i, reason, r)
       \/ \E v \in 0..2 : ResolveFence(i, v)
       \/ \E v \in 0..2 : AbandonFence(i, v)
       \/ CancelQueued(i)
  \/ \E g \in Gateways :
       \/ \E excluded \in SUBSET Inputs : RenewLeases(g, excluded)
       \/ TerminateOwnerLeases(g)
       \/ ExpireQueued(g)
  \/ RecoverExpiredLeases
  \/ \E s \in Sessions : ClearQueue(s) \/ RetireSession(s)
  \/ \E S \in SUBSET Compactable : CompactSettledFacts(S)
  \/ Tick

Spec == Init /\ [][Next]_vars

-----------------------------------------------------------------------------
(* Properties. *)

\* The columns hold what their types and CHECK constraints allow.
TypeOK ==
  /\ rows \in [Inputs -> Row]
  /\ queue \in [Inputs -> QueueEntry]
  /\ nextSeq \in [Sessions -> Nat \ {0}]
  /\ budget \in Nat
  /\ open \subseteq Sessions
  /\ now \in Nat

\* A session has at most one execution that is pending, running or fenced,
\* whatever the gateways, the queue dispatcher, lease recovery and the
\* operator do (store.go ErrSessionBusy; the single-active index).
SingleSlot ==
  \A i, j \in Inputs :
    SessionOf[i] = SessionOf[j] /\ HoldsSlot(i) /\ HoldsSlot(j) => i = j

\* "fenced rows are runtime-unknown by construction" (ApplyFenceDecision):
\* the fence survives no runtime outcome, and a row is fenced at most once in
\* its life, so a fence version an operator read can never name a later fence.
FencedOnceAndUnknown ==
  \A i \in Inputs :
    /\ rows[i].fence # "none" => rows[i].rt = "unknown" /\ rows[i].fver = 1
    /\ rows[i].fver <= 1
    /\ rows[i].rt \in {"none", "queued", "pending", "running"} => rows[i].fver = 0

\* The two tables never disagree: an execution is queued exactly when it has a
\* queue row, and then it holds no run and no lease, so that lease recovery
\* cannot fence an input nobody sent.
QueueMatchesRows ==
  \A i \in Inputs :
    /\ Queued(i) <=> rows[i].rt = "queued"
    /\ Queued(i) => rows[i].run = NoRun /\ rows[i].lease = 0

\* Dispatch ordinals are unique within a session and below the allocator, so
\* the order of dispatch is the order of acceptance.
OrdinalsUnique ==
  \A i \in Inputs : Queued(i) =>
    /\ queue[i].seq < nextSeq[SessionOf[i]]
    /\ \A j \in QueueOf(SessionOf[i]) : queue[j].seq = queue[i].seq => i = j

Rank(rt) == CASE rt = "none" -> 0 [] rt = "queued" -> 1 [] rt = "pending" -> 2
              [] rt = "running" -> 3 [] rt = "unknown" -> 4
              [] rt \in {"completed", "failed"} -> 5

\* "terminals never regress": the runtime fact of an input only ever moves
\* forward, so an input that crossed the dispatch boundary is never again
\* queued or pending (no silent resend), and an outcome is never replaced.
RuntimeNeverGoesBack ==
  [][\A i \in Inputs :
       rows'[i].rt # rows[i].rt => Rank(rows'[i].rt) > Rank(rows[i].rt)]_vars

\* Delivery outcomes never regress either; the one exception is a failed
\* delivery whose runtime completed, which becomes unknown.
DeliveryNeverRegresses ==
  [][\A i \in Inputs :
       rows'[i].status # rows[i].status =>
         \/ rows[i].status \in {"none", "accepted"}
         \/ rows[i].status = "failed" /\ rows'[i].status = "unknown"
            /\ rows[i].rt = "completed"]_vars

-----------------------------------------------------------------------------
(* The ledger implements the promises of InputLifecycle and WaitingLine. *)

PhaseOf(q) == CASE q.rt = "none" -> "new"
                [] q.rt = "queued" -> "waiting"
                [] q.rt \in {"pending", "running"} -> "active"
                [] q.rt = "unknown" /\ q.fence # "none" -> "fenced"
                [] q.rt = "unknown" /\ q.fence = "none" -> "released"
                [] q.rt \in {"completed", "failed"} -> "settled"

Lifecycle == INSTANCE InputLifecycle WITH phase <- [i \in Inputs |-> PhaseOf(rows[i])]

\* Every behaviour of the ledger, seen through PhaseOf, is one InputLifecycle
\* allows: an input is dispatched at most once, one input of a session at a
\* time, and bulk recovery, operator decisions and queue sweeps only move
\* inputs along the phases.
ImplementsLifecycle == Lifecycle!Spec

PlaceOf(q) == CASE q.rt = "none" -> "outside"
                [] q.rt = "queued" -> "waiting"
                [] q.rt \in {"pending", "running"} -> "taken"
                [] q.rt \in {"unknown", "completed", "failed"} -> "over"

\* j has the smaller queue_seq of two queue rows of one session.
Precedes(j, i) ==
  SessionOf[j] = SessionOf[i] /\ Queued(j) /\ Queued(i) /\ queue[j].seq < queue[i].seq

Line == INSTANCE WaitingLine WITH
  place <- [i \in Inputs |-> PlaceOf(rows[i])],
  ahead <- {p \in Inputs \X Inputs : Precedes(p[1], p[2])}

\* The ordinals that AcceptQueued allocates, whatever commits, rolls back or is
\* settled around them, are the order of acceptance, and ClaimQueued follows it:
\* no waiting input is dispatched while one accepted into the queue before it
\* still waits.  An input accepted directly in a session that is momentarily not
\* busy does pass those who wait.
ImplementsWaitingLine == Line!Spec

=============================================================================
