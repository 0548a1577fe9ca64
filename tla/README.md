# Verification of the HotPlex gateway

HotPlex is a gateway between people (web chat, Slack, Feishu, cron, webhooks)
and agent workers (Claude Code, Codex, OpenCode, ACP processes).  What it
promises is hard to keep while workers die, gateways restart, clients
reconnect and the database goes away for a while: a message is durable before
a worker sees it and is handed over at most once, a session works on one
message at a time, its outcome is known in the end; quota is returned exactly
once; a deleted session stays deleted and what it left elsewhere is erased; a
scheduled firing runs once and its answer is delivered once; a client sees the
events of a session in order and without gaps; what was done is on record in
a chain that nobody can rewrite unseen.  This directory holds TLA+
models of the parts of the gateway that keep these promises, the TLC runs that
check them and the TLAPS proofs of the most important properties.

Paths below are relative to the repository root.  `PROJECT.json` maps every
definition to its source lines and lists runs, mutants, hazards and findings.

## 1. Inventory

| Component | State | Operations | Hard behaviour | What makes it correct |
|---|---|---|---|---|
| Input ledger (`internal/execution/sql_store.go`, `lifecycle_gc.go`) | `execution_inputs` rows: delivery status, runtime status, owner, run, lease, fence and its version | accept, set delivery, mark running, finish, converge, renew, recover, terminate owner, clear/resolve/abandon fence, compact | several gateways on one database, two clocks, late outcomes after recovery | one active or fenced row per session; facts only move forward |
| Input queue (`sql_queue.go`, `sql_queue_dispatch.go`, `queue.go`) | `execution_queue`, ordinal counters, budget mirror | enqueue, claim head, cancel, clear, expire | two tables and five ways out of the queue, limits under concurrency | tables agree, FIFO, bounded |
| Repairer and lease manager (`repairer.go`, `lease.go`) | intents, attempts in flight, abandoned set; leases | enqueue, process due, attempt, renew, recover, release | store failures at any call, snapshots used after unlock, capacity, shutdown | no outcome forgotten; the slot is freed in the end |
| Delivery (`internal/gateway/handler.go`, `queue.go`, `dispatch_gate.go`, `dispatch_acceptance.go`) | position of each delivery, the per-session gate | accept with fence recovery, busy handling, queue dispatch, refusals, dispatch | four durable writes per delivery with anything in between | write ahead; at most one primary dispatch |
| Worker runs (`bridge*.go`) | bound run, worker's stream, terminal claim, retry timer | Done, retry, crash, fallback, timeout, stop, fresh start | stale forwarders, late Done events, run replacement | turns are serial; outcomes go to their own record |
| Hub, connections, sequence numbers (`hub.go`, `conn.go`, `seq.go`) | counter, barrier and order locks, broadcast channel, subscriptions, owner, init buffers, write channels | number, broadcast, route, handshake, hydrate, release, take over | two locks per session, full channels, reconnects, hydration against producers | numbers never meet in the table; order; no gap for a connected client |
| Event store (`internal/eventstore/collector.go`) | accumulators, channel, batches, events table | capture, accumulate, flush, write | a bounded channel that drops, lost batches, a flush that must drain first | stored numbers are unique |
| Session manager and pool (`internal/session/manager.go`, `pool.go`) | map of session objects, rows, attached workers, quota counters | create, get, transition, attach, detach, delete, retire, evict, reload limits | check, unlock, check again; stale pointers; several release paths | quota equals workers; no stranded worker; deleted stays deleted |
| Cleanup outbox and purge (`cleanup_outbox.go`, `purge_*.go`) | leased tasks, purge items and jobs | enqueue, claim, delete remotely, complete, retry, fail | late answers after a lapsed lease, crash between deletion and record, session ids used again, remote sessions whose id is written late | no cleanup lost; a job's status is true; the purge ends |
| Effect ledger (`internal/effect`, `gateway/effect_*.go`) | effects, attempts, leases with tokens, payloads | plan, claim, send, complete, expire, reconcile, fence, operator action, collect | provider accepted but the answer is lost; lapsed leases; changed targets | one message per effect, of the recorded text |
| Cron (`internal/cron`) | index and rows of jobs, timer, run goroutines, occurrences | start, tick, claim occurrence, execute, post-process, edit, reload | clones merged back late, crash between advance and run, cap | a firing runs at most once; slots are exact; nothing is revived |
| Supplements and stop fence (`pending_buffer.go`, `stop_fence.go`, `commands.go`) | buffered messages, dispositions, stop claims | inject, buffer, replay, claim, roll back | replay against reset and delete | each supplement has one disposition |
| Audit trail (`internal/audit`) | channel, batch, spill file, hash chain, checkpoints | enqueue, spill, flush, drain, prune, re-anchor, verify | full channel, failing transactions and writes, shutdown against callers, expiry out of order | no accepted event lost unseen; an unbroken chain; retention kept |
| Messaging (`internal/messaging`) | dedup map, pending interactions, connection pool | record, roll back, answer, expire | platform retries, eviction at the limit | a platform message is admitted once |
| Lifecycle migration, restart coordination, configuration, security, skills, administration, workers, brain, observability, updater, service, command line, client SDK, web chat | see `PROJECT.json` | | mostly I/O, parsing and user interface | |

How the modelled components interact.  The handler calls the ledger
synchronously and, when a terminal write fails, hands the outcome to the
repairer.  The bridge's forwarder of a worker run finishes the runtime of the
session's open record on Done and then wakes the queue dispatcher, which
claims the head and re-enters the handler; it also numbers each worker event,
hands it to the hub and to the collector.  The lease manager renews what the
gateway owns except what the repairer gave up, and fences what nobody renews.
The session manager's deletion writes the cleanup task and the purge job in
the transaction that marks the row; runners of every gateway work them off.
The cron scheduler's runs go through the session manager and the handler, and
end in a delivery that the effect ledger owns.  Every part reports to the audit
collector and waits for nothing but its bounded fallback.

## 2. Modules

| Module | Models | Uses |
|---|---|---|
| `InputLifecycle` | what is promised about a durable input: six phases, no columns | |
| `WaitingLine` | what is promised to inputs that wait: order of arrival, no ordinals | |
| `ExecutionLedger` | the four tables and every writing store operation | instantiates `InputLifecycle` and `WaitingLine` |
| `InputDelivery` | handler, dispatcher, worker runs, forwarder, stop, retry, crashes, background jobs | extends `ExecutionLedger` |
| `TerminalRepair` | repairer, lease manager and the four callers under store failures | |
| `SessionPool` | session manager, its objects, rows and quota | |
| `SessionCleanup` | deletion, cleanup outbox, purge job, runners of several gateways | |
| `EffectLedger` | effect, attempt and payload tables, deliverer, recovery loop, operators, retention | |
| `CronScheduler` | index, rows, timer, run goroutines, occurrences, edits, reload | |
| `EventStream` | sequence numbers and their locks, broadcast, connections, collector | |
| `AuditTrail` | collector, spill file, hash chain, retention, re-anchoring | |
| `...Proofs` | theorems about the module of that name; `InputDeliveryProofs` begins with those about `ExecutionLedger` | extend it |
| `MC...` | constants for TLC | extend it |

**ExecutionLedger.**  `rows[i]` is the row of one `(session_id,
client_message_id)` key; `rt = "none"` means there is none, so the key's
uniqueness is the guard of `Accept` and `AcceptQueued`.  Each store operation is
one statement or one transaction under the write lock, so it is one action
with the `WHERE` clause as guard; a refused call writes nothing and is a
stuttering step.  The partial unique index is `Busy`.  The database's clock is
`now`, a gateway's is `now + Skew[g]`: `Accept`, renewal and recovery use the
first, `ClaimQueued`, the queue's expiry and `created_at` the second, exactly
as the code does.  `Next` allows every call by every gateway with every
argument, so what holds here holds for any caller; the one restriction,
`CrossedDispatch`, is that deliveries are settled only for records that
`Accept` or `ClaimQueued` returned.  `FinishRuntime` with `unknown` has no
production caller today and is kept because the store offers it.
`SetTurnDeadline` writes columns no guard reads and `SetStatus` has no caller;
both are left out.  The queue is mapped to `WaitingLine` by `PlaceOf` and
`Precedes`, the order of the ordinals: that ordinals allocated by `AcceptQueued`
are the order of arrival is what the refinement says.

**InputDelivery.**  One goroutine per input, at a position `pc[i]`; the gate is
held at the positions `InsideGate`.  Store calls of one goroutine are separate
steps.  `bound`, `work` and `dones` are the session's worker run, what each
worker holds and the Done events the forwarder has not taken; `seen` is the
record read by `finishRuntimeOnDone` before it finishes it.  Where the code
makes up a placeholder run id because no worker is attached, the row names
`NoRun`.  `target[i]` is what a delivery has noted (`Note`): the record and the run
it was accepted, claimed or marked with, under which it finishes the record of
an input that was not sent.  `FreshStartFails` ends an acceptance in `busy` with the
old worker still bound or already gone.  The finish, the wake-up and the convergence of a failed delivery are
one step after the read; the read is the part another goroutine can overtake.
Mid-turn injection, the volatile supplement buffer and the refusals of
`handleSupplementOnBusy` change nothing durable and are one step.

**TerminalRepair.**  Each record is reduced to runtime, delivery, whether its
owner is up and ticks left on its lease.  Every store call may fail.
`processDue` copies what is due and attempts it later, `kept` says whether the
map still holds the same pointer; `renewLoop` and `recoverOnce` take a
snapshot of the exclusions and use it later.  Backoff is left open: an intent
may be due at any time.  A run mismatch of `finishRuntimeOnStop` is an intent
with `match = FALSE`.  The attempts made while shutting down are the same
steps as before it.  An intent of a Done names its session (`sid`), and only such a one wakes the
session's queue when the store takes it; `woken` and `silent` record which
executions woke it and which were reported by a stop or a refusal.
`IsMoreTerminal` never applies, because no caller queues an
unknown runtime; it is kept because it is a guard of `Enqueue`.

**SessionPool.**  A managedSession is an object with an identity: `cache` says
which object the map names, and a goroutine may hold a pointer to one the map
no longer names.  Each call of the manager is cut where the code unlocks, and
what it read stays in `op[p]`.  `pool` has the four counters; `row` and
`pending` are what Upsert's guards look at.  `ended` is a history of workers
handed to Terminate or Kill.

**SessionCleanup.**  A session id has lives; each life has remote worker sessions of
its own, while the conversation is stored under the id alone.  A worker that
is starting (`starting`) creates its remote session (`made`, `remote`) whatever has
become of the row, and a goroutine of the bridge writes the id into the row
later or never, also over another id and into a deleted row.  `owed` is the
remote session the row named when its purge job was created.  Store
operations are one action each; the runner's call of the provider and the
record of its answer are two, with the claim in `hand[g]` or `purging[g]`
between them.  A lease token is a number given out once.

**EffectLedger.**  `effect`, `attempts` and `payload` are the three tables; a
sender's record is what its goroutine has read.  The clock is abstract: a lease
is live and then lapsed, a backoff waiting and then due.  `messages` is what
the provider really created, which no guard reads.

**CronScheduler.**  Clones are explicit: a timer callback and a run goroutine
carry a copy of the job and merge it back.  `jobs` is the index, `rows` the
table, `occurred` the table of trigger keys; `ran`, `again` and `delivered` are
histories.  A write of a job's state may fail (`Store`), which counts as an event;
the index is merged whether it fails or not, and the two are one step.  Where
the code compares an error or retry counter with its limit,
both branches are allowed.

**EventStream.**  One session, whose producers are the forwarder (numbering,
sending and capturing under a read lease of the barrier and the order lock), a
handler that lets `SendToSession` number its event, the state notifier, and
the reader of client messages.  Handshakes and deletions take the barrier for
writing; a waiting writer keeps new readers out, as Go's `RWMutex` does.  `gen`
names the life of a counter, `safe` marks a number taken from a hydrated
counter by a producer that keeps its lease until the event is captured,
`ordered` one taken under the order lock.  `due` and `last` are histories of
what each client is owed and got.

**AuditTrail.**  One `Enqueue` call per event, cut at its channel operations and its
spill write; the writer goroutine at `writer`, which waits in its `select`,
flushes, returns a failed batch record by record, drains, replays.  A
transaction is one step, because the writer mutex or the advisory lock is held
from begin to commit; it may fail, or succeed with its answer lost.  A spill write
may fail and leave a torn record.  A hash is the sequence of events it covers.
The lifecycle chain has the collector, the legacy chain only old rows and the
command line's re-anchoring; they share nothing, so a behaviour is about one
(`profile`).  `stored`, `lost` and `buried` are histories; `stale` says that the
latest checkpoint anchors a row that was gone when it was written.

## 3. Runs

| Run | Bounds | Shows |
|---|---|---|
| `ledger` | 1 session, 2 inputs, 2 gateways (one clock lags), 1 run, TTLs of 1 tick, queue of 2, sweep of 1, time 0..1 | one slot, fences, monotone facts, queue and rows agree, refinement of `InputLifecycle` and of `WaitingLine` |
| `delivery` | 2 inputs, 2 runs, 2 gateway incarnations, resume fallback on, no auto-retry and no operator, each input sent at most twice | serial turns, truthful completion, a deserted turn is fenced |
| `delivery_faults` | 2 inputs, 2 runs, 2 gateway incarnations, retry, fallback and operator on, each input sent at most twice | write ahead, one primary dispatch |
| `repair` | 1 execution with 2 conflicting reports, capacity 2, lifetime 1, 1 restart, `FairSpec` | nothing forgotten, convergence and release, a late Done wakes the queue |
| `sessions` | 1 session, 2 goroutines, 2 objects, 2 workers, 1 deletion, 1 reload of the limits | no leak, exact quota, no stranded worker, deleted stays deleted |
| `cleanup` | 1 session id with 2 lives, 2 remote sessions, 2 gateways, 5 leases, 1 fault, `LiveSpec` | no early revival, true status, no lost cleanup, the purge ends |
| `effects` | 1 occurrence, 1 target, 2 texts, 1 run, 2 recovery loops, 3 attempts, 1 crash, `LiveSpec` | one message, the recorded text, decisions stay, no send stays in flight |
| `cron` | 1 job, 2 goroutines, caps 1 and 2, time 1..2, 2 events (edits, crashes, failing writes) with cap 1 and 1 with cap 2 | one run per firing, exact slots, nothing revived |
| `stream` | 2 connections, channels of 1, six budgets | no collision, order, no gap |
| `audit` | 2 events, channel of 1, batches of 2, retention 1, time 0..2, 2 faults, 1 restart; a legacy chain of 3 rows with a gap; `LiveSpec` | nothing lost unseen, the chain verifies, retention kept, accepted events settle |
| `stream_standstill` | as `stream` | the standstill of finding 1 (violation) |
| `cron_oneshot` | as `cron`, a job stored as one-shot | the refused firing of finding 2 (violation) |

Why the bounds are enough.  The smallest conflict over a slot, a gate, a
counter or a lease needs two actors; queue order needs two inputs and queue
capacity as many as fit; a stale lease needs a clock that lags by one tick of a
lease of one tick; a late answer needs a second claim of the same task; a
capacity of 1 makes every channel full at once.  What needs more than that is
the business of the proofs, which have no bounds: a full backlog of the
repairer (`OutcomesRemembered`), targets that change between
attempts (`DeliveredAtMostOnce`, `OneAnswerSent`), any number of sessions, gateways,
lives and leases (`SessionCleanupProofs`).  In `EventStream` a behaviour is bounded
by one of six budgets, each of which combines the actors of one hazard:
`Ordering` (forwarder and handler on one connection), `Unordered` (producers
without the order lock), `Recreation` (deletion, recreation and a late
release), `Takeover` (a second connection), `FailedRelease` (a flush that
fails) and `Restart` (a crash and hydration).  `MaxTime`, `MaxGiven`,
`MaxReports`, `MaxRestarts`, `MaxDeletes`, `MaxReloads`, `MaxLives`, `MaxRemotes`,
`MaxClaims`, `MaxFaults`, `MaxCrashes`, `MaxEvents` and `Budgets` are bounds of the models, not of
the code; `MaxAttempts`, `BatchSize`, `Retention` and the capacities are parameters of the code.  Fence
versions offered to operators range over 0..2, which covers the current one
and two stale ones, because a row's version never exceeds 1.  Symmetry is used
only where a run checks no liveness.  Runs without a deadlock check stop when
their bounds are used up; `repair` checks for deadlock.  Each module keeps a type
invariant; they are theorems (section 6), hold on the same instances and are
not repeated in the runs.  The view of
`sessions` hides what is left in an object nothing refers to.

`delivery` excludes auto-retries and operator decisions because with them its
properties are known not to hold: a retry works in a session whose slot is
free, and an operator may release a fence while the old worker still runs, so
that its Done reaches the next input's record of the same run.  The theorems
`TurnsAreSerial` and `CompletionIsTruthful` assume the same two constants to be
false, and nothing else.

## 4. Findings and known divergences

Two runs are expected to fail; `PROJECT.json` quotes the lines they contradict.

1. `stream_standstill`: the forwarder takes the barrier and then the order lock,
   `SendToSession` the order lock and then the barrier.  With a hydration or a
   release queued for writing in between, the three wait on each other for ever.
2. `cron_oneshot`: the timer replaces the instant of a due one-shot job before it
   derives the key of the firing, which is then refused; the job never runs.

The modules also keep statements of what a comment or a design document says
that the code does not keep; TLC refutes each as soon as it is checked with
the constants named here.  They are stated so that a repair of the code can be
checked, and are no part of the runs above.

* `RetryKeepsExecutionOpen`, `RefusalClosesRuntime`, `CrashClosesRuntime` and
  `NeverReplayed` of `InputDelivery` (with `AutoRetry`, `CrashReplay`): the record is
  terminal while an auto-retry is pending; a refused input keeps its runtime
  pending; a worker crash leaves the record running until its lease is over;
  the resume fallback sends an input to a second worker.
* `OnlyOwnDoneCompletes` of `InputDelivery`: a record released from its fence by a
  fresh start stays unknown and names the fresh run; when an older input is
  then promoted from the queue and runs there, the released record is the newest
  open one of that run and takes the older input's Done
  (`bridge_forward.go:686-714`, `sql_store.go:767-780`).  It takes three inputs;
  `TruthfulCompletion` names this record as its only exception, and the proof
  shows that it is the only one.
* The waiting line is for those who wait: an input accepted directly while its
  session is momentarily not busy passes the queue (`Elsewhere` of `WaitingLine`).
* `DeliverySettles` and `SeenEndConverges` of `TerminalRepair`: a delivery outcome
  the repairer gave up stays accepted; a failed lookup loses the end of a turn
  and renewal keeps the record running.  Beyond them, the convergence of a
  failed delivery uses the delivery status read before the finish
  (`bridge_forward.go:751`), which the delivery model takes as read there.  Only a
  Done wakes the queue: `finishRuntimeOnStop` and `finishRuntimeWithoutDispatch` queue
  intents without a session, and replace the intent of a Done by one that wakes
  nobody (`handler.go:1909-1967`, `bridge.go:522`); `ReleaseWakesQueue` leaves out the
  executions they reported, whose queue waits for the next turn.
* `QuotaMatchesWorkers` of `SessionPool`: a deletion may give back quota that a
  concurrent transition or attach gives back as well; `QuotaExact` therefore
  speaks of the time before the first deletion, `NoSlotLeak` of all times.
* `CompleteMeansErased` of `SessionCleanup`: a deletion cleans the one remote session
  its row names.  One that is created after the deletion or whose id is not
  written yet (`bridge_worker.go:190-203`) is left while the job is complete; so is
  one whose id another write replaced, and an id written into a row already
  deleted (`store.go:172-195` has no guard on the state) is cleaned by nobody.  For a
  session id that is used again the old purge job stays complete, and a late
  purge of the old life deletes the conversation of the new one.
* `PlannedIsClaimable` of `EffectLedger`: an effect that was not sent or is
  requeued keeps its attempt number, which `UNIQUE(effect_id, attempt)` then
  refuses; it is never claimed again.  `AtMostOnce` rests on that refusal.  An
  effect rejected at the cap of attempts stays started.
* `CronScheduler`: when the write before a run fails and the process crashes, the
  stored instant is the old one and the firing runs once more, under the key of
  another instant (`timer.go:115-120` says so); `AtMostOneRun` is about one key.  The
  key of a recurring firing names the advanced instant
  rather than the one that was due; a catch-up run does not advance the stored
  instant; an edit or a reload based on an older copy can leave a running mark
  behind, which the next start clears (against
  `docs/explanation/cron-design.md:61`).
* `EventStream`: the state notifier, the admin notifier and `init_ack` take
  numbers outside the order lock, so their frames may overtake; a worker error
  that was held back is sent after later numbers; the number of a client
  message is not pinned until it is captured and may be used again after a
  deletion; a late `ReleaseSeq` resets the counter of a session recreated
  meanwhile; the timer's flush goes past the collector's channel and can store
  entries out of order.  `InOrder` and `NoCollision` therefore speak of `ordered`
  and `safe` events.
* `AuditTrail`: `collector.go:55-60` says that accepted events survive graceful
  shutdown, but a call that found the collector open may send after the
  writer's last look at the channel, and the HTTP servers are shut down after
  the collector (`gateway_run.go:1805`); such an event is in memory when the
  process ends.  `Close` clears the spill file's field without synchronisation.  A
  torn spill record hides all later ones, which the drain then truncates
  (`buried`), and a crash between a drain and its commit loses what was drained,
  although the file is called crash-safe.  A commit whose answer is lost is
  replayed, so its events are in the chain twice.  A prune of the legacy chain
  takes newer rows that stand before an old one.  `Rebase` reads and saves in
  separate statements (`stale`), and a prune after a re-anchoring moves the start
  of a verification back to where the gap is visible again.  `VerifyOnce` reads
  the checkpoint and the rows without a transaction; a prune in between looks
  like tampering.  `NothingLost` and `ChainSound` name these exceptions.

## 5. Fairness

`repair`, `cleanup`, `effects` and `audit` use it.  *Repair*: the repairer's loop, the
renewal loop and the recovery loop are tickers of the process, so each of
their steps is weakly fair; a crashed gateway is restarted by its service
manager; time passes.  The store may fail any number of times but not for
ever, which for the sweep is strong fairness of `RecoverExpiredLeases`.  No
repair attempt is assumed ever to succeed and no renewal to reach the store:
`TerminalConverges` rests on the lease alone.  *Cleanup*: the runners poll every
second as long as a process runs, and a lease nobody works under passes.
*Effects*: the recovery loop ticks, a goroutine proceeds because its calls have
timeouts, and a lease passes.
*Audit*: the writer goroutine runs as long as the process does, and Go's `select`
chooses among ready cases at random, so receiving and the ticker are strongly
fair and the steps after them weakly; the `closeC` case and the callers are not
fair.  Faults and crashes are never fair, and they are
bounded, which is the assumption that they do not go on for ever.

## 6. Proofs

Every safety property the passing runs check is a theorem, for every value of
the constants; the runs show the same properties on small instances.

`InputDeliveryProofs`, on the ledger, proves for all sets of sessions, finite sets
of inputs, gateways, runs, all limits and all clock offsets: `TypeOK`,
`SingleSlot`, `FencedOnceAndUnknown`, `QueueMatchesRows`, `OrdinalsUnique`,
`RuntimeNeverGoesBack`, `DeliveryNeverRegresses` and the refinements
`ImplementsLifecycle` and `ImplementsWaitingLine`.  None of the
invariants is inductive alone.  `SingleSlot` needs that a fenced row is unknown
(a row that leaves the slot by an outcome must lose its fence, and an active
row must not carry one); that needs the fence version to be 0 before the first
fence; a claim preserves it only because a queue row's execution is queued;
and ordinals need the counter to be above every ordinal in use.  The inductive
invariant `IInv` is the conjunction of all five.  There is one lemma per store
operation, over lemmas that say what each `UPDATE` does to one row.  The
refinement is proved call by call (`StepRefines`): every call of the store moves
phases as one abstract action or leaves them alone.  The waiting line is
refined in the same way and rests on `OrdinalsUnique`: an input that joins gets
an ordinal above all that are in use, so that exactly those who wait come to
stand before it, and no claim, cancellation, clearing or expiry changes the
ordinals of those who stay.  `DeliveryNeverRegresses` needs one more invariant,
`Unsent`: an input that has not crossed the dispatch boundary has no delivery
outcome, so the settling of a queued input, which writes the status
without looking at it, overwrites none.

`InputDeliveryProofs`, on the delivery path, proves `DTypeOK`, `SingleSlot` under the
gateway's own calls, `WriteAhead`, `PrimaryDispatchOnce`, `OneTurnAtATime`,
`TruthfulCompletion` and `DesertedTurnIsFenced`.  `WInv` says that what the gateway
remembers is backed by the ledger: a handler at a position before the dispatch
has never given its input away, and whatever a worker, its forwarder or a retry
timer holds was given.
`TInv` ties turns to the slot: an input a worker has in hand, or whose Done is on
its way, holds the slot of its session, or its run is stale: unbound, and named
by no record that holds the slot; the gate is exclusive, a fresh run has nothing
in hand, and a Done that reports success comes from a worker that succeeded.
Each action then falls into one of a few
kinds (`Calm`: nobody enters or leaves the slot or completes), and the invariant is
preserved kind by kind.  The delivery path also implements `ImplementsLifecycle` and keeps
`RuntimeNeverGoesBack` and `ImplementsWaitingLine`: `DeliveryCalls` shows that each of its
steps is a call of the store (`StoreCall`, which admits the placeholder run), leaves
the ledger alone, or is the forwarder's finish, which settles one record.
These three are model-checked over the ledger's own runs; over `DSpec` they are
only proved.

`TerminalRepairProofs` proves `RTypeOK`, `NothingForgotten` and `ReleaseWakesQueue` for
any number of executions, capacity, lifetime and lease.  The inductive invariant adds that
an intent carries an outcome of its own kind, that what `recoverOnce` is about
to release is no longer active (the snapshot is old, but an execution never
re-enters the slot), and that nothing is owned while the process is down.
`IntentsWake` says that an intent for a runtime outcome that names no session,
in the map or in the batch `processDue` copied, belongs to an execution that a
stop or a refusal reported.

`SessionCleanupProofs` proves `CTypeOK`, `NoRevival`, `NoLostCleanup` and
`JobTruthful`.  The invariant `CInv` says of each claim in a runner's hands that,
however stale, it agrees with the task as long as it owns it, and that a life
whose remote session was deleted in its name cannot get one again, because a
live session always has a later life; what a row or a task names has been
created, so that a remote session starting later is another one.  `JInv` adds what connects a job with
its items in the first life: behind a job the row is not live, so nothing is
appended; the conversation item is complete only after the deletion, the worker
item only when there was no remote session or its one task deleted it.

`EffectLedgerProofs` proves `ETypeOK`, `AtMostOnce`, `OneAnswer`, `LedgerTruthful`,
`OwedKeepsPayload` and `DecidedStays`.  The invariant `EInv` is about who may send:
an effect that can be claimed (absent, waiting behind a backoff, or planned at
a free attempt number) has no message and no owner; an effect has at most one
owner, which has sent nothing yet or knows what it sent; and only a rejection
recorded by that owner makes the effect claimable again.  A lapsed lease takes
the row away from its owner but never makes it claimable, which is why a late
send is harmless.

`CronSchedulerProofs` proves types, `SlotsExact`, `AtMostOneRun` and
`RunNeverRevives`.  Types and `SlotsExact` are inductive only together, because a
goroutine that ends gives its slot back and the counter must not fall below
zero.  `RunInv` says that a claimed key has one owner, and that what the owner
may still do, run or deliver, has not been done for that key; a callback that
comes later is refused by the table, whatever its clone says.
`RunNeverRevives` follows a clone to its merge: a merge writes a job only while the
index, and a row only while the table, still has it, and never turns `enabled` on;
a write that fails leaves the row alone.

`SessionPoolProofs` proves types, `DeletedStaysDeleted`, `NoOrphan`, `QuotaExact` and
`NoSlotLeak`.  `SInv` is the types together with what a call holds at each
position; `RowInv` adds that a queued cleanup means a deleted or missing row;
`OInv` that a deletion owns the object it marked, so no attach can bring a worker
to it and no second deletion takes it.  The quota is counted by sums over
finite sets of objects and goroutines: `QInv` says that a worker is counted in
one place, an object or the attach about to bring it, and every step changes
counter and sum by the same amount (`QuotaExact`, before the first deletion).
`NoSlotLeak` holds at all times but is not inductive: a release that finds no
slot of its user leaves the total alone, so that the total is bounded only
because it is the sum of the users' counters.  `LInv` states that sum for every
set of users.

`EventStreamProofs` proves types, `NothingSkipped`, `InOrder` and `NoCollision`, for any
number of connections, capacities, events, deletions and crashes.  `BaseInv` adds
to the types what a connection's state says (`ConnOK`) and that numbers in use
have a bound, without which a table would have no latest number to hydrate
from.  `OrderInv`: the order lock is held at exactly the places where its holder
numbers and sends; the channel and each client's buffers are sorted and lie in
line, and the event in the lock holder's hand is behind all of them.
`MarkInitDone` appends the init buffer to the write channel, which is in order only
because an open connection has no init buffer.  `CountInv`: worker events that
are under way and claim a row of the table exist only while the counter is
hydrated, and the counter is above all of them and all that is stored.
Release and hydration keep this because behind the barrier no producer has an
entry in hand (`Alone`) and the drain empties the collector first; a release
without a drain happens only at counter 0, below which nothing was numbered.

`AuditTrailProofs` proves `ATypeOK`, `NothingLost`, `ChainSound` and `RetentionKept`
for any events, capacities, batch size, retention and legacy chain.
`NothingLost` needs of the types only where the writer can hold drained records.  For
the chain, `ChainInv` says that rows stand in the order of their ids
(`Ordered`); that a link is broken only where the legacy chain's was (`Linked`);
that the checkpoint fits the first row a verification reads, unless it is
`stale` (`Anchored`); that the lifecycle chain is verified from its first row,
and an empty one starts from the genesis hash (`Fresh`), without which the
first commit after a complete prune would look like a break; and that a
re-anchoring in progress has read the hash its row still carries.  What a prune
removes is the least or greatest element of a set of positions, which exists
because `<` on the natural numbers is well founded.

Assumptions: the named `ASSUME`s of the modules, which TLC evaluates in the
runs: sessions of inputs are sessions, limits and TTLs are positive, inputs are
finite (the queue's depth is a cardinality), and so are the objects and
goroutines of the session manager (its quota is a sum over them); channels
have room for one entry, the repairer's capacity is at
least 2, bounds are natural numbers, at least one attempt is allowed, no
text is one of the marks for a missing or blanked one, and the rows of the
legacy chain are in the order of their ids.

Only model-checked: the liveness properties `TerminalConverges`,
`ExclusionsReleased`, `PurgeFinishes`, `LeaseSettles` and `AcceptedSettles`, which are
out of the prover's reach, as are `ENABLED` and induction over recursive
definitions.  What is only stated (section 4) is refuted by TLC and not proved.

## 7. Plan

1. The strengthenings behind the liveness runs as theorems of their own: what
   the lease, the sweep and the writer preserve on the way to each goal.
2. Supplement buffer and stop fence; messaging deduplication; the start and
   stop of the shared OpenCode server process.
3. Compose `InputDelivery` with `TerminalRepair`, to say which input a queue woken by
   a repair dispatches and what a refused stop does to a live execution; compose
   `CronScheduler` with `EffectLedger` at the hand-over of a run's answer.

## 8. Not modelled

Payloads, hashes, error codes, metrics and acknowledgements; the text of
skills; turn deadlines as times (a deadline may pass at any moment of a turn);
rows of an execution removed with its session (`ON DELETE CASCADE` of migration
037); worker Error events that claim the end of a turn without settling its
record; several sessions at once in `EventStream` (they share only lock shards and the
broadcast channel), where a handshake's calls after hydration are merged and the
messages of a turn timeout or of a missing Done are no producers of their own;
platform connections of the hub; turn records and queries
of the event store; alert sinks, queries and identity links of the audit trail, a
failing seek after the spill file was truncated and a read error in the
middle of it (`spill.go:85-126`); the branch of an attached cron job without a
router, which the gateway always provides (`gateway_run.go:788-801`), and the time
between the write of a cron job's row and the merge into the index;
the components listed as not modelled in `PROJECT.json`,
with the reason there.  Drivers of external agent processes, adapters of
messaging platforms, configuration, security predicates, skills, the command
line and instrumentation are I/O, parsing or sequential data transformation
without a protocol of their own.
