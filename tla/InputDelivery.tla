--------------------------- MODULE InputDelivery ---------------------------
(***************************************************************************)
(* How the gateway drives the ledger: the goroutine that delivers an      *)
(* input (gateway/handler.go), the dispatcher of the durable queue        *)
(* (gateway/queue.go), the worker run of a session and the forwarder that *)
(* turns its Done events into runtime outcomes (gateway/bridge_*.go), the *)
(* stop command, the LLM auto-retry, worker crashes, gateway crashes and  *)
(* the lease manager.  Every ledger write is an action of                 *)
(* ExecutionLedger; the store calls of one goroutine are separate steps   *)
(* wherever another goroutine can get in between.                         *)
(*                                                                        *)
(* A store call that fails for want of a database is not modelled here    *)
(* (TerminalRepair does that), nor are the volatile supplement buffer and *)
(* mid-turn injection, which write nothing durable.                       *)
(***************************************************************************)
EXTENDS ExecutionLedger, Sequences

CONSTANTS
  NoInput,      \* no input
  AutoRetry,    \* the LLM retry controller is configured
  CrashReplay,  \* a crashed worker may be replaced by attemptResumeFallback
  Operator,     \* an operator decides fences over the admin API
  MaxGiven      \* bound on how often one input is sent to a worker

ASSUME DeliveryAssumption ==
  /\ NoInput \notin Inputs
  /\ {AutoRetry, CrashReplay, Operator} \subseteq BOOLEAN
  /\ MaxGiven \in Nat \ {0}

VARIABLES
  gw,      \* the gateway process that is up
  spare,   \* instance ids that no process has used yet
  pc,      \* where the goroutine delivering an input is
  target,  \* what a delivery holds: the fenced row it is clearing and the run it
           \* started; once accepted, its own record and the run recorded in it
  wake,    \* sessions whose queue the bridge asked the dispatcher to look at
  peeked,  \* the queue head the dispatcher read and has not claimed yet
  bound,   \* the worker run attached to a session; where the code records a
           \* placeholder run id because none is attached, the row names NoRun
  used,    \* run ids given out
  ended,   \* runs whose current turn has committed its terminal event
  work,    \* the inputs a run's worker holds; it is working on the first
  dones,   \* Done events a run's worker sent and the forwarder has not taken
  seen,    \* the record a run's forwarder read for the Done it is handling
  retry,   \* the input an auto-retry waits to send again, per session
  given,   \* history: how often an input was sent to a worker
  served   \* history: inputs a worker reported as done successfully

handler == <<pc, target, wake, peeked>>
workers == <<bound, used, ended, work, dones, seen, retry>>
history == <<given, served>>
all == <<vars, gw, spare, handler, workers, history>>

-----------------------------------------------------------------------------
\* Positions of a delivery.  busy: refused by Accept, deciding what to do with
\* the input.  fresh, cleared: replacing the worker of a fenced session.
\* claimed: promoted from the queue, not yet past the dispatch gate.
\* accepted, marked: before and after MarkRunning.  refused: not sent.
\* delivered, failed, unknown: what the worker call returned.
InsideGate == {"fresh", "cleared", "accepted", "marked", "refused", "delivered"}
Position == InsideGate \cup {"idle", "busy", "claimed", "failed", "unknown"}

\* dispatchGate: one delivery or stop per session at a time.
GateFree(s) == \A i \in Inputs : SessionOf[i] = s => pc[i] \notin InsideGate

Move(i, p) == pc' = [pc EXCEPT ![i] = p]

\* A delivery notes a record and a run.
Note(i, f, r) == target' = [target EXCEPT ![i] = [row |-> f, run |-> r]]

\* OpenBySession: the open rows with the latest created_at.
OpenBySession(s) ==
  LET opened == {i \in Inputs : SessionOf[i] = s /\ rows[i].rt \in {"pending", "running", "unknown"}}
  IN {i \in opened : \A j \in opened : rows[j].created <= rows[i].created}

\* cancelRetryIfNeeded
CancelRetry(s) == retry' = [retry EXCEPT ![s] = NoInput]

\* Defect: the old worker of a fenced session is detached and keeps running.
WorkWithoutIsolation(s) == work

\* existing.Terminate: what the session's bound worker held is gone.
WorkAfterTerminate(s) == [q \in Runs |-> IF q = bound[s] THEN <<>> ELSE work[q]]

\* Defect: the outcome goes to the newest open record whatever its run.
TakesFromAnyRun(i, r, st) == rows[i].rt \in FinishableTo(st)

\* What FinishRuntime checks of the record it is given.
Takes(i, r, st) == rows[i].run = r /\ rows[i].rt \in FinishableTo(st)

SendTo(r, i) ==
  /\ given[i] < MaxGiven
  /\ work' = [work EXCEPT ![r] = Append(@, i)]
  /\ given' = [given EXCEPT ![i] = @ + 1]

-----------------------------------------------------------------------------
(* Acceptance: acceptInputExecutionWithRetry and handleSupplementOnBusy. *)

Deliver(i) ==
  LET s == SessionOf[i]
  IN /\ pc[i] = "idle" /\ GateFree(s)
     /\ Accept(gw, i, bound[s])
     /\ Move(i, "accepted") /\ Note(i, i, bound[s])
     /\ CancelRetry(s)
     /\ UNCHANGED <<gw, spare, wake, peeked, bound, used, ended, work, dones, seen, history>>

DeliverBusy(i) ==
  LET s == SessionOf[i]
  IN /\ pc[i] = "idle" /\ GateFree(s)
     /\ rows[i].rt = "none"
     /\ \E j \in Inputs : SessionOf[j] = s /\ Active(j)
     /\ Move(i, "busy")
     /\ CancelRetry(s)
     /\ UNCHANGED <<vars, gw, spare, target, wake, peeked, bound, used, ended, work, dones, seen, history>>

\* FenceBySession, then StartFreshWorker: the old worker is terminated, but
\* what it already sent is still in its stream.
DeliverFenced(i, f, r) ==
  LET s == SessionOf[i]
  IN /\ pc[i] = "idle" /\ GateFree(s)
     /\ rows[i].rt = "none"
     /\ SessionOf[f] = s /\ rows[f].fence # "none"
     /\ r \in Runs \ used
     /\ Move(i, "fresh") /\ Note(i, f, r)
     /\ bound' = [bound EXCEPT ![s] = r]
     /\ used' = used \cup {r}
     /\ work' = WorkAfterTerminate(s)
     /\ UNCHANGED <<vars, gw, spare, wake, peeked, ended, dones, seen, retry, history>>

\* StartFreshWorker fails: before the old worker is ended, or after it.
FreshStartFails(i, f) ==
  LET s == SessionOf[i]
  IN /\ pc[i] = "idle" /\ GateFree(s)
     /\ rows[i].rt = "none"
     /\ SessionOf[f] = s /\ rows[f].fence # "none"
     /\ Move(i, "busy")
     /\ \/ UNCHANGED <<bound, work>>
        \/ bound' = [bound EXCEPT ![s] = NoRun] /\ work' = WorkAfterTerminate(s)
     /\ CancelRetry(s)
     /\ UNCHANGED <<vars, gw, spare, target, wake, peeked, used, ended, dones, seen, history>>

\* A fence that is gone meanwhile counts as cleared.
ClearFence(i) ==
  LET f == target[i].row
  IN /\ pc[i] = "fresh"
     /\ Move(i, "cleared")
     /\ \/ /\ ClearFenceAfterFreshStart(f, rows[f].fence, target[i].run)
           /\ rows[f].fence # "none"
        \/ rows[f].fence = "none" /\ UNCHANGED vars
     /\ UNCHANGED <<gw, spare, target, wake, peeked, workers, history>>

RetryAccept(i) ==
  LET s == SessionOf[i]
  IN /\ pc[i] = "cleared"
     /\ \/ Accept(gw, i, bound[s]) /\ Move(i, "accepted") /\ Note(i, i, bound[s])
        \/ Busy(s) /\ Move(i, "busy") /\ UNCHANGED <<vars, target>>
     /\ CancelRetry(s)
     /\ UNCHANGED <<gw, spare, wake, peeked, bound, used, ended, work, dones, seen, history>>

EnqueueBusyInput(i) ==
  /\ pc[i] = "busy"
  /\ AcceptQueued(gw, i, 0)
  /\ Move(i, "idle")
  /\ UNCHANGED <<gw, spare, target, wake, peeked, workers, history>>

\* The busy input was injected into the running turn, buffered in memory, or
\* refused, or goes round again as a new turn.
SupplementNotDurable(i) ==
  /\ pc[i] = "busy"
  /\ Move(i, "idle")
  /\ UNCHANGED <<vars, gw, spare, target, wake, peeked, workers, history>>

-----------------------------------------------------------------------------
(* The queue dispatcher: DispatchQueued. *)

PeekQueue(s) ==
  /\ s \in wake /\ peeked[s] = NoInput
  /\ wake' = wake \ {s}
  /\ \/ QueueOf(s) = {} /\ UNCHANGED <<vars, peeked>>
     \/ \E i \in QueueOf(s) :
          /\ IsHead(i)
          /\ \/ peeked' = [peeked EXCEPT ![s] = i] /\ UNCHANGED vars
             \/ CancelQueued(i) /\ UNCHANGED peeked  \* its content is gone
  /\ UNCHANGED <<gw, spare, pc, target, workers, history>>

ClaimHead(s) ==
  LET i == peeked[s]
  IN /\ i # NoInput
     /\ peeked' = [peeked EXCEPT ![s] = NoInput]
     /\ \/ ClaimQueued(gw, i, bound[s], 0) /\ Move(i, "claimed") /\ Note(i, i, bound[s])
        \/ (~IsHead(i) \/ Busy(s)) /\ UNCHANGED <<vars, pc, target>>
     /\ UNCHANGED <<gw, spare, wake, workers, history>>

\* The Skill no longer resolves: only the delivery is settled.
SettleUndispatchable(i) ==
  /\ pc[i] = "claimed"
  /\ Move(i, "idle")
  /\ \/ SetDelivery(gw, i, "failed")
     \/ rows[i].status # "accepted" /\ UNCHANGED vars
  /\ UNCHANGED <<gw, spare, target, wake, peeked, workers, history>>

DeliverClaimed(i) ==
  /\ pc[i] = "claimed" /\ GateFree(SessionOf[i])
  /\ Move(i, "accepted")
  /\ CancelRetry(SessionOf[i])
  /\ UNCHANGED <<vars, gw, spare, target, wake, peeked, bound, used, ended, work, dones, seen, history>>

-----------------------------------------------------------------------------
(* Delivery to the worker, under the gate. *)

\* The session lifecycle update, the session lookup, the resume or the state
\* transition fails, or no worker run is bound.
RefuseAccepted(i) ==
  /\ pc[i] = "accepted"
  /\ Move(i, "refused")
  /\ UNCHANGED <<vars, gw, spare, target, wake, peeked, workers, history>>

ResumeSession(i, r) ==
  /\ pc[i] = "accepted" /\ bound[SessionOf[i]] = NoRun
  /\ r \in Runs \ used
  /\ bound' = [bound EXCEPT ![SessionOf[i]] = r]
  /\ used' = used \cup {r}
  /\ UNCHANGED <<vars, gw, spare, handler, ended, work, dones, seen, retry, history>>

\* finishRuntimeWithoutDispatch with the run the handler holds.
FinishUnsent(i, r) ==
  \/ FinishRuntime(i, r, "failed")
  \/ ~Takes(i, r, "failed") /\ UNCHANGED vars

\* Defect: the run is only noted in memory.
MarkInMemory(i) ==
  /\ pc[i] = "accepted" /\ bound[SessionOf[i]] # NoRun
  /\ Move(i, "marked")
  /\ UNCHANGED <<vars, gw, spare, target, wake, peeked, workers, history>>

\* MarkRunning, then beginWorkerRunTurn, which waits until the events of the
\* preceding turn that were admitted have been handled.  A record that is no
\* longer pending is finished under the run it was accepted or claimed with.
MarkDelivery(i) ==
  LET r == bound[SessionOf[i]]
  IN /\ pc[i] = "accepted" /\ r # NoRun
     /\ \/ /\ MarkRunning(gw, i, r)
           /\ Move(i, "marked") /\ Note(i, i, r)
        \/ /\ rows[i].rt # "pending"
           /\ FinishUnsent(i, target[i].run)
           /\ Move(i, "refused") /\ UNCHANGED target
     /\ UNCHANGED <<gw, spare, wake, peeked, workers, history>>

\* The turn is not admitted, or its deadline cannot be armed or stored.
RefuseTurn(i) ==
  /\ pc[i] = "marked"
  /\ FinishUnsent(i, target[i].run)
  /\ Move(i, "refused")
  /\ UNCHANGED <<gw, spare, target, wake, peeked, workers, history>>

\* The worker takes the input; the call may still fail or time out.
Dispatch(i, outcome) ==
  LET r == bound[SessionOf[i]]
  IN /\ pc[i] = "marked" /\ r # NoRun /\ rows[i].run = r
     /\ seen[r] = NoInput
     /\ SendTo(r, i)
     /\ ended' = ended \ {r}
     /\ Move(i, outcome)
     /\ UNCHANGED <<vars, gw, spare, target, wake, peeked, bound, used, dones, seen, retry, served>>

\* The Skill is refused before dispatch, the worker is gone, or it rejects the
\* input or never answers.
NotTaken(i, p) ==
  /\ pc[i] = "marked"
  /\ Move(i, p)
  /\ UNCHANGED <<vars, gw, spare, target, wake, peeked, workers, history>>

\* finishInputExecution; when the row no longer takes the outcome the call
\* reports an error and nothing is written.
FinishInputExecution(i) ==
  LET st == IF pc[i] = "refused" THEN "failed" ELSE pc[i]
  IN /\ pc[i] \in {"refused", "delivered", "failed", "unknown"}
     /\ Move(i, "idle")
     /\ \/ SetDelivery(gw, i, st)
        \/ (rows[i].status # "accepted" \/ rows[i].owner # gw) /\ UNCHANGED vars
     /\ UNCHANGED <<gw, spare, target, wake, peeked, workers, history>>

-----------------------------------------------------------------------------
(* The worker and its forwarder. *)

WorkerDone(r, ok) ==
  /\ work[r] # <<>>
  /\ work' = [work EXCEPT ![r] = Tail(@)]
  /\ dones' = [dones EXCEPT ![r] = Append(@, [input |-> Head(work[r]), ok |-> ok])]
  /\ served' = IF ok THEN served \cup {Head(work[r])} ELSE served
  /\ UNCHANGED <<vars, gw, spare, handler, bound, used, ended, seen, retry, given>>

\* finishRuntimeOnDone, first half: which record is open.  A Done is dropped
\* when nothing is open, or when an Error of the same turn has claimed the
\* terminal before it, as any Error does without the retry controller.
ReadOpen(s, r) ==
  /\ dones[r] # <<>> /\ seen[r] = NoInput
  /\ SessionOf[Head(dones[r]).input] = s
  /\ \/ /\ OpenBySession(s) = {} \/ ~AutoRetry
        /\ dones' = [dones EXCEPT ![r] = Tail(@)]
        /\ ended' = ended \cup {r}
        /\ UNCHANGED seen
     \/ /\ \E i \in OpenBySession(s) :
             seen' = [seen EXCEPT ![r] = [input |-> i, status |-> rows[i].status]]
        /\ UNCHANGED <<dones, ended>>
  /\ UNCHANGED <<vars, gw, spare, handler, bound, used, work, retry, history>>

\* finishRuntimeOnDone, second half: the outcome goes to that record if it
\* names this run, the queue is woken, and a delivery that was read as failed
\* is converged to unknown.  A failed turn may be retried: the runtime is
\* finished all the same.
FinishDone(s, r) ==
  LET i == seen[r].input
      done == Head(dones[r])
      st == IF done.ok THEN "completed" ELSE "failed"
      after == Finished(rows[i], st)
  IN /\ seen[r] # NoInput /\ SessionOf[i] = s
     /\ seen' = [seen EXCEPT ![r] = NoInput]
     /\ dones' = [dones EXCEPT ![r] = Tail(@)]
     /\ IF Takes(i, r, st)
        THEN /\ rows' = [rows EXCEPT ![i] =
                   IF done.ok /\ seen[r].status = "failed" /\ after.status = "failed"
                   THEN [after EXCEPT !.status = "unknown"] ELSE after]
             /\ wake' = wake \cup {s}
        ELSE UNCHANGED <<rows, wake>>
     /\ \/ /\ AutoRetry /\ ~done.ok /\ bound[s] = r /\ given[done.input] < MaxGiven
           /\ retry' = [retry EXCEPT ![s] = done.input]
           /\ UNCHANGED ended
        \/ ended' = ended \cup {r} /\ UNCHANGED retry
     /\ UNCHANGED <<queue, nextSeq, budget, open, now, gw, spare, pc, target, peeked,
                    bound, used, work, history>>

\* autoRetry after its backoff: outside the gate and without the ledger.  The
\* text is RetryInput, a prompt to go on; what the worker does again is the
\* input's turn, so it counts as the same input.
RetryFires(s) ==
  LET r == bound[s]
  IN /\ retry[s] # NoInput /\ r # NoRun
     /\ SendTo(r, retry[s])
     /\ CancelRetry(s)
     /\ UNCHANGED <<vars, gw, spare, handler, bound, used, ended, dones, seen, served>>

\* The worker dies.  Nothing is written to the ledger.
WorkerCrash(s) ==
  LET r == bound[s]
  IN /\ r # NoRun
     /\ bound' = [bound EXCEPT ![s] = NoRun]
     /\ work' = [work EXCEPT ![r] = <<>>]
     /\ CancelRetry(s)
     /\ UNCHANGED <<vars, gw, spare, handler, used, ended, dones, seen, history>>

\* attemptResumeFallback: a fresh worker is given the lost input again.
CrashFallback(s, q) ==
  LET r == bound[s]
      lost == Head(work[r])
  IN /\ CrashReplay
     /\ r # NoRun /\ work[r] # <<>> /\ dones[r] = <<>> /\ q \in Runs \ used
     /\ given[lost] < MaxGiven
     /\ bound' = [bound EXCEPT ![s] = q]
     /\ used' = used \cup {q}
     /\ work' = [work EXCEPT ![r] = <<>>, ![q] = <<lost>>]
     /\ given' = [given EXCEPT ![lost] = @ + 1]
     /\ CancelRetry(s)
     /\ UNCHANGED <<vars, gw, spare, handler, ended, dones, seen, served>>

\* The turn deadline passes: the worker is terminated, what it sent is
\* ignored, and a failed Done is put in its place.
TurnTimeout(s) ==
  LET r == bound[s]
      held == [n \in DOMAIN dones[r] |-> dones[r][n].input] \o work[r]
  IN /\ r # NoRun /\ held # <<>> /\ seen[r] = NoInput
     /\ bound' = [bound EXCEPT ![s] = NoRun]
     /\ work' = [work EXCEPT ![r] = <<>>]
     /\ dones' = [dones EXCEPT ![r] = <<[input |-> Head(held), ok |-> FALSE]>>]
     /\ CancelRetry(s)
     /\ UNCHANGED <<vars, gw, spare, handler, used, ended, seen, history>>

\* The stop command: the run is disposed with everything it sent, then
\* finishRuntimeOnStop fails the open record if it names the run.
Stop(s) ==
  LET r == bound[s]
  IN /\ GateFree(s) /\ r # NoRun /\ r \notin ended /\ seen[r] = NoInput
     /\ \E i \in Inputs : SessionOf[i] = s /\ rows[i].rt # "none"
     /\ bound' = [bound EXCEPT ![s] = NoRun]
     /\ work' = [work EXCEPT ![r] = <<>>]
     /\ dones' = [dones EXCEPT ![r] = <<>>]
     /\ CancelRetry(s)
     /\ \/ \E i \in OpenBySession(s) : FinishRuntime(i, r, "failed")
        \/ /\ \A i \in OpenBySession(s) : rows[i].run # r
           /\ UNCHANGED vars
     /\ UNCHANGED <<gw, spare, handler, used, ended, seen, history>>

-----------------------------------------------------------------------------
(* The gateway process and the background jobs. *)

\* Everything in memory is lost and the workers, its children, are gone.  A
\* restart takes longer than the millisecond that created_at resolves.
Restarted(g) ==
  /\ g \in spare
  /\ \A i \in Inputs : rows[i].rt # "none" => rows[i].created < now
  /\ gw' = g /\ spare' = spare \ {g}
  /\ pc' = [i \in Inputs |-> "idle"]
  /\ target' = [i \in Inputs |-> [row |-> NoInput, run |-> NoRun]]
  /\ wake' = {} /\ peeked' = [s \in Sessions |-> NoInput]
  /\ bound' = [s \in Sessions |-> NoRun]
  /\ ended' = {}
  /\ work' = [r \in Runs |-> <<>>] /\ dones' = [r \in Runs |-> <<>>]
  /\ seen' = [r \in Runs |-> NoInput]
  /\ retry' = [s \in Sessions |-> NoInput]
  /\ UNCHANGED <<used, history>>

GatewayCrash(g) == Restarted(g) /\ UNCHANGED vars

\* A graceful shutdown fences what the process still owns.
GatewayShutdown(g) ==
  /\ TerminateOwnerLeases(gw) \/ (OwnedActive(gw) = {} /\ UNCHANGED vars)
  /\ Restarted(g)

Background ==
  /\ \/ RenewLeases(gw, {})
     \/ RecoverExpiredLeases
     \/ ExpireQueued(gw)
     \/ \E i \in Inputs : CancelQueued(i)
     \/ \E s \in Sessions : ClearQueue(s)
     \/ Operator /\ \E i \in Inputs : ResolveFence(i, 1) \/ AbandonFence(i, 1)
     \/ Tick
  /\ UNCHANGED <<gw, spare, handler, workers, history>>

-----------------------------------------------------------------------------
DInit ==
  /\ Init
  /\ gw \in Gateways /\ spare = Gateways \ {gw}
  /\ pc = [i \in Inputs |-> "idle"]
  /\ target = [i \in Inputs |-> [row |-> NoInput, run |-> NoRun]]
  /\ wake = {} /\ peeked = [s \in Sessions |-> NoInput]
  /\ bound = [s \in Sessions |-> NoRun] /\ used = {} /\ ended = {}
  /\ work = [r \in Runs |-> <<>>] /\ dones = [r \in Runs |-> <<>>]
  /\ seen = [r \in Runs |-> NoInput]
  /\ retry = [s \in Sessions |-> NoInput]
  /\ given = [i \in Inputs |-> 0] /\ served = {}

DNext ==
  \/ \E i \in Inputs :
       \/ Deliver(i) \/ DeliverBusy(i) \/ ClearFence(i) \/ RetryAccept(i)
       \/ EnqueueBusyInput(i) \/ SupplementNotDurable(i)
       \/ SettleUndispatchable(i) \/ DeliverClaimed(i) \/ RefuseAccepted(i)
       \/ MarkDelivery(i) \/ RefuseTurn(i) \/ FinishInputExecution(i)
       \/ \E p \in {"delivered", "failed", "unknown"} : Dispatch(i, p)
       \/ \E p \in {"refused", "failed", "unknown"} : NotTaken(i, p)
       \/ \E r \in Runs : ResumeSession(i, r)
       \/ \E f \in Inputs : FreshStartFails(i, f) \/ \E r \in Runs : DeliverFenced(i, f, r)
  \/ \E s \in Sessions :
       \/ PeekQueue(s) \/ ClaimHead(s) \/ RetryFires(s)
       \/ WorkerCrash(s) \/ TurnTimeout(s) \/ Stop(s)
       \/ \E r \in Runs : ReadOpen(s, r) \/ FinishDone(s, r) \/ CrashFallback(s, r)
  \/ \E r \in Runs, ok \in BOOLEAN : WorkerDone(r, ok)
  \/ \E g \in Gateways : GatewayCrash(g) \/ GatewayShutdown(g)
  \/ Background

DSpec == DInit /\ [][DNext]_all
-----------------------------------------------------------------------------
(* Properties. *)

\* Every variable of the gateway has its type, and the ledger's do.
DTypeOK ==
  /\ TypeOK
  /\ gw \in Gateways /\ spare \subseteq Gateways
  /\ pc \in [Inputs -> Position]
  /\ target \in [Inputs -> [row: Inputs \cup {NoInput}, run: Runs \cup {NoRun}]]
  /\ wake \subseteq Sessions /\ peeked \in [Sessions -> Inputs \cup {NoInput}]
  /\ bound \in [Sessions -> Runs \cup {NoRun}]
  /\ used \subseteq Runs /\ ended \subseteq Runs
  /\ work \in [Runs -> Seq(Inputs)]
  /\ dones \in [Runs -> Seq([input: Inputs, ok: BOOLEAN])]
  /\ seen \in [Runs -> [input: Inputs, status: Delivery] \cup {NoInput}]
  /\ retry \in [Sessions -> Inputs \cup {NoInput}]
  /\ given \in [Inputs -> 0..MaxGiven] /\ served \subseteq Inputs

\* An input is with a worker only after the ledger has recorded the run that
\* carries it, so that a crash at any moment leaves a row that recovery can
\* fence; an input cancelled, cleared or expired in the queue never runs.
WriteAhead ==
  \A i \in Inputs : given[i] > 0 =>
    /\ rows[i].run # NoRun
    /\ rows[i].rt \notin {"none", "queued", "pending"}

\* The delivery path sends an input to a worker at most once: no client retry,
\* queue promotion, fence recovery or gateway restart sends it a second time.
PrimaryDispatchOnce ==
  [][\A i \in Inputs : pc[i] = "marked" /\ given'[i] # given[i] => given[i] = 0]_all

\* The single active slot really serialises a session's turns: at most one
\* worker run holds an input, and it holds one.  Lease expiry, a fenced
\* session's fresh worker, a stop and a restart all pass the slot on only when
\* the old worker can no longer be working.
OneTurnAtATime ==
  \A s \in Sessions :
    LET held == {at \in Runs \X (1..Cardinality(Inputs)) :
                   at[2] <= Len(work[at[1]]) /\ SessionOf[work[at[1]][at[2]]] = s}
    IN Cardinality(held) <= 1

\* A record is completed only by its own worker's success: no late, stale or
\* misattributed Done completes the record of another input that is pending,
\* running or fenced (finishRuntimeOnDone).  The exception is a record whose
\* fence was cleared by a fresh start and which names the fresh run since.
TruthfulCompletion ==
  [][\A i \in Inputs :
       rows[i].rt # "completed" /\ rows'[i].rt = "completed" =>
         \/ i \in served
         \/ rows[i].rt = "unknown" /\ rows[i].fence = "none"]_all

\* The worker of a running record is detached, and nothing it was given or has
\* reported is left.
Deserted(i) ==
  LET r == rows[i].run
  IN /\ rows[i].rt = "running" /\ r \in Runs /\ pc[i] = "idle"
     /\ bound[SessionOf[i]] # r
     /\ work[r] = <<>> /\ dones[r] = <<>> /\ seen[r] = NoInput

\* Nobody invents an outcome for a turn whose worker died with it: no later run,
\* fallback, stop, stale forwarder or delivery of the session settles it.  It
\* keeps the slot until lease recovery or a shutdown fences it as unknown.
DesertedTurnIsFenced ==
  [][\A i \in Inputs : Deserted(i) =>
       rows'[i].rt = "running" \/ (rows'[i].rt = "unknown" /\ rows'[i].fence # "none")]_all

\* finishRuntimeOnDone: "A stale forwarder must never finish the newest open
\* execution".  A forwarder of the current run does finish a stale one: a record
\* that was fenced, released by a fresh start and left unknown names the fresh
\* run, and is the newest open record while an older input, promoted from the
\* queue, runs there.
OnlyOwnDoneCompletes ==
  \A i \in Inputs : rows[i].rt = "completed" => i \in served

\* bridge_forward.go, before an auto-retry: the runtime finish "belongs to the
\* attempt that finally terminates", so that the execution is not "terminal
\* while the retry is still running".
RetryKeepsExecutionOpen ==
  \A s \in Sessions : retry[s] # NoInput =>
    rows[retry[s]].rt \notin {"completed", "failed"}

\* The design's table of Worker.Input results: a refused input ends with
\* delivery failed and runtime failed, once its handler has returned.
RefusalClosesRuntime ==
  \A i \in Inputs :
    rows[i].status = "failed" /\ given[i] = 0 /\ pc[i] = "idle" =>
      rows[i].rt \notin {"pending", "running"}

\* The design's bridge terminals: after a worker crash the runtime is failed or
\* unknown.  Here: once the crashed run's stream is drained and no delivery is
\* under way, no record is left running on it.
CrashClosesRuntime ==
  \A i \in Inputs :
    rows[i].rt = "running" /\ rows[i].owner = gw /\ pc[i] = "idle" =>
      \/ bound[SessionOf[i]] = rows[i].run
      \/ dones[rows[i].run] # <<>>

\* The design's goal: an input a worker may have taken is never replayed
\* automatically.
NeverReplayed == \A i \in Inputs : given[i] <= 1
=============================================================================
