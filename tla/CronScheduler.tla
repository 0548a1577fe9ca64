--------------------------- MODULE CronScheduler ---------------------------
(***************************************************************************)
(* The cron scheduler (internal/cron): the in-memory index and the stored  *)
(* rows of jobs, the timer loop, the goroutines that run jobs, and the     *)
(* ledger of occurrences that makes a firing happen once.                  *)
(*                                                                         *)
(* The timer goroutine and the run goroutines work on clones of a job and  *)
(* merge their clone's state back; the administration API, the command     *)
(* line (which writes rows and then signals a reload) and the YAML loader  *)
(* change jobs meanwhile.  Time is a small clock; an instant of 0 stands   *)
(* for the zero or negative next_run_at_ms of a job with nothing to come.  *)
(* The counters of errors, retries and runs are left out: where the code   *)
(* compares one with its limit, the model takes either branch.             *)
(***************************************************************************)
EXTENDS Naturals, FiniteSets

CONSTANTS
    Jobs,
    Schedules,      \* records [kind : {"every", "at", "bad"}, n : Nat]
    FirstSchedules, \* the schedules jobs are stored with at first
    Attached,       \* jobs whose payload goes into an existing session
    DeleteAfterRun, \* one-shot jobs that are deleted once run
    Threads,        \* goroutines that can run at once
    Ticks,          \* timer callbacks that can overlap
    Caps,           \* values of max_concurrent_runs the gateway may be started with
    MaxTime,        \* bound on the clock
    MaxEvents       \* for each cap, a bound on triggers, edits, reloads, foreign
                    \* writes, failing writes and crashes together

ASSUME CronAssumption ==
    /\ Caps \subseteq Nat /\ MaxTime \in Nat
    /\ MaxEvents \in [Caps -> Nat]
    /\ FirstSchedules \subseteq Schedules
    /\ Schedules \subseteq [kind : {"every", "at", "bad"}, n : Nat]
    /\ IsFiniteSet(Threads)

VARIABLES
    now,
    up,        \* the gateway process runs
    jobs,      \* Scheduler.jobs, the in-memory index
    rows,      \* the cron_jobs table
    armed,     \* a timer is set
    tick,      \* clones each running timer callback still has to handle
    thread,    \* the run goroutines
    cap,       \* Scheduler.maxConcurrent
    slots,     \* timerLoop.running
    occurred,  \* trigger keys of the cron_occurrences table
    ran,       \* keys for which an agent run was dispatched
    again,     \* keys dispatched or delivered more than once
    delivered, \* keys whose result was handed to a delivery owner
    edit,      \* a job an administrator has read and will write back
    reload,    \* rows a reload has read and will install
    events     \* triggers, edits, reloads, foreign or failing writes, crashes so far

memory == <<jobs, armed, tick, thread, slots, edit, reload>>
ledger == <<occurred, ran, again, delivered>>
vars == <<now, up, cap, memory, rows, ledger, events>>

NoJob == [on |-> FALSE]

\* A job's definition and CronJobState, as far as control depends on them.
Fresh(s, next) ==
    [on |-> TRUE, enabled |-> TRUE, sched |-> s, next |-> next, running |-> FALSE]

\* NextRun: an interval from now, the instant itself while it is to come and
\* nothing after it; a schedule that cannot be computed gives an error.
Computable(s) == s.kind # "bad"
NextRun(s, t) == IF s.kind = "every" THEN t + s.n
                 ELSE IF s.n > t THEN s.n ELSE 0

Free == [pc |-> "idle"]
NoEdit == [on |-> FALSE]
NoReload == [on |-> FALSE]

Init ==
    /\ now = 1
    /\ up = FALSE
    /\ jobs = [j \in Jobs |-> NoJob]
    /\ \E s \in [Jobs -> FirstSchedules] :
         rows = [j \in Jobs |-> Fresh(s[j], s[j].n)]
    /\ armed = FALSE
    /\ tick = [t \in Ticks |-> {}]
    /\ thread = [r \in Threads |-> Free]
    /\ cap \in Caps /\ slots = 0
    /\ occurred = {} /\ ran = {} /\ again = {} /\ delivered = {}
    /\ edit = NoEdit /\ reload = NoReload
    /\ events = 0

-----------------------------------------------------------------------------
(* State writes *)

\* An action of the environment, of which there are few.
Event == events < MaxEvents[cap] /\ events' = events + 1

\* The mutable part of a clone, CronJobState, put onto another copy.
WithState(job, c) == [job EXCEPT !.next = c.next, !.running = c.running]

\* A copy after the state of a clone was saved on it, and nothing for a job
\* that is gone.
Saved(job, c, disable) ==
    IF ~job.on THEN job
    ELSE [WithState(job, c) EXCEPT !.enabled = IF disable THEN FALSE ELSE @]

\* Defect: the whole clone replaces the entry.
MergeReplacing(id, c, disable) ==
    [jobs EXCEPT ![id] = IF disable THEN [c EXCEPT !.enabled = FALSE] ELSE c]

\* mergeJobState: state only, and nothing for a job no longer indexed.
Merge(id, c, disable) == [jobs EXCEPT ![id] = Saved(@, c, disable)]

\* UpdateState and SetEnabled(false): no row, no write.
Persist(id, c, disable) == [rows EXCEPT ![id] = Saved(@, c, disable)]

\* A write of a run or of the timer: it may fail, and only the log learns of it.
Store(table) ==
    \/ rows' = table /\ UNCHANGED events
    \/ Event /\ UNCHANGED rows

\* The row and the index, one after the other in the code: readers of either
\* see an old one in between, as they do when they come earlier.
SaveBoth(id, c, disable) ==
    /\ jobs' = Merge(id, c, disable)
    /\ Store(Persist(id, c, disable))

-----------------------------------------------------------------------------
(* Start: loadFromDB and catch-up *)

\* withinGracePeriod: half the interval between runs.
WithinGrace(job) ==
    LET interval == IF job.sched.kind = "bad" THEN 2 ELSE job.sched.n
    IN  2 * (now - job.next) <= interval

PastDue(job) == job.on /\ job.enabled /\ job.next > 0 /\ job.next <= now

\* What the index holds for a row: stale running cleared, a past-due job
\* outside its grace period moved to its next instant or disabled.
LoadedRow(job) ==
    LET c == IF job.on THEN [job EXCEPT !.running = FALSE] ELSE job IN
    IF ~PastDue(c) \/ WithinGrace(c) \/ ~Computable(c.sched) THEN c
    ELSE IF NextRun(c.sched, now) = 0 THEN [c EXCEPT !.enabled = FALSE]
    ELSE [c EXCEPT !.next = NextRun(c.sched, now)]

\* ScheduledTriggerFor: keyed by the instant the clone carries.
ScheduledKey(id, job) == [kind |-> "sched", job |-> id, rev |-> job.sched, at |-> job.next]

\* A goroutine with its clone.
Spawned(id, job, key, by) ==
    [pc |-> "begin", id |-> id, job |-> job, key |-> key, by |-> by, result |-> "none"]

\* Start: every missed job within its grace period gets a goroutine while
\* there are slots; its clone still carries the missed instant.
Start ==
    LET loaded == [j \in Jobs |-> LoadedRow(rows[j])]
        missed == {j \in Jobs : PastDue(loaded[j])} IN
    /\ ~up
    /\ up' = TRUE
    /\ jobs' = loaded /\ rows' = loaded
    /\ armed' = TRUE
    /\ \E f \in [missed -> Threads \cup {Free}] :
         LET run == {j \in missed : f[j] # Free} IN
         /\ Cardinality(run) = IF Cardinality(missed) < cap
                               THEN Cardinality(missed) ELSE cap
         /\ \A i, j \in run : f[i] = f[j] => i = j
         /\ thread' = [r \in Threads |->
              IF \E j \in run : f[j] = r
              THEN LET j == CHOOSE i \in run : f[i] = r IN
                   Spawned(j, loaded[j], ScheduledKey(j, loaded[j]), "catchup")
              ELSE Free]
         /\ slots' = Cardinality(run)
    /\ UNCHANGED <<now, cap, tick, edit, reload, ledger, events>>

-----------------------------------------------------------------------------
(* The timer *)

\* collectDue: enabled, not running, and due.
Due == {j \in Jobs : PastDue(jobs[j]) /\ ~jobs[j].running}

\* The timer fires; a callback that is still busy does not stop it.
TickCollect(t) ==
    /\ up /\ armed /\ tick[t] = {}
    /\ Due # {}
    /\ armed' = FALSE
    /\ tick' = [tick EXCEPT ![t] =
                  {[id |-> j, job |-> jobs[j], at |-> now, pc |-> "advance"] : j \in Due}]
    /\ UNCHANGED <<now, up, cap, jobs, rows, thread, slots, edit, reload, ledger, events>>

\* The clone after its next instant was computed, or failed to be.
Advanced(job, t) ==
    IF Computable(job.sched) THEN [job EXCEPT !.next = NextRun(job.sched, t)] ELSE job

Rest(t, d) == tick[t] \ {d}

\* Advance the instant, store it and merge it, before anything is executed;
\* after too many schedule errors the job is disabled instead.
TickAdvance(t, d, tooMany) ==
    LET c == Advanced(d.job, d.at) IN
    /\ up /\ d \in tick[t] /\ d.pc = "advance"
    /\ tooMany => ~Computable(d.job.sched)
    /\ SaveBoth(d.id, c, tooMany)
    /\ tick' = [tick EXCEPT ![t] = Rest(t, d) \cup
                  (IF tooMany THEN {} ELSE {[d EXCEPT !.job = c, !.pc = "spawn"]})]
    /\ armed' = (armed \/ tick'[t] = {})
    /\ UNCHANGED <<now, up, cap, thread, slots, edit, reload, ledger>>

\* Defect: the slot of a job deleted meanwhile is not given back.
SlotsAfterOrphan(spawn) == slots + 1

\* Slots once the re-check of the index has passed or given the slot back.
SlotsAfter(spawn) == IF spawn THEN slots + 1 ELSE slots

\* Take a slot or skip, re-check the index, and start the goroutine on a
\* clone that carries the advanced instant.
TickSpawn(t, d) ==
    /\ up /\ d \in tick[t] /\ d.pc = "spawn"
    /\ \/ /\ slots >= cap
          /\ UNCHANGED <<slots, thread>>
       \/ /\ slots < cap
          /\ slots' = SlotsAfter(jobs[d.id].on)
          /\ IF ~jobs[d.id].on THEN UNCHANGED thread
             ELSE \E r \in Threads :
                    /\ thread[r] = Free
                    /\ thread' = [thread EXCEPT ![r] =
                         Spawned(d.id, d.job, ScheduledKey(d.id, d.job), "timer")]
    /\ tick' = [tick EXCEPT ![t] = Rest(t, d)]
    /\ armed' = (armed \/ tick'[t] = {})
    /\ UNCHANGED <<now, up, cap, jobs, rows, edit, reload, ledger, events>>

-----------------------------------------------------------------------------
(* Triggered runs *)

\* TriggerJob and TriggerByName: a nonce of its own, or the verified event
\* of a webhook, which is the same at every redelivery.
Trigger(j, key) ==
    /\ up /\ jobs[j].on /\ slots < cap
    /\ slots' = slots + 1
    /\ \E r \in Threads :
         /\ thread[r] = Free
         /\ thread' = [thread EXCEPT ![r] = Spawned(j, jobs[j], key, "trigger")]
    /\ UNCHANGED <<now, up, cap, jobs, rows, armed, tick, edit, reload, ledger>>

TriggerJob(j) ==
    /\ Event
    /\ Trigger(j, [kind |-> "manual", job |-> j, rev |-> events, at |-> 0])

TriggerByName(j) ==
    /\ jobs[j].on /\ jobs[j].enabled
    /\ Event
    /\ Trigger(j, [kind |-> "webhook", job |-> j, rev |-> 0, at |-> 0])

-----------------------------------------------------------------------------
(* A run *)

Goes(r, pc) == thread' = [thread EXCEPT ![r].pc = pc]

\* beginExecution.
Begin(r) ==
    LET s == thread[r]
        c == [s.job EXCEPT !.running = TRUE] IN
    /\ s.pc = "begin"
    /\ SaveBoth(s.id, c, FALSE)
    /\ thread' = [thread EXCEPT ![r].job = c,
                    ![r].pc = IF s.id \in Attached THEN "run" ELSE "claim"]
    /\ UNCHANGED <<now, up, cap, armed, tick, slots, edit, reload, ledger>>

\* TriggerIdentity.Key: a scheduled firing needs an instant.
ValidKey(key) == key.kind = "sched" => key.at > 0

\* Defect: a key that is already recorded is claimed again.
ClaimableAlways(key) == TRUE

\* Claim: INSERT ... ON CONFLICT DO NOTHING.
Claimable(key) == key \notin occurred

\* NewOccurrence and Claim, before any worker starts.
Claim(r) ==
    LET s == thread[r] IN
    /\ s.pc = "claim"
    /\ IF ValidKey(s.key) /\ Claimable(s.key)
       THEN /\ occurred' = occurred \cup {s.key}
            /\ Goes(r, "run")
       ELSE /\ thread' = [thread EXCEPT ![r].pc = "post",
                ![r].result = IF ValidKey(s.key) THEN "duplicate" ELSE "refused"]
            /\ UNCHANGED occurred
    /\ UNCHANGED <<now, up, cap, jobs, rows, armed, tick, slots, edit, reload,
                   ran, again, delivered, events>>

\* StartSession, DispatchSystemInput and WaitForExecution, or the injection
\* into an attached session.  The gateway always gives the scheduler a router
\* for those, so that the branch without one does not arise.
Execute(r, result) ==
    LET s == thread[r] IN
    /\ s.pc = "run"
    /\ result \in {"completed", "timeout", "rejected", "panic"}
    /\ result = "panic" => s.by = "timer"
    /\ thread' = [thread EXCEPT ![r].pc = "post", ![r].result = result]
    /\ IF result # "rejected" /\ s.id \notin Attached
       THEN /\ ran' = ran \cup {s.key}
            /\ again' = again \cup (ran \cap {s.key})
       ELSE UNCHANGED <<ran, again>>
    /\ UNCHANGED <<now, up, cap, jobs, rows, armed, tick, slots, edit, reload,
                   occurred, delivered, events>>

\* finishExecution.
Finished(s) == [s.job EXCEPT !.running = FALSE]

Failed(s) == s.result \notin {"completed", "duplicate"}

\* scheduleRetry: only a one-shot job whose run failed for a passing reason.
CanRetry(s) == s.job.sched.kind = "at" /\ s.result = "timeout"

\* The goroutine ends and gives its slot back.
End(r) ==
    /\ thread' = [thread EXCEPT ![r] = Free]
    /\ slots' = slots - 1

\* handlePostExecution, and the recovery of a panic: record the outcome,
\* disable after too many failures, or schedule a one-shot job's retry.  A
\* success is only stored by the step that follows.
Post(r, disable, retry) ==
    LET s == thread[r]
        c == IF retry THEN [Finished(s) EXCEPT !.next = now + 1] ELSE Finished(s) IN
    /\ s.pc = "post"
    /\ disable => Failed(s) /\ s.result # "panic"
    /\ retry => CanRetry(s) /\ ~disable
    /\ jobs' = Merge(s.id, c, disable)
    /\ IF Failed(s)
       THEN /\ Store(Persist(s.id, c, disable))
            /\ End(r)
       ELSE /\ thread' = [thread EXCEPT ![r].job = c, ![r].pc = "wrap"]
            /\ UNCHANGED <<rows, slots, events>>
    /\ UNCHANGED <<now, up, cap, armed, tick, edit, reload, ledger>>

\* routeDelivery for a new run, then applyLifecycle: a one-shot job is done,
\* a recurring one when its runs are used up or it has expired.
Wrap(r, spent) ==
    LET s == thread[r]
        once == s.job.sched.kind = "at" IN
    /\ s.pc = "wrap"
    /\ IF s.result = "completed" /\ s.id \notin Attached
       THEN /\ delivered' = delivered \cup {s.key}
            /\ again' = again \cup (delivered \cap {s.key})
       ELSE UNCHANGED <<delivered, again>>
    /\ IF once /\ s.id \in DeleteAfterRun
       THEN /\ jobs' = [jobs EXCEPT ![s.id] = NoJob]
            /\ Store([rows EXCEPT ![s.id] = NoJob])
       ELSE SaveBoth(s.id, s.job, once \/ spent)
    /\ End(r)
    /\ UNCHANGED <<now, up, cap, armed, tick, edit, reload, occurred, ran>>

-----------------------------------------------------------------------------
(* Administration, command line, reload, faults *)

\* The API reads a clone, overlays the request and writes the whole job.
ReadForUpdate(j) ==
    /\ up /\ ~edit.on /\ jobs[j].on /\ events < MaxEvents[cap]
    /\ edit' = [on |-> TRUE, id |-> j, job |-> jobs[j]]
    /\ UNCHANGED <<now, up, cap, jobs, rows, armed, tick, thread, slots, reload, ledger, events>>

UpdateJob(s, enabled) ==
    LET j == edit.id
        job == [edit.job EXCEPT !.sched = s, !.enabled = enabled, !.next = NextRun(s, now)] IN
    /\ up /\ edit.on /\ Event
    /\ Computable(s)
    /\ IF rows[j].on
       THEN /\ rows' = [rows EXCEPT ![j] = job]
            /\ jobs' = [jobs EXCEPT ![j] = job]
            /\ armed' = TRUE
       ELSE UNCHANGED <<rows, jobs, armed>>
    /\ edit' = NoEdit
    /\ UNCHANGED <<now, up, cap, tick, thread, slots, reload, ledger>>

DeleteJob(j) ==
    /\ up /\ rows[j].on /\ Event
    /\ rows' = [rows EXCEPT ![j] = NoJob]
    /\ jobs' = [jobs EXCEPT ![j] = NoJob]
    /\ UNCHANGED <<now, up, cap, armed, tick, thread, slots, edit, reload, ledger>>

\* Another process, or the YAML loader, writes the definition in the table.
WriteRow(j, s, enabled) ==
    /\ rows[j].on /\ Computable(s) /\ Event
    /\ rows' = [rows EXCEPT ![j].sched = s, ![j].enabled = enabled,
                            ![j].next = NextRun(s, now)]
    /\ UNCHANGED <<now, up, cap, memory, ledger>>

\* rebuildIndex: the rows are listed first and installed later, under the
\* lock; an enabled job with no instant gets one.
ReloadRead ==
    /\ up /\ ~reload.on /\ Event
    /\ reload' = [on |-> TRUE, rows |-> rows]
    /\ UNCHANGED <<now, up, cap, jobs, rows, armed, tick, thread, slots, edit, ledger>>

Patched(job) ==
    /\ job.on /\ job.enabled /\ job.next = 0
    /\ Computable(job.sched) /\ NextRun(job.sched, now) > 0

ReloadInstall ==
    LET index == [j \in Jobs |-> IF Patched(reload.rows[j])
                    THEN [reload.rows[j] EXCEPT !.next = NextRun(reload.rows[j].sched, now)]
                    ELSE reload.rows[j]] IN
    /\ up /\ reload.on
    /\ jobs' = index
    /\ rows' = [j \in Jobs |-> IF Patched(reload.rows[j]) /\ rows[j].on
                               THEN WithState(rows[j], index[j]) ELSE rows[j]]
    /\ armed' = TRUE
    /\ reload' = NoReload
    /\ UNCHANGED <<now, up, cap, tick, thread, slots, edit, ledger, events>>

\* The process stops, in the middle of anything.
Crash ==
    /\ up /\ Event
    /\ up' = FALSE
    /\ jobs' = [j \in Jobs |-> NoJob]
    /\ armed' = FALSE
    /\ tick' = [t \in Ticks |-> {}]
    /\ thread' = [r \in Threads |-> Free]
    /\ slots' = 0
    /\ edit' = NoEdit /\ reload' = NoReload
    /\ UNCHANGED <<now, cap, rows, ledger>>

TimePasses ==
    /\ now < MaxTime
    /\ now' = now + 1
    /\ UNCHANGED <<up, cap, memory, rows, ledger, events>>

TickStep(t) ==
    \/ TickCollect(t)
    \/ \E d \in tick[t], tooMany \in BOOLEAN : TickAdvance(t, d, tooMany)
    \/ \E d \in tick[t] : TickSpawn(t, d)

RunStep(r) ==
    \/ Begin(r)
    \/ Claim(r)
    \/ \E result \in {"completed", "timeout", "rejected", "panic"} : Execute(r, result)
    \/ \E disable, retry \in BOOLEAN : Post(r, disable, retry)
    \/ \E spent \in BOOLEAN : Wrap(r, spent)

Administer ==
    \/ \E j \in Jobs : TriggerJob(j) \/ TriggerByName(j) \/ ReadForUpdate(j) \/ DeleteJob(j)
    \/ \E s \in Schedules, enabled \in BOOLEAN : UpdateJob(s, enabled)
    \/ \E j \in Jobs, s \in Schedules, enabled \in BOOLEAN : WriteRow(j, s, enabled)
    \/ ReloadRead
    \/ ReloadInstall

Next ==
    \/ Start
    \/ \E t \in Ticks : TickStep(t)
    \/ \E r \in Threads : RunStep(r)
    \/ Administer
    \/ Crash
    \/ TimePasses

Spec == Init /\ [][Next]_vars

-----------------------------------------------------------------------------
(* Properties *)

Instants == Nat

Job == [on : {TRUE}, enabled : BOOLEAN, sched : Schedules, next : Instants,
        running : BOOLEAN]

Key == [kind : {"sched"}, job : Jobs, rev : Schedules, at : Instants]
       \cup [kind : {"manual", "webhook"}, job : Jobs, rev : Nat, at : {0}]

Busy == [pc : {"begin", "claim", "run", "post", "wrap"}, id : Jobs, job : Job, key : Key,
         by : {"timer", "catchup", "trigger"},
         result : {"none", "completed", "timeout", "rejected", "panic",
                   "duplicate", "refused"}]

Clone == [id : Jobs, job : Job, at : Nat, pc : {"advance", "spawn"}]

\* Every table, copy and goroutine holds a value of its type.
KTypeOK ==
    /\ now \in Nat /\ up \in BOOLEAN /\ armed \in BOOLEAN
    /\ jobs \in [Jobs -> Job \cup {NoJob}]
    /\ rows \in [Jobs -> Job \cup {NoJob}]
    /\ tick \in [Ticks -> SUBSET Clone]
    /\ thread \in [Threads -> Busy \cup {Free}]
    /\ cap \in Caps /\ slots \in Nat
    /\ occurred \subseteq Key /\ ran \subseteq Key
    /\ again \subseteq Key /\ delivered \subseteq Key
    /\ edit \in {NoEdit} \cup [on : {TRUE}, id : Jobs, job : Job]
    /\ reload \in {NoReload} \cup [on : {TRUE}, rows : [Jobs -> Job \cup {NoJob}]]
    /\ events \in Nat

\* One trigger leads to at most one agent run and at most one delivery:
\* across overlapping timer callbacks, catch-up, redelivered webhooks and
\* crashes between the claim and the run (Executor.Execute, Claim).
AtMostOneRun == again = {}

\* The counter of slots is the number of live goroutines and never exceeds
\* the cap: each way out of a goroutine, and of the timer's re-check of a
\* deleted job, gives its slot back exactly once.
SlotsExact ==
    /\ slots = Cardinality({r \in Threads : thread[r] # Free})
    /\ slots <= cap

\* A goroutine's stale clone never brings back what was taken away while it
\* ran: in a step of the timer or of a run, also when its write fails, not of
\* an operator, a reload or a start, a deleted job stays deleted and a disabled
\* one stays disabled, in the index and in the table (mergeJobState, persistState).
RunNeverRevives ==
    [][UNCHANGED <<up, edit, reload>> /\ (UNCHANGED events \/ UNCHANGED rows) =>
        \A j \in Jobs :
          /\ ~jobs[j].on => ~jobs'[j].on
          /\ ~rows[j].on => ~rows'[j].on
          /\ jobs[j].on /\ jobs'[j].on /\ ~jobs[j].enabled => ~jobs'[j].enabled
          /\ rows[j].on /\ rows'[j].on /\ ~rows[j].enabled => ~rows'[j].enabled]_vars

\* Every firing the timer collects carries what its key needs: none is refused
\* for a missing instant (executeJob, ScheduledTriggerFor, Key).
OneShotRuns == \A r \in Threads : thread[r] # Free => thread[r].result # "refused"
=============================================================================
