--------------------------- MODULE SessionCleanup ---------------------------
(***************************************************************************)
(* What happens to a session after its deletion: the outbox of remote      *)
(* worker sessions to delete (session/cleanup_outbox.go) and the purge job *)
(* of a deletion with its items (session/purge_store.go), worked off under *)
(* leases by the runners of every gateway process that shares the database *)
(* (session/purge_runner.go).  A runner's result may arrive when its lease *)
(* has passed and another runner has the task.                             *)
(*                                                                         *)
(* The id of a remote worker session reaches the row some time after the   *)
(* worker has created it, written by goroutines of the bridge that only    *)
(* log a failure (gateway/bridge_worker.go, bridge_forward.go).            *)
(*                                                                         *)
(* A session id may be used again: each life of it creates remote sessions *)
(* of its own, but its conversation is stored under the id alone.  Every   *)
(* store operation is one transaction.                                     *)
(***************************************************************************)
EXTENDS Integers, FiniteSets

CONSTANTS
  Sessions,
  Gateways,     \* processes, each with one runner of either kind
  MaxLives,     \* bound: how often a session id is created
  MaxRemotes,   \* bound: remote worker sessions created for a session id
  MaxClaims,    \* bound: leases taken
  MaxFaults     \* bound: failed attempts and writes, lapsed leases, crashes

ASSUME CleanupAssumption ==
  /\ MaxLives \in Nat /\ MaxRemotes \in Nat
  /\ MaxClaims \in Nat /\ MaxFaults \in Nat

VARIABLES
  row,      \* the session's row, its life and the remote session it names
  content,  \* lives whose conversation is stored
  starting, \* remote sessions a worker is about to create
  made,     \* remote sessions that were created
  remote,   \* remote sessions that exist
  task,     \* the session's cleanup task and its lease
  worker,   \* purge item worker_session
  talk,     \* purge item conversation_content and its lease
  job,      \* status of the purge job
  owed,     \* the remote session the row named when the job was created
  hand,     \* tasks claimed by a cleanup runner
  purging,  \* items claimed by a purge runner
  tokens,   \* lease tokens given out
  faults

vars == <<row, content, starting, made, remote, task, worker, talk, job, owed, hand, purging,
          tokens, faults>>

Lives == 0..MaxLives
Remotes == 1..MaxRemotes
None == 0     \* an empty worker_session_id
Open == {"pending", "running", "retrying"}
Settled == {"complete", "unsupported"}
ItemStates == Open \cup Settled \cup {"none"}
Results == {"claimed", "ok", "failed", "unsupported"}

\* able: the worker type has a cleanup function.
NoRow == [state |-> "none", life |-> 0, able |-> FALSE, wsid |-> None]
NoTask == [on |-> FALSE, life |-> 0, able |-> FALSE, wsid |-> None, token |-> 0,
           leased |-> FALSE]
NoItem == [state |-> "none", token |-> 0, leased |-> FALSE]

Init ==
  /\ row = [s \in Sessions |-> NoRow]
  /\ content = [s \in Sessions |-> {}]
  /\ starting = [s \in Sessions |-> {}]
  /\ made = [s \in Sessions |-> {}]
  /\ remote = [s \in Sessions |-> {}]
  /\ task = [s \in Sessions |-> NoTask]
  /\ worker = [s \in Sessions |-> "none"]
  /\ talk = [s \in Sessions |-> NoItem]
  /\ job = [s \in Sessions |-> "none"]
  /\ owed = [s \in Sessions |-> None]
  /\ hand = [g \in Gateways |-> {}]
  /\ purging = [g \in Gateways |-> {}]
  /\ tokens = 0 /\ faults = 0

Fault == faults < MaxFaults /\ faults' = faults + 1
-----------------------------------------------------------------------------
(* The life of a session. *)

\* Defect: the insert does not look for a cleanup task.
CreateIgnoringTask(s) ==
  /\ row[s].state = "none" /\ row[s].life < MaxLives
  /\ \E able \in BOOLEAN :
       row' = [row EXCEPT ![s] = [state |-> "live", life |-> @.life + 1,
                                  able |-> able, wsid |-> None]]
  /\ UNCHANGED <<content, starting, made, remote, task, worker, talk, job, owed, hand,
                 purging, tokens, faults>>

\* Upsert of a new session: refused while its id has a cleanup task.
Create(s) ==
  /\ row[s].state = "none" /\ row[s].life < MaxLives
  /\ ~task[s].on
  /\ \E able \in BOOLEAN :
       row' = [row EXCEPT ![s] = [state |-> "live", life |-> @.life + 1,
                                  able |-> able, wsid |-> None]]
  /\ UNCHANGED <<content, starting, made, remote, task, worker, talk, job, owed, hand,
                 purging, tokens, faults>>

\* createAndLaunchWorker of a live session: the worker will create a remote
\* session, numbered by the starts.
StartWorker(s, n) ==
  /\ row[s].state = "live"
  /\ n \notin starting[s] \cup made[s]
  /\ \A m \in Remotes : m < n => m \in starting[s] \cup made[s]
  /\ starting' = [starting EXCEPT ![s] = @ \cup {n}]
  /\ UNCHANGED <<row, content, made, remote, task, worker, talk, job, owed, hand, purging,
                 tokens, faults>>

\* The worker's Start creates the remote session, whatever has become of the row.
CreateRemote(s, n) ==
  /\ n \in starting[s]
  /\ starting' = [starting EXCEPT ![s] = @ \ {n}]
  /\ made' = [made EXCEPT ![s] = @ \cup {n}]
  /\ remote' = [remote EXCEPT ![s] = @ \cup {n}]
  /\ UNCHANGED <<row, content, task, worker, talk, job, owed, hand, purging, tokens, faults>>

\* Later a goroutine writes the worker's id into the row, again at the worker's
\* first event and after a transition, over any other id and into a deleted row.
\* It may never come to that, or fail.
UpdateWorkerSessionID(s, n) ==
  /\ n \in made[s] /\ row[s].state # "none"
  /\ row' = [row EXCEPT ![s].wsid = n]
  /\ UNCHANGED <<content, starting, made, remote, task, worker, talk, job, owed, hand,
                 purging, tokens, faults>>

\* ensureSessionWritable: without a row a purge job is the barrier.
Writable(s) == row[s].state = "live" \/ (row[s].state = "none" /\ job[s] = "none")

\* An event or turn is appended, maybe by a worker that has not noticed yet.
Append(s) ==
  /\ Writable(s) /\ row[s].life > 0
  /\ content' = [content EXCEPT ![s] = @ \cup {row[s].life}]
  /\ UNCHANGED <<row, starting, made, remote, task, worker, talk, job, owed, hand, purging,
                 tokens, faults>>
-----------------------------------------------------------------------------
(* Deletion. *)

\* refreshPurgeJobStatus.
JobStatus(t, w) ==
  CASE "unsupported" \in {t, w} -> "blocked"
    [] {t, w} \cap Open # {} -> "in_progress"
    [] OTHER -> "complete"

\* The job, if there is one, when its items are in states t and w.
Refreshed(s, t, w) ==
  [job EXCEPT ![s] = IF t = "none" THEN @ ELSE JobStatus(t, w)]

\* insertCleanupTask: one task per session; none once the item is settled.
EnqueueTask(s) ==
  IF row[s].wsid # None /\ worker[s] \notin Settled /\ ~task[s].on
  THEN [task EXCEPT ![s] = [on |-> TRUE, life |-> row[s].life, able |-> row[s].able,
                            wsid |-> row[s].wsid, token |-> 0, leased |-> FALSE]]
  ELSE task

\* MarkDeletedWithCleanup, and RetireExpiredLifecycleSession, which asks in
\* addition that there is no task: task, job and items, then the row.
MarkDeletedWithCleanup(s) ==
  LET talking == IF talk[s].state = "none" THEN "pending" ELSE talk[s].state
      working == IF worker[s] # "none" THEN worker[s]
                 ELSE IF row[s].wsid # None THEN "pending" ELSE "complete"
  IN
  /\ row[s].state # "none"
  /\ task' = EnqueueTask(s)
  /\ talk' = [talk EXCEPT ![s].state = talking]
  /\ worker' = [worker EXCEPT ![s] = working]
  /\ job' = Refreshed(s, talking, working)
  /\ owed' = IF worker[s] = "none" THEN [owed EXCEPT ![s] = row[s].wsid] ELSE owed
  /\ row' = [row EXCEPT ![s].state = "deleted", ![s].wsid = None]
  /\ UNCHANGED <<content, starting, made, remote, hand, purging, tokens, faults>>

\* DeletePhysicalWithCleanup: no job is created for the session.
DeletePhysicalWithCleanup(s) ==
  /\ row[s].state # "none"
  /\ task' = EnqueueTask(s)
  /\ row' = [row EXCEPT ![s].state = "none", ![s].wsid = None]
  /\ UNCHANGED <<content, starting, made, remote, worker, talk, job, owed, hand, purging,
                 tokens, faults>>

\* DeleteTerminated of the GC does the same to rows that are not deleted.
DeleteTerminated(s) == row[s].state = "live" /\ DeletePhysicalWithCleanup(s)
-----------------------------------------------------------------------------
(* Cleanup runners: the remote worker sessions. *)

Claimed(s, token) ==
  [s |-> s, able |-> task[s].able, wsid |-> task[s].wsid, token |-> token, got |-> "claimed"]

\* An UPDATE of the worker item: it may not exist, and complete is final.
WorkerItem(s, new) == IF worker[s] \in {"none", "complete"} THEN worker[s] ELSE new

\* ClaimCleanupTasks of one task of the batch: it is unleased, or its lease
\* has passed.
ClaimCleanupTask(g, s) ==
  /\ task[s].on /\ ~task[s].leased
  /\ tokens < MaxClaims /\ tokens' = tokens + 1
  /\ task' = [task EXCEPT ![s].token = tokens + 1, ![s].leased = TRUE]
  /\ worker' = [worker EXCEPT ![s] = WorkerItem(s, "running")]
  /\ job' = Refreshed(s, talk[s].state, WorkerItem(s, "running"))
  /\ hand' = [hand EXCEPT ![g] = @ \cup {Claimed(s, tokens + 1)}]
  /\ UNCHANGED <<row, content, starting, made, remote, talk, owed, purging, faults>>

Answer(g, t, got) == hand' = [hand EXCEPT ![g] = (@ \ {t}) \cup {[t EXCEPT !.got = got]}]

\* CleanupSession: deletes the remote session the task names; one that is gone
\* counts as deleted.  A failure may come after the deletion.
CleanupSession(g, t) ==
  /\ t.got = "claimed"
  /\ \/ /\ ~t.able /\ Answer(g, t, "unsupported")
        /\ UNCHANGED <<remote, faults>>
     \/ /\ t.able /\ Answer(g, t, "ok")
        /\ remote' = [remote EXCEPT ![t.s] = @ \ {t.wsid}]
        /\ UNCHANGED faults
     \/ /\ t.able /\ Fault /\ Answer(g, t, "failed")
        /\ remote' \in {remote, [remote EXCEPT ![t.s] = @ \ {t.wsid}]}
  /\ UNCHANGED <<row, content, starting, made, task, worker, talk, job, owed, purging, tokens>>

\* Defect: the result is recorded without looking at the lease.
OwnsIgnoringToken(t) == task[t.s].on

\* cleanupTaskSessionID: the lease is the token, even when its time is over.
Owns(t) == task[t.s].on /\ task[t.s].token = t.token

\* Defect: an unsupported deletion counts as complete.
SettledAsComplete(t) == "complete"

SettledAs(t) == IF t.got = "ok" THEN "complete" ELSE "unsupported"

\* CompleteCleanupTask and FailUnsupportedCleanupTask end the task,
\* RetryCleanupTask frees it.
RecordCleanup(t) ==
  LET item == IF t.got = "failed" THEN "retrying" ELSE SettledAs(t) IN
  /\ task' = [task EXCEPT ![t.s] =
                IF t.got = "failed" THEN [@ EXCEPT !.token = 0, !.leased = FALSE]
                ELSE NoTask]
  /\ worker' = [worker EXCEPT ![t.s] = WorkerItem(t.s, item)]
  /\ job' = Refreshed(t.s, talk[t.s].state, WorkerItem(t.s, item))

\* The runner records the answer: refused without the lease, or not written.
FinishCleanup(g, t) ==
  /\ t.got # "claimed"
  /\ hand' = [hand EXCEPT ![g] = @ \ {t}]
  /\ \/ Owns(t) /\ RecordCleanup(t) /\ UNCHANGED faults
     \/ ~Owns(t) /\ UNCHANGED <<task, worker, job, faults>>
     \/ Fault /\ UNCHANGED <<task, worker, job>>
  /\ UNCHANGED <<row, content, starting, made, remote, talk, owed, purging, tokens>>
-----------------------------------------------------------------------------
(* Purge runners: the conversations. *)

\* Defect: items left running by a crash are not picked up again.
PurgeDueUnlessRunning(s) == talk[s].state \in {"pending", "retrying"} /\ ~talk[s].leased

PurgeDue(s) == talk[s].state \in Open /\ ~talk[s].leased

\* ClaimPurgeItems of one item.
ClaimPurgeItem(g, s) ==
  /\ PurgeDue(s)
  /\ tokens < MaxClaims /\ tokens' = tokens + 1
  /\ talk' = [talk EXCEPT ![s] = [state |-> "running", token |-> tokens + 1, leased |-> TRUE]]
  /\ job' = Refreshed(s, "running", worker[s])
  /\ UNCHANGED <<row, content, starting, made, remote, task, worker, owed, hand, faults>>
  /\ purging' = [purging EXCEPT ![g] = @ \cup {[s |-> s, token |-> tokens + 1, got |-> "claimed"]}]

\* DeleteConversationBySession: everything stored under the id, or nothing.
DeleteConversation(g, t) ==
  LET answer(got) ==
        purging' = [purging EXCEPT ![g] = (@ \ {t}) \cup {[t EXCEPT !.got = got]}]
  IN
  /\ t.got = "claimed"
  /\ \/ answer("ok") /\ content' = [content EXCEPT ![t.s] = {}] /\ UNCHANGED faults
     \/ answer("failed") /\ Fault /\ UNCHANGED content
  /\ UNCHANGED <<row, starting, made, remote, task, worker, talk, job, owed, hand, tokens>>

OwnsItem(t) == talk[t.s].state = "running" /\ talk[t.s].token = t.token

\* CompletePurgeItem and RetryPurgeItem.
FinishPurge(g, t) ==
  LET item == IF t.got = "ok" THEN "complete" ELSE "retrying" IN
  /\ t.got # "claimed"
  /\ purging' = [purging EXCEPT ![g] = @ \ {t}]
  /\ UNCHANGED <<row, content, starting, made, remote, task, worker, owed, hand, tokens>>
  /\ \/ /\ OwnsItem(t)
        /\ talk' = [talk EXCEPT ![t.s] = [NoItem EXCEPT !.state = item]]
        /\ job' = Refreshed(t.s, item, worker[t.s])
        /\ UNCHANGED faults
     \/ ~OwnsItem(t) /\ UNCHANGED <<talk, job, faults>>
     \/ Fault /\ UNCHANGED <<talk, job>>
-----------------------------------------------------------------------------
(* Time and crashes. *)

LeaseLapses(s) ==
  /\ Fault
  /\ \/ /\ task[s].leased
        /\ task' = [task EXCEPT ![s].leased = FALSE]
        /\ UNCHANGED talk
     \/ /\ talk[s].leased
        /\ talk' = [talk EXCEPT ![s].leased = FALSE]
        /\ UNCHANGED task
  /\ UNCHANGED <<row, content, starting, made, remote, worker, job, owed, hand, purging,
                 tokens>>

\* A lease nobody works under passes as well.
AbandonedLapses(s) ==
  /\ \/ /\ task[s].leased
        /\ \A g \in Gateways : \A t \in hand[g] : t.s = s => ~Owns(t)
        /\ task' = [task EXCEPT ![s].leased = FALSE]
        /\ UNCHANGED talk
     \/ /\ talk[s].leased
        /\ \A g \in Gateways : \A t \in purging[g] : t.s = s => ~OwnsItem(t)
        /\ talk' = [talk EXCEPT ![s].leased = FALSE]
        /\ UNCHANGED task
  /\ UNCHANGED <<row, content, starting, made, remote, worker, job, owed, hand, purging,
                 tokens, faults>>

Crash(g) ==
  /\ Fault
  /\ hand[g] # {} \/ purging[g] # {}
  /\ hand' = [hand EXCEPT ![g] = {}]
  /\ purging' = [purging EXCEPT ![g] = {}]
  /\ UNCHANGED <<row, content, starting, made, remote, task, worker, talk, job, owed, tokens>>

RunnerStep(g) ==
  \/ \E s \in Sessions : ClaimCleanupTask(g, s) \/ ClaimPurgeItem(g, s)
  \/ \E t \in hand[g] : CleanupSession(g, t) \/ FinishCleanup(g, t)
  \/ \E t \in purging[g] : DeleteConversation(g, t) \/ FinishPurge(g, t)

Next ==
  \/ \E s \in Sessions :
       \/ Create(s) \/ Append(s)
       \/ \E n \in Remotes : StartWorker(s, n) \/ CreateRemote(s, n) \/ UpdateWorkerSessionID(s, n)
       \/ MarkDeletedWithCleanup(s) \/ DeletePhysicalWithCleanup(s) \/ DeleteTerminated(s)
       \/ LeaseLapses(s) \/ AbandonedLapses(s)
  \/ \E g \in Gateways : RunnerStep(g) \/ Crash(g)

Spec == Init /\ [][Next]_vars

\* The runners poll every second, and every lease has an end.
LiveSpec ==
  /\ Spec
  /\ \A g \in Gateways : WF_vars(RunnerStep(g))
  /\ \A s \in Sessions : WF_vars(AbandonedLapses(s))
-----------------------------------------------------------------------------
(* Properties. *)

Tokens == 0..MaxClaims
Ids == Remotes \cup {None}
RowType == [state: {"none", "live", "deleted"}, life: Lives, able: BOOLEAN, wsid: Ids]
TaskType == [on: BOOLEAN, life: Lives, able: BOOLEAN, wsid: Ids, token: Tokens,
             leased: BOOLEAN]
ItemType == [state: ItemStates, token: Tokens, leased: BOOLEAN]
Claims == [s: Sessions, able: BOOLEAN, wsid: Ids, token: Tokens, got: Results]
Purges == [s: Sessions, token: Tokens, got: Results]

\* Type invariant: statuses are those that the tables admit, leases name tokens
\* given out.
CTypeOK ==
  /\ row \in [Sessions -> RowType]
  /\ content \in [Sessions -> SUBSET Lives]
  /\ starting \in [Sessions -> SUBSET Remotes]
  /\ made \in [Sessions -> SUBSET Remotes]
  /\ remote \in [Sessions -> SUBSET Remotes]
  /\ task \in [Sessions -> TaskType]
  /\ worker \in [Sessions -> ItemStates]
  /\ talk \in [Sessions -> ItemType]
  /\ job \in [Sessions -> {"none", "in_progress", "blocked", "complete"}]
  /\ owed \in [Sessions -> Ids]
  /\ hand \in [Gateways -> SUBSET Claims]
  /\ purging \in [Gateways -> SUBSET Purges]
  /\ tokens \in Tokens /\ faults \in 0..MaxFaults

\* While a remote worker session is waiting to be deleted its HotPlex session
\* does not come back: the task, the one obligation of the id, names the last
\* life of a session that is not live (the guards of Upsert and insertCleanupTask).
NoRevival ==
  \A s \in Sessions :
    task[s].on => row[s].state # "live" /\ task[s].life = row[s].life

\* A cleanup task is only ever dropped when the remote session it names is gone
\* or cannot be deleted, whatever answers come late from runners that lost
\* their lease or crashed.
NoLostCleanup ==
  [][\A s \in Sessions :
       task[s].on /\ ~task'[s].on
       => task[s].wsid \notin remote'[s] \/ ~task[s].able]_vars

\* In the first life of a session id, a purge job that is reported complete has
\* erased the conversation, behind which nothing is appended, and the remote
\* session that the row named when the job was created, whatever ids are written
\* into the row late (refreshPurgeJobStatus over both items).
JobTruthful ==
  \A s \in Sessions :
    job[s] = "complete" /\ row[s].life = 1 => content[s] = {} /\ owed[s] \notin remote[s]

\* Every purge job ends, complete or blocked: crashes, lapsed leases and
\* failures only delay it.
PurgeFinishes ==
  \A s \in Sessions : job[s] = "in_progress" ~> job[s] \in {"complete", "blocked"}

\* What GetPurgeStatus shows of a deletion: complete means erased.  It does not
\* hold: a remote session whose id was not in the row at the deletion, or was
\* replaced there, or belongs to a later life, is left.
CompleteMeansErased ==
  \A s \in Sessions :
    job[s] = "complete" /\ row[s].state = "deleted" => content[s] = {} /\ remote[s] = {}
=============================================================================
