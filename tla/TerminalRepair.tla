--------------------------- MODULE TerminalRepair ---------------------------
(***************************************************************************)
(* What becomes of an execution's outcome when the store does not answer: *)
(* the repairer (execution/repairer.go) keeps the outcome in memory and   *)
(* tries again, gives up after a while, and the lease manager             *)
(* (execution/lease.go) stops renewing what the repairer gave up so that  *)
(* lease recovery fences it.  The callers are the four places of the      *)
(* gateway that settle an execution.                                      *)
(*                                                                        *)
(* Every call of the store may fail.  The loops of the repairer and of    *)
(* the lease manager read a snapshot and act on it later, so their halves *)
(* are separate steps.  Time is relative: a lease counts down, an intent  *)
(* counts up.  Backoff decides only when an attempt is due and is left    *)
(* open: any intent may be due at any time.                               *)
(***************************************************************************)
EXTENDS Integers, FiniteSets

CONSTANTS
  Executions,    \* the executions the gateway accepted
  Capacity,      \* QueueCapacity of the repairer
  MaxLifetime,   \* ticks an intent is retried for
  LeaseTTL,      \* ticks a lease lasts
  MaxReports,    \* bound: terminal reports about one execution
  MaxRestarts,   \* bound: restarts of the gateway
  Ends,          \* runtime outcomes that workers report
  Deliveries     \* delivery outcomes that handlers report

ASSUME RepairAssumption ==
  /\ Capacity \in Nat /\ Capacity >= 2
  /\ {LeaseTTL, MaxReports} \subseteq Nat \ {0}
  /\ {MaxLifetime, MaxRestarts} \subseteq Nat
  /\ Ends \subseteq {"completed", "failed"}
  /\ Deliveries \subseteq {"delivered", "failed", "unknown"}

Kinds == {"delivery", "runtime"}
Keys == Executions \X Kinds
Outcomes == {"completed", "failed"}

Absent == [status |-> "none", match |-> FALSE, sid |-> FALSE, age |-> 0]

\* match: the intent names the run that the record names.  sid: it names the
\* session, as the intent of a Done does.
Intent == [status: Outcomes \cup {"delivered", "unknown", "none"},
           match: BOOLEAN, sid: BOOLEAN, age: 0..MaxLifetime + 1]

VARIABLES
  row,        \* the durable record: runtime, delivery, owner still up, lease left
  up,         \* the gateway process runs
  restarts,
  intents,    \* Repairer.intents
  due,        \* the intents processDue collected and has not attempted yet
  kept,       \* those of them that are still the map's entry (same pointer)
  abandoned,  \* Repairer.abandoned
  excluded,   \* renewLoop's snapshot of abandoned, or NotReading
  tracked,    \* recoverOnce's snapshot, then the converged part of it
  recovery,   \* where recoverOnce is
  reports,    \* history: terminal reports about an execution
  over,       \* history: executions whose outcome the gateway tried to store
  missed,     \* history: executions whose end it saw but did not look up
  woken,      \* history: executions whose end woke their session's queue
  silent,     \* history: executions a stop or a refusal reported
  told        \* history: the gateway knows the outcome of the delivery

repairer == <<intents, due, kept, abandoned>>
leases == <<excluded, tracked, recovery>>
history == <<reports, over, missed, told, woken, silent>>
vars == <<row, up, restarts, repairer, leases, history>>

NotReading == {"not reading"}

-----------------------------------------------------------------------------
(* The store, as the repairer and the lease manager use it. *)

Active(e) == row[e].rt = "running"

\* FinishRuntime accepts the outcome, or finds it there already.
TakesRuntime(e, x) == x.match /\ row[e].rt \in {"running", "unknown", x.status}

\* SetDelivery accepts the outcome, or finds it there already.
TakesDelivery(e, x) == row[e].st \in {"accepted", x.status}

Takes(k, x) == IF k[2] = "runtime" THEN TakesRuntime(k[1], x) ELSE TakesDelivery(k[1], x)

Ended(r, status) == [r EXCEPT !.rt = status]
Delivered(r, status) == [r EXCEPT !.st = status]

Settle(k, x) ==
  row' = [row EXCEPT ![k[1]] =
    IF k[2] = "runtime" THEN Ended(@, x.status) ELSE Delivered(@, x.status)]

Fenced(r) ==
  [r EXCEPT !.rt = "unknown", !.st = IF @ = "accepted" THEN "unknown" ELSE @]

WithLease(r, ticks) == [r EXCEPT !.lease = ticks]
Disowned(r) == [r EXCEPT !.mine = FALSE]

-----------------------------------------------------------------------------
(* Repairer. *)

Backlog == {k \in Keys : intents[k].status # "none"}

\* isMoreTerminal: a decided runtime outcome is not replaced by an unknown one.
IsMoreTerminal(k, x) ==
  k[2] = "runtime" /\ intents[k].status \in Outcomes /\ x.status = "unknown"

\* Defect: a given-up outcome is only logged.
GiveUpQuietly(ks) == UNCHANGED abandoned

\* The executions whose runtime outcome is given up stop being renewed.
GiveUp(ks) == abandoned' = abandoned \cup {e \in Executions : <<e, "runtime">> \in ks}

IsFull == Cardinality(Backlog) >= Capacity

Enqueue(k, x) ==
  \/ /\ IsMoreTerminal(k, x)
     /\ UNCHANGED repairer
  \/ /\ k \notin Backlog /\ IsFull
     /\ GiveUp({k})
     /\ UNCHANGED <<intents, due, kept>>
  \/ /\ IF k \in Backlog THEN ~IsMoreTerminal(k, x) ELSE ~IsFull
     /\ abandoned' = IF k[2] = "runtime" THEN abandoned \ {k[1]} ELSE abandoned
     /\ intents' = [intents EXCEPT ![k] = x]
     /\ kept' = kept \ {k}
     /\ UNCHANGED due

Expired == {k \in Backlog : intents[k].age > MaxLifetime}

\* processDue under the lock: drop what is too old, collect what is due.
ProcessDue(ks) ==
  /\ up /\ kept = {} /\ \A k \in Keys : due[k].status = "none"
  /\ ks \subseteq Backlog \ Expired
  /\ ks \cup Expired # {}
  /\ intents' = [k \in Keys |-> IF k \in Expired THEN Absent ELSE intents[k]]
  /\ GiveUp(Expired)
  /\ due' = [k \in Keys |-> IF k \in ks THEN intents[k] ELSE Absent]
  /\ kept' = ks
  /\ UNCHANGED <<row, up, restarts, leases, history>>

\* Defect: the hook runs only for an intent that is still the map's entry.
WakeIfCurrent(k, x) ==
  woken' = IF x.sid /\ k[2] = "runtime" /\ k \in kept THEN woken \cup {k[1]} ELSE woken

\* dispatchQueued, called by the forwarder and by HandleRepairSuccess.
Wake(k, x) == woken' = IF x.sid /\ k[2] = "runtime" THEN woken \cup {k[1]} ELSE woken

\* tryProcess when the store takes the outcome.
AttemptSucceeds(k) ==
  /\ up /\ due[k].status # "none"
  /\ Takes(k, due[k])
  /\ Settle(k, due[k]) /\ Wake(k, due[k])
  /\ IF k \in kept
     THEN /\ intents' = [intents EXCEPT ![k] = Absent]
          /\ abandoned' = IF k[2] = "runtime" THEN abandoned \ {k[1]} ELSE abandoned
     ELSE UNCHANGED <<intents, abandoned>>
  /\ due' = [due EXCEPT ![k] = Absent]
  /\ kept' = kept \ {k}
  /\ UNCHANGED <<up, restarts, leases, reports, over, missed, told, silent>>

\* tryProcess when the store fails or refuses: the intent stays.
AttemptFails(k) ==
  /\ up /\ due[k].status # "none"
  /\ due' = [due EXCEPT ![k] = Absent]
  /\ kept' = kept \ {k}
  /\ UNCHANGED <<row, up, restarts, intents, abandoned, leases, history>>

-----------------------------------------------------------------------------
(* The callers. *)

\* One terminal write of the gateway: it is stored, or handed to the repairer.
Write(k, x) ==
  \/ Takes(k, x) /\ Settle(k, x) /\ Wake(k, x) /\ UNCHANGED repairer
  \/ Enqueue(k, x) /\ UNCHANGED <<row, woken>>

NewIntent(status, match, sid) ==
  [status |-> status, match |-> match, sid |-> sid, age |-> 0]

CanReport(e) == up /\ row[e].mine /\ reports[e] < MaxReports

Report(e, ended) ==
  /\ reports' = [reports EXCEPT ![e] = @ + 1]
  /\ over' = IF ended THEN over \cup {e} ELSE over
  /\ UNCHANGED <<up, restarts, leases, missed, told>>

\* finishRuntimeOnDone.  The record that it looks up first is the open one.
Done(e, status) ==
  /\ CanReport(e) /\ row[e].rt \in {"running", "unknown"}
  /\ Write(<<e, "runtime">>, NewIntent(status, TRUE, TRUE))
  /\ Report(e, TRUE)
  /\ UNCHANGED silent

\* finishRuntimeOnStop.  On a run mismatch the outcome is queued as well, and
\* whatever was queued is replaced by an intent that names no session.
Stop(e, match) ==
  /\ CanReport(e) /\ row[e].rt \in {"running", "unknown"}
  /\ Write(<<e, "runtime">>, NewIntent("failed", match, FALSE))
  /\ Report(e, match)
  /\ silent' = silent \cup {e}

\* Either of them when the lookup fails: both return at once.
LookupFails(e) ==
  /\ CanReport(e)
  /\ reports' = [reports EXCEPT ![e] = @ + 1]
  /\ missed' = missed \cup {e}
  /\ UNCHANGED <<row, up, restarts, repairer, leases, over, told, woken, silent>>

\* finishRuntimeWithoutDispatch
Undispatched(e) ==
  /\ CanReport(e)
  /\ Write(<<e, "runtime">>, NewIntent("failed", TRUE, FALSE))
  /\ Report(e, TRUE)
  /\ silent' = silent \cup {e}

\* finishInputExecution
DeliveryOutcome(e, status) ==
  /\ up /\ row[e].mine /\ e \notin told
  /\ Write(<<e, "delivery">>, NewIntent(status, TRUE, FALSE))
  /\ told' = told \cup {e}
  /\ UNCHANGED <<up, restarts, leases, reports, over, missed, silent>>

-----------------------------------------------------------------------------
(* Lease manager. *)

ReadExclusions ==
  /\ up /\ excluded = NotReading
  /\ excluded' = abandoned
  /\ UNCHANGED <<row, up, restarts, repairer, tracked, recovery, history>>

\* Defect: RenewLeases ignores the exclusions.
RenewableAll(e) == Active(e) /\ row[e].mine

Renewable(e) == Active(e) /\ row[e].mine /\ e \notin excluded

RenewLeases ==
  /\ up /\ excluded # NotReading
  /\ excluded' = NotReading
  /\ \/ row' = [e \in Executions |-> IF Renewable(e) THEN WithLease(row[e], LeaseTTL) ELSE row[e]]
     \/ UNCHANGED row
  /\ UNCHANGED <<up, restarts, repairer, tracked, recovery, history>>

ReadTracked ==
  /\ up /\ recovery = "idle"
  /\ tracked' = abandoned
  /\ recovery' = "read"
  /\ UNCHANGED <<row, up, restarts, repairer, excluded, history>>

Overdue(e) == Active(e) /\ row[e].lease = 0

\* Defect: only what this sweep fenced is reported as converged.
ConvergedBySweep == {e \in tracked : Overdue(e)}

\* The tracked executions that are not active once the overdue are fenced.
Converged == {e \in tracked : ~Active(e) \/ Overdue(e)}

RecoverExpiredLeases ==
  /\ up /\ recovery = "read"
  /\ row' = [e \in Executions |-> IF Overdue(e) THEN Fenced(row[e]) ELSE row[e]]
  /\ tracked' = Converged
  /\ recovery' = "clear"
  /\ UNCHANGED <<up, restarts, repairer, excluded, history>>

RecoveryFails ==
  /\ up /\ recovery = "read"
  /\ tracked' = {} /\ recovery' = "idle"
  /\ UNCHANGED <<row, up, restarts, repairer, excluded, history>>

ClearAbandoned ==
  /\ up /\ recovery = "clear"
  /\ abandoned' = abandoned \ tracked
  /\ tracked' = {} /\ recovery' = "idle"
  /\ UNCHANGED <<row, up, restarts, intents, due, kept, excluded, history>>

-----------------------------------------------------------------------------
(* The process and time. *)

GoDown ==
  /\ up /\ up' = FALSE
  /\ intents' = [k \in Keys |-> Absent] /\ due' = [k \in Keys |-> Absent]
  /\ kept' = {} /\ abandoned' = {}
  /\ excluded' = NotReading /\ tracked' = {} /\ recovery' = "idle"
  /\ UNCHANGED <<restarts, history>>

Crash ==
  /\ restarts < MaxRestarts
  /\ GoDown
  /\ row' = [e \in Executions |-> Disowned(row[e])]

\* Repairer.Shutdown has drained what it could (attempts as above); then
\* LeaseManager.Shutdown fences what is still active.  If the store fails that
\* call the process ends as in Crash.
Shutdown ==
  /\ restarts < MaxRestarts
  /\ GoDown
  /\ row' = [e \in Executions |->
       Disowned(IF Active(e) /\ row[e].mine THEN Fenced(row[e]) ELSE row[e])]

Restart ==
  /\ ~up /\ up' = TRUE
  /\ restarts' = restarts + 1
  /\ UNCHANGED <<row, repairer, leases, history>>

Older(x) ==
  IF x.status = "none" \/ x.age > MaxLifetime THEN x ELSE [x EXCEPT !.age = @ + 1]

Tick ==
  /\ row' = [e \in Executions |->
       IF Active(e) /\ row[e].lease > 0 THEN WithLease(row[e], row[e].lease - 1) ELSE row[e]]
  /\ intents' = [k \in Keys |-> Older(intents[k])]
  /\ <<row', intents'>> # <<row, intents>>
  /\ UNCHANGED <<up, restarts, due, kept, abandoned, leases, history>>

-----------------------------------------------------------------------------
Init ==
  /\ row = [e \in Executions |->
       [rt |-> "running", st |-> "accepted", mine |-> TRUE, lease |-> LeaseTTL]]
  /\ up = TRUE /\ restarts = 0
  /\ intents = [k \in Keys |-> Absent] /\ due = [k \in Keys |-> Absent]
  /\ kept = {} /\ abandoned = {}
  /\ excluded = NotReading /\ tracked = {} /\ recovery = "idle"
  /\ reports = [e \in Executions |-> 0] /\ over = {} /\ missed = {} /\ told = {}
  /\ woken = {} /\ silent = {}

Next ==
  \/ \E e \in Executions :
       \/ \E status \in Ends : Done(e, status)
       \/ \E match \in BOOLEAN : Stop(e, match)
       \/ LookupFails(e) \/ Undispatched(e)
       \/ \E status \in Deliveries : DeliveryOutcome(e, status)
  \/ \E ks \in SUBSET Keys : ProcessDue(ks)
  \/ \E k \in Keys : AttemptSucceeds(k) \/ AttemptFails(k)
  \/ ReadExclusions \/ RenewLeases
  \/ ReadTracked \/ RecoverExpiredLeases \/ RecoveryFails \/ ClearAbandoned
  \/ Crash \/ Shutdown \/ Restart \/ Tick

Spec == Init /\ [][Next]_vars

\* Both processes' loops keep running and time passes; the store may fail any
\* number of times but not for ever (strong fairness of the recovery sweep).
\* No repair attempt and no lease renewal is ever assumed to succeed.
Fairness ==
  /\ WF_vars(Tick) /\ WF_vars(Restart)
  /\ WF_vars(\E ks \in SUBSET Keys : ProcessDue(ks))
  /\ WF_vars(\E k \in Keys : AttemptSucceeds(k) \/ AttemptFails(k))
  /\ WF_vars(ReadExclusions) /\ WF_vars(RenewLeases)
  /\ WF_vars(ReadTracked) /\ SF_vars(RecoverExpiredLeases) /\ WF_vars(ClearAbandoned)

FairSpec == Spec /\ Fairness
-----------------------------------------------------------------------------
(* Properties. *)

RowType ==
  [rt: Outcomes \cup {"running", "unknown"},
   st: {"accepted", "delivered", "failed", "unknown"},
   mine: BOOLEAN, lease: 0..LeaseTTL]

\* Every variable has its type.
RTypeOK ==
  /\ row \in [Executions -> RowType]
  /\ up \in BOOLEAN /\ restarts \in 0..MaxRestarts
  /\ intents \in [Keys -> Intent] /\ due \in [Keys -> Intent]
  /\ kept \subseteq Keys /\ abandoned \subseteq Executions
  /\ excluded \in (SUBSET Executions) \cup {NotReading}
  /\ tracked \subseteq Executions /\ recovery \in {"idle", "read", "clear"}
  /\ reports \in [Executions -> 0..MaxReports]
  /\ over \cup missed \cup told \cup woken \cup silent \subseteq Executions

\* An outcome the gateway has seen and not stored is never forgotten: either
\* the repairer still holds it or lease renewal leaves the execution out, so
\* that no execution whose worker is gone is kept alive by its own gateway.
NothingForgotten ==
  up => \A e \in over :
    Active(e) /\ row[e].mine => <<e, "runtime">> \in Backlog \/ e \in abandoned

\* A queue does not sleep behind a slot that a Done released: when the record of
\* an execution of this gateway carries a worker's outcome, the session's queue
\* was woken, however long the store took to accept it and whichever of several
\* intents it accepted.  The stop and the refusal of an input release the slot
\* silently, and replace the intent of a Done by one that wakes nobody.
ReleaseWakesQueue ==
  \A e \in Executions \ silent :
    row[e].rt \in Outcomes /\ row[e].mine => e \in woken

\* Every execution whose end the gateway tried to store, or whose gateway is gone, leaves
\* the session's active slot, even if every repair attempt fails.
TerminalConverges ==
  \A e \in Executions : (e \in over \/ ~row[e].mine) ~> ~Active(e)

\* The design's repairer "solves transient database failures": the end of a turn
\* that the gateway saw releases the slot, also when the first store call to
\* fail is the lookup of the open record.
SeenEndConverges == \A e \in Executions : (e \in missed) ~> ~Active(e)

\* An exclusion from renewal ends: the set does not grow for ever.
ExclusionsReleased == \A e \in Executions : e \in abandoned ~> e \notin abandoned

\* The design: when repair fails for 30 seconds, lease expiry converges the
\* fact, so no delivery stays accepted once its outcome is known.
DeliverySettles ==
  \A e \in Executions : (e \in told /\ up) ~> (row[e].st # "accepted")
=============================================================================
