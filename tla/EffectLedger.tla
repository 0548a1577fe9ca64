---------------------------- MODULE EffectLedger ----------------------------
(***************************************************************************)
(* The effect ledger: the delivery of a scheduled run's answer to an       *)
(* outside provider (internal/effect), driven by the gateway's deliverer   *)
(* and recovery loop (internal/gateway/effect_delivery.go and              *)
(* effect_recovery.go).                                                    *)
(*                                                                         *)
(* An effect is identified by its business key: the occurrence and the     *)
(* revision of the target it was promised to.  Its content is one payload  *)
(* per occurrence (one execution each).  Senders are the goroutines of any *)
(* number of gateway instances: runs that end in DeliverEffect and         *)
(* recovery loops.  What they read stays in their own record until used.   *)
(* The clock is abstract: a lease is live and then lapsed, a backoff is    *)
(* waiting and then due.  The random lease token is the lease version,     *)
(* which no two claims of an effect share.                                 *)
(***************************************************************************)
EXTENDS Naturals, FiniteSets

CONSTANTS
    Occurrences,  \* firings of scheduled jobs, one execution each
    Targets,      \* revisions of delivery targets
    NoTarget,     \* delivery is no longer authorized
    Contents,     \* final outputs
    Runs,         \* goroutines that call DeliverEffect
    Loops,        \* recovery loops, one per gateway instance
    MaxAttempts,  \* RetryBudget.MaxAttempts
    MaxCrashes    \* bound on crashes

ASSUME EffectAssumption ==
    /\ MaxAttempts \in Nat \ {0}
    /\ MaxCrashes \in Nat
    /\ NoTarget \notin Targets
    /\ Runs \cap Loops = {}
    /\ Contents \cap {"none", "blank"} = {}

VARIABLES
    effect,    \* the effects table
    attempts,  \* the effect_attempts table, keyed by (effect, attempt)
    payload,   \* the effect_payloads table: content, none, or blanked
    target,    \* the target each occurrence's job names now
    sender,    \* where each goroutine is and what it has read
    messages,  \* what the provider created, by the token of the send
    crashes

vars == <<effect, attempts, payload, target, sender, messages, crashes>>

Senders == Runs \cup Loops

Effects == Occurrences \X Targets
Occ(e) == e[1]
Revision(e) == e[2]

Terminal == {"delivered", "failed", "reconciled_succeeded",
             "reconciled_failed", "fenced"}
Statuses == Terminal \cup {"absent", "planned", "started", "unknown"}

Row == [status : Statuses, attempt : Nat, version : Nat,
        lease : {"none", "live", "lapsed"}, retry : {"none", "waiting", "due"}]

NoRow == [status |-> "absent", attempt |-> 0, version |-> 0,
          lease |-> "none", retry |-> "none"]

Outcomes == {"accepted", "rejected", "unknown", "not_sent"}
AttemptRow == [token : Nat, outcome : Outcomes \cup {"none", "open"}]
NoAttempt == [token |-> 0, outcome |-> "none"]

Results == {"accepted", "safe_retry", "permanent", "unknown", "not_sent"}

Idle == [pc |-> "idle", on |-> "none", attempt |-> 0, token |-> 0,
         content |-> "none", result |-> "none", batch |-> {}, pass |-> FALSE]

Init ==
    /\ effect = [e \in Effects |-> NoRow]
    /\ attempts = [e \in Effects |-> [n \in 0..MaxAttempts - 1 |-> NoAttempt]]
    /\ payload = [o \in Occurrences |-> "none"]
    /\ target \in [Occurrences -> Targets]
    /\ sender = [p \in Senders |-> Idle]
    /\ messages = [e \in Effects |-> {}]
    /\ crashes = 0

-----------------------------------------------------------------------------
(* Delivery of a run that just completed *)

\* Defect: the digest of a recorded payload is not compared.
AgreesUnchecked(o, c) == payload[o] # "blank"

\* PlanWithPayload's check of the recorded payload: none recorded, or the
\* recorded body has not expired and is the same text.
Agrees(o, c) == payload[o] \in {"none", c}

\* PlanOnce commits payload and effect together, or refuses.  The target is
\* the one on the clone of the job the run was started with.
Plan(p, e, c) ==
    /\ sender[p].pc = "idle"
    /\ Agrees(Occ(e), c)
    /\ payload' = [payload EXCEPT ![Occ(e)] = c]
    /\ effect' = IF effect[e].status = "absent"
                 THEN [effect EXCEPT ![e].status = "planned"] ELSE effect
    /\ sender' = [sender EXCEPT ![p] =
                    [Idle EXCEPT !.on = e, !.content = c,
                       !.pc = IF effect[e].status = "absent"
                              THEN "claim" ELSE "converge"]]
    /\ UNCHANGED <<attempts, target, messages, crashes>>

\* The key was taken: GetByKey is read after the commit, and only a planned
\* effect is claimed.
Converge(p) ==
    LET e == sender[p].on IN
    /\ sender[p].pc = "converge"
    /\ sender' = [sender EXCEPT ![p] =
                    IF effect[e].status = "planned"
                    THEN [@ EXCEPT !.pc = "claim", !.attempt = effect[e].attempt]
                    ELSE Idle]
    /\ UNCHANGED <<effect, attempts, payload, target, messages, crashes>>

-----------------------------------------------------------------------------
(* A recovery pass: fence, list, then one effect at a time *)

\* A lapsed send becomes unknown, and so does its open attempt.
Lapsed == {e \in Effects : effect[e].status = "started" /\ effect[e].lease = "lapsed"}

\* Defect: an expired send is put behind a backoff instead of becoming unknown.
ExpiredRetry(r) == [r EXCEPT !.retry = "due", !.lease = "none"]

\* Defect: the lease of an expired send stays on the row.
ExpiredKeepingLease(r) == [r EXCEPT !.status = "unknown"]

Expired(r) == [r EXCEPT !.status = "unknown", !.lease = "none"]

\* ExpireLeases of a pass, in one transaction.
ExpireLeases(p) ==
    /\ sender[p].pc = "idle"
    /\ attempts' = [e \in Effects |-> [n \in 0..MaxAttempts - 1 |->
                      IF /\ e \in Lapsed /\ n = effect[e].attempt
                         /\ attempts[e][n].outcome = "open"
                      THEN [attempts[e][n] EXCEPT !.outcome = "unknown"]
                      ELSE attempts[e][n]]]
    /\ effect' = [e \in Effects |-> IF e \in Lapsed THEN Expired(effect[e]) ELSE effect[e]]
    /\ sender' = [sender EXCEPT ![p] = [Idle EXCEPT !.pc = "owed", !.pass = TRUE]]
    /\ UNCHANGED <<payload, target, messages, crashes>>

Listed(e) == [on |-> e, status |-> effect[e].status, attempt |-> effect[e].attempt]

ListRecoverable(p) ==
    /\ sender[p].pc = "owed"
    /\ sender' = [sender EXCEPT ![p].pc = "due", ![p].batch =
                    {Listed(e) : e \in {f \in Effects : effect[f].status = "planned"}}]
    /\ UNCHANGED <<effect, attempts, payload, target, messages, crashes>>

\* Waiting behind an elapsed backoff and under the cap of sends.
DueRetry(e) ==
    /\ effect[e].status = "started"
    /\ effect[e].retry = "due"
    /\ effect[e].attempt + 1 < MaxAttempts

ListDueRetries(p) ==
    /\ sender[p].pc = "due"
    /\ sender' = [sender EXCEPT ![p].pc = "pass",
                    ![p].batch = @ \cup {Listed(e) : e \in {f \in Effects : DueRetry(f)}}]
    /\ UNCHANGED <<effect, attempts, payload, target, messages, crashes>>

\* What a sender does after an effect: the rest of its pass, or nothing.
Done(s) == IF s.pass THEN [Idle EXCEPT !.pc = "pass", !.batch = s.batch, !.pass = TRUE]
                     ELSE Idle

\* recoverOne up to its claim: the current target must be the promised one
\* and the payload must still be there.
Resolve(p, b) ==
    /\ sender[p].pc = "pass"
    /\ b \in sender[p].batch
    /\ LET rest == [sender[p] EXCEPT !.batch = @ \ {b}] IN
       sender' = [sender EXCEPT ![p] =
         IF /\ target[Occ(b.on)] = Revision(b.on)
            /\ payload[Occ(b.on)] \in Contents
         THEN [rest EXCEPT !.pc = IF b.status = "planned" THEN "claim" ELSE "retry",
                           !.on = b.on, !.attempt = b.attempt,
                           !.content = payload[Occ(b.on)]]
         ELSE Done(rest)]
    /\ UNCHANGED <<effect, attempts, payload, target, messages, crashes>>

EndPass(p) ==
    /\ sender[p].pc = "pass"
    /\ sender[p].batch = {}
    /\ sender' = [sender EXCEPT ![p] = Idle]
    /\ UNCHANGED <<effect, attempts, payload, target, messages, crashes>>

-----------------------------------------------------------------------------
(* Claim, send, complete *)

\* openAttempt inserts under UNIQUE(effect_id, attempt).
Open(e, n, token) ==
    attempts' = [attempts EXCEPT ![e][n] = [token |-> token, outcome |-> "open"]]

Leased(r, n) == [r EXCEPT !.status = "started", !.attempt = n, !.lease = "live",
                          !.version = @ + 1, !.retry = "none"]

Owner(p, n) == [sender EXCEPT ![p].pc = "claimed", ![p].attempt = n,
                              ![p].token = effect[sender[p].on].version + 1]

\* claimSend: the row is still planned at the expected attempt, and the
\* number of that attempt is free; otherwise the transaction is rolled back.
CanClaim(e, n) ==
    /\ effect[e].status = "planned"
    /\ effect[e].attempt = n
    /\ attempts[e][n].outcome = "none"

ClaimSend(p) ==
    LET e == sender[p].on
        n == sender[p].attempt IN
    /\ sender[p].pc = "claim"
    /\ IF CanClaim(e, n)
       THEN /\ effect' = [effect EXCEPT ![e] = Leased(@, n)]
            /\ Open(e, n, effect[e].version + 1)
            /\ sender' = Owner(p, n)
       ELSE /\ sender' = [sender EXCEPT ![p] = Done(@)]
            /\ UNCHANGED <<effect, attempts>>
    /\ UNCHANGED <<payload, target, messages, crashes>>

\* claimRetry: still waiting behind an elapsed backoff at that attempt, and
\* one more send is within the cap.
ClaimRetry(p) ==
    LET e == sender[p].on
        n == sender[p].attempt + 1 IN
    /\ sender[p].pc = "retry"
    /\ IF /\ DueRetry(e) /\ effect[e].attempt = sender[p].attempt
          /\ attempts[e][n].outcome = "none"
       THEN /\ effect' = [effect EXCEPT ![e] = Leased(@, n)]
            /\ Open(e, n, effect[e].version + 1)
            /\ sender' = Owner(p, n)
       ELSE /\ sender' = [sender EXCEPT ![p] = Done(@)]
            /\ UNCHANGED <<effect, attempts>>
    /\ UNCHANGED <<payload, target, messages, crashes>>

\* SendWithReceipt, outside any transaction and whatever became of the lease.
\* A provider that rejects, or was never reached, has created nothing; an
\* unproven send may have created the message.
Send(p, result) ==
    LET s == sender[p] IN
    /\ s.pc = "claimed"
    /\ sender' = [sender EXCEPT ![p].pc = "sent", ![p].result = result]
    /\ \E created \in BOOLEAN :
         /\ (result = "accepted") => created
         /\ (result \in {"safe_retry", "permanent", "not_sent"}) => ~created
         /\ messages' = IF created
              THEN [messages EXCEPT ![s.on] = @ \cup {[token |-> s.token, content |-> s.content]}]
              ELSE messages
    /\ UNCHANGED <<effect, attempts, payload, target, crashes>>

OutcomeOf(result) == IF result \in {"safe_retry", "permanent"} THEN "rejected" ELSE result

\* Defect: an unproven send waits for another try.
StatusForOptimistic(result) ==
    CASE result = "accepted"   -> "delivered"
      [] result \in {"unknown", "not_sent", "safe_retry"} -> "started"
      [] OTHER                 -> "failed"

\* effectStatusFor.
StatusFor(result) ==
    CASE result = "accepted"   -> "delivered"
      [] result = "unknown"    -> "unknown"
      [] result = "not_sent"   -> "planned"
      [] result = "safe_retry" -> "started"
      [] OTHER                 -> "failed"

\* Defect: a completion is matched by attempt number alone.
CompletesAnyToken(s) ==
    /\ attempts[s.on][s.attempt].outcome # "none"
    /\ effect[s.on].attempt = s.attempt

\* completeSend: the open attempt under this token, then the started effect
\* at this attempt; either missing rolls both back with ErrLeaseLost.
Completes(s) ==
    /\ attempts[s.on][s.attempt] = [token |-> s.token, outcome |-> "open"]
    /\ effect[s.on].status = "started"
    /\ effect[s.on].attempt = s.attempt

CompleteSend(p) ==
    LET s == sender[p] IN
    /\ s.pc = "sent"
    /\ IF Completes(s)
       THEN /\ attempts' = [attempts EXCEPT ![s.on][s.attempt].outcome = OutcomeOf(s.result)]
            /\ effect' = [effect EXCEPT ![s.on] =
                 [@ EXCEPT !.status = StatusFor(s.result), !.lease = "none",
                           !.retry = IF StatusFor(s.result) = "started"
                                     THEN "waiting" ELSE "none"]]
       ELSE UNCHANGED <<effect, attempts>>
    /\ sender' = [sender EXCEPT ![p] = Done(s)]
    /\ UNCHANGED <<payload, target, messages, crashes>>

-----------------------------------------------------------------------------
(* Operators, late evidence, retention, faults, the clock *)

Settled(e, status) ==
    /\ effect' = [effect EXCEPT ![e] = [@ EXCEPT !.status = status,
                                                 !.lease = "none", !.retry = "none"]]
    /\ UNCHANGED <<attempts, payload, target, sender, messages, crashes>>

\* abandon and mark_delivered write failed, requeue writes planned.
ApplyOperatorAction(e) ==
    /\ effect[e].status = "unknown"
    /\ \E status \in {"failed", "planned"} : Settled(e, status)

ReconcileUnknown(e) ==
    /\ effect[e].status = "unknown"
    /\ \E status \in {"reconciled_succeeded", "reconciled_failed"} : Settled(e, status)

Fence(e) ==
    /\ effect[e].status \in {"unknown", "failed"}
    /\ Settled(e, "fenced")

\* Evidence of attempts goes once the effect is decided and nothing is open.
AttemptsExpendable(e) ==
    /\ effect[e].status \in Terminal
    /\ effect[e].lease = "none"
    /\ \A n \in 0..MaxAttempts - 1 : attempts[e][n].outcome # "open"

DeleteSettledAttempts(e) ==
    /\ AttemptsExpendable(e)
    /\ attempts' = [attempts EXCEPT ![e] = [n \in 0..MaxAttempts - 1 |-> NoAttempt]]
    /\ UNCHANGED <<effect, payload, target, sender, messages, crashes>>

\* Defect: one decided effect is enough.
PayloadExpendableUnknown(o) ==
    /\ \E e \in Effects : Occ(e) = o /\ effect[e].status # "absent"
    /\ \A e \in Effects : Occ(e) = o => effect[e].status \notin {"planned", "started"}

\* A body is blanked once every effect that refers to it is decided.
PayloadExpendable(o) ==
    /\ \E e \in Effects : Occ(e) = o /\ effect[e].status # "absent"
    /\ \A e \in Effects : Occ(e) = o =>
         /\ effect[e].status \in Terminal \cup {"absent"}
         /\ effect[e].lease = "none" /\ effect[e].retry = "none"

DeleteExpiredPayloads(o) ==
    /\ payload[o] \in Contents
    /\ PayloadExpendable(o)
    /\ payload' = [payload EXCEPT ![o] = "blank"]
    /\ UNCHANGED <<effect, attempts, target, sender, messages, crashes>>

\* The job is retargeted, disabled or deleted.
Retarget(o, t) ==
    /\ target[o] # t
    /\ target' = [target EXCEPT ![o] = t]
    /\ UNCHANGED <<effect, attempts, payload, sender, messages, crashes>>

LeaseLapses(e) ==
    /\ effect[e].lease = "live"
    /\ effect' = [effect EXCEPT ![e].lease = "lapsed"]
    /\ UNCHANGED <<attempts, payload, target, sender, messages, crashes>>

BackoffElapses(e) ==
    /\ effect[e].retry = "waiting"
    /\ effect' = [effect EXCEPT ![e].retry = "due"]
    /\ UNCHANGED <<attempts, payload, target, sender, messages, crashes>>

\* The goroutine's process stops, or its ledger write fails and is only
\* logged: the lease is all that is left of the send.
Crash(p) ==
    /\ sender[p].pc # "idle"
    /\ crashes < MaxCrashes
    /\ crashes' = crashes + 1
    /\ sender' = [sender EXCEPT ![p] = Idle]
    /\ UNCHANGED <<effect, attempts, payload, target, messages>>

Proceed(p) ==
    \/ Converge(p)
    \/ ListRecoverable(p)
    \/ ListDueRetries(p)
    \/ \E b \in sender[p].batch : Resolve(p, b)
    \/ EndPass(p)
    \/ ClaimSend(p)
    \/ ClaimRetry(p)
    \/ \E result \in Results : Send(p, result)
    \/ CompleteSend(p)

Next ==
    \/ \E p \in Runs, e \in Effects, c \in Contents : Plan(p, e, c)
    \/ \E p \in Loops : ExpireLeases(p)
    \/ \E p \in Senders : Proceed(p) \/ Crash(p)
    \/ \E e \in Effects :
         \/ ApplyOperatorAction(e)
         \/ ReconcileUnknown(e)
         \/ Fence(e)
         \/ DeleteSettledAttempts(e)
         \/ LeaseLapses(e)
         \/ BackoffElapses(e)
    \/ \E o \in Occurrences :
         \/ DeleteExpiredPayloads(o)
         \/ \E t \in Targets \cup {NoTarget} : Retarget(o, t)

Spec == Init /\ [][Next]_vars

\* The recovery loop ticks for as long as the gateway runs, a claimed send
\* has a timeout, and time passes.
LiveSpec ==
    /\ Spec
    /\ \A p \in Senders : WF_vars(Proceed(p))
    /\ \A p \in Loops : WF_vars(ExpireLeases(p))
    /\ \A e \in Effects : WF_vars(LeaseLapses(e))

-----------------------------------------------------------------------------
(* Properties *)

SenderState ==
    [pc : {"idle", "converge", "owed", "due", "pass", "claim", "retry", "claimed", "sent"},
     on : Effects \cup {"none"}, attempt : Nat, token : Nat,
     content : Contents \cup {"none"}, result : Results \cup {"none"},
     batch : SUBSET [on : Effects, status : {"planned", "started"}, attempt : Nat],
     pass : BOOLEAN]

\* Every table and every goroutine holds a value of its type.
ETypeOK ==
    /\ effect \in [Effects -> Row]
    /\ attempts \in [Effects -> [0..MaxAttempts - 1 -> AttemptRow]]
    /\ payload \in [Occurrences -> Contents \cup {"none", "blank"}]
    /\ target \in [Occurrences -> Targets \cup {NoTarget}]
    /\ sender \in [Senders -> SenderState]
    /\ messages \in [Effects -> SUBSET [token : Nat, content : Contents]]
    /\ crashes \in Nat

\* The provider creates at most one message for an effect: whatever crashes,
\* lapses, is retried or requeued, two claims never both lead to a message
\* (claimSend, claimRetry, effectStatusFor and expireLeases together).
AtMostOnce == \A e \in Effects : \A m1, m2 \in messages[e] : m1 = m2

\* Every message created for an occurrence, at whichever target and by
\* whichever path, is the text its ledger recorded (PlanWithPayload's digest,
\* recoverOne's payload read, the payload collector's condition).
OneAnswer ==
    \A e \in Effects : \A m \in messages[e] : payload[Occ(e)] \in {m.content, "blank"}

\* A row that says delivered has its message, and a row that offers another
\* send after a rejection has none.
LedgerTruthful ==
    \A e \in Effects :
        /\ effect[e].status = "delivered" => messages[e] # {}
        /\ effect[e].retry # "none" => messages[e] = {}

\* A decided effect stays decided (only failed may still be fenced), whatever
\* a late completion, a second recovery loop or an operator attempts.
DecidedStays ==
    [][\A e \in Effects : effect[e].status \in Terminal =>
         \/ effect'[e] = effect[e]
         \/ effect[e].status = "failed" /\ effect'[e].status = "fenced"]_vars

\* The text of an effect that may still be sent is not collected, so an owed
\* delivery is never lost to retention.
OwedKeepsPayload ==
    \A e \in Effects : effect[e].status \in {"planned", "started", "unknown"} =>
        payload[Occ(e)] \in Contents

\* A send does not stay in flight for ever: its lease is given up by its
\* owner or taken by a recovery pass.
LeaseSettles ==
    \A e \in Effects : effect[e].lease # "none" ~> effect[e].lease = "none"

\* What effectStatusFor's comment and OperatorRequeue's say of planned: the
\* effect can be claimed again.
PlannedIsClaimable ==
    \A e \in Effects : effect[e].status = "planned" =>
        CanClaim(e, effect[e].attempt)
=============================================================================
