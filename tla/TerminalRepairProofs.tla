----------------------- MODULE TerminalRepairProofs -----------------------
(***************************************************************************)
(* The repairer and the lease manager never forget an outcome, for any     *)
(* number of executions, any capacity, lifetime and lease, and any pattern *)
(* of store failures, crashes and restarts.                                *)
(***************************************************************************)
EXTENDS TerminalRepair, TLAPS

\* An intent carries an outcome of its own kind.
IntentsFit ==
  \A k \in Keys :
    /\ k[2] = "runtime" => {intents[k].status, due[k].status} \subseteq Outcomes \cup {"none"}
    /\ k[2] = "delivery" => {intents[k].status, due[k].status} \subseteq {"delivered", "failed", "unknown", "none"}

\* What recoverOnce is about to release is no longer active: the snapshot it
\* works on is old, but an execution that has left the slot never comes back.
ConvergedInactive == recovery = "clear" => \A e \in tracked : ~Active(e)

DownBelow == ~up => restarts < MaxRestarts

\* The inductive invariant.
RInv == RTypeOK /\ IntentsFit /\ ConvergedInactive /\ DownBelow /\ NothingForgotten

-----------------------------------------------------------------------------
(* The record. *)

\* A stored outcome is the record's outcome, and changes nothing else.
LEMMA EndedRow ==
  ASSUME NEW q \in RowType, NEW o \in Outcomes
  PROVE  Ended(q, o) \in RowType /\ Ended(q, o).rt = o /\ Ended(q, o).mine = q.mine
  BY Zenon DEF RowType, Ended

\* A stored delivery leaves the runtime alone.
LEMMA DeliveredRow ==
  ASSUME NEW q \in RowType, NEW o \in {"delivered", "failed", "unknown"}
  PROVE  Delivered(q, o) \in RowType /\ Delivered(q, o).rt = q.rt /\ Delivered(q, o).mine = q.mine
  BY Zenon DEF RowType, Delivered

\* A fenced record is not active and keeps its owner.
LEMMA FencedRow ==
  ASSUME NEW q \in RowType
  PROVE  Fenced(q) \in RowType /\ Fenced(q).rt = "unknown" /\ Fenced(q).mine = q.mine
  <1>1. CASE q.st = "accepted"
    BY <1>1, Zenon DEF RowType, Fenced
  <1>2. CASE q.st # "accepted"
    BY <1>2, Zenon DEF RowType, Fenced
  <1> QED BY <1>1, <1>2

\* A lease is a number of ticks and nothing else of the record depends on it.
LEMMA LeasedRow ==
  ASSUME NEW q \in RowType, NEW n \in 0..LeaseTTL
  PROVE  WithLease(q, n) \in RowType /\ WithLease(q, n).rt = q.rt /\ WithLease(q, n).mine = q.mine
  BY Zenon DEF RowType, WithLease

\* A record whose gateway is gone keeps its facts.
LEMMA DisownedRow ==
  ASSUME NEW q \in RowType
  PROVE  Disowned(q) \in RowType /\ Disowned(q).rt = q.rt /\ Disowned(q).mine = FALSE
  BY Zenon DEF RowType, Disowned

\* The absent intent and a new one are intents.
LEMMA Intents ==
  /\ Absent \in Intent /\ Absent.status = "none"
  /\ \A st \in Outcomes \cup {"delivered", "unknown"}, m, sd \in BOOLEAN :
       NewIntent(st, m, sd) \in Intent /\ NewIntent(st, m, sd).status = st
       /\ NewIntent(st, m, sd).sid = sd
  <1>1. 0 \in 0..MaxLifetime + 1
    BY RepairAssumption, SMT DEF RepairAssumption
  <1> QED BY <1>1, Zenon DEF Intent, Absent, NewIntent, Outcomes

\* An older intent keeps its outcome, and its age stays within its bound.
LEMMA OlderIntent ==
  ASSUME NEW x \in Intent
  PROVE  Older(x) \in Intent /\ Older(x).status = x.status
  <1>1. CASE x.status = "none" \/ x.age > MaxLifetime
    BY <1>1, Zenon DEF Older
  <1>2. CASE ~(x.status = "none" \/ x.age > MaxLifetime)
    <2>1. x.age + 1 \in 0..MaxLifetime + 1
      BY <1>2, RepairAssumption, SMT DEF RepairAssumption, Intent
    <2> QED BY <1>2, <2>1, Zenon DEF Older, Intent
  <1> QED BY <1>1, <1>2

-----------------------------------------------------------------------------
(* Steps. *)

Held(e) == <<e, "runtime">> \in Backlog \/ e \in abandoned

\* The same fact for one execution at a time.
Safe(e) == e \in over /\ Active(e) /\ row[e].mine => Held(e)

\* NothingForgotten is Safe of every execution while the process is up.
LEMMA ForgottenIsSafe ==
  ASSUME over \subseteq Executions
  PROVE  NothingForgotten <=> (up => \A e \in Executions : Safe(e))
  BY DEF NothingForgotten, Safe, Held

\* A record leaves the slot or keeps its place; it is never handed to a new
\* owner.
Withdraws == \A e \in Executions :
  Active(e)' /\ row'[e].mine => Active(e) /\ row[e].mine

\* A step that settles records and drops nothing forgets nothing.
LEMMA QuietStep ==
  ASSUME RInv, up, over' = over, Withdraws,
         \A e \in Executions : Held(e) => Held(e)' \/ ~Active(e)'
  PROVE  NothingForgotten'
  <1>1. over \subseteq Executions BY DEF RInv, RTypeOK
  <1>2. \A e \in Executions : Safe(e) BY <1>1, ForgottenIsSafe DEF RInv
  <1>3. \A e \in over' : Active(e)' /\ row'[e].mine => Held(e)'
    BY <1>1, <1>2 DEF Safe, Withdraws
  <1> QED BY <1>3 DEF NothingForgotten, Held

\* Inactive stays inactive, so what recovery found converged still is.
LEMMA StillConverged ==
  ASSUME RInv, tracked' = tracked, recovery' = recovery,
         \A e \in Executions : row'[e].rt = "running" => row[e].rt = "running"
  PROVE  ConvergedInactive'
  BY DEF RInv, RTypeOK, ConvergedInactive, Active

\* Storing an outcome of the right kind keeps the records well formed, moves
\* no record into the slot and takes a settled runtime out of it.
LEMMA SettleStep ==
  ASSUME RInv, NEW k \in Keys, NEW x, Settle(k, x),
         k[2] = "runtime" => x.status \in Outcomes,
         k[2] = "delivery" => x.status \in {"delivered", "failed", "unknown"}
  PROVE  /\ row' \in [Executions -> RowType]
         /\ Withdraws
         /\ \A e \in Executions : row'[e].rt = "running" => row[e].rt = "running"
         /\ k[2] = "runtime" => ~Active(k[1])'
  <1> DEFINE e == k[1]
  <1>1. e \in Executions /\ row \in [Executions -> RowType] /\ row[e] \in RowType
        /\ k[2] \in {"runtime", "delivery"}
    BY DEF RInv, RTypeOK, Keys, Kinds
  <1>2. CASE k[2] = "runtime"
    <2>1. row' = [row EXCEPT ![e] = Ended(row[e], x.status)] BY <1>2 DEF Settle
    <2>2. Ended(row[e], x.status) \in RowType /\ Ended(row[e], x.status).rt # "running"
      BY <1>1, <1>2, EndedRow DEF Outcomes
    <2> QED BY <1>1, <1>2, <2>1, <2>2 DEF Withdraws, Active
  <1>3. CASE k[2] = "delivery"
    <2>1. row' = [row EXCEPT ![e] = Delivered(row[e], x.status)] BY <1>3 DEF Settle
    <2>2. /\ Delivered(row[e], x.status) \in RowType
          /\ Delivered(row[e], x.status).rt = row[e].rt
          /\ Delivered(row[e], x.status).mine = row[e].mine
      BY <1>1, <1>3, DeliveredRow
    <2> QED BY <1>1, <1>3, <2>1, <2>2 DEF Withdraws, Active
  <1> QED BY <1>1, <1>2, <1>3

\* Enqueue keeps the repairer well formed, and the execution it is about is
\* held afterwards; no other execution is let go.
LEMMA EnqueueStep ==
  ASSUME RInv, NEW k \in Keys, NEW x \in Intent, Enqueue(k, x), x.status # "none",
         k[2] = "runtime" => x.status \in Outcomes,
         k[2] = "delivery" => x.status \in {"delivered", "failed", "unknown"}
  PROVE  /\ intents' \in [Keys -> Intent] /\ due' = due
         /\ kept' \subseteq Keys /\ abandoned' \subseteq Executions
         /\ IntentsFit'
         /\ \A e \in Executions : Held(e) => Held(e)'
         /\ k[2] = "runtime" => Held(k[1])'
  <1>1. /\ k[1] \in Executions /\ k = <<k[1], k[2]>> /\ k[2] \in {"runtime", "delivery"}
        /\ intents \in [Keys -> Intent] /\ due \in [Keys -> Intent]
        /\ kept \subseteq Keys /\ abandoned \subseteq Executions /\ IntentsFit
        /\ \A e \in Executions : <<e, "runtime">> \in Keys
    BY DEF RInv, RTypeOK, Keys, Kinds
  <1>2. ~IsMoreTerminal(k, x)
    BY <1>1 DEF IsMoreTerminal, Outcomes
  <1>3. CASE k \notin Backlog /\ GiveUp({k}) /\ UNCHANGED <<intents, due, kept>>
    <2>1. Backlog' = Backlog BY <1>3 DEF Backlog
    <2>2. abandoned \subseteq abandoned' /\ (k[2] = "runtime" => k[1] \in abandoned')
      BY <1>1, <1>3 DEF GiveUp
    <2>3. abandoned' \subseteq Executions BY <1>1, <1>3 DEF GiveUp
    <2>4. IntentsFit' BY <1>1, <1>3 DEF IntentsFit
    <2> QED BY <1>1, <1>3, <2>1, <2>2, <2>3, <2>4 DEF Held
  <1>4. CASE /\ abandoned' = IF k[2] = "runtime" THEN abandoned \ {k[1]} ELSE abandoned
             /\ intents' = [intents EXCEPT ![k] = x]
             /\ kept' = kept \ {k}
             /\ UNCHANGED due
    <2>1. intents' \in [Keys -> Intent] BY <1>1, <1>4
    <2>2. Backlog \subseteq Backlog' /\ k \in Backlog'
      BY <1>1, <1>4 DEF Backlog
    <2>3. \A j \in Keys : intents'[j].status \in {intents[j].status} \/ (j = k /\ intents'[j].status = x.status)
      BY <1>1, <1>4
    <2>4. IntentsFit' BY <1>1, <1>4, <2>3 DEF IntentsFit
    <2>5. \A e \in Executions : Held(e) => Held(e)'
      BY <1>1, <1>4, <2>2 DEF Held
    <2>6. k[2] = "runtime" => Held(k[1])'
      BY <1>1, <2>2 DEF Held
    <2> QED BY <1>1, <1>4, <2>1, <2>4, <2>5, <2>6
  <1> QED BY <1>2, <1>3, <1>4 DEF Enqueue

\* One terminal write, whichever way it goes.
LEMMA WriteStep ==
  ASSUME RInv, NEW k \in Keys, NEW x \in Intent, Write(k, x), x.status # "none",
         k[2] = "runtime" => x.status \in Outcomes,
         k[2] = "delivery" => x.status \in {"delivered", "failed", "unknown"}
  PROVE  /\ row' \in [Executions -> RowType]
         /\ intents' \in [Keys -> Intent] /\ due' = due
         /\ kept' \subseteq Keys /\ abandoned' \subseteq Executions
         /\ IntentsFit' /\ Withdraws
         /\ \A e \in Executions : row'[e].rt = "running" => row[e].rt = "running"
         /\ \A e \in Executions : Held(e) => Held(e)'
         /\ k[2] = "runtime" => Held(k[1])' \/ ~Active(k[1])'
         /\ woken' \subseteq Executions
  <1>0. k[1] \in Executions /\ woken \subseteq Executions BY DEF Keys, RInv, RTypeOK
  <1>1. CASE Settle(k, x) /\ Wake(k, x) /\ UNCHANGED repairer
    <2>1. UNCHANGED <<intents, due, kept, abandoned>> BY <1>1 DEF repairer
    <2>2. IntentsFit' BY <2>1 DEF RInv, IntentsFit
    <2>3. \A e \in Executions : Held(e) => Held(e)' BY <2>1 DEF Held, Backlog
    <2>4. woken' \subseteq Executions BY <1>0, <1>1 DEF Wake
    <2> QED BY <1>1, <2>1, <2>2, <2>3, <2>4, SettleStep DEF RInv, RTypeOK
  <1>2. CASE Enqueue(k, x) /\ UNCHANGED <<row, woken>>
    <2>1. Withdraws BY <1>2 DEF Withdraws, Active
    <2> QED BY <1>0, <1>2, <2>1, EnqueueStep DEF RInv, RTypeOK
  <1> QED BY <1>1, <1>2 DEF Write

\* A report about the runtime: Done, stop, or an input that was not sent.
LEMMA ReportStep ==
  ASSUME RInv, NEW e \in Executions, NEW st \in Outcomes, NEW m \in BOOLEAN, NEW sd \in BOOLEAN, NEW ended \in BOOLEAN,
         CanReport(e), Write(<<e, "runtime">>, NewIntent(st, m, sd)), Report(e, ended),
         silent' \in {silent, silent \cup {e}}
  PROVE  RInv'
  <1> DEFINE k == <<e, "runtime">>
             x == NewIntent(st, m, sd)
  <1>1. k \in Keys /\ k[2] = "runtime" /\ k[1] = e BY DEF Keys, Kinds
  <1>2. x \in Intent /\ x.status = st /\ x.status # "none" /\ x.status \in Outcomes
    BY Intents DEF Outcomes
  <1>3. Write(k, x) OBVIOUS
  <1> HIDE DEF k, x
  <1>4. /\ row' \in [Executions -> RowType]
        /\ intents' \in [Keys -> Intent] /\ due' = due
        /\ kept' \subseteq Keys /\ abandoned' \subseteq Executions
        /\ IntentsFit' /\ Withdraws
        /\ \A d \in Executions : row'[d].rt = "running" => row[d].rt = "running"
        /\ \A d \in Executions : Held(d) => Held(d)'
        /\ Held(e)' \/ ~Active(e)'
        /\ woken' \subseteq Executions
    BY <1>1, <1>2, <1>3, WriteStep
  <1>5. /\ UNCHANGED <<up, restarts, excluded, tracked, recovery, missed, told>>
        /\ reports' = [reports EXCEPT ![e] = @ + 1]
        /\ over' \subseteq over \cup {e}
    BY DEF Report, leases
  <1>6. reports' \in [Executions -> 0..MaxReports]
    BY <1>5, RepairAssumption DEF RInv, RTypeOK, CanReport, RepairAssumption
  <1>7. RTypeOK' BY <1>4, <1>5, <1>6 DEF RInv, RTypeOK
  <1>8. ConvergedInactive' BY <1>4, <1>5, StillConverged
  <1>9. DownBelow' BY <1>5 DEF RInv, DownBelow
  <1>10. up /\ over \subseteq Executions BY DEF CanReport, RInv, RTypeOK
  <1>11. \A d \in Executions : Safe(d) BY <1>10, ForgottenIsSafe DEF RInv
  <1>12. \A d \in over' : Active(d)' /\ row'[d].mine => Held(d)'
    BY <1>4, <1>5, <1>10, <1>11 DEF Safe, Withdraws
  <1>13. NothingForgotten' BY <1>12 DEF NothingForgotten, Held
  <1> QED BY <1>4, <1>7, <1>8, <1>9, <1>13 DEF RInv

\* A report that fails on the lookup touches no record and no intent.
LEMMA LookupStep ==
  ASSUME RInv, NEW e \in Executions, LookupFails(e)
  PROVE  RInv'
  <1>1. /\ UNCHANGED <<row, up, restarts, intents, due, kept, abandoned, excluded, tracked, recovery, over, told, woken, silent>>
        /\ reports' = [reports EXCEPT ![e] = @ + 1]
        /\ missed' = missed \cup {e} /\ reports[e] < MaxReports
    BY DEF LookupFails, repairer, leases, CanReport
  <1>2. reports' \in [Executions -> 0..MaxReports]
    BY <1>1, RepairAssumption DEF RInv, RTypeOK, RepairAssumption
  <1>3. RTypeOK' BY <1>1, <1>2 DEF RInv, RTypeOK
  <1>4. IntentsFit' /\ ConvergedInactive' /\ DownBelow'
    BY <1>1 DEF RInv, IntentsFit, ConvergedInactive, DownBelow, Active
  <1>5. NothingForgotten' BY <1>1 DEF RInv, NothingForgotten, Backlog, Active
  <1> QED BY <1>3, <1>4, <1>5 DEF RInv

\* The outcome of a delivery.
LEMMA DeliveryStep ==
  ASSUME RInv, NEW e \in Executions, NEW st \in {"delivered", "failed", "unknown"}, DeliveryOutcome(e, st)
  PROVE  RInv'
  <1> DEFINE k == <<e, "delivery">>
             x == NewIntent(st, TRUE, FALSE)
  <1>1. k \in Keys /\ k[2] = "delivery" /\ k[1] = e BY DEF Keys, Kinds
  <1>2. x \in Intent /\ x.status = st /\ x.status # "none" /\ x.status \in {"delivered", "failed", "unknown"}
    BY Intents DEF Outcomes
  <1>3. Write(k, x) BY DEF DeliveryOutcome
  <1> HIDE DEF k, x
  <1>4. /\ row' \in [Executions -> RowType]
        /\ intents' \in [Keys -> Intent] /\ due' = due
        /\ kept' \subseteq Keys /\ abandoned' \subseteq Executions
        /\ IntentsFit' /\ Withdraws
        /\ \A d \in Executions : row'[d].rt = "running" => row[d].rt = "running"
        /\ \A d \in Executions : Held(d) => Held(d)'
        /\ woken' \subseteq Executions
    BY <1>1, <1>2, <1>3, WriteStep
  <1>5. /\ up /\ UNCHANGED <<up, restarts, excluded, tracked, recovery, reports, over, missed, silent>>
        /\ told' = told \cup {e}
    BY DEF DeliveryOutcome, leases
  <1>6. RTypeOK' BY <1>4, <1>5 DEF RInv, RTypeOK
  <1>7. ConvergedInactive' BY <1>4, <1>5, StillConverged
  <1>8. DownBelow' BY <1>5 DEF RInv, DownBelow
  <1>9. NothingForgotten' BY <1>4, <1>5, QuietStep
  <1> QED BY <1>4, <1>6, <1>7, <1>8, <1>9 DEF RInv

\* processDue: what it drops is excluded from renewal in the same step.
LEMMA ProcessDueStep ==
  ASSUME RInv, NEW ks \in SUBSET Keys, ProcessDue(ks)
  PROVE  RInv'
  <1>1. /\ up /\ UNCHANGED <<row, up, restarts, excluded, tracked, recovery, reports, over, missed, told, woken, silent>>
        /\ intents' = [k \in Keys |-> IF k \in Expired THEN Absent ELSE intents[k]]
        /\ due' = [k \in Keys |-> IF k \in ks THEN intents[k] ELSE Absent]
        /\ kept' = ks
        /\ abandoned' = abandoned \cup {e \in Executions : <<e, "runtime">> \in Expired}
    BY DEF ProcessDue, GiveUp, leases, history
  <1>2. /\ intents \in [Keys -> Intent] /\ IntentsFit
        /\ \A e \in Executions : <<e, "runtime">> \in Keys
    BY DEF RInv, RTypeOK, Keys, Kinds
  <1>3. intents' \in [Keys -> Intent] /\ due' \in [Keys -> Intent]
    BY <1>1, <1>2, Intents
  <1>4. RTypeOK' BY <1>1, <1>3 DEF RInv, RTypeOK
  <1>5. \A k \in Keys : /\ intents'[k].status \in {intents[k].status, "none"}
                        /\ due'[k].status \in {intents[k].status, "none"}
    BY <1>1, <1>2, Intents
  <1>6. IntentsFit' BY <1>2, <1>5 DEF IntentsFit
  <1>7. ConvergedInactive' /\ DownBelow' BY <1>1 DEF RInv, ConvergedInactive, DownBelow, Active
  <1>8. \A e \in Executions : Held(e) => Held(e)'
    BY <1>1, <1>2 DEF Held, Backlog
  <1>9. Withdraws BY <1>1 DEF Withdraws, Active
  <1>10. NothingForgotten' BY <1>1, <1>8, <1>9, QuietStep
  <1> QED BY <1>4, <1>6, <1>7, <1>10 DEF RInv

\* tryProcess: an intent leaves the map only with its outcome stored.
LEMMA SucceedStep ==
  ASSUME RInv, NEW k \in Keys, AttemptSucceeds(k)
  PROVE  RInv'
  <1>1. /\ up /\ UNCHANGED <<up, restarts, excluded, tracked, recovery, reports, over, missed, told, silent>>
        /\ Settle(k, due[k]) /\ Wake(k, due[k]) /\ due[k].status # "none"
        /\ due' = [due EXCEPT ![k] = Absent]
        /\ kept' = kept \ {k}
        /\ \/ /\ intents' = [intents EXCEPT ![k] = Absent]
              /\ abandoned' = IF k[2] = "runtime" THEN abandoned \ {k[1]} ELSE abandoned
           \/ UNCHANGED <<intents, abandoned>>
    BY DEF AttemptSucceeds, leases, history
  <1>2. /\ intents \in [Keys -> Intent] /\ due \in [Keys -> Intent] /\ IntentsFit
        /\ k[1] \in Executions /\ k = <<k[1], k[2]>> /\ k[2] \in {"runtime", "delivery"}
    BY DEF RInv, RTypeOK, Keys, Kinds
  <1>3. /\ k[2] = "runtime" => due[k].status \in Outcomes
        /\ k[2] = "delivery" => due[k].status \in {"delivered", "failed", "unknown"}
    BY <1>1, <1>2 DEF IntentsFit
  <1>4. /\ row' \in [Executions -> RowType]
        /\ Withdraws
        /\ \A e \in Executions : row'[e].rt = "running" => row[e].rt = "running"
        /\ k[2] = "runtime" => ~Active(k[1])'
    BY <1>1, <1>3, SettleStep
  <1>5. intents' \in [Keys -> Intent] /\ due' \in [Keys -> Intent]
    BY <1>1, <1>2, Intents
  <1>6. RTypeOK'
    <2>1. woken' \subseteq Executions BY <1>1, <1>2 DEF Wake, RInv, RTypeOK
    <2> QED BY <1>1, <1>4, <1>5, <2>1 DEF RInv, RTypeOK
  <1>7. \A j \in Keys : /\ intents'[j].status \in {intents[j].status, "none"}
                        /\ due'[j].status \in {due[j].status, "none"}
    BY <1>1, <1>2, Intents
  <1>8. IntentsFit' BY <1>2, <1>7 DEF IntentsFit
  <1>9. ConvergedInactive' BY <1>1, <1>4, StillConverged
  <1>10. DownBelow' BY <1>1 DEF RInv, DownBelow
  <1>11. \A e \in Executions : Held(e) => Held(e)' \/ ~Active(e)'
    <2> SUFFICES ASSUME NEW e \in Executions, Held(e) PROVE Held(e)' \/ ~Active(e)'
      OBVIOUS
    <2>1. CASE k = <<e, "runtime">> BY <2>1, <1>4
    <2>2. CASE k # <<e, "runtime">> BY <2>2, <1>1, <1>2 DEF Held, Backlog
    <2> QED BY <2>1, <2>2
  <1>12. NothingForgotten' BY <1>1, <1>4, <1>11, QuietStep
  <1> QED BY <1>6, <1>8, <1>9, <1>10, <1>12 DEF RInv

\* A failed attempt changes neither the map nor the record.
LEMMA FailStep ==
  ASSUME RInv, NEW k \in Keys, AttemptFails(k)
  PROVE  RInv'
  <1>1. /\ UNCHANGED <<row, up, restarts, intents, abandoned, excluded, tracked, recovery, reports, over, missed, told, woken, silent>>
        /\ due' = [due EXCEPT ![k] = Absent] /\ kept' = kept \ {k}
    BY DEF AttemptFails, leases, history
  <1>2. due' \in [Keys -> Intent] BY <1>1, Intents DEF RInv, RTypeOK
  <1>3. RTypeOK' BY <1>1, <1>2 DEF RInv, RTypeOK
  <1>4. \A j \in Keys : due'[j].status \in {due[j].status, "none"}
    BY <1>1, Intents DEF RInv, RTypeOK
  <1>5. IntentsFit' BY <1>1, <1>4 DEF RInv, IntentsFit
  <1>6. ConvergedInactive' /\ DownBelow' BY <1>1 DEF RInv, ConvergedInactive, DownBelow, Active
  <1>7. NothingForgotten' BY <1>1 DEF RInv, NothingForgotten, Backlog, Active
  <1> QED BY <1>3, <1>5, <1>6, <1>7 DEF RInv

\* A step that only rewrites records keeps the invariant if every record keeps
\* its shape and none enters the slot.
LEMMA RowsOnlyStep ==
  ASSUME RInv, up,
         UNCHANGED <<up, restarts, intents, due, kept, abandoned, reports, over, missed, told, woken, silent>>,
         row' \in [Executions -> RowType],
         \A e \in Executions : row'[e].rt = "running" => row[e].rt = "running",
         \A e \in Executions : row'[e].mine = row[e].mine,
         excluded' \in (SUBSET Executions) \cup {NotReading},
         tracked' \subseteq Executions, recovery' \in {"idle", "read", "clear"},
         ConvergedInactive'
  PROVE  RInv'
  <1>1. RTypeOK' BY DEF RInv, RTypeOK
  <1>2. IntentsFit' /\ DownBelow' BY DEF RInv, IntentsFit, DownBelow
  <1>3. Withdraws BY DEF Withdraws, Active
  <1>4. \A e \in Executions : Held(e) => Held(e)' BY DEF Held, Backlog
  <1>5. NothingForgotten' BY <1>3, <1>4, QuietStep
  <1> QED BY <1>1, <1>2, <1>5 DEF RInv

\* The lease manager's loops.
LEMMA LeaseStep ==
  ASSUME RInv, ReadExclusions \/ RenewLeases \/ ReadTracked \/ RecoverExpiredLeases \/ RecoveryFails
  PROVE  RInv'
  <1>1. /\ row \in [Executions -> RowType] /\ abandoned \subseteq Executions
        /\ excluded \in (SUBSET Executions) \cup {NotReading}
        /\ tracked \subseteq Executions /\ recovery \in {"idle", "read", "clear"}
        /\ LeaseTTL \in 0..LeaseTTL
    BY RepairAssumption DEF RInv, RTypeOK, RepairAssumption
  <1>2. CASE ReadExclusions
    <2>1. /\ up /\ excluded' = abandoned
          /\ UNCHANGED <<row, up, restarts, intents, due, kept, abandoned, tracked, recovery, reports, over, missed, told, woken, silent>>
      BY <1>2 DEF ReadExclusions, repairer, history
    <2>2. ConvergedInactive' BY <2>1, StillConverged
    <2> QED BY <1>1, <2>1, <2>2, RowsOnlyStep
  <1>3. CASE RenewLeases
    <2>1. /\ up /\ excluded' = NotReading
          /\ UNCHANGED <<up, restarts, intents, due, kept, abandoned, tracked, recovery, reports, over, missed, told, woken, silent>>
      BY <1>3 DEF RenewLeases, repairer, history
    <2>2. \/ row' = [e \in Executions |-> IF Renewable(e) THEN WithLease(row[e], LeaseTTL) ELSE row[e]]
          \/ row' = row
      BY <1>3 DEF RenewLeases
    <2>3. \A e \in Executions : /\ WithLease(row[e], LeaseTTL) \in RowType
                                /\ WithLease(row[e], LeaseTTL).rt = row[e].rt
                                /\ WithLease(row[e], LeaseTTL).mine = row[e].mine
      BY <1>1, LeasedRow
    <2>4. /\ row' \in [Executions -> RowType]
          /\ \A e \in Executions : row'[e].rt = row[e].rt /\ row'[e].mine = row[e].mine
      BY <1>1, <2>2, <2>3
    <2>5. ConvergedInactive' BY <2>1, <2>4, StillConverged
    <2>6. \A e \in Executions : row'[e].rt = "running" => row[e].rt = "running" BY <2>4
    <2>7. excluded' \in (SUBSET Executions) \cup {NotReading} BY <2>1
    <2>8. tracked' \subseteq Executions /\ recovery' \in {"idle", "read", "clear"} BY <1>1, <2>1
    <2> QED BY <2>1, <2>4, <2>5, <2>6, <2>7, <2>8, RowsOnlyStep
  <1>4. CASE ReadTracked
    <2>1. /\ up /\ tracked' = abandoned /\ recovery' = "read"
          /\ UNCHANGED <<row, up, restarts, intents, due, kept, abandoned, excluded, reports, over, missed, told, woken, silent>>
      BY <1>4 DEF ReadTracked, repairer, history
    <2>2. ConvergedInactive' BY <2>1 DEF ConvergedInactive
    <2> QED BY <1>1, <2>1, <2>2, RowsOnlyStep
  <1>5. CASE RecoverExpiredLeases
    <2>1. /\ up /\ tracked' = Converged /\ recovery' = "clear"
          /\ row' = [e \in Executions |-> IF Overdue(e) THEN Fenced(row[e]) ELSE row[e]]
          /\ UNCHANGED <<up, restarts, intents, due, kept, abandoned, excluded, reports, over, missed, told, woken, silent>>
      BY <1>5 DEF RecoverExpiredLeases, repairer, history
    <2>2. \A e \in Executions : Fenced(row[e]) \in RowType /\ Fenced(row[e]).rt = "unknown"
                                /\ Fenced(row[e]).mine = row[e].mine
      BY <1>1, FencedRow
    <2>3. /\ row' \in [Executions -> RowType]
          /\ \A e \in Executions : row'[e].mine = row[e].mine
          /\ \A e \in Executions : row'[e].rt = "running" => row[e].rt = "running" /\ ~Overdue(e)
      BY <1>1, <2>1, <2>2
    <2>4. Converged \subseteq Executions BY <1>1 DEF Converged
    <2>5. ConvergedInactive'
      BY <1>1, <2>1, <2>3, <2>4 DEF ConvergedInactive, Converged, Active
    <2> QED BY <1>1, <2>1, <2>3, <2>4, <2>5, RowsOnlyStep
  <1>6. CASE RecoveryFails
    <2>1. /\ up /\ tracked' = {} /\ recovery' = "idle"
          /\ UNCHANGED <<row, up, restarts, intents, due, kept, abandoned, excluded, reports, over, missed, told, woken, silent>>
      BY <1>6 DEF RecoveryFails, repairer, history
    <2>2. ConvergedInactive' BY <2>1 DEF ConvergedInactive
    <2> QED BY <1>1, <2>1, <2>2, RowsOnlyStep
  <1> QED BY <1>2, <1>3, <1>4, <1>5, <1>6

\* ClearAbandonedExecutionIDs releases only executions that left the slot.
LEMMA ClearStep ==
  ASSUME RInv, ClearAbandoned
  PROVE  RInv'
  <1>1. /\ up /\ recovery = "clear" /\ abandoned' = abandoned \ tracked
        /\ tracked' = {} /\ recovery' = "idle"
        /\ UNCHANGED <<row, up, restarts, intents, due, kept, excluded, reports, over, missed, told, woken, silent>>
    BY DEF ClearAbandoned, history
  <1>2. RTypeOK' BY <1>1 DEF RInv, RTypeOK
  <1>3. IntentsFit' /\ ConvergedInactive' /\ DownBelow'
    BY <1>1 DEF RInv, IntentsFit, ConvergedInactive, DownBelow
  <1>4. \A e \in tracked : ~Active(e) BY <1>1 DEF RInv, ConvergedInactive
  <1>5. \A e \in Executions : Held(e) => Held(e)' \/ ~Active(e)'
    BY <1>1, <1>4 DEF Held, Backlog, Active
  <1>6. Withdraws BY <1>1 DEF Withdraws, Active
  <1>7. NothingForgotten' BY <1>1, <1>5, <1>6, QuietStep
  <1> QED BY <1>2, <1>3, <1>7 DEF RInv

\* A crash or a shutdown: the process forgets, and every record it owned is
\* left to lease recovery.
LEMMA DownStep ==
  ASSUME RInv, Crash \/ Shutdown
  PROVE  RInv'
  <1>1. /\ up' = FALSE /\ restarts < MaxRestarts
        /\ intents' = [k \in Keys |-> Absent] /\ due' = [k \in Keys |-> Absent]
        /\ kept' = {} /\ abandoned' = {}
        /\ excluded' = NotReading /\ tracked' = {} /\ recovery' = "idle"
        /\ UNCHANGED <<restarts, reports, over, missed, told, woken, silent>>
    BY DEF Crash, Shutdown, GoDown, history
  <1>2. row \in [Executions -> RowType] BY DEF RInv, RTypeOK
  <1>3. row' \in [Executions -> RowType]
    <2>1. CASE Crash
      <3>1. \A e \in Executions : Disowned(row[e]) \in RowType BY <1>2, DisownedRow
      <3> QED BY <2>1, <3>1 DEF Crash
    <2>2. CASE Shutdown
      <3>1. \A e \in Executions : Fenced(row[e]) \in RowType BY <1>2, FencedRow
      <3>2. \A e \in Executions : Disowned(row[e]) \in RowType /\ Disowned(Fenced(row[e])) \in RowType
        BY <1>2, <3>1, DisownedRow
      <3> QED BY <2>2, <3>2 DEF Shutdown
    <2> QED BY <2>1, <2>2
  <1>4. intents' \in [Keys -> Intent] /\ due' \in [Keys -> Intent] BY <1>1, Intents
  <1>5. excluded' \in (SUBSET Executions) \cup {NotReading} BY <1>1
  <1>6. RTypeOK' BY <1>1, <1>3, <1>4, <1>5 DEF RInv, RTypeOK
  <1>7. \A k \in Keys : intents'[k].status = "none" /\ due'[k].status = "none"
    BY <1>1, Intents
  <1>8. IntentsFit' BY <1>7 DEF IntentsFit
  <1>9. ConvergedInactive' /\ NothingForgotten' BY <1>1 DEF ConvergedInactive, NothingForgotten
  <1>10. DownBelow' BY <1>1 DEF DownBelow
  <1> QED BY <1>6, <1>8, <1>9, <1>10 DEF RInv

\* While the process is down nothing is owned by it, so a new one starts with
\* nothing to remember.
Unowned == ~up => \A e \in Executions : ~row[e].mine

\* A crash or a shutdown disowns every record.
LEMMA DownUnowned ==
  ASSUME RInv, Crash \/ Shutdown
  PROVE  Unowned'
  <1>1. row \in [Executions -> RowType] BY DEF RInv, RTypeOK
  <1>2. \A e \in Executions : /\ Disowned(row[e]).mine = FALSE
                              /\ Disowned(Fenced(row[e])).mine = FALSE
    BY <1>1, DisownedRow, FencedRow
  <1>3. CASE Crash BY <1>3, <1>2 DEF Crash, Unowned
  <1>4. CASE Shutdown BY <1>4, <1>2 DEF Shutdown, Unowned
  <1> QED BY <1>3, <1>4

\* A restart finds no record of its own.
LEMMA RestartStep ==
  ASSUME RInv, Unowned, Restart
  PROVE  RInv'
  <1>1. /\ ~up /\ restarts' = restarts + 1
        /\ UNCHANGED <<row, intents, due, kept, abandoned, excluded, tracked, recovery, reports, over, missed, told, woken, silent>>
    BY DEF Restart, repairer, leases, history
  <1>2. up' = TRUE BY DEF Restart
  <1>3. restarts' \in 0..MaxRestarts
    BY <1>1, RepairAssumption DEF RInv, RTypeOK, DownBelow, RepairAssumption
  <1>4. RTypeOK' BY <1>1, <1>2, <1>3 DEF RInv, RTypeOK
  <1>5. IntentsFit' /\ ConvergedInactive' /\ DownBelow'
    BY <1>1, <1>2 DEF RInv, IntentsFit, ConvergedInactive, DownBelow, Active
  <1>6. over \subseteq Executions BY DEF RInv, RTypeOK
  <1>7. NothingForgotten' BY <1>1, <1>6 DEF Unowned, NothingForgotten, Active
  <1> QED BY <1>4, <1>5, <1>7 DEF RInv

\* Time only shortens leases and ages intents.
LEMMA TickStep ==
  ASSUME RInv, Tick
  PROVE  RInv'
  <1>1. /\ UNCHANGED <<up, restarts, due, kept, abandoned, excluded, tracked, recovery, reports, over, missed, told, woken, silent>>
        /\ intents' = [k \in Keys |-> Older(intents[k])]
        /\ row' = [e \in Executions |->
             IF Active(e) /\ row[e].lease > 0 THEN WithLease(row[e], row[e].lease - 1) ELSE row[e]]
    BY DEF Tick, leases, history
  <1>2. row \in [Executions -> RowType] /\ intents \in [Keys -> Intent] BY DEF RInv, RTypeOK
  <1>3. \A e \in Executions : row[e].lease \in 0..LeaseTTL BY <1>2 DEF RowType
  <1>4. \A e \in Executions : row[e].lease > 0 => row[e].lease - 1 \in 0..LeaseTTL
    BY <1>3, RepairAssumption DEF RepairAssumption
  <1>5. \A e \in Executions : row[e].lease > 0 =>
          /\ WithLease(row[e], row[e].lease - 1) \in RowType
          /\ WithLease(row[e], row[e].lease - 1).rt = row[e].rt
          /\ WithLease(row[e], row[e].lease - 1).mine = row[e].mine
    BY <1>2, <1>4, LeasedRow
  <1>6. /\ row' \in [Executions -> RowType]
        /\ \A e \in Executions : row'[e].rt = row[e].rt /\ row'[e].mine = row[e].mine
    BY <1>1, <1>2, <1>5
  <1>7. intents' \in [Keys -> Intent] /\ \A k \in Keys : intents'[k].status = intents[k].status
    BY <1>1, <1>2, OlderIntent
  <1>8. RTypeOK' BY <1>1, <1>6, <1>7 DEF RInv, RTypeOK
  <1>9. IntentsFit' BY <1>1, <1>7 DEF RInv, IntentsFit
  <1>10. ConvergedInactive' BY <1>1, <1>6, StillConverged
  <1>11. DownBelow' BY <1>1 DEF RInv, DownBelow
  <1>12. Backlog' = Backlog BY <1>7 DEF Backlog
  <1>13. over \subseteq Executions BY DEF RInv, RTypeOK
  <1>14. NothingForgotten' BY <1>1, <1>6, <1>12, <1>13 DEF RInv, NothingForgotten, Active
  <1> QED BY <1>8, <1>9, <1>10, <1>11, <1>14 DEF RInv

-----------------------------------------------------------------------------
(* Queues behind a released slot. *)

\* The invariant behind ReleaseWakesQueue: an intent that wakes nobody is one of
\* an execution that a stop or a refusal reported, in the map and in the
\* batch that processDue collected.
IntentsWake ==
  \A e \in Executions \ silent :
    /\ intents[<<e, "runtime">>].status # "none" => intents[<<e, "runtime">>].sid
    /\ due[<<e, "runtime">>].status # "none" => due[<<e, "runtime">>].sid

WInv == IntentsWake /\ ReleaseWakesQueue

\* A record that carries a worker's outcome and is owned was there before.
Same(e) == row'[e].rt \in Outcomes /\ row'[e].mine => row[e].rt \in Outcomes /\ row[e].mine

\* A step that stores no outcome and brings no new intent.
LEMMA NoNewOutcome ==
  ASSUME RInv, WInv, woken \subseteq woken', silent \subseteq silent',
         \A e \in Executions : Same(e),
         \A k \in Keys : intents'[k].status # "none" =>
           intents[k].status # "none" /\ intents'[k].sid = intents[k].sid,
         \A k \in Keys : due'[k].status # "none" =>
           \/ due[k].status # "none" /\ due'[k].sid = due[k].sid
           \/ intents[k].status # "none" /\ due'[k].sid = intents[k].sid
  PROVE  WInv'
  <1>1. \A e \in Executions : <<e, "runtime">> \in Keys BY DEF Keys, Kinds
  <1>2. IntentsWake' BY <1>1 DEF WInv, IntentsWake
  <1>3. ReleaseWakesQueue' BY DEF WInv, ReleaseWakesQueue, Same
  <1> QED BY <1>2, <1>3 DEF WInv

\* Storing an outcome: the record of the execution it is about changes, no other
\* one; a delivery outcome leaves every runtime alone.
LEMMA SettledRows ==
  ASSUME RInv, NEW k \in Keys, NEW x, Settle(k, x),
         k[2] = "runtime" => x.status \in Outcomes,
         k[2] = "delivery" => x.status \in {"delivered", "failed", "unknown"}
  PROVE  \A e \in Executions : Same(e) \/ (k = <<e, "runtime">>)
  <1> SUFFICES ASSUME NEW e \in Executions, k # <<e, "runtime">> PROVE Same(e)
    OBVIOUS
  <1>1. /\ k[1] \in Executions /\ k = <<k[1], k[2]>> /\ k[2] \in {"runtime", "delivery"}
        /\ row \in [Executions -> RowType] /\ row[k[1]] \in RowType
    BY DEF Keys, Kinds, RInv, RTypeOK
  <1>2. CASE k[1] # e
    BY <1>1, <1>2 DEF Settle, Same
  <1>3. CASE k[1] = e
    <2>1. k[2] = "delivery" BY <1>1, <1>3
    <2>2. row' = [row EXCEPT ![e] = Delivered(row[e], x.status)] BY <1>3, <2>1 DEF Settle
    <2>3. Delivered(row[e], x.status).rt = row[e].rt /\ Delivered(row[e], x.status).mine = row[e].mine
      BY <1>1, <1>3, <2>1, DeliveredRow
    <2> QED BY <1>1, <1>3, <2>2, <2>3 DEF Same
  <1> QED BY <1>2, <1>3

\* A terminal write by an intent that wakes the queue, or about an execution
\* that is reported silently.
LEMMA WriteWakes ==
  ASSUME RInv, WInv, NEW k \in Keys, NEW x \in Intent, Write(k, x), x.status # "none",
         k[2] = "runtime" => x.status \in Outcomes,
         k[2] = "delivery" => x.status \in {"delivered", "failed", "unknown"},
         silent \subseteq silent',
         k[2] = "runtime" => x.sid \/ k[1] \in silent'
  PROVE  WInv'
  <1>1. /\ k[1] \in Executions /\ k = <<k[1], k[2]>> /\ k[2] \in {"runtime", "delivery"}
        /\ \A e \in Executions : <<e, "runtime">> \in Keys
        /\ intents \in [Keys -> Intent]
    BY DEF Keys, Kinds, RInv, RTypeOK
  <1>2. CASE Settle(k, x) /\ Wake(k, x) /\ UNCHANGED repairer
    <2>1. IntentsWake' BY <1>2 DEF WInv, IntentsWake, repairer
    <2>2. \A e \in Executions : Same(e) \/ (k = <<e, "runtime">>) BY <1>2, SettledRows
    <2>3. woken \subseteq woken' BY <1>2 DEF Wake
    <2>4. ASSUME NEW e \in Executions \ silent', row'[e].rt \in Outcomes, row'[e].mine
          PROVE  e \in woken'
      <3>1. CASE Same(e) BY <2>3, <2>4, <3>1 DEF Same, WInv, ReleaseWakesQueue
      <3>2. CASE k = <<e, "runtime">> BY <1>1, <1>2, <2>4, <3>2 DEF Wake
      <3> QED BY <2>2, <3>1, <3>2
    <2>5. ReleaseWakesQueue' BY <2>4 DEF ReleaseWakesQueue
    <2> QED BY <2>1, <2>5 DEF WInv
  <1>3. CASE Enqueue(k, x) /\ UNCHANGED <<row, woken>>
    <2>1. ReleaseWakesQueue' BY <1>3 DEF WInv, ReleaseWakesQueue
    <2>2. UNCHANGED due /\ (UNCHANGED intents \/ intents' = [intents EXCEPT ![k] = x])
      BY <1>3 DEF Enqueue, repairer
    <2>3. UNCHANGED intents => IntentsWake'
      BY <2>2 DEF WInv, IntentsWake
    <2>4. ASSUME intents' = [intents EXCEPT ![k] = x] PROVE IntentsWake'
      <3> SUFFICES ASSUME NEW e \in Executions \ silent'
                   PROVE  /\ intents'[<<e, "runtime">>].status # "none" => intents'[<<e, "runtime">>].sid
                          /\ due'[<<e, "runtime">>].status # "none" => due'[<<e, "runtime">>].sid
        BY DEF IntentsWake
      <3>1. CASE k = <<e, "runtime">>
        <4>1. x.sid BY <3>1
        <4> QED BY <1>1, <2>2, <2>4, <3>1, <4>1 DEF WInv, IntentsWake
      <3>2. CASE k # <<e, "runtime">>
        <4>1. intents'[<<e, "runtime">>] = intents[<<e, "runtime">>] BY <1>1, <2>4, <3>2
        <4> QED BY <2>2, <4>1 DEF WInv, IntentsWake
      <3> QED BY <3>1, <3>2
    <2> QED BY <2>1, <2>2, <2>3, <2>4 DEF WInv
  <1> QED BY <1>2, <1>3 DEF Write

\* tryProcess wakes the queue for every outcome it stores, also for an intent
\* that a newer one has replaced in the map.
LEMMA SucceedWakes ==
  ASSUME RInv, WInv, NEW k \in Keys, AttemptSucceeds(k)
  PROVE  WInv'
  <1>1. /\ UNCHANGED silent /\ Settle(k, due[k]) /\ Wake(k, due[k]) /\ due[k].status # "none"
        /\ due' = [due EXCEPT ![k] = Absent]
        /\ intents' \in {intents, [intents EXCEPT ![k] = Absent]}
    BY DEF AttemptSucceeds
  <1>2. /\ intents \in [Keys -> Intent] /\ due \in [Keys -> Intent] /\ IntentsFit
        /\ k[1] \in Executions /\ k = <<k[1], k[2]>> /\ k[2] \in {"runtime", "delivery"}
        /\ \A e \in Executions : <<e, "runtime">> \in Keys
    BY DEF RInv, RTypeOK, Keys, Kinds
  <1>3. /\ k[2] = "runtime" => due[k].status \in Outcomes
        /\ k[2] = "delivery" => due[k].status \in {"delivered", "failed", "unknown"}
    BY <1>1, <1>2 DEF IntentsFit
  <1>4. \A e \in Executions : Same(e) \/ (k = <<e, "runtime">>) BY <1>1, <1>3, SettledRows
  <1>5. woken \subseteq woken' BY <1>1 DEF Wake
  <1>6. IntentsWake' BY <1>1, <1>2, Intents DEF WInv, IntentsWake
  <1>7. ASSUME NEW e \in Executions \ silent, row'[e].rt \in Outcomes, row'[e].mine
        PROVE  e \in woken'
    <2>1. CASE Same(e) BY <1>5, <1>7, <2>1 DEF Same, WInv, ReleaseWakesQueue
    <2>2. CASE k = <<e, "runtime">>
      <3>1. due[k].sid BY <1>1, <1>7, <2>2 DEF WInv, IntentsWake
      <3> QED BY <1>1, <2>2, <3>1 DEF Wake
    <2> QED BY <1>4, <2>1, <2>2
  <1>8. ReleaseWakesQueue' BY <1>1, <1>7 DEF ReleaseWakesQueue
  <1> QED BY <1>6, <1>8 DEF WInv

\* A lease renewed, a record fenced or disowned carries no new outcome.
LEMMA RecordsWake ==
  ASSUME RInv, WInv, UNCHANGED <<woken, silent>>,
         \A e \in Executions : Same(e),
         \A k \in Keys : intents'[k].status # "none" =>
           intents[k].status # "none" /\ intents'[k].sid = intents[k].sid,
         due' = due \/ \A k \in Keys : due'[k].status = "none"
  PROVE  WInv'
  <1>1. \A k \in Keys : due'[k].status # "none" => due[k].status # "none" /\ due'[k].sid = due[k].sid
    OBVIOUS
  <1> QED BY <1>1, NoNewOutcome

\* Every step keeps it.
LEMMA WakeNext == RInv /\ WInv /\ [Next]_vars => WInv'
  <1> SUFFICES ASSUME RInv, WInv, [Next]_vars PROVE WInv' OBVIOUS
  <1>1. /\ row \in [Executions -> RowType] /\ intents \in [Keys -> Intent] /\ due \in [Keys -> Intent]
        /\ \A e \in Executions : <<e, "runtime">> \in Keys /\ <<e, "delivery">> \in Keys
    BY DEF RInv, RTypeOK, Keys, Kinds
  <1>2. ASSUME NEW e \in Executions, NEW st \in Ends, Done(e, st) PROVE WInv'
    <2> DEFINE x == NewIntent(st, TRUE, TRUE)
    <2>1. st \in Outcomes BY RepairAssumption DEF RepairAssumption, Outcomes
    <2>2. x \in Intent /\ x.status \in Outcomes /\ x.status # "none" /\ x.sid
      BY <2>1, Intents DEF Outcomes
    <2>3. Write(<<e, "runtime">>, x) /\ UNCHANGED silent BY <1>2 DEF Done
    <2> HIDE DEF x
    <2> QED BY <1>1, <2>2, <2>3, WriteWakes
  <1>3. ASSUME NEW e \in Executions, NEW m \in BOOLEAN, Stop(e, m) \/ Undispatched(e) PROVE WInv'
    <2>1. PICK w \in BOOLEAN : Write(<<e, "runtime">>, NewIntent("failed", w, FALSE))
      BY <1>3 DEF Stop, Undispatched
    <2> DEFINE x == NewIntent("failed", w, FALSE)
    <2>2. x \in Intent /\ x.status = "failed"
      BY <2>1, Intents DEF Outcomes
    <2>3. Write(<<e, "runtime">>, x) /\ silent' = silent \cup {e}
      BY <1>3, <2>1 DEF Stop, Undispatched
    <2> HIDE DEF x
    <2>4. x.status \in Outcomes /\ x.status # "none" BY <2>2 DEF Outcomes
    <2> QED BY <1>1, <2>2, <2>3, <2>4, WriteWakes
  <1>4. ASSUME NEW e \in Executions, NEW st \in Deliveries, DeliveryOutcome(e, st) PROVE WInv'
    <2> DEFINE x == NewIntent(st, TRUE, FALSE)
    <2>1. st \in {"delivered", "failed", "unknown"} BY RepairAssumption DEF RepairAssumption
    <2>2. x \in Intent /\ x.status \in {"delivered", "failed", "unknown"} /\ x.status # "none"
      BY <2>1, Intents DEF Outcomes
    <2>3. Write(<<e, "delivery">>, x) /\ UNCHANGED silent BY <1>4 DEF DeliveryOutcome
    <2> HIDE DEF x
    <2> QED BY <1>1, <2>2, <2>3, WriteWakes
  <1>5. ASSUME NEW e \in Executions, LookupFails(e) PROVE WInv'
    BY <1>5, RecordsWake DEF LookupFails, repairer, Same
  <1>6. ASSUME NEW ks \in SUBSET Keys, ProcessDue(ks) PROVE WInv'
    <2>1. /\ UNCHANGED <<row, woken, silent>>
          /\ intents' = [k \in Keys |-> IF k \in Expired THEN Absent ELSE intents[k]]
          /\ due' = [k \in Keys |-> IF k \in ks THEN intents[k] ELSE Absent]
      BY <1>6 DEF ProcessDue, history
    <2>2. \A k \in Keys : intents'[k].status # "none" =>
            intents[k].status # "none" /\ intents'[k].sid = intents[k].sid
      BY <2>1, Intents
    <2>3. \A k \in Keys : due'[k].status # "none" =>
            intents[k].status # "none" /\ due'[k].sid = intents[k].sid
      BY <2>1, Intents
    <2>4. \A e \in Executions : Same(e) BY <2>1 DEF Same
    <2> QED BY <2>1, <2>2, <2>3, <2>4, NoNewOutcome
  <1>7. ASSUME NEW k \in Keys, AttemptSucceeds(k) PROVE WInv'
    BY <1>7, SucceedWakes
  <1>8. ASSUME NEW k \in Keys, AttemptFails(k) PROVE WInv'
    <2>1. UNCHANGED <<row, intents, woken, silent>> /\ due' = [due EXCEPT ![k] = Absent]
      BY <1>8 DEF AttemptFails, history
    <2>2. \A j \in Keys : due'[j].status # "none" => due[j].status # "none" /\ due'[j].sid = due[j].sid
      BY <1>1, <2>1, Intents
    <2>3. \A e \in Executions : Same(e) BY <2>1 DEF Same
    <2> QED BY <2>1, <2>2, <2>3, NoNewOutcome
  <1>9. CASE ReadExclusions \/ ReadTracked \/ RecoveryFails \/ ClearAbandoned \/ Restart
    <2>1. UNCHANGED <<row, intents, due, woken, silent>>
      BY <1>9 DEF ReadExclusions, ReadTracked, RecoveryFails, ClearAbandoned, Restart, repairer, history
    <2> QED BY <2>1, RecordsWake DEF Same
  <1>10. CASE RenewLeases
    <2>1. LeaseTTL \in 0..LeaseTTL BY RepairAssumption DEF RepairAssumption
    <2>2. \A e \in Executions : Same(e) BY <1>1, <1>10, <2>1, LeasedRow DEF RenewLeases, Same
    <2>3. UNCHANGED <<intents, due, woken, silent>> BY <1>10 DEF RenewLeases, repairer, history
    <2> QED BY <2>2, <2>3, RecordsWake
  <1>11. CASE RecoverExpiredLeases
    <2>1. \A e \in Executions : Same(e)
      BY <1>1, <1>11, FencedRow DEF RecoverExpiredLeases, Same, Outcomes
    <2>2. UNCHANGED <<intents, due, woken, silent>> BY <1>11 DEF RecoverExpiredLeases, repairer, history
    <2> QED BY <2>1, <2>2, RecordsWake
  <1>12. CASE Crash \/ Shutdown
    <2>1. \A e \in Executions : Disowned(row[e]).mine = FALSE /\ Disowned(Fenced(row[e])).mine = FALSE
      BY <1>1, DisownedRow, FencedRow
    <2>2. \A e \in Executions : row'[e].mine = FALSE BY <1>12, <2>1 DEF Crash, Shutdown
    <2>3. \A e \in Executions : Same(e) BY <2>2 DEF Same
    <2>4. \A k \in Keys : intents'[k].status = "none" /\ due'[k].status = "none"
      BY <1>12, Intents DEF Crash, Shutdown, GoDown
    <2>5. UNCHANGED <<woken, silent>> BY <1>12 DEF Crash, Shutdown, GoDown, history
    <2> QED BY <2>3, <2>4, <2>5, RecordsWake
  <1>13. CASE Tick
    <2>1. \A e \in Executions : row'[e].rt = row[e].rt /\ row'[e].mine = row[e].mine
      <3>1. \A e \in Executions : row[e] \in RowType /\ row[e].lease \in 0..LeaseTTL
        BY <1>1 DEF RowType
      <3>2. \A e \in Executions : row[e].lease > 0 => row[e].lease - 1 \in 0..LeaseTTL
        BY <3>1, RepairAssumption DEF RepairAssumption
      <3> QED BY <1>13, <3>1, <3>2, LeasedRow DEF Tick
    <2>2. UNCHANGED <<due, woken, silent>> /\ intents' = [k \in Keys |-> Older(intents[k])]
      BY <1>13 DEF Tick, history
    <2>3. \A k \in Keys : Older(intents[k]).status = intents[k].status /\ Older(intents[k]).sid = intents[k].sid
      BY <1>1, OlderIntent DEF Older, Intent
    <2>4. \A e \in Executions : Same(e) BY <2>1 DEF Same
    <2>5. \A k \in Keys : intents'[k].status # "none" =>
            intents[k].status # "none" /\ intents'[k].sid = intents[k].sid
      BY <2>2, <2>3
    <2> QED BY <2>2, <2>4, <2>5, RecordsWake
  <1>14. CASE UNCHANGED vars
    BY <1>14, RecordsWake DEF vars, repairer, history, Same
  <1> QED BY <1>2, <1>3, <1>4, <1>5, <1>6, <1>7, <1>8, <1>9, <1>10, <1>11, <1>12, <1>13, <1>14 DEF Next

-----------------------------------------------------------------------------
(* The theorems. *)

\* The initial state: everything active, owned and held by nobody.
LEMMA RepairInit == Init => RInv /\ Unowned
  <1> SUFFICES ASSUME Init PROVE RInv /\ Unowned OBVIOUS
  <1>1. /\ LeaseTTL \in 0..LeaseTTL /\ 0 \in 0..MaxReports /\ 0 \in 0..MaxRestarts
    BY RepairAssumption DEF RepairAssumption
  <1>2. [rt |-> "running", st |-> "accepted", mine |-> TRUE, lease |-> LeaseTTL] \in RowType
    BY <1>1, Zenon DEF RowType
  <1>3. row \in [Executions -> RowType] BY <1>2 DEF Init
  <1>4. /\ intents \in [Keys -> Intent] /\ due \in [Keys -> Intent]
        /\ \A k \in Keys : intents[k].status = "none" /\ due[k].status = "none"
    BY Intents DEF Init
  <1>5. RTypeOK BY <1>1, <1>3, <1>4 DEF Init, RTypeOK
  <1>6. IntentsFit BY <1>4 DEF IntentsFit
  <1>7. ConvergedInactive /\ DownBelow /\ NothingForgotten /\ Unowned
    BY DEF Init, ConvergedInactive, DownBelow, NothingForgotten, Unowned
  <1> QED BY <1>5, <1>6, <1>7 DEF RInv

\* Every step keeps the invariant.
LEMMA RepairNext == RInv /\ Unowned /\ [Next]_vars => RInv' /\ Unowned'
  <1> SUFFICES ASSUME RInv, Unowned, [Next]_vars PROVE RInv' /\ Unowned' OBVIOUS
  <1>1. ASSUME NEW e \in Executions, NEW st \in Ends, Done(e, st) PROVE RInv' /\ up /\ up'
    <2>1. st \in Outcomes BY RepairAssumption DEF RepairAssumption, Outcomes
    <2>2. RInv' BY <1>1, <2>1, ReportStep DEF Done
    <2> QED BY <1>1, <2>2 DEF Done, CanReport, Report
  <1>2. ASSUME NEW e \in Executions, NEW m \in BOOLEAN, Stop(e, m) PROVE RInv' /\ up /\ up'
    <2>1. "failed" \in Outcomes BY DEF Outcomes
    <2>2. RInv' BY <1>2, <2>1, ReportStep DEF Stop
    <2> QED BY <1>2, <2>2 DEF Stop, CanReport, Report
  <1>3. ASSUME NEW e \in Executions, Undispatched(e) PROVE RInv' /\ up /\ up'
    <2>1. "failed" \in Outcomes BY DEF Outcomes
    <2>2. RInv' BY <1>3, <2>1, ReportStep DEF Undispatched
    <2> QED BY <1>3, <2>2 DEF Undispatched, CanReport, Report
  <1>4. ASSUME NEW e \in Executions, LookupFails(e) PROVE RInv' /\ up /\ up'
    BY <1>4, LookupStep DEF LookupFails, CanReport
  <1>5. ASSUME NEW e \in Executions, NEW st \in Deliveries, DeliveryOutcome(e, st) PROVE RInv' /\ up /\ up'
    <2>1. st \in {"delivered", "failed", "unknown"} BY RepairAssumption DEF RepairAssumption
    <2> QED BY <1>5, <2>1, DeliveryStep DEF DeliveryOutcome
  <1>6. ASSUME NEW ks \in SUBSET Keys, ProcessDue(ks) PROVE RInv' /\ up /\ up'
    BY <1>6, ProcessDueStep DEF ProcessDue
  <1>7. ASSUME NEW k \in Keys, AttemptSucceeds(k) PROVE RInv' /\ up /\ up'
    BY <1>7, SucceedStep DEF AttemptSucceeds
  <1>8. ASSUME NEW k \in Keys, AttemptFails(k) PROVE RInv' /\ up /\ up'
    BY <1>8, FailStep DEF AttemptFails
  <1>9. CASE ReadExclusions \/ RenewLeases \/ ReadTracked \/ RecoverExpiredLeases \/ RecoveryFails
    <2>1. up' BY <1>9 DEF ReadExclusions, RenewLeases, ReadTracked, RecoverExpiredLeases, RecoveryFails
    <2> QED BY <1>9, <2>1, LeaseStep DEF Unowned
  <1>10. CASE ClearAbandoned
    BY <1>10, ClearStep DEF ClearAbandoned, Unowned
  <1>11. CASE Crash \/ Shutdown
    BY <1>11, DownStep, DownUnowned
  <1>12. CASE Restart
    BY <1>12, RestartStep DEF Restart, Unowned
  <1>13. CASE Tick
    <2>1. \A e \in Executions : row'[e].mine = row[e].mine
      <3>1. \A e \in Executions : row[e] \in RowType /\ row[e].lease \in 0..LeaseTTL
        BY DEF RInv, RTypeOK, RowType
      <3>2. \A e \in Executions : row[e].lease > 0 => row[e].lease - 1 \in 0..LeaseTTL
        BY <3>1, RepairAssumption DEF RepairAssumption
      <3> QED BY <1>13, <3>1, <3>2, LeasedRow DEF Tick
    <2> QED BY <1>13, <2>1, TickStep DEF Tick, Unowned
  <1>14. CASE UNCHANGED vars
    <2>1. UNCHANGED <<row, up, restarts, intents, due, kept, abandoned, excluded, tracked, recovery,
                      reports, over, missed, told, woken, silent>>
      BY <1>14 DEF vars, repairer, leases, history
    <2>2. RTypeOK' /\ IntentsFit' /\ ConvergedInactive' /\ DownBelow'
      BY <2>1 DEF RInv, RTypeOK, IntentsFit, ConvergedInactive, DownBelow, Active
    <2>3. NothingForgotten' BY <2>1 DEF RInv, NothingForgotten, Backlog, Active
    <2>4. Unowned' BY <2>1 DEF Unowned
    <2> QED BY <2>2, <2>3, <2>4 DEF RInv
  <1>15. up /\ up' => Unowned' BY DEF Unowned
  <1> QED BY <1>1, <1>2, <1>3, <1>4, <1>5, <1>6, <1>7, <1>8, <1>9, <1>10, <1>11, <1>12, <1>13,
             <1>14, <1>15 DEF Next

\* Every variable of the repairer and the lease manager keeps its type.
THEOREM RepairTypeCorrect == Spec => []RTypeOK
  <1>1. RInv => RTypeOK BY DEF RInv
  <1> QED BY <1>1, RepairInit, RepairNext, PTL DEF Spec

\* No outcome that the gateway tried to store is ever forgotten: while the
\* execution is still active and owned, the repairer holds the outcome or lease
\* renewal leaves the execution out.
THEOREM OutcomesRemembered == Spec => []NothingForgotten
  <1>1. RInv => NothingForgotten BY DEF RInv
  <1> QED BY <1>1, RepairInit, RepairNext, PTL DEF Spec

\* The queue of a session is woken for every outcome of a Done that its gateway
\* stored, at once or by repair, for any number of failed attempts and of
\* intents that replaced each other.
THEOREM ReleaseIsNotSilent == Spec => []ReleaseWakesQueue
  <1>1. Init => WInv
    <2>1. \A e \in Executions : <<e, "runtime">> \in Keys BY DEF Keys, Kinds
    <2> QED BY <2>1, Intents DEF Init, WInv, IntentsWake, ReleaseWakesQueue, Outcomes
  <1>2. WInv => ReleaseWakesQueue BY DEF WInv
  <1> QED BY <1>1, <1>2, RepairInit, RepairNext, WakeNext, PTL DEF Spec
=============================================================================
