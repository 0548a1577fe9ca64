------------------------- MODULE EffectLedgerProofs -------------------------
(***************************************************************************)
(* An effect is delivered at most once and never with another text, for    *)
(* any occurrences, targets and contents, any number of senders and        *)
(* attempts, and any crashes.                                              *)
(***************************************************************************)
EXTENDS EffectLedger, TLAPS

(* Records. *)

Pcs == {"idle", "converge", "owed", "due", "pass", "claim", "retry", "claimed", "sent"}
Batch == [on : Effects, status : {"planned", "started"}, attempt : Nat]
Leases == {"none", "live", "lapsed"}
Retries == {"none", "waiting", "due"}

\* The fields of a row, of an attempt and of a sender.
LEMMA RowFields ==
  ASSUME NEW r \in Row
  PROVE  /\ r.status \in Statuses /\ r.attempt \in Nat /\ r.version \in Nat
         /\ r.lease \in Leases /\ r.retry \in Retries
  BY Zenon DEF Row, Leases, Retries

LEMMA SenderFields ==
  ASSUME NEW s \in SenderState
  PROVE  /\ s.pc \in Pcs /\ s.on \in Effects \cup {"none"} /\ s.attempt \in Nat /\ s.token \in Nat
         /\ s.content \in Contents \cup {"none"} /\ s.result \in Results \cup {"none"}
         /\ s.batch \in SUBSET Batch /\ s.pass \in BOOLEAN
  BY Zenon DEF SenderState, Pcs, Batch

\* A row with other values in some fields.
LEMMA RowStatus ==
  ASSUME NEW r \in Row, NEW st \in Statuses
  PROVE  LET x == [r EXCEPT !.status = st] IN
         /\ x \in Row /\ x.status = st /\ x.attempt = r.attempt /\ x.version = r.version
         /\ x.lease = r.lease /\ x.retry = r.retry
  BY Zenon DEF Row

LEMMA RowLease ==
  ASSUME NEW r \in Row, NEW l \in Leases
  PROVE  LET x == [r EXCEPT !.lease = l] IN
         /\ x \in Row /\ x.status = r.status /\ x.attempt = r.attempt
         /\ x.lease = l /\ x.retry = r.retry
  BY Zenon DEF Row, Leases

LEMMA RowRetry ==
  ASSUME NEW r \in Row, NEW y \in Retries
  PROVE  LET x == [r EXCEPT !.retry = y] IN
         /\ x \in Row /\ x.status = r.status /\ x.attempt = r.attempt
         /\ x.lease = r.lease /\ x.retry = y
  BY Zenon DEF Row, Retries

LEMMA RowExpired ==
  ASSUME NEW r \in Row
  PROVE  LET x == Expired(r) IN
         /\ x \in Row /\ x.status = "unknown" /\ x.attempt = r.attempt
         /\ x.lease = "none" /\ x.retry = r.retry
  BY Zenon DEF Row, Expired, Statuses

LEMMA RowLeased ==
  ASSUME NEW r \in Row, NEW n \in Nat
  PROVE  LET x == Leased(r, n) IN
         /\ x \in Row /\ x.status = "started" /\ x.attempt = n
         /\ x.lease = "live" /\ x.retry = "none"
  <1>1. r.version \in Nat BY RowFields
  <1>2. r.version + 1 \in Nat BY <1>1, SMT
  <1>3. "started" \in Statuses BY DEF Statuses
  <1> QED BY <1>2, <1>3, Zenon DEF Row, Leased

\* Senders with other values in some fields.
LEMMA IdleSender == Idle \in SenderState /\ Idle.pc = "idle"
  BY Zenon DEF Idle, SenderState

LEMMA SenderDone ==
  ASSUME NEW s \in SenderState
  PROVE  Done(s) \in SenderState /\ Done(s).pc \in {"idle", "pass"}
  <1> DEFINE x == [Idle EXCEPT !.pc = "pass", !.batch = s.batch, !.pass = TRUE]
  <1>1. s.batch \in SUBSET [on : Effects, status : {"planned", "started"}, attempt : Nat]
    BY Zenon DEF SenderState
  <1>2. x \in SenderState /\ x.pc = "pass" BY <1>1, IdleSender, Zenon DEF SenderState
  <1> QED BY <1>2, IdleSender, Zenon DEF Done

LEMMA SenderSent ==
  ASSUME NEW s \in SenderState, NEW result \in Results
  PROVE  LET x == [s EXCEPT !.pc = "sent", !.result = result] IN
         /\ x \in SenderState /\ x.pc = "sent" /\ x.on = s.on /\ x.content = s.content
         /\ x.result = result
  BY Zenon DEF SenderState

LEMMA SenderConverged ==
  ASSUME NEW s \in SenderState, NEW n \in Nat
  PROVE  LET x == [s EXCEPT !.pc = "claim", !.attempt = n] IN
         /\ x \in SenderState /\ x.pc = "claim" /\ x.on = s.on /\ x.content = s.content
  BY Zenon DEF SenderState

LEMMA SenderListed ==
  ASSUME NEW s \in SenderState, NEW pc \in Pcs, NEW b \in SUBSET Batch
  PROVE  LET x == [s EXCEPT !.pc = pc, !.batch = b] IN x \in SenderState /\ x.pc = pc
  BY Zenon DEF SenderState, Pcs, Batch

LEMMA SenderBatch ==
  ASSUME NEW s \in SenderState, NEW b \in SUBSET Batch
  PROVE  [s EXCEPT !.batch = b] \in SenderState
  BY Zenon DEF SenderState, Batch

LEMMA EffectParts == \A e \in Effects : Occ(e) \in Occurrences
  BY DEF Effects, Occ
-----------------------------------------------------------------------------
(* The invariant.  An effect that may be claimed has no message and no owner; *)
(* a claim takes that away, and only a rejection that its owner recorded      *)
(* gives it back.                                                             *)

Active(p, e) == sender[p].pc \in {"claimed", "sent"} /\ sender[p].on = e

Claimable(e) ==
  \/ effect[e].status = "absent"
  \/ effect[e].retry # "none"
  \/ effect[e].status = "planned" /\ attempts[e][effect[e].attempt].outcome = "none"

EffectOK(e) ==
  /\ effect[e].attempt \in 0..MaxAttempts - 1
  /\ Claimable(e) => messages[e] = {} /\ \A p \in Senders : ~Active(p, e)
  /\ effect[e].retry # "none" => effect[e].status = "started" /\ effect[e].lease = "none"
  /\ effect[e].lease # "none" => effect[e].status = "started"
  /\ effect[e].status \in {"started", "unknown"}
     => attempts[e][effect[e].attempt].outcome # "none"
  /\ effect[e].status = "delivered" => messages[e] # {}
  /\ effect[e].status \in {"planned", "started", "unknown"} => payload[Occ(e)] \in Contents
  /\ \A m \in messages[e] : payload[Occ(e)] \in {m.content, "blank"}
  /\ \A m1, m2 \in messages[e] : m1 = m2

SenderOK(p) ==
  /\ sender[p].pc \in {"converge", "claim", "retry", "claimed", "sent"}
     => /\ sender[p].on \in Effects /\ sender[p].content \in Contents
        /\ payload[Occ(sender[p].on)] \in {sender[p].content, "blank"}
  /\ sender[p].pc = "claimed" => messages[sender[p].on] = {}
  /\ sender[p].pc = "sent" =>
       /\ sender[p].result \in Results
       /\ sender[p].result = "accepted" => messages[sender[p].on] # {}
       /\ sender[p].result \in {"safe_retry", "permanent", "not_sent"}
          => messages[sender[p].on] = {}

OneOwner ==
  \A p, q \in Senders, e \in Effects : Active(p, e) /\ Active(q, e) => p = q

EffectsOK == \A e \in Effects : EffectOK(e)
SendersOK == \A p \in Senders : SenderOK(p)
EInv == ETypeOK /\ EffectsOK /\ SendersOK /\ OneOwner

\* What the tables hold at each effect and sender.
LEMMA Tables ==
  ASSUME ETypeOK
  PROVE  /\ \A e \in Effects : effect[e] \in Row
         /\ \A p \in Senders : sender[p] \in SenderState
  BY DEF ETypeOK

\* A sender moves on without owning anything, and nothing else changes.
LEMMA SenderMoves ==
  ASSUME EInv, ETypeOK', NEW p \in Senders,
         \A q \in Senders : q # p => sender'[q] = sender[q],
         sender'[p].pc \notin {"claimed", "sent"}, SenderOK(p)',
         UNCHANGED <<effect, attempts, payload, messages>>
  PROVE  EInv'
  <1>1. \A q \in Senders, e \in Effects : Active(q, e)' => Active(q, e)
    BY DEF Active
  <1>2. EffectsOK' BY <1>1 DEF EInv, EffectsOK, EffectOK, Claimable
  <1>3. SendersOK' BY DEF EInv, SendersOK, SenderOK
  <1>4. OneOwner' BY <1>1 DEF EInv, OneOwner
  <1> QED BY <1>2, <1>3, <1>4 DEF EInv

\* A row and its attempts change, and nothing else.
LEMMA EffectMoves ==
  ASSUME EInv, ETypeOK', NEW e \in Effects,
         \A f \in Effects : f # e => effect'[f] = effect[f] /\ attempts'[f] = attempts[f],
         EffectOK(e)', UNCHANGED <<sender, payload, messages>>
  PROVE  EInv'
  <1>1. EffectsOK' BY DEF EInv, EffectsOK, EffectOK, Claimable, Active
  <1>2. SendersOK' BY DEF EInv, SendersOK, SenderOK
  <1>3. OneOwner' BY DEF EInv, OneOwner, Active
  <1> QED BY <1>1, <1>2, <1>3 DEF EInv
\* The same with the sender's new record given.
LEMMA SenderBecomes ==
  ASSUME EInv, NEW p \in Senders, NEW new \in SenderState,
         sender' = [sender EXCEPT ![p] = new],
         new.pc \notin {"claimed", "sent"},
         new.pc \in {"converge", "claim", "retry"}
         => /\ new.on \in Effects /\ new.content \in Contents
            /\ payload[Occ(new.on)] \in {new.content, "blank"},
         UNCHANGED <<effect, attempts, payload, target, messages>>, crashes' \in Nat
  PROVE  EInv'
  <1>0. ETypeOK BY DEF EInv
  <1>1. ETypeOK' BY <1>0 DEF ETypeOK
  <1>2. sender'[p] = new /\ \A q \in Senders : q # p => sender'[q] = sender[q]
    BY <1>0 DEF ETypeOK
  <1>3. SenderOK(p)' BY <1>2 DEF SenderOK
  <1> QED BY <1>1, <1>2, <1>3, SenderMoves
-----------------------------------------------------------------------------
(* Every action keeps the invariant. *)

LEMMA ConvergeKeeps ==
  ASSUME EInv, NEW p \in Senders, Converge(p)
  PROVE  EInv'
  <1> DEFINE e == sender[p].on
             there == [sender[p] EXCEPT !.pc = "claim", !.attempt = effect[e].attempt]
             new == IF effect[e].status = "planned" THEN there ELSE Idle
  <1>0. ETypeOK /\ SenderOK(p) BY DEF EInv, SendersOK
  <1>1. /\ sender[p] \in SenderState /\ e \in Effects /\ sender[p].content \in Contents
        /\ payload[Occ(e)] \in {sender[p].content, "blank"}
    BY <1>0, Tables DEF Converge, SenderOK
  <1>2. effect[e].attempt \in Nat BY <1>0, <1>1, Tables, RowFields
  <1>3. there \in SenderState /\ there.pc = "claim" /\ there.on = e
        /\ there.content = sender[p].content
    BY <1>1, <1>2, SenderConverged, Zenon
  <1>4. sender' = [sender EXCEPT ![p] = new]
        /\ UNCHANGED <<effect, attempts, payload, target, messages, crashes>>
    BY Zenon DEF Converge
  <1>5. crashes' \in Nat BY <1>0, <1>4 DEF ETypeOK
  <1>6. new = there \/ new = Idle BY Zenon
  <1> HIDE DEF there, new
  <1> QED BY <1>1, <1>3, <1>4, <1>5, <1>6, IdleSender, SenderBecomes

LEMMA ListKeeps ==
  ASSUME EInv, NEW p \in Senders, ListRecoverable(p) \/ ListDueRetries(p)
  PROVE  EInv'
  <1>0. ETypeOK /\ sender[p] \in SenderState BY Tables DEF EInv
  <1>1. ASSUME NEW e \in Effects, effect[e].status \in {"planned", "started"}
        PROVE  Listed(e) \in Batch
    <2>1. effect[e].attempt \in Nat BY <1>0, Tables, RowFields
    <2> QED BY <1>1, <2>1, Zenon DEF Listed, Batch
  <1>2. crashes' \in Nat /\ UNCHANGED <<effect, attempts, payload, target, messages>>
    BY <1>0 DEF ETypeOK, ListRecoverable, ListDueRetries
  <1>3. CASE ListRecoverable(p)
    <2> DEFINE b == {Listed(e) : e \in {f \in Effects : effect[f].status = "planned"}}
               new == [sender[p] EXCEPT !.pc = "due", !.batch = b]
    <2>1. b \in SUBSET Batch BY <1>1
    <2> HIDE DEF b
    <2>2. new \in SenderState /\ new.pc = "due"
      BY <1>0, <2>1, SenderListed, Zenon DEF Pcs
    <2>3. sender' = [sender EXCEPT ![p] = new] BY <1>3, Zenon DEF ListRecoverable, b
    <2> HIDE DEF new
    <2> QED BY <1>2, <2>2, <2>3, SenderBecomes
  <1>4. CASE ListDueRetries(p)
    <2> DEFINE more == {Listed(e) : e \in {f \in Effects : DueRetry(f)}}
               b == sender[p].batch \cup more
               new == [sender[p] EXCEPT !.pc = "pass", !.batch = b]
    <2>1. more \in SUBSET Batch BY <1>1 DEF DueRetry
    <2> HIDE DEF more
    <2>2. b \in SUBSET Batch BY <1>0, <2>1, SenderFields
    <2> HIDE DEF b
    <2>3. new \in SenderState /\ new.pc = "pass"
      BY <1>0, <2>2, SenderListed, Zenon DEF Pcs
    <2>4. sender' = [sender EXCEPT ![p] = new] BY <1>4, Zenon DEF ListDueRetries, b, more
    <2> HIDE DEF new
    <2> QED BY <1>2, <2>3, <2>4, SenderBecomes
  <1> QED BY <1>3, <1>4

LEMMA ResolveKeeps ==
  ASSUME EInv, NEW p \in Senders, NEW b \in sender[p].batch, Resolve(p, b)
  PROVE  EInv'
  <1> DEFINE rest == [sender[p] EXCEPT !.batch = @ \ {b}]
             pc == IF b.status = "planned" THEN "claim" ELSE "retry"
             c == payload[Occ(b.on)]
             there == [rest EXCEPT !.pc = pc, !.on = b.on, !.attempt = b.attempt, !.content = c]
             ok == target[Occ(b.on)] = Revision(b.on) /\ c \in Contents
             new == IF ok THEN there ELSE Done(rest)
  <1>0. ETypeOK /\ sender[p] \in SenderState BY Tables DEF EInv
  <1>1. sender[p].batch \in SUBSET Batch /\ b \in Batch BY <1>0, SenderFields
  <1>2. b.on \in Effects /\ b.attempt \in Nat BY <1>1, Zenon DEF Batch
  <1>3. rest \in SenderState
    <2>1. sender[p].batch \ {b} \in SUBSET Batch BY <1>1
    <2> QED BY <1>0, <2>1, SenderBatch, Zenon
  <1>4. pc \in Pcs /\ pc \in {"claim", "retry"} BY DEF Pcs
  <1>5. sender' = [sender EXCEPT ![p] = new]
        /\ UNCHANGED <<effect, attempts, payload, target, messages, crashes>>
    BY Zenon DEF Resolve
  <1> HIDE DEF rest, pc
  <1>6. CASE ok
    <2>1. there \in SenderState /\ there.pc = pc /\ there.on = b.on /\ there.content = c
      <3>1. c \in Contents BY <1>6
      <3> HIDE DEF c
      <3> QED BY <1>2, <1>3, <1>4, <3>1, Zenon DEF SenderState, Pcs
    <2>2. new = there BY <1>6
    <2> HIDE DEF new, there
    <2> QED BY <1>0, <1>2, <1>4, <1>5, <1>6, <2>1, <2>2, SenderBecomes DEF ETypeOK
  <1>7. CASE ~ok
    <2>1. new = Done(rest) /\ Done(rest) \in SenderState /\ Done(rest).pc \in {"idle", "pass"}
      BY <1>3, <1>7, SenderDone
    <2> HIDE DEF new
    <2> QED BY <1>0, <1>5, <2>1, SenderBecomes DEF ETypeOK
  <1> QED BY <1>6, <1>7

LEMMA RestKeeps ==
  ASSUME EInv, NEW p \in Senders, EndPass(p) \/ Crash(p)
  PROVE  EInv'
  <1>1. ETypeOK BY DEF EInv
  <1>2. crashes' \in Nat /\ sender' = [sender EXCEPT ![p] = Idle]
        /\ UNCHANGED <<effect, attempts, payload, target, messages>>
    BY <1>1 DEF EndPass, Crash, ETypeOK
  <1> QED BY <1>2, IdleSender, SenderBecomes
\* A claim: the effect had no owner and no message, and gets an owner.
LEMMA ClaimTaken ==
  ASSUME EInv, NEW p \in Senders, NEW e \in Effects, NEW n \in 0..MaxAttempts - 1,
         sender[p].on = e, sender[p].pc \in {"claim", "retry"},
         Claimable(e), effect[e].status \in {"planned", "started"},
         effect' = [effect EXCEPT ![e] = Leased(@, n)],
         Open(e, n, effect[e].version + 1),
         sender' = Owner(p, n),
         UNCHANGED <<payload, target, messages, crashes>>
  PROVE  EInv'
  <1> DEFINE row == Leased(effect[e], n)
             k == effect[e].version + 1
             a == [token |-> k, outcome |-> "open"]
             new == [sender[p] EXCEPT !.pc = "claimed", !.attempt = n, !.token = k]
  <1>0. ETypeOK /\ EffectOK(e) /\ SenderOK(p) BY DEF EInv, EffectsOK, SendersOK
  <1>1. effect[e] \in Row /\ sender[p] \in SenderState /\ n \in Nat
    BY <1>0, Tables
  <1>2. k \in Nat
    <2>1. effect[e].version \in Nat BY <1>1, RowFields
    <2> QED BY <2>1, SMT
  <1>3. /\ row \in Row /\ row.status = "started" /\ row.attempt = n
        /\ row.lease = "live" /\ row.retry = "none"
    BY <1>1, RowLeased, Zenon
  <1>4. a \in AttemptRow /\ a.outcome = "open" BY <1>2, Zenon DEF AttemptRow
  <1>5. /\ new \in SenderState /\ new.pc = "claimed" /\ new.on = e
        /\ new.content = sender[p].content
    <2> HIDE DEF k
    <2>1. /\ new \in SenderState /\ new.pc = "claimed" /\ new.on = sender[p].on
          /\ new.content = sender[p].content
      BY <1>1, <1>2, Zenon DEF SenderState
    <2> HIDE DEF new
    <2> QED BY <2>1
  <1>6. effect' = [effect EXCEPT ![e] = row] BY Zenon
  <1>7. attempts' = [attempts EXCEPT ![e] = [attempts[e] EXCEPT ![n] = a]]
    BY Zenon DEF Open
  <1>8. sender' = [sender EXCEPT ![p] = new] BY Zenon DEF Owner
  <1> HIDE DEF row, a, k, new
  <1>9. ETypeOK' BY <1>0, <1>3, <1>4, <1>5, <1>6, <1>7, <1>8 DEF ETypeOK
  <1>10. /\ effect'[e] = row /\ \A f \in Effects : f # e => effect'[f] = effect[f]
         /\ sender'[p] = new /\ \A q \in Senders : q # p => sender'[q] = sender[q]
    BY <1>0, <1>6, <1>8 DEF ETypeOK
  <1>11. attempts'[e][n] = a /\ \A f \in Effects : f # e => attempts'[f] = attempts[f]
    <2>1. attempts[e] \in [0..MaxAttempts - 1 -> AttemptRow] BY <1>0 DEF ETypeOK
    <2> QED BY <1>0, <1>7, <2>1 DEF ETypeOK
  <1>12. messages[e] = {} /\ \A q \in Senders : ~Active(q, e) BY <1>0 DEF EffectOK
  <1>13. EffectOK(e)'
    BY <1>0, <1>3, <1>4, <1>10, <1>11, <1>12 DEF EffectOK, Claimable
  <1>14. \A q \in Senders, f \in Effects : f # e /\ Active(q, f)' => Active(q, f)
    BY <1>5, <1>10 DEF Active
  <1>15. EffectsOK'
    <2> SUFFICES ASSUME NEW f \in Effects, f # e PROVE EffectOK(f)'
      BY <1>13 DEF EffectsOK
    <2>1. EffectOK(f) BY DEF EInv, EffectsOK
    <2> QED BY <1>10, <1>11, <1>14, <2>1 DEF EffectOK, Claimable
  <1>16. SendersOK'
    <2> SUFFICES ASSUME NEW q \in Senders PROVE SenderOK(q)' BY DEF SendersOK
    <2>1. CASE q = p BY <1>0, <1>5, <1>10, <1>12, <2>1 DEF SenderOK
    <2>2. CASE q # p
      <3>1. SenderOK(q) BY DEF EInv, SendersOK
      <3> QED BY <1>10, <2>2, <3>1 DEF SenderOK
    <2> QED BY <2>1, <2>2
  <1>17. OneOwner'
    <2>1. \A q \in Senders : Active(q, e)' => q = p BY <1>10, <1>12 DEF Active
    <2> QED BY <1>14, <2>1 DEF EInv, OneOwner
  <1> QED BY <1>9, <1>15, <1>16, <1>17 DEF EInv

\* A sender gives the effect up.
LEMMA GivesUp ==
  ASSUME EInv, NEW p \in Senders, sender' = [sender EXCEPT ![p] = Done(@)],
         UNCHANGED <<effect, attempts, payload, target, messages, crashes>>
  PROVE  EInv'
  <1>0. ETypeOK /\ sender[p] \in SenderState BY Tables DEF EInv
  <1> DEFINE new == Done(sender[p])
  <1>1. new \in SenderState /\ new.pc \in {"idle", "pass"} BY <1>0, SenderDone
  <1>2. sender' = [sender EXCEPT ![p] = new] BY Zenon
  <1> HIDE DEF new
  <1> QED BY <1>0, <1>1, <1>2, SenderBecomes DEF ETypeOK

LEMMA ClaimKeeps ==
  ASSUME EInv, NEW p \in Senders, ClaimSend(p) \/ ClaimRetry(p)
  PROVE  EInv'
  <1> DEFINE e == sender[p].on
  <1>0. ETypeOK /\ SenderOK(p) BY DEF EInv, SendersOK
  <1>1. e \in Effects /\ sender[p].pc \in {"claim", "retry"}
    BY <1>0 DEF SenderOK, ClaimSend, ClaimRetry
  <1>2. EffectOK(e) /\ sender[p] \in SenderState BY <1>0, <1>1, Tables DEF EInv, EffectsOK
  <1>3. sender[p].attempt \in Nat /\ effect[e].attempt \in Nat
    BY <1>0, <1>1, <1>2, Tables, SenderFields, RowFields
  <1>4. CASE ClaimSend(p)
    <2> DEFINE n == sender[p].attempt
    <2>1. CASE CanClaim(e, n)
      <3>1. /\ effect' = [effect EXCEPT ![e] = Leased(@, n)]
            /\ Open(e, n, effect[e].version + 1) /\ sender' = Owner(p, n)
            /\ UNCHANGED <<payload, target, messages, crashes>>
        BY <1>4, <2>1, Zenon DEF ClaimSend
      <3>2. /\ n \in 0..MaxAttempts - 1 /\ Claimable(e) /\ effect[e].status = "planned"
        BY <1>2, <2>1 DEF CanClaim, Claimable, EffectOK
      <3> HIDE DEF e, n
      <3>3. sender[p].on = e BY DEF e
      <3> QED BY <1>1, <3>1, <3>2, <3>3, ClaimTaken
    <2>2. CASE ~CanClaim(e, n)
      <3>1. sender' = [sender EXCEPT ![p] = Done(@)]
            /\ UNCHANGED <<effect, attempts, payload, target, messages, crashes>>
        BY <1>4, <2>2, Zenon DEF ClaimSend
      <3> QED BY <3>1, GivesUp
    <2> QED BY <2>1, <2>2
  <1>5. CASE ClaimRetry(p)
    <2> DEFINE n == sender[p].attempt + 1
               can == /\ DueRetry(e) /\ effect[e].attempt = sender[p].attempt
                      /\ attempts[e][n].outcome = "none"
    <2>1. CASE can
      <3>1. /\ effect' = [effect EXCEPT ![e] = Leased(@, n)]
            /\ Open(e, n, effect[e].version + 1) /\ sender' = Owner(p, n)
            /\ UNCHANGED <<payload, target, messages, crashes>>
        BY <1>5, <2>1, Zenon DEF ClaimRetry
      <3>2. Claimable(e) /\ effect[e].status = "started"
        BY <2>1 DEF DueRetry, Claimable
      <3>3. n \in 0..MaxAttempts - 1
        BY <1>3, <2>1, EffectAssumption DEF DueRetry, EffectAssumption
      <3> HIDE DEF e, n
      <3>4. sender[p].on = e BY DEF e
      <3> QED BY <1>1, <3>1, <3>2, <3>3, <3>4, ClaimTaken
    <2>2. CASE ~can
      <3>1. sender' = [sender EXCEPT ![p] = Done(@)]
            /\ UNCHANGED <<effect, attempts, payload, target, messages, crashes>>
        BY <1>5, <2>2, Zenon DEF ClaimRetry
      <3> QED BY <3>1, GivesUp
    <2> QED BY <2>1, <2>2
  <1> QED BY <1>4, <1>5

\* The owner of an effect without a message sends: there is one now, or none.
LEMMA SendKeeps ==
  ASSUME EInv, NEW p \in Senders, NEW result \in Results, Send(p, result)
  PROVE  EInv'
  <1> DEFINE e == sender[p].on
             m == [token |-> sender[p].token, content |-> sender[p].content]
             new == [sender[p] EXCEPT !.pc = "sent", !.result = result]
  <1>0. ETypeOK /\ SenderOK(p) BY DEF EInv, SendersOK
  <1>1. /\ sender[p].pc = "claimed" /\ e \in Effects /\ sender[p].content \in Contents
        /\ payload[Occ(e)] \in {sender[p].content, "blank"} /\ messages[e] = {}
    BY <1>0, Zenon DEF Send, SenderOK
  <1>2. sender[p] \in SenderState /\ sender[p].token \in Nat
    BY <1>0, Tables, SenderFields
  <1>3. /\ new \in SenderState /\ new.pc = "sent" /\ new.on = e
        /\ new.content = sender[p].content /\ new.result = result
    BY <1>2, SenderSent, Zenon
  <1>4. m \in [token : Nat, content : Contents] /\ m.content = sender[p].content
    BY <1>1, <1>2, Zenon
  <1>5. PICK created \in BOOLEAN :
          /\ (result = "accepted") => created
          /\ (result \in {"safe_retry", "permanent", "not_sent"}) => ~created
          /\ messages' = IF created THEN [messages EXCEPT ![e] = @ \cup {m}] ELSE messages
    BY Zenon DEF Send
  <1>6. sender' = [sender EXCEPT ![p] = new]
        /\ UNCHANGED <<effect, attempts, payload, target, crashes>>
    BY Zenon DEF Send
  <1> HIDE DEF new, m
  <1>7. ETypeOK' BY <1>0, <1>1, <1>3, <1>4, <1>5, <1>6 DEF ETypeOK
  <1>8. sender'[p] = new /\ \A q \in Senders : q # p => sender'[q] = sender[q]
    BY <1>0, <1>6 DEF ETypeOK
  <1>9. /\ \A f \in Effects : f # e => messages'[f] = messages[f]
        /\ messages'[e] = IF created THEN {m} ELSE {}
    BY <1>0, <1>1, <1>5 DEF ETypeOK
  <1>10. \A q \in Senders, f \in Effects : Active(q, f)' <=> Active(q, f)
    BY <1>1, <1>3, <1>8 DEF Active
  <1>11. \A q \in Senders : Active(q, e) => q = p
    BY <1>1 DEF EInv, OneOwner, Active
  <1>12. EffectsOK'
    <2> SUFFICES ASSUME NEW f \in Effects PROVE EffectOK(f)' BY DEF EffectsOK
    <2>1. EffectOK(f) BY DEF EInv, EffectsOK
    <2>2. Claimable(f)' <=> Claimable(f) BY <1>6 DEF Claimable
    <2>3. CASE f # e BY <1>6, <1>9, <1>10, <2>1, <2>2, <2>3 DEF EffectOK
    <2>4. CASE f = e
      <3>1. ~Claimable(e) BY <1>1, <2>1, <2>4 DEF EffectOK, Active
      <3>2. effect[e].status # "delivered" BY <1>1, <2>1, <2>4 DEF EffectOK
      <3> QED BY <1>1, <1>4, <1>6, <1>9, <2>1, <2>2, <2>4, <3>1, <3>2 DEF EffectOK
    <2> QED BY <2>3, <2>4
  <1>13. SendersOK'
    <2> SUFFICES ASSUME NEW q \in Senders PROVE SenderOK(q)' BY DEF SendersOK
    <2>1. CASE q = p BY <1>1, <1>3, <1>5, <1>6, <1>8, <1>9, <2>1 DEF SenderOK
    <2>2. CASE q # p
      <3>1. SenderOK(q) /\ ~Active(q, e) BY <1>11, <2>2 DEF EInv, SendersOK
      <3>2. sender[q].pc \in {"claimed", "sent"} => sender[q].on \in Effects /\ sender[q].on # e
        BY <3>1 DEF SenderOK, Active
      <3> QED BY <1>6, <1>8, <1>9, <2>2, <3>1, <3>2 DEF SenderOK
    <2> QED BY <2>1, <2>2
  <1>14. OneOwner' BY <1>10 DEF EInv, OneOwner
  <1> QED BY <1>7, <1>12, <1>13, <1>14 DEF EInv
\* What the outcomes of a send are recorded as.
LEMMA Recorded ==
  ASSUME NEW result \in Results
  PROVE  /\ StatusFor(result) \in {"delivered", "unknown", "planned", "started", "failed"}
         /\ StatusFor(result) = "started" => result = "safe_retry"
         /\ StatusFor(result) = "delivered" => result = "accepted"
         /\ OutcomeOf(result) \in Outcomes
  <1>1. CASE result = "accepted" BY <1>1, Zenon DEF StatusFor, OutcomeOf, Outcomes
  <1>2. CASE result = "unknown" BY <1>2, Zenon DEF StatusFor, OutcomeOf, Outcomes
  <1>3. CASE result = "not_sent" BY <1>3, Zenon DEF StatusFor, OutcomeOf, Outcomes
  <1>4. CASE result = "safe_retry" BY <1>4, Zenon DEF StatusFor, OutcomeOf, Outcomes
  <1>5. CASE result = "permanent" BY <1>5, Zenon DEF StatusFor, OutcomeOf, Outcomes
  <1> QED BY <1>1, <1>2, <1>3, <1>4, <1>5 DEF Results

\* The owner records what became of its send and owns the effect no more.
LEMMA CompleteSendKeeps ==
  ASSUME EInv, NEW p \in Senders, CompleteSend(p)
  PROVE  EInv'
  <1>0. ETypeOK /\ SenderOK(p) /\ sender[p] \in SenderState BY Tables DEF EInv, SendersOK
  <1>a. sender[p].pc = "sent" /\ sender[p].on \in Effects /\ sender[p].result \in Results
    BY <1>0, Zenon DEF CompleteSend, SenderOK
  <1>b. PICK e \in Effects, result \in Results, n \in Nat :
          e = sender[p].on /\ result = sender[p].result /\ n = sender[p].attempt
    BY <1>0, <1>a, SenderFields
  <1>2. EffectOK(e) /\ effect[e] \in Row BY <1>0, Tables DEF EInv, EffectsOK
  <1>3. CASE ~Completes(sender[p])
    <2>1. sender' = [sender EXCEPT ![p] = Done(@)]
          /\ UNCHANGED <<effect, attempts, payload, target, messages, crashes>>
      BY <1>3, Zenon DEF CompleteSend
    <2> QED BY <2>1, GivesUp
  <1>4. CASE Completes(sender[p])
    <2>0. PICK st, y :
            st = StatusFor(result) /\ y = IF st = "started" THEN "waiting" ELSE "none"
      OBVIOUS
    <2> DEFINE row == [effect[e] EXCEPT !.status = st, !.lease = "none", !.retry = y]
               a == [attempts[e][n] EXCEPT !.outcome = OutcomeOf(result)]
               new == Done(sender[p])
    <2>1. /\ attempts' = [attempts EXCEPT ![e][n].outcome = OutcomeOf(result)]
          /\ effect' = [effect EXCEPT ![e] = row]
          /\ sender' = [sender EXCEPT ![p] = new]
          /\ UNCHANGED <<payload, target, messages, crashes>>
      BY <1>4, <1>b, <2>0, Zenon DEF CompleteSend
    <2>2. effect[e].status = "started" /\ effect[e].attempt = n BY <1>4, <1>b DEF Completes
    <2>3. n \in 0..MaxAttempts - 1 BY <1>2, <2>2 DEF EffectOK
    <2>4. st \in Statuses /\ y \in Retries BY <2>0, Recorded DEF Statuses, Terminal, Retries
    <2>5. /\ row \in Row /\ row.status = st /\ row.attempt = n
          /\ row.lease = "none" /\ row.retry = y
      <3>1. /\ row \in Row /\ row.status = st /\ row.attempt = effect[e].attempt
            /\ row.lease = "none" /\ row.retry = y
        BY <1>2, <2>4, Zenon DEF Row, Retries
      <3> HIDE DEF row
      <3> QED BY <2>2, <3>1
    <2>6. a \in AttemptRow /\ a.outcome = OutcomeOf(result)
      <3>1. attempts[e][n] \in AttemptRow BY <1>0, <2>3 DEF ETypeOK
      <3>2. OutcomeOf(result) \in Outcomes BY Recorded
      <3> QED BY <3>1, <3>2, Zenon DEF AttemptRow
    <2>7. attempts' = [attempts EXCEPT ![e] = [attempts[e] EXCEPT ![n] = a]]
      BY <2>1, Zenon
    <2>8. new \in SenderState /\ new.pc \in {"idle", "pass"} BY <1>0, SenderDone
    <2>9. /\ st \in {"delivered", "unknown", "planned", "started", "failed"}
          /\ y # "none" => result = "safe_retry"
          /\ st = "delivered" => result = "accepted"
          /\ OutcomeOf(result) # "none"
      BY <2>0, Recorded DEF Outcomes
    <2> HIDE DEF row, a, new
    <2>10. ETypeOK'
      <3>1. attempts[e] \in [0..MaxAttempts - 1 -> AttemptRow] BY <1>0 DEF ETypeOK
      <3>2. [attempts[e] EXCEPT ![n] = a] \in [0..MaxAttempts - 1 -> AttemptRow]
        BY <2>3, <2>6, <3>1
      <3>3. attempts' \in [Effects -> [0..MaxAttempts - 1 -> AttemptRow]]
        BY <1>0, <2>7, <3>2 DEF ETypeOK
      <3>4. effect' \in [Effects -> Row] /\ sender' \in [Senders -> SenderState]
        BY <1>0, <2>1, <2>5, <2>8 DEF ETypeOK
      <3>5. UNCHANGED <<payload, target, messages, crashes>> BY <2>1
      <3> QED BY <1>0, <3>3, <3>4, <3>5 DEF ETypeOK
    <2>11. /\ effect'[e] = row /\ \A f \in Effects : f # e => effect'[f] = effect[f]
           /\ sender'[p] = new /\ \A q \in Senders : q # p => sender'[q] = sender[q]
      BY <1>0, <2>1 DEF ETypeOK
    <2>12. attempts'[e][n] = a /\ \A f \in Effects : f # e => attempts'[f] = attempts[f]
      <3>1. attempts[e] \in [0..MaxAttempts - 1 -> AttemptRow] BY <1>0 DEF ETypeOK
      <3> QED BY <1>0, <2>3, <2>7, <3>1 DEF ETypeOK
    <2>13. \A q \in Senders, f \in Effects : Active(q, f)' => Active(q, f) /\ q # p
      BY <2>8, <2>11 DEF Active
    <2>14. \A q \in Senders : ~Active(q, e)'
      BY <1>a, <1>b, <2>13 DEF EInv, OneOwner, Active
    <2>15. /\ result = "accepted" => messages[e] # {}
           /\ result = "safe_retry" => messages[e] = {}
      BY <1>0, <1>a, <1>b DEF SenderOK
    <2>16. EffectOK(e)'
      <3>1. Claimable(e)' => y # "none"
        BY <2>5, <2>6, <2>9, <2>11, <2>12 DEF Claimable
      <3>2. payload'[Occ(e)] \in Contents BY <1>2, <2>1, <2>2 DEF EffectOK
      <3>3. y # "none" => st = "started" BY <2>0
      <3> QED BY <1>2, <2>1, <2>2, <2>5, <2>6, <2>9, <2>11, <2>12, <2>14, <2>15, <3>1, <3>2, <3>3
          DEF EffectOK
    <2>17. EffectsOK'
      <3> SUFFICES ASSUME NEW f \in Effects, f # e PROVE EffectOK(f)'
        BY <2>16 DEF EffectsOK
      <3>1. EffectOK(f) BY DEF EInv, EffectsOK
      <3> QED BY <2>1, <2>11, <2>12, <2>13, <3>1 DEF EffectOK, Claimable
    <2>18. SendersOK'
      <3> SUFFICES ASSUME NEW q \in Senders PROVE SenderOK(q)' BY DEF SendersOK
      <3>1. CASE q = p BY <2>8, <2>11, <3>1 DEF SenderOK
      <3>2. CASE q # p
        <4>1. SenderOK(q) BY DEF EInv, SendersOK
        <4> QED BY <2>1, <2>11, <3>2, <4>1 DEF SenderOK
      <3> QED BY <3>1, <3>2
    <2>19. OneOwner' BY <2>13 DEF EInv, OneOwner
    <2> QED BY <2>10, <2>17, <2>18, <2>19 DEF EInv
  <1> QED BY <1>3, <1>4

\* A plan records the text, or finds it recorded; it can make a planned effect
\* of an absent one.
LEMMA PlanKeeps ==
  ASSUME EInv, NEW p \in Senders, NEW e \in Effects, NEW c \in Contents, Plan(p, e, c)
  PROVE  EInv'
  <1> DEFINE o == Occ(e)
             absent == effect[e].status = "absent"
             pc == IF absent THEN "claim" ELSE "converge"
             new == [Idle EXCEPT !.on = e, !.content = c, !.pc = pc]
             row == [effect[e] EXCEPT !.status = "planned"]
  <1>0. ETypeOK /\ EffectOK(e) /\ effect[e] \in Row BY Tables DEF EInv, EffectsOK
  <1>1. /\ sender[p].pc = "idle" /\ payload[o] \in {"none", c}
        /\ payload' = [payload EXCEPT ![o] = c]
        /\ effect' = IF absent THEN [effect EXCEPT ![e] = row] ELSE effect
        /\ sender' = [sender EXCEPT ![p] = new]
        /\ UNCHANGED <<attempts, target, messages, crashes>>
    BY Zenon DEF Plan, Agrees
  <1>2. pc \in Pcs /\ pc \in {"claim", "converge"} BY DEF Pcs
  <1>3. new \in SenderState /\ new.pc = pc /\ new.on = e /\ new.content = c
    <2> HIDE DEF pc
    <2> QED BY <1>2, IdleSender, Zenon DEF SenderState, Pcs
  <1>4. /\ row \in Row /\ row.status = "planned" /\ row.attempt = effect[e].attempt
        /\ row.lease = effect[e].lease /\ row.retry = effect[e].retry
    <2>1. "planned" \in Statuses BY DEF Statuses
    <2> QED BY <1>0, <2>1, RowStatus, Zenon
  <1>5. o \in Occurrences /\ \A f \in Effects : Occ(f) \in Occurrences BY EffectParts
  <1> HIDE DEF new, row, pc, o
  <1>6. ETypeOK' BY <1>0, <1>1, <1>3, <1>4, <1>5 DEF ETypeOK
  <1>7. /\ sender'[p] = new /\ \A q \in Senders : q # p => sender'[q] = sender[q]
        /\ payload'[o] = c /\ \A x \in Occurrences : x # o => payload'[x] = payload[x]
        /\ \A f \in Effects : f # e => effect'[f] = effect[f]
        /\ IF absent THEN effect'[e] = row ELSE effect'[e] = effect[e]
    BY <1>0, <1>1, <1>5 DEF ETypeOK
  <1>8. "none" \notin Contents /\ "blank" \notin Contents
    BY EffectAssumption DEF EffectAssumption
  <1>9. \A x \in Occurrences, d \in Contents :
          payload[x] \in {d, "blank"} => payload'[x] \in {d, "blank"}
    BY <1>1, <1>7, <1>8
  <1>10. \A q \in Senders, f \in Effects : Active(q, f)' => Active(q, f)
    BY <1>2, <1>3, <1>7 DEF Active
  <1>11. \A x \in Occurrences : payload[x] \in Contents => payload'[x] \in Contents
    BY <1>7
  <1>12. \A f \in Effects : \A m \in messages[f] : m.content \in Contents
    <2> SUFFICES ASSUME NEW f \in Effects, NEW m \in messages[f] PROVE m.content \in Contents
      OBVIOUS
    <2>1. m \in [token : Nat, content : Contents] BY <1>0 DEF ETypeOK
    <2> QED BY <2>1, Zenon
  <1>13. EffectsOK'
    <2> SUFFICES ASSUME NEW f \in Effects PROVE EffectOK(f)' BY DEF EffectsOK
    <2>1. EffectOK(f) BY DEF EInv, EffectsOK
    <2>2. \A m \in messages'[f] : payload'[Occ(f)] \in {m.content, "blank"}
      BY <1>1, <1>5, <1>9, <1>12, <2>1 DEF EffectOK
    <2>3. CASE f # e \/ ~absent
      <3>1. effect'[f] = effect[f] /\ messages'[f] = messages[f] /\ attempts'[f] = attempts[f]
        BY <1>1, <1>7, <2>3
      <3> QED BY <1>5, <1>10, <1>11, <2>1, <2>2, <3>1 DEF EffectOK, Claimable
    <2>4. CASE f = e /\ absent
      <3>1. messages'[e] = {} /\ \A q \in Senders : ~Active(q, e)'
        BY <1>0, <1>1, <1>10, <2>4 DEF EffectOK, Claimable
      <3>2. effect[e].retry = "none" /\ effect[e].lease = "none"
        BY <1>0, <2>4 DEF EffectOK
      <3>3. payload'[Occ(e)] \in Contents BY <1>7 DEF o
      <3> QED BY <1>0, <1>4, <1>7, <2>4, <3>1, <3>2, <3>3 DEF EffectOK
    <2> QED BY <2>3, <2>4
  <1>14. SendersOK'
    <2> SUFFICES ASSUME NEW q \in Senders PROVE SenderOK(q)' BY DEF SendersOK
    <2>1. CASE q = p
      <3>1. payload'[Occ(e)] = c BY <1>7 DEF o
      <3> QED BY <1>2, <1>3, <1>7, <2>1, <3>1 DEF SenderOK
    <2>2. CASE q # p
      <3>1. SenderOK(q) BY DEF EInv, SendersOK
      <3> QED BY <1>1, <1>5, <1>7, <1>9, <2>2, <3>1 DEF SenderOK
    <2> QED BY <2>1, <2>2
  <1>15. OneOwner' BY <1>10 DEF EInv, OneOwner
  <1> QED BY <1>6, <1>13, <1>14, <1>15 DEF EInv
\* A send whose lease has passed becomes unknown: it was started, so it was
\* not claimable, and it is not claimable now.
LEMMA ExpireLeasesKeeps ==
  ASSUME EInv, NEW p \in Senders, ExpireLeases(p)
  PROVE  EInv'
  <1> DEFINE new == [Idle EXCEPT !.pc = "owed", !.pass = TRUE]
             D == 0..MaxAttempts - 1
             Next1(e, n) == IF /\ e \in Lapsed /\ n = effect[e].attempt
                               /\ attempts[e][n].outcome = "open"
                            THEN [attempts[e][n] EXCEPT !.outcome = "unknown"]
                            ELSE attempts[e][n]
  <1>0. ETypeOK BY DEF EInv
  <1>1. new \in SenderState /\ new.pc = "owed" BY IdleSender, Zenon DEF SenderState
  <1>2. /\ sender[p].pc = "idle"
        /\ attempts' = [e \in Effects |-> [n \in D |-> Next1(e, n)]]
        /\ effect' = [e \in Effects |-> IF e \in Lapsed THEN Expired(effect[e]) ELSE effect[e]]
        /\ sender' = [sender EXCEPT ![p] = new]
        /\ UNCHANGED <<payload, target, messages, crashes>>
    BY Zenon DEF ExpireLeases
  <1>3. ASSUME NEW e \in Effects, NEW n \in D
        PROVE  /\ Next1(e, n) \in AttemptRow
               /\ Next1(e, n).outcome = "none" <=> attempts[e][n].outcome = "none"
    <2> DEFINE x == [attempts[e][n] EXCEPT !.outcome = "unknown"]
    <2>1. attempts[e][n] \in AttemptRow BY <1>0 DEF ETypeOK
    <2>2. x \in AttemptRow /\ x.outcome = "unknown" BY <2>1, Zenon DEF AttemptRow, Outcomes
    <2> HIDE DEF x
    <2>3. \/ Next1(e, n) = x /\ attempts[e][n].outcome = "open"
          \/ Next1(e, n) = attempts[e][n]
      BY Zenon DEF x
    <2> HIDE DEF Next1
    <2> QED BY <2>1, <2>2, <2>3
  <1> HIDE DEF Next1, new
  <1>4. \A e \in Effects : /\ Expired(effect[e]) \in Row
                           /\ Expired(effect[e]).status = "unknown"
                           /\ Expired(effect[e]).attempt = effect[e].attempt
                           /\ Expired(effect[e]).lease = "none"
                           /\ Expired(effect[e]).retry = effect[e].retry
    BY <1>0, Tables, RowExpired
  <1>5. ETypeOK'
    <2>1. attempts' \in [Effects -> [D -> AttemptRow]] BY <1>2, <1>3
    <2>2. effect' \in [Effects -> Row] BY <1>0, <1>2, <1>4 DEF ETypeOK
    <2>3. sender' \in [Senders -> SenderState] BY <1>0, <1>1, <1>2 DEF ETypeOK
    <2> QED BY <1>0, <1>2, <2>1, <2>2, <2>3 DEF ETypeOK
  <1>6. sender'[p] = new /\ \A q \in Senders : q # p => sender'[q] = sender[q]
    BY <1>0, <1>2 DEF ETypeOK
  <1>7. \A q \in Senders, f \in Effects : Active(q, f)' => Active(q, f)
    BY <1>1, <1>6 DEF Active
  <1>8. EffectsOK'
    <2> SUFFICES ASSUME NEW e \in Effects PROVE EffectOK(e)' BY DEF EffectsOK
    <2>1. EffectOK(e) BY DEF EInv, EffectsOK
    <2>2. effect[e].attempt \in D BY <2>1 DEF EffectOK
    <2>3. \A n \in D : attempts'[e][n].outcome = "none" <=> attempts[e][n].outcome = "none"
      BY <1>2, <1>3
    <2>4. CASE e \notin Lapsed
      <3>1. effect'[e] = effect[e] BY <1>2, <2>4
      <3> QED BY <1>2, <1>7, <2>1, <2>2, <2>3, <3>1 DEF EffectOK, Claimable
    <2>5. CASE e \in Lapsed
      <3>1. effect'[e] = Expired(effect[e]) BY <1>2, <2>5
      <3>2. effect[e].status = "started" /\ effect[e].retry = "none"
        BY <2>1, <2>5 DEF EffectOK, Lapsed
      <3> QED BY <1>2, <1>4, <2>1, <2>2, <2>3, <3>1, <3>2 DEF EffectOK, Claimable
    <2> QED BY <2>4, <2>5
  <1>9. SendersOK'
    <2> SUFFICES ASSUME NEW q \in Senders PROVE SenderOK(q)' BY DEF SendersOK
    <2>1. CASE q = p BY <1>1, <1>6, <2>1 DEF SenderOK
    <2>2. CASE q # p
      <3>1. SenderOK(q) BY DEF EInv, SendersOK
      <3> QED BY <1>2, <1>6, <2>2, <3>1 DEF SenderOK
    <2> QED BY <2>1, <2>2
  <1>10. OneOwner' BY <1>7 DEF EInv, OneOwner
  <1> QED BY <1>5, <1>8, <1>9, <1>10 DEF EInv

\* A row changes without becoming claimable.
LEMMA RowBecomes ==
  ASSUME EInv, NEW e \in Effects, NEW row \in Row,
         effect' = [effect EXCEPT ![e] = row],
         UNCHANGED <<attempts, payload, target, sender, messages, crashes>>,
         row.attempt = effect[e].attempt,
         row.retry # "none" => row.status = "started" /\ row.lease = "none" /\ effect[e].retry # "none",
         row.lease # "none" => row.status = "started",
         row.status \in {"started", "unknown"} => row.status = effect[e].status,
         row.status = "planned" => effect[e].status = "unknown",
         row.status \notin {"absent", "delivered"}
  PROVE  EInv'
  <1>0. ETypeOK /\ EffectOK(e) BY DEF EInv, EffectsOK
  <1>1. ETypeOK' BY <1>0 DEF ETypeOK
  <1>2. effect'[e] = row /\ \A f \in Effects : f # e => effect'[f] = effect[f]
    BY <1>0 DEF ETypeOK
  <1>3. Claimable(e)' => Claimable(e) BY <1>0, <1>2 DEF Claimable, EffectOK
  <1>4. \A q \in Senders : Active(q, e)' <=> Active(q, e) BY DEF Active
  <1>5. EffectOK(e)' BY <1>0, <1>2, <1>3, <1>4 DEF EffectOK
  <1> QED BY <1>1, <1>2, <1>5, EffectMoves

LEMMA OperatorKeeps ==
  ASSUME EInv, NEW e \in Effects, ApplyOperatorAction(e) \/ ReconcileUnknown(e) \/ Fence(e)
  PROVE  EInv'
  <1>0. ETypeOK /\ effect[e] \in Row BY Tables DEF EInv
  <1>1. PICK st \in {"failed", "planned", "reconciled_succeeded", "reconciled_failed", "fenced"} :
          Settled(e, st) /\ (st = "planned" => effect[e].status = "unknown")
    BY DEF ApplyOperatorAction, ReconcileUnknown, Fence
  <1> DEFINE row == [effect[e] EXCEPT !.status = st, !.lease = "none", !.retry = "none"]
  <1>2. /\ row \in Row /\ row.status = st /\ row.attempt = effect[e].attempt
        /\ row.lease = "none" /\ row.retry = "none"
    <2>1. st \in Statuses /\ "none" \in Retries BY DEF Statuses, Terminal, Retries
    <2> QED BY <1>0, <2>1, Zenon DEF Row, Retries
  <1>3. effect' = [effect EXCEPT ![e] = row]
        /\ UNCHANGED <<attempts, payload, target, sender, messages, crashes>>
    BY <1>1, Zenon DEF Settled
  <1> HIDE DEF row
  <1> QED BY <1>1, <1>2, <1>3, RowBecomes

LEMMA ClockKeeps ==
  ASSUME EInv, NEW e \in Effects, LeaseLapses(e) \/ BackoffElapses(e)
  PROVE  EInv'
  <1>0. ETypeOK /\ EffectOK(e) /\ effect[e] \in Row BY Tables DEF EInv, EffectsOK
  <1>1. CASE LeaseLapses(e)
    <2> DEFINE row == [effect[e] EXCEPT !.lease = "lapsed"]
    <2>1. /\ row \in Row /\ row.status = effect[e].status /\ row.attempt = effect[e].attempt
          /\ row.lease = "lapsed" /\ row.retry = effect[e].retry
      <3>1. "lapsed" \in Leases BY DEF Leases
      <3> QED BY <1>0, <3>1, RowLease, Zenon
    <2>2. effect' = [effect EXCEPT ![e] = row] /\ effect[e].lease = "live"
          /\ UNCHANGED <<attempts, payload, target, sender, messages, crashes>>
      BY <1>1, Zenon DEF LeaseLapses
    <2> HIDE DEF row
    <2>3. effect[e].status = "started" /\ effect[e].retry = "none" BY <1>0, <2>2 DEF EffectOK
    <2> QED BY <2>1, <2>2, <2>3, RowBecomes
  <1>2. CASE BackoffElapses(e)
    <2> DEFINE row == [effect[e] EXCEPT !.retry = "due"]
    <2>1. /\ row \in Row /\ row.status = effect[e].status /\ row.attempt = effect[e].attempt
          /\ row.lease = effect[e].lease /\ row.retry = "due"
      <3>1. "due" \in Retries BY DEF Retries
      <3> QED BY <1>0, <3>1, RowRetry, Zenon
    <2>2. effect' = [effect EXCEPT ![e] = row] /\ effect[e].retry = "waiting"
          /\ UNCHANGED <<attempts, payload, target, sender, messages, crashes>>
      BY <1>2, Zenon DEF BackoffElapses
    <2> HIDE DEF row
    <2>3. effect[e].status = "started" /\ effect[e].lease = "none" BY <1>0, <2>2 DEF EffectOK
    <2> QED BY <2>1, <2>2, <2>3, RowBecomes
  <1> QED BY <1>1, <1>2

\* The evidence of a decided effect goes.
LEMMA DeleteSettledAttemptsKeeps ==
  ASSUME EInv, NEW e \in Effects, DeleteSettledAttempts(e)
  PROVE  EInv'
  <1> DEFINE D == 0..MaxAttempts - 1
             none == [n \in D |-> NoAttempt]
  <1>0. ETypeOK /\ EffectOK(e) BY DEF EInv, EffectsOK
  <1>1. none \in [D -> AttemptRow]
    <2>1. NoAttempt \in AttemptRow BY Zenon DEF NoAttempt, AttemptRow
    <2> QED BY <2>1
  <1>2. attempts' = [attempts EXCEPT ![e] = none]
        /\ UNCHANGED <<effect, payload, target, sender, messages, crashes>>
        /\ effect[e].status \in Terminal
    BY Zenon DEF DeleteSettledAttempts, AttemptsExpendable
  <1> HIDE DEF none
  <1>3. ETypeOK' BY <1>0, <1>1, <1>2 DEF ETypeOK
  <1>4. \A f \in Effects : f # e => attempts'[f] = attempts[f] BY <1>0, <1>2 DEF ETypeOK
  <1>5. \A q \in Senders : Active(q, e)' <=> Active(q, e) BY <1>2 DEF Active
  <1>6. EffectOK(e)' BY <1>0, <1>2, <1>5 DEF EffectOK, Claimable, Terminal
  <1> QED BY <1>2, <1>3, <1>4, <1>6, EffectMoves

\* A text is blanked when nothing is owed for its occurrence any more.
LEMMA RetentionKeeps ==
  ASSUME EInv, NEW o \in Occurrences,
         DeleteExpiredPayloads(o) \/ \E t \in Targets \cup {NoTarget} : Retarget(o, t)
  PROVE  EInv'
  <1>0. ETypeOK BY DEF EInv
  <1>1. CASE \E t \in Targets \cup {NoTarget} : Retarget(o, t)
    <2>1. ETypeOK' BY <1>0, <1>1 DEF ETypeOK, Retarget
    <2>2. UNCHANGED <<effect, attempts, payload, sender, messages>> BY <1>1 DEF Retarget
    <2>3. EffectsOK' BY <2>2 DEF EInv, EffectsOK, EffectOK, Claimable, Active
    <2>4. SendersOK' BY <2>2 DEF EInv, SendersOK, SenderOK
    <2>5. OneOwner' BY <2>2 DEF EInv, OneOwner, Active
    <2> QED BY <2>1, <2>3, <2>4, <2>5 DEF EInv
  <1>2. CASE DeleteExpiredPayloads(o)
    <2>1. payload' = [payload EXCEPT ![o] = "blank"] /\ PayloadExpendable(o)
          /\ UNCHANGED <<effect, attempts, target, sender, messages, crashes>>
      BY <1>2 DEF DeleteExpiredPayloads
    <2>2. ETypeOK' BY <1>0, <2>1 DEF ETypeOK
    <2>3. payload'[o] = "blank" /\ \A x \in Occurrences : x # o => payload'[x] = payload[x]
      BY <1>0, <2>1 DEF ETypeOK
    <2>4. EffectsOK'
      <3> SUFFICES ASSUME NEW e \in Effects PROVE EffectOK(e)' BY DEF EffectsOK
      <3>1. EffectOK(e) /\ Occ(e) \in Occurrences BY EffectParts DEF EInv, EffectsOK
      <3>2. Occ(e) = o => effect[e].status \in Terminal \cup {"absent"}
        BY <2>1 DEF PayloadExpendable
      <3>3. \A q \in Senders : Active(q, e)' <=> Active(q, e) BY <2>1 DEF Active
      <3>4. Claimable(e)' <=> Claimable(e) BY <2>1 DEF Claimable
      <3> QED BY <2>1, <2>3, <3>1, <3>2, <3>3, <3>4 DEF EffectOK, Terminal
    <2>5. SendersOK'
      <3> SUFFICES ASSUME NEW q \in Senders PROVE SenderOK(q)' BY DEF SendersOK
      <3>1. SenderOK(q) BY DEF EInv, SendersOK
      <3> QED BY <2>1, <2>3, <3>1, EffectParts DEF SenderOK
    <2>6. OneOwner' BY <2>1 DEF EInv, OneOwner, Active
    <2> QED BY <2>2, <2>4, <2>5, <2>6 DEF EInv
  <1> QED BY <1>1, <1>2
-----------------------------------------------------------------------------
(* The theorems. *)

LEMMA EffectInit == Init => EInv
  <1> SUFFICES ASSUME Init PROVE EInv OBVIOUS
  <1>1. NoRow \in Row /\ NoRow.status = "absent" /\ NoRow.attempt = 0
        /\ NoRow.lease = "none" /\ NoRow.retry = "none"
    BY Zenon DEF NoRow, Row, Statuses
  <1>2. NoAttempt \in AttemptRow BY Zenon DEF NoAttempt, AttemptRow
  <1>3. ETypeOK
    <2>1. effect \in [Effects -> Row] /\ sender \in [Senders -> SenderState]
      BY <1>1, IdleSender DEF Init
    <2>2. attempts \in [Effects -> [0..MaxAttempts - 1 -> AttemptRow]] BY <1>2 DEF Init
    <2> QED BY <2>1, <2>2 DEF Init, ETypeOK
  <1>4. \A p \in Senders : sender[p].pc = "idle" BY IdleSender DEF Init
  <1>5. SendersOK BY <1>4 DEF SendersOK, SenderOK
  <1>6. OneOwner BY <1>4 DEF OneOwner, Active
  <1>7. EffectsOK
    <2> SUFFICES ASSUME NEW e \in Effects PROVE EffectOK(e) BY DEF EffectsOK
    <2>1. effect[e] = NoRow /\ messages[e] = {} BY DEF Init
    <2>2. \A p \in Senders : ~Active(p, e) BY <1>4 DEF Active
    <2>3. 0 \in 0..MaxAttempts - 1 BY EffectAssumption DEF EffectAssumption
    <2> QED BY <1>1, <2>1, <2>2, <2>3 DEF EffectOK
  <1> QED BY <1>3, <1>5, <1>6, <1>7 DEF EInv

LEMMA EffectStep == EInv /\ [Next]_vars => EInv'
  <1> SUFFICES ASSUME EInv, [Next]_vars PROVE EInv' OBVIOUS
  <1>1. CASE UNCHANGED vars
    <2>1. UNCHANGED <<effect, attempts, payload, target, sender, messages, crashes>>
      BY <1>1 DEF vars
    <2>2. ETypeOK' BY <2>1 DEF EInv, ETypeOK
    <2>3. EffectsOK' BY <2>1 DEF EInv, EffectsOK, EffectOK, Claimable, Active
    <2>4. SendersOK' BY <2>1 DEF EInv, SendersOK, SenderOK
    <2>5. OneOwner' BY <2>1 DEF EInv, OneOwner, Active
    <2> QED BY <2>2, <2>3, <2>4, <2>5 DEF EInv
  <1>2. ASSUME NEW p \in Runs, NEW e \in Effects, NEW c \in Contents, Plan(p, e, c)
        PROVE  EInv'
    BY <1>2, PlanKeeps DEF Senders
  <1>3. ASSUME NEW p \in Loops, ExpireLeases(p) PROVE EInv'
    BY <1>3, ExpireLeasesKeeps DEF Senders
  <1>4. ASSUME NEW p \in Senders, Proceed(p) \/ Crash(p) PROVE EInv'
    BY <1>4, ConvergeKeeps, ListKeeps, ResolveKeeps, RestKeeps, ClaimKeeps, SendKeeps,
       CompleteSendKeeps DEF Proceed
  <1>5. ASSUME NEW e \in Effects,
               \/ ApplyOperatorAction(e) \/ ReconcileUnknown(e) \/ Fence(e)
               \/ DeleteSettledAttempts(e) \/ LeaseLapses(e) \/ BackoffElapses(e)
        PROVE  EInv'
    BY <1>5, OperatorKeeps, DeleteSettledAttemptsKeeps, ClockKeeps
  <1>6. ASSUME NEW o \in Occurrences,
               DeleteExpiredPayloads(o) \/ \E t \in Targets \cup {NoTarget} : Retarget(o, t)
        PROVE  EInv'
    BY <1>6, RetentionKeeps
  <1> QED BY <1>1, <1>2, <1>3, <1>4, <1>5, <1>6 DEF Next

\* Every table and every goroutine holds a value of its type.
THEOREM EffectTypeCorrect == Spec => []ETypeOK
  <1>1. EInv => ETypeOK BY DEF EInv
  <1> QED BY <1>1, EffectInit, EffectStep, PTL DEF Spec

\* The provider creates at most one message for an effect, for any number of
\* gateways, attempts and crashes (claimSend, claimRetry, completeSend, expireLeases).
THEOREM DeliveredAtMostOnce == Spec => []AtMostOnce
  <1>1. EInv => AtMostOnce BY DEF EInv, EffectsOK, EffectOK, AtMostOnce
  <1> QED BY <1>1, EffectInit, EffectStep, PTL DEF Spec

\* Whatever is sent for an occurrence is the text its ledger recorded
\* (PlanWithPayload, recoverOne, the payload collector).
THEOREM OneAnswerSent == Spec => []OneAnswer
  <1>1. EInv => OneAnswer BY DEF EInv, EffectsOK, EffectOK, OneAnswer
  <1> QED BY <1>1, EffectInit, EffectStep, PTL DEF Spec

\* The ledger does not report a delivery that did not happen, nor offer a
\* second send after one that did (completeSend, effectStatusFor).
THEOREM LedgerIsTruthful == Spec => []LedgerTruthful
  <1>1. EInv => LedgerTruthful
    BY DEF EInv, EffectsOK, EffectOK, Claimable, LedgerTruthful
  <1> QED BY <1>1, EffectInit, EffectStep, PTL DEF Spec

\* Retention never takes the text of an effect that is still owed
\* (deleteExpiredPayloads).
THEOREM OwedPayloadKept == Spec => []OwedKeepsPayload
  <1>1. EInv => OwedKeepsPayload
    BY DEF EInv, EffectsOK, EffectOK, OwedKeepsPayload
  <1> QED BY <1>1, EffectInit, EffectStep, PTL DEF Spec

\* Only a started, planned, unknown or failed row is written by any step.
LEMMA DecidedStep ==
  ASSUME EInv, Next, NEW e \in Effects, effect[e].status \in Terminal
  PROVE  effect'[e] = effect[e] \/ (effect[e].status = "failed" /\ effect'[e].status = "fenced")
  <1>0. ETypeOK /\ EffectOK(e) /\ effect \in [Effects -> Row] BY DEF EInv, EffectsOK, ETypeOK
  <1>1. effect[e].status \notin {"absent", "planned", "started", "unknown"} BY DEF Terminal
  <1>2. ASSUME NEW p \in Senders, Proceed(p) \/ Crash(p) PROVE effect'[e] = effect[e]
    <2>1. CASE UNCHANGED effect BY <2>1
    <2>2. CASE ClaimSend(p)
      <3>1. UNCHANGED effect \/ \E x : /\ effect' = [effect EXCEPT ![sender[p].on] = x]
                                      /\ effect[sender[p].on].status = "planned"
        BY <2>2, Zenon DEF ClaimSend, CanClaim
      <3> QED BY <1>0, <1>1, <3>1
    <2>3. CASE ClaimRetry(p)
      <3>1. UNCHANGED effect \/ \E x : /\ effect' = [effect EXCEPT ![sender[p].on] = x]
                                      /\ effect[sender[p].on].status = "started"
        BY <2>3, Zenon DEF ClaimRetry, DueRetry
      <3> QED BY <1>0, <1>1, <3>1
    <2>4. CASE CompleteSend(p)
      <3>1. UNCHANGED effect \/ \E x : /\ effect' = [effect EXCEPT ![sender[p].on] = x]
                                      /\ effect[sender[p].on].status = "started"
        BY <2>4, Zenon DEF CompleteSend, Completes
      <3> QED BY <1>0, <1>1, <3>1
    <2> QED BY <1>2, <2>1, <2>2, <2>3, <2>4 DEF Proceed, Converge, ListRecoverable,
            ListDueRetries, Resolve, EndPass, Send, Crash
  <1>3. ASSUME NEW p \in Runs, NEW f \in Effects, NEW c \in Contents, Plan(p, f, c)
        PROVE  effect'[e] = effect[e]
    <2>1. UNCHANGED effect \/ \E x : /\ effect' = [effect EXCEPT ![f] = x]
                                    /\ effect[f].status = "absent"
      BY <1>3, Zenon DEF Plan
    <2> QED BY <1>0, <1>1, <2>1
  <1>4. ASSUME NEW p \in Loops, ExpireLeases(p) PROVE effect'[e] = effect[e]
    <2>1. e \notin Lapsed BY <1>1 DEF Lapsed
    <2>2. effect' = [f \in Effects |-> IF f \in Lapsed THEN Expired(effect[f]) ELSE effect[f]]
      BY <1>4, Zenon DEF ExpireLeases
    <2> QED BY <2>1, <2>2
  <1>5. ASSUME NEW f \in Effects,
               \/ ApplyOperatorAction(f) \/ ReconcileUnknown(f) \/ Fence(f)
               \/ DeleteSettledAttempts(f) \/ LeaseLapses(f) \/ BackoffElapses(f)
        PROVE  effect'[e] = effect[e] \/ (effect[e].status = "failed" /\ effect'[e].status = "fenced")
    <2>1. CASE f # e \/ DeleteSettledAttempts(f)
      <3>1. UNCHANGED effect \/ \E x : effect' = [effect EXCEPT ![f] = x]
        BY <1>5, Zenon DEF ApplyOperatorAction, ReconcileUnknown, Fence, Settled,
           DeleteSettledAttempts, LeaseLapses, BackoffElapses
      <3>2. DeleteSettledAttempts(f) => UNCHANGED effect BY Zenon DEF DeleteSettledAttempts
      <3> QED BY <1>0, <2>1, <3>1, <3>2
    <2>2. CASE f = e /\ (LeaseLapses(f) \/ BackoffElapses(f))
      BY <1>0, <1>1, <2>2 DEF EffectOK, LeaseLapses, BackoffElapses
    <2>3. CASE f = e /\ (ApplyOperatorAction(f) \/ ReconcileUnknown(f))
      BY <1>1, <2>3 DEF ApplyOperatorAction, ReconcileUnknown
    <2>4. CASE f = e /\ Fence(f)
      <3> DEFINE row == [effect[e] EXCEPT !.status = "fenced", !.lease = "none", !.retry = "none"]
      <3>1. effect[e].status = "failed" BY <1>1, <2>4 DEF Fence
      <3>2. effect' = [effect EXCEPT ![e] = row] BY <2>4, Zenon DEF Fence, Settled
      <3>3. row.status = "fenced"
        <4>1. effect[e] \in Row BY <1>0
        <4> QED BY <4>1, Zenon DEF Row
      <3> HIDE DEF row
      <3> QED BY <1>0, <3>1, <3>2, <3>3
    <2> QED BY <1>5, <2>1, <2>2, <2>3, <2>4
  <1>6. ASSUME NEW o \in Occurrences,
               DeleteExpiredPayloads(o) \/ \E t \in Targets \cup {NoTarget} : Retarget(o, t)
        PROVE  effect'[e] = effect[e]
    BY <1>6 DEF DeleteExpiredPayloads, Retarget
  <1> QED BY <1>2, <1>3, <1>4, <1>5, <1>6 DEF Next

\* A decided effect stays decided, whatever a late completion, another recovery
\* loop or an operator attempts (the status conditions of every UPDATE).
THEOREM DecisionsStay == Spec => DecidedStays
  <1>1. EInv /\ [Next]_vars
        => [\A e \in Effects : effect[e].status \in Terminal =>
              \/ effect'[e] = effect[e]
              \/ effect[e].status = "failed" /\ effect'[e].status = "fenced"]_vars
    BY DecidedStep
  <1> QED BY <1>1, EffectInit, EffectStep, PTL DEF Spec, DecidedStays
=============================================================================
