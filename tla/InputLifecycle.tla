--------------------------- MODULE InputLifecycle ---------------------------
(***************************************************************************)
(* What the gateway promises about an input once it is durable, with none *)
(* of the ledger's columns: it is handed to a worker at most once, in a   *)
(* session at most one input at a time is being worked on or is fenced    *)
(* because its outcome is unknown, and an outcome is final.               *)
(***************************************************************************)
CONSTANTS Inputs, SessionOf

VARIABLE phase  \* the phase of every input

\* new: never seen.  waiting: queued.  active: handed to a worker.
\* fenced: outcome unknown, the session is blocked.  released: outcome
\* unknown, the session is free.  settled: completed, failed or dropped.
Phase == {"new", "waiting", "active", "fenced", "released", "settled"}

Blocking(i) == phase[i] \in {"active", "fenced"}

Free(s) == \A i \in Inputs : SessionOf[i] = s => ~Blocking(i)

Init == phase = [i \in Inputs |-> "new"]

Wait(i) ==
  /\ phase[i] = "new"
  /\ phase' = [phase EXCEPT ![i] = "waiting"]

Start(i) ==
  /\ phase[i] \in {"new", "waiting"}
  /\ Free(SessionOf[i])
  /\ phase' = [phase EXCEPT ![i] = "active"]

\* One recovery pass or one shutdown may fence several inputs at once.
Fence(S) ==
  /\ \A i \in S : phase[i] = "active"
  /\ phase' = [i \in Inputs |-> IF i \in S THEN "fenced" ELSE phase[i]]

Release(i) ==
  /\ phase[i] = "fenced"
  /\ phase' = [phase EXCEPT ![i] = "released"]

\* A late outcome settles even an input that was already given up as unknown.
Settle(i) ==
  /\ phase[i] \in {"active", "fenced", "released"}
  /\ phase' = [phase EXCEPT ![i] = "settled"]

\* Waiting inputs are cancelled, cleared or expired, several at once.
Drop(S) ==
  /\ \A i \in S : phase[i] = "waiting"
  /\ phase' = [i \in Inputs |-> IF i \in S THEN "settled" ELSE phase[i]]

Next ==
  \/ \E i \in Inputs : Wait(i) \/ Start(i) \/ Release(i) \/ Settle(i)
  \/ \E S \in SUBSET Inputs : Fence(S) \/ Drop(S)

Spec == Init /\ [][Next]_phase
=============================================================================
