---------------------------- MODULE WaitingLine ----------------------------
(***************************************************************************)
(* What a session promises the inputs that wait for it, with no ordinals: *)
(* whoever comes to wait stands behind everybody who waits already, and   *)
(* only somebody with nobody ahead is taken to a worker.                  *)
(***************************************************************************)
CONSTANTS Inputs, SessionOf

VARIABLES
  place,  \* where every input is
  ahead   \* the pairs <<j, i>> where j came to wait before i and both wait still

Place == {"outside", "waiting", "taken", "over"}

Waiting(s) == {i \in Inputs : SessionOf[i] = s /\ place[i] = "waiting"}

\* The pairs that nobody of S is part of.
Without(S) == {p \in ahead : p[1] \notin S /\ p[2] \notin S}

Init ==
  /\ place = [i \in Inputs |-> "outside"]
  /\ ahead = {}

Join(i) ==
  /\ place[i] = "outside"
  /\ ahead' = ahead \cup {<<j, i>> : j \in Waiting(SessionOf[i])}
  /\ place' = [place EXCEPT ![i] = "waiting"]

TakeFirst(i) ==
  /\ place[i] = "waiting"
  /\ \A j \in Inputs : <<j, i>> \notin ahead
  /\ place' = [place EXCEPT ![i] = "taken"]
  /\ ahead' = Without({i})

\* Some of those who wait give up or are sent away, wherever they stand.
Leave(S) ==
  /\ \A i \in S : place[i] = "waiting"
  /\ place' = [i \in Inputs |-> IF i \in S THEN "over" ELSE place[i]]
  /\ ahead' = Without(S)

\* What happens outside the line leaves the line alone.  An input that finds
\* the session free is taken without joining it, past those who wait.
Elsewhere ==
  /\ place' \in [Inputs -> Place]
  /\ \A i \in Inputs : place'[i] # place[i] =>
       <<place[i], place'[i]>> \in {<<"outside", "taken">>, <<"taken", "over">>}
  /\ UNCHANGED ahead

Next ==
  \/ \E i \in Inputs : Join(i) \/ TakeFirst(i)
  \/ \E S \in SUBSET Inputs : Leave(S)
  \/ Elsewhere

Spec == Init /\ [][Next]_<<place, ahead>>
=============================================================================
