---------------------------- MODULE MCSessionPool ----------------------------
(* One session, two goroutines, and limits that a reload lifts.             *)
EXTENDS SessionPool, TLC

CONSTANTS s1, u1, x1, w1, w2, o1, o2, p1, p2

MCUserOf == [s \in {s1} |-> u1]
MCHomeOf == [s \in {s1} |-> x1]

\* At first a user may have one worker; a reload lifts that and the memory
\* limit (0 is unlimited) and narrows the workspace.
Tight == [size |-> 2, user |-> 1, wksp |-> 2, mem |-> 1]
Lifted == [size |-> 2, user |-> 0, wksp |-> 1, mem |-> 0]
MCLimits == {Tight, Lifted}

Symmetry ==
  Permutations({w1, w2}) \cup Permutations({o1, o2}) \cup Permutations({p1, p2})

\* What is left in an object that nothing refers to cannot be seen.
View == <<row, pending, cache, [o \in Objects |-> IF o \in Free THEN Unused ELSE ms[o]],
          op, pool, limits, reloads, deletes, ended>>
=============================================================================
