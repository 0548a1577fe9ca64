--------------------------- MODULE MCEventStream ---------------------------
(* One session with at most two connections for TLC.  Every initial state     *)
(* gives some of the goroutines, faults and crashes a budget.                 *)
EXTENDS EventStream, TLC
CONSTANTS c1, c2
MCConns == {c1, c2}
Limit(some) == some @@ [p \in Procs \cup Kinds \cup {"error", "crash", "fault"} |-> 0]
AnyKind == "delta" :> 2 @@ "raw" :> 1 @@ "plain" :> 2 @@ "done" :> 1 @@ "error" :> 1
Stored == "delta" :> 2 @@ "plain" :> 2

\* A worker's events and a handler's on one connection.
Ordering == Limit(AnyKind @@ "forwarder" :> 2 @@ "sender" :> 1 @@ c1 :> 1)
\* Numbers taken without the order lock or kept past their lease.
Unordered == Limit(AnyKind @@ "forwarder" :> 1 @@ "notifier" :> 1 @@ "inbound" :> 1 @@ c1 :> 1)
\* The session is deleted, recreated by a reconnection, and released late.
Recreation == Limit(Stored @@ "forwarder" :> 2 @@ "deleter" :> 1 @@ c1 :> 2)
\* A second connection takes over from one that is closing.
Takeover == Limit(AnyKind @@ "forwarder" :> 1 @@ "sender" :> 1 @@ c1 :> 1 @@ c2 :> 1)
\* A release whose flush fails, with a client's message on its way.
FailedRelease == Limit("inbound" :> 1 @@ "deleter" :> 1 @@ "fault" :> 1 @@ c1 :> 2)
\* Hydration after a crash, and after flushes that failed.
Restart == Limit(AnyKind @@ "forwarder" :> 2 @@ "crash" :> 1 @@ "fault" :> 1 @@ c1 :> 2)
MCBudgets == {Ordering, Unordered, Recreation, Takeover, FailedRelease, Restart}
=============================================================================
