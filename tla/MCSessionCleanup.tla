-------------------------- MODULE MCSessionCleanup --------------------------
(* A session id with two lives and two gateway processes on one database.   *)
EXTENDS SessionCleanup
=============================================================================
