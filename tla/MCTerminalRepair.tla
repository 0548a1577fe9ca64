-------------------------- MODULE MCTerminalRepair --------------------------
(* One execution of one gateway. *)
EXTENDS TerminalRepair, TLC

CONSTANT e1
=============================================================================
