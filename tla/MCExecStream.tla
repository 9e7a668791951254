---------------------------- MODULE MCExecStream ----------------------------
(* ExecStream for TLC; the constants are numbers, set in the configurations. *)
EXTENDS ExecStream, TLC
=============================================================================
