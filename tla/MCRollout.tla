----------------------------- MODULE MCRollout -----------------------------
(* Rollout for TLC: enough pods for the old ones, their replacements and   *)
(* one round of someone else's.                                            *)
EXTENDS Rollout
=============================================================================
