----------------------------- MODULE MCPolling -----------------------------
(* Polling for TLC: two pods under the watch; a rollout has pods for the   *)
(* old ones, their replacements and one round of someone else's.           *)
EXTENDS Polling, TLC
=============================================================================
