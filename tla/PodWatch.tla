----------------------------- MODULE PodWatch -----------------------------
(***************************************************************************)
(* `get pods --watch`: podWatchPrinter turns the frames of the pod stream, *)
(* each a list of all pods, into lines for what changed (cmd/podwatch.go,  *)
(* internal/appstate WatchPods).                                           *)
(*                                                                         *)
(* The server pushes a frame when a pod changes.  It also sends stale      *)
(* frames, the pods as they were some time ago, each followed by a true    *)
(* one; so a pod that is gone can reappear and a live one be missing for   *)
(* one frame.  A row is the state of the pod it shows; AGE is left out, as *)
(* the printer leaves it out of its comparison.                            *)
(***************************************************************************)
EXTENDS Naturals, FiniteSets

CONSTANTS
  Pods,                  \* pod names; the cluster never reuses one
  AbsentFramesToDelete,  \* absentFramesToDelete
  MaxStale               \* bound: stale frames

Rows == {"pending", "running", "terminating"}
States == Rows \union {"unborn", "gone"}

VARIABLES
  state,    \* the pods as they are
  earlier,  \* the pods as a stale frame may still show them
  owed,     \* why the server has a true frame to push, if it has
  stale,    \* stale frames sent
  last,     \* the row last printed for a pod; "unborn" for none
  order,    \* the pods with a row, in any order
  missing,  \* how many frames running a pod has been absent from
  gone,     \* the pods reported deleted
  told,     \* what the last line about each pod said (history)
  outcome   \* how the watch ended

serverVars == <<state, earlier, owed, stale>>
printerVars == <<last, order, missing, gone, told>>
vars == <<serverVars, printerVars, outcome>>

Present(s) == {p \in Pods : s[p] \in Rows}

-----------------------------------------------------------------------------
(* podWatchPrinter.frame                                                   *)

\* The pods of a frame that are looked at: a deleted one is never resurrected.
Seen(f) == Present(f) \ gone

\* The pods that have now been missing for long enough.
Deleted(f) == {p \in order \ Seen(f) : missing[p] + 1 >= AbsentFramesToDelete}

\* Mutant: a pod that is back is still counted as missing.
MissingSum(f) ==
  [p \in Pods |-> IF p \in order \ (Seen(f) \union Deleted(f)) THEN missing[p] + 1
                  ELSE IF p \in Deleted(f) THEN 0 ELSE missing[p]]

Missing(f) ==
  [p \in Pods |-> IF p \in order \ (Seen(f) \union Deleted(f)) THEN missing[p] + 1 ELSE 0]

\* Mutant: a known pod is not compared with its last row.
RowsOnce(f) == [p \in Pods |-> IF p \in Deleted(f) THEN "unborn"
                               ELSE IF p \in Seen(f) \ order THEN f[p] ELSE last[p]]

\* The rows remembered after a frame.
RowsAfter(f) == [p \in Pods |-> IF p \in Deleted(f) THEN "unborn"
                                ELSE IF p \in Seen(f) THEN f[p] ELSE last[p]]

PrintFrame(f) ==
  /\ last' = RowsAfter(f)
  /\ order' = (order \union Seen(f)) \ Deleted(f)
  /\ missing' = Missing(f)
  /\ gone' = gone \union Deleted(f)
  /\ told' = [p \in Pods |-> IF p \in Deleted(f) THEN "deleted"
                             ELSE IF last'[p] # last[p] THEN last'[p] ELSE told[p]]

-----------------------------------------------------------------------------
Init ==
  /\ state \in [Pods -> {"unborn", "running"}] /\ earlier = state
  /\ owed = "change" /\ stale = 0
  /\ last = [p \in Pods |-> "unborn"] /\ order = {} /\ gone = {}
  /\ missing = [p \in Pods |-> 0]
  /\ told = [p \in Pods |-> "nothing"]
  /\ outcome = "watching"

(* WatchPods hands a true frame to the printer.                            *)
TrueFrame ==
  /\ outcome = "watching" /\ owed # "nothing"
  /\ PrintFrame(state)
  /\ owed' = "nothing"
  /\ UNCHANGED <<state, earlier, stale, outcome>>

(* ... or a stale one, out of order; a true one follows it.                *)
StaleFrame ==
  /\ outcome = "watching" /\ stale < MaxStale /\ owed # "truth"
  /\ PrintFrame(earlier)
  /\ owed' = "truth" /\ stale' = stale + 1
  /\ UNCHANGED <<state, earlier, outcome>>

(* The user interrupts the watch, or the connection drops.                 *)
Stop ==
  /\ outcome = "watching"
  /\ outcome' \in {"interrupted", "dropped"}
  /\ UNCHANGED <<serverVars, printerVars>>

(* A pod of the cluster changes, and the server will push a frame.         *)
PodChanges(p) ==
  /\ \/ state[p] = "unborn" /\ state' = [state EXCEPT ![p] = "pending"]
     \/ state[p] = "pending" /\ state' = [state EXCEPT ![p] = "running"]
     \/ state[p] \in {"pending", "running"} /\ state' = [state EXCEPT ![p] = "terminating"]
     \/ state[p] = "terminating" /\ state' = [state EXCEPT ![p] = "gone"]
  /\ owed' = IF owed = "nothing" THEN "change" ELSE owed
  /\ UNCHANGED <<earlier, stale, printerVars, outcome>>

(* The moment a stale frame shows comes nearer.                            *)
Lag ==
  /\ earlier # state /\ earlier' = state
  /\ UNCHANGED <<state, owed, stale, printerVars, outcome>>

Next == TrueFrame \/ StaleFrame \/ Stop \/ Lag \/ \E p \in Pods : PodChanges(p)

(* The server sends the frame it owes, as long as the watch is on.         *)
Fairness == WF_vars(TrueFrame)

Spec == Init /\ [][Next]_vars /\ Fairness

-----------------------------------------------------------------------------
(* Properties.                                                             *)

\* Every variable keeps its type; the pods with a row are those of order, and
\* only they are being missed.
TypeOK ==
  /\ {state, earlier} \subseteq [Pods -> States]
  /\ owed \in {"nothing", "change", "truth"} /\ stale \in 0..MaxStale
  /\ last \in [Pods -> Rows \union {"unborn"}]
  /\ missing \in [Pods -> 0..AbsentFramesToDelete - 1]
  /\ order \subseteq Pods /\ gone \subseteq Pods
  /\ told \in [Pods -> Rows \union {"nothing", "deleted"}]
  /\ outcome \in {"watching", "interrupted", "dropped"}
  /\ \A p \in Pods : (p \in order <=> last[p] # "unborn") /\ (missing[p] > 0 => p \in order)

\* A pod reported deleted was really gone: one stale frame without it, which
\* the server sends, is not enough, nor are two that do not follow one another.
\* And nothing more is said of it, though a stale frame may show it running:
\* "a deleted pod is never resurrected" (frame).
DeletedIsGone ==
  \A p \in Pods : /\ told[p] = "deleted" => state[p] = "gone"
                  /\ p \in gone <=> told[p] = "deleted"

\* What is printed last about a live pod is the truth in the end, whatever
\* stale rows were printed in between, if the watch goes on: a pod changes only
\* so often.
LiveRowsSettle ==
  <>[](outcome = "watching" => \A p \in Pods : state[p] \in Rows => told[p] = state[p])
=============================================================================
