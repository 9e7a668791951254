------------------------------ MODULE Rollout ------------------------------
(***************************************************************************)
(* `rollout restart --wait`, `set image --wait` and `rollout status`: one  *)
(* command that records the pods of an app, asks for new ones and polls    *)
(* the pod stream until it believes the rollout has landed                 *)
(* (cmd/rollout.go, internal/appstate FetchPods).                          *)
(*                                                                         *)
(* The cluster moves on its own.  The stream shows every pod in each       *)
(* frame, but a frame may be stale: the pods as they were some time ago,   *)
(* kept in earlier.  The first of a connection often is, and a later one   *)
(* may come out of order.  FetchPods therefore reads on for a window after *)
(* the first list and returns the last list it saw.                        *)
(***************************************************************************)
EXTENDS Naturals, FiniteSets

CONSTANTS
  MaxPods,         \* bound: how many pods the cluster ever creates
  Replicas,        \* the replica count of the app
  MaxFaults,       \* bound: connections refused, streams cut short, stale lists after the first
  MaxDisturbances  \* bound: rollouts by others, crashes and evictions

\* The pods in the order they are created; no name is ever used again.
Pods == 1..MaxPods

\* draining is terminating and still ready, stopping is terminating and not.
States == {"unborn", "starting", "crashing", "ready", "draining", "stopping", "gone"}
Serving == {"ready", "draining"}
Terminating == {"draining", "stopping"}

VARIABLES
  state,         \* the pods as they are
  gen,           \* the rollout each pod was created by
  template,      \* the newest rollout
  asked,         \* the rollout this command asked for has yet to begin
  earlier,       \* the pods as a stale frame may still show them
  disturbances,  \* how often someone or something else interfered
  restarting,    \* a restart or an image change; if not, rollout status
  pc,            \* where the command is
  old,           \* podWatcher.old: the pods the rollout must replace
  reading,       \* where FetchPods is in its connection
  list,          \* the last pod list FetchPods has read
  faults,        \* connections refused, streams cut short, stale lists after the first
  expired,       \* the deadline of --timeout has passed
  outcome,       \* how the command ended
  fresh,         \* a true list has come in this read, or has and was overtaken (history)
  misled,        \* the list returned last came stale, cut short or out of order (history)
  before,        \* the pods there were when the request was sent (history)
  disturbed,     \* there had been a disturbance by then (history)
  settled        \* the rollout was over at a moment of the wait (history)

clusterVars == <<state, gen, template, asked, earlier, disturbances>>
readVars == <<reading, list, fresh, faults>>
commandVars == <<restarting, pc, outcome, old, misled, expired, before, disturbed>>
vars == <<clusterVars, readVars, commandVars, settled>>

Phases == {"snapshot", "prompt", "request", "wait", "pause", "done"}
Outcomes == {"running", "aborted", "failed", "rolledOut", "timedOut"}

Present(s) == {p \in Pods : s[p] \notin {"unborn", "gone"}}
NoPods == [p \in Pods |-> "unborn"]

-----------------------------------------------------------------------------
\* Mutant: done takes more pods than there were.
RolloutDoneMorePods(l, names) ==
  /\ Cardinality(Present(l)) > Cardinality(names) /\ Present(l) \cap names = {}
  /\ \A p \in Present(l) : l[p] \in Serving \ Terminating

\* rolloutDone: some pod, every pod ready, none old, none terminating.
RolloutDone(l, names) ==
  /\ Present(l) # {} /\ Present(l) \cap names = {}
  /\ \A p \in Present(l) : l[p] \in Serving \ Terminating

\* The rollout is over: there are pods, all of them new and ready (history).
Over(s) == Present(s) # {} /\ \A p \in Present(s) : p \notin old' /\ s[p] = "ready"

Init ==
  /\ gen = [p \in Pods |-> 0] /\ template = 0 /\ asked = FALSE
  /\ state = [p \in Pods |-> IF p <= Replicas THEN "ready" ELSE "unborn"]
  /\ earlier = state /\ disturbances = 0
  /\ restarting \in BOOLEAN /\ pc = "snapshot" /\ outcome = "running" /\ old = {} /\ expired = FALSE
  /\ reading = "closed" /\ list = NoPods /\ fresh = "no" /\ faults = 0
  /\ misled = FALSE /\ before = {} /\ disturbed = FALSE /\ settled = FALSE

Finish(end) == pc' = "done" /\ outcome' = end
Goto(phase) == pc' = phase /\ UNCHANGED outcome

\* While the command waits, note whether the rollout is over.
Noting(s) == settled' = (settled \/ (pc' \in {"wait", "pause"} /\ Over(s)))

-----------------------------------------------------------------------------
(* FetchPods: one connection to the pod stream.                            *)

Reading == pc \in {"snapshot", "wait"}

(* dial.                                                                   *)
Connect ==
  /\ Reading /\ reading = "closed" /\ ~expired
  /\ reading' = "first"
  /\ UNCHANGED <<clusterVars, commandVars, list, fresh, faults, settled>>

\* The next frame of the stream is the truth, or a stale list.
TrueList == list' = state /\ fresh' = "yes"
StaleList ==
  /\ list' = earlier
  /\ fresh' = IF earlier = state THEN "yes" ELSE IF fresh = "no" THEN "no" ELSE "overtaken"

(* Phase one: the first list, which may be stale.                          *)
FirstList ==
  /\ reading = "first"
  /\ TrueList \/ StaleList
  /\ reading' = "settle"
  /\ UNCHANGED <<clusterVars, commandVars, faults, settled>>

(* Phase two: the latest list replaces the one before it, in whatever      *)
(* order the server sends them.                                            *)
NextList ==
  /\ reading = "settle"
  /\ \/ TrueList /\ UNCHANGED faults
     \/ StaleList /\ faults < MaxFaults /\ faults' = faults + 1
  /\ <<list, fresh>>' # <<list, fresh>>
  /\ UNCHANGED <<clusterVars, commandVars, reading, settled>>

\* newPodWatcher; rollout status clears the list again.
OldPods(l) == IF restarting THEN Present(l) ELSE {}

\* What newPodWatcher and the loop of wait make of a list.
Return ==
  /\ reading' = "closed" /\ list' = NoPods /\ fresh' = "no"
  /\ UNCHANGED <<clusterVars, restarting, expired, before, disturbed>>
  /\ \/ /\ pc = "snapshot"
        /\ old' = OldPods(list)
        /\ Goto(IF restarting THEN "prompt" ELSE "wait")
     \/ /\ pc = "wait"
        /\ IF RolloutDone(list, old) THEN Finish("rolledOut") ELSE Goto("pause")
        /\ UNCHANGED old
  /\ Noting(state)

\* Mutant: the window is over as soon as there is a list.
WindowOverAtOnce == TRUE

\* settleWindow is long enough for a true list to follow the stale one at the
\* head, but not for the one that would correct a stale list sent later.
WindowOver == fresh # "no"

(* The window closes, or the deadline passes in it: the list is returned.  *)
CloseWindow ==
  /\ reading = "settle" /\ WindowOver
  /\ Return
  /\ misled' = (fresh = "overtaken")
  /\ UNCHANGED faults

(* The stream ends within the window: the list so far is returned.         *)
StreamEnds ==
  /\ reading = "settle" /\ (expired \/ faults < MaxFaults)
  /\ faults' = IF expired THEN faults ELSE faults + 1
  /\ Return
  /\ misled' = (fresh # "yes")

(* No connection, or no list on it: an error for the snapshot, one missed  *)
(* read for the loop.                                                      *)
ReadFails ==
  /\ Reading /\ reading \in {"closed", "first"} /\ (expired \/ faults < MaxFaults)
  /\ faults' = IF expired THEN faults ELSE faults + 1
  /\ reading' = "closed"
  /\ IF pc = "snapshot" THEN Finish("failed") ELSE Goto("pause")
  /\ UNCHANGED <<clusterVars, list, fresh, restarting, old, misled, expired, before, disturbed, settled>>

-----------------------------------------------------------------------------
(* The command around it.                                                  *)

(* confirm().                                                              *)
Answer ==
  /\ pc = "prompt"
  /\ Finish("aborted") \/ Goto("request")
  /\ UNCHANGED <<clusterVars, readVars, restarting, old, misled, expired, before, disturbed, settled>>

(* RestartApp, or runAppChange: done, refused, or done with no answer.     *)
Request ==
  /\ pc = "request"
  /\ \/ asked' = TRUE /\ (Goto("wait") \/ Finish("failed"))
     \/ UNCHANGED asked /\ Finish("failed")
  /\ before' = Present(state)
  /\ disturbed' = (disturbances > 0)
  /\ UNCHANGED <<state, gen, template, earlier, disturbances, readVars, restarting, old, misled, expired>>
  /\ Noting(state)

\* The select at the end of a round.
AfterPause == IF expired THEN Finish("timedOut") ELSE Goto("wait")

(* The time between two polls, or the deadline.                            *)
Pause ==
  /\ pc = "pause"
  /\ AfterPause
  /\ UNCHANGED <<clusterVars, readVars, restarting, old, misled, expired, before, disturbed, settled>>

(* The deadline passes.                                                    *)
Expire ==
  /\ pc \in {"wait", "pause"} /\ ~expired
  /\ expired' = TRUE
  /\ UNCHANGED <<clusterVars, readVars, restarting, pc, outcome, old, misled, before, disturbed, settled>>

-----------------------------------------------------------------------------
(* The cluster: a rolling update that surges by one pod.                   *)

Running == {p \in Pods : state[p] \in {"starting", "crashing", "ready"}}
Ready == {p \in Pods : state[p] = "ready"}
Newest == {p \in Running : gen[p] = template}
Stopped(p) == IF state[p] = "ready" THEN "draining" ELSE "stopping"

Becomes(p, s) ==
  /\ state' = [state EXCEPT ![p] = s]
  /\ UNCHANGED <<template, asked, earlier, readVars, commandVars>>
  /\ Noting(state')

StartPod(p) ==
  /\ state[p] = "unborn" /\ \A q \in Pods : q < p => state[q] # "unborn"
  /\ Cardinality(Running) < Replicas + 1 /\ Cardinality(Newest) < Replicas
  /\ gen' = [gen EXCEPT ![p] = template]
  /\ Becomes(p, "starting") /\ UNCHANGED disturbances

PodReady(p) ==
  state[p] \in {"starting", "crashing"} /\ Becomes(p, "ready") /\ UNCHANGED <<gen, disturbances>>

RetirePod(p) ==
  /\ p \in Running /\ gen[p] # template
  /\ state[p] # "ready" \/ Cardinality(Ready \ {p}) >= Replicas
  /\ Becomes(p, Stopped(p)) /\ UNCHANGED <<gen, disturbances>>

PodStops(p) ==
  \/ state[p] = "draining" /\ Becomes(p, "stopping") /\ UNCHANGED <<gen, disturbances>>
  \/ state[p] = "stopping" /\ Becomes(p, "gone") /\ UNCHANGED <<gen, disturbances>>

(* A container crashes, or a pod is evicted.                               *)
PodDisturbed(p) ==
  /\ disturbances < MaxDisturbances /\ disturbances' = disturbances + 1
  /\ \/ state[p] \in {"starting", "ready"} /\ Becomes(p, "crashing")
     \/ p \in Running /\ Becomes(p, Stopped(p))
  /\ UNCHANGED gen

(* A rollout begins: the one asked for, or someone else's.                 *)
Roll ==
  /\ \/ asked /\ asked' = FALSE /\ UNCHANGED disturbances
     \/ /\ disturbances < MaxDisturbances /\ disturbances' = disturbances + 1
        /\ UNCHANGED asked
  /\ template' = template + 1
  /\ UNCHANGED <<state, gen, earlier, readVars, commandVars, settled>>

(* The moment a stale frame shows comes nearer.                            *)
Lag ==
  /\ earlier # state /\ earlier' = state
  /\ UNCHANGED <<state, gen, template, asked, disturbances, readVars, commandVars, settled>>

-----------------------------------------------------------------------------
Command ==
  \/ Connect \/ FirstList \/ CloseWindow \/ StreamEnds \/ ReadFails
  \/ Answer \/ Request \/ Pause

Cluster ==
  \/ \E p \in Pods : StartPod(p) \/ PodReady(p) \/ RetirePod(p) \/ PodStops(p) \/ PodDisturbed(p)
  \/ Roll \/ Lag

Next == Command \/ NextList \/ Expire \/ Cluster

(* The command takes its next step: reads are bounded by fetchTimeout, a   *)
(* true list follows a stale one, the pause is a timer.  The deadline need *)
(* not come, and the cluster owes nothing.                                 *)
Fairness == WF_vars(Command) /\ WF_vars(NextList)

Spec == Init /\ [][Next]_vars /\ Fairness

-----------------------------------------------------------------------------
(* Properties.                                                             *)

PodMap == [Pods -> States]

\* Every variable keeps its type, and the pods to be replaced have existed.
TypeOK ==
  /\ {state, earlier, list} \subseteq PodMap
  /\ gen \in [Pods -> Nat] /\ template \in Nat
  /\ {asked, restarting, expired, misled, disturbed, settled} \subseteq BOOLEAN
  /\ fresh \in {"no", "yes", "overtaken"}
  /\ disturbances \in 0..MaxDisturbances /\ faults \in 0..MaxFaults
  /\ pc \in Phases /\ outcome \in Outcomes
  /\ reading \in {"closed", "first", "settle"}
  /\ before \subseteq Pods
  /\ old \subseteq {p \in Pods : state[p] # "unborn"}

\* A restart or an image change reported as done, after a prompt that nothing
\* disturbed, has replaced every pod there was when it was requested and was
\* over at some moment of the wait, whatever stale lists the stream sends, first
\* or later, and wherever it is cut short: no list that shows no pod of the
\* snapshot is older than the request.  Without such a snapshot (rollout status,
\* or one of a disturbed cluster) the rollout was over if the deciding list was
\* not stale, because cut short or out of order (podWatcher.wait, FetchPods).
RolledOutWasOver ==
  outcome = "rolledOut" =>
    /\ (restarting /\ ~disturbed) \/ ~misled => settled
    /\ restarting /\ ~disturbed => \A p \in before : state[p] = "gone"

\* A rollout that is over and stays so is reported: the loop is not kept going
\* by stale lists, failed reads or a snapshot that names a new pod.
OverNow == Present(state) # {} /\ \A p \in Present(state) : p \notin old /\ state[p] = "ready"
OverIsReported == <>[]OverNow => <>(pc = "done")

\* Once its deadline has passed the command ends, even if the stream never
\* answers again or no pod ever becomes ready (wait).
TimeoutEndsIt == expired ~> pc = "done"

-----------------------------------------------------------------------------
(* What the texts of the program say and the code does not do.             *)

\* cmd/rollout.go, of rollout status: "it does not pass while an old pod is
\* still serving and the new one is crash-looping".  Here it passes although
\* there was no moment of the wait at which every pod was ready.
Passes == outcome # "rolledOut" /\ outcome' = "rolledOut"
NotWhileOldServes ==
  [][Passes /\ ~settled =>
       ~(\E p, q \in Running : gen[p] < gen[q] /\ state[p] = "ready" /\ state[q] = "crashing")]_vars
=============================================================================
