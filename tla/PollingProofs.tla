---------------------------- MODULE PollingProofs ----------------------------
(* Theorems about the commands that poll and watch, for any bounds and any *)
(* number of pods: one inductive invariant per command, kept by the steps  *)
(* of that command and by those of the others, which leave it alone.       *)
EXTENDS Polling, FiniteSetTheorems, SequenceTheorems, TLAPS

-----------------------------------------------------------------------------
(* get pods --watch.                                                       *)

\* A stale frame shows what was so, and a pod is missed by two frames in a row
\* only if one of them was true; a row is of a pod that has been seen.
WatchOf(p) ==
  /\ podState[p] = "unborn" => podEarlier[p] = "unborn"
  /\ podEarlier[p] = "gone" => podState[p] = "gone"
  /\ p \in order => podState[p] # "unborn" /\ p \notin gone
  /\ missing[p] > 0 /\ owed # "truth" => podState[p] = "gone"
  /\ told[p] = "deleted" => podState[p] = "gone"
  /\ p \in gone <=> told[p] = "deleted"

WatchInv == P!TypeOK /\ \A p \in WatchedPods : WatchOf(p)

LEMMA WatchInit == P!Init => WatchInv
<1> SUFFICES ASSUME P!Init PROVE WatchInv
  OBVIOUS
<1> USE DEF P!Init
<1>1. P!TypeOK
  BY BoundsAssumption, AbsentAssumption DEF P!TypeOK, P!States, P!Rows
<1>2. \A p \in WatchedPods : WatchOf(p)
  BY DEF WatchOf
<1>3. QED
  BY <1>1, <1>2 DEF WatchInv

\* A frame is printed: the pods as they are, or as they were unless a true
\* frame is owed.  A pod is then called deleted only if it is gone.
LEMMA FrameInv ==
  ASSUME WatchInv, NEW f \in [WatchedPods -> P!States], P!PrintFrame(f),
         UNCHANGED <<podState, podEarlier>>,
         \/ f = podState
         \/ f = podEarlier /\ owed # "truth" /\ owed' = "truth"
  PROVE  /\ \A p \in WatchedPods : WatchOf(p)'
         /\ last' \in [WatchedPods -> P!Rows \union {"unborn"}]
         /\ missing' \in [WatchedPods -> 0..AbsentFramesToDelete - 1]
         /\ order' \subseteq WatchedPods /\ gone' \subseteq WatchedPods
         /\ told' \in [WatchedPods -> P!Rows \union {"nothing", "deleted"}]
         /\ \A p \in WatchedPods : (p \in order' <=> last'[p] # "unborn") /\ (missing'[p] > 0 => p \in order')
<1> DEFINE S == P!Seen(f)
           D == P!Deleted(f)
<1>1. ASSUME NEW p \in WatchedPods
      PROVE  /\ p \in S <=> f[p] \in P!Rows /\ p \notin gone
             /\ p \in D <=> p \in order /\ p \notin S /\ missing[p] + 1 >= AbsentFramesToDelete
  BY DEF P!Seen, P!Present, P!Deleted, WatchInv, P!TypeOK
<1>2. S \subseteq WatchedPods /\ D \subseteq WatchedPods
  BY DEF P!Seen, P!Present, P!Deleted, WatchInv, P!TypeOK
<1>3. ASSUME NEW p \in WatchedPods
      PROVE  /\ last'[p] = IF p \in D THEN "unborn" ELSE IF p \in S THEN f[p] ELSE last[p]
             /\ p \in order' <=> (p \in order \/ p \in S) /\ p \notin D
             /\ missing'[p] = IF p \in order /\ p \notin S /\ p \notin D THEN missing[p] + 1 ELSE 0
             /\ p \in gone' <=> p \in gone \/ p \in D
             /\ told'[p] = IF p \in D THEN "deleted" ELSE IF last'[p] # last[p] THEN last'[p] ELSE told[p]
  BY DEF P!PrintFrame, P!RowsAfter, P!Missing
<1>4. ASSUME NEW p \in WatchedPods
      PROVE  /\ WatchOf(p) /\ f[p] \in P!States /\ missing[p] \in 0..AbsentFramesToDelete - 1
             /\ last[p] \in P!Rows \union {"unborn"} /\ told[p] \in P!Rows \union {"nothing", "deleted"}
             /\ podState[p] \in P!States /\ podEarlier[p] \in P!States
             /\ (p \in order <=> last[p] # "unborn") /\ (missing[p] > 0 => p \in order)
  BY DEF WatchInv, P!TypeOK
<1> HIDE DEF S, D
<1>5. ASSUME NEW p \in WatchedPods
      PROVE  /\ WatchOf(p)'
             /\ last'[p] \in P!Rows \union {"unborn"} /\ missing'[p] \in 0..AbsentFramesToDelete - 1
             /\ told'[p] \in P!Rows \union {"nothing", "deleted"}
             /\ (p \in order' <=> last'[p] # "unborn") /\ (missing'[p] > 0 => p \in order')
  <2>1. p \in D => podState[p] = "gone"
    <3>1. CASE f = podState
      BY <1>1, <1>4, <3>1 DEF WatchOf, P!States, P!Rows
    <3>2. CASE owed # "truth"
      BY <1>1, <1>4, <3>2, AbsentAssumption DEF WatchOf
    <3>3. QED
      BY <3>1, <3>2
  <2>2. p \in S => podState[p] # "unborn"
    BY <1>1, <1>4 DEF WatchOf, P!Rows
  <2>3. f = podState /\ p \in order /\ p \notin S => podState[p] = "gone"
    BY <1>1, <1>4 DEF WatchOf, P!States, P!Rows
  <2>4. missing'[p] \in 0..AbsentFramesToDelete - 1
    BY <1>1, <1>3, <1>4, AbsentAssumption
  <2>5. last'[p] \in P!Rows \union {"unborn"} /\ (p \in order' <=> last'[p] # "unborn")
    BY <1>1, <1>3, <1>4 DEF P!Rows
  <2>6. told'[p] \in P!Rows \union {"nothing", "deleted"}
    BY <1>1, <1>3, <1>4 DEF P!Rows
  <2>7. missing'[p] > 0 => p \in order /\ p \notin S /\ p \in order'
    BY <1>1, <1>3, <1>4
  <2>8. WatchOf(p)'
    <3>1. p \in gone' <=> told'[p] = "deleted"
      BY <1>1, <1>3, <1>4 DEF WatchOf, P!Rows
    <3>2. p \in gone' => podState[p] = "gone"
      BY <1>3, <1>4, <2>1 DEF WatchOf
    <3>3. p \in order' => podState[p] # "unborn" /\ p \notin gone'
      BY <1>1, <1>3, <1>4, <2>2 DEF WatchOf
    <3>4. missing'[p] > 0 /\ owed' # "truth" => podState[p] = "gone"
      BY <2>3, <2>7
    <3>5. QED
      BY <1>4, <3>1, <3>2, <3>3, <3>4 DEF WatchOf
  <2>9. QED
    BY <2>4, <2>5, <2>6, <2>7, <2>8
<1>6. DOMAIN last' = WatchedPods /\ DOMAIN missing' = WatchedPods /\ DOMAIN told' = WatchedPods
  BY DEF P!PrintFrame, P!RowsAfter, P!Missing
<1>7. order' \subseteq WatchedPods /\ gone' \subseteq WatchedPods
  BY <1>2 DEF P!PrintFrame, WatchInv, P!TypeOK, S, D
<1>8. /\ last' = [p \in WatchedPods |-> last'[p]] /\ missing' = [p \in WatchedPods |-> missing'[p]]
      /\ told' = [p \in WatchedPods |-> told'[p]]
  BY DEF P!PrintFrame, P!RowsAfter, P!Missing
<1>9. QED
  BY <1>5, <1>7, <1>8

LEMMA WatchNext == WatchInv /\ (P!Next \/ UNCHANGED watchVars) => WatchInv'
<1> SUFFICES ASSUME WatchInv, P!Next \/ UNCHANGED watchVars PROVE WatchInv'
  OBVIOUS
<1>1. CASE P!TrueFrame
  <2>1. P!PrintFrame(podState) /\ owed' = "nothing" /\ UNCHANGED <<podState, podEarlier, stale, watchOutcome>>
    BY <1>1 DEF P!TrueFrame
  <2>2. podState \in [WatchedPods -> P!States]
    BY DEF WatchInv, P!TypeOK
  <2>3. QED
    BY <2>1, <2>2, FrameInv DEF WatchInv, P!TypeOK
<1>2. CASE P!StaleFrame
  <2>1. /\ P!PrintFrame(podEarlier) /\ owed # "truth" /\ owed' = "truth" /\ stale < MaxStale /\ stale' = stale + 1
        /\ UNCHANGED <<podState, podEarlier, watchOutcome>>
    BY <1>2 DEF P!StaleFrame
  <2>2. podEarlier \in [WatchedPods -> P!States]
    BY DEF WatchInv, P!TypeOK
  <2>3. stale' \in 0..MaxStale
    BY <2>1, BoundsAssumption DEF WatchInv, P!TypeOK
  <2>4. QED
    BY <2>1, <2>2, <2>3, FrameInv DEF WatchInv, P!TypeOK
<1>3. CASE P!Stop \/ P!Lag \/ UNCHANGED watchVars
  <2>1. /\ UNCHANGED <<podState, owed, stale, last, order, missing, gone, told>>
        /\ podEarlier' \in {podEarlier, podState}
        /\ watchOutcome' \in {watchOutcome, "interrupted", "dropped"}
    BY <1>3 DEF P!Stop, P!Lag, watchVars, P!serverVars, P!printerVars
  <2>2. QED
    BY <2>1 DEF WatchInv, P!TypeOK, WatchOf
<1>4. ASSUME NEW q \in WatchedPods, P!PodChanges(q) PROVE WatchInv'
  <2>1. /\ UNCHANGED <<podEarlier, stale, last, order, missing, gone, told, watchOutcome>>
        /\ owed' = (IF owed = "nothing" THEN "change" ELSE owed)
        /\ podState[q] \notin {"gone"}
        /\ \E s \in {"pending", "running", "terminating", "gone"} : podState' = [podState EXCEPT ![q] = s]
    BY <1>4 DEF P!PodChanges, P!printerVars
  <2>2. podState' \in [WatchedPods -> P!States]
    BY <2>1 DEF WatchInv, P!TypeOK, P!States, P!Rows
  <2>3. ASSUME NEW p \in WatchedPods PROVE WatchOf(p)'
    <3>2. podState[p] = "gone" => podState'[p] = "gone"
      BY <2>1 DEF WatchInv, P!TypeOK
    <3>3. podState[p] # "unborn" => podState'[p] # "unborn"
      BY <2>1 DEF WatchInv, P!TypeOK
    <3>4. WatchOf(p)
      BY DEF WatchInv
    <3>5. QED
      BY <2>1, <3>2, <3>3, <3>4 DEF WatchOf
  <2>4. QED
    BY <2>1, <2>2, <2>3 DEF WatchInv, P!TypeOK
<1>5. QED
  BY <1>1, <1>2, <1>3, <1>4 DEF P!Next

-----------------------------------------------------------------------------
(* wait app.                                                               *)

\* Ids are handed out once; a target that was resolved is one of them.  Nothing
\* has failed for good while the command runs.
WaitInv ==
  /\ W!TypeOK /\ W!DeletedIsGone /\ W!FailsForAReason
  /\ app <= created
  /\ waitPc = "resolve" => target = W!NoApp
  /\ waitPc # "done" => ~broken /\ waitOutcome = "running"

LEMMA WaitInit == W!Init => WaitInv
<1> SUFFICES ASSUME W!Init PROVE WaitInv
  OBVIOUS
<1>1. app \in 0..MaxApps /\ created \in 0..MaxApps /\ target \in 0..created /\ app <= created
  BY BoundsAssumption DEF W!Init, W!NoApp
<1>2. W!TypeOK
  BY <1>1 DEF W!Init, W!TypeOK, W!Healths, W!NoApp
<1>3. QED
  BY <1>1, <1>2 DEF W!Init, WaitInv, W!DeletedIsGone, W!FailsForAReason, W!NoApp

LEMMA WaitNext == WaitInv /\ (W!Next \/ UNCHANGED waitVars) => WaitInv'
<1> SUFFICES ASSUME WaitInv, W!Next \/ UNCHANGED waitVars PROVE WaitInv'
  OBVIOUS
<1> USE BoundsAssumption DEF WaitInv, W!TypeOK, W!DeletedIsGone, W!FailsForAReason, W!NoApp
<1>1. CASE W!Resolve
  <2> PICK failed \in BOOLEAN :
        /\ broken' = failed
        /\ IF W!NoSuchApp(app # W!NoApp, failed)
             THEN W!Finish(IF cond = "deleted" THEN "deleted" ELSE "failed") /\ UNCHANGED target
           ELSE IF failed THEN W!Finish("failed") /\ UNCHANGED target
           ELSE W!Goto("poll") /\ target' = app
    BY <1>1 DEF W!Resolve
  <2>1. UNCHANGED <<app, health, created, cond, waitExpired>> /\ waitPc = "resolve"
    BY <1>1 DEF W!Resolve, W!appVars
  <2>2. CASE app = W!NoApp /\ ~failed
    BY <2>1, <2>2 DEF W!NoSuchApp, W!Finish
  <2>3. CASE failed
    BY <2>1, <2>3 DEF W!NoSuchApp, W!Finish
  <2>4. CASE app # W!NoApp /\ ~failed
    BY <2>1, <2>4 DEF W!NoSuchApp, W!Goto
  <2>5. QED
    BY <2>2, <2>3, <2>4
<1>2. CASE W!Check
  BY <1>2 DEF W!Check, W!Finish, W!Goto, W!appVars
<1>3. CASE W!CheckFails
  BY <1>3 DEF W!CheckFails, W!Swallowed, W!Finish, W!Goto, W!appVars
<1>4. CASE W!Tick \/ W!TimeOut \/ W!Expire
  <2>1. UNCHANGED <<app, health, created, cond, target, broken>> /\ waitPc \in {"poll", "select"}
    BY <1>4 DEF W!Tick, W!TimeOut, W!Expire, W!appVars
  <2>2. waitExpired' \in BOOLEAN
    BY <1>4 DEF W!Tick, W!TimeOut, W!Expire
  <2>3. \/ waitPc' \in {"poll", "select"} /\ waitOutcome' = waitOutcome
        \/ waitPc' = "done" /\ waitOutcome' = "timedOut"
    BY <1>4 DEF W!Tick, W!TimeOut, W!Expire, W!Finish, W!Goto
  <2>4. QED
    BY <2>1, <2>2, <2>3
<1>5. CASE (\E h \in W!Healths : W!HealthChanges(h)) \/ W!Delete \/ W!Create
  BY <1>5 DEF W!HealthChanges, W!Delete, W!Create, W!waitVars, W!Healths
<1>6. CASE UNCHANGED waitVars
  BY <1>6 DEF waitVars
<1>7. QED
  BY <1>1, <1>2, <1>3, <1>4, <1>5, <1>6 DEF W!Next, W!Round

-----------------------------------------------------------------------------
(* rollout restart --wait, set image --wait and rollout status.            *)

Original == [p \in R!Pods |-> IF p <= Replicas THEN "ready" ELSE "unborn"]

\* The last list of the read that the wait is in is true.
Decided == rolloutPc = "wait" /\ reading = "settle" /\ fresh = "yes"

\* What has been shown of a pod was so: a pod seen has been born, and one seen
\* gone is gone.
ShownOf(p) ==
  /\ earlier[p] # "unborn" \/ list[p] # "unborn" \/ p \in old => state[p] # "unborn"
  /\ earlier[p] = "gone" \/ list[p] = "gone" => state[p] = "gone"

\* Whenever the rollout is over during the wait it has been noted, and so it
\* has if the list that will decide says so.
Noted ==
  /\ rolloutPc \in {"wait", "pause"} /\ R!OverNow => settled
  /\ Decided /\ R!RolloutDone(list, old) => settled

\* Before the request and without a disturbance the cluster stands still, so
\* the snapshot holds all the pods there will be when the request is sent.
Still ==
  rolloutPc \in {"snapshot", "prompt", "request"} /\ disturbances = 0 =>
    /\ state = Original /\ earlier = Original /\ ~restartAsked
    /\ template = 0 /\ \A p \in R!Pods : gen[p] = 0
    /\ reading = "settle" => list = Original
    /\ rolloutPc # "snapshot" => old = R!Present(Original)

\* Once an undisturbed restart waits, every list that may still come is younger
\* than the snapshot, whose pods it knows: one that shows none of them is from
\* the wait, and what it shows was noted.
Undisturbed == restarting /\ ~disturbed /\ rolloutPc \in {"wait", "pause"}
YoungerThanSnapshot(l) == (\A p \in old : l[p] # "unborn") /\ (R!RolloutDone(l, old) => settled)
Younger ==
  Undisturbed =>
    /\ YoungerThanSnapshot(earlier)
    /\ reading = "settle" => YoungerThanSnapshot(list)

Replaced ==
  /\ rolloutPc \in {"snapshot", "prompt", "request"} => rolloutBefore = {}
  /\ rolloutPc \in {"prompt", "request"} => restarting
  /\ restarting /\ ~disturbed => rolloutBefore \subseteq old

RollInv ==
  /\ R!TypeOK
  /\ \A p \in R!Pods : ShownOf(p)
  /\ Noted /\ Still /\ Younger /\ Replaced
  /\ reading # "settle" => fresh = "no"
  /\ ~R!Reading => reading = "closed"
  /\ rolloutPc # "done" => rolloutOutcome = "running"
  /\ R!RolledOutWasOver

LEMMA RollInit == R!Init => RollInv
<1> SUFFICES ASSUME R!Init PROVE RollInv
  OBVIOUS
<1> USE DEF R!Init
<1>1. Original \in R!PodMap /\ R!NoPods \in R!PodMap
  BY DEF Original, R!PodMap, R!States, R!NoPods
<1>2. R!TypeOK
  <2>1. {state, earlier, list} \subseteq R!PodMap
    BY <1>1 DEF Original
  <2>2. gen \in [R!Pods -> Nat] /\ template \in Nat /\ disturbances \in 0..MaxDisturbances
        /\ rolloutFaults \in 0..MaxFaults
    BY BoundsAssumption
  <2>3. QED
    BY <2>1, <2>2 DEF R!TypeOK, R!Phases, R!Outcomes
<1>3. \A p \in R!Pods : ShownOf(p)
  BY DEF ShownOf, Decided, R!NoPods
<1>4. Noted
  BY DEF Noted, Decided
<1>5. Still
  BY DEF Still, Original
<1>6. Replaced /\ Younger
  BY DEF Replaced, Younger, Undisturbed
<1>7. R!RolledOutWasOver
  BY DEF R!RolledOutWasOver
<1>8. QED
  BY <1>2, <1>3, <1>4, <1>5, <1>6, <1>7 DEF RollInv, R!Reading

LEMMA OverKept == UNCHANGED <<state, old>> => (R!OverNow' <=> R!OverNow)
BY DEF R!OverNow, R!Present

LEMMA DoneKept == UNCHANGED <<list, old>> => (R!RolloutDone(list, old)' <=> R!RolloutDone(list, old))
BY DEF R!RolloutDone, R!Present

\* The pods as they are show those of the snapshot, and if they decide the wait
\* it has been noted.
LEMMA TruthIsYounger == RollInv /\ Undisturbed => YoungerThanSnapshot(state)
<1> SUFFICES ASSUME RollInv, Undisturbed PROVE YoungerThanSnapshot(state)
  OBVIOUS
<1>1. R!RolloutDone(state, old) => R!OverNow
  BY DEF R!RolloutDone, R!OverNow, R!Present, R!Serving, R!Terminating
<1>2. QED
  BY <1>1 DEF RollInv, R!TypeOK, Noted, Undisturbed, YoungerThanSnapshot

\* What is younger than the snapshot stays so.
LEMMA StaysYounger ==
  ASSUME Younger, UNCHANGED <<restarting, disturbed, old, earlier, list>>, settled => settled',
         rolloutPc' \in {"wait", "pause"} => rolloutPc \in {"wait", "pause"},
         reading' = "settle" => reading = "settle"
  PROVE  Younger'
<1> SUFFICES ASSUME Undisturbed' PROVE YoungerThanSnapshot(earlier)' /\ (reading' = "settle" => YoungerThanSnapshot(list)')
  BY DEF Younger
<1>1. Undisturbed
  BY DEF Undisturbed
<1>2. ASSUME NEW l, NEW m, m = l, YoungerThanSnapshot(l), old' = old
      PROVE  (\A p \in old' : m[p] # "unborn") /\ (R!RolloutDone(m, old') => settled')
  BY <1>2 DEF YoungerThanSnapshot
<1>3. QED
  BY <1>1, DoneKept DEF Younger, YoungerThanSnapshot, R!RolloutDone, R!Present

\* All pods of the app are ready and none is of an older rollout.
LEMMA FullyStaffed ==
  ASSUME state = Original, template = 0, \A p \in R!Pods : gen[p] = 0
  PROVE  ~(Cardinality(R!Newest) < Replicas)
<1>1. R!Newest = 1..Replicas
  BY RolloutAssumption, BoundsAssumption DEF R!Newest, R!Running, R!Pods, Original
<1>2. Cardinality(1..Replicas) = Replicas
  BY RolloutAssumption, FS_Interval
<1>3. QED
  BY <1>1, <1>2, RolloutAssumption, BoundsAssumption

\* A pod of the cluster takes a step.
LEMMA PodMoves ==
  ASSUME RollInv, NEW q \in R!Pods, NEW s \in R!States \ {"unborn"}, R!Becomes(q, s),
         state[q] # "gone", gen' \in [R!Pods -> Nat], disturbances' \in 0..MaxDisturbances,
         rolloutPc \in {"snapshot", "prompt", "request"} => disturbances' # 0
  PROVE  RollInv'
<1>1. /\ state' = [state EXCEPT ![q] = s]
      /\ UNCHANGED <<template, restartAsked, earlier, reading, list, fresh, rolloutFaults, restarting, rolloutPc,
                     rolloutOutcome, old, misled, rolloutExpired, rolloutBefore, disturbed>>
      /\ settled' = (settled \/ (rolloutPc' \in {"wait", "pause"} /\ R!Over(state')))
  BY DEF R!Becomes, R!Noting, R!readVars, R!commandVars
<1>2. R!TypeOK
  BY DEF RollInv
<1>3. /\ state' \in R!PodMap /\ \A p \in R!Pods : state'[p] = IF p = q THEN s ELSE state[p]
      /\ \A p \in R!Pods : state[p] # "unborn" => state'[p] # "unborn"
      /\ \A p \in R!Pods : state[p] = "gone" => state'[p] = "gone"
  BY <1>1, <1>2 DEF R!TypeOK, R!PodMap
<1>4. settled' \in BOOLEAN /\ (settled => settled')
  BY <1>1, <1>2 DEF R!TypeOK
<1>5. R!TypeOK'
  BY <1>1, <1>2, <1>3, <1>4 DEF R!TypeOK
<1>6. \A p \in R!Pods : ShownOf(p)'
  BY <1>1, <1>3 DEF RollInv, ShownOf, Decided
<1>7. Noted'
  <2>1. rolloutPc' \in {"wait", "pause"} /\ R!OverNow' => settled'
    BY <1>1 DEF R!OverNow, R!Over
  <2>2. Decided' /\ R!RolloutDone(list, old)' => settled'
    BY <1>1, <1>4, DoneKept DEF RollInv, Noted, Decided
  <2>3. QED
    BY <2>1, <2>2 DEF Noted
<1>8. Still' /\ Replaced'
  BY <1>1 DEF RollInv, Still, Replaced
<1>a. Younger'
  BY <1>1, <1>4, StaysYounger DEF RollInv
<1>9. R!RolledOutWasOver'
  <2>1. R!RolledOutWasOver
    BY DEF RollInv
  <2>2. rolloutBefore \subseteq R!Pods
    BY <1>2 DEF R!TypeOK
  <2>3. QED
    BY <1>1, <1>3, <1>4, <2>1, <2>2 DEF R!RolledOutWasOver
<1>10. QED
  BY <1>1, <1>5, <1>6, <1>7, <1>8, <1>9, <1>a DEF RollInv, R!Reading

\* One of the five steps of a pod.
LEMMA PodSteps ==
  ASSUME RollInv, NEW q \in R!Pods,
         R!StartPod(q) \/ R!PodReady(q) \/ R!RetirePod(q) \/ R!PodStops(q) \/ R!PodDisturbed(q)
  PROVE  RollInv'
<1> DEFINE early == rolloutPc \in {"snapshot", "prompt", "request"}
<1>1. R!TypeOK /\ Still /\ q \in R!Pods /\ state[q] \in R!States
  BY DEF RollInv, R!TypeOK, R!PodMap
<1>2. early /\ disturbances = 0 =>
        /\ state[q] \in {"ready", "unborn"} /\ gen[q] = template
        /\ ~(R!Cardinality(R!Newest) < Replicas)
  <2>1. Cardinality(R!Newest) = R!Cardinality(R!Newest)
    BY DEF Cardinality, R!Cardinality
  <2>2. QED
    BY <1>1, <2>1, FullyStaffed DEF Still, Original
<1>3. CASE R!StartPod(q)
  <2>1. R!Becomes(q, "starting") /\ state[q] = "unborn" /\ UNCHANGED disturbances
        /\ gen' = [gen EXCEPT ![q] = template] /\ R!Cardinality(R!Newest) < Replicas
    BY <1>3 DEF R!StartPod
  <2>2. gen' \in [R!Pods -> Nat] /\ disturbances' \in 0..MaxDisturbances
    BY <1>1, <2>1 DEF R!TypeOK
  <2>3. QED
    BY <1>1, <1>2, <2>1, <2>2, PodMoves DEF R!States
<1>4. CASE R!PodReady(q)
  <2>1. R!Becomes(q, "ready") /\ state[q] \in {"starting", "crashing"} /\ UNCHANGED <<gen, disturbances>>
    BY <1>4 DEF R!PodReady
  <2>2. gen' \in [R!Pods -> Nat] /\ disturbances' \in 0..MaxDisturbances
    BY <1>1, <2>1 DEF R!TypeOK
  <2>3. QED
    BY <1>1, <1>2, <2>1, <2>2, PodMoves DEF R!States
<1>5. CASE R!RetirePod(q)
  <2>1. /\ R!Becomes(q, R!Stopped(q)) /\ state[q] # "gone" /\ gen[q] # template
        /\ UNCHANGED <<gen, disturbances>>
    BY <1>5 DEF R!RetirePod, R!Running
  <2>2. gen' \in [R!Pods -> Nat] /\ disturbances' \in 0..MaxDisturbances
    BY <1>1, <2>1 DEF R!TypeOK
  <2>3. R!Stopped(q) \in R!States \ {"unborn"}
    BY DEF R!Stopped, R!States
  <2>4. QED
    BY <1>1, <1>2, <2>1, <2>2, <2>3, PodMoves
<1>6. CASE R!PodStops(q)
  <2>1. /\ \E s \in {"stopping", "gone"} : R!Becomes(q, s)
        /\ state[q] \in {"draining", "stopping"} /\ UNCHANGED <<gen, disturbances>>
    BY <1>6 DEF R!PodStops
  <2>2. gen' \in [R!Pods -> Nat] /\ disturbances' \in 0..MaxDisturbances
    BY <1>1, <2>1 DEF R!TypeOK
  <2>3. QED
    BY <1>1, <1>2, <2>1, <2>2, PodMoves DEF R!States
<1>7. CASE R!PodDisturbed(q)
  <2>1. /\ R!Becomes(q, "crashing") \/ R!Becomes(q, R!Stopped(q))
        /\ state[q] # "gone" /\ UNCHANGED gen
        /\ disturbances < MaxDisturbances /\ disturbances' = disturbances + 1
    BY <1>7 DEF R!PodDisturbed, R!Running
  <2>2. gen' \in [R!Pods -> Nat] /\ disturbances' \in 0..MaxDisturbances /\ disturbances' # 0
    BY <1>1, <2>1, BoundsAssumption DEF R!TypeOK
  <2>3. R!Stopped(q) \in R!States \ {"unborn"} /\ "crashing" \in R!States \ {"unborn"}
    BY DEF R!Stopped, R!States
  <2>4. QED
    BY <1>1, <2>1, <2>2, <2>3, PodMoves
<1>8. QED
  BY <1>3, <1>4, <1>5, <1>6, <1>7

\* A rollout begins, or a stale frame will show something later.
LEMMA ClusterSteps == RollInv /\ (R!Roll \/ R!Lag) => RollInv'
<1> SUFFICES ASSUME RollInv, R!Roll \/ R!Lag PROVE RollInv'
  OBVIOUS
<1>1. /\ UNCHANGED <<state, gen, reading, list, fresh, rolloutFaults, restarting, rolloutPc, rolloutOutcome,
                     old, misled, rolloutExpired, rolloutBefore, disturbed, settled>>
      /\ R!TypeOK /\ earlier' \in {earlier, state}
      /\ template' \in {template, template + 1}
  BY DEF R!Roll, R!Lag, R!readVars, R!commandVars, RollInv
<1>2. restartAsked' \in BOOLEAN /\ disturbances' \in 0..MaxDisturbances
  <2>1. R!Roll => \/ restartAsked' = FALSE /\ disturbances' = disturbances
                  \/ /\ disturbances < MaxDisturbances /\ disturbances' = disturbances + 1
                     /\ restartAsked' = restartAsked
    BY DEF R!Roll
  <2>2. R!Lag => restartAsked' = restartAsked /\ disturbances' = disturbances
    BY DEF R!Lag
  <2>3. QED
    <3>1. restartAsked \in BOOLEAN /\ disturbances \in 0..MaxDisturbances /\ MaxDisturbances \in Nat
      BY <1>1, BoundsAssumption DEF R!TypeOK
    <3>2. disturbances' \in 0..MaxDisturbances
      BY <2>1, <2>2, <3>1
    <3>3. restartAsked' = FALSE \/ restartAsked' = restartAsked
      BY <2>1, <2>2
    <3>4. QED
      BY <3>1, <3>2, <3>3
<1>3. R!TypeOK'
  BY <1>1, <1>2 DEF R!TypeOK
<1>4. \A p \in R!Pods : ShownOf(p)'
  BY <1>1 DEF RollInv, ShownOf, Decided
<1>5. Noted'
  BY <1>1, OverKept, DoneKept DEF RollInv, Noted, Decided
<1>6. Still'
  <2>1. CASE R!Roll
    <3>1. restartAsked \/ disturbances' = disturbances + 1
      BY <2>1 DEF R!Roll
    <3>2. disturbances' = disturbances \/ disturbances' = disturbances + 1
      BY <2>1 DEF R!Roll
    <3>3. rolloutPc \in {"snapshot", "prompt", "request"} => disturbances' # 0
      BY <1>1, <3>1, <3>2 DEF RollInv, Still, R!TypeOK
    <3>4. QED
      BY <1>1, <3>3 DEF Still
  <2>2. CASE R!Lag
    BY <1>1, <2>2 DEF R!Lag, RollInv, Still
  <2>3. QED
    BY <2>1, <2>2
<1>7. Replaced'
  BY <1>1 DEF RollInv, Replaced
<1>a. Younger'
  <2>1. ASSUME UNCHANGED earlier PROVE Younger'
    BY <1>1, <2>1, StaysYounger DEF RollInv
  <2>2. ASSUME earlier' = state, Undisturbed' PROVE YoungerThanSnapshot(earlier)'
    <3>1. Undisturbed
      BY <1>1, <2>2 DEF Undisturbed
    <3>2. YoungerThanSnapshot(state)
      BY <3>1, TruthIsYounger
    <3>3. QED
      BY <1>1, <2>2, <3>2 DEF YoungerThanSnapshot, R!RolloutDone, R!Present
  <2>3. ASSUME Undisturbed', reading' = "settle" PROVE YoungerThanSnapshot(list)'
    BY <1>1, <2>3, DoneKept DEF RollInv, Younger, Undisturbed, YoungerThanSnapshot
  <2>4. QED
    BY <1>1, <2>1, <2>2, <2>3 DEF Younger
<1>8. R!RolledOutWasOver'
  BY <1>1 DEF RollInv, R!RolledOutWasOver
<1>9. QED
  BY <1>1, <1>3, <1>4, <1>5, <1>6, <1>7, <1>8, <1>a DEF RollInv, R!Reading

\* A list comes in, the truth or a stale one.
LEMMA ListSteps == RollInv /\ (R!FirstList \/ R!NextList) => RollInv'
<1> SUFFICES ASSUME RollInv, R!FirstList \/ R!NextList PROVE RollInv'
  OBVIOUS
<1>1. /\ UNCHANGED <<state, gen, template, restartAsked, earlier, disturbances, restarting,
                     rolloutPc, rolloutOutcome, old, misled, rolloutExpired, rolloutBefore, disturbed, settled>>
      /\ R!TypeOK /\ reading \in {"first", "settle"} /\ reading' = "settle"
  BY DEF R!FirstList, R!NextList, R!clusterVars, R!commandVars, RollInv
<1>2. list' \in {state, earlier} /\ fresh' \in {"no", "yes", "overtaken"}
  BY DEF R!FirstList, R!NextList, R!TrueList, R!StaleList
<1>3. fresh' = "yes" => list' = state
  BY DEF R!FirstList, R!NextList, R!TrueList, R!StaleList
<1>b. rolloutFaults' \in 0..MaxFaults
  <2>1. rolloutFaults' = rolloutFaults \/ (rolloutFaults < MaxFaults /\ rolloutFaults' = rolloutFaults + 1)
    BY DEF R!FirstList, R!NextList
  <2>2. rolloutFaults \in 0..MaxFaults /\ MaxFaults \in Nat
    BY <1>1, BoundsAssumption DEF R!TypeOK
  <2>3. QED
    BY <2>1, <2>2
<1>4. R!TypeOK'
  BY <1>1, <1>2, <1>b DEF R!TypeOK
<1>5. \A p \in R!Pods : ShownOf(p)'
  BY <1>1, <1>2, <1>3 DEF RollInv, ShownOf, Decided
<1>6. Noted'
  <2>1. rolloutPc' \in {"wait", "pause"} /\ R!OverNow' => settled'
    BY <1>1, OverKept DEF RollInv, Noted
  <2>2. ASSUME Decided', R!RolloutDone(list, old)' PROVE settled'
    <3>1. list' = state /\ rolloutPc = "wait" /\ R!RolloutDone(state, old)
      BY <1>1, <1>3, <2>2 DEF Decided, R!RolloutDone, R!Present
    <3>2. R!OverNow
      BY <3>1 DEF R!RolloutDone, R!OverNow, R!Serving, R!Terminating
    <3>3. QED
      BY <1>1, <3>1, <3>2 DEF RollInv, Noted
  <2>3. QED
    BY <2>1, <2>2 DEF Noted
<1>7. Still'
  BY <1>1, <1>2 DEF RollInv, Still
<1>8. Replaced'
  BY <1>1 DEF RollInv, Replaced
<1>a. Younger'
  <2> SUFFICES ASSUME Undisturbed' PROVE YoungerThanSnapshot(earlier)' /\ YoungerThanSnapshot(list)'
    BY DEF Younger
  <2>1. Undisturbed
    BY <1>1 DEF Undisturbed
  <2>2. YoungerThanSnapshot(state) /\ YoungerThanSnapshot(earlier)
    BY <2>1, TruthIsYounger DEF RollInv, Younger
  <2>3. QED
    BY <1>1, <1>2, <2>2 DEF YoungerThanSnapshot, R!RolloutDone, R!Present
<1>9. R!RolledOutWasOver'
  BY <1>1 DEF RollInv, R!RolledOutWasOver
<1>10. QED
  BY <1>1, <1>4, <1>5, <1>6, <1>7, <1>8, <1>9, <1>a DEF RollInv, R!Reading

\* The command goes on without having read a list.
LEMMA WaitSteps ==
  RollInv /\ (R!Connect \/ R!ReadFails \/ R!Answer \/ R!Pause \/ R!Expire \/ UNCHANGED rolloutVars) => RollInv'
<1> SUFFICES ASSUME RollInv,
                    R!Connect \/ R!ReadFails \/ R!Answer \/ R!Pause \/ R!Expire \/ UNCHANGED rolloutVars
             PROVE  RollInv'
  OBVIOUS
<1>1. /\ UNCHANGED <<state, gen, template, restartAsked, earlier, disturbances, list, fresh, restarting, old,
                     misled, rolloutBefore, disturbed, settled>>
      /\ R!TypeOK
  BY DEF R!Connect, R!ReadFails, R!Answer, R!Pause, R!Expire, rolloutVars, R!clusterVars, R!commandVars,
         R!readVars, RollInv
<1> DEFINE Steps == {<<"pause", "wait">>, <<"wait", "pause">>, <<"prompt", "request">>}
<1>2. /\ reading' = reading \/ {reading, reading'} \subseteq {"closed", "first"}
      /\ \/ rolloutPc' = rolloutPc
         \/ rolloutPc' = "done" /\ reading' = "closed"
         \/ <<rolloutPc, rolloutPc'>> \in Steps /\ reading' = "closed"
      /\ rolloutPc' # "done" => rolloutOutcome' = rolloutOutcome
      /\ rolloutOutcome' \in {rolloutOutcome, "failed", "aborted", "timedOut"}
      /\ ~R!Reading' => reading' = "closed"
  <2> USE DEF RollInv, R!Reading
  <2>1. CASE R!Connect
    BY <2>1 DEF R!Connect, R!commandVars
  <2>2. CASE R!ReadFails
    BY <2>2 DEF R!ReadFails, R!Finish, R!Goto
  <2>3. CASE R!Answer
    BY <2>3 DEF R!Answer, R!Finish, R!Goto, R!readVars
  <2>4. CASE R!Pause
    BY <2>4 DEF R!Pause, R!AfterPause, R!Finish, R!Goto, R!readVars
  <2>5. CASE R!Expire
    BY <2>5 DEF R!Expire, R!readVars
  <2>6. CASE UNCHANGED rolloutVars
    BY <2>6 DEF rolloutVars
  <2>7. QED
    BY <2>1, <2>2, <2>3, <2>4, <2>5, <2>6
<1>3. rolloutExpired' \in BOOLEAN /\ rolloutFaults' \in 0..MaxFaults
  <2>1. rolloutExpired' = rolloutExpired \/ rolloutExpired' = TRUE
    BY DEF R!Connect, R!ReadFails, R!Answer, R!Pause, R!Expire, rolloutVars, R!commandVars
  <2>2. \/ rolloutFaults' = rolloutFaults
        \/ rolloutFaults < MaxFaults /\ rolloutFaults' = rolloutFaults + 1
    <3>1. R!ReadFails => \/ rolloutFaults' = rolloutFaults
                         \/ rolloutFaults < MaxFaults /\ rolloutFaults' = rolloutFaults + 1
      BY DEF R!ReadFails
    <3>2. QED
      BY <3>1 DEF R!Connect, R!Answer, R!Pause, R!Expire, rolloutVars, R!readVars
  <2>3. rolloutFaults \in 0..MaxFaults /\ MaxFaults \in Nat /\ rolloutExpired \in BOOLEAN
    BY <1>1, BoundsAssumption DEF R!TypeOK
  <2>4. rolloutFaults' \in 0..MaxFaults
    BY <2>2, <2>3
  <2>5. QED
    BY <2>1, <2>3, <2>4
<1>4. R!TypeOK'
  <2>1. rolloutPc' \in R!Phases /\ rolloutOutcome' \in R!Outcomes /\ reading' \in {"closed", "first", "settle"}
    BY <1>1, <1>2 DEF R!TypeOK, R!Phases, R!Outcomes
  <2>2. QED
    BY <1>1, <1>3, <2>1 DEF R!TypeOK
<1>5. reading' = "settle" => UNCHANGED <<reading, rolloutPc>>
  BY <1>2
<1>6. /\ rolloutPc' \in {"wait", "pause"} => rolloutPc \in {"wait", "pause"}
      /\ rolloutPc' \in {"prompt", "request"} => rolloutPc \in {"prompt", "request"}
      /\ rolloutPc' = "snapshot" => rolloutPc = "snapshot"
      /\ rolloutPc = "done" => rolloutPc' = "done"
  BY <1>1, <1>2 DEF R!TypeOK, R!Phases
<1> HIDE DEF Steps
<1>7. \A p \in R!Pods : ShownOf(p)'
  BY <1>1, <1>5 DEF RollInv, ShownOf, Decided
<1>8. Noted'
  BY <1>1, <1>5, <1>6, OverKept, DoneKept DEF RollInv, Noted, Decided
<1>9. Still' /\ Replaced'
  BY <1>1, <1>5, <1>6 DEF RollInv, Still, Replaced
<1>a. Younger'
  BY <1>1, <1>5, <1>6, StaysYounger DEF RollInv
<1>10. R!RolledOutWasOver'
  BY <1>1, <1>2 DEF RollInv, R!RolledOutWasOver
<1>11. QED
  BY <1>1, <1>2, <1>4, <1>5, <1>6, <1>7, <1>8, <1>9, <1>10, <1>a DEF RollInv

\* The restart or the image change is sent, with an answer or without.
LEMMA RequestStep == RollInv /\ R!Request => RollInv'
<1> SUFFICES ASSUME RollInv, R!Request PROVE RollInv'
  OBVIOUS
<1>1. /\ UNCHANGED <<state, gen, template, earlier, disturbances, reading, list, fresh, rolloutFaults, restarting,
                     old, misled, rolloutExpired>>
      /\ R!TypeOK /\ rolloutPc = "request" /\ reading = "closed" /\ fresh = "no"
      /\ rolloutBefore' = R!Present(state) /\ disturbed' = (disturbances > 0)
      /\ settled' = (settled \/ (rolloutPc' \in {"wait", "pause"} /\ R!Over(state)))
  BY DEF R!Request, R!readVars, R!Noting, R!Reading, RollInv
<1>2. /\ restartAsked' \in BOOLEAN
      /\ \/ rolloutPc' = "wait" /\ rolloutOutcome' = rolloutOutcome
         \/ rolloutPc' = "done" /\ rolloutOutcome' = "failed"
  BY <1>1 DEF R!Request, R!Goto, R!Finish, R!TypeOK
<1>3. rolloutBefore' \subseteq R!Pods /\ settled' \in BOOLEAN /\ disturbed' \in BOOLEAN
  BY <1>1 DEF R!Present, R!TypeOK
<1>4. R!TypeOK'
  BY <1>1, <1>2, <1>3 DEF R!TypeOK, R!Phases, R!Outcomes
<1>5. \A p \in R!Pods : ShownOf(p)'
  BY <1>1 DEF RollInv, ShownOf, Decided
<1>6. Noted'
  <2>1. R!OverNow' => R!Over(state)
    BY <1>1 DEF R!OverNow, R!Over, R!Present
  <2>2. QED
    BY <1>1, <2>1 DEF Noted, Decided
<1>7. Still'
  BY <1>2 DEF Still
<1>8. Replaced'
  <2>1. ~disturbed' => disturbances = 0
    <3>1. disturbances \in 0..MaxDisturbances /\ MaxDisturbances \in Nat
      BY <1>1, BoundsAssumption DEF R!TypeOK
    <3>2. ~(disturbances > 0) => disturbances = 0
      BY <3>1
    <3>3. QED
      BY <1>1, <3>2
  <2>2. ~disturbed' => rolloutBefore' = old'
    BY <1>1, <2>1 DEF RollInv, Still
  <2>3. QED
    BY <1>2, <2>2 DEF Replaced
<1>a. Younger'
  <2> SUFFICES ASSUME Undisturbed' PROVE YoungerThanSnapshot(earlier)'
    BY <1>1 DEF Younger
  <2>1. disturbances = 0
    <3>1. disturbances \in 0..MaxDisturbances /\ MaxDisturbances \in Nat
      BY <1>1, BoundsAssumption DEF R!TypeOK
    <3>2. ~(disturbances > 0) => disturbances = 0
      BY <3>1
    <3>3. QED
      BY <1>1, <3>2 DEF Undisturbed
  <2>2. earlier = Original /\ old = R!Present(Original)
    BY <1>1, <2>1 DEF RollInv, Still
  <2>3. 1 \in R!Present(Original)
    BY RolloutAssumption, BoundsAssumption DEF R!Present, Original, R!Pods
  <2>4. QED
    BY <1>1, <2>2, <2>3 DEF YoungerThanSnapshot, R!RolloutDone, R!Present
<1>9. R!RolledOutWasOver'
  BY <1>1, <1>2 DEF RollInv, R!RolledOutWasOver
<1>10. QED
  BY <1>1, <1>2, <1>4, <1>5, <1>6, <1>7, <1>8, <1>9, <1>a DEF RollInv, R!Reading

\* A read returns: the snapshot is taken, or the list decides the round.
LEMMA ReturnStep == RollInv /\ (R!CloseWindow \/ R!StreamEnds) => RollInv'
<1> SUFFICES ASSUME RollInv, R!CloseWindow \/ R!StreamEnds PROVE RollInv'
  OBVIOUS
<1>1. /\ reading = "settle" /\ R!Return /\ R!TypeOK
      /\ misled' \in BOOLEAN /\ (~misled' => fresh = "yes")
  BY DEF R!CloseWindow, R!StreamEnds, R!WindowOver, RollInv, R!TypeOK
<1>2. rolloutFaults' \in 0..MaxFaults
  <2>1. rolloutFaults' = rolloutFaults \/ (rolloutFaults < MaxFaults /\ rolloutFaults' = rolloutFaults + 1)
    BY DEF R!CloseWindow, R!StreamEnds
  <2>2. rolloutFaults \in 0..MaxFaults /\ MaxFaults \in Nat
    BY <1>1, BoundsAssumption DEF R!TypeOK
  <2>3. QED
    BY <2>1, <2>2
<1>3. /\ UNCHANGED <<state, gen, template, restartAsked, earlier, disturbances, restarting, rolloutExpired,
                     rolloutBefore, disturbed>>
      /\ reading' = "closed" /\ list' = R!NoPods /\ fresh' = "no"
      /\ settled' = (settled \/ (rolloutPc' \in {"wait", "pause"} /\ R!Over(state)))
  BY <1>1 DEF R!Return, R!clusterVars, R!Noting
<1>4. \/ /\ rolloutPc = "snapshot" /\ old' = R!OldPods(list)
         /\ rolloutPc' = (IF restarting THEN "prompt" ELSE "wait") /\ rolloutOutcome' = rolloutOutcome
      \/ /\ rolloutPc = "wait" /\ old' = old
         /\ \/ R!RolloutDone(list, old) /\ rolloutPc' = "done" /\ rolloutOutcome' = "rolledOut"
            \/ rolloutPc' = "pause" /\ rolloutOutcome' = rolloutOutcome
  BY <1>1 DEF R!Return, R!Goto, R!Finish
<1>5. old' \subseteq {p \in R!Pods : state[p] # "unborn"}
  <2>1. R!OldPods(list) \subseteq {p \in R!Pods : state[p] # "unborn"}
    BY DEF R!OldPods, R!Present, RollInv, ShownOf
  <2>2. QED
    BY <1>1, <1>4, <2>1 DEF R!TypeOK
<1>6. R!TypeOK'
  <2>1. R!NoPods \in R!PodMap
    BY DEF R!NoPods, R!PodMap, R!States
  <2>2. rolloutPc' \in R!Phases /\ rolloutOutcome' \in R!Outcomes
    BY <1>1, <1>4 DEF R!TypeOK, R!Phases, R!Outcomes
  <2>3. settled' \in BOOLEAN /\ misled' \in BOOLEAN
    BY <1>1, <1>3 DEF R!TypeOK
  <2>4. QED
    BY <1>1, <1>2, <1>3, <1>5, <2>1, <2>2, <2>3 DEF R!TypeOK
<1>7. \A p \in R!Pods : ShownOf(p)'
  BY <1>3, <1>5 DEF RollInv, ShownOf, Decided, R!NoPods
<1>8. Noted'
  <2>1. R!OverNow' => R!Over(state)
    BY <1>3 DEF R!OverNow, R!Over, R!Present
  <2>2. QED
    BY <1>3, <2>1 DEF Noted, Decided
<1>9. Still'
  <2>1. rolloutPc = "snapshot" /\ rolloutPc' = "prompt" /\ disturbances = 0 => old' = R!Present(Original)
    BY <1>1, <1>4 DEF RollInv, Still, R!OldPods
  <2>2. QED
    BY <1>3, <1>4, <2>1 DEF RollInv, Still
<1>10. Replaced'
  BY <1>3, <1>4 DEF RollInv, Replaced
<1>a. Younger'
  <2> SUFFICES ASSUME Undisturbed' PROVE YoungerThanSnapshot(earlier)'
    BY <1>3 DEF Younger
  <2>1. Undisturbed /\ old' = old
    BY <1>3, <1>4 DEF Undisturbed
  <2>2. QED
    BY <1>3, <2>1 DEF RollInv, Younger, YoungerThanSnapshot, R!RolloutDone, R!Present
<1>11. R!RolledOutWasOver'
  <2> SUFFICES ASSUME rolloutOutcome' = "rolledOut"
               PROVE  /\ (restarting /\ ~disturbed) \/ ~misled' => settled
                      /\ restarting /\ ~disturbed => \A p \in rolloutBefore : state[p] = "gone"
    BY <1>3 DEF R!RolledOutWasOver
  <2>1. rolloutPc = "wait" /\ R!RolloutDone(list, old)
    BY <1>4 DEF RollInv
  <2>2. ~misled' => settled
    BY <1>1, <2>1 DEF Decided, RollInv, Noted
  <2>3. ASSUME restarting, ~disturbed PROVE settled /\ \A p \in rolloutBefore : state[p] = "gone"
    <3>1. YoungerThanSnapshot(list)
      BY <1>1, <2>1, <2>3 DEF RollInv, Younger, Undisturbed
    <3>2. ASSUME NEW p \in old PROVE state[p] = "gone"
      <4>1. p \in R!Pods /\ list[p] \in R!States /\ p \notin R!Present(list) /\ list[p] # "unborn"
        BY <1>1, <2>1, <3>1 DEF R!TypeOK, R!PodMap, R!RolloutDone, YoungerThanSnapshot
      <4>2. list[p] = "gone"
        BY <4>1 DEF R!Present
      <4>3. QED
        BY <4>1, <4>2 DEF RollInv, ShownOf
    <3>3. QED
      BY <2>1, <2>3, <3>1, <3>2 DEF RollInv, Replaced, YoungerThanSnapshot
  <2>4. QED
    BY <2>2, <2>3
<1>12. QED
  BY <1>3, <1>4, <1>6, <1>7, <1>8, <1>9, <1>10, <1>11, <1>a DEF RollInv

LEMMA RollNext == RollInv /\ (R!Next \/ UNCHANGED rolloutVars) => RollInv'
BY PodSteps, ClusterSteps, ListSteps, WaitSteps, RequestStep, ReturnStep DEF R!Next, R!Command, R!Cluster

-----------------------------------------------------------------------------
(* build start, retry, logs and stop.                                      *)

LogOf(b, n) ==
  /\ b.run <= n + 1 /\ Len(b.log) <= MaxLog
  /\ \A k \in 1..Len(b.log) : b.log[k] = b.run

\* What counts as printed of the log is the end of what has been printed, and
\* of one run, unless a log begun again was taken for a longer one.
EndsIn(s, n, r) == n <= Len(s) /\ \A k \in 1..Len(s) : k > Len(s) - n => s[k] = r

Shown == EndsIn(out, printed, out[Len(out)])

\* While nobody else starts a build: there is none but the newest remembered
\* and, once it was asked for and queued, our own.
Alone ==
  verb = "start" /\ others = 0 =>
    /\ pc = "newest" => ~asked
    /\ pc \in {"prompt", "request"} => ~asked /\ before = Len(builds)
    /\ pc = "await" => \/ asked /\ before = Len(builds)
                       \/ ~asked /\ Len(builds) = before + 1 /\ builds[Len(builds)].owner = B!Ours
    /\ id # B!NoBuild => builds[id].owner = B!Ours

BuildInv ==
  /\ B!TypeOK /\ Alone /\ B!EndsWithTheBuild
  /\ \A i \in 1..Len(builds) : LogOf(builds[i], resets)
  /\ unseen \/ Shown
  /\ pc \in {"newest", "await"} => verb = "start"
  /\ verb # "start" => id # B!NoBuild
  /\ verb = "start" /\ pc \in {"newest", "prompt", "request", "await"} => id = B!NoBuild
  /\ pc # "done" <=> outcome = "running"
  /\ outcome \in {"succeeded", "buildFailed"} => id # B!NoBuild

LEMMA BuildInit == B!Init => BuildInv
<1> SUFFICES ASSUME B!Init PROVE BuildInv
  OBVIOUS
<1> DEFINE new(s) == [status |-> s, log |-> <<>>, run |-> 1, owner |-> B!Theirs]
<1>1. new("initiated") \in B!Build /\ new("failed") \in B!Build
  <2>1. <<>> \in Seq(1..MaxResets + 1) /\ 1 \in 1..MaxResets + 1
    BY BoundsAssumption
  <2>2. QED
    BY <2>1 DEF B!Build, B!InProgressStates, B!Final, B!Theirs, B!Ours
<1>2. LogOf(new("initiated"), resets) /\ LogOf(new("failed"), resets)
  BY BoundsAssumption DEF B!Init, LogOf
<1>3. /\ builds \in Seq(B!Build) /\ \A i \in 1..Len(builds) : LogOf(builds[i], resets)
      /\ verb # "start" => Len(builds) = 1
  <2>1. builds \in {<<>>, <<new("initiated")>>, <<new("failed")>>} /\ (verb # "start" => builds # <<>>)
    BY DEF B!Init, B!NewBuild
  <2> HIDE DEF new
  <2>2. CASE builds = <<>>
    BY <2>1, <2>2
  <2>3. CASE builds = <<new("initiated")>>
    BY <1>1, <1>2, <2>3
  <2>4. CASE builds = <<new("failed")>>
    BY <1>1, <1>2, <2>4
  <2>5. QED
    BY <2>1, <2>2, <2>3, <2>4
<1>4. id \in 0..Len(builds) /\ before \in 0..Len(builds)
  BY <1>3 DEF B!Init, B!NoBuild
<1>5. B!TypeOK
  <2>1. others \in 0..MaxOthers /\ resets \in 0..MaxResets /\ faults \in 0..MaxFaults /\ printed \in 0..MaxLog
    BY BoundsAssumption DEF B!Init
  <2>2. verb \in {"start", "retry", "logs", "stop"} /\ pc \in B!Phases /\ outcome \in B!Outcomes
        /\ (pc \in {"follow", "pause"} => id # B!NoBuild)
    BY DEF B!Init, B!Phases, B!Outcomes, B!NoBuild
  <2>3. out \in Seq(1..MaxResets + 1) /\ expired \in BOOLEAN /\ unseen \in BOOLEAN /\ asked \in BOOLEAN
    <3>1. out = <<>> /\ expired = FALSE /\ unseen = FALSE /\ asked = FALSE
      BY DEF B!Init
    <3>2. <<>> \in Seq(1..MaxResets + 1)
      OBVIOUS
    <3>3. QED
      BY <3>1, <3>2
  <2>4. QED
    BY <1>3, <1>4, <2>1, <2>2, <2>3 DEF B!TypeOK
<1>6. Alone /\ B!EndsWithTheBuild
  BY DEF B!Init, Alone, B!EndsWithTheBuild, B!NoBuild
<1>7. Shown
  BY DEF B!Init, Shown, EndsIn
<1>8. QED
  BY <1>3, <1>5, <1>6, <1>7 DEF BuildInv, B!Init, B!NoBuild

\* The command goes on, without a request and without reading a log.
LEMMA PollSteps ==
  BuildInv /\ (B!Newest \/ B!Answer \/ B!Await \/ B!Pause \/ B!ReadFails \/ B!Expire \/ UNCHANGED buildVars)
    => BuildInv'
<1> SUFFICES ASSUME BuildInv, B!Newest \/ B!Answer \/ B!Await \/ B!Pause \/ B!ReadFails \/ B!Expire
                               \/ UNCHANGED buildVars
             PROVE  BuildInv'
  OBVIOUS
<1>1. UNCHANGED <<builds, asked, others, resets, verb, printed, out, unseen>> /\ B!TypeOK
  BY DEF BuildInv, B!Newest, B!Answer, B!Await, B!Pause, B!ReadFails, B!Expire, B!platformVars, buildVars
<1>2. /\ expired' \in {expired, TRUE}
      /\ faults' = faults \/ (faults < MaxFaults /\ faults' = faults + 1)
  BY DEF B!Newest, B!Answer, B!Await, B!Pause, B!ReadFails, B!Expire, buildVars
<1>3. expired' \in BOOLEAN /\ faults' \in 0..MaxFaults
  <2>1. expired \in BOOLEAN /\ faults \in 0..MaxFaults /\ MaxFaults \in Nat
    BY <1>1, BoundsAssumption DEF B!TypeOK
  <2>2. faults' \in 0..MaxFaults
    BY <1>2, <2>1
  <2>3. QED
    BY <1>2, <2>1, <2>2
<1>4. /\ before' = before \/ (pc = "newest" /\ before' = Len(builds))
      /\ id' = id \/ (B!IsNew /\ pc = "await" /\ id' = Len(builds) /\ pc' = "follow")
      /\ \/ pc' = pc /\ outcome' = outcome
         \/ pc' = "done" /\ pc # "done" /\ outcome' \in {"failed", "aborted", "notSeen"}
         \/ /\ <<pc, pc'>> \in {<<"newest", "prompt">>, <<"prompt", "request">>, <<"follow", "pause">>,
                                <<"pause", "follow">>}
            /\ outcome' = outcome /\ id' = id
         \/ pc = "await" /\ pc' = "follow" /\ outcome' = outcome /\ id' = Len(builds) /\ B!IsNew
      /\ pc = "newest" /\ pc' = "prompt" => before' = Len(builds)
      /\ pc # "newest" \/ pc' # "prompt" => before' = before
  <2> USE DEF B!Goto, B!Finish, B!Latest, B!IsNew, BuildInv
  <2>1. CASE B!Newest
    BY <2>1 DEF B!Newest
  <2>2. CASE B!Answer
    BY <2>2 DEF B!Answer
  <2>3. CASE B!Await
    BY <2>3 DEF B!Await
  <2>4. CASE B!Pause
    BY <2>4 DEF B!Pause
  <2>5. CASE B!ReadFails
    BY <2>5 DEF B!ReadFails
  <2>6. CASE B!Expire \/ UNCHANGED buildVars
    BY <2>6 DEF B!Expire, buildVars
  <2>7. QED
    BY <2>1, <2>2, <2>3, <2>4, <2>5, <2>6
<1>5. B!TypeOK'
  <2>1. Len(builds) \in Nat
    BY <1>1 DEF B!TypeOK
  <2>2. before' \in 0..Len(builds) /\ id' \in 0..Len(builds)
    BY <1>1, <1>4, <2>1 DEF B!TypeOK
  <2>3. pc' \in B!Phases /\ outcome' \in B!Outcomes
    BY <1>1, <1>4 DEF B!TypeOK, B!Phases, B!Outcomes
  <2>4. pc' \in {"follow", "pause"} => id' # B!NoBuild
    BY <1>1, <1>4 DEF B!TypeOK, B!IsNew, B!Latest
  <2>5. QED
    BY <1>1, <1>3, <2>2, <2>3, <2>4 DEF B!TypeOK
<1>6. Alone'
  <2> SUFFICES ASSUME verb = "start", others = 0 PROVE
       /\ pc' = "newest" => ~asked
       /\ pc' \in {"prompt", "request"} => ~asked /\ before' = Len(builds)
       /\ pc' = "await" => \/ (asked /\ before' = Len(builds))
                           \/ (~asked /\ Len(builds) = before' + 1 /\ builds[Len(builds)].owner = B!Ours)
       /\ id' # B!NoBuild => builds[id'].owner = B!Ours
    BY <1>1 DEF Alone
  <2>1. id' # B!NoBuild => builds[id'].owner = B!Ours
    BY <1>4 DEF BuildInv, Alone, B!IsNew, B!Latest
  <2>2. QED
    BY <1>4, <2>1 DEF BuildInv, Alone
<1>7. B!EndsWithTheBuild'
  BY <1>1, <1>4 DEF BuildInv, B!EndsWithTheBuild
<1>8. /\ \A i \in 1..Len(builds') : LogOf(builds'[i], resets')
      /\ unseen' \/ Shown'
  BY <1>1 DEF BuildInv, LogOf, Shown
<1>9. /\ pc' \in {"newest", "await"} => verb' = "start"
      /\ verb' # "start" => id' # B!NoBuild
      /\ verb' = "start" /\ pc' \in {"newest", "prompt", "request", "await"} => id' = B!NoBuild
      /\ pc' # "done" <=> outcome' = "running"
      /\ outcome' \in {"succeeded", "buildFailed"} => id' # B!NoBuild
  BY <1>1, <1>4 DEF BuildInv, B!IsNew, B!Latest
<1>10. QED
  BY <1>5, <1>6, <1>7, <1>8, <1>9 DEF BuildInv

\* One build is replaced by another record.
LEMMA OneBuild ==
  ASSUME builds \in Seq(B!Build), NEW i \in 1..Len(builds), NEW b \in B!Build,
         builds' = [builds EXCEPT ![i] = b]
  PROVE  /\ builds' \in Seq(B!Build) /\ Len(builds') = Len(builds)
         /\ \A j \in 1..Len(builds) : builds'[j] = IF j = i THEN b ELSE builds[j]
OBVIOUS

\* The build that is followed makes a step.
LEMMA BuildMoves ==
  ASSUME BuildInv, id \in 1..Len(builds), builds[id].status \in B!InProgressStates,
         NEW b \in B!Build, builds' = [builds EXCEPT ![id] = b], b.owner = builds[id].owner, LogOf(b, resets'),
         resets' \in resets..MaxResets,
         UNCHANGED <<asked, others, verb, pc, before, id, printed, out, faults, expired, outcome, unseen>>
  PROVE  BuildInv'
<1>1. B!TypeOK
  BY DEF BuildInv
<1>2. /\ builds' \in Seq(B!Build) /\ Len(builds') = Len(builds)
      /\ \A j \in 1..Len(builds) : builds'[j] = IF j = id THEN b ELSE builds[j]
  BY <1>1, OneBuild DEF B!TypeOK
<1>3. resets \in Nat /\ resets' \in Nat /\ resets' \in 0..MaxResets /\ resets <= resets'
  BY <1>1, BoundsAssumption DEF B!TypeOK
<1>4. B!TypeOK'
  BY <1>1, <1>2, <1>3 DEF B!TypeOK
<1>5. \A j \in 1..Len(builds) : builds'[j].owner = builds[j].owner
  BY <1>2
<1>6. Alone'
  <2>1. Len(builds) \in Nat /\ before \in Nat
    BY <1>1 DEF B!TypeOK
  <2>2. Alone
    BY DEF BuildInv
  <2>3. Len(builds) = before + 1 => Len(builds) \in 1..Len(builds)
    BY <2>1
  <2>4. builds'[id].owner = builds[id].owner
    BY <1>5
  <2>5. Len(builds) = before + 1 => builds'[Len(builds)].owner = builds[Len(builds)].owner
    BY <1>5, <2>3
  <2>6. QED
    BY <1>2, <2>2, <2>4, <2>5 DEF Alone
<1>7. B!EndsWithTheBuild'
  <2>1. ~(outcome \in {"succeeded", "buildFailed"})
    BY DEF BuildInv, B!EndsWithTheBuild, B!InProgressStates, B!Final
  <2>2. QED
    BY <2>1 DEF B!EndsWithTheBuild
<1>8. \A j \in 1..Len(builds') : LogOf(builds'[j], resets')
  <2> SUFFICES ASSUME NEW j \in 1..Len(builds) PROVE LogOf(builds'[j], resets')
    BY <1>2
  <2>1. CASE j = id
    BY <1>2, <2>1 DEF LogOf
  <2>2. CASE j # id
    <3>1. LogOf(builds[j], resets) /\ builds'[j] = builds[j] /\ builds[j] \in B!Build
      BY <1>1, <1>2, <2>2 DEF BuildInv, B!TypeOK
    <3>2. builds[j].run \in Nat
      BY <3>1, BoundsAssumption DEF B!Build
    <3>3. QED
      BY <1>3, <3>1, <3>2 DEF LogOf
  <2>3. QED
    BY <2>1, <2>2
<1>9. unseen' \/ Shown'
  BY DEF BuildInv, Shown
<1>10. QED
  BY <1>4, <1>6, <1>7, <1>8, <1>9 DEF BuildInv

\* The build that is followed runs, writes, is begun again or ends.
LEMMA WorkSteps ==
  ASSUME BuildInv, NEW i \in 1..Len(builds), B!Work(i) \/ B!End(i)
  PROVE  BuildInv'
<1>1. /\ i = id /\ builds[i].status \in B!InProgressStates
      /\ UNCHANGED <<asked, others, verb, pc, before, id, printed, out, faults, expired, outcome, unseen>>
      /\ B!TypeOK /\ builds[i] \in B!Build /\ LogOf(builds[i], resets)
  BY DEF B!Work, B!End, B!commandVars, B!InProgressStates, BuildInv, B!TypeOK
<1>2. /\ builds[i].log \in Seq(1..MaxResets + 1) /\ builds[i].run \in 1..MaxResets + 1
      /\ resets \in 0..MaxResets /\ MaxResets \in Nat /\ MaxLog \in Nat
      /\ builds[i].run <= resets + 1
  BY <1>1, BoundsAssumption DEF B!Build, B!TypeOK, LogOf
<1>3. ASSUME NEW s \in B!InProgressStates \union B!Final, builds' = [builds EXCEPT ![i].status = s], resets' = resets
      PROVE  BuildInv'
  <2> PICK b : b = [builds[i] EXCEPT !.status = s]
    OBVIOUS
  <2>1. b \in B!Build /\ b.owner = builds[i].owner /\ b.run = builds[i].run /\ b.log = builds[i].log
    BY <1>1 DEF B!Build
  <2>2. builds' = [builds EXCEPT ![i] = b]
    BY <1>3
  <2>3. LogOf(b, resets')
    BY <1>1, <1>3, <2>1 DEF LogOf
  <2>4. QED
    <3>1. builds' = [builds EXCEPT ![id] = b] /\ b.owner = builds[id].owner
      BY <1>1, <2>1, <2>2, <2>3
    <3>2. resets' \in resets..MaxResets
      BY <1>2, <1>3
    <3>3. QED
      BY <1>1, <3>1, <3>2, <2>1, <2>2, <2>3, BuildMoves
<1>4. CASE B!End(i)
  BY <1>3, <1>4 DEF B!End
<1>5. CASE builds' = [builds EXCEPT ![i].status = "running"] /\ resets' = resets
  BY <1>3, <1>5 DEF B!InProgressStates
<1>6. CASE /\ Len(builds[i].log) < MaxLog /\ resets' = resets
           /\ builds' = [builds EXCEPT ![i].log = Append(@, builds[i].run)]
  <2> PICK log : log = Append(builds[i].log, builds[i].run)
    OBVIOUS
  <2> PICK b : b = [builds[i] EXCEPT !.log = log]
    OBVIOUS
  <2>1. /\ log \in Seq(1..MaxResets + 1) /\ Len(log) = Len(builds[i].log) + 1
        /\ \A k \in 1..Len(log) : log[k] = builds[i].run
    BY <1>1, <1>2 DEF LogOf
  <2>2. builds' = [builds EXCEPT ![i] = b]
    BY <1>6
  <2>3. b \in B!Build /\ b.owner = builds[i].owner /\ b.run = builds[i].run /\ b.log = log
    BY <1>1, <2>1 DEF B!Build
  <2>4. Len(log) <= MaxLog
    BY <1>2, <1>6, <2>1
  <2>5. LogOf(b, resets')
    BY <1>2, <1>6, <2>1, <2>3, <2>4 DEF LogOf
  <2>6. QED
    <3>1. builds' = [builds EXCEPT ![id] = b] /\ b.owner = builds[id].owner
      BY <1>1, <2>2, <2>3, <2>5
    <3>2. resets' \in resets..MaxResets
      BY <1>2, <1>6
    <3>3. QED
      BY <1>1, <3>1, <3>2, <2>2, <2>3, <2>5, BuildMoves
<1>7. CASE /\ resets < MaxResets /\ resets' = resets + 1
           /\ builds' = [builds EXCEPT ![i].log = <<>>, ![i].run = @ + 1]
  <2> PICK b : b = [builds[i] EXCEPT !.log = <<>>, !.run = @ + 1]
    OBVIOUS
  <2>1. builds[i].run + 1 \in 1..MaxResets + 1 /\ <<>> \in Seq(1..MaxResets + 1)
    BY <1>2, <1>7
  <2>2. builds' = [builds EXCEPT ![i] = b]
    BY <1>7
  <2>3. b \in B!Build /\ b.owner = builds[i].owner /\ b.run = builds[i].run + 1 /\ b.log = <<>>
    BY <1>1, <2>1 DEF B!Build
  <2>4. LogOf(b, resets')
    BY <1>2, <1>7, <2>3 DEF LogOf
  <2>5. QED
    <3>1. builds' = [builds EXCEPT ![id] = b] /\ b.owner = builds[id].owner
      BY <1>1, <2>2, <2>3, <2>4
    <3>2. resets' \in resets..MaxResets
      BY <1>2, <1>7
    <3>3. QED
      BY <1>1, <3>1, <3>2, <2>2, <2>3, <2>4, BuildMoves
<1>8. QED
  BY <1>4, <1>5, <1>6, <1>7 DEF B!Work

\* A build is queued after the others.
LEMMA AnotherBuild ==
  ASSUME BuildInv, NEW o \in {B!Ours, B!Theirs}, builds' = Append(builds, B!NewBuild(o)), resets' = resets
  PROVE  /\ builds' \in Seq(B!Build) /\ Len(builds') = Len(builds) + 1 /\ Len(builds) \in Nat
         /\ \A j \in 1..Len(builds) : builds'[j] = builds[j]
         /\ builds'[Len(builds')].owner = o
         /\ \A j \in 1..Len(builds') : LogOf(builds'[j], resets')
<1> PICK b : b = B!NewBuild(o)
  OBVIOUS
<1>1. b \in B!Build /\ b.owner = o /\ b.run = 1 /\ b.log = <<>>
  <2>1. <<>> \in Seq(1..MaxResets + 1) /\ 1 \in 1..MaxResets + 1
    BY BoundsAssumption
  <2>2. QED
    BY <2>1 DEF B!NewBuild, B!Build, B!InProgressStates
<1>2. builds \in Seq(B!Build) /\ resets \in Nat /\ MaxLog \in Nat
  BY BoundsAssumption DEF BuildInv, B!TypeOK
<1>3. LogOf(b, resets)
  BY <1>1, <1>2 DEF LogOf
<1>4. /\ builds' \in Seq(B!Build) /\ Len(builds') = Len(builds) + 1 /\ Len(builds) \in Nat
      /\ \A j \in 1..Len(builds) : builds'[j] = builds[j]
      /\ builds'[Len(builds')] = b
  BY <1>1, <1>2
<1>5. \A j \in 1..Len(builds') : LogOf(builds'[j], resets')
  <2> SUFFICES ASSUME NEW j \in 1..Len(builds') PROVE LogOf(builds'[j], resets)
    OBVIOUS
  <2>1. j \in 1..Len(builds) \/ j = Len(builds')
    BY <1>4
  <2>2. QED
    BY <1>3, <1>4, <2>1 DEF BuildInv
<1>6. QED
  BY <1>1, <1>4, <1>5

\* The build asked for is queued, or somebody else's.
LEMMA QueueStep == BuildInv /\ B!Queue => BuildInv'
<1> SUFFICES ASSUME BuildInv, B!Queue PROVE BuildInv'
  OBVIOUS
<1>1. /\ UNCHANGED <<resets, verb, pc, before, id, printed, out, faults, expired, outcome, unseen>>
      /\ B!TypeOK
  BY DEF B!Queue, B!commandVars, BuildInv
<1>2. \/ asked /\ asked' = FALSE /\ others' = others /\ builds' = Append(builds, B!NewBuild(B!Ours))
      \/ /\ others < MaxOthers /\ others' = others + 1 /\ asked' = asked
         /\ builds' = Append(builds, B!NewBuild(B!Theirs))
  BY DEF B!Queue
<1>3. /\ builds' \in Seq(B!Build) /\ Len(builds') = Len(builds) + 1 /\ Len(builds) \in Nat
      /\ \A j \in 1..Len(builds) : builds'[j] = builds[j]
      /\ others' = others => builds'[Len(builds')].owner = B!Ours
      /\ \A j \in 1..Len(builds') : LogOf(builds'[j], resets')
  <2>1. others \in Nat
    BY <1>1, BoundsAssumption DEF B!TypeOK
  <2>2. CASE builds' = Append(builds, B!NewBuild(B!Ours))
    BY <1>1, <2>2, AnotherBuild
  <2>3. CASE builds' = Append(builds, B!NewBuild(B!Theirs)) /\ others' = others + 1
    BY <1>1, <2>1, <2>3, AnotherBuild
  <2>4. QED
    BY <1>2, <2>2, <2>3
<1>4. /\ asked' \in BOOLEAN /\ others' \in 0..MaxOthers
      /\ others' = 0 => others = 0 /\ others' = others /\ asked /\ ~asked'
  <2>1. others \in 0..MaxOthers /\ MaxOthers \in Nat /\ asked \in BOOLEAN
    BY <1>1, BoundsAssumption DEF B!TypeOK
  <2>2. others' \in 0..MaxOthers
    BY <1>2, <2>1
  <2>3. asked' \in BOOLEAN
    BY <1>2, <2>1
  <2>4. others' = 0 => others' = others
    BY <1>2, <2>1
  <2>5. others' = others => asked /\ asked' = FALSE
    BY <1>2, <2>1
  <2>6. QED
    BY <2>2, <2>3, <2>4, <2>5
<1>5. before' \in 0..Len(builds') /\ id' \in 0..Len(builds') /\ (id # B!NoBuild => id \in 1..Len(builds))
  BY <1>1, <1>3 DEF B!TypeOK, B!NoBuild
<1>6. B!TypeOK'
  BY <1>1, <1>3, <1>4, <1>5 DEF B!TypeOK
<1>7. Alone'
  BY <1>1, <1>3, <1>4, <1>5 DEF BuildInv, Alone
<1>8. B!EndsWithTheBuild'
  <2>1. outcome \in {"succeeded", "buildFailed"} => builds[id].status \in B!Final
    BY DEF BuildInv, B!EndsWithTheBuild
  <2>2. QED
    BY <1>1, <1>3, <1>5, <2>1 DEF BuildInv, B!EndsWithTheBuild
<1>9. unseen' \/ Shown'
  BY <1>1 DEF BuildInv, Shown
<1>10. QED
  BY <1>1, <1>3, <1>6, <1>7, <1>8, <1>9 DEF BuildInv

\* The last n elements of a sequence.
LEMMA LastOf ==
  ASSUME NEW S, NEW p \in Seq(S), NEW n \in 0..Len(p)
  PROVE  /\ SubSeq(p, Len(p) - n + 1, Len(p)) \in Seq(S)
         /\ Len(SubSeq(p, Len(p) - n + 1, Len(p))) = n
         /\ \A k \in 1..n : SubSeq(p, Len(p) - n + 1, Len(p))[k] = p[Len(p) - n + k]
OBVIOUS

\* A sequence with the rest of a log after it.
WithRest(p, o, log, kept) ==
  /\ Len(p) = Len(o) + Len(log) - kept
  /\ \A k \in 1..Len(p) : p[k] = IF k <= Len(o) THEN o[k] ELSE log[kept + k - Len(o)]

LEMMA RestAdded ==
  ASSUME NEW S, NEW o \in Seq(S), NEW log \in Seq(S), NEW kept \in 0..Len(log),
         NEW p, p = o \o SubSeq(log, kept + 1, Len(log))
  PROVE  p \in Seq(S) /\ WithRest(p, o, log, kept)
<1>1. /\ p \in Seq(S) /\ Len(p) = Len(o) + Len(log) - kept
      /\ \A k \in 1..Len(p) : p[k] = IF k <= Len(o) THEN o[k] ELSE log[kept + k - Len(o)]
  OBVIOUS
<1>2. QED
  BY <1>1 DEF WithRest

\* If the last kept elements of a sequence are all r, and so is every line of a
\* log, then with the rest of the log after it the sequence ends in that log.
LEMMA EndsInLog ==
  ASSUME NEW S, NEW o \in Seq(S), NEW log \in Seq(S), NEW p \in Seq(S), NEW kept \in 0..Len(log), NEW r,
         EndsIn(log, Len(log), r), EndsIn(o, kept, r), WithRest(p, o, log, kept)
  PROVE  EndsIn(p, Len(log), r) /\ SubSeq(p, Len(p) - Len(log) + 1, Len(p)) = log
<1> USE DEF EndsIn, WithRest
<1>a. \A k \in 1..Len(log) : log[k] = r
  OBVIOUS
<1>1. Len(log) \in Nat /\ Len(o) \in Nat /\ Len(p) \in Nat /\ Len(log) <= Len(p)
  OBVIOUS
<1>2. ASSUME NEW k \in 1..Len(p), k > Len(p) - Len(log) PROVE p[k] = r
  <2>1. k > Len(o) - kept
    BY <1>1, <1>2
  <2>2. CASE k <= Len(o)
    BY <1>1, <2>1, <2>2
  <2>3. CASE k > Len(o)
    <3>1. kept + k - Len(o) \in 1..Len(log)
      BY <1>1, <2>3
    <3>2. QED
      BY <1>a, <1>1, <2>3, <3>1
  <2>4. QED
    BY <1>1, <2>2, <2>3
<1>3. PICK s : s = SubSeq(p, Len(p) - Len(log) + 1, Len(p))
  OBVIOUS
<1>4. s \in Seq(S) /\ Len(s) = Len(log) /\ \A k \in 1..Len(log) : s[k] = p[Len(p) - Len(log) + k]
  <2>1. Len(log) \in 0..Len(p)
    BY <1>1
  <2>2. QED
    BY <1>3, <2>1, LastOf
<1>5. ASSUME NEW k \in 1..Len(log) PROVE s[k] = log[k]
  <2>1. /\ Len(p) - Len(log) + k \in 1..Len(p)
        /\ Len(p) - Len(log) + k > Len(p) - Len(log)
    BY <1>1
  <2>2. p[Len(p) - Len(log) + k] = r
    BY <1>2, <2>1
  <2>3. QED
    BY <1>a, <1>4, <2>2
<1>6. s = log
  BY <1>4, <1>5, SeqEqual
<1>7. QED
  BY <1>1, <1>2, <1>3, <1>6

\* A round of followBuild: what is new of the log is printed.
LEMMA FollowStep == BuildInv /\ B!FollowBuild => BuildInv'
<1> SUFFICES ASSUME BuildInv, B!FollowBuild PROVE BuildInv'
  OBVIOUS
<1>a. PICK log, kept, Lines : log = builds[id].log /\ kept = B!Kept(log) /\ Lines = 1..MaxResets + 1
  OBVIOUS
<1>1. /\ UNCHANGED <<builds, asked, others, resets, verb, before, id, faults, expired>>
      /\ B!TypeOK /\ pc = "follow"
      /\ out' = out \o SubSeq(log, kept + 1, Len(log)) /\ printed' = Len(log)
      /\ unseen' = (unseen \/ (kept \in 1..Len(log) /\ out[Len(out)] # log[kept]))
  BY <1>a DEF B!FollowBuild, B!platformVars, BuildInv
<1>2. \/ pc' = "pause" /\ outcome' = outcome
      \/ /\ pc' = "done" /\ outcome' \in {"succeeded", "buildFailed"}
         /\ ~B!InProgress(builds[id])
         /\ outcome' = "succeeded" <=> builds[id].status = "succeeded"
  BY DEF B!FollowBuild, B!Goto, B!Finish
<1>3. id # B!NoBuild /\ id \in 1..Len(builds) /\ builds[id] \in B!Build /\ LogOf(builds[id], resets)
  BY <1>1 DEF BuildInv, B!TypeOK, B!NoBuild
<1>4. /\ log \in Seq(Lines) /\ Len(log) \in Nat /\ Len(log) <= MaxLog
      /\ \A k \in 1..Len(log) : log[k] = builds[id].run
  BY <1>a, <1>3 DEF LogOf, B!Build
<1>5. /\ printed \in Nat /\ out \in Seq(Lines) /\ Len(out) \in Nat /\ MaxLog \in Nat
      /\ unseen \in BOOLEAN
  BY <1>a, <1>1, BoundsAssumption DEF B!TypeOK
<1>6. kept = (IF Len(log) < printed THEN 0 ELSE printed) /\ kept \in 0..Len(log)
  BY <1>a, <1>4, <1>5 DEF B!Kept
<1>7. out' \in Seq(Lines) /\ WithRest(out', out, log, kept)
  <2>1. PICK o, p : o = out /\ p = out'
    OBVIOUS
  <2>2. o \in Seq(Lines) /\ p = o \o SubSeq(log, kept + 1, Len(log))
    BY <1>1, <1>5, <2>1
  <2>3. log \in Seq(Lines) /\ kept \in 0..Len(log)
    BY <1>4, <1>6
  <2>4. p \in Seq(Lines) /\ WithRest(p, o, log, kept)
    BY <2>2, <2>3, RestAdded
  <2>5. QED
    BY <2>1, <2>4
<1>8. ASSUME ~unseen'
      PROVE  /\ EndsIn(out', Len(log), builds[id].run)
             /\ SubSeq(out', Len(out') - Len(log) + 1, Len(out')) = log
  <2>1. Shown /\ (kept \in 1..Len(log) => out[Len(out)] = log[kept])
    BY <1>1, <1>8 DEF BuildInv
  <2>2. EndsIn(out, kept, builds[id].run)
    BY <1>4, <1>5, <1>6, <2>1 DEF Shown, EndsIn
  <2>3. EndsIn(log, Len(log), builds[id].run)
    BY <1>4 DEF EndsIn
  <2>4. PICK o, p, r : o = out /\ p = out' /\ r = builds[id].run
    OBVIOUS
  <2>5. EndsIn(log, Len(log), r) /\ EndsIn(o, kept, r) /\ WithRest(p, o, log, kept)
    BY <1>7, <2>2, <2>3, <2>4
  <2>6. o \in Seq(Lines) /\ p \in Seq(Lines) /\ log \in Seq(Lines) /\ kept \in 0..Len(log)
    BY <1>4, <1>5, <1>6, <1>7, <2>4
  <2>7. EndsIn(p, Len(log), r) /\ SubSeq(p, Len(p) - Len(log) + 1, Len(p)) = log
    BY <2>5, <2>6, EndsInLog
  <2>8. QED
    BY <2>4, <2>7
<1>9. B!TypeOK'
  <2>1. printed' \in 0..MaxLog
    BY <1>1, <1>4, <1>5
  <2>2. unseen' \in BOOLEAN
    BY <1>1, <1>5
  <2>3. pc' \in B!Phases /\ outcome' \in B!Outcomes
    BY <1>1, <1>2 DEF B!TypeOK, B!Phases, B!Outcomes
  <2>4. QED
    BY <1>a, <1>1, <1>3, <1>7, <2>1, <2>2, <2>3 DEF B!TypeOK
<1>10. Alone'
  BY <1>1, <1>2 DEF BuildInv, Alone
<1>11. ASSUME ~unseen' PROVE Shown'
  <2>1. EndsIn(out', Len(log), builds[id].run) /\ Len(out') \in Nat
    BY <1>7, <1>8, <1>11
  <2>2. EndsIn(out', Len(log), out'[Len(out')])
    BY <1>4, <2>1 DEF EndsIn
  <2>3. QED
    BY <1>1, <2>2 DEF Shown
<1>12. B!EndsWithTheBuild'
  <2> SUFFICES ASSUME outcome' \in {"succeeded", "buildFailed"}
               PROVE  /\ builds[id].status \in B!Final
                      /\ outcome' = "succeeded" <=> builds[id].status = "succeeded"
                      /\ unseen' \/ (Len(out') >= Len(log) /\ SubSeq(out', Len(out') - Len(log) + 1, Len(out')) = log)
    BY <1>a, <1>1 DEF B!EndsWithTheBuild
  <2>1. outcome = "running"
    BY <1>1 DEF BuildInv
  <2>2. ~B!InProgress(builds[id]) /\ (outcome' = "succeeded" <=> builds[id].status = "succeeded")
    BY <1>2, <2>1
  <2>3. builds[id].status \in B!Final
    BY <1>3, <2>2 DEF B!InProgress, B!Build
  <2>4. Len(out') \in Nat
    BY <1>7
  <2>5. ~unseen' => Len(out') >= Len(log)
    BY <1>4, <1>8, <2>4 DEF EndsIn
  <2>6. QED
    BY <1>8, <2>2, <2>3, <2>5
<1>13. \A i \in 1..Len(builds') : LogOf(builds'[i], resets')
  BY <1>1 DEF BuildInv
<1>14. /\ pc' \in {"newest", "await"} => verb' = "start"
       /\ verb' # "start" => id' # B!NoBuild
       /\ verb' = "start" /\ pc' \in {"newest", "prompt", "request", "await"} => id' = B!NoBuild
       /\ pc' # "done" <=> outcome' = "running"
       /\ outcome' \in {"succeeded", "buildFailed"} => id' # B!NoBuild
  BY <1>1, <1>2, <1>3 DEF BuildInv
<1>15. QED
  BY <1>9, <1>10, <1>11, <1>12, <1>13, <1>14 DEF BuildInv

\* The one request of a command: a build is asked for, started or stopped.
LEMMA RequestBuild == BuildInv /\ B!Request => BuildInv'
<1> SUFFICES ASSUME BuildInv, B!Request PROVE BuildInv'
  OBVIOUS
<1>1. /\ UNCHANGED <<others, resets, verb, before, printed, out, faults, expired, unseen>>
      /\ B!TypeOK /\ pc = "request" /\ outcome = "running"
  BY DEF B!Request, BuildInv
<1>2. (verb # "start" => id \in 1..Len(builds)) /\ (verb = "start" => id = B!NoBuild) /\ Len(builds) \in Nat
  BY <1>1 DEF BuildInv, B!TypeOK, B!NoBuild
<1>3. /\ pc' \in {"follow", "await", "done"} /\ outcome' \in {"running", "sent", "failed"}
      /\ pc' # "done" <=> outcome' = "running"
      /\ pc' = "await" <=> verb = "start" /\ pc' # "done"
      /\ asked' = asked \/ (verb = "start" /\ asked' = TRUE)
      /\ pc' = "await" => asked' = TRUE
      /\ id' = id \/ (verb = "retry" /\ id' = Len(builds'))
  BY <1>1 DEF B!Request, B!Retry, B!Stop, B!Start, B!Goto, B!Finish
<1>4. /\ builds' \in Seq(B!Build) /\ Len(builds') \in Nat /\ Len(builds) <= Len(builds')
      /\ verb = "start" => builds' = builds
      /\ verb = "retry" /\ id' # id => Len(builds') # 0
      /\ \A j \in 1..Len(builds') : LogOf(builds'[j], resets')
  <2>1. CASE B!Retry
    <3>1. builds' = Append(builds, B!NewBuild(B!Ours)) /\ verb = "retry"
      BY <2>1 DEF B!Retry
    <3>2. QED
      BY <1>1, <3>1, AnotherBuild
  <2>2. CASE B!Stop
    <3>1. PICK s : s = IF builds[id].status \in B!Final THEN builds[id].status ELSE "canceled"
      OBVIOUS
    <3>2. PICK b : b = [builds[id] EXCEPT !.status = s]
      OBVIOUS
    <3>3. verb = "stop" /\ builds[id] \in B!Build /\ LogOf(builds[id], resets) /\ builds \in Seq(B!Build)
      BY <1>1, <1>2, <2>2 DEF B!Stop, BuildInv, B!TypeOK
    <3>4. b \in B!Build /\ b.run = builds[id].run /\ b.log = builds[id].log
      BY <3>1, <3>2, <3>3 DEF B!Build, B!Final
    <3>5. builds' = [builds EXCEPT ![id] = b]
      BY <2>2, <3>1, <3>2 DEF B!Stop
    <3>6. /\ builds' \in Seq(B!Build) /\ Len(builds') = Len(builds)
          /\ \A j \in 1..Len(builds) : builds'[j] = IF j = id THEN b ELSE builds[j]
      BY <1>2, <3>3, <3>4, <3>5, OneBuild
    <3>7. LogOf(b, resets)
      BY <3>3, <3>4 DEF LogOf
    <3>8. QED
      BY <1>1, <1>2, <3>3, <3>6, <3>7 DEF BuildInv, B!Stop
  <2>3. CASE builds' = builds /\ id' = id
    BY <1>1, <2>3 DEF BuildInv, B!TypeOK
  <2>4. QED
    BY <2>1, <2>2, <2>3 DEF B!Request, B!Start
<1>5. before' \in 0..Len(builds') /\ id' \in 0..Len(builds') /\ (verb # "start" => id' # B!NoBuild)
  BY <1>1, <1>2, <1>3, <1>4 DEF B!TypeOK, B!NoBuild
<1>6. B!TypeOK'
  <2>1. asked' \in BOOLEAN /\ pc' \in B!Phases /\ outcome' \in B!Outcomes
    BY <1>1, <1>3 DEF B!TypeOK, B!Phases, B!Outcomes
  <2>2. pc' \in {"follow", "pause"} => id' # B!NoBuild
    BY <1>3, <1>5
  <2>3. QED
    BY <1>1, <1>4, <1>5, <2>1, <2>2 DEF B!TypeOK
<1>7. Alone'
  BY <1>1, <1>2, <1>3, <1>4 DEF BuildInv, Alone
<1>8. B!EndsWithTheBuild'
  BY <1>3 DEF B!EndsWithTheBuild
<1>9. unseen' \/ Shown'
  BY <1>1 DEF BuildInv, Shown
<1>10. QED
  BY <1>1, <1>2, <1>3, <1>4, <1>5, <1>6, <1>7, <1>8, <1>9 DEF BuildInv

LEMMA BuildNext == BuildInv /\ (B!Next \/ UNCHANGED buildVars) => BuildInv'
BY PollSteps, RequestBuild, FollowStep, QueueStep, WorkSteps DEF B!Next, B!Command, B!Ends

-----------------------------------------------------------------------------
(* All of them: the command that runs keeps its own invariant, and the     *)
(* state of the others stays as it is.                                     *)

IInv == running \in Programs /\ BuildInv /\ WaitInv /\ RollInv /\ WatchInv

LEMMA InvInit == Init => IInv
BY BuildInit, WaitInit, RollInit, WatchInit DEF Init, IInv

LEMMA InvNext == IInv /\ [Next]_vars => IInv'
<1> SUFFICES ASSUME IInv, [Next]_vars PROVE IInv'
  OBVIOUS
<1>1. running' = running
  BY DEF Next, vars
<1>2. B!Next \/ UNCHANGED buildVars
  BY DEF Next, vars
<1>3. W!Next \/ UNCHANGED waitVars
  BY DEF Next, vars
<1>4. R!Next \/ UNCHANGED rolloutVars
  BY DEF Next, vars
<1>5. P!Next \/ UNCHANGED watchVars
  BY DEF Next, vars
<1>6. QED
  BY <1>1, <1>2, <1>3, <1>4, <1>5, BuildNext, WaitNext, RollNext, WatchNext DEF IInv

LEMMA InvHolds == Spec => []IInv
<1>1. QED
  BY InvInit, InvNext, PTL DEF Spec

\* For any bounds, replicas and pods: every variable keeps its type, and what
\* is followed, polled or to be replaced has existed.
THEOREM TypeCorrect == Spec => []TypeOK
<1>1. IInv => TypeOK
  BY DEF IInv, TypeOK, BuildInv, WaitInv, RollInv, WatchInv
<1>2. QED
  BY <1>1, InvHolds, PTL

\* `build start` follows its own build unless somebody else started one since
\* the newest was read, however often the log is begun again (awaitNewBuild).
THEOREM OwnIsFollowed == Spec => []FollowsOurOwn
<1>1. IInv => FollowsOurOwn
  BY DEF IInv, FollowsOurOwn, BuildInv, Alone, B!FollowsOurOwn
<1>2. QED
  BY <1>1, InvHolds, PTL

\* A followed command ends with the build and with its result, and the whole
\* log has been printed, of any length (followBuild).
THEOREM EndSafe == Spec => []EndsWithTheBuild
<1>1. IInv => EndsWithTheBuild
  BY DEF IInv, EndsWithTheBuild, BuildInv
<1>2. QED
  BY <1>1, InvHolds, PTL

\* "deleted" is said only of an app or a pod that is gone, for any number of
\* pods and stale frames, as long as more than one frame has to miss a pod
\* (checkCondition, frame).
THEOREM DeletedSafe == Spec => []DeletedIsGone
<1>1. \A p \in WatchedPods :
        WatchOf(p) => (told[p] = "deleted" => podState[p] = "gone") /\ (p \in gone <=> told[p] = "deleted")
  BY DEF WatchOf
<1>2. IInv => DeletedIsGone
  BY <1>1 DEF IInv, DeletedIsGone, WaitInv, WatchInv, P!DeletedIsGone
<1>3. QED
  BY <1>2, InvHolds, PTL

\* wait app fails only for a request that failed for good or an app that went
\* away, never for its own deadline (checkCondition).
THEOREM FailureSafe == Spec => []FailsForAReason
<1>1. IInv => FailsForAReason
  BY DEF IInv, FailsForAReason, WaitInv
<1>2. QED
  BY <1>1, InvHolds, PTL

\* A restart reported as done after an undisturbed prompt was over at some
\* moment of the wait and every pod there was at the request is gone, whatever
\* stale lists came and when; any rollout reported as done was over at such a
\* moment if the list that decided it was not stale.  For any number of pods,
\* replicas, faults and disturbances (podWatcher.wait, FetchPods).
THEOREM RolloutSafe == Spec => []RolledOutWasOver
<1>1. IInv => RolledOutWasOver
  BY DEF IInv, RolledOutWasOver, RollInv
<1>2. QED
  BY <1>1, InvHolds, PTL
=============================================================================
