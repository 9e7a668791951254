------------------------------ MODULE Polling ------------------------------
(***************************************************************************)
(* A process that polls or watches: it runs one command, one that follows  *)
(* a build (Builds), `wait app` (WaitApp), a rollout with --wait or        *)
(* `rollout status` (Rollout), or `get pods --watch` (PodWatch).  The      *)
(* state of those that are not running stays as it is.                     *)
(***************************************************************************)
EXTENDS Naturals, Sequences, FiniteSets

CONSTANTS  \* what they bound or are: see the modules
  MaxLog, MaxOthers, MaxResets, MaxFaults, MaxApps,
  MaxPods, Replicas, MaxDisturbances,
  WatchedPods, AbsentFramesToDelete, MaxStale

ASSUME BoundsAssumption ==
  /\ {MaxLog, MaxOthers, MaxResets, MaxFaults, MaxPods, MaxDisturbances, MaxStale} \subseteq Nat
  /\ MaxApps \in Nat \ {0}
ASSUME RolloutAssumption == Replicas \in 1..MaxPods
ASSUME AbsentAssumption == AbsentFramesToDelete \in Nat \ {0, 1}  \* more than the one frame that may be stale

VARIABLES
  running,  \* which of the four it is
  builds, asked, others, resets, verb, pc, before, id, printed, out, faults,
  expired, outcome, unseen,
  app, health, created, cond, waitPc, target, waitExpired, waitOutcome, broken,
  state, gen, template, restartAsked, earlier, disturbances, restarting, rolloutPc, old, reading,
  list, rolloutFaults, rolloutExpired, rolloutOutcome, fresh, misled, rolloutBefore, disturbed, settled,
  podState, podEarlier, owed, stale, last, order, missing, gone, told, watchOutcome

B == INSTANCE Builds
W == INSTANCE WaitApp WITH pc <- waitPc, expired <- waitExpired, outcome <- waitOutcome
R == INSTANCE Rollout WITH asked <- restartAsked, pc <- rolloutPc, faults <- rolloutFaults,
       expired <- rolloutExpired, outcome <- rolloutOutcome, before <- rolloutBefore
P == INSTANCE PodWatch WITH Pods <- WatchedPods, state <- podState, earlier <- podEarlier, outcome <- watchOutcome

buildVars == <<builds, asked, others, resets, verb, pc, before, id, printed, out, faults,
               expired, outcome, unseen>>
waitVars == <<app, health, created, cond, waitPc, target, waitExpired, waitOutcome, broken>>
rolloutVars == <<state, gen, template, restartAsked, earlier, disturbances, restarting, rolloutPc, old,
                 reading, list, rolloutFaults, rolloutExpired, rolloutOutcome, fresh, misled,
                 rolloutBefore, disturbed, settled>>
watchVars == <<podState, podEarlier, owed, stale, last, order, missing, gone, told, watchOutcome>>
vars == <<running, buildVars, waitVars, rolloutVars, watchVars>>

Programs == {"build", "wait", "rollout", "watch"}

Init ==
  /\ running \in Programs
  /\ B!Init /\ W!Init /\ R!Init /\ P!Init
  /\ running # "build" => verb = "logs"
  /\ running # "wait" => app = W!NoApp /\ health = "notReady" /\ cond = "ready"
  /\ running # "rollout" => restarting
  /\ running # "watch" => \A p \in WatchedPods : podState[p] = "unborn"

Next ==
  \/ running = "build" /\ B!Next /\ UNCHANGED <<running, waitVars, rolloutVars, watchVars>>
  \/ running = "wait" /\ W!Next /\ UNCHANGED <<running, buildVars, rolloutVars, watchVars>>
  \/ running = "rollout" /\ R!Next /\ UNCHANGED <<running, buildVars, waitVars, watchVars>>
  \/ running = "watch" /\ P!Next /\ UNCHANGED <<running, buildVars, waitVars, rolloutVars>>

\* The fairness of the command that is running.
Fairness ==
  /\ WF_buildVars(running = "build" /\ B!Command) /\ WF_buildVars(running = "build" /\ B!Expire)
  /\ WF_buildVars(running = "build" /\ B!Ends)
  /\ WF_waitVars(running = "wait" /\ W!Round) /\ WF_waitVars(running = "wait" /\ W!Expire)
  /\ SF_waitVars(running = "wait" /\ W!TimeOut)
  /\ WF_rolloutVars(running = "rollout" /\ R!Command) /\ WF_rolloutVars(running = "rollout" /\ R!NextList)
  /\ WF_watchVars(running = "watch" /\ P!TrueFrame)

Spec == Init /\ [][Next]_vars /\ Fairness

-----------------------------------------------------------------------------
\* Every variable of every command keeps its type.
TypeOK == running \in Programs /\ B!TypeOK /\ W!TypeOK /\ R!TypeOK /\ P!TypeOK

\* `build start` follows the build it asked for, unless someone else started
\* one since the newest was read, prompt included (awaitNewBuild).
FollowsOurOwn == B!FollowsOurOwn

\* A followed command ends with the build and not before, its success is the
\* success of the build, and the whole log has been printed (followBuild).
EndsWithTheBuild == B!EndsWithTheBuild

\* "deleted" is only said of an app or a pod that is gone, never for a lookup
\* that failed or a stale frame, and never taken back (checkCondition, frame).
DeletedIsGone == W!DeletedIsGone /\ P!DeletedIsGone

\* The wait fails for a reason of its own, never for a transient error or for
\* the cancellation by its deadline (checkCondition).
FailsForAReason == W!FailsForAReason

\* A rollout is reported as done only if it was over at some moment of the
\* wait, and has then replaced all there was when it was asked for (wait).
RolledOutWasOver == R!RolledOutWasOver

\* A rollout that is over and stays so is reported (wait, rolloutDone).
OverIsReported == <>[](running = "rollout" /\ R!OverNow) => <>(rolloutPc = "done")

\* What is printed last about a pod at rest is the truth (frame).
LiveRowsSettle == P!LiveRowsSettle

Ended == IF running = "build" THEN pc = "done" ELSE IF running = "wait" THEN waitPc = "done"
         ELSE rolloutPc = "done"

\* A command that polls ends: if builds do, if the app does not come before
\* the deadline, and a rollout once its deadline has passed, even if the
\* stream never answers again (followBuild, pollUntil, podWatcher.wait).
CommandEnds == running \in {"build", "wait"} \/ rolloutExpired ~> Ended
=============================================================================
