------------------------------ MODULE WaitApp ------------------------------
(***************************************************************************)
(* `wait app NAME --for ready|deleted` (cmd/wait.go).                      *)
(*                                                                         *)
(* The name is resolved once; from then on one app is polled by its id,    *)
(* until the condition holds, the app is gone, a request fails for good or *)
(* the deadline passes.  The deadline also cancels the request that is     *)
(* under way, and the ticker may have fired by then: select takes either.  *)
(***************************************************************************)
EXTENDS Naturals

CONSTANTS
  MaxApps  \* bound: apps of that name, one after another

NoApp == 0
Healths == {"notReady", "healthy"}

VARIABLES
  app,      \* the id of the app that now has the name, or NoApp
  health,   \* state_type of that app
  created,  \* how many apps have had the name
  cond,     \* the condition waited for
  pc,       \* where the command is
  target,   \* the id it polls
  expired,  \* --timeout has passed
  outcome,  \* how it ended
  broken    \* a request has failed for good (history)

appVars == <<app, health, created>>
waitVars == <<cond, pc, target, expired, outcome, broken>>
vars == <<appVars, waitVars>>

Init ==
  /\ app \in {NoApp, 1} /\ created = app /\ health \in Healths
  /\ cond \in {"ready", "deleted"}
  /\ pc = "resolve" /\ target = NoApp /\ expired = FALSE
  /\ outcome = "running" /\ broken = FALSE

Finish(end) == pc' = "done" /\ outcome' = end
Goto(phase) == pc' = phase /\ UNCHANGED outcome

\* ErrAppNotFound.
NoSuchApp(found, failed) == ~failed /\ ~found

(* ResolveApp, before the deadline begins to run.                          *)
Resolve ==
  /\ pc = "resolve"
  /\ \E failed \in BOOLEAN :
       /\ broken' = failed
       /\ IF NoSuchApp(app # NoApp, failed)
            THEN Finish(IF cond = "deleted" THEN "deleted" ELSE "failed") /\ UNCHANGED target
          ELSE IF failed THEN Finish("failed") /\ UNCHANGED target
          ELSE Goto("poll") /\ target' = app
  /\ UNCHANGED <<appVars, cond, expired>>

(* checkCondition gets an answer: not found, or the state of the app.      *)
Check ==
  /\ pc = "poll"
  /\ IF app # target
       THEN Finish(IF cond = "deleted" THEN "deleted" ELSE "failed")
     ELSE IF cond = "ready" /\ health = "healthy" THEN Finish("ready")
     ELSE Goto("select")
  /\ UNCHANGED <<appVars, cond, target, expired, broken>>

\* Mutant: the deadline's own cancellation is reported as an error.
SwallowedOnly(transient) == transient

\* The errors that only mean "ask again", or that the deadline caused.
Swallowed(transient) == transient \/ expired

(* ... or an error.                                                        *)
CheckFails ==
  /\ pc = "poll"
  /\ \E transient \in BOOLEAN :
       /\ broken' = (broken \/ (~transient /\ ~expired))
       /\ IF Swallowed(transient) THEN Goto("select") ELSE Finish("failed")
  /\ UNCHANGED <<appVars, cond, target, expired>>

\* Mutant: the deadline is not one of the cases of the select.
MayStopNever == FALSE
MayStop == expired

(* The select at the end of a round: the ticker, or the deadline.          *)
Tick ==
  /\ pc = "select"
  /\ Goto("poll")
  /\ UNCHANGED <<appVars, cond, target, expired, broken>>
TimeOut ==
  /\ pc = "select" /\ MayStop
  /\ Finish("timedOut")
  /\ UNCHANGED <<appVars, cond, target, expired, broken>>

(* The deadline passes.                                                    *)
Expire ==
  /\ pc \in {"poll", "select"} /\ ~expired
  /\ expired' = TRUE
  /\ UNCHANGED <<appVars, cond, pc, target, outcome, broken>>

(* The app becomes healthy or unhealthy, is deleted, or is created again.  *)
HealthChanges(h) == app # NoApp /\ health' = h /\ h # health /\ UNCHANGED <<app, created, waitVars>>
Delete == app # NoApp /\ app' = NoApp /\ UNCHANGED <<health, created, waitVars>>
Create ==
  /\ app = NoApp /\ created < MaxApps
  /\ created' = created + 1 /\ app' = created' /\ health' = "notReady"
  /\ UNCHANGED waitVars

Round == Resolve \/ Check \/ CheckFails \/ Tick

Next ==
  \/ Round \/ TimeOut \/ Expire
  \/ \E h \in Healths : HealthChanges(h)
  \/ Delete \/ Create

(* Rounds go on, the deadline comes, and select, which picks at random     *)
(* among the cases that are ready, does not pass over one for ever.        *)
Fairness == WF_vars(Round) /\ WF_vars(Expire) /\ SF_vars(TimeOut)

Spec == Init /\ [][Next]_vars /\ Fairness

-----------------------------------------------------------------------------
(* Properties.                                                             *)

\* Every variable keeps its type, and an app that is polled has existed.
TypeOK ==
  /\ app \in 0..MaxApps /\ created \in 0..MaxApps /\ health \in Healths
  /\ cond \in {"ready", "deleted"} /\ pc \in {"resolve", "poll", "select", "done"}
  /\ target \in 0..created /\ (pc \in {"poll", "select"} => target # NoApp)
  /\ outcome \in {"running", "ready", "deleted", "failed", "timedOut"}
  /\ {expired, broken} \subseteq BOOLEAN

\* "deleted" is said of an app that is not there any more and never will be
\* again, also if a new app has taken its name, and never for a lookup that
\* failed (waitAppAction, checkCondition).
DeletedIsGone == outcome = "deleted" => ~broken /\ (target = NoApp \/ app # target)

\* The wait fails only for a request that failed for good or an app that went
\* away: transient errors and the cancellation by its own deadline do not end
\* it, so the caller can tell a timeout from a failure (checkCondition).
FailsForAReason == outcome = "failed" => broken \/ app = NoApp \/ app # target
=============================================================================
