------------------------------- MODULE Builds -------------------------------
(***************************************************************************)
(* `build start -f`, `build retry -f`, `build logs -f` and `build stop`    *)
(* of one process on the builds of one app (cmd/build.go,                  *)
(* internal/client/builds.go).                                             *)
(*                                                                         *)
(* Nothing here is a stream.  The request that starts a build does not     *)
(* name it, so the command remembers the newest build, asks, and polls the *)
(* list until the newest is another one; the log is the whole text on      *)
(* every read, and what is new is what is longer.                          *)
(*                                                                         *)
(* A build is known by its place in the list of builds, oldest first.  A   *)
(* log is a sequence of lines; a line is the number of the run of the      *)
(* build that wrote it, for a log may be begun again.                      *)
(***************************************************************************)
EXTENDS Naturals, Sequences

CONSTANTS
  MaxLog,     \* bound: lines in a log
  MaxOthers,  \* bound: builds started by someone else
  MaxResets,  \* bound: logs begun again
  MaxFaults   \* bound: reads that fail transiently

InProgressStates == {"initiated", "running"}
Final == {"succeeded", "failed", "canceled"}
Ours == 1
Theirs == 2
NoBuild == 0

VARIABLES
  builds,   \* the builds of the app
  asked,    \* our build has been asked for and is not in the list yet
  others,   \* builds started by someone else while start looks for its own
  resets,   \* logs begun again
  verb,     \* the command
  pc,       \* where it is
  before,   \* the newest build before the request
  id,       \* the build that is followed or stopped
  printed,  \* how much of its log has been printed
  out,      \* what has been printed
  faults,   \* reads that failed transiently
  expired,  \* newBuildGrace is over
  outcome,  \* how the command ended
  unseen    \* a log was begun again and no read saw it shorter (history)

platformVars == <<builds, asked, others, resets>>
commandVars == <<verb, pc, before, id, printed, out, faults, expired, outcome>>
vars == <<platformVars, commandVars, unseen>>

Phases == {"newest", "prompt", "request", "await", "follow", "pause", "done"}
Outcomes == {"running", "aborted", "failed", "notSeen", "succeeded", "buildFailed", "sent"}

NewBuild(owner) == [status |-> "initiated", log |-> <<>>, run |-> 1, owner |-> owner]
Latest == Len(builds)

Init ==
  /\ verb \in {"start", "retry", "logs", "stop"}
  /\ IF verb \in {"logs", "stop"} THEN builds = <<NewBuild(Theirs)>>
     ELSE builds \in {<<>>, <<[NewBuild(Theirs) EXCEPT !.status = "failed"]>>}
  /\ verb = "retry" => builds # <<>>
  /\ asked = FALSE /\ others = 0 /\ resets = 0
  /\ pc = (IF verb = "start" THEN "newest" ELSE IF verb = "logs" THEN "follow" ELSE "prompt")
  /\ before = NoBuild /\ id = (IF verb = "start" THEN NoBuild ELSE 1)
  /\ printed = 0 /\ out = <<>> /\ faults = 0 /\ expired = FALSE
  /\ outcome = "running" /\ unseen = FALSE

Finish(end) == pc' = "done" /\ outcome' = end
Goto(phase) == pc' = phase /\ UNCHANGED outcome

-----------------------------------------------------------------------------
(* The commands.                                                           *)

(* buildStartAction: the newest build, remembered before the prompt.       *)
Newest ==
  /\ pc = "newest"
  /\ before' = Latest
  /\ Goto("prompt")
  /\ UNCHANGED <<platformVars, verb, id, printed, out, faults, expired, unseen>>

(* confirm().                                                              *)
Answer ==
  /\ pc = "prompt"
  /\ Finish("aborted") \/ Goto("request")
  /\ UNCHANGED <<platformVars, verb, before, id, printed, out, faults, expired, unseen>>

(* RetryBuild answers with the build it started, or with something else    *)
(* that is no build; nothing is followed then.                             *)
Retry ==
  /\ verb = "retry"
  /\ builds' = Append(builds, NewBuild(Ours)) /\ UNCHANGED asked
  /\ \/ id' = Len(builds') /\ Goto("follow")
     \/ UNCHANGED id /\ Finish("sent")

(* StopBuild.                                                              *)
Stop ==
  /\ verb = "stop"
  /\ builds' = [builds EXCEPT ![id].status = IF @ \in Final THEN @ ELSE "canceled"]
  /\ Finish("sent")
  /\ UNCHANGED <<asked, id>>

(* BuildLatestCommit: the build appears in the list some time later.       *)
Start ==
  /\ verb = "start"
  /\ asked' = TRUE /\ Goto("await")
  /\ UNCHANGED <<builds, id>>

(* The one request a command makes, which may be refused.                  *)
Request ==
  /\ pc = "request"
  /\ \/ Retry \/ Stop \/ Start
     \/ Finish("failed") /\ UNCHANGED <<builds, asked, id>>
  /\ UNCHANGED <<others, resets, verb, before, printed, out, faults, expired, unseen>>

(* A read fails: transiently, and it is made again, or for good.           *)
ReadFails ==
  /\ pc \in {"newest", "await", "follow"}
  /\ \/ Finish("failed") /\ UNCHANGED faults
     \/ pc = "await" /\ faults < MaxFaults /\ faults' = faults + 1
        /\ (IF expired THEN Finish("notSeen") ELSE UNCHANGED <<pc, outcome>>)
     \/ pc = "follow" /\ faults < MaxFaults /\ faults' = faults + 1 /\ Goto("pause")
  /\ UNCHANGED <<platformVars, verb, before, id, printed, out, expired, unseen>>

\* Mutant: any build in the list is the one asked for.
IsNewAny == Latest # NoBuild

\* Mutant: an empty list is taken for news.
IsNewOrNone == Latest = NoBuild \/ Latest # before

\* The newest build is not the one remembered.
IsNew == Latest # NoBuild /\ Latest # before

(* One round of awaitNewBuild.                                             *)
Await ==
  /\ pc = "await"
  /\ \/ IsNew /\ id' = Latest /\ Goto("follow")
     \/ ~IsNew /\ expired /\ Finish("notSeen") /\ UNCHANGED id
  /\ UNCHANGED <<platformVars, verb, before, printed, out, faults, expired, unseen>>

\* How much of the log is kept as printed: a shorter one was replaced.
Kept(log) == IF Len(log) < printed THEN 0 ELSE printed

\* Mutant: only a build that runs is in progress.
InProgressRunning(b) == b.status = "running"

InProgress(b) == b.status \in InProgressStates

(* One round of followBuild.                                               *)
FollowBuild ==
  /\ pc = "follow"
  /\ LET b == builds[id]
     IN  /\ out' = out \o SubSeq(b.log, Kept(b.log) + 1, Len(b.log))
         /\ printed' = Len(b.log)
         /\ IF InProgress(b) THEN Goto("pause")
            ELSE Finish(IF b.status = "succeeded" THEN "succeeded" ELSE "buildFailed")
         /\ unseen' = (unseen \/ (Kept(b.log) \in 1..Len(b.log) /\ out[Len(out)] # b.log[Kept(b.log)]))
  /\ UNCHANGED <<platformVars, verb, before, id, faults, expired>>

(* The next round.                                                         *)
Pause ==
  /\ pc = "pause"
  /\ Goto("follow")
  /\ UNCHANGED <<platformVars, verb, before, id, printed, out, faults, expired, unseen>>

(* newBuildGrace passes.                                                   *)
Expire ==
  /\ pc = "await" /\ ~expired
  /\ expired' = TRUE
  /\ UNCHANGED <<platformVars, verb, pc, before, id, printed, out, faults, outcome, unseen>>

-----------------------------------------------------------------------------
(* The platform.                                                           *)

(* The build that was asked for is queued, or someone else starts one; no  *)
(* command but start looks at the list.                                    *)
Queue ==
  /\ \/ asked /\ asked' = FALSE /\ builds' = Append(builds, NewBuild(Ours)) /\ UNCHANGED others
     \/ pc \in {"prompt", "request", "await"} /\ verb = "start" /\ others < MaxOthers /\ others' = others + 1
        /\ builds' = Append(builds, NewBuild(Theirs)) /\ UNCHANGED asked
  /\ Len(builds') <= MaxOthers + 2
  /\ UNCHANGED <<resets, commandVars, unseen>>

(* A build runs and writes; its log is final when it ends.  What it writes  *)
(* before it is followed might as well come right after, and so does here. *)
Work(i) ==
  /\ i = id
  /\ \/ /\ builds[i].status = "initiated"
        /\ builds' = [builds EXCEPT ![i].status = "running"] /\ UNCHANGED resets
     \/ /\ builds[i].status = "running" /\ Len(builds[i].log) < MaxLog
        /\ builds' = [builds EXCEPT ![i].log = Append(@, builds[i].run)] /\ UNCHANGED resets
     \/ /\ builds[i].status = "running" /\ resets < MaxResets /\ resets' = resets + 1
        /\ builds' = [builds EXCEPT ![i].log = <<>>, ![i].run = @ + 1]
  /\ UNCHANGED <<asked, others, commandVars, unseen>>

(* A build ends; it has run if it succeeds.                                *)
End(i) ==
  /\ builds[i].status \in InProgressStates /\ i = id
  /\ \E status \in Final :
       /\ status = "succeeded" => builds[i].status = "running"
       /\ builds' = [builds EXCEPT ![i].status = status]
  /\ UNCHANGED <<asked, others, resets, commandVars, unseen>>

-----------------------------------------------------------------------------
Command == Newest \/ Answer \/ Request \/ Await \/ FollowBuild \/ Pause

Ends == \E i \in 1..Len(builds) : End(i)

Next == Command \/ ReadFails \/ Expire \/ Queue \/ Ends \/ \E i \in 1..Len(builds) : Work(i)

(* The command polls, the grace is a timer, and every build ends.          *)
Fairness == WF_vars(Command) /\ WF_vars(Expire) /\ WF_vars(Ends)

Spec == Init /\ [][Next]_vars /\ Fairness

-----------------------------------------------------------------------------
(* Properties.                                                             *)

Build == [status : InProgressStates \union Final, log : Seq(1..MaxResets + 1),
          run : 1..MaxResets + 1, owner : {Ours, Theirs}]

\* Every variable keeps its type, and a build that is followed is in the list.
TypeOK ==
  /\ builds \in Seq(Build) /\ asked \in BOOLEAN
  /\ others \in 0..MaxOthers /\ resets \in 0..MaxResets /\ faults \in 0..MaxFaults
  /\ verb \in {"start", "retry", "logs", "stop"} /\ pc \in Phases /\ outcome \in Outcomes
  /\ before \in 0..Len(builds) /\ id \in 0..Len(builds)
  /\ (pc \in {"follow", "pause"} => id # NoBuild)
  /\ out \in Seq(1..MaxResets + 1) /\ printed \in 0..MaxLog
  /\ expired \in BOOLEAN /\ unseen \in BOOLEAN

\* `build start` follows the build it asked for, unless someone else started
\* one since the newest was read, prompt included (awaitNewBuild).
FollowsOurOwn ==
  verb = "start" /\ id # NoBuild /\ others = 0 => builds[id].owner = Ours

\* A followed command ends with the build and not before, and its success is
\* the success of the build: `&&` after it may rely on that.  By then the whole
\* log has been printed, its lines once and in order, after what had been
\* printed of earlier runs; a log begun again is told by a read that sees it
\* shorter, and no read did if it had grown past the old length (followBuild).
EndsWithTheBuild ==
  outcome \in {"succeeded", "buildFailed"} =>
    LET log == builds[id].log
    IN  /\ builds[id].status \in Final
        /\ outcome = "succeeded" <=> builds[id].status = "succeeded"
        /\ unseen \/ (Len(out) >= Len(log) /\ SubSeq(out, Len(out) - Len(log) + 1, Len(out)) = log)
=============================================================================
