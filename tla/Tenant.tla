------------------------------- MODULE Tenant -------------------------------
(***************************************************************************)
(* What commands do to a tenant beside its apps' settings: one kind of     *)
(* program is running, the registry's clean-up (Registry), a command on    *)
(* namespaces or deletions (Projects), on permissions or keys (Access), on *)
(* tickets (Tickets), the MCP server (Mcp), or any command on its way to   *)
(* the API (Session).  They share nothing, so the state of those that are  *)
(* not running stays as it is.                                             *)
(***************************************************************************)
EXTENDS Naturals, FiniteSets, Sequences

CONSTANTS  \* what they bound or are: see the modules
  Procs,
  Jobs, Registries, Prefix, Repos, Tags, Apps, RunsFrom, MaxPushes, MaxTags, MaxRules,
  Org, Spaces, ProjectCommands, Context, PageLimit, MaxApps, MaxMoves,
  Asked, Members, Permissions, MaxKeys, MaxConsole, Attempts,
  Asks, Files, Types, Priorities, MaxStars, MaxEdits, MaxSupport,
  Calls, Requests, Tools, Tree, Timeout, Delay,
  Givens, RefreshAttempts, MaxRedirects

\* What the theorems about Access, Mcp and Session ask of their constants.
ASSUME MembersAssumption ==
  /\ Members \in Seq(STRING) /\ \A i, j \in DOMAIN Members : Members[i] = Members[j] => i = j
  /\ "view" \in Permissions /\ \A p \in Procs : \A a \in Asked[p] : a.grant \subseteq Permissions
  /\ Attempts \in Nat \ {0}
ASSUME TimesAssumption == Timeout \in Nat /\ Delay \in Nat /\ \A r \in Requests : r.timeout \in Nat
ASSUME SessionAssumption ==
  /\ RefreshAttempts \in Nat \ {0} /\ MaxRedirects \in Nat \ {0}
  /\ Givens \subseteq [kind : {"read", "write", "global", "shell"}, tenant : BOOLEAN, key : BOOLEAN,
                       access : BOOLEAN, refresh : BOOLEAN]

VARIABLES
  program,  \* which of the six it is
  manifests, pushes, tagged, runs, moves, rules, ruled, job, repo, listed, doomed, found,
  registryPc, registryOutcome, since, crossed, clash,
  spaces, apps, created, workloads, databases, others, cmd, known, target, got, seen, report,
  projectPc, projectOutcome, fresh, shifted,
  access, visible, keys, made, console, want, rows, row, key, tries, accessPc, accessOutcome,
  raced, excused, freshKeys,
  tickets, uploads, disk, edits, support, ask, sent, id, ticketPc, ticketOutcome, mute,
  allow, request, invocation, callPc, child, held, age, ended, did, answer,
  given, sessionPc, auth, attempt, method, hops, cancelled, sessionOutcome, valid, live, written

Reg == INSTANCE Registry WITH pc <- registryPc, outcome <- registryOutcome, MaxMoves <- MaxTags
Pro == INSTANCE Projects WITH pc <- projectPc, outcome <- projectOutcome, moves <- others,
         running <- seen, Commands <- ProjectCommands, Limit <- PageLimit
Acc == INSTANCE Access WITH pc <- accessPc, outcome <- accessOutcome, fresh <- freshKeys
Tic == INSTANCE Tickets WITH pc <- ticketPc, outcome <- ticketOutcome
Mcp == INSTANCE Mcp WITH pc <- callPc, Commands <- Tree
Ses == INSTANCE Session WITH pc <- sessionPc, outcome <- sessionOutcome

\* What those about Registry and Tickets ask: an app runs from a repository that
\* is there and a prune keeps a number of manifests; support's number is no
\* command's, and a command on a ticket is about the one there is.
ASSUME RegistryAssumption ==
  /\ Prefix \in Seq(STRING) \ {<<>>} /\ Repos \subseteq Seq(STRING) \ {<<>>}
  /\ \A a \in Apps : \E r \in Repos : Reg!Reference(r) = RunsFrom[a]
  /\ \A p \in Procs : \A j \in Jobs[p] : j.kind \in {"prune", "set"} => j.what \in Nat
  /\ MaxPushes \in Nat \ {0, 1} /\ MaxTags \in Nat
ASSUME TicketsAssumption ==
  /\ Tic!Nobody \notin Procs /\ MaxStars \in Nat
  /\ \A p \in Procs : \A a \in Asks[p] :
       /\ a.kind \in {"create", "reply", "close", "rate", "download"} /\ a.files \in Seq(Files)
       /\ a.kind # "create" => a.ticket = 1
ASSUME ProjectsAssumption ==
  /\ PageLimit \in Nat \ {0}
  /\ \A s \in Spaces : s.id \in Nat \ {0}
  /\ \A s, t \in Spaces : s.id = t.id => s = t
  /\ \A k \in ProjectCommands : k.kind \in {"deleteSpace", "createSpace", "deleteApp", "orphans"}
ASSUME McpAssumption == Mcp!PolicyAgrees /\ Mcp!ToolsAgree

registryVars == <<manifests, pushes, tagged, runs, moves, rules, ruled, job, repo, listed, doomed,
                  found, registryPc, registryOutcome, since, crossed, clash>>
projectVars == <<spaces, apps, created, workloads, databases, others, cmd, known, target, got, seen,
                 report, projectPc, projectOutcome, fresh, shifted>>
accessVars == <<access, visible, keys, made, console, want, rows, row, key, tries, accessPc,
                accessOutcome, raced, excused, freshKeys>>
ticketVars == <<tickets, uploads, disk, edits, support, ask, sent, id, ticketPc, ticketOutcome, mute>>
callVars == <<allow, request, invocation, callPc, child, held, age, ended, did, answer>>
sessionVars == <<given, sessionPc, auth, attempt, method, hops, cancelled, sessionOutcome, valid, live, written>>
vars == <<program, registryVars, projectVars, accessVars, ticketVars, callVars, sessionVars>>

Programs == {"registry", "projects", "access", "tickets", "mcp", "session"}

Some(choices) == [p \in Procs |-> CHOOSE k \in choices[p] : TRUE]

\* What is not running is in the simplest of its initial states.
Init ==
  /\ program \in Programs
  /\ program # "registry" => /\ tagged = [r \in Repos |-> [t \in Tags |-> 1]]
                             /\ runs = [a \in Apps |-> CHOOSE t \in Tags : TRUE] /\ job = Some(Jobs)
  /\ program # "projects" => spaces = {} /\ apps = {} /\ cmd = CHOOSE k \in ProjectCommands : TRUE
  /\ program # "access" => access = [e \in {Members[i] : i \in DOMAIN Members} |-> {}] /\ made = 0 /\ want = Some(Asked)
  /\ program # "tickets" => disk = [f \in Files |-> 0] /\ ask = Some(Asks)
  /\ program # "mcp" => allow = "reads"
  /\ program # "session" => (given = CHOOSE g \in Givens : TRUE) /\ valid = TRUE /\ live = TRUE
  /\ Reg!Init /\ Pro!Init /\ Acc!Init /\ Tic!Init /\ Mcp!Init /\ Ses!Init

Next ==
  \/ /\ program = "registry" /\ Reg!Next
     /\ UNCHANGED <<program, projectVars, accessVars, ticketVars, callVars, sessionVars>>
  \/ /\ program = "projects" /\ Pro!Next
     /\ UNCHANGED <<program, registryVars, accessVars, ticketVars, callVars, sessionVars>>
  \/ /\ program = "access" /\ Acc!Next
     /\ UNCHANGED <<program, registryVars, projectVars, ticketVars, callVars, sessionVars>>
  \/ /\ program = "tickets" /\ Tic!Next
     /\ UNCHANGED <<program, registryVars, projectVars, accessVars, callVars, sessionVars>>
  \/ /\ program = "mcp" /\ Mcp!Next
     /\ UNCHANGED <<program, registryVars, projectVars, accessVars, ticketVars, sessionVars>>
  \/ /\ program = "session" /\ Ses!Next
     /\ UNCHANGED <<program, registryVars, projectVars, accessVars, ticketVars, callVars>>

Spec == Init /\ [][Next]_vars

-----------------------------------------------------------------------------
\* Every variable of the program that runs keeps its type.
TypeOK ==
  CASE program = "registry" -> Reg!TypeOK
    [] program = "projects" -> Pro!TypeOK
    [] program = "access"   -> Acc!TypeOK
    [] program = "tickets"  -> Tic!TypeOK
    [] program = "mcp"      -> Mcp!TypeOK
    [] program = "session"  -> Ses!TypeOK

\* `registry prune` spares what runs and what is newest (registryPruneAction).
PruneIsSafe == Reg!PruneIsSafe

\* `gc set` leaves its rule and no other for the scope, `gc unset` none
\* (gcTarget, findGCStrategy).
RuleIsAsReported == Reg!RuleIsAsReported

\* A namespace is deleted only when it holds neither an app nor a database
\* that was there to be seen (deleteNamespaceAction).
DeletesOnlyEmpty == Pro!DeletesOnlyEmpty

\* `set permissions` takes no other member's access away (setPermissionsAction).
OthersKeepTheirs == Acc!OthersKeepTheirs

\* What is said of a change of permissions is so, what is answered to a client
\* of the server, what is called an orphan, and what a command says of the
\* request it made: a write that is reported was done (setPermissionsAction, run,
\* Diff, refuseWriteRedirect).
AnswerIsTrue == [][Acc!AnswersTruly /\ Pro!OrphansAreGone /\ (Mcp!AnswerIsTrue /\ Ses!AnswerIsTrue)']_vars

\* No key is revoked that was not meant (findAPIKey).
OnlyTheKeyMeant == Acc!OnlyTheKeyMeant

\* A ticket without an error has its files, a reply those it has ids of, and a
\* failure has left neither (CreateTicket, ReplyToTicket).
FiledWhole == Tic!FiledWhole

\* The server does what it may, and only that (check, classify, argv).
GateHolds == Mcp!GateHolds

\* A call has its answer in time (run).
AnsweredInTime == Mcp!AnsweredInTime
=============================================================================
