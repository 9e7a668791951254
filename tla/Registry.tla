------------------------------ MODULE Registry ------------------------------
(***************************************************************************)
(* The tenant's container registry and the commands that clean it up       *)
(* (cmd/registry.go): `registry delete` of a tag, a manifest or a whole    *)
(* image, `registry prune`, `registry gc set` and `registry gc unset`.     *)
(*                                                                         *)
(* Each of them reads, decides, may ask, and writes.  Meanwhile builds     *)
(* push, apps are deployed to other tags, and the other processes clean up *)
(* the same images.  An image's name is a path, a sequence of components;  *)
(* manifests are numbered in the order of their pushes.                    *)
(***************************************************************************)
EXTENDS Naturals, FiniteSets, Sequences, SequencesExt

CONSTANTS
  Procs,       \* commands, each in a process of its own
  Jobs,        \* per process what it may be asked: records [kind, registry, image, what]
  Registries,  \* the names of the tenant's registries
  Prefix,      \* what an image's full reference begins with (PushPrefix)
  Repos,       \* the image repositories, by the names they are listed under
  Tags,
  Apps,        \* apps that run an image of the tenant
  RunsFrom,    \* the full reference of the repository an app runs from
  MaxPushes,   \* bound: manifests ever pushed to a repository
  MaxMoves,    \* bound: pushes, moves of tags and deployments
  MaxRules     \* bound: retention rules ever made

NotGiven == ""                \* no --registry
WholeRegistry == <<>>         \* no IMAGE; the scope of the registry-wide rule

VARIABLES
  manifests,  \* per repository: the manifests in it
  pushes,     \* per repository: how many have been pushed
  tagged,     \* per repository and tag: the manifest it points at, 0 if none
  runs,       \* per app: the tag it runs
  moves,      \* how often images and apps have changed
  rules,      \* the retention rules: records [id, scope, keep]
  ruled,      \* how many rules have been made
  pc, job, repo,
  listed,     \* the manifests a command has listed, with their tags
  doomed,     \* the manifests it is about to delete
  found,      \* the rules it found for its scope
  outcome,
  since,      \* what apps have begun to run since `listed` was read (history)
  crossed,    \* others have deleted here, or written rules, since (history)
  clash       \* a rule was made over another's write (history)

imageVars == <<manifests, pushes, tagged, runs, moves>>
platformVars == <<imageVars, rules, ruled>>
commandVars == <<pc, job, repo, listed, doomed, found, outcome>>
historyVars == <<since, crossed, clash>>
vars == <<platformVars, commandVars, historyVars>>

Proper(suffix, path) == suffix # path /\ IsSuffix(suffix, path)
Bare(path) == IF IsStrictPrefix(Prefix, path) THEN SubSeq(path, Len(Prefix) + 1, Len(path)) ELSE path

\* The reference an app uses of a repository: the tenant's name, with which
\* the prefix ends, may begin the name the repository is listed under.
Reference(r) ==
  IF IsStrictPrefix(Prefix, r) THEN r
  ELSE IF Head(r) = Last(Prefix) THEN Front(Prefix) \o r ELSE Prefix \o r

Repository(a) == CHOOSE r \in Repos : Reference(r) = RunsFrom[a]
Image(a) == tagged[Repository(a)][runs[a]]
Uses == {<<a, runs[a], Image(a)>> : a \in Apps}

Init ==
  /\ pushes = [r \in Repos |-> 2] /\ manifests = [r \in Repos |-> {1, 2}]
  /\ \E where \in [Tags -> {1, 2}] : tagged = [r \in Repos |-> where]
  /\ runs \in [Apps -> Tags] /\ moves = 0
  /\ rules = {} /\ ruled = 0
  /\ pc = [p \in Procs |-> "resolve"] /\ job \in {j \in [Procs -> UNION Range(Jobs)] : \A p \in Procs : j[p] \in Jobs[p]}
  /\ repo = [p \in Procs |-> WholeRegistry]
  /\ listed = [p \in Procs |-> <<>>] /\ doomed = [p \in Procs |-> {}]
  /\ found = [p \in Procs |-> {}] /\ outcome = [p \in Procs |-> "running"]
  /\ since = [p \in Procs |-> {}] /\ crossed = [p \in Procs |-> FALSE] /\ clash = FALSE

Goto(p, phase) == pc' = [pc EXCEPT ![p] = phase] /\ UNCHANGED outcome
Finish(p, how) == pc' = [pc EXCEPT ![p] = "done"] /\ outcome' = [outcome EXCEPT ![p] = how]

-----------------------------------------------------------------------------
(* Names.                                                                  *)

\* resolveRegistry: by name; the only one there is needs no name.
ResolveRegistry(name) ==
  IF name = NotGiven
    THEN IF "hamdocker" \in Registries THEN {"hamdocker"}
         ELSE IF Cardinality(Registries) = 1 THEN Registries ELSE {}
    ELSE Registries \cap {name}

\* matchRepository: the name as it is listed, a full reference, or the end of
\* one listed name only.
MatchRepository(image) ==
  LET known == {r \in Repos : manifests[r] # {}}
      exact == {r \in known : Bare(image) \in {r, Bare(r)}}
      ends  == {r \in known : Proper(Bare(image), r)}
  IN  IF exact # {} THEN exact ELSE IF Cardinality(ends) = 1 THEN ends ELSE {}

(* resolveImageArg, and gcTarget for the two gc commands.                  *)
AfterResolve(kind) ==
  CASE kind \in {"set", "unset"} -> "readRules"
    [] kind = "deleteImage" -> "answer"
    [] OTHER -> "list"
Resolve(p) ==
  /\ pc[p] = "resolve"
  /\ IF ResolveRegistry(job[p].registry) = {} THEN Finish(p, "failed") /\ UNCHANGED repo
     ELSE IF job[p].image = WholeRegistry
       THEN /\ UNCHANGED repo
            /\ IF job[p].kind \in {"set", "unset"} THEN Goto(p, "readRules") ELSE Finish(p, "failed")
     ELSE \/ /\ MatchRepository(job[p].image) = {}
             /\ Finish(p, "failed") /\ UNCHANGED repo
          \/ \E r \in MatchRepository(job[p].image) :
               repo' = [repo EXCEPT ![p] = r] /\ Goto(p, AfterResolve(job[p].kind))
  /\ UNCHANGED <<platformVars, job, listed, doomed, found, historyVars>>

-----------------------------------------------------------------------------
(* Deleting.                                                               *)

TagsOf(r, m) == {t \in Tags : tagged[r][t] = m}

\* What is deleted of a listing by `registry delete`: the one manifest whose
\* digest begins with the argument, or the one that has the tag.
Named(p, list) ==
  LET hits == IF job[p].kind = "deleteDigest" THEN DOMAIN list \cap job[p].what
              ELSE {m \in DOMAIN list : job[p].what \in list[m]}
  IN  IF Cardinality(hits) = 1 THEN hits ELSE {}

(* ListDigests.                                                            *)
List(p) ==
  LET r == repo[p]
      list == [m \in manifests[r] |-> TagsOf(r, m)]
  IN
  /\ pc[p] = "list"
  /\ listed' = [listed EXCEPT ![p] = list]
  /\ since' = [since EXCEPT ![p] = {}] /\ crossed' = [crossed EXCEPT ![p] = FALSE]
  /\ IF job[p].kind = "prune" THEN Goto(p, "readApps") /\ UNCHANGED doomed
     ELSE /\ doomed' = [doomed EXCEPT ![p] = Named(p, list)]
          /\ IF Named(p, list) = {} THEN Finish(p, "failed") ELSE Goto(p, "answer")
  /\ UNCHANGED <<platformVars, job, repo, found, clash>>

\* Mutant: an app's repository is only known by the name in the list.
DeployedTagsListed(r) == {runs[a] : a \in {b \in Apps : RunsFrom[b] = r}}

\* deployedTags: the tags of a repository that apps run.
DeployedTags(r) == {runs[a] : a \in {b \in Apps : IsSuffix(r, RunsFrom[b])}}

\* pruneCandidates: all but the newest, and those that carry a deployed tag.
Newest(ms, k) == {m \in ms : Cardinality({n \in ms : n > m}) < k}
PruneCandidates(list, keep, deployed) ==
  {m \in DOMAIN list \ Newest(DOMAIN list, keep) : list[m] \cap deployed = {}}

(* ListApps, after the digests.                                            *)
ReadApps(p) ==
  LET out == PruneCandidates(listed[p], job[p].what, DeployedTags(repo[p])) IN
  /\ pc[p] = "readApps"
  /\ doomed' = [doomed EXCEPT ![p] = out]
  /\ IF out = {} THEN Finish(p, "nothing") ELSE Goto(p, "answer")
  /\ UNCHANGED <<platformVars, job, repo, listed, found, historyVars>>

(* The prompt, --yes, or --dry-run.                                        *)
Answer(p) ==
  /\ pc[p] = "answer"
  /\ Goto(p, "delete") \/ Finish(p, "aborted")
  /\ UNCHANGED <<platformVars, job, repo, listed, doomed, found, historyVars>>

Without(r, ms) ==
  /\ manifests' = [manifests EXCEPT ![r] = @ \ ms]
  /\ tagged' = [tagged EXCEPT ![r] = [t \in Tags |-> IF @[t] \in ms THEN 0 ELSE @[t]]]
Untag(r, t, ms) == tagged' = [tagged EXCEPT ![r][t] = IF @ \in ms THEN 0 ELSE @] /\ UNCHANGED manifests

\* What the request takes away; a tag is removed from the manifest listed.
Removed(p) == IF job[p].kind = "deleteImage" THEN manifests[repo[p]] ELSE doomed[p]

(* DeleteDigests, DeleteTags and DeleteRepository; the answer may be lost. *)
Delete(p) ==
  /\ pc[p] = "delete"
  /\ IF job[p].kind = "deleteTag" THEN Untag(repo[p], job[p].what, doomed[p]) ELSE Without(repo[p], Removed(p))
  /\ \E lost \in BOOLEAN : Finish(p, IF lost THEN "failed" ELSE "done")
  /\ crossed' = [q \in Procs |-> crossed[q] \/ (q # p /\ repo[q] = repo[p])]
  /\ UNCHANGED <<pushes, runs, moves, rules, ruled, job, repo, listed, doomed, found, since, clash>>

-----------------------------------------------------------------------------
(* Retention rules.                                                        *)

\* gcTarget: a rule names an image by a full reference.
Scope(p) ==
  IF repo[p] = WholeRegistry THEN WholeRegistry
  ELSE IF IsStrictPrefix(Prefix, repo[p]) THEN repo[p] ELSE Prefix \o repo[p]

\* Mutant: a rule is looked up by the name the repository is listed under.
FindGCStrategyListed(p) == {r \in rules : r.scope = repo[p]}

\* findGCStrategy: the first of the rules for the scope.
FindGCStrategy(p) == {r \in rules : r.scope = Scope(p)}

(* ListGCStrategies.                                                       *)
ReadRules(p) ==
  /\ pc[p] = "readRules"
  /\ crossed' = [crossed EXCEPT ![p] = FALSE]
  /\ IF FindGCStrategy(p) # {}
       THEN /\ \E r \in FindGCStrategy(p) : found' = [found EXCEPT ![p] = {r.id}]
            /\ Goto(p, "writeRule")
       ELSE /\ UNCHANGED found
            /\ IF job[p].kind = "set" THEN Goto(p, "writeRule") ELSE Finish(p, "failed")
  /\ UNCHANGED <<platformVars, job, repo, listed, doomed, since, clash>>

(* UpdateGCStrategy, DeleteGCStrategy or CreateGCStrategy.  A rule that is *)
(* gone by now answers 404.                                                *)
WriteRule(p) ==
  LET mine == {r \in rules : r.id \in found[p]} IN
  /\ pc[p] = "writeRule"
  /\ \E lost \in BOOLEAN :
       Finish(p, IF lost \/ (found[p] # {} /\ mine = {}) THEN "failed" ELSE "done")
  /\ IF found[p] # {}
       THEN /\ rules' = (rules \ mine) \cup
                  (IF job[p].kind = "unset" THEN {} ELSE {[r EXCEPT !.keep = job[p].what] : r \in mine})
            /\ UNCHANGED <<ruled, clash>>
       ELSE /\ ruled < MaxRules /\ ruled' = ruled + 1
            /\ rules' = rules \cup {[id |-> ruled', scope |-> Scope(p), keep |-> job[p].what]}
            /\ clash' = (clash \/ crossed[p])
  /\ crossed' = [q \in Procs |-> crossed[q] \/ q # p]
  /\ UNCHANGED <<imageVars, job, repo, listed, doomed, found, since>>

-----------------------------------------------------------------------------
(* Any request may fail for good; a finished process may be followed by    *)
(* another command.                                                        *)
Fails(p) ==
  /\ pc[p] \notin {"answer", "done"}
  /\ Finish(p, "failed")
  /\ UNCHANGED <<platformVars, job, repo, listed, doomed, found, historyVars>>

(* What apps begin to run is noted for the commands that have listed images. *)
Notice ==
  /\ moves < MaxMoves /\ moves' = moves + 1
  /\ since' = [p \in Procs |-> since[p] \cup (Uses' \ Uses)]


(* A build pushes a manifest, or an old one is tagged again.               *)
Push(r, t) ==
  /\ \/ /\ pushes[r] < MaxPushes /\ pushes' = [pushes EXCEPT ![r] = @ + 1]
        /\ manifests' = [manifests EXCEPT ![r] = @ \cup {pushes'[r]}]
        /\ tagged' = [tagged EXCEPT ![r][t] = pushes'[r]]
     \/ \E m \in manifests[r] \ {tagged[r][t]} :
          tagged' = [tagged EXCEPT ![r][t] = m] /\ UNCHANGED <<pushes, manifests>>
  /\ UNCHANGED runs /\ Notice
  /\ UNCHANGED <<rules, ruled, commandVars, crossed, clash>>

(* An app is deployed to another tag.                                      *)
Deploy(a, t) ==
  /\ t # runs[a] /\ tagged[Repository(a)][t] # 0
  /\ runs' = [runs EXCEPT ![a] = t]
  /\ UNCHANGED <<manifests, pushes, tagged>> /\ Notice
  /\ UNCHANGED <<rules, ruled, commandVars, crossed, clash>>

Next ==
  \/ \E p \in Procs :
       \/ Resolve(p) \/ List(p) \/ ReadApps(p) \/ Answer(p) \/ Delete(p)
       \/ ReadRules(p) \/ WriteRule(p) \/ Fails(p)
  \/ \E r \in Repos, t \in Tags : Push(r, t)
  \/ \E a \in Apps, t \in Tags : Deploy(a, t)

Spec == Init /\ [][Next]_vars

-----------------------------------------------------------------------------
(* Properties.                                                             *)

\* Every variable keeps its type, and tags point at manifests that exist.
TypeOK ==
  /\ manifests \in [Repos -> SUBSET (1..MaxPushes)]
  /\ \A r \in Repos, t \in Tags : tagged[r][t] \in manifests[r] \cup {0}
  /\ runs \in [Apps -> Tags] /\ moves \in 0..MaxMoves
  /\ rules \subseteq [id : 1..ruled, scope : {WholeRegistry} \cup Seq(STRING), keep : Nat]
  /\ pc \in [Procs -> {"resolve", "list", "readApps", "answer", "delete", "readRules", "writeRule", "done"}]
  /\ outcome \in [Procs -> {"running", "done", "failed", "aborted", "nothing"}]
  /\ repo \in [Procs -> Repos \cup {WholeRegistry}]
  /\ \A p \in Procs : doomed[p] \subseteq DOMAIN listed[p] /\ found[p] \subseteq 1..ruled

\* `prune` deletes no manifest that a deployed app runs, unless it came into
\* use after the command had listed the image, and none of the newest, unless
\* something else was deleted meanwhile (registryPruneAction).
PruneIsSafe ==
  [][\A p \in Procs :
       (pc[p] = "delete" /\ job[p].kind = "prune" /\ pc'[p] = "done" /\ manifests' # manifests) =>
         /\ \A a \in Apps : Repository(a) = repo[p] /\ Image(a) \in doomed[p]
                           => <<a, runs[a], Image(a)>> \in since[p]
         /\ crossed[p] \/ Newest(manifests[repo[p]], job[p].what) \cap doomed[p] = {}]_vars

\* `gc set` leaves one rule for its scope, the one it was asked for, and `gc
\* unset` leaves none, unless another command wrote rules in between: a rule is
\* found again by what was sent when it was made (gcTarget, findGCStrategy).
RuleIsAsReported ==
  [][\A p \in Procs :
       (pc[p] = "writeRule" /\ outcome'[p] = "done" /\ ~crossed[p] /\ ~clash) =>
         {r.keep : r \in {x \in rules' : x.scope = Scope(p)}}
           = (IF job[p].kind = "set" THEN {job[p].what} ELSE {})
         /\ Cardinality({x \in rules' : x.scope = Scope(p)}) <= 1]_vars
=============================================================================
