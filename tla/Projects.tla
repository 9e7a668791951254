------------------------------ MODULE Projects ------------------------------
(***************************************************************************)
(* Namespaces (projects), the apps in them and what a deletion leaves in   *)
(* the clusters: `create namespace`, `delete namespace`, `delete app` and  *)
(* `get orphans` (cmd/namespace.go, cmd/delete.go, cmd/orphans.go,         *)
(* internal/kube/kube.go).                                                 *)
(*                                                                         *)
(* One command runs; others create and delete apps beside it.  The list of *)
(* apps is read in pages by offset, so it may change between two of them.  *)
(* The record of a deleted app goes at once and its Helm release later, or *)
(* never; `get orphans` compares the tenant's apps with one cluster.       *)
(***************************************************************************)
EXTENDS Naturals, FiniteSets, Sequences

CONSTANTS
  Org,       \* the tenant the command acts in
  Spaces,    \* the namespaces there may be: [id, name, cluster, tenant]; a name
             \* is the sequence of the words between its dashes
  Commands,  \* records [kind, ref, cluster]
  Context,   \* the cluster that kubectl reads
  Limit,     \* apps on a page
  MaxApps,   \* bound: apps that are ever created
  MaxMoves   \* bound: what others do

VARIABLES
  spaces,     \* the namespaces there are
  apps,       \* the apps there are: [id, space]; the newest has the highest id
  created,    \* how many apps have been created
  workloads,  \* what runs in the clusters: [id, space]
  databases,  \* the namespaces that hold a managed database
  moves,      \* how much others have done
  cmd, pc,
  known,      \* the namespaces the command has listed
  target,     \* the namespace or the app it acts on
  got,        \* the apps it has read
  running,    \* the workloads it has read
  report,     \* what `get orphans` printed: [id, kind]
  outcome,
  fresh,      \* apps, databases and workloads that came since it began to read (history)
  shifted     \* an app was deleted since then (history)

platformVars == <<spaces, apps, created, workloads, databases, moves>>
commandVars == <<cmd, pc, known, target, got, running, report, outcome>>
historyVars == <<fresh, shifted>>
vars == <<platformVars, commandVars, historyVars>>

None == [id |-> 0]
SpaceOf(id) == CHOOSE s \in Spaces : s.id = id
Foreign(x) == SpaceOf(x.space).tenant # Org

Init ==
  /\ spaces \in SUBSET Spaces
  /\ apps \in {{}} \cup {{[id |-> 1, space |-> s.id]} : s \in spaces}
  /\ created = Cardinality(apps)
  /\ workloads \in SUBSET apps
  /\ databases \in SUBSET {s.id : s \in spaces} /\ Cardinality(databases) <= 1
  /\ moves = 0
  /\ cmd \in Commands
  /\ pc = IF cmd.kind \in {"deleteApp", "orphans"} THEN "page" ELSE "spaces"
  /\ known = {} /\ target = None /\ got = {} /\ running = {} /\ report = {}
  /\ outcome = "running" /\ fresh = {} /\ shifted = FALSE

Goto(phase) == pc' = phase /\ UNCHANGED outcome
Finish(how) == pc' = "done" /\ outcome' = how

-----------------------------------------------------------------------------
(* Reading.                                                                *)

\* What the tenant's list of apps holds now.
Listing == {a \in apps : ~Foreign(a)}

\* Namespaces: the list, or, for a credential that may not read it and for an
\* empty one, the namespaces that apps are in.
Namespaces ==
  LET all == {s \in spaces : s.tenant = Org}
      ofApps == {SpaceOf(a.space) : a \in Listing}
  IN  IF all = {} THEN {ofApps} ELSE {all, ofApps}

\* ResolveCluster: an id, or the name of a cluster that a namespace is on.
ResolveCluster(ref, list) ==
  IF ref.byId THEN {ref.cluster} ELSE {s.cluster : s \in {x \in list : x.cluster = ref.cluster}}

\* The slug of the tenant begins the name; no namespace of that name is there.
MayCreate(name, cluster, list) ==
  Head(name) = Org /\ ~\E s \in list : s.name = name /\ s.cluster = cluster

(* ListNamespaces, and what either command decides from it: the first one  *)
(* that has the name or the id, or what is to be created.                  *)
ReadSpaces ==
  /\ pc = "spaces"
  /\ \E list \in Namespaces :
       /\ known' = list
       /\ IF cmd.kind = "deleteSpace"
            THEN LET hits == {s \in list : cmd.ref \in {s.name, <<s.id>>}} IN
                 IF hits = {} THEN Finish("failed") /\ UNCHANGED target
                 ELSE Goto("page") /\ \E s \in hits : target' = s
            ELSE LET on == ResolveCluster(cmd.cluster, list)
                     new == {s \in Spaces : s.name = cmd.ref /\ s.cluster \in on}
                 IN IF \E c \in on : MayCreate(cmd.ref, c, list)
                      THEN Goto("answer") /\ \E s \in new : target' = s
                      ELSE Finish("failed") /\ UNCHANGED target
  /\ fresh' = {} /\ shifted' = FALSE
  /\ UNCHANGED <<platformVars, cmd, got, running, report>>

\* One page of the list, which is in the order of creation, from an offset on.
Place(a) == Cardinality({b \in Listing : b.id < a.id})
Page(offset) == {a \in Listing : Place(a) \in offset..(offset + Limit - 1)}

\* Mutant: the first page is taken for the whole list.
LastPageFirst(page, count) == TRUE

\* ListApps ends with a page after which there is nothing more.
LastPage(page, count) == page = {} \/ Cardinality(got) + Cardinality(page) >= count

\* ResolveApp, with a reference that is an id (WaitApp has the names).
Resolved(list) == {a \in list : cmd.ref = <<a.id>>}

(* A page of ListApps, and what follows the last one.                      *)
ReadPage ==
  LET page == Page(Cardinality(got))
      all == got \cup page
  IN
  /\ pc = "page"
  /\ got' = all
  /\ IF ~LastPage(page, Cardinality(Listing)) THEN Goto("page") /\ UNCHANGED target
     ELSE CASE cmd.kind = "orphans" -> Goto("kubectl") /\ UNCHANGED target
            [] cmd.kind = "deleteApp" ->
                 IF Resolved(all) = {} THEN Finish("failed") /\ UNCHANGED target
                 ELSE Goto("answer") /\ \E a \in Resolved(all) : target' = a
            [] cmd.kind = "deleteSpace" ->
                 /\ UNCHANGED target
                 /\ IF \E a \in all : a.space = target.id THEN Finish("failed") ELSE Goto("databases")
  /\ fresh' = IF got = {} THEN {} ELSE fresh
  /\ shifted' = (got # {} /\ shifted)
  /\ UNCHANGED <<platformVars, cmd, known, running, report>>

(* refuseIfDatabases.  The warning of leftover disks stops nothing.        *)
ReadDatabases ==
  /\ pc = "databases"
  /\ IF target.id \in databases THEN Finish("failed") ELSE Goto("answer")
  /\ UNCHANGED <<platformVars, cmd, known, target, got, running, report, historyVars>>

-----------------------------------------------------------------------------
(* Writing.                                                                *)

(* The prompt; `delete app` wants the name typed.                          *)
Answer ==
  /\ pc = "answer"
  /\ Goto("write") \/ Finish("aborted")
  /\ UNCHANGED <<platformVars, cmd, known, target, got, running, report, historyVars>>

\* The platform deletes a namespace with all that is in it, and asks nothing.
Emptied(space) ==
  /\ spaces' = {s \in spaces : s.id # space}
  /\ apps' = {a \in apps : a.space # space}
  /\ workloads' = {w \in workloads : w.space # space}
  /\ databases' = databases \ {space}

(* DeleteNamespace, CreateNamespace, DeleteApp.  What is not there answers *)
(* 404; the platform may refuse; an answer may be lost.                    *)
Write ==
  /\ pc = "write"
  /\ CASE cmd.kind = "deleteSpace" -> Emptied(target.id)
       [] cmd.kind = "createSpace" -> spaces' = spaces \cup {target} /\ UNCHANGED <<apps, workloads, databases>>
       [] cmd.kind = "deleteApp" ->
            apps' = {a \in apps : a.id # target.id} /\ UNCHANGED <<spaces, workloads, databases>>
  /\ \E lost \in BOOLEAN : Finish(IF lost THEN "failed" ELSE "done")
  /\ UNCHANGED <<created, moves, cmd, known, target, got, running, report, historyVars>>

(* Any request may fail.                                                   *)
Fails ==
  /\ pc \in {"spaces", "page", "databases", "write", "kubectl"}
  /\ Finish("failed")
  /\ UNCHANGED <<platformVars, cmd, known, target, got, running, report, historyVars>>

-----------------------------------------------------------------------------
(* get orphans.                                                            *)

\* Diff: workloads that carry the id of an app that is not in the list, and
\* apps whose id none carries, in namespaces, by their names, that have any.
Diff(list, seen) ==
  LET ids == {w.id : w \in seen}
      names == {SpaceOf(w.space).name : w \in seen}
  IN  {[id |-> w.id, kind |-> "orphaned"] : w \in {x \in seen : x.id \notin {a.id : a \in list}}}
      \cup {[id |-> a.id, kind |-> "noWorkload"] :
              a \in {x \in list : x.id \notin ids /\ SpaceOf(x.space).name \in names}}

(* Deployments, after the apps, and the report.                            *)
Kubectl ==
  LET seen == {w \in workloads : SpaceOf(w.space).cluster = Context} IN
  /\ pc = "kubectl"
  /\ running' = seen /\ report' = Diff(got, seen)
  /\ Finish("done")
  /\ UNCHANGED <<platformVars, cmd, known, target, got, historyVars>>

-----------------------------------------------------------------------------
(* The others, and the platform.                                           *)
Move(new, gone) ==
  /\ pc # "done"
  /\ moves < MaxMoves /\ moves' = moves + 1
  /\ fresh' = fresh \cup new /\ shifted' = (shifted \/ gone) /\ UNCHANGED commandVars

CreateApp ==
  \E s \in spaces :
    /\ created < MaxApps /\ created' = created + 1
    /\ apps' = apps \cup {[id |-> created', space |-> s.id]}
    /\ Move({<<"app", created'>>}, FALSE) /\ UNCHANGED <<spaces, workloads, databases>>
DeleteApp ==
  \E a \in apps :
    /\ apps' = apps \ {a}
    /\ Move({}, ~Foreign(a)) /\ UNCHANGED <<spaces, created, workloads, databases>>
Land ==  \* the release of an app is installed, or removed after the app
  \E a \in apps \cup workloads :
    /\ workloads' = IF a \in apps THEN workloads \cup {a} ELSE workloads \ {a}
    /\ workloads' # workloads
    /\ Move({<<"workload", a.id>>}, FALSE) /\ UNCHANGED <<spaces, apps, created, databases>>
CreateDatabase ==
  \E s \in spaces :
    /\ s.id \notin databases /\ databases' = databases \cup {s.id}
    /\ Move({<<"database", s.id>>}, FALSE) /\ UNCHANGED <<spaces, apps, created, workloads>>

Next ==
  \/ ReadSpaces \/ ReadPage \/ ReadDatabases \/ Answer \/ Write \/ Fails \/ Kubectl
  \/ CreateApp \/ DeleteApp \/ Land \/ CreateDatabase

Spec == Init /\ [][Next]_vars

-----------------------------------------------------------------------------
(* Properties.                                                             *)

\* Every variable keeps its type, and every app is in a namespace.
TypeOK ==
  /\ spaces \subseteq Spaces /\ known \subseteq Spaces
  /\ \A a \in apps : a.id \in 1..created /\ a.space \in {s.id : s \in spaces}
  /\ \A w \in workloads \cup running : w.id \in 1..created
  /\ databases \subseteq {s.id : s \in spaces}
  /\ pc \in {"spaces", "page", "databases", "answer", "write", "kubectl", "done"}
  /\ outcome \in {"running", "done", "failed", "aborted"}
  /\ (pc = "write" => target # None) /\ shifted \in BOOLEAN

\* A namespace that is deleted holds no app and no database but those that
\* came after the command had begun to read, unless the list of apps shifted
\* under it between two pages (deleteNamespaceAction).
DeletesOnlyEmpty ==
  [][(pc = "write" /\ cmd.kind = "deleteSpace" /\ pc' = "done") =>
       /\ \A a \in apps : a.space = target.id => <<"app", a.id>> \in fresh \/ shifted
       /\ target.id \in databases => <<"database", target.id>> \in fresh]_vars

\* A workload is reported as orphaned when its app is none of the tenant's, or
\* came after the list had begun to be read, or the list shifted (Diff).
OrphansAreGone ==
  (pc = "kubectl" /\ pc' = "done" /\ outcome' = "done") =>
    \A r \in report' : r.kind = "orphaned" =>
      r.id \notin {a.id : a \in Listing} \/ <<"app", r.id>> \in fresh \/ shifted
=============================================================================
