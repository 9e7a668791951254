------------------------------- MODULE Apply -------------------------------
(***************************************************************************)
(* `apply -f`, `create app` and the verbs that edit one app, run by        *)
(* several darkubectl processes over one namespace.                        *)
(*                                                                         *)
(* A command line is a sequence of documents, each a change of one named   *)
(* app; every verb but `apply` has one.  A process lists the apps of the   *)
(* tenant (`apply` keeps that list until it creates an app), then edits    *)
(* what it found by the dance of runAppChange, or creates what is missing  *)
(* and edits in what the POST ignores (cmd/apply.go, cmd/create.go).       *)
(* AppSpec holds what each change makes of an app.                         *)
(***************************************************************************)
EXTENDS AppSpec, Sequences

CONSTANTS
  Clients,         \* darkubectl processes
  Names,           \* names of apps
  Scenarios,       \* the tenants and command lines to start from
  VerifyAttempts,  \* verifyAttempts: the read-backs after a write
  MaxOthers        \* bound: steps of the autoscaler and deletions by others

ASSUME AttemptsAssumption == VerifyAttempts \in Nat \ {0}
ASSUME OthersAssumption == MaxOthers \in Nat

\* A command line: only `apply` takes more than one document, all of them specs.
IsLine(l) ==
  /\ Len(l.docs) \in Nat \ {0}
  /\ \A i \in 1..Len(l.docs) :
       /\ l.docs[i].name \in Names /\ IsChange(l.docs[i].change)
       /\ Len(l.docs) > 1 => l.docs[i].change.verb = "spec"

ASSUME ScenariosAssumption ==
  \A s \in Scenarios :
    /\ s.tenant \in [Names -> App \union {None}] /\ s.filtered \subseteq Fields
    /\ \A n \in Names : s.tenant[n] # None => SizeFits(s.tenant[n])
    /\ DOMAIN s.line \subseteq Clients /\ \A c \in DOMAIN s.line : IsLine(s.line[c])

VARIABLES
  tenant,    \* the apps of the tenant, None where there is none
  filtered,  \* the fields the platform accepts and drops
  id,        \* the identity of the app of each name: a new one at each create
  ver,       \* how many writes were stored under each name (history)
  inflight,  \* the writes that are accepted and not stored yet
  others,    \* steps taken by the autoscaler and in the console
  line,      \* the command line of each process that runs
  proc,      \* the state of each process
  touched    \* the processes whose app something else changed since they
             \* prepared their change or created the app (history)

storeVars == <<tenant, id, ver, inflight>>
vars == <<storeVars, filtered, others, line, proc, touched>>

Phases == {"lookup", "preread", "prepare", "prompt", "reread", "put", "verify",
           "createPrompt", "post", "relist", "told", "done"}
Reports == {"nothing", "dryRun", "wouldCreate", "unchanged", "configured", "created",
            "ignored", "aborted", "failed"}

Running == DOMAIN line
Doc(c) == line[c].docs[proc[c].doc]
Name(c) == Doc(c).name
Verb(c) == Doc(c).change.verb
IsAt(c, phase) == proc[c].pc = phase

Starting ==
  [pc |-> "lookup", doc |-> 1, list |-> None, target |-> 0, change |-> None,
   prepared |-> None, changed |-> {}, confirmed |-> FALSE, redeploy |-> FALSE,
   body |-> None, base |-> 0, tries |-> 0, told |-> "nothing"]

Init ==
  /\ \E s \in Scenarios : tenant = s.tenant /\ line = s.line /\ filtered = s.filtered
  /\ id = [n \in Names |-> 0] /\ ver = [n \in Names |-> 0]
  /\ inflight = {} /\ others = 0 /\ touched = {}
  /\ proc = [c \in Running |-> Starting]

-----------------------------------------------------------------------------
(* The steps of a process.                                                 *)

\* A record with other values for some keys.
Updated(r, news) ==
  [f \in DOMAIN r \union DOMAIN news |-> IF f \in DOMAIN news THEN news[f] ELSE r[f]]

\* What one step makes of the state of a process.
Now(c, news) == proc' = [proc EXCEPT ![c] = Updated(@, news)]
Goto(c, phase) == Now(c, [pc |-> phase])
Tell(c, report) == Now(c, [pc |-> "told", told |-> report])   \* on to the next document
Exit(c, report) == proc' = [proc EXCEPT ![c] = [Starting EXCEPT !.pc = "done", !.told = report]]
Fail(c) == Exit(c, "failed")   \* an error ends the command

OnlyReads == UNCHANGED <<storeVars, filtered, others, line, touched>>

\* ListApps.
Listing == [n \in Names |-> IF tenant[n] = None THEN None
                            ELSE [id |-> id[n], plan |-> tenant[n].plan]]
Seen(c) == IF proc[c].list = None THEN Listing ELSE proc[c].list
Entry(c) == Seen(c)[Name(c)]

\* The app a process found is still there: a read of it does not fail.
Live(c) == tenant[Name(c)] # None /\ id[Name(c)] = proc[c].target

\* What a change asks of a setting, None if nothing.
Asked(k, f) ==
  IF k.verb = "spec" THEN k.spec[f]
  ELSE IF k.verb = "resources" /\ f \in DOMAIN k.fields THEN k.fields[f] ELSE None

\* setResourcesAction and updateFromSpec: against the plan of the LISTED app.
Sized(k, plan) == SizeAllowed(Asked(k, "size"), Given(Asked(k, "plan"), plan))

\* validateApplySpec and validate.
Valid(s) == s.image = None \/ s.git = None
CanCreate(s) == Valid(s) /\ Complete(s)

\* The verbs that read the app before the dance, and use what they read.
PrereadVerbs == {"command", "domain", "disk"}

(* applyOne, or ResolveApp: the app is there.                              *)
FindApp(c) ==
  /\ IsAt(c, "lookup") /\ Verb(c) # "create" /\ Entry(c) # None
  /\ LET k == Doc(c).change
     IN  IF (k.verb = "spec" => Valid(k.spec)) /\ Sized(k, Entry(c).plan)
         THEN Now(c, [pc |-> IF k.verb \in PrereadVerbs THEN "preread" ELSE "prepare",
                      list |-> Seen(c), target |-> Entry(c).id, change |-> k])
         ELSE Fail(c)
  /\ OnlyReads

(* createMissing, up to the prompt.                                        *)
FindNone(c) ==
  /\ IsAt(c, "lookup") /\ Verb(c) # "create" /\ Entry(c) = None
  /\ LET k == Doc(c).change
         allowed == Verb(c) = "spec" /\ CanCreate(k.spec) /\ SizeAllowed(k.spec.size, k.spec.plan)
     IN  \/ ~allowed /\ Fail(c)
         \/ allowed /\ line[c].dryRun /\ Now(c, [pc |-> "told", told |-> "wouldCreate", list |-> Seen(c)])
         \/ allowed /\ ~line[c].dryRun /\ Now(c, [pc |-> "createPrompt", change |-> k])
  /\ OnlyReads

(* createAppAction, which lists nothing.                                   *)
StartCreate(c) ==
  /\ IsAt(c, "lookup") /\ Verb(c) = "create"
  /\ IF CanCreate(Doc(c).change.spec) THEN Now(c, [pc |-> "createPrompt", change |-> Doc(c).change])
     ELSE Fail(c)
  /\ OnlyReads

(* GetApp before the change: `set command` completes the half that was not *)
(* given, `set domain` picks the challenge, `set disk` refuses to shrink.  *)
Preread(c) ==
  /\ IsAt(c, "preread")
  /\ LET k == proc[c].change
         a == tenant[Name(c)]
         Half(f) == IF f \in DOMAIN k.fields THEN k.fields[f] ELSE a[f]
     IN  \/ ~Live(c) /\ Fail(c)
         \/ /\ Live(c) /\ k.verb = "disk"
            /\ IF CanGrow(a, k.size) THEN Goto(c, "prepare") ELSE Fail(c)
         \/ /\ Live(c) /\ k.verb = "command"
            /\ Now(c, [pc |-> "prepare",
                       change |-> [k EXCEPT !.fields = [f \in {"command", "args"} |-> Half(f)]]])
         \/ /\ Live(c) /\ k.verb = "domain"
            /\ Now(c, [pc |-> "prepare", change |-> [k EXCEPT !.challenge = ChallengeFor(k, a)]])
  /\ OnlyReads

\* runAppChange: what becomes of a prepared change.
Verdict(c, differing) ==
  CASE line[c].dryRun -> [pc |-> "told", told |-> "dryRun"]
    [] ~line[c].dryRun /\ differing = {} -> [pc |-> "told", told |-> "unchanged"]
    [] OTHER -> [pc |-> IF proc[c].confirmed THEN "reread" ELSE "prompt"]

(* PrepareAppUpdate and diffApps.                                          *)
Prepare(c) ==
  /\ IsAt(c, "prepare")
  /\ LET k == proc[c].change
         a == tenant[Name(c)]
     IN  IF Live(c) /\ CanChange(k, a)
         THEN Now(c, Updated(Verdict(c, Diff(a, Changed(k, a))),
                             [prepared |-> Changed(k, a), changed |-> Diff(a, Changed(k, a))]))
         ELSE Fail(c)
  /\ touched' = touched \ {c}
  /\ UNCHANGED <<storeVars, filtered, others, line>>

(* confirm().                                                              *)
Answer(c) ==
  /\ proc[c].pc \in {"prompt", "createPrompt"}
  /\ Exit(c, "aborted") \/ Goto(c, IF IsAt(c, "prompt") THEN "reread" ELSE "post")
  /\ OnlyReads

\* reconcileIngress writes back what it reads.
Edit(c) == IF proc[c].redeploy THEN [verb |-> "reconcile"] ELSE proc[c].change

(* UpdateApp reads again and applies the change to what it read.           *)
Reread(c) ==
  /\ IsAt(c, "reread")
  /\ IF Live(c) /\ CanChange(Edit(c), tenant[Name(c)])
     THEN Now(c, [pc |-> "put", body |-> Changed(Edit(c), tenant[Name(c)]), base |-> ver[Name(c)]])
     ELSE Fail(c)
  /\ OnlyReads

(* The PUT, whose answer may be lost.                                      *)
Put(c) ==
  /\ IsAt(c, "put")
  /\ IF Live(c)
     THEN /\ inflight' = inflight \union
               {[by |-> c, doc |-> proc[c].doc, name |-> Name(c), id |-> proc[c].target,
                 body |-> proc[c].body, base |-> proc[c].base]}
          /\ \/ ~proc[c].redeploy /\ Now(c, [pc |-> "verify", tries |-> 0])
             \/ proc[c].redeploy /\ Tell(c, "configured")
             \/ Fail(c)
     ELSE Fail(c) /\ UNCHANGED inflight
  /\ UNCHANGED <<tenant, id, ver, filtered, others, line, touched>>

\* Mutant: one attempt too many.
IsLastTryLate(c) == proc[c].tries = VerifyAttempts
IsLastTry(c) == proc[c].tries + 1 = VerifyAttempts

Missed(c) ==
  IF IsLastTry(c) THEN Exit(c, "ignored") ELSE Now(c, [tries |-> proc[c].tries + 1])

Confirmed(c) ==
  IF Verb(c) = "domain" /\ proc[c].change.reconcile
  THEN Now(c, [pc |-> "reread", redeploy |-> TRUE]) ELSE Tell(c, "configured")

(* One attempt of retryReadBack: it may fail transiently.                  *)
ReadBack(c) ==
  /\ IsAt(c, "verify")
  /\ IF Live(c) /\ Took(proc[c].change, proc[c].changed, tenant[Name(c)], proc[c].prepared)
     THEN Confirmed(c) \/ Missed(c)
     ELSE IF Live(c) THEN Missed(c) ELSE Fail(c)
  /\ OnlyReads

-----------------------------------------------------------------------------
(* Writes that are stored.                                                 *)

\* The processes other than "but" that work on an app of this name.
Disturbed(n, but) == touched \union {c \in Running \ but : Name(c) = n}

Stored(n, a) == tenant' = [tenant EXCEPT ![n] = a] /\ ver' = [ver EXCEPT ![n] = @ + 1]

(* createFromSpec: the POST, whose answer may be lost.  The POST of a       *)
(* second app of the name only breaks off.  The platform picks the size of *)
(* an app on a dynamic plan.                                               *)
Post(c) ==
  /\ IsAt(c, "post") /\ tenant[Name(c)] = None
  /\ LET s == proc[c].change.spec
     IN  /\ \E size \in Sizes, node \in Nodes : Stored(Name(c), Derived(Payload(s, size), node))
         /\ id' = [id EXCEPT ![Name(c)] = @ + 1]
         /\ \/ Fail(c)
            \/ Now(c, Updated([list |-> None],
                              IF Verb(c) = "spec" /\ HasPostCreateFields(s) THEN [pc |-> "relist"]
                              ELSE [pc |-> "told", told |-> "created"]))
  /\ touched' = Disturbed(Name(c), {c}) \ {c}
  /\ UNCHANGED <<inflight, filtered, others, line>>

(* createMissing: the app is looked up again and edited without asking.    *)
Relist(c) ==
  /\ IsAt(c, "relist")
  /\ IF Entry(c) # None
     THEN Now(c, [pc |-> "prepare", list |-> Seen(c), target |-> Entry(c).id, confirmed |-> TRUE])
     ELSE Fail(c)
  /\ OnlyReads

(* The next document, or the end.                                          *)
NextDoc(c) ==
  /\ IsAt(c, "told")
  /\ IF proc[c].doc < Len(line[c].docs)
     THEN Now(c, [pc |-> "lookup", doc |-> proc[c].doc + 1, confirmed |-> FALSE, redeploy |-> FALSE])
     ELSE Exit(c, proc[c].told)
  /\ OnlyReads

(* A request fails, or the process is interrupted.                         *)
Breaks(c) == ~IsAt(c, "done") /\ Fail(c) /\ OnlyReads

Step(c) ==
  \/ FindApp(c) \/ FindNone(c) \/ StartCreate(c) \/ Preread(c) \/ Prepare(c) \/ Answer(c)
  \/ Reread(c) \/ Put(c) \/ ReadBack(c) \/ Post(c) \/ Relist(c) \/ NextDoc(c) \/ Breaks(c)

(* The platform stores an accepted write, unless the app is gone.          *)
Land(w) ==
  /\ inflight' = inflight \ {w}
  /\ IF tenant[w.name] # None /\ id[w.name] = w.id
     THEN /\ \E node \in Nodes :
               Stored(w.name, StoredApp(tenant[w.name], w.body, filtered, node))
          /\ touched' = Disturbed(w.name, {c \in {w.by} : proc[c].doc = w.doc})
     ELSE UNCHANGED <<tenant, ver, touched>>
  /\ UNCHANGED <<id, filtered, others, line, proc>>

(* The autoscaler moves the replica count, or someone deletes the app.     *)
Other(n) ==
  /\ others < MaxOthers /\ tenant[n] # None
  /\ \/ HpaOn(tenant[n]) /\ Stored(n, [tenant[n] EXCEPT !.replicas = @ + 1])
     \/ Stored(n, None)
  /\ others' = others + 1
  /\ touched' = Disturbed(n, {})
  /\ UNCHANGED <<id, inflight, filtered, line, proc>>

Next ==
  \/ \E c \in Running : Step(c)
  \/ \E w \in inflight : Land(w)
  \/ \E n \in Names : Other(n)

Spec == Init /\ [][Next]_vars

-----------------------------------------------------------------------------
(* Properties.                                                             *)

\* Every variable keeps its type; a document of the line is at hand, and no
\* write is read back more than VerifyAttempts times.
TypeOK ==
  /\ tenant \in [Names -> App \union {None}] /\ filtered \subseteq Fields
  /\ id \in [Names -> Nat] /\ ver \in [Names -> Nat]
  /\ others \in 0..MaxOthers /\ touched \subseteq Running /\ Running \subseteq Clients
  /\ \A w \in inflight : w.by \in Running /\ w.name \in Names /\ w.body \in App
  /\ \A c \in Running :
       /\ proc[c].pc \in Phases /\ proc[c].told \in Reports
       /\ proc[c].doc \in 1..Len(line[c].docs) /\ proc[c].tries < VerifyAttempts
       /\ proc[c].changed \subseteq Fields
       /\ proc[c].change # None /\ Verb(c) \in {"spec", "create"} => proc[c].change.spec \in AppSpecs
       /\ proc[c].prepared \in App \union {None} /\ proc[c].body \in App \union {None}

Same(a, b) == \A f \in Fields : SameAfterWrite(f, a, b)

\* What a report of success claims of the stored app: applying the change
\* again would move nothing.  `set subdomain --ssl` claims the subdomain only,
\* `create app` what a POST carries, `patch app` the fields its diff names, to
\* which the size beside a new fixed plan need not belong, and turning off what
\* no chart block holds has nothing to show.
Holds(k, a) ==
  CASE k.verb = "subdomain" -> a.subdomain = k.fields.subdomain
    [] k.verb = "patch" -> \A f \in Fields : \/ SameAfterWrite(f, Changed(k, a), a)
                                             \/ f = "size" /\ ~IsDynamic(a.plan)
    [] k.verb = "autoscale" /\ k.bounds = None -> ~HpaOn(a) /\ ~a.scaled
    [] k.verb = "create" -> Same(SpecApplied([k.spec EXCEPT !.bounds = None, !.probes = None,
                                                            !.size = None], a), a)
    [] OTHER -> Same(Changed(k, a), a)

\* A command that says "configured", "created" or "unchanged" of an app left
\* the platform storing everything it asked for, unless something else wrote
\* the app meanwhile: dropped fields, the settings a POST ignores and probes
\* whose port is read off the app included (took, verifyDiff, createMissing).
ReportedIsStored ==
  \A c \in Running :
    IsAt(c, "told") /\ proc[c].told \in {"configured", "created", "unchanged"} /\ c \notin touched
      => tenant[Name(c)] # None /\ Holds(proc[c].change, tenant[Name(c)])

Twice(a, k) == a[k] # None /\ a.config.probes[k] # None
Cleared(a, k) == IF Twice(a, k) /\ ~Inexpressible(a) THEN None ELSE a[k]

\* `get apps -o spec` and `apply -f` form a loop: whatever has been done to an
\* app, its own export can be applied and changes nothing, but for a probe set
\* in both places, which keeps its custom_config form (probesFromApp).  An app
\* whose flag and chart disagree on autoscaling is put right.
ExportIsQuiet ==
  \A n \in Names :
    tenant[n] # None /\ tenant[n].scaled = HpaOn(tenant[n]) =>
      LET a == tenant[n]
      IN  /\ CanApplySpec(Export(a), a) /\ SizeAllowed(Export(a).size, a.plan)
          /\ SpecApplied(Export(a), a) = [a EXCEPT !.readiness = Cleared(a, "readiness"),
                                                   !.liveness = Cleared(a, "liveness")]

\* The fields a change names.  A plan decides the size, an autoscaled spec
\* leaves the replicas to the autoscaler, a probe has two homes.
Named(k) ==
  CASE k.verb = "resources" -> {"plan", "size"}
    [] k.verb = "command"   -> {"command", "args"}
    [] k.verb \in {"scale", "subdomain", "patch"} ->
         DOMAIN k.fields \union (IF "plan" \in DOMAIN k.fields THEN {"size"} ELSE {})
    [] k.verb = "svc-type"  -> {"svc"}
    [] k.verb = "autoscale" -> {"config", "scaled"}
    [] k.verb = "disk"      -> {"disk"}
    [] k.verb = "probe"     -> DOMAIN k.probes \union {"config"}
    [] k.verb = "domain"    -> {"hosts"} \union (IF k.add # {} \/ k.challenge # None
                                                 THEN {"challenge", "ssl"} ELSE {})
    [] k.verb = "spec"      ->
         {f \in {"image", "git", "plan", "command", "args", "disk", "envs"} : k.spec[f] # None}
         \union (IF k.spec.bounds # None THEN {"config", "scaled"}
                 ELSE IF k.spec.replicas # None THEN {"replicas"} ELSE {})
         \union (IF k.spec.probes # None THEN {"readiness", "liveness", "config"} ELSE {})
         \union (IF k.spec.svcType # None \/ k.spec.ports # None THEN {"svc"} ELSE {})
         \union (IF k.spec.plan # None \/ k.spec.size # None THEN {"size"} ELSE {})

\* ... and of the settings that share a field, those it leaves alone.
KeepsParts(k, a, b) ==
  /\ k.verb = "autoscale" => b.config.probes = a.config.probes
  /\ k.verb = "probe" => /\ b.config.hpa = a.config.hpa
                         /\ \A p \in Kinds \ DOMAIN k.probes : b.config.probes[p] = a.config.probes[p]
  /\ k.verb = "spec" => /\ k.spec.bounds = None => b.config.hpa = a.config.hpa
                        /\ k.spec.probes = None => b.config.probes = a.config.probes
                        /\ k.spec.ports = None => b.svc.ports = a.svc.ports
  /\ k.verb = "svc-type" => b.svc.ports = a.svc.ports
  /\ k.verb # "patch" => /\ a.disk # None => b.disk >= a.disk
                         /\ \A n \in Declared(a) \cap Declared(b) :
                              a.svc.nodes[n] # None => b.svc.nodes[n] = a.svc.nodes[n]

\* The write w is stored over the very app it was read from.
StoredSerially(w) == w.base = ver[w.name] /\ ver'[w.name] # ver[w.name]
ChangeOf(w) == line[w.by].docs[w.doc].change

\* A write stored over the very app it was read from changes only what its
\* change names, shrinks no disk and moves no public port, although it sends
\* the whole object and several settings share a block of it; what a create
\* sends after its POST included (applySpecTo, applyHPA, applyProbes, applySvc).
OnlyNamedChanges ==
  [][\A w \in inflight \ inflight' :
       StoredSerially(w) =>
         LET k == ChangeOf(w)
             a == tenant[w.name]
             b == tenant'[w.name]
         IN  /\ \A f \in Fields \ (Named(k) \union {"svc"}) : b[f] = a[f]
             /\ "svc" \notin Named(k) => SameAfterWrite("svc", a, b)
             /\ KeepsParts(k, a, b)]_vars

-----------------------------------------------------------------------------
(* What the texts of the program say and the code does not do.             *)

\* cmd/mutate.go: "read the app, change one thing".  `set command` of one half
\* sends the other half as it was before the prompt, over a newer one that the
\* second read has just shown (setCommandAction).
CommandKeepsOtherHalf ==
  [][\A w \in inflight \ inflight' :
       StoredSerially(w) /\ ChangeOf(w).verb = "command" =>
         \A f \in {"command", "args"} \ DOMAIN ChangeOf(w).fields :
           tenant'[w.name][f] = tenant[w.name][f]]_vars
=============================================================================
