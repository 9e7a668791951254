------------------------------ MODULE AppSpec ------------------------------
(***************************************************************************)
(* An app with the settings the edit verbs change, what each verb makes of *)
(* it, what the platform stores of a write, when a read-back counts as the *)
(* change, and the spec an app is exported to, created from and edited by  *)
(* (cmd/scale.go, resources.go, entrypoint.go, subdomain.go, patch.go,     *)
(* svctype.go, disk.go, autoscale.go, probe.go, domain.go, apply.go,       *)
(* spec.go, create.go).                                                    *)
(*                                                                         *)
(* A size stands for memory and CPU, an image for repository and tag, a    *)
(* git source for its settings, a list of variables for its entries; the   *)
(* handler of a probe is a path or a command; its timing is left out.      *)
(***************************************************************************)
EXTENDS Naturals, FiniteSets

CONSTANTS
  None,      \* a null, an absent block, a setting a spec does not name
  Blank,     \* an empty string
  Odd,       \* a stored probe of a shape a spec cannot carry
  Images, Gits, Words, EnvLists, Hosts, Labels, Bounds, Paths, Execs, Ports, Nodes, Sizes,
  Wildcards, \* the hosts that begin with *.
  Plans,     \* the plans of the catalogue
  PlanSize   \* the size of a fixed plan, None for a dynamic one

ASSUME MarksAssumption ==
  {None, Blank, Odd} \cap UNION {Images, Gits, Words, EnvLists, Labels, Bounds, Paths, Execs, Ports,
                              Nodes, Plans} = {}
ASSUME PlansAssumption == PlanSize \in [Plans -> Sizes \union {None}]
ASSUME HandlersAssumption == Paths \cap Execs = {}
ASSUME HostsAssumption == Wildcards \subseteq Hosts

Maybe(S) == S \union {None}
IsDynamic(plan) == PlanSize[plan] = None

Kinds == {"readiness", "liveness"}   \* probeKinds
PortNames == {"main", "http"}
SvcTypes == {"ClusterIP", "LoadBalancer"}
Challenges == {"dns01", "http01"}

Probe == [handler : Paths, port : Ports] \union [handler : Execs, port : {None}]
Svc == {s \in [type : SvcTypes, ports : [PortNames -> Maybe(Ports)], nodes : [PortNames -> Maybe(Nodes)]] :
          \A n \in PortNames : s.ports[n] = None => s.nodes[n] = None}
Hpa == {h \in [enabled : BOOLEAN, bounds : Maybe(Bounds)] : h.enabled => h.bounds # None}
Config == [hpa : Maybe(Hpa),
           probes : [Kinds -> Probe \union {None, Odd}]]
App == [image : Maybe(Images), git : Maybe(Gits), plan : Plans, size : Sizes, replicas : Nat,
        command : Words \union {Blank}, args : Words \union {Blank}, svc : Svc,
        disk : Maybe(Nat \ {0}), envs : EnvLists \union {Blank}, hosts : SUBSET Hosts,
        challenge : Challenges, ssl : BOOLEAN, subdomain : Maybe(Labels),
        readiness : Maybe(Paths), liveness : Maybe(Paths), config : Config, scaled : BOOLEAN]

\* The top-level keys of an app object, of which diffApps names those that differ.
Fields == {"image", "git", "plan", "size", "replicas", "command", "args", "svc", "disk", "envs",
           "hosts", "challenge", "ssl", "subdomain", "readiness", "liveness", "config", "scaled"}

\* What a probe definition of a flag or a spec is: a bare path, or full.
ProbeDef == [full : {FALSE}, handler : Paths, port : {None}]
            \union [full : {TRUE}, handler : Paths \union Execs, port : Maybe(Ports)]

\* The settings a spec carries besides name and namespace; None is one left out.
AppSpecs == [image : Maybe(Images), git : Maybe(Gits), plan : Maybe(Plans), size : Maybe(Sizes),
             replicas : Maybe(Nat), command : Words \union {None, Blank}, args : Words \union {None, Blank},
             svcType : Maybe(SvcTypes), ports : Maybe([PortNames -> Maybe(Ports)]), disk : Maybe(Nat \ {0}),
             envs : Maybe(EnvLists), bounds : Maybe(Bounds), probes : Maybe([Kinds -> Maybe(ProbeDef)])]

ASSUME StructuresAssumption ==
  None \notin App \union Hpa \union Probe \union ProbeDef \union [Kinds -> Maybe(ProbeDef)]

Given(new, old) == IF new = None THEN old ELSE new

-----------------------------------------------------------------------------
(* Autoscaling (applyHPA, hpaTook): None turns it off and keeps the bounds. *)

Autoscaled(a, bounds) ==
  LET kept == IF a.config.hpa = None THEN None ELSE a.config.hpa.bounds
  IN  [a EXCEPT !.config.hpa = [enabled |-> bounds # None, bounds |-> Given(bounds, kept)],
                !.scaled = (bounds # None)]

HpaOn(a) == a.config.hpa # None /\ a.config.hpa.enabled

AutoscaleTook(a, bounds) ==
  /\ HpaOn(a) = (bounds # None) /\ a.scaled = (bounds # None)
  /\ bounds # None => a.config.hpa.bounds = bounds

-----------------------------------------------------------------------------
(* Probes.  want maps the kinds a change names to a definition, or to None *)
(* for a probe that is removed.                                            *)

Declared(a) == {n \in PortNames : a.svc.ports[n] # None}

\* appPort: the only port, or the one named http.
OwnPorts(a) ==
  (IF Cardinality(Declared(a)) = 1 THEN {a.svc.ports[n] : n \in Declared(a)} ELSE {a.svc.ports["http"]})
    \ {None}

NeedsOwnPort(p) == p # None /\ p.full /\ p.handler \in Paths /\ p.port = None

\* render: a command has no port.
Rendered(p, a) ==
  [handler |-> p.handler,
   port |-> IF p.handler \in Execs THEN None
            ELSE IF NeedsOwnPort(p) THEN CHOOSE n \in OwnPorts(a) : TRUE ELSE p.port]

\* The path field of a kind, and its probe in custom_config: never both.
PathAfter(a, want, k) ==
  IF k \notin DOMAIN want THEN a[k]
  ELSE IF want[k] # None /\ ~want[k].full THEN want[k].handler ELSE None

ProbeAfter(a, want, k) ==
  IF k \notin DOMAIN want THEN a.config.probes[k]
  ELSE IF want[k] # None /\ want[k].full THEN Rendered(want[k], a) ELSE None

\* applyProbes.
Probed(a, want) ==
  [a EXCEPT !.readiness = PathAfter(a, want, "readiness"),
            !.liveness = PathAfter(a, want, "liveness"),
            !.config.probes = [k \in Kinds |-> ProbeAfter(a, want, k)]]

CanProbe(a, want) == \A k \in DOMAIN want : NeedsOwnPort(want[k]) => OwnPorts(a) # {}

\* probesTook.
ProbesTook(a, want) ==
  /\ CanProbe(a, want)
  /\ \A k \in DOMAIN want :
       a[k] = PathAfter(a, want, k) /\ a.config.probes[k] = ProbeAfter(a, want, k)

-----------------------------------------------------------------------------
(* Services.                                                               *)

\* Mutant: the port list is replaced with what the spec says of it.
MergedNodesLost(svc, ports) == [n \in PortNames |-> None]

\* mergePorts: a port that keeps its name keeps its public port.
MergedNodes(svc, ports) == [n \in PortNames |-> IF ports[n] = None THEN None ELSE svc.nodes[n]]

\* applySvc.
Served(svc, type, ports) ==
  [type |-> Given(type, svc.type), ports |-> Given(ports, svc.ports),
   nodes |-> IF ports = None THEN svc.nodes ELSE MergedNodes(svc, ports)]

-----------------------------------------------------------------------------
(* Specs.                                                                  *)

\* Mutant: the replica count is written beside the autoscaler.
ReplicasPinned(s, a) == Given(s.replicas, a.replicas)

ReplicasAfter(s, a) == IF s.bounds = None THEN Given(s.replicas, a.replicas) ELSE a.replicas

\* applySpecTo, up to the blocks of the chart: what is left out is left alone.
PlainApplied(s, a) ==
  [a EXCEPT !.image = Given(s.image, @), !.git = Given(s.git, @),
            !.plan = Given(s.plan, @), !.size = Given(s.size, @),
            !.replicas = ReplicasAfter(s, a),
            !.command = Given(s.command, @), !.args = Given(s.args, @),
            !.svc = Served(@, s.svcType, s.ports),
            !.disk = Given(s.disk, @), !.envs = Given(s.envs, @)]

\* applySpecTo.
SpecApplied(s, a) ==
  LET plain == PlainApplied(s, a)
      scaled == IF s.bounds = None THEN plain ELSE Autoscaled(plain, s.bounds)
  IN  IF s.probes = None THEN scaled ELSE Probed(scaled, s.probes)

\* applyDiskSize: an app without a disk gets none, and no disk shrinks.
CanGrow(a, disk) == a.disk # None /\ a.disk <= disk

\* The errors of applySpecTo, which reads the app's ports after its own.
CanApplySpec(s, a) ==
  /\ s.image # None => a.git = None
  /\ s.git # None => a.git # None
  /\ s.disk # None => CanGrow(a, s.disk)
  /\ s.probes # None => CanProbe([a EXCEPT !.svc = Served(@, s.svcType, s.ports)], s.probes)

\* createMissing and updateFromSpec: a size needs a dynamic plan.
SizeAllowed(size, plan) == size = None \/ (plan # None /\ IsDynamic(plan))

\* complete.
Complete(s) == s.plan # None /\ (s.image # None \/ s.git # None)

\* hasPostCreateFields: what the POST ignores.
HasPostCreateFields(s) == s.bounds # None \/ s.probes # None \/ s.size # None

\* buildCreatePayload.  An image built from git is not there yet.
Payload(s, size) ==
  [image |-> s.image, git |-> s.git, plan |-> s.plan, size |-> size,
   replicas |-> Given(s.replicas, 1), command |-> Given(s.command, Blank), args |-> Given(s.args, Blank),
   svc |-> [type |-> Given(s.svcType, "ClusterIP"),
            ports |-> Given(s.ports, [n \in PortNames |-> None]), nodes |-> [n \in PortNames |-> None]],
   disk |-> s.disk, envs |-> Given(s.envs, Blank), hosts |-> {}, challenge |-> "dns01", ssl |-> FALSE,
   subdomain |-> None, readiness |-> None, liveness |-> None,
   config |-> [hpa |-> None, probes |-> [k \in Kinds |-> None]], scaled |-> FALSE]

\* Some probe has a shape no spec can carry; the whole block is left out then.
Inexpressible(a) == \E k \in Kinds : a.config.probes[k] = Odd

\* Mutant: the probe in custom_config does not win over the path.
ExportedPathFirst(a, k) ==
  IF a[k] # None THEN [full |-> FALSE, handler |-> a[k], port |-> None]
  ELSE IF a.config.probes[k] = None THEN None
  ELSE [full |-> TRUE, handler |-> a.config.probes[k].handler, port |-> a.config.probes[k].port]

\* probesFromApp, for one kind.
ExportedProbe(a, k) ==
  IF a.config.probes[k] # None
    THEN [full |-> TRUE, handler |-> a.config.probes[k].handler, port |-> a.config.probes[k].port]
  ELSE IF a[k] # None THEN [full |-> FALSE, handler |-> a[k], port |-> None]
  ELSE None

ExportedProbes(a) ==
  IF Inexpressible(a) \/ \A k \in Kinds : ExportedProbe(a, k) = None THEN None
  ELSE [k \in Kinds |-> ExportedProbe(a, k)]

Shown(value, nothing) == IF value = nothing THEN None ELSE value

\* specFromApp.
Export(a) ==
  [image |-> IF a.git = None THEN a.image ELSE None, git |-> a.git, plan |-> a.plan,
   size |-> IF IsDynamic(a.plan) THEN a.size ELSE None,
   replicas |-> IF HpaOn(a) THEN None ELSE a.replicas,
   command |-> Shown(a.command, Blank), args |-> Shown(a.args, Blank),
   svcType |-> Shown(a.svc.type, "ClusterIP"),
   ports |-> IF Declared(a) = {} THEN None ELSE a.svc.ports,
   disk |-> a.disk, envs |-> Shown(a.envs, Blank),
   bounds |-> IF HpaOn(a) THEN a.config.hpa.bounds ELSE None, probes |-> ExportedProbes(a)]

-----------------------------------------------------------------------------
(* Changes.  The verbs that write fields as they are given carry them in   *)
(* "fields": scale, resources, command, subdomain and patch, whose merge   *)
(* is shallow and may replace svc or custom_config as a whole.             *)

Overridden(a, fields) == [f \in Fields |-> IF f \in DOMAIN fields THEN fields[f] ELSE a[f]]

FieldVerbs == {"scale", "resources", "command", "subdomain", "patch"}
VerbFields == [scale |-> {"replicas"}, resources |-> {"plan", "size"}, command |-> {"command", "args"},
               subdomain |-> {"subdomain", "ssl"}, patch |-> Fields]

\* What may be written to each field.
FieldTypes ==
  [image |-> Maybe(Images), git |-> Maybe(Gits), plan |-> Plans, size |-> Sizes, replicas |-> Nat,
   command |-> Words \union {Blank}, args |-> Words \union {Blank}, svc |-> Svc,
   disk |-> Maybe(Nat \ {0}), envs |-> EnvLists \union {Blank}, hosts |-> SUBSET Hosts,
   challenge |-> Challenges, ssl |-> BOOLEAN, subdomain |-> Maybe(Labels),
   readiness |-> Maybe(Paths), liveness |-> Maybe(Paths), config |-> Config, scaled |-> BOOLEAN]

\* A change as a command line gives it: its verb and what the verb carries.
IsChange(k) ==
  /\ "verb" \in DOMAIN k
  /\ \/ /\ k.verb \in FieldVerbs /\ "fields" \in DOMAIN k /\ DOMAIN k.fields \subseteq VerbFields[k.verb]
        /\ \A f \in DOMAIN k.fields : k.fields[f] \in FieldTypes[f]
        /\ k.verb = "subdomain" => "subdomain" \in DOMAIN k.fields
     \/ k.verb = "svc-type" /\ k.type \in SvcTypes
     \/ k.verb = "autoscale" /\ k.bounds \in Maybe(Bounds)
     \/ k.verb = "disk" /\ k.size \in Nat \ {0}
     \/ k.verb = "probe" /\ k.probes \in UNION {[K -> Maybe(ProbeDef)] : K \in SUBSET Kinds}
     \/ /\ k.verb = "domain" /\ "challenge" \in DOMAIN k
        /\ k.add \subseteq Hosts /\ k.remove \subseteq Hosts /\ k.challenge \in Maybe(Challenges)
     \/ k.verb \in {"spec", "create"} /\ k.spec \in AppSpecs

\* The apply of each verb.
Changed(k, a) ==
  CASE k.verb \in FieldVerbs -> Overridden(a, k.fields)
    [] k.verb = "svc-type"   -> [a EXCEPT !.svc.type = k.type]
    [] k.verb = "autoscale"  -> Autoscaled(a, k.bounds)
    [] k.verb = "disk"       -> [a EXCEPT !.disk = k.size]
    [] k.verb = "probe"      -> Probed(a, k.probes)
    [] k.verb = "domain"     -> [a EXCEPT !.hosts = (@ \union k.add) \ k.remove,
                                          !.challenge = Given(k.challenge, @),
                                          !.ssl = @ \/ k.challenge # None]
    [] k.verb = "spec"       -> SpecApplied(k.spec, a)
    [] k.verb = "reconcile"  -> a

\* The errors of the apply of each verb.
CanChange(k, a) ==
  CASE k.verb = "svc-type" -> Declared(a) # {}
    [] k.verb = "disk"     -> CanGrow(a, k.size)
    [] k.verb = "probe"    -> CanProbe(a, k.probes)
    [] k.verb = "domain"   -> k.remove \subseteq a.hosts \union k.add
    [] k.verb = "spec"     -> CanApplySpec(k.spec, a)
    [] OTHER               -> TRUE

\* challengeFor: a wildcard needs dns01, any other host is given http01.
ChallengeFor(k, a) ==
  LET wanted == IF k.add \cap Wildcards # {} THEN "dns01" ELSE "http01"
  IN  IF k.challenge # None \/ k.add = {} THEN k.challenge ELSE Shown(wanted, a.challenge)

\* diffApps.
Diff(a, b) == {f \in Fields : a[f] # b[f]}

\* sameAfterWrite: public ports and addresses are not the caller's to write.
SameAfterWrite(f, a, b) ==
  IF f = "svc" THEN a.svc.type = b.svc.type /\ a.svc.ports = b.svc.ports ELSE a[f] = b[f]

\* Mutant: a spec's read-back looks at nothing.
DiffStoredNever(changed, a, prepared) == TRUE

\* diffStored.
DiffStored(changed, a, prepared) == \A f \in changed : SameAfterWrite(f, a, prepared)

\* took, or verifyDiff for the verbs that change many fields at once.
Took(k, changed, a, prepared) ==
  CASE k.verb \in {"patch", "domain", "spec"} -> DiffStored(changed, a, prepared)
    [] k.verb \in {"scale", "resources", "command"} -> \A f \in DOMAIN k.fields : a[f] = k.fields[f]
    [] k.verb = "subdomain" -> a.subdomain = k.fields.subdomain
    [] k.verb = "svc-type"  -> a.svc.type = k.type
    [] k.verb = "autoscale" -> AutoscaleTook(a, k.bounds)
    [] k.verb = "disk"      -> a.disk = k.size
    [] k.verb = "probe"     -> ProbesTook(a, k.probes)

-----------------------------------------------------------------------------
(* The platform.                                                           *)

\* The size of an app on a fixed plan is the plan's; a service that is not
\* ClusterIP has a public port allocated for every port.
Derived(b, node) ==
  [b EXCEPT !.size = Given(PlanSize[b.plan], @),
            !.svc.nodes = [n \in PortNames |->
                             IF b.svc.type # "ClusterIP" /\ b.svc.ports[n] # None THEN Given(@[n], node)
                             ELSE @[n]]]

\* An app as the platform stores one: its size is that of its plan.
SizeFits(a) == PlanSize[a.plan] \in {None, a.size}

\* What is stored of a write: the filtered fields stay as they are.
StoredApp(a, b, filtered, node) ==
  Derived([f \in Fields |-> IF f \in filtered THEN a[f] ELSE b[f]], node)
=============================================================================
