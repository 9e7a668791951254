--------------------------- MODULE AppSpecProofs ---------------------------
(* Applying the export of an app to that app changes nothing; what a write *)
(* of each kind makes of an app is an app, and what it makes of each       *)
(* setting depends on that setting of the app alone, or on its ports.      *)
EXTENDS AppSpec, TLAPS

\* A setting that is written as it is stays as it is, whether or not the
\* export shows it.
LEMMA GivenSame == ASSUME NEW v, NEW w, w \in {None, v} PROVE Given(w, v) = v
  BY DEF Given

\* What an export says of a kind is what the kind already is.
LEMMA SameProbe ==
  ASSUME NEW a \in App, NEW k \in Kinds, ~Inexpressible(a)
  PROVE  /\ ~NeedsOwnPort(ExportedProbe(a, k))
         /\ PathAfter(a, [j \in Kinds |-> ExportedProbe(a, j)], k) =
              IF a[k] # None /\ a.config.probes[k] # None THEN None ELSE a[k]
         /\ ProbeAfter(a, [j \in Kinds |-> ExportedProbe(a, j)], k) = a.config.probes[k]
<1> DEFINE d == ExportedProbe(a, k)
           want == [j \in Kinds |-> ExportedProbe(a, j)]
<1>1. a.config.probes[k] \in Probe \union {None}
  BY DEF App, Config, Inexpressible
<1>2. a[k] \in Paths \union {None}
  BY DEF App, Kinds, Maybe
<1>3. want[k] = d /\ k \in DOMAIN want
  OBVIOUS
<1>4. CASE a.config.probes[k] # None
  <2>1. a.config.probes[k] \in Probe
    BY <1>1, <1>4
  <2>2. d = [full |-> TRUE, handler |-> a.config.probes[k].handler, port |-> a.config.probes[k].port]
    BY <1>4 DEF ExportedProbe
  <2>3. d \in ProbeDef
    BY <2>1, <2>2 DEF Probe, ProbeDef, Maybe
  <2>4. d # None
    BY <2>3, StructuresAssumption
  <2>5. ~NeedsOwnPort(d)
    BY <2>1, <2>2, MarksAssumption, HandlersAssumption DEF Probe, NeedsOwnPort
  <2>6. Rendered(d, a) = a.config.probes[k]
    BY <2>1, <2>2, <2>5, HandlersAssumption DEF Probe, Rendered
  <2>7. want[k] # None /\ want[k].full
    BY <1>3, <2>2, <2>4
  <2>8. PathAfter(a, want, k) = None /\ ProbeAfter(a, want, k) = Rendered(want[k], a)
    BY ONLY <1>3, <2>7 DEF PathAfter, ProbeAfter
  <2> QED
    BY <1>3, <1>4, <2>5, <2>6, <2>8
<1>5. CASE a.config.probes[k] = None /\ a[k] # None
  <2>1. d = [full |-> FALSE, handler |-> a[k], port |-> None]
    BY <1>5 DEF ExportedProbe
  <2>2. d # None
    <3>1. a[k] \in Paths
      BY <1>2, <1>5
    <3>2. d \in ProbeDef
      BY <2>1, <3>1 DEF ProbeDef, Maybe
    <3> QED
      BY <3>2, StructuresAssumption
  <2>3. want[k] # None /\ ~want[k].full /\ want[k].handler = a[k]
    BY <1>3, <2>1, <2>2
  <2>4. PathAfter(a, want, k) = a[k] /\ ProbeAfter(a, want, k) = None
    BY ONLY <1>3, <2>3 DEF PathAfter, ProbeAfter
  <2>5. ~NeedsOwnPort(d)
    BY <2>1 DEF NeedsOwnPort
  <2> QED
    BY <1>5, <2>4, <2>5
<1>6. CASE a.config.probes[k] = None /\ a[k] = None
  <2>1. d = None
    BY <1>6 DEF ExportedProbe
  <2> QED
    BY <1>3, <1>6, <2>1 DEF PathAfter, ProbeAfter, NeedsOwnPort
<1> QED
  BY <1>4, <1>5, <1>6

\* Services written as they are stay as they are: every public port is kept.
LEMMA SameService ==
  ASSUME NEW s \in Svc, NEW type \in {None, s.type}, NEW ports \in {None, s.ports}
  PROVE  Served(s, type, ports) = s
<1>1. Given(type, s.type) = s.type /\ Given(ports, s.ports) = s.ports
  BY GivenSame
<1>2. s = [type |-> s.type, ports |-> s.ports, nodes |-> s.nodes]
  BY DEF Svc
<1>3. MergedNodes(s, s.ports) = s.nodes
  <2>1. s.nodes = [n \in PortNames |-> s.nodes[n]]
    BY DEF Svc
  <2>2. \A n \in PortNames : s.ports[n] = None => s.nodes[n] = None
    BY DEF Svc
  <2> QED
    BY <2>1, <2>2 DEF MergedNodes
<1>4. (IF ports = None THEN s.nodes ELSE MergedNodes(s, ports)) = s.nodes
  BY <1>3
<1> QED
  BY <1>1, <1>2, <1>4 DEF Served

\* Autoscaling turned on as it is stays as it is.
LEMMA SameScale ==
  ASSUME NEW a \in App, HpaOn(a), a.scaled
  PROVE  Autoscaled(a, a.config.hpa.bounds) = a
<1>1. a.config.hpa \in Hpa /\ a.config.hpa # None /\ a.config.hpa.enabled
  BY DEF App, Config, Maybe, HpaOn
<1>2. a.config.hpa = [enabled |-> TRUE, bounds |-> a.config.hpa.bounds] /\ a.config.hpa.bounds # None
  BY <1>1 DEF Hpa
<1>3. [a.config EXCEPT !.hpa = a.config.hpa] = a.config
  BY DEF App, Config
<1>4. [a EXCEPT !.config = a.config, !.scaled = TRUE] = a
  BY DEF App
<1>5. Autoscaled(a, a.config.hpa.bounds)
        = [a EXCEPT !.config.hpa = [enabled |-> TRUE, bounds |-> a.config.hpa.bounds], !.scaled = TRUE]
  BY <1>1, <1>2 DEF Autoscaled, Given
<1>6. [a EXCEPT !.config.hpa = a.config.hpa, !.scaled = TRUE] = a
  BY <1>3, <1>4 DEF App, Config
<1> QED
  BY <1>2, <1>5, <1>6

\* Probes written as they are stay as they are, but for a path beside a probe
\* of the chart's values, which goes.
LEMMA SameProbes ==
  ASSUME NEW a \in App, ~Inexpressible(a)
  PROVE  Probed(a, [k \in Kinds |-> ExportedProbe(a, k)])
           = [a EXCEPT !.readiness = IF a.readiness # None /\ a.config.probes["readiness"] # None
                                     THEN None ELSE a.readiness,
                       !.liveness = IF a.liveness # None /\ a.config.probes["liveness"] # None
                                    THEN None ELSE a.liveness]
<1> DEFINE want == [k \in Kinds |-> ExportedProbe(a, k)]
<1>1. PathAfter(a, want, "readiness")
        = IF a.readiness # None /\ a.config.probes["readiness"] # None THEN None ELSE a.readiness
  BY SameProbe DEF Kinds
<1>2. PathAfter(a, want, "liveness")
        = IF a.liveness # None /\ a.config.probes["liveness"] # None THEN None ELSE a.liveness
  BY SameProbe DEF Kinds
<1>3. [k \in Kinds |-> ProbeAfter(a, want, k)] = a.config.probes
  <2>1. \A k \in Kinds : ProbeAfter(a, want, k) = a.config.probes[k]
    BY SameProbe
  <2>2. a.config.probes = [k \in Kinds |-> a.config.probes[k]]
    BY DEF App, Config
  <2> QED
    BY <2>1, <2>2
<1>4. [a.config EXCEPT !.probes = a.config.probes] = a.config
  BY DEF App, Config
<1>5. \A r, l : [a EXCEPT !.readiness = r, !.liveness = l, !.config.probes = a.config.probes]
                = [a EXCEPT !.readiness = r, !.liveness = l]
  BY <1>4 DEF App, Config
<1> HIDE DEF want
<1> QED
  BY <1>1, <1>2, <1>3, <1>5 DEF Probed, want

\* No definition of a probe is missing: what is exported can be told from nothing.
LEMMA ExportedSomething ==
  ASSUME NEW a \in App, NEW k \in Kinds, ~Inexpressible(a), ExportedProbe(a, k) = None
  PROVE  a.config.probes[k] = None
<1> SUFFICES ASSUME a.config.probes[k] # None PROVE FALSE
  OBVIOUS
<1>1. a.config.probes[k] \in Probe
  BY DEF App, Config, Inexpressible
<1>2. ExportedProbe(a, k) = [full |-> TRUE, handler |-> a.config.probes[k].handler,
                             port |-> a.config.probes[k].port]
  BY DEF ExportedProbe
<1>3. ExportedProbe(a, k) \in ProbeDef
  BY <1>1, <1>2 DEF Probe, ProbeDef, Maybe
<1> QED
  BY <1>3, StructuresAssumption

\* The settings an export shows are those of the app, and the others are None.
LEMMA ExportShows ==
  ASSUME NEW a \in App
  PROVE  /\ Export(a).image \in {None, a.image} /\ Export(a).git = a.git
         /\ Export(a).plan = a.plan /\ Export(a).size \in {None, a.size}
         /\ ReplicasAfter(Export(a), a) = a.replicas
         /\ Export(a).command \in {None, a.command} /\ Export(a).args \in {None, a.args}
         /\ Export(a).svcType \in {None, a.svc.type} /\ Export(a).ports \in {None, a.svc.ports}
         /\ Export(a).disk = a.disk /\ Export(a).envs \in {None, a.envs}
<1>1. Export(a).replicas \in {None, a.replicas}
  BY DEF Export
<1>2. ReplicasAfter(Export(a), a) = a.replicas
  BY <1>1, GivenSame DEF ReplicasAfter
<1> QED
  BY <1>2 DEF Export, Shown

\* What an export says besides probes, written to its app, leaves it as it is.
LEMMA SamePlain ==
  ASSUME NEW a \in App, a.scaled = HpaOn(a)
  PROVE  LET e == Export(a)
             plain == PlainApplied(e, a)
         IN  /\ Served(a.svc, e.svcType, e.ports) = a.svc
             /\ (IF e.bounds = None THEN plain ELSE Autoscaled(plain, e.bounds)) = a
<1> DEFINE e == Export(a)
           plain == PlainApplied(e, a)
<1>1. Served(a.svc, e.svcType, e.ports) = a.svc
  <2>1. a.svc \in Svc
    BY DEF App
  <2> QED
    BY <2>1, ExportShows, SameService
<1>2. /\ Given(e.image, a.image) = a.image /\ Given(e.git, a.git) = a.git
      /\ Given(e.plan, a.plan) = a.plan /\ Given(e.size, a.size) = a.size
      /\ Given(e.command, a.command) = a.command /\ Given(e.args, a.args) = a.args
      /\ Given(e.disk, a.disk) = a.disk /\ Given(e.envs, a.envs) = a.envs
  BY ExportShows, GivenSame
<1>3. ReplicasAfter(e, a) = a.replicas
  BY ExportShows
<1>4. plain = a
  <2>1. a = [a EXCEPT !.image = a.image, !.git = a.git, !.plan = a.plan, !.size = a.size,
                      !.replicas = a.replicas, !.command = a.command, !.args = a.args,
                      !.svc = a.svc, !.disk = a.disk, !.envs = a.envs]
    BY DEF App
  <2> HIDE DEF e
  <2> QED
    BY <1>1, <1>2, <1>3, <2>1 DEF PlainApplied
<1>5. CASE HpaOn(a)
  <2>1. e.bounds = a.config.hpa.bounds
    BY <1>5 DEF Export
  <2>2. e.bounds # None
    BY <1>5, <2>1 DEF App, Config, Hpa, Maybe, HpaOn
  <2>3. Autoscaled(a, e.bounds) = a
    BY <1>5, <2>1, SameScale
  <2> HIDE DEF e
  <2> QED
    BY <1>1, <1>4, <2>2, <2>3 DEF e
<1>6. CASE ~HpaOn(a)
  <2>1. e.bounds = None
    BY <1>6 DEF Export
  <2> QED
    BY <1>1, <1>4, <2>1
<1> QED
  BY <1>5, <1>6

\* Applying an export finds nothing wrong: the disk is as large as it is, the
\* plan takes the size, and no probe asks for a port of the app.
LEMMA ExportApplies ==
  ASSUME NEW a \in App, a.scaled = HpaOn(a)
  PROVE  CanApplySpec(Export(a), a) /\ SizeAllowed(Export(a).size, a.plan)
<1> DEFINE e == Export(a)
<1>1. e.image # None => a.git = None
  BY DEF Export
<1>2. e.git # None => a.git # None
  BY DEF Export
<1>3. e.disk # None => CanGrow(a, e.disk)
  <2>1. e.disk = a.disk /\ (a.disk # None => a.disk \in Nat)
    BY DEF Export, App, Maybe
  <2> QED
    BY <2>1 DEF CanGrow
<1>4. ASSUME e.probes # None
      PROVE  CanProbe([a EXCEPT !.svc = Served(@, e.svcType, e.ports)], e.probes)
  <2>1. ~Inexpressible(a) /\ e.probes = [k \in Kinds |-> ExportedProbe(a, k)]
    BY <1>4 DEF Export, ExportedProbes
  <2>2. \A k \in DOMAIN e.probes : ~NeedsOwnPort(e.probes[k])
    BY <2>1, SameProbe
  <2> QED
    BY <2>2 DEF CanProbe
<1>5. SizeAllowed(e.size, a.plan)
  <2>1. a.plan # None
    BY MarksAssumption DEF App
  <2> QED
    BY <2>1 DEF SizeAllowed, Export
<1> QED
  BY <1>1, <1>2, <1>3, <1>4, <1>5 DEF CanApplySpec

\* `get apps -o spec` and `apply -f` form a loop: of any app whose flag and
\* chart agree on autoscaling, the export can be applied to it and changes
\* nothing, but for a path beside a probe of the chart's values, which goes
\* when the probes can be exported (specFromApp, applySpecTo).
THEOREM ExportFixed ==
  ASSUME NEW a \in App, a.scaled = HpaOn(a)
  PROVE  /\ CanApplySpec(Export(a), a) /\ SizeAllowed(Export(a).size, a.plan)
         /\ SpecApplied(Export(a), a)
              = [a EXCEPT !.readiness = IF /\ a.readiness # None /\ a.config.probes["readiness"] # None
                                           /\ ~Inexpressible(a) THEN None ELSE a.readiness,
                          !.liveness = IF /\ a.liveness # None /\ a.config.probes["liveness"] # None
                                          /\ ~Inexpressible(a) THEN None ELSE a.liveness]
<1> DEFINE e == Export(a)
<1>1. SpecApplied(e, a) = IF e.probes = None THEN a ELSE Probed(a, e.probes)
  BY SamePlain DEF SpecApplied
<1>2. a = [a EXCEPT !.readiness = a.readiness, !.liveness = a.liveness]
  BY DEF App
<1>3. CASE Inexpressible(a)
  <2>1. e.probes = None
    BY <1>3 DEF Export, ExportedProbes
  <2> QED
    BY <1>1, <1>2, <1>3, <2>1, ExportApplies
<1>4. CASE ~Inexpressible(a) /\ \A k \in Kinds : ExportedProbe(a, k) = None
  <2>1. e.probes = None
    BY <1>4 DEF Export, ExportedProbes
  <2>2. a.config.probes["readiness"] = None /\ a.config.probes["liveness"] = None
    BY <1>4, ExportedSomething DEF Kinds
  <2> QED
    BY <1>1, <1>2, <2>1, <2>2, ExportApplies
<1>5. CASE ~Inexpressible(a) /\ ~\A k \in Kinds : ExportedProbe(a, k) = None
  <2>1. e.probes = [k \in Kinds |-> ExportedProbe(a, k)]
    BY <1>5 DEF Export, ExportedProbes
  <2>2. e.probes # None
    <3>1. \A k \in Kinds : ExportedProbe(a, k) \in Maybe(ProbeDef)
      <4> TAKE k \in Kinds
      <4>1. a.config.probes[k] \in Probe \union {None}
        BY <1>5 DEF App, Config, Inexpressible
      <4>2. a[k] \in Paths \union {None}
        BY DEF App, Kinds, Maybe
      <4>3. CASE a.config.probes[k] # None
        BY <4>1, <4>3 DEF ExportedProbe, Probe, ProbeDef, Maybe
      <4>4. CASE a.config.probes[k] = None
        BY <4>2, <4>4 DEF ExportedProbe, ProbeDef, Maybe
      <4> QED
        BY <4>3, <4>4
    <3>2. e.probes \in [Kinds -> Maybe(ProbeDef)]
      BY <2>1, <3>1
    <3> QED
      BY <3>2, StructuresAssumption
  <2>3. SpecApplied(e, a) = Probed(a, [k \in Kinds |-> ExportedProbe(a, k)])
    BY <1>1, <2>1, <2>2
  <2> QED
    BY <1>5, <2>3, SameProbes, ExportApplies
<1> QED
  BY <1>3, <1>4, <1>5
-----------------------------------------------------------------------------
(* What is made of an app is an app.                                       *)

\* A service written by a spec is a service: a port that goes takes its public
\* port along (mergePorts).
LEMMA ServedIsService ==
  ASSUME NEW s \in Svc, NEW type \in Maybe(SvcTypes), NEW ports \in Maybe([PortNames -> Maybe(Ports)])
  PROVE  Served(s, type, ports) \in Svc
<1> DEFINE r == Served(s, type, ports)
<1>1. s.type \in SvcTypes /\ s.ports \in [PortNames -> Maybe(Ports)] /\ s.nodes \in [PortNames -> Maybe(Nodes)]
      /\ \A n \in PortNames : s.ports[n] = None => s.nodes[n] = None
  BY DEF Svc
<1>2. r.type \in SvcTypes /\ r.ports \in [PortNames -> Maybe(Ports)]
  BY <1>1 DEF Served, Given, Maybe
<1>3. r.nodes \in [PortNames -> Maybe(Nodes)] /\ \A n \in PortNames : r.ports[n] = None => r.nodes[n] = None
  <2>1. CASE ports = None
    BY <1>1, <2>1 DEF Served, Given
  <2>2. CASE ports # None
    <3>1. r.ports = ports /\ r.nodes = MergedNodes(s, ports)
      BY <2>2 DEF Served, Given
    <3>2. \A n \in PortNames : MergedNodes(s, ports)[n] = IF ports[n] = None THEN None ELSE s.nodes[n]
      BY DEF MergedNodes
    <3>3. MergedNodes(s, ports) \in [PortNames -> Maybe(Nodes)]
      BY <1>1 DEF MergedNodes, Maybe
    <3> QED
      BY <3>1, <3>2, <3>3
  <2> QED
    BY <2>1, <2>2
<1>4. r = [type |-> r.type, ports |-> r.ports, nodes |-> r.nodes]
  BY DEF Served
<1> HIDE DEF r
<1>5. r \in [type : SvcTypes, ports : [PortNames -> Maybe(Ports)], nodes : [PortNames -> Maybe(Nodes)]]
  BY <1>2, <1>3, <1>4
<1>6. r \in Svc
  BY <1>3, <1>5 DEF Svc
<1> QED
  BY <1>6 DEF r

\* Autoscaling an app leaves an app, which has bounds while it is on.
LEMMA AutoscaledIsApp ==
  ASSUME NEW a \in App, NEW bounds \in Maybe(Bounds)
  PROVE  Autoscaled(a, bounds) \in App
<1> DEFINE kept == IF a.config.hpa = None THEN None ELSE a.config.hpa.bounds
           hpa == [enabled |-> bounds # None, bounds |-> Given(bounds, kept)]
<1>1. a.config \in Config
  BY DEF App
<1>2. kept \in Maybe(Bounds)
  BY <1>1 DEF Config, Hpa, Maybe
<1>3. hpa \in Hpa
  BY <1>2 DEF Hpa, Given, Maybe
<1> HIDE DEF kept, hpa
<1>4. [a.config EXCEPT !.hpa = hpa] \in Config
  BY <1>1, <1>3 DEF Config, Maybe
<1>5. Autoscaled(a, bounds) = [a EXCEPT !.config = [a.config EXCEPT !.hpa = hpa], !.scaled = (bounds # None)]
  BY DEF Autoscaled, hpa, kept, App
<1> DEFINE config == [a.config EXCEPT !.hpa = hpa]
<1> HIDE DEF config
<1>6. config \in Config /\ (bounds # None) \in BOOLEAN
  BY <1>4 DEF config
<1>7. [a EXCEPT !.config = config, !.scaled = (bounds # None)] \in App
  BY <1>6 DEF App
<1> QED
  BY <1>5, <1>7 DEF config

\* The definitions a change gives of probes.
ProbeWants == UNION {[K -> Maybe(ProbeDef)] : K \in SUBSET Kinds}

\* A probe takes its port from the app only if the app has one.
LEMMA RenderedIsProbe ==
  ASSUME NEW a \in App, NEW p \in ProbeDef, p.full, NeedsOwnPort(p) => OwnPorts(a) # {}
  PROVE  Rendered(p, a) \in Probe
<1>1. a.svc.ports \in [PortNames -> Maybe(Ports)]
  BY DEF App, Svc
<1>2. OwnPorts(a) \subseteq Ports
  BY <1>1 DEF OwnPorts, Declared, Maybe, PortNames
<1>3. p \in [full : {TRUE}, handler : Paths \union Execs, port : Maybe(Ports)]
  BY DEF ProbeDef
<1>4. CASE p.handler \in Execs
  BY <1>4 DEF Rendered, Probe
<1>5. CASE p.handler \notin Execs /\ p.port # None
  BY <1>3, <1>5 DEF Rendered, Probe, NeedsOwnPort, Maybe
<1>6. CASE p.handler \notin Execs /\ p.port = None
  <2>1. p.handler \in Paths
    BY <1>3, <1>6
  <2>2. p # None
    BY StructuresAssumption
  <2>3. NeedsOwnPort(p)
    BY <1>3, <1>6, <2>1, <2>2 DEF NeedsOwnPort
  <2>4. (CHOOSE n \in OwnPorts(a) : TRUE) \in OwnPorts(a)
    BY <2>3
  <2>5. Rendered(p, a) = [handler |-> p.handler, port |-> CHOOSE n \in OwnPorts(a) : TRUE]
    BY <1>6, <2>3 DEF Rendered
  <2> QED
    BY <1>2, <2>1, <2>4, <2>5 DEF Probe
<1> QED
  BY <1>4, <1>5, <1>6

\* Probes written to an app that can take them leave an app.
LEMMA ProbedIsApp ==
  ASSUME NEW a \in App, NEW want \in ProbeWants, CanProbe(a, want)
  PROVE  Probed(a, want) \in App
<1>1. DOMAIN want \subseteq Kinds /\ \A k \in DOMAIN want : want[k] \in Maybe(ProbeDef)
  BY DEF ProbeWants
<1>2. \A k \in Kinds : a[k] \in Maybe(Paths) /\ a.config.probes[k] \in Probe \union {None, Odd}
  BY DEF App, Config, Kinds
<1>3. \A k \in Kinds : PathAfter(a, want, k) \in Maybe(Paths)
  <2> TAKE k \in Kinds
  <2>1. ASSUME k \in DOMAIN want, want[k] # None, ~want[k].full PROVE want[k].handler \in Paths
    BY <1>1, <2>1 DEF Maybe, ProbeDef
  <2> QED
    BY <1>2, <2>1 DEF PathAfter, Maybe
<1>4. \A k \in Kinds : ProbeAfter(a, want, k) \in Probe \union {None, Odd}
  <2> TAKE k \in Kinds
  <2>1. ASSUME k \in DOMAIN want, want[k] # None, want[k].full PROVE Rendered(want[k], a) \in Probe
    <3>1. want[k] \in ProbeDef
      BY <1>1, <2>1 DEF Maybe
    <3> QED
      BY <2>1, <3>1, RenderedIsProbe DEF CanProbe
  <2> QED
    BY <1>2, <2>1 DEF ProbeAfter
<1> DEFINE probes == [k \in Kinds |-> ProbeAfter(a, want, k)]
           config == [a.config EXCEPT !.probes = probes]
           r == PathAfter(a, want, "readiness")
           l == PathAfter(a, want, "liveness")
<1>5. probes \in [Kinds -> Probe \union {None, Odd}]
  BY <1>4
<1>6. config \in Config
  BY <1>5 DEF App, Config
<1>7. r \in Maybe(Paths) /\ l \in Maybe(Paths)
  BY <1>3 DEF Kinds
<1>8. Probed(a, want) = [a EXCEPT !.readiness = r, !.liveness = l, !.config = config]
  BY DEF Probed, App
<1> HIDE DEF probes, config, r, l
<1> QED
  BY <1>6, <1>7, <1>8 DEF App

\* The settings of a spec besides autoscaling and probes, written to an app,
\* make an app.
LEMMA PlainIsApp ==
  ASSUME NEW a \in App, NEW s \in AppSpecs
  PROVE  PlainApplied(s, a) \in App /\ PlainApplied(s, a).svc = Served(a.svc, s.svcType, s.ports)
<1> DEFINE svc == Served(a.svc, s.svcType, s.ports)
<1>1. svc \in Svc
  <2>1. a.svc \in Svc /\ s.svcType \in Maybe(SvcTypes) /\ s.ports \in Maybe([PortNames -> Maybe(Ports)])
    BY DEF App, AppSpecs
  <2> QED
    BY <2>1, ServedIsService
<1>2. /\ Given(s.image, a.image) \in Maybe(Images) /\ Given(s.git, a.git) \in Maybe(Gits)
      /\ Given(s.plan, a.plan) \in Plans /\ Given(s.size, a.size) \in Sizes
      /\ ReplicasAfter(s, a) \in Nat
      /\ Given(s.command, a.command) \in Words \union {Blank}
      /\ Given(s.args, a.args) \in Words \union {Blank}
      /\ Given(s.disk, a.disk) \in Maybe(Nat \ {0}) /\ Given(s.envs, a.envs) \in EnvLists \union {Blank}
  BY DEF App, AppSpecs, Given, ReplicasAfter, Maybe
<1>3. PlainApplied(s, a)
        = [a EXCEPT !.image = Given(s.image, a.image), !.git = Given(s.git, a.git),
                    !.plan = Given(s.plan, a.plan), !.size = Given(s.size, a.size),
                    !.replicas = ReplicasAfter(s, a),
                    !.command = Given(s.command, a.command), !.args = Given(s.args, a.args),
                    !.svc = svc, !.disk = Given(s.disk, a.disk), !.envs = Given(s.envs, a.envs)]
  BY DEF App, PlainApplied
<1> HIDE DEF svc
<1>4. PlainApplied(s, a) \in App
  BY <1>1, <1>2, <1>3, ZenonT(60) DEF App
<1>5. PlainApplied(s, a).svc = svc
  BY <1>3 DEF App
<1> QED
  BY <1>4, <1>5 DEF svc

\* The settings of a spec, written to an app, make an app.
LEMMA SpecAppliedIsApp ==
  ASSUME NEW a \in App, NEW s \in AppSpecs, CanApplySpec(s, a)
  PROVE  SpecApplied(s, a) \in App
<1> DEFINE svc == Served(a.svc, s.svcType, s.ports)
           plain == PlainApplied(s, a)
           scaled == IF s.bounds = None THEN plain ELSE Autoscaled(plain, s.bounds)
<1>4. plain \in App
  BY PlainIsApp
<1>5. plain.svc = svc
  BY PlainIsApp
<1> HIDE DEF svc, plain
<1>6. s.bounds \in Maybe(Bounds) /\ s.probes \in Maybe([Kinds -> Maybe(ProbeDef)])
  BY DEF AppSpecs
<1>7. scaled \in App
  BY <1>4, <1>6, AutoscaledIsApp
<1>8. scaled.svc = svc
  <2>1. Autoscaled(plain, s.bounds).svc = plain.svc
    BY <1>4 DEF Autoscaled, App
  <2> QED
    BY <1>5, <2>1
<1>9. SpecApplied(s, a) = IF s.probes = None THEN scaled ELSE Probed(scaled, s.probes)
  BY DEF SpecApplied, plain
<1> HIDE DEF scaled
<1>10. ASSUME s.probes # None PROVE Probed(scaled, s.probes) \in App
  <2>1. s.probes \in ProbeWants
    BY <1>6, <1>10 DEF Maybe, ProbeWants
  <2>2. CanProbe([a EXCEPT !.svc = svc], s.probes)
    BY <1>10 DEF CanApplySpec, svc, App
  <2>3. [a EXCEPT !.svc = svc].svc = svc
    BY DEF App
  <2>4. OwnPorts([a EXCEPT !.svc = svc]) = OwnPorts(scaled)
    BY <1>8, <2>3 DEF OwnPorts, Declared
  <2>5. CanProbe(scaled, s.probes)
    BY <2>2, <2>4 DEF CanProbe
  <2> QED
    BY <1>7, <2>1, <2>5, ProbedIsApp
<1> QED
  BY <1>7, <1>9, <1>10

\* Fields of the right types make an app.
LEMMA FieldsMakeApp ==
  ASSUME NEW c, c = [f \in Fields |-> c[f]], \A f \in Fields : c[f] \in FieldTypes[f]
  PROVE  c \in App
<1>1. /\ c.image \in Maybe(Images) /\ c.git \in Maybe(Gits) /\ c.plan \in Plans /\ c.size \in Sizes
      /\ c.replicas \in Nat /\ c.command \in Words \union {Blank} /\ c.args \in Words \union {Blank}
      /\ c.svc \in Svc /\ c.disk \in Maybe(Nat \ {0}) /\ c.envs \in EnvLists \union {Blank}
      /\ c.hosts \in SUBSET Hosts /\ c.challenge \in Challenges /\ c.ssl \in BOOLEAN
      /\ c.subdomain \in Maybe(Labels) /\ c.readiness \in Maybe(Paths) /\ c.liveness \in Maybe(Paths)
      /\ c.config \in Config /\ c.scaled \in BOOLEAN
  BY DEF Fields, FieldTypes
<1>2. c = [image |-> c.image, git |-> c.git, plan |-> c.plan, size |-> c.size, replicas |-> c.replicas,
           command |-> c.command, args |-> c.args, svc |-> c.svc, disk |-> c.disk, envs |-> c.envs,
           hosts |-> c.hosts, challenge |-> c.challenge, ssl |-> c.ssl, subdomain |-> c.subdomain,
           readiness |-> c.readiness, liveness |-> c.liveness, config |-> c.config, scaled |-> c.scaled]
  BY DEF Fields
<1> QED
  BY <1>1, <1>2 DEF App

\* Every verb makes an app of an app it can change.
LEMMA ChangedIsApp ==
  ASSUME NEW a \in App, NEW k, IsChange(k), k.verb # "create", CanChange(k, a)
  PROVE  Changed(k, a) \in App
<1>1. CASE k.verb \in FieldVerbs
  <2>1. DOMAIN k.fields \subseteq Fields /\ \A f \in DOMAIN k.fields : k.fields[f] \in FieldTypes[f]
    BY <1>1 DEF IsChange, FieldVerbs, VerbFields, Fields
  <2> DEFINE b == Overridden(a, k.fields)
  <2>2. \A f \in Fields : b[f] = IF f \in DOMAIN k.fields THEN k.fields[f] ELSE a[f]
    BY DEF Overridden
  <2>3. \A f \in Fields : a[f] \in FieldTypes[f]
    BY DEF App, Fields, FieldTypes
  <2>4. \A f \in Fields : b[f] \in FieldTypes[f]
    BY <2>1, <2>2, <2>3
  <2>5. b = [f \in Fields |-> b[f]]
    BY DEF Overridden
  <2> HIDE DEF b
  <2>6. b \in App
    BY <2>4, <2>5, FieldsMakeApp
  <2> QED
    BY <1>1, <2>6 DEF Changed, FieldVerbs, b
<1>2. CASE k.verb = "svc-type"
  <2>1. k.type \in SvcTypes
    BY <1>2 DEF IsChange, FieldVerbs
  <2>2. [a.svc EXCEPT !.type = k.type] \in Svc
    BY <2>1 DEF App, Svc
  <2>3. [a EXCEPT !.svc.type = k.type] = [a EXCEPT !.svc = [a.svc EXCEPT !.type = k.type]]
    BY DEF App
  <2>4. [a EXCEPT !.svc.type = k.type] \in App
    BY <2>2, <2>3 DEF App
  <2> QED
    BY <1>2, <2>4 DEF Changed, FieldVerbs
<1>3. CASE k.verb = "autoscale"
  <2>1. k.bounds \in Maybe(Bounds)
    BY <1>3 DEF IsChange, FieldVerbs
  <2> QED
    BY <1>3, <2>1, AutoscaledIsApp DEF Changed, FieldVerbs
<1>4. CASE k.verb = "disk"
  <2>1. k.size \in Nat \ {0}
    BY <1>4 DEF IsChange, FieldVerbs
  <2>2. [a EXCEPT !.disk = k.size] \in App
    BY <2>1 DEF App, Maybe
  <2> QED
    BY <1>4, <2>2 DEF Changed, FieldVerbs
<1>5. CASE k.verb = "probe"
  <2>1. k.probes \in ProbeWants /\ CanProbe(a, k.probes)
    BY <1>5 DEF IsChange, FieldVerbs, ProbeWants, CanChange
  <2> QED
    BY <1>5, <2>1, ProbedIsApp DEF Changed, FieldVerbs
<1>6. CASE k.verb = "domain"
  <2>1. k.add \subseteq Hosts /\ k.challenge \in Maybe(Challenges)
    BY <1>6 DEF IsChange, FieldVerbs
  <2> DEFINE hosts == (a.hosts \union k.add) \ k.remove
             challenge == Given(k.challenge, a.challenge)
             ssl == a.ssl \/ k.challenge # None
  <2>2. hosts \in SUBSET Hosts /\ challenge \in Challenges
    BY <2>1 DEF App, Given, Maybe
  <2>3. ssl \in BOOLEAN
    OBVIOUS
  <2>4. [a EXCEPT !.hosts = (@ \union k.add) \ k.remove, !.challenge = Given(k.challenge, @),
                  !.ssl = @ \/ k.challenge # None]
          = [a EXCEPT !.hosts = hosts, !.challenge = challenge, !.ssl = ssl]
    BY DEF App
  <2> HIDE DEF hosts, challenge, ssl
  <2>5. [a EXCEPT !.hosts = hosts, !.challenge = challenge, !.ssl = ssl] \in App
    BY <2>2, <2>3 DEF App
  <2> QED
    BY <1>6, <2>4, <2>5 DEF Changed, FieldVerbs
<1>7. CASE k.verb = "spec"
  <2>1. k.spec \in AppSpecs /\ CanApplySpec(k.spec, a)
    BY <1>7 DEF IsChange, FieldVerbs, CanChange
  <2> QED
    BY <1>7, <2>1, SpecAppliedIsApp DEF Changed, FieldVerbs
<1> QED
  BY <1>1, <1>2, <1>3, <1>4, <1>5, <1>6, <1>7 DEF IsChange

\* What the platform makes of an app is an app: it takes the size of its plan
\* and a port that is not declared has no public one.
LEMMA DerivedIsApp ==
  ASSUME NEW b \in App, NEW node \in Nodes
  PROVE  Derived(b, node) \in App
<1> DEFINE size == Given(PlanSize[b.plan], b.size)
           nodes == [n \in PortNames |->
                       IF b.svc.type # "ClusterIP" /\ b.svc.ports[n] # None THEN Given(b.svc.nodes[n], node)
                       ELSE b.svc.nodes[n]]
           svc == [b.svc EXCEPT !.nodes = nodes]
<1>1. size \in Sizes
  <2>1. PlanSize[b.plan] \in Sizes \union {None} /\ b.size \in Sizes
    BY PlansAssumption DEF App
  <2> QED
    BY <2>1 DEF Given
<1>2. b.svc \in Svc
  BY DEF App
<1>3. /\ b.svc = [type |-> b.svc.type, ports |-> b.svc.ports, nodes |-> b.svc.nodes]
      /\ b.svc.type \in SvcTypes /\ b.svc.ports \in [PortNames -> Maybe(Ports)]
      /\ b.svc.nodes \in [PortNames -> Maybe(Nodes)]
      /\ \A n \in PortNames : b.svc.ports[n] = None => b.svc.nodes[n] = None
  BY <1>2 DEF Svc
<1>4. nodes \in [PortNames -> Maybe(Nodes)]
  BY <1>3 DEF Given, Maybe
<1>5. \A n \in PortNames : b.svc.ports[n] = None => nodes[n] = None
  BY <1>3
<1> HIDE DEF size, nodes
<1>6. svc = [type |-> b.svc.type, ports |-> b.svc.ports, nodes |-> nodes]
  BY <1>3
<1> HIDE DEF svc
<1>7. svc \in [type : SvcTypes, ports : [PortNames -> Maybe(Ports)], nodes : [PortNames -> Maybe(Nodes)]]
  BY <1>3, <1>4, <1>6
<1>8. \A n \in PortNames : svc.ports[n] = None => svc.nodes[n] = None
  BY <1>5, <1>6
<1>9. svc \in Svc
  BY <1>7, <1>8 DEF Svc
<1>10. Derived(b, node) = [b EXCEPT !.size = size, !.svc = svc]
  BY DEF Derived, size, svc, nodes, App
<1> QED
  BY <1>1, <1>9, <1>10 DEF App

\* What some fields were filtered from.
LEMMA MixedIsApp ==
  ASSUME NEW a \in App, NEW b \in App, NEW drops, NEW m, m = [f \in Fields |-> IF f \in drops THEN a[f] ELSE b[f]]
  PROVE  m \in App /\ DOMAIN m = Fields /\ DOMAIN m.svc = {"type", "ports", "nodes"}
<1>1. \A f \in Fields : a[f] \in FieldTypes[f] /\ b[f] \in FieldTypes[f]
  BY DEF App, Fields, FieldTypes
<1>2. \A f \in Fields : m[f] \in FieldTypes[f]
  BY <1>1
<1>3. m = [f \in Fields |-> m[f]]
  OBVIOUS
<1>4. m \in App
  BY <1>2, <1>3, FieldsMakeApp
<1>5. m.svc \in Svc
  BY <1>4 DEF App
<1> QED
  BY <1>4, <1>5 DEF Svc

\* A write that some fields are filtered from leaves an app.
LEMMA StoredIsApp ==
  ASSUME NEW a \in App, NEW b \in App, NEW filtered \in SUBSET Fields, NEW node \in Nodes
  PROVE  StoredApp(a, b, filtered, node) \in App
<1> PICK m : m = [f \in Fields |-> IF f \in filtered THEN a[f] ELSE b[f]]
  OBVIOUS
<1>1. m \in App
  BY MixedIsApp
<1>2. StoredApp(a, b, filtered, node) = Derived(m, node)
  BY DEF StoredApp
<1> QED
  BY <1>1, <1>2, DerivedIsApp

\* What a complete spec is created as.
LEMMA PayloadIsApp ==
  ASSUME NEW s \in AppSpecs, Complete(s), NEW size \in Sizes
  PROVE  Payload(s, size) \in App
<1> DEFINE ports == Given(s.ports, [n \in PortNames |-> None])
           nodes == [n \in PortNames |-> None]
           svc == [type |-> Given(s.svcType, "ClusterIP"), ports |-> ports, nodes |-> nodes]
           probes == [k \in Kinds |-> None]
           config == [hpa |-> None, probes |-> probes]
<1>1. ports \in [PortNames -> Maybe(Ports)] /\ nodes \in [PortNames -> Maybe(Nodes)]
      /\ Given(s.svcType, "ClusterIP") \in SvcTypes /\ \A n \in PortNames : nodes[n] = None
  BY DEF AppSpecs, Given, Maybe, SvcTypes
<1>2. probes \in [Kinds -> Probe \union {None, Odd}]
  OBVIOUS
<1> HIDE DEF ports, nodes, probes
<1>3. svc \in Svc
  BY <1>1 DEF Svc
<1>4. config \in Config
  BY <1>2 DEF Config, Maybe
<1>5. /\ s.image \in Maybe(Images) /\ s.git \in Maybe(Gits) /\ s.plan \in Plans
      /\ Given(s.replicas, 1) \in Nat /\ Given(s.command, Blank) \in Words \union {Blank}
      /\ Given(s.args, Blank) \in Words \union {Blank} /\ s.disk \in Maybe(Nat \ {0})
      /\ Given(s.envs, Blank) \in EnvLists \union {Blank}
  BY DEF AppSpecs, Given, Maybe, Complete
<1>6. Payload(s, size) =
        [image |-> s.image, git |-> s.git, plan |-> s.plan, size |-> size,
         replicas |-> Given(s.replicas, 1), command |-> Given(s.command, Blank), args |-> Given(s.args, Blank),
         svc |-> svc, disk |-> s.disk, envs |-> Given(s.envs, Blank), hosts |-> {},
         challenge |-> "dns01", ssl |-> FALSE, subdomain |-> None, readiness |-> None,
         liveness |-> None, config |-> config, scaled |-> FALSE]
  BY DEF Payload, svc, ports, nodes, config, probes
<1> HIDE DEF svc, config
<1>7. None \in Maybe(Labels) /\ None \in Maybe(Paths) /\ "dns01" \in Challenges
  BY DEF Maybe, Challenges
<1> QED
  BY <1>3, <1>4, <1>5, <1>6, <1>7 DEF App

-----------------------------------------------------------------------------
(* What a write makes of each setting.                                     *)

\* What a spec makes of one probe, on an app with the ports of a.
ProbeOf(d, a) == IF d # None /\ d.full THEN Rendered(d, a) ELSE None
PathOf(d) == IF d # None /\ ~d.full THEN d.handler ELSE None

\* The block of autoscaling that is on, and the chart's values.
OnHpa(bounds) == [enabled |-> TRUE, bounds |-> bounds]
ConfigOf(hpa, probes) == [hpa |-> hpa, probes |-> probes]

\* A port read off an app depends on its ports alone.
LEMMA SamePorts ==
  ASSUME NEW a, NEW b, a.svc.ports = b.svc.ports, NEW d
  PROVE  ProbeOf(d, a) = ProbeOf(d, b)
<1>1. OwnPorts(a) = OwnPorts(b)
  BY DEF OwnPorts, Declared
<1>2. Rendered(d, a) = Rendered(d, b)
  BY <1>1 DEF Rendered
<1> QED
  BY <1>2 DEF ProbeOf

\* Autoscaling turned on writes its block and the flag, and nothing else.
LEMMA AutoscaledFields ==
  ASSUME NEW a \in App, NEW bounds, bounds # None, NEW b, b = Autoscaled(a, bounds)
  PROVE  /\ DOMAIN b = Fields /\ \A f \in Fields \ {"config", "scaled"} : b[f] = a[f]
         /\ b.scaled = TRUE
         /\ b.config = ConfigOf(OnHpa(bounds), a.config.probes)
<1> DEFINE hpa == OnHpa(bounds)
<1>1. b = [a EXCEPT !.config.hpa = hpa, !.scaled = TRUE]
  BY DEF Autoscaled, Given, OnHpa
<1> HIDE DEF hpa
<1>2. b.config = [a.config EXCEPT !.hpa = hpa]
  BY <1>1 DEF App
<1>3. b.config = ConfigOf(hpa, a.config.probes)
  BY <1>2 DEF App, Config, ConfigOf
<1>4. b.scaled = TRUE /\ DOMAIN b = Fields /\ \A f \in Fields \ {"config", "scaled"} : b[f] = a[f]
  BY <1>1 DEF App, Fields
<1> QED
  BY <1>3, <1>4 DEF hpa

\* The probes after a change of all kinds, and nothing else.
LEMMA ProbedFields ==
  ASSUME NEW a, DOMAIN a = Fields, NEW h, NEW p, a.config = ConfigOf(h, p),
         NEW want, DOMAIN want = Kinds, NEW b, b = Probed(a, want)
  PROVE  /\ DOMAIN b = Fields /\ \A f \in Fields \ {"config", "readiness", "liveness"} : b[f] = a[f]
         /\ b.readiness = PathOf(want["readiness"]) /\ b.liveness = PathOf(want["liveness"])
         /\ b.config = ConfigOf(h, [k \in Kinds |-> ProbeOf(want[k], a)])
<1> DEFINE probes == [k \in Kinds |-> ProbeAfter(a, want, k)]
           r == PathAfter(a, want, "readiness")
           l == PathAfter(a, want, "liveness")
<1>1. b = [a EXCEPT !.readiness = r, !.liveness = l, !.config.probes = probes]
  BY DEF Probed
<1>2. r = PathOf(want["readiness"]) /\ l = PathOf(want["liveness"])
  BY DEF PathAfter, PathOf, Kinds
<1>3. probes = [k \in Kinds |-> ProbeOf(want[k], a)]
  BY DEF ProbeAfter, ProbeOf
<1> HIDE DEF probes, r, l
<1>4. [a.config EXCEPT !.probes = probes] = ConfigOf(h, probes)
  BY DEF ConfigOf
<1>5. b.config = ConfigOf(h, probes)
  BY <1>1, <1>4 DEF Fields
<1>6. b.readiness = r /\ b.liveness = l
  BY <1>1 DEF Fields
<1>7. DOMAIN b = Fields /\ \A f \in Fields \ {"config", "readiness", "liveness"} : b[f] = a[f]
  BY <1>1 DEF Fields
<1> QED
  BY <1>2, <1>3, <1>5, <1>6, <1>7

\* b is a with every setting of s written to it.
Settled(s, a, b) ==
  /\ b.image = Given(s.image, a.image) /\ b.git = Given(s.git, a.git)
  /\ b.plan = Given(s.plan, a.plan) /\ b.size = Given(s.size, a.size)
  /\ b.replicas = ReplicasAfter(s, a) /\ b.command = Given(s.command, a.command)
  /\ b.args = Given(s.args, a.args) /\ b.svc = Served(a.svc, s.svcType, s.ports)
  /\ b.disk = Given(s.disk, a.disk) /\ b.envs = Given(s.envs, a.envs)
  /\ b.hosts = a.hosts /\ b.challenge = a.challenge /\ b.ssl = a.ssl /\ b.subdomain = a.subdomain
  /\ b.scaled = IF s.bounds = None THEN a.scaled ELSE TRUE
  /\ b.readiness = IF s.probes = None THEN a.readiness ELSE PathOf(s.probes["readiness"])
  /\ b.liveness = IF s.probes = None THEN a.liveness ELSE PathOf(s.probes["liveness"])
  /\ b.config = ConfigOf(IF s.bounds = None THEN a.config.hpa ELSE OnHpa(s.bounds),
                         IF s.probes = None THEN a.config.probes
                         ELSE [k \in Kinds |-> ProbeOf(s.probes[k], b)])

LEMMA SpecFields ==
  ASSUME NEW a \in App, NEW s \in AppSpecs, NEW b, b = SpecApplied(s, a)
  PROVE  DOMAIN b = Fields /\ Settled(s, a, b)
<1> DEFINE plain == PlainApplied(s, a)
           scaled == IF s.bounds = None THEN plain ELSE Autoscaled(plain, s.bounds)
           h == IF s.bounds = None THEN a.config.hpa ELSE OnHpa(s.bounds)
<1>1. plain \in App
  BY PlainIsApp
<1>2. /\ plain.image = Given(s.image, a.image) /\ plain.git = Given(s.git, a.git)
      /\ plain.plan = Given(s.plan, a.plan) /\ plain.size = Given(s.size, a.size)
      /\ plain.replicas = ReplicasAfter(s, a) /\ plain.command = Given(s.command, a.command)
      /\ plain.args = Given(s.args, a.args) /\ plain.svc = Served(a.svc, s.svcType, s.ports)
      /\ plain.disk = Given(s.disk, a.disk) /\ plain.envs = Given(s.envs, a.envs)
      /\ plain.config = a.config /\ plain.scaled = a.scaled /\ plain.readiness = a.readiness
      /\ plain.liveness = a.liveness /\ plain.hosts = a.hosts /\ plain.challenge = a.challenge
      /\ plain.ssl = a.ssl /\ plain.subdomain = a.subdomain /\ DOMAIN plain = Fields
  BY DEF App, Fields, PlainApplied
<1>3. b = IF s.probes = None THEN scaled ELSE Probed(scaled, s.probes)
  BY DEF SpecApplied
<1> HIDE DEF plain
<1>4. /\ DOMAIN scaled = Fields /\ \A f \in Fields \ {"config", "scaled"} : scaled[f] = plain[f]
      /\ scaled.scaled = IF s.bounds = None THEN a.scaled ELSE TRUE
      /\ scaled.config = ConfigOf(h, a.config.probes)
  <2>1. CASE s.bounds = None
    <3>1. a.config = ConfigOf(a.config.hpa, a.config.probes)
      BY DEF App, Config, ConfigOf
    <3>2. plain.config = ConfigOf(a.config.hpa, a.config.probes)
      BY <1>2, <3>1
    <3> QED
      BY <1>2, <2>1, <3>2
  <2>2. CASE s.bounds # None
    <3>1. scaled = Autoscaled(plain, s.bounds)
      BY <2>2
    <3> HIDE DEF scaled
    <3>2. /\ DOMAIN scaled = Fields /\ \A f \in Fields \ {"config", "scaled"} : scaled[f] = plain[f]
          /\ scaled.scaled = TRUE
          /\ scaled.config = ConfigOf(OnHpa(s.bounds), plain.config.probes)
      BY <1>1, <2>2, <3>1, AutoscaledFields
    <3>3. h = OnHpa(s.bounds) /\ plain.config.probes = a.config.probes
      BY <1>2, <2>2
    <3> HIDE DEF h
    <3>4. scaled.scaled = IF s.bounds = None THEN a.scaled ELSE TRUE
      BY <2>2, <3>2
    <3> QED
      BY <3>2, <3>3, <3>4
  <2> QED
    BY <2>1, <2>2
<1> HIDE DEF scaled, h
<1>5. /\ DOMAIN b = Fields /\ \A f \in Fields \ {"config", "readiness", "liveness", "scaled"} : b[f] = plain[f]
      /\ b.scaled = scaled.scaled
      /\ b.readiness = IF s.probes = None THEN a.readiness ELSE PathOf(s.probes["readiness"])
      /\ b.liveness = IF s.probes = None THEN a.liveness ELSE PathOf(s.probes["liveness"])
      /\ b.config = ConfigOf(h, IF s.probes = None THEN a.config.probes
                                ELSE [k \in Kinds |-> ProbeOf(s.probes[k], b)])
  <2>1. CASE s.probes = None
    <3>1. b = scaled
      BY <1>3, <2>1
    <3>2. b.readiness = a.readiness /\ b.liveness = a.liveness
      BY <1>2, <1>4, <3>1 DEF Fields
    <3> QED
      BY <1>4, <2>1, <3>1, <3>2
  <2>2. CASE s.probes # None
    <3> DEFINE probes == [k \in Kinds |-> ProbeOf(s.probes[k], scaled)]
               mine == [k \in Kinds |-> ProbeOf(s.probes[k], b)]
    <3>1. DOMAIN s.probes = Kinds /\ b = Probed(scaled, s.probes)
      BY <1>3, <2>2 DEF AppSpecs, Maybe
    <3>2. /\ DOMAIN b = Fields /\ \A f \in Fields \ {"config", "readiness", "liveness"} : b[f] = scaled[f]
          /\ b.readiness = PathOf(s.probes["readiness"]) /\ b.liveness = PathOf(s.probes["liveness"])
          /\ b.config = ConfigOf(h, probes)
      BY <1>4, <3>1, ProbedFields
    <3>3. b.svc = scaled.svc /\ b.scaled = scaled.scaled
      BY <3>2 DEF Fields
    <3>4. probes = mine
      <4>1. \A k \in Kinds : ProbeOf(s.probes[k], scaled) = ProbeOf(s.probes[k], b)
        BY <3>3, SamePorts
      <4> QED
        BY <4>1
    <3> HIDE DEF probes, mine
    <3>5. b.config = ConfigOf(h, IF s.probes = None THEN a.config.probes ELSE mine)
      BY <2>2, <3>2, <3>4
    <3>6. \A f \in Fields \ {"config", "readiness", "liveness", "scaled"} : b[f] = plain[f]
      BY <1>4, <3>2
    <3> QED
      BY <2>2, <3>2, <3>3, <3>5, <3>6 DEF mine
  <2> QED
    BY <2>1, <2>2
<1>6. \A f \in {"image", "git", "plan", "size", "replicas", "command", "args", "svc", "disk", "envs", "hosts",
                "challenge", "ssl", "subdomain"} : b[f] = plain[f]
  BY <1>5 DEF Fields
<1>7. /\ b.image = plain.image /\ b.git = plain.git /\ b.plan = plain.plan /\ b.size = plain.size
      /\ b.replicas = plain.replicas /\ b.command = plain.command /\ b.args = plain.args /\ b.svc = plain.svc
      /\ b.disk = plain.disk /\ b.envs = plain.envs /\ b.hosts = plain.hosts
      /\ b.challenge = plain.challenge /\ b.ssl = plain.ssl /\ b.subdomain = plain.subdomain
  BY <1>6
<1>8. b.scaled = IF s.bounds = None THEN a.scaled ELSE TRUE
  BY <1>4, <1>5
<1>9. h = IF s.bounds = None THEN a.config.hpa ELSE OnHpa(s.bounds)
  BY DEF h
<1> QED
  BY <1>2, <1>5, <1>7, <1>8, <1>9 DEF Settled

\* What the platform makes of a write.
LEMMA DerivedFields ==
  ASSUME NEW m, DOMAIN m = Fields, DOMAIN m.svc = {"type", "ports", "nodes"}, NEW node, NEW c, c = Derived(m, node)
  PROVE  /\ \A f \in Fields \ {"size", "svc"} : c[f] = m[f]
         /\ c.size = Given(PlanSize[m.plan], m.size)
         /\ c.svc.type = m.svc.type /\ c.svc.ports = m.svc.ports
         /\ \A n \in PortNames : m.svc.nodes[n] # None => c.svc.nodes[n] = m.svc.nodes[n]
<1> DEFINE nodes == [n \in PortNames |->
                       IF m.svc.type # "ClusterIP" /\ m.svc.ports[n] # None THEN Given(m.svc.nodes[n], node)
                       ELSE m.svc.nodes[n]]
<1>1. c = [m EXCEPT !.size = Given(PlanSize[m.plan], @), !.svc.nodes = nodes]
  BY DEF Derived
<1>2. \A n \in PortNames : m.svc.nodes[n] # None => nodes[n] = m.svc.nodes[n]
  BY DEF Given
<1> HIDE DEF nodes
<1>3. \A f \in Fields \ {"size", "svc"} : c[f] = m[f]
  BY <1>1
<1>4. c.size = Given(PlanSize[m.plan], m.size)
  BY <1>1 DEF Fields
<1>5. c.svc.type = m.svc.type /\ c.svc.ports = m.svc.ports /\ c.svc.nodes = nodes
  BY <1>1 DEF Fields
<1> QED
  BY <1>2, <1>3, <1>4, <1>5

\* What is stored of a write, field by field.
LEMMA StoredFields ==
  ASSUME NEW a \in App, NEW b \in App, NEW drops, NEW node, NEW c, c = StoredApp(a, b, drops, node)
  PROVE  /\ \A f \in Fields \ {"size", "svc"} : c[f] = IF f \in drops THEN a[f] ELSE b[f]
         /\ b.size = a.size => c.size = Given(PlanSize[c.plan], a.size)
         /\ b.svc.type = a.svc.type /\ b.svc.ports = a.svc.ports
              => c.svc.type = a.svc.type /\ c.svc.ports = a.svc.ports
<1> PICK m : m = [f \in Fields |-> IF f \in drops THEN a[f] ELSE b[f]]
  OBVIOUS
<1>1. m \in App /\ DOMAIN m = Fields /\ DOMAIN m.svc = {"type", "ports", "nodes"}
  BY MixedIsApp
<1>2. c = Derived(m, node)
  BY DEF StoredApp
<1>3. /\ \A f \in Fields \ {"size", "svc"} : c[f] = m[f]
      /\ c.size = Given(PlanSize[m.plan], m.size)
      /\ c.svc.type = m.svc.type /\ c.svc.ports = m.svc.ports
  BY <1>1, <1>2, DerivedFields
<1>4. m.size \in {a.size, b.size} /\ m.svc \in {a.svc, b.svc} /\ c.plan = m.plan
  BY <1>3 DEF Fields
<1> QED
  BY <1>3, <1>4

\* The verbs whose read-back looks for what they wrote: it is there if and only
\* if writing it again would change nothing.
PlainTook(k) ==
  \/ k.verb \in {"scale", "resources", "command", "svc-type", "disk", "probe"}
  \/ k.verb = "autoscale" /\ k.bounds # None

LEMMA TookIsSame ==
  ASSUME NEW x \in App, NEW k, IsChange(k), PlainTook(k), NEW changed, NEW prepared, Took(k, changed, x, prepared)
  PROVE  Changed(k, x) = x
<1>0. x = [f \in Fields |-> x[f]]
  BY DEF App, Fields
<1>1. CASE k.verb \in {"scale", "resources", "command"}
  <2>1. \A f \in DOMAIN k.fields : x[f] = k.fields[f]
    BY <1>1 DEF Took
  <2>2. Changed(k, x) = [f \in Fields |-> IF f \in DOMAIN k.fields THEN k.fields[f] ELSE x[f]]
    BY <1>1 DEF Changed, FieldVerbs, Overridden
  <2> QED
    BY <1>0, <2>1, <2>2
<1>2. CASE k.verb = "svc-type"
  <2>1. x.svc.type = k.type /\ Changed(k, x) = [x EXCEPT !.svc.type = k.type]
    BY <1>2 DEF Took, Changed, FieldVerbs
  <2>2. [x.svc EXCEPT !.type = x.svc.type] = x.svc
    BY DEF App, Svc
  <2> QED
    BY <2>1, <2>2 DEF App
<1>3. CASE k.verb = "disk"
  <2>1. x.disk = k.size /\ Changed(k, x) = [x EXCEPT !.disk = k.size]
    BY <1>3 DEF Took, Changed, FieldVerbs
  <2> QED
    BY <2>1 DEF App
<1>4. CASE k.verb = "probe"
  <2>1. ProbesTook(x, k.probes) /\ Changed(k, x) = Probed(x, k.probes)
    BY <1>4 DEF Took, Changed, FieldVerbs
  <2>2. \A p \in Kinds : x[p] = PathAfter(x, k.probes, p) /\ x.config.probes[p] = ProbeAfter(x, k.probes, p)
    BY <2>1 DEF ProbesTook, PathAfter, ProbeAfter
  <2> DEFINE probes == [p \in Kinds |-> ProbeAfter(x, k.probes, p)]
  <2>3. probes = x.config.probes
    <3>1. x.config.probes = [p \in Kinds |-> x.config.probes[p]]
      BY DEF App, Config
    <3> QED
      BY <2>2, <3>1
  <2>4. PathAfter(x, k.probes, "readiness") = x.readiness /\ PathAfter(x, k.probes, "liveness") = x.liveness
    BY <2>2 DEF Kinds
  <2>5. Probed(x, k.probes) = [x EXCEPT !.readiness = PathAfter(x, k.probes, "readiness"),
                                        !.liveness = PathAfter(x, k.probes, "liveness"),
                                        !.config.probes = probes]
    BY DEF Probed
  <2> HIDE DEF probes
  <2>6. [x.config EXCEPT !.probes = x.config.probes] = x.config
    BY DEF App, Config
  <2>7. \A r, l : [x EXCEPT !.readiness = r, !.liveness = l, !.config.probes = x.config.probes]
               = [x EXCEPT !.readiness = r, !.liveness = l]
    BY <2>6 DEF App
  <2>8. [x EXCEPT !.readiness = x.readiness, !.liveness = x.liveness] = x
    BY DEF App
  <2>9. Probed(x, k.probes) = [x EXCEPT !.readiness = x.readiness, !.liveness = x.liveness,
                                        !.config.probes = x.config.probes]
    BY <2>3, <2>4, <2>5
  <2>10. Probed(x, k.probes) = x
    BY <2>7, <2>8, <2>9
  <2> QED
    BY <2>1, <2>10
<1>5. CASE k.verb = "autoscale" /\ k.bounds # None
  <2>1. AutoscaleTook(x, k.bounds) /\ Changed(k, x) = Autoscaled(x, k.bounds)
    BY <1>5 DEF Took, Changed, FieldVerbs
  <2>2. HpaOn(x) /\ x.scaled /\ x.config.hpa.bounds = k.bounds
    BY <1>5, <2>1 DEF AutoscaleTook
  <2>3. Autoscaled(x, x.config.hpa.bounds) = x
    BY <2>2, SameScale
  <2> QED
    BY <2>1, <2>2, <2>3
<1> QED
  BY <1>1, <1>2, <1>3, <1>4, <1>5 DEF PlainTook
=============================================================================
