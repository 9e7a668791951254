------------------------------ MODULE MCApply ------------------------------
(* Apply for TLC.  One process runs every change on every base app, with   *)
(* nothing, the chart values or the disk filtered, and makes a copy of     *)
(* every base app from its export; then pairs of commands race over one    *)
(* name.                                                                   *)
EXTENDS Apply, TLC

CONSTANTS c1, c2, x, y, i1, i2, g1, w1, w2, e1, e2, h1, star, l1, b1, b2, p1, p2, x1,
          t80, t90, n1, n2, s1, s2, fix, dyn

MCPlanSize == (fix :> s1) @@ (dyn :> None)

NoKinds == [k \in Kinds |-> None]
OnePort == [main |-> t80, http |-> None]
NoPorts == [main |-> None, http |-> None]
Plain ==
  [image |-> i1, git |-> None, plan |-> dyn, size |-> s1, replicas |-> 1, command |-> Blank,
   args |-> w1, svc |-> [type |-> "ClusterIP", ports |-> OnePort, nodes |-> NoPorts], disk |-> 1,
   envs |-> e1, hosts |-> {}, challenge |-> "dns01", ssl |-> FALSE, subdomain |-> None,
   readiness |-> None, liveness |-> None, config |-> [hpa |-> None, probes |-> NoKinds],
   scaled |-> FALSE]
Full(handler, port) == [handler |-> handler, port |-> port]

Bases ==
  { Plain,
    [Plain EXCEPT !.git = g1, !.image = None, !.disk = None, !.envs = Blank, !.size = s2],
    [Plain EXCEPT !.plan = fix, !.replicas = 2],
    [Plain EXCEPT !.config.hpa = [enabled |-> TRUE, bounds |-> b1], !.scaled = TRUE,
                  !.config.probes = [readiness |-> Full(p1, t80), liveness |-> Full(x1, None)]],
    [Plain EXCEPT !.config.hpa = [enabled |-> FALSE, bounds |-> b1], !.readiness = p1],
    [Plain EXCEPT !.readiness = p1, !.config.probes = [readiness |-> Full(p2, t90), liveness |-> None]],
    [Plain EXCEPT !.liveness = p2, !.config.probes = [readiness |-> Odd, liveness |-> None]],
    [Plain EXCEPT !.svc = [type |-> "LoadBalancer", ports |-> [main |-> t80, http |-> t90],
                           nodes |-> [main |-> n1, http |-> n2]],
                  !.subdomain = l1, !.hosts = {h1}, !.scaled = TRUE,
                  !.config.hpa = [enabled |-> TRUE, bounds |-> b2]],
    [Plain EXCEPT !.svc.ports = NoPorts, !.command = w2] }

Def(full, handler, port) == [full |-> full, handler |-> handler, port |-> port]
NoSpec ==
  [image |-> None, git |-> None, plan |-> None, size |-> None, replicas |-> None, command |-> None,
   args |-> None, svcType |-> None, ports |-> None, disk |-> None, envs |-> None, bounds |-> None,
   probes |-> None]
SpecOf(s) == [verb |-> "spec", spec |-> s]
Minimal == [NoSpec EXCEPT !.image = i2, !.plan = dyn]
Whole == [Minimal EXCEPT !.size = s2, !.replicas = 3, !.command = w2, !.svcType = "LoadBalancer",
                         !.ports = [main |-> t90, http |-> t80], !.disk = 2, !.envs = e2, !.bounds = b2,
                         !.probes = [readiness |-> Def(TRUE, p1, None), liveness |-> Def(FALSE, p2, None)]]
SpecChanges ==
  { SpecOf(Minimal), SpecOf(Whole),
    SpecOf([NoSpec EXCEPT !.plan = fix, !.replicas = 3]),
    SpecOf([NoSpec EXCEPT !.size = s2, !.args = Blank]),
    SpecOf([NoSpec EXCEPT !.git = g1]),
    SpecOf([NoSpec EXCEPT !.ports = [main |-> t80, http |-> None], !.svcType = "LoadBalancer"]),
    SpecOf([NoSpec EXCEPT !.probes = [readiness |-> None, liveness |-> Def(TRUE, x1, None)]]) }

Fields1(verb, fields) == [verb |-> verb, fields |-> fields]
DomainChange(add, remove, challenge, reconcile) ==
  [verb |-> "domain", add |-> add, remove |-> remove, challenge |-> challenge, reconcile |-> reconcile]
Scale2 == Fields1("scale", [replicas |-> 2])
SetCommand == Fields1("command", [command |-> w2])
AutoscaleOn == [verb |-> "autoscale", bounds |-> b1]
AutoscaleOff == [verb |-> "autoscale", bounds |-> None]
ProbeOwnPort == [verb |-> "probe", probes |-> [readiness |-> Def(TRUE, p1, None)]]
GrowDisk == [verb |-> "disk", size |-> 2]
AddHost == DomainChange({h1}, {}, None, TRUE)
Expose == [verb |-> "svc-type", type |-> "LoadBalancer"]
VerbChanges ==
  { Scale2, SetCommand, AutoscaleOn, AutoscaleOff, ProbeOwnPort, GrowDisk, AddHost, Expose,
    Fields1("command", [command |-> Blank, args |-> Blank]),
    Fields1("resources", [plan |-> fix]), Fields1("resources", [size |-> s2]),
    Fields1("resources", [plan |-> dyn, size |-> s2]),
    Fields1("subdomain", [subdomain |-> l1, ssl |-> TRUE]), Fields1("subdomain", [subdomain |-> None]),
    Fields1("patch", [svc |-> [type |-> "LoadBalancer", ports |-> OnePort, nodes |-> NoPorts], disk |-> 2]),
    Fields1("patch", [config |-> [hpa |-> None, probes |-> NoKinds], size |-> s2]),
    Fields1("patch", [plan |-> fix, size |-> s2]),
    [verb |-> "probe", probes |-> [readiness |-> Def(FALSE, p2, None), liveness |-> None]],
    [verb |-> "probe", probes |-> [liveness |-> Def(TRUE, x1, None)]],
    DomainChange({star}, {}, None, TRUE), DomainChange({}, {h1}, "http01", FALSE) }

Run(name, change) == [docs |-> <<[name |-> name, change |-> change]>>, dryRun |-> FALSE]
Dry(l) == [l EXCEPT !.dryRun = TRUE]
OnX(a) == (x :> a) @@ (y :> None)
Scenario(apps, lines, drops) == [tenant |-> apps, line |-> lines, filtered |-> drops]

Alone ==
  {Scenario(OnX(a), c1 :> Run(x, k), drops) :
     a \in Bases, k \in VerbChanges \union SpecChanges, drops \in {{}, {"config"}, {"disk"}}}
Copies == {Scenario(OnX(a), c1 :> Run(y, SpecOf([Export(a) EXCEPT !.image = IF a.git = None THEN i1 ELSE None])), {}) :
             a \in Bases}
Creates ==
  {Scenario(OnX(None), c1 :> l, {}) :
     l \in {Run(y, k) : k \in SpecChanges} \union {Dry(Run(y, SpecOf(Whole)))}
           \union {Run(y, [verb |-> "create", spec |-> s]) : s \in {Whole, NoSpec}}
           \union {[docs |-> <<[name |-> y, change |-> SpecOf(Whole)], [name |-> x, change |-> SpecOf(Minimal)],
                               [name |-> x, change |-> SpecOf([NoSpec EXCEPT !.size = s2])]>>,
                    dryRun |-> FALSE]}}
Racing ==
  <<Scale2, SetCommand, AutoscaleOn, ProbeOwnPort, GrowDisk, AddHost, Expose, SpecOf(Whole)>>
Pairs(changes) == {<<changes[p[1]], changes[p[2]]>> :
                     p \in {q \in (DOMAIN changes) \X (DOMAIN changes) : q[1] <= q[2]}}
Race(a, p) == Scenario(OnX(a), (c1 :> Run(x, p[1])) @@ (c2 :> Run(x, p[2])), {})
Shared == CHOOSE a \in Bases : a.subdomain # None
Races ==
  {Race(a, p) : a \in {Plain, Shared}, p \in Pairs(Racing)}
  \union {Race(None, <<SpecOf(Whole), k>>) : k \in {SpecOf(Minimal), SpecOf(Whole), GrowDisk}}

MCOtherHalf == {Race(Plain, <<SetCommand, Fields1("command", [args |-> w2])>>)}
MCScenarios == Alone \union Copies \union Creates \union Races
=============================================================================
