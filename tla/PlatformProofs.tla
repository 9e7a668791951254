--------------------------- MODULE PlatformProofs ---------------------------
(***************************************************************************)
(* What commands leave at the platform, for any number of them and of      *)
(* images, rules, keys, tickets and files: the invariants of Registry, of  *)
(* the keys in Access and of Tickets, and what they say of one step.       *)
(* TenantProofs puts them together.                                        *)
(***************************************************************************)
EXTENDS Tenant, TLAPS, FiniteSetTheorems

-----------------------------------------------------------------------------
(* The registry's retention rules.                                         *)

\* What a command keeps about itself; what is done has an outcome, and only that.
RegistryShaped ==
  /\ DOMAIN registryPc = Procs /\ DOMAIN registryOutcome = Procs /\ DOMAIN repo = Procs
  /\ DOMAIN found = Procs /\ DOMAIN crossed = Procs /\ DOMAIN since = Procs
  /\ DOMAIN listed = Procs /\ DOMAIN doomed = Procs
  /\ \A p \in Procs : job[p] \in Jobs[p] /\ (registryPc[p] # "done" => registryOutcome[p] = "running")

\* Rules are known by ids of their own.
RuleIds ==
  /\ ruled \in Nat
  /\ \A r \in rules : r.id \in 1..ruled /\ r = [id |-> r.id, scope |-> r.scope, keep |-> r.keep]
  /\ \A r, s \in rules : r.id = s.id => r = s

\* No two are for one scope, until a command makes one over another's write.
RulesApart == ~clash => \A r, s \in rules : r.scope = s.scope => r = s

\* A command is to write the one rule that is there for its scope, or to make
\* the first one, unless others have written since it looked.
FoundRule(p) ==
  /\ registryPc[p] \in {"readRules", "writeRule"} => job[p].kind \in {"set", "unset"}
  /\ registryPc[p] \in {"resolve", "readRules"} => found[p] = {}
  /\ registryPc[p] = "writeRule" /\ ~crossed[p] =>
       \/ found[p] = {} /\ job[p].kind = "set" /\ \A r \in rules : r.scope # Reg!Scope(p)
       \/ \E r \in rules : found[p] = {r.id} /\ r.scope = Reg!Scope(p)

RulesInv == RuleIds /\ RulesApart /\ \A p \in Procs : FoundRule(p)

\* What a step of one command leaves alone of another.
Elsewhere(p) ==
  \A q \in Procs \ {p} :
    /\ registryPc'[q] = registryPc[q] /\ registryOutcome'[q] = registryOutcome[q] /\ repo'[q] = repo[q]
    /\ found'[q] = found[q] /\ listed'[q] = listed[q] /\ doomed'[q] = doomed[q]
    /\ crossed[q] => crossed'[q]

LEMMA RegistryGoto ==
  ASSUME NEW p \in Procs, NEW phase, RegistryShaped, Reg!Goto(p, phase)
  PROVE  /\ registryPc'[p] = phase /\ registryOutcome' = registryOutcome /\ DOMAIN registryPc' = Procs
         /\ \A q \in Procs \ {p} : registryPc'[q] = registryPc[q]
BY DEF Reg!Goto, RegistryShaped

LEMMA RegistryFinish ==
  ASSUME NEW p \in Procs, NEW how, RegistryShaped, Reg!Finish(p, how)
  PROVE  /\ registryPc'[p] = "done" /\ registryOutcome'[p] = how
         /\ DOMAIN registryPc' = Procs /\ DOMAIN registryOutcome' = Procs
         /\ \A q \in Procs \ {p} : registryPc'[q] = registryPc[q] /\ registryOutcome'[q] = registryOutcome[q]
BY DEF Reg!Finish, RegistryShaped

\* How a command's phase and outcome move together.
LEMMA RegistryMoves ==
  ASSUME NEW p \in Procs, RegistryShaped, registryPc[p] # "done",
         (\E phase : Reg!Goto(p, phase)) \/ (\E how : Reg!Finish(p, how))
  PROVE  /\ DOMAIN registryPc' = Procs /\ DOMAIN registryOutcome' = Procs
         /\ registryPc'[p] # "done" => registryOutcome'[p] = "running"
         /\ \A q \in Procs \ {p} : registryPc'[q] = registryPc[q] /\ registryOutcome'[q] = registryOutcome[q]
BY RegistryGoto, RegistryFinish DEF RegistryShaped

\* What every step of a command does to the state of the commands.
LEMMA CommandStep ==
  ASSUME NEW p \in Procs, RegistryShaped,
         \/ Reg!Resolve(p) \/ Reg!List(p) \/ Reg!ReadApps(p) \/ Reg!Answer(p) \/ Reg!Delete(p)
         \/ Reg!ReadRules(p) \/ Reg!WriteRule(p) \/ Reg!Fails(p)
  PROVE  RegistryShaped' /\ Elsewhere(p) /\ job' = job /\ registryPc[p] # "done"
<1>1. registryPc[p] # "done"
  BY DEF Reg!Resolve, Reg!List, Reg!ReadApps, Reg!Answer, Reg!Delete, Reg!ReadRules, Reg!WriteRule, Reg!Fails
<1>2. (\E phase : Reg!Goto(p, phase)) \/ (\E how : Reg!Finish(p, how))
  BY DEF Reg!Resolve, Reg!List, Reg!ReadApps, Reg!Answer, Reg!Delete, Reg!ReadRules, Reg!WriteRule, Reg!Fails
<1>3. /\ job' = job
      /\ repo' = repo \/ \E v : repo' = [repo EXCEPT ![p] = v]
      /\ found' = found \/ \E v : found' = [found EXCEPT ![p] = v]
      /\ listed' = listed \/ \E v : listed' = [listed EXCEPT ![p] = v]
      /\ doomed' = doomed \/ \E v : doomed' = [doomed EXCEPT ![p] = v]
      /\ since' = since \/ \E v : since' = [since EXCEPT ![p] = v]
  BY DEF Reg!Resolve, Reg!List, Reg!ReadApps, Reg!Answer, Reg!Delete, Reg!ReadRules, Reg!WriteRule, Reg!Fails,
         Reg!historyVars
<1>4. \/ crossed' = crossed \/ crossed' = [crossed EXCEPT ![p] = FALSE]
      \/ crossed' = [q \in Procs |-> crossed[q] \/ (q # p /\ repo[q] = repo[p])]
      \/ crossed' = [q \in Procs |-> crossed[q] \/ q # p]
  BY DEF Reg!Resolve, Reg!List, Reg!ReadApps, Reg!Answer, Reg!Delete, Reg!ReadRules, Reg!WriteRule, Reg!Fails,
         Reg!historyVars
<1>5. DOMAIN crossed' = Procs /\ \A q \in Procs \ {p} : crossed[q] => crossed'[q]
  BY <1>4 DEF RegistryShaped
<1>6. Elsewhere(p)
  BY <1>1, <1>2, <1>3, <1>5, RegistryMoves DEF Elsewhere, RegistryShaped
<1>7. RegistryShaped'
  BY <1>1, <1>2, <1>3, <1>5, RegistryMoves DEF RegistryShaped
<1>8. QED
  BY <1>1, <1>3, <1>6, <1>7

\* What a command knows of the rules stays so while others move, if what they
\* write of them is noted.
LEMMA OthersFound ==
  ASSUME NEW q \in Procs, FoundRule(q), job' = job, registryPc'[q] = registryPc[q], repo'[q] = repo[q],
         found'[q] = found[q], crossed[q] => crossed'[q], crossed'[q] \/ rules' = rules
  PROVE  FoundRule(q)'
<1>1. Reg!Scope(q)' = Reg!Scope(q)
  BY DEF Reg!Scope
<1>2. QED
  BY <1>1 DEF FoundRule

LEMMA ReadRulesFound ==
  ASSUME NEW p \in Procs, RegistryShaped, RulesInv, Reg!ReadRules(p)
  PROVE  FoundRule(p)'
<1>1. registryPc[p] = "readRules" /\ found[p] = {} /\ job[p].kind \in {"set", "unset"}
  BY DEF Reg!ReadRules, RulesInv, FoundRule
<1>2. UNCHANGED <<rules, repo, job>>
  BY DEF Reg!ReadRules, Reg!platformVars
<1>3. Reg!Scope(p)' = Reg!Scope(p)
  BY <1>2 DEF Reg!Scope
<1>4. CASE Reg!FindGCStrategy(p) # {}
  <2>1. PICK r \in Reg!FindGCStrategy(p) : found' = [found EXCEPT ![p] = {r.id}]
    BY <1>4 DEF Reg!ReadRules
  <2>2. registryPc'[p] = "writeRule" /\ found'[p] = {r.id} /\ r \in rules /\ r.scope = Reg!Scope(p)
    BY <1>4, <2>1, RegistryGoto DEF Reg!ReadRules, Reg!FindGCStrategy, RegistryShaped
  <2>3. QED
    BY <1>1, <1>2, <1>3, <2>2 DEF FoundRule
<1>5. CASE Reg!FindGCStrategy(p) = {}
  <2>1. found' = found /\ \A r \in rules : r.scope # Reg!Scope(p)
    BY <1>5 DEF Reg!ReadRules, Reg!FindGCStrategy
  <2>2. registryPc'[p] = "done" \/ (registryPc'[p] = "writeRule" /\ job[p].kind = "set")
    BY <1>5, RegistryGoto, RegistryFinish DEF Reg!ReadRules
  <2>3. QED
    BY <1>1, <1>2, <1>3, <2>1, <2>2 DEF FoundRule
<1>6. QED
  BY <1>4, <1>5

\* A command writes the one rule there is for its scope, or makes one.
LEMMA WriteRuleKeeps ==
  ASSUME NEW p \in Procs, RegistryShaped, RulesInv, Reg!WriteRule(p)
  PROVE  RuleIds' /\ RulesApart'
<1> DEFINE mine == {r \in rules : r.id \in found[p]}
           Kept(r) == [r EXCEPT !.keep = job[p].what]
<1>0. RuleIds /\ RulesApart /\ FoundRule(p) /\ registryPc[p] = "writeRule"
  BY DEF RulesInv, Reg!WriteRule
<1>1. CASE found[p] # {}
  <2>1. /\ rules' = (rules \ mine) \cup (IF job[p].kind = "unset" THEN {} ELSE {Kept(r) : r \in mine})
        /\ UNCHANGED <<ruled, clash>>
    BY <1>1 DEF Reg!WriteRule
  <2>2. \A r \in mine : Kept(r) = [id |-> r.id, scope |-> r.scope, keep |-> job[p].what]
    BY <1>0 DEF RuleIds
  <2> HIDE DEF mine, Kept
  <2>3. \A x \in rules' :
           \/ x \in rules \ mine
           \/ \E r \in mine : x = [id |-> r.id, scope |-> r.scope, keep |-> job[p].what]
    <3>1. \A x \in rules' : x \in rules \ mine \/ \E r \in mine : x = Kept(r)
      BY <2>1
    <3>2. QED
      BY <2>2, <3>1
  <2>4. mine \subseteq rules
    BY DEF mine
  <2>5. RuleIds'
    <3>1. ruled' \in Nat
      BY <1>0, <2>1 DEF RuleIds
    <3>2. ASSUME NEW x \in rules' PROVE x.id \in 1..ruled' /\ x = [id |-> x.id, scope |-> x.scope, keep |-> x.keep]
      BY <1>0, <2>1, <2>3, <2>4 DEF RuleIds
    <3>3. ASSUME NEW x \in rules', NEW y \in rules', x.id = y.id PROVE x = y
      BY <1>0, <2>3, <2>4, <3>3 DEF RuleIds
    <3>4. QED
      BY <3>1, <3>2, <3>3 DEF RuleIds
  <2>6. RulesApart'
    BY <1>0, <2>1, <2>3, <2>4 DEF RulesApart
  <2>7. QED
    BY <2>5, <2>6
<1>2. CASE found[p] = {}
  <2> DEFINE new == [id |-> ruled + 1, scope |-> Reg!Scope(p), keep |-> job[p].what]
  <2>1. ruled' = ruled + 1 /\ rules' = rules \cup {new}
    BY <1>2 DEF Reg!WriteRule
  <2>2. clash' <=> clash \/ crossed[p]
    BY <1>2 DEF Reg!WriteRule
  <2>3. new.id = ruled + 1 /\ new.scope = Reg!Scope(p) /\ new = [id |-> new.id, scope |-> new.scope, keep |-> new.keep]
    OBVIOUS
  <2> HIDE DEF new
  <2>4. \A r \in rules : r.id # new.id
    BY <1>0, <2>3 DEF RuleIds
  <2>5. RuleIds'
    BY <1>0, <2>1, <2>3, <2>4 DEF RuleIds
  <2>6. ~clash' => \A r \in rules : r.scope # new.scope
    BY <1>0, <1>2, <2>2, <2>3 DEF FoundRule
  <2>7. RulesApart'
    BY <1>0, <2>1, <2>2, <2>6 DEF RulesApart
  <2>8. QED
    BY <2>5, <2>7
<1>3. QED
  BY <1>1, <1>2

LEMMA RulesStep == ASSUME RegistryShaped, RulesInv, [Reg!Next]_(Reg!vars) PROVE RegistryShaped' /\ RulesInv'
<1>1. ASSUME NEW p \in Procs, Reg!WriteRule(p) PROVE RegistryShaped' /\ RulesInv'
  <2>1. RegistryShaped' /\ Elsewhere(p) /\ job' = job
    BY <1>1, CommandStep
  <2>2. FoundRule(p)'
    <3>1. registryPc'[p] = "done"
      BY <1>1, RegistryFinish DEF Reg!WriteRule
    <3>2. QED
      BY <3>1 DEF FoundRule
  <2>3. ASSUME NEW q \in Procs, q # p PROVE FoundRule(q)'
    <3>1. crossed'[q]
      BY <1>1, <2>3 DEF Reg!WriteRule
    <3>2. QED
      BY <2>1, <2>3, <3>1, OthersFound DEF Elsewhere, RulesInv
  <2>4. QED
    BY <1>1, <2>1, <2>2, <2>3, WriteRuleKeeps DEF RulesInv
<1>2. ASSUME NEW p \in Procs,
             \/ Reg!Resolve(p) \/ Reg!List(p) \/ Reg!ReadApps(p) \/ Reg!Answer(p) \/ Reg!Delete(p)
             \/ Reg!ReadRules(p) \/ Reg!Fails(p)
      PROVE  RegistryShaped' /\ RulesInv'
  <2>1. RegistryShaped' /\ Elsewhere(p) /\ job' = job
    BY <1>2, CommandStep
  <2>2. UNCHANGED <<rules, ruled, clash>>
    BY <1>2 DEF Reg!Resolve, Reg!List, Reg!ReadApps, Reg!Answer, Reg!Delete, Reg!ReadRules, Reg!Fails,
                Reg!platformVars, Reg!historyVars
  <2>3. FoundRule(p)'
    <3>1. CASE Reg!ReadRules(p)
      BY <3>1, ReadRulesFound
    <3>2. CASE Reg!Resolve(p)
      <4>1. found' = found /\ registryPc[p] = "resolve" /\ FoundRule(p)
        BY <3>2 DEF Reg!Resolve, RulesInv
      <4>2. registryPc'[p] \in {"done", "list", "answer"}
              \/ (registryPc'[p] = "readRules" /\ job[p].kind \in {"set", "unset"})
        BY <3>2, RegistryGoto, RegistryFinish DEF Reg!Resolve, Reg!AfterResolve
      <4>3. QED
        BY <2>1, <4>1, <4>2 DEF FoundRule
    <3>3. CASE Reg!List(p) \/ Reg!ReadApps(p) \/ Reg!Answer(p) \/ Reg!Delete(p) \/ Reg!Fails(p)
      <4>1. registryPc'[p] \in {"done", "readApps", "answer", "delete"}
        BY <3>3, RegistryGoto, RegistryFinish DEF Reg!List, Reg!ReadApps, Reg!Answer, Reg!Delete, Reg!Fails
      <4>2. QED
        BY <4>1 DEF FoundRule
    <3>4. QED
      BY <1>2, <3>1, <3>2, <3>3
  <2>4. ASSUME NEW q \in Procs, q # p PROVE FoundRule(q)'
    BY <2>1, <2>2, <2>4, OthersFound DEF Elsewhere, RulesInv
  <2>5. RuleIds' /\ RulesApart'
    BY <2>2 DEF RulesInv, RuleIds, RulesApart
  <2>6. QED
    BY <2>1, <2>3, <2>4, <2>5 DEF RulesInv
<1>3. CASE \/ \E r \in Repos, t \in Tags : Reg!Push(r, t)
           \/ \E a \in Apps, t \in Tags : Reg!Deploy(a, t)
           \/ UNCHANGED Reg!vars
  <2>1. /\ UNCHANGED <<rules, ruled, registryPc, job, repo, listed, doomed, found, registryOutcome, crossed, clash>>
        /\ since' = since \/ since' = [p \in Procs |-> since[p] \cup (Reg!Uses' \ Reg!Uses)]
    BY <1>3 DEF Reg!Push, Reg!Deploy, Reg!Notice, Reg!commandVars, Reg!vars, Reg!platformVars, Reg!historyVars
  <2>2. RegistryShaped' /\ RuleIds' /\ RulesApart'
    BY <2>1 DEF RegistryShaped, RulesInv, RuleIds, RulesApart
  <2>3. \A q \in Procs : FoundRule(q)'
    BY <2>1, OthersFound DEF RulesInv
  <2>4. QED
    BY <2>2, <2>3 DEF RulesInv
<1>4. QED
  BY <1>1, <1>2, <1>3 DEF Reg!Next

LEMMA RulesStart == ASSUME Reg!Init PROVE RegistryShaped /\ RulesInv
<1>1. RegistryShaped
  BY DEF Reg!Init, RegistryShaped
<1>2. rules = {} /\ ruled = 0 /\ \A p \in Procs : registryPc[p] = "resolve" /\ found[p] = {}
  BY DEF Reg!Init
<1>3. QED
  BY <1>1, <1>2 DEF RulesInv, RuleIds, RulesApart, FoundRule

\* One step of `gc set` or `gc unset` and the rules it leaves for its scope.
LEMMA RuleIsReported ==
  ASSUME RegistryShaped, RulesInv, [Reg!Next]_(Reg!vars), NEW p \in Procs,
         registryPc[p] = "writeRule", registryOutcome'[p] = "done", ~crossed[p], ~clash
  PROVE  /\ {r.keep : r \in {x \in rules' : x.scope = Reg!Scope(p)}}
              = (IF job[p].kind = "set" THEN {job[p].what} ELSE {})
         /\ Reg!Cardinality({x \in rules' : x.scope = Reg!Scope(p)}) <= 1
<1>0. registryOutcome[p] = "running" /\ RuleIds /\ RulesApart /\ FoundRule(p)
  BY DEF RegistryShaped, RulesInv
<1>1. Reg!WriteRule(p)
  <2>1. ASSUME NEW q \in Procs \ {p},
               \/ Reg!Resolve(q) \/ Reg!List(q) \/ Reg!ReadApps(q) \/ Reg!Answer(q) \/ Reg!Delete(q)
               \/ Reg!ReadRules(q) \/ Reg!WriteRule(q) \/ Reg!Fails(q)
        PROVE  FALSE
    BY <1>0, <2>1, CommandStep DEF Elsewhere
  <2>2. ~(\/ Reg!Resolve(p) \/ Reg!List(p) \/ Reg!ReadApps(p) \/ Reg!Answer(p) \/ Reg!Delete(p) \/ Reg!ReadRules(p))
    BY DEF Reg!Resolve, Reg!List, Reg!ReadApps, Reg!Answer, Reg!Delete, Reg!ReadRules
  <2>3. ~Reg!Fails(p)
    BY RegistryFinish DEF Reg!Fails
  <2>4. ~(\/ \E r \in Repos, t \in Tags : Reg!Push(r, t)
          \/ \E a \in Apps, t \in Tags : Reg!Deploy(a, t)
          \/ UNCHANGED Reg!vars)
    BY <1>0 DEF Reg!Push, Reg!Deploy, Reg!vars, Reg!commandVars
  <2>5. QED
    BY <2>1, <2>2, <2>3, <2>4 DEF Reg!Next
<1> DEFINE here == {x \in rules' : x.scope = Reg!Scope(p)}
           new == [id |-> ruled + 1, scope |-> Reg!Scope(p), keep |-> job[p].what]
<1>2. job[p].kind \in {"set", "unset"}
  BY <1>0 DEF FoundRule
<1>3. (job[p].kind = "set" /\ \E r : here = {r} /\ r.keep = job[p].what) \/ (job[p].kind = "unset" /\ here = {})
  <2>1. CASE found[p] = {}
    <3>1. job[p].kind = "set" /\ \A r \in rules : r.scope # Reg!Scope(p)
      BY <1>0, <2>1 DEF FoundRule
    <3>2. rules' = rules \cup {new}
      BY <1>1, <2>1 DEF Reg!WriteRule
    <3>3. here = {new} /\ new.keep = job[p].what
      BY <3>1, <3>2
    <3>4. QED
      BY <3>1, <3>3
  <2>2. CASE found[p] # {}
    <3>1. PICK r \in rules : found[p] = {r.id} /\ r.scope = Reg!Scope(p)
      BY <1>0, <2>2 DEF FoundRule
    <3>2. {s \in rules : s.id \in found[p]} = {r}
      BY <1>0, <3>1 DEF RuleIds
    <3>3. rules' = (rules \ {r}) \cup (IF job[p].kind = "unset" THEN {} ELSE {[r EXCEPT !.keep = job[p].what]})
      BY <1>1, <2>2, <3>2 DEF Reg!WriteRule
    <3>4. [r EXCEPT !.keep = job[p].what].scope = Reg!Scope(p) /\ [r EXCEPT !.keep = job[p].what].keep = job[p].what
      BY <1>0, <3>1 DEF RuleIds
    <3>5. \A s \in rules \ {r} : s.scope # Reg!Scope(p)
      BY <1>0, <3>1 DEF RulesApart
    <3>6. QED
      BY <1>2, <3>3, <3>4, <3>5
  <2>3. QED
    BY <2>1, <2>2
<1> HIDE DEF here
<1>4. Cardinality(here) <= 1
  BY <1>3, FS_EmptySet, FS_Singleton
<1>5. Reg!Cardinality(here) <= 1
  BY <1>4 DEF Cardinality, Reg!Cardinality
<1>6. {r.keep : r \in here} = (IF job[p].kind = "set" THEN {job[p].what} ELSE {})
  BY <1>3
<1>7. QED
  BY <1>5, <1>6 DEF here
-----------------------------------------------------------------------------
(* `registry prune`.                                                       *)

\* Manifests are numbered from 1, and every tag points somewhere.
Images ==
  /\ pushes \in [Repos -> Nat] /\ DOMAIN manifests = Repos
  /\ \A r \in Repos : manifests[r] \subseteq 1..pushes[r]
  /\ DOMAIN tagged = Repos /\ \A r \in Repos : DOMAIN tagged[r] = Tags
  /\ runs \in [Apps -> Tags]

\* What an app runs.
Used(a) == <<a, runs[a], Reg!Image(a)>>

Pruning(p) == job[p].kind = "prune" /\ registryPc[p] \in {"readApps", "answer", "delete"}

\* What it listed is still there, unless others deleted; no tag of nothing is
\* among it.
ListedIsThere(p) ==
  /\ registryPc[p] \in {"list", "readApps", "answer", "delete"} => repo[p] \in Repos
  /\ Pruning(p) => /\ 0 \notin DOMAIN listed[p]
                   /\ crossed[p] \/ DOMAIN listed[p] \subseteq manifests[repo[p]]

\* An app runs what it ran when the images were listed, or that is noted.
RunsAsListed(p) ==
  job[p].kind = "prune" /\ registryPc[p] = "readApps" =>
    \A a \in Apps : Reg!Repository(a) = repo[p] =>
      \/ Used(a) \in since[p]
      \/ Reg!Image(a) \in DOMAIN listed[p] => runs[a] \in listed[p][Reg!Image(a)]

\* What is to be deleted was listed, is none of the newest, and runs nowhere
\* but where that is noted.
DoomedIsUnused(p) ==
  job[p].kind = "prune" /\ registryPc[p] \in {"answer", "delete"} =>
    /\ doomed[p] \subseteq DOMAIN listed[p]
    /\ doomed[p] \cap Reg!Newest(DOMAIN listed[p], job[p].what) = {}
    /\ \A a \in Apps : Reg!Repository(a) = repo[p] /\ Reg!Image(a) \in doomed[p] => Used(a) \in since[p]

PruneOf(p) == ListedIsThere(p) /\ RunsAsListed(p) /\ DoomedIsUnused(p)
PruneInv == Images /\ \A p \in Procs : PruneOf(p)

\* What comes after something ends with it.
LEMMA AppendedIsSuffix ==
  ASSUME NEW u \in Seq(STRING), NEW r \in Seq(STRING) PROVE Reg!IsSuffix(r, u \o r)
<1> DEFINE x == u \o r
<1>1. Len(r) \in Nat /\ Len(u) \in Nat /\ Len(x) = Len(u) + Len(r) /\ x \in Seq(STRING)
  OBVIOUS
<1>2. /\ Reg!Reverse(r) \in Seq(STRING) /\ Len(Reg!Reverse(r)) = Len(r)
      /\ Reg!Reverse(x) \in Seq(STRING) /\ Len(Reg!Reverse(x)) = Len(x)
  BY <1>1 DEF Reg!Reverse
<1>3. ASSUME NEW i \in 1..Len(r) PROVE Reg!Reverse(r)[i] = Reg!Reverse(x)[i]
  <2>1. Reg!Reverse(r)[i] = r[(Len(r) - i) + 1] /\ Reg!Reverse(x)[i] = x[(Len(x) - i) + 1]
    BY <1>1 DEF Reg!Reverse
  <2>2. x[(Len(x) - i) + 1] = r[((Len(x) - i) + 1) - Len(u)]
    BY <1>1
  <2>3. QED
    BY <1>1, <2>1, <2>2
<1>4. SubSeq(Reg!Reverse(r), 1, Len(r)) = SubSeq(Reg!Reverse(x), 1, Len(r))
  BY <1>1, <1>2, <1>3
<1>5. QED
  BY <1>1, <1>2, <1>4 DEF Reg!IsSuffix, Reg!IsPrefix

\* The repository of an app is one that is there, and ends the name it runs from.
LEMMA RepositoryOf ==
  ASSUME NEW a \in Apps
  PROVE  Reg!Repository(a) \in Repos /\ Reg!IsSuffix(Reg!Repository(a), RunsFrom[a])
<1> DEFINE r == Reg!Repository(a)
<1>1. r \in Repos /\ Reg!Reference(r) = RunsFrom[a]
  BY RegistryAssumption DEF Reg!Repository
<1> HIDE DEF r
<1>2. r \in Seq(STRING) /\ Prefix \in Seq(STRING) /\ Reg!Front(Prefix) \in Seq(STRING)
  BY <1>1, RegistryAssumption DEF Reg!Front
<1>3. Reg!IsSuffix(r, <<>> \o r) /\ Reg!IsSuffix(r, Reg!Front(Prefix) \o r) /\ Reg!IsSuffix(r, Prefix \o r)
  <2>1. Reg!IsSuffix(r, <<>> \o r)
    <3>1. <<>> \in Seq(STRING)
      OBVIOUS
    <3>2. QED
      BY ONLY <1>2, <3>1, AppendedIsSuffix
  <2>2. Reg!IsSuffix(r, Reg!Front(Prefix) \o r)
    BY ONLY <1>2, AppendedIsSuffix
  <2>3. Reg!IsSuffix(r, Prefix \o r)
    BY ONLY <1>2, AppendedIsSuffix
  <2>4. QED
    BY <2>1, <2>2, <2>3
<1>4. <<>> \o r = r
  BY <1>2
<1>5. Reg!IsSuffix(r, RunsFrom[a])
  BY <1>1, <1>3, <1>4 DEF Reg!Reference
<1>6. QED
  BY <1>1, <1>5 DEF r

\* What a prune knows stays so while others move: what they delete in its
\* repository, and what apps begin to run, is noted.
LEMMA OthersPrune ==
  ASSUME NEW p \in Procs, PruneOf(p), job' = job, registryPc'[p] = registryPc[p], repo'[p] = repo[p],
         listed'[p] = listed[p], doomed'[p] = doomed[p], crossed[p] => crossed'[p], since[p] \subseteq since'[p],
         crossed'[p] \/ (repo[p] \in Repos => manifests[repo[p]] \subseteq manifests'[repo[p]]),
         \A a \in Apps : Used(a)' \in since'[p] \/ (runs'[a] = runs[a] /\ Reg!Image(a)' \in {Reg!Image(a), 0})
  PROVE  PruneOf(p)'
<1> USE DEF PruneOf
<1>1. ListedIsThere(p)'
  BY DEF ListedIsThere, Pruning
<1>2. \A a \in Apps : Reg!Repository(a)' = Reg!Repository(a)
  BY DEF Reg!Repository
<1>3. RunsAsListed(p)'
  <2> SUFFICES ASSUME job[p].kind = "prune", registryPc[p] = "readApps",
                      NEW a \in Apps, Reg!Repository(a) = repo[p], Used(a)' \notin since'[p],
                      Reg!Image(a)' \in DOMAIN listed[p]
               PROVE  runs'[a] \in listed[p][Reg!Image(a)']
    BY <1>2 DEF RunsAsListed
  <2>1. 0 \notin DOMAIN listed[p]
    BY DEF ListedIsThere, Pruning
  <2>2. runs'[a] = runs[a] /\ Reg!Image(a)' = Reg!Image(a)
    BY <2>1
  <2>3. Used(a)' = Used(a)
    BY <2>2 DEF Used
  <2>4. QED
    BY <2>2, <2>3 DEF RunsAsListed
<1>4. DoomedIsUnused(p)'
  <2> SUFFICES ASSUME job[p].kind = "prune", registryPc[p] \in {"answer", "delete"}
               PROVE  /\ doomed[p] \subseteq DOMAIN listed[p]
                      /\ doomed[p] \cap Reg!Newest(DOMAIN listed[p], job[p].what) = {}
                      /\ \A a \in Apps : Reg!Repository(a) = repo[p] /\ Reg!Image(a)' \in doomed[p]
                                          => Used(a)' \in since'[p]
    BY <1>2 DEF DoomedIsUnused, Reg!Newest
  <2>1. /\ doomed[p] \subseteq DOMAIN listed[p] /\ 0 \notin DOMAIN listed[p]
        /\ doomed[p] \cap Reg!Newest(DOMAIN listed[p], job[p].what) = {}
    BY DEF ListedIsThere, Pruning, DoomedIsUnused
  <2>2. ASSUME NEW a \in Apps, Reg!Repository(a) = repo[p], Reg!Image(a)' \in doomed[p], Used(a)' \notin since'[p]
        PROVE  FALSE
    <3>1. runs'[a] = runs[a] /\ Reg!Image(a)' = Reg!Image(a)
      BY <2>1, <2>2
    <3>2. Used(a)' = Used(a)
      BY <3>1 DEF Used
    <3>3. QED
      BY <2>2, <3>1, <3>2 DEF DoomedIsUnused
  <2>3. QED
    BY <2>1, <2>2
<1>5. QED
  BY <1>1, <1>3, <1>4

\* A push or a deployment: images are only added, and a use is as it was or noted.
LEMMA NoticedUse ==
  ASSUME PruneInv, RegistryShaped, Reg!Notice, NEW p \in Procs, NEW a \in Apps
  PROVE  since[p] \subseteq since'[p] /\ (Used(a)' \in since'[p] \/ Used(a)' = Used(a))
<1>1. since'[p] = since[p] \cup (Reg!Uses' \ Reg!Uses)
  BY DEF Reg!Notice
<1>2. Used(a)' \in Reg!Uses'
  BY DEF Used, Reg!Uses
<1>3. ASSUME Used(a)' \in Reg!Uses PROVE Used(a)' = Used(a)
  <2>1. PICK b \in Apps : Used(a)' = <<b, runs[b], Reg!Image(b)>>
    BY <1>3 DEF Reg!Uses
  <2>2. Used(a)' = <<a, runs'[a], Reg!Image(a)'>>
    BY DEF Used
  <2>3. a = b
    BY <2>1, <2>2
  <2>4. QED
    BY <2>1, <2>3 DEF Used
<1>4. QED
  BY <1>1, <1>2, <1>3

LEMMA OutsidePrune ==
  ASSUME RegistryShaped, PruneInv,
         (\E r \in Repos, t \in Tags : Reg!Push(r, t)) \/ (\E a \in Apps, t \in Tags : Reg!Deploy(a, t))
  PROVE  PruneInv'
<1>1. Reg!Notice /\ UNCHANGED <<registryPc, job, repo, listed, doomed, crossed>>
  BY DEF Reg!Push, Reg!Deploy, Reg!commandVars
<1>2. Images'
  <2>1. ASSUME NEW r \in Repos, NEW t \in Tags, Reg!Push(r, t) PROVE Images'
    <3>1. Images /\ runs' = runs
      BY <2>1 DEF PruneInv, Reg!Push
    <3>2. CASE /\ pushes' = [pushes EXCEPT ![r] = @ + 1]
               /\ manifests' = [manifests EXCEPT ![r] = @ \cup {pushes'[r]}]
               /\ tagged' = [tagged EXCEPT ![r][t] = pushes'[r]]
      <4>1. pushes' \in [Repos -> Nat] /\ pushes'[r] = pushes[r] + 1 /\ pushes[r] \in Nat
        BY <3>1, <3>2 DEF Images
      <4>2. DOMAIN manifests' = Repos /\ manifests'[r] = manifests[r] \cup {pushes[r] + 1}
        BY <3>1, <3>2, <4>1 DEF Images
      <4>3. \A x \in Repos \ {r} : pushes'[x] = pushes[x] /\ manifests'[x] = manifests[x]
        BY <3>1, <3>2 DEF Images
      <4>4. \A x \in Repos : manifests[x] \subseteq 1..pushes[x]
        BY <3>1 DEF Images
      <4>5. manifests'[r] \subseteq 1..pushes'[r]
        BY <4>1, <4>2, <4>4
      <4>6. \A x \in Repos : manifests'[x] \subseteq 1..pushes'[x]
        BY <4>3, <4>4, <4>5
      <4>7. DOMAIN tagged' = Repos /\ \A x \in Repos : DOMAIN tagged'[x] = Tags
        BY <3>1, <3>2 DEF Images
      <4>8. QED
        BY <3>1, <4>1, <4>2, <4>6, <4>7 DEF Images
    <3>3. CASE (\E m : tagged' = [tagged EXCEPT ![r][t] = m]) /\ UNCHANGED <<pushes, manifests>>
      BY <3>1, <3>3 DEF Images
    <3>4. QED
      BY <2>1, <3>2, <3>3 DEF Reg!Push
  <2>2. ASSUME NEW a \in Apps, NEW t \in Tags, Reg!Deploy(a, t) PROVE Images'
    BY <2>2 DEF PruneInv, Images, Reg!Deploy
  <2>3. QED
    BY <2>1, <2>2
<1>3. \A r \in Repos : manifests[r] \subseteq manifests'[r]
  BY DEF PruneInv, Images, Reg!Push, Reg!Deploy
<1>4. ASSUME NEW p \in Procs PROVE PruneOf(p)'
  <2>1. since[p] \subseteq since'[p] /\ \A a \in Apps : Used(a)' \in since'[p] \/ Used(a)' = Used(a)
    <3>1. since[p] \subseteq since'[p]
      BY <1>1 DEF Reg!Notice
    <3>2. QED
      BY <1>1, <3>1, NoticedUse
  <2>2. \A a \in Apps : Used(a)' = Used(a) => runs'[a] = runs[a] /\ Reg!Image(a)' = Reg!Image(a)
    BY DEF Used
  <2>3. QED
    BY <1>1, <1>3, <2>1, <2>2, OthersPrune DEF PruneInv
<1>5. QED
  BY <1>2, <1>4 DEF PruneInv

\* A deletion takes manifests away, and the tags that point at them.
LEMMA DeleteTakes ==
  ASSUME NEW p \in Procs, Images, Reg!Delete(p), repo[p] \in Repos
  PROVE  /\ Images'
         /\ \A r \in Repos \ {repo[p]} : manifests'[r] = manifests[r]
         /\ \A a \in Apps : runs'[a] = runs[a] /\ Reg!Image(a)' \in {Reg!Image(a), 0}
<1> DEFINE r == repo[p]
<1>1. UNCHANGED <<pushes, runs>>
  BY DEF Reg!Delete
<1>2. PICK ms :
        \/ Reg!Untag(r, job[p].what, ms)
        \/ Reg!Without(r, ms)
  BY DEF Reg!Delete
<1>3. /\ DOMAIN manifests' = Repos /\ manifests'[r] \subseteq manifests[r]
      /\ \A x \in Repos \ {r} : manifests'[x] = manifests[x]
  BY <1>2 DEF Images, Reg!Untag, Reg!Without
<1>4. /\ DOMAIN tagged' = Repos
      /\ \A x \in Repos : DOMAIN tagged'[x] = Tags /\ \A t \in Tags : tagged'[x][t] \in {tagged[x][t], 0}
  BY <1>2 DEF Images, Reg!Untag, Reg!Without
<1> HIDE DEF r
<1>5. Images'
  BY <1>1, <1>3, <1>4 DEF Images, r
<1>6. ASSUME NEW a \in Apps PROVE runs'[a] = runs[a] /\ Reg!Image(a)' \in {Reg!Image(a), 0}
  <2>1. Reg!Repository(a)' = Reg!Repository(a) /\ Reg!Repository(a) \in Repos /\ runs[a] \in Tags
    BY RepositoryOf DEF Reg!Repository, Images
  <2>2. QED
    BY <1>1, <1>4, <2>1 DEF Reg!Image
<1>7. QED
  BY <1>3, <1>5, <1>6 DEF r

\* What is listed is what is there, with the tags it has.
LEMMA ListPrune ==
  ASSUME NEW p \in Procs, RegistryShaped, Images, PruneOf(p), Reg!List(p) PROVE PruneOf(p)'
<1> DEFINE list == [m \in manifests[repo[p]] |-> Reg!TagsOf(repo[p], m)]
<1>1. /\ repo[p] \in Repos /\ UNCHANGED <<manifests, pushes, tagged, runs, repo, job>>
  BY DEF PruneOf, ListedIsThere, Reg!List, Reg!platformVars, Reg!imageVars
<1>2. listed'[p] = list /\ registryPc'[p] \in {"readApps", "answer", "done"}
  BY RegistryGoto, RegistryFinish DEF Reg!List, RegistryShaped
<1>3. job[p].kind = "prune" => registryPc'[p] = "readApps"
  BY RegistryGoto DEF Reg!List
<1>4. 0 \notin manifests[repo[p]]
  BY <1>1 DEF Images
<1>5. ListedIsThere(p)'
  BY <1>1, <1>2, <1>4 DEF ListedIsThere
<1>6. RunsAsListed(p)'
  <2>1. ASSUME NEW a \in Apps, Reg!Repository(a)' = repo[p], Reg!Image(a)' \in manifests[repo[p]]
        PROVE  runs'[a] \in list[Reg!Image(a)']
    BY <1>1, <2>1 DEF Reg!Image, Reg!TagsOf, Images
  <2>2. QED
    BY <1>1, <1>2, <2>1 DEF RunsAsListed
<1>7. DoomedIsUnused(p)'
  BY <1>1, <1>3 DEF DoomedIsUnused
<1>8. QED
  BY <1>5, <1>6, <1>7 DEF PruneOf

\* What is chosen carries no tag that an app runs there.
LEMMA ReadAppsPrune ==
  ASSUME NEW p \in Procs, RegistryShaped, Images, PruneOf(p), Reg!ReadApps(p), job[p].kind = "prune"
  PROVE  PruneOf(p)'
<1> DEFINE list == listed[p]
           newest == Reg!Newest(DOMAIN listed[p], job[p].what)
           out == Reg!PruneCandidates(listed[p], job[p].what, Reg!DeployedTags(repo[p]))
<1>1. /\ registryPc[p] = "readApps"
      /\ UNCHANGED <<manifests, pushes, tagged, runs, repo, job, listed, since, crossed>>
  BY DEF Reg!ReadApps, Reg!platformVars, Reg!imageVars, Reg!historyVars
<1>2. doomed'[p] = out /\ registryPc'[p] \in {"answer", "done"}
  BY RegistryGoto, RegistryFinish DEF Reg!ReadApps, RegistryShaped
<1>3. out = {m \in DOMAIN list \ newest : list[m] \cap Reg!DeployedTags(repo[p]) = {}}
  BY DEF Reg!PruneCandidates
<1>4. ListedIsThere(p)' /\ RunsAsListed(p)'
  BY <1>1, <1>2 DEF PruneOf, ListedIsThere, RunsAsListed, Pruning
<1>5. ASSUME NEW a \in Apps, Reg!Repository(a) = repo[p], Reg!Image(a) \in out PROVE Used(a) \in since[p]
  <2>1. runs[a] \in Reg!DeployedTags(repo[p])
    BY <1>5, RepositoryOf DEF Reg!DeployedTags
  <2>2. Reg!Image(a) \in DOMAIN list /\ runs[a] \notin list[Reg!Image(a)]
    BY <1>3, <1>5, <2>1
  <2>3. QED
    BY <1>1, <1>5, <2>2 DEF PruneOf, RunsAsListed
<1> HIDE DEF out, newest
<1>6. out \subseteq DOMAIN list /\ out \cap newest = {}
  BY <1>3
<1>7. /\ newest' = newest
      /\ \A a \in Apps : Used(a)' = Used(a) /\ Reg!Image(a)' = Reg!Image(a) /\ Reg!Repository(a)' = Reg!Repository(a)
  BY <1>1 DEF newest, Reg!Newest, Used, Reg!Image, Reg!Repository
<1>8. DoomedIsUnused(p)'
  BY <1>1, <1>2, <1>5, <1>6, <1>7 DEF DoomedIsUnused, newest
<1>9. QED
  BY <1>4, <1>8 DEF PruneOf

LEMMA PruneStep == ASSUME RegistryShaped, PruneInv, [Reg!Next]_(Reg!vars) PROVE PruneInv'
<1>1. ASSUME NEW p \in Procs,
             \/ Reg!Resolve(p) \/ Reg!List(p) \/ Reg!ReadApps(p) \/ Reg!Answer(p)
             \/ Reg!ReadRules(p) \/ Reg!WriteRule(p) \/ Reg!Fails(p)
      PROVE  PruneInv'
  <2>1. RegistryShaped' /\ Elsewhere(p) /\ job' = job
    BY <1>1, CommandStep
  <2>2. UNCHANGED <<manifests, pushes, tagged, runs>>
    BY <1>1 DEF Reg!Resolve, Reg!List, Reg!ReadApps, Reg!Answer, Reg!ReadRules, Reg!WriteRule, Reg!Fails,
                Reg!platformVars, Reg!imageVars
  <2>3. \A q \in Procs \ {p} : since'[q] = since[q]
    BY <1>1 DEF Reg!Resolve, Reg!List, Reg!ReadApps, Reg!Answer, Reg!ReadRules, Reg!WriteRule, Reg!Fails,
                Reg!historyVars, RegistryShaped
  <2>4. \A a \in Apps : Used(a)' = Used(a) /\ Reg!Image(a)' = Reg!Image(a)
    BY <2>2 DEF Used, Reg!Image, Reg!Repository
  <2>5. ASSUME NEW q \in Procs, q # p PROVE PruneOf(q)'
    BY <2>1, <2>2, <2>3, <2>4, <2>5, OthersPrune DEF Elsewhere, PruneInv
  <2>6. PruneOf(p) /\ Images
    BY DEF PruneInv
  <2>7. PruneOf(p)'
    <3>1. CASE Reg!Resolve(p)
      <4>1. registryPc'[p] \in {"done", "readRules"} \/ repo'[p] \in Repos
        BY <3>1, RegistryGoto, RegistryFinish
           DEF Reg!Resolve, Reg!AfterResolve, Reg!MatchRepository, RegistryShaped
      <4>2. registryPc'[p] \in {"done", "readRules", "list"} \/ (registryPc'[p] = "answer" /\ job[p].kind # "prune")
        BY <3>1, RegistryGoto, RegistryFinish DEF Reg!Resolve, Reg!AfterResolve
      <4>3. QED
        BY <2>1, <4>1, <4>2 DEF PruneOf, ListedIsThere, RunsAsListed, DoomedIsUnused, Pruning
    <3>2. CASE Reg!List(p)
      BY <2>6, <3>2, ListPrune
    <3>3. CASE Reg!ReadApps(p) /\ job[p].kind = "prune"
      BY <2>6, <3>3, ReadAppsPrune
    <3>4. CASE Reg!ReadApps(p) /\ job[p].kind # "prune"
      <4>1. repo' = repo /\ registryPc[p] = "readApps"
        BY <3>4 DEF Reg!ReadApps
      <4>2. QED
        BY <2>1, <2>6, <3>4, <4>1 DEF PruneOf, ListedIsThere, RunsAsListed, DoomedIsUnused, Pruning
    <3>5. CASE Reg!Answer(p)
      <4>1. registryPc[p] = "answer" /\ registryPc'[p] \in {"done", "delete"}
            /\ UNCHANGED <<repo, listed, doomed, since, crossed>>
        BY <3>5, RegistryGoto, RegistryFinish DEF Reg!Answer, Reg!historyVars
      <4>2. \A a \in Apps : Reg!Repository(a)' = Reg!Repository(a)
        BY DEF Reg!Repository
      <4>3. ListedIsThere(p)' /\ RunsAsListed(p)'
        BY <2>1, <2>2, <2>6, <4>1 DEF PruneOf, ListedIsThere, RunsAsListed, Pruning
      <4>4. DoomedIsUnused(p)'
        BY <2>1, <2>4, <2>6, <4>1, <4>2 DEF PruneOf, DoomedIsUnused, Reg!Newest
      <4>5. QED
        BY <4>3, <4>4 DEF PruneOf
    <3>6. CASE Reg!ReadRules(p) \/ Reg!WriteRule(p) \/ Reg!Fails(p)
      <4>1. registryPc'[p] \in {"done", "writeRule"}
        BY <3>6, RegistryGoto, RegistryFinish DEF Reg!ReadRules, Reg!WriteRule, Reg!Fails
      <4>2. QED
        BY <4>1 DEF PruneOf, ListedIsThere, RunsAsListed, DoomedIsUnused, Pruning
    <3>7. QED
      BY <1>1, <3>1, <3>2, <3>3, <3>4, <3>5, <3>6
  <2>8. QED
    BY <2>2, <2>5, <2>6, <2>7 DEF PruneInv, Images
<1>2. ASSUME NEW p \in Procs, Reg!Delete(p) PROVE PruneInv'
  <2>1. RegistryShaped' /\ Elsewhere(p) /\ job' = job /\ since' = since
    BY <1>2, CommandStep DEF Reg!Delete
  <2>2. repo[p] \in Repos
    BY <1>2 DEF PruneInv, PruneOf, ListedIsThere, Reg!Delete
  <2>3. /\ Images' /\ \A r \in Repos \ {repo[p]} : manifests'[r] = manifests[r]
        /\ \A a \in Apps : runs'[a] = runs[a] /\ Reg!Image(a)' \in {Reg!Image(a), 0}
    BY <1>2, <2>2, DeleteTakes DEF PruneInv
  <2>4. \A q \in Procs \ {p} : repo[q] = repo[p] => crossed'[q]
    BY <1>2 DEF Reg!Delete
  <2>5. ASSUME NEW q \in Procs, q # p PROVE PruneOf(q)'
    <3>1. crossed'[q] \/ (repo[q] \in Repos => manifests[repo[q]] \subseteq manifests'[repo[q]])
      BY <2>3, <2>4, <2>5
    <3>2. QED
      BY <2>1, <2>3, <2>5, <3>1, OthersPrune DEF Elsewhere, PruneInv
  <2>6. registryPc'[p] = "done"
    BY <1>2, RegistryFinish DEF Reg!Delete
  <2>7. PruneOf(p)'
    BY <2>6 DEF PruneOf, ListedIsThere, RunsAsListed, DoomedIsUnused, Pruning
  <2>8. QED
    BY <2>3, <2>5, <2>7 DEF PruneInv
<1>3. CASE UNCHANGED Reg!vars
  <2>1. UNCHANGED <<manifests, pushes, tagged, runs, registryPc, job, repo, listed, doomed, since, crossed>>
    BY <1>3 DEF Reg!vars, Reg!platformVars, Reg!imageVars, Reg!commandVars, Reg!historyVars
  <2>2. \A a \in Apps : Reg!Image(a)' = Reg!Image(a)
    BY <2>1 DEF Reg!Image, Reg!Repository
  <2>3. \A p \in Procs : PruneOf(p)'
    BY <2>1, <2>2, OthersPrune DEF PruneInv
  <2>4. Images'
    BY <2>1 DEF PruneInv, Images
  <2>5. QED
    BY <2>3, <2>4 DEF PruneInv
<1>4. QED
  BY <1>1, <1>2, <1>3, OutsidePrune DEF Reg!Next

LEMMA PruneStart == ASSUME Reg!Init PROVE PruneInv
<1>1. \A p \in Procs : registryPc[p] = "resolve"
  BY DEF Reg!Init
<1>2. Images
  <2>1. pushes = [r \in Repos |-> 2] /\ manifests = [r \in Repos |-> {1, 2}] /\ runs \in [Apps -> Tags]
    BY DEF Reg!Init
  <2>2. DOMAIN tagged = Repos /\ \A r \in Repos : DOMAIN tagged[r] = Tags
    BY DEF Reg!Init
  <2>3. QED
    BY <2>1, <2>2 DEF Images
<1>3. QED
  BY <1>1, <1>2 DEF PruneInv, PruneOf, ListedIsThere, RunsAsListed, DoomedIsUnused, Pruning

\* The newest of more are no more than the newest of fewer.
LEMMA NewestOfMore ==
  ASSUME NEW n \in Nat, NEW k \in Nat, NEW S \in SUBSET (1..n), NEW T \in SUBSET S
  PROVE  Reg!Newest(S, k) \cap T \subseteq Reg!Newest(T, k)
<1> SUFFICES ASSUME NEW m \in Reg!Newest(S, k) \cap T PROVE m \in Reg!Newest(T, k)
  OBVIOUS
<1> DEFINE newerS == {x \in S : x > m}
           newerT == {x \in T : x > m}
<1>1. IsFiniteSet(1..n)
  BY FS_Interval
<1>2. IsFiniteSet(newerS)
  BY <1>1, FS_Subset
<1>3. IsFiniteSet(newerT) /\ Cardinality(newerT) <= Cardinality(newerS)
  BY <1>2, FS_Subset
<1>4. Cardinality(newerS) \in Nat /\ Cardinality(newerT) \in Nat
  BY <1>2, <1>3, FS_CardinalityType
<1>5. Reg!Cardinality(newerS) = Cardinality(newerS) /\ Reg!Cardinality(newerT) = Cardinality(newerT)
  BY DEF Cardinality, Reg!Cardinality
<1>6. Reg!Cardinality(newerS) < k /\ m \in T
  BY DEF Reg!Newest
<1>7. Reg!Cardinality(newerT) < k
  BY <1>3, <1>4, <1>5, <1>6
<1>8. QED
  BY <1>6, <1>7 DEF Reg!Newest

\* What a prune is about to delete runs nowhere, and is none of the newest.
LEMMA PruneDeletes ==
  ASSUME RegistryShaped, PruneInv, NEW p \in Procs, registryPc[p] = "delete", job[p].kind = "prune"
  PROVE  /\ \A a \in Apps : Reg!Repository(a) = repo[p] /\ Reg!Image(a) \in doomed[p]
                              => <<a, runs[a], Reg!Image(a)>> \in since[p]
         /\ crossed[p] \/ Reg!Newest(manifests[repo[p]], job[p].what) \cap doomed[p] = {}
<1> DEFINE k == job[p].what
           newest == Reg!Newest(DOMAIN listed[p], k)
<1>1. /\ Images /\ repo[p] \in Repos /\ (crossed[p] \/ DOMAIN listed[p] \subseteq manifests[repo[p]])
      /\ doomed[p] \subseteq DOMAIN listed[p] /\ doomed[p] \cap newest = {}
      /\ \A a \in Apps : Reg!Repository(a) = repo[p] /\ Reg!Image(a) \in doomed[p] => Used(a) \in since[p]
  BY DEF PruneInv, PruneOf, ListedIsThere, DoomedIsUnused, Pruning
<1>2. k \in Nat
  BY RegistryAssumption DEF RegistryShaped
<1>3. manifests[repo[p]] \in SUBSET (1..pushes[repo[p]]) /\ pushes[repo[p]] \in Nat
  BY <1>1 DEF Images
<1>4. CASE DOMAIN listed[p] \subseteq manifests[repo[p]]
  <2>1. Reg!Newest(manifests[repo[p]], k) \cap DOMAIN listed[p] \subseteq newest
    BY <1>2, <1>3, <1>4, NewestOfMore
  <2>2. Reg!Newest(manifests[repo[p]], k) \cap doomed[p] = {}
    BY <1>1, <2>1
  <2>3. QED
    BY <1>1, <2>2 DEF Used
<1>5. QED
  BY <1>1, <1>4 DEF Used

-----------------------------------------------------------------------------
(* The registry: types.                                                    *)

RegistryPhases == {"resolve", "list", "readApps", "answer", "delete", "readRules", "writeRule", "done"}
RegistryOutcomes == {"running", "done", "failed", "aborted", "nothing"}

\* Tags point at manifests that are there, and those are numbered by their pushes.
ImagesTyped ==
  /\ manifests \in [Repos -> SUBSET (1..MaxPushes)]
  /\ \A r \in Repos, t \in Tags : tagged[r][t] \in manifests[r] \cup {0}
  /\ \A r \in Repos : pushes[r] <= MaxPushes
  /\ moves \in 0..MaxTags

RulesTyped == \A r \in rules : r.scope \in {<<>>} \cup Seq(STRING) /\ r.keep \in Nat

\* Nothing is to be deleted before images are listed, and without a rule that is
\* there only `set` writes.
CommandTyped(p) ==
  /\ registryPc[p] \in RegistryPhases /\ registryOutcome[p] \in RegistryOutcomes
  /\ repo[p] \in Repos \cup {<<>>}
  /\ doomed[p] \subseteq DOMAIN listed[p] /\ found[p] \subseteq 1..ruled
  /\ registryPc[p] \in {"resolve", "list"} => doomed[p] = {}
  /\ registryPc[p] = "writeRule" /\ found[p] = {} => job[p].kind = "set"

\* What commands keep is a function of the command.
OfCommands ==
  /\ registryPc = [p \in Procs |-> registryPc[p]] /\ registryOutcome = [p \in Procs |-> registryOutcome[p]]
  /\ repo = [p \in Procs |-> repo[p]]

RegistryTyped == ImagesTyped /\ RulesTyped /\ OfCommands /\ \A p \in Procs : CommandTyped(p)

LEMMA RegistryTypes == ASSUME RegistryShaped, RulesInv, PruneInv, RegistryTyped PROVE Reg!TypeOK
<1>1. rules \subseteq [id : 1..ruled, scope : {<<>>} \cup Seq(STRING), keep : Nat]
  <2> SUFFICES ASSUME NEW r \in rules
               PROVE  r \in [id : 1..ruled, scope : {<<>>} \cup Seq(STRING), keep : Nat]
    OBVIOUS
  <2>1. r.id \in 1..ruled /\ r = [id |-> r.id, scope |-> r.scope, keep |-> r.keep]
    BY DEF RulesInv, RuleIds
  <2>2. r.scope \in {<<>>} \cup Seq(STRING) /\ r.keep \in Nat
    BY DEF RegistryTyped, RulesTyped
  <2>3. QED
    BY <2>1, <2>2
<1>2. registryPc \in [Procs -> RegistryPhases] /\ registryOutcome \in [Procs -> RegistryOutcomes]
      /\ repo \in [Procs -> Repos \cup {<<>>}]
  <2>1. \A p \in Procs : registryPc[p] \in RegistryPhases /\ registryOutcome[p] \in RegistryOutcomes
                           /\ repo[p] \in Repos \cup {<<>>}
    BY DEF RegistryTyped, CommandTyped
  <2>2. QED
    BY <2>1 DEF RegistryTyped, OfCommands
<1>3. runs \in [Apps -> Tags]
  BY DEF PruneInv, Images
<1>4. \A p \in Procs : doomed[p] \subseteq DOMAIN listed[p] /\ found[p] \subseteq 1..ruled
  BY DEF RegistryTyped, CommandTyped
<1>5. QED
  BY <1>1, <1>2, <1>3, <1>4
     DEF Reg!TypeOK, RegistryTyped, ImagesTyped, RegistryPhases, RegistryOutcomes, Reg!WholeRegistry

LEMMA RegistryTypedStart == ASSUME Reg!Init PROVE RegistryTyped
<1>1. ImagesTyped
  <2>1. PICK where \in [Tags -> {1, 2}] : tagged = [r \in Repos |-> where]
    BY DEF Reg!Init
  <2>2. manifests = [r \in Repos |-> {1, 2}] /\ pushes = [r \in Repos |-> 2] /\ moves = 0
    BY DEF Reg!Init
  <2>3. {1, 2} \subseteq 1..MaxPushes /\ 2 <= MaxPushes /\ 0 \in 0..MaxTags
    BY RegistryAssumption
  <2>4. QED
    BY <2>1, <2>2, <2>3 DEF ImagesTyped
<1>2. RulesTyped
  BY DEF Reg!Init, RulesTyped
<1>3. OfCommands /\ \A p \in Procs : CommandTyped(p)
  BY DEF Reg!Init, OfCommands, CommandTyped, RegistryPhases, RegistryOutcomes, Reg!WholeRegistry
<1>4. QED
  BY <1>1, <1>2, <1>3 DEF RegistryTyped

\* A step of one command leaves the others' as they are.
LEMMA OthersTyped ==
  ASSUME NEW p \in Procs, NEW q \in Procs \ {p}, Elsewhere(p), CommandTyped(q), job' = job,
         ruled \in Nat, ruled' \in {ruled, ruled + 1}
  PROVE  CommandTyped(q)'
<1>1. 1..ruled \subseteq 1..ruled'
  OBVIOUS
<1>2. QED
  BY <1>1 DEF CommandTyped, Elsewhere

\* What a command keeps about itself stays a function of the command.
LEMMA OfCommandsStep ==
  ASSUME NEW p \in Procs, OfCommands,
         \/ Reg!Resolve(p) \/ Reg!List(p) \/ Reg!ReadApps(p) \/ Reg!Answer(p) \/ Reg!Delete(p)
         \/ Reg!ReadRules(p) \/ Reg!WriteRule(p) \/ Reg!Fails(p)
  PROVE  OfCommands'
<1>1. (\E phase : Reg!Goto(p, phase)) \/ (\E how : Reg!Finish(p, how))
  BY DEF Reg!Resolve, Reg!List, Reg!ReadApps, Reg!Answer, Reg!Delete, Reg!ReadRules, Reg!WriteRule, Reg!Fails
<1>2. repo' = repo \/ \E v : repo' = [repo EXCEPT ![p] = v]
  BY DEF Reg!Resolve, Reg!List, Reg!ReadApps, Reg!Answer, Reg!Delete, Reg!ReadRules, Reg!WriteRule, Reg!Fails
<1>3. repo' = [q \in Procs |-> repo'[q]]
  BY <1>2 DEF OfCommands
<1>4. registryPc' = [q \in Procs |-> registryPc'[q]] /\ registryOutcome' = [q \in Procs |-> registryOutcome'[q]]
  BY <1>1 DEF OfCommands, Reg!Goto, Reg!Finish
<1>5. QED
  BY <1>3, <1>4 DEF OfCommands

\* What a command has after its own step.
LEMMA MineTyped ==
  ASSUME NEW p \in Procs, RegistryShaped, RulesInv, CommandTyped(p),
         \/ Reg!Resolve(p) \/ Reg!List(p) \/ Reg!ReadApps(p) \/ Reg!Answer(p) \/ Reg!Delete(p)
         \/ Reg!ReadRules(p) \/ Reg!WriteRule(p) \/ Reg!Fails(p)
  PROVE  CommandTyped(p)'
<1> USE DEF RegistryPhases, RegistryOutcomes
<1>1. CASE Reg!Resolve(p)
  <2>1. registryPc[p] = "resolve" /\ UNCHANGED <<ruled, job, listed, doomed, found>>
    BY <1>1 DEF Reg!Resolve, Reg!platformVars
  <2>2. repo'[p] \in Repos \cup {<<>>}
    BY <1>1 DEF Reg!Resolve, Reg!MatchRepository, CommandTyped, RegistryShaped
  <2>3. registryPc'[p] \in {"done", "list", "answer", "readRules"} /\ registryOutcome'[p] \in RegistryOutcomes
    BY <1>1, RegistryGoto, RegistryFinish DEF Reg!Resolve, Reg!AfterResolve, CommandTyped
  <2>4. QED
    BY <2>1, <2>2, <2>3 DEF CommandTyped
<1>2. CASE Reg!List(p)
  <2>1. PICK list : /\ list = [m \in manifests[repo[p]] |-> Reg!TagsOf(repo[p], m)]
                    /\ registryPc[p] = "list" /\ listed' = [listed EXCEPT ![p] = list]
                    /\ IF job[p].kind = "prune" THEN Reg!Goto(p, "readApps") /\ UNCHANGED doomed
                       ELSE /\ doomed' = [doomed EXCEPT ![p] = Reg!Named(p, list)]
                            /\ IF Reg!Named(p, list) = {} THEN Reg!Finish(p, "failed") ELSE Reg!Goto(p, "answer")
                    /\ UNCHANGED <<ruled, job, repo, found>>
    BY <1>2 DEF Reg!List, Reg!platformVars
  <2>2. listed'[p] = list /\ doomed'[p] \subseteq DOMAIN list
    <3>1. Reg!Named(p, list) \subseteq DOMAIN list /\ doomed[p] = {}
      BY <2>1 DEF Reg!Named, CommandTyped
    <3>2. QED
      BY <2>1, <3>1 DEF RegistryShaped
  <2>3. registryPc'[p] \in {"done", "readApps", "answer"} /\ registryOutcome'[p] \in RegistryOutcomes
    BY <2>1, RegistryGoto, RegistryFinish DEF CommandTyped
  <2>4. QED
    BY <2>1, <2>2, <2>3 DEF CommandTyped
<1>3. CASE Reg!ReadApps(p)
  <2>1. /\ doomed' = [doomed EXCEPT ![p] = Reg!PruneCandidates(listed[p], job[p].what, Reg!DeployedTags(repo[p]))]
        /\ UNCHANGED <<ruled, job, repo, listed, found>>
    BY <1>3 DEF Reg!ReadApps, Reg!platformVars
  <2>2. doomed'[p] \subseteq DOMAIN listed[p]
    BY <2>1 DEF Reg!PruneCandidates, RegistryShaped
  <2>3. registryPc'[p] \in {"done", "answer"} /\ registryOutcome'[p] \in RegistryOutcomes
    BY <1>3, RegistryGoto, RegistryFinish DEF Reg!ReadApps, CommandTyped
  <2>4. QED
    BY <2>1, <2>2, <2>3 DEF CommandTyped
<1>4. CASE Reg!Answer(p) \/ Reg!Delete(p) \/ Reg!Fails(p)
  <2>1. UNCHANGED <<ruled, job, repo, listed, doomed, found>>
    BY <1>4 DEF Reg!Answer, Reg!Delete, Reg!Fails, Reg!platformVars
  <2>2. registryPc'[p] \in {"done", "delete"} /\ registryOutcome'[p] \in RegistryOutcomes
    BY <1>4, RegistryGoto, RegistryFinish DEF Reg!Answer, Reg!Delete, Reg!Fails, CommandTyped
  <2>3. QED
    BY <2>1, <2>2 DEF CommandTyped
<1>5. CASE Reg!ReadRules(p)
  <2>1. UNCHANGED <<ruled, rules, job, repo, listed, doomed>>
    BY <1>5 DEF Reg!ReadRules, Reg!platformVars
  <2>2. registryPc'[p] \in {"done", "writeRule"} /\ registryOutcome'[p] \in RegistryOutcomes
    BY <1>5, RegistryGoto, RegistryFinish DEF Reg!ReadRules, CommandTyped
  <2>3. found'[p] \subseteq 1..ruled /\ (registryPc'[p] = "writeRule" /\ found'[p] = {} => job[p].kind = "set")
    <3>1. CASE Reg!FindGCStrategy(p) # {}
      <4>1. PICK r \in Reg!FindGCStrategy(p) : found' = [found EXCEPT ![p] = {r.id}]
        BY <1>5, <3>1 DEF Reg!ReadRules
      <4>2. r.id \in 1..ruled
        BY <4>1 DEF Reg!FindGCStrategy, RulesInv, RuleIds
      <4>3. QED
        BY <4>1, <4>2 DEF RegistryShaped
    <3>2. CASE Reg!FindGCStrategy(p) = {}
      BY <1>5, <3>2, RegistryGoto, RegistryFinish DEF Reg!ReadRules, CommandTyped
    <3>3. QED
      BY <3>1, <3>2
  <2>4. QED
    BY <2>1, <2>2, <2>3 DEF CommandTyped
<1>6. CASE Reg!WriteRule(p)
  <2>1. UNCHANGED <<job, repo, listed, doomed, found>> /\ ruled' \in {ruled, ruled + 1} /\ ruled \in Nat
    BY <1>6 DEF Reg!WriteRule, RulesInv, RuleIds
  <2>2. registryPc'[p] = "done" /\ registryOutcome'[p] \in RegistryOutcomes
    BY <1>6, RegistryFinish DEF Reg!WriteRule
  <2>3. 1..ruled \subseteq 1..ruled'
    BY <2>1
  <2>4. QED
    BY <2>1, <2>2, <2>3 DEF CommandTyped
<1>7. QED
  BY <1>1, <1>2, <1>3, <1>4, <1>5, <1>6

\* A rule that is written keeps a number, for the registry or for an image of it.
LEMMA RulesTypedStep ==
  ASSUME NEW p \in Procs, RegistryShaped, RulesTyped, CommandTyped(p), FoundRule(p), RuleIds, Reg!WriteRule(p)
  PROVE  RulesTyped'
<1> DEFINE Scopes == {<<>>} \cup Seq(STRING)
<1>1. job[p].kind \in {"set", "unset"} /\ (job[p].kind = "set" => job[p].what \in Nat)
  BY RegistryAssumption DEF FoundRule, Reg!WriteRule, RegistryShaped
<1>2. Reg!Scope(p) \in Scopes
  <2>1. repo[p] \in Repos \cup {<<>>} /\ Prefix \in Seq(STRING) /\ Repos \subseteq Seq(STRING)
    BY RegistryAssumption DEF CommandTyped
  <2>2. repo[p] \in Seq(STRING) => Prefix \o repo[p] \in Seq(STRING)
    BY <2>1
  <2>3. QED
    BY <2>1, <2>2 DEF Reg!Scope, Reg!WholeRegistry
<1>3. CASE found[p] # {}
  <2>1. PICK mine : mine = {r \in rules : r.id \in found[p]}
    OBVIOUS
  <2>2. rules' = (rules \ mine) \cup (IF job[p].kind = "unset" THEN {} ELSE {[r EXCEPT !.keep = job[p].what] : r \in mine})
    BY <1>3, <2>1 DEF Reg!WriteRule
  <2> SUFFICES ASSUME NEW x \in rules', x \notin rules PROVE x.scope \in Scopes /\ x.keep \in Nat
    BY DEF RulesTyped
  <2>3. job[p].kind = "set" /\ \E r \in mine : x = [r EXCEPT !.keep = job[p].what]
    BY <1>1, <2>2
  <2>4. PICK r \in mine : x = [r EXCEPT !.keep = job[p].what]
    BY <2>3
  <2>5. r \in rules /\ r = [id |-> r.id, scope |-> r.scope, keep |-> r.keep]
    BY <2>1 DEF RuleIds
  <2>6. x = [id |-> r.id, scope |-> r.scope, keep |-> job[p].what]
    BY <2>4, <2>5
  <2>7. QED
    BY <1>1, <2>3, <2>5, <2>6 DEF RulesTyped
<1>4. CASE found[p] = {}
  <2>1. rules' = rules \cup {[id |-> ruled', scope |-> Reg!Scope(p), keep |-> job[p].what]}
    BY <1>4 DEF Reg!WriteRule
  <2>2. job[p].kind = "set"
    BY <1>4 DEF CommandTyped, Reg!WriteRule
  <2>3. QED
    BY <1>1, <1>2, <2>1, <2>2 DEF RulesTyped
<1>5. QED
  BY <1>3, <1>4

\* Manifests that go take their tags with them.
LEMMA DeleteTyped ==
  ASSUME NEW p \in Procs, Images, ImagesTyped, Reg!Delete(p)
  PROVE  ImagesTyped'
<1>1. pushes' = pushes /\ moves' = moves
  BY DEF Reg!Delete
<1>2. CASE job[p].kind = "deleteTag"
  <2>1. tagged' = [tagged EXCEPT ![repo[p]][job[p].what] = IF @ \in doomed[p] THEN 0 ELSE @] /\ manifests' = manifests
    BY <1>2 DEF Reg!Delete, Reg!Untag
  <2>2. \A r \in Repos, t \in Tags : tagged'[r][t] \in {tagged[r][t], 0}
    BY <2>1 DEF Images
  <2>3. QED
    BY <1>1, <2>1, <2>2 DEF ImagesTyped
<1>3. CASE job[p].kind # "deleteTag"
  <2>1. PICK gone : gone = Reg!Removed(p)
    OBVIOUS
  <2>2. /\ manifests' = [manifests EXCEPT ![repo[p]] = @ \ gone]
        /\ tagged' = [tagged EXCEPT ![repo[p]] = [t \in Tags |-> IF @[t] \in gone THEN 0 ELSE @[t]]]
    BY <1>3, <2>1 DEF Reg!Delete, Reg!Without
  <2>3. manifests' \in [Repos -> SUBSET (1..MaxPushes)]
    BY <2>2 DEF ImagesTyped
  <2>4. ASSUME NEW r \in Repos, NEW t \in Tags PROVE tagged'[r][t] \in manifests'[r] \cup {0}
    <3>1. tagged[r][t] \in manifests[r] \cup {0}
      BY DEF ImagesTyped
    <3>2. CASE r = repo[p]
      <4>1. manifests'[r] = manifests[r] \ gone
        BY <2>2, <3>2 DEF Images
      <4>2. tagged'[r][t] = IF tagged[r][t] \in gone THEN 0 ELSE tagged[r][t]
        BY <2>2, <3>2 DEF Images
      <4>3. QED
        BY <3>1, <4>1, <4>2
    <3>3. CASE r # repo[p]
      BY <2>2, <3>1, <3>3 DEF Images
    <3>4. QED
      BY <3>2, <3>3
  <2>5. QED
    BY <1>1, <2>3, <2>4 DEF ImagesTyped
<1>4. QED
  BY <1>2, <1>3

LEMMA PushTyped ==
  ASSUME NEW r \in Repos, NEW t \in Tags, Images, ImagesTyped, Reg!Push(r, t)
  PROVE  ImagesTyped'
<1>0. MaxPushes \in Nat /\ MaxTags \in Nat
  BY RegistryAssumption
<1>1. moves' \in 0..MaxTags
  BY <1>0 DEF Reg!Push, Reg!Notice, ImagesTyped
<1>2. CASE /\ pushes[r] < MaxPushes /\ pushes' = [pushes EXCEPT ![r] = @ + 1]
           /\ manifests' = [manifests EXCEPT ![r] = @ \cup {pushes'[r]}]
           /\ tagged' = [tagged EXCEPT ![r][t] = pushes'[r]]
  <2>1. pushes[r] \in Nat /\ pushes'[r] = pushes[r] + 1 /\ \A x \in Repos \ {r} : pushes'[x] = pushes[x]
    BY <1>2 DEF Images
  <2>2. pushes'[r] \in 1..MaxPushes
    BY <1>0, <1>2, <2>1
  <2>3. manifests' \in [Repos -> SUBSET (1..MaxPushes)]
    BY <1>2, <2>2 DEF ImagesTyped
  <2>4. /\ manifests'[r] = manifests[r] \cup {pushes'[r]}
        /\ \A x \in Repos \ {r} : manifests'[x] = manifests[x]
    BY <1>2 DEF ImagesTyped
  <2>5. \A x \in Repos, u \in Tags : tagged'[x][u] = IF x = r /\ u = t THEN pushes'[r] ELSE tagged[x][u]
    BY <1>2 DEF Images
  <2>6. \A x \in Repos, u \in Tags : tagged'[x][u] \in manifests'[x] \cup {0}
    BY <2>4, <2>5 DEF ImagesTyped
  <2>7. \A x \in Repos : pushes'[x] <= MaxPushes
    BY <1>0, <2>1, <2>2 DEF ImagesTyped
  <2>8. QED
    BY <1>1, <2>3, <2>6, <2>7 DEF ImagesTyped
<1>3. ASSUME NEW m \in manifests[r], tagged' = [tagged EXCEPT ![r][t] = m], UNCHANGED <<pushes, manifests>>
      PROVE  ImagesTyped'
  <2>1. \A x \in Repos, u \in Tags : tagged'[x][u] = IF x = r /\ u = t THEN m ELSE tagged[x][u]
    BY <1>3 DEF Images
  <2>2. QED
    BY <1>1, <1>3, <2>1 DEF ImagesTyped
<1>4. QED
  BY <1>2, <1>3 DEF Reg!Push

LEMMA DeployTyped ==
  ASSUME NEW a \in Apps, NEW t \in Tags, ImagesTyped, Reg!Deploy(a, t)
  PROVE  ImagesTyped'
<1>1. UNCHANGED <<manifests, pushes, tagged>> /\ moves < MaxTags /\ moves' = moves + 1
  BY DEF Reg!Deploy, Reg!Notice
<1>2. moves' \in 0..MaxTags
  BY <1>1, RegistryAssumption DEF ImagesTyped
<1>3. QED
  BY <1>1, <1>2 DEF ImagesTyped

LEMMA RegistryTypedStep ==
  ASSUME RegistryShaped, RulesInv, PruneInv, RegistryTyped, [Reg!Next]_(Reg!vars) PROVE RegistryTyped'
<1>0. Images /\ RuleIds /\ ruled \in Nat /\ ImagesTyped /\ RulesTyped /\ OfCommands
  BY DEF PruneInv, RulesInv, RuleIds, RegistryTyped
<1>1. ASSUME NEW p \in Procs,
             \/ Reg!Resolve(p) \/ Reg!List(p) \/ Reg!ReadApps(p) \/ Reg!Answer(p) \/ Reg!Delete(p)
             \/ Reg!ReadRules(p) \/ Reg!WriteRule(p) \/ Reg!Fails(p)
      PROVE  RegistryTyped'
  <2>1. Elsewhere(p) /\ job' = job /\ CommandTyped(p) /\ FoundRule(p)
    BY <1>1, CommandStep DEF RegistryTyped, RulesInv
  <2>2. ruled' \in {ruled, ruled + 1}
    BY <1>1 DEF Reg!Resolve, Reg!List, Reg!ReadApps, Reg!Answer, Reg!Delete, Reg!ReadRules, Reg!WriteRule,
                Reg!Fails, Reg!platformVars
  <2>3. \A q \in Procs : CommandTyped(q)'
    <3>1. CommandTyped(p)'
      BY <1>1, <2>1, MineTyped
    <3>2. \A q \in Procs \ {p} : CommandTyped(q)'
      BY <1>0, <2>1, <2>2, OthersTyped DEF RegistryTyped
    <3>3. QED
      BY <3>1, <3>2
  <2>4. OfCommands'
    BY <1>0, <1>1, OfCommandsStep
  <2>5. RulesTyped'
    <3>1. CASE Reg!WriteRule(p)
      BY <1>0, <2>1, <3>1, RulesTypedStep
    <3>2. CASE ~Reg!WriteRule(p)
      <4>1. rules' = rules
        BY <1>1, <3>2 DEF Reg!Resolve, Reg!List, Reg!ReadApps, Reg!Answer, Reg!Delete, Reg!ReadRules,
                          Reg!Fails, Reg!platformVars
      <4>2. QED
        BY <1>0, <4>1 DEF RulesTyped
    <3>3. QED
      BY <3>1, <3>2
  <2>6. ImagesTyped'
    <3>1. CASE Reg!Delete(p)
      BY <1>0, <3>1, DeleteTyped
    <3>2. CASE ~Reg!Delete(p)
      <4>1. UNCHANGED <<manifests, pushes, tagged, moves>>
        BY <1>1, <3>2 DEF Reg!Resolve, Reg!List, Reg!ReadApps, Reg!Answer, Reg!ReadRules, Reg!WriteRule,
                          Reg!Fails, Reg!platformVars, Reg!imageVars
      <4>2. QED
        BY <1>0, <4>1 DEF ImagesTyped
    <3>3. QED
      BY <3>1, <3>2
  <2>7. QED
    BY <2>3, <2>4, <2>5, <2>6 DEF RegistryTyped
<1>2. ASSUME (\E r \in Repos, t \in Tags : Reg!Push(r, t)) \/ (\E a \in Apps, t \in Tags : Reg!Deploy(a, t))
             \/ UNCHANGED Reg!vars
      PROVE  RegistryTyped'
  <2>1. UNCHANGED <<rules, ruled, registryPc, job, repo, listed, doomed, found, registryOutcome>>
    BY <1>2 DEF Reg!Push, Reg!Deploy, Reg!commandVars, Reg!vars, Reg!platformVars
  <2>2. RulesTyped' /\ OfCommands' /\ \A p \in Procs : CommandTyped(p)'
    BY <2>1 DEF RegistryTyped, RulesTyped, OfCommands, CommandTyped
  <2>3. ImagesTyped'
    <3>1. CASE UNCHANGED Reg!vars
      BY <1>0, <3>1 DEF Reg!vars, Reg!platformVars, Reg!imageVars, ImagesTyped
    <3>2. QED
      BY <1>0, <1>2, <3>1, PushTyped, DeployTyped
  <2>4. QED
    BY <2>2, <2>3 DEF RegistryTyped
<1>3. QED
  BY <1>1, <1>2 DEF Reg!Next

-----------------------------------------------------------------------------
(* `delete apikey`.                                                        *)

\* The key found for a reference: by its id, or alone by its name but for those
\* made since.
Meant(p) ==
  \/ key[p].id = want[p].ref
  \/ /\ key[p].name = want[p].ref
     /\ \A k \in keys : k.name = want[p].ref /\ k.id \notin freshKeys[p] => k = key[p]

KeyIsMeant(p) ==
  /\ accessPc[p] = "list" => want[p].kind # "set"
  /\ accessPc[p] = "read" => want[p].kind = "set"
  /\ (accessPc[p] = "answer" /\ want[p].kind # "set") \/ accessPc[p] = "revoke" => Meant(p)

KeysInv ==
  /\ DOMAIN accessPc = Procs /\ DOMAIN accessOutcome = Procs /\ DOMAIN key = Procs /\ DOMAIN freshKeys = Procs
  /\ IsFiniteSet(keys)
  /\ \A p \in Procs : KeyIsMeant(p)

\* One step of keys: some go, or one comes that is noted.
KeysMove ==
  \/ keys' \subseteq keys /\ freshKeys' = freshKeys
  \/ \E k : keys' = keys \cup {k} /\ freshKeys' = [q \in Procs |-> freshKeys[q] \cup {k.id}]

LEMMA KeysGoto ==
  ASSUME NEW p \in Procs, NEW phase, KeysInv, Acc!Goto(p, phase)
  PROVE  /\ accessPc'[p] = phase /\ DOMAIN accessPc' = Procs /\ DOMAIN accessOutcome' = Procs
         /\ \A q \in Procs \ {p} : accessPc'[q] = accessPc[q]
BY DEF Acc!Goto, KeysInv

LEMMA KeysFinish ==
  ASSUME NEW p \in Procs, NEW how, KeysInv, Acc!Finish(p, how)
  PROVE  /\ accessPc'[p] = "done" /\ DOMAIN accessPc' = Procs /\ DOMAIN accessOutcome' = Procs
         /\ \A q \in Procs \ {p} : accessPc'[q] = accessPc[q]
BY DEF Acc!Finish, KeysInv

LEMMA NewKeyMoves == ASSUME NEW name, Acc!NewKey(name) PROVE KeysMove
<1> DEFINE k == [id |-> Acc!KeyId(made'), name |-> name]
<1>1. keys' = keys \cup {k} /\ freshKeys' = [q \in Procs |-> freshKeys[q] \cup {k.id}]
  BY DEF Acc!NewKey
<1>2. QED
  BY <1>1 DEF KeysMove

\* What a command knows of its key stays so while keys come and go.
LEMMA KeysMoved ==
  ASSUME NEW q \in Procs, KeysInv, KeysMove, want' = want, key'[q] = key[q],
         accessPc'[q] = accessPc[q] \/ (accessPc[q] = "answer" /\ want[q].kind # "set" /\ accessPc'[q] = "revoke")
  PROVE  KeyIsMeant(q)'
<1>1. KeyIsMeant(q) /\ DOMAIN freshKeys = Procs
  BY DEF KeysInv
<1>2. Meant(q) => Meant(q)'
  <2>1. CASE keys' \subseteq keys /\ freshKeys' = freshKeys
    BY <2>1 DEF Meant
  <2>2. CASE \E k : keys' = keys \cup {k} /\ freshKeys' = [p \in Procs |-> freshKeys[p] \cup {k.id}]
    BY <2>2 DEF Meant
  <2>3. QED
    BY <2>1, <2>2 DEF KeysMove
<1>3. QED
  BY <1>1, <1>2 DEF KeyIsMeant

LEMMA FiniteKeys == ASSUME KeysInv, KeysMove PROVE IsFiniteSet(keys') /\ DOMAIN freshKeys' = Procs
BY FS_Subset, FS_AddElement DEF KeysInv, KeysMove

\* Of the keys listed, the one that was found is meant.
LEMMA FoundIsMeant ==
  ASSUME NEW ref, IsFiniteSet(keys), NEW k \in Acc!FindAPIKey(keys, ref)
  PROVE  k.id = ref \/ (k.name = ref /\ \A x \in keys : x.name = ref => x = k)
<1> DEFINE byName == {x \in keys : x.name = ref}
<1>1. CASE {x \in keys : x.id = ref} # {}
  BY <1>1 DEF Acc!FindAPIKey
<1>2. CASE {x \in keys : x.id = ref} = {}
  <2>1. k \in byName /\ Acc!Cardinality(byName) = 1
    BY <1>2 DEF Acc!FindAPIKey
  <2>2. IsFiniteSet(byName) /\ Cardinality(byName) = 1
    BY <2>1, FS_Subset DEF Cardinality, Acc!Cardinality
  <2>3. \E x : byName = {x}
    BY <2>2, FS_Singleton
  <2>4. QED
    BY <2>1, <2>3
<1>3. QED
  BY <1>1, <1>2

LEMMA ListKeysMeant == ASSUME NEW p \in Procs, KeysInv, Acc!ListKeys(p) PROVE KeysInv'
<1>1. /\ accessPc[p] = "list" /\ UNCHANGED <<keys, want>>
      /\ freshKeys' = [freshKeys EXCEPT ![p] = {}] /\ want[p].kind # "set"
  BY DEF Acc!ListKeys, Acc!platformVars, KeysInv, KeyIsMeant
<1>2. \/ Acc!Finish(p, "failed") /\ UNCHANGED key
      \/ \E k \in Acc!FindAPIKey(keys, want[p].ref) : key' = [key EXCEPT ![p] = k] /\ Acc!Goto(p, "answer")
  BY DEF Acc!ListKeys
<1>3. /\ DOMAIN accessPc' = Procs /\ DOMAIN accessOutcome' = Procs /\ DOMAIN key' = Procs /\ DOMAIN freshKeys' = Procs
      /\ \A q \in Procs \ {p} : accessPc'[q] = accessPc[q] /\ key'[q] = key[q] /\ freshKeys'[q] = freshKeys[q]
  BY <1>1, <1>2, KeysGoto, KeysFinish DEF KeysInv
<1>4. KeyIsMeant(p)'
  <2>1. CASE Acc!Finish(p, "failed") /\ UNCHANGED key
    BY <2>1, KeysFinish DEF KeyIsMeant
  <2>2. ASSUME NEW k \in Acc!FindAPIKey(keys, want[p].ref), key' = [key EXCEPT ![p] = k], Acc!Goto(p, "answer")
        PROVE  KeyIsMeant(p)'
    <3>1. k.id = want[p].ref \/ (k.name = want[p].ref /\ \A x \in keys : x.name = want[p].ref => x = k)
      BY FoundIsMeant DEF KeysInv
    <3>2. key'[p] = k /\ accessPc'[p] = "answer"
      BY <2>2, KeysGoto DEF KeysInv
    <3>3. QED
      BY <1>1, <3>1, <3>2 DEF KeyIsMeant, Meant
  <2>3. QED
    BY <1>2, <2>1, <2>2
<1>5. ASSUME NEW q \in Procs \ {p} PROVE KeyIsMeant(q)'
  BY <1>1, <1>3 DEF KeysInv, KeyIsMeant, Meant
<1>6. QED
  BY <1>1, <1>3, <1>4, <1>5 DEF KeysInv

\* Steps of a command that may change keys, or none.
LEMMA CommandKeys ==
  ASSUME NEW p \in Procs, KeysInv,
         \/ Acc!ReadRows(p) \/ Acc!Answer(p) \/ Acc!Put(p) \/ Acc!ReadBack(p)
         \/ Acc!Revoke(p) \/ Acc!CreateKey(p) \/ Acc!Fails(p)
  PROVE  KeysInv'
<1>1. UNCHANGED <<want, key>>
  BY DEF Acc!ReadRows, Acc!Answer, Acc!Put, Acc!ReadBack, Acc!Revoke, Acc!CreateKey, Acc!Fails
<1>2. KeysMove
  <2>1. CASE Acc!CreateKey(p)
    BY <2>1, NewKeyMoves DEF Acc!CreateKey
  <2>2. CASE Acc!Revoke(p)
    BY <2>2 DEF Acc!Revoke, Acc!historyVars, KeysMove
  <2>3. CASE Acc!ReadRows(p) \/ Acc!Answer(p) \/ Acc!Put(p) \/ Acc!ReadBack(p) \/ Acc!Fails(p)
    <3>1. UNCHANGED <<keys, freshKeys>>
      BY <2>3 DEF Acc!ReadRows, Acc!Answer, Acc!Put, Acc!ReadBack, Acc!Fails, Acc!platformVars, Acc!historyVars
    <3>2. QED
      BY <3>1 DEF KeysMove
  <2>4. QED
    BY <2>1, <2>2, <2>3
<1>3. (\E how : Acc!Finish(p, how)) \/ (\E phase : Acc!Goto(p, phase))
  BY DEF Acc!ReadRows, Acc!Answer, Acc!Put, Acc!ReadBack, Acc!Revoke, Acc!CreateKey, Acc!Fails
<1>4. /\ DOMAIN accessPc' = Procs /\ DOMAIN accessOutcome' = Procs
      /\ \A q \in Procs \ {p} : accessPc'[q] = accessPc[q]
  BY <1>3, KeysGoto, KeysFinish
<1>5. ASSUME NEW q \in Procs \ {p} PROVE KeyIsMeant(q)'
  BY <1>1, <1>2, <1>4, KeysMoved
<1>6. KeyIsMeant(p)'
  <2>1. CASE Acc!Answer(p)
    <3>1. \/ accessPc'[p] \in {"done", "put"}
          \/ accessPc[p] = "answer" /\ want[p].kind # "set" /\ accessPc'[p] = "revoke"
      BY <2>1, KeysGoto, KeysFinish DEF Acc!Answer
    <3>2. QED
      BY <1>1, <1>2, <3>1, KeysMoved DEF KeyIsMeant
  <2>2. CASE Acc!ReadRows(p)
    <3>1. accessPc'[p] = "done" \/ (accessPc'[p] = "answer" /\ want[p].kind = "set")
      <4>1. accessPc[p] = "read" /\ want[p].kind = "set"
        BY <2>2 DEF Acc!ReadRows, KeysInv, KeyIsMeant
      <4>2. (\E how : Acc!Finish(p, how)) \/ Acc!Goto(p, "answer")
        BY <2>2 DEF Acc!ReadRows
      <4>3. QED
        BY <4>1, <4>2, KeysGoto, KeysFinish
    <3>2. QED
      BY <1>1, <3>1 DEF KeyIsMeant
  <2>3. CASE Acc!Put(p) \/ Acc!ReadBack(p) \/ Acc!Revoke(p) \/ Acc!CreateKey(p) \/ Acc!Fails(p)
    <3>1. accessPc'[p] \in {"done", "check"}
      BY <2>3, KeysGoto, KeysFinish DEF Acc!Put, Acc!ReadBack, Acc!Revoke, Acc!CreateKey, Acc!Fails
    <3>2. QED
      BY <3>1 DEF KeyIsMeant
  <2>4. QED
    BY <2>1, <2>2, <2>3
<1>7. QED
  BY <1>1, <1>2, <1>4, <1>5, <1>6, FiniteKeys DEF KeysInv

LEMMA KeysStep == ASSUME KeysInv, [Acc!Next]_(Acc!vars) PROVE KeysInv'
<1>1. CASE Acc!Show \/ Acc!Console \/ UNCHANGED Acc!vars
  <2>1. UNCHANGED <<accessPc, accessOutcome, want, key>>
    BY <1>1 DEF Acc!Show, Acc!Console, Acc!vars, Acc!commandVars
  <2>2. KeysMove
    <3>1. CASE Acc!Show \/ UNCHANGED Acc!vars
      BY <3>1 DEF Acc!Show, Acc!vars, Acc!platformVars, Acc!historyVars, KeysMove
    <3>2. CASE Acc!Console
      <4>1. CASE UNCHANGED <<keys, freshKeys>>
        BY <4>1 DEF KeysMove
      <4>2. CASE Acc!NewKey("ci")
        BY <4>2, NewKeyMoves
      <4>3. CASE \E k \in keys : keys' = keys \ {k} /\ UNCHANGED freshKeys
        BY <4>3 DEF KeysMove
      <4>4. QED
        BY <3>2, <4>1, <4>2, <4>3 DEF Acc!Console
    <3>3. QED
      BY <1>1, <3>1, <3>2
  <2>3. \A q \in Procs : KeyIsMeant(q)'
    BY <2>1, <2>2, KeysMoved
  <2>4. QED
    BY <2>1, <2>2, <2>3, FiniteKeys DEF KeysInv
<1>2. QED
  BY <1>1, CommandKeys, ListKeysMeant DEF Acc!Next

LEMMA KeysStart == ASSUME Acc!Init PROVE KeysInv
<1>1. IsFiniteSet(keys)
  <2>1. made \in 0..2
    BY DEF Acc!Init
  <2>2. PICK name : keys = {[id |-> Acc!KeyId(n), name |-> name[n]] : n \in 1..made}
    BY DEF Acc!Init
  <2> DEFINE k(n) == [id |-> Acc!KeyId(n), name |-> name[n]]
  <2>3. 1..made \subseteq {1, 2}
    BY <2>1
  <2>4. keys \subseteq {k(1)} \cup {k(2)}
    BY <2>2, <2>3
  <2>5. IsFiniteSet({k(1)} \cup {k(2)})
    BY FS_Singleton, FS_AddElement
  <2>6. QED
    BY <2>4, <2>5, FS_Subset
<1>2. /\ DOMAIN accessPc = Procs /\ DOMAIN accessOutcome = Procs /\ DOMAIN key = Procs /\ DOMAIN freshKeys = Procs
      /\ \A p \in Procs : /\ accessPc[p] \in {"read", "create", "list"}
                          /\ accessPc[p] = "list" => want[p].kind # "set"
                          /\ accessPc[p] = "read" => want[p].kind = "set"
  BY DEF Acc!Init
<1>3. QED
  BY <1>1, <1>2 DEF KeysInv, KeyIsMeant

-----------------------------------------------------------------------------
(* Tickets and their files.                                                *)

Comments == [from : Procs, files : SUBSET Nat]
TicketRecords ==
  [from : Procs \cup {Tic!Nobody}, open : BOOLEAN, files : SUBSET Nat, comments : SUBSET Comments,
   stars : {0} \cup UNION {{a.stars : a \in Asks[p]} : p \in Procs}]
UploadRecords == [file : Files, content : Nat, to : Nat]

\* Files that a ticket or a comment has were uploaded.
Uploaded(n) == tickets[n].files \subseteq 1..Len(uploads)
               /\ \A c \in tickets[n].comments : c.files \subseteq 1..Len(uploads)

TicketShaped ==
  /\ tickets \in Seq(TicketRecords) /\ tickets # <<>> /\ uploads \in Seq(UploadRecords) /\ disk \in [Files -> Nat]
  /\ \A n \in 1..Len(tickets) : Uploaded(n)
  /\ DOMAIN ticketPc = Procs /\ DOMAIN ticketOutcome = Procs /\ DOMAIN mute = Procs
  /\ sent \in [Procs -> Seq(Nat)] /\ id \in [Procs -> Nat]
  /\ \A p \in Procs : ask[p] \in Asks[p]

\* What a command has uploaded are the files it was given, in their order, those
\* of a new ticket each under an id; a ticket or a comment is sent after all of
\* them.
SentInOrder(p) ==
  /\ Len(sent[p]) <= Len(ask[p].files)
  /\ \A i \in 1..Len(sent[p]) :
       /\ sent[p][i] # 0 => sent[p][i] \in 1..Len(uploads) /\ uploads[sent[p][i]].file = ask[p].files[i]
       /\ ask[p].kind = "create" => sent[p][i] # 0
  /\ ticketPc[p] \in {"check", "lookup", "answer", "look", "close", "rate", "download"} => sent[p] = <<>>
  /\ ticketPc[p] = "upload" => Len(sent[p]) < Len(ask[p].files)
  /\ ticketPc[p] \in {"post", "attach"} => Len(sent[p]) = Len(ask[p].files)

\* A new ticket's command knows it once it is filed, the others know theirs.
KnowsItsTicket(p) ==
  /\ ask[p].kind # "create" => id[p] \in 1..Len(tickets) /\ ticketPc[p] \notin {"lookup", "stat", "attach"}
  /\ ask[p].kind = "create" /\ id[p] # 0 => id[p] \in 1..Len(tickets) /\ tickets[id[p]].from = p
  /\ ask[p].kind = "create" /\ ticketPc[p] \notin {"attach", "done"} => id[p] = 0
  /\ ticketPc[p] = "attach" => id[p] # 0
  /\ ask[p].kind = "create" => ticketPc[p] \notin {"look", "close", "rate", "download"}

\* Nothing is of a command that has sent nothing, or says that it failed.
NothingOf(p) ==
  \A n \in 1..Len(tickets) : tickets[n].from # p /\ \A c \in tickets[n].comments : c.from # p
LeftNothing(p) ==
  /\ ticketPc[p] \notin {"attach", "done"} => NothingOf(p)
  /\ ticketPc[p] # "done" => ticketOutcome[p] = "running"
  /\ ticketOutcome[p] = "failed" /\ ~mute[p] => NothingOf(p)

\* What is reported has its files.
HasItsFiles(p) ==
  /\ ticketOutcome[p] = "created" => /\ ask[p].kind = "create" /\ id[p] # 0
                                     /\ Tic!FilesOf(tickets[id[p]].files) = Tic!Range(ask[p].files)
  /\ ticketOutcome[p] = "replied" =>
       /\ ask[p].kind # "create" /\ Len(sent[p]) = Len(ask[p].files)
       /\ \E c \in tickets[id[p]].comments : c.from = p /\ Tic!FilesOf(c.files) = Tic!Named(p)

TicketOf(p) == SentInOrder(p) /\ KnowsItsTicket(p) /\ LeftNothing(p) /\ HasItsFiles(p)
TicketInv == TicketShaped /\ \A p \in Procs : TicketOf(p)

-----------------------------------------------------------------------------
\* A step that is not a command's: what it keeps of the tickets and its own state.
Grows ==
  /\ Len(uploads) <= Len(uploads') /\ \A n \in 1..Len(uploads) : uploads'[n] = uploads[n]
  /\ Len(tickets) <= Len(tickets')
KeepsFor(p) ==
  /\ \A n \in 1..Len(tickets) :
       /\ tickets'[n].from = tickets[n].from /\ (tickets[n].from = p => tickets'[n].files = tickets[n].files)
       /\ tickets[n].comments \subseteq tickets'[n].comments
       /\ \A c \in tickets'[n].comments \ tickets[n].comments : c.from # p
  /\ \A n \in 1..Len(tickets') \ 1..Len(tickets) :
       tickets'[n].from # p /\ \A c \in tickets'[n].comments : c.from # p
Still(p) ==
  /\ ticketPc'[p] = ticketPc[p] /\ ticketOutcome'[p] = ticketOutcome[p] /\ sent'[p] = sent[p] /\ id'[p] = id[p]
  /\ mute'[p] = mute[p]

LEMMA FilesKept ==
  ASSUME TicketShaped, Grows, NEW ns, ns \subseteq 1..Len(uploads)
  PROVE  Tic!FilesOf(ns)' = Tic!FilesOf(ns)
<1>1. Tic!FilesOf(ns)' = {uploads'[n].file : n \in ns}
  BY DEF Tic!FilesOf
<1>2. \A n \in ns : uploads'[n].file = uploads[n].file
  BY DEF Grows
<1>3. QED
  BY <1>1, <1>2 DEF Tic!FilesOf

LEMMA NothingKept == ASSUME NEW p \in Procs, TicketShaped, NothingOf(p), KeepsFor(p) PROVE NothingOf(p)'
BY DEF NothingOf, KeepsFor

\* What is so of a command stays so while others act.
LEMMA OthersTicket ==
  ASSUME NEW p \in Procs, TicketShaped, TicketOf(p), ask' = ask, Still(p), Grows, KeepsFor(p)
  PROVE  TicketOf(p)'
<1> USE DEF TicketOf
<1>2. SentInOrder(p)'
  BY DEF SentInOrder, Still, Grows, TicketShaped
<1>3. KnowsItsTicket(p)'
  BY DEF KnowsItsTicket, Still, Grows, KeepsFor, TicketShaped
<1>4. LeftNothing(p)'
  BY NothingKept DEF LeftNothing, Still
<1>5. HasItsFiles(p)'
  <2>1. CASE ticketOutcome[p] = "created"
    <3>1. ask[p].kind = "create" /\ id[p] # 0 /\ id[p] \in 1..Len(tickets) /\ tickets[id[p]].from = p
      BY <2>1 DEF HasItsFiles, KnowsItsTicket
    <3>2. tickets'[id[p]].files = tickets[id[p]].files /\ tickets[id[p]].files \subseteq 1..Len(uploads)
      BY <3>1 DEF KeepsFor, TicketShaped, Uploaded
    <3>3. Tic!FilesOf(tickets[id[p]].files)' = Tic!FilesOf(tickets[id[p]].files)
      <4>1. \A ns \in SUBSET (1..Len(uploads)) : {uploads'[n].file : n \in ns} = {uploads[n].file : n \in ns}
        BY DEF Grows
      <4>2. QED
        BY <3>2, <4>1 DEF Tic!FilesOf, Still
    <3>4. QED
      BY <2>1, <3>1, <3>3 DEF HasItsFiles, Still
  <2>2. CASE ticketOutcome[p] = "replied"
    <3>1. PICK c \in tickets[id[p]].comments : c.from = p /\ Tic!FilesOf(c.files) = Tic!Named(p)
      BY <2>2 DEF HasItsFiles
    <3>2. ask[p].kind # "create" /\ id[p] \in 1..Len(tickets)
      BY <2>2 DEF HasItsFiles, KnowsItsTicket
    <3>3. c \in tickets'[id[p]].comments /\ c.files \subseteq 1..Len(uploads)
      BY <3>1, <3>2 DEF KeepsFor, TicketShaped, Uploaded
    <3>4. Tic!FilesOf(c.files)' = Tic!FilesOf(c.files)
      BY <3>3, FilesKept
    <3>5. Tic!Named(p)' = Tic!Named(p)
      BY DEF Tic!Named, Tic!Unnamed, Still
    <3>6. QED
      BY <2>2, <3>1, <3>2, <3>3, <3>4, <3>5 DEF HasItsFiles, Still
  <2>3. QED
    BY <2>1, <2>2 DEF HasItsFiles, Still
<1>6. QED
  BY <1>2, <1>3, <1>4, <1>5

LEMMA TicketGoto ==
  ASSUME NEW p \in Procs, NEW phase, TicketShaped, Tic!Goto(p, phase)
  PROVE  /\ ticketPc'[p] = phase /\ ticketOutcome' = ticketOutcome /\ DOMAIN ticketPc' = Procs
         /\ \A q \in Procs \ {p} : ticketPc'[q] = ticketPc[q]
BY DEF Tic!Goto, TicketShaped

LEMMA TicketFinish ==
  ASSUME NEW p \in Procs, NEW how, TicketShaped, Tic!Finish(p, how)
  PROVE  /\ ticketPc'[p] = "done" /\ ticketOutcome'[p] = how
         /\ DOMAIN ticketPc' = Procs /\ DOMAIN ticketOutcome' = Procs
         /\ \A q \in Procs \ {p} : ticketPc'[q] = ticketPc[q] /\ ticketOutcome'[q] = ticketOutcome[q]
BY DEF Tic!Finish, TicketShaped

\* A step of a command that is past what it wrote: it stops, or says less.
LEMMA Quiet ==
  ASSUME NEW p \in Procs, TicketShaped, TicketOf(p), UNCHANGED <<tickets, uploads, ask, sent, id, mute>>,
         disk' \in [Files -> Nat], DOMAIN ticketPc' = Procs, DOMAIN ticketOutcome' = Procs,
         ticketPc[p] \notin {"attach", "done"},
         \/ ticketPc'[p] = "done" /\ ticketOutcome'[p] \in {"failed", "aborted", "already", "saved"}
         \/ /\ ticketOutcome'[p] = ticketOutcome[p] /\ ticketPc'[p] \notin {"done", "attach", "stat"}
            /\ ticketPc'[p] = "lookup" => ask[p].kind = "create"
            /\ ticketPc'[p] \in {"look", "close", "rate", "download"} => ask[p].kind # "create"
            /\ ticketPc'[p] \notin {"upload", "post"} => sent[p] = <<>>
            /\ ticketPc'[p] = "upload" => Len(sent[p]) < Len(ask[p].files)
            /\ ticketPc'[p] = "post" => Len(sent[p]) = Len(ask[p].files)
  PROVE  TicketShaped' /\ TicketOf(p)'
<1> USE DEF TicketOf
<1>1. TicketShaped'
  BY DEF TicketShaped, Uploaded
<1>2. SentInOrder(p)'
  BY DEF SentInOrder
<1>3. KnowsItsTicket(p)'
  BY DEF KnowsItsTicket
<1>4. LeftNothing(p)'
  BY DEF LeftNothing, NothingOf
<1>5. HasItsFiles(p)'
  BY DEF HasItsFiles, LeftNothing
<1>6. QED
  BY <1>1, <1>2, <1>3, <1>4, <1>5

LEMMA QuietSteps ==
  ASSUME NEW p \in Procs, TicketInv,
         \/ Tic!Check(p) \/ Tic!LookUp(p) \/ Tic!Answer(p) \/ Tic!Stat(p) \/ Tic!Look(p)
         \/ Tic!Download(p) \/ Tic!Fails(p)
  PROVE  TicketInv'
<1>1. TicketShaped /\ TicketOf(p) /\ ask[p] \in Asks[p]
  BY DEF TicketInv, TicketShaped
<1>2. UNCHANGED <<tickets, uploads, ask, sent, id, mute>> /\ ticketPc[p] \notin {"attach", "done"}
  BY DEF Tic!Check, Tic!LookUp, Tic!Answer, Tic!Stat, Tic!Look, Tic!Download, Tic!Fails, Tic!platformVars
<1>3. disk' \in [Files -> Nat]
  <2>1. CASE Tic!Download(p)
    <3>1. id[p] \in 1..Len(tickets)
      BY <1>1, <2>1 DEF Tic!Download, TicketOf, KnowsItsTicket
    <3>2. PICK n \in tickets[id[p]].files \cup UNION {c.files : c \in tickets[id[p]].comments} :
            disk' = [disk EXCEPT ![uploads[n].file] = uploads[n].content]
      BY <2>1 DEF Tic!Download
    <3>3. n \in 1..Len(uploads)
      BY <1>1, <3>1, <3>2 DEF TicketShaped, Uploaded
    <3>4. uploads[n].content \in Nat
      <4>1. uploads[n] \in UploadRecords
        BY <1>1, <3>3 DEF TicketShaped
      <4>2. QED
        BY ONLY <4>1 DEF UploadRecords
    <3>5. QED
      BY <1>1, <3>2, <3>4 DEF TicketShaped
  <2>2. CASE disk' = disk
    BY <1>1, <2>2 DEF TicketShaped
  <2>3. QED
    BY <2>1, <2>2 DEF Tic!Check, Tic!LookUp, Tic!Answer, Tic!Stat, Tic!Look, Tic!Fails, Tic!diskVars
<1>4. Len(ask[p].files) \in Nat /\ Len(<<>>) = 0
  BY <1>1, TicketsAssumption
<1>5. \/ \E how \in {"failed", "aborted", "already", "saved"} : Tic!Finish(p, how)
      \/ \E phase : /\ Tic!Goto(p, phase)
                    /\ phase \notin {"done", "attach", "stat"}
                    /\ phase = "lookup" => ask[p].kind = "create"
                    /\ phase \in {"look", "close", "rate", "download"} => ask[p].kind # "create"
                    /\ phase \notin {"upload", "post"} => sent[p] = <<>>
                    /\ phase = "upload" => Len(sent[p]) < Len(ask[p].files)
                    /\ phase = "post" => Len(sent[p]) = Len(ask[p].files)
  <2>1. CASE Tic!Check(p)
    <3>1. sent[p] = <<>>
      BY <1>1, <2>1 DEF Tic!Check, TicketOf, SentInOrder
    <3>2. QED
      BY <1>1, <1>4, <2>1, <3>1, TicketsAssumption DEF Tic!Check, Tic!AfterCheck, Tic!NextPhase
  <2>2. CASE Tic!LookUp(p) \/ Tic!Look(p)
    BY <1>1, <2>2 DEF Tic!LookUp, Tic!Look, TicketOf, SentInOrder
  <2>3. CASE Tic!Answer(p)
    <3>1. sent[p] = <<>>
      BY <1>1, <2>3 DEF Tic!Answer, TicketOf, SentInOrder
    <3>2. QED
      BY <1>4, <2>3, <3>1 DEF Tic!Answer, Tic!NextPhase
  <2>4. CASE Tic!Stat(p)
    <3>1. id[p] = 0 /\ Len(sent[p]) <= Len(ask[p].files) /\ Len(sent[p]) \in Nat
      BY <1>1, <2>4 DEF Tic!Stat, TicketOf, KnowsItsTicket, SentInOrder, TicketShaped
    <3>2. QED
      BY <1>4, <2>4, <3>1 DEF Tic!Stat, Tic!NextPhase
  <2>5. CASE Tic!Download(p) \/ Tic!Fails(p)
    BY <2>5 DEF Tic!Download, Tic!Fails
  <2>6. QED
    BY <2>1, <2>2, <2>3, <2>4, <2>5
<1>6. /\ DOMAIN ticketPc' = Procs /\ DOMAIN ticketOutcome' = Procs
      /\ \A q \in Procs \ {p} : ticketPc'[q] = ticketPc[q] /\ ticketOutcome'[q] = ticketOutcome[q]
  BY <1>1, <1>5, TicketGoto, TicketFinish DEF TicketShaped
<1>7. TicketShaped' /\ TicketOf(p)'
  BY <1>1, <1>2, <1>3, <1>5, <1>6, TicketGoto, TicketFinish, Quiet
<1>8. ASSUME NEW q \in Procs \ {p} PROVE TicketOf(q)'
  <2>1. Still(q) /\ Grows /\ KeepsFor(q)
    BY <1>1, <1>2, <1>6 DEF Still, Grows, KeepsFor, TicketShaped
  <2>2. QED
    BY <1>1, <1>2, <2>1, OthersTicket DEF TicketInv
<1>9. QED
  BY <1>7, <1>8 DEF TicketInv

-----------------------------------------------------------------------------
\* A ticket that is written over: what else there is, and what becomes of it.
LEMMA TicketWritten ==
  ASSUME TicketShaped, NEW n \in 1..Len(tickets), NEW t \in TicketRecords,
         t.files \subseteq 1..Len(uploads), \A c \in t.comments : c.files \subseteq 1..Len(uploads),
         tickets' = [tickets EXCEPT ![n] = t], uploads' = uploads
  PROVE  /\ tickets' \in Seq(TicketRecords) /\ tickets' # <<>> /\ Len(tickets') = Len(tickets)
         /\ \A m \in 1..Len(tickets') : Uploaded(m)'
         /\ tickets'[n] = t /\ \A m \in 1..Len(tickets) : m # n => tickets'[m] = tickets[m]
<1>1. /\ tickets' \in Seq(TicketRecords) /\ tickets' # <<>> /\ Len(tickets') = Len(tickets)
      /\ tickets'[n] = t /\ \A m \in 1..Len(tickets) : m # n => tickets'[m] = tickets[m]
  BY DEF TicketShaped
<1>2. \A m \in 1..Len(tickets') : Uploaded(m)'
  BY <1>1 DEF TicketShaped, Uploaded
<1>3. QED
  BY <1>1, <1>2

\* What a reply can name of what it uploaded.
LEMMA NamedSent ==
  ASSUME NEW p \in Procs, TicketShaped, TicketOf(p), ticketPc[p] = "post"
  PROVE  /\ Tic!Range(sent[p]) \ {0} \subseteq 1..Len(uploads)
         /\ Tic!FilesOf(Tic!Range(sent[p]) \ {0}) = Tic!Named(p)
         /\ Len(sent[p]) = Len(ask[p].files)
<1>1. DOMAIN sent[p] = 1..Len(sent[p]) /\ Len(sent[p]) = Len(ask[p].files)
  BY DEF TicketShaped, TicketOf, SentInOrder
<1> DEFINE J == {j \in 1..Len(sent[p]) : sent[p][j] # 0}
<1>2. \A j \in J : sent[p][j] \in 1..Len(uploads) /\ uploads[sent[p][j]].file = ask[p].files[j]
  BY DEF TicketOf, SentInOrder
<1>3. Tic!Range(sent[p]) \ {0} = {sent[p][j] : j \in J}
  BY <1>1 DEF Tic!Range
<1>4. Tic!Named(p) = {ask[p].files[j] : j \in J}
  BY <1>1 DEF Tic!Named, Tic!Unnamed
<1>5. Tic!FilesOf(Tic!Range(sent[p]) \ {0}) = {uploads[sent[p][j]].file : j \in J}
  BY <1>3 DEF Tic!FilesOf
<1>6. {uploads[sent[p][j]].file : j \in J} = {ask[p].files[j] : j \in J}
  BY ONLY <1>2
<1>7. Tic!Range(sent[p]) \ {0} \subseteq 1..Len(uploads)
  BY ONLY <1>2, <1>3
<1>8. QED
  BY ONLY <1>1, <1>4, <1>5, <1>6, <1>7

\* What the command of a ticket uploaded are its files, once all are.
LEMMA AllSent ==
  ASSUME NEW p \in Procs, TicketShaped, TicketOf(p), ticketPc[p] \in {"post", "attach"}, ask[p].kind = "create"
  PROVE  Tic!Range(sent[p]) \subseteq 1..Len(uploads) /\ Tic!FilesOf(Tic!Range(sent[p])) = Tic!Range(ask[p].files)
<1>1. ask[p].files \in Seq(Files) /\ sent[p] \in Seq(Nat)
  BY TicketsAssumption DEF TicketShaped
<1>2. Len(sent[p]) = Len(ask[p].files)
      /\ \A i \in 1..Len(sent[p]) : sent[p][i] \in 1..Len(uploads) /\ uploads[sent[p][i]].file = ask[p].files[i]
  BY DEF TicketOf, SentInOrder
<1>3. /\ Tic!Range(sent[p]) = {sent[p][i] : i \in 1..Len(sent[p])}
      /\ Tic!Range(ask[p].files) = {ask[p].files[i] : i \in 1..Len(sent[p])}
  BY <1>1, <1>2 DEF Tic!Range
<1>4. Tic!FilesOf(Tic!Range(sent[p])) = {uploads[sent[p][i]].file : i \in 1..Len(sent[p])}
  BY <1>3 DEF Tic!FilesOf
<1>5. {uploads[sent[p][i]].file : i \in 1..Len(sent[p])} = {ask[p].files[i] : i \in 1..Len(sent[p])}
  BY ONLY <1>2
<1>6. Tic!Range(sent[p]) \subseteq 1..Len(uploads)
  BY <1>2, <1>3
<1>7. QED
  BY ONLY <1>3, <1>4, <1>5, <1>6

\* A command that ends, and is not said to have left anything.
LEMMA Ends ==
  ASSUME NEW p \in Procs, TicketShaped, TicketOf(p), UNCHANGED <<uploads, ask, sent, id, mute>>, KeepsFor(p),
         Len(tickets) <= Len(tickets'), ticketPc[p] \notin {"attach", "done"},
         ticketPc'[p] = "done", ticketOutcome'[p] \in {"failed", "closed", "rated"}
  PROVE  TicketOf(p)'
<1> USE DEF TicketOf
<1>1. SentInOrder(p)'
  BY DEF SentInOrder
<1>2. KnowsItsTicket(p)'
  BY DEF KnowsItsTicket, KeepsFor, TicketShaped
<1>3. LeftNothing(p)'
  BY NothingKept DEF LeftNothing
<1>4. HasItsFiles(p)'
  BY DEF HasItsFiles
<1>5. QED
  BY <1>1, <1>2, <1>3, <1>4

LEMMA CloseAndRate ==
  ASSUME NEW p \in Procs, TicketInv, Tic!Close(p) \/ Tic!Rate(p)
  PROVE  TicketInv'
<1>1. TicketShaped /\ TicketOf(p) /\ ask[p] \in Asks[p]
  BY DEF TicketInv, TicketShaped
<1>2. UNCHANGED <<uploads, disk, ask, sent, id, mute>> /\ ticketPc[p] \in {"close", "rate"}
  BY DEF Tic!Close, Tic!Rate, Tic!diskVars
<1>3. \E how \in {"closed", "rated", "failed"} : Tic!Finish(p, how)
  BY DEF Tic!Close, Tic!Rate
<1>4. id[p] \in 1..Len(tickets)
  BY <1>1, <1>2 DEF TicketOf, KnowsItsTicket
<1>5. tickets[id[p]] \in TicketRecords
  BY <1>1, <1>4 DEF TicketShaped
<1>6. PICK t \in TicketRecords :
        /\ tickets' = [tickets EXCEPT ![id[p]] = t]
        /\ t.from = tickets[id[p]].from /\ t.files = tickets[id[p]].files /\ t.comments = tickets[id[p]].comments
  <2>1. CASE Tic!Close(p)
    <3>1. [tickets[id[p]] EXCEPT !.open = FALSE] \in TicketRecords
      BY <1>5 DEF TicketRecords
    <3>2. QED
      BY <1>5, <2>1, <3>1 DEF Tic!Close, TicketRecords
  <2>2. CASE Tic!Rate(p)
    <3>1. [tickets[id[p]] EXCEPT !.stars = ask[p].stars] \in TicketRecords
      BY <1>1, <1>5 DEF TicketRecords
    <3>2. QED
      BY <1>5, <2>2, <3>1 DEF Tic!Rate, TicketRecords
  <2>3. QED
    BY <2>1, <2>2
<1>7. /\ tickets' \in Seq(TicketRecords) /\ tickets' # <<>> /\ Len(tickets') = Len(tickets)
      /\ \A m \in 1..Len(tickets') : Uploaded(m)'
      /\ tickets'[id[p]] = t /\ \A m \in 1..Len(tickets) : m # id[p] => tickets'[m] = tickets[m]
  BY <1>1, <1>2, <1>4, <1>6, TicketWritten DEF TicketShaped, Uploaded
<1>8. /\ DOMAIN ticketPc' = Procs /\ DOMAIN ticketOutcome' = Procs
      /\ ticketPc'[p] = "done" /\ ticketOutcome'[p] \in {"closed", "rated", "failed"}
      /\ \A q \in Procs \ {p} : ticketPc'[q] = ticketPc[q] /\ ticketOutcome'[q] = ticketOutcome[q]
  BY <1>1, <1>3, TicketFinish
<1>9. TicketShaped'
  BY <1>1, <1>2, <1>7, <1>8 DEF TicketShaped
<1>10. \A q \in Procs : KeepsFor(q)
  BY <1>1, <1>6, <1>7 DEF KeepsFor, TicketShaped
<1>11. Grows
  BY <1>1, <1>2, <1>7 DEF Grows, TicketShaped
<1>12. ASSUME NEW q \in Procs PROVE TicketOf(q)'
  <2>1. CASE q = p
    BY <1>1, <1>2, <1>8, <1>10, <1>11, <2>1, Ends DEF Grows
  <2>2. CASE q # p
    <3>1. Still(q)
      BY <1>2, <1>8, <2>2 DEF Still
    <3>2. QED
      BY <1>1, <1>2, <1>10, <1>11, <3>1, OthersTicket DEF TicketInv
  <2>3. QED
    BY <2>1, <2>2
<1>13. QED
  BY <1>9, <1>12 DEF TicketInv

LEMMA AttachStep ==
  ASSUME NEW p \in Procs, TicketInv, Tic!Attach(p)
  PROVE  TicketInv'
<1>1. TicketShaped /\ TicketOf(p) /\ ask[p] \in Asks[p]
  BY DEF TicketInv, TicketShaped
<1>2. UNCHANGED <<uploads, disk, ask, sent, id, mute>> /\ ticketPc[p] = "attach"
  BY DEF Tic!Attach, Tic!diskVars
<1>3. \/ /\ tickets' = [tickets EXCEPT ![id[p]].files = Tic!Range(sent[p])]
         /\ \E how \in {"created", "unattached"} : Tic!Finish(p, how)
      \/ tickets' = tickets /\ \E how \in {"unattached"} : Tic!Finish(p, how)
  BY DEF Tic!Attach, Tic!Unattached
<1>4. id[p] \in 1..Len(tickets) /\ ask[p].kind = "create" /\ tickets[id[p]].from = p /\ id[p] # 0
  BY <1>1, <1>2 DEF TicketOf, KnowsItsTicket
<1>5. tickets[id[p]] \in TicketRecords
  BY <1>1, <1>4 DEF TicketShaped
<1>6. Tic!Range(sent[p]) \subseteq 1..Len(uploads) /\ Tic!FilesOf(Tic!Range(sent[p])) = Tic!Range(ask[p].files)
  BY <1>1, <1>2, <1>4, AllSent
<1>7. PICK t \in TicketRecords :
        /\ tickets' = [tickets EXCEPT ![id[p]] = t]
        /\ t.from = p /\ t.comments = tickets[id[p]].comments
        /\ t.files \subseteq 1..Len(uploads)
        /\ t.files = Tic!Range(sent[p]) \/ ticketOutcome'[p] = "unattached"
  <2>1. CASE tickets' = [tickets EXCEPT ![id[p]].files = Tic!Range(sent[p])]
    <3>1. [tickets[id[p]] EXCEPT !.files = Tic!Range(sent[p])] \in TicketRecords
      BY <1>5, <1>6 DEF TicketRecords
    <3>2. QED
      BY <1>4, <1>5, <1>6, <2>1, <3>1 DEF TicketRecords
  <2>2. CASE tickets' = tickets /\ ticketOutcome'[p] = "unattached"
    <3>1. tickets' = [tickets EXCEPT ![id[p]] = tickets[id[p]]]
      BY <1>1, <1>4, <2>2 DEF TicketShaped
    <3>2. tickets[id[p]].files \subseteq 1..Len(uploads)
      BY <1>1, <1>4 DEF TicketShaped, Uploaded
    <3>3. QED
      BY <1>4, <1>5, <2>2, <3>1, <3>2
  <2>3. QED
    BY <1>1, <1>3, <2>1, <2>2, TicketFinish
<1>8. /\ tickets' \in Seq(TicketRecords) /\ tickets' # <<>> /\ Len(tickets') = Len(tickets)
      /\ \A m \in 1..Len(tickets') : Uploaded(m)'
      /\ tickets'[id[p]] = t /\ \A m \in 1..Len(tickets) : m # id[p] => tickets'[m] = tickets[m]
  <2>1. \A c \in t.comments : c.files \subseteq 1..Len(uploads)
    BY <1>1, <1>4, <1>7 DEF TicketShaped, Uploaded
  <2>2. QED
    BY <1>1, <1>2, <1>4, <1>7, <2>1, TicketWritten
<1>9. /\ DOMAIN ticketPc' = Procs /\ DOMAIN ticketOutcome' = Procs
      /\ ticketPc'[p] = "done" /\ ticketOutcome'[p] \in {"created", "unattached"}
      /\ \A q \in Procs \ {p} : ticketPc'[q] = ticketPc[q] /\ ticketOutcome'[q] = ticketOutcome[q]
  BY <1>1, <1>3, TicketFinish
<1>10. TicketShaped'
  BY <1>1, <1>2, <1>8, <1>9 DEF TicketShaped
<1>11. \A q \in Procs \ {p} : KeepsFor(q)
  BY <1>1, <1>4, <1>7, <1>8 DEF KeepsFor, TicketShaped
<1>12. Grows
  BY <1>1, <1>2, <1>8 DEF Grows, TicketShaped
<1>13. TicketOf(p)'
  <2>1. SentInOrder(p)'
    BY <1>1, <1>2, <1>9 DEF TicketOf, SentInOrder
  <2>2. KnowsItsTicket(p)'
    BY <1>2, <1>4, <1>7, <1>8, <1>9 DEF KnowsItsTicket
  <2>3. LeftNothing(p)'
    BY <1>9 DEF LeftNothing
  <2>4. HasItsFiles(p)'
    <3>1. CASE ticketOutcome'[p] = "created"
      <4>1. tickets'[id[p]].files = Tic!Range(sent[p])
        BY <1>7, <1>8, <3>1
      <4>2. Tic!FilesOf(tickets[id[p]].files)' = Tic!FilesOf(Tic!Range(sent[p]))
        BY <1>2, <4>1 DEF Tic!FilesOf
      <4>3. QED
        BY <1>2, <1>4, <1>6, <3>1, <4>2 DEF HasItsFiles
    <3>2. CASE ticketOutcome'[p] = "unattached"
      BY <3>2 DEF HasItsFiles
    <3>3. QED
      BY <1>9, <3>1, <3>2
  <2>5. QED
    BY <2>1, <2>2, <2>3, <2>4 DEF TicketOf
<1>14. ASSUME NEW q \in Procs \ {p} PROVE TicketOf(q)'
  <2>1. Still(q)
    BY <1>2, <1>9 DEF Still
  <2>2. QED
    BY <1>1, <1>2, <1>11, <1>12, <2>1, OthersTicket DEF TicketInv
<1>15. QED
  BY <1>10, <1>13, <1>14 DEF TicketInv

LEMMA CommentStep ==
  ASSUME NEW p \in Procs, TicketInv, Tic!Comment(p)
  PROVE  TicketInv'
<1>1. TicketShaped /\ TicketOf(p) /\ ask[p] \in Asks[p]
  BY DEF TicketInv, TicketShaped
<1>2. UNCHANGED <<uploads, disk, ask, sent, id>> /\ ticketPc[p] = "post" /\ ask[p].kind = "reply"
  BY DEF Tic!Comment, Tic!diskVars
<1> DEFINE c == [from |-> p, files |-> Tic!Range(sent[p]) \ {0}]
           n == id[p]
<1>3. /\ tickets' = tickets \/ tickets' = [tickets EXCEPT ![n].comments = @ \cup {c}]
      /\ \/ tickets' = [tickets EXCEPT ![n].comments = @ \cup {c}] /\ mute' = mute /\ Tic!Finish(p, "replied")
         \/ mute' = [mute EXCEPT ![p] = TRUE] /\ Tic!Finish(p, "failed")
         \/ tickets' = tickets /\ mute' = mute /\ Tic!Finish(p, "failed")
  BY DEF Tic!Comment, Tic!Unnamed
<1>4. n \in 1..Len(tickets)
  BY <1>1, <1>2 DEF TicketOf, KnowsItsTicket
<1>5. tickets[n] \in TicketRecords
  BY <1>1, <1>4 DEF TicketShaped
<1>6. /\ Tic!Range(sent[p]) \ {0} \subseteq 1..Len(uploads)
      /\ Tic!FilesOf(Tic!Range(sent[p]) \ {0}) = Tic!Named(p) /\ Len(sent[p]) = Len(ask[p].files)
  BY <1>1, <1>2, NamedSent
<1>7. /\ tickets[n].files \subseteq 1..Len(uploads)
      /\ \A d \in tickets[n].comments \cup {c} : d.files \subseteq 1..Len(uploads)
  BY <1>1, <1>4, <1>6 DEF TicketShaped, Uploaded
<1>8. PICK t \in TicketRecords :
        /\ tickets' = [tickets EXCEPT ![n] = t]
        /\ t.from = tickets[n].from /\ t.files = tickets[n].files
        /\ tickets[n].comments \subseteq t.comments /\ t.comments \subseteq tickets[n].comments \cup {c}
        /\ tickets' = [tickets EXCEPT ![n].comments = @ \cup {c}] => c \in t.comments
  <2>1. CASE tickets' = [tickets EXCEPT ![n].comments = @ \cup {c}]
    <3>1. c \in Comments
      BY <1>6 DEF Comments
    <3>2. [tickets[n] EXCEPT !.comments = @ \cup {c}] \in TicketRecords
      BY <1>5, <3>1 DEF TicketRecords
    <3>3. QED
      BY <1>5, <2>1, <3>2 DEF TicketRecords
  <2>2. CASE tickets' = tickets /\ tickets' # [tickets EXCEPT ![n].comments = @ \cup {c}]
    <3>1. tickets' = [tickets EXCEPT ![n] = tickets[n]]
      BY <1>1, <1>4, <2>2 DEF TicketShaped
    <3>2. QED
      BY <1>5, <2>2, <3>1
  <2>3. QED
    BY <1>3, <2>1, <2>2
<1>9. /\ tickets' \in Seq(TicketRecords) /\ tickets' # <<>> /\ Len(tickets') = Len(tickets)
      /\ \A m \in 1..Len(tickets') : Uploaded(m)'
      /\ tickets'[n] = t /\ \A m \in 1..Len(tickets) : m # n => tickets'[m] = tickets[m]
  <2>1. t.files \subseteq 1..Len(uploads) /\ \A d \in t.comments : d.files \subseteq 1..Len(uploads)
    BY <1>7, <1>8
  <2>2. QED
    BY <1>1, <1>2, <1>4, <1>8, <2>1, TicketWritten
<1>10. /\ DOMAIN ticketPc' = Procs /\ DOMAIN ticketOutcome' = Procs /\ DOMAIN mute' = Procs
       /\ ticketPc'[p] = "done" /\ ticketOutcome'[p] \in {"replied", "failed"}
       /\ \A q \in Procs \ {p} : /\ ticketPc'[q] = ticketPc[q] /\ ticketOutcome'[q] = ticketOutcome[q]
                                 /\ mute'[q] = mute[q]
  BY <1>1, <1>3, TicketFinish DEF TicketShaped
<1>11. TicketShaped'
  BY <1>1, <1>2, <1>9, <1>10 DEF TicketShaped
<1>12. \A q \in Procs \ {p} : KeepsFor(q)
  BY <1>1, <1>4, <1>8, <1>9 DEF KeepsFor, TicketShaped
<1>13. Grows
  BY <1>1, <1>2, <1>9 DEF Grows, TicketShaped
<1>14. TicketOf(p)'
  <2>1. SentInOrder(p)'
    BY <1>1, <1>2, <1>10 DEF TicketOf, SentInOrder
  <2>2. KnowsItsTicket(p)'
    BY <1>1, <1>2, <1>9, <1>10 DEF TicketOf, KnowsItsTicket
  <2>3. LeftNothing(p)'
    <3>1. CASE ticketOutcome'[p] = "failed" /\ ~mute'[p]
      <4>1. tickets' = tickets
        <5>1. ~ Tic!Finish(p, "replied")
          BY <1>1, <3>1, TicketFinish
        <5>2. p \in DOMAIN mute
          BY <1>1 DEF TicketShaped
        <5>3. mute' # [mute EXCEPT ![p] = TRUE]
          BY ONLY <3>1, <5>2
        <5>4. QED
          BY <1>3, <5>1, <5>3
      <4>2. NothingOf(p)
        BY <1>1, <1>2 DEF TicketOf, LeftNothing
      <4>3. QED
        BY <1>10, <4>1, <4>2 DEF LeftNothing, NothingOf
    <3>2. QED
      BY <1>10, <3>1 DEF LeftNothing
  <2>4. HasItsFiles(p)'
    <3>1. CASE ticketOutcome'[p] = "replied"
      <4>1. c \in t.comments
        BY <1>1, <1>3, <1>8, <3>1, TicketFinish
      <4>2. c \in tickets'[n].comments /\ c.from = p /\ c.files = Tic!Range(sent[p]) \ {0}
        BY <1>9, <4>1
      <4>3. Tic!FilesOf(c.files)' = Tic!Named(p)
        BY <1>2, <1>6, <4>2 DEF Tic!FilesOf
      <4>4. Tic!Named(p)' = Tic!Named(p)
        BY <1>2 DEF Tic!Named, Tic!Unnamed
      <4>5. QED
        BY <1>2, <1>6, <3>1, <4>2, <4>3, <4>4 DEF HasItsFiles
    <3>2. CASE ticketOutcome'[p] = "failed"
      BY <3>2 DEF HasItsFiles
    <3>3. QED
      BY <1>10, <3>1, <3>2
  <2>5. QED
    BY <2>1, <2>2, <2>3, <2>4 DEF TicketOf
<1>15. ASSUME NEW q \in Procs \ {p} PROVE TicketOf(q)'
  <2>1. Still(q)
    BY <1>2, <1>10 DEF Still
  <2>2. QED
    BY <1>1, <1>2, <1>12, <1>13, <2>1, OthersTicket DEF TicketInv
<1>16. QED
  BY <1>11, <1>14, <1>15 DEF TicketInv

LEMMA PostStep ==
  ASSUME NEW p \in Procs, TicketInv, Tic!Post(p)
  PROVE  TicketInv'
<1>1. TicketShaped /\ TicketOf(p) /\ ask[p].files \in Seq(Files)
  BY TicketsAssumption DEF TicketInv, TicketShaped
<1>2. /\ UNCHANGED <<uploads, disk, ask, sent>> /\ ticketPc[p] = "post" /\ ask[p].kind = "create"
      /\ tickets' = Append(tickets, Tic!Ticket(p))
  BY DEF Tic!Post, Tic!diskVars
<1>3. \/ /\ id' = [id EXCEPT ![p] = Len(tickets')] /\ mute' = mute
         /\ \/ ask[p].files = <<>> /\ Tic!Finish(p, "created")
            \/ ask[p].files # <<>> /\ Tic!Goto(p, Tic!NextPhase(p, sent[p], TRUE))
      \/ Tic!Finish(p, "failed") /\ mute' = [mute EXCEPT ![p] = TRUE] /\ id' = id
  BY DEF Tic!Post
<1>4. Tic!NextPhase(p, sent[p], TRUE) = "attach" /\ Len(sent[p]) = Len(ask[p].files)
  BY <1>1, <1>2 DEF TicketOf, SentInOrder, TicketShaped, Tic!NextPhase
<1>5. /\ DOMAIN ticketPc' = Procs /\ DOMAIN ticketOutcome' = Procs
      /\ \/ ticketPc'[p] = "done" /\ ticketOutcome'[p] \in {"created", "failed"}
         \/ ticketPc'[p] = "attach" /\ ticketOutcome'[p] = ticketOutcome[p]
      /\ \A q \in Procs \ {p} : ticketPc'[q] = ticketPc[q] /\ ticketOutcome'[q] = ticketOutcome[q]
  <2>1. CASE \E how \in {"created", "failed"} : Tic!Finish(p, how)
    BY <1>1, <2>1, TicketFinish
  <2>2. CASE Tic!Goto(p, "attach")
    BY <1>1, <2>2, TicketGoto DEF TicketShaped
  <2>3. QED
    BY <1>3, <1>4, <2>1, <2>2
<1>6. /\ DOMAIN mute' = Procs /\ id' \in [Procs -> Nat]
      /\ \A q \in Procs \ {p} : mute'[q] = mute[q] /\ id'[q] = id[q]
  <2>1. tickets \in Seq(TicketRecords) /\ Len(tickets') = Len(tickets) + 1 /\ Len(tickets') \in Nat
    BY <1>1, <1>2 DEF TicketShaped
  <2>2. QED
    BY <1>1, <1>3, <2>1 DEF TicketShaped
<1>7. Tic!Ticket(p) \in TicketRecords
  BY DEF Tic!Ticket, TicketRecords
<1>8. /\ Tic!Ticket(p).from = p /\ Tic!Ticket(p).files = {} /\ Tic!Ticket(p).comments = {}
  BY DEF Tic!Ticket
<1>9. /\ tickets' \in Seq(TicketRecords) /\ tickets' # <<>> /\ Len(tickets') = Len(tickets) + 1
      /\ tickets'[Len(tickets')] = Tic!Ticket(p)
      /\ \A m \in 1..Len(tickets) : tickets'[m] = tickets[m]
      /\ Len(tickets) \in Nat
  <2>1. tickets \in Seq(TicketRecords) /\ tickets # <<>>
    BY <1>1 DEF TicketShaped
  <2>2. QED
    BY ONLY <2>1, <1>2, <1>7
<1>10. \A m \in 1..Len(tickets') : Uploaded(m)'
  <2>1. ASSUME NEW m \in 1..Len(tickets') PROVE Uploaded(m)'
    <3>1. CASE m \in 1..Len(tickets)
      BY <1>1, <1>2, <1>9, <3>1 DEF TicketShaped, Uploaded
    <3>2. CASE m = Len(tickets')
      BY <1>8, <1>9, <3>2 DEF Uploaded
    <3>3. QED
      BY <1>9, <3>1, <3>2
  <2>2. QED
    BY <2>1
<1>11. TicketShaped'
  BY <1>1, <1>2, <1>5, <1>6, <1>9, <1>10 DEF TicketShaped
<1>12. Grows
  BY <1>1, <1>2, <1>9 DEF Grows, TicketShaped
<1>13. ASSUME NEW q \in Procs \ {p} PROVE KeepsFor(q)
  <2>1. \A m \in 1..Len(tickets') \ 1..Len(tickets) : tickets'[m] = Tic!Ticket(p)
    BY <1>9
  <2>2. QED
    BY <1>8, <1>9, <2>1 DEF KeepsFor
<1>14. TicketOf(p)'
  <2>1. SentInOrder(p)'
    BY <1>1, <1>2, <1>4, <1>5 DEF TicketOf, SentInOrder
  <2>2. KnowsItsTicket(p)'
    <3>1. CASE id'[p] = Len(tickets')
      BY <1>2, <1>5, <1>8, <1>9, <3>1 DEF KnowsItsTicket
    <3>2. CASE id' = id /\ ticketPc'[p] = "done"
      BY <1>1, <1>2, <1>9, <3>2 DEF TicketOf, KnowsItsTicket
    <3>3. QED
      BY <1>1, <1>3, <3>1, <3>2, TicketFinish DEF TicketShaped
  <2>3. LeftNothing(p)'
    <3>1. CASE ticketOutcome'[p] = "failed" /\ ~mute'[p]
      <4>1. p \in DOMAIN mute
        BY <1>1 DEF TicketShaped
      <4>2. mute' # [mute EXCEPT ![p] = TRUE]
        BY ONLY <3>1, <4>1
      <4>3. ticketOutcome[p] = "running"
        BY <1>1, <1>2 DEF TicketOf, LeftNothing
      <4>4. ~ Tic!Finish(p, "created") /\ ~ Tic!Goto(p, "attach")
        BY <1>1, <3>1, <4>3, TicketFinish, TicketGoto
      <4>5. QED
        BY <1>3, <1>4, <4>2, <4>4
    <3>2. CASE ticketPc'[p] = "attach"
      BY <1>1, <1>2, <1>5, <3>1, <3>2 DEF TicketOf, LeftNothing
    <3>3. QED
      BY <1>5, <3>1, <3>2 DEF LeftNothing
  <2>4. HasItsFiles(p)'
    <3>1. CASE ticketOutcome'[p] = "created"
      <4>1. ticketOutcome[p] = "running"
        BY <1>1, <1>2 DEF TicketOf, LeftNothing
      <4>2. ask[p].files = <<>> /\ id'[p] = Len(tickets')
        <5>1. ~ Tic!Finish(p, "failed") /\ ~ Tic!Goto(p, "attach")
          BY <1>1, <3>1, <4>1, TicketFinish, TicketGoto
        <5>2. ask[p].files = <<>> /\ id' = [id EXCEPT ![p] = Len(tickets')]
          BY <1>3, <1>4, <5>1
        <5>3. QED
          BY <1>1, <5>2 DEF TicketShaped
      <4>3. tickets'[id'[p]].files = {} /\ id'[p] # 0
        BY <1>8, <1>9, <4>2
      <4>4. Tic!FilesOf(tickets[id[p]].files)' = {} /\ Tic!Range(ask[p].files) = {}
        BY <4>2, <4>3 DEF Tic!FilesOf, Tic!Range
      <4>5. QED
        BY <1>2, <3>1, <4>3, <4>4 DEF HasItsFiles
    <3>2. CASE ticketOutcome'[p] \in {"failed", "running"}
      BY <3>2 DEF HasItsFiles
    <3>3. QED
      BY <1>1, <1>2, <1>5, <3>1, <3>2 DEF TicketOf, LeftNothing
  <2>5. QED
    BY <2>1, <2>2, <2>3, <2>4 DEF TicketOf
<1>15. ASSUME NEW q \in Procs \ {p} PROVE TicketOf(q)'
  <2>1. Still(q)
    BY <1>2, <1>5, <1>6 DEF Still
  <2>2. QED
    BY <1>1, <1>2, <1>12, <1>13, <2>1, OthersTicket DEF TicketInv
<1>16. QED
  BY <1>11, <1>14, <1>15 DEF TicketInv

LEMMA UploadStep ==
  ASSUME NEW p \in Procs, TicketInv, Tic!Upload(p)
  PROVE  TicketInv'
<1>1. TicketShaped /\ TicketOf(p) /\ ask[p].files \in Seq(Files)
  BY TicketsAssumption DEF TicketInv, TicketShaped
<1>2. UNCHANGED <<tickets, disk, ask, id, mute>> /\ ticketPc[p] = "upload"
  BY DEF Tic!Upload, Tic!diskVars
<1>3. /\ Len(sent[p]) \in Nat /\ sent[p] \in Seq(Nat) /\ Len(sent[p]) < Len(ask[p].files)
      /\ uploads \in Seq(UploadRecords) /\ Len(uploads) \in Nat
  BY <1>1, <1>2 DEF TicketOf, SentInOrder, TicketShaped
<1>4. ticketOutcome[p] = "running" /\ NothingOf(p)
  BY <1>1, <1>2 DEF TicketOf, LeftNothing
<1>5. CASE UNCHANGED <<uploads, sent>> /\ Tic!Finish(p, "failed")
  <2>1. /\ DOMAIN ticketPc' = Procs /\ DOMAIN ticketOutcome' = Procs
        /\ ticketPc'[p] = "done" /\ ticketOutcome'[p] = "failed"
        /\ \A q \in Procs \ {p} : ticketPc'[q] = ticketPc[q] /\ ticketOutcome'[q] = ticketOutcome[q]
    BY <1>1, <1>5, TicketFinish
  <2>2. disk' \in [Files -> Nat]
    BY <1>1, <1>2 DEF TicketShaped
  <2>3. TicketShaped' /\ TicketOf(p)'
    BY <1>1, <1>2, <1>5, <2>1, <2>2, Quiet
  <2>4. ASSUME NEW q \in Procs \ {p} PROVE TicketOf(q)'
    <3>1. Still(q) /\ Grows /\ KeepsFor(q)
      BY <1>1, <1>2, <1>5, <2>1 DEF Still, Grows, KeepsFor, TicketShaped
    <3>2. QED
      BY <1>1, <1>2, <3>1, OthersTicket DEF TicketInv
  <2>5. QED
    BY <2>3, <2>4 DEF TicketInv
<1>6. CASE ~ (UNCHANGED <<uploads, sent>> /\ Tic!Finish(p, "failed"))
  <2> DEFINE f == ask[p].files[Len(sent[p]) + 1]
             u == [file |-> f, content |-> disk[f], to |-> IF ask[p].kind = "reply" THEN id[p] ELSE 0]
  <2>1. /\ uploads' = Append(uploads, u)
        /\ \E n \in {0, Len(uploads')} :
             sent' = [sent EXCEPT ![p] = Append(@, n)] /\ (n = 0 => ask[p].kind # "create")
        /\ \/ ask[p].kind = "create" /\ Tic!Goto(p, "stat")
           \/ ask[p].kind # "create" /\ Tic!Goto(p, Tic!NextPhase(p, sent'[p], FALSE))
           \/ Tic!Finish(p, "failed")
    <3>1. uploads' = Append(uploads, u) => Len(uploads') # 0
      BY <1>3
    <3>2. QED
      BY <1>6, <3>1 DEF Tic!Upload, Tic!Unnamed
  <2>2. f \in Files
    BY <1>1, <1>3
  <2>3. id[p] \in Nat /\ disk[f] \in Nat
    BY <1>1, <2>2 DEF TicketShaped
  <2>4. u \in UploadRecords
    BY <2>2, <2>3 DEF UploadRecords
  <2> HIDE DEF u
  <2>5. /\ uploads' \in Seq(UploadRecords) /\ Len(uploads') = Len(uploads) + 1
        /\ uploads'[Len(uploads')] = u /\ \A n \in 1..Len(uploads) : uploads'[n] = uploads[n]
    BY <1>3, <2>1, <2>4
  <2>6. u.file = f
    BY DEF u
  <2> HIDE DEF f
  <2>7. /\ sent' \in [Procs -> Seq(Nat)] /\ Len(sent'[p]) = Len(sent[p]) + 1
        /\ \/ sent'[p][Len(sent[p]) + 1] = Len(uploads')
           \/ sent'[p][Len(sent[p]) + 1] = 0 /\ ask[p].kind # "create"
        /\ \A i \in 1..Len(sent[p]) : sent'[p][i] = sent[p][i]
        /\ \A q \in Procs \ {p} : sent'[q] = sent[q]
    <3>1. sent \in [Procs -> Seq(Nat)] /\ Len(uploads') \in Nat
      BY <1>1, <1>3, <2>5 DEF TicketShaped
    <3>2. PICK n \in {0, Len(uploads')} :
            sent' = [sent EXCEPT ![p] = Append(@, n)] /\ (n = 0 => ask[p].kind # "create")
      BY <2>1
    <3>3. sent'[p] = Append(sent[p], n) /\ sent' \in [Procs -> Seq(Nat)]
      BY <1>3, <3>1, <3>2
    <3>4. QED
      BY <1>3, <3>1, <3>2, <3>3
  <2>8. \/ ask[p].kind = "create" /\ Tic!Goto(p, "stat")
        \/ ask[p].kind # "create" /\ Len(sent'[p]) < Len(ask[p].files) /\ Tic!Goto(p, "upload")
        \/ ask[p].kind # "create" /\ Len(sent'[p]) = Len(ask[p].files) /\ Tic!Goto(p, "post")
        \/ Tic!Finish(p, "failed")
    <3>1. Len(ask[p].files) \in Nat /\ Len(sent'[p]) <= Len(ask[p].files) /\ Len(sent'[p]) \in Nat
      BY <1>1, <1>3, <2>7
    <3>2. \/ Len(sent'[p]) < Len(ask[p].files) /\ Tic!NextPhase(p, sent'[p], FALSE) = "upload"
          \/ Len(sent'[p]) = Len(ask[p].files) /\ Tic!NextPhase(p, sent'[p], FALSE) = "post"
      BY <3>1 DEF Tic!NextPhase
    <3>3. QED
      BY <2>1, <3>2
  <2>9. /\ DOMAIN ticketPc' = Procs /\ DOMAIN ticketOutcome' = Procs
        /\ \/ ticketPc'[p] = "stat" /\ ticketOutcome'[p] = "running" /\ ask[p].kind = "create"
           \/ /\ ticketPc'[p] = "upload" /\ ticketOutcome'[p] = "running" /\ ask[p].kind # "create"
              /\ Len(sent'[p]) < Len(ask[p].files)
           \/ /\ ticketPc'[p] = "post" /\ ticketOutcome'[p] = "running" /\ ask[p].kind # "create"
              /\ Len(sent'[p]) = Len(ask[p].files)
           \/ ticketPc'[p] = "done" /\ ticketOutcome'[p] = "failed"
        /\ \A q \in Procs \ {p} : ticketPc'[q] = ticketPc[q] /\ ticketOutcome'[q] = ticketOutcome[q]
    <3>1. CASE Tic!Finish(p, "failed")
      BY <1>1, <3>1, TicketFinish
    <3>2. CASE ~ Tic!Finish(p, "failed")
      <4>1. PICK phase \in {"stat", "upload", "post"} :
              /\ Tic!Goto(p, phase)
              /\ phase = "stat" => ask[p].kind = "create"
              /\ phase = "upload" => ask[p].kind # "create" /\ Len(sent'[p]) < Len(ask[p].files)
              /\ phase = "post" => ask[p].kind # "create" /\ Len(sent'[p]) = Len(ask[p].files)
        BY <2>8, <3>2
      <4>2. QED
        BY <1>1, <1>4, <4>1, TicketGoto DEF TicketShaped
    <3>3. QED
      BY <3>1, <3>2
  <2>10. \A n \in 1..Len(tickets) : Uploaded(n)'
    BY <1>1, <1>2, <1>3, <2>5 DEF TicketShaped, Uploaded
  <2>11. TicketShaped'
    BY <1>1, <1>2, <2>5, <2>7, <2>9, <2>10 DEF TicketShaped
  <2>12. SentInOrder(p)'
    <3>1. Len(sent'[p]) <= Len(ask[p].files) /\ Len(ask[p].files) \in Nat
      BY <1>1, <1>3, <2>7
    <3>2. ASSUME NEW i \in 1..Len(sent'[p])
          PROVE  /\ sent'[p][i] # 0 =>
                      sent'[p][i] \in 1..Len(uploads') /\ uploads'[sent'[p][i]].file = ask[p].files[i]
                 /\ ask[p].kind = "create" => sent'[p][i] # 0
      <4>1. CASE i \in 1..Len(sent[p])
        <5>1. sent'[p][i] = sent[p][i] /\ (ask[p].kind = "create" => sent[p][i] # 0)
          BY <1>1, <2>7, <4>1 DEF TicketOf, SentInOrder
        <5>2. ASSUME sent[p][i] # 0
              PROVE  sent[p][i] \in 1..Len(uploads') /\ uploads'[sent[p][i]].file = ask[p].files[i]
          <6>1. sent[p][i] \in 1..Len(uploads) /\ uploads[sent[p][i]].file = ask[p].files[i]
            BY <1>1, <4>1, <5>2 DEF TicketOf, SentInOrder
          <6>2. uploads'[sent[p][i]].file = uploads[sent[p][i]].file
            BY <2>5, <6>1
          <6>3. sent[p][i] \in 1..Len(uploads')
            BY <1>3, <2>5, <6>1
          <6>4. QED
            BY <6>1, <6>2, <6>3
        <5>3. QED
          BY <5>1, <5>2
      <4>2. CASE i = Len(sent[p]) + 1
        BY <1>3, <2>5, <2>6, <2>7, <4>2 DEF f
      <4>3. QED
        BY <1>3, <2>7, <4>1, <4>2
    <3>3. QED
      BY <1>2, <2>9, <3>1, <3>2 DEF SentInOrder
  <2>13. KnowsItsTicket(p)'
    BY <1>1, <1>2, <2>9 DEF TicketOf, KnowsItsTicket
  <2>14. LeftNothing(p)' /\ HasItsFiles(p)'
    BY <1>2, <1>4, <2>9 DEF LeftNothing, NothingOf, HasItsFiles
  <2>15. ASSUME NEW q \in Procs \ {p} PROVE TicketOf(q)'
    <3>1. Still(q) /\ Grows /\ KeepsFor(q)
      BY <1>1, <1>2, <1>3, <2>5, <2>7, <2>9 DEF Still, Grows, KeepsFor, TicketShaped
    <3>2. QED
      BY <1>1, <1>2, <3>1, OthersTicket DEF TicketInv
  <2>16. QED
    BY <2>11, <2>12, <2>13, <2>14, <2>15 DEF TicketInv, TicketOf
<1>7. QED
  BY <1>5, <1>6

\* The disk changes, and support works on a ticket.
LEMMA Outside ==
  ASSUME TicketInv, Tic!Edit \/ Tic!Support
  PROVE  TicketInv'
<1>1. TicketShaped
  BY DEF TicketInv
<1>2. UNCHANGED <<uploads, ask, sent, id, mute, ticketPc, ticketOutcome>>
  BY DEF Tic!Edit, Tic!Support, Tic!commandVars, Tic!platformVars
<1>3. disk' \in [Files -> Nat]
  BY <1>1 DEF Tic!Edit, Tic!Support, Tic!diskVars, TicketShaped
<1>4. /\ tickets' \in Seq(TicketRecords) /\ tickets' # <<>> /\ Len(tickets') = Len(tickets)
      /\ \A m \in 1..Len(tickets') : Uploaded(m)'
      /\ \A m \in 1..Len(tickets) : /\ tickets'[m].from = tickets[m].from /\ tickets'[m].files = tickets[m].files
                                    /\ tickets'[m].comments = tickets[m].comments
  <2>1. CASE Tic!Edit
    BY <1>1, <1>2, <2>1 DEF Tic!Edit, Tic!platformVars, TicketShaped, Uploaded
  <2>2. CASE Tic!Support
    <3>1. PICK n \in DOMAIN tickets : tickets' = [tickets EXCEPT ![n].open = ~@]
      BY <2>2 DEF Tic!Support
    <3>2. n \in 1..Len(tickets) /\ tickets[n] \in TicketRecords
      BY <1>1, <3>1 DEF TicketShaped
    <3>3. [tickets[n] EXCEPT !.open = ~@] \in TicketRecords
      BY <3>2 DEF TicketRecords
    <3>4. PICK t \in TicketRecords :
            /\ tickets' = [tickets EXCEPT ![n] = t]
            /\ t.from = tickets[n].from /\ t.files = tickets[n].files /\ t.comments = tickets[n].comments
      BY <3>1, <3>2, <3>3 DEF TicketRecords
    <3>5. t.files \subseteq 1..Len(uploads) /\ \A c \in t.comments : c.files \subseteq 1..Len(uploads)
      BY <1>1, <3>2, <3>4 DEF TicketShaped, Uploaded
    <3>6. /\ tickets' \in Seq(TicketRecords) /\ tickets' # <<>> /\ Len(tickets') = Len(tickets)
          /\ \A m \in 1..Len(tickets') : Uploaded(m)'
          /\ tickets'[n] = t /\ \A m \in 1..Len(tickets) : m # n => tickets'[m] = tickets[m]
      BY <1>1, <1>2, <3>2, <3>4, <3>5, TicketWritten
    <3>7. QED
      BY <3>4, <3>6
  <2>3. QED
    BY <2>1, <2>2
<1>5. TicketShaped'
  BY <1>1, <1>2, <1>3, <1>4 DEF TicketShaped
<1>6. ASSUME NEW q \in Procs PROVE TicketOf(q)'
  <2>1. Still(q) /\ Grows /\ KeepsFor(q)
    BY <1>1, <1>2, <1>4 DEF Still, Grows, KeepsFor, TicketShaped
  <2>2. QED
    BY <1>1, <1>2, <2>1, OthersTicket DEF TicketInv
<1>7. QED
  BY <1>5, <1>6 DEF TicketInv

LEMMA TicketStep ==
  ASSUME TicketInv, [Tic!Next]_(Tic!vars)
  PROVE  TicketInv'
<1>1. CASE Tic!Next
  <2>1. CASE \E p \in Procs :
               \/ Tic!Check(p) \/ Tic!LookUp(p) \/ Tic!Answer(p) \/ Tic!Stat(p) \/ Tic!Look(p)
               \/ Tic!Download(p) \/ Tic!Fails(p)
    BY <2>1, QuietSteps
  <2>2. CASE \E p \in Procs : Tic!Close(p) \/ Tic!Rate(p)
    BY <2>2, CloseAndRate
  <2>3. CASE \E p \in Procs : Tic!Upload(p)
    BY <2>3, UploadStep
  <2>4. CASE \E p \in Procs : Tic!Post(p)
    BY <2>4, PostStep
  <2>5. CASE \E p \in Procs : Tic!Attach(p)
    BY <2>5, AttachStep
  <2>6. CASE \E p \in Procs : Tic!Comment(p)
    BY <2>6, CommentStep
  <2>7. CASE Tic!Edit \/ Tic!Support
    BY <2>7, Outside
  <2>8. QED
    BY <1>1, <2>1, <2>2, <2>3, <2>4, <2>5, <2>6, <2>7 DEF Tic!Next
<1>2. CASE UNCHANGED Tic!vars
  <2>1. UNCHANGED <<tickets, uploads, disk, ask, sent, id, mute, ticketPc, ticketOutcome>>
    BY <1>2 DEF Tic!vars, Tic!platformVars, Tic!diskVars, Tic!commandVars
  <2>2. TicketShaped /\ TicketShaped'
    BY <2>1 DEF TicketInv, TicketShaped, Uploaded
  <2>3. ASSUME NEW q \in Procs PROVE TicketOf(q)'
    <3>1. Still(q) /\ Grows /\ KeepsFor(q)
      BY <2>1, <2>2 DEF Still, Grows, KeepsFor, TicketShaped
    <3>2. QED
      BY <2>1, <2>2, <3>1, OthersTicket DEF TicketInv
  <2>4. QED
    BY <2>2, <2>3 DEF TicketInv
<1>3. QED
  BY <1>1, <1>2

LEMMA TicketStart == Tic!Init => TicketInv
<1> SUFFICES ASSUME Tic!Init PROVE TicketInv
  OBVIOUS
<1>1. /\ tickets = <<Tic!Ticket(Tic!Nobody)>> /\ uploads = <<>> /\ disk \in [Files -> {0, 1}]
      /\ \A p \in Procs : ask[p] \in Asks[p]
      /\ ticketPc = [p \in Procs |-> "check"] /\ sent = [p \in Procs |-> <<>>]
      /\ id = [p \in Procs |-> IF ask[p].kind = "create" THEN 0 ELSE ask[p].ticket]
      /\ ticketOutcome = [p \in Procs |-> "running"] /\ mute = [p \in Procs |-> FALSE]
  BY DEF Tic!Init
<1>2. \A p \in Procs : /\ ask[p].kind # "create" => ask[p].ticket = 1
                       /\ ask[p].files \in Seq(Files)
  BY <1>1, TicketsAssumption
<1>3. Tic!Ticket(Tic!Nobody) \in TicketRecords
  BY DEF Tic!Ticket, TicketRecords
<1>4. /\ tickets \in Seq(TicketRecords) /\ tickets # <<>> /\ Len(tickets) = 1
      /\ tickets[1] = Tic!Ticket(Tic!Nobody)
  BY ONLY <1>1, <1>3
<1>5. /\ tickets[1].from = Tic!Nobody /\ tickets[1].files = {} /\ tickets[1].comments = {}
  BY <1>4 DEF Tic!Ticket
<1>6. TicketShaped
  <2>1. id \in [Procs -> Nat] /\ sent \in [Procs -> Seq(Nat)]
    BY <1>1, <1>2
  <2>2. disk \in [Files -> Nat] /\ uploads \in Seq(UploadRecords)
    BY <1>1
  <2>3. \A n \in 1..Len(tickets) : Uploaded(n)
    BY <1>4, <1>5 DEF Uploaded
  <2>4. QED
    BY <1>1, <1>4, <2>1, <2>2, <2>3 DEF TicketShaped
<1>7. ASSUME NEW p \in Procs PROVE TicketOf(p)
  <2>1. SentInOrder(p)
    BY <1>1, <1>2 DEF SentInOrder
  <2>2. KnowsItsTicket(p)
    BY <1>1, <1>2, <1>4 DEF KnowsItsTicket
  <2>3. NothingOf(p)
    BY <1>4, <1>5, TicketsAssumption DEF NothingOf
  <2>4. LeftNothing(p) /\ HasItsFiles(p)
    BY <1>1, <2>3 DEF LeftNothing, HasItsFiles
  <2>5. QED
    BY <2>1, <2>2, <2>4 DEF TicketOf
<1>8. QED
  BY <1>6, <1>7 DEF TicketInv

\* The property, from the invariant.
LEMMA Filed == ASSUME TicketInv PROVE Tic!FiledWhole
<1> SUFFICES ASSUME NEW p \in Procs
             PROVE  /\ ticketOutcome[p] = "created" =>
                         Tic!FilesOf(tickets[id[p]].files) = Tic!Range(ask[p].files)
                    /\ ticketOutcome[p] = "replied" =>
                         /\ Len(sent[p]) = Len(ask[p].files)
                         /\ \E c \in tickets[id[p]].comments :
                              c.from = p /\ Tic!FilesOf(c.files) = Tic!Named(p)
                    /\ (ticketOutcome[p] = "failed" /\ ~mute[p]) =>
                         /\ \A t \in Tic!Range(tickets) : t.from # p
                         /\ \A c \in UNION {t.comments : t \in Tic!Range(tickets)} : c.from # p
  BY DEF Tic!FiledWhole
<1>1. TicketShaped /\ HasItsFiles(p) /\ LeftNothing(p)
  BY DEF TicketInv, TicketOf
<1>2. NothingOf(p) => /\ \A t \in Tic!Range(tickets) : t.from # p
                      /\ \A c \in UNION {t.comments : t \in Tic!Range(tickets)} : c.from # p
  <2>1. DOMAIN tickets = 1..Len(tickets)
    BY <1>1 DEF TicketShaped
  <2>2. QED
    BY <2>1 DEF NothingOf, Tic!Range
<1>3. QED
  BY <1>1, <1>2 DEF HasItsFiles, LeftNothing

-----------------------------------------------------------------------------
(* Tickets: types.                                                         *)

TicketPhases == {"check", "lookup", "answer", "upload", "stat", "post", "attach",
                 "look", "close", "rate", "download", "done"}
TicketOutcomes == {"running", "failed", "aborted", "created", "unattached", "replied",
                   "already", "closed", "rated", "saved"}

\* A file that was uploaded was there, and went to a ticket or to staging.
UploadsTyped == \A n \in 1..Len(uploads) : uploads[n].content \in {1, 2} /\ uploads[n].to \in 0..Len(tickets)
StarsTyped == \A n \in 1..Len(tickets) : tickets[n].stars \in 0..MaxStars

\* Stars are given that were checked.
QueryTyped(p) ==
  /\ ticketPc[p] \in TicketPhases /\ ticketOutcome[p] \in TicketOutcomes
  /\ ticketPc[p] = "rate" => ask[p].stars \in 1..MaxStars

OfQueries == ticketPc = [p \in Procs |-> ticketPc[p]] /\ ticketOutcome = [p \in Procs |-> ticketOutcome[p]]

TicketTyped ==
  /\ UploadsTyped /\ StarsTyped /\ disk \in [Files -> 0..2]
  /\ OfQueries /\ \A p \in Procs : QueryTyped(p)

LEMMA TicketTypes == ASSUME TicketInv, TicketTyped PROVE Tic!TypeOK
<1>0. tickets \in Seq(TicketRecords) /\ uploads \in Seq(UploadRecords)
  BY DEF TicketInv, TicketShaped
<1>1. ASSUME NEW t \in Tic!Range(tickets)
      PROVE  /\ t.open \in BOOLEAN /\ t.stars \in 0..MaxStars
             /\ \A fs \in {t.files} \cup {c.files : c \in t.comments} : fs \subseteq DOMAIN uploads
  <2>1. PICK n \in 1..Len(tickets) : t = tickets[n]
    BY <1>0 DEF Tic!Range
  <2>2. t \in TicketRecords /\ DOMAIN uploads = 1..Len(uploads)
    BY <1>0, <2>1
  <2>3. t.open \in BOOLEAN
    BY <2>2 DEF TicketRecords
  <2>4. Uploaded(n) /\ t.stars \in 0..MaxStars
    BY <2>1 DEF TicketInv, TicketShaped, TicketTyped, StarsTyped
  <2>5. QED
    BY <2>1, <2>2, <2>3, <2>4 DEF Uploaded
<1>2. ASSUME NEW u \in Tic!Range(uploads) PROVE u.file \in Files /\ u.content # 0 /\ u.to \in 0..Len(tickets)
  <2>1. PICK n \in 1..Len(uploads) : u = uploads[n]
    BY <1>0 DEF Tic!Range
  <2>2. u \in UploadRecords
    BY <1>0, <2>1
  <2>3. u.content \in {1, 2} /\ u.to \in 0..Len(tickets)
    BY <2>1 DEF TicketTyped, UploadsTyped
  <2>4. QED
    BY <2>2, <2>3 DEF UploadRecords
<1>3. ticketPc \in [Procs -> TicketPhases] /\ ticketOutcome \in [Procs -> TicketOutcomes]
  <2>1. \A p \in Procs : ticketPc[p] \in TicketPhases /\ ticketOutcome[p] \in TicketOutcomes
    BY DEF TicketTyped, QueryTyped
  <2>2. QED
    BY <2>1 DEF TicketTyped, OfQueries
<1>4. ASSUME NEW p \in Procs PROVE id[p] \in 0..Len(tickets) /\ Len(sent[p]) <= Len(ask[p].files)
  <2>1. TicketOf(p) /\ Len(tickets) \in Nat
    BY <1>0 DEF TicketInv
  <2>2. Len(sent[p]) <= Len(ask[p].files)
    BY <2>1 DEF TicketOf, SentInOrder
  <2>3. id[p] \in 1..Len(tickets) \/ id[p] = 0
    BY <2>1 DEF TicketOf, KnowsItsTicket
  <2>4. QED
    BY <2>1, <2>2, <2>3
<1>5. disk \in [Files -> 0..2]
  BY DEF TicketTyped
<1>6. QED
  BY <1>1, <1>2, <1>3, <1>4, <1>5 DEF Tic!TypeOK, TicketPhases, TicketOutcomes

LEMMA TicketTypedStart == ASSUME Tic!Init PROVE TicketTyped
<1>1. tickets = <<Tic!Ticket(Tic!Nobody)>> /\ uploads = <<>> /\ disk \in [Files -> {0, 1}]
      /\ ticketPc = [p \in Procs |-> "check"] /\ ticketOutcome = [p \in Procs |-> "running"]
  BY DEF Tic!Init
<1>2. StarsTyped
  <2>1. Len(tickets) = 1 /\ tickets[1].stars = 0
    BY <1>1 DEF Tic!Ticket
  <2>2. QED
    BY <2>1, TicketsAssumption DEF StarsTyped
<1>3. UploadsTyped /\ disk \in [Files -> 0..2]
  BY <1>1 DEF UploadsTyped
<1>4. OfQueries /\ \A p \in Procs : QueryTyped(p)
  BY <1>1 DEF OfQueries, QueryTyped, TicketPhases, TicketOutcomes
<1>5. QED
  BY <1>2, <1>3, <1>4 DEF TicketTyped

\* What a command has after its own step, and the others.
LEMMA QueryStep ==
  ASSUME NEW p \in Procs, TicketShaped, OfQueries, \A q \in Procs : QueryTyped(q),
         \/ Tic!Check(p) \/ Tic!LookUp(p) \/ Tic!Answer(p) \/ Tic!Upload(p) \/ Tic!Stat(p) \/ Tic!Post(p)
         \/ Tic!Attach(p) \/ Tic!Comment(p) \/ Tic!Look(p) \/ Tic!Close(p) \/ Tic!Rate(p) \/ Tic!Download(p)
         \/ Tic!Fails(p)
  PROVE  OfQueries' /\ \A q \in Procs : QueryTyped(q)'
<1>1. ask' = ask /\ ask[p] \in Asks[p]
  BY DEF Tic!Check, Tic!LookUp, Tic!Answer, Tic!Upload, Tic!Stat, Tic!Post, Tic!Attach, Tic!Comment,
         Tic!Look, Tic!Close, Tic!Rate, Tic!Download, Tic!Fails, TicketShaped
<1>2. \/ \E how \in TicketOutcomes : Tic!Finish(p, how)
      \/ \E phase \in TicketPhases \ {"rate"} : Tic!Goto(p, phase)
      \/ Tic!Goto(p, "rate") /\ ask[p].stars \in 1..MaxStars
  <2>1. CASE Tic!Check(p)
    <3>1. Tic!AfterCheck(p) \in TicketPhases
      BY <1>1, TicketsAssumption DEF Tic!AfterCheck, Tic!NextPhase, TicketPhases
    <3>2. Tic!AfterCheck(p) = "rate" /\ ~Tic!Refused(ask[p]) => ask[p].stars \in 1..MaxStars
      BY <1>1, TicketsAssumption DEF Tic!AfterCheck, Tic!NextPhase, Tic!Refused
    <3>3. QED
      BY <2>1, <3>1, <3>2 DEF Tic!Check, TicketOutcomes
  <2>2. CASE Tic!LookUp(p) \/ Tic!Answer(p) \/ Tic!Look(p) \/ Tic!Stat(p)
    BY <2>2 DEF Tic!LookUp, Tic!Answer, Tic!Look, Tic!Stat, Tic!NextPhase, TicketPhases, TicketOutcomes
  <2>3. CASE Tic!Upload(p) \/ Tic!Post(p) \/ Tic!Attach(p) \/ Tic!Comment(p)
    BY <2>3 DEF Tic!Upload, Tic!Post, Tic!Attach, Tic!Comment, Tic!Unattached, Tic!NextPhase,
                TicketPhases, TicketOutcomes
  <2>4. CASE Tic!Close(p) \/ Tic!Rate(p) \/ Tic!Download(p) \/ Tic!Fails(p)
    BY <2>4 DEF Tic!Close, Tic!Rate, Tic!Download, Tic!Fails, TicketOutcomes
  <2>5. QED
    BY <2>1, <2>2, <2>3, <2>4
<1>3. OfQueries'
  BY <1>2 DEF OfQueries, Tic!Goto, Tic!Finish
<1>4. QueryTyped(p)'
  <2>1. CASE \E how \in TicketOutcomes : Tic!Finish(p, how)
    BY <2>1, TicketFinish DEF QueryTyped, TicketPhases
  <2>2. CASE \E phase \in TicketPhases \ {"rate"} : Tic!Goto(p, phase)
    BY <2>2, TicketGoto DEF QueryTyped
  <2>3. CASE Tic!Goto(p, "rate") /\ ask[p].stars \in 1..MaxStars
    BY <1>1, <2>3, TicketGoto DEF QueryTyped, TicketPhases
  <2>4. QED
    BY <1>2, <2>1, <2>2, <2>3
<1>5. \A q \in Procs \ {p} : QueryTyped(q)'
  <2>1. \A q \in Procs \ {p} : ticketPc'[q] = ticketPc[q] /\ ticketOutcome'[q] = ticketOutcome[q]
    BY <1>2, TicketGoto, TicketFinish
  <2>2. QED
    BY <1>1, <2>1 DEF QueryTyped
<1>6. QED
  BY <1>3, <1>4, <1>5

\* The stars of a ticket, and where uploads went, when one field of it changes.
LEMMA WrittenTyped ==
  ASSUME TicketShaped, StarsTyped, UploadsTyped, NEW n \in Nat, NEW v, uploads' = uploads,
         \/ tickets' = tickets
         \/ tickets' = [tickets EXCEPT ![n].files = v] \/ tickets' = [tickets EXCEPT ![n].comments = v]
         \/ tickets' = [tickets EXCEPT ![n].open = v]
         \/ tickets' = [tickets EXCEPT ![n].stars = v] /\ v \in 0..MaxStars
  PROVE  StarsTyped' /\ UploadsTyped'
<1>1. Len(tickets') = Len(tickets)
  BY DEF TicketShaped
<1>2. UploadsTyped'
  BY <1>1 DEF UploadsTyped
<1>3. ASSUME NEW m \in 1..Len(tickets) PROVE tickets'[m].stars \in 0..MaxStars
  <2>1. tickets[m].stars \in 0..MaxStars
    BY DEF StarsTyped
  <2>2. tickets[m] \in TicketRecords /\ m \in DOMAIN tickets
    BY DEF TicketShaped
  <2>3. \/ tickets'[m] = tickets[m] \/ tickets'[m] = [tickets[m] EXCEPT !.files = v]
        \/ tickets'[m] = [tickets[m] EXCEPT !.comments = v] \/ tickets'[m] = [tickets[m] EXCEPT !.open = v]
        \/ tickets'[m] = [tickets[m] EXCEPT !.stars = v] /\ v \in 0..MaxStars
    BY <2>2 DEF TicketShaped
  <2>4. tickets'[m].stars \in {tickets[m].stars} \cup 0..MaxStars
    BY <2>2, <2>3 DEF TicketRecords
  <2>5. QED
    BY <2>1, <2>4
<1>4. QED
  BY <1>1, <1>2, <1>3 DEF StarsTyped

LEMMA PostTyped ==
  ASSUME NEW p \in Procs, TicketShaped, StarsTyped, UploadsTyped, Tic!Post(p)
  PROVE  StarsTyped' /\ UploadsTyped'
<1>1. tickets' = Append(tickets, Tic!Ticket(p)) /\ uploads' = uploads
  BY DEF Tic!Post
<1>2. /\ Len(tickets') = Len(tickets) + 1 /\ tickets'[Len(tickets) + 1] = Tic!Ticket(p) /\ Len(tickets) \in Nat
      /\ \A n \in 1..Len(tickets) : tickets'[n] = tickets[n]
  BY <1>1 DEF TicketShaped
<1>3. Tic!Ticket(p).stars = 0 /\ 0 \in 0..MaxStars
  BY TicketsAssumption DEF Tic!Ticket
<1>4. StarsTyped'
  BY <1>2, <1>3 DEF StarsTyped
<1>5. UploadsTyped'
  BY <1>1, <1>2 DEF UploadsTyped
<1>6. QED
  BY <1>4, <1>5

LEMMA UploadTyped ==
  ASSUME NEW p \in Procs, TicketShaped, TicketOf(p), UploadsTyped, disk \in [Files -> 0..2], Tic!Upload(p)
  PROVE  UploadsTyped' /\ UNCHANGED <<tickets, disk>>
<1>0. UNCHANGED <<tickets, disk>> /\ Len(tickets) \in Nat
  BY DEF Tic!Upload, Tic!diskVars, TicketShaped
<1>1. PICK f : f = ask[p].files[Len(sent[p]) + 1]
  OBVIOUS
<1>2. CASE uploads' = uploads
  BY <1>0, <1>2 DEF UploadsTyped
<1>3. CASE uploads' # uploads
  <2>1. PICK u : /\ u = [file |-> f, content |-> disk[f], to |-> IF ask[p].kind = "reply" THEN id[p] ELSE 0]
                 /\ uploads' = Append(uploads, u) /\ disk[f] # 0
    BY <1>1, <1>3 DEF Tic!Upload
  <2>2. f \in Files
    <3>0. ask[p] \in Asks[p] /\ sent[p] \in Seq(Nat) /\ ticketPc[p] = "upload"
      BY DEF TicketShaped, Tic!Upload
    <3>1. ask[p].files \in Seq(Files) /\ Len(sent[p]) < Len(ask[p].files) /\ Len(sent[p]) \in Nat
      BY <3>0, TicketsAssumption DEF TicketOf, SentInOrder
    <3>2. QED
      BY <1>1, <3>1
  <2>3. u.content \in {1, 2}
    BY <2>1, <2>2
  <2>4. u.to \in 0..Len(tickets)
    <3>1. ask[p].kind = "reply" => id[p] \in 1..Len(tickets)
      BY DEF TicketOf, KnowsItsTicket
    <3>2. QED
      BY <1>0, <2>1, <3>1
  <2>5. /\ Len(uploads') = Len(uploads) + 1 /\ uploads'[Len(uploads) + 1] = u /\ Len(uploads) \in Nat
        /\ \A n \in 1..Len(uploads) : uploads'[n] = uploads[n]
    BY <2>1 DEF TicketShaped
  <2>6. QED
    BY <1>0, <2>3, <2>4, <2>5 DEF UploadsTyped
<1>4. QED
  BY <1>0, <1>2, <1>3

LEMMA DownloadTyped ==
  ASSUME NEW p \in Procs, TicketShaped, TicketOf(p), UploadsTyped, disk \in [Files -> 0..2], Tic!Download(p)
  PROVE  disk' \in [Files -> 0..2]
<1>1. id[p] \in 1..Len(tickets)
  BY DEF Tic!Download, TicketOf, KnowsItsTicket
<1>2. PICK n \in tickets[id[p]].files \cup UNION {c.files : c \in tickets[id[p]].comments} :
        disk' = [disk EXCEPT ![uploads[n].file] = uploads[n].content]
  BY DEF Tic!Download
<1>3. n \in 1..Len(uploads)
  BY <1>1, <1>2 DEF TicketShaped, Uploaded
<1>4. uploads[n].content \in 0..2
  BY <1>3 DEF UploadsTyped
<1>5. QED
  BY <1>2, <1>4

LEMMA TicketTypedStep == ASSUME TicketInv, TicketTyped, [Tic!Next]_(Tic!vars) PROVE TicketTyped'
<1>0. /\ TicketShaped /\ UploadsTyped /\ StarsTyped /\ disk \in [Files -> 0..2] /\ OfQueries
      /\ \A q \in Procs : QueryTyped(q) /\ TicketOf(q)
  BY DEF TicketInv, TicketTyped
<1>1. ASSUME NEW p \in Procs,
         \/ Tic!Check(p) \/ Tic!LookUp(p) \/ Tic!Answer(p) \/ Tic!Upload(p) \/ Tic!Stat(p) \/ Tic!Post(p)
         \/ Tic!Attach(p) \/ Tic!Comment(p) \/ Tic!Look(p) \/ Tic!Close(p) \/ Tic!Rate(p) \/ Tic!Download(p)
         \/ Tic!Fails(p)
      PROVE  TicketTyped'
  <2>1. OfQueries' /\ \A q \in Procs : QueryTyped(q)'
    BY <1>0, <1>1, QueryStep
  <2>2. UploadsTyped' /\ StarsTyped' /\ disk' \in [Files -> 0..2]
    <3>1. CASE Tic!Upload(p)
      <4>1. UploadsTyped' /\ UNCHANGED <<tickets, disk>>
        BY <1>0, <3>1, UploadTyped
      <4>2. QED
        BY <1>0, <4>1 DEF StarsTyped
    <3>2. CASE Tic!Post(p)
      BY <1>0, <3>2, PostTyped DEF Tic!Post, Tic!diskVars
    <3>3. CASE Tic!Attach(p) \/ Tic!Comment(p) \/ Tic!Close(p) \/ Tic!Rate(p)
      <4>1. uploads' = uploads /\ disk' = disk /\ id[p] \in Nat
        BY <1>0, <3>3 DEF Tic!Attach, Tic!Comment, Tic!Close, Tic!Rate, Tic!diskVars, TicketShaped
      <4>2. Tic!Rate(p) => ask[p].stars \in 0..MaxStars
        <5>1. Tic!Rate(p) => ask[p].stars \in 1..MaxStars
          BY <1>0 DEF Tic!Rate, QueryTyped
        <5>2. QED
          BY <5>1, TicketsAssumption
      <4>3. \/ tickets' = tickets
            \/ \E v : \/ tickets' = [tickets EXCEPT ![id[p]].files = v]
                      \/ tickets' = [tickets EXCEPT ![id[p]].comments = v]
                      \/ tickets' = [tickets EXCEPT ![id[p]].open = v]
                      \/ tickets' = [tickets EXCEPT ![id[p]].stars = v] /\ v \in 0..MaxStars
        BY <3>3, <4>2 DEF Tic!Attach, Tic!Comment, Tic!Close, Tic!Rate
      <4>4. QED
        BY <1>0, <4>1, <4>3, WrittenTyped
    <3>4. CASE Tic!Download(p)
      BY <1>0, <3>4, DownloadTyped DEF Tic!Download, Tic!platformVars, UploadsTyped, StarsTyped
    <3>5. CASE Tic!Check(p) \/ Tic!LookUp(p) \/ Tic!Answer(p) \/ Tic!Stat(p) \/ Tic!Look(p) \/ Tic!Fails(p)
      <4>1. UNCHANGED <<tickets, uploads, disk>>
        BY <3>5 DEF Tic!Check, Tic!LookUp, Tic!Answer, Tic!Stat, Tic!Look, Tic!Fails, Tic!platformVars, Tic!diskVars
      <4>2. QED
        BY <1>0, <4>1 DEF UploadsTyped, StarsTyped
    <3>6. QED
      BY <1>1, <3>1, <3>2, <3>3, <3>4, <3>5
  <2>3. QED
    BY <2>1, <2>2 DEF TicketTyped
<1>2. ASSUME Tic!Edit \/ Tic!Support \/ UNCHANGED Tic!vars PROVE TicketTyped'
  <2>1. UNCHANGED <<ticketPc, ask, ticketOutcome, uploads>>
    BY <1>2 DEF Tic!Edit, Tic!Support, Tic!vars, Tic!commandVars, Tic!platformVars
  <2>2. OfQueries' /\ \A q \in Procs : QueryTyped(q)'
    BY <1>0, <2>1 DEF OfQueries, QueryTyped
  <2>3. disk' \in [Files -> 0..2]
    BY <1>0, <1>2 DEF Tic!Edit, Tic!Support, Tic!vars, Tic!diskVars
  <2>4. StarsTyped' /\ UploadsTyped'
    <3>1. tickets' = tickets \/ \E n \in Nat : \E v : tickets' = [tickets EXCEPT ![n].open = v]
      <4>1. CASE Tic!Support
        <5>1. PICK n \in DOMAIN tickets : tickets' = [tickets EXCEPT ![n].open = ~@]
          BY <4>1 DEF Tic!Support
        <5>2. tickets' = [tickets EXCEPT ![n].open = ~tickets[n].open] /\ n \in Nat
          BY <1>0, <5>1 DEF TicketShaped
        <5>3. QED
          BY <5>2
      <4>2. CASE Tic!Edit \/ UNCHANGED Tic!vars
        BY <4>2 DEF Tic!Edit, Tic!vars, Tic!platformVars
      <4>3. QED
        BY <1>2, <4>1, <4>2
    <3>2. QED
      BY <1>0, <2>1, <3>1, WrittenTyped
  <2>5. QED
    BY <2>2, <2>3, <2>4 DEF TicketTyped
<1>3. QED
  BY <1>1, <1>2 DEF Tic!Next

-----------------------------------------------------------------------------
(* Namespaces and deletions: the invariant.                                *)

\* What the command, the others and the platform keep.
ProjectShaped ==
  /\ spaces \subseteq Spaces /\ known \subseteq Spaces /\ cmd \in ProjectCommands
  /\ created \in Nat /\ IsFiniteSet(apps) /\ IsFiniteSet(got)
  /\ \A a \in apps : a.id \in 1..created /\ a.space \in {s.id : s \in spaces}
  /\ \A a, b \in apps : a.id = b.id => a = b
  /\ \A w \in workloads \cup seen \cup got : w.id \in 1..created
  /\ databases \subseteq {s.id : s \in spaces}
  /\ projectOutcome \in {"running", "done", "failed", "aborted"} /\ shifted \in BOOLEAN

\* Where a command may be.
ProjectPhase ==
  /\ projectPc \in {"spaces", "page", "databases", "answer", "write", "kubectl", "done"}
  /\ projectPc \in {"spaces", "databases"} => cmd.kind \in {"deleteSpace", "createSpace"}
  /\ projectPc = "spaces" => got = {}
  /\ projectPc = "databases" => cmd.kind = "deleteSpace"
  /\ projectPc = "page" => cmd.kind # "createSpace"
  /\ projectPc = "kubectl" => cmd.kind = "orphans"
  /\ projectPc \in {"answer", "write"} => cmd.kind # "orphans"

\* A namespace to be deleted is the tenant's.
ProjectTarget ==
  /\ cmd.kind = "deleteSpace" /\ projectPc \in {"page", "databases", "answer", "write"} =>
       target \in Spaces /\ target.tenant = Org
  /\ cmd.kind = "createSpace" /\ projectPc \in {"answer", "write"} => target \in Spaces
  /\ cmd.kind = "deleteApp" /\ projectPc \in {"answer", "write"} => target.id \in Nat \ {0}

\* The pages read so far are the first of the list as it is now, unless it shifted.
PagesRead ==
  projectPc = "page" =>
    \/ got = {} \/ shifted
    \/ /\ got \subseteq Pro!Listing
       /\ \A a \in Pro!Listing : Pro!Place(a) < Cardinality(got) => a \in got

\* An app that is in the namespace came after the list was read, and so did a
\* database; so did one of the list that `get orphans` has not read.
SawItsApps ==
  /\ cmd.kind = "deleteSpace" /\ projectPc \in {"databases", "answer", "write"} =>
       shifted \/ \A a \in Pro!Listing : a.space = target.id => <<"app", a.id>> \in fresh
  /\ projectPc = "kubectl" => shifted \/ \A a \in Pro!Listing : a \in got \/ <<"app", a.id>> \in fresh
SawItsDatabase ==
  cmd.kind = "deleteSpace" /\ projectPc \in {"answer", "write"} =>
    (target.id \in databases => <<"database", target.id>> \in fresh)

ProjectInv == ProjectShaped /\ ProjectPhase /\ ProjectTarget /\ PagesRead /\ SawItsApps /\ SawItsDatabase

-----------------------------------------------------------------------------
(* Deletions: pages of a list by offset.                                   *)

\* A list in the order of its records' ids, and the place of a record in it.
Listed(L) == IsFiniteSet(L) /\ (\A a \in L : a.id \in Nat) /\ \A a, b \in L : a.id = b.id => a = b
PlaceIn(L, a) == Cardinality({b \in L : b.id < a.id})
PageIn(L, n, k) == {a \in L : PlaceIn(L, a) \in n..(n + k - 1)}

LEMMA ProCardinality == \A S : Pro!Cardinality(S) = Cardinality(S)
BY DEF Pro!Cardinality, Cardinality

\* A place is less than the length of the list, and no two records have one place.
LEMMA PlaceType ==
  ASSUME NEW L, Listed(L), NEW a \in L
  PROVE  PlaceIn(L, a) \in Nat /\ PlaceIn(L, a) < Cardinality(L)
<1>1. PICK B : B = {b \in L : b.id < a.id}
  OBVIOUS
<1>2. B \in SUBSET L /\ a \notin B /\ IsFiniteSet(L)
  BY <1>1 DEF Listed
<1>3. IsFiniteSet(B) /\ Cardinality(B) <= Cardinality(L) /\ Cardinality(L) # Cardinality(B)
  BY <1>2, FS_Subset
<1>4. Cardinality(B) \in Nat /\ Cardinality(L) \in Nat
  BY <1>2, <1>3, FS_CardinalityType
<1>5. PlaceIn(L, a) = Cardinality(B)
  BY <1>1 DEF PlaceIn
<1>6. QED
  BY <1>3, <1>4, <1>5

LEMMA PlaceGrows ==
  ASSUME NEW L, Listed(L), NEW a \in L, NEW b \in L, a.id < b.id
  PROVE  PlaceIn(L, a) # PlaceIn(L, b)
<1>1. PICK A, B : A = {c \in L : c.id < a.id} /\ B = {c \in L : c.id < b.id}
  OBVIOUS
<1>2. A \in SUBSET B /\ a \in B /\ a \notin A /\ B \in SUBSET L /\ IsFiniteSet(L)
  BY <1>1 DEF Listed
<1>3. IsFiniteSet(B)
  BY <1>2, FS_Subset
<1>4. Cardinality(B) # Cardinality(A)
  BY <1>2, <1>3, FS_Subset
<1>5. QED
  BY <1>1, <1>4 DEF PlaceIn

LEMMA PlacesApart ==
  ASSUME NEW L, Listed(L), NEW a \in L, NEW b \in L, PlaceIn(L, a) = PlaceIn(L, b)
  PROVE  a = b
<1>1. a.id \in Nat /\ b.id \in Nat /\ (a.id = b.id => a = b)
  BY DEF Listed
<1>2. ~(a.id < b.id) /\ ~(b.id < a.id)
  BY PlaceGrows
<1>3. QED
  BY <1>1, <1>2

\* A page holds no more than its limit.
LEMMA PageSize ==
  ASSUME NEW L, Listed(L), NEW n \in Nat, NEW k \in Nat \ {0}, NEW page,
         page = PageIn(L, n, k)
  PROVE  IsFiniteSet(page) /\ Cardinality(page) <= k
<1>1. IsFiniteSet(page)
  BY FS_Subset DEF Listed, PageIn
<1>2. IsFiniteSet(n..(n + k - 1)) /\ Cardinality(n..(n + k - 1)) = k
  BY FS_Interval
<1>3. PICK f : f = [a \in page |-> PlaceIn(L, a)]
  OBVIOUS
<1>4. page \subseteq L /\ f \in [page -> n..(n + k - 1)]
  BY <1>3 DEF PageIn
<1>5. \A a, b \in page : f[a] = f[b] => a = b
  BY <1>3, <1>4, PlacesApart
<1>6. ~(Cardinality(n..(n + k - 1)) < Cardinality(page))
  BY <1>1, <1>2, <1>4, <1>5, FS_PigeonHole
<1>7. Cardinality(page) \in Nat
  BY <1>1, FS_CardinalityType
<1>8. QED
  BY <1>1, <1>2, <1>6, <1>7

\* Every place up to the length of the list is taken.
LEMMA PlaceTaken ==
  ASSUME NEW L, Listed(L), NEW n \in Nat, n < Cardinality(L)
  PROVE  \E a \in L : PlaceIn(L, a) = n
<1> SUFFICES ASSUME \A a \in L : PlaceIn(L, a) # n PROVE FALSE
  OBVIOUS
<1>1. PICK m : m = Cardinality(L) /\ m \in Nat /\ IsFiniteSet(L)
  BY FS_CardinalityType DEF Listed
<1>2. PICK I, T : I = 0..(m - 1) /\ T = I \ {n}
  OBVIOUS
<1>3. n \in 0..(m - 1) /\ 0 \in Int /\ m - 1 \in Int /\ ~(0 > m - 1)
  BY <1>1
<1>4. IsFiniteSet(I) /\ Cardinality(I) = m
  <2>1. IsFiniteSet(I) /\ Cardinality(I) = m - 1 - 0 + 1
    BY <1>2, <1>3, FS_Interval
  <2>2. QED
    BY <1>1, <2>1
<1>5. IsFiniteSet(T) /\ Cardinality(T) = m - 1
  <2>1. n \in I
    BY <1>2, <1>3
  <2>2. IsFiniteSet(I \ {n}) /\ Cardinality(I \ {n}) = Cardinality(I) - 1
    BY <1>4, <2>1, FS_RemoveElement
  <2>3. QED
    BY <1>2, <1>4, <2>2
<1>6. PICK f : f = [a \in L |-> PlaceIn(L, a)]
  OBVIOUS
<1>7. f \in [L -> T]
  BY <1>1, <1>2, <1>6, PlaceType
<1>8. Cardinality(T) < Cardinality(L)
  BY <1>1, <1>5
<1>9. PICK a, b \in L : a # b /\ f[a] = f[b]
  BY <1>1, <1>5, <1>7, <1>8, FS_PigeonHole
<1>10. QED
  BY <1>6, <1>9, PlacesApart

\* Who has read the first n of a list and reads the page after them has read the
\* first of it, as many as has been read; and after the last page, all of it.
LEMMA NextPage ==
  ASSUME NEW L, Listed(L), NEW old, IsFiniteSet(old), NEW page, NEW k \in Nat \ {0},
         old # {} => \A a \in L : PlaceIn(L, a) < Cardinality(old) => a \in old,
         page = PageIn(L, Cardinality(old), k)
  PROVE  /\ IsFiniteSet(old \cup page) /\ page \subseteq L
         /\ \A a \in L : PlaceIn(L, a) < Cardinality(old \cup page) => a \in old \cup page
         /\ page = {} \/ Cardinality(old) + Cardinality(page) >= Cardinality(L) => L \subseteq old \cup page
<1>1. IsFiniteSet(page) /\ Cardinality(page) <= k /\ Cardinality(old) \in Nat /\ Cardinality(page) \in Nat
      /\ IsFiniteSet(L) /\ Cardinality(L) \in Nat
  <2>1. Cardinality(old) \in Nat /\ IsFiniteSet(L) /\ Cardinality(L) \in Nat
    BY FS_CardinalityType DEF Listed
  <2>2. IsFiniteSet(page) /\ Cardinality(page) <= k
    BY <2>1, PageSize
  <2>3. QED
    BY <2>1, <2>2, FS_CardinalityType
<1>2. IsFiniteSet(old \cup page) /\ Cardinality(old \cup page) \in Nat
      /\ Cardinality(old \cup page) <= Cardinality(old) + Cardinality(page)
  <2>1. IsFiniteSet(old \cup page) /\ IsFiniteSet(old \cap page)
        /\ Cardinality(old \cup page) = Cardinality(old) + Cardinality(page) - Cardinality(old \cap page)
    BY <1>1, FS_Union, FS_Intersection
  <2>2. Cardinality(old \cup page) \in Nat /\ Cardinality(old \cap page) \in Nat
    BY <2>1, FS_CardinalityType
  <2>3. QED
    BY <1>1, <2>1, <2>2
<1>3. ASSUME NEW a \in L, PlaceIn(L, a) < Cardinality(old) + k PROVE a \in old \cup page
  <2>1. PlaceIn(L, a) \in Nat
    BY PlaceType
  <2>2. CASE PlaceIn(L, a) < Cardinality(old)
    <3>1. old # {}
      BY <2>1, <2>2, FS_EmptySet
    <3>2. QED
      BY <2>2, <3>1
  <2>3. CASE ~(PlaceIn(L, a) < Cardinality(old))
    <3>1. PlaceIn(L, a) \in Cardinality(old)..(Cardinality(old) + k - 1)
      BY <1>1, <1>3, <2>1, <2>3
    <3>2. QED
      BY <3>1 DEF PageIn
  <2>4. QED
    BY <2>2, <2>3
<1>4. \A a \in L : PlaceIn(L, a) < Cardinality(old \cup page) => a \in old \cup page
  <2> SUFFICES ASSUME NEW a \in L, PlaceIn(L, a) < Cardinality(old \cup page) PROVE a \in old \cup page
    OBVIOUS
  <2>1. PlaceIn(L, a) \in Nat
    BY PlaceType
  <2>2. PlaceIn(L, a) < Cardinality(old) + k
    BY <1>1, <1>2, <2>1
  <2>3. QED
    BY <1>3, <2>2
<1>5. ASSUME page = {} \/ Cardinality(old) + Cardinality(page) >= Cardinality(L), NEW a \in L
      PROVE  a \in old \cup page
  <2>1. PlaceIn(L, a) \in Nat /\ PlaceIn(L, a) < Cardinality(L)
    BY PlaceType
  <2>2. CASE Cardinality(old) + Cardinality(page) >= Cardinality(L)
    <3>1. PlaceIn(L, a) < Cardinality(old) + k
      BY <1>1, <2>1, <2>2
    <3>2. QED
      BY <1>3, <3>1
  <2>3. CASE page = {}
    <3>1. ~(Cardinality(old) < Cardinality(L))
      <4> SUFFICES ASSUME Cardinality(old) < Cardinality(L) PROVE FALSE
        OBVIOUS
      <4>1. PICK b \in L : PlaceIn(L, b) = Cardinality(old)
        BY <1>1, PlaceTaken
      <4>2. PlaceIn(L, b) \in Cardinality(old)..(Cardinality(old) + k - 1)
        BY <1>1, <4>1
      <4>3. QED
        BY <2>3, <4>2 DEF PageIn
    <3>2. PlaceIn(L, a) < Cardinality(old) + k
      BY <1>1, <2>1, <3>1
    <3>3. QED
      BY <1>3, <3>2
  <2>4. QED
    BY <1>5, <2>2, <2>3
<1>6. page \subseteq L
  BY DEF PageIn
<1>7. QED
  BY <1>2, <1>4, <1>5, <1>6

-----------------------------------------------------------------------------
(* Deletions: the steps.                                                   *)

LEMMA ListingListed ==
  ASSUME ProjectShaped
  PROVE  /\ Pro!Listing \subseteq apps /\ Listed(Pro!Listing)
         /\ \A a : Pro!Place(a) = PlaceIn(Pro!Listing, a)
<1>1. Pro!Listing \subseteq apps
  BY DEF Pro!Listing
<1>2. Listed(Pro!Listing)
  BY <1>1, FS_Subset DEF ProjectShaped, Listed
<1>3. \A a : Pro!Place(a) = PlaceIn(Pro!Listing, a)
  BY ProCardinality DEF Pro!Place, PlaceIn
<1>4. QED
  BY <1>1, <1>2, <1>3

\* The namespace of an app is one there is.
LEMMA SpaceFound ==
  ASSUME NEW s \in Spaces
  PROVE  Pro!SpaceOf(s.id) = s
BY ProjectsAssumption DEF Pro!SpaceOf

LEMMA ProjectStart == Pro!Init => ProjectInv
<1> SUFFICES ASSUME Pro!Init PROVE ProjectInv
  OBVIOUS
<1>1. apps = {} \/ \E s \in spaces : apps = {[id |-> 1, space |-> s.id]}
  BY DEF Pro!Init
<1>2. IsFiniteSet(apps) /\ created \in Nat /\ \A a \in apps : created = 1 /\ a.id = 1 /\ a.space \in {s.id : s \in spaces}
  <2>1. created = Cardinality(apps)
    BY ProCardinality DEF Pro!Init
  <2>2. CASE apps = {}
    BY <2>1, <2>2, FS_EmptySet
  <2>3. ASSUME NEW s \in spaces, apps = {[id |-> 1, space |-> s.id]}
        PROVE  IsFiniteSet(apps) /\ created = 1 /\ \A a \in apps : a.id = 1 /\ a.space \in {t.id : t \in spaces}
    <3>1. PICK x : x = [id |-> 1, space |-> s.id]
      OBVIOUS
    <3>2. apps = {x} /\ x.id = 1 /\ x.space = s.id
      BY <2>3, <3>1
    <3>3. IsFiniteSet(apps) /\ created = 1
      BY <2>1, <3>2, FS_Singleton
    <3>4. QED
      BY <3>2, <3>3
  <2>4. QED
    BY <1>1, <2>2, <2>3
<1>3. \A a, b \in apps : a = b
  BY <1>1
<1>4. ProjectShaped
  <2>1. \A a \in apps : a.id \in 1..created
    BY <1>2
  <2>2. IsFiniteSet(got) /\ workloads \cup seen \cup got \subseteq apps
    BY FS_EmptySet DEF Pro!Init
  <2>3. /\ spaces \subseteq Spaces /\ known = {} /\ cmd \in ProjectCommands
        /\ databases \subseteq {s.id : s \in spaces} /\ projectOutcome = "running" /\ shifted = FALSE
    BY DEF Pro!Init
  <2>4. QED
    BY <1>2, <1>3, <2>1, <2>2, <2>3 DEF ProjectShaped
<1>5. ProjectPhase
  BY ProjectsAssumption DEF Pro!Init, ProjectPhase
<1>6. QED
  BY <1>4, <1>5 DEF Pro!Init, ProjectInv, ProjectTarget, PagesRead, SawItsApps, SawItsDatabase

\* A step that only moves the command on, or ends it.
ProjectQuiet ==
  UNCHANGED <<spaces, apps, created, workloads, databases, others, cmd, known, target, got, seen, report,
              fresh, shifted>>

LEMMA QuietListing ==
  ASSUME UNCHANGED apps PROVE Pro!Listing' = Pro!Listing /\ \A a : Pro!Place(a)' = Pro!Place(a)
BY DEF Pro!Listing, Pro!Place, Pro!Foreign

\* A command that has ended asks nothing more.
LEMMA ProjectEnds ==
  ASSUME ProjectShaped', projectPc' = "done"
  PROVE  ProjectInv'
BY DEF ProjectInv, ProjectPhase, ProjectTarget, PagesRead, SawItsApps, SawItsDatabase

LEMMA QuietEnds ==
  ASSUME ProjectInv, ProjectQuiet, projectPc' = "done", projectOutcome' \in {"done", "failed", "aborted"}
  PROVE  ProjectInv'
<1>1. ProjectShaped'
  BY DEF ProjectInv, ProjectShaped, ProjectQuiet
<1>2. QED
  BY <1>1, ProjectEnds

LEMMA AnswerProject == ASSUME ProjectInv, Pro!Answer PROVE ProjectInv'
<1>1. ProjectQuiet /\ projectPc = "answer"
  BY DEF Pro!Answer, ProjectQuiet, Pro!platformVars, Pro!historyVars
<1>2. CASE Pro!Finish("aborted")
  BY <1>1, <1>2, QuietEnds DEF Pro!Finish
<1>3. CASE Pro!Goto("write")
  <2>1. projectPc' = "write" /\ UNCHANGED projectOutcome
    BY <1>3 DEF Pro!Goto
  <2>2. ProjectShaped'
    BY <1>1, <2>1 DEF ProjectInv, ProjectShaped, ProjectQuiet
  <2>3. ProjectPhase' /\ ProjectTarget' /\ PagesRead'
    BY <1>1, <2>1 DEF ProjectInv, ProjectPhase, ProjectTarget, PagesRead, ProjectQuiet
  <2>4. SawItsApps' /\ SawItsDatabase'
    BY <1>1, <2>1, QuietListing DEF ProjectInv, SawItsApps, SawItsDatabase, ProjectQuiet
  <2>5. QED
    BY <2>2, <2>3, <2>4 DEF ProjectInv
<1>4. QED
  BY <1>2, <1>3 DEF Pro!Answer

LEMMA DatabasesProject == ASSUME ProjectInv, Pro!ReadDatabases PROVE ProjectInv'
<1>1. ProjectQuiet /\ projectPc = "databases" /\ cmd.kind = "deleteSpace"
  BY DEF Pro!ReadDatabases, ProjectQuiet, Pro!platformVars, Pro!historyVars, ProjectInv, ProjectPhase
<1>2. CASE target.id \in databases
  BY <1>1, <1>2, QuietEnds DEF Pro!ReadDatabases, Pro!Finish
<1>3. CASE target.id \notin databases
  <2>1. projectPc' = "answer" /\ UNCHANGED projectOutcome
    BY <1>3 DEF Pro!Goto, Pro!ReadDatabases
  <2>2. ProjectShaped'
    BY <1>1, <2>1 DEF ProjectInv, ProjectShaped, ProjectQuiet
  <2>3. ProjectPhase' /\ ProjectTarget' /\ PagesRead'
    BY <1>1, <2>1 DEF ProjectInv, ProjectPhase, ProjectTarget, PagesRead, ProjectQuiet
  <2>4. SawItsApps' /\ SawItsDatabase'
    BY <1>1, <1>3, <2>1, QuietListing DEF ProjectInv, SawItsApps, SawItsDatabase, ProjectQuiet
  <2>5. QED
    BY <2>2, <2>3, <2>4 DEF ProjectInv
<1>4. QED
  BY <1>2, <1>3

LEMMA FailsProject == ASSUME ProjectInv, Pro!Fails PROVE ProjectInv'
BY QuietEnds DEF Pro!Fails, ProjectQuiet, Pro!platformVars, Pro!historyVars, Pro!Finish

LEMMA KubectlProject == ASSUME ProjectInv, Pro!Kubectl PROVE ProjectInv'
<1>1. /\ projectPc' = "done" /\ projectOutcome' = "done" /\ seen' \subseteq workloads
      /\ UNCHANGED <<spaces, apps, created, workloads, databases, others, cmd, known, target, got, fresh, shifted>>
  BY DEF Pro!Kubectl, Pro!Finish, Pro!platformVars, Pro!historyVars
<1>2. ProjectShaped'
  BY <1>1 DEF ProjectInv, ProjectShaped
<1>3. QED
  BY <1>1, <1>2, ProjectEnds

LEMMA NamespacesOf ==
  ASSUME ProjectShaped, NEW list \in Pro!Namespaces
  PROVE  list \subseteq Spaces /\ \A s \in list : s.tenant = Org
<1>1. ASSUME NEW a \in Pro!Listing PROVE Pro!SpaceOf(a.space) \in Spaces /\ Pro!SpaceOf(a.space).tenant = Org
  <2>1. a \in apps /\ ~Pro!Foreign(a)
    BY DEF Pro!Listing
  <2>2. PICK s \in spaces : a.space = s.id
    BY <2>1 DEF ProjectShaped
  <2>3. s \in Spaces
    BY DEF ProjectShaped
  <2>4. Pro!SpaceOf(a.space) = s
    BY <2>2, <2>3, SpaceFound
  <2>5. QED
    BY <2>1, <2>3, <2>4 DEF Pro!Foreign
<1>2. {s \in spaces : s.tenant = Org} \subseteq Spaces
  BY DEF ProjectShaped
<1>3. \/ list = {s \in spaces : s.tenant = Org}
      \/ list = {Pro!SpaceOf(a.space) : a \in Pro!Listing}
  BY DEF Pro!Namespaces
<1>4. QED
  BY <1>1, <1>2, <1>3

LEMMA SpacesProject == ASSUME ProjectInv, Pro!ReadSpaces PROVE ProjectInv'
<1>1. PICK list \in Pro!Namespaces :
        /\ known' = list
        /\ \/ Pro!Finish("failed") /\ UNCHANGED target
           \/ /\ cmd.kind = "deleteSpace" /\ Pro!Goto("page")
              /\ \E s \in list : target' = s
           \/ /\ cmd.kind # "deleteSpace" /\ Pro!Goto("answer")
              /\ \E s \in Spaces : target' = s
  BY DEF Pro!ReadSpaces
<1>2. /\ projectPc = "spaces" /\ shifted' = FALSE
      /\ UNCHANGED <<spaces, apps, created, workloads, databases, others, cmd, got, seen, report>>
  BY DEF Pro!ReadSpaces, Pro!platformVars
<1>3. cmd.kind \in {"deleteSpace", "createSpace"} /\ got = {}
  BY <1>2 DEF ProjectInv, ProjectPhase
<1>4. list \subseteq Spaces /\ \A s \in list : s.tenant = Org
  BY NamespacesOf DEF ProjectInv
<1>5. ASSUME projectOutcome' \in {projectOutcome, "failed"} PROVE ProjectShaped'
  BY <1>1, <1>2, <1>4, <1>5 DEF ProjectInv, ProjectShaped
<1>6. CASE Pro!Finish("failed")
  BY <1>5, <1>6, ProjectEnds DEF Pro!Finish
<1>7. CASE cmd.kind = "deleteSpace" /\ Pro!Goto("page") /\ \E s \in list : target' = s
  <2>1. projectPc' = "page" /\ UNCHANGED projectOutcome /\ target' \in Spaces /\ target'.tenant = Org
    BY <1>4, <1>7 DEF Pro!Goto
  <2>2. ProjectShaped'
    BY <1>5, <2>1
  <2>3. QED
    BY <1>2, <1>3, <1>7, <2>1, <2>2
       DEF ProjectInv, ProjectPhase, ProjectTarget, PagesRead, SawItsApps, SawItsDatabase
<1>8. CASE cmd.kind # "deleteSpace" /\ Pro!Goto("answer") /\ \E s \in Spaces : target' = s
  <2>1. projectPc' = "answer" /\ UNCHANGED projectOutcome /\ target' \in Spaces
    BY <1>8 DEF Pro!Goto
  <2>2. ProjectShaped'
    BY <1>5, <2>1
  <2>3. QED
    BY <1>2, <1>3, <1>8, <2>1, <2>2
       DEF ProjectInv, ProjectPhase, ProjectTarget, PagesRead, SawItsApps, SawItsDatabase
<1>9. QED
  BY <1>1, <1>6, <1>7, <1>8

\* What a page adds: while the list does not shift, the first of it; and after the
\* last page, all.
LEMMA PageAdds ==
  ASSUME ProjectInv, projectPc = "page", got = {} \/ ~shifted, NEW page,
         page = Pro!Page(Pro!Cardinality(got))
  PROVE  /\ got \cup page \subseteq Pro!Listing
         /\ \A a \in Pro!Listing : Pro!Place(a) < Cardinality(got \cup page) => a \in got \cup page
         /\ Pro!LastPage(page, Pro!Cardinality(Pro!Listing)) => Pro!Listing \subseteq got \cup page
<1>1. PICK L : L = Pro!Listing
  OBVIOUS
<1>2. Listed(L) /\ IsFiniteSet(got) /\ PageLimit \in Nat \ {0}
  BY <1>1, ListingListed, ProjectsAssumption DEF ProjectInv, ProjectShaped
<1>3. page = PageIn(L, Cardinality(got), PageLimit)
  BY <1>1, ListingListed, ProCardinality DEF Pro!Page, ProjectInv, PageIn
<1>4. /\ got \subseteq L
      /\ got # {} => \A a \in L : PlaceIn(L, a) < Cardinality(got) => a \in got
  BY <1>1, ListingListed DEF ProjectInv, PagesRead
<1>5. /\ IsFiniteSet(got \cup page) /\ page \subseteq L
      /\ \A a \in L : PlaceIn(L, a) < Cardinality(got \cup page) => a \in got \cup page
      /\ page = {} \/ Cardinality(got) + Cardinality(page) >= Cardinality(L) => L \subseteq got \cup page
  BY <1>2, <1>3, <1>4, NextPage
<1>6. Pro!LastPage(page, Pro!Cardinality(Pro!Listing)) => 
        page = {} \/ Cardinality(got) + Cardinality(page) >= Cardinality(L)
  BY <1>1, ProCardinality DEF Pro!LastPage
<1>7. QED
  BY <1>1, <1>4, <1>5, <1>6, ListingListed DEF ProjectInv

\* What a page is, whatever shifted.
LEMMA PageOfApps ==
  ASSUME ProjectShaped, NEW n
  PROVE  Pro!Page(n) \subseteq apps /\ IsFiniteSet(got \cup Pro!Page(n))
<1>1. Pro!Page(n) \subseteq apps
  BY ListingListed DEF Pro!Page
<1>2. IsFiniteSet(Pro!Page(n)) /\ IsFiniteSet(got)
  BY <1>1, FS_Subset DEF ProjectShaped
<1>3. QED
  BY <1>1, <1>2, FS_Union

LEMMA PageProject == ASSUME ProjectInv, Pro!ReadPage PROVE ProjectInv'
<1>1. PICK page, all : page = Pro!Page(Pro!Cardinality(got)) /\ all = got \cup page
  OBVIOUS
<1>2. /\ projectPc = "page" /\ got' = all
      /\ UNCHANGED <<spaces, apps, created, workloads, databases, others, cmd, known, seen, report>>
      /\ shifted' = (got # {} /\ shifted)
      /\ \/ Pro!Finish("failed") /\ UNCHANGED target
         \/ Pro!Goto("page") /\ UNCHANGED target
         \/ /\ cmd.kind = "orphans" /\ Pro!Goto("kubectl") /\ UNCHANGED target
            /\ Pro!LastPage(page, Pro!Cardinality(Pro!Listing))
         \/ cmd.kind = "deleteApp" /\ Pro!Goto("answer") /\ \E a \in Pro!Resolved(all) : target' = a
         \/ /\ cmd.kind = "deleteSpace" /\ Pro!Goto("databases") /\ UNCHANGED target
            /\ Pro!LastPage(page, Pro!Cardinality(Pro!Listing))
            /\ ~\E a \in all : a.space = target.id
  <2>1. cmd.kind \in {"orphans", "deleteApp", "deleteSpace"}
    BY ProjectsAssumption DEF Pro!ReadPage, ProjectInv, ProjectPhase, ProjectShaped
  <2>2. /\ projectPc = "page" /\ got' = all
        /\ UNCHANGED <<spaces, apps, created, workloads, databases, others, cmd, known, seen, report>>
        /\ shifted' = (got # {} /\ shifted)
    BY <1>1 DEF Pro!ReadPage, Pro!platformVars
  <2>3. CASE ~Pro!LastPage(page, Pro!Cardinality(Pro!Listing))
    BY <1>1, <2>2, <2>3 DEF Pro!ReadPage
  <2>4. CASE Pro!LastPage(page, Pro!Cardinality(Pro!Listing)) /\ cmd.kind = "orphans"
    BY <1>1, <2>2, <2>4 DEF Pro!ReadPage
  <2>5. CASE Pro!LastPage(page, Pro!Cardinality(Pro!Listing)) /\ cmd.kind = "deleteApp"
    BY <1>1, <2>2, <2>5 DEF Pro!ReadPage
  <2>6. CASE Pro!LastPage(page, Pro!Cardinality(Pro!Listing)) /\ cmd.kind = "deleteSpace"
    BY <1>1, <2>2, <2>6 DEF Pro!ReadPage
  <2>7. QED
    BY <2>1, <2>3, <2>4, <2>5, <2>6
<1>3. page \subseteq apps /\ IsFiniteSet(all)
  BY <1>1, PageOfApps DEF ProjectInv
<1>4. \A a \in all : a.id \in 1..created
  BY <1>1, <1>3 DEF ProjectInv, ProjectShaped
<1>5. ASSUME projectOutcome' \in {projectOutcome, "failed"} PROVE ProjectShaped'
  BY <1>2, <1>3, <1>4, <1>5 DEF ProjectInv, ProjectShaped
<1>6. Pro!Listing' = Pro!Listing /\ \A a : Pro!Place(a)' = Pro!Place(a)
  BY <1>2, QuietListing
<1>7. ~shifted' =>
        /\ all \subseteq Pro!Listing
        /\ \A a \in Pro!Listing : Pro!Place(a) < Cardinality(all) => a \in all
        /\ Pro!LastPage(page, Pro!Cardinality(Pro!Listing)) => Pro!Listing \subseteq all
  BY <1>1, <1>2, PageAdds
<1>8. CASE Pro!Finish("failed") /\ UNCHANGED target
  BY <1>5, <1>8, ProjectEnds DEF Pro!Finish
<1>9. CASE Pro!Goto("page") /\ UNCHANGED target
  <2>1. projectPc' = "page" /\ UNCHANGED <<projectOutcome, target>>
    BY <1>9 DEF Pro!Goto
  <2>2. ProjectShaped'
    BY <1>5, <2>1
  <2>3. PagesRead'
    BY <1>2, <1>6, <1>7 DEF PagesRead
  <2>4. QED
    BY <1>2, <2>1, <2>2, <2>3
       DEF ProjectInv, ProjectPhase, ProjectTarget, SawItsApps, SawItsDatabase
<1>10. CASE /\ cmd.kind = "orphans" /\ Pro!Goto("kubectl") /\ UNCHANGED target
            /\ Pro!LastPage(page, Pro!Cardinality(Pro!Listing))
  <2>1. projectPc' = "kubectl" /\ UNCHANGED <<projectOutcome, target>>
    BY <1>10 DEF Pro!Goto
  <2>2. ProjectShaped'
    BY <1>5, <2>1
  <2>3. SawItsApps'
    BY <1>2, <1>6, <1>7, <1>10 DEF SawItsApps
  <2>4. QED
    BY <1>2, <1>10, <2>1, <2>2, <2>3
       DEF ProjectInv, ProjectPhase, ProjectTarget, PagesRead, SawItsDatabase
<1>11. CASE cmd.kind = "deleteApp" /\ Pro!Goto("answer") /\ \E a \in Pro!Resolved(all) : target' = a
  <2>1. projectPc' = "answer" /\ UNCHANGED projectOutcome /\ target' \in all
    BY <1>11 DEF Pro!Goto, Pro!Resolved
  <2>2. ProjectShaped' /\ created \in Nat
    BY <1>5, <2>1 DEF ProjectInv, ProjectShaped
  <2>3. target'.id \in Nat \ {0}
    BY <1>4, <2>1, <2>2
  <2>4. QED
    BY <1>2, <1>11, <2>1, <2>2, <2>3
       DEF ProjectInv, ProjectPhase, ProjectTarget, PagesRead, SawItsApps, SawItsDatabase
<1>12. CASE /\ cmd.kind = "deleteSpace" /\ Pro!Goto("databases") /\ UNCHANGED target
            /\ Pro!LastPage(page, Pro!Cardinality(Pro!Listing))
            /\ ~\E a \in all : a.space = target.id
  <2>1. projectPc' = "databases" /\ UNCHANGED <<projectOutcome, target>>
    BY <1>12 DEF Pro!Goto
  <2>2. ProjectShaped'
    BY <1>5, <2>1
  <2>3. SawItsApps'
    BY <1>6, <1>7, <1>12, <2>1 DEF SawItsApps
  <2>4. QED
    BY <1>2, <1>12, <2>1, <2>2, <2>3
       DEF ProjectInv, ProjectPhase, ProjectTarget, PagesRead, SawItsDatabase
<1>13. QED
  BY <1>2, <1>8, <1>9, <1>10, <1>11, <1>12

LEMMA WriteProject == ASSUME ProjectInv, Pro!Write PROVE ProjectInv'
<1>1. /\ projectPc = "write" /\ projectPc' = "done" /\ projectOutcome' \in {"failed", "done"}
      /\ UNCHANGED <<created, others, cmd, known, target, got, seen, report, fresh, shifted>>
  BY DEF Pro!Write, Pro!Finish, Pro!historyVars
<1>2. cmd.kind \in {"deleteSpace", "createSpace", "deleteApp"}
  BY <1>1, ProjectsAssumption DEF ProjectInv, ProjectShaped, ProjectPhase
<1>3. /\ spaces' \subseteq Spaces /\ apps' \subseteq apps /\ workloads' \subseteq workloads
      /\ \A a \in apps' : a.space \in {s.id : s \in spaces'}
      /\ databases' \subseteq {s.id : s \in spaces'}
  <2>1. CASE cmd.kind = "deleteSpace"
    <3>1. Pro!Emptied(target.id)
      BY <1>1, <2>1 DEF Pro!Write
    <3>2. /\ spaces' \subseteq Spaces /\ apps' \subseteq apps /\ workloads' \subseteq workloads
      BY <3>1 DEF Pro!Emptied, ProjectInv, ProjectShaped
    <3>3. \A a \in apps' : a.space \in {s.id : s \in spaces'}
      <4> SUFFICES ASSUME NEW a \in apps' PROVE a.space \in {s.id : s \in spaces'}
        OBVIOUS
      <4>1. a \in apps /\ a.space # target.id
        BY <3>1 DEF Pro!Emptied
      <4>2. PICK s \in spaces : a.space = s.id
        BY <4>1 DEF ProjectInv, ProjectShaped
      <4>3. s \in spaces'
        BY <3>1, <4>1, <4>2 DEF Pro!Emptied
      <4>4. QED
        BY <4>2, <4>3
    <3>4. databases' \subseteq {s.id : s \in spaces'}
      <4> SUFFICES ASSUME NEW d \in databases' PROVE d \in {s.id : s \in spaces'}
        OBVIOUS
      <4>1. d \in databases /\ d # target.id
        BY <3>1 DEF Pro!Emptied
      <4>2. PICK s \in spaces : d = s.id
        BY <4>1 DEF ProjectInv, ProjectShaped
      <4>3. s \in spaces'
        BY <3>1, <4>1, <4>2 DEF Pro!Emptied
      <4>4. QED
        BY <4>2, <4>3
    <3>5. QED
      BY <3>2, <3>3, <3>4
  <2>2. CASE cmd.kind = "createSpace"
    <3>1. spaces' = spaces \cup {target} /\ UNCHANGED <<apps, workloads, databases>>
      BY <1>1, <2>2 DEF Pro!Write
    <3>2. target \in Spaces
      BY <1>1, <2>2 DEF ProjectInv, ProjectTarget
    <3>3. QED
      BY <3>1, <3>2 DEF ProjectInv, ProjectShaped
  <2>3. CASE cmd.kind = "deleteApp"
    <3>1. apps' = {a \in apps : a.id # target.id} /\ UNCHANGED <<spaces, workloads, databases>>
      BY <1>1, <2>3 DEF Pro!Write
    <3>2. QED
      BY <3>1 DEF ProjectInv, ProjectShaped
  <2>4. QED
    BY <1>2, <2>1, <2>2, <2>3
<1>4. IsFiniteSet(apps')
  BY <1>3, FS_Subset DEF ProjectInv, ProjectShaped
<1>5. ProjectShaped'
  BY <1>1, <1>3, <1>4 DEF ProjectInv, ProjectShaped
<1>6. QED
  BY <1>1, <1>5, ProjectEnds

-----------------------------------------------------------------------------
(* Deletions: the others' steps.                                           *)

\* What the others leave as it is.
LEMMA MoveOf ==
  ASSUME NEW new, NEW gone \in BOOLEAN, Pro!Move(new, gone), shifted \in BOOLEAN
  PROVE  /\ fresh' = fresh \cup new /\ shifted' = (shifted \/ gone) /\ shifted' \in BOOLEAN
         /\ UNCHANGED <<cmd, projectPc, known, target, got, seen, report, projectOutcome>>
BY DEF Pro!Move, Pro!commandVars

\* A step of theirs that adds nothing to the list and takes nothing from it.
LEMMA ListKept ==
  ASSUME ProjectInv, UNCHANGED <<cmd, projectPc, known, target, got, seen, report, projectOutcome>>,
         ProjectShaped', shifted' = shifted, fresh \subseteq fresh',
         Pro!Listing' = Pro!Listing, \A a : Pro!Place(a)' = Pro!Place(a),
         databases' \subseteq databases \/ \E s : databases' = databases \cup {s} /\ <<"database", s>> \in fresh'
  PROVE  ProjectInv'
<1>1. ProjectPhase' /\ ProjectTarget'
  BY DEF ProjectInv, ProjectPhase, ProjectTarget
<1>2. PagesRead' /\ SawItsApps'
  BY DEF ProjectInv, PagesRead, SawItsApps
<1>3. SawItsDatabase'
  BY DEF ProjectInv, SawItsDatabase
<1>4. QED
  BY <1>1, <1>2, <1>3 DEF ProjectInv

LEMMA CreateAppProject == ASSUME ProjectInv, Pro!CreateApp PROVE ProjectInv'
<1>1. PICK s \in spaces : /\ created' = created + 1 /\ apps' = apps \cup {[id |-> created', space |-> s.id]}
                          /\ Pro!Move({<<"app", created'>>}, FALSE) /\ UNCHANGED <<spaces, workloads, databases>>
  BY DEF Pro!CreateApp
<1>2. PICK x : x = [id |-> created', space |-> s.id]
  OBVIOUS
<1>3. apps' = apps \cup {x} /\ x.id = created + 1 /\ x.space = s.id /\ created' = created + 1 /\ created \in Nat
  BY <1>1, <1>2 DEF ProjectInv, ProjectShaped
<1>4. /\ fresh' = fresh \cup {<<"app", x.id>>} /\ shifted' = shifted /\ shifted \in BOOLEAN
      /\ UNCHANGED <<spaces, workloads, databases, cmd, projectPc, known, target, got, seen, report, projectOutcome>>
  BY <1>1, <1>3, MoveOf DEF ProjectInv, ProjectShaped
<1>5. \A a \in apps : a.id \in Nat /\ a.id < x.id
  BY <1>3 DEF ProjectInv, ProjectShaped
<1>6. ProjectShaped'
  <2>1. IsFiniteSet(apps')
    BY <1>3, FS_AddElement DEF ProjectInv, ProjectShaped
  <2>2. \A a, b \in apps' : a.id = b.id => a = b
    BY <1>3, <1>5 DEF ProjectInv, ProjectShaped
  <2>3. \A a \in apps' : a.id \in 1..created' /\ a.space \in {t.id : t \in spaces'}
    BY <1>3, <1>4 DEF ProjectInv, ProjectShaped
  <2>4. \A w \in workloads' \cup seen' \cup got' : w.id \in 1..created'
    BY <1>3, <1>4 DEF ProjectInv, ProjectShaped
  <2>5. QED
    BY <1>3, <1>4, <2>1, <2>2, <2>3, <2>4 DEF ProjectInv, ProjectShaped
<1>7. /\ Pro!Listing \subseteq Pro!Listing' /\ Pro!Listing' \subseteq Pro!Listing \cup {x}
  BY <1>3 DEF Pro!Listing, Pro!Foreign
<1>8. PICK L, M : L = Pro!Listing /\ M = Pro!Listing'
  OBVIOUS
<1>9. /\ Listed(L) /\ Listed(M) /\ L \subseteq M /\ M \subseteq L \cup {x} /\ x \notin L
      /\ \A a \in L : a.id \in Nat /\ a.id < x.id
      /\ x.id \in Nat
  <2>1. Listed(L) /\ L \subseteq apps
    BY <1>8, ListingListed DEF ProjectInv
  <2>2. Pro!Listing' \subseteq apps' /\ IsFiniteSet(apps') /\ (\A a \in apps' : a.id \in Nat)
        /\ \A a, b \in apps' : a.id = b.id => a = b
    BY <1>6 DEF Pro!Listing, ProjectShaped
  <2>3. Listed(M)
    BY <1>8, <2>2, FS_Subset DEF Listed
  <2>4. QED
    BY <1>3, <1>5, <1>7, <1>8, <2>1, <2>3
<1>10. \A a \in L : PlaceIn(M, a) = PlaceIn(L, a)
  <2>1. ASSUME NEW a \in L PROVE {b \in M : b.id < a.id} = {b \in L : b.id < a.id}
    BY <1>9
  <2>2. QED
    BY <2>1 DEF PlaceIn
<1>11. x \in M => PlaceIn(M, x) = Cardinality(L)
  <2>1. {b \in M : b.id < x.id} = L
    BY <1>9
  <2>2. QED
    BY <2>1 DEF PlaceIn
<1>12. \A a : Pro!Place(a) = PlaceIn(L, a) /\ Pro!Place(a)' = PlaceIn(M, a)
  BY <1>8, ProCardinality DEF Pro!Place, PlaceIn
<1>13. PagesRead'
  <2> SUFFICES ASSUME projectPc = "page", got # {}, ~shifted
               PROVE  got \subseteq M /\ \A a \in M : PlaceIn(M, a) < Cardinality(got) => a \in got
    BY <1>4, <1>8, <1>12 DEF PagesRead
  <2>1. got \subseteq L /\ \A a \in L : PlaceIn(L, a) < Cardinality(got) => a \in got
    BY <1>8, <1>12 DEF ProjectInv, PagesRead
  <2>2. Cardinality(got) <= Cardinality(L) /\ Cardinality(got) \in Nat /\ Cardinality(L) \in Nat
    BY <1>9, <2>1, FS_Subset, FS_CardinalityType DEF Listed
  <2>3. QED
    BY <1>9, <1>10, <1>11, <2>1, <2>2
<1>14. SawItsApps'
  BY <1>4, <1>7 DEF ProjectInv, SawItsApps
<1>15. ProjectPhase' /\ ProjectTarget' /\ SawItsDatabase'
  BY <1>4 DEF ProjectInv, ProjectPhase, ProjectTarget, SawItsDatabase
<1>16. QED
  BY <1>6, <1>13, <1>14, <1>15 DEF ProjectInv

LEMMA DeleteAppProject == ASSUME ProjectInv, Pro!DeleteApp PROVE ProjectInv'
<1>1. PICK a \in apps : /\ apps' = apps \ {a} /\ Pro!Move({}, ~Pro!Foreign(a))
                        /\ UNCHANGED <<spaces, created, workloads, databases>>
  BY DEF Pro!DeleteApp
<1>2. /\ fresh' = fresh /\ shifted' = (shifted \/ ~Pro!Foreign(a)) /\ shifted' \in BOOLEAN
      /\ UNCHANGED <<cmd, projectPc, known, target, got, seen, report, projectOutcome>>
  <2>1. fresh' = fresh \cup {} /\ shifted' = (shifted \/ ~Pro!Foreign(a)) /\ UNCHANGED Pro!commandVars
    BY <1>1 DEF Pro!Move
  <2>2. shifted \in BOOLEAN
    BY DEF ProjectInv, ProjectShaped
  <2>3. shifted' \in BOOLEAN
    BY <2>1, <2>2, Zenon
  <2>4. QED
    BY <2>1, <2>3 DEF Pro!commandVars
<1>3. ProjectShaped'
  <2>1. IsFiniteSet(apps')
    BY <1>1, FS_RemoveElement DEF ProjectInv, ProjectShaped
  <2>2. QED
    BY <1>1, <1>2, <2>1 DEF ProjectInv, ProjectShaped
<1>4. CASE Pro!Foreign(a)
  <2>1. Pro!Listing' = Pro!Listing
    BY <1>1, <1>4 DEF Pro!Listing, Pro!Foreign
  <2>2. \A b : Pro!Place(b)' = Pro!Place(b)
    BY <2>1 DEF Pro!Place
  <2>3. shifted' = shifted
    BY <1>2, <1>4 DEF ProjectInv, ProjectShaped
  <2>4. QED
    BY <1>1, <1>2, <1>3, <2>1, <2>2, <2>3, ListKept
<1>5. CASE ~Pro!Foreign(a)
  <2>1. shifted' = TRUE
    BY <1>2, <1>5
  <2>2. ProjectPhase' /\ ProjectTarget' /\ PagesRead' /\ SawItsApps' /\ SawItsDatabase'
    BY <1>1, <1>2, <2>1
       DEF ProjectInv, ProjectPhase, ProjectTarget, PagesRead, SawItsApps, SawItsDatabase
  <2>3. QED
    BY <1>3, <2>2 DEF ProjectInv
<1>6. QED
  BY <1>4, <1>5

LEMMA LandProject == ASSUME ProjectInv, Pro!Land PROVE ProjectInv'
<1>1. PICK a \in apps \cup workloads :
        /\ workloads' = IF a \in apps THEN workloads \cup {a} ELSE workloads \ {a}
        /\ Pro!Move({<<"workload", a.id>>}, FALSE) /\ UNCHANGED <<spaces, apps, created, databases>>
  BY DEF Pro!Land
<1>2. /\ fresh \subseteq fresh' /\ shifted' = shifted /\ shifted \in BOOLEAN
      /\ UNCHANGED <<cmd, projectPc, known, target, got, seen, report, projectOutcome>>
  BY <1>1, MoveOf DEF ProjectInv, ProjectShaped
<1>3. workloads' \subseteq workloads \cup apps
  BY <1>1
<1>4. ProjectShaped'
  BY <1>1, <1>2, <1>3 DEF ProjectInv, ProjectShaped
<1>5. QED
  BY <1>1, <1>2, <1>4, QuietListing, ListKept

LEMMA DatabaseProject == ASSUME ProjectInv, Pro!CreateDatabase PROVE ProjectInv'
<1>1. PICK s \in spaces : /\ databases' = databases \cup {s.id}
                          /\ Pro!Move({<<"database", s.id>>}, FALSE) /\ UNCHANGED <<spaces, apps, created, workloads>>
  BY DEF Pro!CreateDatabase
<1>2. /\ fresh' = fresh \cup {<<"database", s.id>>} /\ shifted' = shifted /\ shifted \in BOOLEAN
      /\ UNCHANGED <<cmd, projectPc, known, target, got, seen, report, projectOutcome>>
  BY <1>1, MoveOf DEF ProjectInv, ProjectShaped
<1>3. ProjectShaped'
  BY <1>1, <1>2 DEF ProjectInv, ProjectShaped
<1>4. QED
  BY <1>1, <1>2, <1>3, QuietListing, ListKept

LEMMA ProjectStep == ASSUME ProjectInv, [Pro!Next]_(Pro!vars) PROVE ProjectInv'
<1>1. CASE UNCHANGED Pro!vars
  <2>1. UNCHANGED <<spaces, apps, created, workloads, databases, others, cmd, projectPc, known, target, got,
                    seen, report, projectOutcome, fresh, shifted>>
    BY <1>1 DEF Pro!vars, Pro!platformVars, Pro!commandVars, Pro!historyVars
  <2>2. ProjectShaped'
    BY <2>1 DEF ProjectInv, ProjectShaped
  <2>3. QED
    BY <2>1, <2>2, QuietListing, ListKept
<1>2. QED
  BY <1>1, SpacesProject, PageProject, DatabasesProject, AnswerProject, WriteProject, FailsProject,
     KubectlProject, CreateAppProject, DeleteAppProject, LandProject, DatabaseProject DEF Pro!Next

-----------------------------------------------------------------------------
(* Deletions: what the invariant says.                                     *)

LEMMA ProjectTyped == ASSUME ProjectInv PROVE Pro!TypeOK
<1>1. projectPc = "write" => target # Pro!None
  <2> SUFFICES ASSUME projectPc = "write" PROVE target # Pro!None
    OBVIOUS
  <2>1. cmd.kind \in {"deleteSpace", "createSpace", "deleteApp"}
    BY ProjectsAssumption DEF ProjectInv, ProjectShaped, ProjectPhase
  <2>2. target.id \in Nat \ {0}
    BY <2>1, ProjectsAssumption DEF ProjectInv, ProjectTarget
  <2>3. QED
    BY <2>2 DEF Pro!None
<1>2. QED
  BY <1>1 DEF ProjectInv, ProjectShaped, ProjectPhase, Pro!TypeOK

LEMMA EmptyOnly ==
  ASSUME ProjectInv, projectPc = "write", cmd.kind = "deleteSpace"
  PROVE  /\ \A a \in apps : a.space = target.id => <<"app", a.id>> \in fresh \/ shifted
         /\ target.id \in databases => <<"database", target.id>> \in fresh
<1>1. target \in Spaces /\ target.tenant = Org
  BY DEF ProjectInv, ProjectTarget
<1>2. \A a \in apps : a.space = target.id => a \in Pro!Listing
  BY <1>1, SpaceFound DEF Pro!Listing, Pro!Foreign
<1>3. QED
  BY <1>2 DEF ProjectInv, SawItsApps, SawItsDatabase

LEMMA OrphansGone == ASSUME ProjectInv, [Pro!Next]_(Pro!vars) PROVE Pro!OrphansAreGone
<1> SUFFICES ASSUME projectPc = "kubectl", projectPc' = "done", projectOutcome' = "done"
             PROVE  \A r \in report' : r.kind = "orphaned" =>
                      r.id \notin {a.id : a \in Pro!Listing} \/ <<"app", r.id>> \in fresh \/ shifted
  BY DEF Pro!OrphansAreGone
<1>1. Pro!Kubectl
  <2>1. ~Pro!ReadSpaces /\ ~Pro!ReadPage /\ ~Pro!ReadDatabases /\ ~Pro!Answer /\ ~Pro!Write
    BY DEF Pro!ReadSpaces, Pro!ReadPage, Pro!ReadDatabases, Pro!Answer, Pro!Write
  <2>2. ~Pro!Fails
    BY DEF Pro!Fails, Pro!Finish
  <2>3. ~UNCHANGED projectPc
    OBVIOUS
  <2>4. ~Pro!CreateApp /\ ~Pro!DeleteApp /\ ~Pro!Land /\ ~Pro!CreateDatabase
    BY <2>3 DEF Pro!CreateApp, Pro!DeleteApp, Pro!Land, Pro!CreateDatabase, Pro!Move, Pro!commandVars
  <2>5. ~UNCHANGED Pro!vars
    BY <2>3 DEF Pro!vars, Pro!commandVars
  <2>6. QED
    BY <2>1, <2>2, <2>4, <2>5 DEF Pro!Next
<1>2. PICK ws : report' = Pro!Diff(got, ws)
  BY <1>1 DEF Pro!Kubectl
<1>3. \A r \in report' : r.kind = "orphaned" => r.id \notin {a.id : a \in got}
  BY <1>2 DEF Pro!Diff
<1>4. shifted \/ \A a \in Pro!Listing : a \in got \/ <<"app", a.id>> \in fresh
  BY DEF ProjectInv, SawItsApps
<1>5. QED
  BY <1>3, <1>4
=============================================================================
