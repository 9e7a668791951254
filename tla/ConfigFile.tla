----------------------------- MODULE ConfigFile -----------------------------
(***************************************************************************)
(* The configuration file and the commands that change it: `config         *)
(* set-token`, `use-tenant`, `add-tenant` and `login`, run by several      *)
(* processes (internal/config, cmd/config.go, cmd/login.go).               *)
(*                                                                         *)
(* Each process reads the whole file, lays its own DARKUBE_* variables     *)
(* over it, changes a field or two and writes the whole back, which        *)
(* truncates the file first: os.WriteFile is two steps, of which the       *)
(* second may fail half way, and nothing locks.  The base URL, which no    *)
(* command sets, is left out.                                              *)
(*                                                                         *)
(* Tunnels adds the commands that keep tunnel credentials in the file.     *)
(***************************************************************************)
EXTENDS Naturals, FiniteSets

CONSTANTS
  Procs,    \* processes, each running one command
  Commands, \* what they may run: records of a verb and its argument
  Names,    \* names of tunnel apps
  Values,   \* tokens, tenants, refresh tokens and credentials
  None,     \* no value
  Env       \* what the environment of each process sets, field by field

Config == [token : Values \union {None}, tenant : Values \union {None},
           tenants : SUBSET Values, refresh : Values \union {None},
           tunnels : [Names -> Values \union {None}]]

\* DARKUBE_TOKEN, _ORG, _REFRESH_TOKEN and _TENANTS, each set, set and empty, or
\* not set.
Overlay(e) ==
  /\ \A f \in {"token", "tenant", "refresh"} : f \in DOMAIN e => e[f] \in Values \union {None}
  /\ "tenants" \in DOMAIN e => e["tenants"] \in SUBSET Values

ASSUME NoneAssumption == None \notin Values
ASSUME EnvAssumption == \A p \in Procs : Overlay(Env[p])
ASSUME CommandsAssumption ==
  \A k \in Commands : k.arg \in IF k.verb \in {"up", "down"} THEN Names ELSE Values

\* An empty file, as truncation leaves it, is a configuration without values.
Empty == [token |-> None, tenant |-> None, tenants |-> {}, refresh |-> None,
          tunnels |-> [n \in Names |-> None]]

VARIABLES
  file,     \* what the file parses to
  corrupt,  \* it does not parse: two writes ran into each other
  writing,  \* the processes that have truncated it and not written yet
  cmd,      \* the command of each process
  pc,       \* what it does next
  cfg,      \* its copy of the configuration
  outcome,  \* how it ended
  loaded,   \* the file as it read it (history)
  clean,    \* nobody else has touched the file since (history)
  spoiled   \* a write was stale, overlapped, killed or failed (history)

fileVars == <<file, corrupt, writing>>
historyVars == <<loaded, clean, spoiled>>
configVars == <<fileVars, cmd, pc, cfg, outcome, historyVars>>

Phases == {"load", "login", "resolve", "prompt", "create", "delete",
           "open", "write", "attach", "done"}
Outcomes == {"running", "ok", "failed", "unsaved", "aborted", "lost", "killed"}

Goto(p, phase) == pc' = [pc EXCEPT ![p] = phase] /\ UNCHANGED outcome
Finish(p, end) == pc' = [pc EXCEPT ![p] = "done"] /\ outcome' = [outcome EXCEPT ![p] = end]

-----------------------------------------------------------------------------
\* A variable that is set wins, and one that is set and empty leaves no value.
Laid(e, f, old) == IF f \in DOMAIN e THEN e[f] ELSE old

\* Load: the file, and over it the environment.
Overlaid(c, e) ==
  [c EXCEPT !.token = Laid(e, "token", @), !.tenant = Laid(e, "tenant", @),
            !.tenants = Laid(e, "tenants", @), !.refresh = Laid(e, "refresh", @)]

\* Mutant: use-tenant begins a new list of tenants.
ChangedTenants(k, c) ==
  CASE k.verb = "set-token"  -> [c EXCEPT !.token = k.arg]
    [] k.verb = "use-tenant" -> [c EXCEPT !.tenant = k.arg, !.tenants = {k.arg}]
    [] k.verb = "add-tenant" -> [c EXCEPT !.tenants = @ \union {k.arg}]
    [] k.verb = "login"      -> [c EXCEPT !.refresh = k.arg]
    [] OTHER -> c

\* What the commands of the file make of their copy.
Changed(k, c) ==
  CASE k.verb = "set-token"  -> [c EXCEPT !.token = k.arg]
    [] k.verb = "use-tenant" -> [c EXCEPT !.tenant = k.arg, !.tenants = @ \union {k.arg}]
    [] k.verb = "add-tenant" -> [c EXCEPT !.tenants = @ \union {k.arg}]
    [] k.verb = "login"      -> [c EXCEPT !.refresh = k.arg]
    [] OTHER -> c

AfterLoad(k) ==
  CASE k.verb = "login" -> "login" [] k.verb \in {"up", "down"} -> "resolve" [] OTHER -> "open"

ConfigInit ==
  /\ \E v \in Values, held \in SUBSET Names :
       file = [Empty EXCEPT !.token = v, !.tenants = {v},
                            !.tunnels = [n \in Names |-> IF n \in held THEN v ELSE None]]
  /\ corrupt = FALSE /\ writing = {}
  /\ cmd \in [Procs -> Commands]
  /\ pc = [p \in Procs |-> "load"] /\ cfg = [p \in Procs |-> Empty]
  /\ outcome = [p \in Procs |-> "running"]
  /\ loaded = [p \in Procs |-> Empty] /\ clean = [p \in Procs |-> FALSE] /\ spoiled = FALSE

(* loadConfig; a file that does not parse ends the command, and so does    *)
(* one that cannot be read or a DARKUBE_TUNNELS, which is no map.          *)
Load(p) ==
  /\ pc[p] = "load"
  /\ \/ Finish(p, "failed") /\ UNCHANGED cfg
     \/ /\ ~corrupt
        /\ Goto(p, AfterLoad(cmd[p]))
        /\ cfg' = [cfg EXCEPT ![p] = Changed(cmd[p], Overlaid(file, Env[p]))]
  /\ loaded' = [loaded EXCEPT ![p] = file]
  /\ clean' = [clean EXCEPT ![p] = (writing = {})]
  /\ UNCHANGED <<fileVars, cmd, spoiled>>

(* loginAction: prompts and requests, with the configuration in hand.      *)
Login(p) ==
  /\ pc[p] = "login"
  /\ Goto(p, "open") \/ Finish(p, "failed")
  /\ UNCHANGED <<fileVars, cmd, cfg, historyVars>>

\* Nobody else's copy is fresh any more.
Touched(p) == clean' = [q \in Procs |-> clean[q] /\ q = p]

(* Save, first half: os.WriteFile opens the file and truncates it.         *)
OpenFile(p) ==
  /\ pc[p] = "open"
  /\ file' = Empty /\ corrupt' = FALSE /\ writing' = writing \union {p}
  /\ spoiled' = (spoiled \/ ~clean[p] \/ writing # {})
  /\ Touched(p)
  /\ Goto(p, "write")
  /\ UNCHANGED <<cmd, cfg, loaded>>

(* ... second half: the bytes.  If another's are there by now, they may mix. *)
WriteFile(p) ==
  /\ pc[p] = "write"
  /\ writing' = writing \ {p}
  /\ file' = cfg[p] /\ corrupt' \in {FALSE, file # Empty}
  /\ Touched(p)
  /\ UNCHANGED <<cmd, cfg, loaded, spoiled>>

\* The first n values of a configuration, in the order Save writes them; one
\* that is cut short is not the value it was.
Prefix(c, n) ==
  [tenant  |-> IF n > 0 THEN c.tenant ELSE None,
   refresh |-> IF n > 1 THEN c.refresh ELSE None,
   tenants |-> IF n > 2 THEN c.tenants ELSE {},
   token   |-> IF n > 3 THEN c.token ELSE None,
   tunnels |-> IF n > 4 THEN c.tunnels ELSE Empty.tunnels]

(* ... or only some of them: the disk is full, and what is left of the     *)
(* file may not parse.                                                     *)
WriteFails(p) ==
  /\ pc[p] = "write"
  /\ writing' = writing \ {p}
  /\ \E n \in 0..5 : file' = Prefix(cfg[p], n)
  /\ corrupt' \in BOOLEAN /\ spoiled' = TRUE
  /\ Touched(p)
  /\ UNCHANGED <<cmd, cfg, loaded>>

(* A file that cannot be opened is left as it was.                         *)
OpenFails(p) ==
  /\ pc[p] = "open"
  /\ UNCHANGED <<fileVars, cmd, cfg, historyVars>>

(* The process is killed.                                                  *)
Kill(p) ==
  /\ pc[p] # "done"
  /\ Finish(p, "killed")
  /\ writing' = writing \ {p}
  /\ spoiled' = (spoiled \/ p \in writing)
  /\ UNCHANGED <<file, corrupt, cmd, cfg, loaded, clean>>

\* The commands of the file end with their write.
ConfigCommand(p) == cmd[p].verb \notin {"up", "down"}

ConfigStep(p) ==
  \/ Load(p) \/ Login(p) \/ OpenFile(p) \/ Kill(p)
  \/ ConfigCommand(p) /\ WriteFile(p) /\ Finish(p, "ok")
  \/ ConfigCommand(p) /\ (OpenFails(p) \/ WriteFails(p)) /\ Finish(p, "failed")

-----------------------------------------------------------------------------
(* Properties.                                                             *)

\* Every variable keeps its type, and a truncated file is still to be written.
ConfigTypeOK ==
  /\ file \in Config /\ {corrupt, spoiled} \subseteq BOOLEAN
  /\ writing = {p \in Procs : pc[p] = "write"}
  /\ cmd \in [Procs -> Commands] /\ pc \in [Procs -> Phases]
  /\ {cfg, loaded} \subseteq [Procs -> Config]
  /\ outcome \in [Procs -> Outcomes] /\ clean \in [Procs -> BOOLEAN]

\* A save of the whole configuration.
Saves(p) == p \in writing /\ p \notin writing' /\ file' = cfg[p]

\* What a command must keep of a configuration: all but the field it sets.
\* Where the environment of the process sets one, that value is what the next
\* command finds in the file, and no other.
Keeps(k, e, a, b) ==
  /\ k.verb # "set-token" => b.token = Laid(e, "token", a.token)
  /\ k.verb # "use-tenant" => b.tenant = Laid(e, "tenant", a.tenant)
  /\ Laid(e, "tenants", a.tenants) \subseteq b.tenants
  /\ k.verb # "login" => b.refresh = Laid(e, "refresh", a.refresh)
  /\ \A n \in Names :
       k.verb \notin {"up", "down"} \/ k.arg # n => b.tunnels[n] = a.tunnels[n]

\* A save that nobody else's came in between leaves what its command is not
\* about as the file or the environment had it: the credentials above all,
\* which exist nowhere else and no variable can set (Load, Save).
SerialSaveKeepsOthers ==
  [][\A p \in Procs :
       Saves(p) /\ clean[p] => Keeps(cmd[p], Env[p], loaded[p], file')]_configVars
=============================================================================
