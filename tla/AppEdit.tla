------------------------------ MODULE AppEdit ------------------------------
(***************************************************************************)
(* The in-place edits of one app: `set env`, `set env --secret` and        *)
(* `set image`, run by several darkubectl processes at once.               *)
(*                                                                         *)
(* The API has no partial update, so every edit reads the whole app,       *)
(* changes one thing, shows the difference, asks, reads the app AGAIN,     *)
(* applies the same change to what it read, PUTs the whole object, and     *)
(* then re-reads until the change shows (cmd/mutate.go, runAppChange).     *)
(* The PUT answers 202: it is stored some time later, and a field the      *)
(* chart of the app does not know is dropped without an error.             *)
(*                                                                         *)
(* An environment variable list is a map from names to values; the order   *)
(* of the entries is left out.  The write of a process is kept in body[c]  *)
(* from the re-read on; c is in inflight while the platform has accepted   *)
(* that write and not stored it yet.                                       *)
(***************************************************************************)
EXTENDS Naturals

CONSTANTS
  Clients,         \* the darkubectl processes, each running one command
  Names,           \* environment variable names
  Values,          \* environment variable values
  Images,          \* image references
  Absent,          \* marks a variable the app does not have
  Blank,           \* the value a read of the app shows for every secret
  Commands,        \* the command lines the processes are started with
  Filtered,        \* the fields the platform accepts and drops for this app
  VerifyAttempts,  \* verifyAttempts: the read-backs after a write
  MaxConsoleEdits  \* bound: edits made by someone else in the web console

Kinds == {"env", "secret", "image"}
Fields == {"envs", "secrets", "image"}
EnvMap == [Names -> Values \union {Absent, Blank}]
App == [envs : EnvMap, secrets : EnvMap, image : Images]
Command == [kind : Kinds, set : EnvMap, remove : SUBSET Names,
            image : Images, dryRun : BOOLEAN]

ASSUME AbsentAssumption == Absent \notin Values \union {Blank}
ASSUME CommandsAssumption == Commands \subseteq Command
ASSUME FilteredAssumption == Filtered \subseteq Fields
ASSUME AttemptsAssumption == VerifyAttempts \in Nat \ {0}
ASSUME ConsoleAssumption == MaxConsoleEdits \in Nat

VARIABLES
  app,       \* the app as the platform stores it
  ver,       \* how many writes have been stored (history)
  console,   \* how many of them came from the web console
  inflight,  \* the processes whose write is accepted and not stored yet
  cmd,       \* the command line of each process
  pc,        \* what each process does next
  prepared,  \* the object runAppChange prepared and showed the diff of
  changed,   \* the fields that diff names
  body,      \* the object UpdateApp sends
  base,      \* ver when the data of body was read (history)
  guardVer,  \* ver when the name-clash check was made (history)
  tries,     \* read-backs made
  outcome,   \* how the process ended
  sent,      \* the processes whose write the platform accepted (history)
  held,      \* those whose change was in the stored app since (history)
  saw        \* what the read-backs of a process have shown (history)

serverVars == <<app, ver, console, inflight>>
planVars == <<cmd, prepared, changed, body, base, guardVer>>
historyVars == <<sent, held>>
endVars == <<tries, outcome, saw>>
vars == <<serverVars, planVars, historyVars, endVars, pc>>

Phases == {"guard", "prepare", "prompt", "rereadSecrets", "reread", "put",
           "verify", "done"}
Outcomes == {"running", "refused", "failed", "dryRun", "unchanged", "aborted",
             "updated", "ignored", "killed"}
Sights == {"nothing", "other", "change"}

-----------------------------------------------------------------------------
(* The changes a command line stands for.                                  *)

Named(k) == k.remove \union {n \in Names : k.set[n] # Absent}

\* applyEnvChange and mergeEnvs: additions first, then removals.
Merged(m, k) ==
  [n \in Names |-> IF n \in k.remove THEN Absent
                   ELSE IF k.set[n] # Absent THEN k.set[n] ELSE m[n]]

\* ... and ErrNoSuchEnv: a removal must name a variable that is there.
RemovalsPresent(m, k) ==
  \A n \in k.remove : m[n] # Absent \/ k.set[n] # Absent

Apply(k, a) ==
  CASE k.kind = "env"    -> [a EXCEPT !.envs = Merged(a.envs, k)]
    [] k.kind = "secret" -> [a EXCEPT !.secrets = Merged(a.secrets, k)]
    [] k.kind = "image"  -> [a EXCEPT !.image = k.image]

CanApply(k, a) ==
  CASE k.kind = "env"    -> RemovalsPresent(a.envs, k)
    [] k.kind = "secret" -> RemovalsPresent(a.secrets, k)
    [] k.kind = "image"  -> TRUE

\* The app already is what the command asks for.
Satisfies(k, a) == Apply(k, a) = a

\* Mutant: the name-clash check is missing.
ClashesUnchecked(k, a) == FALSE

\* The checks of setEnvAction and setSecretEnv against a variable of the
\* other kind under the same name.
Clashes(k, a) ==
  \/ k.kind = "env"    /\ \E n \in Named(k) : a.secrets[n] # Absent
  \/ k.kind = "secret" /\ \E n \in Named(k) : a.envs[n] # Absent

\* A read of the app shows the names of its secrets, never the values.
Blanked(m) == [n \in Names |-> IF m[n] = Absent THEN Absent ELSE Blank]

\* Mutant: the read-only secret list is echoed back.
SentFieldsEchoed(k) == Fields

\* normalizeForPut drops secret_envs; only UpdateSecretEnvs puts them back.
SentFields(k) == IF k.kind = "secret" THEN Fields ELSE Fields \ {"secrets"}

\* diffApps, over the fields of the normalized object; describeSecretChange.
Diff(k, a, b) == {f \in SentFields(k) : a[f] # b[f]}

\* Mutant: the secret path, which has checks of its own, forgets --dry-run.
VerdictDrySecret(k, a) ==
  CASE ~CanApply(k, a) -> "failed"
    [] CanApply(k, a) /\ k.dryRun /\ k.kind # "secret" -> "dryRun"
    [] CanApply(k, a) /\ (~k.dryRun \/ k.kind = "secret") /\ Diff(k, a, Apply(k, a)) = {} -> "unchanged"
    [] OTHER -> "prompt"

\* runAppChange and setSecretEnv: what becomes of a prepared change.
Verdict(k, a) ==
  CASE ~CanApply(k, a) -> "failed"
    [] CanApply(k, a) /\ k.dryRun -> "dryRun"
    [] CanApply(k, a) /\ ~k.dryRun /\ Diff(k, a, Apply(k, a)) = {} -> "unchanged"
    [] OTHER -> "prompt"

\* What the platform stores of a PUT.
Stored(k, a, b) ==
  LET kept(f) == f \in SentFields(k) \ Filtered
  IN  [envs    |-> IF kept("envs") THEN b.envs ELSE a.envs,
       secrets |-> IF kept("secrets") THEN b.secrets ELSE a.secrets,
       image   |-> IF kept("image") THEN b.image ELSE a.image]

\* Mutant: a 202 is taken for a stored write.
TookOnTrust(c, a) == TRUE

\* Mutant: the secret list is compared with the one prepared for the prompt.
TookAsPrepared(c, a) ==
  CASE cmd[c].kind = "image" -> a.image = cmd[c].image
    [] OTHER                 -> \A f \in changed[c] : a[f] = prepared[c][f]

\* took: the image, every field of the diff as it was prepared, or the secret
\* list as it was sent.
Took(c, a) ==
  CASE cmd[c].kind = "image"  -> a.image = cmd[c].image
    [] cmd[c].kind = "env"    -> \A f \in changed[c] : a[f] = prepared[c][f]
    [] cmd[c].kind = "secret" -> a.secrets = body[c].secrets

Shadowed(a) == \E n \in Names : a.envs[n] # Absent /\ a.secrets[n] # Absent

-----------------------------------------------------------------------------
Init ==
  /\ app \in {a \in App : /\ ~Shadowed(a)
                          /\ \A n \in Names : Blank \notin {a.envs[n], a.secrets[n]}}
  /\ ver = 0 /\ console = 0 /\ inflight = {}
  /\ cmd \in [Clients -> Commands]
  /\ pc = [c \in Clients |-> IF cmd[c].kind = "image" THEN "prepare" ELSE "guard"]
  /\ prepared = [c \in Clients |-> app] /\ body = [c \in Clients |-> app]
  /\ changed = [c \in Clients |-> {}]
  /\ base = [c \in Clients |-> 0] /\ guardVer = [c \in Clients |-> 0]
  /\ tries = [c \in Clients |-> 0]
  /\ outcome = [c \in Clients |-> "running"]
  /\ sent = {} /\ held = {}
  /\ saw = [c \in Clients |-> "nothing"]

Goto(c, phase) == pc' = [pc EXCEPT ![c] = phase] /\ UNCHANGED outcome
Finish(c, end) ==
  /\ pc' = [pc EXCEPT ![c] = "done"]
  /\ outcome' = [outcome EXCEPT ![c] = end]

\* The changes that are in the stored app while their write is out.
Holding(senders, a) == held' = held \union {c \in senders : Satisfies(cmd[c], a)}

(* A failed request other than a read-back ends the command.               *)
RequestFails(c) ==
  /\ pc[c] \in {"guard", "prepare", "rereadSecrets", "reread"}
  /\ Finish(c, "failed")
  /\ UNCHANGED <<serverVars, planVars, historyVars, tries, saw>>

(* GetApp before the change: is the name taken by the other kind?          *)
GuardRead(c) ==
  /\ pc[c] = "guard"
  /\ IF Clashes(cmd[c], app) THEN Finish(c, "refused") ELSE Goto(c, "prepare")
  /\ guardVer' = [guardVer EXCEPT ![c] = ver]
  /\ UNCHANGED <<serverVars, cmd, prepared, changed, body, base,
                 historyVars, tries, saw>>

(* PrepareAppUpdate (or the first vault read) and the diff.                *)
Prepare(c) ==
  /\ pc[c] = "prepare"
  /\ prepared' = [prepared EXCEPT ![c] = Apply(cmd[c], app)]
  /\ changed' = [changed EXCEPT ![c] = Diff(cmd[c], app, Apply(cmd[c], app))]
  /\ LET verdict == Verdict(cmd[c], app)
     IN  IF verdict = "prompt" THEN Goto(c, verdict) ELSE Finish(c, verdict)
  /\ UNCHANGED <<serverVars, cmd, body, base, guardVer, historyVars, tries, saw>>

(* confirm(): the answer, or --yes.                                        *)
Answer(c) ==
  /\ pc[c] = "prompt"
  /\ \/ Finish(c, "aborted")
     \/ Goto(c, IF cmd[c].kind = "secret" THEN "rereadSecrets" ELSE "reread")
  /\ UNCHANGED <<serverVars, planVars, historyVars, tries, saw>>

(* UpdateSecretEnvs reads the vault again and merges into what it read.    *)
RereadSecrets(c) ==
  /\ pc[c] = "rereadSecrets"
  /\ body' = [body EXCEPT ![c].secrets = Merged(app.secrets, cmd[c])]
  /\ base' = [base EXCEPT ![c] = ver]
  /\ IF CanApply(cmd[c], app) THEN Goto(c, "reread") ELSE Finish(c, "failed")
  /\ UNCHANGED <<serverVars, cmd, prepared, changed, guardVer, historyVars,
                 tries, saw>>

\* Mutant: the object shown before the prompt is sent, not a fresh one.
RebuiltBeforePrompt(c) == prepared[c]

\* The object an env or image edit sends: the change on a fresh read.
Rebuilt(c) == [Apply(cmd[c], app) EXCEPT !.secrets = Blanked(app.secrets)]

(* UpdateApp reads the app again and applies the change to what it read.   *)
Reread(c) ==
  /\ pc[c] = "reread"
  /\ IF cmd[c].kind = "secret"
     THEN /\ body' = [body EXCEPT ![c].envs = app.envs, ![c].image = app.image]
          /\ base' = base
          /\ Goto(c, "put")
     ELSE /\ body' = [body EXCEPT ![c] = Rebuilt(c)]
          /\ base' = [base EXCEPT ![c] = ver]
          /\ IF CanApply(cmd[c], app) THEN Goto(c, "put") ELSE Finish(c, "failed")
  /\ UNCHANGED <<serverVars, cmd, prepared, changed, guardVer, historyVars,
                 tries, saw>>

(* The PUT: accepted, accepted with the answer lost, or refused.           *)
Put(c) ==
  /\ pc[c] = "put"
  /\ \/ /\ inflight' = inflight \union {c}
        /\ sent' = sent \union {c}
        /\ Holding(sent \union {c}, app)
        /\ Goto(c, "verify") \/ Finish(c, "failed")
     \/ Finish(c, "failed") /\ UNCHANGED <<inflight, sent, held>>
  /\ UNCHANGED <<app, ver, console, planVars, tries, saw>>

\* Mutant: the attempts start over after a round.
NextTryWraps(c) == (tries[c] + 1) % VerifyAttempts
NextTry(c) == tries[c] + 1

\* Mutant: one attempt too many.
IsLastTryLate(c) == tries[c] = VerifyAttempts
IsLastTry(c) == NextTry(c) = VerifyAttempts

\* The write of c has been stored as it was sent, and still is (history).
AsWritten(c) == \A f \in SentFields(cmd[c]) : app[f] = body[c][f]

MissedTry(c) == IF IsLastTry(c) THEN Finish(c, "ignored") ELSE Goto(c, "verify")

(* One attempt of retryReadBack: the read shows the change, shows something *)
(* else, fails transiently (which costs an attempt) or fails for good.     *)
ReadBack(c) ==
  /\ pc[c] = "verify"
  /\ tries' = [tries EXCEPT ![c] = NextTry(c)]
  /\ \/ /\ saw' = [saw EXCEPT ![c] =
                     IF c \notin inflight /\ AsWritten(c) THEN "change"
                     ELSE IF @ = "nothing" THEN "other" ELSE @]
        /\ IF Took(c, app) THEN Finish(c, "updated") ELSE MissedTry(c)
     \/ MissedTry(c) /\ UNCHANGED saw
     \/ Finish(c, "failed") /\ UNCHANGED saw
  /\ UNCHANGED <<serverVars, planVars, historyVars>>

(* The process is interrupted, or its MCP parent kills it at the timeout.  *)
Kill(c) ==
  /\ pc[c] # "done"
  /\ Finish(c, "killed")
  /\ UNCHANGED <<serverVars, planVars, historyVars, tries, saw>>

-----------------------------------------------------------------------------
(* The platform stores an accepted write.                                  *)
Land(c) ==
  /\ c \in inflight
  /\ inflight' = inflight \ {c}
  /\ app' = Stored(cmd[c], app, body[c])
  /\ ver' = ver + 1
  /\ Holding(sent, app')
  /\ UNCHANGED <<console, planVars, sent, endVars, pc>>

(* Someone changes one variable, or the image, in the web console.         *)
ConsoleEdit ==
  /\ console < MaxConsoleEdits
  /\ \/ \E n \in Names, v \in Values \union {Absent} :
          app' = [app EXCEPT !.envs[n] = v] \/ app' = [app EXCEPT !.secrets[n] = v]
     \/ \E i \in Images : app' = [app EXCEPT !.image = i]
  /\ app' # app /\ (Shadowed(app') => Shadowed(app))
  /\ ver' = ver + 1
  /\ console' = console + 1
  /\ Holding(sent, app')
  /\ UNCHANGED <<inflight, planVars, sent, endVars, pc>>

Step(c) ==
  \/ GuardRead(c) \/ Prepare(c) \/ Answer(c) \/ RereadSecrets(c) \/ Reread(c)
  \/ Put(c) \/ ReadBack(c) \/ RequestFails(c)

Next ==
  \/ \E c \in Clients : Step(c) \/ Kill(c) \/ Land(c)
  \/ ConsoleEdit

(* A process that can take its next step takes it: nothing in the loop     *)
(* waits on another process, requests are bounded by requestTimeout, and   *)
(* the prompt is answered or its input closes.  The platform owes nothing. *)
Spec == Init /\ [][Next]_vars /\ \A c \in Clients : WF_vars(Step(c))

-----------------------------------------------------------------------------
(* Properties.                                                             *)

\* Every variable keeps its type, and a write is read back at most
\* VerifyAttempts times (retryReadBack).
TypeOK ==
  /\ app \in App /\ ver \in Nat /\ console \in 0..MaxConsoleEdits
  /\ inflight \subseteq Clients
  /\ cmd \in [Clients -> Commands] /\ pc \in [Clients -> Phases]
  /\ prepared \in [Clients -> App] /\ changed \in [Clients -> SUBSET Fields]
  /\ body \in [Clients -> App]
  /\ base \in [Clients -> Nat] /\ guardVer \in [Clients -> Nat]
  /\ tries \in [Clients -> 0..VerifyAttempts]
  /\ outcome \in [Clients -> Outcomes]
  /\ sent \subseteq Clients /\ held \subseteq Clients
  /\ saw \in [Clients -> Sights]

\* A command that reports the app updated had its write accepted, and the
\* stored app held its change at some moment since: a 202 alone, a dropped
\* field or a failed read-back never passes for success (verifyChange).
UpdatedWasStored == \A c \in Clients : outcome[c] = "updated" => c \in held \cap sent

\* Two apps agree on everything a command line does not name.
AgreeOutside(k, a, b) ==
  /\ k.kind # "image" => b.image = a.image
  /\ \A n \in Names :
       /\ k.kind # "env" \/ n \notin Named(k) => b.envs[n] = a.envs[n]
       /\ k.kind # "secret" \/ n \notin Named(k) => b.secrets[n] = a.secrets[n]

Stores(c) == c \in inflight /\ c \notin inflight'

\* A write that is stored over the very app it was read from leaves alone
\* everything its command does not name, although the whole object of
\* seventy fields is sent and the change is computed twice (UpdateApp).
SerialWriteKeepsOthers ==
  [][\A c \in Clients : Stores(c) /\ base[c] = ver => AgreeOutside(cmd[c], app, app')]_vars

\* The stored secrets change only by a secret edit (or the console): every
\* other command reads them blanked and must not write that back
\* (putDropFields), whatever it races with.
SecretsNeedSecretEdit ==
  [][app'.secrets # app.secrets =>
       \/ console' # console
       \/ \E c \in Clients : Stores(c) /\ cmd[c].kind = "secret"]_vars

\* If nothing was stored since a command checked its names, its write does
\* not make a variable both plain and secret, which the platform answers
\* with a failed Helm upgrade (setEnvAction, setSecretEnv).
NoShadowWithoutRace ==
  [][\A c \in Clients : Stores(c) /\ guardVer[c] = ver => (Shadowed(app') => Shadowed(app))]_vars

\* A secret or image edit reported as ignored never had a read-back show the
\* app exactly as that edit wrote it: the read-back compares with what was
\* sent, or with the value asked for, and not with the object of the prompt.
IgnoredIsTrueOfSecretsAndImages ==
  \A c \in Clients :
    outcome[c] = "ignored" /\ cmd[c].kind # "env" => saw[c] # "change"

\* Every command ends, whatever the platform does with its write.
EveryCommandEnds == \A c \in Clients : <>(pc[c] = "done")

-----------------------------------------------------------------------------
(* What the texts of the program say and the code does not do.             *)

\* cmd/mutate.go, errChangeIgnored: "the platform accepted the write but did
\* not store it".  A read-back of an env edit that shows the app exactly as
\* the edit wrote it is compared with the object prepared before the prompt.
IgnoredMeansNotStored == \A c \in Clients : outcome[c] = "ignored" => saw[c] # "change"
=============================================================================
