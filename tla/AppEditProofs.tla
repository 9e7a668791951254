--------------------------- MODULE AppEditProofs ---------------------------
(* Theorems about AppEdit for any number of processes, names and values.   *)
EXTENDS AppEditRefinement, TLAPS

-----------------------------------------------------------------------------
(* Facts about the operators.                                              *)

\* Applying the same additions and removals twice is applying them once.
LEMMA MergedIdempotent ==
  ASSUME NEW m \in EnvMap, NEW k \in Command
  PROVE  /\ Merged(m, k) \in EnvMap
         /\ Merged(Merged(m, k), k) = Merged(m, k)
BY DEF Merged, EnvMap, Command

LEMMA BlankedType ==
  ASSUME NEW m \in EnvMap
  PROVE  Blanked(m) \in EnvMap
BY DEF Blanked, EnvMap

LEMMA ApplyType ==
  ASSUME NEW k \in Command, NEW x \in App
  PROVE  Apply(k, x) \in App
<1>1. k.kind \in {"env", "secret", "image"} /\ k.image \in Images
  BY DEF Command, Kinds
<1>2. Merged(x.envs, k) \in EnvMap /\ Merged(x.secrets, k) \in EnvMap
  BY MergedIdempotent DEF App
<1>3. QED
  BY <1>1, <1>2 DEF Apply, App

LEMMA StoredType ==
  ASSUME NEW k \in Command, NEW x \in App, NEW y \in App
  PROVE  Stored(k, x, y) \in App
BY DEF Stored, App

LEMMA DiffType ==
  ASSUME NEW k \in Command, NEW x, NEW y
  PROVE  Diff(k, x, y) \in SUBSET Fields
BY DEF Diff, SentFields, Fields

-----------------------------------------------------------------------------
\* A running process has read-backs left: IsLastTry ends it on the last one.
TriesLeft == \A c \in Clients : pc[c] # "done" => tries[c] < VerifyAttempts

TypeInv == TypeOK /\ TriesLeft

LEMMA InitType == Init => TypeInv
<1> SUFFICES ASSUME Init PROVE TypeInv
  OBVIOUS
<1> USE DEF Init
<1>1. app \in App /\ ver \in Nat /\ inflight \subseteq Clients
  OBVIOUS
<1>2. console \in 0..MaxConsoleEdits /\ tries \in [Clients -> 0..VerifyAttempts]
  BY ConsoleAssumption, AttemptsAssumption
<1>3. pc \in [Clients -> Phases] /\ outcome \in [Clients -> Outcomes] /\ saw \in [Clients -> Sights]
  BY DEF Phases, Outcomes, Sights
<1>4. TriesLeft
  BY AttemptsAssumption DEF TriesLeft
<1>5. QED
  BY <1>1, <1>2, <1>3, <1>4 DEF TypeOK, TypeInv

\* Goto and Finish, the two ways a step moves a process on.
LEMMA MoveType ==
  ASSUME NEW c \in Clients, TypeOK,
         (\E p \in Phases : Goto(c, p)) \/ (\E e \in Outcomes : Finish(c, e))
  PROVE  /\ pc' \in [Clients -> Phases]
         /\ outcome' \in [Clients -> Outcomes]
BY DEF TypeOK, Goto, Finish, Phases

LEMMA NextTypeOK == TypeInv /\ [Next]_vars => TypeOK'
<1> SUFFICES ASSUME TypeOK, TriesLeft, [Next]_vars PROVE TypeOK'
  BY DEF TypeInv
<1>1. ASSUME NEW c \in Clients, RequestFails(c) PROVE TypeOK'
  <2>1. \E e \in Outcomes : Finish(c, e)
    BY <1>1 DEF RequestFails, Outcomes
  <2>2. QED
    BY <1>1, <2>1, MoveType DEF TypeOK, RequestFails, serverVars, planVars, historyVars
<1>2. ASSUME NEW c \in Clients, GuardRead(c) PROVE TypeOK'
  <2>1. (\E p \in Phases : Goto(c, p)) \/ (\E e \in Outcomes : Finish(c, e))
    BY <1>2 DEF GuardRead, Outcomes, Phases
  <2>2. guardVer' \in [Clients -> Nat]
    BY <1>2 DEF GuardRead, TypeOK
  <2>3. QED
    BY <1>2, <2>1, <2>2, MoveType DEF TypeOK, GuardRead, serverVars, historyVars
<1>3. ASSUME NEW c \in Clients, Prepare(c) PROVE TypeOK'
  <2>0. cmd[c] \in Command
    BY CommandsAssumption DEF TypeOK
  <2>1. Verdict(cmd[c], app) \in {"failed", "dryRun", "unchanged", "prompt"}
    BY DEF Verdict
  <2>2. (\E p \in Phases : Goto(c, p)) \/ (\E e \in Outcomes : Finish(c, e))
    BY <1>3, <2>1 DEF Prepare, Outcomes, Phases
  <2>3. Apply(cmd[c], app) \in App
    BY <2>0, ApplyType DEF TypeOK
  <2>4. Diff(cmd[c], app, Apply(cmd[c], app)) \in SUBSET Fields
    BY <2>0, DiffType
  <2>5. prepared' \in [Clients -> App] /\ changed' \in [Clients -> SUBSET Fields]
    BY <1>3, <2>3, <2>4 DEF Prepare, TypeOK
  <2>6. QED
    BY <1>3, <2>2, <2>5, MoveType DEF TypeOK, Prepare, serverVars, historyVars
<1>4. ASSUME NEW c \in Clients, Answer(c) PROVE TypeOK'
  <2>1. (\E p \in Phases : Goto(c, p)) \/ (\E e \in Outcomes : Finish(c, e))
    BY <1>4 DEF Answer, Outcomes, Phases
  <2>2. QED
    BY <1>4, <2>1, MoveType DEF TypeOK, Answer, serverVars, planVars, historyVars
<1>5. ASSUME NEW c \in Clients, RereadSecrets(c) PROVE TypeOK'
  <2>1. (\E p \in Phases : Goto(c, p)) \/ (\E e \in Outcomes : Finish(c, e))
    BY <1>5 DEF RereadSecrets, Outcomes, Phases
  <2>2. Merged(app.secrets, cmd[c]) \in EnvMap
    BY CommandsAssumption, MergedIdempotent DEF TypeOK, App
  <2>3. [body[c] EXCEPT !.secrets = Merged(app.secrets, cmd[c])] \in App
    BY <2>2 DEF TypeOK, App
  <2>4. body' \in [Clients -> App] /\ base' \in [Clients -> Nat]
    BY <1>5, <2>3 DEF RereadSecrets, TypeOK
  <2>5. QED
    BY <1>5, <2>1, <2>4, MoveType DEF TypeOK, RereadSecrets, serverVars, historyVars
<1>6. ASSUME NEW c \in Clients, Reread(c) PROVE TypeOK'
  <2>1. (\E p \in Phases : Goto(c, p)) \/ (\E e \in Outcomes : Finish(c, e))
    BY <1>6 DEF Reread, Outcomes, Phases
  <2>2. Apply(cmd[c], app) \in App /\ Blanked(app.secrets) \in EnvMap
    BY CommandsAssumption, ApplyType, BlankedType DEF TypeOK, App
  <2>3. Rebuilt(c) \in App
    BY <2>2 DEF Rebuilt, App
  <2>4. [body[c] EXCEPT !.envs = app.envs, !.image = app.image] \in App
    BY DEF TypeOK, App
  <2>5. body' \in [Clients -> App]
    BY <1>6, <2>3, <2>4 DEF Reread, TypeOK
  <2>6. base' \in [Clients -> Nat]
    BY <1>6 DEF Reread, TypeOK
  <2>7. QED
    BY <1>6, <2>1, <2>5, <2>6, MoveType DEF TypeOK, Reread, serverVars, historyVars
<1>7. ASSUME NEW c \in Clients, Put(c) PROVE TypeOK'
  <2>1. (\E p \in Phases : Goto(c, p)) \/ (\E e \in Outcomes : Finish(c, e))
    BY <1>7 DEF Put, Outcomes, Phases
  <2>2. inflight' \subseteq Clients /\ sent' \subseteq Clients /\ held' \subseteq Clients
    BY <1>7 DEF Put, TypeOK, Holding
  <2>3. QED
    BY <1>7, <2>1, <2>2, MoveType DEF TypeOK, Put, planVars
<1>8. ASSUME NEW c \in Clients, ReadBack(c) PROVE TypeOK'
  <2>1. (\E p \in Phases : Goto(c, p)) \/ (\E e \in Outcomes : Finish(c, e))
    BY <1>8 DEF ReadBack, MissedTry, Outcomes, Phases
  <2>2. saw' \in [Clients -> Sights]
    BY <1>8 DEF ReadBack, TypeOK, Sights
  <2>3. tries' \in [Clients -> 0..VerifyAttempts]
    BY <1>8, AttemptsAssumption DEF ReadBack, TypeOK, TriesLeft, NextTry
  <2>4. QED
    BY <1>8, <2>1, <2>2, <2>3, MoveType DEF TypeOK, ReadBack, serverVars, planVars, historyVars
<1>9. ASSUME NEW c \in Clients, Kill(c) PROVE TypeOK'
  <2>1. \E e \in Outcomes : Finish(c, e)
    BY <1>9 DEF Kill, Outcomes
  <2>2. QED
    BY <1>9, <2>1, MoveType DEF TypeOK, Kill, serverVars, planVars, historyVars
<1>10. ASSUME NEW c \in Clients, Land(c) PROVE TypeOK'
  <2>1. app' \in App
    BY <1>10, CommandsAssumption, StoredType DEF Land, TypeOK
  <2>2. inflight' \subseteq Clients /\ held' \subseteq Clients /\ ver' \in Nat
    BY <1>10 DEF Land, TypeOK, Holding
  <2>3. QED
    BY <1>10, <2>1, <2>2 DEF TypeOK, Land, planVars, endVars
<1>11. ASSUME ConsoleEdit PROVE TypeOK'
  <2>1. app' \in App
    <3>1. ASSUME NEW n \in Names, NEW v \in Values \union {Absent}
          PROVE  [app EXCEPT !.envs[n] = v] \in App /\ [app EXCEPT !.secrets[n] = v] \in App
      BY DEF TypeOK, App, EnvMap
    <3>2. ASSUME NEW i \in Images PROVE [app EXCEPT !.image = i] \in App
      BY DEF TypeOK, App
    <3>3. QED
      BY <1>11, <3>1, <3>2, Zenon DEF ConsoleEdit
  <2>2. held' \subseteq Clients /\ ver' \in Nat /\ console' \in 0..MaxConsoleEdits
    BY <1>11, ConsoleAssumption DEF ConsoleEdit, TypeOK, Holding
  <2>3. QED
    BY <1>11, <2>1, <2>2 DEF TypeOK, ConsoleEdit, planVars, endVars
<1>12. CASE UNCHANGED vars
  BY <1>12 DEF vars, serverVars, planVars, historyVars, endVars, TypeOK
<1>13. QED
  BY <1>1, <1>2, <1>3, <1>4, <1>5, <1>6, <1>7, <1>8, <1>9, <1>10, <1>11, <1>12 DEF Next, Step

LEMMA NextTriesLeft == TypeInv /\ [Next]_vars => TriesLeft'
<1> SUFFICES ASSUME TypeOK, TriesLeft, [Next]_vars, NEW d \in Clients, pc'[d] # "done"
             PROVE  tries'[d] < VerifyAttempts
  BY DEF TypeInv, TriesLeft
<1>1. ASSUME NEW c \in Clients, ReadBack(c) PROVE tries'[d] < VerifyAttempts
  <2>1. CASE d = c
    <3>1. pc' = [pc EXCEPT ![c] = "verify"] /\ ~IsLastTry(c)
      BY <1>1, <2>1 DEF ReadBack, MissedTry, Finish, Goto, TypeOK
    <3>2. tries'[c] = tries[c] + 1 /\ tries[c] + 1 # VerifyAttempts /\ tries[c] < VerifyAttempts
      BY <1>1, <3>1 DEF ReadBack, IsLastTry, NextTry, TriesLeft, TypeOK
    <3>3. QED
      BY <2>1, <3>2, AttemptsAssumption DEF TypeOK
  <2>2. CASE d # c
    <3>1. pc'[d] = pc[d] /\ tries'[d] = tries[d]
      BY <1>1, <2>2 DEF ReadBack, MissedTry, Finish, Goto, TypeOK
    <3>2. QED
      BY <3>1 DEF TriesLeft
  <2>3. QED
    BY <2>1, <2>2
<1>2. ASSUME NEW c \in Clients, Step(c) \/ Kill(c), ~ReadBack(c) PROVE tries'[d] < VerifyAttempts
  <2>1. tries' = tries /\ (pc[c] # "done") /\ (d # c => pc'[d] = pc[d])
    BY <1>2 DEF Step, Kill, RequestFails, GuardRead, Prepare, Answer, RereadSecrets, Reread, Put,
                Goto, Finish, TypeOK
  <2>2. QED
    BY <2>1 DEF TriesLeft
<1>3. CASE (\E c \in Clients : Land(c)) \/ ConsoleEdit \/ UNCHANGED vars
  BY <1>3 DEF Land, ConsoleEdit, vars, endVars, TriesLeft
<1>4. QED
  BY <1>1, <1>2, <1>3 DEF Next, Step

\* Every variable keeps its type whatever the processes, the platform and the
\* console do, for any commands, names and number of read-backs.
THEOREM TypeCorrect == Spec => []TypeOK
<1>1. Init => TypeInv
  BY InitType
<1>2. TypeInv /\ [Next]_vars => TypeInv'
  BY NextTypeOK, NextTriesLeft DEF TypeInv
<1>3. TypeInv => TypeOK
  BY DEF TypeInv
<1>4. QED
  BY <1>1, <1>2, <1>3, PTL DEF Spec

-----------------------------------------------------------------------------
(* Safety, from an inductive invariant on what a process has read, has     *)
(* sent and was shown.  First, what a stored write changes.                *)

\* The change of a command leaves alone what the command does not name.
LEMMA ApplyAgrees ==
  ASSUME NEW k \in Command, NEW x \in App
  PROVE  AgreeOutside(k, x, Apply(k, x))
<1>1. \A n \in Names : n \notin Named(k) =>
        Merged(x.envs, k)[n] = x.envs[n] /\ Merged(x.secrets, k)[n] = x.secrets[n]
  BY DEF Merged, Named
<1>2. k.kind \in {"env", "secret", "image"}
  BY DEF Command, Kinds
<1>3. QED
  BY <1>1, <1>2 DEF Apply, AgreeOutside, App

\* The part of y that PUT carries, the rest taken from x.
Outgoing(k, x, y) == IF k.kind = "secret" THEN y ELSE [y EXCEPT !.secrets = x.secrets]

\* Storing drops fields of a write, and adds none.
LEMMA StoredAgrees ==
  ASSUME NEW k \in Command, NEW x \in App, NEW y \in App, AgreeOutside(k, x, Outgoing(k, x, y))
  PROVE  AgreeOutside(k, x, Stored(k, x, y))
BY DEF Outgoing, AgreeOutside, Stored, SentFields, Fields, App

\* The stored secrets change only by a secret edit.
LEMMA StoredSecrets ==
  ASSUME NEW k, NEW x, NEW y, k.kind # "secret"
  PROVE  Stored(k, x, y).secrets = x.secrets
BY DEF Stored, SentFields

LEMMA SecretsStep == TypeOK /\ [Next]_vars =>
  (app'.secrets # app.secrets =>
     \/ console' # console
     \/ \E c \in Clients : Stores(c) /\ cmd[c].kind = "secret")
<1> SUFFICES ASSUME TypeOK, [Next]_vars, app'.secrets # app.secrets, console' = console
             PROVE  \E c \in Clients : Stores(c) /\ cmd[c].kind = "secret"
  OBVIOUS
<1>1. ASSUME NEW c \in Clients, Step(c) \/ Kill(c) PROVE app' = app
  BY <1>1 DEF Step, Kill, RequestFails, GuardRead, Prepare, Answer, RereadSecrets, Reread, Put,
              ReadBack, serverVars
<1>2. PICK c \in Clients : Land(c)
  <2>1. ~ConsoleEdit /\ ~UNCHANGED vars
    BY ConsoleAssumption DEF ConsoleEdit, vars, serverVars, TypeOK
  <2>2. QED
    BY <1>1, <2>1 DEF Next
<1>3. Stores(c)
  BY <1>2 DEF Land, Stores
<1>4. cmd[c].kind = "secret"
  BY <1>2, StoredSecrets DEF Land
<1>5. QED
  BY <1>3, <1>4

\* No command but a secret edit changes a stored secret, for any processes,
\* commands and platform filter.
THEOREM SecretsSafe == Spec => SecretsNeedSecretEdit
BY SecretsStep, TypeCorrect, PTL DEF Spec, SecretsNeedSecretEdit

-----------------------------------------------------------------------------
(* The inductive invariant.                                                *)

\* A write is out or stored only of a process past its PUT.
SentInv(c) ==
  /\ c \in inflight => c \in sent
  /\ c \in sent => pc[c] \in {"verify", "done"}
  /\ pc[c] = "verify" => c \in sent

\* While nothing was stored since the read a write is built on, that write
\* agrees with the stored app outside what the command names.
ReadInv(c) ==
  /\ base[c] <= ver
  /\ base[c] = ver /\ (pc[c] = "put" \/ c \in inflight) =>
       AgreeOutside(cmd[c], app, Outgoing(cmd[c], app, body[c]))
  /\ base[c] = ver /\ pc[c] = "reread" /\ cmd[c].kind = "secret" =>
       \A n \in Names : n \notin Named(cmd[c]) => body[c].secrets[n] = app.secrets[n]

SafeInv == \A c \in Clients : SentInv(c) /\ ReadInv(c)

LEMMA InitSafe == Init => SafeInv
<1> SUFFICES ASSUME Init, NEW c \in Clients PROVE SentInv(c) /\ ReadInv(c)
  BY DEF SafeInv
<1>1. pc[c] \in {"guard", "prepare"} /\ base[c] = ver /\ ver = 0
  BY DEF Init
<1>2. c \notin inflight /\ c \notin sent
  BY DEF Init
<1>3. QED
  BY <1>1, <1>2 DEF SentInv, ReadInv

\* The steps of a process touch nobody else's state, and not the stored app.
LEMMA Frame ==
  ASSUME TypeOK, NEW c \in Clients, Step(c) \/ Kill(c)
  PROVE  /\ app' = app /\ ver' = ver /\ cmd' = cmd
         /\ \A d \in Clients \ {c} :
              /\ pc'[d] = pc[d] /\ base'[d] = base[d] /\ body'[d] = body[d]
              /\ prepared'[d] = prepared[d] /\ changed'[d] = changed[d]
              /\ outcome'[d] = outcome[d]
              /\ d \in inflight' <=> d \in inflight
              /\ d \in sent' <=> d \in sent
BY DEF TypeOK, Step, Kill, RequestFails, GuardRead, Prepare, Answer, RereadSecrets, Reread, Put,
       ReadBack, MissedTry, Goto, Finish, serverVars, planVars, historyVars

LEMMA NextSafe == TypeOK /\ SafeInv /\ [Next]_vars => SafeInv'
<1> SUFFICES ASSUME TypeOK, SafeInv, [Next]_vars, NEW d \in Clients
             PROVE  SentInv(d)' /\ ReadInv(d)'
  BY DEF SafeInv
<1>0. SentInv(d) /\ ReadInv(d)
  BY DEF SafeInv
<1>1. ASSUME NEW c \in Clients, Step(c) \/ Kill(c), c # d PROVE SentInv(d)' /\ ReadInv(d)'
  BY <1>0, <1>1, Frame DEF SentInv, ReadInv
<1>2. CASE GuardRead(d) \/ Prepare(d) \/ Answer(d) \/ RequestFails(d) \/ Kill(d)
  <2>1. /\ app' = app /\ ver' = ver /\ cmd' = cmd /\ base' = base /\ body' = body
        /\ inflight' = inflight /\ sent' = sent
        /\ pc[d] # "done"
    BY <1>2 DEF GuardRead, Prepare, Answer, RequestFails, Kill, serverVars, planVars, historyVars
  <2>2. /\ pc'[d] \notin {"put", "verify"}
        /\ cmd[d].kind = "secret" => pc'[d] # "reread"
        /\ pc[d] = "verify" => pc'[d] = "done"
        /\ pc[d] # "verify" => d \notin sent
    BY <1>0, <1>2, <2>1 DEF GuardRead, Prepare, Answer, RequestFails, Kill, Goto, Finish, Verdict,
                            TypeOK, SentInv
  <2>3. QED
    BY <1>0, <2>1, <2>2 DEF SentInv, ReadInv
<1>3. CASE RereadSecrets(d)
  <2>1. cmd[d] \in Command /\ cmd' = cmd /\ app' = app /\ ver' = ver /\ ver \in Nat
    BY <1>3, CommandsAssumption DEF RereadSecrets, TypeOK, serverVars
  <2>2. body'[d].secrets = Merged(app.secrets, cmd[d]) /\ base'[d] = ver
    BY <1>3 DEF RereadSecrets, TypeOK, App
  <2>3. \A n \in Names : n \notin Named(cmd[d]) => body'[d].secrets[n] = app.secrets[n]
    BY <2>2 DEF Merged, Named
  <2>4. d \notin sent /\ d \notin inflight /\ sent' = sent /\ inflight' = inflight
    BY <1>0, <1>3 DEF RereadSecrets, SentInv, serverVars, historyVars
  <2>5. pc'[d] \in {"reread", "done"}
    BY <1>3 DEF RereadSecrets, Goto, Finish, TypeOK
  <2>6. QED
    BY <2>1, <2>2, <2>3, <2>4, <2>5 DEF SentInv, ReadInv
<1>4. CASE Reread(d)
  <2>1. cmd[d] \in Command /\ cmd' = cmd /\ app' = app /\ ver' = ver /\ ver \in Nat
    BY <1>4, CommandsAssumption DEF Reread, TypeOK, serverVars
  <2>2. d \notin sent /\ d \notin inflight /\ sent' = sent /\ inflight' = inflight
    BY <1>0, <1>4 DEF Reread, SentInv, serverVars, historyVars
  <2>3. pc'[d] \in {"put", "done"}
    BY <1>4 DEF Reread, Goto, Finish, TypeOK
  <2>4. base'[d] <= ver
    BY <1>0, <1>4, <2>1 DEF Reread, ReadInv, TypeOK
  <2>5. base'[d] = ver => AgreeOutside(cmd[d], app, Outgoing(cmd[d], app, body'[d]))
    <3>1. CASE cmd[d].kind = "secret"
      <4>1. /\ body'[d].envs = app.envs /\ body'[d].image = app.image
            /\ body'[d].secrets = body[d].secrets /\ base'[d] = base[d]
        BY <1>4, <3>1 DEF Reread, TypeOK, App
      <4>2. QED
        BY <1>0, <1>4, <3>1, <4>1 DEF Reread, ReadInv, AgreeOutside, Outgoing
    <3>2. CASE cmd[d].kind # "secret"
      <4>1. body'[d] = Rebuilt(d)
        BY <1>4, <3>2 DEF Reread, TypeOK
      <4>2. AgreeOutside(cmd[d], app, Apply(cmd[d], app)) /\ Apply(cmd[d], app) \in App
        BY <2>1, ApplyAgrees, ApplyType DEF TypeOK
      <4>3. Outgoing(cmd[d], app, body'[d]) = [Apply(cmd[d], app) EXCEPT !.secrets = app.secrets]
        BY <3>2, <4>1, <4>2 DEF Outgoing, Rebuilt, App
      <4>4. QED
        BY <3>2, <4>2, <4>3 DEF AgreeOutside, App
    <3>3. QED
      BY <3>1, <3>2
  <2>6. QED
    BY <2>1, <2>2, <2>3, <2>4, <2>5 DEF SentInv, ReadInv
<1>5. CASE Put(d)
  <2>1. /\ app' = app /\ ver' = ver /\ cmd' = cmd /\ base' = base /\ body' = body
        /\ pc[d] = "put" /\ d \notin sent
    BY <1>0, <1>5 DEF Put, planVars, SentInv
  <2>2. /\ pc'[d] \in {"verify", "done"}
        /\ d \in inflight' => d \in sent'
        /\ pc'[d] = "verify" => d \in sent'
    BY <1>0, <1>5, <2>1 DEF Put, Goto, Finish, TypeOK, SentInv
  <2>3. QED
    BY <1>0, <2>1, <2>2 DEF SentInv, ReadInv
<1>6. CASE ReadBack(d)
  <2>1. /\ app' = app /\ ver' = ver /\ cmd' = cmd /\ base' = base /\ body' = body
        /\ pc[d] = "verify" /\ sent' = sent /\ inflight' = inflight
    BY <1>6 DEF ReadBack, planVars, serverVars, historyVars
  <2>2. pc'[d] \in {"verify", "done"}
    BY <1>6 DEF ReadBack, MissedTry, Goto, Finish, TypeOK
  <2>3. QED
    BY <1>0, <2>1, <2>2 DEF SentInv, ReadInv
<1>7. CASE (\E c \in Clients : Land(c)) \/ ConsoleEdit
  <2>1. /\ ver' = ver + 1 /\ cmd' = cmd /\ base' = base /\ pc' = pc /\ sent' = sent
        /\ d \in inflight' => d \in inflight
        /\ ver \in Nat /\ base[d] \in Nat
    BY <1>7 DEF Land, ConsoleEdit, planVars, TypeOK
  <2>2. base'[d] < ver'
    BY <1>0, <2>1 DEF ReadInv
  <2>3. QED
    BY <1>0, <2>1, <2>2 DEF SentInv, ReadInv
<1>8. CASE UNCHANGED vars
  BY <1>0, <1>8 DEF vars, serverVars, planVars, historyVars, SentInv, ReadInv
<1>9. QED
  BY <1>1, <1>2, <1>3, <1>4, <1>5, <1>6, <1>7, <1>8 DEF Next, Step

LEMMA SerialStep == TypeOK /\ SafeInv /\ [Next]_vars =>
  \A c \in Clients : Stores(c) /\ base[c] = ver => AgreeOutside(cmd[c], app, app')
<1> SUFFICES ASSUME TypeOK, SafeInv, [Next]_vars, NEW c \in Clients, Stores(c), base[c] = ver
             PROVE  AgreeOutside(cmd[c], app, app')
  OBVIOUS
<1>1. Land(c)
  <2>1. ASSUME NEW d \in Clients, Step(d) \/ Kill(d) PROVE FALSE
    BY <2>1 DEF Stores, Step, Kill, RequestFails, GuardRead, Prepare, Answer, RereadSecrets,
                Reread, Put, ReadBack, serverVars
  <2>2. ASSUME NEW d \in Clients, Land(d), d # c PROVE FALSE
    BY <2>2 DEF Stores, Land
  <2>3. ~ConsoleEdit /\ ~UNCHANGED vars
    BY DEF Stores, ConsoleEdit, vars, serverVars
  <2>4. QED
    BY <2>1, <2>2, <2>3 DEF Next
<1>2. AgreeOutside(cmd[c], app, Outgoing(cmd[c], app, body[c]))
  BY DEF SafeInv, ReadInv, Stores
<1>3. app' = Stored(cmd[c], app, body[c])
  BY <1>1 DEF Land
<1>4. QED
  BY <1>2, <1>3, StoredAgrees, CommandsAssumption DEF TypeOK

\* A write stored over the app it was read from changes nothing its command
\* does not name, for any processes, commands, names and platform filter.
THEOREM SerialSafe == Spec => SerialWriteKeepsOthers
<1>1. Init => SafeInv
  BY InitSafe
<1>2. TypeOK /\ SafeInv /\ [Next]_vars => SafeInv'
  BY NextSafe
<1>3. QED
  BY <1>1, <1>2, SerialStep, TypeCorrect, PTL DEF Spec, SerialWriteKeepsOthers

-----------------------------------------------------------------------------
(* "Updated" is never said in vain, and AppEdit implements EditPromise.    *)

\* No dry run asks, and what a process past its prompt verifies is a fixed
\* point of its change.
PlanInv(c) ==
  /\ pc[c] = "prompt" => ~cmd[c].dryRun
  /\ pc[c] \in {"prompt", "rereadSecrets", "reread", "put", "verify"} /\ cmd[c].kind = "env" =>
       "envs" \in changed[c] /\ prepared[c].envs = Merged(prepared[c].envs, cmd[c])
  /\ pc[c] \in {"reread", "put", "verify"} /\ cmd[c].kind = "secret" =>
       body[c].secrets = Merged(body[c].secrets, cmd[c])

\* held is up to date, and success is only said of a held change.
HeldInv(c) ==
  /\ pc[c] = "done" <=> outcome[c] # "running"
  /\ c \in sent /\ Satisfies(cmd[c], app) => c \in held
  /\ c \in held => c \in sent
  /\ outcome[c] = "updated" => c \in held

PromiseInv == \A c \in Clients : PlanInv(c) /\ HeldInv(c)

LEMMA InitPromise == Init => PromiseInv
<1> SUFFICES ASSUME Init, NEW c \in Clients PROVE PlanInv(c) /\ HeldInv(c)
  BY DEF PromiseInv
<1>1. pc[c] \in {"guard", "prepare"} /\ outcome[c] = "running" /\ sent = {} /\ held = {}
  BY DEF Init
<1>2. QED
  BY <1>1 DEF PlanInv, HeldInv

\* A read-back that counts as success sees the change of the command.
LEMMA TookSatisfies ==
  ASSUME TypeOK, NEW c \in Clients, PlanInv(c), pc[c] = "verify", Took(c, app)
  PROVE  Satisfies(cmd[c], app)
<1>1. cmd[c] \in Command /\ cmd[c].kind \in {"env", "secret", "image"}
  BY CommandsAssumption DEF TypeOK, Command, Kinds
<1>2. CASE cmd[c].kind = "env"
  <2>1. app.envs = Merged(app.envs, cmd[c])
    BY <1>2 DEF Took, PlanInv
  <2>2. QED
    BY <1>2, <2>1 DEF Satisfies, Apply, TypeOK, App
<1>3. CASE cmd[c].kind = "secret"
  <2>1. app.secrets = Merged(app.secrets, cmd[c])
    BY <1>3 DEF Took, PlanInv
  <2>2. QED
    BY <1>3, <2>1 DEF Satisfies, Apply, TypeOK, App
<1>4. CASE cmd[c].kind = "image"
  BY <1>4 DEF Took, Satisfies, Apply, TypeOK, App
<1>5. QED
  BY <1>1, <1>2, <1>3, <1>4

LEMMA NextPlan == TypeOK /\ PromiseInv /\ [Next]_vars => \A d \in Clients : PlanInv(d)'
<1> SUFFICES ASSUME TypeOK, PromiseInv, [Next]_vars, NEW d \in Clients PROVE PlanInv(d)'
  OBVIOUS
<1>0. PlanInv(d) /\ cmd[d] \in Command
  BY CommandsAssumption DEF PromiseInv, TypeOK
<1>1. ASSUME NEW c \in Clients, Step(c) \/ Kill(c), c # d PROVE PlanInv(d)'
  BY <1>0, <1>1, Frame DEF PlanInv
<1>2. CASE GuardRead(d) \/ RequestFails(d) \/ Kill(d)
  <2>1. cmd' = cmd /\ pc'[d] \in {"prepare", "done"}
    BY <1>2 DEF GuardRead, RequestFails, Kill, Goto, Finish, TypeOK, planVars
  <2>2. QED
    BY <2>1 DEF PlanInv
<1>3. CASE Prepare(d)
  <2>1. cmd' = cmd /\ pc'[d] \in {"prompt", "done"}
    BY <1>3 DEF Prepare, Goto, Finish, TypeOK, Verdict
  <2>2. prepared'[d] = Apply(cmd[d], app) /\ changed'[d] = Diff(cmd[d], app, Apply(cmd[d], app))
    BY <1>3 DEF Prepare, TypeOK
  <2>3. ASSUME pc'[d] = "prompt", cmd[d].kind = "env"
        PROVE  "envs" \in changed'[d] /\ prepared'[d].envs = Merged(prepared'[d].envs, cmd[d])
    <3>1. Diff(cmd[d], app, Apply(cmd[d], app)) # {}
      <4>1. Verdict(cmd[d], app) = "prompt"
        BY <1>3, <2>3 DEF Prepare, Goto, Finish, TypeOK
      <4>2. CanApply(cmd[d], app) /\ ~cmd[d].dryRun
        BY <4>1, <1>0 DEF Verdict, Command
      <4>3. QED
        BY <4>1, <4>2 DEF Verdict
    <3>2. Apply(cmd[d], app) = [app EXCEPT !.envs = Merged(app.envs, cmd[d])]
      BY <2>3 DEF Apply
    <3>3. Apply(cmd[d], app).envs = Merged(app.envs, cmd[d])
      BY <3>2 DEF TypeOK, App
    <3>4. Diff(cmd[d], app, Apply(cmd[d], app)) \subseteq {"envs"}
      BY <3>2 DEF Diff, SentFields, Fields, TypeOK, App
    <3>5. QED
      BY <1>0, <2>2, <3>1, <3>3, <3>4, MergedIdempotent DEF TypeOK, App
  <2>4. pc'[d] = "prompt" => ~cmd[d].dryRun
    BY <1>0, <1>3 DEF Prepare, Goto, Finish, TypeOK, Verdict, Command
  <2>5. QED
    BY <2>1, <2>3, <2>4 DEF PlanInv
<1>4. CASE Answer(d)
  <2>1. /\ cmd' = cmd /\ prepared' = prepared /\ changed' = changed /\ body' = body
        /\ pc[d] = "prompt"
        /\ pc'[d] \in {"rereadSecrets", "reread", "done"}
        /\ pc'[d] = "reread" => cmd[d].kind # "secret"
    BY <1>4 DEF Answer, Goto, Finish, TypeOK, planVars
  <2>2. QED
    BY <1>0, <2>1 DEF PlanInv
<1>5. CASE RereadSecrets(d)
  <2>1. /\ cmd' = cmd /\ prepared' = prepared /\ changed' = changed
        /\ pc[d] = "rereadSecrets" /\ pc'[d] \in {"reread", "done"}
    BY <1>5 DEF RereadSecrets, Goto, Finish, TypeOK
  <2>2. body'[d].secrets = Merged(app.secrets, cmd[d])
    BY <1>5 DEF RereadSecrets, TypeOK, App
  <2>3. QED
    BY <1>0, <2>1, <2>2, MergedIdempotent DEF PlanInv, TypeOK, App
<1>6. CASE Reread(d)
  <2>1. /\ cmd' = cmd /\ prepared' = prepared /\ changed' = changed
        /\ pc[d] = "reread" /\ pc'[d] \in {"put", "done"}
    BY <1>6 DEF Reread, Goto, Finish, TypeOK
  <2>2. cmd[d].kind = "secret" => body'[d].secrets = body[d].secrets
    BY <1>6 DEF Reread, TypeOK, App
  <2>3. QED
    BY <1>0, <2>1, <2>2 DEF PlanInv
<1>7. CASE Put(d) \/ ReadBack(d)
  <2>1. /\ cmd' = cmd /\ prepared' = prepared /\ changed' = changed /\ body' = body
        /\ pc[d] \in {"put", "verify"} /\ pc'[d] \in {"verify", "done"}
    BY <1>7 DEF Put, ReadBack, MissedTry, Goto, Finish, TypeOK, planVars
  <2>2. QED
    BY <1>0, <2>1 DEF PlanInv
<1>8. CASE (\E c \in Clients : Land(c)) \/ ConsoleEdit \/ UNCHANGED vars
  BY <1>0, <1>8 DEF Land, ConsoleEdit, vars, planVars, PlanInv
<1>9. QED
  BY <1>1, <1>2, <1>3, <1>4, <1>5, <1>6, <1>7, <1>8 DEF Next, Step

\* What the user of process c learns, step by step: the case analysis that
\* both the invariant and the refinement rest on.
LEMMA StepHeld ==
  ASSUME TypeOK, SafeInv, PromiseInv, NEW c \in Clients, Step(c) \/ Kill(c)
  PROVE  /\ outcome[c] = "running"
         /\ pc'[c] = "done" <=> outcome'[c] # "running"
         /\ held \subseteq held' /\ held' \subseteq held \union {c}
         /\ c \in held' => c \in sent'
         /\ c \in sent' /\ Satisfies(cmd[c], app) => c \in held'
         /\ outcome'[c] = "updated" => c \in held /\ c \in sent
         /\ c \in sent => c \in sent' /\ held' = held
         /\ c \in sent' /\ c \notin sent => outcome'[c] \in {"running", "failed"}
<1>0. PlanInv(c) /\ HeldInv(c) /\ SentInv(c)
  BY DEF PromiseInv, SafeInv
<1>1. CASE GuardRead(c) \/ Prepare(c) \/ Answer(c) \/ RereadSecrets(c) \/ Reread(c)
           \/ RequestFails(c) \/ Kill(c)
  <2>1. sent' = sent /\ held' = held
    BY <1>1 DEF GuardRead, Prepare, Answer, RereadSecrets, Reread, RequestFails, Kill, historyVars
  <2>2. pc[c] # "done" /\ (pc'[c] = "done" <=> outcome'[c] # "running") /\ outcome'[c] # "updated"
    BY <1>0, <1>1 DEF GuardRead, Prepare, Answer, RereadSecrets, Reread, RequestFails, Kill, Goto,
                      Finish, Verdict, TypeOK, HeldInv
  <2>3. QED
    BY <1>0, <2>1, <2>2 DEF HeldInv
<1>2. CASE Put(c)
  <2>1. c \notin sent /\ pc[c] = "put"
    BY <1>0, <1>2 DEF Put, SentInv
  <2>2. /\ pc'[c] = "done" <=> outcome'[c] # "running"
        /\ outcome'[c] \in {"running", "failed"}
    BY <1>0, <1>2 DEF Put, Goto, Finish, TypeOK, HeldInv
  <2>3. CASE sent' = sent \union {c} /\ Holding(sent \union {c}, app)
    <3>1. \A d \in sent : Satisfies(cmd[d], app) => d \in held
      BY DEF PromiseInv, HeldInv, TypeOK
    <3>2. QED
      BY <1>0, <2>1, <2>2, <2>3, <3>1 DEF HeldInv, Holding
  <2>4. CASE sent' = sent /\ held' = held
    BY <1>0, <2>1, <2>2, <2>4 DEF HeldInv
  <2>5. QED
    BY <1>2, <2>3, <2>4 DEF Put
<1>3. CASE ReadBack(c)
  <2>1. pc[c] = "verify" /\ sent' = sent /\ held' = held /\ c \in sent
    BY <1>0, <1>3 DEF ReadBack, historyVars, SentInv
  <2>2. pc'[c] = "done" <=> outcome'[c] # "running"
    BY <1>0, <1>3 DEF ReadBack, MissedTry, Goto, Finish, TypeOK, HeldInv
  <2>3. outcome'[c] = "updated" => Took(c, app)
    BY <1>0, <1>3 DEF ReadBack, MissedTry, Goto, Finish, TypeOK, HeldInv
  <2>4. QED
    BY <1>0, <2>1, <2>2, <2>3, TookSatisfies DEF HeldInv
<1>4. QED
  BY <1>1, <1>2, <1>3 DEF Step

LEMMA NextHeld == TypeOK /\ SafeInv /\ PromiseInv /\ [Next]_vars => \A d \in Clients : HeldInv(d)'
<1> SUFFICES ASSUME TypeOK, SafeInv, PromiseInv, [Next]_vars, NEW d \in Clients PROVE HeldInv(d)'
  OBVIOUS
<1>0. HeldInv(d)
  BY DEF PromiseInv
<1>1. ASSUME NEW c \in Clients, Step(c) \/ Kill(c) PROVE HeldInv(d)'
  <2>1. app' = app /\ cmd' = cmd
    BY <1>1, Frame
  <2>2. CASE c = d
    BY <1>0, <1>1, <2>1, <2>2, StepHeld DEF HeldInv, Satisfies
  <2>3. CASE c # d
    BY <1>0, <1>1, <2>1, <2>3, StepHeld, Frame DEF HeldInv, Satisfies
  <2>4. QED
    BY <2>2, <2>3
<1>2. CASE (\E c \in Clients : Land(c)) \/ ConsoleEdit
  <2>1. /\ cmd' = cmd /\ pc' = pc /\ outcome' = outcome /\ sent' = sent
        /\ held' = held \union {c \in sent : Satisfies(cmd[c], app')}
    BY <1>2 DEF Land, ConsoleEdit, planVars, endVars, Holding
  <2>2. QED
    BY <1>0, <2>1 DEF HeldInv, Satisfies
<1>3. CASE UNCHANGED vars
  BY <1>0, <1>3 DEF vars, serverVars, planVars, historyVars, endVars, HeldInv, Satisfies
<1>4. QED
  BY <1>1, <1>2, <1>3 DEF Next

LEMMA Invariants == Spec => []TypeOK /\ []SafeInv /\ []PromiseInv
<1>1. Init => SafeInv /\ PromiseInv
  BY InitSafe, InitPromise
<1>2. TypeOK /\ SafeInv /\ [Next]_vars => SafeInv'
  BY NextSafe
<1>3. TypeOK /\ SafeInv /\ PromiseInv /\ [Next]_vars => PromiseInv'
  BY NextPlan, NextHeld DEF PromiseInv
<1>4. QED
  BY <1>1, <1>2, <1>3, TypeCorrect, PTL DEF Spec

\* An edit reported as updated was accepted by the platform and its change was
\* in the stored app since, for any processes, commands, filter and number of
\* read-backs.
THEOREM UpdatedSafe == Spec => []UpdatedWasStored
<1>1. PromiseInv => UpdatedWasStored
  BY DEF PromiseInv, HeldInv, UpdatedWasStored
<1>2. QED
  BY <1>1, Invariants, PTL

-----------------------------------------------------------------------------
(* The refinement.                                                         *)

StatusMap == [c \in Clients |-> StatusOf(c)]

promiseVars == <<StatusMap, DryRuns, sent, held>>

LEMMA InitMaps == Init => Promise!Init
<1> SUFFICES ASSUME Init PROVE Promise!Init
  OBVIOUS
<1>1. \A c \in Clients : StatusOf(c) = "open"
  BY DEF Init, StatusOf
<1>2. QED
  BY <1>1 DEF Init, Promise!Init, DryRuns

\* What the user of process c is told by its step, and what it sent by then.
LEMMA StepTells ==
  ASSUME TypeOK, SafeInv, PromiseInv, NEW c \in Clients, Step(c) \/ Kill(c)
  PROVE  \/ /\ sent' = sent /\ held' = held
            /\ \/ StatusOf(c)' = StatusOf(c)
               \/ StatusOf(c) \in {"open", "agreed"} /\ StatusOf(c)' = "unclear"
               \/ StatusOf(c) = "open" /\ StatusOf(c)' = "quiet"
               \/ StatusOf(c) = "open" /\ StatusOf(c)' = "agreed" /\ ~cmd[c].dryRun
               \/ StatusOf(c) = "agreed" /\ StatusOf(c)' = "confirmed" /\ c \in held
               \/ StatusOf(c) = "agreed" /\ StatusOf(c)' = "denied" /\ c \in sent
         \/ /\ c \notin sent /\ sent' = sent \union {c} /\ held' \in {held, held \union {c}}
            /\ StatusOf(c) = "agreed" /\ StatusOf(c)' \in {"agreed", "unclear"}
<1>0. PlanInv(c) /\ HeldInv(c) /\ SentInv(c) /\ outcome[c] = "running"
  BY StepHeld DEF PromiseInv, SafeInv
<1>1. CASE GuardRead(c) \/ Prepare(c)
  <2>1. sent' = sent /\ held' = held /\ StatusOf(c) = "open"
    BY <1>0, <1>1 DEF GuardRead, Prepare, historyVars, StatusOf
  <2>2. \/ pc'[c] \in {"prepare", "prompt"} /\ outcome'[c] = "running"
        \/ outcome'[c] \in {"refused", "dryRun", "unchanged", "failed"}
    BY <1>0, <1>1 DEF GuardRead, Prepare, Goto, Finish, Verdict, TypeOK
  <2>3. StatusOf(c)' \in {"open", "quiet", "unclear"}
    BY <2>2 DEF StatusOf
  <2>4. QED
    BY <2>1, <2>3
<1>2. CASE Answer(c)
  <2>1. sent' = sent /\ held' = held /\ StatusOf(c) = "open" /\ ~cmd[c].dryRun
    BY <1>0, <1>2 DEF Answer, historyVars, StatusOf, PlanInv
  <2>2. \/ pc'[c] \in {"rereadSecrets", "reread"} /\ outcome'[c] = "running"
        \/ outcome'[c] = "aborted"
    BY <1>0, <1>2 DEF Answer, Goto, Finish, TypeOK
  <2>3. StatusOf(c)' \in {"agreed", "quiet"}
    BY <2>2 DEF StatusOf
  <2>4. QED
    BY <2>1, <2>3
<1>3. CASE RereadSecrets(c) \/ Reread(c)
  <2>1. sent' = sent /\ held' = held /\ StatusOf(c) = "agreed"
    BY <1>0, <1>3 DEF RereadSecrets, Reread, historyVars, StatusOf
  <2>2. \/ pc'[c] \in {"reread", "put"} /\ outcome'[c] = "running"
        \/ outcome'[c] = "failed"
    BY <1>0, <1>3 DEF RereadSecrets, Reread, Goto, Finish, TypeOK
  <2>3. StatusOf(c)' \in {"agreed", "unclear"}
    BY <2>2 DEF StatusOf
  <2>4. QED
    BY <2>1, <2>3
<1>4. CASE RequestFails(c) \/ Kill(c)
  <2>1. sent' = sent /\ held' = held /\ outcome'[c] \in {"failed", "killed"}
    BY <1>4 DEF RequestFails, Kill, historyVars, Finish, TypeOK
  <2>2. StatusOf(c) \in {"open", "agreed"} /\ StatusOf(c)' = "unclear"
    BY <1>0, <2>1 DEF StatusOf
  <2>3. QED
    BY <2>1, <2>2
<1>5. CASE Put(c)
  <2>1. c \notin sent /\ StatusOf(c) = "agreed"
    BY <1>0, <1>5 DEF Put, SentInv, StatusOf
  <2>2. \/ pc'[c] = "verify" /\ outcome'[c] = "running"
        \/ outcome'[c] = "failed"
    BY <1>0, <1>5 DEF Put, Goto, Finish, TypeOK
  <2>3. StatusOf(c)' \in {"agreed", "unclear"}
    BY <2>2 DEF StatusOf
  <2>4. CASE sent' = sent /\ held' = held
    BY <2>1, <2>3, <2>4
  <2>5. CASE sent' = sent \union {c} /\ Holding(sent \union {c}, app)
    <3>1. held \subseteq held' /\ held' \subseteq held \union {c}
      BY StepHeld
    <3>2. QED
      BY <2>1, <2>3, <2>5, <3>1
  <2>6. QED
    BY <1>5, <2>4, <2>5 DEF Put
<1>6. CASE ReadBack(c)
  <2>1. sent' = sent /\ held' = held /\ StatusOf(c) = "agreed" /\ c \in sent
    BY <1>0, <1>6 DEF ReadBack, historyVars, SentInv, StatusOf
  <2>2. \/ pc'[c] = "verify" /\ outcome'[c] = "running"
        \/ outcome'[c] \in {"updated", "ignored", "failed"}
    BY <1>0, <1>6 DEF ReadBack, MissedTry, Goto, Finish, TypeOK
  <2>3. outcome'[c] = "updated" => c \in held
    BY StepHeld
  <2>4. \/ StatusOf(c)' \in {"agreed", "denied", "unclear"}
        \/ StatusOf(c)' = "confirmed" /\ outcome'[c] = "updated"
    BY <2>2 DEF StatusOf
  <2>5. QED
    BY <2>1, <2>3, <2>4
<1>7. QED
  BY <1>1, <1>2, <1>3, <1>4, <1>5, <1>6 DEF Step

LEMMA StepMaps ==
  ASSUME TypeOK, SafeInv, PromiseInv, NEW c \in Clients, Step(c) \/ Kill(c)
  PROVE  Promise!Next \/ UNCHANGED promiseVars
<1>1. \A d \in Clients \ {c} : StatusOf(d)' = StatusOf(d)
  BY Frame DEF StatusOf
<1>2. StatusMap' = [StatusMap EXCEPT ![c] = StatusOf(c)'] /\ StatusMap[c] = StatusOf(c)
  BY <1>1 DEF StatusMap
<1>3. DryRuns' = DryRuns /\ (~cmd[c].dryRun => c \notin DryRuns)
  BY Frame DEF DryRuns
<1>4. CASE sent' = sent /\ held' = held /\ StatusOf(c)' = StatusOf(c)
  BY <1>2, <1>3, <1>4 DEF promiseVars, StatusMap
<1>5. CASE sent' = sent /\ held' = held /\ StatusOf(c) \in {"open", "agreed"} /\ StatusOf(c)' = "unclear"
  <2>1. Promise!Fail(c)
    BY <1>2, <1>5 DEF StatusMap, Promise!Fail, Promise!Become
  <2>2. QED
    BY <1>3, <2>1 DEF Promise!Next
<1>6. CASE sent' = sent /\ held' = held /\ StatusOf(c) = "open" /\ StatusOf(c)' = "quiet"
  <2>1. Promise!EndQuiet(c)
    BY <1>2, <1>6 DEF StatusMap, Promise!EndQuiet, Promise!Become
  <2>2. QED
    BY <1>3, <2>1 DEF Promise!Next
<1>7. CASE sent' = sent /\ held' = held /\ StatusOf(c) = "open" /\ StatusOf(c)' = "agreed" /\ ~cmd[c].dryRun
  <2>1. Promise!Agree(c)
    BY <1>2, <1>3, <1>7 DEF StatusMap, Promise!Agree, Promise!Become
  <2>2. QED
    BY <1>3, <2>1 DEF Promise!Next
<1>8. CASE sent' = sent /\ held' = held /\ StatusOf(c) = "agreed" /\ StatusOf(c)' = "confirmed" /\ c \in held
  <2>1. Promise!Confirm(c)
    BY <1>2, <1>8 DEF StatusMap, Promise!Confirm, Promise!Become
  <2>2. QED
    BY <1>3, <2>1 DEF Promise!Next
<1>9. CASE sent' = sent /\ held' = held /\ StatusOf(c) = "agreed" /\ StatusOf(c)' = "denied" /\ c \in sent
  <2>1. Promise!Deny(c)
    BY <1>2, <1>9 DEF StatusMap, Promise!Deny, Promise!Become
  <2>2. QED
    BY <1>3, <2>1 DEF Promise!Next
<1>10. CASE /\ c \notin sent /\ sent' = sent \union {c} /\ held' \in {held, held \union {c}}
            /\ StatusOf(c) = "agreed" /\ StatusOf(c)' \in {"agreed", "unclear"}
  <2>1. Promise!Send(c)
    BY <1>2, <1>10 DEF StatusMap, Promise!Send, Promise!Become
  <2>2. QED
    BY <1>3, <2>1 DEF Promise!Next
<1>11. QED
  BY <1>4, <1>5, <1>6, <1>7, <1>8, <1>9, <1>10, StepTells

LEMMA NextMaps == TypeOK /\ SafeInv /\ PromiseInv /\ [Next]_vars => [Promise!Next]_promiseVars
<1> SUFFICES ASSUME TypeOK, SafeInv, PromiseInv, [Next]_vars
             PROVE  Promise!Next \/ UNCHANGED promiseVars
  OBVIOUS
<1>1. ASSUME NEW c \in Clients, Step(c) \/ Kill(c)
      PROVE  Promise!Next \/ UNCHANGED promiseVars
  BY <1>1, StepMaps
<1>2. CASE (\E c \in Clients : Land(c)) \/ ConsoleEdit
  <2>1. /\ outcome' = outcome /\ pc' = pc /\ cmd' = cmd /\ sent' = sent
        /\ held' = held \union {c \in sent : Satisfies(cmd[c], app')}
    BY <1>2 DEF Land, ConsoleEdit, endVars, planVars, Holding
  <2>2. StatusMap' = StatusMap /\ DryRuns' = DryRuns
    BY <2>1 DEF StatusMap, StatusOf, DryRuns
  <2>3. Promise!Store
    <3> DEFINE new == {c \in sent : Satisfies(cmd[c], app')}
    <3>1. new \in SUBSET sent /\ held' = held \union new
      BY <2>1
    <3> HIDE DEF new
    <3>2. QED
      BY <2>1, <2>2, <3>1 DEF Promise!Store, StatusMap
  <2>4. QED
    BY <2>2, <2>3 DEF Promise!Next
<1>3. CASE UNCHANGED vars
  BY <1>3 DEF vars, serverVars, planVars, historyVars, endVars, promiseVars, StatusMap, StatusOf, DryRuns
<1>4. QED
  BY <1>1, <1>2, <1>3 DEF Next

\* The edit commands implement the promise made to their user, for any
\* processes, commands, filter and number of read-backs.
THEOREM PromiseKept == Spec => KeepsPromise
<1>1. Init => Promise!Init
  BY InitMaps
<1>2. TypeOK /\ SafeInv /\ PromiseInv /\ [Next]_vars =>
        [Promise!Next]_<<[c \in Clients |-> StatusOf(c)], DryRuns, sent, held>>
  BY NextMaps DEF StatusMap, promiseVars
<1>3. QED
  BY <1>1, <1>2, Invariants, PTL DEF Spec, KeepsPromise, Promise!Spec

-----------------------------------------------------------------------------
(* "Ignored" is true of edits of secrets and of the image.                 *)

\* An image edit sends the image it was asked for; a read-back that shows such
\* a write, or one of secrets, as it was sent has ended its command well.
SightInv(c) ==
  /\ pc[c] \in {"put", "verify"} /\ cmd[c].kind = "image" => body[c].image = cmd[c].image
  /\ saw[c] = "change" /\ cmd[c].kind # "env" => pc[c] = "done" /\ outcome[c] = "updated"

LEMMA InitSight == Init => \A c \in Clients : SightInv(c)
BY DEF Init, SightInv

\* What a read-back shows as it was written passes for success.
LEMMA WrittenTook ==
  ASSUME TypeOK, NEW c \in Clients, SightInv(c), pc[c] = "verify", cmd[c].kind # "env", AsWritten(c)
  PROVE  Took(c, app)
<1>1. cmd[c].kind \in {"secret", "image"}
  BY CommandsAssumption DEF TypeOK, Command, Kinds
<1>2. "image" \in SentFields(cmd[c]) /\ (cmd[c].kind = "secret" => "secrets" \in SentFields(cmd[c]))
  BY DEF SentFields, Fields
<1>3. CASE cmd[c].kind = "secret"
  <2>1. app["secrets"] = body[c]["secrets"]
    BY <1>2, <1>3 DEF AsWritten
  <2>2. QED
    BY <1>3, <2>1 DEF Took
<1>4. CASE cmd[c].kind = "image"
  <2>1. app["image"] = body[c]["image"]
    BY <1>2 DEF AsWritten
  <2>2. QED
    BY <1>4, <2>1 DEF Took, SightInv
<1>5. QED
  BY <1>1, <1>3, <1>4

LEMMA NextSight == TypeOK /\ (\A c \in Clients : SightInv(c)) /\ [Next]_vars => \A c \in Clients : SightInv(c)'
<1> SUFFICES ASSUME TypeOK, \A c \in Clients : SightInv(c), [Next]_vars, NEW d \in Clients
             PROVE  SightInv(d)'
  OBVIOUS
<1>0. SightInv(d) /\ cmd[d] \in Command
  BY CommandsAssumption DEF TypeOK
<1>1. ASSUME NEW c \in Clients, Step(c) \/ Kill(c), c # d PROVE SightInv(d)'
  <2>1. saw'[d] = saw[d]
    BY <1>1 DEF TypeOK, Step, Kill, RequestFails, GuardRead, Prepare, Answer, RereadSecrets, Reread, Put,
                ReadBack
  <2>2. QED
    BY <1>0, <1>1, <2>1, Frame DEF SightInv
<1>2. CASE GuardRead(d) \/ Prepare(d) \/ Answer(d) \/ RereadSecrets(d) \/ RequestFails(d)
  <2>1. saw' = saw /\ cmd' = cmd /\ pc[d] # "done" /\ pc'[d] \notin {"put", "verify"}
    BY <1>2 DEF GuardRead, Prepare, Answer, RereadSecrets, RequestFails, Goto, Finish, Verdict, TypeOK, planVars
  <2>2. QED
    BY <1>0, <2>1 DEF SightInv
<1>3. CASE Kill(d)
  BY <1>0, <1>3 DEF Kill, SightInv, Finish, TypeOK, planVars
<1>4. CASE Reread(d)
  <2>1. saw' = saw /\ cmd' = cmd /\ pc[d] = "reread"
    BY <1>4 DEF Reread
  <2>2. cmd[d].kind = "image" => body'[d].image = cmd[d].image
    <3>1. CASE cmd[d].kind = "image"
      <4>1. body'[d] = Rebuilt(d) /\ Apply(cmd[d], app) = [app EXCEPT !.image = cmd[d].image]
        BY <1>4, <3>1 DEF Reread, TypeOK, Apply
      <4>2. QED
        BY <4>1 DEF Rebuilt, TypeOK, App
    <3>2. QED
      BY <3>1
  <2>3. QED
    BY <1>0, <2>1, <2>2 DEF SightInv
<1>5. CASE Put(d)
  <2>1. saw' = saw /\ cmd' = cmd /\ body' = body /\ pc[d] = "put"
    BY <1>5 DEF Put, planVars
  <2>2. QED
    BY <1>0, <2>1 DEF SightInv
<1>6. CASE ReadBack(d)
  <2>1. cmd' = cmd /\ body' = body /\ app' = app /\ pc[d] = "verify" /\ (cmd[d].kind # "env" => saw[d] # "change")
    BY <1>0, <1>6 DEF ReadBack, planVars, serverVars, SightInv
  <2>2. CASE UNCHANGED saw
    BY <1>0, <2>1, <2>2 DEF SightInv
  <2>3. CASE /\ saw' = [saw EXCEPT ![d] = IF d \notin inflight /\ AsWritten(d) THEN "change"
                                          ELSE IF @ = "nothing" THEN "other" ELSE @]
             /\ IF Took(d, app) THEN Finish(d, "updated") ELSE MissedTry(d)
    <3>1. CASE cmd[d].kind # "env" /\ saw'[d] = "change"
      <4>1. AsWritten(d)
        BY <2>1, <2>3, <3>1 DEF TypeOK
      <4>2. Finish(d, "updated")
        BY <1>0, <2>1, <2>3, <3>1, <4>1, WrittenTook
      <4>3. QED
        BY <2>1, <4>2 DEF Finish, TypeOK, SightInv
    <3>2. CASE ~(cmd[d].kind # "env" /\ saw'[d] = "change")
      BY <1>0, <2>1, <3>2 DEF SightInv
    <3>3. QED
      BY <3>1, <3>2
  <2>4. QED
    BY <1>6, <2>2, <2>3 DEF ReadBack
<1>7. CASE (\E c \in Clients : Land(c)) \/ ConsoleEdit \/ UNCHANGED vars
  BY <1>0, <1>7 DEF Land, ConsoleEdit, vars, planVars, endVars, SightInv
<1>8. QED
  BY <1>1, <1>2, <1>3, <1>4, <1>5, <1>6, <1>7 DEF Next, Step

\* An edit of a secret or of the image that is reported as ignored never had a
\* read-back show its write as it was sent, however the platform delays, drops
\* or interleaves the writes (setSecretEnv, setImageAction, retryReadBack).
THEOREM IgnoredSafe == Spec => []IgnoredIsTrueOfSecretsAndImages
<1> DEFINE I == \A c \in Clients : SightInv(c)
<1>1. Init => I
  BY InitSight
<1>2. TypeOK /\ I /\ [Next]_vars => I'
  BY NextSight
<1>3. I => IgnoredIsTrueOfSecretsAndImages
  BY DEF SightInv, IgnoredIsTrueOfSecretsAndImages
<1>4. QED
  BY <1>1, <1>2, <1>3, TypeCorrect, PTL DEF Spec

-----------------------------------------------------------------------------
(* Without a race no write makes a variable both plain and secret.         *)

\* A write is built on a read no older than the check of its names; while
\* nothing was stored since that check, the names are free.
GuardInv(c) ==
  /\ guardVer[c] <= ver
  /\ \/ pc[c] = "put" \/ c \in inflight \/ (pc[c] = "reread" /\ cmd[c].kind = "secret")
     => guardVer[c] <= base[c]
  /\ guardVer[c] = ver /\ cmd[c].kind # "image" /\ (pc[c] \notin {"guard", "done"} \/ c \in inflight)
     => ~Clashes(cmd[c], app)

LEMMA InitGuard == Init => \A c \in Clients : GuardInv(c)
<1> SUFFICES ASSUME Init, NEW c \in Clients PROVE GuardInv(c)
  OBVIOUS
<1>1. /\ guardVer[c] = 0 /\ ver = 0 /\ c \notin inflight
      /\ pc[c] = IF cmd[c].kind = "image" THEN "prepare" ELSE "guard"
  BY DEF Init
<1>2. QED
  BY <1>1 DEF GuardInv

LEMMA NextGuard ==
  TypeOK /\ SafeInv /\ (\A c \in Clients : GuardInv(c)) /\ [Next]_vars => \A c \in Clients : GuardInv(c)'
<1> SUFFICES ASSUME TypeOK, SafeInv, \A c \in Clients : GuardInv(c), [Next]_vars, NEW d \in Clients
             PROVE  GuardInv(d)'
  OBVIOUS
<1>0. /\ GuardInv(d) /\ SentInv(d) /\ guardVer \in [Clients -> Nat] /\ base \in [Clients -> Nat] /\ ver \in Nat
      /\ pc \in [Clients -> Phases]
  BY DEF SafeInv, TypeOK
<1>1. ASSUME NEW c \in Clients, Step(c) \/ Kill(c), c # d PROVE GuardInv(d)'
  <2>1. guardVer'[d] = guardVer[d]
    BY <1>0, <1>1 DEF Step, Kill, RequestFails, GuardRead, Prepare, Answer, RereadSecrets, Reread, Put, ReadBack,
                planVars
  <2>2. Clashes(cmd[d], app)' = Clashes(cmd[d], app)
    BY <1>1, Frame DEF Clashes
  <2>3. QED
    BY <1>0, <1>1, <2>1, <2>2, Frame DEF GuardInv
<1>2. CASE GuardRead(d)
  <2>1. /\ pc[d] = "guard" /\ app' = app /\ ver' = ver /\ cmd' = cmd /\ base' = base /\ inflight' = inflight
        /\ guardVer'[d] = ver /\ d \notin inflight
    BY <1>0, <1>2 DEF GuardRead, serverVars, SentInv
  <2>2. pc'[d] = "done" \/ (pc'[d] = "prepare" /\ ~Clashes(cmd[d], app))
    BY <1>0, <1>2 DEF GuardRead, Goto, Finish
  <2>3. Clashes(cmd[d], app)' = Clashes(cmd[d], app)
    BY <2>1 DEF Clashes
  <2>4. QED
    BY <1>0, <2>1, <2>2, <2>3 DEF GuardInv
<1>3. CASE (Step(d) /\ ~GuardRead(d)) \/ Kill(d)
  <2>1. app' = app /\ ver' = ver /\ cmd' = cmd /\ guardVer' = guardVer
    BY <1>3 DEF Step, Kill, RequestFails, Prepare, Answer, RereadSecrets, Reread, Put, ReadBack,
                planVars, serverVars
  <2>2. Clashes(cmd[d], app)' = Clashes(cmd[d], app)
    BY <2>1 DEF Clashes
  <2>3. pc[d] # "done" /\ (pc[d] = "guard" => pc'[d] = "done" /\ inflight' = inflight)
    BY <1>0, <1>3 DEF Step, Kill, RequestFails, Prepare, Answer, RereadSecrets, Reread, Put, ReadBack,
                      serverVars, Finish
  <2>4. d \in inflight' => d \in inflight \/ pc[d] = "put"
    BY <1>3 DEF Step, Kill, RequestFails, Prepare, Answer, RereadSecrets, Reread, Put, ReadBack, serverVars
  <2>5. (pc'[d] = "put" \/ d \in inflight' \/ (pc'[d] = "reread" /\ cmd[d].kind = "secret"))
          => guardVer[d] <= base'[d]
    <3>1. CASE RereadSecrets(d) \/ Reread(d)
      <4>1. pc[d] \in {"rereadSecrets", "reread"} /\ d \notin inflight' /\ base'[d] \in {base[d], ver}
            /\ (base'[d] = ver \/ (pc[d] = "reread" /\ cmd[d].kind = "secret" /\ base'[d] = base[d]))
        BY <1>0, <3>1 DEF RereadSecrets, Reread, serverVars, SentInv
      <4>2. QED
        BY <1>0, <4>1 DEF GuardInv
    <3>2. CASE RequestFails(d) \/ Prepare(d) \/ Kill(d) \/ Answer(d)
      <4>1. pc'[d] # "put" /\ base' = base /\ inflight' = inflight
            /\ (pc'[d] = "reread" => cmd[d].kind # "secret")
        BY <1>0, <3>2 DEF RequestFails, Prepare, Kill, Answer, Goto, Finish, Verdict, planVars, serverVars
      <4>2. QED
        BY <1>0, <4>1 DEF GuardInv
    <3>3. CASE Put(d) \/ ReadBack(d)
      <4>1. pc[d] \in {"put", "verify"} /\ pc'[d] \in {"verify", "done"} /\ base' = base
            /\ (pc[d] = "verify" => inflight' = inflight)
        BY <1>0, <3>3 DEF Put, ReadBack, MissedTry, Goto, Finish, planVars, serverVars
      <4>2. QED
        BY <1>0, <2>4, <4>1 DEF GuardInv
    <3>4. QED
      BY <1>3, <3>1, <3>2, <3>3 DEF Step
  <2>6. QED
    BY <1>0, <2>1, <2>2, <2>3, <2>4, <2>5 DEF GuardInv
<1>4. CASE (\E c \in Clients : Land(c)) \/ ConsoleEdit
  <2>1. /\ ver' = ver + 1 /\ cmd' = cmd /\ base' = base /\ pc' = pc /\ guardVer' = guardVer
        /\ d \in inflight' => d \in inflight
    BY <1>4 DEF Land, ConsoleEdit, planVars
  <2>2. guardVer'[d] < ver'
    BY <1>0, <2>1 DEF GuardInv
  <2>3. QED
    BY <1>0, <2>1, <2>2 DEF GuardInv
<1>5. CASE UNCHANGED vars
  <2>1. Clashes(cmd[d], app)' = Clashes(cmd[d], app)
    BY <1>5 DEF vars, serverVars, planVars, Clashes
  <2>2. QED
    BY <1>0, <1>5, <2>1 DEF vars, serverVars, planVars, GuardInv
<1>6. QED
  BY <1>1, <1>2, <1>3, <1>4, <1>5 DEF Next

\* If nothing was stored since a command checked its names, its write makes no
\* variable both plain and secret, for any commands and names (setEnvAction,
\* setSecretEnv).
THEOREM NoShadowSafe == Spec => NoShadowWithoutRace
<1> DEFINE I == \A c \in Clients : GuardInv(c)
<1>1. ASSUME TypeOK, SafeInv, I, [Next]_vars, NEW c \in Clients, Stores(c), guardVer[c] = ver
      PROVE  Shadowed(app') => Shadowed(app)
  <2>1. base[c] = ver
    BY <1>1 DEF GuardInv, SafeInv, ReadInv, Stores, TypeOK
  <2>2. AgreeOutside(cmd[c], app, app')
    BY <1>1, <2>1, SerialStep
  <2>3. cmd[c].kind \in {"env", "secret", "image"} /\ (cmd[c].kind # "image" => ~Clashes(cmd[c], app))
    BY <1>1, CommandsAssumption DEF GuardInv, Stores, TypeOK, Command, Kinds
  <2>4. ASSUME NEW n \in Names, app'.envs[n] # Absent, app'.secrets[n] # Absent
        PROVE  app.envs[n] # Absent /\ app.secrets[n] # Absent
    BY <2>2, <2>3, <2>4 DEF AgreeOutside, Clashes
  <2>5. QED
    BY <2>4 DEF Shadowed
<1>2. TypeOK /\ SafeInv /\ I /\ [Next]_vars =>
        [\A c \in Clients : Stores(c) /\ guardVer[c] = ver => (Shadowed(app') => Shadowed(app))]_vars
  BY <1>1
<1>3. Init => I
  BY InitGuard
<1>4. TypeOK /\ SafeInv /\ I /\ [Next]_vars => I'
  BY NextGuard
<1> HIDE DEF I
<1>5. QED
  BY <1>2, <1>3, <1>4, Invariants, PTL DEF Spec, NoShadowWithoutRace
=============================================================================
