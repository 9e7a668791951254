--------------------------- MODULE TunnelsProofs ---------------------------
(***************************************************************************)
(* Theorems about Tunnels, for any number of commands, tunnels and values: *)
(* a credential in the file is that of the tunnel which runs, and is there *)
(* while it runs.                                                          *)
(***************************************************************************)
EXTENDS Tunnels, TLAPS

-----------------------------------------------------------------------------
(* The inductive invariant.                                                *)

\* What a command's save makes of the tunnels that it read.
Saved(p) ==
  IF Up(p) THEN [loaded[p].tunnels EXCEPT ![Name(p)] = Minted[p]]
  ELSE IF Down(p) THEN [loaded[p].tunnels EXCEPT ![Name(p)] = None]
  ELSE loaded[p].tunnels

\* A command's copy is what it read until it has created or deleted the app.
CopyOf(p) ==
  /\ pc[p] = "create" => Up(p)
  /\ pc[p] = "delete" => Down(p)
  /\ pc[p] \in {"resolve", "prompt", "attach"} => ~ConfigCommand(p)
  /\ pc[p] = "login" => ConfigCommand(p)
  /\ pc[p] # "done" => outcome[p] = "running"
  /\ pc[p] \in {"login", "resolve", "prompt", "create", "delete"} => cfg[p].tunnels = loaded[p].tunnels
  /\ pc[p] \in {"open", "write"} => cfg[p].tunnels = Saved(p)
  /\ pc[p] \notin {"load", "done"} => Keeps(cmd[p], Env[p], loaded[p], cfg[p])

\* What it read is still in the file unless somebody else has touched that.
CleanCopy(p) ==
  clean[p] /\ pc[p] \in {"login", "resolve", "prompt", "create", "delete", "open"} =>
    writing = {} /\ loaded[p] = file

\* A credential is nowhere until its process has created an app with it.
Unused(p) ==
  pc[p] \in {"load", "login", "resolve", "prompt", "create"} =>
    \A n \in Names :
      file.tunnels[n] # Minted[p] /\ server[n] # Minted[p] /\ \A q \in Procs : cfg[q].tunnels[n] # Minted[p]

\* A tunnel that replaced a command's own before its save is not in the file it
\* is about to write over.
NotYetInFile(p) ==
  (pc[p] = "open" /\ ~ConfigCommand(p) /\ clean[p] /\ phase[Name(p)] = "running") =>
    (Up(p) /\ server[Name(p)] = Minted[p]) \/ server[Name(p)] # file.tunnels[Name(p)]

\* The running tunnels have their credentials in t, or are yet to be saved.
Opens(t) == \A n \in Names : phase[n] = "running" => t[n] = server[n] \/ Unsaved(n)

\* So it is with the file, and with what is being written to it.
FileOpens ==
  ~spoiled =>
    /\ \A p, q \in writing : p = q
    /\ writing = {} => Opens(file.tunnels)
    /\ \A p \in writing : Opens(cfg[p].tunnels)

OfProcess(p) == CopyOf(p) /\ CleanCopy(p) /\ Unused(p) /\ NotYetInFile(p)
TunnelsInv == TypeOK /\ (\A p \in Procs : OfProcess(p)) /\ FileOpens

-----------------------------------------------------------------------------
(* Facts about the operators.                                              *)

LEMMA Goes ==
  ASSUME NEW p \in Procs, NEW to \in Phases, TypeOK, Goto(p, to)
  PROVE  /\ pc' \in [Procs -> Phases] /\ outcome' \in [Procs -> Outcomes] /\ outcome' = outcome
         /\ pc'[p] = to /\ \A q \in Procs \ {p} : pc'[q] = pc[q]
BY DEF Goto, TypeOK, ConfigTypeOK

LEMMA Ends ==
  ASSUME NEW p \in Procs, NEW how \in Outcomes, TypeOK, Finish(p, how)
  PROVE  /\ pc' \in [Procs -> Phases] /\ outcome' \in [Procs -> Outcomes]
         /\ pc'[p] = "done" /\ outcome'[p] = how
         /\ \A q \in Procs \ {p} : pc'[q] = pc[q] /\ outcome'[q] = outcome[q]
BY DEF Finish, TypeOK, ConfigTypeOK, Phases

\* What Load makes of the file.
LEMMA LoadedCopy ==
  ASSUME NEW k \in Commands, NEW e, Overlay(e), NEW c \in Config
  PROVE  /\ Changed(k, Overlaid(c, e)) \in Config
         /\ Changed(k, Overlaid(c, e)).tunnels = c.tunnels
         /\ Keeps(k, e, c, Changed(k, Overlaid(c, e)))
<1> DEFINE o == Overlaid(c, e)
<1>1. /\ o \in Config /\ o.tunnels = c.tunnels
      /\ o.token = Laid(e, "token", c.token) /\ o.tenant = Laid(e, "tenant", c.tenant)
      /\ o.tenants = Laid(e, "tenants", c.tenants) /\ o.refresh = Laid(e, "refresh", c.refresh)
  BY DEF Overlaid, Laid, Config, Overlay
<1> HIDE DEF o
<1>2. k.verb \notin {"up", "down"} => k.arg \in Values
  BY CommandsAssumption
<1>3. CASE k.verb = "set-token"
  BY <1>1, <1>2, <1>3 DEF Changed, Keeps, Config, o
<1>4. CASE k.verb = "use-tenant"
  BY <1>1, <1>2, <1>4 DEF Changed, Keeps, Config, o
<1>5. CASE k.verb = "add-tenant"
  BY <1>1, <1>2, <1>5 DEF Changed, Keeps, Config, o
<1>6. CASE k.verb = "login"
  BY <1>1, <1>2, <1>6 DEF Changed, Keeps, Config, o
<1>7. CASE k.verb \notin {"set-token", "use-tenant", "add-tenant", "login"}
  BY <1>1, <1>7 DEF Changed, Keeps, o
<1>8. QED
  BY <1>3, <1>4, <1>5, <1>6, <1>7

\* What stays unsaved.
LEMMA StaysUnsaved ==
  ASSUME NEW n \in Names, cmd' = cmd, server'[n] = server[n],
         \A q \in Procs : (Up(q) /\ Name(q) = n /\ server[n] = Minted[q]
                           /\ (pc[q] = "open" \/ told[q] \/ outcome[q] \in {"lost", "killed"})) =>
            (pc'[q] = "open" \/ told'[q] \/ outcome'[q] \in {"lost", "killed"})
  PROVE  Unsaved(n) => Unsaved(n)'
BY DEF Unsaved, Up, Name

\* What is so of a process stays so while another acts: what that one leaves.
LeavesTo(q) ==
  /\ cmd' = cmd /\ pc'[q] = pc[q] /\ outcome'[q] = outcome[q] /\ cfg'[q] = cfg[q] /\ loaded'[q] = loaded[q]
  /\ clean'[q] => clean[q] /\ file' = file /\ writing' \subseteq writing
  /\ \A n \in Names :
       /\ file'.tunnels[n] \in {file.tunnels[n], None} \cup {cfg[r].tunnels[n] : r \in Procs}
       /\ server'[n] \in {server[n], None} \cup {Minted[r] : r \in Procs \ {q}}
       /\ \A r \in Procs : cfg'[r].tunnels[n] \in
            {cfg[r].tunnels[n], file.tunnels[n], None} \cup {Minted[m] : m \in Procs \ {q}}
       /\ phase'[n] = "running" /\ ~(phase[n] = "running" /\ server'[n] = server[n]) =>
            \E r \in Procs \ {q} : server'[n] = Minted[r] /\ Unused(r) /\ pc[r] = "create"

LEMMA OthersKeep ==
  ASSUME NEW q \in Procs, TypeOK, OfProcess(q), LeavesTo(q)
  PROVE  OfProcess(q)'
<1> USE DEF OfProcess
<1>1. CopyOf(q)'
  BY DEF CopyOf, LeavesTo, ConfigCommand, Up, Down, Name, Saved
<1>2. CleanCopy(q)'
  BY DEF CleanCopy, LeavesTo
<1>3. Unused(q)'
  <2>1. Minted[q] # None /\ \A r \in Procs \ {q} : Minted[r] # Minted[q]
    BY MintedAssumption, NoneAssumption
  <2>2. QED
    BY <2>1 DEF Unused, LeavesTo
<1>4. NotYetInFile(q)'
  <2>1. SUFFICES ASSUME pc[q] = "open", ~ConfigCommand(q), clean'[q], phase'[Name(q)] = "running"
                 PROVE  (Up(q) /\ server'[Name(q)] = Minted[q]) \/ server'[Name(q)] # file'.tunnels[Name(q)]
    BY DEF NotYetInFile, LeavesTo, ConfigCommand, Up, Name
  <2>2. clean[q] /\ file' = file
    BY <2>1 DEF LeavesTo
  <2>3. Name(q) \in Names
    BY <2>1, CommandsAssumption DEF TypeOK, ConfigTypeOK, Name, ConfigCommand
  <2>4. CASE phase[Name(q)] = "running" /\ server'[Name(q)] = server[Name(q)]
    BY <2>1, <2>2, <2>4 DEF NotYetInFile
  <2>5. CASE \E r \in Procs \ {q} : server'[Name(q)] = Minted[r] /\ Unused(r) /\ pc[r] = "create"
    BY <2>2, <2>3, <2>5 DEF Unused
  <2>6. QED
    BY <2>1, <2>3, <2>4, <2>5 DEF LeavesTo
<1>5. QED
  BY <1>1, <1>2, <1>3, <1>4

-----------------------------------------------------------------------------
(* The steps.                                                              *)

\* A step of a command that touches neither the file nor the platform.
LEMMA QuietStep ==
  ASSUME NEW p \in Procs, TunnelsInv,
         UNCHANGED <<fileVars, cmd, cfg, historyVars, phase, server>>, pc[p] \notin {"load", "write", "done"},
         \/ \E how \in {"ok", "failed", "aborted"} : Finish(p, how)
         \/ pc[p] \in {"resolve", "prompt"} /\ \E to \in {"prompt", IF Up(p) THEN "create" ELSE "delete"} : Goto(p, to)
         \/ pc[p] = "login" /\ Goto(p, "open")
         \/ pc[p] = "open" /\ ~ConfigCommand(p) /\ Goto(p, "attach"),
         told' = told \/ told' = [told EXCEPT ![p] = Up(p)],
         pc[p] = "open" /\ Up(p) => told' = [told EXCEPT ![p] = Up(p)]
  PROVE  TunnelsInv'
<1>1. TypeOK /\ OfProcess(p) /\ cmd[p] \in Commands
  BY DEF TunnelsInv, TypeOK, ConfigTypeOK
<1>2. UNCHANGED <<file, corrupt, writing, loaded, clean, spoiled>>
  BY DEF fileVars, historyVars
<1>3. /\ pc' \in [Procs -> Phases] /\ outcome' \in [Procs -> Outcomes]
      /\ \A q \in Procs \ {p} : pc'[q] = pc[q] /\ outcome'[q] = outcome[q]
      /\ \/ pc'[p] = "done"
         \/ /\ outcome'[p] = outcome[p]
            /\ \/ pc[p] \in {"resolve", "prompt"} /\ pc'[p] \in {"prompt", IF Up(p) THEN "create" ELSE "delete"}
               \/ pc[p] = "login" /\ pc'[p] = "open"
               \/ pc[p] = "open" /\ ~ConfigCommand(p) /\ pc'[p] = "attach"
  <2>1. CASE \E how \in {"ok", "failed", "aborted"} : Finish(p, how)
    BY <1>1, <2>1, Ends DEF Outcomes
  <2>2. CASE \E to \in Phases : /\ Goto(p, to)
                                /\ \/ pc[p] \in {"resolve", "prompt"} /\ to \in {"prompt", IF Up(p) THEN "create" ELSE "delete"}
                                   \/ pc[p] = "login" /\ to = "open"
                                   \/ pc[p] = "open" /\ ~ConfigCommand(p) /\ to = "attach"
    BY <1>1, <2>2, Goes
  <2>3. QED
    BY <2>1, <2>2 DEF Phases
<1>4. told' \in [Procs -> BOOLEAN] /\ \A q \in Procs \ {p} : told'[q] = told[q]
  BY <1>1 DEF TypeOK, Up
<1>5. TypeOK'
  <2>1. pc[p] # "write" /\ pc'[p] # "write"
    BY <1>3
  <2>2. writing' = {q \in Procs : pc'[q] = "write"}
    BY <1>1, <1>2, <1>3, <2>1 DEF TypeOK, ConfigTypeOK
  <2>3. QED
    BY <1>1, <1>2, <1>3, <1>4, <2>2 DEF TypeOK, ConfigTypeOK
<1>6. OfProcess(p)'
  <2>1. CopyOf(p)'
    BY <1>1, <1>2, <1>3 DEF OfProcess, CopyOf, ConfigCommand, Up, Down, Name, Saved
  <2>2. CleanCopy(p)'
    BY <1>1, <1>2, <1>3 DEF OfProcess, CleanCopy
  <2>3. Unused(p)'
    BY <1>1, <1>2, <1>3 DEF OfProcess, Unused
  <2>4. NotYetInFile(p)'
    BY <1>1, <1>2, <1>3 DEF OfProcess, CopyOf, NotYetInFile, ConfigCommand, Up, Name
  <2>5. QED
    BY <2>1, <2>2, <2>3, <2>4 DEF OfProcess
<1>7. ASSUME NEW q \in Procs \ {p} PROVE OfProcess(q)'
  <2>1. LeavesTo(q)
    BY <1>2, <1>3 DEF LeavesTo
  <2>2. QED
    BY <1>1, <2>1, OthersKeep DEF TunnelsInv
<1>8. FileOpens'
  <2>1. ASSUME NEW n \in Names PROVE Unsaved(n) => Unsaved(n)'
    <3>1. (Up(p) /\ (pc[p] = "open" \/ told[p] \/ outcome[p] \in {"lost", "killed"})) => told'[p]
      BY <1>1 DEF OfProcess, CopyOf, TypeOK
    <3>2. QED
      BY <1>3, <1>4, <3>1, StaysUnsaved
  <2>2. \A t : Opens(t) => Opens(t)'
    BY <2>1 DEF Opens
  <2>3. QED
    BY <1>2, <2>2 DEF TunnelsInv, FileOpens
<1>9. QED
  BY <1>5, <1>6, <1>7, <1>8 DEF TunnelsInv

LEMMA LoadStep == ASSUME NEW p \in Procs, TunnelsInv, Load(p), UNCHANGED tunnelVars PROVE TunnelsInv'
<1>1. /\ TypeOK /\ OfProcess(p) /\ cmd[p] \in Commands /\ file \in Config /\ Overlay(Env[p])
      /\ pc[p] = "load" /\ outcome[p] = "running"
  BY EnvAssumption DEF TunnelsInv, TypeOK, ConfigTypeOK, Load, OfProcess, CopyOf
<1>2. UNCHANGED <<file, corrupt, writing, cmd, spoiled, phase, server, told>>
  BY DEF Load, fileVars, tunnelVars
<1>3. /\ pc' \in [Procs -> Phases] /\ outcome' \in [Procs -> Outcomes]
      /\ \A q \in Procs \ {p} : pc'[q] = pc[q] /\ outcome'[q] = outcome[q]
      /\ \/ pc'[p] = "done" /\ cfg' = cfg
         \/ /\ outcome' = outcome /\ pc'[p] = AfterLoad(cmd[p])
            /\ cfg' = [cfg EXCEPT ![p] = Changed(cmd[p], Overlaid(file, Env[p]))]
  <2>1. CASE Finish(p, "failed") /\ cfg' = cfg
    BY <1>1, <2>1, Ends DEF Outcomes
  <2>2. CASE Goto(p, AfterLoad(cmd[p])) /\ cfg' = [cfg EXCEPT ![p] = Changed(cmd[p], Overlaid(file, Env[p]))]
    <3>1. AfterLoad(cmd[p]) \in Phases
      BY DEF AfterLoad, Phases
    <3>2. QED
      BY <1>1, <2>2, <3>1, Goes
  <2>3. QED
    BY <2>1, <2>2 DEF Load
<1>4. /\ AfterLoad(cmd[p]) \in {"login", "resolve", "open"}
      /\ AfterLoad(cmd[p]) = "login" => cmd[p].verb = "login"
      /\ (AfterLoad(cmd[p]) = "resolve" <=> cmd[p].verb \in {"up", "down"})
  BY DEF AfterLoad
<1>5. /\ loaded' \in [Procs -> Config] /\ loaded'[p] = file /\ \A q \in Procs \ {p} : loaded'[q] = loaded[q]
  BY <1>1 DEF Load, TypeOK, ConfigTypeOK
<1>6. clean' \in [Procs -> BOOLEAN] /\ (clean'[p] <=> writing = {}) /\ \A q \in Procs \ {p} : clean'[q] = clean[q]
  BY <1>1 DEF Load, TypeOK, ConfigTypeOK
<1>7. cfg' \in [Procs -> Config] /\ \A q \in Procs \ {p} : cfg'[q] = cfg[q]
  BY <1>1, <1>3, LoadedCopy DEF TypeOK, ConfigTypeOK
<1>8. pc'[p] # "done" => cfg'[p].tunnels = file.tunnels /\ Keeps(cmd[p], Env[p], file, cfg'[p])
  <2>1. cfg \in [Procs -> Config]
    BY <1>1 DEF TypeOK, ConfigTypeOK
  <2>2. QED
    BY <1>1, <1>3, <2>1, LoadedCopy
<1>9. TypeOK'
  <2>1. writing' = {q \in Procs : pc'[q] = "write"}
    BY <1>1, <1>2, <1>3, <1>4 DEF TypeOK, ConfigTypeOK
  <2>2. QED
    BY <1>1, <1>2, <1>3, <1>5, <1>6, <1>7, <2>1 DEF TypeOK, ConfigTypeOK
<1>10. OfProcess(p)'
  <2>1. CopyOf(p)'
    BY <1>1, <1>2, <1>3, <1>4, <1>5, <1>8 DEF CopyOf, ConfigCommand, Up, Down, Name, Saved
  <2>2. CleanCopy(p)'
    BY <1>2, <1>5, <1>6 DEF CleanCopy
  <2>3. Unused(p)'
    <3>1. Unused(p)
      BY <1>1 DEF OfProcess
    <3>2. QED
      BY <1>1, <1>2, <1>3, <1>7, <1>8, <3>1 DEF Unused
  <2>4. NotYetInFile(p)'
    BY <1>2, <1>3, <1>4 DEF NotYetInFile, ConfigCommand
  <2>5. QED
    BY <2>1, <2>2, <2>3, <2>4 DEF OfProcess
<1>11. ASSUME NEW q \in Procs \ {p} PROVE OfProcess(q)'
  <2>1. \A n \in Names, r \in Procs : cfg'[r].tunnels[n] \in {cfg[r].tunnels[n], file.tunnels[n]}
    <3>1. cfg' = cfg \/ cfg'[p].tunnels = file.tunnels
      BY <1>3, <1>4, <1>8
    <3>2. QED
      BY <1>7, <3>1
  <2>2. LeavesTo(q)
    BY <1>2, <1>3, <1>5, <1>6, <1>7, <2>1 DEF LeavesTo
  <2>3. QED
    BY <1>1, <2>2, OthersKeep DEF TunnelsInv
<1>12. FileOpens'
  <2>1. ASSUME NEW n \in Names PROVE Unsaved(n) => Unsaved(n)'
    BY <1>1, <1>2, <1>3, StaysUnsaved DEF TypeOK
  <2>2. \A t : Opens(t) => Opens(t)'
    BY <1>2, <2>1 DEF Opens
  <2>3. \A q \in writing : cfg'[q] = cfg[q]
    BY <1>1, <1>7 DEF TypeOK, ConfigTypeOK
  <2>4. QED
    BY <1>2, <2>2, <2>3 DEF TunnelsInv, FileOpens
<1>13. QED
  BY <1>9, <1>10, <1>11, <1>12 DEF TunnelsInv

\* The file is truncated to be written over: with what was read from it, unless
\* somebody else has touched it since.
LEMMA OpenStep == ASSUME NEW p \in Procs, TunnelsInv, OpenFile(p), UNCHANGED tunnelVars PROVE TunnelsInv'
<1>1. /\ TypeOK /\ OfProcess(p) /\ cmd[p] \in Commands /\ pc[p] = "open" /\ outcome[p] = "running" /\ FileOpens
  BY DEF TunnelsInv, TypeOK, ConfigTypeOK, OpenFile, OfProcess, CopyOf
<1>2. /\ UNCHANGED <<cmd, cfg, loaded, phase, server, told>>
      /\ file' = Empty /\ corrupt' = FALSE /\ writing' = writing \cup {p}
      /\ spoiled' = (spoiled \/ ~clean[p] \/ writing # {}) /\ clean' = [q \in Procs |-> clean[q] /\ q = p]
  BY DEF OpenFile, tunnelVars, Touched
<1>3. /\ pc' \in [Procs -> Phases] /\ outcome' = outcome /\ outcome' \in [Procs -> Outcomes]
      /\ pc'[p] = "write" /\ \A q \in Procs \ {p} : pc'[q] = pc[q]
  BY <1>1, Goes DEF OpenFile, Phases
<1>4. Empty \in Config /\ \A n \in Names : Empty.tunnels[n] = None
  BY DEF Empty, Config
<1>5. TypeOK'
  <2>1. writing' = {q \in Procs : pc'[q] = "write"}
    BY <1>1, <1>2, <1>3 DEF TypeOK, ConfigTypeOK
  <2>2. spoiled' \in BOOLEAN /\ clean' \in [Procs -> BOOLEAN] /\ corrupt' \in BOOLEAN
    BY <1>2
  <2>3. QED
    BY <1>1, <1>2, <1>3, <1>4, <2>1, <2>2 DEF TypeOK, ConfigTypeOK
<1>6. OfProcess(p)'
  <2>1. CopyOf(p)'
    BY <1>1, <1>2, <1>3 DEF OfProcess, CopyOf, ConfigCommand, Up, Down, Name, Saved
  <2>2. CleanCopy(p)' /\ Unused(p)' /\ NotYetInFile(p)'
    BY <1>3 DEF CleanCopy, Unused, NotYetInFile
  <2>3. QED
    BY <2>1, <2>2 DEF OfProcess
<1>7. ASSUME NEW q \in Procs \ {p} PROVE OfProcess(q)'
  <2>1. LeavesTo(q)
    <3>1. ~clean'[q]
      BY <1>2
    <3>2. QED
      BY <1>2, <1>3, <1>4, <3>1 DEF LeavesTo
  <2>2. QED
    BY <1>1, <2>1, OthersKeep DEF TunnelsInv
<1>8. FileOpens'
  <2>1. SUFFICES ASSUME ~spoiled' PROVE writing' = {p} /\ Opens(cfg[p].tunnels)'
    BY DEF FileOpens
  <2>2. ~spoiled /\ clean[p] /\ writing = {}
    BY <1>2, <2>1
  <2>3. Opens(file.tunnels) /\ loaded[p] = file /\ cfg[p].tunnels = Saved(p)
    BY <1>1, <2>2 DEF FileOpens, OfProcess, CleanCopy, CopyOf
  <2>4. ASSUME NEW n \in Names, phase[n] = "running" PROVE cfg[p].tunnels[n] = server[n] \/ Unsaved(n)'
    <3>1. CASE ~ConfigCommand(p) /\ Name(p) = n
      <4>1. (Up(p) /\ server[n] = Minted[p]) \/ server[n] # file.tunnels[n]
        BY <1>1, <2>2, <2>4, <3>1 DEF OfProcess, NotYetInFile
      <4>2. CASE Up(p) /\ server[n] = Minted[p]
        <5>1. file.tunnels \in [Names -> Values \cup {None}]
          BY <1>1 DEF TypeOK, ConfigTypeOK, Config
        <5>2. QED
          BY <2>3, <3>1, <4>2, <5>1 DEF Saved
      <4>3. CASE ~(Up(p) /\ server[n] = Minted[p])
        <5>1. Unsaved(n)
          BY <2>3, <2>4, <4>1, <4>3 DEF Opens
        <5>2. PICK q \in Procs : /\ Up(q) /\ Name(q) = n /\ server[n] = Minted[q]
                                 /\ (pc[q] = "open" \/ told[q] \/ outcome[q] \in {"lost", "killed"})
          BY <5>1 DEF Unsaved
        <5>3. q # p
          BY <4>3, <5>2
        <5>4. QED
          BY <1>2, <1>3, <5>2, <5>3 DEF Unsaved, Up, Name
      <4>4. QED
        BY <4>2, <4>3
    <3>2. CASE ConfigCommand(p) \/ Name(p) # n
      <4>1. cfg[p].tunnels[n] = file.tunnels[n]
        <5>1. file.tunnels \in [Names -> Values \cup {None}]
          BY <1>1 DEF TypeOK, ConfigTypeOK, Config
        <5>2. QED
          BY <2>3, <3>2, <5>1 DEF Saved, ConfigCommand, Up, Down
      <4>2. Unsaved(n) => Unsaved(n)'
        <5>1. ~(Up(p) /\ Name(p) = n)
          BY <3>2 DEF ConfigCommand, Up
        <5>2. QED
          BY <1>2, <1>3, <5>1, StaysUnsaved
      <4>3. QED
        BY <2>3, <2>4, <4>1, <4>2 DEF Opens
    <3>3. QED
      BY <3>1, <3>2
  <2>5. QED
    BY <1>2, <2>2, <2>4 DEF Opens
<1>9. QED
  BY <1>5, <1>6, <1>7, <1>8 DEF TunnelsInv

LEMMA WriteStep ==
  ASSUME NEW p \in Procs, TunnelsInv, WriteFile(p), UNCHANGED tunnelVars,
         (\E how \in {"ok"} : Finish(p, how)) \/ (~ConfigCommand(p) /\ Goto(p, "attach"))
  PROVE  TunnelsInv'
<1>1. /\ TypeOK /\ OfProcess(p) /\ cmd[p] \in Commands /\ pc[p] = "write" /\ outcome[p] = "running" /\ FileOpens
  BY DEF TunnelsInv, TypeOK, ConfigTypeOK, WriteFile, OfProcess, CopyOf
<1>2. /\ UNCHANGED <<cmd, cfg, loaded, spoiled, phase, server, told>>
      /\ file' = cfg[p] /\ corrupt' \in {FALSE, file # Empty} /\ writing' = writing \ {p}
      /\ clean' = [q \in Procs |-> clean[q] /\ q = p]
  BY DEF WriteFile, tunnelVars, Touched
<1>3. /\ pc' \in [Procs -> Phases] /\ outcome' \in [Procs -> Outcomes]
      /\ (pc'[p] = "attach" /\ ~ConfigCommand(p) /\ outcome' = outcome) \/ pc'[p] = "done"
      /\ \A q \in Procs \ {p} : pc'[q] = pc[q] /\ outcome'[q] = outcome[q]
  <2>1. CASE \E how \in {"ok"} : Finish(p, how)
    BY <1>1, <2>1, Ends DEF Outcomes
  <2>2. CASE ~ConfigCommand(p) /\ Goto(p, "attach")
    BY <1>1, <2>2, Goes DEF Phases
  <2>3. QED
    BY <2>1, <2>2
<1>4. TypeOK'
  <2>1. writing' = {q \in Procs : pc'[q] = "write"}
    BY <1>1, <1>2, <1>3 DEF TypeOK, ConfigTypeOK
  <2>2. corrupt' \in BOOLEAN
    BY <1>2
  <2>3. clean' \in [Procs -> BOOLEAN]
    BY <1>2
  <2>4. QED
    BY <1>1, <1>2, <1>3, <2>1, <2>2, <2>3 DEF TypeOK, ConfigTypeOK
<1>5. OfProcess(p)'
  <2>1. CopyOf(p)'
    BY <1>1, <1>2, <1>3 DEF OfProcess, CopyOf, ConfigCommand, Up, Down, Name, Saved
  <2>2. CleanCopy(p)' /\ Unused(p)' /\ NotYetInFile(p)'
    BY <1>3 DEF CleanCopy, Unused, NotYetInFile
  <2>3. QED
    BY <2>1, <2>2 DEF OfProcess
<1>6. ASSUME NEW q \in Procs \ {p} PROVE OfProcess(q)'
  <2>1. LeavesTo(q)
    <3>1. ~clean'[q]
      BY <1>2
    <3>2. QED
      BY <1>2, <1>3, <3>1 DEF LeavesTo
  <2>2. QED
    BY <1>1, <2>1, OthersKeep DEF TunnelsInv
<1>7. FileOpens'
  <2>1. SUFFICES ASSUME ~spoiled PROVE writing' = {} /\ Opens(file.tunnels)'
    BY <1>2 DEF FileOpens
  <2>2. p \in writing
    BY <1>1 DEF TypeOK, ConfigTypeOK
  <2>3. writing' = {} /\ Opens(cfg[p].tunnels)
    BY <1>1, <1>2, <2>1, <2>2 DEF FileOpens
  <2>4. ASSUME NEW n \in Names PROVE Unsaved(n) => Unsaved(n)'
    BY <1>1, <1>2, <1>3, StaysUnsaved DEF TypeOK
  <2>5. QED
    BY <1>2, <2>3, <2>4 DEF Opens
<1>8. QED
  BY <1>4, <1>5, <1>6, <1>7 DEF TunnelsInv

\* A write that fails spoils the file, for the properties and for its reader.
LEMMA FailStep ==
  ASSUME NEW p \in Procs, TunnelsInv, WriteFails(p), UNCHANGED <<phase, server>>,
         told' = told \/ told' = [told EXCEPT ![p] = Up(p)],
         (\E how \in {"ok", "failed"} : Finish(p, how)) \/ (~ConfigCommand(p) /\ Goto(p, "attach"))
  PROVE  TunnelsInv'
<1>1. /\ TypeOK /\ OfProcess(p) /\ cmd[p] \in Commands /\ cfg[p] \in Config
      /\ pc[p] = "write" /\ outcome[p] = "running"
  BY DEF TunnelsInv, TypeOK, ConfigTypeOK, WriteFails, OfProcess, CopyOf
<1>2. /\ UNCHANGED <<cmd, cfg, loaded, phase, server>>
      /\ corrupt' \in BOOLEAN /\ writing' = writing \ {p} /\ spoiled' = TRUE
      /\ clean' = [q \in Procs |-> clean[q] /\ q = p]
  BY DEF WriteFails, Touched
<1>3. /\ pc' \in [Procs -> Phases] /\ outcome' \in [Procs -> Outcomes]
      /\ (pc'[p] = "attach" /\ ~ConfigCommand(p) /\ outcome' = outcome) \/ pc'[p] = "done"
      /\ \A q \in Procs \ {p} : pc'[q] = pc[q] /\ outcome'[q] = outcome[q]
  <2>1. CASE \E how \in {"ok", "failed"} : Finish(p, how)
    BY <1>1, <2>1, Ends DEF Outcomes
  <2>2. CASE ~ConfigCommand(p) /\ Goto(p, "attach")
    BY <1>1, <2>2, Goes DEF Phases
  <2>3. QED
    BY <2>1, <2>2
<1>4. file' \in Config /\ \A n \in Names : file'.tunnels[n] \in {cfg[p].tunnels[n], None}
  <2>1. PICK n \in 0..5 : file' = Prefix(cfg[p], n)
    BY DEF WriteFails
  <2>2. Empty.tunnels \in [Names -> Values \cup {None}] /\ \A m \in Names : Empty.tunnels[m] = None
    BY DEF Empty
  <2>3. QED
    BY <1>1, <2>1, <2>2 DEF Prefix, Config
<1>5. TypeOK'
  <2>1. writing' = {q \in Procs : pc'[q] = "write"}
    BY <1>1, <1>2, <1>3 DEF TypeOK, ConfigTypeOK
  <2>2. clean' \in [Procs -> BOOLEAN] /\ told' \in [Procs -> BOOLEAN]
    BY <1>1, <1>2 DEF TypeOK, Up
  <2>3. QED
    BY <1>1, <1>2, <1>3, <1>4, <2>1, <2>2 DEF TypeOK, ConfigTypeOK
<1>6. OfProcess(p)'
  <2>1. CopyOf(p)'
    BY <1>1, <1>2, <1>3 DEF OfProcess, CopyOf, ConfigCommand, Up, Down, Name, Saved
  <2>2. CleanCopy(p)' /\ Unused(p)' /\ NotYetInFile(p)'
    BY <1>3 DEF CleanCopy, Unused, NotYetInFile
  <2>3. QED
    BY <2>1, <2>2 DEF OfProcess
<1>7. ASSUME NEW q \in Procs \ {p} PROVE OfProcess(q)'
  <2>1. LeavesTo(q)
    <3>1. ~clean'[q]
      BY <1>2
    <3>2. QED
      BY <1>2, <1>3, <1>4, <3>1 DEF LeavesTo
  <2>2. QED
    BY <1>1, <2>1, OthersKeep DEF TunnelsInv
<1>8. FileOpens'
  BY <1>2 DEF FileOpens
<1>9. QED
  BY <1>5, <1>6, <1>7, <1>8 DEF TunnelsInv

LEMMA KillStep == ASSUME NEW p \in Procs, TunnelsInv, Kill(p), UNCHANGED tunnelVars PROVE TunnelsInv'
<1>1. TypeOK /\ OfProcess(p) /\ pc[p] # "done" /\ outcome[p] = "running" /\ FileOpens
  BY DEF TunnelsInv, Kill, OfProcess, CopyOf
<1>2. /\ UNCHANGED <<file, corrupt, cmd, cfg, loaded, clean, phase, server, told>>
      /\ writing' = writing \ {p} /\ spoiled' = (spoiled \/ p \in writing)
  BY DEF Kill, tunnelVars
<1>3. /\ pc' \in [Procs -> Phases] /\ outcome' \in [Procs -> Outcomes]
      /\ pc'[p] = "done" /\ outcome'[p] = "killed"
      /\ \A q \in Procs \ {p} : pc'[q] = pc[q] /\ outcome'[q] = outcome[q]
  BY <1>1, Ends DEF Kill, Outcomes
<1>4. TypeOK'
  <2>1. writing' = {q \in Procs : pc'[q] = "write"}
    BY <1>1, <1>2, <1>3 DEF TypeOK, ConfigTypeOK
  <2>2. spoiled' \in BOOLEAN
    BY <1>2
  <2>3. QED
    BY <1>1, <1>2, <1>3, <2>1, <2>2 DEF TypeOK, ConfigTypeOK
<1>5. OfProcess(p)'
  BY <1>3 DEF OfProcess, CopyOf, CleanCopy, Unused, NotYetInFile
<1>6. ASSUME NEW q \in Procs \ {p} PROVE OfProcess(q)'
  <2>1. LeavesTo(q)
    BY <1>2, <1>3 DEF LeavesTo
  <2>2. QED
    BY <1>1, <2>1, OthersKeep DEF TunnelsInv
<1>7. FileOpens'
  <2>1. SUFFICES ASSUME ~spoiled' PROVE FileOpens'
    BY DEF FileOpens
  <2>2. ~spoiled /\ writing' = writing
    BY <1>2, <2>1
  <2>3. ASSUME NEW n \in Names PROVE Unsaved(n) => Unsaved(n)'
    BY <1>2, <1>3, StaysUnsaved
  <2>4. \A t : Opens(t) => Opens(t)'
    BY <1>2, <2>3 DEF Opens
  <2>5. QED
    BY <1>1, <1>2, <2>2, <2>4 DEF FileOpens
<1>8. QED
  BY <1>4, <1>5, <1>6, <1>7 DEF TunnelsInv

\* An app is created with a credential that is nowhere else yet.
LEMMA CreateStep == ASSUME NEW p \in Procs, TunnelsInv, Create(p) PROVE TunnelsInv'
<1>1. /\ TypeOK /\ OfProcess(p) /\ cmd[p] \in Commands /\ pc[p] = "create" /\ outcome[p] = "running" /\ FileOpens
      /\ Up(p)
  BY DEF TunnelsInv, TypeOK, ConfigTypeOK, Create, OfProcess, CopyOf
<1>2. UNCHANGED <<file, corrupt, writing, loaded, clean, spoiled, cmd, told>>
  BY DEF Create, fileVars, historyVars
<1> DEFINE n == Name(p)
<1>3. n \in Names /\ Minted[p] \in Values /\ Minted[p] # None
  BY <1>1, CommandsAssumption, MintedAssumption, NoneAssumption DEF Name, Up
<1>4. CASE Refused(p) /\ UNCHANGED <<phase, server>>
  <2>1. UNCHANGED <<fileVars, cmd, cfg, historyVars, phase, server, told>> /\ Finish(p, "failed")
    BY <1>4 DEF Create, Refused
  <2>2. QED
    BY <1>1, <2>1, QuietStep
<1>5. CASE ~(Refused(p) /\ UNCHANGED <<phase, server>>)
  <2>1. /\ phase[n] = "none" /\ phase' = [phase EXCEPT ![n] = "running"]
        /\ server' = [server EXCEPT ![n] = Minted[p]]
        /\ \/ Goto(p, "open") /\ cfg' = [cfg EXCEPT ![p] = SetTunnelAuth(@, n, Minted[p])]
           \/ Finish(p, "lost") /\ UNCHANGED cfg
    BY <1>5 DEF Create, NameFree
  <2>2. /\ pc' \in [Procs -> Phases] /\ outcome' \in [Procs -> Outcomes]
        /\ \/ /\ pc'[p] = "open" /\ outcome' = outcome
              /\ cfg' = [cfg EXCEPT ![p] = SetTunnelAuth(@, n, Minted[p])]
           \/ pc'[p] = "done" /\ outcome'[p] = "lost" /\ cfg' = cfg
        /\ \A q \in Procs \ {p} : pc'[q] = pc[q] /\ outcome'[q] = outcome[q]
    <3>1. CASE Finish(p, "lost") /\ UNCHANGED cfg
      BY <1>1, <3>1, Ends DEF Outcomes
    <3>2. CASE Goto(p, "open") /\ cfg' = [cfg EXCEPT ![p] = SetTunnelAuth(@, n, Minted[p])]
      BY <1>1, <3>2, Goes DEF Phases
    <3>3. QED
      BY <2>1, <3>1, <3>2
  <2>3. cfg \in [Procs -> Config] /\ cfg[p].tunnels = loaded[p].tunnels /\ Keeps(cmd[p], Env[p], loaded[p], cfg[p])
    BY <1>1 DEF TypeOK, ConfigTypeOK, OfProcess, CopyOf
  <2> DEFINE c == SetTunnelAuth(cfg[p], n, Minted[p])
  <2>4. /\ c \in Config /\ c.tunnels = [cfg[p].tunnels EXCEPT ![n] = Minted[p]]
        /\ c.token = cfg[p].token /\ c.tenant = cfg[p].tenant /\ c.tenants = cfg[p].tenants
        /\ c.refresh = cfg[p].refresh
    BY <1>3, <2>3 DEF SetTunnelAuth, Config
  <2>5. cfg[p].tunnels \in [Names -> Values \cup {None}]
    BY <2>3 DEF Config
  <2>6. cfg' = [cfg EXCEPT ![p] = c] \/ cfg' = cfg
    BY <2>2
  <2> HIDE DEF c, n
  <2>7. cfg' \in [Procs -> Config] /\ \A q \in Procs \ {p} : cfg'[q] = cfg[q]
    BY <2>3, <2>4, <2>6
  <2>8. pc'[p] = "open" => cfg'[p] = c
    BY <2>2, <2>3 DEF c
  <2>9. /\ phase'[n] = "running" /\ server'[n] = Minted[p]
        /\ \A m \in Names \ {n} : phase'[m] = phase[m] /\ server'[m] = server[m]
        /\ phase' \in [Names -> {"none", "running", "deleting"}] /\ server' \in [Names -> Values \cup {None}]
    BY <1>1, <1>3, <2>1 DEF TypeOK
  <2>10. TypeOK'
    <3>1. writing' = {q \in Procs : pc'[q] = "write"}
      BY <1>1, <1>2, <2>2 DEF TypeOK, ConfigTypeOK
    <3>2. \A m \in Names : server'[m] = None <=> phase'[m] = "none"
      BY <1>1, <1>3, <2>9 DEF TypeOK
    <3>3. QED
      BY <1>1, <1>2, <2>2, <2>7, <2>9, <3>1, <3>2 DEF TypeOK, ConfigTypeOK
  <2>11. OfProcess(p)'
    <3>1. CopyOf(p)'
      <4>1. CASE pc'[p] = "open"
        <5>1. cfg'[p].tunnels = Saved(p)'
          BY <1>1, <1>2, <2>3, <2>4, <2>8, <4>1 DEF Saved, Up, Name, n
        <5>2. Keeps(cmd[p], Env[p], loaded[p], cfg'[p])
          BY <1>1, <2>3, <2>4, <2>5, <2>8, <4>1 DEF Keeps, Up, Name, n
        <5>3. QED
          BY <1>1, <1>2, <2>2, <4>1, <5>1, <5>2 DEF CopyOf
      <4>2. QED
        BY <2>2, <4>1 DEF CopyOf
    <3>2. CleanCopy(p)'
      BY <1>1, <1>2, <2>2 DEF OfProcess, CleanCopy
    <3>3. Unused(p)'
      BY <2>2 DEF Unused
    <3>4. NotYetInFile(p)'
      BY <1>1, <1>2, <2>9 DEF NotYetInFile, Up, Name, n
    <3>5. QED
      BY <3>1, <3>2, <3>3, <3>4 DEF OfProcess
  <2>12. ASSUME NEW q \in Procs \ {p} PROVE OfProcess(q)'
    <3>1. \A m \in Names, r \in Procs : cfg'[r].tunnels[m] \in {cfg[r].tunnels[m], Minted[p]}
      <4>1. ASSUME NEW m \in Names PROVE c.tunnels[m] \in {cfg[p].tunnels[m], Minted[p]}
        BY <2>4, <2>5
      <4>2. QED
        BY <2>3, <2>6, <4>1
    <3>2. Unused(p)
      BY <1>1 DEF OfProcess
    <3>3. LeavesTo(q)
      BY <1>1, <1>2, <2>2, <2>7, <2>9, <3>1, <3>2 DEF LeavesTo
    <3>4. QED
      BY <1>1, <3>3, OthersKeep DEF TunnelsInv
  <2>13. FileOpens'
    <3>1. Unsaved(n)'
      BY <1>1, <1>2, <2>2, <2>9 DEF Unsaved, Up, Name, n
    <3>2. ASSUME NEW m \in Names \ {n} PROVE Unsaved(m) => Unsaved(m)'
      BY <1>1, <1>2, <2>2, <2>9, StaysUnsaved DEF n, TypeOK
    <3>3. \A t : Opens(t) => Opens(t)'
      <4>1. SUFFICES ASSUME NEW t, Opens(t), NEW m \in Names, phase'[m] = "running"
                     PROVE  t[m] = server'[m] \/ Unsaved(m)'
        BY DEF Opens
      <4>2. CASE m = n
        BY <1>2, <3>1, <4>2 DEF Unsaved, Name, n
      <4>3. CASE m # n
        <5>1. phase[m] = "running" /\ server'[m] = server[m]
          BY <2>9, <4>1, <4>3
        <5>2. t[m] = server[m] \/ Unsaved(m)
          BY <4>1, <5>1 DEF Opens
        <5>3. QED
          BY <3>2, <4>3, <5>1, <5>2
      <4>4. QED
        BY <4>2, <4>3
    <3>4. p \notin writing
      BY <1>1 DEF TypeOK, ConfigTypeOK
    <3>5. \A q \in writing : cfg'[q] = cfg[q]
      BY <1>1, <2>7, <3>4 DEF TypeOK, ConfigTypeOK
    <3>6. QED
      BY <1>1, <1>2, <3>3, <3>5 DEF FileOpens
  <2>14. QED
    BY <2>10, <2>11, <2>12, <2>13 DEF TunnelsInv
<1>6. QED
  BY <1>4, <1>5

LEMMA DeleteStep == ASSUME NEW p \in Procs, TunnelsInv, Delete(p) PROVE TunnelsInv'
<1>1. /\ TypeOK /\ OfProcess(p) /\ cmd[p] \in Commands /\ pc[p] = "delete" /\ outcome[p] = "running" /\ FileOpens
      /\ Down(p)
  BY DEF TunnelsInv, TypeOK, ConfigTypeOK, Delete, OfProcess, CopyOf
<1>2. UNCHANGED <<file, corrupt, writing, loaded, clean, spoiled, cmd, server, told>>
  BY DEF Delete, fileVars, historyVars
<1> DEFINE n == Name(p)
<1>3. n \in Names
  BY <1>1, CommandsAssumption DEF Name, Down
<1>4. CASE Finish(p, "failed") /\ UNCHANGED <<cfg, phase>>
  <2>1. UNCHANGED <<fileVars, cmd, cfg, historyVars, phase, server, told>> /\ Finish(p, "failed")
    BY <1>4 DEF Delete
  <2>2. QED
    BY <1>1, <2>1, QuietStep
<1>5. CASE ~(Finish(p, "failed") /\ UNCHANGED <<cfg, phase>>)
  <2>1. /\ phase[n] # "none" /\ phase' = [phase EXCEPT ![n] = "deleting"]
        /\ \/ Goto(p, "open") /\ cfg' = [cfg EXCEPT ![p] = ForgetTunnel(@, n)]
           \/ Finish(p, "lost") /\ UNCHANGED cfg
    BY <1>5 DEF Delete
  <2>2. /\ pc' \in [Procs -> Phases] /\ outcome' \in [Procs -> Outcomes]
        /\ \/ /\ pc'[p] = "open" /\ outcome' = outcome
              /\ cfg' = [cfg EXCEPT ![p] = ForgetTunnel(@, n)]
           \/ pc'[p] = "done" /\ outcome'[p] = "lost" /\ cfg' = cfg
        /\ \A q \in Procs \ {p} : pc'[q] = pc[q] /\ outcome'[q] = outcome[q]
    <3>1. CASE Finish(p, "lost") /\ UNCHANGED cfg
      BY <1>1, <3>1, Ends DEF Outcomes
    <3>2. CASE Goto(p, "open") /\ cfg' = [cfg EXCEPT ![p] = ForgetTunnel(@, n)]
      BY <1>1, <3>2, Goes DEF Phases
    <3>3. QED
      BY <2>1, <3>1, <3>2
  <2>3. cfg \in [Procs -> Config] /\ cfg[p].tunnels = loaded[p].tunnels /\ Keeps(cmd[p], Env[p], loaded[p], cfg[p])
    BY <1>1 DEF TypeOK, ConfigTypeOK, OfProcess, CopyOf
  <2> DEFINE c == ForgetTunnel(cfg[p], n)
  <2>4. /\ c \in Config /\ c.tunnels = [cfg[p].tunnels EXCEPT ![n] = None]
        /\ c.token = cfg[p].token /\ c.tenant = cfg[p].tenant /\ c.tenants = cfg[p].tenants
        /\ c.refresh = cfg[p].refresh
    BY <1>3, <2>3 DEF ForgetTunnel, Config
  <2>5. cfg[p].tunnels \in [Names -> Values \cup {None}]
    BY <2>3 DEF Config
  <2>6. cfg' = [cfg EXCEPT ![p] = c] \/ cfg' = cfg
    BY <2>2
  <2> HIDE DEF c, n
  <2>7. cfg' \in [Procs -> Config] /\ \A q \in Procs \ {p} : cfg'[q] = cfg[q]
    BY <2>3, <2>4, <2>6
  <2>8. pc'[p] = "open" => cfg'[p] = c
    BY <2>2, <2>3 DEF c
  <2>9. /\ phase'[n] = "deleting" /\ \A m \in Names \ {n} : phase'[m] = phase[m]
        /\ phase' \in [Names -> {"none", "running", "deleting"}]
    BY <1>1, <1>3, <2>1 DEF TypeOK
  <2>10. TypeOK'
    <3>1. writing' = {q \in Procs : pc'[q] = "write"}
      BY <1>1, <1>2, <2>2 DEF TypeOK, ConfigTypeOK
    <3>2. \A m \in Names : server'[m] = None <=> phase'[m] = "none"
      BY <1>1, <1>2, <2>1, <2>9 DEF TypeOK
    <3>3. QED
      BY <1>1, <1>2, <2>2, <2>7, <2>9, <3>1, <3>2 DEF TypeOK, ConfigTypeOK
  <2>11. OfProcess(p)'
    <3>1. CopyOf(p)'
      <4>1. CASE pc'[p] = "open"
        <5>1. cfg'[p].tunnels = Saved(p)'
          BY <1>1, <1>2, <2>3, <2>4, <2>8, <4>1 DEF Saved, Up, Down, Name, n
        <5>2. Keeps(cmd[p], Env[p], loaded[p], cfg'[p])
          BY <1>1, <2>3, <2>4, <2>5, <2>8, <4>1 DEF Keeps, Down, Name, n
        <5>3. QED
          BY <1>1, <1>2, <2>2, <4>1, <5>1, <5>2 DEF CopyOf
      <4>2. QED
        BY <2>2, <4>1 DEF CopyOf
    <3>2. CleanCopy(p)'
      BY <1>1, <1>2, <2>2 DEF OfProcess, CleanCopy
    <3>3. Unused(p)' /\ NotYetInFile(p)'
      BY <1>2, <2>2, <2>9 DEF Unused, NotYetInFile, Name, n
    <3>4. QED
      BY <3>1, <3>2, <3>3 DEF OfProcess
  <2>12. ASSUME NEW q \in Procs \ {p} PROVE OfProcess(q)'
    <3>1. \A m \in Names, r \in Procs : cfg'[r].tunnels[m] \in {cfg[r].tunnels[m], None}
      <4>1. ASSUME NEW m \in Names PROVE c.tunnels[m] \in {cfg[p].tunnels[m], None}
        BY <2>4, <2>5
      <4>2. QED
        BY <2>3, <2>6, <4>1
    <3>2. \A m \in Names : phase'[m] = "running" => phase[m] = "running"
      BY <2>9
    <3>3. LeavesTo(q)
      BY <1>2, <2>2, <2>7, <3>1, <3>2 DEF LeavesTo
    <3>4. QED
      BY <1>1, <3>3, OthersKeep DEF TunnelsInv
  <2>13. FileOpens'
    <3>1. ASSUME NEW m \in Names PROVE Unsaved(m) => Unsaved(m)'
      BY <1>1, <1>2, <2>2, StaysUnsaved DEF Down, Up
    <3>2. \A t : Opens(t) => Opens(t)'
      BY <1>2, <2>9, <3>1 DEF Opens
    <3>3. \A q \in writing : cfg'[q] = cfg[q]
      BY <1>1, <2>7 DEF TypeOK, ConfigTypeOK
    <3>4. QED
      BY <1>1, <1>2, <3>2, <3>3 DEF FileOpens
  <2>14. QED
    BY <2>10, <2>11, <2>12, <2>13 DEF TunnelsInv
<1>6. QED
  BY <1>4, <1>5

\* The platform finishes a deletion, or the console begins one.
LEMMA PlatformStep == ASSUME NEW n \in Names, TunnelsInv, Gone(n) \/ ConsoleDelete(n) PROVE TunnelsInv'
<1>1. TypeOK /\ FileOpens
  BY DEF TunnelsInv
<1>2. UNCHANGED <<file, corrupt, writing, cmd, pc, cfg, outcome, loaded, clean, spoiled, told>>
  BY DEF Gone, ConsoleDelete, configVars, fileVars, historyVars
<1>3. /\ \/ phase'[n] = "none" /\ server'[n] = None
         \/ phase'[n] = "deleting" /\ server'[n] = server[n] /\ phase[n] = "running"
      /\ \A m \in Names \ {n} : phase'[m] = phase[m] /\ server'[m] = server[m]
      /\ phase' \in [Names -> {"none", "running", "deleting"}] /\ server' \in [Names -> Values \cup {None}]
  BY <1>1 DEF Gone, ConsoleDelete, TypeOK
<1>4. TypeOK'
  BY <1>1, <1>2, <1>3 DEF TypeOK, ConfigTypeOK
<1>5. ASSUME NEW q \in Procs PROVE OfProcess(q)'
  <2>1. LeavesTo(q)
    BY <1>2, <1>3 DEF LeavesTo
  <2>2. QED
    BY <1>1, <2>1, OthersKeep DEF TunnelsInv
<1>6. FileOpens'
  <2>1. ASSUME NEW m \in Names \ {n} PROVE Unsaved(m) => Unsaved(m)'
    BY <1>2, <1>3, StaysUnsaved
  <2>2. \A t : Opens(t) => Opens(t)'
    BY <1>3, <2>1 DEF Opens
  <2>3. QED
    BY <1>1, <1>2, <2>2 DEF FileOpens
<1>7. QED
  BY <1>4, <1>5, <1>6 DEF TunnelsInv

LEMMA InvStarts == ASSUME Init PROVE TunnelsInv
<1>1. PICK v \in Values, held \in SUBSET Names :
        file = [Empty EXCEPT !.token = v, !.tenants = {v},
                             !.tunnels = [n \in Names |-> IF n \in held THEN v ELSE None]]
  BY DEF Init, ConfigInit
<1>2. /\ corrupt = FALSE /\ writing = {} /\ cmd \in [Procs -> Commands] /\ pc = [p \in Procs |-> "load"]
      /\ cfg = [p \in Procs |-> Empty] /\ outcome = [p \in Procs |-> "running"]
      /\ loaded = [p \in Procs |-> Empty] /\ clean = [p \in Procs |-> FALSE] /\ spoiled = FALSE
      /\ server = file.tunnels /\ \A n \in Names, p \in Procs : server[n] # Minted[p]
      /\ phase = [n \in Names |-> IF file.tunnels[n] = None THEN "none" ELSE "running"]
      /\ told = [p \in Procs |-> FALSE]
  BY DEF Init, ConfigInit
<1>3. Empty \in Config /\ \A n \in Names : Empty.tunnels[n] = None
  BY DEF Empty, Config
<1>4. file \in Config /\ file.tunnels \in [Names -> Values \cup {None}]
  BY <1>1, <1>3 DEF Config, Empty
<1>5. TypeOK
  <2>1. writing = {p \in Procs : pc[p] = "write"}
    BY <1>2
  <2>2. /\ pc \in [Procs -> Phases] /\ outcome \in [Procs -> Outcomes] /\ cfg \in [Procs -> Config]
        /\ loaded \in [Procs -> Config]
    BY <1>2, <1>3 DEF Phases, Outcomes
  <2>3. clean \in [Procs -> BOOLEAN] /\ told \in [Procs -> BOOLEAN] /\ corrupt \in BOOLEAN /\ spoiled \in BOOLEAN
    BY <1>2
  <2>4. /\ phase \in [Names -> {"none", "running", "deleting"}]
        /\ \A n \in Names : server[n] = None <=> phase[n] = "none"
    BY <1>2
  <2>5. QED
    BY <1>2, <1>4, <2>1, <2>2, <2>3, <2>4 DEF TypeOK, ConfigTypeOK
<1>6. ASSUME NEW p \in Procs PROVE OfProcess(p)
  <2>1. Minted[p] # None
    BY MintedAssumption, NoneAssumption
  <2>2. Unused(p)
    BY <1>2, <1>3, <2>1 DEF Unused
  <2>3. CopyOf(p) /\ CleanCopy(p) /\ NotYetInFile(p)
    BY <1>2 DEF CopyOf, CleanCopy, NotYetInFile
  <2>4. QED
    BY <2>2, <2>3 DEF OfProcess
<1>7. FileOpens
  BY <1>2 DEF FileOpens, Opens
<1>8. QED
  BY <1>5, <1>6, <1>7 DEF TunnelsInv

LEMMA InvStays == ASSUME TunnelsInv, [Next]_vars PROVE TunnelsInv'
<1>1. ASSUME NEW p \in Procs, ConfigStep(p), UNCHANGED tunnelVars PROVE TunnelsInv'
  <2>1. CASE Load(p)
    BY <1>1, <2>1, LoadStep
  <2>2. CASE Login(p)
    <3>1. UNCHANGED <<fileVars, cmd, cfg, historyVars, phase, server, told>> /\ pc[p] = "login"
      BY <1>1, <2>2 DEF Login, tunnelVars
    <3>2. QED
      BY <2>2, <3>1, QuietStep DEF Login, TunnelsInv, OfProcess, CopyOf, ConfigCommand, Up
  <2>3. CASE OpenFile(p)
    BY <1>1, <2>3, OpenStep
  <2>4. CASE Kill(p)
    BY <1>1, <2>4, KillStep
  <2>5. CASE WriteFile(p) /\ Finish(p, "ok")
    BY <1>1, <2>5, WriteStep
  <2>6. CASE ConfigCommand(p) /\ OpenFails(p) /\ Finish(p, "failed")
    <3>1. UNCHANGED <<fileVars, cmd, cfg, historyVars, phase, server, told>> /\ pc[p] = "open" /\ ~Up(p)
      BY <1>1, <2>6 DEF OpenFails, tunnelVars, ConfigCommand, Up
    <3>2. QED
      BY <2>6, <3>1, QuietStep
  <2>7. CASE ConfigCommand(p) /\ WriteFails(p) /\ Finish(p, "failed")
    BY <1>1, <2>7, FailStep DEF tunnelVars
  <2>8. QED
    BY <1>1, <2>1, <2>2, <2>3, <2>4, <2>5, <2>6, <2>7 DEF ConfigStep
<1>2. ASSUME NEW p \in Procs, TunnelStep(p) PROVE TunnelsInv'
  <2>1. CASE Resolve(p) \/ Answer(p)
    <3>1. /\ UNCHANGED <<fileVars, cmd, cfg, historyVars, phase, server, told>> /\ pc[p] \in {"resolve", "prompt"}
          /\ \/ \E how \in {"failed", "aborted"} : Finish(p, how)
             \/ \E to \in {"prompt", IF Up(p) THEN "create" ELSE "delete"} : Goto(p, to)
      BY <2>1 DEF Resolve, Answer, tunnelVars
    <3>2. QED
      BY <3>1, QuietStep
  <2>2. CASE Create(p)
    BY <2>2, CreateStep
  <2>3. CASE Delete(p)
    BY <2>3, DeleteStep
  <2>4. CASE TunnelSave(p)
    <3>1. CASE WriteFile(p) /\ UNCHANGED told
      <4>1. UNCHANGED tunnelVars
        BY <2>4, <3>1 DEF TunnelSave, tunnelVars
      <4>2. QED
        BY <2>4, <3>1, <4>1, WriteStep DEF TunnelSave, AfterSave
    <3>2. CASE OpenFails(p) /\ told' = [told EXCEPT ![p] = Tells(p)]
      <4>1. /\ UNCHANGED <<fileVars, cmd, cfg, historyVars, phase, server>> /\ pc[p] = "open" /\ ~ConfigCommand(p)
            /\ told' = [told EXCEPT ![p] = Up(p)]
        BY <2>4, <3>2 DEF TunnelSave, OpenFails, Tells
      <4>2. QED
        BY <2>4, <4>1, QuietStep DEF TunnelSave, AfterSave
    <3>3. CASE WriteFails(p) /\ told' = [told EXCEPT ![p] = Tells(p)]
      <4>1. UNCHANGED <<phase, server>> /\ ~ConfigCommand(p) /\ told' = [told EXCEPT ![p] = Up(p)]
        BY <2>4, <3>3 DEF TunnelSave, Tells
      <4>2. QED
        BY <2>4, <3>3, <4>1, FailStep DEF TunnelSave, AfterSave
    <3>4. QED
      BY <2>4, <3>1, <3>2, <3>3 DEF TunnelSave
  <2>5. CASE Attach(p)
    <3>1. /\ UNCHANGED <<fileVars, cmd, cfg, historyVars, phase, server, told>> /\ pc[p] = "attach"
          /\ \E how \in {"ok", "failed"} : Finish(p, how)
      BY <2>5 DEF Attach, tunnelVars
    <3>2. QED
      BY <3>1, QuietStep
  <2>6. QED
    BY <1>2, <2>1, <2>2, <2>3, <2>4, <2>5 DEF TunnelStep
<1>3. CASE UNCHANGED vars
  <2>1. UNCHANGED <<file, corrupt, writing, cmd, pc, cfg, outcome, loaded, clean, spoiled, phase, server, told>>
    BY <1>3 DEF vars, configVars, fileVars, historyVars, tunnelVars
  <2>2. TypeOK'
    BY <2>1 DEF TunnelsInv, TypeOK, ConfigTypeOK
  <2>3. ASSUME NEW p \in Procs PROVE OfProcess(p)'
    <3>1. LeavesTo(p)
      BY <2>1 DEF LeavesTo
    <3>2. QED
      BY <3>1, OthersKeep DEF TunnelsInv
  <2>4. FileOpens'
    BY <2>1 DEF TunnelsInv, FileOpens, Opens, Unsaved, Up, Name
  <2>5. QED
    BY <2>2, <2>3, <2>4 DEF TunnelsInv
<1>4. QED
  BY <1>1, <1>2, <1>3, PlatformStep DEF Next

LEMMA Invariant == Spec => []TunnelsInv
<1>1. Init => TunnelsInv
  BY InvStarts
<1>2. TunnelsInv /\ [Next]_vars => TunnelsInv'
  BY InvStays
<1>3. QED
  BY <1>1, <1>2, PTL DEF Spec

-----------------------------------------------------------------------------
(* The theorems.                                                           *)

\* Every variable keeps its type, a file that is truncated is still to be
\* written by whoever truncated it, and an app has a credential as long as it
\* exists (os.WriteFile, CreateApp).
THEOREM TypeCorrect == Spec => []TypeOK
<1>1. TunnelsInv => TypeOK
  BY DEF TunnelsInv
<1>2. QED
  BY <1>1, Invariant, PTL

\* However many commands make, replace and take down tunnels: if no save was
\* stale, overlapped another, failed or was cut off, a credential in the file is that of
\* the tunnel that runs, or the one that made this has not come to its save, or
\* never will (tunnelUpAction, SetTunnelAuth).
THEOREM RightCredential == Spec => []CredentialIsRight
<1>1. TunnelsInv => CredentialIsRight
  BY DEF TunnelsInv, FileOpens, Opens, CredentialIsRight, Settled
<1>2. QED
  BY <1>1, Invariant, PTL

\* ... and the credential of a tunnel that runs was printed or is in the file,
\* whatever commands have saved the file since (tunnelUpAction).
THEOREM KeptCredential == Spec => []CredentialIsKept
<1>1. TunnelsInv => CredentialIsKept
  <2>1. SUFFICES ASSUME TunnelsInv, Settled, NEW p \in Procs, Up(p), phase[Name(p)] = "running",
                        server[Name(p)] = Minted[p], outcome[p] \in {"ok", "failed"}
                 PROVE  told[p] \/ file.tunnels[Name(p)] = Minted[p]
    BY DEF CredentialIsKept
  <2>2. Name(p) \in Names
    BY <2>1, CommandsAssumption DEF TunnelsInv, TypeOK, ConfigTypeOK, Name, Up
  <2>3. CASE file.tunnels[Name(p)] = server[Name(p)]
    BY <2>1, <2>3
  <2>4. CASE Unsaved(Name(p))
    <3>1. PICK q \in Procs : /\ server[Name(p)] = Minted[q]
                             /\ (pc[q] = "open" \/ told[q] \/ outcome[q] \in {"lost", "killed"})
      BY <2>4 DEF Unsaved
    <3>2. q = p
      BY <2>1, <3>1, MintedAssumption
    <3>3. pc[p] # "open" /\ outcome[p] \notin {"lost", "killed"}
      BY <2>1 DEF TunnelsInv, OfProcess, CopyOf
    <3>4. QED
      BY <3>1, <3>2, <3>3
  <2>5. QED
    BY <2>1, <2>2, <2>3, <2>4 DEF TunnelsInv, FileOpens, Opens, Settled
<1>2. QED
  BY <1>1, Invariant, PTL

\* A save of any command keeps what that command is not about of the file that
\* it read, or of the environment laid over that: the tunnels' credentials, the
\* token, the tenants (Load, Save).
THEOREM SavesKeepOthers == Spec => SerialSaveKeepsOthers
<1>1. TunnelsInv /\ [Next]_vars =>
        [\A p \in Procs :
           Saves(p) /\ clean[p] => Keeps(cmd[p], Env[p], loaded[p], file')]_configVars
  <2> SUFFICES ASSUME TunnelsInv, NEW p \in Procs, Saves(p)
               PROVE  Keeps(cmd[p], Env[p], loaded[p], file')
    OBVIOUS
  <2>1. CopyOf(p) /\ pc[p] = "write" /\ file' = cfg[p]
    BY DEF TunnelsInv, OfProcess, TypeOK, ConfigTypeOK, Saves
  <2>2. QED
    BY <2>1 DEF CopyOf
<1>2. QED
  BY <1>1, Invariant, PTL DEF Spec, SerialSaveKeepsOthers
=============================================================================
