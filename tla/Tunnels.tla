------------------------------ MODULE Tunnels ------------------------------
(***************************************************************************)
(* `tunnel up` and `tunnel down` (cmd/tunnel.go), beside the commands of   *)
(* the configuration file.                                                 *)
(*                                                                         *)
(* A tunnel is an app whose server was given a credential that the API     *)
(* never shows again.  The only other copy is in the configuration file of *)
(* whoever made the tunnel; so the order of the steps matters: the app is  *)
(* created, then the credential is saved, then the hostname is attached.   *)
(* A process that makes a tunnel mints a credential of its own.  A name is *)
(* a tunnelKey: the tenant and the name of the app.                        *)
(***************************************************************************)
EXTENDS ConfigFile

CONSTANT Minted  \* the credential each process mints

ASSUME MintedAssumption ==
  /\ Minted \in [Procs -> Values]
  /\ \A p, q \in Procs : p # q => Minted[p] # Minted[q]

VARIABLES
  phase,   \* the app of each name: "none", "running" or "deleting"
  server,  \* the credential its server was created with
  told     \* the credential was printed, as it could not be saved

tunnelVars == <<phase, server, told>>
vars == <<configVars, tunnelVars>>

Init ==
  /\ ConfigInit
  /\ server = file.tunnels /\ \A n \in Names, p \in Procs : server[n] # Minted[p]
  /\ phase = [n \in Names |-> IF file.tunnels[n] = None THEN "none" ELSE "running"]
  /\ told = [p \in Procs |-> FALSE]

Name(p) == cmd[p].arg
Up(p) == cmd[p].verb = "up"
Down(p) == cmd[p].verb = "down"

-----------------------------------------------------------------------------
(* The lookups before the prompt: namespace and plan, or the app.          *)
Resolve(p) ==
  /\ pc[p] = "resolve"
  /\ \/ Finish(p, "failed")
     \/ (Up(p) \/ phase[Name(p)] # "none") /\ Goto(p, "prompt")
  /\ UNCHANGED <<fileVars, cmd, cfg, historyVars, tunnelVars>>

(* confirm().                                                              *)
Answer(p) ==
  /\ pc[p] = "prompt"
  /\ Finish(p, "aborted") \/ Goto(p, IF Up(p) THEN "create" ELSE "delete")
  /\ UNCHANGED <<fileVars, cmd, cfg, historyVars, tunnelVars>>

\* Mutant: the map of credentials is allocated anew.
SetTunnelAuthAnew(c, n, auth) == [c EXCEPT !.tunnels = [m \in Names |-> IF m = n THEN auth ELSE None]]

\* ForgetTunnel.
ForgetTunnel(c, n) == [c EXCEPT !.tunnels[n] = None]

\* Mutant: the key is stored for the credential.
SetTunnelAuthKey(c, n, auth) == [c EXCEPT !.tunnels[n] = n]

\* SetTunnelAuth.
SetTunnelAuth(c, n, auth) == [c EXCEPT !.tunnels[n] = auth]

\* The platform creates no app under a name that is taken, or still held.
NameFree(n) == phase[n] = "none"

\* Mutant: an error of CreateApp is only printed.
RefusedIgnored(p) ==
  Goto(p, "open") /\ cfg' = [cfg EXCEPT ![p] = SetTunnelAuth(@, Name(p), Minted[p])]

\* An error of CreateApp ends the command, before anything is saved.
Refused(p) == Finish(p, "failed") /\ UNCHANGED cfg

(* CreateApp: done, refused, or done with the answer lost.                 *)
Create(p) ==
  /\ pc[p] = "create"
  /\ LET n == Name(p)
     IN  \/ /\ NameFree(n)
            /\ phase' = [phase EXCEPT ![n] = "running"]
            /\ server' = [server EXCEPT ![n] = Minted[p]]
            /\ \/ Goto(p, "open") /\ cfg' = [cfg EXCEPT ![p] = SetTunnelAuth(@, n, Minted[p])]
               \/ Finish(p, "lost") /\ UNCHANGED cfg
         \/ Refused(p) /\ UNCHANGED <<phase, server>>
  /\ UNCHANGED <<fileVars, cmd, historyVars, told>>

(* DeleteApp, which is asynchronous: done, refused, or the answer lost.    *)
Delete(p) ==
  /\ pc[p] = "delete"
  /\ LET n == Name(p)
     IN  \/ /\ phase[n] # "none" /\ phase' = [phase EXCEPT ![n] = "deleting"]
            /\ \/ Goto(p, "open") /\ cfg' = [cfg EXCEPT ![p] = ForgetTunnel(@, n)]
               \/ Finish(p, "lost") /\ UNCHANGED cfg
         \/ Finish(p, "failed") /\ UNCHANGED <<cfg, phase>>
  /\ UNCHANGED <<fileVars, cmd, historyVars, server, told>>

\* Mutant: a failed save is not told to anyone.
TellsNobody(p) == FALSE

\* The credential is printed if it could not be saved.
Tells(p) == Up(p)

AfterSave(p) == IF Up(p) THEN Goto(p, "attach") ELSE Finish(p, "ok")

(* Save; for either command its failure is a warning.                      *)
TunnelSave(p) ==
  /\ ~ConfigCommand(p)
  /\ \/ WriteFile(p) /\ UNCHANGED told
     \/ (OpenFails(p) \/ WriteFails(p)) /\ told' = [told EXCEPT ![p] = Tells(p)]
  /\ AfterSave(p)
  /\ UNCHANGED <<phase, server>>

(* attachTunnelHost.                                                       *)
Attach(p) ==
  /\ pc[p] = "attach"
  /\ Finish(p, "ok") \/ Finish(p, "failed")
  /\ UNCHANGED <<fileVars, cmd, cfg, historyVars, tunnelVars>>

(* The platform finishes a deletion.                                       *)
Gone(n) ==
  /\ phase[n] = "deleting"
  /\ phase' = [phase EXCEPT ![n] = "none"] /\ server' = [server EXCEPT ![n] = None]
  /\ UNCHANGED <<configVars, told>>

(* The app is deleted in the console; no configuration file hears of it.   *)
ConsoleDelete(n) ==
  /\ phase[n] = "running"
  /\ phase' = [phase EXCEPT ![n] = "deleting"]
  /\ UNCHANGED <<configVars, server, told>>

TunnelStep(p) ==
  Resolve(p) \/ Answer(p) \/ Create(p) \/ Delete(p) \/ TunnelSave(p) \/ Attach(p)

Next ==
  \/ \E p \in Procs : (ConfigStep(p) /\ UNCHANGED tunnelVars) \/ TunnelStep(p)
  \/ \E n \in Names : Gone(n) \/ ConsoleDelete(n)

Spec == Init /\ [][Next]_vars

-----------------------------------------------------------------------------
(* Properties.                                                             *)

\* Every variable keeps its type, and an app has a credential while it exists.
TypeOK ==
  /\ ConfigTypeOK
  /\ phase \in [Names -> {"none", "running", "deleting"}]
  /\ server \in [Names -> Values \union {None}]
  /\ told \in [Procs -> BOOLEAN]
  /\ \A n \in Names : server[n] = None <=> phase[n] = "none"

\* The file as the next command will read it.
Settled == ~spoiled /\ writing = {} /\ ~corrupt

\* The process that made the tunnel of a name, if one of these did, has not
\* come to its save, or never will.
Unsaved(n) ==
  \E p \in Procs : Up(p) /\ Name(p) = n /\ server[n] = Minted[p]
                   /\ (pc[p] = "open" \/ told[p] \/ outcome[p] \in {"lost", "killed"})

\* If no save was stale, overlapped another, failed or was cut off, a credential in
\* the file opens the tunnel that runs under its name: it is not that of an
\* earlier tunnel, nor of one that could not be created (tunnelUpAction).
CredentialIsRight ==
  Settled => \A n \in Names :
    phase[n] = "running" /\ file.tunnels[n] \notin {None, server[n]} => Unsaved(n)

\* ... and the credential of a running tunnel is not lost: the process that
\* made it has saved or printed it before anything else can fail, and no later
\* command has dropped it from the file, whatever that one's environment says.
CredentialIsKept ==
  Settled => \A p \in Procs :
    Up(p) /\ phase[Name(p)] = "running" /\ server[Name(p)] = Minted[p]
      /\ outcome[p] \in {"ok", "failed"} =>
        told[p] \/ file.tunnels[Name(p)] = Minted[p]
=============================================================================
