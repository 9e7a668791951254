# darkubectl: models, checks and proofs

darkubectl is a command line client (and an MCP server over it) for a hosting
platform: an app is an object of about seventy fields that the platform turns
into a Helm release; the client reads it, changes it, waits for what becomes of
it, and opens shells, logs, tunnels and builds beside it. Nearly every command
is a conversation with a server that moves on its own: it answers `202` and
stores later, drops fields it does not know without saying so, shows secrets
blanked, sends pod lists that are stale, and ends streams where it likes. There
is no lock, no version and no partial update. What is hard about the program is
in those conversations, and that is what is modelled here.

- [Inventory](#inventory)
- [Modules](#modules)
- [Runs, bounds and what they show](#runs-bounds-and-what-they-show)
- [Fairness](#fairness)
- [Proofs](#proofs)
- [Observations](#observations)
- [Not modelled](#not-modelled)
- [Plan](#plan)

To check: `tlc -config MCAppEdit.cfg MCAppEdit` (and so on, one configuration per
run), `tlapm AppEditProofs.tla` (and the other proof modules).

## Inventory

**App edits** (`cmd/mutate.go`, `cmd/env.go`, `cmd/edit.go`,
`internal/client/update.go`, `envs.go`).
State: the stored app (the platform's), the object a command has prepared and
shown, the object it sends. Operations: read, prepare and diff, prompt, read
again, PUT the whole object, read back until the change shows.
Hard: two writers of one whole object; secrets that read as blanks; a 202 that is
stored late, in part or never; a read-back that fails; a command killed between
two requests. Correct if a write changes what its command names and nothing
else, no blank ever overwrites a secret, "updated" is only said of what was
stored, and every command ends.

**App settings** (`cmd/resources.go`, `autoscale.go`, `scale.go`, `svctype.go`,
`probe.go`, `disk.go`, `domain.go`, `entrypoint.go`, `patch.go`). The same
conversation with one field of its own per verb, and a test of its own whether
the change took. Hard: what the platform derives (a plan's size, a port number)
must not be taken for a lost change, a dropped field not for a stored one.

**Create and apply** (`cmd/spec.go`, `apply.go`, `create.go`,
`internal/client/create.go`). State: a file of documents, the list of apps they are
looked up in, which is kept until an app is created. Hard: what the POST ignores
follows in a PUT; an export that would change what it was exported from; a
document applied twice; a list that is old when it is used.

**Rollouts** (`cmd/rollout.go`, `internal/appstate`). State: the pods a restart
must replace, the last pod list. Operations: restart, `--wait`, `rollout status`.
Hard: stale lists first on every connection, the settle window that ends with the
stream, pods created around the snapshot, reads that fail, the deadline.

**Pod watch** (`cmd/podwatch.go`). State: the rows as last printed, for how many
frames each pod has been absent, which are deleted. Hard: stale frames that show
a dead pod or lack a live one.

**Exec and cp** (`cmd/exec.go`, `cmd/cp.go`, `internal/client/exec.go`). State: a
shell session whose output is cut into frames anywhere, what is held back of it,
the file being copied. Hard: the shell echoes its input, the markers may be cut,
the session may end or break anywhere, the status of a pipe is its last
command's.

**Builds** (`cmd/build.go`). State: the newest build before the request, the
build followed, the part of its log printed. Hard: the answer to a start names no
build; builds of others; a log begun again; states that are neither running
nor ended.

**wait app** (`cmd/wait.go`). State: the id found for a name, the deadline. Hard:
re-creation under the same name, a deadline that cancels the request under way,
a ticker and a deadline ready together.

**Configuration file** (`internal/config`, `cmd/configcmd.go`, `cmd/login.go`).
State: one file: token, tenants, tunnel credentials. Hard: processes that each
load and save the whole of it, truncate before they write, and may be killed.

**Tunnels** (`cmd/tunnel.go`, `internal/tunnel`). State: an app per tunnel on the
platform, its credential in the file and nowhere else. Hard: the two must agree
after partial failures, kills and concurrent commands.

**Registry** (`cmd/registry.go`, `internal/client/registry.go`). State: the images and
their tags, the retention rules, which tag each app runs (all the platform's), and what a
command has listed of them. Operations: delete a tag, a manifest or an image, prune,
`gc set`, `gc unset`. Hard: a repository has several names; manifests are listed, apps read and a
prompt answered before anything is deleted, while builds push and apps are deployed. Correct
if prune spares what runs and what is newest, and a rule is found again by what it was made with.

**Deletion, namespaces and orphans** (`cmd/namespace.go`, `delete.go`, `orphans.go`,
`internal/kube`). State: what a command has read of namespaces, apps, databases and a cluster. Hard:
lists read in pages and one after the other, whose rest is deleted with the namespace; releases that
appear and disappear later than their apps; clusters that hold other tenants' workloads too.

**Members, permissions, API keys** (`cmd/permissions.go`, `apikeys.go`). State: the rows of all
members of an app, read before the prompt and written as a whole; the key a name was
resolved to. Hard: somebody else's row, a write that is dropped or shown late, names that are
not unique. Correct if nobody else loses access, what is said of the change is so, and no
key but the one meant is revoked.

**Tickets** (`cmd/ticket.go`, `internal/client/tickets.go`). State: what was uploaded, whether there is
a ticket. Hard: several requests of which any may fail, files that change on the disk. Correct
if a ticket reported without an error has all its files and an error says whether there is one.

**MCP server** (`cmd/mcp.go`, `mcp_tools.go`). State: per tool call a command line, a child process
running this same binary, its output, a timeout. Hard: a command line must be understood as the
child will understand it; a read-only mode that must hold for every verb, alias and flag;
the kill at the timeout, and output that something else still holds after it.

**API session** (`cmd/app.go`, `session.go`, `internal/auth`, `internal/client/client.go`). State: the
credential chosen, the access token and the refresh token, the request under way. Hard: a token
endpoint that fails now and then, errors after which a write may or may not have been done,
redirects that would turn a write into a read.

**Listings**: events, metrics, invoices, the `get` commands and so on read once and print. No state
of the program outlives them.

How they interact: App edits, Create and apply, Rollouts, Builds, `wait app` and
Tunnels share the platform's apps and nothing else; each command is a process of
its own. Login, `config` and Tunnels share the configuration file. Permissions, keys, tickets, the registry
and namespaces each have state of their own on the platform; Deletion and the
registry also read the apps. Every command goes through the API session first. `set image
--wait` runs an app edit and then the wait of Rollouts. The MCP server runs all of
them, and may kill any of them at any point. PROJECT.json lists every component
with its sources, and under "hazards" what can go wrong where.

## Modules

| Module | Models | Composes |
|---|---|---|
| `AppEdit` | `set env`, `set env --secret`, `set image` by several processes | |
| `EditPromise` | what an edit command promises its user | |
| `AppEditRefinement` | the refinement mapping from `AppEdit` | `AppEdit`, `EditPromise` |
| `Rollout` | `rollout restart --wait`, `rollout status`, the cluster | |
| `PodWatch` | `get pods --watch` | |
| `ExecStream` | `exec`, `exec --upload`, `cp` | |
| `AppSpec` | an app with all its settings: what each verb makes of it, its errors and its read-back, the spec of `apply` and of an export, what the platform stores (no state) | |
| `Apply` | `apply -f`, `create app` and the verbs of `AppSpec`, by several processes | `AppSpec` |
| `Builds`, `WaitApp` | `build start/retry/stop/logs -f`, `wait app` | |
| `Polling` | one process running a command that polls or watches | `Builds`, `WaitApp`, `Rollout`, `PodWatch` |
| `ConfigFile` | the file, `Load`, `Save` and the commands that edit it | |
| `Tunnels` | `tunnel up`, `tunnel down` beside those commands | `ConfigFile` |
| `Registry` | `registry delete`, `prune`, `gc set`, `gc unset`, pushes and deployments | |
| `Projects` | `create namespace`, `delete namespace`, `delete app`, `get orphans` | |
| `Access` | `set permissions`, `create apikey`, `delete apikey` | |
| `Tickets` | `ticket create`, `reply`, `close`, `rate`, `download` | |
| `Mcp` | a tool call of the MCP server: command line, policy, child, answer | |
| `Session` | credential, token refresh, one request with redirects and errors | |
| `Tenant` | one program of one of these kinds | the six above |
| `MC*` | constants for TLC | |
| `AppEditProofs`, `AppSpecProofs`, `ApplyProofs`, `PollingProofs`, `ExecStreamProofs`, `TunnelsProofs`, `TenantProofs` | theorems | |
| `PlatformProofs` | types and invariants of `Registry`, `Projects`, the keys of `Access` and `Tickets`, for `TenantProofs` | |

**AppEdit.** One process per command line (`Clients`, `Commands`). `pc` is the place
in `runAppChange` (or `setSecretEnv`): `guard` is the read in which `setEnvAction`
looks for a variable of the other kind, `prepare` is `PrepareAppUpdate` with the
diff and the early returns (no change, dry run), `prompt` is `confirm`,
`rereadSecrets` and `reread` are the reads of `UpdateSecretEnvs` and `UpdateApp`,
`put` is the request, `verify` is one attempt of `retryReadBack`. A request and
what the code does with its answer up to the next request is one action, since
nothing another process does can come in between that the process would see. The
platform stores an accepted write in an action of its own (`Land`), later, or never,
without the fields it filters. The app is its environment, its secrets and its
image: three fields that stand for the two ways a field is sent (always; only if
asked) and the two ways a change is looked for in a read-back (against the
command line; against the prepared object). Histories (`ver`, `base`, `guardVer`, `sent`,
`held`, `saw`) record when something was read and what was stored; no guard reads
them. The one history a formula combines with state is `base[c] = ver`: "nothing
was stored since the read this write was made from".

**EditPromise.** The abstract machine of a command and its user. A command is `open` until
the user agrees, `agreed` while it works, and then `quiet` (it said that nothing was done), `confirmed`,
`denied` ("ignored") or `unclear` (it failed, or was killed). A change leaves once, from an agreed command that is not a dry run; it
is stored at some moment after it left, or never; `confirmed` needs that it was stored, `denied` that it was sent, and a
quiet command never sends. `AppEditRefinement` maps `AppEdit` to it by where a command is and by the message
it ended with, and by nothing else: "updated" is `confirmed`, "ignored" `denied`, and "no changes", "aborted",
"refused" and a dry run are `quiet`. What was sent and stored are the histories `sent` and `held`, so what the promise
demands of them is not given by the mapping.

**AppSpec, Apply.** `AppSpec` has one operator per function that computes on an app object:
`SpecApplied` is `applySpecTo` (`PlainApplied` without its autoscaling and probes), `Probed` is `applyProbes`, `Autoscaled` is `applyHPA`,
`Export` is `specFromApp`, `Payload` is `buildCreatePayload`, `Changed`, `CanChange` and `Took` are
the `apply` closures of the verbs, their errors and their `took`. A size stands for memory
and CPU, an image for repository and tag, a probe for its handler and port. `Apply` is the
conversation around them: a command line is a sequence of documents (one for every verb
but `apply`), looked up in a list of apps that `apply` keeps until it creates one. `FindApp` and
`FindNone` are `applyOne`, `Preread` is the read in which `set command`, `set domain` and
`set disk` settle what they ask for before the prompt, `Prepare`, `Answer`, `Reread`, `Put` and `ReadBack`
are `runAppChange`, `redeploy` marks the second write of `set domain`, `Post` and `Relist` are
`createFromSpec` and the unasked edit that follows it. The state of a process is one record
(`proc[c]`). `touched` is a history: the processes whose app something else wrote since they
prepared their change.

**Rollout.** The cluster: pods with a generation, ready or not, terminating or not;
a surge of one; disturbances (a crash, an eviction, someone else's rollout). The
stream: true lists and stale ones (`earlier`), one at the head of a connection and, within the bound of faults,
others out of order, with the settle window in which `FetchPods` reads on. The window is a time in the code; here it is
long enough for a true list after the stale one at the head (`WindowOver`), but not for one that would correct a later stale list
(`fresh` is then "overtaken", and the list returned may be stale). The process: the snapshot, the prompt, the
request, then rounds of `FetchPods` and `rolloutDone`, with a deadline that is looked at
between rounds and cuts a read short.

**PodWatch.** The server's frames (true or up to `MaxStale` stale ones), and the
per-pod state of `podWatcher`: the last row, the frames of absence, deletion.

**ExecStream.** A shell that runs a plan of commands over one session: echo, data,
exit marker, prompt. Markers are sequences of `MarkerParts` parts, so a frame may
end inside one; the reader's tail of `Keep` parts, the discarding after a marker,
the upload's here-document with the verification and the move, the copy's decoding
and its check of the archive are the code's.

**Builds, WaitApp, Polling.** One process and a platform with builds of our own
and of others, a log that grows and may be begun again, and apps under one name that
are deleted and created again. `Polling` starts the process in one command of
`Builds`, `WaitApp`, `Rollout` or `PodWatch`, each with its clock, and leaves the state of the others
as it is; a run of it checks all four.

**ConfigFile, Tunnels.** Every process has a command, its loaded copy of the file
and a `pc`; `Save` is two actions (truncate, write) as `os.WriteFile` is. Either may fail: the file that cannot be
opened stays as it was (`OpenFails`), the write that fails leaves a beginning of the new one (`WriteFails`). Each process has an environment of its
own (`Env`), in which a field is set, set and empty, or not set; `Overlaid` lays it over what was read, and a save
writes it. `Tunnels`
adds the platform's tunnel apps and the steps between which a credential exists
in one process only.

**Registry.** A name is a path, a sequence of components; the prefix ends with the tenant's name, with
which a repository's own name may begin. `MatchRepository`, `Reference`, `DeployedTags` and `Scope` are
what the code does to names; manifests are numbered as they were pushed, which is the order
`sortNewestFirst` makes. `List` and `ReadApps` are two requests; `since` notes what came into use between
the first of them and the deletion, `crossed` what other commands deleted or wrote.

**Projects.** Apps are a set, known by the ids they were given in their order. `Listing` is what the tenant's list holds, `Place(a)` is how many
of it come before `a`, and `Page(offset)` is the apps whose places the page has. The list is read page by page (`ReadPage`, one request each), so an app
deleted meanwhile shifts the rest (`shifted`). A namespace list a credential may not read is
made from the apps, a disjunct of `Namespaces`. `Land` installs or removes a release later than its app, or never.

**Access.** The members' rows are one sequence; `row` is an index in it, as in the code. `access` is what is
stored and `visible` what reads return, until `Show`. `Put` writes every row or is dropped by a platform
that accepted it. `raced` and `excused` record who else wrote and what the platform dropped.

**Tickets.** `NextPhase` is the order of uploads, filing and attaching; a file is a number of its content,
0 when it is not there. `Post` may file a ticket and lose the answer (`mute`). The upload of a new ticket's file fails without an id; that of
a reply's does not look (`Unnamed`), and the comment then names an attachment there is none of.

**Mcp.** A command line is a sequence of tokens. `Resolve` walks it as `resolveMCPInvocation` does, a
recursive function of how many tokens have been read; `Classify` and `MayRun` are the policy; `Argv` makes the line of a typed tool from
its command, the flag it always has (`fixed`) and what was given.
The table of commands and the tree are constants of the model, so `Does`, what the
binary really does for a path and its flags, is independent of the policy and the two are compared: `PolicyAgrees` says
of a tree, and `ToolsAgree` of the tools, what the policy takes for granted about them. One command does more than its
class says: `describe app` is a read that prints the app as the platform has it, deploy token included. `Shown` says so, `PolicyAgrees`
and `GateHolds` except it by name, and `MCMcp` shows what comes of it. The
child writes, exits, or is killed at its deadline or by a cancelled call; `held` is a grandchild that
keeps the output open, which `mcpWaitDelay` bounds.

**Session.** `Build` chooses the credential, `Refresh` and `Wait` are the loop of `auth.Refresh`: an answer in the 400s
is final whatever the refresh token is worth, and an access token is taken as it comes, even an empty one. `Send` is one
request. A server may do what it is asked and fail to say so; `written` is what it did.

**Tenant.** The six share nothing on the platform that another of them writes, so one of them runs; a
variable of the others keeps its first value.

## Runs, bounds and what they show

| Run | Shows | Bounds |
|---|---|---|
| `MCAppEdit` | two commands of six kinds over one app: a serial write leaves the rest alone, secrets change by secret edits only, "ignored" is true of secrets and images, what a command has told its user is as `EditPromise` says | 2 processes, 2 names, 1 value, 2 images, 2 read-backs |
| `MCAppEditConsole` | one command against the console, plain variables dropped by the platform: "updated" means stored, the name check holds without a race, every command ends | 1 process, 2 console edits, 5 read-backs (the code's number) |
| `MCAppEditFalseIgnored` | **violation**: a stored write is reported as ignored | 2 processes |
| `MCApply` | what is reported is stored, an export applied back changes nothing, a serial write changes only what its change names, for every verb and for specs | alone: 27 changes on 9 apps with 3 sets of dropped fields, 9 copies from exports, 11 creates (one of 3 documents); 2 processes: 36 pairs of 8 changes on 2 apps, 3 pairs of creates; 1 step of the autoscaler or deletion, 2 read-backs |
| `MCApplyOtherHalf` | **violation**: `set command` of one half takes the other half back | 2 processes |
| `MCRolloutStatus` | **violation**: `rollout status` passes on a stale list | 3 pods, 1 replica, 2 disturbances, 1 fault |
| `MCPolling` | the build followed is ours, the follow ends with the build and the whole log has been printed; `wait` fails for a reason; "deleted" is said of what is gone, app or pod; a rollout reported as done was over, a restart's whatever stale lists came, and one that is over is reported; the last row printed of a pod is the true one; every command ends | logs of 3 lines, 1 other build, 1 restart of the log, 2 apps; 3 pods, 1 replica, 1 disturbance; 2 watched pods, 3 stale frames; 1 fault (a failed read, a cut stream, or a stale list out of order) |
| `MCExecStream` | the status reported is the command's, output and copies are whole, an upload is moved into place only when whole, the end is noticed | markers of 3 parts, 2 pieces of data, 2 lines |
| `MCExecEndedEarly` | **violation**: status 0 for a session that ended before the status came | as above |
| `MCTunnels` | a saved credential opens the tunnel it is saved for, no credential is lost but by a kill, a write that fails half way or a race, a serial save leaves to the others what the file and the environment had | 2 processes, one with a variable set and another set and empty, 7 commands, 2 tunnels |
| `MCTenant` | prune spares what runs and what is newest, rules are as reported; a namespace that is deleted was empty; nobody else loses access, no other key is revoked; tickets have their files; the server does what it may and answers in time; what is said of a write is so | registry: 2 commands, 2 repositories, 2 tags, 3 pushes, 2 rules; projects: 3 namespaces (two of one name), 4 apps, pages of 2, 3 moves; access: 2 members, 2 permissions, 3 keys, 1 edit in the console, 2 read-backs; tickets: 2 commands, 2 files, 2 edits, 1 step of support; server: 1 call of 22, 3 policies; session: every choice of credentials, 4 attempts, 3 redirects (the code's numbers) |
| `MCMcpSecrets` | **violation**: `describe app` shows a secret without `--allow-secrets` | 1 call of 2, 3 policies, 3 commands |

Why the bounds are enough. `MCApply` varies the app rather than the race: its nine apps are
the shapes the code tells apart (built from git, fixed plan, autoscaled, autoscaling turned off, a
probe in both places, a probe no spec can carry, two ports with public ports, no port), and
each change is met by each of them. A lost update, a clash of names or a late store needs two
writers and two names: one they share and one only one of them names. A third writer
adds orders, not kinds of interference, since a write reads only the app. Two values of
a variable (absent and `v1`, with `Blank` for what a read shows) distinguish every
outcome of a merge. Two read-backs are a first and a last one; `MCAppEditConsole` uses
the five of the code. A rollout of one replica with a surge needs an old pod, a new pod
and one that replaces a crashed one. A frame sequence that could break the
two-frame rule needs two absent frames that do not follow one another: three stale
frames. A marker of three parts can be cut at its first, in its middle and at its
last part. A build command can be confused by the build before and by one beside it.
Prune needs a manifest older than the newest, a tag that is moved off it and an app that is deployed back:
three pushes and two tags. A list of apps that shifts between its pages needs a page and one app
more. A row taken for another needs two members, one of whom has no access at first. An ambiguous key
needs two keys of a name, and one whose name is the other's id. Calls of the MCP server share
nothing, so one call is as good as several; its command lines are the ones each rule of the policy and of
the walk is about (aliases, a flag's value, `--`, a group that is a command, `-h`, identity flags).

The five violation runs check what the program's texts say, each a single
sentence quoted in PROJECT.json under "findings".

`CHECK_DEADLOCK FALSE` is set in every run because every process ends: a state in
which all commands are done has no successor. That no command stops before its end
is a liveness property of the run instead (`EveryCommandEnds`, `EndIsNoticed`, `CommandEnds`). `MCTenant`
has none: its commands are sequences of requests without a loop but for the pages, the read-backs, the
attempts and the redirects, each of which is bounded in its type invariant, and `AnsweredInTime` bounds a call.

## Fairness

Weak fairness of the steps of a process, everywhere: nothing in a command waits on
another process, every request has `requestTimeout`, a prompt is answered or its input
is closed. The platform owes nothing to `AppEdit`: a write may never be stored, and the
command ends all the same. `Rollout` assumes that a true list follows a stale one on a connection that stays open, as long as it does not send another stale one, of
which there are finitely many
(`NextList`) and nothing of the cluster: `OverIsReported` speaks of a rollout that is over
and stays so, `CommandEnds` of a deadline that has passed. `PodWatch` assumes that the
server sends the true frame it owes. `ExecStream` assumes that the client sends and reads
what there is. `Polling` assumes that the timers fire and that a build ends some
day, and, because Go's `select` picks at random between a ticker and a deadline that are
both ready, strong fairness of the deadline's branch. `Tunnels`, `Apply` and `Tenant` have no liveness property and
no fairness: that the dance ends is shown of `AppEdit`. No process is
assumed to survive: kills are not fair, and not excluded.

## Proofs

The proofs about `AppEdit` hold for any number of processes, names, values, images, command
lines, filtered fields, attempts and console edits, from the five assumptions named in `AppEdit`
(`Absent` is not a value; the command lines are well formed; ...). Those about `AppSpec` hold for
any values of the settings, from its assumptions: a null or an empty setting is not a value of
another kind (`MarksAssumption`), nor a structure or an app (`StructuresAssumption`), and a path is not a
command (`HandlersAssumption`).

- `AppEditProofs`:
  - `TypeCorrect`, `Spec => []TypeOK`. It is inductive as it stands:
    the bound on `tries` holds because `ReadBack` ends the command at the last attempt.
  - `SecretsSafe` (secrets change by secret edits only) and `SerialSafe` (a write stored over the app
    it was read from changes only what its command names). The second needs an invariant (`SafeInv`):
    as long as `base[c] = ver`, what would be stored of the body of a write agrees with the stored app
    outside what the command names; it is kept because every change of the stored app raises `ver`.
  - `UpdatedSafe`, that "updated" is only said of what was sent and stored. `Took` looks at fields, so
    the invariant (`PlanInv`) says that what a process compares with is a fixed point of its own change,
    which is where the way the diff was made matters; `HeldInv` keeps `held` up to date with the stored app.
  - `PromiseKept`, `AppEdit` implements `EditPromise`: initial states map to initial states and every
    step to a step or a stutter. Which step depends on the message a command ends with, so it needs to be known of each place in a
    command what it has sent by then: nothing before the prompt is answered, and once after it; and that a dry run ends before it asks.
  - `IgnoredSafe`, that "ignored" is true of secrets and images: `SightInv` says that a command whose
    read-back showed its write as it was sent has ended with "updated", since what was written passes the test of the command
    that wrote it (`WrittenTook`), which is not so of plain variables (`MCAppEditFalseIgnored`).
  - `NoShadowSafe`, that without a race no variable is both plain and secret: `GuardInv` says that as long as
    nothing was stored since the other kind was looked for, the app still has none of the names of the command.
- `AppSpecProofs`: `ExportFixed`, that the export of an app applied to that app finds no error and
  changes nothing but a path beside a probe of the chart's values. One lemma per part: a setting
  shown as it is stays (`GivenSame`), services keep their public ports (`SameService`: only a
  declared port has one), autoscaling keeps its bounds (`SameScale`), and a probe comes back in the
  home it was in (`SameProbes`). Two groups of lemmas follow for `ApplyProofs`: what each operation makes of an app
  is an app, and which fields it writes with what (`SpecFields`, `AutoscaledFields`, `DerivedFields`, `StoredFields`).
- `ApplyProofs`, for any processes, names, command lines, filtered fields, attempts and steps of others
  (`ScenariosAssumption`: every app starts well formed and with the size of its plan, every change is
  one its verb can carry, and only `apply` takes several documents):
  - `TypeCorrect`, `Spec => []TypeOK`. The types are not inductive: what a PUT sends is made from
    the change a process holds, so the invariant (`IInv`) says of a process in the middle of a document
    that its change is well formed and of the document's verb, and that what it creates is complete.
    One lemma of `AppSpecProofs` per operation says that it makes an app of an app (`ChangedIsApp`,
    `SpecAppliedIsApp`, `PayloadIsApp`, `StoredIsApp`).
  - `ExportQuiet`, `Spec => []ExportIsQuiet`: from the types, by `ExportFixed` for each app.
  - `OnlyNamed`, `Spec => OnlyNamedChanges`: `ChangeNamed` says for every verb that what it makes of
    an app differs from it in what the change names only, and `StoredNamed` that the platform adds nothing
    to that. The invariant (`SerialInv`) ties them to the writes: a body read at the present version
    differs from the stored app only in what the change of its document names (`Pending`), which
    lasts because whatever is stored raises the version; `Filled` relates the change made to the one
    asked for, where `set command` and `set domain` have filled in what they read. `SizesOK`, that an
    app on a fixed plan has the plan's size, keeps a write of anything else from moving the size.
    (TLC also finds `SerialInv` invariant on the constants of `MCApply`, though no run repeats that.)
  - `ReportsStored`, `Spec => []ReportedIsStored`: what is reported of an app nothing else wrote is what is stored. The
    invariant (`ReportInv`) follows one change from its prompt to its report. Until it is sent it was `Prepared` from the very
    app that is stored; then it is on its way, lost or stored (`Awaited`); once it is reported the app holds
    it, and still will when a write that is late is stored (`Kept`). What ties them is a lemma per verb: what passes the
    verb's own test in the read-back (`Took`, `DiffStored`) holds everything it asked for, although the test looks at some fields
    only, because the platform stores the other fields as they were (`StoredShows`, `TookIsSame`). (TLC finds `ReportInv` invariant on the
    constants of `MCApply` too.)
- `PollingProofs`, for any bounds and any number of pods, with a positive number of apps and `Replicas` among the
  pods (`BoundsAssumption`, `RolloutAssumption`), and with more than the one stale frame that the server may
  owe before a pod counts as deleted (`AbsentAssumption`). One invariant per command, kept by the steps
  of that command because it is, and by those of the others because they leave it alone.
  - `TypeCorrect`, `DeletedSafe` and `FailureSafe`. For a watch, `WatchOf` says that a pod is missed by two frames in a
    row only if one of them was true; for `wait app`, that ids are handed out once.
  - `OwnIsFollowed` and `EndSafe`. `Alone` follows a start by one process through its request: there is no build
    but the newest remembered until our own is queued. `Shown` says where in the log what was printed ends, and of
    which run of the log, unless a log begun again was taken for a longer one.
  - `RolloutSafe`, that a rollout reported as done was over. A stale list shows a pod as it was, so what was gone in it
    is gone (`ShownOf`); nothing moves before the request but by a disturbance, so the snapshot has every pod
    to be replaced (`Still`, `Replaced`). From the request on every list that may still come shows the
    pods of the snapshot, or shows them gone: one that shows none of them is from the wait, however stale it is, and what
    it shows has been noted (`Younger`, `TruthIsYounger`). That is why no stale list misleads a restart after an undisturbed prompt.
    `rollout status` has no snapshot, and is only as good as the list that decides it (`Noted`, `Decided`).
- `ExecStreamProofs`, for any number of parts of a marker, pieces of output and lines of an upload, and any
  tail that is held back, if it is no shorter than a marker but one part (`KeepAssumption`: `exec.go:241`): `TypeCorrect`,
  `StatusSafe`, `OutputSafe`, `UploadSafe`. The argument is about one sequence, `All`: what was handed on, what is held back
  and what is on the wire. Reading moves tokens along it and changes nothing, the shell appends to it, so it keeps
  its layout wherever the frames cut it (`Laid`, `Closed`): echoes, what the command wrote, its marker, the prompt. A
  status is then the one in the only marker there is, and what precedes it is all of the output. `Over` says that nothing of a
  marker is handed on before the marker is whole, which is where the length of the tail is needed.
- `TunnelsProofs`, for any number of commands, tunnels and values, if every process mints a credential of its own
  (`MintedAssumption`): `TypeCorrect`, `RightCredential`, `KeptCredential`, `SavesKeepOthers`, for any environments of the processes, of values
or of none (`EnvAssumption`). `CleanCopy` says that what a
  command has read is still in the file if nobody else has touched it, so a save is made over what was read
  (`CopyOf`); `Unused`, that a credential is nowhere before its app is created; `NotYetInFile`, that a tunnel
  which replaced a command's own before its save is not in the file it is about to write over. With these `FileOpens`,
  that every running tunnel has its credential in the file or is yet to be saved, is kept by each save.
- `TenantProofs`, with the invariants of `PlatformProofs`. As one program runs and the others' variables stay
  as they are, the invariant (`TenantInv`) is one per program.
  - `TypesSafe`, `Spec => []TypeOK`. Each program's types are inductive only with something about its commands: in
    `Registry`, that nothing is doomed before a listing, and that only `gc set` writes a rule where none was found; in
    `Access`, that a command which looks again has a try left; in `Tickets`, that the stars were looked at before they are sent.
  - `EmptySpacesOnly`: a namespace that is deleted held no app but what came later, or the list shifted, and no database that was
    there to be seen. The invariant (`ProjectInv`) says that the pages read so far are the first ones of the list as it is now
    (`PagesRead`): an app made meanwhile has the highest id and comes last, and a deletion shifts the list. So the next page
    is just what follows (`NextPage`), and after the last one all of it was read, whatever the size of a page. For that places are counted: every place
    of the list is some app's (`PlaceTaken`, by the pigeonhole principle) and no two share one (`PlacesApart`).
  - `GateSafe`, for any command tree, tools and tokens: the server does nothing it was not started for, and the line made for a
    typed tool is read back as its command, its flags and its arguments (`ArgvReadsBack`). The first part is that no flag a line has been found to have
    does more than the class of its command lets it (`PolicyHolds`); the second follows the line token by token. Both are induction over
    a line, done by its shortest prefix for which the claim fails (`Smallest`: a set of naturals that is not
    empty has a least one), since what `Resolve` says of a prefix it makes of the one before. The two hypotheses are `PolicyAgrees`, that the table of `mcp.go` says of each
    command and flag no less than it does, but for what a raw read shows (`Shown`: `describe app`, `mcp.go:84`), which `GateHolds` excepts too, and `ToolsAgree`: a tool's
    command is in the tree, the flags it passes are known there and it is classified as what it says it is (which `TestMCPToolSpecsResolve` asks of every typed tool), and one that would be asked has a `--yes`.
    That the program's own tree has these is not proved here: a command that is added and missing from the table breaks them if it is a `get` that writes or one that never ends
    (any other counts as a write). TLC evaluates both for the tree and the five tools of `MCTenant`.
  - `OthersSafe`, for any list of different members and grants of the permissions there are: a change of permissions leaves everybody else's access alone.
    The property speaks of the rows a process holds and of the state of the platform, so `AccessInvOf` ties them: while nobody
    else wrote, the rows about to be sent are what is stored (`RowsAreStored`), and a write that is
    being read back is stored or was dropped before anything was shown (`WriteIsStored`). `SentRow` says that
    a member's row in the list sent is that member's.
    - `AnswersTrue`: what is said of a change of permissions, of a tool call and of a request is so (`AnswerIsTrue` is
    the conjunction of the three modules' formulas of that name and of `OrphansAreGone`: a workload is called orphaned only if the
    tenant's list has no app of its id, or the list shifted or the app is new). For a request, with positive numbers of attempts and
    redirects, `Underway` says that nothing was written before the one answer, and that a write is still a
    write when it is sent.
  - `CallsSafe` (times are numbers of ticks): a call is answered in time, since a child ends by its limit and its output is waited for no
    longer than `Delay` after that (`InTime`).
  - `RuleSafe`: `gc set` and `gc unset` leave what they report. `RulesInv`: rules have ids of their own (`RuleIds`), no two are for
    one scope until commands write over each other (`RulesApart`), and a command is to write the one that is there (`FoundRule`).
  - `PruneSafe`: prune deletes nothing that runs, but for what came into use since its listing, and none of the newest. `PruneInv` follows a command through its two
    lists: what was listed is still there (`ListedIsThere`), what runs was listed as tagged or has been noted since
    (`RunsAsListed`), so what is doomed runs nowhere else (`DoomedIsUnused`). The name an
    app runs from is followed to its repository for any names (`RepositoryOf`).
  - `KeysSafe`: a key that is revoked is the one meant, by its id, or alone by its name among those that were there
    (`KeyIsMeant`).
    - `TicketsSafe`: a ticket reported without an error has its files, and a reply those the server gave ids for. What was uploaded is what
    was given, in its order (`SentInOrder`, `NamedSent`); a command knows its ticket once it is filed (`KnowsItsTicket`); one that has failed has left
    nothing, or was told nothing (`LeftNothing`).

The assumptions are named in the modules that declare the constants, and TLC evaluates them in the runs. Those of `Tenant`: an email is in the list of
members once, and every grant is of known permissions (`MembersAssumption`); times are numbers (`TimesAssumption`); there is at least one attempt and one redirect
(`SessionAssumption`); what an app runs from is a repository that is there, and prune and `gc set` keep a number of tags (`RegistryAssumption`: the
flags are integers); no command is called what support is, and files are among those there are (`TicketsAssumption`); ids
of namespaces are positive and their own, a page holds at least one app (`ProjectsAssumption`: the client asks for pages of a fixed size); the policy's table (`McpAssumption`).

Every invariant and every action property of every passing run has its theorem. Only model-checked: the five liveness properties (`EveryCommandEnds`, `EndIsNoticed`,
`OverIsReported`, `LiveRowsSettle`, `CommandEnds`), since the prover does not do `ENABLED` and fairness.

## Observations

The program's texts and its code disagree in the five runs named above. What follows are
limits met while modelling that no text promises the absence of, or that the models
leave out of the properties on purpose.

*App edits.* Two edits at once lose the first one's fields if both read before either is
stored: `SerialWriteKeepsOthers` claims no more than a write without a race. The window is
that between the second read and the store, not that of the prompt. If every read-back
fails transiently the message is still that a re-read shows the old value
(`mutate.go:166`, `:189`).
`set command` of one half is the one edit that loses what the second read shows
(`MCApplyOtherHalf`); `OnlyNamedChanges` counts both halves as named. `set subdomain --ssl` looks for the label only in its read-back. The
edits that compare with the object of the prompt (`verifyDiff`) may say "ignored" of a
write that is stored, which is `MCAppEditFalseIgnored`; and since they look only at the
fields that differed before the prompt, a setting that someone else changes meanwhile and that the
platform then drops is not missed (`ReportedIsStored` speaks of an app nobody else wrote).
For the same reason a patch that names a fixed plan and the size the app already has says "configured" while the
platform stores the size of the plan: the size did not differ before the prompt. `ReportedIsStored` leaves the size
beside a fixed plan out of what it asks of a patch.

*Rollouts and waits.* `restart --wait` does not wait for the replacement of pods created
between its snapshot and its request. A stale list that comes last in the settle window is as good as a true one for
`restart --wait` after an undisturbed prompt, but may pass `rollout status`, or keep either waiting for a round. `wait --for ready` right after an edit passes on the
old, healthy pods. A deletion whose frames are the last the server pushes may never be printed.

*Exec and cp.* Two uploads to one path share the same temporary file; an interrupted
one leaves it behind.

*Builds.* The build found after a start may be that of somebody who started one at
the same moment; `FollowsOurOwn` claims it only without one. If a log is replaced by
one that is as long or longer, the lines before the place reached are not printed;
`EndsWithTheBuild` exempts those.

*Configuration.* `login` loads the file before its prompts and saves after them. A
save writes the values the environment laid over the file: after `DARKUBE_ORG=x` before any command that saves, `x` is the tenant of all later
ones, and `DARKUBE_TOKEN=` wipes the saved key, though the README describes both for one command
(`README.md:472-476`). A process killed between the two
steps of `os.WriteFile` leaves an empty file, and a write that fails (a full disk) a part of it: all credentials of
tunnels are then lost but the one the command prints.

*Registry.* An app deployed to an old tag while the prompt of `prune` waits is not spared (`since`). A rule of
`gc set` names a repository by the prefix and its listed name, where an app's reference leaves out a
tenant's name that would be there twice (`registry.go:601`); the code finds its own rules again, which is what
`RuleIsAsReported` says, and whether the platform reads the scope so is not in the repository.

*Namespaces.* An app made after its page was read, or skipped because another one was deleted between two pages,
is deleted with the namespace. `get orphans` compares one tenant with all namespaces the credential may read: on a cluster that
other tenants share, their running apps are reported as orphaned (`kube.go:179`), where `README.md:458` says
"a workload whose app is gone"; `OrphansAreGone` says what does hold, of the tenant's own list.

*Permissions, keys, tickets.* Two changes of permissions at once lose one of them, as with apps. Keys are looked up on
one page of the listing. The size of an attachment is asked of the disk after its upload (`tickets.go:455`). The id of a file uploaded for a reply is not looked at (`tickets.go:389-395`,
unlike `:459`): without one the reply is reported, and the comment lacks the file.

*API session.* The access token is minted once per process; one that expires in a prompt or a long wait is not
minted again. A write that was redirected counts as a transient error though it was never done. A refresh that is
answered with any error in the 400s, a rate limit for instance, is given up at once, as if the refresh token were bad (`auth.go:171`), and a success without a
token in it goes on to a request without one.

*MCP server.* A child that ends by itself as its deadline passes is reported with the
note that it timed out, and not as an error (`mcp.go:448-458`). `describe app` is in the table as a read (`MCMcpSecrets`). A command
given to `exec` may itself never end; it runs into the timeout like any that takes too long.

*Specs.* `create app -f` of a spec with autoscaling, probes or a size says "created" and leaves
them out, since only `apply` follows the POST with a PUT; `ReportedIsStored` asks of it
what a POST carries. The size of a document is checked against the plan of the listed
app, which an earlier document of the file may have changed (`apply.go:233-239`): it is
refused, or sent and then reported as ignored. A service type is sent to the POST as
it is written and put into its canonical form only by an edit (`apply.go:377`), and `apply` does not
run the checks of a git source that `create app` runs. Turning autoscaling off on an app
whose chart drops the block shows a change every time, as does patching ports the platform
has given public ones. An exported probe with an explicit zero timing, or with a path that does not begin
with a slash, is not the same probe when applied (`probe.go`).

## Not modelled

Listings, output and the terminal UI keep no state. `tunnel connect` and `tlsprobe` are network I/O, as is the
WebSocket below a shell session. The settings of git builds, certificates and DNS of hosts are in `AppSpec` only as
far as a spec or a verb changes them. The parsing of flags
and of YAML is left out: the models begin with a well-formed command line, except `Mcp`, whose subject is the walk
over one. The MCP server's truncation of output is text.
Within modelled components, wording, JSON output, column widths and progress lines are
left out. The platform, the cluster and the shell are not in this repository: they are
modelled from how the code uses them, with every liberty its comments ascribe to them.

## Plan

1. `AppEdit` with its refinement and proofs; `Rollout`, `PodWatch`, `ExecStream`,
   `Polling`, `Tunnels`: done.
2. `AppSpec` and `Apply` with `MCApply`: done.
3. `Registry`, `Projects`, `Access`, `Tickets`, `Mcp`, `Session` under `Tenant`; `Rollout` and `PodWatch` under
   `Polling`: done.
4. Theorems of every module with state, and of every safety property ([Proofs](#proofs)): done. Next: an abstract
   specification that `Apply` implements, as `AppEdit` implements `EditPromise`.
5. A second request of `Session`, after a prompt in which its token expires; several tool calls of the server over
   one configuration file.
