-------------------------------- MODULE Mcp --------------------------------
(***************************************************************************)
(* `darkubectl mcp` (cmd/mcp.go, cmd/mcp_tools.go): a server that runs     *)
(* darkubectl commands for an AI client.  It handles several calls at      *)
(* once.  A call gives a command line, or names a typed tool and gives its *)
(* parameters, which become a command line; the server decides by a policy *)
(* whether it may run, and runs it as a child process, without stdin, for  *)
(* a limited time.                                                         *)
(*                                                                         *)
(* A command line is a sequence of tokens: words, flags with or without a  *)
(* value of their own, and `--`.                                           *)
(***************************************************************************)
EXTENDS Naturals, FiniteSets, Sequences, SequencesExt

CONSTANTS
  Calls,     \* the calls a client makes
  Requests,  \* what a call may ask: records [tool, given, line, timeout]
  Tools,     \* the typed tools: records [name, command, fixed, params, write]; fixed are
             \* the flags it always has
  Commands,  \* the command tree: records [path, flags, group, does, prompts],
             \* a flag a record [names, value, does]
  Timeout,   \* the server's --timeout, in ticks
  Delay      \* mcpWaitDelay, in ticks

NoTool == ""
Word(w) == [is |-> "word", text |-> w, value |-> FALSE]
Flag(name) == [is |-> "flag", text |-> name, value |-> FALSE]
FlagWith(name) == [is |-> "flag", text |-> name, value |-> TRUE]
DashDash == [is |-> "dashdash", text |-> "", value |-> FALSE]

VARIABLES
  allow,    \* what the server was started with: "reads", "secrets" or "writes"
  request, pc,
  invocation,  \* what its command line was found to be
  child,    \* how the child ended: "none", "running", "ok", "failed", "killed"
  held,     \* a grandchild still holds the child's output
  age,      \* ticks since the child was started
  ended,    \* its age when it ended
  did,      \* what it has done: "write", "secret"
  answer    \* records [error, why]

vars == <<allow, request, invocation, pc, child, held, age, ended, did, answer>>

\* A command line of which nothing is known yet.
Start == [path |-> <<>>, flags |-> {}, args |-> <<>>, help |-> FALSE,
          descending |-> TRUE, skip |-> FALSE, rest |-> FALSE, bad |-> FALSE]

NoRequest == [tool |-> NoTool, given |-> <<>>, line |-> <<>>, timeout |-> 0]
NoAnswer == [error |-> FALSE, why |-> "none"]

Init ==
  /\ allow \in {"reads", "secrets", "writes"}
  /\ request = [c \in Calls |-> NoRequest] /\ invocation = [c \in Calls |-> Start] /\ pc = [c \in Calls |-> "idle"]
  /\ child = [c \in Calls |-> "none"] /\ held = [c \in Calls |-> FALSE]
  /\ age = [c \in Calls |-> 0] /\ ended = [c \in Calls |-> 0]
  /\ did = [c \in Calls |-> {}] /\ answer = [c \in Calls |-> NoAnswer]

AllowsWrites == allow = "writes"
AllowsSecrets == allow \in {"secrets", "writes"}     \* --allow-writes implies it

-----------------------------------------------------------------------------
(* resolveMCPInvocation: the command, the flags and the arguments of a     *)
(* command line, found the way the command-line library finds them.        *)
CommandAt(path) == CHOOSE c \in Commands : c.path = path

\* lookupFlag: the flag of the command or of one above it.
LookupFlag(path, name) ==
  {f \in UNION {c.flags : c \in {d \in Commands : IsPrefix(d.path, path)}} : name \in Range(f.names)}

\* A flag is known by its first name, whichever was given.
TakeFlag(inv, tok) ==
  IF tok.text \in {"help", "h"} THEN [inv EXCEPT !.help = TRUE]
  ELSE IF LookupFlag(inv.path, tok.text) = {} THEN [inv EXCEPT !.bad = TRUE]
  ELSE LET f == CHOOSE f \in LookupFlag(inv.path, tok.text) : TRUE IN
       [inv EXCEPT !.flags = @ \cup {Head(f.names)}, !.skip = f.value /\ ~tok.value]

TakeWord(inv, tok) ==
  LET sub == Append(inv.path, tok.text) IN
  IF inv.descending /\ inv.path = <<>> /\ tok.text = "help" THEN [inv EXCEPT !.help = TRUE]
  ELSE IF inv.descending /\ \E c \in Commands : c.path = sub THEN [inv EXCEPT !.path = sub]
  ELSE [inv EXCEPT !.descending = FALSE, !.args = Append(@, tok.text)]

TakeOne(inv, tok) ==
  IF inv.bad THEN inv
  ELSE IF inv.skip THEN [inv EXCEPT !.skip = FALSE]
  ELSE IF inv.rest THEN [inv EXCEPT !.args = Append(@, tok.text)]
  ELSE CASE tok.is = "dashdash" -> IF inv.descending THEN [inv EXCEPT !.bad = TRUE] ELSE [inv EXCEPT !.rest = TRUE]
         [] tok.is = "flag" -> TakeFlag(inv, tok)
         [] tok.is = "word" -> TakeWord(inv, tok)

Resolve(tokens) ==
  LET known[n \in 0..Len(tokens)] == IF n = 0 THEN Start ELSE TakeOne(known[n - 1], tokens[n])
  IN  known[Len(tokens)]

-----------------------------------------------------------------------------
(* The policy.  What no line of it names is a write.                       *)
ReadCommands ==
  {<<"version">>, <<"whoami">>, <<"describe", "app">>, <<"logs", "app">>, <<"top", "app">>, <<"top", "apps">>,
   <<"wait", "app">>, <<"rollout", "status">>, <<"rollout", "history">>, <<"build", "list">>, <<"build", "logs">>,
   <<"registry", "list">>, <<"registry", "images">>, <<"registry", "tags">>, <<"registry", "gc">>,
   <<"ticket", "list">>, <<"ticket", "view">>, <<"ticket", "types">>, <<"ticket", "priorities">>, <<"config", "view">>}
SecretCommands == {<<"get", "deploy-token">>, <<"get", "ci-config">>, <<"registry", "password">>}
BlockedCommands ==
  {<<"terminal">>, <<"login">>, <<"completion">>, <<"mcp">>, <<"tunnel", "connect">>,
   <<"config", "set-token">>, <<"config", "use-tenant">>, <<"config", "add-tenant">>}

\* Flags that make a command endless, and flags that choose the identity.
BlockedFlags(path) ==
  (CASE path = <<"describe", "app">> -> {"interactive"}
     [] path = <<"get", "pods">> -> {"watch"}
     [] path \in {<<"logs", "app">>, <<"build", "logs">>} -> {"follow"}
     [] OTHER -> {})
  \cup {"config", "token", "base-url"}

\* The class of a command, whatever its flags.
ClassOf(path) ==
  IF path \in ReadCommands THEN "read"
  ELSE IF path \in SecretCommands THEN "secret"
  ELSE IF path \in BlockedCommands THEN "blocked"
  ELSE IF path # <<>> /\ Head(path) = "get" THEN "read" ELSE "write"

OnlyHelp(inv) == inv.help \/ (CommandAt(inv.path).group /\ inv.args = <<>>)

\* Mutant: every `get` is a read, before the table is looked at.
ClassifyGetFirst(inv) ==
  IF OnlyHelp(inv) \/ (inv.path # <<>> /\ Head(inv.path) = "get") THEN "read"
  ELSE IF inv.path \in BlockedCommands THEN "blocked"
  ELSE IF inv.path \in ReadCommands THEN "read" ELSE "write"

Classify(inv) ==
  CASE OnlyHelp(inv) -> "read"
    [] ~OnlyHelp(inv) /\ inv.flags \cap BlockedFlags(inv.path) # {} -> "blocked"
    [] OTHER ->
       CASE inv.path = <<"api">> ->
              IF inv.args # <<>> /\ Head(inv.args) \in {"GET", "OPTIONS"} THEN "secret" ELSE "write"
         [] inv.path = <<"get", "env">> /\ "show-secrets" \in inv.flags -> "secret"
         [] inv.path = <<"get", "orphans">> /\ "kubectl" \in inv.flags -> "write"
         [] OTHER -> ClassOf(inv.path)

\* check: what the server refuses to run.
MayRun(tokens, inv) ==
  /\ tokens # <<>> /\ ~inv.bad
  /\ CASE Classify(inv) = "read"   -> TRUE
       [] Classify(inv) = "secret" -> AllowsSecrets
       [] Classify(inv) = "write"  -> AllowsWrites
       [] OTHER -> FALSE

-----------------------------------------------------------------------------
(* Typed tools.                                                            *)
ToolNamed(name) == CHOOSE t \in Tools : t.name = name

\* mcpValues: a value has the parameter's kind; false and "" add nothing.
WrongKind(p, given) == p.key \in DOMAIN given /\ given[p.key].kind # p.kind
Values(p, given) == IF p.key \in DOMAIN given THEN given[p.key].items ELSE p.default

\* A value that starts with a dash cannot be an argument of its own.
Dashed(p, given) == p.flag = NoTool /\ \E v \in Range(Values(p, given)) : v.is # "word"

Invalid(tool, given) ==
  \/ \E k \in DOMAIN given : k # "tenant" /\ \A i \in DOMAIN tool.params : tool.params[i].key # k
  \/ \E i \in DOMAIN tool.params :
       LET p == tool.params[i] IN
       \/ p.required /\ p.key \notin DOMAIN given
       \/ WrongKind(p, given) \/ Dashed(p, given)

\* prompts: whether the tool's command has a --yes; it does not look past a
\* fixed flag.
Texts(tokens) == [i \in DOMAIN tokens |-> tokens[i].text]
Path(tool) == Texts(tool.command)
Prompts(tool) == tool.fixed = <<>> /\ \E f \in CommandAt(Path(tool)).flags : "yes" \in Range(f.names)

NeedsYes(tool) == tool.write /\ Prompts(tool)

\* argv: the command, its arguments, and its flags, each with its value.
Arguments(tool, given) ==
  FlattenSeq([i \in DOMAIN tool.params |->
    LET p == tool.params[i] IN IF p.flag = NoTool THEN Values(p, given) ELSE <<>>])
Flags(tool, given) ==
  FlattenSeq([i \in DOMAIN tool.params |->
    LET p == tool.params[i] IN
    IF p.flag = NoTool THEN <<>>
    ELSE [v \in DOMAIN Values(p, given) |-> IF p.kind = "boolean" THEN Flag(p.flag) ELSE FlagWith(p.flag)]])
Argv(tool, given) ==
  tool.command \o tool.fixed \o Arguments(tool, given) \o Flags(tool, given)
    \o (IF NeedsYes(tool) THEN <<Flag("yes")>> ELSE <<>>)

-----------------------------------------------------------------------------
(* A call.                                                                 *)
Answered(c, error, why) ==
  pc' = [pc EXCEPT ![c] = "answered"] /\ answer' = [answer EXCEPT ![c] = [error |-> error, why |-> why]]

\* The tools that are there: those that write only where writes are allowed.
Registered(r) == r.tool = NoTool \/ ~ToolNamed(r.tool).write \/ AllowsWrites

Ask(c) ==
  /\ pc[c] = "idle"
  /\ \E r \in {x \in Requests : Registered(x)} : request' = [request EXCEPT ![c] = r]
  /\ pc' = [pc EXCEPT ![c] = "asked"]
  /\ UNCHANGED <<allow, invocation, child, held, age, ended, did, answer>>

(* callTyped and run, up to the start of the child.                        *)
Run(c) ==
  LET r == request[c]
      typed == r.tool # NoTool
  IN
  /\ pc[c] = "asked"
  /\ IF typed /\ Invalid(ToolNamed(r.tool), r.given)
       THEN Answered(c, TRUE, "invalid") /\ UNCHANGED <<invocation, child>>
     ELSE \E argv \in {IF typed THEN Argv(ToolNamed(r.tool), r.given) ELSE r.line} :
          \E inv \in {Resolve(argv)} :
            /\ invocation' = [invocation EXCEPT ![c] = inv]
            /\ IF ~MayRun(argv, inv) THEN Answered(c, TRUE, "refused") /\ UNCHANGED child
               ELSE /\ pc' = [pc EXCEPT ![c] = "running"] /\ child' = [child EXCEPT ![c] = "running"]
                    /\ UNCHANGED answer
  /\ UNCHANGED <<allow, request, held, age, ended, did>>

\* What the command does when it is let run to its end, its flags included.
Does(inv) ==
  IF OnlyHelp(inv) THEN {}
  ELSE IF inv.path = <<"api">> THEN
         IF inv.args # <<>> /\ Head(inv.args) \in {"GET", "OPTIONS"} THEN {"secret"} ELSE {"write"}
  ELSE CommandAt(inv.path).does
         \cup UNION {f.does : f \in {g \in CommandAt(inv.path).flags : Head(g.names) \in inv.flags}}

\* A prompt reads the end of the file, and declines.
Declines(inv) == ~OnlyHelp(inv) /\ CommandAt(inv.path).prompts /\ "yes" \notin inv.flags

\* The lesser of the server's time and of what the call asks for.
Limit(c) == IF request[c].timeout > 0 /\ request[c].timeout < Timeout THEN request[c].timeout ELSE Timeout

(* The child writes, ends by itself, or is killed at its deadline or when  *)
(* the client cancels the call.                                            *)
Write(c) ==
  /\ child[c] = "running" /\ "write" \in Does(invocation[c]) \ did[c] /\ ~Declines(invocation[c])
  /\ did' = [did EXCEPT ![c] = @ \cup {"write"}]
  /\ UNCHANGED <<allow, request, invocation, pc, child, held, age, ended, answer>>

Exit(c) ==
  LET todo == Does(invocation[c]) \ did[c] IN
  /\ child[c] = "running" /\ "endless" \notin Does(invocation[c])
  /\ \/ /\ ~Declines(invocation[c]) /\ "write" \notin todo
        /\ child' = [child EXCEPT ![c] = "ok"] /\ did' = [did EXCEPT ![c] = @ \cup todo]
     \/ child' = [child EXCEPT ![c] = "failed"] /\ UNCHANGED did
  /\ ended' = [ended EXCEPT ![c] = age[c]]
  /\ UNCHANGED <<allow, request, invocation, pc, held, age, answer>>

Kill(c) ==
  /\ child[c] = "running"
  /\ child' = [child EXCEPT ![c] = "killed"] /\ ended' = [ended EXCEPT ![c] = age[c]]
  /\ held' \in {held, [held EXCEPT ![c] = TRUE]}
  /\ UNCHANGED <<allow, request, invocation, pc, age, did, answer>>
Deadline(c) == age[c] = Limit(c) /\ Kill(c)
Cancel(c) == Kill(c)

\* Mutant: the output of a killed child is waited for to its end.
ReadyClosed(c) == child[c] \in {"ok", "failed", "killed"} /\ ~held[c]

\* The child has ended, and its output is closed or has been waited for.
Ready(c) == child[c] \in {"ok", "failed", "killed"} /\ (held[c] => age[c] >= ended[c] + Delay)

\* An error is what the process reports.
Failed(c) == child[c] # "ok"

(* The answer: what the child printed, and whether it failed.              *)
Return(c) ==
  /\ pc[c] = "running" /\ Ready(c)
  /\ Answered(c, Failed(c), IF age[c] >= Limit(c) THEN "timed out" ELSE "ran")
  /\ UNCHANGED <<allow, request, invocation, child, held, age, ended, did>>

(* Time passes, but not the deadline of a child, nor the end of a wait.    *)
Tick(c) ==
  /\ pc[c] = "running" /\ ~Ready(c) /\ ~(child[c] = "running" /\ age[c] = Limit(c))
  /\ age[c] <= Timeout + Delay
  /\ age' = [age EXCEPT ![c] = @ + 1]
  /\ UNCHANGED <<allow, request, invocation, pc, child, held, ended, did, answer>>

Next ==
  \E c \in Calls :
    \/ Ask(c) \/ Run(c) \/ Write(c) \/ Exit(c) \/ Deadline(c) \/ Cancel(c) \/ Return(c) \/ Tick(c)

Spec == Init /\ [][Next]_vars

-----------------------------------------------------------------------------
(* What the theorems ask of the constants.                                 *)

\* What a class allows.
MayDo(class) ==
  CASE class = "read"    -> {}
    [] class = "secret"  -> {"secret"}
    [] class = "write"   -> {"secret", "write"}
    [] class = "blocked" -> {"secret", "write", "endless"}

\* A flag does no more than its command may, but for the few the policy names.
FlagMayDo(path, name) ==
  IF name \in BlockedFlags(path) THEN MayDo("blocked")
  ELSE IF path = <<"get", "env">> /\ name = "show-secrets" THEN MayDo("secret")
  ELSE IF path = <<"get", "orphans">> /\ name = "kubectl" THEN MayDo("write")
  ELSE MayDo(ClassOf(path))

\* A read that prints the app's object as the platform has it, the deploy token
\* with it (describeAppAction).
RawReads == {<<"describe", "app">>}
Shown(path) == IF path \in RawReads THEN {"secret"} ELSE {}

\* Commands are known by their paths, and the policy says of each, and of its
\* flags, what it does, but for what a raw read shows (mcpPolicy,
\* mcpBlockedFlags, classify).
PolicyAgrees ==
  /\ \E c \in Commands : c.path = <<>>
  /\ \A c, d \in Commands : c.path = d.path => c = d
  /\ \A c \in Commands : c.path # <<"api">> =>
       /\ c.does \subseteq MayDo(ClassOf(c.path)) \cup Shown(c.path)
       /\ \A f \in c.flags : f.does \subseteq FlagMayDo(c.path, Head(f.names))

Tokens == [is : {"word", "flag", "dashdash"}, text : STRING, value : BOOLEAN]
Words == [is : {"word"}, text : STRING, value : BOOLEAN]

\* The flags a tool may pass beside its fixed one, and what all of them are.
Passed(tool) ==
  {IF p.kind = "boolean" THEN Flag(p.flag) ELSE FlagWith(p.flag) : p \in {q \in Range(tool.params) : q.flag # NoTool}}
    \cup (IF NeedsYes(tool) THEN {Flag("yes")} ELSE {})
KnownAs(path, toks) == {Head(f.names) : f \in UNION {LookupFlag(path, tok.text) : tok \in toks}}
Filled(tool) ==
  [Start EXCEPT !.path = Path(tool),
     !.flags = KnownAs(Path(tool), Passed(tool) \cup (IF tool.fixed = <<>> THEN {} ELSE {tool.fixed[1]}))]

\* A tool's command is a command, with a flag and its value, or none; the flags it
\* passes are known there, and with all of them it is what it is said to be
\* (TestMCPToolSpecsResolve); what asks has a --yes.
ToolAgrees(tool) ==
  /\ tool.command \in Seq(Words) \ {<<>>} /\ tool.command[1].text # "help"
  /\ \A n \in 1..Len(tool.command) : \E c \in Commands : c.path = SubSeq(Path(tool), 1, n)
  /\ \A c \in Commands : ~IsStrictPrefix(Path(tool), c.path)
  /\ tool.fixed = <<>> \/
       /\ tool.fixed \in Seq(Tokens) /\ Len(tool.fixed) = 2
       /\ tool.fixed[1].is = "flag" /\ tool.fixed[1].text \notin {"help", "h"} /\ ~tool.fixed[1].value
       /\ \E f \in LookupFlag(Path(tool), tool.fixed[1].text) :
            LookupFlag(Path(tool), tool.fixed[1].text) = {f} /\ f.value
  /\ tool.params \in Seq(Range(tool.params)) /\ \A p \in Range(tool.params) : p.default \in Seq(Tokens)
  /\ \A tok \in Passed(tool) :
       /\ tok.text \in STRING \ {"help", "h"}
       /\ \E f \in LookupFlag(Path(tool), tok.text) : LookupFlag(Path(tool), tok.text) = {f} /\ (f.value => tok.value)
  /\ ~CommandAt(Path(tool)).group
  /\ Classify(Filled(tool)) = IF tool.write THEN "write" ELSE "read"
  /\ NeedsYes(tool) => "yes" \in KnownAs(Path(tool), {Flag("yes")})
  /\ CommandAt(Path(tool)).prompts => NeedsYes(tool)
ToolsAgree ==
  /\ \A t, u \in Tools : t.name = u.name => t = u
  /\ \A t \in Tools : ToolAgrees(t)
  /\ \A r \in Requests :
       /\ r.line \in Seq(Tokens) /\ \A k \in DOMAIN r.given : r.given[k].items \in Seq(Tokens)
       /\ r.tool # NoTool => \E t \in Tools : t.name = r.tool

-----------------------------------------------------------------------------
(* Properties.                                                             *)

\* Every variable keeps its type.
TypeOK ==
  /\ allow \in {"reads", "secrets", "writes"}
  /\ pc \in [Calls -> {"idle", "asked", "running", "answered"}]
  /\ child \in [Calls -> {"none", "running", "ok", "failed", "killed"}]
  /\ held \in [Calls -> BOOLEAN] /\ did \in [Calls -> SUBSET {"write", "secret"}]
  /\ \A c \in Calls : ended[c] <= age[c] /\ (pc[c] = "running" => child[c] # "none")
  /\ \A c \in Calls : answer[c].error \in BOOLEAN /\ (pc[c] = "answered" <=> answer[c].why # "none")

\* A typed call whose parameters were accepted, and what its line must be.
IsTyped(c) == request[c].tool # NoTool /\ pc[c] \notin {"idle", "asked"} /\ answer[c].why # "invalid"
RunsItsTool(c) ==
  LET tool == ToolNamed(request[c].tool)
      inv == invocation[c]
      Given(p) == IF p.flag = NoTool THEN Values(p, request[c].given) ELSE <<>>
  IN  /\ child[c] # "none"
      /\ inv.path = Path(tool) /\ ~Declines(inv)
      /\ inv.args = FlattenSeq([i \in DOMAIN tool.params |-> Texts(Given(tool.params[i]))])

\* A server changes nothing, and prints no secret but those of a raw read,
\* unless it was started so, and it starts no command with a flag that keeps it
\* from ending (classify and check).  A typed tool
\* runs its own command on the arguments it was given: the line made of them
\* reads back as they are, it is not refused, and its prompt does not decline it
\* (argv, prompts).
GateHolds ==
  \A c \in Calls :
    /\ "write" \in did[c] => AllowsWrites
    /\ "secret" \in did[c] => AllowsSecrets \/ "secret" \in Shown(invocation[c].path)
    /\ child[c] # "none" => "endless" \notin Does(invocation[c])
    /\ IsTyped(c) => RunsItsTool(c)

\* "Commands that print a secret [...] need --allow-secrets" (the command's help).
SecretsNeedAllow == \A c \in Calls : "secret" \in did[c] => AllowsSecrets

\* An answer without an error is about a command that did all it was to do, and
\* one that was refused did nothing (run).
AnswerIsTrue ==
  \A c \in Calls : pc[c] = "answered" =>
    /\ ~answer[c].error => child[c] = "ok" /\ Does(invocation[c]) \subseteq did[c]
    /\ answer[c].why \in {"refused", "invalid"} => child[c] = "none"

\* Every call has its answer by its deadline and the delay after it.
AnsweredInTime ==
  \A c \in Calls : pc[c] = "running" => age[c] <= Limit(c) + Delay
=============================================================================
