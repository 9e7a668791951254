------------------------------ MODULE MCTenant ------------------------------
(* Tenant for TLC: small tenants with the names that are hard to tell       *)
(* apart, and commands for every way through the code.                      *)
EXTENDS Tenant, TLC

\* The registry: one repository is listed with the tenant's name before it.
MCPrefix == <<"reg", "acme">>
MCRepos == {<<"acme", "api">>, <<"web">>}
MCRunsFrom == [a \in Apps |-> <<"reg", "acme", "api">>]
Job(kind, image, what) == [kind |-> kind, registry |-> "", image |-> image, what |-> what]
MCJobs ==
  <<{Job("prune", <<"api">>, 1), Job("deleteDigest", <<"api">>, {2}), Job("deleteTag", <<"reg", "acme", "api">>, "t"),
     Job("deleteImage", <<"acme", "api">>, 0), Job("set", <<"api">>, 1), Job("set", <<>>, 2),
     [Job("prune", <<"api">>, 1) EXCEPT !.registry = "other"]},
    {Job("prune", <<"acme", "api">>, 1), Job("set", <<"reg", "acme", "api">>, 2), Job("unset", <<"api">>, 0)}>>

\* Two namespaces of one name in two clusters, and another tenant's.
Space(n, name, cluster, tenant) == [id |-> n, name |-> name, cluster |-> cluster, tenant |-> tenant]
MCSpaces ==
  {Space(11, <<"acme", "x">>, 1, "acme"), Space(12, <<"acme", "x">>, 2, "acme"), Space(13, <<"beta">>, 1, "beta")}
ById(cluster) == [byId |-> TRUE, cluster |-> cluster]
ByName(cluster) == [byId |-> FALSE, cluster |-> cluster]
OnSpaces(kind, ref, cluster) == [kind |-> kind, ref |-> ref, cluster |-> cluster]
MCProjectCommands ==
  {OnSpaces("deleteSpace", <<"acme", "x">>, ById(1)), OnSpaces("deleteSpace", <<12>>, ById(1)),
   OnSpaces("createSpace", <<"acme", "x">>, ById(1)), OnSpaces("createSpace", <<"acme", "x">>, ByName(2)),
   OnSpaces("createSpace", <<"beta">>, ById(1)), OnSpaces("deleteApp", <<1>>, ById(1)),
   OnSpaces("orphans", <<>>, ById(1))}

\* Two members; a key whose name may be the id of another.
MCMembers == <<"ann", "bob">>
Wish(kind, ref, grant, revoke) == [kind |-> kind, ref |-> ref, grant |-> grant, revoke |-> revoke]
MCAsked ==
  <<{Wish("set", "bob", {"view"}, {}), Wish("set", "bob", {"change"}, {"view"}), Wish("set", "zoe", {"view"}, {}),
     Wish("deleteKey", "ci", {}, {}), Wish("deleteKey", "k1", {}, {})},
    {Wish("set", "ann", {}, Permissions), Wish("createKey", "ci", {}, {})}>>

\* One command files tickets, the other works on the ticket there is.
Query(kind, text, yes, files) ==
  [kind |-> kind, ticket |-> 1, text |-> text, yes |-> yes, files |-> files,
   type |-> "darkube", priority |-> "", stars |-> 5]
MCAsks ==
  <<{Query("create", "inline", FALSE, <<"f", "g">>), Query("create", "stdin", TRUE, <<"f">>),
     Query("create", "stdin", FALSE, <<>>), Query("create", "inline", TRUE, <<>>),
     [Query("create", "inline", TRUE, <<>>) EXCEPT !.type = "no"], Query("reply", "none", FALSE, <<"g">>)},
    {Query("reply", "inline", FALSE, <<"f">>), Query("reply", "none", FALSE, <<>>), Query("close", "none", FALSE, <<>>),
     Query("rate", "none", FALSE, <<>>), Query("download", "none", FALSE, <<>>)}>>

\* Tokens of a command line, as Mcp has them.
Word(w) == [is |-> "word", text |-> w, value |-> FALSE]
Flag(name) == [is |-> "flag", text |-> name, value |-> FALSE]
FlagWith(name) == [is |-> "flag", text |-> name, value |-> TRUE]
DashDash == [is |-> "dashdash", text |-> "", value |-> FALSE]

\* A part of the command tree, five tools, and what a client may ask.
Option(names, value, does) == [names |-> names, value |-> value, does |-> does]
Yes == Option(<<"yes", "y">>, FALSE, {})
Leaf(path, flags, does, prompts) ==
  [path |-> path, flags |-> flags, group |-> FALSE, does |-> does, prompts |-> prompts]
Group(path, flags) == [path |-> path, flags |-> flags, group |-> TRUE, does |-> {}, prompts |-> FALSE]
MCTree ==
  {Group(<<>>, {Option(<<"org">>, TRUE, {}), Option(<<"token">>, TRUE, {})}),
   Group(<<"get">>, {}), Leaf(<<"get", "apps">>, {Option(<<"output", "o">>, TRUE, {})}, {}, FALSE),
   Leaf(<<"get", "deploy-token">>, {}, {"secret"}, FALSE),
   Leaf(<<"get", "env">>, {Option(<<"show-secrets">>, FALSE, {"secret"})}, {}, FALSE),
   Leaf(<<"get", "orphans">>, {Option(<<"kubectl">>, TRUE, {"write"})}, {}, FALSE),
   Group(<<"describe">>, {}),
   Leaf(<<"describe", "app">>, {Option(<<"interactive", "i">>, FALSE, {"endless"})}, {"secret"}, FALSE),
   Group(<<"logs">>, {}),
   Leaf(<<"logs", "app">>, {Option(<<"follow", "f">>, FALSE, {"endless"}), Option(<<"tail">>, TRUE, {})}, {}, FALSE),
   Leaf(<<"terminal">>, {}, {"endless"}, FALSE), Leaf(<<"api">>, {}, {}, FALSE),
   Group(<<"scale">>, {}), Leaf(<<"scale", "app">>, {Yes, Option(<<"replicas">>, TRUE, {})}, {"write"}, TRUE),
   Group(<<"registry">>, {}), Group(<<"registry", "gc">>, {}),
   Leaf(<<"registry", "gc", "unset">>, {Yes}, {"write"}, TRUE),
   Group(<<"ticket">>, {}), Leaf(<<"ticket", "reply">>, {Option(<<"message", "m">>, TRUE, {})}, {"write"}, FALSE)}
Param(name, kind, flag, required, default) ==
  [key |-> name, kind |-> kind, flag |-> flag, required |-> required, default |-> default]
App == Param("app", "string", "", TRUE, <<>>)
Pair(one, two) == <<Word(one), Word(two)>>
MCTools ==
  {[name |-> "app_logs", command |-> Pair("logs", "app"), fixed |-> <<>>, write |-> FALSE,
    params |-> <<App, Param("tail", "integer", "tail", FALSE, <<Word("200")>>)>>],
   [name |-> "describe_app", command |-> Pair("describe", "app"), fixed |-> <<>>, write |-> FALSE, params |-> <<App>>],
   [name |-> "app_spec", command |-> Pair("get", "apps"), fixed |-> <<Flag("o"), Word("spec")>>, write |-> FALSE,
    params |-> <<App>>],
   [name |-> "scale_app", command |-> Pair("scale", "app"), fixed |-> <<>>, write |-> TRUE,
    params |-> <<App, Param("replicas", "integer", "replicas", TRUE, <<>>)>>],
   [name |-> "reply_ticket", command |-> Pair("ticket", "reply"), fixed |-> <<>>, write |-> TRUE,
    params |-> <<Param("ticket", "string", "", TRUE, <<>>), Param("message", "string", "message", TRUE, <<>>)>>]}
Text(token) == [kind |-> "string", items |-> <<token>>]
Typed(tool, how) == [tool |-> tool, given |-> how, line |-> <<>>, timeout |-> 0]
Line(tokens, timeout) == [tool |-> "", given |-> <<>>, line |-> tokens, timeout |-> timeout]
MCRequests ==
  {Typed("app_logs", [app |-> Text(Word("api"))]), Typed("app_logs", [app |-> Text(Flag("follow"))]),
   Typed("describe_app", [app |-> Text(Word("api"))]),
   Line(Pair("describe", "app") \o <<Word("api"), Flag("i")>>, 0),
   Typed("app_spec", [app |-> Text(Word("api"))]),
   Typed("scale_app", [app |-> Text(Word("api")), replicas |-> [kind |-> "integer", items |-> <<Word("2")>>]]),
   Typed("scale_app", [app |-> Text(Word("api"))]),
   Typed("reply_ticket", [ticket |-> Text(Word("1")), message |-> Text(Flag("hi"))]),
   Line(Pair("get", "apps") \o <<Flag("o"), Word("json")>>, 1),
   Line(Pair("get", "deploy-token"), 0), Line(Pair("get", "orphans") \o <<FlagWith("kubectl")>>, 0),
   Line(Pair("get", "env") \o <<Word("api"), Flag("show-secrets")>>, 0),
   Line(Pair("logs", "app") \o <<Word("api"), Flag("f")>>, 0),
   Line(<<Flag("org"), Word("acme")>> \o Pair("scale", "app")
          \o <<Word("api"), FlagWith("replicas"), Flag("y")>>, 5),
   Line(Pair("scale", "app") \o <<Word("api"), DashDash, Flag("yes")>>, 0),
   Line(Pair("api", "GET"), 0), Line(Pair("api", "POST"), 0), Line(Pair("registry", "gc"), 0),
   Line(Pair("registry", "gc") \o <<Word("unset"), Word("api"), Flag("h")>>, 0),
   Line(<<Flag("token"), Word("x")>> \o Pair("get", "apps"), 0),
   Line(<<DashDash>> \o Pair("get", "apps"), 0), Line(<<Word("terminal")>>, 0)}

\* Every kind of command with every choice of credentials.
MCGivens ==
  [kind : {"read", "write", "global", "shell"}, tenant : BOOLEAN, key : BOOLEAN, access : BOOLEAN, refresh : BOOLEAN]
=============================================================================
