------------------------------- MODULE MCMcp -------------------------------
(* Mcp for TLC, on its own: a client asks for the description of an app.   *)
EXTENDS Mcp, TLC

Leaf(path, does) == [path |-> path, flags |-> {}, group |-> FALSE, does |-> does, prompts |-> FALSE]
MCTree ==
  {[Leaf(<<>>, {}) EXCEPT !.group = TRUE], [Leaf(<<"describe">>, {}) EXCEPT !.group = TRUE],
   Leaf(<<"describe", "app">>, {"secret"})}
Describe == <<Word("describe"), Word("app")>>
App == [key |-> "app", kind |-> "string", flag |-> "", required |-> TRUE, default |-> <<>>]
MCTools ==
  {[name |-> "describe_app", command |-> Describe, fixed |-> <<>>, write |-> FALSE, params |-> <<App>>]}
MCRequests ==
  {[tool |-> "describe_app", given |-> [app |-> [kind |-> "string", items |-> <<Word("api")>>]],
    line |-> <<>>, timeout |-> 0],
   [tool |-> "", given |-> <<>>, line |-> Append(Describe, Word("api")), timeout |-> 0]}
=============================================================================
