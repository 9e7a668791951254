------------------------- MODULE AppEditRefinement -------------------------
(* AppEdit implements EditPromise: what a running or ended process has     *)
(* told its user, from where it is and how it ended alone.  What it sent   *)
(* plays no part in that: it is what the promise is about.                 *)
EXTENDS AppEdit

\* setEnvAction and runAppChange: a plan is shown, agreed to, and then one of
\* the messages of the end is printed.
StatusOf(c) ==
  CASE outcome[c] = "running" -> IF pc[c] \in {"guard", "prepare", "prompt"} THEN "open" ELSE "agreed"
    [] outcome[c] = "updated" -> "confirmed"
    [] outcome[c] = "ignored" -> "denied"
    [] outcome[c] \in {"refused", "dryRun", "unchanged", "aborted"} -> "quiet"
    [] outcome[c] \in {"failed", "killed"} -> "unclear"

DryRuns == {c \in Clients : cmd[c].dryRun}

Promise == INSTANCE EditPromise
             WITH status <- [c \in Clients |-> StatusOf(c)], dry <- DryRuns, stored <- held

\* Every behaviour of the edit commands is one EditPromise allows: a command
\* that ends as refused, dry run, unchanged or aborted has sent nothing and
\* sends nothing later, a change leaves once and after consent, "updated" is
\* said of a change stored since it was sent and "ignored" of one that was
\* sent (runAppChange, setSecretEnv, verifyChange).
KeepsPromise == Promise!Spec
=============================================================================
