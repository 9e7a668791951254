------------------------------ MODULE Session ------------------------------
(***************************************************************************)
(* How a command gets to the API (cmd/app.go, cmd/session.go,              *)
(* internal/auth, internal/client): the credential it chooses, the access  *)
(* token it mints from a refresh token, with its retries, and one request, *)
(* with the redirects it follows and the class of the error it hands on.   *)
(*                                                                         *)
(* The server may fail at any moment, before or after it did what it was   *)
(* asked; tokens expire, and the user may interrupt.                       *)
(***************************************************************************)
EXTENDS Naturals

CONSTANTS
  Givens,           \* what a command may be given: records [kind, tenant, key, access, refresh]
  RefreshAttempts,  \* defaultRefreshAttempts
  MaxRedirects      \* maxRedirects

\* A read or a write of a tenant, a read of none, and a session for a shell.
Kinds == {"read", "write", "global", "shell"}

VARIABLES
  given,    \* what this command was given
  pc,
  auth,     \* the credential it sends
  attempt,  \* refreshes it has asked for
  method,   \* of the request under way
  hops,     \* redirects it has followed
  cancelled,
  outcome,
  valid,    \* the refresh token is valid
  live,     \* the access token is, once there is one
  written   \* the platform has done what the write asked for

commandVars == <<given, pc, auth, attempt, method, hops, cancelled, outcome>>
serverVars == <<valid, live, written>>
vars == <<commandVars, serverVars>>

Init ==
  /\ given \in Givens
  /\ pc = "build" /\ auth = "none" /\ attempt = 0
  /\ method = (IF given.kind = "write" THEN "write" ELSE "read") /\ hops = 0
  /\ cancelled = FALSE /\ outcome = "running"
  /\ valid \in BOOLEAN /\ live \in BOOLEAN /\ written = FALSE

Goto(phase) == pc' = phase /\ UNCHANGED outcome
Finish(how) == pc' = "done" /\ outcome' = how

-----------------------------------------------------------------------------
(* Credentials.                                                            *)

\* resolveAuth, and accessToken, which a shell asks directly: the key does not
\* open one, and is only good for the lookup of the app before it.
Credential(g) ==
  IF g.key /\ g.kind # "shell" THEN "key"
  ELSE IF g.access THEN "access"
  ELSE IF g.refresh THEN "refresh" ELSE "none"

(* buildClient; the commands that belong to no tenant go without one.      *)
Build ==
  /\ pc = "build"
  /\ UNCHANGED <<given, attempt, method, hops, cancelled, serverVars>>
  /\ CASE ~given.tenant /\ given.kind # "global" -> Finish("noTenant") /\ UNCHANGED auth
       [] (given.tenant \/ given.kind = "global") /\ Credential(given) = "none" ->
            Finish("noCredentials") /\ UNCHANGED auth
       [] (given.tenant \/ given.kind = "global") /\ Credential(given) = "refresh" ->
            Goto("refresh") /\ UNCHANGED auth
       [] OTHER -> Goto("send") /\ auth' = Credential(given)

\* A server error or a lost connection, if the user has not given up.
Retryable == ~cancelled

(* refreshOnce, and what Refresh makes of it: a token, which may be empty  *)
(* or dead and is not looked at, a rejection, which any answer in the 400s *)
(* is and not only that for a bad refresh token, or trouble that is worth  *)
(* another attempt.                                                        *)
Refresh ==
  /\ pc = "refresh"
  /\ attempt' = attempt + 1
  /\ UNCHANGED <<given, method, hops, cancelled, valid, written>>
  /\ \/ /\ ~cancelled /\ live' \in {valid, FALSE}
        /\ auth' = "minted" /\ Goto("send")
     \/ ~cancelled /\ Finish("final") /\ UNCHANGED <<auth, live>>
     \/ /\ UNCHANGED <<auth, live>>
        /\ IF Retryable /\ attempt' < RefreshAttempts THEN Goto("wait") ELSE Finish("noToken")

(* The wait between two attempts, which an interrupt cuts short.           *)
Wait ==
  /\ pc = "wait"
  /\ IF cancelled THEN Finish("noToken") ELSE Goto("refresh")
  /\ UNCHANGED <<given, auth, attempt, method, hops, cancelled, serverVars>>

-----------------------------------------------------------------------------
(* A request.                                                              *)

\* Mutant: a redirected write is followed like a read.
FollowsWrites(m, n) == n + 1 < MaxRedirects

\* The two redirect policies: some hops of a read, none of a write.
Follows(m, n) == m = "read" /\ n + 1 < MaxRedirects

\* IsNotFound and IsTransient: what callers tell apart in an error.  An error
\* without a response is transient, a cancellation is final.
Class(answer) ==
  CASE answer = "missing" -> "notFound"
    [] answer = "serverError" \/ (answer = "noAnswer" /\ ~cancelled) -> "transient"
    [] OTHER -> "final"

Ends(answer) == Finish(IF answer = "ok" THEN "done" ELSE Class(answer))

\* A token that has expired is refused, and what is refused is not done.
Accepted == auth = "key" \/ live
Does == written' = (written \/ method = "write")

(* doWithHeaders: an answer, or none.  A redirected write that were        *)
(* followed would be sent again as a read.                                 *)
Send ==
  /\ pc = "send"
  /\ UNCHANGED <<given, auth, attempt, cancelled, valid, live>>
  /\ \/ Accepted /\ Does /\ Ends("ok") /\ UNCHANGED <<method, hops>>
     \/ Accepted /\ Does /\ (Ends("serverError") \/ Ends("noAnswer")) /\ UNCHANGED <<method, hops>>
     \/ /\ UNCHANGED <<written, method, hops>>
        /\ \E answer \in {"serverError", "noAnswer", "missing", "refused"} : Ends(answer)
     \/ /\ UNCHANGED written
        /\ IF Follows(method, hops)
             THEN Goto("send") /\ hops' = hops + 1 /\ method' = "read"
             ELSE Ends("noAnswer") /\ UNCHANGED <<method, hops>>

-----------------------------------------------------------------------------
(* The user interrupts; tokens expire or are revoked.                      *)
Interrupt ==
  /\ pc # "done" /\ ~cancelled /\ cancelled' = TRUE
  /\ UNCHANGED <<given, pc, auth, attempt, method, hops, outcome, serverVars>>
Expire ==
  /\ pc # "done"
  /\ \/ valid /\ valid' = FALSE /\ UNCHANGED live
     \/ live /\ live' = FALSE /\ UNCHANGED valid
  /\ UNCHANGED <<commandVars, written>>

Command == Build \/ Refresh \/ Wait \/ Send

Next == Command \/ Interrupt \/ Expire

Spec == Init /\ [][Next]_vars

-----------------------------------------------------------------------------
(* Properties.                                                             *)

\* Every variable keeps its type; a shell never sends the account's key.
TypeOK ==
  /\ given \in Givens /\ given.kind \in Kinds
  /\ pc \in {"build", "refresh", "wait", "send", "done"}
  /\ auth \in {"none", "key", "access", "minted"}
  /\ (pc = "send" => auth # "none") /\ (auth = "key" => given.kind # "shell")
  /\ attempt \in 0..RefreshAttempts /\ hops \in 0..MaxRedirects /\ method \in {"read", "write"}
  /\ outcome \in {"running", "noTenant", "noCredentials", "noToken", "final", "notFound", "transient", "done"}
  /\ cancelled \in BOOLEAN /\ valid \in BOOLEAN /\ live \in BOOLEAN /\ written \in BOOLEAN

\* A write without an error was done, whatever redirected it; one that failed
\* for good, or without a token, was not, unless the user broke it off: only a
\* transient error leaves that open (refuseWriteRedirect, IsTransient).  And no
\* trouble in getting a token ends a command before its attempts are used up:
\* only a rejection does, or the user (Refresh).
AnswerIsTrue ==
  /\ outcome = "done" /\ given.kind = "write" => written
  /\ outcome \in {"final", "notFound", "noToken"} /\ written => cancelled
  /\ outcome = "noToken" => cancelled \/ attempt = RefreshAttempts
=============================================================================
