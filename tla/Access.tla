------------------------------- MODULE Access -------------------------------
(***************************************************************************)
(* Who may do what: `set permissions` of an app (cmd/permissions.go) and   *)
(* the account's API keys, `create apikey` and `delete apikey`             *)
(* (cmd/apikeys.go), with their requests in internal/client.               *)
(*                                                                         *)
(* Several commands run at once, and others work in the console.  The      *)
(* permissions of an app are written as one list, read earlier; a write is *)
(* visible some time after it was accepted, and may be dropped.            *)
(***************************************************************************)
EXTENDS Naturals, FiniteSets, Sequences, SequencesExt

CONSTANTS
  Procs,       \* commands, each in a process of its own
  Asked,       \* per process what it may be asked: records [kind, ref, grant, revoke]
  Members,     \* the members' e-mail addresses, in the order of the list
  Permissions,
  MaxKeys,     \* bound: API keys ever made
  MaxConsole,  \* bound: what others do
  Attempts     \* read-backs after a write (verifyAttempts)

VARIABLES
  access,   \* per member: the permissions stored
  visible,  \* per member: the permissions that reads return
  keys,     \* the API keys: records [id, name]
  made,     \* how many API keys have been made
  console,  \* how much others have done
  pc, want,
  rows,     \* the list a command has read: records [email, permissions]
  row,      \* the index of its member in the list
  key,      \* the key it is to revoke
  tries, outcome,
  raced,    \* others have written the permissions since it read them (history)
  excused,  \* the platform accepted its write and dropped it, or its last
            \* read-back got no answer (history)
  fresh     \* keys made since it listed them (history)

platformVars == <<access, visible, keys, made, console>>
commandVars == <<pc, want, rows, row, key, tries, outcome>>
historyVars == <<raced, excused, fresh>>
vars == <<platformVars, commandVars, historyVars>>

NoKey == [id |-> "", name |-> ""]
Emails == Range(Members)

\* Keys are known by ids of their own; a key's name may be the id of another.
KeyId(n) == <<"k1", "k2", "k3", "k4">>[n]

Init ==
  /\ access \in [Emails -> {{}, {"view"}, Permissions}] /\ visible = access
  /\ made \in 0..2
  /\ \E name \in [1..made -> {"ci", "k1"}] : keys = {[id |-> KeyId(n), name |-> name[n]] : n \in 1..made}
  /\ console = 0
  /\ want \in {w \in [Procs -> UNION Range(Asked)] : \A p \in Procs : w[p] \in Asked[p]}
  /\ pc = [p \in Procs |-> IF want[p].kind = "set" THEN "read"
                           ELSE IF want[p].kind = "createKey" THEN "create" ELSE "list"]
  /\ rows = [p \in Procs |-> <<>>] /\ row = [p \in Procs |-> 0] /\ key = [p \in Procs |-> NoKey]
  /\ tries = [p \in Procs |-> 0] /\ outcome = [p \in Procs |-> "running"]
  /\ raced = [p \in Procs |-> FALSE] /\ excused = [p \in Procs |-> FALSE] /\ fresh = [p \in Procs |-> {}]

Goto(p, phase) == pc' = [pc EXCEPT ![p] = phase] /\ UNCHANGED outcome
Finish(p, how) == pc' = [pc EXCEPT ![p] = "done"] /\ outcome' = [outcome EXCEPT ![p] = how]

-----------------------------------------------------------------------------
(* set permissions.                                                        *)

\* AppPermissions: every member of the organization, also those without any.
AppPermissions == [i \in DOMAIN Members |-> [email |-> Members[i], permissions |-> visible[Members[i]]]]

\* The index of a member's row, 0 if there is none.
IndexOf(list, email) ==
  IF \E i \in DOMAIN list : list[i].email = email
    THEN CHOOSE i \in DOMAIN list : list[i].email = email ELSE 0

\* Mutant: the index in the list as it is shown, without those with no access.
MemberRowShown(list, email) == IndexOf(SelectSeq(list, LAMBDA r : r.permissions # {}), email)

MemberRow(list, email) == IndexOf(list, email)

\* applyPermissionChange: a revocation wins over a grant.
ApplyPermissionChange(current, grant, revoke) == (current \cup grant) \ revoke

Target(p) == rows[p][row[p]].permissions
After(p) == ApplyPermissionChange(Target(p), want[p].grant, want[p].revoke)

(* The first read; nothing is sent when there is nothing to change.        *)
ReadRows(p) ==
  LET i == MemberRow(AppPermissions, want[p].ref) IN
  /\ pc[p] = "read"
  /\ rows' = [rows EXCEPT ![p] = AppPermissions] /\ row' = [row EXCEPT ![p] = i]
  /\ raced' = [raced EXCEPT ![p] = visible # access]
  /\ IF i = 0 THEN Finish(p, "failed")
     ELSE LET current == AppPermissions[i].permissions IN
          IF ApplyPermissionChange(current, want[p].grant, want[p].revoke) = current
            THEN Finish(p, "noChange") ELSE Goto(p, "answer")
  /\ UNCHANGED <<platformVars, want, key, tries, excused, fresh>>

(* The prompt, --yes or --dry-run.                                         *)
Answer(p) ==
  /\ pc[p] = "answer"
  /\ Goto(p, IF want[p].kind = "set" THEN "put" ELSE "revoke") \/ Finish(p, "aborted")
  /\ UNCHANGED <<platformVars, want, rows, row, key, tries, historyVars>>

\* Every row is sent: a member who is left out keeps the permissions.
RowsSent(list) == list

(* SetAppPermissions.  The answer to a write may be lost.                  *)
Put(p) ==
  LET sent == RowsSent([rows[p] EXCEPT ![row[p]].permissions = After(p)])
      Written(e) == IF IndexOf(sent, e) = 0 THEN access[e] ELSE sent[IndexOf(sent, e)].permissions
  IN
  /\ pc[p] = "put"
  /\ \/ /\ access' = [e \in Emails |-> Written(e)]
        /\ raced' = [q \in Procs |-> raced[q] \/ q # p]
        /\ Goto(p, "check") \/ Finish(p, "failed")
        /\ UNCHANGED excused
     \/ /\ excused' = [excused EXCEPT ![p] = TRUE] /\ Goto(p, "check")
        /\ UNCHANGED <<access, raced>>
  /\ UNCHANGED <<visible, keys, made, console, want, rows, row, key, tries, fresh>>

\* The member's row reads back as it was written.
Took(p) == visible[want[p].ref] = After(p)

\* Mutant: there is one attempt too many.
IsLastTryLate(n) == n > Attempts

IsLastTry(n) == n = Attempts

(* One attempt of retryReadBack, which a transient error may cost.         *)
ReadBack(p) ==
  /\ pc[p] = "check"
  /\ tries' = [tries EXCEPT ![p] = @ + 1]
  /\ \E answered \in BOOLEAN :
       /\ IF answered /\ Took(p) THEN Finish(p, "has")
          ELSE IF IsLastTry(tries'[p]) THEN Finish(p, "lost") ELSE Goto(p, "check")
       /\ excused' = [excused EXCEPT ![p] = @ \/ (IsLastTry(tries'[p]) /\ ~answered)]
  /\ UNCHANGED <<platformVars, want, rows, row, key, raced, fresh>>

-----------------------------------------------------------------------------
(* API keys.                                                               *)

\* Mutant: of several keys of a name the first will do.
FindAPIKeyFirst(list, ref) == {k \in list : ref \in {k.id, k.name}}

\* findAPIKey: by id, or by name when one key only has it.
FindAPIKey(list, ref) ==
  LET byId == {k \in list : k.id = ref}
      byName == {k \in list : k.name = ref}
  IN  IF byId # {} THEN byId ELSE IF Cardinality(byName) = 1 THEN byName ELSE {}

(* ListAPIKeys, before a key is revoked.                                   *)
ListKeys(p) ==
  /\ pc[p] = "list"
  /\ fresh' = [fresh EXCEPT ![p] = {}]
  /\ \/ FindAPIKey(keys, want[p].ref) = {} /\ Finish(p, "failed") /\ UNCHANGED key
     \/ \E k \in FindAPIKey(keys, want[p].ref) : key' = [key EXCEPT ![p] = k] /\ Goto(p, "answer")
  /\ UNCHANGED <<platformVars, want, rows, row, tries, raced, excused>>

(* DeleteAPIKey: a key that is gone answers 404; the answer may be lost.   *)
Revoke(p) ==
  /\ pc[p] = "revoke"
  /\ keys' = {k \in keys : k.id # key[p].id}
  /\ Finish(p, "failed") \/ (keys' # keys /\ Finish(p, "revoked"))
  /\ UNCHANGED <<access, visible, made, console, want, rows, row, key, tries, historyVars>>

NewKey(name) ==
  /\ made < MaxKeys /\ made' = made + 1
  /\ keys' = keys \cup {[id |-> KeyId(made'), name |-> name]}
  /\ fresh' = [p \in Procs |-> fresh[p] \cup {KeyId(made')}]

(* CreateAPIKey.  The value is in the answer only; what is read afterwards *)
(* is its expiry, and may fail.                                            *)
CreateKey(p) ==
  /\ pc[p] = "create"
  /\ NewKey(want[p].ref)
  /\ Finish(p, "shown") \/ Finish(p, "failed")
  /\ UNCHANGED <<access, visible, console, want, rows, row, key, tries, raced, excused>>

-----------------------------------------------------------------------------
(* Any request may fail for good.                                          *)
Fails(p) ==
  /\ pc[p] \notin {"answer", "done"}
  /\ Finish(p, "failed")
  /\ UNCHANGED <<platformVars, want, rows, row, key, tries, historyVars>>

(* The platform shows what was stored.                                     *)
Show ==
  /\ visible # access /\ visible' = access
  /\ UNCHANGED <<access, keys, made, console, commandVars, historyVars>>

(* Others change permissions, make keys and revoke them.                   *)
Console ==
  /\ console < MaxConsole /\ console' = console + 1
  /\ \/ /\ \E e \in Emails, ps \in {{}, {"view"}, Permissions} :
             ps # access[e] /\ access' = [access EXCEPT ![e] = ps]
        /\ raced' = [p \in Procs |-> TRUE] /\ UNCHANGED <<keys, made, fresh>>
     \/ NewKey("ci") /\ UNCHANGED <<access, raced>>
     \/ \E k \in keys : keys' = keys \ {k} /\ UNCHANGED <<access, made, raced, fresh>>
  /\ UNCHANGED <<visible, commandVars, excused>>

Next ==
  \/ \E p \in Procs :
       \/ ReadRows(p) \/ Answer(p) \/ Put(p) \/ ReadBack(p)
       \/ ListKeys(p) \/ Revoke(p) \/ CreateKey(p) \/ Fails(p)
  \/ Show \/ Console

Spec == Init /\ [][Next]_vars

-----------------------------------------------------------------------------
(* Properties.                                                             *)

\* Every variable keeps its type.
TypeOK ==
  /\ access \in [Emails -> SUBSET Permissions] /\ visible \in [Emails -> SUBSET Permissions]
  /\ \A k \in keys : \E n \in 1..made : k.id = KeyId(n)
  /\ pc \in [Procs -> {"read", "answer", "put", "check", "list", "revoke", "create", "done"}]
  /\ row \in [Procs -> 0..Len(Members)] /\ tries \in [Procs -> 0..Attempts]
  /\ outcome \in [Procs -> {"running", "failed", "aborted", "noChange", "has", "lost", "shown", "revoked"}]
  /\ \A p \in Procs : rows[p] # <<>> => Len(rows[p]) = Len(Members)

\* `set permissions` writes the whole list, and changes the access of no other
\* member with it unless somebody has written since it read (setPermissionsAction).
OthersKeepTheirs ==
  [][\A p \in Procs : (pc[p] = "put" /\ pc'[p] # "put" /\ ~raced[p]) =>
       \A e \in Emails \ {want[p].ref} : access'[e] = access[e]]_vars

\* "now has" is said of what is stored, and "did not read back" only of a write
\* that was dropped, or was not visible yet, if nobody else wrote meanwhile.
AnswersTruly ==
  \A p \in Procs : (pc[p] = "check" /\ pc'[p] = "done" /\ ~raced[p]) =>
    /\ outcome'[p] = "has" => access[want[p].ref] = After(p)
    /\ outcome'[p] = "lost" => excused'[p] \/ visible # access
AnswerIsTrue == [][AnswersTruly]_vars

\* A key is revoked by its id, or by a name that no other key had when they
\* were listed (findAPIKey).
OnlyTheKeyMeant ==
  [][\A p \in Procs : (pc[p] = "revoke" /\ keys' # keys /\ pc'[p] = "done") =>
       \/ key[p].id = want[p].ref
       \/ key[p].name = want[p].ref
          /\ \A k \in keys : k.name = want[p].ref /\ k.id \notin fresh[p] => k = key[p]]_vars
=============================================================================
