---------------------------- MODULE TenantProofs ----------------------------
(***************************************************************************)
(* Theorems about Tenant: what holds whichever program runs, for any       *)
(* number of commands, members, keys, rules, tickets, calls and redirects. *)
(* The invariants of permissions (Access), of the server's calls (Mcp) and *)
(* of a request (Session) are here, those of Registry, keys and Tickets in *)
(* PlatformProofs.                                                         *)
(***************************************************************************)
EXTENDS PlatformProofs, SequenceTheorems

-----------------------------------------------------------------------------
(* `set permissions`: the invariant.                                       *)

\* What a process keeps about itself.
AccessShaped ==
  /\ DOMAIN accessPc = Procs /\ DOMAIN accessOutcome = Procs /\ DOMAIN rows = Procs /\ DOMAIN row = Procs
  /\ DOMAIN raced = Procs /\ DOMAIN excused = Procs

\* A command on permissions that is past its read and has not ended.
Prompted(p) == accessPc[p] = "put" \/ (accessPc[p] = "answer" /\ want[p].kind = "set")

\* It holds every member's row in the members' order, and knows its own.
HasRows(p) ==
  Prompted(p) \/ accessPc[p] = "check" =>
    /\ DOMAIN rows[p] = DOMAIN Members
    /\ \A i \in DOMAIN Members :
         /\ rows[p][i] = [email |-> Members[i], permissions |-> rows[p][i].permissions]
    /\ row[p] \in DOMAIN Members /\ Members[row[p]] = want[p].ref

\* Unless somebody wrote since, the rows it is about to send are what is stored.
RowsAreStored(p) ==
  Prompted(p) /\ ~raced[p] =>
    /\ visible = access
    /\ \A i \in DOMAIN Members : rows[p][i].permissions = access[Members[i]]

\* Unless somebody else wrote, its own write is stored or was dropped.
WriteIsStored(p) ==
  accessPc[p] = "check" /\ ~raced[p] =>
    /\ excused[p] => visible = access
    /\ ~excused[p] => access[want[p].ref] = Acc!After(p)

\* Only a write, or its last read-back, excuses what is said.
NotExcused(p) == accessPc[p] \in {"read", "list", "answer", "put"} => ~excused[p]
NotOfKeys(p) == accessPc[p] = "list" => want[p].kind # "set"

AccessInvOf(p) == HasRows(p) /\ RowsAreStored(p) /\ WriteIsStored(p) /\ NotExcused(p) /\ NotOfKeys(p)
AccessInv == AccessShaped /\ \A p \in Procs : AccessInvOf(p)

-----------------------------------------------------------------------------
(* `set permissions`: facts about the operators.                           *)

LEMMA GotoOf ==
  ASSUME NEW p \in Procs, NEW phase, AccessShaped, Acc!Goto(p, phase)
  PROVE  /\ accessPc'[p] = phase /\ accessOutcome' = accessOutcome /\ DOMAIN accessPc' = Procs
         /\ \A q \in Procs \ {p} : accessPc'[q] = accessPc[q]
BY DEF Acc!Goto, AccessShaped

LEMMA FinishOf ==
  ASSUME NEW p \in Procs, NEW how, AccessShaped, Acc!Finish(p, how)
  PROVE  /\ accessPc'[p] = "done" /\ accessOutcome'[p] = how
         /\ DOMAIN accessPc' = Procs /\ DOMAIN accessOutcome' = Procs
         /\ \A q \in Procs \ {p} : accessPc'[q] = accessPc[q]
BY DEF Acc!Finish, AccessShaped

\* The index of a row that is there is that row's.
LEMMA IndexFound ==
  ASSUME NEW list, NEW email, NEW i \in DOMAIN list, list[i].email = email
  PROVE  Acc!IndexOf(list, email) \in DOMAIN list /\ list[Acc!IndexOf(list, email)].email = email
BY DEF Acc!IndexOf

\* An index that is not 0 is one of a row.
LEMMA IndexIsRow ==
  ASSUME NEW list, NEW email, Acc!IndexOf(list, email) # 0
  PROVE  Acc!IndexOf(list, email) \in DOMAIN list /\ list[Acc!IndexOf(list, email)].email = email
BY DEF Acc!IndexOf

\* The row of a member in the list that is sending: the member's own row.
LEMMA SentRow ==
  ASSUME NEW p \in Procs, HasRows(p), accessPc[p] = "put", NEW i \in DOMAIN Members
  PROVE  LET sending == Acc!RowsSent([rows[p] EXCEPT ![row[p]].permissions = Acc!After(p)])
         IN  /\ Acc!IndexOf(sending, Members[i]) = i /\ i # 0
             /\ sending[i].permissions = IF i = row[p] THEN Acc!After(p) ELSE rows[p][i].permissions
<1> DEFINE sending == Acc!RowsSent([rows[p] EXCEPT ![row[p]].permissions = Acc!After(p)])
<1>1. /\ DOMAIN rows[p] = DOMAIN Members /\ row[p] \in DOMAIN Members
      /\ \A j \in DOMAIN Members : rows[p][j] = [email |-> Members[j], permissions |-> rows[p][j].permissions]
  BY DEF HasRows, Prompted
<1>2. DOMAIN sending = DOMAIN Members
  BY <1>1 DEF Acc!RowsSent
<1>3. \A j \in DOMAIN Members :
        /\ sending[j].email = Members[j]
        /\ sending[j].permissions = IF j = row[p] THEN Acc!After(p) ELSE rows[p][j].permissions
  <2> TAKE j \in DOMAIN Members
  <2>1. sending[j] = IF j = row[p] THEN [rows[p][j] EXCEPT !.permissions = Acc!After(p)] ELSE rows[p][j]
    BY <1>1 DEF Acc!RowsSent
  <2>2. rows[p][j] = [email |-> Members[j], permissions |-> rows[p][j].permissions]
    BY <1>1
  <2>3. [rows[p][j] EXCEPT !.permissions = Acc!After(p)]
          = [email |-> Members[j], permissions |-> Acc!After(p)]
    BY <2>2
  <2> QED
    BY <2>1, <2>2, <2>3
<1>4. /\ Acc!IndexOf(sending, Members[i]) \in DOMAIN Members
      /\ sending[Acc!IndexOf(sending, Members[i])].email = Members[i]
  BY <1>2, <1>3, IndexFound
<1>5. Acc!IndexOf(sending, Members[i]) = i
  BY <1>3, <1>4, MembersAssumption
<1>6. QED
  BY <1>3, <1>5, MembersAssumption

\* What a process knows stays so while others move, if what they write is noted.
LEMMA OthersMove ==
  ASSUME NEW q \in Procs, AccessInvOf(q), want' = want,
         accessPc'[q] = accessPc[q], rows'[q] = rows[q], row'[q] = row[q], excused'[q] = excused[q],
         \/ raced'[q]
         \/ raced'[q] = raced[q] /\ access' = access /\ (visible' = visible \/ visible' = access)
  PROVE  AccessInvOf(q)'
<1>1. Prompted(q)' <=> Prompted(q)
  BY DEF Prompted
<1>2. Acc!After(q)' = Acc!After(q)
  BY DEF Acc!After, Acc!Target, Acc!ApplyPermissionChange
<1>3. HasRows(q)' /\ NotExcused(q)' /\ NotOfKeys(q)'
  BY <1>1 DEF AccessInvOf, HasRows, NotExcused, NotOfKeys
<1>4. RowsAreStored(q)'
  BY <1>1 DEF AccessInvOf, RowsAreStored
<1>5. WriteIsStored(q)'
  BY <1>2 DEF AccessInvOf, WriteIsStored
<1>6. QED
  BY <1>3, <1>4, <1>5 DEF AccessInvOf

-----------------------------------------------------------------------------
(* `set permissions`: the steps.                                           *)
LEMMA AccessInitInv == Acc!Init => AccessInv
<1> SUFFICES ASSUME Acc!Init PROVE AccessInv
  OBVIOUS
<1> USE DEF Acc!Init
<1>1. AccessShaped
  BY DEF AccessShaped
<1>2. ASSUME NEW p \in Procs PROVE AccessInvOf(p)
  <2>1. /\ accessPc[p] \in {"read", "create", "list"} /\ ~excused[p]
        /\ accessPc[p] = "list" => want[p].kind # "set"
    OBVIOUS
  <2>2. QED
    BY <2>1 DEF AccessInvOf, HasRows, RowsAreStored, WriteIsStored, NotExcused, NotOfKeys, Prompted
<1>3. QED
  BY <1>1, <1>2 DEF AccessInv

\* A step of a process that leaves the access alone disturbs no other process.
LEMMA MineOnly ==
  ASSUME NEW p \in Procs, AccessInv, AccessInvOf(p)', want' = want,
         UNCHANGED <<access, visible>>, AccessShaped',
         \A q \in Procs \ {p} : /\ accessPc'[q] = accessPc[q] /\ rows'[q] = rows[q] /\ row'[q] = row[q]
                               /\ excused'[q] = excused[q] /\ raced'[q] = raced[q]
  PROVE  AccessInv'
<1>1. ASSUME NEW q \in Procs, q # p PROVE AccessInvOf(q)'
  <2>1. AccessInvOf(q)
    BY DEF AccessInv
  <2>2. QED
    BY <1>1, <2>1, OthersMove
<1>2. QED
  BY <1>1 DEF AccessInv

\* A process that has ended knows nothing that could be wrong.
LEMMA Ended ==
  ASSUME NEW p \in Procs, accessPc'[p] \in {"done", "revoke"}
  PROVE  AccessInvOf(p)'
BY DEF AccessInvOf, HasRows, RowsAreStored, WriteIsStored, NotExcused, NotOfKeys, Prompted

LEMMA ReadRowsInv == ASSUME AccessInv, NEW p \in Procs, Acc!ReadRows(p) PROVE AccessInv'
<1> DEFINE i == Acc!MemberRow(Acc!AppPermissions, want[p].ref)
<1>1. /\ UNCHANGED <<Acc!platformVars, want, excused>> /\ accessPc[p] = "read"
      /\ rows' = [rows EXCEPT ![p] = Acc!AppPermissions] /\ row' = [row EXCEPT ![p] = i]
      /\ raced' = [raced EXCEPT ![p] = visible # access]
  BY DEF Acc!ReadRows
<1>2. (\E how : Acc!Finish(p, how)) \/ (i # 0 /\ Acc!Goto(p, "answer"))
  BY DEF Acc!ReadRows
<1>3. AccessShaped /\ AccessInvOf(p)
  BY DEF AccessInv
<1>4. AccessShaped' /\ \A q \in Procs \ {p} : accessPc'[q] = accessPc[q]
  BY <1>1, <1>2, <1>3, GotoOf, FinishOf DEF AccessShaped
<1>5. AccessInvOf(p)'
  <2>1. CASE \E how : Acc!Finish(p, how)
    BY <2>1, <1>3, FinishOf, Ended
  <2>2. CASE i # 0 /\ Acc!Goto(p, "answer")
    <3>1. accessPc'[p] = "answer"
      BY <2>2, <1>3, GotoOf
    <3>2. rows'[p] = Acc!AppPermissions /\ row'[p] = i /\ raced'[p] = (visible # access)
      BY <1>1, <1>3 DEF AccessShaped
    <3>3. i \in DOMAIN Acc!AppPermissions /\ Acc!AppPermissions[i].email = want[p].ref
      BY <2>2, IndexIsRow DEF Acc!MemberRow
    <3>4. /\ DOMAIN Acc!AppPermissions = DOMAIN Members
          /\ \A j \in DOMAIN Members :
               Acc!AppPermissions[j] = [email |-> Members[j], permissions |-> visible[Members[j]]]
      BY DEF Acc!AppPermissions
    <3>5. HasRows(p)'
      BY <1>1, <3>2, <3>3, <3>4 DEF HasRows
    <3>6. RowsAreStored(p)'
      <4>1. raced'[p] \/ visible = access
        BY <3>2, Zenon
      <4>2. /\ UNCHANGED <<access, visible>>
            /\ \A j \in DOMAIN Members : rows'[p][j].permissions = visible[Members[j]]
        BY <1>1, <3>2, <3>4 DEF Acc!platformVars
      <4>3. QED
        BY <4>1, <4>2 DEF RowsAreStored
    <3>7. WriteIsStored(p)' /\ NotExcused(p)' /\ NotOfKeys(p)'
      BY <1>1, <1>3, <3>1 DEF WriteIsStored, AccessInvOf, NotExcused, NotOfKeys
    <3>8. QED
      BY <3>5, <3>6, <3>7 DEF AccessInvOf
  <2>3. QED
    BY <1>2, <2>1, <2>2
<1>6. QED
  BY <1>1, <1>3, <1>4, <1>5, MineOnly DEF AccessShaped, Acc!platformVars

LEMMA AnswerInv == ASSUME AccessInv, NEW p \in Procs, Acc!Answer(p) PROVE AccessInv'
<1>1. accessPc[p] = "answer" /\ UNCHANGED <<access, visible, want, rows, row, raced, excused>>
  BY DEF Acc!Answer, Acc!platformVars, Acc!historyVars
<1>2. Acc!Goto(p, IF want[p].kind = "set" THEN "put" ELSE "revoke") \/ Acc!Finish(p, "aborted")
  BY DEF Acc!Answer
<1>3. AccessShaped /\ AccessInvOf(p)
  BY DEF AccessInv
<1>4. AccessShaped' /\ \A q \in Procs \ {p} : accessPc'[q] = accessPc[q]
  BY <1>1, <1>2, <1>3, GotoOf, FinishOf DEF AccessShaped
<1>5. AccessInvOf(p)'
  <2>1. CASE want[p].kind = "set" /\ Acc!Goto(p, "put")
    <3>1. accessPc'[p] = "put" /\ Prompted(p)
      BY <1>1, <1>3, <2>1, GotoOf DEF Prompted
    <3>2. QED
      BY <1>1, <1>3, <3>1 DEF AccessInvOf, HasRows, RowsAreStored, WriteIsStored, NotExcused, NotOfKeys
  <2>2. CASE accessPc'[p] \in {"done", "revoke"}
    BY <2>2, Ended
  <2>3. QED
    BY <1>2, <1>3, <2>1, <2>2, GotoOf, FinishOf
<1>6. QED
  BY <1>1, <1>3, <1>4, <1>5, MineOnly

LEMMA PutInv == ASSUME AccessInv, NEW p \in Procs, Acc!Put(p) PROVE AccessInv'
<1>1. accessPc[p] = "put" /\ UNCHANGED <<visible, want, rows, row>> /\ Prompted(p)
  BY DEF Acc!Put, Prompted
<1>2. AccessShaped /\ AccessInvOf(p)
  BY DEF AccessInv
<1>3. HasRows(p) /\ row[p] \in DOMAIN Members /\ Members[row[p]] = want[p].ref /\ ~excused[p]
  BY <1>1, <1>2 DEF AccessInvOf, HasRows, NotExcused
<1>4. Acc!After(p)' = Acc!After(p)
  BY <1>1 DEF Acc!After, Acc!Target, Acc!ApplyPermissionChange
<1>5. HasRows(p)'
  BY <1>1, <1>3 DEF HasRows
<1> DEFINE sending == Acc!RowsSent([rows[p] EXCEPT ![row[p]].permissions = Acc!After(p)])
           Written(e) == IF Acc!IndexOf(sending, e) = 0 THEN access[e]
                         ELSE sending[Acc!IndexOf(sending, e)].permissions
<1>6. CASE /\ access' = [e \in Acc!Emails |-> Written(e)]
           /\ raced' = [q \in Procs |-> raced[q] \/ q # p]
           /\ Acc!Goto(p, "check") \/ Acc!Finish(p, "failed")
           /\ UNCHANGED excused
  <2>1. /\ AccessShaped' /\ (accessPc'[p] = "check" \/ accessPc'[p] = "done")
        /\ \A q \in Procs \ {p} : accessPc'[q] = accessPc[q]
    BY <1>1, <1>2, <1>6, GotoOf, FinishOf DEF AccessShaped
  <2>2. access'[want[p].ref] = Acc!After(p)
    <3>1. want[p].ref \in Acc!Emails
      BY <1>3 DEF Acc!Emails, Acc!Range
    <3>2. Written(want[p].ref) = Acc!After(p)
      BY <1>1, <1>3, SentRow
    <3>3. QED
      BY <1>6, <3>1, <3>2
  <2>3. CASE accessPc'[p] = "check"
    <3>1. WriteIsStored(p)'
      BY <1>1, <1>3, <1>4, <1>6, <2>2 DEF WriteIsStored
    <3>2. RowsAreStored(p)' /\ NotExcused(p)' /\ NotOfKeys(p)'
      BY <2>3 DEF RowsAreStored, Prompted, NotExcused, NotOfKeys
    <3>3. AccessInvOf(p)'
      BY <1>5, <3>1, <3>2 DEF AccessInvOf
    <3>4. QED
      BY <1>1, <1>6, <2>1, <3>3, OthersMove DEF AccessInv
  <2>4. CASE accessPc'[p] = "done"
    BY <1>1, <1>6, <2>1, <2>4, OthersMove, Ended DEF AccessInv
  <2>5. QED
    BY <2>1, <2>3, <2>4
<1>7. CASE /\ excused' = [excused EXCEPT ![p] = TRUE] /\ Acc!Goto(p, "check")
           /\ UNCHANGED <<access, raced>>
  <2>1. /\ AccessShaped' /\ accessPc'[p] = "check" /\ excused'[p]
        /\ \A q \in Procs \ {p} : accessPc'[q] = accessPc[q]
    BY <1>1, <1>2, <1>7, GotoOf DEF AccessShaped
  <2>2. WriteIsStored(p)'
    BY <1>1, <1>2, <1>7, <2>1 DEF WriteIsStored, AccessInvOf, RowsAreStored
  <2>3. RowsAreStored(p)' /\ NotExcused(p)' /\ NotOfKeys(p)'
    BY <2>1 DEF RowsAreStored, Prompted, NotExcused, NotOfKeys
  <2>4. AccessInvOf(p)'
    BY <1>5, <2>2, <2>3 DEF AccessInvOf
  <2>5. QED
    BY <1>1, <1>2, <1>7, <2>1, <2>4, MineOnly DEF AccessShaped
<1>8. QED
  BY <1>6, <1>7 DEF Acc!Put

LEMMA ReadBackInv == ASSUME AccessInv, NEW p \in Procs, Acc!ReadBack(p) PROVE AccessInv'
<1>1. accessPc[p] = "check" /\ UNCHANGED <<access, visible, want, rows, row, raced>>
  BY DEF Acc!ReadBack, Acc!platformVars
<1>2. AccessShaped /\ AccessInvOf(p)
  BY DEF AccessInv
<1>3. PICK answered \in BOOLEAN :
        /\ IF answered /\ Acc!Took(p) THEN Acc!Finish(p, "has")
           ELSE IF Acc!IsLastTry(tries'[p]) THEN Acc!Finish(p, "lost") ELSE Acc!Goto(p, "check")
        /\ excused' = [excused EXCEPT ![p] = @ \/ (Acc!IsLastTry(tries'[p]) /\ ~answered)]
  BY DEF Acc!ReadBack
<1>4. /\ AccessShaped' /\ \A q \in Procs \ {p} : accessPc'[q] = accessPc[q] /\ excused'[q] = excused[q]
      /\ accessPc'[p] = "done" \/ (accessPc'[p] = "check" /\ ~Acc!IsLastTry(tries'[p]))
  BY <1>1, <1>2, <1>3, GotoOf, FinishOf DEF AccessShaped
<1>5. CASE accessPc'[p] = "check" /\ ~Acc!IsLastTry(tries'[p])
  <2>1. excused'[p] <=> excused[p]
    BY <1>2, <1>3, <1>5 DEF AccessShaped
  <2>2. Acc!After(p)' = Acc!After(p)
    BY <1>1 DEF Acc!After, Acc!Target, Acc!ApplyPermissionChange
  <2>3. AccessInvOf(p)'
    BY <1>1, <1>2, <1>5, <2>1, <2>2
       DEF AccessInvOf, HasRows, RowsAreStored, WriteIsStored, NotExcused, NotOfKeys, Prompted
  <2>4. QED
    BY <1>1, <1>4, <2>3, MineOnly
<1>6. CASE accessPc'[p] = "done"
  BY <1>1, <1>4, <1>6, Ended, MineOnly
<1>7. QED
  BY <1>4, <1>5, <1>6

\* The commands on keys, and requests that fail.
LEMMA OtherStepsInv ==
  ASSUME AccessInv, NEW p \in Procs, Acc!ListKeys(p) \/ Acc!Revoke(p) \/ Acc!CreateKey(p) \/ Acc!Fails(p)
  PROVE  AccessInv'
<1>1. UNCHANGED <<access, visible, want, rows, row, raced, excused>>
  BY DEF Acc!ListKeys, Acc!Revoke, Acc!CreateKey, Acc!Fails, Acc!platformVars, Acc!historyVars
<1>2. AccessShaped /\ AccessInvOf(p)
  BY DEF AccessInv
<1>3. (\E how : Acc!Finish(p, how)) \/ (accessPc[p] = "list" /\ Acc!Goto(p, "answer"))
  BY DEF Acc!ListKeys, Acc!Revoke, Acc!CreateKey, Acc!Fails
<1>4. AccessShaped' /\ \A q \in Procs \ {p} : accessPc'[q] = accessPc[q]
  BY <1>1, <1>2, <1>3, GotoOf, FinishOf DEF AccessShaped
<1>5. CASE \E how : Acc!Finish(p, how)
  BY <1>1, <1>2, <1>4, <1>5, FinishOf, Ended, MineOnly
<1>6. CASE accessPc[p] = "list" /\ Acc!Goto(p, "answer")
  <2>1. accessPc'[p] = "answer" /\ ~Prompted(p)' /\ ~excused[p]
    BY <1>1, <1>2, <1>6, GotoOf DEF Prompted, AccessInvOf, NotOfKeys, NotExcused
  <2>2. AccessInvOf(p)'
    BY <1>1, <2>1 DEF AccessInvOf, HasRows, RowsAreStored, WriteIsStored, NotExcused, NotOfKeys
  <2>3. QED
    BY <1>1, <1>4, <2>2, MineOnly
<1>7. QED
  BY <1>3, <1>5, <1>6

\* The platform and the console.
LEMMA OutsideInv == ASSUME AccessInv, Acc!Show \/ Acc!Console \/ UNCHANGED Acc!vars PROVE AccessInv'
<1>1. /\ UNCHANGED <<accessPc, accessOutcome, want, rows, row, excused>>
      /\ \/ raced' = [p \in Procs |-> TRUE]
         \/ UNCHANGED <<raced, access>> /\ (visible' = visible \/ visible' = access)
  BY DEF Acc!Show, Acc!Console, Acc!vars, Acc!commandVars, Acc!historyVars, Acc!platformVars
<1>2. AccessShaped'
  BY <1>1 DEF AccessInv, AccessShaped
<1>3. ASSUME NEW q \in Procs PROVE AccessInvOf(q)'
  <2>1. AccessInvOf(q)
    BY DEF AccessInv
  <2>2. raced'[q] \/ (raced'[q] = raced[q] /\ access' = access /\ (visible' = visible \/ visible' = access))
    BY <1>1
  <2>3. QED
    BY <1>1, <2>1, <2>2, OthersMove
<1>4. QED
  BY <1>2, <1>3 DEF AccessInv

LEMMA AccessNextInv == AccessInv /\ [Acc!Next]_(Acc!vars) => AccessInv'
BY ReadRowsInv, AnswerInv, PutInv, ReadBackInv, OtherStepsInv, OutsideInv DEF Acc!Next

-----------------------------------------------------------------------------
(* `set permissions`: what they say of one step.                           *)

\* One step of `set permissions` and the other members' access.
LEMMA OthersStep ==
  ASSUME AccessInv, [Acc!Next]_(Acc!vars), NEW p \in Procs,
         accessPc[p] = "put", accessPc'[p] # "put", ~raced[p], NEW e \in Acc!Emails \ {want[p].ref}
  PROVE  access'[e] = access[e]
<1>1. AccessShaped /\ AccessInvOf(p)
  BY DEF AccessInv
<1>2. CASE Acc!Put(p)
  <2>1. HasRows(p) /\ RowsAreStored(p)
    BY <1>1 DEF AccessInvOf
  <2>2. PICK i \in DOMAIN Members : Members[i] = e
    BY DEF Acc!Emails, Acc!Range
  <2>3. i # row[p] /\ rows[p][i].permissions = access[e]
    BY <2>1, <2>2 DEF HasRows, RowsAreStored, Prompted
  <2> DEFINE sending == Acc!RowsSent([rows[p] EXCEPT ![row[p]].permissions = Acc!After(p)])
             Written(x) == IF Acc!IndexOf(sending, x) = 0 THEN access[x]
                           ELSE sending[Acc!IndexOf(sending, x)].permissions
  <2>4. Written(e) = access[e]
    BY <2>1, <2>2, <2>3, SentRow
  <2>5. access' = [x \in Acc!Emails |-> Written(x)] \/ access' = access
    BY <1>2 DEF Acc!Put
  <2>6. QED
    BY <2>4, <2>5
<1>3. CASE \E q \in Procs \ {p} : Acc!Put(q)
  BY <1>1, <1>3, GotoOf, FinishOf DEF Acc!Put
<1>4. CASE Acc!Console
  BY <1>4 DEF Acc!Console, Acc!commandVars
<1>5. CASE UNCHANGED access
  BY <1>5
<1>6. QED
  BY <1>2, <1>3, <1>4, <1>5
     DEF Acc!Next, Acc!ReadRows, Acc!Answer, Acc!ReadBack, Acc!ListKeys, Acc!Revoke, Acc!CreateKey,
         Acc!Fails, Acc!Show, Acc!platformVars, Acc!vars

\* One step of `set permissions` and what is said at its end.
LEMMA AccessAnswerStep ==
  ASSUME AccessInv, [Acc!Next]_(Acc!vars), NEW p \in Procs,
         accessPc[p] = "check", accessPc'[p] = "done", ~raced[p]
  PROVE  /\ accessOutcome'[p] = "has" => access[want[p].ref] = Acc!After(p)
         /\ accessOutcome'[p] = "lost" => excused'[p] \/ visible # access
<1>1. AccessShaped /\ WriteIsStored(p)
  BY DEF AccessInv, AccessInvOf
<1>2. CASE Acc!ReadBack(p)
  <2>1. PICK answered \in BOOLEAN :
          /\ IF answered /\ Acc!Took(p) THEN Acc!Finish(p, "has")
             ELSE IF Acc!IsLastTry(tries'[p]) THEN Acc!Finish(p, "lost") ELSE Acc!Goto(p, "check")
          /\ excused' = [excused EXCEPT ![p] = @ \/ (Acc!IsLastTry(tries'[p]) /\ ~answered)]
    BY <1>2 DEF Acc!ReadBack
  <2>2. excused'[p] <=> (excused[p] \/ (Acc!IsLastTry(tries'[p]) /\ ~answered))
    BY <1>1, <2>1 DEF AccessShaped
  <2>3. CASE accessOutcome'[p] = "has"
    <3>1. Acc!Took(p)
      BY <1>1, <2>1, <2>3, GotoOf, FinishOf
    <3>2. QED
      BY <1>1, <2>3, <3>1 DEF Acc!Took, WriteIsStored
  <2>4. CASE accessOutcome'[p] = "lost"
    <3>1. Acc!IsLastTry(tries'[p]) /\ (answered => ~Acc!Took(p))
      BY <1>1, <2>1, <2>4, GotoOf, FinishOf
    <3>2. CASE excused'[p]
      BY <2>4, <3>2
    <3>3. CASE ~excused'[p]
      BY <1>1, <2>2, <3>1, <3>3 DEF Acc!Took, WriteIsStored
    <3>4. QED
      BY <2>4, <3>2, <3>3
  <2>5. QED
    BY <2>3, <2>4
<1>3. CASE Acc!Fails(p)
  BY <1>1, <1>3, FinishOf DEF Acc!Fails
<1>4. CASE Acc!ReadRows(p) \/ Acc!Answer(p) \/ Acc!Put(p) \/ Acc!ListKeys(p) \/ Acc!Revoke(p) \/ Acc!CreateKey(p)
  BY <1>4 DEF Acc!ReadRows, Acc!Answer, Acc!Put, Acc!ListKeys, Acc!Revoke, Acc!CreateKey
<1>5. CASE \E q \in Procs \ {p} : \/ Acc!ReadRows(q) \/ Acc!Answer(q) \/ Acc!Put(q) \/ Acc!ReadBack(q)
                                 \/ Acc!ListKeys(q) \/ Acc!Revoke(q) \/ Acc!CreateKey(q) \/ Acc!Fails(q)
  <2>1. PICK q \in Procs \ {p} : \E phase : Acc!Goto(q, phase) \/ Acc!Finish(q, phase)
    BY <1>5 DEF Acc!ReadRows, Acc!Answer, Acc!Put, Acc!ReadBack, Acc!ListKeys, Acc!Revoke, Acc!CreateKey, Acc!Fails
  <2>2. QED
    BY <1>1, <2>1, GotoOf, FinishOf
<1>6. CASE Acc!Show \/ Acc!Console \/ UNCHANGED Acc!vars
  BY <1>6 DEF Acc!Show, Acc!Console, Acc!commandVars, Acc!vars
<1>7. QED
  BY <1>2, <1>3, <1>4, <1>5, <1>6 DEF Acc!Next

-----------------------------------------------------------------------------
(* `set permissions` and keys: types.                                      *)

AccessPhases == {"read", "answer", "put", "check", "list", "revoke", "create", "done"}
AccessOutcomes == {"running", "failed", "aborted", "noChange", "has", "lost", "shown", "revoked"}

PermissionsTyped ==
  access \in [Acc!Emails -> SUBSET Permissions] /\ visible \in [Acc!Emails -> SUBSET Permissions]
MadeTyped == made \in Nat /\ \A k \in keys : \E n \in 1..made : k.id = Acc!KeyId(n)

\* The list a command holds is one of every member's permissions.
RowsTyped(list) ==
  \/ list = <<>>
  \/ /\ DOMAIN list = DOMAIN Members /\ Len(list) = Len(Members)
     /\ \A i \in DOMAIN Members : list[i].permissions \subseteq Permissions

\* A command that reads back has an attempt left.
AskedTyped(p) ==
  /\ want[p] \in Asked[p] /\ accessPc[p] \in AccessPhases /\ accessOutcome[p] \in AccessOutcomes
  /\ row[p] \in 0..Len(Members) /\ tries[p] \in 0..Attempts /\ RowsTyped(rows[p])
  /\ accessPc[p] \notin {"check", "done"} => tries[p] = 0
  /\ accessPc[p] = "check" => tries[p] # Attempts

\* What commands keep is a function of the command.
OfWishes ==
  /\ accessPc = [p \in Procs |-> accessPc[p]] /\ accessOutcome = [p \in Procs |-> accessOutcome[p]]
  /\ row = [p \in Procs |-> row[p]] /\ tries = [p \in Procs |-> tries[p]] /\ rows = [p \in Procs |-> rows[p]]

AccessTyped == PermissionsTyped /\ MadeTyped /\ OfWishes /\ \A p \in Procs : AskedTyped(p)

LEMMA MembersListed == Len(Members) \in Nat /\ DOMAIN Members = 1..Len(Members)
BY MembersAssumption

LEMMA AccessTypes == ASSUME AccessTyped PROVE Acc!TypeOK
<1>1. \A p \in Procs : /\ accessPc[p] \in AccessPhases /\ accessOutcome[p] \in AccessOutcomes
                       /\ row[p] \in 0..Len(Members) /\ tries[p] \in 0..Attempts
  BY DEF AccessTyped, AskedTyped
<1>2. /\ accessPc \in [Procs -> AccessPhases] /\ accessOutcome \in [Procs -> AccessOutcomes]
      /\ row \in [Procs -> 0..Len(Members)] /\ tries \in [Procs -> 0..Attempts]
  BY <1>1 DEF AccessTyped, OfWishes
<1>3. \A p \in Procs : rows[p] # <<>> => Len(rows[p]) = Len(Members)
  BY DEF AccessTyped, AskedTyped, RowsTyped
<1>4. QED
  BY <1>2, <1>3 DEF Acc!TypeOK, AccessTyped, PermissionsTyped, MadeTyped, AccessPhases, AccessOutcomes

LEMMA AccessTypedStart == ASSUME Acc!Init PROVE AccessTyped
<1>1. PermissionsTyped
  <2>1. access \in [Acc!Emails -> {{}, {"view"}, Permissions}] /\ visible = access
    BY DEF Acc!Init
  <2>2. {{}, {"view"}, Permissions} \subseteq SUBSET Permissions
    BY MembersAssumption
  <2>3. QED
    BY <2>1, <2>2 DEF PermissionsTyped
<1>2. MadeTyped
  BY DEF Acc!Init, MadeTyped
<1>3. OfWishes
  BY DEF Acc!Init, OfWishes
<1>4. ASSUME NEW p \in Procs PROVE AskedTyped(p)
  <2>1. want[p] \in Asked[p] /\ accessPc[p] \in {"read", "create", "list"} /\ accessOutcome[p] = "running"
        /\ row[p] = 0 /\ tries[p] = 0 /\ rows[p] = <<>>
    BY DEF Acc!Init
  <2>2. 0 \in 0..Len(Members) /\ 0 \in 0..Attempts
    BY MembersListed, MembersAssumption
  <2>3. QED
    BY <2>1, <2>2 DEF AskedTyped, AccessPhases, AccessOutcomes, RowsTyped
<1>5. QED
  BY <1>1, <1>2, <1>3, <1>4 DEF AccessTyped

\* A list as it is read is one of every member's permissions.
LEMMA ReadTyped == ASSUME PermissionsTyped PROVE RowsTyped(Acc!AppPermissions)
<1>1. PICK list : list = Acc!AppPermissions
  OBVIOUS
<1>2. PICK R : R = {[email |-> Members[i], permissions |-> visible[Members[i]]] : i \in DOMAIN Members}
  OBVIOUS
<1>3. list \in [1..Len(Members) -> R]
  BY <1>1, <1>2, MembersListed DEF Acc!AppPermissions
<1>4. list \in Seq(R)
  BY <1>3, MembersListed
<1>5. Len(list) = Len(Members)
  BY <1>3, <1>4, MembersListed
<1>6. \A i \in DOMAIN Members : list[i].permissions \subseteq Permissions
  BY <1>1 DEF PermissionsTyped, Acc!AppPermissions, Acc!Emails, Acc!Range
<1>7. QED
  BY <1>1, <1>3, <1>5, <1>6, MembersListed DEF RowsTyped

\* What every step of a command does to the state of the commands.
LEMMA WishStep ==
  ASSUME NEW p \in Procs, OfWishes,
         \/ Acc!ReadRows(p) \/ Acc!Answer(p) \/ Acc!Put(p) \/ Acc!ReadBack(p)
         \/ Acc!ListKeys(p) \/ Acc!Revoke(p) \/ Acc!CreateKey(p) \/ Acc!Fails(p)
  PROVE  /\ OfWishes' /\ want' = want /\ accessPc[p] # "done"
         /\ \A q \in Procs \ {p} : /\ accessPc'[q] = accessPc[q] /\ accessOutcome'[q] = accessOutcome[q]
                                   /\ row'[q] = row[q] /\ tries'[q] = tries[q] /\ rows'[q] = rows[q]
<1>1. accessPc[p] # "done" /\ want' = want
  BY DEF Acc!ReadRows, Acc!Answer, Acc!Put, Acc!ReadBack, Acc!ListKeys, Acc!Revoke, Acc!CreateKey, Acc!Fails
<1>2. (\E phase : Acc!Goto(p, phase)) \/ (\E how : Acc!Finish(p, how))
  BY DEF Acc!ReadRows, Acc!Answer, Acc!Put, Acc!ReadBack, Acc!ListKeys, Acc!Revoke, Acc!CreateKey, Acc!Fails
<1>3. /\ row' = row \/ \E v : row' = [row EXCEPT ![p] = v]
      /\ rows' = rows \/ \E v : rows' = [rows EXCEPT ![p] = v]
      /\ tries' = tries \/ \E v : tries' = [tries EXCEPT ![p] = v]
  BY DEF Acc!ReadRows, Acc!Answer, Acc!Put, Acc!ReadBack, Acc!ListKeys, Acc!Revoke, Acc!CreateKey, Acc!Fails
<1>4. /\ row' = [q \in Procs |-> row'[q]] /\ rows' = [q \in Procs |-> rows'[q]] /\ tries' = [q \in Procs |-> tries'[q]]
      /\ \A q \in Procs \ {p} : row'[q] = row[q] /\ tries'[q] = tries[q] /\ rows'[q] = rows[q]
  BY <1>3 DEF OfWishes
<1>5. /\ accessPc' = [q \in Procs |-> accessPc'[q]] /\ accessOutcome' = [q \in Procs |-> accessOutcome'[q]]
      /\ \A q \in Procs \ {p} : accessPc'[q] = accessPc[q] /\ accessOutcome'[q] = accessOutcome[q]
  BY <1>2 DEF OfWishes, Acc!Goto, Acc!Finish
<1>6. QED
  BY <1>1, <1>4, <1>5 DEF OfWishes

\* What a command has after its own step.
LEMMA MyWishTyped ==
  ASSUME NEW p \in Procs, AccessShaped, OfWishes, PermissionsTyped, AskedTyped(p),
         \/ Acc!ReadRows(p) \/ Acc!Answer(p) \/ Acc!Put(p) \/ Acc!ReadBack(p)
         \/ Acc!ListKeys(p) \/ Acc!Revoke(p) \/ Acc!CreateKey(p) \/ Acc!Fails(p)
  PROVE  AskedTyped(p)'
<1> USE DEF AccessPhases, AccessOutcomes
<1>0. want' = want
  BY WishStep
<1>1. CASE Acc!ReadRows(p)
  <2>1. /\ rows'[p] = Acc!AppPermissions /\ row'[p] = Acc!MemberRow(Acc!AppPermissions, want[p].ref)
        /\ tries' = tries /\ accessPc[p] = "read"
    BY <1>1 DEF Acc!ReadRows, AccessShaped
  <2>2. RowsTyped(rows'[p])
    BY <2>1, ReadTyped
  <2>3. row'[p] \in 0..Len(Members)
    <3>1. row'[p] = 0 \/ row'[p] \in DOMAIN Members
      BY <2>1, IndexIsRow DEF Acc!MemberRow, Acc!AppPermissions
    <3>2. QED
      BY <3>1, MembersListed
  <2>4. accessPc'[p] \in {"done", "answer"} /\ accessOutcome'[p] \in AccessOutcomes
    BY <1>1, GotoOf, FinishOf DEF Acc!ReadRows, AskedTyped
  <2>5. QED
    BY <1>0, <2>1, <2>2, <2>3, <2>4 DEF AskedTyped
<1>2. CASE Acc!Answer(p) \/ Acc!Put(p) \/ Acc!ListKeys(p) \/ Acc!Revoke(p) \/ Acc!CreateKey(p) \/ Acc!Fails(p)
  <2>1. UNCHANGED <<rows, row, tries>>
    BY <1>2 DEF Acc!Answer, Acc!Put, Acc!ListKeys, Acc!Revoke, Acc!CreateKey, Acc!Fails
  <2>2. accessPc'[p] \in {"done", "put", "revoke", "check", "answer"} /\ accessOutcome'[p] \in AccessOutcomes
    BY <1>2, GotoOf, FinishOf
       DEF Acc!Answer, Acc!Put, Acc!ListKeys, Acc!Revoke, Acc!CreateKey, Acc!Fails, AskedTyped
  <2>3. accessPc'[p] # "done" => accessPc[p] \notin {"check", "done"}
    BY <1>2, FinishOf DEF Acc!Answer, Acc!Put, Acc!ListKeys, Acc!Revoke, Acc!CreateKey, Acc!Fails
  <2>4. Attempts # 0
    BY MembersAssumption
  <2>5. QED
    BY <1>0, <2>1, <2>2, <2>3, <2>4 DEF AskedTyped
<1>3. CASE Acc!ReadBack(p)
  <2>1. UNCHANGED <<rows, row>> /\ tries' = [tries EXCEPT ![p] = @ + 1] /\ accessPc[p] = "check"
    BY <1>3 DEF Acc!ReadBack
  <2>2. tries'[p] = tries[p] + 1 /\ tries[p] # Attempts /\ tries[p] \in 0..Attempts
    BY <2>1 DEF OfWishes, AskedTyped
  <2>3. tries'[p] \in 0..Attempts
    BY <2>2, MembersAssumption
  <2>4. \/ accessPc'[p] = "done" /\ accessOutcome'[p] \in AccessOutcomes
        \/ accessPc'[p] = "check" /\ accessOutcome' = accessOutcome /\ tries'[p] # Attempts
    BY <1>3, GotoOf, FinishOf DEF Acc!ReadBack, Acc!IsLastTry
  <2>5. QED
    BY <1>0, <2>1, <2>3, <2>4 DEF AskedTyped
<1>4. QED
  BY <1>1, <1>2, <1>3

\* What is sent of a member is permissions.
LEMMA PutTyped ==
  ASSUME NEW p \in Procs, HasRows(p), AskedTyped(p), PermissionsTyped, Acc!Put(p)
  PROVE  PermissionsTyped'
<1>1. accessPc[p] = "put" /\ visible' = visible
  BY DEF Acc!Put
<1>2. CASE access' = access
  BY <1>1, <1>2 DEF PermissionsTyped
<1>3. CASE access' # access
  <2>1. PICK sending : sending = Acc!RowsSent([rows[p] EXCEPT ![row[p]].permissions = Acc!After(p)])
    OBVIOUS
  <2>2. access' = [e \in Acc!Emails |-> IF Acc!IndexOf(sending, e) = 0 THEN access[e]
                                        ELSE sending[Acc!IndexOf(sending, e)].permissions]
    BY <1>3, <2>1 DEF Acc!Put
  <2>3. Acc!After(p) \subseteq Permissions /\ \A i \in DOMAIN Members : rows[p][i].permissions \subseteq Permissions
    <3>1. row[p] \in DOMAIN Members /\ DOMAIN rows[p] = DOMAIN Members
      BY <1>1 DEF HasRows, Prompted
    <3>2. \A i \in DOMAIN Members : rows[p][i].permissions \subseteq Permissions
      BY <3>1 DEF AskedTyped, RowsTyped
    <3>3. want[p].grant \subseteq Permissions
      BY MembersAssumption DEF AskedTyped
    <3>4. QED
      BY <3>1, <3>2, <3>3 DEF Acc!After, Acc!Target, Acc!ApplyPermissionChange
  <2>4. ASSUME NEW e \in Acc!Emails PROVE access'[e] \subseteq Permissions
    <3>1. PICK i \in DOMAIN Members : Members[i] = e
      BY DEF Acc!Emails, Acc!Range
    <3>2. /\ Acc!IndexOf(sending, e) = i /\ i # 0
          /\ sending[i].permissions = IF i = row[p] THEN Acc!After(p) ELSE rows[p][i].permissions
      BY <1>1, <2>1, <3>1, SentRow
    <3>3. QED
      BY <2>2, <2>3, <3>2
  <2>5. QED
    BY <1>1, <2>2, <2>4 DEF PermissionsTyped
<1>4. QED
  BY <1>2, <1>3

LEMMA NewKeyTyped == ASSUME NEW name, MadeTyped, Acc!NewKey(name) PROVE MadeTyped'
<1>1. made' = made + 1 /\ made \in Nat /\ keys' = keys \cup {[id |-> Acc!KeyId(made'), name |-> name]}
  BY DEF Acc!NewKey, MadeTyped
<1>2. made' \in 1..made' /\ 1..made \subseteq 1..made' /\ made' \in Nat
  BY <1>1
<1>3. ASSUME NEW k \in keys' PROVE \E n \in 1..made' : k.id = Acc!KeyId(n)
  BY <1>1, <1>2 DEF MadeTyped
<1>4. QED
  BY <1>2, <1>3 DEF MadeTyped

LEMMA AccessTypedStep == ASSUME AccessInv, AccessTyped, [Acc!Next]_(Acc!vars) PROVE AccessTyped'
<1>0. AccessShaped /\ OfWishes /\ PermissionsTyped /\ MadeTyped
  BY DEF AccessInv, AccessTyped
<1>1. ASSUME NEW p \in Procs,
             \/ Acc!ReadRows(p) \/ Acc!Answer(p) \/ Acc!Put(p) \/ Acc!ReadBack(p)
             \/ Acc!ListKeys(p) \/ Acc!Revoke(p) \/ Acc!CreateKey(p) \/ Acc!Fails(p)
      PROVE  AccessTyped'
  <2>1. /\ OfWishes' /\ want' = want
        /\ \A q \in Procs \ {p} : /\ accessPc'[q] = accessPc[q] /\ accessOutcome'[q] = accessOutcome[q]
                                  /\ row'[q] = row[q] /\ tries'[q] = tries[q] /\ rows'[q] = rows[q]
    BY <1>0, <1>1, WishStep
  <2>2. AskedTyped(p)'
    BY <1>0, <1>1, MyWishTyped DEF AccessTyped
  <2>3. \A q \in Procs \ {p} : AskedTyped(q)'
    BY <2>1 DEF AccessTyped, AskedTyped
  <2>4. PermissionsTyped'
    <3>1. CASE Acc!Put(p)
      BY <1>0, <3>1, PutTyped DEF AccessInv, AccessInvOf, AccessTyped
    <3>2. CASE ~Acc!Put(p)
      <4>1. UNCHANGED <<access, visible>>
        BY <1>1, <3>2 DEF Acc!ReadRows, Acc!Answer, Acc!ReadBack, Acc!ListKeys, Acc!Revoke, Acc!CreateKey,
                          Acc!Fails, Acc!platformVars
      <4>2. QED
        BY <1>0, <4>1 DEF PermissionsTyped
    <3>3. QED
      BY <3>1, <3>2
  <2>5. MadeTyped'
    <3>1. CASE Acc!CreateKey(p)
      BY <1>0, <3>1, NewKeyTyped DEF Acc!CreateKey
    <3>2. CASE ~Acc!CreateKey(p)
      <4>1. made' = made /\ keys' \subseteq keys
        BY <1>1, <3>2 DEF Acc!ReadRows, Acc!Answer, Acc!Put, Acc!ReadBack, Acc!ListKeys, Acc!Revoke,
                          Acc!Fails, Acc!platformVars
      <4>2. QED
        BY <1>0, <4>1 DEF MadeTyped
    <3>3. QED
      BY <3>1, <3>2
  <2>6. QED
    BY <2>1, <2>2, <2>3, <2>4, <2>5 DEF AccessTyped
<1>2. ASSUME Acc!Show \/ Acc!Console \/ UNCHANGED Acc!vars PROVE AccessTyped'
  <2>1. UNCHANGED <<accessPc, want, rows, row, tries, accessOutcome>>
    BY <1>2 DEF Acc!Show, Acc!Console, Acc!vars, Acc!commandVars
  <2>2. OfWishes' /\ \A p \in Procs : AskedTyped(p)'
    BY <2>1 DEF AccessTyped, OfWishes, AskedTyped
  <2>3. PermissionsTyped' /\ MadeTyped'
    <3>1. CASE Acc!Show \/ UNCHANGED Acc!vars
      BY <1>0, <3>1 DEF Acc!Show, Acc!vars, Acc!platformVars, PermissionsTyped, MadeTyped
    <3>2. CASE Acc!Console
      <4>1. PermissionsTyped'
        <5>1. visible' = visible /\ (access' = access \/ \E e \in Acc!Emails, ps \in {{}, {"view"}, Permissions} :
                                                            access' = [access EXCEPT ![e] = ps])
          BY <3>2 DEF Acc!Console
        <5>2. {{}, {"view"}, Permissions} \subseteq SUBSET Permissions
          BY MembersAssumption
        <5>3. QED
          BY <1>0, <5>1, <5>2 DEF PermissionsTyped
      <4>2. MadeTyped'
        <5>1. CASE Acc!NewKey("ci")
          BY <1>0, <5>1, NewKeyTyped
        <5>2. CASE made' = made /\ keys' \subseteq keys
          BY <1>0, <5>2 DEF MadeTyped
        <5>3. QED
          BY <3>2, <5>1, <5>2 DEF Acc!Console
      <4>3. QED
        BY <4>1, <4>2
    <3>3. QED
      BY <1>2, <3>1, <3>2
  <2>4. QED
    BY <2>2, <2>3 DEF AccessTyped
<1>3. QED
  BY <1>1, <1>2 DEF Acc!Next

-----------------------------------------------------------------------------
(* Calls of the server: the invariant.                                     *)

\* Times are numbers of ticks.
LEMMA Times == /\ Timeout \in Nat /\ Delay \in Nat
               /\ \A r \in Requests \cup {Mcp!NoRequest} : r.timeout \in Nat
BY TimesAssumption DEF Mcp!NoRequest

CallShaped ==
  /\ DOMAIN request = Calls /\ DOMAIN invocation = Calls /\ DOMAIN callPc = Calls /\ DOMAIN child = Calls
  /\ DOMAIN did = Calls /\ DOMAIN answer = Calls /\ DOMAIN held = Calls
  /\ age \in [Calls -> Nat] /\ ended \in [Calls -> Nat]

\* A child belongs to a call that runs, and ends once.
ChildOf(c) ==
  /\ request[c] \in Requests \cup {Mcp!NoRequest}
  /\ callPc[c] \in {"idle", "asked"} => child[c] = "none" /\ age[c] = 0
  /\ callPc[c] = "running" => child[c] # "none"
  /\ child[c] = "running" => callPc[c] = "running"
  /\ child[c] \in {"none", "running", "ok", "failed", "killed"}

\* It ends by its deadline, and its output is waited for no longer than that.
InTime(c) ==
  /\ child[c] = "running" => age[c] <= Mcp!Limit(c)
  /\ child[c] \in {"ok", "failed", "killed"} => ended[c] <= Mcp!Limit(c)
  /\ callPc[c] = "running" /\ child[c] # "running" => age[c] <= ended[c] + Delay

\* A command that succeeded has done all that it does; the answer says how it
\* ended, or that there was none.
Truly(c) ==
  /\ child[c] = "ok" => Mcp!Does(invocation[c]) \subseteq did[c]
  /\ callPc[c] = "answered" => /\ ~answer[c].error => child[c] = "ok"
                               /\ answer[c].why \in {"refused", "invalid"} => child[c] = "none"

CallInvOf(c) == ChildOf(c) /\ InTime(c) /\ Truly(c)
CallInv == CallShaped /\ \A c \in Calls : CallInvOf(c)

-----------------------------------------------------------------------------
(* Calls of the server: the steps.                                         *)

LEMMA LimitType ==
  ASSUME NEW c \in Calls, request[c] \in Requests \cup {Mcp!NoRequest}
  PROVE  Mcp!Limit(c) \in Nat
BY Times DEF Mcp!Limit

LEMMA CallInitInv == Mcp!Init => CallInv
BY Times DEF Mcp!Init, CallInv, CallShaped, CallInvOf, ChildOf, InTime, Truly

\* What holds of a call is not disturbed by a step of another one.
Same(c) ==
  /\ request'[c] = request[c] /\ invocation'[c] = invocation[c] /\ callPc'[c] = callPc[c]
  /\ child'[c] = child[c]
  /\ age'[c] = age[c] /\ ended'[c] = ended[c] /\ did'[c] = did[c] /\ answer'[c] = answer[c]

LEMMA SameInv == ASSUME NEW c \in Calls, CallInvOf(c), Same(c) PROVE CallInvOf(c)'
BY DEF Same, CallInvOf, ChildOf, InTime, Truly, Mcp!Limit

LEMMA AskInv == ASSUME NEW c \in Calls, CallShaped, CallInvOf(c), Mcp!Ask(c)
                PROVE  CallShaped' /\ CallInvOf(c)' /\ \A d \in Calls \ {c} : Same(d)
<1>1. /\ callPc[c] = "idle" /\ callPc'[c] = "asked" /\ DOMAIN callPc' = Calls /\ DOMAIN request' = Calls
      /\ request'[c] \in Requests
      /\ \A d \in Calls \ {c} : callPc'[d] = callPc[d] /\ request'[d] = request[d]
      /\ UNCHANGED <<invocation, child, held, age, ended, did, answer>>
  BY DEF Mcp!Ask, CallShaped
<1>2. CallShaped' /\ \A d \in Calls \ {c} : Same(d)
  BY <1>1 DEF CallShaped, Same
<1>3. CallInvOf(c)'
  BY <1>1 DEF CallInvOf, ChildOf, InTime, Truly, CallShaped
<1>4. QED
  BY <1>2, <1>3

LEMMA RunInv == ASSUME NEW c \in Calls, CallShaped, CallInvOf(c), Mcp!Run(c)
                PROVE  CallShaped' /\ CallInvOf(c)' /\ \A d \in Calls \ {c} : Same(d)
<1>1. /\ callPc[c] = "asked" /\ child[c] = "none" /\ age[c] = 0
      /\ UNCHANGED <<request, held, age, ended, did>>
  BY DEF Mcp!Run, CallInvOf, ChildOf
<1>2. /\ \/ /\ Mcp!Answered(c, TRUE, "invalid") \/ Mcp!Answered(c, TRUE, "refused")
            /\ UNCHANGED child
         \/ /\ callPc' = [callPc EXCEPT ![c] = "running"] /\ child' = [child EXCEPT ![c] = "running"]
            /\ UNCHANGED answer
      /\ invocation' = invocation \/ \E inv : invocation' = [invocation EXCEPT ![c] = inv]
  BY DEF Mcp!Run
<1>3. CallShaped' /\ \A d \in Calls \ {c} : Same(d)
  BY <1>1, <1>2 DEF CallShaped, Same, Mcp!Answered
<1>4. Mcp!Limit(c)' = Mcp!Limit(c) /\ Mcp!Limit(c) \in Nat
  BY <1>1, LimitType DEF Mcp!Limit, CallInvOf, ChildOf
<1>5. CASE (Mcp!Answered(c, TRUE, "invalid") \/ Mcp!Answered(c, TRUE, "refused")) /\ UNCHANGED child
  <2>1. callPc'[c] = "answered" /\ child'[c] = "none" /\ answer'[c].error
    BY <1>1, <1>5 DEF Mcp!Answered, CallShaped
  <2>2. QED
    BY <1>1, <1>3, <2>1 DEF CallInvOf, ChildOf, InTime, Truly
<1>6. CASE /\ callPc' = [callPc EXCEPT ![c] = "running"] /\ child' = [child EXCEPT ![c] = "running"]
           /\ UNCHANGED answer
  <2>1. callPc'[c] = "running" /\ child'[c] = "running"
    BY <1>6 DEF CallShaped
  <2>2. QED
    BY <1>1, <1>3, <1>4, <2>1 DEF CallInvOf, ChildOf, InTime, Truly
<1>7. QED
  BY <1>2, <1>5, <1>6

\* The child writes or ends.
LEMMA ChildInv ==
  ASSUME NEW c \in Calls, CallShaped, CallInvOf(c),
         Mcp!Write(c) \/ Mcp!Exit(c) \/ Mcp!Deadline(c) \/ Mcp!Cancel(c)
  PROVE  CallShaped' /\ CallInvOf(c)' /\ \A d \in Calls \ {c} : Same(d)
<1>1. child[c] = "running" /\ callPc[c] = "running" /\ UNCHANGED <<request, invocation, callPc, age, answer>>
  BY DEF Mcp!Write, Mcp!Exit, Mcp!Deadline, Mcp!Cancel, Mcp!Kill, CallInvOf, ChildOf
<1>2. Mcp!Limit(c)' = Mcp!Limit(c) /\ Mcp!Limit(c) \in Nat /\ age[c] <= Mcp!Limit(c) /\ age[c] \in Nat
  BY <1>1, LimitType DEF Mcp!Limit, CallInvOf, ChildOf, InTime, CallShaped
<1>3. CASE Mcp!Write(c)
  <2>1. child'[c] = "running" /\ UNCHANGED <<child, ended, held>> /\ DOMAIN did' = Calls
        /\ \A d \in Calls \ {c} : did'[d] = did[d]
    BY <1>1, <1>3 DEF Mcp!Write, CallShaped
  <2>2. QED
    BY <1>1, <1>2, <2>1 DEF CallShaped, Same, CallInvOf, ChildOf, InTime, Truly
<1>4. ASSUME \/ child' = [child EXCEPT ![c] = "failed"] /\ UNCHANGED did
             \/ child' = [child EXCEPT ![c] = "killed"] /\ UNCHANGED did
             \/ /\ child' = [child EXCEPT ![c] = "ok"]
                /\ did' = [did EXCEPT ![c] = @ \cup (Mcp!Does(invocation[c]) \ did[c])],
             ended' = [ended EXCEPT ![c] = age[c]], DOMAIN held' = Calls
      PROVE  CallShaped' /\ CallInvOf(c)' /\ \A d \in Calls \ {c} : Same(d)
  <2>1. /\ child'[c] \in {"ok", "failed", "killed"} /\ ended'[c] = age[c]
        /\ DOMAIN child' = Calls /\ DOMAIN did' = Calls /\ ended' \in [Calls -> Nat]
        /\ \A d \in Calls \ {c} : child'[d] = child[d] /\ did'[d] = did[d] /\ ended'[d] = ended[d]
    BY <1>2, <1>4 DEF CallShaped
  <2>2. child'[c] = "ok" => Mcp!Does(invocation[c]) \subseteq did'[c]
    BY <1>4 DEF CallShaped
  <2>3. CallShaped' /\ \A d \in Calls \ {c} : Same(d)
    BY <1>1, <1>4, <2>1 DEF CallShaped, Same
  <2>4. ChildOf(c)'
    BY <1>1, <2>1 DEF CallInvOf, ChildOf
  <2>5. InTime(c)'
    BY <1>1, <1>2, <2>1, Times DEF InTime
  <2>6. Truly(c)'
    BY <1>1, <2>2 DEF Truly
  <2>7. QED
    BY <2>3, <2>4, <2>5, <2>6 DEF CallInvOf
<1>5. CASE Mcp!Exit(c)
  BY <1>4, <1>5 DEF Mcp!Exit, CallShaped
<1>6. CASE Mcp!Kill(c)
  BY <1>4, <1>6 DEF Mcp!Kill, CallShaped
<1>7. QED
  BY <1>3, <1>5, <1>6 DEF Mcp!Deadline, Mcp!Cancel

LEMMA ReturnInv == ASSUME NEW c \in Calls, CallShaped, CallInvOf(c), Mcp!Return(c)
                   PROVE  CallShaped' /\ CallInvOf(c)' /\ \A d \in Calls \ {c} : Same(d)
<1>1. /\ callPc[c] = "running" /\ child[c] \in {"ok", "failed", "killed"}
      /\ Mcp!Answered(c, Mcp!Failed(c), IF age[c] >= Mcp!Limit(c) THEN "timed out" ELSE "ran")
      /\ UNCHANGED <<request, invocation, child, held, age, ended, did>>
  BY DEF Mcp!Return, Mcp!Ready
<1>2. /\ callPc'[c] = "answered" /\ DOMAIN callPc' = Calls /\ DOMAIN answer' = Calls
      /\ answer'[c].why \notin {"refused", "invalid"} /\ answer'[c].error = Mcp!Failed(c)
      /\ \A d \in Calls \ {c} : callPc'[d] = callPc[d] /\ answer'[d] = answer[d]
  BY <1>1 DEF Mcp!Answered, CallShaped
<1>3. ~answer'[c].error => child[c] = "ok"
  BY <1>2, Zenon DEF Mcp!Failed
<1>4. CallShaped' /\ \A d \in Calls \ {c} : Same(d)
  BY <1>1, <1>2 DEF CallShaped, Same
<1>5. CallInvOf(c)'
  BY <1>1, <1>2, <1>3 DEF CallInvOf, ChildOf, InTime, Truly, Mcp!Limit
<1>6. QED
  BY <1>4, <1>5

LEMMA TickInv == ASSUME NEW c \in Calls, CallShaped, CallInvOf(c), Mcp!Tick(c)
                 PROVE  CallShaped' /\ CallInvOf(c)' /\ \A d \in Calls \ {c} : Same(d)
<1>1. /\ callPc[c] = "running" /\ ~Mcp!Ready(c) /\ ~(child[c] = "running" /\ age[c] = Mcp!Limit(c))
      /\ UNCHANGED <<request, invocation, callPc, child, held, ended, did, answer>>
  BY DEF Mcp!Tick
<1>2. /\ age'[c] = age[c] + 1 /\ age' \in [Calls -> Nat] /\ age[c] \in Nat /\ ended[c] \in Nat
      /\ \A d \in Calls \ {c} : age'[d] = age[d]
  BY DEF Mcp!Tick, CallShaped
<1>3. Mcp!Limit(c)' = Mcp!Limit(c) /\ Mcp!Limit(c) \in Nat /\ Delay \in Nat
  BY <1>1, LimitType, Times DEF Mcp!Limit, CallInvOf, ChildOf
<1>4. CallShaped' /\ \A d \in Calls \ {c} : Same(d)
  BY <1>1, <1>2 DEF CallShaped, Same
<1>5. InTime(c)'
  BY <1>1, <1>2, <1>3 DEF CallInvOf, ChildOf, InTime, Mcp!Ready
<1>6. ChildOf(c)' /\ Truly(c)'
  BY <1>1 DEF CallInvOf, ChildOf, Truly
<1>7. QED
  BY <1>4, <1>5, <1>6 DEF CallInvOf

LEMMA CallNextInv == CallInv /\ [Mcp!Next]_(Mcp!vars) => CallInv'
<1> SUFFICES ASSUME CallInv, [Mcp!Next]_(Mcp!vars) PROVE CallInv'
  OBVIOUS
<1>1. ASSUME NEW c \in Calls, CallShaped', CallInvOf(c)', \A d \in Calls \ {c} : Same(d) PROVE CallInv'
  BY <1>1, SameInv DEF CallInv
<1>2. CASE UNCHANGED Mcp!vars
  <2>1. CallShaped' /\ \A c \in Calls : Same(c)
    BY <1>2 DEF Mcp!vars, CallInv, CallShaped, Same
  <2>2. QED
    BY <2>1, SameInv DEF CallInv
<1>3. QED
  BY <1>1, <1>2, AskInv, RunInv, ChildInv, ReturnInv, TickInv DEF CallInv, Mcp!Next

-----------------------------------------------------------------------------
(* Calls of the server: what it says.                                      *)

\* What the invariant says of the calls' times and of their answers.
LEMMA CallsInTime == CallInv => Mcp!AnsweredInTime
<1>1. ASSUME CallInv, NEW c \in Calls, callPc[c] = "running" PROVE age[c] <= Mcp!Limit(c) + Delay
  <2>1. ChildOf(c) /\ InTime(c) /\ age[c] \in Nat /\ ended[c] \in Nat /\ Delay \in Nat
    BY <1>1, Times DEF CallInv, CallInvOf, CallShaped
  <2>2. Mcp!Limit(c) \in Nat
    BY <2>1, LimitType DEF ChildOf
  <2>3. QED
    BY <1>1, <2>1, <2>2 DEF ChildOf, InTime
<1>2. QED
  BY <1>1 DEF Mcp!AnsweredInTime

LEMMA CallsTruly == CallInv => Mcp!AnswerIsTrue
BY DEF CallInv, CallInvOf, Truly, Mcp!AnswerIsTrue

-----------------------------------------------------------------------------
(* The gate: what resolving a command line reads.                          *)

LEMMA Smallest ==
  ASSUME NEW T, T \subseteq Nat, T # {}
  PROVE  \E x \in T : \A y \in T : x <= y
<1>1. PICK x \in T : \A y \in T : ~(<<y, x>> \in OpToRel(<, Nat))
  BY NatLessThanWellFounded, WFMin
<1>2. \A y \in T : ~(y < x)
  BY <1>1 DEF OpToRel
<1>3. QED
  BY <1>2

KnownOf(f, tokens, n) ==
  f = [i \in 0..n |-> IF i = 0 THEN Mcp!Start ELSE Mcp!TakeOne(f[i - 1], tokens[i])]

LEMMA KnownThere ==
  ASSUME NEW tokens, NEW n \in Nat
  PROVE  \E f : KnownOf(f, tokens, n)
<1>1. PICK T : T = {m \in Nat : ~\E f : KnownOf(f, tokens, m)}
  OBVIOUS
<1>2. SUFFICES ASSUME T # {} PROVE FALSE
  BY <1>1
<1>3. PICK m \in T : \A k \in T : m <= k
  BY <1>1, <1>2, Smallest
<1>4. m \in Nat /\ ~\E f : KnownOf(f, tokens, m)
  BY <1>1
<1>5. m # 0
  <2>1. PICK f : f = [i \in 0..0 |-> Mcp!Start]
    OBVIOUS
  <2>2. KnownOf(f, tokens, 0)
    BY <2>1 DEF KnownOf
  <2>3. QED
    BY <1>4, <2>2
<1>6. m - 1 \in Nat /\ m - 1 \notin T
  BY <1>3, <1>4, <1>5
<1>7. PICK f : KnownOf(f, tokens, m - 1)
  BY <1>1, <1>6
<1>8. PICK g : g = [i \in 0..m |-> IF i < m THEN f[i] ELSE Mcp!TakeOne(f[m - 1], tokens[m])]
  OBVIOUS
<1>9. KnownOf(g, tokens, m)
  <2>1. \A i \in 0..(m - 1) : f[i] = IF i = 0 THEN Mcp!Start ELSE Mcp!TakeOne(f[i - 1], tokens[i])
    BY <1>7 DEF KnownOf
  <2>2. ASSUME NEW i \in 0..m PROVE g[i] = IF i = 0 THEN Mcp!Start ELSE Mcp!TakeOne(g[i - 1], tokens[i])
    <3>1. CASE i = m
      BY <1>4, <1>5, <1>8, <3>1
    <3>2. CASE i < m
      <4>1. i \in 0..(m - 1) /\ g[i] = f[i] /\ (i # 0 => g[i - 1] = f[i - 1])
        BY <1>4, <1>8, <3>2
      <4>2. QED
        BY <2>1, <4>1
    <3>3. QED
      BY <1>4, <3>1, <3>2
  <2>3. QED
    BY <1>8, <2>2 DEF KnownOf
<1>10. QED
  BY <1>4, <1>9

LEMMA ResolveStep ==
  ASSUME NEW tokens, NEW n \in Nat, n = Len(tokens)
  PROVE  \E f : /\ DOMAIN f = 0..n /\ f[0] = Mcp!Start /\ Mcp!Resolve(tokens) = f[n]
                /\ \A i \in 1..n : f[i] = Mcp!TakeOne(f[i - 1], tokens[i])
<1>1. \E f : f = [i \in 0..Len(tokens) |-> IF i = 0 THEN Mcp!Start ELSE Mcp!TakeOne(f[i - 1], tokens[i])]
  BY KnownThere DEF KnownOf
<1>2. PICK f : f = CHOOSE g : g = [i \in 0..Len(tokens) |-> IF i = 0 THEN Mcp!Start ELSE Mcp!TakeOne(g[i - 1], tokens[i])]
  OBVIOUS
<1>3. f = [i \in 0..Len(tokens) |-> IF i = 0 THEN Mcp!Start ELSE Mcp!TakeOne(f[i - 1], tokens[i])]
  BY <1>1, <1>2
<1>4. Mcp!Resolve(tokens) = f[Len(tokens)]
  BY <1>2 DEF Mcp!Resolve
<1>5. QED
  BY <1>3, <1>4

\* A chain of what is known of a command line, a token at a time.
Chain(f, tokens) ==
  /\ DOMAIN f = 0..Len(tokens)
  /\ \A i \in 1..Len(tokens) : f[i] = Mcp!TakeOne(f[i - 1], tokens[i])

LEMMA OneChain ==
  ASSUME NEW S, NEW tokens \in Seq(S), NEW f, NEW g, Chain(f, tokens), Chain(g, tokens), f[0] = g[0]
  PROVE  \A i \in 0..Len(tokens) : f[i] = g[i]
<1>1. Len(tokens) \in Nat
  OBVIOUS
<1>2. PICK T : T = {i \in 0..Len(tokens) : f[i] # g[i]}
  OBVIOUS
<1>3. SUFFICES ASSUME T # {} PROVE FALSE
  BY <1>2
<1>4. PICK m \in T : \A k \in T : m <= k
  <2>1. T \subseteq Nat
    BY <1>1, <1>2
  <2>2. QED
    BY <1>3, <2>1, Smallest
<1>5. m \in 1..Len(tokens) /\ f[m] # g[m] /\ m - 1 \in 0..Len(tokens) /\ m - 1 \notin T
  BY <1>1, <1>2, <1>4
<1>6. f[m - 1] = g[m - 1]
  BY <1>2, <1>5
<1>7. QED
  BY <1>5, <1>6 DEF Chain

LEMMA ChainResolves ==
  ASSUME NEW S, NEW tokens \in Seq(S), NEW f, Chain(f, tokens), f[0] = Mcp!Start
  PROVE  Mcp!Resolve(tokens) = f[Len(tokens)]
<1>1. PICK g : /\ DOMAIN g = 0..Len(tokens) /\ g[0] = Mcp!Start /\ Mcp!Resolve(tokens) = g[Len(tokens)]
               /\ \A i \in 1..Len(tokens) : g[i] = Mcp!TakeOne(g[i - 1], tokens[i])
  BY ResolveStep, LenProperties
<1>2. Chain(g, tokens)
  BY <1>1 DEF Chain
<1>3. QED
  BY <1>1, <1>2, OneChain, LenProperties

\* One chain goes on where another ends.
Leads(a, tokens, b) == \E f : Chain(f, tokens) /\ f[0] = a /\ f[Len(tokens)] = b

LEMMA LeadsOn ==
  ASSUME NEW S, NEW s \in Seq(S), NEW t \in Seq(S), NEW a, NEW b, NEW c, Leads(a, s, b), Leads(b, t, c)
  PROVE  Leads(a, s \o t, c)
<1>1. PICK f : Chain(f, s) /\ f[0] = a /\ f[Len(s)] = b
  BY DEF Leads
<1>2. PICK g : Chain(g, t) /\ g[0] = b /\ g[Len(t)] = c
  BY DEF Leads
<1>3. PICK m, n : m = Len(s) /\ n = Len(t)
  OBVIOUS
<1>4. m \in Nat /\ n \in Nat /\ Len(s \o t) = m + n
  BY <1>3, ConcatProperties
<1>5. PICK h : h = [i \in 0..(m + n) |-> IF i <= m THEN f[i] ELSE g[i - m]]
  OBVIOUS
<1>6. h[0] = a /\ h[m + n] = c
  BY <1>1, <1>2, <1>3, <1>4, <1>5
<1>7. ASSUME NEW i \in 1..(m + n) PROVE h[i] = Mcp!TakeOne(h[i - 1], (s \o t)[i])
  <2>1. CASE i <= m
    <3>1. (s \o t)[i] = s[i] /\ i \in 1..Len(s) /\ h[i] = f[i] /\ h[i - 1] = f[i - 1]
      BY <1>3, <1>4, <1>5, <2>1, ConcatProperties
    <3>2. QED
      BY <1>1, <3>1 DEF Chain
  <2>2. CASE i > m
    <3>1. (s \o t)[i] = t[i - m] /\ i - m \in 1..Len(t) /\ h[i] = g[i - m]
      BY <1>3, <1>4, <1>5, <2>2, ConcatProperties
    <3>2. h[i - 1] = g[(i - m) - 1]
      <4>1. CASE i = m + 1
        <5>1. i - 1 = m /\ (i - m) - 1 = 0 /\ h[m] = f[m]
          BY <1>4, <1>5, <4>1
        <5>2. QED
          BY <1>1, <1>2, <1>3, <5>1
      <4>2. CASE i > m + 1
        <5>1. i - 1 \in 0..(m + n) /\ ~(i - 1 <= m) /\ (i - 1) - m = (i - m) - 1
          BY <1>4, <4>2
        <5>2. QED
          BY <1>5, <5>1
      <4>3. QED
        BY <1>4, <2>2, <4>1, <4>2
    <3>3. QED
      BY <1>2, <3>1, <3>2 DEF Chain
  <2>3. QED
    BY <1>4, <2>1, <2>2
<1>8. Chain(h, s \o t)
  BY <1>4, <1>5, <1>7 DEF Chain
<1>9. QED
  BY <1>4, <1>6, <1>8 DEF Leads

-----------------------------------------------------------------------------
\* Sequences put one after another, up to each.
Flat(g, seqs) ==
  /\ DOMAIN g = 1..Len(seqs)
  /\ \A i \in 1..Len(seqs) : g[i] = IF i = 1 THEN seqs[i] ELSE g[i - 1] \o seqs[i]
FlatTo(g, seqs, n) == g = [i \in 1..n |-> IF i = 1 THEN seqs[i] ELSE g[i - 1] \o seqs[i]]

LEMMA FlatThere ==
  ASSUME NEW seqs, NEW n \in Nat
  PROVE  \E g : FlatTo(g, seqs, n)
<1>1. PICK T : T = {m \in Nat : ~\E g : FlatTo(g, seqs, m)}
  OBVIOUS
<1>2. SUFFICES ASSUME T # {} PROVE FALSE
  BY <1>1
<1>3. PICK m \in T : \A k \in T : m <= k
  BY <1>1, <1>2, Smallest
<1>4. m \in Nat /\ ~\E g : FlatTo(g, seqs, m)
  BY <1>1
<1>5. m # 0
  <2>1. PICK g : g = [i \in 1..0 |-> seqs[i]]
    OBVIOUS
  <2>2. g = [i \in 1..0 |-> IF i = 1 THEN seqs[i] ELSE g[i - 1] \o seqs[i]]
    BY <2>1
  <2>3. QED
    BY <1>4, <2>2 DEF FlatTo
<1>6. m - 1 \in Nat /\ m - 1 \notin T
  BY <1>3, <1>4, <1>5
<1>7. PICK f : FlatTo(f, seqs, m - 1)
  BY <1>1, <1>6
<1>8. PICK g : g = [i \in 1..m |-> IF i < m THEN f[i] ELSE IF m = 1 THEN seqs[m] ELSE f[m - 1] \o seqs[m]]
  OBVIOUS
<1>9. FlatTo(g, seqs, m)
  <2>1. \A i \in 1..(m - 1) : f[i] = IF i = 1 THEN seqs[i] ELSE f[i - 1] \o seqs[i]
    BY <1>7 DEF FlatTo
  <2>2. ASSUME NEW i \in 1..m PROVE g[i] = IF i = 1 THEN seqs[i] ELSE g[i - 1] \o seqs[i]
    <3>1. CASE i = m
      <4>1. i # 1 => g[i - 1] = f[i - 1]
        BY <1>4, <1>8, <3>1
      <4>2. QED
        BY <1>4, <1>5, <1>8, <3>1, <4>1
    <3>2. CASE i < m
      <4>1. i \in 1..(m - 1) /\ g[i] = f[i] /\ (i # 1 => g[i - 1] = f[i - 1])
        BY <1>4, <1>8, <3>2
      <4>2. QED
        BY <2>1, <4>1
    <3>3. QED
      BY <1>4, <3>1, <3>2
  <2>3. QED
    BY <1>8, <2>2 DEF FlatTo
<1>10. QED
  BY <1>4, <1>9

LEMMA Flattened ==
  ASSUME NEW seqs, NEW n \in Nat, n = Len(seqs), n # 0
  PROVE  \E g : Flat(g, seqs) /\ Mcp!FlattenSeq(seqs) = g[n]
<1>1. \E g : g = [i \in 1..Len(seqs) |-> IF i = 1 THEN seqs[i] ELSE g[i - 1] \o seqs[i]]
  BY FlatThere DEF FlatTo
<1>2. PICK g : g = CHOOSE h : h = [i \in 1..Len(seqs) |-> IF i = 1 THEN seqs[i] ELSE h[i - 1] \o seqs[i]]
  OBVIOUS
<1>3. g = [i \in 1..Len(seqs) |-> IF i = 1 THEN seqs[i] ELSE g[i - 1] \o seqs[i]]
  BY <1>1, <1>2
<1>4. Mcp!FlattenSeq(seqs) = g[Len(seqs)]
  BY <1>2 DEF Mcp!FlattenSeq
<1>5. QED
  BY <1>3, <1>4 DEF Flat

LEMMA OneFlat ==
  ASSUME NEW S, NEW seqs \in Seq(S), NEW f, NEW g, Flat(f, seqs), Flat(g, seqs)
  PROVE  \A i \in 1..Len(seqs) : f[i] = g[i]
<1>1. Len(seqs) \in Nat
  OBVIOUS
<1>2. PICK T : T = {i \in 1..Len(seqs) : f[i] # g[i]}
  OBVIOUS
<1>3. SUFFICES ASSUME T # {} PROVE FALSE
  BY <1>2
<1>4. PICK m \in T : \A k \in T : m <= k
  <2>1. T \subseteq Nat
    BY <1>1, <1>2
  <2>2. QED
    BY <1>3, <2>1, Smallest
<1>5. m \in 1..Len(seqs) /\ f[m] # g[m] /\ m - 1 \notin T
  BY <1>1, <1>2, <1>4
<1>6. CASE m = 1
  BY <1>5, <1>6 DEF Flat
<1>7. CASE m # 1
  <2>1. m - 1 \in 1..Len(seqs) /\ f[m - 1] = g[m - 1]
    BY <1>1, <1>2, <1>5, <1>7
  <2>2. QED
    BY <1>5, <1>7, <2>1 DEF Flat
<1>8. QED
  BY <1>6, <1>7

\* What is put together is a sequence.
LEMMA FlatIn ==
  ASSUME NEW S, NEW seqs \in Seq(Seq(S)), NEW g, Flat(g, seqs)
  PROVE  \A i \in 1..Len(seqs) : g[i] \in Seq(S)
<1>1. Len(seqs) \in Nat /\ \A i \in 1..Len(seqs) : seqs[i] \in Seq(S)
  OBVIOUS
<1>2. PICK T : T = {i \in 1..Len(seqs) : g[i] \notin Seq(S)}
  OBVIOUS
<1>3. SUFFICES ASSUME T # {} PROVE FALSE
  BY <1>2
<1>4. PICK m \in T : \A k \in T : m <= k
  <2>1. T \subseteq Nat
    BY <1>1, <1>2
  <2>2. QED
    BY <1>3, <2>1, Smallest
<1>5. m \in 1..Len(seqs) /\ g[m] \notin Seq(S) /\ m - 1 \notin T
  BY <1>1, <1>2, <1>4
<1>6. CASE m = 1
  BY <1>1, <1>5, <1>6 DEF Flat
<1>7. CASE m # 1
  <2>1. m - 1 \in 1..Len(seqs) /\ g[m - 1] \in Seq(S)
    BY <1>1, <1>2, <1>5, <1>7
  <2>2. g[m - 1] \o seqs[m] \in Seq(S)
    BY <1>1, <1>5, <2>1, ConcatProperties
  <2>3. QED
    BY <1>5, <1>7, <2>2 DEF Flat
<1>8. QED
  BY <1>6, <1>7

LEMMA FlattenIn ==
  ASSUME NEW S, NEW seqs \in Seq(Seq(S))
  PROVE  Mcp!FlattenSeq(seqs) \in Seq(S)
<1>1. PICK n : n = Len(seqs)
  OBVIOUS
<1>2. n \in Nat
  BY <1>1
<1>3. CASE n = 0
  <2>1. seqs = <<>>
    BY <1>1, <1>3, EmptySeq
  <2>2. QED
    BY <1>1, <1>3, <2>1, EmptySeq DEF Mcp!FlattenSeq
<1>4. CASE n # 0
  <2>1. PICK g : Flat(g, seqs) /\ Mcp!FlattenSeq(seqs) = g[n]
    BY <1>1, <1>2, <1>4, Flattened
  <2>2. n \in 1..Len(seqs)
    BY <1>1, <1>2, <1>4
  <2>3. QED
    BY <2>1, <2>2, FlatIn
<1>5. QED
  BY <1>3, <1>4

\* The texts of a sequence that goes on are those of both.
LEMMA TextsOn ==
  ASSUME NEW S, NEW s \in Seq(S), NEW t \in Seq(S)
  PROVE  Mcp!Texts(s \o t) = Mcp!Texts(s) \o Mcp!Texts(t)
<1>1. PICK R : R = {x.text : x \in S}
  OBVIOUS
<1>2. PICK m, n : m = Len(s) /\ n = Len(t)
  OBVIOUS
<1>3. m \in Nat /\ n \in Nat /\ s \in [1..m -> S] /\ t \in [1..n -> S]
  BY <1>2, LenProperties
<1>4. s \o t \in Seq(S) /\ Len(s \o t) = m + n
      /\ \A i \in 1..(m + n) : (s \o t)[i] = IF i <= m THEN s[i] ELSE t[i - m]
  BY <1>2, ConcatProperties
<1>5. Mcp!Texts(s) \in [1..m -> R] /\ Mcp!Texts(t) \in [1..n -> R]
  BY <1>1, <1>3 DEF Mcp!Texts
<1>6. Mcp!Texts(s) \in Seq(R) /\ Mcp!Texts(t) \in Seq(R) /\ Len(Mcp!Texts(s)) = m /\ Len(Mcp!Texts(t)) = n
  BY <1>3, <1>5
<1>7. PICK both : both = Mcp!Texts(s) \o Mcp!Texts(t)
  OBVIOUS
<1>8. both \in Seq(R) /\ Len(both) = m + n
      /\ \A i \in 1..(m + n) : both[i] = IF i <= m THEN Mcp!Texts(s)[i] ELSE Mcp!Texts(t)[i - m]
  BY <1>6, <1>7, ConcatProperties
<1>9. DOMAIN (s \o t) = 1..(m + n)
  BY <1>4, LenProperties
<1>10. ASSUME NEW i \in 1..(m + n) PROVE both[i] = (s \o t)[i].text
  <2>1. CASE i <= m
    <3>1. i \in 1..m
      BY <1>3, <2>1
    <3>2. QED
      BY <1>3, <1>4, <1>8, <2>1, <3>1 DEF Mcp!Texts
  <2>2. CASE ~(i <= m)
    <3>1. i - m \in 1..n
      BY <1>3, <2>2
    <3>2. QED
      BY <1>3, <1>4, <1>8, <2>2, <3>1 DEF Mcp!Texts
  <2>3. QED
    BY <2>1, <2>2
<1>11. both \in [1..(m + n) -> R]
  BY <1>8, LenProperties
<1>12. both = [i \in 1..(m + n) |-> (s \o t)[i].text]
  BY <1>10, <1>11
<1>13. QED
  BY <1>7, <1>9, <1>12 DEF Mcp!Texts

\* The texts of sequences put together are those of each, put together.
LEMMA FlattenTexts ==
  ASSUME NEW S, NEW seqs \in Seq(Seq(S)), NEW texts, texts = [i \in DOMAIN seqs |-> Mcp!Texts(seqs[i])]
  PROVE  Mcp!FlattenSeq(texts) = Mcp!Texts(Mcp!FlattenSeq(seqs))
<1>1. PICK n : n = Len(seqs)
  OBVIOUS
<1>2. n \in Nat /\ DOMAIN seqs = 1..n /\ \A i \in 1..n : seqs[i] \in Seq(S)
  BY <1>1, LenProperties
<1>a. PICK R : R = {Mcp!Texts(seqs[i]) : i \in 1..n}
  OBVIOUS
<1>3. texts \in Seq(R) /\ Len(texts) = n
  <2>1. texts \in [1..n -> R]
    BY <1>2, <1>a
  <2>2. QED
    BY <1>2, <2>1
<1>4. CASE n = 0
  <2>1. seqs = <<>> /\ texts = <<>>
    BY <1>1, <1>3, <1>4, EmptySeq
  <2>2. Mcp!FlattenSeq(seqs) = <<>> /\ Mcp!FlattenSeq(texts) = <<>>
    BY <2>1, EmptySeq DEF Mcp!FlattenSeq
  <2>3. Mcp!Texts(<<>>) = <<>>
    BY DEF Mcp!Texts
  <2>4. QED
    BY <2>2, <2>3
<1>5. CASE n # 0
  <2>1. PICK g : Flat(g, seqs) /\ Mcp!FlattenSeq(seqs) = g[n]
    BY <1>1, <1>2, <1>5, Flattened
  <2>2. PICK h : Flat(h, texts) /\ Mcp!FlattenSeq(texts) = h[n]
    BY <1>2, <1>3, <1>5, Flattened
  <2>3. \A i \in 1..n : g[i] \in Seq(S)
    BY <1>1, <2>1, FlatIn
  <2>4. PICK k : k = [i \in 1..n |-> Mcp!Texts(g[i])]
    OBVIOUS
  <2>5. ASSUME NEW i \in 1..n PROVE k[i] = IF i = 1 THEN texts[i] ELSE k[i - 1] \o texts[i]
    <3>1. CASE i = 1
      BY <1>1, <1>2, <2>1, <2>4, <3>1 DEF Flat
    <3>2. CASE i # 1
      <4>0. i - 1 \in 1..n /\ i \in 1..Len(seqs)
        BY <1>1, <1>2, <3>2
      <4>1. g[i] = g[i - 1] \o seqs[i]
        BY <2>1, <3>2, <4>0, Zenon DEF Flat
      <4>2. k[i] = Mcp!Texts(g[i - 1] \o seqs[i]) /\ k[i - 1] = Mcp!Texts(g[i - 1]) /\ texts[i] = Mcp!Texts(seqs[i])
        BY <1>2, <2>4, <4>0, <4>1
      <4>3. g[i - 1] \in Seq(S) /\ seqs[i] \in Seq(S)
        BY <1>2, <2>3, <4>0
      <4>4. Mcp!Texts(g[i - 1] \o seqs[i]) = Mcp!Texts(g[i - 1]) \o Mcp!Texts(seqs[i])
        BY <4>3, TextsOn
      <4>5. QED
        BY <3>2, <4>2, <4>4
    <3>3. QED
      BY <3>1, <3>2
  <2>6. Flat(k, texts)
    BY <1>3, <2>4, <2>5 DEF Flat
  <2>a. n \in 1..n /\ n \in 1..Len(texts)
    BY <1>2, <1>3, <1>5
  <2>b. \A i \in 1..Len(texts) : h[i] = k[i]
    BY <1>3, <2>2, <2>6, OneFlat
  <2>7. n \in 1..n /\ h[n] = k[n]
    BY <2>a, <2>b
  <2>8. QED
    BY <2>1, <2>2, <2>4, <2>7
<1>6. QED
  BY <1>4, <1>5

-----------------------------------------------------------------------------
\* A command line that is read as it is written: no help, nothing skipped.
Rec(path, flags, args, descending) ==
  [path |-> path, flags |-> flags, args |-> args, help |-> FALSE,
   descending |-> descending, skip |-> FALSE, rest |-> FALSE, bad |-> FALSE]

\* One whose last flag still wants its value.
Halfway(path, flags, args, descending) ==
  [path |-> path, flags |-> flags, args |-> args, help |-> FALSE,
   descending |-> descending, skip |-> TRUE, rest |-> FALSE, bad |-> FALSE]

LEMMA TakeCommand ==
  ASSUME NEW path, NEW tok, tok.is = "word", path # <<>> \/ tok.text # "help",
         \E c \in Tree : c.path = Append(path, tok.text)
  PROVE  Mcp!TakeOne(Rec(path, {}, <<>>, TRUE), tok) = Rec(Append(path, tok.text), {}, <<>>, TRUE)
<1>1. PICK inv : inv = Rec(path, {}, <<>>, TRUE)
  OBVIOUS
<1>2. Mcp!TakeOne(inv, tok) = Mcp!TakeWord(inv, tok)
  BY <1>1 DEF Mcp!TakeOne, Rec
<1>3. Mcp!TakeWord(inv, tok) = [inv EXCEPT !.path = Append(path, tok.text)]
  BY <1>1 DEF Mcp!TakeWord, Rec
<1>4. QED
  BY <1>1, <1>2, <1>3 DEF Rec

LEMMA TakeArgument ==
  ASSUME NEW path, path # <<>>, NEW flags, NEW args, NEW down \in BOOLEAN, NEW tok, tok.is = "word",
         ~\E c \in Tree : c.path = Append(path, tok.text), NEW no \in BOOLEAN, ~no
  PROVE  Mcp!TakeOne(Rec(path, flags, args, down), tok) = Rec(path, flags, Append(args, tok.text), no)
<1>1. PICK inv : inv = Rec(path, flags, args, down)
  OBVIOUS
<1>2. Mcp!TakeOne(inv, tok) = Mcp!TakeWord(inv, tok)
  BY <1>1 DEF Mcp!TakeOne, Rec
<1>3. Mcp!TakeWord(inv, tok) = [inv EXCEPT !.descending = FALSE, !.args = Append(@, tok.text)]
  BY <1>1 DEF Mcp!TakeWord, Rec
<1>4. no = FALSE
  OBVIOUS
<1>5. QED
  BY <1>1, <1>2, <1>3, <1>4 DEF Rec

\* A flag the command knows.
IsOption(path, tok, f) ==
  tok.is = "flag" /\ tok.text \notin {"help", "h"} /\ Mcp!LookupFlag(path, tok.text) = {f}
Wants(tok, f) == f.value /\ ~tok.value

LEMMA TakeOption ==
  ASSUME NEW path, NEW flags, NEW args, NEW down, NEW tok, NEW f, IsOption(path, tok, f),
         NEW more, more = flags \cup {Head(f.names)}
  PROVE  /\ Wants(tok, f) => Mcp!TakeOne(Rec(path, flags, args, down), tok) = Halfway(path, more, args, down)
         /\ ~Wants(tok, f) => Mcp!TakeOne(Rec(path, flags, args, down), tok) = Rec(path, more, args, down)
<1>0. tok.is = "flag" /\ tok.text \notin {"help", "h"} /\ Mcp!LookupFlag(path, tok.text) = {f}
  BY DEF IsOption
<1>1. PICK inv, skip : inv = Rec(path, flags, args, down) /\ skip = Wants(tok, f)
  OBVIOUS
<1>2. Mcp!TakeOne(inv, tok) = Mcp!TakeFlag(inv, tok)
  BY <1>0, <1>1 DEF Mcp!TakeOne, Rec
<1>3. PICK g : g = CHOOSE h \in Mcp!LookupFlag(path, tok.text) : TRUE
  OBVIOUS
<1>4. g = f
  BY <1>0, <1>3
<1>5. Mcp!TakeFlag(inv, tok) = [inv EXCEPT !.flags = @ \cup {Head(f.names)}, !.skip = f.value /\ ~tok.value]
  BY <1>0, <1>1, <1>3, <1>4 DEF Mcp!TakeFlag, Rec
<1>6. Mcp!TakeFlag(inv, tok) = [inv EXCEPT !.flags = @ \cup {Head(f.names)}, !.skip = skip]
  BY <1>1, <1>5, Zenon DEF Wants
<1>7. Mcp!TakeFlag(inv, tok) = [inv EXCEPT !.flags = more, !.skip = skip]
  BY <1>1, <1>6 DEF Rec
<1>8. CASE Wants(tok, f)
  <2>1. PICK out : out = [inv EXCEPT !.flags = more, !.skip = TRUE]
    OBVIOUS
  <2>2. skip = TRUE
    BY <1>1, <1>8, Zenon
  <2>3. out = Halfway(path, more, args, down)
    BY <1>1, <2>1 DEF Rec, Halfway
  <2>4. QED
    BY <1>1, <1>2, <1>7, <1>8, <2>1, <2>2, <2>3
<1>9. CASE ~Wants(tok, f)
  <2>1. PICK out : out = [inv EXCEPT !.flags = more, !.skip = FALSE]
    OBVIOUS
  <2>2. skip = FALSE
    BY <1>1, <1>9
  <2>3. out = Rec(path, more, args, down)
    BY <1>1, <2>1 DEF Rec, Halfway
  <2>4. QED
    BY <1>1, <1>2, <1>7, <1>9, <2>1, <2>2, <2>3
<1>10. QED
  BY <1>8, <1>9

\* The word after a flag that wants one.
LEMMA TakeValue ==
  ASSUME NEW path, NEW flags, NEW args, NEW down, NEW tok
  PROVE  Mcp!TakeOne(Halfway(path, flags, args, down), tok) = Rec(path, flags, args, down)
BY DEF Mcp!TakeOne, Rec, Halfway

-----------------------------------------------------------------------------
\* The command of a tool is found.
LEMMA LeadsCommand ==
  ASSUME NEW tool, Mcp!ToolAgrees(tool)
  PROVE  Leads(Mcp!Start, tool.command, Rec(Mcp!Path(tool), {}, <<>>, TRUE))
<1>1. PICK n, path : n = Len(tool.command) /\ path = Mcp!Path(tool)
  OBVIOUS
<1>2. /\ n \in Nat /\ tool.command \in [1..n -> Mcp!Words] /\ tool.command[1].text # "help"
      /\ \A i \in 1..n : \E c \in Tree : c.path = SubSeq(path, 1, i)
  BY <1>1 DEF Mcp!ToolAgrees
<1>3. path \in [1..n -> STRING] /\ path \in Seq(STRING) /\ Len(path) = n
      /\ \A i \in 1..n : path[i] = tool.command[i].text
  <2>1. path = [i \in 1..n |-> tool.command[i].text]
    BY <1>1, <1>2 DEF Mcp!Path, Mcp!Texts
  <2>2. \A i \in 1..n : tool.command[i].text \in STRING
    BY <1>2 DEF Mcp!Words
  <2>3. path \in [1..n -> STRING]
    BY <2>1, <2>2
  <2>4. QED
    BY <1>2, <2>1, <2>3
<1>4. PICK f : f = [i \in 0..n |-> Rec(SubSeq(path, 1, i), {}, <<>>, TRUE)]
  OBVIOUS
<1>5. f[0] = Mcp!Start
  <2>1. SubSeq(path, 1, 0) = <<>>
    BY SubSeqEmpty
  <2>2. f[0] = Rec(SubSeq(path, 1, 0), {}, <<>>, TRUE)
    BY <1>2, <1>4
  <2>3. QED
    BY <2>1, <2>2 DEF Rec, Mcp!Start
<1>6. f[n] = Rec(path, {}, <<>>, TRUE)
  <2>1. SubSeq(path, 1, n) = path
    BY <1>3, SubSeqFull
  <2>2. f[n] = Rec(SubSeq(path, 1, n), {}, <<>>, TRUE)
    BY <1>2, <1>4
  <2>3. QED
    BY <2>1, <2>2
<1>7. ASSUME NEW i \in 1..n PROVE f[i] = Mcp!TakeOne(f[i - 1], tool.command[i])
  <2>1. SubSeq(path, 1, i) = Append(SubSeq(path, 1, i - 1), path[i])
    BY <1>2, <1>3
  <2>2. tool.command[i].is = "word" /\ tool.command[i].text = path[i]
    BY <1>2, <1>3 DEF Mcp!Words
  <2>3. SubSeq(path, 1, i - 1) # <<>> \/ tool.command[i].text # "help"
    <3>1. CASE i = 1
      BY <1>2, <3>1
    <3>2. CASE i # 1
      <4>1. Len(SubSeq(path, 1, i - 1)) = i - 1
        BY <1>2, <1>3, <3>2
      <4>2. Len(SubSeq(path, 1, i - 1)) # 0
        BY <1>2, <3>2, <4>1
      <4>3. QED
        BY <4>2, EmptySeq
    <3>3. QED
      BY <3>1, <3>2
  <2>4. \E c \in Tree : c.path = Append(SubSeq(path, 1, i - 1), tool.command[i].text)
    BY <1>2, <2>1, <2>2
  <2>5. Mcp!TakeOne(Rec(SubSeq(path, 1, i - 1), {}, <<>>, TRUE), tool.command[i])
          = Rec(SubSeq(path, 1, i), {}, <<>>, TRUE)
    BY <2>1, <2>2, <2>3, <2>4, TakeCommand
  <2>6. f[i] = Rec(SubSeq(path, 1, i), {}, <<>>, TRUE)
        /\ f[i - 1] = Rec(SubSeq(path, 1, i - 1), {}, <<>>, TRUE)
    <3>1. i \in 0..n /\ i - 1 \in 0..n
      BY <1>2
    <3>2. QED
      BY <1>4, <3>1
  <2>7. QED
    BY <2>5, <2>6
<1>8. Chain(f, tool.command)
  BY <1>1, <1>4, <1>7 DEF Chain
<1>9. QED
  BY <1>1, <1>5, <1>6, <1>8 DEF Leads

\* A tool's command is there.
LEMMA ToolCommand ==
  ASSUME NEW tool, Mcp!ToolAgrees(tool)
  PROVE  \E c \in Tree : c.path = Mcp!Path(tool)
<1>1. PICK n, path : n = Len(tool.command) /\ path = Mcp!Path(tool)
  OBVIOUS
<1>2. /\ n \in Nat \ {0} /\ tool.command \in [1..n -> Mcp!Words]
      /\ \A i \in 1..n : \E c \in Tree : c.path = SubSeq(path, 1, i)
  BY <1>1, EmptySeq, LenProperties DEF Mcp!ToolAgrees
<1>3. path \in [1..n -> STRING]
  BY <1>1, <1>2 DEF Mcp!Path, Mcp!Texts, Mcp!Words
<1>4. path \in Seq(STRING) /\ Len(path) = n
  BY <1>2, <1>3
<1>5. SubSeq(path, 1, n) = path
  BY <1>4, SubSeqFull
<1>6. QED
  BY <1>1, <1>2, <1>5

\* A tool's path has no command below it, and is not empty.
LEMMA PathOf ==
  ASSUME NEW tool, Mcp!ToolAgrees(tool), NEW path, path = Mcp!Path(tool)
  PROVE  /\ path \in Seq(STRING) /\ path # <<>>
         /\ \A word \in STRING : ~\E c \in Tree : c.path = Append(path, word)
<1>1. PICK n : n = Len(tool.command)
  OBVIOUS
<1>2. /\ n \in Nat \ {0} /\ tool.command \in [1..n -> Mcp!Words]
      /\ \A c \in Tree : ~Mcp!IsStrictPrefix(path, c.path)
  BY <1>1, EmptySeq, LenProperties DEF Mcp!ToolAgrees
<1>3. path = [i \in 1..n |-> tool.command[i].text] /\ \A i \in 1..n : tool.command[i].text \in STRING
  BY <1>2 DEF Mcp!Path, Mcp!Texts, Mcp!Words
<1>4. path \in [1..n -> STRING]
  BY <1>3
<1>5. path \in Seq(STRING) /\ Len(path) = n
  BY <1>2, <1>4
<1>6. ASSUME NEW word \in STRING, NEW c \in Tree, c.path = Append(path, word) PROVE FALSE
  <2>1. PICK longer : longer = Append(path, word)
    OBVIOUS
  <2>2. /\ Len(longer) = n + 1 /\ longer \in Seq(STRING)
        /\ \A i \in 1..n : longer[i] = path[i]
    BY <1>2, <1>5, <2>1, AppendProperties
  <2>3. SubSeq(longer, 1, n) = path
    <3>1. SubSeq(longer, 1, n) \in Seq(STRING) /\ Len(SubSeq(longer, 1, n)) = n
          /\ \A i \in 1..n : SubSeq(longer, 1, n)[i] = longer[i]
      BY <1>2, <2>2
    <3>2. QED
      BY <1>5, <2>2, <3>1, SeqEqual
  <2>4. Mcp!IsPrefix(path, longer) /\ path # longer
    BY <1>2, <1>5, <2>2, <2>3 DEF Mcp!IsPrefix
  <2>5. QED
    BY <1>2, <1>6, <2>1, <2>4 DEF Mcp!IsStrictPrefix
<1>7. path # <<>>
  BY <1>2, <1>5, EmptySeq
<1>8. QED
  BY <1>5, <1>6, <1>7

\* So are its arguments.
LEMMA LeadsArguments ==
  ASSUME NEW tool, Mcp!ToolAgrees(tool), NEW path, path = Mcp!Path(tool), NEW flags,
         NEW words \in Seq(Mcp!Words), NEW down, down = (words = <<>>)
  PROVE  Leads(Rec(path, flags, <<>>, TRUE), words, Rec(path, flags, Mcp!Texts(words), down))
<1>1. PICK n, texts : n = Len(words) /\ texts = Mcp!Texts(words)
  OBVIOUS
<1>2. n \in Nat /\ words \in [1..n -> Mcp!Words]
  BY <1>1
<1>3. texts \in Seq(STRING) /\ Len(texts) = n /\ \A i \in 1..n : texts[i] = words[i].text
  <2>1. texts = [i \in 1..n |-> words[i].text] /\ \A i \in 1..n : words[i].text \in STRING
    BY <1>1, <1>2 DEF Mcp!Texts, Mcp!Words
  <2>2. texts \in [1..n -> STRING]
    BY <2>1
  <2>3. QED
    BY <1>2, <2>1, <2>2
<1>4. PICK f : f = [i \in 0..n |-> Rec(path, flags, SubSeq(texts, 1, i), i = 0)]
  OBVIOUS
<1>5. f[0] = Rec(path, flags, <<>>, TRUE)
  <2>1. SubSeq(texts, 1, 0) = <<>>
    BY SubSeqEmpty
  <2>2. f[0] = Rec(path, flags, SubSeq(texts, 1, 0), 0 = 0)
    BY <1>2, <1>4
  <2>3. (0 = 0) = TRUE
    OBVIOUS
  <2>4. QED
    BY <2>1, <2>2, <2>3
<1>6. f[n] = Rec(path, flags, texts, down)
  <2>1. SubSeq(texts, 1, n) = texts
    BY <1>3, SubSeqFull
  <2>2. f[n] = Rec(path, flags, SubSeq(texts, 1, n), n = 0)
    BY <1>2, <1>4
  <2>3. n = 0 <=> words = <<>>
    BY <1>1, <1>2, EmptySeq
  <2>4. (n = 0) = (words = <<>>)
    BY <2>3
  <2>5. QED
    BY <2>1, <2>2, <2>4
<1>7. ASSUME NEW i \in 1..n PROVE f[i] = Mcp!TakeOne(f[i - 1], words[i])
  <2>1. SubSeq(texts, 1, i) = Append(SubSeq(texts, 1, i - 1), words[i].text)
    BY <1>2, <1>3
  <2>2. words[i].is = "word" /\ words[i].text \in STRING
    BY <1>2 DEF Mcp!Words
  <2>3. PICK before, no : before = (i - 1 = 0) /\ no = (i = 0)
    OBVIOUS
  <2>4. before \in BOOLEAN /\ no \in BOOLEAN /\ ~no
    <3>1. i # 0
      BY <1>2
    <3>2. QED
      BY <2>3, <3>1, Zenon
  <2>5. Mcp!TakeOne(Rec(path, flags, SubSeq(texts, 1, i - 1), before), words[i])
          = Rec(path, flags, SubSeq(texts, 1, i), no)
    <3>1. path # <<>> /\ ~\E c \in Tree : c.path = Append(path, words[i].text)
      BY <2>2, PathOf
    <3>2. Mcp!TakeOne(Rec(path, flags, SubSeq(texts, 1, i - 1), before), words[i])
            = Rec(path, flags, Append(SubSeq(texts, 1, i - 1), words[i].text), no)
      <4>1. PICK tok, prior : tok = words[i] /\ prior = SubSeq(texts, 1, i - 1)
        OBVIOUS
      <4>2. tok.is = "word" /\ ~\E c \in Tree : c.path = Append(path, tok.text)
        BY <2>2, <3>1, <4>1
      <4>3. Mcp!TakeOne(Rec(path, flags, prior, before), tok) = Rec(path, flags, Append(prior, tok.text), no)
        BY <2>4, <3>1, <4>2, TakeArgument
      <4>4. QED
        BY <4>1, <4>3
    <3>3. QED
      BY <2>1, <3>2
  <2>6. f[i - 1] = Rec(path, flags, SubSeq(texts, 1, i - 1), i - 1 = 0)
        /\ f[i] = Rec(path, flags, SubSeq(texts, 1, i), i = 0)
    BY <1>2, <1>4
  <2>7. QED
    BY <2>3, <2>5, <2>6
<1>8. Chain(f, words)
  BY <1>1, <1>4, <1>7 DEF Chain
<1>9. QED
  BY <1>1, <1>5, <1>6, <1>8 DEF Leads

\* A flag it passes, as the command knows it.
LEMMA PassedFlag ==
  ASSUME NEW tool, Mcp!ToolAgrees(tool), NEW path, path = Mcp!Path(tool), NEW tok \in Mcp!Passed(tool)
  PROVE  /\ tok.is = "flag" /\ tok.text \notin {"help", "h"}
         /\ \E f : Mcp!LookupFlag(path, tok.text) = {f} /\ (f.value => tok.value)
<1>1. tok.is = "flag"
  BY DEF Mcp!Passed, Mcp!Flag, Mcp!FlagWith
<1>2. /\ tok.text \in STRING \ {"help", "h"}
      /\ \E f \in Mcp!LookupFlag(path, tok.text) : Mcp!LookupFlag(path, tok.text) = {f} /\ (f.value => tok.value)
  BY DEF Mcp!ToolAgrees
<1>3. QED
  BY <1>1, <1>2

\* One more flag.
LEMMA OneMoreKnown ==
  ASSUME NEW path, NEW toks, NEW tok, NEW f, Mcp!LookupFlag(path, tok.text) = {f}
  PROVE  Mcp!KnownAs(path, toks \cup {tok}) = Mcp!KnownAs(path, toks) \cup {Head(f.names)}
<1>1. PICK all : all = UNION {Mcp!LookupFlag(path, t.text) : t \in toks}
  OBVIOUS
<1>2. UNION {Mcp!LookupFlag(path, t.text) : t \in toks \cup {tok}} = all \cup {f}
  BY <1>1
<1>3. QED
  BY <1>1, <1>2 DEF Mcp!KnownAs

FirstOf(toks, n) == {toks[j] : j \in 1..n}

LEMMA LeadsFlags ==
  ASSUME NEW tool, Mcp!ToolAgrees(tool), NEW path, path = Mcp!Path(tool), NEW flags, NEW args, NEW down,
         NEW toks \in Seq(Mcp!Passed(tool))
  PROVE  Leads(Rec(path, flags, args, down), toks,
               Rec(path, flags \cup Mcp!KnownAs(path, FirstOf(toks, Len(toks))), args, down))
<1>1. PICK n : n = Len(toks)
  OBVIOUS
<1>2. n \in Nat /\ \A i \in 1..n : toks[i] \in Mcp!Passed(tool)
  BY <1>1
<1>3. PICK f : f = [i \in 0..n |-> Rec(path, flags \cup Mcp!KnownAs(path, FirstOf(toks, i)), args, down)]
  OBVIOUS
<1>4. f[0] = Rec(path, flags, args, down)
  <2>1. FirstOf(toks, 0) = {}
    BY DEF FirstOf
  <2>2. Mcp!KnownAs(path, {}) = {}
    BY DEF Mcp!KnownAs
  <2>3. flags \cup Mcp!KnownAs(path, FirstOf(toks, 0)) = flags
    BY <2>1, <2>2
  <2>4. f[0] = Rec(path, flags \cup Mcp!KnownAs(path, FirstOf(toks, 0)), args, down)
    BY <1>2, <1>3
  <2>5. QED
    BY <2>3, <2>4
<1>5. f[n] = Rec(path, flags \cup Mcp!KnownAs(path, FirstOf(toks, n)), args, down)
  BY <1>2, <1>3
<1>6. ASSUME NEW i \in 1..n PROVE f[i] = Mcp!TakeOne(f[i - 1], toks[i])
  <2>1. PICK tok, prior : tok = toks[i] /\ prior = FirstOf(toks, i - 1)
    OBVIOUS
  <2>2. tok \in Mcp!Passed(tool)
    BY <1>2, <2>1
  <2>3. tok.is = "flag" /\ tok.text \notin {"help", "h"}
    BY <2>2, PassedFlag
  <2>4. PICK g : Mcp!LookupFlag(path, tok.text) = {g} /\ (g.value => tok.value)
    BY <2>2, PassedFlag
  <2>5. FirstOf(toks, i) = prior \cup {tok}
    BY <1>2, <2>1 DEF FirstOf
  <2>6. IsOption(path, tok, g)
    BY <2>3, <2>4 DEF IsOption
  <2>7. ~Wants(tok, g)
    BY <2>4 DEF Wants
  <2>8. PICK sofar : sofar = flags \cup Mcp!KnownAs(path, prior)
    OBVIOUS
  <2>9. Mcp!TakeOne(Rec(path, sofar, args, down), tok) = Rec(path, sofar \cup {Head(g.names)}, args, down)
    BY <2>6, <2>7, TakeOption
  <2>10. sofar \cup {Head(g.names)} = flags \cup Mcp!KnownAs(path, FirstOf(toks, i))
    <3>1. Mcp!KnownAs(path, prior \cup {tok}) = Mcp!KnownAs(path, prior) \cup {Head(g.names)}
      BY <2>4, OneMoreKnown
    <3>2. QED
      BY <2>5, <2>8, <3>1
  <2>11. i \in 0..n /\ i - 1 \in 0..n
    BY <1>2
  <2>12. f[i] = Rec(path, flags \cup Mcp!KnownAs(path, FirstOf(toks, i)), args, down)
         /\ f[i - 1] = Rec(path, flags \cup Mcp!KnownAs(path, FirstOf(toks, i - 1)), args, down)
    BY <1>3, <2>11
  <2>13. QED
    BY <2>1, <2>8, <2>9, <2>10, <2>12
<1>7. Chain(f, toks)
  BY <1>1, <1>3, <1>6 DEF Chain
<1>8. QED
  BY <1>1, <1>4, <1>5, <1>7 DEF Leads

\* What a tool has of its own, a flag and its value, or nothing.
FixedFlag(tool) == IF tool.fixed = <<>> THEN {} ELSE {tool.fixed[1]}

LEMMA LeadsFixed ==
  ASSUME NEW tool, Mcp!ToolAgrees(tool), NEW path, path = Mcp!Path(tool), NEW args, NEW down
  PROVE  /\ tool.fixed \in Seq(Mcp!Tokens)
         /\ Leads(Rec(path, {}, args, down), tool.fixed,
                  Rec(path, Mcp!KnownAs(path, FixedFlag(tool)), args, down))
<1>1. CASE tool.fixed = <<>>
  <2>1. PICK f : f = [i \in 0..0 |-> Rec(path, {}, args, down)]
    OBVIOUS
  <2>2. Mcp!KnownAs(path, FixedFlag(tool)) = {}
    BY <1>1 DEF FixedFlag, Mcp!KnownAs
  <2>3. Len(tool.fixed) = 0
    BY <1>1, EmptySeq
  <2>4. Chain(f, tool.fixed) /\ f[0] = Rec(path, {}, args, down)
    BY <2>1, <2>3 DEF Chain
  <2>5. tool.fixed \in Seq(Mcp!Tokens)
    BY <1>1, EmptySeq
  <2>6. QED
    BY <2>2, <2>3, <2>4, <2>5 DEF Leads
<1>2. CASE tool.fixed # <<>>
  <2>1. PICK tok : tok = tool.fixed[1]
    OBVIOUS
  <2>2. /\ tool.fixed \in Seq(Mcp!Tokens) /\ Len(tool.fixed) = 2
        /\ tok.is = "flag" /\ tok.text \notin {"help", "h"} /\ ~tok.value
    BY <1>2, <2>1 DEF Mcp!ToolAgrees
  <2>3. PICK g : Mcp!LookupFlag(path, tok.text) = {g} /\ g.value
    BY <1>2, <2>1 DEF Mcp!ToolAgrees
  <2>4. IsOption(path, tok, g)
    BY <2>2, <2>3 DEF IsOption
  <2>5. Wants(tok, g)
    BY <2>2, <2>3 DEF Wants
  <2>6. PICK sofar : sofar = Mcp!KnownAs(path, FixedFlag(tool))
    OBVIOUS
  <2>7. {} \cup {Head(g.names)} = sofar
    <3>1. Mcp!KnownAs(path, {}) = {}
      BY DEF Mcp!KnownAs
    <3>2. Mcp!KnownAs(path, {} \cup {tok}) = Mcp!KnownAs(path, {}) \cup {Head(g.names)}
      BY <2>3, OneMoreKnown
    <3>3. FixedFlag(tool) = {} \cup {tok}
      BY <1>2, <2>1 DEF FixedFlag
    <3>4. QED
      BY <2>6, <3>1, <3>2, <3>3
  <2>8. Mcp!TakeOne(Rec(path, {}, args, down), tok) = Halfway(path, {} \cup {Head(g.names)}, args, down)
    BY <2>4, <2>5, TakeOption
  <2>9. Mcp!TakeOne(Halfway(path, sofar, args, down), tool.fixed[2]) = Rec(path, sofar, args, down)
    BY TakeValue
  <2>10. PICK f : f = [i \in 0..2 |-> IF i = 0 THEN Rec(path, {}, args, down)
                                      ELSE IF i = 1 THEN Halfway(path, sofar, args, down)
                                      ELSE Rec(path, sofar, args, down)]
    OBVIOUS
  <2>11. /\ f[0] = Rec(path, {}, args, down) /\ f[1] = Halfway(path, sofar, args, down)
         /\ f[2] = Rec(path, sofar, args, down) /\ DOMAIN f = 0..2
    BY <2>10
  <2>12. f[1] = Mcp!TakeOne(f[0], tool.fixed[1]) /\ f[2] = Mcp!TakeOne(f[1], tool.fixed[2])
    BY <2>1, <2>7, <2>8, <2>9, <2>11
  <2>13. \A i \in 1..2 : f[i] = Mcp!TakeOne(f[i - 1], tool.fixed[i])
    <3>1. SUFFICES ASSUME NEW i \in 1..2 PROVE f[i] = Mcp!TakeOne(f[i - 1], tool.fixed[i])
      OBVIOUS
    <3>2. (i = 1 /\ i - 1 = 0) \/ (i = 2 /\ i - 1 = 1)
      OBVIOUS
    <3>3. QED
      BY <2>12, <3>2
  <2>14. Chain(f, tool.fixed)
    BY <2>2, <2>11, <2>13 DEF Chain
  <2>15. QED
    BY <2>2, <2>6, <2>11, <2>14 DEF Leads
<1>3. QED
  BY <1>1, <1>2

-----------------------------------------------------------------------------
\* The values of a parameter are tokens, those of an argument words.
LEMMA ValuesType ==
  ASSUME NEW tool, Mcp!ToolAgrees(tool), NEW gave, \A k \in DOMAIN gave : gave[k].items \in Seq(Mcp!Tokens),
         NEW i \in DOMAIN tool.params
  PROVE  Mcp!Values(tool.params[i], gave) \in Seq(Mcp!Tokens)
<1>1. tool.params[i] \in Mcp!Range(tool.params)
  BY DEF Mcp!Range
<1>2. tool.params[i].default \in Seq(Mcp!Tokens)
  BY <1>1 DEF Mcp!ToolAgrees
<1>3. QED
  BY <1>2 DEF Mcp!Values

LEMMA WordsOnly ==
  ASSUME NEW s \in Seq(Mcp!Tokens), \A v \in Mcp!Range(s) : v.is = "word"
  PROVE  s \in Seq(Mcp!Words)
<1>1. PICK n : n = Len(s)
  OBVIOUS
<1>2. n \in Nat /\ s \in [1..n -> Mcp!Tokens] /\ DOMAIN s = 1..n
  BY <1>1, LenProperties
<1>3. ASSUME NEW j \in 1..n PROVE s[j] \in Mcp!Words
  <2>1. s[j] \in Mcp!Tokens /\ s[j].is = "word"
    BY <1>2 DEF Mcp!Range
  <2>2. QED
    BY <2>1 DEF Mcp!Tokens, Mcp!Words
<1>4. s \in [1..n -> Mcp!Words]
  BY <1>2, <1>3
<1>5. QED
  BY <1>2, <1>4

LEMMA ArgumentsType ==
  ASSUME NEW tool, Mcp!ToolAgrees(tool), NEW gave, \A k \in DOMAIN gave : gave[k].items \in Seq(Mcp!Tokens),
         ~Mcp!Invalid(tool, gave),
         NEW parts, parts = [i \in DOMAIN tool.params |->
           IF tool.params[i].flag = Mcp!NoTool THEN Mcp!Values(tool.params[i], gave) ELSE <<>>]
  PROVE  parts \in Seq(Seq(Mcp!Words)) /\ Mcp!Arguments(tool, gave) = Mcp!FlattenSeq(parts)
<1>1. PICK n : n = Len(tool.params)
  OBVIOUS
<1>2. n \in Nat /\ DOMAIN tool.params = 1..n
  BY <1>1, LenProperties DEF Mcp!ToolAgrees
<1>3. ASSUME NEW i \in 1..n PROVE parts[i] \in Seq(Mcp!Words)
  <2>1. CASE tool.params[i].flag = Mcp!NoTool
    <3>1. PICK s : s = Mcp!Values(tool.params[i], gave)
      OBVIOUS
    <3>2. s \in Seq(Mcp!Tokens)
      BY <1>2, <3>1, ValuesType
    <3>3. ~Mcp!Dashed(tool.params[i], gave)
      BY <1>2 DEF Mcp!Invalid
    <3>4. \A v \in Mcp!Range(s) : v.is = "word"
      BY <2>1, <3>1, <3>3 DEF Mcp!Dashed
    <3>5. parts[i] = s
      BY <1>2, <2>1, <3>1
    <3>6. QED
      BY <3>2, <3>4, <3>5, WordsOnly
  <2>2. CASE tool.params[i].flag # Mcp!NoTool
    <3>1. parts[i] = <<>>
      BY <1>2, <2>2
    <3>2. QED
      BY <3>1, EmptySeq
  <2>3. QED
    BY <2>1, <2>2
<1>4. parts \in [1..n -> Seq(Mcp!Words)]
  BY <1>2, <1>3
<1>5. QED
  BY <1>2, <1>4 DEF Mcp!Arguments

\* A tool passes the flags it may pass.
LEMMA FlagsType ==
  ASSUME NEW tool, Mcp!ToolAgrees(tool), NEW gave, \A k \in DOMAIN gave : gave[k].items \in Seq(Mcp!Tokens)
  PROVE  Mcp!Flags(tool, gave) \in Seq(Mcp!Passed(tool))
<1>1. PICK n : n = Len(tool.params)
  OBVIOUS
<1>2. n \in Nat /\ DOMAIN tool.params = 1..n
  BY <1>1, LenProperties DEF Mcp!ToolAgrees
<1>3. PICK parts : parts = [i \in DOMAIN tool.params |->
          IF tool.params[i].flag = Mcp!NoTool THEN <<>>
          ELSE [v \in DOMAIN Mcp!Values(tool.params[i], gave) |->
                 IF tool.params[i].kind = "boolean" THEN Mcp!Flag(tool.params[i].flag)
                 ELSE Mcp!FlagWith(tool.params[i].flag)]]
  OBVIOUS
<1>4. ASSUME NEW i \in 1..n PROVE parts[i] \in Seq(Mcp!Passed(tool))
  <2>1. CASE tool.params[i].flag = Mcp!NoTool
    <3>1. parts[i] = <<>>
      BY <1>2, <1>3, <2>1
    <3>2. QED
      BY <3>1, EmptySeq
  <2>2. CASE tool.params[i].flag # Mcp!NoTool
    <3>1. PICK p, m, tok : /\ p = tool.params[i] /\ m = Len(Mcp!Values(p, gave))
                           /\ tok = IF p.kind = "boolean" THEN Mcp!Flag(p.flag) ELSE Mcp!FlagWith(p.flag)
      OBVIOUS
    <3>2. m \in Nat /\ DOMAIN Mcp!Values(p, gave) = 1..m
      BY <1>2, <3>1, ValuesType, LenProperties
    <3>3. tok \in Mcp!Passed(tool)
      <4>1. p \in Mcp!Range(tool.params) /\ p.flag # Mcp!NoTool
        BY <1>2, <2>2, <3>1 DEF Mcp!Range
      <4>2. QED
        BY <3>1, <4>1 DEF Mcp!Passed
    <3>4. parts[i] = [v \in 1..m |-> tok]
      BY <1>2, <1>3, <2>2, <3>1, <3>2
    <3>5. parts[i] \in [1..m -> Mcp!Passed(tool)]
      BY <3>3, <3>4
    <3>6. QED
      BY <3>2, <3>5
  <2>3. QED
    BY <2>1, <2>2
<1>5. parts \in [1..n -> Seq(Mcp!Passed(tool))]
  BY <1>2, <1>3, <1>4
<1>6. parts \in Seq(Seq(Mcp!Passed(tool)))
  BY <1>2, <1>5
<1>7. Mcp!Flags(tool, gave) = Mcp!FlattenSeq(parts)
  BY <1>3 DEF Mcp!Flags
<1>8. QED
  BY <1>6, <1>7, FlattenIn

LEMMA PassedTokens ==
  ASSUME NEW tool, Mcp!ToolAgrees(tool)
  PROVE  Mcp!Passed(tool) \subseteq Mcp!Tokens
<1>1. SUFFICES ASSUME NEW tok \in Mcp!Passed(tool) PROVE tok \in Mcp!Tokens
  OBVIOUS
<1>2. tok.text \in STRING
  BY DEF Mcp!ToolAgrees
<1>3. PICK name : tok = Mcp!Flag(name) \/ tok = Mcp!FlagWith(name)
  BY DEF Mcp!Passed
<1>4. name \in STRING
  BY <1>2, <1>3 DEF Mcp!Flag, Mcp!FlagWith
<1>5. Mcp!Flag(name) \in Mcp!Tokens
  BY <1>4 DEF Mcp!Flag, Mcp!Tokens
<1>6. Mcp!FlagWith(name) \in Mcp!Tokens
  BY <1>4 DEF Mcp!FlagWith, Mcp!Tokens
<1>7. QED
  BY <1>3, <1>5, <1>6

\* The --yes of a tool that has one.
YesOf(tool) == IF Mcp!NeedsYes(tool) THEN <<Mcp!Flag("yes")>> ELSE <<>>

LEMMA YesType ==
  ASSUME NEW tool
  PROVE  YesOf(tool) \in Seq(Mcp!Passed(tool))
<1>1. CASE Mcp!NeedsYes(tool)
  <2>1. Mcp!Flag("yes") \in Mcp!Passed(tool)
    BY <1>1 DEF Mcp!Passed
  <2>2. QED
    BY <1>1, <2>1 DEF YesOf
<1>2. CASE ~Mcp!NeedsYes(tool)
  BY <1>2, EmptySeq DEF YesOf
<1>3. QED
  BY <1>1, <1>2

\* What the line of a tool is read as: its command with what it was given, and
\* no flag but those it may pass.
ReadsBack(tool, gave, inv) ==
  /\ \E flags, down :
       /\ inv = Rec(Mcp!Path(tool), flags, Mcp!Texts(Mcp!Arguments(tool, gave)), down)
       /\ flags \subseteq Mcp!Filled(tool).flags
       /\ Mcp!NeedsYes(tool) => "yes" \in flags
  /\ Mcp!Argv(tool, gave) # <<>>

LEMMA ArgvReadsBack ==
  ASSUME NEW tool, Mcp!ToolAgrees(tool), NEW gave, \A k \in DOMAIN gave : gave[k].items \in Seq(Mcp!Tokens),
         Mcp!Arguments(tool, gave) \in Seq(Mcp!Words)
  PROVE  ReadsBack(tool, gave, Mcp!Resolve(Mcp!Argv(tool, gave)))
<1>1. PICK path, command, fixed, args, flags, yes :
        /\ path = Mcp!Path(tool) /\ command = tool.command /\ fixed = tool.fixed
        /\ args = Mcp!Arguments(tool, gave) /\ flags = Mcp!Flags(tool, gave) /\ yes = YesOf(tool)
  OBVIOUS
<1>2. /\ command \in Seq(Mcp!Tokens) /\ fixed \in Seq(Mcp!Tokens) /\ args \in Seq(Mcp!Tokens)
      /\ flags \in Seq(Mcp!Tokens) /\ yes \in Seq(Mcp!Tokens) /\ command # <<>>
      /\ args \in Seq(Mcp!Words) /\ flags \in Seq(Mcp!Passed(tool)) /\ yes \in Seq(Mcp!Passed(tool))
  <2>1. command \in Seq(Mcp!Words) /\ args \in Seq(Mcp!Words) /\ command # <<>>
    BY <1>1 DEF Mcp!ToolAgrees
  <2>2. flags \in Seq(Mcp!Passed(tool)) /\ yes \in Seq(Mcp!Passed(tool))
    BY <1>1, FlagsType, YesType
  <2>3. Mcp!Words \subseteq Mcp!Tokens
    BY DEF Mcp!Words, Mcp!Tokens
  <2>4. fixed \in Seq(Mcp!Tokens)
    BY <1>1, LeadsFixed
  <2>5. command \in Seq(Mcp!Tokens) /\ args \in Seq(Mcp!Tokens)
    BY <2>1, <2>3, SeqMonotonic
  <2>6. flags \in Seq(Mcp!Tokens) /\ yes \in Seq(Mcp!Tokens)
    BY <2>2, PassedTokens, SeqMonotonic
  <2>7. QED
    BY <2>1, <2>2, <2>4, <2>5, <2>6
<1>3. PICK top, down, words, own, more, all :
        /\ top = TRUE /\ down = (args = <<>>) /\ words = Mcp!Texts(args)
        /\ own = Mcp!KnownAs(path, FixedFlag(tool))
        /\ more = own \cup Mcp!KnownAs(path, FirstOf(flags, Len(flags)))
        /\ all = more \cup Mcp!KnownAs(path, FirstOf(yes, Len(yes)))
  OBVIOUS
<1>4. Leads(Mcp!Start, command, Rec(path, {}, <<>>, top))
  BY <1>1, <1>3, LeadsCommand
<1>5. Leads(Rec(path, {}, <<>>, top), fixed, Rec(path, own, <<>>, top))
  BY <1>1, <1>3, LeadsFixed
<1>6. Leads(Rec(path, own, <<>>, top), args, Rec(path, own, words, down))
  BY <1>1, <1>2, <1>3, LeadsArguments
<1>7. Leads(Rec(path, own, words, down), flags, Rec(path, more, words, down))
  BY <1>1, <1>2, <1>3, LeadsFlags
<1>8. Leads(Rec(path, more, words, down), yes, Rec(path, all, words, down))
  BY <1>1, <1>2, <1>3, LeadsFlags
<1>9. PICK two, three, four, five :
        two = command \o fixed /\ three = two \o args /\ four = three \o flags /\ five = four \o yes
  OBVIOUS
<1>10. /\ two \in Seq(Mcp!Tokens) /\ three \in Seq(Mcp!Tokens)
       /\ four \in Seq(Mcp!Tokens) /\ five \in Seq(Mcp!Tokens)
  BY <1>2, <1>9, ConcatProperties
<1>11. Leads(Mcp!Start, two, Rec(path, own, <<>>, top))
  BY <1>2, <1>4, <1>5, <1>9, LeadsOn
<1>12. Leads(Mcp!Start, three, Rec(path, own, words, down))
  BY <1>2, <1>6, <1>9, <1>10, <1>11, LeadsOn
<1>13. Leads(Mcp!Start, four, Rec(path, more, words, down))
  BY <1>2, <1>7, <1>9, <1>10, <1>12, LeadsOn
<1>14. Leads(Mcp!Start, five, Rec(path, all, words, down))
  BY <1>2, <1>8, <1>9, <1>10, <1>13, LeadsOn
<1>15. Mcp!Argv(tool, gave) = five
  BY <1>1, <1>9 DEF Mcp!Argv, YesOf
<1>16. Mcp!Resolve(five) = Rec(path, all, words, down)
  BY <1>10, <1>14, ChainResolves DEF Leads
<1>17. five # <<>>
  <2>1. two # <<>>
    BY <1>2, <1>9, ConcatEqualIffEmpty
  <2>2. three # <<>>
    BY <1>2, <1>9, <1>10, <2>1, ConcatEqualIffEmpty
  <2>3. four # <<>>
    BY <1>2, <1>9, <1>10, <2>2, ConcatEqualIffEmpty
  <2>4. QED
    BY <1>2, <1>9, <1>10, <2>3, ConcatEqualIffEmpty
<1>18. all \subseteq Mcp!Filled(tool).flags
  <2>1. FirstOf(flags, Len(flags)) \subseteq Mcp!Passed(tool) /\ FirstOf(yes, Len(yes)) \subseteq Mcp!Passed(tool)
    BY <1>2 DEF FirstOf
  <2>2. PICK every : every = Mcp!Passed(tool) \cup FixedFlag(tool)
    OBVIOUS
  <2>3. Mcp!Filled(tool).flags = Mcp!KnownAs(path, every)
    BY <1>1, <2>2 DEF Mcp!Filled, FixedFlag, Mcp!Start
  <2>4. ASSUME NEW some, some \subseteq every PROVE Mcp!KnownAs(path, some) \subseteq Mcp!KnownAs(path, every)
    BY <2>4 DEF Mcp!KnownAs
  <2>5. QED
    BY <1>3, <2>1, <2>2, <2>3, <2>4
<1>19. Mcp!NeedsYes(tool) => "yes" \in all
  <2>1. SUFFICES ASSUME Mcp!NeedsYes(tool) PROVE "yes" \in all
    OBVIOUS
  <2>2. yes = <<Mcp!Flag("yes")>> /\ Len(yes) = 1
    BY <1>1, <2>1 DEF YesOf
  <2>3. FirstOf(yes, 1) = {Mcp!Flag("yes")}
    BY <2>2 DEF FirstOf
  <2>4. "yes" \in Mcp!KnownAs(path, {Mcp!Flag("yes")})
    BY <1>1, <2>1 DEF Mcp!ToolAgrees
  <2>5. QED
    BY <1>3, <2>2, <2>3, <2>4
<1>20. QED
  BY <1>1, <1>3, <1>15, <1>16, <1>17, <1>18, <1>19 DEF ReadsBack

-----------------------------------------------------------------------------
(* The policy.                                                             *)

LEMMA TheCommand ==
  ASSUME NEW path, \E c \in Tree : c.path = path
  PROVE  Mcp!CommandAt(path) \in Tree /\ Mcp!CommandAt(path).path = path
BY DEF Mcp!CommandAt

\* What a command may do, by its class.
Allowed(inv) ==
  /\ "write" \in Mcp!Does(inv) => Mcp!AllowsWrites
  /\ "secret" \in Mcp!Does(inv) => Mcp!AllowsSecrets \/ "secret" \in Mcp!Shown(inv.path)
  /\ Mcp!Does(inv) \subseteq {"write", "secret"}

LEMMA WritesAllowSecrets == Mcp!AllowsWrites => Mcp!AllowsSecrets
BY DEF Mcp!AllowsWrites, Mcp!AllowsSecrets

LEMMA ClassesOf ==
  ASSUME NEW path
  PROVE  Mcp!ClassOf(path) \in {"read", "secret", "blocked", "write"}
BY DEF Mcp!ClassOf

\* What a command and its flags do is what its class allows.
LEMMA DoesItsClass ==
  ASSUME NEW inv, \E c \in Tree : c.path = inv.path, ~Mcp!OnlyHelp(inv), Mcp!Classify(inv) # "blocked"
  PROVE  Mcp!Does(inv) \subseteq Mcp!MayDo(Mcp!Classify(inv)) \cup Mcp!Shown(inv.path)
<1>1. inv.flags \cap Mcp!BlockedFlags(inv.path) = {}
  BY DEF Mcp!Classify
<1>2. CASE inv.path = <<"api">>
  <2>1. CASE inv.args # <<>> /\ Head(inv.args) \in {"GET", "OPTIONS"}
    <3>1. Mcp!Classify(inv) = "secret" /\ Mcp!Does(inv) = {"secret"}
      BY <1>1, <1>2, <2>1 DEF Mcp!Classify, Mcp!Does
    <3>2. QED
      BY <3>1 DEF Mcp!MayDo
  <2>2. CASE ~(inv.args # <<>> /\ Head(inv.args) \in {"GET", "OPTIONS"})
    <3>1. Mcp!Classify(inv) = "write" /\ Mcp!Does(inv) = {"write"}
      BY <1>1, <1>2, <2>2 DEF Mcp!Classify, Mcp!Does
    <3>2. QED
      BY <3>1 DEF Mcp!MayDo
  <2>3. QED
    BY <2>1, <2>2
<1>3. CASE inv.path # <<"api">>
  <2>1. PICK c : c = Mcp!CommandAt(inv.path)
    OBVIOUS
  <2>2. c \in Tree /\ c.path = inv.path
    BY <2>1, TheCommand
  <2>3. /\ c.does \subseteq Mcp!MayDo(Mcp!ClassOf(inv.path)) \cup Mcp!Shown(inv.path)
        /\ \A f \in c.flags : f.does \subseteq Mcp!FlagMayDo(inv.path, Head(f.names))
    BY <1>3, <2>2, McpAssumption DEF Mcp!PolicyAgrees
  <2>4. Mcp!Does(inv) = c.does \cup UNION {f.does : f \in {g \in c.flags : Head(g.names) \in inv.flags}}
    BY <1>3, <2>1 DEF Mcp!Does
  <2>5. PICK class, mine : class = Mcp!Classify(inv) /\ mine = Mcp!ClassOf(inv.path)
    OBVIOUS
  <2>6. mine \in {"read", "secret", "blocked", "write"}
    BY <2>5, ClassesOf
  <2>7. CASE inv.path = <<"get", "env">> /\ "show-secrets" \in inv.flags
    <3>1. class = "secret"
      BY <1>1, <1>3, <2>5, <2>7 DEF Mcp!Classify
    <3>2. mine = "read"
      BY <2>5, <2>7 DEF Mcp!ClassOf, Mcp!ReadCommands, Mcp!SecretCommands, Mcp!BlockedCommands
    <3>3. \A f \in c.flags : Head(f.names) \in inv.flags => f.does \subseteq Mcp!MayDo("secret")
      BY <1>1, <2>3, <2>5, <2>7, <3>2 DEF Mcp!FlagMayDo, Mcp!MayDo
    <3>4. c.does \subseteq Mcp!MayDo("secret") \cup Mcp!Shown(inv.path)
      BY <2>3, <2>5, <3>2 DEF Mcp!MayDo
    <3>5. QED
      BY <2>4, <2>5, <3>1, <3>3, <3>4
  <2>8. CASE inv.path = <<"get", "orphans">> /\ "kubectl" \in inv.flags
    <3>1. class = "write"
      BY <1>1, <1>3, <2>5, <2>8 DEF Mcp!Classify
    <3>2. mine = "read"
      BY <2>5, <2>8 DEF Mcp!ClassOf, Mcp!ReadCommands, Mcp!SecretCommands, Mcp!BlockedCommands
    <3>3. \A f \in c.flags : Head(f.names) \in inv.flags => f.does \subseteq Mcp!MayDo("write")
      BY <1>1, <2>3, <2>5, <2>8, <3>2 DEF Mcp!FlagMayDo, Mcp!MayDo
    <3>4. c.does \subseteq Mcp!MayDo("write") \cup Mcp!Shown(inv.path)
      BY <2>3, <2>5, <3>2 DEF Mcp!MayDo
    <3>5. QED
      BY <2>4, <2>5, <3>1, <3>3, <3>4
  <2>9. CASE ~(inv.path = <<"get", "env">> /\ "show-secrets" \in inv.flags)
             /\ ~(inv.path = <<"get", "orphans">> /\ "kubectl" \in inv.flags)
    <3>1. class = mine
      BY <1>1, <1>3, <2>5, <2>9 DEF Mcp!Classify
    <3>2. \A f \in c.flags : Head(f.names) \in inv.flags => f.does \subseteq Mcp!MayDo(mine)
      BY <1>1, <2>3, <2>5, <2>9 DEF Mcp!FlagMayDo
    <3>3. QED
      BY <2>3, <2>4, <2>5, <3>1, <3>2
  <2>10. QED
    BY <2>7, <2>8, <2>9
<1>4. QED
  BY <1>2, <1>3

LEMMA PolicyHolds ==
  ASSUME NEW tokens, NEW inv, \E c \in Tree : c.path = inv.path, Mcp!MayRun(tokens, inv)
  PROVE  Allowed(inv)
<1>1. CASE Mcp!OnlyHelp(inv)
  <2>1. Mcp!Does(inv) = {}
    BY <1>1 DEF Mcp!Does
  <2>2. QED
    BY <2>1 DEF Allowed
<1>2. CASE ~Mcp!OnlyHelp(inv)
  <2>1. \/ Mcp!Classify(inv) = "read"
        \/ Mcp!Classify(inv) = "secret" /\ Mcp!AllowsSecrets
        \/ Mcp!Classify(inv) = "write" /\ Mcp!AllowsWrites
    BY DEF Mcp!MayRun
  <2>2. Mcp!Does(inv) \subseteq Mcp!MayDo(Mcp!Classify(inv)) \cup Mcp!Shown(inv.path)
    BY <1>2, <2>1, DoesItsClass
  <2>3. Mcp!Shown(inv.path) \subseteq {"secret"}
    BY DEF Mcp!Shown
  <2>4. QED
    BY <2>1, <2>2, <2>3, WritesAllowSecrets DEF Mcp!MayDo, Allowed
<1>3. QED
  BY <1>1, <1>2

-----------------------------------------------------------------------------
\* Whatever the line, a command of the tree is found.
Reached(inv) == DOMAIN inv = DOMAIN Mcp!Start /\ \E c \in Tree : c.path = inv.path

LEMMA TakeReaches ==
  ASSUME NEW inv, Reached(inv), NEW tok \in Mcp!Tokens
  PROVE  Reached(Mcp!TakeOne(inv, tok))
<1>1. ASSUME NEW out, DOMAIN out = DOMAIN inv, out.path = inv.path PROVE Reached(out)
  BY <1>1 DEF Reached
<1>2. Reached(Mcp!TakeFlag(inv, tok))
  <2>1. DOMAIN Mcp!TakeFlag(inv, tok) = DOMAIN inv
    BY DEF Mcp!TakeFlag
  <2>2. Mcp!TakeFlag(inv, tok).path = inv.path
    BY DEF Mcp!TakeFlag, Reached, Mcp!Start
  <2>3. QED
    BY <1>1, <2>1, <2>2
<1>3. Reached(Mcp!TakeWord(inv, tok))
  <2>1. PICK sub : sub = Append(inv.path, tok.text)
    OBVIOUS
  <2>2. CASE \E c \in Tree : c.path = sub
    <3>1. DOMAIN Mcp!TakeWord(inv, tok) = DOMAIN inv
      BY DEF Mcp!TakeWord
    <3>2. Mcp!TakeWord(inv, tok).path = inv.path \/ Mcp!TakeWord(inv, tok).path = sub
      BY <2>1 DEF Mcp!TakeWord, Reached, Mcp!Start
    <3>3. QED
      BY <2>2, <3>1, <3>2 DEF Reached
  <2>3. CASE ~\E c \in Tree : c.path = sub
    <3>1. DOMAIN Mcp!TakeWord(inv, tok) = DOMAIN inv
      BY DEF Mcp!TakeWord
    <3>2. Mcp!TakeWord(inv, tok).path = inv.path
      BY <2>1, <2>3 DEF Mcp!TakeWord, Reached, Mcp!Start
    <3>3. QED
      BY <1>1, <3>1, <3>2
  <2>4. QED
    BY <2>2, <2>3
<1>4. /\ Reached([inv EXCEPT !.skip = FALSE]) /\ Reached([inv EXCEPT !.args = Append(@, tok.text)])
      /\ Reached([inv EXCEPT !.bad = TRUE]) /\ Reached([inv EXCEPT !.rest = TRUE])
  <2>1. PICK a, b, c, d : /\ a = [inv EXCEPT !.skip = FALSE] /\ b = [inv EXCEPT !.args = Append(@, tok.text)]
                          /\ c = [inv EXCEPT !.bad = TRUE] /\ d = [inv EXCEPT !.rest = TRUE]
    OBVIOUS
  <2>2. /\ DOMAIN a = DOMAIN inv /\ DOMAIN b = DOMAIN inv /\ DOMAIN c = DOMAIN inv /\ DOMAIN d = DOMAIN inv
        /\ a.path = inv.path /\ b.path = inv.path /\ c.path = inv.path /\ d.path = inv.path
    BY <2>1 DEF Reached, Mcp!Start
  <2>3. Reached(a) /\ Reached(b) /\ Reached(c) /\ Reached(d)
    BY <1>1, <2>2
  <2>4. QED
    BY <2>1, <2>3
<1>5. tok.is \in {"word", "flag", "dashdash"}
  BY DEF Mcp!Tokens
<1>6. CASE inv.bad \/ inv.skip \/ inv.rest
  BY <1>4, <1>6 DEF Mcp!TakeOne
<1>7. CASE ~(inv.bad \/ inv.skip \/ inv.rest)
  <2>1. CASE tok.is = "dashdash"
    BY <1>4, <1>7, <2>1 DEF Mcp!TakeOne
  <2>2. CASE tok.is = "flag"
    BY <1>2, <1>7, <2>2 DEF Mcp!TakeOne
  <2>3. CASE tok.is = "word"
    BY <1>3, <1>7, <2>3 DEF Mcp!TakeOne
  <2>4. QED
    BY <1>5, <2>1, <2>2, <2>3
<1>8. QED
  BY <1>6, <1>7

LEMMA ResolveReaches ==
  ASSUME NEW tokens \in Seq(Mcp!Tokens)
  PROVE  Reached(Mcp!Resolve(tokens))
<1>1. PICK n : n = Len(tokens)
  OBVIOUS
<1>2. n \in Nat /\ \A i \in 1..n : tokens[i] \in Mcp!Tokens
  BY <1>1
<1>3. PICK f : /\ DOMAIN f = 0..n /\ f[0] = Mcp!Start /\ Mcp!Resolve(tokens) = f[n]
               /\ \A i \in 1..n : f[i] = Mcp!TakeOne(f[i - 1], tokens[i])
  BY <1>1, <1>2, ResolveStep
<1>4. PICK T : T = {i \in 0..n : ~Reached(f[i])}
  OBVIOUS
<1>5. T = {}
  <2>1. SUFFICES ASSUME T # {} PROVE FALSE
    OBVIOUS
  <2>2. T \subseteq Nat
    BY <1>2, <1>4
  <2>3. PICK m \in T : \A k \in T : m <= k
    BY <2>1, <2>2, Smallest
  <2>4. m \in 0..n /\ ~Reached(f[m])
    BY <1>4
  <2>5. m # 0
    <3>1. Mcp!Start.path = <<>>
      BY DEF Mcp!Start
    <3>2. \E c \in Tree : c.path = <<>>
      BY McpAssumption DEF Mcp!PolicyAgrees
    <3>3. Reached(Mcp!Start)
      BY <3>1, <3>2 DEF Reached
    <3>4. QED
      BY <1>3, <2>4, <3>3
  <2>6. m - 1 \in 0..n /\ m - 1 \notin T /\ m \in 1..n
    BY <1>2, <2>3, <2>4, <2>5
  <2>7. Reached(f[m - 1])
    BY <1>4, <2>6
  <2>8. Reached(Mcp!TakeOne(f[m - 1], tokens[m]))
    BY <1>2, <2>6, <2>7, TakeReaches
  <2>9. QED
    BY <1>3, <2>4, <2>6, <2>8
<1>6. QED
  BY <1>2, <1>3, <1>4, <1>5

-----------------------------------------------------------------------------
\* What a tool's line is read as may run where the tool is there.
LEMMA FilledClass ==
  ASSUME NEW tool, Mcp!ToolAgrees(tool), NEW inv, inv.path = Mcp!Path(tool), ~inv.help,
         inv.flags \subseteq Mcp!Filled(tool).flags
  PROVE  /\ ~Mcp!OnlyHelp(inv)
         /\ Mcp!Classify(inv) = "read" \/ (tool.write /\ Mcp!Classify(inv) \in {"read", "secret", "write"})
<1>1. PICK all, path : all = Mcp!Filled(tool) /\ path = Mcp!Path(tool)
  OBVIOUS
<1>2. all.path = path /\ ~all.help /\ all.args = <<>>
  BY <1>1 DEF Mcp!Filled, Mcp!Start
<1>3. ~Mcp!OnlyHelp(all) /\ ~Mcp!OnlyHelp(inv)
  <2>1. ~Mcp!CommandAt(path).group
    BY <1>1 DEF Mcp!ToolAgrees
  <2>2. QED
    BY <1>1, <1>2, <2>1 DEF Mcp!OnlyHelp
<1>4. Mcp!Classify(all) = IF tool.write THEN "write" ELSE "read"
  BY <1>1 DEF Mcp!ToolAgrees
<1>5. all.flags \cap Mcp!BlockedFlags(path) = {}
  BY <1>2, <1>3, <1>4 DEF Mcp!Classify
<1>6. inv.flags \cap Mcp!BlockedFlags(path) = {}
  BY <1>1, <1>5
<1>7. PICK mine : mine = Mcp!ClassOf(path)
  OBVIOUS
<1>8. CASE path = <<"api">>
  <2>1. Mcp!Classify(all) = "write"
    BY <1>2, <1>3, <1>5, <1>8 DEF Mcp!Classify
  <2>2. Mcp!Classify(inv) \in {"secret", "write"}
    <3>1. CASE inv.args # <<>> /\ Head(inv.args) \in {"GET", "OPTIONS"}
      BY <1>1, <1>3, <1>6, <1>8, <3>1 DEF Mcp!Classify
    <3>2. CASE ~(inv.args # <<>> /\ Head(inv.args) \in {"GET", "OPTIONS"})
      BY <1>1, <1>3, <1>6, <1>8, <3>2 DEF Mcp!Classify
    <3>3. QED
      BY <3>1, <3>2
  <2>3. QED
    BY <1>3, <1>4, <2>1, <2>2
<1>9. CASE path = <<"get", "env">>
  <2>1. "show-secrets" \notin all.flags
    BY <1>2, <1>3, <1>4, <1>5, <1>9 DEF Mcp!Classify
  <2>2. "show-secrets" \notin inv.flags
    BY <1>1, <2>1
  <2>3. Mcp!Classify(all) = mine
    BY <1>2, <1>3, <1>5, <1>7, <1>9, <2>1 DEF Mcp!Classify
  <2>4. Mcp!Classify(inv) = mine
    BY <1>1, <1>3, <1>6, <1>7, <1>9, <2>2 DEF Mcp!Classify
  <2>5. QED
    BY <1>3, <1>4, <2>3, <2>4
<1>10. CASE path = <<"get", "orphans">>
  <2>1. mine = "read"
    BY <1>7, <1>10 DEF Mcp!ClassOf, Mcp!ReadCommands, Mcp!SecretCommands, Mcp!BlockedCommands
  <2>2. CASE "kubectl" \in inv.flags
    <3>1. Mcp!Classify(inv) = "write" /\ Mcp!Classify(all) = "write"
      BY <1>1, <1>2, <1>3, <1>5, <1>6, <1>10, <2>2 DEF Mcp!Classify
    <3>2. QED
      BY <1>3, <1>4, <3>1
  <2>3. CASE "kubectl" \notin inv.flags
    <3>1. Mcp!Classify(inv) = mine
      BY <1>1, <1>3, <1>6, <1>7, <1>10, <2>3 DEF Mcp!Classify
    <3>2. QED
      BY <1>3, <2>1, <3>1
  <2>4. QED
    BY <2>2, <2>3
<1>11. CASE path \notin {<<"api">>, <<"get", "env">>, <<"get", "orphans">>}
  <2>1. Mcp!Classify(all) = mine
    BY <1>2, <1>3, <1>5, <1>7, <1>11 DEF Mcp!Classify
  <2>2. Mcp!Classify(inv) = mine
    BY <1>1, <1>3, <1>6, <1>7, <1>11 DEF Mcp!Classify
  <2>3. QED
    BY <1>3, <1>4, <2>1, <2>2
<1>12. QED
  BY <1>8, <1>9, <1>10, <1>11

LEMMA ToolMayRun ==
  ASSUME NEW tool, Mcp!ToolAgrees(tool), NEW gave, NEW inv, ReadsBack(tool, gave, inv),
         ~tool.write \/ Mcp!AllowsWrites
  PROVE  Mcp!MayRun(Mcp!Argv(tool, gave), inv) /\ ~Mcp!Declines(inv)
<1>1. PICK flags, args, down :
        /\ inv = Rec(Mcp!Path(tool), flags, args, down) /\ flags \subseteq Mcp!Filled(tool).flags
        /\ Mcp!NeedsYes(tool) => "yes" \in flags
  BY DEF ReadsBack
<1>2. inv.path = Mcp!Path(tool) /\ ~inv.help /\ ~inv.bad /\ inv.flags = flags
  BY <1>1 DEF Rec
<1>3. Mcp!Classify(inv) = "read" \/ (tool.write /\ Mcp!Classify(inv) \in {"read", "secret", "write"})
  BY <1>1, <1>2, FilledClass
<1>4. Mcp!Argv(tool, gave) # <<>>
  BY DEF ReadsBack
<1>5. Mcp!MayRun(Mcp!Argv(tool, gave), inv)
  BY <1>2, <1>3, <1>4, WritesAllowSecrets DEF Mcp!MayRun
<1>6. ~Mcp!Declines(inv)
  <2>1. Mcp!CommandAt(Mcp!Path(tool)).prompts => Mcp!NeedsYes(tool)
    BY DEF Mcp!ToolAgrees
  <2>2. QED
    BY <1>1, <1>2, <2>1 DEF Mcp!Declines
<1>7. QED
  BY <1>5, <1>6

\* A tool's arguments are the texts of what it was given.
LEMMA ToolArguments ==
  ASSUME NEW tool, Mcp!ToolAgrees(tool), NEW gave, \A k \in DOMAIN gave : gave[k].items \in Seq(Mcp!Tokens),
         ~Mcp!Invalid(tool, gave)
  PROVE  /\ Mcp!Arguments(tool, gave) \in Seq(Mcp!Words)
         /\ Mcp!Texts(Mcp!Arguments(tool, gave))
              = Mcp!FlattenSeq([i \in DOMAIN tool.params |->
                  Mcp!Texts(IF tool.params[i].flag = Mcp!NoTool THEN Mcp!Values(tool.params[i], gave) ELSE <<>>)])
<1>1. PICK parts : parts = [i \in DOMAIN tool.params |->
           IF tool.params[i].flag = Mcp!NoTool THEN Mcp!Values(tool.params[i], gave) ELSE <<>>]
  OBVIOUS
<1>2. parts \in Seq(Seq(Mcp!Words)) /\ Mcp!Arguments(tool, gave) = Mcp!FlattenSeq(parts)
  BY <1>1, ArgumentsType
<1>3. PICK texts : texts = [i \in DOMAIN parts |-> Mcp!Texts(parts[i])]
  OBVIOUS
<1>4. Mcp!FlattenSeq(texts) = Mcp!Texts(Mcp!FlattenSeq(parts))
  BY <1>2, <1>3, FlattenTexts
<1>5. texts = [i \in DOMAIN tool.params |->
                  Mcp!Texts(IF tool.params[i].flag = Mcp!NoTool THEN Mcp!Values(tool.params[i], gave) ELSE <<>>)]
  BY <1>1, <1>3
<1>6. QED
  BY <1>2, <1>4, <1>5, FlattenIn

-----------------------------------------------------------------------------
(* The gate: the invariant and the steps.                                  *)

\* What a call may do by its policy, and what it has done.
MayAndDid(c) ==
  /\ callPc[c] # "idle" => request[c] \in Requests /\ Mcp!Registered(request[c])
  /\ child[c] # "none" => Allowed(invocation[c])
  /\ did[c] \subseteq (IF child[c] = "none" THEN {} ELSE Mcp!Does(invocation[c]))

\* A typed call that was accepted runs its tool.
RunsTyped(c) == Mcp!IsTyped(c) => Mcp!RunsItsTool(c)

\* Types of a call.
CallTyped(c) ==
  /\ callPc[c] \in {"idle", "asked", "running", "answered"} /\ ended[c] <= age[c]
  /\ answer[c].error \in BOOLEAN /\ (callPc[c] = "answered" <=> answer[c].why # "none")

GateOf(c) == MayAndDid(c) /\ RunsTyped(c) /\ CallTyped(c)
OfCalls(f) == f = [c \in Calls |-> f[c]]
GateInv ==
  /\ allow \in {"reads", "secrets", "writes"} /\ held \in [Calls -> BOOLEAN]
  /\ OfCalls(callPc) /\ OfCalls(child) /\ OfCalls(did) /\ \A c \in Calls : GateOf(c)

LEMMA GateStart == Mcp!Init => GateInv
<1> SUFFICES ASSUME Mcp!Init PROVE GateInv
  OBVIOUS
<1>1. /\ allow \in {"reads", "secrets", "writes"} /\ held \in [Calls -> BOOLEAN]
      /\ OfCalls(callPc) /\ OfCalls(child) /\ OfCalls(did)
  BY DEF Mcp!Init, OfCalls
<1>2. ASSUME NEW c \in Calls PROVE GateOf(c)
  <2>1. /\ callPc[c] = "idle" /\ child[c] = "none" /\ did[c] = {} /\ age[c] = 0 /\ ended[c] = 0
        /\ answer[c] = [error |-> FALSE, why |-> "none"]
    BY DEF Mcp!Init, Mcp!NoAnswer
  <2>2. MayAndDid(c) /\ RunsTyped(c)
    BY <2>1 DEF MayAndDid, RunsTyped, Mcp!IsTyped
  <2>3. CallTyped(c)
    BY <2>1 DEF CallTyped
  <2>4. QED
    BY <2>2, <2>3 DEF GateOf
<1>3. QED
  BY <1>1, <1>2 DEF GateInv

\* A call that does not move keeps all that.
LEMMA GateSame ==
  ASSUME NEW c \in Calls, GateOf(c), Same(c), allow' = allow
  PROVE  GateOf(c)'
<1>1. MayAndDid(c)'
  BY DEF GateOf, MayAndDid, Same, Allowed, Mcp!Registered, Mcp!AllowsWrites, Mcp!AllowsSecrets
<1>2. RunsTyped(c)'
  BY DEF GateOf, RunsTyped, Same, Mcp!IsTyped, Mcp!RunsItsTool
<1>3. CallTyped(c)'
  BY DEF GateOf, CallTyped, Same
<1>4. QED
  BY <1>1, <1>2, <1>3 DEF GateOf

\* What is allowed stays so.
LEMMA AllowedStays ==
  ASSUME NEW inv, Allowed(inv), allow' = allow
  PROVE  Allowed(inv)'
BY DEF Allowed, Mcp!AllowsWrites, Mcp!AllowsSecrets

LEMMA AskGate ==
  ASSUME NEW c \in Calls, CallShaped, CallInvOf(c), GateOf(c), Mcp!Ask(c)
  PROVE  GateOf(c)'
<1>1. /\ callPc[c] = "idle" /\ callPc'[c] = "asked" /\ request'[c] \in Requests /\ Mcp!Registered(request'[c])
      /\ UNCHANGED <<allow, invocation, child, held, age, ended, did, answer>>
  BY DEF Mcp!Ask, CallShaped
<1>2. child[c] = "none"
  BY <1>1 DEF CallInvOf, ChildOf
<1>3. MayAndDid(c)'
  BY <1>1, <1>2 DEF GateOf, MayAndDid, Mcp!Registered, Mcp!AllowsWrites
<1>4. RunsTyped(c)' /\ CallTyped(c)'
  BY <1>1 DEF GateOf, RunsTyped, CallTyped, Mcp!IsTyped
<1>5. QED
  BY <1>3, <1>4 DEF GateOf

\* The call starts, or is answered at once.
Decides(c, r, tool) ==
  \/ /\ r.tool # Mcp!NoTool /\ Mcp!Invalid(tool, r.given)
     /\ Mcp!Answered(c, TRUE, "invalid") /\ UNCHANGED child
  \/ \E argv, inv :
       /\ argv = (IF r.tool # Mcp!NoTool THEN Mcp!Argv(tool, r.given) ELSE r.line)
       /\ inv = Mcp!Resolve(argv) /\ invocation' = [invocation EXCEPT ![c] = inv]
       /\ ~(r.tool # Mcp!NoTool /\ Mcp!Invalid(tool, r.given))
       /\ \/ ~Mcp!MayRun(argv, inv) /\ Mcp!Answered(c, TRUE, "refused") /\ UNCHANGED child
          \/ /\ Mcp!MayRun(argv, inv)
             /\ callPc' = [callPc EXCEPT ![c] = "running"] /\ child' = [child EXCEPT ![c] = "running"]
             /\ UNCHANGED answer

LEMMA RunCases ==
  ASSUME NEW c \in Calls, CallShaped, CallInvOf(c), GateOf(c), Mcp!Run(c),
         NEW r, r = request[c], NEW tool, tool = Mcp!ToolNamed(r.tool)
  PROVE  /\ callPc[c] = "asked" /\ child[c] = "none" /\ age[c] = 0
         /\ UNCHANGED <<allow, request, held, age, ended, did>>
         /\ Decides(c, r, tool)
<1>1. callPc[c] = "asked" /\ child[c] = "none" /\ age[c] = 0 /\ UNCHANGED <<allow, request, held, age, ended, did>>
  BY DEF Mcp!Run, CallInvOf, ChildOf
<1>2. CASE r.tool # Mcp!NoTool /\ Mcp!Invalid(tool, r.given)
  BY <1>1, <1>2 DEF Mcp!Run, Decides
<1>3. CASE ~(r.tool # Mcp!NoTool /\ Mcp!Invalid(tool, r.given))
  <2>1. PICK argv : argv = (IF r.tool # Mcp!NoTool THEN Mcp!Argv(tool, r.given) ELSE r.line)
    OBVIOUS
  <2>2. PICK inv : inv = Mcp!Resolve(argv)
    OBVIOUS
  <2>3. /\ invocation' = [invocation EXCEPT ![c] = inv]
        /\ IF ~Mcp!MayRun(argv, inv) THEN Mcp!Answered(c, TRUE, "refused") /\ UNCHANGED child
           ELSE /\ callPc' = [callPc EXCEPT ![c] = "running"] /\ child' = [child EXCEPT ![c] = "running"]
                /\ UNCHANGED answer
    BY <1>3, <2>1, <2>2 DEF Mcp!Run
  <2>4. QED
    BY <1>1, <1>3, <2>1, <2>2, <2>3 DEF Decides
<1>4. QED
  BY <1>2, <1>3

\* A tool is the one its name says.
LEMMA ToolFound ==
  ASSUME NEW r \in Requests, r.tool # Mcp!NoTool
  PROVE  /\ Mcp!ToolAgrees(Mcp!ToolNamed(r.tool))
         /\ \A k \in DOMAIN r.given : r.given[k].items \in Seq(Mcp!Tokens)
<1>1. PICK t \in Tools : t.name = r.tool
  BY McpAssumption DEF Mcp!ToolsAgree
<1>2. Mcp!ToolNamed(r.tool) \in Tools
  BY <1>1 DEF Mcp!ToolNamed
<1>3. QED
  BY <1>2, McpAssumption DEF Mcp!ToolsAgree

LEMMA RunGate ==
  ASSUME NEW c \in Calls, CallShaped, CallInvOf(c), GateOf(c), Mcp!Run(c)
  PROVE  GateOf(c)'
<1>1. PICK r, tool : r = request[c] /\ tool = Mcp!ToolNamed(r.tool)
  OBVIOUS
<1>2. /\ callPc[c] = "asked" /\ child[c] = "none" /\ age[c] = 0 /\ r \in Requests /\ Mcp!Registered(r)
      /\ UNCHANGED <<allow, request, held, age, ended, did>> /\ did[c] = {}
      /\ ended[c] <= age[c] /\ answer[c].why = "none" /\ answer[c].error \in BOOLEAN
  <2>1. callPc[c] = "asked" /\ child[c] = "none" /\ age[c] = 0 /\ UNCHANGED <<allow, request, held, age, ended, did>>
    BY <1>1, RunCases
  <2>2. QED
    BY <1>1, <2>1 DEF GateOf, MayAndDid, CallTyped
<1>3. Mcp!Registered(r)' /\ request'[c] = r /\ did'[c] = {} /\ ended'[c] <= age'[c]
  BY <1>1, <1>2 DEF Mcp!Registered, Mcp!AllowsWrites
<1>4. CASE /\ r.tool # Mcp!NoTool /\ Mcp!Invalid(tool, r.given)
           /\ Mcp!Answered(c, TRUE, "invalid") /\ UNCHANGED child
  <2>1. callPc'[c] = "answered" /\ child'[c] = "none" /\ answer'[c] = [error |-> TRUE, why |-> "invalid"]
    BY <1>2, <1>4 DEF Mcp!Answered, CallShaped
  <2>2. MayAndDid(c)' /\ RunsTyped(c)' /\ CallTyped(c)'
    BY <1>2, <1>3, <2>1 DEF MayAndDid, RunsTyped, CallTyped, Mcp!IsTyped
  <2>3. QED
    BY <2>2 DEF GateOf
<1>5. ASSUME NEW argv, NEW inv, argv = (IF r.tool # Mcp!NoTool THEN Mcp!Argv(tool, r.given) ELSE r.line),
             inv = Mcp!Resolve(argv), invocation' = [invocation EXCEPT ![c] = inv],
             ~(r.tool # Mcp!NoTool /\ Mcp!Invalid(tool, r.given)),
             \/ ~Mcp!MayRun(argv, inv) /\ Mcp!Answered(c, TRUE, "refused") /\ UNCHANGED child
             \/ /\ Mcp!MayRun(argv, inv)
                /\ callPc' = [callPc EXCEPT ![c] = "running"] /\ child' = [child EXCEPT ![c] = "running"]
                /\ UNCHANGED answer
      PROVE  GateOf(c)'
  <2>1. invocation'[c] = inv
    BY <1>5 DEF CallShaped
  <2>2. CASE r.tool # Mcp!NoTool
    <3>1. Mcp!ToolAgrees(tool) /\ \A k \in DOMAIN r.given : r.given[k].items \in Seq(Mcp!Tokens)
      BY <1>1, <1>2, <2>2, ToolFound
    <3>2. ~Mcp!Invalid(tool, r.given) /\ argv = Mcp!Argv(tool, r.given)
      BY <1>5, <2>2
    <3>3. ReadsBack(tool, r.given, inv)
      BY <1>5, <3>1, <3>2, ToolArguments, ArgvReadsBack
    <3>4. ~tool.write \/ Mcp!AllowsWrites
      BY <1>1, <1>2, <2>2 DEF Mcp!Registered
    <3>5. Mcp!MayRun(argv, inv) /\ ~Mcp!Declines(inv)
      BY <3>1, <3>2, <3>3, <3>4, ToolMayRun
    <3>6. callPc'[c] = "running" /\ child'[c] = "running" /\ answer' = answer
      BY <1>5, <3>5 DEF CallShaped
    <3>7. \E d \in Tree : d.path = inv.path
      <4>1. PICK flags, args, down : inv = Rec(Mcp!Path(tool), flags, args, down)
        BY <3>3 DEF ReadsBack
      <4>2. inv.path = Mcp!Path(tool)
        BY <4>1 DEF Rec
      <4>3. \E d \in Tree : d.path = Mcp!Path(tool)
        BY <3>1, ToolCommand
      <4>4. QED
        BY <4>2, <4>3
    <3>8. Allowed(inv)
      BY <3>5, <3>7, PolicyHolds
    <3>9. MayAndDid(c)'
      BY <1>1, <1>2, <1>3, <2>1, <3>6, <3>8, AllowedStays DEF MayAndDid
    <3>10. Mcp!RunsItsTool(c)'
      <4>1. /\ inv.path = Mcp!Path(tool)
            /\ inv.args = Mcp!Texts(Mcp!Arguments(tool, r.given))
        BY <3>3 DEF ReadsBack, Rec
      <4>2. inv.args = Mcp!FlattenSeq([i \in DOMAIN tool.params |->
                  Mcp!Texts(IF tool.params[i].flag = Mcp!NoTool THEN Mcp!Values(tool.params[i], r.given) ELSE <<>>)])
        BY <3>1, <3>2, <4>1, ToolArguments
      <4>3. QED
        BY <1>1, <1>3, <2>1, <3>5, <3>6, <4>1, <4>2 DEF Mcp!RunsItsTool
    <3>11. CallTyped(c)'
      BY <1>2, <1>3, <3>6 DEF CallTyped
    <3>12. QED
      BY <3>9, <3>10, <3>11 DEF GateOf, RunsTyped
  <2>3. CASE r.tool = Mcp!NoTool
    <3>1. ~Mcp!IsTyped(c)'
      BY <1>3, <2>3 DEF Mcp!IsTyped
    <3>2. argv \in Seq(Mcp!Tokens)
      BY <1>2, <1>5, <2>3, McpAssumption DEF Mcp!ToolsAgree
    <3>3. \E d \in Tree : d.path = inv.path
      BY <1>5, <3>2, ResolveReaches DEF Reached
    <3>4. CASE ~Mcp!MayRun(argv, inv) /\ Mcp!Answered(c, TRUE, "refused") /\ UNCHANGED child
      <4>1. callPc'[c] = "answered" /\ child'[c] = "none" /\ answer'[c] = [error |-> TRUE, why |-> "refused"]
        BY <1>2, <3>4 DEF Mcp!Answered, CallShaped
      <4>2. MayAndDid(c)' /\ CallTyped(c)'
        BY <1>2, <1>3, <4>1 DEF MayAndDid, CallTyped
      <4>3. QED
        BY <3>1, <4>2 DEF GateOf, RunsTyped
    <3>5. CASE /\ Mcp!MayRun(argv, inv)
               /\ callPc' = [callPc EXCEPT ![c] = "running"] /\ child' = [child EXCEPT ![c] = "running"]
               /\ UNCHANGED answer
      <4>1. callPc'[c] = "running" /\ child'[c] = "running" /\ answer' = answer
        BY <3>5 DEF CallShaped
      <4>2. Allowed(inv)
        BY <3>3, <3>5, PolicyHolds
      <4>3. MayAndDid(c)'
        BY <1>1, <1>2, <1>3, <2>1, <4>1, <4>2, AllowedStays DEF MayAndDid
      <4>4. CallTyped(c)'
        BY <1>2, <1>3, <4>1 DEF CallTyped
      <4>5. QED
        BY <3>1, <4>3, <4>4 DEF GateOf, RunsTyped
    <3>6. QED
      BY <1>5, <3>4, <3>5
  <2>4. QED
    BY <2>2, <2>3
<1>6. Decides(c, r, tool)
  BY <1>1, RunCases
<1>7. QED
  BY <1>4, <1>5, <1>6 DEF Decides

\* A call whose child moves, or whose answer comes, is the call it was.
LEMMA GateMoves ==
  ASSUME NEW c \in Calls, GateOf(c), allow' = allow, request' = request, invocation' = invocation,
         callPc[c] = "running", child[c] # "none", child'[c] # "none",
         did'[c] \subseteq Mcp!Does(invocation[c]), callPc'[c] \in {"running", "answered"},
         ended'[c] <= age'[c], answer'[c].error \in BOOLEAN, answer'[c].why # "invalid",
         callPc'[c] = "answered" <=> answer'[c].why # "none"
  PROVE  GateOf(c)'
<1>1. answer[c].why # "invalid"
  BY DEF GateOf, CallTyped
<1>2. Allowed(invocation[c])'
  BY AllowedStays DEF GateOf, MayAndDid
<1>3. MayAndDid(c)'
  <2>1. Mcp!Registered(request[c])' /\ request[c] \in Requests
    BY DEF GateOf, MayAndDid, Mcp!Registered, Mcp!AllowsWrites
  <2>2. QED
    BY <1>2, <2>1 DEF MayAndDid
<1>4. RunsTyped(c)'
  <2>1. Mcp!IsTyped(c)' => Mcp!IsTyped(c)
    BY <1>1 DEF Mcp!IsTyped
  <2>2. Mcp!RunsItsTool(c) => Mcp!RunsItsTool(c)'
    BY DEF Mcp!RunsItsTool
  <2>3. QED
    BY <2>1, <2>2 DEF GateOf, RunsTyped
<1>5. CallTyped(c)'
  BY DEF CallTyped
<1>6. QED
  BY <1>3, <1>4, <1>5 DEF GateOf

LEMMA RunningGate ==
  ASSUME NEW c \in Calls, CallShaped, CallInvOf(c), GateOf(c),
         \/ Mcp!Write(c) \/ Mcp!Exit(c) \/ Mcp!Deadline(c) \/ Mcp!Cancel(c) \/ Mcp!Return(c) \/ Mcp!Tick(c)
  PROVE  GateOf(c)'
<1>1. /\ UNCHANGED <<allow, request, invocation>> /\ callPc[c] = "running" /\ child[c] # "none"
  BY DEF Mcp!Write, Mcp!Exit, Mcp!Deadline, Mcp!Cancel, Mcp!Kill, Mcp!Return, Mcp!Tick, CallInvOf, ChildOf
<1>2. /\ did[c] \subseteq Mcp!Does(invocation[c]) /\ ended[c] <= age[c] /\ age[c] \in Nat /\ ended[c] \in Nat
      /\ answer[c].error \in BOOLEAN /\ answer[c].why = "none"
  BY <1>1 DEF GateOf, MayAndDid, CallTyped, CallShaped
<1>3. CASE Mcp!Write(c)
  <2>1. /\ did'[c] = did[c] \cup {"write"} /\ "write" \in Mcp!Does(invocation[c])
        /\ UNCHANGED <<callPc, child, ended, age, answer>>
    BY <1>3 DEF Mcp!Write, CallShaped
  <2>2. QED
    BY <1>1, <1>2, <2>1, GateMoves
<1>4. CASE Mcp!Exit(c)
  <2>1. /\ child'[c] \in {"ok", "failed"} /\ ended'[c] = age[c] /\ UNCHANGED <<callPc, age, answer>>
        /\ did'[c] \subseteq did[c] \cup Mcp!Does(invocation[c])
    BY <1>4 DEF Mcp!Exit, CallShaped
  <2>2. ended'[c] <= age'[c] /\ did'[c] \subseteq Mcp!Does(invocation[c])
    BY <1>2, <2>1
  <2>3. QED
    BY <1>1, <1>2, <2>1, <2>2, GateMoves
<1>5. CASE Mcp!Kill(c)
  <2>1. /\ child'[c] = "killed" /\ ended'[c] = age[c] /\ UNCHANGED <<callPc, age, answer, did>>
    BY <1>5 DEF Mcp!Kill, CallShaped
  <2>2. ended'[c] <= age'[c]
    BY <1>2, <2>1
  <2>3. QED
    BY <1>1, <1>2, <2>1, <2>2, GateMoves
<1>6. CASE Mcp!Return(c)
  <2>1. PICK why : why = IF age[c] >= Mcp!Limit(c) THEN "timed out" ELSE "ran"
    OBVIOUS
  <2>2. why \in {"timed out", "ran"}
    BY <2>1
  <2>3. /\ callPc'[c] = "answered" /\ answer'[c].why = why /\ answer'[c].error = Mcp!Failed(c)
        /\ UNCHANGED <<child, ended, age, did>>
    BY <1>6, <2>1 DEF Mcp!Return, Mcp!Answered, CallShaped
  <2>4. answer'[c].error \in BOOLEAN
    BY <2>3 DEF Mcp!Failed
  <2>5. answer'[c].why # "invalid" /\ answer'[c].why # "none"
    BY <2>2, <2>3
  <2>6. QED
    BY <1>1, <1>2, <2>3, <2>4, <2>5, GateMoves
<1>7. CASE Mcp!Tick(c)
  <2>1. age'[c] = age[c] + 1 /\ UNCHANGED <<callPc, child, ended, answer, did>>
    BY <1>7 DEF Mcp!Tick, CallShaped
  <2>2. ended'[c] <= age'[c]
    BY <1>2, <2>1
  <2>3. QED
    BY <1>1, <1>2, <2>1, <2>2, GateMoves
<1>8. QED
  BY <1>3, <1>4, <1>5, <1>6, <1>7 DEF Mcp!Deadline, Mcp!Cancel

LEMMA GateStep == CallInv /\ GateInv /\ [Mcp!Next]_(Mcp!vars) => GateInv'
<1> SUFFICES ASSUME CallInv, GateInv, [Mcp!Next]_(Mcp!vars) PROVE GateInv'
  OBVIOUS
<1>1. ASSUME NEW c \in Calls, GateOf(c)', \A d \in Calls \ {c} : Same(d), allow' = allow, held' \in [Calls -> BOOLEAN],
             OfCalls(callPc)', OfCalls(child)', OfCalls(did)'
      PROVE  GateInv'
  BY <1>1, GateSame DEF GateInv
<1>2. CASE UNCHANGED Mcp!vars
  <2>1. \A c \in Calls : Same(c)
    BY <1>2 DEF Mcp!vars, Same
  <2>2. allow' = allow /\ held' = held /\ UNCHANGED <<callPc, child, did>>
    BY <1>2 DEF Mcp!vars
  <2>3. OfCalls(callPc)' /\ OfCalls(child)' /\ OfCalls(did)'
    BY <2>2 DEF GateInv, OfCalls
  <2>4. QED
    BY <2>1, <2>2, <2>3, GateSame DEF GateInv
<1>3. ASSUME NEW c \in Calls, \/ Mcp!Ask(c) \/ Mcp!Run(c) \/ Mcp!Write(c) \/ Mcp!Exit(c) \/ Mcp!Deadline(c)
                              \/ Mcp!Cancel(c) \/ Mcp!Return(c) \/ Mcp!Tick(c)
      PROVE  GateInv'
  <2>1. /\ CallShaped /\ CallInvOf(c) /\ GateOf(c) /\ held \in [Calls -> BOOLEAN]
        /\ OfCalls(callPc) /\ OfCalls(child) /\ OfCalls(did)
    BY DEF CallInv, GateInv
  <2>2. GateOf(c)'
    BY <1>3, <2>1, AskGate, RunGate, RunningGate
  <2>3. \A d \in Calls \ {c} : Same(d)
    BY <1>3, <2>1, AskInv, RunInv, ChildInv, ReturnInv, TickInv
  <2>4. allow' = allow
    BY <1>3 DEF Mcp!Ask, Mcp!Run, Mcp!Write, Mcp!Exit, Mcp!Deadline, Mcp!Cancel, Mcp!Kill, Mcp!Return, Mcp!Tick
  <2>5. held' = held \/ held' = [held EXCEPT ![c] = TRUE]
    BY <1>3 DEF Mcp!Ask, Mcp!Run, Mcp!Write, Mcp!Exit, Mcp!Deadline, Mcp!Cancel, Mcp!Kill, Mcp!Return, Mcp!Tick
  <2>6. held' \in [Calls -> BOOLEAN]
    BY <2>1, <2>5
  <2>7. /\ callPc' = callPc \/ \E x : callPc' = [callPc EXCEPT ![c] = x]
        /\ child' = child \/ \E x : child' = [child EXCEPT ![c] = x]
        /\ did' = did \/ \E x : did' = [did EXCEPT ![c] = x]
    BY <1>3 DEF Mcp!Ask, Mcp!Run, Mcp!Write, Mcp!Exit, Mcp!Deadline, Mcp!Cancel, Mcp!Kill, Mcp!Return, Mcp!Tick,
                Mcp!Answered
  <2>8. OfCalls(callPc)' /\ OfCalls(child)' /\ OfCalls(did)'
    BY <2>1, <2>7 DEF OfCalls
  <2>9. QED
    BY <1>1, <2>2, <2>3, <2>4, <2>6, <2>8
<1>4. QED
  BY <1>2, <1>3 DEF Mcp!Next

LEMMA Gated == CallInv /\ GateInv => Mcp!GateHolds
<1> SUFFICES ASSUME CallInv, GateInv, NEW c \in Calls
             PROVE  /\ "write" \in did[c] => Mcp!AllowsWrites
                    /\ "secret" \in did[c] =>
                         Mcp!AllowsSecrets \/ "secret" \in Mcp!Shown(invocation[c].path)
                    /\ child[c] # "none" => "endless" \notin Mcp!Does(invocation[c])
                    /\ Mcp!IsTyped(c) => Mcp!RunsItsTool(c)
  BY DEF Mcp!GateHolds
<1>1. MayAndDid(c) /\ RunsTyped(c)
  BY DEF GateInv, GateOf
<1>2. CASE child[c] = "none"
  BY <1>1, <1>2 DEF MayAndDid, RunsTyped
<1>3. CASE child[c] # "none"
  <2>1. Allowed(invocation[c]) /\ did[c] \subseteq Mcp!Does(invocation[c])
    BY <1>1, <1>3 DEF MayAndDid
  <2>2. QED
    BY <1>1, <2>1 DEF RunsTyped, Allowed
<1>4. QED
  BY <1>2, <1>3

LEMMA CallsTyped == CallInv /\ GateInv => Mcp!TypeOK
<1> SUFFICES ASSUME CallInv, GateInv PROVE Mcp!TypeOK
  OBVIOUS
<1>1. ASSUME NEW c \in Calls
      PROVE  /\ callPc[c] \in {"idle", "asked", "running", "answered"}
             /\ child[c] \in {"none", "running", "ok", "failed", "killed"}
             /\ callPc[c] = "running" => child[c] # "none"
             /\ ended[c] <= age[c] /\ answer[c].error \in BOOLEAN /\ (callPc[c] = "answered" <=> answer[c].why # "none")
             /\ did[c] \subseteq {"write", "secret"}
  <2>1. ChildOf(c) /\ CallTyped(c) /\ MayAndDid(c)
    BY DEF CallInv, CallInvOf, GateInv, GateOf
  <2>2. did[c] \subseteq {"write", "secret"}
    BY <2>1 DEF MayAndDid, Allowed
  <2>3. QED
    BY <2>1, <2>2 DEF ChildOf, CallTyped
<1>2. allow \in {"reads", "secrets", "writes"} /\ held \in [Calls -> BOOLEAN]
  BY DEF GateInv
<1>3. callPc = [c \in Calls |-> callPc[c]] /\ child = [c \in Calls |-> child[c]] /\ did = [c \in Calls |-> did[c]]
  BY DEF GateInv, OfCalls
<1>4. QED
  BY <1>1, <1>2, <1>3 DEF Mcp!TypeOK

-----------------------------------------------------------------------------
(* A command's request: the invariant and the steps.                       *)

\* Until its one request is answered a command has written nothing and keeps
\* the method it began with, if that is a write; it asks for a token only while
\* it has attempts left and no credential.
Underway ==
  /\ sessionPc # "done" => sessionOutcome = "running" /\ ~written
  /\ sessionPc # "done" /\ given.kind = "write" => method = "write"
  /\ sessionPc \in {"build", "refresh", "wait"} => auth = "none" /\ attempt < RefreshAttempts
  /\ hops < MaxRedirects

SessionInv == Ses!TypeOK /\ Ses!AnswerIsTrue /\ Underway

LEMMA SessionInitInv == Ses!Init => SessionInv
<1> SUFFICES ASSUME Ses!Init PROVE SessionInv
  OBVIOUS
<1> USE SessionAssumption DEF Ses!Init
<1>1. given.kind \in Ses!Kinds
  BY DEF Ses!Kinds
<1>2. ~written /\ written \in BOOLEAN /\ cancelled \in BOOLEAN
  BY Zenon
<1>3. Ses!TypeOK
  BY <1>1, <1>2 DEF Ses!TypeOK, Ses!Kinds
<1>4. Ses!AnswerIsTrue /\ Underway
  BY <1>2 DEF Ses!AnswerIsTrue, Underway
<1>5. QED
  BY <1>3, <1>4 DEF SessionInv

LEMMA SessionNextInv == SessionInv /\ [Ses!Next]_(Ses!vars) => SessionInv'
<1> SUFFICES ASSUME SessionInv, [Ses!Next]_(Ses!vars) PROVE SessionInv'
  OBVIOUS
<1> USE SessionAssumption DEF SessionInv, Ses!Goto, Ses!Finish
<1>1. CASE Ses!Build
  BY <1>1 DEF Ses!Build, Ses!Credential, Ses!serverVars, Ses!TypeOK, Ses!AnswerIsTrue, Underway, Ses!Kinds
<1>2. CASE Ses!Refresh
  <2>1. /\ sessionPc = "refresh" /\ auth = "none" /\ sessionOutcome = "running" /\ ~written
        /\ attempt < RefreshAttempts /\ attempt' = attempt + 1
    BY <1>2 DEF Ses!Refresh, Underway
  <2>2. UNCHANGED <<given, method, hops, cancelled, valid, written>>
    BY <1>2 DEF Ses!Refresh
  <2>3. attempt' \in 0..RefreshAttempts
    BY <2>1 DEF Ses!TypeOK
  <2>4. CASE ~cancelled /\ live' \in {valid, FALSE} /\ auth' = "minted" /\ Ses!Goto("send")
    BY <2>1, <2>2, <2>3, <2>4 DEF Ses!TypeOK, Ses!AnswerIsTrue, Underway
  <2>5. CASE ~cancelled /\ Ses!Finish("final") /\ UNCHANGED <<auth, live>>
    BY <2>1, <2>2, <2>3, <2>5 DEF Ses!TypeOK, Ses!AnswerIsTrue, Underway
  <2>6. CASE ~cancelled /\ attempt' < RefreshAttempts /\ Ses!Goto("wait") /\ UNCHANGED <<auth, live>>
    BY <2>1, <2>2, <2>3, <2>6 DEF Ses!TypeOK, Ses!AnswerIsTrue, Underway
  <2>7. CASE ~(~cancelled /\ attempt' < RefreshAttempts) /\ Ses!Finish("noToken") /\ UNCHANGED <<auth, live>>
    <3>1. cancelled \/ attempt' = RefreshAttempts
      BY <2>3, <2>7
    <3>2. QED
      BY <2>1, <2>2, <2>3, <2>7, <3>1 DEF Ses!TypeOK, Ses!AnswerIsTrue, Underway
  <2>8. QED
    BY <1>2, <2>4, <2>5, <2>6, <2>7 DEF Ses!Refresh, Ses!Retryable
<1>3. CASE Ses!Wait
  <2>1. /\ sessionPc = "wait" /\ ~written /\ (sessionPc' = "done" => cancelled)
        /\ (sessionPc' = "done" => sessionOutcome' = "noToken")
        /\ (sessionPc' # "done" => sessionPc' = "refresh" /\ sessionOutcome' = sessionOutcome)
    BY <1>3 DEF Ses!Wait, Underway
  <2>2. UNCHANGED <<given, auth, attempt, method, hops, cancelled, valid, live, written>>
    BY <1>3 DEF Ses!Wait, Ses!serverVars
  <2>3. Ses!TypeOK'
    BY <2>1, <2>2 DEF Ses!TypeOK
  <2>4. Ses!AnswerIsTrue'
    BY <2>1, <2>2 DEF Ses!AnswerIsTrue, Underway
  <2>5. Underway'
    BY <2>1, <2>2 DEF Underway
  <2>6. QED
    BY <2>3, <2>4, <2>5
<1>4. CASE Ses!Send
  <2>1. /\ sessionPc = "send" /\ sessionOutcome = "running" /\ ~written /\ auth # "none"
        /\ (given.kind = "write" => method = "write")
    BY <1>4 DEF Ses!Send, Underway, Ses!TypeOK
  <2>2. UNCHANGED <<given, auth, attempt, cancelled, valid, live>>
    BY <1>4 DEF Ses!Send
  <2>3. CASE Ses!Accepted /\ Ses!Does /\ Ses!Ends("ok") /\ UNCHANGED <<method, hops>>
    <3>1. sessionPc' = "done" /\ sessionOutcome' = "done" /\ written' = (written \/ method = "write")
      BY <2>3 DEF Ses!Ends, Ses!Does
    <3>2. written' \in BOOLEAN /\ (given.kind = "write" => written')
      BY <2>1, <3>1
    <3>3. QED
      BY <2>1, <2>2, <2>3, <3>1, <3>2 DEF Ses!TypeOK, Ses!AnswerIsTrue, Underway
  <2>4. CASE /\ Ses!Accepted /\ Ses!Does /\ (Ses!Ends("serverError") \/ Ses!Ends("noAnswer"))
             /\ UNCHANGED <<method, hops>>
    <3>1. sessionPc' = "done" /\ (sessionOutcome' = "transient" \/ (sessionOutcome' = "final" /\ cancelled))
      BY <2>4 DEF Ses!Ends, Ses!Class
    <3>2. written' \in BOOLEAN
      BY <2>4 DEF Ses!Does
    <3>3. QED
      BY <2>1, <2>2, <2>4, <3>1, <3>2 DEF Ses!TypeOK, Ses!AnswerIsTrue, Underway
  <2>5. CASE /\ UNCHANGED <<written, method, hops>>
             /\ \E how \in {"serverError", "noAnswer", "missing", "refused"} : Ses!Ends(how)
    <3>1. sessionPc' = "done" /\ sessionOutcome' \in {"transient", "notFound", "final"}
      BY <2>5 DEF Ses!Ends, Ses!Class
    <3>2. QED
      BY <2>1, <2>2, <2>5, <3>1 DEF Ses!TypeOK, Ses!AnswerIsTrue, Underway
  <2>6. CASE /\ UNCHANGED written /\ Ses!Follows(method, hops) /\ Ses!Goto("send")
             /\ hops' = hops + 1 /\ method' = "read"
    <3>1. /\ sessionPc' = "send" /\ sessionOutcome' = "running" /\ method = "read"
          /\ hops' \in 0..MaxRedirects /\ hops' < MaxRedirects
      BY <2>1, <2>6 DEF Ses!Follows, Ses!TypeOK
    <3>2. QED
      BY <2>1, <2>2, <2>6, <3>1 DEF Ses!TypeOK, Ses!AnswerIsTrue, Underway
  <2>7. CASE UNCHANGED written /\ Ses!Ends("noAnswer") /\ UNCHANGED <<method, hops>>
    <3>1. sessionPc' = "done" /\ sessionOutcome' \in {"transient", "final"}
      BY <2>7 DEF Ses!Ends, Ses!Class
    <3>2. QED
      BY <2>1, <2>2, <2>7, <3>1 DEF Ses!TypeOK, Ses!AnswerIsTrue, Underway
  <2>8. QED
    BY <1>4, <2>3, <2>4, <2>5, <2>6, <2>7 DEF Ses!Send
<1>5. CASE Ses!Interrupt
  BY <1>5 DEF Ses!Interrupt, Ses!serverVars, Ses!TypeOK, Ses!AnswerIsTrue, Underway, Ses!Kinds
<1>6. CASE Ses!Expire
  BY <1>6 DEF Ses!Expire, Ses!commandVars, Ses!TypeOK, Ses!AnswerIsTrue, Underway, Ses!Kinds
<1>7. CASE UNCHANGED Ses!vars
  BY <1>7 DEF Ses!vars, Ses!commandVars, Ses!serverVars, Ses!TypeOK, Ses!AnswerIsTrue, Underway, Ses!Kinds
<1>8. QED
  BY <1>1, <1>2, <1>3, <1>4, <1>5, <1>6, <1>7 DEF Ses!Next, Ses!Command

-----------------------------------------------------------------------------
(* The theorems: only the program that runs moves.                         *)

TenantInv ==
  /\ program \in Programs
  /\ RegistryShaped /\ RulesInv /\ PruneInv /\ RegistryTyped
  /\ ProjectInv
  /\ AccessInv /\ KeysInv /\ AccessTyped
  /\ TicketInv /\ TicketTyped
  /\ CallInv /\ GateInv
  /\ SessionInv

LEMMA Starts == ASSUME Init PROVE TenantInv
BY RulesStart, PruneStart, RegistryTypedStart, ProjectStart, AccessInitInv, KeysStart, AccessTypedStart,
   TicketStart, TicketTypedStart, CallInitInv, GateStart, SessionInitInv DEF Init, TenantInv

\* Every step is one of each program's, or leaves that program's state alone.
LEMMA Parts ==
  ASSUME [Next]_vars
  PROVE  /\ [Acc!Next]_(Acc!vars) /\ [Mcp!Next]_(Mcp!vars) /\ [Ses!Next]_(Ses!vars)
         /\ [Reg!Next]_(Reg!vars) /\ [Tic!Next]_(Tic!vars) /\ [Pro!Next]_(Pro!vars)
<1>1. Acc!Next \/ UNCHANGED accessVars
  BY DEF Next, vars
<1>2. Mcp!Next \/ UNCHANGED callVars
  BY DEF Next, vars
<1>3. Ses!Next \/ UNCHANGED sessionVars
  BY DEF Next, vars
<1>4. Reg!Next \/ UNCHANGED registryVars
  BY DEF Next, vars
<1>5. Tic!Next \/ UNCHANGED ticketVars
  BY DEF Next, vars
<1>6. [Acc!Next]_(Acc!vars) /\ [Mcp!Next]_(Mcp!vars) /\ [Ses!Next]_(Ses!vars)
  BY <1>1, <1>2, <1>3
     DEF accessVars, callVars, sessionVars, Acc!vars, Acc!platformVars, Acc!commandVars, Acc!historyVars,
         Mcp!vars, Ses!vars, Ses!commandVars, Ses!serverVars
<1>7. [Reg!Next]_(Reg!vars)
  BY <1>4 DEF registryVars, Reg!vars, Reg!platformVars, Reg!imageVars, Reg!commandVars,
              Reg!historyVars
<1>8. [Tic!Next]_(Tic!vars)
  BY <1>5 DEF ticketVars, Tic!vars, Tic!platformVars, Tic!diskVars, Tic!commandVars
<1>9. Pro!Next \/ UNCHANGED projectVars
  BY DEF Next, vars
<1>10. [Pro!Next]_(Pro!vars)
  BY <1>9 DEF projectVars, Pro!vars, Pro!platformVars, Pro!commandVars, Pro!historyVars
<1>11. QED
  BY <1>6, <1>7, <1>8, <1>10

LEMMA Invariants == Spec => []TenantInv
<1>1. Init => TenantInv
  BY Starts
<1>2. TenantInv /\ [Next]_vars => TenantInv'
  <2> SUFFICES ASSUME TenantInv, [Next]_vars PROVE TenantInv'
    OBVIOUS
  <2>1. program' \in Programs
    BY DEF TenantInv, Next, vars
  <2>2. RegistryShaped' /\ RulesInv' /\ PruneInv' /\ RegistryTyped'
    BY Parts, RulesStep, PruneStep, RegistryTypedStep DEF TenantInv
  <2>3. ProjectInv' /\ TicketInv' /\ TicketTyped'
    BY Parts, ProjectStep, TicketStep, TicketTypedStep DEF TenantInv
  <2>4. AccessInv' /\ KeysInv' /\ AccessTyped'
    BY Parts, AccessNextInv, KeysStep, AccessTypedStep DEF TenantInv
  <2>5. CallInv' /\ GateInv' /\ SessionInv'
    BY Parts, CallNextInv, GateStep, SessionNextInv DEF TenantInv
  <2>6. QED
    BY <2>1, <2>2, <2>3, <2>4, <2>5 DEF TenantInv
<1>3. QED
  BY <1>1, <1>2, PTL DEF Spec

\* Every variable of the program that runs keeps its type: tags point at
\* manifests that are there, rules, keys and uploads have the numbers they were
\* given, what is attached was uploaded, a list of members is whole, and reads
\* back and answers stay within their attempts, in all of the commands.
THEOREM TypesSafe == Spec => []TypeOK
<1>1. ASSUME TenantInv PROVE TypeOK
  <2>1. Reg!TypeOK
    BY <1>1, RegistryTypes DEF TenantInv
  <2>2. Pro!TypeOK
    BY <1>1, ProjectTyped DEF TenantInv
  <2>3. Acc!TypeOK
    BY <1>1, AccessTypes DEF TenantInv
  <2>4. Tic!TypeOK
    BY <1>1, TicketTypes DEF TenantInv
  <2>5. Mcp!TypeOK
    BY <1>1, CallsTyped DEF TenantInv
  <2>6. Ses!TypeOK
    BY <1>1 DEF TenantInv, SessionInv
  <2>7. program \in Programs
    BY <1>1 DEF TenantInv
  <2>8. QED
    BY <2>1, <2>2, <2>3, <2>4, <2>5, <2>6, <2>7 DEF TypeOK, Programs
<1>2. QED
  BY <1>1, Invariants, PTL

\* A change of permissions writes everybody's rows and changes the access of no
\* other member with it, unless somebody has written since the rows were read
\* (setPermissionsAction, SetAppPermissions).
THEOREM OthersSafe == Spec => OthersKeepTheirs
<1>1. TenantInv /\ [Next]_vars =>
        [\A p \in Procs : (accessPc[p] = "put" /\ accessPc'[p] # "put" /\ ~raced[p]) =>
           \A e \in Acc!Emails \ {want[p].ref} : access'[e] = access[e]]_(Acc!vars)
  BY Parts, OthersStep DEF TenantInv
<1>2. QED
  BY <1>1, Invariants, PTL DEF Spec, OthersKeepTheirs, Acc!OthersKeepTheirs

\* What is said of a change of permissions is so, whatever the platform drops or
\* shows late, if nobody else wrote; an answer of the server without an error is
\* about a command that did all it was to do, and a refusal about one that did
\* not start, whenever the child ended or was killed; a workload that is reported
\* as orphaned is of no app of the tenant but one that came while its list was
\* read, or the list shifted; and a write that a command
\* reports was done, and no trouble in getting a token ends a command before its
\* attempts are used up, however often the server fails, redirects, or tokens
\* expire (retryReadBack, run, check, Diff, refuseWriteRedirect, IsTransient, Refresh).
THEOREM AnswersTrue == Spec => AnswerIsTrue
<1>1. TenantInv /\ [Next]_vars => Acc!AnswersTruly
  BY Parts, AccessAnswerStep DEF Acc!AnswersTruly, TenantInv
<1>2. TenantInv => Mcp!AnswerIsTrue /\ Ses!AnswerIsTrue
  BY CallsTruly DEF SessionInv, TenantInv
<1>3. TenantInv /\ [Next]_vars => Pro!OrphansAreGone
  BY Parts, OrphansGone DEF TenantInv
<1>4. QED
  BY <1>1, <1>2, <1>3, Invariants, PTL DEF Spec, AnswerIsTrue

\* Whatever its child and what the child started do, a call is over by its limit
\* and the delay after it (run, mcpWaitDelay).
THEOREM CallsSafe == Spec => []AnsweredInTime
<1>1. TenantInv => AnsweredInTime
  BY CallsInTime DEF AnsweredInTime, TenantInv
<1>2. QED
  BY <1>1, Invariants, PTL

\* A rule that `gc set` reports is the only one for its scope and keeps what was
\* asked for, and after `gc unset` there is none, however many commands write
\* rules, unless one did between this one's look and its write (gcTarget,
\* findGCStrategy).
THEOREM RuleSafe == Spec => RuleIsAsReported
<1>1. TenantInv /\ [Next]_vars =>
        [\A p \in Procs :
           (registryPc[p] = "writeRule" /\ registryOutcome'[p] = "done" /\ ~crossed[p] /\ ~clash) =>
             {r.keep : r \in {x \in rules' : x.scope = Reg!Scope(p)}}
               = (IF job[p].kind = "set" THEN {job[p].what} ELSE {})
             /\ Reg!Cardinality({x \in rules' : x.scope = Reg!Scope(p)}) <= 1]_(Reg!vars)
  BY Parts, RuleIsReported DEF TenantInv
<1>2. QED
  BY <1>1, Invariants, PTL DEF Spec, RuleIsAsReported, Reg!RuleIsAsReported

\* No image is pruned that an app runs, unless the app came to run it after the
\* image was listed, nor one of the newest, unless something else was deleted
\* meanwhile, whatever is pushed, tagged and deployed (registryPruneAction).
THEOREM PruneSafe == Spec => PruneIsSafe
<1>1. TenantInv /\ [Next]_vars =>
        [\A p \in Procs :
           (registryPc[p] = "delete" /\ job[p].kind = "prune" /\ registryPc'[p] = "done" /\ manifests' # manifests) =>
             /\ \A a \in Apps : Reg!Repository(a) = repo[p] /\ Reg!Image(a) \in doomed[p]
                                  => <<a, runs[a], Reg!Image(a)>> \in since[p]
             /\ crossed[p] \/ Reg!Newest(manifests[repo[p]], job[p].what) \cap doomed[p] = {}]_(Reg!vars)
  BY PruneDeletes DEF TenantInv
<1>2. QED
  BY <1>1, Invariants, PTL DEF Spec, PruneIsSafe, Reg!PruneIsSafe

\* A key that is revoked has the id that was given, or the name and no other
\* key had it that was there when they were listed, whoever makes and removes
\* keys meanwhile (findAPIKey).
THEOREM KeysSafe == Spec => OnlyTheKeyMeant
<1>1. TenantInv =>
        [\A p \in Procs : (accessPc[p] = "revoke" /\ keys' # keys /\ accessPc'[p] = "done") =>
           \/ key[p].id = want[p].ref
           \/ key[p].name = want[p].ref
              /\ \A k \in keys : k.name = want[p].ref /\ k.id \notin freshKeys[p] => k = key[p]]_(Acc!vars)
  BY DEF TenantInv, KeysInv, KeyIsMeant, Meant
<1>2. QED
  BY <1>1, Invariants, PTL DEF Spec, OnlyTheKeyMeant, Acc!OnlyTheKeyMeant

\* A ticket that is reported has the files it was given and no others, a reply
\* those whose upload was answered with an id, after all were uploaded; and a
\* failure that names no ticket has left nothing, unless an answer was lost, in any number of commands over the same tickets (CreateTicket,
\* ReplyToTicket).
THEOREM TicketsSafe == Spec => []FiledWhole
<1>1. TenantInv => FiledWhole
  BY Filed DEF TenantInv, FiledWhole
<1>2. QED
  BY <1>1, Invariants, PTL

\* A namespace is deleted only when it holds no app, unless the list of apps
\* shifted while it was read or the app came later, and no database that was
\* there when databases were listed, however long the list is, whatever others
\* create and delete meanwhile (deleteNamespaceAction, ListApps).
THEOREM EmptySpacesOnly == Spec => DeletesOnlyEmpty
<1>1. TenantInv =>
        [(projectPc = "write" /\ cmd.kind = "deleteSpace" /\ projectPc' = "done") =>
           /\ \A a \in apps : a.space = target.id => <<"app", a.id>> \in fresh \/ shifted
           /\ target.id \in databases => <<"database", target.id>> \in fresh]_(Pro!vars)
  BY EmptyOnly DEF TenantInv
<1>2. QED
  BY <1>1, Invariants, PTL DEF Spec, DeletesOnlyEmpty, Pro!DeletesOnlyEmpty

\* The server changes nothing, and prints no secret but those of a raw read,
\* unless it was started so, and starts no command with a flag that keeps it from
\* ending, for any command tree, any tools and any
\* tokens a client sends; and the line it makes for a typed tool, however many
\* arguments and flags that has, is read back as the tool's command with them
\* (check, classify, resolve, argv).
THEOREM GateSafe == Spec => []GateHolds
<1>1. TenantInv => GateHolds
  BY Gated DEF TenantInv, GateHolds
<1>2. QED
  BY <1>1, Invariants, PTL
=============================================================================
