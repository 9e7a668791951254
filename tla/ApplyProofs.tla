---------------------------- MODULE ApplyProofs ----------------------------
(* Theorems about the tenants that darkubectl processes make.              *)
(*                                                                         *)
(* Every app of the tenant is an app of the right shape, whatever ran: the *)
(* inductive invariant says of each process that the change it is about to *)
(* make is the one its document carries, well formed, and of each write on *)
(* its way that it holds an app.  For what a write changes it says besides *)
(* that a body that is about to be sent or stored differs from the app, if *)
(* nothing was stored since it was read, only in what its change names.    *)
(* For what a command reports it follows one change of an app nothing else *)
(* writes to any more: prepared from the very app, on its way or stored,   *)
(* held by what is stored.                                                 *)
EXTENDS Apply, AppSpecProofs

Editing == {"preread", "prepare", "prompt", "reread", "put", "verify", "relist"}
Creating == {"createPrompt", "post"}
Keys == {"pc", "doc", "list", "target", "change", "prepared", "changed", "confirmed", "redeploy",
         "body", "base", "tries", "told"}

\* The state p of a process that runs the line l: in the middle of a document
\* its change is the document's, in which `set domain` and `set command` may
\* have filled in a value; what it creates is complete.
Good(p, l) ==
  LET verb == l.docs[p.doc].change.verb
  IN  /\ Keys \subseteq DOMAIN p
      /\ p.pc \in Phases /\ p.told \in Reports /\ p.doc \in 1..Len(l.docs)
      /\ p.tries \in Nat /\ p.tries < VerifyAttempts /\ p.changed \subseteq Fields
      /\ p.prepared \in App \union {None} /\ p.body \in App \union {None}
      /\ p.change # None \/ p.pc \in Editing \union Creating => IsChange(p.change) /\ p.change.verb = verb
      /\ p.pc \in Editing => verb # "create"
      /\ p.pc = "put" => p.body \in App
      /\ p.pc \in Creating => verb \in {"spec", "create"} /\ CanCreate(p.change.spec)

StoreOK ==
  /\ tenant \in [Names -> App \union {None}] /\ filtered \subseteq Fields
  /\ id \in [Names -> Nat] /\ ver \in [Names -> Nat]
  /\ \A w \in inflight : w.by \in Running /\ w.name \in Names /\ w.body \in App

CountsOK == others \in 0..MaxOthers /\ touched \subseteq Running

ProcsOK ==
  /\ Running \subseteq Clients /\ DOMAIN proc = Running
  /\ \A c \in Running : IsLine(line[c]) /\ Good(proc[c], line[c])

IInv == StoreOK /\ CountsOK /\ ProcsOK

-----------------------------------------------------------------------------
(* The states of a process.                                                *)

\* A process that works on nothing is in order: one that starts, or has ended.
LEMMA RestingGood ==
  ASSUME NEW l, IsLine(l), NEW q, Keys \subseteq DOMAIN q, q.pc \in {"lookup", "done"}, q.told \in Reports,
         q.doc = 1, q.tries = 0, q.changed = {}, q.prepared = None, q.body = None, q.change = None
  PROVE  Good(q, l)
<1>1. 1 \in 1..Len(l.docs)
  BY DEF IsLine
<1>2. q.pc \in Phases /\ q.pc \notin Editing \union Creating
  BY DEF Phases, Editing, Creating
<1> QED
  BY <1>1, <1>2, AttemptsAssumption DEF Good, Editing, Creating

LEMMA EndedGood ==
  ASSUME NEW l, IsLine(l), NEW report \in Reports
  PROVE  Good([Starting EXCEPT !.pc = "done", !.told = report], l)
<1> DEFINE q == [Starting EXCEPT !.pc = "done", !.told = report]
<1>1. /\ Keys \subseteq DOMAIN q /\ q.pc = "done" /\ q.told = report /\ q.doc = 1 /\ q.tries = 0
      /\ q.changed = {} /\ q.prepared = None /\ q.body = None /\ q.change = None
  BY DEF Starting, Keys
<1> HIDE DEF q
<1>2. Good(q, l)
  BY <1>1, RestingGood
<1> QED
  BY <1>2 DEF q

\* What a step says anew of a process, and what it leaves.
LEMMA Merged ==
  ASSUME NEW p, NEW news, Keys \subseteq DOMAIN p
  PROVE  /\ Keys \subseteq DOMAIN Updated(p, news)
         /\ \A x \in Keys : Updated(p, news)[x] = IF x \in DOMAIN news THEN news[x] ELSE p[x]
  BY DEF Updated

\* Only the process that takes a step changes its state.
LEMMA OneMoves ==
  ASSUME ProcsOK, NEW c \in Running, NEW q, Good(q, line[c]), proc' = [proc EXCEPT ![c] = q], line' = line
  PROVE  ProcsOK'
<1>1. \A d \in Running : proc'[d] = IF d = c THEN q ELSE proc[d]
  BY DEF ProcsOK
<1>2. Running' = Running /\ DOMAIN proc' = Running
  BY DEF ProcsOK, Running
<1>3. \A d \in Running : IsLine(line[d]) /\ Good(proc'[d], line[d])
  BY <1>1 DEF ProcsOK
<1>4. (\A d \in Running : IsLine(line[d]) /\ Good(proc[d], line[d]))'
  BY <1>2, <1>3 DEF Running
<1> QED
  BY <1>2, <1>4 DEF ProcsOK

LEMMA ExitGood ==
  ASSUME ProcsOK, NEW c \in Running, NEW report \in Reports, Exit(c, report), line' = line
  PROVE  ProcsOK'
<1>1. Good([Starting EXCEPT !.pc = "done", !.told = report], line[c])
  BY EndedGood DEF ProcsOK
<1> QED
  BY <1>1, OneMoves DEF Exit

LEMMA FailGood ==
  ASSUME ProcsOK, NEW c \in Running, Fail(c), line' = line
  PROVE  ProcsOK'
  BY ExitGood DEF Fail, Reports

\* A process that moves on within a document.
LEMMA NowGood ==
  ASSUME ProcsOK, NEW c \in Running, NEW news, Good(Updated(proc[c], news), line[c]), Now(c, news), line' = line
  PROVE  ProcsOK'
  BY OneMoves DEF Now

LEMMA ReadsKeep ==
  ASSUME StoreOK, CountsOK, OnlyReads PROVE StoreOK' /\ CountsOK'
  BY DEF StoreOK, CountsOK, OnlyReads, storeVars, Running

\* The document at hand of a process in order.
LEMMA DocFacts ==
  ASSUME ProcsOK, NEW c \in Running
  PROVE  /\ Name(c) \in Names /\ IsChange(Doc(c).change)
         /\ IsLine(line[c]) /\ Good(proc[c], line[c]) /\ Keys \subseteq DOMAIN proc[c]
         /\ Verb(c) = line[c].docs[proc[c].doc].change.verb
  BY DEF ProcsOK, Good, IsLine, Name, Doc, Verb

\* What an edit step may rely on.
LEMMA EditFacts ==
  ASSUME ProcsOK, StoreOK, NEW c \in Running, proc[c].pc \in Editing, Live(c)
  PROVE  /\ IsChange(proc[c].change) /\ proc[c].change.verb = Verb(c) /\ Verb(c) # "create"
         /\ tenant[Name(c)] \in App
<1>1. Name(c) \in Names /\ Good(proc[c], line[c]) /\ Verb(c) = line[c].docs[proc[c].doc].change.verb
  BY DocFacts
<1>2. tenant[Name(c)] \in App
  BY <1>1 DEF Live, StoreOK
<1> QED
  BY <1>1, <1>2 DEF Good

\* A step that says nothing of the change, of what is written and of the
\* document keeps a process in order, if it is one of an edit that goes on or
\* ends the document.
LEMMA PhaseGood ==
  ASSUME NEW p, NEW l, Good(p, l), NEW news,
         DOMAIN news \cap {"doc", "change", "prepared", "changed", "body", "tries"} = {},
         "told" \in DOMAIN news => news.told \in Reports,
         "pc" \in DOMAIN news, news.pc \in Phases,
         news.pc \in Editing => p.pc \in Editing /\ news.pc # "put",
         news.pc \in Creating => p.pc \in Creating
  PROVE  Good(Updated(p, news), l)
<1> DEFINE q == Updated(p, news)
<1>1. Keys \subseteq DOMAIN p
  BY DEF Good
<1>2. /\ Keys \subseteq DOMAIN q
      /\ \A x \in Keys : q[x] = IF x \in DOMAIN news THEN news[x] ELSE p[x]
  BY <1>1, Merged
<1>3. /\ q.pc = news.pc /\ q.doc = p.doc /\ q.change = p.change /\ q.prepared = p.prepared
      /\ q.changed = p.changed /\ q.body = p.body /\ q.tries = p.tries /\ q.told \in Reports
  BY <1>2 DEF Keys, Good
<1> HIDE DEF q
<1>4. Good(q, l)
  BY <1>2, <1>3 DEF Good, Editing, Creating
<1> QED
  BY <1>4 DEF q

-----------------------------------------------------------------------------
(* The steps of a process.                                                 *)

LEMMA FindAppKeeps ==
  ASSUME ProcsOK, NEW c \in Running, FindApp(c) PROVE ProcsOK'
<1> DEFINE k == Doc(c).change
           next == IF k.verb \in PrereadVerbs THEN "preread" ELSE "prepare"
           news == [pc |-> next, list |-> Seen(c), target |-> Entry(c).id, change |-> k]
           q == Updated(proc[c], news)
<1>1. line' = line /\ Verb(c) # "create"
  BY DEF FindApp, OnlyReads
<1>2. CASE Fail(c)
  BY <1>1, <1>2, FailGood
<1>3. CASE Now(c, news)
  <2>1. IsChange(k) /\ Good(proc[c], line[c]) /\ Keys \subseteq DOMAIN proc[c]
        /\ k = line[c].docs[proc[c].doc].change
    BY DocFacts DEF Doc
  <2>2. next \in {"preread", "prepare"}
    OBVIOUS
  <2> HIDE DEF k, next
  <2>3. /\ Keys \subseteq DOMAIN q /\ q.pc = next /\ q.change = k
        /\ q.doc = proc[c].doc /\ q.prepared = proc[c].prepared /\ q.changed = proc[c].changed
        /\ q.body = proc[c].body /\ q.tries = proc[c].tries /\ q.told = proc[c].told
    BY <2>1, Merged DEF Keys
  <2>4. k.verb # "create"
    BY <1>1 DEF Verb, k
  <2> HIDE DEF q
  <2>5. Good(q, line[c])
    BY <2>1, <2>2, <2>3, <2>4 DEF Good, Editing, Creating, Phases
  <2> QED
    BY <1>1, <1>3, <2>5, NowGood DEF q
<1> QED
  BY <1>2, <1>3 DEF FindApp

LEMMA CreateStarts ==
  ASSUME ProcsOK, NEW c \in Running, line' = line, Verb(c) \in {"spec", "create"},
         CanCreate(Doc(c).change.spec), Now(c, [pc |-> "createPrompt", change |-> Doc(c).change])
  PROVE  ProcsOK'
<1> DEFINE k == Doc(c).change
           q == Updated(proc[c], [pc |-> "createPrompt", change |-> k])
<1>1. IsChange(k) /\ Good(proc[c], line[c]) /\ Keys \subseteq DOMAIN proc[c]
      /\ k = line[c].docs[proc[c].doc].change /\ Verb(c) = k.verb
  BY DocFacts DEF Doc, Verb
<1> HIDE DEF k
<1>2. /\ Keys \subseteq DOMAIN q /\ q.pc = "createPrompt" /\ q.change = k
      /\ q.doc = proc[c].doc /\ q.prepared = proc[c].prepared /\ q.changed = proc[c].changed
      /\ q.body = proc[c].body /\ q.tries = proc[c].tries /\ q.told = proc[c].told
  BY <1>1, Merged, SMTT(30) DEF Keys
<1>3. CanCreate(k.spec)
  BY DEF k
<1> HIDE DEF q
<1>4. Good(q, line[c])
  BY <1>1, <1>2, <1>3 DEF Good, Editing, Creating, Phases
<1> QED
  BY <1>4, NowGood DEF q, k

LEMMA FindNoneKeeps ==
  ASSUME ProcsOK, NEW c \in Running, FindNone(c) PROVE ProcsOK'
<1> DEFINE k == Doc(c).change
           news == [pc |-> "told", told |-> "wouldCreate", list |-> Seen(c)]
<1>1. line' = line
  BY DEF FindNone, OnlyReads
<1>2. CASE Fail(c)
  BY <1>1, <1>2, FailGood
<1>3. CASE Now(c, news)
  <2>1. Good(proc[c], line[c])
    BY DocFacts
  <2>2. Good(Updated(proc[c], news), line[c])
    BY <2>1, PhaseGood DEF Phases, Reports, Editing, Creating
  <2> QED
    BY <1>1, <1>3, <2>2, NowGood
<1>4. CASE Verb(c) = "spec" /\ CanCreate(k.spec) /\ Now(c, [pc |-> "createPrompt", change |-> k])
  BY <1>1, <1>4, CreateStarts
<1> QED
  BY <1>2, <1>3, <1>4 DEF FindNone

LEMMA StartCreateKeeps ==
  ASSUME ProcsOK, NEW c \in Running, StartCreate(c) PROVE ProcsOK'
<1>1. line' = line /\ Verb(c) = "create"
  BY DEF StartCreate, OnlyReads
<1> QED
  BY <1>1, FailGood, CreateStarts DEF StartCreate

\* A change that a read has filled in is a change of the same verb.
LEMMA ChangesGood ==
  ASSUME NEW p, NEW l, Good(p, l), p.pc \in Editing, NEW k, IsChange(k), k.verb = p.change.verb
  PROVE  Good(Updated(p, [pc |-> "prepare", change |-> k]), l)
<1> DEFINE q == Updated(p, [pc |-> "prepare", change |-> k])
<1>1. Keys \subseteq DOMAIN p
  BY DEF Good
<1>2. /\ Keys \subseteq DOMAIN q /\ q.pc = "prepare" /\ q.change = k
      /\ q.doc = p.doc /\ q.prepared = p.prepared /\ q.changed = p.changed
      /\ q.body = p.body /\ q.tries = p.tries /\ q.told = p.told
  BY <1>1, Merged DEF Keys
<1> HIDE DEF q
<1>3. Good(q, l)
  BY <1>2 DEF Good, Editing, Creating, Phases
<1> QED
  BY <1>3 DEF q

LEMMA PrereadKeeps ==
  ASSUME ProcsOK, StoreOK, NEW c \in Running, Preread(c) PROVE ProcsOK'
<1> DEFINE k == proc[c].change
           a == tenant[Name(c)]
           Half(f) == IF f \in DOMAIN k.fields THEN k.fields[f] ELSE a[f]
           both == [f \in {"command", "args"} |-> Half(f)]
<1>1. line' = line /\ proc[c].pc = "preread" /\ proc[c].pc \in Editing
  BY DEF Preread, OnlyReads, IsAt, Editing
<1>2. Good(proc[c], line[c])
  BY DocFacts
<1>3. CASE Fail(c)
  BY <1>1, <1>3, FailGood
<1>4. CASE Goto(c, "prepare")
  <2>1. Good(Updated(proc[c], [pc |-> "prepare"]), line[c])
    BY <1>1, <1>2, PhaseGood DEF Phases, Editing, Creating
  <2> QED
    BY <1>1, <1>4, <2>1, NowGood DEF Goto
<1>5. CASE Live(c) /\ k.verb = "command" /\ Now(c, [pc |-> "prepare", change |-> [k EXCEPT !.fields = both]])
  <2>1. IsChange(k) /\ a \in App
    BY <1>1, <1>5, EditFacts
  <2>2. /\ "verb" \in DOMAIN k /\ "fields" \in DOMAIN k
        /\ \A f \in DOMAIN k.fields : k.fields[f] \in FieldTypes[f]
    BY <1>5, <2>1 DEF IsChange
  <2>3. a.command \in FieldTypes["command"] /\ a.args \in FieldTypes["args"]
    BY <2>1 DEF App, FieldTypes
  <2>4. /\ DOMAIN both = {"command", "args"} /\ DOMAIN both \subseteq VerbFields["command"]
        /\ \A f \in DOMAIN both : both[f] \in FieldTypes[f]
    BY <2>2, <2>3 DEF VerbFields
  <2> DEFINE new == [k EXCEPT !.fields = both]
  <2> HIDE DEF k, both
  <2>5. new.verb = k.verb /\ new.fields = both /\ "verb" \in DOMAIN new /\ "fields" \in DOMAIN new
    BY <2>2
  <2> HIDE DEF new
  <2>6. IsChange(new)
    BY <1>5, <2>4, <2>5 DEF IsChange, FieldVerbs
  <2>7. Good(Updated(proc[c], [pc |-> "prepare", change |-> new]), line[c])
    BY <1>1, <1>2, <2>5, <2>6, ChangesGood DEF k
  <2> QED
    BY <1>1, <1>5, <2>7, NowGood DEF new
<1>6. CASE Live(c) /\ k.verb = "domain"
           /\ Now(c, [pc |-> "prepare", change |-> [k EXCEPT !.challenge = ChallengeFor(k, a)]])
  <2>1. IsChange(k) /\ a \in App
    BY <1>1, <1>6, EditFacts
  <2>2. /\ "verb" \in DOMAIN k /\ "challenge" \in DOMAIN k /\ k.challenge \in Maybe(Challenges)
        /\ k.add \subseteq Hosts /\ k.remove \subseteq Hosts
    BY <1>6, <2>1 DEF IsChange, FieldVerbs
  <2>3. ChallengeFor(k, a) \in Maybe(Challenges)
    BY <2>2 DEF ChallengeFor, Shown, Maybe, Challenges
  <2> DEFINE new == [k EXCEPT !.challenge = ChallengeFor(k, a)]
  <2> HIDE DEF k
  <2>4. new.verb = k.verb /\ new.challenge = ChallengeFor(k, a) /\ "verb" \in DOMAIN new
        /\ "challenge" \in DOMAIN new /\ new.add = k.add /\ new.remove = k.remove
    BY <2>2
  <2> HIDE DEF new
  <2>5. IsChange(new)
    BY <1>6, <2>2, <2>3, <2>4 DEF IsChange
  <2>6. Good(Updated(proc[c], [pc |-> "prepare", change |-> new]), line[c])
    BY <1>1, <1>2, <2>4, <2>5, ChangesGood DEF k
  <2> QED
    BY <1>1, <1>6, <2>6, NowGood DEF new
<1> QED
  BY <1>3, <1>4, <1>5, <1>6 DEF Preread

LEMMA VerdictFacts ==
  ASSUME NEW c, NEW differing
  PROVE  Verdict(c, differing) \in {[pc |-> "told", told |-> "dryRun"], [pc |-> "told", told |-> "unchanged"],
                                    [pc |-> "reread"], [pc |-> "prompt"]}
  BY DEF Verdict

LEMMA PrepareKeeps ==
  ASSUME ProcsOK, StoreOK, NEW c \in Running, Prepare(c) PROVE ProcsOK'
<1> DEFINE k == proc[c].change
           a == tenant[Name(c)]
           b == Changed(k, a)
           verdict == Verdict(c, Diff(a, b))
           news == Updated(verdict, [prepared |-> b, changed |-> Diff(a, b)])
           q == Updated(proc[c], news)
<1>1. line' = line /\ proc[c].pc \in Editing
  BY DEF Prepare, IsAt, Editing
<1>2. CASE Fail(c)
  BY <1>1, <1>2, FailGood
<1>3. CASE Live(c) /\ CanChange(k, a) /\ Now(c, news)
  <2>1. b \in App
    BY <1>1, <1>3, EditFacts, ChangedIsApp
  <2>2. Diff(a, b) \subseteq Fields
    BY DEF Diff
  <2>3. Good(proc[c], line[c]) /\ Keys \subseteq DOMAIN proc[c]
    BY DocFacts
  <2>4. verdict \in {[pc |-> "told", told |-> "dryRun"], [pc |-> "told", told |-> "unchanged"],
                     [pc |-> "reread"], [pc |-> "prompt"]}
    BY VerdictFacts
  <2> DEFINE differing == Diff(a, b)
  <2> HIDE DEF b, verdict, differing
  <2>5. /\ DOMAIN news \subseteq {"pc", "told", "prepared", "changed"}
        /\ {"pc", "prepared", "changed"} \subseteq DOMAIN news
        /\ news.prepared = b /\ news.changed = Diff(a, b) /\ news.pc \in {"told", "reread", "prompt"}
        /\ "told" \in DOMAIN news => news.told \in Reports
    <3>1. /\ DOMAIN verdict \subseteq {"pc", "told"} /\ "pc" \in DOMAIN verdict
          /\ verdict.pc \in {"told", "reread", "prompt"}
          /\ "told" \in DOMAIN verdict => verdict.told \in Reports
      BY <2>4 DEF Reports
    <3> QED
      BY <3>1 DEF Updated
  <2> HIDE DEF news
  <2>6. /\ Keys \subseteq DOMAIN q
        /\ \A x \in Keys : q[x] = IF x \in DOMAIN news THEN news[x] ELSE proc[c][x]
    BY <2>3, Merged
  <2> HIDE DEF q
  <2>7. /\ q.pc \in {"told", "reread", "prompt"} /\ q.prepared = b /\ q.changed = Diff(a, b)
        /\ q.doc = proc[c].doc /\ q.change = proc[c].change /\ q.body = proc[c].body
        /\ q.tries = proc[c].tries /\ q.told \in Reports
    BY <2>3, <2>5, <2>6 DEF Keys, Good
  <2>8. Good(q, line[c])
    BY <1>1, <2>1, <2>2, <2>3, <2>6, <2>7 DEF Good, Editing, Creating, Phases
  <2> QED
    BY <1>1, <1>3, <2>8, NowGood DEF q, news, verdict, b
<1> QED
  BY <1>2, <1>3 DEF Prepare

LEMMA AnswerKeeps ==
  ASSUME ProcsOK, NEW c \in Running, Answer(c) PROVE ProcsOK'
<1> DEFINE next == IF IsAt(c, "prompt") THEN "reread" ELSE "post"
<1>1. line' = line /\ proc[c].pc \in {"prompt", "createPrompt"}
  BY DEF Answer, OnlyReads
<1>2. CASE Exit(c, "aborted")
  BY <1>1, <1>2, ExitGood DEF Reports
<1>3. CASE Goto(c, next)
  <2>1. Good(proc[c], line[c])
    BY DocFacts
  <2>2. next \in Phases /\ (next \in Editing => proc[c].pc \in Editing /\ next # "put")
        /\ (next \in Creating => proc[c].pc \in Creating)
    BY <1>1 DEF Phases, Editing, Creating, IsAt
  <2> HIDE DEF next
  <2>3. Good(Updated(proc[c], [pc |-> next]), line[c])
    BY <2>1, <2>2, PhaseGood
  <2> QED
    BY <1>1, <1>3, <2>3, NowGood DEF Goto
<1> QED
  BY <1>2, <1>3 DEF Answer

\* A process that has an app to send.
LEMMA SentGood ==
  ASSUME ProcsOK, NEW c \in Running, proc[c].pc \in Editing, line' = line, NEW b \in App, NEW base,
         Now(c, [pc |-> "put", body |-> b, base |-> base])
  PROVE  ProcsOK'
<1> DEFINE q == Updated(proc[c], [pc |-> "put", body |-> b, base |-> base])
<1>1. Good(proc[c], line[c]) /\ Keys \subseteq DOMAIN proc[c]
  BY DocFacts
<1>2. /\ Keys \subseteq DOMAIN q /\ q.pc = "put" /\ q.body = b /\ q.change = proc[c].change
      /\ q.doc = proc[c].doc /\ q.prepared = proc[c].prepared /\ q.changed = proc[c].changed
      /\ q.tries = proc[c].tries /\ q.told = proc[c].told
  BY <1>1, Merged DEF Keys
<1> HIDE DEF q
<1>3. Good(q, line[c])
  BY <1>1, <1>2 DEF Good, Editing, Creating, Phases
<1> QED
  BY <1>3, NowGood DEF q

\* What is sent is an app: the change of the document, or what was read.
LEMMA RereadKeeps ==
  ASSUME ProcsOK, StoreOK, NEW c \in Running, Reread(c) PROVE ProcsOK'
<1> DEFINE a == tenant[Name(c)]
           b == Changed(Edit(c), a)
           news == [pc |-> "put", body |-> b, base |-> ver[Name(c)]]
           q == Updated(proc[c], news)
<1>1. line' = line /\ proc[c].pc \in Editing
  BY DEF Reread, OnlyReads, IsAt, Editing
<1>2. CASE Fail(c)
  BY <1>1, <1>2, FailGood
<1>3. CASE Live(c) /\ CanChange(Edit(c), a) /\ Now(c, news)
  <2>1. IsChange(proc[c].change) /\ proc[c].change.verb # "create" /\ a \in App
    BY <1>1, <1>3, EditFacts
  <2>2. CASE proc[c].redeploy
    <3>1. Edit(c).verb = "reconcile"
      BY <2>2 DEF Edit
    <3>2. Changed(Edit(c), a) = a
      BY <3>1 DEF Changed, FieldVerbs
    <3> QED
      BY <1>1, <1>3, <2>1, <3>2, SentGood
  <2>3. CASE ~proc[c].redeploy
    <3>1. Edit(c) = proc[c].change
      BY <2>3 DEF Edit
    <3>2. b \in App
      BY <1>3, <2>1, <3>1, ChangedIsApp
    <3> QED
      BY <1>1, <1>3, <3>2, SentGood
  <2> QED
    BY <2>2, <2>3
<1> QED
  BY <1>2, <1>3 DEF Reread

LEMMA PutKeeps ==
  ASSUME ProcsOK, StoreOK, NEW c \in Running, Put(c) PROVE ProcsOK' /\ StoreOK'
<1>1. line' = line /\ proc[c].pc = "put" /\ proc[c].pc \in Editing
  BY DEF Put, IsAt, Editing
<1>2. Good(proc[c], line[c]) /\ Name(c) \in Names /\ Keys \subseteq DOMAIN proc[c]
  BY DocFacts
<1>3. ProcsOK'
  <2>1. CASE Fail(c)
    BY <1>1, <2>1, FailGood
  <2>2. CASE Tell(c, "configured")
    <3>1. Good(Updated(proc[c], [pc |-> "told", told |-> "configured"]), line[c])
      BY <1>2, PhaseGood DEF Phases, Reports, Editing, Creating
    <3> QED
      BY <1>1, <2>2, <3>1, NowGood DEF Tell
  <2>3. CASE Now(c, [pc |-> "verify", tries |-> 0])
    <3> DEFINE q == Updated(proc[c], [pc |-> "verify", tries |-> 0])
    <3>1. /\ Keys \subseteq DOMAIN q /\ q.pc = "verify" /\ q.tries = 0 /\ q.change = proc[c].change
          /\ q.doc = proc[c].doc /\ q.prepared = proc[c].prepared /\ q.changed = proc[c].changed
          /\ q.body = proc[c].body /\ q.told = proc[c].told
      BY <1>2, Merged DEF Keys
    <3> HIDE DEF q
    <3>2. Good(q, line[c])
      BY <1>1, <1>2, <3>1, AttemptsAssumption DEF Good, Editing, Creating, Phases
    <3> QED
      BY <1>1, <2>3, <3>2, NowGood DEF q
  <2> QED
    BY <2>1, <2>2, <2>3 DEF Put
<1>4. StoreOK'
  <2> DEFINE w == [by |-> c, doc |-> proc[c].doc, name |-> Name(c), id |-> proc[c].target,
                   body |-> proc[c].body, base |-> proc[c].base]
  <2>1. w.by \in Running /\ w.name \in Names /\ w.body \in App
    BY <1>1, <1>2 DEF Good
  <2>2. inflight' \subseteq inflight \union {w}
    BY DEF Put
  <2>3. Running' = Running /\ UNCHANGED <<tenant, id, ver, filtered>>
    BY DEF Put, Running
  <2> HIDE DEF w
  <2> QED
    BY <2>1, <2>2, <2>3 DEF StoreOK
<1> QED
  BY <1>3, <1>4

LEMMA ReadBackKeeps ==
  ASSUME ProcsOK, NEW c \in Running, ReadBack(c) PROVE ProcsOK'
<1>1. line' = line /\ proc[c].pc = "verify" /\ proc[c].pc \in Editing
  BY DEF ReadBack, OnlyReads, IsAt, Editing
<1>2. Good(proc[c], line[c]) /\ Keys \subseteq DOMAIN proc[c]
  BY DocFacts
<1>3. CASE Missed(c)
  <2>1. CASE IsLastTry(c)
    <3>1. Exit(c, "ignored")
      BY <1>3, <2>1 DEF Missed
    <3> QED
      BY <1>1, <3>1, ExitGood DEF Reports
  <2>2. CASE ~IsLastTry(c)
    <3> DEFINE q == Updated(proc[c], [tries |-> proc[c].tries + 1])
    <3>1. Now(c, [tries |-> proc[c].tries + 1])
      BY <1>3, <2>2 DEF Missed
    <3>2. /\ Keys \subseteq DOMAIN q /\ q.pc = "verify" /\ q.tries = proc[c].tries + 1
          /\ q.change = proc[c].change /\ q.doc = proc[c].doc /\ q.prepared = proc[c].prepared
          /\ q.changed = proc[c].changed /\ q.body = proc[c].body /\ q.told = proc[c].told
      BY <1>1, <1>2, Merged DEF Keys
    <3>3. proc[c].tries + 1 \in Nat /\ proc[c].tries + 1 < VerifyAttempts
      BY <1>2, <2>2, AttemptsAssumption DEF Good, IsLastTry
    <3> HIDE DEF q
    <3>4. Good(q, line[c])
      BY <1>1, <1>2, <3>2, <3>3 DEF Good, Editing, Creating
    <3> QED
      BY <1>1, <3>1, <3>4, NowGood DEF q
  <2> QED
    BY <2>1, <2>2
<1>4. CASE Confirmed(c)
  <2>1. Good(Updated(proc[c], [pc |-> "reread", redeploy |-> TRUE]), line[c])
    BY <1>1, <1>2, PhaseGood DEF Phases, Editing, Creating
  <2>2. Good(Updated(proc[c], [pc |-> "told", told |-> "configured"]), line[c])
    BY <1>2, PhaseGood DEF Phases, Reports, Editing, Creating
  <2> QED
    BY <1>1, <1>4, <2>1, <2>2, NowGood DEF Confirmed, Tell
<1>5. CASE Fail(c)
  BY <1>1, <1>5, FailGood
<1> QED
  BY <1>3, <1>4, <1>5 DEF ReadBack

\* What is stored is an app or nothing, of a name of the tenant.
LEMMA StoredKeeps ==
  ASSUME StoreOK, NEW n \in Names, NEW a \in App \union {None}, Stored(n, a)
  PROVE  tenant' \in [Names -> App \union {None}] /\ ver' \in [Names -> Nat]
  BY DEF StoreOK, Stored

\* What else something disturbs runs.
LEMMA DisturbedRuns ==
  ASSUME CountsOK, NEW n, NEW but PROVE Disturbed(n, but) \subseteq Running
  BY DEF CountsOK, Disturbed

LEMMA PostKeeps ==
  ASSUME ProcsOK, StoreOK, CountsOK, NEW c \in Running, Post(c) PROVE ProcsOK' /\ StoreOK' /\ CountsOK'
<1> DEFINE s == proc[c].change.spec
<1>1. line' = line /\ proc[c].pc = "post" /\ proc[c].pc \in Creating
  BY DEF Post, IsAt, Creating
<1>2. Good(proc[c], line[c]) /\ Name(c) \in Names /\ Verb(c) = line[c].docs[proc[c].doc].change.verb
  BY DocFacts
<1>3. s \in AppSpecs /\ Complete(s)
  BY <1>1, <1>2 DEF Good, IsChange, CanCreate, FieldVerbs
<1>4. ProcsOK'
  <2>1. CASE Fail(c)
    BY <1>1, <2>1, FailGood
  <2>2. CASE Verb(c) = "spec" /\ Now(c, Updated([list |-> None], [pc |-> "relist"]))
    <3> DEFINE news == Updated([list |-> None], [pc |-> "relist"])
               q == Updated(proc[c], news)
    <3>1. DOMAIN news = {"list", "pc"} /\ news.pc = "relist"
      BY DEF Updated
    <3> HIDE DEF news
    <3>2. Keys \subseteq DOMAIN proc[c]
      BY DocFacts
    <3>3. /\ Keys \subseteq DOMAIN q /\ q.pc = "relist" /\ q.change = proc[c].change
          /\ q.doc = proc[c].doc /\ q.prepared = proc[c].prepared /\ q.changed = proc[c].changed
          /\ q.body = proc[c].body /\ q.tries = proc[c].tries /\ q.told = proc[c].told
      BY <3>1, <3>2, Merged DEF Keys
    <3> HIDE DEF q
    <3>4. Good(q, line[c])
      BY <1>1, <1>2, <2>2, <3>3 DEF Good, Editing, Creating, Phases
    <3> QED
      BY <1>1, <2>2, <3>4, NowGood DEF q, news
  <2>3. CASE Now(c, Updated([list |-> None], [pc |-> "told", told |-> "created"]))
    <3> DEFINE news == Updated([list |-> None], [pc |-> "told", told |-> "created"])
    <3>1. DOMAIN news = {"list", "pc", "told"} /\ news.pc = "told" /\ news.told = "created"
      BY DEF Updated
    <3> HIDE DEF news
    <3>2. Good(Updated(proc[c], news), line[c])
      BY <1>2, <3>1, PhaseGood DEF Phases, Reports, Editing, Creating
    <3> QED
      BY <1>1, <2>3, <3>2, NowGood DEF news
  <2> QED
    BY <2>1, <2>2, <2>3 DEF Post
<1>5. StoreOK'
  <2>1. PICK size \in Sizes, node \in Nodes : Stored(Name(c), Derived(Payload(s, size), node))
    BY DEF Post
  <2>2. Derived(Payload(s, size), node) \in App
    BY <1>3, PayloadIsApp, DerivedIsApp
  <2>3. tenant' \in [Names -> App \union {None}] /\ ver' \in [Names -> Nat]
    BY <1>2, <2>1, <2>2, StoredKeeps
  <2>4. id' \in [Names -> Nat] /\ Running' = Running /\ UNCHANGED <<inflight, filtered>>
    BY <1>2 DEF Post, StoreOK, Running
  <2> QED
    BY <2>3, <2>4 DEF StoreOK
<1>6. CountsOK'
  BY DisturbedRuns DEF Post, CountsOK, Running
<1> QED
  BY <1>4, <1>5, <1>6

LEMMA RelistKeeps ==
  ASSUME ProcsOK, NEW c \in Running, Relist(c) PROVE ProcsOK'
<1> DEFINE news == [pc |-> "prepare", list |-> Seen(c), target |-> Entry(c).id, confirmed |-> TRUE]
<1>1. line' = line /\ proc[c].pc \in Editing
  BY DEF Relist, OnlyReads, IsAt, Editing
<1>2. CASE Fail(c)
  BY <1>1, <1>2, FailGood
<1>3. CASE Now(c, news)
  <2>1. Good(proc[c], line[c])
    BY DocFacts
  <2>2. Good(Updated(proc[c], news), line[c])
    BY <1>1, <2>1, PhaseGood DEF Phases, Editing, Creating
  <2> QED
    BY <1>1, <1>3, <2>2, NowGood
<1> QED
  BY <1>2, <1>3 DEF Relist

\* The next document is a spec like the last, whose change is still at hand.
LEMMA NextDocKeeps ==
  ASSUME ProcsOK, NEW c \in Running, NextDoc(c) PROVE ProcsOK'
<1> DEFINE p == proc[c]
           docs == line[c].docs
           q == Updated(p, [pc |-> "lookup", doc |-> p.doc + 1, confirmed |-> FALSE, redeploy |-> FALSE])
<1>1. line' = line /\ p.pc = "told"
  BY DEF NextDoc, OnlyReads, IsAt
<1>2. Good(p, line[c]) /\ Keys \subseteq DOMAIN p /\ IsLine(line[c])
  BY DocFacts
<1>3. CASE p.doc < Len(docs)
  <2>1. p.doc \in 1..Len(docs) /\ p.doc + 1 \in 1..Len(docs) /\ Len(docs) > 1
    BY <1>2, <1>3 DEF Good, IsLine
  <2>2. docs[p.doc].change.verb = "spec" /\ docs[p.doc + 1].change.verb = "spec"
    BY <1>2, <2>1 DEF IsLine
  <2>3. /\ Keys \subseteq DOMAIN q /\ q.pc = "lookup" /\ q.doc = p.doc + 1 /\ q.change = p.change
        /\ q.prepared = p.prepared /\ q.changed = p.changed /\ q.body = p.body /\ q.tries = p.tries
        /\ q.told = p.told
    BY <1>2, Merged DEF Keys
  <2> HIDE DEF q
  <2>4. Good(q, line[c])
    BY <1>2, <2>1, <2>2, <2>3 DEF Good, Editing, Creating, Phases
  <2>5. Now(c, [pc |-> "lookup", doc |-> p.doc + 1, confirmed |-> FALSE, redeploy |-> FALSE])
    BY <1>3 DEF NextDoc
  <2> QED
    BY <1>1, <2>4, <2>5, NowGood DEF q
<1>4. CASE ~(p.doc < Len(docs))
  <2>1. Exit(c, p.told) /\ p.told \in Reports
    BY <1>2, <1>4 DEF NextDoc, Good
  <2> QED
    BY <1>1, <2>1, ExitGood
<1> QED
  BY <1>3, <1>4

LEMMA StepKeeps ==
  ASSUME IInv, NEW c \in Running, Step(c) PROVE IInv'
<1>1. StoreOK /\ CountsOK /\ ProcsOK
  BY DEF IInv
<1>2. CASE FindApp(c)
  <2>1. OnlyReads
    BY <1>2 DEF FindApp
  <2> QED
    BY <1>1, <1>2, <2>1, FindAppKeeps, ReadsKeep DEF IInv
<1>3. CASE FindNone(c)
  <2>1. OnlyReads
    BY <1>3 DEF FindNone
  <2> QED
    BY <1>1, <1>3, <2>1, FindNoneKeeps, ReadsKeep DEF IInv
<1>4. CASE StartCreate(c)
  <2>1. OnlyReads
    BY <1>4 DEF StartCreate
  <2> QED
    BY <1>1, <1>4, <2>1, StartCreateKeeps, ReadsKeep DEF IInv
<1>5. CASE Preread(c)
  <2>1. OnlyReads
    BY <1>5 DEF Preread
  <2> QED
    BY <1>1, <1>5, <2>1, PrereadKeeps, ReadsKeep DEF IInv
<1>6. CASE Prepare(c)
  <2>1. StoreOK' /\ CountsOK'
    BY <1>1, <1>6 DEF Prepare, storeVars, StoreOK, CountsOK, Running
  <2> QED
    BY <1>1, <1>6, <2>1, PrepareKeeps DEF IInv
<1>7. CASE Answer(c)
  <2>1. OnlyReads
    BY <1>7 DEF Answer
  <2> QED
    BY <1>1, <1>7, <2>1, AnswerKeeps, ReadsKeep DEF IInv
<1>8. CASE Reread(c)
  <2>1. OnlyReads
    BY <1>8 DEF Reread
  <2> QED
    BY <1>1, <1>8, <2>1, RereadKeeps, ReadsKeep DEF IInv
<1>9. CASE Put(c)
  <2>1. CountsOK'
    BY <1>1, <1>9 DEF Put, CountsOK, Running
  <2> QED
    BY <1>1, <1>9, <2>1, PutKeeps DEF IInv
<1>10. CASE ReadBack(c)
  <2>1. OnlyReads
    BY <1>10 DEF ReadBack
  <2> QED
    BY <1>1, <1>10, <2>1, ReadBackKeeps, ReadsKeep DEF IInv
<1>11. CASE Post(c)
  BY <1>1, <1>11, PostKeeps DEF IInv
<1>12. CASE Relist(c)
  <2>1. OnlyReads
    BY <1>12 DEF Relist
  <2> QED
    BY <1>1, <1>12, <2>1, RelistKeeps, ReadsKeep DEF IInv
<1>13. CASE NextDoc(c)
  <2>1. OnlyReads
    BY <1>13 DEF NextDoc
  <2> QED
    BY <1>1, <1>13, <2>1, NextDocKeeps, ReadsKeep DEF IInv
<1>14. CASE Breaks(c)
  <2>1. OnlyReads /\ Fail(c) /\ line' = line
    BY <1>14 DEF Breaks, OnlyReads
  <2> QED
    BY <1>1, <2>1, FailGood, ReadsKeep DEF IInv
<1> QED
  BY <1>2, <1>3, <1>4, <1>5, <1>6, <1>7, <1>8, <1>9, <1>10, <1>11, <1>12, <1>13, <1>14 DEF Step

-----------------------------------------------------------------------------
(* The steps of the platform and of others.                                *)

\* Steps that leave the processes alone keep them in order.
LEMMA ProcsRest ==
  ASSUME ProcsOK, UNCHANGED <<line, proc>> PROVE ProcsOK'
  BY DEF ProcsOK, Running

LEMMA LandKeeps ==
  ASSUME IInv, NEW w \in inflight, Land(w) PROVE IInv'
<1>1. StoreOK /\ CountsOK /\ ProcsOK /\ w.name \in Names /\ w.body \in App
  BY DEF IInv, StoreOK
<1>2. UNCHANGED <<id, filtered, others, line, proc>> /\ inflight' \subseteq inflight /\ Running' = Running
  BY DEF Land, Running
<1>3. ProcsOK'
  BY <1>1, <1>2, ProcsRest
<1>4. CASE tenant[w.name] # None /\ id[w.name] = w.id
  <2>1. PICK node \in Nodes : Stored(w.name, StoredApp(tenant[w.name], w.body, filtered, node))
    BY <1>4 DEF Land
  <2>2. tenant[w.name] \in App /\ filtered \in SUBSET Fields
    BY <1>1, <1>4 DEF StoreOK
  <2>3. StoredApp(tenant[w.name], w.body, filtered, node) \in App
    BY <1>1, <2>2, StoredIsApp
  <2>4. tenant' \in [Names -> App \union {None}] /\ ver' \in [Names -> Nat]
    BY <1>1, <2>1, <2>3, StoredKeeps
  <2>5. StoreOK'
    BY <1>1, <1>2, <2>4 DEF StoreOK
  <2>6. touched' \subseteq Running
    BY <1>1, <1>4, DisturbedRuns DEF Land
  <2>7. CountsOK'
    BY <1>1, <1>2, <2>6 DEF CountsOK
  <2> QED
    BY <1>3, <2>5, <2>7 DEF IInv
<1>5. CASE ~(tenant[w.name] # None /\ id[w.name] = w.id)
  <2>1. UNCHANGED <<tenant, ver, touched>>
    BY <1>5 DEF Land
  <2> QED
    BY <1>1, <1>2, <1>3, <2>1 DEF IInv, StoreOK, CountsOK
<1> QED
  BY <1>4, <1>5

LEMMA OtherKeeps ==
  ASSUME IInv, NEW n \in Names, Other(n) PROVE IInv'
<1>1. StoreOK /\ CountsOK /\ ProcsOK
  BY DEF IInv
<1>2. UNCHANGED <<id, inflight, filtered, line, proc>> /\ Running' = Running
  BY DEF Other, Running
<1>3. ProcsOK'
  BY <1>1, <1>2, ProcsRest
<1>4. tenant[n] \in App
  BY <1>1 DEF Other, StoreOK
<1>5. [tenant[n] EXCEPT !.replicas = @ + 1] \in App
  BY <1>4 DEF App
<1>6. tenant' \in [Names -> App \union {None}] /\ ver' \in [Names -> Nat]
  BY <1>1, <1>5, StoredKeeps DEF Other
<1>7. StoreOK'
  BY <1>1, <1>2, <1>6 DEF StoreOK
<1>8. others' \in 0..MaxOthers
  BY <1>1, OthersAssumption DEF Other, CountsOK
<1>9. CountsOK'
  BY <1>1, <1>2, <1>8, DisturbedRuns DEF Other, CountsOK
<1> QED
  BY <1>3, <1>7, <1>9 DEF IInv

-----------------------------------------------------------------------------
(* The types, and what follows from them.                                  *)

LEMMA InitKeeps == Init => IInv
<1> SUFFICES ASSUME Init PROVE IInv
  OBVIOUS
<1>1. PICK s \in Scenarios : tenant = s.tenant /\ line = s.line /\ filtered = s.filtered
  BY DEF Init
<1>2. StoreOK
  BY <1>1, ScenariosAssumption DEF Init, StoreOK
<1>3. CountsOK
  BY OthersAssumption DEF Init, CountsOK
<1>4. Running \subseteq Clients /\ DOMAIN proc = Running
      /\ \A c \in Running : IsLine(line[c]) /\ proc[c] = Starting
  BY <1>1, ScenariosAssumption DEF Init, Running
<1>5. /\ Keys \subseteq DOMAIN Starting /\ Starting.pc = "lookup" /\ Starting.told \in Reports
      /\ Starting.doc = 1 /\ Starting.tries = 0 /\ Starting.changed = {}
      /\ Starting.prepared = None /\ Starting.body = None /\ Starting.change = None
  BY DEF Starting, Keys, Reports
<1>6. \A c \in Running : Good(proc[c], line[c])
  BY <1>4, <1>5, RestingGood
<1>7. ProcsOK
  BY <1>4, <1>6 DEF ProcsOK
<1> QED
  BY <1>2, <1>3, <1>7 DEF IInv

LEMMA NextKeeps == IInv /\ [Next]_vars => IInv'
<1> SUFFICES ASSUME IInv, [Next]_vars PROVE IInv'
  OBVIOUS
<1>1. CASE \E c \in Running : Step(c)
  BY <1>1, StepKeeps
<1>2. CASE \E w \in inflight : Land(w)
  BY <1>2, LandKeeps
<1>3. CASE \E n \in Names : Other(n)
  BY <1>3, OtherKeeps
<1>4. CASE UNCHANGED vars
  BY <1>4 DEF vars, storeVars, IInv, StoreOK, CountsOK, ProcsOK, Running
<1> QED
  BY <1>1, <1>2, <1>3, <1>4 DEF Next

LEMMA IInvTypes == IInv => TypeOK
<1> SUFFICES ASSUME IInv PROVE TypeOK
  OBVIOUS
<1>1. StoreOK /\ CountsOK /\ ProcsOK
  BY DEF IInv
<1>2. ASSUME NEW c \in Running
      PROVE  /\ proc[c].pc \in Phases /\ proc[c].told \in Reports
             /\ proc[c].doc \in 1..Len(line[c].docs) /\ proc[c].tries < VerifyAttempts
             /\ proc[c].changed \subseteq Fields
             /\ proc[c].change # None /\ Verb(c) \in {"spec", "create"} => proc[c].change.spec \in AppSpecs
             /\ proc[c].prepared \in App \union {None} /\ proc[c].body \in App \union {None}
  <2>1. Good(proc[c], line[c]) /\ Verb(c) = line[c].docs[proc[c].doc].change.verb
    BY <1>1, DocFacts
  <2>2. ASSUME proc[c].change # None, Verb(c) \in {"spec", "create"} PROVE proc[c].change.spec \in AppSpecs
    BY <2>1, <2>2 DEF Good, IsChange, FieldVerbs
  <2> QED
    BY <2>1, <2>2 DEF Good
<1> QED
  BY <1>1, <1>2 DEF TypeOK, StoreOK, CountsOK, ProcsOK

\* Whatever the commands, the platform and others do, in any order, every app
\* of the tenant and every write on its way is an app of the right shape, and
\* no write is read back more than VerifyAttempts times (retryReadBack).
THEOREM TypeCorrect == Spec => []TypeOK
<1>1. Spec => []IInv
  BY InitKeeps, NextKeeps, PTL DEF Spec
<1> QED
  BY <1>1, IInvTypes, PTL

\* An app of the right shape has a quiet export.
LEMMA TypesAreQuiet == TypeOK => ExportIsQuiet
<1> SUFFICES ASSUME TypeOK, NEW n \in Names, tenant[n] # None, tenant[n].scaled = HpaOn(tenant[n])
             PROVE  LET a == tenant[n]
                    IN  /\ CanApplySpec(Export(a), a) /\ SizeAllowed(Export(a).size, a.plan)
                        /\ SpecApplied(Export(a), a) = [a EXCEPT !.readiness = Cleared(a, "readiness"),
                                                                 !.liveness = Cleared(a, "liveness")]
  BY DEF ExportIsQuiet
<1> DEFINE a == tenant[n]
<1>1. a \in App
  BY DEF TypeOK
<1>2. /\ CanApplySpec(Export(a), a) /\ SizeAllowed(Export(a).size, a.plan)
      /\ SpecApplied(Export(a), a)
           = [a EXCEPT !.readiness = IF /\ a.readiness # None /\ a.config.probes["readiness"] # None
                                        /\ ~Inexpressible(a) THEN None ELSE a.readiness,
                       !.liveness = IF /\ a.liveness # None /\ a.config.probes["liveness"] # None
                                       /\ ~Inexpressible(a) THEN None ELSE a.liveness]
  BY <1>1, ExportFixed
<1> HIDE DEF a
<1>3. /\ Cleared(a, "readiness") = IF /\ a.readiness # None /\ a.config.probes["readiness"] # None
                                      /\ ~Inexpressible(a) THEN None ELSE a.readiness
      /\ Cleared(a, "liveness") = IF /\ a.liveness # None /\ a.config.probes["liveness"] # None
                                     /\ ~Inexpressible(a) THEN None ELSE a.liveness
  BY DEF Cleared, Twice
<1> QED
  BY <1>2, <1>3 DEF a

\* Whatever was done to the apps of a tenant, each one's own export applies to
\* it and changes nothing (probesFromApp, applySpecTo).
THEOREM ExportQuiet == Spec => []ExportIsQuiet
  BY TypeCorrect, TypesAreQuiet, PTL

-----------------------------------------------------------------------------
(* What a change names, and what it leaves alone.                          *)

\* The change made is the one asked for, but for what a read has filled in:
\* the other half of a command, the challenge of a domain (Preread).
Filled(made, asked) ==
  /\ made.verb = asked.verb
  /\ asked.verb = "domain" => /\ made.add = asked.add /\ made.remove = asked.remove
                              /\ asked.add = {} /\ asked.challenge = None => made.challenge = None
  /\ asked.verb \notin {"command", "domain"} => made = asked

LEMMA FieldsNamed ==
  ASSUME NEW a \in App, NEW made, NEW asked, IsChange(made), IsChange(asked), Filled(made, asked),
         asked.verb \in FieldVerbs, NEW b, b = Changed(made, a)
  PROVE  /\ \A f \in Fields \ Named(asked) : b[f] = a[f]
         /\ asked.verb # "patch" => b.disk = a.disk /\ b.svc = a.svc
<1>1. /\ made.verb = asked.verb /\ DOMAIN made.fields \subseteq VerbFields[asked.verb]
      /\ asked.verb # "command" => made.fields = asked.fields
  BY DEF Filled, IsChange, FieldVerbs
<1>2. \A f \in Fields : b[f] = IF f \in DOMAIN made.fields THEN made.fields[f] ELSE a[f]
  BY <1>1 DEF Changed, FieldVerbs, Overridden
<1>3. Fields \cap DOMAIN made.fields \subseteq Named(asked)
  <2>1. CASE asked.verb = "resources"
    BY <1>1, <2>1 DEF Named, VerbFields
  <2>2. CASE asked.verb = "command"
    BY <1>1, <2>2 DEF Named, VerbFields
  <2>3. CASE asked.verb \in {"scale", "subdomain", "patch"}
    BY <1>1, <2>3 DEF Named
  <2> QED
    BY <2>1, <2>2, <2>3 DEF FieldVerbs
<1>4. ASSUME asked.verb # "patch" PROVE b.disk = a.disk /\ b.svc = a.svc
  <2>1. {"disk", "svc"} \cap DOMAIN made.fields = {}
    BY <1>1, <1>4 DEF VerbFields, FieldVerbs
  <2> QED
    BY <1>2, <2>1 DEF Fields
<1> QED
  BY <1>2, <1>3, <1>4

\* Public ports stay with the names they belong to (mergePorts).
LEMMA ServedKeepsNodes ==
  ASSUME NEW s \in Svc, NEW type, NEW ports, NEW n \in PortNames,
         s.ports[n] # None, Served(s, type, ports).ports[n] # None
  PROVE  Served(s, type, ports).nodes[n] = s.nodes[n]
  BY DEF Served, Given, MergedNodes

\* Writing probes leaves the autoscaling block.
LEMMA ConfigHpa ==
  ASSUME NEW a, DOMAIN a = Fields, "hpa" \in DOMAIN a.config, NEW want
  PROVE  Probed(a, want).config.hpa = a.config.hpa
  BY DEF Probed, Fields

\* A spec writes the settings it has, and no other (applySpecTo).
LEMMA SpecNamed ==
  ASSUME NEW a \in App, NEW s \in AppSpecs, CanApplySpec(s, a), NEW k, k.verb = "spec", k.spec = s,
         NEW b, b = SpecApplied(s, a)
  PROVE  /\ \A f \in Fields \ (Named(k) \union {"svc"}) : b[f] = a[f]
         /\ "svc" \notin Named(k) => b.svc = a.svc
         /\ b.svc = Served(a.svc, s.svcType, s.ports) /\ b.disk = Given(s.disk, a.disk)
         /\ s.bounds = None => b.config.hpa = a.config.hpa
         /\ s.probes = None => b.config.probes = a.config.probes
<1>1. Named(k) = {f \in {"image", "git", "plan", "command", "args", "disk", "envs"} : s[f] # None}
         \union (IF s.bounds # None THEN {"config", "scaled"}
                 ELSE IF s.replicas # None THEN {"replicas"} ELSE {})
         \union (IF s.probes # None THEN {"readiness", "liveness", "config"} ELSE {})
         \union (IF s.svcType # None \/ s.ports # None THEN {"svc"} ELSE {})
         \union (IF s.plan # None \/ s.size # None THEN {"size"} ELSE {})
  BY DEF Named
<1>2. Settled(s, a, b)
  BY SpecFields
<1>3. b.svc = Served(a.svc, s.svcType, s.ports) /\ b.disk = Given(s.disk, a.disk)
  BY <1>2 DEF Settled
<1>4. "svc" \notin Named(k) => b.svc = a.svc
  <2>1. "svc" \notin Named(k) => s.svcType = None /\ s.ports = None
    BY <1>1
  <2>2. Served(a.svc, None, None) = a.svc
    BY SameService DEF App
  <2> QED
    BY <1>3, <2>1, <2>2
<1>5. /\ s.bounds = None => b.config.hpa = a.config.hpa
      /\ s.probes = None => b.config.probes = a.config.probes
      /\ s.bounds = None /\ s.probes = None => b.config = a.config
  <2>1. a.config = ConfigOf(a.config.hpa, a.config.probes)
    BY DEF App, Config, ConfigOf
  <2>2. \A h, p : ConfigOf(h, p).hpa = h /\ ConfigOf(h, p).probes = p
    BY DEF ConfigOf
  <2> QED
    BY <1>2, <2>1, <2>2 DEF Settled
<1>6. \A f \in {"image", "git", "plan", "command", "args", "disk", "envs"} \ Named(k) : b[f] = a[f]
  <2>1. \A f \in {"image", "git", "plan", "command", "args", "disk", "envs"} \ Named(k) : s[f] = None
    BY <1>1
  <2> QED
    BY <1>2, <2>1 DEF Settled, Given
<1>7. "size" \notin Named(k) => b.size = a.size
  BY <1>1, <1>2 DEF Settled, Given
<1>8. "replicas" \notin Named(k) => b.replicas = a.replicas
  BY <1>1, <1>2 DEF Settled, ReplicasAfter, Given
<1>9. /\ "config" \notin Named(k) => b.config = a.config
      /\ "scaled" \notin Named(k) => b.scaled = a.scaled
      /\ "readiness" \notin Named(k) => b.readiness = a.readiness
      /\ "liveness" \notin Named(k) => b.liveness = a.liveness
  <2>1. "config" \notin Named(k) \/ "scaled" \notin Named(k) => s.bounds = None
    BY <1>1
  <2>2. "config" \notin Named(k) \/ "readiness" \notin Named(k) \/ "liveness" \notin Named(k) => s.probes = None
    BY <1>1
  <2> QED
    BY <1>2, <1>5, <2>1, <2>2 DEF Settled
<1>10. b.hosts = a.hosts /\ b.challenge = a.challenge /\ b.ssl = a.ssl /\ b.subdomain = a.subdomain
  BY <1>2 DEF Settled
<1>11. \A f \in Fields \ (Named(k) \union {"svc"}) : b[f] = a[f]
  BY <1>6, <1>7, <1>8, <1>9, <1>10 DEF Fields
<1> QED
  BY <1>3, <1>4, <1>5, <1>11

\* Where the disk and the services stay as they are nothing shrinks or moves.
LEMMA NothingShrinks ==
  ASSUME NEW a \in App PROVE a.disk # None => a.disk >= a.disk
  BY DEF App, Maybe

\* What a verb makes of an app differs from it only in what the change names,
\* shrinks no disk and moves no public port.
LEMMA ChangeNamed ==
  ASSUME NEW a \in App, NEW made, NEW asked, IsChange(made), IsChange(asked), Filled(made, asked),
         made.verb # "create", CanChange(made, a), NEW b, b = Changed(made, a)
  PROVE  /\ \A f \in Fields \ (Named(asked) \union {"svc"}) : b[f] = a[f]
         /\ "svc" \notin Named(asked) => b.svc = a.svc
         /\ KeepsParts(asked, a, b)
<1>1. made.verb = asked.verb
  BY DEF Filled
<1>2. CASE asked.verb \in FieldVerbs
  BY <1>2, FieldsNamed, NothingShrinks DEF KeepsParts, FieldVerbs, Fields
<1>3. CASE asked.verb = "svc-type"
  <2>1. b = [a EXCEPT !.svc.type = made.type]
    BY <1>1, <1>3 DEF Changed, FieldVerbs
  <2>2. \A f \in Fields \ {"svc"} : b[f] = a[f]
    BY <2>1 DEF App, Fields
  <2>3. b.svc.ports = a.svc.ports /\ b.svc.nodes = a.svc.nodes
    BY <2>1 DEF App, Svc
  <2>4. Named(asked) = {"svc"}
    BY <1>3 DEF Named
  <2> QED
    BY <1>3, <2>2, <2>3, <2>4, NothingShrinks DEF KeepsParts, Fields
<1>4. CASE asked.verb = "autoscale"
  <2>1. b = Autoscaled(a, made.bounds)
    BY <1>1, <1>4 DEF Changed, FieldVerbs
  <2>2. \A f \in Fields \ {"config", "scaled"} : b[f] = a[f]
    BY <2>1 DEF App, Fields, Autoscaled
  <2>3. b.config.probes = a.config.probes
    BY <2>1 DEF App, Config, Autoscaled
  <2>4. Named(asked) = {"config", "scaled"}
    BY <1>4 DEF Named
  <2>5. b.svc = a.svc /\ b.disk = a.disk
    BY <2>2 DEF Fields
  <2> QED
    BY <1>4, <2>2, <2>3, <2>4, <2>5, NothingShrinks DEF KeepsParts
<1>5. CASE asked.verb = "disk"
  <2>1. b = [a EXCEPT !.disk = made.size]
    BY <1>1, <1>5 DEF Changed, FieldVerbs
  <2>2. a.disk # None /\ a.disk <= made.size
    BY <1>1, <1>5 DEF CanChange, CanGrow
  <2>3. \A f \in Fields \ {"disk"} : b[f] = a[f]
    BY <2>1 DEF App, Fields
  <2>4. b.disk >= a.disk
    <3>1. made.size \in Nat \ {0} /\ a.disk \in Nat
      BY <1>1, <1>5, <2>2 DEF IsChange, FieldVerbs, App, Maybe
    <3>2. b.disk = made.size
      BY <2>1 DEF App
    <3> QED
      BY <2>2, <3>1, <3>2
  <2>5. Named(asked) = {"disk"}
    BY <1>5 DEF Named
  <2>6. b.svc = a.svc
    BY <2>3 DEF Fields
  <2> QED
    BY <1>5, <2>3, <2>4, <2>5, <2>6 DEF KeepsParts
<1>6. CASE asked.verb = "probe"
  <2>1. made = asked /\ b = Probed(a, made.probes)
    BY <1>1, <1>6 DEF Filled, Changed, FieldVerbs
  <2>2. DOMAIN made.probes \subseteq Kinds
    BY <1>1, <1>6 DEF IsChange, FieldVerbs
  <2>3. Named(asked) = DOMAIN made.probes \union {"config"}
    BY <1>6, <2>1 DEF Named
  <2>4. \A f \in Fields \ {"readiness", "liveness", "config"} : b[f] = a[f]
    BY <2>1 DEF Probed, App, Fields
  <2>5. /\ b.readiness = PathAfter(a, made.probes, "readiness")
        /\ b.liveness = PathAfter(a, made.probes, "liveness")
    BY <2>1 DEF Probed, App
  <2>6. \A f \in {"readiness", "liveness"} \ DOMAIN made.probes : b[f] = a[f]
    BY <2>5 DEF PathAfter
  <2>7. b.config.hpa = a.config.hpa
        /\ \A p \in Kinds : b.config.probes[p] = ProbeAfter(a, made.probes, p)
    <3>1. DOMAIN a = Fields /\ "hpa" \in DOMAIN a.config /\ "probes" \in DOMAIN a.config
      BY DEF App, Config, Fields
    <3>2. b.config.hpa = a.config.hpa
      BY <2>1, <3>1, ConfigHpa
    <3> DEFINE probes == [p \in Kinds |-> ProbeAfter(a, made.probes, p)]
    <3>3. b.config.probes = probes
      <4> HIDE DEF probes
      <4>1. b = [a EXCEPT !.readiness = PathAfter(a, made.probes, "readiness"),
                          !.liveness = PathAfter(a, made.probes, "liveness"),
                          !.config.probes = probes]
        BY <2>1 DEF Probed, probes
      <4> QED
        BY <3>1, <4>1 DEF Fields
    <3> QED
      BY <3>2, <3>3
  <2>8. \A p \in Kinds \ DOMAIN asked.probes : b.config.probes[p] = a.config.probes[p]
    BY <2>1, <2>7 DEF ProbeAfter
  <2>9. b.svc = a.svc /\ b.disk = a.disk
    BY <2>4 DEF Fields
  <2> QED
    BY <1>6, <2>3, <2>4, <2>6, <2>7, <2>8, <2>9, NothingShrinks DEF KeepsParts
<1>7. CASE asked.verb = "domain"
  <2>1. b = [a EXCEPT !.hosts = (@ \union made.add) \ made.remove, !.challenge = Given(made.challenge, @),
                      !.ssl = @ \/ made.challenge # None]
    BY <1>1, <1>7 DEF Changed, FieldVerbs
  <2>2. \A f \in Fields \ {"hosts", "challenge", "ssl"} : b[f] = a[f]
    BY <2>1 DEF App, Fields
  <2>3. made.challenge = None => b.challenge = a.challenge /\ b.ssl = a.ssl
    BY <2>1 DEF App, Given
  <2>4. asked.add = {} /\ asked.challenge = None => made.challenge = None
    BY <1>7 DEF Filled
  <2>5. Named(asked) = {"hosts"} \union (IF asked.add # {} \/ asked.challenge # None
                                         THEN {"challenge", "ssl"} ELSE {})
    BY <1>7 DEF Named
  <2>6. b.svc = a.svc /\ b.disk = a.disk
    BY <2>2 DEF Fields
  <2> QED
    BY <1>7, <2>2, <2>3, <2>4, <2>5, <2>6, NothingShrinks DEF KeepsParts
<1>8. CASE asked.verb = "spec"
  <2>1. made = asked
    BY <1>8 DEF Filled
  <2> DEFINE s == asked.spec
  <2>2. s \in AppSpecs /\ CanApplySpec(s, a) /\ b = SpecApplied(s, a)
    BY <1>8, <2>1 DEF IsChange, FieldVerbs, CanChange, Changed
  <2>3. /\ \A f \in Fields \ (Named(asked) \union {"svc"}) : b[f] = a[f]
        /\ "svc" \notin Named(asked) => b.svc = a.svc
        /\ b.svc = Served(a.svc, s.svcType, s.ports) /\ b.disk = Given(s.disk, a.disk)
        /\ s.bounds = None => b.config.hpa = a.config.hpa
        /\ s.probes = None => b.config.probes = a.config.probes
    BY <1>8, <2>2, SpecNamed
  <2>4. a.disk # None => b.disk >= a.disk
    <3>1. a.disk # None => a.disk \in Nat
      BY DEF App, Maybe
    <3>2. s.disk # None => s.disk \in Nat /\ a.disk <= s.disk
      BY <2>2 DEF CanApplySpec, CanGrow, AppSpecs, Maybe
    <3> QED
      BY <2>3, <3>1, <3>2 DEF Given
  <2>5. s.ports = None => b.svc.ports = a.svc.ports
    BY <2>3 DEF Served, Given
  <2>6. a.svc \in Svc
    BY DEF App
  <2>7. \A n \in Declared(a) \cap Declared(b) : b.svc.nodes[n] = a.svc.nodes[n]
    BY <2>3, <2>6, ServedKeepsNodes DEF Declared
  <2> QED
    BY <1>8, <2>3, <2>4, <2>5, <2>7 DEF KeepsParts
<1> QED
  BY <1>1, <1>2, <1>3, <1>4, <1>5, <1>6, <1>7, <1>8 DEF IsChange

\* Who names a plan names the size.
LEMMA PlanNamesSize ==
  ASSUME NEW k, IsChange(k), k.verb # "create", "plan" \in Named(k)
  PROVE  "size" \in Named(k)
<1>1. CASE k.verb \in FieldVerbs
  BY <1>1 DEF Named, FieldVerbs
<1>2. CASE k.verb = "probe"
  <2>1. DOMAIN k.probes \subseteq Kinds
    BY <1>2 DEF IsChange, FieldVerbs
  <2> QED
    BY <1>2, <2>1 DEF Named, Kinds
<1>3. CASE k.verb \in {"svc-type", "autoscale", "disk", "domain"}
  BY <1>3 DEF Named
<1>4. CASE k.verb = "spec"
  BY <1>4 DEF Named
<1> QED
  BY <1>1, <1>2, <1>3, <1>4 DEF IsChange

\* b differs from a only in what the change k names.
NamedEdit(k, a, b) ==
  /\ \A f \in Fields \ (Named(k) \union {"svc"}) : b[f] = a[f]
  /\ "svc" \notin Named(k) => b.svc = a.svc
  /\ KeepsParts(k, a, b)

\* The platform adds nothing to what a write changes: the size of a plan comes
\* with the plan, public ports come with a service of another type.
LEMMA StoredNamed ==
  ASSUME NEW a \in App, SizeFits(a), NEW b \in App, NEW k, IsChange(k), k.verb # "create",
         NamedEdit(k, a, b), NEW drops, NEW node, NEW c, c = StoredApp(a, b, drops, node)
  PROVE  /\ \A f \in Fields \ (Named(k) \union {"svc"}) : c[f] = a[f]
         /\ "svc" \notin Named(k) => SameAfterWrite("svc", a, c)
         /\ KeepsParts(k, a, c)
<1> DEFINE m == [f \in Fields |-> IF f \in drops THEN a[f] ELSE b[f]]
<1>1. \A f \in Fields : m[f] = a[f] \/ m[f] = b[f]
  OBVIOUS
<1>2. DOMAIN m = Fields
  OBVIOUS
<1>3. c = Derived(m, node)
  BY DEF StoredApp
<1> HIDE DEF m
<1>4. "svc" \in Fields /\ "size" \in Fields /\ "plan" \in Fields /\ "disk" \in Fields /\ "config" \in Fields
  BY DEF Fields
<1>5. m.svc \in Svc
  BY <1>1, <1>4 DEF App
<1>6. DOMAIN m.svc = {"type", "ports", "nodes"}
  BY <1>5 DEF Svc
<1>7. /\ \A f \in Fields \ {"size", "svc"} : c[f] = m[f]
      /\ c.size = Given(PlanSize[m.plan], m.size)
      /\ c.svc.type = m.svc.type /\ c.svc.ports = m.svc.ports
      /\ \A n \in PortNames : m.svc.nodes[n] # None => c.svc.nodes[n] = m.svc.nodes[n]
  <2> DEFINE nodes == [n \in PortNames |->
                         IF m.svc.type # "ClusterIP" /\ m.svc.ports[n] # None THEN Given(m.svc.nodes[n], node)
                         ELSE m.svc.nodes[n]]
  <2>1. c = [m EXCEPT !.size = Given(PlanSize[m.plan], @), !.svc.nodes = nodes]
    BY <1>3 DEF Derived
  <2>2. \A n \in PortNames : m.svc.nodes[n] # None => nodes[n] = m.svc.nodes[n]
    BY DEF Given
  <2> HIDE DEF nodes
  <2>3. /\ \A f \in Fields \ {"size", "svc"} : c[f] = m[f]
        /\ c.size = Given(PlanSize[m.plan], m.size)
    BY <1>2, <1>4, <2>1
  <2>4. c.svc.type = m.svc.type /\ c.svc.ports = m.svc.ports /\ c.svc.nodes = nodes
    BY <1>2, <1>4, <1>6, <2>1
  <2> QED
    BY <2>2, <2>3, <2>4
<1>8. \A f \in Fields \ (Named(k) \union {"svc"}) : m[f] = a[f]
  BY <1>1 DEF NamedEdit
<1>9. "size" \notin Named(k) => c.size = a.size
  <2> SUFFICES ASSUME "size" \notin Named(k) PROVE c.size = a.size
    OBVIOUS
  <2>1. "plan" \notin Named(k)
    BY PlanNamesSize
  <2>2. m.plan = a.plan /\ m.size = a.size
    BY <1>4, <1>8, <2>1
  <2> QED
    BY <1>7, <2>2 DEF SizeFits, Given
<1>10. \A f \in Fields \ (Named(k) \union {"svc"}) : c[f] = a[f]
  BY <1>7, <1>8, <1>9
<1>11. "svc" \notin Named(k) => SameAfterWrite("svc", a, c)
  <2>1. "svc" \notin Named(k) => m.svc = a.svc
    BY <1>1, <1>4 DEF NamedEdit
  <2> QED
    BY <1>7, <2>1 DEF SameAfterWrite
<1>12. c.config = m.config /\ c.disk = m.disk
  BY <1>4, <1>7
<1>13. KeepsParts(k, a, m)
  <2>1. /\ m.config = a.config \/ m.config = b.config
        /\ m.disk = a.disk \/ m.disk = b.disk
        /\ m.svc = a.svc \/ m.svc = b.svc
    BY <1>1, <1>4
  <2>2. a.disk # None => a.disk >= a.disk
    BY NothingShrinks
  <2> QED
    BY <2>1, <2>2 DEF NamedEdit, KeepsParts, Declared
<1>14. KeepsParts(k, a, c)
  <2>1. \A n \in Declared(a) \cap Declared(c) : n \in Declared(m) /\ n \in PortNames
    BY <1>7 DEF Declared
  <2>2. k.verb # "patch" => \A n \in Declared(a) \cap Declared(c) :
                              a.svc.nodes[n] # None => c.svc.nodes[n] = a.svc.nodes[n]
    BY <1>7, <1>13, <2>1 DEF KeepsParts
  <2> QED
    BY <1>7, <1>12, <1>13, <2>2 DEF KeepsParts
<1> QED
  BY <1>10, <1>11, <1>14

\* The platform stores an app with the size of its plan.
LEMMA DerivedFits ==
  ASSUME NEW b \in App, NEW node PROVE SizeFits(Derived(b, node))
<1> DEFINE c == Derived(b, node)
<1>1. c.plan = b.plan /\ c.size = Given(PlanSize[b.plan], b.size)
  BY DEF Derived, App
<1> HIDE DEF c
<1>2. SizeFits(c)
  BY <1>1 DEF SizeFits, Given
<1> QED
  BY <1>2 DEF c

\* So has what a write leaves that some fields were filtered from.
LEMMA StoredFits ==
  ASSUME NEW a \in App, NEW b \in App, NEW drops, NEW node
  PROVE  SizeFits(StoredApp(a, b, drops, node))
<1> PICK m : m = [f \in Fields |-> IF f \in drops THEN a[f] ELSE b[f]]
  OBVIOUS
<1>1. m \in App /\ DOMAIN m = Fields /\ DOMAIN m.svc = {"type", "ports", "nodes"}
  BY MixedIsApp
<1>2. StoredApp(a, b, drops, node) = Derived(m, node)
  BY DEF StoredApp
<1> QED
  BY <1>1, <1>2, DerivedFits

\* What leaves an app as it is changes nothing it does not name.
LEMMA SameNamed ==
  ASSUME NEW a \in App, NEW k PROVE NamedEdit(k, a, a)
  BY NothingShrinks DEF NamedEdit, KeepsParts

-----------------------------------------------------------------------------
(* Writes that are stored over the app they were read from.                *)

\* A body that was read and changed at version base of an app that is now a,
\* at version v: nothing else was stored since, then it changes what k names.
Pending(v, a, k, base, body) ==
  /\ base \in Nat /\ base <= v
  /\ base = v /\ a # None => NamedEdit(k, a, body)

\* A process in the middle of a document makes the document's change, and what
\* it is about to send is pending (v and t are the versions and the apps).
EditGood(p, l, v, t) ==
  LET doc == l.docs[p.doc]
  IN  /\ p.pc \in Editing \union Creating => Filled(p.change, doc.change)
      /\ p.pc = "put" => Pending(v[doc.name], t[doc.name], doc.change, p.base, p.body)

EditsOK == \A c \in Running : EditGood(proc[c], line[c], ver, tenant)

WritesOK ==
  \A w \in inflight :
    /\ w.by \in Running /\ w.name \in Names /\ w.doc \in 1..Len(line[w.by].docs)
    /\ ChangeOf(w).verb # "create"
    /\ Pending(ver[w.name], tenant[w.name], ChangeOf(w), w.base, w.body)

SizesOK == \A n \in Names : tenant[n] # None => SizeFits(tenant[n])

SerialInv == IInv /\ EditsOK /\ WritesOK /\ SizesOK

\* An app that changes has a new version.
Advance == \A n \in Names : (tenant'[n] = tenant[n] /\ ver'[n] = ver[n]) \/ ver'[n] > ver[n]

LEMMA StoredAdvances ==
  ASSUME StoreOK, NEW n \in Names, NEW a, Stored(n, a) PROVE Advance
  BY DEF StoreOK, Stored, Advance

LEMMA PendingStays ==
  ASSUME StoreOK, Advance, NEW n \in Names, NEW k, NEW base, NEW body,
         Pending(ver[n], tenant[n], k, base, body), ver'[n] \in Nat
  PROVE  Pending(ver'[n], tenant'[n], k, base, body)
<1>1. ver[n] \in Nat
  BY DEF StoreOK
<1> QED
  BY <1>1 DEF Pending, Advance

LEMMA WritesStay ==
  ASSUME StoreOK, WritesOK, Advance, StoreOK', inflight' \subseteq inflight, line' = line
  PROVE  WritesOK'
<1>1. Running' = Running /\ ver' \in [Names -> Nat]
  BY DEF Running, StoreOK
<1>2. ASSUME NEW w \in inflight'
      PROVE  /\ w.by \in Running /\ w.name \in Names /\ w.doc \in 1..Len(line[w.by].docs)
             /\ line[w.by].docs[w.doc].change.verb # "create"
             /\ Pending(ver'[w.name], tenant'[w.name], line[w.by].docs[w.doc].change, w.base, w.body)
  BY <1>1, PendingStays DEF WritesOK, ChangeOf
<1> QED
  BY <1>1, <1>2 DEF WritesOK, ChangeOf

LEMMA SizesStay ==
  ASSUME SizesOK, UNCHANGED tenant PROVE SizesOK'
  BY DEF SizesOK

LEMMA SizesStored ==
  ASSUME StoreOK, SizesOK, NEW n \in Names, NEW a, a = None \/ SizeFits(a), Stored(n, a)
  PROVE  SizesOK'
  BY DEF SizesOK, Stored, StoreOK

\* What a process is about to send stays pending whatever is stored.
LEMMA EditsAge ==
  ASSUME StoreOK, ProcsOK, EditsOK, Advance, StoreOK', NEW d \in Running
  PROVE  EditGood(proc[d], line[d], ver', tenant')
<1> DEFINE doc == line[d].docs[proc[d].doc]
<1>1. doc.name \in Names
  BY DocFacts DEF Name, Doc
<1>2. ver'[doc.name] \in Nat
  BY <1>1 DEF StoreOK
<1>3. EditGood(proc[d], line[d], ver, tenant)
  BY DEF EditsOK
<1> QED
  BY <1>1, <1>2, <1>3, PendingStays DEF EditGood

\* Nobody moves.
LEMMA NoneEdits ==
  ASSUME StoreOK, ProcsOK, EditsOK, Advance, StoreOK', UNCHANGED <<line, proc>>
  PROVE  EditsOK'
  BY EditsAge DEF EditsOK, Running

\* One process moves, and the platform may store something.
LEMMA OneEdits ==
  ASSUME StoreOK, ProcsOK, EditsOK, Advance, StoreOK', NEW c \in Running, NEW q,
         proc' = [proc EXCEPT ![c] = q], line' = line, EditGood(q, line[c], ver', tenant')
  PROVE  EditsOK'
<1>1. \A d \in Running : proc'[d] = IF d = c THEN q ELSE proc[d]
  BY DEF ProcsOK
<1>2. \A d \in Running : EditGood(proc'[d], line[d], ver', tenant')
  BY <1>1, EditsAge
<1> QED
  BY <1>2 DEF EditsOK, Running

LEMMA ExitEdits ==
  ASSUME StoreOK, ProcsOK, EditsOK, Advance, StoreOK', NEW c \in Running, NEW report,
         Exit(c, report), line' = line
  PROVE  EditsOK'
<1> DEFINE q == [Starting EXCEPT !.pc = "done", !.told = report]
<1>1. q.pc = "done"
  BY DEF Starting
<1> HIDE DEF q
<1>2. EditGood(q, line[c], ver', tenant')
  BY <1>1 DEF EditGood, Editing, Creating
<1> QED
  BY <1>2, OneEdits DEF Exit, q

LEMMA FailEdits ==
  ASSUME StoreOK, ProcsOK, EditsOK, Advance, StoreOK', NEW c \in Running, Fail(c), line' = line
  PROVE  EditsOK'
  BY ExitEdits DEF Fail

\* A process that ends a document, or moves on in it with the same change.
LEMMA NowEdits ==
  ASSUME StoreOK, ProcsOK, EditsOK, Advance, StoreOK', NEW c \in Running, NEW news, Now(c, news),
         line' = line,
         LET next == IF "pc" \in DOMAIN news THEN news.pc ELSE proc[c].pc
         IN  \/ next \notin Editing \union Creating
             \/ /\ {"doc", "change"} \cap DOMAIN news = {} /\ next # "put"
                /\ proc[c].pc \in Editing \union Creating
  PROVE  EditsOK'
<1> DEFINE q == Updated(proc[c], news)
<1>1. /\ Keys \subseteq DOMAIN q
      /\ \A x \in Keys : q[x] = IF x \in DOMAIN news THEN news[x] ELSE proc[c][x]
  BY DocFacts, Merged
<1> HIDE DEF q
<1>2. EditGood(proc[c], line[c], ver, tenant)
  BY DEF EditsOK
<1>3. q.pc = IF "pc" \in DOMAIN news THEN news.pc ELSE proc[c].pc
  BY <1>1 DEF Keys
<1>4. {"doc", "change"} \cap DOMAIN news = {} => q.doc = proc[c].doc /\ q.change = proc[c].change
  BY <1>1 DEF Keys
<1>5. EditGood(q, line[c], ver', tenant')
  BY <1>2, <1>3, <1>4 DEF EditGood, Editing, Creating
<1> QED
  BY <1>5, OneEdits DEF Now, q

\* A process that takes up a change, or fills it in.
LEMMA ChangeEdits ==
  ASSUME StoreOK, ProcsOK, EditsOK, Advance, StoreOK', NEW c \in Running, NEW news, Now(c, news),
         line' = line, {"pc", "change"} \subseteq DOMAIN news, "doc" \notin DOMAIN news, news.pc # "put",
         Filled(news.change, Doc(c).change)
  PROVE  EditsOK'
<1> DEFINE q == Updated(proc[c], news)
<1>1. q.pc = news.pc /\ q.change = news.change /\ q.doc = proc[c].doc
  BY DocFacts, Merged DEF Keys
<1> HIDE DEF q
<1>2. EditGood(q, line[c], ver', tenant')
  BY <1>1 DEF EditGood, Doc
<1> QED
  BY <1>2, OneEdits DEF Now, q

\* Every step of a process keeps what it does to the document at hand.
LEMMA StepEdits ==
  ASSUME IInv, EditsOK, NEW c \in Running, Step(c), StoreOK', Advance PROVE EditsOK'
<1>1. StoreOK /\ ProcsOK
  BY DEF IInv
<1>2. line' = line
  BY DEF Step, FindApp, FindNone, StartCreate, Preread, Prepare, Answer, Reread, Put, ReadBack, Post,
         Relist, NextDoc, Breaks, OnlyReads
<1>3. ASSUME Fail(c) PROVE EditsOK'
  BY <1>1, <1>2, <1>3, FailEdits
<1>4. EditGood(proc[c], line[c], ver, tenant) /\ Name(c) = line[c].docs[proc[c].doc].name
  BY DEF EditsOK, Name, Doc
<1>5. Filled(Doc(c).change, Doc(c).change)
  BY DEF Filled
<1>6. CASE FindApp(c)
  <2>1. CASE Fail(c)
    BY <1>3, <2>1
  <2>2. CASE ~Fail(c)
    <3> DEFINE news == [pc |-> IF Doc(c).change.verb \in PrereadVerbs THEN "preread" ELSE "prepare",
                        list |-> Seen(c), target |-> Entry(c).id, change |-> Doc(c).change]
    <3>1. Now(c, news)
      BY <1>6, <2>2 DEF FindApp
    <3>2. {"pc", "change"} \subseteq DOMAIN news /\ "doc" \notin DOMAIN news /\ news.pc # "put"
          /\ news.change = Doc(c).change
      OBVIOUS
    <3> HIDE DEF news
    <3> QED
      BY <1>1, <1>2, <1>5, <3>1, <3>2, ChangeEdits
  <2> QED
    BY <2>1, <2>2
<1>7. ASSUME Now(c, [pc |-> "createPrompt", change |-> Doc(c).change]) PROVE EditsOK'
  BY <1>1, <1>2, <1>5, <1>7, ChangeEdits
<1>8. CASE FindNone(c)
  <2>1. CASE Now(c, [pc |-> "told", told |-> "wouldCreate", list |-> Seen(c)])
    BY <1>1, <1>2, <2>1, NowEdits DEF Editing, Creating
  <2> QED
    BY <1>3, <1>7, <1>8, <2>1 DEF FindNone
<1>9. CASE StartCreate(c)
  BY <1>3, <1>7, <1>9 DEF StartCreate
<1>10. CASE Preread(c)
  <2> DEFINE k == proc[c].change
  <2>1. proc[c].pc = "preread" /\ proc[c].pc \in Editing
    BY <1>10 DEF Preread, IsAt, Editing
  <2>2. Filled(k, Doc(c).change)
    BY <1>4, <2>1 DEF EditGood, Doc
  <2>3. CASE Goto(c, "prepare")
    BY <1>1, <1>2, <2>1, <2>3, NowEdits DEF Goto
  <2>4. ASSUME NEW both, Live(c), k.verb = "command",
               Now(c, [pc |-> "prepare", change |-> [k EXCEPT !.fields = both]])
        PROVE  EditsOK'
    <3>1. "verb" \in DOMAIN k
      BY <1>1, <2>1, <2>4, EditFacts DEF IsChange
    <3> DEFINE new == [k EXCEPT !.fields = both]
    <3> HIDE DEF k
    <3>2. new.verb = k.verb
      BY <3>1
    <3>3. Filled(new, Doc(c).change)
      BY <2>2, <2>4, <3>2 DEF Filled
    <3> HIDE DEF new
    <3>4. Now(c, [pc |-> "prepare", change |-> new])
      BY <2>4 DEF new
    <3> QED
      BY <1>1, <1>2, <3>3, <3>4, ChangeEdits
  <2>5. CASE Live(c) /\ k.verb = "domain"
             /\ Now(c, [pc |-> "prepare", change |-> [k EXCEPT !.challenge = ChallengeFor(k, tenant[Name(c)])]])
    <3>1. IsChange(k)
      BY <1>1, <2>1, <2>5, EditFacts
    <3>2. "verb" \in DOMAIN k /\ "challenge" \in DOMAIN k
      BY <2>5, <3>1 DEF IsChange, FieldVerbs
    <3> DEFINE challenge == ChallengeFor(k, tenant[Name(c)])
               new == [k EXCEPT !.challenge = challenge]
    <3>3. k.add = {} /\ k.challenge = None => challenge = None
      BY DEF ChallengeFor
    <3> HIDE DEF k, challenge
    <3>4. new.verb = k.verb /\ new.add = k.add /\ new.remove = k.remove /\ new.challenge = challenge
      BY <3>2
    <3>5. Filled(new, Doc(c).change)
      BY <2>2, <2>5, <3>3, <3>4 DEF Filled
    <3> HIDE DEF new
    <3>6. Now(c, [pc |-> "prepare", change |-> new])
      BY <2>5 DEF new, challenge
    <3> QED
      BY <1>1, <1>2, <3>5, <3>6, ChangeEdits
  <2> QED
    BY <1>3, <1>10, <2>3, <2>4, <2>5 DEF Preread
<1>11. CASE Prepare(c)
  <2>1. proc[c].pc \in Editing
    BY <1>11 DEF Prepare, IsAt, Editing
  <2>2. CASE ~Fail(c)
    <3> DEFINE b == Changed(proc[c].change, tenant[Name(c)])
               verdict == Verdict(c, Diff(tenant[Name(c)], b))
               marks == [prepared |-> b, changed |-> Diff(tenant[Name(c)], b)]
               news == Updated(verdict, marks)
    <3>1. Now(c, news)
      BY <1>11, <2>2 DEF Prepare
    <3>2. verdict \in {[pc |-> "told", told |-> "dryRun"], [pc |-> "told", told |-> "unchanged"],
                       [pc |-> "reread"], [pc |-> "prompt"]}
      BY VerdictFacts
    <3>3. DOMAIN marks = {"prepared", "changed"}
      OBVIOUS
    <3> HIDE DEF verdict, marks
    <3>4. /\ DOMAIN verdict \subseteq {"pc", "told"} /\ "pc" \in DOMAIN verdict
          /\ verdict.pc \in {"told", "reread", "prompt"}
      BY <3>2
    <3>5. /\ "pc" \in DOMAIN news /\ {"doc", "change"} \cap DOMAIN news = {}
          /\ news.pc \in {"told", "reread", "prompt"}
      BY <3>3, <3>4 DEF Updated
    <3> HIDE DEF news
    <3> QED
      BY <1>1, <1>2, <2>1, <3>1, <3>5, NowEdits DEF Editing, Creating
  <2> QED
    BY <1>3, <2>2
<1>12. CASE Answer(c)
  <2> DEFINE next == IF IsAt(c, "prompt") THEN "reread" ELSE "post"
  <2>1. proc[c].pc \in Editing \union Creating
    BY <1>12 DEF Answer, Editing, Creating
  <2>2. CASE Exit(c, "aborted")
    BY <1>1, <1>2, <2>2, ExitEdits
  <2>3. CASE Goto(c, next)
    BY <1>1, <1>2, <2>1, <2>3, NowEdits DEF Goto
  <2> QED
    BY <1>12, <2>2, <2>3 DEF Answer
<1>13. CASE Reread(c)
  <2> DEFINE a == tenant[Name(c)]
             b == Changed(Edit(c), a)
             news == [pc |-> "put", body |-> b, base |-> ver[Name(c)]]
             q == Updated(proc[c], news)
  <2>1. proc[c].pc \in Editing /\ UNCHANGED <<tenant, ver>>
    BY <1>13 DEF Reread, IsAt, Editing, OnlyReads, storeVars
  <2>2. CASE ~Fail(c)
    <3>1. Live(c) /\ CanChange(Edit(c), a) /\ Now(c, news)
      BY <1>13, <2>2 DEF Reread
    <3>2. /\ IsChange(proc[c].change) /\ proc[c].change.verb # "create" /\ a \in App
          /\ IsChange(Doc(c).change) /\ Filled(proc[c].change, Doc(c).change) /\ Name(c) \in Names
      BY <1>1, <1>4, <2>1, <3>1, EditFacts, DocFacts DEF EditGood, Doc
    <3>3. NamedEdit(Doc(c).change, a, b)
      <4>1. CASE proc[c].redeploy
        <5>1. Edit(c).verb = "reconcile"
          BY <4>1 DEF Edit
        <5>2. b = a
          BY <5>1 DEF Changed, FieldVerbs
        <5> QED
          BY <3>2, <5>2, SameNamed
      <4>2. CASE ~proc[c].redeploy
        <5>1. Edit(c) = proc[c].change
          BY <4>2 DEF Edit
        <5> QED
          BY <3>1, <3>2, <5>1, ChangeNamed DEF NamedEdit
      <4> QED
        BY <4>1, <4>2
    <3>4. ver[Name(c)] \in Nat
      BY <1>1, <3>2 DEF StoreOK
    <3> HIDE DEF b
    <3>5. q.pc = "put" /\ q.body = b /\ q.base = ver[Name(c)] /\ q.change = proc[c].change
          /\ q.doc = proc[c].doc
      BY <1>1, DocFacts, Merged DEF Keys
    <3> HIDE DEF q
    <3>6. Pending(ver[Name(c)], a, Doc(c).change, ver[Name(c)], b)
      BY <3>3, <3>4 DEF Pending
    <3>7. EditGood(q, line[c], ver', tenant')
      BY <2>1, <3>2, <3>5, <3>6 DEF EditGood, Doc, Name
    <3> QED
      BY <1>1, <1>2, <3>1, <3>7, OneEdits DEF Now, q
  <2> QED
    BY <1>3, <2>2
<1>14. CASE Put(c)
  <2>1. proc[c].pc \in Editing
    BY <1>14 DEF Put, IsAt, Editing
  <2>2. CASE Now(c, [pc |-> "verify", tries |-> 0])
    BY <1>1, <1>2, <2>1, <2>2, NowEdits
  <2>3. CASE Tell(c, "configured")
    BY <1>1, <1>2, <2>3, NowEdits DEF Tell, Editing, Creating
  <2> QED
    BY <1>3, <1>14, <2>2, <2>3 DEF Put
<1>15. CASE ReadBack(c)
  <2>1. proc[c].pc = "verify" /\ proc[c].pc \in Editing
    BY <1>15 DEF ReadBack, IsAt, Editing
  <2>2. CASE Missed(c)
    <3>1. CASE Exit(c, "ignored")
      BY <1>1, <1>2, <3>1, ExitEdits
    <3>2. CASE Now(c, [tries |-> proc[c].tries + 1])
      BY <1>1, <1>2, <2>1, <3>2, NowEdits
    <3> QED
      BY <2>2, <3>1, <3>2 DEF Missed
  <2>3. CASE Confirmed(c)
    <3>1. CASE Now(c, [pc |-> "reread", redeploy |-> TRUE])
      BY <1>1, <1>2, <2>1, <3>1, NowEdits
    <3>2. CASE Tell(c, "configured")
      BY <1>1, <1>2, <3>2, NowEdits DEF Tell, Editing, Creating
    <3> QED
      BY <2>3, <3>1, <3>2 DEF Confirmed
  <2> QED
    BY <1>3, <1>15, <2>2, <2>3 DEF ReadBack
<1>16. CASE Post(c)
  <2>1. proc[c].pc \in Creating
    BY <1>16 DEF Post, IsAt, Creating
  <2>2. ASSUME NEW news, Now(c, Updated([list |-> None], news)),
               news \in {[pc |-> "relist"], [pc |-> "told", told |-> "created"]}
        PROVE  EditsOK'
    <3> DEFINE all == Updated([list |-> None], news)
    <3>1. DOMAIN news \subseteq {"pc", "told"} /\ "pc" \in DOMAIN news /\ news.pc \in {"relist", "told"}
      BY <2>2
    <3>2. "pc" \in DOMAIN all /\ {"doc", "change"} \cap DOMAIN all = {} /\ all.pc \in {"relist", "told"}
      BY <3>1 DEF Updated
    <3> HIDE DEF all
    <3> QED
      BY <1>1, <1>2, <2>1, <2>2, <3>2, NowEdits DEF all
  <2> QED
    BY <1>3, <1>16, <2>2 DEF Post
<1>17. CASE Relist(c)
  <2>1. proc[c].pc \in Editing
    BY <1>17 DEF Relist, IsAt, Editing
  <2>2. CASE ~Fail(c)
    <3>1. Now(c, [pc |-> "prepare", list |-> Seen(c), target |-> Entry(c).id, confirmed |-> TRUE])
      BY <1>17, <2>2 DEF Relist
    <3> QED
      BY <1>1, <1>2, <2>1, <3>1, NowEdits
  <2> QED
    BY <1>3, <2>2
<1>18. CASE NextDoc(c)
  <2>1. CASE Exit(c, proc[c].told)
    BY <1>1, <1>2, <2>1, ExitEdits
  <2>2. CASE ~Exit(c, proc[c].told)
    <3>1. Now(c, [pc |-> "lookup", doc |-> proc[c].doc + 1, confirmed |-> FALSE, redeploy |-> FALSE])
      BY <1>18, <2>2 DEF NextDoc
    <3> QED
      BY <1>1, <1>2, <3>1, NowEdits DEF Editing, Creating
  <2> QED
    BY <2>1, <2>2
<1>19. CASE Breaks(c)
  BY <1>3, <1>19 DEF Breaks
<1> QED
  BY <1>6, <1>8, <1>9, <1>10, <1>11, <1>12, <1>13, <1>14, <1>15, <1>16, <1>17, <1>18, <1>19 DEF Step

\* A process sends what is pending; nothing else enters the network.
LEMMA StepWrites ==
  ASSUME SerialInv, NEW c \in Running, Step(c), StoreOK', Advance
  PROVE  WritesOK' /\ inflight \subseteq inflight'
<1>1. StoreOK /\ ProcsOK /\ EditsOK /\ WritesOK
  BY DEF SerialInv, IInv
<1>2. CASE ~Put(c)
  <2>1. inflight' = inflight /\ line' = line
    BY <1>2 DEF Step, FindApp, FindNone, StartCreate, Preread, Prepare, Answer, Reread, ReadBack, Post,
                Relist, NextDoc, Breaks, OnlyReads, storeVars
  <2> QED
    BY <1>1, <2>1, WritesStay
<1>3. CASE Put(c)
  <2> DEFINE w == [by |-> c, doc |-> proc[c].doc, name |-> Name(c), id |-> proc[c].target,
                   body |-> proc[c].body, base |-> proc[c].base]
  <2>1. UNCHANGED <<tenant, ver, line>> /\ Running' = Running
    BY <1>3 DEF Put, Running
  <2>2. inflight' = inflight \/ inflight' = inflight \union {w}
    BY <1>3 DEF Put
  <2>3. /\ w.by \in Running /\ w.name \in Names /\ w.doc \in 1..Len(line[w.by].docs)
        /\ line[w.by].docs[w.doc].change.verb # "create"
        /\ Pending(ver[w.name], tenant[w.name], line[w.by].docs[w.doc].change, w.base, w.body)
    <3>1. proc[c].pc = "put" /\ proc[c].pc \in Editing
      BY <1>3 DEF Put, IsAt, Editing
    <3>2. Good(proc[c], line[c]) /\ Name(c) \in Names /\ Name(c) = line[c].docs[proc[c].doc].name
      BY <1>1, DocFacts DEF Name, Doc
    <3>3. EditGood(proc[c], line[c], ver, tenant)
      BY <1>1 DEF EditsOK
    <3> QED
      BY <3>1, <3>2, <3>3 DEF Good, EditGood
  <2> HIDE DEF w
  <2>4. ASSUME NEW x \in inflight'
        PROVE  /\ x.by \in Running /\ x.name \in Names /\ x.doc \in 1..Len(line[x.by].docs)
               /\ line[x.by].docs[x.doc].change.verb # "create"
               /\ Pending(ver[x.name], tenant[x.name], line[x.by].docs[x.doc].change, x.base, x.body)
    BY <1>1, <2>2, <2>3 DEF WritesOK, ChangeOf
  <2>5. WritesOK'
    BY <2>1, <2>4 DEF WritesOK, ChangeOf
  <2> QED
    BY <2>2, <2>5
<1> QED
  BY <1>2, <1>3

LEMMA UnchangedAdvances == ASSUME UNCHANGED <<tenant, ver>> PROVE Advance
  BY DEF Advance

\* Which steps move the store, and how far.
LEMMA NextAdvances ==
  ASSUME SerialInv, [Next]_vars PROVE Advance /\ SizesOK'
<1>1. StoreOK /\ ProcsOK /\ SizesOK
  BY DEF SerialInv, IInv
<1>2. ASSUME UNCHANGED <<tenant, ver>> PROVE Advance /\ SizesOK'
  BY <1>1, <1>2, UnchangedAdvances, SizesStay
<1>3. ASSUME NEW n \in Names, NEW a, a = None \/ SizeFits(a), Stored(n, a) PROVE Advance /\ SizesOK'
  BY <1>1, <1>3, StoredAdvances, SizesStored
<1>4. ASSUME NEW c \in Running, Step(c) PROVE Advance /\ SizesOK'
  <2>1. CASE Post(c)
    <3>1. PICK size \in Sizes, node \in Nodes :
            Stored(Name(c), Derived(Payload(proc[c].change.spec, size), node))
      BY <2>1 DEF Post
    <3>2. Good(proc[c], line[c]) /\ Name(c) \in Names
      BY <1>1, DocFacts
    <3>3. proc[c].change.spec \in AppSpecs /\ Complete(proc[c].change.spec)
      BY <2>1, <3>2 DEF Post, IsAt, Good, Creating, IsChange, CanCreate, FieldVerbs
    <3> QED
      BY <1>3, <3>1, <3>2, <3>3, PayloadIsApp, DerivedFits
  <2>2. CASE ~Post(c)
    <3>1. UNCHANGED <<tenant, ver>>
      BY <1>4, <2>2 DEF Step, FindApp, FindNone, StartCreate, Preread, Prepare, Answer, Reread, Put,
                        ReadBack, Relist, NextDoc, Breaks, OnlyReads, storeVars
    <3> QED
      BY <1>2, <3>1
  <2> QED
    BY <2>1, <2>2
<1>5. ASSUME NEW w \in inflight, Land(w) PROVE Advance /\ SizesOK'
  <2>1. CASE tenant[w.name] # None /\ id[w.name] = w.id
    <3>1. PICK node \in Nodes : Stored(w.name, StoredApp(tenant[w.name], w.body, filtered, node))
      BY <1>5, <2>1 DEF Land
    <3>2. w.name \in Names /\ w.body \in App /\ tenant[w.name] \in App
      BY <1>1, <2>1 DEF StoreOK
    <3>3. SizeFits(StoredApp(tenant[w.name], w.body, filtered, node))
      BY <3>2, StoredFits
    <3> QED
      BY <1>3, <3>1, <3>2, <3>3
  <2>2. CASE ~(tenant[w.name] # None /\ id[w.name] = w.id)
    <3>1. UNCHANGED <<tenant, ver>>
      BY <1>5, <2>2 DEF Land
    <3> QED
      BY <1>2, <3>1
  <2> QED
    BY <2>1, <2>2
<1>6. ASSUME NEW n \in Names, Other(n) PROVE Advance /\ SizesOK'
  <2>1. CASE Stored(n, None)
    BY <1>3, <2>1
  <2>2. CASE Stored(n, [tenant[n] EXCEPT !.replicas = @ + 1])
    <3> DEFINE a == [tenant[n] EXCEPT !.replicas = @ + 1]
    <3>1. tenant[n] \in App /\ SizeFits(tenant[n])
      BY <1>1, <1>6 DEF Other, StoreOK, SizesOK
    <3>2. a.plan = tenant[n].plan /\ a.size = tenant[n].size
      BY <3>1 DEF App
    <3> HIDE DEF a
    <3>3. SizeFits(a)
      BY <3>1, <3>2 DEF SizeFits
    <3> QED
      BY <1>3, <2>2, <3>3 DEF a
  <2> QED
    BY <1>6, <2>1, <2>2 DEF Other
<1>7. ASSUME UNCHANGED vars PROVE Advance /\ SizesOK'
  BY <1>2, <1>7 DEF vars, storeVars
<1> QED
  BY <1>4, <1>5, <1>6, <1>7 DEF Next

LEMMA SerialInit == Init => SerialInv
<1> SUFFICES ASSUME Init PROVE SerialInv
  OBVIOUS
<1>1. IInv
  BY InitKeeps
<1>2. \A c \in Running : proc[c] = Starting
  BY DEF Init
<1>3. EditsOK
  BY <1>2 DEF EditsOK, EditGood, Starting, Editing, Creating
<1>4. WritesOK
  BY DEF Init, WritesOK
<1>5. SizesOK
  BY ScenariosAssumption DEF Init, SizesOK
<1> QED
  BY <1>1, <1>3, <1>4, <1>5 DEF SerialInv

LEMMA SerialNext == SerialInv /\ [Next]_vars => SerialInv'
<1> SUFFICES ASSUME SerialInv, [Next]_vars PROVE SerialInv'
  OBVIOUS
<1>1. StoreOK /\ ProcsOK /\ EditsOK /\ WritesOK /\ IInv
  BY DEF SerialInv, IInv
<1>2. IInv' /\ StoreOK'
  BY <1>1, NextKeeps DEF IInv
<1>3. Advance /\ SizesOK'
  BY NextAdvances
<1>4. CASE \E c \in Running : Step(c)
  BY <1>1, <1>2, <1>3, <1>4, StepEdits, StepWrites DEF SerialInv
<1>5. CASE \E w \in inflight : Land(w)
  <2>1. UNCHANGED <<line, proc>> /\ inflight' \subseteq inflight
    BY <1>5 DEF Land
  <2> QED
    BY <1>1, <1>2, <1>3, <2>1, NoneEdits, WritesStay DEF SerialInv
<1>6. CASE (\E n \in Names : Other(n)) \/ UNCHANGED vars
  <2>1. UNCHANGED <<line, proc, inflight>>
    BY <1>6 DEF Other, vars, storeVars
  <2> QED
    BY <1>1, <1>2, <1>3, <2>1, NoneEdits, WritesStay DEF SerialInv
<1> QED
  BY <1>4, <1>5, <1>6 DEF Next

\* A write stored over the very app it was read from changes only what its
\* change names, shrinks no disk and moves no public port, whatever commands
\* run beside it, although it sends the whole object and several settings
\* share a block of it (applySpecTo, applyHPA, applyProbes, applySvc).
THEOREM OnlyNamed == Spec => OnlyNamedChanges
<1> DEFINE Keeps(w) == LET k == ChangeOf(w)
                           a == tenant[w.name]
                           b == tenant'[w.name]
                       IN  /\ \A f \in Fields \ (Named(k) \union {"svc"}) : b[f] = a[f]
                           /\ "svc" \notin Named(k) => SameAfterWrite("svc", a, b)
                           /\ KeepsParts(k, a, b)
<1>1. ASSUME SerialInv, [Next]_vars, NEW w \in inflight \ inflight', StoredSerially(w) PROVE Keeps(w)
  <2>1. IInv /\ StoreOK /\ ProcsOK /\ WritesOK /\ SizesOK
    BY <1>1 DEF SerialInv, IInv
  <2>2. ASSUME NEW c \in Running PROVE ~Step(c)
    <3>1. IInv' /\ StoreOK' /\ Advance
      BY <1>1, <2>1, NextKeeps, NextAdvances DEF IInv
    <3> QED
      BY <1>1, <3>1, StepWrites
  <2>3. ASSUME NEW n \in Names PROVE ~Other(n)
    BY <1>1 DEF Other
  <2>4. PICK x \in inflight : Land(x)
    BY <1>1, <2>2, <2>3 DEF Next, vars, storeVars
  <2>5. Land(w)
    BY <1>1, <2>4 DEF Land
  <2>6. w.name \in Names /\ w.body \in App
    BY <2>1 DEF StoreOK
  <2>7. tenant[w.name] # None /\ id[w.name] = w.id
    BY <1>1, <2>5, <2>6 DEF Land, StoredSerially
  <2>8. PICK node \in Nodes : Stored(w.name, StoredApp(tenant[w.name], w.body, filtered, node))
    BY <2>5, <2>7 DEF Land
  <2>9. tenant'[w.name] = StoredApp(tenant[w.name], w.body, filtered, node)
    BY <2>1, <2>6, <2>8 DEF Stored, StoreOK
  <2>10. tenant[w.name] \in App /\ SizeFits(tenant[w.name])
    BY <2>1, <2>6, <2>7 DEF StoreOK, SizesOK
  <2>11. IsChange(ChangeOf(w)) /\ ChangeOf(w).verb # "create"
    BY <2>1 DEF WritesOK, ProcsOK, IsLine, ChangeOf
  <2>12. NamedEdit(ChangeOf(w), tenant[w.name], w.body)
    BY <1>1, <2>1, <2>7 DEF WritesOK, Pending, StoredSerially
  <2> QED
    BY <2>6, <2>9, <2>10, <2>11, <2>12, StoredNamed
<1>2. SerialInv /\ [Next]_vars
        => [\A w \in inflight \ inflight' : StoredSerially(w) => Keeps(w)]_vars
  BY <1>1
<1> QED
  BY <1>2, SerialInit, SerialNext, PTL DEF Spec, OnlyNamedChanges

-----------------------------------------------------------------------------
(* What counts as done.                                                    *)

\* x is stored as b asks: public ports apart, and apart from the size of a
\* fixed plan where b asks for the size there was.
Alike(x, b, size) ==
  /\ \A f \in Fields \ {"size"} : SameAfterWrite(f, x, b)
  /\ x.size = b.size \/ (~IsDynamic(x.plan) /\ x.size = PlanSize[x.plan] /\ b.size = size)

\* If every field that differed is read back as it was written, everything is.
LEMMA StoredShows ==
  ASSUME NEW a \in App, NEW b \in App, NEW drops, NEW node, NEW c, c = StoredApp(a, b, drops, node),
         DiffStored(Diff(a, b), c, b)
  PROVE  Alike(c, b, a.size)
<1> DEFINE m == [f \in Fields |-> IF f \in drops THEN a[f] ELSE b[f]]
<1>1. m \in App /\ DOMAIN m = Fields /\ DOMAIN m.svc = {"type", "ports", "nodes"}
  BY MixedIsApp
<1>2. c = Derived(m, node)
  BY DEF StoredApp
<1>3. \A f \in Fields \ Diff(a, b) : m[f] = b[f] /\ a[f] = b[f]
  BY DEF Diff
<1> HIDE DEF m
<1>4. /\ \A f \in Fields \ {"size", "svc"} : c[f] = m[f]
      /\ c.size = Given(PlanSize[m.plan], m.size)
      /\ c.svc.type = m.svc.type /\ c.svc.ports = m.svc.ports
  BY <1>1, <1>2, DerivedFields
<1>5. \A f \in Diff(a, b) : SameAfterWrite(f, c, b)
  BY DEF DiffStored
<1>6. ASSUME NEW f \in Fields \ {"size"}, f \notin Diff(a, b) PROVE SameAfterWrite(f, c, b)
  BY <1>3, <1>4, <1>6 DEF SameAfterWrite
<1>7. "size" \in Diff(a, b) => c.size = b.size
  BY <1>5 DEF SameAfterWrite
<1>8. "size" \notin Diff(a, b) => c.size = Given(PlanSize[c.plan], b.size) /\ b.size = a.size
  BY <1>3, <1>4 DEF Fields
<1>9. c.size = b.size \/ (~IsDynamic(c.plan) /\ c.size = PlanSize[c.plan] /\ b.size = a.size)
  BY <1>7, <1>8 DEF Given, IsDynamic
<1> QED
  BY <1>5, <1>6, <1>9 DEF Alike

LEMMA AlikeFields ==
  ASSUME NEW x, NEW b, NEW size, Alike(x, b, size)
  PROVE  /\ \A f \in Fields \ {"svc", "size"} : x[f] = b[f]
         /\ x.svc.type = b.svc.type /\ x.svc.ports = b.svc.ports
<1>1. "svc" \in Fields \ {"size"}
  BY DEF Fields
<1>2. SameAfterWrite("svc", x, b)
  BY <1>1 DEF Alike
<1> QED
  BY <1>2 DEF Alike, SameAfterWrite

\* A spec that names a plan and a size names a dynamic plan.
SpecSized(k) == k.verb = "spec" /\ k.spec.size # None /\ k.spec.plan # None => IsDynamic(k.spec.plan)

\* An app that is as a spec makes it holds the spec: applied again it moves nothing.
LEMMA SpecHolds ==
  ASSUME NEW a \in App, SizeFits(a), NEW k, k.verb = "spec", k.spec \in AppSpecs, SpecSized(k),
         NEW b, b = SpecApplied(k.spec, a), NEW x \in App, Alike(x, b, a.size)
  PROVE  Same(SpecApplied(k.spec, x), x)
<1> DEFINE s == k.spec
<1>0. PICK c : c = SpecApplied(s, x)
  OBVIOUS
<1>1. Settled(s, a, b)
  BY SpecFields
<1>2. Settled(s, x, c)
  BY <1>0, SpecFields
<1>3. /\ \A f \in {"image", "git", "plan", "replicas", "command", "args", "disk", "envs", "scaled", "readiness",
                   "liveness", "config"} : x[f] = b[f]
      /\ x.svc.type = b.svc.type /\ x.svc.ports = b.svc.ports
  BY AlikeFields DEF Fields
<1>4. /\ x.image = b.image /\ x.git = b.git /\ x.plan = b.plan /\ x.replicas = b.replicas
      /\ x.command = b.command /\ x.args = b.args /\ x.disk = b.disk /\ x.envs = b.envs /\ x.scaled = b.scaled
      /\ x.readiness = b.readiness /\ x.liveness = b.liveness /\ x.config = b.config
  BY <1>3
<1>5. /\ c.image = x.image /\ c.git = x.git /\ c.plan = x.plan /\ c.command = x.command
      /\ c.args = x.args /\ c.disk = x.disk /\ c.envs = x.envs
  BY <1>1, <1>2, <1>4 DEF Given, Settled
<1>6. c.replicas = x.replicas
  BY <1>1, <1>2, <1>4 DEF Given, ReplicasAfter, Settled
<1>7. c.size = x.size
  <2> SUFFICES ASSUME s.size # None PROVE x.size = s.size
    BY <1>2 DEF Given, Settled
  <2>1. b.size = s.size
    BY <1>1 DEF Given, Settled
  <2>2. CASE s.plan # None
    <3>1. IsDynamic(x.plan)
      BY <1>1, <1>4, <2>2 DEF SpecSized, Given, Settled
    <3> QED
      BY <2>1, <3>1 DEF Alike
  <2>3. CASE s.plan = None
    <3>1. x.plan = a.plan
      BY <1>1, <1>4, <2>3 DEF Given, Settled
    <3> QED
      BY <2>1, <3>1 DEF Alike, IsDynamic, SizeFits
  <2> QED
    BY <2>2, <2>3
<1>8. c.svc.type = x.svc.type /\ c.svc.ports = x.svc.ports
  BY <1>1, <1>2, <1>3 DEF Served, Given, Settled
<1>9. c.scaled = x.scaled /\ c.readiness = x.readiness /\ c.liveness = x.liveness
  BY <1>1, <1>2, <1>4 DEF Settled
<1>10. c.config = x.config
  <2> DEFINE h == IF s.bounds = None THEN a.config.hpa ELSE OnHpa(s.bounds)
             q == IF s.probes = None THEN a.config.probes ELSE [p \in Kinds |-> ProbeOf(s.probes[p], b)]
             r == IF s.probes = None THEN x.config.probes ELSE [p \in Kinds |-> ProbeOf(s.probes[p], c)]
  <2>1. x.config = ConfigOf(h, q)
    BY <1>1, <1>4 DEF Settled
  <2>2. x.config.hpa = h /\ x.config.probes = q
    <3> HIDE DEF h, q
    <3> QED
      BY <2>1 DEF ConfigOf
  <2>3. (IF s.bounds = None THEN x.config.hpa ELSE OnHpa(s.bounds)) = h
    BY <2>2
  <2>4. r = q
    <3>1. \A p \in Kinds : ProbeOf(s.probes[p], c) = ProbeOf(s.probes[p], b)
      BY <1>3, <1>8, SamePorts
    <3> QED
      BY <2>2, <3>1
  <2> HIDE DEF h, q
  <2> QED
    BY <1>2, <2>1, <2>3, <2>4 DEF Settled
<1>11. \A f \in Fields \ {"svc"} : c[f] = x[f]
  BY <1>2, <1>5, <1>6, <1>7, <1>9, <1>10 DEF Fields, Settled
<1> QED
  BY <1>0, <1>8, <1>11 DEF Same, SameAfterWrite

AlikeVerbs == {"patch", "domain", "spec"}   \* whose read-back compares what the diff names

\* What a change of domains asks of an app.
LEMMA DomainHolds ==
  ASSUME NEW x \in App, NEW k, k.verb = "domain"
  PROVE  Holds(k, x) <=> /\ (x.hosts \union k.add) \ k.remove = x.hosts
                         /\ Given(k.challenge, x.challenge) = x.challenge
                         /\ (x.ssl \/ k.challenge # None) = x.ssl
<1> DEFINE hosts == (x.hosts \union k.add) \ k.remove
           challenge == Given(k.challenge, x.challenge)
           ssl == x.ssl \/ k.challenge # None
<1>1. PICK c : c = [x EXCEPT !.hosts = hosts, !.challenge = challenge, !.ssl = ssl]
  OBVIOUS
<1>2. Changed(k, x) = c
  <2>1. Changed(k, x) = [x EXCEPT !.hosts = (@ \union k.add) \ k.remove, !.challenge = Given(k.challenge, @),
                                  !.ssl = @ \/ k.challenge # None]
    BY DEF Changed, FieldVerbs
  <2> QED
    BY <1>1, <2>1 DEF App
<1>3. Holds(k, x) <=> Same(c, x)
  BY <1>2 DEF Holds
<1> HIDE DEF hosts, challenge, ssl
<1>4. /\ \A f \in Fields \ {"hosts", "challenge", "ssl"} : c[f] = x[f]
      /\ c.hosts = hosts /\ c.challenge = challenge /\ c.ssl = ssl
  BY <1>1 DEF App, Fields
<1>5. Same(c, x) <=> hosts = x.hosts /\ challenge = x.challenge /\ ssl = x.ssl
  <2>1. ASSUME hosts = x.hosts, challenge = x.challenge, ssl = x.ssl PROVE \A f \in Fields : c[f] = x[f]
    BY <1>4, <2>1
  <2>2. (\A f \in Fields : c[f] = x[f]) => Same(c, x)
    BY DEF Same, SameAfterWrite
  <2>3. Same(c, x) => c.hosts = x.hosts /\ c.challenge = x.challenge /\ c.ssl = x.ssl
    BY DEF Same, SameAfterWrite, Fields
  <2> QED
    BY <1>4, <2>1, <2>2, <2>3
<1> QED
  BY <1>3, <1>5 DEF hosts, challenge, ssl

\* An app that is as the change made it holds the change.
LEMMA AlikeHolds ==
  ASSUME NEW a \in App, SizeFits(a), NEW k, IsChange(k), k.verb \in AlikeVerbs, SpecSized(k),
         NEW b, b = Changed(k, a), NEW x \in App, Alike(x, b, a.size)
  PROVE  Holds(k, x)
<1>1. CASE k.verb = "patch"
  <2>1. \A f \in Fields : b[f] = IF f \in DOMAIN k.fields THEN k.fields[f] ELSE a[f]
    BY <1>1 DEF Changed, FieldVerbs, Overridden
  <2>2. PICK c : c = Changed(k, x)
    OBVIOUS
  <2>3. \A f \in Fields : c[f] = IF f \in DOMAIN k.fields THEN k.fields[f] ELSE x[f]
    BY <1>1, <2>2 DEF Changed, FieldVerbs, Overridden
  <2>4. \A f \in Fields : c[f] = b[f] \/ c[f] = x[f]
    BY <2>1, <2>3
  <2>5. ASSUME NEW f \in Fields \ {"size"} PROVE SameAfterWrite(f, c, x)
    <3>1. SameAfterWrite(f, x, b)
      BY DEF Alike
    <3>2. CASE f # "svc"
      BY <2>4, <3>1, <3>2 DEF SameAfterWrite
    <3>3. CASE f = "svc"
      BY <2>4, <3>1, <3>3 DEF SameAfterWrite
    <3> QED
      BY <3>2, <3>3
  <2>6. c.size = x.size \/ ~IsDynamic(x.plan)
    BY <2>4 DEF Alike, Fields
  <2>7. \A f \in Fields : SameAfterWrite(f, c, x) \/ (f = "size" /\ ~IsDynamic(x.plan))
    BY <2>5, <2>6 DEF SameAfterWrite
  <2> QED
    BY <1>1, <2>2, <2>7 DEF Holds
<1>2. CASE k.verb = "domain"
  <2>1. b = [a EXCEPT !.hosts = (@ \union k.add) \ k.remove, !.challenge = Given(k.challenge, @),
                      !.ssl = @ \/ k.challenge # None]
    BY <1>2 DEF Changed, FieldVerbs
  <2>2. /\ b.hosts = (a.hosts \union k.add) \ k.remove /\ b.challenge = Given(k.challenge, a.challenge)
        /\ b.ssl = (a.ssl \/ k.challenge # None)
    BY <2>1 DEF App
  <2>3. x.hosts = b.hosts /\ x.challenge = b.challenge /\ x.ssl = b.ssl
    BY AlikeFields DEF Fields
  <2>4. (x.hosts \union k.add) \ k.remove = x.hosts
    BY <2>2, <2>3
  <2>5. Given(k.challenge, x.challenge) = x.challenge
    BY <2>2, <2>3 DEF Given
  <2>6. (x.ssl \/ k.challenge # None) = x.ssl
    BY <2>2, <2>3 DEF App
  <2> QED
    BY <1>2, <2>4, <2>5, <2>6, DomainHolds
<1>3. CASE k.verb = "spec"
  <2>1. k.spec \in AppSpecs /\ b = SpecApplied(k.spec, a) /\ Changed(k, x) = SpecApplied(k.spec, x)
    BY <1>3 DEF IsChange, FieldVerbs, Changed
  <2>2. Same(SpecApplied(k.spec, x), x)
    BY <1>3, <2>1, SpecHolds
  <2> QED
    BY <1>3, <2>1, <2>2 DEF Holds
<1> QED
  BY <1>1, <1>2, <1>3 DEF AlikeVerbs

LEMMA SameIsSame == ASSUME NEW a PROVE Same(a, a)
  BY DEF Same, SameAfterWrite

\* What the other verbs look for is what they claim.
LEMMA TookHolds ==
  ASSUME NEW x \in App, NEW k, IsChange(k), k.verb \notin AlikeVerbs \union {"create"},
         NEW changed, NEW prepared, Took(k, changed, x, prepared)
  PROVE  Holds(k, x)
<1>1. CASE PlainTook(k)
  <2>1. Changed(k, x) = x /\ Same(x, x)
    BY <1>1, TookIsSame, SameIsSame
  <2> QED
    BY <1>1, <2>1 DEF Holds, PlainTook
<1>2. CASE k.verb = "subdomain"
  BY <1>2 DEF Holds, Took
<1>3. CASE k.verb = "autoscale" /\ k.bounds = None
  BY <1>3 DEF Holds, Took, AutoscaleTook
<1> QED
  BY <1>1, <1>2, <1>3 DEF IsChange, FieldVerbs, PlainTook, AlikeVerbs

-----------------------------------------------------------------------------
(* What a command may say of the app it found, or wrote.                   *)

\* A prepared change that differs from the app nowhere is held by the app.
LEMMA NothingDiffers ==
  ASSUME NEW a \in App, NEW k, IsChange(k), k.verb # "create", Diff(a, Changed(k, a)) = {}
  PROVE  Holds(k, a)
<1> PICK b : b = Changed(k, a)
  OBVIOUS
<1>1. \A f \in Fields : a[f] = b[f]
  BY DEF Diff
<1>2. Same(b, a)
  BY <1>1 DEF Same, SameAfterWrite
<1>3. CASE k.verb = "subdomain"
  <2>1. b.subdomain = k.fields.subdomain
    BY <1>3 DEF IsChange, FieldVerbs, Changed, Overridden, Fields
  <2> QED
    BY <1>1, <1>3, <2>1 DEF Holds, Fields
<1>4. CASE k.verb = "autoscale" /\ k.bounds = None
  <2> DEFINE kept == IF a.config.hpa = None THEN None ELSE a.config.hpa.bounds
             hpa == [enabled |-> FALSE, bounds |-> Given(None, kept)]
  <2>1. Changed(k, a) = Autoscaled(a, None)
    BY <1>4 DEF Changed, FieldVerbs
  <2>2. b = [a EXCEPT !.config.hpa = hpa, !.scaled = FALSE]
    BY <2>1 DEF Autoscaled
  <2>3. hpa.enabled = FALSE
    OBVIOUS
  <2> HIDE DEF hpa
  <2>4. b.config.hpa = hpa /\ b.scaled = FALSE
    BY <2>2 DEF App, Config
  <2>5. a.config = b.config /\ a.scaled = b.scaled
    BY <1>1 DEF Fields
  <2> QED
    BY <1>4, <2>3, <2>4, <2>5 DEF Holds, HpaOn
<1>5. CASE k.verb = "patch"
  BY <1>2, <1>5 DEF Holds, Same
<1> QED
  BY <1>2, <1>3, <1>4, <1>5 DEF Holds

\* An app that passes for the change before anything is stored holds it.
LEMMA NowHolds ==
  ASSUME NEW a \in App, SizeFits(a), NEW k, IsChange(k), k.verb # "create", SpecSized(k),
         NEW b, b = Changed(k, a), Took(k, Diff(a, b), a, b)
  PROVE  Holds(k, a)
<1>1. CASE k.verb \in AlikeVerbs
  <2>1. DiffStored(Diff(a, b), a, b)
    BY <1>1 DEF Took, AlikeVerbs
  <2>2. \A f \in Fields : SameAfterWrite(f, a, b)
    BY <2>1 DEF DiffStored, Diff, SameAfterWrite
  <2>3. Alike(a, b, a.size)
    BY <2>2 DEF Alike, SameAfterWrite, Fields
  <2> QED
    BY <1>1, <2>3, AlikeHolds
<1>2. CASE k.verb \notin AlikeVerbs
  BY <1>2, TookHolds
<1> QED
  BY <1>1, <1>2

\* An app that passes for the change after it is stored holds it.
LEMMA StoredTook ==
  ASSUME NEW a \in App, SizeFits(a), NEW k, IsChange(k), k.verb # "create", SpecSized(k),
         NEW b \in App, b = Changed(k, a), NEW drops, NEW node, NEW c \in App, c = StoredApp(a, b, drops, node),
         Took(k, Diff(a, b), c, b)
  PROVE  Holds(k, c)
<1>1. CASE k.verb \in AlikeVerbs
  <2>1. DiffStored(Diff(a, b), c, b)
    BY <1>1 DEF Took, AlikeVerbs
  <2>2. Alike(c, b, a.size)
    BY <2>1, StoredShows
  <2> QED
    BY <1>1, <2>2, AlikeHolds
<1>2. CASE k.verb \notin AlikeVerbs
  BY <1>2, TookHolds
<1> QED
  BY <1>1, <1>2

\* ... and holds it still when the write, which some field differed in, is stored.
LEMMA LaterHolds ==
  ASSUME NEW a \in App, SizeFits(a), NEW k, IsChange(k), k.verb # "create", SpecSized(k),
         NEW b \in App, b = Changed(k, a), Diff(a, b) # {}, Took(k, Diff(a, b), a, b),
         NEW drops, NEW node, NEW c \in App, c = StoredApp(a, b, drops, node)
  PROVE  Holds(k, c)
<1>1. CASE k.verb \in AlikeVerbs
  <2>1. DiffStored(Diff(a, b), a, b)
    BY <1>1 DEF Took, AlikeVerbs
  <2>2. \A f \in Fields : SameAfterWrite(f, a, b)
    BY <2>1 DEF DiffStored, Diff, SameAfterWrite
  <2>3. /\ \A f \in Fields \ {"svc"} : a[f] = b[f]
        /\ b.svc.type = a.svc.type /\ b.svc.ports = a.svc.ports
    BY <2>2 DEF SameAfterWrite, Fields
  <2>4. b.size = a.size /\ b.plan = a.plan
    BY <2>3 DEF Fields
  <2>5. /\ \A f \in Fields \ {"size", "svc"} : c[f] = a[f]
        /\ c.size = Given(PlanSize[c.plan], a.size)
        /\ c.svc.type = a.svc.type /\ c.svc.ports = a.svc.ports
    BY <2>3, <2>4, StoredFields
  <2>6. c.plan = a.plan
    BY <2>5 DEF Fields
  <2>7. c.size = a.size
    BY <2>5, <2>6 DEF SizeFits, Given
  <2>8. \A f \in Fields : SameAfterWrite(f, c, b)
    BY <2>3, <2>4, <2>5, <2>7 DEF SameAfterWrite
  <2>9. Alike(c, b, a.size)
    BY <2>4, <2>7, <2>8 DEF Alike
  <2> QED
    BY <1>1, <2>9, AlikeHolds
<1>2. CASE PlainTook(k)
  <2>1. b = a
    BY <1>2, TookIsSame
  <2> QED
    BY <2>1 DEF Diff
<1>3. CASE k.verb = "subdomain"
  <2>1. a.subdomain = k.fields.subdomain
    BY <1>3 DEF Took
  <2>2. b.subdomain = k.fields.subdomain
    BY <1>3 DEF IsChange, FieldVerbs, Changed, Overridden, Fields
  <2>3. c.subdomain = k.fields.subdomain
    BY <2>1, <2>2, StoredFields DEF Fields
  <2> QED
    BY <1>3, <2>3 DEF Holds
<1>4. CASE k.verb = "autoscale" /\ k.bounds = None
  <2>1. ~HpaOn(a) /\ ~a.scaled
    BY <1>4 DEF Took, AutoscaleTook, App
  <2> DEFINE kept == IF a.config.hpa = None THEN None ELSE a.config.hpa.bounds
             hpa == [enabled |-> FALSE, bounds |-> Given(None, kept)]
  <2>2. b = [a EXCEPT !.config.hpa = hpa, !.scaled = FALSE]
    BY <1>4 DEF Changed, FieldVerbs, Autoscaled
  <2>3. hpa.enabled = FALSE
    OBVIOUS
  <2> HIDE DEF hpa
  <2>4. b.config.hpa = hpa /\ b.scaled = FALSE
    BY <2>2 DEF App, Config
  <2>5. ~HpaOn(b) /\ ~b.scaled
    BY <2>3, <2>4 DEF HpaOn
  <2>6. c.config \in {a.config, b.config} /\ c.scaled \in {a.scaled, b.scaled}
    BY StoredFields DEF Fields
  <2> QED
    BY <1>4, <2>1, <2>5, <2>6 DEF Holds, HpaOn
<1> QED
  BY <1>1, <1>2, <1>3, <1>4 DEF IsChange, FieldVerbs, PlainTook, AlikeVerbs

\* A change of domains that differs somewhere does not pass for stored.
LEMMA DomainNow ==
  ASSUME NEW a \in App, NEW k, k.verb = "domain", NEW b, b = Changed(k, a), Took(k, Diff(a, b), a, b)
  PROVE  Diff(a, b) = {}
<1>1. DiffStored(Diff(a, b), a, b)
  BY DEF Took
<1>2. Changed(k, a) = [a EXCEPT !.hosts = (@ \union k.add) \ k.remove, !.challenge = Given(k.challenge, @),
                                !.ssl = @ \/ k.challenge # None]
  BY DEF Changed, FieldVerbs
<1>3. b.svc = a.svc
  BY <1>2 DEF App
<1> QED
  BY <1>1, <1>3 DEF DiffStored, Diff, SameAfterWrite

\* What reconcileIngress writes back is what it read.
LEMMA RedeployHolds ==
  ASSUME NEW a \in App, NEW k, k.verb = "domain", Holds(k, a), NEW drops, NEW node,
         NEW c \in App, c = StoredApp(a, a, drops, node)
  PROVE  Holds(k, c)
<1>1. c.hosts = a.hosts /\ c.challenge = a.challenge /\ c.ssl = a.ssl
  BY StoredFields DEF Fields
<1> QED
  BY <1>1, DomainHolds

\* An app as it was created holds every setting that a POST carries.
LEMMA CreatedSame ==
  ASSUME NEW s \in AppSpecs, s.bounds = None, s.probes = None, s.size = None,
         NEW size, NEW node, NEW a \in App, a = Derived(Payload(s, size), node)
  PROVE  Same(SpecApplied(s, a), a)
<1> PICK b : b = SpecApplied(s, a)
  OBVIOUS
<1> DEFINE m == Payload(s, size)
<1>1. Settled(s, a, b)
  BY SpecFields
<1>2. DOMAIN m = Fields /\ DOMAIN m.svc = {"type", "ports", "nodes"}
  BY DEF Payload, Fields
<1>3. /\ m.image = s.image /\ m.git = s.git /\ m.plan = s.plan /\ m.replicas = Given(s.replicas, 1)
      /\ m.command = Given(s.command, Blank) /\ m.args = Given(s.args, Blank) /\ m.disk = s.disk
      /\ m.envs = Given(s.envs, Blank)
  BY DEF Payload
<1>4. /\ m.svc.type = Given(s.svcType, "ClusterIP")
      /\ m.svc.ports = Given(s.ports, [n \in PortNames |-> None])
  BY DEF Payload
<1> HIDE DEF m
<1>5. /\ \A f \in Fields \ {"size", "svc"} : a[f] = m[f]
      /\ a.svc.type = m.svc.type /\ a.svc.ports = m.svc.ports
  BY <1>2, DerivedFields DEF m
<1>6. /\ a.image = s.image /\ a.git = s.git /\ a.plan = s.plan /\ a.replicas = Given(s.replicas, 1)
      /\ a.command = Given(s.command, Blank) /\ a.args = Given(s.args, Blank) /\ a.disk = s.disk
      /\ a.envs = Given(s.envs, Blank)
  BY <1>3, <1>5 DEF Fields
<1>7. /\ b.image = a.image /\ b.git = a.git /\ b.plan = a.plan /\ b.size = a.size /\ b.command = a.command
      /\ b.args = a.args /\ b.disk = a.disk /\ b.envs = a.envs
  BY <1>1, <1>6 DEF Settled, Given
<1>8. b.replicas = a.replicas
  BY <1>1, <1>6 DEF Settled, Given, ReplicasAfter
<1>9. b.svc.type = a.svc.type /\ b.svc.ports = a.svc.ports
  BY <1>1, <1>4, <1>5 DEF Settled, Served, Given
<1>10. b.config = a.config
  <2>1. b.config = ConfigOf(a.config.hpa, a.config.probes)
    BY <1>1 DEF Settled
  <2> QED
    BY <2>1 DEF ConfigOf, App, Config
<1>11. /\ b.hosts = a.hosts /\ b.challenge = a.challenge /\ b.ssl = a.ssl /\ b.subdomain = a.subdomain
       /\ b.scaled = a.scaled /\ b.readiness = a.readiness /\ b.liveness = a.liveness
  BY <1>1 DEF Settled
<1> QED
  BY <1>7, <1>8, <1>9, <1>10, <1>11 DEF Same, SameAfterWrite, Fields

LEMMA CreatedHolds ==
  ASSUME NEW k, k.spec \in AppSpecs, k.verb = "create" \/ (k.verb = "spec" /\ ~HasPostCreateFields(k.spec)),
         NEW size, NEW node, NEW a \in App, a = Derived(Payload(k.spec, size), node)
  PROVE  Holds(k, a)
<1>1. CASE k.verb = "create"
  <2> DEFINE s == [k.spec EXCEPT !.bounds = None, !.probes = None, !.size = None]
  <2>1. s \in AppSpecs /\ s.bounds = None /\ s.probes = None /\ s.size = None
    <3>1. None \in Maybe(Bounds) /\ None \in Maybe(Sizes) /\ None \in Maybe([Kinds -> Maybe(ProbeDef)])
      BY DEF Maybe
    <3> QED
      BY <3>1 DEF AppSpecs
  <2>2. /\ s.image = k.spec.image /\ s.git = k.spec.git /\ s.plan = k.spec.plan /\ s.replicas = k.spec.replicas
        /\ s.command = k.spec.command /\ s.args = k.spec.args /\ s.svcType = k.spec.svcType
        /\ s.ports = k.spec.ports /\ s.disk = k.spec.disk /\ s.envs = k.spec.envs
    BY DEF AppSpecs
  <2>3. Holds(k, a) <=> Same(SpecApplied(s, a), a)
    BY <1>1 DEF Holds
  <2> HIDE DEF s
  <2>4. Payload(s, size) = Payload(k.spec, size)
    BY <2>2 DEF Payload
  <2> QED
    BY <2>1, <2>3, <2>4, CreatedSame
<1>2. CASE k.verb = "spec" /\ ~HasPostCreateFields(k.spec)
  <2>1. Same(SpecApplied(k.spec, a), a)
    BY <1>2, CreatedSame DEF HasPostCreateFields
  <2> QED
    BY <1>2, <2>1 DEF Holds, Changed, FieldVerbs
<1> QED
  BY <1>1, <1>2

-----------------------------------------------------------------------------
(* What is known of an app that nothing else has written since.            *)

Successes == {"configured", "created", "unchanged"}

\* The writes of the document at hand that are on their way.
Own(c) == {w \in inflight : w.by = c /\ w.doc = proc[c].doc}

\* A process may have such a write from its PUT on, to the end of the document.
MayWrite(p) == p.pc = "verify" \/ p.redeploy \/ (p.pc = "told" /\ p.told = "configured")

PhaseOK(p, own) ==
  p.pc # "done" =>
    /\ p.pc \in Editing \union Creating => SpecSized(p.change)
    /\ p.redeploy => p.pc \in {"reread", "put", "told"}
    /\ own # {} => MayWrite(p)

\* The app is the one the change was prepared for.
Prepared(p, a) ==
  /\ a \in App /\ p.prepared \in App /\ p.prepared = Changed(p.change, a)
  /\ p.changed = Diff(a, p.prepared) /\ p.changed # {}

\* The write is on its way (or was lost), or stored.
Awaited(p, a, own, drops) ==
  \/ Prepared(p, a) /\ \A w \in own : w.body = p.prepared
  \/ /\ own = {}
     /\ \E b \in App, node \in Nodes :
          SizeFits(b) /\ Prepared(p, b) /\ a = StoredApp(b, p.prepared, drops, node)

\* The app holds the change, and will when what is on its way is stored.
Kept(k, a, own, drops) ==
  a \in App /\ Holds(k, a) /\ \A w \in own, node \in Nodes : Holds(k, StoredApp(a, w.body, drops, node))

\* What a process knows of the app a it works on, if nothing else wrote it.
Since(p, a, own, drops) ==
  p.pc # "done" =>
    /\ \A v, w \in own : v = w
    /\ p.pc \in {"prompt", "reread", "put"} =>
         IF p.redeploy THEN p.change.verb = "domain" /\ a \in App /\ Holds(p.change, a) /\ own = {}
         ELSE Prepared(p, a)
    /\ p.pc = "put" => p.body = IF p.redeploy THEN a ELSE p.prepared
    /\ p.pc = "verify" => Awaited(p, a, own, drops)
    /\ p.pc = "told" /\ p.told \in Successes => Kept(p.change, a, own, drops)

ReportsOK ==
  \A c \in Running : /\ PhaseOK(proc[c], Own(c))
                     /\ c \notin touched => Since(proc[c], tenant[Name(c)], Own(c), filtered)

\* A write bears the name of its document, which is the one at hand or a past one.
NamesOK ==
  \A w \in inflight : /\ w.name = line[w.by].docs[w.doc].name
                      /\ proc[w.by].pc = "done" \/ w.doc <= proc[w.by].doc

ReportInv == SerialInv /\ NamesOK /\ ReportsOK

\* Fewer writes on their way change nothing of this.
LEMMA FewerWrites ==
  ASSUME NEW p, NEW a, NEW own, NEW drops, NEW fewer, fewer \subseteq own
  PROVE  /\ PhaseOK(p, own) => PhaseOK(p, fewer)
         /\ Since(p, a, own, drops) => Since(p, a, fewer, drops)
<1>1. PhaseOK(p, own) => PhaseOK(p, fewer)
  BY DEF PhaseOK
<1>2. Awaited(p, a, own, drops) => Awaited(p, a, fewer, drops)
  BY DEF Awaited
<1>3. Kept(p.change, a, own, drops) => Kept(p.change, a, fewer, drops)
  BY DEF Kept
<1>4. own = {} => fewer = {}
  OBVIOUS
<1>5. (\A v, w \in own : v = w) => \A v, w \in fewer : v = w
  OBVIOUS
<1>6. Since(p, a, own, drops) => Since(p, a, fewer, drops)
  BY <1>2, <1>3, <1>4, <1>5 DEF Since
<1> QED
  BY <1>1, <1>6

\* A process that does not move, and whose app nothing else writes.
LEMMA RestReports ==
  ASSUME ReportsOK, NEW d \in Running, proc'[d] = proc[d], line' = line, filtered' = filtered,
         \A w \in inflight' : w.by = d => w \in inflight,
         d \notin touched' => d \notin touched /\ tenant'[Name(d)] = tenant[Name(d)]
  PROVE  /\ PhaseOK(proc'[d], Own(d)')
         /\ d \notin touched' => Since(proc'[d], tenant'[Name(d)'], Own(d)', filtered')
<1>1. Own(d)' \subseteq Own(d)
  BY DEF Own
<1>2. Name(d)' = Name(d)
  BY DEF Name, Doc
<1>3. PhaseOK(proc[d], Own(d)) /\ (d \notin touched => Since(proc[d], tenant[Name(d)], Own(d), filtered))
  BY DEF ReportsOK
<1> QED
  BY <1>1, <1>2, <1>3, FewerWrites

\* One process moves.
LEMMA OneReports ==
  ASSUME ProcsOK, ReportsOK, NEW c \in Running, NEW q, proc' = [proc EXCEPT ![c] = q], line' = line,
         filtered' = filtered, \A w \in inflight' : w \in inflight \/ w.by = c,
         \A d \in Running \ {c} : d \notin touched' => d \notin touched /\ tenant'[Name(d)] = tenant[Name(d)],
         NEW own, own = {w \in inflight' : w.by = c /\ w.doc = q.doc}, PhaseOK(q, own),
         c \notin touched' => Since(q, tenant'[line[c].docs[q.doc].name], own, filtered)
  PROVE  ReportsOK'
<1>1. \A d \in Running : proc'[d] = IF d = c THEN q ELSE proc[d]
  BY DEF ProcsOK
<1>2. Own(c)' = own /\ Name(c)' = line[c].docs[q.doc].name
  BY <1>1 DEF Own, Name, Doc
<1>3. ASSUME NEW d \in Running
      PROVE  /\ PhaseOK(proc'[d], Own(d)')
             /\ d \notin touched' => Since(proc'[d], tenant'[Name(d)'], Own(d)', filtered')
  <2>1. CASE d = c
    BY <1>1, <1>2, <2>1
  <2>2. CASE d # c
    <3>1. proc'[d] = proc[d] /\ \A w \in inflight' : w.by = d => w \in inflight
      BY <1>1, <2>2
    <3> QED
      BY <2>2, <3>1, RestReports
  <2> QED
    BY <2>1, <2>2
<1> QED
  BY <1>3 DEF ReportsOK, Running

\* A process that only reads, and moves on in its document.
LEMMA ReadReports ==
  ASSUME ProcsOK, ReportsOK, NEW c \in Running, NEW q, proc' = [proc EXCEPT ![c] = q], OnlyReads,
         q.doc = proc[c].doc, PhaseOK(q, Own(c)),
         c \notin touched => Since(q, tenant[Name(c)], Own(c), filtered)
  PROVE  ReportsOK'
<1>1. line' = line /\ filtered' = filtered /\ inflight' = inflight /\ touched' = touched /\ tenant' = tenant
  BY DEF OnlyReads, storeVars
<1> DEFINE own == {w \in inflight' : w.by = c /\ w.doc = q.doc}
<1>2. own = Own(c)
  BY <1>1 DEF Own
<1>3. line[c].docs[q.doc].name = Name(c)
  BY DEF Name, Doc
<1> HIDE DEF own
<1>4. PhaseOK(q, own) /\ (c \notin touched' => Since(q, tenant'[line[c].docs[q.doc].name], own, filtered))
  BY <1>1, <1>2, <1>3
<1> QED
  BY <1>1, <1>4, OneReports DEF own

\* A process that has ended knows nothing.
LEMMA ExitReports ==
  ASSUME ProcsOK, ReportsOK, NEW c \in Running, NEW report, Exit(c, report), line' = line, filtered' = filtered,
         \A w \in inflight' : w \in inflight \/ w.by = c,
         \A d \in Running \ {c} : d \notin touched' => d \notin touched /\ tenant'[Name(d)] = tenant[Name(d)]
  PROVE  ReportsOK'
<1> DEFINE q == [Starting EXCEPT !.pc = "done", !.told = report]
<1>1. q.pc = "done"
  BY DEF Starting
<1> HIDE DEF q
<1>2. \A own, a : PhaseOK(q, own) /\ Since(q, a, own, filtered)
  BY <1>1 DEF PhaseOK, Since
<1> QED
  BY <1>2, OneReports DEF Exit, q

LEMMA FailReports ==
  ASSUME ProcsOK, ReportsOK, NEW c \in Running, Fail(c), OnlyReads PROVE ReportsOK'
<1>1. /\ line' = line /\ filtered' = filtered /\ inflight' = inflight /\ touched' = touched /\ tenant' = tenant
  BY DEF OnlyReads, storeVars
<1> QED
  BY <1>1, ExitReports DEF Fail

\* The phases in which a process has neither prepared nor written anything.
Quiet == {"lookup", "preread", "prepare", "createPrompt", "post", "relist"}

\* A process of which nothing was written and that says nothing of an app yet.
LEMMA QuietKnows ==
  ASSUME NEW q, ~q.redeploy, q.pc \in Quiet \/ (q.pc = "told" /\ q.told \notin Successes),
         q.pc \in Editing \union Creating => SpecSized(q.change), NEW a, NEW drops
  PROVE  PhaseOK(q, {}) /\ Since(q, a, {}, drops)
  BY DEF PhaseOK, Since, Quiet

\* In those phases nothing of the document is on its way.
LEMMA QuietOwns ==
  ASSUME ReportsOK, NEW c \in Running, proc[c].pc \in Quiet \union {"prompt"}
  PROVE  Own(c) = {} /\ ~proc[c].redeploy
  BY DEF ReportsOK, PhaseOK, Quiet, MayWrite

LEMMA QuietReports ==
  ASSUME ProcsOK, ReportsOK, NEW c \in Running, proc[c].pc \in Quiet, NEW news, Now(c, news), OnlyReads,
         "pc" \in DOMAIN news, {"doc", "redeploy"} \cap DOMAIN news = {},
         news.pc \in Quiet \/ (news.pc = "told" /\ "told" \in DOMAIN news /\ news.told \notin Successes),
         news.pc \in Editing \union Creating =>
           SpecSized(IF "change" \in DOMAIN news THEN news.change ELSE proc[c].change)
  PROVE  ReportsOK'
<1> DEFINE q == Updated(proc[c], news)
<1>1. /\ Keys \subseteq DOMAIN q
      /\ \A x \in Keys : q[x] = IF x \in DOMAIN news THEN news[x] ELSE proc[c][x]
  BY DocFacts, Merged
<1> HIDE DEF q
<1>2. /\ q.pc = news.pc /\ q.doc = proc[c].doc /\ q.redeploy = proc[c].redeploy
      /\ q.change = IF "change" \in DOMAIN news THEN news.change ELSE proc[c].change
      /\ "told" \in DOMAIN news => q.told = news.told
  BY <1>1 DEF Keys
<1>3. Own(c) = {} /\ ~proc[c].redeploy
  BY QuietOwns
<1>4. PhaseOK(q, Own(c)) /\ Since(q, tenant[Name(c)], Own(c), filtered)
  BY <1>2, <1>3, QuietKnows
<1> QED
  BY <1>2, <1>4, ReadReports DEF Now, q

LEMMA SpecSizes ==
  ASSUME NEW k, NEW plan, k.verb = "spec" => SizeAllowed(k.spec.size, Given(k.spec.plan, plan))
  PROVE  SpecSized(k)
  BY DEF SpecSized, SizeAllowed, Given

LEMMA FindAppReports ==
  ASSUME IInv, ReportsOK, NEW c \in Running, FindApp(c) PROVE ReportsOK'
<1> DEFINE k == Doc(c).change
           news == [pc |-> IF k.verb \in PrereadVerbs THEN "preread" ELSE "prepare",
                    list |-> Seen(c), target |-> Entry(c).id, change |-> k]
<1>1. ProcsOK /\ OnlyReads /\ proc[c].pc \in Quiet
  BY DEF IInv, FindApp, IsAt, Quiet
<1>2. CASE Fail(c)
  BY <1>1, <1>2, FailReports
<1>3. CASE ~Fail(c)
  <2>1. Now(c, news) /\ Sized(k, Entry(c).plan)
    BY <1>3 DEF FindApp
  <2>2. SpecSized(k)
    BY <2>1, SpecSizes DEF Sized, Asked
  <2>3. /\ "pc" \in DOMAIN news /\ {"doc", "redeploy"} \cap DOMAIN news = {} /\ news.pc \in {"preread", "prepare"}
        /\ "change" \in DOMAIN news /\ news.change = k
    OBVIOUS
  <2> HIDE DEF news
  <2> QED
    BY <1>1, <2>1, <2>2, <2>3, QuietReports DEF Quiet
<1> QED
  BY <1>2, <1>3

LEMMA FindNoneReports ==
  ASSUME IInv, ReportsOK, NEW c \in Running, FindNone(c) \/ StartCreate(c) PROVE ReportsOK'
<1> DEFINE k == Doc(c).change
<1>1. ProcsOK /\ OnlyReads /\ proc[c].pc \in Quiet
  BY DEF IInv, FindNone, StartCreate, IsAt, Quiet
<1>2. CASE Fail(c)
  BY <1>1, <1>2, FailReports
<1>3. CASE Now(c, [pc |-> "told", told |-> "wouldCreate", list |-> Seen(c)])
  BY <1>1, <1>3, QuietReports DEF Quiet, Successes, Editing, Creating
<1>4. CASE ~Fail(c) /\ ~Now(c, [pc |-> "told", told |-> "wouldCreate", list |-> Seen(c)])
  <2>1. Now(c, [pc |-> "createPrompt", change |-> k])
    BY <1>4 DEF FindNone, StartCreate
  <2>2. k.verb = "spec" => SizeAllowed(k.spec.size, k.spec.plan)
    BY <1>4 DEF FindNone, StartCreate, Verb
  <2>3. SpecSized(k)
    BY <2>2 DEF SpecSized, SizeAllowed
  <2> HIDE DEF k
  <2> QED
    BY <1>1, <2>1, <2>3, QuietReports DEF Quiet
<1> QED
  BY <1>2, <1>3, <1>4

LEMMA PrereadReports ==
  ASSUME IInv, ReportsOK, NEW c \in Running, Preread(c) PROVE ReportsOK'
<1> DEFINE k == proc[c].change
<1>1. ProcsOK /\ StoreOK /\ OnlyReads /\ proc[c].pc \in Quiet /\ proc[c].pc \in Editing /\ proc[c].pc # "done"
  BY DEF IInv, Preread, IsAt, Quiet, Editing
<1>2. SpecSized(k)
  BY <1>1 DEF ReportsOK, PhaseOK
<1>3. CASE Fail(c)
  BY <1>1, <1>3, FailReports
<1>4. CASE Goto(c, "prepare")
  <2>1. Now(c, [pc |-> "prepare"])
    BY <1>4 DEF Goto
  <2> HIDE DEF k
  <2> QED
    BY <1>1, <1>2, <2>1, QuietReports DEF Quiet, k
<1>5. ASSUME NEW new, ~(new.verb = "spec"), Now(c, [pc |-> "prepare", change |-> new]) PROVE ReportsOK'
  <2>1. SpecSized(new)
    BY <1>5 DEF SpecSized
  <2> QED
    BY <1>1, <1>5, <2>1, QuietReports DEF Quiet
<1>6. ASSUME NEW both, Live(c), k.verb = "command",
             Now(c, [pc |-> "prepare", change |-> [k EXCEPT !.fields = both]])
      PROVE  ReportsOK'
  <2>1. "verb" \in DOMAIN k
    BY <1>1, <1>6, EditFacts DEF IsChange
  <2> DEFINE new == [k EXCEPT !.fields = both]
  <2> HIDE DEF k
  <2>2. new.verb = "command"
    BY <1>6, <2>1
  <2> HIDE DEF new
  <2>3. Now(c, [pc |-> "prepare", change |-> new])
    BY <1>6 DEF new
  <2> QED
    BY <1>5, <2>2, <2>3
<1>7. CASE Live(c) /\ k.verb = "domain"
           /\ Now(c, [pc |-> "prepare", change |-> [k EXCEPT !.challenge = ChallengeFor(k, tenant[Name(c)])]])
  <2>1. "verb" \in DOMAIN k
    BY <1>1, <1>7, EditFacts DEF IsChange
  <2> DEFINE challenge == ChallengeFor(k, tenant[Name(c)])
             new == [k EXCEPT !.challenge = challenge]
  <2> HIDE DEF k, challenge
  <2>2. new.verb = "domain"
    BY <1>7, <2>1
  <2> HIDE DEF new
  <2>3. Now(c, [pc |-> "prepare", change |-> new])
    BY <1>7 DEF new, challenge
  <2> QED
    BY <1>5, <2>2, <2>3
<1> QED
  BY <1>3, <1>4, <1>6, <1>7 DEF Preread

\* A process goes on if and only if something differs.
LEMMA VerdictTells ==
  ASSUME NEW c, NEW differing
  PROVE  \/ Verdict(c, differing) = [pc |-> "told", told |-> "dryRun"]
         \/ differing = {} /\ Verdict(c, differing) = [pc |-> "told", told |-> "unchanged"]
         \/ differing # {} /\ Verdict(c, differing) \in {[pc |-> "reread"], [pc |-> "prompt"]}
  BY DEF Verdict

LEMMA PrepareReports ==
  ASSUME IInv, ReportsOK, NEW c \in Running, Prepare(c) PROVE ReportsOK'
<1> DEFINE k == proc[c].change
           a == tenant[Name(c)]
           b == Changed(k, a)
           differing == Diff(a, b)
           verdict == Verdict(c, differing)
           marks == [prepared |-> b, changed |-> differing]
           news == Updated(verdict, marks)
           q == Updated(proc[c], news)
<1>1. /\ ProcsOK /\ StoreOK /\ proc[c].pc \in Quiet /\ proc[c].pc \in Editing /\ proc[c].pc # "done"
      /\ UNCHANGED <<tenant, inflight, filtered, line>> /\ touched' = touched \ {c}
  BY DEF IInv, Prepare, IsAt, Quiet, Editing, storeVars
<1>2. Own(c) = {} /\ ~proc[c].redeploy /\ SpecSized(k)
  <2>1. PhaseOK(proc[c], Own(c))
    BY DEF ReportsOK
  <2> QED
    BY <1>1, <2>1, QuietOwns DEF PhaseOK
<1>3. \A d \in Running \ {c} : d \notin touched' => d \notin touched /\ tenant'[Name(d)] = tenant[Name(d)]
  BY <1>1
<1>4. CASE Fail(c)
  BY <1>1, <1>3, <1>4, ExitReports DEF Fail
<1>5. CASE ~Fail(c)
  <2>1. Live(c) /\ CanChange(k, a) /\ Now(c, news)
    BY <1>5 DEF Prepare
  <2>2. IsChange(k) /\ k.verb # "create" /\ a \in App /\ b \in App
    BY <1>1, <2>1, EditFacts, ChangedIsApp
  <2>3. \/ verdict = [pc |-> "told", told |-> "dryRun"]
        \/ differing = {} /\ verdict = [pc |-> "told", told |-> "unchanged"]
        \/ differing # {} /\ verdict \in {[pc |-> "reread"], [pc |-> "prompt"]}
    BY VerdictTells
  <2> HIDE DEF verdict
  <2>4. /\ DOMAIN verdict \subseteq {"pc", "told"} /\ "pc" \in DOMAIN verdict
        /\ \/ verdict.pc = "told" /\ "told" \in DOMAIN verdict
              /\ (verdict.told = "dryRun" \/ (verdict.told = "unchanged" /\ differing = {}))
           \/ verdict.pc \in {"reread", "prompt"} /\ differing # {}
    BY <2>3
  <2>5. DOMAIN marks = {"prepared", "changed"} /\ marks.prepared = b /\ marks.changed = differing
    OBVIOUS
  <2>6. k.verb # "create" /\ differing = {} => Holds(k, a)
    BY <2>2, NothingDiffers
  <2>7. differing = Diff(a, b) /\ b = Changed(k, a)
    OBVIOUS
  <2> HIDE DEF marks, differing, b, a
  <2>8. /\ DOMAIN news = DOMAIN verdict \union {"prepared", "changed"}
        /\ news.pc = verdict.pc /\ news.prepared = b /\ news.changed = differing
        /\ "told" \in DOMAIN verdict => news.told = verdict.told
    BY <2>4, <2>5 DEF Updated
  <2> HIDE DEF news
  <2>9. /\ Keys \subseteq DOMAIN q
        /\ \A x \in Keys : q[x] = IF x \in DOMAIN news THEN news[x] ELSE proc[c][x]
    BY <1>1, DocFacts, Merged
  <2> HIDE DEF q
  <2>10. /\ q.pc = verdict.pc /\ q.prepared = b /\ q.changed = differing /\ q.change = k
         /\ q.doc = proc[c].doc /\ q.redeploy = proc[c].redeploy
         /\ "told" \in DOMAIN verdict => q.told = verdict.told
    BY <2>4, <2>8, <2>9 DEF Keys
  <2> HIDE DEF k
  <2>11. PhaseOK(q, {})
    BY <1>2, <2>10 DEF PhaseOK
  <2>12. Since(q, a, {}, filtered)
    <3>1. CASE verdict.pc = "told"
      <4>1. q.pc = "told" /\ (q.told = "unchanged" => Holds(q.change, a))
        BY <2>2, <2>4, <2>6, <2>10, <3>1
      <4>2. q.told \in {"dryRun", "unchanged"}
        BY <2>4, <2>10, <3>1
      <4> QED
        BY <2>2, <4>1, <4>2 DEF Since, Kept, Successes
    <3>2. CASE verdict.pc \in {"reread", "prompt"}
      <4>1. Prepared(q, a)
        BY <2>2, <2>4, <2>7, <2>10, <3>2 DEF Prepared
      <4> QED
        BY <1>2, <2>10, <3>2, <4>1 DEF Since
    <3> QED
      BY <2>4, <3>1, <3>2
  <2>13. {w \in inflight' : w.by = c /\ w.doc = q.doc} = {}
    BY <1>1, <1>2, <2>10 DEF Own
  <2>14. tenant'[line[c].docs[q.doc].name] = a
    BY <1>1, <2>10 DEF Name, Doc, a
  <2>15. proc' = [proc EXCEPT ![c] = q]
    BY <2>1 DEF Now, q
  <2> QED
    BY <1>1, <1>3, <2>11, <2>12, <2>13, <2>14, <2>15, OneReports
<1> QED
  BY <1>4, <1>5

LEMMA AnswerReports ==
  ASSUME IInv, ReportsOK, NEW c \in Running, Answer(c) PROVE ReportsOK'
<1>1. /\ ProcsOK /\ OnlyReads /\ proc[c].pc \in {"prompt", "createPrompt"}
  BY DEF IInv, Answer
<1>2. CASE Exit(c, "aborted")
  <2>1. /\ line' = line /\ filtered' = filtered /\ inflight' = inflight /\ touched' = touched /\ tenant' = tenant
    BY <1>1 DEF OnlyReads, storeVars
  <2> QED
    BY <1>1, <1>2, <2>1, ExitReports
<1>3. CASE IsAt(c, "prompt") /\ Goto(c, "reread")
  <2> DEFINE q == Updated(proc[c], [pc |-> "reread"])
  <2>1. /\ q.pc = "reread" /\ q.doc = proc[c].doc /\ q.redeploy = proc[c].redeploy /\ q.change = proc[c].change
        /\ q.prepared = proc[c].prepared /\ q.changed = proc[c].changed
    BY <1>1, DocFacts, Merged DEF Keys
  <2>2. proc' = [proc EXCEPT ![c] = q]
    BY <1>3 DEF Goto, Now
  <2> HIDE DEF q
  <2>3. Own(c) = {} /\ ~proc[c].redeploy /\ proc[c].pc = "prompt"
    BY <1>3, QuietOwns DEF IsAt
  <2>4. PhaseOK(proc[c], Own(c)) /\ (c \notin touched => Since(proc[c], tenant[Name(c)], Own(c), filtered))
    BY DEF ReportsOK
  <2>5. PhaseOK(q, Own(c))
    BY <2>1, <2>3, <2>4 DEF PhaseOK, Editing
  <2>6. Since(proc[c], tenant[Name(c)], Own(c), filtered) => Since(q, tenant[Name(c)], Own(c), filtered)
    BY <2>1, <2>3 DEF Since, Prepared
  <2> QED
    BY <1>1, <2>1, <2>2, <2>4, <2>5, <2>6, ReadReports
<1>4. CASE IsAt(c, "createPrompt") /\ Goto(c, "post")
  <2>1. proc[c].pc = "createPrompt" /\ Now(c, [pc |-> "post"])
    BY <1>4 DEF IsAt, Goto
  <2>2. SpecSized(proc[c].change)
    BY <2>1 DEF ReportsOK, PhaseOK, Creating
  <2> QED
    BY <1>1, <2>1, <2>2, QuietReports DEF Quiet
<1> QED
  BY <1>1, <1>2, <1>3, <1>4 DEF Answer, IsAt

LEMMA RereadReports ==
  ASSUME IInv, ReportsOK, NEW c \in Running, Reread(c) PROVE ReportsOK'
<1> DEFINE a == tenant[Name(c)]
           b == Changed(Edit(c), a)
           q == Updated(proc[c], [pc |-> "put", body |-> b, base |-> ver[Name(c)]])
<1>1. ProcsOK /\ OnlyReads /\ proc[c].pc = "reread"
  BY DEF IInv, Reread, IsAt
<1>2. CASE Fail(c)
  BY <1>1, <1>2, FailReports
<1>3. CASE ~Fail(c)
  <2>1. Now(c, [pc |-> "put", body |-> b, base |-> ver[Name(c)]])
    BY <1>3 DEF Reread
  <2>2. b = IF proc[c].redeploy THEN a ELSE Changed(proc[c].change, a)
    <3>1. Changed([verb |-> "reconcile"], a) = a
      BY DEF Changed, FieldVerbs
    <3> QED
      BY <3>1 DEF Edit
  <2> HIDE DEF a, b
  <2>3. /\ q.pc = "put" /\ q.body = b /\ q.doc = proc[c].doc /\ q.redeploy = proc[c].redeploy
        /\ q.change = proc[c].change /\ q.prepared = proc[c].prepared /\ q.changed = proc[c].changed
    BY <1>1, DocFacts, Merged DEF Keys
  <2>4. proc' = [proc EXCEPT ![c] = q]
    BY <2>1 DEF Now
  <2> HIDE DEF q
  <2>5. PhaseOK(proc[c], Own(c)) /\ (c \notin touched => Since(proc[c], a, Own(c), filtered))
    BY DEF ReportsOK, a
  <2>6. PhaseOK(q, Own(c))
    BY <1>1, <2>3, <2>5 DEF PhaseOK, MayWrite, Editing
  <2>7. ASSUME Since(proc[c], a, Own(c), filtered) PROVE Since(q, a, Own(c), filtered)
    <3>1. /\ \A v, w \in Own(c) : v = w
          /\ IF proc[c].redeploy
             THEN proc[c].change.verb = "domain" /\ a \in App /\ Holds(proc[c].change, a) /\ Own(c) = {}
             ELSE Prepared(proc[c], a)
      BY <1>1, <2>7 DEF Since
    <3>2. ~proc[c].redeploy => Prepared(q, a) /\ q.body = q.prepared
      BY <2>2, <2>3, <3>1 DEF Prepared
    <3>3. proc[c].redeploy => q.body = a
      BY <2>2, <2>3
    <3> QED
      BY <2>3, <3>1, <3>2, <3>3 DEF Since
  <2> QED
    BY <1>1, <2>3, <2>4, <2>5, <2>6, <2>7, ReadReports DEF a
<1> QED
  BY <1>2, <1>3

LEMMA PutReports ==
  ASSUME IInv, ReportsOK, NEW c \in Running, Put(c) PROVE ReportsOK'
<1> DEFINE a == tenant[Name(c)]
           x == [by |-> c, doc |-> proc[c].doc, name |-> Name(c), id |-> proc[c].target,
                 body |-> proc[c].body, base |-> proc[c].base]
<1>1. /\ ProcsOK /\ StoreOK /\ proc[c].pc = "put" /\ proc[c].pc \in Editing
      /\ UNCHANGED <<tenant, filtered, line, touched>>
  BY DEF IInv, Put, IsAt, Editing
<1>2. inflight' = inflight \/ inflight' = inflight \union {x}
  BY DEF Put
<1>3. x.by = c /\ x.doc = proc[c].doc /\ x.body = proc[c].body
  OBVIOUS
<1> HIDE DEF x
<1>4. \A w \in inflight' : w \in inflight \/ w.by = c
  BY <1>2, <1>3
<1>5. \A d \in Running \ {c} : d \notin touched' => d \notin touched /\ tenant'[Name(d)] = tenant[Name(d)]
  BY <1>1
<1>6. CASE Fail(c)
  BY <1>1, <1>4, <1>5, <1>6, ExitReports DEF Fail
<1>7. CASE ~Fail(c)
  <2>1. Live(c) /\ inflight' = inflight \union {x}
    BY <1>7 DEF Put, x
  <2>2. IsChange(proc[c].change) /\ proc[c].change.verb # "create" /\ a \in App
    BY <1>1, <2>1, EditFacts
  <2>3. PhaseOK(proc[c], Own(c)) /\ (c \notin touched => Since(proc[c], a, Own(c), filtered))
    BY DEF ReportsOK
  <2>4. Own(c) \union {x} = {w \in inflight' : w.by = c /\ w.doc = proc[c].doc}
    BY <1>3, <2>1 DEF Own
  <2> HIDE DEF a
  <2>5. ASSUME Since(proc[c], a, Own(c), filtered)
        PROVE  /\ Own(c) = {}
               /\ proc[c].redeploy => /\ proc[c].change.verb = "domain" /\ Holds(proc[c].change, a)
                                      /\ proc[c].body = a
               /\ ~proc[c].redeploy => Prepared(proc[c], a) /\ proc[c].body = proc[c].prepared
    BY <1>1, <2>3, <2>5 DEF Since, PhaseOK, MayWrite
  <2>6. CASE ~proc[c].redeploy /\ Now(c, [pc |-> "verify", tries |-> 0])
    <3> DEFINE q == Updated(proc[c], [pc |-> "verify", tries |-> 0])
    <3>1. /\ q.pc = "verify" /\ q.doc = proc[c].doc /\ q.redeploy = proc[c].redeploy /\ q.change = proc[c].change
          /\ q.prepared = proc[c].prepared /\ q.changed = proc[c].changed
      BY <1>1, DocFacts, Merged DEF Keys
    <3>2. proc' = [proc EXCEPT ![c] = q]
      BY <2>6 DEF Now
    <3> HIDE DEF q
    <3>3. PhaseOK(q, Own(c) \union {x})
      BY <1>1, <2>3, <2>6, <3>1 DEF PhaseOK, MayWrite
    <3>4. ASSUME Since(proc[c], a, Own(c), filtered) PROVE Since(q, a, Own(c) \union {x}, filtered)
      <4>1. Prepared(q, a) /\ \A w \in Own(c) \union {x} : w.body = q.prepared
        BY <1>3, <2>5, <2>6, <3>1, <3>4 DEF Prepared
      <4>2. \A v, w \in Own(c) \union {x} : v = w
        BY <2>5, <3>4
      <4> QED
        BY <3>1, <4>1, <4>2 DEF Since, Awaited
    <3>5. tenant'[line[c].docs[q.doc].name] = a
      BY <1>1, <3>1 DEF Name, Doc, a
    <3> QED
      BY <1>1, <1>4, <1>5, <2>3, <2>4, <3>1, <3>2, <3>3, <3>4, <3>5, OneReports
  <2>7. CASE proc[c].redeploy /\ Tell(c, "configured")
    <3> DEFINE q == Updated(proc[c], [pc |-> "told", told |-> "configured"])
    <3>1. /\ q.pc = "told" /\ q.told = "configured" /\ q.doc = proc[c].doc /\ q.redeploy = proc[c].redeploy
          /\ q.change = proc[c].change
      BY <1>1, DocFacts, Merged DEF Keys
    <3>2. proc' = [proc EXCEPT ![c] = q]
      BY <2>7 DEF Tell, Now
    <3> HIDE DEF q
    <3>3. PhaseOK(q, Own(c) \union {x})
      BY <3>1 DEF PhaseOK, MayWrite, Editing, Creating
    <3>4. ASSUME Since(proc[c], a, Own(c), filtered) PROVE Since(q, a, Own(c) \union {x}, filtered)
      <4>1. /\ \A v, w \in Own(c) \union {x} : v = w
            /\ \A w \in Own(c) \union {x} : w.body = a
        BY <1>3, <2>5, <2>7, <3>4
      <4>2. ASSUME NEW node \in Nodes PROVE Holds(q.change, StoredApp(a, a, filtered, node))
        <5>1. StoredApp(a, a, filtered, node) \in App
          BY <1>1, <2>2, StoredIsApp DEF StoreOK
        <5> QED
          BY <2>2, <2>5, <2>7, <3>1, <3>4, <5>1, RedeployHolds
      <4>3. Kept(q.change, a, Own(c) \union {x}, filtered)
        BY <2>2, <2>5, <2>7, <3>1, <3>4, <4>1, <4>2 DEF Kept
      <4> QED
        BY <3>1, <4>1, <4>3 DEF Since
    <3>5. tenant'[line[c].docs[q.doc].name] = a
      BY <1>1, <3>1 DEF Name, Doc, a
    <3> QED
      BY <1>1, <1>4, <1>5, <2>3, <2>4, <3>1, <3>2, <3>3, <3>4, <3>5, OneReports
  <2> QED
    BY <1>7, <2>6, <2>7 DEF Put
<1> QED
  BY <1>6, <1>7

\* An app that a read-back takes for the change holds it, and goes on doing so;
\* a change of domains is taken for stored only when it is.
LEMMA TakenKnows ==
  ASSUME NEW p, IsChange(p.change), p.change.verb # "create", SpecSized(p.change), NEW a \in App, SizeFits(a),
         NEW own, NEW drops \in SUBSET Fields, Awaited(p, a, own, drops), Took(p.change, p.changed, a, p.prepared)
  PROVE  Kept(p.change, a, own, drops) /\ (p.change.verb = "domain" => own = {})
<1> PICK k, b : k = p.change /\ b = p.prepared
  OBVIOUS
<1>1. CASE Prepared(p, a) /\ \A w \in own : w.body = b
  <2>1. /\ b \in App /\ b = Changed(k, a) /\ p.changed = Diff(a, b) /\ Diff(a, b) # {}
        /\ Took(k, Diff(a, b), a, b)
    BY <1>1 DEF Prepared
  <2>2. Holds(k, a)
    BY <2>1, NowHolds
  <2>3. ASSUME NEW node \in Nodes PROVE Holds(k, StoredApp(a, b, drops, node))
    <3>1. StoredApp(a, b, drops, node) \in App
      BY <2>1, StoredIsApp
    <3> QED
      BY <2>1, <3>1, LaterHolds
  <2>4. k.verb # "domain"
    BY <2>1, DomainNow
  <2> QED
    BY <1>1, <2>2, <2>3, <2>4 DEF Kept
<1>2. ASSUME own = {}, NEW e \in App, NEW node \in Nodes, SizeFits(e), Prepared(p, e), a = StoredApp(e, b, drops, node)
      PROVE  Kept(k, a, own, drops)
  <2>1. b \in App /\ b = Changed(k, e) /\ Took(k, Diff(e, b), a, b)
    BY <1>2 DEF Prepared
  <2>2. Holds(k, a)
    BY <1>2, <2>1, StoredTook
  <2> QED
    BY <1>2, <2>2 DEF Kept
<1> QED
  BY <1>1, <1>2 DEF Awaited

LEMMA ReadBackReports ==
  ASSUME SerialInv, ReportsOK, NEW c \in Running, ReadBack(c) PROVE ReportsOK'
<1> DEFINE a == tenant[Name(c)]
<1>1. /\ IInv /\ ProcsOK /\ StoreOK /\ SizesOK /\ OnlyReads /\ proc[c].pc = "verify" /\ proc[c].pc \in Editing
      /\ line' = line /\ filtered' = filtered /\ inflight' = inflight /\ touched' = touched /\ tenant' = tenant
  BY DEF SerialInv, IInv, ReadBack, IsAt, Editing, OnlyReads, storeVars
<1>2. PhaseOK(proc[c], Own(c)) /\ (c \notin touched => Since(proc[c], a, Own(c), filtered))
  BY DEF ReportsOK
<1>3. CASE \E report : Exit(c, report)
  BY <1>1, <1>3, ExitReports
<1>4. CASE Now(c, [tries |-> proc[c].tries + 1])
  <2> DEFINE q == Updated(proc[c], [tries |-> proc[c].tries + 1])
  <2>1. /\ q.pc = proc[c].pc /\ q.doc = proc[c].doc /\ q.redeploy = proc[c].redeploy /\ q.change = proc[c].change
        /\ q.prepared = proc[c].prepared /\ q.changed = proc[c].changed
    BY <1>1, DocFacts, Merged DEF Keys
  <2>2. proc' = [proc EXCEPT ![c] = q]
    BY <1>4 DEF Now
  <2> HIDE DEF q, a
  <2>3. PhaseOK(q, Own(c))
    BY <1>1, <1>2, <2>1 DEF PhaseOK, MayWrite
  <2>4. Awaited(proc[c], a, Own(c), filtered) => Awaited(q, a, Own(c), filtered)
    BY <2>1 DEF Awaited, Prepared
  <2>5. Since(proc[c], a, Own(c), filtered) => Since(q, a, Own(c), filtered)
    BY <1>1, <2>1, <2>4 DEF Since
  <2> QED
    BY <1>1, <1>2, <2>1, <2>2, <2>3, <2>5, ReadReports DEF a
<1>5. CASE /\ Live(c) /\ Took(proc[c].change, proc[c].changed, a, proc[c].prepared)
           /\ Confirmed(c)
  <2>1. /\ IsChange(proc[c].change) /\ proc[c].change.verb = Verb(c) /\ proc[c].change.verb # "create"
        /\ a \in App /\ SizeFits(a) /\ filtered \in SUBSET Fields
    <3>1. Name(c) \in Names
      BY <1>1, DocFacts
    <3> QED
      BY <1>1, <1>5, <3>1, EditFacts DEF SizesOK, Live, StoreOK
  <2>2. SpecSized(proc[c].change)
    BY <1>1, <1>2 DEF PhaseOK
  <2> HIDE DEF a
  <2>3. ASSUME Since(proc[c], a, Own(c), filtered)
        PROVE  /\ Kept(proc[c].change, a, Own(c), filtered)
               /\ proc[c].change.verb = "domain" => Own(c) = {}
               /\ \A v, w \in Own(c) : v = w
    <3>1. Awaited(proc[c], a, Own(c), filtered) /\ \A v, w \in Own(c) : v = w
      BY <1>1, <2>3 DEF Since
    <3> QED
      BY <1>5, <2>1, <2>2, <3>1, TakenKnows
  <2>4. CASE Verb(c) = "domain" /\ Now(c, [pc |-> "reread", redeploy |-> TRUE])
    <3> DEFINE q == Updated(proc[c], [pc |-> "reread", redeploy |-> TRUE])
    <3>1. q.pc = "reread" /\ q.redeploy = TRUE /\ q.doc = proc[c].doc /\ q.change = proc[c].change
      BY <1>1, DocFacts, Merged DEF Keys
    <3>2. proc' = [proc EXCEPT ![c] = q]
      BY <2>4 DEF Now
    <3> HIDE DEF q
    <3>3. PhaseOK(q, Own(c))
      BY <2>2, <3>1 DEF PhaseOK, MayWrite
    <3>4. Since(proc[c], a, Own(c), filtered) => Since(q, a, Own(c), filtered)
      BY <2>1, <2>3, <2>4, <3>1 DEF Since, Kept
    <3> QED
      BY <1>1, <1>2, <3>1, <3>2, <3>3, <3>4, ReadReports DEF a
  <2>5. CASE Tell(c, "configured")
    <3> DEFINE q == Updated(proc[c], [pc |-> "told", told |-> "configured"])
    <3>1. /\ q.pc = "told" /\ q.told = "configured" /\ q.doc = proc[c].doc /\ q.change = proc[c].change
      BY <1>1, DocFacts, Merged DEF Keys
    <3>2. proc' = [proc EXCEPT ![c] = q]
      BY <2>5 DEF Tell, Now
    <3> HIDE DEF q
    <3>3. PhaseOK(q, Own(c))
      BY <3>1 DEF PhaseOK, MayWrite, Editing, Creating
    <3>4. Since(proc[c], a, Own(c), filtered) => Since(q, a, Own(c), filtered)
      BY <2>3, <3>1 DEF Since
    <3> QED
      BY <1>1, <1>2, <3>1, <3>2, <3>3, <3>4, ReadReports DEF a
  <2> QED
    BY <1>5, <2>4, <2>5 DEF Confirmed
<1> QED
  BY <1>3, <1>4, <1>5 DEF ReadBack, Missed, Fail

LEMMA PostReports ==
  ASSUME IInv, ReportsOK, NEW c \in Running, Post(c) PROVE ReportsOK'
<1> DEFINE k == proc[c].change
<1>1. /\ ProcsOK /\ StoreOK /\ proc[c].pc = "post" /\ proc[c].pc \in Creating /\ proc[c].pc \in Quiet
      /\ UNCHANGED <<inflight, filtered, line>> /\ touched' = Disturbed(Name(c), {c}) \ {c}
  BY DEF IInv, Post, IsAt, Creating, Quiet
<1>2. /\ Name(c) \in Names /\ IsChange(k) /\ k.verb = Verb(c) /\ k.verb \in {"spec", "create"}
      /\ CanCreate(k.spec)
  <2>1. Good(proc[c], line[c]) /\ Name(c) \in Names /\ Verb(c) = line[c].docs[proc[c].doc].change.verb
    BY <1>1, DocFacts
  <2> QED
    BY <1>1, <2>1 DEF Good
<1>3. k.spec \in AppSpecs /\ Complete(k.spec)
  BY <1>2 DEF IsChange, FieldVerbs, CanCreate
<1>4. PICK size \in Sizes, node \in Nodes : Stored(Name(c), Derived(Payload(k.spec, size), node))
  BY DEF Post
<1>5. PICK a \in App : a = Derived(Payload(k.spec, size), node)
  BY <1>3, PayloadIsApp, DerivedIsApp
<1>6. tenant'[Name(c)] = a /\ \A n \in Names \ {Name(c)} : tenant'[n] = tenant[n]
  BY <1>1, <1>2, <1>4, <1>5 DEF Stored, StoreOK
<1>7. \A d \in Running \ {c} : d \notin touched' => d \notin touched /\ tenant'[Name(d)] = tenant[Name(d)]
  <2>1. \A d \in Running : Name(d) \in Names
    BY <1>1, DocFacts
  <2> QED
    BY <1>1, <1>6, <2>1 DEF Disturbed
<1>8. Own(c) = {} /\ ~proc[c].redeploy /\ SpecSized(k)
  <2>1. PhaseOK(proc[c], Own(c))
    BY DEF ReportsOK
  <2> QED
    BY <1>1, <2>1, QuietOwns DEF PhaseOK
<1>9. ASSUME NEW news, Now(c, Updated([list |-> None], news)), DOMAIN news \subseteq {"pc", "told"}, "pc" \in DOMAIN news,
             \/ news.pc = "relist"
             \/ /\ news.pc = "told" /\ "told" \in DOMAIN news /\ news.told = "created"
                /\ ~(Verb(c) = "spec" /\ HasPostCreateFields(k.spec))
      PROVE  ReportsOK'
  <2> DEFINE all == Updated([list |-> None], news)
             q == Updated(proc[c], all)
  <2>1. /\ DOMAIN all = DOMAIN news \union {"list"} /\ all.pc = news.pc
        /\ "told" \in DOMAIN news => all.told = news.told
    BY <1>9 DEF Updated
  <2> HIDE DEF all
  <2>2. /\ Keys \subseteq DOMAIN q
        /\ \A x \in Keys : q[x] = IF x \in DOMAIN all THEN all[x] ELSE proc[c][x]
    BY <1>1, DocFacts, Merged
  <2> HIDE DEF q
  <2>3. /\ q.pc = news.pc /\ q.doc = proc[c].doc /\ q.redeploy = proc[c].redeploy /\ q.change = k
        /\ "told" \in DOMAIN news => q.told = news.told
    BY <1>9, <2>1, <2>2 DEF Keys
  <2> HIDE DEF k
  <2>4. PhaseOK(q, {}) /\ Since(q, a, {}, filtered)
    <3>1. CASE news.pc = "relist"
      BY <1>8, <2>3, <3>1, QuietKnows DEF Quiet
    <3>2. CASE news.pc = "told"
      <4>1. k.verb = "create" \/ (k.verb = "spec" /\ ~HasPostCreateFields(k.spec))
        BY <1>2, <1>9, <3>2 DEF k
      <4>2. Holds(k, a)
        BY <1>3, <1>5, <4>1, CreatedHolds
      <4>3. PhaseOK(q, {})
        BY <1>8, <2>3, <3>2 DEF PhaseOK, Editing, Creating
      <4> QED
        BY <1>8, <2>3, <3>2, <4>2, <4>3 DEF Since, Kept
    <3> QED
      BY <1>9, <3>1, <3>2
  <2>5. {w \in inflight' : w.by = c /\ w.doc = q.doc} = {}
    BY <1>1, <1>8, <2>3 DEF Own
  <2>6. tenant'[line[c].docs[q.doc].name] = a
    BY <1>6, <2>3 DEF Name, Doc
  <2>7. proc' = [proc EXCEPT ![c] = q]
    BY <1>9 DEF Now, q, all
  <2> QED
    BY <1>1, <1>7, <2>4, <2>5, <2>6, <2>7, OneReports
<1>10. CASE Fail(c)
  BY <1>1, <1>7, <1>10, ExitReports DEF Fail
<1>11. CASE Now(c, Updated([list |-> None], [pc |-> "relist"]))
  BY <1>9, <1>11
<1>12. CASE /\ Now(c, Updated([list |-> None], [pc |-> "told", told |-> "created"]))
            /\ ~(Verb(c) = "spec" /\ HasPostCreateFields(k.spec))
  <2> DEFINE news == [pc |-> "told", told |-> "created"]
  <2>1. DOMAIN news = {"pc", "told"} /\ news.pc = "told" /\ news.told = "created"
    OBVIOUS
  <2>2. Now(c, Updated([list |-> None], news))
    BY <1>12
  <2> HIDE DEF news
  <2> QED
    BY <1>9, <1>12, <2>1, <2>2
<1> QED
  BY <1>10, <1>11, <1>12 DEF Post

LEMMA RelistReports ==
  ASSUME IInv, ReportsOK, NEW c \in Running, Relist(c) PROVE ReportsOK'
<1> DEFINE news == [pc |-> "prepare", list |-> Seen(c), target |-> Entry(c).id, confirmed |-> TRUE]
<1>1. ProcsOK /\ OnlyReads /\ proc[c].pc \in Quiet /\ proc[c].pc \in Editing /\ proc[c].pc # "done"
  BY DEF IInv, Relist, IsAt, Quiet, Editing
<1>2. SpecSized(proc[c].change)
  BY <1>1 DEF ReportsOK, PhaseOK
<1>3. CASE Fail(c)
  BY <1>1, <1>3, FailReports
<1>4. CASE Now(c, news)
  BY <1>1, <1>2, <1>4, QuietReports DEF Quiet
<1> QED
  BY <1>3, <1>4 DEF Relist

LEMMA NextDocReports ==
  ASSUME IInv, NamesOK, ReportsOK, NEW c \in Running, NextDoc(c) PROVE ReportsOK'
<1> DEFINE q == Updated(proc[c], [pc |-> "lookup", doc |-> proc[c].doc + 1, confirmed |-> FALSE, redeploy |-> FALSE])
<1>1. /\ ProcsOK /\ proc[c].pc = "told"
      /\ line' = line /\ filtered' = filtered /\ inflight' = inflight /\ touched' = touched /\ tenant' = tenant
  BY DEF IInv, NextDoc, IsAt, OnlyReads, storeVars
<1>2. CASE Exit(c, proc[c].told)
  BY <1>1, <1>2, ExitReports
<1>3. CASE ~Exit(c, proc[c].told)
  <2>1. proc' = [proc EXCEPT ![c] = q]
    BY <1>3 DEF NextDoc, Now
  <2>2. q.pc = "lookup" /\ q.doc = proc[c].doc + 1 /\ q.redeploy = FALSE
    BY <1>1, DocFacts, Merged DEF Keys
  <2> HIDE DEF q
  <2>3. proc[c].doc \in Nat
    <3>1. Good(proc[c], line[c]) /\ IsLine(line[c])
      BY <1>1, DocFacts
    <3> QED
      BY <3>1 DEF Good, IsLine
  <2> DEFINE own == {w \in inflight' : w.by = c /\ w.doc = q.doc}
  <2>4. own = {}
    <3>1. ASSUME NEW w \in inflight, w.by = c PROVE w.doc # q.doc
      <4>1. w.doc <= proc[c].doc
        BY <1>1, <3>1 DEF NamesOK
      <4> QED
        BY <2>2, <2>3, <4>1
    <3> QED
      BY <1>1, <3>1
  <2>5. PhaseOK(q, {}) /\ \A a : Since(q, a, {}, filtered)
    BY <2>2, QuietKnows DEF Quiet, Editing, Creating
  <2> QED
    BY <1>1, <2>1, <2>4, <2>5, OneReports
<1> QED
  BY <1>2, <1>3

LEMMA StepReports ==
  ASSUME SerialInv, NamesOK, ReportsOK, NEW c \in Running, Step(c) PROVE ReportsOK'
<1>1. IInv /\ ProcsOK
  BY DEF SerialInv, IInv
<1> QED
  BY <1>1, FindAppReports, FindNoneReports, PrereadReports, PrepareReports, AnswerReports, RereadReports,
     PutReports, ReadBackReports, PostReports, RelistReports, NextDocReports, FailReports DEF Step, Breaks

\* A process never goes back in its line.
Onward(p, q) == q.pc = "done" \/ q.doc \in {p.doc, p.doc + 1}

LEMMA DocMoves ==
  ASSUME ProcsOK, NEW c \in Running, Step(c) PROVE Onward(proc[c], proc'[c])
<1>1. DOMAIN proc = Running /\ Keys \subseteq DOMAIN proc[c]
  BY DocFacts DEF ProcsOK
<1>2. ASSUME NEW report, Exit(c, report) PROVE Onward(proc[c], proc'[c])
  BY <1>1, <1>2 DEF Exit, Starting, Onward
<1>3. ASSUME NEW news, Now(c, news), "doc" \notin DOMAIN news PROVE Onward(proc[c], proc'[c])
  <2>1. proc'[c] = Updated(proc[c], news)
    BY <1>1, <1>3 DEF Now
  <2>2. Updated(proc[c], news).doc = proc[c].doc
    BY <1>1, <1>3, Merged DEF Keys
  <2> QED
    BY <2>1, <2>2 DEF Onward
<1>4. CASE Fail(c)
  BY <1>2, <1>4 DEF Fail
<1>5. CASE FindApp(c) /\ ~Fail(c)
  <2> DEFINE news == [pc |-> IF Doc(c).change.verb \in PrereadVerbs THEN "preread" ELSE "prepare",
                      list |-> Seen(c), target |-> Entry(c).id, change |-> Doc(c).change]
  <2>1. Now(c, news)
    BY <1>5 DEF FindApp
  <2>2. "doc" \notin DOMAIN news
    OBVIOUS
  <2> HIDE DEF news
  <2> QED
    BY <1>3, <2>1, <2>2
<1>6. CASE (FindNone(c) \/ StartCreate(c)) /\ ~Fail(c)
  <2>1. \/ Now(c, [pc |-> "told", told |-> "wouldCreate", list |-> Seen(c)])
        \/ Now(c, [pc |-> "createPrompt", change |-> Doc(c).change])
    BY <1>6 DEF FindNone, StartCreate
  <2> QED
    BY <1>3, <2>1
<1>7. CASE Preread(c) /\ ~Fail(c)
  <2>1. \/ Now(c, [pc |-> "prepare"]) \/ \E new : Now(c, [pc |-> "prepare", change |-> new])
    BY <1>7 DEF Preread, Goto
  <2> QED
    BY <1>3, <2>1
<1>8. CASE Prepare(c) /\ ~Fail(c)
  <2> DEFINE differing == Diff(tenant[Name(c)], Changed(proc[c].change, tenant[Name(c)]))
             marks == [prepared |-> Changed(proc[c].change, tenant[Name(c)]), changed |-> differing]
             verdict == Verdict(c, differing)
             news == Updated(verdict, marks)
  <2>1. Now(c, news)
    BY <1>8 DEF Prepare
  <2>2. DOMAIN verdict \subseteq {"pc", "told"}
    <3> HIDE DEF differing
    <3> QED
      BY VerdictTells
  <2>3. DOMAIN marks = {"prepared", "changed"}
    OBVIOUS
  <2> HIDE DEF verdict, marks
  <2>4. "doc" \notin DOMAIN news
    BY <2>2, <2>3 DEF Updated
  <2> HIDE DEF news
  <2> QED
    BY <1>3, <2>1, <2>4
<1>9. CASE Answer(c)
  <2>1. Exit(c, "aborted") \/ Now(c, [pc |-> "reread"]) \/ Now(c, [pc |-> "post"])
    BY <1>9 DEF Answer, Goto
  <2> QED
    BY <1>2, <1>3, <2>1
<1>10. CASE Reread(c) /\ ~Fail(c)
  <2>1. Now(c, [pc |-> "put", body |-> Changed(Edit(c), tenant[Name(c)]), base |-> ver[Name(c)]])
    BY <1>10 DEF Reread
  <2> QED
    BY <1>3, <2>1
<1>11. CASE Put(c) /\ ~Fail(c)
  <2>1. Now(c, [pc |-> "verify", tries |-> 0]) \/ Now(c, [pc |-> "told", told |-> "configured"])
    BY <1>11 DEF Put, Tell
  <2> QED
    BY <1>3, <2>1
<1>12. CASE ReadBack(c) /\ ~Fail(c)
  <2>1. \/ Exit(c, "ignored") \/ Now(c, [tries |-> proc[c].tries + 1])
        \/ Now(c, [pc |-> "reread", redeploy |-> TRUE]) \/ Now(c, [pc |-> "told", told |-> "configured"])
    BY <1>12 DEF ReadBack, Confirmed, Missed, Tell
  <2> QED
    BY <1>2, <1>3, <2>1
<1>13. CASE Post(c) /\ ~Fail(c)
  <2> DEFINE relist == Updated([list |-> None], [pc |-> "relist"])
             told == Updated([list |-> None], [pc |-> "told", told |-> "created"])
  <2>1. Now(c, relist) \/ Now(c, told)
    BY <1>13 DEF Post
  <2>2. "doc" \notin DOMAIN relist /\ "doc" \notin DOMAIN told
    BY DEF Updated
  <2> HIDE DEF relist, told
  <2> QED
    BY <1>3, <2>1, <2>2
<1>14. CASE Relist(c) /\ ~Fail(c)
  <2>1. Now(c, [pc |-> "prepare", list |-> Seen(c), target |-> Entry(c).id, confirmed |-> TRUE])
    BY <1>14 DEF Relist
  <2> QED
    BY <1>3, <2>1
<1>15. CASE NextDoc(c)
  <2>1. CASE Exit(c, proc[c].told)
    BY <1>2, <2>1
  <2>2. CASE ~Exit(c, proc[c].told)
    <3> DEFINE news == [pc |-> "lookup", doc |-> proc[c].doc + 1, confirmed |-> FALSE, redeploy |-> FALSE]
    <3>1. proc'[c] = Updated(proc[c], news)
      BY <1>1, <1>15, <2>2 DEF NextDoc, Now
    <3>2. Updated(proc[c], news).doc = proc[c].doc + 1
      BY <1>1, Merged DEF Keys
    <3> QED
      BY <3>1, <3>2 DEF Onward
  <2> QED
    BY <2>1, <2>2
<1> QED
  BY <1>4, <1>5, <1>6, <1>7, <1>8, <1>9, <1>10, <1>11, <1>12, <1>13, <1>14, <1>15 DEF Step, Breaks

LEMMA DoneRests ==
  ASSUME NEW c \in Running, Step(c) PROVE proc[c].pc # "done"
  BY DEF Step, FindApp, FindNone, StartCreate, Preread, Prepare, Answer, Reread, Put, ReadBack, Post,
         Relist, NextDoc, Breaks, IsAt

LEMMA StepNames ==
  ASSUME IInv, NamesOK, WritesOK, NEW c \in Running, Step(c) PROVE NamesOK'
<1> DEFINE x == [by |-> c, doc |-> proc[c].doc, name |-> Name(c), id |-> proc[c].target,
                 body |-> proc[c].body, base |-> proc[c].base]
<1>1. /\ ProcsOK /\ line' = line /\ \A d \in Running \ {c} : proc'[d] = proc[d]
  BY DEF IInv, ProcsOK, Step, FindApp, FindNone, StartCreate, Preread, Prepare, Answer, Reread, Put, ReadBack, Post,
         Relist, NextDoc, Breaks, OnlyReads, Fail, Exit, Now, Goto, Tell, Missed, Confirmed
<1>2. inflight' \subseteq inflight \union {x}
  BY DEF Step, FindApp, FindNone, StartCreate, Preread, Prepare, Answer, Reread, Put, ReadBack, Post,
         Relist, NextDoc, Breaks, OnlyReads, storeVars
<1>3. x.by = c /\ x.doc = proc[c].doc /\ x.name = line[c].docs[proc[c].doc].name
  BY DEF Name, Doc
<1> HIDE DEF x
<1>4. proc[c].doc \in Nat
  BY <1>1, DocFacts DEF Good, IsLine
<1>5. proc'[c].pc = "done" \/ proc'[c].doc \in {proc[c].doc, proc[c].doc + 1}
  BY <1>1, DocMoves DEF Onward
<1>6. ASSUME NEW w \in inflight'
      PROVE  /\ w.name = line[w.by].docs[w.doc].name
             /\ proc'[w.by].pc = "done" \/ w.doc <= proc'[w.by].doc
  <2>1. CASE w = x
    BY <1>3, <1>4, <1>5, <2>1
  <2>2. CASE w \in inflight
    <3>1. /\ w.by \in Running /\ w.doc \in Nat /\ w.name = line[w.by].docs[w.doc].name
          /\ proc[w.by].pc = "done" \/ w.doc <= proc[w.by].doc
      BY <2>2 DEF NamesOK, WritesOK
    <3>2. CASE w.by # c
      BY <1>1, <3>1, <3>2
    <3>3. CASE w.by = c /\ proc[c].pc = "done"
      BY <3>3, DoneRests
    <3>4. CASE w.by = c /\ proc[c].pc # "done"
      BY <1>4, <1>5, <3>1, <3>4
    <3> QED
      BY <3>2, <3>3, <3>4
  <2> QED
    BY <1>2, <2>1, <2>2
<1> QED
  BY <1>1, <1>6 DEF NamesOK

\* A process whose own write is stored.
LEMMA LandedKnows ==
  ASSUME NEW p, NEW own, PhaseOK(p, own), NEW a \in App, SizeFits(a), NEW drops, Since(p, a, own, drops),
         NEW w \in own, NEW node \in Nodes, NEW b \in App, b = StoredApp(a, w.body, drops, node)
  PROVE  Since(p, b, {}, drops)
<1> SUFFICES ASSUME p.pc # "done" PROVE Since(p, b, {}, drops)
  BY DEF Since
<1>1. MayWrite(p) /\ (p.redeploy => p.pc \in {"reread", "put", "told"})
  BY DEF PhaseOK
<1>2. CASE p.pc = "verify"
  <2>1. Prepared(p, a) /\ w.body = p.prepared
    BY <1>2 DEF Since, Awaited
  <2>2. Awaited(p, b, {}, drops)
    BY <2>1 DEF Awaited
  <2> QED
    BY <1>2, <2>2 DEF Since
<1>3. CASE p.pc = "told"
  <2>1. p.told \in Successes => Holds(p.change, b)
    BY <1>3 DEF Since, Kept
  <2>2. p.told \in Successes => Kept(p.change, b, {}, drops)
    BY <2>1 DEF Kept
  <2> QED
    BY <1>3, <2>2 DEF Since
<1>4. CASE p.redeploy /\ p.pc \in {"reread", "put"}
  BY <1>4 DEF Since
<1> QED
  BY <1>1, <1>2, <1>3, <1>4 DEF MayWrite

LEMMA LandReports ==
  ASSUME SerialInv, NamesOK, ReportsOK, NEW w \in inflight, Land(w), StoreOK' PROVE ReportsOK'
<1>1. /\ ProcsOK /\ StoreOK /\ SizesOK /\ w.name \in Names /\ w.body \in App
      /\ w.name = line[w.by].docs[w.doc].name
  BY DEF SerialInv, IInv, StoreOK, NamesOK
<1>2. UNCHANGED <<filtered, line, proc>> /\ inflight' = inflight \ {w}
  BY DEF Land
<1>3. ASSUME NEW d \in Running, d \notin touched' => d \notin touched /\ tenant'[Name(d)] = tenant[Name(d)]
      PROVE  /\ PhaseOK(proc'[d], Own(d)')
             /\ d \notin touched' => Since(proc'[d], tenant'[Name(d)'], Own(d)', filtered')
  BY <1>2, <1>3, RestReports
<1>4. ASSUME NEW d \in Running
      PROVE  /\ PhaseOK(proc'[d], Own(d)')
             /\ d \notin touched' => Since(proc'[d], tenant'[Name(d)'], Own(d)', filtered')
  <2>1. CASE ~(tenant[w.name] # None /\ id[w.name] = w.id)
    <3>1. UNCHANGED <<tenant, touched>>
      BY <2>1 DEF Land
    <3> QED
      BY <1>3, <3>1
  <2>2. CASE tenant[w.name] # None /\ id[w.name] = w.id
    <3>1. PICK node \in Nodes : Stored(w.name, StoredApp(tenant[w.name], w.body, filtered, node))
      BY <2>2 DEF Land
    <3>2. touched' = Disturbed(w.name, {c \in {w.by} : proc[c].doc = w.doc})
      BY <2>2 DEF Land
    <3>3. CASE d \in touched'
      BY <1>3, <3>3
    <3>4. CASE Name(d) # w.name
      <4>1. Name(d) \in Names
        BY <1>1, DocFacts
      <4>2. tenant'[Name(d)] = tenant[Name(d)]
        BY <1>1, <3>1, <3>4, <4>1 DEF Stored, StoreOK
      <4> QED
        BY <1>3, <3>2, <4>2 DEF Disturbed
    <3>5. CASE d \notin touched' /\ Name(d) = w.name
      <4>1. d = w.by /\ proc[d].doc = w.doc /\ d \notin touched
        BY <3>2, <3>5 DEF Disturbed
      <4>2. PICK a \in App : a = tenant[Name(d)]
        BY <1>1, <2>2, <3>5 DEF StoreOK
      <4>3. SizeFits(a)
        BY <1>1, <2>2, <3>5, <4>2 DEF SizesOK
      <4>4. PhaseOK(proc[d], Own(d)) /\ Since(proc[d], a, Own(d), filtered) /\ w \in Own(d)
        BY <4>1, <4>2 DEF ReportsOK, Own
      <4>5. PICK b \in App : b = StoredApp(a, w.body, filtered, node)
        BY <1>1, <4>2, StoredIsApp DEF StoreOK
      <4>6. tenant'[Name(d)] = b
        BY <1>1, <3>1, <3>5, <4>2, <4>5 DEF Stored, StoreOK
      <4>7. Since(proc[d], b, {}, filtered)
        BY <4>3, <4>4, <4>5, LandedKnows
      <4>8. Own(d)' \subseteq Own(d) /\ Name(d)' = Name(d)
        BY <1>2 DEF Own, Name, Doc
      <4>9. proc[d].pc = "done" \/ Own(d)' = {}
        <5> SUFFICES ASSUME proc[d].pc # "done" PROVE Own(d)' = {}
          OBVIOUS
        <5>1. \A v, x \in Own(d) : v = x
          BY <4>4 DEF Since
        <5> QED
          BY <1>2, <4>4, <4>8, <5>1 DEF Own
      <4>10. Since(proc[d], b, Own(d)', filtered)
        BY <4>7, <4>9 DEF Since
      <4>11. PhaseOK(proc[d], Own(d)')
        BY <4>4, <4>8, FewerWrites
      <4> QED
        BY <1>2, <4>6, <4>8, <4>10, <4>11
    <3> QED
      BY <3>3, <3>4, <3>5
  <2> QED
    BY <2>1, <2>2
<1> QED
  BY <1>2, <1>4 DEF ReportsOK, Running

LEMMA OtherReports ==
  ASSUME SerialInv, ReportsOK, NEW n \in Names, Other(n) PROVE ReportsOK'
<1>1. /\ ProcsOK /\ StoreOK /\ UNCHANGED <<inflight, filtered, line, proc>> /\ touched' = Disturbed(n, {})
  BY DEF SerialInv, IInv, Other
<1>2. PICK a : Stored(n, a)
  BY DEF Other
<1>3. ASSUME NEW d \in Running
      PROVE  /\ PhaseOK(proc'[d], Own(d)')
             /\ d \notin touched' => Since(proc'[d], tenant'[Name(d)'], Own(d)', filtered')
  <2>1. Name(d) \in Names
    BY <1>1, DocFacts
  <2>2. d \notin touched' => d \notin touched /\ Name(d) # n
    BY <1>1 DEF Disturbed
  <2>3. d \notin touched' => tenant'[Name(d)] = tenant[Name(d)]
    BY <1>1, <1>2, <2>1, <2>2 DEF Stored, StoreOK
  <2> QED
    BY <1>1, <2>2, <2>3, RestReports
<1> QED
  BY <1>1, <1>3 DEF ReportsOK, Running

LEMMA ReportInit == Init => ReportInv
<1> SUFFICES ASSUME Init PROVE ReportInv
  OBVIOUS
<1>1. SerialInv
  BY SerialInit
<1>2. inflight = {} /\ \A c \in Running : proc[c] = Starting
  BY DEF Init
<1>3. NamesOK
  BY <1>2 DEF NamesOK
<1>4. Starting.pc = "lookup" /\ Starting.redeploy = FALSE
  BY DEF Starting
<1>5. \A a : PhaseOK(Starting, {}) /\ Since(Starting, a, {}, filtered)
  BY <1>4, QuietKnows DEF Quiet, Editing, Creating
<1>6. \A c \in Running : Own(c) = {}
  BY <1>2 DEF Own
<1>7. ReportsOK
  BY <1>2, <1>5, <1>6 DEF ReportsOK
<1> QED
  BY <1>1, <1>3, <1>7 DEF ReportInv

LEMMA ReportNext == ReportInv /\ [Next]_vars => ReportInv'
<1> SUFFICES ASSUME ReportInv, [Next]_vars PROVE ReportInv'
  OBVIOUS
<1>1. SerialInv /\ NamesOK /\ ReportsOK /\ IInv /\ WritesOK
  BY DEF ReportInv, SerialInv
<1>2. SerialInv'
  BY <1>1, SerialNext
<1>3. StoreOK'
  BY <1>2 DEF SerialInv, IInv
<1>4. CASE \E c \in Running : Step(c)
  BY <1>1, <1>2, <1>4, StepReports, StepNames DEF ReportInv
<1>5. ASSUME NEW w \in inflight, Land(w) PROVE ReportInv'
  <2>1. UNCHANGED <<line, proc>> /\ inflight' \subseteq inflight
    BY <1>5 DEF Land
  <2>2. NamesOK'
    BY <1>1, <2>1 DEF NamesOK
  <2> QED
    BY <1>1, <1>2, <1>3, <1>5, <2>2, LandReports DEF ReportInv
<1>6. ASSUME NEW n \in Names, Other(n) PROVE ReportInv'
  <2>1. UNCHANGED <<line, proc, inflight>>
    BY <1>6 DEF Other
  <2>2. NamesOK'
    BY <1>1, <2>1 DEF NamesOK
  <2> QED
    BY <1>1, <1>2, <1>6, <2>2, OtherReports DEF ReportInv
<1>7. CASE UNCHANGED vars
  BY <1>1, <1>2, <1>7 DEF ReportInv, vars, storeVars, NamesOK, ReportsOK, Own, Running, Name, Doc
<1> QED
  BY <1>4, <1>5, <1>6, <1>7 DEF Next

\* A command that says "configured", "created" or "unchanged" of an app that
\* nothing else wrote left the platform storing what it asked for, whatever
\* fields the platform drops, whenever it stores the write and however many
\* commands run beside it (took, verifyDiff, createMissing, reconcileIngress).
THEOREM ReportsStored == Spec => []ReportedIsStored
<1>1. ReportInv => ReportedIsStored
  <2> SUFFICES ASSUME ReportInv, NEW c \in Running, IsAt(c, "told"),
                      proc[c].told \in {"configured", "created", "unchanged"}, c \notin touched
               PROVE  tenant[Name(c)] # None /\ Holds(proc[c].change, tenant[Name(c)])
    BY DEF ReportedIsStored
  <2>1. Since(proc[c], tenant[Name(c)], Own(c), filtered) /\ proc[c].pc = "told"
    BY DEF ReportInv, ReportsOK, IsAt
  <2>2. tenant[Name(c)] \in App /\ Holds(proc[c].change, tenant[Name(c)])
    BY <2>1 DEF Since, Kept, Successes
  <2>3. None \notin App
    BY StructuresAssumption
  <2> QED
    BY <2>2, <2>3
<1> QED
  BY <1>1, ReportInit, ReportNext, PTL DEF Spec
=============================================================================
