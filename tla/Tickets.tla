------------------------------ MODULE Tickets ------------------------------
(***************************************************************************)
(* Support tickets (cmd/ticket.go, internal/client/tickets.go): `ticket    *)
(* create`, `reply`, `close`, `rate` and `download`.                       *)
(*                                                                         *)
(* A ticket gets its files in two steps: each is staged before the ticket  *)
(* is filed, and a request of its own attaches them afterwards; a reply's  *)
(* are uploaded to the ticket and named by the comment.  The files may     *)
(* change on the disk meanwhile, and support works on the same tickets.    *)
(***************************************************************************)
EXTENDS Naturals, FiniteSets, Sequences, SequencesExt

CONSTANTS
  Procs,      \* commands, each in a process of its own
  Asks,       \* per process what it may be asked: records [kind, ticket, text,
              \* yes, files, type, priority, stars]
  Files,      \* paths of local files
  Types,      \* the request types there are
  Priorities, \* the priorities there are
  MaxStars,
  MaxEdits,   \* bound: what changes on the disk
  MaxSupport  \* bound: what support does

Unset == ""

VARIABLES
  tickets,   \* the tickets: records [from, open, files, comments, stars]
  uploads,   \* what was uploaded: records [file, content, to]; ticket 0 is staging
  disk,      \* per file: its content, a number; 0 when there is no regular file
  edits, support,  \* how much happened to the disk and at support
  pc, ask,
  sent,      \* the uploads of a command, by number, Unnamed for one it has no id of
  id,        \* the ticket it acts on, 0 before one is filed
  outcome,
  mute       \* its ticket was filed by an answer it could not read (history)

platformVars == <<tickets, uploads, support>>
diskVars == <<disk, edits>>
commandVars == <<pc, ask, sent, id, outcome, mute>>
vars == <<platformVars, diskVars, commandVars>>

Nobody == 0
Unnamed == 0
Ticket(from) == [from |-> from, open |-> TRUE, files |-> {}, comments |-> {}, stars |-> 0]

Init ==
  /\ tickets = <<Ticket(Nobody)>> /\ uploads = <<>> /\ support = 0 /\ edits = 0
  /\ disk \in [Files -> {0, 1}]
  /\ ask \in {a \in [Procs -> UNION Range(Asks)] : \A p \in Procs : a[p] \in Asks[p]}
  /\ pc = [p \in Procs |-> "check"] /\ sent = [p \in Procs |-> <<>>]
  /\ id = [p \in Procs |-> IF ask[p].kind = "create" THEN 0 ELSE ask[p].ticket]
  /\ outcome = [p \in Procs |-> "running"] /\ mute = [p \in Procs |-> FALSE]

Goto(p, phase) == pc' = [pc EXCEPT ![p] = phase] /\ UNCHANGED outcome
Finish(p, how) == pc' = [pc EXCEPT ![p] = "done"] /\ outcome' = [outcome EXCEPT ![p] = how]

\* Mutant: the ticket is filed before its files are uploaded.
NextPhasePostFirst(p, done, filed) ==
  IF ~filed THEN "post" ELSE IF Len(done) < Len(ask[p].files) THEN "upload" ELSE "attach"

\* What is left to do: the files one by one, then the ticket or the comment,
\* then what attaches the files to a ticket.
NextPhase(p, done, filed) ==
  IF Len(done) < Len(ask[p].files) THEN "upload" ELSE IF ~filed THEN "post" ELSE "attach"

-----------------------------------------------------------------------------
(* Before anything is sent.                                                *)

\* ticketText and what follows it: a text is given once, and a prompt cannot
\* be answered when the text came from stdin.
TextIsMissing(a) ==
  \/ a.text = "both"
  \/ a.text = "none" /\ (a.kind = "create" \/ a.files = <<>>)
  \/ a.kind = "create" /\ a.text = "stdin" /\ ~a.yes

\* ticketFiles: every file is there.
FileIsMissing(a) == \E i \in DOMAIN a.files : disk[a.files[i]] = 0

Refused(a) ==
  CASE a.kind \in {"create", "reply"} -> TextIsMissing(a) \/ FileIsMissing(a)
    [] a.kind = "rate" -> a.stars \notin 1..MaxStars
    [] OTHER -> FALSE

AfterCheck(p) ==
  CASE ask[p].kind = "create" -> "lookup"
    [] ask[p].kind = "reply"  -> NextPhase(p, <<>>, FALSE)
    [] ask[p].kind = "close"  -> "look"
    [] OTHER -> ask[p].kind

(* The arguments.                                                          *)
Check(p) ==
  /\ pc[p] = "check"
  /\ IF Refused(ask[p]) THEN Finish(p, "failed") ELSE Goto(p, AfterCheck(p))
  /\ UNCHANGED <<platformVars, diskVars, ask, sent, id, mute>>

(* checkTicketCategory and resolveTicketPriority.                          *)
LookUp(p) ==
  /\ pc[p] = "lookup"
  /\ IF ask[p].type \in Types /\ ask[p].priority \in Priorities \cup {Unset}
       THEN Goto(p, "answer") ELSE Finish(p, "failed")
  /\ UNCHANGED <<platformVars, diskVars, ask, sent, id, mute>>

(* The prompt of `create` and of `close`.                                  *)
Answer(p) ==
  /\ pc[p] = "answer"
  /\ \/ Goto(p, IF ask[p].kind = "create" THEN NextPhase(p, <<>>, FALSE) ELSE "close")
     \/ ~ask[p].yes /\ Finish(p, "aborted")
  /\ UNCHANGED <<platformVars, diskVars, ask, sent, id, mute>>

-----------------------------------------------------------------------------
(* Filing and replying.                                                    *)

(* supportUpload of the next file, to staging or to the ticket.  An answer *)
(* without an id is an error of `create` (stageTicketAttachment), and goes *)
(* unnoticed in a reply.                                                   *)
Upload(p) ==
  LET f == ask[p].files[Len(sent[p]) + 1] IN
  /\ pc[p] = "upload"
  /\ IF disk[f] = 0 THEN Finish(p, "failed") /\ UNCHANGED <<uploads, sent>>
     ELSE /\ uploads' = Append(uploads, [file |-> f, content |-> disk[f],
                                          to |-> IF ask[p].kind = "reply" THEN id[p] ELSE 0])
          /\ \E n \in {Len(uploads')} \cup (IF ask[p].kind = "reply" THEN {Unnamed} ELSE {}) :
               sent' = [sent EXCEPT ![p] = Append(@, n)]
          /\ \/ Goto(p, IF ask[p].kind = "create" THEN "stat" ELSE NextPhase(p, sent'[p], FALSE))
             \/ Finish(p, "failed")
  /\ UNCHANGED <<tickets, support, diskVars, ask, id, mute>>

(* stageTicketAttachment asks the size of the file after it was uploaded.  *)
Stat(p) ==
  /\ pc[p] = "stat"
  /\ IF disk[ask[p].files[Len(sent[p])]] = 0 THEN Finish(p, "failed")
     ELSE Goto(p, NextPhase(p, sent[p], id[p] # 0))
  /\ UNCHANGED <<platformVars, diskVars, ask, sent, id, mute>>

(* CreateTicket's second request.  The answer may be lost, or hold no id.  *)
Post(p) ==
  /\ pc[p] = "post" /\ ask[p].kind = "create"
  /\ tickets' = Append(tickets, Ticket(p))
  /\ \/ /\ id' = [id EXCEPT ![p] = Len(tickets')]
        /\ IF ask[p].files = <<>> THEN Finish(p, "created") ELSE Goto(p, NextPhase(p, sent[p], TRUE))
        /\ UNCHANGED mute
     \/ /\ Finish(p, "failed") /\ mute' = [mute EXCEPT ![p] = TRUE] /\ UNCHANGED id
  /\ UNCHANGED <<uploads, support, diskVars, ask, sent>>

\* The ticket stands without its files, and the error says so and gives its id.
Unattached == "unattached"

(* The request that attaches what was staged; its answer may be lost.      *)
Attach(p) ==
  /\ pc[p] = "attach"
  /\ \/ /\ tickets' = [tickets EXCEPT ![id[p]].files = Range(sent[p])]
        /\ Finish(p, "created") \/ Finish(p, Unattached)
     \/ Finish(p, Unattached) /\ UNCHANGED tickets
  /\ UNCHANGED <<uploads, support, diskVars, ask, sent, id, mute>>

(* ReplyToTicket's comment; the platform may refuse, as on a closed ticket, *)
(* and has no file for an attachment without an id.                         *)
Comment(p) ==
  /\ pc[p] = "post" /\ ask[p].kind = "reply"
  /\ \/ /\ tickets' = [tickets EXCEPT ![id[p]].comments = @ \cup {[from |-> p, files |-> Range(sent[p]) \ {Unnamed}]}]
        /\ \/ Finish(p, "replied") /\ UNCHANGED mute
           \/ Finish(p, "failed") /\ mute' = [mute EXCEPT ![p] = TRUE]
     \/ Finish(p, "failed") /\ UNCHANGED <<tickets, mute>>
  /\ UNCHANGED <<uploads, support, diskVars, ask, sent, id>>

-----------------------------------------------------------------------------
(* Closing, rating, downloading.                                           *)

(* Only an open ticket is to be closed.                                    *)
Look(p) ==
  /\ pc[p] = "look"
  /\ IF tickets[id[p]].open THEN Goto(p, "answer") ELSE Finish(p, "already")
  /\ UNCHANGED <<platformVars, diskVars, ask, sent, id, mute>>

(* CloseTicket and RateTicket; the answer may be lost.                     *)
Close(p) ==
  /\ pc[p] = "close"
  /\ tickets' = [tickets EXCEPT ![id[p]].open = FALSE]
  /\ Finish(p, "closed") \/ Finish(p, "failed")
  /\ UNCHANGED <<uploads, support, diskVars, ask, sent, id, mute>>

Rate(p) ==
  /\ pc[p] = "rate"
  /\ tickets' = [tickets EXCEPT ![id[p]].stars = ask[p].stars]
  /\ Finish(p, "rated") \/ Finish(p, "failed")
  /\ UNCHANGED <<uploads, support, diskVars, ask, sent, id, mute>>

(* DownloadTicketAttachment: all of it is read before the file is written  *)
(* over; an attachment of its ticket is under its own name.                *)
Download(p) ==
  /\ pc[p] = "download"
  /\ \E n \in tickets[id[p]].files \cup UNION {c.files : c \in tickets[id[p]].comments} :
       /\ disk' = [disk EXCEPT ![uploads[n].file] = uploads[n].content]
       /\ Finish(p, "saved")
  /\ UNCHANGED <<platformVars, edits, ask, sent, id, mute>>

-----------------------------------------------------------------------------
(* Any request may fail before it does anything.                           *)
Fails(p) ==
  /\ pc[p] \in {"lookup", "upload", "post", "look", "close", "rate", "download"}
  /\ Finish(p, "failed")
  /\ UNCHANGED <<platformVars, diskVars, ask, sent, id, mute>>

(* A file is changed or removed.                                           *)
Edit ==
  /\ edits < MaxEdits /\ edits' = edits + 1
  /\ \E f \in Files, content \in {0, 2} : disk[f] # content /\ disk' = [disk EXCEPT ![f] = content]
  /\ UNCHANGED <<platformVars, commandVars>>

(* Support closes a ticket, or opens it again.                             *)
Support ==
  /\ support < MaxSupport /\ support' = support + 1
  /\ \E t \in DOMAIN tickets : tickets' = [tickets EXCEPT ![t].open = ~@]
  /\ UNCHANGED <<uploads, diskVars, commandVars>>

Next ==
  \/ \E p \in Procs :
       \/ Check(p) \/ LookUp(p) \/ Answer(p) \/ Upload(p) \/ Stat(p) \/ Post(p) \/ Attach(p)
       \/ Comment(p) \/ Look(p) \/ Close(p) \/ Rate(p) \/ Download(p) \/ Fails(p)
  \/ Edit \/ Support

Spec == Init /\ [][Next]_vars

-----------------------------------------------------------------------------
(* Properties.                                                             *)

\* Every variable keeps its type, and what is attached was uploaded.
TypeOK ==
  /\ \A t \in Range(tickets) :
       /\ t.open \in BOOLEAN /\ t.stars \in 0..MaxStars
       /\ \A fs \in {t.files} \cup {c.files : c \in t.comments} : fs \subseteq DOMAIN uploads
  /\ \A u \in Range(uploads) : u.file \in Files /\ u.content # 0 /\ u.to \in 0..Len(tickets)
  /\ disk \in [Files -> 0..2]
  /\ pc \in [Procs -> {"check", "lookup", "answer", "upload", "stat", "post", "attach",
                       "look", "close", "rate", "download", "done"}]
  /\ outcome \in [Procs -> {"running", "failed", "aborted", "created", "unattached", "replied",
                            "already", "closed", "rated", "saved"}]
  /\ \A p \in Procs : id[p] \in 0..Len(tickets) /\ Len(sent[p]) <= Len(ask[p].files)

\* The files a set of uploads holds.
FilesOf(ns) == {uploads[n].file : n \in ns}

\* The files of a command whose uploads were answered with an id.
Named(p) == {ask[p].files[i] : i \in {j \in DOMAIN sent[p] : sent[p][j] # Unnamed}}

\* A ticket that is reported without an error has all the files it was to have,
\* and no other's.  So has a reply, of which every file was uploaded, but for
\* those whose upload was answered without an id.  A command that fails and names no ticket has
\* left none, and no comment, unless the platform's answer to that very request
\* was lost: what can fail of the files fails first (CreateTicket,
\* ReplyToTicket).
FiledWhole ==
  \A p \in Procs :
    /\ outcome[p] = "created" => FilesOf(tickets[id[p]].files) = Range(ask[p].files)
    /\ outcome[p] = "replied" =>
         /\ Len(sent[p]) = Len(ask[p].files)
         /\ \E c \in tickets[id[p]].comments : c.from = p /\ FilesOf(c.files) = Named(p)
    /\ outcome[p] = "failed" /\ ~mute[p] =>
         /\ \A t \in Range(tickets) : t.from # p
         /\ \A c \in UNION {t.comments : t \in Range(tickets)} : c.from # p
=============================================================================
