----------------------------- MODULE ExecStream -----------------------------
(***************************************************************************)
(* Running commands over the exec websocket: `exec`, `exec --upload` and   *)
(* `cp` in both directions (cmd/exec.go, cmd/cp.go, internal/wsexec).      *)
(*                                                                         *)
(* The websocket carries a terminal.  The shell echoes every line it is    *)
(* sent, and nothing in the stream says that a command is over; so each    *)
(* line ends in a printf of a marker, built from a nonce and $?, and the   *)
(* client reads until the marker of that nonce.  Frames cut the stream     *)
(* anywhere, also inside the marker.                                       *)
(*                                                                         *)
(* The stream is a sequence of tokens.  The nonce of a command is its      *)
(* number; the marker is MarkerParts tokens long, and the last of them     *)
(* carries the status.                                                     *)
(***************************************************************************)
EXTENDS Naturals, Sequences

CONSTANTS
  MarkerParts,  \* how many tokens a marker can be cut into
  Keep,         \* how many tokens runRemoteTo holds back
  Data,         \* how many tokens of output a command has when it succeeds
  Lines         \* how many lines an uploaded file is encoded in

ASSUME KeepAssumption == MarkerParts \in Nat \ {0} /\ Keep \in Nat /\ Keep >= MarkerParts - 1
ASSUME SizeAssumption == Data \in Nat /\ Lines \in Nat

Token(kind, cmd, val) == [kind |-> kind, cmd |-> cmd, val |-> val]
Statuses == {0, 2}   \* of a remote command
Error == 1           \* the status of a process that fails by itself
None == 999          \* no status so far; no file written so far

\* What the commands send to the pod, in order: the user's command line, an
\* upload and its verification, a directory check, a download, and tar.
Plans == {<<"run">>, <<"upload">>, <<"upload", "run">>,
          <<"check", "upload">>, <<"upload", "extract">>, <<"check", "capture">>}

\* The marker printf writes for command i.
Marker(i, status) ==
  [k \in 1..MarkerParts |-> Token("marker", i, IF k < MarkerParts THEN k ELSE k + status)]
Output(i, n) == [k \in 1..n |-> Token("data", i, k)]

VARIABLES
  plan,     \* the commands to run
  cur,      \* the one being run
  pc,       \* "payload", "send", "read" or "done"
  sent,     \* the lines of the upload's heredoc that have been sent
  pending,  \* what has been read and not handed to the sink
  sunk,     \* what the sink has been given for this command
  exit,     \* the exit status of the process
  payload,  \* the data captureRemote decoded
  shell,    \* what the remote shell is doing
  whole,    \* no part of the running command has failed
  produced, \* data tokens the running command has written
  tmp,      \* lines in the temporary file of an upload
  dest,     \* lines of this upload in the file it is for
  real,     \* the status each command really had (history)
  wire,     \* output on its way to the client
  session   \* "open", or how it ended

clientVars == <<plan, cur, pc, sent, pending, sunk, exit, payload>>
remoteVars == <<shell, whole, produced, tmp, dest, real>>
vars == <<clientVars, remoteVars, wire, session>>

\* An upload begins with its heredoc.
Start(kind) == IF kind = "upload" THEN "payload" ELSE "send"

Init ==
  /\ plan \in Plans
  /\ cur = 1 /\ pc = Start(plan[1]) /\ sent = 0 /\ pending = <<>> /\ sunk = <<>>
  /\ exit = None /\ payload = <<>>
  /\ shell = "prompt" /\ whole = TRUE /\ produced = 0
  /\ tmp \in {None, Lines} /\ dest = None
  /\ real = [i \in 1..Len(plan) |-> None]
  /\ wire = <<>> /\ session = "open"

IsData(t) == t.kind = "data"
Kind == plan[cur]

-----------------------------------------------------------------------------
(* The remote shell.                                                       *)

Says(tokens) == wire' = wire \o tokens

\* Mutant: the line that is sent spells the exit marker out.
EchoOfSpelled(i) == <<Token("echo", i, 0)>> \o Marker(i, 0)

\* The echo of a line: nonce and status are arguments of its printf.
EchoOf(i) == <<Token("echo", i, 0)>>

(* The shell echoes the line it was sent and starts the command.           *)
ShellStarts ==
  /\ session = "open" /\ shell = "typed"
  /\ shell' = "running" /\ whole' = TRUE /\ produced' = 0
  /\ Says(EchoOf(cur) \o (IF Kind = "capture" THEN <<Token("begin", cur, 0)>> ELSE <<>>))
  /\ UNCHANGED <<clientVars, tmp, dest, real, session>>

(* The command writes.                                                     *)
CommandWrites ==
  /\ session = "open" /\ shell = "running" /\ produced < Data /\ Kind \in {"run", "capture"}
  /\ produced' = produced + 1
  /\ Says(<<Token("data", cur, produced + 1)>>)
  /\ UNCHANGED <<clientVars, shell, whole, tmp, dest, real, session>>

(* A part of it fails, and says so on the same terminal.                   *)
PartFails ==
  /\ session = "open" /\ shell = "running" /\ whole /\ Kind # "check"
  /\ whole' = FALSE
  /\ Says(<<Token("noise", cur, 0)>>)
  /\ UNCHANGED <<clientVars, shell, produced, tmp, dest, real, session>>

\* Mutant: the temporary file is moved without a look at its size.
VerifiedUnseen(n) == TRUE

\* The test in the line that verifies an upload.
Verified(n) == n = Lines

\* The status of a command and what it does to the files of an upload.  The
\* status of `tar | base64` is that of base64: zero although tar failed.
Works(status) ==
  \/ /\ Kind = "upload" /\ status = (IF Verified(tmp) THEN 0 ELSE 2)
     /\ dest' = (IF Verified(tmp) THEN tmp ELSE dest) /\ tmp' = None
  \/ /\ Kind \in {"run", "capture"} /\ (status = 0 => ~whole \/ produced = Data)
     /\ UNCHANGED <<tmp, dest>>
  \/ Kind \in {"check", "extract"} /\ UNCHANGED <<tmp, dest>>

(* The command ends, and the shell prints the marker and its prompt.       *)
CommandEnds(status) ==
  /\ session = "open" /\ shell = "running"
  /\ Works(status)
  /\ shell' = "prompt"
  /\ real' = [real EXCEPT ![cur] = status]
  /\ Says(Marker(cur, status) \o <<Token("prompt", cur, 0)>>)
  /\ UNCHANGED <<clientVars, whole, produced, session>>

(* The session ends after what is on the wire (the shell exits, the pod    *)
(* goes), or the connection breaks and that is lost.  A heredoc that is    *)
(* cut off is still decoded.                                               *)
SessionEnds ==
  /\ session = "open"
  /\ \/ session' = "closed" /\ UNCHANGED wire
     \/ session' = "broken" /\ wire' = <<>>
  /\ \/ UNCHANGED tmp
     \/ pc = "payload" /\ sent > 0 /\ tmp' \in 0..sent - 1
  /\ UNCHANGED <<clientVars, shell, whole, produced, dest, real>>

-----------------------------------------------------------------------------
(* The client.                                                             *)

\* exitMarkerPattern: where a marker of the running command begins in p.
MarkerStarts(p) ==
  {i \in 1..Len(p) - MarkerParts + 1 :
     \E status \in Statuses : SubSeq(p, i, i + MarkerParts - 1) = Marker(cur, status)}

\* Mutant: nothing is held back between two frames.
HeldNothing(p) == <<>>

\* Mutant: one token more than the marker needs is held back.
HeldOneMore(p) == IF Len(p) > Keep THEN SubSeq(p, Len(p) - Keep, Len(p)) ELSE p

\* What of p is held back: it may be the beginning of a marker.
Held(p) == IF Len(p) > Keep THEN SubSeq(p, Len(p) - Keep + 1, Len(p)) ELSE p

\* What of p goes to the sink.
ToSink(p) == SubSeq(p, 1, Len(p) - Len(Held(p)))

\* afterBeginMarker.
Begins(p) == {i \in 1..Len(p) : p[i] = Token("begin", cur, 0)}
AfterBegin(p) == SubSeq(p, 1 + CHOOSE i \in Begins(p) : \A j \in Begins(p) : i <= j, Len(p))

\* Mutant: what is not base64 is skipped.
DecodesSkipping(p) == Begins(p) # {}

\* decodeTerminalBase64 takes base64 and white space, and nothing else.
Decodes(p) == Begins(p) # {} /\ \A i \in 1..Len(AfterBegin(p)) : IsData(AfterBegin(p)[i])

Ends(code) == pc' = "done" /\ exit' = code /\ UNCHANGED <<cur, payload>>

(* uploadFile: one line of the heredoc, from the line that opens it to the *)
(* one that ends it.  The shell echoes and collects; at the end it decodes *)
(* all of it, or less (no base64 in the pod, a full disk).                 *)
PayloadLine ==
  /\ pc = "payload"
  /\ \/ /\ sent' = sent + 1 /\ pc' = IF sent = Lines + 1 THEN "send" ELSE "payload"
        /\ UNCHANGED <<exit, cur, payload>>
        /\ IF session = "open" /\ sent = Lines + 1
             THEN tmp' \in 0..Lines /\ Says(<<Token("echo", cur, 0)>>)
             ELSE UNCHANGED <<tmp, wire>>
     \/ session # "open" /\ Ends(Error) /\ UNCHANGED <<sent, tmp, wire>>
  /\ UNCHANGED <<plan, pending, sunk, shell, whole, produced, dest, real, session>>

(* runRemoteTo: the line arrives, is written to a session that is already  *)
(* over, or cannot be written any more.                                    *)
Send ==
  /\ pc = "send"
  /\ \/ /\ shell' = IF session = "open" THEN "typed" ELSE shell
        /\ pc' = "read" /\ UNCHANGED <<cur, exit, payload>>
     \/ session # "open" /\ Ends(Error) /\ UNCHANGED shell
  /\ pending' = <<>> /\ sunk' = <<>>
  /\ UNCHANGED <<plan, sent, whole, produced, tmp, dest, real, wire, session>>

\* The next command, or the end of the process.
Proceed ==
  /\ UNCHANGED payload
  /\ IF cur = Len(plan)
       THEN pc' = "done" /\ exit' = 0 /\ UNCHANGED cur
       ELSE pc' = Start(plan[cur + 1]) /\ cur' = cur + 1 /\ UNCHANGED exit

\* uploadFile and the extraction fail on a status other than zero.
MustSucceed(kind) == kind \in {"upload", "extract"}

\* What becomes of a status: that of the user's command is that of the
\* process; cp decodes the output of a download that succeeded.
Reported(status) ==
  \/ Kind = "run" /\ Ends(status)
  \/ MustSucceed(Kind) /\ status # 0 /\ Ends(Error)
  \/ Kind \notin {"run", "capture"} /\ ~(MustSucceed(Kind) /\ status # 0) /\ Proceed
  \/ Kind = "capture" /\ (status # 0 \/ ~Decodes(sunk')) /\ Ends(Error)
  \/ /\ Kind = "capture" /\ status = 0 /\ Decodes(sunk')
     /\ pc' = "done" /\ exit' = 0 /\ UNCHANGED cur
     /\ payload' = AfterBegin(sunk')

(* One frame, any part of what is on the wire, without a whole marker yet. *)
ReadOn ==
  /\ pc = "read"
  /\ \E n \in 1..Len(wire) :
       LET p == pending \o SubSeq(wire, 1, n)
       IN  /\ MarkerStarts(p) = {}
           /\ sunk' = sunk \o ToSink(p) /\ pending' = Held(p)
           /\ wire' = SubSeq(wire, n + 1, Len(wire))
  /\ UNCHANGED <<plan, cur, pc, sent, exit, payload, remoteVars, session>>

(* The frame that completes the marker.  What follows it is dropped.       *)
ReadMarker ==
  /\ pc = "read"
  /\ \E n \in 1..Len(wire) :
       LET p == pending \o SubSeq(wire, 1, n)
       IN  \E i \in MarkerStarts(p) :
             /\ \A j \in MarkerStarts(p) : i <= j
             /\ sunk' = sunk \o SubSeq(p, 1, i - 1) /\ pending' = <<>>
             /\ wire' = SubSeq(wire, n + 1, Len(wire))
             /\ Reported(p[i + MarkerParts - 1].val - MarkerParts)
  /\ UNCHANGED <<plan, sent, remoteVars, session>>

\* isSessionEnd: an exit frame or a close frame, and not a broken connection.
EndedEarly == session = "closed"

(* The session is over before the marker: what was held back is flushed.   *)
(* execAppAction prints errSessionEndedEarly of its command and returns no *)
(* error; every other caller fails.                                        *)
ReadFails ==
  /\ pc = "read" /\ session # "open" /\ wire = <<>>
  /\ Ends(IF EndedEarly /\ Kind = "run" THEN 0 ELSE Error)
  /\ sunk' = sunk \o pending /\ pending' = <<>>
  /\ UNCHANGED <<plan, sent, remoteVars, wire, session>>

(* The user interrupts a write or a read.                                  *)
Interrupt ==
  /\ pc \in {"payload", "read"}
  /\ Ends(Error)
  /\ sunk' = sunk \o pending /\ pending' = <<>>
  /\ UNCHANGED <<plan, sent, remoteVars, wire, session>>

-----------------------------------------------------------------------------
Next ==
  \/ PayloadLine \/ Send \/ ReadOn \/ ReadMarker \/ ReadFails \/ Interrupt
  \/ ShellStarts \/ CommandWrites \/ PartFails \/ SessionEnds
  \/ \E status \in Statuses : CommandEnds(status)

(* The client sends and reads what there is; the remote side owes nothing. *)
Spec ==
  Init /\ [][Next]_vars /\ WF_vars(PayloadLine \/ Send \/ ReadOn \/ ReadMarker \/ ReadFails)

-----------------------------------------------------------------------------
(* Properties.                                                             *)

Kinds == {"echo", "begin", "data", "noise", "marker", "prompt"}
Stream == Seq([kind : Kinds, cmd : 1..Len(plan), val : Nat])

\* Every variable keeps its type, and never more than Keep tokens are held.
TypeOK ==
  /\ plan \in Plans /\ cur \in 1..Len(plan) /\ pc \in {"payload", "send", "read", "done"}
  /\ sent \in 0..Lines + 2
  /\ {pending, sunk, payload, wire} \subseteq Stream /\ Len(pending) <= Keep
  /\ exit \in Statuses \union {Error, None}
  /\ shell \in {"prompt", "typed", "running"} /\ whole \in BOOLEAN /\ produced \in 0..Data
  /\ {tmp, dest} \subseteq (0..Lines) \union {None}
  /\ real \in [1..Len(plan) -> Statuses \union {None}]
  /\ session \in {"open", "closed", "broken"}

\* The process ends with a status only if its own command had it and every
\* step before was really over, and had succeeded where it must: the echo of a
\* line or the marker of an earlier command is never read as the end of this
\* one.  A command whose session ended early is the exception (runRemoteTo).
StatusIsTrue ==
  exit \in Statuses =>
    \A i \in 1..Len(plan) :
      \/ plan[i] = "run" /\ (real[i] = exit \/ (real[i] = None /\ session = "closed"))
      \/ plan[i] = "check" /\ real[i] # None
      \/ plan[i] \in {"upload", "extract", "capture"} /\ real[i] = 0

\* Where s has output of the remote command.
DataIn(s) == {i \in 1..Len(s) : IsData(s[i])}

\* A command whose status was read has had all its output handed on, once and
\* in order, with no part of a marker, however the frames cut the stream and
\* whatever the command before it left behind; and cp writes a local file only
\* from the whole output of a command that did not fail in part, although the
\* status of a pipeline hides that (runRemoteTo, captureRemote).
OutputIsWhole ==
  /\ exit \in Statuses /\ real[cur] # None =>
       /\ {sunk[i] : i \in DataIn(sunk)} = {Token("data", cur, k) : k \in 1..produced}
       /\ \A i, j \in DataIn(sunk) : i < j => sunk[i].val < sunk[j].val
       /\ \A i \in 1..Len(sunk) : sunk[i].kind # "marker"
  /\ exit = 0 /\ Kind = "capture" => whole /\ payload = Output(cur, Data)

\* An upload never leaves a part of a file at its destination, wherever the
\* session ends and whatever an earlier upload left in the temporary file, and
\* what comes after it runs only once the whole file is there (uploadFile).
UploadIsWhole ==
  /\ dest \in {None, Lines}
  /\ \A i \in 1..Len(plan) :
       plan[i] = "upload" /\ (i < cur \/ exit \in Statuses) => dest = Lines

\* A command that has ended is noticed, wherever its marker was cut, unless the
\* connection broke first.
EndIsNoticed ==
  \A i \in 1..2 :
    (pc = "read" /\ cur = i /\ i <= Len(plan) /\ real[i] # None)
      ~> (pc # "read" \/ cur # i \/ session = "broken")

-----------------------------------------------------------------------------
(* What the texts of the program say and the code does not do.             *)

\* cmd/exec.go, errSessionEndedEarly: "no caller may treat it as success".
EndedEarlyIsNoSuccess ==
  exit = 0 => \A i \in 1..Len(plan) : plan[i] = "run" => real[i] = 0
=============================================================================
