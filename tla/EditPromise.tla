---------------------------- MODULE EditPromise ----------------------------
(***************************************************************************)
(* What an edit command promises its user, without how it keeps it.  A     *)
(* command that says it did nothing has sent nothing and never will; a     *)
(* change leaves once, with consent, and never from a dry run; what is     *)
(* said to be done was stored after it was sent; what is said to be        *)
(* ignored was sent.  After a failure the user is left to look.            *)
(***************************************************************************)
CONSTANT Clients

VARIABLES
  status,  \* what each command has told its user
  dry,     \* the commands that are dry runs
  sent,    \* those whose change has left
  stored   \* those whose change the platform has held

Init == /\ status = [c \in Clients |-> "open"]
        /\ dry \subseteq Clients /\ sent = {} /\ stored = {}

Become(c, from, to) == status[c] = from /\ status' = [status EXCEPT ![c] = to]

\* Refused, a dry run, nothing to change, or the user said no.
EndQuiet(c) == Become(c, "open", "quiet") /\ UNCHANGED <<sent, stored>>

\* The user agrees to the change, or has with --yes.
Agree(c) == c \notin dry /\ Become(c, "open", "agreed") /\ UNCHANGED <<sent, stored>>

(* The change leaves; the command may lose the answer and give up at once. *)
Send(c) ==
  /\ c \notin sent
  /\ Become(c, "agreed", "agreed") \/ Become(c, "agreed", "unclear")
  /\ sent' = sent \union {c}
  /\ stored' \in {stored, stored \union {c}}

(* Changes that have been sent show up in the store, in any number.        *)
Store ==
  /\ \E new \in SUBSET sent : stored' = stored \union new
  /\ UNCHANGED <<status, sent>>

Confirm(c) == c \in stored /\ Become(c, "agreed", "confirmed") /\ UNCHANGED <<sent, stored>>

Deny(c) == c \in sent /\ Become(c, "agreed", "denied") /\ UNCHANGED <<sent, stored>>

Fail(c) ==
  /\ Become(c, "open", "unclear") \/ Become(c, "agreed", "unclear")
  /\ UNCHANGED <<sent, stored>>

Next ==
  /\ \/ \E c \in Clients : EndQuiet(c) \/ Agree(c) \/ Send(c) \/ Confirm(c) \/ Deny(c) \/ Fail(c)
     \/ Store
  /\ UNCHANGED dry

Spec == Init /\ [][Next]_<<status, dry, sent, stored>>
=============================================================================
