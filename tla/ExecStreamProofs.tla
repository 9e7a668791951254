-------------------------- MODULE ExecStreamProofs --------------------------
(***************************************************************************)
(* Proofs about ExecStream: its types, and that statuses are true, output  *)
(* and copies are whole, and no upload leaves a part of a file, for        *)
(* markers, holds, outputs and uploads of any size.                        *)
(*                                                                         *)
(* The argument is about one sequence: what the sink has been given for    *)
(* the running command, what is held back, and what is on the wire.        *)
(* Reading moves tokens along it and changes nothing; the shell appends to *)
(* it.  It is always laid out in the same way: what the terminal echoes,   *)
(* what the command wrote, at its end the marker, and the prompt.          *)
(***************************************************************************)
EXTENDS ExecStream, SequenceTheorems, TLAPS

Tokens == [kind : Kinds, cmd : 1..Len(plan), val : Nat]

Quiet(t) == t.kind \in {"echo", "prompt"}

\* The whole stream of the running command.
All == sunk \o (pending \o wire)

\* How much the running command has written.
Wrote == produced + (IF whole THEN 0 ELSE 1)

\* Where its k-th piece of output is, if its complaint came after q pieces.
Place(k, q) == IF k <= q THEN k ELSE k + 1

\* After h tokens of s comes what the command wrote: all of its output, in its
\* order, and one complaint if a part of it has failed.
Laid(s, h, q) ==
  /\ h + Wrote <= Len(s) /\ (whole => q = produced)
  /\ \A j \in 1..h : Quiet(s[j]) \/ (j = h /\ s[j] = Token("begin", cur, 0))
  /\ Kind = "capture" => h > 0 /\ s[h] = Token("begin", cur, 0)
  /\ \A k \in 1..produced : s[h + Place(k, q)] = Token("data", cur, k)
  /\ ~whole => s[h + q + 1] = Token("noise", cur, 0)

\* The command is over: its marker follows, and after it a prompt.
Closed(s, e) ==
  /\ e + MarkerParts <= Len(s)
  /\ \A k \in 1..MarkerParts : s[e + k] = Marker(cur, real[cur])[k]
  /\ \A j \in e + MarkerParts + 1..Len(s) : Quiet(s[j])

\* Before the command has started, all there is are echoes and prompts.
Silent ==
  /\ pc \in {"payload", "send"} => \A j \in 1..Len(wire) : Quiet(wire[j])
  /\ pc = "read" /\ real[cur] = None /\ shell # "running" /\ session # "broken" =>
       \A j \in 1..Len(All) : Quiet(All[j])

\* While it runs, the stream ends in what it wrote.
Speaking ==
  pc = "read" /\ shell = "running" /\ session # "broken" =>
    \E h \in 0..Len(All), q \in 0..produced : Laid(All, h, q) /\ Len(All) = h + Wrote

\* Once it is over, nothing of its marker has been handed on, and what is held
\* back is not the whole of it.
Over ==
  pc = "read" /\ real[cur] # None /\ session # "broken" =>
    \E h \in 0..Len(All), q \in 0..produced :
      /\ Laid(All, h, q) /\ Closed(All, h + Wrote)
      /\ Len(sunk) <= h + Wrote /\ Len(sunk) + Len(pending) < h + Wrote + MarkerParts

\* What was handed on of a command whose status has been read.
HandedOn ==
  exit \in Statuses /\ real[cur] # None =>
    \E h \in 0..Len(sunk), q \in 0..produced : Laid(sunk, h, q) /\ Len(sunk) = h + Wrote

\* Whose turn it is.
Turn ==
  /\ exit = None <=> pc # "done"
  /\ \A i \in 1..Len(plan) : i > cur => real[i] = None
  /\ \A i \in 1..Len(plan) :
       i < cur => real[i] # None /\ (MustSucceed(plan[i]) => real[i] = 0)
  /\ pc \in {"payload", "send"} => shell = "prompt" /\ real[cur] = None
  /\ pc = "read" /\ shell = "prompt" /\ session = "open" => real[cur] # None
  /\ real[cur] # None => shell = "prompt"
  /\ pc = "payload" => Kind = "upload" /\ sent <= Lines + 1
  /\ cur = 1 /\ Kind # "upload" => sent = 0
  /\ exit \in Statuses => cur = Len(plan) /\ (shell = "prompt" \/ session # "open")
  /\ session = "broken" => wire = <<>>

\* What the commands that are over have done.
Done ==
  /\ dest \in {None, Lines}
  /\ \A i \in 1..Len(plan) : plan[i] = "upload" /\ real[i] = 0 => dest = Lines
  /\ Kind \in {"run", "capture"} /\ real[cur] = 0 => ~whole \/ produced = Data

StreamInv == Silent /\ Speaking /\ Over

Copied == exit = 0 /\ Kind = "capture" => whole /\ payload = Output(cur, Data)

ExecInv == TypeOK /\ Turn /\ Done /\ StreamInv /\ HandedOn /\ StatusIsTrue /\ Copied

-----------------------------------------------------------------------------
(* Sequences.                                                              *)

\* The same sequences, cut elsewhere.
LEMMA Regrouped ==
  ASSUME NEW S, NEW s \in Seq(S), NEW t \in Seq(S), NEW u \in Seq(S)
  PROVE  (s \o t) \o u = s \o (t \o u)
BY ConcatAssociative

\* A frame is read: what is handed on, held back and left is what there was.
LEMMA FrameKeeps ==
  ASSUME sunk \in Seq(Tokens), pending \in Seq(Tokens), wire \in Seq(Tokens), NEW n \in 1..Len(wire),
         NEW p, p = pending \o SubSeq(wire, 1, n), NEW k \in 0..Len(pending) + n
  PROVE  /\ p \in Seq(Tokens) /\ Len(p) = Len(pending) + n
         /\ SubSeq(p, 1, k) \in Seq(Tokens) /\ Len(SubSeq(p, 1, k)) = k
         /\ SubSeq(p, k + 1, Len(p)) \in Seq(Tokens) /\ Len(SubSeq(p, k + 1, Len(p))) = Len(p) - k
         /\ SubSeq(wire, n + 1, Len(wire)) \in Seq(Tokens)
         /\ sunk \o SubSeq(p, 1, k) \in Seq(Tokens)
         /\ (sunk \o SubSeq(p, 1, k)) \o (SubSeq(p, k + 1, Len(p)) \o SubSeq(wire, n + 1, Len(wire)))
              = sunk \o (pending \o wire)
<1>f. PICK f : f = SubSeq(wire, 1, n)
  OBVIOUS
<1>r. PICK r : r = SubSeq(wire, n + 1, Len(wire))
  OBVIOUS
<1>a. PICK a : a = SubSeq(p, 1, k)
  OBVIOUS
<1>b. PICK b : b = SubSeq(p, k + 1, Len(p))
  OBVIOUS
<1>1. Len(wire) \in Nat /\ Len(pending) \in Nat /\ \A i \in 1..Len(wire) : wire[i] \in Tokens
  BY LenProperties
<1>2. f \in Seq(Tokens) /\ Len(f) = n
  <2>1. \A i \in 1..n : wire[i] \in Tokens
    BY <1>1
  <2> QED  BY <1>1, <2>1, SubSeqProperties, <1>f
<1>3. r \in Seq(Tokens)
  <2>1. \A i \in n + 1..Len(wire) : wire[i] \in Tokens
    BY <1>1
  <2> QED  BY <1>1, <2>1, SubSeqProperties, <1>r
<1>4. f \o r = wire
  BY <1>1, ConcatAdjacentSubSeq, SubSeqFull, n \in 1..Len(wire), <1>f, <1>r
<1>5. p \in Seq(Tokens) /\ Len(p) = Len(pending) + n
  BY <1>2, ConcatProperties, <1>f
<1>6. \A i \in 1..Len(p) : p[i] \in Tokens
  BY <1>5, ElementOfSeq
<1>7. a \in Seq(Tokens) /\ Len(a) = k
  <2>1. \A i \in 1..k : p[i] \in Tokens
    BY <1>1, <1>5, <1>6
  <2> QED  BY <1>1, <2>1, SubSeqProperties, <1>a
<1>8. b \in Seq(Tokens) /\ Len(b) = Len(p) - k
  <2>1. \A i \in k + 1..Len(p) : p[i] \in Tokens
    BY <1>1, <1>5, <1>6
  <2>2. k + 1 \in Int /\ Len(p) \in Int
    BY <1>1, <1>5
  <2>3. Len(b) = IF k + 1 <= Len(p) THEN Len(p) - (k + 1) + 1 ELSE 0
    BY <2>1, <2>2, SubSeqProperties, <1>b
  <2>4. b \in Seq(Tokens)
    BY <2>1, <2>2, SubSeqProperties, <1>b
  <2>5. Len(p) \in Nat /\ k \in Nat /\ k <= Len(p)
    BY <1>1, <1>5
  <2>6. Len(b) = Len(p) - k
    BY ONLY <2>3, <2>5
  <2> QED  BY <2>4, <2>6
<1>9. a \o b = p
  <2>1. k \in 0..Len(p) /\ 1 \in 1..Len(p) + 1 /\ Len(p) \in k..Len(p) /\ k \in 1 - 1..Len(p)
    BY <1>1, <1>5
  <2>2. SubSeq(p, 1, k) \o SubSeq(p, k + 1, Len(p)) = SubSeq(p, 1, Len(p))
    BY <1>5, <2>1, ConcatAdjacentSubSeq
  <2> QED  BY <1>5, <2>2, SubSeqFull, <1>a, <1>b
<1>10. (sunk \o a) \o (b \o r) = sunk \o (pending \o wire)
  <2>1. a \in Seq(Tokens)
    BY <1>7
  <2>2. b \in Seq(Tokens)
    BY <1>8
  <2>3. r \in Seq(Tokens)
    BY <1>3
  <2>4. f \in Seq(Tokens)
    BY <1>2
  <2>5. (sunk \o a) \o (b \o r) = sunk \o ((a \o b) \o r)
    <3>1. PICK c : c = b \o r
      OBVIOUS
    <3>2. c \in Seq(Tokens)
      BY ONLY <2>2, <2>3, <3>1, ConcatProperties
    <3>3. (sunk \o a) \o c = sunk \o (a \o c)
      BY ONLY <2>1, <3>2, sunk \in Seq(Tokens), Regrouped, SMTT(40)
    <3>4. (a \o b) \o r = a \o (b \o r)
      BY ONLY <2>1, <2>2, <2>3, SMTT(40)
    <3> QED  BY ONLY <3>1, <3>3, <3>4
  <2>6. (pending \o f) \o r = pending \o (f \o r)
    BY ONLY <2>3, <2>4, pending \in Seq(Tokens), Regrouped
  <2>7. a \o b = pending \o f
    BY <1>9, <1>f
  <2> QED  BY <1>4, <2>5, <2>6, <2>7
<1>11. sunk \o a \in Seq(Tokens)
  BY <1>7, ConcatProperties
<1> QED  BY <1>3, <1>5, <1>7, <1>8, <1>10, <1>11, <1>a, <1>b, <1>r

\* Where the parts of a stream are in the whole of it.
LEMMA PlacesInAll ==
  ASSUME sunk \in Seq(Tokens), pending \in Seq(Tokens), wire \in Seq(Tokens), NEW n \in 1..Len(wire),
         NEW p, p = pending \o SubSeq(wire, 1, n)
  PROVE  /\ Len(sunk \o (pending \o wire)) = Len(sunk) + Len(pending) + Len(wire)
         /\ \A i \in 1..Len(sunk) : (sunk \o (pending \o wire))[i] = sunk[i]
         /\ \A i \in 1..Len(p) : (sunk \o (pending \o wire))[Len(sunk) + i] = p[i]
         /\ \A i \in 1..Len(wire) : (sunk \o (pending \o wire))[Len(sunk) + Len(pending) + i] = wire[i]
<1>1. Len(wire) \in Nat /\ Len(pending) \in Nat /\ Len(sunk) \in Nat /\ \A i \in 1..Len(wire) : wire[i] \in Tokens
  BY LenProperties
<1>2. /\ SubSeq(wire, 1, n) \in Seq(Tokens) /\ Len(SubSeq(wire, 1, n)) = n
      /\ \A i \in 1..n : SubSeq(wire, 1, n)[i] = wire[i]
  <2>1. \A i \in 1..n : wire[i] \in Tokens
    BY <1>1
  <2> QED  BY <1>1, <2>1, SubSeqProperties
<1>3. /\ Len(p) = Len(pending) + n
      /\ \A i \in 1..Len(pending) + n : p[i] = IF i <= Len(pending) THEN pending[i] ELSE SubSeq(wire, 1, n)[i - Len(pending)]
  BY <1>2, ConcatProperties
<1>4. /\ pending \o wire \in Seq(Tokens) /\ Len(pending \o wire) = Len(pending) + Len(wire)
      /\ \A i \in 1..Len(pending) + Len(wire) : (pending \o wire)[i] = IF i <= Len(pending) THEN pending[i] ELSE wire[i - Len(pending)]
  BY ConcatProperties
<1>5. /\ Len(sunk \o (pending \o wire)) = Len(sunk) + Len(pending \o wire)
      /\ \A i \in 1..Len(sunk) + Len(pending \o wire) :
           (sunk \o (pending \o wire))[i] = IF i <= Len(sunk) THEN sunk[i] ELSE (pending \o wire)[i - Len(sunk)]
  BY <1>4, ConcatProperties
<1>6. ASSUME NEW i \in 1..Len(p)  PROVE (sunk \o (pending \o wire))[Len(sunk) + i] = p[i]
  <2>1. (sunk \o (pending \o wire))[Len(sunk) + i] = (pending \o wire)[i]
    BY <1>1, <1>3, <1>4, <1>5
  <2>2. (pending \o wire)[i] = p[i]
    BY <1>1, <1>2, <1>3, <1>4
  <2> QED  BY <2>1, <2>2
<1>7. ASSUME NEW i \in 1..Len(wire)  PROVE (sunk \o (pending \o wire))[Len(sunk) + Len(pending) + i] = wire[i]
  <2>1. (sunk \o (pending \o wire))[Len(sunk) + Len(pending) + i] = (pending \o wire)[Len(pending) + i]
    BY <1>1, <1>4, <1>5
  <2> QED  BY <1>1, <1>4, <2>1
<1>8. \A i \in 1..Len(sunk) : (sunk \o (pending \o wire))[i] = sunk[i]
  BY <1>1, <1>4, <1>5
<1> QED  BY <1>1, <1>4, <1>5, <1>6, <1>7, <1>8

\* What is written is appended to the whole stream.
LEMMA AllGrows ==
  ASSUME NEW S, NEW s \in Seq(S), NEW h \in Seq(S), NEW w \in Seq(S), NEW t \in Seq(S)
  PROVE  /\ w \o t \in Seq(S) /\ s \o (h \o (w \o t)) = (s \o (h \o w)) \o t
         /\ s \o (h \o w) \in Seq(S)
<1>1. h \o w \in Seq(S) /\ w \o t \in Seq(S) /\ s \o (h \o w) \in Seq(S)
  BY ConcatProperties
<1>2. h \o (w \o t) = (h \o w) \o t
  BY ConcatAssociative
<1>3. s \o ((h \o w) \o t) = (s \o (h \o w)) \o t
  <2>1. s \in Seq(S) /\ h \o w \in Seq(S) /\ t \in Seq(S)
    BY <1>1
  <2> QED  BY ONLY <2>1, ConcatAssociative
<1> QED  BY <1>1, <1>2, <1>3

\* A marker is found where its tokens are.
LEMMA MarkerIsThere ==
  ASSUME NEW S, NEW p \in Seq(S), NEW i \in 1..Len(p) - MarkerParts + 1, NEW c, NEW status
  PROVE  SubSeq(p, i, i + MarkerParts - 1) = Marker(c, status)
           <=> \A k \in 1..MarkerParts : p[i + k - 1] = Marker(c, status)[k]
<1>1. Len(p) \in Nat /\ MarkerParts \in Nat \ {0} /\ i \in Nat \ {0} /\ i + MarkerParts - 1 <= Len(p)
  BY LenProperties, KeepAssumption
<1>2. \A j \in i..i + MarkerParts - 1 : p[j] \in S
  BY <1>1, ElementOfSeq
<1>3. PICK q : q = SubSeq(p, i, i + MarkerParts - 1)
  OBVIOUS
<1>4. i \in Int /\ i + MarkerParts - 1 \in Int /\ i <= i + MarkerParts - 1
  BY <1>1
<1>5. /\ q \in Seq(S) /\ Len(q) = (i + MarkerParts - 1) - i + 1
      /\ \A k \in 1..(i + MarkerParts - 1) - i + 1 : q[k] = p[i + k - 1]
  BY <1>2, <1>3, <1>4, SubSeqProperties
<1>6. (i + MarkerParts - 1) - i + 1 = MarkerParts
  BY <1>1
<1>7. q \in [1..MarkerParts -> S] /\ \A k \in 1..MarkerParts : q[k] = p[i + k - 1]
  BY <1>5, <1>6, LenProperties
<1>8. Marker(c, status) = [k \in 1..MarkerParts |-> Marker(c, status)[k]]
  BY DEF Marker
<1>9. q = Marker(c, status) <=> \A k \in 1..MarkerParts : q[k] = Marker(c, status)[k]
  BY <1>7, <1>8
<1> QED  BY <1>3, <1>7, <1>9

\* What a part of a stream has at its places.
LEMMA PartPlaces ==
  ASSUME NEW p \in Seq(Tokens), NEW i \in 1..Len(p) - MarkerParts + 1
  PROVE  \A k \in 1..MarkerParts : SubSeq(p, i, i + MarkerParts - 1)[k] = p[i + k - 1]
<1>1. Len(p) \in Nat /\ MarkerParts \in Nat \ {0} /\ i \in Nat \ {0} /\ i + MarkerParts - 1 <= Len(p)
  BY LenProperties, KeepAssumption
<1>2. \A j \in i..i + MarkerParts - 1 : p[j] \in Tokens
  BY <1>1, ElementOfSeq
<1>3. i \in Int /\ i + MarkerParts - 1 \in Int /\ i <= i + MarkerParts - 1
  BY <1>1
<1>4. \A k \in 1..(i + MarkerParts - 1) - i + 1 : SubSeq(p, i, i + MarkerParts - 1)[k] = p[i + k - 1]
  BY <1>2, <1>3, SubSeqProperties
<1>5. (i + MarkerParts - 1) - i + 1 = MarkerParts
  BY <1>1
<1> QED  BY <1>4, <1>5

\* What is known of the plans.
LEMMA PlansKnown ==
  ASSUME plan \in Plans
  PROVE  /\ Len(plan) \in {1, 2} /\ 1 \in 1..Len(plan)
         /\ \A i \in 1..Len(plan) :
              /\ plan[i] \in {"run", "upload", "check", "extract", "capture"}
              /\ plan[i] \in {"run", "capture"} => i = Len(plan)
              /\ \A j \in 1..Len(plan) : i < j /\ plan[j] = "upload" => i = 1 /\ plan[i] = "check"
<1>1. \/ Len(plan) = 1 /\ plan[1] = "run"
      \/ Len(plan) = 1 /\ plan[1] = "upload"
      \/ Len(plan) = 2 /\ plan[1] = "upload" /\ plan[2] = "run"
      \/ Len(plan) = 2 /\ plan[1] = "check" /\ plan[2] = "upload"
      \/ Len(plan) = 2 /\ plan[1] = "upload" /\ plan[2] = "extract"
      \/ Len(plan) = 2 /\ plan[1] = "check" /\ plan[2] = "capture"
  BY DEF Plans
<1>2. Len(plan) \in {1, 2}
  BY <1>1
<1>3. \A i \in 1..Len(plan) : i = 1 \/ (i = 2 /\ Len(plan) = 2)
  <2>1. CASE Len(plan) = 1
    BY ONLY <2>1
  <2>2. CASE Len(plan) = 2
    BY ONLY <2>2
  <2> QED  BY <1>2, <2>1, <2>2
<1>4. \A i \in 1..Len(plan) :
        /\ plan[i] \in {"run", "upload", "check", "extract", "capture"}
        /\ plan[i] \in {"run", "capture"} => i = Len(plan)
  BY <1>1, <1>3
<1>5. ASSUME NEW i \in 1..Len(plan), NEW j \in 1..Len(plan), i < j, plan[j] = "upload"
      PROVE  i = 1 /\ plan[i] = "check"
  <2>1. i = 1 /\ j = 2 /\ Len(plan) = 2
    BY <1>3, <1>5
  <2> QED  BY <1>1, <1>5, <2>1
<1> QED  BY <1>2, <1>4, <1>5

-----------------------------------------------------------------------------
(* The stream.                                                             *)

LEMMA TokenParts ==
  ASSUME NEW kind, NEW cmd, NEW val
  PROVE  /\ Token(kind, cmd, val).kind = kind /\ Token(kind, cmd, val).val = val
         /\ kind \in Kinds /\ cmd \in 1..Len(plan) /\ val \in Nat => Token(kind, cmd, val) \in Tokens
  BY DEF Token, Tokens

LEMMA Tokened ==
  ASSUME NEW kind \in Kinds, cur \in 1..Len(plan), NEW val \in Nat
  PROVE  /\ <<Token(kind, cur, val)>> \in Seq(Tokens) /\ Len(<<Token(kind, cur, val)>>) = 1
         /\ <<Token(kind, cur, val)>>[1] = Token(kind, cur, val)
<1>1. Token(kind, cur, val) \in Tokens
  BY TokenParts
<1> QED  BY <1>1

LEMMA MarkerTyped ==
  ASSUME cur \in 1..Len(plan), NEW status \in Statuses
  PROVE  /\ Marker(cur, status) \in Seq(Tokens) /\ Len(Marker(cur, status)) = MarkerParts
         /\ \A k \in 1..MarkerParts : Marker(cur, status)[k].kind = "marker"
         /\ Marker(cur, status)[MarkerParts].val = MarkerParts + status
         /\ Marker(cur, status)[MarkerParts].val - MarkerParts = status
<1>1. MarkerParts \in Nat \ {0} /\ MarkerParts \in 1..MarkerParts /\ status \in Nat
  BY KeepAssumption DEF Statuses
<1>2. \A k \in 1..MarkerParts :
        Marker(cur, status)[k] = Token("marker", cur, IF k < MarkerParts THEN k ELSE k + status)
  BY DEF Marker
<1>3. \A k \in 1..MarkerParts : Marker(cur, status)[k] \in Tokens
  <2> SUFFICES ASSUME NEW k \in 1..MarkerParts  PROVE Marker(cur, status)[k] \in Tokens
    OBVIOUS
  <2>1. k \in Nat /\ k + status \in Nat
    BY <1>1
  <2>2. PICK v : v = IF k < MarkerParts THEN k ELSE k + status
    OBVIOUS
  <2>3. v \in Nat
    BY <2>1, <2>2
  <2>4. Marker(cur, status)[k] = Token("marker", cur, v)
    BY <1>2, <2>2
  <2>5. Token("marker", cur, v) \in Tokens
    BY <2>3, TokenParts DEF Kinds
  <2> QED  BY <2>4, <2>5
<1>4. Marker(cur, status) \in [1..MarkerParts -> Tokens]
  BY <1>3 DEF Marker
<1>5. Marker(cur, status) \in Seq(Tokens) /\ Len(Marker(cur, status)) = MarkerParts
  BY <1>1, <1>4
<1>6. \A k \in 1..MarkerParts : Marker(cur, status)[k].kind = "marker"
  BY <1>2, TokenParts
<1>7. Marker(cur, status)[MarkerParts].val = MarkerParts + status
  <2>1. Marker(cur, status)[MarkerParts] = Token("marker", cur, MarkerParts + status)
    BY <1>1, <1>2
  <2> QED  BY <2>1, TokenParts
<1>8. (MarkerParts + status) - MarkerParts = status
  BY <1>1
<1> QED  BY <1>5, <1>6, <1>7, <1>8

\* Where runRemoteTo cuts what it has read.
LEMMA Cut ==
  ASSUME NEW S, NEW p \in Seq(S)
  PROVE  \E k \in 0..Len(p) :
           /\ ToSink(p) = SubSeq(p, 1, k) /\ Held(p) = SubSeq(p, k + 1, Len(p))
           /\ Len(p) - k <= Keep /\ (k = 0 \/ Len(p) - k = Keep)
<1>1. Len(p) \in Nat /\ Keep \in Nat /\ \A j \in 1..Len(p) : p[j] \in S
  BY LenProperties, KeepAssumption
<1>2. CASE Len(p) > Keep
  <2>1. PICK k : k = Len(p) - Keep
    OBVIOUS
  <2>2. k \in 0..Len(p) /\ k + 1 = Len(p) - Keep + 1 /\ Len(p) - k = Keep /\ k + 1 <= Len(p) + 1
    BY <1>1, <1>2, <2>1
  <2>3. Held(p) = SubSeq(p, k + 1, Len(p))
    BY <1>2, <2>2 DEF Held
  <2>4. Len(Held(p)) = Keep
    <3>1. \A j \in k + 1..Len(p) : p[j] \in S
      BY <1>1, <2>2
    <3>2. Len(Held(p)) = IF k + 1 <= Len(p) THEN Len(p) - (k + 1) + 1 ELSE 0
      BY <1>1, <2>2, <2>3, <3>1, SubSeqProperties
    <3> QED  BY <1>1, <2>2, <3>2
  <2>5. ToSink(p) = SubSeq(p, 1, k)
    BY <2>1, <2>4 DEF ToSink
  <2> QED  BY <2>2, <2>3, <2>5
<1>3. CASE ~(Len(p) > Keep)
  <2>1. Held(p) = p /\ Len(p) - Len(p) = 0
    BY <1>1, <1>3 DEF Held
  <2>2. Held(p) = SubSeq(p, 0 + 1, Len(p)) /\ ToSink(p) = SubSeq(p, 1, 0)
    BY <2>1, SubSeqFull DEF ToSink
  <2>3. 0 \in 0..Len(p) /\ Len(p) - 0 <= Keep
    BY <1>1, <1>3
  <2> QED  BY <2>2, <2>3
<1> QED  BY <1>2, <1>3

\* The three parts of the stream are streams.
LEMMA Parts ==
  ASSUME TypeOK
  PROVE  /\ plan \in Plans /\ cur \in 1..Len(plan)
         /\ sunk \in Seq(Tokens) /\ pending \in Seq(Tokens) /\ wire \in Seq(Tokens)
         /\ payload \in Seq(Tokens)
         /\ Len(sunk) \in Nat /\ Len(pending) \in Nat /\ Len(wire) \in Nat /\ Len(pending) <= Keep
         /\ produced \in Nat /\ Wrote \in Nat /\ Wrote >= produced
         /\ whole => Wrote = produced
         /\ ~whole => Wrote = produced + 1
<1>1. sunk \in Seq(Tokens) /\ pending \in Seq(Tokens) /\ wire \in Seq(Tokens) /\ payload \in Seq(Tokens)
  BY DEF TypeOK, Stream, Tokens
<1>2. Len(sunk) \in Nat /\ Len(pending) \in Nat /\ Len(wire) \in Nat
  BY <1>1
<1>3. produced \in Nat /\ whole \in BOOLEAN
  BY SizeAssumption DEF TypeOK
<1>4. CASE whole
  <2>1. Wrote = produced
    BY <1>3, <1>4 DEF Wrote
  <2> QED  BY <1>1, <1>2, <1>3, <1>4, <2>1 DEF TypeOK
<1>5. CASE ~whole
  <2>1. Wrote = produced + 1
    BY <1>3, <1>5 DEF Wrote
  <2>2. Wrote \in Nat /\ Wrote >= produced
    BY <1>3, <2>1
  <2> QED  BY <1>1, <1>2, <1>3, <1>5, <2>1, <2>2 DEF TypeOK
<1> QED  BY <1>4, <1>5

\* Reading on moves tokens along, and hands nothing on of a marker that was
\* still all there.
LEMMA ReadOnMoves ==
  ASSUME TypeOK, ReadOn
  PROVE  /\ sunk' \in Seq(Tokens) /\ pending' \in Seq(Tokens) /\ wire' \in Seq(Tokens)
         /\ Len(pending') <= Keep
         /\ All' = All
         /\ wire # <<>>
         /\ \A e \in Nat, status \in Statuses :
              /\ Len(sunk) <= e /\ e + MarkerParts <= Len(All)
              /\ \A k \in 1..MarkerParts : All[e + k] = Marker(cur, status)[k]
              => Len(sunk') <= e /\ Len(sunk') + Len(pending') < e + MarkerParts
<1>1. PICK n \in 1..Len(wire) :
        LET p == pending \o SubSeq(wire, 1, n)
        IN  /\ MarkerStarts(p) = {}
            /\ sunk' = sunk \o ToSink(p) /\ pending' = Held(p)
            /\ wire' = SubSeq(wire, n + 1, Len(wire))
  BY DEF ReadOn
<1>2. PICK p : p = pending \o SubSeq(wire, 1, n)
  OBVIOUS
<1>3. /\ MarkerStarts(p) = {}
      /\ sunk' = sunk \o ToSink(p) /\ pending' = Held(p)
      /\ wire' = SubSeq(wire, n + 1, Len(wire))
  BY <1>1, <1>2
<1>4. /\ sunk \in Seq(Tokens) /\ pending \in Seq(Tokens) /\ wire \in Seq(Tokens)
      /\ Len(sunk) \in Nat /\ Len(pending) \in Nat /\ Len(wire) \in Nat
  BY Parts
<1>s. sunk \in Seq(Tokens)
  BY <1>4
<1>h. pending \in Seq(Tokens)
  BY <1>4
<1>w. wire \in Seq(Tokens)
  BY <1>4
<1>n. n \in 1..Len(wire)
  OBVIOUS
<1>5. p \in Seq(Tokens) /\ Len(p) = Len(pending) + n
  <2>1. Len(pending) \in 0..Len(pending) + n
    BY <1>4
  <2> QED  BY <1>2, <1>4, <2>1, FrameKeeps
<1>6. PICK k \in 0..Len(p) :
        /\ ToSink(p) = SubSeq(p, 1, k) /\ Held(p) = SubSeq(p, k + 1, Len(p))
        /\ Len(p) - k <= Keep /\ (k = 0 \/ Len(p) - k = Keep)
  BY <1>5, Cut
<1>7. /\ sunk' \in Seq(Tokens) /\ pending' \in Seq(Tokens) /\ wire' \in Seq(Tokens)
      /\ All' = All /\ Len(pending') = Len(p) - k
      /\ SubSeq(p, 1, k) \in Seq(Tokens) /\ Len(SubSeq(p, 1, k)) = k
  <2>1. k \in 0..Len(pending) + n
    BY <1>5, <1>6
  <2>2. SubSeq(p, 1, k) \in Seq(Tokens) /\ Len(SubSeq(p, 1, k)) = k
    BY ONLY <1>2, <1>s, <1>h, <1>w, <1>n, <2>1, FrameKeeps
  <2>3. SubSeq(p, k + 1, Len(p)) \in Seq(Tokens)
    BY ONLY <1>2, <1>s, <1>h, <1>w, <1>n, <2>1, FrameKeeps
  <2>7. Len(SubSeq(p, k + 1, Len(p))) = Len(p) - k
    <3>1. k + 1 \in Int /\ Len(p) \in Int /\ k \in Nat /\ k <= Len(p)
      BY <1>4, <1>5, <1>6
    <3>2. \A j \in k + 1..Len(p) : p[j] \in Tokens
      BY <1>5, <3>1, ElementOfSeq
    <3>3. Len(SubSeq(p, k + 1, Len(p))) = IF k + 1 <= Len(p) THEN Len(p) - (k + 1) + 1 ELSE 0
      BY <3>1, <3>2, SubSeqProperties
    <3> QED  BY <3>1, <3>3
  <2>4. SubSeq(wire, n + 1, Len(wire)) \in Seq(Tokens)
    BY ONLY <1>2, <1>s, <1>h, <1>w, <1>n, <2>1, FrameKeeps
  <2>5. sunk \o SubSeq(p, 1, k) \in Seq(Tokens)
    BY ONLY <1>2, <1>s, <1>h, <1>w, <1>n, <2>1, FrameKeeps
  <2>6. (sunk \o SubSeq(p, 1, k)) \o (SubSeq(p, k + 1, Len(p)) \o SubSeq(wire, n + 1, Len(wire)))
          = sunk \o (pending \o wire)
    BY ONLY <1>2, <1>s, <1>h, <1>w, <1>n, <2>1, FrameKeeps
  <2> QED  BY <1>3, <1>6, <2>2, <2>3, <2>4, <2>5, <2>6, <2>7 DEF All
<1>8. Len(sunk') = Len(sunk) + k
  BY <1>3, <1>4, <1>6, <1>7, ConcatProperties
<1>9. wire # <<>>
  BY <1>4
<1>10. ASSUME NEW e \in Nat, NEW status \in Statuses,
              Len(sunk) <= e, e + MarkerParts <= Len(All),
              \A j \in 1..MarkerParts : All[e + j] = Marker(cur, status)[j]
       PROVE  Len(sunk') <= e /\ Len(sunk') + Len(pending') < e + MarkerParts
  <2>1. Len(sunk) + Len(p) < e + MarkerParts
    <3>1. SUFFICES ASSUME e + MarkerParts <= Len(sunk) + Len(p)  PROVE FALSE
      BY <1>4, <1>5, KeepAssumption
    <3>2. PICK i : i = e + 1 - Len(sunk)
      OBVIOUS
    <3>3. /\ MarkerParts \in Nat \ {0} /\ i \in Nat \ {0} /\ i + MarkerParts - 1 <= Len(p)
          /\ i \in 1..Len(p) - MarkerParts + 1
      BY <1>4, <1>5, <1>10, <3>1, <3>2, KeepAssumption
    <3>4. ASSUME NEW j \in 1..MarkerParts  PROVE p[i + j - 1] = Marker(cur, status)[j]
      <4>1. i + j - 1 \in 1..Len(p) /\ Len(sunk) + (i + j - 1) = e + j
        BY <1>4, <1>5, <3>2, <3>3
      <4>2. All[Len(sunk) + (i + j - 1)] = p[i + j - 1]
        BY ONLY <1>2, <1>s, <1>h, <1>w, <1>n, <4>1, PlacesInAll DEF All
      <4> QED  BY <1>10, <4>1, <4>2
    <3>5. SubSeq(p, i, i + MarkerParts - 1) = Marker(cur, status)
      <4>1. p \in Seq(Tokens)
        BY <1>5
      <4>2. i \in 1..Len(p) - MarkerParts + 1
        BY <3>3
      <4>3. \A j \in 1..MarkerParts : p[i + j - 1] = Marker(cur, status)[j]
        BY <3>4
      <4> QED  BY ONLY <4>1, <4>2, <4>3, MarkerIsThere
    <3> QED  BY <1>3, <3>3, <3>5 DEF MarkerStarts
  <2>2. Len(sunk') + Len(pending') = Len(sunk) + Len(p)
    BY <1>4, <1>5, <1>6, <1>7, <1>8
  <2>3. Len(sunk') <= e
    <3>1. CASE k = 0
      BY <1>4, <1>8, <1>10, <3>1
    <3>2. CASE Len(p) - k = Keep
      BY <1>4, <1>5, <1>8, <2>1, <3>2, KeepAssumption
    <3> QED  BY <1>6, <3>1, <3>2
  <2> QED  BY <2>1, <2>2, <2>3
<1>11. Len(pending') <= Keep
  BY <1>6, <1>7
<1> QED  BY <1>7, <1>9, <1>10, <1>11

\* What is laid out has no marker in it.
LEMMA LaidKinds ==
  ASSUME TypeOK, NEW s, NEW h \in Nat, NEW q \in 0..produced, Laid(s, h, q), NEW j \in 1..h + Wrote
  PROVE  s[j].kind # "marker" /\ (j > h => s[j].kind \in {"data", "noise"})
<1>1. produced \in Nat /\ Wrote \in Nat /\ q \in Nat /\ q <= produced /\ j \in Nat
  BY Parts
<1>2. CASE j <= h
  <2>1. j \in 1..h
    BY <1>1, <1>2
  <2>2. Quiet(s[j]) \/ s[j] = Token("begin", cur, 0)
    BY <2>1 DEF Laid
  <2>3. s[j].kind \in {"echo", "prompt", "begin"}
    BY <2>2, TokenParts DEF Quiet
  <2>4. ~(j > h)
    BY <1>1, <1>2
  <2> QED  BY <2>3, <2>4
<1>3. CASE j > h
  <2>1. ASSUME NEW k \in 1..produced, j = h + Place(k, q)  PROVE s[j].kind = "data"
    BY <2>1, TokenParts DEF Laid
  <2>2. CASE j - h <= q
    <3>1. j - h \in 1..produced /\ Place(j - h, q) = j - h /\ h + (j - h) = j
      BY <1>1, <1>3, <2>2 DEF Place
    <3> QED  BY <2>1, <3>1
  <2>3. CASE j - h = q + 1 /\ ~whole
    <3>1. j = h + q + 1
      BY <1>1, <2>3
    <3> QED  BY <2>3, <3>1, TokenParts DEF Laid
  <2>4. CASE j - h > q + 1 /\ ~whole
    <3>1. Wrote = produced + 1
      BY <2>4, Parts
    <3>2. /\ j - h - 1 \in 1..produced /\ ~(j - h - 1 <= q)
          /\ h + ((j - h - 1) + 1) = j
      BY <1>1, <1>3, <2>4, <3>1
    <3>3. Place(j - h - 1, q) = (j - h - 1) + 1
      BY <3>2 DEF Place
    <3> QED  BY <2>1, <3>2, <3>3
  <2>5. whole => j - h <= q
    <3>1. whole => Wrote = produced /\ q = produced
      BY Parts DEF Laid
    <3> QED  BY <1>1, <3>1
  <2>6. j - h <= q \/ j - h = q + 1 \/ j - h > q + 1
    BY <1>1
  <2> QED  BY <2>2, <2>3, <2>4, <2>5, <2>6
<1> QED  BY <1>1, <1>2, <1>3

\* A layout is one of the tokens it speaks of.
LEMMA LaidSame ==
  ASSUME TypeOK, NEW s, NEW t, NEW h \in Nat, NEW q \in 0..produced, Laid(s, h, q),
         h + Wrote <= Len(t), \A j \in 1..h + Wrote : t[j] = s[j]
  PROVE  Laid(t, h, q)
<1>1. produced \in Nat /\ Wrote \in Nat /\ q \in Nat /\ q <= produced /\ Wrote >= produced
  BY Parts
<1>2. \A j \in 1..h : j \in 1..h + Wrote
  BY <1>1
<1>3. ASSUME NEW k \in 1..produced  PROVE h + Place(k, q) \in 1..h + Wrote
  <2>1. CASE whole
    <3>1. q = produced /\ Wrote = produced
      BY <2>1, Parts DEF Laid
    <3>2. Place(k, q) = k
      BY <1>1, <3>1 DEF Place
    <3> QED  BY <1>1, <3>1, <3>2
  <2>2. CASE ~whole
    <3>1. Wrote = produced + 1
      BY <2>2, Parts
    <3>2. Place(k, q) \in {k, k + 1}
      BY DEF Place
    <3> QED  BY <1>1, <3>1, <3>2
  <2> QED  BY <2>1, <2>2
<1>4. ~whole => h + q + 1 \in 1..h + Wrote
  <2>1. ~whole => Wrote = produced + 1
    BY Parts
  <2> QED  BY <1>1, <2>1
<1>5. \A j \in 1..h : Quiet(t[j]) \/ (j = h /\ t[j] = Token("begin", cur, 0))
  BY <1>2 DEF Laid
<1>6. Kind = "capture" => h > 0 /\ t[h] = Token("begin", cur, 0)
  <2>1. h > 0 => h \in 1..h
    OBVIOUS
  <2> QED  BY <1>2, <2>1 DEF Laid
<1>7. \A k \in 1..produced : t[h + Place(k, q)] = Token("data", cur, k)
  BY <1>3 DEF Laid
<1>8. ~whole => t[h + q + 1] = Token("noise", cur, 0)
  BY <1>4 DEF Laid
<1> QED  BY <1>5, <1>6, <1>7, <1>8 DEF Laid

\* While nobody has spoken, or the command still speaks, there is no marker.
LEMMA NoMarkerYet ==
  ASSUME TypeOK, Silent, Speaking, pc = "read", session # "broken", real[cur] = None,
         NEW j \in 1..Len(All)
  PROVE  All[j].kind # "marker"
<1>1. CASE shell # "running"
  <2>1. Quiet(All[j])
    BY <1>1 DEF Silent
  <2> QED  BY <2>1 DEF Quiet
<1>2. CASE shell = "running"
  <2>1. PICK h \in 0..Len(All), q \in 0..produced : Laid(All, h, q) /\ Len(All) = h + Wrote
    BY <1>2 DEF Speaking
  <2>2. h \in Nat /\ j \in 1..h + Wrote
    BY <2>1
  <2> QED  BY <2>1, <2>2, LaidKinds
<1> QED  BY <1>1, <1>2

\* The marker that is read is that of the running command, which is over; what
\* was handed on is what it wrote, and what is left is its prompt.
LEMMA ReadMarkerReads ==
  ASSUME TypeOK, Turn, Silent, Speaking, Over, ReadMarker
  PROVE  /\ pc = "read" /\ session # "broken" /\ real[cur] \in Statuses
         /\ Reported(real[cur])
         /\ pending' = <<>> /\ wire' \in Seq(Tokens) /\ sunk' \in Seq(Tokens)
         /\ \A j \in 1..Len(wire') : Quiet(wire'[j])
         /\ \E h \in 0..Len(sunk'), q \in 0..produced : Laid(sunk', h, q) /\ Len(sunk') = h + Wrote
<1>1. PICK n \in 1..Len(wire) :
        LET p == pending \o SubSeq(wire, 1, n)
        IN  \E i \in MarkerStarts(p) :
              /\ \A j \in MarkerStarts(p) : i <= j
              /\ sunk' = sunk \o SubSeq(p, 1, i - 1) /\ pending' = <<>>
              /\ wire' = SubSeq(wire, n + 1, Len(wire))
              /\ Reported(p[i + MarkerParts - 1].val - MarkerParts)
  BY DEF ReadMarker
<1>2. PICK p : p = pending \o SubSeq(wire, 1, n)
  OBVIOUS
<1>3. PICK i \in MarkerStarts(p) :
        /\ sunk' = sunk \o SubSeq(p, 1, i - 1) /\ pending' = <<>>
        /\ wire' = SubSeq(wire, n + 1, Len(wire))
        /\ Reported(p[i + MarkerParts - 1].val - MarkerParts)
  BY <1>1, <1>2
<1>4. /\ sunk \in Seq(Tokens) /\ pending \in Seq(Tokens) /\ wire \in Seq(Tokens)
      /\ Len(sunk) \in Nat /\ Len(pending) \in Nat /\ Len(wire) \in Nat /\ cur \in 1..Len(plan)
  BY Parts
<1>s. sunk \in Seq(Tokens)
  BY <1>4
<1>h. pending \in Seq(Tokens)
  BY <1>4
<1>w. wire \in Seq(Tokens)
  BY <1>4
<1>n. n \in 1..Len(wire)
  OBVIOUS
<1>5. p \in Seq(Tokens) /\ Len(p) = Len(pending) + n
  <2>1. Len(pending) \in 0..Len(pending) + n
    BY <1>4
  <2> QED  BY <1>2, <1>4, <2>1, FrameKeeps
<1>6. pc = "read" /\ session # "broken"
  <2>1. wire # <<>>
    BY <1>4
  <2> QED  BY <2>1 DEF Turn, ReadMarker
<1>7. /\ MarkerParts \in Nat \ {0} /\ i \in Nat \ {0} /\ i + MarkerParts - 1 <= Len(p)
      /\ i \in 1..Len(p) - MarkerParts + 1
  BY <1>4, <1>5, KeepAssumption DEF MarkerStarts
<1>8. PICK status \in Statuses : SubSeq(p, i, i + MarkerParts - 1) = Marker(cur, status)
  BY <1>3 DEF MarkerStarts
<1>9. \A k \in 1..MarkerParts : p[i + k - 1] = Marker(cur, status)[k]
  <2>1. p \in Seq(Tokens)
    BY <1>5
  <2>2. i \in 1..Len(p) - MarkerParts + 1
    BY <1>7
  <2>3. \A k \in 1..MarkerParts : SubSeq(p, i, i + MarkerParts - 1)[k] = p[i + k - 1]
    BY <2>1, <2>2, PartPlaces
  <2> QED  BY <1>8, <2>3
<1>10. Len(All) = Len(sunk) + Len(pending) + Len(wire)
  BY ONLY <1>2, <1>s, <1>h, <1>w, <1>n, PlacesInAll DEF All
<1>11. \A j \in 1..Len(p) : All[Len(sunk) + j] = p[j]
  BY ONLY <1>2, <1>s, <1>h, <1>w, <1>n, PlacesInAll DEF All
<1>12. \A j \in 1..Len(wire) : All[Len(sunk) + Len(pending) + j] = wire[j]
  BY ONLY <1>2, <1>s, <1>h, <1>w, <1>n, PlacesInAll DEF All
<1>13. \A j \in 1..Len(sunk) : All[j] = sunk[j]
  BY ONLY <1>2, <1>s, <1>h, <1>w, <1>n, PlacesInAll DEF All
<1>14. ASSUME NEW k \in 1..MarkerParts
       PROVE  /\ Len(sunk) + (i + k - 1) \in 1..Len(All)
              /\ All[Len(sunk) + (i + k - 1)] = Marker(cur, status)[k]
              /\ All[Len(sunk) + (i + k - 1)].kind = "marker"
  <2>1. i + k - 1 \in 1..Len(p) /\ Len(sunk) + (i + k - 1) \in 1..Len(All)
    BY <1>4, <1>5, <1>7, <1>10
  <2>2. All[Len(sunk) + (i + k - 1)] = Marker(cur, status)[k]
    BY <1>9, <1>11, <2>1
  <2> QED  BY <1>4, <2>1, <2>2, MarkerTyped
<1>15. 1 \in 1..MarkerParts /\ MarkerParts \in 1..MarkerParts /\ i + 1 - 1 = i
  BY <1>7
<1>16. real[cur] # None
  BY <1>6, <1>14, <1>15, NoMarkerYet
<1>17. real[cur] \in Statuses
  BY <1>4, <1>16 DEF TypeOK
<1>18. PICK h \in 0..Len(All), q \in 0..produced :
         /\ Laid(All, h, q) /\ Closed(All, h + Wrote)
         /\ Len(sunk) <= h + Wrote /\ Len(sunk) + Len(pending) < h + Wrote + MarkerParts
  BY <1>6, <1>16 DEF Over
<1>19. PICK e : e = h + Wrote
  OBVIOUS
<1>20. e \in Nat /\ h \in Nat /\ e + MarkerParts <= Len(All)
  <2>1. h \in Nat /\ Wrote \in Nat
    BY <1>4, <1>10, Parts
  <2> QED  BY <1>18, <1>19, <2>1 DEF Closed
<1>z. Len(sunk) \in Nat /\ MarkerParts \in Nat \ {0} /\ i \in Nat \ {0} /\ e \in Nat
  BY <1>4, <1>7, <1>20
<1>21. Len(sunk) + i = e + 1
  <2>1. Len(sunk) + i > e
    <3>1. Len(sunk) + (i + 1 - 1) \in 1..Len(All) /\ All[Len(sunk) + (i + 1 - 1)].kind = "marker"
      BY <1>14, <1>15
    <3>2. Len(sunk) + i \in 1..Len(All) /\ All[Len(sunk) + i].kind = "marker"
      BY <1>15, <3>1
    <3>3. Len(sunk) + i \notin 1..h + Wrote
      BY <1>18, <1>20, <3>2, LaidKinds
    <3> QED  BY <1>4, <1>7, <1>19, <1>20, <3>3
  <2>2. Len(sunk) + (i + MarkerParts - 1) <= e + MarkerParts
    <3>1. /\ Len(sunk) + (i + MarkerParts - 1) \in 1..Len(All)
          /\ All[Len(sunk) + (i + MarkerParts - 1)].kind = "marker"
      BY <1>14, <1>15
    <3>2. ~Quiet(All[Len(sunk) + (i + MarkerParts - 1)])
      BY <3>1 DEF Quiet
    <3>3. Len(sunk) + (i + MarkerParts - 1) \notin e + MarkerParts + 1..Len(All)
      BY <1>18, <1>19, <3>2 DEF Closed
    <3> QED  BY <1>4, <1>7, <1>20, <3>1, <3>3
  <2> QED  BY ONLY <1>z, <2>1, <2>2
<1>22. p[i + MarkerParts - 1].val - MarkerParts = real[cur]
  <2>1. p[i + MarkerParts - 1] = All[e + MarkerParts]
    <3>1. i + MarkerParts - 1 \in 1..Len(p) /\ Len(sunk) + (i + MarkerParts - 1) = e + MarkerParts
      <4>1. i + MarkerParts - 1 \in 1..Len(p)
        BY <1>4, <1>5, <1>7
      <4>2. Len(sunk) + (i + MarkerParts - 1) = e + MarkerParts
        BY ONLY <1>z, <1>21
      <4> QED  BY <4>1, <4>2
    <3> QED  BY <1>11, <3>1
  <2>2. All[e + MarkerParts] = Marker(cur, real[cur])[MarkerParts]
    BY <1>15, <1>18, <1>19 DEF Closed
  <2> QED  BY <1>4, <1>17, <2>1, <2>2, MarkerTyped
<1>23. Reported(real[cur])
  BY <1>3, <1>22
<1>24. PICK a : a = SubSeq(p, 1, i - 1)
  OBVIOUS
<1>25. a \in Seq(Tokens) /\ Len(a) = i - 1 /\ \A j \in 1..i - 1 : a[j] = p[j]
  <2>1. \A j \in 1..i - 1 : p[j] \in Tokens /\ 1 + j - 1 = j
    BY <1>5, <1>7, ElementOfSeq
  <2>2. i - 1 \in Int /\ 1 \in Int /\ (i - 1) - 1 + 1 = i - 1 /\ (~(1 <= i - 1) => i - 1 = 0)
    BY <1>7
  <2>3. /\ a \in Seq(Tokens) /\ Len(a) = IF 1 <= i - 1 THEN (i - 1) - 1 + 1 ELSE 0
        /\ \A j \in 1..(i - 1) - 1 + 1 : a[j] = p[1 + j - 1]
    BY <1>24, <2>1, <2>2, SubSeqProperties
  <2> QED  BY <2>1, <2>2, <2>3
<1>26. /\ sunk' \in Seq(Tokens) /\ Len(sunk') = e
       /\ \A j \in 1..e : sunk'[j] = All[j]
  <2>1. sunk' = sunk \o a
    BY <1>3, <1>24
  <2>a. a \in Seq(Tokens)
    BY <1>25
  <2>b. /\ sunk \o a \in Seq(Tokens) /\ Len(sunk \o a) = Len(sunk) + Len(a)
        /\ \A j \in 1..Len(sunk) + Len(a) :
             (sunk \o a)[j] = IF j <= Len(sunk) THEN sunk[j] ELSE a[j - Len(sunk)]
    BY ONLY <1>s, <2>a, ConcatProperties
  <2>3. Len(sunk) + Len(a) = e
    BY <1>4, <1>7, <1>20, <1>21, <1>25
  <2>2. /\ sunk' \in Seq(Tokens) /\ Len(sunk') = e
        /\ \A j \in 1..e : sunk'[j] = IF j <= Len(sunk) THEN sunk[j] ELSE a[j - Len(sunk)]
    BY <2>1, <2>b, <2>3
  <2>4. ASSUME NEW j \in 1..e  PROVE sunk'[j] = All[j]
    <3>1. CASE j <= Len(sunk)
      <4>1. j \in 1..Len(sunk)
        BY <1>4, <3>1
      <4> QED  BY <1>13, <2>2, <2>3, <3>1, <4>1
    <3>2. CASE ~(j <= Len(sunk))
      <4>1. /\ j - Len(sunk) \in 1..i - 1 /\ j - Len(sunk) \in 1..Len(p)
            /\ Len(sunk) + (j - Len(sunk)) = j
        BY <1>4, <1>5, <1>7, <1>20, <1>21, <3>2
      <4>2. sunk'[j] = a[j - Len(sunk)]
        BY <2>2, <2>3, <3>2
      <4>3. a[j - Len(sunk)] = p[j - Len(sunk)]
        BY <1>25, <4>1
      <4>4. All[Len(sunk) + (j - Len(sunk))] = p[j - Len(sunk)]
        BY <1>11, <4>1
      <4> QED  BY <4>1, <4>2, <4>3, <4>4
    <3> QED  BY <3>1, <3>2
  <2> QED  BY <2>2, <2>3, <2>4
<1>27. h \in 0..Len(sunk') /\ Laid(sunk', h, q) /\ Len(sunk') = h + Wrote
  <2>1. Len(sunk') = h + Wrote /\ h + Wrote <= Len(sunk') /\ h \in 0..Len(sunk')
    BY <1>19, <1>20, <1>26, Parts
  <2>2. \A j \in 1..h + Wrote : sunk'[j] = All[j]
    BY <1>19, <1>26
  <2>3. Laid(sunk', h, q)
    BY <1>18, <1>20, <2>1, <2>2, LaidSame
  <2> QED  BY <2>1, <2>3
<1>28. wire' \in Seq(Tokens) /\ \A j \in 1..Len(wire') : Quiet(wire'[j])
  <2>1. \A j \in n + 1..Len(wire) : wire[j] \in Tokens
    BY <1>4, ElementOfSeq
  <2>2. n + 1 \in Int /\ Len(wire) \in Int
    BY <1>4
  <2>3. /\ wire' \in Seq(Tokens)
        /\ Len(wire') = IF n + 1 <= Len(wire) THEN Len(wire) - (n + 1) + 1 ELSE 0
        /\ \A j \in 1..Len(wire) - (n + 1) + 1 : wire'[j] = wire[(n + 1) + j - 1]
    BY <1>3, <2>1, <2>2, SubSeqProperties
  <2>4. ASSUME NEW j \in 1..Len(wire')  PROVE Quiet(wire'[j])
    <3>1. Len(wire') \in Nat
      BY <2>3
    <3>2. /\ j \in 1..Len(wire) - (n + 1) + 1 /\ (n + 1) + j - 1 \in 1..Len(wire)
          /\ (n + 1) + j - 1 = n + j
      BY ONLY <1>4, <1>n, <2>3, <3>1, j \in 1..Len(wire')
    <3>3. Len(sunk) + Len(pending) + (n + j) \in e + MarkerParts + 1..Len(All)
      <4>1. Len(sunk) \in Nat /\ Len(pending) \in Nat /\ Len(wire) \in Nat /\ n \in Nat /\ j \in Nat
        BY <1>4, <3>1, j \in 1..Len(wire')
      <4>2. n + j <= Len(wire) /\ j >= 1
        BY <1>4, <3>1, <3>2
      <4>3. e \in Nat /\ MarkerParts \in Nat /\ i \in Nat
        BY <1>7, <1>20
      <4>4. i + MarkerParts - 1 <= Len(pending) + n
        BY <1>5, <1>7
      <4> QED  BY ONLY <1>10, <1>21, <4>1, <4>2, <4>3, <4>4
    <3>4. Quiet(All[Len(sunk) + Len(pending) + (n + j)])
      BY <1>18, <1>19, <3>3 DEF Closed
    <3> QED  BY <1>12, <2>3, <3>2, <3>4
  <2> QED  BY <2>3, <2>4
<1> QED  BY <1>3, <1>6, <1>17, <1>23, <1>26, <1>27, <1>28

\* What is decoded of a download: if it decodes, no part of it has failed, and
\* it is all that was written.
LEMMA DownloadDecoded ==
  ASSUME TypeOK, NEW s \in Seq(Tokens), NEW h \in Nat, NEW q \in 0..produced, Laid(s, h, q),
         Len(s) = h + Wrote, Kind = "capture"
  PROVE  /\ AfterBegin(s) \in Seq(Tokens)
         /\ Decodes(s) => whole /\ AfterBegin(s) = Output(cur, produced)
<1>1. produced \in Nat /\ Wrote \in Nat /\ q \in Nat /\ q <= produced /\ Wrote >= produced
  BY Parts
<1>2. h \in 1..Len(s) /\ s[h] = Token("begin", cur, 0)
  BY <1>1 DEF Laid
<1>3. ASSUME NEW j \in 1..Len(s), s[j] = Token("begin", cur, 0)  PROVE j = h
  <2>1. s[j].kind = "begin"
    BY <1>3, TokenParts
  <2>2. CASE j < h
    <3>1. j \in 1..h /\ j # h
      BY <1>1, <2>2
    <3>2. Quiet(s[j])
      BY <3>1 DEF Laid
    <3> QED  BY <2>1, <3>2 DEF Quiet
  <2>3. CASE j > h
    <3>1. j \in 1..h + Wrote
      OBVIOUS
    <3>2. s[j].kind \in {"data", "noise"}
      BY <2>3, <3>1, LaidKinds
    <3> QED  BY <2>1, <3>2
  <2> QED  BY <1>1, <2>2, <2>3
<1>4. Begins(s) = {h}
  BY <1>2, <1>3 DEF Begins
<1>5. (CHOOSE i \in Begins(s) : \A j \in Begins(s) : i <= j) = h
  BY <1>1, <1>4
<1>6. PICK a : a = SubSeq(s, 1 + h, Len(s))
  OBVIOUS
<1>7. AfterBegin(s) = a
  BY <1>5, <1>6 DEF AfterBegin
<1>8. a \in Seq(Tokens) /\ Len(a) = Wrote /\ \A j \in 1..Wrote : a[j] = s[h + j]
  <2>1. \A j \in 1 + h..Len(s) : s[j] \in Tokens
    BY ElementOfSeq
  <2>2. /\ 1 + h \in Int /\ Len(s) \in Int /\ Len(s) - (1 + h) + 1 = Wrote
        /\ ~(1 + h <= Len(s)) => Wrote = 0
    BY <1>1
  <2>3. /\ a \in Seq(Tokens) /\ Len(a) = IF 1 + h <= Len(s) THEN Len(s) - (1 + h) + 1 ELSE 0
        /\ \A j \in 1..Len(s) - (1 + h) + 1 : a[j] = s[(1 + h) + j - 1]
    BY <1>6, <2>1, <2>2, SubSeqProperties
  <2>4. \A j \in 1..Wrote : (1 + h) + j - 1 = h + j
    BY <1>1
  <2> QED  BY <2>2, <2>3, <2>4
<1>9. ASSUME Decodes(s)  PROVE whole /\ AfterBegin(s) = Output(cur, produced)
  <2>1. \A j \in 1..Wrote : a[j].kind = "data"
    BY <1>7, <1>8, <1>9 DEF Decodes, IsData
  <2>2. whole
    <3>1. SUFFICES ASSUME ~whole  PROVE FALSE
      OBVIOUS
    <3>2. q + 1 \in 1..Wrote /\ h + q + 1 = h + (q + 1)
      BY <1>1, <3>1, Parts
    <3>3. a[q + 1] = Token("noise", cur, 0)
      BY <1>8, <3>1, <3>2 DEF Laid
    <3> QED  BY <2>1, <3>2, <3>3, TokenParts
  <2>3. Wrote = produced /\ q = produced
    BY <2>2, Parts DEF Laid
  <2>4. ASSUME NEW k \in 1..produced  PROVE a[k] = Token("data", cur, k)
    <3>1. Place(k, q) = k
      BY <1>1, <2>3 DEF Place
    <3>2. s[h + k] = Token("data", cur, k)
      BY <3>1 DEF Laid
    <3> QED  BY <1>8, <2>3, <3>2
  <2>5. a = [k \in 1..produced |-> Token("data", cur, k)]
    BY <1>8, <2>3, <2>4, LenProperties
  <2> QED  BY <1>7, <2>2, <2>5 DEF Output
<1> QED  BY <1>7, <1>8, <1>9

-----------------------------------------------------------------------------
(* Types.                                                                  *)

ClientOK ==
  /\ plan \in Plans /\ cur \in 1..Len(plan) /\ pc \in {"payload", "send", "read", "done"}
  /\ sent \in 0..Lines + 2 /\ exit \in Statuses \union {Error, None}

StreamOK ==
  /\ sunk \in Seq(Tokens) /\ pending \in Seq(Tokens) /\ payload \in Seq(Tokens) /\ wire \in Seq(Tokens)
  /\ Len(pending) <= Keep

RemoteOK ==
  /\ shell \in {"prompt", "typed", "running"} /\ whole \in BOOLEAN /\ produced \in 0..Data
  /\ tmp \in (0..Lines) \union {None} /\ dest \in (0..Lines) \union {None}
  /\ real \in [1..Len(plan) -> Statuses \union {None}]
  /\ session \in {"open", "closed", "broken"}

LEMMA TypeParts ==
  /\ TypeOK <=> ClientOK /\ StreamOK /\ RemoteOK
  /\ TypeOK' <=> ClientOK' /\ StreamOK' /\ RemoteOK'
  BY DEF TypeOK, ClientOK, StreamOK, RemoteOK, Stream, Tokens

\* Where a process is after a status.
LEMMA ReportedWhere ==
  ASSUME TypeOK, Turn, pc = "read", NEW status \in Statuses, Reported(status)
  PROVE  /\ cur' \in 1..Len(plan)
         /\ \/ /\ pc' = "done" /\ cur' = cur /\ exit' \in Statuses \union {Error}
               /\ exit' = Error \/ cur = Len(plan)
               /\ exit' # Error /\ Kind = "run" => exit' = status
               /\ exit' # Error /\ Kind # "run" => exit' = 0
               /\ exit' # Error /\ (MustSucceed(Kind) \/ Kind = "capture") => status = 0
            \/ /\ Kind \notin {"run", "capture"} /\ ~(MustSucceed(Kind) /\ status # 0)
               /\ cur' = cur + 1 /\ exit' = exit /\ pc' = Start(plan[cur']) /\ payload' = payload
         /\ payload' = payload
              \/ (/\ Kind = "capture" /\ status = 0 /\ Decodes(sunk') /\ exit' = 0
                   /\ payload' = AfterBegin(sunk'))
         /\ Kind = "capture" /\ exit' # Error /\ pc' = "done" =>
              Decodes(sunk') /\ exit' = 0 /\ payload' = AfterBegin(sunk')
<1>1. /\ plan \in Plans /\ cur \in 1..Len(plan) /\ cur \in Nat
      /\ Kind \in {"run", "upload", "check", "extract", "capture"}
      /\ Kind \in {"run", "capture"} => cur = Len(plan)
  BY Parts, PlansKnown DEF Kind
<1>2. Error # 0 /\ Error \notin Statuses /\ 0 \in Statuses
  BY DEF Error, Statuses
<1>3. CASE Kind = "run" /\ Ends(status)
  BY <1>1, <1>2, <1>3 DEF Ends, MustSucceed
<1>4. CASE MustSucceed(Kind) /\ status # 0 /\ Ends(Error)
  BY <1>1, <1>2, <1>4 DEF Ends, MustSucceed
<1>5. CASE Kind \notin {"run", "capture"} /\ ~(MustSucceed(Kind) /\ status # 0) /\ Proceed
  <2>1. CASE cur = Len(plan)
    BY <1>1, <1>2, <1>5, <2>1 DEF Proceed
  <2>2. CASE cur # Len(plan)
    <3>1. cur + 1 \in 1..Len(plan)
      BY <1>1, <2>2
    <3> QED  BY <1>1, <1>2, <1>5, <2>2, <3>1 DEF Proceed
  <2> QED  BY <2>1, <2>2
<1>6. CASE Kind = "capture" /\ (status # 0 \/ ~Decodes(sunk')) /\ Ends(Error)
  BY <1>1, <1>2, <1>6 DEF Ends, MustSucceed
<1>7. CASE /\ Kind = "capture" /\ status = 0 /\ Decodes(sunk')
           /\ pc' = "done" /\ exit' = 0 /\ UNCHANGED cur /\ payload' = AfterBegin(sunk')
  BY <1>1, <1>2, <1>7 DEF MustSucceed
<1> QED  BY <1>3, <1>4, <1>5, <1>6, <1>7 DEF Reported

\* The command line never changes.
LEMMA PlanKept ==
  ASSUME [Next]_vars
  PROVE  plan' = plan
  BY DEF Next, vars, clientVars, PayloadLine, Send, ReadOn, ReadMarker, ReadFails, Interrupt,
         ShellStarts, CommandWrites, PartFails, SessionEnds, CommandEnds

LEMMA ClientTypes ==
  ASSUME TypeOK, Turn, Silent, Speaking, Over, [Next]_vars
  PROVE  ClientOK'
<1>1. plan' = plan /\ plan \in Plans /\ cur \in 1..Len(plan) /\ ClientOK
  BY PlanKept, Parts, TypeParts
<1>2. Error \in Statuses \union {Error, None}
  OBVIOUS
<1>3. CASE PayloadLine
  <2>1. sent' \in 0..Lines + 2 /\ cur' = cur
    <3>1. Lines \in Nat /\ sent \in Nat /\ sent <= Lines + 1
      BY <1>1, <1>3, SizeAssumption DEF PayloadLine, Turn, ClientOK
    <3>2. sent' \in {sent, sent + 1} /\ cur' = cur
      BY <1>3 DEF PayloadLine, Ends
    <3> QED  BY <3>1, <3>2
  <2>2. pc' \in {"payload", "send", "done"} /\ exit' \in {exit, Error}
    BY <1>3 DEF PayloadLine, Ends
  <2> QED  BY <1>1, <2>1, <2>2 DEF ClientOK
<1>4. CASE Send
  <2>1. pc' \in {"read", "done"} /\ exit' \in {exit, Error} /\ cur' = cur /\ sent' = sent
    BY <1>4 DEF Send, Ends
  <2> QED  BY <1>1, <2>1 DEF ClientOK
<1>5. CASE ReadMarker
  <2>1. pc = "read" /\ real[cur] \in Statuses /\ Reported(real[cur]) /\ sent' = sent
    BY <1>5, ReadMarkerReads DEF ReadMarker
  <2>2. cur' \in 1..Len(plan) /\ (exit' \in Statuses \union {Error} \/ exit' = exit)
    BY <2>1, ReportedWhere
  <2>3. pc' = "done" \/ pc' = Start(plan[cur'])
    BY <2>1, ReportedWhere
  <2>4. pc' \in {"payload", "send", "done"}
    BY <2>3 DEF Start
  <2> QED  BY <1>1, <2>1, <2>2, <2>4 DEF ClientOK
<1>6. CASE ReadFails
  <2>1. pc' = "done" /\ exit' \in {0, Error} /\ cur' = cur /\ sent' = sent
    BY <1>6 DEF ReadFails, Ends
  <2> QED  BY <1>1, <2>1 DEF ClientOK, Statuses
<1>7. CASE Interrupt
  <2>1. pc' = "done" /\ exit' = Error /\ cur' = cur /\ sent' = sent
    BY <1>7 DEF Interrupt, Ends
  <2> QED  BY <1>1, <2>1 DEF ClientOK
<1>8. CASE ReadOn
  <2>1. UNCHANGED <<cur, pc, sent, exit>>
    BY <1>8 DEF ReadOn
  <2> QED  BY <1>1, <2>1 DEF ClientOK
<1>9. CASE \/ ShellStarts \/ CommandWrites \/ PartFails \/ SessionEnds \/ UNCHANGED vars
           \/ \E status \in Statuses : CommandEnds(status)
  <2>1. UNCHANGED <<cur, pc, sent, exit>>
    BY <1>9 DEF ShellStarts, CommandWrites, PartFails, SessionEnds, CommandEnds, vars, clientVars
  <2> QED  BY <1>1, <2>1 DEF ClientOK
<1> QED  BY <1>3, <1>4, <1>5, <1>6, <1>7, <1>8, <1>9 DEF Next

LEMMA RemoteTypes ==
  ASSUME TypeOK, Turn, [Next]_vars
  PROVE  RemoteOK'
<1>1. plan' = plan /\ cur \in 1..Len(plan) /\ RemoteOK /\ Data \in Nat /\ Lines \in Nat
  BY PlanKept, Parts, TypeParts, SizeAssumption
<1>2. CASE PayloadLine
  <2>1. UNCHANGED <<shell, whole, produced, dest, real, session>> /\ tmp' \in (0..Lines) \union {tmp}
    BY <1>2 DEF PayloadLine
  <2> QED  BY <1>1, <2>1 DEF RemoteOK
<1>3. CASE Send
  <2>1. UNCHANGED <<whole, produced, tmp, dest, real, session>> /\ shell' \in {shell, "typed"}
    BY <1>3 DEF Send
  <2> QED  BY <1>1, <2>1 DEF RemoteOK
<1>4. CASE ReadOn \/ ReadMarker \/ ReadFails \/ Interrupt \/ UNCHANGED vars
  <2>1. UNCHANGED <<shell, whole, produced, tmp, dest, real, session>>
    BY <1>4 DEF ReadOn, ReadMarker, ReadFails, Interrupt, vars, remoteVars
  <2> QED  BY <1>1, <2>1 DEF RemoteOK
<1>5. CASE ShellStarts
  <2>1. UNCHANGED <<tmp, dest, real, session>> /\ shell' = "running" /\ whole' = TRUE /\ produced' = 0
    BY <1>5 DEF ShellStarts
  <2> QED  BY <1>1, <2>1 DEF RemoteOK
<1>6. CASE CommandWrites
  <2>1. UNCHANGED <<shell, whole, tmp, dest, real, session>> /\ produced' = produced + 1 /\ produced < Data
    BY <1>6 DEF CommandWrites
  <2>2. produced' \in 0..Data
    BY <1>1, <2>1 DEF RemoteOK
  <2> QED  BY <1>1, <2>1, <2>2 DEF RemoteOK
<1>7. CASE PartFails
  <2>1. UNCHANGED <<shell, produced, tmp, dest, real, session>> /\ whole' = FALSE
    BY <1>7 DEF PartFails
  <2> QED  BY <1>1, <2>1 DEF RemoteOK
<1>8. CASE SessionEnds
  <2>1. UNCHANGED <<shell, whole, produced, dest, real>> /\ session' \in {"closed", "broken"}
    BY <1>8 DEF SessionEnds
  <2>2. tmp' \in (0..Lines) \union {None}
    <3>1. CASE tmp' = tmp
      BY <1>1, <3>1 DEF RemoteOK
    <3>2. CASE pc = "payload" /\ tmp' \in 0..sent - 1
      <4>1. sent \in Nat /\ sent <= Lines + 1
        BY <1>1, <3>2 DEF Turn, TypeOK
      <4> QED  BY <1>1, <3>2, <4>1
    <3> QED  BY <1>8, <3>1, <3>2 DEF SessionEnds
  <2> QED  BY <1>1, <2>1, <2>2 DEF RemoteOK
<1>9. ASSUME NEW status \in Statuses, CommandEnds(status)  PROVE RemoteOK'
  <2>1. UNCHANGED <<whole, produced, session>> /\ shell' = "prompt" /\ real' = [real EXCEPT ![cur] = status]
    BY <1>9 DEF CommandEnds
  <2>2. tmp' \in {tmp, None} /\ dest' \in {tmp, dest}
    BY <1>9 DEF CommandEnds, Works
  <2>3. real' \in [1..Len(plan) -> Statuses \union {None}]
    BY <1>1, <2>1 DEF RemoteOK
  <2> QED  BY <1>1, <2>1, <2>2, <2>3 DEF RemoteOK
<1> QED  BY <1>2, <1>3, <1>4, <1>5, <1>6, <1>7, <1>8, <1>9 DEF Next

\* What the shell says comes at the end of the stream.
LEMMA Heard ==
  ASSUME TypeOK, UNCHANGED <<sunk, pending>>, NEW t \in Seq(Tokens), wire' = wire \o t
  PROVE  /\ wire' \in Seq(Tokens) /\ Len(wire') = Len(wire) + Len(t)
         /\ \A j \in 1..Len(wire) : wire'[j] = wire[j]
         /\ \A j \in 1..Len(t) : wire'[Len(wire) + j] = t[j]
         /\ Len(All') = Len(All) + Len(t) /\ Len(All) \in Nat /\ Len(t) \in Nat
         /\ \A j \in 1..Len(All) : All'[j] = All[j]
         /\ \A j \in 1..Len(t) : All'[Len(All) + j] = t[j]
<1>1. sunk \in Seq(Tokens)
  BY Parts
<1>2. pending \in Seq(Tokens)
  BY Parts
<1>3. wire \in Seq(Tokens)
  BY Parts
<1>4. t \in Seq(Tokens)
  OBVIOUS
<1>5. wire \o t \in Seq(Tokens) /\ sunk \o (pending \o (wire \o t)) = All \o t /\ All \in Seq(Tokens)
  BY ONLY <1>1, <1>2, <1>3, <1>4, AllGrows, SMTT(40) DEF All
<1>6. All' = All \o t
  BY <1>5 DEF All
<1>7. /\ Len(wire \o t) = Len(wire) + Len(t)
      /\ \A j \in 1..Len(wire) + Len(t) : (wire \o t)[j] = IF j <= Len(wire) THEN wire[j] ELSE t[j - Len(wire)]
  BY <1>3, ConcatProperties
<1>a. All \in Seq(Tokens)
  BY <1>5
<1>8. /\ Len(All \o t) = Len(All) + Len(t)
      /\ \A j \in 1..Len(All) + Len(t) : (All \o t)[j] = IF j <= Len(All) THEN All[j] ELSE t[j - Len(All)]
  BY ONLY <1>a, <1>4, ConcatProperties
<1>9. Len(wire) \in Nat /\ Len(t) \in Nat /\ Len(All) \in Nat
  BY <1>3, <1>a, LenProperties
<1>10. \A j \in 1..Len(wire) : wire'[j] = wire[j]
  BY <1>7, <1>9
<1>11. \A j \in 1..Len(t) : wire'[Len(wire) + j] = t[j]
  BY <1>7, <1>9
<1>12. \A j \in 1..Len(All) : All'[j] = All[j]
  BY <1>6, <1>8, <1>9
<1>13. \A j \in 1..Len(t) : All'[Len(All) + j] = t[j]
  BY <1>6, <1>8, <1>9
<1> QED  BY <1>5, <1>6, <1>7, <1>8, <1>9, <1>10, <1>11, <1>12, <1>13

\* What each step says.
LEMMA Saying ==
  ASSUME TypeOK
  PROVE  /\ ShellStarts => \E t \in Seq(Tokens) :
              /\ wire' = wire \o t /\ UNCHANGED <<sunk, pending, payload>>
              /\ t[1] = Token("echo", cur, 0)
              /\ Len(t) = IF Kind = "capture" THEN 2 ELSE 1
              /\ Kind = "capture" => t[2] = Token("begin", cur, 0)
         /\ CommandWrites => \E t \in Seq(Tokens) :
              /\ wire' = wire \o t /\ UNCHANGED <<sunk, pending, payload>>
              /\ Len(t) = 1 /\ t[1] = Token("data", cur, produced + 1)
         /\ PartFails => \E t \in Seq(Tokens) :
              /\ wire' = wire \o t /\ UNCHANGED <<sunk, pending, payload>>
              /\ Len(t) = 1 /\ t[1] = Token("noise", cur, 0)
         /\ \A status \in Statuses : CommandEnds(status) => \E t \in Seq(Tokens) :
              /\ wire' = wire \o t /\ UNCHANGED <<sunk, pending, payload>>
              /\ Len(t) = MarkerParts + 1
              /\ \A k \in 1..MarkerParts : t[k] = Marker(cur, status)[k]
              /\ t[MarkerParts + 1] = Token("prompt", cur, 0)
<1>1. cur \in 1..Len(plan) /\ 0 \in Nat /\ produced + 1 \in Nat
  BY Parts
<1>2. ASSUME ShellStarts
      PROVE  \E t \in Seq(Tokens) :
              /\ wire' = wire \o t /\ UNCHANGED <<sunk, pending, payload>>
              /\ t[1] = Token("echo", cur, 0)
              /\ Len(t) = IF Kind = "capture" THEN 2 ELSE 1
              /\ Kind = "capture" => t[2] = Token("begin", cur, 0)
  <2>1. PICK e : e = <<Token("echo", cur, 0)>>
    OBVIOUS
  <2>2. PICK b : b = IF Kind = "capture" THEN <<Token("begin", cur, 0)>> ELSE <<>>
    OBVIOUS
  <2>3. e \in Seq(Tokens) /\ Len(e) = 1 /\ e[1] = Token("echo", cur, 0)
    BY <1>1, <2>1, Tokened DEF Kinds
  <2>4. b \in Seq(Tokens) /\ Len(b) = IF Kind = "capture" THEN 1 ELSE 0
    BY <1>1, <2>2, Tokened, EmptySeq DEF Kinds
  <2>5. Kind = "capture" => b[1] = Token("begin", cur, 0)
    BY <2>2
  <2>6. /\ e \o b \in Seq(Tokens) /\ Len(e \o b) = Len(e) + Len(b)
        /\ \A j \in 1..Len(e) + Len(b) : (e \o b)[j] = IF j <= Len(e) THEN e[j] ELSE b[j - Len(e)]
    BY <2>3, <2>4, ConcatProperties
  <2>7. (e \o b)[1] = e[1]
    BY <2>3, <2>4, <2>6
  <2>8. Kind = "capture" => (e \o b)[2] = b[1]
    BY <2>3, <2>4, <2>6
  <2>9. wire' = wire \o (e \o b) /\ UNCHANGED <<sunk, pending, payload>>
    BY <1>2, <2>1, <2>2 DEF ShellStarts, Says, EchoOf, clientVars
  <2>10. Len(e \o b) = IF Kind = "capture" THEN 2 ELSE 1
    BY <2>3, <2>4, <2>6
  <2> QED  BY <2>3, <2>5, <2>6, <2>7, <2>8, <2>9, <2>10
<1>3. ASSUME CommandWrites
      PROVE  \E t \in Seq(Tokens) :
              /\ wire' = wire \o t /\ UNCHANGED <<sunk, pending, payload>>
              /\ Len(t) = 1 /\ t[1] = Token("data", cur, produced + 1)
  <2>1. wire' = wire \o <<Token("data", cur, produced + 1)>> /\ UNCHANGED <<sunk, pending, payload>>
    BY <1>3 DEF CommandWrites, Says, clientVars
  <2>2. "data" \in Kinds
    BY DEF Kinds
  <2> QED  BY <1>1, <2>1, <2>2, Tokened
<1>4. ASSUME PartFails
      PROVE  \E t \in Seq(Tokens) :
              /\ wire' = wire \o t /\ UNCHANGED <<sunk, pending, payload>>
              /\ Len(t) = 1 /\ t[1] = Token("noise", cur, 0)
  <2>1. wire' = wire \o <<Token("noise", cur, 0)>> /\ UNCHANGED <<sunk, pending, payload>>
    BY <1>4 DEF PartFails, Says, clientVars
  <2>2. "noise" \in Kinds
    BY DEF Kinds
  <2> QED  BY <1>1, <2>1, <2>2, Tokened
<1>5. ASSUME NEW status \in Statuses, CommandEnds(status)
      PROVE  \E t \in Seq(Tokens) :
              /\ wire' = wire \o t /\ UNCHANGED <<sunk, pending, payload>>
              /\ Len(t) = MarkerParts + 1
              /\ \A k \in 1..MarkerParts : t[k] = Marker(cur, status)[k]
              /\ t[MarkerParts + 1] = Token("prompt", cur, 0)
  <2>1. PICK m : m = Marker(cur, status)
    OBVIOUS
  <2>2. PICK b : b = <<Token("prompt", cur, 0)>>
    OBVIOUS
  <2>3. m \in Seq(Tokens) /\ Len(m) = MarkerParts /\ MarkerParts \in Nat \ {0}
    BY <1>1, <2>1, MarkerTyped, KeepAssumption
  <2>4. b \in Seq(Tokens) /\ Len(b) = 1 /\ b[1] = Token("prompt", cur, 0)
    BY <1>1, <2>2, Tokened DEF Kinds
  <2>5. /\ m \o b \in Seq(Tokens) /\ Len(m \o b) = Len(m) + Len(b)
        /\ \A j \in 1..Len(m) + Len(b) : (m \o b)[j] = IF j <= Len(m) THEN m[j] ELSE b[j - Len(m)]
    BY <2>3, <2>4, ConcatProperties
  <2>6. \A k \in 1..MarkerParts : (m \o b)[k] = m[k]
    BY <2>3, <2>4, <2>5
  <2>7. (m \o b)[MarkerParts + 1] = b[1]
    <3>1. PICK x : x = MarkerParts + 1
      OBVIOUS
    <3>2. x \in 1..Len(m) + Len(b) /\ ~(x <= Len(m)) /\ x - Len(m) = 1
      BY <2>3, <2>4, <3>1
    <3>3. (m \o b)[x] = IF x <= Len(m) THEN m[x] ELSE b[x - Len(m)]
      BY <2>5, <3>2
    <3> QED  BY <3>1, <3>2, <3>3
  <2>8. wire' = wire \o (m \o b) /\ UNCHANGED <<sunk, pending, payload>>
    BY <1>5, <2>1, <2>2 DEF CommandEnds, Says, clientVars
  <2> QED  BY <2>1, <2>3, <2>4, <2>5, <2>6, <2>7, <2>8
<1> QED  BY <1>2, <1>3, <1>4, <1>5

LEMMA StreamTypes ==
  ASSUME TypeOK, Turn, Silent, Speaking, Over, [Next]_vars
  PROVE  StreamOK'
<1>1. /\ StreamOK /\ sunk \in Seq(Tokens) /\ pending \in Seq(Tokens) /\ wire \in Seq(Tokens)
      /\ payload \in Seq(Tokens) /\ cur \in 1..Len(plan) /\ Keep \in Nat
  BY Parts, TypeParts, KeepAssumption
<1>2. Tokens' = Tokens
  BY PlanKept DEF Tokens
<1>3. <<>> \in Seq(Tokens) /\ Len(<<>>) <= Keep
  BY <1>1, EmptySeq
<1>4. CASE PayloadLine
  <2>1. UNCHANGED <<sunk, pending, payload>> /\ (wire' = wire \/ wire' = wire \o <<Token("echo", cur, 0)>>)
    BY <1>4 DEF PayloadLine, Says, Ends
  <2>2. <<Token("echo", cur, 0)>> \in Seq(Tokens)
    BY <1>1, Tokened DEF Kinds
  <2>3. wire' \in Seq(Tokens)
    BY <1>1, <2>1, <2>2, ConcatProperties
  <2> QED  BY <1>1, <1>2, <2>1, <2>3 DEF StreamOK
<1>5. CASE Send
  <2>1. pending' = <<>> /\ sunk' = <<>> /\ payload' = payload /\ wire' = wire
    BY <1>5 DEF Send, Ends
  <2> QED  BY <1>1, <1>2, <1>3, <2>1 DEF StreamOK
<1>6. CASE ReadOn
  <2>1. payload' = payload
    BY <1>6 DEF ReadOn
  <2> QED  BY <1>1, <1>2, <1>6, <2>1, ReadOnMoves DEF StreamOK
<1>7. CASE ReadMarker
  <2>1. /\ pending' = <<>> /\ wire' \in Seq(Tokens) /\ sunk' \in Seq(Tokens)
        /\ pc = "read" /\ real[cur] \in Statuses /\ Reported(real[cur])
    BY <1>7, ReadMarkerReads
  <2>2. PICK h \in 0..Len(sunk'), q \in 0..produced : Laid(sunk', h, q) /\ Len(sunk') = h + Wrote
    BY <1>7, ReadMarkerReads
  <2>3. payload' = payload \/ (Kind = "capture" /\ payload' = AfterBegin(sunk'))
    BY <2>1, ReportedWhere
  <2>4. Kind = "capture" => AfterBegin(sunk') \in Seq(Tokens)
    BY <2>1, <2>2, DownloadDecoded
  <2> QED  BY <1>1, <1>2, <1>3, <2>1, <2>3, <2>4 DEF StreamOK
<1>8. CASE ReadFails \/ Interrupt
  <2>1. sunk' = sunk \o pending /\ pending' = <<>> /\ payload' = payload /\ wire' = wire
    BY <1>8 DEF ReadFails, Interrupt, Ends
  <2>2. sunk' \in Seq(Tokens)
    BY <1>1, <2>1, ConcatProperties
  <2> QED  BY <1>1, <1>2, <1>3, <2>1, <2>2 DEF StreamOK
<1>9. CASE SessionEnds \/ UNCHANGED vars
  <2>1. UNCHANGED <<sunk, pending, payload>> /\ wire' \in {wire, <<>>}
    BY <1>9 DEF SessionEnds, vars, clientVars
  <2> QED  BY <1>1, <1>2, <1>3, <2>1 DEF StreamOK
<1>10. CASE \/ ShellStarts \/ CommandWrites \/ PartFails
            \/ \E status \in Statuses : CommandEnds(status)
  <2>1. PICK t \in Seq(Tokens) : wire' = wire \o t /\ UNCHANGED <<sunk, pending, payload>>
    BY <1>10, Saying
  <2>2. wire' \in Seq(Tokens)
    BY <1>1, <2>1, ConcatProperties
  <2> QED  BY <1>1, <1>2, <2>1, <2>2 DEF StreamOK
<1> QED  BY <1>4, <1>5, <1>6, <1>7, <1>8, <1>9, <1>10 DEF Next

LEMMA Types ==
  ASSUME TypeOK, Turn, Silent, Speaking, Over, [Next]_vars
  PROVE  TypeOK'
  BY ClientTypes, RemoteTypes, StreamTypes, TypeParts

-----------------------------------------------------------------------------
(* Turns.                                                                  *)

LEMMA Codes ==
  /\ Error \notin Statuses /\ None \notin Statuses /\ Error # None /\ 0 \in Statuses /\ 0 # None
  BY DEF Error, None, Statuses

LEMMA Turns ==
  ASSUME TypeOK, Turn, Silent, Speaking, Over, [Next]_vars
  PROVE  Turn'
<1>1. /\ plan' = plan /\ plan \in Plans /\ cur \in 1..Len(plan) /\ Kind' = plan[cur']
      /\ real \in [1..Len(plan) -> Statuses \union {None}]
  BY PlanKept, Parts DEF Kind, TypeOK
<1>2. CASE PayloadLine
  <2>1. /\ pc = "payload" /\ cur' = cur /\ UNCHANGED <<shell, real, session>>
        /\ exit = None /\ Kind = "upload" /\ sent <= Lines + 1 /\ shell = "prompt" /\ real[cur] = None
    BY <1>2 DEF PayloadLine, Ends, Turn
  <2>2. session = "broken" => wire' = wire
    BY <1>2 DEF PayloadLine
  <2>3. CASE pc' = "done" /\ exit' = Error /\ sent' = sent
    <3>1. cur' = 1 /\ Kind' # "upload" => sent' = 0
      BY <1>1, <2>1 DEF Kind
    <3> QED  BY ONLY <1>1, <2>1, <2>2, <2>3, <3>1, Turn, Codes DEF Turn
  <2>4. CASE sent' = sent + 1 /\ pc' = (IF sent = Lines + 1 THEN "send" ELSE "payload") /\ exit' = exit
    <3>1. pc' = "payload" => sent' <= Lines + 1
      <4>1. sent \in Nat /\ Lines \in Nat
        BY SizeAssumption DEF TypeOK
      <4> QED  BY <2>1, <2>4, <4>1
    <3>2. pc' \in {"send", "payload"}
      BY <2>4
    <3>3. cur' = 1 /\ Kind' # "upload" => sent' = 0
      BY <1>1, <2>1 DEF Kind
    <3>4. pc' = "payload" => Kind' = "upload"
      BY <1>1, <2>1 DEF Kind
    <3> QED  BY ONLY <1>1, <2>1, <2>2, <2>4, <3>1, <3>2, <3>3, <3>4, Turn, Codes DEF Turn
  <2> QED  BY <1>2, <2>3, <2>4 DEF PayloadLine, Ends
<1>3. CASE Send
  <2>1. /\ pc = "send" /\ cur' = cur /\ UNCHANGED <<sent, real, wire, session>>
        /\ exit = None /\ shell = "prompt" /\ real[cur] = None
    BY <1>3 DEF Send, Ends, Turn
  <2>2. \/ shell' = (IF session = "open" THEN "typed" ELSE shell) /\ pc' = "read" /\ exit' = exit
        \/ session # "open" /\ pc' = "done" /\ exit' = Error /\ shell' = shell
    BY <1>3 DEF Send, Ends
  <2>3. Kind' = Kind
    BY <1>1, <2>1 DEF Kind
  <2> QED  BY <1>1, <2>1, <2>2, <2>3, Codes DEF Turn
<1>4. CASE ReadOn
  <2>1. UNCHANGED <<cur, pc, sent, exit, shell, real, session>> /\ Kind' = Kind
    BY <1>1, <1>4 DEF ReadOn, remoteVars, Kind
  <2>2. session # "broken"
    <3>1. wire # <<>>
      BY <1>4, ReadOnMoves
    <3> QED  BY <3>1 DEF Turn
  <2> QED  BY <1>1, <2>1, <2>2 DEF Turn
<1>5. CASE ReadMarker
  <2>1. /\ pc = "read" /\ session # "broken" /\ real[cur] \in Statuses /\ Reported(real[cur])
        /\ UNCHANGED <<sent, shell, real, session>>
    BY <1>5, ReadMarkerReads DEF ReadMarker, remoteVars
  <2>2. shell = "prompt" /\ exit = None
    BY <2>1, Codes DEF Turn
  <2>3. CASE pc' = "done" /\ cur' = cur /\ exit' \in Statuses \union {Error} /\ (exit' = Error \/ cur = Len(plan))
    <3>1. Kind' = Kind
      BY <1>1, <2>3 DEF Kind
    <3> QED  BY <1>1, <2>1, <2>2, <2>3, <3>1, Codes DEF Turn
  <2>4. CASE /\ Kind \notin {"run", "capture"} /\ ~(MustSucceed(Kind) /\ real[cur] # 0)
             /\ cur' = cur + 1 /\ exit' = exit /\ pc' = Start(plan[cur'])
    <3>1. cur' \in 1..Len(plan) /\ cur' \in Nat /\ cur \in Nat /\ cur < cur' /\ cur' # 1
      BY <1>1, <2>1, <2>4, ReportedWhere
    <3>2. pc' = (IF plan[cur'] = "upload" THEN "payload" ELSE "send")
      BY <2>4 DEF Start
    <3>3. real[cur'] = None
      BY <3>1 DEF Turn
    <3>4. \A i \in 1..Len(plan) : i > cur' => real[i] = None
      BY <1>1, <2>4, <3>1 DEF Turn
    <3>5. \A i \in 1..Len(plan) : i < cur' => real[i] # None /\ (MustSucceed(plan[i]) => real[i] = 0)
      <4> SUFFICES ASSUME NEW i \in 1..Len(plan), i < cur'
                   PROVE  real[i] # None /\ (MustSucceed(plan[i]) => real[i] = 0)
        OBVIOUS
      <4>1. i = cur \/ i < cur
        BY <2>4, <3>1
      <4>2. real[cur] # None /\ (MustSucceed(plan[cur]) => real[cur] = 0)
        BY <2>1, <2>4, Codes DEF Kind
      <4> QED  BY <4>1, <4>2 DEF Turn
    <3>6. pc' = "payload" => plan[cur'] = "upload" /\ sent <= Lines + 1
      <4>1. SUFFICES ASSUME plan[cur'] = "upload"  PROVE sent <= Lines + 1
        BY <3>2
      <4>2. cur = 1 /\ plan[cur] = "check"
        BY <1>1, <3>1, <4>1, PlansKnown
      <4>3. sent = 0
        BY <4>2 DEF Turn, Kind
      <4> QED  BY <4>3, SizeAssumption
    <3>7. exit' \notin Statuses /\ exit' = None /\ pc' \in {"payload", "send"}
      BY <2>2, <2>4, <3>2, Codes
    <3> QED  BY <1>1, <2>1, <2>2, <3>1, <3>3, <3>4, <3>5, <3>6, <3>7, Codes DEF Turn
  <2> QED  BY <2>1, <2>3, <2>4, ReportedWhere
<1>6. CASE ReadFails
  <2>1. /\ pc' = "done" /\ cur' = cur /\ UNCHANGED <<sent, shell, real, wire, session>> /\ session # "open"
        /\ exit' = (IF EndedEarly /\ Kind = "run" THEN 0 ELSE Error)
    BY <1>6 DEF ReadFails, Ends, remoteVars
  <2>2. exit' \in Statuses => cur = Len(plan)
    BY <1>1, <2>1, PlansKnown, Codes DEF Kind
  <2>3. exit' # None /\ Kind' = Kind
    BY <1>1, <2>1, Codes DEF Kind
  <2> QED  BY <1>1, <2>1, <2>2, <2>3 DEF Turn
<1>7. CASE Interrupt
  <2>1. /\ pc' = "done" /\ cur' = cur /\ UNCHANGED <<sent, shell, real, wire, session>> /\ exit' = Error
    BY <1>7 DEF Interrupt, Ends, remoteVars
  <2>2. Kind' = Kind
    BY <1>1, <2>1 DEF Kind
  <2> QED  BY <1>1, <2>1, <2>2, Codes DEF Turn
<1>8. CASE ShellStarts \/ CommandWrites \/ PartFails
  <2>1. /\ UNCHANGED <<cur, pc, sent, exit, real, session>> /\ session = "open" /\ Kind' = Kind
        /\ shell' = "running" /\ shell \in {"typed", "running"}
    BY <1>1, <1>8 DEF ShellStarts, CommandWrites, PartFails, clientVars, Kind
  <2> QED  BY <1>1, <2>1 DEF Turn
<1>9. CASE SessionEnds
  <2>1. /\ UNCHANGED <<cur, pc, sent, exit, shell, real>> /\ Kind' = Kind
        /\ session' # "open" /\ (session' = "broken" => wire' = <<>>)
    BY <1>1, <1>9 DEF SessionEnds, clientVars, Kind
  <2> QED  BY <1>1, <2>1 DEF Turn
<1>10. ASSUME NEW status \in Statuses, CommandEnds(status)  PROVE Turn'
  <2>1. /\ UNCHANGED <<cur, pc, sent, exit, session>> /\ session = "open" /\ Kind' = Kind
        /\ shell = "running" /\ shell' = "prompt" /\ real' = [real EXCEPT ![cur] = status]
    BY <1>1, <1>10 DEF CommandEnds, clientVars, Kind
  <2>2. real'[cur] = status /\ status # None /\ \A i \in 1..Len(plan) : i # cur => real'[i] = real[i]
    BY <1>1, <2>1, Codes
  <2>3. pc \notin {"payload", "send"}
    BY <2>1 DEF Turn
  <2>4. \A i \in 1..Len(plan) : i > cur => i # cur
    BY <1>1
  <2>5. \A i \in 1..Len(plan) : i < cur => i # cur
    BY <1>1
  <2> QED  BY <1>1, <2>1, <2>2, <2>3, <2>4, <2>5 DEF Turn
<1>11. CASE UNCHANGED vars
  <2>1. UNCHANGED <<cur, pc, sent, exit, shell, real, session, wire>> /\ Kind' = Kind
    BY <1>1, <1>11 DEF vars, clientVars, remoteVars, Kind
  <2> QED  BY <1>1, <2>1 DEF Turn
<1> QED  BY <1>2, <1>3, <1>4, <1>5, <1>6, <1>7, <1>8, <1>9, <1>10, <1>11 DEF Next

LEMMA Effects ==
  ASSUME TypeOK, Turn, Silent, Speaking, Over, Done, [Next]_vars
  PROVE  Done'
<1>1. /\ plan' = plan /\ cur \in 1..Len(plan) /\ real \in [1..Len(plan) -> Statuses \union {None}]
  BY PlanKept, Parts DEF TypeOK
<1>2. CASE PayloadLine \/ Send \/ ReadOn \/ ReadFails \/ Interrupt \/ SessionEnds \/ UNCHANGED vars
  <2>1. UNCHANGED <<cur, dest, real, whole, produced>>
    BY <1>2 DEF PayloadLine, Send, ReadOn, ReadFails, Interrupt, SessionEnds, Ends, vars, clientVars,
                remoteVars
  <2> QED  BY <1>1, <2>1 DEF Done, Kind
<1>3. CASE ReadMarker
  <2>1. UNCHANGED <<dest, real, whole, produced>> /\ pc = "read" /\ real[cur] \in Statuses /\ Reported(real[cur])
    BY <1>3, ReadMarkerReads DEF ReadMarker, remoteVars
  <2>2. cur' \in 1..Len(plan) /\ (cur' = cur \/ cur' = cur + 1)
    BY <2>1, ReportedWhere
  <2>3. cur' = cur + 1 => real[cur'] = None
    BY <1>1, <2>2 DEF Turn
  <2> QED  BY <1>1, <2>1, <2>2, <2>3, Codes DEF Done, Kind
<1>4. CASE ShellStarts \/ CommandWrites \/ PartFails
  <2>1. UNCHANGED <<cur, dest, real>> /\ shell \in {"typed", "running"}
    BY <1>4 DEF ShellStarts, CommandWrites, PartFails, clientVars
  <2>2. real[cur] = None
    BY <2>1 DEF Turn
  <2> QED  BY <1>1, <2>1, <2>2, Codes DEF Done, Kind
<1>5. ASSUME NEW status \in Statuses, CommandEnds(status)  PROVE Done'
  <2>1. UNCHANGED <<cur, whole, produced>> /\ Works(status) /\ real' = [real EXCEPT ![cur] = status]
    BY <1>5 DEF CommandEnds, clientVars
  <2>2. real'[cur] = status /\ \A i \in 1..Len(plan) : i # cur => real'[i] = real[i]
    BY <1>1, <2>1
  <2>3. dest' = dest \/ dest' = Lines
    BY <2>1 DEF Works, Verified
  <2>4. Kind = "upload" /\ status = 0 => dest' = Lines
    BY <2>1 DEF Works, Verified
  <2>5. Kind \in {"run", "capture"} /\ status = 0 => ~whole \/ produced = Data
    BY <2>1 DEF Works
  <2> QED  BY <1>1, <2>1, <2>2, <2>3, <2>4, <2>5 DEF Done, Kind
<1> QED  BY <1>2, <1>3, <1>4, <1>5 DEF Next

-----------------------------------------------------------------------------
(* The stream, step by step.                                               *)

\* Steps that leave the stream and the command as they are.
LEMMA StreamSame ==
  ASSUME TypeOK, StreamInv, UNCHANGED <<plan, cur, pc, sunk, pending, wire, shell, whole, produced, real>>,
         session' # "broken" => session # "broken"
  PROVE  StreamInv'
<1>1. All' = All /\ Wrote' = Wrote /\ Kind' = Kind
  BY DEF All, Wrote, Kind
<1>2. \A h, q : Laid(All, h, q)' <=> Laid(All, h, q)
  BY <1>1 DEF Laid, Token
<1>3. \A h : Closed(All, h + Wrote)' <=> Closed(All, h + Wrote)
  BY <1>1 DEF Closed, Marker, Token
<1>4. Silent'
  BY <1>1 DEF StreamInv, Silent, Quiet
<1>5. Speaking'
  BY <1>1, <1>2 DEF StreamInv, Speaking
<1>6. Over'
  BY <1>1, <1>2, <1>3 DEF StreamInv, Over
<1> QED  BY <1>4, <1>5, <1>6 DEF StreamInv

LEMMA SilentSteps ==
  ASSUME TypeOK, Turn, StreamInv, [Next]_vars
  PROVE  Silent'
<1>0. /\ Silent /\ Speaking /\ Over /\ cur \in 1..Len(plan) /\ wire \in Seq(Tokens) /\ Len(wire) \in Nat
      /\ real \in [1..Len(plan) -> Statuses \union {None}]
  BY Parts DEF StreamInv, TypeOK
<1>1. CASE PayloadLine
  <2>1. /\ pc = "payload" /\ pc' # "read" /\ UNCHANGED <<sunk, pending>>
        /\ wire' = wire \/ wire' = wire \o <<Token("echo", cur, 0)>>
    BY <1>1 DEF PayloadLine, Says, Ends
  <2>2. CASE wire' = wire
    BY <1>0, <2>1, <2>2 DEF Silent, Quiet
  <2>3. CASE wire' = wire \o <<Token("echo", cur, 0)>>
    <3>1. PICK t : t = <<Token("echo", cur, 0)>>
      OBVIOUS
    <3>2. t \in Seq(Tokens) /\ Len(t) = 1 /\ t[1] = Token("echo", cur, 0)
      BY <1>0, <3>1, Tokened DEF Kinds
    <3>3. /\ Len(wire') = Len(wire) + Len(t)
          /\ \A j \in 1..Len(wire) : wire'[j] = wire[j]
          /\ \A j \in 1..Len(t) : wire'[Len(wire) + j] = t[j]
      BY <2>1, <2>3, <3>1, <3>2, Heard
    <3>4. Quiet(t[1])
      BY <3>2, TokenParts DEF Quiet
    <3>5. ASSUME NEW j \in 1..Len(wire')  PROVE Quiet(wire'[j])
      <4>1. CASE j \in 1..Len(wire)
        BY <1>0, <2>1, <3>3, <4>1 DEF Silent
      <4>2. CASE j = Len(wire) + 1
        <5>1. 1 \in 1..Len(t)
          BY <3>2
        <5> QED  BY <3>3, <3>4, <4>2, <5>1
      <4> QED  BY <1>0, <3>2, <3>3, <4>1, <4>2
    <3> QED  BY <2>1, <3>5 DEF Silent, Quiet
  <2> QED  BY <2>1, <2>2, <2>3
<1>2. CASE Send
  <2>1. pc = "send" /\ wire' = wire /\ sunk' = <<>> /\ pending' = <<>> /\ pc' \in {"read", "done"}
    BY <1>2 DEF Send, Ends
  <2>2. All' = wire
    BY <1>0, <2>1, ConcatEmptySeq DEF All
  <2> QED  BY <1>0, <2>1, <2>2 DEF Silent, Quiet
<1>3. CASE ReadOn
  <2>1. UNCHANGED <<cur, pc, shell, real, session>> /\ pc = "read" /\ All' = All
    BY <1>3, ReadOnMoves DEF ReadOn, remoteVars
  <2> QED  BY <1>0, <2>1 DEF Silent, Quiet
<1>4. CASE ReadMarker
  <2>1. /\ pc = "read" /\ real[cur] \in Statuses /\ Reported(real[cur])
        /\ \A j \in 1..Len(wire') : Quiet(wire'[j])
    BY <1>0, <1>4, ReadMarkerReads
  <2>2. pc' = "done" \/ pc' = Start(plan[cur'])
    BY <2>1, ReportedWhere
  <2>3. pc' # "read"
    BY <2>2 DEF Start
  <2> QED  BY <2>1, <2>3 DEF Silent, Quiet
<1>5. CASE ReadFails \/ Interrupt
  <2>1. pc' = "done"
    BY <1>5 DEF ReadFails, Interrupt, Ends
  <2> QED  BY <2>1 DEF Silent
<1>6. CASE ShellStarts \/ CommandWrites \/ PartFails
  <2>1. UNCHANGED <<cur, pc, real, session>> /\ shell' = "running" /\ shell \in {"typed", "running"}
    BY <1>6 DEF ShellStarts, CommandWrites, PartFails, clientVars
  <2>2. pc' \notin {"payload", "send"}
    BY <2>1 DEF Turn
  <2> QED  BY <2>1, <2>2 DEF Silent
<1>7. ASSUME NEW status \in Statuses, CommandEnds(status)  PROVE Silent'
  <2>1. UNCHANGED <<cur, pc, session>> /\ shell = "running" /\ real' = [real EXCEPT ![cur] = status]
    BY <1>7 DEF CommandEnds, clientVars
  <2>2. pc' \notin {"payload", "send"} /\ real'[cur'] # None
    BY <1>0, <2>1, Codes DEF Turn
  <2> QED  BY <2>2 DEF Silent
<1>8. CASE SessionEnds
  <2>1. UNCHANGED <<cur, pc, shell, real, sunk, pending>> /\ session = "open"
    BY <1>8 DEF SessionEnds, clientVars
  <2>2. CASE session' = "closed" /\ wire' = wire
    <3>1. All' = All
      BY <2>1, <2>2 DEF All
    <3> QED  BY <1>0, <2>1, <2>2, <3>1 DEF Silent, Quiet
  <2>3. CASE session' = "broken" /\ wire' = <<>>
    BY <2>3 DEF Silent
  <2> QED  BY <1>8, <2>2, <2>3 DEF SessionEnds
<1>9. CASE UNCHANGED vars
  <2>1. UNCHANGED <<cur, pc, shell, real, sunk, pending, wire, session>>
    BY <1>9 DEF vars, clientVars, remoteVars
  <2>2. All' = All
    BY <2>1 DEF All
  <2> QED  BY <1>0, <2>1, <2>2 DEF Silent, Quiet
<1> QED  BY <1>1, <1>2, <1>3, <1>4, <1>5, <1>6, <1>7, <1>8, <1>9 DEF Next

\* The command starts: what came before it is the head of the stream.
LEMMA StartLaid ==
  ASSUME TypeOK, Turn, StreamInv, ShellStarts, pc = "read"
  PROVE  \E h \in 0..Len(All'), q \in 0..produced' : Laid(All, h, q)' /\ Len(All') = h + Wrote'
<1>1. /\ UNCHANGED <<plan, cur>> /\ session = "open" /\ shell = "typed" /\ produced' = 0 /\ whole' = TRUE
      /\ Silent /\ plan' = plan /\ cur' = cur
  BY DEF ShellStarts, clientVars, StreamInv
<1>2. PICK t \in Seq(Tokens) :
        /\ wire' = wire \o t /\ UNCHANGED <<sunk, pending, payload>>
        /\ t[1] = Token("echo", cur, 0)
        /\ Len(t) = IF Kind = "capture" THEN 2 ELSE 1
        /\ Kind = "capture" => t[2] = Token("begin", cur, 0)
  BY Saying
<1>3. /\ Len(All') = Len(All) + Len(t) /\ Len(All) \in Nat
      /\ \A j \in 1..Len(All) : All'[j] = All[j]
      /\ \A j \in 1..Len(t) : All'[Len(All) + j] = t[j]
  BY <1>2, Heard
<1>4. real[cur] = None
  BY <1>1 DEF Turn
<1>5. \A j \in 1..Len(All) : Quiet(All[j])
  BY <1>1, <1>4 DEF Silent
<1>6. Quiet(t[1])
  BY <1>2, TokenParts DEF Quiet
<1>7. PICK h : h = Len(All')
  OBVIOUS
<1>8. Len(t) \in {1, 2} /\ h \in Nat /\ h = Len(All) + Len(t) /\ h > 0
  BY <1>2, <1>3, <1>7
<1>9. All'[Len(All) + 1] = t[1]
  BY <1>3, <1>8
<1>10. Kind = "capture" => h = Len(All) + 2 /\ All'[h] = Token("begin", cur, 0)
  <2>1. SUFFICES ASSUME Kind = "capture"  PROVE h = Len(All) + 2 /\ All'[h] = Token("begin", cur, 0)
    OBVIOUS
  <2>2. Len(t) = 2 /\ h = Len(All) + 2 /\ 2 \in 1..Len(t)
    BY <1>2, <1>8, <2>1
  <2> QED  BY <1>2, <1>3, <2>1, <2>2
<1>11. ASSUME NEW j \in 1..h  PROVE Quiet(All'[j]) \/ (j = h /\ All'[j] = Token("begin", cur, 0))
  <2>1. CASE j \in 1..Len(All)
    BY <1>3, <1>5, <2>1
  <2>2. CASE j = Len(All) + 1
    BY <1>6, <1>9, <2>2
  <2>3. CASE j = Len(All) + 2
    <3>1. Len(t) = 2
      BY <1>3, <1>8, <2>3
    <3>2. Kind = "capture"
      BY <1>2, <3>1
    <3> QED  BY <1>10, <2>3, <3>2
  <2> QED  BY <1>3, <1>8, <2>1, <2>2, <2>3
<1>12. Wrote' = 0
  <2>1. (IF whole' THEN 0 ELSE 1) = 0
    BY <1>1
  <2> QED  BY <1>1, <2>1 DEF Wrote
<1>13. Kind' = Kind
  BY <1>1 DEF Kind
<1>14. h + Wrote' <= Len(All') /\ Len(All') = h + Wrote'
  BY <1>7, <1>8, <1>12
<1>15. Laid(All, h, 0)'
  <2>1. \A j \in 1..h : Quiet(All'[j]) \/ (j = h /\ All'[j] = Token("begin", cur', 0))
    BY <1>1, <1>11 DEF Quiet
  <2>2. Kind' = "capture" => h > 0 /\ All'[h] = Token("begin", cur', 0)
    BY <1>1, <1>8, <1>10, <1>13
  <2>3. 1..produced' = {}
    BY <1>1
  <2>4. whole' /\ 0 = produced'
    BY <1>1
  <2> QED  BY <1>14, <2>1, <2>2, <2>3, <2>4 DEF Laid, Quiet, Token
<1> QED  BY <1>1, <1>7, <1>8, <1>14, <1>15

\* A token more at the end of what the command wrote.
LEMMA TokenHeard ==
  ASSUME TypeOK, UNCHANGED <<sunk, pending>>, NEW t \in Seq(Tokens), wire' = wire \o t, Len(t) = 1,
         NEW h \in Nat, NEW q \in 0..produced, Laid(All, h, q), Len(All) = h + Wrote
  PROVE  /\ Len(All') = h + Wrote + 1 /\ All'[h + Wrote + 1] = t[1]
         /\ \A j \in 1..h : Quiet(All'[j]) \/ (j = h /\ All'[j] = Token("begin", cur, 0))
         /\ Kind = "capture" => h > 0 /\ All'[h] = Token("begin", cur, 0)
         /\ \A k \in 1..produced : All'[h + Place(k, q)] = Token("data", cur, k)
         /\ ~whole => All'[h + q + 1] = Token("noise", cur, 0)
<1>1. /\ Len(All') = Len(All) + Len(t) /\ \A j \in 1..Len(All) : All'[j] = All[j]
      /\ \A j \in 1..Len(t) : All'[Len(All) + j] = t[j]
  BY Heard
<1>2. Wrote \in Nat
  BY Parts
<1>3. Laid(All', h, q)
  <2>1. h + Wrote <= Len(All') /\ \A j \in 1..h + Wrote : All'[j] = All[j]
    BY <1>1, <1>2
  <2> QED  BY <2>1, LaidSame
<1>4. All'[h + Wrote + 1] = t[1] /\ Len(All') = h + Wrote + 1
  BY <1>1, <1>2
<1> QED  BY <1>3, <1>4 DEF Laid

LEMMA WriteLaid ==
  ASSUME TypeOK, StreamInv, CommandWrites, pc = "read"
  PROVE  \E h \in 0..Len(All'), q \in 0..produced' : Laid(All, h, q)' /\ Len(All') = h + Wrote'
<1>1. /\ plan' = plan /\ cur' = cur /\ session = "open" /\ shell = "running" /\ produced' = produced + 1
      /\ whole' = whole /\ Speaking
  BY DEF CommandWrites, clientVars, StreamInv
<1>2. PICK t \in Seq(Tokens) :
        /\ wire' = wire \o t /\ UNCHANGED <<sunk, pending, payload>>
        /\ Len(t) = 1 /\ t[1] = Token("data", cur, produced + 1)
  BY Saying
<1>3. PICK h \in 0..Len(All), q \in 0..produced : Laid(All, h, q) /\ Len(All) = h + Wrote
  BY <1>1 DEF Speaking
<1>4. h \in Nat /\ q \in Nat /\ q <= produced /\ produced \in Nat /\ Wrote \in Nat /\ (whole => q = produced)
  BY <1>3, Parts DEF Laid
<1>5. /\ Len(All') = h + Wrote + 1 /\ All'[h + Wrote + 1] = t[1]
      /\ \A j \in 1..h : Quiet(All'[j]) \/ (j = h /\ All'[j] = Token("begin", cur, 0))
      /\ Kind = "capture" => h > 0 /\ All'[h] = Token("begin", cur, 0)
      /\ \A k \in 1..produced : All'[h + Place(k, q)] = Token("data", cur, k)
      /\ ~whole => All'[h + q + 1] = Token("noise", cur, 0)
  BY <1>2, <1>3, <1>4, TokenHeard
<1>6. Kind' = Kind
  BY <1>1 DEF Kind
<1>7. Wrote' = Wrote + 1
  <2>1. CASE whole
    <3>1. Wrote = produced /\ (IF whole' THEN 0 ELSE 1) = 0
      BY <1>1, <2>1, Parts
    <3>2. Wrote' = produced' + 0
      BY <3>1 DEF Wrote
    <3> QED  BY <1>1, <1>4, <3>1, <3>2
  <2>2. CASE ~whole
    <3>1. Wrote = produced + 1 /\ (IF whole' THEN 0 ELSE 1) = 1
      BY <1>1, <2>2, Parts
    <3>2. Wrote' = produced' + 1
      BY <3>1 DEF Wrote
    <3> QED  BY <1>1, <1>4, <3>1, <3>2
  <2> QED  BY <2>1, <2>2
<1>8. PICK r : r = IF whole THEN q + 1 ELSE q
  OBVIOUS
<1>9. r \in 0..produced' /\ (whole' => r = produced')
  BY <1>1, <1>4, <1>8
<1>10. ASSUME NEW k \in 1..produced'  PROVE All'[h + Place(k, r)] = Token("data", cur, k)
  <2>1. CASE k \in 1..produced
    <3>1. CASE whole
      <4>1. k <= q /\ k <= r
        BY <1>4, <1>8, <2>1, <3>1
      <4>2. Place(k, r) = Place(k, q)
        BY <4>1 DEF Place
      <4> QED  BY <1>5, <2>1, <4>2
    <3>2. CASE ~whole
      BY <1>5, <1>8, <2>1, <3>2
    <3> QED  BY <3>1, <3>2
  <2>2. CASE k = produced + 1
    <3>1. h + Place(k, r) = h + Wrote + 1
      <4>1. CASE whole
        <5>1. k <= r /\ Wrote = produced
          BY <1>4, <1>8, <2>2, <4>1, Parts
        <5>2. Place(k, r) = k
          BY <5>1 DEF Place
        <5> QED  BY <1>4, <2>2, <5>1, <5>2
      <4>2. CASE ~whole
        <5>1. ~(k <= r) /\ Wrote = produced + 1
          BY <1>4, <1>8, <2>2, <4>2, Parts
        <5>2. Place(k, r) = k + 1
          BY <5>1 DEF Place
        <5> QED  BY <1>4, <2>2, <5>1, <5>2
      <4> QED  BY <4>1, <4>2
    <3> QED  BY <1>2, <1>5, <2>2, <3>1
  <2> QED  BY <1>1, <1>4, <2>1, <2>2
<1>11. Len(All') = h + Wrote' /\ h + Wrote' <= Len(All') /\ h \in 0..Len(All')
  BY <1>4, <1>5, <1>7
<1>12. ~whole' => All'[h + r + 1] = Token("noise", cur, 0)
  BY <1>1, <1>5, <1>8
<1>13. Laid(All, h, r)'
  <2>1. \A j \in 1..h : Quiet(All'[j]) \/ (j = h /\ All'[j] = Token("begin", cur', 0))
    BY <1>1, <1>5
  <2>2. Kind' = "capture" => h > 0 /\ All'[h] = Token("begin", cur', 0)
    BY <1>1, <1>5, <1>6
  <2>3. \A k \in 1..produced' : All'[h + Place(k, r)] = Token("data", cur', k)
    BY <1>1, <1>10
  <2>4. ~whole' => All'[h + r + 1] = Token("noise", cur', 0)
    BY <1>1, <1>12
  <2> QED  BY <1>9, <1>11, <2>1, <2>2, <2>3, <2>4 DEF Laid, Quiet, Token, Place
<1> QED  BY <1>9, <1>11, <1>13

LEMMA FailLaid ==
  ASSUME TypeOK, StreamInv, PartFails, pc = "read"
  PROVE  \E h \in 0..Len(All'), q \in 0..produced' : Laid(All, h, q)' /\ Len(All') = h + Wrote'
<1>1. /\ plan' = plan /\ cur' = cur /\ session = "open" /\ shell = "running" /\ produced' = produced
      /\ whole /\ whole' = FALSE /\ Speaking
  BY DEF PartFails, clientVars, StreamInv
<1>2. PICK t \in Seq(Tokens) :
        /\ wire' = wire \o t /\ UNCHANGED <<sunk, pending, payload>>
        /\ Len(t) = 1 /\ t[1] = Token("noise", cur, 0)
  BY Saying
<1>3. PICK h \in 0..Len(All), q \in 0..produced : Laid(All, h, q) /\ Len(All) = h + Wrote
  BY <1>1 DEF Speaking
<1>4. h \in Nat /\ produced \in Nat /\ q = produced /\ Wrote = produced
  BY <1>1, <1>3, Parts DEF Laid
<1>5. /\ Len(All') = h + Wrote + 1 /\ All'[h + Wrote + 1] = t[1]
      /\ \A j \in 1..h : Quiet(All'[j]) \/ (j = h /\ All'[j] = Token("begin", cur, 0))
      /\ Kind = "capture" => h > 0 /\ All'[h] = Token("begin", cur, 0)
      /\ \A k \in 1..produced : All'[h + Place(k, q)] = Token("data", cur, k)
  BY <1>2, <1>3, <1>4, TokenHeard
<1>6. Kind' = Kind
  BY <1>1 DEF Kind
<1>7. Wrote' = produced + 1
  <2>1. (IF whole' THEN 0 ELSE 1) = 1
    BY <1>1
  <2> QED  BY <1>1, <2>1 DEF Wrote
<1>8. Len(All') = h + Wrote' /\ h + Wrote' <= Len(All') /\ h \in 0..Len(All') /\ q \in 0..produced'
  BY <1>1, <1>4, <1>5, <1>7
<1>9. All'[h + q + 1] = Token("noise", cur', 0)
  BY <1>1, <1>2, <1>4, <1>5
<1>10. Laid(All, h, q)'
  <2>1. \A j \in 1..h : Quiet(All'[j]) \/ (j = h /\ All'[j] = Token("begin", cur', 0))
    BY <1>1, <1>5
  <2>2. Kind' = "capture" => h > 0 /\ All'[h] = Token("begin", cur', 0)
    BY <1>1, <1>5, <1>6
  <2>3. \A k \in 1..produced' : All'[h + Place(k, q)] = Token("data", cur', k)
    BY <1>1, <1>5
  <2>4. ~whole'
    BY <1>1
  <2> QED  BY <1>8, <1>9, <2>1, <2>2, <2>3, <2>4 DEF Laid, Quiet, Token, Place
<1> QED  BY <1>8, <1>10

\* The command ends: its marker and the prompt close the stream.
LEMMA EndClosed ==
  ASSUME TypeOK, StreamInv, NEW status \in Statuses, CommandEnds(status), pc = "read"
  PROVE  \E h \in 0..Len(All'), q \in 0..produced' :
           /\ Laid(All, h, q)' /\ Closed(All, h + Wrote)'
           /\ Len(sunk') <= h + Wrote' /\ Len(sunk') + Len(pending') < h + Wrote' + MarkerParts
<1>1. /\ plan' = plan /\ cur' = cur /\ session = "open" /\ shell = "running" /\ produced' = produced
      /\ whole' = whole /\ real' = [real EXCEPT ![cur] = status] /\ Speaking
  BY DEF CommandEnds, clientVars, StreamInv
<1>2. PICK t \in Seq(Tokens) :
        /\ wire' = wire \o t /\ UNCHANGED <<sunk, pending, payload>>
        /\ Len(t) = MarkerParts + 1
        /\ \A k \in 1..MarkerParts : t[k] = Marker(cur, status)[k]
        /\ t[MarkerParts + 1] = Token("prompt", cur, 0)
  BY Saying
<1>3. PICK h \in 0..Len(All), q \in 0..produced : Laid(All, h, q) /\ Len(All) = h + Wrote
  BY <1>1 DEF Speaking
<1>4. h \in Nat /\ Wrote \in Nat /\ MarkerParts \in Nat \ {0}
  BY Parts, KeepAssumption
<1>5. /\ Len(All') = Len(All) + Len(t)
      /\ \A j \in 1..Len(All) : All'[j] = All[j]
      /\ \A j \in 1..Len(t) : All'[Len(All) + j] = t[j]
  BY <1>2, Heard
<1>6. PICK e : e = h + Wrote
  OBVIOUS
<1>7. Len(All') = e + MarkerParts + 1 /\ Len(All) = e /\ e \in Nat
  BY <1>2, <1>3, <1>4, <1>5, <1>6
<1>8. Laid(All', h, q)
  <2>1. h + Wrote <= Len(All') /\ \A j \in 1..h + Wrote : All'[j] = All[j]
    BY <1>3, <1>4, <1>5, <1>6, <1>7
  <2> QED  BY <1>3, <1>4, <2>1, LaidSame
<1>9. Wrote' = Wrote /\ Kind' = Kind
  BY <1>1 DEF Wrote, Kind
<1>10. Laid(All, h, q)'
  BY <1>1, <1>8, <1>9 DEF Laid, Quiet, Token, Place
<1>11. real'[cur] = status
  BY <1>1, Parts DEF TypeOK
<1>12. \A k \in 1..MarkerParts : All'[e + k] = Marker(cur, status)[k]
  BY <1>2, <1>4, <1>5, <1>7
<1>13. \A j \in e + MarkerParts + 1..Len(All') : Quiet(All'[j])
  <2> SUFFICES ASSUME NEW j \in e + MarkerParts + 1..Len(All')  PROVE Quiet(All'[j])
    OBVIOUS
  <2>0. Len(t) = MarkerParts + 1
    BY <1>2
  <2>a. MarkerParts + 1 \in 1..Len(t)
    BY ONLY <1>4, <2>0
  <2>b. j \in e + MarkerParts + 1..e + MarkerParts + 1
    BY <1>7
  <2>1. j = e + (MarkerParts + 1) /\ MarkerParts + 1 \in 1..Len(t)
    BY ONLY <1>4, <1>7, <2>a, <2>b
  <2>2. All'[e + (MarkerParts + 1)] = t[MarkerParts + 1]
    BY <1>5, <1>7, <2>1
  <2> QED  BY <1>2, <2>1, <2>2, TokenParts DEF Quiet
<1>14. Closed(All, h + Wrote)'
  <2>1. h + Wrote' = e
    BY <1>6, <1>9
  <2>2. e + MarkerParts <= Len(All')
    BY <1>4, <1>7
  <2> QED  BY <1>1, <1>11, <1>12, <1>13, <2>1, <2>2 DEF Closed, Quiet, Marker, Token
<1>15. Len(sunk') <= h + Wrote' /\ Len(sunk') + Len(pending') < h + Wrote' + MarkerParts
  <2>1. Len(All) = Len(sunk) + (Len(pending) + Len(wire))
    <3>1. sunk \in Seq(Tokens) /\ pending \o wire \in Seq(Tokens) /\ Len(pending \o wire) = Len(pending) + Len(wire)
      BY Parts, ConcatProperties
    <3> QED  BY <3>1, ConcatProperties DEF All
  <2>2. Len(sunk) \in Nat /\ Len(pending) \in Nat /\ Len(wire) \in Nat
    BY Parts
  <2>3. Len(sunk) <= e /\ Len(sunk) + Len(pending) < e + MarkerParts
    BY <1>4, <1>7, <2>1, <2>2
  <2> QED  BY <1>2, <1>6, <1>9, <2>3
<1>16. h \in 0..Len(All') /\ q \in 0..produced'
  BY <1>1, <1>4, <1>6, <1>7
<1> QED  BY <1>6, <1>9, <1>10, <1>14, <1>15, <1>16

LEMMA StreamSteps ==
  ASSUME TypeOK, Turn, StreamInv, [Next]_vars
  PROVE  StreamInv'
<1>1. /\ Silent /\ Speaking /\ Over /\ Silent' /\ plan' = plan /\ cur \in 1..Len(plan)
      /\ real \in [1..Len(plan) -> Statuses \union {None}]
  BY SilentSteps, PlanKept, Parts DEF StreamInv, TypeOK
<1>2. SUFFICES Speaking' /\ Over'
  BY <1>1 DEF StreamInv
<1>3. CASE PayloadLine \/ ReadMarker \/ ReadFails \/ Interrupt
  <2>1. pc' # "read"
    <3>1. CASE PayloadLine \/ ReadFails \/ Interrupt
      BY <3>1 DEF PayloadLine, ReadFails, Interrupt, Ends
    <3>2. CASE ReadMarker
      <4>1. pc = "read" /\ real[cur] \in Statuses /\ Reported(real[cur])
        BY <1>1, <3>2, ReadMarkerReads
      <4>2. pc' = "done" \/ pc' = Start(plan[cur'])
        BY <4>1, ReportedWhere
      <4> QED  BY <4>2 DEF Start
    <3> QED  BY <1>3, <3>1, <3>2
  <2> QED  BY <2>1 DEF Speaking, Over
<1>4. CASE Send
  <2>1. /\ pc = "send" /\ cur' = cur /\ real' = real
        /\ (pc' = "done" \/ shell' = (IF session = "open" THEN "typed" ELSE shell))
    BY <1>4 DEF Send, Ends
  <2>2. shell = "prompt" /\ real[cur] = None
    BY <2>1 DEF Turn
  <2>3. real'[cur'] = None /\ (pc' = "done" \/ shell' # "running")
    BY <2>1, <2>2
  <2> QED  BY <2>3 DEF Speaking, Over
<1>5. CASE ReadOn
  <2>1. UNCHANGED <<plan, cur, pc, shell, whole, produced, real, session>> /\ pc = "read"
    BY <1>5 DEF ReadOn, remoteVars
  <2>2. All' = All
    BY <1>5, ReadOnMoves
  <2>3. Wrote' = Wrote /\ Kind' = Kind
    BY <2>1 DEF Wrote, Kind
  <2>4. \A h, q : Laid(All, h, q)' <=> Laid(All, h, q)
    BY <2>1, <2>2, <2>3 DEF Laid, Token
  <2>5. \A h : Closed(All, h + Wrote)' <=> Closed(All, h + Wrote)
    BY <2>1, <2>2, <2>3 DEF Closed, Marker, Token
  <2>6. Speaking'
    BY <1>1, <2>1, <2>2, <2>3, <2>4 DEF Speaking
  <2>7. ASSUME real'[cur'] # None, session' # "broken"
        PROVE  \E h \in 0..Len(All'), q \in 0..produced' :
                 /\ Laid(All, h, q)' /\ Closed(All, h + Wrote)'
                 /\ Len(sunk') <= h + Wrote' /\ Len(sunk') + Len(pending') < h + Wrote' + MarkerParts
    <3>1. PICK h \in 0..Len(All), q \in 0..produced :
            /\ Laid(All, h, q) /\ Closed(All, h + Wrote)
            /\ Len(sunk) <= h + Wrote /\ Len(sunk) + Len(pending) < h + Wrote + MarkerParts
      BY <1>1, <2>1, <2>7 DEF Over
    <3>2. PICK e : e = h + Wrote
      OBVIOUS
    <3>3. real[cur] \in Statuses
      BY <1>1, <2>1, <2>7
    <3>4. /\ e + MarkerParts <= Len(All) /\ Len(sunk) <= e
          /\ \A k \in 1..MarkerParts : All[e + k] = Marker(cur, real[cur])[k]
      BY <3>1, <3>2 DEF Closed
    <3>5. e \in Nat
      BY <3>2, Parts
    <3>6. Len(sunk') <= e /\ Len(sunk') + Len(pending') < e + MarkerParts
      BY <1>5, <3>3, <3>4, <3>5, ReadOnMoves
    <3> QED  BY <2>1, <2>2, <2>3, <2>4, <2>5, <3>1, <3>2, <3>6
  <2> QED  BY <2>6, <2>7 DEF Over
<1>6. CASE ShellStarts \/ CommandWrites \/ PartFails
  <2>1. UNCHANGED <<cur, pc, real, session>> /\ shell \in {"typed", "running"}
    BY <1>6 DEF ShellStarts, CommandWrites, PartFails, clientVars
  <2>2. real'[cur'] = None
    BY <2>1 DEF Turn
  <2>3. pc = "read" =>
          \E h \in 0..Len(All'), q \in 0..produced' : Laid(All, h, q)' /\ Len(All') = h + Wrote'
    BY <1>6, StartLaid, WriteLaid, FailLaid
  <2> QED  BY <2>1, <2>2, <2>3 DEF Speaking, Over
<1>7. ASSUME NEW status \in Statuses, CommandEnds(status)  PROVE Speaking' /\ Over'
  <2>1. pc' = pc /\ shell' = "prompt"
    BY <1>7 DEF CommandEnds, clientVars
  <2>2. pc = "read" =>
          \E h \in 0..Len(All'), q \in 0..produced' :
            /\ Laid(All, h, q)' /\ Closed(All, h + Wrote)'
            /\ Len(sunk') <= h + Wrote' /\ Len(sunk') + Len(pending') < h + Wrote' + MarkerParts
    BY <1>7, EndClosed
  <2> QED  BY <2>1, <2>2 DEF Speaking, Over
<1>8. CASE SessionEnds
  <2>1. /\ UNCHANGED <<plan, cur, pc, sunk, pending, shell, whole, produced, real>> /\ session = "open"
        /\ session' = "broken" \/ wire' = wire
    BY <1>8 DEF SessionEnds, clientVars
  <2>2. CASE session' = "broken"
    BY <2>2 DEF Speaking, Over
  <2>3. CASE wire' = wire
    <3>1. StreamInv'
      BY <2>1, <2>3, StreamSame
    <3> QED  BY <3>1 DEF StreamInv
  <2> QED  BY <2>1, <2>2, <2>3
<1>9. CASE UNCHANGED vars
  <2>1. StreamInv'
    BY <1>9, StreamSame DEF vars, clientVars, remoteVars
  <2> QED  BY <2>1 DEF StreamInv
<1> QED  BY <1>3, <1>4, <1>5, <1>6, <1>7, <1>8, <1>9 DEF Next

-----------------------------------------------------------------------------
(* What the process says when it ends.                                     *)

\* A session that is over and has been read to its end without a marker has
\* closed, or broken, before the status was written.
LEMMA NoStatusLost ==
  ASSUME TypeOK, Over, pc = "read", wire = <<>>, session # "broken"
  PROVE  real[cur] = None
<1>1. SUFFICES ASSUME real[cur] # None  PROVE FALSE
  OBVIOUS
<1>2. PICK h \in 0..Len(All), q \in 0..produced :
        Closed(All, h + Wrote) /\ Len(sunk) + Len(pending) < h + Wrote + MarkerParts
  BY <1>1 DEF Over
<1>3. h + Wrote + MarkerParts <= Len(All)
  BY <1>2 DEF Closed
<1>4. Len(All) = Len(sunk) + Len(pending)
  <2>1. sunk \in Seq(Tokens) /\ pending \in Seq(Tokens) /\ pending \o wire = pending
    BY Parts, ConcatEmptySeq
  <2> QED  BY <2>1, ConcatProperties DEF All
<1>5. Len(sunk) \in Nat /\ Len(pending) \in Nat /\ Wrote \in Nat /\ MarkerParts \in Nat /\ h \in Nat
  BY <1>4, Parts, KeepAssumption
<1> QED  BY ONLY <1>2, <1>3, <1>4, <1>5

\* Everything before the last command has done what it must.
LEMMA EarlierDone ==
  ASSUME TypeOK, Turn, NEW i \in 1..Len(plan), i < cur
  PROVE  \/ plan[i] = "check" /\ real[i] # None
         \/ plan[i] \in {"upload", "extract", "capture"} /\ real[i] = 0
<1>1. real[i] # None /\ (MustSucceed(plan[i]) => real[i] = 0)
  BY DEF Turn
<1>2. plan[i] \in {"run", "upload", "check", "extract", "capture"} /\ (plan[i] \in {"run", "capture"} => i = Len(plan))
  BY Parts, PlansKnown
<1>3. i # Len(plan)
  BY Parts
<1> QED  BY <1>1, <1>2, <1>3 DEF MustSucceed

LEMMA Outcomes ==
  ASSUME ExecInv, [Next]_vars
  PROVE  HandedOn' /\ StatusIsTrue' /\ Copied'
<1>1. /\ TypeOK /\ Turn /\ Done /\ Silent /\ Speaking /\ Over /\ HandedOn /\ StatusIsTrue /\ Copied
      /\ plan' = plan /\ plan \in Plans /\ cur \in 1..Len(plan)
  BY PlanKept, Parts DEF ExecInv, StreamInv
<1>2. SUFFICES ASSUME exit' \in Statuses  PROVE HandedOn' /\ StatusIsTrue' /\ Copied'
  BY Codes DEF HandedOn, StatusIsTrue, Copied
<1>3. pc # "done" => exit = None
  BY <1>1 DEF Turn
<1>4. CASE PayloadLine \/ Send \/ ReadOn \/ Interrupt
  <2>1. exit' \in {exit, Error} /\ pc # "done"
    BY <1>4 DEF PayloadLine, Send, ReadOn, Interrupt, Ends
  <2> QED  BY <1>2, <1>3, <2>1, Codes
<1>5. CASE ReadMarker
  <2>1. /\ pc = "read" /\ real[cur] \in Statuses /\ Reported(real[cur])
        /\ UNCHANGED <<whole, produced, real, session>>
    BY <1>1, <1>5, ReadMarkerReads DEF ReadMarker, remoteVars
  <2>2. PICK h \in 0..Len(sunk'), q \in 0..produced : Laid(sunk', h, q) /\ Len(sunk') = h + Wrote
    BY <1>1, <1>5, ReadMarkerReads
  <2>3. /\ pc' = "done" /\ cur' = cur /\ cur = Len(plan)
        /\ Kind = "run" => exit' = real[cur]
        /\ Kind # "run" => exit' = 0
        /\ MustSucceed(Kind) \/ Kind = "capture" => real[cur] = 0
        /\ Kind = "capture" => Decodes(sunk') /\ payload' = AfterBegin(sunk')
    <3>1. exit = None
      BY <1>3, <2>1
    <3> QED  BY <1>1, <1>2, <2>1, <3>1, Codes, ReportedWhere
  <2>4. Wrote' = Wrote /\ Kind' = Kind
    BY <1>1, <2>1, <2>3 DEF Wrote, Kind
  <2>5. HandedOn'
    <3>1. Laid(sunk, h, q)'
      BY <1>1, <2>1, <2>2, <2>3, <2>4 DEF Laid, Quiet, Token, Place
    <3> QED  BY <2>1, <2>2, <2>4, <3>1 DEF HandedOn
  <2>6. StatusIsTrue'
    <3> SUFFICES ASSUME NEW i \in 1..Len(plan)
                 PROVE  \/ plan[i] = "run" /\ real[i] = exit'
                        \/ plan[i] = "check" /\ real[i] # None
                        \/ plan[i] \in {"upload", "extract", "capture"} /\ real[i] = 0
      BY <1>1, <2>1 DEF StatusIsTrue
    <3>1. CASE i = cur
      <4>1. Kind \in {"run", "upload", "check", "extract", "capture"} /\ real[cur] # None
        BY <1>1, <2>1, PlansKnown, Codes DEF Kind
      <4> QED  BY <2>3, <3>1, <4>1 DEF Kind, MustSucceed
    <3>2. CASE i < cur
      BY <1>1, <3>2, EarlierDone
    <3> QED  BY <1>1, <2>3, <3>1, <3>2
  <2>7. Copied'
    <3>1. SUFFICES ASSUME Kind = "capture"  PROVE whole /\ payload' = Output(cur, Data)
      BY <2>1, <2>3, <2>4 DEF Copied, Output, Token
    <3>2. sunk' \in Seq(Tokens) /\ h \in Nat
      BY <1>1, <1>5, <2>2, ReadMarkerReads
    <3>3. whole /\ AfterBegin(sunk') = Output(cur, produced)
      BY <1>1, <2>2, <2>3, <3>1, <3>2, DownloadDecoded
    <3>4. produced = Data
      BY <1>1, <2>3, <3>1, <3>3 DEF Done
    <3> QED  BY <2>3, <3>1, <3>3, <3>4
  <2> QED  BY <2>5, <2>6, <2>7
<1>6. CASE ReadFails
  <2>1. /\ pc = "read" /\ wire = <<>> /\ cur' = cur /\ UNCHANGED <<real, session>>
        /\ exit' = (IF EndedEarly /\ Kind = "run" THEN 0 ELSE Error)
    BY <1>6 DEF ReadFails, Ends, remoteVars
  <2>2. session = "closed" /\ Kind = "run" /\ exit' = 0
    BY <1>2, <2>1, Codes DEF EndedEarly
  <2>3. real[cur] = None
    BY <1>1, <2>1, <2>2, NoStatusLost
  <2>4. cur = Len(plan) /\ plan[cur] = "run"
    BY <1>1, <2>2, PlansKnown DEF Kind
  <2>5. StatusIsTrue'
    <3> SUFFICES ASSUME NEW i \in 1..Len(plan)
                 PROVE  \/ plan[i] = "run" /\ real[i] = None
                        \/ plan[i] = "check" /\ real[i] # None
                        \/ plan[i] \in {"upload", "extract", "capture"} /\ real[i] = 0
      BY <1>1, <2>1, <2>2 DEF StatusIsTrue
    <3>1. CASE i = cur
      BY <2>3, <2>4, <3>1
    <3>2. CASE i < cur
      BY <1>1, <3>2, EarlierDone
    <3> QED  BY <1>1, <2>4, <3>1, <3>2
  <2>6. Kind' = "run"
    BY <1>1, <2>1, <2>2 DEF Kind
  <2> QED  BY <2>1, <2>3, <2>5, <2>6 DEF HandedOn, Copied
<1>7. CASE \/ ShellStarts \/ CommandWrites \/ PartFails
           \/ \E status \in Statuses : CommandEnds(status)
  <2>1. exit' = exit /\ session = "open" /\ shell \in {"typed", "running"}
    BY <1>7 DEF ShellStarts, CommandWrites, PartFails, CommandEnds, clientVars
  <2> QED  BY <1>1, <1>2, <2>1 DEF Turn
<1>8. CASE SessionEnds \/ UNCHANGED vars
  <2>1. /\ UNCHANGED <<plan, cur, sunk, exit, payload, whole, produced, real>>
        /\ session' = session \/ session = "open"
    BY <1>8 DEF SessionEnds, vars, clientVars, remoteVars
  <2>2. Wrote' = Wrote /\ Kind' = Kind
    BY <2>1 DEF Wrote, Kind
  <2>3. \A h, q : Laid(sunk, h, q)' <=> Laid(sunk, h, q)
    BY <2>1, <2>2 DEF Laid, Token
  <2>4. HandedOn'
    BY <1>1, <2>1, <2>2, <2>3 DEF HandedOn
  <2>5. StatusIsTrue'
    BY <1>1, <2>1 DEF StatusIsTrue
  <2>6. Copied'
    BY <1>1, <2>1, <2>2 DEF Copied, Output, Token
  <2> QED  BY <2>4, <2>5, <2>6
<1> QED  BY <1>4, <1>5, <1>6, <1>7, <1>8 DEF Next

-----------------------------------------------------------------------------
(* Theorems.                                                               *)

LEMMA Starts == Init => ExecInv
<1> SUFFICES ASSUME Init  PROVE ExecInv
  OBVIOUS
<1>1. plan \in Plans /\ cur = 1 /\ cur \in 1..Len(plan) /\ real = [i \in 1..Len(plan) |-> None]
  BY PlansKnown DEF Init
<1>2. pc \in {"payload", "send"} /\ (pc = "payload" <=> Kind = "upload")
  BY <1>1 DEF Init, Start, Kind
<1>3. Lines \in Nat /\ Data \in Nat /\ Keep \in Nat
  BY SizeAssumption, KeepAssumption
<1>4. TypeOK
  <2>1. ClientOK
    BY <1>1, <1>2, <1>3 DEF ClientOK, Init
  <2>2. StreamOK
    <3>1. <<>> \in Seq(Tokens) /\ Len(<<>>) = 0
      BY EmptySeq
    <3> QED  BY <1>3, <3>1 DEF StreamOK, Init
  <2>3. RemoteOK
    BY <1>1, <1>3 DEF RemoteOK, Init
  <2> QED  BY <2>1, <2>2, <2>3, TypeParts
<1>5. \A i \in 1..Len(plan) : real[i] = None
  BY <1>1
<1>6. Turn
  <2>1. \A i \in 1..Len(plan) : ~(i < cur)
    BY <1>1
  <2>2. sent = 0 /\ sent <= Lines + 1
    BY <1>3 DEF Init
  <2> QED  BY <1>1, <1>2, <1>5, <2>1, <2>2, Codes DEF Turn, Init
<1>7. Done
  BY <1>1, <1>5, Codes DEF Done, Init
<1>8. StreamInv
  <2>1. Len(wire) = 0
    BY EmptySeq DEF Init
  <2> QED  BY <1>2, <2>1 DEF StreamInv, Silent, Speaking, Over
<1>9. HandedOn /\ StatusIsTrue /\ Copied
  BY Codes DEF HandedOn, StatusIsTrue, Copied, Init
<1> QED  BY <1>4, <1>6, <1>7, <1>8, <1>9 DEF ExecInv

LEMMA Steps == ExecInv /\ [Next]_vars => ExecInv'
<1> SUFFICES ASSUME ExecInv, [Next]_vars  PROVE ExecInv'
  OBVIOUS
<1>1. TypeOK /\ Turn /\ Done /\ StreamInv /\ Silent /\ Speaking /\ Over
  BY DEF ExecInv, StreamInv
<1>2. TypeOK'
  BY <1>1, Types
<1>3. Turn'
  BY <1>1, Turns
<1>4. Done'
  BY <1>1, Effects
<1>5. StreamInv'
  BY <1>1, StreamSteps
<1> QED  BY <1>2, <1>3, <1>4, <1>5, Outcomes DEF ExecInv

LEMMA Always == Spec => []ExecInv
<1> QED  BY Starts, Steps, PTL DEF Spec

\* Every variable keeps its type, for markers, holds, outputs and uploads
\* of any size; and no more than Keep tokens are ever held back.
THEOREM TypeCorrect == Spec => []TypeOK
<1>1. ExecInv => TypeOK
  BY DEF ExecInv
<1> QED  BY <1>1, Always, PTL

\* A process ends with a status only if its own command had it, however the
\* frames cut the stream, and every step before was over and had succeeded
\* where it must.
THEOREM StatusSafe == Spec => []StatusIsTrue
<1>1. ExecInv => StatusIsTrue
  BY DEF ExecInv
<1> QED  BY <1>1, Always, PTL

\* The output of a command whose status was read has been handed on, all of it,
\* once and in order, with nothing of a marker; and a download that is written
\* to a file is all of the output of a command no part of which failed.
THEOREM OutputSafe == Spec => []OutputIsWhole
<1>1. ExecInv => OutputIsWhole
  <2> SUFFICES ASSUME ExecInv  PROVE OutputIsWhole
    OBVIOUS
  <2>1. TypeOK /\ HandedOn /\ Copied
    BY DEF ExecInv
  <2>2. ASSUME exit \in Statuses, real[cur] # None
        PROVE  /\ {sunk[i] : i \in DataIn(sunk)} = {Token("data", cur, k) : k \in 1..produced}
               /\ \A i, j \in DataIn(sunk) : i < j => sunk[i].val < sunk[j].val
               /\ \A i \in 1..Len(sunk) : sunk[i].kind # "marker"
    <3>1. PICK h \in 0..Len(sunk), q \in 0..produced : Laid(sunk, h, q) /\ Len(sunk) = h + Wrote
      BY <2>1, <2>2 DEF HandedOn
    <3>2. /\ h \in Nat /\ q \in Nat /\ q <= produced /\ produced \in Nat /\ Wrote \in Nat
          /\ Wrote >= produced
      BY <2>1, <3>1, Parts
    <3>3. \A i \in 1..Len(sunk) : sunk[i].kind # "marker"
      BY <2>1, <3>1, <3>2, LaidKinds
    <3>4. ASSUME NEW k \in 1..produced
          PROVE  /\ h + Place(k, q) \in DataIn(sunk)
                 /\ sunk[h + Place(k, q)] = Token("data", cur, k)
      <4>1. sunk[h + Place(k, q)] = Token("data", cur, k)
        BY <3>1 DEF Laid
      <4>2. h + Place(k, q) \in 1..Len(sunk)
        <5>1. CASE whole
          <6>1. q = produced /\ Wrote = produced
            BY <2>1, <3>1, <5>1, Parts DEF Laid
          <6>2. Place(k, q) = k
            BY <3>2, <6>1 DEF Place
          <6> QED  BY <3>1, <3>2, <6>1, <6>2
        <5>2. CASE ~whole
          <6>1. Wrote = produced + 1
            BY <2>1, <5>2, Parts
          <6>2. Place(k, q) \in {k, k + 1}
            BY DEF Place
          <6> QED  BY <3>1, <3>2, <6>1, <6>2
        <5> QED  BY <5>1, <5>2
      <4> QED  BY <4>1, <4>2, TokenParts DEF DataIn, IsData
    <3>5. ASSUME NEW i \in DataIn(sunk)
          PROVE  \E k \in 1..produced : i = h + Place(k, q)
      <4>1. i \in 1..Len(sunk) /\ sunk[i].kind = "data"
        BY DEF DataIn, IsData
      <4>2. i > h
        <5>1. SUFFICES ASSUME i <= h  PROVE FALSE
          BY <3>2, <4>1
        <5>2. Quiet(sunk[i]) \/ sunk[i] = Token("begin", cur, 0)
          BY <3>1, <3>2, <4>1, <5>1 DEF Laid
        <5> QED  BY <4>1, <5>2, TokenParts DEF Quiet
      <4>3. CASE i - h <= q
        <5>1. i - h \in 1..produced /\ Place(i - h, q) = i - h /\ h + (i - h) = i
          BY <3>2, <4>1, <4>2, <4>3 DEF Place
        <5> QED  BY <5>1
      <4>4. CASE i - h > q
        <5>1. ~whole
          <6>1. SUFFICES ASSUME whole  PROVE FALSE
            OBVIOUS
          <6>2. q = produced /\ Wrote = produced
            BY <2>1, <3>1, <6>1, Parts DEF Laid
          <6> QED  BY <3>1, <3>2, <4>1, <4>4, <6>2
        <5>2. Wrote = produced + 1
          BY <2>1, <5>1, Parts
        <5>3. i - h # q + 1
          <6>1. SUFFICES ASSUME i - h = q + 1  PROVE FALSE
            OBVIOUS
          <6>2. i = h + q + 1
            BY <3>2, <4>1, <6>1
          <6>3. sunk[i] = Token("noise", cur, 0)
            BY <3>1, <5>1, <6>2 DEF Laid
          <6> QED  BY <4>1, <6>3, TokenParts
        <5>4. /\ i - h - 1 \in 1..produced /\ ~(i - h - 1 <= q)
              /\ h + ((i - h - 1) + 1) = i
          BY <3>1, <3>2, <4>1, <4>4, <5>2, <5>3
        <5>5. Place(i - h - 1, q) = (i - h - 1) + 1
          BY <5>4 DEF Place
        <5> QED  BY <5>4, <5>5
      <4> QED  BY <3>2, <4>1, <4>3, <4>4
    <3>6. {sunk[i] : i \in DataIn(sunk)} = {Token("data", cur, k) : k \in 1..produced}
      BY <3>4, <3>5
    <3>7. ASSUME NEW i \in DataIn(sunk), NEW j \in DataIn(sunk), i < j  PROVE sunk[i].val < sunk[j].val
      <4>1. PICK k \in 1..produced : i = h + Place(k, q)
        BY <3>5
      <4>2. PICK m \in 1..produced : j = h + Place(m, q)
        BY <3>5
      <4>3. sunk[i].val = k /\ sunk[j].val = m
        BY <3>4, <4>1, <4>2, TokenParts
      <4>4. Place(k, q) < Place(m, q)
        <5>1. Place(k, q) \in {k, k + 1} /\ Place(m, q) \in {m, m + 1}
          BY DEF Place
        <5> QED  BY <3>2, <3>7, <4>1, <4>2, <5>1
      <4>5. k < m
        BY <3>2, <4>4 DEF Place
      <4> QED  BY <4>3, <4>5
    <3> QED  BY <3>3, <3>6, <3>7
  <2> QED  BY <2>1, <2>2 DEF OutputIsWhole, Copied
<1> QED  BY <1>1, Always, PTL

\* No part of an upload is ever at its destination, and what comes after an
\* upload runs only once all of it is there.
THEOREM UploadSafe == Spec => []UploadIsWhole
<1>1. ExecInv => UploadIsWhole
  <2> SUFFICES ASSUME ExecInv  PROVE UploadIsWhole
    OBVIOUS
  <2>1. TypeOK /\ Turn /\ Done /\ StatusIsTrue
    BY DEF ExecInv
  <2>2. ASSUME NEW i \in 1..Len(plan), plan[i] = "upload", i < cur \/ exit \in Statuses
        PROVE  dest = Lines
    <3>1. real[i] = 0
      <4>1. CASE i < cur
        BY <2>1, <2>2, <4>1, EarlierDone
      <4>2. CASE exit \in Statuses
        BY <2>1, <2>2, <4>2 DEF StatusIsTrue
      <4> QED  BY <2>2, <4>1, <4>2
    <3> QED  BY <2>1, <2>2, <3>1 DEF Done
  <2> QED  BY <2>1, <2>2 DEF UploadIsWhole, Done
<1> QED  BY <1>1, Always, PTL
=============================================================================
