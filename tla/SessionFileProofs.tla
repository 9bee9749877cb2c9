--------------------------- MODULE SessionFileProofs ---------------------------
(***************************************************************************)
(* Proofs of the safety properties of SessionFile, for any number of       *)
(* writers, rewriters, inodes, messages and operations.                    *)
(*                                                                         *)
(* The inductive invariant follows the file descriptors and the messages.  *)
(* Nobody appends to the temporary file, and as long as no two rewrites    *)
(* have raced for it, one writer has it, and it is not session.jsonl       *)
(* (FdApart). A rewrite under way carries every settled message, in what   *)
(* it has loaded and then in the temporary file, until its own operation   *)
(* takes it out (Carries). An append that nothing has overlapped with is   *)
(* alone and writes to session.jsonl (Alone), so a message that becomes    *)
(* settled is in a complete line of it (Kept).                             *)
(*                                                                         *)
(* As long as nothing overlaps and no append is torn, at most one writer   *)
(* is at work, and what it has loaded is what the file still says          *)
(* (TurnInv).  Then every step is a step of SessionStore or leaves it      *)
(* alone, which is shown of the actions one by one (Took).                 *)
(***************************************************************************)
EXTENDS SessionFile, TLAPS

\* The fields an update line carries have the types of the metadata.
IsUpd(u) ==
  /\ "title" \in DOMAIN u => u["title"] \in Titles
  /\ "mode" \in DOMAIN u => u["mode"] \in Modes
  /\ "prior" \in DOMAIN u => u["prior"] \in Modes \cup {"none"}
  /\ "stats" \in DOMAIN u => u["stats"] \in Nat

\* A line: messages, and an update.
LineOK(l) == l.msgs \subseteq Message /\ IsUpd(l.upd)

\* The messages of a line.
LineIds(l) == {x.id : x \in l.msgs}

\* The content of a file.
FileOK(f) ==
  /\ f = [head |-> f.head, body |-> f.body, tail |-> f.tail]
  /\ f.head \in BOOLEAN
  /\ f.body \in Session
  /\ f.tail.kind \in {"none", "line", "malformed"}
  /\ LineOK(f.tail.line)

-----------------------------------------------------------------------------
\* A session is its messages and its metadata.
LEMMA SessionParts ==
  \A s : s \in Session <=> /\ s = [msgs |-> s.msgs, meta |-> s.meta]
                           /\ s.msgs \subseteq Message /\ s.meta \in Metadata
BY DEF Session

\* The session of a new file is one.
LEMMA FreshTyped == Fresh \in Session
BY DEF Fresh, Session, Metadata, Titles, Modes

\* The fields of the metadata.
LEMMA MetaDomain ==
  ASSUME NEW meta \in Metadata
  PROVE  DOMAIN meta = {"title", "mode", "prior", "stats"}
BY DEF Metadata

\* An update makes metadata of metadata.
LEMMA OverrideTyped ==
  ASSUME NEW meta \in Metadata, NEW u, IsUpd(u)
  PROVE  Override(meta, u) \in Metadata
<1> DEFINE o == Override(meta, u)
<1>1. meta.title \in Titles /\ meta.mode \in Modes /\ meta.prior \in Modes \cup {"none"} /\ meta.stats \in Nat
  BY DEF Metadata
<1>2. o = [f \in {"title", "mode", "prior", "stats"} |-> IF f \in DOMAIN u THEN u[f] ELSE meta[f]]
  BY MetaDomain DEF Override
<1> HIDE DEF o
<1>3. o.title \in Titles /\ o.mode \in Modes /\ o.prior \in Modes \cup {"none"} /\ o.stats \in Nat
  BY <1>1, <1>2 DEF IsUpd
<1>4. o = [title |-> o.title, mode |-> o.mode, prior |-> o.prior, stats |-> o.stats]
  BY <1>2, SMT
<1>5. o \in Metadata
  BY <1>3, <1>4 DEF Metadata
<1> QED
  BY <1>5 DEF o

\* bump_token_stats writes an update.
LEMMA BumpTyped ==
  ASSUME NEW s \in Session
  PROVE  IsUpd(BumpUpdate(s))
BY DEF IsUpd, BumpUpdate, Session, Metadata

\* set_run_mode writes an update.
LEMMA ModeTyped ==
  ASSUME NEW s \in Session, NEW v \in Modes
  PROVE  IsUpd(ModeUpdate(s, v))
BY DEF IsUpd, ModeUpdate, Session, Metadata

\* Every append writes a line, a message append one with its message.
LEMMA LineTyped ==
  ASSUME NEW o \in Appends, NEW s \in Session
  PROVE  LineOK(Line(o, s)) /\ (o.kind = "message" => o.m \in LineIds(Line(o, s)))
<1>1. CASE o \in [kind : {"message"}, m : Messages]
  <2>1. o.kind = "message" /\ o.m \in Messages /\ Line(o, s) = [msgs |-> {[id |-> o.m, mark |-> FALSE]}, upd |-> << >>]
    BY <1>1 DEF Line
  <2>2. [id |-> o.m, mark |-> FALSE] \in Message /\ [id |-> o.m, mark |-> FALSE].id = o.m
    BY <2>1 DEF Message
  <2>3. IsUpd(<< >>)
    BY DEF IsUpd
  <2> QED
    BY <2>1, <2>2, <2>3 DEF LineOK, LineIds
<1>2. CASE o \in [kind : {"title"}, v : Titles]
  <2>1. o.kind = "title" /\ o.v \in Titles /\ Line(o, s) = [msgs |-> {}, upd |-> [title |-> o.v]]
    BY <1>2 DEF Line
  <2> QED
    BY <2>1 DEF LineOK, IsUpd
<1>3. CASE o \in [kind : {"mode"}, v : Modes]
  <2>1. o.kind = "mode" /\ o.v \in Modes /\ Line(o, s) = [msgs |-> {}, upd |-> ModeUpdate(s, o.v)]
    BY <1>3 DEF Line
  <2> QED
    BY <2>1, ModeTyped DEF LineOK
<1>4. CASE o \in [kind : {"bump"}]
  <2>1. o.kind = "bump" /\ Line(o, s) = [msgs |-> {}, upd |-> BumpUpdate(s)]
    BY <1>4 DEF Line
  <2> QED
    BY <2>1, BumpTyped DEF LineOK
<1> QED
  BY <1>1, <1>2, <1>3, <1>4 DEF Appends

\* Reading a further line adds its messages.
LEMMA LineAdded ==
  ASSUME NEW s \in Session, NEW l, LineOK(l)
  PROVE  AddLine(s, l) \in Session /\ Ids(AddLine(s, l)) = Ids(s) \cup LineIds(l)
<1>1. s.msgs \subseteq Message /\ s.meta \in Metadata
  BY DEF Session
<1>2. Override(s.meta, l.upd) \in Metadata /\ s.msgs \cup l.msgs \subseteq Message
  BY <1>1, OverrideTyped DEF LineOK
<1>3. AddLine(s, l) \in Session
  BY <1>2 DEF AddLine, Session
<1>4. AddLine(s, l).msgs = s.msgs \cup l.msgs
  BY DEF AddLine
<1> QED
  BY <1>3, <1>4 DEF Ids, LineIds

\* Every rewrite makes a session of a session.
LEMMA RewrittenTyped ==
  ASSUME NEW o \in Rewrites, NEW s \in Session
  PROVE  Rewritten(o, s) \in Session
<1>1. s.msgs \subseteq Message /\ s.meta \in Metadata
  BY DEF Session
<1>2. \A M \in SUBSET Message : [s EXCEPT !.msgs = M] \in Session
  BY DEF Session
<1>3. CASE o.kind = "mark"
  <2>1. {IF x.id = o.m THEN [x EXCEPT !.mark = TRUE] ELSE x : x \in s.msgs} \subseteq Message
    BY <1>1 DEF Message
  <2>2. SetMark(s, o.m) = [s EXCEPT !.msgs = {IF x.id = o.m THEN [x EXCEPT !.mark = TRUE] ELSE x : x \in s.msgs}]
    BY DEF SetMark
  <2> HIDE DEF Session
  <2>3. SetMark(s, o.m) \in Session
    BY <1>2, <2>1, <2>2
  <2> QED
    BY <1>3, <2>3 DEF Rewritten
<1>4. CASE o.kind = "after"
  <2>1. Rewritten(o, s) \in {s, [s EXCEPT !.msgs = {x \in s.msgs : x.id <= o.m}]}
    BY <1>4 DEF Rewritten, TruncateAfter
  <2>2. {x \in s.msgs : x.id <= o.m} \in SUBSET Message
    BY <1>1
  <2> QED
    BY <1>2, <2>1, <2>2
<1>5. CASE o.kind = "inclusive"
  <2>1. Rewritten(o, s) \in {s, [s EXCEPT !.msgs = {x \in s.msgs : x.id < o.m}]}
    BY <1>5 DEF Rewritten, TruncateInclusive
  <2>2. {x \in s.msgs : x.id < o.m} \in SUBSET Message
    BY <1>1
  <2> QED
    BY <1>2, <2>1, <2>2
<1>6. CASE o.kind = "undo"
  <2>1. Rewritten(o, s) = [s EXCEPT !.msgs = {x \in s.msgs : x.id # o.m}]
    BY <1>6 DEF Rewritten, Undo
  <2>2. {x \in s.msgs : x.id # o.m} \in SUBSET Message
    BY <1>1
  <2> QED
    BY <1>2, <2>1, <2>2
<1>7. CASE o.kind = "settings"
  <2>1. o.v \in Titles /\ Rewritten(o, s) = [s EXCEPT !.meta.title = o.v]
    BY <1>7 DEF Rewritten, Rewrites
  <2>2. [s.meta EXCEPT !.title = o.v] \in Metadata
    BY <1>1, <2>1 DEF Metadata
  <2>3. \A m \in Metadata : [s EXCEPT !.meta = m] \in Session
    BY DEF Session
  <2>4. [s EXCEPT !.meta.title = o.v] = [s EXCEPT !.meta = [s.meta EXCEPT !.title = o.v]]
    OBVIOUS
  <2> QED
    BY <2>1, <2>2, <2>3, <2>4
<1>8. o.kind \in {"mark", "after", "inclusive", "undo", "settings"}
  BY DEF Rewrites
<1> QED
  BY <1>3, <1>4, <1>5, <1>6, <1>7, <1>8

-----------------------------------------------------------------------------
\* What read_jsonl makes of a file holds all of its complete lines, and a last line
\* that lacks its newline.
LEMMA ReadableTyped ==
  ASSUME NEW f, FileOK(f)
  PROVE  /\ Readable(f) \in Session /\ Ids(f.body) \subseteq Ids(Readable(f))
         /\ f.tail.kind = "line" => LineIds(f.tail.line) \subseteq Ids(Readable(f))
BY LineAdded DEF FileOK, Readable

\* Writing the text of a line leaves the header and the complete lines alone; at the
\* end of a complete line it makes a line.
LEMMA TextPut ==
  ASSUME NEW f, FileOK(f), NEW l, LineOK(l)
  PROVE  /\ FileOK(PutText(f, l)) /\ PutText(f, l).head = f.head /\ PutText(f, l).body = f.body
         /\ f.tail.kind = "none" => PutText(f, l).tail.kind = "line" /\ PutText(f, l).tail.line = l
<1> DEFINE t == IF f.tail.kind = "none" THEN [kind |-> "line", line |-> l] ELSE Malformed
           g == PutText(f, l)
<1>1. t.kind \in {"none", "line", "malformed"} /\ LineOK(t.line)
      /\ (f.tail.kind = "none" => t.kind = "line" /\ t.line = l)
  BY DEF Malformed, NoLine, LineOK, IsUpd
<1>2. g = [f EXCEPT !.tail = t]
  BY DEF PutText
<1> HIDE DEF t, g
<1>3. g = [head |-> f.head, body |-> f.body, tail |-> t]
  BY <1>2 DEF FileOK
<1>4. FileOK(g) /\ g.head = f.head /\ g.body = f.body /\ g.tail = t
  BY <1>1, <1>3 DEF FileOK
<1> QED
  BY <1>1, <1>4 DEF g

\* Writing the newline takes no complete line away and completes the last one.
LEMMA NewlinePut ==
  ASSUME NEW f, FileOK(f)
  PROVE  /\ FileOK(PutNewline(f)) /\ PutNewline(f).head = f.head /\ Ids(f.body) \subseteq Ids(PutNewline(f).body)
         /\ f.tail.kind = "line" => LineIds(f.tail.line) \subseteq Ids(PutNewline(f).body)
<1> DEFINE g == PutNewline(f)
<1>1. Clean.kind = "none" /\ LineOK(Clean.line)
  BY DEF Clean, NoLine, LineOK, IsUpd
<1>2. g = [head |-> f.head, body |-> Readable(f), tail |-> Clean]
  <2>1. g = [f EXCEPT !.body = Readable(f), !.tail = Clean]
    BY DEF PutNewline
  <2>2. f = [head |-> f.head, body |-> f.body, tail |-> f.tail]
    BY DEF FileOK
  <2> HIDE DEF g
  <2> QED
    BY <2>1, <2>2
<1> HIDE DEF g
<1>3. FileOK(g) /\ g.head = f.head /\ g.body = Readable(f)
  BY <1>1, <1>2, ReadableTyped DEF FileOK
<1> QED
  BY <1>3, ReadableTyped DEF g

\* An empty file is a file.
LEMMA EmptyTyped == FileOK(Empty)
<1>1. Clean.kind = "none" /\ LineOK(Clean.line)
  BY DEF Clean, NoLine, LineOK, IsUpd
<1> QED
  BY <1>1, FreshTyped DEF FileOK, Empty

\* A file written from a session is that session.
LEMMA WholeTyped ==
  ASSUME NEW s \in Session
  PROVE  FileOK(Whole(s)) /\ Whole(s).head /\ Whole(s).body = s
<1>1. Clean.kind = "none" /\ LineOK(Clean.line)
  BY DEF Clean, NoLine, LineOK, IsUpd
<1> QED
  BY <1>1 DEF FileOK, Whole

\* Whatever was in the temporary file, writing a session from its start leaves the
\* header and all of its messages there.
LEMMA Overwritten ==
  ASSUME NEW s \in Session, NEW f, FileOK(f), NEW g \in Overwrite(s, f)
  PROVE  FileOK(g) /\ g.head /\ Ids(s) \subseteq Ids(g.body)
<1>1. CASE g = Whole(s)
  BY <1>1, WholeTyped
<1>2. ASSUME NEW k \in Nat,
             g = [Whole(s) EXCEPT !.body.msgs = @ \cup {x \in f.body.msgs : x.id >= k}, !.tail = f.tail]
      PROVE  FileOK(g) /\ g.head /\ Ids(s) \subseteq Ids(g.body)
  <2> DEFINE more == {x \in f.body.msgs : x.id >= k}
             b == [s EXCEPT !.msgs = s.msgs \cup more]
  <2>1. more \subseteq Message /\ s.msgs \subseteq Message
    BY DEF FileOK, Session
  <2> HIDE DEF more
  <2>2. b \in Session /\ b.msgs = s.msgs \cup more
    BY <2>1 DEF Session
  <2>3. g = [head |-> TRUE, body |-> b, tail |-> f.tail]
    BY <1>2 DEF Whole, more
  <2>4. Ids(s) \subseteq Ids(b)
    BY <2>2 DEF Ids
  <2> HIDE DEF b
  <2> QED
    BY <2>2, <2>3, <2>4 DEF FileOK
<1>3. CASE g # Whole(s)
  <2>1. \E k \in {i \in Messages : \A j \in Ids(s) : j < i} :
          g = [Whole(s) EXCEPT !.body.msgs = @ \cup {x \in f.body.msgs : x.id >= k}, !.tail = f.tail]
    BY <1>3, Zenon DEF Overwrite
  <2>2. \A k \in {i \in Messages : \A j \in Ids(s) : j < i} : k \in Nat
    BY DataAssumption DEF Messages
  <2> QED
    BY <1>2, <2>1, <2>2, Zenon
<1> QED
  BY <1>1, <1>3
-----------------------------------------------------------------------------
\* The types of the files.
FileTypes ==
  /\ path \in Inodes \cup {NoFile} /\ tmp \in Inodes \cup {NoFile}
  /\ disk = [i \in Inodes |-> disk[i]] /\ \A i \in Inodes : FileOK(disk[i])

\* The types of the writers.
WriterTypes ==
  /\ pc \in [Writers -> Steps] /\ fd \in [Writers -> Inodes \cup {NoFile}]
  /\ op \in [Writers -> Ops \cup {NoOp}] /\ snap \in [Writers -> Session]

\* The types of the counts and of the histories.
BoundTypes ==
  /\ ops \in 0 .. MaxOps /\ begun \subseteq Messages /\ acked \cup exposed \subseteq begun
  /\ raced \in BOOLEAN

\* What the step of a call says about its operation.
OpAt(w) ==
  /\ ~Busy(w) => op[w] = NoOp
  /\ Busy(w) => op[w] \in Ops /\ MessageOf(op[w]) \subseteq begun
  /\ pc[w] \in {"open", "text", "newline"} => op[w] \in Appends
  /\ pc[w] \in {"tmp", "fill", "rename"} => op[w] \in Rewrites

\* Nobody appends to the temporary file, and without a race one writer has it.
FdApart(w) ==
  /\ pc[w] \in {"text", "newline"} => fd[w] \in Inodes /\ fd[w] # tmp
  /\ pc[w] \in {"fill", "rename"} =>
       /\ fd[w] \in Inodes
       /\ ~raced => /\ fd[w] # path /\ tmp \in {fd[w], NoFile}
                    /\ \A o \in Writers \ {w} : pc[o] \notin {"fill", "rename"}

\* Messages acknowledged in peace and not removed on purpose.
Settled == acked \ (cut \cup exposed)

\* A rewrite carries every settled message until its own operation removes it.
Carries(w) ==
  ~raced =>
    /\ pc[w] \in {"tmp", "fill", "rename"} => Settled \subseteq Ids(snap[w])
    /\ pc[w] = "rename" /\ tmp # NoFile =>
         disk[tmp].head /\ Ids(Rewritten(op[w], snap[w])) \subseteq Ids(disk[tmp].body)

\* An append nothing else has overlapped with is alone, on session.jsonl, and after its
\* text is written the file ends in its line.
Alone(w) ==
  Busy(w) /\ MessageOf(op[w]) \ exposed # {} =>
    /\ \A o \in Writers \ {w} : ~Busy(o)
    /\ pc[w] \in {"text", "newline"} => path = fd[w]
    /\ pc[w] = "newline" =>
         disk[fd[w]].tail.kind = "line" /\ MessageOf(op[w]) \subseteq LineIds(disk[fd[w]].tail.line)

\* Without a race for the temporary file, session.jsonl has its header and every
\* settled message in a complete line.
Kept ==
  ~raced /\ Exists => disk[path].head /\ Settled \subseteq Ids(disk[path].body)

\* The inductive invariant.
FileInv ==
  /\ FileTypes /\ WriterTypes /\ BoundTypes
  /\ Exists => path # tmp
  /\ Kept
  /\ \A w \in Writers : OpAt(w) /\ FdApart(w) /\ Carries(w) /\ Alone(w)

\* It holds initially.
LEMMA FileInit == Init => FileInv
<1> SUFFICES ASSUME Init PROVE FileInv
  OBVIOUS
<1> USE FileAssumption, DataAssumption
<1>1. FileTypes
  <2>1. \A i \in Inodes : disk[i] \in {Whole(Fresh), Empty}
    BY DEF Init
  <2>2. disk = [i \in Inodes |-> disk[i]]
    BY DEF Init
  <2> QED
    BY <2>1, <2>2, EmptyTyped, WholeTyped, FreshTyped DEF Init, FileTypes
<1>2. WriterTypes
  <2>1. pc \in [Writers -> Steps] /\ fd \in [Writers -> Inodes \cup {NoFile}]
    BY DEF Init, Steps
  <2>2. op \in [Writers -> Ops \cup {NoOp}]
    BY DEF Init
  <2>3. snap \in [Writers -> Session]
    BY FreshTyped DEF Init
  <2> QED
    BY <2>1, <2>2, <2>3 DEF WriterTypes
<1>3. BoundTypes
  <2>1. ops \in 0 .. MaxOps /\ begun \subseteq Messages /\ acked \cup exposed \subseteq begun
    BY DEF Init
  <2>2. raced \in BOOLEAN
    BY DEF Init
  <2> QED
    BY <2>1, <2>2 DEF BoundTypes
<1>4. Kept
  <2>1. disk[path] = Whole(Fresh) /\ Settled = {}
    BY DEF Init, Settled
  <2> QED
    BY <2>1, WholeTyped, FreshTyped DEF Kept
<1>5. Exists => path # tmp
  BY DEF Init
<1>6. \A w \in Writers : OpAt(w) /\ FdApart(w) /\ Carries(w) /\ Alone(w)
  BY DEF Init, OpAt, FdApart, Carries, Alone, Busy
<1> QED
  BY <1>1, <1>2, <1>3, <1>4, <1>5, <1>6 DEF FileInv

-----------------------------------------------------------------------------
\* What a call that returns, or dies, leaves behind.
LEMMA Left ==
  ASSUME WriterTypes, NEW w \in Writers, Leave(w)
  PROVE  /\ WriterTypes' /\ ~Busy(w)' /\ pc'[w] = "idle" /\ op'[w] = NoOp
         /\ \A o \in Writers \ {w} : pc'[o] = pc[o] /\ op'[o] = op[o] /\ snap'[o] = snap[o] /\ fd'[o] = fd[o]
BY FreshTyped DEF WriterTypes, Leave, Steps, Busy

\* What holds of a writer at rest.
LEMMA IdleInv ==
  ASSUME NEW w \in Writers, ~Busy(w)', op'[w] = NoOp
  PROVE  OpAt(w)' /\ FdApart(w)' /\ Carries(w)' /\ Alone(w)'
BY DEF Busy, OpAt, FdApart, Carries, Alone

\* The writers a step is not of, when the files change only in the ways the hypotheses
\* allow.
LEMMA OtherInv ==
  ASSUME FileInv, NEW o \in Writers,
         pc'[o] = pc[o] /\ op'[o] = op[o] /\ snap'[o] = snap[o] /\ fd'[o] = fd[o],
         begun \subseteq begun', raced => raced', Settled' \subseteq Settled \/ ~Busy(o),
         tmp' = tmp \/ tmp' = NoFile,
         pc[o] \in {"fill", "rename"} /\ ~raced' => path' = path \/ path' = NoFile,
         pc[o] \in {"fill", "rename"} /\ ~raced' => \A u \in Writers \ {o} : pc'[u] \notin {"fill", "rename"},
         pc[o] = "rename" /\ ~raced' /\ tmp # NoFile /\ tmp' = tmp => disk'[tmp] = disk[tmp],
         MessageOf(op[o]) \subseteq exposed' \/ ~Busy(o)
  PROVE  OpAt(o)' /\ FdApart(o)' /\ Carries(o)' /\ Alone(o)'
<1>1. OpAt(o) /\ FdApart(o) /\ Carries(o) /\ FileTypes
  BY DEF FileInv
<1>2. OpAt(o)'
  BY <1>1 DEF OpAt, Busy
<1>3. FdApart(o)'
  BY <1>1, FileAssumption DEF FdApart, Busy, FileTypes
<1>4. Carries(o)'
  BY <1>1 DEF Carries, Busy
<1>5. Alone(o)'
  BY DEF Alone, Busy
<1> QED
  BY <1>2, <1>3, <1>4, <1>5

\* While w is busy, whatever another writer is appending is exposed.
LEMMA Overlapped ==
  ASSUME FileInv, NEW w \in Writers, Busy(w), NEW o \in Writers \ {w}
  PROVE  MessageOf(op[o]) \subseteq exposed \/ ~Busy(o)
BY DEF FileInv, Alone

\* A rewrite appends no message.
LEMMA RewriteSaysNothing ==
  \A o \in Rewrites : MessageOf(o) = {}
BY DEF Rewrites, MessageOf

\* What does not load is an append.
LEMMA LoadersOf ==
  \A o \in Ops : ~Loads(o) => o \in Appends
BY DEF Ops, Loads

\* The message of an operation is a message.
LEMMA MessagesOf ==
  \A o \in Ops : MessageOf(o) \subseteq Messages
BY DEF Ops, Appends, Rewrites, MessageOf

\* A call that goes on to its next step.
LEMMA Gone ==
  ASSUME WriterTypes, NEW w \in Writers, NEW step \in Steps, Goto(w, step)
  PROVE  /\ pc' \in [Writers -> Steps] /\ pc'[w] = step /\ op' = op
         /\ \A o \in Writers \ {w} : pc'[o] = pc[o]
BY DEF WriterTypes, Goto

\* Calling an operation keeps the invariant: whatever is under way becomes exposed.
LEMMA StartKept ==
  ASSUME FileInv, NEW w \in Writers, NEW o \in Ops, Start(w, o)
  PROVE  FileInv'
<1>1. /\ FileTypes /\ WriterTypes /\ BoundTypes /\ (Exists => path # tmp) /\ Kept
      /\ \A u \in Writers : OpAt(u)
  BY DEF FileInv
<1>2. /\ ~Busy(w) /\ ops < MaxOps /\ ops' = ops + 1 /\ begun' = begun \cup MessageOf(o)
      /\ pc' = [pc EXCEPT ![w] = IF Loads(o) THEN "load" ELSE "open"] /\ op' = [op EXCEPT ![w] = o]
      /\ exposed' = exposed \cup InFlight(Others(w)) \cup (IF Others(w) = {} THEN {} ELSE MessageOf(o))
      /\ UNCHANGED <<disk, path, tmp, snap, fd, acked, cut, raced, last>>
  BY DEF Start, fileVars
<1>3. WriterTypes'
  BY <1>1, <1>2 DEF WriterTypes, Steps
<1>4. InFlight(Others(w)) \subseteq begun
  BY <1>1 DEF InFlight, Others, OpAt
<1>5. BoundTypes'
  BY <1>1, <1>2, <1>4, FileAssumption, MessagesOf DEF BoundTypes
<1>6. FileTypes' /\ (Exists => path # tmp)' /\ Settled' \subseteq Settled
  BY <1>1, <1>2 DEF FileTypes, Exists, Settled
<1>7. Kept'
  BY <1>1, <1>2, <1>6 DEF Kept, Exists
<1>8. /\ pc'[w] \in {"load", "open"} /\ pc'[w] = (IF Loads(o) THEN "load" ELSE "open") /\ op'[w] = o
      /\ \A u \in Writers \ {w} : pc'[u] = pc[u] /\ op'[u] = op[u] /\ snap'[u] = snap[u] /\ fd'[u] = fd[u]
  BY <1>1, <1>2 DEF WriterTypes
<1>9. OpAt(w)' /\ FdApart(w)' /\ Carries(w)'
  BY <1>2, <1>8, LoadersOf DEF OpAt, FdApart, Carries, Busy
<1>10. Alone(w)'
  <2>1. MessageOf(o) \ exposed' # {} => Others(w) = {}
    BY <1>2
  <2>2. Others(w) = {} => \A u \in Writers \ {w} : ~Busy(u)'
    BY <1>8 DEF Others, Busy
  <2> QED
    BY <1>8, <2>1, <2>2 DEF Alone, Busy
<1>11. ASSUME NEW u \in Writers \ {w} PROVE OpAt(u)' /\ FdApart(u)' /\ Carries(u)' /\ Alone(u)'
  <2>1. MessageOf(op[u]) \subseteq exposed' \/ ~Busy(u)
    BY <1>2 DEF Others, InFlight
  <2>2. pc[u] \in {"fill", "rename"} /\ ~raced' => \A v \in Writers \ {u} : pc'[v] \notin {"fill", "rename"}
    BY <1>2, <1>8 DEF FileInv, FdApart
  <2> QED
    BY <1>2, <1>6, <1>8, <2>1, <2>2, OtherInv
<1> QED
  BY <1>3, <1>5, <1>6, <1>7, <1>9, <1>10, <1>11 DEF FileInv

\* A return, or a crash, keeps it.
LEMMA LeaveKept ==
  ASSUME FileInv, NEW w \in Writers, Busy(w), Leave(w),
         UNCHANGED <<fileVars, boundVars, acked, cut, exposed, raced>>
  PROVE  FileInv'
<1>1. /\ FileTypes /\ WriterTypes /\ BoundTypes /\ (Exists => path # tmp) /\ Kept
  BY DEF FileInv
<1>2. UNCHANGED <<disk, path, tmp, ops, begun, acked, cut, exposed, raced>>
  BY DEF fileVars, boundVars
<1>3. FileTypes' /\ BoundTypes' /\ (Exists => path # tmp)' /\ Settled' = Settled /\ Kept'
  BY <1>1, <1>2 DEF FileTypes, BoundTypes, Exists, Settled, Kept
<1>4. /\ WriterTypes' /\ ~Busy(w)' /\ pc'[w] = "idle" /\ op'[w] = NoOp
      /\ \A o \in Writers \ {w} : pc'[o] = pc[o] /\ op'[o] = op[o] /\ snap'[o] = snap[o] /\ fd'[o] = fd[o]
  BY <1>1, Left
<1>5. OpAt(w)' /\ FdApart(w)' /\ Carries(w)' /\ Alone(w)'
  BY <1>4, IdleInv
<1>6. ASSUME NEW u \in Writers \ {w} PROVE OpAt(u)' /\ FdApart(u)' /\ Carries(u)' /\ Alone(u)'
  <2>1. MessageOf(op[u]) \subseteq exposed' \/ ~Busy(u)
    BY <1>2, Overlapped
  <2>2. pc[u] \in {"fill", "rename"} /\ ~raced' => \A v \in Writers \ {u} : pc'[v] \notin {"fill", "rename"}
    BY <1>2, <1>4 DEF FileInv, FdApart
  <2> QED
    BY <1>2, <1>3, <1>4, <2>1, <2>2, OtherInv
<1> QED
  BY <1>3, <1>4, <1>5, <1>6 DEF FileInv

\* A step that leaves the files alone keeps it.
LEMMA QuietKept ==
  ASSUME FileInv, NEW w \in Writers, Busy(w), Busy(w)', NEW step \in Steps \ {"fill", "rename"}, Goto(w, step), WriterTypes',
         \A o \in Writers \ {w} : snap'[o] = snap[o] /\ fd'[o] = fd[o],
         UNCHANGED <<fileVars, boundVars, acked, cut, exposed, raced>>,
         OpAt(w)' /\ FdApart(w)' /\ Carries(w)' /\ Alone(w)'
  PROVE  FileInv'
<1>1. /\ FileTypes /\ WriterTypes /\ BoundTypes /\ (Exists => path # tmp) /\ Kept
  BY DEF FileInv
<1>2. UNCHANGED <<disk, path, tmp, ops, begun, acked, cut, exposed, raced>>
  BY DEF fileVars, boundVars
<1>3. FileTypes' /\ BoundTypes' /\ (Exists => path # tmp)' /\ Settled' = Settled /\ Kept'
  BY <1>1, <1>2 DEF FileTypes, BoundTypes, Exists, Settled, Kept
<1>4. pc'[w] = step /\ op' = op /\ \A o \in Writers \ {w} : pc'[o] = pc[o]
  BY <1>1, Gone
<1>5. ASSUME NEW u \in Writers \ {w} PROVE OpAt(u)' /\ FdApart(u)' /\ Carries(u)' /\ Alone(u)'
  <2>1. MessageOf(op[u]) \subseteq exposed' \/ ~Busy(u)
    BY <1>2, Overlapped
  <2>2. pc[u] \in {"fill", "rename"} /\ ~raced' => \A v \in Writers \ {u} : pc'[v] \notin {"fill", "rename"}
    BY <1>2, <1>4 DEF FileInv, FdApart
  <2> QED
    BY <1>2, <1>3, <1>4, <2>1, <2>2, OtherInv
<1> QED
  BY <1>3, <1>5 DEF FileInv

\* load_session keeps it: a rewriter has now loaded every settled message.
LEMMA LoadKept ==
  ASSUME FileInv, NEW w \in Writers, Load(w)
  PROVE  FileInv'
<1> DEFINE s == Readable(disk[path])
<1>0. /\ FileTypes /\ WriterTypes /\ Kept /\ OpAt(w) /\ Alone(w) /\ Busy(w) /\ pc[w] = "load"
  BY DEF FileInv, Load, Busy
<1>1. UNCHANGED <<fileVars, boundVars, acked, cut, exposed, raced>>
  BY DEF Load
<1>2. CASE Leave(w)
  BY <1>0, <1>1, <1>2, LeaveKept
<1>3. CASE /\ Loadable
           /\ snap' = [snap EXCEPT ![w] = s]
           /\ Goto(w, IF op[w] \in Appends THEN "open" ELSE "tmp")
           /\ UNCHANGED fd
  <2> DEFINE step == IF op[w] \in Appends THEN "open" ELSE "tmp"
  <2>1. Exists /\ path \in Inodes /\ FileOK(disk[path])
    BY <1>0, <1>3 DEF Loadable, Exists, FileTypes
  <2>2. s \in Session /\ Ids(disk[path].body) \subseteq Ids(s)
    BY <2>1, ReadableTyped
  <2> HIDE DEF s
  <2>3. step \in Steps \ {"fill", "rename"} /\ Goto(w, step)
    BY <1>3 DEF Steps
  <2>4. pc' \in [Writers -> Steps] /\ pc'[w] = step /\ op' = op /\ \A o \in Writers \ {w} : pc'[o] = pc[o]
    BY <1>0, <2>3, Gone
  <2>5. WriterTypes' /\ snap'[w] = s /\ \A o \in Writers \ {w} : snap'[o] = snap[o] /\ fd'[o] = fd[o]
    BY <1>0, <1>3, <2>2, <2>4 DEF WriterTypes
  <2>6. OpAt(w)'
    BY <1>0, <1>1, <2>4 DEF OpAt, Busy, boundVars, Ops
  <2>7. FdApart(w)' /\ Busy(w)'
    BY <2>4 DEF FdApart, Busy
  <2>8. Carries(w)'
    <3>1. ~raced => Settled' \subseteq Ids(s)
      BY <1>0, <1>1, <2>1, <2>2 DEF Kept, Settled
    <3> QED
      BY <1>1, <2>4, <2>5, <3>1 DEF Carries
  <2>9. Alone(w)'
    BY <1>0, <1>1, <2>4 DEF Alone, Busy
  <2> HIDE DEF step
  <2> QED
    BY <1>0, <1>1, <2>3, <2>5, <2>6, <2>7, <2>8, <2>9, QuietKept
<1> QED
  BY <1>2, <1>3 DEF Load

\* Opening the file for an append keeps it.
LEMMA OpenKept ==
  ASSUME FileInv, NEW w \in Writers, Open(w)
  PROVE  FileInv'
<1>0. /\ FileTypes /\ WriterTypes /\ (Exists => path # tmp) /\ OpAt(w) /\ Alone(w) /\ Busy(w) /\ pc[w] = "open"
  BY DEF FileInv, Open, Busy
<1>1. UNCHANGED <<fileVars, boundVars, acked, cut, exposed, raced>>
  BY DEF Open, historyVars
<1>2. CASE ~Exists
  BY <1>0, <1>1, <1>2, LeaveKept DEF Open
<1>3. CASE Exists
  <2>1. fd' = [fd EXCEPT ![w] = path] /\ Goto(w, "text") /\ UNCHANGED snap
    BY <1>3 DEF Open
  <2>2. "text" \in Steps \ {"fill", "rename"}
    BY DEF Steps
  <2>3. pc' \in [Writers -> Steps] /\ pc'[w] = "text" /\ op' = op /\ \A o \in Writers \ {w} : pc'[o] = pc[o]
    BY <1>0, <2>1, <2>2, Gone
  <2>4. path \in Inodes
    BY <1>0, <1>3 DEF Exists, FileTypes
  <2>5. WriterTypes' /\ fd'[w] = path /\ \A o \in Writers \ {w} : snap'[o] = snap[o] /\ fd'[o] = fd[o]
    BY <1>0, <2>1, <2>3, <2>4 DEF WriterTypes
  <2>6. OpAt(w)' /\ Busy(w)'
    BY <1>0, <1>1, <2>3 DEF OpAt, Busy, boundVars
  <2>7. FdApart(w)' /\ Carries(w)'
    BY <1>0, <1>1, <1>3, <2>3, <2>4, <2>5 DEF FdApart, Carries, fileVars
  <2>8. Alone(w)'
    BY <1>0, <1>1, <2>3, <2>5 DEF Alone, Busy, fileVars
  <2> QED
    BY <1>0, <1>1, <2>1, <2>2, <2>5, <2>6, <2>7, <2>8, QuietKept
<1> QED
  BY <1>2, <1>3

\* A write to the file w appends to keeps it.
LEMMA WrittenKept ==
  ASSUME FileInv, NEW w \in Writers, pc[w] \in {"text", "newline"}, NEW g, FileOK(g),
         disk' = [disk EXCEPT ![fd[w]] = g], UNCHANGED <<path, tmp, boundVars, raced, cut>>,
         g.head = disk[fd[w]].head, Ids(disk[fd[w]].body) \subseteq Ids(g.body),
         exposed \subseteq exposed', acked \subseteq acked', acked' \cup exposed' \subseteq begun,
         \A o \in Writers \ {w} : pc'[o] = pc[o] /\ op'[o] = op[o] /\ snap'[o] = snap[o] /\ fd'[o] = fd[o],
         WriterTypes', OpAt(w)' /\ FdApart(w)' /\ Carries(w)' /\ Alone(w)',
         acked' \in {acked, acked \cup MessageOf(op[w])},
         acked' # acked => \/ MessageOf(op[w]) \subseteq exposed
                           \/ path = fd[w] /\ MessageOf(op[w]) \subseteq Ids(g.body),
         pc'[w] \notin {"fill", "rename"}
  PROVE  FileInv'
<1>1. /\ FileTypes /\ BoundTypes /\ (Exists => path # tmp) /\ Kept /\ FdApart(w) /\ Busy(w) /\ Alone(w)
  BY DEF FileInv, Busy
<1>2. fd[w] \in Inodes /\ fd[w] # tmp
  BY <1>1 DEF FdApart
<1>3. disk'[fd[w]] = g /\ \A i \in Inodes : i # fd[w] => disk'[i] = disk[i]
  BY <1>1, <1>2 DEF FileTypes
<1>4. FileTypes' /\ (Exists => path # tmp)'
  <2>1. disk' = [i \in Inodes |-> disk'[i]]
    BY <1>1 DEF FileTypes
  <2>2. \A i \in Inodes : FileOK(disk'[i])
    BY <1>1, <1>3 DEF FileTypes
  <2> QED
    BY <1>1, <2>1, <2>2 DEF FileTypes, Exists
<1>5. BoundTypes'
  BY <1>1 DEF BoundTypes, boundVars
<1>6. Kept'
  <2>1. CASE acked' = acked
    <3>1. Settled' \subseteq Settled
      BY <2>1 DEF Settled
    <3> QED
      BY <1>1, <1>3, <3>1 DEF Kept, FileTypes, Exists
  <2>2. CASE acked' = acked \cup MessageOf(op[w])
    <3>1. Settled' \subseteq Settled \cup (MessageOf(op[w]) \ exposed)
      BY <2>2 DEF Settled
    <3>2. CASE MessageOf(op[w]) \subseteq exposed
      BY <1>1, <1>3, <3>1, <3>2 DEF Kept, FileTypes, Exists
    <3>3. CASE path = fd[w] /\ MessageOf(op[w]) \subseteq Ids(g.body)
      BY <1>1, <1>3, <3>1, <3>3 DEF Kept, Exists
    <3>4. CASE acked' = acked
      BY <2>1, <3>4
    <3> QED
      BY <3>2, <3>3, <3>4
  <2> QED
    BY <2>1, <2>2
<1>7. ASSUME NEW u \in Writers \ {w} PROVE OpAt(u)' /\ FdApart(u)' /\ Carries(u)' /\ Alone(u)'
  <2>1. MessageOf(op[u]) \subseteq exposed' \/ ~Busy(u)
    BY <1>1, Overlapped
  <2>2. pc[u] \in {"fill", "rename"} /\ ~raced' => \A v \in Writers \ {u} : pc'[v] \notin {"fill", "rename"}
    BY DEF FileInv, FdApart
  <2>3. Settled' \subseteq Settled \/ ~Busy(u)
    BY <1>1 DEF Settled, Alone
  <2>4. tmp # NoFile => disk'[tmp] = disk[tmp]
    BY <1>1, <1>2, <1>3 DEF FileTypes
  <2> QED
    BY <2>1, <2>2, <2>3, <2>4, OtherInv DEF boundVars
<1> QED
  BY <1>4, <1>5, <1>6, <1>7 DEF FileInv

\* Writing the text keeps it.
LEMMA WriteTextKept ==
  ASSUME FileInv, NEW w \in Writers, WriteText(w)
  PROVE  FileInv'
<1> DEFINE l == Line(op[w], snap[w])
           g == PutText(disk[fd[w]], l)
<1>1. /\ FileTypes /\ WriterTypes /\ BoundTypes /\ OpAt(w) /\ FdApart(w) /\ Alone(w) /\ Busy(w) /\ pc[w] = "text"
  BY DEF FileInv, WriteText, Busy
<1>2. fd[w] \in Inodes /\ fd[w] # tmp /\ FileOK(disk[fd[w]]) /\ op[w] \in Appends /\ snap[w] \in Session
  BY <1>1 DEF FdApart, FileTypes, OpAt, WriterTypes
<1>3. LineOK(l) /\ (op[w].kind = "message" => op[w].m \in LineIds(l))
  BY <1>2, LineTyped
<1>4. MessageOf(op[w]) \subseteq LineIds(l)
  BY <1>3 DEF MessageOf
<1>5. /\ disk' = [disk EXCEPT ![fd[w]] = g] /\ Goto(w, "newline")
      /\ exposed' = IF disk[fd[w]].tail.kind = "none" THEN exposed ELSE exposed \cup MessageOf(op[w])
      /\ UNCHANGED <<path, tmp, snap, fd, boundVars, acked, cut, raced>>
  BY DEF WriteText
<1> HIDE DEF l
<1>6. /\ FileOK(g) /\ g.head = disk[fd[w]].head /\ g.body = disk[fd[w]].body
      /\ disk[fd[w]].tail.kind = "none" => g.tail.kind = "line" /\ g.tail.line = l
  BY <1>2, <1>3, TextPut
<1> HIDE DEF g
<1>7. "newline" \in Steps
  BY DEF Steps
<1>8. pc' \in [Writers -> Steps] /\ pc'[w] = "newline" /\ op' = op /\ \A o \in Writers \ {w} : pc'[o] = pc[o]
  BY <1>1, <1>5, <1>7, Gone
<1>9. WriterTypes'
  BY <1>1, <1>5, <1>8 DEF WriterTypes
<1>10. OpAt(w)' /\ FdApart(w)' /\ Carries(w)'
  BY <1>1, <1>5, <1>8 DEF OpAt, FdApart, Carries, Busy, boundVars
<1>11. exposed \subseteq exposed' /\ acked' \cup exposed' \subseteq begun
  BY <1>1, <1>5 DEF BoundTypes, OpAt
<1>12. Alone(w)'
  <2>1. disk'[fd[w]] = g
    BY <1>1, <1>2, <1>5 DEF FileTypes
  <2>2. MessageOf(op[w]) \ exposed' # {} => MessageOf(op[w]) \ exposed # {} /\ disk[fd[w]].tail.kind = "none"
    BY <1>5
  <2> QED
    BY <1>1, <1>4, <1>5, <1>6, <1>8, <2>1, <2>2 DEF Alone, Busy
<1>13. /\ UNCHANGED <<path, tmp, boundVars, raced, cut>> /\ acked \subseteq acked' /\ acked' \in {acked, acked \cup MessageOf(op[w])}
       /\ g.head = disk[fd[w]].head /\ Ids(disk[fd[w]].body) \subseteq Ids(g.body)
       /\ \A o \in Writers \ {w} : pc'[o] = pc[o] /\ op'[o] = op[o] /\ snap'[o] = snap[o] /\ fd'[o] = fd[o]
       /\ pc'[w] \notin {"fill", "rename"} /\ acked' = acked
  BY <1>5, <1>6, <1>8
<1> QED
  BY <1>1, <1>5, <1>6, <1>9, <1>10, <1>11, <1>12, <1>13, WrittenKept

\* Writing the newline keeps it, and what becomes settled is in the file.
LEMMA WriteNewlineKept ==
  ASSUME FileInv, NEW w \in Writers, WriteNewline(w)
  PROVE  FileInv'
<1> DEFINE g == PutNewline(disk[fd[w]])
<1>1. /\ FileTypes /\ WriterTypes /\ BoundTypes /\ OpAt(w) /\ FdApart(w) /\ Alone(w) /\ Busy(w) /\ pc[w] = "newline"
  BY DEF FileInv, WriteNewline, Busy
<1>2. fd[w] \in Inodes /\ FileOK(disk[fd[w]])
  BY <1>1 DEF FdApart, FileTypes
<1>3. /\ disk' = [disk EXCEPT ![fd[w]] = g] /\ Leave(w)
      /\ acked' \in {acked, acked \cup MessageOf(op[w])}
      /\ UNCHANGED <<path, tmp, boundVars, cut, exposed, raced>>
  BY DEF WriteNewline
<1>4. /\ FileOK(g) /\ g.head = disk[fd[w]].head /\ Ids(disk[fd[w]].body) \subseteq Ids(g.body)
      /\ disk[fd[w]].tail.kind = "line" => LineIds(disk[fd[w]].tail.line) \subseteq Ids(g.body)
  BY <1>2, NewlinePut
<1> HIDE DEF g
<1>5. /\ WriterTypes' /\ ~Busy(w)' /\ pc'[w] = "idle" /\ op'[w] = NoOp
      /\ \A o \in Writers \ {w} : pc'[o] = pc[o] /\ op'[o] = op[o] /\ snap'[o] = snap[o] /\ fd'[o] = fd[o]
  BY <1>1, <1>3, Left
<1>6. OpAt(w)' /\ FdApart(w)' /\ Carries(w)' /\ Alone(w)'
  BY <1>5, IdleInv
<1>7. \/ MessageOf(op[w]) \subseteq exposed
      \/ path = fd[w] /\ MessageOf(op[w]) \subseteq Ids(g.body)
  <2>1. CASE MessageOf(op[w]) \ exposed = {}
    BY <2>1
  <2>2. CASE MessageOf(op[w]) \ exposed # {}
    <3>1. /\ path = fd[w] /\ disk[fd[w]].tail.kind = "line"
          /\ MessageOf(op[w]) \subseteq LineIds(disk[fd[w]].tail.line)
      BY <1>1, <2>2 DEF Alone
    <3> QED
      BY <1>4, <3>1
  <2> QED
    BY <2>1, <2>2
<1>8. acked \subseteq acked' /\ exposed \subseteq exposed' /\ acked' \cup exposed' \subseteq begun
  BY <1>1, <1>3 DEF BoundTypes, OpAt
<1> QED
  BY <1>1, <1>3, <1>4, <1>5, <1>6, <1>7, <1>8, WrittenKept

\* Opening the temporary file keeps it: a second rewriter makes a race.
LEMMA OpenTmpKept ==
  ASSUME FileInv, NEW w \in Writers, OpenTmp(w)
  PROVE  FileInv'
<1>1. /\ FileTypes /\ WriterTypes /\ BoundTypes /\ (Exists => path # tmp) /\ Kept
      /\ OpAt(w) /\ FdApart(w) /\ Carries(w) /\ Alone(w) /\ Busy(w) /\ pc[w] = "tmp"
  BY DEF FileInv, OpenTmp, Busy
<1>2. PICK i \in Inodes :
        /\ IF tmp # NoFile THEN i = tmp ELSE i # path /\ \A o \in Writers : fd[o] # i
        /\ tmp' = i /\ disk' = [disk EXCEPT ![i] = Empty] /\ fd' = [fd EXCEPT ![w] = i]
  BY DEF OpenTmp
<1>3. /\ raced' = (raced \/ \E o \in Others(w) : pc[o] \in {"fill", "rename"})
      /\ Goto(w, "fill") /\ UNCHANGED <<path, snap, boundVars, acked, cut, exposed>>
  BY DEF OpenTmp
<1>4. i # path /\ i # NoFile
  BY <1>1, <1>2, FileAssumption DEF FileTypes, Exists
<1>5. disk'[i] = Empty /\ \A j \in Inodes : j # i => disk'[j] = disk[j]
  BY <1>1, <1>2 DEF FileTypes
<1>6. FileTypes'
  <2>1. disk' = [j \in Inodes |-> disk'[j]]
    BY <1>1, <1>2 DEF FileTypes
  <2>2. \A j \in Inodes : FileOK(disk'[j])
    BY <1>1, <1>5, EmptyTyped DEF FileTypes
  <2> QED
    BY <1>1, <1>2, <1>3, <2>1, <2>2 DEF FileTypes
<1>7. "fill" \in Steps
  BY DEF Steps
<1>8. pc' \in [Writers -> Steps] /\ pc'[w] = "fill" /\ op' = op /\ \A o \in Writers \ {w} : pc'[o] = pc[o]
  BY <1>1, <1>3, <1>7, Gone
<1>9. WriterTypes' /\ fd'[w] = i /\ \A o \in Writers \ {w} : fd'[o] = fd[o]
  BY <1>1, <1>2, <1>3, <1>8 DEF WriterTypes
<1>10. BoundTypes'
  <2>1. raced' \in BOOLEAN
    BY <1>3
  <2> QED
    BY <1>1, <1>3, <2>1 DEF BoundTypes, boundVars
<1>11. (raced => raced') /\ (~raced' => \A o \in Writers \ {w} : pc[o] \notin {"fill", "rename"})
  BY <1>3 DEF Others, Busy
<1>12. Settled' = Settled /\ (Exists => path # tmp)'
  BY <1>2, <1>3, <1>4 DEF Settled, Exists
<1>13. Kept'
  BY <1>1, <1>3, <1>4, <1>5, <1>11, <1>12 DEF Kept, Exists, FileTypes
<1>14. OpAt(w)' /\ Alone(w)'
  <2>1. op[w] \in Rewrites /\ MessageOf(op[w]) = {}
    BY <1>1, RewriteSaysNothing DEF OpAt
  <2> QED
    BY <1>1, <1>3, <1>8, <2>1 DEF OpAt, Alone, Busy, boundVars
<1>15. FdApart(w)' /\ Carries(w)'
  BY <1>1, <1>2, <1>3, <1>4, <1>8, <1>9, <1>11, <1>12 DEF FdApart, Carries
<1>16. ASSUME NEW o \in Writers \ {w} PROVE OpAt(o)' /\ FdApart(o)' /\ Carries(o)' /\ Alone(o)'
  <2>1. OpAt(o) /\ FdApart(o) /\ Carries(o)
    BY DEF FileInv
  <2>2. pc'[o] = pc[o] /\ op'[o] = op[o] /\ snap'[o] = snap[o] /\ fd'[o] = fd[o]
    BY <1>3, <1>8, <1>9
  <2>3. OpAt(o)'
    BY <1>3, <2>1, <2>2 DEF OpAt, Busy, boundVars
  <2>4. FdApart(o)'
    BY <1>2, <1>11, <2>1, <2>2 DEF FdApart
  <2>5. Carries(o)'
    BY <1>11, <1>12, <2>1, <2>2 DEF Carries
  <2>6. Alone(o)'
    <3>1. MessageOf(op[o]) \subseteq exposed \/ ~Busy(o)
      BY <1>1, Overlapped
    <3> QED
      BY <1>3, <2>2, <3>1 DEF Alone, Busy
  <2> QED
    BY <2>3, <2>4, <2>5, <2>6
<1> QED
  BY <1>6, <1>9, <1>10, <1>12, <1>13, <1>14, <1>15, <1>16 DEF FileInv

\* Writing the temporary file keeps it.
LEMMA FillKept ==
  ASSUME FileInv, NEW w \in Writers, Fill(w)
  PROVE  FileInv'
<1> DEFINE r == Rewritten(op[w], snap[w])
<1>1. /\ FileTypes /\ WriterTypes /\ BoundTypes /\ (Exists => path # tmp) /\ Kept
      /\ OpAt(w) /\ FdApart(w) /\ Carries(w) /\ Alone(w) /\ Busy(w) /\ pc[w] = "fill"
  BY DEF FileInv, Fill, Busy
<1>2. fd[w] \in Inodes /\ FileOK(disk[fd[w]]) /\ op[w] \in Rewrites /\ snap[w] \in Session
  BY <1>1 DEF FdApart, FileTypes, OpAt, WriterTypes
<1>3. r \in Session
  BY <1>2, RewrittenTyped
<1>4. PICK f \in Overwrite(r, disk[fd[w]]) : disk' = [disk EXCEPT ![fd[w]] = f]
  BY DEF Fill
<1>5. Goto(w, "rename") /\ UNCHANGED <<path, tmp, snap, fd, boundVars, acked, cut, exposed, raced>>
  BY DEF Fill, historyVars
<1>6. FileOK(f) /\ f.head /\ Ids(r) \subseteq Ids(f.body)
  BY <1>2, <1>3, <1>4, Overwritten
<1>7. disk'[fd[w]] = f /\ \A j \in Inodes : j # fd[w] => disk'[j] = disk[j]
  BY <1>1, <1>2, <1>4 DEF FileTypes
<1>8. FileTypes'
  <2>1. disk' = [j \in Inodes |-> disk'[j]]
    BY <1>1, <1>4 DEF FileTypes
  <2>2. \A j \in Inodes : FileOK(disk'[j])
    BY <1>1, <1>6, <1>7 DEF FileTypes
  <2> QED
    BY <1>1, <1>5, <2>1, <2>2 DEF FileTypes
<1>9. "rename" \in Steps
  BY DEF Steps
<1>10. pc' \in [Writers -> Steps] /\ pc'[w] = "rename" /\ op' = op /\ \A o \in Writers \ {w} : pc'[o] = pc[o]
  BY <1>1, <1>5, <1>9, Gone
<1>11. WriterTypes' /\ BoundTypes'
  BY <1>1, <1>5, <1>10 DEF WriterTypes, BoundTypes, boundVars
<1>12. Settled' = Settled /\ (Exists => path # tmp)'
  BY <1>1, <1>5 DEF Settled, Exists
<1>13. Kept'
  BY <1>1, <1>2, <1>5, <1>7, <1>12 DEF Kept, Exists, FileTypes, FdApart
<1>14. OpAt(w)' /\ Alone(w)'
  <2>1. MessageOf(op[w]) = {}
    BY <1>2, RewriteSaysNothing
  <2> QED
    BY <1>1, <1>2, <1>5, <1>10, <2>1 DEF OpAt, Alone, Busy, boundVars
<1>15. FdApart(w)'
  BY <1>1, <1>5, <1>10 DEF FdApart
<1>16. Carries(w)'
  <2>1. op'[w] = op[w] /\ snap'[w] = snap[w] /\ tmp' = tmp /\ raced' = raced
    BY <1>5, <1>10
  <2>2. ~raced /\ tmp # NoFile => disk'[tmp] = f
    BY <1>1, <1>7 DEF FdApart
  <2>3. Rewritten(op'[w], snap'[w]) = r
    BY <2>1
  <2> HIDE DEF r
  <2> QED
    BY <1>1, <1>6, <1>10, <1>12, <2>1, <2>2, <2>3 DEF Carries
<1>17. ASSUME NEW u \in Writers \ {w} PROVE OpAt(u)' /\ FdApart(u)' /\ Carries(u)' /\ Alone(u)'
  <2>1. MessageOf(op[u]) \subseteq exposed' \/ ~Busy(u)
    BY <1>1, <1>5, Overlapped
  <2>2. ~raced' => pc[u] \notin {"fill", "rename"}
    BY <1>1, <1>5 DEF FdApart
  <2>3. pc'[u] = pc[u] /\ op'[u] = op[u] /\ snap'[u] = snap[u] /\ fd'[u] = fd[u]
    BY <1>5, <1>10
  <2>4. begun \subseteq begun' /\ (raced => raced') /\ tmp' = tmp /\ path' = path /\ Settled' \subseteq Settled
    BY <1>5, <1>12 DEF boundVars
  <2> QED
    BY <2>1, <2>2, <2>3, <2>4, OtherInv
<1> QED
  BY <1>8, <1>11, <1>12, <1>13, <1>14, <1>15, <1>16, <1>17 DEF FileInv

\* The rename keeps it: the new session.jsonl has what the rewrite carried.
LEMMA RenameKept ==
  ASSUME FileInv, NEW w \in Writers, Rename(w)
  PROVE  FileInv'
<1> DEFINE r == Rewritten(op[w], snap[w])
<1>1. /\ FileTypes /\ WriterTypes /\ BoundTypes /\ (Exists => path # tmp) /\ Kept
      /\ FdApart(w) /\ Carries(w) /\ Busy(w) /\ pc[w] = "rename"
  BY DEF FileInv, Rename, Busy
<1>2. Leave(w) /\ UNCHANGED <<disk, boundVars, acked, exposed, raced>>
  BY DEF Rename
<1>3. CASE tmp = NoFile
  <2>1. UNCHANGED <<path, tmp, cut>>
    BY <1>3 DEF Rename
  <2> QED
    BY <1>1, <1>2, <2>1, LeaveKept DEF fileVars
<1>4. CASE tmp # NoFile
  <2>1. path' = tmp /\ tmp' = NoFile /\ cut' = cut \cup (Ids(snap[w]) \ Ids(r))
    BY <1>4 DEF Rename
  <2> HIDE DEF r
  <2>2. tmp \in Inodes
    BY <1>1, <1>4 DEF FileTypes
  <2>3. FileTypes' /\ BoundTypes' /\ (Exists => path # tmp)'
    BY <1>1, <1>2, <1>4, <2>1 DEF FileTypes, BoundTypes, Exists, boundVars
  <2>4. Settled' \subseteq Settled /\ Settled' \cap Ids(snap[w]) \subseteq Ids(r)
    BY <1>2, <2>1 DEF Settled
  <2>5. Kept'
    <3>1. ~raced => disk[tmp].head /\ Ids(r) \subseteq Ids(disk[tmp].body) /\ Settled \subseteq Ids(snap[w])
      BY <1>1, <1>4 DEF Carries, r
    <3> QED
      BY <1>2, <2>1, <2>4, <3>1 DEF Kept
  <2>6. /\ WriterTypes' /\ ~Busy(w)' /\ pc'[w] = "idle" /\ op'[w] = NoOp
        /\ \A o \in Writers \ {w} : pc'[o] = pc[o] /\ op'[o] = op[o] /\ snap'[o] = snap[o] /\ fd'[o] = fd[o]
    BY <1>1, <1>2, Left
  <2>7. OpAt(w)' /\ FdApart(w)' /\ Carries(w)' /\ Alone(w)'
    BY <2>6, IdleInv
  <2>8. ASSUME NEW u \in Writers \ {w} PROVE OpAt(u)' /\ FdApart(u)' /\ Carries(u)' /\ Alone(u)'
    <3>1. MessageOf(op[u]) \subseteq exposed' \/ ~Busy(u)
      BY <1>1, <1>2, Overlapped
    <3>2. ~raced' => pc[u] \notin {"fill", "rename"}
      BY <1>1, <1>2 DEF FdApart
    <3>3. begun \subseteq begun' /\ (raced => raced') /\ tmp' = NoFile /\ Settled' \subseteq Settled
      BY <1>2, <2>1, <2>4 DEF boundVars
    <3>4. tmp # NoFile /\ tmp' = tmp => disk'[tmp] = disk[tmp]
      BY <2>1
    <3> QED
      BY <2>6, <3>1, <3>2, <3>3, <3>4, OtherInv
  <2> QED
    BY <2>3, <2>5, <2>6, <2>7, <2>8 DEF FileInv
<1> QED
  BY <1>3, <1>4

\* Deleting the session keeps it.
LEMMA DeleteKept ==
  ASSUME FileInv, Delete
  PROVE  FileInv'
<1>1. /\ FileTypes /\ WriterTypes /\ BoundTypes /\ \A w \in Writers : OpAt(w)
  BY DEF FileInv
<1>2. /\ ops < MaxOps /\ ops' = ops + 1 /\ path' = NoFile /\ tmp' = NoFile /\ cut' = cut \cup acked
      /\ exposed' = exposed \cup InFlight({w \in Writers : Busy(w)})
      /\ UNCHANGED <<disk, pc, op, snap, fd, begun, acked, raced>>
  BY DEF Delete, writerVars
<1>3. FileTypes' /\ WriterTypes' /\ Settled' = {} /\ ~Exists'
  BY <1>1, <1>2 DEF FileTypes, WriterTypes, Settled, Exists
<1>4. InFlight({w \in Writers : Busy(w)}) \subseteq begun
  BY <1>1 DEF InFlight, OpAt
<1>5. BoundTypes'
  BY <1>1, <1>2, <1>4, FileAssumption DEF BoundTypes
<1>6. ASSUME NEW u \in Writers PROVE OpAt(u)' /\ FdApart(u)' /\ Carries(u)' /\ Alone(u)'
  <2>1. MessageOf(op[u]) \subseteq exposed' \/ ~Busy(u)
    BY <1>2 DEF InFlight
  <2>2. pc[u] \in {"fill", "rename"} /\ ~raced' => \A v \in Writers \ {u} : pc'[v] \notin {"fill", "rename"}
    BY <1>2 DEF FileInv, FdApart
  <2>3. pc'[u] = pc[u] /\ op'[u] = op[u] /\ snap'[u] = snap[u] /\ fd'[u] = fd[u]
    BY <1>2
  <2>4. begun \subseteq begun' /\ (raced => raced') /\ tmp' = NoFile /\ path' = NoFile /\ Settled' \subseteq Settled
    BY <1>2, <1>3
  <2>5. tmp # NoFile /\ tmp' = tmp => disk'[tmp] = disk[tmp]
    BY <1>2
  <2> QED
    BY <2>1, <2>2, <2>3, <2>4, <2>5, OtherInv
<1> QED
  BY <1>3, <1>5, <1>6 DEF FileInv, Kept, Exists

-----------------------------------------------------------------------------
\* Every step keeps the invariant.
LEMMA FileStep == FileInv /\ [Next]_vars => FileInv'
<1> SUFFICES ASSUME FileInv, [Next]_vars PROVE FileInv'
  OBVIOUS
<1>1. CASE Delete
  BY <1>1, DeleteKept
<1>2. ASSUME NEW w \in Writers, Write(w) PROVE FileInv'
  BY <1>2, StartKept, LoadKept, OpenKept, WriteTextKept, WriteNewlineKept, OpenTmpKept, FillKept, RenameKept DEF Write
<1>3. ASSUME NEW w \in Writers, Crash(w) PROVE FileInv'
  BY <1>3, LeaveKept DEF Crash
<1>4. CASE UNCHANGED vars
  <2>1. UNCHANGED <<disk, path, tmp, pc, op, snap, fd, ops, begun, acked, cut, exposed, raced>>
    BY <1>4 DEF vars, fileVars, writerVars, boundVars, historyVars
  <2>2. FileTypes' /\ WriterTypes' /\ BoundTypes' /\ (Exists => path # tmp)' /\ Kept'
    BY <2>1 DEF FileInv, FileTypes, WriterTypes, BoundTypes, Exists, Kept, Settled
  <2>3. \A w \in Writers : OpAt(w)' /\ FdApart(w)' /\ Carries(w)' /\ Alone(w)'
    BY <2>1 DEF FileInv, OpAt, FdApart, Carries, Alone, Busy, Settled
  <2> QED
    BY <2>2, <2>3 DEF FileInv
<1> QED
  BY <1>1, <1>2, <1>3, <1>4 DEF Next

\* The invariant holds throughout.
THEOREM FileInvariant == Spec => []FileInv
BY FileInit, FileStep, PTL DEF Spec

\* Files, sessions, operations and histories keep their types, whatever coincides:
\* every line the operations append and every rewrite is well formed.
THEOREM TypeCorrect == Spec => []TypeOK
<1>1. FileInv => TypeOK
  BY DEF FileInv, FileTypes, WriterTypes, BoundTypes, FileOK, TypeOK
<1> QED
  BY <1>1, FileInvariant, PTL

\* session.jsonl can be loaded at any moment unless two rewrites had the temporary file
\* open at once (HeaderSurvives; write_jsonl_full).
THEOREM HeaderAlwaysThere == Spec => []HeaderSurvives
<1>1. FileInv => HeaderSurvives
  BY DEF FileInv, Kept, HeaderSurvives
<1> QED
  BY <1>1, FileInvariant, PTL

\* A message whose append was acknowledged with no other write around it stays readable
\* through all appends, rewrites and crashes until an operation removes it
\* (SettledStays).
THEOREM SettledMessagesStay == Spec => []SettledStays
<1>1. FileInv => SettledStays
  BY ReadableTyped DEF FileInv, FileTypes, Kept, Settled, SettledStays, Exists
<1> QED
  BY <1>1, FileInvariant, PTL

-----------------------------------------------------------------------------
\* What a writer that takes its turn has before it at each step: the file it has open
\* is session.jsonl, or the temporary file that will be; and what it has loaded is
\* still what the file says.
Turn(w) ==
  /\ pc[w] \in {"text", "newline", "tmp", "fill", "rename"} => Exists
  /\ pc[w] \in {"text", "newline"} => fd[w] = path
  /\ pc[w] = "text" => disk[path].tail.kind = "none"
  /\ pc[w] \in {"open", "text"} /\ Loads(op[w]) => Exists /\ snap[w] = Readable(disk[path])
  /\ pc[w] \in {"tmp", "fill", "rename"} =>
       snap[w] = Readable(disk[path]) /\ Saves(op[w], snap[w])
  /\ pc[w] \in {"fill", "rename"} => tmp = fd[w]
  /\ pc[w] = "fill" => disk[tmp] = Empty
  /\ pc[w] = "rename" => disk[tmp] = Whole(Rewritten(op[w], snap[w]))

\* As long as writers take turns, one of them at most is at work, and between two
\* appends the file ends with a newline.
TurnInv ==
  ~disturbed =>
    /\ ~raced
    /\ \A v, w \in Writers : Busy(v) /\ Busy(w) => v = w
    /\ Exists /\ (\A w \in Writers : pc[w] # "newline") => disk[path].tail.kind = "none"
    /\ \A w \in Writers : Turn(w)

\* The refinement mapping: the session there is, for one that takes turns.
StoreSession == IF disturbed \/ ~Exists THEN {} ELSE {Readable(disk[path])}

\* Of the appends one is in effect, the one that waits for its newline.
StoreEffective ==
  IF \E w \in Writers : ~disturbed /\ pc[w] = "newline"
    THEN op[CHOOSE w \in Writers : pc[w] = "newline"] ELSE NoOp

\* What has returned.
StoreLast == IF disturbed THEN NoOp ELSE last

\* The steps of the store, in terms of the mapping: an operation takes effect, and may
\* return with it.
StoreDo(o) ==
  /\ StoreEffective = NoOp
  /\ \E s \in StoreSession : StoreSession' = {Apply(o, s)}
  /\ \/ StoreEffective' = o /\ StoreLast' = StoreLast
     \/ StoreLast' = o /\ StoreEffective' = StoreEffective

\* The one in effect returns.
StoreReturn ==
  /\ StoreEffective # NoOp /\ StoreLast' = StoreEffective /\ StoreEffective' = NoOp
  /\ StoreSession' = StoreSession

\* The session is deleted.
StoreDelete ==
  /\ StoreEffective = NoOp /\ StoreSession' = {}
  /\ StoreEffective' = StoreEffective /\ StoreLast' = StoreLast

\* Nothing the store shows has changed.
StoreKept ==
  StoreSession' = StoreSession /\ StoreEffective' = StoreEffective /\ StoreLast' = StoreLast

\* One of these.
StoreStep == (\E o \in Ops : StoreDo(o)) \/ StoreReturn \/ StoreDelete \/ StoreKept

\* What both are shown of, for each step that leaves the turns undisturbed.
Took == TurnInv' /\ StoreStep

\* Operations have a kind of their own.
LEMMA KindsOf ==
  /\ \A o \in Ops : o # NoOp
  /\ \A o \in Rewrites : o \notin Appends
BY DEF Ops, Appends, Rewrites, NoOp

\* What an operation that does not load writes does not depend on what it has read.
LEMMA LineUnread ==
  \A o \in Appends : ~Loads(o) => \A s, t : Line(o, s) = Line(o, t)
<1> SUFFICES ASSUME NEW o \in Appends, ~Loads(o), NEW s, NEW t PROVE Line(o, s) = Line(o, t)
  OBVIOUS
<1>1. o.kind \in {"message", "title"}
  BY DEF Appends, Loads
<1> QED
  BY <1>1 DEF Line

\* Whoever is busy is alone.
LEMMA AloneAtWork ==
  ASSUME TurnInv, ~disturbed, NEW w \in Writers, Busy(w)
  PROVE  \A o \in Writers \ {w} : pc[o] = "idle"
BY DEF TurnInv, Busy

\* The operation in effect is the one whose newline is not yet written.
LEMMA EffectiveOf ==
  /\ (\A v \in Writers : pc[v] # "newline") => StoreEffective = NoOp
  /\ \A w \in Writers : ~disturbed /\ pc[w] = "newline" /\ (\A o \in Writers \ {w} : pc[o] = "idle")
       => StoreEffective = op[w]
<1>1. ASSUME NEW w \in Writers, ~disturbed, pc[w] = "newline", \A o \in Writers \ {w} : pc[o] = "idle"
      PROVE  StoreEffective = op[w]
  <2>1. (CHOOSE v \in Writers : pc[v] = "newline") = w
    <3>1. \A v \in Writers : pc[v] = "newline" => v = w
      BY <1>1
    <3> QED
      BY <1>1, <3>1
  <2> QED
    BY <1>1, <2>1 DEF StoreEffective
<1> QED
  BY <1>1 DEF StoreEffective

\* The same in the next state.
LEMMA EffectiveNext ==
  /\ (\A v \in Writers : pc'[v] # "newline") => StoreEffective' = NoOp
  /\ \A w \in Writers : ~disturbed' /\ pc'[w] = "newline" /\ (\A o \in Writers \ {w} : pc'[o] = "idle")
       => StoreEffective' = op'[w]
<1>1. (/\ (\A v \in Writers : pc[v] # "newline") => StoreEffective = NoOp
       /\ \A w \in Writers : ~disturbed /\ pc[w] = "newline" /\ (\A o \in Writers \ {w} : pc[o] = "idle")
            => StoreEffective = op[w])'
  BY EffectiveOf, PTL
<1> QED
  BY <1>1

\* Writers at rest have nothing to show.
LEMMA Resting ==
  ASSUME NEW w \in Writers, pc[w] = "idle"
  PROVE  Turn(w)
BY DEF Turn

\* The same in the next state.
LEMMA RestingNext ==
  ASSUME NEW w \in Writers, pc'[w] = "idle"
  PROVE  Turn(w)'
BY DEF Turn

\* The turn stays with w, or goes to w.
LEMMA TurnOf ==
  ASSUME NEW w \in Writers, \A o \in Writers \ {w} : pc'[o] = "idle", ~raced', Turn(w)',
         Exists' /\ pc'[w] # "newline" => disk'[path'].tail.kind = "none"
  PROVE  TurnInv'
<1>1. \A o \in Writers \ {w} : Turn(o)'
  BY RestingNext
<1>2. \A v \in Writers : Busy(v)' => v = w
  BY DEF Busy
<1> QED
  BY <1>1, <1>2 DEF TurnInv

\* Without the newline in between, a step that touches neither session.jsonl nor what
\* was returned keeps the store.
LEMMA StoreKeeps ==
  ASSUME ~disturbed, ~disturbed', path' = path, Exists => Readable(disk'[path]) = Readable(disk[path]),
         last' = last, \A v \in Writers : pc[v] # "newline" /\ pc'[v] # "newline"
  PROVE  StoreStep
<1>1. StoreEffective = NoOp /\ StoreEffective' = NoOp
  BY EffectiveOf, EffectiveNext
<1>2. StoreSession' = StoreSession
  BY DEF StoreSession, Exists
<1> QED
  BY <1>1, <1>2 DEF StoreStep, StoreKept, StoreLast

-----------------------------------------------------------------------------
\* A call begins.
LEMMA StartTook ==
  ASSUME FileInv, TurnInv, ~disturbed, ~disturbed', NEW w \in Writers, NEW o \in Ops, Start(w, o)
  PROVE  Took
<1>1. /\ Others(w) = {} /\ ~Busy(w)
      /\ pc' = [pc EXCEPT ![w] = IF Loads(o) THEN "load" ELSE "open"]
      /\ op' = [op EXCEPT ![w] = o]
      /\ UNCHANGED <<disk, path, tmp, snap, fd, raced, last>>
  BY DEF Start, fileVars
<1>2. WriterTypes /\ FileTypes
  BY DEF FileInv
<1>3. \A v \in Writers : pc[v] = "idle"
  BY <1>1 DEF Others, Busy
<1>4. /\ pc'[w] = (IF Loads(o) THEN "load" ELSE "open") /\ op'[w] = o
      /\ \A v \in Writers \ {w} : pc'[v] = "idle"
  BY <1>1, <1>2, <1>3 DEF WriterTypes
<1>5. ~raced' /\ (Exists' => disk'[path'].tail.kind = "none")
  BY <1>1, <1>3 DEF TurnInv, Exists
<1>6. Turn(w)'
  BY <1>4 DEF Turn
<1>7. TurnInv'
  BY <1>4, <1>5, <1>6, TurnOf
<1>8. \A v \in Writers : pc[v] # "newline" /\ pc'[v] # "newline"
  BY <1>3, <1>4
<1>9. StoreStep
  BY <1>1, <1>8, StoreKeeps
<1> QED
  BY <1>7, <1>9 DEF Took

\* A call ends without having changed anything.
LEMMA LeaveTook ==
  ASSUME FileInv, TurnInv, ~disturbed, ~disturbed', NEW w \in Writers, Busy(w), pc[w] # "newline",
         Leave(w), UNCHANGED <<fileVars, raced, last>>
  PROVE  Took
<1>1. WriterTypes /\ UNCHANGED <<disk, path, tmp>>
  BY DEF FileInv, fileVars
<1>2. \A v \in Writers \ {w} : pc[v] = "idle"
  BY AloneAtWork
<1>3. pc'[w] = "idle" /\ \A v \in Writers \ {w} : pc'[v] = "idle"
  BY <1>1, <1>2, Left
<1>4. ~raced' /\ (Exists' => disk'[path'].tail.kind = "none")
  <2>1. \A v \in Writers : pc[v] # "newline"
    BY <1>2
  <2> QED
    BY <1>1, <2>1 DEF TurnInv, Exists
<1>5. TurnInv'
  BY <1>3, <1>4, RestingNext, TurnOf
<1>6. \A v \in Writers : pc[v] # "newline" /\ pc'[v] # "newline"
  BY <1>2, <1>3
<1>7. StoreStep
  BY <1>1, <1>6, StoreKeeps
<1> QED
  BY <1>5, <1>7 DEF Took

\* A call reads the session; one that finds its mark set already returns.
LEMMA LoadTook ==
  ASSUME FileInv, TurnInv, ~disturbed, ~disturbed', NEW w \in Writers, Load(w)
  PROVE  Took
<1> DEFINE s == Readable(disk[path])
<1>1. /\ WriterTypes /\ FileTypes /\ OpAt(w) /\ pc[w] = "load" /\ Busy(w)
      /\ op[w] \in Ops
  BY DEF FileInv, Load, Busy, OpAt
<1>2. UNCHANGED <<disk, path, tmp, raced>> /\ UNCHANGED fileVars
  BY DEF Load, fileVars
<1>3. \A v \in Writers \ {w} : pc[v] = "idle"
  BY <1>1, AloneAtWork
<1>4. \A v \in Writers : pc[v] # "newline"
  BY <1>1, <1>3
<1>5. ~raced' /\ (Exists' => disk'[path'].tail.kind = "none")
  BY <1>2, <1>4 DEF TurnInv, Exists
<1>6. CASE Leave(w) /\ UNCHANGED last
  BY <1>1, <1>2, <1>6, LeaveTook
<1>7. CASE /\ Loadable /\ Leave(w) /\ op[w] \in Rewrites /\ ~Saves(op[w], s) /\ last' = op[w]
  <2>1. \A v \in Writers : pc'[v] = "idle"
    BY <1>1, <1>3, <1>7, Left
  <2>2. TurnInv'
    BY <1>5, <2>1, RestingNext, TurnOf
  <2>3. Apply(op[w], s) = s
    BY <1>7, KindsOf DEF Apply
  <2>4. StoreEffective = NoOp /\ StoreEffective' = NoOp
    BY <1>4, <2>1, EffectiveOf, EffectiveNext
  <2>5. StoreSession = {s} /\ StoreSession' = {s}
    BY <1>2, <1>7 DEF StoreSession, Loadable, Exists
  <2>6. StoreDo(op[w])
    BY <1>7, <2>3, <2>4, <2>5 DEF StoreDo, StoreLast
  <2> QED
    BY <1>1, <2>2, <2>6 DEF Took, StoreStep
<1>8. CASE /\ Loadable /\ (op[w] \in Appends \/ Saves(op[w], s)) /\ snap' = [snap EXCEPT ![w] = s]
           /\ Goto(w, IF op[w] \in Appends THEN "open" ELSE "tmp") /\ UNCHANGED <<fd, last>>
  <2>1. /\ pc'[w] = (IF op[w] \in Appends THEN "open" ELSE "tmp") /\ op' = op /\ snap'[w] = s
        /\ \A v \in Writers \ {w} : pc'[v] = "idle"
    <3>1. (IF op[w] \in Appends THEN "open" ELSE "tmp") \in Steps
      BY DEF Steps
    <3> QED
      BY <1>1, <1>3, <1>8, <3>1, Gone DEF WriterTypes
  <2>2. Exists' /\ Readable(disk'[path']) = s
    BY <1>2, <1>8 DEF Loadable, Exists
  <2>3. Turn(w)'
    <3>1. op'[w] = op[w] /\ snap'[w] = s
      BY <2>1
    <3>2. pc'[w] = "tmp" => Saves(op'[w], snap'[w])
      BY <1>8, <2>1
    <3>3. pc'[w] \in {"open", "tmp"}
      BY <2>1
    <3> QED
      BY <2>2, <3>1, <3>2, <3>3 DEF Turn
  <2>4. TurnInv'
    BY <1>5, <2>1, <2>3, TurnOf
  <2>5. \A v \in Writers : pc[v] # "newline" /\ pc'[v] # "newline"
    BY <1>4, <2>1
  <2>6. StoreStep
    BY <1>2, <1>8, <2>5, StoreKeeps
  <2> QED
    BY <2>4, <2>6 DEF Took
<1> QED
  BY <1>6, <1>7, <1>8 DEF Load, Loadable

\* The file is opened for an append.
LEMMA OpenTook ==
  ASSUME FileInv, TurnInv, ~disturbed, ~disturbed', NEW w \in Writers, Open(w)
  PROVE  Took
<1>1. WriterTypes /\ pc[w] = "open" /\ Busy(w) /\ Turn(w) /\ UNCHANGED <<fileVars, raced, last>>
  BY DEF FileInv, Open, Busy, TurnInv, historyVars
<1>2. UNCHANGED <<disk, path, tmp>>
  BY <1>1 DEF fileVars
<1>3. \A v \in Writers \ {w} : pc[v] = "idle"
  BY <1>1, AloneAtWork
<1>4. \A v \in Writers : pc[v] # "newline"
  BY <1>1, <1>3
<1>5. ~raced' /\ (Exists' => disk'[path'].tail.kind = "none")
  BY <1>1, <1>2, <1>4 DEF TurnInv, Exists
<1>6. CASE ~Exists
  BY <1>1, <1>6, LeaveTook DEF Open
<1>7. CASE Exists
  <2>1. fd' = [fd EXCEPT ![w] = path] /\ Goto(w, "text") /\ UNCHANGED snap
    BY <1>7 DEF Open
  <2>2. /\ pc'[w] = "text" /\ op' = op /\ fd'[w] = path /\ \A v \in Writers \ {w} : pc'[v] = "idle"
    <3>1. "text" \in Steps
      BY DEF Steps
    <3> QED
      BY <1>1, <1>3, <2>1, <3>1, Gone DEF WriterTypes
  <2>3. Turn(w)'
    BY <1>1, <1>2, <1>5, <1>7, <2>1, <2>2 DEF Turn, Exists
  <2>4. TurnInv'
    BY <1>5, <2>2, <2>3, TurnOf
  <2>5. \A v \in Writers : pc[v] # "newline" /\ pc'[v] # "newline"
    BY <1>4, <2>2
  <2>6. StoreStep
    BY <1>1, <1>2, <2>5, StoreKeeps
  <2> QED
    BY <2>4, <2>6 DEF Took
<1> QED
  BY <1>6, <1>7

\* The text of an append: what the reader takes for the last line is the whole effect.
LEMMA WriteTextTook ==
  ASSUME FileInv, TurnInv, ~disturbed, ~disturbed', NEW w \in Writers, WriteText(w)
  PROVE  Took
<1> DEFINE f == disk[path]
           l == Line(op[w], snap[w])
<1>1. /\ WriterTypes /\ FileTypes /\ OpAt(w) /\ Turn(w) /\ pc[w] = "text" /\ Busy(w)
  BY DEF FileInv, WriteText, Busy, TurnInv
<1>2. /\ Exists /\ path \in Inodes /\ fd[w] = path /\ f.tail.kind = "none" /\ op[w] \in Appends
      /\ op[w] \in Ops /\ snap[w] \in Session
  BY <1>1 DEF Turn, OpAt, FileTypes, Exists, WriterTypes
<1>3. /\ disk' = [disk EXCEPT ![fd[w]] = PutText(@, l)] /\ Goto(w, "newline")
      /\ UNCHANGED <<path, tmp, snap, fd, raced, last>>
  BY DEF WriteText
<1>4. FileOK(f) /\ LineOK(l)
  BY <1>1, <1>2, LineTyped DEF FileTypes
<1>5. disk'[path] = PutText(f, l)
  BY <1>1, <1>2, <1>3 DEF FileTypes
<1>6. Readable(f) = f.body /\ Readable(disk'[path]) = AddLine(f.body, l)
  BY <1>2, <1>4, <1>5, TextPut DEF Readable
<1>7. l = Line(op[w], f.body)
  BY <1>1, <1>2, <1>6, LineUnread DEF Turn
<1>8. Apply(op[w], f.body) = AddLine(f.body, l)
  BY <1>2, <1>7 DEF Apply
<1>9. \A v \in Writers \ {w} : pc[v] = "idle"
  BY <1>1, AloneAtWork
<1>10. /\ pc'[w] = "newline" /\ op' = op /\ \A v \in Writers \ {w} : pc'[v] = "idle"
  <2>1. "newline" \in Steps
    BY DEF Steps
  <2> QED
    BY <1>1, <1>3, <1>9, <2>1, Gone
<1>11. TurnInv'
  <2>1. Turn(w)'
    BY <1>2, <1>3, <1>10 DEF Turn, Exists
  <2>2. ~raced'
    BY <1>3 DEF TurnInv
  <2> QED
    BY <1>10, <2>1, <2>2, TurnOf
<1>12. StoreEffective = NoOp /\ StoreEffective' = op[w]
  BY <1>1, <1>9, <1>10, EffectiveOf, EffectiveNext
<1>13. StoreSession = {f.body} /\ StoreSession' = {Apply(op[w], f.body)}
  BY <1>2, <1>3, <1>6, <1>8 DEF StoreSession, Exists
<1>14. StoreDo(op[w])
  BY <1>3, <1>12, <1>13 DEF StoreDo, StoreLast
<1> QED
  BY <1>2, <1>11, <1>14 DEF Took, StoreStep

\* The newline changes nothing for the reader.
LEMMA NewlineRead ==
  ASSUME NEW f, FileOK(f)
  PROVE  PutNewline(f).tail.kind = "none" /\ Readable(PutNewline(f)) = Readable(f)
<1> DEFINE g == PutNewline(f)
<1>1. f = [head |-> f.head, body |-> f.body, tail |-> f.tail]
  BY DEF FileOK
<1>2. g = [f EXCEPT !.body = Readable(f), !.tail = Clean]
  BY DEF PutNewline
<1> HIDE DEF g
<1>3. g.body = Readable(f) /\ g.tail = Clean
  BY <1>1, <1>2
<1>4. g.tail.kind = "none" /\ Readable(g) = Readable(f)
  BY <1>3 DEF Readable, Clean
<1> QED
  BY <1>4 DEF g

\* The newline: the append returns.
LEMMA WriteNewlineTook ==
  ASSUME FileInv, TurnInv, ~disturbed, ~disturbed', NEW w \in Writers, WriteNewline(w)
  PROVE  Took
<1> DEFINE f == disk[path]
<1>1. /\ WriterTypes /\ FileTypes /\ OpAt(w) /\ Turn(w) /\ pc[w] = "newline" /\ Busy(w) /\ Kept
      /\ ~raced
  BY DEF FileInv, WriteNewline, Busy, TurnInv
<1>2. /\ Exists /\ path \in Inodes /\ fd[w] = path /\ op[w] \in Ops /\ Loadable
  BY <1>1 DEF Turn, OpAt, FileTypes, Exists, Kept, Loadable
<1>3. disk'[path] = PutNewline(f) /\ FileOK(f)
  BY <1>1, <1>2 DEF FileTypes, WriteNewline
<1>4. disk'[path].tail.kind = "none" /\ Readable(disk'[path]) = Readable(f)
  BY <1>3, NewlineRead
<1>5. path' = path /\ ~raced'
  BY <1>1 DEF WriteNewline
<1>6. last' = op[w]
  <2>1. Loadable'
    BY <1>2, <1>3, <1>5, NewlinePut DEF Loadable, Exists
  <2> QED
    BY <1>2, <2>1 DEF WriteNewline
<1>7. \A v \in Writers \ {w} : pc[v] = "idle"
  BY <1>1, AloneAtWork
<1>8. \A v \in Writers : pc'[v] = "idle"
  <2>1. Leave(w)
    BY DEF WriteNewline
  <2> QED
    BY <1>1, <1>7, <2>1, Left
<1>9. TurnInv'
  BY <1>4, <1>5, <1>8, RestingNext, TurnOf
<1>10. StoreEffective = op[w] /\ StoreEffective' = NoOp
  BY <1>1, <1>7, <1>8, EffectiveOf, EffectiveNext
<1>11. StoreSession' = StoreSession
  BY <1>2, <1>4, <1>5 DEF StoreSession, Exists
<1>12. StoreReturn
  BY <1>2, <1>6, <1>10, <1>11, KindsOf DEF StoreReturn, StoreLast
<1> QED
  BY <1>9, <1>12 DEF Took, StoreStep

\* The temporary file is opened.
LEMMA OpenTmpTook ==
  ASSUME FileInv, TurnInv, ~disturbed, ~disturbed', NEW w \in Writers, OpenTmp(w)
  PROVE  Took
<1>1. /\ WriterTypes /\ FileTypes /\ Turn(w) /\ pc[w] = "tmp" /\ Busy(w)
      /\ (Exists => path # tmp)
  BY DEF FileInv, OpenTmp, Busy, TurnInv
<1>2. \A v \in Writers \ {w} : pc[v] = "idle"
  BY <1>1, AloneAtWork
<1>3. PICK i \in Inodes : /\ IF tmp # NoFile THEN i = tmp ELSE i # path
                          /\ tmp' = i /\ disk' = [disk EXCEPT ![i] = Empty] /\ fd' = [fd EXCEPT ![w] = i]
  BY DEF OpenTmp
<1>4. Goto(w, "fill") /\ path' = path /\ snap' = snap /\ last' = last
  BY DEF OpenTmp
<1>5. Exists /\ path \in Inodes /\ i # path
  BY <1>1, <1>3 DEF Turn, Exists, FileTypes
<1>6. disk'[path] = disk[path] /\ disk'[i] = Empty
  BY <1>1, <1>3, <1>5 DEF FileTypes
<1>7. ~raced'
  <2>1. Others(w) = {}
    BY <1>2 DEF Others, Busy
  <2> QED
    BY <2>1 DEF OpenTmp, TurnInv
<1>8. /\ pc'[w] = "fill" /\ op' = op /\ fd'[w] = i /\ \A v \in Writers \ {w} : pc'[v] = "idle"
  <2>1. "fill" \in Steps
    BY DEF Steps
  <2> QED
    BY <1>1, <1>2, <1>3, <1>4, <2>1, Gone DEF WriterTypes
<1>9. \A v \in Writers : pc[v] # "newline" /\ pc'[v] # "newline"
  BY <1>1, <1>2, <1>8
<1>10. TurnInv'
  <2>1. Turn(w)'
    BY <1>1, <1>3, <1>4, <1>5, <1>6, <1>8 DEF Turn, Exists
  <2>2. disk'[path'].tail.kind = "none"
    BY <1>4, <1>5, <1>6, <1>9 DEF TurnInv
  <2> QED
    BY <1>7, <1>8, <2>1, <2>2, TurnOf
<1>11. StoreStep
  BY <1>4, <1>6, <1>9, StoreKeeps
<1> QED
  BY <1>10, <1>11 DEF Took

\* Writing into an empty file leaves nothing else in it.
LEMMA OverEmpty ==
  ASSUME NEW s \in Session, NEW g \in Overwrite(s, Empty)
  PROVE  g = Whole(s)
<1>1. Empty.body.msgs = {} /\ Empty.tail = Clean
  BY DEF Empty, Fresh
<1>2. s = [msgs |-> s.msgs, meta |-> s.meta]
  BY SessionParts
<1>3. ASSUME NEW k, g = [Whole(s) EXCEPT !.body.msgs = @ \cup {x \in Empty.body.msgs : x.id >= k}, !.tail = Empty.tail]
      PROVE  g = Whole(s)
  <2>1. {x \in Empty.body.msgs : x.id >= k} = {}
    BY <1>1
  <2>2. g = [Whole(s) EXCEPT !.body.msgs = @ \cup {}, !.tail = Clean]
    BY <1>1, <1>3, <2>1
  <2>3. g = [head |-> TRUE, body |-> [s EXCEPT !.msgs = s.msgs \cup {}], tail |-> Clean]
    BY <2>2 DEF Whole
  <2>4. [s EXCEPT !.msgs = s.msgs \cup {}] = s
    BY <1>2
  <2> QED
    BY <2>3, <2>4 DEF Whole
<1> QED
  BY <1>3, Zenon DEF Overwrite

\* It is filled.
LEMMA FillTook ==
  ASSUME FileInv, TurnInv, ~disturbed, ~disturbed', NEW w \in Writers, Fill(w)
  PROVE  Took
<1> DEFINE r == Rewritten(op[w], snap[w])
<1>1. /\ WriterTypes /\ FileTypes /\ Turn(w) /\ OpAt(w) /\ FdApart(w) /\ pc[w] = "fill" /\ Busy(w)
      /\ (Exists => path # tmp)
  BY DEF FileInv, Fill, Busy, TurnInv
<1>2. \A v \in Writers \ {w} : pc[v] = "idle"
  BY <1>1, AloneAtWork
<1>3. r \in Session
  BY <1>1, RewrittenTyped DEF OpAt, WriterTypes
<1>4. fd[w] = tmp /\ tmp \in Inodes /\ disk[tmp] = Empty /\ Exists /\ path \in Inodes /\ path # tmp
  BY <1>1 DEF Turn, FdApart, FileTypes, Exists
<1>5. /\ Goto(w, "rename") /\ UNCHANGED <<path, tmp, snap, fd, raced, last>>
      /\ \E g \in Overwrite(r, disk[fd[w]]) : disk' = [disk EXCEPT ![fd[w]] = g]
  BY DEF Fill, historyVars
<1>6. disk' = [disk EXCEPT ![tmp] = Whole(r)]
  BY <1>3, <1>4, <1>5, OverEmpty
<1>7. disk'[path] = disk[path] /\ disk'[tmp] = Whole(r)
  BY <1>1, <1>4, <1>6 DEF FileTypes
<1>8. /\ pc'[w] = "rename" /\ op' = op /\ \A v \in Writers \ {w} : pc'[v] = "idle"
  <2>1. "rename" \in Steps
    BY DEF Steps
  <2> QED
    BY <1>1, <1>2, <1>5, <2>1, Gone
<1>9. \A v \in Writers : pc[v] # "newline" /\ pc'[v] # "newline"
  BY <1>1, <1>2, <1>8
<1>10. TurnInv'
  <2>1. Turn(w)'
    BY <1>1, <1>4, <1>5, <1>7, <1>8 DEF Turn, Exists
  <2>2. disk'[path'].tail.kind = "none" /\ ~raced'
    BY <1>4, <1>5, <1>7, <1>9 DEF TurnInv
  <2> QED
    BY <1>8, <2>1, <2>2, TurnOf
<1>11. StoreStep
  BY <1>5, <1>7, <1>9, StoreKeeps
<1> QED
  BY <1>10, <1>11 DEF Took

\* The rename is the whole effect of a rewrite, and its return.
LEMMA RenameTook ==
  ASSUME FileInv, TurnInv, ~disturbed, ~disturbed', NEW w \in Writers, Rename(w)
  PROVE  Took
<1> DEFINE r == Rewritten(op[w], snap[w])
<1>1. /\ WriterTypes /\ FileTypes /\ Turn(w) /\ OpAt(w) /\ FdApart(w) /\ pc[w] = "rename" /\ Busy(w)
  BY DEF FileInv, Rename, Busy, TurnInv
<1>2. \A v \in Writers \ {w} : pc[v] = "idle"
  BY <1>1, AloneAtWork
<1>3. /\ tmp \in Inodes /\ tmp # NoFile /\ disk[tmp] = Whole(r) /\ Exists
      /\ snap[w] = Readable(disk[path]) /\ Saves(op[w], snap[w])
      /\ op[w] \in Rewrites /\ op[w] \in Ops /\ op[w] \notin Appends
  BY <1>1, FileAssumption, KindsOf DEF Turn, FdApart, OpAt
<1>4. path' = tmp /\ last' = op[w] /\ disk' = disk /\ raced' = raced /\ Leave(w)
  BY <1>3 DEF Rename
<1>5. \A v \in Writers : pc'[v] = "idle"
  BY <1>1, <1>2, <1>4, Left
<1>6. Readable(disk'[path']) = r /\ disk'[path'].tail.kind = "none"
  BY <1>3, <1>4 DEF Whole, Readable, Clean
<1>7. TurnInv'
  <2>1. ~raced'
    BY <1>4 DEF TurnInv
  <2> QED
    BY <1>5, <1>6, <2>1, RestingNext, TurnOf
<1>8. StoreEffective = NoOp /\ StoreEffective' = NoOp
  BY <1>1, <1>2, <1>5, EffectiveOf, EffectiveNext
<1>9. StoreSession = {snap[w]} /\ StoreSession' = {r}
  BY <1>3, <1>4, <1>6 DEF StoreSession, Exists
<1>10. Apply(op[w], snap[w]) = r
  BY <1>3 DEF Apply
<1>11. StoreDo(op[w])
  BY <1>4, <1>8, <1>9, <1>10 DEF StoreDo, StoreLast
<1> QED
  BY <1>3, <1>7, <1>11 DEF Took, StoreStep

\* The session is deleted while nobody is at work.
LEMMA DeleteTook ==
  ASSUME FileInv, TurnInv, ~disturbed, ~disturbed', Delete
  PROVE  Took
<1>1. /\ path' = NoFile /\ pc' = pc /\ raced' = raced /\ last' = last
      /\ \A w \in Writers : pc[w] = "idle"
  BY DEF Delete, writerVars, Busy
<1>2. TurnInv'
  <2>1. \A w \in Writers : Turn(w)' /\ ~Busy(w)'
    BY <1>1, RestingNext DEF Busy
  <2>2. ~raced' /\ ~Exists'
    BY <1>1 DEF TurnInv, Exists
  <2> QED
    BY <2>1, <2>2 DEF TurnInv
<1>3. StoreEffective = NoOp /\ StoreEffective' = NoOp
  BY <1>1, EffectiveOf, EffectiveNext
<1>4. StoreSession' = {} /\ StoreLast' = StoreLast
  BY <1>1 DEF StoreSession, Exists, StoreLast
<1>5. StoreDelete
  BY <1>3, <1>4 DEF StoreDelete
<1> QED
  BY <1>2, <1>5 DEF Took, StoreStep

\* Every step that leaves the turns undisturbed keeps them, and is a step of the store.
LEMMA TurnTaken ==
  ASSUME FileInv, TurnInv, [Next]_vars, ~disturbed'
  PROVE  Took
<1>1. CASE UNCHANGED vars
  <2>1. UNCHANGED <<disk, path, tmp, pc, op, snap, fd, raced, disturbed, last>>
    BY <1>1 DEF vars, fileVars, writerVars, historyVars
  <2>2. ~disturbed
    BY <2>1
  <2>3. TurnInv'
    BY <2>1 DEF TurnInv, Turn, Busy, Exists
  <2>4. StoreKept
    BY <2>1 DEF StoreKept, StoreSession, StoreEffective, StoreLast, Exists
  <2> QED
    BY <2>3, <2>4 DEF Took, StoreStep
<1>2. CASE Delete
  <2>1. ~disturbed
    BY <1>2 DEF Delete
  <2> QED
    BY <1>2, <2>1, DeleteTook
<1>3. ASSUME NEW w \in Writers, Crash(w) PROVE Took
  <2>1. ~disturbed /\ pc[w] # "newline"
    BY <1>3 DEF Crash
  <2> QED
    BY <1>3, <2>1, LeaveTook DEF Crash
<1>4. ASSUME NEW w \in Writers, Write(w) PROVE Took
  <2>1. ~disturbed
    BY <1>4 DEF Write, Start, Load, Open, WriteText, WriteNewline, OpenTmp, Fill, Rename, historyVars
  <2> QED
    BY <1>4, <2>1, StartTook, LoadTook, OpenTook, WriteTextTook, WriteNewlineTook, OpenTmpTook,
       FillTook, RenameTook DEF Write
<1> QED
  BY <1>1, <1>2, <1>3, <1>4 DEF Next

\* Turns are taken from the start.
LEMMA TurnInit == Init => TurnInv
<1> SUFFICES ASSUME Init PROVE TurnInv
  OBVIOUS
<1>1. disk[path] = Whole(Fresh) /\ ~raced /\ \A w \in Writers : pc[w] = "idle"
  BY DEF Init
<1> QED
  BY <1>1, Resting DEF TurnInv, Busy, Whole, Clean

\* Every step keeps what holds of them.
LEMMA TurnStep == FileInv /\ TurnInv /\ [Next]_vars => TurnInv'
<1>1. disturbed' => TurnInv'
  BY DEF TurnInv
<1> QED
  BY <1>1, TurnTaken DEF Took

\* The history is a truth value.
DisturbedType == disturbed \in BOOLEAN

\* Every step keeps it one.
LEMMA DisturbedStep == DisturbedType /\ [Next]_vars => DisturbedType'
<1> USE DEF DisturbedType
<1> SUFFICES ASSUME disturbed \in BOOLEAN, [Next]_vars PROVE disturbed' \in BOOLEAN
  OBVIOUS
<1>1. CASE UNCHANGED vars
  BY <1>1 DEF vars, historyVars
<1>2. CASE Delete
  BY <1>2 DEF Delete
<1>3. ASSUME NEW w \in Writers, Crash(w) PROVE disturbed' \in BOOLEAN
  BY <1>3 DEF Crash
<1>4. ASSUME NEW w \in Writers, Write(w) PROVE disturbed' \in BOOLEAN
  BY <1>4 DEF Write, Start, Load, Open, WriteText, WriteNewline, OpenTmp, Fill, Rename, historyVars
<1> QED
  BY <1>1, <1>2, <1>3, <1>4 DEF Next

-----------------------------------------------------------------------------
\* The operations of the store are those of the file.
LEMMA SameOps ==
  /\ Store!Ops = Ops /\ Store!Fresh = Fresh /\ Store!None = NoOp
  /\ \A o, s : Store!Apply(o, s) = Apply(o, s)
<1>1. Store!Ops = Ops /\ Store!Appends = Appends
  BY DEF Ops, Appends, Rewrites, Messages, Titles, Modes, Store!Ops, Store!Appends, Store!Rewrites,
         Store!Messages, Store!Titles, Store!Modes
<1>2. Store!Fresh = Fresh /\ Store!None = NoOp
  BY DEF Fresh, Store!Fresh, NoOp, Store!None
<1>3. ASSUME NEW o, NEW s PROVE Store!Line(o, s) = Line(o, s)
  BY DEF Line, Store!Line, ModeUpdate, Store!ModeUpdate, BumpUpdate, Store!BumpUpdate
<1>4. ASSUME NEW s, NEW l PROVE Store!AddLine(s, l) = AddLine(s, l)
  BY DEF AddLine, Store!AddLine, Override, Store!Override
<1>5. ASSUME NEW s PROVE Store!Ids(s) = Ids(s)
  BY DEF Ids, Store!Ids
<1>6. ASSUME NEW o, NEW s PROVE Store!Saves(o, s) = Saves(o, s)
  BY <1>5 DEF Saves, Store!Saves, MayUndo, Store!MayUndo
<1>7. ASSUME NEW o, NEW s PROVE Store!Rewritten(o, s) = Rewritten(o, s)
  BY <1>5 DEF Rewritten, Store!Rewritten, SetMark, Store!SetMark, TruncateAfter, Store!TruncateAfter,
              TruncateInclusive, Store!TruncateInclusive, Undo, Store!Undo
<1> QED
  BY <1>1, <1>2, <1>3, <1>4, <1>6, <1>7 DEF Apply, Store!Apply

\* As long as the writers take turns and no append is torn, the file implements the
\* abstract store (TakesTurns): each append, update, mark, truncation, undone compaction
\* or deletion takes effect whole and in turn, crashes of rewrites included. An append
\* takes effect with its text and returns with its newline (append_line); a rewrite does
\* both with the rename (write_jsonl_full).
THEOREM FileTakesTurns == Spec => TakesTurns
<1>1. Init => Store!Init
  <2> SUFFICES ASSUME Init PROVE Store!Init
    OBVIOUS
  <2>1. /\ Exists /\ disk[path] = Whole(Fresh) /\ ~disturbed /\ disturbed = FALSE /\ last = NoOp
        /\ \A w \in Writers : pc[w] # "newline"
    BY FileAssumption DEF Init, Exists
  <2>2. Readable(disk[path]) = Fresh
    BY <2>1 DEF Readable, Whole, Clean
  <2> QED
    BY <2>1, <2>2, SameOps DEF Store!Init
<1>2. FileInv /\ TurnInv /\ DisturbedType /\ [Next]_vars => [Store!Next]_Store!storeVars
  <2> SUFFICES ASSUME FileInv, TurnInv, DisturbedType, [Next]_vars PROVE [Store!Next]_Store!storeVars
    OBVIOUS
  <2>1. CASE disturbed'
    BY <2>1, SameOps DEF Store!Next, Store!Disturb
  <2>2. CASE ~disturbed'
    <3>1. ~disturbed
      BY <2>2 DEF Next, Delete, Write, Start, Load, Open, WriteText, WriteNewline, OpenTmp, Fill, Rename, Crash, historyVars, vars
    <3>2. disturbed' = disturbed
      BY <2>2, <3>1, DisturbedStep DEF DisturbedType
    <3>3. StoreStep
      BY <2>2, TurnTaken DEF Took
    <3>4. ASSUME NEW o \in Ops, StoreDo(o) PROVE Store!Do(o)
      BY <2>2, <3>1, <3>2, <3>4, SameOps DEF StoreDo, Store!Do, StoreSession, StoreEffective, StoreLast
    <3>5. StoreReturn => Store!Return
      BY <2>2, <3>1, <3>2, SameOps DEF StoreReturn, Store!Return, StoreSession, StoreEffective, StoreLast
    <3>6. StoreDelete => Store!Delete
      BY <2>2, <3>1, <3>2, SameOps DEF StoreDelete, Store!Delete, StoreSession, StoreEffective, StoreLast
    <3>7. StoreKept => UNCHANGED Store!storeVars
      BY <2>2, <3>1, <3>2 DEF StoreKept, Store!storeVars, StoreSession, StoreEffective, StoreLast
    <3> QED
      BY <3>3, <3>4, <3>5, <3>6, <3>7, SameOps DEF StoreStep, Store!Next
  <2> QED
    BY <2>1, <2>2
<1>3. Init => DisturbedType
  BY DEF Init, DisturbedType
<1>4. Spec => [](FileInv /\ TurnInv /\ DisturbedType)
  BY <1>3, FileInit, FileStep, TurnInit, TurnStep, DisturbedStep, PTL DEF Spec
<1> QED
  BY <1>1, <1>2, <1>4, PTL DEF Spec, TakesTurns, Store!Spec

=============================================================================
