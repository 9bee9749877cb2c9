----------------------------- MODULE SessionFile -----------------------------
(***************************************************************************)
(* session.jsonl on disk (crates/agent-core/src/storage/sessions.rs): the  *)
(* appends (append_line: open, write the text, write the newline) and the  *)
(* rewrites (load, change, write session.jsonl.tmp, rename it over the     *)
(* file) of tasks and processes that take no common lock.                  *)
(*                                                                         *)
(* A file is an inode, and what is in it is kept as its reader takes it:   *)
(* head says that the Meta line is there, body is what the complete lines  *)
(* before the last newline add up to, tail what follows: nothing, one      *)
(* line, or several texts without a newline between them, which read_jsonl *)
(* skips as malformed.  A single write call is taken to write all of it.   *)
(***************************************************************************)
EXTENDS SessionData

CONSTANTS
  Writers,    \* the tasks and processes that write the session
  Rewriters,  \* those of them that make whole-file rewrites
  MaxOps,     \* bound: operations begun
  Inodes,     \* for session.jsonl, session.jsonl.tmp and files that are only open
  NoFile

ASSUME FileAssumption == Rewriters \subseteq Writers /\ MaxOps \in Nat /\ NoFile \notin Inodes

NoLine == [msgs |-> {}, upd |-> << >>]
Clean == [kind |-> "none", line |-> NoLine]
Malformed == [kind |-> "malformed", line |-> NoLine]
NoOp == [kind |-> "none"]
Empty == [head |-> FALSE, body |-> Fresh, tail |-> Clean]
Whole(s) == [head |-> TRUE, body |-> s, tail |-> Clean]

VARIABLES
  disk,       \* per inode: what is in it
  path,       \* the inode session.jsonl names
  tmp,        \* the inode session.jsonl.tmp names
  pc,         \* per writer: the step it is at
  op,         \* per writer: the operation
  snap,       \* per writer: the session it has loaded
  fd,         \* per writer: the file it has open
  ops,        \* operations begun
  begun,      \* messages somebody has begun to append
  acked,      \* history: messages whose append has returned Ok
  cut,        \* history: messages an operation was asked to remove
  exposed,    \* history: messages whose append overlapped with another write
  raced,      \* history: two rewrites had session.jsonl.tmp open at once
  disturbed,  \* history: two operations overlapped, or a crash tore an append
  last        \* history: the operation that last returned Ok

fileVars == <<disk, path, tmp>>
writerVars == <<pc, op, snap, fd>>
boundVars == <<ops, begun>>
historyVars == <<acked, cut, exposed, raced, disturbed, last>>
vars == <<fileVars, writerVars, boundVars, historyVars>>

Steps == {"idle", "load", "open", "text", "newline", "tmp", "fill", "rename"}

Busy(w) == pc[w] # "idle"
Others(w) == {o \in Writers \ {w} : Busy(o)}
MessageOf(o) == IF o.kind = "message" THEN {o.m} ELSE {}
InFlight(W) == UNION {MessageOf(op[o]) : o \in W}

\* What read_jsonl makes of a file: a last line without its newline counts.
Readable(f) == IF f.tail.kind = "line" THEN AddLine(f.body, f.tail.line) ELSE f.body

PutText(f, l) ==
  [f EXCEPT !.tail = IF @.kind = "none" THEN [kind |-> "line", line |-> l] ELSE Malformed]

PutNewline(f) == [f EXCEPT !.body = Readable(f), !.tail = Clean]

\* Writing s from the start of a file that holds f: what is longer than s stays.
Overwrite(s, f) ==
  {Whole(s)} \cup
    {[Whole(s) EXCEPT !.body.msgs = @ \cup {x \in f.body.msgs : x.id >= k}, !.tail = f.tail] :
       k \in {i \in Messages : \A j \in Ids(s) : j < i}}

Init ==
  /\ path \in Inodes
  /\ disk = [i \in Inodes |-> IF i = path THEN Whole(Fresh) ELSE Empty]
  /\ tmp = NoFile
  /\ pc = [w \in Writers |-> "idle"]
  /\ op = [w \in Writers |-> NoOp]
  /\ snap = [w \in Writers |-> Fresh]
  /\ fd = [w \in Writers |-> NoFile]
  /\ ops = 0
  /\ begun = {}
  /\ acked = {}
  /\ cut = {}
  /\ exposed = {}
  /\ raced = FALSE
  /\ disturbed = FALSE
  /\ last = NoOp

\* The call returns, with an answer or an error.
Leave(w) ==
  /\ pc' = [pc EXCEPT ![w] = "idle"]
  /\ op' = [op EXCEPT ![w] = NoOp]
  /\ snap' = [snap EXCEPT ![w] = Fresh]
  /\ fd' = [fd EXCEPT ![w] = NoFile]

Goto(w, step) == pc' = [pc EXCEPT ![w] = step] /\ UNCHANGED op

Exists == path # NoFile
Loadable == Exists /\ disk[path].head

\* A surface or a run calls one of the operations.
Start(w, o) ==
  /\ ~Busy(w)
  /\ ops < MaxOps
  /\ o \in Rewrites => w \in Rewriters
  /\ MessageOf(o) \cap begun = {}
  /\ ops' = ops + 1
  /\ begun' = begun \cup MessageOf(o)
  /\ pc' = [pc EXCEPT ![w] = IF Loads(o) THEN "load" ELSE "open"]
  /\ op' = [op EXCEPT ![w] = o]
  /\ exposed' = exposed \cup InFlight(Others(w))
                  \cup (IF Others(w) = {} THEN {} ELSE MessageOf(o))
  /\ disturbed' = (disturbed \/ Others(w) # {})
  /\ UNCHANGED <<fileVars, snap, fd, acked, cut, raced, last>>

\* Mutant: the caller's session is saved as it was handed out earlier.
LoadStale(w) ==
  /\ pc[w] = "load"
  /\ Goto(w, IF op[w] \in Appends THEN "open" ELSE "tmp")
  /\ UNCHANGED <<fileVars, snap, fd, boundVars, historyVars>>

Load(w) ==
  /\ pc[w] = "load"
  /\ IF Loadable
       THEN LET s == Readable(disk[path])
            IN  \/ /\ op[w] \in Appends \/ Saves(op[w], s)
                   /\ snap' = [snap EXCEPT ![w] = s]
                   /\ Goto(w, IF op[w] \in Appends THEN "open" ELSE "tmp")
                   /\ UNCHANGED <<fd, last>>
                \/ /\ op[w] \in Rewrites /\ ~Saves(op[w], s)
                   /\ last' = IF op[w].kind = "mark" THEN op[w] ELSE last
                   /\ Leave(w)
       ELSE Leave(w) /\ UNCHANGED last
  /\ UNCHANGED <<fileVars, boundVars, acked, cut, exposed, raced, disturbed>>

Open(w) ==
  /\ pc[w] = "open"
  /\ IF Exists
       THEN /\ fd' = [fd EXCEPT ![w] = path]
            /\ Goto(w, "text")
            /\ UNCHANGED snap
       ELSE Leave(w)
  /\ UNCHANGED <<fileVars, boundVars, historyVars>>

WriteText(w) ==
  /\ pc[w] = "text"
  /\ disk' = [disk EXCEPT ![fd[w]] = PutText(@, Line(op[w], snap[w]))]
  /\ Goto(w, "newline")
  /\ exposed' = IF disk[fd[w]].tail.kind = "none" THEN exposed
                ELSE exposed \cup MessageOf(op[w])
  /\ UNCHANGED <<path, tmp, snap, fd, boundVars, acked, cut, raced, disturbed, last>>

\* The newline, and the load whose result the caller gets.
WriteNewline(w) ==
  /\ pc[w] = "newline"
  /\ disk' = [disk EXCEPT ![fd[w]] = PutNewline(@)]
  /\ IF Loadable
       THEN acked' = acked \cup MessageOf(op[w]) /\ last' = op[w]
       ELSE UNCHANGED <<acked, last>>
  /\ Leave(w)
  /\ UNCHANGED <<path, tmp, boundVars, cut, exposed, raced, disturbed>>

\* Mutant: the rewrite is made in place.
OpenInPlace(w) ==
  /\ pc[w] = "tmp" /\ Exists
  /\ disk' = [disk EXCEPT ![path] = Empty]
  /\ fd' = [fd EXCEPT ![w] = path]
  /\ Goto(w, "fill")
  /\ UNCHANGED <<path, tmp, snap, boundVars, historyVars>>

\* std::fs::write opens the temporary file, which has one name for all, and empties it.
OpenTmp(w) ==
  /\ pc[w] = "tmp"
  /\ \E i \in Inodes :
       /\ IF tmp # NoFile THEN i = tmp
          ELSE i # path /\ \A o \in Writers : fd[o] # i
       /\ tmp' = i
       /\ disk' = [disk EXCEPT ![i] = Empty]
       /\ fd' = [fd EXCEPT ![w] = i]
  /\ raced' = (raced \/ \E o \in Others(w) : pc[o] \in {"fill", "rename"})
  /\ Goto(w, "fill")
  /\ UNCHANGED <<path, snap, boundVars, acked, cut, exposed, disturbed, last>>

Fill(w) ==
  /\ pc[w] = "fill"
  /\ \E f \in Overwrite(Rewritten(op[w], snap[w]), disk[fd[w]]) :
       disk' = [disk EXCEPT ![fd[w]] = f]
  /\ Goto(w, "rename")
  /\ UNCHANGED <<path, tmp, snap, fd, boundVars, historyVars>>

\* Mutant: the temporary file is left where it is.
RenameForgotten(w) ==
  /\ pc[w] = "rename"
  /\ last' = op[w]
  /\ Leave(w)
  /\ UNCHANGED <<fileVars, boundVars, acked, cut, exposed, raced, disturbed>>

Rename(w) ==
  /\ pc[w] = "rename"
  /\ IF tmp # NoFile
       THEN /\ path' = tmp
            /\ tmp' = NoFile
            /\ cut' = cut \cup (Ids(snap[w]) \ Ids(Rewritten(op[w], snap[w])))
            /\ last' = op[w]
       ELSE UNCHANGED <<path, tmp, cut, last>>
  /\ Leave(w)
  /\ UNCHANGED <<disk, boundVars, acked, exposed, raced, disturbed>>

\* The directory of the session goes, with all that is in it.
Delete ==
  /\ Exists
  /\ ops < MaxOps
  /\ ops' = ops + 1
  /\ path' = NoFile
  /\ tmp' = NoFile
  /\ cut' = cut \cup acked
  /\ exposed' = exposed \cup InFlight({w \in Writers : Busy(w)})
  /\ disturbed' = (disturbed \/ \E w \in Writers : Busy(w))
  /\ UNCHANGED <<disk, writerVars, begun, acked, raced, last>>

\* The process of a writer dies between two calls of the operating system.
Crash(w) ==
  /\ Busy(w)
  /\ disturbed' = (disturbed \/ pc[w] = "newline")
  /\ Leave(w)
  /\ UNCHANGED <<fileVars, boundVars, acked, cut, exposed, raced, last>>

Write(w) ==
  \/ \E o \in Ops : Start(w, o)
  \/ Load(w) \/ Open(w) \/ WriteText(w) \/ WriteNewline(w)
  \/ OpenTmp(w) \/ Fill(w) \/ Rename(w)

Next == Delete \/ \E w \in Writers : Write(w) \/ Crash(w)

Spec == Init /\ [][Next]_vars
-----------------------------------------------------------------------------
TypeOK ==
  /\ path \in Inodes \cup {NoFile}
  /\ tmp \in Inodes \cup {NoFile}
  /\ pc \in [Writers -> Steps]
  /\ fd \in [Writers -> Inodes \cup {NoFile}]
  /\ \A i \in Inodes :
       /\ disk[i].head \in BOOLEAN
       /\ disk[i].body \in Session
       /\ disk[i].tail.kind \in {"none", "line", "malformed"}
  /\ \A w \in Writers : snap[w] \in Session /\ op[w] \in Ops \cup {NoOp}
  /\ ops \in 0..MaxOps
  /\ begun \subseteq Messages
  /\ acked \cup exposed \subseteq begun

\* As long as the writers take turns and no append is torn, the file behaves as a
\* session that each operation changes as a whole before it returns: appends, updates
\* of the metadata, marks, truncations, undone compactions and the deletion
\* (sessions.rs), crashes of rewrites included.
Store == INSTANCE SessionStore WITH
  session <- IF disturbed \/ ~Exists THEN {} ELSE {Readable(disk[path])},
  effective <- IF \E w \in Writers : ~disturbed /\ pc[w] = "newline"
                 THEN op[CHOOSE w \in Writers : pc[w] = "newline"] ELSE NoOp,
  last <- IF disturbed THEN NoOp ELSE last,
  disturbed <- disturbed

TakesTurns == Store!Spec

\* Whatever appends, rewrites and crashes coincide, session.jsonl can be loaded at any
\* moment: its Meta line is missing only after two rewrites had the temporary file,
\* which has a fixed name, open at the same time (write_jsonl_full).
HeaderSurvives == ~raced /\ Exists => disk[path].head

\* A message is not lost to what happens later: once its append was acknowledged, and
\* no other write overlapped with that append, it stays readable through all appends,
\* rewrites and crashes until an operation removes it on purpose.
SettledStays == ~raced /\ Exists => acked \ (cut \cup exposed) \subseteq Ids(Readable(disk[path]))
=============================================================================
