----------------------------- MODULE SessionData -----------------------------
(***************************************************************************)
(* What a session is once its file has been read, and what the operations  *)
(* of crates/agent-core/src/storage/sessions.rs do to it.  The history is  *)
(* the set of its messages: read_jsonl sorts by created_at, so a message   *)
(* is its number in that order, with a mark that is filled in afterwards   *)
(* (run_duration_ms, the status of a forward marker).  Of the metadata     *)
(* there are four fields, one for each way a field is written: title       *)
(* (alone), run_mode with pre_plan_mode (the one decides the other) and    *)
(* token_stats (together with a copy of all the others).                   *)
(***************************************************************************)
EXTENDS Integers

CONSTANTS
  MaxMsg,    \* bound: messages, numbered in the order of created_at
  Markers    \* those that are markers (role Marker)

ASSUME DataAssumption ==
  /\ MaxMsg \in Nat
  /\ Markers \subseteq 1..MaxMsg

Messages == 1..MaxMsg
Modes == {"default", "plan"}
Titles == {"new", "named"}
Message == [id : Messages, mark : BOOLEAN]
Metadata == [title : Titles, mode : Modes, prior : Modes \cup {"none"}, stats : Nat]
Session == [msgs : SUBSET Message, meta : Metadata]

Fresh == [msgs |-> {},
          meta |-> [title |-> "new", mode |-> "default", prior |-> "none", stats |-> 0]]

Ids(s) == {m.id : m \in s.msgs}

\* An update line: the fields of MetaUpdate that are Some.
Override(meta, upd) == [f \in DOMAIN meta |-> IF f \in DOMAIN upd THEN upd[f] ELSE meta[f]]

\* set_run_mode: entering PlanMode records the mode it leaves.
ModeUpdate(s, v) ==
  IF v = "plan" /\ s.meta.mode # "plan"
    THEN [mode |-> v, prior |-> s.meta.mode]
    ELSE [mode |-> v]

\* update_meta, as bump_token_stats calls it: every field as it was read.  A field
\* that is None writes nothing.
BumpUpdate(s) ==
  LET all == [s.meta EXCEPT !.stats = @ + 1]
      None == IF s.meta.prior = "none" THEN {"prior"} ELSE {}
  IN  [f \in DOMAIN all \ None |-> all[f]]

SetMark(s, m) ==
  [s EXCEPT !.msgs = {IF x.id = m THEN [x EXCEPT !.mark = TRUE] ELSE x : x \in @}]

TruncateAfter(s, m) ==
  IF m \in Ids(s) THEN [s EXCEPT !.msgs = {x \in @ : x.id <= m}] ELSE s

TruncateInclusive(s, m) ==
  IF m \in Ids(s) THEN [s EXCEPT !.msgs = {x \in @ : x.id < m}] ELSE s

\* undo_compaction is refused when something was said after the marker.
MayUndo(s, m) ==
  /\ m \in Ids(s) \cap Markers
  /\ {i \in Ids(s) : i > m} \subseteq Markers

Undo(s, m) == [s EXCEPT !.msgs = {x \in @ : x.id # m}]

(***************************************************************************)
(* The operations.  An append adds a line; a rewrite replaces the file.    *)
(***************************************************************************)
Appends ==
  [kind : {"message"}, m : Messages] \cup [kind : {"title"}, v : Titles]
    \cup [kind : {"mode"}, v : Modes] \cup [kind : {"bump"}]

Rewrites ==
  [kind : {"mark", "after", "inclusive", "undo"}, m : Messages]
    \cup [kind : {"settings"}, v : Titles]

Ops == Appends \cup Rewrites

\* These read the session before they write it.
Loads(o) == o.kind \in {"mode", "bump"} \/ o \in Rewrites

Line(o, s) ==
  CASE o.kind = "message" -> [msgs |-> {[id |-> o.m, mark |-> FALSE]}, upd |-> << >>]
    [] o.kind = "title" -> [msgs |-> {}, upd |-> [title |-> o.v]]
    [] o.kind = "mode" -> [msgs |-> {}, upd |-> ModeUpdate(s, o.v)]
    [] o.kind = "bump" -> [msgs |-> {}, upd |-> BumpUpdate(s)]

AddLine(s, l) == [msgs |-> s.msgs \cup l.msgs, meta |-> Override(s.meta, l.upd)]

\* A rewrite that has nothing to change does not save.
Saves(o, s) ==
  CASE o.kind = "mark" -> o.m \in Ids(s)
    [] o.kind = "undo" -> MayUndo(s, o.m)
    [] OTHER -> TRUE

Rewritten(o, s) ==
  CASE o.kind = "mark" -> SetMark(s, o.m)
    [] o.kind = "after" -> TruncateAfter(s, o.m)
    [] o.kind = "inclusive" -> TruncateInclusive(s, o.m)
    [] o.kind = "undo" -> Undo(s, o.m)
    [] o.kind = "settings" -> [s EXCEPT !.meta.title = o.v]

Apply(o, s) ==
  IF o \in Appends THEN AddLine(s, Line(o, s))
  ELSE IF Saves(o, s) THEN Rewritten(o, s) ELSE s
=============================================================================
