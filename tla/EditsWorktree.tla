---------------------------- MODULE EditsWorktree ----------------------------
(***************************************************************************)
(* The record of what a run does to the user's files, and its undoing      *)
(* (crates/agent-core/src/edits/mod.rs).  Before a tool call touches a     *)
(* path it locks it and, the first time in its run, copies the file into a *)
(* git repository of the session; at the end of the run the files are      *)
(* copied once more and the differences recorded.  To undo a run, the      *)
(* reverse of the recorded difference is applied to the files as they are. *)
(*                                                                         *)
(* A file is the sequence of its regions, far enough apart for a patch of  *)
(* one not to need another as context; a region holds the name of whoever  *)
(* wrote it last.  A commit is only ever asked for the file it was made    *)
(* for, so it is represented by that file's content.  Background subagents *)
(* make no calls here.                                                     *)
(***************************************************************************)
EXTENDS Naturals, Sequences, FiniteSets, SequencesExt

CONSTANTS
  Paths,
  Calls,       \* tool calls
  Touches,     \* per call: what it may touch, each a list of paths in the order of the command
  Existing,    \* the paths that exist at the start
  Uncopyable,  \* paths whose copying may fail: directories, files one may not read
  Ignored,     \* paths git add may refuse: the user's .gitignore, once it is copied, names them
  Regions,     \* number of regions of a file
  MaxTurns,    \* bound: turns, each with a worktree object of its own
  MaxUser,     \* bound: edits by the user
  Fin, Rev     \* the end of a run, and the command revert_edit

ASSUME EditsAssumption ==
  /\ IsFiniteSet(Paths) /\ Existing \cup Uncopyable \cup Ignored \subseteq Paths
  /\ \A c \in Calls : \A s \in Touches[c] : s \in Seq(Paths) /\ s # << >> /\ IsInjective(s)
  /\ Regions \in Nat \ {0} /\ MaxTurns \in Nat \ {0} /\ MaxUser \in Nat
  /\ Fin # Rev /\ Fin \notin Calls /\ Rev \notin Calls

Callers == Calls \cup {Fin, Rev}
Runs == 1 .. MaxTurns
User == MaxTurns + 1
Absent == << >>
Content == [1 .. Regions -> 0 .. User] \cup {Absent}
Change == [path : Paths, before : Content, after : Content]
RunEntry == [run : Runs, files : Seq(Change) \ {<< >>}, reverted : BOOLEAN]

VARIABLES
  content,   \* the user's files
  mirror,    \* their copies in the worktree; forgotten when nobody is about to read them
  index,     \* git's index, likewise
  repo,      \* "none", "bare" after git init, "ready" once git config has given it an author
  turn,      \* turns so far
  run,       \* the run of the latest turn
  phase,     \* "idle", "running", "suspended" or "ending"
  before,    \* per path: the content at the turn's first touch, a set of at most one
  pc, todo,  \* per caller: where it is, and the paths it has still to handle
  names,     \* per call: the paths it touches
  held, fd,  \* per caller: the paths whose mutex, and whose lock file, it has locked
  changes,   \* the files of the entry that finalize_run puts together
  meta,      \* .hebbian-edits.json
  loaded,    \* per caller: what it has read of that
  job,       \* the entry revert_run works on
  edits,     \* edits by the user so far
  first,     \* history: per path, its content before the first change by the latest run
  last,      \* history: per path, the content the end of that run has seen
  spoiled,   \* history: paths whose record in that run one of the known windows has spoiled
  lax,       \* history: <<call, path>> without a lock after a timeout
  disturbed  \* history: others wrote the file or the copy that revert_run has at hand

fileVars == <<content, edits>>
repoVars == <<mirror, index, repo>>
turnVars == <<turn, run, phase>>
lockVars == <<held, fd>>
recordVars == <<changes, meta, loaded, job>>
historyVars == <<first, last, spoiled, lax, disturbed>>
vars == <<fileVars, repoVars, turnVars, before, pc, todo, names, lockVars, recordVars, historyVars>>

AtMostOne(S) == \A x, y \in S : x = y
Nothing == [p \in Paths |-> {}]

\* The types, part by part.
FileTypeOK ==
  /\ content \in [Paths -> Content] /\ mirror \in [Paths -> Content] /\ index \in [Paths -> Content]
  /\ repo \in {"none", "bare", "ready"} /\ edits \in 0 .. MaxUser

TurnTypeOK ==
  /\ turn \in 0 .. MaxTurns /\ run \in 0 .. MaxTurns
  /\ phase \in {"idle", "running", "suspended", "ending"}
  /\ before \in [Paths -> SUBSET Content] /\ \A p \in Paths : AtMostOne(before[p])

\* Where a caller may be.
Places == {"idle", "mutex", "fd", "look", "init", "config", "exists", "mirror", "add",
           "commit", "exec", "undo", "apply", "copy", "load", "save", "done"}

CallerTypeOK ==
  /\ pc \in [Callers -> Places]
  /\ todo \in [Callers -> Seq(Paths)] /\ names \in [Calls -> Seq(Paths)]
  /\ held \in [Callers -> SUBSET Paths] /\ fd \in [Callers -> SUBSET Paths]

RecordTypeOK ==
  /\ changes \in Seq(Change) /\ meta \in Seq(RunEntry)
  /\ loaded \in [Callers -> Seq(RunEntry)] /\ job \in Seq(RunEntry)

HistoryTypeOK ==
  /\ first \in [Paths -> SUBSET Content] /\ last \in [Paths -> SUBSET Content]
  /\ \A p \in Paths : AtMostOne(first[p]) /\ AtMostOne(last[p])
  /\ spoiled \subseteq Paths /\ lax \subseteq Calls \X Paths /\ disturbed \in BOOLEAN

TypeOK == FileTypeOK /\ TurnTypeOK /\ CallerTypeOK /\ RecordTypeOK /\ HistoryTypeOK

Init ==
  /\ content = [p \in Paths |-> IF p \in Existing THEN [r \in 1 .. Regions |-> 0] ELSE Absent]
  /\ mirror = [p \in Paths |-> Absent] /\ index = [p \in Paths |-> Absent]
  /\ repo = "none" /\ edits = 0
  /\ turn = 0 /\ run = 0 /\ phase = "idle"
  /\ before = Nothing
  /\ pc = [w \in Callers |-> "idle"] /\ todo = [w \in Callers |-> << >>]
  /\ names = [c \in Calls |-> << >>]
  /\ held = [w \in Callers |-> {}] /\ fd = [w \in Callers |-> {}]
  /\ changes = << >> /\ meta = << >> /\ loaded = [w \in Callers |-> << >>] /\ job = << >>
  /\ first = Nothing /\ last = Nothing /\ spoiled = {} /\ lax = {} /\ disturbed = FALSE

At(w) == Head(todo[w])
IsAt(w, p, where) == pc[w] \in where /\ At(w) = p
Goes(w, to) == pc' = [pc EXCEPT ![w] = to]

\* The calls and the end of a run use the turn's worktree object, revert_edit
\* makes one of its own.
SameObject(v, w) == (v = Rev) = (w = Rev)
-----------------------------------------------------------------------------
(***************************************************************************)
(* Turns: run_turn makes a new EditsWorktree, and run_agent calls          *)
(* begin_run, whether the run is new or resumed.                           *)
(***************************************************************************)
BeginTurn ==
  /\ turn < MaxTurns
  /\ turn' = turn + 1 /\ phase' = "running"
  /\ \/ /\ phase = "suspended"
        /\ run' = run
        /\ spoiled' = spoiled \cup {p \in Paths : first[p] # {}}
        /\ UNCHANGED <<first, last>>
     \/ /\ phase = "idle"
        /\ run' = run + 1
        /\ first' = Nothing /\ last' = Nothing /\ spoiled' = {}
  /\ before' = Nothing
  /\ UNCHANGED <<fileVars, repoVars, pc, todo, names, lockVars, recordVars, lax, disturbed>>

\* A call of the run reaches the snapshots.
StartCall(c) ==
  /\ pc[c] = "idle" /\ phase = "running"
  /\ \E s \in Touches[c] : names' = [names EXCEPT ![c] = s] /\ todo' = [todo EXCEPT ![c] = s]
  /\ Goes(c, "mutex")
  /\ UNCHANGED <<fileVars, repoVars, turnVars, before, lockVars, recordVars, historyVars>>

CallsOver == \A c \in Calls : pc[c] \in {"idle", "done"}

Suspend ==
  /\ phase = "running" /\ CallsOver
  /\ phase' = "suspended"
  /\ UNCHANGED <<fileVars, repoVars, turn, run, before, pc, todo, names, lockVars, recordVars, historyVars>>
-----------------------------------------------------------------------------
(***************************************************************************)
(* lock_file, for calls and for revert_run: the mutex of the path, then    *)
(* its lock file, which is given up after 30 seconds.                      *)
(***************************************************************************)
TakeMutex(w) ==
  /\ pc[w] = "mutex"
  /\ \A v \in Callers \ {w} : SameObject(v, w) => At(w) \notin held[v]
  /\ held' = [held EXCEPT ![w] = @ \cup {At(w)}]
  /\ Goes(w, "fd")
  /\ UNCHANGED <<fileVars, repoVars, turnVars, before, todo, names, fd, recordVars, historyVars>>

TakeFd(w) ==
  /\ pc[w] = "fd"
  /\ \A v \in Callers \ {w} : At(w) \notin fd[v]
  /\ fd' = [fd EXCEPT ![w] = @ \cup {At(w)}]
  /\ Goes(w, IF w = Rev THEN "undo" ELSE "look")
  /\ UNCHANGED <<fileVars, repoVars, turnVars, before, todo, names, held, recordVars, historyVars>>

TimesOut(w) == pc[w] = "fd" /\ \E v \in Callers \ {w} : At(w) \in fd[v]

\* A call goes on without the lock (revert_run fails).
TimeOut(c) ==
  /\ c \in Calls /\ TimesOut(c)
  /\ held' = [held EXCEPT ![c] = @ \ {At(c)}]
  /\ Goes(c, "look")
  /\ lax' = lax \cup {<<c, At(c)>>}
  /\ UNCHANGED <<fileVars, repoVars, turnVars, before, todo, names, fd, recordVars, first, last, spoiled,
                 disturbed>>
-----------------------------------------------------------------------------
(***************************************************************************)
(* ensure_run_before, and the snapshot, which finalize_run takes too.      *)
(***************************************************************************)

\* Mutant: the lock of a path is given up when the next one is locked.
NextPathUnlocks(c) ==
  /\ todo' = [todo EXCEPT ![c] = Tail(@)]
  /\ held' = [held EXCEPT ![c] = {}] /\ fd' = [fd EXCEPT ![c] = {}]
  /\ Goes(c, IF Len(todo[c]) = 1 THEN "exec" ELSE "mutex")

\* The next path of the call, or the call itself.
NextPath(c) ==
  /\ todo' = [todo EXCEPT ![c] = Tail(@)]
  /\ Goes(c, IF Len(todo[c]) = 1 THEN "exec" ELSE "mutex")
  /\ UNCHANGED lockVars

Noted(c) == before[At(c)] # {}

\* There is a .git, or a git init has begun to make one.
HasGit == repo # "none" \/ \E c \in Calls : pc[c] = "init"

\* Already noted in this run; else ensure_init, which looks for a .git,
Look(c) ==
  /\ pc[c] = "look"
  /\ \/ Noted(c) /\ NextPath(c)
     \/ ~Noted(c) /\ repo = "none" /\ Goes(c, "init") /\ UNCHANGED <<todo, lockVars>>
     \/ ~Noted(c) /\ HasGit /\ Goes(c, "exists") /\ UNCHANGED <<todo, lockVars>>
  /\ UNCHANGED <<fileVars, repoVars, turnVars, names, before, recordVars, historyVars>>

\* runs git init, which does no harm to what another call has made in the meantime,
GitInit(c) ==
  /\ pc[c] = "init"
  /\ repo' = IF repo = "none" THEN "bare" ELSE repo
  /\ Goes(c, "config")
  /\ UNCHANGED <<fileVars, mirror, index, turnVars, before, todo, names, lockVars, recordVars, historyVars>>

\* and git config.
InitConfig(c) ==
  /\ pc[c] = "config"
  /\ repo' = "ready"
  /\ Goes(c, "exists")
  /\ UNCHANGED <<fileVars, mirror, index, turnVars, before, todo, names, lockVars, recordVars, historyVars>>

\* The snapshot is registered with the run, if that has none of the file yet.
Note(c, what) == before' = IF Noted(c) THEN before ELSE [before EXCEPT ![At(c)] = {what}]

Exists(c) ==
  /\ c \in Calls /\ pc[c] = "exists"
  /\ IF content[At(c)] = Absent THEN Note(c, Absent) /\ NextPath(c)
     ELSE Goes(c, "mirror") /\ UNCHANGED <<before, todo, lockVars>>
  /\ UNCHANGED <<fileVars, repoVars, turnVars, names, recordVars, historyVars>>

\* Somebody else writes files: a snapshot of the run that is not yet followed by
\* a change of its own shows another content than that change will find.
Foreign(P) ==
  {p \in P : /\ phase # "idle" /\ first[p] = {}
             /\ before[p] # {} \/ \E c \in Calls : IsAt(c, p, {"add", "commit"})}

\* A snapshot of the run has copied the file and not added it yet.
Crossed(p) == {q \in {p} : \E v \in Calls \cup {Fin} : IsAt(v, p, {"add"})}

\* revert_run is at this file, between the copy into the worktree and back.
Disturbs(P) == \E p \in P : IsAt(Rev, p, {"apply", "copy"})

\* mirror_file, of a call, of finalize_run or of revert_run.
MirrorFile(w) ==
  /\ pc[w] = "mirror" /\ content[At(w)] # Absent
  /\ mirror' = [mirror EXCEPT ![At(w)] = content[At(w)]]
  /\ Goes(w, IF w = Rev THEN "apply" ELSE "add")
  /\ last' = IF w = Fin THEN [last EXCEPT ![At(w)] = {content[At(w)]}] ELSE last
  /\ spoiled' = spoiled \cup Crossed(At(w))
  /\ disturbed' = (disturbed \/ Disturbs({At(w)}))
  /\ UNCHANGED <<fileVars, index, repo, turnVars, before, todo, names, lockVars, recordVars, first, lax>>

\* Mutant: no lock around git add and git commit.
IndexFreeAlways(w) == TRUE

\* git_index_lock of the worktree object.
IndexFree(w) == \A v \in Callers \ {w} : SameObject(v, w) => pc[v] # "commit"

GitAdd(w) ==
  /\ pc[w] = "add" /\ IndexFree(w)
  /\ index' = [index EXCEPT ![At(w)] = mirror[At(w)]]
  /\ Goes(w, "commit")
  /\ UNCHANGED <<fileVars, mirror, repo, turnVars, before, todo, names, lockVars, recordVars, historyVars>>

\* The caller is done with copy and index entry of its file.
Forget(w) ==
  LET others(where) == \E v \in Callers \ {w} : IsAt(v, At(w), where)
  IN  /\ mirror' = IF others({"add", "apply", "copy"}) THEN mirror ELSE [mirror EXCEPT ![At(w)] = Absent]
      /\ index' = IF others({"commit"}) THEN index ELSE [index EXCEPT ![At(w)] = Absent]

Commit(c) ==
  /\ c \in Calls /\ pc[c] = "commit"
  /\ Note(c, index[At(c)])
  /\ Forget(c)
  /\ NextPath(c)
  /\ UNCHANGED <<fileVars, repo, turnVars, names, recordVars, historyVars>>

\* git init and git config fail when another call's hold config.lock, the copy when
\* the file has gone or cannot be read, git add when the path is ignored (and not
\* tracked: left open here) or git init has not finished, and git commit when nobody
\* has told git who the author is.
Refuses(w) ==
  \/ pc[w] \in {"init", "config"} /\ \E v \in Calls \ {w} : pc[v] \in {"init", "config"}
  \/ pc[w] = "mirror" /\ (content[At(w)] = Absent \/ At(w) \in Uncopyable)
  \/ pc[w] = "add" /\ IndexFree(w) /\ (repo = "none" \/ At(w) \in Ignored)
  \/ pc[w] = "commit" /\ repo # "ready"

\* git add and git commit fail when another git holds index.lock.
IndexLocked(w) ==
  /\ pc[w] = "commit" \/ (pc[w] = "add" /\ IndexFree(w))
  /\ \E v \in Callers \ {w} : pc[v] = "commit"

GitFails(w) == Refuses(w) \/ IndexLocked(w)

\* What git_index_lock rules out is no excuse.
Excuses(w, P) == IF Refuses(w) THEN P ELSE {}

\* The call goes on without a snapshot.
SnapshotFails(c) ==
  /\ c \in Calls /\ GitFails(c)
  /\ spoiled' = spoiled \cup Excuses(c, {At(c)})
  /\ Forget(c)
  /\ NextPath(c)
  /\ UNCHANGED <<fileVars, repo, turnVars, names, before, recordVars, first, last, lax, disturbed>>
-----------------------------------------------------------------------------
(***************************************************************************)
(* Writing.                                                                *)
(***************************************************************************)

\* What a call may make of a file: leave it, delete it, write to it or create it.
Outcomes(p, who) ==
  {content[p], Absent,
   IF content[p] = Absent THEN [r \in 1 .. Regions |-> who] ELSE [content[p] EXCEPT ![1] = who]}

\* Mutant: the locks are not given back.
ExecuteKeepsLocks(c) ==
  /\ pc[c] = "exec"
  /\ Goes(c, "done")
  /\ UNCHANGED <<fileVars, repoVars, turnVars, before, todo, names, lockVars, recordVars, historyVars>>

\* The tool runs; its locks are given back.
Execute(c) ==
  /\ pc[c] = "exec"
  /\ \E new \in [Range(names[c]) -> Content] :
       /\ \A p \in DOMAIN new : new[p] \in Outcomes(p, run)
       /\ content' = [p \in Paths |-> IF p \in DOMAIN new THEN new[p] ELSE content[p]]
       /\ LET changed == {p \in DOMAIN new : new[p] # content[p]}
          IN  /\ first' = [p \in Paths |-> IF p \in changed /\ first[p] = {} THEN {content[p]} ELSE first[p]]
              /\ spoiled' = spoiled \cup {p \in changed : <<c, p>> \in lax}
              /\ disturbed' = (disturbed \/ Disturbs(changed))
  /\ held' = [held EXCEPT ![c] = {}] /\ fd' = [fd EXCEPT ![c] = {}]
  /\ lax' = {x \in lax : x[1] # c}
  /\ Goes(c, "done") /\ names' = [names EXCEPT ![c] = << >>]
  /\ UNCHANGED <<edits, repoVars, turnVars, before, todo, recordVars, last>>

UserEdits(p) ==
  /\ edits < MaxUser /\ edits' = edits + 1
  /\ content' = [content EXCEPT ![p] =
       IF @ = Absent THEN [r \in 1 .. Regions |-> User] ELSE [@ EXCEPT ![Regions] = User]]
  /\ spoiled' = spoiled \cup Foreign({p})
  /\ disturbed' = (disturbed \/ Disturbs({p}))
  /\ UNCHANGED <<repoVars, turnVars, before, pc, todo, names, lockVars, recordVars, first, last, lax>>
-----------------------------------------------------------------------------
(***************************************************************************)
(* finalize_run.                                                           *)
(***************************************************************************)
FinishRun ==
  /\ phase' = "idle" /\ Goes(Fin, "idle")
  /\ todo' = [todo EXCEPT ![Fin] = << >>]
  /\ before' = Nothing

EndRun ==
  /\ phase = "running" /\ CallsOver
  /\ LET files == {p \in Paths : before[p] # {}}
     IN  IF files = {} THEN FinishRun
         ELSE /\ phase' = "ending"
              /\ Goes(Fin, "exists")
              /\ todo' \in {[todo EXCEPT ![Fin] = s] : s \in SetToSeqs(files)}
              /\ UNCHANGED before
  /\ UNCHANGED <<fileVars, repoVars, turn, run, names, lockVars, recordVars, historyVars>>

\* A file is recorded if its content is another than before.
Record(after) ==
  /\ changes' = IF before[At(Fin)] = {after} THEN changes
                ELSE Append(changes, [path |-> At(Fin), after |-> after,
                                      before |-> CHOOSE b \in before[At(Fin)] : TRUE])
  /\ IF Len(todo[Fin]) = 1 /\ changes' = << >> THEN FinishRun
     ELSE /\ todo' = [todo EXCEPT ![Fin] = Tail(@)]
          /\ Goes(Fin, IF Len(todo[Fin]) = 1 THEN "load" ELSE "exists")
          /\ UNCHANGED <<phase, before>>

FinExists ==
  /\ pc[Fin] = "exists"
  /\ IF content[At(Fin)] = Absent
     THEN Record(Absent) /\ last' = [last EXCEPT ![At(Fin)] = {Absent}]
     ELSE Goes(Fin, "mirror") /\ UNCHANGED <<changes, todo, phase, before, last>>
  /\ UNCHANGED <<fileVars, repoVars, turn, run, names, lockVars, meta, loaded, job, first, spoiled, lax,
                 disturbed>>

FinCommit ==
  /\ pc[Fin] = "commit"
  /\ Record(index[At(Fin)])
  /\ Forget(Fin)
  /\ UNCHANGED <<fileVars, repo, turn, run, names, lockVars, meta, loaded, job, historyVars>>

\* The run has been taken out of active_run: nothing of it is recorded.
FinFails ==
  /\ GitFails(Fin)
  /\ FinishRun
  /\ Forget(Fin)
  /\ changes' = << >>
  /\ spoiled' = spoiled \cup Excuses(Fin, Paths)
  /\ UNCHANGED <<fileVars, repo, turn, run, names, lockVars, meta, loaded, job, first, last, lax, disturbed>>

\* append_run and mark_run_reverted read the file
LoadMeta(w) ==
  /\ pc[w] = "load"
  /\ loaded' = [loaded EXCEPT ![w] = meta]
  /\ Goes(w, "save")
  /\ UNCHANGED <<fileVars, repoVars, turnVars, names, before, todo, lockVars, changes, meta, job, historyVars>>

\* and write it anew, with whatever has been appended since left out.
Overwrites(w) == IF Len(meta) > Len(loaded[w]) THEN Paths ELSE {}

AppendRun ==
  /\ pc[Fin] = "save"
  /\ meta' = Append(loaded[Fin], [run |-> run, files |-> changes, reverted |-> FALSE])
  /\ FinishRun
  /\ changes' = << >> /\ loaded' = [loaded EXCEPT ![Fin] = << >>]
  /\ UNCHANGED <<fileVars, repoVars, turn, run, names, lockVars, job, historyVars>>
-----------------------------------------------------------------------------
(***************************************************************************)
(* revert_edit and revert_run.                                             *)
(***************************************************************************)
RevertStart ==
  /\ pc[Rev] = "idle"
  /\ \E e \in Range(meta) :
       /\ ~ e.reverted
       /\ job' = << e >>
       /\ todo' = [todo EXCEPT ![Rev] = [i \in DOMAIN e.files |-> e.files[i].path]]
  /\ Goes(Rev, "mutex")
  /\ UNCHANGED <<fileVars, repoVars, turnVars, names, before, lockVars, changes, meta, loaded, historyVars>>

File == CHOOSE f \in Range(job[1].files) : f.path = At(Rev)

Unlocks == held' = [held EXCEPT ![Rev] = {}] /\ fd' = [fd EXCEPT ![Rev] = {}]

\* The file is as it should be; the next one, or the mark.
Undone ==
  /\ Unlocks
  /\ todo' = [todo EXCEPT ![Rev] = Tail(@)]
  /\ spoiled' = spoiled \cup Foreign({At(Rev)})
  /\ disturbed' = FALSE
  /\ Goes(Rev, IF Len(todo[Rev]) = 1 THEN "load" ELSE "mutex")

\* A file the run created is deleted, one it deleted is written anew, the
\* difference of any other is undone.
Undo ==
  /\ pc[Rev] = "undo"
  /\ IF Absent \in {File.before, File.after}
     THEN content' = [content EXCEPT ![At(Rev)] = File.before] /\ Undone
     ELSE Goes(Rev, "mirror") /\ UNCHANGED <<content, lockVars, todo, spoiled, disturbed>>
  /\ UNCHANGED <<edits, repoVars, turnVars, names, before, recordVars, first, last, lax>>

Touched == {r \in 1 .. Regions : File.before[r] # File.after[r]}

\* Mutant: the patch is applied to the copy made at the end of the run.
ApplyToOld ==
  /\ pc[Rev] = "apply"
  /\ mirror' = [mirror EXCEPT ![At(Rev)] = File.before]
  /\ Goes(Rev, "copy")
  /\ UNCHANGED <<fileVars, index, repo, turnVars, before, todo, names, lockVars, recordVars, historyVars>>

\* git apply --check and git apply, on the copy.
Apply ==
  /\ pc[Rev] = "apply"
  /\ \A r \in Touched : mirror[At(Rev)][r] = File.after[r]
  /\ mirror' = [mirror EXCEPT ![At(Rev)] =
                  [r \in 1 .. Regions |-> IF r \in Touched THEN File.before[r] ELSE @[r]]]
  /\ spoiled' = spoiled \cup Crossed(At(Rev))
  /\ Goes(Rev, "copy")
  /\ UNCHANGED <<fileVars, index, repo, turnVars, before, todo, names, lockVars, recordVars, first, last, lax,
                 disturbed>>

CopyBack ==
  /\ pc[Rev] = "copy"
  /\ content' = [content EXCEPT ![At(Rev)] = mirror[At(Rev)]]
  /\ Forget(Rev)
  /\ Undone
  /\ UNCHANGED <<edits, repo, turnVars, names, before, recordVars, first, last, lax>>

\* No lock, no copy, or a conflict: what has been undone stays undone.
RevertFails ==
  /\ \/ TimesOut(Rev)
     \/ pc[Rev] = "mirror" /\ Refuses(Rev)
     \/ pc[Rev] = "apply" /\ \E r \in Touched : mirror[At(Rev)][r] # File.after[r]
  /\ Unlocks
  /\ Forget(Rev)
  /\ disturbed' = FALSE
  /\ todo' = [todo EXCEPT ![Rev] = << >>] /\ job' = << >>
  /\ Goes(Rev, "idle")
  /\ UNCHANGED <<fileVars, repo, turnVars, names, before, changes, meta, loaded, first, last, spoiled, lax>>

MarkReverted ==
  /\ pc[Rev] = "save"
  /\ meta' = [i \in DOMAIN loaded[Rev] |->
                [loaded[Rev][i] EXCEPT !.reverted = @ \/ loaded[Rev][i].run = job[1].run]]
  /\ spoiled' = spoiled \cup Overwrites(Rev)
  /\ job' = << >> /\ loaded' = [loaded EXCEPT ![Rev] = << >>]
  /\ Goes(Rev, "idle")
  /\ UNCHANGED <<fileVars, repoVars, turnVars, names, before, todo, lockVars, changes, first, last, lax,
                 disturbed>>
-----------------------------------------------------------------------------
CallStep(c) ==
  \/ TakeMutex(c) \/ TakeFd(c) \/ TimeOut(c) \/ Look(c) \/ GitInit(c) \/ InitConfig(c) \/ Exists(c)
  \/ MirrorFile(c) \/ GitAdd(c) \/ Commit(c) \/ SnapshotFails(c) \/ Execute(c)

FinStep ==
  \/ FinExists \/ MirrorFile(Fin) \/ GitAdd(Fin) \/ FinCommit \/ FinFails \/ LoadMeta(Fin) \/ AppendRun

RevStep ==
  \/ TakeMutex(Rev) \/ TakeFd(Rev) \/ Undo \/ MirrorFile(Rev) \/ Apply \/ CopyBack
  \/ RevertFails \/ LoadMeta(Rev) \/ MarkReverted

Next ==
  \/ BeginTurn \/ Suspend \/ EndRun \/ RevertStart \/ FinStep \/ RevStep
  \/ \E c \in Calls : StartCall(c) \/ CallStep(c)
  \/ \E p \in Paths : UserEdits(p)

Spec == Init /\ [][Next]_vars
-----------------------------------------------------------------------------
(***************************************************************************)
(* Properties.                                                             *)
(***************************************************************************)

\* When a run has ended, what it did to a file is on record, from the content
\* before its first change to the one at its end, however its calls ran side by
\* side; a file that ends as it began needs no record.  The windows in spoiled
\* are exempt: a run suspended after the change, a file that the user or a revert
\* changed between snapshot and change, a copy that a revert replaced before it
\* was added, a lock that timed out, a repository that was still being made, a
\* record overwritten by the mark of a revert, and a file that could not be copied
\* or that git refused: its own record is missing if that happens before the change,
\* the record of all files if it happens at the end of the run.
RunIsRecorded ==
  phase = "idle" =>
    \A p \in Paths \ spoiled :
      (first[p] # {} /\ first[p] # last[p]) =>
        \E e \in Range(meta) :
          e.run = run /\ \E f \in Range(e.files) :
            f.path = p /\ first[p] = {f.before} /\ last[p] = {f.after}

\* Undoing a run's change of a file gives back what the run changed and leaves
\* alone what others wrote elsewhere in it; where somebody has changed what the
\* run wrote, it is refused.  (Not if the file, or its copy, is written between
\* the copy into the worktree and the copy back: finalize_run takes no lock.)
RevertIsExact ==
  [][ (pc[Rev] = "copy" /\ pc'[Rev] # "copy" /\ ~ disturbed) =>
        \A r \in 1 .. Regions :
          IF r \in Touched THEN content[At(Rev)][r] = File.after[r] /\ content'[At(Rev)][r] = File.before[r]
          ELSE content'[At(Rev)][r] = content[At(Rev)][r] ]_vars

Working(w, p) ==
  IF w = Rev THEN IsAt(w, p, {"undo", "mirror", "apply", "copy"})
  ELSE pc[w] = "exec" /\ p \in Range(names[w]) /\ <<w, p>> \notin lax

\* From its snapshot to its end a call is alone with the files it touches, and so
\* is a revert (lock_file), unless a lock timed out.
AloneWithFile ==
  \A p \in Paths : \A v, w \in Calls \cup {Rev} : Working(v, p) /\ Working(w, p) => v = w

Waits(v, w) == v # w /\ pc[v] = "mutex" /\ SameObject(v, w) /\ At(v) \in held[w]

Before(c, p, q) == \E i, j \in DOMAIN names[c] : i < j /\ names[c][i] = p /\ names[c][j] = q
Opposite(v, w) == \E p, q \in Paths : Before(v, p, q) /\ Before(w, q, p)

\* Whoever waits for the mutex of a path, for which there is no time limit, waits
\* for a call that is on its way, to its own execution or past a lock file that
\* times out, and gives the path back at the end; only two calls that name the
\* same two paths in opposite orders may wait for each other for good.
LocksComeBack ==
  \A v, w \in Calls \cup {Rev} :
    Waits(v, w) => pc[w] \notin {"idle", "done"} /\ (Waits(w, v) => Opposite(v, w))
=============================================================================
