------------------------ MODULE EditsWorktreeProofs ------------------------
(***************************************************************************)
(* Safety of the record of a run's edits and of its undoing, for any       *)
(* finite set of files, any set of tool calls, any number of turns and any *)
(* number of edits by the user in between.                                 *)
(*                                                                         *)
(* IInv is inductive. PlaceInv says where each caller is and what it holds *)
(* then: a call has its paths in order, those it has passed and those it   *)
(* has still to handle. LockInv ties that to the locks: a call holds the   *)
(* lock file of every path from its snapshot to its end, or is on record   *)
(* as having gone on without it. From there the record of a file follows   *)
(* in three steps. Until a run changes a file, the run's snapshot of it    *)
(* shows the content the file has (Snapped); at the end of the run each    *)
(* file is compared with its snapshot, and the difference listed           *)
(* (Compared); and append_run has read every run on record, so that only   *)
(* the mark of a revert may write over one (MetaInv). The way back needs   *)
(* ExactInv: between the copy into the worktree and the copy back, the     *)
(* copy is the file with the run's change taken out.                       *)
(***************************************************************************)
EXTENDS EditsWorktree, TLAPS, FiniteSetTheorems

\* Where a call takes its snapshot, under the lock of its path.
Snapping == {"look", "init", "config", "exists", "mirror", "add", "commit"}
\* Where revert_run works on a file, under the lock of its path.
Undoing == {"undo", "mirror", "apply", "copy"}

\* How many of its paths a call has behind it,
Count(c) == Len(names[c]) - Len(todo[c])
\* which ones these are,
Past(c) == {names[c][i] : i \in 1 .. Count(c)}
\* and these with the one it takes the snapshot of: the paths whose lock it has got
\* past.
Through(c) == Past(c) \cup (IF pc[c] \in Snapping THEN {At(c)} ELSE {})

\* What a call has to do and to give back, at each of its places.
CallPlace(c) ==
  /\ pc[c] \in {"idle", "done", "mutex", "fd", "exec"} \cup Snapping
  /\ pc[c] \in {"idle", "done"} =>
       names[c] = << >> /\ held[c] = {} /\ fd[c] = {} /\ \A p \in Paths : << c, p >> \notin lax
  /\ pc[c] \in {"idle", "done", "exec"} => todo[c] = << >>
  /\ pc[c] \in {"mutex", "fd"} \cup Snapping => todo[c] # << >>
  /\ Len(todo[c]) <= Len(names[c])
  /\ \A i \in 1 .. Len(todo[c]) : todo[c][i] = names[c][Count(c) + i]

\* finalize_run goes through the files of the run, and takes no lock.
FinPlace ==
  /\ pc[Fin] \in {"idle", "exists", "mirror", "add", "commit", "load", "save"}
  /\ pc[Fin] \in {"exists", "mirror", "add", "commit"} <=> todo[Fin] # << >>
  /\ \A i \in DOMAIN todo[Fin] : before[todo[Fin][i]] # {}
  /\ held[Fin] = {} /\ fd[Fin] = {}
  /\ pc[Fin] \in {"load", "save"} => changes # << >>

\* revert_run goes through the files of an entry; from mirror_file on, the file was
\* there before and after the run, and from git apply on its copy is there.
RevPlace ==
  /\ pc[Rev] \in {"idle", "mutex", "fd", "load", "save"} \cup Undoing
  /\ pc[Rev] \in {"mutex", "fd"} \cup Undoing <=> todo[Rev] # << >>
  /\ pc[Rev] # "idle" => job # << >>
  /\ \A i \in DOMAIN todo[Rev] : \E j \in DOMAIN job[1].files : job[1].files[j].path = todo[Rev][i]
  /\ pc[Rev] \in {"mirror", "apply", "copy"} => File.before # Absent /\ File.after # Absent
  /\ pc[Rev] \in {"apply", "copy"} => mirror[At(Rev)] # Absent

\* The phases of a turn: the calls are over when it sleeps or ends, and snapshots and
\* records are of a run that goes on.
TurnInv ==
  /\ run <= turn
  /\ phase # "running" => CallsOver
  /\ phase = "ending" <=> pc[Fin] # "idle"
  /\ phase = "idle" => before = Nothing
  /\ phase # "idle" => run > 0
  /\ phase # "ending" => changes = << >>

\* The place of each caller.
PlaceInv == (\A c \in Calls : CallPlace(c)) /\ FinPlace /\ RevPlace /\ TurnInv

\* A lock file is locked by one caller at most.
FdApart == \A v, w \in Callers : v # w => fd[v] \cap fd[w] = {}

\* A call holds the lock file of every path it has got past, unless that timed out, and
\* the mutex of none but the paths it has reached; a revert holds the lock file of the
\* file it works on.
LockInv ==
  /\ FdApart
  /\ \A c \in Calls : \A p \in Through(c) : p \in fd[c] \/ << c, p >> \in lax
  /\ \A c \in Calls : held[c] \subseteq Past(c) \cup (IF pc[c] \in {"fd"} \cup Snapping THEN {At(c)} ELSE {})
  /\ pc[Rev] \in Undoing => At(Rev) \in fd[Rev]

\* One git commit at a time (git_index_lock; a revert, which has a worktree object of
\* its own, makes none).
OneCommits == \A v, w \in Callers : pc[v] = "commit" /\ pc[w] = "commit" => v = w

\* The run's snapshot of a file, and what a call has copied and added of it on the way
\* to one, show the file as it is, until the run changes it and as it was before that;
\* and a path the call has passed under its lock has a snapshot.
Snapped(p) ==
  /\ phase # "idle" /\ first[p] # {} => before[p] = first[p]
  /\ first[p] = {} /\ before[p] # {} => before[p] = {content[p]}
  /\ \A c \in Calls :
       /\ first[p] = {} /\ IsAt(c, p, {"add"}) => mirror[p] = content[p]
       /\ first[p] = {} /\ IsAt(c, p, {"commit"}) => index[p] = content[p]
       /\ p \in Past(c) /\ << c, p >> \notin lax => before[p] # {}
       /\ IsAt(c, p, {"mirror"}) /\ << c, p >> \notin lax => content[p] # Absent

\* The difference of a file is in the entry being put together.
Written(p) == \E j \in DOMAIN changes :
  changes[j].path = p /\ before[p] = {changes[j].before} /\ last[p] = {changes[j].after}

\* At the end of the run, what git commits of a file is what finalize_run has seen of
\* it, and each file behind it ends as it began or is in the entry.
Compared(p) ==
  /\ IsAt(Fin, p, {"add"}) => last[p] = {mirror[p]}
  /\ IsAt(Fin, p, {"commit"}) => last[p] = {index[p]}
  /\ phase = "ending" /\ before[p] # {} /\ (\A i \in DOMAIN todo[Fin] : todo[Fin][i] # p) =>
       before[p] = last[p] \/ Written(p)

\* t has the runs of s, in their places, and perhaps more; the marks of a revert do not
\* count.
Prefix(s, t) ==
  Len(s) <= Len(t) /\ \A i \in 1 .. Len(s) : s[i].run = t[i].run /\ s[i].files = t[i].files

\* What a caller has read of .hebbian-edits.json and not yet saved: a revert has the
\* runs that were there when it read, and an append, with which nobody interferes but
\* marks, has them all.
MetaInv ==
  /\ pc[Rev] = "save" => Prefix(loaded[Rev], meta)
  /\ pc[Fin] = "save" => Prefix(meta, loaded[Fin])

\* While nobody else writes the file or its copy: the copy is the file as it is, and
\* after git apply the file with the run's regions as they were before.
ExactInv ==
  ~ disturbed =>
    /\ pc[Rev] = "apply" => mirror[At(Rev)] = content[At(Rev)]
    /\ pc[Rev] = "copy" => \A r \in 1 .. Regions :
         IF r \in Touched THEN content[At(Rev)][r] = File.after[r] /\ mirror[At(Rev)][r] = File.before[r]
         ELSE mirror[At(Rev)][r] = content[At(Rev)][r]

\* Caller v does not move.
Same(v) ==
  /\ pc'[v] = pc[v] /\ todo'[v] = todo[v] /\ held'[v] = held[v] /\ fd'[v] = fd[v]
  /\ loaded'[v] = loaded[v]
  /\ v \in Calls => names'[v] = names[v] /\ \A p \in Paths : << v, p >> \in lax' <=> << v, p >> \in lax

\* The inductive invariant.
IInv ==
  /\ TypeOK /\ PlaceInv /\ LockInv /\ OneCommits
  /\ \A p \in Paths \ spoiled : Snapped(p) /\ Compared(p)
  /\ MetaInv /\ ExactInv /\ RunIsRecorded


\* Sequences, as the provers need them: their length and elements, head and tail, and
\* what appending leaves.
LEMMA SeqFacts ==
  ASSUME NEW S, NEW q \in Seq(S)
  PROVE  /\ Len(q) \in Nat /\ DOMAIN q = 1 .. Len(q) /\ \A i \in DOMAIN q : q[i] \in S
         /\ q = << >> <=> Len(q) = 0
         /\ q # << >> => /\ Head(q) = q[1] /\ Head(q) \in S /\ Tail(q) \in Seq(S)
                         /\ Len(Tail(q)) = Len(q) - 1 /\ DOMAIN Tail(q) = 1 .. Len(q) - 1
                         /\ \A i \in 1 .. Len(q) - 1 : Tail(q)[i] = q[i + 1]
         /\ \A x \in S : /\ Append(q, x) \in Seq(S) /\ Len(Append(q, x)) = Len(q) + 1
                         /\ DOMAIN Append(q, x) = 1 .. Len(q) + 1
                         /\ \A i \in DOMAIN q : Append(q, x)[i] = q[i]
                         /\ Append(q, x)[Len(q) + 1] = x
OBVIOUS

\* The path a caller is at is the first of those it has still to handle.
LEMMA AtFacts ==
  ASSUME CallerTypeOK, NEW w \in Callers
  PROVE  /\ todo[w] \in Seq(Paths) /\ Len(todo[w]) \in Nat /\ DOMAIN todo[w] = 1 .. Len(todo[w])
         /\ todo[w] = << >> <=> Len(todo[w]) = 0
         /\ todo[w] # << >> => At(w) = todo[w][1] /\ At(w) \in Paths
         /\ todo[w] # << >> => /\ Tail(todo[w]) \in Seq(Paths) /\ Len(Tail(todo[w])) = Len(todo[w]) - 1
                               /\ \A i \in 1 .. Len(todo[w]) - 1 : Tail(todo[w])[i] = todo[w][i + 1]
BY SeqFacts DEF CallerTypeOK, At

\* A listing of a finite set of paths names each of them.
LEMMA SeqsOf ==
  ASSUME NEW F \in SUBSET Paths, NEW s \in SetToSeqs(F)
  PROVE  /\ s \in Seq(F) /\ s \in Seq(Paths) /\ (F # {} => s # << >>)
         /\ \A p \in F : \E i \in DOMAIN s : s[i] = p
<1> DEFINE D == 1 .. Cardinality(F)
<1>1. IsFiniteSet(F) /\ Cardinality(F) \in Nat
  BY EditsAssumption, FS_Subset, FS_CardinalityType
<1>2. s \in [D -> F] /\ \A i, j \in D : i # j => s[i] # s[j]
  BY DEF SetToSeqs
<1>3. s \in Seq(F) /\ s \in Seq(Paths)
  BY <1>1, <1>2
<1>4. s \in Injection(D, F)
  BY <1>2 DEF Injection, IsInjective
<1>5. IsFiniteSet(D) /\ Cardinality(D) = Cardinality(F)
  BY <1>1, FS_Interval
<1>6. s \in Surjection(D, F)
  <2> HIDE DEF D
  <2> QED
    BY <1>1, <1>4, <1>5, FS_Injection
<1>7. \A p \in F : \E i \in D : s[i] = p
  BY <1>6 DEF Surjection
<1>8. DOMAIN s = D
  BY <1>2
<1>9. F # {} => s # << >>
  <2> SUFFICES ASSUME NEW p \in F PROVE s # << >>
    OBVIOUS
  <2>1. PICK i \in DOMAIN s : s[i] = p
    BY <1>7, <1>8
  <2> QED
    BY <2>1
<1> QED
  BY <1>3, <1>7, <1>8, <1>9

\* The files the run has a snapshot of.
Files == {p \in Paths : before[p] # {}}

\* finalize_run is over at once when the run has touched no file, and starts with a
\* list of its files otherwise.
LEMMA EndRunEffect ==
  ASSUME EndRun
  PROVE  /\ phase = "running" /\ CallsOver
         /\ UNCHANGED <<fileVars, repoVars, turn, run, names, lockVars, recordVars, historyVars>>
         /\ \/ Files = {} /\ FinishRun
            \/ /\ Files # {} /\ phase' = "ending" /\ Goes(Fin, "exists") /\ UNCHANGED before
               /\ \E s \in SetToSeqs(Files) : todo' = [todo EXCEPT ![Fin] = s]
BY DEF EndRun, Files

\* Nobody moves a call but itself.
LEMMA CallMoves ==
  ASSUME CallerTypeOK, HistoryTypeOK, RecordTypeOK, [Next]_vars, NEW c \in Calls
  PROVE  Same(c) \/ StartCall(c) \/ CallStep(c)
<1> USE EditsAssumption DEF Callers, CallerTypeOK, RecordTypeOK
<1>1. ASSUME NEW d \in Calls, d # c, StartCall(d) \/ CallStep(d) PROVE Same(c)
  <2>1. CASE StartCall(d) \/ TakeMutex(d) \/ TakeFd(d) \/ Look(d) \/ GitInit(d) \/ InitConfig(d) \/ Exists(d)
    BY <1>1, <2>1 DEF StartCall, TakeMutex, TakeFd, Look, GitInit, InitConfig, Exists, NextPath, Goes, Same,
                      lockVars, recordVars, historyVars
  <2>2. CASE TimeOut(d)
    BY <1>1, <2>2 DEF TimeOut, Goes, Same, recordVars
  <2>3. CASE MirrorFile(d) \/ GitAdd(d) \/ Commit(d) \/ SnapshotFails(d)
    BY <1>1, <2>3 DEF MirrorFile, GitAdd, Commit, SnapshotFails, NextPath, Goes, Same, lockVars, recordVars,
                      historyVars
  <2>4. CASE Execute(d)
    BY <1>1, <2>4 DEF Execute, Goes, Same, recordVars
  <2> QED
    BY <1>1, <2>1, <2>2, <2>3, <2>4 DEF CallStep
<1>2. CASE FinStep
  BY <1>2 DEF FinStep, FinExists, MirrorFile, GitAdd, FinCommit, FinFails, LoadMeta, AppendRun, Record, FinishRun,
              Goes, Same, lockVars, recordVars, historyVars
<1>3. CASE RevStep
  <2>1. CASE TakeMutex(Rev) \/ TakeFd(Rev) \/ MirrorFile(Rev) \/ Apply \/ LoadMeta(Rev) \/ MarkReverted
    BY <2>1 DEF TakeMutex, TakeFd, MirrorFile, Apply, LoadMeta, MarkReverted, Goes, Same, lockVars, recordVars,
                historyVars
  <2>2. CASE Undo \/ CopyBack \/ RevertFails
    BY <2>2 DEF Undo, CopyBack, RevertFails, Undone, Unlocks, Goes, Same, lockVars, recordVars, historyVars
  <2> QED
    BY <1>3, <2>1, <2>2 DEF RevStep
<1>4. CASE BeginTurn \/ Suspend \/ RevertStart \/ \E p \in Paths : UserEdits(p)
  BY <1>4 DEF BeginTurn, Suspend, RevertStart, UserEdits, Goes, Same, lockVars, recordVars, historyVars
<1>6. CASE EndRun
  BY <1>6, EndRunEffect DEF FinishRun, Goes, Same, lockVars, recordVars, historyVars
<1>5. CASE UNCHANGED vars
  BY <1>5 DEF vars, Same, lockVars, recordVars, historyVars
<1> QED
  BY <1>1, <1>2, <1>3, <1>4, <1>5, <1>6 DEF Next

\* Nobody moves finalize_run but itself and the end of the run.
LEMMA FinMoves ==
  ASSUME CallerTypeOK, RecordTypeOK, [Next]_vars
  PROVE  Same(Fin) \/ EndRun \/ FinStep
<1> USE EditsAssumption DEF Callers, CallerTypeOK, RecordTypeOK
<1>1. ASSUME NEW d \in Calls, StartCall(d) \/ CallStep(d) PROVE Same(Fin)
  <2>1. CASE StartCall(d) \/ TakeMutex(d) \/ TakeFd(d) \/ Look(d) \/ GitInit(d) \/ InitConfig(d) \/ Exists(d)
    BY <1>1, <2>1 DEF StartCall, TakeMutex, TakeFd, Look, GitInit, InitConfig, Exists, NextPath, Goes, Same,
                      lockVars, recordVars, historyVars
  <2>2. CASE TimeOut(d) \/ Execute(d)
    BY <1>1, <2>2 DEF TimeOut, Execute, Goes, Same, recordVars
  <2>3. CASE MirrorFile(d) \/ GitAdd(d) \/ Commit(d) \/ SnapshotFails(d)
    BY <1>1, <2>3 DEF MirrorFile, GitAdd, Commit, SnapshotFails, NextPath, Goes, Same, lockVars, recordVars,
                      historyVars
  <2> QED
    BY <1>1, <2>1, <2>2, <2>3 DEF CallStep
<1>3. CASE RevStep \/ RevertStart
  <2>1. CASE TakeMutex(Rev) \/ TakeFd(Rev) \/ MirrorFile(Rev) \/ Apply \/ LoadMeta(Rev) \/ MarkReverted
    BY <2>1 DEF TakeMutex, TakeFd, MirrorFile, Apply, LoadMeta, MarkReverted, Goes, Same, lockVars, recordVars,
                historyVars
  <2>2. CASE Undo \/ CopyBack \/ RevertFails \/ RevertStart
    BY <2>2 DEF Undo, CopyBack, RevertFails, RevertStart, Undone, Unlocks, Goes, Same, lockVars, recordVars,
                historyVars
  <2> QED
    BY <1>3, <2>1, <2>2 DEF RevStep
<1>4. CASE BeginTurn \/ Suspend \/ \E p \in Paths : UserEdits(p)
  BY <1>4 DEF BeginTurn, Suspend, UserEdits, Same, lockVars, recordVars, historyVars
<1>5. CASE UNCHANGED vars
  BY <1>5 DEF vars, Same, lockVars, recordVars, historyVars
<1> QED
  BY <1>1, <1>3, <1>4, <1>5 DEF Next

\* Nobody moves revert_run but itself and the command.
LEMMA RevMoves ==
  ASSUME CallerTypeOK, RecordTypeOK, [Next]_vars
  PROVE  (Same(Rev) /\ job' = job) \/ RevertStart \/ RevStep
<1> USE EditsAssumption DEF Callers, CallerTypeOK, RecordTypeOK
<1>1. ASSUME NEW d \in Calls, StartCall(d) \/ CallStep(d) PROVE Same(Rev) /\ job' = job
  <2>1. CASE StartCall(d) \/ TakeMutex(d) \/ TakeFd(d) \/ Look(d) \/ GitInit(d) \/ InitConfig(d) \/ Exists(d)
    BY <1>1, <2>1 DEF StartCall, TakeMutex, TakeFd, Look, GitInit, InitConfig, Exists, NextPath, Goes, Same,
                      lockVars, recordVars, historyVars
  <2>2. CASE TimeOut(d) \/ Execute(d)
    BY <1>1, <2>2 DEF TimeOut, Execute, Goes, Same, recordVars
  <2>3. CASE MirrorFile(d) \/ GitAdd(d) \/ Commit(d) \/ SnapshotFails(d)
    BY <1>1, <2>3 DEF MirrorFile, GitAdd, Commit, SnapshotFails, NextPath, Goes, Same, lockVars, recordVars,
                      historyVars
  <2> QED
    BY <1>1, <2>1, <2>2, <2>3 DEF CallStep
<1>2. CASE FinStep
  BY <1>2 DEF FinStep, FinExists, MirrorFile, GitAdd, FinCommit, FinFails, LoadMeta, AppendRun, Record,
              FinishRun, Goes, Same, lockVars, recordVars, historyVars
<1>4. CASE BeginTurn \/ Suspend \/ \E p \in Paths : UserEdits(p)
  BY <1>4 DEF BeginTurn, Suspend, UserEdits, Same, lockVars, recordVars, historyVars
<1>5. CASE UNCHANGED vars
  BY <1>5 DEF vars, Same, lockVars, recordVars, historyVars
<1>6. CASE EndRun
  BY <1>6, EndRunEffect DEF FinishRun, Goes, Same, lockVars, recordVars, historyVars
<1> QED
  BY <1>1, <1>2, <1>4, <1>5, <1>6 DEF Next

\* Going on to the next path keeps the types.
LEMMA NextPathType ==
  ASSUME CallerTypeOK, NEW c \in Calls, todo[c] # << >>, NextPath(c)
  PROVE  /\ todo' \in [Callers -> Seq(Paths)] /\ held' = held /\ fd' = fd
         /\ pc' = [pc EXCEPT ![c] = IF Len(todo[c]) = 1 THEN "exec" ELSE "mutex"]
         /\ todo' = [todo EXCEPT ![c] = Tail(todo[c])]
<1>1. c \in Callers /\ Tail(todo[c]) \in Seq(Paths)
  BY AtFacts DEF Callers
<1> QED
  BY <1>1 DEF NextPath, Goes, lockVars, CallerTypeOK

\* The end of finalize_run keeps the types.
LEMMA FinishType ==
  ASSUME CallerTypeOK, FinishRun
  PROVE  /\ todo' = [todo EXCEPT ![Fin] = << >>] /\ pc' = [pc EXCEPT ![Fin] = "idle"]
         /\ todo' \in [Callers -> Seq(Paths)]
BY DEF FinishRun, Goes, CallerTypeOK, Callers

\* The places, paths and locks of the callers keep their types.
LEMMA CallerType == TypeOK /\ PlaceInv /\ [Next]_vars => CallerTypeOK'
<1> SUFFICES ASSUME TypeOK, PlaceInv, [Next]_vars PROVE CallerTypeOK'
  OBVIOUS
<1>t. /\ todo \in [Callers -> Seq(Paths)] /\ names \in [Calls -> Seq(Paths)]
      /\ held \in [Callers -> SUBSET Paths] /\ fd \in [Callers -> SUBSET Paths] /\ CallerTypeOK
  BY DEF TypeOK, CallerTypeOK
<1> USE DEF Places
<1>c. Calls \subseteq Callers /\ Fin \in Callers /\ Rev \in Callers
  BY DEF Callers
<1>1. ASSUME NEW c \in Calls, StartCall(c) PROVE CallerTypeOK'
  <2>1. PICK s \in Touches[c] : names' = [names EXCEPT ![c] = s] /\ todo' = [todo EXCEPT ![c] = s]
    BY <1>1 DEF StartCall
  <2>2. s \in Seq(Paths)
    BY EditsAssumption
  <2> QED
    BY <1>1, <1>t, <1>c, <2>1, <2>2 DEF StartCall, Goes, lockVars, CallerTypeOK
<1>2. ASSUME NEW w \in Callers, TakeMutex(w) \/ TakeFd(w) PROVE CallerTypeOK'
  <2>1. At(w) \in Paths
    <3>1. todo[w] # << >>
      BY <1>2, EditsAssumption DEF TakeMutex, TakeFd, PlaceInv, CallPlace, FinPlace, RevPlace, Callers
    <3> QED
      BY <1>t, <3>1, AtFacts
  <2>2. CASE TakeMutex(w)
    BY <1>t, <2>1, <2>2 DEF TakeMutex, Goes, CallerTypeOK
  <2>3. CASE TakeFd(w)
    BY <1>t, <2>1, <2>3 DEF TakeFd, Goes, CallerTypeOK
  <2> QED
    BY <1>2, <2>2, <2>3
<1>3. ASSUME NEW c \in Calls, TimeOut(c) PROVE CallerTypeOK'
  BY <1>3, <1>t, <1>c DEF TimeOut, Goes, CallerTypeOK
<1>4. ASSUME NEW c \in Calls, Look(c) \/ GitInit(c) \/ InitConfig(c) \/ Exists(c) \/ Commit(c) \/ SnapshotFails(c)
      PROVE  CallerTypeOK'
  <2>1. todo[c] # << >>
    BY <1>4, EditsAssumption DEF Look, GitInit, InitConfig, Exists, Commit, SnapshotFails, GitFails, Refuses, IndexLocked, PlaceInv, CallPlace, Snapping
  <2>2. NextPath(c) \/ ((\E x \in {"init", "config", "exists", "mirror"} : Goes(c, x)) /\ UNCHANGED <<todo, lockVars>>)
    BY <1>4 DEF Look, GitInit, InitConfig, Exists, Commit, SnapshotFails
  <2>3. names' = names
    BY <1>4 DEF Look, GitInit, InitConfig, Exists, Commit, SnapshotFails
  <2>4. CASE NextPath(c)
    BY <1>t, <1>c, <2>1, <2>3, <2>4, NextPathType DEF CallerTypeOK
  <2>5. CASE (\E x \in {"init", "config", "exists", "mirror"} : Goes(c, x)) /\ UNCHANGED <<todo, lockVars>>
    BY <1>t, <1>c, <2>3, <2>5 DEF Goes, lockVars, CallerTypeOK
  <2> QED
    BY <2>2, <2>4, <2>5
<1>5. ASSUME NEW w \in Callers, MirrorFile(w) \/ GitAdd(w) \/ LoadMeta(w) PROVE CallerTypeOK'
  BY <1>5, <1>t DEF MirrorFile, GitAdd, LoadMeta, Goes, lockVars, CallerTypeOK
<1>6. ASSUME NEW c \in Calls, Execute(c) PROVE CallerTypeOK'
  BY <1>6, <1>t, <1>c DEF Execute, Goes, CallerTypeOK
<1>7. CASE EndRun
  <2>0. /\ names' = names /\ held' = held /\ fd' = fd
        /\ FinishRun \/ (Goes(Fin, "exists") /\ \E s \in SetToSeqs(Files) : todo' = [todo EXCEPT ![Fin] = s])
    BY <1>7, EndRunEffect DEF lockVars
  <2>1. CASE FinishRun
    BY <1>t, <1>c, <2>0, <2>1, FinishType DEF CallerTypeOK
  <2>2. CASE Goes(Fin, "exists") /\ \E s \in SetToSeqs(Files) : todo' = [todo EXCEPT ![Fin] = s]
    <3>1. PICK s \in SetToSeqs(Files) : todo' = [todo EXCEPT ![Fin] = s]
      BY <2>2
    <3>2. Files \in SUBSET Paths
      BY DEF Files
    <3>3. s \in Seq(Paths)
      BY <3>2, SeqsOf
    <3> QED
      BY <1>t, <1>c, <2>0, <2>2, <3>1, <3>3 DEF Goes, CallerTypeOK
  <2> QED
    BY <2>0, <2>1, <2>2
<1>8. CASE FinExists \/ FinCommit
  <2>1. todo[Fin] # << >>
    BY <1>8 DEF FinExists, FinCommit, PlaceInv, FinPlace
  <2>2. names' = names /\ held' = held /\ fd' = fd
    BY <1>8 DEF FinExists, FinCommit, lockVars
  <2>3. \/ FinishRun
        \/ \E x \in {"load", "exists"} : Goes(Fin, x) /\ todo' = [todo EXCEPT ![Fin] = Tail(@)]
        \/ Goes(Fin, "mirror") /\ todo' = todo
    BY <1>8 DEF FinExists, FinCommit, Record
  <2>4. Tail(todo[Fin]) \in Seq(Paths)
    BY <1>t, <1>c, <2>1, AtFacts
  <2> QED
    BY <1>t, <1>c, <2>2, <2>3, <2>4, FinishType DEF Goes, CallerTypeOK
<1>9. CASE FinFails \/ AppendRun
  BY <1>9, <1>t, FinishType DEF FinFails, AppendRun, lockVars, CallerTypeOK
<1>10. CASE RevertStart
  <2>1. PICK e \in Range(meta) : todo' = [todo EXCEPT ![Rev] = [i \in DOMAIN e.files |-> e.files[i].path]]
    BY <1>10 DEF RevertStart
  <2>2. e \in RunEntry
    BY SeqFacts DEF Range, TypeOK, RecordTypeOK
  <2>3. e.files \in Seq(Change)
    BY <2>2 DEF RunEntry
  <2>5. \A i \in DOMAIN e.files : e.files[i].path \in Paths
    <3>1. \A i \in DOMAIN e.files : e.files[i] \in Change
      BY <2>3
    <3> QED
      BY <3>1 DEF Change
  <2>4. [i \in DOMAIN e.files |-> e.files[i].path] \in Seq(Paths)
    BY <2>3, <2>5
  <2> QED
    BY <1>10, <1>t, <1>c, <2>1, <2>4 DEF RevertStart, Goes, lockVars, CallerTypeOK
<1>11. CASE Undo \/ CopyBack
  <2>1. todo[Rev] # << >>
    BY <1>11 DEF Undo, CopyBack, PlaceInv, RevPlace, Undoing
  <2>2. Tail(todo[Rev]) \in Seq(Paths)
    BY <1>t, <1>c, <2>1, AtFacts
  <2>3. names' = names
    BY <1>11 DEF Undo, CopyBack
  <2>4. Undone \/ (Goes(Rev, "mirror") /\ UNCHANGED <<lockVars, todo>>)
    BY <1>11 DEF Undo, CopyBack
  <2>5. CASE Undone
    BY <1>t, <1>c, <2>2, <2>3, <2>5 DEF Undone, Unlocks, Goes, CallerTypeOK
  <2>6. CASE Goes(Rev, "mirror") /\ UNCHANGED <<lockVars, todo>>
    BY <1>t, <1>c, <2>3, <2>6 DEF Goes, lockVars, CallerTypeOK
  <2> QED
    BY <2>4, <2>5, <2>6
<1>12. CASE Apply
  BY <1>12, <1>t, <1>c DEF Apply, Goes, lockVars, CallerTypeOK
<1>13. CASE RevertFails \/ MarkReverted
  <2>1. CASE RevertFails
    BY <1>t, <1>c, <2>1 DEF RevertFails, Unlocks, Goes, CallerTypeOK
  <2>2. CASE MarkReverted
    BY <1>t, <1>c, <2>2 DEF MarkReverted, Goes, lockVars, CallerTypeOK
  <2> QED
    BY <1>13, <2>1, <2>2
<1>14. CASE BeginTurn \/ Suspend \/ \E p \in Paths : UserEdits(p)
  BY <1>14, <1>t DEF BeginTurn, Suspend, UserEdits, lockVars, CallerTypeOK
<1>15. CASE UNCHANGED vars
  BY <1>15, <1>t DEF vars, lockVars, CallerTypeOK
<1> QED
  <2>1. ASSUME NEW c \in Calls, StartCall(c) \/ CallStep(c) PROVE CallerTypeOK'
    BY <2>1, <1>1, <1>2, <1>3, <1>4, <1>5, <1>6, <1>c DEF CallStep
  <2>2. CASE FinStep
    BY <2>2, <1>5, <1>8, <1>9, <1>c DEF FinStep
  <2>3. CASE RevStep
    BY <2>3, <1>2, <1>5, <1>11, <1>12, <1>13, <1>c DEF RevStep
  <2> QED
    BY <2>1, <2>2, <2>3, <1>7, <1>10, <1>14, <1>15 DEF Next

\* A caller that is at work is at a path.
LEMMA AtTyped ==
  ASSUME TypeOK, PlaceInv
  PROVE  /\ \A c \in Calls : pc[c] \in {"mutex", "fd"} \cup Snapping => At(c) \in Paths
         /\ pc[Fin] \in {"exists", "mirror", "add", "commit"} => At(Fin) \in Paths /\ before[At(Fin)] # {}
         /\ pc[Rev] \in {"mutex", "fd"} \cup Undoing => At(Rev) \in Paths
<1>1. CallerTypeOK
  BY DEF TypeOK
<1>2. \A c \in Calls : pc[c] \in {"mutex", "fd"} \cup Snapping => At(c) \in Paths
  BY <1>1, AtFacts DEF PlaceInv, CallPlace, Callers
<1>3. pc[Fin] \in {"exists", "mirror", "add", "commit"} => At(Fin) \in Paths /\ before[At(Fin)] # {}
  BY <1>1, AtFacts DEF PlaceInv, FinPlace, Callers
<1>4. pc[Rev] \in {"mutex", "fd"} \cup Undoing => At(Rev) \in Paths
  BY <1>1, AtFacts DEF PlaceInv, RevPlace, Callers
<1> QED
  BY <1>2, <1>3, <1>4

\* The file that revert_run works on, as its entry has it.
LEMMA FileFacts ==
  ASSUME TypeOK, PlaceInv, pc[Rev] \in Undoing
  PROVE  File \in Change /\ File.path = At(Rev) /\ File.before \in Content /\ File.after \in Content
<1>1. /\ todo[Rev] # << >> /\ job # << >>
      /\ \A i \in DOMAIN todo[Rev] : \E j \in DOMAIN job[1].files : job[1].files[j].path = todo[Rev][i]
  BY DEF PlaceInv, RevPlace, Undoing
<1>2. At(Rev) = todo[Rev][1] /\ 1 \in DOMAIN todo[Rev]
  BY <1>1, AtFacts DEF TypeOK, Callers
<1>3. PICK j \in DOMAIN job[1].files : job[1].files[j].path = At(Rev)
  BY <1>1, <1>2
<1>4. job[1] \in RunEntry
  BY <1>1, SeqFacts DEF TypeOK, RecordTypeOK
<1>5. job[1].files \in Seq(Change)
  BY <1>4 DEF RunEntry
<1>6. \A i \in DOMAIN job[1].files : job[1].files[i] \in Change
  BY <1>5
<1>7. \E f \in Range(job[1].files) : f.path = At(Rev)
  BY <1>3 DEF Range
<1>8. File \in Range(job[1].files) /\ File.path = At(Rev)
  BY <1>7 DEF File
<1>9. File \in Change
  BY <1>6, <1>8 DEF Range
<1> QED
  BY <1>8, <1>9 DEF Change

\* Forgetting a copy leaves those that others are about to read.
LEMMA ForgetType ==
  ASSUME FileTypeOK, NEW w \in Callers, Forget(w)
  PROVE  /\ mirror' \in [Paths -> Content] /\ index' \in [Paths -> Content]
         /\ \A p \in Paths : /\ mirror'[p] = mirror[p] \/ (p = At(w) /\ ~ \E v \in Callers \ {w} : IsAt(v, p, {"add", "apply", "copy"}))
                             /\ index'[p] = index[p] \/ (p = At(w) /\ ~ \E v \in Callers \ {w} : IsAt(v, p, {"commit"}))
<1>1. Absent \in Content
  BY DEF Content
<1> QED
  BY <1>1 DEF FileTypeOK, Forget

\* The files, their copies and the repository keep their types.
LEMMA FileType == TypeOK /\ PlaceInv /\ [Next]_vars => FileTypeOK'
<1> SUFFICES ASSUME TypeOK, PlaceInv, [Next]_vars PROVE FileTypeOK'
  OBVIOUS
<1>t. /\ FileTypeOK /\ content \in [Paths -> Content] /\ mirror \in [Paths -> Content] /\ index \in [Paths -> Content]
      /\ repo \in {"none", "bare", "ready"} /\ edits \in 0 .. MaxUser /\ run \in 0 .. User
  BY EditsAssumption DEF TypeOK, FileTypeOK, TurnTypeOK, User
<1>c. Calls \subseteq Callers /\ Fin \in Callers /\ Rev \in Callers
  BY DEF Callers
<1>a. Absent \in Content /\ \A p \in Paths : content[p] \in Content /\ mirror[p] \in Content
  BY <1>t DEF Content
<1>1. ASSUME NEW w \in Callers, MirrorFile(w) \/ GitAdd(w) PROVE FileTypeOK'
  BY <1>1, <1>t DEF MirrorFile, GitAdd, fileVars, FileTypeOK
<1>2. ASSUME NEW c \in Calls, Look(c) \/ GitInit(c) \/ InitConfig(c) PROVE FileTypeOK'
  BY <1>2, <1>t DEF Look, GitInit, InitConfig, fileVars, repoVars, FileTypeOK
<1>3. ASSUME NEW w \in Callers, Forget(w), UNCHANGED <<fileVars, repo>> PROVE FileTypeOK'
  BY <1>3, <1>t, ForgetType DEF fileVars, FileTypeOK
<1>4. ASSUME NEW c \in Calls, Execute(c) PROVE FileTypeOK'
  <2>1. PICK new \in [Range(names[c]) -> Content] :
          content' = [p \in Paths |-> IF p \in DOMAIN new THEN new[p] ELSE content[p]]
    BY <1>4 DEF Execute
  <2>2. content' \in [Paths -> Content]
    BY <2>1, <1>t
  <2> QED
    BY <1>4, <1>t, <2>2 DEF Execute, repoVars, FileTypeOK
<1>5. ASSUME NEW p \in Paths, UserEdits(p) PROVE FileTypeOK'
  <2>1. (IF content[p] = Absent THEN [r \in 1 .. Regions |-> User] ELSE [content[p] EXCEPT ![Regions] = User]) \in Content
    BY <1>a, EditsAssumption DEF Content, User
  <2>2. content' \in [Paths -> Content]
    BY <1>5, <1>t, <2>1 DEF UserEdits
  <2>3. edits' \in 0 .. MaxUser /\ UNCHANGED repoVars
    BY <1>5, <1>t, EditsAssumption DEF UserEdits
  <2> QED
    BY <1>t, <2>2, <2>3 DEF repoVars, FileTypeOK
<1>6. CASE Undo
  <2>1. File.before \in Content
    BY <1>6, FileFacts DEF Undo, Undoing
  <2>2. content' \in [Paths -> Content]
    BY <1>6, <1>t, <2>1 DEF Undo
  <2> QED
    BY <1>6, <1>t, <2>2 DEF Undo, repoVars, FileTypeOK
<1>7. CASE Apply
  <2> DEFINE new == [r \in 1 .. Regions |-> IF r \in Touched THEN File.before[r] ELSE mirror[At(Rev)][r]]
  <2>1. /\ File.before \in Content /\ At(Rev) \in Paths
        /\ File.before # Absent /\ mirror[At(Rev)] # Absent
    BY <1>7, FileFacts, AtTyped DEF Apply, Undoing, PlaceInv, RevPlace
  <2>2. File.before \in [1 .. Regions -> 0 .. User] /\ mirror[At(Rev)] \in [1 .. Regions -> 0 .. User]
    BY <2>1, <1>a DEF Content
  <2>3. new \in Content
    BY <2>2 DEF Content
  <2>4. mirror' = [mirror EXCEPT ![At(Rev)] = new]
    BY <1>7 DEF Apply
  <2> HIDE DEF new
  <2> QED
    BY <1>7, <1>t, <2>3, <2>4 DEF Apply, fileVars, FileTypeOK
<1>8. CASE CopyBack
  <2>1. content' \in [Paths -> Content] /\ edits' = edits /\ repo' = repo /\ Forget(Rev)
    BY <1>8, <1>t, <1>a, AtTyped DEF CopyBack, Undoing
  <2> QED
    BY <1>t, <1>c, <2>1, ForgetType DEF FileTypeOK
<1>9. CASE UNCHANGED <<fileVars, repoVars>>
  BY <1>9, <1>t DEF fileVars, repoVars, FileTypeOK
<1> QED
  <2>1. ASSUME NEW c \in Calls, StartCall(c) \/ CallStep(c) PROVE FileTypeOK'
    <3>1. CASE StartCall(c) \/ TakeMutex(c) \/ TakeFd(c) \/ TimeOut(c) \/ Exists(c)
      BY <3>1, <1>9 DEF StartCall, TakeMutex, TakeFd, TimeOut, Exists
    <3>2. CASE Commit(c) \/ SnapshotFails(c)
      BY <3>2, <1>3, <1>c DEF Commit, SnapshotFails
    <3> QED
      BY <2>1, <3>1, <3>2, <1>1, <1>2, <1>4, <1>c DEF CallStep
  <2>2. CASE FinStep
    <3>1. CASE FinExists \/ LoadMeta(Fin) \/ AppendRun
      BY <3>1, <1>9 DEF FinExists, LoadMeta, AppendRun
    <3>2. CASE FinCommit \/ FinFails
      BY <3>2, <1>3, <1>c DEF FinCommit, FinFails
    <3> QED
      BY <2>2, <3>1, <3>2, <1>1, <1>c DEF FinStep
  <2>3. CASE RevStep
    <3>1. CASE TakeMutex(Rev) \/ TakeFd(Rev) \/ LoadMeta(Rev) \/ MarkReverted
      BY <3>1, <1>9 DEF TakeMutex, TakeFd, LoadMeta, MarkReverted
    <3>2. CASE RevertFails
      BY <3>2, <1>3, <1>c DEF RevertFails
    <3> QED
      BY <2>3, <3>1, <3>2, <1>1, <1>6, <1>7, <1>8, <1>c DEF RevStep
  <2>4. CASE BeginTurn \/ Suspend \/ EndRun \/ RevertStart \/ UNCHANGED vars
    BY <2>4, <1>9 DEF BeginTurn, Suspend, EndRun, RevertStart, vars
  <2> QED
    BY <2>1, <2>2, <2>3, <2>4, <1>5 DEF Next

\* A snapshot is registered once: the first one stays.
LEMMA NoteType ==
  ASSUME TypeOK, NEW c \in Calls, At(c) \in Paths, NEW x \in Content, Note(c, x)
  PROVE  /\ before' \in [Paths -> SUBSET Content] /\ \A p \in Paths : AtMostOne(before'[p])
         /\ \A p \in Paths : before'[p] = IF p = At(c) /\ before[p] = {} THEN {x} ELSE before[p]
<1>1. before \in [Paths -> SUBSET Content] /\ \A p \in Paths : AtMostOne(before[p])
  BY DEF TypeOK, TurnTypeOK
<1>2. \A p \in Paths : before'[p] = IF p = At(c) /\ before[p] = {} THEN {x} ELSE before[p]
  BY <1>1 DEF Note, Noted
<1>3. before' \in [Paths -> SUBSET Content]
  BY <1>1 DEF Note
<1> QED
  BY <1>1, <1>2, <1>3 DEF AtMostOne

\* The turn and its snapshots keep their types.
LEMMA TurnType == TypeOK /\ PlaceInv /\ [Next]_vars => TurnTypeOK'
<1> SUFFICES ASSUME TypeOK, PlaceInv, [Next]_vars PROVE TurnTypeOK'
  OBVIOUS
<1>t. /\ TurnTypeOK /\ Absent \in Content /\ \A p \in Paths : index[p] \in Content
      /\ turn \in Nat /\ run \in Nat /\ run <= turn
  BY EditsAssumption DEF TypeOK, TurnTypeOK, FileTypeOK, Content, PlaceInv, TurnInv
<1>n. Nothing \in [Paths -> SUBSET Content] /\ \A p \in Paths : AtMostOne(Nothing[p])
  BY DEF Nothing, AtMostOne
<1>1. CASE BeginTurn
  <2>1. turn' \in 0 .. MaxTurns /\ run' \in 0 .. MaxTurns /\ phase' = "running" /\ before' = Nothing
    BY <1>1, <1>t, EditsAssumption DEF BeginTurn, TurnTypeOK
  <2> QED
    BY <2>1, <1>n DEF TurnTypeOK
<1>2. ASSUME NEW c \in Calls, Exists(c) PROVE TurnTypeOK'
  <2>1. At(c) \in Paths
    BY <1>2, AtTyped DEF Exists, Snapping
  <2>2. Note(c, Absent) \/ before' = before
    BY <1>2 DEF Exists
  <2>3. UNCHANGED turnVars
    BY <1>2 DEF Exists
  <2> QED
    BY <2>1, <2>2, <2>3, <1>t, NoteType DEF turnVars, TurnTypeOK
<1>3. ASSUME NEW c \in Calls, Commit(c) PROVE TurnTypeOK'
  <2>1. At(c) \in Paths
    BY <1>3, AtTyped DEF Commit, Snapping
  <2>2. Note(c, index[At(c)]) /\ UNCHANGED turnVars
    BY <1>3 DEF Commit
  <2> QED
    BY <2>1, <2>2, <1>t, NoteType DEF turnVars, TurnTypeOK
<1>4. ASSUME FinishRun, UNCHANGED <<turn, run>> PROVE TurnTypeOK'
  BY <1>4, <1>t, <1>n DEF FinishRun, TurnTypeOK
<1>5. CASE UNCHANGED <<turn, run, before>> /\ (phase' = phase \/ phase' \in {"suspended", "ending"})
  BY <1>5, <1>t DEF TurnTypeOK
<1> QED
  <2>1. ASSUME NEW c \in Calls, StartCall(c) \/ CallStep(c) PROVE TurnTypeOK'
    <3>1. CASE StartCall(c) \/ TakeMutex(c) \/ TakeFd(c) \/ TimeOut(c) \/ Look(c) \/ GitInit(c) \/ InitConfig(c)
      BY <3>1, <1>5 DEF StartCall, TakeMutex, TakeFd, TimeOut, Look, GitInit, InitConfig, turnVars
    <3>2. CASE MirrorFile(c) \/ GitAdd(c) \/ SnapshotFails(c) \/ Execute(c)
      BY <3>2, <1>5 DEF MirrorFile, GitAdd, SnapshotFails, Execute, turnVars
    <3> QED
      BY <2>1, <3>1, <3>2, <1>2, <1>3 DEF CallStep
  <2>2. CASE FinStep
    <3>1. CASE MirrorFile(Fin) \/ GitAdd(Fin) \/ LoadMeta(Fin)
      BY <3>1, <1>5 DEF MirrorFile, GitAdd, LoadMeta, turnVars
    <3>2. CASE FinExists \/ FinCommit \/ FinFails \/ AppendRun
      BY <3>2, <1>4, <1>5 DEF FinExists, FinCommit, FinFails, AppendRun, Record
    <3> QED
      BY <2>2, <3>1, <3>2 DEF FinStep
  <2>3. CASE RevStep
    BY <2>3, <1>5 DEF RevStep, TakeMutex, TakeFd, LoadMeta, MarkReverted, MirrorFile, Undo, Apply, CopyBack, RevertFails, turnVars
  <2>4. CASE Suspend \/ RevertStart \/ UNCHANGED vars \/ \E p \in Paths : UserEdits(p)
    BY <2>4, <1>5 DEF Suspend, RevertStart, UserEdits, vars, turnVars
  <2>5. CASE EndRun
    BY <2>5, EndRunEffect, <1>4, <1>5
  <2> QED
    BY <2>1, <2>2, <2>3, <2>4, <2>5, <1>1 DEF Next

\* The history variables keep their types.
LEMMA HistoryType == TypeOK /\ PlaceInv /\ [Next]_vars => HistoryTypeOK'
<1> SUFFICES ASSUME TypeOK, PlaceInv, [Next]_vars PROVE HistoryTypeOK'
  OBVIOUS
<1>t. /\ HistoryTypeOK /\ Absent \in Content /\ \A p \in Paths : content[p] \in Content
      /\ first \in [Paths -> SUBSET Content] /\ last \in [Paths -> SUBSET Content]
      /\ \A p \in Paths : AtMostOne(first[p]) /\ AtMostOne(last[p])
      /\ spoiled \subseteq Paths /\ lax \subseteq Calls \X Paths /\ disturbed \in BOOLEAN
  BY DEF TypeOK, HistoryTypeOK, FileTypeOK, Content
<1>n. Nothing \in [Paths -> SUBSET Content] /\ \A p \in Paths : AtMostOne(Nothing[p])
  BY DEF Nothing, AtMostOne
<1>1. CASE BeginTurn
  BY <1>1, <1>t, <1>n DEF BeginTurn, HistoryTypeOK
<1>2. ASSUME NEW c \in Calls, TimeOut(c) PROVE HistoryTypeOK'
  <2>1. At(c) \in Paths
    BY <1>2, AtTyped DEF TimeOut, TimesOut
  <2> QED
    BY <1>2, <1>t, <2>1 DEF TimeOut, HistoryTypeOK
<1>3. ASSUME NEW w \in Callers, MirrorFile(w) PROVE HistoryTypeOK'
  <2>1. At(w) \in Paths
    BY <1>3, AtTyped DEF MirrorFile, Callers, Snapping, Undoing
  <2>2. last' \in [Paths -> SUBSET Content] /\ \A p \in Paths : AtMostOne(last'[p])
    BY <1>3, <1>t, <2>1 DEF MirrorFile, AtMostOne
  <2>3. spoiled' \subseteq Paths /\ disturbed' \in BOOLEAN /\ first' = first /\ lax' = lax
    BY <1>3, <1>t, <2>1 DEF MirrorFile, Crossed, Disturbs
  <2> QED
    BY <1>t, <2>2, <2>3 DEF HistoryTypeOK
<1>4. ASSUME NEW c \in Calls, SnapshotFails(c) PROVE HistoryTypeOK'
  <2>1. At(c) \in Paths
    BY <1>4, AtTyped DEF SnapshotFails, GitFails, Refuses, IndexLocked, Snapping
  <2> QED
    BY <1>4, <1>t, <2>1 DEF SnapshotFails, Excuses, HistoryTypeOK
<1>5. ASSUME NEW c \in Calls, Execute(c) PROVE HistoryTypeOK'
  <2>1. /\ \E P \in SUBSET Paths :
             /\ first' = [p \in Paths |-> IF p \in P /\ first[p] = {} THEN {content[p]} ELSE first[p]]
             /\ spoiled' = spoiled \cup {p \in P : << c, p >> \in lax}
             /\ disturbed' = (disturbed \/ Disturbs(P))
        /\ lax' = {x \in lax : x[1] # c} /\ last' = last
    <3>1. PICK new \in [Range(names[c]) -> Content] :
            LET changed == {p \in DOMAIN new : new[p] # content[p]}
            IN  /\ first' = [p \in Paths |-> IF p \in changed /\ first[p] = {} THEN {content[p]} ELSE first[p]]
                /\ spoiled' = spoiled \cup {p \in changed : << c, p >> \in lax}
                /\ disturbed' = (disturbed \/ Disturbs(changed))
      BY <1>5 DEF Execute
    <3>2. Range(names[c]) \subseteq Paths
      BY SeqFacts DEF Range, TypeOK, CallerTypeOK
    <3>3. {p \in DOMAIN new : new[p] # content[p]} \in SUBSET Paths
      BY <3>2
    <3> QED
      BY <1>5, <3>1, <3>3 DEF Execute
  <2>2. PICK P \in SUBSET Paths :
             /\ first' = [p \in Paths |-> IF p \in P /\ first[p] = {} THEN {content[p]} ELSE first[p]]
             /\ spoiled' = spoiled \cup {p \in P : << c, p >> \in lax}
             /\ disturbed' = (disturbed \/ Disturbs(P))
    BY <2>1
  <2>3. first' \in [Paths -> SUBSET Content] /\ \A p \in Paths : AtMostOne(first'[p])
    BY <1>t, <2>2 DEF AtMostOne
  <2>4. spoiled' \subseteq Paths /\ lax' \subseteq Calls \X Paths /\ disturbed' \in BOOLEAN
    BY <1>t, <2>1, <2>2 DEF Disturbs
  <2> QED
    BY <1>t, <2>1, <2>3, <2>4 DEF HistoryTypeOK
<1>6. ASSUME NEW p \in Paths, UserEdits(p) PROVE HistoryTypeOK'
  BY <1>6, <1>t DEF UserEdits, Foreign, Disturbs, HistoryTypeOK
<1>7. CASE FinExists
  <2>1. At(Fin) \in Paths
    BY <1>7, AtTyped DEF FinExists
  <2>2. last' = last \/ last' = [last EXCEPT ![At(Fin)] = {Absent}]
    BY <1>7 DEF FinExists
  <2>3. last' \in [Paths -> SUBSET Content] /\ \A p \in Paths : AtMostOne(last'[p])
    BY <1>t, <2>1, <2>2 DEF AtMostOne
  <2> QED
    BY <1>7, <1>t, <2>3 DEF FinExists, HistoryTypeOK
<1>8. CASE FinFails
  BY <1>8, <1>t DEF FinFails, Excuses, HistoryTypeOK
<1>9. CASE Undo \/ CopyBack
  <2>1. At(Rev) \in Paths
    BY <1>9, AtTyped DEF Undo, CopyBack, Undoing
  <2>2. first' = first /\ last' = last /\ lax' = lax /\ (Undone \/ UNCHANGED <<spoiled, disturbed>>)
    BY <1>9 DEF Undo, CopyBack
  <2>3. spoiled' \subseteq Paths /\ disturbed' \in BOOLEAN
    BY <1>t, <2>1, <2>2 DEF Undone, Foreign
  <2> QED
    BY <1>t, <2>2, <2>3 DEF HistoryTypeOK
<1>10. CASE Apply
  <2>1. At(Rev) \in Paths
    BY <1>10, AtTyped DEF Apply, Undoing
  <2> QED
    BY <1>10, <1>t, <2>1 DEF Apply, Crossed, HistoryTypeOK
<1>11. CASE RevertFails \/ MarkReverted
  BY <1>11, <1>t DEF RevertFails, MarkReverted, Overwrites, HistoryTypeOK
<1>12. CASE UNCHANGED historyVars
  BY <1>12, <1>t DEF historyVars, HistoryTypeOK
<1>c. Calls \subseteq Callers /\ Fin \in Callers /\ Rev \in Callers
  BY DEF Callers
<1> QED
  <2>1. ASSUME NEW c \in Calls, StartCall(c) \/ CallStep(c) PROVE HistoryTypeOK'
    <3>1. CASE StartCall(c) \/ TakeMutex(c) \/ TakeFd(c) \/ Look(c) \/ GitInit(c) \/ InitConfig(c) \/ Exists(c) \/ GitAdd(c) \/ Commit(c)
      BY <3>1, <1>12 DEF StartCall, TakeMutex, TakeFd, Look, GitInit, InitConfig, Exists, GitAdd, Commit
    <3> QED
      BY <2>1, <3>1, <1>2, <1>3, <1>4, <1>5, <1>c DEF CallStep
  <2>2. CASE FinStep
    <3>1. CASE GitAdd(Fin) \/ LoadMeta(Fin) \/ FinCommit \/ AppendRun
      BY <3>1, <1>12 DEF GitAdd, LoadMeta, FinCommit, AppendRun
    <3> QED
      BY <2>2, <3>1, <1>3, <1>7, <1>8, <1>c DEF FinStep
  <2>3. CASE RevStep
    <3>1. CASE TakeMutex(Rev) \/ TakeFd(Rev) \/ LoadMeta(Rev)
      BY <3>1, <1>12 DEF TakeMutex, TakeFd, LoadMeta
    <3> QED
      BY <2>3, <3>1, <1>3, <1>9, <1>10, <1>11, <1>c DEF RevStep
  <2>4. CASE Suspend \/ RevertStart \/ UNCHANGED vars
    BY <2>4, <1>12 DEF Suspend, RevertStart, vars
  <2>5. CASE EndRun
    BY <2>5, EndRunEffect, <1>12
  <2> QED
    BY <2>1, <2>2, <2>3, <2>4, <2>5, <1>1, <1>6 DEF Next

\* What finalize_run does with a file it has compared: it lists the difference, if
\* there is one, and goes on to the next file, to the metadata or, with nothing listed,
\* to its end.
LEMMA RecordEffect ==
  ASSUME TypeOK, PlaceInv, pc[Fin] \in {"exists", "mirror", "add", "commit"}, NEW x \in Content, Record(x)
  PROVE  /\ changes' \in Seq(Change) /\ changes \in Seq(Change)
         /\ \A j \in DOMAIN changes : j \in DOMAIN changes' /\ changes'[j] = changes[j]
         /\ before[At(Fin)] # {x} =>
              \E j \in DOMAIN changes' : /\ changes'[j].path = At(Fin) /\ changes'[j].after = x
                                         /\ before[At(Fin)] = {changes'[j].before}
         /\ before[At(Fin)] = {x} => changes' = changes
         /\ \/ Len(todo[Fin]) = 1 /\ changes' = << >> /\ FinishRun
            \/ /\ todo' = [todo EXCEPT ![Fin] = Tail(todo[Fin])] /\ UNCHANGED <<phase, before>>
               /\ Goes(Fin, IF Len(todo[Fin]) = 1 THEN "load" ELSE "exists")
               /\ Len(todo[Fin]) = 1 => changes' # << >>
<1> DEFINE c == [path |-> At(Fin), after |-> x, before |-> CHOOSE b \in before[At(Fin)] : TRUE]
<1>1. /\ At(Fin) \in Paths /\ before[At(Fin)] # {} /\ before[At(Fin)] \subseteq Content
      /\ AtMostOne(before[At(Fin)])
  BY AtTyped DEF TypeOK, TurnTypeOK
<1>2. c.before \in before[At(Fin)] /\ c.path = At(Fin) /\ c.after = x
  BY <1>1
<1>3. before[At(Fin)] = {c.before}
  BY <1>1, <1>2 DEF AtMostOne
<1>4. c \in Change
  BY <1>1, <1>2 DEF Change
<1>5. changes \in Seq(Change)
  BY DEF TypeOK, RecordTypeOK
<1>6. changes' = IF before[At(Fin)] = {x} THEN changes ELSE Append(changes, c)
  BY DEF Record
<1> HIDE DEF c
<1>7. /\ changes' \in Seq(Change)
      /\ \A j \in DOMAIN changes : j \in DOMAIN changes' /\ changes'[j] = changes[j]
      /\ before[At(Fin)] # {x} => \E j \in DOMAIN changes' : changes'[j] = c
  BY <1>4, <1>5, <1>6, SeqFacts
<1>8. before[At(Fin)] = {x} => changes' = changes
  BY <1>6
<1>9. \/ Len(todo[Fin]) = 1 /\ changes' = << >> /\ FinishRun
      \/ /\ todo' = [todo EXCEPT ![Fin] = Tail(todo[Fin])] /\ UNCHANGED <<phase, before>>
         /\ Goes(Fin, IF Len(todo[Fin]) = 1 THEN "load" ELSE "exists")
         /\ Len(todo[Fin]) = 1 => changes' # << >>
  BY DEF Record
<1> QED
  BY <1>2, <1>3, <1>5, <1>7, <1>8, <1>9

\* The entries, and what has been read of them, keep their types.
LEMMA RecordType == TypeOK /\ PlaceInv /\ [Next]_vars => RecordTypeOK'
<1> SUFFICES ASSUME TypeOK, PlaceInv, [Next]_vars PROVE RecordTypeOK'
  OBVIOUS
<1>t. /\ changes \in Seq(Change) /\ meta \in Seq(RunEntry) /\ RecordTypeOK
      /\ loaded \in [Callers -> Seq(RunEntry)] /\ job \in Seq(RunEntry)
  BY DEF TypeOK, RecordTypeOK
<1>c. Calls \subseteq Callers /\ Fin \in Callers /\ Rev \in Callers
  BY DEF Callers
<1>1. CASE FinExists \/ FinCommit
  <2>1. Absent \in Content /\ (pc[Fin] = "commit" => index[At(Fin)] \in Content)
    BY AtTyped DEF TypeOK, FileTypeOK, Content
  <2>2. UNCHANGED <<meta, loaded, job>>
    BY <1>1 DEF FinExists, FinCommit
  <2>3. changes' = changes \/ \E x \in Content : Record(x) /\ pc[Fin] \in {"exists", "commit"}
    BY <1>1, <2>1 DEF FinExists, FinCommit
  <2> QED
    BY <1>t, <2>2, <2>3, RecordEffect DEF RecordTypeOK
<1>2. CASE FinFails
  BY <1>2, <1>t DEF FinFails, RecordTypeOK
<1>3. ASSUME NEW w \in Callers, LoadMeta(w) PROVE RecordTypeOK'
  BY <1>3, <1>t DEF LoadMeta, RecordTypeOK
<1>e. /\ << >> \in Seq(Change) /\ << >> \in Seq(RunEntry)
      /\ \A w \in Callers : [loaded EXCEPT ![w] = << >>] \in [Callers -> Seq(RunEntry)]
  <2>1. << >> \in Seq(Change) /\ << >> \in Seq(RunEntry)
    OBVIOUS
  <2> QED
    BY <1>t, <2>1
<1>4. CASE AppendRun
  <2> DEFINE e == [run |-> run, files |-> changes, reverted |-> FALSE]
  <2>1. run \in Runs /\ changes # << >>
    BY <1>4, EditsAssumption DEF AppendRun, PlaceInv, FinPlace, TurnInv, TypeOK, TurnTypeOK, Runs
  <2>2. e \in RunEntry
    BY <1>t, <2>1 DEF RunEntry
  <2>3. loaded[Fin] \in Seq(RunEntry) /\ meta' = Append(loaded[Fin], e)
    BY <1>4, <1>t, <1>c DEF AppendRun
  <2> HIDE DEF e
  <2>4. meta' \in Seq(RunEntry)
    BY <2>2, <2>3
  <2>5. changes' = << >> /\ loaded' = [loaded EXCEPT ![Fin] = << >>] /\ job' = job
    BY <1>4 DEF AppendRun
  <2> QED
    BY <1>t, <1>e, <1>c, <2>4, <2>5 DEF RecordTypeOK
<1>5. CASE RevertStart
  <2>1. PICK e \in Range(meta) : job' = << e >>
    BY <1>5 DEF RevertStart
  <2>2. e \in RunEntry
    BY <1>t, SeqFacts DEF Range
  <2>3. job' \in Seq(RunEntry)
    BY <2>1, <2>2
  <2> QED
    BY <1>5, <1>t, <2>3 DEF RevertStart, RecordTypeOK
<1>6. CASE MarkReverted
  <2>1. loaded[Rev] \in Seq(RunEntry)
    BY <1>t, <1>c
  <2>2. \A i \in DOMAIN loaded[Rev] : [loaded[Rev][i] EXCEPT !.reverted = @ \/ loaded[Rev][i].run = job[1].run] \in RunEntry
    <3>1. \A i \in DOMAIN loaded[Rev] : loaded[Rev][i] \in RunEntry
      BY <2>1
    <3> QED
      BY <3>1 DEF RunEntry
  <2>3. meta' \in Seq(RunEntry)
    <3>1. DOMAIN loaded[Rev] = 1 .. Len(loaded[Rev]) /\ Len(loaded[Rev]) \in Nat
      BY <2>1
    <3>2. meta' \in [1 .. Len(loaded[Rev]) -> RunEntry]
      BY <1>6, <2>2, <3>1 DEF MarkReverted
    <3> QED
      BY <3>1, <3>2
  <2>4. changes' = changes /\ loaded' = [loaded EXCEPT ![Rev] = << >>] /\ job' = << >>
    BY <1>6 DEF MarkReverted
  <2> QED
    BY <1>t, <1>e, <1>c, <2>3, <2>4 DEF RecordTypeOK
<1>7. CASE RevertFails
  BY <1>7, <1>t DEF RevertFails, RecordTypeOK
<1>8. CASE UNCHANGED recordVars
  BY <1>8, <1>t DEF recordVars, RecordTypeOK
<1> QED
  <2>1. ASSUME NEW c \in Calls, StartCall(c) \/ CallStep(c) PROVE RecordTypeOK'
    BY <2>1, <1>8 DEF CallStep, StartCall, TakeMutex, TakeFd, TimeOut, Look, GitInit, InitConfig, Exists, MirrorFile, GitAdd,
                      Commit, SnapshotFails, Execute
  <2>2. CASE FinStep
    BY <2>2, <1>1, <1>2, <1>3, <1>4, <1>8, <1>c DEF FinStep, MirrorFile, GitAdd
  <2>3. CASE RevStep
    BY <2>3, <1>3, <1>6, <1>7, <1>8, <1>c DEF RevStep, TakeMutex, TakeFd, MirrorFile, Undo, Apply, CopyBack
  <2>4. CASE BeginTurn \/ Suspend \/ UNCHANGED vars \/ \E p \in Paths : UserEdits(p)
    BY <2>4, <1>8 DEF BeginTurn, Suspend, UserEdits, vars
  <2>5. CASE EndRun
    BY <2>5, EndRunEffect, <1>8
  <2> QED
    BY <2>1, <2>2, <2>3, <2>4, <2>5, <1>5 DEF Next

\* Every step keeps the types.
LEMMA TypeNext == TypeOK /\ PlaceInv /\ [Next]_vars => TypeOK'
BY CallerType, FileType, TurnType, HistoryType, RecordType DEF TypeOK

\* A call that does not move stays where it is.
LEMMA SamePlace ==
  ASSUME NEW c \in Calls, Same(c)
  PROVE  /\ Count(c)' = Count(c) /\ Past(c)' = Past(c) /\ Through(c)' = Through(c) /\ At(c)' = At(c)
         /\ CallPlace(c) => CallPlace(c)'
<1>1. /\ pc'[c] = pc[c] /\ todo'[c] = todo[c] /\ names'[c] = names[c] /\ held'[c] = held[c] /\ fd'[c] = fd[c]
      /\ \A p \in Paths : << c, p >> \in lax' <=> << c, p >> \in lax
  BY DEF Same
<1>2. Count(c)' = Count(c) /\ At(c)' = At(c)
  BY <1>1 DEF Count, At
<1>3. Past(c)' = Past(c)
  BY <1>1, <1>2 DEF Past
<1>4. Through(c)' = Through(c)
  BY <1>1, <1>2, <1>3 DEF Through
<1>5. CallPlace(c) => CallPlace(c)'
  BY <1>1, <1>2 DEF CallPlace
<1> QED
  BY <1>2, <1>3, <1>4, <1>5

\* The paths of a call are those behind it and those ahead of it.
LEMMA CountFacts ==
  ASSUME CallerTypeOK, NEW c \in Calls, CallPlace(c)
  PROVE  /\ Count(c) \in Nat /\ Len(todo[c]) \in Nat /\ Len(names[c]) = Count(c) + Len(todo[c])
         /\ Past(c) \subseteq Paths
         /\ todo[c] = << >> => Past(c) = Range(names[c])
         /\ todo[c] # << >> => At(c) = names[c][Count(c) + 1] /\ Len(todo[c]) > 0
<1>1. names[c] \in Seq(Paths) /\ todo[c] \in Seq(Paths)
  BY DEF CallerTypeOK, Callers
<1>2. /\ Len(names[c]) \in Nat /\ Len(todo[c]) \in Nat /\ Len(todo[c]) <= Len(names[c])
      /\ DOMAIN names[c] = 1 .. Len(names[c]) /\ \A i \in DOMAIN names[c] : names[c][i] \in Paths
      /\ todo[c] = << >> <=> Len(todo[c]) = 0
  BY <1>1, SeqFacts DEF CallPlace
<1>3. Count(c) \in Nat /\ Len(names[c]) = Count(c) + Len(todo[c])
  BY <1>2 DEF Count
<1>4. Past(c) \subseteq Paths
  <2>1. \A i \in 1 .. Count(c) : i \in DOMAIN names[c]
    BY <1>2, <1>3
  <2> QED
    BY <1>2, <2>1 DEF Past
<1>5. todo[c] = << >> => Past(c) = Range(names[c])
  BY <1>2, <1>3 DEF Past, Range
<1>6. todo[c] # << >> => At(c) = names[c][Count(c) + 1]
  BY <1>1, <1>2, AtFacts DEF CallPlace, Callers
<1> QED
  BY <1>2, <1>3, <1>4, <1>5, <1>6

\* Going on to the next path puts the present one behind the call.
LEMMA NextPathPlace ==
  ASSUME CallerTypeOK, NEW c \in Calls, CallPlace(c), pc[c] \in Snapping, NextPath(c),
         names' = names, lax' = lax
  PROVE  /\ CallPlace(c)' /\ Past(c)' = Past(c) \cup {At(c)} /\ Through(c)' = Through(c)
         /\ Through(c) = Past(c) \cup {At(c)} /\ held' = held /\ fd' = fd
         /\ pc'[c] \in {"mutex", "exec"}
<1>1. /\ todo[c] # << >> /\ Len(todo[c]) \in Nat /\ Count(c) \in Nat
      /\ Len(names[c]) = Count(c) + Len(todo[c]) /\ At(c) = names[c][Count(c) + 1] /\ Len(todo[c]) > 0
      /\ c \in Callers
  BY CountFacts DEF CallPlace, Snapping, Callers
<1>2. /\ todo'[c] = Tail(todo[c]) /\ held' = held /\ fd' = fd
      /\ pc'[c] = IF Len(todo[c]) = 1 THEN "exec" ELSE "mutex"
  BY <1>1, NextPathType DEF CallerTypeOK
<1>3. /\ Len(todo'[c]) = Len(todo[c]) - 1 /\ (todo'[c] = << >> <=> Len(todo[c]) = 1)
      /\ \A i \in 1 .. Len(todo[c]) - 1 : todo'[c][i] = todo[c][i + 1]
  <2>1. Tail(todo[c]) \in Seq(Paths) /\ Len(Tail(todo[c])) = Len(todo[c]) - 1
    BY <1>1, AtFacts
  <2>2. Tail(todo[c]) = << >> <=> Len(Tail(todo[c])) = 0
    BY <2>1, SeqFacts
  <2> QED
    BY <1>1, <1>2, <2>1, <2>2, AtFacts
<1>4. Count(c)' = Count(c) + 1
  BY <1>1, <1>3 DEF Count
<1>5. Past(c)' = Past(c) \cup {At(c)}
  <2>1. Past(c)' = {names[c][i] : i \in 1 .. Count(c) + 1}
    BY <1>4 DEF Past
  <2>2. 1 .. Count(c) + 1 = (1 .. Count(c)) \cup {Count(c) + 1}
    BY <1>1
  <2> QED
    BY <1>1, <2>1, <2>2 DEF Past
<1>6. Through(c)' = Past(c)' /\ Through(c) = Past(c) \cup {At(c)}
  BY <1>2 DEF Through, Snapping
<1>7. CallPlace(c)'
  <2>1. \A i \in 1 .. Len(todo'[c]) : todo'[c][i] = names[c][Count(c)' + i]
    <3> SUFFICES ASSUME NEW i \in 1 .. Len(todo'[c]) PROVE todo'[c][i] = names[c][Count(c)' + i]
      OBVIOUS
    <3>1. i + 1 \in 1 .. Len(todo[c]) /\ todo'[c][i] = todo[c][i + 1]
      BY <1>1, <1>3
    <3>2. todo[c][i + 1] = names[c][Count(c) + (i + 1)]
      BY <3>1 DEF CallPlace
    <3>3. Count(c)' + i = Count(c) + (i + 1)
      BY <1>1, <1>4, <1>3
    <3> QED
      BY <3>1, <3>2, <3>3
  <2>2. Len(todo'[c]) <= Len(names[c])
    BY <1>1, <1>3
  <2>3. pc'[c] = "exec" <=> todo'[c] = << >>
    BY <1>2, <1>3
  <2> QED
    BY <1>2, <2>1, <2>2, <2>3 DEF CallPlace, Snapping
<1> QED
  BY <1>2, <1>5, <1>6, <1>7

\* A step of a call at one path leaves behind it what was there.
LEMMA StayPlace ==
  ASSUME CallerTypeOK, NEW c \in Calls, CallPlace(c), pc[c] \in {"mutex", "fd"} \cup Snapping,
         pc'[c] \in {"fd"} \cup Snapping, todo'[c] = todo[c], names' = names
  PROVE  /\ CallPlace(c)' /\ Past(c)' = Past(c) /\ At(c)' = At(c)
         /\ Through(c)' = Past(c) \cup (IF pc'[c] \in Snapping THEN {At(c)} ELSE {})
<1>1. Count(c)' = Count(c) /\ At(c)' = At(c)
  BY DEF Count, At
<1>2. Past(c)' = Past(c)
  BY <1>1 DEF Past
<1>3. CallPlace(c)'
  BY <1>1 DEF CallPlace, Snapping
<1> QED
  BY <1>1, <1>2, <1>3 DEF Through

\* Every step keeps the places of the calls.
LEMMA CallPlaceNext == TypeOK /\ PlaceInv /\ [Next]_vars => (\A c \in Calls : CallPlace(c))'
<1> SUFFICES ASSUME TypeOK, PlaceInv, [Next]_vars, NEW c \in Calls PROVE CallPlace(c)'
  OBVIOUS
<1>t. CallerTypeOK /\ HistoryTypeOK /\ RecordTypeOK /\ CallPlace(c) /\ c \in Callers /\ c # Rev
  BY EditsAssumption DEF TypeOK, PlaceInv, Callers
<1>p. pc \in [Callers -> Places]
      /\ todo \in [Callers -> Seq(Paths)] /\ names \in [Calls -> Seq(Paths)]
  BY <1>t DEF CallerTypeOK
<1>1. CASE Same(c)
  BY <1>1, <1>t, SamePlace
<1>2. CASE StartCall(c)
  <2>1. PICK s \in Touches[c] : names' = [names EXCEPT ![c] = s] /\ todo' = [todo EXCEPT ![c] = s]
    BY <1>2 DEF StartCall
  <2>2. s \in Seq(Paths) /\ s # << >>
    BY EditsAssumption
  <2>3. names'[c] = s /\ todo'[c] = s /\ pc'[c] = "mutex"
    BY <1>2, <1>p, <1>t, <2>1 DEF StartCall, Goes
  <2>4. Len(s) \in Nat /\ Count(c)' = 0
    BY <2>2, <2>3 DEF Count
  <2> QED
    BY <2>2, <2>3, <2>4 DEF CallPlace, Snapping
<1>3. CASE TakeMutex(c) \/ TakeFd(c) \/ TimeOut(c) \/ GitInit(c) \/ InitConfig(c) \/ MirrorFile(c) \/ GitAdd(c)
  <2>1. /\ pc[c] \in {"mutex", "fd"} \cup Snapping /\ pc'[c] \in {"fd"} \cup Snapping
        /\ todo'[c] = todo[c] /\ names' = names
    BY <1>3, <1>t, <1>p DEF TakeMutex, TakeFd, TimeOut, TimesOut, GitInit, InitConfig, MirrorFile, GitAdd, Goes, Snapping
  <2> QED
    BY <1>t, <2>1, StayPlace
<1>4. CASE Look(c) \/ Exists(c) \/ Commit(c) \/ SnapshotFails(c)
  <2>1. pc[c] \in Snapping /\ names' = names /\ lax' = lax
    BY <1>4 DEF Look, Exists, Commit, SnapshotFails, GitFails, Refuses, IndexLocked, Snapping, historyVars
  <2>2. NextPath(c) \/ (pc'[c] \in Snapping /\ todo' = todo)
    BY <1>4, <1>p, <1>t DEF Look, Exists, Commit, SnapshotFails, Goes, Snapping
  <2> QED
    BY <1>t, <2>1, <2>2, NextPathPlace, StayPlace
<1>5. CASE Execute(c)
  <2>1. /\ pc'[c] = "done" /\ names'[c] = << >> /\ todo'[c] = todo[c] /\ held'[c] = {} /\ fd'[c] = {}
        /\ lax' = {x \in lax : x[1] # c} /\ pc[c] = "exec"
    BY <1>5, <1>p, <1>t DEF Execute, Goes, CallerTypeOK
  <2>2. todo[c] = << >> /\ \A p \in Paths : << c, p >> \notin lax'
    BY <1>t, <2>1 DEF CallPlace
  <2>3. todo'[c] = << >> /\ Len(todo'[c]) = 0 /\ Len(names'[c]) = 0
    BY <2>1, <2>2
  <2> QED
    BY <2>1, <2>2, <2>3 DEF CallPlace, Snapping
<1> QED
  BY <1>t, <1>1, <1>2, <1>3, <1>4, <1>5, CallMoves DEF CallStep

\* A step of a call keeps what it holds, and puts no path behind it that it had not got
\* past.
LEMMA CallLocks ==
  ASSUME TypeOK, PlaceInv, NEW c \in Calls, StartCall(c) \/ CallStep(c),
         \A p \in Through(c) : p \in fd[c] \/ << c, p >> \in lax,
         held[c] \subseteq Past(c) \cup (IF pc[c] \in {"fd"} \cup Snapping THEN {At(c)} ELSE {})
  PROVE  /\ \A p \in Through(c)' : p \in fd'[c] \/ << c, p >> \in lax'
         /\ held'[c] \subseteq Past(c)' \cup (IF pc'[c] \in {"fd"} \cup Snapping THEN {At(c)'} ELSE {})
         /\ Past(c)' \subseteq Through(c)
<1>t. CallerTypeOK /\ HistoryTypeOK /\ RecordTypeOK /\ CallPlace(c) /\ c \in Callers /\ c # Rev
  BY EditsAssumption DEF TypeOK, PlaceInv, Callers
<1>p. pc \in [Callers -> Places]
      /\ todo \in [Callers -> Seq(Paths)] /\ names \in [Calls -> Seq(Paths)]
      /\ held \in [Callers -> SUBSET Paths] /\ fd \in [Callers -> SUBSET Paths]
  BY <1>t DEF CallerTypeOK
<1>2. CASE StartCall(c)
  <2>1. PICK s \in Touches[c] : names' = [names EXCEPT ![c] = s] /\ todo' = [todo EXCEPT ![c] = s]
    BY <1>2 DEF StartCall
  <2>2. names'[c] = s /\ todo'[c] = s /\ pc'[c] = "mutex" /\ held'[c] = held[c] /\ held[c] = {}
    BY <1>2, <1>p, <1>t, <2>1 DEF StartCall, Goes, lockVars, CallPlace
  <2>3. s \in Seq(Paths) /\ Len(s) \in Nat
    BY EditsAssumption
  <2>4. Count(c)' = 0
    BY <2>2, <2>3 DEF Count
  <2>5. Past(c)' = {}
    BY <2>4 DEF Past
  <2> QED
    BY <2>2, <2>5 DEF Through, Snapping
<1>3. CASE TakeMutex(c)
  <2>1. /\ pc[c] = "mutex" /\ pc'[c] = "fd" /\ held'[c] = held[c] \cup {At(c)}
        /\ todo'[c] = todo[c] /\ names' = names /\ fd' = fd /\ lax' = lax
    BY <1>3, <1>t, <1>p DEF TakeMutex, Goes, historyVars
  <2>2. Past(c)' = Past(c) /\ At(c)' = At(c) /\ Through(c)' = Past(c)
    BY <1>t, <2>1, StayPlace DEF Snapping
  <2> QED
    BY <2>1, <2>2 DEF Through, Snapping
<1>4. CASE TakeFd(c)
  <2>1. /\ pc[c] = "fd" /\ pc'[c] = "look" /\ held' = held /\ fd'[c] = fd[c] \cup {At(c)}
        /\ todo'[c] = todo[c] /\ names' = names /\ lax' = lax
    BY <1>4, <1>t, <1>p DEF TakeFd, Goes, historyVars
  <2>2. Past(c)' = Past(c) /\ At(c)' = At(c) /\ Through(c)' = Past(c) \cup {At(c)}
    BY <1>t, <2>1, StayPlace DEF Snapping
  <2> QED
    BY <2>1, <2>2 DEF Through, Snapping
<1>5. CASE TimeOut(c)
  <2>1. /\ pc[c] = "fd" /\ pc'[c] = "look" /\ held'[c] = held[c] \ {At(c)} /\ fd' = fd
        /\ todo'[c] = todo[c] /\ names' = names /\ lax' = lax \cup {<< c, At(c) >>}
    BY <1>5, <1>t, <1>p DEF TimeOut, TimesOut, Goes
  <2>2. Past(c)' = Past(c) /\ At(c)' = At(c) /\ Through(c)' = Past(c) \cup {At(c)}
    BY <1>t, <2>1, StayPlace DEF Snapping
  <2> QED
    BY <2>1, <2>2 DEF Through, Snapping
<1>6. CASE GitInit(c) \/ InitConfig(c) \/ MirrorFile(c) \/ GitAdd(c)
  <2>1. /\ pc[c] \in Snapping /\ pc'[c] \in Snapping /\ held' = held /\ fd' = fd
        /\ todo'[c] = todo[c] /\ names' = names /\ lax' = lax
    BY <1>6, <1>t, <1>p DEF GitInit, InitConfig, MirrorFile, GitAdd, Goes, Snapping, lockVars, historyVars
  <2>2. Past(c)' = Past(c) /\ At(c)' = At(c) /\ Through(c)' = Past(c) \cup {At(c)}
    BY <1>t, <2>1, StayPlace
  <2> QED
    BY <2>1, <2>2 DEF Through
<1>7. CASE Look(c) \/ Exists(c) \/ Commit(c) \/ SnapshotFails(c)
  <2>1. pc[c] \in Snapping /\ names' = names /\ lax' = lax
    BY <1>7 DEF Look, Exists, Commit, SnapshotFails, GitFails, Refuses, IndexLocked, Snapping, historyVars
  <2>2. NextPath(c) \/ (pc'[c] \in Snapping /\ todo' = todo /\ UNCHANGED lockVars)
    BY <1>7, <1>p, <1>t DEF Look, Exists, Commit, SnapshotFails, Goes, Snapping
  <2>3. CASE NextPath(c)
    BY <1>t, <2>1, <2>3, NextPathPlace
  <2>4. CASE pc'[c] \in Snapping /\ todo' = todo /\ UNCHANGED lockVars
    <3>1. Past(c)' = Past(c) /\ At(c)' = At(c) /\ Through(c)' = Past(c) \cup {At(c)}
      BY <1>t, <2>1, <2>4, StayPlace
    <3> QED
      BY <2>1, <2>4, <3>1 DEF Through, lockVars
  <2> QED
    BY <2>2, <2>3, <2>4
<1>8. CASE Execute(c)
  <2>1. pc'[c] = "done" /\ names'[c] = << >> /\ todo'[c] = todo[c] /\ held'[c] = {} /\ pc[c] = "exec"
    BY <1>8, <1>p, <1>t DEF Execute, Goes
  <2>2. todo[c] = << >>
    BY <1>t, <2>1 DEF CallPlace
  <2>3. Count(c)' = 0
    BY <2>1, <2>2 DEF Count
  <2>4. Past(c)' = {}
    BY <2>3 DEF Past
  <2> QED
    BY <2>1, <2>4 DEF Through, Snapping
<1> QED
  BY <1>2, <1>3, <1>4, <1>5, <1>6, <1>7, <1>8 DEF CallStep

\* Lock files are locked one at a time and given back all at once.
LEMMA FdMoves ==
  ASSUME [Next]_vars
  PROVE  \/ fd' = fd
         \/ \E w \in Callers : TakeFd(w) \/ fd' = [fd EXCEPT ![w] = {}]
<1>c. Calls \subseteq Callers /\ Fin \in Callers /\ Rev \in Callers
  BY DEF Callers
<1>1. ASSUME NEW c \in Calls, StartCall(c) \/ CallStep(c)
      PROVE  fd' = fd \/ TakeFd(c) \/ fd' = [fd EXCEPT ![c] = {}]
  BY <1>1 DEF CallStep, StartCall, TakeMutex, TimeOut, Look, GitInit, InitConfig, Exists, MirrorFile, GitAdd, Commit,
              SnapshotFails, NextPath, Execute, lockVars
<1>2. CASE FinStep
  BY <1>2 DEF FinStep, FinExists, MirrorFile, GitAdd, FinCommit, FinFails, LoadMeta, AppendRun, lockVars
<1>3. CASE RevStep
  BY <1>3, <1>c DEF RevStep, TakeMutex, MirrorFile, Undo, Undone, Apply, CopyBack, RevertFails, LoadMeta, MarkReverted,
              Unlocks, lockVars
<1>4. CASE BeginTurn \/ Suspend \/ RevertStart \/ UNCHANGED vars \/ \E p \in Paths : UserEdits(p)
  BY <1>4 DEF BeginTurn, Suspend, RevertStart, UserEdits, vars, lockVars
<1>5. CASE EndRun
  BY <1>5, EndRunEffect DEF lockVars
<1> QED
  BY <1>c, <1>1, <1>2, <1>3, <1>4, <1>5 DEF Next

\* Every step keeps the locks.
LEMMA LockNext == TypeOK /\ PlaceInv /\ LockInv /\ [Next]_vars => LockInv'
<1> SUFFICES ASSUME TypeOK, PlaceInv, LockInv, [Next]_vars PROVE LockInv'
  OBVIOUS
<1>t. CallerTypeOK /\ HistoryTypeOK /\ RecordTypeOK /\ fd \in [Callers -> SUBSET Paths]
      /\ pc \in [Callers -> Places]
      /\ todo \in [Callers -> Seq(Paths)]
  BY DEF TypeOK, CallerTypeOK
<1>c. Calls \subseteq Callers /\ Fin \in Callers /\ Rev \in Callers
  BY DEF Callers
<1>1. FdApart'
  <2>1. ASSUME NEW w \in Callers, TakeFd(w) PROVE FdApart'
    <3>1. fd' = [fd EXCEPT ![w] = fd[w] \cup {At(w)}] /\ \A v \in Callers \ {w} : At(w) \notin fd[v]
      BY <2>1 DEF TakeFd
    <3> QED
      BY <1>t, <3>1 DEF LockInv, FdApart
  <2>2. ASSUME NEW w \in Callers, fd' = [fd EXCEPT ![w] = {}] PROVE FdApart'
    BY <1>t, <2>2 DEF LockInv, FdApart
  <2>3. CASE fd' = fd
    BY <2>3 DEF LockInv, FdApart
  <2> QED
    BY <2>1, <2>2, <2>3, FdMoves
<1>2. ASSUME NEW c \in Calls
      PROVE  /\ \A p \in Through(c)' : p \in fd'[c] \/ << c, p >> \in lax'
             /\ held'[c] \subseteq Past(c)' \cup (IF pc'[c] \in {"fd"} \cup Snapping THEN {At(c)'} ELSE {})
  <2>1. /\ \A p \in Through(c) : p \in fd[c] \/ << c, p >> \in lax
        /\ held[c] \subseteq Past(c) \cup (IF pc[c] \in {"fd"} \cup Snapping THEN {At(c)} ELSE {})
    BY DEF LockInv
  <2>2. CASE StartCall(c) \/ CallStep(c)
    BY <2>1, <2>2, CallLocks
  <2>3. CASE Same(c)
    <3>1. \A p \in Paths : << c, p >> \in lax' <=> << c, p >> \in lax
      BY <2>3 DEF Same
    <3>2. Through(c) \subseteq Paths
      BY <1>t, CountFacts, AtTyped DEF Through, PlaceInv
    <3> QED
      BY <2>1, <2>3, <3>1, <3>2, SamePlace DEF Same
  <2> QED
    BY <1>t, <2>2, <2>3, CallMoves
<1>3. pc'[Rev] \in Undoing => At(Rev)' \in fd'[Rev]
  <2>1. CASE Same(Rev)
    BY <2>1 DEF Same, At, LockInv
  <2>2. CASE RevertStart \/ TakeMutex(Rev) \/ RevertFails \/ LoadMeta(Rev) \/ MarkReverted
    BY <1>t, <1>c, <2>2 DEF RevertStart, TakeMutex, RevertFails, LoadMeta, MarkReverted, Goes, Undoing
  <2>3. CASE TakeFd(Rev)
    BY <1>t, <1>c, <2>3 DEF TakeFd, At
  <2>4. CASE MirrorFile(Rev) \/ Apply
    BY <1>t, <1>c, <2>4 DEF MirrorFile, Apply, lockVars, At, LockInv, Undoing
  <2>5. CASE Undo \/ CopyBack
    <3>1. Undone \/ (pc[Rev] = "undo" /\ UNCHANGED <<lockVars, todo>>)
      BY <2>5 DEF Undo, CopyBack
    <3>2. CASE Undone
      BY <1>t, <1>c, <3>2 DEF Undone, Goes, Undoing
    <3> QED
      BY <3>1, <3>2 DEF lockVars, At, LockInv, Undoing
  <2> QED
    BY <1>t, <2>1, <2>2, <2>3, <2>4, <2>5, RevMoves DEF RevStep
<1> QED
  BY <1>1, <1>2, <1>3 DEF LockInv

\* Who may move in which phase of the turn.
LEMMA WhoMoves ==
  ASSUME PlaceInv, [Next]_vars
  PROVE  /\ FinStep => phase = "ending"
         /\ EndRun => phase = "running" /\ pc[Fin] = "idle" /\ changes = << >>
         /\ BeginTurn => phase \in {"idle", "suspended"} /\ pc[Fin] = "idle" /\ changes = << >>
         /\ \A c \in Calls : StartCall(c) \/ CallStep(c) => phase = "running" /\ pc[Fin] = "idle"
<1>1. FinStep => phase = "ending"
  BY DEF FinStep, FinExists, MirrorFile, GitAdd, FinCommit, FinFails, GitFails, Refuses, IndexLocked, LoadMeta, AppendRun,
         PlaceInv, TurnInv
<1>2. EndRun => phase = "running" /\ pc[Fin] = "idle" /\ changes = << >>
  BY DEF EndRun, PlaceInv, TurnInv
<1>3. BeginTurn => phase \in {"idle", "suspended"} /\ pc[Fin] = "idle" /\ changes = << >>
  BY DEF BeginTurn, PlaceInv, TurnInv
<1>4. ASSUME NEW c \in Calls, StartCall(c) \/ CallStep(c) PROVE phase = "running" /\ pc[Fin] = "idle"
  <2>1. StartCall(c) \/ pc[c] \notin {"idle", "done"}
    BY <1>4 DEF CallStep, TakeMutex, TakeFd, TimeOut, TimesOut, Look, GitInit, InitConfig, Exists, MirrorFile, GitAdd, Commit,
                SnapshotFails, GitFails, Refuses, IndexLocked, Execute
  <2>2. phase = "running"
    BY <2>1 DEF StartCall, PlaceInv, TurnInv, CallsOver
  <2> QED
    BY <2>2 DEF PlaceInv, TurnInv
<1> QED
  BY <1>1, <1>2, <1>3, <1>4

\* While finalize_run works, only a revert and the user may move beside it.
LEMMA Ending ==
  ASSUME PlaceInv, [Next]_vars, phase = "ending"
  PROVE  FinStep \/ (UNCHANGED <<turnVars, before, changes>> /\ (RevStep \/ RevertStart \/ UNCHANGED vars \/ \E p \in Paths : UserEdits(p)))
<1>1. FinStep \/ RevStep \/ RevertStart \/ UNCHANGED vars \/ \E p \in Paths : UserEdits(p)
  BY WhoMoves DEF Next, Suspend
<1>2. CASE RevStep
  BY <1>2 DEF RevStep, TakeMutex, TakeFd, MirrorFile, Undo, Apply, CopyBack, RevertFails, LoadMeta, MarkReverted,
              recordVars
<1>3. CASE RevertStart \/ UNCHANGED vars \/ \E p \in Paths : UserEdits(p)
  BY <1>3 DEF RevertStart, UserEdits, vars, recordVars
<1> QED
  BY <1>1, <1>2, <1>3

\* Between begin_run and finalize_run the turn stays, unless it is suspended.
LEMMA Quiet ==
  ASSUME [Next]_vars, ~ FinStep, ~ EndRun, ~ BeginTurn
  PROVE  UNCHANGED <<turn, run, changes>> /\ (phase' = phase \/ Suspend)
<1>1. ASSUME NEW c \in Calls, StartCall(c) \/ CallStep(c) PROVE UNCHANGED <<turn, run, phase, changes>>
  BY <1>1 DEF CallStep, StartCall, TakeMutex, TakeFd, TimeOut, Look, GitInit, InitConfig, Exists, MirrorFile, GitAdd,
              Commit, SnapshotFails, Execute, turnVars, recordVars
<1>2. CASE RevStep
  BY <1>2 DEF RevStep, TakeMutex, TakeFd, MirrorFile, Undo, Apply, CopyBack, RevertFails, LoadMeta, MarkReverted,
              turnVars, recordVars
<1>3. CASE Suspend \/ RevertStart \/ UNCHANGED vars \/ \E p \in Paths : UserEdits(p)
  BY <1>3 DEF Suspend, RevertStart, UserEdits, vars, turnVars, recordVars
<1> QED
  BY <1>1, <1>2, <1>3 DEF Next

\* Every step keeps the place of finalize_run.
LEMMA FinPlaceNext == TypeOK /\ PlaceInv /\ [Next]_vars => FinPlace'
<1> SUFFICES ASSUME TypeOK, PlaceInv, [Next]_vars PROVE FinPlace'
  OBVIOUS
<1>t. /\ CallerTypeOK /\ RecordTypeOK /\ Fin \in Callers /\ FinPlace /\ held \in [Callers -> SUBSET Paths]
      /\ todo \in [Callers -> Seq(Paths)] /\ fd \in [Callers -> SUBSET Paths]
      /\ pc \in [Callers -> Places]
  BY DEF TypeOK, CallerTypeOK, Callers, PlaceInv
<1>1. ASSUME FinishRun, held' = held, fd' = fd PROVE FinPlace'
  BY <1>t, <1>1, FinishType DEF FinPlace
<1>2. CASE EndRun
  <2>0. UNCHANGED lockVars
    BY <1>2, EndRunEffect
  <2>1. CASE Files # {} /\ Goes(Fin, "exists") /\ before' = before /\ \E s \in SetToSeqs(Files) : todo' = [todo EXCEPT ![Fin] = s]
    <3>1. PICK s \in SetToSeqs(Files) : todo' = [todo EXCEPT ![Fin] = s]
      BY <2>1
    <3>2. Files \in SUBSET Paths /\ \A p \in Files : before[p] # {}
      BY DEF Files
    <3>3. s \in Seq(Files) /\ s # << >>
      BY <2>1, <3>2, SeqsOf
    <3>4. \A i \in DOMAIN s : before[s[i]] # {}
      BY <3>2, <3>3
    <3>5. pc'[Fin] = "exists" /\ todo'[Fin] = s
      BY <1>t, <2>1, <3>1 DEF Goes
    <3> QED
      BY <1>t, <2>0, <2>1, <3>3, <3>4, <3>5 DEF FinPlace, lockVars
  <2> QED
    BY <1>1, <1>2, <2>0, <2>1, EndRunEffect DEF lockVars
<1>3. CASE FinExists \/ FinCommit
  <2>0. pc[Fin] \in {"exists", "commit"} /\ todo[Fin] # << >> /\ held' = held /\ fd' = fd
    BY <1>3, <1>t DEF FinExists, FinCommit, FinPlace, lockVars
  <2>1. Absent \in Content /\ (pc[Fin] = "commit" => index[At(Fin)] \in Content)
    BY AtTyped DEF TypeOK, FileTypeOK, Content
  <2>2. \/ Goes(Fin, "mirror") /\ UNCHANGED <<changes, todo, phase, before>>
        \/ \E x \in Content : Record(x)
    BY <1>3, <2>1 DEF FinExists, FinCommit
  <2>3. CASE Goes(Fin, "mirror") /\ UNCHANGED <<changes, todo, phase, before>>
    BY <1>t, <2>0, <2>3 DEF Goes, FinPlace
  <2>4. ASSUME NEW x \in Content, Record(x) PROVE FinPlace'
    <3>1. CASE FinishRun
      BY <1>1, <2>0, <3>1
    <3>2. CASE /\ todo' = [todo EXCEPT ![Fin] = Tail(todo[Fin])] /\ before' = before
               /\ Goes(Fin, IF Len(todo[Fin]) = 1 THEN "load" ELSE "exists")
               /\ Len(todo[Fin]) = 1 => changes' # << >>
      <4>1. /\ todo'[Fin] = Tail(todo[Fin]) /\ pc'[Fin] = IF Len(todo[Fin]) = 1 THEN "load" ELSE "exists"
        BY <1>t, <3>2 DEF Goes
      <4>2. /\ Tail(todo[Fin]) \in Seq(Paths) /\ Len(Tail(todo[Fin])) = Len(todo[Fin]) - 1
            /\ Len(todo[Fin]) \in Nat /\ DOMAIN todo[Fin] = 1 .. Len(todo[Fin])
            /\ \A i \in 1 .. Len(todo[Fin]) - 1 : Tail(todo[Fin])[i] = todo[Fin][i + 1]
        BY <1>t, <2>0, AtFacts
      <4>3. DOMAIN Tail(todo[Fin]) = 1 .. Len(todo[Fin]) - 1 /\ (Tail(todo[Fin]) = << >> <=> Len(todo[Fin]) = 1)
        <5>1. /\ DOMAIN Tail(todo[Fin]) = 1 .. Len(Tail(todo[Fin]))
              /\ Tail(todo[Fin]) = << >> <=> Len(Tail(todo[Fin])) = 0
          BY <4>2, SeqFacts
        <5> QED
          BY <4>2, <5>1
      <4>4. \A i \in DOMAIN todo'[Fin] : before[todo'[Fin][i]] # {}
        <5> SUFFICES ASSUME NEW i \in 1 .. Len(todo[Fin]) - 1 PROVE before[todo[Fin][i + 1]] # {}
          BY <4>1, <4>2, <4>3
        <5>1. i + 1 \in DOMAIN todo[Fin]
          BY <4>2
        <5> QED
          BY <1>t, <5>1 DEF FinPlace
      <4> QED
        BY <1>t, <2>0, <3>2, <4>1, <4>3, <4>4 DEF FinPlace
    <3> QED
      BY <2>0, <2>4, <3>1, <3>2, RecordEffect
  <2> QED
    BY <2>2, <2>3, <2>4
<1>4. CASE FinFails \/ AppendRun
  BY <1>1, <1>4 DEF FinFails, AppendRun, lockVars
<1>5. CASE MirrorFile(Fin) \/ GitAdd(Fin) \/ LoadMeta(Fin)
  <2>1. /\ \/ pc[Fin] \in {"mirror", "add"} /\ pc'[Fin] \in {"add", "commit"}
           \/ pc[Fin] = "load" /\ pc'[Fin] = "save"
        /\ UNCHANGED <<todo, before, lockVars, changes>>
    BY <1>t, <1>5, EditsAssumption DEF MirrorFile, GitAdd, LoadMeta, Goes, recordVars
  <2> QED
    BY <1>t, <2>1 DEF FinPlace, lockVars
<1>6. CASE Same(Fin) /\ ~ FinStep /\ ~ EndRun
  <2>1. pc'[Fin] = pc[Fin] /\ todo'[Fin] = todo[Fin] /\ held'[Fin] = held[Fin] /\ fd'[Fin] = fd[Fin]
    BY <1>6 DEF Same
  <2>2. CASE phase = "ending"
    BY <1>t, <1>6, <2>1, <2>2, Ending DEF FinPlace
  <2>3. CASE phase # "ending"
    <3>1. pc[Fin] = "idle"
      BY <2>3 DEF PlaceInv, TurnInv
    <3> QED
      BY <1>t, <2>1, <3>1 DEF FinPlace
  <2> QED
    BY <2>2, <2>3
<1> QED
  BY <1>t, <1>2, <1>3, <1>4, <1>5, <1>6, FinMoves DEF FinStep

\* Every step keeps the phases of the turn.
LEMMA TurnNext == TypeOK /\ PlaceInv /\ [Next]_vars => TurnInv'
<1> SUFFICES ASSUME TypeOK, PlaceInv, [Next]_vars PROVE TurnInv'
  OBVIOUS
<1>t. /\ CallerTypeOK /\ RecordTypeOK /\ HistoryTypeOK /\ Fin \in Callers /\ FinPlace /\ TurnInv
      /\ todo \in [Callers -> Seq(Paths)] /\ run \in Nat /\ turn \in Nat
      /\ pc \in [Callers -> Places]
  BY EditsAssumption DEF TypeOK, CallerTypeOK, TurnTypeOK, Callers, PlaceInv
<1>1. phase' # "running" => CallsOver'
  <2> SUFFICES ASSUME phase' # "running" PROVE CallsOver'
    OBVIOUS
  <2>1. CallsOver /\ \A c \in Calls : ~ (StartCall(c) \/ CallStep(c))
    <3>1. CASE phase # "running"
      BY <1>t, <3>1, WhoMoves DEF TurnInv
    <3>2. CASE phase = "running"
      <4>1. EndRun \/ Suspend \/ BeginTurn
        BY <3>2, WhoMoves, Quiet
      <4>2. EndRun \/ Suspend
        BY <4>1 DEF BeginTurn
      <4>3. phase' # phase
        BY <3>2
      <4>4. \A c \in Calls : ~ (StartCall(c) \/ CallStep(c))
        BY <4>3 DEF CallStep, StartCall, TakeMutex, TakeFd, TimeOut, Look, GitInit, InitConfig, Exists, MirrorFile, GitAdd,
                    Commit, SnapshotFails, Execute, turnVars
      <4> QED
        BY <4>2, <4>4 DEF EndRun, Suspend
    <3> QED
      BY <3>1, <3>2
  <2>2. \A c \in Calls : pc'[c] = pc[c]
    BY <1>t, <2>1, CallMoves DEF Same
  <2> QED
    BY <2>1, <2>2 DEF CallsOver
<1>2. /\ run' <= turn' /\ (phase' = "ending" <=> pc'[Fin] # "idle") /\ (phase' = "idle" => before' = Nothing)
      /\ (phase' # "idle" => run' > 0) /\ (phase' # "ending" => changes' = << >>)
  <2>1. CASE BeginTurn
    <3>1. Same(Fin)
      BY <2>1 DEF BeginTurn, Same, lockVars, recordVars
    <3> QED
      BY <1>t, <2>1, <3>1, WhoMoves DEF BeginTurn, TurnInv, Same, recordVars
  <2>2. CASE EndRun
    <3>1. /\ phase = "running" /\ run' = run /\ turn' = turn /\ changes' = changes
          /\ FinishRun \/ (phase' = "ending" /\ Goes(Fin, "exists"))
      BY <2>2, EndRunEffect DEF recordVars
    <3> QED
      BY <1>t, <3>1 DEF TurnInv, FinishRun, Goes
  <2>3. CASE FinStep
    <3>1. phase = "ending"
      BY <2>3, WhoMoves
    <3>2. CASE FinExists \/ FinCommit
      <4>1. Absent \in Content /\ (pc[Fin] = "commit" => index[At(Fin)] \in Content)
        BY AtTyped DEF TypeOK, FileTypeOK, Content
      <4>2. /\ run' = run /\ turn' = turn
            /\ \/ Goes(Fin, "mirror") /\ UNCHANGED <<changes, phase, before>>
               \/ \E x \in Content : Record(x)
        BY <3>2, <4>1 DEF FinExists, FinCommit
      <4>3. pc[Fin] \in {"exists", "commit"}
        BY <3>2 DEF FinExists, FinCommit
      <4>4. ASSUME NEW x \in Content, Record(x)
            PROVE  \/ changes' = << >> /\ FinishRun
                   \/ phase' = phase /\ before' = before /\ \E k \in {"load", "exists"} : Goes(Fin, k)
        BY <4>3, <4>4, RecordEffect
      <4> QED
        BY <1>t, <3>1, <4>2, <4>4 DEF TurnInv, FinishRun, Goes
    <3>3. CASE FinFails \/ AppendRun
      BY <1>t, <3>3, <3>1 DEF FinFails, AppendRun, FinishRun, Goes, TurnInv
    <3>4. CASE MirrorFile(Fin) \/ GitAdd(Fin) \/ LoadMeta(Fin)
      BY <1>t, <3>4, <3>1 DEF MirrorFile, GitAdd, LoadMeta, turnVars, Goes, TurnInv, recordVars
    <3> QED
      BY <2>3, <3>2, <3>3, <3>4 DEF FinStep
  <2>4. CASE Suspend
    BY <1>t, <2>4 DEF Suspend, TurnInv, recordVars
  <2>5. CASE ~ BeginTurn /\ ~ EndRun /\ ~ FinStep /\ ~ Suspend
    <3>1. UNCHANGED <<turn, run, phase, changes>> /\ pc'[Fin] = pc[Fin]
      BY <1>t, <2>5, Quiet, FinMoves DEF Same
    <3>2. phase = "idle" => before' = before
      <4> SUFFICES ASSUME phase = "idle" PROVE before' = before
        OBVIOUS
      <4>1. RevStep \/ RevertStart \/ UNCHANGED vars \/ \E p \in Paths : UserEdits(p)
        BY <2>5, WhoMoves DEF Next
      <4> QED
        BY <4>1 DEF RevStep, TakeMutex, TakeFd, MirrorFile, Undo, Apply, CopyBack, RevertFails, LoadMeta, MarkReverted,
                    RevertStart, UserEdits, vars
    <3> QED
      BY <1>t, <3>1, <3>2 DEF TurnInv
  <2> QED
    BY <2>1, <2>2, <2>3, <2>4, <2>5
<1> QED
  BY <1>1, <1>2 DEF TurnInv

\* While revert_run is between the two copies, others change the file or its copy only
\* where the history says so.
LEMMA RevAlone ==
  ASSUME TypeOK, PlaceInv, [Next]_vars, ~ RevStep, pc[Rev] \in {"apply", "copy"}
  PROVE  /\ mirror[At(Rev)] # Absent => mirror'[At(Rev)] # Absent
         /\ ~ disturbed' => ~ disturbed /\ mirror'[At(Rev)] = mirror[At(Rev)] /\ content'[At(Rev)] = content[At(Rev)]
<1>t. /\ content \in [Paths -> Content] /\ mirror \in [Paths -> Content] /\ disturbed \in BOOLEAN /\ FileTypeOK
      /\ At(Rev) \in Paths /\ Rev \in Callers /\ Fin \in Callers /\ Calls \subseteq Callers /\ Rev \notin Calls /\ Fin # Rev
  BY AtTyped, EditsAssumption DEF TypeOK, FileTypeOK, HistoryTypeOK, Callers, Undoing
<1>r. IsAt(Rev, At(Rev), {"apply", "copy"})
  BY DEF IsAt
<1>1. ASSUME UNCHANGED <<mirror, content, disturbed>>
      PROVE  /\ mirror[At(Rev)] # Absent => mirror'[At(Rev)] # Absent
             /\ ~ disturbed' => ~ disturbed /\ mirror'[At(Rev)] = mirror[At(Rev)] /\ content'[At(Rev)] = content[At(Rev)]
  BY <1>1
<1>2. ASSUME NEW w \in Callers, w # Rev, MirrorFile(w)
      PROVE  /\ mirror[At(Rev)] # Absent => mirror'[At(Rev)] # Absent
             /\ ~ disturbed' => ~ disturbed /\ mirror'[At(Rev)] = mirror[At(Rev)] /\ content'[At(Rev)] = content[At(Rev)]
  <2>1. /\ content[At(w)] # Absent /\ mirror' = [mirror EXCEPT ![At(w)] = content[At(w)]] /\ content' = content
        /\ disturbed' = (disturbed \/ Disturbs({At(w)}))
    BY <1>2 DEF MirrorFile, fileVars
  <2>2. CASE At(w) = At(Rev)
    BY <1>t, <1>r, <2>1, <2>2 DEF Disturbs
  <2>3. CASE At(w) # At(Rev)
    BY <1>t, <2>1, <2>3
  <2> QED
    BY <2>2, <2>3
<1>3. ASSUME NEW w \in Callers, w # Rev, Forget(w), content' = content, disturbed' = disturbed
      PROVE  /\ mirror[At(Rev)] # Absent => mirror'[At(Rev)] # Absent
             /\ ~ disturbed' => ~ disturbed /\ mirror'[At(Rev)] = mirror[At(Rev)] /\ content'[At(Rev)] = content[At(Rev)]
  <2>1. mirror'[At(Rev)] = mirror[At(Rev)]
    <3>1. \E v \in Callers \ {w} : IsAt(v, At(Rev), {"add", "apply", "copy"})
      BY <1>3, <1>t DEF IsAt
    <3> QED
      BY <1>3, <1>t, <3>1, ForgetType
  <2> QED
    BY <1>3, <2>1
<1>4. ASSUME NEW c \in Calls, Execute(c)
      PROVE  /\ mirror[At(Rev)] # Absent => mirror'[At(Rev)] # Absent
             /\ ~ disturbed' => ~ disturbed /\ mirror'[At(Rev)] = mirror[At(Rev)] /\ content'[At(Rev)] = content[At(Rev)]
  <2>1. PICK new \in [Range(names[c]) -> Content] :
          /\ content' = [p \in Paths |-> IF p \in DOMAIN new THEN new[p] ELSE content[p]]
          /\ disturbed' = (disturbed \/ Disturbs({p \in DOMAIN new : new[p] # content[p]}))
    BY <1>4 DEF Execute
  <2>2. mirror' = mirror
    BY <1>4 DEF Execute, repoVars
  <2>3. ASSUME ~ disturbed' PROVE content'[At(Rev)] = content[At(Rev)]
    BY <1>t, <1>r, <2>1, <2>3 DEF Disturbs
  <2> QED
    BY <1>t, <2>1, <2>2, <2>3
<1>5. ASSUME NEW p \in Paths, UserEdits(p)
      PROVE  /\ mirror[At(Rev)] # Absent => mirror'[At(Rev)] # Absent
             /\ ~ disturbed' => ~ disturbed /\ mirror'[At(Rev)] = mirror[At(Rev)] /\ content'[At(Rev)] = content[At(Rev)]
  <2>1. /\ mirror' = mirror /\ disturbed' = (disturbed \/ Disturbs({p}))
        /\ \A q \in Paths : q # p => content'[q] = content[q]
    BY <1>5, <1>t DEF UserEdits, repoVars
  <2>2. CASE p = At(Rev)
    BY <1>r, <2>1, <2>2 DEF Disturbs
  <2>3. CASE p # At(Rev)
    BY <1>t, <2>1, <2>3
  <2> QED
    BY <2>2, <2>3
<1> QED
  <2>1. ASSUME NEW c \in Calls, StartCall(c) \/ CallStep(c)
        PROVE  /\ mirror[At(Rev)] # Absent => mirror'[At(Rev)] # Absent
               /\ ~ disturbed' => ~ disturbed /\ mirror'[At(Rev)] = mirror[At(Rev)] /\ content'[At(Rev)] = content[At(Rev)]
    <3>0. c \in Callers /\ c # Rev
      BY <1>t
    <3>1. CASE StartCall(c) \/ TakeMutex(c) \/ TakeFd(c) \/ TimeOut(c) \/ Look(c) \/ GitInit(c) \/ InitConfig(c) \/ Exists(c) \/ GitAdd(c)
      BY <3>1, <1>1 DEF StartCall, TakeMutex, TakeFd, TimeOut, Look, GitInit, InitConfig, Exists, GitAdd, fileVars, repoVars,
                        historyVars
    <3>2. CASE Commit(c) \/ SnapshotFails(c)
      BY <3>0, <3>2, <1>3 DEF Commit, SnapshotFails, fileVars, historyVars
    <3> QED
      BY <2>1, <3>0, <3>1, <3>2, <1>2, <1>4 DEF CallStep
  <2>2. CASE FinStep
    <3>1. CASE FinExists \/ LoadMeta(Fin) \/ AppendRun \/ GitAdd(Fin)
      BY <3>1, <1>1 DEF FinExists, LoadMeta, AppendRun, GitAdd, fileVars, repoVars, historyVars
    <3>2. CASE FinCommit \/ FinFails
      BY <1>t, <3>2, <1>3 DEF FinCommit, FinFails, fileVars, historyVars
    <3> QED
      BY <2>2, <1>t, <3>1, <3>2, <1>2 DEF FinStep
  <2>3. CASE BeginTurn \/ Suspend \/ RevertStart \/ UNCHANGED vars
    BY <2>3, <1>1 DEF BeginTurn, Suspend, RevertStart, vars, fileVars, repoVars, historyVars
  <2>4. CASE EndRun
    BY <2>4, EndRunEffect, <1>1 DEF fileVars, repoVars, historyVars
  <2> QED
    BY <2>1, <2>2, <2>3, <2>4, <1>5 DEF Next

\* Every step keeps the place of revert_run.
LEMMA RevPlaceNext == TypeOK /\ PlaceInv /\ [Next]_vars => RevPlace'
<1> SUFFICES ASSUME TypeOK, PlaceInv, [Next]_vars PROVE RevPlace'
  OBVIOUS
<1>t. /\ CallerTypeOK /\ RecordTypeOK /\ Rev \in Callers /\ RevPlace
      /\ content \in [Paths -> Content] /\ mirror \in [Paths -> Content]
      /\ todo \in [Callers -> Seq(Paths)]
      /\ pc \in [Callers -> Places]
  BY DEF TypeOK, CallerTypeOK, FileTypeOK, Callers, PlaceInv
<1>1. ASSUME Undone, job' = job, pc[Rev] \in Undoing PROVE RevPlace'
  <2>0. todo[Rev] # << >> /\ job # << >>
    BY <1>t, <1>1 DEF RevPlace, Undoing
  <2>1. todo'[Rev] = Tail(todo[Rev]) /\ pc'[Rev] = IF Len(todo[Rev]) = 1 THEN "load" ELSE "mutex"
    BY <1>t, <1>1 DEF Undone, Goes
  <2>2. /\ Tail(todo[Rev]) \in Seq(Paths) /\ Len(Tail(todo[Rev])) = Len(todo[Rev]) - 1
        /\ Len(todo[Rev]) \in Nat /\ DOMAIN todo[Rev] = 1 .. Len(todo[Rev])
        /\ \A i \in 1 .. Len(todo[Rev]) - 1 : Tail(todo[Rev])[i] = todo[Rev][i + 1]
    BY <1>t, <2>0, AtFacts
  <2>3. DOMAIN Tail(todo[Rev]) = 1 .. Len(todo[Rev]) - 1 /\ (Tail(todo[Rev]) = << >> <=> Len(todo[Rev]) = 1)
    <3>1. /\ DOMAIN Tail(todo[Rev]) = 1 .. Len(Tail(todo[Rev]))
          /\ Tail(todo[Rev]) = << >> <=> Len(Tail(todo[Rev])) = 0
      BY <2>2, SeqFacts
    <3> QED
      BY <2>2, <3>1
  <2>4. \A i \in DOMAIN todo'[Rev] : \E j \in DOMAIN job[1].files : job[1].files[j].path = todo'[Rev][i]
    <3> SUFFICES ASSUME NEW i \in 1 .. Len(todo[Rev]) - 1
                 PROVE  \E j \in DOMAIN job[1].files : job[1].files[j].path = todo[Rev][i + 1]
      BY <2>1, <2>2, <2>3
    <3>1. i + 1 \in DOMAIN todo[Rev]
      BY <2>2
    <3> QED
      BY <1>t, <3>1 DEF RevPlace
  <2> QED
    BY <1>1, <2>0, <2>1, <2>3, <2>4 DEF RevPlace, Undoing
<1>2. CASE RevertStart
  <2>1. PICK e \in Range(meta) :
          job' = << e >> /\ todo' = [todo EXCEPT ![Rev] = [i \in DOMAIN e.files |-> e.files[i].path]]
    BY <1>2 DEF RevertStart
  <2>2. e \in RunEntry
    BY <1>t, SeqFacts DEF Range, RecordTypeOK
  <2>3. e.files \in Seq(Change) /\ e.files # << >>
    BY <2>2 DEF RunEntry
  <2>4. /\ todo'[Rev] = [i \in DOMAIN e.files |-> e.files[i].path] /\ pc'[Rev] = "mutex"
        /\ job' # << >> /\ job'[1] = e
    BY <1>2, <1>t, <2>1 DEF RevertStart, Goes
  <2>5. todo'[Rev] # << >>
    <3>1. 1 \in DOMAIN e.files
      BY <2>3
    <3> QED
      BY <2>4, <3>1
  <2>6. \A i \in DOMAIN todo'[Rev] : \E j \in DOMAIN job'[1].files : job'[1].files[j].path = todo'[Rev][i]
    BY <2>4
  <2> QED
    BY <2>4, <2>5, <2>6 DEF RevPlace, Undoing
<1>3. CASE TakeMutex(Rev) \/ TakeFd(Rev)
  BY <1>3, <1>t DEF TakeMutex, TakeFd, Goes, recordVars, RevPlace, Undoing
<1>4. CASE Undo
  <2>1. pc[Rev] = "undo" /\ job' = job
    BY <1>4 DEF Undo, recordVars
  <2>2. CASE Absent \in {File.before, File.after}
    BY <1>1, <1>4, <2>1, <2>2 DEF Undo, Undoing
  <2>3. CASE Absent \notin {File.before, File.after}
    <3>1. pc'[Rev] = "mirror" /\ todo' = todo
      BY <1>4, <1>t, <2>3 DEF Undo, Goes
    <3>2. File' = File
      BY <2>1, <3>1 DEF File, At
    <3>3. File.before # Absent /\ File.after # Absent
      BY <2>3
    <3> QED
      BY <1>t, <2>1, <3>1, <3>2, <3>3 DEF RevPlace, Undoing
  <2> QED
    BY <2>2, <2>3
<1>5. CASE MirrorFile(Rev) \/ Apply
  <2>1. /\ pc[Rev] \in {"mirror", "apply"} /\ pc'[Rev] \in {"apply", "copy"} /\ job' = job /\ todo' = todo
        /\ content[At(Rev)] # Absent \/ pc[Rev] = "apply"
        /\ pc[Rev] \in Undoing
    BY <1>5, <1>t, EditsAssumption DEF MirrorFile, Apply, Goes, recordVars, Undoing
  <2>2. At(Rev) \in Paths /\ At(Rev)' = At(Rev) /\ File' = File
    BY <2>1, AtTyped DEF At, File
  <2>3. mirror'[At(Rev)] # Absent
    <3>1. CASE MirrorFile(Rev)
      BY <1>t, <2>2, <3>1 DEF MirrorFile
    <3>2. CASE Apply
      <4>1. \E f : mirror'[At(Rev)] = [r \in 1 .. Regions |-> f[r]]
        <5> DEFINE f == [r \in 1 .. Regions |-> IF r \in Touched THEN File.before[r] ELSE mirror[At(Rev)][r]]
        <5>1. mirror'[At(Rev)] = [r \in 1 .. Regions |-> f[r]]
          BY <1>t, <2>2, <3>2 DEF Apply
        <5> QED
          BY <5>1
      <4>2. 1 \in 1 .. Regions
        BY EditsAssumption
      <4> QED
        BY <4>1, <4>2 DEF Absent
    <3> QED
      BY <1>5, <3>1, <3>2
  <2> QED
    BY <1>t, <2>1, <2>2, <2>3 DEF RevPlace, Undoing
<1>6. CASE CopyBack
  BY <1>1, <1>6 DEF CopyBack, Undoing, recordVars
<1>7. CASE RevertFails
  BY <1>7, <1>t DEF RevertFails, Goes, RevPlace, Undoing
<1>8. CASE LoadMeta(Rev)
  BY <1>8, <1>t DEF LoadMeta, Goes, RevPlace, Undoing
<1>9. CASE MarkReverted
  BY <1>9, <1>t DEF MarkReverted, Goes, RevPlace, Undoing
<1>10. CASE Same(Rev) /\ job' = job /\ ~ RevStep
  <2>1. pc'[Rev] = pc[Rev] /\ todo'[Rev] = todo[Rev] /\ At(Rev)' = At(Rev) /\ File' = File
    BY <1>10 DEF Same, At, File
  <2>2. pc[Rev] \in {"apply", "copy"} => mirror'[At(Rev)] # Absent
    BY <1>t, <1>10, RevAlone DEF RevPlace
  <2> QED
    BY <1>t, <1>10, <2>1, <2>2 DEF RevPlace
<1> QED
  BY <1>t, <1>2, <1>3, <1>4, <1>5, <1>6, <1>7, <1>8, <1>9, <1>10, RevMoves DEF RevStep

\* Every step keeps the place of each caller.
LEMMA PlaceNext == TypeOK /\ PlaceInv /\ [Next]_vars => PlaceInv'
BY CallPlaceNext, FinPlaceNext, RevPlaceNext, TurnNext DEF PlaceInv

\* Every step keeps git commits apart.
LEMMA OneCommitsNext == TypeOK /\ PlaceInv /\ OneCommits /\ [Next]_vars => OneCommits'
<1> SUFFICES ASSUME TypeOK, PlaceInv, OneCommits, [Next]_vars PROVE OneCommits'
  OBVIOUS
<1>t. /\ CallerTypeOK /\ HistoryTypeOK /\ RecordTypeOK /\ Calls \subseteq Callers /\ Fin \in Callers /\ Rev \in Callers
      /\ pc \in [Callers -> Places]
  BY DEF TypeOK, CallerTypeOK, Callers
<1>1. ASSUME NEW w \in Callers, pc'[w] = "commit" PROVE pc[w] = "commit" \/ GitAdd(w)
  <2>1. CASE w \in Calls
    <3>1. ASSUME StartCall(w) \/ CallStep(w), ~ GitAdd(w) PROVE pc'[w] # "commit"
      BY <1>t, <2>1, <3>1 DEF CallStep, StartCall, TakeMutex, TakeFd, TimeOut, Look, GitInit, InitConfig, Exists, MirrorFile,
                              Commit, SnapshotFails, Execute, NextPath, Goes
    <3> QED
      BY <1>1, <1>t, <2>1, <3>1, CallMoves DEF Same
  <2>2. CASE w = Fin
    <3>1. ASSUME FinStep, ~ GitAdd(Fin) PROVE pc'[Fin] # "commit"
      <4>1. ASSUME NEW x, Record(x) PROVE pc'[Fin] # "commit"
        BY <1>t, <4>1 DEF Record, FinishRun, Goes
      <4> QED
        BY <1>t, <3>1, <4>1 DEF FinStep, FinExists, MirrorFile, FinCommit, FinFails, LoadMeta, AppendRun, FinishRun, Goes
    <3>2. EndRun => pc'[Fin] # "commit"
      BY <1>t, EndRunEffect DEF FinishRun, Goes
    <3> QED
      BY <1>1, <1>t, <2>2, <3>1, <3>2, FinMoves DEF Same
  <2>3. CASE w = Rev
    <3>1. RevPlace'
      BY RevPlaceNext
    <3> QED
      BY <1>1, <2>3, <3>1 DEF RevPlace, Undoing
  <2> QED
    BY <2>1, <2>2, <2>3 DEF Callers
<1>2. pc[Rev] # "commit" /\ pc'[Rev] # "commit"
  <2>1. RevPlace'
    BY RevPlaceNext
  <2> QED
    BY <2>1 DEF PlaceInv, RevPlace, Undoing
<1>3. ASSUME NEW w \in Callers, GitAdd(w), NEW v \in Callers, pc'[v] = "commit" PROVE v = w
  <2>1. CASE v # w
    <3>1. pc'[v] = pc[v] /\ pc'[w] = "commit"
      BY <1>3, <1>t, <2>1 DEF GitAdd, Goes
    <3>2. v # Rev /\ w # Rev
      BY <1>2, <1>3, <3>1
    <3> QED
      BY <1>3, <2>1, <3>1, <3>2 DEF GitAdd, IndexFree, SameObject
  <2> QED
    BY <2>1
<1> SUFFICES ASSUME NEW v \in Callers, NEW w \in Callers, pc'[v] = "commit", pc'[w] = "commit" PROVE v = w
  BY DEF OneCommits
<1> QED
  BY <1>1, <1>3 DEF OneCommits

\* Within a run, a record that one of the known windows has spoiled stays so.
LEMMA SpoiledGrows ==
  ASSUME [Next]_vars, ~ BeginTurn
  PROVE  spoiled \subseteq spoiled'
<1>1. ASSUME NEW c \in Calls, StartCall(c) \/ CallStep(c) PROVE spoiled \subseteq spoiled'
  <2>1. CASE StartCall(c) \/ TakeMutex(c) \/ TakeFd(c) \/ TimeOut(c) \/ Look(c) \/ GitInit(c) \/ InitConfig(c) \/ Exists(c) \/ GitAdd(c) \/ Commit(c)
    BY <2>1 DEF StartCall, TakeMutex, TakeFd, TimeOut, Look, GitInit, InitConfig, Exists, GitAdd, Commit, historyVars
  <2>2. CASE MirrorFile(c) \/ SnapshotFails(c)
    BY <2>2 DEF MirrorFile, SnapshotFails
  <2>3. CASE Execute(c)
    BY <2>3 DEF Execute
  <2> QED
    BY <1>1, <2>1, <2>2, <2>3 DEF CallStep
<1>2. CASE FinStep
  BY <1>2 DEF FinStep, FinExists, MirrorFile, GitAdd, FinCommit, FinFails, LoadMeta, AppendRun, historyVars
<1>3. CASE RevStep
  BY <1>3 DEF RevStep, TakeMutex, TakeFd, MirrorFile, Undo, Undone, Apply, CopyBack, RevertFails, LoadMeta,
              MarkReverted, historyVars
<1>4. CASE Suspend \/ RevertStart \/ UNCHANGED vars \/ \E p \in Paths : UserEdits(p)
  BY <1>4 DEF Suspend, RevertStart, UserEdits, vars, historyVars
<1>5. CASE EndRun
  BY <1>5, EndRunEffect DEF historyVars
<1> QED
  BY <1>1, <1>2, <1>3, <1>4, <1>5 DEF Next

\* Call d changes file p, with the lock, and notes its first change.
Changes(d, p) ==
  /\ Execute(d) /\ content'[p] # content[p] /\ p \in Past(d) /\ p \in fd[d] /\ << d, p >> \notin lax
  /\ first'[p] = IF first[p] = {} THEN {content[p]} ELSE first[p]

\* A call changes no file but those it has locked, unless a lock timed out.
LEMMA ExecuteEffect ==
  ASSUME TypeOK, PlaceInv, LockInv, NEW d \in Calls, Execute(d), NEW p \in Paths, p \notin spoiled'
  PROVE  Changes(d, p) \/ (content'[p] = content[p] /\ first'[p] = first[p])
<1>1. PICK new \in [Range(names[d]) -> Content] :
        /\ content' = [q \in Paths |-> IF q \in DOMAIN new THEN new[q] ELSE content[q]]
        /\ LET changed == {q \in DOMAIN new : new[q] # content[q]}
           IN  /\ first' = [q \in Paths |-> IF q \in changed /\ first[q] = {} THEN {content[q]} ELSE first[q]]
               /\ spoiled' = spoiled \cup {q \in changed : << d, q >> \in lax}
  BY DEF Execute
<1>2. DOMAIN new = Range(names[d])
  BY <1>1
<1>3. CASE p \in DOMAIN new /\ new[p] # content[p]
  <2>1. content'[p] # content[p] /\ first'[p] = IF first[p] = {} THEN {content[p]} ELSE first[p]
    BY <1>1, <1>3
  <2>2. << d, p >> \notin lax
    BY <1>1, <1>3
  <2>3. pc[d] = "exec" /\ CallPlace(d) /\ CallerTypeOK
    BY DEF Execute, PlaceInv, TypeOK
  <2>4. Past(d) = Range(names[d])
    BY <2>3, CountFacts DEF CallPlace
  <2>5. p \in Through(d)
    BY <1>2, <1>3, <2>4 DEF Through
  <2>6. p \in fd[d]
    BY <2>2, <2>5 DEF LockInv
  <2> QED
    BY <1>2, <1>3, <2>1, <2>2, <2>4, <2>6 DEF Changes
<1>4. CASE ~ (p \in DOMAIN new /\ new[p] # content[p])
  BY <1>1, <1>4
<1> QED
  BY <1>3, <1>4

\* Who changes a file whose record is not spoiled: a call that has locked it; or the
\* user or a revert, with no snapshot before it.
LEMMA ContentMoves ==
  ASSUME TypeOK, PlaceInv, LockInv, [Next]_vars, NEW p \in Paths, p \notin spoiled'
  PROVE  \/ \E d \in Calls : Changes(d, p)
         \/ content'[p] = content[p] /\ (first'[p] = first[p] \/ BeginTurn)
         \/ /\ p \notin Foreign({p}) /\ first'[p] = first[p] /\ before' = before
            /\ (content'[p] # Absent \/ p \in fd[Rev])
            /\ \A c \in Calls : pc'[c] = pc[c] /\ todo'[c] = todo[c]
<1>t. /\ content \in [Paths -> Content] /\ Rev \in Callers /\ CallerTypeOK /\ RecordTypeOK /\ HistoryTypeOK
      /\ Calls \subseteq Callers /\ Rev \notin Calls
  BY EditsAssumption DEF TypeOK, FileTypeOK, Callers
<1>1. ASSUME UNCHANGED <<content, first>>
      PROVE  content'[p] = content[p] /\ first'[p] = first[p]
  BY <1>1
<1>2. ASSUME NEW d \in Calls, StartCall(d) \/ CallStep(d)
      PROVE  Changes(d, p) \/ (content'[p] = content[p] /\ first'[p] = first[p])
  <2>1. CASE StartCall(d) \/ TakeMutex(d) \/ TakeFd(d) \/ TimeOut(d) \/ Look(d) \/ GitInit(d) \/ InitConfig(d) \/ Exists(d) \/ GitAdd(d)
             \/ Commit(d) \/ MirrorFile(d) \/ SnapshotFails(d)
    BY <2>1, <1>1 DEF StartCall, TakeMutex, TakeFd, TimeOut, Look, GitInit, InitConfig, Exists, GitAdd, Commit, MirrorFile,
                      SnapshotFails, fileVars, historyVars
  <2> QED
    BY <1>2, <2>1, ExecuteEffect DEF CallStep
<1>3. CASE FinStep
  BY <1>3, <1>1 DEF FinStep, FinExists, MirrorFile, GitAdd, FinCommit, FinFails, LoadMeta, AppendRun, fileVars, historyVars
<1>4. CASE Undo \/ CopyBack
  <2>1. At(Rev) \in Paths /\ At(Rev) \in fd[Rev] /\ first' = first /\ before' = before
    BY <1>4, AtTyped DEF Undo, CopyBack, Undoing, LockInv
  <2>2. content' = content \/ (Undone /\ \E x : content' = [content EXCEPT ![At(Rev)] = x])
    BY <1>4 DEF Undo, CopyBack
  <2>3. CASE content' = content \/ p # At(Rev)
    BY <1>t, <2>1, <2>2, <2>3
  <2>4. CASE Undone /\ p = At(Rev)
    <3>1. p \notin Foreign({p})
      BY <2>4 DEF Undone
    <3>2. \A c \in Calls : pc'[c] = pc[c] /\ todo'[c] = todo[c]
      BY <1>t, <2>4 DEF Undone, Goes, CallerTypeOK
    <3> QED
      BY <2>1, <2>4, <3>1, <3>2
  <2> QED
    BY <2>2, <2>3, <2>4
<1>5. CASE RevStep
  <2>1. CASE ~ Undo /\ ~ CopyBack
    BY <1>5, <2>1, <1>1 DEF RevStep, TakeMutex, TakeFd, MirrorFile, Apply, RevertFails, LoadMeta, MarkReverted,
                fileVars, historyVars
  <2> QED
    BY <1>4, <2>1
<1>6. ASSUME NEW q \in Paths, UserEdits(q)
      PROVE  \/ content'[p] = content[p] /\ first'[p] = first[p]
             \/ /\ p \notin Foreign({p}) /\ first'[p] = first[p] /\ before' = before
                /\ content'[p] # Absent
                /\ \A c \in Calls : pc'[c] = pc[c] /\ todo'[c] = todo[c]
  <2>1. /\ first' = first /\ before' = before /\ pc' = pc /\ todo' = todo
        /\ content' = [content EXCEPT ![q] = IF @ = Absent THEN [r \in 1 .. Regions |-> User] ELSE [@ EXCEPT ![Regions] = User]]
        /\ spoiled' = spoiled \cup Foreign({q})
    BY <1>6 DEF UserEdits
  <2>2. CASE p # q
    BY <1>t, <2>1, <2>2
  <2>3. CASE p = q
    <3>1. (IF content[q] = Absent THEN [r \in 1 .. Regions |-> User] ELSE [content[q] EXCEPT ![Regions] = User]) # Absent
      <4>1. 1 \in 1 .. Regions
        BY EditsAssumption
      <4>2. CASE content[q] = Absent
        BY <4>1, <4>2 DEF Absent
      <4>3. CASE content[q] # Absent
        <5>1. content[q] \in [1 .. Regions -> 0 .. User]
          BY <1>t, <4>3 DEF Content
        <5>2. DOMAIN [content[q] EXCEPT ![Regions] = User] = 1 .. Regions
          BY <5>1
        <5>3. DOMAIN Absent = {}
          BY DEF Absent
        <5> QED
          BY <4>1, <4>3, <5>2, <5>3
      <4> QED
        BY <4>2, <4>3
    <3> QED
      BY <1>t, <2>1, <2>3, <3>1
  <2> QED
    BY <2>2, <2>3
<1>7. CASE BeginTurn
  BY <1>7 DEF BeginTurn, fileVars
<1>8. CASE Suspend \/ RevertStart \/ UNCHANGED vars
  BY <1>8, <1>1 DEF Suspend, RevertStart, vars, fileVars, historyVars
<1>9. CASE EndRun
  BY <1>9, EndRunEffect, <1>1 DEF fileVars, historyVars
<1> QED
  BY <1>2, <1>3, <1>5, <1>6, <1>7, <1>8, <1>9 DEF Next

\* Who touches the snapshots of the run.
LEMMA BeforeMoves ==
  ASSUME [Next]_vars
  PROVE  \/ before' = before
         \/ BeginTurn
         \/ (EndRun \/ FinStep) /\ FinishRun
         \/ \E c \in Calls : (Exists(c) /\ content[At(c)] = Absent) \/ Commit(c)
<1>1. ASSUME NEW c \in Calls, StartCall(c) \/ CallStep(c)
      PROVE  before' = before \/ (Exists(c) /\ content[At(c)] = Absent) \/ Commit(c)
  BY <1>1 DEF CallStep, StartCall, TakeMutex, TakeFd, TimeOut, Look, GitInit, InitConfig, Exists, MirrorFile, GitAdd,
              SnapshotFails, Execute
<1>2. FinStep => FinishRun \/ before' = before
  BY DEF FinStep, FinExists, MirrorFile, GitAdd, FinCommit, FinFails, LoadMeta, AppendRun, Record
<1>3. RevStep => before' = before
  BY DEF RevStep, TakeMutex, TakeFd, MirrorFile, Undo, Apply, CopyBack, RevertFails, LoadMeta, MarkReverted
<1>4. Suspend \/ RevertStart \/ UNCHANGED vars \/ (\E p \in Paths : UserEdits(p)) => before' = before
  BY DEF Suspend, RevertStart, UserEdits, vars
<1>5. EndRun => FinishRun \/ before' = before
  BY EndRunEffect
<1> QED
  BY <1>1, <1>2, <1>3, <1>4, <1>5 DEF Next

\* Who touches the copies in the worktree and the index.
LEMMA ForgetMoves ==
  ASSUME [Next]_vars, TypeOK
  PROVE  \/ UNCHANGED <<mirror, index>>
         \/ \E w \in Callers : MirrorFile(w) \/ GitAdd(w)
         \/ Apply
         \/ \E w \in Callers : Forget(w) /\ pc'[w] \notin {"add", "commit"}
<1>t. /\ Calls \subseteq Callers /\ Fin \in Callers /\ Rev \in Callers
      /\ pc \in [Callers -> Places]
  BY DEF TypeOK, CallerTypeOK, Callers
<1>1. ASSUME NEW c \in Calls, StartCall(c) \/ CallStep(c)
      PROVE  UNCHANGED <<mirror, index>> \/ MirrorFile(c) \/ GitAdd(c) \/ (Forget(c) /\ pc'[c] \notin {"add", "commit"})
  <2>1. CASE Commit(c) \/ SnapshotFails(c)
    BY <1>t, <2>1 DEF Commit, SnapshotFails, NextPath, Goes
  <2> QED
    BY <1>1, <2>1 DEF CallStep, StartCall, TakeMutex, TakeFd, TimeOut, Look, GitInit, InitConfig, Exists, Execute, repoVars
<1>2. FinStep => UNCHANGED <<mirror, index>> \/ MirrorFile(Fin) \/ GitAdd(Fin) \/ (Forget(Fin) /\ pc'[Fin] \notin {"add", "commit"})
  <2>1. ASSUME NEW x, Record(x) PROVE pc'[Fin] \notin {"add", "commit"}
    BY <1>t, <2>1 DEF Record, FinishRun, Goes
  <2>2. FinCommit \/ FinFails => Forget(Fin) /\ pc'[Fin] \notin {"add", "commit"}
    BY <1>t, <2>1 DEF FinCommit, FinFails, FinishRun, Goes
  <2> QED
    BY <2>2 DEF FinStep, FinExists, LoadMeta, AppendRun, repoVars
<1>3. RevStep => UNCHANGED <<mirror, index>> \/ MirrorFile(Rev) \/ Apply \/ (Forget(Rev) /\ pc'[Rev] \notin {"add", "commit"})
  <2>1. CopyBack \/ RevertFails => Forget(Rev) /\ pc'[Rev] \notin {"add", "commit"}
    BY <1>t DEF CopyBack, RevertFails, Undone, Goes
  <2> QED
    BY <2>1 DEF RevStep, TakeMutex, TakeFd, Undo, LoadMeta, MarkReverted, repoVars
<1>4. BeginTurn \/ Suspend \/ RevertStart \/ UNCHANGED vars \/ (\E p \in Paths : UserEdits(p)) => UNCHANGED <<mirror, index>>
  BY DEF BeginTurn, Suspend, RevertStart, UserEdits, vars, repoVars
<1>5. EndRun => UNCHANGED <<mirror, index>>
  BY EndRunEffect DEF repoVars
<1> QED
  BY <1>t, <1>1, <1>2, <1>3, <1>4, <1>5 DEF Next

\* A copy that a snapshot has still to add is not replaced.
LEMMA MirrorMoves ==
  ASSUME TypeOK, PlaceInv, [Next]_vars, NEW p \in Paths, p \notin spoiled'
  PROVE  \/ mirror'[p] = mirror[p]
         \/ \A v \in Calls \cup {Fin} : ~ (IsAt(v, p, {"add"}) /\ pc'[v] = "add")
<1>t. mirror \in [Paths -> Content] /\ FileTypeOK
  BY DEF TypeOK, FileTypeOK
<1>1. ASSUME NEW w \in Callers, MirrorFile(w)
      PROVE  mirror'[p] = mirror[p] \/ \A v \in Calls \cup {Fin} : ~ IsAt(v, p, {"add"})
  <2>1. mirror' = [mirror EXCEPT ![At(w)] = content[At(w)]] /\ (p = At(w) => p \notin Crossed(p))
    BY <1>1 DEF MirrorFile
  <2> QED
    BY <1>t, <2>1 DEF Crossed
<1>2. ASSUME NEW w \in Callers, GitAdd(w) PROVE mirror'[p] = mirror[p]
  BY <1>2 DEF GitAdd
<1>3. ASSUME NEW w \in Callers, Forget(w), pc'[w] \notin {"add", "commit"}
      PROVE  mirror'[p] = mirror[p] \/ \A v \in Calls \cup {Fin} : ~ (IsAt(v, p, {"add"}) /\ pc'[v] = "add")
  <2>1. mirror'[p] = mirror[p] \/ ~ \E v \in Callers \ {w} : IsAt(v, p, {"add", "apply", "copy"})
    BY <1>t, <1>3, ForgetType
  <2> QED
    BY <1>3, <2>1 DEF IsAt, Callers
<1>4. CASE Apply
  <2>1. mirror'[p] = mirror[p] \/ p = At(Rev)
    BY <1>t, <1>4 DEF Apply
  <2>2. p # At(Rev) \/ p \notin Crossed(p)
    BY <1>4 DEF Apply
  <2> QED
    BY <2>1, <2>2 DEF Crossed
<1> QED
  BY <1>1, <1>2, <1>3, <1>4, ForgetMoves

\* What a commit is about to take is not replaced.
LEMMA IndexMoves ==
  ASSUME TypeOK, PlaceInv, [Next]_vars, NEW p \in Paths
  PROVE  \/ index'[p] = index[p]
         \/ \E w \in Callers : GitAdd(w) /\ p = At(w) /\ index'[p] = mirror[p]
         \/ \A v \in Callers : ~ (IsAt(v, p, {"commit"}) /\ pc'[v] = "commit")
<1>t. index \in [Paths -> Content] /\ FileTypeOK
  BY DEF TypeOK, FileTypeOK
<1>1. ASSUME NEW w \in Callers, MirrorFile(w) PROVE index'[p] = index[p]
  BY <1>1 DEF MirrorFile
<1>2. ASSUME NEW w \in Callers, GitAdd(w) PROVE index'[p] = index[p] \/ (p = At(w) /\ index'[p] = mirror[p])
  BY <1>t, <1>2 DEF GitAdd
<1>3. ASSUME NEW w \in Callers, Forget(w), pc'[w] \notin {"add", "commit"}
      PROVE  index'[p] = index[p] \/ \A v \in Callers : ~ (IsAt(v, p, {"commit"}) /\ pc'[v] = "commit")
  <2>1. index'[p] = index[p] \/ ~ \E v \in Callers \ {w} : IsAt(v, p, {"commit"})
    BY <1>t, <1>3, ForgetType
  <2> QED
    BY <1>3, <2>1 DEF IsAt
<1>4. Apply => index' = index
  BY DEF Apply
<1> QED
  BY <1>1, <1>2, <1>3, <1>4, ForgetMoves

\* A snapshot stays until the run ends, and a new one shows the file as it is.
LEMMA NoteMoves ==
  ASSUME TypeOK, PlaceInv, [Next]_vars, NEW p \in Paths, Snapped(p), ~ BeginTurn
  PROVE  \/ before'[p] = before[p]
         \/ CallsOver /\ phase' = "idle" /\ before' = Nothing
         \/ /\ before[p] = {} /\ before'[p] # {} /\ UNCHANGED <<content, first>>
            /\ first[p] = {} => before'[p] = {content[p]}
<1>1. CASE (EndRun \/ FinStep) /\ FinishRun
  <2>1. CallsOver
    <3>1. phase # "running" \/ EndRun
      BY <1>1, WhoMoves
    <3> QED
      BY <3>1 DEF EndRun, PlaceInv, TurnInv
  <2> QED
    BY <1>1, <2>1 DEF FinishRun
<1>2. ASSUME NEW c \in Calls, NEW x \in Content, Note(c, x), At(c) \in Paths, UNCHANGED <<content, first>>,
             p = At(c) /\ first[p] = {} => x = content[p]
      PROVE  \/ before'[p] = before[p]
             \/ /\ before[p] = {} /\ before'[p] # {} /\ UNCHANGED <<content, first>>
                /\ first[p] = {} => before'[p] = {content[p]}
  BY <1>2, NoteType
<1>3. ASSUME NEW c \in Calls, Exists(c), content[At(c)] = Absent
      PROVE  \/ before'[p] = before[p]
             \/ /\ before[p] = {} /\ before'[p] # {} /\ UNCHANGED <<content, first>>
                /\ first[p] = {} => before'[p] = {content[p]}
  <2>1. At(c) \in Paths /\ Absent \in Content /\ Note(c, Absent) /\ UNCHANGED <<content, first>>
    BY <1>3, AtTyped DEF Exists, Snapping, Content, fileVars, historyVars
  <2> QED
    BY <1>2, <1>3, <2>1
<1>4. ASSUME NEW c \in Calls, Commit(c)
      PROVE  \/ before'[p] = before[p]
             \/ /\ before[p] = {} /\ before'[p] # {} /\ UNCHANGED <<content, first>>
                /\ first[p] = {} => before'[p] = {content[p]}
  <2>1. /\ pc[c] = "commit" /\ At(c) \in Paths /\ Note(c, index[At(c)]) /\ UNCHANGED <<content, first>>
    BY <1>4, AtTyped DEF Commit, Snapping, fileVars, historyVars
  <2>2. index[At(c)] \in Content
    BY <2>1 DEF TypeOK, FileTypeOK
  <2>3. p = At(c) /\ first[p] = {} => index[At(c)] = content[p]
    BY <2>1 DEF Snapped, IsAt
  <2> QED
    BY <1>2, <2>1, <2>2, <2>3
<1> QED
  BY <1>1, <1>3, <1>4, BeforeMoves

\* Every step keeps the run's snapshots true to the files.
LEMMA SnapshotNext ==
  ASSUME TypeOK, PlaceInv, LockInv, [Next]_vars, NEW p \in Paths, p \notin spoiled', Snapped(p), ~ BeginTurn
  PROVE  /\ phase' # "idle" /\ first'[p] # {} => before'[p] = first'[p]
         /\ first'[p] = {} /\ before'[p] # {} => before'[p] = {content'[p]}
<1>0. /\ phase # "idle" /\ first[p] # {} => before[p] = first[p]
      /\ first[p] = {} /\ before[p] # {} => before[p] = {content[p]}
      /\ \A c \in Calls : p \in Past(c) /\ << c, p >> \notin lax => before[p] # {}
  BY DEF Snapped
<1>n. Nothing[p] = {}
  BY DEF Nothing
<1>1. ASSUME phase' # "idle", first'[p] # {} PROVE before'[p] = first'[p]
  <2>1. phase # "idle"
    <3>1. CASE EndRun \/ FinStep
      BY <3>1, WhoMoves
    <3>2. CASE ~ EndRun /\ ~ FinStep
      BY <1>1, <3>2, Quiet DEF Suspend
    <3> QED
      BY <3>1, <3>2
  <2>2. CASE first[p] # {}
    <3>1. first'[p] = first[p]
      BY <2>2, ContentMoves DEF Changes
    <3>2. before'[p] = before[p]
      BY <1>0, <1>1, <2>1, <2>2, NoteMoves
    <3> QED
      BY <1>0, <2>1, <2>2, <3>1, <3>2
  <2>3. CASE first[p] = {}
    <3>1. PICK d \in Calls : Changes(d, p)
      BY <1>1, <2>3, ContentMoves
    <3>2. before[p] # {}
      BY <1>0, <3>1 DEF Changes
    <3>3. before' = before /\ first'[p] = {content[p]}
      BY <2>3, <3>1 DEF Changes, Execute
    <3> QED
      BY <1>0, <2>3, <3>2, <3>3
  <2> QED
    BY <2>2, <2>3
<1>2. ASSUME first'[p] = {}, before'[p] # {} PROVE before'[p] = {content'[p]}
  <2>1. first[p] = {} /\ ~ \E d \in Calls : Changes(d, p)
    BY <1>2, ContentMoves DEF Changes
  <2>2. content'[p] = content[p]
    <3> SUFFICES ASSUME p \notin Foreign({p}), before' = before PROVE FALSE
      BY <2>1, ContentMoves
    <3>1. phase = "idle"
      BY <1>2, <2>1 DEF Foreign
    <3>2. before = Nothing
      BY <3>1 DEF PlaceInv, TurnInv
    <3> QED
      BY <1>2, <1>n, <3>2
  <2> QED
    BY <1>0, <1>2, <1>n, <2>1, <2>2, NoteMoves
<1> QED
  BY <1>1, <1>2

\* Every step keeps the copies on the way to a snapshot true to the files.
LEMMA CopyNext ==
  ASSUME TypeOK, PlaceInv, LockInv, OneCommits, [Next]_vars, NEW p \in Paths, p \notin spoiled', Snapped(p),
         ~ BeginTurn, NEW c \in Calls, first'[p] = {}
  PROVE  /\ IsAt(c, p, {"add"})' => mirror'[p] = content'[p]
         /\ IsAt(c, p, {"commit"})' => index'[p] = content'[p]
<1>t. /\ CallerTypeOK /\ HistoryTypeOK /\ RecordTypeOK /\ c \in Callers /\ c # Rev /\ CallPlace(c)
      /\ mirror \in [Paths -> Content] /\ index \in [Paths -> Content]
      /\ pc \in [Callers -> Places]
  BY EditsAssumption DEF TypeOK, CallerTypeOK, FileTypeOK, PlaceInv, Callers
<1>0. /\ IsAt(c, p, {"add"}) => mirror[p] = content[p]
      /\ IsAt(c, p, {"commit"}) => index[p] = content[p]
      /\ first[p] = {} /\ ~ \E d \in Calls : Changes(d, p)
  BY ContentMoves DEF Snapped, Changes
<1>1. IsAt(c, p, {"add", "commit"}) => content'[p] = content[p]
  <2> SUFFICES ASSUME IsAt(c, p, {"add", "commit"}), p \notin Foreign({p}) PROVE FALSE
    BY <1>0, ContentMoves
  <2>1. phase # "idle"
    <3>1. ~ CallsOver
      BY DEF IsAt, CallsOver
    <3> QED
      BY <3>1 DEF PlaceInv, TurnInv
  <2> QED
    BY <1>0, <2>1 DEF Foreign
<1>2. ASSUME pc'[c] \in {"add", "commit"} PROVE Same(c) \/ MirrorFile(c) \/ GitAdd(c)
  <2>1. ASSUME StartCall(c) \/ CallStep(c), ~ MirrorFile(c), ~ GitAdd(c) PROVE FALSE
    BY <1>2, <1>t, <2>1 DEF CallStep, StartCall, TakeMutex, TakeFd, TimeOut, Look, GitInit, InitConfig, Exists, Commit,
                            SnapshotFails, Execute, NextPath, Goes
  <2> QED
    BY <1>t, <2>1, CallMoves
<1>3. ASSUME IsAt(c, p, {"add"})' PROVE mirror'[p] = content'[p]
  <2>1. pc'[c] = "add" /\ At(c)' = p
    BY <1>3 DEF IsAt
  <2>2. CASE MirrorFile(c)
    <3>1. At(c) = p /\ content' = content /\ mirror' = [mirror EXCEPT ![At(c)] = content[At(c)]]
      BY <2>1, <2>2 DEF MirrorFile, At, fileVars
    <3> QED
      BY <1>t, <3>1
  <2>3. CASE GitAdd(c)
    BY <1>t, <2>1, <2>3 DEF GitAdd, Goes
  <2>4. CASE Same(c)
    <3>1. IsAt(c, p, {"add"}) /\ pc[c] = "add"
      BY <2>1, <2>4 DEF Same, At, IsAt
    <3>2. content'[p] = content[p]
      BY <1>1, <3>1 DEF IsAt
    <3>3. mirror'[p] = mirror[p]
      BY <2>1, <3>1, MirrorMoves
    <3> QED
      BY <1>0, <3>1, <3>2, <3>3
  <2> QED
    BY <1>2, <2>1, <2>2, <2>3, <2>4
<1>4. ASSUME IsAt(c, p, {"commit"})' PROVE index'[p] = content'[p]
  <2>1. pc'[c] = "commit" /\ At(c)' = p
    BY <1>4 DEF IsAt
  <2>2. CASE GitAdd(c)
    <3>1. /\ At(c) = p /\ content' = content /\ index' = [index EXCEPT ![At(c)] = mirror[At(c)]]
          /\ IsAt(c, p, {"add"})
      BY <2>1, <2>2 DEF GitAdd, At, fileVars, IsAt
    <3> QED
      BY <1>t, <1>0, <3>1
  <2>3. CASE MirrorFile(c)
    BY <1>t, <2>1, <2>3 DEF MirrorFile, Goes
  <2>4. CASE Same(c)
    <3>1. IsAt(c, p, {"commit"}) /\ pc[c] = "commit"
      BY <2>1, <2>4 DEF Same, At, IsAt
    <3>2. content'[p] = content[p]
      BY <1>1, <3>1 DEF IsAt
    <3>3. index'[p] = index[p]
      <4>1. ASSUME NEW w \in Callers, GitAdd(w) PROVE FALSE
        <5>1. pc'[w] = "commit" /\ w # c
          BY <1>t, <3>1, <4>1 DEF GitAdd, Goes
        <5>2. OneCommits'
          BY OneCommitsNext
        <5> QED
          BY <1>t, <2>1, <5>1, <5>2 DEF OneCommits
      <4> QED
        BY <1>t, <2>1, <3>1, <4>1, IndexMoves
    <3> QED
      BY <1>0, <3>1, <3>2, <3>3
  <2> QED
    BY <1>2, <2>1, <2>2, <2>3, <2>4
<1> QED
  BY <1>3, <1>4

\* As commits are one at a time, a snapshot never fails for index.lock, only for what
\* excuses it.
LEMMA FailIsExcused ==
  ASSUME PlaceInv, OneCommits, NEW c \in Calls, GitFails(c), NEW P
  PROVE  Excuses(c, P) = P
<1>1. /\ \A v, w \in Callers : pc[v] = "commit" /\ pc[w] = "commit" => v = w
      /\ c \in Callers /\ c # Rev /\ pc[Rev] # "commit"
  BY EditsAssumption DEF OneCommits, Callers, PlaceInv, RevPlace, Undoing
<1>2. ~ IndexLocked(c)
  <2>1. pc[c] = "add" /\ IndexFree(c) => ~ \E v \in Callers \ {c} : pc[v] = "commit"
    BY <1>1 DEF IndexFree, SameObject
  <2>2. pc[c] = "commit" => ~ \E v \in Callers \ {c} : pc[v] = "commit"
    BY <1>1
  <2> QED
    BY <2>1, <2>2 DEF IndexLocked
<1> QED
  BY <1>2 DEF GitFails, Excuses

\* A call that goes on to its next path leaves a snapshot of the present one behind, or
\* the record is spoiled.
LEMMA NotesItsPath ==
  ASSUME TypeOK, PlaceInv, OneCommits, NEW p \in Paths, p \notin spoiled', Snapped(p),
         NEW c \in Calls, Look(c) \/ Exists(c) \/ Commit(c) \/ SnapshotFails(c),
         pc'[c] \in {"mutex", "exec"}, p = At(c), << c, p >> \notin lax
  PROVE  before'[p] # {}
<1>t. /\ c \in Callers
      /\ pc \in [Callers -> Places]
  BY DEF TypeOK, CallerTypeOK, Callers
<1>1. CASE Look(c)
  BY <1>t, <1>1 DEF Look, Noted, Goes
<1>2. CASE Exists(c)
  <2>1. Absent \in Content /\ Note(c, Absent)
    BY <1>t, <1>2 DEF Exists, Goes, Content
  <2> QED
    BY <2>1, NoteType
<1>3. CASE Commit(c)
  <2>1. index[At(c)] \in Content /\ Note(c, index[At(c)])
    BY <1>3 DEF Commit, TypeOK, FileTypeOK
  <2> QED
    BY <2>1, NoteType
<1>4. CASE SnapshotFails(c)
  <2>1. GitFails(c) /\ p \notin Excuses(c, {p})
    BY <1>4 DEF SnapshotFails
  <2> QED
    BY <2>1, FailIsExcused
<1> QED
  BY <1>1, <1>2, <1>3, <1>4

\* Every step keeps the snapshots of the paths behind a call.
LEMMA RegisteredNext ==
  ASSUME TypeOK, PlaceInv, LockInv, OneCommits, [Next]_vars, NEW p \in Paths, p \notin spoiled', Snapped(p),
         ~ BeginTurn, NEW c \in Calls, p \in Past(c)', << c, p >> \notin lax'
  PROVE  before'[p] # {}
<1>t. /\ CallerTypeOK /\ HistoryTypeOK /\ RecordTypeOK /\ c \in Callers /\ c # Rev /\ CallPlace(c)
      /\ todo \in [Callers -> Seq(Paths)] /\ names \in [Calls -> Seq(Paths)]
      /\ pc \in [Callers -> Places]
  BY EditsAssumption DEF TypeOK, CallerTypeOK, PlaceInv, Callers
<1>1. ASSUME p \in Past(c), << c, p >> \notin lax PROVE before'[p] # {}
  <2>1. before[p] # {}
    BY <1>1 DEF Snapped
  <2>2. ~ CallsOver
    <3> SUFFICES ASSUME CallsOver PROVE FALSE
      OBVIOUS
    <3>1. names[c] = << >> /\ todo[c] = << >>
      BY <1>t DEF CallPlace, CallsOver
    <3>2. Count(c) = 0
      BY <3>1 DEF Count
    <3> QED
      BY <1>1, <3>2 DEF Past
  <2> QED
    BY <2>1, <2>2, NoteMoves
<1>2. CASE Same(c)
  <2>1. Past(c)' = Past(c) /\ (<< c, p >> \in lax' <=> << c, p >> \in lax)
    BY <1>2, SamePlace DEF Same
  <2> QED
    BY <1>1, <2>1
<1>3. CASE StartCall(c) \/ Execute(c)
  <2>1. names'[c] = todo'[c] /\ names'[c] \in Seq(Paths)
    <3>1. CASE StartCall(c)
      <4>1. PICK s \in Touches[c] : names' = [names EXCEPT ![c] = s] /\ todo' = [todo EXCEPT ![c] = s]
        BY <3>1 DEF StartCall
      <4> QED
        BY <1>t, <4>1, EditsAssumption
    <3>2. CASE Execute(c)
      <4>1. names'[c] = << >> /\ todo' = todo /\ todo[c] = << >>
        BY <1>t, <3>2 DEF Execute, CallPlace
      <4>2. << >> \in Seq(Paths)
        OBVIOUS
      <4> QED
        BY <4>1, <4>2
    <3> QED
      BY <1>3, <3>1, <3>2
  <2>2. Count(c)' = 0
    BY <2>1 DEF Count
  <2> QED
    BY <2>2 DEF Past
<1>4. CASE TakeMutex(c) \/ TakeFd(c) \/ TimeOut(c) \/ GitInit(c) \/ InitConfig(c) \/ MirrorFile(c) \/ GitAdd(c)
  <2>1. /\ pc[c] \in {"mutex", "fd"} \cup Snapping /\ pc'[c] \in {"fd"} \cup Snapping
        /\ todo'[c] = todo[c] /\ names' = names
    BY <1>4, <1>t DEF TakeMutex, TakeFd, TimeOut, TimesOut, GitInit, InitConfig, MirrorFile, GitAdd, Goes, Snapping
  <2>2. << c, p >> \notin lax
    BY <1>4 DEF TakeMutex, TakeFd, TimeOut, GitInit, InitConfig, MirrorFile, GitAdd, historyVars
  <2>3. Past(c)' = Past(c)
    BY <1>t, <2>1, StayPlace
  <2> QED
    BY <1>1, <2>2, <2>3
<1>5. CASE Look(c) \/ Exists(c) \/ Commit(c) \/ SnapshotFails(c)
  <2>1. pc[c] \in Snapping /\ names' = names /\ lax' = lax
    BY <1>5 DEF Look, Exists, Commit, SnapshotFails, GitFails, Refuses, IndexLocked, Snapping, historyVars
  <2>2. NextPath(c) \/ (pc'[c] \in Snapping /\ todo' = todo)
    BY <1>5, <1>t DEF Look, Exists, Commit, SnapshotFails, Goes, Snapping
  <2>3. CASE pc'[c] \in Snapping /\ todo' = todo
    <3>1. Past(c)' = Past(c)
      BY <1>t, <2>1, <2>3, StayPlace
    <3> QED
      BY <1>1, <2>1, <3>1
  <2>4. CASE NextPath(c)
    <3>1. Past(c)' = Past(c) \cup {At(c)} /\ pc'[c] \in {"mutex", "exec"}
      BY <1>t, <2>1, <2>4, NextPathPlace
    <3> QED
      BY <1>1, <1>5, <2>1, <3>1, NotesItsPath
  <2> QED
    BY <2>2, <2>3, <2>4
<1> QED
  BY <1>t, <1>2, <1>3, <1>4, <1>5, CallMoves DEF CallStep

\* A file that a call has found and locked does not go before it is copied.
LEMMA ThereNext ==
  ASSUME TypeOK, PlaceInv, LockInv, [Next]_vars, NEW p \in Paths, p \notin spoiled', Snapped(p),
         ~ BeginTurn, NEW c \in Calls, IsAt(c, p, {"mirror"})', << c, p >> \notin lax'
  PROVE  content'[p] # Absent
<1>t. /\ CallerTypeOK /\ HistoryTypeOK /\ RecordTypeOK /\ c \in Callers /\ c # Rev /\ Rev \in Callers /\ Calls \subseteq Callers
      /\ todo \in [Callers -> Seq(Paths)]
      /\ pc \in [Callers -> Places]
  BY EditsAssumption DEF TypeOK, CallerTypeOK, Callers
<1>0. pc'[c] = "mirror" /\ At(c)' = p
  BY DEF IsAt
<1>1. CASE Same(c)
  <2>1. pc[c] = "mirror" /\ At(c) = p /\ << c, p >> \notin lax
    BY <1>0, <1>1 DEF Same, At
  <2>2. content[p] # Absent
    BY <2>1 DEF Snapped, IsAt
  <2>3. p \in fd[c]
    BY <2>1 DEF LockInv, Through, Snapping
  <2>4. \A v \in Callers : v # c => p \notin fd[v]
    BY <1>t, <2>3 DEF LockInv, FdApart
  <2>5. ~ \E d \in Calls : Changes(d, p)
    <3> SUFFICES ASSUME NEW d \in Calls, Changes(d, p) PROVE FALSE
      OBVIOUS
    <3>1. d = c
      BY <1>t, <2>4 DEF Changes
    <3> QED
      BY <2>1, <3>1 DEF Changes, Execute
  <2>6. p \notin fd[Rev]
    BY <1>t, <2>4
  <2> QED
    BY <2>2, <2>5, <2>6, ContentMoves
<1>2. CASE Exists(c)
  <2>1. content[At(c)] # Absent /\ todo' = todo /\ content' = content
    BY <1>0, <1>2, <1>t DEF Exists, NextPath, Goes, fileVars
  <2> QED
    BY <1>0, <2>1 DEF At
<1>3. ASSUME StartCall(c) \/ CallStep(c), ~ Exists(c) PROVE FALSE
  BY <1>0, <1>t, <1>3 DEF CallStep, StartCall, TakeMutex, TakeFd, TimeOut, Look, GitInit, InitConfig, MirrorFile, GitAdd, Commit,
                          SnapshotFails, Execute, NextPath, Goes
<1> QED
  BY <1>t, <1>1, <1>2, <1>3, CallMoves

\* Every step keeps Snapped.
LEMMA SnappedNext ==
  ASSUME TypeOK, PlaceInv, LockInv, OneCommits, [Next]_vars, NEW p \in Paths, p \notin spoiled',
         p \notin spoiled => Snapped(p)
  PROVE  Snapped(p)'
<1>1. CASE BeginTurn
  <2>1. CallsOver /\ before' = Nothing /\ first'[p] = {} /\ pc' = pc /\ todo' = todo /\ names' = names
    <3>1. CallsOver
      BY <1>1 DEF BeginTurn, PlaceInv, TurnInv
    <3>2. first'[p] = {}
      BY <1>1 DEF BeginTurn, Nothing
    <3> QED
      BY <1>1, <3>1, <3>2 DEF BeginTurn
  <2>2. before'[p] = {}
    BY <2>1 DEF Nothing
  <2>3. ASSUME NEW c \in Calls
        PROVE  /\ ~ IsAt(c, p, {"add"})' /\ ~ IsAt(c, p, {"commit"})' /\ ~ IsAt(c, p, {"mirror"})'
               /\ p \notin Past(c)'
    <3>1. pc'[c] \in {"idle", "done"} /\ names'[c] = << >> /\ todo'[c] = << >>
      BY <2>1 DEF CallsOver, PlaceInv, CallPlace
    <3>2. Count(c)' = 0
      BY <3>1 DEF Count
    <3> QED
      BY <3>1, <3>2 DEF IsAt, Past
  <2> QED
    BY <2>1, <2>2, <2>3 DEF Snapped
<1>2. CASE ~ BeginTurn
  <2>1. Snapped(p)
    BY <1>2, SpoiledGrows
  <2>2. /\ phase' # "idle" /\ first'[p] # {} => before'[p] = first'[p]
        /\ first'[p] = {} /\ before'[p] # {} => before'[p] = {content'[p]}
    BY <1>2, <2>1, SnapshotNext
  <2>3. ASSUME NEW c \in Calls
        PROVE  /\ first'[p] = {} /\ IsAt(c, p, {"add"})' => mirror'[p] = content'[p]
               /\ first'[p] = {} /\ IsAt(c, p, {"commit"})' => index'[p] = content'[p]
               /\ p \in Past(c)' /\ << c, p >> \notin lax' => before'[p] # {}
               /\ IsAt(c, p, {"mirror"})' /\ << c, p >> \notin lax' => content'[p] # Absent
    BY <1>2, <2>1, CopyNext, RegisteredNext, ThereNext
  <2> QED
    BY <2>2, <2>3 DEF Snapped
<1> QED
  BY <1>1, <1>2

\* Only the end of a run notes the content it has seen.
LEMMA LastMoves ==
  ASSUME [Next]_vars, ~ BeginTurn, ~ FinStep
  PROVE  last' = last
<1>1. ASSUME NEW c \in Calls, StartCall(c) \/ CallStep(c) PROVE last' = last
  BY <1>1, EditsAssumption DEF CallStep, StartCall, TakeMutex, TakeFd, TimeOut, Look, GitInit, InitConfig, Exists, MirrorFile,
              GitAdd, Commit, SnapshotFails, Execute, historyVars
<1>2. RevStep => last' = last
  BY EditsAssumption DEF RevStep, TakeMutex, TakeFd, MirrorFile, Undo, Apply, CopyBack, RevertFails, LoadMeta,
                         MarkReverted, historyVars
<1>3. Suspend \/ RevertStart \/ UNCHANGED vars \/ (\E p \in Paths : UserEdits(p)) => last' = last
  BY DEF Suspend, RevertStart, UserEdits, vars, historyVars
<1>4. EndRun => last' = last
  BY EndRunEffect DEF historyVars
<1> QED
  BY <1>1, <1>2, <1>3, <1>4 DEF Next

\* Every step keeps the copies that finalize_run works with.
LEMMA FinCopyNext ==
  ASSUME TypeOK, PlaceInv, OneCommits, [Next]_vars, NEW p \in Paths, p \notin spoiled', Compared(p)
  PROVE  /\ IsAt(Fin, p, {"add"})' => last'[p] = {mirror'[p]}
         /\ IsAt(Fin, p, {"commit"})' => last'[p] = {index'[p]}
<1>t. /\ CallerTypeOK /\ RecordTypeOK /\ Fin \in Callers
      /\ mirror \in [Paths -> Content] /\ index \in [Paths -> Content] /\ last \in [Paths -> SUBSET Content]
      /\ pc \in [Callers -> Places]
  BY DEF TypeOK, CallerTypeOK, FileTypeOK, HistoryTypeOK, Callers
<1>1. ASSUME pc'[Fin] \in {"add", "commit"} PROVE (Same(Fin) /\ ~ FinStep /\ ~ BeginTurn) \/ MirrorFile(Fin) \/ GitAdd(Fin)
  <2>1. ASSUME FinStep, ~ MirrorFile(Fin), ~ GitAdd(Fin) PROVE FALSE
    <3>1. ASSUME NEW x, Record(x) PROVE FALSE
      BY <1>1, <1>t, <3>1 DEF Record, FinishRun, Goes
    <3> QED
      BY <1>1, <1>t, <2>1, <3>1 DEF FinStep, FinExists, FinCommit, FinFails, LoadMeta, AppendRun, FinishRun, Goes
  <2>2. ~ EndRun
    BY <1>1, <1>t, EndRunEffect DEF FinishRun, Goes
  <2>3. BeginTurn => pc[Fin] = "idle" /\ pc' = pc
    BY WhoMoves DEF BeginTurn
  <2> QED
    BY <1>1, <1>t, <2>1, <2>2, <2>3, FinMoves
<1>3. ASSUME IsAt(Fin, p, {"add"})' PROVE last'[p] = {mirror'[p]}
  <2>1. pc'[Fin] = "add" /\ At(Fin)' = p
    BY <1>3 DEF IsAt
  <2>2. CASE MirrorFile(Fin)
    <3>1. /\ At(Fin) = p /\ mirror' = [mirror EXCEPT ![At(Fin)] = content[At(Fin)]]
          /\ last' = [last EXCEPT ![At(Fin)] = {content[At(Fin)]}]
      BY <2>1, <2>2 DEF MirrorFile, At
    <3> QED
      BY <1>t, <3>1
  <2>3. CASE GitAdd(Fin)
    BY <1>t, <2>1, <2>3 DEF GitAdd, Goes
  <2>4. CASE Same(Fin) /\ ~ FinStep /\ ~ BeginTurn
    <3>1. IsAt(Fin, p, {"add"}) /\ pc[Fin] = "add"
      BY <2>1, <2>4 DEF Same, At, IsAt
    <3>2. last' = last /\ mirror'[p] = mirror[p]
      BY <2>1, <2>4, <3>1, LastMoves, MirrorMoves
    <3> QED
      BY <3>1, <3>2 DEF Compared
  <2> QED
    BY <1>1, <2>1, <2>2, <2>3, <2>4
<1>4. ASSUME IsAt(Fin, p, {"commit"})' PROVE last'[p] = {index'[p]}
  <2>1. pc'[Fin] = "commit" /\ At(Fin)' = p
    BY <1>4 DEF IsAt
  <2>2. CASE GitAdd(Fin)
    <3>1. /\ At(Fin) = p /\ last' = last /\ index' = [index EXCEPT ![At(Fin)] = mirror[At(Fin)]]
          /\ IsAt(Fin, p, {"add"})
      BY <2>1, <2>2 DEF GitAdd, At, historyVars, IsAt
    <3> QED
      BY <1>t, <3>1 DEF Compared
  <2>3. CASE MirrorFile(Fin)
    BY <1>t, <2>1, <2>3 DEF MirrorFile, Goes
  <2>4. CASE Same(Fin) /\ ~ FinStep /\ ~ BeginTurn
    <3>1. IsAt(Fin, p, {"commit"}) /\ pc[Fin] = "commit"
      BY <2>1, <2>4 DEF Same, At, IsAt
    <3>2. index'[p] = index[p]
      <4>1. ASSUME NEW w \in Callers, GitAdd(w) PROVE FALSE
        <5>1. pc'[w] = "commit" /\ w # Fin
          BY <1>t, <3>1, <4>1 DEF GitAdd, Goes
        <5>2. OneCommits'
          BY OneCommitsNext
        <5> QED
          BY <1>t, <2>1, <5>1, <5>2 DEF OneCommits
      <4> QED
        BY <1>t, <2>1, <3>1, <4>1, IndexMoves
    <3>3. last' = last
      BY <2>4, LastMoves
    <3> QED
      BY <3>1, <3>2, <3>3 DEF Compared
  <2> QED
    BY <1>1, <2>1, <2>2, <2>3, <2>4
<1> QED
  BY <1>3, <1>4

\* The difference of file p is in the entry after the step.
Listed(p) == \E j \in DOMAIN changes' :
  changes'[j].path = p /\ before[p] = {changes'[j].before} /\ last'[p] = {changes'[j].after}

\* A step that ends the work on a file has compared it with its snapshot.
LEMMA RecordCompares ==
  ASSUME TypeOK, PlaceInv, NEW p \in Paths, Compared(p), phase = "ending", FinExists \/ FinCommit,
         before[p] # {}
  PROVE  \/ UNCHANGED <<changes, todo, phase, before, last>>
         \/ \E x \in Content :
              /\ Record(x)
              /\ (\A i \in DOMAIN Tail(todo[Fin]) : Tail(todo[Fin])[i] # p) => before[p] = last'[p] \/ Listed(p)
<1>t. /\ CallerTypeOK /\ Fin \in Callers /\ last \in [Paths -> SUBSET Content]
      /\ todo \in [Callers -> Seq(Paths)]
  BY DEF TypeOK, CallerTypeOK, HistoryTypeOK, Callers
<1>0. pc[Fin] \in {"exists", "commit"} /\ todo[Fin] # << >> /\ At(Fin) \in Paths
  <2>1. pc[Fin] \in {"exists", "commit"}
    BY DEF FinExists, FinCommit
  <2> QED
    BY <2>1, AtTyped DEF PlaceInv, FinPlace
<1>a. /\ Len(todo[Fin]) \in Nat /\ DOMAIN todo[Fin] = 1 .. Len(todo[Fin]) /\ At(Fin) = todo[Fin][1]
      /\ Tail(todo[Fin]) \in Seq(Paths) /\ Len(Tail(todo[Fin])) = Len(todo[Fin]) - 1
      /\ \A i \in 1 .. Len(todo[Fin]) - 1 : Tail(todo[Fin])[i] = todo[Fin][i + 1]
  BY <1>t, <1>0, AtFacts
<1>1. CASE FinExists /\ content[At(Fin)] # Absent
  BY <1>1 DEF FinExists
<1>2. ASSUME NEW x \in Content, Record(x), last' = last \/ last' = [last EXCEPT ![At(Fin)] = {x}],
             p = At(Fin) => last'[p] = {x},
             \A i \in DOMAIN Tail(todo[Fin]) : Tail(todo[Fin])[i] # p
      PROVE  before[p] = last'[p] \/ Listed(p)
  <2>0. /\ changes' \in Seq(Change) /\ changes \in Seq(Change)
        /\ \A j \in DOMAIN changes : j \in DOMAIN changes' /\ changes'[j] = changes[j]
        /\ before[At(Fin)] # {x} =>
              \E j \in DOMAIN changes' : /\ changes'[j].path = At(Fin) /\ changes'[j].after = x
                                         /\ before[At(Fin)] = {changes'[j].before}
    BY <1>0, <1>2, RecordEffect
  <2>1. CASE p = At(Fin)
    BY <1>2, <2>0, <2>1 DEF Listed
  <2>2. CASE p # At(Fin)
    <3>1. \A i \in DOMAIN todo[Fin] : todo[Fin][i] # p
      <4> SUFFICES ASSUME NEW i \in 1 .. Len(todo[Fin]), i # 1 PROVE todo[Fin][i] # p
        BY <1>a, <2>2
      <4>1. i - 1 \in 1 .. Len(todo[Fin]) - 1 /\ (i - 1) + 1 = i
        BY <1>a
      <4>2. Tail(todo[Fin])[i - 1] = todo[Fin][i] /\ i - 1 \in DOMAIN Tail(todo[Fin])
        <5>1. DOMAIN Tail(todo[Fin]) = 1 .. Len(Tail(todo[Fin]))
          BY <1>a, SeqFacts
        <5> QED
          BY <1>a, <4>1, <5>1
      <4> QED
        BY <1>2, <4>2
    <3>2. last'[p] = last[p]
      BY <1>2, <1>t, <2>2
    <3>3. before[p] = last[p] \/ Written(p)
      BY <3>1 DEF Compared
    <3>4. Written(p) => Listed(p)
      BY <2>0, <3>2 DEF Written, Listed
    <3> QED
      BY <3>2, <3>3, <3>4
  <2> QED
    BY <2>1, <2>2
<1>3. CASE FinExists /\ content[At(Fin)] = Absent
  <2>1. Absent \in Content /\ Record(Absent) /\ last' = [last EXCEPT ![At(Fin)] = {Absent}]
    BY <1>3 DEF FinExists, Content
  <2>2. p = At(Fin) => last'[p] = {Absent}
    BY <1>t, <2>1
  <2> QED
    BY <1>2, <2>1, <2>2
<1>4. CASE FinCommit
  <2>1. pc[Fin] = "commit" /\ Record(index[At(Fin)]) /\ last' = last
    BY <1>4 DEF FinCommit, historyVars
  <2>2. index[At(Fin)] \in Content
    BY <1>0 DEF TypeOK, FileTypeOK
  <2>3. p = At(Fin) => last'[p] = {index[At(Fin)]}
    BY <2>1 DEF Compared, IsAt
  <2> QED
    BY <1>2, <2>1, <2>2, <2>3
<1> QED
  BY <1>1, <1>3, <1>4

\* Every step keeps Compared.
LEMMA ComparedNext ==
  ASSUME TypeOK, PlaceInv, OneCommits, [Next]_vars, NEW p \in Paths, p \notin spoiled',
         p \notin spoiled => Compared(p)
  PROVE  Compared(p)'
<1>t. /\ CallerTypeOK /\ RecordTypeOK /\ Fin \in Callers /\ last \in [Paths -> SUBSET Content]
      /\ todo \in [Callers -> Seq(Paths)]
  BY DEF TypeOK, CallerTypeOK, HistoryTypeOK, Callers
<1>1. CASE BeginTurn
  <2>1. phase' = "running" /\ pc'[Fin] = "idle"
    BY <1>1, WhoMoves DEF BeginTurn
  <2> QED
    BY <2>1 DEF Compared, IsAt
<1>2. CASE ~ BeginTurn
  <2>1. Compared(p)
    BY <1>2, SpoiledGrows
  <2>2. /\ IsAt(Fin, p, {"add"})' => last'[p] = {mirror'[p]}
        /\ IsAt(Fin, p, {"commit"})' => last'[p] = {index'[p]}
    BY <2>1, FinCopyNext
  <2>3. ASSUME phase' = "ending", before'[p] # {}, \A i \in DOMAIN todo'[Fin] : todo'[Fin][i] # p
        PROVE  before'[p] = last'[p] \/ Written(p)'
    <3>1. CASE EndRun
      <4>1. before' = before /\ \E s \in SetToSeqs(Files) : todo' = [todo EXCEPT ![Fin] = s]
        BY <2>3, <3>1, EndRunEffect DEF FinishRun
      <4>2. PICK s \in SetToSeqs(Files) : todo'[Fin] = s
        BY <1>t, <4>1
      <4>3. p \in Files /\ Files \in SUBSET Paths
        BY <2>3, <4>1 DEF Files
      <4>4. \E i \in DOMAIN s : s[i] = p
        BY <4>3, SeqsOf
      <4> QED
        BY <2>3, <4>2, <4>4
    <3>2. CASE ~ EndRun
      <4>0. phase = "ending"
        BY <1>2, <2>3, <3>2, WhoMoves, Quiet DEF Suspend
      <4>1. CASE FinExists \/ FinCommit
        <5>0. pc[Fin] \in {"exists", "commit"}
          BY <4>1 DEF FinExists, FinCommit
        <5>1. CASE UNCHANGED <<changes, todo, phase, before, last>>
          <6>1. Written(p)' = Written(p)
            BY <5>1 DEF Written
          <6> QED
            BY <2>1, <2>3, <5>1, <6>1 DEF Compared
        <5>2. ASSUME NEW x \in Content, Record(x),
                     (\A i \in DOMAIN Tail(todo[Fin]) : Tail(todo[Fin])[i] # p) => before[p] = last'[p] \/ Listed(p)
              PROVE  before'[p] = last'[p] \/ Written(p)'
          <6>1. todo' = [todo EXCEPT ![Fin] = Tail(todo[Fin])] /\ before' = before
            BY <2>3, <5>0, <5>2, RecordEffect DEF FinishRun
          <6>2. before[p] = last'[p] \/ Listed(p)
            BY <1>t, <2>3, <5>2, <6>1
          <6>3. Listed(p) => Written(p)'
            BY <6>1 DEF Listed, Written
          <6> QED
            BY <6>1, <6>2, <6>3
        <5>3. before[p] # {}
          <6>1. before' = before
            <7>1. ~ FinishRun
              BY <2>3 DEF FinishRun
            <7> QED
              BY <4>1, <7>1 DEF FinExists, FinCommit, Record
          <6> QED
            BY <2>3, <6>1
        <5> QED
          BY <2>1, <4>0, <4>1, <5>1, <5>2, <5>3, RecordCompares
      <4>2. CASE FinFails \/ AppendRun
        BY <2>3, <4>2 DEF FinFails, AppendRun, FinishRun
      <4>3. CASE MirrorFile(Fin)
        <5>1. /\ UNCHANGED <<todo, before, changes>> /\ last' = [last EXCEPT ![At(Fin)] = {content[At(Fin)]}]
              /\ pc[Fin] = "mirror"
          BY <4>3 DEF MirrorFile, recordVars
        <5>2. todo[Fin] # << >> /\ At(Fin) = todo[Fin][1] /\ 1 \in DOMAIN todo[Fin]
          BY <1>t, <5>1, AtFacts DEF PlaceInv, FinPlace
        <5>3. last'[p] = last[p]
          BY <1>t, <2>3, <5>1, <5>2
        <5>4. Written(p)' = Written(p)
          BY <5>1, <5>3 DEF Written
        <5> QED
          BY <2>1, <2>3, <4>0, <5>1, <5>3, <5>4 DEF Compared
      <4>4. CASE GitAdd(Fin) \/ LoadMeta(Fin)
        <5>1. UNCHANGED <<todo, before, changes, last>>
          BY <4>4 DEF GitAdd, LoadMeta, recordVars, historyVars
        <5>4. Written(p)' = Written(p)
          BY <5>1 DEF Written
        <5> QED
          BY <2>1, <2>3, <4>0, <5>1, <5>4 DEF Compared
      <4>5. CASE ~ FinStep
        <5>1. UNCHANGED <<before, changes, last>> /\ todo'[Fin] = todo[Fin]
          BY <1>2, <1>t, <3>2, <4>0, <4>5, Ending, FinMoves, LastMoves DEF Same
        <5>4. Written(p)' = Written(p)
          BY <5>1 DEF Written
        <5> QED
          BY <2>1, <2>3, <4>0, <5>1, <5>4 DEF Compared
      <4> QED
        BY <4>1, <4>2, <4>3, <4>4, <4>5 DEF FinStep
    <3> QED
      BY <3>1, <3>2
  <2> QED
    BY <2>2, <2>3 DEF Compared
<1> QED
  BY <1>1, <1>2

\* Prefix is reflexive and transitive, and appending goes on from it.
LEMMA PrefixFacts ==
  ASSUME NEW S, NEW s \in Seq(S), NEW t \in Seq(S), NEW u \in Seq(S)
  PROVE  /\ Prefix(s, s)
         /\ \A x \in S : Prefix(s, Append(s, x))
         /\ Prefix(s, t) /\ Prefix(t, u) => Prefix(s, u)
<1>1. Len(s) \in Nat /\ Len(t) \in Nat /\ Len(u) \in Nat
  OBVIOUS
<1>2. Prefix(s, s)
  BY <1>1 DEF Prefix
<1>3. \A x \in S : Prefix(s, Append(s, x))
  BY <1>1, SeqFacts DEF Prefix
<1>4. Prefix(s, t) /\ Prefix(t, u) => Prefix(s, u)
  <2> SUFFICES ASSUME Prefix(s, t), Prefix(t, u) PROVE Prefix(s, u)
    OBVIOUS
  <2>1. Len(s) <= Len(u)
    BY <1>1 DEF Prefix
  <2>2. ASSUME NEW i \in 1 .. Len(s) PROVE s[i].run = u[i].run /\ s[i].files = u[i].files
    <3>1. i \in 1 .. Len(t)
      BY <1>1 DEF Prefix
    <3> QED
      BY <3>1 DEF Prefix
  <2> QED
    BY <2>1, <2>2 DEF Prefix
<1> QED
  BY <1>2, <1>3, <1>4

\* Who writes the metadata.
LEMMA MetaMoves ==
  ASSUME [Next]_vars
  PROVE  meta' = meta \/ AppendRun \/ MarkReverted
<1>1. ASSUME NEW c \in Calls, StartCall(c) \/ CallStep(c) PROVE meta' = meta
  BY <1>1 DEF CallStep, StartCall, TakeMutex, TakeFd, TimeOut, Look, GitInit, InitConfig, Exists, MirrorFile,
              GitAdd, Commit, SnapshotFails, Execute, recordVars
<1>2. RevStep => meta' = meta \/ MarkReverted
  BY DEF RevStep, TakeMutex, TakeFd, MirrorFile, Undo, Apply, CopyBack, RevertFails, LoadMeta, recordVars
<1>3. BeginTurn \/ Suspend \/ RevertStart \/ UNCHANGED vars \/ (\E p \in Paths : UserEdits(p)) => meta' = meta
  BY DEF BeginTurn, Suspend, RevertStart, UserEdits, vars, recordVars
<1>4. EndRun => meta' = meta
  BY EndRunEffect DEF recordVars
<1>5. FinStep => meta' = meta \/ AppendRun
  BY DEF FinStep, FinExists, MirrorFile, GitAdd, FinCommit, FinFails, LoadMeta, recordVars
<1> QED
  BY <1>1, <1>2, <1>3, <1>4, <1>5 DEF Next

\* mark_run_reverted writes the runs it has read.
LEMMA MarkEffect ==
  ASSUME TypeOK, MarkReverted
  PROVE  /\ Prefix(meta', loaded[Rev]) /\ Prefix(loaded[Rev], meta')
         /\ Len(meta') = Len(loaded[Rev]) /\ DOMAIN meta' = 1 .. Len(loaded[Rev]) /\ Len(loaded[Rev]) \in Nat
<1>1. loaded[Rev] \in Seq(RunEntry)
  BY DEF TypeOK, RecordTypeOK, Callers
<1>2. /\ DOMAIN loaded[Rev] = 1 .. Len(loaded[Rev]) /\ Len(loaded[Rev]) \in Nat
      /\ \A i \in DOMAIN loaded[Rev] : loaded[Rev][i] \in RunEntry
  BY <1>1
<1>3. meta' = [i \in DOMAIN loaded[Rev] |->
                 [loaded[Rev][i] EXCEPT !.reverted = @ \/ loaded[Rev][i].run = job[1].run]]
  BY DEF MarkReverted
<1>4. \A i \in DOMAIN loaded[Rev] : meta'[i].run = loaded[Rev][i].run /\ meta'[i].files = loaded[Rev][i].files
  BY <1>2, <1>3 DEF RunEntry
<1>5. DOMAIN meta' = 1 .. Len(loaded[Rev]) /\ Len(meta') = Len(loaded[Rev])
  BY <1>2, <1>3
<1> QED
  BY <1>2, <1>4, <1>5 DEF Prefix

\* append_run writes the runs it has read and the entry of the run.
LEMMA AppendEffect ==
  ASSUME TypeOK, PlaceInv, AppendRun
  PROVE  /\ Prefix(loaded[Fin], meta') /\ loaded[Fin] \in Seq(RunEntry)
         /\ \E e \in Range(meta') : e.run = run /\ e.files = changes
<1> DEFINE e == [run |-> run, files |-> changes, reverted |-> FALSE]
<1>1. run \in Runs /\ changes # << >> /\ changes \in Seq(Change) /\ loaded[Fin] \in Seq(RunEntry)
  BY EditsAssumption DEF AppendRun, PlaceInv, FinPlace, TurnInv, TypeOK, TurnTypeOK, RecordTypeOK, Runs, Callers
<1>2. e \in RunEntry /\ e.run = run /\ e.files = changes
  BY <1>1 DEF RunEntry
<1>3. meta' = Append(loaded[Fin], e)
  BY DEF AppendRun
<1> HIDE DEF e
<1>4. /\ Prefix(loaded[Fin], meta') /\ Len(loaded[Fin]) \in Nat
      /\ DOMAIN meta' = 1 .. Len(loaded[Fin]) + 1 /\ meta'[Len(loaded[Fin]) + 1] = e
  BY <1>1, <1>2, <1>3, PrefixFacts, SeqFacts
<1>5. e \in Range(meta')
  BY <1>4 DEF Range
<1> QED
  BY <1>1, <1>2, <1>4, <1>5

\* Every step keeps MetaInv.
LEMMA MetaNext == TypeOK /\ PlaceInv /\ MetaInv /\ [Next]_vars => MetaInv'
<1> SUFFICES ASSUME TypeOK, PlaceInv, MetaInv, [Next]_vars PROVE MetaInv'
  OBVIOUS
<1>t. /\ CallerTypeOK /\ RecordTypeOK /\ Fin \in Callers /\ Rev \in Callers /\ Fin # Rev
      /\ meta \in Seq(RunEntry) /\ loaded \in [Callers -> Seq(RunEntry)]
      /\ pc \in [Callers -> Places]
  BY EditsAssumption DEF TypeOK, CallerTypeOK, RecordTypeOK, Callers
<1>m. meta' \in Seq(RunEntry)
  BY RecordType DEF RecordTypeOK
<1>l. loaded[Fin] \in Seq(RunEntry) /\ loaded[Rev] \in Seq(RunEntry)
  BY <1>t
<1>1. ASSUME NEW w \in Callers, LoadMeta(w) PROVE loaded'[w] = meta /\ meta' = meta
  BY <1>t, <1>1 DEF LoadMeta
<1>2. ASSUME pc'[Rev] = "save" PROVE Prefix(loaded'[Rev], meta')
  <2>1. LoadMeta(Rev) \/ (Same(Rev) /\ ~ MarkReverted)
    <3>1. ASSUME RevertStart \/ RevStep, ~ LoadMeta(Rev) PROVE FALSE
      BY <1>2, <1>t, <3>1 DEF RevertStart, RevStep, TakeMutex, TakeFd, MirrorFile, Undo, Undone, Apply, CopyBack,
                              RevertFails, MarkReverted, Goes
    <3>2. ~ MarkReverted
      BY <1>2, <1>t DEF MarkReverted, Goes
    <3> QED
      BY <1>t, <3>1, <3>2, RevMoves
  <2>2. CASE LoadMeta(Rev)
    BY <1>1, <1>t, <2>2, PrefixFacts
  <2>3. CASE Same(Rev) /\ ~ MarkReverted
    <3>1. pc[Rev] = "save" /\ loaded'[Rev] = loaded[Rev]
      BY <1>2, <2>3 DEF Same
    <3>2. Prefix(loaded[Rev], meta)
      BY <3>1 DEF MetaInv
    <3>3. CASE AppendRun
      <4>1. Prefix(loaded[Fin], meta') /\ Prefix(meta, loaded[Fin])
        BY <3>3, AppendEffect DEF MetaInv, AppendRun
      <4>2. Prefix(meta, meta')
        BY <1>t, <1>m, <1>l, <4>1, PrefixFacts
      <4> QED
        BY <1>t, <1>m, <1>l, <3>1, <3>2, <4>2, PrefixFacts
    <3> QED
      BY <2>3, <3>1, <3>2, <3>3, MetaMoves
  <2> QED
    BY <2>1, <2>2, <2>3
<1>3. ASSUME pc'[Fin] = "save" PROVE Prefix(meta', loaded'[Fin])
  <2>1. LoadMeta(Fin) \/ (Same(Fin) /\ ~ AppendRun)
    <3>1. ASSUME FinStep, ~ LoadMeta(Fin) PROVE FALSE
      <4>1. ASSUME NEW x, Record(x) PROVE FALSE
        BY <1>3, <1>t, <4>1 DEF Record, FinishRun, Goes
      <4> QED
        BY <1>3, <1>t, <3>1, <4>1 DEF FinStep, FinExists, FinCommit, FinFails, MirrorFile, GitAdd, AppendRun,
                                      FinishRun, Goes
    <3>2. ~ AppendRun
      BY <1>3, <1>t DEF AppendRun, FinishRun, Goes
    <3>3. ~ EndRun
      BY <1>3, <1>t, EndRunEffect DEF FinishRun, Goes
    <3> QED
      BY <1>t, <3>1, <3>2, <3>3, FinMoves
  <2>2. CASE LoadMeta(Fin)
    BY <1>1, <1>t, <2>2, PrefixFacts
  <2>3. CASE Same(Fin) /\ ~ AppendRun
    <3>1. pc[Fin] = "save" /\ loaded'[Fin] = loaded[Fin]
      BY <1>3, <2>3 DEF Same
    <3>2. Prefix(meta, loaded[Fin])
      BY <3>1 DEF MetaInv
    <3>3. CASE MarkReverted
      <4>1. Prefix(meta', loaded[Rev]) /\ Prefix(loaded[Rev], meta)
        BY <3>3, MarkEffect DEF MetaInv, MarkReverted
      <4>2. Prefix(meta', meta)
        BY <1>t, <1>m, <1>l, <4>1, PrefixFacts
      <4> QED
        BY <1>t, <1>m, <1>l, <3>1, <3>2, <4>2, PrefixFacts
    <3> QED
      BY <2>3, <3>1, <3>2, <3>3, MetaMoves
  <2> QED
    BY <2>1, <2>2, <2>3
<1> QED
  BY <1>2, <1>3 DEF MetaInv

\* Every step keeps ExactInv.
LEMMA ExactNext == TypeOK /\ PlaceInv /\ ExactInv /\ [Next]_vars => ExactInv'
<1> SUFFICES ASSUME TypeOK, PlaceInv, ExactInv, [Next]_vars, ~ disturbed'
             PROVE  /\ pc'[Rev] = "apply" => mirror'[At(Rev)'] = content'[At(Rev)']
                    /\ pc'[Rev] = "copy" => \A r \in 1 .. Regions :
                         IF r \in Touched' THEN /\ content'[At(Rev)'][r] = File'.after[r]
                                                /\ mirror'[At(Rev)'][r] = File'.before[r]
                         ELSE mirror'[At(Rev)'][r] = content'[At(Rev)'][r]
  BY DEF ExactInv
<1>t. /\ CallerTypeOK /\ RecordTypeOK /\ Rev \in Callers /\ Fin # Rev
      /\ content \in [Paths -> Content] /\ mirror \in [Paths -> Content]
      /\ pc \in [Callers -> Places]
  BY EditsAssumption DEF TypeOK, CallerTypeOK, FileTypeOK, Callers
<1>1. CASE MirrorFile(Rev)
  <2>1. At(Rev) \in Paths /\ At(Rev)' = At(Rev)
    BY <1>1, AtTyped DEF MirrorFile, Undoing, At
  <2> QED
    BY <1>t, <1>1, <2>1 DEF MirrorFile, Goes, fileVars
<1>2. CASE Apply
  <2>1. At(Rev) \in Paths /\ At(Rev)' = At(Rev) /\ File' = File /\ pc[Rev] = "apply" /\ pc'[Rev] = "copy"
    BY <1>t, <1>2, AtTyped DEF Apply, Undoing, At, File, recordVars, Goes
  <2>2. Touched' = Touched
    BY <2>1 DEF Touched
  <2>3. content' = content /\ disturbed' = disturbed /\ \A r \in Touched : mirror[At(Rev)][r] = File.after[r]
    BY <1>2 DEF Apply, fileVars
  <2>4. mirror[At(Rev)] = content[At(Rev)]
    BY <2>1, <2>3 DEF ExactInv
  <2>5. \A r \in 1 .. Regions : mirror'[At(Rev)][r] = IF r \in Touched THEN File.before[r] ELSE mirror[At(Rev)][r]
    BY <1>t, <1>2, <2>1 DEF Apply
  <2> QED
    BY <2>1, <2>2, <2>3, <2>4, <2>5
<1>3. CASE RevertStart \/ (RevStep /\ ~ MirrorFile(Rev) /\ ~ Apply)
  <2>1. pc'[Rev] \notin {"apply", "copy"}
    BY <1>t, <1>3 DEF RevertStart, RevStep, TakeMutex, TakeFd, Undo, Undone, CopyBack, RevertFails, LoadMeta,
                      MarkReverted, Goes
  <2> QED
    BY <2>1
<1>4. CASE Same(Rev) /\ job' = job /\ ~ RevStep
  <2>1. pc'[Rev] = pc[Rev] /\ At(Rev)' = At(Rev) /\ File' = File
    BY <1>4 DEF Same, At, File
  <2>2. Touched' = Touched
    BY <2>1 DEF Touched
  <2>3. pc[Rev] \in {"apply", "copy"} =>
          ~ disturbed /\ mirror'[At(Rev)] = mirror[At(Rev)] /\ content'[At(Rev)] = content[At(Rev)]
    BY <1>4, RevAlone
  <2> QED
    BY <2>1, <2>2, <2>3 DEF ExactInv
<1> QED
  BY <1>t, <1>1, <1>2, <1>3, <1>4, RevMoves

\* The run's change of file p is on record.
Recorded(p) ==
  \E e \in Range(meta) : e.run = run /\ \E f \in Range(e.files) : f.path = p /\ first[p] = {f.before} /\ last[p] = {f.after}

\* A mark loses no record, but for those the history counts as overwritten.
LEMMA MarkKeepsRecord ==
  ASSUME TypeOK, PlaceInv, MetaInv, MarkReverted, NEW p \in Paths, p \notin spoiled', Recorded(p)
  PROVE  Recorded(p)'
<1>1. /\ Prefix(meta', loaded[Rev]) /\ Prefix(loaded[Rev], meta)
      /\ Len(meta') = Len(loaded[Rev]) /\ DOMAIN meta' = 1 .. Len(loaded[Rev]) /\ Len(loaded[Rev]) \in Nat
  BY MarkEffect DEF MetaInv, MarkReverted
<1>2. Len(meta) \in Nat /\ DOMAIN meta = 1 .. Len(meta)
  BY SeqFacts DEF TypeOK, RecordTypeOK
<1>3. ~ (Len(meta) > Len(loaded[Rev]))
  <2>1. p \notin Overwrites(Rev)
    BY DEF MarkReverted
  <2> QED
    BY <2>1 DEF Overwrites
<1>4. UNCHANGED <<run, first, last>>
  BY DEF MarkReverted, turnVars
<1>5. PICK e \in Range(meta) : e.run = run /\ \E f \in Range(e.files) : f.path = p /\ first[p] = {f.before} /\ last[p] = {f.after}
  BY DEF Recorded
<1>6. PICK i \in DOMAIN meta : meta[i] = e
  BY <1>5 DEF Range
<1>7. i \in 1 .. Len(loaded[Rev]) /\ i \in 1 .. Len(meta')
  BY <1>1, <1>2, <1>3, <1>6
<1>8. meta'[i].run = e.run /\ meta'[i].files = e.files
  <2>1. meta'[i].run = loaded[Rev][i].run /\ meta'[i].files = loaded[Rev][i].files
    BY <1>1, <1>7 DEF Prefix
  <2>2. loaded[Rev][i].run = meta[i].run /\ loaded[Rev][i].files = meta[i].files
    BY <1>1, <1>7 DEF Prefix
  <2> QED
    BY <1>6, <2>1, <2>2
<1>9. meta'[i] \in Range(meta')
  BY <1>1, <1>7 DEF Range
<1> QED
  BY <1>4, <1>5, <1>8, <1>9 DEF Recorded

\* A file a run has changed is on record when the run ends, and stays there until the
\* next one begins.
LEMMA RecordedNext ==
  ASSUME TypeOK, PlaceInv, OneCommits, MetaInv, [Next]_vars, NEW p \in Paths, p \notin spoiled',
         p \notin spoiled => Snapped(p) /\ Compared(p), RunIsRecorded,
         phase' = "idle", first'[p] # {}, first'[p] # last'[p]
  PROVE  Recorded(p)'
<1>t. /\ CallerTypeOK /\ RecordTypeOK /\ Fin \in Callers /\ CallerTypeOK'
      /\ pc \in [Callers -> Places]
      /\ todo \in [Callers -> Seq(Paths)]
  BY CallerType DEF TypeOK, CallerTypeOK, Callers
<1>0. ~ BeginTurn
  BY DEF BeginTurn
<1>1. p \notin spoiled /\ Snapped(p) /\ Compared(p)
  BY <1>0, SpoiledGrows
<1>2. CASE phase = "idle"
  <2>1. RevStep \/ RevertStart \/ UNCHANGED vars \/ \E q \in Paths : UserEdits(q)
    BY <1>0, <1>2, WhoMoves DEF Next, Suspend
  <2>2. first' = first /\ run' = run /\ last' = last
    <3>1. RevStep => first' = first /\ run' = run
      BY DEF RevStep, TakeMutex, TakeFd, MirrorFile, Undo, Apply, CopyBack, RevertFails, LoadMeta, MarkReverted,
             historyVars, turnVars
    <3>2. RevertStart \/ UNCHANGED vars \/ (\E q \in Paths : UserEdits(q)) => first' = first /\ run' = run
      BY DEF RevertStart, UserEdits, vars, historyVars, turnVars
    <3> QED
      BY <1>0, <1>2, <2>1, <3>1, <3>2, LastMoves, WhoMoves
  <2>3. Recorded(p)
    BY <1>1, <1>2, <2>2 DEF RunIsRecorded, Recorded
  <2>4. ~ AppendRun
    BY <1>2, WhoMoves DEF FinStep
  <2>5. CASE meta' = meta
    BY <2>2, <2>3, <2>5 DEF Recorded
  <2> QED
    BY <2>3, <2>4, <2>5, MetaMoves, MarkKeepsRecord
<1>3. CASE phase # "idle"
  <2>1. (EndRun /\ FinishRun) \/ FinStep
    <3>1. EndRun \/ FinStep
      BY <1>0, <1>3, Quiet DEF Suspend
    <3> QED
      BY <3>1, EndRunEffect
  <2>2. first' = first /\ run' = run
    <3>1. EndRun => first' = first /\ run' = run
      BY EndRunEffect DEF historyVars
    <3>2. FinStep => first' = first /\ run' = run
      BY DEF FinStep, FinExists, MirrorFile, GitAdd, FinCommit, FinFails, LoadMeta, AppendRun, historyVars, turnVars
    <3> QED
      BY <2>1, <3>1, <3>2
  <2>3. before[p] = first[p] /\ before[p] # {}
    BY <1>1, <1>3, <2>2 DEF Snapped
  <2>4. CASE EndRun
    <3>1. Files = {}
      BY <2>4, EndRunEffect
    <3> QED
      BY <2>3, <3>1 DEF Files
  <2>5. CASE FinExists \/ FinCommit
    <3>0. phase = "ending" /\ pc[Fin] \in {"exists", "commit"}
      BY <2>5, WhoMoves DEF FinStep, FinExists, FinCommit
    <3>1. PICK x \in Content : /\ Record(x)
                               /\ (\A i \in DOMAIN Tail(todo[Fin]) : Tail(todo[Fin])[i] # p) => before[p] = last'[p] \/ Listed(p)
      BY <1>1, <2>3, <2>5, <3>0, RecordCompares
    <3>2. Len(todo[Fin]) = 1 /\ changes' = << >>
      BY <3>0, <3>1, RecordEffect
    <3>3. \A i \in DOMAIN Tail(todo[Fin]) : FALSE
      <4>1. todo[Fin] # << >>
        BY <3>0 DEF PlaceInv, FinPlace
      <4>2. Tail(todo[Fin]) \in Seq(Paths) /\ Len(Tail(todo[Fin])) = 0
        BY <1>t, <3>2, <4>1, AtFacts
      <4>3. DOMAIN Tail(todo[Fin]) = 1 .. 0
        BY <4>2, SeqFacts
      <4> QED
        BY <4>3
    <3>4. ~ Listed(p)
      BY <3>2 DEF Listed
    <3> QED
      BY <2>2, <2>3, <3>1, <3>3, <3>4
  <2>6. CASE FinFails
    <3>1. Excuses(Fin, Paths) = Paths
      <4>1. phase = "ending"
        BY <2>6, WhoMoves DEF FinStep
      <4>2. CallsOver
        BY <4>1 DEF PlaceInv, TurnInv
      <4>3. \A v \in Callers \ {Fin} : pc[v] # "commit"
        BY <4>2 DEF CallsOver, Callers, PlaceInv, RevPlace, Undoing
      <4>4. GitFails(Fin) /\ ~ IndexLocked(Fin)
        BY <2>6, <4>3 DEF FinFails, IndexLocked
      <4> QED
        BY <4>4 DEF GitFails, Excuses
    <3> QED
      BY <2>6, <3>1 DEF FinFails
  <2>7. CASE AppendRun
    <3>1. PICK e \in Range(meta') : e.run = run /\ e.files = changes
      BY <2>7, AppendEffect
    <3>2. phase = "ending" /\ pc[Fin] = "save" /\ last' = last
      BY <2>7, WhoMoves DEF FinStep, AppendRun, historyVars
    <3>3. todo[Fin] = << >>
      BY <3>2 DEF PlaceInv, FinPlace
    <3>4. Written(p)
      BY <1>1, <2>2, <2>3, <3>2, <3>3 DEF Compared
    <3>5. PICK j \in DOMAIN changes :
            changes[j].path = p /\ before[p] = {changes[j].before} /\ last[p] = {changes[j].after}
      BY <3>4 DEF Written
    <3>6. changes[j] \in Range(e.files)
      BY <3>1 DEF Range
    <3> QED
      BY <2>2, <2>3, <3>1, <3>2, <3>5, <3>6 DEF Recorded
  <2>8. CASE MirrorFile(Fin) \/ GitAdd(Fin) \/ LoadMeta(Fin)
    BY <1>3, <2>8 DEF MirrorFile, GitAdd, LoadMeta, turnVars
  <2> QED
    BY <2>1, <2>4, <2>5, <2>6, <2>7, <2>8 DEF FinStep
<1> QED
  BY <1>2, <1>3

\* Every step keeps RunIsRecorded.
LEMMA RunIsRecordedNext ==
  ASSUME TypeOK, PlaceInv, OneCommits, MetaInv, [Next]_vars,
         \A p \in Paths \ spoiled : Snapped(p) /\ Compared(p), RunIsRecorded
  PROVE  RunIsRecorded'
<1>1. ASSUME phase' = "idle", NEW p \in Paths, p \notin spoiled', first'[p] # {}, first'[p] # last'[p]
      PROVE  Recorded(p)'
  BY <1>1, RecordedNext
<1> QED
  BY <1>1 DEF RunIsRecorded, Recorded

\* The initial states have the types,
LEMMA TypeInit == Init => TypeOK
<1> SUFFICES ASSUME Init PROVE TypeOK
  OBVIOUS
<1>e. MaxTurns \in Nat \ {0} /\ MaxUser \in Nat /\ Regions \in Nat \ {0} /\ User \in Nat /\ 0 \in 0 .. User
  BY EditsAssumption DEF User
<1>s. << >> \in Seq(Paths) /\ << >> \in Seq(Change) /\ << >> \in Seq(RunEntry)
  OBVIOUS
<1>n. Nothing \in [Paths -> SUBSET Content] /\ \A p \in Paths : AtMostOne(Nothing[p])
  BY DEF Nothing, AtMostOne
<1>1. FileTypeOK
  <2>1. Absent \in Content /\ [r \in 1 .. Regions |-> 0] \in Content
    BY <1>e DEF Content
  <2> QED
    BY <1>e, <2>1 DEF Init, FileTypeOK
<1>2. TurnTypeOK
  BY <1>e, <1>n DEF Init, TurnTypeOK
<1>3. CallerTypeOK
  BY <1>s DEF Init, CallerTypeOK, Places
<1>4. RecordTypeOK
  BY <1>s DEF Init, RecordTypeOK
<1>5. HistoryTypeOK
  BY <1>n DEF Init, HistoryTypeOK
<1> QED
  BY <1>1, <1>2, <1>3, <1>4, <1>5 DEF TypeOK

\* and the invariant.
LEMMA InvInit == Init => IInv
<1> SUFFICES ASSUME Init PROVE IInv
  OBVIOUS
<1>c. /\ Calls \subseteq Callers /\ Fin \in Callers /\ Rev \in Callers
      /\ \A w \in Callers : pc[w] = "idle" /\ todo[w] = << >> /\ held[w] = {} /\ fd[w] = {}
      /\ \A c \in Calls : names[c] = << >>
  BY DEF Init, Callers
<1>n. \A p \in Paths : Nothing[p] = {}
  BY DEF Nothing
<1>p. \A c \in Calls : Count(c) = 0 /\ Past(c) = {} /\ Through(c) = {}
  <2> SUFFICES ASSUME NEW c \in Calls PROVE Count(c) = 0 /\ Past(c) = {} /\ Through(c) = {}
    OBVIOUS
  <2>1. Count(c) = 0 /\ pc[c] = "idle"
    BY <1>c DEF Count
  <2>2. Past(c) = {}
    BY <2>1 DEF Past
  <2> QED
    BY <2>1, <2>2 DEF Through, Snapping
<1>1. PlaceInv
  <2>1. \A c \in Calls : CallPlace(c)
    <3>1. lax = {} /\ Len(<< >>) = 0
      BY DEF Init
    <3> QED
      BY <1>c, <3>1 DEF CallPlace, Snapping
  <2>2. FinPlace
    BY <1>c DEF FinPlace
  <2>3. RevPlace
    BY <1>c DEF RevPlace, Undoing
  <2>4. TurnInv
    BY <1>c DEF Init, TurnInv, CallsOver
  <2> QED
    BY <2>1, <2>2, <2>3, <2>4 DEF PlaceInv
<1>2. LockInv
  <2>1. pc[Rev] \notin Undoing
    BY <1>c DEF Undoing
  <2> QED
    BY <1>c, <1>p, <2>1 DEF LockInv, FdApart
<1>3. OneCommits
  BY <1>c DEF OneCommits
<1>4. \A p \in Paths : Snapped(p) /\ Compared(p)
  <2>1. before = Nothing /\ first = Nothing /\ phase = "idle"
    BY DEF Init
  <2> QED
    BY <1>c, <1>n, <1>p, <2>1 DEF Snapped, Compared, IsAt
<1>5. MetaInv /\ ExactInv
  BY <1>c DEF MetaInv, ExactInv
<1>6. RunIsRecorded
  <2>1. first = Nothing
    BY DEF Init
  <2> QED
    BY <1>n, <2>1 DEF RunIsRecorded
<1> QED
  BY <1>1, <1>2, <1>3, <1>4, <1>5, <1>6, TypeInit DEF IInv

\* Every step keeps the invariant.
LEMMA InvNext == IInv /\ [Next]_vars => IInv'
<1> SUFFICES ASSUME IInv, [Next]_vars PROVE IInv'
  OBVIOUS
<1>0. /\ TypeOK /\ PlaceInv /\ LockInv /\ OneCommits /\ MetaInv /\ ExactInv /\ RunIsRecorded
      /\ \A p \in Paths \ spoiled : Snapped(p) /\ Compared(p)
  BY DEF IInv
<1>1. TypeOK' /\ PlaceInv' /\ LockInv' /\ OneCommits' /\ MetaInv' /\ ExactInv'
  BY <1>0, TypeNext, PlaceNext, LockNext, OneCommitsNext, MetaNext, ExactNext
<1>2. ASSUME NEW p \in Paths, p \notin spoiled' PROVE Snapped(p)' /\ Compared(p)'
  BY <1>0, <1>2, SnappedNext, ComparedNext
<1>3. RunIsRecorded'
  BY <1>0, RunIsRecordedNext
<1> QED
  BY <1>1, <1>2, <1>3 DEF IInv

\* The invariant holds throughout: of each tool call, of finalize_run and of
\* revert_run, where it is, what it has locked and what it has copied agree with the
\* user's files.
THEOREM EditsInvariant == Spec => []IInv
BY InvInit, InvNext, PTL DEF Spec

\* The files, the locks and the entries of EditsWorktree keep their types in every
\* behaviour.
THEOREM TypeCorrect == Spec => []TypeOK
<1>1. IInv => TypeOK
  BY DEF IInv
<1> QED
  BY <1>1, EditsInvariant, PTL

\* Every change a run makes to a file is in .hebbian-edits.json when finalize_run is
\* over, from the content before the first change to the one at the end, outside the
\* windows listed at RunIsRecorded, whatever the calls, the user and a revert do side
\* by side.
THEOREM RunsAreRecorded == Spec => []RunIsRecorded
<1>1. IInv => RunIsRecorded
  BY DEF IInv
<1> QED
  BY <1>1, EditsInvariant, PTL

\* lock_file keeps its promise: from its snapshot to its end no call, and no revert,
\* shares a file with another, unless a lock timed out.
THEOREM CallsWorkAlone == Spec => []AloneWithFile
<1>1. IInv => AloneWithFile
  <2> SUFFICES ASSUME IInv, NEW p \in Paths, NEW v \in Calls \cup {Rev}, NEW w \in Calls \cup {Rev},
                      Working(v, p), Working(w, p)
               PROVE  v = w
    BY DEF AloneWithFile
  <2>1. ASSUME NEW u \in Calls \cup {Rev}, Working(u, p) PROVE p \in fd[u]
    <3>1. CASE u = Rev
      BY <2>1, <3>1 DEF Working, IsAt, IInv, LockInv, Undoing
    <3>2. CASE u # Rev
      <4>1. u \in Calls /\ pc[u] = "exec" /\ p \in Range(names[u]) /\ << u, p >> \notin lax
        BY <2>1, <3>2 DEF Working
      <4>2. CallerTypeOK /\ CallPlace(u)
        BY <4>1 DEF IInv, TypeOK, PlaceInv
      <4>3. p \in Through(u)
        BY <4>1, <4>2, CountFacts DEF CallPlace, Through
      <4> QED
        BY <4>1, <4>3 DEF IInv, LockInv
    <3> QED
      BY <3>1, <3>2
  <2> QED
    BY <2>1 DEF IInv, LockInv, FdApart, Callers
<1> QED
  BY <1>1, EditsInvariant, PTL

\* A mutex of file_locks is held only by a call that is on its way to giving it back,
\* and two calls wait for each other only if they name the same two paths in opposite
\* orders.
THEOREM LocksAreGivenBack == Spec => []LocksComeBack
<1>1. IInv => LocksComeBack
  <2> SUFFICES ASSUME IInv, NEW v \in Calls \cup {Rev}, NEW w \in Calls \cup {Rev}, Waits(v, w)
               PROVE  pc[w] \notin {"idle", "done"} /\ (Waits(w, v) => Opposite(v, w))
    BY DEF LocksComeBack
  <2>0. TypeOK /\ PlaceInv /\ LockInv /\ CallerTypeOK
    BY DEF IInv, TypeOK
  <2>1. v \in Calls /\ w \in Calls
    BY EditsAssumption DEF Waits, SameObject
  <2>2. pc[w] \notin {"idle", "done"}
    BY <2>0, <2>1 DEF Waits, PlaceInv, CallPlace
  <2>3. ASSUME NEW c \in Calls, pc[c] = "mutex", NEW p \in held[c]
        PROVE  At(c) \in Paths /\ p \in Paths /\ Before(c, p, At(c))
    <3>1. p \in Past(c)
      BY <2>0, <2>3 DEF LockInv, Snapping
    <3>2. CallPlace(c) /\ todo[c] # << >>
      BY <2>0, <2>3 DEF PlaceInv, CallPlace
    <3>3. /\ Count(c) \in Nat /\ Len(todo[c]) \in Nat /\ Len(todo[c]) > 0 /\ Len(names[c]) = Count(c) + Len(todo[c])
          /\ At(c) = names[c][Count(c) + 1] /\ Past(c) \subseteq Paths
      BY <2>0, <3>2, CountFacts
    <3>4. DOMAIN names[c] = 1 .. Len(names[c])
      BY <2>0, SeqFacts DEF CallerTypeOK
    <3>5. PICK i \in 1 .. Count(c) : names[c][i] = p
      BY <3>1 DEF Past
    <3>6. i \in DOMAIN names[c] /\ Count(c) + 1 \in DOMAIN names[c] /\ i < Count(c) + 1
      BY <3>3, <3>4
    <3> QED
      BY <2>0, <2>3, <3>1, <3>3, <3>5, <3>6, AtTyped DEF Before
  <2>4. ASSUME Waits(w, v) PROVE Opposite(v, w)
    <3>1. pc[v] = "mutex" /\ pc[w] = "mutex" /\ At(v) \in held[w] /\ At(w) \in held[v]
      BY <2>4 DEF Waits
    <3>2. /\ At(v) \in Paths /\ At(w) \in Paths
          /\ Before(v, At(w), At(v)) /\ Before(w, At(v), At(w))
      BY <2>1, <2>3, <3>1
    <3> QED
      BY <3>2 DEF Opposite
  <2> QED
    BY <2>2, <2>4
<1> QED
  BY <1>1, EditsInvariant, PTL

\* The step with which revert_run copies a file back changes the regions the run had
\* changed, to what they were before it, and no others, unless somebody wrote the file
\* or its copy in between.
THEOREM RevertsAreExact == Spec => RevertIsExact
<1>1. ASSUME IInv, [Next]_vars, pc[Rev] = "copy", pc'[Rev] # "copy", ~ disturbed, NEW r \in 1 .. Regions
      PROVE  IF r \in Touched THEN content[At(Rev)][r] = File.after[r] /\ content'[At(Rev)][r] = File.before[r]
             ELSE content'[At(Rev)][r] = content[At(Rev)][r]
  <2>1. TypeOK /\ PlaceInv /\ ExactInv /\ CallerTypeOK /\ RecordTypeOK
    BY <1>1 DEF IInv, TypeOK
  <2>2. CopyBack
    <3>1. RevertStart \/ RevStep
      BY <1>1, <2>1, RevMoves DEF Same
    <3> QED
      BY <1>1, <3>1 DEF RevertStart, RevStep, TakeMutex, TakeFd, MirrorFile, Undo, Apply, RevertFails, TimesOut,
                        LoadMeta, MarkReverted
  <2>3. At(Rev) \in Paths
    BY <1>1, <2>1, AtTyped DEF Undoing
  <2>4. content'[At(Rev)] = mirror[At(Rev)]
    BY <2>1, <2>2, <2>3 DEF CopyBack, TypeOK, FileTypeOK
  <2> QED
    BY <1>1, <2>1, <2>4 DEF ExactInv
<1>2. IInv /\ [Next]_vars =>
        [ (pc[Rev] = "copy" /\ pc'[Rev] # "copy" /\ ~ disturbed) =>
            \A r \in 1 .. Regions :
              IF r \in Touched THEN content[At(Rev)][r] = File.after[r] /\ content'[At(Rev)][r] = File.before[r]
              ELSE content'[At(Rev)][r] = content[At(Rev)][r] ]_vars
  BY <1>1
<1> QED
  BY <1>2, EditsInvariant, PTL DEF Spec, RevertIsExact
=============================================================================
