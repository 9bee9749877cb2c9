--------------------------- MODULE PartialRecovery ---------------------------
(***************************************************************************)
(* How the streamed output of a run reaches session.jsonl, and how it is   *)
(* recovered after a crash: RunPersister and its partial actor             *)
(* (crates/agent-core/src/run_persister.rs), the .partial.jsonl sidecar    *)
(* and its .live sentinel (storage/sessions_dir.rs), and the processes     *)
(* that open the session and fold what a dead run has left behind          *)
(* (recover_and_append_interrupted_partials, storage/sessions.rs).         *)
(*                                                                         *)
(* The fragments of a run are numbered in the order they are streamed.     *)
(* The persister holds flushed+1..emitted in memory; its actor has written *)
(* up to wrote.  The actor's channel is first in, first out and nothing is *)
(* streamed while the persister waits for an acknowledgement, so what is   *)
(* in the channel are the fragments wrote+1..emitted and then at most one  *)
(* command ctl.  A lock is held on an open file, not on a name: .live can  *)
(* be unlinked and created again as another inode.                         *)
(*                                                                         *)
(* session.jsonl is the set of fragments in it; that appends and rewrites  *)
(* of the file itself can collide is not modelled here.                    *)
(***************************************************************************)
EXTENDS Integers

CONSTANTS
  MaxRuns,     \* bound: runs of the session, each with its own message id
  MaxFrag,     \* bound: fragments streamed by one run
  Recoverers,  \* callers of load_with_partial_recovery
  Turn,        \* the one that run_turn calls before it starts a run
  Inodes,      \* inodes for .live files
  NoInode      \* no such file, or no lock held

Runs == 1..MaxRuns
Frags == 1..MaxFrag

ASSUME BoundsAssumption == MaxRuns \in Nat /\ MaxFrag \in Nat
ASSUME TurnAssumption == Turn \in Recoverers
ASSUME InodeAssumption == NoInode \notin Inodes

VARIABLES
  wpc,       \* per run: the persister and its actor, see TypeOK
  emitted,   \* per run: fragments streamed so far
  flushed,   \* per run: fragments the persister has handed to append_message
  wrote,     \* per run: fragments the actor has taken out of its channel
  ctl,       \* per run: the command behind them
  partial,   \* per run: the fragments in <msg_id>.partial.jsonl; empty: no file
  livePath,  \* per run: the inode that <msg_id>.partial.jsonl.live names
  held,      \* per run: the inode its actor has locked
  landed,    \* per run: its fragments in session.jsonl
  pc,        \* per recoverer: where it is
  todo,      \* per recoverer: the sidecars of its scan still to be looked at
  tgt,       \* per recoverer: the run whose sidecar it looks at
  opened,    \* per recoverer: the .live file it has open
  hold,      \* per recoverer: the inode it has locked
  snap,      \* per recoverer: what it read from the sidecar
  passed,    \* run_turn, holding the run guard, is past the recovery
  twice,     \* history: fragments written to session.jsonl more than once
  stored,    \* history: fragments that have reached the disk
  torn,      \* history: runs for which one of two writes was made and the other not
  broken     \* history: runs whose append_message failed

writerVars == <<wpc, emitted, flushed, wrote, ctl, held>>
diskVars == <<partial, livePath, landed>>
recVars == <<pc, todo, tgt, opened, hold, snap>>
historyVars == <<twice, stored, torn, broken>>
vars == <<writerVars, diskVars, recVars, passed, historyVars>>

\* "run" streams, "flushing" and "finishing" wait for the actor, "dropped" is a
\* persister that went away without finish, "done" one that has finished, "dead"
\* one whose actor is gone as well.
WriterStates == {"none", "run", "flushing", "finishing", "dropped", "done", "dead"}

RecStates == {"idle", "scan", "probe", "probed", "read", "open", "lock", "check",
              "fold", "rm", "unlink", "release"}

TypeOK ==
  /\ wpc \in [Runs -> WriterStates]
  /\ emitted \in [Runs -> 0..MaxFrag]
  /\ flushed \in [Runs -> 0..MaxFrag]
  /\ wrote \in [Runs -> 0..MaxFrag]
  /\ ctl \in [Runs -> {"none", "reset", "delete", "unlink"}]
  /\ partial \in [Runs -> SUBSET Frags]
  /\ livePath \in [Runs -> Inodes \cup {NoInode}]
  /\ held \in [Runs -> Inodes \cup {NoInode}]
  /\ landed \in [Runs -> SUBSET Frags]
  /\ pc \in [Recoverers -> RecStates]
  /\ todo \in [Recoverers -> SUBSET Runs]
  /\ tgt \in [Recoverers -> Runs \cup {0}]
  /\ opened \in [Recoverers -> Inodes \cup {NoInode}]
  /\ hold \in [Recoverers -> Inodes \cup {NoInode}]
  /\ snap \in [Recoverers -> SUBSET Frags]
  /\ passed \in BOOLEAN
  /\ twice \in [Runs -> SUBSET Frags]
  /\ stored \in [Runs -> SUBSET Frags]
  /\ torn \in SUBSET Runs
  /\ broken \in SUBSET Runs

Init ==
  /\ wpc = [r \in Runs |-> "none"]
  /\ emitted = [r \in Runs |-> 0]
  /\ flushed = [r \in Runs |-> 0]
  /\ wrote = [r \in Runs |-> 0]
  /\ ctl = [r \in Runs |-> "none"]
  /\ partial = [r \in Runs |-> {}]
  /\ livePath = [r \in Runs |-> NoInode]
  /\ held = [r \in Runs |-> NoInode]
  /\ landed = [r \in Runs |-> {}]
  /\ pc = [q \in Recoverers |-> "idle"]
  /\ todo = [q \in Recoverers |-> {}]
  /\ tgt = [q \in Recoverers |-> 0]
  /\ opened = [q \in Recoverers |-> NoInode]
  /\ hold = [q \in Recoverers |-> NoInode]
  /\ snap = [q \in Recoverers |-> {}]
  /\ passed = FALSE
  /\ twice = [r \in Runs |-> {}]
  /\ stored = [r \in Runs |-> {}]
  /\ torn = {}
  /\ broken = {}

-----------------------------------------------------------------------------
(* Files and locks *)

\* Mutant: the try-lock always succeeds.
FreeAlways(i) == TRUE

\* try_lock_exclusive on an open file succeeds.
Free(i) == (\A r \in Runs : held[r] # i) /\ (\A q \in Recoverers : hold[q] # i)

\* The inode of a newly created file: one that nobody names or has open.
Fresh(i) ==
  /\ i \in Inodes
  /\ \A r \in Runs : livePath[r] # i /\ held[r] # i
  /\ \A q \in Recoverers : opened[q] # i /\ hold[q] # i

\* A run is in progress: its process holds the SessionRunGuard.
Busy == \E r \in Runs : wpc[r] \in {"run", "flushing", "finishing"}

\* Fragments fs of run r are appended to session.jsonl.
Land(r, fs) ==
  /\ landed' = [landed EXCEPT ![r] = @ \cup fs]
  /\ twice' = [twice EXCEPT ![r] = @ \cup (landed[r] \cap fs)]
  /\ stored' = [stored EXCEPT ![r] = @ \cup fs]

-----------------------------------------------------------------------------
(* The run: persister and partial actor *)

\* run_turn starts the next run: RunPersister::new spawns the actor, which takes
\* the live lock before it writes anything.
Start(r) ==
  /\ wpc[r] = "none"
  /\ \A p \in Runs : p < r => wpc[p] # "none"
  /\ ~Busy
  /\ passed
  /\ passed' = FALSE
  /\ wpc' = [wpc EXCEPT ![r] = "run"]
  /\ \E i \in Inodes : /\ Fresh(i)
                       /\ livePath' = [livePath EXCEPT ![r] = i]
                       /\ held' = [held EXCEPT ![r] = i]
  /\ UNCHANGED <<emitted, flushed, wrote, ctl, partial, landed, recVars, historyVars>>

\* observe: a fragment is accumulated and sent to the actor.
Observe(r) ==
  /\ wpc[r] = "run"
  /\ emitted[r] < MaxFrag
  /\ emitted' = [emitted EXCEPT ![r] = @ + 1]
  /\ UNCHANGED <<wpc, flushed, wrote, ctl, held, diskVars, recVars, passed, historyVars>>

\* PartialCmd::Append: the actor writes the next fragment to the sidecar, or fails
\* to and goes on.
ActorAppend(r) ==
  /\ wpc[r] \in {"run", "flushing", "finishing", "dropped"}
  /\ wrote[r] < emitted[r]
  /\ wrote' = [wrote EXCEPT ![r] = @ + 1]
  /\ \/ /\ partial' = [partial EXCEPT ![r] = @ \cup {wrote[r] + 1}]
        /\ stored' = [stored EXCEPT ![r] = @ \cup {wrote[r] + 1}]
     \/ UNCHANGED <<partial, stored>>
  /\ UNCHANGED <<wpc, emitted, flushed, ctl, held, livePath, landed, recVars, passed,
                 twice, torn, broken>>

\* Mutant: finish does not write the last segment.
FlushWithoutTail(r, into) ==
  /\ wpc[r] = "run"
  /\ Land(r, IF into = "finishing" THEN {} ELSE (flushed[r] + 1)..emitted[r])
  /\ flushed' = [flushed EXCEPT ![r] = emitted[r]]
  /\ ctl' = [ctl EXCEPT ![r] = "reset"]
  /\ wpc' = [wpc EXCEPT ![r] = into]
  /\ UNCHANGED <<emitted, wrote, held, partial, livePath, recVars, passed, torn, broken>>

\* flush_locked: the segment goes to session.jsonl and Reset to the actor, whose
\* answer flush_segment (into "flushing") or finish (into "finishing") waits for.
Flush(r, into) ==
  /\ wpc[r] = "run"
  /\ Land(r, (flushed[r] + 1)..emitted[r])
  /\ flushed' = [flushed EXCEPT ![r] = emitted[r]]
  /\ ctl' = [ctl EXCEPT ![r] = "reset"]
  /\ wpc' = [wpc EXCEPT ![r] = into]
  /\ UNCHANGED <<emitted, wrote, held, partial, livePath, recVars, passed, torn, broken>>

\* append_message fails: it is logged, and Reset is sent all the same.
FlushFails(r, into) ==
  /\ wpc[r] = "run"
  /\ flushed[r] < emitted[r]
  /\ broken' = broken \cup {r}
  /\ flushed' = [flushed EXCEPT ![r] = emitted[r]]
  /\ ctl' = [ctl EXCEPT ![r] = "reset"]
  /\ wpc' = [wpc EXCEPT ![r] = into]
  /\ UNCHANGED <<emitted, wrote, held, diskVars, recVars, passed, twice, stored, torn>>

\* Mutant: the acknowledgement is sent before the sidecar is cleared.
ActorResetLeaves(r) ==
  /\ ctl[r] = "reset"
  /\ wpc[r] \in {"flushing", "finishing"}
  /\ wrote[r] = emitted[r]
  /\ wpc' = [wpc EXCEPT ![r] = IF @ = "flushing" THEN "run" ELSE @]
  /\ ctl' = [ctl EXCEPT ![r] = IF wpc[r] = "flushing" THEN "none" ELSE "delete"]
  /\ UNCHANGED <<emitted, flushed, wrote, held, diskVars, recVars, passed, historyVars>>

\* PartialCmd::Reset: behind all fragments of the segment the sidecar is removed
\* and .live is kept; then the acknowledgement.
ActorReset(r) ==
  /\ ctl[r] = "reset"
  /\ wpc[r] \in {"flushing", "finishing"}
  /\ wrote[r] = emitted[r]
  /\ partial' = [partial EXCEPT ![r] = {}]
  /\ wpc' = [wpc EXCEPT ![r] = IF @ = "flushing" THEN "run" ELSE @]
  /\ ctl' = [ctl EXCEPT ![r] = IF wpc[r] = "flushing" THEN "none" ELSE "delete"]
  /\ UNCHANGED <<emitted, flushed, wrote, held, livePath, landed, recVars, passed, historyVars>>

\* PartialCmd::Delete: delete_partial removes the sidecar first,
ActorDelete(r) ==
  /\ ctl[r] = "delete"
  /\ wpc[r] = "finishing"
  /\ partial' = [partial EXCEPT ![r] = {}]
  /\ ctl' = [ctl EXCEPT ![r] = "unlink"]
  /\ UNCHANGED <<wpc, emitted, flushed, wrote, held, livePath, landed, recVars, passed, historyVars>>

\* and then the sentinel; finish returns.
ActorUnlink(r) ==
  /\ ctl[r] = "unlink"
  /\ wpc[r] = "finishing"
  /\ livePath' = [livePath EXCEPT ![r] = NoInode]
  /\ ctl' = [ctl EXCEPT ![r] = "none"]
  /\ wpc' = [wpc EXCEPT ![r] = "done"]
  /\ UNCHANGED <<emitted, flushed, wrote, held, partial, landed, recVars, passed, historyVars>>

\* run_agent returns early (a cancelled compaction): the persister is dropped and
\* the actor works off what is in its channel.
Drop(r) ==
  /\ wpc[r] = "run"
  /\ wpc' = [wpc EXCEPT ![r] = "dropped"]
  /\ UNCHANGED <<emitted, flushed, wrote, ctl, held, diskVars, recVars, passed, historyVars>>

\* Persister and actor are gone, and their memory and their lock with them.
Gone(r) ==
  /\ wpc' = [wpc EXCEPT ![r] = "dead"]
  /\ held' = [held EXCEPT ![r] = NoInode]
  /\ emitted' = [emitted EXCEPT ![r] = 0]
  /\ flushed' = [flushed EXCEPT ![r] = 0]
  /\ wrote' = [wrote EXCEPT ![r] = 0]
  /\ ctl' = [ctl EXCEPT ![r] = "none"]

\* The channel is closed and empty: the actor ends.
ActorExit(r) ==
  /\ wpc[r] \in {"dropped", "done"}
  /\ wrote[r] = emitted[r]
  /\ Gone(r)
  /\ UNCHANGED <<diskVars, recVars, passed, historyVars>>

\* The process of the run dies; the system releases its locks.
Crash(r) ==
  /\ wpc[r] \notin {"none", "dead"}
  /\ Gone(r)
  /\ torn' = IF partial[r] \cap landed[r] # {} THEN torn \cup {r} ELSE torn
  /\ UNCHANGED <<diskVars, recVars, passed, twice, stored,
                 broken>>

Writer(r) ==
  \/ Start(r) \/ Observe(r) \/ ActorAppend(r)
  \/ \E into \in {"flushing", "finishing"} : Flush(r, into) \/ FlushFails(r, into)
  \/ ActorReset(r) \/ ActorDelete(r) \/ ActorUnlink(r)
  \/ Drop(r) \/ ActorExit(r) \/ Crash(r)

-----------------------------------------------------------------------------
(* Recovery *)

\* Recoverer q lets go of the sidecar it looks at, and of its lock.
LetGo(q, where) ==
  /\ pc' = [pc EXCEPT ![q] = where]
  /\ tgt' = [tgt EXCEPT ![q] = 0]
  /\ snap' = [snap EXCEPT ![q] = {}]
  /\ opened' = [opened EXCEPT ![q] = NoInode]
  /\ hold' = [hold EXCEPT ![q] = NoInode]

\* The directory is listed.  run_turn does so with the run guard in hand, which
\* it keeps to the end of its run.  All sidecars are probed and read before the
\* first is folded; here each is taken to its end before the next, which is the
\* same, for the steps on different sidecars do not depend on each other.
Scan(q) ==
  /\ pc[q] = "idle"
  /\ q = Turn => ~Busy /\ ~passed
  /\ pc' = [pc EXCEPT ![q] = "scan"]
  /\ todo' = [todo EXCEPT ![q] = {r \in Runs : partial[r] # {}}]
  /\ UNCHANGED <<writerVars, diskVars, tgt, opened, hold, snap, passed, historyVars>>

\* load_with_partial_recovery returns; run_turn goes on to start its run.
Returns(q) == passed' = (passed \/ q = Turn)

ScanDone(q) ==
  /\ pc[q] = "scan"
  /\ todo[q] = {}
  /\ pc' = [pc EXCEPT ![q] = "idle"]
  /\ Returns(q)
  /\ UNCHANGED <<writerVars, diskVars, todo, tgt, opened, hold, snap, historyVars>>

\* The sentinel of run r is opened, and created if there is none.
OpenLive(q, r) ==
  \/ /\ livePath[r] # NoInode
     /\ opened' = [opened EXCEPT ![q] = livePath[r]]
     /\ UNCHANGED livePath
  \/ /\ livePath[r] = NoInode
     /\ \E i \in Inodes : /\ Fresh(i)
                          /\ livePath' = [livePath EXCEPT ![r] = i]
                          /\ opened' = [opened EXCEPT ![q] = i]

\* partial_writer_alive: open the sentinel,
Look(q, r) ==
  /\ pc[q] = "scan"
  /\ r \in todo[q]
  /\ todo' = [todo EXCEPT ![q] = @ \ {r}]
  /\ tgt' = [tgt EXCEPT ![q] = r]
  /\ OpenLive(q, r)
  /\ pc' = [pc EXCEPT ![q] = "probe"]
  /\ UNCHANGED <<writerVars, partial, landed, hold, snap, passed, historyVars>>

\* try to lock it: if that fails the run is alive and its sidecar is left alone;
Probe(q) ==
  /\ pc[q] = "probe"
  /\ \/ /\ Free(opened[q])
        /\ hold' = [hold EXCEPT ![q] = opened[q]]
        /\ pc' = [pc EXCEPT ![q] = "probed"]
        /\ UNCHANGED <<tgt, snap, opened>>
     \/ ~Free(opened[q]) /\ LetGo(q, "scan")
  /\ UNCHANGED <<writerVars, diskVars, todo, passed, historyVars>>

\* and unlock it again.  (append_live_partials, after the load, probes once more and
\* only reads: to the others that is a recoverer that stops here.)
Unprobe(q) ==
  /\ pc[q] = "probed"
  /\ hold' = [hold EXCEPT ![q] = NoInode]
  /\ opened' = [opened EXCEPT ![q] = NoInode]
  /\ pc' = [pc EXCEPT ![q] = "read"]
  /\ UNCHANGED <<writerVars, diskVars, todo, tgt, snap, passed, historyVars>>

\* The sidecar is read, if it is still there.
ReadPartial(q) ==
  /\ pc[q] = "read"
  /\ \/ /\ partial[tgt[q]] # {}
        /\ snap' = [snap EXCEPT ![q] = partial[tgt[q]]]
        /\ pc' = [pc EXCEPT ![q] = "open"]
        /\ UNCHANGED <<tgt, opened, hold>>
     \/ partial[tgt[q]] = {} /\ LetGo(q, "scan")
  /\ UNCHANGED <<writerVars, diskVars, todo, passed, historyVars>>

\* PartialLiveGuard::try_acquire: open,
OpenAgain(q) ==
  /\ pc[q] = "open"
  /\ OpenLive(q, tgt[q])
  /\ pc' = [pc EXCEPT ![q] = "lock"]
  /\ UNCHANGED <<writerVars, partial, landed, todo, tgt, hold, snap, passed, historyVars>>

\* lock, or leave the sidecar to whoever has it.
TryAcquire(q) ==
  /\ pc[q] = "lock"
  /\ \/ /\ Free(opened[q])
        /\ hold' = [hold EXCEPT ![q] = opened[q]]
        /\ pc' = [pc EXCEPT ![q] = "check"]
        /\ UNCHANGED <<tgt, snap, opened>>
     \/ ~Free(opened[q]) /\ LetGo(q, "scan")
  /\ UNCHANGED <<writerVars, diskVars, todo, passed, historyVars>>

\* Mutant: what was read before the lock was taken is folded without another look.
RecheckSkipped(q) ==
  /\ pc[q] = "check"
  /\ pc' = [pc EXCEPT ![q] = "fold"]
  /\ UNCHANGED <<writerVars, diskVars, todo, tgt, snap, opened, hold, passed, historyVars>>

\* With the lock in hand: is the sidecar still there?
Recheck(q) ==
  /\ pc[q] = "check"
  /\ \/ /\ partial[tgt[q]] # {}
        /\ pc' = [pc EXCEPT ![q] = "fold"]
        /\ UNCHANGED <<tgt, snap, opened, hold>>
     \/ partial[tgt[q]] = {} /\ LetGo(q, "scan")
  /\ UNCHANGED <<writerVars, diskVars, todo, passed, historyVars>>

\* What was read is appended as an assistant message, with an Interrupted marker.
Fold(q) ==
  /\ pc[q] = "fold"
  /\ Land(tgt[q], snap[q])
  /\ pc' = [pc EXCEPT ![q] = "rm"]
  /\ UNCHANGED <<writerVars, partial, livePath, todo, tgt, opened, hold, snap, passed, torn, broken>>

\* The first append fails, or the second with the first already made: the error
\* is returned, the sidecar stays, and the load goes on without it.
FoldFails(q) ==
  /\ pc[q] = "fold"
  /\ \/ UNCHANGED <<landed, twice, stored, torn>>
     \/ Land(tgt[q], snap[q]) /\ torn' = torn \cup {tgt[q]}
  /\ LetGo(q, "idle")
  /\ todo' = [todo EXCEPT ![q] = {}]
  /\ Returns(q)
  /\ UNCHANGED <<writerVars, partial, livePath, broken>>

\* delete_partial removes the sidecar first,
Remove(q) ==
  /\ pc[q] = "rm"
  /\ partial' = [partial EXCEPT ![tgt[q]] = {}]
  /\ pc' = [pc EXCEPT ![q] = "unlink"]
  /\ UNCHANGED <<writerVars, livePath, landed, todo, tgt, opened, hold, snap, passed, historyVars>>

\* and then the sentinel.
Unlink(q) ==
  /\ pc[q] = "unlink"
  /\ livePath' = [livePath EXCEPT ![tgt[q]] = NoInode]
  /\ pc' = [pc EXCEPT ![q] = "release"]
  /\ UNCHANGED <<writerVars, partial, landed, todo, tgt, opened, hold, snap, passed, historyVars>>

\* The guard is dropped.
Release(q) ==
  /\ pc[q] = "release"
  /\ LetGo(q, "scan")
  /\ UNCHANGED <<writerVars, diskVars, todo, passed, historyVars>>

\* The recovering process dies; the system releases its locks.
CrashRecoverer(q) ==
  /\ pc[q] # "idle"
  /\ LetGo(q, "idle")
  /\ todo' = [todo EXCEPT ![q] = {}]
  /\ torn' = IF pc[q] = "rm" THEN torn \cup {tgt[q]} ELSE torn
  /\ UNCHANGED <<writerVars, diskVars, passed, twice, stored, broken>>

Recover(q) ==
  \/ Scan(q) \/ ScanDone(q) \/ (\E r \in Runs : Look(q, r))
  \/ Probe(q) \/ Unprobe(q) \/ ReadPartial(q)
  \/ OpenAgain(q) \/ TryAcquire(q) \/ Recheck(q)
  \/ Fold(q) \/ FoldFails(q) \/ Remove(q) \/ Unlink(q) \/ Release(q)
  \/ CrashRecoverer(q)

Next == (\E r \in Runs : Writer(r)) \/ (\E q \in Recoverers : Recover(q))

Spec == Init /\ [][Next]_vars
-----------------------------------------------------------------------------
(* Properties *)

\* A sidecar is folded only when its run is gone: neither a stale listing, nor a
\* sentinel unlinked and created again, nor another recoverer that holds the lock
\* for a moment makes a live run look interrupted (partial_writer_alive,
\* PartialLiveGuard::try_acquire).
LiveNotFolded == \A q \in Recoverers : pc[q] \in {"fold", "rm"} => wpc[tgt[q]] = "dead"

\* However many processes open the session at once, streamed content gets into
\* session.jsonl a second time only if a crash or a failed write has separated
\* an append from the removal of the sidecar it came from.
TwiceOnlyIfTorn == \A r \in Runs : twice[r] # {} => r \in torn

\* What has once reached the disk stays there, in the sidecar or in session.jsonl,
\* across flushes, crashes and recoveries; the exception is a run whose
\* append_message failed.
StoredSurvives ==
  \A r \in Runs : r \notin broken => stored[r] \subseteq landed[r] \cup partial[r]

\* When flush_segment returns, the sidecar holds nothing that is in session.jsonl,
\* and when finish returns it is gone (the acknowledgements of the actor).
AckMeansClean ==
  \A r \in Runs : /\ wpc[r] = "run" => partial[r] \cap landed[r] = {}
                  /\ wpc[r] = "done" => partial[r] = {}
=============================================================================
