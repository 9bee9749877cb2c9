# TLA+ models of hebbian

hebbian is an agent framework written in Rust. A *session* is a conversation with
an agent; its history is a file, `session.jsonl`, and what happens in it is
broadcast as a stream of events to *surfaces* (desktop, web, command line, chat
channels). This directory holds TLA+ models of the parts in which several tasks,
processes or files have to agree, the TLC configurations that check them, and
TLAPS proofs of their safety. Paths below are relative to `src/`; `ac/` stands for
`crates/agent-core/src/`.

| module | models | checked by | proved in |
|---|---|---|---|
| `EventLog` | `ac/session_hub.rs` (event log), the subscription loops of the surfaces | `MCSessionRuntime` | `SessionRuntimeProofs` |
| `SessionRun` | `crates/surface-session/src/lib.rs`, `ac/session_hub.rs` (runtime state), `ac/harness.rs`, the control of `ac/agent_loop.rs` | `MCSessionRun` | `SessionRuntimeProofs` |
| `PartialRecovery` | `ac/run_persister.rs`, the sidecar part of `ac/storage/sessions_dir.rs`, the recovery in `ac/storage/sessions.rs` | `MCPartialRecovery` | `PartialRecoveryProofs` |
| `SessionData`, `SessionFile` | `ac/storage/sessions.rs`: the operations on `session.jsonl` and how they reach the disk | `MCSessionFile` | `SessionFileProofs` |
| `SessionStore` | abstract: a store whose operations take turns | (by refinement) | |
| `BackgroundShells` | `ac/tools/background.rs`, `bash.rs`, `interactive_bash.rs`, `bash_output.rs`, `bash_input.rs`, `kill_shell.rs` | `MCBackgroundShells` | `BackgroundShellsProofs` |
| `TaskTable` | abstract: the session's table of background tasks | (by refinement) | |
| `Wakeup` | `ac/wakeup.rs` (`scan_bg`, dispatcher), the resume handler of `crates/surface-session` | `MCSessionRuntime` | `SessionRuntimeProofs` |
| `Suspension` | timers and idle sentinel of `ac/wakeup.rs`, `ScheduleWakeup`, `run_checkpoint.json`, restarts | `MCSuspension` | `SuspensionProofs` |
| `HitlGate`, `Dispatch` | `ac/tools/hitl.rs`, `ac/permissions/mod.rs`, `ac/automode.rs`, `ac/dispatch.rs` | `MCDispatch` | `DispatchProofs` |
| `ChannelBridge` | `crates/channel-core/src/bridge.rs`, `apps/desktop/src/channel_forward.rs` and `wechat.rs` | `MCChannelBridge` | `ChannelBridgeProofs` |
| `EditsWorktree` | `ac/edits/mod.rs`, `ac/edits/metadata.rs`, the snapshots of `ac/dispatch.rs`, the desktop's `revert_edit` | `MCEditsWorktree` | `EditsWorktreeProofs` |

Every definition that stands for code has its lines in `PROJECT.json` under `map`.
Run one check with `tlc -config MCSessionRun.cfg MCSessionRun`, one proof with
`tlapm SessionRuntimeProofs.tla`.

How the modules meet: `Wakeup` extends `TaskTable`, which `BackgroundShells`
implements, so that what is checked of `Wakeup` rests on what the registry is shown to
promise. `Dispatch` extends `HitlGate` with the calls that use the gate. `SessionFile`
implements `SessionStore`, both over the operations of `SessionData`. `SessionRun` is
the frame of the others: `Dispatch` is the inside of its tool round, `Suspension` the
time between its `Suspend` and the resumed turn, `PartialRecovery` its persister.
These four are not composed into one state space; each takes from its neighbours what
it sees of them (stated in its header).

## 1. Inventory

For each part: the state it keeps, its operations, what it interacts with, what is
hard about it, and what makes it correct.

**Event log** (`ac/session_hub.rs`). State: an epoch, the next sequence number, a
bounded replay buffer, a bounded broadcast channel. Operations: `emit`, `subscribe`,
`subscribe_after`, `events_after`. Every surface reads it in a loop of its own, at
its own speed. Hard: the channel overwrites what a slow reader has not read; the
buffer, too, is bounded; a restart starts numbering again. Correct if no observer
passes over an event without knowing, and all events are seen in the end.

**Session runtime** (`crates/surface-session/src/lib.rs`, `ac/session_hub.rs`).
State: the input channel, the stop flag, the run state with the handles of the
current run (pending queue, accepting flag), the session guard. Operations: send or
inject an input, stop, the input loop and `run_turn` (guard, load, prepare, spawn,
publish, drive, settle). Shares queue, flags and state with the agent loop. Hard: a
message may go to the inbox or into the running turn; stop may come at any time;
other processes use the same session. Correct if each input ends in one place, there
is one writer, and a stop ends the turn it was meant for.

**Agent loop** (`ac/agent_loop.rs`, `ac/harness.rs`). State: transcript, segment in
memory, result. Operations: drains of injected messages, compaction, model call, tool
round, suspension, the Done branch with Stop hook and goal, wind-down. Sends a
terminal event to `drive` and goes on writing afterwards. Hard: a dozen exits, each
with its own clean-up; order of what is written.

**Run persister and recovery** (`ac/run_persister.rs`, `ac/storage/sessions_dir.rs`,
`ac/storage/sessions.rs`). State: a segment in memory, an actor with a channel, the
`.partial.jsonl` sidecar with its `.live` lock file, the session file. Operations:
observe, flush a segment, finish, fold an interrupted sidecar. Hard: crashes between
any two file operations, several processes that recover the same session, lock files
that are unlinked and created again. Correct if streamed content survives, is not
repeated, and a live run is never taken for a dead one.

**Session store** (`ac/storage/sessions.rs`). State: one `session.jsonl` per session:
a header, messages and updates of the metadata, a line each. Operations: append a
line (two writes), some of them after a load; load, change and rename a whole file
(run duration, forward markers, truncation, undo of a compaction, settings). Hard:
appends and rewrites are made by several tasks and processes and take no common lock;
crashes leave half a line. Correct if the file can always be loaded, a settled message
stays, and writers that do not overlap see their operations take effect in turn.

**Background shells** (`ac/tools/background.rs` and the shell tools). State: a bounded
registry; per shell a verdict, an output ring buffer with a cursor, a one-shot kill
signal and a `Notify`. A call starts a command, polls it, hands it to the background
when it times out, kills it when it is cancelled; reader and waiter tasks fill the
buffer and set the verdict. Hard: a process may end, time out and be killed at once;
`notify_waiters` wakes only who is already listening; the registry and the buffer are
at their limits in ordinary use. Correct if no process is lost sight of, a verdict is
final, output is neither repeated nor skipped unnoticed, and kills return.

**Wakeups** (`ac/wakeup.rs`). State: watches of background tasks, timers, an idle
sentinel per session, a channel to a dispatcher; on disk only `run_checkpoint.json`.
Operations: arm, scan, fire, dispatch into the running turn or as a new one, recover
after a start. Hard: the scan works on a copy of the table; a task may end or leave
the registry between two looks; a turn may come before the timer of the run that
sleeps; the process may stop. Correct if an end is announced once, no timer outlives
its run, and a sleeping run wakes.

**Human in the loop, permissions and tool dispatch** (`ac/tools/hitl.rs`,
`ac/permissions/`, `ac/automode.rs`, `ac/dispatch.rs`). State: the table of open
requests, each with a one-shot channel; rules in three layers and those learned in
the session; the run mode; a batch of calls, each a future. Operations: check a call,
open a request, answer it (once or to be remembered), judge it, switch the mode, stop.
Hard: rules and mode change while calls wait; one answer settles other requests;
requests are announced on one channel and settled on another. Correct if nothing runs
without the consent it needs, nobody waits for a dialog that is not shown, and a stop
ends every call.

**Channel bridge** (`crates/channel-core`, `apps/desktop/src/channel_forward.rs`).
State: the running bridge, its table of interactions with the owner, the markers of
what was forwarded, the run the owner started. Operations: forward, answer, settle
here or there, `/cancel`, start and stop of the channel. Hard: the computer and the
phone answer the same request; subscriptions and bridges are replaced while others
still work for them. Correct if a marker is settled once, what is settled is withdrawn,
and the owner is never kept from answering a run that waits for it.

**Edits** (`ac/edits`). State: locks per path, in the process and on disk, a git
repository with copies of the files a run touches, the record of the runs. Operations:
snapshot before a call, finalize a run, revert a run. Hard: parallel calls, other
processes, edits of the user in between, suspended runs, git commands that fail.
Correct if what a run did is on record, and undoing it does exactly that or nothing.

**Goal and hooks** (`ac/goal.rs`, `ac/hooks`), **context and compaction**
(`ac/context`), **subagents and side conversations** (`ac/subagent`, `ac/aside.rs`,
`ac/branch.rs`), **model gateway** (`crates/model-gateway`), **MCP client** (`ac/mcp`),
**hebcore process and RPC** (`apps/hebcore`, `crates/core-rpc`), **memory**
(`ac/memory_*`), **desktop shell**, **front ends**, **evaluation harness**, **protocol
types**: listed with their status and the reason in `PROJECT.json`.

What is hard to test in this code, line by line, is the list `hazards` of
`PROJECT.json`; the properties below are aimed at it.

## 2. The models

Histories (variables that record something for a property and stand for nothing in
the code) are marked so where they are declared. Definitions whose name says what
is wrong with them (`FinishSilently`, `ApplyToOld`, ...) are the mutants of
`PROJECT.json`, one for each property: a plausible slip in the code that the property
then catches.

### EventLog

State: `epoch`, `nextSeq`, `buffer` are the fields of `EventLogInner`. The broadcast
channel is not stored: it always holds the last `ChanCap` events, so a receiver is
its position `next`, and it lags when `next` has fallen out of that window. Per
observer: `phase`, the cursor (`lastSeq`, `lastEpoch`) and `todo`, what it has taken
out of the buffer and still has to hand on. `start`, `got` and `resynced` are
histories: what the observer is due, what the surface got, and up to where it was
told to reload the session.

Actions: `Emit` (number, push, pop, send, under one lock), `Subscribe`,
`SubscribeAfter` (gap and receiver taken together), `RecvOk`, `RecvLagged`, `Heal`
(the desktop reads the gap from the buffer, or asks for a reload), `DeliverMissed`,
`Disconnect`, `Restart`. The kinds of observer differ as the loops do: the desktop
heals a lag from the buffer, hebcore and the command line skip, the web loop ends at
the first lag. `subscribe_after` is an offer of the log that only its own tests use
at present; it is modelled as what it promises.
Its initial state, next-state relation and type invariant are `LogInit`, `LogNext` and
`LogTypeOK`, so that one module of proofs can extend it together with `SessionRun`.

### SessionRun

State: the inbox and the session task (`task`, `hand`, `guard`), the runtime state
(`stopFlag`, `runState`, `accepting`, `queue`, `checkpoint`, `chip`), the agent task
(`agent`, `result`, `event`, `segment`), the agent tasks that are past their terminal
event and still write (`tails`), and what is in `session.jsonl` (`saved`). `skipped`,
`rejected`, `lost` and `late` are histories.

Actions: senders (`InjectCheck` and `InjectPush` are two steps, for two locks are
taken one after the other; `Send`), `Stop`, `OtherProcess` (takes and gives back the
guard), the session task step by step (`Recv`, `Refuse`, `Begin`, `PrepareFails`,
`Spawn`, `Publish`, `Drive`, `Settle`, `Reset`), and the agent task, one action per
stretch of `run_agent` between two points at which another task can interfere (`Top`,
`Compact`, `Model...`, `Tools...`, `DoneFlush`, `CloseQueue`, `LastDrain`, `Judge...`,
`End`, `Persist`, `WriteChip`). What the model answers, whether tools fail or
suspend, and what hook and goal decide are free choices.

### PartialRecovery

State: per run, the persister and its actor (`wpc`), the fragments streamed, flushed
and written (`emitted`, `flushed`, `wrote`), the command at the end of the actor's
channel (`ctl`), the sidecar (`partial`), the inode its `.live` names (`livePath`) and
the one the actor has locked (`held`), and its fragments in `session.jsonl`
(`landed`). Per recovering process: `pc`, `todo`, `tgt`, `opened`, `hold`, `snap`. A
lock belongs to an inode and not to a name, so that `.live` unlinked and created
again is another lock. `twice`, `stored`, `torn` and `broken` are histories.

Actions: the run (`Start`, `Observe`, `ActorAppend`, `Flush`, `FlushFails`,
`ActorReset`, `ActorDelete`, `ActorUnlink`, `Drop`, `ActorExit`, `Crash`) and the
recovery, one action per file operation (`Scan`, `Look`, `Probe`, `Unprobe`,
`ReadPartial`, `OpenAgain`, `TryAcquire`, `Recheck`, `Fold`, `FoldFails`, `Remove`,
`Unlink`, `Release`, `CrashRecoverer`). Failures to append to the sidecar and to
`session.jsonl` are modelled; that a process cannot lock or remove its own file is
not. The fragments stand for streamed events; how they are put together into a
message is left out, as are the Interrupted marker's contents.

### SessionData, SessionFile, SessionStore

`SessionData` is a session once it has been read and what each operation makes of it.
A message is its number in the order of `created_at`, by which the reader sorts; the
metadata are reduced to four fields: one that is written alone, one that decides
another, that other, and one that is written together with a copy of all the rest.

`SessionFile` is how the operations reach the disk. A file is an inode with a header,
what its complete lines add up to, and what follows the last newline. An append is
`Start`, `Load` (where the operation reads first), `Open`, `WriteText`,
`WriteNewline`; a rewrite is `Start`, `Load`, `OpenTmp`, `Fill`, `Rename`. Any two
writers interleave between these, and `Crash` ends one anywhere. An open file stays
the inode it was when a rename replaces the name, so an append can go to a file nobody
reads any more. `Delete` removes the directory.

`SessionStore` is the promise: operations take effect whole and in turn.
`SessionFile` implements it as long as no two operations overlapped and no crash tore
an append (`disturbed`).

### TaskTable, BackgroundShells

`TaskTable`: a task runs until it has its first and only verdict, and only a task that
has one leaves the table. `BackgroundShells` implements it (`KeepsVerdicts`) with what
`background.rs` has: the registry in order of age with eviction at `MaxShells`, the
verdict under a mutex, the kill signal (`held`, `sent`, `fired`, `done`), the
operating system's process, the pipe, the tail buffer as a count with the reader's
`cursor`. Actions: the process (`Produce`, `ProcessEnds`), the reader and waiter tasks
(`ReadPipe`, `Reap`, `TakeSignal`, `Killed`), the tool call in its four ways
(foreground, background, terminal, interactive) with polls, timeouts, cancellation,
promotion and arming, `BashOutput` and `BashInput`, and the callers of kill
(`KillStart`, `KillSend`, `KillCheck`, `KillListen`, the last two being
`wait_terminal`'s look at the state and its request to be woken).

### Wakeup

State: `watches`, the scan with its copy, the channel `events` to the dispatcher, and
whether the session's run takes announcements. `scan_bg` is `ScanStart` (copy under
the lock), a `LookAt` for each watch without it, `ScanEnd` (write back what is kept).
`Dispatch` hands an end to the run, to the session as a new input, to a run that is
closing and no longer reads (`TellClosing`), or to nobody (`CannotOpen`).

### Suspension

State: process and clock (`up`, `now`), armed timers, the channel, the run on its way
to sleep in the steps of the code (`phase`, `saved`, `armed`), the checkpoint, the
idle sentinel, the memory tasks that set it late. Actions: `UserTurn` and `WakeupTurn`
(both resume a suspended run, take its checkpoint and its timer away and cancel the
sentinel), `WakeupFails` (the wakeup's input is taken and `run_turn` returns an error,
or a stop skips it, before the checkpoint is taken: session guard, load, append,
provider, token, clients), `AskTimer`, `SaveCheckpoint`, `ArmCron`, `Suspend`,
`FinishRun`, `ArmIdle`, `ScanCron`, `ScanIdle`, `Dispatch`, `PassTime`, `Stop`,
`Start` (arms again what the checkpoint says, if it is not past).

### HitlGate, Dispatch

`HitlGate`: the table of requests, learned rules, the three layers of the permission
store, and `Check`, the decision on a call; `ResolveRemember` with the scan of the
other requests, which takes the table's lock a second time for one that deletes
(`jammed`). A command is the set of its segments; a segment is a model value with a
class; which segments and which danger a call can have is `Call`, after `analyze_shell`
(`ac/effects.rs`): only a shell command has any, and one that is read-only consists of
read-only segments and has no dangerous pattern.

`Dispatch`: the calls of `run_calls`, checked in order (`Spawn...`) and then run as
futures, `MaxParallel` at a time: `StartTool`, `JudgePath`, `PathDecided`,
`JudgeTool`, `PassGate`, `ToolDecided`, `Executed`, and the calls that only wait (Ask,
plan submission) or act at once (TodoWrite, entering plan mode). The driver
(`Deliver`) hands requests to the surface; a person answers, remembers, switches the
mode, stops (`Stop` sets the flag, `StopDrains` empties the gate: two steps in the
code).

### ChannelBridge

State: the main conversation's requests (`gate`, `log`), the subscription loops that
forward them, the markers and `inflight`, the bridges with their tables, and the run
of each bridge. Actions: `Request`, `SettleAtDesk`, `Announce`; a loop's `Subscribe`,
`StartLoop`, `Forward` and `Insert` (two steps, as the code sends before it inserts),
`SettleLocally`; `StartChannel`, `StopChannel`; the owner's `OwnerAnswers` and
`Settle` (taken out of the table, then settled), `OwnerCancels`, `OwnerWrites`; the
run's `Prepare`, `Ask`, `Judge`, `Drive`, `AskOwner`, `Resolve`, `EndRun`.
`HitlPending` is empty because nothing in the current code fills that table (see
`forwarded_answer`).

### EditsWorktree

State: the files as sequences of regions, each with the name of who wrote it; the
copies, the index, the repository; the turn's first snapshots (`before`); the locks
within the process (`held`) and across processes (`fd`); the record (`meta`); and per
caller (a call, the end of a run, a revert) its position and the paths it has to do.
Actions: a call's locks (`TakeMutex`, `TakeFd`, `TimeOut`), its snapshot step by step
(`Look`, `GitInit`, `InitConfig`, `Exists`, `MirrorFile`, `GitAdd`, `Commit`,
`SnapshotFails`), `Execute`; the end of a run (`FinExists`, `FinCommit`, `FinFails`,
`AppendRun`); a revert (`RevertStart`, `Undo`, `Apply`, `CopyBack`, `RevertFails`,
`MarkReverted`); `Suspend`, and `UserEdits` at any time. When git or a copy fails is
`GitFails`: another git holds `index.lock` (`IndexLocked`), or the caller is refused
(`Refuses`): two first calls make the repository at once and one finds `config.lock`,
the repository is not finished, the file has gone or is `Uncopyable` (a directory, a
file one may not read), or the path is `Ignored` (the user's `.gitignore`, once it is
copied, or a global one, names it). A call then goes on without its snapshot; at the
end of a run the record of all its files is lost, for `finalize_run` has taken the run
out of `active` before (`FinFails`). A reverse patch applies if the regions it touches
are as the run left them.

## 3. What is checked

Passing runs:

- `session_runtime`: the event log and the announcements of background tasks. The two
  machines share no variable, so what holds of each while the other has not begun holds
  of both; the run lets one of them move in a behaviour. The log has a desktop observer
  and one that resumes, 6 events, buffer 3, channel 2, one restart. `BufferIsTail`: the
  buffer is the tail of the numbered stream. `NoSilentGap`: an observer never passes
  over an event unless it was told to reload. `SeamlessReplay`: replay and live stream
  are consecutive. `EventuallySeen`: what is emitted while the desktop is subscribed
  reaches it or is covered by a reload. The announcements are those of two tasks.
  `AnnouncedOnce`; `KilledIsSilent`: a killed task is not announced unless the table had
  let it go; `EndIsTold`: an armed task that ends is announced to the run or to the
  session's input, unless the scan wrote over its watch, the run was closing, or the
  session could not be opened.
- `session_run`: two inputs of surfaces that inject and fall back to the inbox, one of
  the web server, which does not fall back, stops at any moment, another process, as
  many runs as the inputs start. `ExactlyOnePlace`: each accepted input is in one of
  inbox, hand, queue, file, or dropped for a stated reason, and is written once.
  `AgentUnderGuard`: an agent task that may write exists only under the guard.
  `SuspendedHasCheckpoint`: what is shown as suspended can be resumed.
  `DoneDrainsAll`: a run that ends well leaves nothing in its queue that was pushed
  while it was open. `StopEndsTurn`: a stop during a run ends the turn.
- `partial_recovery`: one run of three fragments and three recoverers, all of which
  may crash or fail at any step. `LiveNotFolded`: a run that is there is not taken
  for interrupted. `TwiceOnlyIfTorn`: content is repeated only if a crash or an error
  fell between two writes that belong together. `StoredSurvives`: what reached the
  disk stays there. `AckMeansClean`: the actor's acknowledgements mean what
  `flush_segment` and `finish` take them to mean.
- `session_file`: two writers, one of which also rewrites. `HeaderSurvives`: whatever
  coincides, the file can be loaded, except after two rewrites shared the temporary
  file. `SettledStays`: an acknowledged message whose append nothing overlapped stays
  until it is removed on purpose. `TakesTurns`: the refinement of `SessionStore`.
- `background_shells`: a command started in each of the four ways, a second one in the
  background, a killer, a registry of one, a buffer of one. `NoOrphan`: a live process
  is always in the registry. `OutputAccounted`: each unit of output is returned once
  or passed over once. `KeepsVerdicts`: the refinement of `TaskTable`. `KillReturns`:
  a kill returns, unless the verdict was announced in the gap of `wait_terminal`.
- `suspension`: two runs, a restart. `NoStrayTimer`: an armed timer is the one the
  suspended run waits for. `CheckpointIsOfSleeper`: no run is resumed twice.
  `SleepsWhenIdle`: the sentinel does not go off during a run, but for a memory task
  that was late. `SuspendedWakes`: a suspended run is resumed, with the four exceptions
  named below.
- `dispatch`: three calls over two turns, nine scripts (modes, rules, dangerous and
  deleting commands, paths outside the workspace, plan mode, questions).
  `RanWithConsent`: what has started to run had the consent it needs.
  `AwaitedIsShown`: no call waits for a dialog that is neither shown nor on its way.
  `OpenRequestHasOwner`: the gate keeps no request whose call is over, but for two
  stated cases. `LearnsWhatWasAllowed`: a rule is learned only in the step that allows
  the call it comes from, by a person's answer to the open request of a call that is
  not dangerous, or by the judge's word, which settles the request unless a stop or,
  after a change of mode, a person has settled it before. `StopEndsCalls`: after a
  stop every call ends.
- `channel_bridge`: a question forwarded from the main conversation, an approval of a
  run started on the phone, two subscriptions, two bridges. `MarkerSettledOnce`,
  `SettledIsWithdrawn`: what is settled at the computer is not waited for on the phone.
  `WaiterIsAnswerable`: a run that waits has its request where the owner's answer finds
  it. `CancelEnds`: a cancelled run ends.
- `edits_worktree`: two calls on two files (one of which does not exist yet), two
  turns, a revert, one edit of the user. `RunIsRecorded`: when a run has ended, what it
  did to a file is on record, but for the windows listed there. `AloneWithFile`: a call
  is alone with its files. `LocksComeBack`: nobody waits for a lock that is not given
  back, but for two calls with opposite orders. `RevertIsExact`: undoing restores
  exactly what the run changed, or is refused.

Runs that show a disagreement between the code and what its comments or docs say
(quoted in `PROJECT.json` under `findings`):

- `self_lock`: an answer to be remembered scans the other requests under the table's
  lock; one that deletes opens a request there, and the thread waits for itself.
- `danger_learned`: the judge allows a dangerous compound command, and its memorable
  segments become rules of the session; `docs/架构.md:1004` and the comment at
  `hitl.rs:566-568` say dangerous composites are never persisted
  (`DangerTeachesNothing`).
- `forwarded_answer`: the owner's answer on the phone settles the marker, and the
  request stays open.

**Exceptions in the properties.** Where a property excuses a case or is stated so
that it does not apply, the case was met while modelling; the exception is as
narrow as it could be made. These are:

- `session_runtime`: a watch armed while a scan runs is overwritten by what the scan
  puts back (`wakeup.rs:314`; `bash.rs:270` promises the announcement); a killed task
  that has left the table counts as ended (`wakeup.rs:293`); an end sent to a run past
  its last drain, or to a session that cannot be opened, is dropped. A web
  subscription ends for good at its first lag (`apps/web-server/src/server.rs:183`);
  it is a kind of observer of the module and is not among those of the run.
- `session_run`: a stop during the preparation of a run is erased when the run's
  handles are published (`surface-session/src/lib.rs:745`); a stop while nothing runs
  drops the message sent next; an input checked before and pushed after the queue
  closes is accepted and lost; inputs injected into a run that fails, or is cancelled
  away from the top of its loop, are lost; a failed run writes `pending_continue` after
  the next has cleared it; an injected message is written before the assistant text
  that came first.
- `partial_recovery`: a segment whose append failed is removed from the sidecar, too;
  a recovery skipped because another process holds the lock for a moment is made up for
  behind the start of the next run. The comment at `run_persister.rs:117` (recovery
  never repeats a written segment) holds but for a crash between the append and the
  removal of the sidecar.
- `session_file`: an append acknowledged while a rewrite is between load and rename is
  lost (`sessions.rs:1432`; `docs/架构.md:3437` says writes of one session are serial).
- `background_shells`: a verdict announced between `wait_terminal`'s look and its
  request to be woken leaves the caller of kill waiting; the output that arrives after
  a process was reaped is cut off (`bash.rs:65`).
- `suspension`: a sleeping run is not woken if its timer had run out when the process
  started again, if its wakeup went to a run not yet asleep (`unread`) or to a session
  that could not be opened (`refused`), or if the wakeup's turn failed before it took the
  checkpoint (`failed`; `surface-session/src/lib.rs:546-603`): the input is gone, the
  timer is gone and the checkpoint stays until a turn of the user resumes the run.
- `dispatch`: a mode switched between a call's check and the start of its future leaves
  a request announced as the judge's with no judge (`dispatch.rs:2050` against
  768-785); a call whose path is refused leaves its approval open; the judge's word on a
  command teaches its segments also when a stop has refused the command meanwhile
  (`hitl.rs:589`).
- `channel_bridge`: a cancelled subscription finishes forwarding a request after its
  successor has started (`channel_forward.rs:25-27`), and then a marker may be settled
  twice; a run started on the phone goes on waiting on its old bridge after the channel
  was stopped and started.
- `edits_worktree`: two calls that name the same paths in opposite orders wait for each
  other for good (`dispatch.rs:1010`); a resumed run forgets what it did before it
  slept (`agent_loop.rs:669-671`); the end of a run takes no path lock; the repository
  may be half made for the first concurrent calls, of which one may fail, too
  (`edits/mod.rs:441-460`); a path that git ignores or that cannot be copied has no
  snapshot, and if it is one the run is to record (a command that makes a directory is
  enough) no file of the run is recorded (`edits/mod.rs:272-274`); a
  record and the mark of a revert overwrite each other (`edits/mod.rs:398-411`).
  Outside the property: undoing the creation or deletion of a file overwrites later
  work of the user, and a revert that failed half way cannot be repeated.

**Bounds.** Six events with a buffer of three and a channel of two let each of them
overflow, alone and together, before and after a lag, and a restart with a cursor of
the old process. Three inputs start up to three runs and let two senders race for the
queue of one, with one run after another. Three fragments give a segment flushed, one
in the sidecar and one in the channel; three recoverers are what it takes for one to
open `.live`, another to unlink it and a third to create it again; inodes are
interchangeable and reduced by symmetry. `session_file`: three operations are an
append, a rewrite that overlaps it and one that sees the outcome; four inodes are the
file, the temporary file and one held open by each writer; three messages, one of them
a marker. `background_shells`: a registry of one makes every second start evict, a
buffer of one with two units overflows. `session_runtime`: two tasks are one that ends
and one that is armed while the scan is at work. `suspension`: a run that sleeps and
one that comes in between; a clock up to 3 with delays of 1. `dispatch`: one slot for
three calls, so that one is queued while rules and mode change; one switch of the
mode. `channel_bridge`: one request of each kind, two of what can be replaced while in
use. `edits_worktree`: two regions are one that the run changes and one that it does
not; two paths give both orders of locking, and the second, which a call may create,
is the one git may refuse. The safety properties of the passing runs are proved
without these bounds (section 4).

**Deadlock.** `session_run` checks it. In the others the bounded work may all be done.

**Fairness.** `EventLog`: each subscription loop is a task of its own that the
executor goes on scheduling. `SessionRun`: the session task and the agent task are
scheduled, a sender finishes its call, and model calls end, if only by timing out; a
tool may wait for the user for ever unless it is stopped. `BackgroundShells`: the
waiter task takes a signal and reports a kill, a caller of kill takes its steps; no
process has to end by itself. `Wakeup`: the scheduler's thread scans and dispatches;
no task or run has to end. `Suspension`: the clock goes on, the scheduler ticks, a run
on its way to sleep gets there and the input loop takes inputs, whatever comes of
them, as long as the process is up; it need not start again. `Dispatch`: the run's
task and its driver are scheduled, a judge answers or times out, a tool ends; nobody
has to answer a dialog. `ChannelBridge`: the bridge's loop and the driver are polled,
and an agent whose flag is set ends; nobody has to write. `SessionFile`,
`PartialRecovery` and `EditsWorktree` make no assumption: their properties are safety.
Nothing is assumed about when events are emitted, stops asked for, or processes crash.

## 4. What is proved

The proofs hold for all values of the constants (any capacities, observers, inputs,
runs, fragments, recoverers, inodes); the named assumptions only say that bounds are
natural numbers and that the special values are not ordinary ones.

- `SessionRuntimeProofs` proves about the three machines of a session runtime, one
  after the other, no step of a proof using two. For `EventLog`: `LogTypeCorrect`,
  `BufferCorrect`, `GapFree`, `ReplaySeamless`. The inductive invariant (`LogIndInv`)
  adds to the shape of the buffer that what an observer has seen, holds in `todo` and
  has still to receive is an interval without holes. For `SessionRun`: `TypeCorrect`,
  `EachInputOnce`, `SingleWriter`, `SuspendedResumable`, `FinishedDrained`.
  `ExactlyOnePlace` is inductive only together with where the two tasks are
  (`Control`: who holds the guard, when the agent may exist, when the queue can hold
  something), what is on disk (`Suspension`) and the order of closing and draining
  (`Closing`). For `Wakeup`: `WakeTypeCorrect`, `EndAnnouncedOnce`,
  `KilledTasksSilent`, `WatchesAccountedFor`. `AnnouncedOnce` is inductive together
  with where the watches are while a scan works on its copy: its three lists are kept
  apart (`Scanning`), and what has been announced is in none that is looked at again
  (`OnlyOnce`). The last theorem is the safety part of `EndIsTold`: an armed task is
  watched, announced, killed, or lost in one of the three ways the model names
  (`Accounted`).
- `PartialRecoveryProofs`: `TypeCorrect`, `LiveRunsLeftAlone`, `FoldedOnce`,
  `NothingStoredIsLost`, `AcknowledgedIsClean`. The argument: as long as there is a
  sidecar, everybody who has its `.live` open has the inode that the name stands for,
  so its locks exclude each other; a lock obtained shows that the run is gone, and
  then the sidecar can only disappear; and a sidecar repeats what is in
  `session.jsonl` only in the hands of the one recoverer about to remove it.
- `SessionFileProofs`: `TypeCorrect`, `FileInvariant`, `HeaderAlwaysThere`,
  `SettledMessagesStay`, `FileTakesTurns`. The invariant follows descriptors and
  messages. Nobody appends to the temporary file, and until two rewrites have raced
  for it one writer has it (`FdApart`). A rewrite under way carries every settled
  message, in what it has loaded and then in the temporary file, unless its own
  operation takes it out (`Carries`). An append that nothing has overlapped with is
  alone and writes to `session.jsonl` (`Alone`), so what becomes settled is in a
  complete line (`Kept`). `FileTakesTurns` is the refinement `TakesTurns`: as long as
  nothing has overlapped, one writer at most is at work and what it has loaded is what
  the file says (`TurnInv`), and each action is a step of `SessionStore` or leaves it
  alone: an append takes effect with its text and returns with its newline, a rewrite
  does both with its rename.
- `BackgroundShellsProofs`: `TypeCorrect`, `ShellInvariant`, `LiveIsListed`,
  `OutputReadOnce`, and the refinement `ShellsKeepVerdicts`: every step of the shells
  is a step of `TaskTable` or leaves it alone. The invariant says of each command that
  call, verdict, kill signal, process and registry agree (`TaskInv`; it is what keeps
  eviction away from live processes and a second verdict from being set), of each
  caller that it kills what was started (`CallerInv`), and of the output that what is
  below the cursor is parted into returned and passed over (`OutputInv`).
- `SuspensionProofs`: `TypeCorrect`, `TimersBelong`, `OnlySleepersHaveCheckpoints`,
  `SentinelSleeps` (the action property `SleepsWhenIdle`), `SleepersWatched`. The
  invariant ties the step of the run, the checkpoint on disk and the timer in memory to
  each other (`RunInv`, `NoStrayTimer`) and marks a sentinel set during a run as late
  (`IdleInv`). `SleepersWatched` is the safety part of `SuspendedWakes`: while the
  process is up, the timer of a sleeping run is armed or on its way to it, or went one
  of four stated ways (`overdue`, `unread`, `refused`, `failed`).
- `DispatchProofs`: `TypeCorrect`, `DispatchInvariant`, `NothingRunsUnasked`,
  `DialogsAreShown`, `RequestsHaveOwners`, `RulesComeFromConsent` (the action property
  `LearnsWhatWasAllowed`: which step learns, and what it says of the call). The invariant
  is a conjunction for each call: which requests
  it can have opened where it is (`Fresh`), what the table says of them (`Table`), what
  was decided and answered by the time the tool runs (`Consent`, `Scanned`), what is
  left behind (`Closed`), and whether the judge or the person has the approval
  (`Dialogs`, `Unanswered`). What the steps of others may do to a call is one predicate
  (`Outside`), shown of every action. That the scan after a remembered rule consents to
  nothing dangerous rests on a lemma about the rules (`NothingUnapproved`): a call they
  allow has no segment left to make a rule for.
- `ChannelBridgeProofs`: `TypeCorrect`, `ChannelInvariant`, `MarkersSettleOnce`,
  `SettledAreWithdrawn`, `WaitersAreAnswerable`. Two threads of argument. The loops: one
  loop at most is not cancelled, and it stands no further back in the log than those
  before it (`CancelInv`, `PaceInv`), so a request that some loop has read and forwarded
  is behind every loop that may go on (`Passed`). It is not forwarded again, so it has one
  marker, and the marker is settled by whoever takes it out of flight (`MarkerInv`); and
  once told that it is settled no loop puts it into a table again (`ToldInv`). The
  entries: each names the marker of its own request wherever it is carried (`EntryInv`),
  and a run that waits has its own entry, which no insert of another request replaces.
  `strayed`, the one exception, is what a loop does that was cancelled after it had read
  and before it forwarded.
- `EditsWorktreeProofs`: `TypeCorrect`, `EditsInvariant`, `RunsAreRecorded`,
  `CallsWorkAlone`, `LocksAreGivenBack`, `RevertsAreExact` (the action property
  `RevertIsExact`). The invariant begins with where each caller is: a call has its
  paths in order, those behind it and those ahead of it (`PlaceInv`), and holds the
  lock file of every path it has got past, or is on record as having timed out
  (`LockInv`). `AloneWithFile` and `LocksComeBack` follow from these two. That a run
  is recorded takes three more. Until the run changes a file, its snapshot of the
  file, and each copy on the way to one, shows the file as it is (`Snapped`): who
  changes a file is a call that has locked it and left a snapshot behind, or somebody
  whom the history notes (`ContentMoves`). Then `finalize_run` compares what it has
  seen with that snapshot, and what is behind it ends as it began or is listed
  (`Compared`). And between its reading and its writing of the metadata nobody else
  appends (`MetaInv`), so only the mark of a revert may write over a record. That
  `index.lock` is held for nobody, so that git fails only where a window says so
  (`Refuses`), rests on commits being one at a time (`OneCommits`). For
  `RevertIsExact` the copy is followed between the copy into the worktree and the copy
  back (`ExactInv`).

What is assumed: bounds are natural numbers and capacities are not zero; special
values are not ordinary ones; the markers, commands, paths and calls a configuration
names are among the declared ones; the files that runs touch are finitely many
(`EditsAssumption`), as runs are. Two say more of the code. `KindsAssumption`
(`EventLog`): an observer runs one kind of loop. `SegmentsAssumption` (`HitlGate`): a
segment that is asked about every time is neither read-only nor a safe write, and the
name of a segment is not that of a tool.

Only model-checked: the liveness properties (`EventuallySeen`, `StopEndsTurn`,
`KillReturns`, `EndIsTold`, `SuspendedWakes`, `StopEndsCalls`, `CancelEnds`) and what
they rest on, fairness and ENABLED, which are out of the prover's reach; and the
disagreements of section 3. Every safety invariant, action property and refinement the
passing runs check is a theorem, and so is the type invariant of each model.

## 5. Not modelled

In the modelled parts: the projection of events into snapshots and the run id on an
envelope; retries of a model call; disk errors in `SessionRun`; listing, search, forks
and compaction lines of the session store; the legacy phase `AwaitingBackgroundTask`
and the setting that turns memory off; a `run_checkpoint.json` that cannot be read or
deleted (`surface-session/src/lib.rs:754-762` starts a new run, or goes on);
`auto_denied_tools`, rules for paths of write targets, hooks that rewrite a call's
input, and the parsing of commands into segments; the dispatch of subagents, which
share their parent's gate without a sink of their own when they run in the background;
log files and screen emulation of shells; commands, texts, login and polling errors of
a channel; the mode of edits without git, the removal of old worktrees, a crash in the
middle of a run of edits, a `git diff` that fails (it counts as no change,
`edits/mod.rs:281`), files a call touches that the analysis of its command does not
find or the workspace does not allow (they have no snapshot, `dispatch.rs:999-1008`).
Whether an ignored path is already tracked, which git then adds all the same, is left
open: the path may be refused or not.

Parts left out: the model gateway's wire formats, front ends, the hash-line text
algorithms, `git_scm`, memory ranking and prompts, the desktop shell, the evaluation
harness and the protocol types are rendering, text, platform input and output or data
without behaviour, and stay out. Subagents, the gateway's retries and the MCP request
table are in the plan.

## 6. Plan

1. Subagents: a nested run's dispatcher on its parent's gate, cancellation from parent
   to child, the background subagent in the table of tasks.
2. The retry loop and token refresh of the gateway, and the MCP request table against
   timeouts and late answers.
3. Refinement: an abstract session (a log of inputs, one writer) implemented by
   `SessionRun`.
