-------------------------- MODULE BackgroundShells --------------------------
(***************************************************************************)
(* Shell commands and their registry (crates/agent-core/src/tools:         *)
(* background.rs, bash.rs, interactive_bash.rs, bash_output.rs,            *)
(* bash_input.rs, kill_shell.rs).  A Bash or InteractiveBash call, the     *)
(* process, the tasks that read its output and wait for its end, and       *)
(* callers of kill run side by side and meet in the BackgroundShell: its   *)
(* state under a mutex and a Notify, whose notify_waiters wakes only those *)
(* who have already asked to be woken.                                     *)
(*                                                                         *)
(* Output is counted in units, one per read of the pipe or terminal; unit  *)
(* n is the n-th that reached the tail buffer.                             *)
(***************************************************************************)
EXTENDS Naturals, Sequences, FiniteSets, SequencesExt

CONSTANTS
  Tasks,      \* the commands
  Chatty,     \* those of them that write output
  Ways,       \* per command: how it may be started
  Killers,    \* KillShell and the surfaces' kill buttons,
  Victim,     \* and the command each of them is for
  MaxShells,  \* MAX_BACKGROUND_SHELLS
  MaxOut,     \* bound: units a command writes
  MaxTail,    \* MAX_TAIL_BYTES
  Chunk       \* READ_CHUNK_BYTES

ASSUME ShellsAssumption ==
  /\ MaxShells \in Nat \ {0} /\ MaxOut \in Nat /\ MaxTail \in Nat \ {0} /\ Chunk \in Nat \ {0}
  /\ Ways \in [Tasks -> SUBSET {"foreground", "background", "terminal", "interactive"}]
  /\ Chatty \subseteq Tasks /\ Tasks \cap Killers = {} /\ Victim \in [Killers -> Tasks]

VARIABLES
  registry,  \* the shells of the session, oldest first
  kind,      \* per task: "pipe" (Bash), "pty" (Bash in a terminal), "inter" (InteractiveBash)
  verdict,   \* per task: ShellState, "none" before it is started
  back,      \* per task: is_background
  killTx,    \* per task: the one-shot kill signal: "held", "sent", "fired" or "done"
  proc,      \* per task: the operating system's process: "none", "alive", "dead", "reaped"
  pipe,      \* per task: units written and not yet read
  total,     \* per task: units that reached the tail buffer
  cursor,    \* per task: read_cursor
  seen,      \* history, per task: units read_incremental has returned
  gone,      \* history, per task: units the cursor passed over
  call,      \* per task: the step its tool call is at
  armed,     \* tasks given to WakeupScheduler::arm_bg_task
  kpc,       \* per caller of kill (a killer, or a tool call being interrupted): its step
  missed     \* history: callers that were about to ask to be woken when the verdict was announced

shellVars == <<registry, kind, verdict, back, killTx, proc>>
outputVars == <<pipe, total, cursor, seen, gone>>
callVars == <<call, armed>>
killVars == <<kpc, missed>>
vars == <<shellVars, outputVars, callVars, killVars>>

Callers == Tasks \cup Killers
Target(c) == IF c \in Killers THEN Victim[c] ELSE c
Terminal(v) == v \in {"exited", "killed"}
Done(t) == Terminal(verdict[t])
Listed(t) == t \in ToSet(registry)

TypeOK ==
  /\ registry \in Seq(Tasks) /\ IsInjective(registry)
  /\ kind \in [Tasks -> {"pipe", "pty", "inter"}]
  /\ verdict \in [Tasks -> {"none", "running", "exited", "killed"}]
  /\ back \in [Tasks -> BOOLEAN]
  /\ killTx \in [Tasks -> {"held", "sent", "fired", "done"}]
  /\ proc \in [Tasks -> {"none", "alive", "dead", "reaped"}]
  /\ pipe \in [Tasks -> 0 .. MaxOut] /\ total \in [Tasks -> 0 .. MaxOut] /\ cursor \in [Tasks -> 0 .. MaxOut]
  /\ seen \in [Tasks -> SUBSET (1 .. MaxOut)] /\ gone \in [Tasks -> SUBSET (1 .. MaxOut)]
  /\ call \in [Tasks -> {"none", "arm", "poll", "background", "timers", "leave", "kill", "armFirst", "look", "lookTimers", "settle", "done"}]
  /\ armed \subseteq Tasks
  /\ missed \subseteq Callers
  /\ kpc \in [Callers -> {"idle", "take", "check", "gap", "asleep"}]

Init ==
  /\ registry = << >>
  /\ kind = [t \in Tasks |-> "pipe"]
  /\ verdict = [t \in Tasks |-> "none"]
  /\ back = [t \in Tasks |-> FALSE]
  /\ killTx = [t \in Tasks |-> "held"]
  /\ proc = [t \in Tasks |-> "none"]
  /\ pipe = [t \in Tasks |-> 0] /\ total = pipe /\ cursor = pipe
  /\ seen = [t \in Tasks |-> {}] /\ gone = seen
  /\ call = [t \in Tasks |-> "none"]
  /\ armed = {}
  /\ missed = {}
  /\ kpc = [c \in Callers |-> "idle"]
-----------------------------------------------------------------------------
(***************************************************************************)
(* The registry and the Notify.                                            *)
(***************************************************************************)

\* Vec::remove at the first of these positions, if there is one.
RemoveFirstOf(r, I) == IF I = {} THEN r ELSE RemoveAt(r, CHOOSE i \in I : \A j \in I : i <= j)

\* Mutant: eviction takes the oldest shell, finished or not.
EvictOldest(r) == IF Len(r) >= MaxShells THEN Tail(r) ELSE r

\* A full registry gives up its oldest finished shell, and grows when there is none.
Evict(r) == IF Len(r) >= MaxShells THEN RemoveFirstOf(r, {i \in DOMAIN r : Done(r[i])}) ELSE r

Register(t, k, background) ==
  /\ call[t] = "none"
  /\ registry' = Append(Evict(registry), t)
  /\ kind' = [kind EXCEPT ![t] = k]
  /\ verdict' = [verdict EXCEPT ![t] = "running"]
  /\ back' = [back EXCEPT ![t] = background]
  /\ proc' = [proc EXCEPT ![t] = "alive"]
  /\ UNCHANGED <<killTx, outputVars, armed, killVars>>

Unregister(t) ==
  registry' = RemoveFirstOf(registry, {i \in DOMAIN registry : registry[i] = t /\ Done(t)})

\* notify_waiters: those asleep on t look again; those about to fall asleep do not hear it.
NotifyWaiters(t) ==
  kpc' = [c \in Callers |-> IF kpc[c] = "asleep" /\ Target(c) = t THEN "check" ELSE kpc[c]]

\* Mutant: the last verdict wins.
FinishOver(t, v) ==
  /\ verdict' = [verdict EXCEPT ![t] = v]
  /\ NotifyWaiters(t)
  /\ UNCHANGED missed

\* Mutant: finish does not notify.
FinishSilently(t, v) ==
  /\ verdict' = [verdict EXCEPT ![t] = IF Done(t) THEN @ ELSE v]
  /\ UNCHANGED killVars

\* BackgroundShell::finish: the first verdict stays.
FinishAs(t, v) ==
  IF Done(t)
  THEN UNCHANGED <<verdict, killVars>>
  ELSE /\ verdict' = [verdict EXCEPT ![t] = v]
       /\ NotifyWaiters(t)
       /\ missed' = missed \cup {c \in Callers : kpc[c] = "gap" /\ Target(c) = t}

-----------------------------------------------------------------------------
(***************************************************************************)
(* The process, and the tasks that read from it and wait for it.           *)
(***************************************************************************)

Produce(t) ==
  /\ t \in Chatty /\ proc[t] = "alive" /\ pipe[t] + total[t] < MaxOut
  /\ pipe' = [pipe EXCEPT ![t] = @ + 1]
  /\ UNCHANGED <<shellVars, total, cursor, seen, gone, callVars, killVars>>

ProcessEnds(t) ==
  /\ proc[t] = "alive"
  /\ proc' = [proc EXCEPT ![t] = "dead"]
  /\ UNCHANGED <<registry, kind, verdict, back, killTx, outputVars, callVars, killVars>>

\* spawn_reader and the terminals' readers: append, then notify_waiters.
ReadPipe(t) ==
  /\ pipe[t] > 0
  /\ pipe' = [pipe EXCEPT ![t] = @ - 1]
  /\ total' = [total EXCEPT ![t] = @ + 1]
  /\ NotifyWaiters(t)
  /\ UNCHANGED <<shellVars, cursor, seen, gone, callVars, missed>>

\* child.wait() returned.  spawn_waiter's select has not taken the kill signal;
\* for a terminal left by a timed-out Bash, its output has ended first.
Reap(t) ==
  /\ proc[t] = "dead"
  /\ kind[t] = "pipe" => killTx[t] # "fired"
  /\ kind[t] = "pty" => pipe[t] = 0
  /\ proc' = [proc EXCEPT ![t] = "reaped"]
  /\ FinishAs(t, "exited")
  /\ UNCHANGED <<registry, kind, back, killTx, outputVars, callVars>>

\* spawn_waiter / spawn_pty_kill_waiter: the signal arrives, the process group is killed,
TakeSignal(t) ==
  /\ killTx[t] = "sent"
  /\ kind[t] = "pipe" => proc[t] # "reaped"
  /\ killTx' = [killTx EXCEPT ![t] = "fired"]
  /\ proc' = [proc EXCEPT ![t] = IF @ = "alive" THEN "dead" ELSE @]
  /\ UNCHANGED <<registry, kind, verdict, back, outputVars, callVars, killVars>>

\* and the shell is marked killed.
Killed(t) ==
  /\ killTx[t] = "fired"
  /\ killTx' = [killTx EXCEPT ![t] = "done"]
  /\ proc' = [proc EXCEPT ![t] = IF kind[t] = "pipe" THEN "reaped" ELSE @]
  /\ FinishAs(t, "killed")
  /\ UNCHANGED <<registry, kind, back, outputVars, callVars>>
-----------------------------------------------------------------------------
(***************************************************************************)
(* Reading output: read_incremental and mark_read_to_end.                  *)
(***************************************************************************)
Larger(a, b) == IF a > b THEN a ELSE b
Smaller(a, b) == IF a < b THEN a ELSE b

\* Mutant: the cursor is advanced from where it was, not from where the tail begins.
ReadFromCursor(t, max) ==
  LET take == Smaller(total[t] - cursor[t], max)
      tailStart == total[t] - Smaller(total[t], MaxTail)
      start == Larger(cursor[t], tailStart)
  IN  /\ cursor' = [cursor EXCEPT ![t] = @ + take]
      /\ seen' = [seen EXCEPT ![t] = @ \cup (start + 1 .. start + take)]
      /\ gone' = [gone EXCEPT ![t] = @ \cup (cursor[t] + 1 .. start)]

\* The tail holds the last MaxTail units; at most max of the unread ones are returned.
ReadIncremental(t, max) ==
  LET tailStart == total[t] - Smaller(total[t], MaxTail)
      start == Larger(cursor[t], tailStart)
      take == Smaller(Smaller(total[t] - cursor[t], max), total[t] - start)
  IN  /\ cursor' = [cursor EXCEPT ![t] = start + take]
      /\ seen' = [seen EXCEPT ![t] = @ \cup (start + 1 .. start + take)]
      /\ gone' = [gone EXCEPT ![t] = @ \cup (cursor[t] + 1 .. start)]

ReadAll(t) == ReadIncremental(t, MaxOut)

\* BashOutput of a task id.
BashOutput(t) ==
  /\ Listed(t) /\ cursor[t] < total[t]
  /\ ReadIncremental(t, Chunk)
  /\ UNCHANGED <<shellVars, pipe, total, callVars, killVars>>

\* BashInput: what came before the input is not returned with the answer to it.
BashInput(t) ==
  /\ Listed(t) /\ kind[t] = "inter" /\ call[t] = "done"
  /\ cursor[t] < total[t]
  /\ cursor' = [cursor EXCEPT ![t] = total[t]]
  /\ gone' = [gone EXCEPT ![t] = @ \cup (cursor[t] + 1 .. total[t])]
  /\ UNCHANGED <<shellVars, pipe, total, seen, callVars, killVars>>
-----------------------------------------------------------------------------
(***************************************************************************)
(* Bash.  The foreground wait is one biased select: is it over? has it     *)
(* been sent to the background? is it late? cancelled? else a tick.        *)
(***************************************************************************)
Step(t, from, to) == call[t] = from /\ call' = [call EXCEPT ![t] = to]

StartForeground(t) == "foreground" \in Ways[t] /\ Register(t, "pipe", FALSE) /\ Step(t, "none", "poll")
StartBackground(t) == "background" \in Ways[t] /\ Register(t, "pipe", TRUE) /\ Step(t, "none", "arm")
TerminalTimesOut(t) == "terminal" \in Ways[t] /\ Register(t, "pty", TRUE) /\ Step(t, "none", "arm")

\* The surface's button; it does nothing to a finished shell.
Promote(t) ==
  /\ Listed(t) /\ ~Done(t) /\ ~back[t]
  /\ back' = [back EXCEPT ![t] = TRUE]
  /\ NotifyWaiters(t)
  /\ UNCHANGED <<registry, kind, verdict, killTx, proc, outputVars, callVars, missed>>

PollOver(t) ==
  /\ Done(t) /\ Step(t, "poll", "leave")
  /\ ReadAll(t)
  /\ UNCHANGED <<shellVars, pipe, total, armed, killVars>>

PollPending(t) ==
  /\ \/ ~Done(t) /\ Step(t, "poll", "background")
     \/ ~Done(t) /\ ~back[t] /\ Step(t, "background", "timers")
  /\ UNCHANGED <<shellVars, outputVars, armed, killVars>>

\* wait_background also returns when the shell is over.
PollBackground(t) ==
  /\ back[t] \/ Done(t)
  /\ Step(t, "background", "arm")
  /\ ReadIncremental(t, Chunk)
  /\ UNCHANGED <<shellVars, pipe, total, armed, killVars>>

TimesOut(t) ==
  /\ Step(t, "timers", "arm")
  /\ ReadIncremental(t, Chunk)
  /\ back' = [back EXCEPT ![t] = TRUE]
  /\ NotifyWaiters(t)
  /\ UNCHANGED <<registry, kind, verdict, killTx, proc, pipe, total, armed, missed>>

Tick(t) ==
  /\ Step(t, "timers", "poll")
  /\ ReadIncremental(t, Chunk)
  /\ UNCHANGED <<shellVars, pipe, total, armed, killVars>>

\* The run is stopped: the call goes through kill, then takes the shell off the registry.
Cancelled(t) ==
  /\ Step(t, "timers", "kill")
  /\ ReadAll(t)
  /\ kpc' = [kpc EXCEPT ![t] = IF Listed(t) /\ ~Done(t) THEN "take" ELSE "idle"]
  /\ UNCHANGED <<shellVars, pipe, total, armed, missed>>

Interrupted(t) ==
  /\ kind[t] = "pipe" /\ kpc[t] = "idle" /\ Step(t, "kill", "done")
  /\ Unregister(t)
  /\ UNCHANGED <<kind, verdict, back, killTx, proc, outputVars, armed, killVars>>

Leave(t) ==
  /\ Step(t, "leave", "done")
  /\ Unregister(t)
  /\ UNCHANGED <<kind, verdict, back, killTx, proc, outputVars, armed, killVars>>

Arm(t) ==
  /\ Step(t, "arm", "done")
  /\ armed' = armed \cup {t}
  /\ UNCHANGED <<shellVars, outputVars, killVars>>
-----------------------------------------------------------------------------
(***************************************************************************)
(* InteractiveBash: in the background and armed from the start, it waits   *)
(* for the end, the timeout or the first output.                           *)
(***************************************************************************)
StartInteractive(t) == "interactive" \in Ways[t] /\ Register(t, "inter", TRUE) /\ Step(t, "none", "armFirst")

ArmFirst(t) ==
  /\ Step(t, "armFirst", "look")
  /\ armed' = armed \cup {t}
  /\ UNCHANGED <<shellVars, outputVars, killVars>>

Look(t) ==
  /\ IF Done(t) THEN Step(t, "look", "settle") ELSE Step(t, "look", "lookTimers")
  /\ UNCHANGED <<shellVars, outputVars, armed, killVars>>

\* 150 ms after the end.
Settled(t) ==
  /\ Step(t, "settle", "leave")
  /\ ReadAll(t)
  /\ UNCHANGED <<shellVars, pipe, total, armed, killVars>>

\* The first output, or the timeout.
HandOver(t) ==
  /\ call[t] = "lookTimers"
  /\ call' \in {[call EXCEPT ![t] = "done"], [call EXCEPT ![t] = "look"]}
  /\ ReadIncremental(t, Chunk)
  /\ call'[t] = "look" => seen'[t] = {}
  /\ UNCHANGED <<shellVars, pipe, total, armed, killVars>>

LookCancelled(t) ==
  /\ Step(t, "lookTimers", "kill")
  /\ kpc' = [kpc EXCEPT ![t] = IF Listed(t) /\ ~Done(t) THEN "take" ELSE "idle"]
  /\ UNCHANGED <<shellVars, outputVars, armed, missed>>

LookInterrupted(t) ==
  /\ kind[t] = "inter" /\ kpc[t] = "idle" /\ Step(t, "kill", "done")
  /\ ReadAll(t)
  /\ UNCHANGED <<shellVars, pipe, total, armed, killVars>>
-----------------------------------------------------------------------------
(***************************************************************************)
(* BgTaskRegistry::kill, by a killer or by an interrupted call.            *)
(***************************************************************************)
KillStart(c) ==
  /\ kpc[c] = "idle" /\ killTx[Target(c)] = "held"
  /\ Listed(Target(c)) /\ ~Done(Target(c))
  /\ kpc' = [kpc EXCEPT ![c] = "take"]
  /\ UNCHANGED <<shellVars, outputVars, callVars, missed>>

KillSend(c) ==
  /\ kpc[c] = "take"
  /\ kpc' = [kpc EXCEPT ![c] = "check"]
  /\ killTx' = [killTx EXCEPT ![Target(c)] = IF @ = "held" THEN "sent" ELSE @]
  /\ UNCHANGED <<registry, kind, verdict, back, proc, outputVars, callVars, missed>>

\* wait_terminal looks at the state,
KillCheck(c) ==
  /\ kpc[c] = "check"
  /\ kpc' = [kpc EXCEPT ![c] = IF Done(Target(c)) THEN "idle" ELSE "gap"]
  /\ UNCHANGED <<shellVars, outputVars, callVars, missed>>

\* and then asks to be woken.
KillListen(c) ==
  /\ kpc[c] = "gap"
  /\ kpc' = [kpc EXCEPT ![c] = "asleep"]
  /\ UNCHANGED <<shellVars, outputVars, callVars, missed>>
-----------------------------------------------------------------------------
CallStep(t) ==
  \/ PollOver(t) \/ PollPending(t) \/ PollBackground(t) \/ TimesOut(t) \/ Tick(t)
  \/ Interrupted(t) \/ Leave(t) \/ Arm(t)
  \/ ArmFirst(t) \/ Look(t) \/ Settled(t) \/ HandOver(t) \/ LookInterrupted(t)

KillStep(c) == KillSend(c) \/ KillCheck(c) \/ KillListen(c)

Next ==
  \/ \E t \in Tasks :
       \/ StartForeground(t) \/ StartBackground(t) \/ TerminalTimesOut(t) \/ StartInteractive(t)
       \/ Produce(t) \/ ProcessEnds(t) \/ ReadPipe(t) \/ Reap(t) \/ TakeSignal(t) \/ Killed(t)
       \/ BashOutput(t) \/ BashInput(t) \/ Promote(t)
       \/ CallStep(t) \/ Cancelled(t) \/ LookCancelled(t)
  \/ \E c \in Killers : KillStart(c)
  \/ \E c \in Callers : KillStep(c)

\* The runtime polls every ready task.  Nothing makes a process end or write,
\* or a user click.
Fairness ==
  /\ \A t \in Tasks : WF_vars(TakeSignal(t)) /\ WF_vars(Killed(t))
  /\ \A c \in Callers : WF_vars(KillStep(c))

Spec == Init /\ [][Next]_vars /\ Fairness
-----------------------------------------------------------------------------
(***************************************************************************)
(* Properties.                                                             *)
(***************************************************************************)
Table == INSTANCE TaskTable WITH listed <- ToSet(registry)

\* The registry keeps TaskTable's promise, with exits, kills and evictions racing.
KeepsVerdicts == Table!TableSpec

\* A live process is always in the registry, where the model and the user can
\* see it and kill it: eviction at the limit and unregister never lose one.
NoOrphan == \A t \in Tasks : proc[t] = "alive" => Listed(t)

\* Every unit that reached the tail is returned once or passed over once: the
\* tail's overflow, the chunk limit and mark_read_to_end lose and repeat nothing.
OutputAccounted ==
  \A t \in Tasks :
    /\ seen[t] \cup gone[t] = 1 .. cursor[t] /\ seen[t] \cap gone[t] = {}
    /\ cursor[t] <= total[t]

\* A kill, by a user, the model or a stopped tool call, returns, unless the
\* verdict was announced between wait_terminal's look at the state and its
\* request to be woken.
KillReturns ==
  \A c \in Callers : (kpc[c] # "idle") ~> (kpc[c] = "idle" \/ c \in missed)
=============================================================================
