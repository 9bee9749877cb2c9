----------------------------- MODULE Suspension -----------------------------
(***************************************************************************)
(* A session's runs asleep on a timer, and its idle sentinel: the timers   *)
(* of WakeupScheduler (crates/agent-core/src/wakeup.rs), ScheduleWakeup    *)
(* and the end of agent_loop.rs's tool step, the resume handler and        *)
(* run_turn of crates/surface-session/src/lib.rs, and the memory task that *)
(* sets the sentinel after a run (harness.rs).  The process may stop and   *)
(* start again: run_checkpoint.json is all that survives.                  *)
(***************************************************************************)
EXTENDS Naturals, Sequences, FiniteSets

CONSTANTS
  MaxRuns,   \* bound: runs started
  MaxNow,    \* bound: the clock
  MaxStops,  \* bound: times the process stops
  Delay,     \* of a timer the model asks for
  IdleAfter  \* idle_consolidate_minutes

ASSUME SuspensionAssumption ==
  /\ MaxRuns \in Nat /\ MaxNow \in Nat /\ MaxStops \in Nat
  /\ Delay \in Nat \ {0} /\ IdleAfter \in Nat \ {0}

None == [run |-> 0, fire |-> 0]
Timers == [run : 1 .. MaxRuns, fire : 1 .. MaxNow]
Unset == [at |-> 0, late |-> FALSE]

VARIABLES
  up,        \* the process is running
  now,
  stops,     \* times the process has stopped
  crons,     \* the timers armed in this process
  events,    \* the channel to the dispatcher: runs whose timer went off
  inputs,    \* those of them sent to the session as turn inputs, not yet taken
  run,       \* the session's run: "off", "on", or on its way to sleep: "phase", "saved", "armed"
  runId,     \* the id of that run
  runs,      \* runs started
  phase,     \* the timer a tool has asked for in this run
  ckpt,      \* run_checkpoint.json: the suspended run and its timer, None without one
  idle,      \* the sentinel: when it fires, and (history) whether it was set with a run on
  extracts,  \* memory tasks of finished runs that have yet to set the sentinel
  unread,    \* history: runs whose timer went off into a queue that is never read
  refused,   \* history: runs whose timer went off and the session could not be opened
  failed,    \* history: runs whose wakeup turn ended before it took the checkpoint
  overdue    \* history: timers found past their time when the process started

timeVars == <<up, now, stops, overdue>>
eventVars == <<events, inputs, unread, refused, failed>>
runVars == <<run, runId, runs, phase, ckpt>>
idleVars == <<idle, extracts>>
vars == <<timeVars, crons, eventVars, runVars, idleVars>>

TypeOK ==
  /\ up \in BOOLEAN /\ now \in 0 .. MaxNow /\ stops \in 0 .. MaxStops
  /\ crons \subseteq Timers /\ overdue \subseteq Timers
  /\ events \in Seq(1 .. MaxRuns) /\ inputs \in Seq(1 .. MaxRuns)
  /\ unread \subseteq 1 .. MaxRuns /\ refused \subseteq 1 .. MaxRuns /\ failed \subseteq 1 .. MaxRuns
  /\ run \in {"off", "on", "phase", "saved", "armed"}
  /\ runId \in 0 .. MaxRuns /\ runs \in 0 .. MaxRuns
  /\ phase \in Timers \cup {None} /\ ckpt \in Timers \cup {None}
  /\ idle \in [at : 0 .. MaxNow + IdleAfter, late : BOOLEAN] /\ extracts \in 0 .. MaxRuns

Init ==
  /\ up = TRUE /\ now = 0 /\ stops = 0 /\ overdue = {} /\ crons = {}
  /\ events = << >> /\ inputs = << >> /\ unread = {} /\ refused = {} /\ failed = {}
  /\ run = "off" /\ runId = 0 /\ runs = 0 /\ phase = None /\ ckpt = None
  /\ idle = Unset /\ extracts = 0
-----------------------------------------------------------------------------
(***************************************************************************)
(* The session's runs.                                                     *)
(***************************************************************************)

\* run_turn: whatever starts it, a suspended run goes on under its own id.
ResumeOrStart ==
  /\ run = "off" /\ run' = "on"
  /\ IF ckpt = None
     THEN runs < MaxRuns /\ runs' = runs + 1 /\ runId' = runs + 1
     ELSE runs' = runs /\ runId' = ckpt.run

\* Mutant: the resumed run's timer stays armed.
BeginLeavingCron == ResumeOrStart /\ ckpt' = None /\ idle' = Unset /\ UNCHANGED <<phase, crons>>

\* Mutant: the sentinel is not cancelled.
BeginLeavingIdle ==
  /\ ResumeOrStart
  /\ ckpt' = None
  /\ crons' = {c \in crons : c.run # ckpt.run}
  /\ UNCHANGED <<phase, idle>>

\* Mutant: the checkpoint stays on disk.
BeginKeepingCheckpoint ==
  /\ ResumeOrStart
  /\ crons' = {c \in crons : c.run # ckpt.run}
  /\ idle' = Unset
  /\ UNCHANGED <<phase, ckpt>>

\* Its checkpoint is deleted and its timer discarded; the sentinel is cancelled.
BeginRun ==
  /\ ResumeOrStart
  /\ ckpt' = None
  /\ crons' = {c \in crons : c.run # ckpt.run}
  /\ idle' = Unset
  /\ UNCHANGED phase

\* A user's turn. One that fails before the checkpoint is taken leaves all this as it was.
UserTurn == BeginRun /\ UNCHANGED <<timeVars, eventVars, extracts>>

WakeupTurn ==
  /\ inputs # << >> /\ inputs' = Tail(inputs)
  /\ BeginRun
  /\ UNCHANGED <<timeVars, events, unread, refused, failed, extracts>>

\* The input is taken and no run begins: the stop flag skips it, or run_turn returns an
\* error on its way to the checkpoint (the session's guard, its load or append, the
\* provider, its token, the clients).  Nothing puts the input back.
WakeupFails ==
  /\ run = "off"
  /\ inputs # << >> /\ inputs' = Tail(inputs)
  /\ failed' = failed \cup {Head(inputs)}
  /\ UNCHANGED <<timeVars, crons, events, unread, refused, runVars, idleVars>>

\* ScheduleWakeup: the run goes to sleep after this tool step.
AskTimer ==
  /\ run = "on" /\ now + Delay <= MaxNow
  /\ run' = "phase" /\ phase' = [run |-> runId, fire |-> now + Delay]
  /\ UNCHANGED <<timeVars, crons, eventVars, runId, runs, ckpt, idleVars>>

SaveCheckpoint ==
  /\ run = "phase" /\ run' = "saved"
  /\ ckpt' = phase
  /\ UNCHANGED <<timeVars, crons, eventVars, runId, runs, phase, idleVars>>

ArmCron ==
  /\ run = "saved" /\ run' = "armed"
  /\ crons' = crons \cup {phase}
  /\ UNCHANGED <<timeVars, eventVars, runId, runs, phase, ckpt, idleVars>>

Suspend ==
  /\ run = "armed" /\ run' = "off"
  /\ phase' = None
  /\ UNCHANGED <<timeVars, crons, eventVars, runId, runs, ckpt, idleVars>>

\* RunFinished starts the memory task, which sets the sentinel when it is done.
FinishRun ==
  /\ run = "on" /\ run' = "off"
  /\ extracts' = extracts + 1
  /\ UNCHANGED <<timeVars, crons, eventVars, runId, runs, phase, ckpt, idle>>

ArmIdle ==
  /\ extracts > 0 /\ extracts' = extracts - 1
  /\ idle' = [at |-> now + IdleAfter, late |-> run # "off"]
  /\ UNCHANGED <<timeVars, crons, eventVars, runVars>>
-----------------------------------------------------------------------------
(***************************************************************************)
(* The scheduler's thread, and the resume handler it calls: a run accepts  *)
(* the event and reads it in its next drain, but one that is going to      *)
(* sleep drains no more; without a run it is the next turn's input.        *)
(***************************************************************************)
Due == {c \in crons : c.fire <= now}

ScanCron ==
  /\ Due # {}
  /\ \E c \in Due : events' = Append(events, c.run) /\ crons' = crons \ {c}
  /\ UNCHANGED <<timeVars, inputs, unread, refused, failed, runVars, idleVars>>

ScanIdle ==
  /\ idle.at # 0 /\ idle.at <= now
  /\ idle' = Unset
  /\ UNCHANGED <<timeVars, crons, eventVars, runVars, extracts>>

Inject == run = "on" /\ UNCHANGED <<inputs, unread, refused>>
InjectUnread ==
  /\ run \in {"phase", "saved", "armed"}
  /\ unread' = unread \cup {Head(events)}
  /\ UNCHANGED <<inputs, refused>>
SendInput == run \in {"armed", "off"} /\ inputs' = Append(inputs, Head(events)) /\ UNCHANGED <<unread, refused>>
CannotOpen == run = "off" /\ refused' = refused \cup {Head(events)} /\ UNCHANGED <<inputs, unread>>

Dispatch ==
  /\ events # << >> /\ events' = Tail(events)
  /\ Inject \/ InjectUnread \/ SendInput \/ CannotOpen
  /\ UNCHANGED <<timeVars, crons, failed, runVars, idleVars>>
-----------------------------------------------------------------------------
(***************************************************************************)
(* Time, and the process.                                                  *)
(***************************************************************************)
PassTime ==
  /\ now < MaxNow /\ now' = now + 1
  /\ UNCHANGED <<up, stops, overdue, crons, eventVars, runVars, idleVars>>

Stop ==
  /\ up /\ stops < MaxStops
  /\ up' = FALSE /\ stops' = stops + 1
  /\ crons' = {} /\ events' = << >> /\ inputs' = << >>
  /\ run' = "off" /\ phase' = None /\ idle' = Unset /\ extracts' = 0
  /\ UNCHANGED <<now, overdue, unread, refused, failed, runId, runs, ckpt>>

\* Mutant: no timers are recovered at the start.
StartForgetful ==
  /\ ~up /\ up' = TRUE
  /\ UNCHANGED <<now, stops, overdue, crons, eventVars, runVars, idleVars>>

\* recover_pending_crons, once the resume handler is set.
Start ==
  /\ ~up /\ up' = TRUE
  /\ crons' = IF ckpt # None /\ ckpt.fire > now THEN {ckpt} ELSE {}
  /\ overdue' = IF ckpt # None /\ ckpt.fire <= now THEN overdue \cup {ckpt} ELSE overdue
  /\ UNCHANGED <<now, stops, eventVars, runVars, idleVars>>
-----------------------------------------------------------------------------
Next ==
  \/ /\ up
     /\ \/ UserTurn \/ WakeupTurn \/ WakeupFails \/ FinishRun
        \/ AskTimer \/ SaveCheckpoint \/ ArmCron \/ Suspend
        \/ ArmIdle \/ ScanCron \/ ScanIdle \/ Dispatch
  \/ Stop \/ Start \/ PassTime

\* The scheduler keeps ticking and dispatching, a run that goes to sleep gets
\* there, and the input loop takes its inputs, whatever comes of them.  A run need not
\* end, and a stopped process need not start again.
Fairness ==
  /\ WF_vars(PassTime) /\ WF_vars(up /\ ScanCron) /\ WF_vars(up /\ Dispatch)
  /\ WF_vars(up /\ (SaveCheckpoint \/ ArmCron \/ Suspend))
  /\ WF_vars(up /\ (WakeupTurn \/ WakeupFails))

Spec == Init /\ [][Next]_vars /\ Fairness
-----------------------------------------------------------------------------
(***************************************************************************)
(* Properties.                                                             *)
(***************************************************************************)

\* An armed timer is the one the session's suspended run waits for: a turn that
\* resumes the run early takes its timer away, and a restart arms no other.
NoStrayTimer == \A c \in crons : c = ckpt

\* A session has a checkpoint only while its run sleeps or is about to, so no
\* run is resumed twice from one checkpoint.
CheckpointIsOfSleeper == ckpt # None => run \in {"off", "saved", "armed"}

\* The sentinel goes off with no run on, unless the memory task of the run
\* before set it after the next run had started.
SleepsWhenIdle ==
  [][idle.at # 0 /\ idle' = Unset /\ run # "off" /\ up' => idle.late]_vars

\* A suspended run is resumed, unless the process stops, its timer had run out
\* when the process started again, or its wakeup was lost: in the queue of a run that
\* was not yet asleep, at a session that could not be opened, or in a turn that ended
\* before it took the checkpoint.
SuspendedWakes ==
  \A c \in Timers :
    (ckpt = c) ~> (ckpt # c \/ ~up \/ c \in overdue \/ c.run \in unread \cup refused \cup failed)
=============================================================================
