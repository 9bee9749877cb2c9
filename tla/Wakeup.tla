------------------------------- MODULE Wakeup -------------------------------
(***************************************************************************)
(* How the end of a background task reaches its session: the watches of    *)
(* WakeupScheduler and its scan_bg (crates/agent-core/src/wakeup.rs), the  *)
(* tools that arm them (bash.rs, interactive_bash.rs, subagent/runner.rs), *)
(* the dispatcher, and the resume handler of                               *)
(* crates/surface-session/src/lib.rs.  Timers are in Suspension.           *)
(*                                                                         *)
(* The background tasks are those of TaskTable.  scan_bg copies the table  *)
(* of watches, looks at each task without the lock and then puts back what *)
(* it has kept.                                                            *)
(***************************************************************************)
EXTENDS TaskTable, Naturals, Sequences, FiniteSets

VARIABLES
  watches,   \* bg_watches: tasks whose end is to be announced
  scan,      \* scan_bg: its copy of watches, those it has yet to look at, those it keeps
  events,    \* the channel to the dispatcher: tasks that are over
  run,       \* the session's run: "off", "on", or "closing": it accepts inputs and reads no more
  armed,     \* history: tasks that were armed
  told,      \* history, per task: times a run or the session's input got its end
  blind,     \* history: tasks announced when the table no longer held them
  clobbered, \* history: tasks whose watch a scan wrote over
  unread,    \* history: tasks whose end went to a run that was closing
  refused    \* history: tasks whose end was dropped, the session could not be opened

watchVars == <<watches, scan, armed, clobbered>>
eventVars == <<events, told, blind, unread, refused>>
wakeupVars == <<tableVars, watchVars, run, eventVars>>

Resting == [on |-> FALSE, copy |-> {}, left |-> {}, still |-> {}]

WakeTypeOK ==
  /\ verdict \in [Tasks -> Verdicts] /\ listed \subseteq Tasks
  /\ watches \subseteq Tasks /\ armed \subseteq Tasks /\ clobbered \subseteq Tasks
  /\ scan \in [on : BOOLEAN, copy : SUBSET Tasks, left : SUBSET Tasks, still : SUBSET Tasks]
  /\ scan.left \subseteq scan.copy /\ scan.still \subseteq scan.copy \ scan.left
  /\ ~scan.on => scan = Resting
  /\ events \in Seq(Tasks)
  /\ run \in {"off", "on", "closing"}
  /\ told \in [Tasks -> Nat]
  /\ blind \subseteq Tasks /\ unread \subseteq Tasks /\ refused \subseteq Tasks

WakeInit ==
  /\ TableInit
  /\ watches = {} /\ scan = Resting /\ armed = {} /\ clobbered = {}
  /\ run = "off"
  /\ events = << >> /\ told = [t \in Tasks |-> 0] /\ blind = {} /\ unread = {} /\ refused = {}
-----------------------------------------------------------------------------
(***************************************************************************)
(* The session's runs and its tasks.                                       *)
(***************************************************************************)

\* A run is started by the user or by an announcement.  Its last safe point is
\* past when it finishes or goes to sleep; finishing refuses inputs from then on,
\* going to sleep accepts them until the loop has ended.
StartRun == run = "off" /\ run' = "on" /\ UNCHANGED <<tableVars, watchVars, eventVars>>
GoToSleep == run = "on" /\ run' = "closing" /\ UNCHANGED <<tableVars, watchVars, eventVars>>
EndRun == run \in {"on", "closing"} /\ run' = "off" /\ UNCHANGED <<tableVars, watchVars, eventVars>>

StartTask(t) == run = "on" /\ Add(t) /\ UNCHANGED <<watchVars, run, eventVars>>
EndTask(t) == Finish(t) /\ UNCHANGED <<watchVars, run, eventVars>>
DropTask(t) == Remove(t) /\ UNCHANGED <<watchVars, run, eventVars>>

\* The tool call that started the task, or a subagent's runner, arms it.
ArmTask(t) ==
  /\ run = "on" /\ verdict[t] # "none" /\ t \notin armed
  /\ watches' = watches \cup {t}
  /\ armed' = armed \cup {t}
  /\ UNCHANGED <<tableVars, scan, clobbered, run, eventVars>>
-----------------------------------------------------------------------------
(***************************************************************************)
(* The scan, every 500 ms.                                                 *)
(***************************************************************************)
ScanStart ==
  /\ ~scan.on
  /\ scan' = [on |-> TRUE, copy |-> watches, left |-> watches, still |-> {}]
  /\ UNCHANGED <<tableVars, watches, armed, clobbered, run, eventVars>>

\* A task that is not in the table counts as over; a killed one is not announced.
IsOver(t) == t \notin listed \/ Terminal(verdict[t])
WasKilled(t) == t \in listed /\ verdict[t] = "killed"

Look(t, keep, announce) ==
  /\ scan.on /\ t \in scan.left
  /\ scan' = [scan EXCEPT !.left = @ \ {t}, !.still = IF keep THEN @ \cup {t} ELSE @]
  /\ events' = IF announce THEN Append(events, t) ELSE events
  /\ blind' = IF announce /\ t \notin listed THEN blind \cup {t} ELSE blind
  /\ UNCHANGED <<tableVars, watches, armed, clobbered, run, told, unread, refused>>

\* Mutants: a watch is kept although its end was announced; killed tasks are
\* announced; a watch is dropped although its task still runs.
LookKeepsAll(t) == Look(t, TRUE, IsOver(t) /\ ~WasKilled(t))
LookTellsAll(t) == Look(t, ~IsOver(t), IsOver(t))
LookKeepsNone(t) == Look(t, FALSE, IsOver(t) /\ ~WasKilled(t))

LookAt(t) == Look(t, ~IsOver(t), IsOver(t) /\ ~WasKilled(t))

\* bg_watches = still: what was armed since the copy is gone.
ScanEnd ==
  /\ scan.on /\ scan.left = {}
  /\ watches' = scan.still
  /\ scan' = Resting
  /\ clobbered' = clobbered \cup (watches \ scan.copy)
  /\ UNCHANGED <<tableVars, armed, run, eventVars>>
-----------------------------------------------------------------------------
(***************************************************************************)
(* The dispatcher calls the resume handler: a run takes the event in its   *)
(* next drain; one that is closing accepts it and drains no more; without  *)
(* a run it is the next turn's input; and a session that cannot be opened  *)
(* loses it.                                                               *)
(***************************************************************************)
Tell == told' = [told EXCEPT ![Head(events)] = @ + 1] /\ UNCHANGED <<unread, refused>>
TellClosing == run = "closing" /\ unread' = unread \cup {Head(events)} /\ UNCHANGED <<told, refused>>
CannotOpen == run = "off" /\ refused' = refused \cup {Head(events)} /\ UNCHANGED <<told, unread>>

Dispatch ==
  /\ events # << >>
  /\ events' = Tail(events)
  /\ Tell \/ TellClosing \/ CannotOpen
  /\ UNCHANGED <<tableVars, watchVars, run, blind>>
-----------------------------------------------------------------------------
WakeNext ==
  \/ \E t \in Tasks : StartTask(t) \/ EndTask(t) \/ DropTask(t) \/ ArmTask(t) \/ LookAt(t)
  \/ ScanStart \/ ScanEnd \/ Dispatch
  \/ StartRun \/ GoToSleep \/ EndRun

\* The scheduler's thread keeps scanning and dispatching; no task or run need end.
WakeFairness ==
  /\ WF_wakeupVars(ScanStart \/ ScanEnd) /\ WF_wakeupVars(Dispatch)
  /\ \A t \in Tasks : WF_wakeupVars(LookAt(t))

WakeSpec == WakeInit /\ [][WakeNext]_wakeupVars /\ WakeFairness
-----------------------------------------------------------------------------
(***************************************************************************)
(* Properties.                                                             *)
(***************************************************************************)
Queued(t) == \E i \in DOMAIN events : events[i] = t
QueuedTwice(t) == \E i, j \in DOMAIN events : i # j /\ events[i] = t /\ events[j] = t

\* The end of a task is announced once: a watch that a scan has reported does
\* not come back, whatever is armed while the scan runs.
AnnouncedOnce ==
  \A t \in Tasks : told[t] <= 1 /\ ~QueuedTwice(t) /\ (told[t] = 1 => ~Queued(t))

\* The end of a task somebody killed is not news, unless the table had already
\* let the task go when the scan looked.
KilledIsSilent ==
  \A t \in Tasks : verdict[t] = "killed" /\ (told[t] > 0 \/ Queued(t)) => t \in blind

\* A task that is armed and ends is announced to the run or to the session's input,
\* unless a scan wrote over its watch, its run was closing or the session could not
\* be opened.  (A turn that fails with what it was given: WakeupFails of Suspension;
\* a run that fails with what is in its queue: lost, of SessionRun.)
EndIsTold ==
  \A t \in Tasks :
    (t \in armed /\ verdict[t] = "exited") ~>
      (told[t] > 0 \/ t \in clobbered \cup unread \cup refused)
=============================================================================
