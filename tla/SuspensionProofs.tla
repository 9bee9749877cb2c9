-------------------------- MODULE SuspensionProofs --------------------------
(***************************************************************************)
(* Proofs of the safety properties of Suspension, for any number of runs,  *)
(* restarts and ticks.                                                     *)
(*                                                                         *)
(* The inductive invariant ties the three places in which a suspended run  *)
(* is recorded to each other: the step its run is at, the checkpoint on    *)
(* disk and the timer in memory (RunInv, NoStrayTimer). The count of runs  *)
(* and of memory tasks that are still to come bounds the ids (Load). For   *)
(* the sentinel it is enough that one set while a run is on is marked as   *)
(* late (IdleInv). On top of it, a sleeping run's timer is followed        *)
(* through the crons, the channel to the dispatcher and the session's      *)
(* inputs (SleeperIsWatched).                                              *)
(***************************************************************************)
EXTENDS Suspension, TLAPS, SequenceTheorems

\* Runs that have not yet set the sentinel: the memory tasks still at work, and the one
\* run that is on or asleep.
Load == extracts + (IF run # "off" \/ ckpt # None THEN 1 ELSE 0)

\* The step of the run, the timer it asked for and the checkpoint agree with each
\* other.
RunInv ==
  /\ run # "off" => runId \in 1 .. MaxRuns
  /\ run \in {"off", "on"} => phase = None
  /\ run \in {"phase", "saved", "armed"} => phase \in Timers
  /\ run \in {"saved", "armed"} => ckpt = phase
  /\ ckpt # None => run \in {"off", "saved", "armed"}
  /\ Load <= runs

\* A sentinel that is set while a run is on was set late, by the memory task of an
\* earlier run.
IdleInv == idle.at # 0 /\ run # "off" => idle.late

\* The run r is in the queue q.
Queued(q, r) == \E i \in DOMAIN q : q[i] = r

\* While the process runs, a session with a checkpoint is on its way to sleep, or its
\* timer is armed or under way to it, or the timer went one of the four ways the
\* histories overdue, unread, refused and failed record. The safety part of SuspendedWakes.
SleeperIsWatched ==
  up /\ ckpt # None =>
    \/ run = "saved" \/ ckpt \in crons \/ Queued(events, ckpt.run) \/ Queued(inputs, ckpt.run)
    \/ ckpt \in overdue \/ ckpt.run \in unread \cup refused \cup failed

\* The inductive invariant.
IInv == TypeOK /\ RunInv /\ NoStrayTimer /\ IdleInv

\* The absent timer is not a timer.
LEMMA NoneIsNoTimer == None \notin Timers
BY DEF None, Timers

\* A timer names a run and a time within their bounds.
LEMMA TimerFields == \A c \in Timers : c.run \in 1 .. MaxRuns /\ c.fire \in 1 .. MaxNow
BY DEF Timers

\* Append, Head and Tail keep to the elements of a queue.
LEMMA QueueTypes ==
  ASSUME NEW S, NEW q \in Seq(S)
  PROVE  /\ \A r \in S : Append(q, r) \in Seq(S)
         /\ q # << >> => Head(q) \in S /\ Tail(q) \in Seq(S)
OBVIOUS

\* What an Append adds to a queue.
LEMMA QueuedAppend ==
  ASSUME NEW S, NEW q \in Seq(S), NEW r \in S, NEW x
  PROVE  Queued(Append(q, r), x) <=> Queued(q, x) \/ x = r
<1>1. /\ DOMAIN Append(q, r) = 1 .. Len(q) + 1 /\ DOMAIN q = 1 .. Len(q) /\ Len(q) \in Nat
      /\ \A i \in 1 .. Len(q) : Append(q, r)[i] = q[i]
      /\ Append(q, r)[Len(q) + 1] = r
  OBVIOUS
<1> QED
  BY <1>1 DEF Queued

\* What Tail takes off a queue.
LEMMA QueuedTail ==
  ASSUME NEW S, NEW q \in Seq(S), q # << >>, NEW x
  PROVE  Queued(q, x) <=> Queued(Tail(q), x) \/ x = Head(q)
<1>1. /\ Len(Tail(q)) = Len(q) - 1 /\ DOMAIN Tail(q) = 1 .. Len(Tail(q))
      /\ DOMAIN q = 1 .. Len(q) /\ Len(q) \in Nat \ {0}
      /\ \A i \in DOMAIN Tail(q) : Tail(q)[i] = q[i + 1]
      /\ Head(q) = q[1]
  OBVIOUS
<1>2. \A i \in DOMAIN q : i = 1 \/ (i - 1 \in DOMAIN Tail(q) /\ Tail(q)[i - 1] = q[i])
  BY <1>1
<1>3. \A i \in DOMAIN Tail(q) : i + 1 \in DOMAIN q
  BY <1>1
<1>4. 1 \in DOMAIN q
  BY <1>1
<1> QED
  BY <1>1, <1>2, <1>3, <1>4 DEF Queued

\* The sentinel that is not set has the type of one.
LEMMA UnsetType == Unset \in [at : 0 .. MaxNow + IdleAfter, late : BOOLEAN]
BY SuspensionAssumption DEF Unset

\* The invariants hold in the initial states.
LEMMA InitInv == Init => IInv /\ SleeperIsWatched
BY SuspensionAssumption DEF Init, IInv, TypeOK, RunInv, NoStrayTimer, IdleInv, SleeperIsWatched, None, Unset, Load

\* What the start of a run does, whether it resumes a checkpoint or is a new one: it
\* takes the checkpoint and its timer with it and counts no run twice.
LEMMA Begin ==
  ASSUME IInv, BeginRun
  PROVE  /\ run = "off" /\ run' = "on" /\ ckpt' = None /\ phase' = None /\ phase = None
         /\ crons' = {} /\ idle' = Unset
         /\ runs' \in 0 .. MaxRuns /\ runId' \in 1 .. MaxRuns
         /\ extracts + 1 <= runs'
<1>1. run = "off" /\ run' = "on" /\ ckpt' = None /\ phase' = phase /\ idle' = Unset
  BY DEF BeginRun, ResumeOrStart
<1>2. phase = None
  BY <1>1 DEF IInv, RunInv
<1>3. crons' = {}
  BY DEF BeginRun, IInv, NoStrayTimer
<1>4. CASE ckpt = None
  <2>1. runs < MaxRuns /\ runs' = runs + 1 /\ runId' = runs + 1
    BY <1>4 DEF BeginRun, ResumeOrStart
  <2>2. runs \in 0 .. MaxRuns /\ extracts \in 0 .. MaxRuns /\ extracts <= runs
    BY <1>1, <1>4, SuspensionAssumption DEF IInv, TypeOK, RunInv, Load
  <2> QED
    BY <1>1, <1>2, <1>3, <2>1, <2>2, SuspensionAssumption
<1>5. CASE ckpt # None
  <2>1. runs' = runs /\ runId' = ckpt.run
    BY <1>5 DEF BeginRun, ResumeOrStart
  <2>2. ckpt.run \in 1 .. MaxRuns
    BY <1>5, TimerFields DEF IInv, TypeOK
  <2>3. runs \in 0 .. MaxRuns /\ extracts + 1 <= runs
    BY <1>5 DEF IInv, TypeOK, RunInv, Load
  <2> QED
    BY <1>1, <1>2, <1>3, <2>1, <2>2, <2>3
<1> QED
  BY <1>4, <1>5

\* Every step keeps the invariant.
LEMMA NextInv == IInv /\ [Next]_vars => IInv'
<1> SUFFICES ASSUME IInv, [Next]_vars PROVE IInv'
  OBVIOUS
<1> USE SuspensionAssumption
<1>1. CASE UserTurn
  <2>1. UNCHANGED <<timeVars, eventVars, extracts>> /\ BeginRun
    BY <1>1 DEF UserTurn
  <2>2. TypeOK'
    <3>1. UNCHANGED <<up, now, stops, overdue, events, inputs, unread, refused, failed, extracts>>
      BY <2>1 DEF timeVars, eventVars
    <3> QED
      BY <2>1, <3>1, Begin, UnsetType DEF IInv, TypeOK
  <2>3. RunInv'
    BY <2>1, Begin DEF IInv, TypeOK, RunInv, Load
  <2>4. NoStrayTimer' /\ IdleInv'
    BY <2>1, Begin DEF NoStrayTimer, IdleInv, Unset
  <2> QED
    BY <2>2, <2>3, <2>4 DEF IInv
<1>2. CASE WakeupTurn
  <2>1. UNCHANGED <<timeVars, events, unread, refused, failed, extracts>> /\ BeginRun
    BY <1>2 DEF WakeupTurn
  <2>2. inputs' \in Seq(1 .. MaxRuns)
    BY <1>2 DEF WakeupTurn, IInv, TypeOK
  <2>3. TypeOK'
    BY <2>1, <2>2, Begin, UnsetType DEF IInv, TypeOK, timeVars
  <2>4. RunInv'
    BY <2>1, Begin DEF IInv, TypeOK, RunInv, Load
  <2>5. NoStrayTimer' /\ IdleInv'
    BY <2>1, Begin DEF NoStrayTimer, IdleInv, Unset
  <2> QED
    BY <2>3, <2>4, <2>5 DEF IInv
<1>3. CASE FinishRun
  <2>1. extracts' = extracts + 1 /\ run = "on" /\ run' = "off"
        /\ UNCHANGED <<timeVars, crons, eventVars, runId, runs, phase, ckpt, idle>>
    BY <1>3 DEF FinishRun
  <2>2. ckpt = None /\ phase = None /\ extracts + 1 <= runs
    BY <2>1 DEF IInv, RunInv, Load
  <2> QED
    BY <2>1, <2>2 DEF IInv, TypeOK, RunInv, NoStrayTimer, IdleInv, Load, timeVars, eventVars
<1>4. CASE AskTimer
  <2>1. now + Delay \in 1 .. MaxNow /\ runId \in 1 .. MaxRuns /\ ckpt = None
    BY <1>4 DEF AskTimer, IInv, TypeOK, RunInv
  <2>2. phase' \in Timers
    BY <1>4, <2>1 DEF AskTimer, Timers
  <2> QED
    BY <1>4, <2>1, <2>2 DEF AskTimer, IInv, TypeOK, RunInv, NoStrayTimer, IdleInv, Load, timeVars, eventVars, idleVars
<1>5. CASE SaveCheckpoint
  <2>1. crons = {} /\ phase \in Timers
    BY <1>5, NoneIsNoTimer DEF SaveCheckpoint, IInv, TypeOK, RunInv, NoStrayTimer
  <2> QED
    BY <1>5, <2>1 DEF SaveCheckpoint, IInv, TypeOK, RunInv, NoStrayTimer, IdleInv, Load, timeVars, eventVars, idleVars
<1>6. CASE ArmCron
  BY <1>6 DEF ArmCron, IInv, TypeOK, RunInv, NoStrayTimer, IdleInv, Load, timeVars, eventVars, idleVars
<1>7. CASE Suspend
  BY <1>7, NoneIsNoTimer DEF Suspend, IInv, TypeOK, RunInv, NoStrayTimer, IdleInv, Load, timeVars, eventVars, idleVars
<1>8. CASE ArmIdle
  <2>1. idle' = [at |-> now + IdleAfter, late |-> run # "off"] /\ extracts' = extracts - 1 /\ extracts > 0
        /\ UNCHANGED <<timeVars, crons, eventVars, runVars>>
    BY <1>8 DEF ArmIdle
  <2>2. idle' \in [at : 0 .. MaxNow + IdleAfter, late : BOOLEAN] /\ extracts' \in 0 .. MaxRuns
    BY <2>1 DEF IInv, TypeOK
  <2>3. TypeOK'
    BY <2>1, <2>2 DEF IInv, TypeOK, timeVars, eventVars, runVars
  <2>4. RunInv'
    BY <2>1 DEF IInv, TypeOK, RunInv, Load, runVars
  <2>5. NoStrayTimer' /\ IdleInv'
    BY <2>1 DEF IInv, NoStrayTimer, IdleInv, runVars
  <2> QED
    BY <2>3, <2>4, <2>5 DEF IInv
<1>9. CASE ScanCron
  <2>1. PICK c \in Due : events' = Append(events, c.run) /\ crons' = crons \ {c}
    BY <1>9 DEF ScanCron
  <2>2. c.run \in 1 .. MaxRuns
    BY TimerFields DEF Due, IInv, TypeOK
  <2>3. events' \in Seq(1 .. MaxRuns)
    BY <2>1, <2>2 DEF IInv, TypeOK
  <2>4. UNCHANGED <<timeVars, inputs, unread, refused, failed, runVars, idleVars>>
    BY <1>9 DEF ScanCron
  <2>5. TypeOK'
    BY <2>1, <2>3, <2>4 DEF IInv, TypeOK, timeVars, runVars, idleVars
  <2>6. RunInv' /\ IdleInv'
    BY <2>4 DEF IInv, RunInv, IdleInv, Load, runVars, idleVars
  <2>7. NoStrayTimer'
    BY <2>1, <2>4 DEF IInv, NoStrayTimer, runVars
  <2> QED
    BY <2>5, <2>6, <2>7 DEF IInv
<1>10. CASE ScanIdle
  BY <1>10 DEF ScanIdle, Unset, IInv, TypeOK, RunInv, NoStrayTimer, IdleInv, Load, timeVars, eventVars, runVars
<1>11. CASE Dispatch
  <2>1. events' \in Seq(1 .. MaxRuns) /\ Head(events) \in 1 .. MaxRuns
    BY <1>11 DEF Dispatch, IInv, TypeOK
  <2>2. inputs' \in Seq(1 .. MaxRuns) /\ unread' \subseteq 1 .. MaxRuns /\ refused' \subseteq 1 .. MaxRuns
    <3>1. inputs \in Seq(1 .. MaxRuns) /\ unread \subseteq 1 .. MaxRuns /\ refused \subseteq 1 .. MaxRuns
      BY DEF IInv, TypeOK
    <3>2. \/ UNCHANGED <<inputs, unread, refused>>
          \/ unread' = unread \cup {Head(events)} /\ UNCHANGED <<inputs, refused>>
          \/ inputs' = Append(inputs, Head(events)) /\ UNCHANGED <<unread, refused>>
          \/ refused' = refused \cup {Head(events)} /\ UNCHANGED <<inputs, unread>>
      BY <1>11 DEF Dispatch, Inject, InjectUnread, SendInput, CannotOpen
    <3>3. Append(inputs, Head(events)) \in Seq(1 .. MaxRuns)
      BY <2>1, <3>1, QueueTypes
    <3>4. CASE UNCHANGED <<inputs, unread, refused>>
      BY <3>1, <3>4
    <3>5. CASE unread' = unread \cup {Head(events)} /\ UNCHANGED <<inputs, refused>>
      BY <2>1, <3>1, <3>5
    <3>6. CASE inputs' = Append(inputs, Head(events)) /\ UNCHANGED <<unread, refused>>
      BY <3>1, <3>3, <3>6
    <3>7. CASE refused' = refused \cup {Head(events)} /\ UNCHANGED <<inputs, unread>>
      BY <2>1, <3>1, <3>7
    <3> QED
      BY <3>2, <3>4, <3>5, <3>6, <3>7
  <2>3. UNCHANGED <<timeVars, crons, failed, runVars, idleVars>>
    BY <1>11 DEF Dispatch
  <2>4. TypeOK'
    BY <2>1, <2>2, <2>3 DEF IInv, TypeOK, timeVars, runVars, idleVars
  <2>5. RunInv' /\ IdleInv' /\ NoStrayTimer'
    BY <2>3 DEF IInv, RunInv, IdleInv, NoStrayTimer, Load, runVars, idleVars
  <2> QED
    BY <2>4, <2>5 DEF IInv
<1>12. CASE Stop
  <2>1. RunInv'
    BY <1>12 DEF Stop, IInv, TypeOK, RunInv, Load
  <2>2. TypeOK'
    <3>1. events' = << >> /\ inputs' = << >> /\ << >> \in Seq(1 .. MaxRuns)
      BY <1>12 DEF Stop
    <3>2. stops \in 0 .. MaxStops /\ stops < MaxStops /\ stops' = stops + 1 /\ extracts' = 0
      BY <1>12 DEF Stop, IInv, TypeOK
    <3>3. stops' \in 0 .. MaxStops /\ extracts' \in 0 .. MaxRuns
      BY <3>2
    <3>4. up' \in BOOLEAN
      BY <1>12 DEF Stop
    <3> QED
      BY <1>12, <3>1, <3>3, <3>4, UnsetType DEF Stop, IInv, TypeOK
  <2>3. NoStrayTimer' /\ IdleInv'
    BY <1>12 DEF Stop, Unset, NoStrayTimer, IdleInv
  <2> QED
    BY <2>1, <2>2, <2>3 DEF IInv
<1>13. CASE Start
  BY <1>13 DEF Start, IInv, TypeOK, RunInv, NoStrayTimer, IdleInv, Load, eventVars, runVars, idleVars
<1>14. CASE PassTime
  BY <1>14 DEF PassTime, IInv, TypeOK, RunInv, NoStrayTimer, IdleInv, Load, eventVars, runVars, idleVars
<1>15. CASE WakeupFails
  <2>1. inputs' \in Seq(1 .. MaxRuns) /\ Head(inputs) \in 1 .. MaxRuns
    BY <1>15, QueueTypes DEF WakeupFails, IInv, TypeOK
  <2>2. /\ failed' = failed \cup {Head(inputs)}
        /\ UNCHANGED <<timeVars, crons, events, unread, refused, runVars, idleVars>>
    BY <1>15 DEF WakeupFails
  <2>3. TypeOK'
    BY <2>1, <2>2 DEF IInv, TypeOK, timeVars, runVars, idleVars
  <2>4. RunInv' /\ IdleInv' /\ NoStrayTimer'
    BY <2>2 DEF IInv, RunInv, IdleInv, NoStrayTimer, Load, runVars, idleVars
  <2> QED
    BY <2>3, <2>4 DEF IInv
<1>16. CASE UNCHANGED vars
  BY <1>16 DEF vars, IInv, TypeOK, RunInv, NoStrayTimer, IdleInv, Load, timeVars, eventVars, runVars, idleVars
<1> QED
  BY <1>1, <1>2, <1>3, <1>4, <1>5, <1>6, <1>7, <1>8, <1>9, <1>10, <1>11, <1>12, <1>13, <1>14, <1>15, <1>16 DEF Next

\* The variables of sessions, timers and the sentinel keep their types, in every
\* behaviour of the model.
THEOREM TypeCorrect == Spec => []TypeOK
<1>1. IInv => TypeOK
  BY DEF IInv
<1> QED
  BY <1>1, InitInv, NextInv, PTL DEF Spec

\* The invariant holds throughout.
LEMMA Inductive == Spec => []IInv
  BY InitInv, NextInv, PTL DEF Spec

\* A timer that is armed belongs to the run that sleeps: resuming a run early takes its
\* timer away, a restart arms only the checkpoint on disk (NoStrayTimer).
THEOREM TimersBelong == Spec => []NoStrayTimer
<1>1. IInv => NoStrayTimer
  BY DEF IInv
<1> QED
  BY <1>1, Inductive, PTL

\* run_checkpoint.json exists only while its run sleeps or is about to, so no run is
\* resumed twice from it (CheckpointIsOfSleeper).
THEOREM OnlySleepersHaveCheckpoints == Spec => []CheckpointIsOfSleeper
<1>1. IInv => CheckpointIsOfSleeper
  BY DEF IInv, RunInv, CheckpointIsOfSleeper
<1> QED
  BY <1>1, Inductive, PTL

\* A step at which the sentinel goes off with a run on finds it marked as late.
LEMMA IdleStep ==
  IInv /\ [Next]_vars => [idle.at # 0 /\ idle' = Unset /\ run # "off" /\ up' => idle.late]_vars
<1> SUFFICES ASSUME IInv, Next, idle.at # 0, idle' = Unset, run # "off", up' PROVE idle.late
  BY DEF vars
<1> QED
  BY DEF IInv, IdleInv

\* The idle sentinel goes off with no run on, unless a memory task set it after the
\* next run had begun (SleepsWhenIdle).
THEOREM SentinelSleeps == Spec => SleepsWhenIdle
  BY Inductive, IdleStep, PTL DEF Spec, SleepsWhenIdle

\* Every step keeps the sleeper watched.
LEMMA SleeperStep == IInv /\ SleeperIsWatched /\ [Next]_vars => SleeperIsWatched'
<1> SUFFICES ASSUME IInv, SleeperIsWatched, [Next]_vars, up', ckpt' # None
             PROVE  SleeperIsWatched'
  BY DEF SleeperIsWatched
<1>0. /\ events \in Seq(1 .. MaxRuns) /\ inputs \in Seq(1 .. MaxRuns)
      /\ ckpt \in Timers \cup {None} /\ crons \subseteq Timers
  BY DEF IInv, TypeOK
<1>1. CASE UserTurn \/ WakeupTurn
  BY <1>1, Begin DEF UserTurn, WakeupTurn
<1>2. CASE FinishRun \/ AskTimer
  BY <1>2 DEF FinishRun, AskTimer, IInv, RunInv
<1>3. CASE SaveCheckpoint
  BY <1>3 DEF SaveCheckpoint, SleeperIsWatched
<1>4. CASE ArmCron
  BY <1>4 DEF ArmCron, SleeperIsWatched, IInv, RunInv
<1>5. CASE Suspend \/ ArmIdle \/ ScanIdle \/ PassTime
  <2>1. UNCHANGED <<up, ckpt, crons, events, inputs, overdue, unread, refused, failed>>
    BY <1>5 DEF Suspend, ArmIdle, ScanIdle, PassTime, timeVars, eventVars, runVars
  <2>2. run = "saved" => run' = "saved"
    BY <1>5 DEF Suspend, ArmIdle, ScanIdle, PassTime, runVars
  <2> QED
    BY <2>1, <2>2 DEF SleeperIsWatched
<1>6. CASE ScanCron
  <2>1. PICK c \in Due : events' = Append(events, c.run) /\ crons' = crons \ {c}
    BY <1>6 DEF ScanCron
  <2>2. UNCHANGED <<up, ckpt, run, inputs, overdue, unread, refused, failed>>
    BY <1>6 DEF ScanCron, timeVars, runVars
  <2>3. c.run \in 1 .. MaxRuns
    BY <1>0, TimerFields DEF Due
  <2>4. Queued(events', ckpt.run) <=> Queued(events, ckpt.run) \/ ckpt.run = c.run
    <3>1. Queued(Append(events, c.run), ckpt.run) <=> Queued(events, ckpt.run) \/ ckpt.run = c.run
      <4> DEFINE S == 1 .. MaxRuns
      <4>1. events \in Seq(S) /\ c.run \in S
        BY <1>0, <2>3
      <4> HIDE DEF S
      <4> QED
        BY <4>1, QueuedAppend
    <3> QED
      BY <2>1, <3>1
  <2> QED
    BY <2>1, <2>2, <2>4 DEF SleeperIsWatched
<1>7. CASE Dispatch
  <2>0. UNCHANGED <<up, ckpt, run, crons, overdue, failed>>
    BY <1>7 DEF Dispatch, timeVars, runVars
  <2>1. events # << >> /\ events' = Tail(events) /\ Head(events) \in 1 .. MaxRuns
    BY <1>0, <1>7, QueueTypes DEF Dispatch
  <2>2. Queued(events, ckpt.run) <=> Queued(events', ckpt.run) \/ ckpt.run = Head(events)
    BY <1>0, <2>1, QueuedTail
  <2>3. CASE Inject
    BY <2>0, <2>1, <2>3 DEF Inject, IInv, RunInv
  <2>4. CASE InjectUnread \/ CannotOpen
    BY <2>0, <2>1, <2>2, <2>4 DEF InjectUnread, CannotOpen, SleeperIsWatched
  <2>5. CASE SendInput
    <3>1. Queued(Append(inputs, Head(events)), ckpt.run) <=> Queued(inputs, ckpt.run) \/ ckpt.run = Head(events)
      <4> DEFINE S == 1 .. MaxRuns
      <4>1. inputs \in Seq(S) /\ Head(events) \in S
        BY <1>0, <2>1
      <4> HIDE DEF S
      <4> QED
        BY <4>1, QueuedAppend
    <3> QED
      BY <2>0, <2>1, <2>2, <2>5, <3>1 DEF SendInput, SleeperIsWatched
  <2> QED
    BY <1>7, <2>3, <2>4, <2>5 DEF Dispatch
<1>8. CASE Stop
  BY <1>8 DEF Stop
<1>9. CASE Start
  <2>1. ckpt' = ckpt /\ ckpt \in Timers /\ now \in Nat
    BY <1>0, <1>9 DEF Start, runVars, IInv, TypeOK
  <2>2. ckpt.fire > now \/ ckpt.fire <= now
    BY <2>1, TimerFields
  <2>3. ckpt \in crons' \/ ckpt \in overdue'
    BY <1>9, <2>1, <2>2 DEF Start
  <2> QED
    BY <2>1, <2>3 DEF SleeperIsWatched
<1>10. CASE WakeupFails
  <2>1. inputs # << >> /\ inputs' = Tail(inputs) /\ failed' = failed \cup {Head(inputs)}
        /\ UNCHANGED <<up, ckpt, run, crons, events, overdue, unread, refused>>
    BY <1>10 DEF WakeupFails, timeVars, runVars
  <2>2. Queued(inputs, ckpt.run) <=> Queued(inputs', ckpt.run) \/ ckpt.run = Head(inputs)
    BY <1>0, <2>1, QueuedTail
  <2> QED
    BY <2>1, <2>2 DEF SleeperIsWatched
<1>11. CASE UNCHANGED vars
  BY <1>11 DEF vars, SleeperIsWatched, timeVars, eventVars, runVars
<1> QED
  BY <1>1, <1>2, <1>3, <1>4, <1>5, <1>6, <1>7, <1>8, <1>9, <1>10, <1>11 DEF Next

\* No suspended run is forgotten while the process runs: a timer is armed or on its way
\* to it, or it was lost in one of the four named ways (SleeperIsWatched).
THEOREM SleepersWatched == Spec => []SleeperIsWatched
  BY InitInv, Inductive, SleeperStep, PTL DEF Spec
=============================================================================
