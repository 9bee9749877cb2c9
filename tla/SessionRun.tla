----------------------------- MODULE SessionRun -----------------------------
(***************************************************************************)
(* One session of one surface process: the senders that post inputs, the   *)
(* session task (the input loop of RuntimeRegistry::ensure and run_turn,   *)
(* crates/surface-session/src/lib.rs), the agent task (run_agent,          *)
(* crates/agent-core/src/agent_loop.rs) and the runtime state they share   *)
(* (SessionRuntimeState, crates/agent-core/src/session_hub.rs).            *)
(*                                                                         *)
(* The three run concurrently.  An input reaches the session by one of two *)
(* ways: it is pushed into the queue of the run in progress (inject), or   *)
(* it is sent to the input loop, which starts a run for it.  The agent     *)
(* drains the queue at its safe points and closes it (accepting) when it   *)
(* winds down.                                                             *)
(*                                                                         *)
(* Data abstraction: an input is a model value, session.jsonl is the       *)
(* sequence of the inputs written to it, and what the model answers is     *)
(* reduced to what the loop does next.  Disk errors are left out.          *)
(***************************************************************************)
EXTENDS Integers, Sequences

CONSTANTS
  Posts,     \* inputs sent by surfaces that fall back from inject to input_tx
  WebPosts,  \* inputs sent by cmd_send_message of the web server
  NoInput    \* the session task has no input in hand

Inputs == Posts \cup WebPosts

ASSUME InputsAssumption ==
  /\ NoInput \notin Inputs
  /\ Posts \cap WebPosts = {}

VARIABLES
  sender,     \* per input: how far its sender has got
  inbox,      \* the channel of input_tx
  task,       \* where the session task is
  hand,       \* the input run_turn works on
  guard,      \* who holds the SessionRunGuard: "none", "us" or "other"
  stopFlag,   \* SessionRuntime::stop_flag, the cancel flag of every run
  runState,   \* SessionRuntimeState::run_state; the run's handles are
              \* published exactly while it is "running"
  accepting,  \* pending_inputs_accepting of the current run
  queue,      \* pending_inputs of the current run
  agent,      \* where the agent task of the current run is
  result,     \* how the loop of run_agent ended
  event,      \* the terminal event in the channel that drive reads
  segment,    \* the persister holds assistant content not yet in session.jsonl
  runId,      \* the current or last run
  runs,       \* run ids given out
  checkpoint, \* the run whose RunCheckpoint is on disk, or 0
  chip,       \* pending_continue: the run that left it, or 0
  tails,      \* agent tasks past their terminal event: <<run, what they write to chip>>
  saved,      \* the inputs in session.jsonl
  skipped,    \* history: inputs the input loop dropped because of a stop
  rejected,   \* history: inputs answered with an error
  lost,       \* history: inputs left in a queue nobody reads
  late        \* history: inputs pushed into a queue already closed

surfaceVars == <<sender, inbox>>
taskVars == <<task, hand, guard, runState, runId, runs, checkpoint>>
agentVars == <<agent, result, event, segment, accepting>>
historyVars == <<skipped, rejected, lost, late>>
vars == <<surfaceVars, taskVars, agentVars, historyVars, stopFlag, queue, chip, tails, saved>>

Elems(s) == {s[i] : i \in 1..Len(s)}

FlagsOK == stopFlag \in BOOLEAN /\ accepting \in BOOLEAN /\ segment \in BOOLEAN

TypeOK ==
  /\ FlagsOK
  /\ sender \in [Inputs -> {"new", "pushing", "sending", "sent", "refused"}]
  /\ inbox \in Seq(Inputs)
  /\ task \in {"recv", "guard", "prep", "publish", "drive", "settle", "reset"}
  /\ hand \in Inputs \cup {NoInput}
  /\ guard \in {"none", "us", "other"}
  /\ runState \in {"idle", "running", "suspended"}
  /\ queue \in Seq(Inputs)
  /\ agent \in {"off", "top", "compact", "model", "tools", "done", "close",
                "lastdrain", "judge", "end", "persist"}
  /\ result \in {"none", "ok", "cancelled", "failed", "suspended"}
  /\ event \in {"none", "ok", "cancelled", "failed", "suspended"}
  /\ runId \in Nat
  /\ runs \in Nat
  /\ checkpoint \in Nat
  /\ chip \in Nat
  /\ tails \in SUBSET (Nat \X Nat)
  /\ saved \in Seq(Inputs)
  /\ skipped \in SUBSET Inputs
  /\ rejected \in SUBSET Inputs
  /\ lost \in SUBSET Inputs
  /\ late \in SUBSET Inputs
  /\ hand = NoInput <=> task = "recv"

Init ==
  /\ sender = [m \in Inputs |-> "new"]
  /\ inbox = <<>>
  /\ task = "recv"
  /\ hand = NoInput
  /\ guard = "none"
  /\ stopFlag = FALSE
  /\ runState = "idle"
  /\ accepting = FALSE
  /\ queue = <<>>
  /\ agent = "off"
  /\ result = "none"
  /\ event = "none"
  /\ segment = FALSE
  /\ runId = 0
  /\ runs = 0
  /\ checkpoint = 0
  /\ chip = 0
  /\ tails = {}
  /\ saved = <<>>
  /\ skipped = {}
  /\ rejected = {}
  /\ lost = {}
  /\ late = {}

-----------------------------------------------------------------------------
(* Senders *)

\* The run's handles are published (is_active).
Active == runState = "running"

\* inject, first half: is there a run, and does it still accept inputs?  The web
\* server looks at is_active before and does not fall back to the input loop.
InjectCheck(m) ==
  /\ sender[m] = "new"
  /\ sender' = [sender EXCEPT ![m] =
       IF Active /\ accepting THEN "pushing"
       ELSE IF m \in WebPosts /\ Active THEN "refused" ELSE "sending"]
  /\ UNCHANGED <<inbox, taskVars, agentVars, historyVars, stopFlag, queue, chip, tails, saved>>

\* inject, second half, under another lock: push into the queue of the run that
\* is published now.
InjectPush(m) ==
  /\ sender[m] = "pushing"
  /\ \/ /\ Active
        /\ queue' = Append(queue, m)
        /\ sender' = [sender EXCEPT ![m] = "sent"]
        /\ late' = IF accepting THEN late ELSE late \cup {m}
     \/ /\ ~Active
        /\ sender' = [sender EXCEPT ![m] = IF m \in WebPosts THEN "refused" ELSE "sending"]
        /\ UNCHANGED <<queue, late>>
  /\ UNCHANGED <<inbox, taskVars, agentVars, skipped, rejected, lost, stopFlag,
                 chip, tails, saved>>

\* input_tx.send
Send(m) ==
  /\ sender[m] = "sending"
  /\ sender' = [sender EXCEPT ![m] = "sent"]
  /\ inbox' = Append(inbox, m)
  /\ UNCHANGED <<taskVars, agentVars, historyVars, stopFlag, queue, chip, tails, saved>>

\* SessionRuntime::stop: raise the flag, which is also the run's cancel flag.
Stop ==
  /\ stopFlag' = TRUE
  /\ UNCHANGED <<surfaceVars, taskVars, agentVars, skipped, rejected, lost, late,
                 queue, chip, tails, saved>>

\* Another process that shares the data directory runs this session.
OtherProcess ==
  /\ guard # "us"
  /\ guard' = IF guard = "none" THEN "other" ELSE "none"
  /\ UNCHANGED <<surfaceVars, task, hand, runState, runId, runs, checkpoint, agentVars,
                 historyVars, stopFlag, queue, chip, tails, saved>>

-----------------------------------------------------------------------------
(* The session task *)

\* The input loop takes an input.  A raised stop flag drops it.
Recv ==
  /\ task = "recv"
  /\ inbox # <<>>
  /\ inbox' = Tail(inbox)
  /\ IF stopFlag
     THEN /\ stopFlag' = FALSE
          /\ skipped' = skipped \cup {Head(inbox)}
          /\ UNCHANGED <<task, hand>>
     ELSE /\ task' = "guard"
          /\ hand' = Head(inbox)
          /\ UNCHANGED <<stopFlag, skipped>>
  /\ UNCHANGED <<sender, guard, runState, runId, runs, checkpoint, agentVars, rejected, lost,
                 late, queue, chip, tails, saved>>

\* run_turn returns: the guard goes out of scope.
Return ==
  /\ task' = "recv"
  /\ hand' = NoInput
  /\ guard' = "none"

\* The session is run by somebody else: the input is answered with an error.
Refuse ==
  /\ task = "guard"
  /\ guard = "other"
  /\ task' = "recv"
  /\ hand' = NoInput
  /\ rejected' = rejected \cup {hand}
  /\ UNCHANGED <<surfaceVars, guard, runState, runId, runs, checkpoint, agentVars, skipped,
                 lost, late, stopFlag, queue, chip, tails, saved>>

\* run_turn takes the guard, clears pending_continue and writes the user message.
Begin ==
  /\ task = "guard"
  /\ guard = "none"
  /\ guard' = "us"
  /\ task' = "prep"
  /\ chip' = 0
  /\ saved' = Append(saved, hand)
  /\ UNCHANGED <<surfaceVars, hand, runState, runId, runs, checkpoint, agentVars,
                 historyVars, stopFlag, queue, tails>>

\* Provider, token or tools cannot be set up: run_turn returns an error.
PrepareFails ==
  /\ task = "prep"
  /\ Return
  /\ UNCHANGED <<surfaceVars, runState, runId, runs, checkpoint, agentVars, historyVars,
                 stopFlag, queue, chip, tails, saved>>

\* run_turn lowers the stop flag, makes a new queue, takes over a checkpoint (the
\* run keeps its id) or draws a new id, and spawns the agent task.
Spawn ==
  /\ task = "prep"
  /\ task' = "publish"
  /\ stopFlag' = FALSE
  /\ queue' = <<>>
  /\ accepting' = TRUE
  /\ IF checkpoint # 0
     THEN runId' = checkpoint /\ UNCHANGED runs
     ELSE runId' = runs + 1 /\ runs' = runs + 1
  /\ checkpoint' = 0
  /\ agent' = "top"
  /\ result' = "none"
  /\ event' = "none"
  /\ segment' = FALSE
  /\ UNCHANGED <<surfaceVars, hand, guard, runState, historyVars, chip, tails, saved>>

\* set_active
Publish ==
  /\ task = "publish"
  /\ task' = "drive"
  /\ runState' = "running"
  /\ UNCHANGED <<surfaceVars, hand, guard, runId, runs, checkpoint, agentVars, historyVars,
                 stopFlag, queue, chip, tails, saved>>

\* The agent task has ended and with it the sender of the event channel.
Closed == agent = "off" /\ \A t \in tails : t[1] # runId

\* Mutant: no trailing window, drive returns at any terminal event.
DriveReturnsAtOnce ==
  /\ task = "drive"
  /\ event # "none" \/ Closed
  /\ task' = "settle"
  /\ UNCHANGED <<surfaceVars, hand, guard, runState, runId, runs, checkpoint, agentVars,
                 historyVars, stopFlag, queue, chip, tails, saved>>

\* drive returns: at once after RunCancelled or RunFailed; after RunFinished or
\* RunSuspended when the channel closes (the trailing window of 5 s is taken to
\* outlast the local writes of the agent task, not what else holds the channel);
\* or because the channel closed without a terminal event.
Drive ==
  /\ task = "drive"
  /\ event \in {"cancelled", "failed"} \/ Closed
  /\ task' = "settle"
  /\ UNCHANGED <<surfaceVars, hand, guard, runState, runId, runs, checkpoint, agentVars,
                 historyVars, stopFlag, queue, chip, tails, saved>>

\* What drive makes of the run; a channel closed without an event is a failure.
Outcome == IF event = "none" THEN "failed" ELSE event

\* Mutant: the two branches are swapped.
SettleSwapped ==
  /\ task = "settle"
  /\ task' = "reset"
  /\ runState' = IF Outcome # "suspended" THEN "suspended" ELSE "idle"
  /\ queue' = <<>>
  /\ lost' = lost \cup Elems(queue)
  /\ UNCHANGED <<surfaceVars, hand, guard, runId, runs, checkpoint, agentVars, skipped,
                 rejected, late, stopFlag, chip, tails, saved>>

\* suspend_active or clear_active; the queue goes with the handles.
Settle ==
  /\ task = "settle"
  /\ task' = "reset"
  /\ runState' = IF Outcome = "suspended" THEN "suspended" ELSE "idle"
  /\ queue' = <<>>
  /\ lost' = lost \cup Elems(queue)
  /\ UNCHANGED <<surfaceVars, hand, guard, runId, runs, checkpoint, agentVars, skipped,
                 rejected, late, stopFlag, chip, tails, saved>>

\* run_turn lowers the stop flag and returns.
Reset ==
  /\ task = "reset"
  /\ Return
  /\ stopFlag' = FALSE
  /\ UNCHANGED <<surfaceVars, runState, runId, runs, checkpoint, agentVars, skipped, rejected,
                 lost, late, queue, chip, tails, saved>>

Task == Recv \/ Refuse \/ Begin \/ PrepareFails \/ Spawn \/ Publish \/ Drive \/ Settle \/ Reset

-----------------------------------------------------------------------------
(* The agent task *)

\* What every step of the agent leaves alone.
AgentFrame == UNCHANGED <<surfaceVars, task, hand, guard, runState, runId, runs, historyVars, stopFlag>>

\* Mutant: the queue is copied and not taken.
DrainCopies == saved' = saved \o queue /\ queue' = queue

\* drain_pending_inputs: the queue is taken as a whole and each input is written.
Drain == saved' = saved \o queue /\ queue' = <<>>

\* The top of the loop: a raised cancel flag ends it, after a drain.
TopCancelled ==
  /\ agent = "top"
  /\ stopFlag
  /\ Drain
  /\ agent' = "end"
  /\ result' = "cancelled"
  /\ AgentFrame
  /\ UNCHANGED <<event, segment, accepting, checkpoint, chip, tails>>

\* Mutant: the cancel flag is not looked at.
TopIgnoresStop ==
  /\ agent = "top"
  /\ Drain
  /\ agent' \in {"compact", "model"}
  /\ AgentFrame
  /\ UNCHANGED <<result, event, segment, accepting, checkpoint, chip, tails>>

\* The top of the loop: drain, then compact the context first if it is too long.
Top ==
  /\ agent = "top"
  /\ ~stopFlag
  /\ Drain
  /\ agent' \in {"compact", "model"}
  /\ AgentFrame
  /\ UNCHANGED <<result, event, segment, accepting, checkpoint, chip, tails>>

\* The summary is written and replaces the context, or the call failed and the
\* context stays as it is.
Compact ==
  /\ agent = "compact"
  /\ agent' = "model"
  /\ segment' \in {segment, FALSE}
  /\ AgentFrame
  /\ UNCHANGED <<result, event, accepting, queue, saved, checkpoint, chip, tails>>

\* The call was cancelled: run_agent returns on the spot.
CompactCancelled ==
  /\ agent = "compact"
  /\ stopFlag
  /\ agent' = "off"
  /\ result' = "cancelled"
  /\ AgentFrame
  /\ UNCHANGED <<event, segment, accepting, queue, saved, checkpoint, chip, tails>>

\* The model call fails, after its retries or because it was cancelled.
ModelFails ==
  /\ agent = "model"
  /\ agent' = "end"
  /\ result' \in IF stopFlag THEN {"cancelled", "failed"} ELSE {"failed"}
  /\ AgentFrame
  /\ UNCHANGED <<event, segment, accepting, queue, saved, checkpoint, chip, tails>>

\* The context was too long: emergency reset, flush and again from the top.
ModelTooLong ==
  /\ agent = "model"
  /\ agent' = "top"
  /\ segment' = FALSE
  /\ AgentFrame
  /\ UNCHANGED <<result, event, accepting, queue, saved, checkpoint, chip, tails>>

\* The model answers: with tool calls, with a final text, or with a text out of
\* which tool calls leaked, which is corrected and sent back.
ModelAnswers ==
  /\ agent = "model"
  /\ agent' \in {"tools", "done", "top"}
  /\ segment' = TRUE
  /\ AgentFrame
  /\ UNCHANGED <<result, event, accepting, queue, saved, checkpoint, chip, tails>>

\* Too many rounds of tools, or the tools were cancelled.
ToolsFail ==
  /\ agent = "tools"
  /\ agent' = "end"
  /\ result' \in IF stopFlag THEN {"cancelled", "failed"} ELSE {"failed"}
  /\ AgentFrame
  /\ UNCHANGED <<event, segment, accepting, queue, saved, checkpoint, chip, tails>>

\* The tools have run: flush the segment if inputs wait, drain, go on.
ToolsRun ==
  /\ agent = "tools"
  /\ segment' = (queue = <<>>)
  /\ Drain
  /\ agent' = "top"
  /\ AgentFrame
  /\ UNCHANGED <<result, event, accepting, checkpoint, chip, tails>>

\* A tool asked to suspend the run: RunSuspended, the checkpoint, the wakeup.
ToolsSuspend ==
  /\ agent = "tools"
  /\ segment' = (queue = <<>>)
  /\ Drain
  /\ event' = "suspended"
  /\ checkpoint' = runId
  /\ agent' = "end"
  /\ result' = "suspended"
  /\ AgentFrame
  /\ UNCHANGED <<accepting, chip, tails>>

\* The answer was final: flush the segment if inputs wait.
DoneFlush ==
  /\ agent = "done"
  /\ segment' = (queue = <<>>)
  /\ agent' = "close"
  /\ AgentFrame
  /\ UNCHANGED <<result, event, accepting, queue, saved, checkpoint, chip, tails>>

\* Mutant: the queue stays open.
CloseQueueNot ==
  /\ agent = "close"
  /\ agent' = "lastdrain"
  /\ AgentFrame
  /\ UNCHANGED <<result, event, segment, accepting, queue, saved, checkpoint, chip, tails>>

\* Then close the queue.
CloseQueue ==
  /\ agent = "close"
  /\ accepting' = FALSE
  /\ agent' = "lastdrain"
  /\ AgentFrame
  /\ UNCHANGED <<result, event, segment, queue, saved, checkpoint, chip, tails>>

\* Then drain: an input that was waiting reopens the queue and the loop goes on.
LastDrain ==
  /\ agent = "lastdrain"
  /\ Drain
  /\ IF queue # <<>>
     THEN accepting' = TRUE /\ agent' = "top"
     ELSE agent' = "judge" /\ UNCHANGED accepting
  /\ AgentFrame
  /\ UNCHANGED <<result, event, segment, checkpoint, chip, tails>>

\* The Stop hook, or the judge of the session's goal, sends the model back to work.
JudgeContinues ==
  /\ agent = "judge"
  /\ segment' = FALSE
  /\ accepting' = TRUE
  /\ agent' = "top"
  /\ AgentFrame
  /\ UNCHANGED <<result, event, queue, saved, checkpoint, chip, tails>>

\* The goal is not reached yet, but the run was stopped.
JudgeCancelled ==
  /\ agent = "judge"
  /\ stopFlag
  /\ segment' = FALSE
  /\ agent' = "end"
  /\ result' = "cancelled"
  /\ AgentFrame
  /\ UNCHANGED <<event, accepting, queue, saved, checkpoint, chip, tails>>

\* Nothing holds the run: no hook, no goal, or the goal is settled.
JudgeEnds ==
  /\ agent = "judge"
  /\ agent' = "end"
  /\ result' = "ok"
  /\ segment' \in {segment, FALSE}
  /\ AgentFrame
  /\ UNCHANGED <<event, accepting, queue, saved, checkpoint, chip, tails>>

\* After the loop: close the queue.
End ==
  /\ agent = "end"
  /\ accepting' = FALSE
  /\ agent' = "persist"
  /\ AgentFrame
  /\ UNCHANGED <<result, event, segment, queue, saved, checkpoint, chip, tails>>

\* The persister writes the rest of the answer; then the terminal event is sent.
\* What is left to do is to set pending_continue, with no one waiting for it.
Persist ==
  /\ agent = "persist"
  /\ segment' = FALSE
  /\ agent' = "off"
  /\ IF result = "suspended"
     THEN UNCHANGED <<event, tails>>
     ELSE /\ event' = result
          /\ \E w \in CASE result = "failed" -> {runId}
                         [] result = "cancelled" -> {0}
                         [] OTHER -> {0, runId} :
               tails' = tails \cup {<<runId, w>>}
  /\ AgentFrame
  /\ UNCHANGED <<result, accepting, queue, saved, checkpoint, chip>>

\* The last statement of run_agent: set or clear pending_continue.
WriteChip(t) ==
  /\ t \in tails
  /\ chip' = t[2]
  /\ tails' = tails \ {t}
  /\ AgentFrame
  /\ UNCHANGED <<agentVars, queue, saved, checkpoint>>

Agent ==
  \/ TopCancelled \/ Top \/ Compact \/ CompactCancelled
  \/ ModelFails \/ ModelTooLong \/ ModelAnswers
  \/ ToolsFail \/ ToolsRun \/ ToolsSuspend
  \/ DoneFlush \/ CloseQueue \/ LastDrain
  \/ JudgeContinues \/ JudgeCancelled \/ JudgeEnds
  \/ End \/ Persist

Next ==
  \/ \E m \in Inputs : InjectCheck(m) \/ InjectPush(m) \/ Send(m)
  \/ Stop
  \/ OtherProcess
  \/ Task
  \/ Agent
  \/ \E t \in tails : WriteChip(t)

Spec == Init /\ [][Next]_vars

\* The session task and the agent task are scheduled; model calls end, if only by
\* timing out.  Tools may wait for the user for ever, unless they are stopped.
Fairness ==
  /\ WF_vars(Task)
  /\ WF_vars(Agent /\ (agent = "tools" => stopFlag))
  /\ \A m \in Inputs : WF_vars(InjectPush(m) \/ Send(m))
  /\ WF_vars(\E t \in tails : WriteChip(t))

FairSpec == Spec /\ Fairness
-----------------------------------------------------------------------------
(* Properties *)

NoDup(s) == \A i, j \in 1..Len(s) : s[i] = s[j] => i = j

\* The input that run_turn has taken and not yet written.
Holding == IF task = "guard" THEN {hand} ELSE {}

\* Inputs whose sender got no error are in exactly one place: the channel of the
\* input loop, its hand, the queue of the run, session.jsonl (where each is
\* written once), or among those dropped by a stop, answered with an error, or
\* left behind in a dead queue.  No path (inject, input_tx, fallback from one to
\* the other, drain, run_turn) writes an input twice or forgets one elsewhere.
ExactlyOnePlace ==
  /\ NoDup(inbox) /\ NoDup(queue) /\ NoDup(saved)
  /\ \A m \in Inputs :
       sender[m] = "sent" <=>
         m \in Elems(inbox) \cup Holding \cup Elems(queue) \cup Elems(saved)
                \cup skipped \cup rejected \cup lost
  /\ Elems(inbox) \cap (Holding \cup Elems(queue) \cup Elems(saved)
                           \cup skipped \cup rejected \cup lost) = {}
  /\ Holding \cap (Elems(queue) \cup Elems(saved) \cup skipped \cup rejected \cup lost) = {}
  /\ Elems(queue) \cap (Elems(saved) \cup skipped \cup rejected \cup lost) = {}
  /\ Elems(saved) \cap (skipped \cup rejected \cup lost) = {}
  /\ skipped \cap (rejected \cup lost) = {}
  /\ rejected \cap lost = {}

\* Single writer: an agent task that may still write messages to session.jsonl
\* exists only while this process holds the run guard of the session, although
\* run_turn can return before the agent task ends (drive, SessionRunGuard).
AgentUnderGuard == agent # "off" => guard = "us"

\* A session that shows as suspended has the checkpoint of that very run on disk,
\* so the next input resumes it under its own id (suspend_active, run_checkpoint).
\* Only while run_turn hands the checkpoint over to the resumed run is it gone.
SuspendedHasCheckpoint ==
  runState = "suspended" /\ task # "publish" => checkpoint = runId /\ runId # 0

\* A run that finishes has drained every input that inject accepted before the
\* queue was closed: close, then drain, then look (the Done branch of run_agent).
DoneDrainsAll == event = "ok" => Elems(queue) \subseteq late

\* Once a turn is driven and a stop is asked for, the turn ends and the input loop
\* takes inputs again, whatever the model, hooks and judges would go on with.
StopEndsTurn == (task = "drive" /\ stopFlag) ~> (task = "recv")

-----------------------------------------------------------------------------
(* The inductive invariant behind the safety properties *)

\* Where the session task is says who holds the guard, whether the agent task may
\* exist, whether the run's handles are published and whether the queue can hold
\* anything; a terminal event other than RunSuspended is the agent's last word.
Control ==
  /\ guard = "us" <=> task \notin {"recv", "guard"}
  /\ agent # "off" => task \in {"publish", "drive"}
  /\ event \in {"ok", "cancelled", "failed"} => agent = "off"
  /\ runState = "running" <=> task \in {"drive", "settle"}
  /\ queue # <<>> => task \in {"drive", "settle"}

\* RunSuspended is sent with the checkpoint already decided and nothing else to come.
Suspension ==
  /\ SuspendedHasCheckpoint
  /\ task \in {"publish", "drive", "settle"} => runId # 0
  /\ task \in {"publish", "drive", "settle"} /\ event = "suspended" =>
       checkpoint = runId /\ result = "suspended" /\ agent \in {"end", "persist", "off"}

\* From the closing of the queue to the end of a successful run.
Closing ==
  /\ agent \in {"lastdrain", "judge"} => ~accepting
  /\ \/ agent = "judge"
     \/ agent \in {"end", "persist"} /\ result = "ok"
     \/ event = "ok"
     => ~accepting /\ Elems(queue) \subseteq late

IndInv == Control /\ Suspension /\ Closing /\ ExactlyOnePlace
=============================================================================
