------------------------------ MODULE Dispatch ------------------------------
(***************************************************************************)
(* The dispatch of a turn's tool calls (dispatch.rs run_calls): every call *)
(* is checked in order, which may open requests in the gate; then the      *)
(* calls run as futures of one task, at most MaxParallel at a time, and    *)
(* each waits for a judge, for a person, for the tool.  Meanwhile a person *)
(* answers, switches the run mode or stops the run on other threads, and   *)
(* the driver of the run hands the requests to the surface.                *)
(***************************************************************************)
EXTENDS HitlGate, Sequences

Modes == {"Default", "PlanMode", "AutoMode", "Yolo"}

CONSTANTS
    Scripts,      \* runs: the model's calls, the turn of each, the mode, force_automode
                  \* and the permission store at the start
    SwitchTo,     \* modes a person may switch to
    AnswerScopes, \* scopes a dialog offers to remember an answer for
    Workspace,    \* paths inside the workspace
    Bypass,       \* subagent_bypass: the dispatcher of a subagent
    MaxParallel,  \* MAX_PARALLEL_TOOLS
    MaxSwitches   \* bound: mode switches by a person

ASSUME DispatchAssumption ==
    /\ Index \subseteq Nat
    /\ \A s \in Scripts :
        /\ s.calls \in [Index -> Call] /\ s.turn \in [Index -> Nat]
        /\ s.mode \in Modes /\ s.force \in BOOLEAN
        /\ s.rules \in [Scopes -> [allow : SUBSET Patterns, deny : SUBSET Patterns]]
    /\ SwitchTo \subseteq Modes /\ AnswerScopes \subseteq Scopes \cup {"Once"}
    /\ Workspace \subseteq Paths /\ Bypass \in BOOLEAN
    /\ MaxParallel \in Nat \ {0} /\ MaxSwitches \in Nat

VARIABLES
    turn,       \* the turn of the agent loop that makes each call
    mode,       \* the shared run mode
    prePlan,    \* pre_plan_mode of the session, "none" when absent
    force,      \* force_automode: the judge's Ask counts as Deny
    allowed,    \* paths the workspace allows
    spawned,    \* calls run_calls has spawned
    broken,     \* run_calls left its loop because of a stop
    pc,         \* where each call is
    perm,       \* what the synchronous check decided for each call
    judged,     \* the call runs with a judge (read when its future starts)
    snap,       \* the pre_plan_mode a plan's submission has read
    auto,       \* requests announced as taken care of by the judge
    inbox,      \* announced requests the driver has not handled
    delivered,  \* requests the driver has handed to the surface
    cancel,     \* the run's cancel flag
    stopping,   \* a stop has set the flag and not yet drained the gate
    switches,   \* mode switches so far
    unsteady    \* calls checked under one mode whose future had not started when it changed

tableVars == <<pending, verdict>>
ruleVars == <<calls, learned, rules, jammed>>
runVars == <<turn, force>>
modeVars == <<mode, prePlan, switches, unsteady>>
loopVars == <<spawned, broken>>
ownVars == <<perm, judged, snap>>
surfaceVars == <<auto, inbox, delivered>>
stopVars == <<cancel, stopping>>
vars == <<tableVars, ruleVars, runVars, modeVars, allowed, loopVars, pc, ownVars, surfaceVars,
          stopVars>>

PathReq(i) == <<i, "path">>
MainReq(i) == <<i, "main">>
IsTool(i) == calls[i].tool \in {"Bash", "Edit", "Read"}
Running == {"judgePath", "waitPath", "judgeTool", "gate", "waitTool", "exec", "waitAnswer"}
Ended == {"done", "denied", "cancelled"}

(* The next call run_calls comes to: the turns before it are over, the     *)
(* calls before it are spawned.                                            *)
Due(i) ==
    /\ pc[i] = "none" /\ ~broken
    /\ \A j \in Index : turn[j] < turn[i] => pc[j] \in Ended
    /\ \A j \in Index : turn[j] = turn[i] /\ j < i => j \in spawned
Upcoming(i) == Due(i) /\ ~cancel
Looped(t) == broken \/ \A i \in Index : turn[i] = t => i \in spawned

TypeOK ==
    /\ GateTypeOK
    /\ turn \in [Index -> Nat]
    /\ mode \in Modes /\ prePlan \in Modes \cup {"none"} /\ force \in BOOLEAN
    /\ allowed \subseteq Paths /\ spawned \subseteq Index /\ broken \in BOOLEAN
    /\ pc \in [Index -> Running \cup Ended \cup {"none", "checked", "queued"}]
    /\ perm \in [Index -> {"none", "yolo", "auto", "approve", "deny", "ask", "askRefuse"}]
    /\ judged \in [Index -> BOOLEAN]
    /\ snap \in [Index -> Modes \cup {"none"}]
    /\ auto \subseteq Requests /\ inbox \subseteq Requests /\ delivered \subseteq Requests
    /\ cancel \in BOOLEAN /\ stopping \in BOOLEAN
    /\ switches \in 0 .. MaxSwitches /\ unsteady \subseteq Index
    /\ inbox \cap delivered = {}
    /\ stopping => cancel

Blank(x) == [i \in Index |-> x]

Init ==
    /\ \E s \in Scripts : /\ calls = s.calls /\ turn = s.turn /\ mode = s.mode
                         /\ force = s.force /\ rules = s.rules
    /\ pending = {} /\ verdict = [r \in Requests |-> "none"]
    /\ learned = {} /\ jammed = FALSE
    /\ prePlan = "none"
    /\ allowed = Workspace /\ spawned = {} /\ broken = FALSE
    /\ pc = Blank("none") /\ perm = Blank("none") /\ judged = Blank(FALSE)
    /\ snap = Blank("none") /\ auto = {} /\ inbox = {} /\ delivered = {}
    /\ cancel = FALSE /\ stopping = FALSE /\ switches = 0 /\ unsteady = {}

(***************************************************************************)
(* The loop of run_calls.                                                  *)
(***************************************************************************)
EditAutoAllowed(e, out) ==
    e.tool = "Edit" /\ mode # "PlanMode" /\ out = {} /\ ~e.gitmeta

BashSafeWriteAllowed(e, out) ==
    /\ e.tool = "Bash" /\ out = {} /\ ~e.danger
    /\ e.segs \cap SafeWrites # {} /\ e.segs \subseteq ReadonlySegs \cup SafeWrites

YoloDecision(e, out) == IF out # {} \/ e.gitmeta \/ e.danger THEN "deny" ELSE "yolo"

(* The permission spawn_tool computes before the future exists. *)
Permission(e, out) ==
    IF mode = "Yolo" THEN YoloDecision(e, out)
    ELSE IF EditAutoAllowed(e, out) \/ BashSafeWriteAllowed(e, out) THEN "auto"
    ELSE IF Bypass /\ ~e.danger THEN "auto"
    ELSE Check(e)

(* A request joins the table and is announced; automode_will_handle tells  *)
(* the surface to keep its dialog closed.                                  *)
Announce(r) ==
    /\ Opened(r)
    /\ inbox' = inbox \cup {r}
    /\ auto' = IF mode = "AutoMode" THEN auto \cup {r} ELSE auto

SpawnTool(i) ==
    LET e    == calls[i]
        out  == e.paths \ allowed
        p    == Permission(e, out)
        asks == p \in {"ask", "askRefuse"}
    IN  /\ Upcoming(i) /\ IsTool(i) /\ ~jammed
        /\ IF out # {} /\ mode # "Yolo" THEN Announce(PathReq(i))
           ELSE UNCHANGED <<pending, inbox, auto>>
        /\ perm' = [perm EXCEPT ![i] = p]
        /\ pc' = [pc EXCEPT ![i] = IF asks THEN "checked" ELSE "queued"]
        /\ spawned' = IF asks THEN spawned ELSE spawned \cup {i}
        /\ UNCHANGED <<verdict, ruleVars, runVars, modeVars, allowed, broken, judged, snap,
                       delivered, stopVars>>

(* The check has read the rules; only now does the request join the table. *)
OpenToolApproval(i) ==
    /\ pc[i] = "checked"
    /\ Announce(MainReq(i))
    /\ pc' = [pc EXCEPT ![i] = "queued"]
    /\ spawned' = spawned \cup {i}
    /\ UNCHANGED <<verdict, ruleVars, runVars, modeVars, allowed, broken, ownVars, delivered,
                   stopVars>>

SpawnOther(i) ==
    /\ Upcoming(i) /\ ~IsTool(i)
    /\ pc' = [pc EXCEPT ![i] = "queued"]
    /\ spawned' = spawned \cup {i}
    /\ UNCHANGED <<tableVars, ruleVars, runVars, modeVars, allowed, broken, ownVars, surfaceVars,
                   stopVars>>

(* A stop seen between two calls: the gate is drained, the rest is not     *)
(* spawned.                                                                *)
BreakOff ==
    /\ cancel /\ \E i \in Index : Due(i)
    /\ broken' = TRUE
    /\ CancelAllPending
    /\ UNCHANGED <<ruleVars, runVars, modeVars, allowed, spawned, pc, ownVars, surfaceVars,
                   stopVars>>

(***************************************************************************)
(* The futures.                                                            *)
(***************************************************************************)
Free == Cardinality({i \in Index : pc[i] \in Running}) < MaxParallel
Starts(i) == Looped(turn[i]) /\ pc[i] = "queued" /\ Free
Moves(i, to) == pc' = [pc EXCEPT ![i] = to]

PathOpened(i) == PathReq(i) \in pending \/ verdict[PathReq(i)] # "none"
Asks(i) == perm[i] \in {"ask", "askRefuse"}
AfterPath(i, judge) == IF judge /\ Asks(i) THEN "judgeTool" ELSE "gate"

(* The future reads the mode again: only AutoMode has a judge. *)
StartTool(i) ==
    LET judge == mode = "AutoMode"
    IN  /\ Starts(i) /\ IsTool(i)
        /\ judged' = [judged EXCEPT ![i] = judge]
        /\ Moves(i, IF PathOpened(i) THEN IF judge THEN "judgePath" ELSE "waitPath"
                    ELSE AfterPath(i, judge))
        /\ UNCHANGED <<tableVars, ruleVars, runVars, modeVars, allowed, loopVars, perm, snap,
                       surfaceVars, stopVars>>

(* The judge's word, its timeout and its failures included (both Ask);     *)
(* force_automode turns Ask into Deny.                                     *)
Word(d) == IF force /\ d = "ask" THEN "deny" ELSE d

(* PermissionAutoJudged with requires_human opens the dialog kept closed.  *)
Reveal(r) == auto' = auto \ {r}

JudgePath(i, d) ==
    /\ pc[i] = "judgePath" /\ ~jammed
    /\ Moves(i, "waitPath")
    /\ IF Word(d) = "ask"
       THEN Reveal(PathReq(i)) /\ UNCHANGED tableVars
       ELSE /\ Settled(PathReq(i), IF Word(d) = "allow" THEN "judge" ELSE "deny")
            /\ UNCHANGED auto
    /\ UNCHANGED <<ruleVars, runVars, modeVars, allowed, loopVars, ownVars, inbox, delivered,
                   stopVars>>

(* await_path_decision: an approval to remember widens the workspace. *)
PathDecided(i) ==
    LET v == verdict[PathReq(i)]
    IN  /\ pc[i] = "waitPath" /\ v # "none"
        /\ allowed' = IF v = "remember" THEN allowed \cup calls[i].paths ELSE allowed
        /\ Moves(i, IF v \in Granted THEN AfterPath(i, judged[i]) ELSE "denied")
        /\ UNCHANGED <<tableVars, ruleVars, runVars, modeVars, loopVars, ownVars, surfaceVars,
                       stopVars>>

(* Mutant: segments that leave the machine are kept too. *)
PersistedAll(e) == IF e.tool = "Bash" THEN UnapprovedMemorable(e) ELSE {}

(* persist_judge_allowed_segments. *)
Persisted(e) == IF e.tool = "Bash" THEN UnapprovedMemorable(e) \ Egress ELSE {}

(* Mutant: the dialog of a refused command is not opened. *)
JudgeToolSilent(i, d) ==
    LET r == MainReq(i)
    IN  /\ pc[i] = "judgeTool" /\ ~jammed
        /\ Moves(i, "gate")
        /\ IF Word(d) = "allow" THEN Settled(r, "judge") /\ UNCHANGED auto
           ELSE IF Word(d) = "ask" THEN Reveal(r) /\ UNCHANGED tableVars
           ELSE UNCHANGED <<auto, tableVars>>
        /\ UNCHANGED <<ruleVars, runVars, modeVars, allowed, loopVars, ownVars, inbox,
                       delivered, stopVars>>

JudgeTool(i, d) ==
    LET r == MainReq(i)
        e == calls[i]
    IN  /\ pc[i] = "judgeTool" /\ ~jammed
        /\ Moves(i, "gate")
        /\ IF Word(d) = "allow"
           THEN /\ Remember("Session", Persisted(e))
                /\ Settled(r, "judge")
                /\ UNCHANGED auto
           ELSE IF Word(d) = "ask" \/ (e.tool = "Bash" /\ ~force)
           THEN Reveal(r) /\ UNCHANGED <<tableVars, learned, rules>>
           ELSE Settled(r, "deny") /\ UNCHANGED <<auto, learned, rules>>
        /\ UNCHANGED <<calls, jammed, runVars, modeVars, allowed, loopVars, ownVars, inbox,
                       delivered, stopVars>>

(* A stop during the judge's work ends the call before it waits. *)
PassGate(i) ==
    /\ pc[i] = "gate"
    /\ Moves(i, IF cancel THEN "cancelled" ELSE "waitTool")
    /\ UNCHANGED <<tableVars, ruleVars, runVars, modeVars, allowed, loopVars, ownVars,
                   surfaceVars, stopVars>>

Refused(i) == perm[i] = "deny" \/ (Asks(i) /\ verdict[MainReq(i)] = "deny")

(* await_permission_decision, then the PreToolUse hooks, which may block.  *)
ToolDecided(i, blocked) ==
    /\ pc[i] = "waitTool"
    /\ Asks(i) => verdict[MainReq(i)] # "none"
    /\ Moves(i, IF Refused(i) THEN "denied"
                ELSE IF cancel THEN "cancelled"
                ELSE IF blocked THEN "denied" ELSE "exec")
    /\ UNCHANGED <<tableVars, ruleVars, runVars, modeVars, allowed, loopVars, ownVars,
                   surfaceVars, stopVars>>

(* The tool returns, fails or panics: all of it is a result. *)
Executed(i) ==
    /\ pc[i] = "exec"
    /\ Moves(i, "done")
    /\ UNCHANGED <<tableVars, ruleVars, runVars, modeVars, allowed, loopVars, ownVars,
                   surfaceVars, stopVars>>

(* TodoWrite, and an Ask or PlanMode call whose input does not parse or    *)
(* whose plan cannot be saved.                                             *)
RunAtOnce(i) ==
    /\ Starts(i) /\ ~IsTool(i)
    /\ Moves(i, "done")
    /\ UNCHANGED <<tableVars, ruleVars, runVars, modeVars, allowed, loopVars, ownVars,
                   surfaceVars, stopVars>>

Shaken(m) == IF m = mode THEN unsteady
             ELSE unsteady \cup {i \in Index : pc[i] \in {"checked", "queued"}}

(* set_run_mode: entering plan mode records where it came from. *)
SetMode(m) ==
    /\ mode' = m
    /\ prePlan' = IF m = "PlanMode" /\ mode # "PlanMode" THEN mode ELSE prePlan
    /\ unsteady' = Shaken(m)

EnterPlan(i) ==
    /\ Starts(i) /\ calls[i].tool = "PlanEnter"
    /\ SetMode("PlanMode")
    /\ Moves(i, "done")
    /\ UNCHANGED <<tableVars, ruleVars, runVars, switches, allowed, loopVars, ownVars,
                   surfaceVars, stopVars>>

(* Ask and a plan's submission open their request when they start; no      *)
(* judge takes it.                                                         *)
StartWaiting(i) ==
    /\ Starts(i) /\ calls[i].tool \in {"Ask", "PlanSubmit"}
    /\ Opened(MainReq(i))
    /\ inbox' = inbox \cup {MainReq(i)}
    /\ snap' = [snap EXCEPT ![i] = prePlan]
    /\ Moves(i, "waitAnswer")
    /\ UNCHANGED <<verdict, ruleVars, runVars, modeVars, allowed, loopVars, perm, judged, auto,
                   delivered, stopVars>>

Answered(i) ==
    LET v == verdict[MainReq(i)]
        back == IF snap[i] = "none" THEN "Default" ELSE snap[i]
    IN  /\ pc[i] = "waitAnswer" /\ v # "none"
        /\ IF calls[i].tool = "PlanSubmit" /\ v \in Granted
           THEN /\ mode' = back /\ prePlan' = "none"
                /\ unsteady' = Shaken(back)
           ELSE UNCHANGED <<mode, prePlan, unsteady>>
        /\ Moves(i, IF calls[i].tool = "Ask" /\ cancel THEN "cancelled" ELSE "done")
        /\ UNCHANGED <<tableVars, ruleVars, runVars, switches, allowed, loopVars, ownVars,
                       surfaceVars, stopVars>>

(***************************************************************************)
(* The person, the surface and the driver of the run.                      *)
(***************************************************************************)
Shown(r) == r \in delivered /\ r \notin auto

(* A person's answer to an open dialog; resolve_approval, answer_question. *)
Reply(r, v) ==
    /\ Shown(r) /\ r \in pending
    /\ Settled(r, v)
    /\ UNCHANGED <<ruleVars, runVars, modeVars, allowed, loopVars, pc, ownVars, surfaceVars,
                   stopVars>>

(* "Allow and remember" with the patterns ticked in the dialog; a call     *)
(* without segments is remembered by its tool.                             *)
Ticked(i) == IF calls[i].segs = {} THEN {{calls[i].tool}}
             ELSE SUBSET (Writable(calls[i]) \ Unmemorable)

ReplyRemember(r, scope, pats) ==
    /\ Shown(r) /\ (r[2] = "main" => calls[r[1]].tool # "Ask")
    /\ ResolveRemember(r, scope, pats)
    /\ UNCHANGED <<runVars, modeVars, allowed, loopVars, pc, ownVars, surfaceVars, stopVars>>

SwitchMode(m) ==
    /\ switches < MaxSwitches /\ m # mode
    /\ SetMode(m)
    /\ switches' = switches + 1
    /\ UNCHANGED <<tableVars, ruleVars, runVars, allowed, loopVars, pc, ownVars, surfaceVars,
                   stopVars>>

(* SessionRuntimeState::stop: the flag, then the gate. *)
Stop ==
    /\ ~cancel
    /\ cancel' = TRUE /\ stopping' = TRUE
    /\ UNCHANGED <<tableVars, ruleVars, runVars, modeVars, allowed, loopVars, pc, ownVars,
                   surfaceVars>>

StopDrains ==
    /\ stopping
    /\ CancelAllPending
    /\ stopping' = FALSE
    /\ UNCHANGED <<ruleVars, runVars, modeVars, allowed, loopVars, pc, ownVars, surfaceVars,
                   cancel>>

(* Mutant: the driver does not look at the cancel flag. *)
DeliverThroughStop(r) ==
    /\ r \in inbox /\ ~jammed
    /\ inbox' = inbox \ {r}
    /\ delivered' = IF r \in pending THEN delivered \cup {r} ELSE delivered
    /\ UNCHANGED <<tableVars, ruleVars, runVars, modeVars, allowed, loopVars, pc, ownVars, auto,
                   stopVars>>

(* drive: a request announced after a stop is drained with all others, a   *)
(* request settled in the meantime is dropped.                             *)
Deliver(r) ==
    /\ r \in inbox /\ ~jammed
    /\ inbox' = inbox \ {r}
    /\ IF cancel
       THEN CancelAllPending /\ UNCHANGED delivered
       ELSE /\ delivered' = IF r \in pending THEN delivered \cup {r} ELSE delivered
            /\ UNCHANGED tableVars
    /\ UNCHANGED <<ruleVars, runVars, modeVars, allowed, loopVars, pc, ownVars, auto, stopVars>>

TaskStep ==
    \/ BreakOff
    \/ \E i \in Index :
        \/ SpawnTool(i) \/ OpenToolApproval(i) \/ SpawnOther(i)
        \/ StartTool(i) \/ PathDecided(i) \/ PassGate(i)
        \/ \E d \in {"allow", "deny", "ask"} : JudgePath(i, d) \/ JudgeTool(i, d)
        \/ \E b \in BOOLEAN : ToolDecided(i, b)
        \/ Executed(i) \/ RunAtOnce(i) \/ EnterPlan(i) \/ StartWaiting(i) \/ Answered(i)

DriverStep == StopDrains \/ \E r \in Requests : Deliver(r)

PersonStep ==
    \/ \E r \in Requests :
        \/ \E v \in {"once", "deny"} : Reply(r, v)
        \/ \E scope \in AnswerScopes, pats \in Ticked(r[1]) :
            ReplyRemember(r, scope, pats)
    \/ \E m \in SwitchTo : SwitchMode(m)
    \/ Stop

Next == TaskStep \/ DriverStep \/ PersonStep

(* The task, the driver and the stopping thread are scheduled; a judge     *)
(* answers or times out, a tool ends.  Nobody has to answer a dialog.      *)
Spec == Init /\ [][Next]_vars /\ WF_vars(TaskStep) /\ WF_vars(DriverStep)

(***************************************************************************)
(* Properties.                                                             *)
(***************************************************************************)
OwnWord == {"once", "remember", "judge"}

(* A tool that has started to run had the consent it needs: a dangerous    *)
(* command was allowed by an answer to its own request, never by a rule or *)
(* by the scan after somebody else's answer; a command that deletes was    *)
(* allowed so too, unless the run is unattended; a path outside the        *)
(* workspace was allowed before anything ran (dispatch.rs spawn_tool,      *)
(* hitl.rs check_without_policy, resolve_matching_pending_after_remember). *)
RanWithConsent ==
    \A i \in Index : IsTool(i) /\ pc[i] \in {"exec", "done"} =>
        /\ calls[i].danger => verdict[MainReq(i)] \in OwnWord
        /\ calls[i].segs \cap Unmemorable # {} =>
              verdict[MainReq(i)] \in OwnWord \/ perm[i] = "yolo" \/ Bypass
        /\ PathOpened(i) => verdict[PathReq(i)] \in Granted
        /\ ~(calls[i].paths \subseteq allowed) => verdict[PathReq(i)] \in Granted

(* No call waits for an answer nobody is asked for: the request it waits   *)
(* on is on its way to the surface or shown there, unless the run is being *)
(* stopped or the mode changed between the call's check and the start of   *)
(* its future (automode_will_handle and the judge read the mode at         *)
(* different times).                                                       *)
AwaitedIsShown ==
    \A i \in Index, r \in Requests :
        /\ r[1] = i /\ r \in pending /\ ~cancel /\ i \notin unsteady
        /\ \/ r[2] = "path" /\ pc[i] = "waitPath"
           \/ r[2] = "main" /\ pc[i] \in {"waitTool", "waitAnswer"}
        => (r \in inbox \/ r \in delivered) /\ r \notin auto

(* An open request belongs to a call that still waits for it; the only     *)
(* ones left behind are those of a call whose path was refused and those   *)
(* of a stopped run.                                                       *)
OpenRequestHasOwner ==
    \A r \in pending :
        \/ pc[r[1]] \notin Ended
        \/ cancel
        \/ r[2] = "main" /\ verdict[PathReq(r[1])] = "deny"

(* The session only learns what was allowed: a pattern joins the learned   *)
(* rules in the very step that allows the call it comes from, never for a  *)
(* deleting segment.  Either a person answers the call's open request, and *)
(* the call is not dangerous (the answer may leave the gate locked); or    *)
(* the judge allows the call, and the segment does not leave the machine.  *)
(* The judge's word settles the request too, unless a stop has drained it  *)
(* or a change of mode has let a person answer it first: then the call is  *)
(* as the stop or the person decided, and yet its segments are learned.    *)
(* What the judge's word on a dangerous command teaches is the matter of   *)
(* DangerTeachesNothing.                                                   *)
LearnsWhatWasAllowed ==
    [][\A p \in learned' \ learned : \E i \in Index :
        /\ p \in Writable(calls[i]) \cup {calls[i].tool}
        /\ p \notin Unmemorable
        /\ \/ /\ MainReq(i) \in pending \ pending' /\ ~calls[i].danger
              /\ verdict'[MainReq(i)] = "remember" \/ jammed'
           \/ /\ pc[i] = "judgeTool" /\ pc'[i] = "gate" /\ p \notin Egress
              /\ \/ MainReq(i) \in pending /\ verdict'[MainReq(i)] = "judge"
                 \/ MainReq(i) \notin pending /\ (cancel \/ i \in unsteady)]_vars

(* Dangerous composites (refuse_remember) are among the three kinds that   *)
(* are never persisted when the judge allows a call                        *)
(* (docs/架构.md:1004, tools/hitl.rs:566-567): the step that settles one    *)
(* by the judge's word teaches the session nothing.                        *)
DangerTeachesNothing ==
    [][\A i \in Index :
        calls[i].danger /\ MainReq(i) \in pending /\ verdict'[MainReq(i)] = "judge" =>
            learned' = learned]_vars

(* After a stop every call ends, whatever it was waiting for and whenever  *)
(* its request was opened: stop drains the gate, and the driver drains the *)
(* requests announced after it.  (Unless the gate has locked itself.)      *)
StopEndsCalls ==
    cancel ~> (jammed \/ \A i \in Index : pc[i] \in Ended \cup {"none"})

(* "resolve: a surface hands in an approval and wakes its waiter"          *)
(* (tools/hitl.rs:731); the scan after a remembered rule answers the other *)
(* requests it matches (dispatch.rs:306-309).  So no answer leaves the     *)
(* gate locked by the thread that gave it.                                 *)
AnswerReturns == ~jammed

=============================================================================
