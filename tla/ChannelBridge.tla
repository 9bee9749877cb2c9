---------------------------- MODULE ChannelBridge ----------------------------
(***************************************************************************)
(* The chat channel of the desktop: approvals and questions of the main    *)
(* conversation are forwarded to the owner's phone when the computer is    *)
(* idle (apps/desktop/src/channel_forward.rs), and the owner can run the   *)
(* agent from the phone (crates/channel-core/src/bridge.rs).  Both wait    *)
(* for the owner in one table, and every message of the owner is taken for *)
(* an answer as long as that table has an entry.                           *)
(*                                                                         *)
(* The event log of the main conversation does not overflow here (EventLog *)
(* has that), and its requests are those of Dispatch, seen from outside:   *)
(* open, settled by whoever answers at the computer or stops the run, then *)
(* announced as settled.                                                   *)
(***************************************************************************)
EXTENDS Naturals, Sequences, FiniteSets

CONSTANTS
  Requests,    \* of the main conversation
  Own,         \* of a run the owner started from the phone
  Questions,   \* those of both that are questions, not approvals
  MaxLoops,    \* bound: subscriptions of the front end
  MaxBridges,  \* bound: starts of the channel
  MaxRuns      \* bound: runs the owner starts

ASSUME BridgeAssumption ==
  /\ Requests \cap Own = {} /\ Questions \subseteq Requests \cup Own
  /\ MaxLoops \in Nat /\ MaxBridges \in Nat /\ MaxRuns \in Nat

Loops == 1 .. MaxLoops
Bridges == 1 .. MaxBridges

VARIABLES
  gate,      \* per request: "none", "open", "settled" or "announced"
  log,       \* the events of the session: a request, or its settlement
  lpc,       \* per subscription loop: "none", "opening", "recv", "insert", "ended"
  pos,       \* per loop: the event it reads next
  cancelled, \* loops whose cancel token is set
  job,       \* per loop: the entry it is about to put into a bridge's table
  markers,   \* the ChannelForward markers of the session, in order
  inflight,  \* ChannelForwardState: per request, the marker to settle, 0 without one
  bridge,    \* WeChatState: the running bridge, 0 without one
  born,      \* bridges made so far
  heard,     \* bridges the owner has written to: they have a reply target
  table,     \* per bridge: PendingInteractions
  hand,      \* per bridge: the entry try_resolve_pending has taken out and not yet settled
  run,       \* per bridge: its agent run, "off", "prep", "drive", "insert", "wait", "answered"
  runs,      \* runs started so far
  flag,      \* per bridge: current_cancel: "none", "clear" or "set"
  asked,     \* per bridge: the requests this run has made
  opened,    \* per bridge: those of them that are open in the run's gate
  queue,     \* per bridge: those announced to drive and not yet handled
  current,   \* per bridge: the one drive asks the owner about
  told,      \* history: requests whose settlement a loop saw with a channel running
  strayed    \* history: requests a cancelled loop forwarded

logVars == <<gate, log>>
loopVars == <<lpc, pos, cancelled, job>>
forwardVars == <<markers, inflight>>
channelVars == <<bridge, born, heard, table, hand>>
runVars == <<run, runs, flag, asked, opened, queue, current>>
historyVars == <<told, strayed>>
vars == <<logVars, loopVars, forwardVars, channelVars, runVars, historyVars>>

Entry == [id : Requests \cup Own, marker : Nat]
AtMostOne(S) == \A x, y \in S : x = y

LogTypeOK ==
  /\ gate \in [Requests -> {"none", "open", "settled", "announced"}]
  /\ log \in Seq([kind : {"requested", "settled"}, id : Requests])

LoopTypeOK ==
  /\ lpc \in [Loops -> {"none", "opening", "recv", "insert", "ended"}]
  /\ pos \in [Loops -> Nat] /\ cancelled \subseteq Loops
  /\ job \in [Loops -> SUBSET [entry : [id : Requests, marker : Nat], bridge : Bridges]]
  /\ \A l \in Loops : AtMostOne(job[l])

ForwardTypeOK ==
  /\ markers \in Seq([id : Requests, status : {"pending", "channel", "local"}, times : Nat])
  /\ inflight \in [Requests -> 0 .. Len(markers)]

ChannelTypeOK ==
  /\ bridge \in 0 .. MaxBridges /\ born \in 0 .. MaxBridges /\ heard \subseteq Bridges
  /\ table \in [Bridges -> SUBSET Entry]
  /\ hand \in [Bridges -> SUBSET Entry] /\ \A b \in Bridges : AtMostOne(hand[b])

RunTypeOK ==
  /\ run \in [Bridges -> {"off", "prep", "drive", "insert", "wait", "answered"}] /\ runs \in 0 .. MaxRuns
  /\ flag \in [Bridges -> {"none", "clear", "set"}]
  /\ asked \in [Bridges -> SUBSET Own] /\ opened \in [Bridges -> SUBSET Own]
  /\ queue \in [Bridges -> Seq(Own)] /\ current \in [Bridges -> SUBSET Own]
  /\ \A b \in Bridges : opened[b] \subseteq asked[b] /\ current[b] \subseteq asked[b] /\ AtMostOne(current[b])

TypeOK ==
  /\ LogTypeOK /\ LoopTypeOK /\ ForwardTypeOK /\ ChannelTypeOK /\ RunTypeOK
  /\ told \subseteq Requests /\ strayed \subseteq Requests

Init ==
  /\ gate = [r \in Requests |-> "none"] /\ log = << >>
  /\ lpc = [l \in Loops |-> "none"] /\ pos = [l \in Loops |-> 1] /\ cancelled = {}
  /\ job = [l \in Loops |-> {}]
  /\ markers = << >> /\ inflight = [r \in Requests |-> 0]
  /\ bridge = 0 /\ born = 0 /\ heard = {}
  /\ table = [b \in Bridges |-> {}] /\ hand = [b \in Bridges |-> {}]
  /\ run = [b \in Bridges |-> "off"] /\ runs = 0 /\ flag = [b \in Bridges |-> "none"]
  /\ asked = [b \in Bridges |-> {}] /\ opened = [b \in Bridges |-> {}]
  /\ queue = [b \in Bridges |-> << >>] /\ current = [b \in Bridges |-> {}]
  /\ told = {} /\ strayed = {}

\* HashMap::insert: an entry of the same request is replaced.
Put(entries, e) == {x \in entries : x.id # e.id} \cup {e}
-----------------------------------------------------------------------------
(***************************************************************************)
(* The main conversation.                                                  *)
(***************************************************************************)
Request(r) ==
  /\ gate[r] = "none"
  /\ gate' = [gate EXCEPT ![r] = "open"]
  /\ log' = Append(log, [kind |-> "requested", id |-> r])
  /\ UNCHANGED <<loopVars, forwardVars, channelVars, runVars, historyVars>>

\* Answered at the computer or the island, or drained by a stop.  It need not
\* happen: a call whose path is refused leaves its own approval open for good.
SettleAtDesk(r) ==
  /\ gate[r] = "open"
  /\ gate' = [gate EXCEPT ![r] = "settled"]
  /\ UNCHANGED <<log, loopVars, forwardVars, channelVars, runVars, historyVars>>

Announce(r) ==
  /\ gate[r] = "settled"
  /\ gate' = [gate EXCEPT ![r] = "announced"]
  /\ log' = Append(log, [kind |-> "settled", id |-> r])
  /\ UNCHANGED <<loopVars, forwardVars, channelVars, runVars, historyVars>>
-----------------------------------------------------------------------------
(***************************************************************************)
(* subscribe_session_events: a new subscription sets the token of the one  *)
(* before, which looks at it only between two events.                      *)
(***************************************************************************)
Subscribe(l) ==
  /\ lpc[l] = "none" /\ \A k \in Loops : k < l => lpc[k] # "none"
  /\ lpc' = [lpc EXCEPT ![l] = "opening"]
  /\ cancelled' = 1 .. l - 1
  /\ UNCHANGED <<logVars, pos, job, forwardVars, channelVars, runVars, historyVars>>

StartLoop(l) ==
  /\ lpc[l] = "opening"
  /\ lpc' = [lpc EXCEPT ![l] = IF l \in cancelled THEN "ended" ELSE "recv"]
  /\ pos' = [pos EXCEPT ![l] = Len(log) + 1]
  /\ UNCHANGED <<logVars, cancelled, job, forwardVars, channelVars, runVars, historyVars>>

Receives(l, kind, r) ==
  /\ lpc[l] = "recv" /\ pos[l] <= Len(log)
  /\ log[pos[l]] = [kind |-> kind, id |-> r]
  /\ pos' = [pos EXCEPT ![l] = @ + 1]

\* The event goes to the front end; the loop ends when that is gone or its token is set.
GoesOn(l) ==
  \/ l \notin cancelled /\ lpc' = [lpc EXCEPT ![l] = "recv"]
  \/ lpc' = [lpc EXCEPT ![l] = "ended"]

CanForward == bridge \in heard

\* maybe_forward of a request: the computer has been idle for long enough, the
\* marker is appended and tracked,
Forward(l, r) ==
  /\ Receives(l, "requested", r) /\ CanForward
  /\ markers' = Append(markers, [id |-> r, status |-> "pending", times |-> 0])
  /\ inflight' = [inflight EXCEPT ![r] = Len(markers) + 1]
  /\ job' = [job EXCEPT ![l] =
               {[entry |-> [id |-> r, marker |-> Len(markers) + 1], bridge |-> bridge]}]
  /\ lpc' = [lpc EXCEPT ![l] = "insert"]
  /\ strayed' = IF l \in cancelled THEN strayed \cup {r} ELSE strayed
  /\ UNCHANGED <<logVars, cancelled, channelVars, runVars, told>>

\* and the request put into the table of the bridge that was running.
Insert(l) ==
  /\ lpc[l] = "insert"
  /\ \E j \in job[l] :
       /\ table' = [table EXCEPT ![j.bridge] = Put(@, j.entry)]
       /\ strayed' = IF l \in cancelled THEN strayed \cup {j.entry.id} ELSE strayed
  /\ job' = [job EXCEPT ![l] = {}]
  /\ GoesOn(l)
  /\ UNCHANGED <<logVars, pos, cancelled, forwardVars, bridge, born, heard, hand, runVars, told>>

NoForward(l, r) ==
  /\ Receives(l, "requested", r)
  /\ GoesOn(l)
  /\ UNCHANGED <<logVars, cancelled, job, forwardVars, channelVars, runVars, historyVars>>

SettleMarker(m, how) == [markers EXCEPT ![m] = [id |-> @.id, status |-> how, times |-> @.times + 1]]

\* Mutant: the entry stays in the channel's table.
SettleLocallyOnly(l, r) ==
  /\ Receives(l, "settled", r)
  /\ GoesOn(l)
  /\ IF bridge = 0 THEN UNCHANGED <<forwardVars, told>>
     ELSE /\ told' = told \cup {r}
          /\ markers' = IF inflight[r] = 0 THEN markers ELSE SettleMarker(inflight[r], "local")
          /\ inflight' = [inflight EXCEPT ![r] = 0]
  /\ UNCHANGED <<logVars, cancelled, job, channelVars, runVars, strayed>>

\* Mutant: everything is withdrawn from the channel's table.
SettleLocallyClears(l, r) ==
  /\ Receives(l, "settled", r)
  /\ GoesOn(l)
  /\ table' = IF bridge = 0 THEN table ELSE [table EXCEPT ![bridge] = {}]
  /\ told' = IF bridge = 0 THEN told ELSE told \cup {r}
  /\ UNCHANGED <<logVars, cancelled, job, forwardVars, bridge, born, heard, hand, runVars, strayed>>

\* maybe_forward of a settlement: nothing without a running channel, else
\* cancel_forwarded and settle_locally.
SettleLocally(l, r) ==
  /\ Receives(l, "settled", r)
  /\ GoesOn(l)
  /\ IF bridge = 0 THEN UNCHANGED <<table, forwardVars, told>>
     ELSE /\ told' = told \cup {r}
          /\ table' = [table EXCEPT ![bridge] = {e \in @ : e.id # r}]
          /\ markers' = IF inflight[r] = 0 THEN markers ELSE SettleMarker(inflight[r], "local")
          /\ inflight' = [inflight EXCEPT ![r] = 0]
  /\ UNCHANGED <<logVars, cancelled, job, bridge, born, heard, hand, runVars, strayed>>
-----------------------------------------------------------------------------
(***************************************************************************)
(* The channel: spawn_channel, stop, and what the owner writes.            *)
(***************************************************************************)

\* A new bridge takes the place of the one before, whose loop is aborted; its
\* agent run goes on.
StartChannel ==
  /\ born < MaxBridges
  /\ born' = born + 1 /\ bridge' = born + 1
  /\ UNCHANGED <<logVars, loopVars, forwardVars, heard, table, hand, runVars, historyVars>>

StopChannel ==
  /\ bridge # 0 /\ bridge' = 0
  /\ UNCHANGED <<logVars, loopVars, forwardVars, born, heard, table, hand, runVars, historyVars>>

\* handle_message is free to take the owner's next message.
Takes(b) == bridge = b /\ hand[b] = {} /\ heard' = heard \cup {b}

\* An approval before a question, otherwise any.
Answerable(b) ==
  LET approvals == {e \in table[b] : e.id \notin Questions}
  IN  IF approvals # {} THEN approvals ELSE table[b]

\* try_resolve_pending takes an entry out of the table, whatever the message says.
OwnerAnswers(b) ==
  /\ Takes(b)
  /\ \E e \in Answerable(b) :
       /\ hand' = [hand EXCEPT ![b] = {e}]
       /\ table' = [table EXCEPT ![b] = @ \ {e}]
  /\ UNCHANGED <<logVars, loopVars, forwardVars, bridge, born, runVars, historyVars>>

\* HitlState.pending: only send_and_save adds to it, which no command calls any
\* more; the requests of the shared runtime are in HitlState.remote.
HitlPending == {}

\* Mutant: the marker is settled although the desk was first.
SettleFromChannelAlways(e) ==
  /\ e.id \in Requests
  /\ markers' = SettleMarker(e.marker, "channel")
  /\ inflight' = [inflight EXCEPT ![e.id] = 0]
  /\ UNCHANGED <<gate, run>>

\* DesktopHitlResolver: settle the marker unless the desk was first, and hand the
\* answer to HitlState.
SettleFromChannel(e) ==
  /\ e.id \in Requests
  /\ markers' = IF inflight[e.id] = 0 THEN markers ELSE SettleMarker(e.marker, "channel")
  /\ inflight' = [inflight EXCEPT ![e.id] = 0]
  /\ gate' = IF e.id \in HitlPending THEN [gate EXCEPT ![e.id] = "settled"] ELSE gate
  /\ UNCHANGED run

\* The oneshot of the bridge's own run.
WakeRun(b, e) ==
  /\ e.id \in Own
  /\ run' = [run EXCEPT ![b] = "answered"]
  /\ UNCHANGED <<gate, forwardVars>>

Settle(b) ==
  /\ \E e \in hand[b] : SettleFromChannel(e) \/ WakeRun(b, e)
  /\ hand' = [hand EXCEPT ![b] = {}]
  /\ UNCHANGED <<log, loopVars, bridge, born, heard, table, runs, flag, asked, opened, queue,
                 current, historyVars>>

\* /cancel, with nothing to answer.
OwnerCancels(b) ==
  /\ Takes(b) /\ table[b] = {}
  /\ flag' = [flag EXCEPT ![b] = IF @ = "none" THEN @ ELSE "set"]
  /\ UNCHANGED <<logVars, loopVars, forwardVars, bridge, born, table, hand, run, runs, asked,
                 opened, queue, current, historyVars>>

\* Any other text starts a run, unless there is one.
OwnerWrites(b) ==
  /\ Takes(b) /\ table[b] = {}
  /\ IF run[b] = "off"
     THEN runs < MaxRuns /\ runs' = runs + 1 /\ run' = [run EXCEPT ![b] = "prep"]
     ELSE UNCHANGED <<run, runs>>
  /\ UNCHANGED <<logVars, loopVars, forwardVars, bridge, born, table, hand, flag, asked, opened,
                 queue, current, historyVars>>
-----------------------------------------------------------------------------
(***************************************************************************)
(* The run the owner started: run_agent_turn, the agent, and drive with    *)
(* the ChannelObserver, which asks the owner about one request at a time.  *)
(***************************************************************************)
Prepare(b) ==
  /\ run[b] = "prep"
  /\ \/ /\ run' = [run EXCEPT ![b] = "drive"]
        /\ flag' = [flag EXCEPT ![b] = "clear"]
     \/ run' = [run EXCEPT ![b] = "off"] /\ UNCHANGED flag
  /\ UNCHANGED <<logVars, loopVars, forwardVars, channelVars, runs, asked, opened, queue,
                 current, historyVars>>

\* The agent asks; a run may ask for several things at once.
Ask(b, o) ==
  /\ run[b] \notin {"off", "prep"} /\ o \notin asked[b]
  /\ asked' = [asked EXCEPT ![b] = @ \cup {o}]
  /\ opened' = [opened EXCEPT ![b] = @ \cup {o}]
  /\ queue' = [queue EXCEPT ![b] = Append(@, o)]
  /\ UNCHANGED <<logVars, loopVars, forwardVars, channelVars, run, runs, flag, current, historyVars>>

\* The judge settles a request; drive does not hear of it.
Judge(b, o) ==
  /\ o \in opened[b] \ Questions
  /\ opened' = [opened EXCEPT ![b] = @ \ {o}]
  /\ UNCHANGED <<logVars, loopVars, forwardVars, channelVars, run, runs, flag, asked, queue, current,
                 historyVars>>

\* Mutant: drive does not look at the cancel flag.
DriveBlind(b) ==
  /\ run[b] = "drive" /\ queue[b] # << >>
  /\ queue' = [queue EXCEPT ![b] = Tail(@)]
  /\ IF Head(queue[b]) \notin opened[b]
     THEN UNCHANGED <<run, opened, current>>
     ELSE /\ run' = [run EXCEPT ![b] = "insert"]
          /\ current' = [current EXCEPT ![b] = {Head(queue[b])}]
          /\ UNCHANGED opened
  /\ UNCHANGED <<logVars, loopVars, forwardVars, channelVars, runs, flag, asked, historyVars>>

\* drive: a request made after a cancel is drained with all others, a settled
\* one is skipped.
Drive(b) ==
  /\ run[b] = "drive" /\ queue[b] # << >>
  /\ queue' = [queue EXCEPT ![b] = Tail(@)]
  /\ IF flag[b] = "set" THEN opened' = [opened EXCEPT ![b] = {}] /\ UNCHANGED <<run, current>>
     ELSE IF Head(queue[b]) \notin opened[b] THEN UNCHANGED <<run, opened, current>>
     ELSE /\ run' = [run EXCEPT ![b] = "insert"]
          /\ current' = [current EXCEPT ![b] = {Head(queue[b])}]
          /\ UNCHANGED opened
  /\ UNCHANGED <<logVars, loopVars, forwardVars, channelVars, runs, flag, asked, historyVars>>

\* on_permission_request, on_question: into the table, then wait for the owner.
AskOwner(b) ==
  /\ run[b] = "insert"
  /\ run' = [run EXCEPT ![b] = "wait"]
  /\ \E o \in current[b] : table' = [table EXCEPT ![b] = Put(@, [id |-> o, marker |-> 0])]
  /\ UNCHANGED <<logVars, loopVars, forwardVars, bridge, born, heard, hand, runs, flag, asked,
                 opened, queue, current, historyVars>>

\* The answer goes to the run's gate.
Resolve(b) ==
  /\ run[b] = "answered"
  /\ run' = [run EXCEPT ![b] = "drive"]
  /\ opened' = [opened EXCEPT ![b] = @ \ current[b]]
  /\ current' = [current EXCEPT ![b] = {}]
  /\ UNCHANGED <<logVars, loopVars, forwardVars, channelVars, runs, flag, asked, queue, historyVars>>

\* The agent has no call left that waits, and drive has read its last event.
EndRun(b) ==
  /\ run[b] = "drive" /\ queue[b] = << >> /\ opened[b] = {}
  /\ run' = [run EXCEPT ![b] = "off"]
  /\ flag' = [flag EXCEPT ![b] = "none"]
  /\ asked' = [asked EXCEPT ![b] = {}]
  /\ UNCHANGED <<logVars, loopVars, forwardVars, channelVars, runs, opened, queue, current,
                 historyVars>>
-----------------------------------------------------------------------------
Desk(r) == Request(r) \/ SettleAtDesk(r) \/ Announce(r)

Loop(l) ==
  \/ Subscribe(l) \/ StartLoop(l) \/ Insert(l)
  \/ \E r \in Requests : Forward(l, r) \/ NoForward(l, r) \/ SettleLocally(l, r)

Owner(b) == OwnerAnswers(b) \/ OwnerCancels(b) \/ OwnerWrites(b)

RunStep(b) ==
  \/ Prepare(b) \/ Drive(b) \/ AskOwner(b) \/ Resolve(b) \/ EndRun(b)
  \/ \E o \in Own : Ask(b, o) \/ Judge(b, o)

Next ==
  \/ \E r \in Requests : Desk(r)
  \/ \E l \in Loops : Loop(l)
  \/ \E b \in Bridges : Owner(b) \/ Settle(b) \/ RunStep(b)
  \/ StartChannel \/ StopChannel

\* The runtime goes on polling the channel's loop and the run's driver, and an
\* agent whose flag is set comes to an end.  Nobody has to write or answer.
Fairness ==
  \A b \in Bridges :
    /\ WF_vars(Settle(b)) /\ WF_vars(Drive(b)) /\ WF_vars(AskOwner(b)) /\ WF_vars(Resolve(b))
    /\ WF_vars(flag[b] = "set" /\ EndRun(b))

Spec == Init /\ [][Next]_vars /\ Fairness
-----------------------------------------------------------------------------
(***************************************************************************)
(* Properties.                                                             *)
(***************************************************************************)

\* The owner on the phone and the person at the desk race for a marker: it is
\* settled once (ChannelForwardState::take), unless a subscription that had
\* been cancelled went on to forward its request.
MarkerSettledOnce ==
  \A m \in DOMAIN markers : markers[m].times <= 1 \/ markers[m].id \in strayed

\* Once a loop has seen a request settled, with the channel running, the channel
\* does not wait for it any more and its marker is settled: no message of the
\* owner is taken for an answer to it.  (Same exception.)
SettledIsWithdrawn ==
  \A r \in told \ strayed :
    /\ \A m \in DOMAIN markers : markers[m].id = r => markers[m].status # "pending"
    /\ bridge # 0 => \A e \in table[bridge] : e.id # r

\* A run that waits for the owner can be answered: its request is in the table
\* of its bridge or on its way to it, whoever else's request was answered,
\* forwarded or withdrawn in the meantime.
WaiterIsAnswerable ==
  \A b \in Bridges :
    run[b] = "wait" => \E e \in table[b] \cup hand[b] : e.id \in current[b]

\* A run that has been told to stop ends, unless the flag was set after drive
\* had looked at it: then it asks the owner once more.
CancelEnds ==
  \A b \in Bridges :
    (flag[b] = "set" /\ run[b] \notin {"insert", "wait"}) ~> (run[b] = "off")

\* "The owner's answer goes through DesktopHitlResolver to this process's
\* HitlState, on the same path as a local approval" (channel_forward.rs:3-5): a
\* marker settled by the channel is a request that was settled.
AnswerLands ==
  \A m \in DOMAIN markers : markers[m].status = "channel" => gate[markers[m].id] # "open"
=============================================================================
