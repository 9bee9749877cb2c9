------------------------------ MODULE EventLog ------------------------------
(***************************************************************************)
(* The event log of one session runtime and the observers that read it     *)
(* (crates/agent-core/src/session_hub.rs, and the subscription loops of    *)
(* the desktop, web and command line surfaces).                            *)
(*                                                                         *)
(* Every event gets the next sequence number, is pushed into a bounded     *)
(* replay buffer and is sent on a bounded broadcast channel, all three     *)
(* under one lock.  Observers read the channel at their own pace; one that *)
(* falls behind by more than the channel holds is told that it lagged, and *)
(* each surface reacts to that differently.                                *)
(*                                                                         *)
(* Data abstraction: an envelope is its sequence number.  A receiver of    *)
(* the broadcast channel is the sequence number it reads next: while a     *)
(* receiver exists every event is sent, so for it the channel holds        *)
(* exactly the last ChanCap sequence numbers.                              *)
(***************************************************************************)
EXTENDS Integers, Sequences

CONSTANTS
  BufferCap,   \* EVENT_BUFFER_CAPACITY
  ChanCap,     \* EVENT_CHANNEL_CAPACITY, given to SessionRuntimeState::new
  MaxSeq,      \* bound: events emitted by one runtime
  MaxEpoch,    \* bound: runtimes created (process starts)
  Desktop,     \* observers running the loop of subscribe_session_events
  Web,         \* observers running the WebSocket subscription loop
  Cli,         \* observers running spawn_event_pump, or the loop of hebcore's socket
  Resumers     \* observers that come back with subscribe_after

Subs == Desktop \cup Web \cup Cli \cup Resumers

ASSUME BoundsAssumption ==
  /\ BufferCap \in Nat \ {0}
  /\ ChanCap \in Nat \ {0}
  /\ MaxSeq \in Nat
  /\ MaxEpoch \in Nat \ {0}

\* An observer runs one kind of loop.
ASSUME KindsAssumption ==
  /\ Desktop \cap (Web \cup Cli \cup Resumers) = {}
  /\ Resumers \cap (Web \cup Cli) = {}
  /\ Web \cap Cli = {}

VARIABLES
  epoch,      \* EventLog::epoch
  nextSeq,    \* EventLogInner::next_seq
  buffer,     \* EventLogInner::buffer
  phase,      \* per observer: "off", "live", "lagged", "replay" or "ended"
  next,       \* per observer: the sequence number its receiver reads next
  lastSeq,    \* per observer: last_seq of its loop, the seq of its cursor
  lastEpoch,  \* per observer: the epoch of its cursor
  todo,       \* per observer: what it took out of the buffer and has not handed on
  start,      \* history: the first sequence number the observer is due
  got,        \* history: the sequence numbers handed to the surface
  resynced    \* history: up to here the observer reloads the session instead

logVars == <<epoch, nextSeq, buffer>>
subVars == <<phase, next, lastSeq, lastEpoch, todo, start, got, resynced>>
eventLogVars == <<logVars, subVars>>

Seqs == 1..MaxSeq

LogTypeOK ==
  /\ epoch \in 1..MaxEpoch
  /\ nextSeq \in 1..(MaxSeq + 1)
  /\ buffer \in Seq(Seqs)
  /\ phase \in [Subs -> {"off", "live", "lagged", "replay", "ended"}]
  /\ next \in [Subs -> 1..(MaxSeq + 1)]
  /\ lastSeq \in [Subs -> 0..MaxSeq]
  /\ lastEpoch \in [Subs -> 0..MaxEpoch]
  /\ todo \in [Subs -> SUBSET Seqs]
  /\ start \in [Subs -> 1..(MaxSeq + 1)]
  /\ got \in [Subs -> SUBSET Seqs]
  /\ resynced \in [Subs -> 0..MaxSeq]

LogInit ==
  /\ epoch = 1
  /\ nextSeq = 1
  /\ buffer = <<>>
  /\ phase = [s \in Subs |-> "off"]
  /\ next = [s \in Subs |-> 1]
  /\ lastSeq = [s \in Subs |-> 0]
  /\ lastEpoch = [s \in Subs |-> 0]
  /\ todo = [s \in Subs |-> {}]
  /\ start = [s \in Subs |-> 1]
  /\ got = [s \in Subs |-> {}]
  /\ resynced = [s \in Subs |-> 0]

-----------------------------------------------------------------------------
(* The writer *)

\* Mutant: the oldest envelope is never dropped.
PushBackUnbounded(b, e) == Append(b, e)

\* The buffer makes room for one more by dropping its oldest envelope.
PushBack(b, e) == Append(IF Len(b) >= BufferCap THEN Tail(b) ELSE b, e)

\* emit: under the lock, take the sequence number, push and send.
Emit ==
  /\ nextSeq <= MaxSeq
  /\ buffer' = PushBack(buffer, nextSeq)
  /\ nextSeq' = nextSeq + 1
  /\ UNCHANGED <<epoch, subVars>>

\* A new process builds a new runtime: a larger epoch, sequence numbers from 1.
\* Every observer loses its receiver and keeps only its cursor.
Restart ==
  /\ epoch < MaxEpoch
  /\ epoch' = epoch + 1
  /\ nextSeq' = 1
  /\ buffer' = <<>>
  /\ phase' = [s \in Subs |-> "off"]
  /\ todo' = [s \in Subs |-> {}]
  /\ next' = [s \in Subs |-> 1]
  /\ start' = [s \in Subs |-> 1]
  /\ got' = [s \in Subs |-> {}]
  /\ resynced' = [s \in Subs |-> 0]
  /\ UNCHANGED <<lastSeq, lastEpoch>>

-----------------------------------------------------------------------------
(* Reading the buffer *)

\* Mutant: an off-by-one lets a hole of one event pass for a complete replay.
ReachesOverHole(q) == buffer # <<>> /\ buffer[1] <= q + 2

\* The buffer still holds the sequence number after q.
Reaches(q) == buffer # <<>> /\ buffer[1] <= q + 1

\* Mutant: the cursor's own event is replayed again.
AfterOrAt(q) == {p \in Seqs : p >= q /\ \E i \in 1..Len(buffer) : buffer[i] = p}

\* The envelopes of the buffer that come after q.  The buffer is in the order of
\* the sequence numbers (BufferIsTail), so a set of numbers stands for the vector.
After(q) == {p \in Seqs : p > q /\ \E i \in 1..Len(buffer) : buffer[i] = p}

\* events_after: the envelopes after q, or None (here FALSE) when some are gone.
EventsAfterSome(q) == buffer = <<>> \/ Reaches(q)

-----------------------------------------------------------------------------
(* Observers *)

\* subscribe: a receiver that sees only what is emitted from now on.
Subscribe(s) ==
  /\ s \notin Resumers
  /\ phase[s] = "off"
  /\ phase' = [phase EXCEPT ![s] = "live"]
  /\ next' = [next EXCEPT ![s] = nextSeq]
  /\ start' = [start EXCEPT ![s] = nextSeq]
  /\ lastSeq' = [lastSeq EXCEPT ![s] = 0]
  /\ got' = [got EXCEPT ![s] = {}]
  /\ resynced' = [resynced EXCEPT ![s] = 0]
  /\ UNCHANGED <<logVars, lastEpoch, todo>>

\* The cursor can be continued from the buffer of this runtime.
Continues(s) ==
  /\ lastEpoch[s] = epoch
  /\ Reaches(lastSeq[s]) \/ (buffer = <<>> /\ nextSeq = lastSeq[s] + 1)

\* subscribe_after: the receiver and the gap are taken under one lock.  A cursor
\* that cannot be continued, or no cursor, makes the observer load a snapshot.
SubscribeAfter(s) ==
  /\ s \in Resumers
  /\ phase[s] = "off"
  /\ next' = [next EXCEPT ![s] = nextSeq]
  /\ IF Continues(s)
     THEN /\ todo' = [todo EXCEPT ![s] = After(lastSeq[s])]
          /\ phase' = [phase EXCEPT ![s] = IF After(lastSeq[s]) = {} THEN "live" ELSE "replay"]
          /\ UNCHANGED <<start, got, lastSeq, lastEpoch, resynced>>
     ELSE /\ phase' = [phase EXCEPT ![s] = "live"]
          /\ start' = [start EXCEPT ![s] = nextSeq]
          /\ got' = [got EXCEPT ![s] = {}]
          /\ lastSeq' = [lastSeq EXCEPT ![s] = nextSeq - 1]
          /\ lastEpoch' = [lastEpoch EXCEPT ![s] = epoch]
          /\ resynced' = [resynced EXCEPT ![s] = nextSeq - 1]
          /\ UNCHANGED todo
  /\ UNCHANGED logVars

\* The loop ends: the connection drops, the surface is gone, or a new subscription
\* cancels the old one.  What it had taken out of the buffer goes with it.
Disconnect(s) ==
  /\ phase[s] # "off"
  /\ phase' = [phase EXCEPT ![s] = "off"]
  /\ todo' = [todo EXCEPT ![s] = {}]
  /\ UNCHANGED <<logVars, next, lastSeq, lastEpoch, start, got, resynced>>

Lagging(s) == nextSeq - next[s] > ChanCap

Deliver(s, q) ==
  /\ got' = [got EXCEPT ![s] = @ \cup {q}]
  /\ lastSeq' = [lastSeq EXCEPT ![s] = q]

\* recv answers Ok(envelope): the loop hands it on and remembers its number.
RecvOk(s) ==
  /\ phase[s] = "live"
  /\ next[s] < nextSeq
  /\ ~Lagging(s)
  /\ Deliver(s, next[s])
  /\ next' = [next EXCEPT ![s] = @ + 1]
  /\ UNCHANGED <<logVars, phase, lastEpoch, todo, start, resynced>>

\* Mutant: a lag is skipped over and nothing is read back from the buffer.
RecvLaggedSkips(s) ==
  /\ phase[s] = "live"
  /\ Lagging(s)
  /\ next' = [next EXCEPT ![s] = nextSeq - ChanCap]
  /\ UNCHANGED <<logVars, phase, lastSeq, lastEpoch, todo, start, got, resynced>>

\* recv answers Lagged: the receiver stands at the oldest event the channel
\* still holds.  The desktop goes on to heal itself, the web loop ends, the
\* command line prints a notice and goes on (hebcore goes on without one), a
\* resumer reconnects.
RecvLagged(s) ==
  /\ phase[s] = "live"
  /\ Lagging(s)
  /\ next' = [next EXCEPT ![s] = nextSeq - ChanCap]
  /\ phase' = [phase EXCEPT ![s] =
       CASE s \in Desktop  -> "lagged"
         [] s \in Web      -> "ended"
         [] s \in Cli      -> "live"
         [] s \in Resumers -> "off"]
  /\ UNCHANGED <<logVars, lastSeq, lastEpoch, todo, start, got, resynced>>

\* The desktop asks events_after(last_seq).  None makes the front end reload.
Heal(s) ==
  /\ phase[s] = "lagged"
  /\ IF EventsAfterSome(lastSeq[s])
     THEN /\ todo' = [todo EXCEPT ![s] = After(lastSeq[s])]
          /\ phase' = [phase EXCEPT ![s] = IF After(lastSeq[s]) = {} THEN "live" ELSE "replay"]
          /\ UNCHANGED resynced
     ELSE /\ resynced' = [resynced EXCEPT ![s] = nextSeq - 1]
          /\ phase' = [phase EXCEPT ![s] = "live"]
          /\ UNCHANGED todo
  /\ UNCHANGED <<logVars, next, lastSeq, lastEpoch, start, got>>

\* The next of the envelopes taken out of the buffer is handed on.
DeliverMissed(s) ==
  /\ phase[s] = "replay"
  /\ \E q \in todo[s] :
       /\ \A p \in todo[s] : q <= p
       /\ Deliver(s, q)
       /\ todo' = [todo EXCEPT ![s] = @ \ {q}]
       /\ phase' = [phase EXCEPT ![s] = IF todo[s] = {q} THEN "live" ELSE "replay"]
  /\ UNCHANGED <<logVars, next, lastEpoch, start, resynced>>

Observe(s) == RecvOk(s) \/ RecvLagged(s) \/ Heal(s) \/ DeliverMissed(s)

LogNext ==
  \/ Emit
  \/ Restart
  \/ \E s \in Subs : Subscribe(s) \/ SubscribeAfter(s) \/ Disconnect(s) \/ Observe(s)

LogSpec == LogInit /\ [][LogNext]_eventLogVars

\* Each subscription loop is a task of its own: it always goes on reading.
LogFairness == \A s \in Subs : WF_eventLogVars(Observe(s))

LogFairSpec == LogSpec /\ LogFairness
-----------------------------------------------------------------------------
(* Properties *)

\* The replay buffer is exactly the last BufferCap events, without holes and in
\* order: sequence numbers, pushes and pops never drift apart (emit).
BufferIsTail ==
  /\ Len(buffer) = IF nextSeq - 1 < BufferCap THEN nextSeq - 1 ELSE BufferCap
  /\ \A i \in 1..Len(buffer) : buffer[i] = nextSeq - Len(buffer) + i - 1

\* An observer of the desktop, or one that reconnects with subscribe_after, never
\* misses an event silently: whatever its receiver has passed was handed on, is
\* waiting to be, is about to be fetched after a lag, or was covered by a resync.
NoSilentGap ==
  \A s \in Desktop \cup Resumers :
    phase[s] \in {"live", "replay"} =>
      \A q \in start[s]..(next[s] - 1) :
        \/ q \in got[s]
        \/ q <= resynced[s]
        \/ q \in todo[s]

\* What subscribe_after replays and what the receiver goes on with meet without
\* a hole and without an overlap: the cursor, the rest of the replay and the
\* live stream are consecutive numbers, across disconnects, lags and restarts.
SeamlessReplay ==
  \A s \in Resumers :
    /\ phase[s] = "live" => next[s] = lastSeq[s] + 1
    /\ phase[s] = "replay" => todo[s] = (lastSeq[s] + 1)..(next[s] - 1)

\* Whatever is emitted while the desktop is subscribed is eventually handed to
\* it or covered by a reload of the session, however far behind it falls.
EventuallySeen ==
  \A s \in Desktop : \A q \in Seqs :
    (phase[s] # "off" /\ start[s] <= q /\ q < nextSeq)
      ~> (q \in got[s] \/ q <= resynced[s] \/ phase[s] = "off")

-----------------------------------------------------------------------------
(* The inductive invariant behind NoSilentGap and SeamlessReplay *)

Seen(s, q) == q \in got[s] \/ q <= resynced[s]

\* The cursor of s belongs to this runtime.
HasCursor(s) == IF s \in Resumers THEN lastEpoch[s] = epoch ELSE phase[s] # "off"

\* No number an observer holds runs ahead of the log.
Bounded(s) ==
  /\ next[s] <= nextSeq
  /\ start[s] <= next[s]
  /\ resynced[s] < nextSeq
  /\ lastEpoch[s] <= epoch
  /\ HasCursor(s) => lastSeq[s] < nextSeq
  /\ phase[s] = "lagged" => s \in Desktop
  /\ phase[s] = "replay" => s \in Desktop \cup Resumers
  /\ s \in Resumers /\ phase[s] # "off" => lastEpoch[s] = epoch

\* Up to its cursor an observer has seen everything; what it took out of the
\* buffer goes on from there without a hole and reaches the live stream.
Gapless(s) ==
  /\ HasCursor(s) => \A q \in start[s]..lastSeq[s] : Seen(s, q)
  /\ phase[s] \in {"live", "replay"} =>
       \A q \in start[s]..(next[s] - 1) : Seen(s, q) \/ q \in todo[s]
  /\ phase[s] # "replay" => todo[s] = {}
  /\ \A q \in todo[s] : /\ lastSeq[s] < q /\ q < nextSeq
                        /\ \A p \in (lastSeq[s] + 1)..q : p \in todo[s]

Seamless(s) ==
  /\ phase[s] = "live" => next[s] = lastSeq[s] + 1
  /\ phase[s] = "replay" => todo[s] = (lastSeq[s] + 1)..(next[s] - 1)

SubInv(s) ==
  /\ Bounded(s)
  /\ s \in Desktop \cup Resumers => Gapless(s)
  /\ s \in Resumers => Seamless(s)

LogIndInv == BufferIsTail /\ \A s \in Subs : SubInv(s)
=============================================================================
