------------------------ MODULE SessionRuntimeProofs ------------------------
(***************************************************************************)
(* Safety of the three machines of a session runtime: the event log with   *)
(* its observers (EventLog), for every capacity, bound and set of          *)
(* observers; the run that works through the session's inputs              *)
(* (SessionRun), for every set of inputs and any number of runs; and the   *)
(* way the end of a background task takes to the session (Wakeup), for any *)
(* set of tasks. The machines are proved about one after the other; no     *)
(* step of a proof uses two. LogIndInv, IndInv and the formula of the      *)
(* lemma Inductive are inductive; the safety properties follow from them.  *)
(*                                                                         *)
(* What is inductive of Wakeup is said task by task. A task whose end has  *)
(* been announced is no longer watched by anyone who could announce it     *)
(* again: neither by the scheduler's map nor by the scan that is under     *)
(* way, whose three lists are kept apart (Scanning, OnlyOnce). An          *)
(* announcement is made only when the scan saw an exit, or no entry at all *)
(* (IsNews). And an armed task is always somewhere: watched, announced,    *)
(* killed, or in one of the three sets of losses the model names           *)
(* (Accounted).                                                            *)
(***************************************************************************)
EXTENDS EventLog, SessionRun, Wakeup, TLAPS, SequenceTheorems

-----------------------------------------------------------------------------
(* The event log *)

\* What the buffer gives after a cursor is a set of sequence numbers.
LEMMA AfterType == \A q : After(q) \in SUBSET Seqs
  BY DEF After

\* LogTypeOK is inductive: no operation of the log or of an observer leaves the types.
THEOREM LogTypeCorrect == LogSpec => []LogTypeOK
<1> USE BoundsAssumption DEF Seqs
<1>1. LogInit => LogTypeOK
  <2> SUFFICES ASSUME LogInit PROVE LogTypeOK
    OBVIOUS
  <2>1. epoch \in 1..MaxEpoch /\ nextSeq \in 1..(MaxSeq + 1) /\ buffer \in Seq(Seqs)
    BY DEF LogInit
  <2>3. /\ phase \in [Subs -> {"off", "live", "lagged", "replay", "ended"}]
        /\ next \in [Subs -> 1..(MaxSeq + 1)] /\ start \in [Subs -> 1..(MaxSeq + 1)]
    BY DEF LogInit
  <2>4. /\ lastSeq \in [Subs -> 0..MaxSeq] /\ lastEpoch \in [Subs -> 0..MaxEpoch]
        /\ resynced \in [Subs -> 0..MaxSeq]
    BY DEF LogInit
  <2>5. /\ todo \in [Subs -> SUBSET Seqs] /\ got \in [Subs -> SUBSET Seqs]
    BY DEF LogInit
  <2> QED
    BY <2>1, <2>3, <2>4, <2>5 DEF LogTypeOK
<1>2. LogTypeOK /\ [LogNext]_eventLogVars => LogTypeOK'
  <2> SUFFICES ASSUME LogTypeOK, [LogNext]_eventLogVars PROVE LogTypeOK'
    OBVIOUS
  <2>1. CASE Emit
    <3>1. buffer' \in Seq(Seqs)
      <4>1. nextSeq \in Seqs /\ buffer \in Seq(Seqs)
        BY <2>1 DEF Emit, LogTypeOK
      <4>2. BufferCap > 0
        OBVIOUS
      <4> HIDE DEF Seqs
      <4> QED
        BY <2>1, <4>1, <4>2 DEF Emit, PushBack
    <3> QED
      BY <2>1, <3>1 DEF Emit, LogTypeOK, subVars
  <2>4. CASE Restart
    BY <2>4 DEF Restart, LogTypeOK
  <2>5. ASSUME NEW s \in Subs, Subscribe(s) PROVE LogTypeOK'
    BY <2>5 DEF Subscribe, LogTypeOK, logVars
  <2>6. ASSUME NEW s \in Subs, SubscribeAfter(s) PROVE LogTypeOK'
    <3>1. CASE Continues(s)
      <4>1. todo' \in [Subs -> SUBSET Seqs]
        <5>1. todo' = [todo EXCEPT ![s] = After(lastSeq[s])]
          BY <2>6, <3>1 DEF SubscribeAfter
        <5>2. todo \in [Subs -> SUBSET Seqs]
          BY DEF LogTypeOK
        <5> HIDE DEF Seqs
        <5> QED
          BY <5>1, <5>2, AfterType
      <4>2. phase' \in [Subs -> {"off", "live", "lagged", "replay", "ended"}]
        BY <2>6, <3>1 DEF SubscribeAfter, LogTypeOK
      <4> QED
        BY <2>6, <3>1, <4>1, <4>2 DEF SubscribeAfter, LogTypeOK, logVars
    <3>2. CASE ~Continues(s)
      <4>0. /\ next' = [next EXCEPT ![s] = nextSeq]
            /\ phase' = [phase EXCEPT ![s] = "live"]
            /\ start' = [start EXCEPT ![s] = nextSeq]
            /\ got' = [got EXCEPT ![s] = {}]
            /\ lastSeq' = [lastSeq EXCEPT ![s] = nextSeq - 1]
            /\ lastEpoch' = [lastEpoch EXCEPT ![s] = epoch]
            /\ resynced' = [resynced EXCEPT ![s] = nextSeq - 1]
            /\ UNCHANGED todo
            /\ UNCHANGED logVars
        BY <2>6, <3>2, Zenon DEF SubscribeAfter
      <4>1. nextSeq - 1 \in 0..MaxSeq
        BY DEF LogTypeOK
      <4>2. /\ next' \in [Subs -> 1..(MaxSeq + 1)] /\ start' \in [Subs -> 1..(MaxSeq + 1)]
            /\ lastSeq' \in [Subs -> 0..MaxSeq] /\ resynced' \in [Subs -> 0..MaxSeq]
        BY <4>0, <4>1 DEF LogTypeOK
      <4>3. /\ phase' \in [Subs -> {"off", "live", "lagged", "replay", "ended"}]
            /\ lastEpoch' \in [Subs -> 0..MaxEpoch]
            /\ got' \in [Subs -> SUBSET Seqs]
        BY <4>0 DEF LogTypeOK
      <4> QED
        BY <4>0, <4>2, <4>3 DEF LogTypeOK, logVars
    <3> QED
      BY <3>1, <3>2
  <2>7. ASSUME NEW s \in Subs, Disconnect(s) PROVE LogTypeOK'
    BY <2>7 DEF Disconnect, LogTypeOK, logVars
  <2>8. ASSUME NEW s \in Subs, RecvOk(s) PROVE LogTypeOK'
    <3>1. next[s] \in Seqs
      BY <2>8 DEF RecvOk, LogTypeOK
    <3>2. got' \in [Subs -> SUBSET Seqs] /\ lastSeq' \in [Subs -> 0..MaxSeq]
      BY <2>8, <3>1 DEF RecvOk, Deliver, LogTypeOK
    <3>3. next' \in [Subs -> 1..(MaxSeq + 1)]
      BY <2>8, <3>1 DEF RecvOk, LogTypeOK
    <3> QED
      BY <2>8, <3>2, <3>3 DEF RecvOk, LogTypeOK, logVars
  <2>9. ASSUME NEW s \in Subs, RecvLagged(s) PROVE LogTypeOK'
    <3>1. next' \in [Subs -> 1..(MaxSeq + 1)]
      BY <2>9 DEF RecvLagged, Lagging, LogTypeOK
    <3>2. phase' \in [Subs -> {"off", "live", "lagged", "replay", "ended"}]
      BY <2>9 DEF RecvLagged, LogTypeOK, Subs
    <3> QED
      BY <2>9, <3>1, <3>2 DEF RecvLagged, LogTypeOK, logVars
  <2>10. ASSUME NEW s \in Subs, Heal(s) PROVE LogTypeOK'
    <3>1. CASE EventsAfterSome(lastSeq[s])
      <4>1. todo' \in [Subs -> SUBSET Seqs]
        <5>1. todo' = [todo EXCEPT ![s] = After(lastSeq[s])]
          BY <2>10, <3>1 DEF Heal
        <5>2. todo \in [Subs -> SUBSET Seqs]
          BY DEF LogTypeOK
        <5> HIDE DEF Seqs
        <5> QED
          BY <5>1, <5>2, AfterType
      <4>2. phase' \in [Subs -> {"off", "live", "lagged", "replay", "ended"}]
        BY <2>10, <3>1 DEF Heal, LogTypeOK
      <4> QED
        BY <2>10, <3>1, <4>1, <4>2 DEF Heal, LogTypeOK, logVars
    <3>2. CASE ~EventsAfterSome(lastSeq[s])
      <4>1. nextSeq - 1 \in 0..MaxSeq
        BY DEF LogTypeOK
      <4>2. resynced' \in [Subs -> 0..MaxSeq]
        BY <2>10, <3>2, <4>1 DEF Heal, LogTypeOK
      <4>3. phase' \in [Subs -> {"off", "live", "lagged", "replay", "ended"}]
        BY <2>10, <3>2 DEF Heal, LogTypeOK
      <4> QED
        BY <2>10, <3>2, <4>2, <4>3 DEF Heal, LogTypeOK, logVars
    <3> QED
      BY <3>1, <3>2
  <2>11. ASSUME NEW s \in Subs, DeliverMissed(s) PROVE LogTypeOK'
    <3>1. PICK q \in todo[s] :
            /\ Deliver(s, q)
            /\ todo' = [todo EXCEPT ![s] = @ \ {q}]
            /\ phase' = [phase EXCEPT ![s] = IF todo[s] = {q} THEN "live" ELSE "replay"]
      BY <2>11 DEF DeliverMissed
    <3>2. q \in Seqs
      BY DEF LogTypeOK
    <3>3. got' \in [Subs -> SUBSET Seqs] /\ lastSeq' \in [Subs -> 0..MaxSeq]
      BY <3>1, <3>2 DEF Deliver, LogTypeOK
    <3>4. todo' \in [Subs -> SUBSET Seqs]
      BY <3>1 DEF LogTypeOK
    <3>5. phase' \in [Subs -> {"off", "live", "lagged", "replay", "ended"}]
      BY <3>1 DEF LogTypeOK
    <3> QED
      BY <2>11, <3>3, <3>4, <3>5 DEF DeliverMissed, LogTypeOK, logVars
  <2>12. CASE UNCHANGED eventLogVars
    BY <2>12 DEF eventLogVars, logVars, subVars, LogTypeOK
  <2> QED
    BY <2>1, <2>4, <2>5, <2>6, <2>7, <2>8, <2>9, <2>10, <2>11, <2>12
    DEF LogNext, Observe
<1> QED
  BY <1>1, <1>2, PTL DEF LogSpec

-----------------------------------------------------------------------------
(* The buffer *)

\* emit keeps the buffer a contiguous tail of the emitted sequence numbers.
LEMMA BufferStep == LogTypeOK /\ BufferIsTail /\ [LogNext]_eventLogVars => BufferIsTail'
<1> USE BoundsAssumption DEF Seqs
<1> SUFFICES ASSUME LogTypeOK, BufferIsTail, [LogNext]_eventLogVars PROVE BufferIsTail'
  OBVIOUS
<1>1. CASE Emit
  <2>1. buffer \in Seq(Int) /\ nextSeq \in Nat
    BY DEF LogTypeOK
  <2>2. CASE Len(buffer) >= BufferCap
    <3>1. buffer' = Append(Tail(buffer), nextSeq)
      BY <1>1, <2>2 DEF Emit, PushBack
    <3>2. /\ Len(Tail(buffer)) = Len(buffer) - 1
          /\ \A i \in 1..(Len(buffer) - 1) : Tail(buffer)[i] = buffer[i + 1]
          /\ Tail(buffer) \in Seq(Int)
      BY <2>1, <2>2
    <3>3. /\ Len(buffer') = Len(buffer)
          /\ buffer'[Len(buffer)] = nextSeq
          /\ \A i \in 1..(Len(buffer) - 1) : buffer'[i] = buffer[i + 1]
      BY <2>1, <2>2, <3>1, <3>2
    <3>4. /\ Len(buffer) = BufferCap /\ nextSeq' = nextSeq + 1 /\ BufferCap < nextSeq
          /\ \A i \in 1..BufferCap : buffer[i] = nextSeq - BufferCap + i - 1
      BY <1>1, <2>1, <2>2 DEF Emit, BufferIsTail
    <3>5. \A i \in 1..BufferCap : buffer'[i] = nextSeq' - BufferCap + i - 1
      BY <2>1, <3>3, <3>4
    <3>6. Len(buffer') = BufferCap /\ nextSeq' - 1 >= BufferCap
      BY <2>1, <3>3, <3>4
    <3> QED
      BY <2>1, <3>4, <3>5, <3>6 DEF BufferIsTail
  <2>3. CASE Len(buffer) < BufferCap
    <3>1. buffer' = Append(buffer, nextSeq)
      BY <1>1, <2>1, <2>3 DEF Emit, PushBack
    <3>2. /\ Len(buffer') = Len(buffer) + 1
          /\ buffer'[Len(buffer) + 1] = nextSeq
          /\ \A i \in 1..Len(buffer) : buffer'[i] = buffer[i]
      BY <2>1, <3>1
    <3>3. Len(buffer) = nextSeq - 1 /\ nextSeq' = nextSeq + 1 /\ Len(buffer) \in Nat
      BY <1>1, <2>1, <2>3 DEF Emit, BufferIsTail
    <3>4. \A i \in 1..Len(buffer) : buffer[i] = i
      <4>1. \A i \in 1..Len(buffer) : buffer[i] = nextSeq - Len(buffer) + i - 1
        BY DEF BufferIsTail
      <4>2. nextSeq - Len(buffer) = 1
        BY <2>1, <3>3
      <4> SUFFICES ASSUME NEW i \in 1..Len(buffer) PROVE buffer[i] = i
        OBVIOUS
      <4> QED
        BY <4>1, <4>2, <2>1, <3>3
    <3>5. \A i \in 1..Len(buffer') : buffer'[i] = i
      BY <2>1, <3>2, <3>3, <3>4
    <3>6. Len(buffer') = nextSeq' - 1 /\ Len(buffer') <= BufferCap
      BY <2>1, <2>3, <3>2, <3>3
    <3> QED
      BY <2>1, <3>3, <3>5, <3>6 DEF BufferIsTail
  <2> QED
    BY <2>1, <2>2, <2>3
<1>2. CASE Restart
  BY <1>2 DEF Restart, BufferIsTail
<1>3. CASE UNCHANGED logVars
  BY <1>3 DEF logVars, BufferIsTail
<1> QED
  BY <1>1, <1>2, <1>3 DEF LogNext, Observe, eventLogVars, Subscribe, SubscribeAfter, Disconnect,
     RecvOk, RecvLagged, Heal, DeliverMissed

\* If the buffer reaches a cursor, what it gives after the cursor is everything
\* emitted since.
LEMMA AfterIs ==
  ASSUME LogTypeOK, BufferIsTail, NEW q \in Nat, Reaches(q)
  PROVE  After(q) = (q + 1)..(nextSeq - 1)
<1> USE BoundsAssumption
<1>1. /\ buffer \in Seq(Int) /\ nextSeq \in 1..(MaxSeq + 1) /\ Len(buffer) \in Nat
      /\ Len(buffer) > 0
  BY DEF LogTypeOK, Seqs, Reaches
<1>2. buffer[1] = nextSeq - Len(buffer) /\ buffer[1] <= q + 1
  BY <1>1 DEF BufferIsTail, Reaches
<1>3. ASSUME NEW p \in After(q) PROVE p \in (q + 1)..(nextSeq - 1)
  BY <1>1, <1>3 DEF After, BufferIsTail, Seqs
<1>4. ASSUME NEW p \in (q + 1)..(nextSeq - 1) PROVE p \in After(q)
  <2>1. p - nextSeq + Len(buffer) + 1 \in 1..Len(buffer)
    BY <1>1, <1>2
  <2>2. buffer[p - nextSeq + Len(buffer) + 1] = p
    BY <1>1, <2>1 DEF BufferIsTail
  <2> QED
    BY <1>1, <2>1, <2>2 DEF After, Seqs
<1> QED
  BY <1>3, <1>4

-----------------------------------------------------------------------------
(* One observer *)

\* An observer that a step leaves alone keeps its invariant while the log grows.
LEMMA Frame ==
  ASSUME LogTypeOK, NEW t \in Subs, SubInv(t),
         epoch' = epoch, nextSeq' \in Nat, nextSeq <= nextSeq',
         phase'[t] = phase[t], next'[t] = next[t], lastSeq'[t] = lastSeq[t],
         lastEpoch'[t] = lastEpoch[t], todo'[t] = todo[t], start'[t] = start[t],
         got'[t] = got[t], resynced'[t] = resynced[t]
  PROVE  SubInv(t)'
<1> USE BoundsAssumption
<1>1. /\ next[t] \in Nat /\ nextSeq \in Nat /\ resynced[t] \in Nat /\ lastSeq[t] \in Nat
      /\ todo[t] \subseteq Nat
  BY DEF LogTypeOK, Seqs
<1>2. Bounded(t)'
  BY <1>1 DEF SubInv, Bounded, HasCursor
<1>3. Gapless(t) => Gapless(t)'
  BY <1>1 DEF Gapless, HasCursor, Seen
<1>4. Seamless(t) => Seamless(t)'
  BY <1>1 DEF Seamless
<1> QED
  BY <1>2, <1>3, <1>4 DEF SubInv

\* Every step keeps the invariant of every observer: the operation that moves an
\* observer is treated on its own, the others are framed.
LEMMA SubStep ==
  ASSUME LogTypeOK, LogTypeOK', LogIndInv, [LogNext]_eventLogVars, NEW t \in Subs
  PROVE  SubInv(t)'
<1> USE BoundsAssumption
<1>1. /\ SubInv(t) /\ BufferIsTail
  BY DEF LogIndInv
<1>2. /\ nextSeq \in Nat /\ 1 <= nextSeq /\ epoch \in Nat
      /\ next[t] \in Nat /\ start[t] \in Nat /\ lastSeq[t] \in Nat
      /\ resynced[t] \in Nat /\ lastEpoch[t] \in Nat
      /\ todo[t] \subseteq Nat /\ got[t] \subseteq Nat
  <2>1. nextSeq \in Nat /\ 1 <= nextSeq /\ epoch \in Nat
    BY DEF LogTypeOK
  <2>2. next[t] \in Nat /\ start[t] \in Nat /\ lastSeq[t] \in Nat
    BY DEF LogTypeOK
  <2>3. resynced[t] \in Nat /\ lastEpoch[t] \in Nat
    BY DEF LogTypeOK
  <2>4. todo[t] \subseteq Nat /\ got[t] \subseteq Nat
    <3>1. Seqs \subseteq Nat
      BY DEF Seqs
    <3>2. todo[t] \subseteq Seqs /\ got[t] \subseteq Seqs
      BY DEF LogTypeOK
    <3> QED
      BY <3>1, <3>2
  <2> QED
    BY <2>1, <2>2, <2>3, <2>4
<1>3. CASE Emit \/ UNCHANGED eventLogVars
  BY <1>1, <1>2, <1>3, Frame DEF Emit, eventLogVars, logVars, subVars
<1>4. CASE Restart
  <2>1. /\ phase'[t] = "off" /\ next'[t] = 1 /\ start'[t] = 1 /\ resynced'[t] = 0
        /\ todo'[t] = {} /\ got'[t] = {} /\ nextSeq' = 1 /\ epoch' = epoch + 1
        /\ lastEpoch'[t] = lastEpoch[t]
    BY <1>4 DEF Restart
  <2>2. HasCursor(t)' = FALSE
    BY <1>1, <1>2, <2>1 DEF HasCursor, SubInv, Bounded
  <2>3. Bounded(t)'
    BY <1>1, <1>2, <2>1, <2>2 DEF Bounded, SubInv
  <2>4. Gapless(t)' /\ Seamless(t)'
    BY <2>1, <2>2 DEF Gapless, Seamless
  <2> QED
    BY <2>3, <2>4 DEF SubInv
<1>5. ASSUME NEW s \in Subs, Subscribe(s) PROVE SubInv(t)'
  <2>1. CASE s # t
    <3>1. /\ epoch' = epoch /\ nextSeq' = nextSeq
          /\ phase'[t] = phase[t] /\ next'[t] = next[t] /\ lastSeq'[t] = lastSeq[t]
          /\ lastEpoch'[t] = lastEpoch[t] /\ todo'[t] = todo[t] /\ start'[t] = start[t]
          /\ got'[t] = got[t] /\ resynced'[t] = resynced[t]
      BY <1>5, <2>1 DEF Subscribe, logVars, LogTypeOK
    <3> QED
      BY <1>1, <1>2, <3>1, Frame
  <2>2. CASE s = t
    <3>1. /\ t \notin Resumers /\ phase[t] = "off" /\ phase'[t] = "live"
          /\ next'[t] = nextSeq /\ start'[t] = nextSeq /\ lastSeq'[t] = 0
          /\ nextSeq' = nextSeq /\ epoch' = epoch /\ lastEpoch'[t] = lastEpoch[t]
          /\ todo'[t] = todo[t] /\ got'[t] = {} /\ resynced'[t] = 0
      BY <1>5, <2>2 DEF Subscribe, logVars, LogTypeOK
    <3>2. Bounded(t)'
      BY <1>1, <1>2, <3>1 DEF Bounded, SubInv, HasCursor
    <3>3. Gapless(t) => Gapless(t)'
      BY <1>2, <3>1 DEF Gapless
    <3> QED
      BY <1>1, <3>1, <3>2, <3>3 DEF SubInv
  <2> QED
    BY <2>1, <2>2
<1>6. ASSUME NEW s \in Subs, SubscribeAfter(s) PROVE SubInv(t)'
  <2>1. CASE s # t
    <3>1. /\ epoch' = epoch /\ nextSeq' = nextSeq
          /\ phase'[t] = phase[t] /\ next'[t] = next[t] /\ lastSeq'[t] = lastSeq[t]
          /\ lastEpoch'[t] = lastEpoch[t] /\ todo'[t] = todo[t] /\ start'[t] = start[t]
          /\ got'[t] = got[t] /\ resynced'[t] = resynced[t]
      <4>1. CASE Continues(s)
        BY <1>6, <2>1, <4>1 DEF SubscribeAfter, logVars, LogTypeOK
      <4>2. CASE ~Continues(s)
        <5>1. /\ phase' = [phase EXCEPT ![s] = "live"]
              /\ next' = [next EXCEPT ![s] = nextSeq]
              /\ start' = [start EXCEPT ![s] = nextSeq]
              /\ got' = [got EXCEPT ![s] = {}]
              /\ lastSeq' = [lastSeq EXCEPT ![s] = nextSeq - 1]
              /\ lastEpoch' = [lastEpoch EXCEPT ![s] = epoch]
              /\ resynced' = [resynced EXCEPT ![s] = nextSeq - 1]
              /\ UNCHANGED todo
              /\ UNCHANGED logVars
          BY <1>6, <4>2, Zenon DEF SubscribeAfter
        <5> QED
          BY <2>1, <5>1 DEF logVars, LogTypeOK
      <4> QED
        BY <4>1, <4>2
    <3> QED
      BY <1>1, <1>2, <3>1, Frame
  <2>2. CASE s = t /\ Continues(t)
    <3>1. /\ t \in Resumers /\ phase[t] = "off" /\ next'[t] = nextSeq
          /\ todo'[t] = After(lastSeq[t])
          /\ phase'[t] = IF After(lastSeq[t]) = {} THEN "live" ELSE "replay"
          /\ start'[t] = start[t] /\ lastSeq'[t] = lastSeq[t]
          /\ nextSeq' = nextSeq /\ epoch' = epoch /\ lastEpoch'[t] = lastEpoch[t]
          /\ got'[t] = got[t] /\ resynced'[t] = resynced[t]
      BY <1>6, <2>2 DEF SubscribeAfter, logVars, LogTypeOK
    <3>2. /\ lastEpoch[t] = epoch /\ HasCursor(t) /\ lastSeq[t] < nextSeq
          /\ Gapless(t)
      BY <1>1, <2>2, <3>1 DEF Continues, HasCursor, SubInv, Bounded
    <3>3. After(lastSeq[t]) = (lastSeq[t] + 1)..(nextSeq - 1)
      <4>1. CASE Reaches(lastSeq[t])
        BY <1>1, <1>2, <4>1, AfterIs
      <4>2. CASE buffer = <<>> /\ nextSeq = lastSeq[t] + 1
        BY <1>2, <4>2 DEF After
      <4> QED
        BY <2>2, <4>1, <4>2 DEF Continues
    <3>4. Bounded(t)'
      BY <1>1, <1>2, <3>1, <3>2 DEF Bounded, SubInv, HasCursor
    <3>5. /\ phase'[t] = "live" => nextSeq = lastSeq[t] + 1
          /\ phase'[t] \in {"live", "replay"}
      <4>1. ASSUME phase'[t] = "live" PROVE nextSeq = lastSeq[t] + 1
        <5>1. lastSeq[t] + 1 \notin (lastSeq[t] + 1)..(nextSeq - 1)
          BY <3>1, <3>3, <4>1
        <5> QED
          BY <1>2, <3>2, <5>1
      <4> QED
        BY <3>1, <4>1
    <3>6. Seamless(t)'
      BY <1>2, <3>1, <3>3, <3>5 DEF Seamless
    <3>7. Gapless(t)'
      <4>1. \A q \in start[t]..lastSeq[t] : Seen(t, q)'
        BY <3>1, <3>2 DEF Gapless, Seen
      <4>2. \A q \in start[t]..(nextSeq - 1) : Seen(t, q)' \/ q \in todo'[t]
        BY <1>2, <3>1, <3>3, <4>1
      <4>3. phase'[t] # "replay" => todo'[t] = {}
        BY <3>1
      <4>4. \A q \in todo'[t] : /\ lastSeq[t] < q /\ q < nextSeq
                               /\ \A p \in (lastSeq[t] + 1)..q : p \in todo'[t]
        BY <1>2, <3>1, <3>3
      <4> QED
        BY <3>1, <4>1, <4>2, <4>3, <4>4 DEF Gapless
    <3> QED
      BY <3>4, <3>6, <3>7 DEF SubInv
  <2>3. CASE s = t /\ ~Continues(t)
    <3>0. /\ t \in Resumers
          /\ next' = [next EXCEPT ![t] = nextSeq]
          /\ phase' = [phase EXCEPT ![t] = "live"]
          /\ start' = [start EXCEPT ![t] = nextSeq]
          /\ got' = [got EXCEPT ![t] = {}]
          /\ lastSeq' = [lastSeq EXCEPT ![t] = nextSeq - 1]
          /\ lastEpoch' = [lastEpoch EXCEPT ![t] = epoch]
          /\ resynced' = [resynced EXCEPT ![t] = nextSeq - 1]
          /\ UNCHANGED todo
          /\ UNCHANGED logVars
          /\ phase[t] = "off"
      BY <1>6, <2>3, Zenon DEF SubscribeAfter
    <3>1. /\ t \in Resumers /\ phase'[t] = "live" /\ next'[t] = nextSeq
          /\ todo'[t] = todo[t] /\ start'[t] = nextSeq /\ lastSeq'[t] = nextSeq - 1
          /\ nextSeq' = nextSeq /\ epoch' = epoch /\ lastEpoch'[t] = epoch
          /\ resynced'[t] = nextSeq - 1
      BY <3>0 DEF logVars, LogTypeOK
    <3>2. todo[t] = {}
      BY <1>1, <3>0 DEF SubInv, Gapless
    <3>3. Bounded(t)'
      BY <1>2, <3>1 DEF Bounded, HasCursor
    <3>4. Gapless(t)' /\ Seamless(t)'
      BY <1>2, <3>1, <3>2 DEF Gapless, Seamless
    <3> QED
      BY <3>3, <3>4 DEF SubInv
  <2> QED
    BY <2>1, <2>2, <2>3
<1>7. ASSUME NEW s \in Subs, Disconnect(s) PROVE SubInv(t)'
  <2>1. CASE s # t
    <3>1. /\ epoch' = epoch /\ nextSeq' = nextSeq
          /\ phase'[t] = phase[t] /\ next'[t] = next[t] /\ lastSeq'[t] = lastSeq[t]
          /\ lastEpoch'[t] = lastEpoch[t] /\ todo'[t] = todo[t] /\ start'[t] = start[t]
          /\ got'[t] = got[t] /\ resynced'[t] = resynced[t]
      BY <1>7, <2>1 DEF Disconnect, logVars, LogTypeOK
    <3> QED
      BY <1>1, <1>2, <3>1, Frame
  <2>2. CASE s = t
    <3>1. /\ phase'[t] = "off" /\ phase[t] # "off" /\ todo'[t] = {}
          /\ next'[t] = next[t] /\ start'[t] = start[t] /\ lastSeq'[t] = lastSeq[t]
          /\ nextSeq' = nextSeq /\ epoch' = epoch /\ lastEpoch'[t] = lastEpoch[t]
          /\ got'[t] = got[t] /\ resynced'[t] = resynced[t]
      BY <1>7, <2>2 DEF Disconnect, logVars, LogTypeOK
    <3>2. Bounded(t)'
      BY <1>1, <1>2, <3>1 DEF Bounded, SubInv, HasCursor
    <3>3. Gapless(t) => Gapless(t)'
      BY <1>2, <3>1 DEF Gapless, HasCursor, Seen
    <3>4. Seamless(t)'
      BY <3>1 DEF Seamless
    <3> QED
      BY <1>1, <3>1, <3>2, <3>3, <3>4 DEF SubInv
  <2> QED
    BY <2>1, <2>2
<1>8. ASSUME NEW s \in Subs, RecvOk(s) PROVE SubInv(t)'
  <2>1. CASE s # t
    <3>1. /\ epoch' = epoch /\ nextSeq' = nextSeq
          /\ phase'[t] = phase[t] /\ next'[t] = next[t] /\ lastSeq'[t] = lastSeq[t]
          /\ lastEpoch'[t] = lastEpoch[t] /\ todo'[t] = todo[t] /\ start'[t] = start[t]
          /\ got'[t] = got[t] /\ resynced'[t] = resynced[t]
      BY <1>8, <2>1 DEF RecvOk, Deliver, logVars, LogTypeOK
    <3> QED
      BY <1>1, <1>2, <3>1, Frame
  <2>2. CASE s = t
    <3>1. /\ phase[t] = "live" /\ phase'[t] = "live" /\ todo'[t] = todo[t]
          /\ next[t] < nextSeq /\ next'[t] = next[t] + 1 /\ lastSeq'[t] = next[t]
          /\ start'[t] = start[t] /\ got'[t] = got[t] \cup {next[t]}
          /\ nextSeq' = nextSeq /\ epoch' = epoch /\ lastEpoch'[t] = lastEpoch[t]
          /\ resynced'[t] = resynced[t]
      BY <1>8, <2>2 DEF RecvOk, Deliver, logVars, LogTypeOK
    <3>2. Bounded(t)'
      BY <1>1, <1>2, <3>1 DEF Bounded, SubInv, HasCursor
    <3>3. ASSUME Gapless(t) PROVE Gapless(t)'
      <4>1. todo[t] = {} /\ \A q \in start[t]..(next[t] - 1) : Seen(t, q)
        BY <3>1, <3>3 DEF Gapless
      <4>2. \A q \in start[t]..next[t] : Seen(t, q)'
        BY <1>2, <3>1, <4>1 DEF Seen
      <4> QED
        BY <1>2, <3>1, <4>1, <4>2 DEF Gapless
    <3>4. Seamless(t)'
      BY <1>2, <3>1 DEF Seamless
    <3> QED
      BY <1>1, <3>2, <3>3, <3>4 DEF SubInv
  <2> QED
    BY <2>1, <2>2
<1>9. ASSUME NEW s \in Subs, RecvLagged(s) PROVE SubInv(t)'
  <2>1. CASE s # t
    <3>1. /\ epoch' = epoch /\ nextSeq' = nextSeq
          /\ phase'[t] = phase[t] /\ next'[t] = next[t] /\ lastSeq'[t] = lastSeq[t]
          /\ lastEpoch'[t] = lastEpoch[t] /\ todo'[t] = todo[t] /\ start'[t] = start[t]
          /\ got'[t] = got[t] /\ resynced'[t] = resynced[t]
      BY <1>9, <2>1 DEF RecvLagged, logVars, LogTypeOK
    <3> QED
      BY <1>1, <1>2, <3>1, Frame
  <2>2. CASE s = t
    <3>1. /\ phase[t] = "live" /\ nextSeq - next[t] > ChanCap
          /\ next'[t] = nextSeq - ChanCap /\ todo'[t] = todo[t]
          /\ start'[t] = start[t] /\ lastSeq'[t] = lastSeq[t] /\ got'[t] = got[t]
          /\ nextSeq' = nextSeq /\ epoch' = epoch /\ lastEpoch'[t] = lastEpoch[t]
          /\ resynced'[t] = resynced[t]
      BY <1>9, <2>2 DEF RecvLagged, Lagging, logVars, LogTypeOK
    <3>2. /\ t \in Desktop => phase'[t] = "lagged"
          /\ t \in Resumers => phase'[t] = "off"
          /\ t \notin Desktop => phase'[t] # "lagged"
          /\ phase'[t] # "replay"
      BY <1>9, <2>2, KindsAssumption DEF RecvLagged, LogTypeOK, Subs
    <3>3. Bounded(t)'
      BY <1>1, <1>2, <3>1, <3>2, KindsAssumption DEF Bounded, SubInv, HasCursor
    <3>4. ASSUME t \in Desktop \cup Resumers PROVE Gapless(t)'
      <4>1. Gapless(t) /\ todo[t] = {} /\ HasCursor(t)
        BY <1>1, <3>1, <3>4 DEF SubInv, Gapless, Bounded, HasCursor
      <4>2. \A q \in start[t]..lastSeq[t] : Seen(t, q)'
        BY <3>1, <4>1 DEF Gapless, Seen
      <4>3. phase'[t] \in {"lagged", "off"}
        BY <3>2, <3>4
      <4> QED
        BY <3>1, <4>1, <4>2, <4>3 DEF Gapless
    <3>5. t \in Resumers => Seamless(t)'
      BY <3>2 DEF Seamless
    <3> QED
      BY <3>3, <3>4, <3>5 DEF SubInv
  <2> QED
    BY <2>1, <2>2
<1>10. ASSUME NEW s \in Subs, Heal(s) PROVE SubInv(t)'
  <2>1. CASE s # t
    <3>1. /\ epoch' = epoch /\ nextSeq' = nextSeq
          /\ phase'[t] = phase[t] /\ next'[t] = next[t] /\ lastSeq'[t] = lastSeq[t]
          /\ lastEpoch'[t] = lastEpoch[t] /\ todo'[t] = todo[t] /\ start'[t] = start[t]
          /\ got'[t] = got[t] /\ resynced'[t] = resynced[t]
      BY <1>10, <2>1 DEF Heal, logVars, LogTypeOK
    <3> QED
      BY <1>1, <1>2, <3>1, Frame
  <2>2. CASE s = t
    <3>1. /\ phase[t] = "lagged" /\ nextSeq' = nextSeq /\ epoch' = epoch
          /\ next'[t] = next[t] /\ lastSeq'[t] = lastSeq[t] /\ lastEpoch'[t] = lastEpoch[t]
          /\ start'[t] = start[t] /\ got'[t] = got[t]
      BY <1>10, <2>2 DEF Heal, logVars, LogTypeOK
    <3>2. /\ t \in Desktop /\ t \notin Resumers /\ HasCursor(t) /\ Gapless(t)
          /\ next[t] <= nextSeq /\ lastSeq[t] < nextSeq /\ resynced[t] < nextSeq
          /\ todo[t] = {}
      BY <1>1, <3>1, KindsAssumption DEF SubInv, Bounded, HasCursor, Gapless
    <3>3. CASE EventsAfterSome(lastSeq[t])
      <4>1. /\ todo'[t] = After(lastSeq[t]) /\ resynced'[t] = resynced[t]
            /\ phase'[t] = IF After(lastSeq[t]) = {} THEN "live" ELSE "replay"
        BY <1>10, <2>2, <3>3 DEF Heal, LogTypeOK
      <4>2. After(lastSeq[t]) = (lastSeq[t] + 1)..(nextSeq - 1)
        <5>1. CASE Reaches(lastSeq[t])
          BY <1>1, <1>2, <5>1, AfterIs
        <5>2. CASE buffer = <<>>
          <6>1. nextSeq = 1
            BY <1>1, <1>2, <5>2 DEF BufferIsTail
          <6> QED
            BY <1>2, <5>2, <6>1 DEF After
        <5> QED
          BY <3>3, <5>1, <5>2 DEF EventsAfterSome
      <4>3. \A q \in start[t]..lastSeq[t] : Seen(t, q)'
        BY <3>1, <3>2, <4>1 DEF Gapless, Seen
      <4>4. \A q \in start[t]..(next[t] - 1) : Seen(t, q)' \/ q \in todo'[t]
        BY <1>2, <3>2, <4>1, <4>2, <4>3
      <4>5. \A q \in todo'[t] : /\ lastSeq[t] < q /\ q < nextSeq
                               /\ \A p \in (lastSeq[t] + 1)..q : p \in todo'[t]
        BY <1>2, <4>1, <4>2
      <4>6. Gapless(t)'
        BY <3>1, <4>1, <4>3, <4>4, <4>5 DEF Gapless
      <4>7. Bounded(t)'
        BY <1>1, <1>2, <3>1, <3>2, <4>1 DEF Bounded, SubInv, HasCursor
      <4> QED
        BY <3>2, <4>6, <4>7 DEF SubInv
    <3>4. CASE ~EventsAfterSome(lastSeq[t])
      <4>0. /\ resynced' = [resynced EXCEPT ![t] = nextSeq - 1]
            /\ phase' = [phase EXCEPT ![t] = "live"]
            /\ UNCHANGED todo
        BY <1>10, <2>2, <3>4, Zenon DEF Heal
      <4>1. /\ todo'[t] = todo[t] /\ resynced'[t] = nextSeq - 1 /\ phase'[t] = "live"
        BY <4>0 DEF LogTypeOK
      <4>2. \A q \in Nat : q < nextSeq => Seen(t, q)'
        BY <1>2, <4>1 DEF Seen
      <4>3. Gapless(t)'
        BY <1>2, <3>1, <3>2, <4>1, <4>2 DEF Gapless
      <4>4. Bounded(t)'
        BY <1>1, <1>2, <3>1, <3>2, <4>1 DEF Bounded, SubInv, HasCursor
      <4> QED
        BY <3>2, <4>3, <4>4 DEF SubInv
    <3> QED
      BY <3>3, <3>4
  <2> QED
    BY <2>1, <2>2
<1>11. ASSUME NEW s \in Subs, DeliverMissed(s) PROVE SubInv(t)'
  <2>1. CASE s # t
    <3>1. /\ epoch' = epoch /\ nextSeq' = nextSeq
          /\ phase'[t] = phase[t] /\ next'[t] = next[t] /\ lastSeq'[t] = lastSeq[t]
          /\ lastEpoch'[t] = lastEpoch[t] /\ todo'[t] = todo[t] /\ start'[t] = start[t]
          /\ got'[t] = got[t] /\ resynced'[t] = resynced[t]
      BY <1>11, <2>1 DEF DeliverMissed, Deliver, logVars, LogTypeOK
    <3> QED
      BY <1>1, <1>2, <3>1, Frame
  <2>2. CASE s = t
    <3>1. PICK q \in todo[t] :
            /\ \A p \in todo[t] : q <= p
            /\ Deliver(t, q)
            /\ todo' = [todo EXCEPT ![t] = @ \ {q}]
            /\ phase' = [phase EXCEPT ![t] = IF todo[t] = {q} THEN "live" ELSE "replay"]
      BY <1>11, <2>2 DEF DeliverMissed
    <3>2. /\ phase[t] = "replay" /\ nextSeq' = nextSeq /\ epoch' = epoch
          /\ next'[t] = next[t] /\ lastEpoch'[t] = lastEpoch[t]
          /\ start'[t] = start[t] /\ resynced'[t] = resynced[t]
          /\ lastSeq'[t] = q /\ got'[t] = got[t] \cup {q} /\ todo'[t] = todo[t] \ {q}
          /\ phase'[t] \in {"live", "replay"} /\ phase[t] # "off"
          /\ phase'[t] = "live" => todo'[t] = {}
      BY <1>11, <2>2, <3>1 DEF DeliverMissed, Deliver, logVars, LogTypeOK
    <3>3. CASE t \in Desktop \cup Resumers
      <4>1. Gapless(t) /\ HasCursor(t)
        BY <1>1, <3>2, <3>3 DEF SubInv, Bounded, HasCursor
      <4>2. q = lastSeq[t] + 1 /\ q < nextSeq /\ q \in Nat
        <5>1. q \in Nat /\ lastSeq[t] < q /\ q < nextSeq
              /\ \A p \in (lastSeq[t] + 1)..q : p \in todo[t]
          BY <1>2, <3>1, <4>1 DEF Gapless
        <5>2. lastSeq[t] + 1 \in todo[t]
          BY <1>2, <5>1
        <5> QED
          BY <1>2, <3>1, <5>1, <5>2
      <4>3. \A p \in start[t]..q : Seen(t, p)'
        BY <1>2, <3>2, <4>1, <4>2 DEF Gapless, Seen
      <4>4. \A p \in start[t]..(next[t] - 1) : Seen(t, p)' \/ p \in todo'[t]
        BY <1>2, <3>2, <4>1 DEF Gapless, Seen
      <4>5. \A p \in todo'[t] : /\ q < p /\ p < nextSeq
                               /\ \A r \in (q + 1)..p : r \in todo'[t]
        <5>1. \A p \in todo[t] : p \in Nat /\ q <= p /\ p < nextSeq
          BY <1>2, <3>1, <4>1 DEF Gapless
        <5>2. \A p \in todo[t] : \A r \in (q + 1)..p : r \in todo[t]
          BY <1>2, <4>1, <4>2 DEF Gapless
        <5> QED
          BY <1>2, <3>2, <4>2, <5>1, <5>2
      <4>6. Gapless(t)'
        BY <3>2, <4>3, <4>4, <4>5 DEF Gapless
      <4>7. Bounded(t)'
        BY <1>1, <1>2, <3>2, <4>1, <4>2 DEF Bounded, SubInv, HasCursor
      <4>8. ASSUME t \in Resumers PROVE Seamless(t)'
        <5>1. todo[t] = (lastSeq[t] + 1)..(next[t] - 1)
          BY <1>1, <3>2, <4>8 DEF SubInv, Seamless
        <5>2. todo'[t] = (q + 1)..(next[t] - 1)
          BY <1>2, <3>2, <4>2, <5>1
        <5>3. q <= next[t] - 1
          BY <1>2, <3>1, <4>2, <5>1
        <5>4. ASSUME phase'[t] = "live" PROVE next[t] = q + 1
          <6>1. q + 1 \notin (q + 1)..(next[t] - 1)
            BY <3>2, <5>2, <5>4
          <6> QED
            BY <1>2, <4>2, <5>3, <6>1
        <5> QED
          BY <3>2, <5>2, <5>4 DEF Seamless
      <4> QED
        BY <4>6, <4>7, <4>8 DEF SubInv
    <3>4. t \in Desktop \cup Resumers
      BY <1>1, <3>2 DEF SubInv, Bounded
    <3> QED
      BY <3>3, <3>4
  <2> QED
    BY <2>1, <2>2
<1> QED
  BY <1>3, <1>4, <1>5, <1>6, <1>7, <1>8, <1>9, <1>10, <1>11 DEF LogNext, Observe

-----------------------------------------------------------------------------
(* The theorems *)

LEMMA LogInvInit == LogInit => LogIndInv
<1> SUFFICES ASSUME LogInit PROVE LogIndInv
  OBVIOUS
<1>1. BufferIsTail
  BY BoundsAssumption DEF LogInit, BufferIsTail
<1>2. ASSUME NEW s \in Subs PROVE SubInv(s)
  <2>1. /\ phase[s] = "off" /\ next[s] = 1 /\ start[s] = 1 /\ resynced[s] = 0
        /\ todo[s] = {} /\ lastSeq[s] = 0 /\ lastEpoch[s] = 0 /\ nextSeq = 1 /\ epoch = 1
    BY DEF LogInit
  <2> QED
    BY <2>1 DEF SubInv, Bounded, HasCursor, Gapless, Seamless
<1> QED
  BY <1>1, <1>2 DEF LogIndInv

\* The buffer, the cursors and the histories of the observers stay consistent:
\* LogIndInv holds in every reachable state.
THEOREM LogInvHolds == LogSpec => []LogIndInv
<1>1. LogTypeOK /\ LogTypeOK' /\ LogIndInv /\ [LogNext]_eventLogVars => LogIndInv'
  <2> SUFFICES ASSUME LogTypeOK, LogTypeOK', LogIndInv, [LogNext]_eventLogVars PROVE LogIndInv'
    OBVIOUS
  <2>1. BufferIsTail'
    BY BufferStep DEF LogIndInv
  <2>2. \A t \in Subs : SubInv(t)'
    BY SubStep
  <2> QED
    BY <2>1, <2>2 DEF LogIndInv, Subs
<1> QED
  BY <1>1, LogInvInit, LogTypeCorrect, PTL DEF LogSpec

\* The replay buffer of emit is always exactly the newest BufferCap events.
THEOREM BufferCorrect == LogSpec => []BufferIsTail
<1>1. LogIndInv => BufferIsTail
  BY DEF LogIndInv
<1> QED
  BY <1>1, LogInvHolds, PTL

\* Neither the desktop's self-healing loop nor subscribe_after ever skips an event
\* silently, for every capacity of the channel and of the buffer.
THEOREM GapFree == LogSpec => []NoSilentGap
<1>1. LogIndInv => NoSilentGap
  <2> SUFFICES ASSUME LogIndInv, NEW s \in Desktop \cup Resumers,
                      phase[s] \in {"live", "replay"},
                      NEW q \in start[s]..(next[s] - 1)
               PROVE  q \in got[s] \/ q <= resynced[s] \/ q \in todo[s]
    BY DEF NoSilentGap
  <2>1. Gapless(s)
    BY DEF LogIndInv, SubInv, Subs
  <2> QED
    BY <2>1 DEF Gapless, Seen
<1> QED
  BY <1>1, LogInvHolds, PTL

\* subscribe_after hands over from the replay to the live stream with neither a
\* hole nor an overlap.
THEOREM ReplaySeamless == LogSpec => []SeamlessReplay
<1>1. LogIndInv => SeamlessReplay
  BY DEF LogIndInv, SubInv, Subs, Seamless, SeamlessReplay
<1> QED
  BY <1>1, LogInvHolds, PTL

-----------------------------------------------------------------------------
(* The session run *)
-----------------------------------------------------------------------------
(* Sequences without duplicates and the sets of their elements *)

\* Appending adds one element, and no duplicate if it is a new one.
LEMMA AppendElems ==
  ASSUME NEW S, NEW s \in Seq(S), NEW m \in S
  PROVE  /\ Elems(Append(s, m)) = Elems(s) \cup {m}
         /\ NoDup(s) /\ m \notin Elems(s) => NoDup(Append(s, m))
<1>1. /\ Len(Append(s, m)) = Len(s) + 1 /\ Len(s) \in Nat
      /\ \A i \in 1..Len(s) : Append(s, m)[i] = s[i]
      /\ Append(s, m)[Len(s) + 1] = m
  OBVIOUS
<1>2. Elems(Append(s, m)) = Elems(s) \cup {m}
  BY <1>1 DEF Elems
<1>3. ASSUME NoDup(s), m \notin Elems(s) PROVE NoDup(Append(s, m))
  BY <1>1, <1>3 DEF NoDup, Elems
<1> QED
  BY <1>2, <1>3

\* A sequence is its head and its tail; without duplicates the head is not in the tail.
LEMMA TailElems ==
  ASSUME NEW S, NEW s \in Seq(S), s # <<>>
  PROVE  /\ Head(s) \in S /\ Tail(s) \in Seq(S)
         /\ Elems(s) = {Head(s)} \cup Elems(Tail(s))
         /\ NoDup(s) => Head(s) \notin Elems(Tail(s)) /\ NoDup(Tail(s))
<1>1. /\ Len(s) \in Nat \ {0} /\ Head(s) = s[1] /\ Len(Tail(s)) = Len(s) - 1
      /\ Head(s) \in S /\ Tail(s) \in Seq(S)
      /\ \A i \in 1..(Len(s) - 1) : Tail(s)[i] = s[i + 1]
  OBVIOUS
<1>2. ASSUME NEW e \in Elems(s) PROVE e \in {Head(s)} \cup Elems(Tail(s))
  <2>1. PICK i \in 1..Len(s) : e = s[i]
    BY DEF Elems
  <2>2. CASE i = 1
    BY <2>1, <2>2, <1>1
  <2>3. CASE i # 1
    <3>1. i - 1 \in 1..Len(Tail(s)) /\ Tail(s)[i - 1] = e
      BY <2>1, <2>3, <1>1
    <3> QED
      BY <3>1 DEF Elems
  <2> QED
    BY <2>2, <2>3
<1>3. ASSUME NEW e \in {Head(s)} \cup Elems(Tail(s)) PROVE e \in Elems(s)
  BY <1>1 DEF Elems
<1>4. ASSUME NoDup(s) PROVE Head(s) \notin Elems(Tail(s)) /\ NoDup(Tail(s))
  BY <1>1, <1>4 DEF NoDup, Elems
<1> QED
  BY <1>1, <1>2, <1>3, <1>4

\* A concatenation has the elements of both, and no duplicates if they are disjoint.
LEMMA ConcatElems ==
  ASSUME NEW S, NEW s \in Seq(S), NEW t \in Seq(S)
  PROVE  /\ s \o t \in Seq(S)
         /\ Elems(s \o t) = Elems(s) \cup Elems(t)
         /\ NoDup(s) /\ NoDup(t) /\ Elems(s) \cap Elems(t) = {} => NoDup(s \o t)
<1>1. /\ Len(s) \in Nat /\ Len(t) \in Nat /\ Len(s \o t) = Len(s) + Len(t)
      /\ s \o t \in Seq(S)
      /\ \A i \in 1..Len(s) : (s \o t)[i] = s[i]
      /\ \A i \in 1..Len(t) : (s \o t)[Len(s) + i] = t[i]
  OBVIOUS
<1>2. \A i \in 1..Len(s \o t) : i \in 1..Len(s) \/ (i - Len(s) \in 1..Len(t) /\ (s \o t)[i] = t[i - Len(s)])
  BY <1>1
<1>3. ASSUME NEW e \in Elems(s \o t) PROVE e \in Elems(s) \cup Elems(t)
  <2>1. PICK i \in 1..Len(s \o t) : e = (s \o t)[i]
    BY DEF Elems
  <2>2. CASE i \in 1..Len(s)
    BY <2>1, <2>2, <1>1 DEF Elems
  <2>3. CASE i - Len(s) \in 1..Len(t) /\ (s \o t)[i] = t[i - Len(s)]
    BY <2>1, <2>3 DEF Elems
  <2> QED
    BY <2>1, <2>2, <2>3, <1>2
<1>4. ASSUME NEW e \in Elems(s) \cup Elems(t) PROVE e \in Elems(s \o t)
  <2>1. CASE e \in Elems(s)
    BY <2>1, <1>1 DEF Elems
  <2>2. CASE e \in Elems(t)
    <3>1. PICK i \in 1..Len(t) : e = t[i]
      BY <2>2 DEF Elems
    <3>2. Len(s) + i \in 1..Len(s \o t) /\ (s \o t)[Len(s) + i] = e
      BY <3>1, <1>1
    <3> QED
      BY <3>2 DEF Elems
  <2> QED
    BY <2>1, <2>2
<1>5. ASSUME NoDup(s), NoDup(t), Elems(s) \cap Elems(t) = {},
             NEW i \in 1..Len(s \o t), NEW j \in 1..Len(s \o t), (s \o t)[i] = (s \o t)[j]
      PROVE  i = j
  <2>1. CASE i \in 1..Len(s) /\ j \in 1..Len(s)
    BY <2>1, <1>1, <1>5 DEF NoDup
  <2>2. CASE i - Len(s) \in 1..Len(t) /\ j - Len(s) \in 1..Len(t)
    <3>1. t[i - Len(s)] = t[j - Len(s)]
      BY <2>2, <1>1, <1>5
    <3>2. i - Len(s) = j - Len(s)
      BY <3>1, <2>2, <1>5 DEF NoDup
    <3> QED
      BY <3>2, <1>1
  <2>3. \A k \in 1..Len(s) : s[k] \notin Elems(t)
    BY <1>5 DEF Elems
  <2>4. \A k \in 1..Len(t) : t[k] \in Elems(t)
    BY DEF Elems
  <2>5. CASE i \in 1..Len(s) /\ j - Len(s) \in 1..Len(t)
    BY <2>3, <2>4, <2>5, <1>1, <1>5
  <2>6. CASE j \in 1..Len(s) /\ i - Len(s) \in 1..Len(t)
    BY <2>3, <2>4, <2>6, <1>1, <1>5
  <2> QED
    BY <2>1, <2>2, <2>5, <2>6, <1>2
<1>6. NoDup(s) /\ NoDup(t) /\ Elems(s) \cap Elems(t) = {} => NoDup(s \o t)
  BY <1>5 DEF NoDup
<1> QED
  BY <1>1, <1>3, <1>4, <1>6

\* The empty sequence has no elements.
LEMMA EmptyElems == Elems(<<>>) = {} /\ NoDup(<<>>)
  BY DEF Elems, NoDup

\* What a sequence of inputs holds are inputs.
LEMMA ElemsType == \A s \in Seq(Inputs) : Elems(s) \subseteq Inputs
  BY DEF Elems

-----------------------------------------------------------------------------
(* Types *)

\* The flags stay Boolean.
LEMMA FlagsStep == FlagsOK /\ [Next]_vars => FlagsOK'
<1> SUFFICES ASSUME FlagsOK, [Next]_vars PROVE FlagsOK'
  OBVIOUS
<1> USE DEF FlagsOK
<1>1. ASSUME NEW m \in Inputs, InjectCheck(m) PROVE FlagsOK'
  BY <1>1, Zenon DEF InjectCheck, surfaceVars, taskVars, agentVars, historyVars
<1>2. ASSUME NEW m \in Inputs, InjectPush(m) PROVE FlagsOK'
  BY <1>2, Zenon DEF InjectPush, surfaceVars, taskVars, agentVars, historyVars
<1>3. ASSUME NEW m \in Inputs, Send(m) PROVE FlagsOK'
  BY <1>3, Zenon DEF Send, surfaceVars, taskVars, agentVars, historyVars
<1>4. CASE Stop
  BY <1>4, Zenon DEF Stop, surfaceVars, taskVars, agentVars, historyVars
<1>5. CASE OtherProcess
  BY <1>5, Zenon DEF OtherProcess, surfaceVars, taskVars, agentVars, historyVars
<1>6. CASE Recv
  BY <1>6, Zenon DEF Recv, surfaceVars, taskVars, agentVars, historyVars
<1>7. CASE Refuse
  BY <1>7, Zenon DEF Refuse, surfaceVars, taskVars, agentVars, historyVars
<1>8. CASE Begin
  BY <1>8, Zenon DEF Begin, surfaceVars, taskVars, agentVars, historyVars
<1>9. CASE PrepareFails
  BY <1>9, Zenon DEF PrepareFails, Return, surfaceVars, taskVars, agentVars, historyVars
<1>10. CASE Spawn
  BY <1>10, Zenon DEF Spawn, surfaceVars, taskVars, agentVars, historyVars
<1>11. CASE Publish
  BY <1>11, Zenon DEF Publish, surfaceVars, taskVars, agentVars, historyVars
<1>12. CASE Drive
  BY <1>12, Zenon DEF Drive, surfaceVars, taskVars, agentVars, historyVars
<1>13. CASE Settle
  BY <1>13, Zenon DEF Settle, Outcome, surfaceVars, taskVars, agentVars, historyVars
<1>14. CASE Reset
  BY <1>14, Zenon DEF Reset, Return, surfaceVars, taskVars, agentVars, historyVars
<1>15. CASE TopCancelled
  BY <1>15, Zenon DEF TopCancelled, AgentFrame, Drain, surfaceVars, taskVars, agentVars, historyVars
<1>16. CASE Top
  BY <1>16, Zenon DEF Top, AgentFrame, Drain, surfaceVars, taskVars, agentVars, historyVars
<1>17. CASE Compact
  BY <1>17, Zenon DEF Compact, AgentFrame, surfaceVars, taskVars, agentVars, historyVars
<1>18. CASE CompactCancelled
  BY <1>18, Zenon DEF CompactCancelled, AgentFrame, surfaceVars, taskVars, agentVars, historyVars
<1>19. CASE ModelFails
  BY <1>19, Zenon DEF ModelFails, AgentFrame, surfaceVars, taskVars, agentVars, historyVars
<1>20. CASE ModelTooLong
  BY <1>20, Zenon DEF ModelTooLong, AgentFrame, surfaceVars, taskVars, agentVars, historyVars
<1>21. CASE ModelAnswers
  BY <1>21, Zenon DEF ModelAnswers, AgentFrame, surfaceVars, taskVars, agentVars, historyVars
<1>22. CASE ToolsFail
  BY <1>22, Zenon DEF ToolsFail, AgentFrame, surfaceVars, taskVars, agentVars, historyVars
<1>23. CASE ToolsRun
  BY <1>23, Zenon DEF ToolsRun, AgentFrame, Drain, surfaceVars, taskVars, agentVars, historyVars
<1>24. CASE ToolsSuspend
  BY <1>24, Zenon DEF ToolsSuspend, AgentFrame, Drain, surfaceVars, taskVars, agentVars, historyVars
<1>25. CASE DoneFlush
  BY <1>25, Zenon DEF DoneFlush, AgentFrame, surfaceVars, taskVars, agentVars, historyVars
<1>26. CASE CloseQueue
  BY <1>26, Zenon DEF CloseQueue, AgentFrame, surfaceVars, taskVars, agentVars, historyVars
<1>27. CASE LastDrain
  BY <1>27, Zenon DEF LastDrain, AgentFrame, Drain, surfaceVars, taskVars, agentVars, historyVars
<1>28. CASE JudgeContinues
  BY <1>28, Zenon DEF JudgeContinues, AgentFrame, surfaceVars, taskVars, agentVars, historyVars
<1>29. CASE JudgeCancelled
  BY <1>29, Zenon DEF JudgeCancelled, AgentFrame, surfaceVars, taskVars, agentVars, historyVars
<1>30. CASE JudgeEnds
  BY <1>30, Zenon DEF JudgeEnds, AgentFrame, surfaceVars, taskVars, agentVars, historyVars
<1>31. CASE End
  BY <1>31, Zenon DEF End, AgentFrame, surfaceVars, taskVars, agentVars, historyVars
<1>32. CASE Persist
  BY <1>32, Zenon DEF Persist, AgentFrame, surfaceVars, taskVars, agentVars, historyVars
<1>33. ASSUME NEW t \in tails, WriteChip(t) PROVE FlagsOK'
  BY <1>33, Zenon DEF WriteChip, AgentFrame, surfaceVars, taskVars, agentVars, historyVars
<1>34. CASE UNCHANGED vars
  BY <1>34, Zenon DEF vars, surfaceVars, taskVars, agentVars, historyVars
<1>q. QED
  BY <1>1, <1>2, <1>3, <1>4, <1>5, <1>6, <1>7, <1>8, <1>9, <1>10, <1>11, <1>12, <1>13, <1>14, <1>15, <1>16, <1>17, <1>18, <1>19, <1>20, <1>21, <1>22, <1>23, <1>24, <1>25, <1>26, <1>27, <1>28, <1>29, <1>30, <1>31, <1>32, <1>33, <1>34 DEF Next, Task, Agent

\* TypeOK is kept by every step.
LEMMA TypeStep == TypeOK /\ [Next]_vars => TypeOK'
<1> SUFFICES ASSUME TypeOK, [Next]_vars PROVE TypeOK'
  OBVIOUS
<1>f. FlagsOK'
  BY FlagsStep DEF TypeOK
<1> USE <1>f, InputsAssumption DEF TypeOK
<1>1. ASSUME NEW m \in Inputs, InjectCheck(m) PROVE TypeOK'
  BY <1>1 DEF InjectCheck, surfaceVars, taskVars, agentVars, historyVars
<1>2. ASSUME NEW m \in Inputs, InjectPush(m) PROVE TypeOK'
  <2>1. CASE Active
    <3>1. /\ queue' = Append(queue, m) /\ sender' = [sender EXCEPT ![m] = "sent"]
          /\ late' = IF accepting THEN late ELSE late \cup {m}
          /\ UNCHANGED <<inbox, taskVars, agent, result, event, skipped, rejected, lost,
                         chip, tails, saved>>
      BY <1>2, <2>1, Zenon DEF InjectPush, agentVars
    <3>2. late' \in SUBSET Inputs
      BY <3>1
    <3>3. queue' \in Seq(Inputs)
      BY <3>1
    <3> QED
      BY <3>1, <3>2, <3>3 DEF taskVars
  <2>2. CASE ~Active
    <3>1. /\ sender' = [sender EXCEPT ![m] = IF m \in WebPosts THEN "refused" ELSE "sending"]
          /\ UNCHANGED <<queue, late, inbox, taskVars, agent, result, event, skipped, rejected,
                         lost, chip, tails, saved>>
      BY <1>2, <2>2, Zenon DEF InjectPush, agentVars
    <3> QED
      BY <3>1 DEF taskVars
  <2> QED
    BY <2>1, <2>2
<1>3. ASSUME NEW m \in Inputs, Send(m) PROVE TypeOK'
  BY <1>3 DEF Send, surfaceVars, taskVars, agentVars, historyVars
<1>4. CASE Stop
  BY <1>4 DEF Stop, surfaceVars, taskVars, agentVars, historyVars
<1>5. CASE OtherProcess
  BY <1>5 DEF OtherProcess, surfaceVars, taskVars, agentVars, historyVars
<1>6. CASE Recv
  BY <1>6 DEF Recv, surfaceVars, taskVars, agentVars, historyVars
<1>7. CASE Refuse
  BY <1>7 DEF Refuse, surfaceVars, taskVars, agentVars, historyVars
<1>8. CASE Begin
  BY <1>8 DEF Begin, surfaceVars, taskVars, agentVars, historyVars
<1>9. CASE PrepareFails
  BY <1>9 DEF PrepareFails, Return, surfaceVars, taskVars, agentVars, historyVars
<1>10. CASE Spawn
  BY <1>10 DEF Spawn, surfaceVars, taskVars, agentVars, historyVars
<1>11. CASE Publish
  BY <1>11 DEF Publish, surfaceVars, taskVars, agentVars, historyVars
<1>12. CASE Drive
  BY <1>12 DEF Drive, surfaceVars, taskVars, agentVars, historyVars
<1>13. CASE Settle
  <2>1. Elems(queue) \subseteq Inputs
    BY ElemsType
  <2> QED
    BY <1>13, <2>1 DEF Settle, Outcome, surfaceVars, taskVars, agentVars, historyVars
<1>14. CASE Reset
  BY <1>14 DEF Reset, Return, surfaceVars, taskVars, agentVars, historyVars
<1>15. CASE TopCancelled
  BY <1>15 DEF TopCancelled, AgentFrame, Drain, surfaceVars, taskVars, agentVars, historyVars
<1>16. CASE Top
  BY <1>16 DEF Top, AgentFrame, Drain, surfaceVars, taskVars, agentVars, historyVars
<1>17. CASE Compact
  BY <1>17 DEF Compact, AgentFrame, surfaceVars, taskVars, agentVars, historyVars
<1>18. CASE CompactCancelled
  BY <1>18 DEF CompactCancelled, AgentFrame, surfaceVars, taskVars, agentVars, historyVars
<1>19. CASE ModelFails
  BY <1>19 DEF ModelFails, AgentFrame, surfaceVars, taskVars, agentVars, historyVars
<1>20. CASE ModelTooLong
  BY <1>20 DEF ModelTooLong, AgentFrame, surfaceVars, taskVars, agentVars, historyVars
<1>21. CASE ModelAnswers
  BY <1>21 DEF ModelAnswers, AgentFrame, surfaceVars, taskVars, agentVars, historyVars
<1>22. CASE ToolsFail
  BY <1>22 DEF ToolsFail, AgentFrame, surfaceVars, taskVars, agentVars, historyVars
<1>23. CASE ToolsRun
  BY <1>23 DEF ToolsRun, AgentFrame, Drain, surfaceVars, taskVars, agentVars, historyVars
<1>24. CASE ToolsSuspend
  BY <1>24 DEF ToolsSuspend, AgentFrame, Drain, surfaceVars, taskVars, agentVars, historyVars
<1>25. CASE DoneFlush
  BY <1>25 DEF DoneFlush, AgentFrame, surfaceVars, taskVars, agentVars, historyVars
<1>26. CASE CloseQueue
  BY <1>26 DEF CloseQueue, AgentFrame, surfaceVars, taskVars, agentVars, historyVars
<1>27. CASE LastDrain
  BY <1>27 DEF LastDrain, AgentFrame, Drain, surfaceVars, taskVars, agentVars, historyVars
<1>28. CASE JudgeContinues
  BY <1>28 DEF JudgeContinues, AgentFrame, surfaceVars, taskVars, agentVars, historyVars
<1>29. CASE JudgeCancelled
  BY <1>29 DEF JudgeCancelled, AgentFrame, surfaceVars, taskVars, agentVars, historyVars
<1>30. CASE JudgeEnds
  BY <1>30 DEF JudgeEnds, AgentFrame, surfaceVars, taskVars, agentVars, historyVars
<1>31. CASE End
  BY <1>31 DEF End, AgentFrame, surfaceVars, taskVars, agentVars, historyVars
<1>32. CASE Persist
  BY <1>32 DEF Persist, AgentFrame, surfaceVars, taskVars, agentVars, historyVars
<1>33. ASSUME NEW t \in tails, WriteChip(t) PROVE TypeOK'
  BY <1>33 DEF WriteChip, AgentFrame, surfaceVars, taskVars, agentVars, historyVars
<1>34. CASE UNCHANGED vars
  BY <1>34 DEF vars, surfaceVars, taskVars, agentVars, historyVars
<1>q. QED
  BY <1>1, <1>2, <1>3, <1>4, <1>5, <1>6, <1>7, <1>8, <1>9, <1>10, <1>11, <1>12, <1>13, <1>14, <1>15, <1>16, <1>17, <1>18, <1>19, <1>20, <1>21, <1>22, <1>23, <1>24, <1>25, <1>26, <1>27, <1>28, <1>29, <1>30, <1>31, <1>32, <1>33, <1>34 DEF Next, Task, Agent

\* The initial state has the types.
LEMMA TypeInit == Init => TypeOK
<1> SUFFICES ASSUME Init PROVE TypeOK
  OBVIOUS
<1>1. FlagsOK
  BY Zenon DEF Init, FlagsOK
<1>2. sender \in [Inputs -> {"new", "pushing", "sending", "sent", "refused"}]
  BY DEF Init
<1> QED
  BY <1>1, <1>2, InputsAssumption DEF Init, TypeOK

\* No sequence of steps of senders, session task and agent task leaves the types,
\* and run_turn has an input in hand exactly while it works.
THEOREM TypeCorrect == Spec => []TypeOK
  BY TypeInit, TypeStep, PTL DEF Spec

-----------------------------------------------------------------------------
(* The single writer *)

\* Control is kept by every step.
LEMMA ControlStep == TypeOK /\ Control /\ [Next]_vars => Control'
<1> SUFFICES ASSUME TypeOK, Control, [Next]_vars PROVE Control'
  OBVIOUS
<1> USE DEF TypeOK, Control
<1>1. ASSUME NEW m \in Inputs, InjectCheck(m) PROVE Control'
  BY <1>1 DEF InjectCheck, surfaceVars, taskVars, agentVars, historyVars, Active, Closed
<1>2. ASSUME NEW m \in Inputs, InjectPush(m) PROVE Control'
  BY <1>2 DEF InjectPush, surfaceVars, taskVars, agentVars, historyVars, Active, Closed
<1>3. ASSUME NEW m \in Inputs, Send(m) PROVE Control'
  BY <1>3 DEF Send, surfaceVars, taskVars, agentVars, historyVars, Active, Closed
<1>4. CASE Stop
  BY <1>4 DEF Stop, surfaceVars, taskVars, agentVars, historyVars, Active, Closed
<1>5. CASE OtherProcess
  BY <1>5 DEF OtherProcess, surfaceVars, taskVars, agentVars, historyVars, Active, Closed
<1>6. CASE Recv
  BY <1>6 DEF Recv, surfaceVars, taskVars, agentVars, historyVars, Active, Closed
<1>7. CASE Refuse
  BY <1>7 DEF Refuse, surfaceVars, taskVars, agentVars, historyVars, Active, Closed
<1>8. CASE Begin
  BY <1>8 DEF Begin, surfaceVars, taskVars, agentVars, historyVars, Active, Closed
<1>9. CASE PrepareFails
  BY <1>9 DEF PrepareFails, Return, surfaceVars, taskVars, agentVars, historyVars, Active, Closed
<1>10. CASE Spawn
  BY <1>10 DEF Spawn, surfaceVars, taskVars, agentVars, historyVars, Active, Closed
<1>11. CASE Publish
  BY <1>11 DEF Publish, surfaceVars, taskVars, agentVars, historyVars, Active, Closed
<1>12. CASE Drive
  BY <1>12 DEF Drive, surfaceVars, taskVars, agentVars, historyVars, Active, Closed
<1>13. CASE Settle
  BY <1>13 DEF Settle, Outcome, surfaceVars, taskVars, agentVars, historyVars, Active, Closed
<1>14. CASE Reset
  BY <1>14 DEF Reset, Return, surfaceVars, taskVars, agentVars, historyVars, Active, Closed
<1>15. CASE TopCancelled
  BY <1>15 DEF TopCancelled, AgentFrame, Drain, surfaceVars, taskVars, agentVars, historyVars, Active, Closed
<1>16. CASE Top
  BY <1>16 DEF Top, AgentFrame, Drain, surfaceVars, taskVars, agentVars, historyVars, Active, Closed
<1>17. CASE Compact
  BY <1>17 DEF Compact, AgentFrame, surfaceVars, taskVars, agentVars, historyVars, Active, Closed
<1>18. CASE CompactCancelled
  BY <1>18 DEF CompactCancelled, AgentFrame, surfaceVars, taskVars, agentVars, historyVars, Active, Closed
<1>19. CASE ModelFails
  BY <1>19 DEF ModelFails, AgentFrame, surfaceVars, taskVars, agentVars, historyVars, Active, Closed
<1>20. CASE ModelTooLong
  BY <1>20 DEF ModelTooLong, AgentFrame, surfaceVars, taskVars, agentVars, historyVars, Active, Closed
<1>21. CASE ModelAnswers
  BY <1>21 DEF ModelAnswers, AgentFrame, surfaceVars, taskVars, agentVars, historyVars, Active, Closed
<1>22. CASE ToolsFail
  BY <1>22 DEF ToolsFail, AgentFrame, surfaceVars, taskVars, agentVars, historyVars, Active, Closed
<1>23. CASE ToolsRun
  BY <1>23 DEF ToolsRun, AgentFrame, Drain, surfaceVars, taskVars, agentVars, historyVars, Active, Closed
<1>24. CASE ToolsSuspend
  BY <1>24 DEF ToolsSuspend, AgentFrame, Drain, surfaceVars, taskVars, agentVars, historyVars, Active, Closed
<1>25. CASE DoneFlush
  BY <1>25 DEF DoneFlush, AgentFrame, surfaceVars, taskVars, agentVars, historyVars, Active, Closed
<1>26. CASE CloseQueue
  BY <1>26 DEF CloseQueue, AgentFrame, surfaceVars, taskVars, agentVars, historyVars, Active, Closed
<1>27. CASE LastDrain
  BY <1>27 DEF LastDrain, AgentFrame, Drain, surfaceVars, taskVars, agentVars, historyVars, Active, Closed
<1>28. CASE JudgeContinues
  BY <1>28 DEF JudgeContinues, AgentFrame, surfaceVars, taskVars, agentVars, historyVars, Active, Closed
<1>29. CASE JudgeCancelled
  BY <1>29 DEF JudgeCancelled, AgentFrame, surfaceVars, taskVars, agentVars, historyVars, Active, Closed
<1>30. CASE JudgeEnds
  BY <1>30 DEF JudgeEnds, AgentFrame, surfaceVars, taskVars, agentVars, historyVars, Active, Closed
<1>31. CASE End
  BY <1>31 DEF End, AgentFrame, surfaceVars, taskVars, agentVars, historyVars, Active, Closed
<1>32. CASE Persist
  BY <1>32 DEF Persist, AgentFrame, surfaceVars, taskVars, agentVars, historyVars, Active, Closed
<1>33. ASSUME NEW t \in tails, WriteChip(t) PROVE Control'
  BY <1>33 DEF WriteChip, AgentFrame, surfaceVars, taskVars, agentVars, historyVars, Active, Closed
<1>34. CASE UNCHANGED vars
  BY <1>34 DEF vars, surfaceVars, taskVars, agentVars, historyVars, Active, Closed
<1>q. QED
  BY <1>1, <1>2, <1>3, <1>4, <1>5, <1>6, <1>7, <1>8, <1>9, <1>10, <1>11, <1>12, <1>13, <1>14, <1>15, <1>16, <1>17, <1>18, <1>19, <1>20, <1>21, <1>22, <1>23, <1>24, <1>25, <1>26, <1>27, <1>28, <1>29, <1>30, <1>31, <1>32, <1>33, <1>34 DEF Next, Task, Agent

\* Suspension is kept by every step.
LEMMA SuspensionStep == TypeOK /\ Control /\ Suspension /\ [Next]_vars => Suspension'
<1> SUFFICES ASSUME TypeOK, Control, Suspension, [Next]_vars PROVE Suspension'
  OBVIOUS
<1> USE DEF TypeOK, Control, Suspension, SuspendedHasCheckpoint
<1>1. ASSUME NEW m \in Inputs, InjectCheck(m) PROVE Suspension'
  BY <1>1 DEF InjectCheck, surfaceVars, taskVars, agentVars, historyVars
<1>2. ASSUME NEW m \in Inputs, InjectPush(m) PROVE Suspension'
  BY <1>2 DEF InjectPush, surfaceVars, taskVars, agentVars, historyVars
<1>3. ASSUME NEW m \in Inputs, Send(m) PROVE Suspension'
  BY <1>3 DEF Send, surfaceVars, taskVars, agentVars, historyVars
<1>4. CASE Stop
  BY <1>4 DEF Stop, surfaceVars, taskVars, agentVars, historyVars
<1>5. CASE OtherProcess
  BY <1>5 DEF OtherProcess, surfaceVars, taskVars, agentVars, historyVars
<1>6. CASE Recv
  BY <1>6 DEF Recv, surfaceVars, taskVars, agentVars, historyVars
<1>7. CASE Refuse
  BY <1>7 DEF Refuse, surfaceVars, taskVars, agentVars, historyVars
<1>8. CASE Begin
  BY <1>8 DEF Begin, surfaceVars, taskVars, agentVars, historyVars
<1>9. CASE PrepareFails
  BY <1>9 DEF PrepareFails, Return, surfaceVars, taskVars, agentVars, historyVars
<1>10. CASE Spawn
  BY <1>10 DEF Spawn, surfaceVars, taskVars, agentVars, historyVars
<1>11. CASE Publish
  BY <1>11 DEF Publish, surfaceVars, taskVars, agentVars, historyVars
<1>12. CASE Drive
  BY <1>12 DEF Drive, surfaceVars, taskVars, agentVars, historyVars
<1>13. CASE Settle
  BY <1>13 DEF Settle, Outcome, surfaceVars, taskVars, agentVars, historyVars
<1>14. CASE Reset
  BY <1>14 DEF Reset, Return, surfaceVars, taskVars, agentVars, historyVars
<1>15. CASE TopCancelled
  BY <1>15 DEF TopCancelled, AgentFrame, Drain, surfaceVars, taskVars, agentVars, historyVars
<1>16. CASE Top
  BY <1>16 DEF Top, AgentFrame, Drain, surfaceVars, taskVars, agentVars, historyVars
<1>17. CASE Compact
  BY <1>17 DEF Compact, AgentFrame, surfaceVars, taskVars, agentVars, historyVars
<1>18. CASE CompactCancelled
  BY <1>18 DEF CompactCancelled, AgentFrame, surfaceVars, taskVars, agentVars, historyVars
<1>19. CASE ModelFails
  BY <1>19 DEF ModelFails, AgentFrame, surfaceVars, taskVars, agentVars, historyVars
<1>20. CASE ModelTooLong
  BY <1>20 DEF ModelTooLong, AgentFrame, surfaceVars, taskVars, agentVars, historyVars
<1>21. CASE ModelAnswers
  BY <1>21 DEF ModelAnswers, AgentFrame, surfaceVars, taskVars, agentVars, historyVars
<1>22. CASE ToolsFail
  BY <1>22 DEF ToolsFail, AgentFrame, surfaceVars, taskVars, agentVars, historyVars
<1>23. CASE ToolsRun
  BY <1>23 DEF ToolsRun, AgentFrame, Drain, surfaceVars, taskVars, agentVars, historyVars
<1>24. CASE ToolsSuspend
  BY <1>24 DEF ToolsSuspend, AgentFrame, Drain, surfaceVars, taskVars, agentVars, historyVars
<1>25. CASE DoneFlush
  BY <1>25 DEF DoneFlush, AgentFrame, surfaceVars, taskVars, agentVars, historyVars
<1>26. CASE CloseQueue
  BY <1>26 DEF CloseQueue, AgentFrame, surfaceVars, taskVars, agentVars, historyVars
<1>27. CASE LastDrain
  BY <1>27 DEF LastDrain, AgentFrame, Drain, surfaceVars, taskVars, agentVars, historyVars
<1>28. CASE JudgeContinues
  BY <1>28 DEF JudgeContinues, AgentFrame, surfaceVars, taskVars, agentVars, historyVars
<1>29. CASE JudgeCancelled
  BY <1>29 DEF JudgeCancelled, AgentFrame, surfaceVars, taskVars, agentVars, historyVars
<1>30. CASE JudgeEnds
  BY <1>30 DEF JudgeEnds, AgentFrame, surfaceVars, taskVars, agentVars, historyVars
<1>31. CASE End
  BY <1>31 DEF End, AgentFrame, surfaceVars, taskVars, agentVars, historyVars
<1>32. CASE Persist
  BY <1>32 DEF Persist, AgentFrame, surfaceVars, taskVars, agentVars, historyVars
<1>33. ASSUME NEW t \in tails, WriteChip(t) PROVE Suspension'
  BY <1>33 DEF WriteChip, AgentFrame, surfaceVars, taskVars, agentVars, historyVars
<1>34. CASE UNCHANGED vars
  BY <1>34 DEF vars, surfaceVars, taskVars, agentVars, historyVars
<1>q. QED
  BY <1>1, <1>2, <1>3, <1>4, <1>5, <1>6, <1>7, <1>8, <1>9, <1>10, <1>11, <1>12, <1>13, <1>14, <1>15, <1>16, <1>17, <1>18, <1>19, <1>20, <1>21, <1>22, <1>23, <1>24, <1>25, <1>26, <1>27, <1>28, <1>29, <1>30, <1>31, <1>32, <1>33, <1>34 DEF Next, Task, Agent

\* Closing is kept by every step.
LEMMA ClosingStep == TypeOK /\ Control /\ Closing /\ [Next]_vars => Closing'
<1> SUFFICES ASSUME TypeOK, Control, Closing, [Next]_vars PROVE Closing'
  OBVIOUS
<1> USE EmptyElems DEF Control, Closing
<1>1. ASSUME NEW m \in Inputs, InjectCheck(m) PROVE Closing'
  BY <1>1 DEF InjectCheck, surfaceVars, taskVars, agentVars, historyVars
<1>2. ASSUME NEW m \in Inputs, InjectPush(m) PROVE Closing'
  <2>0. UNCHANGED <<agent, result, event, accepting>>
    BY <1>2, Zenon DEF InjectPush, agentVars
  <2>1. CASE Active
    <3>1. queue' = Append(queue, m) /\ late' = IF accepting THEN late ELSE late \cup {m}
      BY <1>2, <2>1, Zenon DEF InjectPush
    <3>2. Elems(queue') = Elems(queue) \cup {m}
      BY <3>1, AppendElems DEF TypeOK
    <3>3. ~accepting => late' = late \cup {m}
      BY <3>1, Zenon
    <3> QED
      BY <2>0, <3>2, <3>3
  <2>2. CASE ~Active
    <3>1. UNCHANGED <<queue, late>>
      BY <1>2, <2>2, Zenon DEF InjectPush
    <3> QED
      BY <2>0, <3>1
  <2> QED
    BY <2>1, <2>2
<1>3. ASSUME NEW m \in Inputs, Send(m) PROVE Closing'
  BY <1>3 DEF Send, surfaceVars, taskVars, agentVars, historyVars
<1>4. CASE Stop
  BY <1>4 DEF Stop, surfaceVars, taskVars, agentVars, historyVars
<1>5. CASE OtherProcess
  BY <1>5 DEF OtherProcess, surfaceVars, taskVars, agentVars, historyVars
<1>6. CASE Recv
  BY <1>6 DEF Recv, surfaceVars, taskVars, agentVars, historyVars
<1>7. CASE Refuse
  BY <1>7 DEF Refuse, surfaceVars, taskVars, agentVars, historyVars
<1>8. CASE Begin
  BY <1>8 DEF Begin, surfaceVars, taskVars, agentVars, historyVars
<1>9. CASE PrepareFails
  BY <1>9 DEF PrepareFails, Return, surfaceVars, taskVars, agentVars, historyVars
<1>10. CASE Spawn
  BY <1>10 DEF Spawn, surfaceVars, taskVars, agentVars, historyVars
<1>11. CASE Publish
  BY <1>11 DEF Publish, surfaceVars, taskVars, agentVars, historyVars
<1>12. CASE Drive
  BY <1>12 DEF Drive, surfaceVars, taskVars, agentVars, historyVars
<1>13. CASE Settle
  BY <1>13 DEF Settle, Outcome, surfaceVars, taskVars, agentVars, historyVars
<1>14. CASE Reset
  BY <1>14 DEF Reset, Return, surfaceVars, taskVars, agentVars, historyVars
<1>15. CASE TopCancelled
  BY <1>15 DEF TopCancelled, AgentFrame, Drain, surfaceVars, taskVars, agentVars, historyVars
<1>16. CASE Top
  BY <1>16 DEF Top, AgentFrame, Drain, surfaceVars, taskVars, agentVars, historyVars
<1>17. CASE Compact
  BY <1>17 DEF Compact, AgentFrame, surfaceVars, taskVars, agentVars, historyVars
<1>18. CASE CompactCancelled
  BY <1>18 DEF CompactCancelled, AgentFrame, surfaceVars, taskVars, agentVars, historyVars
<1>19. CASE ModelFails
  BY <1>19 DEF ModelFails, AgentFrame, surfaceVars, taskVars, agentVars, historyVars
<1>20. CASE ModelTooLong
  BY <1>20 DEF ModelTooLong, AgentFrame, surfaceVars, taskVars, agentVars, historyVars
<1>21. CASE ModelAnswers
  BY <1>21 DEF ModelAnswers, AgentFrame, surfaceVars, taskVars, agentVars, historyVars
<1>22. CASE ToolsFail
  BY <1>22 DEF ToolsFail, AgentFrame, surfaceVars, taskVars, agentVars, historyVars
<1>23. CASE ToolsRun
  BY <1>23 DEF ToolsRun, AgentFrame, Drain, surfaceVars, taskVars, agentVars, historyVars
<1>24. CASE ToolsSuspend
  BY <1>24 DEF ToolsSuspend, AgentFrame, Drain, surfaceVars, taskVars, agentVars, historyVars
<1>25. CASE DoneFlush
  BY <1>25 DEF DoneFlush, AgentFrame, surfaceVars, taskVars, agentVars, historyVars
<1>26. CASE CloseQueue
  BY <1>26 DEF CloseQueue, AgentFrame, surfaceVars, taskVars, agentVars, historyVars
<1>27. CASE LastDrain
  BY <1>27 DEF LastDrain, AgentFrame, Drain, surfaceVars, taskVars, agentVars, historyVars
<1>28. CASE JudgeContinues
  BY <1>28 DEF JudgeContinues, AgentFrame, surfaceVars, taskVars, agentVars, historyVars
<1>29. CASE JudgeCancelled
  BY <1>29 DEF JudgeCancelled, AgentFrame, surfaceVars, taskVars, agentVars, historyVars
<1>30. CASE JudgeEnds
  BY <1>30 DEF JudgeEnds, AgentFrame, surfaceVars, taskVars, agentVars, historyVars
<1>31. CASE End
  BY <1>31 DEF End, AgentFrame, surfaceVars, taskVars, agentVars, historyVars
<1>32. CASE Persist
  BY <1>32 DEF Persist, AgentFrame, surfaceVars, taskVars, agentVars, historyVars
<1>33. ASSUME NEW t \in tails, WriteChip(t) PROVE Closing'
  BY <1>33 DEF WriteChip, AgentFrame, surfaceVars, taskVars, agentVars, historyVars
<1>34. CASE UNCHANGED vars
  BY <1>34 DEF vars, surfaceVars, taskVars, agentVars, historyVars
<1>q. QED
  BY <1>1, <1>2, <1>3, <1>4, <1>5, <1>6, <1>7, <1>8, <1>9, <1>10, <1>11, <1>12, <1>13, <1>14, <1>15, <1>16, <1>17, <1>18, <1>19, <1>20, <1>21, <1>22, <1>23, <1>24, <1>25, <1>26, <1>27, <1>28, <1>29, <1>30, <1>31, <1>32, <1>33, <1>34 DEF Next, Task, Agent

-----------------------------------------------------------------------------
(* Every input is in one place *)

\* A step that moves no input keeps ExactlyOnePlace.
LEMMA PlaceFrame ==
  ASSUME ExactlyOnePlace, UNCHANGED <<sender, inbox, queue, saved, skipped, rejected, lost>>,
         Holding' = Holding
  PROVE  ExactlyOnePlace'
  BY DEF ExactlyOnePlace

\* A drain moves the queue into session.jsonl.
LEMMA DrainStep ==
  ASSUME TypeOK, ExactlyOnePlace, Drain,
         UNCHANGED <<sender, inbox, skipped, rejected, lost>>, Holding' = Holding
  PROVE  ExactlyOnePlace'
<1>1. queue \in Seq(Inputs) /\ saved \in Seq(Inputs)
  BY DEF TypeOK
<1>2. Elems(queue) \cap Elems(saved) = {} /\ NoDup(queue) /\ NoDup(saved)
  BY DEF ExactlyOnePlace
<1>3. saved' = saved \o queue /\ queue' = <<>>
  BY DEF Drain
<1>4. Elems(saved') = Elems(saved) \cup Elems(queue) /\ NoDup(saved')
  BY <1>1, <1>2, <1>3, ConcatElems
<1>5. Elems(queue') = {} /\ NoDup(queue')
  BY <1>3, EmptyElems
<1> QED
  BY <1>4, <1>5 DEF ExactlyOnePlace

\* ExactlyOnePlace is kept by every step: an input only ever moves on.
LEMMA PlaceStep == TypeOK /\ Control /\ ExactlyOnePlace /\ [Next]_vars => ExactlyOnePlace'
<1> SUFFICES ASSUME TypeOK, Control, ExactlyOnePlace, [Next]_vars PROVE ExactlyOnePlace'
  OBVIOUS
<1>1. ASSUME NEW m \in Inputs, InjectCheck(m) PROVE ExactlyOnePlace'
  <2>1. /\ UNCHANGED <<inbox, queue, saved, skipped, rejected, lost, task, hand>>
        /\ sender[m] = "new" /\ sender' = [sender EXCEPT ![m] = sender'[m]]
        /\ sender'[m] # "sent"
    BY <1>1 DEF InjectCheck, taskVars, historyVars, TypeOK
  <2>2. \A x \in Inputs : sender'[x] = "sent" <=> sender[x] = "sent"
    BY <2>1 DEF TypeOK
  <2>3. Holding' = Holding
    BY <2>1 DEF Holding
  <2> QED
    BY <2>1, <2>2, <2>3 DEF ExactlyOnePlace
<1>2. ASSUME NEW m \in Inputs, InjectPush(m) PROVE ExactlyOnePlace'
  <2>0. /\ UNCHANGED <<inbox, saved, skipped, rejected, lost, task, hand>>
        /\ sender[m] = "pushing"
    BY <1>2 DEF InjectPush, taskVars
  <2>h. Holding' = Holding
    BY <2>0 DEF Holding
  <2>1. CASE Active
    <3>1. queue' = Append(queue, m) /\ sender' = [sender EXCEPT ![m] = "sent"]
      BY <1>2, <2>1 DEF InjectPush
    <3>2. m \notin Elems(inbox) \cup Holding \cup Elems(queue) \cup Elems(saved)
                    \cup skipped \cup rejected \cup lost
      BY <2>0 DEF ExactlyOnePlace
    <3>3. NoDup(queue) /\ queue \in Seq(Inputs)
      BY DEF ExactlyOnePlace, TypeOK
    <3>4. Elems(queue') = Elems(queue) \cup {m} /\ NoDup(queue')
      BY <3>1, <3>2, <3>3, AppendElems
    <3>5. \A x \in Inputs : sender'[x] = "sent" <=> sender[x] = "sent" \/ x = m
      BY <3>1 DEF TypeOK
    <3> QED
      BY <2>0, <2>h, <3>2, <3>4, <3>5 DEF ExactlyOnePlace
  <2>2. CASE ~Active
    <3>1. /\ UNCHANGED queue
          /\ sender' = [sender EXCEPT ![m] = IF m \in WebPosts THEN "refused" ELSE "sending"]
      BY <1>2, <2>2 DEF InjectPush
    <3>2. \A x \in Inputs : sender'[x] = "sent" <=> sender[x] = "sent"
      BY <2>0, <3>1 DEF TypeOK
    <3> QED
      BY <2>0, <2>h, <3>1, <3>2 DEF ExactlyOnePlace
  <2> QED
    BY <2>1, <2>2
<1>3. ASSUME NEW m \in Inputs, Send(m) PROVE ExactlyOnePlace'
  <2>1. /\ UNCHANGED <<queue, saved, skipped, rejected, lost, task, hand>>
        /\ sender[m] = "sending" /\ sender' = [sender EXCEPT ![m] = "sent"]
        /\ inbox' = Append(inbox, m)
    BY <1>3 DEF Send, taskVars, historyVars
  <2>2. Holding' = Holding
    BY <2>1 DEF Holding
  <2>3. m \notin Elems(inbox) \cup Holding \cup Elems(queue) \cup Elems(saved)
                  \cup skipped \cup rejected \cup lost
    BY <2>1 DEF ExactlyOnePlace
  <2>4. NoDup(inbox) /\ inbox \in Seq(Inputs)
    BY DEF ExactlyOnePlace, TypeOK
  <2>5. Elems(inbox') = Elems(inbox) \cup {m} /\ NoDup(inbox')
    BY <2>1, <2>3, <2>4, AppendElems
  <2>6. \A x \in Inputs : sender'[x] = "sent" <=> sender[x] = "sent" \/ x = m
    BY <2>1 DEF TypeOK
  <2> QED
    BY <2>1, <2>2, <2>3, <2>5, <2>6 DEF ExactlyOnePlace
<1>4. CASE Stop
  <2>1. UNCHANGED <<sender, inbox, queue, saved, skipped, rejected, lost>>
    BY <1>4 DEF Stop, surfaceVars, taskVars, agentVars, historyVars
  <2>2. Holding' = Holding
    BY <1>4 DEF Stop, surfaceVars, taskVars, agentVars, historyVars, Holding
  <2> QED
    BY <2>1, <2>2, PlaceFrame
<1>5. CASE OtherProcess
  <2>1. UNCHANGED <<sender, inbox, queue, saved, skipped, rejected, lost>>
    BY <1>5 DEF OtherProcess, surfaceVars, taskVars, agentVars, historyVars
  <2>2. Holding' = Holding
    BY <1>5 DEF OtherProcess, surfaceVars, taskVars, agentVars, historyVars, Holding
  <2> QED
    BY <2>1, <2>2, PlaceFrame
<1>6. CASE Recv
  <2>1. /\ UNCHANGED <<sender, queue, saved, rejected, lost>>
        /\ task = "recv" /\ inbox # <<>> /\ inbox' = Tail(inbox)
    BY <1>6 DEF Recv
  <2>2. NoDup(inbox) /\ inbox \in Seq(Inputs)
    BY DEF ExactlyOnePlace, TypeOK
  <2>3. /\ Elems(inbox) = {Head(inbox)} \cup Elems(inbox')
        /\ Head(inbox) \notin Elems(inbox') /\ NoDup(inbox')
    BY <2>1, <2>2, TailElems
  <2>4. Holding = {}
    BY <2>1 DEF Holding
  <2>5. CASE stopFlag
    <3>1. skipped' = skipped \cup {Head(inbox)} /\ UNCHANGED <<task, hand>>
      BY <1>6, <2>5 DEF Recv
    <3>2. Holding' = {}
      BY <2>1, <3>1 DEF Holding
    <3> QED
      BY <2>1, <2>3, <2>4, <3>1, <3>2 DEF ExactlyOnePlace
  <2>6. CASE ~stopFlag
    <3>1. task' = "guard" /\ hand' = Head(inbox) /\ UNCHANGED skipped
      BY <1>6, <2>6 DEF Recv
    <3>2. Holding' = {Head(inbox)}
      BY <3>1 DEF Holding
    <3> QED
      BY <2>1, <2>3, <2>4, <3>1, <3>2 DEF ExactlyOnePlace
  <2> QED
    BY <2>5, <2>6
<1>7. CASE Refuse
  <2>1. /\ UNCHANGED <<sender, inbox, queue, saved, skipped, lost>>
        /\ task = "guard" /\ task' = "recv" /\ rejected' = rejected \cup {hand}
    BY <1>7 DEF Refuse, surfaceVars
  <2>2. Holding = {hand} /\ Holding' = {}
    BY <2>1 DEF Holding
  <2> QED
    BY <2>1, <2>2 DEF ExactlyOnePlace
<1>8. CASE Begin
  <2>1. /\ UNCHANGED <<sender, inbox, queue, rejected, skipped, lost>>
        /\ task = "guard" /\ task' = "prep" /\ saved' = Append(saved, hand)
    BY <1>8 DEF Begin, surfaceVars, historyVars
  <2>2. Holding = {hand} /\ Holding' = {}
    BY <2>1 DEF Holding
  <2>3. NoDup(saved) /\ saved \in Seq(Inputs) /\ hand \in Inputs /\ hand \notin Elems(saved)
    BY <2>1, <2>2 DEF ExactlyOnePlace, TypeOK
  <2>4. Elems(saved') = Elems(saved) \cup {hand} /\ NoDup(saved')
    BY <2>1, <2>3, AppendElems
  <2> QED
    BY <2>1, <2>2, <2>4 DEF ExactlyOnePlace
<1>9. CASE PrepareFails
  <2>1. UNCHANGED <<sender, inbox, queue, saved, skipped, rejected, lost>>
    BY <1>9 DEF PrepareFails, Return, surfaceVars, taskVars, agentVars, historyVars
  <2>2. Holding' = Holding
    BY <1>9 DEF PrepareFails, Return, surfaceVars, taskVars, agentVars, historyVars, Holding
  <2> QED
    BY <2>1, <2>2, PlaceFrame
<1>10. CASE Spawn
  <2>1. UNCHANGED <<sender, inbox, queue, saved, skipped, rejected, lost>>
    BY <1>10 DEF Spawn, surfaceVars, taskVars, agentVars, historyVars, Control
  <2>2. Holding' = Holding
    BY <1>10 DEF Spawn, surfaceVars, taskVars, agentVars, historyVars, Holding
  <2> QED
    BY <2>1, <2>2, PlaceFrame
<1>11. CASE Publish
  <2>1. UNCHANGED <<sender, inbox, queue, saved, skipped, rejected, lost>>
    BY <1>11 DEF Publish, surfaceVars, taskVars, agentVars, historyVars
  <2>2. Holding' = Holding
    BY <1>11 DEF Publish, surfaceVars, taskVars, agentVars, historyVars, Holding
  <2> QED
    BY <2>1, <2>2, PlaceFrame
<1>12. CASE Drive
  <2>1. UNCHANGED <<sender, inbox, queue, saved, skipped, rejected, lost>>
    BY <1>12 DEF Drive, surfaceVars, taskVars, agentVars, historyVars
  <2>2. Holding' = Holding
    BY <1>12 DEF Drive, surfaceVars, taskVars, agentVars, historyVars, Holding
  <2> QED
    BY <2>1, <2>2, PlaceFrame
<1>13. CASE Settle
  <2>1. /\ UNCHANGED <<sender, inbox, saved, rejected, skipped>>
        /\ task = "settle" /\ task' = "reset"
        /\ queue' = <<>> /\ lost' = lost \cup Elems(queue)
    BY <1>13 DEF Settle, surfaceVars
  <2>2. Holding = {} /\ Holding' = {}
    BY <2>1 DEF Holding
  <2>3. Elems(queue') = {} /\ NoDup(queue')
    BY <2>1, EmptyElems
  <2> QED
    BY <2>1, <2>2, <2>3 DEF ExactlyOnePlace
<1>14. CASE Reset
  <2>1. UNCHANGED <<sender, inbox, queue, saved, skipped, rejected, lost>>
    BY <1>14 DEF Reset, Return, surfaceVars, taskVars, agentVars, historyVars
  <2>2. Holding' = Holding
    BY <1>14 DEF Reset, Return, surfaceVars, taskVars, agentVars, historyVars, Holding
  <2> QED
    BY <2>1, <2>2, PlaceFrame
<1>15. CASE TopCancelled
  <2>1. Drain /\ UNCHANGED <<sender, inbox, skipped, rejected, lost, task, hand>>
    BY <1>15 DEF TopCancelled, AgentFrame, surfaceVars, historyVars
  <2>2. Holding' = Holding
    BY <2>1 DEF Holding
  <2> QED
    BY <2>1, <2>2, DrainStep
<1>16. CASE Top
  <2>1. Drain /\ UNCHANGED <<sender, inbox, skipped, rejected, lost, task, hand>>
    BY <1>16 DEF Top, AgentFrame, surfaceVars, historyVars
  <2>2. Holding' = Holding
    BY <2>1 DEF Holding
  <2> QED
    BY <2>1, <2>2, DrainStep
<1>17. CASE Compact
  <2>1. UNCHANGED <<sender, inbox, queue, saved, skipped, rejected, lost>>
    BY <1>17 DEF Compact, AgentFrame, surfaceVars, taskVars, agentVars, historyVars
  <2>2. Holding' = Holding
    BY <1>17 DEF Compact, AgentFrame, surfaceVars, taskVars, agentVars, historyVars, Holding
  <2> QED
    BY <2>1, <2>2, PlaceFrame
<1>18. CASE CompactCancelled
  <2>1. UNCHANGED <<sender, inbox, queue, saved, skipped, rejected, lost>>
    BY <1>18 DEF CompactCancelled, AgentFrame, surfaceVars, taskVars, agentVars, historyVars
  <2>2. Holding' = Holding
    BY <1>18 DEF CompactCancelled, AgentFrame, surfaceVars, taskVars, agentVars, historyVars, Holding
  <2> QED
    BY <2>1, <2>2, PlaceFrame
<1>19. CASE ModelFails
  <2>1. UNCHANGED <<sender, inbox, queue, saved, skipped, rejected, lost>>
    BY <1>19 DEF ModelFails, AgentFrame, surfaceVars, taskVars, agentVars, historyVars
  <2>2. Holding' = Holding
    BY <1>19 DEF ModelFails, AgentFrame, surfaceVars, taskVars, agentVars, historyVars, Holding
  <2> QED
    BY <2>1, <2>2, PlaceFrame
<1>20. CASE ModelTooLong
  <2>1. UNCHANGED <<sender, inbox, queue, saved, skipped, rejected, lost>>
    BY <1>20 DEF ModelTooLong, AgentFrame, surfaceVars, taskVars, agentVars, historyVars
  <2>2. Holding' = Holding
    BY <1>20 DEF ModelTooLong, AgentFrame, surfaceVars, taskVars, agentVars, historyVars, Holding
  <2> QED
    BY <2>1, <2>2, PlaceFrame
<1>21. CASE ModelAnswers
  <2>1. UNCHANGED <<sender, inbox, queue, saved, skipped, rejected, lost>>
    BY <1>21 DEF ModelAnswers, AgentFrame, surfaceVars, taskVars, agentVars, historyVars
  <2>2. Holding' = Holding
    BY <1>21 DEF ModelAnswers, AgentFrame, surfaceVars, taskVars, agentVars, historyVars, Holding
  <2> QED
    BY <2>1, <2>2, PlaceFrame
<1>22. CASE ToolsFail
  <2>1. UNCHANGED <<sender, inbox, queue, saved, skipped, rejected, lost>>
    BY <1>22 DEF ToolsFail, AgentFrame, surfaceVars, taskVars, agentVars, historyVars
  <2>2. Holding' = Holding
    BY <1>22 DEF ToolsFail, AgentFrame, surfaceVars, taskVars, agentVars, historyVars, Holding
  <2> QED
    BY <2>1, <2>2, PlaceFrame
<1>23. CASE ToolsRun
  <2>1. Drain /\ UNCHANGED <<sender, inbox, skipped, rejected, lost, task, hand>>
    BY <1>23 DEF ToolsRun, AgentFrame, surfaceVars, historyVars
  <2>2. Holding' = Holding
    BY <2>1 DEF Holding
  <2> QED
    BY <2>1, <2>2, DrainStep
<1>24. CASE ToolsSuspend
  <2>1. Drain /\ UNCHANGED <<sender, inbox, skipped, rejected, lost, task, hand>>
    BY <1>24 DEF ToolsSuspend, AgentFrame, surfaceVars, historyVars
  <2>2. Holding' = Holding
    BY <2>1 DEF Holding
  <2> QED
    BY <2>1, <2>2, DrainStep
<1>25. CASE DoneFlush
  <2>1. UNCHANGED <<sender, inbox, queue, saved, skipped, rejected, lost>>
    BY <1>25 DEF DoneFlush, AgentFrame, surfaceVars, taskVars, agentVars, historyVars
  <2>2. Holding' = Holding
    BY <1>25 DEF DoneFlush, AgentFrame, surfaceVars, taskVars, agentVars, historyVars, Holding
  <2> QED
    BY <2>1, <2>2, PlaceFrame
<1>26. CASE CloseQueue
  <2>1. UNCHANGED <<sender, inbox, queue, saved, skipped, rejected, lost>>
    BY <1>26 DEF CloseQueue, AgentFrame, surfaceVars, taskVars, agentVars, historyVars
  <2>2. Holding' = Holding
    BY <1>26 DEF CloseQueue, AgentFrame, surfaceVars, taskVars, agentVars, historyVars, Holding
  <2> QED
    BY <2>1, <2>2, PlaceFrame
<1>27. CASE LastDrain
  <2>1. Drain /\ UNCHANGED <<sender, inbox, skipped, rejected, lost, task, hand>>
    BY <1>27 DEF LastDrain, AgentFrame, surfaceVars, historyVars
  <2>2. Holding' = Holding
    BY <2>1 DEF Holding
  <2> QED
    BY <2>1, <2>2, DrainStep
<1>28. CASE JudgeContinues
  <2>1. UNCHANGED <<sender, inbox, queue, saved, skipped, rejected, lost>>
    BY <1>28 DEF JudgeContinues, AgentFrame, surfaceVars, taskVars, agentVars, historyVars
  <2>2. Holding' = Holding
    BY <1>28 DEF JudgeContinues, AgentFrame, surfaceVars, taskVars, agentVars, historyVars, Holding
  <2> QED
    BY <2>1, <2>2, PlaceFrame
<1>29. CASE JudgeCancelled
  <2>1. UNCHANGED <<sender, inbox, queue, saved, skipped, rejected, lost>>
    BY <1>29 DEF JudgeCancelled, AgentFrame, surfaceVars, taskVars, agentVars, historyVars
  <2>2. Holding' = Holding
    BY <1>29 DEF JudgeCancelled, AgentFrame, surfaceVars, taskVars, agentVars, historyVars, Holding
  <2> QED
    BY <2>1, <2>2, PlaceFrame
<1>30. CASE JudgeEnds
  <2>1. UNCHANGED <<sender, inbox, queue, saved, skipped, rejected, lost>>
    BY <1>30 DEF JudgeEnds, AgentFrame, surfaceVars, taskVars, agentVars, historyVars
  <2>2. Holding' = Holding
    BY <1>30 DEF JudgeEnds, AgentFrame, surfaceVars, taskVars, agentVars, historyVars, Holding
  <2> QED
    BY <2>1, <2>2, PlaceFrame
<1>31. CASE End
  <2>1. UNCHANGED <<sender, inbox, queue, saved, skipped, rejected, lost>>
    BY <1>31 DEF End, AgentFrame, surfaceVars, taskVars, agentVars, historyVars
  <2>2. Holding' = Holding
    BY <1>31 DEF End, AgentFrame, surfaceVars, taskVars, agentVars, historyVars, Holding
  <2> QED
    BY <2>1, <2>2, PlaceFrame
<1>32. CASE Persist
  <2>1. UNCHANGED <<sender, inbox, queue, saved, skipped, rejected, lost>>
    BY <1>32 DEF Persist, AgentFrame, surfaceVars, taskVars, agentVars, historyVars
  <2>2. Holding' = Holding
    BY <1>32 DEF Persist, AgentFrame, surfaceVars, taskVars, agentVars, historyVars, Holding
  <2> QED
    BY <2>1, <2>2, PlaceFrame
<1>33. ASSUME NEW t \in tails, WriteChip(t) PROVE ExactlyOnePlace'
  <2>1. UNCHANGED <<sender, inbox, queue, saved, skipped, rejected, lost>>
    BY <1>33 DEF WriteChip, AgentFrame, surfaceVars, taskVars, agentVars, historyVars
  <2>2. Holding' = Holding
    BY <1>33 DEF WriteChip, AgentFrame, surfaceVars, taskVars, agentVars, historyVars, Holding
  <2> QED
    BY <2>1, <2>2, PlaceFrame
<1>34. CASE UNCHANGED vars
  <2>1. UNCHANGED <<sender, inbox, queue, saved, skipped, rejected, lost>>
    BY <1>34 DEF vars, surfaceVars, taskVars, agentVars, historyVars
  <2>2. Holding' = Holding
    BY <1>34 DEF vars, surfaceVars, taskVars, agentVars, historyVars, Holding
  <2> QED
    BY <2>1, <2>2, PlaceFrame
<1>q. QED
  BY <1>1, <1>2, <1>3, <1>4, <1>5, <1>6, <1>7, <1>8, <1>9, <1>10, <1>11, <1>12, <1>13, <1>14, <1>15, <1>16, <1>17, <1>18, <1>19, <1>20, <1>21, <1>22, <1>23, <1>24, <1>25, <1>26, <1>27, <1>28, <1>29, <1>30, <1>31, <1>32, <1>33, <1>34 DEF Next, Task, Agent

-----------------------------------------------------------------------------
(* The theorems *)

\* The initial state satisfies the invariant.
LEMMA InvInit == Init => IndInv
<1> SUFFICES ASSUME Init PROVE IndInv
  OBVIOUS
<1>1. Control /\ Suspension
  BY DEF Init, Control, Suspension, SuspendedHasCheckpoint
<1>2. Closing
  BY DEF Init, Closing
<1>3. Holding = {} /\ \A m \in Inputs : sender[m] = "new"
  BY DEF Init, Holding
<1>4. ExactlyOnePlace
  BY <1>3, EmptyElems DEF Init, ExactlyOnePlace
<1> QED
  BY <1>1, <1>2, <1>4 DEF IndInv

\* IndInv holds in every reachable state: who holds the guard, what is published,
\* what the queue and the checkpoint can be, and where every input is.
THEOREM InvHolds == Spec => []IndInv
<1>1. TypeOK /\ IndInv /\ [Next]_vars => IndInv'
  BY ControlStep, SuspensionStep, ClosingStep, PlaceStep DEF IndInv
<1> QED
  BY <1>1, InvInit, TypeCorrect, PTL DEF Spec

\* Every input somebody sent without an error is in exactly one place and is
\* written to session.jsonl at most once, however inject, the fallback to the
\* input loop, drains, stops and failures interleave.
THEOREM EachInputOnce == Spec => []ExactlyOnePlace
<1>1. IndInv => ExactlyOnePlace
  BY DEF IndInv
<1> QED
  BY <1>1, InvHolds, PTL

\* The agent task of a run writes only while run_turn holds the session's run guard.
THEOREM SingleWriter == Spec => []AgentUnderGuard
<1>1. IndInv => AgentUnderGuard
  BY DEF IndInv, Control, AgentUnderGuard
<1> QED
  BY <1>1, InvHolds, PTL

\* A suspended session can be resumed under the id it was suspended with.
THEOREM SuspendedResumable == Spec => []SuspendedHasCheckpoint
<1>1. IndInv => SuspendedHasCheckpoint
  BY DEF IndInv, Suspension
<1> QED
  BY <1>1, InvHolds, PTL

\* A run that finishes leaves no input behind that was accepted before it closed
\* its queue.
THEOREM FinishedDrained == Spec => []DoneDrainsAll
<1>1. IndInv => DoneDrainsAll
  BY DEF IndInv, Closing, DoneDrainsAll
<1> QED
  BY <1>1, InvHolds, PTL

-----------------------------------------------------------------------------
(* Wakeups *)

\* A run has been told of the end of t, or the event is on its way.
Announced(t) == told[t] > 0 \/ Queued(t)

\* A scan, the present one or a later one, may still look at the task.
Watched(t) == IF scan.on THEN t \in scan.left \cup scan.still ELSE t \in watches

\* The lists of the scan hold armed tasks only, and no task is both still to be looked
\* at and put back.
Scanning ==
  /\ watches \subseteq armed
  /\ scan.copy \subseteq armed /\ scan.left \subseteq armed /\ scan.still \subseteq armed
  /\ scan.left \cap scan.still = {}

\* The end of t is announced at most once, and what is announced is not looked at
\* again.
OnlyOnce(t) ==
  /\ told[t] <= 1 /\ ~QueuedTwice(t) /\ (told[t] = 1 => ~Queued(t))
  /\ Announced(t) => t \in armed /\ ~Watched(t)

\* Announced means exited, or gone from the table when the scan looked.
IsNews(t) == Announced(t) => t \in blind \/ verdict[t] = "exited"

\* The ways an armed task ends without an announcement.
Swallowed(t) == t \in clobbered \cup unread \cup refused \/ verdict[t] = "killed"

\* An armed task is watched, about to be written over by the end of the scan,
\* announced, or swallowed.
Accounted(t) ==
  t \in armed => \/ Watched(t) \/ (scan.on /\ t \in watches \ scan.copy)
                 \/ Announced(t) \/ Swallowed(t)

\* Both facts about announcements, for every task.
TaskInv == \A t \in Tasks : OnlyOnce(t) /\ IsNews(t)

\* Every armed task is accounted for: the safety part of EndIsTold. arm_bg_task,
\* scan_bg_watches and the dispatcher lose the end of a task only in the ways the
\* histories clobbered, unread and refused record (scheduler.rs).
NothingVanishes == \A t \in Tasks : Accounted(t)

\* The variables of the scheduler, the scan and the dispatcher keep their types, in
\* every behaviour of the model.
THEOREM WakeTypeCorrect == WakeSpec => []WakeTypeOK
<1>1. WakeInit => WakeTypeOK
  BY DEF WakeInit, TableInit, WakeTypeOK, Resting, Verdicts
<1>2. WakeTypeOK /\ [WakeNext]_wakeupVars => WakeTypeOK'
  <2> SUFFICES ASSUME WakeTypeOK, [WakeNext]_wakeupVars PROVE WakeTypeOK'
    OBVIOUS
  <2>1. ASSUME NEW t \in Tasks, StartTask(t) PROVE WakeTypeOK'
    BY <2>1 DEF StartTask, Add, WakeTypeOK, watchVars, eventVars, Verdicts
  <2>2. ASSUME NEW t \in Tasks, EndTask(t) PROVE WakeTypeOK'
    BY <2>2 DEF EndTask, Finish, WakeTypeOK, watchVars, eventVars, Verdicts
  <2>3. ASSUME NEW t \in Tasks, DropTask(t) PROVE WakeTypeOK'
    BY <2>3 DEF DropTask, Remove, WakeTypeOK, watchVars, eventVars
  <2>4. ASSUME NEW t \in Tasks, ArmTask(t) PROVE WakeTypeOK'
    BY <2>4 DEF ArmTask, WakeTypeOK, tableVars, eventVars
  <2>5. ASSUME NEW t \in Tasks, LookAt(t) PROVE WakeTypeOK'
    <3>1. events' \in Seq(Tasks) /\ blind' \subseteq Tasks
      BY <2>5 DEF LookAt, Look, WakeTypeOK
    <3>2. scan' = [scan EXCEPT !.left = @ \ {t}, !.still = IF ~IsOver(t) THEN @ \cup {t} ELSE @]
          /\ scan.on /\ t \in scan.left
      BY <2>5 DEF LookAt, Look
    <3>3. /\ scan' \in [on : BOOLEAN, copy : SUBSET Tasks, left : SUBSET Tasks, still : SUBSET Tasks]
          /\ scan'.left \subseteq scan'.copy /\ scan'.still \subseteq scan'.copy \ scan'.left
          /\ scan'.on
      BY <3>2 DEF WakeTypeOK
    <3> QED
      BY <2>5, <3>1, <3>3 DEF LookAt, Look, WakeTypeOK, tableVars
  <2>6. CASE ScanStart
    BY <2>6 DEF ScanStart, WakeTypeOK, tableVars, eventVars
  <2>7. CASE ScanEnd
    BY <2>7 DEF ScanEnd, WakeTypeOK, Resting, tableVars, eventVars
  <2>8. CASE Dispatch
    <3>1. events' \in Seq(Tasks) /\ Head(events) \in Tasks
      BY <2>8 DEF Dispatch, WakeTypeOK
    <3> QED
      BY <2>8, <3>1 DEF Dispatch, Tell, TellClosing, CannotOpen, WakeTypeOK, tableVars, watchVars
  <2>9. CASE StartRun \/ GoToSleep \/ EndRun
    BY <2>9 DEF StartRun, GoToSleep, EndRun, WakeTypeOK, tableVars, watchVars, eventVars
  <2>10. CASE UNCHANGED wakeupVars
    BY <2>10 DEF wakeupVars, WakeTypeOK, tableVars, watchVars, eventVars
  <2> QED
    BY <2>1, <2>2, <2>3, <2>4, <2>5, <2>6, <2>7, <2>8, <2>9, <2>10 DEF WakeNext
<1> QED
  BY <1>1, <1>2, PTL DEF WakeSpec

\* What sending the end of u on the channel does to Queued and QueuedTwice.
LEMMA AppendQueue ==
  ASSUME WakeTypeOK, NEW t \in Tasks, NEW u \in Tasks, events' = Append(events, u)
  PROVE  /\ Queued(t)' <=> Queued(t) \/ t = u
         /\ QueuedTwice(t)' <=> QueuedTwice(t) \/ (t = u /\ Queued(t))
<1>1. events \in Seq(Tasks)
  BY DEF WakeTypeOK
<1>2. /\ Len(events') = Len(events) + 1 /\ DOMAIN events' = 1 .. Len(events')
      /\ DOMAIN events = 1 .. Len(events) /\ Len(events) \in Nat
      /\ \A i \in DOMAIN events : events'[i] = events[i]
      /\ events'[Len(events) + 1] = u
  BY <1>1
<1> QED
  BY <1>2 DEF Queued, QueuedTwice

\* Taking the head off a channel that holds t at most once.
LEMMA TailQueue ==
  ASSUME WakeTypeOK, NEW t \in Tasks, events # << >>, events' = Tail(events), ~QueuedTwice(t)
  PROVE  /\ Queued(t) <=> (Queued(t)' \/ t = Head(events))
         /\ ~QueuedTwice(t)' /\ (t = Head(events) => ~Queued(t)')
<1>1. events \in Seq(Tasks)
  BY DEF WakeTypeOK
<1>2. /\ Len(events') = Len(events) - 1 /\ DOMAIN events' = 1 .. Len(events')
      /\ DOMAIN events = 1 .. Len(events) /\ Len(events) \in Nat \ {0}
      /\ \A i \in DOMAIN events' : events'[i] = events[i + 1]
      /\ Head(events) = events[1]
  BY <1>1
<1>3. \A i \in DOMAIN events : i = 1 \/ (i - 1 \in DOMAIN events' /\ events'[i - 1] = events[i])
  BY <1>2
<1>4. \A i \in DOMAIN events' : i + 1 \in DOMAIN events /\ i + 1 # 1
  BY <1>2
<1>5. 1 \in DOMAIN events
  BY <1>2
<1>6. Queued(t) <=> (Queued(t)' \/ t = Head(events))
  BY <1>2, <1>3, <1>4, <1>5 DEF Queued
<1>7. ASSUME QueuedTwice(t)' PROVE FALSE
  <2>1. PICK i \in DOMAIN events', j \in DOMAIN events' : i # j /\ events'[i] = t /\ events'[j] = t
    BY <1>7 DEF QueuedTwice
  <2>2. i + 1 \in DOMAIN events /\ j + 1 \in DOMAIN events /\ i + 1 # j + 1
    BY <1>2, <2>1
  <2> QED
    BY <1>2, <2>1, <2>2 DEF QueuedTwice
<1>8. t = Head(events) => ~Queued(t)'
  BY <1>2, <1>4, <1>5 DEF Queued, QueuedTwice
<1> QED
  BY <1>6, <1>7, <1>8

\* An untouched channel holds what it held.
LEMMA Quiet ==
  ASSUME NEW t \in Tasks, UNCHANGED events
  PROVE  /\ Queued(t)' <=> Queued(t)
         /\ QueuedTwice(t)' <=> QueuedTwice(t)
BY DEF Queued, QueuedTwice

\* Every step keeps the lists of the scan in order.
LEMMA Step ==
  ASSUME WakeTypeOK, Scanning, [WakeNext]_wakeupVars
  PROVE  Scanning'
<1>1. ASSUME NEW t \in Tasks, StartTask(t) \/ EndTask(t) \/ DropTask(t) PROVE Scanning'
  BY <1>1 DEF StartTask, EndTask, DropTask, Scanning, watchVars
<1>2. ASSUME NEW t \in Tasks, ArmTask(t) PROVE Scanning'
  BY <1>2 DEF ArmTask, Scanning
<1>3. ASSUME NEW t \in Tasks, LookAt(t) PROVE Scanning'
  <2>1. /\ scan' = [scan EXCEPT !.left = @ \ {t}, !.still = IF ~IsOver(t) THEN @ \cup {t} ELSE @]
        /\ t \in scan.left /\ UNCHANGED <<watches, armed>>
    BY <1>3 DEF LookAt, Look
  <2> QED
    BY <2>1 DEF Scanning, WakeTypeOK
<1>4. CASE ScanStart
  BY <1>4 DEF ScanStart, Scanning
<1>5. CASE ScanEnd
  BY <1>5 DEF ScanEnd, Scanning, Resting
<1>6. CASE Dispatch \/ StartRun \/ GoToSleep \/ EndRun
  BY <1>6 DEF Dispatch, StartRun, GoToSleep, EndRun, Scanning, watchVars
<1>7. CASE UNCHANGED wakeupVars
  BY <1>7 DEF wakeupVars, Scanning, watchVars
<1> QED
  BY <1>1, <1>2, <1>3, <1>4, <1>5, <1>6, <1>7 DEF WakeNext

\* A step that announces nothing, adds no old task to the watches and takes back no
\* exit keeps the two facts about t.
LEMMA Keep ==
  ASSUME WakeTypeOK, NEW t \in Tasks, OnlyOnce(t), IsNews(t), UNCHANGED <<events, told>>,
         armed \subseteq armed', Watched(t)' => Watched(t) \/ t \notin armed,
         blind \subseteq blind', verdict[t] = "exited" => verdict'[t] = "exited"
  PROVE  OnlyOnce(t)' /\ IsNews(t)'
BY Quiet DEF OnlyOnce, IsNews, Announced

\* Every step keeps the two facts about t.
LEMMA TaskStep ==
  ASSUME WakeTypeOK, Scanning, NEW t \in Tasks, OnlyOnce(t), IsNews(t), [WakeNext]_wakeupVars
  PROVE  OnlyOnce(t)' /\ IsNews(t)'
<1>1. ASSUME NEW u \in Tasks, StartTask(u) \/ EndTask(u) \/ DropTask(u)
      PROVE  OnlyOnce(t)' /\ IsNews(t)'
  <2>1. verdict[t] = "exited" => verdict'[t] = "exited"
    BY <1>1 DEF StartTask, EndTask, DropTask, Add, Finish, Remove, WakeTypeOK
  <2>2. UNCHANGED <<events, told, armed, watches, scan, blind>>
    BY <1>1 DEF StartTask, EndTask, DropTask, watchVars, eventVars
  <2> QED
    BY <2>1, <2>2, Keep DEF Watched
<1>2. ASSUME NEW u \in Tasks, ArmTask(u) PROVE OnlyOnce(t)' /\ IsNews(t)'
  <2>1. Watched(t)' => Watched(t) \/ t \notin armed
    BY <1>2 DEF ArmTask, Watched
  <2> QED
    BY <1>2, <2>1, Keep DEF ArmTask, eventVars, tableVars
<1>3. ASSUME NEW u \in Tasks, LookAt(u) PROVE OnlyOnce(t)' /\ IsNews(t)'
  <2>1. /\ scan' = [scan EXCEPT !.left = @ \ {u}, !.still = IF ~IsOver(u) THEN @ \cup {u} ELSE @]
        /\ scan.on /\ u \in scan.left
        /\ UNCHANGED <<told, verdict, listed, watches, armed>>
    BY <1>3 DEF LookAt, Look, tableVars
  <2>2. /\ scan'.on /\ scan'.left = scan.left \ {u}
        /\ scan'.still = IF ~IsOver(u) THEN scan.still \cup {u} ELSE scan.still
    BY <2>1 DEF WakeTypeOK
  <2>3. CASE IsOver(u) /\ ~WasKilled(u)
    <3>1. events' = Append(events, u) /\ blind' = IF u \notin listed THEN blind \cup {u} ELSE blind
      BY <1>3, <2>3 DEF LookAt, Look
    <3>2. Queued(t)' <=> Queued(t) \/ t = u
      BY <3>1, AppendQueue
    <3>3. QueuedTwice(t)' <=> QueuedTwice(t) \/ (t = u /\ Queued(t))
      BY <3>1, AppendQueue
    <3>4. Watched(u) /\ u \in armed
      BY <2>1 DEF Watched, Scanning
    <3>5. Watched(t)' => Watched(t) /\ t # u
      BY <2>1, <2>2, <2>3 DEF Watched, Scanning
    <3>6. u \in blind' \/ verdict'[u] = "exited"
      BY <2>1, <2>3, <3>1 DEF IsOver, WasKilled, Terminal
    <3>7. OnlyOnce(t)'
      BY <2>1, <3>2, <3>3, <3>4, <3>5 DEF OnlyOnce, Announced, WakeTypeOK
    <3>8. IsNews(t)'
      BY <2>1, <3>1, <3>2, <3>6 DEF IsNews, Announced
    <3> QED
      BY <3>7, <3>8
  <2>4. CASE ~(IsOver(u) /\ ~WasKilled(u))
    <3>1. UNCHANGED <<events, blind>>
      BY <1>3, <2>4 DEF LookAt, Look
    <3>2. Watched(t)' => Watched(t)
      BY <2>1, <2>2 DEF Watched
    <3> QED
      BY <2>1, <3>1, <3>2, Keep
  <2> QED
    BY <2>3, <2>4
<1>4. CASE ScanStart
  <2>1. Watched(t)' => Watched(t)
    BY <1>4 DEF ScanStart, Watched
  <2> QED
    BY <1>4, <2>1, Keep DEF ScanStart, eventVars, tableVars
<1>5. CASE ScanEnd
  <2>1. Watched(t)' => Watched(t)
    BY <1>5 DEF ScanEnd, Watched, Resting
  <2> QED
    BY <1>5, <2>1, Keep DEF ScanEnd, eventVars, tableVars
<1>6. CASE Dispatch
  <2>1. events # << >> /\ events' = Tail(events) /\ Head(events) \in Tasks
    BY <1>6 DEF Dispatch, WakeTypeOK
  <2>2. ~QueuedTwice(t)
    BY DEF OnlyOnce
  <2>3. /\ Queued(t) <=> (Queued(t)' \/ t = Head(events))
        /\ ~QueuedTwice(t)' /\ (t = Head(events) => ~Queued(t)')
    BY <2>1, <2>2, TailQueue
  <2>4. UNCHANGED <<verdict, watches, scan, armed, blind>>
    BY <1>6 DEF Dispatch, tableVars, watchVars
  <2>5. \/ told' = [told EXCEPT ![Head(events)] = @ + 1]
        \/ told' = told
    BY <1>6 DEF Dispatch, Tell, TellClosing, CannotOpen
  <2>6. \/ told'[t] = told[t]
        \/ t = Head(events) /\ told'[t] = told[t] + 1
    BY <2>1, <2>5 DEF WakeTypeOK
  <2>7. told[t] \in Nat
    BY DEF WakeTypeOK
  <2>8. OnlyOnce(t)'
    BY <2>3, <2>4, <2>6, <2>7 DEF OnlyOnce, Announced, Watched
  <2>9. IsNews(t)'
    BY <2>3, <2>4, <2>6, <2>7 DEF IsNews, Announced
  <2> QED
    BY <2>8, <2>9
<1>7. CASE StartRun \/ GoToSleep \/ EndRun \/ UNCHANGED wakeupVars
  <2>1. UNCHANGED <<events, told, armed, watches, scan, blind, verdict>>
    BY <1>7 DEF StartRun, GoToSleep, EndRun, wakeupVars, watchVars, eventVars, tableVars
  <2> QED
    BY <2>1, Keep DEF Watched
<1> QED
  BY <1>1, <1>2, <1>3, <1>4, <1>5, <1>6, <1>7 DEF WakeNext

\* Every step keeps t accounted for.
LEMMA AccountedStep ==
  ASSUME WakeTypeOK, Scanning, NEW t \in Tasks, OnlyOnce(t), Accounted(t), [WakeNext]_wakeupVars
  PROVE  Accounted(t)'
<1>1. ASSUME NEW u \in Tasks, StartTask(u) \/ EndTask(u) \/ DropTask(u) PROVE Accounted(t)'
  <2>1. verdict[t] = "killed" => verdict'[t] = "killed"
    BY <1>1 DEF StartTask, EndTask, DropTask, Add, Finish, Remove, WakeTypeOK
  <2>2. UNCHANGED <<watchVars, eventVars>>
    BY <1>1 DEF StartTask, EndTask, DropTask
  <2> QED
    BY <2>1, <2>2, Quiet DEF Accounted, Watched, Announced, Swallowed, watchVars, eventVars
<1>2. ASSUME NEW u \in Tasks, ArmTask(u) PROVE Accounted(t)'
  <2>1. UNCHANGED <<tableVars, scan, clobbered, eventVars>> /\ watches' = watches \cup {u}
        /\ armed' = armed \cup {u} /\ u \notin armed
    BY <1>2 DEF ArmTask
  <2>2. CASE t = u
    BY <2>1, <2>2 DEF Accounted, Watched, Scanning
  <2>3. CASE t # u
    BY <2>1, <2>3, Quiet DEF Accounted, Watched, Announced, Swallowed, tableVars, eventVars
  <2> QED
    BY <2>2, <2>3
<1>3. ASSUME NEW u \in Tasks, LookAt(u) PROVE Accounted(t)'
  <2>1. /\ scan' = [scan EXCEPT !.left = @ \ {u}, !.still = IF ~IsOver(u) THEN @ \cup {u} ELSE @]
        /\ scan.on /\ u \in scan.left
        /\ UNCHANGED <<told, verdict, listed, watches, armed, clobbered, unread, refused>>
    BY <1>3 DEF LookAt, Look, tableVars
  <2>2. /\ scan'.on /\ scan'.left = scan.left \ {u} /\ scan'.copy = scan.copy
        /\ scan'.still = IF ~IsOver(u) THEN scan.still \cup {u} ELSE scan.still
    BY <2>1 DEF WakeTypeOK
  <2>3. CASE IsOver(u) /\ ~WasKilled(u)
    <3>1. events' = Append(events, u)
      BY <1>3, <2>3 DEF LookAt, Look
    <3>2. Queued(t)' <=> Queued(t) \/ t = u
      BY <3>1, AppendQueue
    <3> QED
      BY <2>1, <2>2, <3>2 DEF Accounted, Watched, Announced, Swallowed
  <2>4. CASE ~IsOver(u) \/ WasKilled(u)
    <3>1. UNCHANGED events
      BY <1>3, <2>4 DEF LookAt, Look
    <3>2. IsOver(u) => verdict[u] = "killed"
      BY <2>4 DEF WasKilled
    <3> QED
      BY <2>1, <2>2, <3>1, <3>2, Quiet DEF Accounted, Watched, Announced, Swallowed
  <2> QED
    BY <2>3, <2>4
<1>4. CASE ScanStart
  BY <1>4, Quiet DEF ScanStart, Accounted, Watched, Announced, Swallowed, tableVars, eventVars
<1>5. CASE ScanEnd
  BY <1>5, Quiet DEF ScanEnd, Resting, Accounted, Watched, Announced, Swallowed, tableVars, eventVars
<1>6. CASE Dispatch
  <2>1. events # << >> /\ events' = Tail(events) /\ Head(events) \in Tasks
    BY <1>6 DEF Dispatch, WakeTypeOK
  <2>2. ~QueuedTwice(t)
    BY DEF OnlyOnce
  <2>3. Queued(t) <=> (Queued(t)' \/ t = Head(events))
    BY <2>1, <2>2, TailQueue
  <2>4. UNCHANGED <<verdict, watches, scan, armed, clobbered>>
    BY <1>6 DEF Dispatch, tableVars, watchVars
  <2>5. told[t] \in Nat
    BY DEF WakeTypeOK
  <2>6. CASE Tell
    <3>1. told'[t] = told[t] \/ told'[t] = told[t] + 1
      BY <2>1, <2>6 DEF Tell, WakeTypeOK
    <3>2. t = Head(events) => told'[t] = told[t] + 1
      BY <2>1, <2>6 DEF Tell, WakeTypeOK
    <3>3. UNCHANGED <<unread, refused>>
      BY <2>6 DEF Tell
    <3> QED
      BY <2>3, <2>4, <2>5, <3>1, <3>2, <3>3 DEF Accounted, Watched, Announced, Swallowed
  <2>7. CASE TellClosing \/ CannotOpen
    BY <2>3, <2>4, <2>7 DEF TellClosing, CannotOpen, Accounted, Watched, Announced, Swallowed
  <2> QED
    BY <1>6, <2>6, <2>7 DEF Dispatch
<1>7. CASE StartRun \/ GoToSleep \/ EndRun \/ UNCHANGED wakeupVars
  <2>1. UNCHANGED <<tableVars, watchVars, eventVars>>
    BY <1>7 DEF StartRun, GoToSleep, EndRun, wakeupVars
  <2> QED
    BY <2>1, Quiet DEF Accounted, Watched, Announced, Swallowed, tableVars, watchVars, eventVars
<1> QED
  BY <1>1, <1>2, <1>3, <1>4, <1>5, <1>6, <1>7 DEF WakeNext

\* The conjunction is inductive, given the types.
LEMMA Inductive == WakeSpec => [](Scanning /\ TaskInv /\ NothingVanishes)
<1>1. WakeInit => Scanning /\ TaskInv /\ NothingVanishes
  BY DEF WakeInit, Scanning, Resting, TaskInv, OnlyOnce, IsNews, Announced, Queued, QueuedTwice,
         NothingVanishes, Accounted
<1>2. WakeTypeOK /\ Scanning /\ TaskInv /\ NothingVanishes /\ [WakeNext]_wakeupVars
        => (Scanning /\ TaskInv /\ NothingVanishes)'
  <2> SUFFICES ASSUME WakeTypeOK, Scanning, TaskInv, NothingVanishes, [WakeNext]_wakeupVars
               PROVE  (Scanning /\ TaskInv /\ NothingVanishes)'
    OBVIOUS
  <2>1. Scanning'
    BY Step
  <2>2. ASSUME NEW t \in Tasks PROVE OnlyOnce(t)' /\ IsNews(t)' /\ Accounted(t)'
    <3>1. OnlyOnce(t) /\ IsNews(t) /\ Accounted(t)
      BY DEF TaskInv, NothingVanishes
    <3> QED
      BY <3>1, TaskStep, AccountedStep
  <2> QED
    BY <2>1, <2>2 DEF TaskInv, NothingVanishes
<1> QED
  BY <1>1, <1>2, WakeTypeCorrect, PTL DEF WakeSpec

\* The end of a background task reaches a run at most once and is queued at most once,
\* whatever is armed while scan_bg_watches works on its copy of the watches
\* (AnnouncedOnce).
THEOREM EndAnnouncedOnce == WakeSpec => []AnnouncedOnce
<1>1. TaskInv => AnnouncedOnce
  BY DEF TaskInv, OnlyOnce, AnnouncedOnce
<1> QED
  BY <1>1, Inductive, PTL

\* A task that was killed is never announced, unless the table had already let it go
\* when the scan asked for its state (KilledIsSilent).
THEOREM KilledTasksSilent == WakeSpec => []KilledIsSilent
<1>1. TaskInv => KilledIsSilent
  BY DEF TaskInv, IsNews, Announced, KilledIsSilent
<1> QED
  BY <1>1, Inductive, PTL

\* No armed task vanishes: the end of each is announced, still to be looked at, or in
\* one of the named losses (NothingVanishes).
THEOREM WatchesAccountedFor == WakeSpec => []NothingVanishes
  BY Inductive, PTL
=============================================================================
