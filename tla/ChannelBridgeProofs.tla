-------------------------- MODULE ChannelBridgeProofs --------------------------
(***************************************************************************)
(* Safety of the channel bridge: the subscription loops that forward the   *)
(* requests of the desktop to a phone, the owner who answers there, and    *)
(* the runs the owner starts, for every set of requests and any number of  *)
(* loops, bridges and runs.                                                *)
(*                                                                         *)
(* IInv is inductive. Its core is what ties a request to its one marker:   *)
(* the one loop that is not cancelled stands no further back than the      *)
(* older ones (PaceInv), so a request that one of those has read is behind *)
(* it too (Passed) and it does not forward it a second time (MarkerInv).   *)
(***************************************************************************)
EXTENDS ChannelBridge, TLAPS

\* The event that announces request r.
Requested(r) == [kind |-> "requested", id |-> r]

\* What the event log holds has happened at the gate.
LogGates ==
  \A i \in DOMAIN log :
    /\ gate[log[i].id] # "none"
    /\ log[i].kind = "settled" => gate[log[i].id] = "announced"

\* A request is announced once, and before it is settled.
LogOrder ==
  \A i, j \in DOMAIN log :
    log[i].id = log[j].id /\ log[i].kind = "requested" =>
      /\ log[j].kind = "requested" => i = j
      /\ log[j].kind = "settled" => i < j

\* The log and the gate agree.
LogInv == LogGates /\ LogOrder

\* A loop reads no further than the log goes.
PosInv == \A l \in Loops : pos[l] \in 1 .. Len(log) + 1

\* Only loops that exist are cancelled, and a newer loop has cancelled every older one
\* (the subscription map keeps one token).
CancelInv ==
  /\ \A l \in cancelled : lpc[l] # "none"
  /\ \A l, k \in Loops : l < k /\ lpc[k] # "none" => l \in cancelled

\* A newer loop reads behind no older one: it subscribed later.
PaceInv ==
  \A l, k \in Loops :
    l < k /\ lpc[l] = "recv" =>
      /\ lpc[k] = "recv" => pos[l] <= pos[k]
      /\ lpc[k] = "insert" => pos[l] < pos[k]

\* What a loop is about to put into a table is the request it has just read.
JobInv ==
  \A l \in Loops : \A j \in job[l] :
    lpc[l] = "insert" /\ pos[l] > 1 /\ log[pos[l] - 1] = Requested(j.entry.id)

\* The subscription loops: their place, their order and their work.
LoopInv == PosInv /\ CancelInv /\ PaceInv /\ JobInv

\* Loop l still has the announcement of r to read.
Ahead(l, r) == \E i \in DOMAIN log : i >= pos[l] /\ log[i] = Requested(r)
\* No loop that may still go on has the announcement of r to read.
Passed(r) == \A l \in Loops \ cancelled : lpc[l] \in {"recv", "insert"} => ~ Ahead(l, r)

\* The marker an entry names is the marker of its request.
Tracked(e) == e.id \in Requests => e.marker \in DOMAIN markers /\ markers[e.marker].id = e.id

\* Every entry, in a table, taken out of one, or on its way, names its marker.
EntryInv ==
  /\ \A b \in Bridges : \A e \in table[b] \cup hand[b] : Tracked(e)
  /\ \A l \in Loops : \A j \in job[l] : Tracked(j.entry)

\* The markers of request r.
Of(r) == {m \in DOMAIN markers : markers[m].id = r}

\* A request that no cancelled loop forwarded has at most one marker, settled at most
\* once; the one still to settle is the one in flight.
MarkerInv ==
  \A r \in Requests :
    /\ inflight[r] # 0 =>
         inflight[r] \in Of(r) /\ (r \notin strayed => markers[inflight[r]].times = 0 /\ markers[inflight[r]].status = "pending")
    /\ r \notin strayed => \A m \in Of(r) :
         /\ gate[r] # "none" /\ Passed(r)
         /\ markers[m].times <= 1
         /\ markers[m].status = "pending" => inflight[r] = m
         /\ Of(r) = {m}

\* A bridge that was never made holds nothing.
BridgeInv ==
  /\ bridge <= born
  /\ \A b \in Bridges : b > born => table[b] = {} /\ hand[b] = {} /\ run[b] = "off"
  /\ \A l \in Loops : \A j \in job[l] : j.bridge <= born

\* A request whose settlement a loop has seen is behind every loop, and none of them
\* that may go on still carries it to a table.
ToldInv ==
  \A r \in told :
    /\ gate[r] = "announced" /\ Passed(r)
    /\ \A l \in Loops \ cancelled : \A j \in job[l] : j.entry.id # r

\* A run carries the request it asks the owner about from drive to the answer, and none
\* outside of that.
RunInv ==
  \A b \in Bridges :
    /\ run[b] \in {"off", "prep", "drive"} => current[b] = {}
    /\ run[b] = "insert" => current[b] # {}

\* The inductive invariant.
IInv ==
  /\ TypeOK /\ LogInv /\ LoopInv /\ EntryInv /\ MarkerInv /\ BridgeInv /\ ToldInv /\ RunInv
  /\ SettledIsWithdrawn /\ WaiterIsAnswerable

\* Appending to a sequence, as the provers need it: what is in it stays, and one comes
\* behind.
LEMMA SeqFacts ==
  ASSUME NEW S, NEW q \in Seq(S)
  PROVE  /\ Len(q) \in Nat /\ DOMAIN q = 1 .. Len(q) /\ \A i \in DOMAIN q : q[i] \in S
         /\ \A x \in S : /\ Append(q, x) \in Seq(S) /\ Len(Append(q, x)) = Len(q) + 1
                         /\ DOMAIN Append(q, x) = 1 .. Len(q) + 1
                         /\ \A i \in DOMAIN q : Append(q, x)[i] = q[i]
                         /\ Append(q, x)[Len(q) + 1] = x
OBVIOUS

\* The same for the event log.
LEMMA LogFacts ==
  ASSUME LogTypeOK
  PROVE  /\ Len(log) \in Nat /\ DOMAIN log = 1 .. Len(log)
         /\ \A i \in DOMAIN log : log[i].id \in Requests /\ log[i].kind \in {"requested", "settled"}
         /\ \A kind \in {"requested", "settled"}, r \in Requests :
              LET e == [kind |-> kind, id |-> r]
              IN  /\ Len(Append(log, e)) = Len(log) + 1
                  /\ DOMAIN Append(log, e) = 1 .. Len(log) + 1
                  /\ \A i \in DOMAIN log : Append(log, e)[i] = log[i]
                  /\ Append(log, e)[Len(log) + 1] = e
<1> DEFINE E == [kind : {"requested", "settled"}, id : Requests]
<1>1. log \in Seq(E)
  BY DEF LogTypeOK
<1>2. \A kind \in {"requested", "settled"}, r \in Requests : [kind |-> kind, id |-> r] \in E
  OBVIOUS
<1>3. \A e \in E : e.id \in Requests /\ e.kind \in {"requested", "settled"}
  OBVIOUS
<1> HIDE DEF E
<1> QED
  BY <1>1, <1>2, <1>3, SeqFacts

\* Which actions touch which part of the state: everything else leaves it alone.
LEMMA Frames ==
  ASSUME [Next]_vars
  PROVE  /\ (\E r \in Requests : Desk(r)) \/ UNCHANGED logVars
         /\ (\E l \in Loops : Loop(l)) \/ UNCHANGED <<loopVars, historyVars>>
         /\ \/ \E l \in Loops, r \in Requests : Forward(l, r) \/ SettleLocally(l, r)
            \/ \E b \in Bridges : Settle(b)
            \/ UNCHANGED forwardVars
         /\ \/ \E l \in Loops : Insert(l) \/ \E r \in Requests : SettleLocally(l, r)
            \/ \E b \in Bridges : Owner(b) \/ Settle(b) \/ AskOwner(b)
            \/ StartChannel \/ StopChannel \/ UNCHANGED channelVars
         /\ \/ \E b \in Bridges : OwnerCancels(b) \/ OwnerWrites(b) \/ Settle(b) \/ RunStep(b)
            \/ UNCHANGED runVars
<1> USE DEF logVars, loopVars, forwardVars, channelVars, runVars, historyVars
<1>1. CASE \E r \in Requests : Desk(r)
  BY <1>1 DEF Desk, Request, SettleAtDesk, Announce
<1>2. CASE \E l \in Loops : Loop(l)
  BY <1>2 DEF Loop, Subscribe, StartLoop, Insert, Forward, NoForward, SettleLocally
<1>3. CASE \E b \in Bridges : Owner(b)
  BY <1>3 DEF Owner, OwnerAnswers, OwnerCancels, OwnerWrites
<1>4. CASE \E b \in Bridges : Settle(b)
  BY <1>4 DEF Settle, SettleFromChannel, WakeRun, HitlPending
<1>5. CASE \E b \in Bridges : RunStep(b)
  BY <1>5 DEF RunStep, Prepare, Drive, AskOwner, Resolve, EndRun, Ask, Judge
<1>6. CASE StartChannel \/ StopChannel
  BY <1>6 DEF StartChannel, StopChannel
<1>7. CASE UNCHANGED vars
  BY <1>7 DEF vars
<1> QED
  BY <1>1, <1>2, <1>3, <1>4, <1>5, <1>6, <1>7 DEF Next

\* The gate and the log keep their types.
LEMMA LogType == LogTypeOK /\ [Next]_vars => LogTypeOK'
<1> SUFFICES ASSUME LogTypeOK, [Next]_vars PROVE LogTypeOK'
  OBVIOUS
<1>1. CASE UNCHANGED logVars
  BY <1>1 DEF logVars, LogTypeOK
<1>2. ASSUME NEW r \in Requests, Request(r) PROVE LogTypeOK'
  BY <1>2 DEF Request, LogTypeOK
<1>3. ASSUME NEW r \in Requests, SettleAtDesk(r) PROVE LogTypeOK'
  BY <1>3 DEF SettleAtDesk, LogTypeOK
<1>4. ASSUME NEW r \in Requests, Announce(r) PROVE LogTypeOK'
  BY <1>4 DEF Announce, LogTypeOK
<1> QED
  BY <1>1, <1>2, <1>3, <1>4, Frames DEF Desk

\* The loops keep their types.
LEMMA LoopType == TypeOK /\ [Next]_vars => LoopTypeOK' /\ told' \subseteq Requests /\ strayed' \subseteq Requests
<1> SUFFICES ASSUME TypeOK, [Next]_vars PROVE LoopTypeOK' /\ told' \subseteq Requests /\ strayed' \subseteq Requests
  OBVIOUS
<1> USE DEF TypeOK
<1>1. CASE UNCHANGED <<loopVars, historyVars>>
  BY <1>1 DEF loopVars, historyVars, LoopTypeOK
<1>2. ASSUME NEW l \in Loops, Subscribe(l) PROVE LoopTypeOK' /\ UNCHANGED historyVars
  BY <1>2, BridgeAssumption DEF Subscribe, LoopTypeOK, Loops, historyVars
<1>3. ASSUME NEW l \in Loops, StartLoop(l) PROVE LoopTypeOK' /\ UNCHANGED historyVars
  BY <1>3 DEF StartLoop, LoopTypeOK, LogTypeOK
<1>4. ASSUME NEW l \in Loops, Insert(l) PROVE LoopTypeOK' /\ told' \subseteq Requests /\ strayed' \subseteq Requests
  BY <1>4 DEF Insert, GoesOn, LoopTypeOK, AtMostOne
<1>5. ASSUME NEW l \in Loops, NEW r \in Requests, Forward(l, r) PROVE LoopTypeOK' /\ told' \subseteq Requests /\ strayed' \subseteq Requests
  <2> DEFINE J == [entry |-> [id |-> r, marker |-> Len(markers) + 1], bridge |-> bridge]
  <2>1. bridge \in Bridges /\ Len(markers) \in Nat
    BY <1>5 DEF Forward, CanForward, ChannelTypeOK, ForwardTypeOK
  <2>2. J \in [entry : [id : Requests, marker : Nat], bridge : Bridges]
    BY <2>1
  <2>3. job' = [job EXCEPT ![l] = {J}]
    BY <1>5 DEF Forward
  <2> HIDE DEF J
  <2>4. job' \in [Loops -> SUBSET [entry : [id : Requests, marker : Nat], bridge : Bridges]]
    BY <2>2, <2>3 DEF LoopTypeOK
  <2>5. \A k \in Loops : AtMostOne(job'[k])
    BY <2>3 DEF LoopTypeOK, AtMostOne
  <2>6. lpc' = [lpc EXCEPT ![l] = "insert"] /\ pos' = [pos EXCEPT ![l] = @ + 1] /\ cancelled' = cancelled
        /\ told' = told /\ strayed' \in {strayed, strayed \cup {r}}
    BY <1>5 DEF Forward, Receives
  <2> QED
    BY <2>4, <2>5, <2>6 DEF LoopTypeOK
<1>6. ASSUME NEW l \in Loops, NEW r \in Requests, NoForward(l, r) PROVE LoopTypeOK' /\ UNCHANGED historyVars
  <2>1. \E to \in {"recv", "ended"} : lpc' = [lpc EXCEPT ![l] = to]
    BY <1>6 DEF NoForward, GoesOn
  <2>2. pos' = [pos EXCEPT ![l] = @ + 1] /\ UNCHANGED <<cancelled, job, historyVars>>
    BY <1>6 DEF NoForward, Receives
  <2> QED
    BY <2>1, <2>2 DEF LoopTypeOK
<1>7. ASSUME NEW l \in Loops, NEW r \in Requests, SettleLocally(l, r) PROVE LoopTypeOK' /\ told' \subseteq Requests /\ strayed' \subseteq Requests
  <2>1. \E to \in {"recv", "ended"} : lpc' = [lpc EXCEPT ![l] = to]
    BY <1>7 DEF SettleLocally, GoesOn
  <2>2. pos' = [pos EXCEPT ![l] = @ + 1] /\ UNCHANGED <<cancelled, job, strayed>> /\ told' \subseteq told \cup {r}
    BY <1>7 DEF SettleLocally, Receives
  <2> QED
    BY <2>1, <2>2 DEF LoopTypeOK
<1> QED
  BY <1>1, <1>2, <1>3, <1>4, <1>5, <1>6, <1>7, Frames DEF Loop, historyVars

\* Settling a marker changes that marker alone, and keeps its request.
LEMMA SettledMarkers ==
  ASSUME ForwardTypeOK, NEW m, NEW how \in {"channel", "local"}
  PROVE  LET s == SettleMarker(m, how)
         IN  /\ s \in Seq([id : Requests, status : {"pending", "channel", "local"}, times : Nat])
             /\ Len(s) = Len(markers)
             /\ \A n \in DOMAIN markers :
                  /\ s[n].id = markers[n].id
                  /\ n # m => s[n] = markers[n]
                  /\ n = m => s[n].status = how /\ s[n].times = markers[n].times + 1
<1> DEFINE M == [id : Requests, status : {"pending", "channel", "local"}, times : Nat]
           s == SettleMarker(m, how)
<1>1. /\ DOMAIN s = DOMAIN markers
      /\ \A n \in DOMAIN markers :
           s[n] = IF n = m THEN [id |-> markers[n].id, status |-> how, times |-> markers[n].times + 1] ELSE markers[n]
  BY DEF SettleMarker
<1>2. /\ DOMAIN markers = 1 .. Len(markers) /\ Len(markers) \in Nat
      /\ \A n \in DOMAIN markers : markers[n] \in M
  <2>1. markers \in Seq(M)
    BY DEF ForwardTypeOK
  <2> HIDE DEF M
  <2> QED
    BY <2>1
<1>3. \A n \in DOMAIN markers : s[n] \in M
  <2> SUFFICES ASSUME NEW n \in DOMAIN markers PROVE s[n] \in M
    OBVIOUS
  <2>1. markers[n] \in M
    BY <1>2
  <2>2. [id |-> markers[n].id, status |-> how, times |-> markers[n].times + 1] \in M
    BY <2>1
  <2> HIDE DEF M, s
  <2> QED
    BY <1>1, <2>1, <2>2
<1>4. s = [n \in 1 .. Len(markers) |-> s[n]]
  BY <1>1, <1>2 DEF SettleMarker
<1> HIDE DEF s
<1>5. s \in Seq(M) /\ Len(s) = Len(markers)
  BY <1>2, <1>3, <1>4
<1>6. \A n \in DOMAIN markers : s[n].id = markers[n].id /\ (n # m => s[n] = markers[n])
        /\ (n = m => s[n].status = how /\ s[n].times = markers[n].times + 1)
  BY <1>1, <1>2
<1> QED
  BY <1>5, <1>6 DEF s

\* Forwarding appends one pending marker and makes it the one in flight.
LEMMA Forwarded ==
  ASSUME TypeOK, NEW l \in Loops, NEW r \in Requests, Forward(l, r)
  PROVE  /\ inflight' = [inflight EXCEPT ![r] = Len(markers) + 1]
         /\ markers' \in Seq([id : Requests, status : {"pending", "channel", "local"}, times : Nat])
         /\ Len(markers) \in Nat /\ Len(markers') = Len(markers) + 1
         /\ DOMAIN markers = 1 .. Len(markers) /\ DOMAIN markers' = 1 .. Len(markers) + 1
         /\ \A k \in DOMAIN markers : markers'[k] = markers[k]
         /\ markers'[Len(markers) + 1] = [id |-> r, status |-> "pending", times |-> 0]
<1> DEFINE M == [id : Requests, status : {"pending", "channel", "local"}, times : Nat]
           m == [id |-> r, status |-> "pending", times |-> 0]
<1>1. markers \in Seq(M) /\ m \in M
  BY DEF TypeOK, ForwardTypeOK
<1>2. markers' = Append(markers, m) /\ inflight' = [inflight EXCEPT ![r] = Len(markers) + 1]
  BY DEF Forward
<1> HIDE DEF M, m
<1>3. /\ markers' \in Seq(M) /\ Len(markers) \in Nat /\ Len(markers') = Len(markers) + 1
      /\ DOMAIN markers = 1 .. Len(markers) /\ DOMAIN markers' = 1 .. Len(markers) + 1
      /\ \A k \in DOMAIN markers : markers'[k] = markers[k]
      /\ markers'[Len(markers) + 1] = m
  BY <1>1, <1>2, SeqFacts
<1> QED
  BY <1>2, <1>3 DEF M, m

\* The markers keep their types.
LEMMA ForwardType == TypeOK /\ [Next]_vars => ForwardTypeOK'
<1> SUFFICES ASSUME TypeOK, [Next]_vars PROVE ForwardTypeOK'
  OBVIOUS
<1> USE DEF TypeOK
<1>1. CASE UNCHANGED forwardVars
  BY <1>1 DEF forwardVars, ForwardTypeOK
<1>2. ASSUME NEW l \in Loops, NEW r \in Requests, Forward(l, r) PROVE ForwardTypeOK'
  <2>1. markers' \in Seq([id : Requests, status : {"pending", "channel", "local"}, times : Nat])
    BY <1>2, Forwarded
  <2>2. inflight' = [inflight EXCEPT ![r] = Len(markers) + 1] /\ Len(markers') = Len(markers) + 1 /\ Len(markers) \in Nat
    BY <1>2, Forwarded
  <2>3. inflight' \in [Requests -> 0 .. Len(markers')]
    BY <2>2 DEF ForwardTypeOK
  <2> QED
    BY <2>1, <2>3 DEF ForwardTypeOK
<1>3. ASSUME NEW l \in Loops, NEW r \in Requests, SettleLocally(l, r) PROVE ForwardTypeOK'
  <2>1. \/ UNCHANGED forwardVars
        \/ inflight' = [inflight EXCEPT ![r] = 0] /\ markers' \in {markers, SettleMarker(inflight[r], "local")}
    BY <1>3 DEF SettleLocally
  <2>2. ASSUME inflight' = [inflight EXCEPT ![r] = 0], markers' \in {markers, SettleMarker(inflight[r], "local")}
        PROVE  ForwardTypeOK'
    <3>1. /\ markers' \in Seq([id : Requests, status : {"pending", "channel", "local"}, times : Nat])
          /\ Len(markers') = Len(markers)
      BY <2>2, SettledMarkers DEF ForwardTypeOK
    <3> QED
      BY <2>2, <3>1 DEF ForwardTypeOK
  <2> QED
    BY <1>1, <2>1, <2>2
<1>4. ASSUME NEW b \in Bridges, Settle(b) PROVE ForwardTypeOK'
  <2>1. CASE UNCHANGED forwardVars
    BY <2>1, <1>1
  <2>2. CASE \E e \in hand[b] : SettleFromChannel(e)
    <3>1. PICK e \in hand[b] : inflight' = [inflight EXCEPT ![e.id] = 0] /\ e.id \in Requests
                               /\ markers' \in {markers, SettleMarker(e.marker, "channel")}
      BY <2>2 DEF SettleFromChannel
    <3>2. /\ markers' \in Seq([id : Requests, status : {"pending", "channel", "local"}, times : Nat])
          /\ Len(markers') = Len(markers)
      BY <3>1, SettledMarkers DEF ForwardTypeOK
    <3> QED
      BY <3>1, <3>2 DEF ForwardTypeOK
  <2> QED
    BY <1>4, <2>1, <2>2 DEF Settle, WakeRun
<1> QED
  BY <1>1, <1>2, <1>3, <1>4, Frames

\* Inserting into a table keeps its type.
LEMMA PutType ==
  ASSUME NEW T \in SUBSET Entry, NEW e \in Entry
  PROVE  Put(T, e) \in SUBSET Entry
BY DEF Put

\* The bridges keep their types.
LEMMA ChannelType == TypeOK /\ [Next]_vars => ChannelTypeOK'
<1> SUFFICES ASSUME TypeOK, [Next]_vars PROVE ChannelTypeOK'
  OBVIOUS
<1> USE DEF TypeOK
<1>1. CASE UNCHANGED channelVars
  BY <1>1 DEF channelVars, ChannelTypeOK
<1>2. ASSUME NEW l \in Loops, Insert(l) PROVE ChannelTypeOK'
  <2>1. PICK j \in job[l] : table' = [table EXCEPT ![j.bridge] = Put(@, j.entry)]
    BY <1>2 DEF Insert
  <2>2. j.bridge \in Bridges /\ j.entry \in Entry
    BY DEF LoopTypeOK, Entry
  <2>3. Put(table[j.bridge], j.entry) \in SUBSET Entry
    BY <2>2, PutType DEF ChannelTypeOK
  <2> QED
    BY <1>2, <2>1, <2>2, <2>3 DEF Insert, ChannelTypeOK
<1>3. ASSUME NEW l \in Loops, NEW r \in Requests, SettleLocally(l, r) PROVE ChannelTypeOK'
  BY <1>3 DEF SettleLocally, ChannelTypeOK
<1>4. ASSUME NEW b \in Bridges, OwnerAnswers(b) PROVE ChannelTypeOK'
  <2>1. PICK e \in Answerable(b) : hand' = [hand EXCEPT ![b] = {e}] /\ table' = [table EXCEPT ![b] = @ \ {e}]
    BY <1>4 DEF OwnerAnswers
  <2>2. e \in Entry
    BY <2>1 DEF Answerable, ChannelTypeOK
  <2> QED
    BY <1>4, <2>1, <2>2 DEF OwnerAnswers, Takes, ChannelTypeOK, AtMostOne
<1>5. ASSUME NEW b \in Bridges, OwnerCancels(b) \/ OwnerWrites(b) PROVE ChannelTypeOK'
  BY <1>5 DEF OwnerCancels, OwnerWrites, Takes, ChannelTypeOK
<1>6. ASSUME NEW b \in Bridges, Settle(b) PROVE ChannelTypeOK'
  BY <1>6 DEF Settle, ChannelTypeOK, AtMostOne
<1>7. ASSUME NEW b \in Bridges, AskOwner(b) PROVE ChannelTypeOK'
  <2>1. PICK o \in current[b] : table' = [table EXCEPT ![b] = Put(@, [id |-> o, marker |-> 0])]
    BY <1>7 DEF AskOwner
  <2>2. Put(table[b], [id |-> o, marker |-> 0]) \in SUBSET Entry
    BY PutType DEF ChannelTypeOK, RunTypeOK, Entry
  <2> QED
    BY <1>7, <2>1, <2>2 DEF AskOwner, ChannelTypeOK
<1>8. CASE StartChannel
  BY <1>8, BridgeAssumption DEF StartChannel, ChannelTypeOK
<1>9. CASE StopChannel
  BY <1>9, BridgeAssumption DEF StopChannel, ChannelTypeOK
<1> QED
  BY <1>1, <1>2, <1>3, <1>4, <1>5, <1>6, <1>7, <1>8, <1>9, Frames DEF Owner

\* What drive does: it withdraws a settled request, goes past one that is not open, or
\* turns to the owner with one that is.
LEMMA DriveEffect ==
  ASSUME NEW b \in Bridges, Drive(b)
  PROVE  /\ run[b] = "drive" /\ queue[b] # << >> /\ UNCHANGED <<runs, flag, asked>>
         /\ \/ opened' = [opened EXCEPT ![b] = {}] /\ UNCHANGED <<run, current>>
            \/ UNCHANGED <<run, opened, current>>
            \/ /\ Head(queue[b]) \in opened[b] /\ opened' = opened
               /\ run' = [run EXCEPT ![b] = "insert"] /\ current' = [current EXCEPT ![b] = {Head(queue[b])}]
BY DEF Drive

\* The runs keep their types.
LEMMA RunType == TypeOK /\ RunInv /\ [Next]_vars => RunTypeOK'
<1> SUFFICES ASSUME TypeOK, RunInv, [Next]_vars PROVE RunTypeOK'
  OBVIOUS
<1> USE DEF TypeOK
<1>1. CASE UNCHANGED runVars
  BY <1>1 DEF runVars, RunTypeOK
<1>2. ASSUME NEW b \in Bridges, OwnerCancels(b) PROVE RunTypeOK'
  BY <1>2 DEF OwnerCancels, RunTypeOK
<1>3. ASSUME NEW b \in Bridges, OwnerWrites(b) PROVE RunTypeOK'
  BY <1>3, BridgeAssumption DEF OwnerWrites, RunTypeOK
<1>4. ASSUME NEW b \in Bridges, Settle(b) PROVE RunTypeOK'
  BY <1>4 DEF Settle, SettleFromChannel, WakeRun, RunTypeOK
<1>5. ASSUME NEW b \in Bridges, Prepare(b) PROVE RunTypeOK'
  BY <1>5 DEF Prepare, RunTypeOK
<1>6. ASSUME NEW b \in Bridges, Drive(b) PROVE RunTypeOK'
  <2>1. Head(queue[b]) \in Own /\ Tail(queue[b]) \in Seq(Own)
    BY <1>6 DEF Drive, RunTypeOK
  <2>2. queue' \in [Bridges -> Seq(Own)]
    BY <1>6, <2>1 DEF Drive, RunTypeOK
  <2> QED
    <3>1. CASE opened' = [opened EXCEPT ![b] = {}] /\ UNCHANGED <<run, current>>
      BY <1>6, <2>2, <3>1, DriveEffect DEF RunTypeOK
    <3>2. CASE UNCHANGED <<run, opened, current>>
      BY <1>6, <2>2, <3>2, DriveEffect DEF RunTypeOK
    <3>3. CASE /\ Head(queue[b]) \in opened[b] /\ opened' = opened
               /\ run' = [run EXCEPT ![b] = "insert"] /\ current' = [current EXCEPT ![b] = {Head(queue[b])}]
      <4>1. current' \in [Bridges -> SUBSET Own]
        BY <2>1, <3>3 DEF RunTypeOK
      <4>2. \A c \in Bridges : current'[c] \subseteq asked[c] /\ AtMostOne(current'[c])
        BY <3>3 DEF RunTypeOK, AtMostOne
      <4> QED
        BY <1>6, <2>2, <3>3, <4>1, <4>2, DriveEffect DEF RunTypeOK
    <3> QED
      BY <1>6, <3>1, <3>2, <3>3, DriveEffect
<1>7. ASSUME NEW b \in Bridges, AskOwner(b) PROVE RunTypeOK'
  BY <1>7 DEF AskOwner, RunTypeOK
<1>8. ASSUME NEW b \in Bridges, Resolve(b) PROVE RunTypeOK'
  BY <1>8 DEF Resolve, RunTypeOK, AtMostOne
<1>9. ASSUME NEW b \in Bridges, EndRun(b) PROVE RunTypeOK'
  BY <1>9 DEF EndRun, RunTypeOK, RunInv
<1>10. ASSUME NEW b \in Bridges, NEW o \in Own, Ask(b, o) PROVE RunTypeOK'
  BY <1>10 DEF Ask, RunTypeOK
<1>11. ASSUME NEW b \in Bridges, NEW o \in Own, Judge(b, o) PROVE RunTypeOK'
  BY <1>11 DEF Judge, RunTypeOK
<1> QED
  BY <1>1, <1>2, <1>3, <1>4, <1>5, <1>6, <1>7, <1>8, <1>9, <1>10, <1>11, Frames DEF RunStep

\* Every step keeps the types.
LEMMA TypeNext == TypeOK /\ RunInv /\ [Next]_vars => TypeOK'
BY LogType, LoopType, ForwardType, ChannelType, RunType DEF TypeOK

\* Every step keeps what a run carries.
LEMMA RunNext == TypeOK /\ RunInv /\ [Next]_vars => RunInv'
<1> SUFFICES ASSUME TypeOK, RunInv, [Next]_vars PROVE RunInv'
  OBVIOUS
<1> USE DEF TypeOK
<1>1. CASE UNCHANGED runVars
  BY <1>1 DEF runVars, RunInv
<1>2. ASSUME NEW b \in Bridges, OwnerCancels(b) PROVE RunInv'
  BY <1>2 DEF OwnerCancels, RunInv
<1>3. ASSUME NEW b \in Bridges, OwnerWrites(b) PROVE RunInv'
  BY <1>3 DEF OwnerWrites, RunInv, RunTypeOK
<1>4. ASSUME NEW b \in Bridges, Settle(b) PROVE RunInv'
  BY <1>4 DEF Settle, SettleFromChannel, WakeRun, RunInv, RunTypeOK
<1>5. ASSUME NEW b \in Bridges, Prepare(b) PROVE RunInv'
  BY <1>5 DEF Prepare, RunInv, RunTypeOK
<1>6. ASSUME NEW b \in Bridges, Drive(b) PROVE RunInv'
  <2>1. CASE UNCHANGED <<run, current>>
    BY <2>1 DEF RunInv
  <2>2. CASE /\ run' = [run EXCEPT ![b] = "insert"] /\ current' = [current EXCEPT ![b] = {Head(queue[b])}]
    BY <2>2 DEF RunInv, RunTypeOK
  <2> QED
    BY <1>6, <2>1, <2>2, DriveEffect
<1>7. ASSUME NEW b \in Bridges, AskOwner(b) PROVE RunInv'
  BY <1>7 DEF AskOwner, RunInv, RunTypeOK
<1>8. ASSUME NEW b \in Bridges, Resolve(b) PROVE RunInv'
  BY <1>8 DEF Resolve, RunInv, RunTypeOK
<1>9. ASSUME NEW b \in Bridges, EndRun(b) PROVE RunInv'
  BY <1>9 DEF EndRun, RunInv, RunTypeOK
<1>10. ASSUME NEW b \in Bridges, NEW o \in Own, Ask(b, o) \/ Judge(b, o) PROVE RunInv'
  BY <1>10 DEF Ask, Judge, RunInv
<1> QED
  BY <1>1, <1>2, <1>3, <1>4, <1>5, <1>6, <1>7, <1>8, <1>9, <1>10, Frames DEF RunStep

\* Every step keeps the order of the log.
LEMMA LogNext == LogTypeOK /\ LogInv /\ [Next]_vars => LogInv'
<1> SUFFICES ASSUME LogTypeOK, LogInv, [Next]_vars PROVE LogInv'
  OBVIOUS
<1>1. CASE UNCHANGED logVars
  BY <1>1 DEF logVars, LogInv, LogGates, LogOrder
<1>2. ASSUME NEW r \in Requests, SettleAtDesk(r) PROVE LogInv'
  BY <1>2 DEF SettleAtDesk, LogTypeOK, LogInv, LogGates, LogOrder
<1>3. ASSUME NEW r \in Requests, Request(r) \/ Announce(r) PROVE LogInv'
  <2> DEFINE n == Len(log) + 1
  <2>1. \E kind \in {"requested", "settled"} :
          /\ log' = Append(log, [kind |-> kind, id |-> r])
          /\ gate[r] = IF kind = "requested" THEN "none" ELSE "settled"
          /\ gate' = [gate EXCEPT ![r] = IF kind = "requested" THEN "open" ELSE "announced"]
    BY <1>3 DEF Request, Announce
  <2>2. /\ Len(log) \in Nat /\ DOMAIN log = 1 .. Len(log) /\ DOMAIN log' = 1 .. n
        /\ \A i \in DOMAIN log : log'[i] = log[i] /\ log[i].id \in Requests /\ log[i].kind \in {"requested", "settled"}
        /\ log'[n].id = r
    BY <2>1, LogFacts
  <2>3. \A i \in DOMAIN log : log[i].id = r => gate[r] # "none" /\ log[i].kind = "requested"
    BY <2>1, <2>2 DEF LogInv, LogGates, LogOrder
  <2>4. \A i \in DOMAIN log' : /\ gate'[log'[i].id] # "none"
                               /\ log'[i].kind = "settled" => gate'[log'[i].id] = "announced"
    BY <2>1, <2>2, <2>3 DEF LogInv, LogGates, LogOrder, LogTypeOK
  <2> HIDE DEF n
  <2>5. ASSUME NEW i \in DOMAIN log', NEW j \in DOMAIN log', log'[i].id = log'[j].id, log'[i].kind = "requested"
        PROVE  /\ log'[j].kind = "requested" => i = j
               /\ log'[j].kind = "settled" => i < j
    <3>1. CASE i # n /\ j # n
      BY <2>2, <2>5, <3>1 DEF LogInv, LogGates, LogOrder, n
    <3>2. CASE i # n /\ j = n
      BY <2>1, <2>2, <2>3, <2>5, <3>2 DEF LogTypeOK, n
    <3>3. CASE i = n
      BY <2>1, <2>2, <2>3, <2>5, <3>3 DEF LogTypeOK, n
    <3> QED
      BY <3>1, <3>2, <3>3
  <2>6. LogGates'
    BY <2>4 DEF LogGates
  <2>7. LogOrder'
    BY <2>5 DEF LogOrder
  <2> QED
    BY <2>6, <2>7 DEF LogInv
<1> QED
  BY <1>1, <1>2, <1>3, Frames DEF Desk

\* The log only grows, a new announcement is of a request the gate had not seen, and
\* the gate never goes back.
LogGrowth ==
  /\ Len(log') \in Nat /\ Len(log) <= Len(log')
  /\ DOMAIN log' = 1 .. Len(log')
  /\ \A i \in DOMAIN log : log'[i] = log[i]
  /\ \A i \in DOMAIN log' \ DOMAIN log : \A r \in Requests : log'[i] = Requested(r) => gate[r] = "none"
  /\ \A r \in Requests : /\ gate[r] # "none" => gate'[r] # "none"
                         /\ gate[r] = "announced" => gate'[r] = "announced"

\* Every step is of that form.
LEMMA LogGrows ==
  ASSUME LogTypeOK, [Next]_vars
  PROVE  LogGrowth
<1> USE DEF LogGrowth
<1>1. CASE UNCHANGED logVars
  BY <1>1, LogFacts DEF logVars
<1>2. ASSUME NEW r \in Requests, NEW to \in {"open", "settled", "announced"}, gate[r] # "announced",
             gate' = [gate EXCEPT ![r] = to]
      PROVE  \A q \in Requests : /\ gate[q] # "none" => gate'[q] # "none"
                                 /\ gate[q] = "announced" => gate'[q] = "announced"
  BY <1>2 DEF LogTypeOK
<1>3. ASSUME NEW r \in Requests, SettleAtDesk(r)
      PROVE  log' = log /\ gate[r] = "open" /\ gate' = [gate EXCEPT ![r] = "settled"]
  BY <1>3 DEF SettleAtDesk
<1>4. ASSUME NEW r \in Requests, Request(r)
      PROVE  /\ log' = Append(log, [kind |-> "requested", id |-> r])
             /\ gate[r] = "none" /\ gate' = [gate EXCEPT ![r] = "open"]
  BY <1>4 DEF Request
<1>5. ASSUME NEW r \in Requests, Announce(r)
      PROVE  /\ log' = Append(log, [kind |-> "settled", id |-> r])
             /\ gate[r] = "settled" /\ gate' = [gate EXCEPT ![r] = "announced"]
  BY <1>5 DEF Announce
<1>6. ASSUME NEW r \in Requests, SettleAtDesk(r) PROVE LogGrowth
  BY <1>2, <1>3, <1>6, LogFacts
<1>7. ASSUME NEW r \in Requests, Request(r) PROVE LogGrowth
  <2>1. /\ DOMAIN log' = 1 .. Len(log) + 1 /\ Len(log') = Len(log) + 1
        /\ \A i \in DOMAIN log : log'[i] = log[i]
        /\ log'[Len(log) + 1] = [kind |-> "requested", id |-> r]
    BY <1>4, <1>7, LogFacts
  <2>2. \A q \in Requests : log'[Len(log) + 1] = Requested(q) => gate[q] = "none"
    <3> SUFFICES ASSUME NEW q \in Requests, log'[Len(log) + 1] = Requested(q) PROVE gate[q] = "none"
      OBVIOUS
    <3>1. log'[Len(log) + 1].kind = "requested" /\ log'[Len(log) + 1].id = q
      BY DEF Requested
    <3> QED
      BY <1>4, <1>7, <2>1, <3>1
  <2> QED
    BY <1>2, <1>4, <1>7, <2>1, <2>2, LogFacts
<1>8. ASSUME NEW r \in Requests, Announce(r) PROVE LogGrowth
  <2>1. /\ DOMAIN log' = 1 .. Len(log) + 1 /\ Len(log') = Len(log) + 1
        /\ \A i \in DOMAIN log : log'[i] = log[i]
        /\ log'[Len(log) + 1] = [kind |-> "settled", id |-> r]
    BY <1>5, <1>8, LogFacts
  <2>2. \A q \in Requests : log'[Len(log) + 1] = Requested(q) => gate[q] = "none"
    <3> SUFFICES ASSUME NEW q \in Requests, log'[Len(log) + 1] = Requested(q) PROVE gate[q] = "none"
      OBVIOUS
    <3>1. log'[Len(log) + 1].kind = "requested" /\ log'[Len(log) + 1].id = q
      BY DEF Requested
    <3> QED
      BY <1>5, <1>8, <2>1, <3>1
  <2> QED
    BY <1>2, <1>5, <1>8, <2>1, <2>2, LogFacts
<1> QED
  BY <1>1, <1>6, <1>7, <1>8, Frames DEF Desk

\* A loop reads one event, going one place further.
Reads(l) ==
  /\ lpc[l] = "recv" /\ pos[l] <= Len(log) /\ GoesOn(l)
  /\ pos' = [pos EXCEPT ![l] = @ + 1] /\ UNCHANGED <<log, cancelled, job>>

\* The steps that read and do not forward are of that form.
LEMMA ReadersRead ==
  \A l \in Loops, r \in Requests : NoForward(l, r) \/ SettleLocally(l, r) => Reads(l)
BY DEF NoForward, SettleLocally, Receives, Reads, logVars

\* No loop overtakes the log.
LEMMA PosNext == TypeOK /\ PosInv /\ [Next]_vars => PosInv'
<1> SUFFICES ASSUME TypeOK, PosInv, [Next]_vars PROVE PosInv'
  OBVIOUS
<1>1. Len(log) \in Nat /\ Len(log') \in Nat /\ Len(log) <= Len(log') /\ LoopTypeOK
  BY LogFacts, LogGrows DEF LogGrowth, TypeOK
<1>2. CASE UNCHANGED <<loopVars, historyVars>>
  BY <1>1, <1>2 DEF loopVars, PosInv
<1>3. ASSUME NEW l \in Loops, Loop(l) PROVE PosInv'
  <2>1. CASE Subscribe(l) \/ Insert(l)
    BY <1>1, <2>1 DEF Subscribe, Insert, PosInv
  <2>2. CASE StartLoop(l)
    BY <1>1, <2>2 DEF StartLoop, PosInv, LoopTypeOK
  <2>3. CASE Reads(l)
    BY <1>1, <2>3 DEF Reads, PosInv, LoopTypeOK
  <2>4. CASE \E r \in Requests : Forward(l, r)
    BY <1>1, <2>4 DEF Forward, Receives, PosInv, LoopTypeOK
  <2> QED
    BY <1>3, <2>1, <2>2, <2>3, <2>4, ReadersRead DEF Loop
<1> QED
  BY <1>2, <1>3, Frames

\* A loop that opens cancels the ones before it.
LEMMA CancelNext == TypeOK /\ CancelInv /\ [Next]_vars => CancelInv'
<1> SUFFICES ASSUME TypeOK, CancelInv, [Next]_vars PROVE CancelInv'
  OBVIOUS
<1>1. LoopTypeOK
  BY DEF TypeOK
<1>2. CASE UNCHANGED <<loopVars, historyVars>>
  BY <1>1, <1>2 DEF loopVars, CancelInv
<1>3. ASSUME NEW l \in Loops, Loop(l) PROVE CancelInv'
  <2>1. CASE Subscribe(l)
    <3>1. lpc[l] = "none" /\ \A k \in Loops : k < l => lpc[k] # "none"
      BY <2>1 DEF Subscribe
    <3>2. \A k \in Loops : l < k => lpc[k] = "none"
      BY <1>1, <3>1 DEF CancelInv
    <3>3. lpc' = [lpc EXCEPT ![l] = "opening"] /\ cancelled' = 1 .. l - 1
      BY <2>1 DEF Subscribe
    <3> QED
      BY <1>1, <3>1, <3>2, <3>3, BridgeAssumption DEF CancelInv, LoopTypeOK, Loops
  <2>2. ASSUME NEW to \in {"recv", "insert", "ended"}, lpc[l] # "none", lpc' = [lpc EXCEPT ![l] = to], cancelled' = cancelled
        PROVE  CancelInv'
    BY <1>1, <2>2 DEF CancelInv, LoopTypeOK
  <2>3. CASE StartLoop(l)
    BY <2>2, <2>3 DEF StartLoop
  <2>4. CASE Reads(l) \/ Insert(l)
    BY <2>2, <2>4 DEF Reads, Insert, GoesOn
  <2>5. CASE \E r \in Requests : Forward(l, r)
    BY <2>2, <2>5 DEF Forward, Receives
  <2> QED
    BY <1>3, <2>1, <2>3, <2>4, <2>5, ReadersRead DEF Loop
<1> QED
  BY <1>2, <1>3, Frames

\* The order of the loops in the log is kept: only cancelled loops fall behind a newer
\* one.
LEMMA PaceNext == TypeOK /\ PosInv /\ CancelInv /\ PaceInv /\ [Next]_vars => PaceInv'
<1> SUFFICES ASSUME TypeOK, PosInv, CancelInv, PaceInv, [Next]_vars PROVE PaceInv'
  OBVIOUS
<1>1. LoopTypeOK /\ Len(log) \in Nat
  BY LogFacts DEF TypeOK
<1>2. CASE UNCHANGED <<loopVars, historyVars>>
  BY <1>1, <1>2 DEF loopVars, PaceInv
<1>3. ASSUME NEW l \in Loops, Loop(l) PROVE PaceInv'
  <2>1. CASE Subscribe(l)
    <3>1. lpc' = [lpc EXCEPT ![l] = "opening"] /\ pos' = pos
      BY <2>1 DEF Subscribe
    <3> QED
      BY <1>1, <3>1 DEF PaceInv, LoopTypeOK
  <2>2. CASE StartLoop(l)
    <3>1. /\ lpc[l] = "opening" /\ pos' = [pos EXCEPT ![l] = Len(log) + 1]
          /\ lpc' = [lpc EXCEPT ![l] = IF l \in cancelled THEN "ended" ELSE "recv"]
      BY <2>2 DEF StartLoop
    <3>2. \A k \in Loops : pos[k] <= Len(log) + 1 /\ pos[k] \in Nat
      BY <1>1 DEF PosInv
    <3>3. \A k \in Loops : l < k /\ lpc[k] # "none" => lpc'[l] # "recv"
      BY <1>1, <3>1 DEF CancelInv, LoopTypeOK
    <3> QED
      BY <1>1, <3>1, <3>2, <3>3 DEF PaceInv, LoopTypeOK
  <2>3. ASSUME NEW to \in {"recv", "insert", "ended"}, lpc[l] \in {"recv", "insert"}, to = "recv" => l \notin cancelled,
               lpc' = [lpc EXCEPT ![l] = to],
               \/ lpc[l] = "recv" /\ pos' = [pos EXCEPT ![l] = @ + 1]
               \/ lpc[l] = "insert" /\ to # "insert" /\ pos' = pos
        PROVE  PaceInv'
    <3> SUFFICES ASSUME NEW h \in Loops, NEW k \in Loops, h < k, lpc'[h] = "recv"
                 PROVE  /\ lpc'[k] = "recv" => pos'[h] <= pos'[k]
                        /\ lpc'[k] = "insert" => pos'[h] < pos'[k]
      BY DEF PaceInv
    <3>1. pos[h] \in Nat /\ pos[k] \in Nat
      BY <1>1 DEF LoopTypeOK
    <3>2. CASE h = l
      <4>1. h \notin cancelled
        BY <1>1, <2>3, <3>2 DEF LoopTypeOK
      <4>2. lpc[k] = "none" /\ lpc'[k] = "none"
        BY <1>1, <2>3, <3>2, <4>1 DEF CancelInv, LoopTypeOK, Loops
      <4> QED
        BY <4>2
    <3>3. CASE h # l
      <4>1. lpc[h] = "recv" /\ pos'[h] = pos[h]
        BY <1>1, <2>3, <3>3 DEF LoopTypeOK
      <4>2. CASE k # l
        BY <1>1, <2>3, <4>1, <4>2 DEF PaceInv, LoopTypeOK
      <4>3. CASE k = l
        <5>1. lpc[l] = "recv" => pos[h] <= pos[k] /\ pos'[k] = pos[k] + 1
          BY <1>1, <2>3, <4>1, <4>3 DEF PaceInv, LoopTypeOK
        <5>2. lpc[l] = "insert" => pos[h] < pos[k] /\ pos'[k] = pos[k]
          BY <1>1, <2>3, <4>1, <4>3 DEF PaceInv, LoopTypeOK
        <5> QED
          BY <2>3, <3>1, <4>1, <5>1, <5>2
      <4> QED
        BY <4>2, <4>3
    <3> QED
      BY <3>2, <3>3
  <2>4. CASE Reads(l)
    BY <2>3, <2>4 DEF Reads, GoesOn
  <2>5. CASE Insert(l)
    BY <2>3, <2>5 DEF Insert, GoesOn
  <2>6. CASE \E r \in Requests : Forward(l, r)
    BY <2>3, <2>6 DEF Forward, Receives
  <2> QED
    BY <1>3, <2>1, <2>2, <2>4, <2>5, <2>6, ReadersRead DEF Loop
<1> QED
  BY <1>2, <1>3, Frames

\* A loop carries the request it read until it has put it down.
LEMMA JobNext == TypeOK /\ PosInv /\ JobInv /\ [Next]_vars => JobInv'
<1> SUFFICES ASSUME TypeOK, PosInv, JobInv, [Next]_vars PROVE JobInv'
  OBVIOUS
<1>1. LoopTypeOK /\ LogTypeOK
  BY DEF TypeOK
<1>2. \A l \in Loops : pos[l] > 1 => log'[pos[l] - 1] = log[pos[l] - 1]
  BY <1>1, LogFacts, LogGrows DEF PosInv, LogGrowth
<1>3. CASE UNCHANGED <<loopVars, historyVars>>
  BY <1>2, <1>3 DEF loopVars, JobInv
<1>4. ASSUME NEW l \in Loops, Loop(l) PROVE JobInv'
  <2>1. CASE Subscribe(l) \/ StartLoop(l) \/ Reads(l)
    <3>1. /\ lpc[l] # "insert" /\ job' = job
          /\ \A k \in Loops : k # l => pos'[k] = pos[k] /\ lpc'[k] = lpc[k]
      BY <1>1, <2>1 DEF Subscribe, StartLoop, Reads, GoesOn, LoopTypeOK
    <3> QED
      BY <1>2, <3>1 DEF JobInv
  <2>2. CASE Insert(l)
    <3>1. /\ pos' = pos /\ job' = [job EXCEPT ![l] = {}]
          /\ \A k \in Loops : k # l => lpc'[k] = lpc[k]
      BY <1>1, <2>2 DEF Insert, GoesOn, LoopTypeOK
    <3> QED
      BY <1>1, <1>2, <3>1 DEF JobInv, LoopTypeOK
  <2>3. ASSUME NEW r \in Requests, Forward(l, r) PROVE JobInv'
    <3>1. /\ pos' = [pos EXCEPT ![l] = @ + 1] /\ lpc' = [lpc EXCEPT ![l] = "insert"]
          /\ log[pos[l]] = Requested(r) /\ log' = log /\ pos[l] <= Len(log)
          /\ \E j : j.entry.id = r /\ job' = [job EXCEPT ![l] = {j}]
      BY <2>3 DEF Forward, Receives, Requested, logVars
    <3>2. pos[l] \in Nat /\ pos[l] >= 1
      BY <1>1, LogFacts DEF PosInv
    <3> QED
      BY <1>1, <3>1, <3>2 DEF JobInv, LoopTypeOK
  <2> QED
    BY <1>4, <2>1, <2>2, <2>3, ReadersRead DEF Loop
<1> QED
  BY <1>3, <1>4, Frames

\* Every step keeps the invariant of the loops.
LEMMA LoopNext == TypeOK /\ LoopInv /\ [Next]_vars => LoopInv'
BY PosNext, CancelNext, PaceNext, JobNext DEF LoopInv

\* Once a request is behind every loop it stays so: its announcement is in the log, and
\* a new loop starts at the end.
LEMMA PassedStays ==
  ASSUME TypeOK, PosInv, CancelInv, [Next]_vars, NEW r \in Requests, Passed(r), gate[r] # "none"
  PROVE  Passed(r)'
<1>1. LoopTypeOK /\ LogTypeOK
  BY DEF TypeOK
<1> SUFFICES ASSUME NEW k \in Loops \ cancelled', lpc'[k] \in {"recv", "insert"}, NEW i \in DOMAIN log', i >= pos'[k],
                    log'[i] = Requested(r)
             PROVE  FALSE
  BY DEF Passed, Ahead
<1>2. i \in DOMAIN log /\ log[i] = Requested(r) /\ i \in Nat
  BY <1>1, LogFacts, LogGrows DEF LogGrowth
<1>3. CASE UNCHANGED <<loopVars, historyVars>>
  BY <1>2, <1>3 DEF loopVars, Passed, Ahead
<1>4. ASSUME NEW l \in Loops, Loop(l) PROVE FALSE
  <2>1. CASE StartLoop(l) /\ l = k
    <3>1. pos'[k] = Len(log) + 1
      BY <1>1, <2>1 DEF StartLoop, LoopTypeOK
    <3> QED
      BY <1>1, <1>2, <3>1, LogFacts
  <2>2. CASE ~ (StartLoop(l) /\ l = k)
    <3>1. pos[k] \in Nat /\ pos'[k] >= pos[k] /\ pos'[k] \in Nat /\ lpc[k] \in {"recv", "insert"}
      <4>1. CASE Subscribe(l)
        BY <1>1, <4>1 DEF Subscribe, LoopTypeOK
      <4>2. CASE StartLoop(l)
        BY <1>1, <2>2, <4>2 DEF StartLoop, LoopTypeOK
      <4>3. CASE Reads(l)
        BY <1>1, <4>3 DEF Reads, GoesOn, LoopTypeOK
      <4>4. CASE Insert(l)
        BY <1>1, <4>4 DEF Insert, GoesOn, LoopTypeOK
      <4>5. CASE \E q \in Requests : Forward(l, q)
        BY <1>1, <4>5 DEF Forward, Receives, LoopTypeOK
      <4> QED
        BY <1>4, <4>1, <4>2, <4>3, <4>4, <4>5, ReadersRead DEF Loop
    <3>2. k \notin cancelled
      <4>1. CASE Subscribe(l)
        <5>1. lpc[l] = "none" /\ cancelled' = 1 .. l - 1
          BY <4>1 DEF Subscribe
        <5>2. \A c \in cancelled : lpc[c] # "none" /\ c \in Loops
          BY <1>1 DEF CancelInv, LoopTypeOK
        <5>3. \A c \in cancelled : c < l
          BY <5>1, <5>2, BridgeAssumption DEF CancelInv, Loops
        <5> QED
          BY <5>1, <5>2, <5>3, BridgeAssumption DEF Loops
      <4>2. CASE ~ Subscribe(l)
        BY <1>4, <4>2 DEF Loop, StartLoop, Insert, Forward, NoForward, SettleLocally
      <4> QED
        BY <4>1, <4>2
    <3> QED
      BY <1>2, <3>1, <3>2 DEF Passed, Ahead
  <2> QED
    BY <2>1, <2>2
<1> QED
  BY <1>3, <1>4, Frames

\* Markers are never removed nor given to another request.
LEMMA MarkersKept ==
  ASSUME TypeOK, [Next]_vars
  PROVE  /\ DOMAIN markers \subseteq DOMAIN markers'
         /\ \A m \in DOMAIN markers : markers'[m].id = markers[m].id
         /\ strayed \subseteq strayed'
<1>1. ForwardTypeOK /\ LoopTypeOK
  BY DEF TypeOK
<1>2. strayed \subseteq strayed'
  <2>1. CASE UNCHANGED <<loopVars, historyVars>>
    BY <2>1 DEF historyVars
  <2>2. ASSUME NEW l \in Loops, Loop(l) PROVE strayed \subseteq strayed'
    BY <2>2 DEF Loop, Subscribe, StartLoop, Insert, Forward, NoForward, SettleLocally, historyVars
  <2> QED
    BY <2>1, <2>2, Frames
<1>3. CASE UNCHANGED forwardVars
  BY <1>2, <1>3 DEF forwardVars
<1>4. ASSUME NEW m, NEW how \in {"channel", "local"}, markers' \in {markers, SettleMarker(m, how)}
      PROVE  DOMAIN markers \subseteq DOMAIN markers' /\ \A n \in DOMAIN markers : markers'[n].id = markers[n].id
  <2>1. DOMAIN SettleMarker(m, how) = DOMAIN markers
    BY DEF SettleMarker
  <2> QED
    BY <1>1, <1>4, <2>1, SettledMarkers
<1>5. ASSUME NEW l \in Loops, NEW r \in Requests, SettleLocally(l, r)
      PROVE  DOMAIN markers \subseteq DOMAIN markers' /\ \A n \in DOMAIN markers : markers'[n].id = markers[n].id
  BY <1>4, <1>5 DEF SettleLocally, forwardVars
<1>6. ASSUME NEW l \in Loops, NEW r \in Requests, Forward(l, r)
      PROVE  DOMAIN markers \subseteq DOMAIN markers' /\ \A n \in DOMAIN markers : markers'[n].id = markers[n].id
  <2>1. /\ Len(markers) \in Nat /\ DOMAIN markers = 1 .. Len(markers)
        /\ DOMAIN markers' = 1 .. Len(markers) + 1 /\ \A k \in DOMAIN markers : markers'[k] = markers[k]
    BY <1>6, Forwarded
  <2> QED
    BY <2>1
<1>7. ASSUME NEW b \in Bridges, Settle(b)
      PROVE  DOMAIN markers \subseteq DOMAIN markers' /\ \A n \in DOMAIN markers : markers'[n].id = markers[n].id
  BY <1>4, <1>7 DEF Settle, SettleFromChannel, WakeRun, forwardVars
<1> QED
  BY <1>2, <1>3, <1>5, <1>6, <1>7, Frames

\* Every step keeps entries and markers together.
LEMMA EntryNext == TypeOK /\ EntryInv /\ [Next]_vars => EntryInv'
<1> SUFFICES ASSUME TypeOK, EntryInv, [Next]_vars PROVE EntryInv'
  OBVIOUS
<1>1. LoopTypeOK /\ ForwardTypeOK /\ ChannelTypeOK /\ RunTypeOK
  BY DEF TypeOK
<1>2. \A e : Tracked(e) => Tracked(e)'
  BY MarkersKept DEF Tracked
<1>3. \A b \in Bridges : \A e \in table'[b] \cup hand'[b] : Tracked(e)'
  <2>1. CASE UNCHANGED channelVars
    BY <1>2, <2>1 DEF channelVars, EntryInv
  <2>2. ASSUME NEW b \in Bridges, NEW e, Tracked(e), hand' = hand, table' = [table EXCEPT ![b] = Put(@, e)]
        PROVE  \A c \in Bridges : \A x \in table'[c] \cup hand'[c] : Tracked(x)'
    BY <1>1, <1>2, <2>2 DEF EntryInv, Put, ChannelTypeOK
  <2>3. ASSUME NEW l \in Loops, Insert(l)
        PROVE  \A c \in Bridges : \A x \in table'[c] \cup hand'[c] : Tracked(x)'
    <3>1. PICK j \in job[l] : table' = [table EXCEPT ![j.bridge] = Put(@, j.entry)]
      BY <2>3 DEF Insert
    <3>2. j.bridge \in Bridges /\ Tracked(j.entry) /\ hand' = hand
      BY <1>1, <2>3 DEF LoopTypeOK, EntryInv, Insert
    <3> QED
      BY <2>2, <3>1, <3>2
  <2>4. ASSUME NEW b \in Bridges, AskOwner(b)
        PROVE  \A c \in Bridges : \A x \in table'[c] \cup hand'[c] : Tracked(x)'
    <3>1. PICK o \in current[b] : table' = [table EXCEPT ![b] = Put(@, [id |-> o, marker |-> 0])]
      BY <2>4 DEF AskOwner
    <3>2. Tracked([id |-> o, marker |-> 0]) /\ hand' = hand
      BY <1>1, <2>4, BridgeAssumption DEF RunTypeOK, Tracked, AskOwner
    <3> QED
      BY <2>2, <3>1, <3>2
  <2>5. ASSUME \A b \in Bridges : table'[b] \cup hand'[b] \subseteq table[b] \cup hand[b]
        PROVE  \A c \in Bridges : \A x \in table'[c] \cup hand'[c] : Tracked(x)'
    BY <1>2, <2>5 DEF EntryInv
  <2>6. ASSUME NEW l \in Loops, NEW r \in Requests, SettleLocally(l, r)
        PROVE  \A b \in Bridges : table'[b] \cup hand'[b] \subseteq table[b] \cup hand[b]
    BY <1>1, <2>6 DEF SettleLocally, ChannelTypeOK
  <2>7. ASSUME NEW b \in Bridges, Owner(b)
        PROVE  \A c \in Bridges : table'[c] \cup hand'[c] \subseteq table[c] \cup hand[c]
    BY <1>1, <2>7 DEF Owner, OwnerAnswers, OwnerCancels, OwnerWrites, Answerable, ChannelTypeOK
  <2>8. ASSUME NEW b \in Bridges, Settle(b)
        PROVE  \A c \in Bridges : table'[c] \cup hand'[c] \subseteq table[c] \cup hand[c]
    BY <1>1, <2>8 DEF Settle, ChannelTypeOK
  <2>9. ASSUME StartChannel \/ StopChannel
        PROVE  \A c \in Bridges : table'[c] \cup hand'[c] \subseteq table[c] \cup hand[c]
    BY <2>9 DEF StartChannel, StopChannel
  <2> QED
    BY <2>1, <2>3, <2>4, <2>5, <2>6, <2>7, <2>8, <2>9, Frames
<1>4. \A l \in Loops : \A j \in job'[l] : Tracked(j.entry)'
  <2>1. ASSUME \A l \in Loops : job'[l] \subseteq job[l]
        PROVE  \A l \in Loops : \A j \in job'[l] : Tracked(j.entry)'
    BY <1>2, <2>1 DEF EntryInv
  <2>2. CASE UNCHANGED <<loopVars, historyVars>>
    BY <2>1, <2>2 DEF loopVars
  <2>3. ASSUME NEW l \in Loops, Loop(l), ~ \E r \in Requests : Forward(l, r)
        PROVE  \A k \in Loops : job'[k] \subseteq job[k]
    BY <1>1, <2>3 DEF Loop, Subscribe, StartLoop, Insert, NoForward, SettleLocally, LoopTypeOK
  <2>4. ASSUME NEW l \in Loops, NEW r \in Requests, Forward(l, r)
        PROVE  \A k \in Loops : \A j \in job'[k] : Tracked(j.entry)'
    <3>1. /\ Len(markers) + 1 \in DOMAIN markers' /\ markers'[Len(markers) + 1].id = r
          /\ job' = [job EXCEPT ![l] = {[entry |-> [id |-> r, marker |-> Len(markers) + 1], bridge |-> bridge]}]
      <4>1. Len(markers) \in Nat /\ DOMAIN markers' = 1 .. Len(markers) + 1
            /\ markers'[Len(markers) + 1] = [id |-> r, status |-> "pending", times |-> 0]
        BY <2>4, Forwarded
      <4> QED
        BY <2>4, <4>1 DEF Forward
    <3>2. \A j \in job'[l] : Tracked(j.entry)'
      BY <1>1, <3>1 DEF Tracked, LoopTypeOK
    <3>3. \A k \in Loops : k # l => job'[k] = job[k]
      BY <1>1, <3>1 DEF LoopTypeOK
    <3> QED
      BY <1>2, <3>2, <3>3 DEF EntryInv
  <2> QED
    BY <2>1, <2>2, <2>3, <2>4, Frames
<1> QED
  BY <1>3, <1>4 DEF EntryInv

\* A new bridge begins empty, and an old one is never made again.
LEMMA BridgeNext == TypeOK /\ BridgeInv /\ [Next]_vars => BridgeInv'
<1> SUFFICES ASSUME TypeOK, BridgeInv, [Next]_vars PROVE BridgeInv'
  OBVIOUS
<1>1. LoopTypeOK /\ ChannelTypeOK /\ RunTypeOK
  BY DEF TypeOK
<1>2. bridge' <= born' /\ born' >= born /\ born \in Nat /\ born' \in Nat
  <2>1. CASE bridge' = bridge /\ born' = born
    BY <1>1, <2>1, BridgeAssumption DEF BridgeInv, ChannelTypeOK
  <2>2. CASE StartChannel \/ StopChannel
    BY <1>1, <2>2, BridgeAssumption DEF StartChannel, StopChannel, BridgeInv, ChannelTypeOK
  <2>3. (bridge' = bridge /\ born' = born) \/ StartChannel \/ StopChannel
    BY Frames DEF channelVars, Owner, OwnerAnswers, OwnerCancels, OwnerWrites, Settle, AskOwner, Insert, SettleLocally
  <2> QED
    BY <2>1, <2>2, <2>3
<1>3. \A l \in Loops : \A j \in job'[l] : j.bridge <= born
  <2>1. CASE UNCHANGED <<loopVars, historyVars>>
    BY <2>1 DEF BridgeInv, loopVars
  <2>2. ASSUME NEW l \in Loops, Loop(l), ~ \E r \in Requests : Forward(l, r)
        PROVE  \A k \in Loops : job'[k] \subseteq job[k]
    BY <1>1, <2>2 DEF Loop, Subscribe, StartLoop, Insert, NoForward, SettleLocally, LoopTypeOK
  <2>3. ASSUME NEW l \in Loops, NEW r \in Requests, Forward(l, r)
        PROVE  \A k \in Loops : \A j \in job'[k] : j.bridge <= born
    BY <1>1, <2>3 DEF Forward, LoopTypeOK, BridgeInv
  <2> QED
    BY <2>1, <2>2, <2>3, Frames DEF BridgeInv
<1>4. ASSUME NEW b \in Bridges, b > born PROVE table'[b] = {} /\ hand'[b] = {} /\ run'[b] = "off"
  <2>1. table[b] = {} /\ hand[b] = {} /\ run[b] = "off" /\ b # bridge
    BY <1>1, <1>2, <1>4 DEF BridgeInv, ChannelTypeOK, Bridges
  <2>2. table'[b] = {} /\ hand'[b] = {}
    <3>1. CASE UNCHANGED channelVars
      BY <2>1, <3>1 DEF channelVars
    <3>2. ASSUME NEW l \in Loops, Insert(l) PROVE table'[b] = {} /\ hand'[b] = {}
      <4>1. PICK j \in job[l] : table' = [table EXCEPT ![j.bridge] = Put(@, j.entry)]
        BY <3>2 DEF Insert
      <4>2. j.bridge # b /\ hand' = hand
        BY <1>1, <1>2, <1>4, <3>2 DEF BridgeInv, LoopTypeOK, Insert, Bridges
      <4> QED
        BY <1>1, <2>1, <4>1, <4>2 DEF ChannelTypeOK
    <3>3. ASSUME NEW l \in Loops, NEW r \in Requests, SettleLocally(l, r) PROVE table'[b] = {} /\ hand'[b] = {}
      BY <1>1, <2>1, <3>3 DEF SettleLocally, ChannelTypeOK
    <3>4. ASSUME NEW c \in Bridges, Owner(c) \/ Settle(c) \/ AskOwner(c) PROVE table'[b] = {} /\ hand'[b] = {}
      <4>1. CASE OwnerAnswers(c)
        BY <1>1, <2>1, <4>1 DEF OwnerAnswers, Takes, ChannelTypeOK
      <4>2. CASE OwnerCancels(c) \/ OwnerWrites(c)
        BY <2>1, <4>2 DEF OwnerCancels, OwnerWrites
      <4>3. CASE Settle(c)
        BY <1>1, <2>1, <4>3 DEF Settle, ChannelTypeOK
      <4>4. CASE AskOwner(c)
        <5>1. c # b
          BY <2>1, <4>4 DEF AskOwner
        <5> QED
          BY <1>1, <2>1, <4>4, <5>1 DEF AskOwner, ChannelTypeOK
      <4> QED
        BY <3>4, <4>1, <4>2, <4>3, <4>4 DEF Owner
    <3>5. CASE StartChannel \/ StopChannel
      BY <2>1, <3>5 DEF StartChannel, StopChannel
    <3> QED
      BY <3>1, <3>2, <3>3, <3>4, <3>5, Frames
  <2>3. run'[b] = "off"
    <3>1. CASE UNCHANGED runVars
      BY <2>1, <3>1 DEF runVars
    <3>2. ASSUME NEW c \in Bridges, OwnerCancels(c) \/ OwnerWrites(c) PROVE run'[b] = "off"
      BY <1>1, <2>1, <3>2 DEF OwnerCancels, OwnerWrites, Takes, RunTypeOK
    <3>3. ASSUME NEW c \in Bridges, Settle(c) PROVE run'[b] = "off"
      BY <1>1, <2>1, <3>3 DEF Settle, SettleFromChannel, WakeRun, RunTypeOK
    <3>4. ASSUME NEW c \in Bridges, RunStep(c) PROVE run'[b] = "off"
      BY <1>1, <2>1, <3>4, DriveEffect DEF RunStep, Prepare, AskOwner, Resolve, EndRun, Ask, Judge, RunTypeOK
    <3> QED
      BY <3>1, <3>2, <3>3, <3>4, Frames
  <2> QED
    BY <2>2, <2>3
<1> QED
  <2>1. \A b \in Bridges : b > born' => b > born
    BY <1>2 DEF Bridges
  <2>2. \A b \in Bridges : b > born' => table'[b] = {} /\ hand'[b] = {} /\ run'[b] = "off"
    BY <1>4, <2>1
  <2>3. \A l \in Loops : \A j \in job'[l] : j.bridge <= born'
    <3> SUFFICES ASSUME NEW l \in Loops, NEW j \in job'[l] PROVE j.bridge <= born'
      OBVIOUS
    <3>1. j.bridge \in Nat
      BY LoopType DEF LoopTypeOK, Bridges
    <3> QED
      BY <1>2, <1>3, <3>1
  <2> QED
    BY <1>2, <2>2, <2>3 DEF BridgeInv

\* A cancelled loop stays cancelled.
LEMMA CancelledStay ==
  ASSUME TypeOK, CancelInv, [Next]_vars
  PROVE  cancelled \subseteq cancelled'
<1>1. LoopTypeOK
  BY DEF TypeOK
<1>2. CASE UNCHANGED <<loopVars, historyVars>>
  BY <1>2 DEF loopVars
<1>3. ASSUME NEW l \in Loops, Subscribe(l) PROVE cancelled \subseteq cancelled'
  <2>1. lpc[l] = "none" /\ cancelled' = 1 .. l - 1
    BY <1>3 DEF Subscribe
  <2>2. \A c \in cancelled : lpc[c] # "none" /\ c \in Loops
    BY <1>1 DEF CancelInv, LoopTypeOK
  <2>3. \A c \in cancelled : c < l
    BY <2>1, <2>2, BridgeAssumption DEF CancelInv, Loops
  <2> QED
    BY <2>1, <2>2, <2>3, BridgeAssumption DEF Loops
<1>4. ASSUME NEW l \in Loops, Loop(l), ~ Subscribe(l) PROVE cancelled \subseteq cancelled'
  BY <1>4 DEF Loop, StartLoop, Insert, Forward, NoForward, SettleLocally
<1> QED
  BY <1>2, <1>3, <1>4, Frames

\* A loop that forwards without being cancelled does so for a request that was ahead of
\* it and is then behind every loop.
LEMMA ForwardFresh ==
  ASSUME TypeOK, LogInv, LoopInv, NEW l \in Loops, NEW q \in Requests, Forward(l, q), q \notin strayed'
  PROVE  l \notin cancelled /\ ~ Passed(q) /\ gate'[q] # "none" /\ Passed(q)'
<1>1. /\ lpc[l] = "recv" /\ pos[l] <= Len(log) /\ log[pos[l]] = Requested(q) /\ pos' = [pos EXCEPT ![l] = @ + 1]
      /\ lpc' = [lpc EXCEPT ![l] = "insert"] /\ UNCHANGED <<gate, log, cancelled>>
      /\ strayed' = IF l \in cancelled THEN strayed \cup {q} ELSE strayed
  BY DEF Forward, Receives, Requested, logVars
<1>2. l \notin cancelled
  BY <1>1
<1>3. LoopTypeOK /\ LogTypeOK /\ pos[l] \in DOMAIN log /\ pos[l] \in Nat
  BY <1>1, LogFacts DEF TypeOK, LoopTypeOK, LoopInv, PosInv
<1>4. ~ Passed(q)
  BY <1>1, <1>2, <1>3 DEF Passed, Ahead
<1>5. gate[q] # "none"
  BY <1>1, <1>3 DEF LogInv, LogGates, Requested
<1>6. Passed(q)'
  <2> SUFFICES ASSUME NEW k \in Loops \ cancelled', lpc'[k] \in {"recv", "insert"}, NEW i \in DOMAIN log', i >= pos'[k],
                      log'[i] = Requested(q)
               PROVE  FALSE
    BY DEF Passed, Ahead
  <2>1. CASE k = l
    <3>1. i = pos[l]
      BY <1>1, <1>3 DEF LogInv, LogOrder, Requested
    <3> QED
      BY <1>1, <1>3, <2>1, <3>1 DEF LoopTypeOK
  <2>2. CASE k # l
    <3>1. lpc[k] # "none"
      BY <1>1, <1>3, <2>2 DEF LoopTypeOK
    <3> QED
      BY <1>1, <1>2, <2>2, <3>1 DEF LoopInv, CancelInv, Loops
  <2> QED
    BY <2>1, <2>2
<1> QED
  BY <1>1, <1>2, <1>4, <1>5, <1>6

\* What a settlement of request q does to the markers: if one is in flight it is
\* settled, and nothing is in flight for q any more. Only for a strayed request may the
\* settled marker k be another of its markers.
SettlesMarker(q, k, how) ==
  /\ inflight' = [inflight EXCEPT ![q] = 0]
  /\ inflight[q] = 0 => markers' = markers
  /\ inflight[q] # 0 => markers' = SettleMarker(k, how) /\ k \in Of(q)
  /\ inflight[q] # 0 /\ q \notin strayed => k = inflight[q]

\* Every step on the markers but forwarding is such a settlement.
LEMMA SettlesOne ==
  ASSUME TypeOK, EntryInv, MarkerInv, [Next]_vars, ~ UNCHANGED forwardVars,
         ~ \E l \in Loops, r \in Requests : Forward(l, r)
  PROVE  \E q \in Requests, k \in Nat, how \in {"channel", "local"} : SettlesMarker(q, k, how)
<1>1. ASSUME NEW l \in Loops, NEW r \in Requests, SettleLocally(l, r)
      PROVE  SettlesMarker(r, inflight[r], "local")
  BY <1>1 DEF SettleLocally, MarkerInv, SettlesMarker
<1>2. ASSUME NEW b \in Bridges, Settle(b)
      PROVE  \E e \in hand[b] : e.id \in Requests /\ SettlesMarker(e.id, e.marker, "channel")
  <2>1. PICK e \in hand[b] : SettleFromChannel(e)
    BY <1>2 DEF Settle, WakeRun
  <2>2. e.id \in Requests /\ e.marker \in Of(e.id)
    BY <2>1 DEF SettleFromChannel, EntryInv, Tracked, Of
  <2>3. inflight[e.id] # 0 /\ e.id \notin strayed => e.marker = inflight[e.id]
    <3> SUFFICES ASSUME inflight[e.id] # 0, e.id \notin strayed PROVE e.marker = inflight[e.id]
      OBVIOUS
    <3>1. inflight[e.id] \in Of(e.id) /\ Of(e.id) = {e.marker}
      BY <2>2 DEF MarkerInv
    <3> QED
      BY <3>1
  <2> QED
    BY <2>1, <2>2, <2>3 DEF SettleFromChannel, SettlesMarker
<1>3. CASE \E l \in Loops, r \in Requests : SettleLocally(l, r)
  BY <1>1, <1>3 DEF TypeOK, ForwardTypeOK
<1>4. CASE \E b \in Bridges : Settle(b)
  <2>1. PICK b \in Bridges : Settle(b)
    BY <1>4
  <2>2. PICK e \in hand[b] : e.id \in Requests /\ SettlesMarker(e.id, e.marker, "channel")
    BY <1>2, <2>1
  <2>3. e.marker \in Nat
    BY <2>1 DEF TypeOK, ChannelTypeOK, Entry
  <2> QED
    BY <2>2, <2>3
<1> QED
  BY <1>3, <1>4, Frames

\* A request keeps its one marker, and that is settled once.
LEMMA MarkerNext == TypeOK /\ LogInv /\ LoopInv /\ EntryInv /\ MarkerInv /\ [Next]_vars => MarkerInv'
<1> SUFFICES ASSUME TypeOK, LogInv, LoopInv, EntryInv, MarkerInv, [Next]_vars PROVE MarkerInv'
  OBVIOUS
<1>1. ForwardTypeOK /\ strayed \subseteq strayed' /\ DOMAIN markers = 1 .. Len(markers) /\ Len(markers) \in Nat
  BY MarkersKept, SeqFacts DEF TypeOK, ForwardTypeOK
<1>2. \A r \in Requests : gate[r] # "none" /\ Passed(r) => gate'[r] # "none" /\ Passed(r)'
  BY PassedStays, LogGrows DEF LoopInv, TypeOK, LogGrowth
<1>3. CASE UNCHANGED forwardVars
  <2>1. markers' = markers /\ inflight' = inflight /\ \A r \in Requests : Of(r)' = Of(r)
    BY <1>3 DEF forwardVars, Of
  <2> QED
    BY <1>1, <1>2, <2>1 DEF MarkerInv
<1>4. ASSUME NEW l \in Loops, NEW q \in Requests, Forward(l, q) PROVE MarkerInv'
  <2>1. /\ inflight' = [inflight EXCEPT ![q] = Len(markers) + 1]
        /\ DOMAIN markers' = 1 .. Len(markers) + 1
        /\ \A k \in DOMAIN markers : markers'[k] = markers[k]
        /\ markers'[Len(markers) + 1] = [id |-> q, status |-> "pending", times |-> 0]
    BY <1>4, Forwarded
  <2>2. Of(q)' = Of(q) \cup {Len(markers) + 1} /\ \A r \in Requests : r # q => Of(r)' = Of(r)
    BY <1>1, <2>1 DEF Of
  <2>3. ASSUME NEW r \in Requests, r # q
        PROVE  /\ inflight'[r] # 0 =>
                    inflight'[r] \in Of(r)' /\ (r \notin strayed' => markers'[inflight'[r]].times = 0 /\ markers'[inflight'[r]].status = "pending")
               /\ r \notin strayed' => \A m \in Of(r)' :
                    /\ gate'[r] # "none" /\ Passed(r)'
                    /\ markers'[m].times <= 1
                    /\ markers'[m].status = "pending" => inflight'[r] = m
                    /\ Of(r)' = {m}
    <3>1. inflight'[r] = inflight[r] /\ Of(r)' = Of(r) /\ \A m \in Of(r) : markers'[m] = markers[m]
      BY <1>1, <2>1, <2>2, <2>3 DEF ForwardTypeOK, Of
    <3> QED
      BY <1>1, <1>2, <3>1 DEF MarkerInv
  <2>4. /\ inflight'[q] = Len(markers) + 1
        /\ markers'[Len(markers) + 1].times = 0 /\ markers'[Len(markers) + 1].status = "pending"
    BY <1>1, <2>1 DEF ForwardTypeOK
  <2>5. ASSUME q \notin strayed' PROVE Of(q)' = {Len(markers) + 1} /\ gate'[q] # "none" /\ Passed(q)'
    BY <1>1, <1>4, <2>2, <2>5, ForwardFresh DEF MarkerInv
  <2> QED
    BY <2>2, <2>3, <2>4, <2>5 DEF MarkerInv
<1>5. CASE ~ UNCHANGED forwardVars /\ ~ \E l \in Loops, r \in Requests : Forward(l, r)
  <2>1. PICK q \in Requests, k \in Nat, how \in {"channel", "local"} : SettlesMarker(q, k, how)
    BY <1>5, SettlesOne
  <2>2. /\ DOMAIN markers' = DOMAIN markers /\ \A m \in DOMAIN markers : markers'[m].id = markers[m].id
        /\ inflight[q] # 0 => /\ k \in Of(q) /\ \A m \in DOMAIN markers : m # k => markers'[m] = markers[m]
                              /\ markers'[k].status # "pending" /\ markers'[k].times = markers[k].times + 1
    <3>1. CASE inflight[q] = 0
      BY <2>1, <3>1 DEF SettlesMarker
    <3>2. CASE inflight[q] # 0
      <4>1. DOMAIN SettleMarker(k, how) = DOMAIN markers /\ k \in DOMAIN markers
        BY <2>1, <3>2 DEF SettlesMarker, SettleMarker, Of
      <4> QED
        BY <1>1, <2>1, <3>2, <4>1, SettledMarkers DEF SettlesMarker
    <3> QED
      BY <3>1, <3>2
  <2>3. \A r \in Requests : Of(r)' = Of(r)
    BY <2>2 DEF Of
  <2>4. ASSUME NEW r \in Requests, r # q
        PROVE  /\ inflight'[r] # 0 =>
                    inflight'[r] \in Of(r)' /\ (r \notin strayed' => markers'[inflight'[r]].times = 0 /\ markers'[inflight'[r]].status = "pending")
               /\ r \notin strayed' => \A m \in Of(r)' :
                    /\ gate'[r] # "none" /\ Passed(r)'
                    /\ markers'[m].times <= 1
                    /\ markers'[m].status = "pending" => inflight'[r] = m
                    /\ Of(r)' = {m}
    <3>1. inflight'[r] = inflight[r] /\ Of(r)' = Of(r)
      BY <1>1, <2>1, <2>3, <2>4 DEF ForwardTypeOK, SettlesMarker
    <3>2. \A m \in Of(r) : markers'[m] = markers[m]
      BY <2>1, <2>2, <2>4 DEF Of, SettlesMarker
    <3> QED
      BY <1>1, <1>2, <3>1, <3>2 DEF MarkerInv
  <2>5. inflight'[q] = 0
    BY <1>1, <2>1 DEF ForwardTypeOK, SettlesMarker
  <2>6. ASSUME q \notin strayed', NEW m \in Of(q)
        PROVE  /\ gate'[q] # "none" /\ Passed(q)'
               /\ markers'[m].times <= 1
               /\ markers'[m].status # "pending"
               /\ Of(q)' = {m}
    <3>1. /\ gate[q] # "none" /\ Passed(q) /\ markers[m].times <= 1
          /\ markers[m].status = "pending" => inflight[q] = m
          /\ Of(q) = {m}
      BY <1>1, <2>6 DEF MarkerInv
    <3>2. CASE inflight[q] = 0
      <4>1. m # 0
        BY <1>1 DEF Of
      <4> QED
        BY <1>2, <2>1, <2>3, <3>1, <3>2, <4>1 DEF SettlesMarker
    <3>3. CASE inflight[q] # 0
      <4>1. k = m /\ markers[k].times = 0
        BY <1>1, <2>1, <2>6, <3>1, <3>3 DEF MarkerInv, SettlesMarker
      <4> QED
        BY <1>2, <2>2, <2>3, <3>1, <3>3, <4>1
    <3> QED
      BY <3>2, <3>3
  <2> QED
    BY <2>3, <2>4, <2>5, <2>6 DEF MarkerInv
<1> QED
  BY <1>3, <1>4, <1>5

\* A loop that sees a request settled stands behind its announcement, and so does every
\* loop that may go on.
LEMMA ToldFresh ==
  ASSUME TypeOK, LogInv, LoopInv, [Next]_vars, NEW l \in Loops, NEW q \in Requests, SettleLocally(l, q)
  PROVE  /\ gate'[q] = "announced" /\ Passed(q)'
         /\ \A k \in Loops \ cancelled' : \A j \in job'[k] : j.entry.id # q
<1>1. /\ lpc[l] = "recv" /\ pos[l] <= Len(log) /\ log[pos[l]] = [kind |-> "settled", id |-> q]
      /\ pos' = [pos EXCEPT ![l] = @ + 1] /\ UNCHANGED <<gate, log, cancelled, job>> /\ GoesOn(l)
  BY DEF SettleLocally, Receives, logVars
<1>2. LoopTypeOK /\ LogTypeOK /\ pos[l] \in DOMAIN log /\ pos[l] \in Nat
  BY <1>1, LogFacts DEF TypeOK, LoopTypeOK, LoopInv, PosInv
<1>3. gate[q] = "announced"
  BY <1>1, <1>2 DEF LogInv, LogGates
<1>4. ASSUME NEW i \in DOMAIN log, log[i] = Requested(q) PROVE i \in Nat /\ i < pos[l]
  BY <1>1, <1>2, <1>4, LogFacts DEF LogInv, LogOrder, Requested
<1>5. ASSUME NEW k \in Loops \ cancelled, k # l, lpc[k] # "none" PROVE l < k
  BY <1>1, <1>5 DEF LoopInv, CancelInv, Loops
<1>6. Passed(q)'
  <2> SUFFICES ASSUME NEW k \in Loops \ cancelled, lpc'[k] \in {"recv", "insert"}, NEW i \in DOMAIN log, i >= pos'[k],
                      log[i] = Requested(q)
               PROVE  FALSE
    BY <1>1 DEF Passed, Ahead
  <2>1. i \in Nat /\ i < pos[l]
    BY <1>4
  <2>2. CASE k = l
    BY <1>1, <1>2, <2>1, <2>2 DEF LoopTypeOK
  <2>3. CASE k # l
    <3>1. lpc[k] \in {"recv", "insert"} /\ pos'[k] = pos[k] /\ pos[k] \in Nat
      BY <1>1, <1>2, <2>3 DEF LoopTypeOK, GoesOn
    <3>2. pos[l] <= pos[k]
      BY <1>1, <1>2, <1>5, <2>3, <3>1 DEF LoopInv, PaceInv
    <3> QED
      BY <1>2, <2>1, <3>1, <3>2
  <2> QED
    BY <2>2, <2>3
<1>7. ASSUME NEW k \in Loops \ cancelled, NEW j \in job[k], j.entry.id = q PROVE FALSE
  <2>1. lpc[k] = "insert" /\ pos[k] > 1 /\ log[pos[k] - 1] = Requested(q) /\ pos[k] - 1 \in DOMAIN log /\ pos[k] \in Nat
    BY <1>2, <1>7, LogFacts DEF LoopInv, JobInv, PosInv
  <2>2. pos[k] - 1 < pos[l]
    BY <1>4, <2>1
  <2>3. pos[l] < pos[k]
    BY <1>1, <1>5, <2>1 DEF LoopInv, PaceInv
  <2> QED
    BY <1>2, <2>1, <2>2, <2>3
<1> QED
  BY <1>1, <1>3, <1>6, <1>7

\* Only that step tells.
LEMMA ToldCases ==
  ASSUME TypeOK, [Next]_vars
  PROVE  \A r \in told' : r \in told \/ \E l \in Loops : SettleLocally(l, r) /\ bridge # 0
<1>1. CASE UNCHANGED <<loopVars, historyVars>>
  BY <1>1 DEF historyVars
<1>2. ASSUME NEW l \in Loops, Loop(l) PROVE \A r \in told' : r \in told \/ (SettleLocally(l, r) /\ bridge # 0)
  <2>1. CASE \E q \in Requests : SettleLocally(l, q)
    BY <2>1 DEF SettleLocally
  <2>2. CASE ~ \E q \in Requests : SettleLocally(l, q)
    BY <1>2, <2>2 DEF Loop, Subscribe, StartLoop, Insert, Forward, NoForward, historyVars
  <2> QED
    BY <2>1, <2>2
<1> QED
  BY <1>1, <1>2, Frames

\* Every step keeps what was told behind every loop.
LEMMA ToldNext == TypeOK /\ LogInv /\ LoopInv /\ ToldInv /\ [Next]_vars => ToldInv'
<1> SUFFICES ASSUME TypeOK, LogInv, LoopInv, ToldInv, [Next]_vars, NEW r \in told'
             PROVE  /\ gate'[r] = "announced" /\ Passed(r)'
                    /\ \A k \in Loops \ cancelled' : \A j \in job'[k] : j.entry.id # r
  BY DEF ToldInv
<1>1. LoopTypeOK /\ told \subseteq Requests
  BY DEF TypeOK
<1>2. r \in Requests
  BY LoopType
<1>3. CASE \E l \in Loops : SettleLocally(l, r)
  BY <1>2, <1>3, ToldFresh
<1>4. CASE r \in told
  <2>1. gate[r] = "announced" /\ Passed(r) /\ \A k \in Loops \ cancelled : \A j \in job[k] : j.entry.id # r
    BY <1>4 DEF ToldInv
  <2>2. gate'[r] = "announced" /\ Passed(r)'
    BY <1>2, <2>1, PassedStays, LogGrows DEF TypeOK, LoopInv, LogGrowth
  <2>3. cancelled \subseteq cancelled'
    BY CancelledStay DEF LoopInv
  <2>4. CASE UNCHANGED <<loopVars, historyVars>>
    BY <2>1, <2>2, <2>4 DEF loopVars
  <2>5. ASSUME NEW l \in Loops, Loop(l), ~ \E q \in Requests : Forward(l, q)
        PROVE  \A k \in Loops : job'[k] \subseteq job[k]
    BY <1>1, <2>5 DEF Loop, Subscribe, StartLoop, Insert, NoForward, SettleLocally, LoopTypeOK
  <2>6. ASSUME NEW l \in Loops, NEW q \in Requests, Forward(l, q)
        PROVE  \A k \in Loops \ cancelled' : \A j \in job'[k] : j.entry.id # r
    <3>1. /\ lpc[l] = "recv" /\ pos[l] <= Len(log) /\ log[pos[l]] = Requested(q) /\ cancelled' = cancelled
          /\ \E j : j.entry.id = q /\ job' = [job EXCEPT ![l] = {j}]
      BY <2>6 DEF Forward, Receives, Requested
    <3>2. pos[l] \in DOMAIN log /\ pos[l] >= pos[l]
      BY <3>1, LogFacts DEF TypeOK, LoopInv, PosInv
    <3>3. l \notin cancelled => q # r
      BY <2>1, <3>1, <3>2 DEF Passed, Ahead
    <3> QED
      BY <1>1, <2>1, <3>1, <3>3 DEF LoopTypeOK
  <2> QED
    BY <2>1, <2>2, <2>3, <2>4, <2>5, <2>6, Frames
<1> QED
  BY <1>3, <1>4, ToldCases

\* What was told is withdrawn and stays so: nobody inserts it again.
LEMMA WithdrawnNext == IInv /\ [Next]_vars => SettledIsWithdrawn'
<1> SUFFICES ASSUME IInv, [Next]_vars, NEW r \in told', r \notin strayed'
             PROVE  /\ \A m \in DOMAIN markers' : markers'[m].id = r => markers'[m].status # "pending"
                    /\ bridge' # 0 => \A e \in table'[bridge'] : e.id # r
  BY DEF SettledIsWithdrawn
<1>1. /\ TypeOK /\ LogInv /\ LoopInv /\ EntryInv /\ MarkerInv /\ BridgeInv /\ ToldInv /\ SettledIsWithdrawn
      /\ LoopTypeOK /\ ForwardTypeOK /\ ChannelTypeOK /\ RunTypeOK
  BY DEF IInv, TypeOK
<1>2. r \in Requests /\ r \notin strayed
  BY <1>1, LoopType, MarkersKept
<1>3. r \in told \/ \E l \in Loops : SettleLocally(l, r) /\ bridge # 0
  BY <1>1, ToldCases
<1>4. ASSUME NEW m \in DOMAIN markers', markers'[m].id = r, markers'[m].status = "pending" PROVE FALSE
  <2>1. MarkerInv' /\ ToldInv' /\ ForwardTypeOK'
    BY <1>1, MarkerNext, ToldNext, ForwardType
  <2>2. inflight'[r] = m /\ m # 0
    <3>1. m \in Of(r)'
      BY <1>4 DEF Of
    <3>2. inflight'[r] = m
      BY <1>2, <1>4, <2>1, <3>1 DEF MarkerInv
    <3>3. m # 0
      BY <2>1, SeqFacts DEF ForwardTypeOK
    <3> QED
      BY <3>2, <3>3
  <2>3. CASE \E l \in Loops : SettleLocally(l, r) /\ bridge # 0
    BY <1>1, <1>2, <2>2, <2>3 DEF SettleLocally, ForwardTypeOK
  <2>4. CASE r \in told
    <3>1. \A n \in Of(r) : markers[n].status # "pending"
      BY <1>1, <1>2, <2>4 DEF SettledIsWithdrawn, Of
    <3>2. inflight[r] = 0
      BY <1>1, <1>2, <3>1 DEF MarkerInv
    <3>3. CASE UNCHANGED forwardVars
      BY <2>2, <3>2, <3>3 DEF forwardVars
    <3>4. ASSUME NEW l \in Loops, NEW q \in Requests, Forward(l, q) PROVE FALSE
      <4>1. q # r
        BY <1>1, <1>2, <2>4, <3>4, ForwardFresh DEF ToldInv
      <4>2. inflight'[r] = inflight[r]
        BY <1>1, <1>2, <3>4, <4>1 DEF Forward, ForwardTypeOK
      <4> QED
        BY <2>2, <3>2, <4>2
    <3>5. CASE ~ UNCHANGED forwardVars /\ ~ \E l \in Loops, q \in Requests : Forward(l, q)
      <4>1. \E q \in Requests : inflight' = [inflight EXCEPT ![q] = 0]
        BY <1>1, <3>5, SettlesOne DEF SettlesMarker
      <4> QED
        BY <1>1, <1>2, <2>2, <3>2, <4>1 DEF ForwardTypeOK
    <3> QED
      BY <3>3, <3>4, <3>5
  <2> QED
    BY <1>3, <2>3, <2>4
<1>5. ASSUME bridge' # 0, NEW e \in table'[bridge'], e.id = r PROVE FALSE
  <2>1. ASSUME bridge' = bridge, e \in table[bridge], r \in told PROVE FALSE
    BY <1>1, <1>2, <1>5, <2>1 DEF SettledIsWithdrawn
  <2>2. ASSUME NEW l \in Loops, SettleLocally(l, r), bridge # 0 PROVE FALSE
    BY <1>1, <1>5, <2>2, BridgeAssumption DEF SettleLocally, ChannelTypeOK, Bridges
  <2>3. CASE r \in told
    <3>1. CASE UNCHANGED channelVars
      BY <1>5, <2>1, <2>3, <3>1 DEF channelVars
    <3>2. ASSUME NEW l \in Loops, Insert(l) PROVE FALSE
      <4>1. PICK j \in job[l] : /\ table' = [table EXCEPT ![j.bridge] = Put(@, j.entry)]
                                /\ strayed' = IF l \in cancelled THEN strayed \cup {j.entry.id} ELSE strayed
        BY <3>2 DEF Insert
      <4>2. bridge' = bridge
        BY <3>2 DEF Insert
      <4>3. j.entry.id # r
        <5>1. CASE l \in cancelled
          BY <4>1, <5>1
        <5>2. CASE l \notin cancelled
          BY <1>1, <2>3, <5>2 DEF ToldInv
        <5> QED
          BY <5>1, <5>2
      <4>4. bridge \in Bridges
        BY <1>1, <1>5, <4>2, BridgeAssumption DEF ChannelTypeOK, Bridges
      <4>5. e \in table[bridge]
        BY <1>1, <1>5, <4>1, <4>2, <4>3, <4>4 DEF ChannelTypeOK, Put
      <4> QED
        BY <2>1, <2>3, <4>2, <4>5
    <3>3. ASSUME bridge' = bridge, \A b \in Bridges : table'[b] \subseteq table[b] PROVE FALSE
      <4>1. bridge \in Bridges
        BY <1>1, <1>5, <3>3, BridgeAssumption DEF ChannelTypeOK, Bridges
      <4> QED
        BY <1>5, <2>1, <2>3, <3>3, <4>1
    <3>4. ASSUME NEW l \in Loops, NEW q \in Requests, SettleLocally(l, q) PROVE FALSE
      BY <1>1, <3>3, <3>4 DEF SettleLocally, ChannelTypeOK
    <3>5. ASSUME NEW b \in Bridges, Owner(b) \/ Settle(b) PROVE FALSE
      BY <1>1, <3>3, <3>5 DEF Owner, OwnerAnswers, OwnerCancels, OwnerWrites, Settle, ChannelTypeOK
    <3>6. ASSUME NEW b \in Bridges, AskOwner(b) PROVE FALSE
      <4>1. bridge' = bridge
        BY <3>6 DEF AskOwner
      <4>2. PICK o \in current[b] : table' = [table EXCEPT ![b] = Put(@, [id |-> o, marker |-> 0])]
        BY <3>6 DEF AskOwner
      <4>3. o # r
        BY <1>1, <1>2, BridgeAssumption DEF RunTypeOK
      <4>4. bridge \in Bridges
        BY <1>1, <1>5, <4>1, BridgeAssumption DEF ChannelTypeOK, Bridges
      <4>5. e \in table[bridge]
        BY <1>1, <1>5, <4>1, <4>2, <4>3, <4>4 DEF ChannelTypeOK, Put
      <4> QED
        BY <2>1, <2>3, <4>1, <4>5
    <3>7. CASE StartChannel
      <4>1. bridge' = born + 1 /\ born + 1 \in Bridges /\ table' = table
        BY <1>1, <3>7, BridgeAssumption DEF StartChannel, ChannelTypeOK, Bridges
      <4> QED
        BY <1>1, <1>5, <4>1 DEF BridgeInv, ChannelTypeOK
    <3>8. CASE StopChannel
      BY <1>5, <3>8 DEF StopChannel
    <3> QED
      BY <3>1, <3>2, <3>4, <3>5, <3>6, <3>7, <3>8, Frames
  <2> QED
    BY <1>3, <2>2, <2>3
<1> QED
  BY <1>4, <1>5

\* A run that waits keeps its entry until the answer to it is taken.
LEMMA WaiterNext == TypeOK /\ RunInv /\ WaiterIsAnswerable /\ [Next]_vars => WaiterIsAnswerable'
<1> SUFFICES ASSUME TypeOK, RunInv, WaiterIsAnswerable, [Next]_vars, NEW b \in Bridges, run'[b] = "wait"
             PROVE  \E e \in table'[b] \cup hand'[b] : e.id \in current'[b]
  BY DEF WaiterIsAnswerable
<1>1. LoopTypeOK /\ ChannelTypeOK /\ RunTypeOK
  BY DEF TypeOK
<1>2. CASE AskOwner(b)
  <2>1. PICK o \in current[b] : table' = [table EXCEPT ![b] = Put(@, [id |-> o, marker |-> 0])]
    BY <1>2 DEF AskOwner
  <2>2. [id |-> o, marker |-> 0] \in table'[b] /\ current' = current
    BY <1>1, <1>2, <2>1 DEF AskOwner, Put, ChannelTypeOK
  <2> QED
    BY <2>2
<1>3. CASE ~ AskOwner(b)
  <2>1. run[b] = "wait" /\ current'[b] = current[b]
    <3>1. CASE UNCHANGED runVars
      BY <3>1 DEF runVars
    <3>2. ASSUME NEW c \in Bridges, OwnerCancels(c) \/ OwnerWrites(c) PROVE run[b] = "wait" /\ current'[b] = current[b]
      BY <1>1, <3>2 DEF OwnerCancels, OwnerWrites, RunTypeOK
    <3>3. ASSUME NEW c \in Bridges, Settle(c) PROVE run[b] = "wait" /\ current'[b] = current[b]
      BY <1>1, <3>3 DEF Settle, SettleFromChannel, WakeRun, RunTypeOK
    <3>4. ASSUME NEW c \in Bridges, RunStep(c) PROVE run[b] = "wait" /\ current'[b] = current[b]
      <4>1. CASE Drive(c)
        BY <1>1, <4>1, DriveEffect DEF RunTypeOK
      <4>2. CASE AskOwner(c)
        <5>1. c # b
          BY <1>3, <4>2
        <5> QED
          BY <1>1, <4>2, <5>1 DEF AskOwner, RunTypeOK
      <4>3. CASE Prepare(c) \/ Resolve(c) \/ EndRun(c)
        BY <1>1, <4>3 DEF Prepare, Resolve, EndRun, RunTypeOK
      <4>4. CASE \E o \in Own : Ask(c, o) \/ Judge(c, o)
        BY <4>4 DEF Ask, Judge
      <4> QED
        BY <3>4, <4>1, <4>2, <4>3, <4>4 DEF RunStep
    <3> QED
      BY <3>1, <3>2, <3>3, <3>4, Frames
  <2>2. PICK e \in table[b] \cup hand[b] : e.id \in current[b]
    BY <2>1 DEF WaiterIsAnswerable
  <2>3. e.id \in Own /\ e.id \notin Requests
    BY <1>1, <2>2, BridgeAssumption DEF RunTypeOK
  <2>4. \E x \in table'[b] \cup hand'[b] : x.id = e.id
    <3>1. CASE UNCHANGED channelVars
      BY <2>2, <3>1 DEF channelVars
    <3>2. ASSUME NEW c \in Bridges, NEW x, table' = [table EXCEPT ![c] = Put(@, x)], hand' = hand
          PROVE  \E y \in table'[b] \cup hand'[b] : y.id = e.id
      BY <1>1, <2>2, <3>2 DEF Put, ChannelTypeOK
    <3>3. ASSUME NEW l \in Loops, Insert(l) PROVE \E x \in table'[b] \cup hand'[b] : x.id = e.id
      <4>1. PICK j \in job[l] : table' = [table EXCEPT ![j.bridge] = Put(@, j.entry)]
        BY <3>3 DEF Insert
      <4>2. j.bridge \in Bridges /\ hand' = hand
        BY <1>1, <3>3 DEF LoopTypeOK, Insert
      <4> QED
        BY <3>2, <4>1, <4>2
    <3>4. ASSUME NEW l \in Loops, NEW q \in Requests, SettleLocally(l, q)
          PROVE  \E x \in table'[b] \cup hand'[b] : x.id = e.id
      BY <1>1, <2>2, <2>3, <3>4 DEF SettleLocally, ChannelTypeOK
    <3>5. ASSUME NEW c \in Bridges, OwnerAnswers(c) PROVE \E x \in table'[b] \cup hand'[b] : x.id = e.id
      BY <1>1, <2>2, <3>5 DEF OwnerAnswers, Takes, ChannelTypeOK
    <3>6. ASSUME NEW c \in Bridges, OwnerCancels(c) \/ OwnerWrites(c)
          PROVE  \E x \in table'[b] \cup hand'[b] : x.id = e.id
      BY <2>2, <3>6 DEF OwnerCancels, OwnerWrites
    <3>7. ASSUME NEW c \in Bridges, Settle(c) PROVE \E x \in table'[b] \cup hand'[b] : x.id = e.id
      <4>1. PICK x \in hand[c] : SettleFromChannel(x) \/ WakeRun(c, x)
        BY <3>7 DEF Settle
      <4>2. table' = table /\ hand' = [hand EXCEPT ![c] = {}]
        BY <3>7 DEF Settle
      <4>3. CASE c # b \/ e \in table[b]
        BY <1>1, <2>2, <4>2, <4>3 DEF ChannelTypeOK
      <4>4. CASE c = b /\ e \in hand[b]
        <5>1. x = e
          BY <1>1, <4>1, <4>4 DEF ChannelTypeOK, AtMostOne
        <5>2. run'[b] = "answered"
          BY <1>1, <2>3, <4>1, <4>4, <5>1 DEF SettleFromChannel, WakeRun, RunTypeOK
        <5> QED
          BY <5>2
      <4> QED
        BY <2>2, <4>3, <4>4
    <3>8. ASSUME NEW c \in Bridges, AskOwner(c) PROVE \E x \in table'[b] \cup hand'[b] : x.id = e.id
      BY <3>2, <3>8 DEF AskOwner
    <3>9. CASE StartChannel \/ StopChannel
      BY <2>2, <3>9 DEF StartChannel, StopChannel
    <3> QED
      BY <3>1, <3>3, <3>4, <3>5, <3>6, <3>7, <3>8, <3>9, Frames DEF Owner
  <2> QED
    BY <2>1, <2>2, <2>4
<1> QED
  BY <1>2, <1>3

\* The invariant holds in the initial states.
LEMMA InitInv == Init => IInv
<1> SUFFICES ASSUME Init PROVE IInv
  OBVIOUS
<1>1. TypeOK
  BY BridgeAssumption DEF Init, TypeOK, LogTypeOK, LoopTypeOK, ForwardTypeOK, ChannelTypeOK, RunTypeOK, AtMostOne
<1>2. LogInv /\ LoopInv
  BY DEF Init, LogInv, LogGates, LogOrder, LoopInv, PosInv, CancelInv, PaceInv, JobInv
<1>3. EntryInv /\ MarkerInv
  BY DEF Init, EntryInv, MarkerInv, Of
<1>4. BridgeInv /\ ToldInv /\ RunInv /\ SettledIsWithdrawn /\ WaiterIsAnswerable
  BY DEF Init, BridgeInv, ToldInv, RunInv, SettledIsWithdrawn, WaiterIsAnswerable
<1> QED
  BY <1>1, <1>2, <1>3, <1>4 DEF IInv

\* Every step keeps the invariant.
LEMMA NextInv == IInv /\ [Next]_vars => IInv'
BY TypeNext, LogNext, LoopNext, EntryNext, MarkerNext, BridgeNext, ToldNext, RunNext, WithdrawnNext, WaiterNext DEF IInv, TypeOK

\* The invariant holds throughout.
THEOREM ChannelInvariant == Spec => []IInv
BY InitInv, NextInv, PTL DEF Spec

\* The variables of the loops, the forwards, the bridges and the runs keep their types,
\* in every behaviour of the model.
THEOREM TypeCorrect == Spec => []TypeOK
<1>1. IInv => TypeOK
  BY DEF IInv
<1> QED
  BY <1>1, ChannelInvariant, PTL

\* However the owner on the phone, the person at the desk and the loops of old and new
\* subscriptions interleave, a forwarded request has its marker settled at most once,
\* unless a cancelled loop forwarded it (ChannelForwardState::take; MarkerSettledOnce).
THEOREM MarkersSettleOnce == Spec => []MarkerSettledOnce
<1>1. IInv => MarkerSettledOnce
  <2> SUFFICES ASSUME IInv, NEW m \in DOMAIN markers, markers[m].id \notin strayed PROVE markers[m].times <= 1
    BY DEF MarkerSettledOnce
  <2> DEFINE M == [id : Requests, status : {"pending", "channel", "local"}, times : Nat]
  <2>0. markers \in Seq(M)
    BY DEF IInv, TypeOK, ForwardTypeOK
  <2>2. markers[m] \in M
    <3> HIDE DEF M
    <3> QED
      BY <2>0, SeqFacts
  <2>1. markers[m].id \in Requests /\ m \in Of(markers[m].id)
    BY <2>2 DEF Of
  <2> QED
    BY <2>1 DEF IInv, MarkerInv
<1> QED
  BY <1>1, ChannelInvariant, PTL

\* After a loop has seen a request settled while the channel runs, neither the table of
\* the bridge nor a pending marker offers it any more (settle_locally;
\* SettledIsWithdrawn).
THEOREM SettledAreWithdrawn == Spec => []SettledIsWithdrawn
<1>1. IInv => SettledIsWithdrawn
  BY DEF IInv
<1> QED
  BY <1>1, ChannelInvariant, PTL

\* A run that waits for the owner has its request in the table of its bridge or in the
\* hand of the message handler: an insert of a request only replaces the same request's
\* entry (PendingInteractions, drive; WaiterIsAnswerable).
THEOREM WaitersAreAnswerable == Spec => []WaiterIsAnswerable
<1>1. IInv => WaiterIsAnswerable
  BY DEF IInv
<1> QED
  BY <1>1, ChannelInvariant, PTL
================================================================================
