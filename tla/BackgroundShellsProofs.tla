----------------------- MODULE BackgroundShellsProofs -----------------------
(***************************************************************************)
(* Proofs of the safety properties of BackgroundShells and of its          *)
(* refinement of TaskTable, for any set of commands and killers and any    *)
(* size of the registry, the tail and the chunk.                           *)
(*                                                                         *)
(* The inductive invariant has three parts. A command that has not been    *)
(* started has nothing anywhere, a running one is in the registry, and a   *)
(* live process has neither a verdict nor a kill signal that was taken     *)
(* (TaskInv); who kills, kills a command that was started (CallerInv); and *)
(* the units up to the cursor are parted into those returned and those     *)
(* passed over (OutputInv). The actions are taken together by what they    *)
(* do: read and advance (Advances), start (StartEffect), end (EndsDo), or  *)
(* nothing to the shells (Quiet).                                          *)
(***************************************************************************)
EXTENDS BackgroundShells, TLAPS, SequenceTheorems, WellFoundedInduction

\* The tool call of t has started it.
Known(t) == call[t] # "none"

\* The call, the verdict, the signal, the process and the registry agree on t.
TaskInv(t) ==
  /\ ~Known(t) => verdict[t] = "none" /\ proc[t] = "none" /\ killTx[t] = "held" /\ ~Listed(t)
                  /\ total[t] = 0 /\ pipe[t] = 0
  /\ Known(t) => verdict[t] # "none"
  /\ verdict[t] = "running" => Listed(t)
  /\ proc[t] = "alive" => verdict[t] = "running" /\ killTx[t] \in {"held", "sent"}

\* Only a command that was started is being killed.
CallerInv(c) == kpc[c] # "idle" => Known(Target(c))

\* The units of t up to the cursor are parted into returned and passed over; what is in
\* the pipe still fits.
OutputInv(t) ==
  /\ pipe[t] + total[t] <= MaxOut /\ cursor[t] <= total[t]
  /\ seen[t] \cup gone[t] = 1 .. cursor[t] /\ seen[t] \cap gone[t] = {}

\* The types of the shells and of their processes.
ShellTypes ==
  /\ registry \in Seq(Tasks) /\ IsInjective(registry)
  /\ kind \in [Tasks -> {"pipe", "pty", "inter"}]
  /\ verdict \in [Tasks -> {"none", "running", "exited", "killed"}]
  /\ back \in [Tasks -> BOOLEAN]
  /\ killTx \in [Tasks -> {"held", "sent", "fired", "done"}]
  /\ proc \in [Tasks -> {"none", "alive", "dead", "reaped"}]

\* The types of the output.
OutputTypes ==
  /\ pipe \in [Tasks -> 0 .. MaxOut] /\ total \in [Tasks -> 0 .. MaxOut] /\ cursor \in [Tasks -> 0 .. MaxOut]
  /\ seen \in [Tasks -> SUBSET (1 .. MaxOut)] /\ gone \in [Tasks -> SUBSET (1 .. MaxOut)]

\* The types of the tool calls.
CallTypes ==
  /\ call \in [Tasks -> {"none", "arm", "poll", "background", "timers", "leave", "kill", "armFirst", "look", "lookTimers", "settle", "done"}]
  /\ armed \subseteq Tasks

\* The types of the callers of kill.
KillTypes ==
  /\ missed \subseteq Callers
  /\ kpc \in [Callers -> {"idle", "take", "check", "gap", "asleep"}]

\* The four groups make up the type invariant.
LEMMA TypeParts == TypeOK <=> ShellTypes /\ OutputTypes /\ CallTypes /\ KillTypes
BY DEF TypeOK, ShellTypes, OutputTypes, CallTypes, KillTypes

\* Whoever kills has a command to kill.
LEMMA Targets == \A c \in Callers : Target(c) \in Tasks
BY ShellsAssumption DEF Callers, Target

\* An interrupted tool call kills its own command.
LEMMA OwnTarget == \A t \in Tasks : t \in Callers /\ Target(t) = t
BY ShellsAssumption DEF Callers, Target

-----------------------------------------------------------------------------
\* Vec::remove takes one element out of a sequence without repetitions, and leaves no
\* other in it that equals it.
LEMMA RemovedOne ==
  ASSUME NEW S, NEW r \in Seq(S), IsInjective(r), NEW i \in 1 .. Len(r)
  PROVE  /\ RemoveAt(r, i) \in Seq(S) /\ IsInjective(RemoveAt(r, i))
         /\ ToSet(RemoveAt(r, i)) = ToSet(r) \ {r[i]}
<1>1. /\ RemoveAt(r, i) \in Seq(S) /\ Len(RemoveAt(r, i)) = Len(r) - 1
      /\ \A j \in 1 .. Len(r) - 1 : RemoveAt(r, i)[j] = IF j < i THEN r[j] ELSE r[j + 1]
  <2> DEFINE a == SubSeq(r, 1, i - 1)
              b == SubSeq(r, i + 1, Len(r))
  <2>0. i \in Int /\ Len(r) \in Nat /\ \A j \in 1 .. Len(r) : r[j] \in S
    OBVIOUS
  <2>1. /\ a \in Seq(S) /\ Len(a) = i - 1
        /\ \A j \in 1 .. i - 1 : a[j] = r[j]
    <3>1. 1 \in Int /\ i - 1 \in Int /\ \A j \in 1 .. i - 1 : r[j] \in S
      BY <2>0
    <3>2. /\ a \in Seq(S) /\ Len(a) = IF 1 <= i - 1 THEN i - 1 - 1 + 1 ELSE 0
          /\ \A j \in 1 .. i - 1 - 1 + 1 : a[j] = r[1 + j - 1]
      BY <3>1, SubSeqProperties
    <3> HIDE DEF a
    <3> QED
      BY <2>0, <3>2
  <2>2. /\ b \in Seq(S) /\ Len(b) = Len(r) - i
        /\ \A j \in 1 .. Len(r) - i : b[j] = r[i + j]
    <3>1. i + 1 \in Int /\ Len(r) \in Int /\ \A j \in i + 1 .. Len(r) : r[j] \in S
      BY <2>0
    <3>2. /\ b \in Seq(S) /\ Len(b) = IF i + 1 <= Len(r) THEN Len(r) - (i + 1) + 1 ELSE 0
          /\ \A j \in 1 .. Len(r) - (i + 1) + 1 : b[j] = r[i + 1 + j - 1]
      BY <3>1, SubSeqProperties
    <3> HIDE DEF b
    <3> QED
      BY <2>0, <3>2
  <2>3. RemoveAt(r, i) = a \o b
    BY DEF RemoveAt
  <2> HIDE DEF a, b
  <2>4. /\ a \o b \in Seq(S) /\ Len(a \o b) = Len(a) + Len(b)
        /\ \A j \in 1 .. Len(a) + Len(b) : (a \o b)[j] = IF j <= Len(a) THEN a[j] ELSE b[j - Len(a)]
    BY <2>1, <2>2, ConcatProperties
  <2>5. \A j \in 1 .. Len(r) - 1 : RemoveAt(r, i)[j] = IF j < i THEN r[j] ELSE r[j + 1]
    <3> TAKE j \in 1 .. Len(r) - 1
    <3>0. j \in 1 .. Len(a) + Len(b) /\ Len(a) = i - 1
      BY <2>0, <2>1, <2>2
    <3>1. RemoveAt(r, i)[j] = IF j <= i - 1 THEN a[j] ELSE b[j - (i - 1)]
      BY <3>0, <2>3, <2>4
    <3>2. CASE j < i
      BY <2>0, <2>1, <3>1, <3>2
    <3>3. CASE ~(j < i)
      <4>1. j - (i - 1) \in 1 .. Len(r) - i /\ i + (j - (i - 1)) = j + 1 /\ ~(j <= i - 1)
        BY <2>0, <3>3
      <4> QED
        BY <2>2, <3>1, <3>3, <4>1
    <3> QED
      BY <3>2, <3>3
  <2> QED
    BY <2>0, <2>1, <2>2, <2>3, <2>4, <2>5
<1> DEFINE q == RemoveAt(r, i)
<1>2. /\ DOMAIN q = 1 .. Len(r) - 1 /\ DOMAIN r = 1 .. Len(r) /\ Len(r) \in Nat \ {0}
      /\ \A j \in DOMAIN q : q[j] = IF j < i THEN r[j] ELSE r[j + 1]
  BY <1>1
<1> HIDE DEF q
<1>3. IsInjective(q)
  BY <1>2 DEF IsInjective
<1>4. ASSUME NEW x \in ToSet(q) PROVE x \in ToSet(r) /\ x # r[i]
  <2>1. PICK j \in DOMAIN q : x = q[j]
    BY <1>4 DEF ToSet
  <2>2. CASE j < i
    BY <1>2, <2>1, <2>2 DEF ToSet, IsInjective
  <2>3. CASE ~(j < i)
    <3>1. j + 1 \in DOMAIN r /\ x = r[j + 1] /\ j + 1 # i
      BY <1>2, <2>1, <2>3
    <3> QED
      BY <1>2, <3>1 DEF ToSet, IsInjective
  <2> QED
    BY <2>2, <2>3
<1>5. ASSUME NEW x \in ToSet(r), x # r[i] PROVE x \in ToSet(q)
  <2>1. PICK j \in DOMAIN r : x = r[j]
    BY <1>5 DEF ToSet
  <2>2. j # i
    BY <1>5, <2>1
  <2>3. CASE j < i
    <3>1. j \in DOMAIN q /\ q[j] = x
      BY <1>2, <2>1, <2>3
    <3> QED
      BY <3>1 DEF ToSet
  <2>4. CASE j > i
    <3>1. j - 1 \in DOMAIN q /\ q[j - 1] = x
      BY <1>2, <2>1, <2>4
    <3> QED
      BY <3>1 DEF ToSet
  <2> QED
    BY <1>2, <2>2, <2>3, <2>4
<1> QED
  BY <1>1, <1>3, <1>4, <1>5 DEF q

\* A set of positions that is not empty has a first one: the naturals are well founded.
LEMMA FirstOf ==
  ASSUME NEW I \in SUBSET Nat, I # {}
  PROVE  (CHOOSE i \in I : \A j \in I : i <= j) \in I
<1> DEFINE R == {ij \in Nat \X Nat : ij[1] < ij[2]}
<1>1. IsWellFoundedOn(R, Nat)
  BY NatLessThanWellFounded DEF OpToRel
<1> HIDE DEF R
<1>2. PICK i \in I : \A j \in I : <<j, i>> \notin R
  BY <1>1, WFMin
<1>3. \A j, k \in Nat : <<j, k>> \in R <=> j < k
  <2> TAKE j, k \in Nat
  <2> DEFINE p == <<j, k>>
  <2>1. p \in Nat \X Nat /\ p[1] = j /\ p[2] = k
    OBVIOUS
  <2> HIDE DEF p
  <2>2. p \in R <=> p \in Nat \X Nat /\ p[1] < p[2]
    BY Zenon DEF R
  <2>3. p \in R <=> j < k
    BY <2>1, <2>2
  <2> QED
    BY <2>3, Zenon DEF p
<1>4. \A j \in I : i <= j
  <2> TAKE j \in I
  <2>1. i \in Nat /\ j \in Nat
    OBVIOUS
  <2>2. ~(j < i)
    BY <1>2, <1>3, <2>1, Zenon
  <2> QED
    BY <2>1, <2>2
<1> QED
  BY <1>4
\* RemoveFirstOf removes the element at one of the positions, or nothing when there is
\* none.
LEMMA RemovedFirst ==
  ASSUME NEW S, NEW r \in Seq(S), IsInjective(r), NEW I \in SUBSET DOMAIN r
  PROVE  /\ RemoveFirstOf(r, I) \in Seq(S) /\ IsInjective(RemoveFirstOf(r, I))
         /\ \/ I = {} /\ ToSet(RemoveFirstOf(r, I)) = ToSet(r)
            \/ \E i \in I : ToSet(RemoveFirstOf(r, I)) = ToSet(r) \ {r[i]}
<1>1. CASE I = {}
  BY <1>1 DEF RemoveFirstOf
<1>2. CASE I # {}
  <2> DEFINE i == CHOOSE i \in I : \A j \in I : i <= j
  <2>1. RemoveFirstOf(r, I) = RemoveAt(r, i)
    BY <1>2 DEF RemoveFirstOf
  <2>2. i \in I
    BY <1>2, FirstOf, I \in SUBSET Nat
  <2> HIDE DEF i
  <2>3. i \in 1 .. Len(r)
    BY <2>2
  <2> QED
    BY <2>1, <2>2, <2>3, RemovedOne
<1> QED
  BY <1>1, <1>2

\* Appending a new element keeps a sequence free of repetitions.
LEMMA Appended ==
  ASSUME NEW S, NEW r \in Seq(S), IsInjective(r), NEW t \in S, t \notin ToSet(r)
  PROVE  /\ Append(r, t) \in Seq(S) /\ IsInjective(Append(r, t))
         /\ ToSet(Append(r, t)) = ToSet(r) \cup {t}
<1> DEFINE q == Append(r, t)
<1>1. /\ q \in Seq(S) /\ DOMAIN r = 1 .. Len(r) /\ DOMAIN q = 1 .. Len(r) + 1 /\ Len(r) \in Nat
      /\ \A i \in DOMAIN r : i \in DOMAIN q /\ q[i] = r[i]
      /\ q[Len(r) + 1] = t
  OBVIOUS
<1> HIDE DEF q
<1>2. \A i \in DOMAIN q : i \in DOMAIN r \/ i = Len(r) + 1
  BY <1>1
<1>3. \A i \in DOMAIN r : r[i] # t
  BY DEF ToSet
<1>4. IsInjective(q)
  BY <1>1, <1>2, <1>3 DEF IsInjective
<1>5. ToSet(q) = ToSet(r) \cup {t}
  <2>1. Len(r) + 1 \in DOMAIN q
    BY <1>1
  <2> QED
    BY <1>1, <1>2, <2>1 DEF ToSet
<1> QED
  BY <1>1, <1>4, <1>5 DEF q

\* Making room in the registry takes out at most one command, and one that has ended.
LEMMA EvictedFinished ==
  ASSUME NEW r \in Seq(Tasks), IsInjective(r)
  PROVE  /\ Evict(r) \in Seq(Tasks) /\ IsInjective(Evict(r))
         /\ \E out \in SUBSET ToSet(r) :
              /\ \A o \in out : Done(o) /\ out = {o}
              /\ ToSet(Evict(r)) = ToSet(r) \ out
<1> DEFINE I == {i \in DOMAIN r : Done(r[i])}
<1>1. CASE Len(r) >= MaxShells
  <2>1. Evict(r) = RemoveFirstOf(r, I)
    BY <1>1 DEF Evict
  <2>2. I \in SUBSET DOMAIN r /\ \A i \in I : Done(r[i]) /\ r[i] \in ToSet(r)
    BY DEF ToSet
  <2> HIDE DEF I
  <2> DEFINE q == RemoveFirstOf(r, I)
  <2>a. /\ q \in Seq(Tasks) /\ IsInjective(q)
        /\ \/ I = {} /\ ToSet(q) = ToSet(r)
           \/ \E i \in I : ToSet(q) = ToSet(r) \ {r[i]}
    BY <2>2, RemovedFirst
  <2> HIDE DEF q
  <2>b. Evict(r) = q
    BY <2>1 DEF q
  <2>3. CASE ToSet(q) = ToSet(r)
    <3>1. ToSet(Evict(r)) = ToSet(r) \ {}
      BY <2>b, <2>3
    <3>2. {} \in SUBSET ToSet(r) /\ \A o \in {} : Done(o) /\ {} = {o}
      OBVIOUS
    <3> QED
      BY <2>a, <2>b, <3>1, <3>2
  <2>4. CASE \E i \in I : ToSet(q) = ToSet(r) \ {r[i]}
    <3>1. PICK i \in I : ToSet(q) = ToSet(r) \ {r[i]}
      BY <2>4
    <3>2. {r[i]} \in SUBSET ToSet(r) /\ \A o \in {r[i]} : Done(o) /\ {r[i]} = {o}
      BY <2>2
    <3>3. ToSet(Evict(r)) = ToSet(r) \ {r[i]}
      BY <2>b, <3>1
    <3> QED
      BY <2>a, <2>b, <3>2, <3>3
  <2> QED
    BY <2>a, <2>3, <2>4
<1>2. CASE ~(Len(r) >= MaxShells)
  <2>1. Evict(r) = r /\ ToSet(r) = ToSet(r) \ {} /\ {} \in SUBSET ToSet(r)
    BY <1>2 DEF Evict
  <2> QED
    BY <2>1
<1> QED
  BY <1>1, <1>2

\* unregister takes the command out if it has ended, and nothing else.
LEMMA Unregistered ==
  ASSUME NEW t \in Tasks, ShellTypes, Unregister(t)
  PROVE  /\ registry' \in Seq(Tasks) /\ IsInjective(registry')
         /\ \/ ToSet(registry') = ToSet(registry)
            \/ Listed(t) /\ Done(t) /\ ToSet(registry') = ToSet(registry) \ {t}
<1> DEFINE I == {i \in DOMAIN registry : registry[i] = t /\ Done(t)}
<1>1. registry' = RemoveFirstOf(registry, I)
  BY DEF Unregister
<1>2. I \in SUBSET DOMAIN registry /\ \A i \in I : registry[i] = t /\ Done(t) /\ Listed(t)
  BY DEF Listed, ToSet
<1> HIDE DEF I
<1>3. registry \in Seq(Tasks) /\ IsInjective(registry)
  BY DEF ShellTypes
<1>4. /\ registry' \in Seq(Tasks) /\ IsInjective(registry')
      /\ \/ I = {} /\ ToSet(registry') = ToSet(registry)
         \/ \E i \in I : ToSet(registry') = ToSet(registry) \ {registry[i]}
  BY <1>1, <1>2, <1>3, RemovedFirst
<1> QED
  BY <1>2, <1>4

-----------------------------------------------------------------------------
\* A read or a skip: the cursor goes from where it was over start to new; what lies
\* before start is passed over, the rest returned.
Advances(t) ==
  \E start, new \in Nat :
    /\ cursor[t] <= start /\ start <= new /\ new <= total[t]
    /\ cursor' = [cursor EXCEPT ![t] = new]
    /\ seen' = [seen EXCEPT ![t] = @ \cup (start + 1 .. new)]
    /\ gone' = [gone EXCEPT ![t] = @ \cup (cursor[t] + 1 .. start)]
    /\ UNCHANGED <<pipe, total>>

\* read_incremental advances the cursor, whatever the tail still holds and however
\* little is asked for.
LEMMA ReadAdvances ==
  ASSUME NEW t \in Tasks, NEW max \in Nat, OutputTypes, OutputInv(t),
         ReadIncremental(t, max), UNCHANGED <<pipe, total>>
  PROVE  Advances(t)
<1> DEFINE tailStart == total[t] - Smaller(total[t], MaxTail)
           start == Larger(cursor[t], tailStart)
           new == start + Smaller(Smaller(total[t] - cursor[t], max), total[t] - start)
<1>1. cursor[t] \in Nat /\ total[t] \in Nat /\ cursor[t] <= total[t] /\ MaxTail \in Nat
  BY ShellsAssumption DEF OutputTypes, OutputInv
<1>2. tailStart \in Nat /\ tailStart <= total[t]
  BY <1>1 DEF Smaller
<1>3. start \in Nat /\ cursor[t] <= start /\ start <= total[t]
  BY <1>1, <1>2 DEF Larger
<1>4. new \in Nat /\ start <= new /\ new <= total[t]
  BY <1>1, <1>3 DEF Smaller
<1>5. /\ cursor' = [cursor EXCEPT ![t] = new]
      /\ seen' = [seen EXCEPT ![t] = @ \cup (start + 1 .. new)]
      /\ gone' = [gone EXCEPT ![t] = @ \cup (cursor[t] + 1 .. start)]
  BY DEF ReadIncremental
<1> HIDE DEF start, new
<1> QED
  BY <1>3, <1>4, <1>5 DEF Advances

\* mark_read_to_end passes over all that is there.
LEMMA SkipAdvances ==
  ASSUME NEW t \in Tasks, OutputTypes, OutputInv(t), BashInput(t)
  PROVE  Advances(t)
<1>1. cursor[t] \in Nat /\ total[t] \in Nat /\ cursor[t] <= total[t]
  BY DEF OutputTypes, OutputInv
<1>2. /\ cursor' = [cursor EXCEPT ![t] = total[t]]
      /\ gone' = [gone EXCEPT ![t] = @ \cup (cursor[t] + 1 .. total[t])]
      /\ UNCHANGED <<pipe, total, seen>>
  BY DEF BashInput
<1>3. seen' = [seen EXCEPT ![t] = @ \cup (total[t] + 1 .. total[t])]
  <2> DEFINE none == total[t] + 1 .. total[t]
  <2>1. none = {}
    BY <1>1
  <2> HIDE DEF none
  <2>2. seen[t] \cup none = seen[t]
    BY <2>1
  <2>3. seen = [seen EXCEPT ![t] = seen[t] \cup none]
    BY <2>2 DEF OutputTypes
  <2>4. seen' = [seen EXCEPT ![t] = seen[t] \cup none]
    BY <1>2, <2>3
  <2> QED
    BY <2>4 DEF none
<1>4. /\ cursor[t] <= total[t] /\ total[t] <= total[t] /\ total[t] <= total[t]
      /\ cursor' = [cursor EXCEPT ![t] = total[t]]
      /\ seen' = [seen EXCEPT ![t] = @ \cup (total[t] + 1 .. total[t])]
      /\ gone' = [gone EXCEPT ![t] = @ \cup (cursor[t] + 1 .. total[t])]
      /\ UNCHANGED <<pipe, total>>
  <2>1. cursor[t] <= total[t] /\ total[t] <= total[t]
    BY <1>1
  <2>2. UNCHANGED <<pipe, total>>
    BY <1>2
  <2> QED
    BY <1>2, <1>3, <2>1, <2>2, Zenon
<1> QED
  BY <1>1, <1>4, Zenon DEF Advances

\* What the steps do to the output.
LEMMA OutputNext ==
  ASSUME OutputTypes, \A t \in Tasks : OutputInv(t), Next
  PROVE  UNCHANGED outputVars \/ \E t \in Tasks : Advances(t) \/ Produce(t) \/ ReadPipe(t)
<1>0. MaxOut \in Nat /\ Chunk \in Nat
  BY ShellsAssumption
<1>1. ASSUME NEW t \in Tasks,
             BashOutput(t) \/ PollOver(t) \/ PollBackground(t) \/ TimesOut(t) \/ Tick(t) \/ Cancelled(t)
               \/ Settled(t) \/ HandOver(t) \/ LookInterrupted(t)
      PROVE  Advances(t)
  <2>1. \E max \in {MaxOut, Chunk} : ReadIncremental(t, max) /\ UNCHANGED <<pipe, total>>
    BY <1>1 DEF BashOutput, PollOver, PollBackground, TimesOut, Tick, Cancelled, Settled, HandOver, LookInterrupted, ReadAll
  <2> QED
    BY <1>0, <2>1, ReadAdvances
<1>2. ASSUME NEW t \in Tasks, BashInput(t) PROVE Advances(t)
  BY <1>2, SkipAdvances
<1>3. ASSUME NEW t \in Tasks,
             StartForeground(t) \/ StartBackground(t) \/ TerminalTimesOut(t) \/ StartInteractive(t)
               \/ ProcessEnds(t) \/ Reap(t) \/ TakeSignal(t) \/ Killed(t) \/ Promote(t)
               \/ PollPending(t) \/ Interrupted(t) \/ Leave(t) \/ Arm(t) \/ ArmFirst(t) \/ Look(t) \/ LookCancelled(t)
      PROVE  UNCHANGED outputVars
  BY <1>3 DEF StartForeground, StartBackground, TerminalTimesOut, StartInteractive, Register, ProcessEnds, Reap, TakeSignal,
     Killed, Promote, PollPending, Interrupted, Leave, Arm, ArmFirst, Look, LookCancelled
<1>4. ASSUME NEW c \in Callers, KillStart(c) \/ KillStep(c) PROVE UNCHANGED outputVars
  BY <1>4 DEF KillStart, KillStep, KillSend, KillCheck, KillListen
<1> QED
  BY <1>1, <1>2, <1>3, <1>4 DEF Next, CallStep, Callers

\* Every step keeps the output accounted for.
LEMMA OutputKept ==
  ASSUME OutputTypes, \A t \in Tasks : OutputInv(t), Next
  PROVE  OutputTypes' /\ \A t \in Tasks : OutputInv(t)'
<1> USE ShellsAssumption
<1>1. CASE UNCHANGED outputVars
  BY <1>1 DEF outputVars, OutputTypes, OutputInv
<1>2. ASSUME NEW t \in Tasks, Advances(t) PROVE OutputTypes' /\ \A u \in Tasks : OutputInv(u)'
  <2>1. PICK start, new \in Nat :
          /\ cursor[t] <= start /\ start <= new /\ new <= total[t]
          /\ cursor' = [cursor EXCEPT ![t] = new]
          /\ seen' = [seen EXCEPT ![t] = @ \cup (start + 1 .. new)]
          /\ gone' = [gone EXCEPT ![t] = @ \cup (cursor[t] + 1 .. start)]
          /\ UNCHANGED <<pipe, total>>
    BY <1>2 DEF Advances
  <2>2. /\ cursor[t] \in Nat /\ total[t] \in 0 .. MaxOut /\ new <= MaxOut
        /\ start + 1 .. new \subseteq 1 .. MaxOut /\ cursor[t] + 1 .. start \subseteq 1 .. MaxOut
    BY <2>1 DEF OutputTypes
  <2>3. OutputTypes'
    BY <2>1, <2>2 DEF OutputTypes
  <2>4. OutputInv(t)'
    <3>1. /\ cursor'[t] = new /\ pipe'[t] = pipe[t] /\ total'[t] = total[t]
          /\ seen'[t] = seen[t] \cup (start + 1 .. new)
          /\ gone'[t] = gone[t] \cup (cursor[t] + 1 .. start)
      BY <2>1 DEF OutputTypes
    <3>2. 1 .. new = (1 .. cursor[t]) \cup (start + 1 .. new) \cup (cursor[t] + 1 .. start)
      BY <2>1, <2>2
    <3>3. /\ (1 .. cursor[t]) \cap (start + 1 .. new) = {}
          /\ (1 .. cursor[t]) \cap (cursor[t] + 1 .. start) = {}
          /\ (start + 1 .. new) \cap (cursor[t] + 1 .. start) = {}
      BY <2>1, <2>2
    <3>4. seen[t] \cup gone[t] = 1 .. cursor[t] /\ seen[t] \cap gone[t] = {} /\ pipe[t] + total[t] <= MaxOut
      BY DEF OutputInv
    <3>5. seen'[t] \cup gone'[t] = 1 .. new /\ seen'[t] \cap gone'[t] = {}
      BY <3>1, <3>2, <3>3, <3>4
    <3> QED
      BY <2>1, <3>1, <3>4, <3>5 DEF OutputInv
  <2>5. ASSUME NEW u \in Tasks, u # t PROVE OutputInv(u)'
    <3>1. /\ cursor'[u] = cursor[u] /\ pipe'[u] = pipe[u] /\ total'[u] = total[u]
          /\ seen'[u] = seen[u] /\ gone'[u] = gone[u]
      BY <2>1, <2>5 DEF OutputTypes
    <3> QED
      BY <3>1 DEF OutputInv
  <2> QED
    BY <2>3, <2>4, <2>5
<1>3. ASSUME NEW t \in Tasks, Produce(t) PROVE OutputTypes' /\ \A u \in Tasks : OutputInv(u)'
  <2>1. /\ pipe[t] + total[t] < MaxOut /\ pipe' = [pipe EXCEPT ![t] = pipe[t] + 1]
        /\ UNCHANGED <<total, cursor, seen, gone>>
    BY <1>3 DEF Produce
  <2>2. pipe[t] \in Nat /\ total[t] \in Nat /\ pipe[t] + 1 \in 0 .. MaxOut
    BY <2>1 DEF OutputTypes
  <2>3. OutputTypes'
    BY <2>1, <2>2 DEF OutputTypes
  <2>4. \A u \in Tasks : pipe'[u] + total'[u] <= MaxOut
    BY <2>1, <2>2 DEF OutputTypes, OutputInv
  <2> QED
    BY <2>1, <2>3, <2>4 DEF OutputInv
<1>4. ASSUME NEW t \in Tasks, ReadPipe(t) PROVE OutputTypes' /\ \A u \in Tasks : OutputInv(u)'
  <2>1. /\ pipe[t] > 0 /\ pipe' = [pipe EXCEPT ![t] = pipe[t] - 1] /\ total' = [total EXCEPT ![t] = total[t] + 1]
        /\ UNCHANGED <<cursor, seen, gone>>
    BY <1>4 DEF ReadPipe
  <2>2. /\ pipe[t] \in Nat /\ total[t] \in Nat /\ pipe[t] - 1 \in 0 .. MaxOut /\ total[t] + 1 \in 0 .. MaxOut
    BY <2>1 DEF OutputTypes, OutputInv
  <2>3. OutputTypes'
    BY <2>1, <2>2 DEF OutputTypes
  <2>4. \A u \in Tasks : pipe'[u] + total'[u] = pipe[u] + total[u] /\ total[u] <= total'[u]
    BY <2>1, <2>2 DEF OutputTypes
  <2>5. \A u \in Tasks : pipe'[u] + total'[u] <= MaxOut /\ cursor[u] <= total'[u]
    BY <2>3, <2>4 DEF OutputTypes, OutputInv
  <2> QED
    BY <2>1, <2>3, <2>5 DEF OutputInv
<1> QED
  BY <1>1, <1>2, <1>3, <1>4, OutputNext
-----------------------------------------------------------------------------
\* The four ways a command is started.
Starts(t) == StartForeground(t) \/ StartBackground(t) \/ TerminalTimesOut(t) \/ StartInteractive(t)

\* A tool call that has begun goes on to its next step.
Steps(t) == call[t] # "none" /\ \E to \in {"arm", "poll", "background", "timers", "leave", "kill", "look", "lookTimers", "settle", "done"} :
              call' = [call EXCEPT ![t] = to]

\* What the steps do to the tool calls.
LEMMA CallNext ==
  ASSUME CallTypes, Next
  PROVE  UNCHANGED call \/ \E t \in Tasks : Starts(t) \/ Steps(t)
<1>1. ASSUME NEW t \in Tasks,
             PollOver(t) \/ PollPending(t) \/ PollBackground(t) \/ TimesOut(t) \/ Tick(t) \/ Cancelled(t)
               \/ Interrupted(t) \/ Leave(t) \/ Arm(t) \/ ArmFirst(t) \/ Look(t) \/ Settled(t) \/ LookCancelled(t)
               \/ LookInterrupted(t)
      PROVE  Steps(t)
  <2>1. \E from \in {"arm", "poll", "background", "timers", "leave", "kill", "armFirst", "look", "lookTimers", "settle"} :
        \E to \in {"arm", "poll", "background", "timers", "leave", "kill", "look", "lookTimers", "settle", "done"} : Step(t, from, to)
    BY <1>1 DEF PollOver, PollPending, PollBackground, TimesOut, Tick, Cancelled, Interrupted, Leave, Arm, ArmFirst, Look,
       Settled, LookCancelled, LookInterrupted
  <2> QED
    BY <2>1 DEF Step, Steps
<1>2. ASSUME NEW t \in Tasks, HandOver(t) PROVE Steps(t)
  BY <1>2 DEF HandOver, Steps
<1>3. ASSUME NEW t \in Tasks,
             Produce(t) \/ ProcessEnds(t) \/ ReadPipe(t) \/ Reap(t) \/ TakeSignal(t) \/ Killed(t) \/ BashOutput(t)
               \/ BashInput(t) \/ Promote(t)
      PROVE  UNCHANGED call
  BY <1>3 DEF Produce, ProcessEnds, ReadPipe, Reap, TakeSignal, Killed, BashOutput, BashInput, Promote, callVars
<1>4. ASSUME NEW c \in Callers, KillStart(c) \/ KillStep(c) PROVE UNCHANGED call
  BY <1>4 DEF KillStart, KillStep, KillSend, KillCheck, KillListen, callVars
<1> QED
  BY <1>1, <1>2, <1>3, <1>4 DEF Next, CallStep, Callers, Starts

\* What the four starts have in common.
StartEffect(t) ==
  /\ call[t] = "none"
  /\ \E to \in {"poll", "arm", "armFirst"} : call' = [call EXCEPT ![t] = to]
  /\ registry' = Append(Evict(registry), t)
  /\ kind' \in {[kind EXCEPT ![t] = k] : k \in {"pipe", "pty", "inter"}}
  /\ verdict' = [verdict EXCEPT ![t] = "running"]
  /\ back' \in {[back EXCEPT ![t] = b] : b \in BOOLEAN}
  /\ proc' = [proc EXCEPT ![t] = "alive"]
  /\ UNCHANGED <<killTx, outputVars, armed, killVars>>

\* Every start does it.
LEMMA StartsDo ==
  ASSUME NEW t \in Tasks, Starts(t)
  PROVE  StartEffect(t)
<1>1. /\ \E k \in {"pipe", "pty", "inter"}, b \in BOOLEAN : Register(t, k, b)
      /\ \E to \in {"poll", "arm", "armFirst"} : Step(t, "none", to)
  <2>1. CASE StartForeground(t)
    BY <2>1, Zenon DEF StartForeground
  <2>2. CASE StartBackground(t)
    BY <2>2, Zenon DEF StartBackground
  <2>3. CASE TerminalTimesOut(t)
    BY <2>3, Zenon DEF TerminalTimesOut
  <2>4. CASE StartInteractive(t)
    BY <2>4, Zenon DEF StartInteractive
  <2> QED
    BY <2>1, <2>2, <2>3, <2>4 DEF Starts
<1>2. PICK k \in {"pipe", "pty", "inter"}, b \in BOOLEAN : Register(t, k, b)
  BY <1>1
<1>3. PICK to \in {"poll", "arm", "armFirst"} : Step(t, "none", to)
  BY <1>1
<1>4. kind' \in {[kind EXCEPT ![t] = x] : x \in {"pipe", "pty", "inter"}}
  BY <1>2, Zenon DEF Register
<1>5. back' \in {[back EXCEPT ![t] = x] : x \in BOOLEAN}
  BY <1>2, Zenon DEF Register
<1>6. \E x \in {"poll", "arm", "armFirst"} : call' = [call EXCEPT ![t] = x]
  BY <1>3, Zenon DEF Step
<1> QED
  BY <1>2, <1>4, <1>5, <1>6 DEF Register, StartEffect

\* Every step keeps the types of the calls, and no command becomes unknown.
LEMMA CallTypesKept ==
  ASSUME CallTypes, Next
  PROVE  CallTypes' /\ \A t \in Tasks : Known(t) => Known(t)'
<1>1. call' \in [Tasks -> {"none", "arm", "poll", "background", "timers", "leave", "kill", "armFirst", "look", "lookTimers", "settle", "done"}]
      /\ \A t \in Tasks : Known(t) => Known(t)'
  <2>1. CASE UNCHANGED call
    BY <2>1 DEF CallTypes, Known
  <2>2. ASSUME NEW t \in Tasks, Starts(t) \/ Steps(t)
        PROVE  \E to \in {"arm", "poll", "background", "timers", "leave", "kill", "armFirst", "look", "lookTimers", "settle", "done"} :
                 call' = [call EXCEPT ![t] = to]
    BY <2>2, StartsDo DEF StartEffect, Steps
  <2> QED
    BY <2>1, <2>2, CallNext DEF CallTypes, Known
<1>2. armed' \subseteq Tasks
  <2>1. UNCHANGED armed \/ \E t \in Tasks : armed' = armed \cup {t}
    <3>1. ASSUME NEW t \in Tasks,
                 PollOver(t) \/ PollPending(t) \/ PollBackground(t) \/ TimesOut(t) \/ Tick(t) \/ Cancelled(t)
                   \/ Interrupted(t) \/ Leave(t) \/ Arm(t) \/ ArmFirst(t) \/ Look(t) \/ Settled(t) \/ LookCancelled(t)
                   \/ LookInterrupted(t) \/ HandOver(t)
          PROVE  UNCHANGED armed \/ armed' = armed \cup {t}
      BY <3>1 DEF PollOver, PollPending, PollBackground, TimesOut, Tick, Cancelled, Interrupted, Leave, Arm, ArmFirst, Look,
         Settled, LookCancelled, LookInterrupted, HandOver
    <3>2. ASSUME NEW t \in Tasks, Starts(t) PROVE UNCHANGED armed
      BY <3>2, StartsDo DEF StartEffect
    <3>3. ASSUME NEW t \in Tasks,
                 Produce(t) \/ ProcessEnds(t) \/ ReadPipe(t) \/ Reap(t) \/ TakeSignal(t) \/ Killed(t) \/ BashOutput(t)
                   \/ BashInput(t) \/ Promote(t)
          PROVE  UNCHANGED armed
      BY <3>3 DEF Produce, ProcessEnds, ReadPipe, Reap, TakeSignal, Killed, BashOutput, BashInput, Promote, callVars
    <3>4. ASSUME NEW c \in Callers, KillStart(c) \/ KillStep(c) PROVE UNCHANGED armed
      BY <3>4 DEF KillStart, KillStep, KillSend, KillCheck, KillListen, callVars
    <3> QED
      BY <3>1, <3>2, <3>3, <3>4 DEF Next, CallStep, Callers, Starts
  <2> QED
    BY <2>1 DEF CallTypes
<1> QED
  BY <1>1, <1>2 DEF CallTypes

-----------------------------------------------------------------------------
\* Nothing happens to the shells but that one may go to the background.
Quiet == UNCHANGED <<registry, kind, verdict, killTx, proc>>

\* What a verdict or a signal does to one shell.
Ends(t) == ProcessEnds(t) \/ Reap(t) \/ TakeSignal(t) \/ Killed(t)

\* What the steps do to the shells.
LEMMA ShellNext ==
  ASSUME Next
  PROVE  \/ Quiet \/ \E t \in Tasks : Starts(t) \/ Ends(t) \/ Interrupted(t) \/ Leave(t)
         \/ \E c \in Callers : KillSend(c)
<1>1. ASSUME NEW t \in Tasks,
             PollOver(t) \/ PollPending(t) \/ PollBackground(t) \/ TimesOut(t) \/ Tick(t) \/ Cancelled(t)
               \/ Arm(t) \/ ArmFirst(t) \/ Look(t) \/ Settled(t) \/ LookCancelled(t)
               \/ LookInterrupted(t) \/ HandOver(t)
      PROVE  Quiet
  BY <1>1 DEF PollOver, PollPending, PollBackground, TimesOut, Tick, Cancelled, Arm, ArmFirst, Look,
     Settled, LookCancelled, LookInterrupted, HandOver, shellVars, Quiet
<1>2. ASSUME NEW t \in Tasks, Produce(t) \/ ReadPipe(t) \/ BashOutput(t) \/ BashInput(t) \/ Promote(t)
      PROVE  Quiet
  BY <1>2 DEF Produce, ReadPipe, BashOutput, BashInput, Promote, shellVars, Quiet
<1>3. ASSUME NEW c \in Callers, KillStart(c) \/ KillCheck(c) \/ KillListen(c) PROVE Quiet
  BY <1>3 DEF KillStart, KillCheck, KillListen, shellVars, Quiet
<1> QED
  BY <1>1, <1>2, <1>3 DEF Next, CallStep, KillStep, Callers, Starts, Ends

\* is_background stays a Boolean.
LEMMA BackTyped ==
  ASSUME ShellTypes, Next
  PROVE  back' \in [Tasks -> BOOLEAN]
<1>1. UNCHANGED back \/ \E t \in Tasks, b \in BOOLEAN : back' = [back EXCEPT ![t] = b]
  <2>1. ASSUME NEW t \in Tasks,
               PollOver(t) \/ PollPending(t) \/ PollBackground(t) \/ Tick(t) \/ Cancelled(t)
                 \/ Interrupted(t) \/ Leave(t) \/ Arm(t) \/ ArmFirst(t) \/ Look(t) \/ Settled(t) \/ LookCancelled(t)
                 \/ LookInterrupted(t) \/ HandOver(t)
        PROVE  UNCHANGED back
    BY <2>1 DEF PollOver, PollPending, PollBackground, Tick, Cancelled, Interrupted, Leave, Arm, ArmFirst, Look,
       Settled, LookCancelled, LookInterrupted, HandOver, shellVars
  <2>2. ASSUME NEW t \in Tasks, Promote(t) \/ TimesOut(t) PROVE back' = [back EXCEPT ![t] = TRUE]
    BY <2>2 DEF Promote, TimesOut
  <2>3. ASSUME NEW t \in Tasks,
               Produce(t) \/ ReadPipe(t) \/ BashOutput(t) \/ BashInput(t) \/ Ends(t)
        PROVE  UNCHANGED back
    BY <2>3 DEF Produce, ReadPipe, BashOutput, BashInput, Ends, ProcessEnds, Reap, TakeSignal, Killed, shellVars
  <2>4. ASSUME NEW c \in Callers, KillStart(c) \/ KillStep(c) PROVE UNCHANGED back
    BY <2>4 DEF KillStart, KillStep, KillSend, KillCheck, KillListen, shellVars
  <2>5. ASSUME NEW t \in Tasks, Starts(t) PROVE \E b \in BOOLEAN : back' = [back EXCEPT ![t] = b]
    BY <2>5, StartsDo, Zenon DEF StartEffect
  <2> QED
    BY <2>1, <2>2, <2>3, <2>4, <2>5 DEF Next, CallStep, Callers, Starts, Ends
<1> QED
  BY <1>1 DEF ShellTypes

-----------------------------------------------------------------------------
\* BackgroundShell::finish: the first verdict stays, and a caller of kill is woken,
\* never started.
LEMMA Finishing ==
  ASSUME ShellTypes, KillTypes, NEW t \in Tasks, NEW v \in {"exited", "killed"}, FinishAs(t, v), verdict[t] # "none"
  PROVE  /\ verdict' = [verdict EXCEPT ![t] = IF Done(t) THEN @ ELSE v]
         /\ verdict'[t] \in {"exited", "killed"}
         /\ \A u \in Tasks : u # t => verdict'[u] = verdict[u]
         /\ KillTypes' /\ \A c \in Callers : kpc'[c] # "idle" => kpc[c] # "idle"
<1>1. CASE Done(t)
  <2>1. verdict' = verdict /\ UNCHANGED killVars
    BY <1>1 DEF FinishAs
  <2>2. verdict = [verdict EXCEPT ![t] = verdict[t]]
    BY DEF ShellTypes
  <2> QED
    BY <1>1, <2>1, <2>2 DEF killVars, KillTypes, Done, Terminal
<1>2. CASE ~Done(t)
  <2>1. /\ verdict' = [verdict EXCEPT ![t] = v]
        /\ kpc' = [c \in Callers |-> IF kpc[c] = "asleep" /\ Target(c) = t THEN "check" ELSE kpc[c]]
        /\ missed' = missed \cup {c \in Callers : kpc[c] = "gap" /\ Target(c) = t}
    BY <1>2 DEF FinishAs, NotifyWaiters
  <2>2. KillTypes' /\ \A c \in Callers : kpc'[c] # "idle" => kpc[c] # "idle"
    BY <2>1 DEF KillTypes
  <2>3. verdict'[t] = v /\ \A u \in Tasks : u # t => verdict'[u] = verdict[u]
    BY <2>1 DEF ShellTypes
  <2> QED
    BY <1>2, <2>1, <2>2, <2>3
<1> QED
  BY <1>1, <1>2

\* The inductive invariant.
ShellInv ==
  /\ TypeOK
  /\ \A t \in Tasks : TaskInv(t) /\ OutputInv(t)
  /\ \A c \in Callers : CallerInv(c)

\* A start, as the session's table of tasks sees it.
LEMMA Started ==
  ASSUME ShellTypes, NEW t \in Tasks, TaskInv(t), StartEffect(t)
  PROVE  /\ registry' \in Seq(Tasks) /\ IsInjective(registry')
         /\ \E out \in SUBSET ToSet(registry) :
              /\ \A o \in out : Done(o) /\ out = {o}
              /\ ToSet(registry') = (ToSet(registry) \ out) \cup {t}
<1>1. registry \in Seq(Tasks) /\ IsInjective(registry) /\ t \notin ToSet(registry)
  BY DEF ShellTypes, TaskInv, StartEffect, Known, Listed
<1>2. PICK out \in SUBSET ToSet(registry) :
        /\ \A o \in out : Done(o) /\ out = {o}
        /\ ToSet(Evict(registry)) = ToSet(registry) \ out
  BY <1>1, EvictedFinished
<1> DEFINE q == Evict(registry)
<1>3. q \in Seq(Tasks) /\ IsInjective(q) /\ t \notin ToSet(q) /\ registry' = Append(q, t)
  BY <1>1, <1>2, EvictedFinished DEF StartEffect
<1> HIDE DEF q
<1>4. /\ registry' \in Seq(Tasks) /\ IsInjective(registry')
      /\ ToSet(registry') = ToSet(q) \cup {t}
  BY <1>3, Appended
<1> QED
  BY <1>2, <1>4 DEF q

\* An end, as the rest of the system sees it: a verdict is not taken back and no
\* process comes to life.
LEMMA EndsDo ==
  ASSUME ShellInv, NEW t \in Tasks, Ends(t)
  PROVE  /\ UNCHANGED <<registry, kind, back, callVars, outputVars>>
         /\ verdict[t] # "none" /\ Known(t)
         /\ verdict' \in {[verdict EXCEPT ![t] = v] : v \in {"running", "exited", "killed"}}
         /\ verdict'[t] = "running" => verdict[t] = "running"
         /\ Done(t) => verdict'[t] = verdict[t]
         /\ killTx' \in {[killTx EXCEPT ![t] = k] : k \in {"held", "sent", "fired", "done"}}
         /\ proc' \in {[proc EXCEPT ![t] = p] : p \in {"none", "dead", "reaped"}}
         /\ KillTypes' /\ \A c \in Callers : kpc'[c] # "idle" => kpc[c] # "idle"
<1>1. /\ ShellTypes /\ KillTypes /\ TaskInv(t)
  BY TypeParts DEF ShellInv
<1>2. verdict[t] # "none" /\ Known(t)
  <2>1. proc[t] # "none" \/ killTx[t] # "held"
    BY DEF Ends, ProcessEnds, Reap, TakeSignal, Killed
  <2> QED
    BY <1>1, <2>1 DEF TaskInv
<1>3. CASE ProcessEnds(t)
  <2>1. /\ UNCHANGED <<registry, kind, verdict, back, killTx, outputVars, callVars, killVars>>
        /\ proc' = [proc EXCEPT ![t] = "dead"]
    BY <1>3 DEF ProcessEnds
  <2>2. /\ verdict = [verdict EXCEPT ![t] = verdict[t]] /\ verdict[t] \in {"running", "exited", "killed"}
        /\ killTx = [killTx EXCEPT ![t] = killTx[t]] /\ killTx[t] \in {"held", "sent", "fired", "done"}
    BY <1>1, <1>2 DEF ShellTypes
  <2> QED
    BY <1>1, <1>2, <2>1, <2>2 DEF killVars, KillTypes
<1>4. CASE TakeSignal(t)
  <2>1. /\ UNCHANGED <<registry, kind, verdict, back, outputVars, callVars, killVars>>
        /\ killTx' = [killTx EXCEPT ![t] = "fired"]
        /\ proc' = [proc EXCEPT ![t] = IF proc[t] = "alive" THEN "dead" ELSE proc[t]]
    BY <1>4 DEF TakeSignal
  <2>2. /\ verdict = [verdict EXCEPT ![t] = verdict[t]] /\ verdict[t] \in {"running", "exited", "killed"}
        /\ (IF proc[t] = "alive" THEN "dead" ELSE proc[t]) \in {"none", "dead", "reaped"}
    BY <1>1, <1>2 DEF ShellTypes
  <2>3. UNCHANGED kpc /\ KillTypes'
    BY <1>1, <2>1 DEF killVars, KillTypes
  <2>4. verdict' \in {[verdict EXCEPT ![t] = v] : v \in {"running", "exited", "killed"}}
    BY <2>1, <2>2
  <2>5. proc' \in {[proc EXCEPT ![t] = p] : p \in {"none", "dead", "reaped"}}
    BY <2>1, <2>2
  <2> QED
    BY <1>2, <2>1, <2>3, <2>4, <2>5
<1>5. CASE Reap(t)
  <2>1. /\ UNCHANGED <<registry, kind, back, killTx, outputVars, callVars>> /\ FinishAs(t, "exited")
        /\ proc' = [proc EXCEPT ![t] = "reaped"]
    BY <1>5 DEF Reap
  <2>2. /\ verdict' = [verdict EXCEPT ![t] = IF Done(t) THEN @ ELSE "exited"]
        /\ verdict'[t] \in {"exited", "killed"}
        /\ KillTypes' /\ \A c \in Callers : kpc'[c] # "idle" => kpc[c] # "idle"
    BY <1>1, <1>2, <2>1, Finishing
  <2>3. Done(t) => verdict'[t] = verdict[t] /\ verdict[t] \in {"exited", "killed"}
    BY <1>1, <2>2 DEF ShellTypes, Done, Terminal
  <2>4. killTx = [killTx EXCEPT ![t] = killTx[t]] /\ killTx[t] \in {"held", "sent", "fired", "done"}
    BY <1>1 DEF ShellTypes
  <2>5. verdict' \in {[verdict EXCEPT ![t] = v] : v \in {"running", "exited", "killed"}}
    BY <2>2, <2>3
  <2> QED
    BY <1>2, <2>1, <2>2, <2>3, <2>4, <2>5
<1>6. CASE Killed(t)
  <2>1. /\ UNCHANGED <<registry, kind, back, outputVars, callVars>> /\ FinishAs(t, "killed")
        /\ killTx' = [killTx EXCEPT ![t] = "done"] /\ killTx[t] = "fired"
        /\ proc' = [proc EXCEPT ![t] = IF kind[t] = "pipe" THEN "reaped" ELSE proc[t]]
    BY <1>6 DEF Killed
  <2>2. /\ verdict' = [verdict EXCEPT ![t] = IF Done(t) THEN @ ELSE "killed"]
        /\ verdict'[t] \in {"exited", "killed"}
        /\ KillTypes' /\ \A c \in Callers : kpc'[c] # "idle" => kpc[c] # "idle"
    BY <1>1, <1>2, <2>1, Finishing
  <2>3. Done(t) => verdict'[t] = verdict[t] /\ verdict[t] \in {"exited", "killed"}
    BY <1>1, <2>2 DEF ShellTypes, Done, Terminal
  <2>4. (IF kind[t] = "pipe" THEN "reaped" ELSE proc[t]) \in {"none", "dead", "reaped"}
    BY <1>1, <2>1 DEF ShellTypes, TaskInv
  <2>5. verdict' \in {[verdict EXCEPT ![t] = v] : v \in {"running", "exited", "killed"}}
    BY <2>2, <2>3
  <2>6. proc' \in {[proc EXCEPT ![t] = p] : p \in {"none", "dead", "reaped"}}
    BY <2>1, <2>4
  <2> QED
    BY <1>2, <2>1, <2>2, <2>3, <2>5, <2>6
<1> QED
  BY <1>3, <1>4, <1>5, <1>6 DEF Ends

-----------------------------------------------------------------------------
\* Every step keeps the facts about the shells.
LEMMA ShellKept ==
  ASSUME ShellInv, Next
  PROVE  /\ ShellTypes'
         /\ \A t \in Tasks : TaskInv(t)'
<1>1. ShellTypes /\ OutputTypes /\ CallTypes /\ KillTypes /\ \A t \in Tasks : TaskInv(t) /\ OutputInv(t)
  BY TypeParts DEF ShellInv
<1>2. back' \in [Tasks -> BOOLEAN] /\ \A t \in Tasks : Known(t) => Known(t)'
  BY <1>1, BackTyped, CallTypesKept
<1>3. \A t \in Tasks : ~Known(t)' => ~Known(t) /\ pipe'[t] = 0 /\ total'[t] = 0
  <2> SUFFICES ASSUME NEW t \in Tasks, ~Known(t)' PROVE pipe'[t] = 0 /\ total'[t] = 0
    BY <1>2
  <2>1. ~Known(t) /\ pipe[t] = 0 /\ total[t] = 0 /\ proc[t] = "none"
    BY <1>1, <1>2 DEF TaskInv
  <2>2. CASE UNCHANGED outputVars
    BY <2>1, <2>2 DEF outputVars
  <2>3. ASSUME NEW u \in Tasks, Advances(u) PROVE pipe'[t] = 0 /\ total'[t] = 0
    BY <2>1, <2>3 DEF Advances
  <2>4. ASSUME NEW u \in Tasks, Produce(u) PROVE pipe'[t] = 0 /\ total'[t] = 0
    BY <1>1, <2>1, <2>4 DEF Produce, OutputTypes
  <2>5. ASSUME NEW u \in Tasks, ReadPipe(u) PROVE pipe'[t] = 0 /\ total'[t] = 0
    BY <1>1, <2>1, <2>5 DEF ReadPipe, OutputTypes
  <2> QED
    BY <1>1, <2>2, <2>3, <2>4, <2>5, OutputNext
<1>4. CASE Quiet
  <2>1. ShellTypes'
    BY <1>1, <1>2, <1>4 DEF ShellTypes, Quiet
  <2>2. UNCHANGED <<registry, verdict, killTx, proc>>
    BY <1>4 DEF Quiet
  <2>3. \A t \in Tasks : Listed(t)' <=> Listed(t)
    BY <2>2 DEF Listed
  <2>4. \A t \in Tasks : Known(t)' => Known(t)
    <3>1. ASSUME NEW u \in Tasks, Starts(u) PROVE FALSE
      <4>1. call[u] = "none" /\ verdict' = [verdict EXCEPT ![u] = "running"]
        BY <3>1, StartsDo DEF StartEffect
      <4>2. verdict[u] = "none"
        BY <1>1, <4>1 DEF TaskInv, Known
      <4> QED
        BY <1>1, <2>2, <4>1, <4>2 DEF ShellTypes
    <3>2. ASSUME NEW u \in Tasks, Steps(u) PROVE \A t \in Tasks : Known(t)' => Known(t)
      BY <1>1, <3>2 DEF Steps, Known, CallTypes
    <3>3. CASE UNCHANGED call
      BY <3>3 DEF Known
    <3> QED
      BY <1>1, <3>1, <3>2, <3>3, CallNext
  <2>5. ASSUME NEW t \in Tasks PROVE TaskInv(t)'
    <3>1. verdict'[t] = verdict[t] /\ killTx'[t] = killTx[t] /\ proc'[t] = proc[t] /\ (Listed(t)' <=> Listed(t))
      BY <2>2, <2>3
    <3>2. /\ Known(t) <=> Known(t)'
          /\ ~Known(t)' => pipe'[t] = 0 /\ total'[t] = 0
      BY <1>2, <1>3, <2>4
    <3> QED
      BY <1>1, <3>1, <3>2 DEF TaskInv
  <2> QED
    BY <2>1, <2>5
<1>5. ASSUME NEW t \in Tasks, Starts(t) PROVE ShellTypes' /\ \A u \in Tasks : TaskInv(u)'
  <2>1. StartEffect(t)
    BY <1>5, StartsDo
  <2>2. registry' \in Seq(Tasks) /\ IsInjective(registry')
    BY <1>1, <2>1, Started
  <2>3. PICK out \in SUBSET ToSet(registry) :
          /\ \A o \in out : Done(o) /\ out = {o}
          /\ ToSet(registry') = (ToSet(registry) \ out) \cup {t}
    BY <1>1, <2>1, Started
  <2>4. /\ kind' \in [Tasks -> {"pipe", "pty", "inter"}]
        /\ verdict' \in [Tasks -> {"none", "running", "exited", "killed"}]
        /\ proc' \in [Tasks -> {"none", "alive", "dead", "reaped"}]
        /\ killTx' = killTx
    BY <1>1, <2>1 DEF StartEffect, ShellTypes
  <2>5. ShellTypes'
    BY <1>1, <1>2, <2>2, <2>4 DEF ShellTypes
  <2>6. call[t] = "none" /\ call'[t] # "none" /\ \A u \in Tasks : u # t => call'[u] = call[u]
    BY <1>1, <2>1 DEF StartEffect, CallTypes
  <2>7. /\ verdict'[t] = "running" /\ proc'[t] = "alive"
        /\ \A u \in Tasks : u # t => verdict'[u] = verdict[u] /\ proc'[u] = proc[u]
    BY <1>1, <2>1 DEF StartEffect, ShellTypes
  <2>8. TaskInv(t)'
    <3>1. killTx[t] = "held" /\ Listed(t)' /\ Known(t)'
      BY <1>1, <2>3, <2>6 DEF TaskInv, Known, Listed
    <3> QED
      BY <2>4, <2>7, <3>1 DEF TaskInv
  <2>9. ASSUME NEW u \in Tasks, u # t PROVE TaskInv(u)'
    <3>1. Known(u)' <=> Known(u)
      BY <2>6, <2>9 DEF Known
    <3>2. verdict[u] = "running" => (Listed(u)' <=> Listed(u))
      BY <2>3, <2>9 DEF Listed, Done, Terminal
    <3>3. Listed(u)' => Listed(u)
      BY <2>3, <2>9 DEF Listed
    <3>4. ~Known(u)' => pipe'[u] = 0 /\ total'[u] = 0
      BY <1>3
    <3> QED
      BY <1>1, <2>4, <2>7, <2>9, <3>1, <3>2, <3>3, <3>4 DEF TaskInv
  <2> QED
    BY <2>5, <2>8, <2>9
<1>6. ASSUME NEW t \in Tasks, Ends(t) PROVE ShellTypes' /\ \A u \in Tasks : TaskInv(u)'
  <2>1. /\ UNCHANGED <<registry, kind, back, callVars, outputVars>>
        /\ verdict[t] # "none" /\ Known(t)
        /\ verdict' \in {[verdict EXCEPT ![t] = v] : v \in {"running", "exited", "killed"}}
        /\ verdict'[t] = "running" => verdict[t] = "running"
        /\ killTx' \in {[killTx EXCEPT ![t] = k] : k \in {"held", "sent", "fired", "done"}}
        /\ proc' \in {[proc EXCEPT ![t] = p] : p \in {"none", "dead", "reaped"}}
    BY <1>6, EndsDo
  <2>2. ShellTypes'
    BY <1>1, <2>1 DEF ShellTypes
  <2>3. verdict'[t] # "none" /\ proc'[t] # "alive" /\ Known(t)'
    BY <1>1, <1>2, <2>1 DEF ShellTypes
  <2>4. \A u \in Tasks : u # t => verdict'[u] = verdict[u] /\ killTx'[u] = killTx[u] /\ proc'[u] = proc[u]
    BY <1>1, <2>1 DEF ShellTypes
  <2>5. \A u \in Tasks : (Listed(u)' <=> Listed(u)) /\ (Known(u)' <=> Known(u))
    BY <2>1 DEF Listed, Known, callVars
  <2>6. TaskInv(t)'
    <3>1. verdict'[t] = "running" => Listed(t)'
      BY <1>1, <2>1, <2>5 DEF TaskInv
    <3> QED
      BY <2>3, <3>1 DEF TaskInv
  <2>7. ASSUME NEW u \in Tasks, u # t PROVE TaskInv(u)'
    <3>1. verdict'[u] = verdict[u] /\ killTx'[u] = killTx[u] /\ proc'[u] = proc[u]
      BY <2>4, <2>7
    <3> QED
      BY <1>1, <1>3, <2>5, <3>1 DEF TaskInv
  <2> QED
    BY <2>2, <2>6, <2>7
<1>7. ASSUME NEW t \in Tasks, Interrupted(t) \/ Leave(t) PROVE ShellTypes' /\ \A u \in Tasks : TaskInv(u)'
  <2>1. Unregister(t) /\ UNCHANGED <<kind, verdict, back, killTx, proc>> /\ Known(t)
    BY <1>7 DEF Interrupted, Leave, Step, Known
  <2>2. /\ registry' \in Seq(Tasks) /\ IsInjective(registry')
        /\ \/ ToSet(registry') = ToSet(registry)
           \/ Listed(t) /\ Done(t) /\ ToSet(registry') = ToSet(registry) \ {t}
    BY <1>1, <2>1, Unregistered
  <2>3. ShellTypes'
    BY <1>1, <2>1, <2>2 DEF ShellTypes
  <2>4. ASSUME NEW u \in Tasks PROVE TaskInv(u)'
    <3>1. Listed(u)' => Listed(u)
      BY <2>2 DEF Listed
    <3>2. verdict[u] = "running" /\ Listed(u) => Listed(u)'
      BY <2>2 DEF Listed, Done, Terminal
    <3>3. Known(u) => Known(u)'
      BY <1>2
    <3>4. Known(u)' => Known(u)
      BY <1>1, <1>7, <2>1 DEF Interrupted, Leave, Step, Known, CallTypes
    <3> QED
      BY <1>1, <1>3, <2>1, <3>1, <3>2, <3>3, <3>4 DEF TaskInv
  <2> QED
    BY <2>3, <2>4
<1>8. ASSUME NEW c \in Callers, KillSend(c) PROVE ShellTypes' /\ \A u \in Tasks : TaskInv(u)'
  <2> DEFINE t == Target(c)
  <2>1. t \in Tasks /\ Known(t)
    BY <1>8, Targets DEF ShellInv, CallerInv, KillSend
  <2> HIDE DEF t
  <2>2. /\ killTx' = [killTx EXCEPT ![t] = IF killTx[t] = "held" THEN "sent" ELSE killTx[t]]
        /\ UNCHANGED <<registry, kind, verdict, back, proc, outputVars, callVars>>
    BY <1>8 DEF KillSend, t
  <2>3. ShellTypes'
    BY <1>1, <2>1, <2>2 DEF ShellTypes
  <2>4. \A u \in Tasks : (Listed(u)' <=> Listed(u)) /\ (Known(u)' <=> Known(u))
    BY <2>2 DEF Listed, Known, callVars
  <2>5. ASSUME NEW u \in Tasks PROVE TaskInv(u)'
    <3>1. /\ killTx[u] \in {"held", "sent"} => killTx'[u] \in {"held", "sent"}
          /\ ~Known(u) => killTx'[u] = killTx[u]
      BY <1>1, <2>1, <2>2 DEF ShellTypes
    <3>2. verdict'[u] = verdict[u] /\ proc'[u] = proc[u]
      BY <2>2
    <3> QED
      BY <1>1, <1>3, <2>4, <3>1, <3>2 DEF TaskInv
  <2> QED
    BY <2>3, <2>5
<1> QED
  BY <1>4, <1>5, <1>6, <1>7, <1>8, ShellNext

-----------------------------------------------------------------------------
\* Every step keeps the facts about the callers of kill.
LEMMA CallersKept ==
  ASSUME ShellInv, Next
  PROVE  KillTypes' /\ \A c \in Callers : CallerInv(c)'
<1>1. ShellTypes /\ CallTypes /\ KillTypes /\ \A t \in Tasks : TaskInv(t)
  BY TypeParts DEF ShellInv
<1>2. \A t \in Tasks : Known(t) => Known(t)'
  BY <1>1, CallTypesKept
<1>3. \A c \in Callers : Target(c)' = Target(c)
  BY DEF Target
<1>4. \A t \in Tasks : Listed(t) => Known(t)
  BY <1>1 DEF TaskInv
<1>5. SUFFICES KillTypes' /\ \A c \in Callers : kpc'[c] # "idle" => kpc[c] # "idle" \/ Known(Target(c))
  BY <1>2, <1>3, Targets DEF ShellInv, CallerInv
<1>6. CASE UNCHANGED killVars
  BY <1>1, <1>6 DEF killVars, KillTypes
<1>7. ASSUME NEW t \in Tasks, NotifyWaiters(t), UNCHANGED missed
      PROVE  KillTypes' /\ \A c \in Callers : kpc'[c] # "idle" => kpc[c] # "idle"
  BY <1>1, <1>7 DEF NotifyWaiters, KillTypes
<1>8. ASSUME NEW t \in Tasks, UNCHANGED missed, Known(t),
             kpc' \in {[kpc EXCEPT ![t] = x] : x \in {"take", "idle"}}
      PROVE  KillTypes' /\ \A c \in Callers : kpc'[c] # "idle" => kpc[c] # "idle" \/ Known(Target(c))
  BY <1>1, <1>8, OwnTarget DEF KillTypes
<1>9. ASSUME NEW t \in Tasks, Cancelled(t) \/ LookCancelled(t)
      PROVE  KillTypes' /\ \A c \in Callers : kpc'[c] # "idle" => kpc[c] # "idle" \/ Known(Target(c))
  <2>1. UNCHANGED missed /\ Known(t) /\ kpc' \in {[kpc EXCEPT ![t] = x] : x \in {"take", "idle"}}
    BY <1>9 DEF Cancelled, LookCancelled, Step, Known
  <2> QED
    BY <1>8, <2>1
<1>10. ASSUME NEW t \in Tasks,
              PollOver(t) \/ PollPending(t) \/ PollBackground(t) \/ Tick(t) \/ Interrupted(t) \/ Leave(t)
                \/ Arm(t) \/ ArmFirst(t) \/ Look(t) \/ Settled(t) \/ LookInterrupted(t) \/ HandOver(t)
                \/ Produce(t) \/ BashOutput(t) \/ BashInput(t)
       PROVE  UNCHANGED killVars
  BY <1>10 DEF PollOver, PollPending, PollBackground, Tick, Interrupted, Leave, Arm, ArmFirst, Look, Settled,
     LookInterrupted, HandOver, Produce, BashOutput, BashInput
<1>11. ASSUME NEW t \in Tasks, ReadPipe(t) \/ Promote(t) \/ TimesOut(t)
       PROVE  NotifyWaiters(t) /\ UNCHANGED missed
  BY <1>11 DEF ReadPipe, Promote, TimesOut
<1>12. ASSUME NEW t \in Tasks, Starts(t) PROVE UNCHANGED killVars
  BY <1>12, StartsDo DEF StartEffect
<1>13. ASSUME NEW t \in Tasks, Ends(t)
       PROVE  KillTypes' /\ \A c \in Callers : kpc'[c] # "idle" => kpc[c] # "idle"
  BY <1>13, EndsDo
<1>14. ASSUME NEW c \in Callers, KillStart(c) \/ KillStep(c)
       PROVE  KillTypes' /\ \A d \in Callers : kpc'[d] # "idle" => kpc[d] # "idle" \/ Known(Target(d))
  <2>1. /\ UNCHANGED missed /\ \E x \in {"idle", "take", "check", "gap", "asleep"} : kpc' = [kpc EXCEPT ![c] = x]
        /\ kpc[c] # "idle" \/ Listed(Target(c))
    BY <1>14 DEF KillStart, KillStep, KillSend, KillCheck, KillListen
  <2>2. KillTypes' /\ \A d \in Callers : d # c => kpc'[d] = kpc[d]
    BY <1>1, <2>1 DEF KillTypes
  <2> QED
    BY <1>4, <2>1, <2>2, Targets
<1> QED
  BY <1>6, <1>7, <1>9, <1>10, <1>11, <1>12, <1>13, <1>14 DEF Next, CallStep, Callers, Starts, Ends

-----------------------------------------------------------------------------
\* The invariant holds initially.
LEMMA ShellInit == Init => ShellInv
<1> SUFFICES ASSUME Init PROVE ShellInv
  OBVIOUS
<1> USE ShellsAssumption
<1>1. ShellTypes
  <2>1. registry \in Seq(Tasks) /\ IsInjective(registry)
    BY DEF Init, IsInjective
  <2> QED
    BY <2>1 DEF Init, ShellTypes
<1>2. OutputTypes /\ CallTypes /\ KillTypes
  BY DEF Init, OutputTypes, CallTypes, KillTypes
<1>3. ASSUME NEW t \in Tasks PROVE TaskInv(t) /\ OutputInv(t)
  <2>1. ~Listed(t)
    BY DEF Init, Listed, ToSet
  <2>2. TaskInv(t)
    BY <2>1 DEF Init, TaskInv, Known
  <2>3. seen[t] = {} /\ gone[t] = {} /\ cursor[t] = 0 /\ pipe[t] = 0 /\ total[t] = 0 /\ 1 .. 0 = {}
    BY DEF Init
  <2>4. OutputInv(t)
    BY <2>3 DEF OutputInv
  <2> QED
    BY <2>2, <2>4
<1>4. \A c \in Callers : CallerInv(c)
  BY DEF Init, CallerInv
<1> QED
  BY <1>1, <1>2, <1>3, <1>4, TypeParts DEF ShellInv

\* Every step keeps the invariant.
LEMMA ShellStep == ShellInv /\ [Next]_vars => ShellInv'
<1> SUFFICES ASSUME ShellInv, [Next]_vars PROVE ShellInv'
  OBVIOUS
<1>1. ShellTypes /\ OutputTypes /\ CallTypes /\ KillTypes
  BY TypeParts DEF ShellInv
<1>2. CASE Next
  <2>1. ShellTypes' /\ \A t \in Tasks : TaskInv(t)'
    BY <1>2, ShellKept
  <2>2. OutputTypes' /\ \A t \in Tasks : OutputInv(t)'
    BY <1>1, <1>2, OutputKept DEF ShellInv
  <2>3. CallTypes'
    BY <1>1, <1>2, CallTypesKept
  <2>4. KillTypes' /\ \A c \in Callers : CallerInv(c)'
    BY <1>2, CallersKept
  <2>5. TypeOK'
    BY <2>1, <2>2, <2>3, <2>4 DEF TypeOK, ShellTypes, OutputTypes, CallTypes, KillTypes
  <2> QED
    BY <2>1, <2>2, <2>4, <2>5 DEF ShellInv
<1>3. CASE UNCHANGED vars
  <2>1. UNCHANGED <<registry, kind, verdict, back, killTx, proc, pipe, total, cursor, seen, gone, call, armed, kpc, missed>>
    BY <1>3 DEF vars, shellVars, outputVars, callVars, killVars
  <2>2. TypeOK'
    BY <2>1 DEF ShellInv, TypeOK
  <2>3. ASSUME NEW t \in Tasks PROVE TaskInv(t)' /\ OutputInv(t)'
    BY <2>1 DEF ShellInv, TaskInv, OutputInv, Known, Listed
  <2>4. \A c \in Callers : CallerInv(c)'
    BY <2>1 DEF ShellInv, CallerInv, Known, Target
  <2> QED
    BY <2>2, <2>3, <2>4 DEF ShellInv
<1> QED
  BY <1>2, <1>3

\* The invariant holds throughout.
THEOREM ShellInvariant == Spec => []ShellInv
BY ShellInit, ShellStep, PTL DEF Spec

\* The variables of the shells, their output, the calls and the callers of kill keep
\* their types, and no command is in the registry twice.
THEOREM TypeCorrect == Spec => []TypeOK
<1>1. ShellInv => TypeOK
  BY DEF ShellInv
<1> QED
  BY <1>1, ShellInvariant, PTL

\* A live process is in the registry, whatever is evicted at the limit, unregistered or
\* killed meanwhile, for a registry of any size (NoOrphan; background.rs register,
\* unregister).
THEOREM LiveIsListed == Spec => []NoOrphan
<1>1. ShellInv => NoOrphan
  BY DEF ShellInv, TaskInv, NoOrphan
<1> QED
  BY <1>1, ShellInvariant, PTL

\* Every unit of output is returned once or passed over once, for a tail and a chunk of
\* any size (OutputAccounted; background.rs read_incremental, mark_read_to_end).
THEOREM OutputReadOnce == Spec => []OutputAccounted
<1>1. ShellInv => OutputAccounted
  BY DEF ShellInv, OutputInv, OutputAccounted
<1> QED
  BY <1>1, ShellInvariant, PTL

-----------------------------------------------------------------------------
\* The initial states are those of TaskTable.
LEMMA TableStart == Init => Table!TableInit
BY DEF Init, Table!TableInit, ToSet

\* Every step is one of TaskTable or leaves its variables alone.
LEMMA TableStep ==
  ASSUME ShellInv, Next
  PROVE  Table!TableNext \/ UNCHANGED Table!tableVars
<1>1. ShellTypes /\ \A t \in Tasks : TaskInv(t)
  BY TypeParts DEF ShellInv
<1>2. \A t \in Tasks : Done(t) <=> Table!Terminal(verdict[t])
  BY DEF Done, Terminal, Table!Terminal
<1>3. CASE UNCHANGED <<registry, verdict>>
  BY <1>3 DEF Table!tableVars
<1>4. ASSUME NEW t \in Tasks, Starts(t) PROVE Table!Add(t)
  <2>1. StartEffect(t)
    BY <1>4, StartsDo
  <2>2. PICK out \in SUBSET ToSet(registry) :
          /\ \A o \in out : Done(o) /\ out = {o}
          /\ ToSet(registry') = (ToSet(registry) \ out) \cup {t}
    BY <1>1, <2>1, Started
  <2>3. \A o \in out : Table!Terminal(verdict[o]) /\ out = {o}
    BY <2>2 DEF Done, Terminal, Table!Terminal
  <2>4. verdict[t] = "none" /\ verdict' = [verdict EXCEPT ![t] = "running"]
    BY <1>1, <2>1 DEF TaskInv, StartEffect, Known
  <2> QED
    BY <2>2, <2>3, <2>4 DEF Table!Add
<1>5. ASSUME NEW t \in Tasks, Ends(t) PROVE Table!Finish(t) \/ UNCHANGED <<registry, verdict>>
  <2>1. /\ UNCHANGED registry /\ verdict[t] # "none"
        /\ verdict' \in {[verdict EXCEPT ![t] = v] : v \in {"running", "exited", "killed"}}
        /\ verdict'[t] = "running" => verdict[t] = "running"
        /\ Done(t) => verdict'[t] = verdict[t]
    BY <1>5, EndsDo
  <2>2. PICK v \in {"running", "exited", "killed"} : verdict' = [verdict EXCEPT ![t] = v]
    BY <2>1
  <2>3. v = verdict'[t] /\ verdict[t] \in {"running", "exited", "killed"}
    BY <1>1, <2>1, <2>2 DEF ShellTypes
  <2>4. CASE v = verdict[t]
    BY <1>1, <2>1, <2>2, <2>4 DEF ShellTypes
  <2>5. CASE v # verdict[t]
    <3>1. verdict[t] = "running" /\ v \in {"exited", "killed"}
      BY <2>1, <2>3, <2>5 DEF Done, Terminal
    <3>2. verdict' \in {[verdict EXCEPT ![t] = x] : x \in {"exited", "killed"}}
      BY <2>2, <3>1
    <3> QED
      BY <2>1, <3>1, <3>2 DEF Table!Finish
  <2> QED
    BY <2>4, <2>5
<1>6. ASSUME NEW t \in Tasks, Interrupted(t) \/ Leave(t)
      PROVE  Table!Remove(t) \/ UNCHANGED <<ToSet(registry), verdict>>
  <2>1. Unregister(t) /\ UNCHANGED verdict
    BY <1>6 DEF Interrupted, Leave
  <2> QED
    BY <1>1, <1>2, <2>1, Unregistered DEF Table!Remove, Listed
<1>7. ASSUME NEW c \in Callers, KillSend(c) PROVE UNCHANGED <<registry, verdict>>
  BY <1>7 DEF KillSend
<1>8. Quiet => UNCHANGED <<registry, verdict>>
  BY DEF Quiet
<1> QED
  BY <1>3, <1>4, <1>5, <1>6, <1>7, <1>8, ShellNext DEF Table!TableNext, Table!tableVars

\* The shells implement TaskTable: a command has one verdict, the first, and leaves the
\* registry only after it (KeepsVerdicts; BackgroundShell::finish, BgTaskRegistry).
THEOREM ShellsKeepVerdicts == Spec => KeepsVerdicts
<1>1. ShellInv /\ [Next]_vars => [Table!TableNext]_(Table!tableVars)
  <2> SUFFICES ASSUME ShellInv, [Next]_vars PROVE Table!TableNext \/ UNCHANGED Table!tableVars
    OBVIOUS
  <2>1. CASE Next
    BY <2>1, TableStep
  <2>2. CASE UNCHANGED vars
    BY <2>2 DEF vars, shellVars, Table!tableVars
  <2> QED
    BY <2>1, <2>2
<1> QED
  BY <1>1, TableStart, ShellInvariant, PTL DEF Spec, KeepsVerdicts, Table!TableSpec
=============================================================================
