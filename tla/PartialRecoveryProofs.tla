------------------------ MODULE PartialRecoveryProofs ------------------------
(***************************************************************************)
(* Proofs of the invariants of PartialRecovery, for any number of runs,    *)
(* fragments, recoverers and inodes.                                       *)
(*                                                                         *)
(* The argument rests on four facts.  As long as there is a sidecar, its   *)
(* .live name and whoever has .live open agree on the inode (ActorHolds,   *)
(* RecovererHolds), so the locks of those who look at one sidecar exclude  *)
(* each other (Exclusive, OneHolder); a lock once obtained shows that the  *)
(* run is gone, and from then on its sidecar can only disappear            *)
(* (RecovererOK); and a sidecar overlaps session.jsonl only in the hands   *)
(* of the one recoverer that is about to remove it, or if the run was torn *)
(* (OverlapOK).                                                            *)
(***************************************************************************)
EXTENDS PartialRecovery, TLAPS

\* The actor of run r is there.
Alive(r) == wpc[r] \in {"run", "flushing", "finishing", "dropped"}

\* What the persister and its actor know of what they have written.
WriterOK(r) ==
  /\ wpc[r] = "none" => /\ partial[r] = {} /\ landed[r] = {} /\ stored[r] = {}
                        /\ emitted[r] = 0 /\ flushed[r] = 0 /\ wrote[r] = 0
                        /\ twice[r] = {} /\ r \notin torn
  /\ wpc[r] = "done" => partial[r] = {}
  /\ wpc[r] = "flushing" => ctl[r] = "reset"
  /\ wpc[r] = "finishing" => ctl[r] # "none"
  /\ wpc[r] \notin {"flushing", "finishing"} => ctl[r] = "none"
  /\ flushed[r] <= emitted[r] /\ wrote[r] <= emitted[r]
  /\ Alive(r) /\ ctl[r] = "none" => /\ flushed[r] <= wrote[r]
                                    /\ partial[r] \subseteq (flushed[r] + 1)..wrote[r]
  /\ ctl[r] = "reset" => flushed[r] = emitted[r] /\ partial[r] \subseteq 1..wrote[r]
  /\ ctl[r] \in {"delete", "unlink"} =>
       partial[r] = {} /\ wrote[r] = emitted[r] /\ flushed[r] = emitted[r]
  /\ Alive(r) => landed[r] \subseteq 1..flushed[r] /\ twice[r] = {} /\ r \notin torn
  /\ Alive(r) /\ r \notin broken => landed[r] = 1..flushed[r]

\* The actor holds the inode that .live names.
ActorHolds(r) ==
  /\ Alive(r) => held[r] = livePath[r] /\ held[r] # NoInode
  /\ wpc[r] = "none" => livePath[r] = NoInode
  /\ wpc[r] \in {"none", "dead"} => held[r] = NoInode

\* A recoverer holds the inode it has opened, which is the one that .live names as
\* long as it matters.
RecovererHolds(q) ==
  /\ opened[q] # NoInode <=>
       pc[q] \in {"probe", "probed", "lock", "check", "fold", "rm", "unlink", "release"}
  /\ hold[q] = IF pc[q] \in {"probed", "check", "fold", "rm", "unlink", "release"}
               THEN opened[q] ELSE NoInode
  /\ opened[q] # NoInode /\ (Alive(tgt[q]) \/ partial[tgt[q]] # {}) =>
       opened[q] = livePath[tgt[q]]

\* What a recoverer knows of the run it looks at.
RecovererOK(q) ==
  /\ \A r \in todo[q] : wpc[r] # "none"
  /\ pc[q] \notin {"idle", "scan"} => tgt[q] \in Runs /\ wpc[tgt[q]] # "none"
  /\ pc[q] \notin {"idle", "scan", "probe"} => ~Alive(tgt[q])
  /\ pc[q] \in {"open", "lock", "check", "fold", "rm"} /\ partial[tgt[q]] # {} =>
       snap[q] = partial[tgt[q]]
  /\ pc[q] \in {"fold", "rm"} => partial[tgt[q]] # {}
  /\ pc[q] = "rm" => partial[tgt[q]] \subseteq landed[tgt[q]]
  /\ pc[q] \in {"unlink", "release"} => partial[tgt[q]] = {}

\* A recoverer has folded the sidecar of r and is about to remove it.
Removing(r) == \E q \in Recoverers : pc[q] = "rm" /\ tgt[q] = r

\* Only then does a sidecar overlap session.jsonl.
OverlapOK(r) ==
  /\ ~Alive(r) /\ r \notin torn /\ partial[r] \cap landed[r] # {} => Removing(r)
  /\ twice[r] # {} => r \in torn

\* StoredSurvives for one run.
StoredOK(r) == r \notin broken => stored[r] \subseteq landed[r] \cup partial[r]

\* No two recoverers hold one inode.
Exclusive == \A p, q \in Recoverers : p # q /\ hold[p] = hold[q] => hold[p] = NoInode

\* The inductive invariant.
IndInv ==
  /\ TypeOK
  /\ \A r \in Runs : WriterOK(r) /\ ActorHolds(r) /\ OverlapOK(r) /\ StoredOK(r)
  /\ \A q \in Recoverers : RecovererHolds(q) /\ RecovererOK(q)
  /\ Exclusive

-----------------------------------------------------------------------------

\* Two recoverers that have locked the sentinel of one run whose sidecar is there
\* have locked one inode, and that is impossible.
LEMMA OneHolder ==
  ASSUME IndInv, NEW p \in Recoverers, NEW q \in Recoverers, p # q,
         pc[p] \in {"check", "fold", "rm"}, pc[q] \in {"check", "fold", "rm"},
         tgt[p] = tgt[q], partial[tgt[q]] # {}
  PROVE  FALSE
<1>1. /\ opened[p] # NoInode /\ hold[p] = opened[p] /\ opened[p] = livePath[tgt[p]]
      /\ opened[q] # NoInode /\ hold[q] = opened[q] /\ opened[q] = livePath[tgt[q]]
  BY DEF IndInv, RecovererHolds
<1> QED
  BY <1>1 DEF IndInv, Exclusive

\* A step of the recoverers that leaves runs and files alone only has to preserve
\* what is said of the recoverers.
LEMMA QuietStep ==
  ASSUME IndInv, UNCHANGED <<writerVars, diskVars, historyVars>>, TypeOK', Exclusive',
         \A q \in Recoverers : RecovererHolds(q)' /\ RecovererOK(q)',
         \A r \in Runs : Removing(r) => Removing(r)'
  PROVE  IndInv'
<1>1. ASSUME NEW r \in Runs
      PROVE WriterOK(r)' /\ ActorHolds(r)' /\ OverlapOK(r)' /\ StoredOK(r)'
  BY <1>1 DEF IndInv, WriterOK, ActorHolds, OverlapOK, StoredOK, Alive,
              writerVars, diskVars, historyVars
<1> QED
  BY <1>1 DEF IndInv

\* Letting go of a sidecar preserves the invariant, unless it has been folded and
\* not removed.
LEMMA LetGoStep ==
  ASSUME IndInv, NEW q \in Recoverers, NEW where \in {"idle", "scan"},
         pc[q] # "rm", LetGo(q, where),
         UNCHANGED <<writerVars, diskVars, todo, passed, historyVars>>
  PROVE  IndInv'
<1> USE DEF LetGo, writerVars, diskVars, historyVars
<1>1. TypeOK' /\ Exclusive'
  BY DEF IndInv, TypeOK, Exclusive, RecStates
<1>2. ASSUME NEW p \in Recoverers PROVE RecovererHolds(p)' /\ RecovererOK(p)'
  BY <1>2 DEF IndInv, TypeOK, RecovererHolds, RecovererOK, Alive
<1>3. ASSUME NEW p \in Runs, Removing(p) PROVE Removing(p)'
  BY <1>3 DEF IndInv, TypeOK, Removing
<1> QED
  BY <1>1, <1>2, <1>3, QuietStep

\* The actor takes a new inode, which nobody has open: Start preserves the invariant.
LEMMA StartStep ==
  ASSUME IndInv, NEW r \in Runs, Start(r)
  PROVE  IndInv'
<1>1. PICK i \in Inodes : /\ Fresh(i)
                          /\ livePath' = [livePath EXCEPT ![r] = i]
                          /\ held' = [held EXCEPT ![r] = i]
  BY DEF Start
<1>2. IndInv'
  <2>1. TypeOK'
    BY <1>1 DEF IndInv, TypeOK, WriterStates, Start, recVars, historyVars
  <2>2. ASSUME NEW p \in Runs PROVE WriterOK(p)' /\ ActorHolds(p)' /\ StoredOK(p)'
    <3>1. CASE p = r
      <4>1. /\ wpc'[r] = "run" /\ wpc[r] = "none"
            /\ UNCHANGED <<emitted, flushed, wrote, ctl, partial, landed, historyVars>>
        BY DEF Start, IndInv, TypeOK
      <4>2. 1..0 = {} /\ 0 + 1 = 1
        OBVIOUS
      <4> QED
        BY <1>1, <3>1, <4>1, <4>2, InodeAssumption DEF IndInv, TypeOK, WriterOK,
           ActorHolds, StoredOK, Alive, historyVars
    <3>2. CASE p # r
      BY <2>2, <3>2, <1>1 DEF IndInv, TypeOK, WriterOK, ActorHolds, StoredOK, Alive, Start,
         recVars, historyVars
    <3> QED
      BY <3>1, <3>2
  <2>3. ASSUME NEW p \in Runs PROVE OverlapOK(p)'
    <3>1. Removing(p)' = Removing(p)
      BY <1>1 DEF IndInv, TypeOK, Removing, Start, recVars, historyVars
    <3> QED
      BY <2>3, <1>1, <3>1 DEF IndInv, TypeOK, OverlapOK, WriterOK, Alive, Start, recVars,
         historyVars
  <2>4. ASSUME NEW p \in Recoverers PROVE RecovererHolds(p)' /\ RecovererOK(p)'
    <3>1. opened[p] # NoInode => tgt[p] # r
      BY <2>4 DEF IndInv, RecovererHolds, RecovererOK, Start
    <3> QED
      BY <2>4, <3>1, <1>1 DEF IndInv, TypeOK, RecovererHolds, RecovererOK, Alive, Start,
         recVars
  <2>5. Exclusive'
    BY <1>1 DEF IndInv, TypeOK, Exclusive, Start, recVars, historyVars
  <2> QED
    BY <2>1, <2>2, <2>3, <2>4, <2>5 DEF IndInv
<1> QED
  BY <1>2

\* A streamed fragment changes only what is in memory:
\* Observe preserves the invariant.
LEMMA ObserveStep ==
  ASSUME IndInv, NEW r \in Runs, Observe(r)
  PROVE  IndInv'
<1>1. TypeOK'
  BY BoundsAssumption DEF IndInv, TypeOK, WriterStates, WriterOK, Frags, Observe,
     writerVars, diskVars, recVars, historyVars
<1>2. ASSUME NEW p \in Runs PROVE WriterOK(p)' /\ ActorHolds(p)' /\ StoredOK(p)'
  BY <1>2 DEF IndInv, TypeOK, WriterOK, ActorHolds, StoredOK, Alive, Observe, writerVars,
     diskVars, recVars, historyVars
<1>3. ASSUME NEW p \in Runs PROVE OverlapOK(p)'
  <2>1. Removing(p)' = Removing(p)
    BY DEF Removing, Observe, recVars
  <2> QED
    BY <1>3, <2>1 DEF IndInv, TypeOK, OverlapOK, WriterOK, Alive, Observe, writerVars,
       diskVars, recVars, historyVars
<1>4. ASSUME NEW p \in Recoverers PROVE RecovererHolds(p)' /\ RecovererOK(p)'
  BY <1>4 DEF IndInv, TypeOK, RecovererHolds, RecovererOK, WriterOK, Alive, Observe,
     writerVars, diskVars, recVars, historyVars
<1>5. Exclusive'
  BY DEF IndInv, Exclusive, Observe, recVars
<1> QED
  BY <1>1, <1>2, <1>3, <1>4, <1>5 DEF IndInv

\* The actor writes a fragment, or fails to: ActorAppend preserves the invariant.
LEMMA ActorAppendStep ==
  ASSUME IndInv, NEW r \in Runs, ActorAppend(r)
  PROVE  IndInv'
<1>1. CASE UNCHANGED <<partial, stored>>
  <2>1. TypeOK'
    BY <1>1, BoundsAssumption DEF IndInv, TypeOK, ActorAppend, recVars
  <2>2. ASSUME NEW p \in Runs PROVE WriterOK(p)' /\ ActorHolds(p)' /\ StoredOK(p)'
    BY <2>2, <1>1 DEF IndInv, TypeOK, WriterOK, ActorHolds, StoredOK, RecovererOK, Alive,
       ActorAppend, recVars
  <2>3. ASSUME NEW p \in Runs PROVE OverlapOK(p)'
    <3>1. Removing(p)' = Removing(p)
      BY <1>1 DEF IndInv, TypeOK, Removing, ActorAppend, recVars
    <3> QED
      BY <2>3, <1>1, <3>1 DEF IndInv, TypeOK, OverlapOK, WriterOK, Alive, ActorAppend,
         recVars
  <2>4. ASSUME NEW p \in Recoverers PROVE RecovererHolds(p)' /\ RecovererOK(p)'
    BY <2>4, <1>1 DEF IndInv, TypeOK, RecovererHolds, RecovererOK, WriterOK, Alive,
       ActorAppend, recVars
  <2>5. Exclusive'
    BY <1>1 DEF IndInv, TypeOK, Exclusive, ActorAppend, recVars
  <2> QED
    BY <2>1, <2>2, <2>3, <2>4, <2>5 DEF IndInv
<1>2. CASE /\ partial' = [partial EXCEPT ![r] = @ \cup {wrote[r] + 1}]
          /\ stored' = [stored EXCEPT ![r] = @ \cup {wrote[r] + 1}]
  <2>1. TypeOK'
    BY <1>2, BoundsAssumption DEF IndInv, TypeOK, Frags, ActorAppend, recVars
  <2>2. ASSUME NEW p \in Runs PROVE WriterOK(p)' /\ ActorHolds(p)' /\ StoredOK(p)'
    BY <2>2, <1>2 DEF IndInv, TypeOK, WriterOK, ActorHolds, StoredOK, RecovererOK, Alive,
       ActorAppend, recVars
  <2>3. ASSUME NEW p \in Runs PROVE OverlapOK(p)'
    <3>1. Removing(p)' = Removing(p)
      BY <1>2 DEF IndInv, TypeOK, Removing, ActorAppend, recVars
    <3> QED
      BY <2>3, <1>2, <3>1 DEF IndInv, TypeOK, OverlapOK, WriterOK, Alive, ActorAppend,
         recVars
  <2>4. ASSUME NEW p \in Recoverers PROVE RecovererHolds(p)' /\ RecovererOK(p)'
    BY <2>4, <1>2 DEF IndInv, TypeOK, RecovererHolds, RecovererOK, WriterOK, Alive,
       ActorAppend, recVars
  <2>5. Exclusive'
    BY <1>2 DEF IndInv, TypeOK, Exclusive, ActorAppend, recVars
  <2> QED
    BY <2>1, <2>2, <2>3, <2>4, <2>5 DEF IndInv
<1> QED
  BY <1>1, <1>2 DEF ActorAppend

\* A segment lands: the actor's channel now ends in Reset:
\* Flush preserves the invariant.
LEMMA FlushStep ==
  ASSUME IndInv, NEW r \in Runs, NEW into \in {"flushing", "finishing"}, Flush(r, into)
  PROVE  IndInv'
<1>1. TypeOK'
  BY BoundsAssumption DEF IndInv, TypeOK, WriterStates, WriterOK, Frags, Flush, Land,
     recVars
<1>2. ASSUME NEW p \in Runs PROVE WriterOK(p)'
  <2>1. CASE p # r
    BY <1>2, <2>1 DEF IndInv, TypeOK, WriterOK, Alive, Flush, Land
  <2>2. CASE p = r
    <3>1. /\ Alive(r) /\ ctl[r] = "none" /\ wpc'[r] = into /\ ctl'[r] = "reset"
          /\ flushed'[r] = emitted[r] /\ emitted' = emitted /\ wrote' = wrote
          /\ partial' = partial /\ torn' = torn /\ broken' = broken
          /\ landed'[r] = landed[r] \cup ((flushed[r] + 1)..emitted[r])
          /\ twice'[r] = twice[r] \cup (landed[r] \cap ((flushed[r] + 1)..emitted[r]))
      BY DEF IndInv, TypeOK, WriterOK, Alive, Flush, Land
    <3>2. /\ flushed[r] \in Nat /\ emitted[r] \in Nat /\ wrote[r] \in Nat
          /\ flushed[r] <= emitted[r] /\ wrote[r] <= emitted[r]
          /\ landed[r] \subseteq 1..flushed[r] /\ twice[r] = {} /\ r \notin torn
          /\ partial[r] \subseteq (flushed[r] + 1)..wrote[r]
          /\ r \notin broken => landed[r] = 1..flushed[r]
      BY <3>1, BoundsAssumption DEF IndInv, TypeOK, WriterOK
    <3>3. landed'[r] \subseteq 1..emitted[r] /\ twice'[r] = {} /\ partial[r] \subseteq 1..wrote[r]
      BY <3>1, <3>2
    <3>4. r \notin broken => landed'[r] = 1..emitted[r]
      BY <3>1, <3>2
    <3> QED
      BY <2>2, <3>1, <3>2, <3>3, <3>4 DEF WriterOK, Alive
  <2> QED
    BY <2>1, <2>2
<1>3. ASSUME NEW p \in Runs PROVE ActorHolds(p)' /\ StoredOK(p)'
  BY <1>3 DEF IndInv, TypeOK, ActorHolds, StoredOK, Alive, Flush, Land
<1>4. ASSUME NEW p \in Runs PROVE OverlapOK(p)'
  <2>1. Removing(p)' = Removing(p)
    BY DEF Removing, Flush, recVars
  <2> QED
    BY <1>2, <1>4, <2>1 DEF IndInv, TypeOK, OverlapOK, WriterOK, Alive, Flush, Land
<1>5. ASSUME NEW p \in Recoverers PROVE RecovererHolds(p)' /\ RecovererOK(p)'
  BY <1>5 DEF IndInv, TypeOK, RecovererHolds, RecovererOK, Alive, Flush, Land, recVars
<1>6. Exclusive'
  BY DEF IndInv, Exclusive, Flush, recVars
<1> QED
  BY <1>1, <1>2, <1>3, <1>4, <1>5, <1>6 DEF IndInv

\* A segment is dropped by a failed append: FlushFails preserves the invariant.
LEMMA FlushFailsStep ==
  ASSUME IndInv, NEW r \in Runs, NEW into \in {"flushing", "finishing"}, FlushFails(r, into)
  PROVE  IndInv'
<1>1. TypeOK'
  BY BoundsAssumption DEF IndInv, TypeOK, WriterStates, WriterOK, Frags, FlushFails,
     writerVars, diskVars, recVars, historyVars
<1>2. ASSUME NEW p \in Runs PROVE WriterOK(p)' /\ ActorHolds(p)' /\ StoredOK(p)'
  BY <1>2 DEF IndInv, TypeOK, WriterOK, ActorHolds, StoredOK, Alive, FlushFails,
     writerVars, diskVars, recVars, historyVars
<1>3. ASSUME NEW p \in Runs PROVE OverlapOK(p)'
  <2>1. Removing(p)' = Removing(p)
    BY DEF Removing, FlushFails, recVars
  <2> QED
    BY <1>3, <2>1 DEF IndInv, TypeOK, OverlapOK, WriterOK, Alive, FlushFails, writerVars,
       diskVars, recVars, historyVars
<1>4. ASSUME NEW p \in Recoverers PROVE RecovererHolds(p)' /\ RecovererOK(p)'
  BY <1>4 DEF IndInv, TypeOK, RecovererHolds, RecovererOK, WriterOK, Alive, FlushFails,
     writerVars, diskVars, recVars, historyVars
<1>5. Exclusive'
  BY DEF IndInv, Exclusive, FlushFails, recVars
<1> QED
  BY <1>1, <1>2, <1>3, <1>4, <1>5 DEF IndInv

\* The actor clears a sidecar that has landed as a whole:
\* ActorReset preserves the invariant.
LEMMA ActorResetStep ==
  ASSUME IndInv, NEW r \in Runs, ActorReset(r)
  PROVE  IndInv'
<1>1. TypeOK'
  BY DEF IndInv, TypeOK, WriterStates, ActorReset, writerVars, diskVars, recVars,
     historyVars
<1>2. ASSUME NEW p \in Runs PROVE WriterOK(p)' /\ ActorHolds(p)' /\ StoredOK(p)'
  BY <1>2 DEF IndInv, TypeOK, WriterOK, ActorHolds, StoredOK, Alive, ActorReset,
     writerVars, diskVars, recVars, historyVars
<1>3. ASSUME NEW p \in Runs PROVE OverlapOK(p)'
  <2>1. Removing(p)' = Removing(p)
    BY DEF Removing, ActorReset, recVars
  <2> QED
    BY <1>3, <2>1 DEF IndInv, TypeOK, OverlapOK, WriterOK, Alive, ActorReset, writerVars,
       diskVars, recVars, historyVars
<1>4. ASSUME NEW p \in Recoverers PROVE RecovererHolds(p)' /\ RecovererOK(p)'
  BY <1>4 DEF IndInv, TypeOK, RecovererHolds, RecovererOK, WriterOK, Alive, ActorReset,
     writerVars, diskVars, recVars, historyVars
<1>5. Exclusive'
  BY DEF IndInv, Exclusive, ActorReset, recVars
<1> QED
  BY <1>1, <1>2, <1>3, <1>4, <1>5 DEF IndInv

\* The actor's Delete finds the sidecar gone already:
\* ActorDelete preserves the invariant.
LEMMA ActorDeleteStep ==
  ASSUME IndInv, NEW r \in Runs, ActorDelete(r)
  PROVE  IndInv'
<1>1. TypeOK'
  BY DEF IndInv, TypeOK, WriterStates, ActorDelete, writerVars, diskVars, recVars,
     historyVars
<1>2. ASSUME NEW p \in Runs PROVE WriterOK(p)' /\ ActorHolds(p)' /\ StoredOK(p)'
  BY <1>2 DEF IndInv, TypeOK, WriterOK, ActorHolds, StoredOK, Alive, ActorDelete,
     writerVars, diskVars, recVars, historyVars
<1>3. ASSUME NEW p \in Runs PROVE OverlapOK(p)'
  <2>1. Removing(p)' = Removing(p)
    BY DEF Removing, ActorDelete, recVars
  <2> QED
    BY <1>3, <2>1 DEF IndInv, TypeOK, OverlapOK, WriterOK, Alive, ActorDelete, writerVars,
       diskVars, recVars, historyVars
<1>4. ASSUME NEW p \in Recoverers PROVE RecovererHolds(p)' /\ RecovererOK(p)'
  BY <1>4 DEF IndInv, TypeOK, RecovererHolds, RecovererOK, WriterOK, Alive, ActorDelete,
     writerVars, diskVars, recVars, historyVars
<1>5. Exclusive'
  BY DEF IndInv, Exclusive, ActorDelete, recVars
<1> QED
  BY <1>1, <1>2, <1>3, <1>4, <1>5 DEF IndInv

\* The sentinel goes when there is no sidecar any more:
\* ActorUnlink preserves the invariant.
LEMMA ActorUnlinkStep ==
  ASSUME IndInv, NEW r \in Runs, ActorUnlink(r)
  PROVE  IndInv'
<1>1. TypeOK'
  BY DEF IndInv, TypeOK, WriterStates, ActorUnlink, writerVars, diskVars, recVars,
     historyVars
<1>2. ASSUME NEW p \in Runs PROVE WriterOK(p)' /\ ActorHolds(p)' /\ StoredOK(p)'
  BY <1>2 DEF IndInv, TypeOK, WriterOK, ActorHolds, StoredOK, Alive, ActorUnlink,
     writerVars, diskVars, recVars, historyVars
<1>3. ASSUME NEW p \in Runs PROVE OverlapOK(p)'
  <2>1. Removing(p)' = Removing(p)
    BY DEF Removing, ActorUnlink, recVars
  <2> QED
    BY <1>3, <2>1 DEF IndInv, TypeOK, OverlapOK, WriterOK, Alive, ActorUnlink, writerVars,
       diskVars, recVars, historyVars
<1>4. ASSUME NEW p \in Recoverers PROVE RecovererHolds(p)' /\ RecovererOK(p)'
  BY <1>4 DEF IndInv, TypeOK, RecovererHolds, RecovererOK, WriterOK, Alive, ActorUnlink,
     writerVars, diskVars, recVars, historyVars
<1>5. Exclusive'
  BY DEF IndInv, Exclusive, ActorUnlink, recVars
<1> QED
  BY <1>1, <1>2, <1>3, <1>4, <1>5 DEF IndInv

\* A persister is dropped between two flushes: Drop preserves the invariant.
LEMMA DropStep ==
  ASSUME IndInv, NEW r \in Runs, Drop(r)
  PROVE  IndInv'
<1>1. TypeOK'
  BY DEF IndInv, TypeOK, WriterStates, Drop, writerVars, diskVars, recVars, historyVars
<1>2. ASSUME NEW p \in Runs PROVE WriterOK(p)' /\ ActorHolds(p)' /\ StoredOK(p)'
  BY <1>2 DEF IndInv, TypeOK, WriterOK, ActorHolds, StoredOK, Alive, Drop, writerVars,
     diskVars, recVars, historyVars
<1>3. ASSUME NEW p \in Runs PROVE OverlapOK(p)'
  <2>1. Removing(p)' = Removing(p)
    BY DEF Removing, Drop, recVars
  <2> QED
    BY <1>3, <2>1 DEF IndInv, TypeOK, OverlapOK, WriterOK, Alive, Drop, writerVars,
       diskVars, recVars, historyVars
<1>4. ASSUME NEW p \in Recoverers PROVE RecovererHolds(p)' /\ RecovererOK(p)'
  BY <1>4 DEF IndInv, TypeOK, RecovererHolds, RecovererOK, WriterOK, Alive, Drop,
     writerVars, diskVars, recVars, historyVars
<1>5. Exclusive'
  BY DEF IndInv, Exclusive, Drop, recVars
<1> QED
  BY <1>1, <1>2, <1>3, <1>4, <1>5 DEF IndInv

\* An actor that ends leaves nothing in the sidecar that has landed:
\* ActorExit preserves the invariant.
LEMMA ActorExitStep ==
  ASSUME IndInv, NEW r \in Runs, ActorExit(r)
  PROVE  IndInv'
<1>1. TypeOK'
  BY BoundsAssumption DEF IndInv, TypeOK, WriterStates, ActorExit, Gone, writerVars,
     diskVars, recVars, historyVars
<1>2. ASSUME NEW p \in Runs PROVE WriterOK(p)' /\ ActorHolds(p)' /\ StoredOK(p)'
  BY <1>2 DEF IndInv, TypeOK, WriterOK, ActorHolds, StoredOK, Alive, ActorExit, Gone,
     writerVars, diskVars, recVars, historyVars
<1>3. ASSUME NEW p \in Runs PROVE OverlapOK(p)'
  <2>1. Removing(p)' = Removing(p)
    BY DEF Removing, ActorExit, recVars
  <2> QED
    BY <1>3, <2>1 DEF IndInv, TypeOK, OverlapOK, WriterOK, Alive, ActorExit, Gone,
       writerVars, diskVars, recVars, historyVars
<1>4. ASSUME NEW p \in Recoverers PROVE RecovererHolds(p)' /\ RecovererOK(p)'
  BY <1>4 DEF IndInv, TypeOK, RecovererHolds, RecovererOK, WriterOK, Alive, ActorExit,
     Gone, writerVars, diskVars, recVars, historyVars
<1>5. Exclusive'
  BY DEF IndInv, Exclusive, ActorExit, recVars
<1> QED
  BY <1>1, <1>2, <1>3, <1>4, <1>5 DEF IndInv

\* A crash marks the run as torn if its sidecar has landed in part:
\* Crash preserves the invariant.
LEMMA CrashStep ==
  ASSUME IndInv, NEW r \in Runs, Crash(r)
  PROVE  IndInv'
<1>1. TypeOK'
  BY BoundsAssumption DEF IndInv, TypeOK, WriterStates, Crash, Gone, writerVars, diskVars,
     recVars, historyVars
<1>2. ASSUME NEW p \in Runs PROVE WriterOK(p)' /\ ActorHolds(p)' /\ StoredOK(p)'
  BY <1>2 DEF IndInv, TypeOK, WriterOK, ActorHolds, StoredOK, Alive, Crash, Gone,
     writerVars, diskVars, recVars, historyVars
<1>3. ASSUME NEW p \in Runs PROVE OverlapOK(p)'
  <2>1. Removing(p)' = Removing(p)
    BY DEF Removing, Crash, recVars
  <2> QED
    BY <1>3, <2>1 DEF IndInv, TypeOK, OverlapOK, WriterOK, Alive, Crash, Gone, writerVars,
       diskVars, recVars, historyVars
<1>4. ASSUME NEW p \in Recoverers PROVE RecovererHolds(p)' /\ RecovererOK(p)'
  BY <1>4 DEF IndInv, TypeOK, RecovererHolds, RecovererOK, WriterOK, Alive, Crash, Gone,
     writerVars, diskVars, recVars, historyVars
<1>5. Exclusive'
  BY DEF IndInv, Exclusive, Crash, recVars
<1> QED
  BY <1>1, <1>2, <1>3, <1>4, <1>5 DEF IndInv

\* A listed sidecar belongs to a run that has begun: Scan preserves the invariant.
LEMMA ScanStep ==
  ASSUME IndInv, NEW q \in Recoverers, Scan(q)
  PROVE  IndInv'
<1>1. TypeOK' /\ Exclusive'
  BY DEF IndInv, TypeOK, Exclusive, RecStates, Scan, writerVars, diskVars, historyVars
<1>2. ASSUME NEW p \in Recoverers PROVE RecovererHolds(p)' /\ RecovererOK(p)'
  BY <1>2 DEF IndInv, TypeOK, RecovererHolds, RecovererOK, WriterOK, Alive, Scan,
     writerVars, diskVars, historyVars
<1>3. ASSUME NEW p \in Runs, Removing(p) PROVE Removing(p)'
  BY <1>3 DEF IndInv, TypeOK, Removing, Scan
<1> QED
  BY <1>1, <1>2, <1>3, QuietStep DEF Scan

\* A scan ends: ScanDone preserves the invariant.
LEMMA ScanDoneStep ==
  ASSUME IndInv, NEW q \in Recoverers, ScanDone(q)
  PROVE  IndInv'
<1>1. TypeOK' /\ Exclusive'
  BY DEF IndInv, TypeOK, Exclusive, RecStates, ScanDone, Returns, writerVars, diskVars,
     historyVars
<1>2. ASSUME NEW p \in Recoverers PROVE RecovererHolds(p)' /\ RecovererOK(p)'
  BY <1>2 DEF IndInv, TypeOK, RecovererHolds, RecovererOK, WriterOK, Alive, ScanDone,
     Returns, writerVars, diskVars, historyVars
<1>3. ASSUME NEW p \in Runs, Removing(p) PROVE Removing(p)'
  BY <1>3 DEF IndInv, TypeOK, Removing, ScanDone, Returns
<1> QED
  BY <1>1, <1>2, <1>3, QuietStep DEF ScanDone

\* The sentinel is opened, or created where no sidecar is watched through another:
\* Look preserves the invariant.
LEMMA LookStep ==
  ASSUME IndInv, NEW q \in Recoverers, NEW r \in Runs, Look(q, r)
  PROVE  IndInv'
<1>1. CASE livePath[r] # NoInode
  <2>1. /\ opened' = [opened EXCEPT ![q] = livePath[r]]
        /\ pc[q] = "scan" /\ pc' = [pc EXCEPT ![q] = "probe"]
        /\ r \in todo[q] /\ tgt' = [tgt EXCEPT ![q] = r]
        /\ todo' = [todo EXCEPT ![q] = @ \ {r}]
        /\ UNCHANGED <<livePath, partial, landed, hold, snap, passed, writerVars,
                       historyVars>>
    BY <1>1 DEF Look, OpenLive
  <2>2. TypeOK' /\ Exclusive'
    BY <2>1 DEF IndInv, TypeOK, RecovererOK, Exclusive, RecStates, writerVars, historyVars
  <2>3. ASSUME NEW p \in Recoverers PROVE RecovererHolds(p)' /\ RecovererOK(p)'
    BY <1>1, <2>1, <2>3 DEF IndInv, TypeOK, RecovererHolds, RecovererOK, Alive, writerVars
  <2>4. ASSUME NEW p \in Runs, Removing(p) PROVE Removing(p)'
    BY <2>1, <2>4 DEF IndInv, TypeOK, Removing
  <2> QED
    BY <2>1, <2>2, <2>3, <2>4, QuietStep DEF diskVars
<1>2. CASE livePath[r] = NoInode
  <2>0. PICK i \in Inodes : /\ Fresh(i)
                            /\ livePath' = [livePath EXCEPT ![r] = i]
                            /\ opened' = [opened EXCEPT ![q] = i]
    BY <1>2 DEF Look, OpenLive
  <2>9. r \in Runs /\ wpc[r] # "none" /\ ~Alive(r)
    BY <1>2 DEF IndInv, TypeOK, RecovererOK, ActorHolds, Look
  <2>1. TypeOK'
    BY <2>0 DEF IndInv, TypeOK, RecStates, Look, writerVars, historyVars
  <2>2. ASSUME NEW p \in Runs PROVE WriterOK(p)' /\ ActorHolds(p)' /\ StoredOK(p)'
    BY <2>0, <2>2, <2>9 DEF IndInv, TypeOK, WriterOK, ActorHolds, StoredOK, Alive, Look,
       writerVars, historyVars
  <2>3. ASSUME NEW p \in Runs PROVE OverlapOK(p)'
    <3>1. Removing(p)' = Removing(p)
      BY <2>0 DEF IndInv, TypeOK, Removing, Look, writerVars, historyVars
    <3> QED
      BY <2>3, <2>0, <3>1 DEF IndInv, TypeOK, OverlapOK, WriterOK, Alive, Look, writerVars,
         historyVars
  <2>4. ASSUME NEW p \in Recoverers PROVE RecovererHolds(p)' /\ RecovererOK(p)'
    <3>1. CASE p = q
      BY <2>0, <2>4, <2>9, <3>1, InodeAssumption DEF IndInv, TypeOK, RecovererHolds,
         RecovererOK, Alive, Look, writerVars
    <3>2. CASE p # q
      <4>1. opened[p] # NoInode /\ (Alive(tgt[p]) \/ partial[tgt[p]] # {}) => tgt[p] # r
        BY <1>2, <2>4 DEF IndInv, RecovererHolds
      <4>2. opened[p] # NoInode => tgt[p] \in Runs
        BY <2>4 DEF IndInv, RecovererHolds, RecovererOK
      <4> QED
        BY <2>0, <2>4, <3>2, <4>1, <4>2 DEF IndInv, TypeOK, RecovererHolds, RecovererOK,
           Alive, Look, writerVars
    <3> QED
      BY <3>1, <3>2
  <2>5. Exclusive'
    BY <2>0 DEF IndInv, TypeOK, Exclusive, Look, writerVars, historyVars
  <2> QED
    BY <2>1, <2>2, <2>3, <2>4, <2>5 DEF IndInv
<1> QED
  BY <1>1, <1>2

\* A lock obtained shows that the run is gone: Probe preserves the invariant.
LEMMA ProbeStep ==
  ASSUME IndInv, NEW q \in Recoverers, Probe(q)
  PROVE  IndInv'
<1>1. CASE ~Free(opened[q])
  BY <1>1, LetGoStep DEF Probe
<1>2. CASE Free(opened[q])
  <2>1. /\ pc[q] = "probe"
        /\ \A r \in Runs : held[r] # opened[q]
        /\ \A p \in Recoverers : hold[p] # opened[q]
        /\ hold' = [hold EXCEPT ![q] = opened[q]]
        /\ pc' = [pc EXCEPT ![q] = "probed"]
        /\ UNCHANGED <<tgt, snap, opened, todo, passed, writerVars, diskVars, historyVars>>
    BY <1>2 DEF Probe, Free
  <2>5. ~Alive(tgt[q])
    BY <2>1 DEF IndInv, RecovererHolds, RecovererOK, ActorHolds
  <2>2. TypeOK' /\ Exclusive'
    BY <2>1 DEF IndInv, TypeOK, RecovererOK, Exclusive, RecStates, writerVars, diskVars,
       historyVars
  <2>3. ASSUME NEW p \in Recoverers PROVE RecovererHolds(p)' /\ RecovererOK(p)'
    <3>1. CASE p = q
      BY <2>1, <3>1, <2>5 DEF IndInv, TypeOK, RecovererHolds, RecovererOK, Alive,
         writerVars, diskVars, historyVars
    <3>2. CASE p # q
      BY <2>1, <2>3, <3>2 DEF IndInv, TypeOK, RecovererHolds, RecovererOK, Alive,
         writerVars, diskVars, historyVars
    <3> QED
      BY <3>1, <3>2
  <2>4. ASSUME NEW p \in Runs, Removing(p) PROVE Removing(p)'
    BY <2>1, <2>4 DEF IndInv, TypeOK, Removing
  <2> QED
    BY <2>1, <2>2, <2>3, <2>4, QuietStep
<1> QED
  BY <1>1, <1>2

\* The probe's lock is given back: Unprobe preserves the invariant.
LEMMA UnprobeStep ==
  ASSUME IndInv, NEW q \in Recoverers, Unprobe(q)
  PROVE  IndInv'
<1>1. TypeOK' /\ Exclusive'
  BY DEF IndInv, TypeOK, Exclusive, RecStates, Unprobe, writerVars, diskVars, historyVars
<1>2. ASSUME NEW p \in Recoverers PROVE RecovererHolds(p)' /\ RecovererOK(p)'
  BY <1>2 DEF IndInv, TypeOK, RecovererHolds, RecovererOK, WriterOK, Alive, Unprobe,
     writerVars, diskVars, historyVars
<1>3. ASSUME NEW p \in Runs, Removing(p) PROVE Removing(p)'
  BY <1>3 DEF IndInv, TypeOK, Removing, Unprobe
<1> QED
  BY <1>1, <1>2, <1>3, QuietStep DEF Unprobe

\* The sidecar of a run that is gone is read: ReadPartial preserves the invariant.
LEMMA ReadPartialStep ==
  ASSUME IndInv, NEW q \in Recoverers, ReadPartial(q)
  PROVE  IndInv'
<1>1. CASE partial[tgt[q]] = {}
  BY <1>1, LetGoStep DEF ReadPartial
<1>2. CASE partial[tgt[q]] # {}
  <2>1. /\ pc[q] = "read" /\ partial[tgt[q]] # {}
        /\ snap' = [snap EXCEPT ![q] = partial[tgt[q]]]
        /\ pc' = [pc EXCEPT ![q] = "open"]
        /\ UNCHANGED <<tgt, opened, hold, todo, passed, writerVars, diskVars, historyVars>>
    BY <1>2 DEF ReadPartial
  <2>2. TypeOK' /\ Exclusive'
    BY <2>1 DEF IndInv, TypeOK, RecovererOK, Exclusive, RecStates, writerVars, diskVars,
       historyVars
  <2>3. ASSUME NEW p \in Recoverers PROVE RecovererHolds(p)' /\ RecovererOK(p)'
    <3>1. CASE p = q
      BY <2>1, <3>1 DEF IndInv, TypeOK, RecovererHolds, RecovererOK, Alive, writerVars,
         diskVars, historyVars
    <3>2. CASE p # q
      BY <2>1, <2>3, <3>2 DEF IndInv, TypeOK, RecovererHolds, RecovererOK, Alive,
         writerVars, diskVars, historyVars
    <3> QED
      BY <3>1, <3>2
  <2>4. ASSUME NEW p \in Runs, Removing(p) PROVE Removing(p)'
    BY <2>1, <2>4 DEF IndInv, TypeOK, Removing
  <2> QED
    BY <2>1, <2>2, <2>3, <2>4, QuietStep
<1> QED
  BY <1>1, <1>2

\* The sentinel is opened a second time: OpenAgain preserves the invariant.
LEMMA OpenAgainStep ==
  ASSUME IndInv, NEW q \in Recoverers, OpenAgain(q)
  PROVE  IndInv'
<1>1. CASE livePath[tgt[q]] # NoInode
  <2>1. /\ opened' = [opened EXCEPT ![q] = livePath[tgt[q]]]
        /\ pc[q] = "open" /\ pc' = [pc EXCEPT ![q] = "lock"]
        /\ UNCHANGED <<tgt, todo>>
        /\ UNCHANGED <<livePath, partial, landed, hold, snap, passed, writerVars,
                       historyVars>>
    BY <1>1 DEF OpenAgain, OpenLive
  <2>2. TypeOK' /\ Exclusive'
    BY <2>1 DEF IndInv, TypeOK, RecovererOK, Exclusive, RecStates, writerVars, historyVars
  <2>3. ASSUME NEW p \in Recoverers PROVE RecovererHolds(p)' /\ RecovererOK(p)'
    BY <1>1, <2>1, <2>3 DEF IndInv, TypeOK, RecovererHolds, RecovererOK, Alive, writerVars
  <2>4. ASSUME NEW p \in Runs, Removing(p) PROVE Removing(p)'
    BY <2>1, <2>4 DEF IndInv, TypeOK, Removing
  <2> QED
    BY <2>1, <2>2, <2>3, <2>4, QuietStep DEF diskVars
<1>2. CASE livePath[tgt[q]] = NoInode
  <2>0. PICK i \in Inodes : /\ Fresh(i)
                            /\ livePath' = [livePath EXCEPT ![tgt[q]] = i]
                            /\ opened' = [opened EXCEPT ![q] = i]
    BY <1>2 DEF OpenAgain, OpenLive
  <2>9. tgt[q] \in Runs /\ wpc[tgt[q]] # "none" /\ ~Alive(tgt[q])
    BY <1>2 DEF IndInv, TypeOK, RecovererOK, ActorHolds, OpenAgain
  <2>1. TypeOK'
    BY <2>0 DEF IndInv, TypeOK, RecStates, OpenAgain, writerVars, historyVars
  <2>2. ASSUME NEW p \in Runs PROVE WriterOK(p)' /\ ActorHolds(p)' /\ StoredOK(p)'
    BY <2>0, <2>2, <2>9 DEF IndInv, TypeOK, WriterOK, ActorHolds, StoredOK, Alive,
       OpenAgain, writerVars, historyVars
  <2>3. ASSUME NEW p \in Runs PROVE OverlapOK(p)'
    <3>1. Removing(p)' = Removing(p)
      BY <2>0 DEF IndInv, TypeOK, Removing, OpenAgain, writerVars, historyVars
    <3> QED
      BY <2>3, <2>0, <3>1 DEF IndInv, TypeOK, OverlapOK, WriterOK, Alive, OpenAgain,
         writerVars, historyVars
  <2>4. ASSUME NEW p \in Recoverers PROVE RecovererHolds(p)' /\ RecovererOK(p)'
    <3>1. CASE p = q
      BY <2>0, <2>4, <2>9, <3>1, InodeAssumption DEF IndInv, TypeOK, RecovererHolds,
         RecovererOK, Alive, OpenAgain, writerVars
    <3>2. CASE p # q
      <4>1. opened[p] # NoInode /\ (Alive(tgt[p]) \/ partial[tgt[p]] # {}) => tgt[p] # tgt[q]
        BY <1>2, <2>4 DEF IndInv, RecovererHolds
      <4>2. opened[p] # NoInode => tgt[p] \in Runs
        BY <2>4 DEF IndInv, RecovererHolds, RecovererOK
      <4> QED
        BY <2>0, <2>4, <3>2, <4>1, <4>2 DEF IndInv, TypeOK, RecovererHolds, RecovererOK,
           Alive, OpenAgain, writerVars
    <3> QED
      BY <3>1, <3>2
  <2>5. Exclusive'
    BY <2>0 DEF IndInv, TypeOK, Exclusive, OpenAgain, writerVars, historyVars
  <2> QED
    BY <2>1, <2>2, <2>3, <2>4, <2>5 DEF IndInv
<1> QED
  BY <1>1, <1>2

\* Only one recoverer gets the lock: TryAcquire preserves the invariant.
LEMMA TryAcquireStep ==
  ASSUME IndInv, NEW q \in Recoverers, TryAcquire(q)
  PROVE  IndInv'
<1>1. CASE ~Free(opened[q])
  BY <1>1, LetGoStep DEF TryAcquire
<1>2. CASE Free(opened[q])
  <2>1. /\ pc[q] = "lock"
        /\ \A r \in Runs : held[r] # opened[q]
        /\ \A p \in Recoverers : hold[p] # opened[q]
        /\ hold' = [hold EXCEPT ![q] = opened[q]]
        /\ pc' = [pc EXCEPT ![q] = "check"]
        /\ UNCHANGED <<tgt, snap, opened, todo, passed, writerVars, diskVars, historyVars>>
    BY <1>2 DEF TryAcquire, Free
  <2>2. TypeOK' /\ Exclusive'
    BY <2>1 DEF IndInv, TypeOK, RecovererOK, Exclusive, RecStates, writerVars, diskVars,
       historyVars
  <2>3. ASSUME NEW p \in Recoverers PROVE RecovererHolds(p)' /\ RecovererOK(p)'
    <3>1. CASE p = q
      BY <2>1, <3>1 DEF IndInv, TypeOK, RecovererHolds, RecovererOK, Alive, writerVars,
         diskVars, historyVars
    <3>2. CASE p # q
      BY <2>1, <2>3, <3>2 DEF IndInv, TypeOK, RecovererHolds, RecovererOK, Alive,
         writerVars, diskVars, historyVars
    <3> QED
      BY <3>1, <3>2
  <2>4. ASSUME NEW p \in Runs, Removing(p) PROVE Removing(p)'
    BY <2>1, <2>4 DEF IndInv, TypeOK, Removing
  <2> QED
    BY <2>1, <2>2, <2>3, <2>4, QuietStep
<1> QED
  BY <1>1, <1>2

\* The sidecar is folded only if it is still there: Recheck preserves the invariant.
LEMMA RecheckStep ==
  ASSUME IndInv, NEW q \in Recoverers, Recheck(q)
  PROVE  IndInv'
<1>1. CASE partial[tgt[q]] = {}
  BY <1>1, LetGoStep DEF Recheck
<1>2. CASE partial[tgt[q]] # {}
  <2>1. /\ pc[q] = "check" /\ partial[tgt[q]] # {}
        /\ pc' = [pc EXCEPT ![q] = "fold"]
        /\ UNCHANGED <<tgt, opened, hold, snap, todo, passed, writerVars, diskVars,
                       historyVars>>
    BY <1>2 DEF Recheck
  <2>2. TypeOK' /\ Exclusive'
    BY <2>1 DEF IndInv, TypeOK, RecovererOK, Exclusive, RecStates, writerVars, diskVars,
       historyVars
  <2>3. ASSUME NEW p \in Recoverers PROVE RecovererHolds(p)' /\ RecovererOK(p)'
    <3>1. CASE p = q
      BY <2>1, <3>1 DEF IndInv, TypeOK, RecovererHolds, RecovererOK, Alive, writerVars,
         diskVars, historyVars
    <3>2. CASE p # q
      BY <2>1, <2>3, <3>2 DEF IndInv, TypeOK, RecovererHolds, RecovererOK, Alive,
         writerVars, diskVars, historyVars
    <3> QED
      BY <3>1, <3>2
  <2>4. ASSUME NEW p \in Runs, Removing(p) PROVE Removing(p)'
    BY <2>1, <2>4 DEF IndInv, TypeOK, Removing
  <2> QED
    BY <2>1, <2>2, <2>3, <2>4, QuietStep
<1> QED
  BY <1>1, <1>2

\* A fold repeats nothing, unless the run was torn: Fold preserves the invariant.
LEMMA FoldStep ==
  ASSUME IndInv, NEW q \in Recoverers, Fold(q)
  PROVE  IndInv'
<1>0. /\ tgt[q] \in Runs /\ ~Alive(tgt[q]) /\ wpc[tgt[q]] # "none"
      /\ partial[tgt[q]] # {} /\ snap[q] = partial[tgt[q]] /\ snap[q] \subseteq Frags
      /\ \A p \in Recoverers : p # q /\ pc[p] \in {"fold", "rm"} => tgt[p] # tgt[q]
  BY OneHolder DEF IndInv, TypeOK, RecovererOK, Fold
<1>1. TypeOK'
  BY <1>0 DEF IndInv, TypeOK, Fold, Land, writerVars, RecStates
<1>2. ASSUME NEW p \in Runs PROVE WriterOK(p)' /\ ActorHolds(p)' /\ StoredOK(p)'
  <2>1. CASE p = tgt[q]
    BY <1>0, <2>1 DEF IndInv, TypeOK, WriterOK, ActorHolds, StoredOK, Alive, Fold, Land,
       writerVars
  <2>2. CASE p # tgt[q]
    BY <1>0, <1>2, <2>2 DEF IndInv, TypeOK, WriterOK, ActorHolds, StoredOK, Alive, Fold,
       Land, writerVars
  <2> QED
    BY <2>1, <2>2
<1>3. ASSUME NEW p \in Runs PROVE OverlapOK(p)'
  <2>1. Removing(p) => Removing(p)'
    BY DEF IndInv, TypeOK, Removing, Fold
  <2>2. CASE p # tgt[q]
    BY <1>0, <1>3, <2>1, <2>2 DEF IndInv, TypeOK, OverlapOK, Alive, Fold, Land, writerVars
  <2>3. CASE p = tgt[q]
    <3>1. Removing(p)'
      BY <2>3 DEF IndInv, TypeOK, Removing, Fold
    <3>2. ~Removing(p)
      BY <1>0, <2>3 DEF Removing, Fold
    <3>3. p \notin torn => twice'[p] = {}
      BY <1>0, <2>3, <3>2 DEF IndInv, TypeOK, OverlapOK, Fold, Land
    <3> QED
      BY <3>1, <3>3 DEF OverlapOK, Fold
  <2> QED
    BY <2>2, <2>3
<1>4. ASSUME NEW p \in Recoverers PROVE RecovererHolds(p)' /\ RecovererOK(p)'
  BY <1>0, <1>4 DEF IndInv, TypeOK, RecovererHolds, RecovererOK, Alive, Fold, Land,
     writerVars
<1>5. Exclusive'
  BY DEF IndInv, Exclusive, Fold
<1> QED
  BY <1>1, <1>2, <1>3, <1>4, <1>5 DEF IndInv

\* A failed fold lets go, and marks the run as torn if half was written:
\* FoldFails preserves the invariant.
LEMMA FoldFailsStep ==
  ASSUME IndInv, NEW q \in Recoverers, FoldFails(q)
  PROVE  IndInv'
<1>0. /\ tgt[q] \in Runs /\ ~Alive(tgt[q]) /\ wpc[tgt[q]] # "none"
      /\ partial[tgt[q]] # {} /\ snap[q] = partial[tgt[q]] /\ snap[q] \subseteq Frags
      /\ \A p \in Recoverers : p # q /\ pc[p] \in {"fold", "rm"} => tgt[p] # tgt[q]
  BY OneHolder DEF IndInv, TypeOK, RecovererOK, FoldFails
<1>1. /\ pc[q] = "fold" /\ pc' = [pc EXCEPT ![q] = "idle"]
      /\ tgt' = [tgt EXCEPT ![q] = 0] /\ snap' = [snap EXCEPT ![q] = {}]
      /\ opened' = [opened EXCEPT ![q] = NoInode] /\ hold' = [hold EXCEPT ![q] = NoInode]
      /\ todo' = [todo EXCEPT ![q] = {}] /\ passed' = (passed \/ q = Turn)
      /\ UNCHANGED <<writerVars, partial, livePath, broken>>
  BY DEF FoldFails, LetGo, Returns
<1>2. CASE UNCHANGED <<landed, twice, stored, torn>>
  <2>1. TypeOK' /\ Exclusive'
    BY <1>1, <1>2 DEF IndInv, TypeOK, Exclusive, RecStates, writerVars
  <2>2. ASSUME NEW p \in Recoverers PROVE RecovererHolds(p)' /\ RecovererOK(p)'
    BY <1>1, <1>2, <2>2 DEF IndInv, TypeOK, RecovererHolds, RecovererOK, Alive, writerVars
  <2>3. ASSUME NEW p \in Runs, Removing(p) PROVE Removing(p)'
    BY <1>1, <2>3 DEF IndInv, TypeOK, Removing
  <2> QED
    BY <1>1, <1>2, <2>1, <2>2, <2>3, QuietStep DEF diskVars, historyVars
<1>3. CASE Land(tgt[q], snap[q]) /\ torn' = torn \cup {tgt[q]}
  <2>1. TypeOK'
    BY <1>0, <1>1, <1>3 DEF IndInv, TypeOK, RecStates, Land, writerVars
  <2>2. ASSUME NEW p \in Runs PROVE WriterOK(p)' /\ ActorHolds(p)' /\ StoredOK(p)'
    <3>1. CASE p = tgt[q]
      BY <1>0, <1>1, <1>3, <3>1 DEF IndInv, TypeOK, WriterOK, ActorHolds, StoredOK, Alive,
         Land, writerVars
    <3>2. CASE p # tgt[q]
      BY <2>2, <1>0, <1>1, <1>3, <3>2 DEF IndInv, TypeOK, WriterOK, ActorHolds, StoredOK,
         Alive, Land, writerVars
    <3> QED
      BY <3>1, <3>2
  <2>3. ASSUME NEW p \in Runs PROVE OverlapOK(p)'
    <3>1. Removing(p) => Removing(p)'
      BY <1>1 DEF IndInv, TypeOK, Removing
    <3> QED
      BY <1>0, <1>1, <1>3, <2>3, <3>1 DEF IndInv, TypeOK, OverlapOK, Alive, Land, writerVars
  <2>4. ASSUME NEW p \in Recoverers PROVE RecovererHolds(p)' /\ RecovererOK(p)'
    BY <2>4, <1>0, <1>1, <1>3 DEF IndInv, TypeOK, RecovererHolds, RecovererOK, WriterOK,
       Alive, Land, writerVars
  <2>5. Exclusive'
    BY <1>0, <1>1, <1>3 DEF IndInv, TypeOK, Exclusive, Land, writerVars
  <2> QED
    BY <2>1, <2>2, <2>3, <2>4, <2>5 DEF IndInv
<1> QED
  BY <1>2, <1>3 DEF FoldFails

\* What is removed has landed, and nobody else folds it:
\* Remove preserves the invariant.
LEMMA RemoveStep ==
  ASSUME IndInv, NEW q \in Recoverers, Remove(q)
  PROVE  IndInv'
<1>0. /\ tgt[q] \in Runs /\ ~Alive(tgt[q]) /\ wpc[tgt[q]] # "none"
      /\ partial[tgt[q]] # {}
      /\ \A p \in Recoverers : p # q /\ pc[p] \in {"fold", "rm"} => tgt[p] # tgt[q]
  BY OneHolder DEF IndInv, RecovererOK, Remove
<1>1. TypeOK'
  BY DEF IndInv, TypeOK, RecStates, Remove, writerVars, historyVars
<1>2. ASSUME NEW p \in Runs PROVE WriterOK(p)' /\ ActorHolds(p)' /\ StoredOK(p)'
  BY <1>0, <1>2 DEF IndInv, TypeOK, WriterOK, ActorHolds, StoredOK, RecovererOK, Alive,
     Remove, writerVars, historyVars
<1>3. ASSUME NEW p \in Runs PROVE OverlapOK(p)'
  <2>1. CASE p = tgt[q]
    BY <1>0, <2>1 DEF IndInv, TypeOK, OverlapOK, Alive, Remove, historyVars
  <2>2. CASE p # tgt[q]
    <3>1. Removing(p) => Removing(p)'
      BY <2>2 DEF IndInv, TypeOK, Removing, Remove
    <3> QED
      BY <1>3, <2>2, <3>1 DEF IndInv, TypeOK, OverlapOK, Alive, Remove, writerVars,
         historyVars
  <2> QED
    BY <2>1, <2>2
<1>4. ASSUME NEW p \in Recoverers PROVE RecovererHolds(p)' /\ RecovererOK(p)'
  <2>1. CASE p = q
    BY <1>0, <2>1 DEF IndInv, TypeOK, RecovererHolds, RecovererOK, Alive, Remove, writerVars
  <2>2. CASE p # q
    BY <1>0, <1>4, <2>2 DEF IndInv, TypeOK, RecovererHolds, RecovererOK, Alive, Remove,
       writerVars
  <2> QED
    BY <2>1, <2>2
<1>5. Exclusive'
  BY DEF IndInv, Exclusive, Remove
<1> QED
  BY <1>1, <1>2, <1>3, <1>4, <1>5 DEF IndInv

\* The sentinel goes when the sidecar is gone: Unlink preserves the invariant.
LEMMA UnlinkStep ==
  ASSUME IndInv, NEW q \in Recoverers, Unlink(q)
  PROVE  IndInv'
<1>1. TypeOK'
  BY DEF IndInv, TypeOK, RecStates, Unlink, writerVars, historyVars
<1>2. ASSUME NEW p \in Runs PROVE WriterOK(p)' /\ ActorHolds(p)' /\ StoredOK(p)'
  <2>1. CASE p = tgt[q]
    BY <2>1 DEF IndInv, TypeOK, WriterOK, ActorHolds, StoredOK, RecovererOK, Alive, Unlink,
       writerVars, historyVars
  <2>2. CASE p # tgt[q]
    BY <1>2, <2>2 DEF IndInv, TypeOK, WriterOK, ActorHolds, StoredOK, Alive, Unlink,
       writerVars, historyVars
  <2> QED
    BY <2>1, <2>2
<1>3. ASSUME NEW p \in Runs PROVE OverlapOK(p)'
  <2>1. Removing(p) => Removing(p)'
    BY DEF IndInv, TypeOK, Removing, Unlink
  <2> QED
    BY <1>3, <2>1 DEF IndInv, OverlapOK, Alive, Unlink, writerVars, historyVars
<1>4. ASSUME NEW p \in Recoverers PROVE RecovererHolds(p)' /\ RecovererOK(p)'
  BY <1>4 DEF IndInv, TypeOK, RecovererHolds, RecovererOK, WriterOK, Alive, Unlink,
     writerVars, historyVars
<1>5. Exclusive'
  BY DEF IndInv, TypeOK, Exclusive, Unlink, writerVars, historyVars
<1> QED
  BY <1>1, <1>2, <1>3, <1>4, <1>5 DEF IndInv

\* The guard is dropped: Release preserves the invariant.
LEMMA ReleaseStep ==
  ASSUME IndInv, NEW q \in Recoverers, Release(q)
  PROVE  IndInv'
  BY LetGoStep DEF Release

\* A recoverer that dies after its fold leaves the run torn:
\* CrashRecoverer preserves the invariant.
LEMMA CrashRecovererStep ==
  ASSUME IndInv, NEW q \in Recoverers, CrashRecoverer(q)
  PROVE  IndInv'
<1>0. /\ pc[q] = "rm" => tgt[q] \in Runs /\ ~Alive(tgt[q]) /\ wpc[tgt[q]] # "none"
      /\ torn' \in SUBSET Runs /\ torn \subseteq torn'
      /\ \A p \in Runs : p \in torn' /\ p \notin torn => pc[q] = "rm" /\ p = tgt[q]
      /\ pc[q] = "rm" => tgt[q] \in torn'
  BY DEF IndInv, TypeOK, RecovererOK, CrashRecoverer
<1>1. TypeOK'
  BY <1>0 DEF IndInv, TypeOK, CrashRecoverer, LetGo, writerVars, diskVars, RecStates
<1>2. ASSUME NEW p \in Runs PROVE WriterOK(p)' /\ ActorHolds(p)' /\ StoredOK(p)'
  BY <1>0, <1>2 DEF IndInv, WriterOK, ActorHolds, StoredOK, Alive, CrashRecoverer,
     writerVars, diskVars
<1>3. ASSUME NEW p \in Runs PROVE OverlapOK(p)'
  <2>1. Removing(p) /\ p \notin torn' => Removing(p)'
    BY <1>0, <1>3 DEF IndInv, TypeOK, Removing, CrashRecoverer, LetGo
  <2> QED
    BY <1>0, <1>3, <2>1 DEF IndInv, OverlapOK, Alive, CrashRecoverer, writerVars, diskVars
<1>4. ASSUME NEW p \in Recoverers PROVE RecovererHolds(p)' /\ RecovererOK(p)'
  BY <1>4, <1>0 DEF IndInv, TypeOK, RecovererHolds, RecovererOK, WriterOK, Alive,
     CrashRecoverer, LetGo, writerVars, diskVars
<1>5. Exclusive'
  BY <1>0 DEF IndInv, TypeOK, Exclusive, CrashRecoverer, LetGo, writerVars, diskVars
<1> QED
  BY <1>1, <1>2, <1>3, <1>4, <1>5 DEF IndInv

-----------------------------------------------------------------------------
\* Every behaviour of the specification satisfies the inductive invariant.
THEOREM Inductive == Spec => []IndInv
<1>1. Init => IndInv
  <2> SUFFICES ASSUME Init PROVE IndInv
    OBVIOUS
  <2>1. TypeOK
    <3>1. 0 \in 0..MaxFrag
      BY BoundsAssumption
    <3> QED
      BY <3>1 DEF Init, TypeOK, WriterStates, RecStates
  <2>2. ASSUME NEW r \in Runs
        PROVE WriterOK(r) /\ ActorHolds(r) /\ OverlapOK(r) /\ StoredOK(r)
    BY <2>2 DEF Init, WriterOK, ActorHolds, OverlapOK, StoredOK, Alive
  <2>3. ASSUME NEW q \in Recoverers PROVE RecovererHolds(q) /\ RecovererOK(q)
    BY <2>3 DEF Init, RecovererHolds, RecovererOK, Alive
  <2>4. Exclusive
    BY DEF Init, Exclusive
  <2> QED
    BY <2>1, <2>2, <2>3, <2>4 DEF IndInv
<1>2. IndInv /\ [Next]_vars => IndInv'
  <2> SUFFICES ASSUME IndInv, [Next]_vars PROVE IndInv'
    OBVIOUS
  <2>1. ASSUME NEW r \in Runs, Writer(r) PROVE IndInv'
    <3>1. ASSUME NEW into \in {"flushing", "finishing"},
                 Flush(r, into) \/ FlushFails(r, into)
          PROVE IndInv'
      BY <3>1, FlushStep, FlushFailsStep
    <3> QED
      BY <2>1, <3>1, StartStep, ObserveStep, ActorAppendStep, ActorResetStep,
         ActorDeleteStep, ActorUnlinkStep, DropStep, ActorExitStep, CrashStep DEF Writer
  <2>2. ASSUME NEW q \in Recoverers, Recover(q) PROVE IndInv'
    BY <2>2, ScanStep, ScanDoneStep, LookStep, ProbeStep, UnprobeStep, ReadPartialStep,
       OpenAgainStep, TryAcquireStep, RecheckStep, FoldStep, FoldFailsStep, RemoveStep,
       UnlinkStep, ReleaseStep, CrashRecovererStep DEF Recover
  <2>3. CASE UNCHANGED vars
    <3> USE <2>3 DEF vars, writerVars, diskVars, recVars, historyVars
    <3>1. TypeOK' /\ Exclusive'
      BY DEF IndInv, TypeOK, Exclusive
    <3>2. ASSUME NEW r \in Runs
          PROVE WriterOK(r)' /\ ActorHolds(r)' /\ OverlapOK(r)' /\ StoredOK(r)'
      BY <3>2 DEF IndInv, WriterOK, ActorHolds, OverlapOK, StoredOK, Removing, Alive
    <3>3. ASSUME NEW q \in Recoverers PROVE RecovererHolds(q)' /\ RecovererOK(q)'
      BY <3>3 DEF IndInv, RecovererHolds, RecovererOK, Alive
    <3> QED
      BY <3>1, <3>2, <3>3 DEF IndInv
  <2> QED
    BY <2>1, <2>2, <2>3 DEF Next
<1> QED
  BY <1>1, <1>2, PTL DEF Spec

\* Every variable keeps its type.
THEOREM TypeCorrect == Spec => []TypeOK
<1>1. IndInv => TypeOK
  BY DEF IndInv
<1> QED
  BY <1>1, Inductive, PTL

\* No recoverer folds or removes the sidecar of a run that is still there
\* (recover_and_append_interrupted_partials against the partial actor), however
\* many of them there are and however sentinels are unlinked and created again.
THEOREM LiveRunsLeftAlone == Spec => []LiveNotFolded
<1>1. IndInv => LiveNotFolded
  BY DEF IndInv, TypeOK, WriterStates, RecovererOK, WriterOK, Alive, LiveNotFolded
<1> QED
  BY <1>1, Inductive, PTL

\* Concurrent recoveries fold a sidecar once (PartialLiveGuard::try_acquire and the
\* second look at the file), and segments written by the run are not folded again,
\* unless a crash or a failed write has come between an append and the removal.
THEOREM FoldedOnce == Spec => []TwiceOnlyIfTorn
<1>1. IndInv => TwiceOnlyIfTorn
  BY DEF IndInv, OverlapOK, TwiceOnlyIfTorn
<1> QED
  BY <1>1, Inductive, PTL

\* No step of a flush, a crash or a recovery loses what has reached the disk, unless
\* append_message failed (flush_locked, delete_partial).
THEOREM NothingStoredIsLost == Spec => []StoredSurvives
<1>1. IndInv => StoredSurvives
  BY DEF IndInv, StoredOK, StoredSurvives
<1> QED
  BY <1>1, Inductive, PTL

\* When flush_segment and finish return the sidecar repeats nothing of session.jsonl
\* (the acknowledgements of Reset and Delete).
THEOREM AcknowledgedIsClean == Spec => []AckMeansClean
<1>1. IndInv => AckMeansClean
  <2> SUFFICES ASSUME IndInv, NEW r \in Runs
               PROVE  /\ wpc[r] = "run" => partial[r] \cap landed[r] = {}
                      /\ wpc[r] = "done" => partial[r] = {}
    BY DEF AckMeansClean
  <2>1. WriterOK(r) /\ flushed[r] \in Int /\ wrote[r] \in Int
    BY BoundsAssumption DEF IndInv, TypeOK
  <2> QED
    BY <2>1 DEF WriterOK, Alive
<1> QED
  BY <1>1, Inductive, PTL

=============================================================================
