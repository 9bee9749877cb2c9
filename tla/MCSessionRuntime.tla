-------------------------- MODULE MCSessionRuntime --------------------------
(***************************************************************************)
(* The event log and the announcements of background tasks in one run.     *)
(* The two machines share no variable: what either may do, and must do, it *)
(* may and must do whatever the other does.  So it is enough to let one of *)
(* them move in a behaviour while the other has yet to begin.              *)
(*                                                                         *)
(* The log's buffers are small: the channel holds fewer events than the    *)
(* replay buffer, as in the code, and both overflow within MaxSeq events.  *)
(***************************************************************************)
EXTENDS EventLog, Wakeup

OfTheLog(A) == WakeInit /\ A /\ UNCHANGED wakeupVars
OfTheWatches(A) == LogInit /\ A /\ UNCHANGED eventLogVars

runtimeVars == <<eventLogVars, wakeupVars>>

RuntimeInit == LogInit /\ WakeInit
RuntimeNext == OfTheLog(LogNext) \/ OfTheWatches(WakeNext)

\* LogFairness and WakeFairness.
RuntimeFairness ==
  /\ \A s \in Subs : WF_runtimeVars(OfTheLog(Observe(s)))
  /\ WF_runtimeVars(OfTheWatches(ScanStart \/ ScanEnd))
  /\ WF_runtimeVars(OfTheWatches(Dispatch))
  /\ \A t \in Tasks : WF_runtimeVars(OfTheWatches(LookAt(t)))

RuntimeSpec == RuntimeInit /\ [][RuntimeNext]_runtimeVars /\ RuntimeFairness
=============================================================================
