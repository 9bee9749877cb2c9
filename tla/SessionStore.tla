----------------------------- MODULE SessionStore -----------------------------
(***************************************************************************)
(* What the session store promises its callers: an operation on a session  *)
(* takes effect as a whole, before it returns, in turn with the others     *)
(* ("writes to one session are serial", docs/架构.md section 6.3.3).       *)
(* Once two writers have been at work at the same time it promises nothing *)
(* any more.                                                               *)
(***************************************************************************)
EXTENDS SessionData

VARIABLES
  session,    \* the session as a set of at most one; empty once it is deleted
  effective,  \* the operation that has taken effect and not yet returned
  last,       \* the operation that last returned Ok
  disturbed   \* two writers were at work at once

storeVars == <<session, effective, last, disturbed>>

None == [kind |-> "none"]

Init == session = {Fresh} /\ effective = None /\ last = None /\ disturbed = FALSE

Do(o) ==
  /\ ~disturbed
  /\ effective = None
  /\ \E s \in session : session' = {Apply(o, s)}
  /\ \/ effective' = o /\ UNCHANGED last
     \/ last' = o /\ UNCHANGED effective
  /\ UNCHANGED disturbed

Return ==
  /\ ~disturbed
  /\ effective # None
  /\ last' = effective
  /\ effective' = None
  /\ UNCHANGED <<session, disturbed>>

Delete == ~disturbed /\ effective = None /\ session' = {} /\ UNCHANGED <<effective, last, disturbed>>

Disturb == disturbed' = TRUE /\ session' = {} /\ effective' = None /\ last' = None

Next == (\E o \in Ops : Do(o)) \/ Return \/ Delete \/ Disturb

Spec == Init /\ [][Next]_storeVars
=============================================================================
