------------------------------ MODULE TaskTable ------------------------------
(***************************************************************************)
(* What a session's BgTaskRegistry promises of its background tasks        *)
(* (crates/agent-core/src/tools/background.rs): a task runs until it has   *)
(* one verdict, its first, which stays; and only a task that has a verdict *)
(* is ever taken out of the table.  BackgroundShells implements it, and    *)
(* Wakeup is built on it.                                                  *)
(***************************************************************************)
CONSTANT Tasks

VARIABLES
  verdict,  \* per task: "none" (not started), "running", "exited" or "killed"
  listed    \* the tasks the table holds

tableVars == <<verdict, listed>>

Verdicts == {"none", "running", "exited", "killed"}
Terminal(v) == v \in {"exited", "killed"}

TableInit == verdict = [t \in Tasks |-> "none"] /\ listed = {}

\* A new task may push one finished task out.
Add(t) ==
  /\ verdict[t] = "none"
  /\ verdict' = [verdict EXCEPT ![t] = "running"]
  /\ \E out \in SUBSET listed :
       /\ \A o \in out : Terminal(verdict[o]) /\ out = {o}
       /\ listed' = (listed \ out) \cup {t}

Finish(t) ==
  /\ verdict[t] = "running"
  /\ verdict' \in {[verdict EXCEPT ![t] = v] : v \in {"exited", "killed"}}
  /\ UNCHANGED listed

Remove(t) ==
  /\ t \in listed /\ Terminal(verdict[t])
  /\ listed' = listed \ {t}
  /\ UNCHANGED verdict

TableNext == \E t \in Tasks : Add(t) \/ Finish(t) \/ Remove(t)

TableSpec == TableInit /\ [][TableNext]_tableVars
=============================================================================
