------------------------------ MODULE HitlGate ------------------------------
(***************************************************************************)
(* The human-in-the-loop gate of one run (tools/hitl.rs): the table of     *)
(* requests that wait for an answer, the rules a session has learned, the  *)
(* permission store's three layers (permissions/mod.rs), and what a check  *)
(* of a tool call against them says.                                       *)
(*                                                                         *)
(* A request is <<i, "path">> (call i wants a path outside the workspace)  *)
(* or <<i, "main">> (the approval of the call itself, the question of Ask  *)
(* or the approval of a plan).  A command is the set of its segments; a    *)
(* rule's pattern is a segment's prefix or the name of a tool.             *)
(***************************************************************************)
EXTENDS Naturals, FiniteSets

CONSTANTS
    Index,         \* positions of the calls in a batch
    Segments,      \* fingerprints of command segments
    ReadonlySegs,  \* segments without a side effect
    Unmemorable,   \* rm, dd, mkfs, ...: asked about every time
    Egress,        \* push, install, curl, ...: leave the machine
    SafeWrites,    \* mkdir, touch, mkfifo
    Paths,         \* paths a call may touch
    AutoApprove,   \* policy.auto_approve, a set of tools
    AlwaysAsk,     \* policy.always_ask
    DefaultAction  \* policy.default_action: "approve", "ask" or "deny"

Tools == {"Bash", "Edit", "Read", "TodoWrite", "Ask", "PlanEnter", "PlanSubmit"}
Scopes == {"Session", "Project", "Global"}
Patterns == Segments \cup Tools

ASSUME SegmentsAssumption ==
    /\ ReadonlySegs \cup Unmemorable \cup Egress \cup SafeWrites \subseteq Segments
    /\ Unmemorable \cap (ReadonlySegs \cup SafeWrites) = {}
    /\ Segments \cap Tools = {}
    /\ DefaultAction \in {"approve", "ask", "deny"}

(* What effects.rs reports of a call, and which dispatcher function takes  *)
(* it.  Only a shell command has segments or a dangerous pattern, and it   *)
(* is read-only if all its segments are and it has no such pattern.        *)
Call ==
    {e \in [tool : Tools, class : {"ReadOnly", "Mutating"}, segs : SUBSET Segments,
            danger : BOOLEAN, paths : SUBSET Paths, gitmeta : BOOLEAN] :
        /\ e.tool # "Bash" => e.segs = {} /\ ~e.danger
        /\ e.class = "ReadOnly" => e.segs \subseteq ReadonlySegs /\ ~e.danger}

Requests == Index \X {"path", "main"}

(* How a request was settled: AllowOnce by a person, AllowAndRemember,     *)
(* AllowOnce by the judge, AllowOnce by the scan after a remembered rule,  *)
(* or a refusal (Deny, DenyWithFeedback, a cancelled question).            *)
Verdicts == {"none", "once", "remember", "judge", "scan", "deny"}
Granted == {"once", "remember", "judge", "scan"}

VARIABLES
    calls,    \* the batch being dispatched, by index
    pending,  \* requests in the gate's table
    verdict,  \* what has been sent to each request's waiter
    learned,  \* patterns the gate remembers for this session
    rules,    \* the permission store: allow and deny patterns by scope
    jammed    \* the gate's mutex is held by a thread that waits for it

gateVars == <<calls, pending, verdict, learned, rules, jammed>>

(***************************************************************************)
(* Rules.                                                                  *)
(***************************************************************************)
Writable(e) == e.segs \ ReadonlySegs

(* A rule of the store for a call without segments: the innermost layer    *)
(* that has one decides, deny before allow within a layer.                 *)
FindForTool(t) ==
    LET hits == {s \in Scopes : t \in rules[s].allow \cup rules[s].deny}
        first == IF "Session" \in hits THEN "Session"
                 ELSE IF "Project" \in hits THEN "Project" ELSE "Global"
    IN  IF hits = {} THEN "none"
        ELSE IF t \in rules[first].deny THEN "deny" ELSE "approve"

(* A rule of the store for a command: any segment denied in any layer      *)
(* denies it, otherwise every writing segment must be allowed.             *)
FindForSegments(e) ==
    LET denied  == UNION {rules[s].deny : s \in Scopes}
        allowed == UNION {rules[s].allow : s \in Scopes}
    IN  IF e.tool \in denied \/ e.segs \cap denied # {} THEN "deny"
        ELSE IF Writable(e) # {} /\ (e.tool \in allowed \/ Writable(e) \subseteq allowed)
             THEN "approve" ELSE "none"

StoreHit(e) == IF e.segs # {} THEN FindForSegments(e) ELSE FindForTool(e.tool)

LearnedHit(e) ==
    \/ e.tool \in learned
    \/ e.segs # {} /\ Writable(e) \subseteq learned

(* Mutant: what was learned is consulted before the dangerous patterns.    *)
CheckLearnedFirst(e) ==
    IF e.class = "ReadOnly" THEN "approve"
    ELSE IF e.segs \cap Unmemorable # {} THEN "ask"
    ELSE IF LearnedHit(e) THEN "approve"
    ELSE IF e.danger THEN "askRefuse"
    ELSE StoreHit(e)

(* check_without_policy: the first rule that speaks decides. *)
CheckWithoutPolicy(e) ==
    IF e.danger THEN "askRefuse"
    ELSE IF e.class = "ReadOnly" THEN "approve"
    ELSE IF e.segs \cap Unmemorable # {} THEN "ask"
    ELSE IF LearnedHit(e) THEN "approve"
    ELSE StoreHit(e)

Check(e) ==
    IF CheckWithoutPolicy(e) # "none" THEN CheckWithoutPolicy(e)
    ELSE IF e.tool \in AutoApprove THEN "approve"
    ELSE IF e.tool \in AlwaysAsk THEN "ask"
    ELSE DefaultAction

(* The writing segments of e a rule could still be remembered for. *)
UnapprovedMemorable(e) ==
    {s \in Writable(e) \ Unmemorable :
        /\ e.tool \notin learned /\ s \notin learned
        /\ FindForSegments([e EXCEPT !.segs = {s}]) # "approve"}

(***************************************************************************)
(* The table of requests.                                                  *)
(***************************************************************************)
IsToolRequest(r) == r[2] = "main" /\ calls[r[1]].tool \notin {"Ask", "PlanSubmit"}

(* The entry was opened by the dangerous-pattern rule: never remembered. *)
RefuseRemember(r) == calls[r[1]].danger

Remember(scope, pats) ==
    /\ learned' = IF scope = "Session" THEN learned \cup pats ELSE learned
    /\ rules' = IF scope = "Once" THEN rules
                ELSE [rules EXCEPT ![scope].allow = @ \cup pats]

(* resolve_matching_pending_after_remember checks the other entries while  *)
(* it holds the table's lock.  The check of an entry with an unmemorable   *)
(* segment opens a new request, which takes the same lock.                 *)
Rescanned(r) == {q \in pending \ {r} : IsToolRequest(q) /\ ~RefuseRemember(q)}

ScanTakesLock(r) ==
    \E q \in Rescanned(r) : CheckWithoutPolicy(calls[q[1]])' \in {"ask", "askRefuse"}

ScanApproves(r) ==
    {q \in Rescanned(r) : CheckWithoutPolicy(calls[q[1]])' = "approve"}

(* resolve with AllowAndRemember. *)
ResolveRemember(r, scope, pats) ==
    /\ ~jammed /\ r \in pending
    /\ UNCHANGED calls
    /\ IF IsToolRequest(r) /\ ~RefuseRemember(r)
       THEN /\ Remember(scope, pats)
            /\ jammed' = ScanTakesLock(r)
            /\ IF ScanTakesLock(r)
               THEN pending' = pending \ {r} /\ UNCHANGED verdict
               ELSE /\ pending' = pending \ ({r} \cup ScanApproves(r))
                    /\ verdict' = [q \in Requests |->
                          IF q = r THEN "remember"
                          ELSE IF q \in ScanApproves(r) THEN "scan" ELSE verdict[q]]
       ELSE /\ pending' = pending \ {r}
            /\ verdict' = [verdict EXCEPT ![r] = "remember"]
            /\ UNCHANGED <<learned, rules, jammed>>

(* Mutant: the answer is sent and the entry stays in the table. *)
SettledKeeps(r, v) ==
    /\ ~jammed
    /\ verdict' = IF r \in pending THEN [verdict EXCEPT ![r] = v] ELSE verdict
    /\ UNCHANGED pending

(* What resolve (with any other decision) and answer leave in the table;   *)
(* a request that is no longer there is ignored.                           *)
Settled(r, v) ==
    /\ ~jammed
    /\ pending' = pending \ {r}
    /\ verdict' = IF r \in pending THEN [verdict EXCEPT ![r] = v] ELSE verdict

(* cancel_all_pending. *)
CancelAllPending ==
    /\ ~jammed
    /\ pending' = {}
    /\ verdict' = [r \in Requests |-> IF r \in pending THEN "deny" ELSE verdict[r]]

(* open_approval, open_question. *)
Opened(r) ==
    /\ ~jammed
    /\ pending' = pending \cup {r}

GateTypeOK ==
    /\ calls \in [Index -> Call]
    /\ pending \subseteq Requests
    /\ verdict \in [Requests -> Verdicts]
    /\ learned \subseteq Patterns
    /\ rules \in [Scopes -> [allow : SUBSET Patterns, deny : SUBSET Patterns]]
    /\ jammed \in BOOLEAN

=============================================================================
