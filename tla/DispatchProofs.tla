---------------------------- MODULE DispatchProofs ----------------------------
(***************************************************************************)
(* Proofs of the safety properties of Dispatch, for any batch of calls,    *)
(* any rules and any number of parallel calls.                             *)
(*                                                                         *)
(* The inductive invariant is a conjunction per call (CallInv): which      *)
(* requests a call can have opened where it is (Fresh), what the table     *)
(* says of them (Table), what the check decided and what was answered by   *)
(* the time the tool runs (Consent, Scanned), what a call leaves behind    *)
(* (Closed), and who is working on its approval, the judge or the person   *)
(* (Dialogs, Unanswered).                                                  *)
(*                                                                         *)
(* A step is either a step of one call or of somebody else. What a step of *)
(* anybody keeps for the calls it is not about is said once (Frame,        *)
(* Outside) and proved for every action (FrameStep, OtherOutside,          *)
(* OwnOutside); OutsideKeeps turns it into the invariant of those calls.   *)
(* What is left is one lemma for each action and its own call.             *)
(***************************************************************************)
EXTENDS Dispatch, TLAPS

\* The two requests call i may open.
Own(i) == {PathReq(i), MainReq(i)}

\* The request has neither been opened nor announced.
Untouched(r) ==
  r \notin pending /\ verdict[r] = "none" /\ r \notin auto /\ r \notin inbox /\ r \notin delivered

\* Which requests a call cannot have opened where it is.
Fresh(i) ==
  /\ pc[i] = "none" => Untouched(PathReq(i))
  /\ pc[i] \in {"none", "checked"} => Untouched(MainReq(i))
  /\ ~IsTool(i) => /\ Untouched(PathReq(i)) /\ MainReq(i) \notin auto
                   /\ pc[i] = "queued" => Untouched(MainReq(i))
                   /\ pc[i] \in {"none", "queued", "waitAnswer"} \cup Ended
  /\ IsTool(i) => /\ pc[i] # "waitAnswer"
                  /\ pc[i] # "none" /\ ~Asks(i) => Untouched(MainReq(i))
                  /\ pc[i] \in {"checked", "judgeTool"} => Asks(i)

\* A request that is settled is no longer in the table, and one in the table of a run
\* that goes on is on its way to the surface or there.
Table(i) ==
  \A r \in Own(i) : r \in pending => /\ verdict[r] = "none"
                                     /\ cancel \/ r \in inbox \/ r \in delivered

\* What the check has decided, and the answers a call has had when it comes to run.
Consent(i) ==
  IsTool(i) /\ pc[i] # "none" =>
    /\ calls[i].danger => perm[i] \in {"deny", "askRefuse"}
    /\ calls[i].segs \cap Unmemorable # {} =>
         perm[i] \in {"deny", "ask", "askRefuse", "yolo"} \/ Bypass
    /\ ~(calls[i].paths \subseteq allowed) => PathOpened(i) \/ perm[i] = "deny"
    /\ pc[i] \in {"judgeTool", "gate", "waitTool", "exec", "done"} /\ PathOpened(i) =>
         verdict[PathReq(i)] \in Granted
    /\ pc[i] \in {"exec", "done"} =>
         perm[i] # "deny" /\ (Asks(i) => verdict[MainReq(i)] \notin {"none", "deny"})

\* The scan settles only what the rules allow, and these rules stay.
Scanned(i) ==
  verdict[MainReq(i)] = "scan" =>
    /\ ~calls[i].danger /\ calls[i].segs \cap Unmemorable = {}
    /\ UnapprovedMemorable(calls[i]) = {}

\* A call that is over has left nothing open, unless it was stopped or its path was
\* refused.
Closed(i) ==
  pc[i] \in Ended =>
    \/ cancel
    \/ /\ PathReq(i) \notin pending
       /\ MainReq(i) \in pending => verdict[PathReq(i)] = "deny"

\* A judge has the approval of the call, or will have it when the call starts.
Judging(i) ==
  \/ pc[i] \in {"checked", "queued"} /\ mode = "AutoMode"
  \/ judged[i] /\ pc[i] \in {"judgePath", "waitPath", "judgeTool"}

\* A dialog is kept closed exactly while a judge has the request.
Dialogs(i) ==
  IsTool(i) /\ i \notin unsteady =>
    /\ pc[i] \in {"judgePath", "judgeTool"} => judged[i]
    /\ PathReq(i) \in pending /\ PathReq(i) \in auto =>
         pc[i] = "judgePath" \/ (pc[i] \in {"checked", "queued"} /\ mode = "AutoMode")
    /\ MainReq(i) \in pending /\ pc[i] \notin Ended => (MainReq(i) \in auto <=> Judging(i))

\* What a judge has been asked about, nobody but the scan settles before it.
Unanswered(i) ==
  IsTool(i) /\ i \notin unsteady /\ ~cancel /\ ~jammed /\ Judging(i) /\ Asks(i)
    /\ pc[i] # "checked"
    => MainReq(i) \in pending \/ verdict[MainReq(i)] = "scan"

\* The invariant of one call.
CallInv(i) ==
  /\ Fresh(i) /\ Table(i) /\ Consent(i) /\ Scanned(i) /\ Closed(i) /\ Dialogs(i)
  /\ Unanswered(i)

\* The inductive invariant.
Inv == TypeOK /\ \A i \in Index : CallInv(i)

-----------------------------------------------------------------------------
\* No rule is taken back.
RulesGrow ==
  /\ calls' = calls /\ learned \subseteq learned'
  /\ \A s \in Scopes : rules'[s].deny = rules[s].deny /\ rules[s].allow \subseteq rules'[s].allow

\* Requests of different calls, and the two of one call, are different.
LEMMA RequestOf ==
  /\ \A i \in Index : PathReq(i) \in Requests /\ MainReq(i) \in Requests
  /\ \A r \in Requests : r[1] \in Index /\ r \in Own(r[1])
  /\ \A i, j : PathReq(i) # MainReq(j)
  /\ \A i, j : i # j => PathReq(i) # PathReq(j) /\ MainReq(i) # MainReq(j)
BY DEF Requests, Own, PathReq, MainReq

\* The fields of a call, and what Call says of a read-only call and of one that is not
\* a shell command.
LEMMA CallFields ==
  ASSUME NEW e \in Call
  PROVE  /\ e.tool \in Tools /\ e.class \in {"ReadOnly", "Mutating"} /\ e.segs \subseteq Segments
         /\ e.danger \in BOOLEAN /\ e.paths \subseteq Paths /\ e.gitmeta \in BOOLEAN
         /\ e.tool # "Bash" => e.segs = {} /\ ~e.danger
         /\ e.class = "ReadOnly" => e.segs \subseteq ReadonlySegs /\ ~e.danger
BY DEF Call

\* A call the rules allow has no segment left to make a rule for.
LEMMA NothingUnapproved ==
  \A e \in Call : CheckWithoutPolicy(e) = "approve" =>
    ~e.danger /\ e.segs \cap Unmemorable = {} /\ UnapprovedMemorable(e) = {}
<1> SUFFICES ASSUME NEW e \in Call, CheckWithoutPolicy(e) = "approve"
             PROVE  ~e.danger /\ e.segs \cap Unmemorable = {} /\ UnapprovedMemorable(e) = {}
  OBVIOUS
<1> DEFINE denied == UNION {rules[s].deny : s \in Scopes}
           allows == UNION {rules[s].allow : s \in Scopes}
<1>1. ~e.danger
  BY DEF CheckWithoutPolicy
<1>2. e.segs \cap Unmemorable = {}
  BY <1>1, CallFields, SegmentsAssumption DEF CheckWithoutPolicy
<1>3. CASE e.class = "ReadOnly"
  BY <1>1, <1>2, <1>3, CallFields DEF UnapprovedMemorable, Writable
<1>4. CASE e.class # "ReadOnly" /\ LearnedHit(e)
  BY <1>1, <1>2, <1>4, CallFields DEF UnapprovedMemorable, Writable, LearnedHit
<1>5. CASE e.class # "ReadOnly" /\ ~LearnedHit(e)
  <2>1. StoreHit(e) = "approve"
    BY <1>1, <1>2, <1>5 DEF CheckWithoutPolicy
  <2>2. CASE e.segs = {}
    BY <1>1, <2>2, CallFields DEF UnapprovedMemorable, Writable
  <2>3. CASE e.segs # {}
    <3>1. FindForSegments(e) = "approve"
      BY <2>1, <2>3 DEF StoreHit
    <3>2. /\ e.tool \notin denied /\ e.segs \cap denied = {}
          /\ e.tool \in allows \/ Writable(e) \subseteq allows
      BY <3>1 DEF FindForSegments
    <3> HIDE DEF denied, allows
    <3>3. ASSUME NEW x \in Writable(e)
          PROVE  FindForSegments([e EXCEPT !.segs = {x}]) = "approve"
      <4> DEFINE f == [e EXCEPT !.segs = {x}]
      <4>1. f.tool = e.tool /\ f.segs = {x}
        BY DEF Call
      <4>2. Writable(f) = {x} /\ x \in e.segs
        BY <4>1 DEF Writable
      <4>3. f.tool \notin denied /\ f.segs \cap denied = {}
        BY <3>2, <4>1, <4>2
      <4>4. Writable(f) # {} /\ (f.tool \in allows \/ Writable(f) \subseteq allows)
        BY <3>2, <3>3, <4>1, <4>2
      <4> HIDE DEF f
      <4>5. FindForSegments(f) = "approve"
        BY <4>3, <4>4 DEF FindForSegments, denied, allows
      <4> QED
        BY <4>5 DEF f
    <3> QED
      BY <1>1, <1>2, <3>3 DEF UnapprovedMemorable
  <2> QED
    BY <2>2, <2>3
<1> QED
  BY <1>3, <1>4, <1>5

\* With more rules there is less left to make a rule for.
LEMMA UnapprovedShrinks ==
  ASSUME RulesGrow, NEW i
  PROVE  UnapprovedMemorable(calls[i])' \subseteq UnapprovedMemorable(calls[i])
<1>1. ASSUME NEW f, FindForSegments(f) = "approve" PROVE FindForSegments(f)' = "approve"
  <2>1. UNION {rules'[s].deny : s \in Scopes} = UNION {rules[s].deny : s \in Scopes}
    BY DEF RulesGrow
  <2>2. UNION {rules[s].allow : s \in Scopes} \subseteq UNION {rules'[s].allow : s \in Scopes}
    BY DEF RulesGrow
  <2> QED
    BY <1>1, <2>1, <2>2 DEF FindForSegments, Writable
<1>2. PICK e : e = calls[i] /\ e = calls'[i]
  BY DEF RulesGrow
<1>3. \A x : FindForSegments([e EXCEPT !.segs = {x}]) = "approve"
         => FindForSegments([e EXCEPT !.segs = {x}])' = "approve"
  BY <1>1
<1> QED
  BY <1>2, <1>3 DEF UnapprovedMemorable, Writable, RulesGrow

-----------------------------------------------------------------------------
\* What every step keeps or lets grow.
Frame ==
  /\ RulesGrow
  /\ allowed \subseteq allowed' /\ unsteady \subseteq unsteady'
  /\ (cancel => cancel') /\ (jammed => jammed')
  /\ mode' = mode \/ \A i \in Index : pc[i] \in {"checked", "queued"} => i \in unsteady'

\* What may become of a request of call i in a step that is not one of call i: nothing,
\* or it is settled by a stop, by a person who was shown it, or by the scan.
Elsewhere(i, r) ==
  \/ verdict'[r] = verdict[r] /\ (r \in pending' <=> r \in pending)
  \/ /\ r \in pending /\ r \notin pending'
     /\ \/ cancel /\ verdict'[r] = "deny"
        \/ verdict'[r] \in {"once", "remember", "deny"} /\ r \notin auto
        \/ /\ r = MainReq(i) /\ verdict'[r] = "scan"
           /\ ~calls[i].danger /\ calls[i].segs \cap Unmemorable = {}
           /\ UnapprovedMemorable(calls[i])' = {}
  \/ jammed' /\ r = MainReq(i) /\ r \notin pending' /\ verdict'[r] = verdict[r]

\* A step that is not one of call i leaves the call where it is.
Outside(i) ==
  /\ pc'[i] = pc[i] /\ perm'[i] = perm[i] /\ judged'[i] = judged[i]
  /\ \A r \in Own(i) :
       /\ r \in auto' <=> r \in auto
       /\ r \in inbox' \/ r \in delivered' => r \in inbox \/ r \in delivered
       /\ r \in pending' /\ (r \in inbox \/ r \in delivered) => cancel' \/ r \in inbox' \/ r \in delivered'
       /\ Elsewhere(i, r)

\* Such a step keeps the invariant of call i.
LEMMA OutsideKeeps ==
  ASSUME TypeOK, Frame, NEW i \in Index, CallInv(i), Outside(i)
  PROVE  CallInv(i)'
<1> USE DEF CallInv
<1>1. calls'[i] = calls[i] /\ (IsTool(i)' <=> IsTool(i)) /\ (Asks(i)' <=> Asks(i))
  BY DEF Frame, RulesGrow, IsTool, Asks, Outside
<1>2. PathReq(i) # MainReq(i) /\ PathReq(i)' = PathReq(i) /\ MainReq(i)' = MainReq(i)
  BY DEF PathReq, MainReq
<1> DEFINE P == PathReq(i)
           M == MainReq(i)
<1>3. ASSUME NEW r \in Own(i), Untouched(r) PROVE Untouched(r)'
  <2>1. Elsewhere(i, r)
    BY DEF Outside
  <2> QED
    BY <1>3, <2>1 DEF Outside, Untouched, Elsewhere
<1>4. P \in Own(i) /\ M \in Own(i) /\ Own(i)' = Own(i) /\ \A r \in Own(i) : r = P \/ r = M
  BY DEF Own, PathReq, MainReq
<1>5. Elsewhere(i, P) /\ Elsewhere(i, M)
  BY <1>4 DEF Outside
<1>6. pc'[i] = pc[i] /\ perm'[i] = perm[i] /\ judged'[i] = judged[i]
  BY DEF Outside
<1>7. (P \in auto' <=> P \in auto) /\ (M \in auto' <=> M \in auto)
  BY <1>4 DEF Outside
<1>8. Fresh(i)'
  BY <1>1, <1>2, <1>3, <1>4, <1>6, <1>7 DEF Fresh
<1>9. Table(i)'
  <2> SUFFICES ASSUME NEW r \in Own(i), r \in pending'
               PROVE  verdict'[r] = "none" /\ (cancel' \/ r \in inbox' \/ r \in delivered')
    BY <1>4 DEF Table
  <2>1. r \in pending /\ verdict'[r] = verdict[r]
    BY DEF Outside, Elsewhere
  <2> QED
    BY <2>1 DEF Table, Outside, Frame
<1>10. \/ verdict'[P] = verdict[P] /\ (P \in pending' <=> P \in pending)
       \/ P \in pending /\ P \notin pending' /\ verdict'[P] \in {"once", "remember", "deny"}
  BY <1>2, <1>5 DEF Elsewhere
<1>11. PathOpened(i)' <=> PathOpened(i)
  BY <1>2, <1>10 DEF PathOpened
<1>12. verdict[P] # "none" => P \notin pending
  BY <1>4 DEF Table
<1>13. verdict[M] # "none" => M \notin pending
  BY <1>4 DEF Table
<1>14. verdict[P] # "none" => verdict'[P] = verdict[P] /\ P \notin pending'
  BY <1>10, <1>12
<1>15. verdict[M] # "none" => verdict'[M] = verdict[M]
  BY <1>5, <1>13 DEF Elsewhere
<1>16. Consent(i)'
  <2> SUFFICES ASSUME IsTool(i), pc[i] # "none" PROVE Consent(i)'
    BY <1>1, <1>6 DEF Consent
  <2>1. /\ calls[i].danger => perm[i] \in {"deny", "askRefuse"}
        /\ calls[i].segs \cap Unmemorable # {} =>
             perm[i] \in {"deny", "ask", "askRefuse", "yolo"} \/ Bypass
        /\ ~(calls[i].paths \subseteq allowed) => PathOpened(i) \/ perm[i] = "deny"
    BY DEF Consent
  <2>2. pc[i] \in {"judgeTool", "gate", "waitTool", "exec", "done"} /\ PathOpened(i)
          => verdict'[P] \in Granted
    BY <1>14 DEF Consent, Granted
  <2>3. pc[i] \in {"exec", "done"} =>
          perm[i] # "deny" /\ (Asks(i) => verdict'[M] \notin {"none", "deny"})
    BY <1>15 DEF Consent
  <2>4. allowed \subseteq allowed'
    BY DEF Frame
  <2> QED
    BY <1>1, <1>2, <1>6, <1>11, <2>1, <2>2, <2>3, <2>4 DEF Consent
<1>17. Scanned(i)'
  <2>1. UnapprovedMemorable(calls[i])' \subseteq UnapprovedMemorable(calls[i])
    BY UnapprovedShrinks DEF Frame
  <2>2. verdict'[M] = verdict[M] \/ verdict'[M] # "scan"
        \/ (/\ ~calls[i].danger /\ calls[i].segs \cap Unmemorable = {}
            /\ UnapprovedMemorable(calls[i])' = {})
    BY <1>5 DEF Elsewhere
  <2> QED
    BY <1>1, <1>2, <2>1, <2>2 DEF Scanned
<1>18. Closed(i)'
  <2>1. P \notin pending => P \notin pending'
    BY <1>10
  <2>2. M \in pending' => M \in pending
    BY <1>5 DEF Elsewhere
  <2>3. verdict[P] = "deny" => verdict'[P] = "deny"
    BY <1>14
  <2> QED
    BY <1>2, <1>6, <2>1, <2>2, <2>3 DEF Closed, Frame
<1>19. P \in pending' => P \in pending
  BY <1>10
<1>20. M \in pending' => M \in pending
  BY <1>5 DEF Elsewhere
<1>21. i \notin unsteady' => i \notin unsteady /\ (pc[i] \in {"checked", "queued"} => mode' = mode)
  BY DEF Frame
<1>22. i \notin unsteady' => (Judging(i)' <=> Judging(i))
  BY <1>6, <1>21 DEF Judging
<1>23. Dialogs(i)'
  BY <1>1, <1>2, <1>6, <1>7, <1>19, <1>20, <1>21, <1>22 DEF Dialogs
<1>24. Unanswered(i)'
  <2> SUFFICES ASSUME IsTool(i), i \notin unsteady', ~cancel', ~jammed', Judging(i), Asks(i),
                      pc[i] # "checked"
               PROVE  M \in pending' \/ verdict'[M] = "scan"
    BY <1>1, <1>2, <1>6, <1>22 DEF Unanswered
  <2>1. i \notin unsteady /\ ~cancel /\ ~jammed
    BY <1>21 DEF Frame
  <2>2. M \in pending \/ verdict[M] = "scan"
    BY <2>1 DEF Unanswered
  <2>3. CASE M \in pending
    <3>1. pc[i] \notin Ended
      BY DEF Judging, Ended
    <3>2. M \in auto
      BY <2>1, <2>3, <3>1 DEF Dialogs
    <3> QED
      BY <1>5, <2>1, <2>3, <3>2 DEF Elsewhere
  <2>4. CASE verdict[M] = "scan"
    BY <1>15, <2>4
  <2> QED
    BY <2>2, <2>3, <2>4
<1> QED
  BY <1>8, <1>9, <1>16, <1>17, <1>18, <1>23, <1>24

\* The same with the rules of the next state.
LEMMA NothingUnapprovedNext ==
  \A e \in Call : CheckWithoutPolicy(e)' = "approve" =>
    ~e.danger /\ e.segs \cap Unmemorable = {} /\ UnapprovedMemorable(e)' = {}
<1>1. (\A e \in Call : CheckWithoutPolicy(e) = "approve" =>
    ~e.danger /\ e.segs \cap Unmemorable = {} /\ UnapprovedMemorable(e) = {})'
  BY NothingUnapproved, PTL
<1> QED
  BY <1>1

-----------------------------------------------------------------------------
\* The steps of call i.
OwnStep(i) ==
  \/ SpawnTool(i) \/ OpenToolApproval(i) \/ SpawnOther(i) \/ StartTool(i) \/ PathDecided(i)
  \/ PassGate(i) \/ Executed(i) \/ RunAtOnce(i) \/ EnterPlan(i) \/ StartWaiting(i) \/ Answered(i)
  \/ \E d \in {"allow", "deny", "ask"} : JudgePath(i, d) \/ JudgeTool(i, d)
  \/ \E b \in BOOLEAN : ToolDecided(i, b)

\* The steps of the loop, the driver and the person.
OtherStep == BreakOff \/ DriverStep \/ PersonStep

\* Every step is of one of the two kinds.
LEMMA NextCases == Next => OtherStep \/ \E i \in Index : OwnStep(i)
BY DEF Next, TaskStep, OtherStep, OwnStep

\* Remembering an answer takes back no rule.
LEMMA RememberGrows ==
  ASSUME TypeOK, NEW scope, NEW pats, Remember(scope, pats), UNCHANGED calls
  PROVE  RulesGrow
<1>1. learned \subseteq learned'
  BY DEF Remember
<1>2. ASSUME NEW s \in Scopes
      PROVE  rules'[s].deny = rules[s].deny /\ rules[s].allow \subseteq rules'[s].allow
  <2>1. rules \in [Scopes -> [allow : SUBSET Patterns, deny : SUBSET Patterns]]
    BY DEF TypeOK, GateTypeOK
  <2>2. rules' = rules \/ rules' = [rules EXCEPT ![scope].allow = @ \cup pats]
    BY DEF Remember
  <2>3. CASE rules' = [rules EXCEPT ![scope].allow = @ \cup pats]
    <3>1. rules'[s] = IF s = scope THEN [rules[s] EXCEPT !.allow = @ \cup pats] ELSE rules[s]
      BY <2>1, <2>3
    <3>2. rules[s] \in [allow : SUBSET Patterns, deny : SUBSET Patterns]
      BY <2>1
    <3>3. [rules[s] EXCEPT !.allow = @ \cup pats].deny = rules[s].deny
          /\ [rules[s] EXCEPT !.allow = @ \cup pats].allow = rules[s].allow \cup pats
      BY <3>2
    <3> QED
      BY <3>1, <3>3
  <2> QED
    BY <2>2, <2>3
<1> QED
  BY <1>1, <1>2 DEF RulesGrow

\* A step that leaves the rules alone.
LEMMA RulesKept == ASSUME UNCHANGED ruleVars PROVE RulesGrow /\ jammed' = jammed
BY DEF RulesGrow, ruleVars

\* A change of mode marks the calls whose check it overtakes.
LEMMA ModeChanges ==
  ASSUME TypeOK, NEW m, mode' = m, unsteady' = Shaken(m)
  PROVE  /\ unsteady \subseteq unsteady'
         /\ mode' = mode \/ \A i \in Index : pc[i] \in {"checked", "queued"} => i \in unsteady'
BY DEF Shaken

\* Every step is within the frame.
LEMMA FrameStep == ASSUME TypeOK, Next PROVE Frame
<1> DEFINE Modest == /\ unsteady \subseteq unsteady'
                     /\ \/ mode' = mode
                        \/ \A i \in Index : pc[i] \in {"checked", "queued"} => i \in unsteady'
<1>1. UNCHANGED modeVars => Modest
  BY DEF modeVars
<1>2. ASSUME NEW m, SetMode(m) PROVE Modest
  BY <1>2, ModeChanges DEF SetMode
<1>3. UNCHANGED stopVars => (cancel => cancel')
  BY DEF stopVars
<1> HIDE DEF Modest
<1>4. RulesGrow /\ (jammed => jammed') /\ allowed \subseteq allowed' /\ (cancel => cancel')
      /\ Modest => Frame
  BY DEF Frame, Modest
<1>5. CASE OtherStep
  <2>1. CASE BreakOff
    BY <2>1, <1>1, <1>3, <1>4, RulesKept DEF BreakOff
  <2>2. CASE DriverStep
    BY <2>2, <1>1, <1>3, <1>4, RulesKept DEF DriverStep, StopDrains, Deliver, stopVars
  <2>3. ASSUME NEW r \in Requests, NEW v, Reply(r, v) PROVE Frame
    BY <2>3, <1>1, <1>3, <1>4, RulesKept DEF Reply
  <2>4. ASSUME NEW r \in Requests, NEW scope, NEW pats, ReplyRemember(r, scope, pats) PROVE Frame
    <3>1. UNCHANGED calls /\ ~jammed
      BY <2>4 DEF ReplyRemember, ResolveRemember
    <3>2. Remember(scope, pats) \/ UNCHANGED <<learned, rules>>
      BY <2>4 DEF ReplyRemember, ResolveRemember
    <3>3. RulesGrow
      BY <3>1, <3>2, RememberGrows DEF RulesGrow
    <3> QED
      BY <2>4, <3>1, <3>3, <1>1, <1>3, <1>4 DEF ReplyRemember
  <2>5. ASSUME NEW m, SwitchMode(m) PROVE Frame
    BY <2>5, <1>2, <1>3, <1>4, RulesKept DEF SwitchMode
  <2>6. CASE Stop
    BY <2>6, <1>1, <1>4, RulesKept DEF Stop
  <2> QED
    BY <1>5, <2>1, <2>2, <2>3, <2>4, <2>5, <2>6 DEF OtherStep, PersonStep
<1>6. ASSUME NEW i \in Index, OwnStep(i) PROVE Frame
  <2>1. CASE SpawnTool(i)
    BY <2>1, <1>1, <1>3, <1>4, RulesKept DEF SpawnTool
  <2>2. CASE OpenToolApproval(i) \/ SpawnOther(i) \/ StartTool(i)
    BY <2>2, <1>1, <1>3, <1>4, RulesKept DEF OpenToolApproval, SpawnOther, StartTool
  <2>3. CASE PathDecided(i) \/ PassGate(i) \/ Executed(i) \/ RunAtOnce(i) \/ StartWaiting(i)
    BY <2>3, <1>1, <1>3, <1>4, RulesKept
    DEF PathDecided, PassGate, Executed, RunAtOnce, StartWaiting
  <2>4. CASE EnterPlan(i)
    BY <2>4, <1>2, <1>3, <1>4, RulesKept DEF EnterPlan
  <2>5. CASE Answered(i)
    <3>1. UNCHANGED <<mode, prePlan, unsteady>> => Modest
      BY DEF Modest
    <3>2. ASSUME NEW m, mode' = m, unsteady' = Shaken(m) PROVE Modest
      BY <3>2, ModeChanges DEF Modest
    <3>3. Modest
      BY <2>5, <3>1, <3>2 DEF Answered
    <3> QED
      BY <2>5, <3>3, <1>3, <1>4, RulesKept DEF Answered
  <2>6. ASSUME NEW d, JudgePath(i, d) PROVE Frame
    BY <2>6, <1>1, <1>3, <1>4, RulesKept DEF JudgePath
  <2>7. ASSUME NEW d, JudgeTool(i, d) PROVE Frame
    <3>1. UNCHANGED calls /\ UNCHANGED jammed
      BY <2>7 DEF JudgeTool
    <3>2. Remember("Session", Persisted(calls[i])) \/ UNCHANGED <<learned, rules>>
      BY <2>7 DEF JudgeTool
    <3>3. RulesGrow
      BY <3>1, <3>2, RememberGrows DEF RulesGrow
    <3> QED
      BY <2>7, <3>1, <3>3, <1>1, <1>3, <1>4 DEF JudgeTool
  <2>8. ASSUME NEW b, ToolDecided(i, b) PROVE Frame
    BY <2>8, <1>1, <1>3, <1>4, RulesKept DEF ToolDecided
  <2> QED
    BY <1>6, <2>1, <2>2, <2>3, <2>4, <2>5, <2>6, <2>7, <2>8 DEF OwnStep
<1> QED
  BY <1>5, <1>6, NextCases

-----------------------------------------------------------------------------
\* It is enough that nothing of call i changes but its two requests.
LEMMA OutsideParts ==
  ASSUME NEW i, pc'[i] = pc[i], perm'[i] = perm[i], judged'[i] = judged[i],
         \A r \in Own(i) :
           /\ r \in auto' <=> r \in auto
           /\ r \in inbox' <=> r \in inbox
           /\ r \in delivered' <=> r \in delivered,
         \A r \in Own(i) : Elsewhere(i, r)
  PROVE  Outside(i)
BY DEF Outside

\* Draining the gate is a stop for every request.
LEMMA Cancelled ==
  ASSUME TypeOK, CancelAllPending, cancel, NEW i \in Index
  PROVE  \A r \in Own(i) : Elsewhere(i, r)
<1>1. Own(i) \subseteq Requests
  BY RequestOf DEF Own
<1>2. \A r \in Requests : verdict'[r] = IF r \in pending THEN "deny" ELSE verdict[r]
  BY DEF CancelAllPending
<1> QED
  BY <1>1, <1>2 DEF Elsewhere, CancelAllPending

\* A step of the loop, the driver or the person is not one of call i.
LEMMA OtherOutside ==
  ASSUME TypeOK, OtherStep, NEW i \in Index
  PROVE  Outside(i)
<1>1. Own(i) \subseteq Requests
  BY RequestOf DEF Own
<1>2. CASE BreakOff
  BY <1>2, Cancelled, OutsideParts DEF BreakOff, ownVars, surfaceVars
<1>3. CASE StopDrains
  BY <1>3, Cancelled, OutsideParts DEF StopDrains, ownVars, surfaceVars, TypeOK
<1>4. ASSUME NEW r \in Requests, Deliver(r) PROVE Outside(i)
  <2>1. /\ UNCHANGED <<pc, ownVars, auto>> /\ cancel' = cancel /\ inbox' = inbox \ {r}
        /\ delivered \subseteq delivered' /\ delivered' \subseteq delivered \cup {r}
        /\ r \in inbox
    BY <1>4 DEF Deliver, stopVars
  <2>2. ASSUME NEW q \in Own(i) PROVE Elsewhere(i, q)
    <3>1. CASE cancel
      BY <1>4, <3>1, Cancelled DEF Deliver
    <3>2. CASE ~cancel
      BY <1>4, <3>2 DEF Deliver, Elsewhere, tableVars
    <3> QED
      BY <3>1, <3>2
  <2>3. ASSUME NEW q \in Own(i), q \in pending', q \in inbox \/ q \in delivered
        PROVE  cancel' \/ q \in inbox' \/ q \in delivered'
    <3>1. q \in pending
      BY <2>2, <2>3 DEF Elsewhere
    <3> QED
      BY <1>4, <2>1, <2>3, <3>1 DEF Deliver
  <2> QED
    BY <2>1, <2>2, <2>3 DEF Outside, ownVars
<1>5. ASSUME NEW r \in Requests, NEW v \in {"once", "deny"}, Reply(r, v) PROVE Outside(i)
  <2>1. UNCHANGED <<pc, ownVars, surfaceVars>> /\ r \in pending /\ r \notin auto
    BY <1>5 DEF Reply, Shown
  <2>2. pending' = pending \ {r} /\ verdict' = [verdict EXCEPT ![r] = v]
    BY <1>5, <2>1 DEF Reply, Settled
  <2>3. ASSUME NEW q \in Own(i) PROVE Elsewhere(i, q)
    BY <1>1, <2>1, <2>2 DEF Elsewhere, TypeOK, GateTypeOK
  <2> QED
    BY <2>1, <2>3, OutsideParts DEF ownVars, surfaceVars
<1>6. ASSUME NEW r \in Requests, NEW scope, NEW pats, ReplyRemember(r, scope, pats)
      PROVE  Outside(i)
  <2>1. UNCHANGED <<pc, ownVars, surfaceVars>> /\ r \notin auto
    BY <1>6 DEF ReplyRemember, Shown
  <2>2. r \in pending /\ calls' = calls
    BY <1>6 DEF ReplyRemember, ResolveRemember
  <2>3. ASSUME NEW q \in Own(i) PROVE Elsewhere(i, q)
    <3>1. CASE ~(IsToolRequest(r) /\ ~RefuseRemember(r))
      <4>1. pending' = pending \ {r} /\ verdict' = [verdict EXCEPT ![r] = "remember"]
        BY <1>6, <3>1 DEF ReplyRemember, ResolveRemember
      <4> QED
        BY <1>1, <2>1, <2>2, <4>1 DEF Elsewhere, TypeOK, GateTypeOK
    <3>2. CASE IsToolRequest(r) /\ ~RefuseRemember(r) /\ ScanTakesLock(r)
      <4>1. jammed' /\ pending' = pending \ {r} /\ verdict' = verdict
        BY <1>6, <3>2 DEF ReplyRemember, ResolveRemember
      <4>2. q = r => q = MainReq(i)
        BY <3>2 DEF IsToolRequest, Own, MainReq, PathReq
      <4> QED
        BY <4>1, <4>2 DEF Elsewhere
    <3>3. CASE IsToolRequest(r) /\ ~RefuseRemember(r) /\ ~ScanTakesLock(r)
      <4>1. /\ pending' = pending \ ({r} \cup ScanApproves(r))
            /\ \A x \in Requests : verdict'[x] = IF x = r THEN "remember"
                                    ELSE IF x \in ScanApproves(r) THEN "scan" ELSE verdict[x]
        BY <1>6, <3>3 DEF ReplyRemember, ResolveRemember
      <4>2. CASE q \notin ScanApproves(r)
        BY <1>1, <2>1, <2>2, <4>1, <4>2 DEF Elsewhere
      <4>3. CASE q \in ScanApproves(r)
        <5>1. q # r /\ q \in pending /\ IsToolRequest(q) /\ CheckWithoutPolicy(calls[q[1]])' = "approve"
          BY <4>3 DEF ScanApproves, Rescanned
        <5>2. q = MainReq(i) /\ q[1] = i
          BY <5>1 DEF IsToolRequest, Own, MainReq, PathReq
        <5>3. PICK e \in Call : e = calls[i] /\ e = calls'[i]
          BY <2>2 DEF TypeOK, GateTypeOK
        <5>4. CheckWithoutPolicy(e)' = "approve"
          BY <5>1, <5>2, <5>3, <2>2
        <5>5. ~e.danger /\ e.segs \cap Unmemorable = {} /\ UnapprovedMemorable(e)' = {}
          BY <5>4, NothingUnapprovedNext
        <5>6. UnapprovedMemorable(calls[i])' = {}
          BY <5>3, <5>5, <2>2
        <5>7. q \notin pending' /\ verdict'[q] = "scan"
          BY <1>1, <4>1, <4>3, <5>1
        <5> QED
          BY <5>1, <5>2, <5>3, <5>5, <5>6, <5>7 DEF Elsewhere
      <4> QED
        BY <4>2, <4>3
    <3> QED
      BY <3>1, <3>2, <3>3
  <2> QED
    BY <2>1, <2>3, OutsideParts DEF ownVars, surfaceVars
<1>7. ASSUME NEW m, SwitchMode(m) PROVE Outside(i)
  BY <1>7, OutsideParts DEF SwitchMode, Elsewhere, tableVars, ownVars, surfaceVars
<1>8. CASE Stop
  BY <1>8, OutsideParts DEF Stop, Elsewhere, tableVars, ownVars, surfaceVars
<1> QED
  BY <1>2, <1>3, <1>4, <1>5, <1>6, <1>7, <1>8 DEF OtherStep, DriverStep, PersonStep

\* Nor is a step that changes nothing.
LEMMA StutterOutside ==
  ASSUME UNCHANGED vars, NEW i \in Index
  PROVE  Outside(i)
BY OutsideParts DEF vars, tableVars, ownVars, surfaceVars, Elsewhere

-----------------------------------------------------------------------------
\* A step of call j opens and settles requests of j only.
LEMMA OwnOutside ==
  ASSUME TypeOK, NEW j \in Index, OwnStep(j), NEW i \in Index, i # j
  PROVE  Outside(i)
<1> DEFINE P == PathReq(j)
           M == MainReq(j)
<1>1. \A r \in Own(i) : r # P /\ r # M /\ r \in Requests
  BY RequestOf DEF Own, PathReq, MainReq
<1>2. ASSUME NEW to, Moves(j, to) PROVE pc'[i] = pc[i]
  BY <1>2 DEF Moves, TypeOK
<1>3. UNCHANGED ownVars => perm'[i] = perm[i] /\ judged'[i] = judged[i]
  BY DEF ownVars
<1>4. UNCHANGED surfaceVars =>
        \A r \in Own(i) : /\ r \in auto' <=> r \in auto
                          /\ r \in inbox' <=> r \in inbox
                          /\ r \in delivered' <=> r \in delivered
  BY DEF surfaceVars
<1>5. UNCHANGED tableVars => \A r \in Own(i) : Elsewhere(i, r)
  BY DEF tableVars, Elsewhere
<1>6. ASSUME NEW r \in {P, M}, Opened(r), UNCHANGED verdict
      PROVE  \A q \in Own(i) : Elsewhere(i, q)
  BY <1>1, <1>6 DEF Opened, Elsewhere
<1>7. ASSUME NEW r \in {P, M}, NEW v, Settled(r, v)
      PROVE  \A q \in Own(i) : Elsewhere(i, q)
  BY <1>1, <1>7 DEF Settled, Elsewhere, TypeOK, GateTypeOK
<1>8. ASSUME NEW r \in {P, M}, Announce(r), UNCHANGED <<verdict, delivered>>
      PROVE  \A q \in Own(i) :
                                /\ q \in auto' <=> q \in auto
                                /\ q \in inbox' <=> q \in inbox
                                /\ q \in delivered' <=> q \in delivered
                                /\ Elsewhere(i, q)
  BY <1>1, <1>6, <1>8 DEF Announce
<1>9. ASSUME NEW r \in {P, M}, auto' = auto \/ Reveal(r), UNCHANGED <<inbox, delivered>>
      PROVE  \A q \in Own(i) :
                                /\ q \in auto' <=> q \in auto
                                /\ q \in inbox' <=> q \in inbox
                                /\ q \in delivered' <=> q \in delivered
  BY <1>1, <1>9 DEF Reveal
<1>10. P \in {P, M} /\ M \in {P, M}
  OBVIOUS
<1> HIDE DEF P, M
<1>11. CASE SpawnTool(j)
  <2>1. pc'[i] = pc[i] /\ perm'[i] = perm[i] /\ judged'[i] = judged[i]
    BY <1>11 DEF SpawnTool, TypeOK
  <2>2. \/ Announce(P) /\ UNCHANGED <<verdict, delivered>>
        \/ UNCHANGED <<verdict, delivered, pending, inbox, auto>>
    BY <1>11 DEF SpawnTool, P
  <2>3. CASE Announce(P) /\ UNCHANGED <<verdict, delivered>>
    BY <2>1, <2>3, <1>8, <1>10, OutsideParts
  <2>4. CASE UNCHANGED <<verdict, delivered, pending, inbox, auto>>
    BY <2>1, <2>4, <1>4, <1>5, OutsideParts DEF tableVars, surfaceVars
  <2> QED
    BY <2>2, <2>3, <2>4
<1>12. CASE OpenToolApproval(j)
  <2>1. pc'[i] = pc[i]
    BY <1>12 DEF OpenToolApproval, TypeOK
  <2>2. Announce(M) /\ UNCHANGED <<verdict, delivered, ownVars>>
    BY <1>12 DEF OpenToolApproval, M
  <2> QED
    BY <2>1, <2>2, <1>3, <1>8, <1>10, OutsideParts
<1>13. CASE SpawnOther(j)
  <2>1. pc'[i] = pc[i]
    BY <1>13 DEF SpawnOther, TypeOK
  <2> QED
    BY <1>13, <2>1, <1>3, <1>4, <1>5, OutsideParts DEF SpawnOther
<1>14. CASE StartTool(j)
  <2>1. pc'[i] = pc[i] /\ perm' = perm /\ judged'[i] = judged[i]
    BY <1>14 DEF StartTool, Moves, TypeOK
  <2> QED
    BY <1>14, <2>1, <1>4, <1>5, OutsideParts DEF StartTool
<1>15. CASE PathDecided(j) \/ PassGate(j) \/ Executed(j) \/ RunAtOnce(j) \/ EnterPlan(j) \/ Answered(j)
  <2>1. pc'[i] = pc[i]
    BY <1>15, <1>2 DEF PathDecided, PassGate, Executed, RunAtOnce, EnterPlan, Answered
  <2>2. UNCHANGED tableVars /\ UNCHANGED ownVars /\ UNCHANGED surfaceVars
    BY <1>15 DEF PathDecided, PassGate, Executed, RunAtOnce, EnterPlan, Answered
  <2> QED
    BY <2>1, <2>2, <1>3, <1>4, <1>5, OutsideParts
<1>16. CASE StartWaiting(j)
  <2>1. pc'[i] = pc[i] /\ perm' = perm /\ judged' = judged /\ auto' = auto /\ delivered' = delivered
    BY <1>16, <1>2 DEF StartWaiting
  <2>2. Opened(M) /\ UNCHANGED verdict /\ inbox' = inbox \cup {M}
    BY <1>16 DEF StartWaiting, M
  <2>3. \A q \in Own(i) : Elsewhere(i, q)
    BY <2>2, <1>6, <1>10
  <2>4. \A q \in Own(i) : q \in inbox' <=> q \in inbox
    BY <2>2, <1>1
  <2> QED
    BY <2>1, <2>3, <2>4, OutsideParts
<1>17. ASSUME NEW d, JudgePath(j, d) PROVE Outside(i)
  <2>1. pc'[i] = pc[i] /\ UNCHANGED ownVars /\ UNCHANGED <<inbox, delivered>>
    BY <1>17, <1>2 DEF JudgePath
  <2>2. auto' = auto \/ Reveal(P)
    BY <1>17 DEF JudgePath, P
  <2>3. UNCHANGED tableVars \/ \E v : Settled(P, v)
    BY <1>17 DEF JudgePath, P
  <2>4. \A q \in Own(i) : Elsewhere(i, q)
    BY <2>3, <1>5, <1>7, <1>10
  <2> QED
    BY <2>1, <2>2, <2>4, <1>3, <1>9, <1>10, OutsideParts
<1>18. ASSUME NEW d, JudgeTool(j, d) PROVE Outside(i)
  <2>1. pc'[i] = pc[i] /\ UNCHANGED ownVars /\ UNCHANGED <<inbox, delivered>>
    BY <1>18, <1>2 DEF JudgeTool
  <2>2. auto' = auto \/ Reveal(M)
    BY <1>18 DEF JudgeTool, M
  <2>3. UNCHANGED tableVars \/ \E v : Settled(M, v)
    BY <1>18 DEF JudgeTool, M
  <2>4. \A q \in Own(i) : Elsewhere(i, q)
    BY <2>3, <1>5, <1>7, <1>10
  <2> QED
    BY <2>1, <2>2, <2>4, <1>3, <1>9, <1>10, OutsideParts
<1>19. ASSUME NEW b, ToolDecided(j, b) PROVE Outside(i)
  <2>1. pc'[i] = pc[i]
    BY <1>19, <1>2 DEF ToolDecided
  <2> QED
    BY <1>19, <2>1, <1>3, <1>4, <1>5, OutsideParts DEF ToolDecided
<1> QED
  BY <1>11, <1>12, <1>13, <1>14, <1>15, <1>16, <1>17, <1>18, <1>19 DEF OwnStep

-----------------------------------------------------------------------------
\* What the check may decide of a dangerous command, of one that deletes, and of a path
\* outside the workspace.
LEMMA PermissionFacts ==
  ASSUME TypeOK, NEW e \in Call, e.tool \in {"Bash", "Edit", "Read"}, NEW out
  PROVE  /\ Permission(e, out) \in {"yolo", "auto", "approve", "deny", "ask", "askRefuse"}
         /\ e.danger => Permission(e, out) \in {"deny", "askRefuse"}
         /\ e.segs \cap Unmemorable # {} =>
              Permission(e, out) \in {"deny", "ask", "askRefuse", "yolo"} \/ Bypass
         /\ out # {} /\ mode = "Yolo" => Permission(e, out) = "deny"
<1>1. e.class = "ReadOnly" => e.segs \subseteq ReadonlySegs /\ ~e.danger
  BY CallFields
<1>2. e.tool # "Bash" => e.segs = {} /\ ~e.danger
  BY CallFields
<1>3. StoreHit(e) \in {"none", "deny", "approve"}
  BY DEF StoreHit, FindForSegments, FindForTool
<1>4. /\ CheckWithoutPolicy(e) \in {"none", "approve", "deny", "ask", "askRefuse"}
      /\ e.danger => CheckWithoutPolicy(e) = "askRefuse"
      /\ e.segs \cap Unmemorable # {} => CheckWithoutPolicy(e) \in {"ask", "askRefuse"}
  BY <1>1, <1>3, SegmentsAssumption DEF CheckWithoutPolicy
<1>5. /\ Check(e) \in {"approve", "deny", "ask", "askRefuse"}
      /\ e.danger => Check(e) = "askRefuse"
      /\ e.segs \cap Unmemorable # {} => Check(e) \in {"ask", "askRefuse"}
  BY <1>4, SegmentsAssumption DEF Check
<1>6. EditAutoAllowed(e, out) => ~e.danger /\ e.segs = {}
  BY <1>2 DEF EditAutoAllowed
<1>7. BashSafeWriteAllowed(e, out) => ~e.danger /\ e.segs \cap Unmemorable = {}
  BY SegmentsAssumption DEF BashSafeWriteAllowed
<1> HIDE DEF Check, EditAutoAllowed, BashSafeWriteAllowed
<1> QED
  BY <1>5, <1>6, <1>7 DEF Permission, YoloDecision

\* The check of a call keeps the invariant of the call.
LEMMA SpawnToolKeeps ==
  ASSUME TypeOK, NEW i \in Index, CallInv(i), SpawnTool(i)
  PROVE  CallInv(i)'
<1> DEFINE P == PathReq(i)
           M == MainReq(i)
           out == calls[i].paths \ allowed
           p == Permission(calls[i], out)
<1>1. /\ IsTool(i) /\ pc[i] = "none" /\ Untouched(P) /\ Untouched(M)
      /\ calls[i] \in Call /\ calls[i].tool \in {"Bash", "Edit", "Read"}
  BY DEF SpawnTool, Upcoming, Due, CallInv, Fresh, IsTool, TypeOK, GateTypeOK
<1>2. /\ P # M /\ P' = P /\ M' = M /\ Own(i) = {P, M} /\ Own(i)' = {P, M}
  BY DEF PathReq, MainReq, Own
<1>3. /\ calls' = calls /\ (IsTool(i)' <=> IsTool(i))
      /\ UNCHANGED <<verdict, allowed, cancel, mode, unsteady, delivered, learned, rules, judged>>
  BY DEF SpawnTool, ruleVars, stopVars, modeVars, IsTool
<1>4. perm'[i] = p /\ pc'[i] = IF p \in {"ask", "askRefuse"} THEN "checked" ELSE "queued"
  BY DEF SpawnTool, TypeOK
<1>5. \/ /\ out # {} /\ mode # "Yolo"
         /\ pending' = pending \cup {P} /\ inbox' = inbox \cup {P}
         /\ auto' = IF mode = "AutoMode" THEN auto \cup {P} ELSE auto
      \/ /\ out = {} \/ mode = "Yolo"
         /\ UNCHANGED <<pending, inbox, auto>>
  BY DEF SpawnTool, Announce, Opened
<1>6. /\ calls[i].danger => p \in {"deny", "askRefuse"}
      /\ calls[i].segs \cap Unmemorable # {} =>
           p \in {"deny", "ask", "askRefuse", "yolo"} \/ Bypass
      /\ out # {} /\ mode = "Yolo" => p = "deny"
  BY <1>1, PermissionFacts
<1>7. Untouched(M)'
  BY <1>1, <1>2, <1>3, <1>5 DEF Untouched
<1>8. Asks(i)' <=> p \in {"ask", "askRefuse"}
  BY <1>4 DEF Asks
<1>9. PathOpened(i)' <=> P \in pending'
  BY <1>1, <1>2, <1>3 DEF PathOpened, Untouched
<1>10. ~(calls[i].paths \subseteq allowed) => P \in pending' \/ p = "deny"
  BY <1>5, <1>6
<1> HIDE DEF P, M, p, out
<1>11. Fresh(i)'
  BY <1>1, <1>2, <1>3, <1>4, <1>7, <1>8 DEF Fresh, P, M
<1>12. Table(i)'
  BY <1>1, <1>2, <1>3, <1>5, <1>7 DEF Table, Untouched
<1>13. Consent(i)'
  BY <1>1, <1>3, <1>4, <1>6, <1>9, <1>10 DEF Consent
<1>14. Scanned(i)'
  BY <1>2, <1>7 DEF Scanned, Untouched, M
<1>15. Closed(i)'
  BY <1>4 DEF Closed, Ended
<1>16. Dialogs(i)'
  BY <1>1, <1>2, <1>3, <1>4, <1>5, <1>7 DEF Dialogs, Untouched, P, M
<1>17. Unanswered(i)'
  BY <1>4, <1>8 DEF Unanswered
<1> QED
  BY <1>11, <1>12, <1>13, <1>14, <1>15, <1>16, <1>17 DEF CallInv

\* So does the opening of its request.
LEMMA OpenToolApprovalKeeps ==
  ASSUME TypeOK, NEW i \in Index, CallInv(i), OpenToolApproval(i)
  PROVE  CallInv(i)'
<1> DEFINE P == PathReq(i)
           M == MainReq(i)
<1>1. IsTool(i) /\ pc[i] = "checked" /\ Untouched(M) /\ Asks(i)
  BY DEF OpenToolApproval, CallInv, Fresh, Ended
<1>2. /\ P # M /\ P' = P /\ M' = M /\ Own(i) = {P, M} /\ Own(i)' = {P, M}
  BY DEF PathReq, MainReq, Own
<1>3. /\ calls' = calls /\ (IsTool(i)' <=> IsTool(i)) /\ (Asks(i)' <=> Asks(i))
      /\ UNCHANGED <<verdict, allowed, cancel, mode, unsteady, delivered, learned, rules, judged, perm>>
  BY DEF OpenToolApproval, ruleVars, stopVars, modeVars, IsTool, ownVars, Asks
<1>4. pc'[i] = "queued"
  BY DEF OpenToolApproval, TypeOK
<1>5. /\ pending' = pending \cup {M} /\ inbox' = inbox \cup {M}
      /\ auto' = IF mode = "AutoMode" THEN auto \cup {M} ELSE auto
  BY DEF OpenToolApproval, Announce, Opened
<1>6. PathOpened(i)' <=> PathOpened(i)
  BY <1>2, <1>3, <1>5 DEF PathOpened
<1>7. Judging(i)' <=> mode = "AutoMode"
  BY <1>3, <1>4 DEF Judging
<1> HIDE DEF P, M
<1>11. Fresh(i)'
  BY <1>1, <1>3, <1>4 DEF Fresh
<1>12. Table(i)'
  BY <1>1, <1>2, <1>3, <1>5 DEF Table, Untouched, CallInv
<1>13. Consent(i)'
  BY <1>1, <1>3, <1>4, <1>6 DEF Consent, CallInv
<1>14. Scanned(i)'
  BY <1>1, <1>2, <1>3 DEF Scanned, Untouched, M
<1>15. Closed(i)'
  BY <1>4 DEF Closed, Ended
<1>16. Dialogs(i)'
  <2>1. P \in pending' /\ P \in auto' => P \in pending /\ P \in auto
    BY <1>2, <1>5
  <2>2. M \in auto' <=> mode = "AutoMode"
    BY <1>1, <1>5 DEF Untouched
  <2> QED
    BY <1>1, <1>2, <1>3, <1>4, <1>7, <2>1, <2>2 DEF Dialogs, CallInv, P, M
<1>17. Unanswered(i)'
  BY <1>2, <1>5 DEF Unanswered, M
<1> QED
  BY <1>11, <1>12, <1>13, <1>14, <1>15, <1>16, <1>17 DEF CallInv

\* So does the spawning of a call that is not a tool.
LEMMA SpawnOtherKeeps ==
  ASSUME TypeOK, NEW i \in Index, CallInv(i), SpawnOther(i)
  PROVE  CallInv(i)'
<1>1. ~IsTool(i) /\ pc[i] = "none" /\ ~IsTool(i)'
  BY DEF SpawnOther, Upcoming, Due, IsTool, ruleVars
<1>2. pc'[i] = "queued"
  BY DEF SpawnOther, TypeOK
<1>3. PathReq(i)' = PathReq(i) /\ MainReq(i)' = MainReq(i) /\ Own(i)' = Own(i)
  BY DEF PathReq, MainReq, Own
<1>4. UNCHANGED <<calls, verdict, pending, auto, inbox, delivered, learned, rules, cancel>>
  BY DEF SpawnOther, tableVars, ruleVars, surfaceVars, stopVars
<1>5. \A r \in Own(i) : Untouched(r)' <=> Untouched(r)
  BY <1>4 DEF Untouched
<1>6. Fresh(i)'
  BY <1>1, <1>2, <1>3, <1>4, <1>5 DEF Fresh, CallInv, Own
<1>7. Table(i)'
  BY <1>3, <1>4 DEF Table, CallInv
<1>8. Scanned(i)'
  BY <1>1, <1>3, <1>4 DEF Scanned, CallInv, Fresh, Untouched
<1>9. Consent(i)' /\ Dialogs(i)' /\ Unanswered(i)'
  BY <1>1 DEF Consent, Dialogs, Unanswered
<1>10. Closed(i)'
  BY <1>2 DEF Closed, Ended
<1> QED
  BY <1>6, <1>7, <1>8, <1>9, <1>10 DEF CallInv

\* A step that leaves the table and the surface alone.
LEMMA UntouchedStep ==
  ASSUME NEW i \in Index, CallInv(i), UNCHANGED tableVars, UNCHANGED surfaceVars,
         UNCHANGED calls, UNCHANGED learned, UNCHANGED rules, UNCHANGED cancel
  PROVE  /\ Table(i)' /\ Scanned(i)'
         /\ \A r \in Own(i) : Untouched(r)' <=> Untouched(r)
         /\ PathReq(i)' = PathReq(i) /\ MainReq(i)' = MainReq(i) /\ (IsTool(i)' <=> IsTool(i))
         /\ PathOpened(i)' <=> PathOpened(i)
<1>1. Own(i)' = Own(i) /\ PathReq(i)' = PathReq(i) /\ MainReq(i)' = MainReq(i)
  BY DEF Own, PathReq, MainReq
<1>2. UNCHANGED <<pending, verdict, auto, inbox, delivered>>
  BY DEF tableVars, surfaceVars
<1>3. Table(i)'
  BY <1>1, <1>2 DEF Table, CallInv
<1>4. UnapprovedMemorable(calls[i])' = UnapprovedMemorable(calls[i])
  BY DEF UnapprovedMemorable, Writable, FindForSegments
<1>5. Scanned(i)'
  BY <1>1, <1>2, <1>4 DEF Scanned, CallInv
<1> QED
  BY <1>1, <1>2, <1>3, <1>5 DEF Untouched, IsTool, PathOpened

\* So does the start of its future, which reads the mode again.
LEMMA StartToolKeeps ==
  ASSUME TypeOK, NEW i \in Index, CallInv(i), StartTool(i)
  PROVE  CallInv(i)'
<1> DEFINE P == PathReq(i)
           M == MainReq(i)
           judge == mode = "AutoMode"
<1>1. IsTool(i) /\ pc[i] = "queued"
  BY DEF StartTool, Starts
<1>2. /\ UNCHANGED tableVars /\ UNCHANGED surfaceVars /\ UNCHANGED calls
      /\ UNCHANGED <<learned, rules, cancel, jammed, allowed, mode, unsteady, perm>>
  BY DEF StartTool, ruleVars, stopVars, modeVars
<1>3. judged'[i] = judge
  BY DEF StartTool, TypeOK
<1>4. pc'[i] = IF PathOpened(i) THEN IF judge THEN "judgePath" ELSE "waitPath"
               ELSE IF judge /\ Asks(i) THEN "judgeTool" ELSE "gate"
  BY DEF StartTool, Moves, TypeOK, AfterPath
<1>5. UNCHANGED <<pending, verdict, auto>>
  BY <1>2 DEF tableVars, surfaceVars
<1>6. Table(i)' /\ Scanned(i)' /\ P' = P /\ M' = M /\ (IsTool(i)' <=> IsTool(i))
      /\ (PathOpened(i)' <=> PathOpened(i)) /\ (Untouched(M)' <=> Untouched(M))
  BY <1>2, UntouchedStep DEF Own
<1>7. Asks(i)' <=> Asks(i)
  BY <1>2 DEF Asks
<1>8. M \in pending => Asks(i)
  BY <1>1 DEF CallInv, Fresh, Untouched
<1>9. P \in pending => PathOpened(i)
  BY DEF PathOpened
<1>10. i \notin unsteady /\ ~cancel /\ ~jammed /\ judge /\ Asks(i) => M \in pending \/ verdict[M] = "scan"
  BY <1>1 DEF CallInv, Unanswered, Judging
<1>11. i \notin unsteady => (P \in pending /\ P \in auto => judge) /\ (M \in pending => (M \in auto <=> judge))
  BY <1>1 DEF CallInv, Dialogs, Judging, Ended
<1>12. Consent(i)
  BY DEF CallInv
<1> HIDE DEF P, M, judge
<1>13. Fresh(i)'
  <2>1. ~Asks(i) => Untouched(M)
    BY <1>1 DEF CallInv, Fresh, M
  <2> QED
    BY <1>1, <1>4, <1>6, <1>7, <2>1 DEF Fresh, M
<1>14. Consent(i)'
  BY <1>1, <1>2, <1>4, <1>6, <1>7, <1>12 DEF Consent
<1>15. Closed(i)'
  BY <1>4 DEF Closed, Ended
<1>16. Dialogs(i)'
  <2>1. Judging(i)' <=> judge /\ pc'[i] # "gate"
    BY <1>3, <1>4 DEF Judging
  <2> QED
    BY <1>1, <1>2, <1>3, <1>4, <1>5, <1>6, <1>8, <1>9, <1>11, <2>1 DEF Dialogs, P, M
<1>17. Unanswered(i)'
  <2>1. Judging(i)' => judge
    BY <1>3, <1>4 DEF Judging
  <2> QED
    BY <1>2, <1>5, <1>6, <1>7, <1>10, <2>1 DEF Unanswered, M
<1> QED
  BY <1>6, <1>13, <1>14, <1>15, <1>16, <1>17 DEF CallInv

\* So does the answer to its path.
LEMMA PathDecidedKeeps ==
  ASSUME TypeOK, NEW i \in Index, CallInv(i), PathDecided(i)
  PROVE  CallInv(i)'
<1> DEFINE P == PathReq(i)
           M == MainReq(i)
<1>1. pc[i] = "waitPath" /\ verdict[P] # "none" /\ verdict[P] \in Verdicts
  BY RequestOf DEF PathDecided, TypeOK, GateTypeOK
<1>2. IsTool(i)
  BY <1>1 DEF CallInv, Fresh, Ended
<1>3. /\ UNCHANGED tableVars /\ UNCHANGED surfaceVars /\ UNCHANGED calls
      /\ UNCHANGED <<learned, rules, cancel, jammed, mode, unsteady, perm, judged>>
  BY DEF PathDecided, ruleVars, stopVars, modeVars, ownVars
<1>4. allowed \subseteq allowed'
  BY DEF PathDecided
<1>5. pc'[i] = IF verdict[P] \in Granted THEN IF judged[i] /\ Asks(i) THEN "judgeTool" ELSE "gate"
               ELSE "denied"
  BY DEF PathDecided, Moves, TypeOK, AfterPath
<1>6. UNCHANGED <<pending, verdict, auto>>
  BY <1>3 DEF tableVars, surfaceVars
<1>7. Table(i)' /\ Scanned(i)' /\ P' = P /\ M' = M /\ (IsTool(i)' <=> IsTool(i))
      /\ (PathOpened(i)' <=> PathOpened(i)) /\ (Untouched(M)' <=> Untouched(M))
  BY <1>3, UntouchedStep DEF Own
<1>8. Asks(i)' <=> Asks(i)
  BY <1>3 DEF Asks
<1>9. P \notin pending
  BY <1>1 DEF CallInv, Table, Own
<1>10. (M \in pending => Asks(i)) /\ (~Asks(i) => Untouched(M))
  BY <1>1, <1>2 DEF CallInv, Fresh, Untouched
<1>11. i \notin unsteady => (M \in pending => (M \in auto <=> judged[i]))
  BY <1>1, <1>2 DEF CallInv, Dialogs, Judging, Ended
<1>12. i \notin unsteady /\ ~cancel /\ ~jammed /\ judged[i] /\ Asks(i) => M \in pending \/ verdict[M] = "scan"
  BY <1>1, <1>2 DEF CallInv, Unanswered, Judging
<1>13. Consent(i)
  BY DEF CallInv
<1> HIDE DEF P, M
<1>14. Fresh(i)'
  BY <1>2, <1>5, <1>7, <1>8, <1>10 DEF Fresh, M
<1>15. Consent(i)'
  BY <1>1, <1>2, <1>3, <1>4, <1>5, <1>6, <1>7, <1>8, <1>13 DEF Consent, P
<1>16. Closed(i)'
  BY <1>1, <1>5, <1>6, <1>7, <1>9 DEF Closed, Ended, P, M, Verdicts, Granted
<1>17. Dialogs(i)'
  <2>1. pc'[i] # "denied" => (Judging(i)' <=> judged[i] /\ pc'[i] = "judgeTool")
    BY <1>3, <1>5 DEF Judging
  <2>2. pc'[i] \in {"judgeTool", "gate", "denied"} /\ (pc'[i] = "judgeTool" => judged[i])
    BY <1>5
  <2> QED
    BY <1>3, <1>5, <1>6, <1>7, <1>9, <1>10, <1>11, <2>1, <2>2 DEF Dialogs, P, M, Ended
<1>18. Unanswered(i)'
  <2>1. Judging(i)' => judged[i]
    BY <1>3, <1>5 DEF Judging
  <2> QED
    BY <1>3, <1>6, <1>7, <1>8, <1>12, <2>1 DEF Unanswered, M
<1> QED
  BY <1>7, <1>14, <1>15, <1>16, <1>17, <1>18 DEF CallInv

\* So do the gate, the answer to its request, and the tool.
LEMMA PassingKeeps ==
  ASSUME TypeOK, NEW i \in Index, CallInv(i),
         PassGate(i) \/ Executed(i) \/ \E b \in BOOLEAN : ToolDecided(i, b)
  PROVE  CallInv(i)'
<1> DEFINE P == PathReq(i)
           M == MainReq(i)
<1>1. pc[i] \in {"gate", "waitTool", "exec"}
  BY DEF PassGate, Executed, ToolDecided
<1>2. IsTool(i)
  BY <1>1 DEF CallInv, Fresh, Ended
<1>3. /\ UNCHANGED tableVars /\ UNCHANGED surfaceVars /\ UNCHANGED calls
      /\ UNCHANGED <<learned, rules, cancel, jammed, mode, unsteady, perm, judged, allowed>>
  BY DEF PassGate, Executed, ToolDecided, ruleVars, stopVars, modeVars, ownVars
<1>4. \/ pc[i] = "gate" /\ pc'[i] = IF cancel THEN "cancelled" ELSE "waitTool"
      \/ /\ pc[i] = "waitTool"
         /\ Asks(i) => verdict[M] # "none"
         /\ \/ pc'[i] = "denied"
            \/ cancel /\ pc'[i] = "cancelled"
            \/ ~Refused(i) /\ pc'[i] = "exec"
      \/ pc[i] = "exec" /\ pc'[i] = "done"
  <2>1. ASSUME NEW to, Moves(i, to) PROVE pc'[i] = to
    BY <2>1 DEF Moves, TypeOK
  <2>2. CASE PassGate(i)
    BY <2>1, <2>2 DEF PassGate
  <2>3. CASE Executed(i)
    BY <2>1, <2>3 DEF Executed
  <2>4. CASE \E b \in BOOLEAN : ToolDecided(i, b)
    <3>1. PICK b \in BOOLEAN : ToolDecided(i, b)
      BY <2>4, Zenon
    <3>2. /\ pc[i] = "waitTool"
          /\ Asks(i) => verdict[M] # "none"
          /\ \/ pc'[i] = "denied"
             \/ cancel /\ pc'[i] = "cancelled"
             \/ ~Refused(i) /\ pc'[i] = "exec"
      BY <2>1, <3>1 DEF ToolDecided
    <3> QED
      BY <3>2
  <2> QED
    BY <2>2, <2>3, <2>4
<1>5. UNCHANGED <<pending, verdict, auto>>
  BY <1>3 DEF tableVars, surfaceVars
<1>6. Table(i)' /\ Scanned(i)' /\ P' = P /\ M' = M /\ (IsTool(i)' <=> IsTool(i))
      /\ (PathOpened(i)' <=> PathOpened(i)) /\ (Untouched(M)' <=> Untouched(M))
  BY <1>3, UntouchedStep DEF Own
<1>7. Asks(i)' <=> Asks(i)
  BY <1>3 DEF Asks
<1>8. P \notin pending
  <2>1. PathOpened(i) => verdict[P] # "none"
    BY <1>1, <1>2 DEF CallInv, Consent, Granted
  <2> QED
    BY <2>1 DEF PathOpened, CallInv, Table, Own
<1>9. ~Asks(i) => Untouched(M)
  BY <1>1, <1>2 DEF CallInv, Fresh
<1>10. verdict[M] # "none" => M \notin pending
  BY DEF CallInv, Table, Own
<1>11. Consent(i) /\ Dialogs(i)
  BY DEF CallInv
<1>12. ~Judging(i) /\ ~Judging(i)'
  BY <1>1, <1>4 DEF Judging
<1>13. pc[i] # "gate" /\ pc'[i] \in {"denied", "exec"} => M \notin pending
  BY <1>4, <1>9, <1>10, <1>11 DEF Consent, Untouched
<1>14. pc[i] = "exec" => M \notin pending
  BY <1>2, <1>9, <1>10, <1>11 DEF Consent, Untouched
<1> HIDE DEF P, M
<1>15. Fresh(i)'
  BY <1>2, <1>4, <1>6, <1>7, <1>9 DEF Fresh, M
<1>16. Consent(i)'
  <2>1. pc'[i] \in {"exec", "done"} => perm[i] # "deny" /\ (Asks(i) => verdict[M] \notin {"none", "deny"})
    BY <1>2, <1>4, <1>11 DEF Consent, Refused, M
  <2>2. PathOpened(i) => verdict[P] \in Granted
    BY <1>1, <1>2, <1>11 DEF Consent, P
  <2>3. /\ calls[i].danger => perm[i] \in {"deny", "askRefuse"}
        /\ calls[i].segs \cap Unmemorable # {} =>
             perm[i] \in {"deny", "ask", "askRefuse", "yolo"} \/ Bypass
        /\ ~(calls[i].paths \subseteq allowed) => PathOpened(i) \/ perm[i] = "deny"
    BY <1>1, <1>2, <1>11 DEF Consent
  <2> QED
    BY <1>3, <1>5, <1>6, <1>7, <2>1, <2>2, <2>3 DEF Consent, P, M
<1>17. Closed(i)'
  BY <1>3, <1>4, <1>5, <1>6, <1>8, <1>13, <1>14 DEF Closed, Ended, P, M
<1>18. Dialogs(i)'
  BY <1>1, <1>2, <1>3, <1>4, <1>5, <1>6, <1>8, <1>11, <1>12 DEF Dialogs, P, M, Ended
<1>19. Unanswered(i)'
  BY <1>12 DEF Unanswered
<1> QED
  BY <1>6, <1>15, <1>16, <1>17, <1>18, <1>19 DEF CallInv

\* So do the steps of the calls that are not tools and open nothing.
LEMMA OtherCallKeeps ==
  ASSUME TypeOK, NEW i \in Index, CallInv(i), RunAtOnce(i) \/ EnterPlan(i) \/ Answered(i)
  PROVE  CallInv(i)'
<1> DEFINE P == PathReq(i)
           M == MainReq(i)
<1>1. ~IsTool(i)
  BY DEF RunAtOnce, EnterPlan, Answered, IsTool, CallInv, Fresh
<1>2. Untouched(M) \/ verdict[M] # "none"
  BY <1>1 DEF RunAtOnce, EnterPlan, Answered, Starts, CallInv, Fresh
<1>3. /\ UNCHANGED tableVars /\ UNCHANGED surfaceVars /\ UNCHANGED calls
      /\ UNCHANGED <<learned, rules, cancel>>
  BY DEF RunAtOnce, EnterPlan, Answered, ruleVars, stopVars
<1>4. pc'[i] \in {"done", "cancelled"}
  BY DEF RunAtOnce, EnterPlan, Answered, Moves, TypeOK
<1>5. Table(i)' /\ Scanned(i)' /\ P' = P /\ M' = M /\ (IsTool(i)' <=> IsTool(i))
      /\ (Untouched(M)' <=> Untouched(M)) /\ (Untouched(P)' <=> Untouched(P))
  BY <1>3, UntouchedStep DEF Own
<1>6. Untouched(P) /\ M \notin auto
  BY <1>1 DEF CallInv, Fresh
<1>7. M \notin auto'
  BY <1>3, <1>6 DEF surfaceVars
<1>8. M \notin pending /\ P \notin pending
  BY <1>2, <1>6 DEF Untouched, CallInv, Table, Own
<1>9. pending' = pending
  BY <1>3 DEF tableVars
<1> HIDE DEF P, M
<1>10. Fresh(i)'
  BY <1>1, <1>4, <1>5, <1>6, <1>7 DEF Fresh, P, M, Ended
<1>11. Closed(i)'
  BY <1>4, <1>5, <1>8, <1>9 DEF Closed, P, M
<1>12. Consent(i)' /\ Dialogs(i)' /\ Unanswered(i)'
  BY <1>1, <1>5 DEF Consent, Dialogs, Unanswered
<1> QED
  BY <1>5, <1>10, <1>11, <1>12 DEF CallInv

\* So does the start of a question or a plan.
LEMMA StartWaitingKeeps ==
  ASSUME TypeOK, NEW i \in Index, CallInv(i), StartWaiting(i)
  PROVE  CallInv(i)'
<1> DEFINE P == PathReq(i)
           M == MainReq(i)
<1>1. ~IsTool(i) /\ ~IsTool(i)' /\ pc[i] = "queued"
  BY DEF StartWaiting, IsTool, Starts, ruleVars
<1>2. Untouched(P) /\ Untouched(M)
  BY <1>1 DEF CallInv, Fresh
<1>3. P # M /\ P' = P /\ M' = M /\ Own(i) = {P, M} /\ Own(i)' = {P, M}
  BY DEF PathReq, MainReq, Own
<1>4. /\ pending' = pending \cup {M} /\ inbox' = inbox \cup {M}
      /\ UNCHANGED <<verdict, auto, delivered, cancel>>
  BY DEF StartWaiting, Opened, stopVars
<1>5. pc'[i] = "waitAnswer"
  BY DEF StartWaiting, Moves, TypeOK
<1> HIDE DEF P, M
<1>6. Untouched(P)'
  BY <1>2, <1>3, <1>4 DEF Untouched
<1>7. Fresh(i)'
  BY <1>1, <1>2, <1>3, <1>4, <1>5, <1>6 DEF Fresh, P, M, Untouched
<1>8. Table(i)'
  BY <1>2, <1>3, <1>4 DEF Table, Untouched
<1>9. Scanned(i)'
  BY <1>2, <1>3, <1>4 DEF Scanned, M, Untouched
<1>10. Closed(i)'
  BY <1>5 DEF Closed, Ended
<1>11. Consent(i)' /\ Dialogs(i)' /\ Unanswered(i)'
  BY <1>1 DEF Consent, Dialogs, Unanswered
<1> QED
  BY <1>7, <1>8, <1>9, <1>10, <1>11 DEF CallInv

\* So does the word of the judge on its path.
LEMMA JudgePathKeeps ==
  ASSUME TypeOK, NEW i \in Index, CallInv(i), NEW d, JudgePath(i, d)
  PROVE  CallInv(i)'
<1> DEFINE P == PathReq(i)
           M == MainReq(i)
<1>1. pc[i] = "judgePath" /\ IsTool(i)
  BY DEF JudgePath, CallInv, Fresh, Ended
<1>2. /\ UNCHANGED calls /\ UNCHANGED <<learned, rules, cancel, jammed, mode, unsteady, perm, judged,
                                       allowed, inbox, delivered>>
  BY DEF JudgePath, ruleVars, stopVars, modeVars, ownVars
<1>3. pc'[i] = "waitPath"
  BY DEF JudgePath, Moves, TypeOK
<1>4. P # M /\ P' = P /\ M' = M /\ Own(i) = {P, M} /\ Own(i)' = {P, M} /\ P \in Requests
      /\ M \in Requests
  BY RequestOf DEF PathReq, MainReq, Own
<1>5. \/ auto' = auto \ {P} /\ UNCHANGED <<pending, verdict>>
      \/ \E v \in {"judge", "deny"} : Settled(P, v) /\ UNCHANGED auto
  BY DEF JudgePath, Reveal, tableVars
<1>6. /\ M \in pending' <=> M \in pending
      /\ verdict'[M] = verdict[M] /\ (M \in auto' <=> M \in auto)
  BY <1>4, <1>5 DEF Settled, TypeOK, GateTypeOK
<1>7. \/ (P \in pending' <=> P \in pending) /\ P \notin auto' /\ verdict'[P] = verdict[P]
      \/ P \notin pending' /\ P \in pending /\ verdict'[P] # "none"
      \/ P \notin pending' /\ P \notin pending /\ verdict'[P] = verdict[P]
  BY <1>4, <1>5 DEF Settled, TypeOK, GateTypeOK
<1>8. (IsTool(i)' <=> IsTool(i)) /\ (Asks(i)' <=> Asks(i))
  BY <1>2 DEF IsTool, Asks
<1>9. PathOpened(i)' <=> PathOpened(i)
  BY <1>4, <1>7 DEF PathOpened
<1>10. Untouched(M)' <=> Untouched(M)
  BY <1>2, <1>4, <1>6 DEF Untouched
<1>11. Consent(i) /\ Dialogs(i) /\ Unanswered(i) /\ Table(i) /\ Fresh(i) /\ Scanned(i)
  BY DEF CallInv
<1> HIDE DEF P, M
<1>12. Fresh(i)'
  BY <1>1, <1>3, <1>8, <1>10, <1>11 DEF Fresh, M
<1>13. Table(i)'
  <2>1. P \in pending => verdict[P] = "none" /\ (cancel \/ P \in inbox \/ P \in delivered)
    BY <1>4, <1>11 DEF Table
  <2>2. M \in pending => verdict[M] = "none" /\ (cancel \/ M \in inbox \/ M \in delivered)
    BY <1>4, <1>11 DEF Table
  <2> QED
    BY <1>2, <1>4, <1>6, <1>7, <2>1, <2>2 DEF Table
<1>14. Consent(i)'
  BY <1>1, <1>2, <1>3, <1>8, <1>9, <1>11 DEF Consent
<1>15. Scanned(i)'
  <2>1. UnapprovedMemorable(calls[i])' = UnapprovedMemorable(calls[i])
    BY <1>2 DEF UnapprovedMemorable, Writable, FindForSegments
  <2> QED
    BY <1>2, <1>4, <1>6, <1>11, <2>1 DEF Scanned, M
<1>16. Closed(i)'
  BY <1>3 DEF Closed, Ended
<1>17. Judging(i) <=> judged[i]
  BY <1>1 DEF Judging
<1>18. Judging(i)' <=> judged[i]
  BY <1>2, <1>3 DEF Judging
<1>19. Dialogs(i)'
  <2>1. P \in pending' => P \notin auto' 
    <3>1. P \in pending' => (P \in pending /\ P \notin auto')
      BY <1>7
    <3> QED
      BY <3>1
  <2>2. i \notin unsteady => (M \in pending => (M \in auto <=> judged[i]))
    BY <1>1, <1>11, <1>17 DEF Dialogs, M, Ended
  <2> QED
    BY <1>2, <1>3, <1>4, <1>6, <1>18, <2>1, <2>2 DEF Dialogs, P, M
<1>20. Unanswered(i)'
  BY <1>1, <1>2, <1>3, <1>4, <1>6, <1>8, <1>11, <1>17, <1>18 DEF Unanswered, M
<1> QED
  BY <1>12, <1>13, <1>14, <1>15, <1>16, <1>19, <1>20 DEF CallInv

\* So does the word of the judge on the call.
LEMMA JudgeToolKeeps ==
  ASSUME TypeOK, NEW i \in Index, CallInv(i), RulesGrow, NEW d, JudgeTool(i, d)
  PROVE  CallInv(i)'
<1> DEFINE P == PathReq(i)
           M == MainReq(i)
<1>1. pc[i] = "judgeTool" /\ IsTool(i)
  BY DEF JudgeTool, CallInv, Fresh, Ended
<1>2. UNCHANGED <<calls, cancel, jammed, mode, unsteady, perm, judged, allowed, inbox, delivered>>
  BY DEF JudgeTool, stopVars, modeVars, ownVars
<1>3. pc'[i] = "gate"
  BY DEF JudgeTool, Moves, TypeOK
<1>4. P # M /\ P' = P /\ M' = M /\ Own(i) = {P, M} /\ Own(i)' = {P, M} /\ P \in Requests
      /\ M \in Requests
  BY RequestOf DEF PathReq, MainReq, Own
<1>5. \/ auto' = auto \ {M} /\ UNCHANGED <<pending, verdict>>
      \/ \E v \in {"judge", "deny"} : Settled(M, v) /\ UNCHANGED auto
  BY DEF JudgeTool, Reveal, tableVars
<1>6. /\ P \in pending' <=> P \in pending
      /\ verdict'[P] = verdict[P] /\ (P \in auto' <=> P \in auto)
  BY <1>4, <1>5 DEF Settled, TypeOK, GateTypeOK
<1>7. \/ (M \in pending' <=> M \in pending) /\ M \notin auto' /\ verdict'[M] = verdict[M]
      \/ M \notin pending' /\ M \in pending /\ verdict'[M] \in {"judge", "deny"}
      \/ M \notin pending' /\ M \notin pending /\ verdict'[M] = verdict[M]
  BY <1>4, <1>5 DEF Settled, TypeOK, GateTypeOK
<1>8. (IsTool(i)' <=> IsTool(i)) /\ (Asks(i)' <=> Asks(i))
  BY <1>2 DEF IsTool, Asks
<1>9. PathOpened(i)' <=> PathOpened(i)
  BY <1>4, <1>6 DEF PathOpened
<1>10. Consent(i) /\ Dialogs(i) /\ Table(i) /\ Fresh(i) /\ Scanned(i)
  BY DEF CallInv
<1>11. Asks(i)
  BY <1>1, <1>10 DEF Fresh
<1> HIDE DEF P, M
<1>12. Fresh(i)'
  BY <1>1, <1>3, <1>8, <1>11 DEF Fresh
<1>13. Table(i)'
  <2>1. P \in pending => verdict[P] = "none" /\ (cancel \/ P \in inbox \/ P \in delivered)
    BY <1>4, <1>10 DEF Table
  <2>2. M \in pending => verdict[M] = "none" /\ (cancel \/ M \in inbox \/ M \in delivered)
    BY <1>4, <1>10 DEF Table
  <2> QED
    BY <1>2, <1>4, <1>6, <1>7, <2>1, <2>2 DEF Table
<1>14. Consent(i)'
  BY <1>1, <1>2, <1>3, <1>4, <1>6, <1>8, <1>9, <1>10 DEF Consent, P
<1>15. Scanned(i)'
  <2>1. UnapprovedMemorable(calls[i])' \subseteq UnapprovedMemorable(calls[i])
    BY UnapprovedShrinks
  <2>2. verdict'[M] = "scan" => verdict[M] = "scan"
    BY <1>7
  <2> QED
    BY <1>2, <1>4, <1>10, <2>1, <2>2 DEF Scanned, M
<1>16. Closed(i)'
  BY <1>3 DEF Closed, Ended
<1>17. ~Judging(i)'
  BY <1>3 DEF Judging
<1>18. Dialogs(i)'
  <2>1. M \in pending' => M \notin auto'
    BY <1>7
  <2>2. i \notin unsteady /\ P \in pending => P \notin auto
    BY <1>1, <1>10 DEF Dialogs, P
  <2> QED
    BY <1>2, <1>3, <1>4, <1>6, <1>17, <2>1, <2>2 DEF Dialogs, P, M
<1>19. Unanswered(i)'
  BY <1>17 DEF Unanswered
<1> QED
  BY <1>12, <1>13, <1>14, <1>15, <1>16, <1>18, <1>19 DEF CallInv

\* Every step of a call keeps the invariant of the call.
LEMMA OwnKeeps ==
  ASSUME TypeOK, Frame, NEW i \in Index, CallInv(i), OwnStep(i)
  PROVE  CallInv(i)'
<1>1. RulesGrow
  BY DEF Frame
<1>2. ASSUME NEW d, JudgeTool(i, d) PROVE CallInv(i)'
  BY <1>1, <1>2, JudgeToolKeeps
<1>3. ASSUME NEW d, JudgePath(i, d) PROVE CallInv(i)'
  BY <1>3, JudgePathKeeps
<1> QED
  BY <1>2, <1>3, SpawnToolKeeps, OpenToolApprovalKeeps, SpawnOtherKeeps, StartToolKeeps,
     PathDecidedKeeps, PassingKeeps, OtherCallKeeps, StartWaitingKeeps
  DEF OwnStep

\* Every step keeps the invariant of every call.
LEMMA CallStep ==
  ASSUME TypeOK, \A i \in Index : CallInv(i), Next
  PROVE  \A i \in Index : CallInv(i)'
<1> SUFFICES ASSUME NEW i \in Index PROVE CallInv(i)'
  OBVIOUS
<1>1. Frame
  BY FrameStep
<1>2. CASE OtherStep
  BY <1>1, <1>2, OtherOutside, OutsideKeeps
<1>3. ASSUME NEW j \in Index, OwnStep(j) PROVE CallInv(i)'
  <2>1. CASE i = j
    BY <1>1, <1>3, <2>1, OwnKeeps
  <2>2. CASE i # j
    BY <1>1, <1>3, <2>2, OwnOutside, OutsideKeeps
  <2> QED
    BY <2>1, <2>2
<1> QED
  BY <1>2, <1>3, NextCases

-----------------------------------------------------------------------------
\* The type invariant, part by part: the table.
TableTypes == pending \subseteq Requests /\ verdict \in [Requests -> Verdicts]
\* The rules.
RuleTypes ==
  /\ calls \in [Index -> Call] /\ learned \subseteq Patterns /\ jammed \in BOOLEAN
  /\ rules \in [Scopes -> [allow : SUBSET Patterns, deny : SUBSET Patterns]]
\* What a run is given.
RunTypes == turn \in [Index -> Nat] /\ force \in BOOLEAN
\* The mode.
ModeTypes == mode \in Modes /\ prePlan \in Modes \cup {"none"} /\ switches \in 0 .. MaxSwitches
             /\ unsteady \subseteq Index
\* The loop.
LoopTypes == spawned \subseteq Index /\ broken \in BOOLEAN
\* Where the calls are.
PcTypes == pc \in [Index -> Running \cup Ended \cup {"none", "checked", "queued"}]
\* What a call remembers.
OwnTypes ==
  /\ perm \in [Index -> {"none", "yolo", "auto", "approve", "deny", "ask", "askRefuse"}]
  /\ judged \in [Index -> BOOLEAN] /\ snap \in [Index -> Modes \cup {"none"}]
\* What the surface knows.
SurfaceTypes == auto \subseteq Requests /\ inbox \subseteq Requests /\ delivered \subseteq Requests
                /\ inbox \cap delivered = {}
\* The stop.
StopTypes == cancel \in BOOLEAN /\ stopping \in BOOLEAN /\ (stopping => cancel)

\* The parts make up the type invariant.
LEMMA TypeParts ==
  TypeOK <=> /\ TableTypes /\ RuleTypes /\ RunTypes /\ ModeTypes /\ LoopTypes /\ PcTypes
             /\ OwnTypes /\ SurfaceTypes /\ StopTypes /\ allowed \subseteq Paths
BY DEF TypeOK, GateTypeOK, TableTypes, RuleTypes, RunTypes, ModeTypes, LoopTypes, PcTypes,
       OwnTypes, SurfaceTypes, StopTypes

\* The same in the next state.
LEMMA TypePartsNext ==
  TypeOK' <=> /\ TableTypes' /\ RuleTypes' /\ RunTypes' /\ ModeTypes' /\ LoopTypes' /\ PcTypes'
              /\ OwnTypes' /\ SurfaceTypes' /\ StopTypes' /\ allowed' \subseteq Paths
<1>1. (TypeOK <=> /\ TableTypes /\ RuleTypes /\ RunTypes /\ ModeTypes /\ LoopTypes /\ PcTypes
                  /\ OwnTypes /\ SurfaceTypes /\ StopTypes /\ allowed \subseteq Paths)'
  BY TypeParts, PTL
<1> QED
  BY <1>1

\* What is left alone keeps its type.
LEMMA TypesKept ==
  /\ TableTypes /\ UNCHANGED tableVars => TableTypes'
  /\ RuleTypes /\ UNCHANGED ruleVars => RuleTypes'
  /\ RunTypes /\ UNCHANGED runVars => RunTypes'
  /\ ModeTypes /\ UNCHANGED modeVars => ModeTypes'
  /\ LoopTypes /\ UNCHANGED loopVars => LoopTypes'
  /\ OwnTypes /\ UNCHANGED ownVars => OwnTypes'
  /\ SurfaceTypes /\ UNCHANGED surfaceVars => SurfaceTypes'
  /\ StopTypes /\ UNCHANGED stopVars => StopTypes'
<1>1. TableTypes /\ UNCHANGED tableVars => TableTypes'
  BY DEF TableTypes, tableVars
<1>2. RuleTypes /\ UNCHANGED ruleVars => RuleTypes'
  BY DEF RuleTypes, ruleVars
<1>3. RunTypes /\ UNCHANGED runVars => RunTypes'
  BY DEF RunTypes, runVars
<1>4. ModeTypes /\ UNCHANGED modeVars => ModeTypes'
  BY DEF ModeTypes, modeVars
<1>5. LoopTypes /\ UNCHANGED loopVars => LoopTypes'
  BY DEF LoopTypes, loopVars
<1>6. OwnTypes /\ UNCHANGED ownVars => OwnTypes'
  BY DEF OwnTypes, ownVars
<1>7. SurfaceTypes /\ UNCHANGED surfaceVars => SurfaceTypes'
  BY DEF SurfaceTypes, surfaceVars
<1>8. StopTypes /\ UNCHANGED stopVars => StopTypes'
  BY DEF StopTypes, stopVars
<1> QED
  BY <1>1, <1>2, <1>3, <1>4, <1>5, <1>6, <1>7, <1>8

\* The operations on the table keep its type.
LEMMA GateTypesKept ==
  ASSUME TableTypes
  PROVE  /\ CancelAllPending => TableTypes'
         /\ \A r \in Requests, v \in Verdicts : Settled(r, v) => TableTypes'
         /\ \A r \in Requests : Opened(r) /\ UNCHANGED verdict => TableTypes'
<1>1. CancelAllPending => TableTypes'
  BY DEF CancelAllPending, TableTypes, Verdicts
<1>2. ASSUME NEW r \in Requests, NEW v \in Verdicts, Settled(r, v) PROVE TableTypes'
  BY <1>2 DEF Settled, TableTypes
<1>3. ASSUME NEW r \in Requests, Opened(r), UNCHANGED verdict PROVE TableTypes'
  BY <1>3 DEF Opened, TableTypes
<1> QED
  BY <1>1, <1>2, <1>3

\* Remembering keeps the type of the rules.
LEMMA RememberTypes ==
  ASSUME RuleTypes, NEW scope \in Scopes \cup {"Once"}, NEW pats, pats \subseteq Patterns,
         Remember(scope, pats), UNCHANGED calls, jammed' \in BOOLEAN
  PROVE  RuleTypes'
<1>1. learned' \subseteq Patterns
  BY DEF Remember, RuleTypes
<1>2. rules' \in [Scopes -> [allow : SUBSET Patterns, deny : SUBSET Patterns]]
  <2>1. CASE scope = "Once"
    BY <2>1 DEF Remember, RuleTypes
  <2>2. CASE scope # "Once"
    <3>1. rules' = [rules EXCEPT ![scope].allow = @ \cup pats] /\ scope \in Scopes
      BY <2>2 DEF Remember
    <3>2. rules[scope] \in [allow : SUBSET Patterns, deny : SUBSET Patterns]
      BY <3>1 DEF RuleTypes
    <3>3. [rules[scope] EXCEPT !.allow = @ \cup pats] \in [allow : SUBSET Patterns, deny : SUBSET Patterns]
      BY <3>2
    <3> QED
      BY <3>1, <3>3 DEF RuleTypes
  <2> QED
    BY <2>1, <2>2
<1> QED
  BY <1>1, <1>2 DEF RuleTypes

\* Setting the mode keeps its type.
LEMMA ModeTypesKept ==
  ASSUME ModeTypes
  PROVE  \A m \in Modes : SetMode(m) /\ switches' \in 0 .. MaxSwitches => ModeTypes'
BY DEF ModeTypes, SetMode, Shaken

\* A call moves to one of its places.
LEMMA MovesTyped ==
  ASSUME PcTypes, NEW i \in Index, NEW to \in Running \cup Ended, Moves(i, to)
  PROVE  PcTypes'
BY DEF PcTypes, Moves

\* Announcing keeps the type of what the surface knows.
LEMMA AnnounceTyped ==
  ASSUME SurfaceTypes, NEW r \in Requests, r \notin delivered, Announce(r), UNCHANGED delivered
  PROVE  SurfaceTypes'
BY DEF SurfaceTypes, Announce

\* Every step of a call keeps the types.
LEMMA OwnTyped ==
  ASSUME TypeOK, NEW i \in Index, CallInv(i), OwnStep(i)
  PROVE  TypeOK'
<1> DEFINE P == PathReq(i)
           M == MainReq(i)
<1>1. /\ TableTypes /\ RuleTypes /\ RunTypes /\ ModeTypes /\ LoopTypes /\ PcTypes
      /\ OwnTypes /\ SurfaceTypes /\ StopTypes /\ allowed \subseteq Paths
  BY TypeParts
<1>2. P \in Requests /\ M \in Requests /\ calls[i] \in Call
  BY <1>1, RequestOf DEF RuleTypes
<1> USE <1>1
<1> HIDE DEF P, M
<1>3. CASE SpawnTool(i)
  <2>1. calls[i].tool \in {"Bash", "Edit", "Read"} /\ P \notin delivered
    BY <1>3 DEF SpawnTool, Upcoming, Due, IsTool, CallInv, Fresh, Untouched, P
  <2>2. Permission(calls[i], calls[i].paths \ allowed)
          \in {"yolo", "auto", "approve", "deny", "ask", "askRefuse"}
    BY <1>2, <2>1, PermissionFacts
  <2>3. OwnTypes'
    BY <1>3, <2>2 DEF SpawnTool, OwnTypes
  <2>4. PcTypes' /\ LoopTypes'
    BY <1>3 DEF SpawnTool, PcTypes, LoopTypes
  <2>5. TableTypes' /\ SurfaceTypes'
    <3>1. CASE Announce(P)
      BY <1>2, <1>3, <2>1, <3>1, AnnounceTyped, GateTypesKept DEF SpawnTool, Announce
    <3>2. CASE UNCHANGED <<pending, inbox, auto>>
      BY <1>3, <3>2 DEF SpawnTool, TableTypes, SurfaceTypes
    <3> QED
      BY <1>3, <3>1, <3>2 DEF SpawnTool, P
  <2> QED
    BY <1>3, <2>3, <2>4, <2>5, TypesKept, TypePartsNext DEF SpawnTool
<1>4. CASE OpenToolApproval(i)
  <2>1. M \notin delivered
    BY <1>4 DEF OpenToolApproval, CallInv, Fresh, Untouched, M
  <2>2. TableTypes' /\ SurfaceTypes'
    BY <1>2, <1>4, <2>1, AnnounceTyped, GateTypesKept DEF OpenToolApproval, Announce, M
  <2>3. PcTypes' /\ LoopTypes'
    BY <1>4 DEF OpenToolApproval, PcTypes, LoopTypes
  <2> QED
    BY <1>4, <2>2, <2>3, TypesKept, TypePartsNext DEF OpenToolApproval
<1>5. CASE SpawnOther(i)
  <2>1. PcTypes' /\ LoopTypes'
    BY <1>5 DEF SpawnOther, PcTypes, LoopTypes
  <2> QED
    BY <1>5, <2>1, TypesKept, TypePartsNext DEF SpawnOther
<1>6. CASE StartTool(i)
  <2>1. PcTypes'
    <3>1. PICK to \in Running : Moves(i, to)
      BY <1>6 DEF StartTool, AfterPath, Running
    <3> QED
      BY <3>1, MovesTyped
  <2>2. OwnTypes'
    BY <1>6 DEF StartTool, OwnTypes
  <2> QED
    BY <1>6, <2>1, <2>2, TypesKept, TypePartsNext DEF StartTool
<1>7. CASE PathDecided(i)
  <2>1. PcTypes'
    <3>1. PICK to \in Running \cup Ended : Moves(i, to)
      BY <1>7 DEF PathDecided, AfterPath, Running, Ended
    <3> QED
      BY <3>1, MovesTyped
  <2>2. allowed' \subseteq Paths
    BY <1>2, <1>7, CallFields DEF PathDecided
  <2> QED
    BY <1>7, <2>1, <2>2, TypesKept, TypePartsNext DEF PathDecided
<1>8. CASE PassGate(i)
  <2>1. PcTypes'
    BY <1>8, MovesTyped DEF PassGate, Running, Ended
  <2> QED
    BY <1>8, <2>1, TypesKept, TypePartsNext DEF PassGate
<1>9. CASE Executed(i)
  <2>1. PcTypes'
    BY <1>9, MovesTyped DEF Executed, Ended
  <2> QED
    BY <1>9, <2>1, TypesKept, TypePartsNext DEF Executed
<1>10. CASE RunAtOnce(i)
  <2>1. PcTypes'
    BY <1>10, MovesTyped DEF RunAtOnce, Ended
  <2> QED
    BY <1>10, <2>1, TypesKept, TypePartsNext DEF RunAtOnce
<1>11. CASE EnterPlan(i)
  <2>1. PcTypes'
    BY <1>11, MovesTyped DEF EnterPlan, Ended
  <2>2. ModeTypes'
    BY <1>11, ModeTypesKept DEF EnterPlan, Modes, ModeTypes
  <2> QED
    BY <1>11, <2>1, <2>2, TypesKept, TypePartsNext DEF EnterPlan
<1>12. CASE StartWaiting(i)
  <2>1. M \notin delivered
    BY <1>12 DEF StartWaiting, Starts, CallInv, Fresh, Untouched, IsTool, M
  <2>2. PcTypes'
    BY <1>12, MovesTyped DEF StartWaiting, Running
  <2>3. TableTypes'
    BY <1>2, <1>12, GateTypesKept DEF StartWaiting, M
  <2>4. SurfaceTypes'
    BY <1>2, <1>12, <2>1 DEF StartWaiting, SurfaceTypes, M
  <2>5. OwnTypes'
    BY <1>12 DEF StartWaiting, OwnTypes, ModeTypes
  <2> QED
    BY <1>12, <2>2, <2>3, <2>4, <2>5, TypesKept, TypePartsNext DEF StartWaiting
<1>13. CASE Answered(i)
  <2>1. PcTypes'
    BY <1>13, MovesTyped DEF Answered, Ended
  <2>2. ModeTypes'
    <3>1. snap[i] \in Modes \cup {"none"} /\ "Default" \in Modes
      BY DEF OwnTypes, Modes
    <3> QED
      BY <1>13, <3>1 DEF Answered, ModeTypes, Shaken
  <2> QED
    BY <1>13, <2>1, <2>2, TypesKept, TypePartsNext DEF Answered
<1>14. ASSUME NEW d, JudgePath(i, d) PROVE TypeOK'
  <2>1. PcTypes'
    BY <1>14, MovesTyped DEF JudgePath, Running
  <2>2. TableTypes'
    <3>1. UNCHANGED tableVars \/ \E v \in Verdicts : Settled(P, v)
      BY <1>14 DEF JudgePath, Verdicts, P
    <3> QED
      BY <1>2, <3>1, GateTypesKept, TypesKept
  <2>3. SurfaceTypes'
    BY <1>14 DEF JudgePath, Reveal, SurfaceTypes
  <2> QED
    BY <1>14, <2>1, <2>2, <2>3, TypesKept, TypePartsNext DEF JudgePath
<1>15. ASSUME NEW d, JudgeTool(i, d) PROVE TypeOK'
  <2>1. PcTypes'
    BY <1>15, MovesTyped DEF JudgeTool, Running
  <2>2. TableTypes'
    <3>1. UNCHANGED tableVars \/ \E v \in Verdicts : Settled(M, v)
      BY <1>15 DEF JudgeTool, Verdicts, M
    <3> QED
      BY <1>2, <3>1, GateTypesKept, TypesKept
  <2>3. SurfaceTypes'
    BY <1>15 DEF JudgeTool, Reveal, SurfaceTypes
  <2>4. RuleTypes'
    <3>1. Persisted(calls[i]) \subseteq Patterns
      BY <1>2, CallFields DEF Persisted, UnapprovedMemorable, Writable, Patterns
    <3>2. Remember("Session", Persisted(calls[i])) \/ UNCHANGED <<learned, rules>>
      BY <1>15 DEF JudgeTool
    <3>3. UNCHANGED <<calls, jammed>>
      BY <1>15 DEF JudgeTool
    <3>4. CASE UNCHANGED <<learned, rules>>
      BY <3>3, <3>4 DEF RuleTypes
    <3>5. CASE Remember("Session", Persisted(calls[i]))
      BY <3>1, <3>3, <3>5, RememberTypes DEF RuleTypes, Scopes
    <3> QED
      BY <3>2, <3>4, <3>5
  <2> QED
    BY <1>15, <2>1, <2>2, <2>3, <2>4, TypesKept, TypePartsNext DEF JudgeTool
<1>16. ASSUME NEW b, ToolDecided(i, b) PROVE TypeOK'
  <2>1. PcTypes'
    <3>1. PICK to \in Running \cup Ended : Moves(i, to)
      BY <1>16 DEF ToolDecided, Running, Ended
    <3> QED
      BY <3>1, MovesTyped
  <2> QED
    BY <1>16, <2>1, TypesKept, TypePartsNext DEF ToolDecided
<1> QED
  BY <1>3, <1>4, <1>5, <1>6, <1>7, <1>8, <1>9, <1>10, <1>11, <1>12, <1>13, <1>14, <1>15, <1>16
  DEF OwnStep

\* Every step of the loop, the driver and the person keeps the types.
LEMMA OtherTyped ==
  ASSUME TypeOK, OtherStep
  PROVE  TypeOK'
<1>1. /\ TableTypes /\ RuleTypes /\ RunTypes /\ ModeTypes /\ LoopTypes /\ PcTypes
      /\ OwnTypes /\ SurfaceTypes /\ StopTypes /\ allowed \subseteq Paths
  BY TypeParts
<1> USE <1>1
<1>2. UNCHANGED pc => PcTypes'
  BY DEF PcTypes
<1>3. CASE BreakOff
  <2>1. LoopTypes'
    BY <1>3 DEF BreakOff, LoopTypes
  <2> QED
    BY <1>2, <1>3, <2>1, GateTypesKept, TypesKept, TypePartsNext DEF BreakOff
<1>4. CASE StopDrains
  <2>1. StopTypes'
    BY <1>4 DEF StopDrains, StopTypes
  <2> QED
    BY <1>2, <1>4, <2>1, GateTypesKept, TypesKept, TypePartsNext DEF StopDrains
<1>5. ASSUME NEW r \in Requests, Deliver(r) PROVE TypeOK'
  <2>1. SurfaceTypes'
    BY <1>5 DEF Deliver, SurfaceTypes
  <2>2. TableTypes'
    BY <1>5, GateTypesKept, TypesKept DEF Deliver
  <2> QED
    BY <1>2, <1>5, <2>1, <2>2, TypesKept, TypePartsNext DEF Deliver
<1>6. ASSUME NEW r \in Requests, NEW v \in {"once", "deny"}, Reply(r, v) PROVE TypeOK'
  <2>1. TableTypes'
    BY <1>6, GateTypesKept DEF Reply, Verdicts
  <2> QED
    BY <1>2, <1>6, <2>1, TypesKept, TypePartsNext DEF Reply
<1>7. ASSUME NEW r \in Requests, NEW scope \in AnswerScopes, NEW pats \in Ticked(r[1]),
             ReplyRemember(r, scope, pats)
      PROVE  TypeOK'
  <2>1. r \in pending /\ UNCHANGED calls /\ ~jammed
    BY <1>7 DEF ReplyRemember, ResolveRemember
  <2>2. calls[r[1]] \in Call
    BY RequestOf DEF RuleTypes
  <2>3. pats \subseteq Patterns
    BY <1>7, <2>2, CallFields DEF Ticked, Writable, Patterns
  <2>4. scope \in Scopes \cup {"Once"}
    BY DispatchAssumption
  <2>5. RuleTypes'
    <3>1. CASE Remember(scope, pats) /\ jammed' = ScanTakesLock(r)
      <4>1. jammed' \in BOOLEAN
        BY <3>1 DEF ScanTakesLock
      <4> QED
        BY <2>1, <2>3, <2>4, <3>1, <4>1, RememberTypes
    <3>2. CASE UNCHANGED <<learned, rules, jammed>>
      BY <2>1, <3>2 DEF RuleTypes
    <3> QED
      BY <1>7, <3>1, <3>2 DEF ReplyRemember, ResolveRemember
  <2>6. TableTypes'
    <3>1. pending' \subseteq pending
      BY <1>7 DEF ReplyRemember, ResolveRemember
    <3>2. \/ verdict' = verdict \/ verdict' = [verdict EXCEPT ![r] = "remember"]
          \/ verdict' = [q \in Requests |->
               IF q = r THEN "remember"
               ELSE IF q \in ScanApproves(r) THEN "scan" ELSE verdict[q]]
      BY <1>7 DEF ReplyRemember, ResolveRemember
    <3>3. verdict' \in [Requests -> Verdicts]
      BY <3>2 DEF TableTypes, Verdicts
    <3> QED
      BY <3>1, <3>3 DEF TableTypes
  <2> QED
    BY <1>2, <1>7, <2>5, <2>6, TypesKept, TypePartsNext DEF ReplyRemember
<1>8. ASSUME NEW m \in SwitchTo, SwitchMode(m) PROVE TypeOK'
  <2>1. switches' \in 0 .. MaxSwitches
    BY <1>8, DispatchAssumption DEF SwitchMode, ModeTypes
  <2>2. ModeTypes'
    BY <1>8, <2>1, ModeTypesKept, DispatchAssumption DEF SwitchMode
  <2> QED
    BY <1>2, <1>8, <2>2, TypesKept, TypePartsNext DEF SwitchMode
<1>9. CASE Stop
  <2>1. StopTypes'
    BY <1>9 DEF Stop, StopTypes
  <2> QED
    BY <1>2, <1>9, <2>1, TypesKept, TypePartsNext DEF Stop
<1> QED
  BY <1>3, <1>4, <1>5, <1>6, <1>7, <1>8, <1>9 DEF OtherStep, DriverStep, PersonStep

\* The invariant holds in the initial states.
LEMMA InitInv == Init => Inv
<1> SUFFICES ASSUME Init PROVE Inv
  OBVIOUS
<1>1. PICK s \in Scripts : /\ calls = s.calls /\ turn = s.turn /\ mode = s.mode
                          /\ force = s.force /\ rules = s.rules
  BY DEF Init
<1>2. TypeOK
  <2>1. /\ calls \in [Index -> Call] /\ turn \in [Index -> Nat] /\ mode \in Modes /\ force \in BOOLEAN
        /\ rules \in [Scopes -> [allow : SUBSET Patterns, deny : SUBSET Patterns]]
    BY <1>1, DispatchAssumption
  <2>2. TableTypes /\ RuleTypes /\ RunTypes
    <3>1. [r \in Requests |-> "none"] \in [Requests -> Verdicts]
      BY DEF Verdicts
    <3>2. pending = {} /\ verdict = [r \in Requests |-> "none"] /\ learned = {} /\ jammed = FALSE
      BY DEF Init
    <3>3. TableTypes
      BY <3>1, <3>2 DEF TableTypes
    <3>4. RuleTypes
      BY <2>1, <3>2 DEF RuleTypes
    <3>5. RunTypes
      BY <2>1 DEF RunTypes
    <3> QED
      BY <3>3, <3>4, <3>5
  <2>3. ModeTypes /\ LoopTypes /\ StopTypes
    <3>1. /\ prePlan = "none" /\ switches = 0 /\ unsteady = {} /\ spawned = {} /\ broken = FALSE
          /\ cancel = FALSE /\ stopping = FALSE
      BY DEF Init
    <3>2. 0 \in 0 .. MaxSwitches
      BY DispatchAssumption
    <3>3. ModeTypes
      BY <2>1, <3>1, <3>2 DEF ModeTypes
    <3>4. LoopTypes /\ StopTypes
      BY <3>1 DEF LoopTypes, StopTypes
    <3> QED
      BY <3>3, <3>4
  <2>4. PcTypes /\ OwnTypes
    BY DEF Init, PcTypes, OwnTypes, Blank
  <2>5. SurfaceTypes /\ allowed \subseteq Paths
    BY DispatchAssumption DEF Init, SurfaceTypes
  <2> QED
    BY <2>2, <2>3, <2>4, <2>5, TypeParts
<1>3. ASSUME NEW i \in Index PROVE CallInv(i)
  <2>1. /\ pc[i] = "none" /\ ~judged[i]
        /\ \A r \in Requests : Untouched(r)
    BY DEF Init, Blank, Untouched
  <2>2. Untouched(PathReq(i)) /\ Untouched(MainReq(i)) /\ \A r \in Own(i) : Untouched(r)
    BY <2>1, RequestOf DEF Own
  <2> QED
    BY <2>1, <2>2
    DEF CallInv, Fresh, Table, Consent, Scanned, Closed, Dialogs, Unanswered, Judging, Untouched,
        Ended
<1> QED
  BY <1>2, <1>3 DEF Inv

\* Every step keeps the invariant.
LEMMA InvStep == Inv /\ [Next]_vars => Inv'
<1> SUFFICES ASSUME Inv, [Next]_vars PROVE Inv'
  OBVIOUS
<1>1. CASE Next
  <2>1. TypeOK'
    BY <1>1, OwnTyped, OtherTyped, NextCases DEF Inv
  <2>2. \A i \in Index : CallInv(i)'
    BY <1>1, CallStep DEF Inv
  <2> QED
    BY <2>1, <2>2 DEF Inv
<1>2. CASE UNCHANGED vars
  <2>1. TypeOK'
    <3>1. UNCHANGED <<tableVars, ruleVars, runVars, modeVars, allowed, loopVars, pc, ownVars,
                      surfaceVars, stopVars>>
      BY <1>2 DEF vars
    <3>2. PcTypes => PcTypes'
      BY <3>1 DEF PcTypes
    <3> QED
      BY <3>1, <3>2, TypesKept, TypeParts, TypePartsNext DEF Inv
  <2>2. Frame
    BY <1>2 DEF vars, Frame, RulesGrow, ruleVars, modeVars, stopVars
  <2>3. ASSUME NEW i \in Index PROVE CallInv(i)'
    BY <1>2, <2>2, StutterOutside, OutsideKeeps DEF Inv
  <2> QED
    BY <2>1, <2>3 DEF Inv
<1> QED
  BY <1>1, <1>2

\* The invariant holds throughout.
THEOREM DispatchInvariant == Spec => []Inv
<1> QED
  BY InitInv, InvStep, PTL DEF Spec

\* The variables of the gate, the loop, the futures and the surface keep their types,
\* in every behaviour of the model.
THEOREM TypeCorrect == Spec => []TypeOK
<1>1. Inv => TypeOK
  BY DEF Inv
<1> QED
  BY <1>1, DispatchInvariant, PTL

-----------------------------------------------------------------------------
\* A tool that has started to run had the consent it needs: spawn_tool asks before the
\* future exists, the future waits for both answers, and the scan after a remembered
\* rule settles no dangerous and no deleting command (RanWithConsent).
THEOREM NothingRunsUnasked == Spec => []RanWithConsent
<1>1. Inv => RanWithConsent
  <2> SUFFICES ASSUME Inv, NEW i \in Index, IsTool(i), pc[i] \in {"exec", "done"}
               PROVE  /\ calls[i].danger => verdict[MainReq(i)] \in OwnWord
                      /\ calls[i].segs \cap Unmemorable # {} =>
                           verdict[MainReq(i)] \in OwnWord \/ perm[i] = "yolo" \/ Bypass
                      /\ PathOpened(i) => verdict[PathReq(i)] \in Granted
                      /\ ~(calls[i].paths \subseteq allowed) => verdict[PathReq(i)] \in Granted
    BY DEF RanWithConsent
  <2>1. Consent(i) /\ Scanned(i)
    BY DEF Inv, CallInv
  <2>2. /\ perm[i] # "deny" /\ (Asks(i) => verdict[MainReq(i)] \notin {"none", "deny"})
        /\ PathOpened(i) => verdict[PathReq(i)] \in Granted
    BY <2>1 DEF Consent
  <2>3. verdict[MainReq(i)] \in Verdicts
    BY RequestOf DEF Inv, TypeOK, GateTypeOK
  <2>4. Asks(i) /\ verdict[MainReq(i)] # "scan" => verdict[MainReq(i)] \in OwnWord
    BY <2>2, <2>3 DEF Verdicts, OwnWord
  <2> QED
    BY <2>1, <2>2, <2>4 DEF Consent, Scanned, Asks
<1> QED
  BY <1>1, DispatchInvariant, PTL

\* No call waits for an answer nobody is asked for: a request somebody waits on is on
\* its way to the surface or shown there, and its dialog is not kept closed
\* (automode_will_handle, PermissionAutoJudged; AwaitedIsShown).
THEOREM DialogsAreShown == Spec => []AwaitedIsShown
<1>1. Inv => AwaitedIsShown
  <2> SUFFICES ASSUME Inv, NEW i \in Index, NEW r \in Requests,
                      r[1] = i, r \in pending, ~cancel, i \notin unsteady,
                      \/ r[2] = "path" /\ pc[i] = "waitPath"
                      \/ r[2] = "main" /\ pc[i] \in {"waitTool", "waitAnswer"}
               PROVE  (r \in inbox \/ r \in delivered) /\ r \notin auto
    BY DEF AwaitedIsShown
  <2>1. \/ r = PathReq(i) /\ pc[i] = "waitPath"
        \/ r = MainReq(i) /\ pc[i] \in {"waitTool", "waitAnswer"}
    BY DEF Requests, PathReq, MainReq
  <2>2. Table(i) /\ Fresh(i) /\ Dialogs(i)
    BY DEF Inv, CallInv
  <2>3. r \in inbox \/ r \in delivered
    <3>1. r \in Own(i)
      BY <2>1 DEF Own
    <3> QED
      BY <2>2, <3>1 DEF Table
  <2>4. CASE ~IsTool(i)
    <3>1. MainReq(i) \notin auto /\ pc[i] # "waitPath"
      BY <2>2, <2>4 DEF Fresh, Ended
    <3> QED
      BY <2>1, <2>3, <3>1
  <2>5. CASE IsTool(i)
    BY <2>1, <2>2, <2>3, <2>5 DEF Dialogs, Judging, Ended, Fresh
  <2> QED
    BY <2>3, <2>4, <2>5
<1> QED
  BY <1>1, DispatchInvariant, PTL

\* The gate keeps no request of a call that is over, except after a stop or a refused
\* path (OpenRequestHasOwner).
THEOREM RequestsHaveOwners == Spec => []OpenRequestHasOwner
<1>1. Inv => OpenRequestHasOwner
  <2> SUFFICES ASSUME Inv, NEW r \in pending, pc[r[1]] \in Ended, ~cancel
               PROVE  r[2] = "main" /\ verdict[PathReq(r[1])] = "deny"
    BY DEF OpenRequestHasOwner
  <2>1. r \in Requests
    BY DEF Inv, TypeOK, GateTypeOK
  <2>2. PICK i \in Index : r[1] = i /\ (r = PathReq(i) \/ (r = MainReq(i) /\ r[2] = "main"))
    BY <2>1 DEF Requests, PathReq, MainReq
  <2>3. Closed(i)
    BY DEF Inv, CallInv
  <2> QED
    BY <2>2, <2>3 DEF Closed
<1> QED
  BY <1>1, DispatchInvariant, PTL

\* A rule is learned only in the step that allows the call it comes from: what the
\* dialog offers to tick and what persist_judge_allowed_segments keeps are segments of
\* the call that is answered, never a deleting one, never one of a dangerous command
\* on a person's answer, and never one that leaves the machine on a judge's word
\* (LearnsWhatWasAllowed).
THEOREM RulesComeFromConsent == Spec => LearnsWhatWasAllowed
<1> DEFINE Asked(i) == /\ MainReq(i) \in pending \ pending' /\ ~calls[i].danger
                       /\ verdict'[MainReq(i)] = "remember" \/ jammed'
           JudgedNow(i, p) ==
              /\ pc[i] = "judgeTool" /\ pc'[i] = "gate" /\ p \notin Egress
              /\ \/ MainReq(i) \in pending /\ verdict'[MainReq(i)] = "judge"
                 \/ MainReq(i) \notin pending /\ (cancel \/ i \in unsteady)
           Source(i, p) == p \in Writable(calls[i]) \cup {calls[i].tool} /\ p \notin Unmemorable
           Allowed == \A p \in learned' \ learned : \E i \in Index :
              /\ p \in Writable(calls[i]) \cup {calls[i].tool}
              /\ p \notin Unmemorable
              /\ \/ /\ MainReq(i) \in pending \ pending' /\ ~calls[i].danger
                    /\ verdict'[MainReq(i)] = "remember" \/ jammed'
                 \/ /\ pc[i] = "judgeTool" /\ pc'[i] = "gate" /\ p \notin Egress
                    /\ \/ MainReq(i) \in pending /\ verdict'[MainReq(i)] = "judge"
                       \/ MainReq(i) \notin pending /\ (cancel \/ i \in unsteady)
<1>1. Inv /\ [Next]_vars => Allowed
  <2> SUFFICES ASSUME Inv, [Next]_vars, NEW p \in learned' \ learned
               PROVE  \E i \in Index : Source(i, p) /\ (Asked(i) \/ JudgedNow(i, p))
    OBVIOUS
  <2>1. learned' # learned
    OBVIOUS
  <2>2. ~UNCHANGED ruleVars
    BY <2>1 DEF ruleVars
  <2>3. ~UNCHANGED vars
    BY <2>1 DEF vars, ruleVars
  <2>4. \/ \E r \in Requests, scope \in AnswerScopes : \E pats \in Ticked(r[1]) : ReplyRemember(r, scope, pats)
        \/ \E i \in Index, d \in {"allow", "deny", "ask"} : JudgeTool(i, d)
    <3>1. CASE OtherStep
      <4>1. ~BreakOff /\ ~DriverStep /\ ~Stop /\ (\A m : ~SwitchMode(m)) /\ \A r, v : ~Reply(r, v)
        BY <2>2 DEF BreakOff, DriverStep, StopDrains, Deliver, Stop, SwitchMode, Reply
      <4> QED
        BY <3>1, <4>1 DEF OtherStep, PersonStep
    <3>2. ASSUME NEW i \in Index, OwnStep(i) PROVE \E d \in {"allow", "deny", "ask"} : JudgeTool(i, d)
      <4>1. /\ ~SpawnTool(i) /\ ~OpenToolApproval(i) /\ ~SpawnOther(i) /\ ~StartTool(i)
            /\ ~PathDecided(i) /\ ~PassGate(i) /\ ~Executed(i) /\ ~RunAtOnce(i) /\ ~EnterPlan(i)
            /\ ~StartWaiting(i) /\ ~Answered(i)
        BY <2>2 DEF SpawnTool, OpenToolApproval, SpawnOther, StartTool, PathDecided, PassGate,
           Executed, RunAtOnce, EnterPlan, StartWaiting, Answered
      <4>2. (\A d : ~JudgePath(i, d)) /\ \A b : ~ToolDecided(i, b)
        BY <2>2 DEF JudgePath, ToolDecided
      <4> QED
        BY <3>2, <4>1, <4>2 DEF OwnStep
    <3> QED
      BY <2>3, <3>1, <3>2, NextCases
  <2>5. ASSUME NEW r \in Requests, NEW scope, NEW pats \in Ticked(r[1]), ReplyRemember(r, scope, pats)
        PROVE  \E i \in Index : Source(i, p) /\ Asked(i)
    <3>1. IsToolRequest(r) /\ ~RefuseRemember(r) /\ Remember(scope, pats) /\ r \in pending
      BY <2>1, <2>5 DEF ReplyRemember, ResolveRemember
    <3>2. PICK i \in Index : r[1] = i /\ r = MainReq(i)
      BY <3>1 DEF IsToolRequest, Requests, MainReq
    <3>3. p \in pats
      BY <3>1 DEF Remember
    <3>4. calls[i] \in Call /\ calls[i].tool \in Tools /\ calls[i].segs \subseteq Segments
      <4>1. calls[i] \in Call
        BY DEF Inv, TypeOK, GateTypeOK
      <4> QED
        BY <4>1, CallFields
    <3>5. p \in Writable(calls[i]) \cup {calls[i].tool} /\ p \notin Unmemorable
      BY <2>5, <3>2, <3>3, <3>4, SegmentsAssumption DEF Ticked
    <3>6. r \notin pending' /\ (jammed' \/ verdict'[r] = "remember")
      <4>1. CASE ScanTakesLock(r)
        BY <2>5, <3>1, <4>1 DEF ReplyRemember, ResolveRemember
      <4>2. CASE ~ScanTakesLock(r)
        BY <2>5, <3>1, <4>2 DEF ReplyRemember, ResolveRemember
      <4> QED
        BY <4>1, <4>2
    <3>7. ~calls[i].danger
      BY <3>1, <3>2 DEF RefuseRemember
    <3> QED
      BY <3>1, <3>2, <3>5, <3>6, <3>7
  <2>6. ASSUME NEW i \in Index, NEW d, JudgeTool(i, d)
        PROVE  Source(i, p) /\ JudgedNow(i, p)
    <3>1. Remember("Session", Persisted(calls[i])) /\ Settled(MainReq(i), "judge")
      BY <2>1, <2>6 DEF JudgeTool
    <3>2. p \in Persisted(calls[i])
      BY <3>1 DEF Remember
    <3>3. p \in UnapprovedMemorable(calls[i]) /\ p \notin Egress
      BY <3>2 DEF Persisted
    <3>4. p \in Writable(calls[i]) /\ p \notin Unmemorable
      BY <3>3 DEF UnapprovedMemorable
    <3>5. verdict[MainReq(i)] # "scan"
      BY <3>3 DEF Inv, CallInv, Scanned
    <3>6. pc[i] = "judgeTool" /\ pc'[i] = "gate" /\ ~jammed
      <4>1. pc \in [Index -> Running \cup Ended \cup {"none", "checked", "queued"}]
        BY DEF Inv, TypeOK
      <4>2. pc[i] = "judgeTool" /\ pc' = [pc EXCEPT ![i] = "gate"] /\ ~jammed
        BY <2>6 DEF JudgeTool, Moves
      <4> QED
        BY <4>1, <4>2
    <3>7. Fresh(i) /\ Dialogs(i) /\ Unanswered(i)
      BY DEF Inv, CallInv
    <3>8. IsTool(i) /\ Asks(i) /\ (i \notin unsteady => judged[i])
      BY <3>6, <3>7 DEF Fresh, Dialogs, Ended
    <3>9. MainReq(i) \in pending \/ cancel \/ i \in unsteady
      BY <3>5, <3>6, <3>7, <3>8 DEF Unanswered, Judging
    <3>10. MainReq(i) \in pending => verdict'[MainReq(i)] = "judge"
      BY <3>1, RequestOf DEF Settled, Inv, TypeOK, GateTypeOK
    <3> QED
      BY <3>3, <3>4, <3>6, <3>9, <3>10
  <2> QED
    BY <2>4, <2>5, <2>6
<1>2. Allowed \/ UNCHANGED vars => [Allowed]_vars
  OBVIOUS
<1> QED
  BY <1>1, <1>2, DispatchInvariant, PTL DEF Spec, LearnsWhatWasAllowed, Inv

=============================================================================
