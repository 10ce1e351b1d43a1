---------------------------- MODULE ToolCallsProofs ----------------------------
(***************************************************************************)
(* For any set of calls, turns and settings: what the policy promises,      *)
(* types, what the CLI is told, the trace every effect leaves, and the      *)
(* refinement of ToolGate.                                                  *)
(***************************************************************************)
EXTENDS ToolCalls, TLAPS

-----------------------------------------------------------------------------
(* The policy, for every setting an administrator can make. *)

USE DEF AllTools, ReadonlyToolSet

(* The effective tools are tools the code knows.                             *)
LEMMA EffectiveAreKnown == \A p : EffectiveTools(p) \subseteq AllTools
BY DEF EffectiveTools

(* An effective tool that is no read tool was granted, and its catalogue     *)
(* record is not archived.                                                   *)
LEMMA BeyondReadIsGranted ==
  \A p : \A tool \in EffectiveTools(p) \ ReadTools : tool \in p.grant \cap p.catalogue
BY DEF EffectiveTools, AllowedToolNames

(* Under zero trust no effective tool is a write tool.                       *)
LEMMA ZeroTrustStripsWrites ==
  \A p : ZeroTrust(p) => EffectiveTools(p) \cap WriteTools = {}
BY ToolAssumption DEF EffectiveTools

(* A write tool runs only with an explicit grant, outside zero trust and on  *)
(* a model that is not excluded, whatever else is set.                       *)
THEOREM WritesOnlyByGrant == \A p \in PolicySpace : WritesAreOptIn(p)
<1> SUFFICES ASSUME NEW p \in PolicySpace, NEW tool \in WriteTools, NEW model \in Models,
                    Permitted(p, tool, model)
             PROVE  /\ tool \in p.grant \cap p.catalogue
                    /\ ~ZeroTrust(p)
                    /\ model \notin p.excluded
  BY DEF WritesAreOptIn
<1>1. tool \in EffectiveTools(p) \ ReadTools
  BY ToolAssumption DEF Permitted
<1>2. tool # SqlTool
  BY ToolAssumption
<1> QED
  BY <1>1, <1>2, BeyondReadIsGranted, ZeroTrustStripsWrites DEF Permitted, ModelIsOpen

(* The web tools are never part of the fall-back of an empty selection.      *)
THEOREM WebOnlyByGrant == \A p \in PolicySpace : WebIsOptIn(p)
BY ToolAssumption, BeyondReadIsGranted DEF WebIsOptIn

(* The bridge advertises tools the user has, or, when the user has no tool   *)
(* the bridge serves, its own read tools: never a write tool of nobody's.    *)
THEOREM AdvertisedIsHeldOrDefault ==
  \A p \in PolicySpace :
    /\ AdvertisedBeyond(p)
    /\ VisibleTools(EffectiveTools(p)) \cap WriteTools \subseteq p.grant \cap p.catalogue
<1> SUFFICES ASSUME NEW p \in PolicySpace
             PROVE  /\ AdvertisedBeyond(p)
                    /\ VisibleTools(EffectiveTools(p)) \cap WriteTools
                         \subseteq p.grant \cap p.catalogue
  OBVIOUS
<1>1. CASE EffectiveTools(p) \subseteq WebTools
  BY <1>1, ToolAssumption DEF AdvertisedBeyond, VisibleTools
<1>2. CASE ~(EffectiveTools(p) \subseteq WebTools)
  <2>1. VisibleTools(EffectiveTools(p)) \subseteq EffectiveTools(p)
    BY <1>2 DEF VisibleTools
  <2> QED
    BY <2>1, ToolAssumption, BeyondReadIsGranted DEF AdvertisedBeyond
<1> QED
  BY <1>1, <1>2

HIDE DEF AllTools, ReadonlyToolSet

-----------------------------------------------------------------------------
(* The calls *)

USE DEF Outcomes, InRequest, AtRest, NotMinted

AfterTool == {"ran", "blocked", "logged"}

(* What a request would write: nothing before its tool has run, nothing      *)
(* that the policy it reads does not permit, and all of it on a success.     *)
RequestInv(c) ==
  /\ pc[c] \notin AfterTool => effect[c] = "none"
  /\ pc[c] \in AfterTool =>
       /\ outcome[c] \in Outcomes
       /\ effect[c] # "none" => Allowed(c)
       /\ outcome[c] = "success" => effect[c] = IF Writes(c) THEN "whole" ELSE "none"
  /\ pc[c] = "logged" => toolLog[c] # <<>> \/ c \in serverLog
  /\ pc[c] # "over" => performed[c] = "none"

(* How a call stands to its bridge: while the bridge waits for it, it is in  *)
(* its request and unanswered; no bridge, no call.                          *)
BridgeInv(c) ==
  /\ bridge[TurnOf[c]] = c => pc[c] \in {"sent"} \cup InRequest /\ answer[c] = "none"
  /\ pc[c] = "unsent" => answer[c] = "none"
  /\ bridge[TurnOf[c]] = "none" => pc[c] = "unsent"
  /\ exp[TurnOf[c]] = NotMinted => bridge[TurnOf[c]] = "none"

(* The three properties, of one call. *)
PromiseInv(c) ==
  /\ answer[c] = "ok" =>
       /\ performed[c] = IF Writes(c) THEN "whole" ELSE "none"
       /\ pc[c] = "over"
  /\ performed[c] # "none" => toolLog[c] # <<>> \/ c \in serverLog
  /\ pc[c] \in InRequest \cup {"sent"} /\ bridge[TurnOf[c]] \notin {c, "gone"}
       => answer[c] = "error"

CallInv(c) == RequestInv(c) /\ BridgeInv(c) /\ PromiseInv(c)
CallsInv == \A c \in Calls : CallInv(c)

-----------------------------------------------------------------------------
(* Types *)

LEMMA InitTypes == Init => TypeOK
BY PolicyAssumption DEF Init, TypeOK

LEMMA OverTypes ==
  ASSUME TypeOK, NEW c \in Calls, NEW label \in AtRest, Over(c, label, "error")
  PROVE  TypeOK'
BY CallAssumption DEF TypeOK, Over, Respond, gate, records

(* However the tool ends, it is a step Ran. *)
LEMMA ToolEnds ==
  ASSUME NEW c \in Calls, Deny(c) \/ Succeed(c) \/ Fail(c)
  PROVE  /\ pc[c] = "open"
         /\ \E result \in Outcomes, written \in {"none", "part", "whole"} :
              /\ Ran(c, result, written)
              /\ written # "none" => Allowed(c) /\ Writes(c)
              /\ result = "success" => written = IF Writes(c) THEN "whole" ELSE "none"
<1>1. CASE Deny(c)
  BY <1>1 DEF Deny
<1>2. CASE Succeed(c)
  BY <1>2 DEF Succeed
<1>3. CASE Fail(c)
  BY <1>3 DEF Fail, Kept
<1> QED BY <1>1, <1>2, <1>3

LEMMA RanTypes ==
  ASSUME TypeOK, NEW c \in Calls, NEW result \in Outcomes,
         NEW written \in {"none", "part", "whole"}, Ran(c, result, written)
  PROVE  TypeOK'
BY DEF TypeOK, Ran, gate, records

LEMMA StepTypes == TypeOK /\ [Next]_vars => TypeOK'
<1> SUFFICES ASSUME TypeOK, [Next]_vars PROVE TypeOK'
  OBVIOUS
<1>1. CASE Tick
  BY <1>1 DEF TypeOK, Tick, request, records
<1>2. ASSUME NEW p \in Policies, ChangePolicy(p) PROVE TypeOK'
  BY <1>2 DEF TypeOK, ChangePolicy, request, records
<1>3. ASSUME NEW t \in Turns, StartTurn(t) PROVE TypeOK'
  <2>1. EffectiveTools(policy) \in SUBSET AllTools
    BY EffectiveAreKnown
  <2>2. now + Ttl \in Nat
    BY BoundAssumption DEF TypeOK
  <2> QED
    BY <1>3, <2>1, <2>2 DEF TypeOK, StartTurn, request, records
<1>4. ASSUME NEW t \in Turns, EndTurn(t) PROVE TypeOK'
  BY <1>4 DEF TypeOK, EndTurn, gate, request, records
<1>5. ASSUME NEW c \in Calls, CallStep(c) PROVE TypeOK'
  <2>1. CASE Forward(c) \/ RefuseUnknown(c) \/ GiveUpWaiting(c)
    <3>1. CASE Forward(c)
      BY <3>1 DEF TypeOK, Forward, gate, records
    <3>2. CASE RefuseUnknown(c)
      BY <3>2 DEF TypeOK, RefuseUnknown, gate, records
    <3>3. CASE GiveUpWaiting(c)
      BY <3>3, CallAssumption DEF TypeOK, GiveUpWaiting, Respond, gate, request, records
    <3> QED BY <2>1, <3>1, <3>2, <3>3
  <2>2. CASE Authenticate(c)
    BY <2>2 DEF TypeOK, Authenticate, gate, records
  <2>3. CASE RefuseToken(c) \/ FlushFails(c) \/ ServerDies(c)
    BY <2>3, OverTypes DEF RefuseToken, FlushFails, ServerDies, FlushReply
  <2>4. CASE Deny(c) \/ Succeed(c) \/ Fail(c)
    BY <2>4, RanTypes, ToolEnds
  <2>5. CASE Record(c)
    BY <2>5 DEF TypeOK, Record, Audited, gate
  <2>6. CASE RecordFails(c) \/ RecordBlocks(c)
    BY <2>6 DEF TypeOK, RecordFails, RecordBlocks, gate, records
  <2>7. CASE Commit(c)
    BY <2>7, CallAssumption DEF TypeOK, Commit, Respond, Reply, gate
  <2>8. CASE Rerun(c)
    BY <2>8 DEF TypeOK, Rerun, gate, records
  <2> QED
    BY <1>5, <2>1, <2>2, <2>3, <2>4, <2>5, <2>6, <2>7, <2>8 DEF CallStep
<1>6. CASE UNCHANGED vars
  BY <1>6 DEF TypeOK, vars, gate, request, records
<1> QED
  BY <1>1, <1>2, <1>3, <1>4, <1>5, <1>6 DEF Next

(* Every variable keeps its type.                                            *)
THEOREM CallTypes == Spec => []TypeOK
BY InitTypes, StepTypes, PTL DEF Spec

-----------------------------------------------------------------------------
(* The invariant *)

LEMMA InitCalls == Init => CallsInv
BY StatusAssumption, CallAssumption
   DEF Init, CallsInv, CallInv, RequestInv, BridgeInv, PromiseInv, AfterTool

(* A step of another call: nothing of d changes, and if its bridge does, it  *)
(* was not waiting for d and does not wait for d now.                       *)
Untouched(c, d) ==
  /\ UNCHANGED <<pc[d], snap[d], outcome[d], effect[d], performed[d], toolLog[d], answer[d],
                 (d \in serverLog), exp>>
  /\ \/ UNCHANGED bridge[TurnOf[d]]
     \/ bridge[TurnOf[d]] \in {c, "idle"} /\ bridge'[TurnOf[d]] \in {c, "idle"}

LEMMA OthersUntouched ==
  ASSUME TypeOK, NEW c \in Calls, NEW d \in Calls \ {c}, CallStep(c)
  PROVE  Untouched(c, d)
<1> USE CallAssumption DEF Untouched
<1>1. CASE Forward(c) \/ RefuseUnknown(c)
  BY <1>1 DEF TypeOK, Forward, RefuseUnknown, BridgeFree, gate, records
<1>2. CASE GiveUpWaiting(c)
  BY <1>2 DEF TypeOK, GiveUpWaiting, Respond, gate, request, records
<1>3. CASE Authenticate(c)
  BY <1>3 DEF TypeOK, Authenticate, gate, records
<1>4. CASE \E label \in AtRest : Over(c, label, "error")
  BY <1>4 DEF TypeOK, Over, Respond, gate, records
<1>5. CASE Deny(c) \/ Succeed(c) \/ Fail(c)
  BY <1>5, ToolEnds DEF TypeOK, Ran, gate, records
<1>6. CASE Record(c)
  BY <1>6 DEF TypeOK, Record, gate
<1>7. CASE RecordFails(c) \/ RecordBlocks(c)
  BY <1>7 DEF TypeOK, RecordFails, RecordBlocks, gate, records
<1>8. CASE Commit(c)
  BY <1>8 DEF TypeOK, Commit, Respond, gate
<1>9. CASE Rerun(c)
  BY <1>9 DEF TypeOK, Rerun, gate, records
<1> QED
  BY <1>1, <1>2, <1>3, <1>4, <1>5, <1>6, <1>7, <1>8, <1>9
     DEF CallStep, RefuseToken, FlushFails, ServerDies, FlushReply

LEMMA OthersKeep ==
  ASSUME TypeOK, NEW c \in Calls, NEW d \in Calls \ {c}, CallInv(d), CallStep(c)
  PROVE  CallInv(d)'
<1>1. Untouched(c, d)
  BY OthersUntouched
<1> QED
  BY <1>1, StatusAssumption
     DEF Untouched, CallInv, RequestInv, BridgeInv, PromiseInv, Allowed, Writes

(* The step of the call itself. *)
LEMMA OwnStep ==
  ASSUME TypeOK, NEW c \in Calls, CallInv(c), CallStep(c)
  PROVE  CallInv(c)'
<1> USE CallAssumption, StatusAssumption
    DEF CallInv, RequestInv, BridgeInv, PromiseInv, AfterTool, Allowed, Writes
<1>1. CASE Forward(c) \/ RefuseUnknown(c)
  BY <1>1 DEF TypeOK, Forward, RefuseUnknown, BridgeFree, gate, records
<1>2. CASE GiveUpWaiting(c)
  BY <1>2 DEF TypeOK, GiveUpWaiting, Respond, gate, request, records
<1>3. CASE Authenticate(c)
  BY <1>3 DEF TypeOK, Authenticate, gate, records
<1>4. CASE RefuseToken(c) \/ FlushFails(c) \/ ServerDies(c)
  <2>1. PICK label \in AtRest : pc[c] \in InRequest \cup {"sent"} /\ Over(c, label, "error")
    BY <1>4 DEF RefuseToken, FlushFails, ServerDies, FlushReply
  <2> QED BY <2>1 DEF TypeOK, Over, Respond, gate, records
<1>5. CASE Deny(c) \/ Succeed(c) \/ Fail(c)
  BY <1>5, ToolEnds DEF TypeOK, Ran, gate, records
<1>6. CASE Record(c)
  <2>1. toolLog'[c] # <<>>
    <3>1. outcome[c] \in Outcomes
      BY <1>6 DEF Record
    <3>2. toolLog'[c] = Append(toolLog[c], outcome[c]) /\ toolLog[c] \in Seq(Outcomes)
      BY <1>6, <3>1 DEF TypeOK, Record, Audited
    <3> QED BY <3>1, <3>2
  <2> QED BY <1>6, <2>1 DEF TypeOK, Record, gate
<1>7. CASE RecordFails(c) \/ RecordBlocks(c)
  BY <1>7 DEF TypeOK, RecordFails, RecordBlocks, gate, records
<1>8. CASE Commit(c)
  BY <1>8 DEF TypeOK, Commit, Respond, Reply, gate
<1>9. CASE Rerun(c)
  BY <1>9 DEF TypeOK, Rerun, gate, records
<1> QED
  BY <1>1, <1>2, <1>3, <1>4, <1>5, <1>6, <1>7, <1>8, <1>9 DEF CallStep

(* Outside the calls, only the start and the end of a turn touch a bridge. *)
LEMMA CallsStep == TypeOK /\ CallsInv /\ [Next]_vars => CallsInv'
<1> SUFFICES ASSUME TypeOK, CallsInv, [Next]_vars, NEW d \in Calls PROVE CallInv(d)'
  BY DEF CallsInv
<1> CallInv(d)
  BY DEF CallsInv
<1>1. ASSUME NEW c \in Calls, CallStep(c) PROVE CallInv(d)'
  <2>1. CASE d = c
    BY <1>1, <2>1, OwnStep
  <2>2. CASE d # c
    BY <1>1, <2>2, OthersKeep
  <2> QED BY <2>1, <2>2
<1> USE DEF CallInv, RequestInv, BridgeInv, PromiseInv, AfterTool, Allowed, Writes
<1>2. CASE Tick \/ (\E p \in Policies : ChangePolicy(p)) \/ UNCHANGED vars
  BY <1>2 DEF Tick, ChangePolicy, vars, gate, request, records
<1>3. ASSUME NEW t \in Turns, StartTurn(t) PROVE CallInv(d)'
  <2>1. exp'[t] # NotMinted
    BY <1>3, BoundAssumption DEF TypeOK, StartTurn
  <2>2. UNCHANGED <<bridge[TurnOf[d]], exp[TurnOf[d]]>>
        \/ (/\ bridge[TurnOf[d]] = "none" /\ bridge'[TurnOf[d]] = "idle"
            /\ exp'[TurnOf[d]] # NotMinted)
    BY <1>3, <2>1, CallAssumption DEF TypeOK, StartTurn
  <2> QED BY <1>3, <2>2, StatusAssumption DEF StartTurn, request, records
<1>4. ASSUME NEW t \in Turns, EndTurn(t) PROVE CallInv(d)'
  <2>1. \/ UNCHANGED bridge[TurnOf[d]]
        \/ bridge[TurnOf[d]] # "none" /\ bridge'[TurnOf[d]] = "gone"
    BY <1>4, CallAssumption DEF TypeOK, EndTurn
  <2> QED BY <1>4, <2>1, StatusAssumption DEF EndTurn, gate, request, records
<1> QED
  BY <1>1, <1>2, <1>3, <1>4 DEF Next

LEMMA CallsHold == Spec => []CallsInv
BY InitCalls, CallTypes, CallsStep, PTL DEF Spec

(* When the CLI is told of a success, what the tool wrote is committed.      *)
THEOREM SuccessHolds == Spec => []SuccessIsDurable
<1>1. CallsInv => SuccessIsDurable
  BY DEF CallsInv, CallInv, PromiseInv, SuccessIsDurable
<1> QED BY <1>1, CallsHold, PTL

(* What a call has written, the audit log or the server's log tells of.      *)
THEOREM TraceHolds == Spec => []EffectIsTraceable
<1>1. CallsInv => EffectIsTraceable
  BY DEF CallsInv, CallInv, PromiseInv, EffectIsTraceable
<1> QED BY <1>1, CallsHold, PTL

(* A request that goes on unwatched was reported to the CLI as failed.       *)
THEOREM ReportHolds == Spec => []AbandonedCallReported
<1>1. CallsInv => AbandonedCallReported
  BY DEF CallsInv, CallInv, PromiseInv, AbandonedCallReported
<1> QED BY <1>1, CallsHold, PTL

-----------------------------------------------------------------------------
(* Two grants behind every write *)

(* A turn that has started was given the effective tools of a setting, and   *)
(* a call on its way was shown among them; what a request would write, or    *)
(* has written, is a write tool's and permitted by the setting it read.      *)
LaunchInv ==
  \A t \in Turns : exp[t] # NotMinted => \E p \in Policies : launched[t] = EffectiveTools(p)
ShownInv(c) ==
  pc[c] \in {"sent"} \cup InRequest \/ performed[c] # "none" =>
    /\ exp[TurnOf[c]] # NotMinted
    /\ ToolOf[c] \in VisibleTools(launched[TurnOf[c]])
WriteInv(c) == effect[c] # "none" \/ performed[c] # "none" => Allowed(c) /\ Writes(c)
GrantInv == LaunchInv /\ \A c \in Calls : ShownInv(c) /\ WriteInv(c)

(* What a call has written was granted twice: by the setting its turn was    *)
(* launched under, and by the one its request read, each with the tool       *)
(* selected, its catalogue record not archived and no zero trust, the second *)
(* with the model not excluded.  The tools the bridge falls back to when it  *)
(* is given none do not help (VisibleTools, _check_tool, _check_model).      *)
GrantedTo(tool, p) == tool \in p.grant \cap p.catalogue /\ ~ZeroTrust(p)
EffectsAreGrantedTwice ==
  \A c \in Calls :
    performed[c] # "none" =>
      /\ \E p \in Policies : /\ launched[TurnOf[c]] = EffectiveTools(p)
                             /\ GrantedTo(ToolOf[c], p)
      /\ GrantedTo(ToolOf[c], snap[c])
      /\ ModelOf[c] \notin snap[c].excluded

(* A write tool the bridge shows was granted by the setting of the launch. *)
LEMMA ShownWritesAreGranted ==
  ASSUME NEW p \in PolicySpace, NEW tool \in WriteTools, tool \in VisibleTools(EffectiveTools(p))
  PROVE  GrantedTo(tool, p)
<1>1. tool \in EffectiveTools(p)
  BY ToolAssumption DEF VisibleTools
<1> QED
  BY <1>1, ToolAssumption, BeyondReadIsGranted, ZeroTrustStripsWrites DEF GrantedTo

(* One call keeps its part: a step that puts it on its way shows its tool    *)
(* first, one that lets it write is the tool's own end.                      *)
LEMMA OwnGrant ==
  ASSUME TypeOK, CallsInv, NEW c \in Calls, ShownInv(c), WriteInv(c), CallStep(c)
  PROVE  ShownInv(c)' /\ WriteInv(c)'
<1>0. UNCHANGED <<exp, launched>>
  BY ToolEnds
     DEF CallStep, Forward, RefuseUnknown, GiveUpWaiting, Authenticate, RefuseToken, Over, Ran,
         Record, RecordFails, RecordBlocks, Commit, Rerun, FlushFails, ServerDies, gate
<1> USE CallAssumption, StatusAssumption, <1>0
    DEF ShownInv, WriteInv, Allowed, Writes, AfterTool
<1>1. CASE Forward(c) \/ RefuseUnknown(c)
  <2>1. bridge[TurnOf[c]] # "none" /\ effect[c] = "none" /\ performed[c] = "none"
    BY <1>1, StatusAssumption
       DEF Forward, RefuseUnknown, BridgeFree, CallsInv, CallInv, RequestInv
  <2>2. exp[TurnOf[c]] # NotMinted
    BY <2>1 DEF CallsInv, CallInv, BridgeInv
  <2> QED BY <1>1, <2>1, <2>2 DEF TypeOK, Forward, RefuseUnknown, gate, records
<1>2. CASE GiveUpWaiting(c)
  BY <1>2 DEF GiveUpWaiting, request, records
<1>3. CASE Authenticate(c)
  <2>1. effect[c] = "none" /\ performed[c] = "none"
    BY <1>3 DEF Authenticate, CallsInv, CallInv, RequestInv
  <2> QED BY <1>3, <2>1 DEF TypeOK, Authenticate, records
<1>4. CASE RefuseToken(c) \/ FlushFails(c) \/ ServerDies(c)
  BY <1>4 DEF TypeOK, RefuseToken, FlushFails, ServerDies, FlushReply, Over, records
<1>5. CASE Deny(c) \/ Succeed(c) \/ Fail(c)
  BY <1>5, ToolEnds DEF TypeOK, Ran, records
<1>6. CASE Record(c) \/ RecordFails(c) \/ RecordBlocks(c)
  BY <1>6 DEF TypeOK, Record, RecordFails, RecordBlocks, records
<1>7. CASE Commit(c)
  BY <1>7 DEF TypeOK, Commit
<1>8. CASE Rerun(c)
  BY <1>8 DEF TypeOK, Rerun, records
<1> QED
  BY <1>1, <1>2, <1>3, <1>4, <1>5, <1>6, <1>7, <1>8 DEF CallStep

LEMMA OthersGrant ==
  ASSUME TypeOK, NEW c \in Calls, NEW d \in Calls \ {c}, CallStep(c), ShownInv(d), WriteInv(d)
  PROVE  ShownInv(d)' /\ WriteInv(d)'
<1>1. Untouched(c, d)
  BY OthersUntouched
<1>2. UNCHANGED launched
  BY ToolEnds
     DEF CallStep, Forward, RefuseUnknown, GiveUpWaiting, Authenticate, RefuseToken, Over, Ran,
         Record, RecordFails, RecordBlocks, Commit, Rerun, FlushFails, ServerDies, gate
<1> QED
  BY <1>1, <1>2 DEF Untouched, ShownInv, WriteInv, Allowed, Writes

LEMMA InitGrants == Init => GrantInv
BY DEF Init, GrantInv, LaunchInv, ShownInv, WriteInv

(* Only the start of a turn gives it tools, and it starts once. *)
LEMMA GrantsStep == TypeOK /\ CallsInv /\ GrantInv /\ [Next]_vars => GrantInv'
<1> SUFFICES ASSUME TypeOK, CallsInv, GrantInv, [Next]_vars PROVE GrantInv'
  OBVIOUS
<1>1. ASSUME NEW c \in Calls, CallStep(c) PROVE GrantInv'
  <2>1. UNCHANGED <<exp, launched>>
    BY <1>1, ToolEnds
       DEF CallStep, Forward, RefuseUnknown, GiveUpWaiting, Authenticate, RefuseToken, Over, Ran,
           Record, RecordFails, RecordBlocks, Commit, Rerun, FlushFails, ServerDies, gate
  <2>2. ASSUME NEW d \in Calls PROVE ShownInv(d)' /\ WriteInv(d)'
    <3>1. CASE d = c
      BY <1>1, <3>1, OwnGrant DEF GrantInv
    <3>2. CASE d # c
      BY <1>1, <3>2, OthersGrant DEF GrantInv
    <3> QED BY <3>1, <3>2
  <2> QED BY <2>1, <2>2 DEF GrantInv, LaunchInv
<1>2. ASSUME NEW t \in Turns, StartTurn(t) PROVE GrantInv'
  <2>1. LaunchInv'
    BY <1>2, BoundAssumption DEF TypeOK, StartTurn, GrantInv, LaunchInv
  <2>2. ASSUME NEW d \in Calls PROVE ShownInv(d)' /\ WriteInv(d)'
    <3>1. UNCHANGED <<pc, snap, effect, performed>>
      BY <1>2 DEF StartTurn, request, records
    <3>2. ShownInv(d) /\ WriteInv(d) /\ exp[t] = NotMinted
      BY <1>2 DEF GrantInv, StartTurn
    <3>3. exp[TurnOf[d]] # NotMinted => UNCHANGED <<exp[TurnOf[d]], launched[TurnOf[d]]>>
      BY <1>2, <3>2, CallAssumption DEF TypeOK, StartTurn
    <3> QED BY <3>1, <3>2, <3>3 DEF ShownInv, WriteInv, Allowed, Writes
  <2> QED BY <2>1, <2>2 DEF GrantInv
<1>3. CASE \/ Tick \/ (\E p \in Policies : ChangePolicy(p))
           \/ (\E t \in Turns : EndTurn(t)) \/ UNCHANGED vars
  BY <1>3 DEF Tick, ChangePolicy, EndTurn, vars, gate, request, records,
              GrantInv, LaunchInv, ShownInv, WriteInv, Allowed, Writes
<1> QED BY <1>1, <1>2, <1>3 DEF Next

(* What a call has written was granted when its turn was launched and again  *)
(* when its request was authenticated, whatever changed in between.          *)
THEOREM WritesAreGrantedTwice == Spec => []EffectsAreGrantedTwice
<1>1. TypeOK /\ GrantInv => EffectsAreGrantedTwice
  <2> SUFFICES ASSUME TypeOK, GrantInv, NEW c \in Calls, performed[c] # "none"
               PROVE  /\ \E p \in Policies : /\ launched[TurnOf[c]] = EffectiveTools(p)
                                             /\ GrantedTo(ToolOf[c], p)
                      /\ GrantedTo(ToolOf[c], snap[c])
                      /\ ModelOf[c] \notin snap[c].excluded
    BY DEF EffectsAreGrantedTwice
  <2>1. ToolOf[c] \in WriteTools /\ Allowed(c) /\ exp[TurnOf[c]] # NotMinted
        /\ ToolOf[c] \in VisibleTools(launched[TurnOf[c]])
    BY DEF GrantInv, ShownInv, WriteInv, Writes
  <2>2. PICK p \in Policies : launched[TurnOf[c]] = EffectiveTools(p)
    BY <2>1, CallAssumption DEF GrantInv, LaunchInv
  <2>3. GrantedTo(ToolOf[c], p)
    BY <2>1, <2>2, PolicyAssumption, ShownWritesAreGranted
  <2>4. snap[c] \in PolicySpace /\ ModelOf[c] \in Models
    BY PolicyAssumption, CallAssumption DEF TypeOK
  <2>5. GrantedTo(ToolOf[c], snap[c]) /\ ModelOf[c] \notin snap[c].excluded
    BY <2>1, <2>4, WritesOnlyByGrant DEF Allowed, WritesAreOptIn, GrantedTo
  <2> QED BY <2>2, <2>3, <2>5
<1>2. Spec => []GrantInv
  BY InitGrants, GrantsStep, CallTypes, CallsHold, PTL DEF Spec
<1> QED BY <1>1, <1>2, CallTypes, PTL

-----------------------------------------------------------------------------
(* The refinement of ToolGate *)

InForce == {c \in Calls : pc[c] \in InRequest /\ Allowed(c)}
Done == {c \in Calls : performed[c] # "none"}

(* What one call's step does to the gate's two sets depends on that call. *)
LEMMA SetsMove ==
  ASSUME TypeOK, NEW c \in Calls, CallStep(c)
  PROVE  /\ InForce' \in {InForce \cup {c}, InForce \ {c}}
         /\ c \in InForce' <=> (pc'[c] \in InRequest /\ Allowed(c)')
         /\ Done' \in {Done \cup {c}, Done \ {c}}
         /\ c \in Done' <=> performed'[c] # "none"
<1>1. \A d \in Calls \ {c} : UNCHANGED <<pc[d], snap[d], performed[d]>>
  BY OthersUntouched DEF Untouched
<1>2. \A d \in Calls \ {c} : (d \in InForce' <=> d \in InForce) /\ (d \in Done' <=> d \in Done)
  BY <1>1 DEF InForce, Done, Allowed
<1>3. InForce \subseteq Calls /\ InForce' \subseteq Calls /\ Done \subseteq Calls /\ Done' \subseteq Calls
  BY DEF InForce, Done
<1>4. /\ c \in InForce' <=> (pc'[c] \in InRequest /\ Allowed(c)')
      /\ c \in Done' <=> performed'[c] # "none"
  BY DEF InForce, Done
<1>5. InForce' \in {InForce \cup {c}, InForce \ {c}}
  BY <1>2, <1>3
<1>6. Done' \in {Done \cup {c}, Done \ {c}}
  BY <1>2, <1>3
<1> QED BY <1>4, <1>5, <1>6

(* A step that leaves the call in the request, or out of it, is not seen. *)
LEMMA QuietStep ==
  ASSUME TypeOK, NEW c \in Calls, CallStep(c), UNCHANGED <<gate, snap[c], performed[c]>>,
         pc'[c] \in InRequest <=> pc[c] \in InRequest
  PROVE  [Gate!GateNext]_(Gate!gateVars)
<1>1. c \in InForce' <=> c \in InForce
  BY DEF InForce, Allowed
<1>2. c \in Done' <=> c \in Done
  BY DEF Done
<1>3. InForce' = InForce /\ Done' = Done
  BY <1>1, <1>2, SetsMove
<1> QED BY <1>3 DEF gate, Gate!gateVars, InForce, Done

(* A request that ends, or is rolled back, without an effect. *)
LEMMA DropStep ==
  ASSUME TypeOK, NEW c \in Calls, CallStep(c), UNCHANGED <<gate, snap, performed>>,
         pc'[c] \notin InRequest
  PROVE  [Gate!GateNext]_(Gate!gateVars)
<1>1. Done' = Done
  BY DEF Done
<1>2. InForce' = InForce \ {c}
  BY SetsMove
<1>3. CASE c \in InForce
  <2>1. Gate!Drop(c)
    BY <1>1, <1>2, <1>3 DEF gate, Gate!Drop, InForce, Done
  <2> QED BY <2>1 DEF Gate!GateNext
<1>4. CASE c \notin InForce
  <2>1. InForce' = InForce
    BY <1>2, <1>4
  <2> QED BY <1>1, <2>1 DEF gate, Gate!gateVars, InForce, Done
<1> QED BY <1>3, <1>4

(* The gate judges by the same policy. *)
LEMMA SamePolicy ==
  ASSUME NEW p, NEW tool, NEW model, Permitted(p, tool, model)
  PROVE  Gate!Permitted(p, tool, model)
<1>1. EffectiveTools(p) = Gate!EffectiveTools(p)
  BY DEF EffectiveTools, Gate!EffectiveTools, AllowedToolNames, Gate!AllowedToolNames,
     ZeroTrust, Gate!ZeroTrust, AllTools, Gate!AllTools, ReadonlyToolSet, Gate!ReadonlyToolSet
<1> QED
  BY <1>1 DEF Permitted, Gate!Permitted, ModelIsOpen, Gate!ModelIsOpen,
              GroupAllows, Gate!GroupAllows

(* Authentication accepts the call, when the policy it meets permits it. *)
LEMMA AcceptStep ==
  ASSUME TypeOK, CallsInv, NEW c \in Calls, CallStep(c), Authenticate(c)
  PROVE  [Gate!GateNext]_(Gate!gateVars)
<1>1. /\ TokenValid(TurnOf[c]) /\ pc[c] = "sent" /\ pc'[c] = "open" /\ snap'[c] = policy
      /\ UNCHANGED <<gate, performed>>
  BY DEF TypeOK, Authenticate, records
<1>2. Done' = Done /\ c \notin Done
  BY <1>1 DEF Done, CallsInv, CallInv, RequestInv
<1>3. c \notin InForce
  BY <1>1 DEF InForce
<1>4. c \in InForce' <=> Permitted(policy, ToolOf[c], ModelOf[c])
  BY <1>1, SetsMove DEF Allowed
<1>5. CASE Permitted(policy, ToolOf[c], ModelOf[c])
  <2>1. InForce' = InForce \cup {c}
    BY <1>4, <1>5, SetsMove
  <2>2. Gate!MayRun(c)
    BY <1>1, <1>5, SamePolicy DEF TokenValid, Gate!MayRun, Gate!Honoured
  <2>3. Gate!Accept(c)
    BY <1>1, <1>2, <1>3, <2>1, <2>2 DEF gate, Gate!Accept, InForce, Done
  <2> QED BY <2>3 DEF Gate!GateNext
<1>6. CASE ~Permitted(policy, ToolOf[c], ModelOf[c])
  <2>1. InForce' = InForce
    BY <1>3, <1>4, <1>6, SetsMove
  <2> QED BY <1>1, <1>2, <2>1 DEF gate, Gate!gateVars, InForce, Done
<1> QED BY <1>5, <1>6

(* A commit performs a permitted call, or ends one that wrote nothing. *)
LEMMA CommitStep ==
  ASSUME TypeOK, CallsInv, NEW c \in Calls, CallStep(c), Commit(c)
  PROVE  [Gate!GateNext]_(Gate!gateVars)
<1>1. /\ pc[c] = "logged" /\ pc'[c] = "over" /\ performed'[c] = effect[c]
      /\ UNCHANGED <<gate, snap>> /\ performed[c] = "none"
  BY DEF TypeOK, Commit, CallsInv, CallInv, RequestInv
<1>2. InForce' = InForce \ {c}
  BY <1>1, SetsMove
<1>3. CASE effect[c] = "none"
  <2>1. performed' = performed
    BY <1>1, <1>3 DEF TypeOK, Commit
  <2> QED BY <1>1, <2>1, DropStep
<1>4. CASE effect[c] # "none"
  <2>1. c \in InForce
    BY <1>1, <1>4 DEF InForce, CallsInv, CallInv, RequestInv, AfterTool
  <2>2. Done' = Done \cup {c}
    BY <1>1, <1>4, SetsMove
  <2>3. Gate!Perform(c)
    BY <1>1, <1>2, <2>1, <2>2 DEF gate, Gate!Perform, InForce, Done
  <2> QED BY <2>3 DEF Gate!GateNext
<1> QED BY <1>3, <1>4

LEMMA CallRefines ==
  ASSUME TypeOK, CallsInv, NEW c \in Calls, CallStep(c)
  PROVE  [Gate!GateNext]_(Gate!gateVars)
<1>1. CASE Forward(c) \/ RefuseUnknown(c) \/ GiveUpWaiting(c)
  BY <1>1, QuietStep
     DEF TypeOK, Forward, RefuseUnknown, GiveUpWaiting, request, records
<1>2. CASE Authenticate(c)
  BY <1>2, AcceptStep
<1>3. CASE RefuseToken(c) \/ FlushFails(c) \/ ServerDies(c) \/ Rerun(c)
  <2>1. UNCHANGED <<gate, snap, performed>> /\ pc'[c] \notin InRequest
    BY <1>3 DEF TypeOK, RefuseToken, FlushFails, ServerDies, Rerun, Over, records
  <2> QED BY <2>1, DropStep
<1>4. CASE Deny(c) \/ Succeed(c) \/ Fail(c)
  BY <1>4, ToolEnds, QuietStep DEF TypeOK, Ran, records
<1>5. CASE Record(c) \/ RecordFails(c) \/ RecordBlocks(c)
  BY <1>5, QuietStep DEF TypeOK, Record, RecordFails, RecordBlocks, records
<1>6. CASE Commit(c)
  BY <1>6, CommitStep
<1> QED BY <1>1, <1>2, <1>3, <1>4, <1>5, <1>6 DEF CallStep

LEMMA OutsideRefines ==
  ASSUME Tick \/ (\E p \in Policies : ChangePolicy(p))
              \/ (\E t \in Turns : StartTurn(t) \/ EndTurn(t)) \/ UNCHANGED vars
  PROVE  [Gate!GateNext]_(Gate!gateVars)
<1>1. UNCHANGED <<pc, snap, performed>>
  BY DEF Tick, ChangePolicy, StartTurn, EndTurn, vars, request, records
<1>2. InForce' = InForce /\ Done' = Done
  BY <1>1 DEF InForce, Done, Allowed
<1>3. CASE Tick
  BY <1>2, <1>3 DEF Tick, Gate!Advance, Gate!GateNext, InForce, Done
<1>4. ASSUME NEW p \in Policies, ChangePolicy(p) PROVE Gate!GateNext
  BY <1>2, <1>4 DEF ChangePolicy, Gate!SetPolicy, Gate!GateNext, InForce, Done
<1>5. ASSUME NEW t \in Turns, StartTurn(t) PROVE Gate!GateNext
  BY <1>2, <1>5 DEF StartTurn, Gate!TakeOver, Gate!NotMinted, Gate!GateNext, InForce, Done
<1>6. CASE (\E t \in Turns : EndTurn(t)) \/ UNCHANGED vars
  BY <1>2, <1>6 DEF EndTurn, vars, gate, Gate!gateVars, InForce, Done
<1> QED BY <1>3, <1>4, <1>5, <1>6

(* Every run of the requests, with their retries, their crashes and the      *)
(* answers given up on, is a run of the gate: an effect needs a token and a  *)
(* policy good at one moment, and comes once.                                *)
THEOREM CallsImplementGate == Spec => ImplementsGate
<1>1. Init => Gate!GateInit
  BY DEF Init, Gate!GateInit, Gate!NotMinted
<1>2. TypeOK /\ CallsInv /\ [Next]_vars => [Gate!GateNext]_(Gate!gateVars)
  BY CallRefines, OutsideRefines DEF Next
<1> QED
  BY <1>1, <1>2, CallTypes, CallsHold, PTL DEF Spec, ImplementsGate, Gate!GateSpec

=============================================================================
