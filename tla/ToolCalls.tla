------------------------------- MODULE ToolCalls -------------------------------
(***************************************************************************)
(* A tool call from the CLI to the database: the turn's token, the MCP      *)
(* bridge that forwards calls one at a time and waits a limited time, the   *)
(* HTTP request that authenticates the token, checks the policy, runs the   *)
(* tool, writes the audit row in a transaction of its own, and then flushes *)
(* and commits, or is run again by the server when the flush fails.         *)
(*                                                                         *)
(* One request is one transaction: the session row and the policy are read  *)
(* as they were when it began.                                              *)
(***************************************************************************)
EXTENDS ToolPolicy, Integers, Sequences

CONSTANTS Calls,         \* tools/call messages the CLI may send
          Turns,         \* turns of the session, each with a token and a bridge
          NoTurn,
          TurnOf,        \* call -> its turn
          ToolOf,        \* call -> the tool it names
          ModelOf,       \* call -> the model it names
          SelfDeleting,  \* calls that delete the row the audit row will refer to
          Policies,      \* the settings the administrator moves between
          Ttl,           \* 900 s, in ticks
          MaxTries,      \* runs of one request, the first one included (5 in Odoo)
          MaxTime        \* bound on the clock

ASSUME CallAssumption == /\ TurnOf \in [Calls -> Turns]
                         /\ ToolOf \in [Calls -> AllTools]
                         /\ ModelOf \in [Calls -> Models]
                         /\ SelfDeleting \subseteq {c \in Calls : ToolOf[c] \in WriteTools}
ASSUME PolicyAssumption == Policies \subseteq PolicySpace
ASSUME NoTurnAssumption == NoTurn \notin Turns
ASSUME StatusAssumption == Calls \cap {"none", "idle", "gone"} = {}
ASSUME BoundAssumption == Ttl \in Nat /\ MaxTries \in Nat \ {0} /\ MaxTime \in Nat

VARIABLES
  now,         \* the clock
  policy,      \* the settings as committed
  current,     \* bridge_jti: the turn whose token the session row names
  exp,         \* the expiry in each turn's token, and in bridge_exp when it was current
  launched,    \* the effective tools each turn was started with
  bridge,      \* a turn's bridge: not started, idle, gone, or the call it waits for
  pc,          \* where a call is
  snap,        \* the policy its request reads
  tries,       \* how often its request has been run again
  outcome,     \* how the tool ended in this run
  effect,      \* what its transaction would write
  performed,   \* what a committed transaction of it has written
  toolLog,     \* claudoo.tool_log: the outcomes recorded for the call
  serverLog,   \* calls for which writing the audit row failed (_logger.exception)
  answer       \* what the CLI was told

gate == <<now, policy, current, exp, launched>>
request == <<pc, snap, tries, outcome, effect>>
records == <<performed, toolLog, serverLog>>
vars == <<gate, request, records, bridge, answer>>

NotMinted == -1
(* validation_rejected and error go the same way: "error" stands for both. *)
Outcomes == {"success", "access_denied", "error"}
InRequest == {"open", "ran", "blocked", "logged"}
AtRest == {"over", "dead"}

Init ==
  /\ now = 0
  /\ policy \in Policies
  /\ current = NoTurn
  /\ exp = [t \in Turns |-> NotMinted]
  /\ launched = [t \in Turns |-> {}]
  /\ bridge = [t \in Turns |-> "none"]
  /\ pc = [c \in Calls |-> "unsent"]
  /\ snap = [c \in Calls |-> policy]
  /\ tries = [c \in Calls |-> 0]
  /\ outcome = [c \in Calls |-> "none"]
  /\ effect = [c \in Calls |-> "none"]
  /\ performed = [c \in Calls |-> "none"]
  /\ toolLog = [c \in Calls |-> <<>>]
  /\ serverLog = {}
  /\ answer = [c \in Calls |-> "none"]

-----------------------------------------------------------------------------
(* Outside the calls *)

(* send_message commits: the token's salt, jti and expiry replace those of  *)
(* the turn before, whose CLI may still be running, and the new CLI and its *)
(* bridge start with the tools the user has now.                            *)
StartTurn(t) ==
  /\ exp[t] = NotMinted
  /\ current' = t
  /\ exp' = [exp EXCEPT ![t] = now + Ttl]
  /\ launched' = [launched EXCEPT ![t] = EffectiveTools(policy)]
  /\ bridge' = [bridge EXCEPT ![t] = "idle"]
  /\ UNCHANGED <<now, policy, request, records, answer>>

(* The CLI and with it the bridge end, by themselves or killed: a request   *)
(* already made goes on without anyone to answer.                           *)
EndTurn(t) ==
  /\ bridge[t] \notin {"none", "gone"}
  /\ bridge' = [bridge EXCEPT ![t] = "gone"]
  /\ UNCHANGED <<gate, request, records, answer>>

ChangePolicy(p) ==
  /\ p # policy
  /\ policy' = p
  /\ UNCHANGED <<now, current, exp, launched, request, records, bridge, answer>>

Tick ==
  /\ now < MaxTime
  /\ now' = now + 1
  /\ UNCHANGED <<policy, current, exp, launched, request, records, bridge, answer>>

-----------------------------------------------------------------------------
(* The bridge *)

(* The bridge handles one message at a time. *)
BridgeUp(t) == bridge[t] \notin {"none", "gone"}     \* mutant: one thread per message
BridgeFree(t) == bridge[t] = "idle"

Forward(c) ==
  /\ pc[c] = "unsent"
  /\ BridgeFree(TurnOf[c])
  /\ ToolOf[c] \in VisibleTools(launched[TurnOf[c]])
  /\ pc' = [pc EXCEPT ![c] = "sent"]
  /\ bridge' = [bridge EXCEPT ![TurnOf[c]] = c]
  /\ UNCHANGED <<gate, snap, tries, outcome, effect, records, answer>>

(* A tool the bridge does not show is answered with an error at once. *)
RefuseUnknown(c) ==
  /\ pc[c] = "unsent"
  /\ BridgeFree(TurnOf[c])
  /\ ToolOf[c] \notin VisibleTools(launched[TurnOf[c]])
  /\ pc' = [pc EXCEPT ![c] = "over"]
  /\ answer' = [answer EXCEPT ![c] = "error"]
  /\ UNCHANGED <<gate, snap, tries, outcome, effect, records, bridge>>

(* The response reaches the CLI if the bridge still waits for it. *)
Respond(c, reply) ==
  IF bridge[TurnOf[c]] = c
  THEN /\ bridge' = [bridge EXCEPT ![TurnOf[c]] = "idle"]
       /\ answer' = [answer EXCEPT ![c] = reply]
  ELSE UNCHANGED <<bridge, answer>>

(* urlopen gives up after 60 s; the request goes on. *)
GiveUpWaiting(c) ==
  /\ bridge[TurnOf[c]] = c
  /\ Respond(c, "error")
  /\ UNCHANGED <<gate, request, records>>

-----------------------------------------------------------------------------
(* The request *)

(* The request ends without a committed effect. *)
Over(c, label, reply) ==
  /\ pc' = [pc EXCEPT ![c] = label]
  /\ outcome' = [outcome EXCEPT ![c] = "none"]
  /\ effect' = [effect EXCEPT ![c] = "none"]
  /\ Respond(c, reply)
  /\ UNCHANGED <<gate, snap, tries, records>>

TokenValid(t) == t = current /\ now <= exp[t]

(* The first statement of the request's transaction reads the session row:  *)
(* what it and the policy are at this moment is what the request will see.  *)
Authenticate(c) ==
  /\ pc[c] = "sent"
  /\ TokenValid(TurnOf[c])
  /\ pc' = [pc EXCEPT ![c] = "open"]
  /\ snap' = [snap EXCEPT ![c] = policy]
  /\ UNCHANGED <<gate, tries, outcome, effect, records, bridge, answer>>

(* AccessDenied, before the controller and its audit are reached. *)
RefuseToken(c) ==
  /\ pc[c] = "sent"
  /\ ~TokenValid(TurnOf[c])
  /\ Over(c, "over", "error")

AllowedAtLaunch(c) ==        \* mutant: the launch's tool list is trusted
  ToolOf[c] \in VisibleTools(launched[TurnOf[c]])
Allowed(c) == Permitted(snap[c], ToolOf[c], ModelOf[c])

Writes(c) == ToolOf[c] \in WriteTools

(* The tool function has ended in this way, inside _run. *)
Ran(c, result, written) ==
  /\ pc' = [pc EXCEPT ![c] = "ran"]
  /\ outcome' = [outcome EXCEPT ![c] = result]
  /\ effect' = [effect EXCEPT ![c] = written]
  /\ UNCHANGED <<gate, snap, tries, records, bridge, answer>>

Deny(c) ==
  /\ pc[c] = "open"
  /\ ~Allowed(c)
  /\ Ran(c, "access_denied", "none")

Succeed(c) ==
  /\ pc[c] = "open"
  /\ Allowed(c)
  /\ Ran(c, "success", IF Writes(c) THEN "whole" ELSE "none")

(* An exception past the checks: of Odoo's access rules, of a validation,   *)
(* or any other.  _run turns it into a result, so what the tool had written *)
(* before it is still part of the transaction, unless it was the database   *)
(* that failed the statement.                                               *)
Kept(c) == IF Writes(c) THEN {"none", "part"} ELSE {"none"}
Fail(c) ==
  /\ pc[c] = "open"
  /\ Allowed(c)
  /\ \E result \in Outcomes \ {"success"}, written \in Kept(c) : Ran(c, result, written)

(* _audit: a transaction of its own, committed at once. *)
OnlySuccess == {"success"}      \* mutant: the except branches do not audit
Audited == Outcomes
Record(c) ==
  /\ pc[c] = "ran"
  /\ ~(c \in SelfDeleting /\ effect[c] # "none")
  /\ pc' = [pc EXCEPT ![c] = "logged"]
  /\ toolLog' = [toolLog EXCEPT ![c] =
                  IF outcome[c] \in Audited THEN Append(@, outcome[c]) ELSE @]
  /\ UNCHANGED <<gate, snap, tries, outcome, effect, performed, serverLog, bridge, answer>>

(* _record swallows every exception and leaves a trace in the server's log. *)
RecordFails(c) ==
  /\ pc[c] = "ran"
  /\ ~(c \in SelfDeleting /\ effect[c] # "none")
  /\ pc' = [pc EXCEPT ![c] = "logged"]
  /\ serverLog' = serverLog \cup {c}
  /\ UNCHANGED <<gate, snap, tries, outcome, effect, performed, toolLog, bridge, answer>>

(* The audit row refers to the session and the user: its insert waits for   *)
(* the lock of the transaction that has just deleted one of them, and that  *)
(* transaction waits for the insert.                                        *)
RecordBlocks(c) ==
  /\ pc[c] = "ran"
  /\ c \in SelfDeleting
  /\ effect[c] # "none"
  /\ pc' = [pc EXCEPT ![c] = "blocked"]
  /\ UNCHANGED <<gate, snap, tries, outcome, effect, records, bridge, answer>>

Unchecked(c) == "ok"       \* mutant: the error in the response is not looked at
Reply(c) == IF outcome[c] = "success" THEN "ok" ELSE "error"

Commit(c) ==
  /\ pc[c] = "logged"
  /\ pc' = [pc EXCEPT ![c] = "over"]
  /\ performed' = [performed EXCEPT ![c] = effect[c]]
  /\ outcome' = [outcome EXCEPT ![c] = "none"]
  /\ effect' = [effect EXCEPT ![c] = "none"]
  /\ Respond(c, Reply(c))
  /\ UNCHANGED <<gate, snap, tries, toolLog, serverLog>>

(* The flush before the commit meets a concurrent update: the transaction   *)
(* is rolled back and the whole request runs again, authentication included.*)
Rerun(c) ==
  /\ pc[c] = "logged"
  /\ effect[c] # "none"
  /\ tries[c] + 1 < MaxTries
  /\ pc' = [pc EXCEPT ![c] = "sent"]
  /\ tries' = [tries EXCEPT ![c] = @ + 1]
  /\ outcome' = [outcome EXCEPT ![c] = "none"]
  /\ effect' = [effect EXCEPT ![c] = "none"]
  /\ UNCHANGED <<gate, snap, records, bridge, answer>>

FlushReply(c) == "error"

(* The flush fails for good: a constraint, or one concurrent update too many. *)
FlushFails(c) ==
  /\ pc[c] = "logged"
  /\ effect[c] # "none"
  /\ Over(c, "over", FlushReply(c))

(* The server process is killed or recycled: the connection breaks. *)
ServerDies(c) ==
  /\ pc[c] \in InRequest \cup {"sent"}
  /\ Over(c, "dead", "error")

-----------------------------------------------------------------------------

CallStep(c) ==
  \/ Forward(c) \/ RefuseUnknown(c) \/ GiveUpWaiting(c)
  \/ Authenticate(c) \/ RefuseToken(c)
  \/ Deny(c) \/ Succeed(c) \/ Fail(c)
  \/ Record(c) \/ RecordFails(c) \/ RecordBlocks(c)
  \/ Commit(c) \/ Rerun(c) \/ FlushFails(c) \/ ServerDies(c)

Next ==
  \/ Tick
  \/ \E p \in Policies : ChangePolicy(p)
  \/ \E t \in Turns : StartTurn(t) \/ EndTurn(t)
  \/ \E c \in Calls : CallStep(c)

Spec == Init /\ [][Next]_vars

-----------------------------------------------------------------------------
(* Properties *)

(* Every variable has its type (the columns of claudoo.session and          *)
(* claudoo.tool_log, the outcomes of _run).                                 *)
TypeOK ==
  /\ now \in Nat
  /\ policy \in Policies
  /\ current \in Turns \cup {NoTurn}
  /\ exp \in [Turns -> Nat \cup {NotMinted}]
  /\ launched \in [Turns -> SUBSET AllTools]
  /\ bridge \in [Turns -> Calls \cup {"none", "idle", "gone"}]
  /\ pc \in [Calls -> {"unsent", "sent"} \cup InRequest \cup AtRest]
  /\ snap \in [Calls -> Policies]
  /\ tries \in [Calls -> Nat]
  /\ outcome \in [Calls -> Outcomes \cup {"none"}]
  /\ effect \in [Calls -> {"none", "part", "whole"}]
  /\ performed \in [Calls -> {"none", "part", "whole"}]
  /\ toolLog \in [Calls -> Seq(Outcomes)]
  /\ serverLog \subseteq Calls
  /\ answer \in [Calls -> {"none", "ok", "error"}]

(* A call has an effect only after its request met, at one moment, a policy *)
(* that permits it and the session's latest, unexpired token; however often *)
(* the request is run again, the effect comes once (ir_http, _check_tool,   *)
(* _check_model, the server's retry loop).                                  *)
Gate == INSTANCE ToolGate WITH
  accepted <- {c \in Calls : pc[c] \in InRequest /\ Allowed(c)},
  performed <- {c \in Calls : performed[c] # "none"}
ImplementsGate == Gate!GateSpec

(* The CLI is told of a success only when what the tool wrote is committed, *)
(* whole (_serve_db commits before it responds; _call_odoo's isError).      *)
SuccessIsDurable ==
  \A c \in Calls :
    answer[c] = "ok" =>
      /\ performed[c] = IF Writes(c) THEN "whole" ELSE "none"
      /\ pc[c] = "over"

(* Nothing is written without a trace: an audit row, or the server's log    *)
(* when the row could not be written (_audit before the commit, _record).   *)
EffectIsTraceable ==
  \A c \in Calls : performed[c] # "none" => toolLog[c] # <<>> \/ c \in serverLog

(* A request the bridge no longer waits for, so that the next call of the   *)
(* turn can overlap with it, was reported to the CLI as failed, unless the  *)
(* CLI has ended (main's loop, the 60 s of _call_odoo).                     *)
AbandonedCallReported ==
  \A c \in Calls :
    /\ pc[c] \in InRequest \cup {"sent"}
    /\ bridge[TurnOf[c]] \notin {c, "gone"}
    => answer[c] = "error"

=============================================================================
