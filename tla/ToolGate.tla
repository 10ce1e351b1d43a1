------------------------------- MODULE ToolGate -------------------------------
(***************************************************************************)
(* What the tool endpoints promise: a call has an effect only after it was  *)
(* accepted, acceptance asks for a token that is the session's latest and   *)
(* has not expired and for a policy that permits the call at that very      *)
(* moment, and a call has its effect once.  What the CLI was told when it   *)
(* started does not matter.                                                 *)
(***************************************************************************)
EXTENDS ToolPolicy, Integers

CONSTANTS Calls, Turns, NoTurn, TurnOf, ToolOf, ModelOf, Policies, Ttl

VARIABLES now,        \* the clock
          policy,     \* the administrator's settings
          current,    \* the turn whose token the session row names
          exp,        \* the expiry of each turn's token
          accepted,   \* calls that have passed the checks and are not over
          performed   \* calls that have had an effect

NotMinted == -1      \* expiry of a token that does not exist yet

gateVars == <<now, policy, current, exp, accepted, performed>>

GateInit ==
  /\ now = 0
  /\ policy \in Policies
  /\ current = NoTurn
  /\ exp = [t \in Turns |-> NotMinted]
  /\ accepted = {}
  /\ performed = {}

Honoured(t) == t = current /\ now <= exp[t]
MayRun(c) ==
  /\ Honoured(TurnOf[c])
  /\ Permitted(policy, ToolOf[c], ModelOf[c])

(* A new turn takes the session over: no other turn's token is honoured again. *)
TakeOver(t) ==
  /\ exp[t] = NotMinted
  /\ current' = t
  /\ exp' = [exp EXCEPT ![t] = now + Ttl]
  /\ UNCHANGED <<now, policy, accepted, performed>>

Advance ==
  /\ now' = now + 1
  /\ UNCHANGED <<policy, current, exp, accepted, performed>>

SetPolicy(p) ==
  /\ policy' = p
  /\ UNCHANGED <<now, current, exp, accepted, performed>>

Accept(c) ==
  /\ MayRun(c)
  /\ c \notin accepted \cup performed
  /\ accepted' = accepted \cup {c}
  /\ UNCHANGED <<now, policy, current, exp, performed>>

Perform(c) ==
  /\ c \in accepted
  /\ accepted' = accepted \ {c}
  /\ performed' = performed \cup {c}
  /\ UNCHANGED <<now, policy, current, exp>>

Drop(c) ==
  /\ c \in accepted
  /\ accepted' = accepted \ {c}
  /\ UNCHANGED <<now, policy, current, exp, performed>>

GateNext ==
  \/ Advance
  \/ \E p \in Policies : SetPolicy(p)
  \/ \E t \in Turns : TakeOver(t)
  \/ \E c \in Calls : Accept(c) \/ Perform(c) \/ Drop(c)

GateSpec == GateInit /\ [][GateNext]_gateVars

=============================================================================
