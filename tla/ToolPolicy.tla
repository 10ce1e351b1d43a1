------------------------------ MODULE ToolPolicy ------------------------------
(***************************************************************************)
(* Which tools a user has: the per-user selection, zero-trust mode, the     *)
(* excluded models, and the three places that apply them: the launch (what *)
(* the CLI and the bridge are told), the bridge (what it advertises) and   *)
(* the controller (what it refuses).                                       *)
(***************************************************************************)
EXTENDS FiniteSets

CONSTANTS ReadTools,       \* READ_TOOLS
          WriteTools,      \* WRITE_TOOLS
          WebTools,        \* WEB_TOOLS
          SqlTool,         \* "sql_select"
          BridgeDefault,   \* _DEFAULT_ALLOWED of the bridge
          OtherNames,      \* names of catalogue records the code does not know
          Models

ASSUME ToolAssumption == /\ ReadTools \cap WriteTools = {}
                         /\ ReadTools \cap WebTools = {}
                         /\ WriteTools \cap WebTools = {}
                         /\ BridgeDefault \subseteq ReadTools
                         /\ SqlTool \in ReadTools \ BridgeDefault
                         /\ OtherNames \cap (ReadTools \cup WriteTools \cup WebTools) = {}

AllTools == ReadTools \cup WriteTools \cup WebTools
ReadonlyToolSet == ReadTools \cup WebTools
BridgeTools == ReadTools \cup WriteTools      \* the schemas in TOOLS

(* What an administrator has set for the user and for the instance. *)
PolicySpace ==
  [grant : SUBSET (AllTools \cup OtherNames),       \* res.users.claudoo_tool_ids
   catalogue : SUBSET (AllTools \cup OtherNames),   \* claudoo.tool records not archived
   mode : {"inherit", "on", "off"},                 \* claudoo_zero_trust_mode
   zeroTrustDefault : BOOLEAN,                      \* claudoo.zero_trust_default
   excluded : SUBSET Models,                        \* claudoo.excluded_models
   analyst : BOOLEAN]                               \* member of group_ai_sql_analyst

-----------------------------------------------------------------------------

(* An archived tool is not in the user's selection, and an empty selection  *)
(* means every read tool.                                                   *)
AllowedToolNames(p) ==
  LET selection == p.grant \cap p.catalogue
  IN IF selection = {} THEN ReadTools ELSE selection

ZeroTrust(p) ==
  \/ p.mode = "on"
  \/ p.mode = "inherit" /\ p.zeroTrustDefault

UnfilteredTools(p) ==        \* mutant: names the code does not know pass
  IF ZeroTrust(p) THEN AllowedToolNames(p) \cap ReadonlyToolSet ELSE AllowedToolNames(p)
EffectiveTools(p) ==
  LET names == AllowedToolNames(p) \cap AllTools
  IN IF ZeroTrust(p) THEN names \cap ReadonlyToolSet ELSE names

(* What the bridge advertises when it is started with the tools of the      *)
(* launch: an empty AI_ALLOWED_TOOLS falls back to its own default.         *)
VisibleTools(effective) ==
  LET sent == effective \ WebTools
  IN IF sent = {} THEN BridgeDefault ELSE sent \cap BridgeTools

(* The controller's checks on one call, made before the tool does anything. *)
ModelIsOpen(p, tool, model) == tool = SqlTool \/ model \notin p.excluded
GroupAllows(p, tool) == tool = SqlTool => p.analyst
Permitted(p, tool, model) ==
  /\ tool \in EffectiveTools(p)
  /\ ModelIsOpen(p, tool, model)
  /\ GroupAllows(p, tool)

-----------------------------------------------------------------------------
(* What the policy promises, for every setting: stated and proved in        *)
(* ToolCallsProofs.                                                         *)

(* Under zero trust, and without an explicit grant, no write tool is        *)
(* permitted on any model (res_users._ai_effective_tools, test_tool_access).*)
WritesAreOptIn(p) ==
  \A tool \in WriteTools, model \in Models :
    Permitted(p, tool, model) => /\ tool \in p.grant \cap p.catalogue
                                 /\ ~ZeroTrust(p)
                                 /\ model \notin p.excluded

(* Web access never comes from the fall-back.                               *)
WebIsOptIn(p) == EffectiveTools(p) \cap WebTools \subseteq p.grant \cap p.catalogue

(* What the bridge advertises beyond the user's tools are read tools it     *)
(* falls back to, and only when the user has no tool of the bridge at all.  *)
AdvertisedBeyond(p) ==
  LET effective == EffectiveTools(p)
  IN VisibleTools(effective) \subseteq effective
     \/ /\ VisibleTools(effective) = BridgeDefault
        /\ effective \subseteq WebTools

=============================================================================
