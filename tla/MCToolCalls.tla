------------------------------ MODULE MCToolCalls ------------------------------
(* Instances of ToolCalls for TLC. *)
EXTENDS ToolCalls, TLC

CONSTANTS c1, c2, t1, t2, read, write, sql, web, other, sale, hr

(* The calls of one turn; the other turn replaces its token. *)
FirstTurn == [c \in Calls |-> t1]
AllWrite == [c \in Calls |-> write]
AllOnSale == [c \in Calls |-> sale]

Setting(grant, mode, excluded, analyst) ==
  [grant |-> grant, catalogue |-> AllTools \cup OtherNames, mode |-> mode, zeroTrustDefault |-> FALSE,
   excluded |-> excluded, analyst |-> analyst]

(* Everything granted, and a user left with a web tool, for whom the bridge *)
(* falls back, and without the model.                                       *)
Granted == Setting({read, write, sql} \cup OtherNames, "inherit", {}, TRUE)
Withdrawn == Setting({web}, "inherit", {sale}, FALSE)
Settings == {Granted, Withdrawn}

=============================================================================
