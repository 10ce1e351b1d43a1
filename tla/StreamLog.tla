------------------------------- MODULE StreamLog -------------------------------
(* RunnerStream keeps the promise of TurnLog. *)
EXTENDS RunnerStream

Log == INSTANCE TurnLog WITH said <- printed, noted <- handled, chat <- msgs, open <- worker # "over"

(* The messages of a turn are at every moment what the lines handled so far *)
(* say: one for each message id in the order of their first lines, the      *)
(* texts in order, every call once, with its last answer; an exception may  *)
(* leave them in the middle of one line more                                *)
(* (_handle_event, _upsert_assistant, _patch_tool_results, _run_worker).    *)
ImplementsLog == Log!Spec

=============================================================================
