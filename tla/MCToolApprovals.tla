-------------------------- MODULE MCToolApprovals --------------------------
(***************************************************************************)
(* The approvals of staged media (ToolApprovals) and of provider objects   *)
(* (ApprovedChange).  The two share no state, so each is explored while    *)
(* the other has not begun.                                                *)
(***************************************************************************)
EXTENDS ToolApprovals, ApprovedChange, TLC

MCSizeOf == [a \in Asset |-> IF a = "big" THEN 3 ELSE 2]
MCSymmetry == Permutations(Uploader) \cup Permutations(Operator)

(* One object of each kind, named for it, in one account's reach.          *)
MCKindOf == [x \in Object |-> x]
MCAccountOf == [x \in Object |-> "ann"]

Input(tool, op, fields, target) == [tool |-> tool, op |-> op, fields |-> fields, target |-> target]
MCRequests ==
  {Input("draft_action", op, {}, "draft") : op \in {"update", "send", "delete"}}
  \cup {Input("draft_action", "update", Letter, "draft"),
        Input("label_action", "update", {"name"}, "label"),
        Input("label_action", "create", {"name", "text_color"}, NoObject),
        Input("message_action", "add_labels", {"message_ids", "more"}, "label"),
        Input("message_action", "trash", {"message_ids", "more"}, NoObject),
        Input("event_change", "update", Times, "event"),
        Input("event_change", "delete", {}, "event"),
        Input("event_change", "create", {"summary", "time_zone"}, NoObject),
        Input("post_tweet", "post", {"text", "quote_tweet_id"}, "post"),
        Input("create_post", "post", {"text", "visibility"}, NoObject)}

ChangeUntouched == ChangeInit /\ connected = "ann"
MCInit == Init /\ ChangeUntouched
MCSpec ==
  /\ MCInit
  /\ [][\/ ChangeUntouched /\ Next /\ UNCHANGED changeVars
        \/ Init /\ ChangeNext /\ UNCHANGED vars]_<<vars, changeVars>>
=============================================================================
