------------------------- MODULE MCTurnPipeline -------------------------
(* TurnPipeline on a window of 7 messages. *)
EXTENDS TurnPipeline

MCTool == {"order_lookup", "refund_apply", "faq_search", "human_handoff"}

SameIds == [input |-> {Rule("inject", "mask")}, output |-> {Rule("phone", "handoff")}]
OwnRules == [input |-> {Rule("own", "handoff")}, output |-> {Rule("own", "block")}]
MCTenantRules == {SameIds, OwnRules}

Topic(intent, said) == [intent |-> intent, said |-> said, sure |-> TRUE]
MCTopics ==
  {Topic("refund", {"orderId"}), Topic("logistics", {}),
   Topic("order_query", {"phoneLast4"}), Topic("none", {})}

=============================================================================
