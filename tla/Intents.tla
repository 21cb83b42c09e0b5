---------------------------- MODULE Intents ----------------------------
(***************************************************************************)
(* The intent of a conversation as a state that each turn advances, and    *)
(* the domain agent the turn is routed to.                                 *)
(*                                                                         *)
(* The value of a slot is the intent under which the customer said it:     *)
(* what matters is only whether it may be used for the present intent.     *)
(***************************************************************************)
EXTENDS Integers, FiniteSets, Sequences

CONSTANT Unset  \* a slot without a value

Slot == {"orderId", "phoneLast4", "trackingNo", "productKeyword", "reason"}

\* REQUIRED_SLOTS: any one of these sets of slots is enough.
RequiredSlots ==
  [order_query    |-> {{"orderId"}, {"phoneLast4"}},
   product_search |-> {},
   after_sales    |-> {{"orderId"}},
   refund         |-> {{"orderId"}, {"reason"}},
   logistics      |-> {{"orderId"}, {"trackingNo"}},
   account        |-> {},
   complaint      |-> {},
   chitchat       |-> {},
   unknown        |-> {}]

Intent == DOMAIN RequiredSlots

NoSlots == [s \in Slot |-> Unset]

\* EMPTY_STATE
EmptyState == [intent |-> "unknown", phase |-> "idle", slots |-> NoSlots]

\* IntentRecognizer.recognize, on an answer of the recogniser's model: what is
\* no JSON object, no known intent or not sure enough is `unknown', and only
\* known slots with a value are kept.
Heard(intent, said, sure) ==
  IF sure /\ intent \in Intent \ {"unknown"}
  THEN [intent |-> intent,
        slots  |-> [s \in Slot |-> IF s \in said THEN intent ELSE Unset]]
  ELSE [intent |-> "unknown", slots |-> NoSlots]

\* findMissingSlots: one slot of each set for a state that has no whole set.
MissingSlots(intent, slots) ==
  LET groups == RequiredSlots[intent]
  IN  IF \E g \in groups : \A s \in g : slots[s] # Unset
      THEN {} ELSE UNION groups

\* { ...previous.slots, ...result.slots }
Merged(old, new) == [s \in Slot |-> IF new[s] # Unset THEN new[s] ELSE old[s]]

Switches(previous, result) == previous.intent \notin {"unknown", result.intent}

\* advance: the slots of another intent are not taken over.
Mutant_Advance(previous, result) ==
  IF result.intent = "unknown" THEN previous
  ELSE [intent |-> result.intent, phase |-> "ready",
        slots |-> Merged(previous.slots, result.slots)]

Advance(previous, result) ==
  IF result.intent = "unknown" THEN previous
  ELSE LET slots == IF Switches(previous, result) THEN result.slots
                    ELSE Merged(previous.slots, result.slots)
       IN [intent |-> result.intent,
           phase  |-> IF Switches(previous, result) THEN "switched"
                      ELSE IF MissingSlots(result.intent, slots) # {}
                           THEN "collecting" ELSE "ready",
           slots  |-> slots]

----------------------------------------------------------------------------
\* Agents: the intents each one serves and the tools its turns may see.

Agent(id, intents, tools) == [id |-> id, intents |-> intents, tools |-> tools]

\* ALL_DOMAIN_AGENTS, in order; no tools stands for all tools.
Presale == Agent("presale", {"product_search", "chitchat"},
                 {"product_search", "faq_search"})
Order == Agent("order", {"order_query", "logistics"},
               {"order_lookup", "faq_search"})
Aftersale == Agent("aftersale", {"after_sales", "refund"},
                   {"order_lookup", "refund_apply", "faq_search", "human_handoff"})
Account == Agent("account", {"account"}, {"faq_search", "human_handoff"})
General == Agent("general", {"unknown", "complaint"}, {})

AllAgents == <<Presale, Order, Aftersale, Account, General>>

\* AgentRegistry.register refuses a second agent for an intent.
Registers(agents) ==
  \A i, j \in DOMAIN agents :
    agents[i].id # agents[j].id => agents[i].intents \cap agents[j].intents = {}

\* AgentRegistry.resolve, after the registrations: the last agent registered
\* for the intent, or the general one.
ResolveAgent(agents, intent) ==
  LET serving == {i \in DOMAIN agents : intent \in agents[i].intents}
  IN  IF serving = {} THEN General
      ELSE agents[CHOOSE i \in serving : \A j \in serving : j <= i]

\* The tools the routing middleware leaves visible, out of all there are.
Offered(agent, tools) ==
  IF agent.tools = {} THEN tools ELSE tools \cap agent.tools

=============================================================================
