-------------------------- MODULE MCAgentTaskQueue --------------------------
(***************************************************************************)
(* Small instances of AgentTaskQueue: one trip, one private thread on it,  *)
(* and tasks named after their operation.                                  *)
(***************************************************************************)
EXTENDS AgentTaskQueue, TLC

MCKind ==
  [t \in Task |->
     CASE t \in {"conversation", "conversation2"} -> "CONVERSATION"
       [] t = "personal" -> "PERSONAL_RESEARCH"
       [] t \in {"plan", "plan2"} -> "PLAN"
       [] t \in {"replan", "replan2"} -> "REPLAN"
       [] t = "research" -> "RESEARCH_ONLY"
       [] t = "propose" -> "PROPOSE_PLAN"]

MCTripOf == [t \in Task |-> "trip"]

MCThreadOf ==
  [t \in Task |-> IF MCKind[t] \in ThreadKinds THEN "thread" ELSE NoThread]

SlotSymmetry == Permutations(Slot)

=============================================================================
