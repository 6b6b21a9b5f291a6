--------------------------- MODULE MCPlanLifecycle ---------------------------
(***************************************************************************)
(* Small instances of PlanLifecycle; rounds are named after their kind.    *)
(***************************************************************************)
EXTENDS PlanLifecycle, TLC

MCKind == [p \in Plan |-> IF p = "replan" THEN "REPLAN" ELSE "RESEARCH"]

MemberSymmetry == Permutations(Member)

=============================================================================
