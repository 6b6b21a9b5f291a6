--------------------------- MODULE EvidenceLedger ---------------------------
(***************************************************************************)
(* What the memory of a user promises about behaviour observed in trips,   *)
(* whatever becomes of the outbox that carries it: an episode is taken     *)
(* into account once, as one more piece of evidence for one suggestion or  *)
(* for nothing, and evidence that was dropped never comes back.            *)
(***************************************************************************)
EXTENDS Naturals

CONSTANTS
  Episode, Suggestion,
  Earlier   \* episodes in the books already, each in a suggestion of its own

VARIABLES
  used,      \* episodes that have been taken into account
  evidence,  \* evidence[s]: the episodes that count for the open suggestion s
  weight     \* weight[s]: how many the suggestion says there are

vars == <<used, evidence, weight>>

Init ==
  /\ used = Earlier
  /\ evidence = [s \in Suggestion |-> Earlier \cap {s}]
  /\ weight = [s \in Suggestion |-> IF s \in Earlier THEN 1 ELSE 0]

\* An episode counts for one suggestion, which it may open ...
Count(ep, s) ==
  /\ ep \notin used
  /\ used' = used \cup {ep}
  /\ evidence' = [evidence EXCEPT ![s] = @ \cup {ep}]
  /\ weight' = [weight EXCEPT ![s] = @ + 1]

\* ... or, while the suggestion is suppressed, for none.
Disregard(ep) ==
  /\ ep \notin used
  /\ used' = used \cup {ep}
  /\ UNCHANGED <<evidence, weight>>

\* Suggestions are answered, lapse or are erased.
Drop(S) ==
  /\ evidence' = [s \in Suggestion |-> IF s \in S THEN {} ELSE evidence[s]]
  /\ weight' = [s \in Suggestion |-> IF s \in S THEN 0 ELSE weight[s]]
  /\ UNCHANGED used

Next ==
  \/ \E ep \in Episode, s \in Suggestion : Count(ep, s)
  \/ \E ep \in Episode : Disregard(ep)
  \/ \E S \in SUBSET Suggestion : Drop(S)

Spec == Init /\ [][Next]_vars
=============================================================================
