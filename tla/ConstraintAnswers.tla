-------------------------- MODULE ConstraintAnswers --------------------------
(***************************************************************************)
(* What the constraint proposals of a trip promise its members, whatever   *)
(* transactions meet on a row: a proposal is put once and answered once;   *)
(* in the instant it is accepted it becomes one fact, whose name was free, *)
(* and that fact stays its own; a batch starts planning once, while all of *)
(* it is open, from what is accepted in that same instant.                 *)
(***************************************************************************)
CONSTANTS
  Proposal,
  Fact,
  Batch,
  Candidates   \* Candidates[b]: the proposals of a batch

VARIABLES
  answer,      \* answer[p]: none, PENDING, CONFIRMED or DISMISSED
  stated,      \* stated[p]: the facts that p has become
  started      \* the batches that have started planning

vars == <<answer, stated, started>>

Answered(S, a) == [p \in Proposal |-> IF p \in S THEN a ELSE answer[p]]

Init ==
  /\ answer = [p \in Proposal |-> "none"]
  /\ stated = [p \in Proposal |-> {}]
  /\ started = {}

Put(S) ==
  /\ \A p \in S : answer[p] = "none"
  /\ answer' = Answered(S, "PENDING")
  /\ UNCHANGED <<stated, started>>

Decline(S) ==
  /\ \A p \in S : answer[p] = "PENDING"
  /\ answer' = Answered(S, "DISMISSED")
  /\ UNCHANGED <<stated, started>>

\* Each of S becomes a fact of its own, whose name is free.
Accept(S) ==
  /\ \A p \in S : answer[p] = "PENDING" /\ stated[p] = {}
  /\ answer' = Answered(S, "CONFIRMED")
  /\ \E id \in [S -> Fact] :
       /\ \A p \in S, q \in Proposal : id[p] \notin stated[q]
       /\ \A p, q \in S : id[p] = id[q] => p = q
       /\ stated' = [p \in Proposal |-> IF p \in S THEN {id[p]} ELSE stated[p]]

AcceptOne(p) == Accept({p}) /\ UNCHANGED started

Start(b, S) ==
  /\ b \notin started
  /\ S # {} /\ S \subseteq Candidates[b]
  /\ \A p \in Candidates[b] : answer[p] = "PENDING"
  /\ started' = started \cup {b}
  /\ Accept(S)

Next ==
  \/ \E S \in SUBSET Proposal : Put(S) \/ Decline(S) \/ \E b \in Batch : Start(b, S)
  \/ \E p \in Proposal : AcceptOne(p)

Spec == Init /\ [][Next]_vars

=============================================================================
