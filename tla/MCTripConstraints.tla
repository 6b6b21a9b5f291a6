-------------------------- MODULE MCTripConstraints --------------------------
(* Instances of TripConstraints for TLC.                                    *)
EXTENDS TripConstraints, TLC

CONSTANTS ann, bob, style, budget, form1, form2, cand1, cand2, batch, thread,
          send, accept, keep, refuse, take1, take2

\* The form proposes a style, twice if it is delivered twice; a batch of the
\* agent proposes the same style and a budget.
MCContent ==
  [p \in Proposal |->
     CASE p \in {form1, form2} -> [owner |-> ann, field |-> style, value |-> "hotel", batch |-> NoBatch]
       [] p = cand1 -> [owner |-> ann, field |-> style, value |-> "hotel", batch |-> batch]
       [] p = cand2 -> [owner |-> ann, field |-> budget, value |-> "low", batch |-> batch]]

MCThreadOf == [b \in Batch |-> thread]

\* Two handoffs of one batch, each of one candidate.
MCAsks ==
  [r \in Request |->
     CASE r = send -> [op |-> "propose", rows |-> {form1, form2} \cap Proposal]
       [] r = accept -> [op |-> "confirm", rows |-> {cand1}]
       [] r = keep -> [op |-> "confirm", rows |-> {form1}]
       [] r = refuse -> [op |-> "dismiss", rows |-> {form1}]
       [] r = take1 -> [op |-> "handoff", rows |-> {cand1}]
       [] r = take2 -> [op |-> "handoff", rows |-> {cand2}]]

Symmetry == Permutations(Fact)
=============================================================================
