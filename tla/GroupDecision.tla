---------------------------- MODULE GroupDecision ----------------------------
(***************************************************************************)
(* What the planning rounds of a trip promise its members: an offer is     *)
(* chosen only while every founder assents to it and nobody objects, the   *)
(* choice closes every other open offer in the same instant, assent is     *)
(* given and withdrawn only while an offer is open, and an offer that has  *)
(* been closed stays closed.                                               *)
(***************************************************************************)
CONSTANTS
  Offer,
  Member,
  Founder      \* the members a choice may never do without

VARIABLES
  standing,    \* standing[o]: none, open, chosen or closed
  assent,      \* assent[o]: the members who accept o
  objection    \* objection[o]: the members who object to o

vars == <<standing, assent, objection>>

Open == {o \in Offer : standing[o] = "open"}

Init ==
  /\ standing = [o \in Offer |-> "none"]
  /\ assent = [o \in Offer |-> {}]
  /\ objection = [o \in Offer |-> {}]

Make(o) ==
  /\ standing[o] = "none"
  /\ standing' = [standing EXCEPT ![o] = "open"]
  /\ UNCHANGED <<assent, objection>>

\* A member declares himself; the declaration may settle the matter.
Declare(o, m) ==
  /\ o \in Open
  /\ \/ /\ assent' = [assent EXCEPT ![o] = @ \cup {m}]
        /\ objection' = [objection EXCEPT ![o] = @ \ {m}]
     \/ /\ assent' = [assent EXCEPT ![o] = @ \ {m}]
        /\ objection' = [objection EXCEPT ![o] = @ \cup {m}]
  /\ \/ UNCHANGED standing
     \/ /\ Founder \subseteq assent'[o]
        /\ objection'[o] = {}
        /\ standing' = [x \in Offer |-> IF x = o THEN "chosen"
                                        ELSE IF x \in Open THEN "closed"
                                        ELSE standing[x]]

Close(S) ==
  /\ \A o \in S : standing[o] \in {"open", "chosen"}
  /\ standing' = [o \in Offer |-> IF o \in S THEN "closed" ELSE standing[o]]
  /\ UNCHANGED <<assent, objection>>

Next ==
  \/ \E o \in Offer : Make(o) \/ \E m \in Member : Declare(o, m)
  \/ \E S \in SUBSET Offer : Close(S)

Spec == Init /\ [][Next]_vars

=============================================================================
