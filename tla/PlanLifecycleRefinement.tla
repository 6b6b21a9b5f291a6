----------------------- MODULE PlanLifecycleRefinement -----------------------
(***************************************************************************)
(* The plans of a trip implement GroupDecision: an offer is chosen only    *)
(* with the founders' assent and without objection, the choice closes the  *)
(* other open offers, and what is closed stays closed.                     *)
(***************************************************************************)
EXTENDS PlanLifecycleProofs

standingOf == [p \in Plan |-> Standing(p)]
assentOf == [p \in Plan |-> {m \in Member : votes[p][m] = "ACCEPT"}]
objectionOf == [p \in Plan |-> {m \in Member : votes[p][m] = "NEEDS_CHANGES"}]

\* The standing of a plan, as a function of its status.
LEMMA StandingIs ==
  ASSUME TypeOK, NEW p \in Plan
  PROVE  /\ Standing(p) = "none" <=> plans[p].status = "none"
         /\ Standing(p) = "open" <=> plans[p].status = "PROPOSED"
         /\ Standing(p) = "chosen" <=> plans[p].status = "ACTIVE"
         /\ Standing(p) = "closed" <=> plans[p].status \in {"STALE", "SUPERSEDED"}
<1>1. plans[p].status \in PlanStatus
  BY DEF TypeOK, PlanRow
<1> QED
  BY <1>1 DEF Standing, PlanStatus

LEMMA RefinesInit == Init => GroupDecisions!Init
BY DEF Init, GroupDecisions!Init, Standing

\* A cascade, a change event or a change of places closes what it finds open or
\* chosen.
LEMMA CloseStep ==
  ASSUME PlanInv, TypeOK', NEW S, plans' = WithStatus(S, "STALE"), UNCHANGED votes,
         \A q \in S : plans[q].status # "none"
  PROVE  GroupDecisions!Next
<1> DEFINE C == {p \in Plan : p \in S /\ Standing(p) \in {"open", "chosen"}}
<1>1. \A p \in Plan : standingOf'[p] = IF p \in C THEN "closed" ELSE standingOf[p]
  <2> SUFFICES ASSUME NEW p \in Plan
               PROVE  Standing(p)' = IF p \in C THEN "closed" ELSE Standing(p)
    BY DEF standingOf
  <2>1. CASE p \in S
    <3>1. plans'[p].status = "STALE"
      BY <2>1, WithStatusIs DEF PlanInv
    <3>2. Standing(p)' = "closed"
      BY <3>1 DEF Standing
    <3>3. Standing(p) \in {"open", "chosen", "closed"}
      BY <2>1 DEF Standing
    <3> QED
      BY <2>1, <3>2, <3>3
  <2>2. CASE p \notin S
    <3>1. plans'[p] = plans[p]
      BY <2>2, WithStatusIs DEF PlanInv
    <3> QED
      BY <2>2, <3>1 DEF Standing
  <2> QED
    BY <2>1, <2>2
<1>2. standingOf' = [p \in Plan |-> IF p \in C THEN "closed" ELSE standingOf[p]]
  BY <1>1 DEF standingOf
<1>3. UNCHANGED <<assentOf, objectionOf>>
  BY DEF assentOf, objectionOf
<1>4. \A p \in C : standingOf[p] \in {"open", "chosen"}
  BY DEF standingOf
<1>5. C \in SUBSET Plan
  OBVIOUS
<1> HIDE DEF C
<1>6. GroupDecisions!Close(C)
  BY <1>2, <1>3, <1>4 DEF GroupDecisions!Close, standingOf, assentOf, objectionOf
<1> QED
  BY <1>5, <1>6 DEF GroupDecisions!Next

\* Publishing a plan makes an offer.
LEMMA MakeStep ==
  ASSUME PlanInv, NEW p \in Plan, Publish(p), ~ UNCHANGED plans
  PROVE  GroupDecisions!Next
<1>1. /\ plans' = [plans EXCEPT ![p] = [status |-> "PROPOSED", version |-> rounds[p].version]]
      /\ rounds[p].status = "active"
      /\ UNCHANGED votes
  BY DEF Publish
<1>2. plans \in [Plan -> PlanRow] /\ plans[p].status = "none"
  BY <1>1 DEF PlanInv, TypeOK, RoundsComeFirst
<1>3. standingOf[p] = "none"
  BY <1>2 DEF standingOf, Standing
<1>4. standingOf' = [standingOf EXCEPT ![p] = "open"]
  <2>1. Standing(p)' = "open"
    BY <1>1, <1>2 DEF Standing
  <2>2. \A q \in Plan : q # p => Standing(q)' = Standing(q)
    BY <1>1, <1>2 DEF Standing
  <2> QED
    BY <2>1, <2>2 DEF standingOf
<1>5. UNCHANGED <<assentOf, objectionOf>>
  BY <1>1 DEF assentOf, objectionOf
<1> QED
  BY <1>3, <1>4, <1>5
     DEF GroupDecisions!Next, GroupDecisions!Make, standingOf, assentOf, objectionOf

\* A ballot gives assent or raises an objection, never both.
LEMMA BallotStep ==
  ASSUME TypeOK, NEW p \in Plan, NEW m \in Member, NEW decision \in Decision,
         votes' = [votes EXCEPT ![p] = [votes[p] EXCEPT ![m] = decision]]
  PROVE  IF decision = "ACCEPT"
           THEN /\ assentOf' = [assentOf EXCEPT ![p] = assentOf[p] \cup {m}]
                /\ objectionOf' = [objectionOf EXCEPT ![p] = objectionOf[p] \ {m}]
           ELSE /\ assentOf' = [assentOf EXCEPT ![p] = assentOf[p] \ {m}]
                /\ objectionOf' = [objectionOf EXCEPT ![p] = objectionOf[p] \cup {m}]
<1>1. votes \in [Plan -> [Member -> Decision \cup {"none"}]]
  BY DEF TypeOK
<1>2. \A q \in Plan : q # p => votes'[q] = votes[q]
  BY <1>1
<1>3. \A x \in Member : votes'[p][x] = IF x = m THEN decision ELSE votes[p][x]
  BY <1>1
<1>4. decision \in {"ACCEPT", "NEEDS_CHANGES"}
  BY DEF Decision
<1>5. \A q \in Plan : q # p => assentOf'[q] = assentOf[q] /\ objectionOf'[q] = objectionOf[q]
  BY <1>2 DEF assentOf, objectionOf
<1>6. /\ assentOf'[p] = IF decision = "ACCEPT" THEN assentOf[p] \cup {m}
                                               ELSE assentOf[p] \ {m}
      /\ objectionOf'[p] = IF decision = "ACCEPT" THEN objectionOf[p] \ {m}
                                                  ELSE objectionOf[p] \cup {m}
  BY <1>3, <1>4 DEF assentOf, objectionOf
<1>7. /\ assentOf \in [Plan -> SUBSET Member] /\ assentOf' \in [Plan -> SUBSET Member]
      /\ objectionOf \in [Plan -> SUBSET Member] /\ objectionOf' \in [Plan -> SUBSET Member]
  BY DEF assentOf, objectionOf
<1> HIDE DEF assentOf, objectionOf
<1> QED
  BY <1>4, <1>5, <1>6, <1>7

\* A vote that carries the plan chooses it and closes the other proposals.
LEMMA ChooseStep ==
  ASSUME PlanInv, TypeOK', NEW m \in Member, voting[m] # NoPlan,
         Activate(m, voting[m]), voting' = [voting EXCEPT ![m] = NoPlan]
  PROVE  standingOf' = [x \in Plan |-> IF x = voting[m] THEN "chosen"
                                       ELSE IF standingOf[x] = "open" THEN "closed"
                                       ELSE standingOf[x]]
<1> USE DEF PlanInv
<1> SUFFICES ASSUME NEW x \in Plan
             PROVE  Standing(x)' = IF x = voting[m] THEN "chosen"
                                   ELSE IF Standing(x) = "open" THEN "closed"
                                   ELSE Standing(x)
  BY DEF standingOf
<1>1. /\ x = voting[m] => plans'[x].status = "ACTIVE"
      /\ x # voting[m] /\ x \in Proposed => plans'[x].status = "SUPERSEDED"
      /\ x # voting[m] /\ x \notin Proposed => plans'[x] = plans[x]
  BY ActivateChange
<1>2. Standing(x) = "open" <=> x \in Proposed
  BY StandingIs DEF Proposed
<1>3. CASE x = voting[m]
  BY <1>1, <1>3 DEF Standing
<1>4. CASE x # voting[m] /\ x \in Proposed
  BY <1>1, <1>2, <1>4 DEF Standing
<1>5. CASE x # voting[m] /\ x \notin Proposed
  BY <1>1, <1>2, <1>5 DEF Standing
<1> QED
  BY <1>3, <1>4, <1>5

\* A vote declares a member, and settles the matter if it carries the plan.
LEMMA VoteStep ==
  ASSUME PlanInv, TypeOK', [Next]_vars, NEW m \in Member,
         \/ \E decision \in Decision : CommitVote(m, decision)
         \/ AdoptAlone(m)
  PROVE  GroupDecisions!Next
<1> USE DEF PlanInv
<1> DEFINE p == voting[m]
<1>1. /\ p # NoPlan /\ voting' = [voting EXCEPT ![m] = NoPlan]
      /\ UNCHANGED plans \/ Activate(m, p)
  BY DEF CommitVote, AdoptAlone
<1>2. p \in Plan /\ plans[p].status = "PROPOSED"
  BY <1>1 DEF TypeOK, VotesLock
<1>3. PICK decision \in Decision :
        votes' = [votes EXCEPT ![p] = [votes[p] EXCEPT ![m] = decision]]
  <2>1. CASE AdoptAlone(m)
    <3>1. votes' = [votes EXCEPT ![p] = [votes[p] EXCEPT ![m] = "ACCEPT"]]
      BY <2>1 DEF AdoptAlone
    <3> QED
      BY <3>1 DEF Decision
  <2>2. CASE \E decision \in Decision : CommitVote(m, decision)
    BY <2>2 DEF CommitVote
  <2> QED
    BY <2>1, <2>2
<1>4. \/ /\ assentOf' = [assentOf EXCEPT ![p] = assentOf[p] \cup {m}]
         /\ objectionOf' = [objectionOf EXCEPT ![p] = objectionOf[p] \ {m}]
      \/ /\ assentOf' = [assentOf EXCEPT ![p] = assentOf[p] \ {m}]
         /\ objectionOf' = [objectionOf EXCEPT ![p] = objectionOf[p] \cup {m}]
  BY <1>2, <1>3, BallotStep
<1>5. standingOf[p] = "open"
  BY <1>2, StandingIs DEF standingOf
<1>6. \/ UNCHANGED standingOf
      \/ /\ Founder \subseteq assentOf'[p]
         /\ objectionOf'[p] = {}
         /\ standingOf' = [x \in Plan |-> IF x = p THEN "chosen"
                                          ELSE IF standingOf[x] = "open" THEN "closed"
                                          ELSE standingOf[x]]
  <2>1. CASE UNCHANGED plans
    BY <2>1 DEF standingOf, Standing
  <2>2. CASE Activate(m, p)
    <3>1. plans'[p].status = "ACTIVE"
      BY <1>1, <1>2, <2>2, ActivateChange
    <3>2. /\ \A x \in Founder : votes'[p][x] = "ACCEPT"
          /\ \A x \in Member : votes'[p][x] # "NEEDS_CHANGES"
      BY <1>2, <3>1, AdoptingStep
    <3>3. Founder \subseteq assentOf'[p] /\ objectionOf'[p] = {}
      BY <1>2, <3>2, PlanAssumption DEF assentOf, objectionOf
    <3> QED
      BY <1>1, <2>2, <3>3, ChooseStep
  <2> QED
    BY <1>1, <2>1, <2>2
<1>7. PICK o \in Plan : o = p
  BY <1>2
<1>8. GroupDecisions!Declare(o, m)
  BY <1>4, <1>5, <1>6, <1>7
     DEF GroupDecisions!Declare, GroupDecisions!Open, standingOf, assentOf, objectionOf
<1> QED
  BY <1>8 DEF GroupDecisions!Next

\* Every step of the plans is a step of the promise, or leaves it alone.
LEMMA RefinesStep ==
  ASSUME PlanInv, TypeOK', [Next]_vars
  PROVE  [GroupDecisions!Next]_(GroupDecisions!vars)
<1> USE DEF PlanInv
<1>1. ASSUME UNCHANGED <<plans, votes>> PROVE UNCHANGED GroupDecisions!vars
  BY <1>1 DEF GroupDecisions!vars, Standing
<1>2. ASSUME NEW p \in Plan, Plans(p), ~ UNCHANGED <<plans, votes>>
      PROVE  GroupDecisions!Next
  <2>1. AcceptReplan(p) \/ Publish(p)
    BY <1>2 DEF Plans, TakeSnapshot, AcceptRound, BeginReplan, ReadVersion, CheckSources,
       RollBackRound, FailRound
  <2>2. CASE AcceptReplan(p)
    BY <2>2, CloseStep DEF AcceptReplan, RoundsComeFirst
  <2>3. CASE Publish(p)
    <3>1. ~ UNCHANGED plans
      BY <1>2, <2>3 DEF Publish
    <3> QED
      BY <2>3, <3>1, MakeStep
  <2> QED
    BY <2>1, <2>2, <2>3
<1>3. ASSUME NEW c \in Change, Changes(c), ~ UNCHANGED <<plans, votes>>
      PROVE  GroupDecisions!Next
  <2>1. CommitChange(c)
    BY <1>3 DEF Changes, SelectLivePlans, RollBackChange
  <2> QED
    BY <2>1, CloseStep DEF CommitChange, RoundsComeFirst
<1>4. ASSUME NEW m \in Member, Votes(m), ~ UNCHANGED <<plans, votes>>
      PROVE  GroupDecisions!Next
  <2>1. \/ \E decision \in Decision : CommitVote(m, decision)
        \/ AdoptAlone(m)
    BY <1>4 DEF Votes, BeginVote, RollBackVote
  <2> QED
    BY <2>1, VoteStep
<1>5. ASSUME ChangePlace PROVE GroupDecisions!Next
  <2>1. \A q \in Live \ Proposed : plans[q].status # "none"
    BY DEF Live
  <2> QED
    BY <1>5, <2>1, CloseStep DEF ChangePlace
<1>6. \/ UNCHANGED <<plans, votes>>
      \/ \E p \in Plan : Plans(p)
      \/ \E c \in Change : Changes(c)
      \/ \E m \in Member : Votes(m)
      \/ ChangePlace
  BY DEF Next, vars, Join, Confirms, BeginConfirm, CommitConfirm, RollBackConfirm
<1> QED
  BY <1>1, <1>2, <1>3, <1>4, <1>5, <1>6

\* The plans of a trip keep the promise of GroupDecision, for every number of
\* members, rounds and changes: a vote and the cascade, whose read nothing
\* locks, never choose without the founders nor reopen what was closed.
THEOREM PlansImplementGroupDecision == Spec => ImplementsGroupDecision
BY RefinesInit, RefinesStep, PlanInvariant, TypeCorrect, PTL
   DEF Spec, ImplementsGroupDecision, GroupDecisions!Spec
=============================================================================
