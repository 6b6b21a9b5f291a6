------------------------- MODULE PlanLifecycleProofs -------------------------
(***************************************************************************)
(* Proofs about PlanLifecycle for every set of rounds, members, founders   *)
(* and changes.                                                            *)
(***************************************************************************)
EXTENDS PlanLifecycle, WellFoundedInduction, TLAPS

-----------------------------------------------------------------------------
(* Versions                                                                 *)

VersionBound(b) == b \in Nat /\ \A p \in Plan : plans[p].version <= b

\* Finitely many plans have been published: the versions have a bound.  Plan may
\* be infinite, so this is an invariant and not a fact about finite sets.
VersionsBounded == \E b \in Nat : VersionBound(b)

\* A bounded set of versions has a greatest one, and the next is greater.
LEMMA NextVersionIsNew ==
  ASSUME plans \in [Plan -> PlanRow], VersionsBounded
  PROVE  /\ NextVersion \in Nat
         /\ \A p \in Plan : plans[p].version < NextVersion
<1> DEFINE R == OpToRel(<, Nat)
           T == {b \in Nat : VersionBound(b)}
           V == {plans[p].version : p \in Plan} \cup {0}
<1>1. PICK b \in T : \A c \in T : ~ (<<c, b>> \in R)
  <2>1. T \subseteq Nat /\ T # {}
    BY DEF VersionsBounded
  <2> HIDE DEF T, R
  <2> QED
    BY <2>1, NatLessThanWellFounded, WFMin DEF R
<1>2. b \in Nat /\ \A p \in Plan : plans[p].version \in Nat /\ plans[p].version <= b
  BY <1>1 DEF PlanRow, VersionBound
<1>3. \A c \in Nat : VersionBound(c) => ~ (c < b)
  BY <1>1, <1>2 DEF OpToRel
<1>4. b \in V
  <2>1. SUFFICES ASSUME b \notin V PROVE FALSE
    OBVIOUS
  <2>2. b - 1 \in Nat
    BY <1>2, <2>1
  <2>3. VersionBound(b - 1)
    BY <1>2, <2>1, <2>2 DEF VersionBound
  <2> QED
    BY <1>2, <1>3, <2>2, <2>3
<1>5. b \in V /\ \A p \in Plan : plans[p].version <= b
  BY <1>2, <1>4
<1> DEFINE greatest == CHOOSE v \in V : \A p \in Plan : plans[p].version <= v
<1>6. greatest \in V /\ \A p \in Plan : plans[p].version <= greatest
  BY <1>5
<1>7. NextVersion = 1 + greatest
  BY DEF NextVersion
<1> HIDE DEF greatest
<1>8. greatest \in Nat
  BY <1>2, <1>6
<1> QED
  BY <1>2, <1>6, <1>7, <1>8

-----------------------------------------------------------------------------
(* Type correctness                                                         *)

\* Writing a set of plans, confirmations or rounds keeps the tables tables.
LEMMA TableTypes ==
  ASSUME TypeOK, NEW S
  PROVE  /\ \A status \in PlanStatus : WithStatus(S, status) \in [Plan -> PlanRow]
         /\ StaleConfirmations(S) \in [Plan -> [Member -> Confirmation]]
         /\ Settle(S) \in [Plan -> Round]
<1>1. \A p \in Plan : plans[p] \in PlanRow /\ rounds[p] \in Round
  BY DEF TypeOK
<1>2. \A p \in Plan : \A status \in PlanStatus :
        [plans[p] EXCEPT !.status = status] \in PlanRow
  BY <1>1 DEF PlanRow
<1>3. \A round \in Round : [round EXCEPT !.status = "settled"] \in Round
  BY DEF Round
<1>4. StaleConfirmations(S) \in [Plan -> [Member -> Confirmation]]
  <2>1. \A p \in Plan : confirmations[p] \in [Member -> Confirmation]
    BY DEF TypeOK
  <2> QED
    BY <2>1 DEF StaleConfirmations, Confirmation
<1> QED
  BY <1>1, <1>2, <1>3, <1>4 DEF WithStatus, Settle

LEMMA TypeInit == Init => TypeOK
BY PlanAssumption
   DEF Init, TypeOK, PlanRow, PlanStatus, Round, NoRound, Confirmation, ChangeSession

\* The observer of overlaps records changes.
LEMMA OverlapTypes ==
  ASSUME TypeOK,
         (\E p \in Plan : Plans(p)) \/ (\E c \in Change : Changes(c))
  PROVE  overlaps' \in [Plan -> SUBSET Change]
<1>1. overlaps \in [Plan -> SUBSET Change] /\ OpenChanges \subseteq Change
  BY DEF TypeOK, OpenChanges
<1>2. ASSUME NEW p \in Plan, Plans(p) PROVE overlaps' \in [Plan -> SUBSET Change]
  BY <1>1, <1>2 DEF Plans, TakeSnapshot, AcceptRound, BeginReplan, AcceptReplan, ReadVersion,
                    CheckSources, Publish, RollBackRound, FailRound
<1>3. \A c \in Change : \A S : Without(c, S) \in [Plan -> SUBSET Change]
  BY <1>1 DEF Without
<1>4. ASSUME NEW c \in Change, Changes(c) PROVE overlaps' \in [Plan -> SUBSET Change]
  BY <1>1, <1>3, <1>4 DEF Changes, SelectLivePlans, CommitChange, RollBackChange
<1> QED
  BY <1>2, <1>4

\* The steps of a round before it publishes.
LEMMA TypeRound ==
  ASSUME TypeOK, NEW p \in Plan, overlaps' \in [Plan -> SUBSET Change],
         \/ TakeSnapshot(p) \/ AcceptRound(p) \/ BeginReplan(p)
         \/ RollBackRound(p) \/ FailRound(p)
  PROVE  TypeOK'
<1>1. UNCHANGED <<members, sources, plans, votes, confirmations, voting, confirming,
                  changes>>
  BY DEF TakeSnapshot, AcceptRound, BeginReplan, RollBackRound, FailRound
<1>2. rounds' \in [Plan -> Round]
  <2>1. rounds \in [Plan -> Round] /\ rounds[p] \in Round /\ sources \in SUBSET Change
    BY DEF TypeOK
  <2>2. CASE FailRound(p)
    BY <2>2, TableTypes DEF FailRound
  <2>3. ASSUME NEW round \in Round, rounds' = [rounds EXCEPT ![p] = round]
        PROVE  rounds' \in [Plan -> Round]
    BY <2>1, <2>3
  <2>4. CASE TakeSnapshot(p)
    <3>1. [rounds[p] EXCEPT !.step = "snapshot", !.content = sources] \in Round
      BY <2>1 DEF Round
    <3> QED
      BY <2>1, <2>3, <2>4, <3>1 DEF TakeSnapshot
  <2>5. CASE AcceptRound(p)
    <3>1. [rounds[p] EXCEPT !.status = "active", !.step = "idle",
                            !.fingerprint = sources] \in Round
      BY <2>1 DEF Round
    <3> QED
      BY <2>1, <2>3, <2>5, <3>1 DEF AcceptRound
  <2>6. CASE BeginReplan(p)
    <3>1. [rounds[p] EXCEPT !.step = "snapshot", !.content = sources,
                            !.targets = Live] \in Round
      BY <2>1 DEF Round, Live
    <3> QED
      BY <2>1, <2>3, <2>6, <3>1 DEF BeginReplan
  <2>7. CASE RollBackRound(p)
    <3>1. [rounds[p] EXCEPT !.step = "idle", !.targets = {}, !.version = 0] \in Round
      BY <2>1 DEF Round
    <3> QED
      BY <2>1, <2>3, <2>7, <3>1 DEF RollBackRound
  <2> QED
    BY <2>2, <2>4, <2>5, <2>6, <2>7
<1> QED
  BY <1>1, <1>2 DEF TypeOK

LEMMA TypeAcceptReplan ==
  ASSUME TypeOK, NEW p \in Plan, AcceptReplan(p)
  PROVE  TypeOK'
<1>1. rounds' \in [Plan -> Round]
  <2>1. rounds[p] \in Round /\ sources \in SUBSET Change
    BY DEF TypeOK
  <2>2. [rounds[p] EXCEPT !.status = "active", !.step = "idle",
                          !.fingerprint = sources, !.targets = {}] \in Round
    BY <2>1 DEF Round
  <2>3. Settle(ActiveRounds) \in [Plan -> Round]
    BY TableTypes
  <2> QED
    BY <2>2, <2>3 DEF AcceptReplan
<1>2. plans' \in [Plan -> PlanRow] /\ confirmations' \in [Plan -> [Member -> Confirmation]]
  BY TableTypes DEF AcceptReplan, PlanStatus
<1> QED
  BY <1>1, <1>2 DEF TypeOK, AcceptReplan

LEMMA TypePublish ==
  ASSUME TypeOK, VersionsBounded, NEW p \in Plan, overlaps' \in [Plan -> SUBSET Change],
         ReadVersion(p) \/ CheckSources(p) \/ Publish(p)
  PROVE  TypeOK'
<1>1. rounds[p] \in Round /\ plans \in [Plan -> PlanRow] /\ rounds \in [Plan -> Round]
  BY DEF TypeOK
<1>2. CASE ReadVersion(p)
  <2>1. NextVersion \in Nat
    BY <1>1, NextVersionIsNew
  <2>2. [rounds[p] EXCEPT !.version = NextVersion] \in Round
    BY <1>1, <2>1 DEF Round
  <2>3. rounds' \in [Plan -> Round]
    BY <1>1, <1>2, <2>2 DEF ReadVersion
  <2> QED
    BY <1>2, <2>3 DEF TypeOK, ReadVersion
<1>3. CASE CheckSources(p)
  <2>1. [rounds[p] EXCEPT !.step = "publish"] \in Round
    BY <1>1 DEF Round
  <2>2. rounds' \in [Plan -> Round]
    BY <1>1, <1>3, <2>1, TableTypes DEF CheckSources
  <2> QED
    BY <1>3, <2>2 DEF TypeOK, CheckSources
<1>4. CASE Publish(p)
  <2>1. [rounds[p] EXCEPT !.step = "idle", !.status = "settled"] \in Round
    BY <1>1 DEF Round
  <2>2. [rounds[p] EXCEPT !.step = "idle"] \in Round
    BY <1>1 DEF Round
  <2>3. [status |-> "PROPOSED", version |-> rounds[p].version] \in PlanRow
    BY <1>1 DEF Round, PlanRow, PlanStatus
  <2>4. rounds' \in [Plan -> Round] /\ plans' \in [Plan -> PlanRow]
    BY <1>1, <1>4, <2>1, <2>2, <2>3 DEF Publish
  <2> QED
    BY <1>4, <2>4 DEF TypeOK, Publish
<1> QED
  BY <1>2, <1>3, <1>4

LEMMA TypeChange ==
  ASSUME TypeOK, NEW c \in Change, overlaps' \in [Plan -> SUBSET Change], Changes(c)
  PROVE  TypeOK'
<1>1. changes' \in [Change -> ChangeSession]
  <2>1. Live \in SUBSET Plan /\ {} \in SUBSET Plan
    BY DEF Live
  <2>2. \A step \in {"none", "open", "done"} : \A S \in SUBSET Plan :
          [step |-> step, targets |-> S] \in ChangeSession
    BY DEF ChangeSession
  <2> QED
    BY <2>1, <2>2 DEF TypeOK, Changes, SelectLivePlans, CommitChange, RollBackChange
<1>2. CASE CommitChange(c)
  <2>1. /\ plans' \in [Plan -> PlanRow]
        /\ confirmations' \in [Plan -> [Member -> Confirmation]]
        /\ rounds' \in [Plan -> Round]
        /\ sources' \in SUBSET Change
    BY <1>2, TableTypes DEF CommitChange, PlanStatus, TypeOK
  <2> QED
    BY <1>1, <1>2, <2>1 DEF TypeOK, CommitChange
<1>3. CASE SelectLivePlans(c) \/ RollBackChange(c)
  BY <1>1, <1>3 DEF TypeOK, SelectLivePlans, RollBackChange
<1> QED
  BY <1>2, <1>3 DEF Changes

\* A ballot, and the adoption it may carry, keep the tables tables.
LEMMA ActivateTypes ==
  ASSUME TypeOK, NEW m \in Member, NEW p \in Plan, Activate(m, p)
  PROVE  plans' \in [Plan -> PlanRow]
<1>1. WithStatus(Proposed \ {p}, "SUPERSEDED") \in [Plan -> PlanRow]
  BY TableTypes DEF PlanStatus
<1>2. \A row \in PlanRow : [row EXCEPT !.status = "ACTIVE"] \in PlanRow
  BY DEF PlanRow, PlanStatus
<1> QED
  BY <1>1, <1>2 DEF Activate

LEMMA BallotTypes ==
  ASSUME TypeOK, NEW p \in Plan, NEW m \in Member
  PROVE  /\ \A decision \in Decision :
              [votes EXCEPT ![p] = [votes[p] EXCEPT ![m] = decision]]
                \in [Plan -> [Member -> Decision \cup {"none"}]]
         /\ \A decision \in Decision :
              [votes EXCEPT ![p][m] = decision]
                \in [Plan -> [Member -> Decision \cup {"none"}]]
         /\ \A decision \in Confirmation :
              [confirmations EXCEPT ![p][m] = decision]
                \in [Plan -> [Member -> Confirmation]]
BY DEF TypeOK

LEMMA TypeVote ==
  ASSUME TypeOK, NEW m \in Member, Votes(m)
  PROVE  TypeOK'
<1>1. voting' \in [Member -> Plan \cup {NoPlan}]
  BY DEF TypeOK, Votes, BeginVote, CommitVote, AdoptAlone, RollBackVote, Proposed
<1>2. voting[m] # NoPlan => voting[m] \in Plan
  BY DEF TypeOK
<1>3. ASSUME NEW p \in Plan, BeginVote(m, p) PROVE TypeOK'
  BY <1>1, <1>3 DEF TypeOK, BeginVote
<1>4. ASSUME NEW decision \in Decision, CommitVote(m, decision) PROVE TypeOK'
  <2>1. voting[m] \in Plan
    BY <1>2, <1>4 DEF CommitVote
  <2>2. plans' \in [Plan -> PlanRow]
    BY <1>4, <2>1, ActivateTypes DEF CommitVote, TypeOK
  <2>3. votes' \in [Plan -> [Member -> Decision \cup {"none"}]]
    BY <1>4, <2>1, BallotTypes DEF CommitVote
  <2> QED
    BY <1>1, <1>4, <2>2, <2>3 DEF TypeOK, CommitVote
<1>5. CASE AdoptAlone(m)
  <2>1. voting[m] \in Plan
    BY <1>2, <1>5 DEF AdoptAlone
  <2>2. plans' \in [Plan -> PlanRow]
    BY <1>5, <2>1, ActivateTypes DEF AdoptAlone
  <2>3. /\ votes' \in [Plan -> [Member -> Decision \cup {"none"}]]
        /\ confirmations' \in [Plan -> [Member -> Confirmation]]
    <3>1. "ACCEPT" \in Decision /\ "CONFIRMED" \in Confirmation
      BY DEF Decision, Confirmation
    <3> QED
      BY <1>5, <2>1, <3>1, BallotTypes DEF AdoptAlone
  <2> QED
    BY <1>1, <1>5, <2>2, <2>3 DEF TypeOK, AdoptAlone
<1>6. CASE RollBackVote(m)
  BY <1>1, <1>6 DEF TypeOK, RollBackVote
<1> QED
  BY <1>3, <1>4, <1>5, <1>6 DEF Votes

LEMMA TypeConfirm ==
  ASSUME TypeOK, NEW m \in Member, Confirms(m)
  PROVE  TypeOK'
<1>1. confirming' \in [Member -> Plan \cup {NoPlan}]
  BY DEF TypeOK, Confirms, BeginConfirm, CommitConfirm, RollBackConfirm
<1>2. ASSUME NEW decision \in {"CONFIRMED", "NEEDS_CHANGES"}, CommitConfirm(m, decision)
      PROVE  TypeOK'
  <2>1. confirming[m] \in Plan /\ decision \in Confirmation
    BY <1>2 DEF TypeOK, CommitConfirm, Confirmation
  <2>2. confirmations' \in [Plan -> [Member -> Confirmation]]
    BY <1>2, <2>1, BallotTypes DEF CommitConfirm
  <2> QED
    BY <1>1, <1>2, <2>2 DEF TypeOK, CommitConfirm
<1>3. ASSUME \/ \E p \in Plan : BeginConfirm(m, p)
             \/ RollBackConfirm(m)
      PROVE  TypeOK'
  BY <1>1, <1>3 DEF TypeOK, BeginConfirm, RollBackConfirm
<1> QED
  BY <1>2, <1>3 DEF Confirms

\* A plan gets its version when its round publishes it, and keeps it.
LEMMA VersionChanges ==
  ASSUME TypeOK, Next, NEW q \in Plan
  PROVE  \/ plans'[q].version = plans[q].version
         \/ /\ Publish(q)
            /\ rounds[q].status = "active"
            /\ plans'[q].version = rounds[q].version
            /\ rounds' = [rounds EXCEPT ![q].step = "idle", ![q].status = "settled"]
<1> DEFINE Kept == plans'[q].version = plans[q].version
           Published == /\ Publish(q)
                        /\ rounds[q].status = "active"
                        /\ plans'[q].version = rounds[q].version
                        /\ rounds' = [rounds EXCEPT ![q].step = "idle", ![q].status = "settled"]
<1>1. plans \in [Plan -> PlanRow]
  BY DEF TypeOK
<1>2. CASE UNCHANGED plans
  BY <1>2
<1>3. ASSUME NEW S, NEW status, plans' = WithStatus(S, status) PROVE Kept
  BY <1>1, <1>3 DEF WithStatus, PlanRow
<1>4. ASSUME NEW m \in Member, NEW p \in Plan, Activate(m, p) PROVE Kept
  <2>1. WithStatus(Proposed \ {p}, "SUPERSEDED") \in [Plan -> PlanRow]
    BY TableTypes DEF PlanStatus
  <2>2. WithStatus(Proposed \ {p}, "SUPERSEDED")[q].version = plans[q].version
    BY <1>1 DEF WithStatus, PlanRow
  <2> QED
    BY <1>4, <2>1, <2>2 DEF Activate, PlanRow
<1>5. ASSUME NEW p \in Plan, Publish(p) PROVE Kept \/ Published
  BY <1>1, <1>5 DEF Publish
<1>6. \A m \in Member : voting[m] # NoPlan => voting[m] \in Plan
  BY DEF TypeOK
<1> HIDE DEF Kept, Published
<1>7. UNCHANGED plans => Kept
  BY DEF Kept
<1>8. ASSUME NEW m \in Member, Votes(m) PROVE Kept
  BY <1>4, <1>6, <1>7, <1>8 DEF Votes, BeginVote, CommitVote, AdoptAlone, RollBackVote
<1>9. ASSUME NEW p \in Plan, Plans(p) PROVE Kept \/ Published
  BY <1>3, <1>5, <1>7, <1>9
     DEF Plans, TakeSnapshot, AcceptRound, BeginReplan, AcceptReplan, ReadVersion, CheckSources,
         RollBackRound, FailRound
<1>10. ASSUME NEW c \in Change, Changes(c) PROVE Kept
  BY <1>3, <1>7, <1>10 DEF Changes, SelectLivePlans, CommitChange, RollBackChange
<1>11. ASSUME ChangePlace PROVE Kept
  BY <1>3, <1>11 DEF ChangePlace
<1>12. ASSUME NEW m \in Member, Join(m) \/ Confirms(m) PROVE Kept
  BY <1>7, <1>12 DEF Join, Confirms, BeginConfirm, CommitConfirm, RollBackConfirm
<1>13. Kept \/ Published
  BY <1>8, <1>9, <1>10, <1>11, <1>12 DEF Next
<1> QED
  BY <1>13 DEF Kept, Published

\* Publishing adds the version of a round to those there are.
LEMMA VersionsStep ==
  ASSUME TypeOK, VersionsBounded, Next
  PROVE  VersionsBounded'
<1>1. PICK b : VersionBound(b)
  BY DEF VersionsBounded
<1>2. \A q \in Plan : rounds[q].version \in Nat /\ plans[q].version \in Nat
  BY DEF TypeOK, Round, PlanRow
<1>3. CASE \A q \in Plan : plans'[q].version = plans[q].version
  BY <1>3 DEF VersionsBounded, VersionBound
<1>4. ASSUME NEW p \in Plan, Publish(p) PROVE VersionsBounded'
  <2>1. \A q \in Plan : plans'[q].version \in {plans[q].version, rounds[p].version}
    <3>1. DOMAIN plans = Plan
      BY DEF TypeOK
    <3>2. CASE UNCHANGED plans
      BY <3>2
    <3>3. CASE plans' = [plans EXCEPT ![p] = [status |-> "PROPOSED",
                                              version |-> rounds[p].version]]
      BY <3>1, <3>3
    <3> QED
      BY <1>4, <3>2, <3>3 DEF Publish
  <2>2. b + rounds[p].version \in Nat
    BY <1>1, <1>2 DEF VersionBound
  <2>3. \A q \in Plan : plans'[q].version <= b + rounds[p].version
    BY <1>1, <1>2, <2>1 DEF VersionBound
  <2> QED
    BY <2>2, <2>3 DEF VersionsBounded, VersionBound
<1> QED
  BY <1>3, <1>4, VersionChanges

LEMMA TypeStep ==
  TypeOK /\ VersionsBounded /\ [Next]_vars => TypeOK' /\ VersionsBounded'
<1> SUFFICES ASSUME TypeOK, VersionsBounded, [Next]_vars
             PROVE  TypeOK' /\ VersionsBounded'
  OBVIOUS
<1>1. CASE UNCHANGED vars
  BY <1>1 DEF vars, TypeOK, VersionsBounded, VersionBound
<1>2. CASE Next
  <2>1. ASSUME NEW p \in Plan, Plans(p) PROVE TypeOK'
    <3>1. overlaps' \in [Plan -> SUBSET Change]
      BY <2>1, OverlapTypes
    <3> QED
      BY <2>1, <3>1, TypeRound, TypeAcceptReplan, TypePublish DEF Plans
  <2>2. ASSUME NEW m \in Member, Join(m) PROVE TypeOK'
    BY <2>2 DEF Join, TypeOK
  <2>3. ASSUME ChangePlace PROVE TypeOK'
    <3>1. /\ plans' \in [Plan -> PlanRow]
          /\ confirmations' \in [Plan -> [Member -> Confirmation]]
      BY <2>3, TableTypes DEF ChangePlace, PlanStatus
    <3>2. UNCHANGED <<members, sources, rounds, votes, voting, confirming, changes,
                      overlaps>>
      BY <2>3 DEF ChangePlace
    <3> QED
      BY <3>1, <3>2 DEF TypeOK
  <2>4. TypeOK'
    BY <1>2, <2>1, <2>2, <2>3, OverlapTypes, TypeChange, TypeVote, TypeConfirm DEF Next
  <2> QED
    BY <1>2, <2>4, VersionsStep
<1> QED
  BY <1>1, <1>2

LEMMA VersionsBoundedInit == Init => VersionsBounded
<1> SUFFICES ASSUME Init PROVE VersionBound(0)
  BY DEF VersionsBounded
<1> QED
  BY DEF Init, VersionBound

\* Rows and sessions keep their shape whatever rounds, changes and members do,
\* however many there are.
THEOREM TypeCorrect == Spec => []TypeOK
BY VersionsBoundedInit, TypeInit, TypeStep, PTL DEF Spec

-----------------------------------------------------------------------------
(* The inductive invariant                                                  *)

\* A vote in progress is a member's, on a plan that is PROPOSED, and alone.
VotesLock ==
  \A m \in Member : voting[m] # NoPlan =>
    /\ m \in members
    /\ plans[voting[m]].status = "PROPOSED"
    /\ \A x \in Member : voting[x] = voting[m] => x = m

VotersAreMembers ==
  \A p \in Plan : \A m \in Member : votes[p][m] # "none" => m \in members

\* A round that has not been settled has no plan, and what a change event or a
\* cascade has selected exists.
RoundsComeFirst ==
  /\ \A p \in Plan :
       /\ rounds[p].status # "settled" => plans[p].status = "none"
       /\ rounds[p].step = "snapshot" => rounds[p].status = "none"
       /\ \A q \in rounds[p].targets : plans[q].status # "none"
  /\ \A c \in Change : \A q \in changes[c].targets : plans[q].status # "none"

PlanInv ==
  /\ TypeOK
  /\ VotesLock
  /\ VotersAreMembers
  /\ RoundsComeFirst
  /\ AdoptionIsUnanimous
  /\ DecisionsFollowAdoption

\* What a step may do to the status of a plan.
StatusChange(p) ==
  \/ plans'[p].status = plans[p].status
  \/ plans[p].status = "none" /\ plans'[p].status = "PROPOSED"
  \/ plans[p].status # "none" /\ plans'[p].status = "STALE" /\ ~ Locked(p)
  \/ plans[p].status = "PROPOSED" /\ plans'[p].status = "SUPERSEDED" /\ ~ Locked(p)
  \/ /\ plans[p].status = "PROPOSED"
     /\ plans'[p].status = "ACTIVE"
     /\ \E m \in Member : voting[m] = p /\ voting' = [voting EXCEPT ![m] = NoPlan]

LEMMA WithStatusIs ==
  ASSUME TypeOK, NEW S, NEW status, NEW p \in Plan
  PROVE  /\ p \in S => WithStatus(S, status)[p].status = status
         /\ p \notin S => WithStatus(S, status)[p] = plans[p]
BY DEF WithStatus, TypeOK, PlanRow

\* A cascade, a change event or a change of places marks plans that exist and
\* that no vote holds.
LEMMA StaleChange ==
  ASSUME TypeOK, NEW S, plans' = WithStatus(S, "STALE"),
         \A q \in S : ~ Locked(q) /\ plans[q].status # "none",
         NEW p \in Plan
  PROVE  StatusChange(p)
BY WithStatusIs DEF StatusChange

LEMMA ActivateChange ==
  ASSUME TypeOK, VotesLock, NEW m \in Member, voting[m] # NoPlan,
         Activate(m, voting[m]), voting' = [voting EXCEPT ![m] = NoPlan],
         NEW p \in Plan
  PROVE  /\ StatusChange(p)
         /\ p = voting[m] => plans'[p].status = "ACTIVE"
         /\ p # voting[m] /\ p \in Proposed => plans'[p].status = "SUPERSEDED"
         /\ p # voting[m] /\ p \notin Proposed => plans'[p] = plans[p]
<1> DEFINE q == voting[m]
           others == Proposed \ {q}
<1>1. q \in Plan /\ plans[q].status = "PROPOSED"
  BY DEF TypeOK, VotesLock
<1>2. WithStatus(others, "SUPERSEDED") \in [Plan -> PlanRow]
  BY TableTypes DEF PlanStatus
<1>3. plans' = [WithStatus(others, "SUPERSEDED") EXCEPT ![q].status = "ACTIVE"]
  BY DEF Activate
<1>4. p = q => plans'[p].status = "ACTIVE"
  BY <1>2, <1>3 DEF PlanRow
<1>5. p # q => plans'[p] = WithStatus(others, "SUPERSEDED")[p]
  BY <1>2, <1>3
<1>6. p # q /\ p \in Proposed => plans'[p].status = "SUPERSEDED"
  BY <1>5, WithStatusIs
<1>7. p # q /\ p \notin Proposed => plans'[p] = plans[p]
  BY <1>5, WithStatusIs
<1>8. p \in others => ~ Locked(p)
  BY DEF Activate, Locked, LockedByOther
<1>9. StatusChange(p)
  <2>1. CASE p = q
    BY <1>1, <1>4, <2>1 DEF StatusChange
  <2>2. CASE p # q /\ p \in Proposed
    BY <1>6, <1>8, <2>2 DEF StatusChange, Proposed
  <2>3. CASE p # q /\ p \notin Proposed
    BY <1>7, <2>3 DEF StatusChange
  <2> QED
    BY <2>1, <2>2, <2>3
<1> QED
  BY <1>4, <1>6, <1>7, <1>9

LEMMA PublishChange ==
  ASSUME TypeOK, RoundsComeFirst, NEW r \in Plan, Publish(r), NEW p \in Plan
  PROVE  StatusChange(p)
<1>1. plans \in [Plan -> PlanRow]
  BY DEF TypeOK
<1>2. CASE UNCHANGED plans
  BY <1>2 DEF StatusChange
<1>3. CASE /\ rounds[r].status = "active"
           /\ plans' = [plans EXCEPT ![r] = [status |-> "PROPOSED",
                                             version |-> rounds[r].version]]
  BY <1>1, <1>3 DEF StatusChange, RoundsComeFirst
<1> QED
  BY <1>2, <1>3 DEF Publish

LEMMA StatusChanges ==
  ASSUME PlanInv, [Next]_vars, NEW p \in Plan
  PROVE  StatusChange(p)
<1> USE DEF PlanInv
<1>1. CASE UNCHANGED plans
  BY <1>1 DEF StatusChange
<1>2. ASSUME NEW m \in Member, Votes(m) PROVE StatusChange(p)
  BY <1>1, <1>2, ActivateChange DEF Votes, BeginVote, CommitVote, AdoptAlone, RollBackVote
<1>3. ASSUME NEW r \in Plan, Plans(r) PROVE StatusChange(p)
  <2>1. CASE AcceptReplan(r)
    BY <2>1, StaleChange DEF AcceptReplan, RoundsComeFirst
  <2>2. CASE Publish(r)
    BY <2>2, PublishChange
  <2> QED
    BY <1>1, <1>3, <2>1, <2>2 DEF Plans, TakeSnapshot, AcceptRound, BeginReplan,
                                  ReadVersion, CheckSources, RollBackRound, FailRound
<1>4. ASSUME NEW c \in Change, Changes(c) PROVE StatusChange(p)
  BY <1>1, <1>4, StaleChange
     DEF Changes, SelectLivePlans, CommitChange, RollBackChange, RoundsComeFirst
<1>5. CASE ChangePlace
  <2>1. \A q \in Live \ Proposed : ~ Locked(q) /\ plans[q].status # "none"
    BY PlanAssumption DEF Live, Proposed, Locked, VotesLock
  <2> QED
    BY <1>5, <2>1, StaleChange DEF ChangePlace
<1>6. ASSUME NEW m \in Member, Join(m) \/ Confirms(m) PROVE StatusChange(p)
  BY <1>1, <1>6 DEF Join, Confirms, BeginConfirm, CommitConfirm, RollBackConfirm
<1> QED
  BY <1>1, <1>2, <1>3, <1>4, <1>5, <1>6 DEF Next, vars

\* A ballot changes only in the vote of its member.
LEMMA BallotChanges ==
  ASSUME PlanInv, [Next]_vars, NEW p \in Plan, NEW m \in Member
  PROVE  votes'[p][m] = votes[p][m] \/ (voting[m] = p /\ votes'[p][m] \in Decision)
<1> USE DEF PlanInv, TypeOK
<1>1. CASE UNCHANGED votes
  BY <1>1
<1>2. ASSUME NEW x \in Member, NEW decision \in Decision, voting[x] # NoPlan,
             votes' = [votes EXCEPT ![voting[x]] = [votes[voting[x]] EXCEPT ![x] = decision]]
      PROVE  votes'[p][m] = votes[p][m] \/ (voting[m] = p /\ votes'[p][m] \in Decision)
  BY <1>2
<1>3. ASSUME NEW x \in Member, Votes(x)
      PROVE  votes'[p][m] = votes[p][m] \/ (voting[m] = p /\ votes'[p][m] \in Decision)
  BY <1>1, <1>2, <1>3 DEF Votes, BeginVote, CommitVote, AdoptAlone, RollBackVote, Decision
<1> QED
  BY <1>1, <1>3 DEF Next, vars, Plans, TakeSnapshot, AcceptRound, BeginReplan,
     AcceptReplan, ReadVersion, CheckSources, Publish, RollBackRound, FailRound, Changes,
     SelectLivePlans, CommitChange, RollBackChange, ChangePlace, Join, Confirms,
     BeginConfirm, CommitConfirm, RollBackConfirm

\* A member's session stays, ends, or takes the lock of a plan nobody holds.
LEMMA VotingChanges ==
  ASSUME PlanInv, [Next]_vars
  PROVE  \/ \A m \in Member : voting'[m] \in {voting[m], NoPlan}
         \/ \E m \in Member : \E p \in Plan : BeginVote(m, p)
<1> USE DEF PlanInv, TypeOK
<1>1. CASE UNCHANGED voting
  BY <1>1
<1>2. ASSUME NEW x \in Member, voting' = [voting EXCEPT ![x] = NoPlan]
      PROVE  \A m \in Member : voting'[m] \in {voting[m], NoPlan}
  BY <1>2
<1>3. ASSUME NEW x \in Member, Votes(x)
      PROVE  \/ \A m \in Member : voting'[m] \in {voting[m], NoPlan}
             \/ \E m \in Member : \E p \in Plan : BeginVote(m, p)
  BY <1>2, <1>3 DEF Votes, CommitVote, AdoptAlone, RollBackVote
<1> QED
  BY <1>1, <1>3 DEF Next, vars, Plans, TakeSnapshot, AcceptRound, BeginReplan,
     AcceptReplan, ReadVersion, CheckSources, Publish, RollBackRound, FailRound, Changes,
     SelectLivePlans, CommitChange, RollBackChange, ChangePlace, Join, Confirms,
     BeginConfirm, CommitConfirm, RollBackConfirm

LEMMA MembersGrow ==
  ASSUME [Next]_vars
  PROVE  members \subseteq members'
BY DEF Next, vars, Plans, TakeSnapshot, AcceptRound, BeginReplan,
     AcceptReplan, ReadVersion, CheckSources, Publish, RollBackRound, FailRound, Changes,
     SelectLivePlans, CommitChange, RollBackChange, ChangePlace, Join, Confirms,
     BeginConfirm, CommitConfirm, RollBackConfirm, Votes, BeginVote, CommitVote,
     AdoptAlone, RollBackVote

LEMMA VotesLockStep ==
  ASSUME PlanInv, [Next]_vars
  PROVE  VotesLock'
<1> USE DEF PlanInv
<1>1. voting \in [Member -> Plan \cup {NoPlan}] /\ VotesLock /\ NoPlan \notin Plan
  BY PlanAssumption DEF TypeOK
<1>2. ASSUME NEW m \in Member, voting[m] # NoPlan, voting'[m] = voting[m]
      PROVE  m \in members' /\ plans'[voting'[m]].status = "PROPOSED"
  <2>1. StatusChange(voting[m])
    BY <1>1, <1>2, StatusChanges
  <2>2. m \in members /\ plans[voting[m]].status = "PROPOSED" /\ Locked(voting[m])
    BY <1>1, <1>2 DEF VotesLock, Locked
  <2>3. \A x \in Member : voting[x] = voting[m] => voting' # [voting EXCEPT ![x] = NoPlan]
    BY <1>1, <1>2 DEF VotesLock
  <2> QED
    BY <1>2, <2>1, <2>2, <2>3, MembersGrow DEF StatusChange
<1>3. CASE \A m \in Member : voting'[m] \in {voting[m], NoPlan}
  BY <1>1, <1>2, <1>3 DEF VotesLock
<1>4. ASSUME NEW m \in Member, NEW p \in Plan, BeginVote(m, p)
      PROVE  VotesLock'
  <2>1. voting' = [voting EXCEPT ![m] = p] /\ UNCHANGED <<members, plans>>
    BY <1>4 DEF BeginVote
  <2>2. m \in members /\ plans[p].status = "PROPOSED"
    BY <1>4 DEF BeginVote, Proposed
  <2>3. \A x \in Member : voting[x] # p
    BY <1>4 DEF BeginVote, Locked
  <2> QED
    BY <1>1, <2>1, <2>2, <2>3 DEF VotesLock
<1> QED
  BY <1>3, <1>4, VotingChanges

LEMMA VotersAreMembersStep ==
  ASSUME PlanInv, [Next]_vars
  PROVE  VotersAreMembers'
<1> SUFFICES ASSUME NEW p \in Plan, NEW m \in Member, votes'[p][m] # "none"
             PROVE  m \in members'
  BY DEF VotersAreMembers
<1>1. CASE votes'[p][m] = votes[p][m]
  BY <1>1, MembersGrow DEF PlanInv, VotersAreMembers
<1>2. CASE voting[m] = p
  BY <1>2, MembersGrow, PlanAssumption DEF PlanInv, VotesLock
<1> QED
  BY <1>1, <1>2, BallotChanges

LEMMA OnlyVotesUnlock ==
  ASSUME [Next]_vars, voting' # voting
  PROVE  \E m \in Member : Votes(m)
BY DEF Next, vars, Plans, TakeSnapshot, AcceptRound, BeginReplan,
     AcceptReplan, ReadVersion, CheckSources, Publish, RollBackRound, FailRound, Changes,
     SelectLivePlans, CommitChange, RollBackChange, ChangePlace, Join, Confirms,
     BeginConfirm, CommitConfirm, RollBackConfirm

\* A step that adopts a plan counts the ballots it leaves behind.
LEMMA AdoptingStep ==
  ASSUME PlanInv, [Next]_vars, NEW p \in Plan,
         plans[p].status # "ACTIVE", plans'[p].status = "ACTIVE"
  PROVE  /\ \A m \in Founder : votes'[p][m] = "ACCEPT"
         /\ \A m \in Member : votes'[p][m] # "NEEDS_CHANGES"
<1> USE DEF PlanInv
<1>1. /\ voting \in [Member -> Plan \cup {NoPlan}]
      /\ votes \in [Plan -> [Member -> Decision \cup {"none"}]]
      /\ Founder \subseteq members /\ members \subseteq Member
  BY DEF TypeOK
<1>2. PICK x \in Member : voting[x] = p /\ voting' = [voting EXCEPT ![x] = NoPlan]
  BY StatusChanges DEF StatusChange
<1>3. voting' # voting /\ p # NoPlan
  BY <1>1, <1>2, PlanAssumption
<1>4. PICK m \in Member : Votes(m)
  BY <1>3, OnlyVotesUnlock
<1>5. ASSUME Activate(m, voting[m]), voting[m] # NoPlan, voting' = [voting EXCEPT ![m] = NoPlan]
      PROVE  voting[m] = p
  BY <1>5, ActivateChange DEF Proposed
<1>6. ASSUME NEW decision \in Decision, CommitVote(m, decision)
      PROVE  /\ \A y \in Founder : votes'[p][y] = "ACCEPT"
             /\ \A y \in Member : votes'[p][y] # "NEEDS_CHANGES"
  <2> DEFINE ballots == [votes[voting[m]] EXCEPT ![m] = decision]
  <2>1. Activate(m, voting[m]) /\ Carried(ballots)
    BY <1>6 DEF CommitVote
  <2>2. voting[m] = p
    BY <1>5, <1>6, <2>1 DEF CommitVote
  <2>3. votes'[p] = ballots
    BY <1>1, <1>6, <2>2 DEF CommitVote
  <2> HIDE DEF ballots
  <2> QED
    BY <1>1, <2>1, <2>3 DEF Carried
<1>7. CASE AdoptAlone(m)
  <2>1. voting[m] = p
    BY <1>5, <1>7 DEF AdoptAlone
  <2>2. members = {m} /\ votes' = [votes EXCEPT ![p][m] = "ACCEPT"]
    BY <1>7, <2>1 DEF AdoptAlone
  <2>3. \A y \in Member : y # m => votes[p][y] = "none"
    BY <2>2 DEF VotersAreMembers
  <2> QED
    BY <1>1, <2>2, <2>3
<1>8. CASE RollBackVote(m) \/ \E q \in Plan : BeginVote(m, q)
  BY <1>8 DEF RollBackVote, BeginVote
<1> QED
  BY <1>4, <1>6, <1>7, <1>8 DEF Votes

LEMMA AdoptionStep ==
  ASSUME PlanInv, [Next]_vars
  PROVE  AdoptionIsUnanimous'
<1> SUFFICES ASSUME NEW p \in Plan, plans'[p].status = "ACTIVE"
             PROVE  /\ \A m \in Founder : votes'[p][m] = "ACCEPT"
                    /\ \A m \in Member : votes'[p][m] # "NEEDS_CHANGES"
  BY DEF AdoptionIsUnanimous
<1>1. CASE plans[p].status = "ACTIVE"
  <2>1. \A m \in Member : voting[m] # p
    BY <1>1, PlanAssumption DEF PlanInv, VotesLock
  <2>2. \A m \in Member : votes'[p][m] = votes[p][m]
    BY <2>1, BallotChanges
  <2> QED
    BY <1>1, <2>2, PlanAssumption DEF PlanInv, AdoptionIsUnanimous
<1>2. CASE plans[p].status # "ACTIVE"
  BY <1>2, AdoptingStep
<1> QED
  BY <1>1, <1>2

\* Once decided upon a plan has been adopted, so it can only become STALE.
LEMMA DecisionChanges ==
  ASSUME PlanInv, [Next]_vars, NEW p \in Plan, NEW m \in Member
  PROVE  /\ \/ confirming'[m] \in {confirming[m], NoPlan}
            \/ confirming'[m] # p
            \/ plans[p].status = "ACTIVE"
         /\ \/ confirmations'[p][m] = confirmations[p][m]
            \/ confirmations[p][m] # "PENDING"
            \/ confirmations'[p][m] = "PENDING"
            \/ confirming[m] = p
            \/ voting[m] = p /\ plans'[p].status = "ACTIVE"
<1> USE DEF PlanInv
<1>1. /\ confirming \in [Member -> Plan \cup {NoPlan}]
      /\ confirmations \in [Plan -> [Member -> Confirmation]]
      /\ voting \in [Member -> Plan \cup {NoPlan}]
  BY DEF TypeOK
<1> DEFINE Session == \/ confirming'[m] \in {confirming[m], NoPlan}
                      \/ confirming'[m] # p
                      \/ plans[p].status = "ACTIVE"
           Table == \/ confirmations'[p][m] = confirmations[p][m]
                    \/ confirmations[p][m] # "PENDING"
                    \/ confirmations'[p][m] = "PENDING"
                    \/ confirming[m] = p
                    \/ voting[m] = p /\ plans'[p].status = "ACTIVE"
<1>2. UNCHANGED confirming => Session
  OBVIOUS
<1>3. UNCHANGED confirmations => Table
  OBVIOUS
<1>4. \A S : confirmations' = StaleConfirmations(S) => Table
  BY DEF StaleConfirmations
<1>5. ASSUME NEW x \in Member, Confirms(x) PROVE Session /\ Table
  BY <1>1, <1>5 DEF Confirms, BeginConfirm, CommitConfirm, RollBackConfirm
<1>6. ASSUME NEW x \in Member, Votes(x) PROVE Session /\ Table
  <2>1. CASE AdoptAlone(x)
    <3>1. voting[x] = p => plans'[p].status = "ACTIVE"
      BY <2>1, ActivateChange DEF AdoptAlone
    <3> QED
      BY <1>1, <1>2, <2>1, <3>1 DEF AdoptAlone
  <2> QED
    BY <1>2, <1>3, <1>6, <2>1 DEF Votes, BeginVote, CommitVote, RollBackVote
<1> HIDE DEF Session, Table
<1>7. ASSUME NEW r \in Plan, Plans(r) PROVE Session /\ Table
  BY <1>2, <1>3, <1>4, <1>7 DEF Plans, TakeSnapshot, AcceptRound, BeginReplan,
     AcceptReplan, ReadVersion, CheckSources, Publish, RollBackRound, FailRound
<1>8. ASSUME NEW c \in Change, Changes(c) PROVE Session /\ Table
  BY <1>2, <1>3, <1>4, <1>8 DEF Changes, SelectLivePlans, CommitChange, RollBackChange
<1>9. Session /\ Table
  BY <1>2, <1>3, <1>4, <1>5, <1>6, <1>7, <1>8 DEF Next, vars, ChangePlace, Join
<1> QED
  BY <1>9 DEF Session, Table

LEMMA DecisionStep ==
  ASSUME PlanInv, [Next]_vars
  PROVE  DecisionsFollowAdoption'
<1> USE DEF PlanInv
<1> SUFFICES ASSUME NEW p \in Plan, NEW m \in Member,
                    confirmations'[p][m] # "PENDING" \/ confirming'[m] = p
             PROVE  plans'[p].status \in {"ACTIVE", "STALE"}
  BY DEF DecisionsFollowAdoption
<1>1. CASE voting[m] = p /\ plans'[p].status = "ACTIVE"
  BY <1>1
<1>2. ASSUME plans[p].status \in {"ACTIVE", "STALE"}
      PROVE  plans'[p].status \in {"ACTIVE", "STALE"}
  BY <1>2, StatusChanges DEF StatusChange
<1>3. CASE confirming[m] = p \/ confirmations[p][m] # "PENDING"
  BY <1>2, <1>3 DEF DecisionsFollowAdoption
<1> QED
  BY <1>1, <1>2, <1>3, DecisionChanges, PlanAssumption DEF DecisionsFollowAdoption

LEMMA SettleIs ==
  ASSUME TypeOK, NEW S, NEW p \in Plan
  PROVE  /\ p \in S => Settle(S)[p] = [rounds[p] EXCEPT !.status = "settled"]
         /\ p \notin S => Settle(S)[p] = rounds[p]
BY DEF Settle

\* What a step does to a round: it is settled for good, opens a snapshot only
\* before it is accepted, and selects only live plans.
RoundChange(p) ==
  /\ rounds[p].status = "settled" => rounds'[p].status = "settled"
  /\ rounds'[p].step = "snapshot" =>
       rounds'[p].status = "none" \/ (rounds[p].step = "snapshot"
                                        /\ rounds[p].status = rounds'[p].status)
  /\ rounds'[p].targets \in {rounds[p].targets, {}, Live}

LEMMA RoundChanges ==
  ASSUME PlanInv, [Next]_vars, NEW p \in Plan
  PROVE  RoundChange(p)
<1> USE DEF PlanInv
<1>1. rounds \in [Plan -> Round] /\ rounds[p] \in Round
  BY DEF TypeOK
<1>2. CASE rounds'[p] = rounds[p]
  BY <1>2 DEF RoundChange
<1>3. CASE /\ rounds[p].step # "snapshot"
           /\ rounds'[p] = [rounds[p] EXCEPT !.status = "settled"]
  BY <1>1, <1>3 DEF RoundChange, Round
<1>4. ASSUME NEW S, S \subseteq ActiveRounds, rounds' = Settle(S)
      PROVE  RoundChange(p)
  <2>1. p \in S => rounds[p].step # "snapshot"
    BY <1>4 DEF ActiveRounds, RoundsComeFirst
  <2> QED
    BY <1>2, <1>3, <1>4, <2>1, SettleIs
<1>5. ASSUME NEW r \in Plan, Plans(r) PROVE RoundChange(p)
  <2>1. CASE TakeSnapshot(r) \/ AcceptRound(r) \/ BeginReplan(r) \/ RollBackRound(r)
    <3>1. p # r => rounds'[p] = rounds[p]
      BY <1>1, <2>1 DEF TakeSnapshot, AcceptRound, BeginReplan, RollBackRound
    <3>2. CASE p = r /\ TakeSnapshot(r)
      BY <1>1, <3>2 DEF TakeSnapshot, RoundChange, Round
    <3>3. CASE p = r /\ AcceptRound(r)
      BY <1>1, <3>3 DEF AcceptRound, RoundChange, Round, RoundsComeFirst
    <3>4. CASE p = r /\ BeginReplan(r)
      BY <1>1, <3>4 DEF BeginReplan, RoundChange, Round
    <3>5. CASE p = r /\ RollBackRound(r)
      BY <1>1, <3>5 DEF RollBackRound, RoundChange, Round
    <3> QED
      BY <1>2, <2>1, <3>1, <3>2, <3>3, <3>4, <3>5
  <2>2. CASE AcceptReplan(r)
    <3> DEFINE accepted == [rounds[r] EXCEPT !.status = "active", !.step = "idle",
                                             !.fingerprint = sources, !.targets = {}]
    <3>1. rounds' = [Settle(ActiveRounds) EXCEPT ![r] = accepted]
      BY <2>2 DEF AcceptReplan
    <3>2. rounds[r].step = "snapshot" /\ rounds[r].status = "none"
      BY <2>2 DEF AcceptReplan, RoundsComeFirst
    <3>3. Settle(ActiveRounds) \in [Plan -> Round]
      BY TableTypes
    <3>4. CASE p = r
      <4>1. rounds'[p] = accepted
        BY <3>1, <3>3, <3>4
      <4> QED
        BY <1>1, <3>2, <3>4, <4>1 DEF RoundChange, Round
    <3>5. CASE p # r
      <4>1. rounds'[p] = Settle(ActiveRounds)[p]
        BY <3>1, <3>3, <3>5
      <4>2. p \in ActiveRounds => rounds[p].step # "snapshot"
        BY DEF ActiveRounds, RoundsComeFirst
      <4> QED
        BY <1>2, <1>3, <4>1, <4>2, SettleIs
    <3> QED
      BY <3>4, <3>5
  <2>3. CASE CheckSources(r)
    <3>1. CASE rounds' = Settle({r})
      BY <1>4, <2>3, <3>1 DEF CheckSources, ActiveRounds
    <3>2. CASE rounds' = [rounds EXCEPT ![r].step = "publish"]
      <4>1. CASE p = r
        BY <1>1, <3>2, <4>1 DEF RoundChange, Round
      <4>2. CASE p # r
        BY <1>1, <1>2, <3>2, <4>2
      <4> QED
        BY <4>1, <4>2
    <3> QED
      BY <2>3, <3>1, <3>2 DEF CheckSources
  <2>4. CASE Publish(r)
    <3>1. CASE p = r
      BY <1>1, <2>4, <3>1 DEF Publish, RoundChange, Round
    <3>2. CASE p # r
      BY <1>1, <1>2, <2>4, <3>2 DEF Publish
    <3> QED
      BY <3>1, <3>2
  <2>5. CASE FailRound(r)
    BY <1>4, <2>5 DEF FailRound, ActiveRounds
  <2>6. CASE ReadVersion(r)
    <3>1. CASE p = r
      BY <1>1, <2>6, <3>1 DEF ReadVersion, RoundChange, Round
    <3>2. CASE p # r
      BY <1>1, <1>2, <2>6, <3>2 DEF ReadVersion
    <3> QED
      BY <3>1, <3>2
  <2> QED
    BY <1>5, <2>1, <2>2, <2>3, <2>4, <2>5, <2>6 DEF Plans
<1>6. ASSUME NEW c \in Change, Changes(c) PROVE RoundChange(p)
  <2>1. {q \in ActiveRounds : Kind[q] = "RESEARCH"} \subseteq ActiveRounds
    OBVIOUS
  <2> QED
    BY <1>2, <1>4, <1>6, <2>1 DEF Changes, SelectLivePlans, CommitChange, RollBackChange
<1> QED
  BY <1>2, <1>5, <1>6 DEF Next, vars, ChangePlace, Join, Votes, BeginVote, CommitVote,
     AdoptAlone, RollBackVote, Confirms, BeginConfirm, CommitConfirm, RollBackConfirm

\* A plan comes into being only as its round is settled.
LEMMA PublishedIsSettled ==
  ASSUME PlanInv, [Next]_vars, NEW p \in Plan,
         plans[p].status = "none", plans'[p].status # "none"
  PROVE  rounds'[p].status = "settled" /\ Publish(p)
<1> USE DEF PlanInv
<1>1. plans \in [Plan -> PlanRow] /\ rounds \in [Plan -> Round] /\ rounds[p] \in Round
  BY DEF TypeOK
<1>2. plans'[p].status = "PROPOSED"
  BY StatusChanges DEF StatusChange
<1>3. ~ UNCHANGED plans
  BY <1>2
<1>4. ASSUME NEW S, plans' = WithStatus(S, "STALE") PROVE FALSE
  BY <1>2, <1>4, WithStatusIs
<1>5. ASSUME NEW m \in Member, Votes(m) PROVE FALSE
  BY <1>2, <1>3, <1>5, ActivateChange DEF Votes, BeginVote, CommitVote, AdoptAlone,
                                        RollBackVote, Proposed
<1>6. PICK r \in Plan : Publish(r)
  BY <1>3, <1>4, <1>5 DEF Next, vars, Plans, TakeSnapshot, AcceptRound, BeginReplan,
     AcceptReplan, ReadVersion, CheckSources, RollBackRound, FailRound, Changes,
     SelectLivePlans, CommitChange, RollBackChange, ChangePlace, Join, Confirms,
     BeginConfirm, CommitConfirm, RollBackConfirm
<1>7. r = p
  BY <1>1, <1>2, <1>3, <1>6 DEF Publish
<1>8. rounds' = [rounds EXCEPT ![p].step = "idle", ![p].status = "settled"]
  BY <1>3, <1>6, <1>7 DEF Publish
<1> QED
  BY <1>1, <1>6, <1>7, <1>8 DEF Round

LEMMA RoundsStep ==
  ASSUME PlanInv, [Next]_vars
  PROVE  RoundsComeFirst'
<1> USE DEF PlanInv
<1>1. ASSUME NEW q \in Plan, plans[q].status # "none" PROVE plans'[q].status # "none"
  BY <1>1, StatusChanges DEF StatusChange
<1>2. ASSUME NEW p \in Plan, rounds'[p].status # "settled" PROVE plans'[p].status = "none"
  BY <1>2, RoundChanges, PublishedIsSettled DEF RoundChange, RoundsComeFirst
<1>3. ASSUME NEW p \in Plan, rounds'[p].step = "snapshot" PROVE rounds'[p].status = "none"
  BY <1>3, RoundChanges DEF RoundChange, RoundsComeFirst
<1>4. ASSUME NEW p \in Plan, NEW q \in rounds'[p].targets PROVE plans'[q].status # "none"
  <2>1. q \in rounds[p].targets \/ q \in Live
    BY <1>4, RoundChanges DEF RoundChange
  <2>2. q \in Plan /\ plans[q].status # "none"
    BY <2>1 DEF RoundsComeFirst, Live, TypeOK, Round
  <2> QED
    BY <1>1, <2>2
<1>5. ASSUME NEW c \in Change, NEW q \in changes'[c].targets PROVE plans'[q].status # "none"
  <2>1. changes \in [Change -> ChangeSession]
    BY DEF TypeOK
  <2>2. ASSUME NEW d \in Change, Changes(d)
        PROVE  changes'[c].targets \in {changes[c].targets, {}, Live}
    BY <2>1, <2>2 DEF Changes, SelectLivePlans, CommitChange, RollBackChange
  <2>3. changes'[c].targets \in {changes[c].targets, {}, Live}
    BY <2>2 DEF Next, vars, Plans, TakeSnapshot, AcceptRound, BeginReplan,
       AcceptReplan, ReadVersion, CheckSources, Publish, RollBackRound, FailRound, ChangePlace,
       Join, Votes, BeginVote, CommitVote, AdoptAlone, RollBackVote, Confirms,
       BeginConfirm, CommitConfirm, RollBackConfirm
  <2>4. q \in Plan /\ plans[q].status # "none"
    BY <1>5, <2>1, <2>3 DEF RoundsComeFirst, Live, ChangeSession
  <2> QED
    BY <1>1, <2>4
<1> QED
  BY <1>2, <1>3, <1>4, <1>5 DEF RoundsComeFirst

LEMMA PlanInvInit == Init => PlanInv
<1> SUFFICES ASSUME Init PROVE PlanInv
  OBVIOUS
<1>1. VotesLock /\ VotersAreMembers
  BY DEF Init, VotesLock, VotersAreMembers
<1>2. RoundsComeFirst
  BY DEF Init, RoundsComeFirst, NoRound
<1>3. AdoptionIsUnanimous /\ DecisionsFollowAdoption
  BY PlanAssumption DEF Init, AdoptionIsUnanimous, DecisionsFollowAdoption
<1> QED
  BY <1>1, <1>2, <1>3, TypeInit DEF PlanInv

LEMMA PlanInvStep == PlanInv /\ TypeOK' /\ [Next]_vars => PlanInv'
<1> SUFFICES ASSUME PlanInv, TypeOK', [Next]_vars PROVE PlanInv'
  OBVIOUS
<1>1. VotesLock' /\ VotersAreMembers' /\ RoundsComeFirst'
  BY VotesLockStep, VotersAreMembersStep, RoundsStep
<1>2. AdoptionIsUnanimous' /\ DecisionsFollowAdoption'
  BY AdoptionStep, DecisionStep
<1> QED
  BY <1>1, <1>2 DEF PlanInv

\* The inductive invariant of the plans.
THEOREM PlanInvariant == Spec => []PlanInv
BY PlanInvInit, PlanInvStep, TypeCorrect, PTL DEF Spec

-----------------------------------------------------------------------------
(* The safety invariants                                                    *)

\* However votes, joins, cascades and adoptions overlap, an adopted plan has
\* every founder's ACCEPT and nobody's NEEDS_CHANGES.
THEOREM UnanimousAdoption == Spec => []AdoptionIsUnanimous
<1>1. PlanInv => AdoptionIsUnanimous
  BY DEF PlanInv
<1> QED
  BY <1>1, PlanInvariant, PTL

\* A decision is recorded only on a plan that was adopted, even when the
\* cascade has made it STALE between the handler's read and its write.
THEOREM DecisionsAfterAdoption == Spec => []DecisionsFollowAdoption
<1>1. PlanInv => DecisionsFollowAdoption
  BY DEF PlanInv
<1> QED
  BY <1>1, PlanInvariant, PTL

-----------------------------------------------------------------------------
(* The version read early stays free                                        *)

\* The steps of a round touch its own row, and settle others.
LEMMA OtherRounds ==
  ASSUME TypeOK, NEW p \in Plan, Plans(p), NEW q \in Plan, q # p
  PROVE  rounds'[q] \in {rounds[q], [rounds[q] EXCEPT !.status = "settled"]}
<1>1. rounds \in [Plan -> Round]
  BY DEF TypeOK
<1>2. \A S : /\ Settle(S)[q] \in {rounds[q], [rounds[q] EXCEPT !.status = "settled"]}
             /\ Settle(S) \in [Plan -> Round]
  BY TableTypes DEF Settle
<1>3. CASE AcceptReplan(p)
  <2>1. \A round : [Settle(ActiveRounds) EXCEPT ![p] = round][q] = Settle(ActiveRounds)[q]
    BY <1>2
  <2> QED
    BY <1>2, <1>3, <2>1 DEF AcceptReplan
<1> QED
  BY <1>1, <1>2, <1>3 DEF Plans, TakeSnapshot, AcceptRound, BeginReplan, ReadVersion,
                          CheckSources, Publish, RollBackRound, FailRound

\* What a step does to the run of a round: the trip has one active run, and a
\* version is read only by a round whose run is active.
RunChange(p) ==
  /\ rounds'[p].status = "none" =>
       /\ rounds[p].status = "none"
       /\ rounds'[p].version \in {rounds[p].version, 0}
  /\ rounds'[p].status = "active" =>
       \/ /\ rounds[p].status = "active"
          /\ rounds'[p].version \in {rounds[p].version, 0} \/ ReadVersion(p)
       \/ /\ AcceptRound(p) \/ AcceptReplan(p)
          /\ rounds[p].status = "none"
          /\ rounds'[p].version = rounds[p].version

LEMMA OwnRun ==
  ASSUME PlanInv, NEW p \in Plan, Plans(p)
  PROVE  RunChange(p)
<1> USE DEF PlanInv
<1>1. rounds \in [Plan -> Round] /\ rounds[p] \in Round
  BY DEF TypeOK
<1>2. rounds[p].step = "snapshot" => rounds[p].status = "none"
  BY DEF RoundsComeFirst
<1>3. CASE TakeSnapshot(p) \/ BeginReplan(p) \/ RollBackRound(p) \/ Publish(p)
  BY <1>1, <1>3 DEF TakeSnapshot, BeginReplan, RollBackRound, Publish, RunChange, Round
<1>4. CASE AcceptRound(p)
  <2>1. /\ rounds'[p].status = "active" /\ rounds'[p].version = rounds[p].version
        /\ rounds[p].status = "none"
    BY <1>1, <1>2, <1>4 DEF AcceptRound, Round
  <2> QED
    BY <1>4, <2>1 DEF RunChange
<1>5. CASE AcceptReplan(p)
  <2>1. Settle(ActiveRounds) \in [Plan -> Round]
    BY TableTypes
  <2>2. rounds'[p] = [rounds[p] EXCEPT !.status = "active", !.step = "idle",
                                       !.fingerprint = sources, !.targets = {}]
    BY <1>5, <2>1 DEF AcceptReplan
  <2>3. rounds[p].status = "none"
    BY <1>2, <1>5 DEF AcceptReplan
  <2>4. rounds'[p].status = "active" /\ rounds'[p].version = rounds[p].version
    BY <1>1, <2>2 DEF Round
  <2> QED
    BY <1>5, <2>3, <2>4 DEF RunChange
<1>6. CASE ReadVersion(p)
  <2>1. rounds'[p].status = "active" /\ rounds[p].status = "active"
    BY <1>1, <1>6 DEF ReadVersion, Round
  <2> QED
    BY <1>6, <2>1 DEF RunChange
<1>7. CASE CheckSources(p) \/ FailRound(p)
  <2>1. Settle({p})[p] = [rounds[p] EXCEPT !.status = "settled"]
    BY SettleIs
  <2> QED
    BY <1>1, <1>7, <2>1 DEF CheckSources, FailRound, RunChange, Round
<1> QED
  BY <1>3, <1>4, <1>5, <1>6, <1>7 DEF Plans

LEMMA RunChanges ==
  ASSUME PlanInv, Next, NEW p \in Plan
  PROVE  RunChange(p)
<1> USE DEF PlanInv
<1>1. rounds[p] \in Round
  BY DEF TypeOK
<1>2. CASE rounds'[p] \in {rounds[p], [rounds[p] EXCEPT !.status = "settled"]}
  BY <1>1, <1>2 DEF RunChange, Round
<1>3. ASSUME NEW r \in Plan, Plans(r) PROVE RunChange(p)
  BY <1>2, <1>3, OwnRun, OtherRounds
<1>4. ASSUME NEW c \in Change, Changes(c) PROVE RunChange(p)
  <2>1. \A S : Settle(S)[p] \in {rounds[p], [rounds[p] EXCEPT !.status = "settled"]}
    BY DEF Settle
  <2> QED
    BY <1>2, <1>4, <2>1 DEF Changes, SelectLivePlans, CommitChange, RollBackChange
<1> QED
  BY <1>2, <1>3, <1>4 DEF Next, ChangePlace, Join, Votes, BeginVote, CommitVote,
     AdoptAlone, RollBackVote, Confirms, BeginConfirm, CommitConfirm, RollBackConfirm

\* A trip has at most one active planning run: a round is accepted when there is
\* none, or settles the others.
OneActiveRound == \A p, q \in ActiveRounds : p = q

LEMMA OneActiveRoundStep ==
  ASSUME PlanInv, OneActiveRound, Next
  PROVE  OneActiveRound'
<1> SUFFICES ASSUME NEW p \in Plan, NEW q \in Plan, p # q,
                    rounds'[p].status = "active", rounds'[q].status = "active"
             PROVE  FALSE
  BY DEF OneActiveRound, ActiveRounds
<1>1. rounds \in [Plan -> Round] /\ TypeOK
  BY DEF PlanInv, TypeOK
<1>2. ASSUME NEW x \in Plan, NEW y \in Plan, x # y, AcceptRound(x), rounds'[y].status = "active"
      PROVE  FALSE
  BY <1>1, <1>2 DEF AcceptRound, ActiveRounds
<1>3. ASSUME NEW x \in Plan, NEW y \in Plan, x # y, AcceptReplan(x), rounds'[y].status = "active"
      PROVE  FALSE
  <2>1. rounds'[y] = Settle(ActiveRounds)[y]
    BY <1>1, <1>3, TableTypes DEF AcceptReplan
  <2>2. rounds[y] \in Round
    BY <1>1
  <2>3. CASE y \in ActiveRounds
    <3>1. rounds'[y] = [rounds[y] EXCEPT !.status = "settled"]
      BY <1>1, <2>1, <2>3, SettleIs
    <3> QED
      BY <1>3, <2>2, <3>1 DEF Round
  <2>4. CASE y \notin ActiveRounds
    <3>1. rounds'[y] = rounds[y]
      BY <1>1, <2>1, <2>4, SettleIs
    <3> QED
      BY <1>3, <2>4, <3>1 DEF ActiveRounds
  <2> QED
    BY <2>3, <2>4
<1>4. rounds[p].status = "active" /\ rounds[q].status = "active"
  BY <1>2, <1>3, RunChanges DEF RunChange
<1> QED
  BY <1>4 DEF OneActiveRound, ActiveRounds

\* A round reads no version before it is accepted.
UnreadBefore == \A p \in Plan : rounds[p].status = "none" => rounds[p].version = 0

FreeInv ==
  /\ PlanInv
  /\ VersionsBounded
  /\ OneActiveRound
  /\ UnreadBefore
  /\ VersionStaysFree

LEMMA FreeVersionStep ==
  ASSUME FreeInv, Next
  PROVE  VersionStaysFree'
<1> USE DEF FreeInv
<1> SUFFICES ASSUME NEW p \in Plan, rounds'[p].status = "active", rounds'[p].version # 0,
                    NEW q \in Plan
             PROVE  plans'[q].version < rounds'[p].version
  BY DEF VersionStaysFree, ActiveRounds
<1>1. rounds \in [Plan -> Round] /\ plans \in [Plan -> PlanRow] /\ TypeOK
  BY DEF PlanInv, TypeOK
<1>2. CASE ReadVersion(p)
  <2>1. rounds'[p].version = NextVersion /\ UNCHANGED plans
    BY <1>1, <1>2 DEF ReadVersion, Round
  <2> QED
    BY <1>1, <2>1, NextVersionIsNew
<1>3. CASE rounds[p].status = "active" /\ rounds'[p].version = rounds[p].version
  <2>1. plans[q].version < rounds'[p].version
    BY <1>3 DEF VersionStaysFree, ActiveRounds
  <2>2. ASSUME rounds[q].status = "active",
               rounds' = [rounds EXCEPT ![q].step = "idle", ![q].status = "settled"]
        PROVE  FALSE
    <3>1. p = q
      BY <1>3, <2>2 DEF OneActiveRound, ActiveRounds
    <3> QED
      BY <1>1, <2>2, <3>1 DEF Round
  <2> QED
    BY <1>1, <2>1, <2>2, VersionChanges
<1> QED
  BY <1>2, <1>3, RunChanges DEF RunChange, UnreadBefore

LEMMA FreeInvStep == FreeInv /\ PlanInv' /\ VersionsBounded' /\ [Next]_vars => FreeInv'
<1> SUFFICES ASSUME FreeInv, PlanInv', VersionsBounded', [Next]_vars PROVE FreeInv'
  OBVIOUS
<1>1. CASE UNCHANGED vars
  BY <1>1 DEF FreeInv, vars, OneActiveRound, UnreadBefore, VersionStaysFree, ActiveRounds
<1>2. CASE Next
  <2>1. OneActiveRound' /\ VersionStaysFree'
    BY <1>2, OneActiveRoundStep, FreeVersionStep DEF FreeInv
  <2>2. UnreadBefore'
    BY <1>2, RunChanges DEF FreeInv, UnreadBefore, RunChange
  <2> QED
    BY <2>1, <2>2 DEF FreeInv
<1> QED
  BY <1>1, <1>2

\* The version a round has read before its model works is above every plan's for
\* as long as its run is active, so the insert does not rest on the unique index:
\* only an active run publishes, and there is at most one.
THEOREM VersionsStayFree == Spec => []VersionStaysFree
<1>1. Init => FreeInv
  <2> SUFFICES ASSUME Init PROVE FreeInv
    OBVIOUS
  <2>1. VersionsBounded
    BY VersionsBoundedInit
  <2>2. OneActiveRound /\ UnreadBefore /\ VersionStaysFree
    BY DEF Init, OneActiveRound, UnreadBefore, VersionStaysFree, ActiveRounds, NoRound
  <2> QED
    BY <2>1, <2>2, PlanInvInit DEF FreeInv
<1>2. FreeInv => TypeOK /\ VersionsBounded /\ VersionStaysFree
  BY DEF FreeInv, PlanInv
<1> QED
  BY <1>1, <1>2, FreeInvStep, TypeStep, PlanInvariant, PTL DEF Spec

-----------------------------------------------------------------------------
(* What a plan may have missed                                              *)

SourcesAreDone == sources = {c \in Change : changes[c].step = "done"}

\* What the plan of a round would miss, as far as it has been read, overlapped:
\* while its transaction is open, while its run is active, once its plan is live.
\* An open cascade that overlapped nothing of a live plan will mark it.
OpenRoundSees(p) ==
  rounds[p].step # "idle" /\ rounds[p].status # "settled" =>
    /\ sources \ rounds[p].content \subseteq overlaps[p]
    /\ OpenChanges \subseteq overlaps[p]

FingerprintSees(p) ==
  rounds[p].status = "active" =>
    /\ rounds[p].fingerprint \subseteq sources
    /\ rounds[p].fingerprint \ rounds[p].content \subseteq overlaps[p]

LivePlanSees(p) ==
  p \in Live =>
    /\ sources \ rounds[p].content \subseteq overlaps[p]
    /\ \A c \in OpenChanges : p \in changes[c].targets \/ c \in overlaps[p]

Sees(p) == OpenRoundSees(p) /\ FingerprintSees(p) /\ LivePlanSees(p)

OverlapInv ==
  /\ PlanInv
  /\ SourcesAreDone
  /\ \A p \in Plan : Sees(p)

LEMMA LiveChanges ==
  ASSUME PlanInv, [Next]_vars, NEW p \in Live'
  PROVE  p \in Live \/ Publish(p)
<1>1. p \in Plan /\ plans'[p].status \in {"PROPOSED", "ACTIVE"}
  BY DEF Live
<1>2. CASE plans[p].status = "none"
  BY <1>1, <1>2, PublishedIsSettled
<1>3. CASE plans[p].status # "none"
  BY <1>1, <1>3, StatusChanges DEF StatusChange, Live
<1> QED
  BY <1>2, <1>3

LEMMA SourcesDoneStep ==
  ASSUME PlanInv, SourcesAreDone, [Next]_vars
  PROVE  SourcesAreDone'
<1>1. changes \in [Change -> ChangeSession]
  BY DEF PlanInv, TypeOK
<1>2. CASE UNCHANGED <<sources, changes>>
  BY <1>2 DEF SourcesAreDone
<1>3. ASSUME NEW c \in Change, Changes(c) PROVE SourcesAreDone'
  <2>1. CASE SelectLivePlans(c)
    BY <1>1, <2>1 DEF SelectLivePlans, SourcesAreDone
  <2>2. CASE CommitChange(c)
    BY <1>1, <2>2 DEF CommitChange, SourcesAreDone
  <2>3. CASE RollBackChange(c)
    BY <1>1, <2>3 DEF RollBackChange, SourcesAreDone
  <2> QED
    BY <1>3, <2>1, <2>2, <2>3 DEF Changes
<1> QED
  BY <1>2, <1>3 DEF Next, vars, Plans, TakeSnapshot, AcceptRound, BeginReplan,
     AcceptReplan, ReadVersion, CheckSources, Publish, RollBackRound, FailRound,
     ChangePlace, Join, Votes, BeginVote, CommitVote, AdoptAlone, RollBackVote, Confirms,
     BeginConfirm, CommitConfirm, RollBackConfirm

\* A step that at most settles the run of a round and takes its plan off the vote.
LEMMA SeesKept ==
  ASSUME PlanInv, NEW p \in Plan, Sees(p), UNCHANGED <<sources, changes>>,
         overlaps'[p] = overlaps[p],
         rounds'[p] \in {rounds[p], [rounds[p] EXCEPT !.status = "settled"]},
         p \in Live' => p \in Live
  PROVE  Sees(p)'
<1>1. rounds[p] \in Round
  BY DEF PlanInv, TypeOK
<1>2. /\ rounds'[p].step = rounds[p].step
      /\ rounds'[p].content = rounds[p].content
      /\ rounds'[p].fingerprint = rounds[p].fingerprint
      /\ rounds'[p].status \in {rounds[p].status, "settled"}
  BY <1>1 DEF Round
<1>3. OpenChanges' = OpenChanges
  BY DEF OpenChanges
<1>4. OpenRoundSees(p)'
  BY <1>2, <1>3 DEF Sees, OpenRoundSees
<1>5. FingerprintSees(p)'
  BY <1>2 DEF Sees, FingerprintSees
<1>6. LivePlanSees(p)'
  BY <1>2, <1>3 DEF Sees, LivePlanSees
<1> QED
  BY <1>4, <1>5, <1>6 DEF Sees

\* The steps of a round and what the observer holds of it.
LEMMA SeesOwnRound ==
  ASSUME OverlapInv, [Next]_vars, NEW p \in Plan, Plans(p)
  PROVE  Sees(p)'
<1> USE DEF OverlapInv, PlanInv
<1>1. /\ rounds \in [Plan -> Round] /\ rounds[p] \in Round
      /\ overlaps \in [Plan -> SUBSET Change]
  BY DEF TypeOK
<1>2. p \in Live => rounds[p].status = "settled"
  BY DEF RoundsComeFirst, Live
<1>3. p \in Live' => p \in Live \/ Publish(p)
  BY LiveChanges
<1>4. OpenChanges' = OpenChanges /\ UNCHANGED sources
  BY DEF OpenChanges, Plans, TakeSnapshot, AcceptRound, BeginReplan, AcceptReplan,
         ReadVersion, CheckSources, Publish, RollBackRound, FailRound
<1>5. ASSUME rounds[p].status # "settled", ~ Publish(p) PROVE LivePlanSees(p)'
  BY <1>2, <1>3, <1>5 DEF LivePlanSees
<1>6. CASE TakeSnapshot(p) \/ BeginReplan(p)
  <2>1. /\ rounds'[p].step = "snapshot" /\ rounds[p].status = "none"
        /\ rounds'[p].content = sources /\ rounds'[p].status = "none"
        /\ overlaps'[p] = OpenChanges
    BY <1>1, <1>6 DEF TakeSnapshot, BeginReplan, Round
  <2>2. OpenRoundSees(p)' /\ FingerprintSees(p)'
    BY <1>4, <2>1 DEF OpenRoundSees, FingerprintSees
  <2>3. ~ Publish(p)
    BY <1>1, <2>1 DEF Publish, Round
  <2> QED
    BY <1>5, <2>1, <2>2, <2>3 DEF Sees
<1>7. CASE AcceptRound(p) \/ AcceptReplan(p)
  <2>1. rounds[p].step = "snapshot" /\ overlaps' = overlaps
    BY <1>7 DEF AcceptRound, AcceptReplan
  <2>2. rounds[p].status = "none" /\ ~ Publish(p)
    BY <2>1 DEF RoundsComeFirst, Publish
  <2>3. /\ rounds'[p].step = "idle"
        /\ rounds'[p].content = rounds[p].content
        /\ rounds'[p].fingerprint = sources
    <3>1. CASE AcceptRound(p)
      BY <1>1, <3>1 DEF AcceptRound, Round
    <3>2. CASE AcceptReplan(p)
      <4>1. Settle(ActiveRounds) \in [Plan -> Round]
        BY TableTypes
      <4>2. rounds'[p] = [rounds[p] EXCEPT !.status = "active", !.step = "idle",
                                           !.fingerprint = sources, !.targets = {}]
        BY <3>2, <4>1 DEF AcceptReplan
      <4> QED
        BY <1>1, <4>2 DEF Round
    <3> QED
      BY <1>7, <3>1, <3>2
  <2>4. sources \ rounds[p].content \subseteq overlaps[p]
    BY <2>1, <2>2 DEF Sees, OpenRoundSees
  <2>5. OpenRoundSees(p)' /\ FingerprintSees(p)'
    BY <1>4, <2>1, <2>3, <2>4 DEF OpenRoundSees, FingerprintSees
  <2> QED
    BY <1>5, <2>2, <2>5 DEF Sees
<1>8. CASE CheckSources(p)
  <2>1. /\ rounds[p].status = "active" /\ ~ Publish(p) /\ rounds[p].step = "idle"
        /\ overlaps'[p] = overlaps[p] \cup OpenChanges
    BY <1>1, <1>8 DEF CheckSources, Publish
  <2>2. rounds[p].fingerprint \ rounds[p].content \subseteq overlaps[p]
    BY <2>1 DEF Sees, FingerprintSees
  <2>3. CASE rounds' = Settle({p})
    <3>1. rounds'[p].status = "settled"
      <4>1. rounds'[p] = [rounds[p] EXCEPT !.status = "settled"]
        BY <2>3, SettleIs
      <4> QED
        BY <1>1, <4>1 DEF Round
    <3>2. OpenRoundSees(p)' /\ FingerprintSees(p)'
      BY <3>1 DEF OpenRoundSees, FingerprintSees
    <3> QED
      BY <1>5, <2>1, <3>2 DEF Sees
  <2>4. CASE rounds[p].fingerprint = sources /\ rounds' = [rounds EXCEPT ![p].step = "publish"]
    <3>1. /\ rounds'[p].content = rounds[p].content
          /\ rounds'[p].fingerprint = rounds[p].fingerprint
      BY <1>1, <2>4 DEF Round
    <3>2. OpenRoundSees(p)' /\ FingerprintSees(p)'
      BY <1>4, <2>1, <2>2, <2>4, <3>1 DEF OpenRoundSees, FingerprintSees
    <3> QED
      BY <1>5, <2>1, <3>2 DEF Sees
  <2> QED
    BY <1>8, <2>3, <2>4 DEF CheckSources
<1>9. CASE Publish(p)
  <2>1. /\ rounds'[p].step = "idle" /\ rounds[p].step = "publish"
        /\ rounds'[p].content = rounds[p].content
        /\ rounds'[p].fingerprint = rounds[p].fingerprint
        /\ rounds'[p].status \in {rounds[p].status, "settled"}
        /\ UNCHANGED <<overlaps, changes>>
        /\ UNCHANGED plans \/ rounds[p].status = "active"
    BY <1>1, <1>9 DEF Publish, Round
  <2>2. OpenRoundSees(p)' /\ FingerprintSees(p)'
    BY <1>4, <2>1 DEF Sees, OpenRoundSees, FingerprintSees
  <2>3. CASE UNCHANGED plans
    BY <1>4, <2>1, <2>2, <2>3 DEF Sees, LivePlanSees, Live
  <2>4. CASE rounds[p].status = "active"
    <3>1. sources \ rounds[p].content \subseteq overlaps[p] /\ OpenChanges \subseteq overlaps[p]
      BY <2>1, <2>4 DEF Sees, OpenRoundSees
    <3>2. LivePlanSees(p)'
      BY <1>4, <2>1, <3>1 DEF LivePlanSees
    <3> QED
      BY <2>2, <3>2 DEF Sees
  <2> QED
    BY <2>1, <2>3, <2>4
<1>10. CASE ReadVersion(p) \/ RollBackRound(p) \/ FailRound(p)
  <2>1. /\ rounds'[p].step \in {"idle", rounds[p].step}
        /\ rounds'[p].content = rounds[p].content
        /\ rounds'[p].fingerprint = rounds[p].fingerprint
        /\ rounds'[p].status \in {rounds[p].status, "settled"}
    <3>1. CASE FailRound(p)
      <4>1. rounds'[p] = [rounds[p] EXCEPT !.status = "settled"]
        BY <3>1, SettleIs DEF FailRound
      <4> QED
        BY <1>1, <4>1 DEF Round
    <3> QED
      BY <1>1, <1>10, <3>1 DEF ReadVersion, RollBackRound, Round
  <2>2. UNCHANGED <<overlaps, changes, plans>>
    BY <1>10 DEF ReadVersion, RollBackRound, FailRound
  <2>3. Live' = Live
    BY <2>2 DEF Live
  <2> QED
    BY <1>4, <2>1, <2>2, <2>3 DEF Sees, OpenRoundSees, FingerprintSees, LivePlanSees
<1> QED
  BY <1>6, <1>7, <1>8, <1>9, <1>10 DEF Plans

LEMMA SeesRounds ==
  ASSUME OverlapInv, [Next]_vars, NEW r \in Plan, Plans(r), NEW p \in Plan
  PROVE  Sees(p)'
<1> USE DEF OverlapInv, PlanInv
<1>1. CASE p = r
  BY <1>1, SeesOwnRound
<1>2. CASE p # r
  <2>1. rounds \in [Plan -> Round] /\ overlaps \in [Plan -> SUBSET Change]
    BY DEF TypeOK
  <2>2. rounds'[p] \in {rounds[p], [rounds[p] EXCEPT !.status = "settled"]}
    BY <1>2, OtherRounds
  <2>3. UNCHANGED <<sources, changes>> /\ overlaps'[p] = overlaps[p]
    BY <1>2, <2>1 DEF Plans, TakeSnapshot, AcceptRound, BeginReplan, AcceptReplan,
                      ReadVersion, CheckSources, Publish, RollBackRound, FailRound
  <2>4. ~ Publish(p)
    <3>1. SUFFICES ASSUME Publish(p) PROVE FALSE
      OBVIOUS
    <3>2. rounds'[p].step = "idle" /\ rounds[p].step = "publish"
      BY <2>1, <3>1 DEF Publish, Round
    <3>3. rounds'[p].step = rounds[p].step
      BY <2>1, <2>2 DEF Round
    <3> QED
      BY <3>2, <3>3
  <2>5. p \in Live' => p \in Live
    BY <2>4, LiveChanges
  <2> QED
    BY <2>2, <2>3, <2>5, SeesKept
<1> QED
  BY <1>1, <1>2

\* A change that opens is seen by the rounds in progress and selects every live
\* plan; one that commits marks those it selected, and the others have seen it.
LEMMA SeesChanges ==
  ASSUME OverlapInv, [Next]_vars, NEW c \in Change, Changes(c), NEW p \in Plan
  PROVE  Sees(p)'
<1> USE DEF OverlapInv, PlanInv
<1>1. /\ rounds[p] \in Round /\ changes \in [Change -> ChangeSession]
      /\ overlaps \in [Plan -> SUBSET Change] /\ sources \subseteq Change
  BY DEF TypeOK
<1>2. /\ rounds[p].status # "settled" => plans[p].status = "none"
      /\ \A q \in changes[c].targets : plans[q].status # "none"
  BY DEF RoundsComeFirst
<1>3. CASE SelectLivePlans(c)
  <2>1. /\ UNCHANGED <<sources, plans, rounds>>
        /\ overlaps'[p] = IF p \in OpenRounds THEN overlaps[p] \cup {c} ELSE overlaps[p]
    BY <1>1, <1>3 DEF SelectLivePlans
  <2>2. OpenChanges' = OpenChanges \cup {c} /\ Live' = Live
    BY <1>1, <1>3, <2>1 DEF SelectLivePlans, OpenChanges, Live
  <2>3. /\ changes'[c].targets = Live
        /\ \A d \in OpenChanges : d # c /\ changes'[d] = changes[d]
    BY <1>1, <1>3 DEF SelectLivePlans, OpenChanges
  <2>4. OpenRoundSees(p)'
    BY <2>1, <2>2 DEF Sees, OpenRoundSees, OpenRounds
  <2>5. FingerprintSees(p)'
    BY <2>1 DEF Sees, FingerprintSees
  <2>6. LivePlanSees(p)'
    BY <2>1, <2>2, <2>3 DEF Sees, LivePlanSees
  <2> QED
    BY <2>4, <2>5, <2>6 DEF Sees
<1>4. CASE CommitChange(c)
  <2> DEFINE targets == changes[c].targets
  <2>1. /\ sources' = sources \cup {c}
        /\ plans' = WithStatus(targets, "STALE")
        /\ overlaps'[p] = IF p \in targets THEN overlaps[p] \ {c} ELSE overlaps[p]
        /\ c \in OpenChanges
    BY <1>1, <1>4 DEF CommitChange, Without, OpenChanges
  <2>2. OpenChanges' = OpenChanges \ {c} /\ \A d \in OpenChanges' : changes'[d] = changes[d]
    BY <1>1, <1>4 DEF CommitChange, OpenChanges
  <2>3. /\ rounds'[p].step = rounds[p].step
        /\ rounds'[p].content = rounds[p].content
        /\ rounds'[p].fingerprint = rounds[p].fingerprint
        /\ rounds'[p].status \in {rounds[p].status, "settled"}
    <3>1. \A S : Settle(S)[p] \in {rounds[p], [rounds[p] EXCEPT !.status = "settled"]}
      BY DEF Settle
    <3>2. rounds'[p] \in {rounds[p], [rounds[p] EXCEPT !.status = "settled"]}
      BY <1>4, <3>1 DEF CommitChange
    <3> QED
      BY <1>1, <3>2 DEF Round
  <2>4. rounds[p].status # "settled" => p \notin targets
    BY <1>2
  <2>5. OpenRoundSees(p)' /\ FingerprintSees(p)'
    BY <2>1, <2>2, <2>3, <2>4 DEF Sees, OpenRoundSees, FingerprintSees
  <2>6. p \in Live' => p \in Live /\ p \notin targets
    BY <2>1, WithStatusIs DEF Live
  <2>7. LivePlanSees(p)'
    BY <2>1, <2>2, <2>3, <2>6 DEF Sees, LivePlanSees
  <2> QED
    BY <2>5, <2>7 DEF Sees
<1>5. CASE RollBackChange(c)
  <2>1. UNCHANGED <<sources, plans, rounds>> /\ overlaps'[p] = overlaps[p] \ {c}
    BY <1>1, <1>5 DEF RollBackChange, Without
  <2>2. /\ OpenChanges' = OpenChanges \ {c} /\ Live' = Live
        /\ \A d \in OpenChanges' : changes'[d] = changes[d]
    BY <1>1, <1>5, <2>1 DEF RollBackChange, OpenChanges, Live
  <2>3. c \notin sources
    BY <1>5 DEF RollBackChange, SourcesAreDone
  <2>4. OpenRoundSees(p)'
    BY <2>1, <2>2, <2>3 DEF Sees, OpenRoundSees
  <2>5. FingerprintSees(p)'
    BY <2>1, <2>3 DEF Sees, FingerprintSees
  <2>6. LivePlanSees(p)'
    BY <2>1, <2>2, <2>3 DEF Sees, LivePlanSees
  <2> QED
    BY <2>4, <2>5, <2>6 DEF Sees
<1> QED
  BY <1>3, <1>4, <1>5 DEF Changes

LEMMA OverlapInvStep == OverlapInv /\ PlanInv' /\ [Next]_vars => OverlapInv'
<1> SUFFICES ASSUME OverlapInv, PlanInv', [Next]_vars PROVE OverlapInv'
  OBVIOUS
<1>1. SourcesAreDone'
  BY SourcesDoneStep DEF OverlapInv
<1>2. ASSUME NEW p \in Plan PROVE Sees(p)'
  <2>1. CASE UNCHANGED <<sources, rounds, changes, overlaps>>
    <3>1. \A r \in Plan : ~ Publish(r)
      <4>1. SUFFICES ASSUME NEW r \in Plan, Publish(r) PROVE FALSE
        OBVIOUS
      <4>2. rounds'[r].step = "idle" /\ rounds[r].step = "publish"
        BY <4>1 DEF Publish, OverlapInv, PlanInv, TypeOK, Round
      <4> QED
        BY <2>1, <4>2
    <3>2. p \in Live' => p \in Live
      BY <3>1, LiveChanges DEF OverlapInv
    <3> QED
      BY <2>1, <3>2, SeesKept DEF OverlapInv
  <2> QED
    BY <2>1, SeesRounds, SeesChanges
       DEF Next, vars, ChangePlace, Join, Votes, BeginVote, CommitVote, AdoptAlone,
           RollBackVote, Confirms, BeginConfirm, CommitConfirm, RollBackConfirm
<1> QED
  BY <1>1, <1>2 DEF OverlapInv

\* A plan under vote or adopted misses no change but those whose transactions
\* overlapped its snapshot or its publication: the cascade and the two readings of
\* the fingerprint leave no other gap.
THEOREM MissedChangesOverlapped == Spec => []OnlyOverlapsAreMissed
<1>1. Init => OverlapInv
  <2> SUFFICES ASSUME Init PROVE OverlapInv
    OBVIOUS
  <2>1. SourcesAreDone
    BY DEF Init, SourcesAreDone
  <2>2. \A p \in Plan : Sees(p)
    BY DEF Init, Sees, OpenRoundSees, FingerprintSees, LivePlanSees, Live, NoRound
  <2> QED
    BY <2>1, <2>2, PlanInvInit DEF OverlapInv
<1>2. OverlapInv => OnlyOverlapsAreMissed
  BY DEF OverlapInv, Sees, LivePlanSees, OnlyOverlapsAreMissed, Live
<1> QED
  BY <1>1, <1>2, OverlapInvStep, PlanInvariant, PTL DEF Spec
=============================================================================
