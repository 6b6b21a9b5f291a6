---------------------------- MODULE PlanLifecycle ----------------------------
(***************************************************************************)
(* The plans of one trip: planning rounds that snapshot the members'       *)
(* consents and memory and publish a plan, the stale cascade of a change   *)
(* to them, the adoption vote and the confirmations of the members         *)
(* (apps/api/src/services/planning-service.ts, consent-service.ts,         *)
(* change-event-service.ts, plan-adoption-service.ts,                      *)
(* confirmation-service.ts).                                               *)
(*                                                                         *)
(* Handlers are database transactions at READ COMMITTED.  A handler that   *)
(* acts on what it has read is a first step that reads, a session that     *)
(* keeps what was read, and a last step that writes and commits; the step  *)
(* between that gives up is a rollback.  The row lock that a vote takes    *)
(* (SELECT ... FOR UPDATE) is held from its first step to its last, and    *)
(* every step that writes a locked row waits.                              *)
(*                                                                         *)
(* A round has at most one plan, so both are named by the same value.  Of  *)
(* a round's run only what matters here is kept: none, active or settled   *)
(* (AgentTaskQueue has the rest).  Consents, preferences, trip facts and   *)
(* search preferences are the set of the changes that were made to them:   *)
(* two readings are equal if and only if no change committed in between.   *)
(***************************************************************************)
EXTENDS Naturals

CONSTANTS
  Plan,           \* the planning rounds that may be started, one plan each
  Kind,           \* Kind[p]: "RESEARCH" or "REPLAN"
  Member,         \* the people who may be members of the trip
  Founder,        \* the members it has from the start; nobody ever leaves
  Change,         \* bound: the changes to consents and memory
  NoPlan

ASSUME PlanAssumption ==
  /\ Kind \in [Plan -> {"RESEARCH", "REPLAN"}]
  /\ Founder \subseteq Member
  /\ Founder # {}
  /\ NoPlan \notin Plan

VARIABLES
  members,        \* trip_members; all of them are required
  sources,        \* what a snapshot projects: the changes that committed
  plans,          \* itinerary_plans
  rounds,         \* a round's run, its snapshot and its open transaction
  votes,          \* plan_adoption_votes
  confirmations,  \* member_confirmations
  voting,         \* the plan whose row a member's vote holds locked
  confirming,     \* the plan a member's confirmation found ACTIVE
  changes,        \* the transactions of the changes
  \* an observer, which no action reads
  overlaps        \* overlaps[p]: the changes whose transactions were open
                  \* together with the snapshot or the publication of p

vars == <<members, sources, plans, rounds, votes, confirmations, voting,
          confirming, changes, overlaps>>

PlanStatus == {"none", "PROPOSED", "ACTIVE", "STALE", "SUPERSEDED"}
Decision == {"ACCEPT", "NEEDS_CHANGES"}
Confirmation == {"PENDING", "CONFIRMED", "NEEDS_CHANGES", "STALE"}

PlanRow == [status : PlanStatus, version : Nat]

Round == [status : {"none", "active", "settled"},
          step : {"idle", "snapshot", "publish"},   \* its open transaction
          content : SUBSET Change,      \* sources the snapshot was projected from
          fingerprint : SUBSET Change,  \* sources it says it was taken from
          version : Nat,         \* version read for the plan, 0 before
          targets : SUBSET Plan] \* live plans a change event has read

ChangeSession == [step : {"none", "open", "done"}, targets : SUBSET Plan]

NoRound == [status |-> "none", step |-> "idle", content |-> {}, fingerprint |-> {},
            version |-> 0, targets |-> {}]

Init ==
  /\ members = Founder
  /\ sources = {}
  /\ plans = [p \in Plan |-> [status |-> "none", version |-> 0]]
  /\ rounds = [p \in Plan |-> NoRound]
  /\ votes = [p \in Plan |-> [m \in Member |-> "none"]]
  /\ confirmations = [p \in Plan |-> [m \in Member |-> "PENDING"]]
  /\ voting = [m \in Member |-> NoPlan]
  /\ confirming = [m \in Member |-> NoPlan]
  /\ changes = [c \in Change |-> [step |-> "none", targets |-> {}]]
  /\ overlaps = [p \in Plan |-> {}]

-----------------------------------------------------------------------------
(* Rows                                                                     *)

Live == {p \in Plan : plans[p].status \in {"PROPOSED", "ACTIVE"}}
Proposed == {p \in Plan : plans[p].status = "PROPOSED"}
ActiveRounds == {p \in Plan : rounds[p].status = "active"}

\* Every vote on a plan holds the lock of its row.
Locked(p) == \E m \in Member : voting[m] = p
LockedByOther(p, m) == \E x \in Member \ {m} : voting[x] = p

WithStatus(S, status) ==
  [p \in Plan |-> IF p \in S THEN [plans[p] EXCEPT !.status = status] ELSE plans[p]]

\* Only rows that exist are marked; PENDING is a row that does not.
StaleConfirmations(S) ==
  [p \in Plan |->
     IF p \in S
       THEN [m \in Member |-> IF confirmations[p][m] = "PENDING" THEN "PENDING"
                                                                 ELSE "STALE"]
       ELSE confirmations[p]]

Settle(S) ==
  [p \in Plan |-> IF p \in S THEN [rounds[p] EXCEPT !.status = "settled"]
                             ELSE rounds[p]]

OpenRounds == {p \in Plan : rounds[p].step # "idle"}
OpenChanges == {c \in Change : changes[c].step = "open"}

\* The plans of S do not miss c: it is rolled back, or has marked them STALE.
Without(c, S) ==
  [p \in Plan |-> IF p \in S THEN overlaps[p] \ {c} ELSE overlaps[p]]

\* Mutant: the members are overwritten.
JoinAlone(m) ==
  /\ m \notin members
  /\ members' = {m}
  /\ UNCHANGED <<sources, plans, rounds, votes, confirmations, voting, confirming, changes,
                 overlaps>>

\* Accepting an invitation adds a required member.  A member whose own consents
\* move the fingerprint fails the rounds in flight, which FailRound allows.
Join(m) ==
  /\ m \notin members
  /\ members' = members \cup {m}
  /\ UNCHANGED <<sources, plans, rounds, votes, confirmations, voting, confirming, changes,
                 overlaps>>

-----------------------------------------------------------------------------
(* Planning rounds                                                          *)

\* The planning route locks the trip row, then createConstraintSnapshot reads
\* the consents on another connection ...
TakeSnapshot(p) ==
  /\ Kind[p] = "RESEARCH"
  /\ rounds[p].status = "none"
  /\ \A q \in Plan : ~ (Kind[q] = "RESEARCH" /\ rounds[q].step = "snapshot")
  /\ rounds' = [rounds EXCEPT ![p].step = "snapshot", ![p].content = sources]
  /\ overlaps' = [overlaps EXCEPT ![p] = OpenChanges]
  /\ UNCHANGED <<members, sources, plans, votes, confirmations, voting, confirming, changes>>

\* ... and computes the fingerprint last, in the transaction that accepts the
\* run.  Another active planning run makes the acceptance fail.
AcceptRound(p) ==
  /\ Kind[p] = "RESEARCH"
  /\ rounds[p].step = "snapshot"
  /\ ActiveRounds = {}
  /\ rounds' = [rounds EXCEPT ![p].status = "active", ![p].step = "idle",
                              ![p].fingerprint = sources]
  /\ UNCHANGED <<members, sources, plans, votes, confirmations, voting, confirming, changes, overlaps>>

\* A change event selects the live plans, marks them, and takes a snapshot ...
BeginReplan(p) ==
  /\ Kind[p] = "REPLAN"
  /\ rounds[p].status = "none"
  /\ rounds[p].step = "idle"
  /\ rounds' = [rounds EXCEPT ![p].step = "snapshot", ![p].content = sources,
                              ![p].targets = Live]
  /\ overlaps' = [overlaps EXCEPT ![p] = OpenChanges]
  /\ UNCHANGED <<members, sources, plans, votes, confirmations, voting, confirming, changes>>

\* ... and accepts a REPLAN, which cancels the active run, in one transaction.
AcceptReplan(p) ==
  LET targets == rounds[p].targets
  IN /\ Kind[p] = "REPLAN"
     /\ rounds[p].step = "snapshot"
     /\ \A q \in targets : ~ Locked(q)
     /\ plans' = WithStatus(targets, "STALE")
     /\ confirmations' = StaleConfirmations(targets)
     /\ rounds' = [Settle(ActiveRounds) EXCEPT
                     ![p] = [rounds[p] EXCEPT !.status = "active", !.step = "idle",
                                              !.fingerprint = sources, !.targets = {}]]
     /\ UNCHANGED <<members, sources, votes, voting, confirming, changes, overlaps>>

NextVersion == 1 + CHOOSE v \in {plans[p].version : p \in Plan} \cup {0} :
                     \A p \in Plan : plans[p].version <= v

\* generatePlan reads the version its plan will have first of all, before the
\* providers and the model are asked.
ReadVersion(p) ==
  /\ rounds[p].status = "active"
  /\ rounds[p].step = "idle"
  /\ rounds' = [rounds EXCEPT ![p].version = NextVersion]
  /\ UNCHANGED <<members, sources, plans, votes, confirmations, voting, confirming, changes, overlaps>>

\* Mutant: the fingerprint is not looked at again.
PublishUnchecked(p) ==
  /\ rounds[p].status = "active"
  /\ rounds[p].step = "idle"
  /\ rounds[p].version # 0
  /\ rounds' = [rounds EXCEPT ![p].step = "publish"]
  /\ overlaps' = [overlaps EXCEPT ![p] = @ \cup OpenChanges]
  /\ UNCHANGED <<members, sources, plans, votes, confirmations, voting, confirming, changes>>

\* The transaction that publishes the plan computes the fingerprint again and
\* gives the round up if it moved.
CheckSources(p) ==
  /\ rounds[p].status = "active"
  /\ rounds[p].step = "idle"
  /\ rounds[p].version # 0
  /\ rounds' = IF rounds[p].fingerprint = sources
                 THEN [rounds EXCEPT ![p].step = "publish"]
                 ELSE Settle({p})
  /\ overlaps' = [overlaps EXCEPT ![p] = @ \cup OpenChanges]
  /\ UNCHANGED <<members, sources, plans, votes, confirmations, voting, confirming, changes>>

\* Mutant: the plan is inserted whatever became of the run.
PublishUnguarded(p) ==
  /\ rounds[p].step = "publish"
  /\ plans' = [plans EXCEPT ![p] = [status |-> "PROPOSED", version |-> rounds[p].version]]
  /\ rounds' = [rounds EXCEPT ![p].step = "idle", ![p].status = "settled"]
  /\ UNCHANGED <<members, sources, votes, confirmations, voting, confirming, changes, overlaps>>

\* It inserts the plan and settles the run, both or neither: neither when the
\* run is not active any more or another plan has the version.
Publish(p) ==
  /\ rounds[p].step = "publish"
  /\ IF rounds[p].status = "active" /\ \A q \in Plan : plans[q].version # rounds[p].version
       THEN /\ plans' = [plans EXCEPT ![p] = [status |-> "PROPOSED",
                                              version |-> rounds[p].version]]
            /\ rounds' = [rounds EXCEPT ![p].step = "idle", ![p].status = "settled"]
       ELSE /\ rounds' = [rounds EXCEPT ![p].step = "idle"]
            /\ UNCHANGED plans
  /\ UNCHANGED <<members, sources, votes, confirmations, voting, confirming, changes, overlaps>>

\* A retry takes the snapshot again, or reads the version again.
RollBackRound(p) ==
  /\ rounds[p].step # "idle"
  /\ rounds' = [rounds EXCEPT ![p].step = "idle", ![p].targets = {}, ![p].version = 0]
  /\ UNCHANGED <<members, sources, plans, votes, confirmations, voting, confirming, changes,
                 overlaps>>

\* The run fails, is cancelled, or ends without a plan.
FailRound(p) ==
  /\ rounds[p].status = "active"
  /\ rounds' = Settle({p})
  /\ UNCHANGED <<members, sources, plans, votes, confirmations, voting, confirming, changes, overlaps>>

-----------------------------------------------------------------------------
(* Changes to consents, preferences, constraints and search preferences     *)

\* The cascade selects the live plans without a lock ...
SelectLivePlans(c) ==
  /\ changes[c].step = "none"
  /\ changes' = [changes EXCEPT ![c] = [step |-> "open", targets |-> Live]]
  /\ overlaps' = [p \in Plan |-> IF p \in OpenRounds THEN overlaps[p] \cup {c}
                                               ELSE overlaps[p]]
  /\ UNCHANGED <<members, sources, plans, rounds, votes, confirmations, voting, confirming>>

\* ... returns early if there were none, and otherwise marks those it found,
\* whatever they have become, their confirmations and the trip's research.
CommitChange(c) ==
  LET targets == changes[c].targets
  IN /\ changes[c].step = "open"
     /\ \A p \in targets : ~ Locked(p)
     /\ plans' = WithStatus(targets, "STALE")
     /\ confirmations' = StaleConfirmations(targets)
     /\ rounds' = IF targets = {} THEN rounds
                  ELSE Settle({p \in ActiveRounds : Kind[p] = "RESEARCH"})
     /\ sources' = sources \cup {c}
     /\ changes' = [changes EXCEPT ![c] = [step |-> "done", targets |-> {}]]
     /\ overlaps' = Without(c, targets)
     /\ UNCHANGED <<members, votes, voting, confirming>>

RollBackChange(c) ==
  /\ changes[c].step = "open"
  /\ changes' = [changes EXCEPT ![c] = [step |-> "none", targets |-> {}]]
  /\ overlaps' = Without(c, Plan)
  /\ UNCHANGED <<members, sources, plans, rounds, votes, confirmations, voting, confirming>>

\* Adopting or revoking a place of the trip stales its ACTIVE plans, re-read
\* under the lock, and all its confirmations.
ChangePlace ==
  LET active == Live \ Proposed
  IN /\ active # {}
     /\ plans' = WithStatus(active, "STALE")
     /\ confirmations' = StaleConfirmations(Plan)
     /\ UNCHANGED <<members, sources, rounds, votes, voting, confirming, changes, overlaps>>

-----------------------------------------------------------------------------
(* The adoption vote                                                        *)

\* Mutant: the row is read without a lock.
BeginVoteUnlocked(m, p) ==
  /\ m \in members
  /\ voting[m] = NoPlan
  /\ p \in Proposed
  /\ voting' = [voting EXCEPT ![m] = p]
  /\ UNCHANGED <<members, sources, plans, rounds, votes, confirmations, confirming, changes, overlaps>>

\* A member's vote locks the plan and goes on if it is PROPOSED.
BeginVote(m, p) ==
  /\ m \in members
  /\ voting[m] = NoPlan
  /\ p \in Proposed
  /\ ~ Locked(p)
  /\ voting' = [voting EXCEPT ![m] = p]
  /\ UNCHANGED <<members, sources, plans, rounds, votes, confirmations, confirming, changes, overlaps>>

\* countVotes: no NEEDS_CHANGES, and the ACCEPT of every required member.
Carried(ballots) ==
  /\ \A m \in Member : ballots[m] # "NEEDS_CHANGES"
  /\ \A m \in members : ballots[m] = "ACCEPT"

\* Mutant: the other proposals are forgotten.
ActivateOnly(m, p) == plans' = [plans EXCEPT ![p].status = "ACTIVE"]

\* activateProposedPlan supersedes the other proposals, waiting for the votes
\* that hold them, and never a plan that is ACTIVE already.
Activate(m, p) ==
  LET others == Proposed \ {p}
  IN /\ \A q \in others : ~ LockedByOther(q, m)
     /\ plans' = [WithStatus(others, "SUPERSEDED") EXCEPT ![p].status = "ACTIVE"]

\* castVote writes the ballot, counts, and activates the plan it carries.
CommitVote(m, decision) ==
  LET p == voting[m]
      ballots == [votes[p] EXCEPT ![m] = decision]
  IN /\ p # NoPlan
     /\ votes' = [votes EXCEPT ![p] = ballots]
     /\ IF Carried(ballots) THEN Activate(m, p) ELSE UNCHANGED plans
     /\ voting' = [voting EXCEPT ![m] = NoPlan]
     /\ UNCHANGED <<members, sources, rounds, confirmations, confirming, changes, overlaps>>

\* The only member of a trip adopts and confirms in one step.
AdoptAlone(m) ==
  LET p == voting[m]
  IN /\ p # NoPlan
     /\ members = {m}
     /\ votes' = [votes EXCEPT ![p][m] = "ACCEPT"]
     /\ confirmations' = [confirmations EXCEPT ![p][m] = "CONFIRMED"]
     /\ Activate(m, p)
     /\ voting' = [voting EXCEPT ![m] = NoPlan]
     /\ UNCHANGED <<members, sources, rounds, confirming, changes, overlaps>>

\* Two votes that wait for each other's plan: the database aborts one.
RollBackVote(m) ==
  /\ voting[m] # NoPlan
  /\ voting' = [voting EXCEPT ![m] = NoPlan]
  /\ UNCHANGED <<members, sources, plans, rounds, votes, confirmations, confirming, changes, overlaps>>

-----------------------------------------------------------------------------
(* Confirmations                                                            *)

\* Mutant: the status of the plan is not looked at.
BeginConfirmAny(m, p) ==
  /\ m \in members
  /\ confirming[m] = NoPlan
  /\ p \in Live
  /\ confirming' = [confirming EXCEPT ![m] = p]
  /\ UNCHANGED <<members, sources, plans, rounds, votes, confirmations, voting, changes, overlaps>>

\* setConfirmation reads the plan without a lock ...
BeginConfirm(m, p) ==
  /\ m \in members
  /\ confirming[m] = NoPlan
  /\ plans[p].status = "ACTIVE"
  /\ confirming' = [confirming EXCEPT ![m] = p]
  /\ UNCHANGED <<members, sources, plans, rounds, votes, confirmations, voting, changes, overlaps>>

\* ... and upserts the decision, over whatever has been written since; or it
\* rolls back.
CommitConfirm(m, decision) ==
  LET p == confirming[m]
  IN /\ p # NoPlan
     /\ confirmations' = [confirmations EXCEPT ![p][m] = decision]
     /\ confirming' = [confirming EXCEPT ![m] = NoPlan]
     /\ UNCHANGED <<members, sources, plans, rounds, votes, voting, changes, overlaps>>

RollBackConfirm(m) ==
  /\ confirming[m] # NoPlan
  /\ confirming' = [confirming EXCEPT ![m] = NoPlan]
  /\ UNCHANGED <<members, sources, plans, rounds, votes, confirmations, voting, changes, overlaps>>

-----------------------------------------------------------------------------
Plans(p) ==
  \/ TakeSnapshot(p) \/ AcceptRound(p)
  \/ BeginReplan(p) \/ AcceptReplan(p)
  \/ ReadVersion(p) \/ CheckSources(p) \/ Publish(p)
  \/ RollBackRound(p) \/ FailRound(p)

Changes(c) == SelectLivePlans(c) \/ CommitChange(c) \/ RollBackChange(c)

Votes(m) ==
  \/ \E p \in Plan : BeginVote(m, p)
  \/ \E decision \in Decision : CommitVote(m, decision)
  \/ AdoptAlone(m)
  \/ RollBackVote(m)

Confirms(m) ==
  \/ \E p \in Plan : BeginConfirm(m, p)
  \/ \E decision \in {"CONFIRMED", "NEEDS_CHANGES"} : CommitConfirm(m, decision)
  \/ RollBackConfirm(m)

Next ==
  \/ \E p \in Plan : Plans(p)
  \/ \E c \in Change : Changes(c)
  \/ \E m \in Member : Join(m) \/ Votes(m) \/ Confirms(m)
  \/ ChangePlace

Spec == Init /\ [][Next]_vars

-----------------------------------------------------------------------------
(* Properties                                                               *)

\* Rows and sessions have the shape of the columns and locals they stand for.
TypeOK ==
  /\ members \in SUBSET Member
  /\ Founder \subseteq members
  /\ sources \in SUBSET Change
  /\ plans \in [Plan -> PlanRow]
  /\ rounds \in [Plan -> Round]
  /\ votes \in [Plan -> [Member -> Decision \cup {"none"}]]
  /\ confirmations \in [Plan -> [Member -> Confirmation]]
  /\ voting \in [Member -> Plan \cup {NoPlan}]
  /\ confirming \in [Member -> Plan \cup {NoPlan}]
  /\ changes \in [Change -> ChangeSession]
  /\ overlaps \in [Plan -> SUBSET Change]

\* An ACTIVE plan has the ACCEPT of every founding member and nobody's
\* NEEDS_CHANGES: votes that overlap with each other, with the cascade and with
\* members who join never let a ballot slip in after the count.
AdoptionIsUnanimous ==
  \A p \in Plan : plans[p].status = "ACTIVE" =>
    /\ \A m \in Founder : votes[p][m] = "ACCEPT"
    /\ \A m \in Member : votes[p][m] # "NEEDS_CHANGES"

\* Members decide on a plan only after it was adopted: whatever has a
\* confirmation, even a late one, was ACTIVE once and is not superseded.
DecisionsFollowAdoption ==
  \A p \in Plan : \A m \in Member :
    confirmations[p][m] # "PENDING" \/ confirming[m] = p
      => plans[p].status \in {"ACTIVE", "STALE"}

\* The version that a round reads before the model works is still above every
\* plan's when it publishes: no cancelled, superseded or retried round publishes
\* in between, so the unique index on trip and version never fails a round, and
\* a later plan has a greater version.
VersionStaysFree ==
  \A p \in ActiveRounds : rounds[p].version # 0 =>
    \A q \in Plan : plans[q].version < rounds[p].version

\* A plan under vote or adopted knows every change to consents and memory except
\* those whose transactions overlapped its snapshot or its publication: a change
\* that finds the plan stales it, and one that committed before the round began
\* to publish is seen by the second fingerprint.
OnlyOverlapsAreMissed ==
  \A p \in Live : sources \ rounds[p].content \subseteq overlaps[p]

\* "If they moved, the validated plan is discarded rather than made
\* authoritative on memory that no longer exists" (planning-service.ts:2398):
\* a plan under vote or adopted was made from the consents and the memory the
\* members have now.  It is not so: a cascade that has selected the live plans
\* before a plan is published commits after its second fingerprint.
LivePlansAreCurrent == \A p \in Live : rounds[p].content = sources

-----------------------------------------------------------------------------
(* The promise of GroupDecision                                             *)

Standing(p) ==
  CASE plans[p].status = "none" -> "none"
    [] plans[p].status = "PROPOSED" -> "open"
    [] plans[p].status = "ACTIVE" -> "chosen"
    [] OTHER -> "closed"

GroupDecisions == INSTANCE GroupDecision
  WITH Offer <- Plan,
       standing <- [p \in Plan |-> Standing(p)],
       assent <- [p \in Plan |-> {m \in Member : votes[p][m] = "ACCEPT"}],
       objection <- [p \in Plan |-> {m \in Member : votes[p][m] = "NEEDS_CHANGES"}]

\* The votes, cascades and publications implement the promise: unanimous choice
\* that closes the other proposals, ballots only while a plan is PROPOSED, and
\* "old STALE plans never reactivate" (team-agent-orchestration-implementation).
ImplementsGroupDecision == GroupDecisions!Spec

=============================================================================
