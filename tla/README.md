# Wanderly: a TLA+ development of the travel agent's backend

This directory models the concurrent core of the Wanderly API and Worker
(`apps/api/src`): the durable queue that runs agent tasks, the life of the
plans those tasks publish, the booking sandbox at the end, the trip constraints
the members confirm on the way, and the long-term memory that learns from them.
TLC checks small instances of every module; TLAPS proves the main safety
properties of each for every instance.

Paths below are relative to `apps/api/src/` unless they start with `docs/`.

## 1. The system

### 1.1 Processes

An **API** process serves requests; every handler is a PostgreSQL transaction
(READ COMMITTED) or a few statements. One or more **Worker** processes each run
`WORKER_CONCURRENCY` *slots* (default one), a slot being a loop that recovers
abandoned runs, claims a run, executes it and announces its outcome. A **memory
observation** loop in the Worker drains an outbox table. The **booking sandbox**
calls back. They share nothing but the database and an advisory event stream.

### 1.2 Components

| component | state | operations | interacts with | modelled in |
|---|---|---|---|---|
| Durable queue (`tasks/task-repository.ts`, `workers/agent-task-worker.ts`, `workers/worker-main.ts`) | `agent_task_runs`: status, lease token and expiry, attempt counters, result; a slot's locals | accept (conversation, PLAN/REPLAN, research, personal research), request cancellation, invalidate, recovery scan, claim, renew, complete, fail or retry, announce | called by every route that starts agent work; publishes plans and messages | `AgentTaskQueue`, `TaskLifecycle` |
| Task handlers (`tasks/handlers/*`) | none of their own | order of generate, commit, settle, announce | queue, planning service, model gateway | `AgentTaskQueue` (partly) |
| Planning rounds (`services/planning-service.ts`, `routes/planning.ts`) | `constraint_snapshots`, `itinerary_plans` | snapshot, fingerprint, publish, activate, supersede | queue, consents, votes | `PlanLifecycle` |
| Consents and cascade (`services/consent-service.ts`, `services/memory-invalidation-service.ts`, search preference services) | consents, memory, search preferences | grant, revoke, edit; each cascades | plans, confirmations, research runs | `PlanLifecycle` (partly) |
| Change events (`services/change-event-service.ts`) | idempotency of an event | stale the plans, snapshot, accept a REPLAN | plans, queue | `PlanLifecycle` |
| Adoption vote (`services/plan-adoption-service.ts`) | `plan_adoption_votes` | vote, count, adopt; adopt alone | plans, members | `PlanLifecycle`, `GroupDecision` |
| Confirmations (`services/confirmation-service.ts`) | `member_confirmations` | confirm, ask for changes, staling | plans, booking | `PlanLifecycle` |
| Booking sandbox (`services/booking-service.ts`, `services/idempotency-service.ts`) | `booking_executions`, idempotency keys | submit, callback | plans, confirmations | `Booking`, `Reservation` |
| Trip places (`services/trip-place-service.ts`) | places of a trip | adopt, revoke: stale the ACTIVE plans | plans, confirmations | `PlanLifecycle` (partly) |
| Invitations (`services/trip-invitation-service.ts`) | invitations, members | create, accept, decline, revoke, expire | members | `Join` of `PlanLifecycle` only; see 6 |
| Memory observation outbox (`workers/memory-observation-worker.ts`, `services/memory-observation-bridge.ts`, `services/memory-proposal-service.ts`, `services/preference-fact-service.ts`) | `outbox_events` of one type, idempotency keys of episodes, `memory_proposals`, `preference_facts` | enqueue, claim, observe, settle, park, release; confirm, dismiss, sweep; state, clear or delete a field | fed by the confirmation of constraints | `MemoryObservation`, `EvidenceLedger` |
| Constraint proposals and trip facts (`services/constraint-proposal-service.ts`, `services/conversation-handoff-extraction-service.ts`, `services/trip-memory-service.ts`, thread deletion in `routes/chat-threads.ts`) | `trip_constraint_proposals`, `trip_constraint_facts`, idempotency keys | propose, extract a batch, dismiss, confirm, hand a batch off, edit and revoke a fact, save and delete trip memory | starts runs, stales plans, feeds the outbox | `TripConstraints`, `ConstraintAnswers` |
| Research drafts and cue batches (`services/offer-cue-service.ts`, `services/destination-cue-service.ts`, `routes/agent-runs-dismiss-intent.ts`) | drafts on runs, batches of cues | propose, dismiss, confirm, select | queue | not yet |
| Trip brief, threads, live stream, output policy, gateway, auth, observability | see `PROJECT.json` | | | no: see 7 |

### 1.3 What is hard here

* A lease is a clock read by somebody else. A slot whose lease ran out does not
  know it, finishes its work and writes, while another slot has claimed the run.
* Almost every handler reads a row without a lock and writes it later; what
  protects it is the WHERE clause of the write, when there is one.
* Three writers put a run back in the queue (recovery scan, catch block,
  personal-research handler) and count attempts in two ways.
* A consent may be revoked at any moment of a round that uses it. The cascade
  and the fingerprint check each cover part of the interval.
* A vote is counted over the members of that moment, while members join, other
  votes hold other rows locked, and cascades wait for those locks.
* The gates of a booking are read one after the other on two connections.
* Callbacks are delivered twice, late, or at the same time.
* The memory outbox is claimed by a lease too, but settled by event id alone, and
  its attempt limit is read only when something throws.
* Suggestions are counted by one process while their owner answers them and a
  sweep retires them.
* A constraint proposal can be confirmed alone or in a batch, dismissed, or
  dismissed because its thread is deleted; each path takes its locks in its own
  order, and all write facts into one table that three features share.

### 1.4 What makes each part correct

* *Queue*: an accepted run is tried at most `max_attempts` times, takes effect at
  most once, is settled eventually, and is dead once revoked; a trip has one
  active planning run and a thread one active run; what is announced is true.
* *Plans*: a plan is adopted only with every founder's accept and nobody's
  objection, closes the other proposals in the same instant, never comes back
  once closed, and is based on the consents and the memory of its members, but for
  a change that was open while it was made or published (3); the version a round
  has read is free until it publishes.
* *Confirmations*: they exist only for plans that were adopted.
* *Booking*: only a plan agreed on twice is booked; a callback that fails half
  way can be repeated; a result never changes.
* *Memory*: a confirmed value counts once per trip, whatever becomes of its
  event; a suggestion rests on what it says it rests on, becomes one fact at most
  and is repeated while it is suppressed only by an observation that was under way
  then; what the user deletes is not counted again; every event is settled after a bounded number of attempts.
* *Constraints*: a confirmed proposal is one fact and a dismissed one none; a batch
  starts planning once; a pending candidate can be handed off; a repeated request
  writes nothing new; the kinds of facts do not disturb each other (they do: 3).

`PROJECT.json` lists the hazards behind these, each with its source line and the
properties that would catch it.

## 2. Modules

    TaskLifecycle      abstract: what the queue promises of a request
    AgentTaskQueue     the queue and its slots                (implements TaskLifecycle)
    AgentTaskQueueProofs, AgentTaskQueueRefinement            TLAPS proofs
    GroupDecision      abstract: how a group settles on one of several offers
    PlanLifecycle      rounds, cascade, votes, confirmations  (implements GroupDecision)
    PlanLifecycleProofs, PlanLifecycleRefinement              TLAPS proofs
    Reservation        abstract: an agreed plan is reserved once and decided once
    Booking            the sandbox, on top of PlanLifecycle   (implements Reservation)
    BookingProofs                                             TLAPS proofs
    EvidenceLedger     abstract: evidence is counted once and dropped for good
    MemoryObservation  the outbox, its slots, the owner       (implements EvidenceLedger)
    MemoryObservationProofs                                   TLAPS proofs
    ConstraintAnswers  abstract: put once, answered once, one fact, one start
    TripConstraints    proposals, batches and facts           (implements ConstraintAnswers)
    TripConstraintsProofs                                     TLAPS proofs
    MC*                constants for TLC

The queue and the plans meet in one place, the transaction that publishes a plan
and settles its run. `AgentTaskQueue` sees it from the run (`GeneratePlan`,
`CommitResult`: a result is a counter), `PlanLifecycle` from the plan (`Publish`:
a run is none, active or settled). Composing them in full multiplies the state
without adding an interaction: the only facts one side needs of the other are
"the run is still RUNNING under my token" and "one active planning run per trip",
which `AgentTaskQueue` establishes and `PlanLifecycle` uses in `AcceptRound` and
`AcceptReplan`.

`TripConstraints` touches three of the others inside its transactions: it stales
plans and accepts a run (a `CommitChange` and a `BeginReplan`/`AcceptReplan` of
`PlanLifecycle`), and leaves an event in the outbox (an `Enqueue` of
`MemoryObservation`). In each case the other module lets the step happen at any
moment, so it covers what this one may do.

### 2.1 AgentTaskQueue

`rows` are the rows of `agent_task_runs`; `slots` hold what a slot has read and
where it is in `processNextAgentTask`; `cancelRead` is the status a cancellation
handler read; `announced` is the last terminal stream event of a run. One action
is one statement or one transaction.

| action | code |
|---|---|
| `AcceptConversationTask`, `AcceptPlan`, `AcceptReplan`, `AcceptPersonalResearchTask` | the accept functions; the partial unique indexes are the guards |
| `ReadForCancellation`, `RequestCancellation` | `requestAgentTaskCancellation`: read, then write under the status read |
| `InvalidateResearch` | the cascade's update of active RESEARCH runs |
| `RecoverCancelled/Expired/Exhausted/Retrying` | the four statements of `recoverExpiredAgentTasks` |
| `ClaimConversation`, `ClaimPlanning`, `ReadClaimed` | the claim statement and the separate SELECT of the claimed row |
| `Renew`, `ObserveRevocation` | the two timers of a slot |
| `GeneratePlan` ... `FailPersonalResearch`, `Announce`, `FollowUpFails` | the handlers' commits and what follows them |
| `AbandonRun`, `CheckCancellation`, `FinishCancelledTask`, `FailOrRetryTask` | the catch block |
| `LeaseRunsOut`, `TimeToLivePasses` | `NOW()` passing a deadline |
| `Crash`, `DbFault` | a process dies; a database error outside the try block |

Time is what statements compare with `NOW()`: a lease is none, live or past, a
row's time to live has passed or not. Back-off only delays a claim, which may be
delayed anyway. A random token is the number of the claim that minted it. The
provider and model work of a run is one step that succeeds or fails.

### 2.2 PlanLifecycle

`plans`, `votes`, `confirmations`, `members` are tables. `rounds`, `changes`,
`voting` and `confirming` hold the open transaction of a handler: what it has
read and will act upon. A handler is a reading step, a committing step and a
rollback. A vote's `SELECT ... FOR UPDATE` is `voting[m]`, and every write of a
locked plan waits for it. A round has at most one plan (see finding
`queue_destinations`), so the two share a name. Consents, memory, trip facts and
search preferences are one set `sources`, the changes committed so far: a
fingerprint is equal to another if and only if no change was committed in between.
`content` is what the snapshot was projected from and `fingerprint` what it says it
was taken from; the two are read at different moments, on different connections.
A round reads the `version` of its plan when it begins, before the providers and
the model are asked, and uses it when it publishes. `overlaps` is an observer that
no action reads: for each plan the changes whose transactions were open together
with its snapshot's or its publication's, less those that were rolled back or have
marked it STALE.

| action | code |
|---|---|
| `TakeSnapshot`, `AcceptRound` | the planning route: `createConstraintSnapshot`, then `acceptPlanningTask` |
| `BeginReplan`, `AcceptReplan` | `processChangeEvent` |
| `ReadVersion` | the first statements of `generatePlan` |
| `CheckSources`, `Publish` | the publishing transaction of `generatePlan` |
| `SelectLivePlans`, `CommitChange` | the stale cascade and the change that calls it |
| `ChangePlace` | adopting or revoking a place |
| `BeginVote`, `CommitVote`, `AdoptAlone`, `Activate` | `castVote`, `soloAdoptProposedPlan`, `activateProposedPlan` |
| `BeginConfirm`, `CommitConfirm` | `setConfirmation` |
| `RollBack...`, `FailRound` | errors, deadlocks the database breaks, failed runs |

### 2.3 Booking

Extends `PlanLifecycle` with `bookings`, the gates a submission has passed
(`submitting`) and the callbacks (`events`: none, open in a transaction,
claimed). An idempotency key commits with its transaction, and a second
transaction with the key waits for the first, so a repetition changes nothing and
is a stutter. `Reservation` sees neither gates nor transactions: of a submission only
`InsertBooking` is visible (`Reserve`), of a callback only its last step (`Decide`,
`Ignore`), and of the plans only that `AgreedPlans` grows (`Agree`). Members, votes and
changes go on while a submission is between its gates.

### 2.4 MemoryObservation

One user and one field. `outbox` is the rows of the memory events, `session` what
each slot of a Worker is doing with the event it claimed, `claimed` the
idempotency keys of episodes, `suggestions` and `facts` the tables, `day` the
calendar that expiry and cooldown are counted in. `evidence`, `times`, `underway`
and `disregarded` are observers that no action reads; `underway` keeps for each
suggestion the episodes that had been looked at, and not written yet, when it was
dismissed or expired. An *episode* is a value
confirmed in a trip; several events may report one. A suggestion is named by the
episode that opened it, which names it uniquely because an episode counts once
(`EpisodeCountedOnce`).

| action | code |
|---|---|
| `Enqueue` | `enqueueMemoryObservation`, inside the confirming transaction |
| `Claim`, `TimeOut` | `CLAIM_OBSERVATION_SQL`; a lease or a backoff passes |
| `Disregard`, `DuplicateEpisode`, `InCooldown`, `BeginObservation` | the worker's checks and the first statements of `aggregateObservation` |
| `LockPending`, `UpdateSuggestion`, `InsertSuggestion` | the locked read and the write of the suggestion |
| `ParkUnreadable`, `FailObservation`, `Park`, `Release`, `Settle` | an unreadable payload, the catch block, `settleMemoryObservation`, `releaseMemoryObservation` |
| `Crash`, `SlotDies` | a Worker process dies; a database error outside the try block |
| `ConfirmLapsed`, `Confirm`, `Dismiss`, `Sweep` | `confirmProposal`, `dismissProposal`, `expireStaleProposals` |
| `StateField`, `ClearField`, `DeleteField`, `DeleteProfile` | the profile form and the memory routes |

A lease has run out or not, untimed. The order in which due events are claimed is
left open. Whether a payload can be read is left open too, and a profile that was
deleted is not made again.

### 2.5 TripConstraints

The proposals of one trip, the batches extracted from its threads, and the facts
of three kinds. `sessions` holds the open transaction of a confirmation (its row
locks and the revision it has read) or of a handoff (first the trip's lock, then
the batch's and the thread's); `answered` is the idempotency records; `madeBy` and
`handoffs` are histories. A `Request` is an idempotency key with what it asks
for, so a retry is the same request.

| action | code |
|---|---|
| `InsertProposal`, `FindProposal` | `proposeConstraint` |
| `PersistBatch` | the transaction of `extractConversationHandoffBatch` |
| `Dismiss` | `dismissConstraintProposal` |
| `DeleteThread` | `DELETE /threads/:threadId` |
| `LockProposal`, `Confirm` | `confirmConstraintProposal`: locked read, then the writes |
| `LockTrip`, `LockBatch`, `Handoff` | `confirmConstraintHandoffBatch` |
| `GiveUp` | a rollback: refused consent, a violated index, a broken deadlock |
| `Upsert`, `Revoke` | `upsertConstraintFactDirect`, `revokeConstraintFact` |
| `Save`, `DeleteMemory` | `saveOverride`, `saveGroupDecision`, `deleteTripMemory` |

The handlers in the last two rows act on rows they lock and are one step;
`expectedRevision` adds nothing there, because a fact id names one immutable
version. `ConstraintAnswers` sees no locks, keys or threads: an insert puts
questions, a dismissal or a deleted thread declines them, a confirmation accepts
one, a handoff starts its batch; edits, revocations and the trip memory are
invisible to it, because a fact that a proposal became is never removed. The
catalogue, consents and membership can only refuse, which is a
request that never starts or gives up. Ids of facts are interchangeable.

## 3. Runs

| run | instance | shows |
|---|---|---|
| `queue_one_run` | one conversation, 2 slots, 3 attempts, 1 crash, 1 dead slot, cancellation at any time | types, running rows have a lease, no shared token, announced outcomes are true, settled rows are final, the abstract life cycle with its liveness |
| `queue_planning` | REPLAN over 2 destinations and PROPOSE_PLAN on one trip, 2 slots, 2 attempts, late reads of the token allowed | one active run, at most one result, revocations win |
| `queue_threads` | conversation and the personal run confirmed from it, 2 slots, 3 attempts | one active run, queued rows can be claimed, bounded claims, the abstract life cycle |
| `plan_rounds` | a research round and a REPLAN, a founder and a joiner, a change that may overlap anything | types, unanimity, decisions follow adoption, a version read early stays free, only overlapping changes are missed, `GroupDecision` |
| `booking_sandbox` | the same rounds, 2 founders, a change that may overlap anything, 1 request, 2 callbacks | booked plans were agreed on, claimed events are settled, `Reservation` |
| `memory_evidence` | an earlier suggestion and two events of the same value, 2 slots whose leases may run out, failing transactions, 3 days, owner and sweep at any moment | types, an episode counts once, counts are evidence, nothing processed unobserved, a cooldown is passed only by an observation under way, one fact per suggestion, `EvidenceLedger` |
| `memory_delivery` | one event, 2 slots of which one may die, 2 attempts, 1 crash, a version stated in the form | attempts stay bounded, every event and every lapsed suggestion is settled in the end |
| `trip_constraints` | a form proposal delivered twice, a batch of 2, 2 single confirmations, a dismissal, 2 handoffs of disjoint selections, thread deletion, 2 members' trip memory on one field, 3 facts | types, one fact per confirmed proposal, answers are final, one handoff per batch, pending candidates have a thread, one row per request, `ConstraintAnswers` |

Four runs refute a sentence of the repository; each is one finding of
`PROJECT.json`, which quotes the sentence.

| run | refuted |
|---|---|
| `queue_destinations` | one plan per destination candidate: the first plan's transaction settles the run |
| `plan_current` | a plan whose sources moved is discarded: one stays under vote that a change, open while it was published, has not found |
| `booking_callbacks` | a late callback does not overwrite the result: two that overlap do |
| `trip_kinds` | active uniqueness is per kind: confirming a constraint retires the member's override, or a group decision the member recorded, on the same field |

### 3.1 Bounds

* **Two slots** are enough for every race over a row: one slot that holds a stale
  session and one that owns the row. **Two tasks** are enough for supersession
  and the unique indexes, which relate pairs.
* **MaxAttempts** 2 or 3 exercises a retry, a retry after a retry, and
  exhaustion. Three is the code's value, used in `queue_one_run` and in
  `queue_threads`: the personal handler counts an attempt on its own, and with two
  its requeue would never be taken.
* **MaxCrashes**, **MaxDbFaults** bound faults. A crash sends a slot to the top of
  its loop with its row still leased, so one crash per attempt adds nothing that
  an expired lease does not; only the dead slot is new, and one of two is enough.
* **Cancellable** bounds which runs a client may cancel, to keep instances small.
* **Destinations** 2 is the smallest number for which the loop repeats.
* **Plan** is one round of either kind: a REPLAN cancels a round in flight, and
  both may have a proposal open at once, which is what supersession is about.
* **Change** 1: what `OnlyOverlapsAreMissed` says of a plan it says of each change
  by itself, and one change can come before, during or after each of the two rounds'
  snapshots and publications. A change rolled back may be tried again.
* **Member** 2 with one founder has the solo adoption, the joiner and the vote of
  two; in `booking_sandbox` both are founders so that the quorum is two.
* **Event**, **Episode**: two new observations beside an open suggestion of the
  same value give a lost update, a duplicate and a cooldown; a third meets no new
  row. **MaxDay** 2 with `Life` and `Cooldown` 1 lets a suggestion lapse, be
  suppressed, and the suppression end. **MaxFaults** 1 is one crash or one
  dead slot; `Immortal` names a slot whose own statements never meet a database
  error, for if every slot is dead nothing is settled (section 6).
  **MaxVersions** bounds the facts the form writes; it is 0 in `memory_evidence`,
  where the fact comes from a confirmation, and 1 in `memory_delivery`; the theorems
  of 4.4 have any number. Refused values and several
  events of one episode are in the module and its proofs, not in these instances.
* **Proposal** 4, **Request** 6: each pair of ways to resolve a proposal meets on
  some row. **Fact** 3, **MaxRevision** 3 let an override, a constraint and a new
  version of one coexist.
* Symmetry is over slots, callbacks, the two new events of `memory_evidence` and the
  ids of facts only, in runs without liveness.
* Deadlock is checked in the queue runs (slots poll for ever). It is off elsewhere:
  when every round, change and booking is over and nobody votes, when every event
  is settled on the last day, or when every request is answered and the ids of
  facts are used up, those handlers have nothing to do.

### 3.2 Switches that name an assumption

Two constants make an assumption explicit that the code does not enforce.

* `ReadWithinLease`: a slot's SELECT of the row it claimed happens within the
  lease. `NoSharedLease` needs it; `queue_planning` runs without it and shows that
  results are committed once all the same.
* `CallbacksOverlap` = FALSE: the callbacks of a booking are delivered one at a
  time. `ImplementsReservation`, which `booking_sandbox` checks, needs it;
  `booking_callbacks` shows `ResultIsFinal` broken without it, and theorem
  `LateCallbacksChangeNothing` says what is kept.

The plans and the memory have no such switch. Changes overlap snapshots and
publications, and answers overlap observations, as they may in the code; the
properties say which overlap is not noticed, and that nothing else gets by.

### 3.3 Fairness

`queue_one_run` and `memory_delivery` use fairness. In the first it is weak
fairness of `Progress(w)` (a live slot's loop; model and provider calls have
deadlines, so it does not hang), of `RequestCancellation` (a handler that has read
the row goes on), and of `LeaseRunsOut` and `TimeToLivePasses` (time passes).
Nothing is assumed of clients, of the renewal timer, or of faults. A slot that is
`dead` has no `Progress` step, and nothing in the code restarts it; liveness then
rests on another slot, which `queue_one_run` has.

In `memory_delivery` it is weak fairness of `Work(w)` and `Claim(w, e)` (the loop of
a memory slot, for every event: with one due event this is the loop's own claim),
of `TimeOut(e)` and of `Sweep`, which the loop runs between events. Nothing is
assumed of the owner, nor that days pass.

The plans and the constraints have no liveness property: no handler is obliged to
act.

## 4. Proofs

### 4.1 The queue

`AgentTaskQueueProofs` and `AgentTaskQueueRefinement` hold for every set of
tasks, slots, trips and threads, every number of attempts, destinations, crashes
and faults, under `QueueAssumption` alone (types of the constants; a run has a
thread exactly when its operation is bound to one).

* **The inductive invariant** `QueueInv` (theorem `QueueInvariant`) is `TypeOK`,
  `RowInv` of every row and `Matches` of every engaged slot. None of the safety
  invariants is inductive by itself. `ResultAtMostOnce` needs to know that a
  RUNNING row has no result yet, and `ClaimsBounded` that the claims counted by
  `generation_attempt` never exceed `attempt_count`, which the personal handler
  moves on its own. `RowInv` has these, and that a token is the number of a claim
  made earlier. `Matches` relates a slot's locals to its row: if the tokens are
  still equal, so are the attempt counts, which is why a retry decided from a
  local is decided rightly.
* **The argument**: every step changes a row in one of the ways `RowChange` lists
  (lemma `RowChanges`: one case per action) and a slot in one of the ways
  `SlotChanges` lists; `RowInv` is kept by each kind of row change and `Matches`
  by each pair. The invariants `ResultAtMostOnce`, `ClaimsBounded`,
  `QueuedIsClaimable` and `RunningHasLease` follow.
* **Action properties**: `RevocationWins` and `TerminalIsFinal` follow from
  `RowChange` and the invariant. `TerminalIsFinal` has the hypothesis that no task
  is a personal research: confirming one marks its conversation COMPLETED whatever
  its status. `SettledRunsStay` says it run by run and without the hypothesis: only a
  *draftable* conversation, one whose thread a personal research can come from, is
  ever rewritten.
* **AnnouncedOutcomeIsTrue** relates what the Worker announced to what the row
  says now. `AnnounceInv` adds what is committed before it is announced: a slot
  about to announce a completion has a run that is settled as completed. It is kept
  because a settled run stays (`SettledStatusKept`), the sweep announces only what it
  has just failed (`SweepAnnounces`), and the catch block what it has just written
  (`WriteAnnounces`). Theorem `AnnouncementsTrue` has it unconditionally for every run but
  two kinds: a personal research, whose failures are announced as completed (section
  6), and a draftable conversation. `OutcomesAnnouncedTruly` is the run's property,
  which follows where no personal research can be confirmed.
* **OneActiveRun** is proved from the guards of the accepts: a step makes at most
  one row active, and only when no rival is.
* **NoSharedLease** has the hypothesis `ReadWithinLease` and the stronger
  invariant `LeaseInv`: a slot that is about to read its row is the only one, and
  the token it will find is newer than that of any slot at work.
* **ImplementsLifecycle**: initial states map to initial states and every step to
  one of `TaskLifecycle` or a stutter (`StepCounts` says what a step adds to
  results and claims, `QuietStep` that the rest gives up a set of requests or
  stutters).

### 4.2 The plans

`PlanLifecycleProofs` and `PlanLifecycleRefinement` hold for every set of rounds,
members and changes, under `PlanAssumption` alone (a founder exists and is a
member, `NoPlan` is not a plan). No set need be finite.

* **Types** take `VersionsBounded`: some number bounds the versions in use, so the
  largest, and with it `NextVersion`, exists. The library's well-foundedness of
  `<` on the naturals gives the least bound (lemma `NextVersionIsNew`).
* **The inductive invariant** `PlanInv` (theorem `PlanInvariant`) adds to the two
  safety invariants what they rest on. `AdoptionIsUnanimous` alone would be broken
  by a ballot that lands on a plan that is ACTIVE already, or on one counted over
  members who are not all there: `VotesLock` (a vote in progress is a member's, on
  a PROPOSED plan, and alone) excludes the first, `MembersGrow` and
  `VotersAreMembers` (who has voted is a member) the second.
  `DecisionsFollowAdoption` would be broken by a cascade that marks a plan that
  does not exist yet: `RoundsComeFirst` excludes it.
* **The argument**: lemmas list what any step may do to a plan's status
  (`StatusChanges`), to a ballot (`BallotChanges`), to a lock (`VotingChanges`,
  `OnlyVotesUnlock`), to a decision (`DecisionChanges`) and to a round
  (`RoundChanges`); each conjunct is kept by each kind of change. A step that makes
  a plan ACTIVE counts the ballots it leaves behind (`AdoptingStep`).
* **VersionsStayFree** needs that at most one round is active (`OneActiveRound`,
  from the guards of `AcceptRound` and `AcceptReplan`), that a round has read no
  version before it is active (`UnreadBefore`), and that only an active round
  publishes: so nothing takes the version while the round is at work. The unique
  index on trip and version, which `Publish` looks at, is not used.
* **MissedChangesOverlapped** rests on `Sees`: a change that is committed and not in
  `overlaps` is in the snapshot's content, and one committed before the fingerprint
  was taken and not in `overlaps` likewise, which is where the second fingerprint
  comes in; and on `LiveChanges`, an open cascade either has the plan among its
  targets or overlaps it. No hypothesis is needed on how changes and rounds meet.
* **PlansImplementGroupDecision**: initial states map to initial states; a
  publication makes an offer (`MakeStep`), a cascade, a change event or a change of
  places closes those it finds open or chosen (`CloseStep`), a vote declares a
  member and may choose (`VoteStep`, on `ActivateChange`), the rest stutters.

### 4.3 The bookings

`BookingProofs` holds for every set of requests and callbacks, under
`BookingAssumption` (each event reports on a request). Every step of the sandbox
is a step of the plans or leaves them alone (`PlansStep`), so `PlanInv` holds
here too. `BookingInv` adds what a submission has passed its gates with: the plan
is `Adopted`, and after the second gate `Decided` by every founder. Both are kept
by every step of the plans (`AdoptedStep`: nobody votes on a plan that is not
PROPOSED; `DecidedStep`: a confirmation is overwritten or marked, never deleted),
which is why gates read at different moments are enough for
`BookedPlanWasAgreed`.

**LateCallbacksChangeNothing** has no hypothesis on deliveries. A booking is `Closed`
once it is settled and no callback that has read it PENDING is open; no step opens one
again, because a callback opens only on a PENDING booking, so the row is final from
then on, whatever else overlaps.

**BookingImplementsReservation** has the hypothesis `~ CallbacksOverlap`, by which the
booking a callback has read is still PENDING when it writes (`CallbacksAlone`). `AgreementGrows` says that
no step of the plans takes a plan out of `AgreedPlans`, so what happens while a
submission is between its gates is an `Agree`; an insert finds its plan there by
`BookingInv`, and a callback that settles finds the booking PENDING by
`CallbacksAlone`. Without the hypothesis the second callback is a step that
`Reservation` does not have.

### 4.4 The memory

`MemoryObservationProofs` holds for every set of events, episodes, values and
slots under `MemoryAssumption` (an episode has one value, the earlier suggestions
are of different ones).

* **The inductive invariant** `MemoryInv` (theorem `MemoryInvariant`) ties the
  sessions to the tables. `EpisodeCountedOnce` rests on `KeysSound`: at most one
  open transaction has an episode's key, and none once it is committed.
  `CountIsEvidence` rests on `LocksSound`: the count a slot has read is that of the
  suggestion it has locked. `ConfirmedFactsOnce` rests on the guard under that
  lock, and on suggestions being named by an episode that is used once.
* **AttemptsAreBounded**: no conjunct of `MemoryInv` says how often an event is
  claimed, because claims beyond the limit come from late sessions: one that lost
  its lease still settles by event id, and may put an event back that another slot
  has parked. `AttemptsInv` counts what is owed. A session is *young* if it holds an
  attempt below the limit: only such a session puts the event back, and it does so
  once. Each time it does, every slot that is not young can claim once more.
  With y young sessions these are `Slots-y+1`, ..., `Slots` claims (`TwiceReopened(y)` is
  twice their sum) beside those that are possible already (`Claims`). The claims made
  beyond the limit and the faults, and those that may follow, never exceed
  `(Slots-1)(Slots+2)/2` together. The lemmas say how a claim, a return and the end of a
  session move the three numbers. The bound is reached: three slots and three attempts
  give eight attempts without any fault. The proof assumes that there are finitely
  many slots (`WorkerAssumption`).
* **CooldownsHonoured** rests on `CoolingNoted`: whatever suppresses the value that a
  transaction observes was suppressed after it had looked, and has its episode in
  `underway`. A retirement keeps it because it waits for the lock on the row: by
  `OnePending` and `LocksSound` a transaction on that value has then not locked it, so
  it is among those the retirement records (`RetirementNoted`). The write adds the
  episode to the evidence of the suggestion whose window it opens.
* **MemoryImplementsLedger**: an observation is a `Count`, a suppressed one a
  `Disregard`, an answer, a lapse or a deletion a `Drop`; deliveries, retries,
  crashes and settlements stutter.

### 4.5 The constraints

`TripConstraintsProofs` holds for every set of proposals, batches, threads,
requests and facts under `ConstraintAssumption` (the columns of a proposal, one
candidate for a field of a batch, what a request names).

* **The inductive invariant** `IInv` (theorem `ConstraintInvariant`) is the five
  invariants of the run with three facts they rest on. `LocksHold`: the rows an open session
  has locked are PENDING and nobody else's, so what it found under the lock is true
  when it writes; without it neither `ConfirmedOnce` nor `HandoffOnce` is
  inductive. `HandoffsConfirmed`: a handoff left a CONFIRMED row in its batch, so a
  second one cannot find all of them pending. `WritersAnswered`: who wrote a row has
  an idempotency record, so does not write another.
* **The argument**: `FactsStep(S)` says what a step may do to the facts (those of
  proposals stay, one is added for each of S); one lemma shows it of each writer,
  and `Confirming` that such a step keeps `ConfirmedOnce` if exactly S becomes
  CONFIRMED. `LocksTaken`, `LocksUndisturbed` and `LocksReleased` cover the
  sessions. Then one lemma per action.
* **AnswersFinal** follows from `LocksHold`: whoever writes a status has found the
  row pending under its lock, or absent (lemma `AnswerStep`).
* **ConstraintsImplementAnswers**: `StatedStep` turns `FactsStep(S)` into what the
  abstract specification says of the facts: each of S becomes one whose id was
  free, everything else a proposal has become is untouched. `LocksHold` gives that what a
  confirmation or a handoff accepts is still open, `HandoffsConfirmed` that the batch
  has not started.

## 5. Model-checked only

Liveness (`ImplementsFairLifecycle` of the queue, `EventuallySettled` and
`LapsedRetired` of the memory) is out of the prover's reach.
Every safety invariant, action property and safety refinement of a passing run has
a theorem in section 4; what TLC alone shows is that something happens at all.
`AnnouncedOutcomeIsTrue` is stated of conversations in its run: it is false of
personal runs, whose failures the Worker announces as completed (section 6).

## 6. Disagreements without a run

Met while reading, each either a consequence of a modelled behaviour or outside
the model:

* The retry of a personal research writes `attempt_count + 1` after the claim has
  counted the attempt (`tasks/task-repository.ts:783`), so it gives up after two
  claims instead of three; `:767` says it mirrors `failOrRetryTask`, which adds none.
  The model has it.
* A database error in the recovery scan or the claim ends a slot for good
  (`workers/worker-main.ts:88`), and with the default of one slot an accepted run is
  then never settled, although
  `docs/durable-agent-execution-implementation.md:188` has every Worker recover
  abandoned runs. The model has it (`DbFault`); a memory slot dies the same way
  (`SlotDies`).
* The probe of a REPLAN takes any active run of the trip, whatever its operation, and
  cancels it (`tasks/task-repository.ts:298`): with a member's conversation or personal
  research active, that run is cancelled, and an older planning round is left in
  place, so that the unique index rejects the REPLAN. The comment at `:306` says it
  "supersedes an older planning round". The model has it (`AcceptReplan`).
* A confirmation read before a cascade and written after it puts CONFIRMED over STALE
  (`services/confirmation-service.ts:29`). The plan itself stays STALE and cannot be
  booked. The model has it, and `DecisionsFollowAdoption` allows it.
* A plan may go STALE, or a member ask for changes, between the gates of a booking and
  its insertion (`services/booking-service.ts:75`); the booking is inserted all the
  same. The model has it, and `BookedPlanWasAgreed` says no more than that the plan
  was adopted and everybody had decided.
* Adopting the plan of a second round leaves the first one ACTIVE
  (`services/planning-service.ts:2632` supersedes PROPOSED plans only), and a
  booking takes either; `docs/backlog.md:185` says the latest. The model has it.
* After a personal run failed the Worker announces `turn.completed`
  (`workers/agent-task-worker.ts:212`).
* Confirming a personal research marks its conversation run COMPLETED whatever
  its status (`tasks/task-repository.ts:592`), one that FAILED too. The model has it,
  and no property forbids it: without a result the run stays void in `TaskLifecycle`.
* A plan finalized after its lease ran out, but before anyone reclaimed the run,
  makes the run FAILED: the guard of the publishing transaction throws an error
  the Worker classifies as permanent. `docs/durable-agent-execution-implementation.md:155`
  expects a retry. Conversations and research finalize in the same situation:
  their guards compare token and status, never the expiry. The model has both.
* For PROPOSE_PLAN, `completeResearchTask` runs after `generatePlan` has settled
  the row, so its guard fails and the run's completion is not announced.
  The model has it.
* `requestAgentTaskCancellation` records its event even if the update matched no
  row (`tasks/task-repository.ts:932`); `completePersonalResearchTask` inserts
  its event after the transaction (`:742`).
* A rejected promise in the renewal timer (`workers/agent-task-worker.ts:185`) is
  not handled.
* Marking an invitation EXPIRED is undone by the error thrown after it
  (`services/trip-invitation-service.ts:208`).
* Accepting, declining and revoking an invitation read its status without a lock
  and write by id (`services/trip-invitation-service.ts:342`): a revoked invitation
  can admit, and an accepted one end REVOKED or DECLINED while the member stays.
* The cooldown is read before the suggestion is locked
  (`services/memory-proposal-service.ts:297`), so a dismissal in between is not
  seen and the value is suggested again; `docs/long-term-memory-implementation.md:305`
  says it stays suppressed. The model has it, and `CooldownHonoured` makes it the only
  exception.
* Deleting a fact deletes the suggestions of its field, but events still in the
  outbox raise them again (`routes/profile-memory.ts:175`). The model has it.
* An observation that is processed late moves a suggestion's expiry back
  (`services/memory-proposal-service.ts:369`). The model has it.
* The attempt limit of an observation is checked in the catch block only
  (`workers/memory-observation-worker.ts:133`): each Worker that dies adds an
  attempt beyond it, and so do late sessions that put the event back.
  `AttemptsBounded` says by how many.
* A slot whose lease ran out may reopen or park an event that another slot has
  processed (`services/memory-observation-bridge.ts:215`); the episode's key makes
  it harmless.
* The revision of a constraint is derived from a read without a lock
  (`services/constraint-proposal-service.ts:489`), although the comment at `:899`
  lists the ACTIVE facts among what a handoff locks. After a concurrent edit or
  revocation a revision may repeat. The model has it.
* A candidate that equals a pending proposal rejects its whole batch, and
  `extractConversationHandoffBatch` throws though it says it never does
  (`services/conversation-handoff-extraction-service.ts:106`). A batch of which one
  candidate was confirmed or dismissed alone can never be handed off. The model
  has both.
* The guard before a planning run's result re-reads the manifest of the run's own
  snapshot, which never changes (`services/snapshot-manifest-guard.ts:40`), so it
  cannot notice "a mutation that landed in between"; if it ever fired, its
  `UPDATE ... SET` without columns (`tasks/handlers/planning-task-handler.ts:168`)
  would fail.
* Thread deletion, single confirmation and handoff lock thread, proposal and trip in
  different orders; the database breaks the deadlock, and the loser is an error of
  its client (`GiveUp`).
* A change of places stales ACTIVE plans only, not PROPOSED ones. The model has it.

## 7. Not modelled, and why

* The content of plans, evidence, messages and snapshots: the properties are about
  who may write which row when.
* Output validation, constraint catalogues and parsing: pure functions over large
  records, which tests reach.
* Model gateway, provider adapters and caches: a run sees success, a retryable or
  a permanent failure.
* The live stream's transport: only the last terminal event of a run is kept.
* Trip deletion and reset: they remove all rows of a trip.
* Authentication, logs, metrics, traces; of the profile only what the memory needs.
* Invitations beyond `Join`: four short handlers, whose races are listed in
  section 6; the plans only need that who has joined stays.
* Research drafts and cue batches, trip briefs, message sequences: next in the plan,
  or sequential.
* `markPlanStale` and `supersedePriorProposedDraft`, which nothing calls, and the
  proactive introduction, which nothing enqueues.

## 8. Plan

1. *(done)* `AgentTaskQueue` with `TaskLifecycle`; its invariants, refinement and
   proofs. It comes first because every other part trusts it.
2. *(done)* `PlanLifecycle` with `GroupDecision`, and `Booking`.
3. *(done)* `MemoryObservation` with `EvidenceLedger`.
4. *(done)* `TripConstraints`.
5. Research drafts and cue batches.
6. `Invitation`, composed with `Join`: accept, decline, revoke and expire read
   without a lock.
7. The run that refutes "the latest plan is booked" (section 6).
8. Proofs. *(done)* The queue, the plans, the bookings, the memory, the
   constraints with every safety property of the runs and all five refinements
   (section 4). Left: what a confirmation leaves of the facts of other members and
   fields.
