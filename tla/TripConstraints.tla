---------------------------- MODULE TripConstraints ----------------------------
(***************************************************************************)
(* The constraint proposals of one trip and the facts they become          *)
(* (apps/api/src/services/constraint-proposal-service.ts), the batches of  *)
(* proposals that the conversation agent extracts and the member hands off *)
(* to planning (conversation-handoff-extraction-service.ts), and the trip  *)
(* memory that shares the table of the facts (trip-memory-service.ts).     *)
(*                                                                         *)
(* Handlers are database transactions at READ COMMITTED.  A confirmation   *)
(* and a handoff read the revision of the current fact without locking it; *)
(* they are several steps, and a session holds their row locks and what    *)
(* they have read.  The others act on rows they lock and are one step.  A  *)
(* step waits for the locks it needs; GiveUp is a rollback, whether of an  *)
(* error, a refused consent, a unique index or a deadlock (a confirmation  *)
(* locks its proposal before the trip, a handoff the trip first).          *)
(*                                                                         *)
(* The plans that a change of the facts makes stale are those of           *)
(* PlanLifecycle, the run it accepts is one of AgentTaskQueue, and the     *)
(* observation it queues is one of MemoryObservation.                      *)
(***************************************************************************)
EXTENDS Naturals

CONSTANTS
  Proposal,       \* the rows that trip_constraint_proposals may hold
  Content,        \* their owner, field, value and batch
  Batch,          \* the extracted batches
  Thread,         \* chat threads of the trip
  ThreadOf,       \* ThreadOf[b]: the thread a batch was extracted from
  Request,        \* idempotency keys of the members' requests
  Asks,           \* what a request asks for, and of which rows
  Member,
  Field,          \* field keys of the constraint catalog
  MemoryField,    \* those that the memory catalog has too
  Value,
  Fact,           \* ids for the rows of trip_constraint_facts
  MaxRevision,    \* bound: no fact is written with a higher revision
  NoBatch, NoFact, NoProposal

Rows(b) == {p \in Proposal : Content[p].batch = b}

MemoryKind == {"PERSONAL_OVERRIDE", "GROUP_DECISION"}

FactRow == [kind : MemoryKind \cup {"MEMBER_CONSTRAINT"}, owner : Member, field : Field,
            status : {"ACTIVE", "SUPERSEDED", "REVOKED"}, revision : 1..MaxRevision,
            source : Proposal \cup {NoProposal}]

\* trip_constraint_proposals_batch_field_unique: one candidate for a field.
\* A proposing request names the rows its insert may create, all alike.
ASSUME ConstraintAssumption ==
  /\ Content \in [Proposal -> [owner : Member, field : Field, value : Value,
                               batch : Batch \cup {NoBatch}]]
  /\ ThreadOf \in [Batch -> Thread]
  /\ Asks \in [Request -> [op : {"propose", "dismiss", "confirm", "handoff"},
                           rows : SUBSET Proposal]]
  /\ MemoryField \subseteq Field
  /\ MaxRevision \in Nat
  /\ NoBatch \notin Batch
  /\ NoFact \notin FactRow
  /\ NoProposal \notin Proposal
  /\ \A b \in Batch : \A p, q \in Rows(b) :
       Content[p].owner = Content[q].owner /\ (Content[p].field = Content[q].field => p = q)
  /\ \A r \in Request :
       /\ Asks[r].op = "propose" =>
            \A p, q \in Asks[r].rows : Content[p] = Content[q] /\ Content[p].batch = NoBatch
       /\ Asks[r].op = "handoff" =>
            Asks[r].rows # {} /\ \E b \in Batch : Asks[r].rows \subseteq Rows(b)
       /\ Asks[r].op \in {"dismiss", "confirm"} => \E p \in Proposal : Asks[r].rows = {p}

VARIABLES
  proposals,      \* trip_constraint_proposals: status, "none" without a row
  madeBy,         \* history: the request that wrote a proposal of the form
  threads,        \* chat_threads that exist
  facts,          \* trip_constraint_facts
  sessions,       \* the open transaction of a request and what it has read
  answered,       \* idempotency_records
  handoffs        \* history: planning runs accepted for a batch

vars == <<proposals, madeBy, threads, facts, sessions, answered, handoffs>>

NoSession == [step |-> "idle", latest |-> [p \in Proposal |-> 0]]

Init ==
  /\ proposals = [p \in Proposal |-> "none"]
  /\ madeBy = [p \in Proposal |-> {}]
  /\ threads = Thread
  /\ facts = [f \in Fact |-> NoFact]
  /\ sessions = [r \in Request |-> NoSession]
  /\ answered = {}
  /\ handoffs = [b \in Batch |-> {}]

-----------------------------------------------------------------------------
(* Rows and locks                                                           *)

IsActive(f) == facts[f] # NoFact /\ facts[f].status = "ACTIVE"

\* The lookups of the constraint service match trip, owner and field.
ActiveOf(member, field) ==
  {f \in Fact : IsActive(f) /\ facts[f].owner = member /\ facts[f].field = field}

\* The revision of the newest active fact, 0 without one.
IsLatest(n, member, field) ==
  LET active == ActiveOf(member, field)
  IN IF active = {} THEN n = 0
       ELSE \E f \in active : /\ n = facts[f].revision
                              /\ \A g \in active : facts[g].revision <= n

\* The partial unique indexes of trip_constraint_facts, one per kind.
UniqueActive(rows) ==
  \A f, g \in {x \in Fact : rows[x] # NoFact} :
    (/\ rows[f].status = "ACTIVE" /\ rows[g].status = "ACTIVE"
     /\ rows[f].kind = rows[g].kind /\ rows[f].field = rows[g].field
     /\ rows[f].kind = "GROUP_DECISION" \/ rows[f].owner = rows[g].owner)
    => f = g

Retired(F, status) ==
  [f \in Fact |-> IF f \in F THEN [facts[f] EXCEPT !.status = status] ELSE facts[f]]

BatchOf(r) == CHOOSE b \in Batch : Asks[r].rows \subseteq Rows(b)

\* A handoff locks every row of its batch.
LockedRows(r) ==
  IF sessions[r].step # "open" THEN {}
    ELSE IF Asks[r].op = "handoff" THEN Rows(BatchOf(r)) ELSE Asks[r].rows

Locked(p) == \E r \in Request : p \in LockedRows(r)
TripLocked == \E r \in Request : Asks[r].op = "handoff" /\ sessions[r].step # "idle"
ThreadLocked(t) ==
  \E r \in Request : /\ Asks[r].op = "handoff" /\ sessions[r].step = "open"
                     /\ ThreadOf[BatchOf(r)] = t

\* claimIdempotency: a key that is taken is answered from its record, and a
\* second delivery of an open request waits for the first.
Claims(r, op) == Asks[r].op = op /\ r \notin answered /\ sessions[r] = NoSession

\* What the lookups for the proposals S read.
Readings(S) ==
  {latest \in [Proposal -> 0..MaxRevision] :
     \A p \in Proposal : IF p \in S
                          THEN IsLatest(latest[p], Content[p].owner, Content[p].field)
                          ELSE latest[p] = 0}

-----------------------------------------------------------------------------
(* Proposals                                                                *)

\* trip_constraint_proposals_pending_unique.
PendingTwin(p) ==
  \E q \in Proposal : /\ proposals[q] = "PENDING" /\ Content[q].owner = Content[p].owner
                      /\ Content[q].field = Content[p].field
                      /\ Content[q].value = Content[p].value

\* Mutant: the key is not claimed.
InsertUnclaimed(r, p) ==
  /\ Asks[r].op = "propose"
  /\ p \in Asks[r].rows /\ proposals[p] = "none" /\ ~PendingTwin(p)
  /\ proposals' = [proposals EXCEPT ![p] = "PENDING"]
  /\ madeBy' = [madeBy EXCEPT ![p] = {r}]
  /\ answered' = answered \cup {r}
  /\ UNCHANGED <<threads, facts, sessions, handoffs>>

\* proposeConstraint ...
InsertProposal(r, p) ==
  /\ Claims(r, "propose")
  /\ p \in Asks[r].rows /\ proposals[p] = "none" /\ ~PendingTwin(p)
  /\ proposals' = [proposals EXCEPT ![p] = "PENDING"]
  /\ madeBy' = [madeBy EXCEPT ![p] = {r}]
  /\ answered' = answered \cup {r}
  /\ UNCHANGED <<threads, facts, sessions, handoffs>>

\* ... which answers with the pending proposal that says the same.
FindProposal(r) ==
  /\ Claims(r, "propose")
  /\ \E p \in Asks[r].rows : PendingTwin(p)
  /\ answered' = answered \cup {r}
  /\ UNCHANGED <<proposals, madeBy, threads, facts, sessions, handoffs>>

\* persistBatch writes the candidates of a run's reply in one transaction, of a
\* thread that exists.  It does not look for pending twins: with one of them the
\* index rejects the insert and the whole batch is lost.
PersistBatch(b) ==
  /\ Rows(b) # {} /\ \A p \in Rows(b) : proposals[p] = "none" /\ ~PendingTwin(p)
  /\ ThreadOf[b] \in threads /\ ~ThreadLocked(ThreadOf[b])
  /\ proposals' = [p \in Proposal |-> IF p \in Rows(b) THEN "PENDING" ELSE proposals[p]]
  /\ UNCHANGED <<madeBy, threads, facts, sessions, answered, handoffs>>

\* The guarded update of dismissConstraintProposal.
Dismiss(r, p) ==
  /\ Claims(r, "dismiss")
  /\ Asks[r].rows = {p} /\ proposals[p] = "PENDING" /\ ~Locked(p)
  /\ proposals' = [proposals EXCEPT ![p] = "DISMISSED"]
  /\ answered' = answered \cup {r}
  /\ UNCHANGED <<madeBy, threads, facts, sessions, handoffs>>

\* Mutant: the pending candidates are left to the foreign key (SET NULL).
DeleteThreadOnly(t) ==
  /\ t \in threads /\ ~ThreadLocked(t)
  /\ threads' = threads \ {t}
  /\ UNCHANGED <<proposals, madeBy, facts, sessions, answered, handoffs>>

\* Deleting a thread locks it, dismisses the candidates that came from it and
\* are pending, and deletes the row.
DeleteThread(t) ==
  LET pending == {p \in Proposal : \E b \in Batch : /\ ThreadOf[b] = t /\ p \in Rows(b)
                                                    /\ proposals[p] = "PENDING"}
  IN /\ t \in threads /\ ~ThreadLocked(t)
     /\ \A p \in pending : ~Locked(p)
     /\ proposals' = [p \in Proposal |-> IF p \in pending THEN "DISMISSED" ELSE proposals[p]]
     /\ threads' = threads \ {t}
     /\ UNCHANGED <<madeBy, facts, sessions, answered, handoffs>>

-----------------------------------------------------------------------------
(* Confirmation and handoff                                                 *)

\* Mutant: the status is not read again under the lock.
LockAnyProposal(r, p) ==
  /\ Claims(r, "confirm")
  /\ Asks[r].rows = {p} /\ proposals[p] # "none" /\ ~Locked(p)
  /\ \E latest \in Readings({p}) :
       sessions' = [sessions EXCEPT ![r] = [step |-> "open", latest |-> latest]]
  /\ UNCHANGED <<proposals, madeBy, threads, facts, answered, handoffs>>

\* confirmConstraintProposal locks the proposal, and reads the revision of the
\* owner's active fact without a lock.
LockProposal(r, p) ==
  /\ Claims(r, "confirm")
  /\ Asks[r].rows = {p} /\ proposals[p] = "PENDING" /\ ~Locked(p)
  /\ \E latest \in Readings({p}) :
       sessions' = [sessions EXCEPT ![r] = [step |-> "open", latest |-> latest]]
  /\ UNCHANGED <<proposals, madeBy, threads, facts, answered, handoffs>>

\* What both write: if an active fact was found, whatever is active by now is
\* superseded, of every kind, and a fact with the next revision is inserted.
WriteFacts(S, latest) ==
  LET superseded == UNION {ActiveOf(Content[p].owner, Content[p].field) :
                             p \in {q \in S : latest[q] # 0}}
  IN \E id \in [S -> {f \in Fact : facts[f] = NoFact}] :
       /\ \A p, q \in S : id[p] = id[q] => p = q
       /\ \A p \in S : latest[p] < MaxRevision
       /\ facts' = [f \in Fact |->
            IF \E p \in S : f = id[p]
              THEN LET p == CHOOSE q \in S : f = id[q]
                   IN [kind |-> "MEMBER_CONSTRAINT", owner |-> Content[p].owner,
                       field |-> Content[p].field, status |-> "ACTIVE",
                       revision |-> latest[p] + 1, source |-> p]
              ELSE Retired(superseded, "SUPERSEDED")[f]]
       /\ UniqueActive(facts')

\* The confirmation writes the fact, and its snapshot and run under the trip's
\* lock.
Confirm(r) ==
  /\ Asks[r].op = "confirm" /\ sessions[r].step = "open"
  /\ ~TripLocked
  /\ WriteFacts(Asks[r].rows, sessions[r].latest)
  /\ proposals' = [p \in Proposal |-> IF p \in Asks[r].rows THEN "CONFIRMED"
                                                            ELSE proposals[p]]
  /\ sessions' = [sessions EXCEPT ![r] = NoSession]
  /\ answered' = answered \cup {r}
  /\ UNCHANGED <<madeBy, threads, handoffs>>

\* confirmConstraintHandoffBatch locks the trip ...
LockTrip(r) ==
  /\ Claims(r, "handoff")
  /\ ~TripLocked
  /\ sessions' = [sessions EXCEPT ![r].step = "trip"]
  /\ UNCHANGED <<proposals, madeBy, threads, facts, answered, handoffs>>

\* Mutant: only the selected candidates have to be pending.
LockSelection(r) ==
  LET b == BatchOf(r)
  IN /\ Asks[r].op = "handoff" /\ sessions[r].step = "trip"
     /\ \A p \in Rows(b) : ~Locked(p)
     /\ \A p \in Asks[r].rows : proposals[p] = "PENDING"
     /\ ThreadOf[b] \in threads /\ ~ThreadLocked(ThreadOf[b])
     /\ \E latest \in Readings(Asks[r].rows) :
          sessions' = [sessions EXCEPT ![r] = [step |-> "open", latest |-> latest]]
     /\ UNCHANGED <<proposals, madeBy, threads, facts, answered, handoffs>>

\* ... then the batch, all of which must be pending, and its thread; it reads the
\* revisions of the selected fields ...
LockBatch(r) ==
  LET b == BatchOf(r)
  IN /\ Asks[r].op = "handoff" /\ sessions[r].step = "trip"
     /\ \A p \in Rows(b) : proposals[p] = "PENDING" /\ ~Locked(p)
     /\ ThreadOf[b] \in threads /\ ~ThreadLocked(ThreadOf[b])
     /\ \E latest \in Readings(Asks[r].rows) :
          sessions' = [sessions EXCEPT ![r] = [step |-> "open", latest |-> latest]]
     /\ UNCHANGED <<proposals, madeBy, threads, facts, answered, handoffs>>

\* ... and writes a fact for each selected candidate, and the planning run.  The
\* other candidates stay pending.
Handoff(r) ==
  /\ Asks[r].op = "handoff" /\ sessions[r].step = "open"
  /\ WriteFacts(Asks[r].rows, sessions[r].latest)
  /\ proposals' = [p \in Proposal |-> IF p \in Asks[r].rows THEN "CONFIRMED"
                                                            ELSE proposals[p]]
  /\ handoffs' = [handoffs EXCEPT ![BatchOf(r)] = @ \cup {r}]
  /\ sessions' = [sessions EXCEPT ![r] = NoSession]
  /\ answered' = answered \cup {r}
  /\ UNCHANGED <<madeBy, threads>>

GiveUp(r) ==
  /\ sessions[r] # NoSession
  /\ sessions' = [sessions EXCEPT ![r] = NoSession]
  /\ UNCHANGED <<proposals, madeBy, threads, facts, answered, handoffs>>

-----------------------------------------------------------------------------
(* Facts                                                                    *)

\* A new version f of the active fact old: the fact is locked, and its id names
\* the version the member has seen.
Replace(old, f, row) ==
  /\ facts[f] = NoFact
  /\ row.revision <= MaxRevision
  /\ facts' = [Retired(old, "SUPERSEDED") EXCEPT ![f] = row]
  /\ UniqueActive(facts')

\* upsertConstraintFactDirect takes a fact of any kind and writes a constraint.
Upsert(old, f) ==
  /\ IsActive(old) /\ ~TripLocked
  /\ Replace({old}, f, [kind |-> "MEMBER_CONSTRAINT", owner |-> facts[old].owner,
                         field |-> facts[old].field, status |-> "ACTIVE",
                         revision |-> facts[old].revision + 1, source |-> NoProposal])
  /\ UNCHANGED <<proposals, madeBy, threads, sessions, answered, handoffs>>

\* Mutant: the proposals' word for it.
RevokeAsDismissed(f) ==
  /\ IsActive(f) /\ ~TripLocked
  /\ facts' = Retired({f}, "DISMISSED")
  /\ UNCHANGED <<proposals, madeBy, threads, sessions, answered, handoffs>>

\* revokeConstraintFact takes a fact of any kind, too.
Revoke(f) ==
  /\ IsActive(f) /\ ~TripLocked
  /\ facts' = Retired({f}, "REVOKED")
  /\ UNCHANGED <<proposals, madeBy, threads, sessions, answered, handoffs>>

\* The scope of saveFact: a group decision is the trip's, an override its owner's.
InScope(f, kind, member, field) ==
  /\ facts[f] # NoFact /\ facts[f].kind = kind /\ facts[f].field = field
  /\ kind = "PERSONAL_OVERRIDE" => facts[f].owner = member

\* saveOverride and saveGroupDecision.
Save(kind, member, field, f) ==
  LET previous == {x \in Fact : IsActive(x) /\ InScope(x, kind, member, field)}
  IN \E revision \in 1..MaxRevision :
       /\ IF previous = {} THEN revision = 1
                           ELSE \E x \in previous : revision = facts[x].revision + 1
       /\ Replace(previous, f, [kind |-> kind, owner |-> member, field |-> field,
                                status |-> "ACTIVE", revision |-> revision,
                                source |-> NoProposal])
       /\ UNCHANGED <<proposals, madeBy, threads, sessions, answered, handoffs>>

\* Mutant: whatever the id names is removed.
DeleteAnyFact(f, member) ==
  /\ facts[f] # NoFact
  /\ facts[f].kind \in {"PERSONAL_OVERRIDE", "MEMBER_CONSTRAINT"} => facts[f].owner = member
  /\ facts' = [x \in Fact |-> IF InScope(x, facts[f].kind, member, facts[f].field)
                                THEN NoFact ELSE facts[x]]
  /\ UNCHANGED <<proposals, madeBy, threads, sessions, answered, handoffs>>

\* deleteTripMemory removes every version; constraints are not its to remove.
DeleteMemory(f, member) ==
  /\ facts[f] # NoFact
  /\ facts[f].kind \in MemoryKind
  /\ facts[f].kind = "PERSONAL_OVERRIDE" => facts[f].owner = member
  /\ facts' = [x \in Fact |-> IF InScope(x, facts[f].kind, member, facts[f].field)
                                THEN NoFact ELSE facts[x]]
  /\ UNCHANGED <<proposals, madeBy, threads, sessions, answered, handoffs>>

-----------------------------------------------------------------------------

ProposalNext ==
  \/ \E r \in Request, p \in Proposal :
       InsertProposal(r, p) \/ Dismiss(r, p) \/ LockProposal(r, p)
  \/ \E r \in Request : FindProposal(r) \/ Confirm(r) \/ LockTrip(r) \/ LockBatch(r)
                        \/ Handoff(r) \/ GiveUp(r)
  \/ \E b \in Batch : PersistBatch(b)
  \/ \E t \in Thread : DeleteThread(t)

FactNext ==
  \/ \E old, f \in Fact : Upsert(old, f)
  \/ \E f \in Fact : Revoke(f)
  \/ \E kind \in MemoryKind, m \in Member, field \in MemoryField, f \in Fact :
       Save(kind, m, field, f)
  \/ \E f \in Fact, m \in Member : DeleteMemory(f, m)

Next == ProposalNext \/ FactNext

Spec == Init /\ [][Next]_vars

-----------------------------------------------------------------------------
(* Properties                                                               *)

\* Every variable is a value its table may hold.
TypeOK ==
  /\ proposals \in [Proposal -> {"none", "PENDING", "CONFIRMED", "DISMISSED"}]
  /\ madeBy \in [Proposal -> SUBSET Request]
  /\ threads \subseteq Thread
  /\ facts \in [Fact -> FactRow \cup {NoFact}]
  /\ sessions \in [Request -> [step : {"idle", "trip", "open"},
                               latest : [Proposal -> 0..MaxRevision]]]
  /\ answered \subseteq Request
  /\ handoffs \in [Batch -> SUBSET Request]

\* A proposal is CONFIRMED if and only if it is the source of a fact, and of one
\* only, which says what its owner was shown; however a single confirmation, a
\* handoff, a dismissal and the deletion of the thread meet.
ConfirmedOnce ==
  /\ \A p \in Proposal :
       proposals[p] = "CONFIRMED" <=> \E f \in Fact : facts[f] # NoFact /\ facts[f].source = p
  /\ \A f, g \in {x \in Fact : facts[x] # NoFact} :
       facts[f].source = facts[g].source /\ facts[f].source # NoProposal => f = g
  /\ \A f \in {x \in Fact : facts[x] # NoFact} : \A p \in Proposal :
       facts[f].source = p => /\ facts[f].kind = "MEMBER_CONSTRAINT"
                              /\ facts[f].owner = Content[p].owner
                              /\ facts[f].field = Content[p].field

\* What has been answered stays answered: a confirmation that was under way does
\* not overrule a dismissal, nor the deletion of a thread a confirmation.
AnswersAreFinal ==
  [][\A p \in Proposal : proposals[p] \in {"CONFIRMED", "DISMISSED"} =>
       proposals'[p] = proposals[p]]_vars

\* A batch starts planning at most once: two handoffs of it, even of different
\* candidates, do not both succeed.
HandoffOnce ==
  \A b \in Batch : \A r, s \in handoffs[b] : r = s

\* A candidate that is pending can still be handed off: its thread exists.
PendingHasThread ==
  \A b \in Batch : \A p \in Rows(b) : proposals[p] = "PENDING" => ThreadOf[b] \in threads

\* A request to propose, however often it is delivered, writes one proposal: a
\* late delivery does not bring back what the member has dismissed.
ProposedOnce ==
  \A p, q \in Proposal : madeBy[p] \cap madeBy[q] # {} => p = q

\* Confirming a constraint leaves the overrides and the group decisions on its
\* field: "Each kind keeps exactly the rule it had on its own table".
KindsAreSeparate ==
  [][\A f \in Fact : IsActive(f) /\ facts[f].kind \in MemoryKind /\ proposals' # proposals
                      => facts'[f] = facts[f]]_vars

-----------------------------------------------------------------------------
(* The promise of ConstraintAnswers                                         *)

Answers == INSTANCE ConstraintAnswers
  WITH Candidates <- [b \in Batch |-> Rows(b)],
       answer <- proposals,
       stated <- [p \in Proposal |-> {f \in Fact : facts[f] # NoFact /\ facts[f].source = p}],
       started <- {b \in Batch : handoffs[b] # {}}

\* Locks taken in several steps, keys, rollbacks, edits of the facts and the trip
\* memory beside them amount to proposals that are put once and answered once,
\* and to batches that start once, in the same instant as the facts they start
\* from.
ImplementsAnswers == Answers!Spec

=============================================================================
