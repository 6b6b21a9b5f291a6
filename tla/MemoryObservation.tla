------------------------- MODULE MemoryObservation -------------------------
(***************************************************************************)
(* Evidence for the long-term memory of one user about one field.          *)
(*                                                                         *)
(* A confirmed trip constraint leaves an event in the outbox in the        *)
(* confirmation's own transaction (memory-observation-bridge.ts).  The     *)
(* memory slot of every Worker process claims one event at a time under a  *)
(* lease of five minutes, adds it to the pending suggestion of its value   *)
(* and settles it by event id alone (memory-observation-worker.ts).  The   *)
(* owner confirms or dismisses suggestions, states or deletes the field    *)
(* meanwhile, and a sweep retires what nobody answered                     *)
(* (memory-proposal-service.ts, preference-fact-service.ts).               *)
(*                                                                         *)
(* An episode is a value confirmed in a trip; several events may carry the *)
(* same one.  A suggestion is named by the episode that opened it.         *)
(***************************************************************************)
EXTENDS Naturals, Sequences, FiniteSets

CONSTANTS
  Worker,              \* memory slots, one in each Worker process
  Event, Episode, Value,
  None,                \* no event, no row
  EpisodeOf,           \* EpisodeOf[e]: the episode that e reports
  ValueOf,             \* ValueOf[ep]: the value confirmed in ep
  Earlier,             \* episodes observed before, each with a suggestion open
  Rejected,            \* values the memory catalog does not accept
  MaxAttempts,         \* OBSERVATION_MAX_ATTEMPTS
  Life,                \* days before an unanswered suggestion expires
  Cooldown,            \* days a suggestion stays suppressed
  MaxDay,              \* bound: the last day
  MaxFaults,           \* bound: crashes and dead slots
  MaxVersions,         \* bound: versions of the fact
  Immortal             \* slots whose own statements never meet a database error

ASSUME MemoryAssumption ==
  /\ EpisodeOf \in [Event -> Episode]
  /\ ValueOf \in [Episode -> Value]
  /\ None \notin Event \cup Episode
  /\ Earlier \subseteq Episode
  /\ \A p, q \in Earlier : ValueOf[p] = ValueOf[q] => p = q
  /\ Rejected \subseteq Value
  /\ MaxAttempts \in Nat \ {0}
  /\ Life \in Nat \ {0}
  /\ Cooldown \in Nat \ {0}
  /\ {MaxDay, MaxFaults, MaxVersions} \subseteq Nat
  /\ Immortal \subseteq Worker
  /\ "form" \notin Episode

\* A deployment runs some number of Worker processes.
ASSUME WorkerAssumption == IsFiniteSet(Worker)

VARIABLES
  outbox,       \* outbox_events
  session,      \* what each slot is doing with the event it claimed
  claimed,      \* idempotency_records: episodes whose claim has committed
  suggestions,  \* memory_proposals
  facts,        \* preference_facts of the field, oldest first; the last is ACTIVE
  profile,      \* the user has a profile
  day,          \* today
  faults,       \* crashes and dead slots so far
  \* observers, which no action reads
  evidence,     \* evidence[p]: the episodes that p has counted
  times,        \* times[ep]: how often ep has been counted
  underway,     \* underway[p]: the episodes that had been looked at, and not
                \* written yet, when p was dismissed or expired
  disregarded   \* events that may be settled without being counted

rowVars == <<claimed, suggestions, evidence, times, underway>>
ownerVars == <<facts, profile>>
vars == <<outbox, session, rowVars, ownerVars, day, faults, disregarded>>

Settled == {"PROCESSED", "FAILED"}
Resolved == {"CONFIRMED", "DISMISSED", "EXPIRED"}
Stage == {"idle", "claimed", "observing", "locked", "done", "failed", "dead"}

OutboxRow == [status : {"none", "PENDING", "PROCESSING"} \cup Settled,
              attempts : Nat,
              due : BOOLEAN,        \* the backoff or the lease has run out
              observed : Nat]       \* the day of the confirmation
NoEvent == [status |-> "none", attempts |-> 0, due |-> FALSE, observed |-> 0]

SuggestionRow == [status : {"none", "PENDING"} \cup Resolved,
                  count : Nat, first : Nat, expires : Nat, cooldown : Nat]
NoSuggestion == [status |-> "none", count |-> 0, first |-> 0, expires |-> 0,
                 cooldown |-> 0]

\* What InsertSuggestion left before the first day of the model.
OpenSuggestion == [status |-> "PENDING", count |-> 1, first |-> 0, expires |-> Life,
                   cooldown |-> 0]

\* What a slot remembers between its statements: the event and the attempt that
\* its claim returned, and in the transaction the pending row it has locked and
\* the count it read there.
Session == [stage : Stage, event : Event \cup {None}, attempt : Nat,
            row : Episode \cup {None}, count : Nat]
NoSession == [stage |-> "idle", event |-> None, attempt |-> 0, row |-> None,
              count |-> 0]

Init ==
  /\ outbox = [e \in Event |-> NoEvent]
  /\ session = [w \in Worker |-> NoSession]
  /\ claimed = Earlier
  /\ suggestions = [p \in Episode |-> IF p \in Earlier THEN OpenSuggestion ELSE NoSuggestion]
  /\ facts = <<>>
  /\ profile = TRUE
  /\ day = 0
  /\ faults = 0
  /\ evidence = [p \in Episode |-> IF p \in Earlier THEN {p} ELSE {}]
  /\ times = [ep \in Episode |-> IF ep \in Earlier THEN 1 ELSE 0]
  /\ underway = [p \in Episode |-> {}]
  /\ disregarded = {}

-----------------------------------------------------------------------------
(* The outbox                                                               *)

\* enqueueMemoryObservation, in the transaction that confirms a constraint.
Enqueue(e) ==
  /\ outbox[e].status = "none"
  /\ outbox' = [outbox EXCEPT ![e] = [status |-> "PENDING", attempts |-> 0,
                                      due |-> TRUE, observed |-> day]]
  /\ UNCHANGED <<session, rowVars, ownerVars, day, faults, disregarded>>

\* A backoff of a minute or a lease of five has passed.
TimeOut(e) ==
  /\ outbox[e].status \in {"PENDING", "PROCESSING"}
  /\ ~outbox[e].due
  /\ outbox' = [outbox EXCEPT ![e].due = TRUE]
  /\ UNCHANGED <<session, rowVars, ownerVars, day, faults, disregarded>>

\* Mutant: an event whose Worker died is not taken back.
ClaimPending(w, e) ==
  /\ session[w].stage = "idle"
  /\ outbox[e].status = "PENDING"
  /\ outbox[e].due
  /\ outbox' = [outbox EXCEPT ![e].status = "PROCESSING",
                              ![e].attempts = @ + 1,
                              ![e].due = FALSE]
  /\ session' = [session EXCEPT ![w] =
                   [NoSession EXCEPT !.stage = "claimed", !.event = e,
                                     !.attempt = outbox[e].attempts + 1]]
  /\ UNCHANGED <<rowVars, ownerVars, day, faults, disregarded>>

\* The claim selects and moves one row that waits or whose lease has run out;
\* rows another claim has locked are skipped.
Claim(w, e) ==
  /\ session[w].stage = "idle"
  /\ outbox[e].status \in {"PENDING", "PROCESSING"}
  /\ outbox[e].due
  /\ outbox' = [outbox EXCEPT ![e].status = "PROCESSING",
                              ![e].attempts = @ + 1,
                              ![e].due = FALSE]
  /\ session' = [session EXCEPT ![w] =
                   [NoSession EXCEPT !.stage = "claimed", !.event = e,
                                     !.attempt = outbox[e].attempts + 1]]
  /\ UNCHANGED <<rowVars, ownerVars, day, faults, disregarded>>

\* settleMemoryObservation, by event id alone.
Settle(w) ==
  /\ session[w].stage = "done"
  /\ outbox' = [outbox EXCEPT ![session[w].event].status = "PROCESSED",
                              ![session[w].event].due = FALSE]
  /\ session' = [session EXCEPT ![w] = NoSession]
  /\ UNCHANGED <<rowVars, ownerVars, day, faults, disregarded>>

\* A payload that cannot be read is parked at once, before the try block.
ParkUnreadable(w) ==
  /\ session[w].stage = "claimed"
  /\ outbox' = [outbox EXCEPT ![session[w].event].status = "FAILED",
                              ![session[w].event].due = FALSE]
  /\ session' = [session EXCEPT ![w] = NoSession]
  /\ UNCHANGED <<rowVars, ownerVars, day, faults, disregarded>>

\* The catch block parks the event if its claim was the last attempt ...
Park(w) ==
  /\ session[w].stage = "failed"
  /\ session[w].attempt >= MaxAttempts
  /\ outbox' = [outbox EXCEPT ![session[w].event].status = "FAILED",
                              ![session[w].event].due = FALSE]
  /\ session' = [session EXCEPT ![w] = NoSession]
  /\ UNCHANGED <<rowVars, ownerVars, day, faults, disregarded>>

\* Mutant: the limit is compared with one attempt too few.
ReleaseOnceMore(w) ==
  /\ session[w].stage = "failed"
  /\ session[w].attempt <= MaxAttempts
  /\ outbox' = [outbox EXCEPT ![session[w].event].status = "PENDING",
                              ![session[w].event].due = FALSE]
  /\ session' = [session EXCEPT ![w] = NoSession]
  /\ UNCHANGED <<rowVars, ownerVars, day, faults, disregarded>>

\* ... and puts it back with a backoff if not (releaseMemoryObservation).
Release(w) ==
  /\ session[w].stage = "failed"
  /\ session[w].attempt < MaxAttempts
  /\ outbox' = [outbox EXCEPT ![session[w].event].status = "PENDING",
                              ![session[w].event].due = FALSE]
  /\ session' = [session EXCEPT ![w] = NoSession]
  /\ UNCHANGED <<rowVars, ownerVars, day, faults, disregarded>>

\* A Worker process dies, its transaction is rolled back, and it starts again.
Crash(w) ==
  /\ session[w].stage # "idle"
  /\ faults < MaxFaults
  /\ faults' = faults + 1
  /\ session' = [session EXCEPT ![w] = NoSession]
  /\ UNCHANGED <<outbox, rowVars, ownerVars, day, disregarded>>

\* A database error in the claim, in parking an unreadable event or in the catch
\* block leaves the slot's loop, and nothing starts the slot again while the
\* process lives.
SlotDies(w) ==
  /\ w \notin Immortal
  /\ session[w].stage \in {"idle", "claimed", "failed"}
  /\ faults < MaxFaults
  /\ faults' = faults + 1
  /\ session' = [session EXCEPT ![w] = [NoSession EXCEPT !.stage = "dead"]]
  /\ UNCHANGED <<outbox, rowVars, ownerVars, day, disregarded>>

-----------------------------------------------------------------------------
(* One observation: aggregateObservation                                    *)

EpisodeAt(w) == EpisodeOf[session[w].event]
ValueAt(w) == ValueOf[EpisodeAt(w)]
ObservedAt(w) == outbox[session[w].event].observed

Pending(v) == {p \in Episode : suggestions[p].status = "PENDING" /\ ValueOf[p] = v}
Unlocked(p) == \A w \in Worker : session[w].row # p
InTransaction(w) == session[w].stage \in {"observing", "locked"}

\* A transaction that has inserted the idempotency key keeps others waiting.
KeyHeld(ep) == \E w \in Worker : InTransaction(w) /\ EpisodeAt(w) = ep

\* Mutant: suppression is judged by the day of processing.
CoolingNow(v, at) ==
  \E p \in Episode : ValueOf[p] = v /\ suggestions[p].cooldown > day

\* A dismissed or expired suggestion of the value is still suppressed.
Cooling(v, at) ==
  \E p \in Episode : ValueOf[p] = v /\ suggestions[p].cooldown > at

Goto(w, stage) ==
  session' = [session EXCEPT ![w].stage = stage, ![w].row = None,
                             ![w].count = 0]

\* Without a profile there is nothing to attach a suggestion to, and
\* observeBehavior refuses a value outside the memory catalog.
Disregard(w) ==
  /\ session[w].stage = "claimed"
  /\ ~profile \/ ValueAt(w) \in Rejected
  /\ Goto(w, "done")
  /\ disregarded' = disregarded \cup {session[w].event}
  /\ UNCHANGED <<outbox, rowVars, ownerVars, day, faults>>

Observable(w) ==
  /\ session[w].stage = "claimed"
  /\ profile
  /\ ValueAt(w) \notin Rejected

\* The transaction finds that the episode has been observed before ...
DuplicateEpisode(w) ==
  /\ Observable(w)
  /\ EpisodeAt(w) \in claimed
  /\ Goto(w, "done")
  /\ UNCHANGED <<outbox, rowVars, ownerVars, day, faults, disregarded>>

\* ... or inserts the episode's key and finds its value suppressed: the key is
\* kept and nothing counted ...
InCooldown(w) ==
  /\ Observable(w)
  /\ EpisodeAt(w) \notin claimed
  /\ ~KeyHeld(EpisodeAt(w))
  /\ Cooling(ValueAt(w), ObservedAt(w))
  /\ claimed' = claimed \cup {EpisodeAt(w)}
  /\ Goto(w, "done")
  /\ disregarded' = disregarded \cup {e \in Event : EpisodeOf[e] = EpisodeAt(w)}
  /\ UNCHANGED <<outbox, suggestions, evidence, times, underway, ownerVars, day, faults>>

\* Mutant: the episode is looked up, not claimed (checkIdempotency).
BeginUnclaimed(w) ==
  /\ Observable(w)
  /\ EpisodeAt(w) \notin claimed
  /\ ~Cooling(ValueAt(w), ObservedAt(w))
  /\ Goto(w, "observing")
  /\ UNCHANGED <<outbox, rowVars, ownerVars, day, faults, disregarded>>

\* ... or may go on.
BeginObservation(w) ==
  /\ Observable(w)
  /\ EpisodeAt(w) \notin claimed
  /\ ~KeyHeld(EpisodeAt(w))
  /\ ~Cooling(ValueAt(w), ObservedAt(w))
  /\ Goto(w, "observing")
  /\ UNCHANGED <<outbox, rowVars, ownerVars, day, faults, disregarded>>

\* Mutant: it is selected without a lock.
ReadPending(w) ==
  /\ session[w].stage = "observing"
  /\ \E p \in Pending(ValueAt(w)) :
       session' = [session EXCEPT ![w].stage = "locked", ![w].row = p,
                                  ![w].count = suggestions[p].count]
  /\ UNCHANGED <<outbox, rowVars, ownerVars, day, faults, disregarded>>

\* The pending suggestion of the value is selected FOR UPDATE.
LockPending(w) ==
  /\ session[w].stage = "observing"
  /\ \E p \in Pending(ValueAt(w)) :
       /\ Unlocked(p)
       /\ session' = [session EXCEPT ![w].stage = "locked", ![w].row = p,
                                     ![w].count = suggestions[p].count]
  /\ UNCHANGED <<outbox, rowVars, ownerVars, day, faults, disregarded>>

Counted(w, p) ==
  /\ claimed' = claimed \cup {EpisodeAt(w)}
  /\ evidence' = [evidence EXCEPT ![p] = @ \cup {EpisodeAt(w)}]
  /\ times' = [times EXCEPT ![EpisodeAt(w)] = @ + 1]

\* Mutant: the day is taken in a time zone behind UTC.
UpdateInLocalTime(w) ==
  /\ session[w].stage = "locked"
  /\ LET p == session[w].row IN
       /\ suggestions' = [suggestions EXCEPT ![p].count = session[w].count + 1,
                                             ![p].first = ObservedAt(w) - 1,
                                             ![p].expires = ObservedAt(w) + Life]
       /\ Counted(w, p)
  /\ Goto(w, "done")
  /\ UNCHANGED <<outbox, underway, ownerVars, day, faults, disregarded>>

\* The locked suggestion counts the episode and lives on from its day.
UpdateSuggestion(w) ==
  /\ session[w].stage = "locked"
  /\ LET p == session[w].row IN
       /\ suggestions' = [suggestions EXCEPT
                            ![p].count = session[w].count + 1,
                            ![p].first = IF ObservedAt(w) < @ THEN ObservedAt(w) ELSE @,
                            ![p].expires = ObservedAt(w) + Life]
       /\ Counted(w, p)
  /\ Goto(w, "done")
  /\ UNCHANGED <<outbox, underway, ownerVars, day, faults, disregarded>>

\* A new suggestion if there is none pending.  One committed since (a partial
\* unique index) or a profile gone since fail the insertion.
InsertSuggestion(w) ==
  /\ session[w].stage = "observing"
  /\ Pending(ValueAt(w)) = {}
  /\ profile
  /\ suggestions' = [suggestions EXCEPT ![EpisodeAt(w)] =
                       [status |-> "PENDING", count |-> 1, first |-> ObservedAt(w),
                        expires |-> ObservedAt(w) + Life, cooldown |-> 0]]
  /\ claimed' = claimed \cup {EpisodeAt(w)}
  /\ evidence' = [evidence EXCEPT ![EpisodeAt(w)] = {EpisodeAt(w)}]
  /\ times' = [times EXCEPT ![EpisodeAt(w)] = @ + 1]
  /\ Goto(w, "done")
  /\ UNCHANGED <<outbox, underway, ownerVars, day, faults, disregarded>>

\* Mutant: the episode is claimed in a transaction of its own.
FailKeepsKey(w) ==
  /\ session[w].stage \in {"claimed", "observing", "locked", "done"}
  /\ claimed' = IF InTransaction(w) THEN claimed \cup {EpisodeAt(w)} ELSE claimed
  /\ Goto(w, "failed")
  /\ UNCHANGED <<outbox, suggestions, evidence, times, underway, ownerVars, day, faults,
                 disregarded>>

\* A constraint or the database fails a statement of the try block: the
\* transaction is rolled back, its key with it.
FailObservation(w) ==
  /\ session[w].stage \in {"claimed", "observing", "locked", "done"}
  /\ Goto(w, "failed")
  /\ UNCHANGED <<outbox, rowVars, ownerVars, day, faults, disregarded>>

-----------------------------------------------------------------------------
(* The owner, the sweep and time                                            *)

\* A transaction that resolves or deletes p waits for the lock on its row, but
\* for no observation that has looked at the cooldown and locked no row yet.
Retired(p, status) ==
  [suggestions[p] EXCEPT !.status = status, !.cooldown = day + Cooldown]

Underway(v) ==
  {EpisodeAt(w) : w \in {x \in Worker : session[x].stage = "observing" /\ ValueAt(x) = v}}

\* confirmProposal retires a suggestion past its life, without a fact ...
ConfirmLapsed(p) ==
  /\ suggestions[p].status = "PENDING"
  /\ Unlocked(p)
  /\ suggestions[p].expires <= day
  /\ suggestions' = [suggestions EXCEPT ![p] = Retired(p, "EXPIRED")]
  /\ underway' = [underway EXCEPT ![p] = Underway(ValueOf[p])]
  /\ UNCHANGED <<outbox, session, claimed, evidence, times, ownerVars, day, faults,
                 disregarded>>

\* Mutant: a resolved suggestion is not recognised.
ConfirmResolved(p) ==
  /\ suggestions[p].status # "none"
  /\ Unlocked(p)
  /\ suggestions[p].expires > day
  /\ Len(facts) < Cardinality(Episode) + MaxVersions
  /\ suggestions' = [suggestions EXCEPT ![p].status = "CONFIRMED"]
  /\ facts' = Append(facts, p)
  /\ UNCHANGED <<outbox, session, claimed, evidence, times, underway, profile, day,
                 faults, disregarded>>

\* ... and otherwise makes its value the ACTIVE fact in the same transaction.
\* A resolved suggestion is returned as it is: a stutter.
Confirm(p) ==
  /\ suggestions[p].status = "PENDING"
  /\ Unlocked(p)
  /\ suggestions[p].expires > day
  /\ suggestions' = [suggestions EXCEPT ![p].status = "CONFIRMED"]
  /\ facts' = Append(facts, p)
  /\ UNCHANGED <<outbox, session, claimed, evidence, times, underway, profile, day,
                 faults, disregarded>>

Dismiss(p) ==
  /\ suggestions[p].status = "PENDING"
  /\ Unlocked(p)
  /\ suggestions' = [suggestions EXCEPT ![p] = Retired(p, "DISMISSED")]
  /\ underway' = [underway EXCEPT ![p] = Underway(ValueOf[p])]
  /\ UNCHANGED <<outbox, session, claimed, evidence, times, ownerVars, day, faults,
                 disregarded>>

\* Mutant: the comparison is the wrong way round.
SweepFresh ==
  LET lapsed == {p \in Episode : suggestions[p].status = "PENDING"
                                 /\ suggestions[p].expires > day} IN
  /\ lapsed # {}
  /\ \A p \in lapsed : Unlocked(p)
  /\ \E w \in Worker : session[w].stage = "idle"
  /\ suggestions' = [p \in Episode |-> IF p \in lapsed THEN Retired(p, "EXPIRED")
                                       ELSE suggestions[p]]
  /\ underway' = [p \in Episode |-> IF p \in lapsed THEN Underway(ValueOf[p])
                                    ELSE underway[p]]
  /\ UNCHANGED <<outbox, session, claimed, evidence, times, ownerVars, day, faults,
                 disregarded>>

\* expireStaleProposals, which the memory slot runs between two events.
Sweep ==
  LET lapsed == {p \in Episode : suggestions[p].status = "PENDING"
                                 /\ suggestions[p].expires < day} IN
  /\ lapsed # {}
  /\ \A p \in lapsed : Unlocked(p)
  /\ \E w \in Worker : session[w].stage = "idle"
  /\ suggestions' = [p \in Episode |-> IF p \in lapsed THEN Retired(p, "EXPIRED")
                                       ELSE suggestions[p]]
  /\ underway' = [p \in Episode |-> IF p \in lapsed THEN Underway(ValueOf[p])
                                    ELSE underway[p]]
  /\ UNCHANGED <<outbox, session, claimed, evidence, times, ownerVars, day, faults,
                 disregarded>>

Delete(S) ==
  /\ \A p \in S : Unlocked(p)
  /\ suggestions' = [p \in Episode |-> IF p \in S THEN NoSuggestion ELSE suggestions[p]]
  /\ evidence' = [p \in Episode |-> IF p \in S THEN {} ELSE evidence[p]]
  /\ underway' = [p \in Episode |-> IF p \in S THEN {} ELSE underway[p]]

\* The profile form states the field: a new version of the fact, and the
\* pending suggestions of the field are deleted.
StateField ==
  /\ profile
  /\ Len(facts) < MaxVersions
  /\ facts' = Append(facts, "form")
  /\ Delete({p \in Episode : suggestions[p].status = "PENDING"})
  /\ UNCHANGED <<outbox, session, claimed, times, profile, day, faults,
                 disregarded>>

\* Emptying the field in the form deletes every version of the fact.
ClearField ==
  /\ facts # <<>>
  /\ facts' = <<>>
  /\ UNCHANGED <<outbox, session, rowVars, profile, day, faults,
                 disregarded>>

\* Mutant: the idempotency records of the field are deleted as well.
DeleteFieldAndKeys ==
  /\ facts # <<>>
  /\ facts' = <<>>
  /\ Delete({p \in Episode : suggestions[p].status # "none"})
  /\ claimed' = {}
  /\ UNCHANGED <<outbox, session, times, profile, day, faults, disregarded>>

\* Deleting the fact deletes every suggestion of the field with it.
DeleteField ==
  /\ facts # <<>>
  /\ facts' = <<>>
  /\ Delete({p \in Episode : suggestions[p].status # "none"})
  /\ UNCHANGED <<outbox, session, claimed, times, profile, day, faults,
                 disregarded>>

\* Deleting the profile deletes the facts, and the suggestions by cascade.
DeleteProfile ==
  /\ profile
  /\ profile' = FALSE
  /\ facts' = <<>>
  /\ Delete({p \in Episode : suggestions[p].status # "none"})
  /\ UNCHANGED <<outbox, session, claimed, times, day, faults, disregarded>>

NextDay ==
  /\ day < MaxDay
  /\ day' = day + 1
  /\ UNCHANGED <<outbox, session, rowVars, ownerVars, faults, disregarded>>

-----------------------------------------------------------------------------
\* A slot's next statement; the session, the rows and the payload decide which.
Work(w) ==
  \/ Disregard(w)
  \/ DuplicateEpisode(w)
  \/ InCooldown(w)
  \/ BeginObservation(w)
  \/ LockPending(w)
  \/ UpdateSuggestion(w)
  \/ InsertSuggestion(w)
  \/ FailObservation(w)
  \/ Settle(w)
  \/ ParkUnreadable(w)
  \/ Park(w)
  \/ Release(w)

Next ==
  \/ \E e \in Event : Enqueue(e) \/ TimeOut(e)
  \/ \E w \in Worker, e \in Event : Claim(w, e)
  \/ \E w \in Worker : Work(w) \/ Crash(w) \/ SlotDies(w)
  \/ \E p \in Episode : ConfirmLapsed(p) \/ Confirm(p) \/ Dismiss(p)
  \/ Sweep
  \/ StateField \/ ClearField \/ DeleteField
  \/ DeleteProfile
  \/ NextDay

Spec == Init /\ [][Next]_vars

\* Slots go on with what they have begun and claim what is due, leases and
\* backoffs run out, the sweep runs.  Nothing is assumed of the owner, nor that
\* enough days pass.
Fairness ==
  /\ \A w \in Worker : WF_vars(Work(w))
  /\ \A w \in Worker, e \in Event : WF_vars(Claim(w, e))
  /\ \A e \in Event : WF_vars(TimeOut(e))
  /\ WF_vars(Sweep)

FairSpec == Spec /\ Fairness

-----------------------------------------------------------------------------
(* Properties                                                               *)

\* Every variable is a value its table, or a handler's locals, may hold.
TypeOK ==
  /\ outbox \in [Event -> OutboxRow]
  /\ session \in [Worker -> Session]
  /\ claimed \subseteq Episode
  /\ suggestions \in [Episode -> SuggestionRow]
  /\ facts \in Seq(Episode \cup {"form"})
  /\ profile \in BOOLEAN
  /\ {day, faults} \subseteq Nat
  /\ evidence \in [Episode -> SUBSET Episode]
  /\ times \in [Episode -> Nat]
  /\ underway \in [Episode -> SUBSET Episode]
  /\ disregarded \subseteq Event

\* However often an event is delivered again, by a crash, by a retry or to two
\* slots at once, and however often a value is confirmed again in its trip, the
\* episode counts as evidence once.
EpisodeCountedOnce == \A ep \in Episode : times[ep] <= 1

\* No observation overwrites another's count: a suggestion says exactly how
\* many episodes it rests on.
CountIsEvidence ==
  \A p \in Episode : suggestions[p].count = Cardinality(evidence[p])

\* Nothing is lost on the way: an event is settled as processed only once its
\* episode has been counted, or was suppressed, refused or without a profile.
ProcessedWasObserved ==
  \A e \in Event : outbox[e].status = "PROCESSED" =>
    times[EpisodeOf[e]] > 0 \/ e \in disregarded

\* A suggestion is raised within the cooldown of an earlier one of its value only
\* by an observation that had looked at the cooldown, and not written yet, when
\* the earlier one was dismissed or expired: neither an event enqueued before that
\* and processed late, nor a retry, nor an answer to a lapsed suggestion does it.
CooldownHonoured ==
  \A p, q \in Episode :
    (/\ suggestions[p].status = "PENDING"
     /\ p # q
     /\ ValueOf[p] = ValueOf[q]
     /\ suggestions[q].cooldown > suggestions[p].first)
      => evidence[p] \cap underway[q] # {}

\* A suggestion makes a fact at most once, and only by being confirmed: retried
\* and racing answers find it resolved.
ConfirmedFactsOnce ==
  \A i \in 1..Len(facts) : facts[i] # "form" =>
    /\ suggestions[facts[i]].status = "CONFIRMED"
    /\ \A j \in 1..Len(facts) : facts[j] = facts[i] => j = i

\* An attempt beyond the limit is owed to a slot that died, or to a lease that
\* ran out under a slot at work: it settles by event id alone, so it can put an
\* event that is settled back in the outbox, once, for every slot that does not
\* itself hold an attempt below the limit to claim it once more.
AttemptsBounded ==
  LET slots == Cardinality(Worker)
  IN \A e \in Event :
       outbox[e].attempts <= MaxAttempts + faults + ((slots - 1) * (slots + 2)) \div 2

\* Every event ends processed or parked, and stays so.
EventuallySettled ==
  \A e \in Event : (outbox[e].status = "PENDING") ~> [](outbox[e].status \in Settled)

\* A suggestion past its life is retired without anybody's doing.
LapsedRetired ==
  \A p \in Episode :
    (suggestions[p].status = "PENDING" /\ suggestions[p].expires < day)
      ~> ~(suggestions[p].status = "PENDING" /\ suggestions[p].expires < day)

-----------------------------------------------------------------------------
(* The outbox implements the ledger of evidence                             *)

Open(p) == suggestions[p].status = "PENDING"

Ledger == INSTANCE EvidenceLedger WITH
  Suggestion <- Episode,
  used <- claimed,
  evidence <- [p \in Episode |-> IF Open(p) THEN evidence[p] ELSE {}],
  weight <- [p \in Episode |-> IF Open(p) THEN suggestions[p].count ELSE 0]

\* The Workers, the owner and the sweep together take an episode into account
\* once, and what has been answered, has lapsed or was deleted never counts
\* again.
ImplementsLedger == Ledger!Spec
=============================================================================
