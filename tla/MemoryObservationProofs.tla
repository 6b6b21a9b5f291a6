----------------------- MODULE MemoryObservationProofs -----------------------
(***************************************************************************)
(* Proofs about the observation outbox: an episode is counted once and     *)
(* counted correctly, nothing is settled unobserved, a confirmed           *)
(* suggestion makes one fact, a suppressed value comes back only by an     *)
(* observation that was under way when it was suppressed, and the outbox   *)
(* implements the ledger of evidence.                                      *)
(***************************************************************************)
EXTENDS MemoryObservation, FiniteSetTheorems, TLAPS

-----------------------------------------------------------------------------
(* Types                                                                    *)

LEMMA TypeInit == Init => TypeOK
BY MemoryAssumption DEF Init, TypeOK, NoEvent, OutboxRow, NoSession, Session, Stage,
   NoSuggestion, OpenSuggestion, SuggestionRow, Settled, Resolved

\* A slot that goes on with its event.
LEMMA GotoType ==
  ASSUME TypeOK, NEW w \in Worker, NEW stage \in Stage, Goto(w, stage)
  PROVE  session' \in [Worker -> Session]
<1>1. session[w] \in Session
  BY DEF TypeOK
<1>2. [session[w] EXCEPT !.stage = stage, !.row = None, !.count = 0] \in Session
  BY <1>1 DEF Session
<1>3. session' = [session EXCEPT ![w] = [session[w] EXCEPT !.stage = stage, !.row = None,
                                                          !.count = 0]]
  BY DEF Goto, TypeOK
<1> QED
  BY <1>2, <1>3 DEF TypeOK

LEMMA RowTypes ==
  ASSUME TypeOK
  PROVE  /\ \A e \in Event : /\ outbox[e].attempts \in Nat
                             /\ outbox[e].observed \in Nat
                             /\ outbox[e] \in OutboxRow
         /\ \A w \in Worker : /\ session[w].count \in Nat
                              /\ session[w].stage \in Stage
                              /\ session[w].event \in Event \cup {None}
                              /\ session[w].row \in Episode \cup {None}
         /\ \A p \in Episode : /\ suggestions[p] \in SuggestionRow
                               /\ suggestions[p].count \in Nat
                               /\ suggestions[p].first \in Nat
                               /\ suggestions[p].expires \in Nat
                               /\ suggestions[p].cooldown \in Nat
BY DEF TypeOK, OutboxRow, Session, SuggestionRow

\* A slot beyond its claim has an event.
SessionsEngaged ==
  \A w \in Worker :
    session[w].stage \notin {"idle", "dead"} => session[w].event \in Event

\* A slot that has locked a suggestion has one.
LocksHeld ==
  \A w \in Worker : session[w].stage = "locked" => session[w].row \in Episode

LEMMA EventTypes ==
  ASSUME TypeOK, NEW e \in Event, Enqueue(e) \/ TimeOut(e)
  PROVE  TypeOK'
<1> USE RowTypes DEF TypeOK, rowVars, ownerVars
<1>1. CASE Enqueue(e)
  BY <1>1 DEF Enqueue, OutboxRow
<1>2. CASE TimeOut(e)
  BY <1>2 DEF TimeOut, OutboxRow
<1> QED
  BY <1>1, <1>2

LEMMA ClaimTypes ==
  ASSUME TypeOK, NEW w \in Worker, NEW e \in Event, Claim(w, e)
  PROVE  TypeOK'
<1>1. outbox' \in [Event -> OutboxRow]
  <2>1. outbox[e] \in OutboxRow /\ outbox[e].attempts + 1 \in Nat
    BY RowTypes
  <2>2. [outbox[e] EXCEPT !.status = "PROCESSING", !.attempts = outbox[e].attempts + 1,
                          !.due = FALSE] \in OutboxRow
    BY <2>1 DEF OutboxRow
  <2>3. outbox' = [outbox EXCEPT ![e] =
                     [outbox[e] EXCEPT !.status = "PROCESSING",
                                       !.attempts = outbox[e].attempts + 1, !.due = FALSE]]
    BY DEF Claim, TypeOK
  <2> QED
    BY <2>2, <2>3 DEF TypeOK
<1>2. session' \in [Worker -> Session]
  <2>1. NoSession \in Session
    BY DEF NoSession, Session, Stage
  <2>2. [NoSession EXCEPT !.stage = "claimed", !.event = e,
                          !.attempt = outbox[e].attempts + 1] \in Session
    <3>1. outbox[e].attempts + 1 \in Nat /\ "claimed" \in Stage
      BY RowTypes DEF Stage
    <3> QED
      BY <2>1, <3>1 DEF Session
  <2> QED
    BY <2>2 DEF Claim, TypeOK
<1> QED
  BY <1>1, <1>2 DEF Claim, TypeOK, rowVars, ownerVars

LEMMA SettlementTypes ==
  ASSUME TypeOK, SessionsEngaged, NEW w \in Worker,
         Settle(w) \/ ParkUnreadable(w) \/ Park(w) \/ Release(w) \/ Crash(w) \/ SlotDies(w)
  PROVE  TypeOK'
<1> USE RowTypes DEF TypeOK, SessionsEngaged, rowVars, ownerVars
<1>1. NoSession \in Session /\ [NoSession EXCEPT !.stage = "dead"] \in Session
  BY DEF NoSession, Session, Stage
<1>2. CASE Settle(w)
  BY <1>1, <1>2 DEF Settle, OutboxRow, Settled
<1>3. CASE Park(w)
  BY <1>1, <1>3 DEF Park, OutboxRow, Settled
<1>4. CASE Release(w)
  BY <1>1, <1>4 DEF Release, OutboxRow
<1>5. CASE Crash(w)
  BY <1>1, <1>5 DEF Crash
<1>6. CASE SlotDies(w)
  BY <1>1, <1>6 DEF SlotDies
<1>7. CASE ParkUnreadable(w)
  BY <1>1, <1>7 DEF ParkUnreadable, OutboxRow, Settled
<1> QED
  BY <1>2, <1>3, <1>4, <1>5, <1>6, <1>7

LEMMA ObservationTypes ==
  ASSUME TypeOK, SessionsEngaged, LocksHeld, NEW w \in Worker,
         \/ Disregard(w) \/ DuplicateEpisode(w) \/ InCooldown(w) \/ BeginObservation(w)
         \/ LockPending(w) \/ UpdateSuggestion(w) \/ InsertSuggestion(w)
         \/ FailObservation(w)
  PROVE  TypeOK'
<1> USE RowTypes DEF rowVars, ownerVars
<1>1. \A stage \in {"done", "observing", "failed"} :
        Goto(w, stage) => session' \in [Worker -> Session]
  BY GotoType DEF Stage
<1>2. session[w].stage \notin {"idle", "dead"} =>
        /\ session[w].event \in Event
        /\ EpisodeAt(w) \in Episode
        /\ ObservedAt(w) \in Nat
  BY MemoryAssumption DEF SessionsEngaged, EpisodeAt, ObservedAt
<1>3. CASE Disregard(w)
  BY <1>1, <1>2, <1>3 DEF Disregard, TypeOK
<1>4. CASE DuplicateEpisode(w)
  BY <1>1, <1>4 DEF DuplicateEpisode, TypeOK
<1>5. CASE InCooldown(w)
  BY <1>1, <1>2, <1>5 DEF InCooldown, Observable, TypeOK
<1>6. CASE BeginObservation(w)
  BY <1>1, <1>6 DEF BeginObservation, TypeOK
<1>7. CASE LockPending(w)
  <2>1. PICK p \in Episode :
          session' = [session EXCEPT ![w].stage = "locked", ![w].row = p,
                                     ![w].count = suggestions[p].count]
    BY <1>7 DEF LockPending, Pending
  <2>2. session' \in [Worker -> Session]
    <3> DEFINE s == [session[w] EXCEPT !.stage = "locked", !.row = p,
                                       !.count = suggestions[p].count]
    <3>1. session[w] \in Session
      BY DEF TypeOK
    <3>2. s \in Session
      BY <3>1 DEF Session, Stage
    <3>3. session' = [session EXCEPT ![w] = s]
      BY <2>1 DEF TypeOK
    <3> QED
      BY <3>2, <3>3 DEF TypeOK
  <2> QED
    BY <1>7, <2>2 DEF LockPending, TypeOK
<1>8. CASE UpdateSuggestion(w)
  <2>1. session[w].row \in Episode
    BY <1>8 DEF UpdateSuggestion, LocksHeld
  <2>2. suggestions' \in [Episode -> SuggestionRow]
    <3> DEFINE q == session[w].row
               s == [suggestions[q] EXCEPT
                       !.count = session[w].count + 1,
                       !.first = IF ObservedAt(w) < suggestions[q].first THEN ObservedAt(w)
                                 ELSE suggestions[q].first,
                       !.expires = ObservedAt(w) + Life]
    <3>1. suggestions[q] \in SuggestionRow /\ ObservedAt(w) \in Nat /\ Life \in Nat
      BY <1>2, <1>8, <2>1, MemoryAssumption DEF UpdateSuggestion
    <3>2. s \in SuggestionRow
      <4>1. (IF ObservedAt(w) < suggestions[q].first THEN ObservedAt(w)
             ELSE suggestions[q].first) \in Nat
        BY <3>1 DEF SuggestionRow
      <4>2. session[w].count + 1 \in Nat /\ ObservedAt(w) + Life \in Nat
        BY <3>1
      <4> QED
        BY <3>1, <4>1, <4>2 DEF SuggestionRow
    <3>3. suggestions' = [suggestions EXCEPT ![q] = s]
      BY <1>8, <2>1 DEF UpdateSuggestion, TypeOK
    <3> QED
      BY <3>2, <3>3 DEF TypeOK
  <2>3. /\ claimed' \subseteq Episode
        /\ evidence' \in [Episode -> SUBSET Episode]
        /\ times' \in [Episode -> Nat]
    BY <1>2, <1>8, <2>1 DEF UpdateSuggestion, Counted, TypeOK
  <2> QED
    BY <1>1, <1>8, <2>2, <2>3 DEF UpdateSuggestion, TypeOK
<1>9. CASE InsertSuggestion(w)
  <2>1. suggestions' \in [Episode -> SuggestionRow]
    <3>1. ObservedAt(w) + Life \in Nat
      BY <1>2, <1>9, MemoryAssumption DEF InsertSuggestion
    <3>2. [status |-> "PENDING", count |-> 1, first |-> ObservedAt(w),
           expires |-> ObservedAt(w) + Life, cooldown |-> 0] \in SuggestionRow
      BY <1>2, <1>9, <3>1 DEF InsertSuggestion, SuggestionRow
    <3> QED
      BY <1>9, <3>2 DEF InsertSuggestion, TypeOK
  <2>2. /\ claimed' \subseteq Episode
        /\ evidence' \in [Episode -> SUBSET Episode]
        /\ times' \in [Episode -> Nat]
    BY <1>2, <1>9 DEF InsertSuggestion, TypeOK
  <2> QED
    BY <1>1, <1>9, <2>1, <2>2 DEF InsertSuggestion, TypeOK
<1>10. CASE FailObservation(w)
  BY <1>1, <1>10 DEF FailObservation, TypeOK
<1> QED
  BY <1>3, <1>4, <1>5, <1>6, <1>7, <1>8, <1>9, <1>10

LEMMA RetiredType ==
  ASSUME TypeOK, NEW p \in Episode, NEW status \in Resolved
  PROVE  Retired(p, status) \in SuggestionRow
<1>1. suggestions[p] \in SuggestionRow /\ day + Cooldown \in Nat
  BY MemoryAssumption DEF TypeOK
<1>2. [suggestions[p] EXCEPT !.status = status, !.cooldown = day + Cooldown] \in SuggestionRow
  BY <1>1 DEF SuggestionRow
<1> QED
  BY <1>2 DEF Retired

LEMMA RetiredIs ==
  ASSUME TypeOK, NEW p \in Episode, NEW status \in {"DISMISSED", "EXPIRED"}
  PROVE  Retired(p, status).status # "PENDING"
BY DEF TypeOK, Retired, SuggestionRow

LEMMA UnderwayType ==
  ASSUME SessionsEngaged, NEW v
  PROVE  Underway(v) \subseteq Episode
BY MemoryAssumption DEF SessionsEngaged, Underway, EpisodeAt

LEMMA DeleteType ==
  ASSUME TypeOK, NEW S, Delete(S)
  PROVE  /\ suggestions' \in [Episode -> SuggestionRow]
         /\ evidence' \in [Episode -> SUBSET Episode]
         /\ underway' \in [Episode -> SUBSET Episode]
BY RowTypes DEF TypeOK, Delete, NoSuggestion, SuggestionRow

LEMMA OwnerTypes ==
  ASSUME TypeOK, SessionsEngaged, NEW p \in Episode,
         ConfirmLapsed(p) \/ Confirm(p) \/ Dismiss(p)
  PROVE  TypeOK'
<1> USE RowTypes DEF rowVars, ownerVars
<1>1. CASE ConfirmLapsed(p)
  BY <1>1, RetiredType, UnderwayType DEF ConfirmLapsed, TypeOK, Resolved
<1>2. CASE Confirm(p)
  <2>1. [suggestions[p] EXCEPT !.status = "CONFIRMED"] \in SuggestionRow
    BY DEF SuggestionRow, Resolved
  <2>2. suggestions' = [suggestions EXCEPT ![p] = [suggestions[p] EXCEPT !.status = "CONFIRMED"]]
    BY <1>2 DEF Confirm, TypeOK
  <2>3. facts' \in Seq(Episode \cup {"form"})
    BY <1>2 DEF Confirm, TypeOK
  <2> QED
    BY <1>2, <2>1, <2>2, <2>3 DEF Confirm, TypeOK
<1>3. CASE Dismiss(p)
  BY <1>3, RetiredType, UnderwayType DEF Dismiss, TypeOK, Resolved
<1> QED
  BY <1>1, <1>2, <1>3

LEMMA FieldTypes ==
  ASSUME TypeOK, SessionsEngaged,
         Sweep \/ StateField \/ ClearField \/ DeleteField \/ DeleteProfile \/ NextDay
  PROVE  TypeOK'
<1> USE RowTypes DEF rowVars, ownerVars
<1>1. CASE Sweep
  BY <1>1, RetiredType, UnderwayType DEF Sweep, TypeOK, Resolved
<1>2. CASE StateField
  BY <1>2, DeleteType DEF StateField, TypeOK
<1>3. CASE ClearField
  BY <1>3 DEF ClearField, TypeOK
<1>4. CASE DeleteField
  BY <1>4, DeleteType DEF DeleteField, TypeOK
<1>5. CASE DeleteProfile
  <2>1. /\ suggestions' \in [Episode -> SuggestionRow]
        /\ evidence' \in [Episode -> SUBSET Episode]
        /\ underway' \in [Episode -> SUBSET Episode]
    BY <1>5, DeleteType DEF DeleteProfile
  <2>2. facts' \in Seq(Episode \cup {"form"})
    BY <1>5 DEF DeleteProfile
  <2>3. profile' \in BOOLEAN
    BY <1>5, Zenon DEF DeleteProfile
  <2> QED
    BY <1>5, <2>1, <2>2, <2>3 DEF DeleteProfile, TypeOK
<1>6. CASE NextDay
  BY <1>6 DEF NextDay, TypeOK
<1> QED
  BY <1>1, <1>2, <1>3, <1>4, <1>5, <1>6

-----------------------------------------------------------------------------
(* The inductive invariant                                                  *)

\* The event of an engaged slot has been enqueued; only a slot in the last part
\* of its transaction has a suggestion locked; and what is done was observed.
SessionsSound ==
  \A w \in Worker :
    /\ session[w].stage \notin {"idle", "dead"} => outbox[session[w].event].status # "none"
    /\ session[w].stage # "locked" => session[w].row = None
    /\ session[w].stage = "done" =>
         times[EpisodeAt(w)] > 0 \/ session[w].event \in disregarded

\* A locked suggestion is pending with the value and the count that were read
\* from it, and one slot has it.
LocksSound ==
  \A w \in Worker : session[w].stage = "locked" =>
    /\ suggestions[session[w].row].status = "PENDING"
    /\ ValueOf[session[w].row] = ValueAt(w)
    /\ suggestions[session[w].row].count = session[w].count
    /\ \A v \in Worker : session[v].row = session[w].row => v = w

\* A transaction works on an episode that nobody has claimed, alone.
KeysSound ==
  \A w \in Worker : InTransaction(w) =>
    /\ EpisodeAt(w) \notin claimed
    /\ \A v \in Worker : InTransaction(v) /\ EpisodeAt(v) = EpisodeAt(w) => v = w

\* What is counted was claimed, what was claimed was counted or disregarded, and
\* a suggestion is opened by a claimed episode.
ClaimsSound ==
  /\ \A ep \in Episode : times[ep] > 0 => ep \in claimed
  /\ \A ep \in claimed : times[ep] > 0 \/ \A e \in Event : EpisodeOf[e] = ep => e \in disregarded
  /\ \A p \in Episode : suggestions[p].status # "none" => p \in claimed

EvidenceSound ==
  \A p \in Episode : /\ IsFiniteSet(evidence[p])
                     /\ \A ep \in evidence[p] : times[ep] > 0

OnePending ==
  \A p, q \in Episode :
    /\ suggestions[p].status = "PENDING"
    /\ suggestions[q].status = "PENDING"
    /\ ValueOf[p] = ValueOf[q]
    => p = q

\* What suppresses the value that a transaction observes was suppressed after it
\* had looked, and knows of it.
CoolingNoted ==
  \A w \in Worker : InTransaction(w) =>
    \A q \in Episode : ValueOf[q] = ValueAt(w) =>
      suggestions[q].cooldown <= ObservedAt(w) \/ EpisodeAt(w) \in underway[q]

MemoryInv ==
  /\ TypeOK
  /\ SessionsEngaged
  /\ LocksHeld
  /\ SessionsSound
  /\ LocksSound
  /\ KeysSound
  /\ ClaimsSound
  /\ EvidenceSound
  /\ OnePending
  /\ EpisodeCountedOnce
  /\ CountIsEvidence
  /\ ProcessedWasObserved
  /\ ConfirmedFactsOnce
  /\ CoolingNoted
  /\ CooldownHonoured

LEMMA MemoryInvInit == Init => MemoryInv
<1> SUFFICES ASSUME Init PROVE MemoryInv
  OBVIOUS
<1> USE MemoryAssumption DEF Init
<1>1. TypeOK
  BY TypeInit
<1>2. SessionsEngaged /\ LocksHeld /\ SessionsSound /\ LocksSound /\ KeysSound
      /\ CoolingNoted
  BY DEF SessionsEngaged, LocksHeld, SessionsSound, LocksSound, KeysSound, CoolingNoted,
     NoSession, InTransaction
<1>3. ClaimsSound /\ OnePending /\ EpisodeCountedOnce /\ ProcessedWasObserved
  BY DEF ClaimsSound, OnePending, EpisodeCountedOnce, ProcessedWasObserved, NoSuggestion,
     OpenSuggestion, NoEvent
<1>4. CooldownHonoured
  BY DEF CooldownHonoured, NoSuggestion, OpenSuggestion
<1>5. EvidenceSound /\ CountIsEvidence
  <2> SUFFICES ASSUME NEW p \in Episode
               PROVE  /\ IsFiniteSet(evidence[p])
                      /\ \A ep \in evidence[p] : times[ep] > 0
                      /\ suggestions[p].count = Cardinality(evidence[p])
    BY DEF EvidenceSound, CountIsEvidence
  <2>1. CASE p \in Earlier
    <3>1. evidence[p] = {p} /\ suggestions[p].count = 1
      BY <2>1 DEF OpenSuggestion
    <3>2. IsFiniteSet({p}) /\ Cardinality({p}) = 1
      BY FS_Singleton
    <3>3. times[p] = 1
      BY <2>1
    <3> QED
      BY <3>1, <3>2, <3>3
  <2>2. CASE p \notin Earlier
    <3>1. evidence[p] = {} /\ suggestions[p].count = 0
      BY <2>2 DEF NoSuggestion
    <3> QED
      BY <3>1, FS_EmptySet
  <2> QED
    BY <2>1, <2>2
<1>6. ConfirmedFactsOnce
  BY DEF ConfirmedFactsOnce
<1> QED
  BY <1>1, <1>2, <1>3, <1>4, <1>5, <1>6 DEF MemoryInv

LEMMA InvTypes ==
  ASSUME MemoryInv, [Next]_vars
  PROVE  TypeOK'
<1> USE DEF MemoryInv
<1>1. ASSUME NEW e \in Event, Enqueue(e) \/ TimeOut(e) PROVE TypeOK'
  BY <1>1, EventTypes
<1>2. ASSUME NEW w \in Worker, NEW e \in Event, Claim(w, e) PROVE TypeOK'
  BY <1>2, ClaimTypes
<1>3. ASSUME NEW w \in Worker, Work(w) \/ Crash(w) \/ SlotDies(w) PROVE TypeOK'
  BY <1>3, SettlementTypes, ObservationTypes DEF Work
<1>4. ASSUME NEW p \in Episode, ConfirmLapsed(p) \/ Confirm(p) \/ Dismiss(p) PROVE TypeOK'
  BY <1>4, OwnerTypes
<1>5. CASE Sweep \/ StateField \/ ClearField \/ DeleteField \/ DeleteProfile \/ NextDay
  BY <1>5, FieldTypes
<1>6. CASE UNCHANGED vars
  BY <1>6 DEF vars, rowVars, ownerVars, TypeOK
<1> QED
  BY <1>1, <1>2, <1>3, <1>4, <1>5, <1>6 DEF Next

-----------------------------------------------------------------------------
(* What the slots know of the rows                                          *)

SlotsSound == SessionsEngaged /\ LocksHeld /\ SessionsSound /\ LocksSound /\ KeysSound

LEMMA GotoIs ==
  ASSUME TypeOK, NEW w \in Worker, NEW stage, Goto(w, stage)
  PROVE  /\ session'[w].stage = stage
         /\ session'[w].event = session[w].event
         /\ session'[w].row = None
         /\ \A v \in Worker : v # w => session'[v] = session[v]
<1>1. session[w] \in Session
  BY DEF TypeOK
<1> QED
  BY <1>1 DEF Goto, TypeOK, Session

\* A slot that leaves its transaction, or has not begun one, while the rows keep
\* what the other slots have locked and claimed.
LEMMA SlotsKept ==
  ASSUME MemoryInv, NEW w \in Worker,
         \A v \in Worker : v # w => session'[v] = session[v],
         session'[w].stage \notin {"observing", "locked"},
         session'[w].row = None,
         session'[w].stage \notin {"idle", "dead"} =>
           session'[w].event \in Event /\ outbox'[session'[w].event].status # "none",
         session'[w].stage = "done" =>
           times'[EpisodeOf[session'[w].event]] > 0 \/ session'[w].event \in disregarded',
         \A v \in Worker : v # w /\ session[v].stage = "locked" =>
           suggestions'[session[v].row] = suggestions[session[v].row],
         \A v \in Worker : v # w /\ InTransaction(v) => EpisodeAt(v) \notin claimed',
         \A e \in Event : outbox[e].status # "none" => outbox'[e].status # "none",
         \A ep \in Episode : times[ep] > 0 => times'[ep] > 0,
         disregarded \subseteq disregarded'
  PROVE  SlotsSound'
<1> USE DEF MemoryInv
<1>0. None \notin Episode
  BY MemoryAssumption
<1>1. SessionsEngaged'
  BY DEF SessionsEngaged
<1>2. LocksHeld'
  BY DEF LocksHeld
<1>3. SessionsSound'
  BY MemoryAssumption DEF SessionsSound, SessionsEngaged, EpisodeAt
<1>4. LocksSound'
  <2> SUFFICES ASSUME NEW v \in Worker, session'[v].stage = "locked"
               PROVE  /\ suggestions'[session'[v].row].status = "PENDING"
                      /\ ValueOf[session'[v].row] = ValueOf[EpisodeOf[session'[v].event]]
                      /\ suggestions'[session'[v].row].count = session'[v].count
                      /\ \A u \in Worker : session'[u].row = session'[v].row => u = v
    BY DEF LocksSound, ValueAt, EpisodeAt
  <2>1. v # w /\ session'[v] = session[v] /\ session[v].row \in Episode
    BY DEF LocksHeld
  <2> QED
    BY <1>0, <2>1 DEF LocksSound, ValueAt, EpisodeAt
<1>5. KeysSound'
  BY DEF KeysSound, InTransaction, EpisodeAt
<1> QED
  BY <1>1, <1>2, <1>3, <1>4, <1>5 DEF SlotsSound

LEMMA SettlementSlots ==
  ASSUME MemoryInv, NEW w \in Worker,
         Settle(w) \/ ParkUnreadable(w) \/ Park(w) \/ Release(w) \/ Crash(w) \/ SlotDies(w)
  PROVE  SlotsSound'
<1> USE DEF MemoryInv, rowVars, ownerVars
<1>1. /\ session' = [session EXCEPT ![w] = NoSession]
         \/ session' = [session EXCEPT ![w] = [NoSession EXCEPT !.stage = "dead"]]
      /\ UNCHANGED <<rowVars, disregarded>>
  BY DEF Settle, ParkUnreadable, Park, Release, Crash, SlotDies
<1>2. /\ session'[w].stage \in {"idle", "dead"}
      /\ session'[w].row = None
      /\ \A v \in Worker : v # w => session'[v] = session[v]
  BY <1>1 DEF TypeOK, NoSession
<1>3. \A e \in Event : outbox[e].status # "none" => outbox'[e].status # "none"
  <2>1. CASE Settle(w) \/ ParkUnreadable(w) \/ Park(w) \/ Release(w)
    <3>1. session[w].event \in Event
      BY <2>1 DEF SessionsEngaged, Settle, ParkUnreadable, Park, Release
    <3>2. PICK x \in {"PROCESSED", "FAILED", "PENDING"} :
            outbox' = [outbox EXCEPT ![session[w].event].status = x,
                                     ![session[w].event].due = FALSE]
      BY <2>1 DEF Settle, ParkUnreadable, Park, Release
    <3>3. outbox'[session[w].event].status = x
      BY <3>1, <3>2 DEF TypeOK, OutboxRow
    <3>4. \A e \in Event \ {session[w].event} : outbox'[e] = outbox[e]
      BY <3>2 DEF TypeOK
    <3> QED
      BY <3>3, <3>4
  <2>2. CASE Crash(w) \/ SlotDies(w)
    BY <2>2 DEF Crash, SlotDies
  <2> QED
    BY <2>1, <2>2
<1>4. \A v \in Worker : InTransaction(v) => EpisodeAt(v) \notin claimed
  BY DEF KeysSound
<1> QED
  BY <1>1, <1>2, <1>3, <1>4, SlotsKept

LEMMA ClaimSlots ==
  ASSUME MemoryInv, NEW w \in Worker, NEW e \in Event, Claim(w, e)
  PROVE  SlotsSound'
<1> USE DEF MemoryInv, rowVars, ownerVars
<1>1. UNCHANGED <<rowVars, disregarded>>
  BY DEF Claim
<1>2. /\ session'[w].stage = "claimed"
      /\ session'[w].event = e
      /\ session'[w].row = None
      /\ \A v \in Worker : v # w => session'[v] = session[v]
  BY DEF Claim, TypeOK, NoSession
<1>3. \A x \in Event : outbox[x].status # "none" => outbox'[x].status # "none"
  BY DEF TypeOK, Claim
<1>4. outbox'[e].status # "none"
  BY DEF TypeOK, Claim, OutboxRow
<1>5. \A v \in Worker : InTransaction(v) => EpisodeAt(v) \notin claimed
  BY DEF KeysSound
<1> QED
  BY <1>1, <1>2, <1>3, <1>4, <1>5, SlotsKept

\* Rows that no slot has locked change, and the outbox forgets no event.
LEMMA SlotsStay ==
  ASSUME MemoryInv, UNCHANGED <<session, claimed>>,
         \A e \in Event : outbox[e].status # "none" => outbox'[e].status # "none",
         \A v \in Worker : session[v].stage = "locked" =>
           suggestions'[session[v].row] = suggestions[session[v].row],
         UNCHANGED <<times, disregarded>>
  PROVE  SlotsSound'
<1> USE DEF MemoryInv
<1>1. SessionsEngaged' /\ LocksHeld'
  BY DEF SessionsEngaged, LocksHeld
<1>2. SessionsSound'
  BY DEF SessionsEngaged, SessionsSound, EpisodeAt
<1>3. LocksSound'
  BY DEF LocksSound, ValueAt, EpisodeAt
<1>4. KeysSound'
  BY DEF KeysSound, InTransaction, EpisodeAt
<1> QED
  BY <1>1, <1>2, <1>3, <1>4 DEF SlotsSound

LEMMA LockedUntouched ==
  ASSUME MemoryInv, NEW v \in Worker, session[v].stage = "locked",
         NEW p \in Episode, Unlocked(p)
  PROVE  p # session[v].row
BY DEF Unlocked

LEMMA OwnerSlots ==
  ASSUME MemoryInv, NEW p \in Episode, ConfirmLapsed(p) \/ Confirm(p) \/ Dismiss(p)
  PROVE  SlotsSound'
<1>1. \A v \in Worker : session[v].stage = "locked" =>
        suggestions'[session[v].row] = suggestions[session[v].row]
  BY LockedUntouched DEF ConfirmLapsed, Confirm, Dismiss, MemoryInv, LocksHeld, TypeOK
<1> QED
  BY <1>1, SlotsStay DEF ConfirmLapsed, Confirm, Dismiss

LEMMA FieldSlots ==
  ASSUME MemoryInv,
         Sweep \/ StateField \/ ClearField \/ DeleteField \/ DeleteProfile \/ NextDay
  PROVE  SlotsSound'
<1>1. \A v \in Worker : session[v].stage = "locked" =>
        suggestions'[session[v].row] = suggestions[session[v].row]
  <2> SUFFICES ASSUME NEW v \in Worker, session[v].stage = "locked"
               PROVE  suggestions'[session[v].row] = suggestions[session[v].row]
    OBVIOUS
  <2>1. session[v].row \in Episode
    BY DEF MemoryInv, LocksHeld
  <2>2. ~Unlocked(session[v].row)
    BY <2>1, LockedUntouched
  <2>3. CASE Sweep
    BY <2>1, <2>2, <2>3 DEF Sweep
  <2>4. CASE StateField \/ DeleteField \/ DeleteProfile
    BY <2>1, <2>2, <2>4 DEF StateField, DeleteField, DeleteProfile, Delete
  <2>5. CASE ClearField \/ NextDay
    BY <2>5 DEF ClearField, NextDay, rowVars
  <2> QED
    BY <2>3, <2>4, <2>5
<1>2. UNCHANGED <<outbox, session, claimed, times, disregarded>>
  BY DEF Sweep, StateField, ClearField, DeleteField, DeleteProfile, NextDay, rowVars
<1> QED
  BY <1>1, <1>2, SlotsStay

LEMMA EventSlots ==
  ASSUME MemoryInv, NEW e \in Event, Enqueue(e) \/ TimeOut(e)
  PROVE  SlotsSound'
<1>1. \A x \in Event : outbox[x].status # "none" => outbox'[x].status # "none"
  BY DEF Enqueue, TimeOut, MemoryInv, TypeOK, OutboxRow
<1> QED
  BY <1>1, SlotsStay DEF Enqueue, TimeOut, rowVars

LEMMA ObservationSlots ==
  ASSUME MemoryInv, NEW w \in Worker,
         \/ Disregard(w) \/ DuplicateEpisode(w) \/ InCooldown(w) \/ BeginObservation(w)
         \/ LockPending(w) \/ UpdateSuggestion(w) \/ InsertSuggestion(w)
         \/ FailObservation(w)
  PROVE  SlotsSound'
<1> USE DEF MemoryInv, rowVars, ownerVars
<1>1. session[w].stage \notin {"idle", "dead"}
  BY DEF Disregard, DuplicateEpisode, InCooldown, BeginObservation, LockPending,
     UpdateSuggestion, InsertSuggestion, FailObservation, Observable
<1>2. /\ session[w].event \in Event
      /\ outbox[session[w].event].status # "none"
      /\ EpisodeAt(w) \in Episode
  BY <1>1, MemoryAssumption DEF SessionsEngaged, SessionsSound, EpisodeAt
<1>3. \A v \in Worker : InTransaction(v) => EpisodeAt(v) \notin claimed
  BY DEF KeysSound
<1>4. UNCHANGED outbox
  BY DEF Disregard, DuplicateEpisode, InCooldown, BeginObservation, LockPending,
     UpdateSuggestion, InsertSuggestion, FailObservation
<1>5. ASSUME Disregard(w) \/ DuplicateEpisode(w) \/ FailObservation(w) PROVE SlotsSound'
  <2>1. (Goto(w, "done") \/ Goto(w, "failed")) /\ UNCHANGED rowVars
    BY <1>5 DEF Disregard, DuplicateEpisode, FailObservation
  <2>2. /\ session'[w].stage \in {"done", "failed"}
        /\ session'[w].event = session[w].event
        /\ session'[w].row = None
        /\ \A v \in Worker : v # w => session'[v] = session[v]
    BY <2>1, GotoIs
  <2>3. session'[w].stage = "done" =>
          times[EpisodeAt(w)] > 0 \/ session[w].event \in disregarded'
    <3>1. CASE Disregard(w)
      BY <3>1 DEF Disregard
    <3>2. CASE DuplicateEpisode(w)
      BY <1>2, <3>2 DEF DuplicateEpisode, ClaimsSound, EpisodeAt
    <3>3. CASE FailObservation(w)
      BY <3>3, GotoIs DEF FailObservation
    <3> QED
      BY <1>5, <3>1, <3>2, <3>3
  <2>4. disregarded \subseteq disregarded'
    BY <1>5 DEF Disregard, DuplicateEpisode, FailObservation
  <2> QED
    BY <1>2, <1>3, <1>4, <2>1, <2>2, <2>3, <2>4, SlotsKept DEF EpisodeAt
<1>6. ASSUME InCooldown(w) PROVE SlotsSound'
  <2>1. /\ session'[w].stage = "done"
        /\ session'[w].event = session[w].event
        /\ session'[w].row = None
        /\ \A v \in Worker : v # w => session'[v] = session[v]
    BY <1>6, GotoIs DEF InCooldown
  <2>2. \A v \in Worker : InTransaction(v) => EpisodeAt(v) \notin claimed'
    BY <1>3, <1>6 DEF InCooldown, KeyHeld
  <2>3. session[w].event \in disregarded' /\ disregarded \subseteq disregarded'
    BY <1>2, <1>6 DEF InCooldown, EpisodeAt
  <2> QED
    BY <1>2, <1>4, <1>6, <2>1, <2>2, <2>3, SlotsKept DEF InCooldown
<1>7. ASSUME UpdateSuggestion(w) \/ InsertSuggestion(w) PROVE SlotsSound'
  <2>1. /\ session'[w].stage = "done"
        /\ session'[w].event = session[w].event
        /\ session'[w].row = None
        /\ \A v \in Worker : v # w => session'[v] = session[v]
    BY <1>7, GotoIs DEF UpdateSuggestion, InsertSuggestion
  <2>2. InTransaction(w) /\ claimed' = claimed \cup {EpisodeAt(w)}
    BY <1>7 DEF UpdateSuggestion, InsertSuggestion, Counted, InTransaction
  <2>3. \A v \in Worker : v # w /\ InTransaction(v) => EpisodeAt(v) \notin claimed'
    BY <1>3, <2>2 DEF KeysSound
  <2>4. times' = [times EXCEPT ![EpisodeAt(w)] = @ + 1] /\ UNCHANGED disregarded
    BY <1>7 DEF UpdateSuggestion, InsertSuggestion, Counted
  <2>5. times'[EpisodeAt(w)] > 0 /\ \A ep \in Episode : times[ep] > 0 => times'[ep] > 0
    BY <1>2, <2>4 DEF TypeOK
  <2>6. \A v \in Worker : v # w /\ session[v].stage = "locked" =>
          suggestions'[session[v].row] = suggestions[session[v].row]
    <3> SUFFICES ASSUME NEW v \in Worker, v # w, session[v].stage = "locked"
                 PROVE  suggestions'[session[v].row] = suggestions[session[v].row]
      OBVIOUS
    <3>1. session[v].row \in Episode
      BY DEF LocksHeld
    <3>2. CASE UpdateSuggestion(w)
      BY <3>1, <3>2 DEF UpdateSuggestion, LocksSound, LocksHeld, TypeOK
    <3>3. CASE InsertSuggestion(w)
      <4>1. suggestions[EpisodeAt(w)].status # "PENDING"
        BY <1>2, <1>3, <2>2 DEF ClaimsSound
      <4> QED
        BY <3>1, <3>3, <4>1 DEF InsertSuggestion, LocksSound, TypeOK
    <3> QED
      BY <1>7, <3>2, <3>3
  <2> QED
    BY <1>2, <1>4, <2>1, <2>3, <2>4, <2>5, <2>6, SlotsKept DEF EpisodeAt
<1>8. ASSUME BeginObservation(w) PROVE SlotsSound'
  <2>1. /\ session'[w].stage = "observing"
        /\ session'[w].event = session[w].event
        /\ session'[w].row = None
        /\ \A v \in Worker : v # w => session'[v] = session[v]
    BY <1>8, GotoIs DEF BeginObservation
  <2>2. UNCHANGED <<rowVars, disregarded>> /\ None \notin Episode
    BY <1>8, MemoryAssumption DEF BeginObservation
  <2>3. SessionsEngaged' /\ LocksHeld'
    BY <1>2, <2>1 DEF SessionsEngaged, LocksHeld
  <2>4. SessionsSound'
    BY <1>2, <1>4, <2>1, <2>2 DEF SessionsSound, EpisodeAt
  <2>5. LocksSound'
    BY <2>1, <2>2 DEF LocksSound, LocksHeld, ValueAt, EpisodeAt
  <2>6. KeysSound'
    BY <1>8, <2>1, <2>2 DEF BeginObservation, KeyHeld, KeysSound, InTransaction, EpisodeAt
  <2> QED
    BY <2>3, <2>4, <2>5, <2>6 DEF SlotsSound
<1>9. ASSUME LockPending(w) PROVE SlotsSound'
  <2>1. PICK p \in Pending(ValueAt(w)) :
          /\ Unlocked(p)
          /\ session' = [session EXCEPT ![w].stage = "locked", ![w].row = p,
                                        ![w].count = suggestions[p].count]
    BY <1>9 DEF LockPending
  <2>2. p \in Episode /\ suggestions[p].status = "PENDING" /\ ValueOf[p] = ValueAt(w)
    BY DEF Pending
  <2>3. /\ session'[w].stage = "locked"
        /\ session'[w].row = p
        /\ session'[w].event = session[w].event
        /\ session'[w].count = suggestions[p].count
        /\ \A v \in Worker : v # w => session'[v] = session[v]
    <3>1. session[w] \in Session
      BY DEF TypeOK
    <3> QED
      BY <2>1, <3>1 DEF TypeOK, Session
  <2>4. UNCHANGED <<rowVars, disregarded>> /\ session[w].stage = "observing"
    BY <1>9 DEF LockPending
  <2>5. SessionsEngaged' /\ LocksHeld'
    BY <1>2, <2>2, <2>3 DEF SessionsEngaged, LocksHeld
  <2>6. SessionsSound'
    BY <1>2, <1>4, <2>3, <2>4 DEF SessionsSound, EpisodeAt
  <2>7. LocksSound'
    <3> SUFFICES ASSUME NEW v \in Worker, session'[v].stage = "locked"
                 PROVE  /\ suggestions'[session'[v].row].status = "PENDING"
                        /\ ValueOf[session'[v].row] = ValueOf[EpisodeOf[session'[v].event]]
                        /\ suggestions'[session'[v].row].count = session'[v].count
                        /\ \A u \in Worker : session'[u].row = session'[v].row => u = v
      BY DEF LocksSound, ValueAt, EpisodeAt
    <3>1. CASE v = w
      BY <2>1, <2>2, <2>3, <2>4, <3>1 DEF Unlocked, ValueAt, EpisodeAt
    <3>2. CASE v # w
      <4>1. session'[v] = session[v] /\ session[v].row # p
        BY <2>1, <2>3, <3>2 DEF Unlocked
      <4>2. \A u \in Worker : session'[u].row = session[v].row => u = v
        BY <2>3, <4>1 DEF LocksSound
      <4> QED
        BY <2>4, <4>1, <4>2 DEF LocksSound, ValueAt, EpisodeAt
    <3> QED
      BY <3>1, <3>2
  <2>8. KeysSound'
    BY <2>3, <2>4 DEF KeysSound, InTransaction, EpisodeAt
  <2> QED
    BY <2>5, <2>6, <2>7, <2>8 DEF SlotsSound
<1> QED
  BY <1>5, <1>6, <1>7, <1>8, <1>9

-----------------------------------------------------------------------------
(* The rows                                                                 *)

RowsSound ==
  ClaimsSound /\ EvidenceSound /\ OnePending /\ EpisodeCountedOnce /\ CountIsEvidence
  /\ ConfirmedFactsOnce

LEMMA RowsStay ==
  ASSUME MemoryInv, UNCHANGED <<rowVars, facts>>, disregarded \subseteq disregarded'
  PROVE  RowsSound'
BY DEF MemoryInv, RowsSound, rowVars, ClaimsSound, EvidenceSound, OnePending,
   EpisodeCountedOnce, CountIsEvidence, ConfirmedFactsOnce

LEMMA InCooldownRows ==
  ASSUME MemoryInv, NEW w \in Worker, InCooldown(w)
  PROVE  RowsSound'
<1> USE DEF MemoryInv, InCooldown
<1>1. ClaimsSound'
  BY DEF ClaimsSound
<1>2. (EvidenceSound /\ OnePending /\ EpisodeCountedOnce /\ CountIsEvidence /\ ConfirmedFactsOnce)'
  BY DEF EvidenceSound, OnePending, EpisodeCountedOnce, CountIsEvidence, ConfirmedFactsOnce,
     ownerVars
<1> QED
  BY <1>1, <1>2 DEF RowsSound

\* An episode that nobody has claimed has not been counted, for anything.
LEMMA Uncounted ==
  ASSUME MemoryInv, NEW ep \in Episode, ep \notin claimed
  PROVE  /\ times[ep] = 0
         /\ suggestions[ep].status = "none"
         /\ \A p \in Episode : ep \notin evidence[p]
BY DEF MemoryInv, TypeOK, ClaimsSound, EvidenceSound

LEMMA UpdateRows ==
  ASSUME MemoryInv, NEW w \in Worker, UpdateSuggestion(w)
  PROVE  RowsSound'
<1> USE DEF MemoryInv
<1> DEFINE p == session[w].row
           ep == EpisodeAt(w)
<1>1. /\ p \in Episode /\ session[w].stage = "locked"
      /\ suggestions[p].status = "PENDING"
      /\ suggestions[p].count = session[w].count
  BY DEF UpdateSuggestion, LocksHeld, LocksSound
<1>2. ep \in Episode /\ ep \notin claimed
  BY <1>1, MemoryAssumption DEF SessionsEngaged, KeysSound, InTransaction, EpisodeAt
<1>3. /\ claimed' = claimed \cup {ep}
      /\ evidence' = [evidence EXCEPT ![p] = @ \cup {ep}]
      /\ times' = [times EXCEPT ![ep] = @ + 1]
      /\ UNCHANGED <<facts, disregarded>>
  BY DEF UpdateSuggestion, Counted, ownerVars
<1>4. /\ \A q \in Episode : q # p => suggestions'[q] = suggestions[q]
      /\ suggestions'[p].status = "PENDING"
      /\ suggestions'[p].count = suggestions[p].count + 1
  BY <1>1 DEF UpdateSuggestion, TypeOK, SuggestionRow
<1>5. /\ \A q \in Episode : q # ep => times'[q] = times[q]
      /\ times'[ep] = 1
      /\ times[ep] = 0
  BY <1>2, <1>3, Uncounted DEF TypeOK
<1> HIDE DEF p, ep
<1>6. ClaimsSound'
  BY <1>1, <1>2, <1>3, <1>4, <1>5 DEF ClaimsSound
<1>7. OnePending' /\ ConfirmedFactsOnce'
  <2>1. \A i \in 1..Len(facts) : facts[i] # "form" => facts[i] \in Episode /\ facts[i] # p
    BY <1>1 DEF TypeOK, ConfirmedFactsOnce
  <2>2. ConfirmedFactsOnce'
    BY <1>3, <1>4, <2>1 DEF ConfirmedFactsOnce
  <2> QED
    BY <1>1, <1>4, <2>2 DEF OnePending
<1>8. EpisodeCountedOnce'
  BY <1>2, <1>5 DEF EpisodeCountedOnce
<1>9. ASSUME NEW q \in Episode
      PROVE  /\ IsFiniteSet(evidence'[q])
             /\ \A x \in evidence'[q] : times'[x] > 0
             /\ suggestions'[q].count = Cardinality(evidence'[q])
  <2>1. CASE q # p
    <3>1. evidence'[q] = evidence[q] /\ suggestions'[q] = suggestions[q]
      BY <1>3, <1>4, <2>1 DEF TypeOK
    <3>2. \A x \in evidence[q] : x \in Episode /\ x # ep
      BY <1>2, Uncounted DEF TypeOK
    <3> QED
      BY <1>5, <3>1, <3>2 DEF EvidenceSound, CountIsEvidence
  <2>2. CASE q = p
    <3>1. evidence'[p] = evidence[p] \cup {ep} /\ ep \notin evidence[p]
      BY <1>1, <1>2, <1>3, Uncounted DEF TypeOK
    <3>2. IsFiniteSet(evidence[p]) /\ suggestions[p].count = Cardinality(evidence[p])
      BY <1>1 DEF EvidenceSound, CountIsEvidence
    <3>3. IsFiniteSet(evidence'[p]) /\ Cardinality(evidence'[p]) = Cardinality(evidence[p]) + 1
      <4> DEFINE E == evidence[p]
      <4>1. IsFiniteSet(E) /\ ep \notin E
        BY <3>1, <3>2
      <4> HIDE DEF E
      <4>2. IsFiniteSet(E \cup {ep}) /\ Cardinality(E \cup {ep}) = Cardinality(E) + 1
        BY <4>1, FS_AddElement
      <4> QED
        BY <3>1, <4>2 DEF E
    <3>4. \A x \in evidence'[p] : times'[x] > 0
      BY <1>1, <1>5, <3>1 DEF EvidenceSound, TypeOK
    <3> QED
      BY <1>4, <2>2, <3>2, <3>3, <3>4
  <2> QED
    BY <2>1, <2>2
<1>10. EvidenceSound' /\ CountIsEvidence'
  BY <1>9 DEF EvidenceSound, CountIsEvidence
<1> QED
  BY <1>6, <1>7, <1>8, <1>10 DEF RowsSound

LEMMA InsertRows ==
  ASSUME MemoryInv, NEW w \in Worker, InsertSuggestion(w)
  PROVE  RowsSound'
<1> USE DEF MemoryInv
<1> DEFINE ep == EpisodeAt(w)
<1>1. ep \in Episode /\ ep \notin claimed
  BY MemoryAssumption
  DEF InsertSuggestion, SessionsEngaged, KeysSound, InTransaction, EpisodeAt
<1>2. /\ claimed' = claimed \cup {ep}
      /\ evidence' = [evidence EXCEPT ![ep] = {ep}]
      /\ times' = [times EXCEPT ![ep] = @ + 1]
      /\ UNCHANGED <<facts, disregarded>>
  BY DEF InsertSuggestion, ownerVars
<1>3. /\ \A q \in Episode : q # ep => suggestions'[q] = suggestions[q]
      /\ suggestions'[ep].status = "PENDING"
      /\ suggestions'[ep].count = 1
  BY <1>1 DEF InsertSuggestion, TypeOK
<1>4. /\ \A q \in Episode : q # ep => times'[q] = times[q]
      /\ times'[ep] = 1
  BY <1>1, <1>2, Uncounted DEF TypeOK
<1>5. \A q \in Episode : suggestions[q].status = "PENDING" => ValueOf[q] # ValueOf[ep]
  BY <1>1 DEF InsertSuggestion, Pending, ValueAt
<1>6. suggestions[ep].status = "none" /\ \A q \in Episode : ep \notin evidence[q]
  BY <1>1, Uncounted
<1> HIDE DEF ep
<1>7. ClaimsSound'
  BY <1>1, <1>2, <1>3, <1>4 DEF ClaimsSound
<1>8. OnePending'
  BY <1>1, <1>3, <1>5 DEF OnePending
<1>9. ConfirmedFactsOnce'
  <2>1. \A i \in 1..Len(facts) : facts[i] # "form" => facts[i] \in Episode
    BY DEF TypeOK
  <2> QED
    BY <1>2, <1>3, <1>6, <2>1 DEF ConfirmedFactsOnce
<1>10. EpisodeCountedOnce'
  BY <1>1, <1>4 DEF EpisodeCountedOnce
<1>11. ASSUME NEW q \in Episode
       PROVE  /\ IsFiniteSet(evidence'[q])
              /\ \A x \in evidence'[q] : times'[x] > 0
              /\ suggestions'[q].count = Cardinality(evidence'[q])
  <2>1. CASE q # ep
    <3>1. evidence'[q] = evidence[q] /\ suggestions'[q] = suggestions[q]
      BY <1>2, <1>3, <2>1 DEF TypeOK
    <3>2. \A x \in evidence[q] : x \in Episode /\ x # ep
      BY <1>6 DEF TypeOK
    <3> QED
      BY <1>4, <3>1, <3>2 DEF EvidenceSound, CountIsEvidence
  <2>2. CASE q = ep
    <3>1. evidence'[ep] = {ep}
      BY <1>1, <1>2 DEF TypeOK
    <3>2. IsFiniteSet({ep}) /\ Cardinality({ep}) = 1
      BY FS_Singleton
    <3> QED
      BY <1>3, <1>4, <2>2, <3>1, <3>2
  <2> QED
    BY <2>1, <2>2
<1>12. EvidenceSound' /\ CountIsEvidence'
  BY <1>11 DEF EvidenceSound, CountIsEvidence
<1> QED
  BY <1>7, <1>8, <1>9, <1>10, <1>12 DEF RowsSound

\* Pending suggestions of S are resolved without a fact.
LEMMA RetiredRows ==
  ASSUME MemoryInv, NEW S, NEW status \in {"EXPIRED", "DISMISSED"},
         \A p \in S : p \in Episode /\ suggestions[p].status = "PENDING",
         \A p \in Episode : suggestions'[p] = IF p \in S THEN Retired(p, status)
                                              ELSE suggestions[p],
         UNCHANGED <<claimed, evidence, times, facts, disregarded>>
  PROVE  RowsSound'
<1> USE DEF MemoryInv
<1>1. \A p \in S : /\ suggestions'[p].status = status
                   /\ suggestions'[p].count = suggestions[p].count
  <2> SUFFICES ASSUME NEW p \in S
               PROVE  /\ suggestions'[p].status = status
                      /\ suggestions'[p].count = suggestions[p].count
    OBVIOUS
  <2>1. suggestions'[p] = [suggestions[p] EXCEPT !.status = status, !.cooldown = day + Cooldown]
    BY DEF Retired
  <2>2. suggestions[p] \in SuggestionRow
    BY RowTypes
  <2> QED
    BY <2>1, <2>2 DEF SuggestionRow
<1>2. ClaimsSound'
  BY <1>1 DEF ClaimsSound
<1>3. OnePending'
  BY <1>1 DEF OnePending
<1>4. ConfirmedFactsOnce'
  <2>1. \A i \in 1..Len(facts) : facts[i] # "form" => facts[i] \in Episode
    BY DEF TypeOK
  <2> QED
    BY <2>1 DEF ConfirmedFactsOnce
<1>5. EvidenceSound' /\ EpisodeCountedOnce' /\ CountIsEvidence'
  BY <1>1 DEF EvidenceSound, EpisodeCountedOnce, CountIsEvidence
<1> QED
  BY <1>2, <1>3, <1>4, <1>5 DEF RowsSound

LEMMA ConfirmRows ==
  ASSUME MemoryInv, NEW p \in Episode, Confirm(p)
  PROVE  RowsSound'
<1> USE DEF MemoryInv
<1>1. /\ \A q \in Episode : q # p => suggestions'[q] = suggestions[q]
      /\ suggestions'[p].status = "CONFIRMED"
      /\ suggestions'[p].count = suggestions[p].count
      /\ suggestions[p].status = "PENDING"
  BY RowTypes DEF Confirm, TypeOK, SuggestionRow
<1>2. ClaimsSound' /\ OnePending'
  BY <1>1 DEF Confirm, ClaimsSound, OnePending
<1>3. EvidenceSound' /\ EpisodeCountedOnce' /\ CountIsEvidence'
  BY <1>1 DEF Confirm, EvidenceSound, EpisodeCountedOnce, CountIsEvidence
<1>4. ConfirmedFactsOnce'
  <2>1. /\ facts \in Seq(Episode \cup {"form"})
        /\ facts' = Append(facts, p)
        /\ p # "form"
    BY MemoryAssumption DEF Confirm, TypeOK
  <2>2. /\ Len(facts') = Len(facts) + 1
        /\ \A i \in 1..Len(facts) : facts'[i] = facts[i]
        /\ facts'[Len(facts) + 1] = p
    BY <2>1
  <2>3. \A i \in 1..Len(facts) : /\ facts[i] # p
                                 /\ facts[i] # "form" => facts[i] \in Episode
    BY <1>1, <2>1 DEF ConfirmedFactsOnce
  <2> SUFFICES ASSUME NEW i \in 1..Len(facts'), facts'[i] # "form"
               PROVE  /\ suggestions'[facts'[i]].status = "CONFIRMED"
                      /\ \A j \in 1..Len(facts') : facts'[j] = facts'[i] => j = i
    BY DEF ConfirmedFactsOnce
  <2>4. CASE i \in 1..Len(facts)
    BY <1>1, <2>1, <2>2, <2>3, <2>4 DEF ConfirmedFactsOnce
  <2>5. CASE i = Len(facts) + 1
    BY <1>1, <2>1, <2>2, <2>3, <2>5
  <2> QED
    BY <2>1, <2>2, <2>4, <2>5
<1> QED
  BY <1>2, <1>3, <1>4 DEF RowsSound

\* The suggestions of S are deleted; the facts that stay are none of them.
LEMMA DeletedRows ==
  ASSUME MemoryInv, NEW S, Delete(S), UNCHANGED <<claimed, times, disregarded>>
  PROVE  (ClaimsSound /\ EvidenceSound /\ OnePending /\ EpisodeCountedOnce /\ CountIsEvidence)'
<1> USE DEF MemoryInv
<1>1. \A p \in Episode : /\ p \in S => suggestions'[p] = NoSuggestion /\ evidence'[p] = {}
                         /\ p \notin S => /\ suggestions'[p] = suggestions[p]
                                          /\ evidence'[p] = evidence[p]
  BY DEF Delete
<1>2. NoSuggestion.status = "none" /\ NoSuggestion.count = 0
  BY DEF NoSuggestion
<1>3. (ClaimsSound /\ OnePending /\ EpisodeCountedOnce)'
  BY <1>1, <1>2 DEF ClaimsSound, OnePending, EpisodeCountedOnce
<1>4. EvidenceSound' /\ CountIsEvidence'
  BY <1>1, <1>2, FS_EmptySet DEF EvidenceSound, CountIsEvidence
<1> QED
  BY <1>3, <1>4

LEMMA FieldRows ==
  ASSUME MemoryInv,
         Sweep \/ StateField \/ ClearField \/ DeleteField \/ DeleteProfile \/ NextDay
  PROVE  RowsSound'
<1> USE DEF MemoryInv
<1>1. CASE Sweep
  BY <1>1, RetiredRows DEF Sweep, ownerVars
<1>2. CASE StateField
  <2>1. (ClaimsSound /\ EvidenceSound /\ OnePending /\ EpisodeCountedOnce /\ CountIsEvidence)'
    BY <1>2, DeletedRows DEF StateField
  <2>2. /\ facts \in Seq(Episode \cup {"form"})
        /\ facts' = Append(facts, "form")
    BY <1>2 DEF StateField, TypeOK
  <2>3. /\ Len(facts') = Len(facts) + 1
        /\ \A i \in 1..Len(facts) : facts'[i] = facts[i]
        /\ facts'[Len(facts) + 1] = "form"
    BY <2>2
  <2>4. \A i \in 1..Len(facts) : facts[i] # "form" =>
          suggestions'[facts[i]] = suggestions[facts[i]]
    BY <1>2, <2>2 DEF StateField, Delete, ConfirmedFactsOnce
  <2>5. ConfirmedFactsOnce'
    BY <2>2, <2>3, <2>4 DEF ConfirmedFactsOnce
  <2> QED
    BY <2>1, <2>5 DEF RowsSound
<1>3. CASE DeleteField \/ DeleteProfile
  <2>1. (ClaimsSound /\ EvidenceSound /\ OnePending /\ EpisodeCountedOnce /\ CountIsEvidence)'
    BY <1>3, DeletedRows DEF DeleteField, DeleteProfile
  <2>2. facts' = <<>>
    BY <1>3 DEF DeleteField, DeleteProfile
  <2> QED
    BY <2>1, <2>2 DEF RowsSound, ConfirmedFactsOnce
<1>4. CASE ClearField
  BY <1>4 DEF ClearField, rowVars, RowsSound, ClaimsSound, EvidenceSound, OnePending,
     EpisodeCountedOnce, CountIsEvidence, ConfirmedFactsOnce
<1>5. CASE NextDay
  BY <1>5, RowsStay DEF NextDay, ownerVars
<1> QED
  BY <1>1, <1>2, <1>3, <1>4, <1>5

LEMMA RowsNext ==
  ASSUME MemoryInv, [Next]_vars
  PROVE  RowsSound'
<1>1. ASSUME NEW e \in Event, Enqueue(e) \/ TimeOut(e) PROVE RowsSound'
  BY <1>1, RowsStay DEF Enqueue, TimeOut, ownerVars
<1>2. ASSUME NEW w \in Worker, NEW e \in Event, Claim(w, e) PROVE RowsSound'
  BY <1>2, RowsStay DEF Claim, ownerVars
<1>3. ASSUME NEW w \in Worker, Work(w) \/ Crash(w) \/ SlotDies(w) PROVE RowsSound'
  <2>1. CASE InCooldown(w) \/ UpdateSuggestion(w) \/ InsertSuggestion(w)
    BY <2>1, InCooldownRows, UpdateRows, InsertRows
  <2>2. CASE \/ Disregard(w) \/ DuplicateEpisode(w) \/ BeginObservation(w) \/ LockPending(w)
             \/ FailObservation(w) \/ Settle(w) \/ ParkUnreadable(w) \/ Park(w)
             \/ Release(w) \/ Crash(w) \/ SlotDies(w)
    BY <2>2, RowsStay DEF Disregard, DuplicateEpisode, BeginObservation, LockPending,
       FailObservation, Settle, ParkUnreadable, Park, Release, Crash, SlotDies, ownerVars
  <2> QED
    BY <1>3, <2>1, <2>2 DEF Work
<1>4. ASSUME NEW p \in Episode, ConfirmLapsed(p) \/ Confirm(p) \/ Dismiss(p) PROVE RowsSound'
  <2>1. CASE Confirm(p)
    BY <2>1, ConfirmRows
  <2>2. CASE ConfirmLapsed(p)
    <3>1. \A q \in Episode : suggestions'[q] = IF q \in {p} THEN Retired(q, "EXPIRED")
                                               ELSE suggestions[q]
      BY <2>2 DEF ConfirmLapsed, MemoryInv, TypeOK
    <3> QED
      BY <2>2, <3>1, RetiredRows DEF ConfirmLapsed, ownerVars
  <2>3. CASE Dismiss(p)
    <3>1. \A q \in Episode : suggestions'[q] = IF q \in {p} THEN Retired(q, "DISMISSED")
                                               ELSE suggestions[q]
      BY <2>3 DEF Dismiss, MemoryInv, TypeOK
    <3> QED
      BY <2>3, <3>1, RetiredRows DEF Dismiss, ownerVars
  <2> QED
    BY <1>4, <2>1, <2>2, <2>3
<1>5. CASE Sweep \/ StateField \/ ClearField \/ DeleteField \/ DeleteProfile \/ NextDay
  BY <1>5, FieldRows
<1>6. CASE UNCHANGED vars
  BY <1>6, RowsStay DEF vars, ownerVars
<1> QED
  BY <1>1, <1>2, <1>3, <1>4, <1>5, <1>6 DEF Next

-----------------------------------------------------------------------------
(* Nothing is settled unobserved                                            *)

LEMMA ProcessedNext ==
  ASSUME MemoryInv, [Next]_vars
  PROVE  ProcessedWasObserved'
<1> USE MemoryAssumption DEF MemoryInv
<1>1. ASSUME NEW e \in Event, Enqueue(e) \/ TimeOut(e) PROVE ProcessedWasObserved'
  <2>1. CASE Enqueue(e)
    BY <2>1 DEF Enqueue, ProcessedWasObserved, TypeOK, rowVars
  <2>2. CASE TimeOut(e)
    <3>1. \A x \in Event : outbox'[x].status = outbox[x].status
      BY <2>2 DEF TimeOut, TypeOK, OutboxRow
    <3> QED
      BY <2>2, <3>1 DEF TimeOut, ProcessedWasObserved, rowVars
  <2> QED
    BY <1>1, <2>1, <2>2
<1>2. ASSUME NEW w \in Worker, NEW e \in Event, Claim(w, e) PROVE ProcessedWasObserved'
  BY <1>2 DEF Claim, ProcessedWasObserved, TypeOK, OutboxRow, rowVars
<1>3. ASSUME NEW w \in Worker, Settle(w) PROVE ProcessedWasObserved'
  <2>1. /\ session[w].event \in Event
        /\ times[EpisodeOf[session[w].event]] > 0 \/ session[w].event \in disregarded
    BY <1>3 DEF Settle, SessionsEngaged, SessionsSound, EpisodeAt
  <2>2. \A e \in Event : e # session[w].event => outbox'[e] = outbox[e]
    BY <1>3 DEF Settle, TypeOK
  <2> QED
    BY <1>3, <2>1, <2>2 DEF Settle, ProcessedWasObserved, rowVars
<1>4. ASSUME NEW w \in Worker, ParkUnreadable(w) \/ Park(w) \/ Release(w)
      PROVE  ProcessedWasObserved'
  <2>1. session[w].event \in Event
    BY <1>4 DEF ParkUnreadable, Park, Release, SessionsEngaged
  <2>2. PICK x \in {"FAILED", "PENDING"} :
          outbox' = [outbox EXCEPT ![session[w].event].status = x,
                                   ![session[w].event].due = FALSE]
    BY <1>4 DEF ParkUnreadable, Park, Release
  <2>3. outbox'[session[w].event].status = x
    BY <2>1, <2>2 DEF TypeOK, OutboxRow
  <2>4. \A e \in Event : e # session[w].event => outbox'[e] = outbox[e]
    BY <2>2 DEF TypeOK
  <2>5. UNCHANGED <<rowVars, disregarded>>
    BY <1>4 DEF ParkUnreadable, Park, Release
  <2> QED
    BY <2>3, <2>4, <2>5 DEF ProcessedWasObserved, rowVars
<1>5. ASSUME UNCHANGED outbox, disregarded \subseteq disregarded',
             \A ep \in Episode : times[ep] > 0 => times'[ep] > 0
      PROVE  ProcessedWasObserved'
  BY <1>5 DEF ProcessedWasObserved
<1>6. ASSUME NEW w \in Worker, UpdateSuggestion(w) \/ InsertSuggestion(w)
      PROVE  ProcessedWasObserved'
  <2>1. times' = [times EXCEPT ![EpisodeAt(w)] = @ + 1]
    BY <1>6 DEF UpdateSuggestion, InsertSuggestion, Counted
  <2>2. \A ep \in Episode : times[ep] > 0 => times'[ep] > 0
    BY <2>1 DEF TypeOK
  <2>3. UNCHANGED <<outbox, disregarded>>
    BY <1>6 DEF UpdateSuggestion, InsertSuggestion
  <2> QED
    BY <1>5, <2>2, <2>3
<1>7. ASSUME NEW w \in Worker,
             \/ Disregard(w) \/ DuplicateEpisode(w) \/ InCooldown(w) \/ BeginObservation(w)
             \/ LockPending(w) \/ FailObservation(w) \/ Crash(w) \/ SlotDies(w)
      PROVE  ProcessedWasObserved'
  BY <1>5, <1>7 DEF Disregard, DuplicateEpisode, InCooldown, BeginObservation, LockPending,
     FailObservation, Crash, SlotDies, rowVars
<1>8. ASSUME NEW p \in Episode, ConfirmLapsed(p) \/ Confirm(p) \/ Dismiss(p)
      PROVE  ProcessedWasObserved'
  BY <1>5, <1>8 DEF ConfirmLapsed, Confirm, Dismiss
<1>9. CASE Sweep \/ StateField \/ ClearField \/ DeleteField \/ DeleteProfile \/ NextDay
  BY <1>5, <1>9 DEF Sweep, StateField, ClearField, DeleteField, DeleteProfile, NextDay, rowVars
<1>10. CASE UNCHANGED vars
  BY <1>5, <1>10 DEF vars, rowVars
<1> QED
  BY <1>1, <1>2, <1>3, <1>4, <1>6, <1>7, <1>8, <1>9, <1>10 DEF Next, Work

-----------------------------------------------------------------------------
(* Suppression                                                              *)

LEMMA CoolingKept ==
  ASSUME MemoryInv,
         \A v \in Worker : InTransaction(v)' =>
           InTransaction(v) /\ session'[v].event = session[v].event,
         \A e \in Event : outbox[e].status # "none" => outbox'[e].observed = outbox[e].observed,
         \A q \in Episode :
           \/ suggestions'[q].cooldown = 0
           \/ suggestions'[q].cooldown = suggestions[q].cooldown /\ underway'[q] = underway[q]
           \/ \A v \in Worker : InTransaction(v) /\ ValueAt(v) = ValueOf[q] =>
                EpisodeAt(v) \in underway'[q]
  PROVE  CoolingNoted'
<1> USE MemoryAssumption DEF MemoryInv
<1> SUFFICES ASSUME NEW w \in Worker, InTransaction(w)', NEW q \in Episode,
                    ValueOf[q] = ValueAt(w)'
             PROVE  suggestions'[q].cooldown <= ObservedAt(w)' \/ EpisodeAt(w)' \in underway'[q]
  BY DEF CoolingNoted
<1>1. /\ InTransaction(w) /\ session'[w].event = session[w].event
      /\ session[w].event \in Event /\ outbox[session[w].event].status # "none"
  BY DEF SessionsEngaged, SessionsSound, InTransaction
<1>2. /\ ObservedAt(w)' = ObservedAt(w)
      /\ ValueAt(w)' = ValueAt(w)
      /\ EpisodeAt(w)' = EpisodeAt(w)
  BY <1>1 DEF ObservedAt, ValueAt, EpisodeAt
<1>3. suggestions[q].cooldown <= ObservedAt(w) \/ EpisodeAt(w) \in underway[q]
  BY <1>1, <1>2 DEF CoolingNoted
<1>4. ObservedAt(w) \in Nat
  BY <1>1, RowTypes DEF ObservedAt
<1> QED
  BY <1>1, <1>2, <1>3, <1>4

LEMMA ObservedStays ==
  ASSUME MemoryInv, [Next]_vars
  PROVE  \A e \in Event : outbox[e].status # "none" => outbox'[e].observed = outbox[e].observed
<1> USE DEF MemoryInv, TypeOK, OutboxRow
<1> SUFFICES ASSUME NEW x \in Event, outbox[x].status # "none"
             PROVE  outbox'[x].observed = outbox[x].observed
  OBVIOUS
<1>1. ASSUME NEW e \in Event, Enqueue(e) \/ TimeOut(e)
      PROVE  outbox'[x].observed = outbox[x].observed
  <2>1. CASE Enqueue(e)
    BY <2>1 DEF Enqueue
  <2>2. CASE TimeOut(e)
    BY <2>2 DEF TimeOut
  <2> QED
    BY <1>1, <2>1, <2>2
<1>2. ASSUME NEW w \in Worker, NEW e \in Event, Claim(w, e)
      PROVE  outbox'[x].observed = outbox[x].observed
  BY <1>2 DEF Claim
<1>3. ASSUME NEW w \in Worker,
             Settle(w) \/ ParkUnreadable(w) \/ Park(w) \/ Release(w)
      PROVE  outbox'[x].observed = outbox[x].observed
  <2>1. session[w].event \in Event
    BY <1>3 DEF Settle, ParkUnreadable, Park, Release, SessionsEngaged
  <2>2. PICK status :
          outbox' = [outbox EXCEPT ![session[w].event].status = status,
                                   ![session[w].event].due = FALSE]
    BY <1>3 DEF Settle, ParkUnreadable, Park, Release
  <2> QED
    BY <2>1, <2>2
<1>4. CASE UNCHANGED outbox
  BY <1>4
<1> QED
  BY <1>1, <1>2, <1>3, <1>4 DEF Next, Work, Disregard, DuplicateEpisode, InCooldown,
     BeginObservation, LockPending, UpdateSuggestion, InsertSuggestion, FailObservation, Crash,
     SlotDies, ConfirmLapsed, Confirm, Dismiss, Sweep, StateField, ClearField, DeleteField,
     DeleteProfile, NextDay, vars

\* A suggestion is retired while no transaction has it locked: those that observe
\* its value have only looked at the cooldown.
LEMMA RetirementNoted ==
  ASSUME MemoryInv, NEW p \in Episode, Unlocked(p), suggestions[p].status = "PENDING",
         NEW v \in Worker, InTransaction(v), ValueAt(v) = ValueOf[p]
  PROVE  EpisodeAt(v) \in Underway(ValueOf[p])
<1>1. session[v].stage # "locked"
  BY DEF MemoryInv, Unlocked, OnePending, LocksHeld, LocksSound
<1>2. session[v].stage = "observing"
  BY <1>1 DEF InTransaction
<1> QED
  BY <1>2 DEF Underway

LEMMA SlotCooling ==
  ASSUME MemoryInv, NEW w \in Worker,
         [Next]_vars, Work(w) \/ Crash(w) \/ SlotDies(w)
  PROVE  CoolingNoted' /\ CooldownHonoured'
<1> USE MemoryAssumption DEF MemoryInv
<1>1. CASE \/ Settle(w) \/ ParkUnreadable(w) \/ Park(w) \/ Release(w) \/ Crash(w)
           \/ SlotDies(w)
  <2>1. UNCHANGED <<suggestions, evidence, underway>>
        /\ \A v \in Worker : session'[v] = session[v] \/ session'[v].stage \in {"idle", "dead"}
    BY <1>1 DEF Settle, ParkUnreadable, Park, Release, Crash, SlotDies, rowVars, NoSession,
       TypeOK
  <2>2. \A v \in Worker : InTransaction(v)' =>
          InTransaction(v) /\ session'[v].event = session[v].event
    BY <2>1 DEF InTransaction
  <2> QED
    BY <2>1, <2>2, ObservedStays, CoolingKept DEF CooldownHonoured
<1>2. CASE Disregard(w) \/ DuplicateEpisode(w) \/ InCooldown(w) \/ FailObservation(w)
  <2>1. /\ UNCHANGED <<suggestions, evidence, underway>>
        /\ Goto(w, "done") \/ Goto(w, "failed")
    BY <1>2 DEF Disregard, DuplicateEpisode, InCooldown, FailObservation, rowVars
  <2>2. \A v \in Worker : InTransaction(v)' =>
          InTransaction(v) /\ session'[v].event = session[v].event
    BY <2>1, GotoIs DEF InTransaction
  <2> QED
    BY <2>1, <2>2, ObservedStays, CoolingKept DEF CooldownHonoured
<1>3. CASE LockPending(w)
  <2>1. UNCHANGED <<suggestions, evidence, underway>> /\ InTransaction(w)
    BY <1>3 DEF LockPending, rowVars, InTransaction
  <2>2. \A v \in Worker : session'[v].event = session[v].event
    BY <1>3 DEF LockPending, TypeOK, Session
  <2>3. \A v \in Worker : InTransaction(v)' => InTransaction(v)
    BY <1>3, <2>1 DEF LockPending, TypeOK, Session, InTransaction
  <2> QED
    BY <2>1, <2>2, <2>3, ObservedStays, CoolingKept DEF CooldownHonoured
<1>4. CASE BeginObservation(w)
  <2>1. UNCHANGED <<outbox, suggestions, evidence, underway>>
        /\ ~Cooling(ValueAt(w), ObservedAt(w))
    BY <1>4 DEF BeginObservation, rowVars
  <2>2. /\ session'[w].event = session[w].event
        /\ \A v \in Worker : v # w => session'[v] = session[v]
    BY <1>4, GotoIs DEF BeginObservation
  <2>3. session[w].event \in Event
    BY <1>4 DEF BeginObservation, Observable, SessionsEngaged
  <2>4. \A q \in Episode : ValueOf[q] = ValueAt(w) => suggestions[q].cooldown <= ObservedAt(w)
    BY <2>1, <2>3, RowTypes DEF Cooling, ObservedAt
  <2>5. CoolingNoted'
    BY <2>1, <2>2, <2>4 DEF CoolingNoted, InTransaction, ValueAt, EpisodeAt, ObservedAt
  <2> QED
    BY <2>1, <2>5 DEF CooldownHonoured
<1>5. CASE UpdateSuggestion(w) \/ InsertSuggestion(w)
  <2> DEFINE at == ObservedAt(w)
             ep == EpisodeAt(w)
  <2>1. PICK p \in Episode :
          /\ ValueOf[p] = ValueAt(w)
          /\ suggestions'[p].status = "PENDING"
          /\ ep \in evidence'[p]
          /\ \A q \in Episode : q # p => /\ suggestions'[q] = suggestions[q]
                                         /\ evidence'[q] = evidence[q]
          /\ suggestions'[p].cooldown = suggestions[p].cooldown \/ suggestions'[p].cooldown = 0
          /\ \/ suggestions'[p].first = at
             \/ /\ suggestions[p].status = "PENDING"
                /\ suggestions'[p].first = suggestions[p].first
                /\ evidence[p] \subseteq evidence'[p]
    <3>1. CASE UpdateSuggestion(w)
      <4> DEFINE p == session[w].row
      <4>1. /\ p \in Episode
            /\ ValueOf[p] = ValueAt(w)
            /\ suggestions[p].status = "PENDING"
        BY <3>1 DEF UpdateSuggestion, LocksHeld, LocksSound
      <4>2. /\ \A q \in Episode : q # p => suggestions'[q] = suggestions[q]
            /\ suggestions'[p].status = "PENDING"
            /\ suggestions'[p].cooldown = suggestions[p].cooldown
        BY <3>1, <4>1 DEF UpdateSuggestion, TypeOK, SuggestionRow
      <4>3. suggestions'[p].first = IF at < suggestions[p].first THEN at
                                    ELSE suggestions[p].first
        BY <3>1, <4>1 DEF UpdateSuggestion, TypeOK, SuggestionRow
      <4>4. /\ evidence'[p] = evidence[p] \cup {ep}
            /\ \A q \in Episode : q # p => evidence'[q] = evidence[q]
        BY <3>1, <4>1 DEF UpdateSuggestion, Counted, TypeOK
      <4> QED
        BY <4>1, <4>2, <4>3, <4>4
    <3>2. CASE InsertSuggestion(w)
      <4>1. ep \in Episode /\ ValueOf[ep] = ValueAt(w)
        BY <3>2 DEF InsertSuggestion, SessionsEngaged, EpisodeAt, ValueAt
      <4> QED
        BY <3>2, <4>1 DEF InsertSuggestion, TypeOK
    <3> QED
      BY <1>5, <3>1, <3>2
  <2>2. InTransaction(w) /\ session[w].event \in Event /\ UNCHANGED underway
    BY <1>5 DEF UpdateSuggestion, InsertSuggestion, InTransaction, SessionsEngaged
  <2>3. \A q \in Episode : ValueOf[q] = ValueOf[p] =>
          suggestions[q].cooldown <= at \/ ep \in underway[q]
    BY <2>1, <2>2 DEF CoolingNoted
  <2>4. at \in Nat
    BY <2>2, RowTypes DEF ObservedAt
  <2> HIDE DEF at, ep
  <2>5. CooldownHonoured'
    <3> SUFFICES ASSUME NEW x \in Episode, NEW q \in Episode,
                        suggestions'[x].status = "PENDING", x # q, ValueOf[x] = ValueOf[q],
                        suggestions'[q].cooldown > suggestions'[x].first
                 PROVE  evidence'[x] \cap underway[q] # {}
      BY <2>2 DEF CooldownHonoured
    <3>1. CASE x = p
      <4>1. suggestions[q].cooldown \in Nat /\ suggestions'[q].cooldown = suggestions[q].cooldown
        BY <2>1, <3>1, RowTypes
      <4>2. CASE suggestions'[p].first = at
        <5>1. suggestions[q].cooldown > at
          BY <3>1, <4>1, <4>2
        <5>2. ep \in underway[q]
          BY <2>3, <2>4, <3>1, <4>1, <5>1
        <5> QED
          BY <2>1, <3>1, <5>2
      <4>3. CASE suggestions'[p].first # at
        <5>1. evidence[p] \cap underway[q] # {}
          BY <2>1, <3>1, <4>1, <4>3 DEF CooldownHonoured
        <5> QED
          BY <2>1, <3>1, <4>3, <5>1
      <4> QED
        BY <4>2, <4>3
    <3>2. CASE x # p
      <4>1. /\ suggestions[x].status = "PENDING" /\ suggestions[x].first \in Nat
            /\ suggestions'[x] = suggestions[x] /\ evidence'[x] = evidence[x]
        BY <2>1, <3>2, RowTypes
      <4>2. suggestions[q].cooldown > suggestions[x].first
        BY <2>1, <4>1, RowTypes
      <4> QED
        BY <4>1, <4>2 DEF CooldownHonoured
    <3> QED
      BY <3>1, <3>2
  <2>6. Goto(w, "done")
    BY <1>5 DEF UpdateSuggestion, InsertSuggestion
  <2>7. \A v \in Worker : InTransaction(v)' =>
          InTransaction(v) /\ session'[v].event = session[v].event
    BY <2>6, GotoIs DEF InTransaction
  <2>8. \A q \in Episode : suggestions'[q].cooldown = suggestions[q].cooldown
                           \/ suggestions'[q].cooldown = 0
    BY <2>1
  <2> QED
    BY <2>2, <2>5, <2>7, <2>8, ObservedStays, CoolingKept
<1> QED
  BY <1>1, <1>2, <1>3, <1>4, <1>5 DEF Work

\* Suggestions of S are retired, confirmed or deleted.
LEMMA ResolvedCooling ==
  ASSUME MemoryInv, [Next]_vars, UNCHANGED session, NEW S,
         \A p \in Episode : p \in S =>
           /\ suggestions'[p].status # "PENDING"
           /\ \/ suggestions'[p].cooldown = 0
              \/ /\ suggestions[p].status = "PENDING"
                 /\ Unlocked(p)
                 /\ \/ /\ suggestions'[p].cooldown = suggestions[p].cooldown
                       /\ underway'[p] = underway[p]
                    \/ underway'[p] = Underway(ValueOf[p]),
         \A p \in Episode : p \notin S =>
           /\ suggestions'[p] = suggestions[p]
           /\ evidence'[p] = evidence[p]
           /\ underway'[p] = underway[p]
  PROVE  CoolingNoted' /\ CooldownHonoured'
<1> USE DEF MemoryInv
<1>1. CoolingNoted'
  <2>1. \A v \in Worker : InTransaction(v)' =>
          InTransaction(v) /\ session'[v].event = session[v].event
    BY DEF InTransaction
  <2>2. ASSUME NEW q \in Episode
        PROVE  \/ suggestions'[q].cooldown = 0
               \/ /\ suggestions'[q].cooldown = suggestions[q].cooldown
                  /\ underway'[q] = underway[q]
               \/ \A v \in Worker : InTransaction(v) /\ ValueAt(v) = ValueOf[q] =>
                    EpisodeAt(v) \in underway'[q]
    BY RetirementNoted
  <2> QED
    BY <2>1, <2>2, ObservedStays, CoolingKept
<1>2. CooldownHonoured'
  <2> SUFFICES ASSUME NEW p \in Episode, NEW q \in Episode,
                      suggestions'[p].status = "PENDING", p # q, ValueOf[p] = ValueOf[q],
                      suggestions'[q].cooldown > suggestions'[p].first
               PROVE  evidence'[p] \cap underway'[q] # {}
    BY DEF CooldownHonoured
  <2>1. /\ suggestions'[p] = suggestions[p] /\ suggestions[p].first \in Nat
        /\ evidence'[p] = evidence[p]
    BY RowTypes
  <2>2. q \notin S
    <3> SUFFICES ASSUME q \in S PROVE FALSE
      OBVIOUS
    <3>1. suggestions[q].status # "PENDING"
      BY <2>1 DEF OnePending
    <3>2. suggestions'[q].cooldown = 0
      BY <3>1
    <3> QED
      BY <2>1, <3>2
  <2> QED
    BY <2>1, <2>2 DEF CooldownHonoured
<1> QED
  BY <1>1, <1>2

LEMMA CoolingNext ==
  ASSUME MemoryInv, [Next]_vars
  PROVE  CoolingNoted' /\ CooldownHonoured'
<1> USE DEF MemoryInv
<1>1. ASSUME NEW e \in Event, Enqueue(e) \/ TimeOut(e)
      PROVE  CoolingNoted' /\ CooldownHonoured'
  BY <1>1, ObservedStays, CoolingKept
  DEF Enqueue, TimeOut, rowVars, InTransaction, CooldownHonoured
<1>2. ASSUME NEW w \in Worker, NEW e \in Event, Claim(w, e)
      PROVE  CoolingNoted' /\ CooldownHonoured'
  <2>1. /\ UNCHANGED <<suggestions, evidence, underway>>
        /\ session'[w].stage = "claimed"
        /\ \A v \in Worker : v # w => session'[v] = session[v]
    BY <1>2 DEF Claim, rowVars, TypeOK, NoSession
  <2> QED
    BY <2>1, ObservedStays, CoolingKept DEF InTransaction, CooldownHonoured
<1>3. ASSUME NEW w \in Worker, Work(w) \/ Crash(w) \/ SlotDies(w)
      PROVE  CoolingNoted' /\ CooldownHonoured'
  BY <1>3, SlotCooling
<1>4. ASSUME NEW p \in Episode, ConfirmLapsed(p) \/ Confirm(p) \/ Dismiss(p)
      PROVE  CoolingNoted' /\ CooldownHonoured'
  <2>1. /\ Unlocked(p) /\ suggestions[p].status = "PENDING"
        /\ UNCHANGED <<session, evidence>>
    BY <1>4 DEF ConfirmLapsed, Confirm, Dismiss
  <2>2. /\ \A q \in Episode : q # p => /\ suggestions'[q] = suggestions[q]
                                       /\ underway'[q] = underway[q]
        /\ suggestions'[p].status # "PENDING"
        /\ \/ /\ suggestions'[p].cooldown = suggestions[p].cooldown
              /\ underway'[p] = underway[p]
           \/ underway'[p] = Underway(ValueOf[p])
    <3>1. CASE Confirm(p)
      BY <3>1 DEF Confirm, TypeOK, SuggestionRow
    <3>2. CASE ConfirmLapsed(p)
      BY <3>2, RetiredIs DEF ConfirmLapsed, TypeOK
    <3>3. CASE Dismiss(p)
      BY <3>3, RetiredIs DEF Dismiss, TypeOK
    <3> QED
      BY <1>4, <3>1, <3>2, <3>3
  <2> DEFINE S == {p}
  <2>3. /\ \A q \in Episode : q \in S <=> q = p
        /\ \A q \in Episode : evidence'[q] = evidence[q]
    BY <2>1
  <2> HIDE DEF S
  <2> QED
    BY <2>1, <2>2, <2>3, ResolvedCooling
<1>5. CASE Sweep
  <2> DEFINE S == {p \in Episode : suggestions[p].status = "PENDING"
                                   /\ suggestions[p].expires < day}
  <2>1. /\ \A p \in S : Unlocked(p)
        /\ suggestions' = [p \in Episode |-> IF p \in S THEN Retired(p, "EXPIRED")
                                             ELSE suggestions[p]]
        /\ underway' = [p \in Episode |-> IF p \in S THEN Underway(ValueOf[p])
                                          ELSE underway[p]]
        /\ UNCHANGED <<session, evidence>>
    BY <1>5 DEF Sweep
  <2>2. \A p \in S : suggestions'[p].status # "PENDING" /\ underway'[p] = Underway(ValueOf[p])
    BY <2>1, RowTypes DEF Retired, SuggestionRow
  <2>3. \A p \in S : suggestions[p].status = "PENDING"
    OBVIOUS
  <2>4. \A p \in Episode : p \notin S =>
          suggestions'[p] = suggestions[p] /\ underway'[p] = underway[p]
    BY <2>1
  <2> HIDE DEF S
  <2> QED
    BY <2>1, <2>2, <2>3, <2>4, ResolvedCooling
<1>6. ASSUME NEW S, Delete(S), UNCHANGED session PROVE CoolingNoted' /\ CooldownHonoured'
  <2>1. \A p \in Episode : p \in S =>
          suggestions'[p].cooldown = 0 /\ suggestions'[p].status = "none"
    BY <1>6 DEF Delete, NoSuggestion
  <2>2. \A p \in Episode : p \notin S => /\ suggestions'[p] = suggestions[p]
                                         /\ evidence'[p] = evidence[p]
                                         /\ underway'[p] = underway[p]
    BY <1>6 DEF Delete
  <2> QED
    BY <1>6, <2>1, <2>2, ResolvedCooling
<1>7. CASE StateField \/ DeleteField \/ DeleteProfile
  BY <1>6, <1>7 DEF StateField, DeleteField, DeleteProfile
<1>8. CASE ClearField \/ NextDay \/ UNCHANGED vars
  BY <1>8, ObservedStays, CoolingKept
  DEF ClearField, NextDay, vars, rowVars, InTransaction, CooldownHonoured
<1> QED
  BY <1>1, <1>2, <1>3, <1>4, <1>5, <1>7, <1>8 DEF Next

-----------------------------------------------------------------------------
(* The theorems                                                             *)

LEMMA MemoryInvNext ==
  ASSUME MemoryInv, [Next]_vars
  PROVE  MemoryInv'
<1>1. TypeOK'
  BY InvTypes
<1>2. SlotsSound'
  <2>1. ASSUME NEW w \in Worker, Work(w) \/ Crash(w) \/ SlotDies(w) PROVE SlotsSound'
    BY <2>1, SettlementSlots, ObservationSlots DEF Work
  <2>2. CASE UNCHANGED vars
    BY <2>2, SlotsStay DEF vars, rowVars
  <2> QED
    BY <2>1, <2>2, EventSlots, ClaimSlots, OwnerSlots, FieldSlots DEF Next
<1>3. RowsSound' /\ ProcessedWasObserved'
  BY RowsNext, ProcessedNext
<1>4. CoolingNoted' /\ CooldownHonoured'
  BY CoolingNext
<1> QED
  BY <1>1, <1>2, <1>3, <1>4 DEF MemoryInv, SlotsSound, RowsSound

\* The inductive invariant holds of every behaviour: what each slot knows of its
\* event and rows, what is claimed, counted and disregarded.
THEOREM MemoryInvariant == Spec => []MemoryInv
<1>1. Init => MemoryInv
  BY MemoryInvInit
<1>2. MemoryInv /\ [Next]_vars => MemoryInv'
  BY MemoryInvNext
<1> QED
  BY <1>1, <1>2, PTL DEF Spec

\* Type correctness for any number of slots, events and episodes.
THEOREM MemoryTypeCorrect == Spec => []TypeOK
BY MemoryInvariant, PTL DEF MemoryInv

\* An episode counts as evidence at most once, although events are delivered
\* again after a crash, a retry or a lease that ran out under a working slot:
\* its key is claimed in the transaction that counts it.
THEOREM EpisodesCountOnce == Spec => []EpisodeCountedOnce
BY MemoryInvariant, PTL DEF MemoryInv

\* A suggestion's count is the number of episodes it rests on: observations of
\* one value by several slots wait for each other's row lock.
THEOREM CountsAreEvidence == Spec => []CountIsEvidence
BY MemoryInvariant, PTL DEF MemoryInv

\* An event is settled as processed only when its episode was counted or there
\* was a reason not to, although the settlement is a statement of its own, by
\* event id alone.
THEOREM NothingLost == Spec => []ProcessedWasObserved
BY MemoryInvariant, PTL DEF MemoryInv

\* A suggestion makes at most one version of the fact, and only when confirmed,
\* whatever answers, retirements and deletions race for its row.
THEOREM FactsOnce == Spec => []ConfirmedFactsOnce
BY MemoryInvariant, PTL DEF MemoryInv

\* A dismissed or expired value is suggested again within its cooldown only by an
\* observation that had looked at the cooldown before it was set: the look takes
\* no lock, and nothing else, neither a late event nor a retry, gets round it.
THEOREM CooldownsHonoured == Spec => []CooldownHonoured
BY MemoryInvariant, PTL DEF MemoryInv

-----------------------------------------------------------------------------
(* How often an event is claimed                                            *)

Slots == Cardinality(Worker)

\* The slots that would put e back in the outbox if they failed, whatever has
\* become of it, and those that are free to claim it.
Young(e) == {w \in Worker : session[w].event = e /\ session[w].attempt < MaxAttempts}
Others(e) == {w \in Worker : session[w].event # e}
Waiting(e) == outbox[e].status \in {"PENDING", "PROCESSING"}

\* Claims that may come before e is settled again, and, twice, those that may
\* follow when y young slots put it back one after the other, with every slot
\* that is not young free to claim it each time: Slots - y + 1, ..., Slots.
Claims(e) == IF Waiting(e) THEN Cardinality(Others(e)) ELSE 0
TwiceReopened(y) == y * (2 * Slots - y + 1)

\* From the last regular attempt on, the attempts made and those that may still
\* be made are bounded together.
AttemptsInv ==
  /\ \A w \in Worker : session[w].stage \in {"idle", "dead"} => session[w].event = None
  /\ \A w \in Worker : session[w].event # None =>
       session[w].attempt <= outbox[session[w].event].attempts
  /\ \A e \in Event : outbox[e].attempts >= MaxAttempts =>
       2 * (outbox[e].attempts - MaxAttempts - faults) + 2 * Claims(e)
         + TwiceReopened(Cardinality(Young(e))) <= (Slots - 1) * (Slots + 2)

LEMMA ReopenedStep ==
  ASSUME NEW y \in Nat, y >= 1
  PROVE  /\ TwiceReopened(y) \in Int
         /\ TwiceReopened(y - 1) = TwiceReopened(y) - 2 * (Slots - y + 1)
<1>1. Slots \in Nat
  BY WorkerAssumption, FS_CardinalityType DEF Slots
<1> QED
  BY <1>1 DEF TwiceReopened

\* When the last regular attempt is claimed the other slots are young or free.
LEMMA ReopenedLast ==
  ASSUME NEW y \in Nat, y <= Slots - 1
  PROVE  2 * (Slots - 1 - y) + TwiceReopened(y) <= (Slots - 1) * (Slots + 2)
<1>1. Slots \in Nat
  BY WorkerAssumption, FS_CardinalityType DEF Slots
<1> DEFINE z == Slots - 1 - y
<1>2. z \in Nat /\ y = Slots - 1 - z
  BY <1>1
<1>3. 2 * z + (Slots - 1 - z) * (2 * Slots - (Slots - 1 - z) + 1)
        = (Slots - 1) * (Slots + 2) - z - z * z
  BY <1>1, <1>2
<1>4. z * z \in Nat
  BY <1>2
<1>5. (Slots - 1) * (Slots + 2) \in Int
  BY <1>1
<1> QED
  BY <1>1, <1>2, <1>3, <1>4, <1>5 DEF TwiceReopened

LEMMA SlotCounts ==
  ASSUME NEW e \in Event
  PROVE  /\ IsFiniteSet(Young(e)) /\ IsFiniteSet(Others(e))
         /\ Cardinality(Young(e)) \in Nat /\ Cardinality(Others(e)) \in Nat
         /\ Slots \in Nat
         /\ Cardinality(Young(e)) + Cardinality(Others(e)) <= Slots
<1>1. IsFiniteSet(Young(e)) /\ IsFiniteSet(Others(e))
  BY WorkerAssumption, FS_Subset DEF Young, Others
<1>2. Young(e) \cap Others(e) = {} /\ Young(e) \cup Others(e) \in SUBSET Worker
  BY DEF Young, Others
<1>3. Cardinality(Young(e) \cup Others(e))
        = Cardinality(Young(e)) + Cardinality(Others(e)) - Cardinality({})
  BY <1>1, <1>2, FS_Union
<1>4. Cardinality(Young(e) \cup Others(e)) <= Slots
  BY <1>2, WorkerAssumption, FS_Subset DEF Slots
<1> QED
  BY <1>1, <1>3, <1>4, WorkerAssumption, FS_CardinalityType, FS_EmptySet DEF Slots

\* A step that neither claims nor settles and ends no session.
LEMMA AttemptsKept ==
  ASSUME AttemptsInv, faults' = faults,
         \A w \in Worker : /\ session'[w].event = session[w].event
                           /\ session'[w].attempt = session[w].attempt
                           /\ session'[w].stage \in {"idle", "dead"} =>
                                session[w].stage \in {"idle", "dead"},
         \A w \in Worker : session[w].event # None => session[w].event \in Event,
         \A e \in Event : /\ outbox'[e].attempts = outbox[e].attempts
                          /\ Waiting(e)' <=> Waiting(e)
  PROVE  AttemptsInv'
<1>1. \A e \in Event : Young(e)' = Young(e) /\ Others(e)' = Others(e)
  BY DEF Young, Others
<1>2. \A e \in Event : Claims(e)' = Claims(e)
  BY <1>1 DEF Claims
<1> QED
  BY <1>1, <1>2 DEF AttemptsInv, TwiceReopened, Slots

LEMMA EnqueueAttempts ==
  ASSUME MemoryInv, AttemptsInv, NEW e \in Event, Enqueue(e)
  PROVE  AttemptsInv'
<1>1. TypeOK /\ SessionsEngaged /\ SessionsSound
  BY DEF MemoryInv
<1>2. \A w \in Worker : session[w].event # e
  BY <1>1, MemoryAssumption DEF Enqueue, AttemptsInv, SessionsSound
<1>3. outbox'[e].attempts = 0 /\ \A x \in Event : x # e => outbox'[x] = outbox[x]
  BY <1>1 DEF Enqueue, TypeOK
<1>4. \A w \in Worker : session[w].event # None => session[w].event \in Event
  BY <1>1 DEF TypeOK, Session
<1>5. session' = session /\ faults' = faults
  BY DEF Enqueue
<1>6. \A x \in Event : Young(x)' = Young(x) /\ Others(x)' = Others(x)
  BY <1>5 DEF Young, Others
<1>7. \A x \in Event \ {e} : Claims(x)' = Claims(x)
  BY <1>3, <1>6 DEF Claims, Waiting
<1> QED
  BY <1>2, <1>3, <1>4, <1>5, <1>6, <1>7, MemoryAssumption
     DEF AttemptsInv, TwiceReopened, Slots

\* A slot that claims an event is free for no other, and is young if its attempt
\* is below the limit.
LEMMA ClaimCounts ==
  ASSUME TypeOK, AttemptsInv, NEW w \in Worker, NEW e \in Event, Claim(w, e),
         NEW x \in Event
  PROVE  /\ x # e => Young(x)' = Young(x) /\ Others(x)' = Others(x)
         /\ w \in Others(e) /\ Others(e)' = Others(e) \ {w}
         /\ Young(e)' = IF outbox[e].attempts + 1 < MaxAttempts
                         THEN Young(e) \cup {w} ELSE Young(e)
<1>1. session[w].event = None
  BY DEF Claim, AttemptsInv
<1>2. session'[w] = [NoSession EXCEPT !.stage = "claimed", !.event = e,
                                      !.attempt = outbox[e].attempts + 1]
  BY DEF Claim, TypeOK
<1>3. session'[w].event = e /\ session'[w].attempt = outbox[e].attempts + 1
  BY <1>2 DEF NoSession
<1>4. \A v \in Worker : v # w => session'[v] = session[v]
  BY DEF Claim, TypeOK
<1> QED
  BY <1>1, <1>3, <1>4, MemoryAssumption DEF Young, Others

\* Before the last regular attempt every slot at work on an event is young.
LEMMA AllYoung ==
  ASSUME MemoryInv, AttemptsInv, NEW e \in Event, outbox[e].attempts < MaxAttempts
  PROVE  Cardinality(Young(e)) + Cardinality(Others(e)) = Slots
<1>1. TypeOK
  BY DEF MemoryInv
<1>2. ASSUME NEW w \in Worker, session[w].event = e
      PROVE  session[w].attempt < MaxAttempts
  <2>1. session[w].attempt \in Nat /\ outbox[e].attempts \in Nat
    BY <1>1 DEF TypeOK, Session, OutboxRow
  <2>2. session[w].attempt <= outbox[e].attempts
    BY <1>2, MemoryAssumption DEF AttemptsInv
  <2> QED
    BY <2>1, <2>2, MemoryAssumption
<1>3. Young(e) \cap Others(e) = {} /\ Young(e) \cup Others(e) = Worker
  BY <1>2 DEF Young, Others
<1>4. Cardinality(Worker)
        = Cardinality(Young(e)) + Cardinality(Others(e)) - Cardinality({})
  BY <1>3, SlotCounts, FS_Union
<1> QED
  BY <1>4, SlotCounts, FS_EmptySet DEF Slots

LEMMA ClaimAttempts ==
  ASSUME MemoryInv, AttemptsInv, NEW w \in Worker, NEW e \in Event, Claim(w, e)
  PROVE  AttemptsInv'
<1>1. TypeOK
  BY DEF MemoryInv
<1>2. /\ outbox[e].attempts \in Nat /\ faults \in Nat /\ MaxAttempts \in Nat
      /\ faults' = faults
  BY <1>1, RowTypes, MemoryAssumption DEF TypeOK, Claim
<1>3. /\ Waiting(e) /\ Waiting(e)'
      /\ outbox'[e].attempts = outbox[e].attempts + 1
      /\ \A x \in Event : x # e => outbox'[x] = outbox[x]
  <2>1. outbox[e] \in OutboxRow
    BY RowTypes, <1>1
  <2>2. outbox'[e] = [outbox[e] EXCEPT !.status = "PROCESSING",
                        !.attempts = outbox[e].attempts + 1, !.due = FALSE]
    BY <1>1 DEF Claim, TypeOK
  <2>3. outbox'[e].status = "PROCESSING" /\ outbox'[e].attempts = outbox[e].attempts + 1
    BY <2>1, <2>2 DEF OutboxRow
  <2> QED
    BY <1>1, <2>3 DEF Claim, TypeOK, Waiting
<1>4. session'[w].event = e /\ session'[w].attempt = outbox[e].attempts + 1
      /\ session'[w].stage = "claimed"
  <2>1. session'[w] = [NoSession EXCEPT !.stage = "claimed", !.event = e,
                                        !.attempt = outbox[e].attempts + 1]
    BY <1>1 DEF Claim, TypeOK
  <2> QED
    BY <2>1 DEF NoSession
<1>5. \A v \in Worker : v # w => session'[v] = session[v]
  BY <1>1 DEF Claim, TypeOK
<1>6. ASSUME NEW v \in Worker, session'[v].event # None
      PROVE  session'[v].attempt <= outbox'[session'[v].event].attempts
  <2>1. CASE v = w
    BY <1>2, <1>3, <1>4, <2>1
  <2>2. CASE v # w
    <3>1. session'[v] = session[v] /\ session[v].event \in Event
      BY <1>1, <1>5, <1>6, <2>2 DEF TypeOK, Session
    <3>2. session[v].attempt <= outbox[session[v].event].attempts
          /\ session[v].attempt \in Nat
      BY <1>1, <1>6, <3>1 DEF AttemptsInv, TypeOK, Session
    <3> QED
      BY <1>2, <1>3, <3>1, <3>2
  <2> QED
    BY <2>1, <2>2
<1>7. ASSUME NEW x \in Event, x # e, outbox'[x].attempts >= MaxAttempts
      PROVE  2 * (outbox'[x].attempts - MaxAttempts - faults') + 2 * Claims(x)'
               + TwiceReopened(Cardinality(Young(x)))' <= (Slots - 1) * (Slots + 2)
  <2>1. Claims(x)' = Claims(x) /\ Young(x)' = Young(x) /\ outbox'[x] = outbox[x]
    BY <1>1, <1>3, <1>7, ClaimCounts DEF Claims, Waiting
  <2> QED
    BY <1>2, <1>7, <2>1 DEF AttemptsInv, TwiceReopened, Slots
<1>8. ASSUME outbox'[e].attempts >= MaxAttempts
      PROVE  2 * (outbox'[e].attempts - MaxAttempts - faults') + 2 * Claims(e)'
               + TwiceReopened(Cardinality(Young(e)))' <= (Slots - 1) * (Slots + 2)
  <2> DEFINE y == Cardinality(Young(e))
             i == Cardinality(Others(e))
             a == outbox[e].attempts
             bound == (Slots - 1) * (Slots + 2)
  <2>1. y \in Nat /\ i \in Nat /\ Slots \in Nat /\ y + i <= Slots
    BY SlotCounts
  <2>2. Young(e)' = Young(e) /\ Claims(e)' = i - 1 /\ i >= 1
    <3>1. Young(e)' = Young(e) /\ Others(e)' = Others(e) \ {w} /\ w \in Others(e)
      BY <1>1, <1>2, <1>3, <1>8, ClaimCounts
    <3>2. Cardinality(Others(e) \ {w}) = i - 1 /\ IsFiniteSet(Others(e) \ {w})
      BY <3>1, SlotCounts, FS_RemoveElement
    <3>3. i - 1 \in Nat
      BY <3>2, FS_CardinalityType
    <3> QED
      BY <1>3, <2>1, <3>1, <3>2, <3>3 DEF Claims
  <2>3. TwiceReopened(y)' = TwiceReopened(y)
    BY <2>2 DEF TwiceReopened, Slots
  <2>4. TwiceReopened(y) \in Int /\ bound \in Int
    BY <2>1 DEF TwiceReopened
  <2>5. CASE a >= MaxAttempts
    <3>1. 2 * (a - MaxAttempts - faults) + 2 * i + TwiceReopened(y) <= bound
      BY <1>3, <2>5 DEF AttemptsInv, Claims
    <3>2. 2 * (a + 1 - MaxAttempts - faults) + 2 * (i - 1) + TwiceReopened(y) <= bound
      BY <1>2, <2>1, <2>4, <3>1
    <3> QED
      BY <1>2, <1>3, <2>2, <2>3, <3>2
  <2>6. CASE a < MaxAttempts
    <3>1. a + 1 = MaxAttempts /\ y + i = Slots
      BY <1>2, <1>3, <1>8, <2>6, AllYoung
    <3>2. 2 * (Slots - 1 - y) + TwiceReopened(y) <= bound
      BY <2>1, <2>2, <3>1, ReopenedLast
    <3>3. 2 * (a + 1 - MaxAttempts - faults) + 2 * (i - 1) + TwiceReopened(y) <= bound
      BY <1>2, <2>1, <2>4, <3>1, <3>2
    <3> QED
      BY <1>2, <1>3, <2>2, <2>3, <3>3
  <2> QED
    BY <1>2, <2>5, <2>6
<1> QED
  BY <1>1, <1>4, <1>5, <1>6, <1>7, <1>8 DEF AttemptsInv, Slots

\* The end of a session: its slot is free for the event it had, and young for
\* none.
LEMMA LeaveCounts ==
  ASSUME TypeOK, NEW w \in Worker, session'[w].event = None,
         \A v \in Worker : v # w => session'[v] = session[v],
         NEW x \in Event
  PROVE  /\ session[w].event # x => Young(x)' = Young(x) /\ Others(x)' = Others(x)
         /\ session[w].event = x => /\ w \notin Others(x)
                                    /\ Young(x)' = Young(x) \ {w}
                                    /\ Others(x)' = Others(x) \cup {w}
BY MemoryAssumption DEF Young, Others

\* A session ends with its event settled, with a fault, or, if it is young, with
\* its event put back.
LEMMA LeaveAttempts ==
  ASSUME MemoryInv, AttemptsInv, TypeOK', NEW w \in Worker,
         session'[w].event = None,
         \A v \in Worker : v # w => session'[v] = session[v],
         \A x \in Event : outbox'[x].attempts = outbox[x].attempts,
         \A x \in Event : session[w].event # x => Waiting(x)' = Waiting(x),
         faults' >= faults,
         \A x \in Event : session[w].event = x =>
           \/ ~Waiting(x)'
           \/ Waiting(x)' = Waiting(x) /\ faults' = faults + 1
           \/ session[w].attempt < MaxAttempts
  PROVE  AttemptsInv'
<1>1. TypeOK
  BY DEF MemoryInv
<1>2. faults \in Nat /\ faults' \in Nat /\ MaxAttempts \in Nat
  BY <1>1, MemoryAssumption DEF TypeOK
<1>3. ASSUME NEW v \in Worker
      PROVE  /\ session'[v].stage \in {"idle", "dead"} => session'[v].event = None
             /\ session'[v].event # None =>
                  session'[v].attempt <= outbox'[session'[v].event].attempts
  <2>1. CASE v = w
    BY <2>1
  <2>2. CASE v # w
    <3>1. session'[v] = session[v] /\ session[v].event \in Event \cup {None}
      BY <1>1, <2>2 DEF TypeOK, Session
    <3> QED
      BY <3>1 DEF AttemptsInv
  <2> QED
    BY <2>1, <2>2
<1>4. ASSUME NEW x \in Event, outbox'[x].attempts >= MaxAttempts
      PROVE  2 * (outbox'[x].attempts - MaxAttempts - faults') + 2 * Claims(x)'
               + TwiceReopened(Cardinality(Young(x)))' <= (Slots - 1) * (Slots + 2)
  <2> DEFINE y == Cardinality(Young(x))
             i == Cardinality(Others(x))
             a == outbox[x].attempts
             bound == (Slots - 1) * (Slots + 2)
  <2>1. /\ y \in Nat /\ i \in Nat /\ Slots \in Nat /\ y + i <= Slots
        /\ a \in Nat /\ outbox'[x].attempts = a
    BY <1>1, SlotCounts, RowTypes
  <2>2. 2 * (a - MaxAttempts - faults) + 2 * Claims(x) + TwiceReopened(y) <= bound
    BY <1>4, <2>1 DEF AttemptsInv
  <2>3. TwiceReopened(y) \in Int /\ bound \in Int
    BY <2>1 DEF TwiceReopened
  <2>4. CASE session[w].event # x
    <3>1. Claims(x)' = Claims(x) /\ Young(x)' = Young(x)
      BY <1>1, <2>4, LeaveCounts DEF Claims
    <3>2. Claims(x) \in Nat
      BY <2>1 DEF Claims
    <3>3. 2 * (a - MaxAttempts - faults') + 2 * Claims(x) + TwiceReopened(y) <= bound
      BY <1>2, <2>1, <2>2, <2>3, <3>2
    <3> QED
      BY <2>1, <3>1, <3>3 DEF TwiceReopened, Slots
  <2>5. CASE session[w].event = x
    <3>1. w \notin Others(x) /\ Young(x)' = Young(x) \ {w}
          /\ Others(x)' = Others(x) \cup {w}
      BY <1>1, <2>5, LeaveCounts
    <3>2. Cardinality(Others(x))' = i + 1
      BY <3>1, SlotCounts, FS_AddElement
    <3>3. Claims(x)' = IF Waiting(x)' THEN i + 1 ELSE 0
      BY <3>2 DEF Claims
    <3>4. w \in Young(x) <=> session[w].attempt < MaxAttempts
      BY <2>5 DEF Young
    <3>5. CASE w \in Young(x)
      <4>1. Cardinality(Young(x))' = y - 1 /\ y >= 1
        <5>1. Cardinality(Young(x) \ {w}) = y - 1 /\ IsFiniteSet(Young(x) \ {w})
          BY <3>5, SlotCounts, FS_RemoveElement
        <5>2. y - 1 \in Nat
          BY <5>1, FS_CardinalityType
        <5> QED
          BY <2>1, <3>1, <5>1, <5>2
      <4>2. TwiceReopened(y - 1) = TwiceReopened(y) - 2 * (Slots - y + 1)
        BY <2>1, <4>1, ReopenedStep
      <4>3. TwiceReopened(Cardinality(Young(x)))' = TwiceReopened(y - 1)
        BY <4>1 DEF TwiceReopened, Slots
      <4>4. Claims(x)' <= i + 1 /\ Claims(x)' \in Nat
            /\ Claims(x) \in {0, i}
        BY <2>1, <3>3 DEF Claims
      <4>5. 2 * (a - MaxAttempts - faults') + 2 * Claims(x)' + TwiceReopened(y - 1) <= bound
        BY <1>2, <2>1, <2>2, <2>3, <4>1, <4>2, <4>4
      <4> QED
        BY <2>1, <4>3, <4>5 DEF Slots
    <3>6. CASE w \notin Young(x)
      <4>1. Young(x)' = Young(x)
        BY <3>1, <3>6
      <4>2. TwiceReopened(Cardinality(Young(x)))' = TwiceReopened(y)
        BY <4>1 DEF TwiceReopened, Slots
      <4>3. ~Waiting(x)' \/ (Waiting(x)' = Waiting(x) /\ faults' = faults + 1)
        BY <2>5, <3>4, <3>6
      <4>4. \/ Claims(x)' = 0
            \/ Claims(x)' = i + 1 /\ Claims(x) = i /\ faults' = faults + 1
        BY <3>3, <4>3 DEF Claims
      <4>5. Claims(x) \in Nat
        BY <2>1 DEF Claims
      <4>6. 2 * (a - MaxAttempts - faults') + 2 * Claims(x)' + TwiceReopened(y) <= bound
        BY <1>2, <2>1, <2>2, <2>3, <4>4, <4>5
      <4> QED
        BY <2>1, <4>2, <4>6 DEF Slots
    <3> QED
      BY <3>5, <3>6
  <2> QED
    BY <2>4, <2>5
<1> QED
  BY <1>3, <1>4 DEF AttemptsInv, Slots

LEMMA SettlementAttempts ==
  ASSUME MemoryInv, AttemptsInv, TypeOK', NEW w \in Worker,
         Settle(w) \/ ParkUnreadable(w) \/ Park(w) \/ Release(w) \/ Crash(w) \/ SlotDies(w)
  PROVE  AttemptsInv'
<1>1. TypeOK /\ SessionsEngaged
  BY DEF MemoryInv
<1>2. session'[w].event = None /\ \A v \in Worker : v # w => session'[v] = session[v]
  <2>1. NoSession.event = None /\ [NoSession EXCEPT !.stage = "dead"].event = None
    BY DEF NoSession
  <2> QED
    BY <1>1, <2>1 DEF Settle, ParkUnreadable, Park, Release, Crash, SlotDies, TypeOK
<1>3. faults \in Nat
  BY <1>1 DEF TypeOK
<1>4. CASE Crash(w) \/ SlotDies(w)
  <2>1. outbox' = outbox /\ faults' = faults + 1
    BY <1>4 DEF Crash, SlotDies
  <2>2. \A x \in Event : Waiting(x)' = Waiting(x)
    BY <2>1 DEF Waiting
  <2> QED
    BY <1>2, <1>3, <2>1, <2>2, LeaveAttempts
<1>5. CASE Settle(w) \/ ParkUnreadable(w) \/ Park(w) \/ Release(w)
  <2> DEFINE e == session[w].event
  <2>1. e \in Event /\ faults' = faults
    BY <1>1, <1>5 DEF SessionsEngaged, Settle, ParkUnreadable, Park, Release
  <2>2. PICK status \in {"PROCESSED", "FAILED", "PENDING"} :
          /\ outbox' = [outbox EXCEPT ![e].status = status, ![e].due = FALSE]
          /\ status = "PENDING" => session[w].attempt < MaxAttempts
    BY <1>5 DEF Settle, ParkUnreadable, Park, Release
  <2>3. \A x \in Event : x # e => outbox'[x] = outbox[x]
    BY <1>1, <2>2 DEF TypeOK
  <2>4. outbox'[e].status = status /\ outbox'[e].attempts = outbox[e].attempts
    BY <1>1, <2>1, <2>2 DEF TypeOK, OutboxRow
  <2>5. \A x \in Event : e # x => Waiting(x)' = Waiting(x)
    BY <2>3 DEF Waiting
  <2>6. \A x \in Event : e = x => ~Waiting(x)' \/ session[w].attempt < MaxAttempts
    BY <2>2, <2>4 DEF Waiting
  <2>7. \A x \in Event : outbox'[x].attempts = outbox[x].attempts
    BY <2>3, <2>4
  <2> QED
    BY <1>2, <1>3, <2>1, <2>5, <2>6, <2>7, LeaveAttempts
<1> QED
  BY <1>4, <1>5

\* A slot that goes on with its event keeps its attempt.
LEMMA ObservationAttempts ==
  ASSUME MemoryInv, AttemptsInv, NEW w \in Worker,
         \/ Disregard(w) \/ DuplicateEpisode(w) \/ InCooldown(w) \/ BeginObservation(w)
         \/ LockPending(w) \/ UpdateSuggestion(w) \/ InsertSuggestion(w)
         \/ FailObservation(w)
  PROVE  AttemptsInv'
<1>1. TypeOK
  BY DEF MemoryInv
<1>2. session[w] \in Session /\ session[w].stage \notin {"idle", "dead"}
  BY <1>1 DEF TypeOK, Disregard, DuplicateEpisode, InCooldown, BeginObservation, Observable,
     LockPending, UpdateSuggestion, InsertSuggestion, FailObservation
<1>3. outbox' = outbox /\ faults' = faults
  BY DEF Disregard, DuplicateEpisode, InCooldown, BeginObservation, LockPending,
     UpdateSuggestion, InsertSuggestion, FailObservation
<1>4. ASSUME NEW stage \in {"done", "observing", "failed", "locked"}, NEW row, NEW count,
             session' = [session EXCEPT ![w].stage = stage, ![w].row = row,
                                        ![w].count = count]
      PROVE  AttemptsInv'
  <2>1. /\ session'[w].event = session[w].event
        /\ session'[w].attempt = session[w].attempt
        /\ session'[w].stage = stage
    BY <1>1, <1>2, <1>4 DEF TypeOK, Session
  <2>2. \A v \in Worker : v # w => session'[v] = session[v]
    BY <1>1, <1>4 DEF TypeOK
  <2>3. \A v \in Worker : session[v].event # None => session[v].event \in Event
    BY <1>1 DEF TypeOK, Session
  <2>4. \A x \in Event : Waiting(x)' <=> Waiting(x)
    BY <1>3 DEF Waiting
  <2> QED
    BY <1>3, <2>1, <2>2, <2>3, <2>4, AttemptsKept
<1>5. CASE LockPending(w)
  BY <1>4, <1>5 DEF LockPending
<1>6. CASE ~LockPending(w)
  BY <1>4, <1>6 DEF Disregard, DuplicateEpisode, InCooldown, BeginObservation,
     UpdateSuggestion, InsertSuggestion, FailObservation, Goto
<1> QED
  BY <1>5, <1>6

LEMMA AttemptsInvNext == MemoryInv /\ AttemptsInv /\ [Next]_vars => AttemptsInv'
<1> SUFFICES ASSUME MemoryInv, AttemptsInv, [Next]_vars PROVE AttemptsInv'
  OBVIOUS
<1>1. TypeOK /\ TypeOK'
  BY InvTypes DEF MemoryInv
<1>2. CASE UNCHANGED <<outbox, session, faults>>
  <2>1. \A x \in Event : Young(x)' = Young(x) /\ Claims(x)' = Claims(x)
    BY <1>2 DEF Young, Claims, Others, Waiting
  <2> QED
    BY <1>2, <2>1 DEF AttemptsInv, TwiceReopened, Slots
<1>3. ASSUME NEW e \in Event, Enqueue(e)
      PROVE  AttemptsInv'
  BY <1>3, EnqueueAttempts
<1>4. ASSUME NEW e \in Event, TimeOut(e)
      PROVE  AttemptsInv'
  <2>1. outbox' = [outbox EXCEPT ![e].due = TRUE] /\ UNCHANGED <<session, faults>>
    BY <1>4 DEF TimeOut
  <2>2. \A x \in Event : /\ outbox'[x].attempts = outbox[x].attempts
                        /\ outbox'[x].status = outbox[x].status
    BY <1>1, <2>1 DEF TypeOK, OutboxRow
  <2>3. \A x \in Event : Waiting(x)' <=> Waiting(x)
    BY <2>2 DEF Waiting
  <2>4. \A v \in Worker : session[v].event # None => session[v].event \in Event
    BY <1>1 DEF TypeOK, Session
  <2> QED
    BY <2>1, <2>2, <2>3, <2>4, AttemptsKept
<1>5. ASSUME NEW w \in Worker, NEW e \in Event, Claim(w, e)
      PROVE  AttemptsInv'
  BY <1>5, ClaimAttempts
<1>6. ASSUME NEW w \in Worker, Work(w) \/ Crash(w) \/ SlotDies(w)
      PROVE  AttemptsInv'
  BY <1>1, <1>6, SettlementAttempts, ObservationAttempts DEF Work
<1>7. CASE \/ \E p \in Episode : ConfirmLapsed(p) \/ Confirm(p) \/ Dismiss(p)
           \/ Sweep \/ StateField \/ ClearField \/ DeleteField \/ DeleteProfile \/ NextDay
           \/ UNCHANGED vars
  BY <1>2, <1>7 DEF ConfirmLapsed, Confirm, Dismiss, Sweep, StateField, ClearField,
     DeleteField, DeleteProfile, NextDay, vars
<1> QED
  BY <1>3, <1>4, <1>5, <1>6, <1>7 DEF Next

\* An event is not claimed for ever: beyond the limit every attempt is owed to a
\* fault, or to a slot whose lease ran out while it was at work.
THEOREM AttemptsAreBounded == Spec => []AttemptsBounded
<1>1. Init => AttemptsInv
  <2> SUFFICES ASSUME Init PROVE AttemptsInv
    OBVIOUS
  <2>1. \A w \in Worker : session[w].event = None
    BY DEF Init, NoSession
  <2>2. \A e \in Event : outbox[e].attempts = 0
    BY DEF Init, NoEvent
  <2> QED
    BY <2>1, <2>2, MemoryAssumption DEF AttemptsInv
<1>2. MemoryInv /\ AttemptsInv => AttemptsBounded
  <2> SUFFICES ASSUME MemoryInv, AttemptsInv, NEW e \in Event
               PROVE  outbox[e].attempts
                        <= MaxAttempts + faults + ((Slots - 1) * (Slots + 2)) \div 2
    BY DEF AttemptsBounded, Slots
  <2> DEFINE y == Cardinality(Young(e))
             a == outbox[e].attempts
             bound == (Slots - 1) * (Slots + 2)
  <2>1. /\ a \in Nat /\ faults \in Nat /\ MaxAttempts \in Nat \ {0}
        /\ Slots \in Nat /\ y \in Nat /\ y <= Slots /\ Claims(e) \in Nat
    BY RowTypes, SlotCounts, MemoryAssumption DEF MemoryInv, TypeOK, Claims
  <2>2. TwiceReopened(y) \in Nat
    <3>1. 2 * Slots - y + 1 \in Nat
      BY <2>1
    <3> QED
      BY <2>1, <3>1 DEF TwiceReopened
  <2>3. bound \in Int /\ bound >= 0 - 2
    <3>1. CASE Slots = 0
      BY <3>1
    <3>2. CASE Slots >= 1
      <4>1. Slots - 1 \in Nat /\ Slots + 2 \in Nat
        BY <2>1, <3>2
      <4> QED
        BY <4>1
    <3> QED
      BY <2>1, <3>1, <3>2
  <2>4. bound \div 2 \in Int /\ 2 * (bound \div 2) + 1 >= bound
    BY <2>3
  <2>5. CASE a >= MaxAttempts
    <3>1. 2 * (a - MaxAttempts - faults) + 2 * Claims(e) + TwiceReopened(y) <= bound
      BY <2>5 DEF AttemptsInv
    <3>2. 2 * (a - MaxAttempts - faults) <= bound
      BY <2>1, <2>2, <2>3, <3>1
    <3>3. \A n, h \in Int : 2 * n <= bound /\ 2 * h + 1 >= bound => n <= h
      BY <2>3
    <3>4. a - MaxAttempts - faults <= bound \div 2
      BY <2>1, <2>4, <3>2, <3>3
    <3>5. a <= MaxAttempts + faults + bound \div 2
      <4> DEFINE h == bound \div 2
      <4>1. h \in Int /\ a - MaxAttempts - faults <= h
        BY <2>4, <3>4
      <4> HIDE DEF h
      <4>2. a <= MaxAttempts + faults + h
        BY <2>1, <4>1
      <4> QED
        BY <4>2 DEF h
    <3> QED
      BY <3>5
  <2>6. CASE a < MaxAttempts
    <3>1. bound \div 2 >= 0 - 1
      BY <2>3, <2>4
    <3> HIDE DEF bound
    <3> QED
      BY <2>1, <2>4, <2>6, <3>1
  <2> QED
    BY <2>1, <2>5, <2>6
<1> QED
  BY <1>1, <1>2, AttemptsInvNext, MemoryInvariant, PTL DEF Spec

-----------------------------------------------------------------------------
(* The refinement                                                           *)

openEvidence == [p \in Episode |-> IF Open(p) THEN evidence[p] ELSE {}]
openWeight == [p \in Episode |-> IF Open(p) THEN suggestions[p].count ELSE 0]

LEMMA RefinesInit == Init => Ledger!Init
<1> SUFFICES ASSUME Init PROVE Ledger!Init
  OBVIOUS
<1>1. openEvidence = [p \in Episode |-> Earlier \cap {p}]
  <2> SUFFICES ASSUME NEW p \in Episode PROVE openEvidence[p] = Earlier \cap {p}
    BY DEF openEvidence
  <2>1. CASE p \in Earlier
    BY <2>1 DEF openEvidence, Init, Open, OpenSuggestion
  <2>2. CASE p \notin Earlier
    BY <2>2 DEF openEvidence, Init, Open, NoSuggestion
  <2> QED
    BY <2>1, <2>2
<1>2. openWeight = [p \in Episode |-> IF p \in Earlier THEN 1 ELSE 0]
  BY DEF openWeight, Init, Open, NoSuggestion, OpenSuggestion
<1> QED
  BY <1>1, <1>2 DEF Init, Ledger!Init, openEvidence, openWeight

\* What is no longer open counts no longer.
LEMMA DropStep ==
  ASSUME UNCHANGED claimed, NEW S, S \subseteq Episode,
         \A p \in S : ~Open(p)',
         \A p \in Episode : p \notin S =>
           suggestions'[p] = suggestions[p] /\ evidence'[p] = evidence[p]
  PROVE  Ledger!Next
<1>1. /\ openEvidence' = [p \in Episode |-> IF p \in S THEN {} ELSE openEvidence[p]]
      /\ openWeight' = [p \in Episode |-> IF p \in S THEN 0 ELSE openWeight[p]]
  BY DEF openEvidence, openWeight, Open
<1>2. Ledger!Drop(S)
  BY <1>1 DEF Ledger!Drop, openEvidence, openWeight
<1> QED
  BY <1>2 DEF Ledger!Next

LEMMA CountStep ==
  ASSUME MemoryInv, NEW w \in Worker, UpdateSuggestion(w) \/ InsertSuggestion(w)
  PROVE  Ledger!Next
<1> USE DEF MemoryInv
<1> DEFINE ep == EpisodeAt(w)
<1>1. ep \in Episode /\ ep \notin claimed /\ claimed' = claimed \cup {ep}
  BY MemoryAssumption
  DEF UpdateSuggestion, InsertSuggestion, SessionsEngaged, KeysSound, InTransaction, EpisodeAt,
      Counted
<1>2. PICK p \in Episode :
        /\ \A q \in Episode : q # p => /\ suggestions'[q] = suggestions[q]
                                       /\ evidence'[q] = evidence[q]
        /\ Open(p)'
        /\ evidence'[p] = openEvidence[p] \cup {ep}
        /\ suggestions'[p].count = openWeight[p] + 1
  <2>1. CASE UpdateSuggestion(w)
    <3> DEFINE p == session[w].row
    <3>1. /\ p \in Episode /\ suggestions[p].status = "PENDING"
          /\ suggestions[p].count = session[w].count
      BY <2>1 DEF UpdateSuggestion, LocksHeld, LocksSound
    <3>2. /\ \A q \in Episode : q # p => /\ suggestions'[q] = suggestions[q]
                                         /\ evidence'[q] = evidence[q]
          /\ suggestions'[p].status = "PENDING"
          /\ suggestions'[p].count = suggestions[p].count + 1
          /\ evidence'[p] = evidence[p] \cup {ep}
      BY <2>1, <3>1 DEF UpdateSuggestion, Counted, TypeOK, SuggestionRow
    <3> QED
      BY <3>1, <3>2 DEF Open, openEvidence, openWeight
  <2>2. CASE InsertSuggestion(w)
    <3>1. suggestions[ep].status = "none"
      BY <1>1, Uncounted
    <3>2. /\ \A q \in Episode : q # ep => /\ suggestions'[q] = suggestions[q]
                                          /\ evidence'[q] = evidence[q]
          /\ suggestions'[ep].status = "PENDING"
          /\ suggestions'[ep].count = 1
          /\ evidence'[ep] = {ep}
      BY <1>1, <2>2 DEF InsertSuggestion, TypeOK
    <3> HIDE DEF ep
    <3>3. openEvidence[ep] = {} /\ openWeight[ep] = 0
      BY <1>1, <3>1 DEF openEvidence, openWeight, Open
    <3> QED
      BY <1>1, <3>2, <3>3 DEF Open
  <2> QED
    BY <2>1, <2>2
<1> HIDE DEF ep
<1>3. /\ openEvidence' = [openEvidence EXCEPT ![p] = @ \cup {ep}]
      /\ openWeight' = [openWeight EXCEPT ![p] = @ + 1]
  BY <1>2 DEF openEvidence, openWeight, Open
<1>4. Ledger!Count(ep, p)
  BY <1>1, <1>3 DEF Ledger!Count, openEvidence, openWeight
<1> QED
  BY <1>1, <1>4 DEF Ledger!Next

LEMMA RefinesStep ==
  ASSUME MemoryInv, [Next]_vars
  PROVE  [Ledger!Next]_(Ledger!vars)
<1> USE DEF MemoryInv
<1>1. SUFFICES ASSUME ~ UNCHANGED <<claimed, suggestions, evidence>> PROVE Ledger!Next
  BY DEF Ledger!vars, Open
<1>2. ASSUME NEW w \in Worker, InCooldown(w) PROVE Ledger!Next
  <2>1. EpisodeAt(w) \in Episode
    BY <1>2, MemoryAssumption DEF InCooldown, Observable, SessionsEngaged, EpisodeAt
  <2>2. Ledger!Disregard(EpisodeAt(w))
    BY <1>2 DEF InCooldown, Ledger!Disregard, Open
  <2> QED
    BY <2>1, <2>2 DEF Ledger!Next
<1>3. ASSUME NEW p \in Episode, ConfirmLapsed(p) \/ Confirm(p) \/ Dismiss(p) PROVE Ledger!Next
  <2>1. /\ \A q \in Episode : q # p => suggestions'[q] = suggestions[q]
        /\ ~Open(p)'
        /\ UNCHANGED <<claimed, evidence>>
    <3>1. CASE Confirm(p)
      BY <3>1 DEF Confirm, TypeOK, SuggestionRow, Open
    <3>2. CASE ConfirmLapsed(p)
      BY <3>2, RetiredIs DEF ConfirmLapsed, TypeOK, Open
    <3>3. CASE Dismiss(p)
      BY <3>3, RetiredIs DEF Dismiss, TypeOK, Open
    <3> QED
      BY <1>3, <3>1, <3>2, <3>3
  <2> DEFINE S == {p}
  <2>2. /\ S \subseteq Episode
        /\ \A q \in S : ~Open(q)'
        /\ \A q \in Episode : q \notin S =>
             suggestions'[q] = suggestions[q] /\ evidence'[q] = evidence[q]
    BY <2>1
  <2> HIDE DEF S
  <2> QED
    BY <2>1, <2>2, DropStep
<1>4. CASE Sweep
  <2> DEFINE S == {p \in Episode : suggestions[p].status = "PENDING"
                                   /\ suggestions[p].expires < day}
  <2>1. /\ suggestions' = [p \in Episode |-> IF p \in S THEN Retired(p, "EXPIRED")
                                             ELSE suggestions[p]]
        /\ UNCHANGED <<claimed, evidence>>
    BY <1>4 DEF Sweep
  <2>2. \A p \in S : ~Open(p)'
    BY <2>1, RowTypes DEF Retired, SuggestionRow, Open
  <2> QED
    BY <2>1, <2>2, DropStep
<1>5. CASE StateField \/ DeleteField \/ DeleteProfile
  <2>1. PICK S : Delete(S)
    BY <1>5 DEF StateField, DeleteField, DeleteProfile
  <2> DEFINE T == S \cap Episode
  <2>2. /\ \A p \in T : ~Open(p)'
        /\ \A p \in Episode : p \notin T =>
             suggestions'[p] = suggestions[p] /\ evidence'[p] = evidence[p]
    BY <2>1 DEF Delete, NoSuggestion, Open
  <2>3. UNCHANGED claimed
    BY <1>5 DEF StateField, DeleteField, DeleteProfile
  <2> QED
    BY <2>2, <2>3, DropStep
<1>6. \/ UNCHANGED <<claimed, suggestions, evidence>>
      \/ \E w \in Worker : InCooldown(w) \/ UpdateSuggestion(w) \/ InsertSuggestion(w)
      \/ \E p \in Episode : ConfirmLapsed(p) \/ Confirm(p) \/ Dismiss(p)
      \/ Sweep \/ StateField \/ DeleteField \/ DeleteProfile
  BY DEF Next, Work, vars, rowVars, Enqueue, TimeOut, Claim, Disregard, DuplicateEpisode,
     BeginObservation, LockPending, FailObservation, Settle, ParkUnreadable, Park, Release,
     Crash, SlotDies, ClearField, NextDay
<1> QED
  BY <1>1, <1>2, <1>3, <1>4, <1>5, <1>6, CountStep

\* Whatever is delivered twice, rolled back, answered late or deleted, the
\* suggestions rest on what the ledger of evidence allows: an episode is used
\* once, and evidence that was dropped never comes back.
THEOREM MemoryImplementsLedger == Spec => ImplementsLedger
<1>1. MemoryInv /\ [Next]_vars => [Ledger!Next]_(Ledger!vars)
  BY RefinesStep
<1> QED
  BY <1>1, RefinesInit, MemoryInvariant, PTL DEF Spec, ImplementsLedger, Ledger!Spec
=============================================================================
