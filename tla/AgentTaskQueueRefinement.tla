---------------------- MODULE AgentTaskQueueRefinement ----------------------
(***************************************************************************)
(* The durable queue implements TaskLifecycle: an accepted request is tried *)
(* a bounded number of times, takes effect at most once, only after it was  *)
(* tried, and never after it was given up.                                  *)
(***************************************************************************)
EXTENDS AgentTaskQueueProofs

\* What Phase(t) is, seen as a function of the row of t.
PhaseOf(row) ==
  CASE row.results > 0 -> "effective"
    [] row.status = "ABSENT" -> "absent"
    [] row.status \in Active /\ row.results = 0 -> "open"
    [] OTHER -> "void"

-----------------------------------------------------------------------------
(* Steps that neither claim nor commit                                      *)

\* No result and no claim is added to any row.
Counts == \A u \in Task : /\ rows'[u].results = rows[u].results
                          /\ rows'[u].generationAttempt = rows[u].generationAttempt

LEMMA RowCounts ==
  ASSUME NEW row \in Row, NEW status
  PROVE  /\ Released(row, status).results = row.results
         /\ Released(row, status).generationAttempt = row.generationAttempt
         /\ Restatused(row, status).results = row.results
         /\ Restatused(row, status).generationAttempt = row.generationAttempt
         /\ [row EXCEPT !.lease = status].results = row.results
         /\ [row EXCEPT !.lease = status].generationAttempt = row.generationAttempt
         /\ [row EXCEPT !.expired = status].results = row.results
         /\ [row EXCEPT !.expired = status].generationAttempt = row.generationAttempt
BY DEF Row, Released, Restatused

LEMMA UpdateCounts ==
  ASSUME TypeOK, NEW t \in Task, NEW row, Update(t, row),
         row.results = rows[t].results,
         row.generationAttempt = rows[t].generationAttempt
  PROVE  Counts
<1>1. \A u \in Task : rows'[u] = IF u = t THEN row ELSE rows[u]
  BY DEF TypeOK, Update
<1> QED
  BY <1>1 DEF Counts

LEMMA StatementCounts ==
  ASSUME TypeOK, NEW S, NEW status, RestatusAll(S, status) \/ ReleaseAll(S, status)
  PROVE  Counts
<1>1. \A u \in Task : rows[u] \in Row
  BY DEF TypeOK
<1>2. CASE RestatusAll(S, status)
  BY <1>1, <1>2, RowCounts DEF RestatusAll, Counts
<1>3. CASE ReleaseAll(S, status)
  BY <1>1, <1>3, RowCounts DEF ReleaseAll, Counts
<1> QED
  BY <1>2, <1>3

Claims == \E w \in Slot, t \in Claimable : Claim(w, t)
Commits == \E w \in Slot, status \in Completed :
             OwnsRun(w) /\ slots[w].run \in Task /\ CommitResult(slots[w].run, status)

\* Only an accept, a claim and the commit of a result change a count.
LEMMA StepCounts ==
  ASSUME QueueInv, [Next]_vars
  PROVE  (\E t \in Task : Accept(t)) \/ Claims \/ Commits \/ Counts
<1>1. TypeOK
  BY DEF QueueInv
<1>2. ASSUME UNCHANGED rows PROVE Counts
  BY <1>2 DEF Counts
<1>3. ASSUME NEW t \in Task
      PROVE  /\ \A status : Update(t, Released(rows[t], status)) => Counts
             /\ \A status : Update(t, Restatused(rows[t], status)) => Counts
             /\ \A lease : Update(t, [rows[t] EXCEPT !.lease = lease]) => Counts
             /\ Update(t, [rows[t] EXCEPT !.expired = TRUE]) => Counts
  <2>1. rows[t] \in Row
    BY <1>1 DEF TypeOK
  <2> QED
    BY <1>1, <2>1, RowCounts, UpdateCounts
<1>4. ASSUME NEW t \in Task, \/ ReadForCancellation(t)
                             \/ RequestCancellation(t)
                             \/ LeaseRunsOut(t)
                             \/ TimeToLivePasses(t)
      PROVE  Counts
  BY <1>2, <1>3, <1>4 DEF ReadForCancellation, RequestCancellation, LeaseRunsOut,
                          TimeToLivePasses
<1>5. ASSUME NEW trip \in Trip, InvalidateResearch(trip) PROVE Counts
  BY <1>1, <1>5, StatementCounts DEF InvalidateResearch
<1>6. ASSUME NEW w \in Slot, Recover(w) PROVE Counts
  BY <1>1, <1>6, StatementCounts DEF Recover, RecoverCancelled, RecoverExpired,
     RecoverExhausted, RecoverRetrying
<1>7. ASSUME NEW w \in Slot, ClaimNext(w) PROVE Claims \/ Counts
  BY <1>2, <1>7 DEF ClaimNext, ClaimConversation, ClaimPlanning, ReadClaimed, Claims
<1>8. ASSUME NEW w \in Slot, Execute(w) PROVE Commits \/ Counts
  <2> DEFINE t == slots[w].run
             attempt == slots[w].attemptCount + 1
  <2>1. t \in Task /\ rows[t] \in Row
    BY <1>1, <1>8 DEF TypeOK, SlotsOK, Busy, Execute, ObserveRevocation, WorkFails,
       CompleteConversation, GeneratePlan, CompleteResearch, CompletePersonalResearch,
       FailPersonalResearch, Announce, FollowUpFails
  <2>2. CASE OwnsRun(w) /\ \E status \in Completed : CommitResult(t, status)
    BY <2>1, <2>2 DEF Commits
  <2>3. ASSUME NEW status,
               Update(t, [Released(rows[t], status) EXCEPT !.attemptCount = attempt])
        PROVE  Counts
    <3> DEFINE row == [Released(rows[t], status) EXCEPT !.attemptCount = attempt]
    <3>1. /\ row.results = rows[t].results
          /\ row.generationAttempt = rows[t].generationAttempt
      BY <2>1 DEF Released, Row
    <3>2. Update(t, row)
      BY <2>3
    <3> HIDE DEF row
    <3> QED
      BY <1>1, <2>1, <3>1, <3>2, UpdateCounts
  <2> QED
    BY <1>2, <1>8, <2>2, <2>3 DEF Execute, ObserveRevocation, WorkFails,
       CompleteConversation, GeneratePlan, CompleteResearch, CompletePersonalResearch,
       FailPersonalResearch, Announce, FollowUpFails, Completed
<1>9. ASSUME NEW w \in Slot, HandleError(w) PROVE Counts
  <2>1. slots[w].run \in Task
    BY <1>1, <1>9 DEF TypeOK, SlotsOK, Busy, HandleError, AbandonRun, CheckCancellation,
       FinishCancelledTask, FailOrRetryTask
  <2> QED
    BY <1>2, <1>3, <1>9, <2>1 DEF HandleError, AbandonRun, CheckCancellation,
       FinishCancelledTask, FailOrRetryTask
<1>10. ASSUME NEW w \in Slot, Renew(w) PROVE Counts
  <2>1. Working(w) => slots[w].run \in Task
    BY <1>1 DEF TypeOK, SlotsOK, Busy, Working
  <2> QED
    BY <1>2, <1>3, <1>10, <2>1 DEF Renew
<1>11. CASE UNCHANGED vars \/ \E w \in Slot : Crash(w) \/ DbFault(w)
  BY <1>2, <1>11 DEF vars, Crash, DbFault
<1> QED
  BY <1>4, <1>5, <1>6, <1>7, <1>8, <1>9, <1>10, <1>11 DEF Next, Progress

-----------------------------------------------------------------------------
(* Phases                                                                   *)

LEMMA PhaseIs == \A t \in Task : Phase(t) = PhaseOf(rows[t]) /\ Phase(t)' = PhaseOf(rows'[t])
BY DEF Phase, PhaseOf

\* A rewrite that adds no result closes an open row or leaves its phase alone.
LEMMA RewrittenPhase ==
  ASSUME NEW old \in Row, NEW new \in Row, RowInv(old), Rewritten(old, new),
         new.results = old.results
  PROVE  \/ PhaseOf(new) = PhaseOf(old)
         \/ PhaseOf(old) = "open" /\ PhaseOf(new) = "void"
<1>1. old.status = "ABSENT" => new.status = "ABSENT"
  BY DEF Rewritten, Row, Active
<1>2. new.status = "ABSENT" => old.status = "ABSENT"
  BY DEF Rewritten, Row, Active, Completed, Restatused, Released, ClaimedRow
<1>3. new.status \in Active => old.status \in Active
  BY ActiveRewritten
<1>4. old.results \in Nat
  BY DEF Row
<1> QED
  BY <1>1, <1>2, <1>3, <1>4 DEF PhaseOf, Active

Abstract == [t \in Task |-> Phase(t)]
Tries == [t \in Task |-> rows[t].generationAttempt]

\* Steps that neither claim nor commit give up the rows they close.
LEMMA QuietStep ==
  ASSUME QueueInv, [Next]_vars, \A u \in Task : Rewritten(rows[u], rows'[u]), Counts
  PROVE  [Lifecycle!Next]_Lifecycle!vars
<1> DEFINE S == {t \in Task : Phase(t) = "open" /\ Phase(t)' = "void"}
<1>1. ASSUME NEW t \in Task
      PROVE  Phase(t)' = IF t \in S THEN "void" ELSE Phase(t)
  <2>1. rows[t] \in Row /\ rows'[t] \in Row /\ RowInv(rows[t])
    BY TypeStep DEF QueueInv, TypeOK
  <2> QED
    BY <2>1, RewrittenPhase, PhaseIs DEF Counts
<1>2. Abstract' = [t \in Task |-> IF t \in S THEN "void" ELSE Abstract[t]]
  BY <1>1 DEF Abstract
<1>3. Tries' = Tries
  BY DEF Tries, Counts
<1>4. S \in SUBSET Task /\ \A t \in S : Abstract[t] = "open"
  BY DEF Abstract
<1> HIDE DEF S
<1>5. Lifecycle!GiveUp(S)
  BY <1>2, <1>3, <1>4 DEF Lifecycle!GiveUp, Abstract, Tries
<1> QED
  BY <1>4, <1>5 DEF Lifecycle!Next

\* A claim is a try.
LEMMA ClaimStep ==
  ASSUME QueueInv, [Next]_vars, NEW w \in Slot, NEW t \in Claimable, Claim(w, t)
  PROVE  Lifecycle!Next
<1>1. TypeOK /\ t \in Task /\ rows[t] \in Row /\ RowInv(rows[t])
      /\ rows[t].status = "QUEUED"
  BY DEF QueueInv, TypeOK, Claimable, Retriable
<1>2. rows' = [rows EXCEPT ![t] = ClaimedRow(rows[t])]
  BY DEF Claim, Update, ClaimedRow
<1>3. /\ ClaimedRow(rows[t]).results = rows[t].results
      /\ ClaimedRow(rows[t]).status = "RUNNING"
      /\ ClaimedRow(rows[t]).generationAttempt = rows[t].generationAttempt + 1
  BY <1>1 DEF ClaimedRow, Row
<1>4. rows[t].results = 0
  BY <1>1 DEF RowInv, Row, Completed
<1>5. PhaseOf(rows[t]) = "open" /\ PhaseOf(ClaimedRow(rows[t])) = "open"
  BY <1>1, <1>3, <1>4 DEF PhaseOf, Active
<1>6. \A u \in Task : rows'[u] = IF u = t THEN ClaimedRow(rows[t]) ELSE rows[u]
  BY <1>1, <1>2 DEF TypeOK
<1>7. \A u \in Task : Phase(u)' = Phase(u)
  BY <1>5, <1>6, PhaseIs
<1>8. Abstract' = Abstract /\ Abstract[t] = "open"
  BY <1>1, <1>5, <1>7, PhaseIs DEF Abstract
<1>9. Tries' = [Tries EXCEPT ![t] = Tries[t] + 1]
  BY <1>1, <1>3, <1>6 DEF Tries
<1>10. Tries[t] < MaxAttempts
  BY <1>1, QueueAssumption DEF Tries, RowInv, Row
<1>11. Lifecycle!Try(t)
  BY <1>8, <1>9, <1>10 DEF Lifecycle!Try, Abstract, Tries
<1> QED
  BY <1>1, <1>11 DEF Lifecycle!Next

\* The commit of a result is the effect.
LEMMA CommitStep ==
  ASSUME QueueInv, [Next]_vars, NEW w \in Slot, NEW status \in Completed,
         OwnsRun(w), slots[w].run \in Task, CommitResult(slots[w].run, status)
  PROVE  Lifecycle!Next
<1> DEFINE t == slots[w].run
           row == [Released(rows[t], status) EXCEPT !.results = rows[t].results + 1]
<1>1. TypeOK /\ t \in Task /\ rows[t] \in Row /\ RowInv(rows[t])
      /\ rows[t].status = "RUNNING"
  BY DEF QueueInv, TypeOK, OwnsRun
<1>2. \A u \in Task : rows'[u] = IF u = t THEN row ELSE rows[u]
  BY <1>1 DEF TypeOK, CommitResult, Update
<1>3. rows[t].results = 0
  BY <1>1 DEF RowInv, Row, Completed
<1>4. /\ row.results = 1 /\ row.generationAttempt = rows[t].generationAttempt
      /\ row.status = status
  BY <1>1, <1>3 DEF Row, Released
<1> HIDE DEF row
<1>5. PhaseOf(rows[t]) = "open" /\ PhaseOf(row) = "effective"
  BY <1>1, <1>3, <1>4 DEF PhaseOf, Active, Completed
<1>6. \A u \in Task : Phase(u)' = IF u = t THEN "effective" ELSE Phase(u)
  BY <1>2, <1>5, PhaseIs
<1>7. Abstract' = [Abstract EXCEPT ![t] = "effective"] /\ Abstract[t] = "open"
  BY <1>1, <1>5, <1>6, PhaseIs DEF Abstract
<1>8. Tries' = Tries
  BY <1>2, <1>4 DEF Tries
<1>9. Tries[t] > 0
  BY <1>1 DEF Tries, RowInv, Row, NoToken
<1>10. Lifecycle!TakeEffect(t)
  BY <1>7, <1>8, <1>9 DEF Lifecycle!TakeEffect, Abstract, Tries
<1> QED
  BY <1>1, <1>10 DEF Lifecycle!Next

\* An accept submits its request, in place of an older one if it closes one.
LEMMA AcceptStep ==
  ASSUME QueueInv, [Next]_vars, NEW t \in Task, Accept(t)
  PROVE  Lifecycle!Next
<1>1. TypeOK /\ rows[t] \in Row /\ RowInv(rows[t]) /\ rows[t].status = "ABSENT"
  BY DEF QueueInv, TypeOK, Accept, AcceptConversationTask, AcceptPlan, AcceptReplan,
         AcceptPersonalResearchTask
<1>2. rows[t].results = 0 /\ rows[t].generationAttempt = 0
  BY <1>1 DEF RowInv, Row, Completed
<1>3. /\ QueuedRow.results = 0 /\ QueuedRow.generationAttempt = 0
      /\ QueuedRow.status = "QUEUED"
  BY DEF QueuedRow, AbsentRow
<1>4. PhaseOf(rows[t]) = "absent" /\ PhaseOf(QueuedRow) = "open"
  BY <1>1, <1>2, <1>3 DEF PhaseOf, Active
<1>5. ASSUME NEW old \in Task, NEW status \in {"CANCELLED", "COMPLETED"},
             rows[old].status # "ABSENT",
             rows' = [rows EXCEPT ![old] = Restatused(rows[old], status),
                                  ![t] = QueuedRow]
      PROVE  Lifecycle!Next
  <2> DEFINE row == Restatused(rows[old], status)
  <2>1. rows[old] \in Row /\ old # t
    BY <1>1, <1>5 DEF TypeOK
  <2>2. /\ row.results = rows[old].results
        /\ row.generationAttempt = rows[old].generationAttempt
        /\ row.status = status
    BY <2>1 DEF Restatused, Row
  <2>3. \A u \in Task : rows'[u] = IF u = t THEN QueuedRow
                                   ELSE IF u = old THEN row ELSE rows[u]
    BY <1>1, <1>5, <2>1 DEF TypeOK
  <2> HIDE DEF row
  <2>4. rows[old].results \in Nat
    BY <2>1 DEF Row
  <2>5. \/ PhaseOf(row) = PhaseOf(rows[old])
        \/ PhaseOf(rows[old]) = "open" /\ PhaseOf(row) = "void"
    BY <1>5, <2>2, <2>4 DEF PhaseOf, Active
  <2>6. Tries' = Tries
    BY <1>2, <1>3, <2>2, <2>3 DEF Tries
  <2>7. CASE PhaseOf(row) = PhaseOf(rows[old])
    <3>1. \A u \in Task : Phase(u)' = IF u = t THEN "open" ELSE Phase(u)
      BY <1>4, <2>3, <2>7, PhaseIs
    <3>2. Abstract' = [Abstract EXCEPT ![t] = "open"] /\ Abstract[t] = "absent"
      BY <1>4, <3>1, PhaseIs DEF Abstract
    <3>3. Lifecycle!Submit(t)
      BY <2>6, <3>2 DEF Lifecycle!Submit, Abstract, Tries
    <3> QED
      BY <3>3 DEF Lifecycle!Next
  <2>8. CASE PhaseOf(rows[old]) = "open" /\ PhaseOf(row) = "void"
    <3>1. \A u \in Task : Phase(u)' = IF u = t THEN "open"
                                      ELSE IF u = old THEN "void" ELSE Phase(u)
      BY <1>4, <2>3, <2>8, PhaseIs
    <3>2. /\ Abstract' = [Abstract EXCEPT ![old] = "void", ![t] = "open"]
          /\ Abstract[t] = "absent" /\ Abstract[old] = "open"
      BY <1>4, <2>1, <2>8, <3>1, PhaseIs DEF Abstract
    <3>3. Lifecycle!Supersede(old, t)
      BY <2>6, <3>2 DEF Lifecycle!Supersede, Abstract, Tries
    <3> QED
      BY <3>3 DEF Lifecycle!Next
  <2> QED
    BY <2>5, <2>7, <2>8
<1>6. CASE Update(t, QueuedRow)
  <2>1. \A u \in Task : rows'[u] = IF u = t THEN QueuedRow ELSE rows[u]
    BY <1>1, <1>6 DEF TypeOK, Update
  <2>2. Tries' = Tries
    BY <1>2, <1>3, <2>1 DEF Tries
  <2>3. \A u \in Task : Phase(u)' = IF u = t THEN "open" ELSE Phase(u)
    BY <1>4, <2>1, PhaseIs
  <2>4. Abstract' = [Abstract EXCEPT ![t] = "open"] /\ Abstract[t] = "absent"
    BY <1>4, <2>3, PhaseIs DEF Abstract
  <2>5. Lifecycle!Submit(t)
    BY <2>2, <2>4 DEF Lifecycle!Submit, Abstract, Tries
  <2> QED
    BY <2>5 DEF Lifecycle!Next
<1>7. \A u \in Task : IsActive(u) => rows[u].status # "ABSENT"
  BY DEF IsActive, Active
<1> QED
  BY <1>5, <1>6, <1>7 DEF Accept, AcceptConversationTask, AcceptPlan, AcceptReplan,
     AcceptPersonalResearchTask, ActiveOnTrip

LEMMA RefinesInit == Init => Lifecycle!Init
<1> SUFFICES ASSUME Init PROVE Lifecycle!Init
  OBVIOUS
<1>1. \A t \in Task : rows[t] = AbsentRow
  BY DEF Init
<1>2. /\ AbsentRow.status = "ABSENT" /\ AbsentRow.results = 0
      /\ AbsentRow.generationAttempt = 0
  BY DEF AbsentRow
<1>3. PhaseOf(AbsentRow) = "absent"
  BY <1>2 DEF PhaseOf, Active
<1>4. \A t \in Task : Phase(t) = "absent" /\ rows[t].generationAttempt = 0
  BY <1>1, <1>2, <1>3, PhaseIs
<1> QED
  BY <1>4 DEF Lifecycle!Init

LEMMA RefinesStep == QueueInv /\ [Next]_vars => [Lifecycle!Next]_Lifecycle!vars
<1> SUFFICES ASSUME QueueInv, [Next]_vars PROVE [Lifecycle!Next]_Lifecycle!vars
  OBVIOUS
<1>1. ASSUME NEW t \in Task, Accept(t) PROVE Lifecycle!Next
  BY <1>1, AcceptStep
<1>2. CASE Claims
  BY <1>2, ClaimStep DEF Claims
<1>3. CASE Commits
  BY <1>3, CommitStep DEF Commits
<1>4. CASE Counts /\ \A u \in Task : Rewritten(rows[u], rows'[u])
  BY <1>4, QuietStep
<1> QED
  BY <1>1, <1>2, <1>3, <1>4, StepCounts, OtherStepsRewrite

\* Every behaviour of the queue is one the abstract life cycle allows.
THEOREM QueueImplementsLifecycle == Spec => ImplementsLifecycle
BY RefinesInit, RefinesStep, QueueInvariant, PTL DEF Spec, ImplementsLifecycle, Lifecycle!Spec
=============================================================================
