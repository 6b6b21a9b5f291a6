------------------------ MODULE AgentTaskQueueProofs ------------------------
(***************************************************************************)
(* Proofs about AgentTaskQueue for every number of tasks, slots, attempts, *)
(* destinations, crashes and faults.                                       *)
(***************************************************************************)
EXTENDS AgentTaskQueue, TLAPS

-----------------------------------------------------------------------------
(* Type correctness                                                         *)

\* The two states every row is created from and every slot returns to are
\* well-formed.
LEMMA FreshTypes ==
  /\ AbsentRow \in Row
  /\ QueuedRow \in Row
  /\ IdleSlot \in SlotState
  /\ IdleSlot.pc = "sweepCancelled"
BY DEF AbsentRow, QueuedRow, IdleSlot, Row, SlotState, Status, Active, Terminal,
       Completed, SlotPc, Failure, NoToken

LEMMA StatusTypes ==
  /\ Completed \subseteq Status
  /\ {"QUEUED", "RUNNING", "CANCEL_REQUESTED", "CANCELLED", "FAILED", "STALE",
      "COMPLETED"} \subseteq Status
BY DEF Status, Active, Terminal, Completed

\* Releasing a row, giving it another status or changing one of its counters
\* or its clocks keeps it a row.
LEMMA RowTypes ==
  ASSUME NEW row \in Row
  PROVE  /\ \A status \in Status : Released(row, status) \in Row
         /\ \A status \in Status : Restatused(row, status) \in Row
         /\ \A n \in Nat : [row EXCEPT !.results = n] \in Row
         /\ \A n \in Nat : [row EXCEPT !.attemptCount = n] \in Row
         /\ \A lease \in {"live", "past"} : [row EXCEPT !.lease = lease] \in Row
         /\ [row EXCEPT !.expired = TRUE] \in Row
<1>1. \A status \in Status : Released(row, status) \in Row
  BY DEF Row, Released, NoToken
<1>2. \A status \in Status : Restatused(row, status) \in Row
  BY DEF Row, Restatused
<1>3. \A n \in Nat : [row EXCEPT !.results = n] \in Row
  BY DEF Row
<1>4. \A n \in Nat : [row EXCEPT !.attemptCount = n] \in Row
  BY DEF Row
<1>5. \A lease \in {"live", "past"} : [row EXCEPT !.lease = lease] \in Row
  BY DEF Row
<1>6. [row EXCEPT !.expired = TRUE] \in Row
  BY DEF Row
<1> QED
  BY <1>1, <1>2, <1>3, <1>4, <1>5, <1>6

\* A statement on one row, and a whole UPDATE ... WHERE statement.
LEMMA UpdateType ==
  ASSUME TypeOK, NEW t \in Task, NEW row \in Row, Update(t, row)
  PROVE  rows' \in [Task -> Row]
BY DEF TypeOK, Update

LEMMA StatementTypes ==
  ASSUME TypeOK, NEW S, NEW status \in Status
  PROVE  /\ RestatusAll(S, status) => rows' \in [Task -> Row]
         /\ ReleaseAll(S, status) => rows' \in [Task -> Row]
<1>1. \A t \in Task : /\ rows[t] \in Row
                     /\ Restatused(rows[t], status) \in Row
                     /\ Released(rows[t], status) \in Row
  BY RowTypes DEF TypeOK
<1> QED
  BY <1>1 DEF RestatusAll, ReleaseAll

LEMMA CommitType ==
  ASSUME TypeOK, NEW t \in Task, NEW status \in Completed, CommitResult(t, status)
  PROVE  rows' \in [Task -> Row]
<1>1. rows[t] \in Row /\ rows[t].results + 1 \in Nat
  BY DEF TypeOK, Row
<1>2. Released(rows[t], status) \in Row
  BY <1>1, RowTypes, StatusTypes
<1>3. [Released(rows[t], status) EXCEPT !.results = rows[t].results + 1] \in Row
  BY <1>1, <1>2, RowTypes
<1> QED
  BY <1>3, UpdateType DEF CommitResult

\* Moving a slot to a well-formed state.
LEMMA MoveType ==
  ASSUME TypeOK, NEW w \in Slot, NEW slot \in SlotState, MoveSlot(w, slot),
         slot.pc \in Busy => slot.run \in Task,
         slot.pc = "work" => slot.left > 0
  PROVE  SlotsOK'
BY DEF TypeOK, SlotsOK, MoveSlot

LEMMA GotoType ==
  ASSUME TypeOK, NEW w \in Slot, NEW pc \in SlotPc \ {"work"}, Goto(w, pc),
         pc \in Busy => slots[w].pc \in Busy
  PROVE  SlotsOK'
<1>1. slots[w] \in SlotState
  BY DEF TypeOK, SlotsOK
<1>2. [slots[w] EXCEPT !.pc = pc] \in SlotState
  BY <1>1 DEF SlotState
<1>3. /\ [slots[w] EXCEPT !.pc = pc].pc = pc
      /\ [slots[w] EXCEPT !.pc = pc].run = slots[w].run
  BY <1>1 DEF SlotState
<1> QED
  BY <1>2, <1>3, MoveType DEF Goto, TypeOK, SlotsOK

LEMMA CatchType ==
  ASSUME TypeOK, NEW w \in Slot, NEW failure \in Failure, Catch(w, failure),
         slots[w].pc \in Busy
  PROVE  SlotsOK'
<1> DEFINE slot == [slots[w] EXCEPT !.pc = "caught", !.failure = failure]
<1>1. slots[w] \in SlotState
  BY DEF TypeOK, SlotsOK
<1>2. slot \in SlotState
  BY <1>1 DEF SlotState, SlotPc
<1>3. slot.pc = "caught" /\ slot.run = slots[w].run
  BY <1>1 DEF SlotState
<1> QED
  BY <1>2, <1>3, MoveType DEF Catch, TypeOK, SlotsOK

LEMMA IdleType ==
  ASSUME TypeOK, NEW w \in Slot, GoIdle(w)
  PROVE  SlotsOK'
BY FreshTypes, MoveType DEF GoIdle, Busy

LEMMA AnnounceTypes ==
  ASSUME TypeOK, NEW S, NEW event \in {"none", "completed", "failed", "cancelled"},
         AnnounceAll(S, event)
  PROVE  announced' \in [Task -> {"none", "completed", "failed", "cancelled"}]
BY DEF TypeOK, AnnounceAll

LEMMA TypeInit == Init => TypeOK
<1> SUFFICES ASSUME Init PROVE TypeOK
  OBVIOUS
<1>1. 0 \in 0 .. MaxCrashes /\ 0 \in 0 .. MaxDbFaults
  BY QueueAssumption
<1>2. rows \in [Task -> Row]
  BY FreshTypes DEF Init
<1>3. SlotsOK
  BY FreshTypes DEF Init, SlotsOK, Busy
<1> QED
  BY <1>1, <1>2, <1>3 DEF Init, TypeOK

LEMMA TypeAccept ==
  ASSUME TypeOK, NEW t \in Task, Accept(t)
  PROVE  TypeOK'
<1>1. UNCHANGED <<slots, cancelRead, announced, crashes, dbFaults>>
  BY DEF Accept, AcceptConversationTask, AcceptPlan, AcceptReplan,
         AcceptPersonalResearchTask
<1>2. rows' \in [Task -> Row]
  <2>1. CASE Update(t, QueuedRow)
    BY <2>1, FreshTypes, UpdateType
  <2>2. ASSUME NEW old \in Task, NEW status \in {"CANCELLED", "COMPLETED"},
               rows' = [rows EXCEPT ![old] = Restatused(rows[old], status),
                                    ![t] = QueuedRow]
        PROVE  rows' \in [Task -> Row]
    <3>1. Restatused(rows[old], status) \in Row
      BY RowTypes, StatusTypes DEF TypeOK
    <3> QED
      BY <2>2, <3>1, FreshTypes DEF TypeOK
  <2> QED
    BY <2>1, <2>2 DEF Accept, AcceptConversationTask, AcceptPlan, AcceptReplan,
                      AcceptPersonalResearchTask, ActiveOnTrip
<1> QED
  BY <1>1, <1>2 DEF TypeOK, SlotsOK

LEMMA TypeCancel ==
  ASSUME TypeOK, NEW t \in Task, ReadForCancellation(t) \/ RequestCancellation(t)
  PROVE  TypeOK'
<1>1. CASE ReadForCancellation(t)
  BY <1>1 DEF TypeOK, SlotsOK, ReadForCancellation, IsActive
<1>2. CASE RequestCancellation(t)
  <2>1. \A status \in {"CANCELLED", "CANCEL_REQUESTED"} :
          Restatused(rows[t], status) \in Row
    BY RowTypes, StatusTypes DEF TypeOK
  <2>2. rows' \in [Task -> Row]
    BY <1>2, <2>1, UpdateType DEF RequestCancellation, TypeOK
  <2> QED
    BY <1>2, <2>2 DEF RequestCancellation, TypeOK, SlotsOK
<1> QED
  BY <1>1, <1>2

LEMMA TypeInvalidate ==
  ASSUME TypeOK, NEW trip \in Trip, InvalidateResearch(trip)
  PROVE  TypeOK'
BY StatementTypes, StatusTypes DEF TypeOK, SlotsOK, InvalidateResearch

LEMMA TypeTime ==
  ASSUME TypeOK, NEW t \in Task, LeaseRunsOut(t) \/ TimeToLivePasses(t)
  PROVE  TypeOK'
<1>1. [rows[t] EXCEPT !.lease = "past"] \in Row /\ [rows[t] EXCEPT !.expired = TRUE] \in Row
  BY RowTypes DEF TypeOK
<1>2. rows' \in [Task -> Row]
  BY <1>1, UpdateType DEF LeaseRunsOut, TimeToLivePasses
<1> QED
  BY <1>2 DEF TypeOK, SlotsOK, LeaseRunsOut, TimeToLivePasses

LEMMA TypeRecover ==
  ASSUME TypeOK, NEW w \in Slot, Recover(w)
  PROVE  TypeOK'
<1>1. SlotsOK'
  BY GotoType DEF Recover, RecoverCancelled, RecoverExpired, RecoverExhausted,
                  RecoverRetrying, SlotPc, Busy
<1>2. rows' \in [Task -> Row]
  BY StatementTypes, StatusTypes DEF Recover, RecoverCancelled, RecoverExpired,
                                     RecoverExhausted, RecoverRetrying
<1>3. announced' \in [Task -> {"none", "completed", "failed", "cancelled"}]
  BY AnnounceTypes DEF TypeOK, Recover, RecoverCancelled, RecoverExpired,
                       RecoverExhausted, RecoverRetrying
<1> QED
  BY <1>1, <1>2, <1>3 DEF TypeOK, Recover, RecoverCancelled, RecoverExpired,
                          RecoverExhausted, RecoverRetrying

LEMMA TypeClaim ==
  ASSUME TypeOK, NEW w \in Slot, NEW t \in Task, Claim(w, t)
  PROVE  rows' \in [Task -> Row] /\ SlotsOK'
<1> DEFINE slot == [slots[w] EXCEPT !.pc = "read", !.run = t]
           row == [rows[t] EXCEPT !.status = "RUNNING",
                                  !.generationAttempt = rows[t].generationAttempt + 1,
                                  !.attemptCount = rows[t].attemptCount + 1,
                                  !.leaseToken = rows[t].generationAttempt + 1,
                                  !.lease = "live"]
<1>1. rows[t] \in Row /\ slots[w] \in SlotState
  BY DEF TypeOK, SlotsOK
<1>2. row \in Row
  <2>1. rows[t].generationAttempt + 1 \in Nat /\ rows[t].attemptCount + 1 \in Nat
    BY <1>1 DEF Row
  <2>2. \A m, n \in Nat :
          [rows[t] EXCEPT !.status = "RUNNING", !.generationAttempt = m,
                          !.attemptCount = n, !.leaseToken = m, !.lease = "live"] \in Row
    BY <1>1, StatusTypes DEF Row
  <2> QED
    BY <2>1, <2>2
<1>3. slot \in SlotState
  BY <1>1 DEF SlotState, SlotPc
<1>4. slot.pc = "read" /\ slot.run = t
  BY <1>1 DEF SlotState
<1>5. Update(t, row) /\ MoveSlot(w, slot)
  BY DEF Claim
<1> QED
  BY <1>2, <1>3, <1>4, <1>5, UpdateType, MoveType

LEMMA TypeClaimNext ==
  ASSUME TypeOK, NEW w \in Slot, ClaimNext(w)
  PROVE  TypeOK'
<1>1. CASE ClaimConversation(w)
  <2>1. rows' \in [Task -> Row] /\ SlotsOK'
    BY <1>1, TypeClaim, GotoType DEF ClaimConversation, Claimable, Retriable, TypeOK,
                                     SlotPc, Busy
  <2> QED
    BY <1>1, <2>1 DEF ClaimConversation, TypeOK
<1>2. CASE ClaimPlanning(w)
  <2>1. rows' \in [Task -> Row] /\ SlotsOK'
    BY <1>2, TypeClaim, IdleType DEF ClaimPlanning, Claimable, Retriable, TypeOK
  <2> QED
    BY <1>2, <2>1 DEF ClaimPlanning, TypeOK
<1>3. CASE ReadClaimed(w)
  <2>1. CASE Goto(w, "dead")
    BY <1>3, <2>1, GotoType DEF ReadClaimed, TypeOK, SlotPc, Busy
  <2>2. CASE ~ Goto(w, "dead")
    <3> DEFINE t == slots[w].run
               left == IF Kind[t] \in PlanKinds THEN Destinations ELSE 1
               slot == [slots[w] EXCEPT !.pc = "work",
                                        !.leaseToken = rows[t].leaseToken,
                                        !.attemptCount = rows[t].attemptCount,
                                        !.left = left]
    <3>1. slots[w] \in SlotState /\ t \in Task /\ rows[t] \in Row
      BY <1>3 DEF TypeOK, SlotsOK, ReadClaimed, Busy
    <3>2. left \in Nat /\ left > 0
      BY QueueAssumption
    <3>3. rows[t].leaseToken \in Nat /\ rows[t].attemptCount \in Nat
      BY <3>1 DEF Row
    <3> HIDE DEF t, left
    <3>4. slot \in SlotState
      BY <3>1, <3>2, <3>3 DEF SlotState, SlotPc
    <3>5. slot.pc = "work" /\ slot.run = slots[w].run /\ slot.left = left
      BY <3>1 DEF SlotState
    <3>6. MoveSlot(w, slot)
      BY <1>3, <2>2 DEF ReadClaimed, t, left
    <3>7. SlotsOK'
      BY <3>1, <3>2, <3>4, <3>5, <3>6, MoveType DEF t
    <3> QED
      BY <1>3, <3>7 DEF ReadClaimed, TypeOK
  <2> QED
    BY <2>1, <2>2
<1> QED
  BY <1>1, <1>2, <1>3 DEF ClaimNext

LEMMA TypeExecute ==
  ASSUME TypeOK, NEW w \in Slot, Execute(w)
  PROVE  TypeOK'
<1>1. CASE ObserveRevocation(w)
  BY <1>1, CatchType DEF ObserveRevocation, TypeOK, Failure, Busy
<1>2. CASE WorkFails(w)
  BY <1>2, CatchType DEF WorkFails, TypeOK, Failure, Busy
<1>3. CASE CompleteConversation(w)
  <2>1. SlotsOK'
    BY <1>3, GotoType, IdleType DEF CompleteConversation, SlotPc, Busy
  <2>2. rows' \in [Task -> Row]
    BY <1>3, CommitType DEF CompleteConversation, TypeOK, SlotsOK, Busy, Completed
  <2> QED
    BY <1>3, <2>1, <2>2 DEF CompleteConversation, TypeOK
<1>4. CASE GeneratePlan(w)
  <2>1. SlotsOK'
    <3>1. CASE \E failure \in Failure : Catch(w, failure)
      BY <1>4, <3>1, CatchType DEF GeneratePlan, Busy
    <3>2. ASSUME NEW after \in {"completeResearch", "work", "announce"},
                 after = "work" => slots[w].left > 1,
                 MoveSlot(w, [slots[w] EXCEPT !.pc = after, !.left = slots[w].left - 1])
          PROVE  SlotsOK'
      <4> DEFINE slot == [slots[w] EXCEPT !.pc = after, !.left = slots[w].left - 1]
      <4>1. /\ slots[w] \in SlotState
            /\ slots[w].run \in Task
            /\ slots[w].left \in Nat \ {0}
        BY <1>4 DEF TypeOK, SlotsOK, SlotState, GeneratePlan, Busy
      <4>2. slots[w].left - 1 \in Nat
        BY <4>1
      <4>3. slot \in SlotState
        BY <4>1, <4>2 DEF SlotState, SlotPc
      <4>4. slot.pc = after /\ slot.run = slots[w].run /\ slot.left = slots[w].left - 1
        BY <4>1 DEF SlotState
      <4>5. /\ slot.pc \in Busy => slot.run \in Task
            /\ slot.pc = "work" => slot.left > 0
        <5> HIDE DEF slot
        <5> QED
          BY <3>2, <4>1, <4>4
      <4>6. MoveSlot(w, slot)
        BY <3>2
      <4> HIDE DEF slot
      <4> QED
        BY <4>3, <4>5, <4>6, MoveType
    <3> QED
      BY <1>4, <3>1, <3>2 DEF GeneratePlan, Failure
  <2>2. rows' \in [Task -> Row]
    BY <1>4, CommitType DEF GeneratePlan, TypeOK, SlotsOK, Busy
  <2> QED
    BY <1>4, <2>1, <2>2 DEF GeneratePlan, TypeOK
<1>5. CASE CompleteResearch(w)
  <2>1. SlotsOK'
    BY <1>5, GotoType, IdleType DEF CompleteResearch, SlotPc, Busy
  <2>2. rows' \in [Task -> Row]
    BY <1>5, CommitType DEF CompleteResearch, TypeOK, SlotsOK, Busy
  <2> QED
    BY <1>5, <2>1, <2>2 DEF CompleteResearch, TypeOK
<1>6. CASE CompletePersonalResearch(w)
  <2>1. SlotsOK'
    BY <1>6, GotoType, IdleType DEF CompletePersonalResearch, SlotPc, Busy
  <2>2. rows' \in [Task -> Row]
    BY <1>6, CommitType DEF CompletePersonalResearch, TypeOK, SlotsOK, Busy
  <2> QED
    BY <1>6, <2>1, <2>2 DEF CompletePersonalResearch, TypeOK
<1>7. CASE FailPersonalResearch(w)
  <2>1. SlotsOK'
    BY <1>7, GotoType, IdleType DEF FailPersonalResearch, SlotPc, Busy
  <2> DEFINE t == slots[w].run
             attempt == slots[w].attemptCount + 1
  <2>2. t \in Task /\ rows[t] \in Row /\ attempt \in Nat
    BY <1>7 DEF FailPersonalResearch, TypeOK, SlotsOK, SlotState, Busy
  <2>3. \A status \in {"QUEUED", "FAILED"} :
          [Released(rows[t], status) EXCEPT !.attemptCount = attempt] \in Row
    BY <2>2, RowTypes, StatusTypes
  <2>4. rows' \in [Task -> Row]
    BY <1>7, <2>2, <2>3, UpdateType DEF FailPersonalResearch, TypeOK
  <2>5. announced' \in [Task -> {"none", "completed", "failed", "cancelled"}]
    BY <1>7 DEF FailPersonalResearch, TypeOK
  <2> QED
    BY <1>7, <2>1, <2>4, <2>5 DEF FailPersonalResearch, TypeOK
<1>8. CASE Announce(w)
  BY <1>8, IdleType DEF Announce, TypeOK
<1>9. CASE FollowUpFails(w)
  BY <1>9, CatchType DEF FollowUpFails, TypeOK, Failure, Busy
<1> QED
  BY <1>1, <1>2, <1>3, <1>4, <1>5, <1>6, <1>7, <1>8, <1>9 DEF Execute

LEMMA TypeHandleError ==
  ASSUME TypeOK, NEW w \in Slot, HandleError(w)
  PROVE  TypeOK'
<1>1. SlotsOK'
  BY GotoType, IdleType DEF HandleError, AbandonRun, CheckCancellation,
                            FinishCancelledTask, FailOrRetryTask, SlotPc, Busy
<1>2. slots[w].run \in Task
  BY DEF HandleError, AbandonRun, CheckCancellation, FinishCancelledTask,
         FailOrRetryTask, TypeOK, SlotsOK, Busy
<1>3. \A status \in {"CANCELLED", "QUEUED", "FAILED"} :
        Released(rows[slots[w].run], status) \in Row
  BY <1>2, RowTypes, StatusTypes DEF TypeOK
<1>4. rows' \in [Task -> Row]
  BY <1>2, <1>3, UpdateType DEF HandleError, AbandonRun, CheckCancellation,
                                FinishCancelledTask, FailOrRetryTask, TypeOK
<1>5. announced' \in [Task -> {"none", "completed", "failed", "cancelled"}]
  BY <1>2 DEF HandleError, AbandonRun, CheckCancellation, FinishCancelledTask,
              FailOrRetryTask, TypeOK
<1> QED
  BY <1>1, <1>4, <1>5 DEF HandleError, AbandonRun, CheckCancellation,
                          FinishCancelledTask, FailOrRetryTask, TypeOK

LEMMA TypeRenew ==
  ASSUME TypeOK, NEW w \in Slot, Renew(w)
  PROVE  TypeOK'
<1> DEFINE t == slots[w].run
           slot == [slots[w] EXCEPT !.leaseLost = TRUE]
<1>1. slots[w].pc \in Busy
  BY DEF Renew, Working, Busy
<1>2. t \in Task /\ rows[t] \in Row /\ slots[w] \in SlotState
  BY <1>1 DEF TypeOK, SlotsOK
<1>3. [rows[t] EXCEPT !.lease = "live"] \in Row
  BY <1>2, RowTypes
<1>4. slot \in SlotState
  BY <1>2 DEF SlotState
<1>5. slot.pc = slots[w].pc /\ slot.run = t /\ slot.left = slots[w].left
  BY <1>2 DEF SlotState
<1>6. CASE UNCHANGED slots /\ Update(t, [rows[t] EXCEPT !.lease = "live"])
  BY <1>2, <1>3, <1>6, UpdateType DEF Renew, TypeOK, SlotsOK
<1>7. CASE UNCHANGED rows /\ MoveSlot(w, slot)
  <2>1. SlotsOK'
    BY <1>2, <1>4, <1>5, <1>7, MoveType DEF TypeOK, SlotsOK
  <2> QED
    BY <1>7, <2>1 DEF Renew, TypeOK
<1> QED
  BY <1>6, <1>7 DEF Renew

LEMMA TypeFaults ==
  ASSUME TypeOK, NEW w \in Slot, Crash(w) \/ DbFault(w)
  PROVE  TypeOK'
<1>1. SlotsOK'
  BY GotoType, IdleType DEF Crash, DbFault, SlotPc, Busy
<1>2. crashes' \in 0 .. MaxCrashes /\ dbFaults' \in 0 .. MaxDbFaults
  BY QueueAssumption DEF Crash, DbFault, TypeOK
<1> QED
  BY <1>1, <1>2 DEF Crash, DbFault, TypeOK

LEMMA TypeStep == TypeOK /\ [Next]_vars => TypeOK'
<1> SUFFICES ASSUME TypeOK, [Next]_vars PROVE TypeOK'
  OBVIOUS
<1>1. CASE UNCHANGED vars
  BY <1>1 DEF TypeOK, SlotsOK, vars
<1>2. CASE Next
  BY <1>2, TypeAccept, TypeCancel, TypeTime, TypeInvalidate, TypeRecover,
     TypeClaimNext, TypeExecute, TypeHandleError, TypeRenew, TypeFaults
     DEF Next, Progress
<1> QED
  BY <1>1, <1>2

\* Rows and slots keep their shape whatever the handlers, slots, crashes and
\* faults do.
THEOREM TypeCorrect == Spec => []TypeOK
BY TypeInit, TypeStep, PTL DEF Spec

-----------------------------------------------------------------------------
(* What a step may do to a row                                              *)

\* The row a claim writes.
ClaimedRow(row) ==
  [row EXCEPT !.status = "RUNNING",
              !.generationAttempt = row.generationAttempt + 1,
              !.attemptCount = row.attemptCount + 1,
              !.leaseToken = row.generationAttempt + 1,
              !.lease = "live"]

\* Every way in which the code changes a row that is there, with the part of its
\* guard that the invariants rest on; only a confirmation does more.
Rewritten(old, new) ==
  \/ new = old
  \/ old.status \in Active
     /\ \E status \in {"CANCEL_REQUESTED", "CANCELLED", "STALE", "FAILED"} :
          new = Restatused(old, status)
  \/ old.lease = "live" /\ new = [old EXCEPT !.lease = "past"]
  \/ old.status = "RUNNING" /\ new = [old EXCEPT !.lease = "live"]
  \/ old.status # "ABSENT" /\ new = [old EXCEPT !.expired = TRUE]
  \/ /\ old.status = "QUEUED"
     /\ old.attemptCount < MaxAttempts
     /\ new = ClaimedRow(old)
  \/ /\ old.status \in {"RUNNING", "CANCEL_REQUESTED"}
     /\ \E status \in {"CANCELLED", "FAILED"} : new = Released(old, status)
  \/ /\ old.status = "RUNNING"
     /\ old.attemptCount < MaxAttempts
     /\ new = Released(old, "QUEUED")
  \/ /\ old.status = "RUNNING"
     /\ \E status \in Completed :
          new = [Released(old, status) EXCEPT !.results = old.results + 1]
  \/ /\ old.status = "RUNNING"
     /\ \E status \in {"QUEUED", "FAILED"} :
          /\ status = "QUEUED" => old.attemptCount + 1 < MaxAttempts
          /\ new = [Released(old, status) EXCEPT !.attemptCount = old.attemptCount + 1]

Confirmed(old, new) == old.status # "ABSENT" /\ new = Restatused(old, "COMPLETED")

RowChange(old, new) ==
  \/ old.status = "ABSENT" /\ new = QueuedRow
  \/ Confirmed(old, new)
  \/ Rewritten(old, new)

\* What holds of every row between any two statements.
RowInv(row) ==
  /\ row.results <= 1
  /\ row.results = 1 => row.status \in Completed
  /\ row.status = "ABSENT" => row.generationAttempt = 0
  /\ row.status = "QUEUED" => /\ row.leaseToken = NoToken
                              /\ row.lease = "none"
                              /\ row.attemptCount < MaxAttempts
  /\ row.status = "RUNNING" => row.leaseToken # NoToken /\ row.lease # "none"
  /\ row.leaseToken <= row.generationAttempt
  /\ row.generationAttempt <= row.attemptCount
  /\ row.generationAttempt <= MaxAttempts

\* A slot at work on a row has the token of one of its claims, and while the
\* row still carries that token the slot knows how often it was attempted.
Matches(slot, row) ==
  /\ slot.leaseToken # NoToken
  /\ slot.leaseToken <= row.generationAttempt
  /\ row.leaseToken = slot.leaseToken => row.attemptCount = slot.attemptCount

Engaged(w) == slots[w].pc \in Busy \ {"read"}

QueueInv ==
  /\ TypeOK
  /\ \A t \in Task : RowInv(rows[t])
  /\ \A w \in Slot : Engaged(w) => Matches(slots[w], rows[slots[w].run])

\* A change of the kinds above keeps the row invariant.
LEMMA RowInvKept ==
  ASSUME NEW old \in Row, NEW new \in Row, RowInv(old), RowChange(old, new)
  PROVE  RowInv(new)
<1> USE QueueAssumption DEF Row, RowInv, Completed, NoToken, Active
<1>1. CASE new = old
  BY <1>1
<1>2. CASE new = QueuedRow
  BY <1>2 DEF QueuedRow, AbsentRow
<1>3. CASE \E status \in {"CANCEL_REQUESTED", "CANCELLED", "STALE", "FAILED"} :
             old.status \in Active /\ new = Restatused(old, status)
  BY <1>3 DEF Restatused
<1>4. CASE old.status # "ABSENT" /\ new = Restatused(old, "COMPLETED")
  BY <1>4 DEF Restatused
<1>5. CASE old.lease = "live" /\ new = [old EXCEPT !.lease = "past"]
  BY <1>5
<1>6. CASE old.status = "RUNNING" /\ new = [old EXCEPT !.lease = "live"]
  BY <1>6
<1>7. CASE new = [old EXCEPT !.expired = TRUE]
  BY <1>7
<1>8. CASE /\ old.status = "QUEUED"
           /\ old.attemptCount < MaxAttempts
           /\ new = ClaimedRow(old)
  BY <1>8 DEF ClaimedRow
<1>9. CASE /\ old.status \in {"RUNNING", "CANCEL_REQUESTED"}
           /\ \E status \in {"CANCELLED", "FAILED"} : new = Released(old, status)
  BY <1>9 DEF Released
<1>10. CASE /\ old.status = "RUNNING"
            /\ old.attemptCount < MaxAttempts
            /\ new = Released(old, "QUEUED")
  BY <1>10 DEF Released
<1>11. CASE /\ old.status = "RUNNING"
            /\ \E status \in Completed :
                 new = [Released(old, status) EXCEPT !.results = old.results + 1]
  BY <1>11 DEF Released
<1>12. CASE /\ old.status = "RUNNING"
            /\ \E status \in {"QUEUED", "FAILED"} :
                 /\ status = "QUEUED" => old.attemptCount + 1 < MaxAttempts
                 /\ new = [Released(old, status) EXCEPT
                             !.attemptCount = old.attemptCount + 1]
  BY <1>12 DEF Released
<1> QED
  BY <1>1, <1>2, <1>3, <1>4, <1>5, <1>6, <1>7, <1>8, <1>9, <1>10, <1>11, <1>12
     DEF RowChange, Confirmed, Rewritten

\* Nor does it make a slot's token valid again or its attempt count wrong.
LEMMA MatchKept ==
  ASSUME NEW old \in Row, NEW new \in Row, NEW slot \in SlotState,
         RowInv(old), RowChange(old, new), Matches(slot, old)
  PROVE  Matches(slot, new)
<1>1. /\ old.generationAttempt \in Nat /\ old.attemptCount \in Nat
      /\ slot.leaseToken \in Nat
  BY DEF Row, SlotState
<1>2. old.status # "ABSENT"
  BY <1>1 DEF RowInv, Matches, NoToken
<1>3. \/ new.leaseToken = old.leaseToken /\ new.attemptCount = old.attemptCount
      \/ new.leaseToken = NoToken
      \/ new.leaseToken = old.generationAttempt + 1
  BY <1>2 DEF RowChange, Confirmed, Rewritten, Row, Restatused, Released, ClaimedRow
<1>4. \/ new.generationAttempt = old.generationAttempt
      \/ new.generationAttempt = old.generationAttempt + 1
  BY <1>2 DEF RowChange, Confirmed, Rewritten, Row, Restatused, Released, ClaimedRow
<1> QED
  BY <1>1, <1>3, <1>4 DEF Matches, NoToken

\* A step that leaves the rows alone, one statement on one row, and one on the
\* rows of a set.
LEMMA NoChange ==
  ASSUME UNCHANGED rows
  PROVE  \A u \in Task : Rewritten(rows[u], rows'[u])
BY DEF Rewritten

LEMMA UpdateChange ==
  ASSUME TypeOK, NEW t \in Task, NEW row, Update(t, row), Rewritten(rows[t], row)
  PROVE  \A u \in Task : Rewritten(rows[u], rows'[u])
<1>1. \A u \in Task : rows'[u] = IF u = t THEN row ELSE rows[u]
  BY DEF TypeOK, Update
<1>2. \A u \in Task : Rewritten(rows[u], rows[u])
  BY DEF Rewritten
<1> QED
  BY <1>1, <1>2

LEMMA StatementChange ==
  ASSUME NEW S, NEW status
  PROVE  /\ /\ RestatusAll(S, status)
            /\ \A t \in Task \cap S : Rewritten(rows[t], Restatused(rows[t], status))
            => \A t \in Task : Rewritten(rows[t], rows'[t])
         /\ /\ ReleaseAll(S, status)
            /\ \A t \in Task \cap S : Rewritten(rows[t], Released(rows[t], status))
            => \A t \in Task : Rewritten(rows[t], rows'[t])
<1>1. \A t \in Task : Rewritten(rows[t], rows[t])
  BY DEF Rewritten
<1>2. ASSUME RestatusAll(S, status),
             \A t \in Task \cap S : Rewritten(rows[t], Restatused(rows[t], status))
      PROVE  \A t \in Task : Rewritten(rows[t], rows'[t])
  <2>1. \A t \in Task : rows'[t] = IF t \in S THEN Restatused(rows[t], status) ELSE rows[t]
    BY <1>2 DEF RestatusAll
  <2> QED
    BY <1>1, <1>2, <2>1
<1>3. ASSUME ReleaseAll(S, status),
             \A t \in Task \cap S : Rewritten(rows[t], Released(rows[t], status))
      PROVE  \A t \in Task : Rewritten(rows[t], rows'[t])
  <2>1. \A t \in Task : rows'[t] = IF t \in S THEN Released(rows[t], status) ELSE rows[t]
    BY <1>3 DEF ReleaseAll
  <2> QED
    BY <1>1, <1>3, <2>1
<1> QED
  BY <1>2, <1>3

LEMMA AcceptChange ==
  ASSUME TypeOK, NEW t \in Task, Accept(t)
  PROVE  \A u \in Task : RowChange(rows[u], rows'[u])
<1>1. rows[t].status = "ABSENT"
  BY DEF Accept, AcceptConversationTask, AcceptPlan, AcceptReplan,
         AcceptPersonalResearchTask
<1>2. RowChange(rows[t], QueuedRow)
  BY <1>1 DEF RowChange
<1>3. CASE Update(t, QueuedRow)
  <2>1. \A u \in Task : rows'[u] = IF u = t THEN QueuedRow ELSE rows[u]
    BY <1>3 DEF TypeOK, Update
  <2> QED
    BY <1>2, <2>1 DEF RowChange, Rewritten
<1>4. ASSUME NEW old \in Task, NEW row, RowChange(rows[old], row),
             rows' = [rows EXCEPT ![old] = row, ![t] = QueuedRow]
      PROVE  \A u \in Task : RowChange(rows[u], rows'[u])
  <2>1. \A u \in Task : rows'[u] = IF u = t THEN QueuedRow
                                   ELSE IF u = old THEN row ELSE rows[u]
    BY <1>4 DEF TypeOK
  <2>2. \A u \in Task : RowChange(rows[u], rows[u])
    BY DEF RowChange, Rewritten
  <2> QED
    BY <1>2, <1>4, <2>1, <2>2
<1>5. ASSUME NEW old \in Task, rows[old].status \in Active
      PROVE  RowChange(rows[old], Restatused(rows[old], "CANCELLED"))
  BY <1>5 DEF RowChange, Rewritten
<1>6. ASSUME NEW origin \in Task, AcceptPersonalResearchTask(t, origin)
      PROVE  RowChange(rows[origin], Restatused(rows[origin], "COMPLETED"))
  BY <1>6 DEF RowChange, Confirmed, AcceptPersonalResearchTask
<1> QED
  BY <1>3, <1>4, <1>5, <1>6 DEF Accept, AcceptConversationTask, AcceptPlan, AcceptReplan,
     AcceptPersonalResearchTask, ActiveOnTrip, IsActive

LEMMA ApiAndTimeChange ==
  ASSUME TypeOK, NEW t \in Task,
         \/ ReadForCancellation(t)
         \/ RequestCancellation(t)
         \/ LeaseRunsOut(t)
         \/ TimeToLivePasses(t)
  PROVE  \A u \in Task : Rewritten(rows[u], rows'[u])
<1>1. CASE UNCHANGED rows
  BY <1>1, NoChange
<1>2. CASE RequestCancellation(t)
  <2>1. ASSUME NEW status \in {"CANCELLED", "CANCEL_REQUESTED"}, IsActive(t)
        PROVE  Rewritten(rows[t], Restatused(rows[t], status))
    BY <2>1 DEF Rewritten, IsActive
  <2> QED
    BY <1>1, <1>2, <2>1, UpdateChange DEF RequestCancellation
<1>3. CASE LeaseRunsOut(t)
  <2>1. Rewritten(rows[t], [rows[t] EXCEPT !.lease = "past"])
    BY <1>3 DEF Rewritten, LeaseRunsOut
  <2> QED
    BY <1>3, <2>1, UpdateChange DEF LeaseRunsOut
<1>4. CASE TimeToLivePasses(t)
  <2>1. Rewritten(rows[t], [rows[t] EXCEPT !.expired = TRUE])
    BY <1>4 DEF Rewritten, TimeToLivePasses
  <2> QED
    BY <1>4, <2>1, UpdateChange DEF TimeToLivePasses
<1> QED
  BY <1>1, <1>2, <1>3, <1>4 DEF ReadForCancellation

LEMMA InvalidateChange ==
  ASSUME TypeOK, NEW trip \in Trip, InvalidateResearch(trip)
  PROVE  \A u \in Task : Rewritten(rows[u], rows'[u])
<1>1. ASSUME NEW u \in Task, IsActive(u)
      PROVE  Rewritten(rows[u], Restatused(rows[u], "STALE"))
  BY <1>1 DEF Rewritten, IsActive
<1> QED
  BY <1>1, StatementChange DEF InvalidateResearch, ActiveOnTrip

LEMMA RecoverChange ==
  ASSUME TypeOK, NEW w \in Slot, Recover(w)
  PROVE  \A u \in Task : Rewritten(rows[u], rows'[u])
<1>1. CASE RecoverCancelled(w)
  <2>1. ASSUME NEW u \in Task, rows[u].status = "CANCEL_REQUESTED"
        PROVE  Rewritten(rows[u], Released(rows[u], "CANCELLED"))
    BY <2>1 DEF Rewritten
  <2> QED
    BY <1>1, <2>1, StatementChange DEF RecoverCancelled
<1>2. CASE RecoverExpired(w)
  <2>1. ASSUME NEW u \in Task, rows[u].status = "QUEUED"
        PROVE  Rewritten(rows[u], Restatused(rows[u], "FAILED"))
    BY <2>1 DEF Rewritten, Active
  <2> QED
    BY <1>2, <2>1, StatementChange DEF RecoverExpired
<1>3. CASE RecoverExhausted(w)
  <2>1. ASSUME NEW u \in Task, rows[u].status = "RUNNING"
        PROVE  Rewritten(rows[u], Released(rows[u], "FAILED"))
    BY <2>1 DEF Rewritten
  <2> QED
    BY <1>3, <2>1, StatementChange DEF RecoverExhausted, Abandoned
<1>4. CASE RecoverRetrying(w)
  <2>1. ASSUME NEW u \in Task, rows[u].status = "RUNNING",
               rows[u].attemptCount < MaxAttempts
        PROVE  Rewritten(rows[u], Released(rows[u], "QUEUED"))
    BY <2>1 DEF Rewritten
  <2> QED
    BY <1>4, <2>1, StatementChange DEF RecoverRetrying, Abandoned, Retriable
<1> QED
  BY <1>1, <1>2, <1>3, <1>4 DEF Recover

LEMMA ClaimChange ==
  ASSUME TypeOK, NEW w \in Slot, ClaimNext(w)
  PROVE  \A u \in Task : Rewritten(rows[u], rows'[u])
<1>1. CASE UNCHANGED rows
  BY <1>1, NoChange
<1>2. ASSUME NEW t \in Claimable, Claim(w, t)
      PROVE  \A u \in Task : Rewritten(rows[u], rows'[u])
  <2>1. t \in Task /\ rows[t].status = "QUEUED" /\ rows[t].attemptCount < MaxAttempts
    BY DEF Claimable, Retriable
  <2>2. Rewritten(rows[t], ClaimedRow(rows[t]))
    BY <2>1 DEF Rewritten
  <2>3. Update(t, ClaimedRow(rows[t]))
    BY <1>2 DEF Claim, ClaimedRow
  <2> QED
    BY <2>1, <2>2, <2>3, UpdateChange
<1> QED
  BY <1>1, <1>2 DEF ClaimNext, ClaimConversation, ClaimPlanning, ReadClaimed

LEMMA CommitChange ==
  ASSUME TypeOK, NEW t \in Task, NEW status \in Completed, CommitResult(t, status),
         rows[t].status = "RUNNING"
  PROVE  \A u \in Task : Rewritten(rows[u], rows'[u])
<1>1. Rewritten(rows[t], [Released(rows[t], status) EXCEPT !.results = rows[t].results + 1])
  BY DEF Rewritten
<1> QED
  BY <1>1, UpdateChange DEF CommitResult

LEMMA ExecuteChange ==
  ASSUME QueueInv, NEW w \in Slot, Execute(w)
  PROVE  \A u \in Task : Rewritten(rows[u], rows'[u])
<1> DEFINE t == slots[w].run
<1>1. TypeOK /\ t \in Task
  BY DEF QueueInv, TypeOK, SlotsOK, Busy, Execute, ObserveRevocation, WorkFails,
         CompleteConversation, GeneratePlan, CompleteResearch, CompletePersonalResearch,
         FailPersonalResearch, Announce, FollowUpFails
<1>2. CASE UNCHANGED rows
  BY <1>2, NoChange
<1>3. CASE OwnsRun(w) /\ \E status \in Completed : CommitResult(t, status)
  BY <1>1, <1>3, CommitChange DEF OwnsRun
<1>4. CASE FailPersonalResearch(w) /\ OwnsRun(w)
  <2> DEFINE attempt == slots[w].attemptCount + 1
             Failed(status) == [Released(rows[t], status) EXCEPT !.attemptCount = attempt]
  <2>1. slots[w].attemptCount = rows[t].attemptCount
    BY <1>4 DEF FailPersonalResearch, QueueInv, Engaged, Busy, Matches, OwnsRun, Holds
  <2>2. ASSUME NEW status \in {"QUEUED", "FAILED"},
               status = "QUEUED" => attempt < MaxAttempts
        PROVE  Rewritten(rows[t], Failed(status))
    BY <1>4, <2>1, <2>2 DEF Rewritten, OwnsRun
  <2>3. \E status \in {"QUEUED", "FAILED"} :
          /\ status = "QUEUED" => attempt < MaxAttempts
          /\ Update(t, Failed(status))
    BY <1>4 DEF FailPersonalResearch
  <2> HIDE DEF Failed, attempt
  <2> QED
    BY <1>1, <2>2, <2>3, UpdateChange
<1> QED
  BY <1>2, <1>3, <1>4
     DEF Execute, ObserveRevocation, WorkFails, CompleteConversation, GeneratePlan,
         CompleteResearch, CompletePersonalResearch, FailPersonalResearch, Announce,
         FollowUpFails, Completed

LEMMA HandleErrorChange ==
  ASSUME QueueInv, NEW w \in Slot, HandleError(w)
  PROVE  \A u \in Task : Rewritten(rows[u], rows'[u])
<1> DEFINE t == slots[w].run
<1>1. TypeOK /\ t \in Task
  BY DEF QueueInv, TypeOK, SlotsOK, Busy, HandleError, AbandonRun, CheckCancellation,
         FinishCancelledTask, FailOrRetryTask
<1>2. CASE UNCHANGED rows
  BY <1>2, NoChange
<1>3. CASE FinishCancelledTask(w) /\ ~ UNCHANGED rows
  <2>1. rows[t].status = "CANCEL_REQUESTED" /\ Update(t, Released(rows[t], "CANCELLED"))
    BY <1>3 DEF FinishCancelledTask
  <2>2. Rewritten(rows[t], Released(rows[t], "CANCELLED"))
    BY <2>1 DEF Rewritten
  <2> QED
    BY <1>1, <2>1, <2>2, UpdateChange
<1>4. CASE FailOrRetryTask(w) /\ OwnsRun(w)
  <2> DEFINE canRetry == slots[w].failure = "RETRYABLE"
                         /\ slots[w].attemptCount < MaxAttempts
  <2>1. slots[w].attemptCount = rows[t].attemptCount /\ rows[t].status = "RUNNING"
    BY <1>4 DEF FailOrRetryTask, QueueInv, Engaged, Busy, Matches, OwnsRun, Holds
  <2>2. CASE canRetry
    <3>1. Rewritten(rows[t], Released(rows[t], "QUEUED"))
      BY <2>1, <2>2 DEF Rewritten
    <3>2. Update(t, Released(rows[t], "QUEUED"))
      BY <1>4, <2>2 DEF FailOrRetryTask
    <3> QED
      BY <1>1, <3>1, <3>2, UpdateChange
  <2>3. CASE ~ canRetry
    <3>1. Rewritten(rows[t], Released(rows[t], "FAILED"))
      BY <2>1 DEF Rewritten
    <3>2. Update(t, Released(rows[t], "FAILED"))
      BY <1>4, <2>3 DEF FailOrRetryTask
    <3> QED
      BY <1>1, <3>1, <3>2, UpdateChange
  <2> QED
    BY <2>2, <2>3
<1> QED
  BY <1>2, <1>3, <1>4
     DEF HandleError, AbandonRun, CheckCancellation, FinishCancelledTask, FailOrRetryTask

LEMMA RenewChange ==
  ASSUME TypeOK, NEW w \in Slot, Renew(w)
  PROVE  \A u \in Task : Rewritten(rows[u], rows'[u])
<1> DEFINE t == slots[w].run
<1>1. CASE UNCHANGED rows
  BY <1>1, NoChange
<1>2. CASE OwnsRun(w) /\ Update(t, [rows[t] EXCEPT !.lease = "live"]) /\ Working(w)
  <2>1. t \in Task
    BY <1>2 DEF Working, TypeOK, SlotsOK, Busy
  <2>2. Rewritten(rows[t], [rows[t] EXCEPT !.lease = "live"])
    BY <1>2 DEF Rewritten, OwnsRun
  <2> QED
    BY <1>2, <2>1, <2>2, UpdateChange
<1> QED
  BY <1>1, <1>2 DEF Renew

\* Every step but an accept rewrites rows that are there.
LEMMA OtherStepsRewrite ==
  ASSUME QueueInv, [Next]_vars
  PROVE  \/ \E t \in Task : Accept(t)
         \/ \A u \in Task : Rewritten(rows[u], rows'[u])
<1>1. TypeOK
  BY DEF QueueInv
<1>2. CASE UNCHANGED vars
  BY <1>2, NoChange DEF vars
<1>3. CASE \E t \in Task : \/ ReadForCancellation(t)
                           \/ RequestCancellation(t)
                           \/ LeaseRunsOut(t)
                           \/ TimeToLivePasses(t)
  BY <1>1, <1>3, ApiAndTimeChange
<1>4. CASE \E trip \in Trip : InvalidateResearch(trip)
  BY <1>1, <1>4, InvalidateChange
<1>5. CASE \E w \in Slot : Progress(w) \/ Renew(w)
  BY <1>1, <1>5, RecoverChange, ClaimChange, ExecuteChange, HandleErrorChange,
     RenewChange DEF Progress
<1>6. CASE \E w \in Slot : Crash(w) \/ DbFault(w)
  BY <1>6, NoChange DEF Crash, DbFault
<1> QED
  BY <1>2, <1>3, <1>4, <1>5, <1>6 DEF Next

\* Every step changes every row in one of the ways listed.
LEMMA RowChanges ==
  ASSUME QueueInv, [Next]_vars
  PROVE  \A u \in Task : RowChange(rows[u], rows'[u])
BY AcceptChange, OtherStepsRewrite DEF RowChange, QueueInv

\* A step moves one slot at most.
LEMMA OneSlotMoves ==
  ASSUME TypeOK, [Next]_vars
  PROVE  \/ UNCHANGED slots
         \/ \E v \in Slot :
              /\ Progress(v) \/ Renew(v) \/ Crash(v) \/ DbFault(v)
              /\ \A w \in Slot : w # v => slots'[w] = slots[w]
<1>1. ASSUME NEW v \in Slot, NEW slot, MoveSlot(v, slot)
      PROVE  \A w \in Slot : w # v => slots'[w] = slots[w]
  BY <1>1 DEF TypeOK, SlotsOK, MoveSlot
<1>2. CASE UNCHANGED vars
  BY <1>2 DEF vars
<1>3. CASE \E t \in Task : \/ Accept(t)
                           \/ ReadForCancellation(t)
                           \/ RequestCancellation(t)
                           \/ LeaseRunsOut(t)
                           \/ TimeToLivePasses(t)
  BY <1>3 DEF Accept, AcceptConversationTask, AcceptPlan, AcceptReplan,
     AcceptPersonalResearchTask, ReadForCancellation, RequestCancellation,
     LeaseRunsOut, TimeToLivePasses
<1>4. CASE \E trip \in Trip : InvalidateResearch(trip)
  BY <1>4 DEF InvalidateResearch
<1>5. ASSUME NEW v \in Slot, Progress(v) \/ Renew(v) \/ Crash(v) \/ DbFault(v)
      PROVE  UNCHANGED slots \/ \A w \in Slot : w # v => slots'[w] = slots[w]
  <2>1. CASE Recover(v)
    BY <1>1, <2>1 DEF Recover, RecoverCancelled, RecoverExpired, RecoverExhausted,
                      RecoverRetrying, Goto
  <2>2. CASE ClaimNext(v)
    BY <1>1, <2>2 DEF ClaimNext, ClaimConversation, ClaimPlanning, ReadClaimed, Claim,
                      Goto, GoIdle
  <2>3. CASE Execute(v)
    BY <1>1, <2>3 DEF Execute, ObserveRevocation, WorkFails, CompleteConversation,
       GeneratePlan, CompleteResearch, CompletePersonalResearch, FailPersonalResearch,
       Announce, FollowUpFails, Catch, Goto, GoIdle
  <2>4. CASE HandleError(v)
    BY <1>1, <2>4 DEF HandleError, AbandonRun, CheckCancellation, FinishCancelledTask,
                      FailOrRetryTask, Goto, GoIdle
  <2>5. CASE Renew(v) \/ Crash(v) \/ DbFault(v)
    BY <1>1, <2>5 DEF Renew, Crash, DbFault, Goto, GoIdle
  <2> QED
    BY <1>5, <2>1, <2>2, <2>3, <2>4, <2>5 DEF Progress
<1> QED
  BY <1>2, <1>3, <1>4, <1>5 DEF Next

\* What a slot at work knows of its run does not change while it works; it is
\* what the slot read when it started.
KeepsRun(w) ==
  /\ Engaged(w)
  /\ slots'[w].run = slots[w].run
  /\ slots'[w].leaseToken = slots[w].leaseToken
  /\ slots'[w].attemptCount = slots[w].attemptCount

StartsRun(w) ==
  /\ slots[w].pc = "read"
  /\ slots'[w].run = slots[w].run
  /\ slots'[w].leaseToken = rows[slots[w].run].leaseToken
  /\ slots'[w].attemptCount = rows[slots[w].run].attemptCount
  /\ rows[slots[w].run].leaseToken # NoToken
  /\ UNCHANGED rows

LEMMA SlotChanges ==
  ASSUME TypeOK, [Next]_vars, NEW w \in Slot, Engaged(w)'
  PROVE  KeepsRun(w) \/ StartsRun(w)
<1>1. slots[w] \in SlotState
  BY DEF TypeOK, SlotsOK
<1>2. slots'[w].pc \in Busy \ {"read"}
  BY DEF Engaged
<1>3. ASSUME slots'[w] = slots[w]
      PROVE  KeepsRun(w)
  BY <1>2, <1>3 DEF Engaged, KeepsRun
<1>4. ASSUME NEW slot, MoveSlot(w, slot)
      PROVE  slots'[w] = slot
  BY <1>4 DEF MoveSlot, TypeOK, SlotsOK
<1>5. ASSUME NEW pc, Goto(w, pc), slots[w].pc \in Busy \ {"read"}
      PROVE  KeepsRun(w)
  <2>1. slots'[w] = [slots[w] EXCEPT !.pc = pc]
    BY <1>4, <1>5 DEF Goto
  <2> QED
    BY <1>1, <1>5, <2>1 DEF SlotState, KeepsRun, Engaged
<1>6. ASSUME NEW pc \in {"sweepExpired", "sweepExhausted", "sweepRetrying", "claimConversation",
                         "claimPlanning", "dead"}
      PROVE  ~ Goto(w, pc)
  <2> SUFFICES ASSUME Goto(w, pc) PROVE FALSE
    OBVIOUS
  <2>1. slots'[w] = [slots[w] EXCEPT !.pc = pc]
    BY <1>4 DEF Goto
  <2>2. slots'[w].pc = pc
    BY <1>1, <2>1 DEF SlotState
  <2> QED
    BY <1>2, <2>2 DEF Busy
<1>7. ~ GoIdle(w)
  BY <1>2, <1>4, FreshTypes DEF GoIdle, Busy
<1>8. ASSUME NEW failure, Catch(w, failure), slots[w].pc \in Busy \ {"read"}
      PROVE  KeepsRun(w)
  <2>1. slots'[w] = [slots[w] EXCEPT !.pc = "caught", !.failure = failure]
    BY <1>4, <1>8 DEF Catch
  <2> QED
    BY <1>1, <1>8, <2>1 DEF SlotState, KeepsRun, Engaged
<1>9. ~ Recover(w)
  BY <1>6 DEF Recover, RecoverCancelled, RecoverExpired, RecoverExhausted, RecoverRetrying
<1>10. ASSUME ClaimNext(w)
       PROVE  StartsRun(w)
  <2>1. ASSUME NEW t \in Task PROVE ~ Claim(w, t)
    <3> SUFFICES ASSUME Claim(w, t) PROVE FALSE
      OBVIOUS
    <3>1. slots'[w] = [slots[w] EXCEPT !.pc = "read", !.run = t]
      BY <1>4 DEF Claim
    <3>2. slots'[w].pc = "read"
      BY <1>1, <3>1 DEF SlotState
    <3> QED
      BY <1>2, <3>2
  <2>2. ReadClaimed(w)
    BY <1>6, <1>7, <1>10, <2>1 DEF ClaimNext, ClaimConversation, ClaimPlanning, Claimable,
                                   Retriable
  <2> DEFINE t == slots[w].run
             left == IF Kind[t] \in PlanKinds THEN Destinations ELSE 1
  <2>3. rows[t].leaseToken # NoToken /\ slots[w].pc = "read" /\ UNCHANGED rows
    BY <1>6, <2>2 DEF ReadClaimed
  <2>4. slots'[w] = [slots[w] EXCEPT !.pc = "work",
                                     !.leaseToken = rows[t].leaseToken,
                                     !.attemptCount = rows[t].attemptCount,
                                     !.left = left]
    BY <1>4, <2>2, <2>3 DEF ReadClaimed
  <2> HIDE DEF left
  <2>5. /\ slots'[w].run = t
        /\ slots'[w].leaseToken = rows[t].leaseToken
        /\ slots'[w].attemptCount = rows[t].attemptCount
    BY <1>1, <2>4 DEF SlotState
  <2> QED
    BY <2>3, <2>5 DEF StartsRun
<1>11. ASSUME Execute(w)
       PROVE  KeepsRun(w)
  <2>1. slots[w].pc \in Busy \ {"read"}
    BY <1>11 DEF Execute, ObserveRevocation, WorkFails, CompleteConversation, GeneratePlan,
       CompleteResearch, CompletePersonalResearch, FailPersonalResearch, Announce,
       FollowUpFails, Busy
  <2>2. CASE GeneratePlan(w)
    <3>1. ASSUME NEW pc, NEW left,
                 MoveSlot(w, [slots[w] EXCEPT !.pc = pc, !.left = left])
          PROVE  KeepsRun(w)
      <4>1. slots'[w] = [slots[w] EXCEPT !.pc = pc, !.left = left]
        BY <1>4, <3>1
      <4> QED
        BY <1>1, <2>1, <4>1 DEF SlotState, KeepsRun, Engaged
    <3>2. CASE \E failure : Catch(w, failure)
      BY <1>8, <2>1, <3>2
    <3> QED
      BY <2>2, <3>1, <3>2 DEF GeneratePlan
  <2> QED
    BY <1>5, <1>7, <1>8, <1>11, <2>1, <2>2
       DEF Execute, ObserveRevocation, WorkFails, CompleteConversation, CompleteResearch,
           CompletePersonalResearch, FailPersonalResearch, Announce, FollowUpFails
<1>12. ASSUME HandleError(w)
       PROVE  KeepsRun(w)
  BY <1>5, <1>7, <1>12 DEF HandleError, AbandonRun, CheckCancellation,
     FinishCancelledTask, FailOrRetryTask, Busy
<1>13. ASSUME Renew(w)
       PROVE  KeepsRun(w)
  <2>1. CASE MoveSlot(w, [slots[w] EXCEPT !.leaseLost = TRUE])
             /\ slots[w].pc \in {"work", "caught"}
    <3>1. slots'[w] = [slots[w] EXCEPT !.leaseLost = TRUE]
      BY <1>4, <2>1
    <3> QED
      BY <1>1, <2>1, <3>1 DEF SlotState, KeepsRun, Engaged, Busy
  <2>2. CASE UNCHANGED slots
    BY <1>3, <2>2
  <2> QED
    BY <1>13, <2>1, <2>2 DEF Renew
<1>14. ~ Crash(w) /\ ~ DbFault(w)
  BY <1>6, <1>7 DEF Crash, DbFault
<1> QED
  BY <1>3, <1>9, <1>10, <1>11, <1>12, <1>13, <1>14, OneSlotMoves DEF Progress

LEMMA QueueInvInit == Init => QueueInv
<1> SUFFICES ASSUME Init PROVE QueueInv
  OBVIOUS
<1>1. TypeOK
  BY TypeInit
<1>2. RowInv(AbsentRow)
  BY QueueAssumption DEF RowInv, AbsentRow, NoToken
<1>3. \A w \in Slot : ~ Engaged(w)
  BY FreshTypes DEF Init, Engaged, Busy
<1> QED
  BY <1>1, <1>2, <1>3 DEF Init, QueueInv

LEMMA QueueInvStep == QueueInv /\ [Next]_vars => QueueInv'
<1> SUFFICES ASSUME QueueInv, [Next]_vars PROVE QueueInv'
  OBVIOUS
<1>1. TypeOK /\ TypeOK'
  BY TypeStep DEF QueueInv
<1>2. ASSUME NEW t \in Task PROVE RowInv(rows'[t])
  <2>1. rows[t] \in Row /\ rows'[t] \in Row
    BY <1>1 DEF TypeOK
  <2> QED
    BY <2>1, RowChanges, RowInvKept DEF QueueInv
<1>3. ASSUME NEW w \in Slot, Engaged(w)'
      PROVE  Matches(slots'[w], rows'[slots'[w].run])
  <2> DEFINE t == slots[w].run
  <2>1. CASE KeepsRun(w)
    <3>1. t \in Task /\ rows[t] \in Row /\ rows'[t] \in Row /\ slots[w] \in SlotState
      BY <1>1, <2>1 DEF KeepsRun, Engaged, TypeOK, SlotsOK
    <3>2. Matches(slots[w], rows'[t])
      BY <2>1, <3>1, MatchKept, RowChanges DEF QueueInv, KeepsRun
    <3> QED
      BY <2>1, <3>2 DEF KeepsRun, Matches
  <2>2. CASE StartsRun(w)
    <3>1. t \in Task /\ RowInv(rows[t])
      BY <1>1, <2>2 DEF StartsRun, TypeOK, SlotsOK, Busy, QueueInv
    <3> QED
      BY <2>2, <3>1 DEF StartsRun, Matches, RowInv
  <2> QED
    BY <1>1, <1>3, <2>1, <2>2, SlotChanges
<1> QED
  BY <1>1, <1>2, <1>3 DEF QueueInv, Engaged

\* The inductive invariant of the queue.
THEOREM QueueInvariant == Spec => []QueueInv
BY QueueInvInit, QueueInvStep, PTL DEF Spec

-----------------------------------------------------------------------------
(* The safety invariants                                                    *)

\* However often a run is crashed, reclaimed and retried, its effect is
\* committed at most once, and only by a completed run.
THEOREM ResultsAtMostOnce == Spec => []ResultAtMostOnce
<1>1. QueueInv => ResultAtMostOnce
  BY DEF QueueInv, RowInv, ResultAtMostOnce
<1> QED
  BY <1>1, QueueInvariant, PTL

\* The recovery scan, the catch block and the personal handler together never
\* let a run be claimed more than max_attempts times.
THEOREM ClaimsAreBounded == Spec => []ClaimsBounded
<1>1. QueueInv => ClaimsBounded
  BY DEF QueueInv, RowInv, ClaimsBounded
<1> QED
  BY <1>1, QueueInvariant, PTL

\* Whatever is put back in the queue can be claimed again.
THEOREM QueuedRunsClaimable == Spec => []QueuedIsClaimable
<1>1. QueueInv => QueuedIsClaimable
  BY DEF QueueInv, RowInv, QueuedIsClaimable
<1> QED
  BY <1>1, QueueInvariant, PTL

\* A running row is always one the recovery scan can find.
THEOREM RunningRunsLeased == Spec => []RunningHasLease
<1>1. QueueInv => RunningHasLease
  BY DEF QueueInv, RowInv, RunningHasLease
<1> QED
  BY <1>1, QueueInvariant, PTL

\* A change of one of the kinds above never revives a revoked row, and but for a
\* confirmation never touches a settled one.
LEMMA RevokedRowChange ==
  ASSUME NEW old \in Row, NEW new \in Row, RowChange(old, new), old.status \in Revoked
  PROVE  new.results = old.results /\ new.status \notin {"QUEUED", "RUNNING"}
BY DEF RowChange, Confirmed, Rewritten, Row, Revoked, Restatused, Released

LEMMA SettledRowChange ==
  ASSUME NEW old \in Row, NEW new \in Row, old.status \in Terminal,
         (old.status = "ABSENT" /\ new = QueuedRow) \/ Rewritten(old, new)
  PROVE  new = [old EXCEPT !.expired = new.expired, !.lease = new.lease]
<1>1. \/ new = old
      \/ new = [old EXCEPT !.lease = "past"]
      \/ new = [old EXCEPT !.expired = TRUE]
  BY DEF Rewritten, Terminal, Completed, Active
<1> QED
  BY <1>1 DEF Row

\* A cancellation, supersession or invalidation that has committed wins over
\* whatever the slots still do for the run.
THEOREM RevocationsWin == Spec => RevocationWins
<1>1. QueueInv /\ [Next]_vars =>
        [\A t \in Task : rows[t].status \in Revoked =>
           /\ rows'[t].results = rows[t].results
           /\ rows'[t].status \notin {"QUEUED", "RUNNING"}]_vars
  <2> SUFFICES ASSUME QueueInv, [Next]_vars, NEW t \in Task, rows[t].status \in Revoked
               PROVE  /\ rows'[t].results = rows[t].results
                      /\ rows'[t].status \notin {"QUEUED", "RUNNING"}
    OBVIOUS
  <2>1. rows[t] \in Row /\ rows'[t] \in Row
    BY TypeStep DEF QueueInv, TypeOK
  <2> QED
    BY <2>1, RowChanges, RevokedRowChange
<1> QED
  BY <1>1, QueueInvariant, PTL DEF Spec, RevocationWins

\* The runs a confirmation of personal research may settle a second time.
Draftable(t) ==
  /\ Kind[t] = "CONVERSATION"
  /\ \E p \in Task : Kind[p] = "PERSONAL_RESEARCH" /\ ThreadOf[p] = ThreadOf[t]

LEMMA UndraftedChange ==
  ASSUME QueueInv, [Next]_vars, NEW t \in Task, ~ Draftable(t)
  PROVE  (rows[t].status = "ABSENT" /\ rows'[t] = QueuedRow) \/ Rewritten(rows[t], rows'[t])
<1>1. TypeOK
  BY DEF QueueInv
<1>2. ASSUME NEW p \in Task, NEW origin \in Task, AcceptPersonalResearchTask(p, origin)
      PROVE  (rows[t].status = "ABSENT" /\ rows'[t] = QueuedRow) \/ rows'[t] = rows[t]
  <2>1. t # origin
    BY <1>2 DEF AcceptPersonalResearchTask, Draftable
  <2> QED
    BY <1>1, <1>2, <2>1 DEF AcceptPersonalResearchTask, TypeOK
<1>3. ASSUME NEW u \in Task, AcceptConversationTask(u) \/ AcceptPlan(u)
      PROVE  (rows[t].status = "ABSENT" /\ rows'[t] = QueuedRow) \/ rows'[t] = rows[t]
  BY <1>1, <1>3 DEF AcceptConversationTask, AcceptPlan, Update, TypeOK
<1>4. ASSUME NEW u \in Task, AcceptReplan(u)
      PROVE  \/ rows[t].status = "ABSENT" /\ rows'[t] = QueuedRow
             \/ rows'[t] = rows[t]
             \/ rows[t].status \in Active /\ rows'[t] = Restatused(rows[t], "CANCELLED")
  BY <1>1, <1>4 DEF AcceptReplan, Update, TypeOK, ActiveOnTrip, IsActive
<1> QED
  BY <1>2, <1>3, <1>4, OtherStepsRewrite DEF Accept, Rewritten

\* A settled run never changes again, but for the conversation a personal
\* research is confirmed from: every other run stays as it was settled.
THEOREM SettledRunsStay ==
  Spec => [][\A t \in Task : ~ Draftable(t) /\ rows[t].status \in Terminal =>
               rows'[t] = [rows[t] EXCEPT !.expired = rows'[t].expired,
                                          !.lease = rows'[t].lease]]_vars
<1>1. QueueInv /\ [Next]_vars =>
        [\A t \in Task : ~ Draftable(t) /\ rows[t].status \in Terminal =>
           rows'[t] = [rows[t] EXCEPT !.expired = rows'[t].expired,
                                      !.lease = rows'[t].lease]]_vars
  <2> SUFFICES ASSUME QueueInv, [Next]_vars, NEW t \in Task, ~ Draftable(t),
                      rows[t].status \in Terminal
               PROVE  rows'[t] = [rows[t] EXCEPT !.expired = rows'[t].expired,
                                                 !.lease = rows'[t].lease]
    OBVIOUS
  <2>1. rows[t] \in Row /\ rows'[t] \in Row
    BY TypeStep DEF QueueInv, TypeOK
  <2> QED
    BY <2>1, UndraftedChange, SettledRowChange
<1> QED
  BY <1>1, QueueInvariant, PTL DEF Spec

Confirming == \E t \in Task : Kind[t] = "PERSONAL_RESEARCH"

\* Where no personal research can be confirmed no settled run ever changes.
THEOREM SettledRunsFinal == ~ Confirming => (Spec => TerminalIsFinal)
<1> SUFFICES ASSUME ~ Confirming PROVE Spec => TerminalIsFinal
  OBVIOUS
<1>1. \A t \in Task : ~ Draftable(t)
  BY DEF Confirming, Draftable
<1>2. [\A t \in Task : ~ Draftable(t) /\ rows[t].status \in Terminal =>
         rows'[t] = [rows[t] EXCEPT !.expired = rows'[t].expired,
                                    !.lease = rows'[t].lease]]_vars
      => [\A t \in Task : rows[t].status \in Terminal =>
            rows'[t] = [rows[t] EXCEPT !.expired = rows'[t].expired,
                                       !.lease = rows'[t].lease]]_vars
  BY <1>1
<1> QED
  BY <1>2, SettledRunsStay, PTL DEF TerminalIsFinal

-----------------------------------------------------------------------------
(* What is announced is what is stored                                      *)

Truthful(event, status) ==
  /\ event = "completed" => status \in Completed
  /\ event = "failed" => status = "FAILED"
  /\ event = "cancelled" => status = "CANCELLED"

\* The runs whose outcome is written by the Worker alone: neither the personal
\* handler nor a confirmation settles them.
Plain(t) == Kind[t] # "PERSONAL_RESEARCH" /\ ~ Draftable(t)

\* A slot that is about to announce a completion has committed one.
AnnounceInv ==
  /\ \A t \in Task : Plain(t) => Truthful(announced[t], rows[t].status)
  /\ \A w \in Slot : slots[w].pc = "announce" /\ Plain(slots[w].run)
                      => rows[slots[w].run].status \in Completed

\* A settled run keeps its status.
LEMMA SettledStatusKept ==
  ASSUME QueueInv, [Next]_vars, NEW t \in Task, Plain(t), rows[t].status \in Terminal
  PROVE  rows'[t].status = rows[t].status
<1>1. rows[t] \in Row /\ rows'[t] \in Row
  BY TypeStep DEF QueueInv, TypeOK
<1>2. rows'[t] = [rows[t] EXCEPT !.expired = rows'[t].expired, !.lease = rows'[t].lease]
  BY <1>1, UndraftedChange, SettledRowChange DEF Plain
<1>3. [rows[t] EXCEPT !.expired = rows'[t].expired, !.lease = rows'[t].lease].status
        = rows[t].status
  BY <1>1 DEF Row
<1> QED
  BY <1>2, <1>3

\* A statement that settles the rows of a set and announces them says the truth.
LEMMA SweepAnnounces ==
  ASSUME TypeOK, NEW S \in SUBSET Task, NEW status \in {"CANCELLED", "FAILED"},
         NEW event \in {"cancelled", "failed"}, Truthful(event, status),
         RestatusAll(S, status) \/ ReleaseAll(S, status), AnnounceAll(S, event),
         NEW t \in Task
  PROVE  announced'[t] = announced[t] \/ Truthful(announced'[t], rows'[t].status)
<1>1. CASE t \notin S
  BY <1>1 DEF AnnounceAll
<1>2. CASE t \in S
  <2>1. announced'[t] = event
    BY <1>2 DEF AnnounceAll
  <2>2. rows[t] \in Row
    BY DEF TypeOK
  <2>3. rows'[t] = Restatused(rows[t], status) \/ rows'[t] = Released(rows[t], status)
    BY <1>2 DEF RestatusAll, ReleaseAll
  <2>4. rows'[t].status = status
    BY <2>2, <2>3 DEF Restatused, Released, Row
  <2> QED
    BY <2>1, <2>4
<1> QED
  BY <1>1, <1>2

\* So does a write of one row.
LEMMA WriteAnnounces ==
  ASSUME TypeOK, NEW u \in Task, NEW row, Update(u, row), NEW event,
         announced' = [announced EXCEPT ![u] = event], Truthful(event, row.status),
         NEW t \in Task
  PROVE  announced'[t] = announced[t] \/ Truthful(announced'[t], rows'[t].status)
BY DEF TypeOK, Update

LEMMA AnnouncementsTruthful ==
  ASSUME QueueInv, AnnounceInv, [Next]_vars, NEW t \in Task, Plain(t)
  PROVE  announced'[t] = announced[t] \/ Truthful(announced'[t], rows'[t].status)
<1> DEFINE Goal == announced'[t] = announced[t] \/ Truthful(announced'[t], rows'[t].status)
<1>1. TypeOK
  BY DEF QueueInv
<1>2. CASE UNCHANGED announced
  BY <1>2
<1>3. ASSUME NEW u \in Task, RequestCancellation(u)
      PROVE  Goal
  <2>1. CASE announced' = [announced EXCEPT ![u] = "cancelled"]
             /\ Update(u, Restatused(rows[u], "CANCELLED"))
    <3>1. Restatused(rows[u], "CANCELLED").status = "CANCELLED"
      BY <1>1 DEF Restatused, TypeOK, Row
    <3> QED
      BY <1>1, <2>1, <3>1, WriteAnnounces DEF Truthful
  <2> QED
    BY <1>2, <1>3, <2>1 DEF RequestCancellation
<1>4. ASSUME NEW w \in Slot, Recover(w)
      PROVE  Goal
  <2>1. Truthful("cancelled", "CANCELLED") /\ Truthful("failed", "FAILED")
    BY DEF Truthful
  <2>2. CASE RecoverCancelled(w)
    BY <1>1, <2>1, <2>2, SweepAnnounces DEF RecoverCancelled
  <2>3. CASE RecoverExpired(w)
    BY <1>1, <2>1, <2>3, SweepAnnounces DEF RecoverExpired
  <2>4. CASE RecoverExhausted(w)
    BY <1>1, <2>1, <2>4, SweepAnnounces DEF RecoverExhausted, Abandoned
  <2> QED
    BY <1>2, <1>4, <2>2, <2>3, <2>4 DEF Recover, RecoverRetrying
<1>5. ASSUME NEW w \in Slot, Execute(w)
      PROVE  Goal
  <2>1. CASE Announce(w)
    <3>1. CASE t = slots[w].run
      <4>1. rows[t].status \in Completed /\ rows' = rows /\ announced'[t] = "completed"
        BY <1>1, <2>1, <3>1 DEF Announce, AnnounceInv, TypeOK
      <4> QED
        BY <4>1 DEF Truthful
    <3>2. CASE t # slots[w].run
      BY <1>1, <2>1, <3>2 DEF Announce, TypeOK
    <3> QED
      BY <3>1, <3>2
  <2>2. CASE FailPersonalResearch(w)
    <3>1. t # slots[w].run
      BY <2>2 DEF FailPersonalResearch, Is, Plain
    <3> QED
      BY <1>1, <2>2, <3>1 DEF FailPersonalResearch, TypeOK
  <2> QED
    BY <1>2, <1>5, <2>1, <2>2
       DEF Execute, ObserveRevocation, WorkFails, CompleteConversation, GeneratePlan,
           CompleteResearch, CompletePersonalResearch, FollowUpFails
<1>6. ASSUME NEW w \in Slot, HandleError(w)
      PROVE  Goal
  <2> DEFINE u == slots[w].run
  <2>1. u \in Task
    BY <1>1, <1>6 DEF TypeOK, SlotsOK, Busy, HandleError, AbandonRun, CheckCancellation,
         FinishCancelledTask, FailOrRetryTask
  <2>2. Released(rows[u], "CANCELLED").status = "CANCELLED"
        /\ Released(rows[u], "FAILED").status = "FAILED"
    BY <1>1, <2>1 DEF Released, TypeOK, Row
  <2>3. CASE FinishCancelledTask(w)
    <3>1. CASE announced' = [announced EXCEPT ![u] = "cancelled"]
               /\ Update(u, Released(rows[u], "CANCELLED"))
      <4>1. Truthful("cancelled", Released(rows[u], "CANCELLED").status)
        BY <2>2 DEF Truthful
      <4> QED
        BY <1>1, <2>1, <3>1, <4>1, WriteAnnounces
    <3> QED
      BY <1>2, <2>3, <3>1 DEF FinishCancelledTask
  <2>4. CASE FailOrRetryTask(w)
    <3>1. CASE announced' = [announced EXCEPT ![u] = "failed"]
               /\ Update(u, Released(rows[u], "FAILED"))
      <4>1. Truthful("failed", Released(rows[u], "FAILED").status)
        BY <2>2 DEF Truthful
      <4> QED
        BY <1>1, <2>1, <3>1, <4>1, WriteAnnounces
    <3> QED
      BY <1>2, <2>4, <3>1 DEF FailOrRetryTask
  <2> QED
    BY <1>2, <1>6, <2>3, <2>4 DEF HandleError, AbandonRun, CheckCancellation
<1>7. CASE UNCHANGED vars
  BY <1>2, <1>7 DEF vars
<1> QED
  BY <1>2, <1>3, <1>4, <1>5, <1>6, <1>7
     DEF Next, Progress, Accept, AcceptConversationTask, AcceptPlan, AcceptReplan,
         AcceptPersonalResearchTask, ReadForCancellation, LeaseRunsOut, TimeToLivePasses,
         InvalidateResearch, ClaimNext, ClaimConversation, ClaimPlanning, ReadClaimed,
         Renew, Crash, DbFault

\* A slot reaches the announcement of a run only with the commit of its result.
LEMMA AnnouncingHasCommitted ==
  ASSUME QueueInv, [Next]_vars, NEW w \in Slot, slots'[w].pc = "announce",
         slots[w].pc # "announce", Plain(slots[w].run)
  PROVE  slots'[w].run = slots[w].run /\ rows'[slots[w].run].status \in Completed
<1> DEFINE t == slots[w].run
           Commits == OwnsRun(w) /\ \E status \in Completed : CommitResult(t, status)
<1>1. TypeOK
  BY DEF QueueInv
<1>2. slots[w] \in SlotState
  BY <1>1 DEF TypeOK, SlotsOK
<1>3. KeepsRun(w) \/ StartsRun(w)
  BY <1>1, SlotChanges DEF Engaged, Busy
<1>4. slots'[w].run = t /\ t \in Task
  BY <1>1, <1>3 DEF KeepsRun, StartsRun, Engaged, Busy, TypeOK, SlotsOK
<1>5. ASSUME NEW slot, MoveSlot(w, slot)
      PROVE  slot.pc = "announce"
  BY <1>1, <1>5 DEF MoveSlot, TypeOK, SlotsOK
<1>6. ASSUME NEW pc, Goto(w, pc)
      PROVE  pc = "announce"
  BY <1>2, <1>5, <1>6 DEF Goto, SlotState
<1>7. ~ GoIdle(w) /\ \A failure : ~ Catch(w, failure)
  <2>1. ~ GoIdle(w)
    BY <1>5 DEF GoIdle, IdleSlot
  <2>2. ASSUME NEW failure, Catch(w, failure)
        PROVE  FALSE
    <3>1. [slots[w] EXCEPT !.pc = "caught", !.failure = failure].pc = "announce"
      BY <1>5, <2>2 DEF Catch
    <3> QED
      BY <1>2, <3>1 DEF SlotState
  <2> QED
    BY <2>1, <2>2
<1>8. /\ ~ Recover(w) /\ ~ HandleError(w) /\ ~ Crash(w) /\ ~ DbFault(w)
  BY <1>6, <1>7 DEF Recover, RecoverCancelled, RecoverExpired, RecoverExhausted,
     RecoverRetrying, HandleError, AbandonRun, CheckCancellation, FinishCancelledTask,
     FailOrRetryTask, Crash, DbFault
<1>9. ~ Renew(w)
  BY <1>2, <1>5 DEF Renew, SlotState
<1>10. ~ ClaimNext(w)
  <2>1. ASSUME NEW u, Claim(w, u)
        PROVE  FALSE
    <3>1. [slots[w] EXCEPT !.pc = "read", !.run = u].pc = "announce"
      BY <1>5, <2>1 DEF Claim
    <3> QED
      BY <1>2, <3>1 DEF SlotState
  <2>2. ~ ReadClaimed(w)
    <3> SUFFICES ASSUME ReadClaimed(w) PROVE FALSE
      OBVIOUS
    <3> DEFINE left == IF Kind[t] \in PlanKinds THEN Destinations ELSE 1
    <3>1. MoveSlot(w, [slots[w] EXCEPT !.pc = "work",
                                       !.leaseToken = rows[t].leaseToken,
                                       !.attemptCount = rows[t].attemptCount,
                                       !.left = left])
      BY <1>6 DEF ReadClaimed
    <3> HIDE DEF left
    <3>2. [slots[w] EXCEPT !.pc = "work",
                           !.leaseToken = rows[t].leaseToken,
                           !.attemptCount = rows[t].attemptCount,
                           !.left = left].pc = "announce"
      BY <1>5, <3>1
    <3> QED
      BY <1>2, <3>2 DEF SlotState
  <2> QED
    BY <1>6, <1>7, <2>1, <2>2 DEF ClaimNext, ClaimConversation, ClaimPlanning
<1>11. Execute(w)
  BY <1>8, <1>9, <1>10, <1>1, OneSlotMoves DEF Progress
<1>12. ASSUME GeneratePlan(w)
       PROVE  Commits
  BY <1>7, <1>12 DEF GeneratePlan
<1>13. ASSUME ~ GeneratePlan(w)
       PROVE  Commits
  BY <1>7, <1>11, <1>13
     DEF Execute, ObserveRevocation, WorkFails, CompleteConversation, CompleteResearch,
         CompletePersonalResearch, FailPersonalResearch, Announce, FollowUpFails, Is,
         Plain, Completed
<1>14. Commits
  BY <1>12, <1>13
<1>15. PICK status \in Completed : CommitResult(t, status)
  BY <1>14
<1>16. rows'[t].status = status
  BY <1>1, <1>4, <1>15 DEF CommitResult, Update, Released, TypeOK, Row
<1> QED
  BY <1>4, <1>16

LEMMA AnnounceInvStep ==
  QueueInv /\ AnnounceInv /\ [Next]_vars => AnnounceInv'
<1> SUFFICES ASSUME QueueInv, AnnounceInv, [Next]_vars PROVE AnnounceInv'
  OBVIOUS
<1>1. TypeOK /\ TypeOK'
  BY TypeStep DEF QueueInv
<1>2. ASSUME NEW t \in Task, Plain(t)
      PROVE  Truthful(announced'[t], rows'[t].status)
  <2>1. CASE announced'[t] = announced[t] /\ rows[t].status \in Terminal
    BY <1>2, <2>1, SettledStatusKept DEF AnnounceInv
  <2>2. CASE announced'[t] = announced[t] /\ rows[t].status \notin Terminal
    BY <1>2, <2>2 DEF AnnounceInv, Truthful, Terminal
  <2> QED
    BY <1>2, <2>1, <2>2, AnnouncementsTruthful
<1>3. ASSUME NEW w \in Slot, slots'[w].pc = "announce", Plain(slots'[w].run)
      PROVE  rows'[slots'[w].run].status \in Completed
  <2>1. Engaged(w)'
    BY <1>3 DEF Engaged, Busy
  <2>2. slots'[w].run = slots[w].run
    BY <1>1, <1>3, <2>1, SlotChanges DEF KeepsRun, StartsRun
  <2>3. CASE slots[w].pc # "announce"
    BY <1>3, <2>2, <2>3, AnnouncingHasCommitted
  <2>4. CASE slots[w].pc = "announce"
    <3>1. slots[w].run \in Task
      BY <1>1, <2>4 DEF TypeOK, SlotsOK, Busy
    <3>2. rows[slots[w].run].status \in Completed
      BY <1>3, <2>2, <2>4 DEF AnnounceInv
    <3> QED
      BY <1>3, <2>2, <3>1, <3>2, SettledStatusKept DEF Terminal
  <2> QED
    BY <2>3, <2>4
<1> QED
  BY <1>2, <1>3 DEF AnnounceInv

\* Whatever was announced last of a run is what its row says, whichever slot,
\* scan or handler announced it, for every run that the personal handler does
\* not fail and no confirmation settles a second time.
THEOREM AnnouncementsTrue ==
  Spec => [](\A t \in Task : Plain(t) => Truthful(announced[t], rows[t].status))
<1>1. Init => AnnounceInv
  BY FreshTypes DEF Init, AnnounceInv, Truthful, IdleSlot
<1>2. AnnounceInv => \A t \in Task : Plain(t) => Truthful(announced[t], rows[t].status)
  BY DEF AnnounceInv
<1> QED
  BY <1>1, <1>2, AnnounceInvStep, QueueInvariant, PTL DEF Spec

\* Where no personal research can be confirmed this is so of every run.
THEOREM OutcomesAnnouncedTruly == ~ Confirming => (Spec => []AnnouncedOutcomeIsTrue)
<1> SUFFICES ASSUME ~ Confirming PROVE Spec => []AnnouncedOutcomeIsTrue
  OBVIOUS
<1>1. \A t \in Task : Plain(t)
  BY DEF Confirming, Plain, Draftable
<1>2. (\A t \in Task : Plain(t) => Truthful(announced[t], rows[t].status))
      => AnnouncedOutcomeIsTrue
  BY <1>1 DEF Truthful, AnnouncedOutcomeIsTrue
<1> QED
  BY <1>2, AnnouncementsTrue, PTL

-----------------------------------------------------------------------------
(* One active run per trip and per thread                                   *)

\* A row becomes active only by being accepted.
LEMMA ActiveRewritten ==
  ASSUME NEW old \in Row, NEW new \in Row, Rewritten(old, new), new.status \in Active
  PROVE  old.status \in Active
BY DEF Rewritten, Row, Active, Completed, Restatused, Released, ClaimedRow

\* The rows that conflict: two planning runs of a trip, two runs of a thread.
Conflict(s, t) ==
  \/ {Kind[s], Kind[t]} \subseteq PlanningKinds /\ TripOf[s] = TripOf[t]
  \/ {Kind[s], Kind[t]} \subseteq ThreadKinds /\ ThreadOf[s] = ThreadOf[t]

LEMMA AcceptedAlone ==
  ASSUME TypeOK, NEW t \in Task, Accept(t), NEW u \in Task \ {t}, IsActive(u)'
  PROVE  IsActive(u) /\ ~ Conflict(t, u) /\ ~ Conflict(u, t)
<1>1. ASSUME NEW old \in Task, NEW status \in {"CANCELLED", "COMPLETED"},
             rows' = [rows EXCEPT ![old] = Restatused(rows[old], status),
                                  ![t] = QueuedRow]
      PROVE  u # old /\ rows'[u] = rows[u]
  <2>1. rows[old] \in Row
    BY DEF TypeOK
  <2>2. Restatused(rows[old], status).status = status
    BY <2>1 DEF Restatused, Row
  <2>3. CASE u = old
    <3>1. rows'[u].status = status
      BY <1>1, <2>2, <2>3 DEF TypeOK
    <3> QED
      BY <3>1 DEF IsActive, Active
  <2>4. CASE u # old
    BY <1>1, <2>4 DEF TypeOK
  <2> QED
    BY <2>3, <2>4
<1>2. CASE AcceptConversationTask(t)
  BY <1>2 DEF AcceptConversationTask, Update, TypeOK, IsActive, Conflict, ActiveOnThread,
              PlanningKinds, PlanKinds, ResearchKinds, ThreadKinds
<1>3. CASE AcceptPlan(t)
  BY <1>3 DEF AcceptPlan, Update, TypeOK, IsActive, Conflict, ActiveOnTrip,
              PlanKinds, ResearchKinds, ThreadKinds
<1>4. CASE AcceptReplan(t)
  <2>1. Kind[t] = "REPLAN"
    BY <1>4 DEF AcceptReplan
  <2>2. CASE ActiveOnTrip(TripOf[t]) = {} /\ Update(t, QueuedRow)
    BY <2>1, <2>2 DEF Update, TypeOK, IsActive, Conflict, ActiveOnTrip, ThreadKinds
  <2>3. ASSUME NEW old \in ActiveOnTrip(TripOf[t]),
               \A x \in ActiveOnTrip(TripOf[t]) \ {old} : Kind[x] \notin PlanningKinds,
               rows' = [rows EXCEPT ![old] = Restatused(rows[old], "CANCELLED"),
                                    ![t] = QueuedRow]
        PROVE  IsActive(u) /\ ~ Conflict(t, u) /\ ~ Conflict(u, t)
    <3>1. u # old /\ rows'[u] = rows[u]
      BY <1>1, <2>3 DEF ActiveOnTrip
    <3>2. IsActive(u)
      BY <3>1 DEF IsActive
    <3>3. TripOf[u] = TripOf[t] => Kind[u] \notin PlanningKinds
      BY <2>3, <3>1, <3>2 DEF ActiveOnTrip
    <3> QED
      BY <2>1, <3>2, <3>3 DEF Conflict, ThreadKinds
  <2> QED
    BY <1>4, <2>2, <2>3 DEF AcceptReplan
<1>5. ASSUME NEW origin \in Task, AcceptPersonalResearchTask(t, origin)
      PROVE  IsActive(u) /\ ~ Conflict(t, u) /\ ~ Conflict(u, t)
  <2>1. /\ Kind[t] = "PERSONAL_RESEARCH"
        /\ ActiveOnThread(ThreadOf[t]) \subseteq {origin}
        /\ u # origin /\ rows'[u] = rows[u]
    BY <1>1, <1>5 DEF AcceptPersonalResearchTask
  <2>2. IsActive(u)
    BY <2>1 DEF IsActive
  <2>3. ThreadOf[u] # ThreadOf[t]
    BY <2>1, <2>2 DEF ActiveOnThread
  <2> QED
    BY <2>1, <2>2, <2>3 DEF Conflict, PlanningKinds, PlanKinds, ResearchKinds
<1> QED
  BY <1>2, <1>3, <1>4, <1>5 DEF Accept

LEMMA OneActiveStep ==
  QueueInv /\ OneActiveRun /\ [Next]_vars => OneActiveRun'
<1> SUFFICES ASSUME QueueInv, OneActiveRun, [Next]_vars,
                    NEW s \in Task, NEW t \in Task, s # t, IsActive(s)', IsActive(t)'
             PROVE  ~ Conflict(s, t)
  BY DEF OneActiveRun, Conflict, IsActive
<1>1. ~ (IsActive(s) /\ IsActive(t) /\ Conflict(s, t))
  BY DEF OneActiveRun, Conflict
<1>2. TypeOK /\ TypeOK'
  BY TypeStep DEF QueueInv
<1>3. CASE \A u \in Task : Rewritten(rows[u], rows'[u])
  <2>1. \A u \in Task : rows[u] \in Row /\ rows'[u] \in Row
    BY <1>2 DEF TypeOK
  <2>2. IsActive(s) /\ IsActive(t)
    BY <1>3, <2>1, ActiveRewritten DEF IsActive
  <2> QED
    BY <1>1, <2>2
<1>4. ASSUME NEW u \in Task, Accept(u)
      PROVE  ~ Conflict(s, t)
  <2>1. ASSUME NEW v \in Task, v # u, IsActive(v)'
        PROVE  IsActive(v) /\ ~ Conflict(u, v) /\ ~ Conflict(v, u)
    BY <1>2, <1>4, <2>1, AcceptedAlone
  <2> QED
    BY <1>1, <2>1
<1> QED
  BY <1>3, <1>4, OtherStepsRewrite

\* Accepts, supersession, retries and recovery together leave a trip at most one
\* active planning run and a thread at most one active run.
THEOREM OneActiveRunOnly == Spec => []OneActiveRun
<1>1. Init => OneActiveRun
  BY DEF Init, OneActiveRun, IsActive, AbsentRow, Active
<1> QED
  BY <1>1, OneActiveStep, QueueInvariant, PTL DEF Spec

-----------------------------------------------------------------------------
(* No two slots share a token, if a slot reads its claim within the lease   *)

\* Between its claim and its read a slot is the only reader of the row, the row
\* carries the newest token, its lease is live and no working slot has that token.
ReadsAlone(w) ==
  LET t == slots[w].run
  IN /\ rows[t].leaseToken = rows[t].generationAttempt
     /\ rows[t].lease = "live"
     /\ rows[t].status \notin {"ABSENT", "QUEUED"}
     /\ \A v \in Slot : Engaged(v) /\ slots[v].run = t =>
          slots[v].leaseToken # rows[t].leaseToken
     /\ \A v \in Slot : slots[v].pc = "read" /\ slots[v].run = t => v = w

NoSharedToken ==
  \A v, w \in Slot :
    v # w /\ Engaged(v) /\ Engaged(w) /\ slots[v].run = slots[w].run
      => slots[v].leaseToken # slots[w].leaseToken

LeaseInv ==
  /\ QueueInv
  /\ \A w \in Slot : slots[w].pc = "read" => ReadsAlone(w)
  /\ NoSharedToken

\* What may happen to a row between its claim and its read.
Undisturbed(old, new) ==
  /\ new.leaseToken = old.leaseToken
  /\ new.generationAttempt = old.generationAttempt
  /\ new.lease = "live"
  /\ new.status \notin {"ABSENT", "QUEUED"}

LEMMA RestatusUndisturbed ==
  ASSUME NEW row \in Row, row.lease = "live", row.status \notin {"ABSENT", "QUEUED"}
  PROVE  /\ Undisturbed(row, row)
         /\ \A status \in Status \ {"ABSENT", "QUEUED"} :
              Undisturbed(row, Restatused(row, status))
         /\ Undisturbed(row, [row EXCEPT !.expired = TRUE])
         /\ Undisturbed(row, [row EXCEPT !.lease = "live"])
BY DEF Row, Undisturbed, Restatused

\* A write of a slot that wants to hold the token cannot hit the row.
LEMMA HolderDoesNotDisturb ==
  ASSUME LeaseInv, NEW w \in Slot, slots[w].pc = "read", NEW v \in Slot, Engaged(v),
         NEW row, Holds(v), Update(slots[v].run, row)
  PROVE  rows'[slots[w].run] = rows[slots[w].run]
<1>1. slots[v].run # slots[w].run
  BY DEF LeaseInv, ReadsAlone, Holds
<1>2. slots[w].run \in Task
  BY DEF LeaseInv, QueueInv, TypeOK, SlotsOK, Busy
<1> QED
  BY <1>1, <1>2 DEF Update, LeaseInv, QueueInv, TypeOK

LEMMA ReadUndisturbed ==
  ASSUME LeaseInv, ReadWithinLease, [Next]_vars, NEW w \in Slot, slots[w].pc = "read"
  PROVE  Undisturbed(rows[slots[w].run], rows'[slots[w].run])
<1> DEFINE t == slots[w].run
<1>1. /\ TypeOK /\ t \in Task /\ rows[t] \in Row
      /\ rows[t].lease = "live" /\ rows[t].status \notin {"ABSENT", "QUEUED"}
  BY DEF LeaseInv, QueueInv, TypeOK, SlotsOK, Busy, ReadsAlone
<1> HIDE DEF t
<1>2. CASE rows'[t] = rows[t]
  BY <1>1, <1>2, RestatusUndisturbed DEF t
<1>3. ASSUME NEW status \in {"CANCEL_REQUESTED", "CANCELLED", "COMPLETED", "STALE"},
             rows'[t] = Restatused(rows[t], status)
      PROVE  Undisturbed(rows[t], rows'[t])
  BY <1>1, <1>3, RestatusUndisturbed, StatusTypes
<1>4. ASSUME NEW u \in Task, NEW row, Update(u, row), u # t
      PROVE  rows'[t] = rows[t]
  BY <1>1, <1>4 DEF TypeOK, Update
<1>5. ASSUME NEW row, Update(t, row)
      PROVE  rows'[t] = row
  BY <1>1, <1>5 DEF TypeOK, Update
<1>6. ASSUME NEW u \in Task, Accept(u) PROVE Undisturbed(rows[t], rows'[t])
  <2>1. u # t
    BY <1>1, <1>6 DEF Accept, AcceptConversationTask, AcceptPlan, AcceptReplan,
                      AcceptPersonalResearchTask
  <2>2. ASSUME NEW old \in Task, NEW status \in {"CANCELLED", "COMPLETED"},
               rows' = [rows EXCEPT ![old] = Restatused(rows[old], status),
                                    ![u] = QueuedRow]
        PROVE  Undisturbed(rows[t], rows'[t])
    <3>1. rows'[t] = rows[t] \/ rows'[t] = Restatused(rows[t], status)
      BY <1>1, <2>1, <2>2 DEF TypeOK
    <3> QED
      BY <1>2, <1>3, <3>1 DEF t
  <2>3. Update(u, QueuedRow) => Undisturbed(rows[t], rows'[t])
    BY <1>2, <1>4, <2>1 DEF t
  <2> QED
    BY <1>6, <2>2, <2>3 DEF Accept, AcceptConversationTask, AcceptPlan, AcceptReplan,
       AcceptPersonalResearchTask, ActiveOnTrip
<1>7. ASSUME NEW u \in Task,
             \/ ReadForCancellation(u)
             \/ RequestCancellation(u)
             \/ LeaseRunsOut(u)
             \/ TimeToLivePasses(u)
      PROVE  Undisturbed(rows[t], rows'[t])
  <2>1. CASE UNCHANGED rows
    BY <1>2, <2>1 DEF t
  <2>2. CASE RequestCancellation(u)
    <3>1. \/ UNCHANGED rows
          \/ \E status \in {"CANCELLED", "CANCEL_REQUESTED"} :
               Update(u, Restatused(rows[u], status))
      BY <2>2 DEF RequestCancellation
    <3> QED
      BY <1>2, <1>3, <1>4, <1>5, <2>1, <3>1 DEF t
  <2>3. CASE LeaseRunsOut(u)
    <3>1. u # t
      BY <2>3 DEF LeaseRunsOut, t
    <3> QED
      BY <1>2, <1>4, <2>3, <3>1 DEF LeaseRunsOut, t
  <2>4. CASE TimeToLivePasses(u)
    <3>1. u = t => Undisturbed(rows[t], rows'[t])
      BY <1>1, <1>5, <2>4, RestatusUndisturbed DEF TimeToLivePasses
    <3> QED
      BY <1>2, <1>4, <2>4, <3>1 DEF TimeToLivePasses, t
  <2> QED
    BY <1>7, <2>1, <2>2, <2>3, <2>4 DEF ReadForCancellation
<1>8. ASSUME NEW trip \in Trip, InvalidateResearch(trip)
      PROVE  Undisturbed(rows[t], rows'[t])
  <2>1. rows'[t] = rows[t] \/ rows'[t] = Restatused(rows[t], "STALE")
    BY <1>1, <1>8 DEF InvalidateResearch, RestatusAll
  <2> QED
    BY <1>2, <1>3, <2>1 DEF t
<1>9. ASSUME NEW v \in Slot, Recover(v)
      PROVE  rows'[t] = rows[t]
  BY <1>1, <1>9 DEF Recover, RecoverCancelled, RecoverExpired, RecoverExhausted,
     RecoverRetrying, Abandoned, ReleaseAll, RestatusAll
<1>10. ASSUME NEW v \in Slot, ClaimNext(v)
       PROVE  rows'[t] = rows[t]
  <2>1. ASSUME NEW u \in Claimable, Claim(v, u)
        PROVE  rows'[t] = rows[t]
    <3>1. u \in Task /\ u # t
      BY <1>1 DEF Claimable, Retriable
    <3> QED
      BY <1>4, <2>1, <3>1 DEF Claim
  <2> QED
    BY <1>10, <2>1 DEF ClaimNext, ClaimConversation, ClaimPlanning, ReadClaimed
<1>11. ASSUME NEW v \in Slot, Execute(v) \/ HandleError(v) \/ Renew(v)
       PROVE  rows'[t] = rows[t]
  <2>1. CASE UNCHANGED rows
    BY <2>1
  <2>2. CASE Engaged(v) /\ Holds(v) /\ \E row : Update(slots[v].run, row)
    BY <2>2, HolderDoesNotDisturb DEF t
  <2>3. CASE Execute(v)
    BY <2>1, <2>2, <2>3 DEF Execute, ObserveRevocation, WorkFails, CompleteConversation,
       GeneratePlan, CompleteResearch, CompletePersonalResearch, FailPersonalResearch,
       Announce, FollowUpFails, CommitResult, OwnsRun, Engaged, Busy
  <2>4. CASE HandleError(v)
    BY <2>1, <2>2, <2>4 DEF HandleError, AbandonRun, CheckCancellation,
       FinishCancelledTask, FailOrRetryTask, OwnsRun, Engaged, Busy
  <2>5. CASE Renew(v)
    BY <2>1, <2>2, <2>5 DEF Renew, Working, OwnsRun, Engaged, Busy
  <2> QED
    BY <1>11, <2>3, <2>4, <2>5
<1>12. CASE UNCHANGED vars \/ \E v \in Slot : Crash(v) \/ DbFault(v)
  BY <1>2, <1>12 DEF vars, Crash, DbFault, t
<1> QED
  BY <1>2, <1>6, <1>7, <1>8, <1>9, <1>10, <1>11, <1>12 DEF Next, Progress, t

\* A slot about to read was about to read before, or has just claimed.
LEMMA ReaderChanges ==
  ASSUME TypeOK, [Next]_vars, NEW w \in Slot, slots'[w].pc = "read"
  PROVE  \/ slots'[w] = slots[w]
         \/ \E t \in Claimable : Claim(w, t)
<1>1. slots[w] \in SlotState
  BY DEF TypeOK, SlotsOK
<1>2. ASSUME NEW slot, MoveSlot(w, slot)
      PROVE  slots'[w] = slot
  BY <1>2 DEF MoveSlot, TypeOK, SlotsOK
<1>3. ASSUME NEW pc, pc # "read" PROVE ~ Goto(w, pc)
  <2> SUFFICES ASSUME Goto(w, pc) PROVE FALSE
    OBVIOUS
  <2>1. slots'[w] = [slots[w] EXCEPT !.pc = pc]
    BY <1>2 DEF Goto
  <2> QED
    BY <1>1, <1>3, <2>1 DEF SlotState
<1>4. ~ GoIdle(w)
  BY <1>2, FreshTypes DEF GoIdle
<1>5. ASSUME NEW failure PROVE ~ Catch(w, failure)
  <2> SUFFICES ASSUME Catch(w, failure) PROVE FALSE
    OBVIOUS
  <2>1. slots'[w] = [slots[w] EXCEPT !.pc = "caught", !.failure = failure]
    BY <1>2 DEF Catch
  <2> QED
    BY <1>1, <2>1 DEF SlotState
<1>6. ASSUME NEW pc, NEW left, pc # "read"
      PROVE  ~ MoveSlot(w, [slots[w] EXCEPT !.pc = pc, !.left = left])
  <2> SUFFICES ASSUME MoveSlot(w, [slots[w] EXCEPT !.pc = pc, !.left = left])
               PROVE  FALSE
    OBVIOUS
  <2>1. slots'[w] = [slots[w] EXCEPT !.pc = pc, !.left = left]
    BY <1>2
  <2> QED
    BY <1>1, <1>6, <2>1 DEF SlotState
<1>7. ~ Recover(w) /\ ~ HandleError(w) /\ ~ Crash(w) /\ ~ DbFault(w)
  BY <1>3, <1>4 DEF Recover, RecoverCancelled, RecoverExpired, RecoverExhausted,
     RecoverRetrying, HandleError, AbandonRun, CheckCancellation, FinishCancelledTask,
     FailOrRetryTask, Crash, DbFault
<1>8. ~ Execute(w)
  BY <1>3, <1>4, <1>5, <1>6 DEF Execute, ObserveRevocation, WorkFails,
     CompleteConversation, GeneratePlan, CompleteResearch, CompletePersonalResearch,
     FailPersonalResearch, Announce, FollowUpFails
<1>9. ~ ReadClaimed(w)
  <2> SUFFICES ASSUME ReadClaimed(w) PROVE FALSE
    OBVIOUS
  <2> DEFINE t == slots[w].run
             left == IF Kind[t] \in PlanKinds THEN Destinations ELSE 1
  <2>1. slots'[w] = [slots[w] EXCEPT !.pc = "work",
                                     !.leaseToken = rows[t].leaseToken,
                                     !.attemptCount = rows[t].attemptCount,
                                     !.left = left]
    BY <1>2, <1>3 DEF ReadClaimed
  <2> HIDE DEF left
  <2> QED
    BY <1>1, <2>1 DEF SlotState
<1>10. ASSUME ClaimNext(w) PROVE \E t \in Claimable : Claim(w, t)
  BY <1>3, <1>4, <1>9, <1>10 DEF ClaimNext, ClaimConversation, ClaimPlanning
<1>11. ASSUME Renew(w) PROVE slots'[w] = slots[w]
  <2>1. ASSUME MoveSlot(w, [slots[w] EXCEPT !.leaseLost = TRUE]),
               slots[w].pc \in {"work", "caught"}
        PROVE  FALSE
    <3>1. slots'[w] = [slots[w] EXCEPT !.leaseLost = TRUE]
      BY <1>2, <2>1
    <3> QED
      BY <1>1, <2>1, <3>1 DEF SlotState
  <2> QED
    BY <1>11, <2>1 DEF Renew
<1> QED
  BY <1>7, <1>8, <1>10, <1>11, OneSlotMoves DEF Progress

\* What a claim leaves in the row and in the slot.
LEMMA ClaimWrites ==
  ASSUME TypeOK, NEW w \in Slot, NEW t \in Task, Claim(w, t)
  PROVE  /\ slots'[w].run = t /\ slots'[w].pc = "read"
         /\ \A v \in Slot : v # w => slots'[v] = slots[v]
         /\ rows'[t].leaseToken = rows[t].generationAttempt + 1
         /\ rows'[t].generationAttempt = rows[t].generationAttempt + 1
         /\ rows'[t].lease = "live"
         /\ rows'[t].status = "RUNNING"
<1>1. rows[t] \in Row /\ slots[w] \in SlotState
  BY DEF TypeOK, SlotsOK
<1>2. slots' = [slots EXCEPT ![w] = [slots[w] EXCEPT !.pc = "read", !.run = t]]
  BY DEF Claim, MoveSlot
<1>3. slots'[w] = [slots[w] EXCEPT !.pc = "read", !.run = t]
  BY <1>2 DEF TypeOK, SlotsOK
<1>4. slots'[w].run = t /\ slots'[w].pc = "read"
  BY <1>1, <1>3 DEF SlotState
<1>5. \A v \in Slot : v # w => slots'[v] = slots[v]
  BY <1>2 DEF TypeOK, SlotsOK
<1>6. rows'[t] = ClaimedRow(rows[t])
  BY DEF Claim, Update, TypeOK, ClaimedRow
<1> QED
  BY <1>1, <1>4, <1>5, <1>6 DEF ClaimedRow, Row

LEMMA ReadsAloneStep ==
  ASSUME LeaseInv, ReadWithinLease, [Next]_vars, NEW w \in Slot, slots'[w].pc = "read"
  PROVE  ReadsAlone(w)'
<1> DEFINE t == slots'[w].run
<1>1. TypeOK /\ QueueInv /\ t \in Task
  BY TypeStep DEF LeaseInv, QueueInv, TypeOK, SlotsOK, Busy
<1>2. CASE slots'[w] = slots[w]
  <2>1. slots[w].pc = "read" /\ t = slots[w].run /\ ReadsAlone(w)
    BY <1>2 DEF LeaseInv
  <2>2. Undisturbed(rows[t], rows'[t])
    BY <2>1, ReadUndisturbed
  <2>3. ASSUME NEW v \in Slot, Engaged(v)', slots'[v].run = t
        PROVE  slots'[v].leaseToken # rows'[t].leaseToken
    <3>1. CASE KeepsRun(v)
      BY <2>1, <2>2, <2>3, <3>1 DEF KeepsRun, ReadsAlone, Undisturbed
    <3>2. CASE StartsRun(v)
      <4>1. v = w
        BY <2>1, <2>3, <3>2 DEF StartsRun, ReadsAlone
      <4> QED
        BY <1>2, <2>1, <2>3, <4>1 DEF Engaged
    <3> QED
      BY <1>1, <2>3, <3>1, <3>2, SlotChanges
  <2>4. ASSUME NEW v \in Slot, slots'[v].pc = "read", slots'[v].run = t
        PROVE  v = w
    <3>1. CASE slots'[v] = slots[v]
      BY <2>1, <2>4, <3>1 DEF ReadsAlone
    <3>2. ASSUME NEW u \in Claimable, Claim(v, u) PROVE FALSE
      <4>1. u \in Task /\ rows[u].status = "QUEUED"
        BY DEF Claimable, Retriable
      <4>2. u = t
        BY <1>1, <2>4, <3>2, <4>1, ClaimWrites
      <4> QED
        BY <2>1, <4>1, <4>2 DEF ReadsAlone
    <3> QED
      BY <1>1, <2>4, <3>1, <3>2, ReaderChanges
  <2> QED
    BY <2>1, <2>2, <2>3, <2>4 DEF ReadsAlone, Undisturbed, Engaged
<1>3. ASSUME NEW u \in Claimable, Claim(w, u) PROVE ReadsAlone(w)'
  <2>1. u \in Task /\ rows[u].status = "QUEUED"
    BY DEF Claimable, Retriable
  <2>2. /\ t = u
        /\ \A v \in Slot : v # w => slots'[v] = slots[v]
        /\ rows'[t].leaseToken = rows[t].generationAttempt + 1
        /\ rows'[t].generationAttempt = rows[t].generationAttempt + 1
        /\ rows'[t].lease = "live"
        /\ rows'[t].status = "RUNNING"
    BY <1>1, <1>3, <2>1, ClaimWrites
  <2>3. rows[t].generationAttempt \in Nat
    BY <1>1 DEF TypeOK, Row
  <2>4. ASSUME NEW v \in Slot, Engaged(v)', slots'[v].run = t
        PROVE  slots'[v].leaseToken # rows'[t].leaseToken
    <3>1. slots'[v] = slots[v]
      BY <2>2, <2>4 DEF Engaged
    <3>2. slots[v].leaseToken \in Nat /\ slots[v].leaseToken <= rows[t].generationAttempt
      BY <1>1, <2>4, <3>1 DEF Engaged, QueueInv, Matches, TypeOK, SlotsOK, SlotState
    <3> QED
      BY <2>2, <2>3, <3>1, <3>2
  <2>5. ASSUME NEW v \in Slot, slots'[v].pc = "read", slots'[v].run = t, v # w
        PROVE  FALSE
    <3>1. slots[v].pc = "read" /\ slots[v].run = t
      BY <2>2, <2>5
    <3> QED
      BY <2>1, <2>2, <3>1 DEF LeaseInv, ReadsAlone
  <2> QED
    BY <2>2, <2>4, <2>5 DEF ReadsAlone, Engaged
<1> QED
  BY <1>1, <1>2, <1>3, ReaderChanges

LEMMA NoSharedTokenStep ==
  ASSUME LeaseInv, ReadWithinLease, [Next]_vars
  PROVE  NoSharedToken'
<1> SUFFICES ASSUME NEW v \in Slot, NEW w \in Slot, v # w, Engaged(v)', Engaged(w)',
                    slots'[v].run = slots'[w].run
             PROVE  slots'[v].leaseToken # slots'[w].leaseToken
  BY DEF NoSharedToken, Engaged
<1>1. TypeOK
  BY DEF LeaseInv, QueueInv
<1>2. CASE KeepsRun(v) /\ KeepsRun(w)
  BY <1>2 DEF KeepsRun, LeaseInv, NoSharedToken
<1>3. ASSUME NEW x \in Slot, NEW y \in Slot, StartsRun(x), KeepsRun(y),
             slots'[x].run = slots'[y].run
      PROVE  slots'[x].leaseToken # slots'[y].leaseToken
  <2>1. ReadsAlone(x)
    BY <1>3 DEF StartsRun, LeaseInv
  <2>2. Engaged(y) /\ slots[y].run = slots[x].run
    BY <1>3 DEF StartsRun, KeepsRun
  <2>3. slots[y].leaseToken # rows[slots[x].run].leaseToken
    BY <2>1, <2>2 DEF ReadsAlone
  <2> QED
    BY <1>3, <2>3 DEF StartsRun, KeepsRun
<1>4. CASE StartsRun(v) /\ StartsRun(w)
  BY <1>4 DEF StartsRun, LeaseInv, ReadsAlone
<1> QED
  BY <1>1, <1>2, <1>3, <1>4, SlotChanges

\* If every slot reads the row it claimed before that claim's lease runs out, no
\* two slots ever work on a run with the same token.
THEOREM NoLeaseShared == ReadWithinLease => (Spec => []NoSharedLease)
<1> SUFFICES ASSUME ReadWithinLease PROVE Spec => []NoSharedLease
  OBVIOUS
<1>1. Init => LeaseInv
  <2> SUFFICES ASSUME Init PROVE LeaseInv
    OBVIOUS
  <2>1. \A w \in Slot : slots[w].pc = "sweepCancelled"
    BY FreshTypes DEF Init
  <2> QED
    BY <2>1, QueueInvInit DEF LeaseInv, NoSharedToken, Engaged, Busy
<1>2. LeaseInv /\ [Next]_vars => LeaseInv'
  <2> SUFFICES ASSUME LeaseInv, [Next]_vars PROVE LeaseInv'
    OBVIOUS
  <2>1. QueueInv'
    BY QueueInvStep DEF LeaseInv
  <2>2. \A w \in Slot : slots'[w].pc = "read" => ReadsAlone(w)'
    BY ReadsAloneStep
  <2>3. NoSharedToken'
    BY NoSharedTokenStep
  <2> QED
    BY <2>1, <2>2, <2>3 DEF LeaseInv
<1>3. LeaseInv => NoSharedLease
  BY DEF LeaseInv, NoSharedToken, NoSharedLease, Working, Engaged, Busy
<1> QED
  BY <1>1, <1>2, <1>3, PTL DEF Spec
=============================================================================
