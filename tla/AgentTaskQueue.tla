--------------------------- MODULE AgentTaskQueue ---------------------------
(***************************************************************************)
(* The durable agent task queue: rows of agent_task_runs, the API handlers *)
(* that accept, cancel and invalidate them, and the Worker slots that      *)
(* claim, lease, execute, retry and finalize them                          *)
(* (apps/api/src/tasks/task-repository.ts, workers/agent-task-worker.ts).  *)
(*                                                                         *)
(* Every step of a slot is one SQL statement or one transaction; what a    *)
(* slot read earlier (its token and attempt count) stays in its own record *)
(* and may be out of date when it is used.                                 *)
(*                                                                         *)
(* Time is abstracted to what the statements compare with NOW(): a lease   *)
(* is live or past, a row's time to live has passed or not.  The retry     *)
(* back-off only delays a claim, which may be delayed anyway, so           *)
(* next_attempt_at is left out.  A random lease token is represented by    *)
(* the number of the claim that minted it.                                 *)
(***************************************************************************)
EXTENDS Naturals

CONSTANTS
  Task,             \* the requests that may be accepted, one row each
  Slot,             \* Worker slots, over all Worker processes
  Trip, Thread,     \* trips and private conversation threads
  Kind,             \* Kind[t]: operation of t, RESEARCH split by research_mode
  TripOf,           \* TripOf[t]: the trip the row is bound to
  ThreadOf,         \* ThreadOf[t]: the thread the row is bound to, or NoThread
  NoTask, NoThread,
  MaxAttempts,      \* max_attempts of every row
  Cancellable,      \* bound: the runs a client may ask to cancel
  Destinations,     \* number of destination candidates of a planning snapshot
  ReadWithinLease,  \* TRUE: a slot reads the row it claimed within the lease
  MaxCrashes,       \* bound: process crashes
  MaxDbFaults       \* bound: database errors outside a slot's try block

PlanKinds == {"PLAN", "REPLAN"}
ResearchKinds == {"RESEARCH_ONLY", "PROPOSE_PLAN"}
PlanningKinds == PlanKinds \cup ResearchKinds
ThreadKinds == {"CONVERSATION", "PERSONAL_RESEARCH"}

ASSUME QueueAssumption ==
  /\ Kind \in [Task -> PlanningKinds \cup ThreadKinds]
  /\ TripOf \in [Task -> Trip]
  /\ ThreadOf \in [Task -> Thread \cup {NoThread}]
  /\ \A t \in Task : Kind[t] \in ThreadKinds <=> ThreadOf[t] # NoThread
  /\ NoTask \notin Task
  /\ NoThread \notin Thread
  /\ MaxAttempts \in Nat \ {0}
  /\ Cancellable \subseteq Task
  /\ Destinations \in Nat \ {0}
  /\ ReadWithinLease \in BOOLEAN
  /\ MaxCrashes \in Nat
  /\ MaxDbFaults \in Nat

Active == {"QUEUED", "RUNNING", "CANCEL_REQUESTED"}
Completed == {"COMPLETED", "COMPLETED_WITH_GAPS"}
Terminal == Completed \cup {"FAILED", "CANCELLED", "STALE"}
Status == {"ABSENT"} \cup Active \cup Terminal

NoToken == 0

VARIABLES
  rows,        \* agent_task_runs
  slots,       \* what each Worker slot is doing and what it has read
  cancelRead,  \* status a cancellation handler has read of t, or "none"
  announced,   \* last terminal event published on the stream of t
  crashes, dbFaults

vars == <<rows, slots, cancelRead, announced, crashes, dbFaults>>

Row == [status : Status,
        generationAttempt : Nat,
        attemptCount : Nat,
        leaseToken : Nat,
        lease : {"none", "live", "past"},
        expired : BOOLEAN,              \* expires_at <= NOW()
        results : Nat]                  \* assistant messages or plans committed

SlotPc == {"sweepCancelled", "sweepExpired", "sweepExhausted", "sweepRetrying",
           "claimConversation", "claimPlanning", "read", "work",
           "completeResearch", "announce", "caught", "finishCancel",
           "failOrRetry", "dead"}

Failure == {"none", "RETRYABLE", "PERMANENT", "LOST_LEASE"}

SlotState == [pc : SlotPc,
              run : Task \cup {NoTask},
              leaseToken : Nat,
              attemptCount : Nat,
              failure : Failure,
              leaseLost : BOOLEAN,
              left : Nat]               \* destinations still to plan

AbsentRow == [status |-> "ABSENT", generationAttempt |-> 0, attemptCount |-> 0,
              leaseToken |-> NoToken, lease |-> "none", expired |-> FALSE,
              results |-> 0]

QueuedRow == [AbsentRow EXCEPT !.status = "QUEUED"]

\* A slot at the top of its polling loop.
IdleSlot == [pc |-> "sweepCancelled", run |-> NoTask, leaseToken |-> NoToken,
             attemptCount |-> 0, failure |-> "none", leaseLost |-> FALSE,
             left |-> 0]

Init ==
  /\ rows = [t \in Task |-> AbsentRow]
  /\ slots = [w \in Slot |-> IdleSlot]
  /\ cancelRead = [t \in Task |-> "none"]
  /\ announced = [t \in Task |-> "none"]
  /\ crashes = 0
  /\ dbFaults = 0

-----------------------------------------------------------------------------
(* Rows *)

IsActive(t) == rows[t].status \in Active

\* Mutant: the probe forgets the runs that have been claimed.
QueuedOnTrip(trip) == {t \in Task : TripOf[t] = trip /\ rows[t].status = "QUEUED"}

ActiveOnTrip(trip) == {t \in Task : TripOf[t] = trip /\ IsActive(t)}
ActiveOnThread(thread) == {t \in Task : ThreadOf[t] = thread /\ IsActive(t)}

\* Every guarded write that settles or requeues a row clears its lease.
Released(row, status) ==
  [row EXCEPT !.status = status, !.leaseToken = NoToken, !.lease = "none"]

\* The writes of other handlers change the status and leave the lease.
Restatused(row, status) == [row EXCEPT !.status = status]

Update(t, row) == rows' = [rows EXCEPT ![t] = row]

\* UPDATE ... WHERE: every row of a set in one statement.
RestatusAll(S, status) ==
  rows' = [t \in Task |-> IF t \in S THEN Restatused(rows[t], status) ELSE rows[t]]
ReleaseAll(S, status) ==
  rows' = [t \in Task |-> IF t \in S THEN Released(rows[t], status) ELSE rows[t]]

-----------------------------------------------------------------------------
(* API handlers.  A repeated request id returns the first row: a stutter.   *)

\* The thread row is locked, so probe and insert are one step.
AcceptConversationTask(t) ==
  /\ Kind[t] = "CONVERSATION"
  /\ rows[t].status = "ABSENT"
  /\ ActiveOnThread(ThreadOf[t]) = {}
  /\ Update(t, QueuedRow)
  /\ UNCHANGED <<slots, cancelRead, announced, crashes, dbFaults>>

\* acceptPlanningTask accepts a PLAN, of a handoff too, and acceptResearchTask a
\* research run, by the same probe: it counts every active run of the trip,
\* whatever its operation.
AcceptPlan(t) ==
  /\ Kind[t] = "PLAN" \/ Kind[t] \in ResearchKinds
  /\ rows[t].status = "ABSENT"
  /\ ActiveOnTrip(TripOf[t]) = {}
  /\ Update(t, QueuedRow)
  /\ UNCHANGED <<slots, cancelRead, announced, crashes, dbFaults>>

\* A REPLAN cancels the one active run its probe returned (LIMIT 1, in no
\* particular order) and inserts its own row.  The insert fails, and rolls the
\* cancellation back, while another planning run holds the unique index.
AcceptReplan(t) ==
  /\ Kind[t] = "REPLAN"
  /\ rows[t].status = "ABSENT"
  /\ LET active == ActiveOnTrip(TripOf[t]) IN
     \/ /\ active = {}
        /\ Update(t, QueuedRow)
     \/ \E old \in active :
          /\ \A x \in active \ {old} : Kind[x] \notin PlanningKinds
          /\ rows' = [rows EXCEPT ![old] = Restatused(rows[old], "CANCELLED"),
                                  ![t] = QueuedRow]
  /\ UNCHANGED <<slots, cancelRead, announced, crashes, dbFaults>>

\* Mutant: the confirmation leaves the conversation run as it is.
AcceptPersonalAlongside(t, origin) ==
  /\ Kind[t] = "PERSONAL_RESEARCH"
  /\ rows[t].status = "ABSENT"
  /\ Kind[origin] = "CONVERSATION"
  /\ Update(t, QueuedRow)
  /\ UNCHANGED <<slots, cancelRead, announced, crashes, dbFaults>>

\* Confirming a personal research draft settles the conversation run it was
\* drafted on as COMPLETED, whatever its status, and takes the thread's slot.
AcceptPersonalResearchTask(t, origin) ==
  /\ Kind[t] = "PERSONAL_RESEARCH"
  /\ rows[t].status = "ABSENT"
  /\ Kind[origin] = "CONVERSATION"
  /\ ThreadOf[origin] = ThreadOf[t]
  /\ rows[origin].status # "ABSENT"
  /\ ActiveOnThread(ThreadOf[t]) \subseteq {origin}
  /\ rows' = [rows EXCEPT ![origin] = Restatused(rows[origin], "COMPLETED"),
                          ![t] = QueuedRow]
  /\ UNCHANGED <<slots, cancelRead, announced, crashes, dbFaults>>

\* requestAgentTaskCancellation reads the row without a lock ...
ReadForCancellation(t) ==
  /\ t \in Cancellable
  /\ cancelRead[t] = "none"
  /\ IsActive(t)
  /\ cancelRead' = [cancelRead EXCEPT ![t] = rows[t].status]
  /\ UNCHANGED <<rows, slots, announced, crashes, dbFaults>>

\* Mutant: the write does not look at the row again.
RequestCancellationUnguarded(t) ==
  /\ cancelRead[t] # "none"
  /\ cancelRead' = [cancelRead EXCEPT ![t] = "none"]
  /\ Update(t, Restatused(rows[t], "CANCEL_REQUESTED"))
  /\ UNCHANGED <<slots, announced, crashes, dbFaults>>

\* ... and writes the status it derived from that read if the row is active.
RequestCancellation(t) ==
  /\ cancelRead[t] # "none"
  /\ cancelRead' = [cancelRead EXCEPT ![t] = "none"]
  /\ IF IsActive(t)
       THEN LET next == IF cancelRead[t] = "QUEUED" THEN "CANCELLED"
                                                    ELSE "CANCEL_REQUESTED"
            IN /\ Update(t, Restatused(rows[t], next))
               /\ announced' = IF next = "CANCELLED"
                                 THEN [announced EXCEPT ![t] = "cancelled"]
                                 ELSE announced
       ELSE UNCHANGED <<rows, announced>>
  /\ UNCHANGED <<slots, crashes, dbFaults>>

\* The stale cascade of a consent, constraint or trip change on a trip that
\* has a live plan: in-flight research becomes STALE with its lease in place.
InvalidateResearch(trip) ==
  /\ RestatusAll({t \in ActiveOnTrip(trip) : Kind[t] \in ResearchKinds}, "STALE")
  /\ UNCHANGED <<slots, cancelRead, announced, crashes, dbFaults>>

-----------------------------------------------------------------------------
(* Time *)

LeaseRunsOut(t) ==
  /\ rows[t].lease = "live"
  /\ ReadWithinLease =>
       ~ \E w \in Slot : slots[w].pc = "read" /\ slots[w].run = t
  /\ Update(t, [rows[t] EXCEPT !.lease = "past"])
  /\ UNCHANGED <<slots, cancelRead, announced, crashes, dbFaults>>

TimeToLivePasses(t) ==
  /\ rows[t].status # "ABSENT"
  /\ ~ rows[t].expired
  /\ Update(t, [rows[t] EXCEPT !.expired = TRUE])
  /\ UNCHANGED <<slots, cancelRead, announced, crashes, dbFaults>>

-----------------------------------------------------------------------------
(* Worker slots: the recovery scan.  Its four statements run one after the  *)
(* other and commit separately; an outcome is announced with the statement. *)

MoveSlot(w, slot) == slots' = [slots EXCEPT ![w] = slot]
Goto(w, pc) == MoveSlot(w, [slots[w] EXCEPT !.pc = pc])
\* Mutant: a slot drops its run but stays where it is.
ForgetRun(w) == MoveSlot(w, [slots[w] EXCEPT !.run = NoTask])
GoIdle(w) == MoveSlot(w, IdleSlot)

AnnounceAll(S, event) ==
  announced' = [t \in Task |-> IF t \in S THEN event ELSE announced[t]]

Abandoned == {t \in Task : rows[t].status = "RUNNING" /\ rows[t].lease = "past"}
\* Mutant: the attempt limit is not looked at.
Unexpired == {t \in Task : ~ rows[t].expired}
Retriable == {t \in Task : rows[t].attemptCount < MaxAttempts /\ ~ rows[t].expired}

\* Mutant: lease_expires_at <= NOW() alone, which is not true of a NULL.
RecoverCancelledWithLease(w) ==
  LET due == {t \in Task : rows[t].status = "CANCEL_REQUESTED" /\ rows[t].lease = "past"}
  IN /\ slots[w].pc = "sweepCancelled"
     /\ ReleaseAll(due, "CANCELLED")
     /\ AnnounceAll(due, "cancelled")
     /\ Goto(w, "sweepExpired")
     /\ UNCHANGED <<cancelRead, crashes, dbFaults>>

RecoverCancelled(w) ==
  LET due == {t \in Task : rows[t].status = "CANCEL_REQUESTED" /\ rows[t].lease # "live"}
  IN /\ slots[w].pc = "sweepCancelled"
     /\ ReleaseAll(due, "CANCELLED")
     /\ AnnounceAll(due, "cancelled")
     /\ Goto(w, "sweepExpired")
     /\ UNCHANGED <<cancelRead, crashes, dbFaults>>

RecoverExpired(w) ==
  LET due == {t \in Task : rows[t].status = "QUEUED" /\ rows[t].expired}
  IN /\ slots[w].pc = "sweepExpired"
     /\ RestatusAll(due, "FAILED")
     /\ AnnounceAll(due, "failed")
     /\ Goto(w, "sweepExhausted")
     /\ UNCHANGED <<cancelRead, crashes, dbFaults>>

RecoverExhausted(w) ==
  LET due == Abandoned \ Retriable
  IN /\ slots[w].pc = "sweepExhausted"
     /\ ReleaseAll(due, "FAILED")
     /\ AnnounceAll(due, "failed")
     /\ Goto(w, "sweepRetrying")
     /\ UNCHANGED <<cancelRead, crashes, dbFaults>>

RecoverRetrying(w) ==
  /\ slots[w].pc = "sweepRetrying"
  /\ ReleaseAll(Abandoned \cap Retriable, "QUEUED")
  /\ Goto(w, "claimConversation")
  /\ UNCHANGED <<cancelRead, announced, crashes, dbFaults>>

-----------------------------------------------------------------------------
(* Worker slots: the claim.  It may come back empty while a row is eligible *)
(* here, because the row is locked or its retry back-off has not passed.    *)

Claimable == {t \in Retriable : rows[t].status = "QUEUED"}
Conversations == {t \in Task : Kind[t] = "CONVERSATION"}

\* Mutants: a claim that sets no lease, and one that mints no new token.
ClaimWithoutLease(w, t) ==
  /\ Update(t, [rows[t] EXCEPT !.status = "RUNNING", !.leaseToken = 1,
                               !.attemptCount = rows[t].attemptCount + 1,
                               !.generationAttempt = rows[t].generationAttempt + 1])
  /\ MoveSlot(w, [slots[w] EXCEPT !.pc = "read", !.run = t])

ClaimWithOneToken(w, t) ==
  /\ Update(t, [rows[t] EXCEPT !.status = "RUNNING", !.leaseToken = 1,
                               !.attemptCount = rows[t].attemptCount + 1,
                               !.generationAttempt = rows[t].generationAttempt + 1,
                               !.lease = "live"])
  /\ MoveSlot(w, [slots[w] EXCEPT !.pc = "read", !.run = t])

Claim(w, t) ==
  LET claim == rows[t].generationAttempt + 1
  IN /\ Update(t, [rows[t] EXCEPT !.status = "RUNNING",
                                  !.generationAttempt = claim,
                                  !.attemptCount = rows[t].attemptCount + 1,
                                  !.leaseToken = claim,
                                  !.lease = "live"])
     /\ MoveSlot(w, [slots[w] EXCEPT !.pc = "read", !.run = t])

ClaimConversation(w) ==
  /\ slots[w].pc = "claimConversation"
  /\ \/ \E t \in Claimable \cap Conversations : Claim(w, t)
     \/ /\ Goto(w, "claimPlanning")
        /\ UNCHANGED rows
  /\ UNCHANGED <<cancelRead, announced, crashes, dbFaults>>

ClaimPlanning(w) ==
  /\ slots[w].pc = "claimPlanning"
  /\ \/ \E t \in Claimable \ Conversations : Claim(w, t)
     \/ /\ GoIdle(w)
        /\ UNCHANGED rows
  /\ UNCHANGED <<cancelRead, announced, crashes, dbFaults>>

\* The claimed row is read back by a second statement: the token the slot will
\* use is the one the row holds now.  No token makes the slot throw and end.
ReadClaimed(w) ==
  /\ slots[w].pc = "read"
  /\ LET t == slots[w].run IN
     IF rows[t].leaseToken = NoToken
       THEN Goto(w, "dead")
       ELSE MoveSlot(w, [slots[w] EXCEPT
              !.pc = "work",
              !.leaseToken = rows[t].leaseToken,
              !.attemptCount = rows[t].attemptCount,
              !.left = IF Kind[t] \in PlanKinds THEN Destinations ELSE 1])
  /\ UNCHANGED <<rows, cancelRead, announced, crashes, dbFaults>>

-----------------------------------------------------------------------------
(* Worker slots: the work.  "work" spans every provider and model call up   *)
(* to the transaction that makes its result durable.                        *)

Working(w) == slots[w].pc \in {"work", "completeResearch", "caught",
                               "finishCancel", "failOrRetry"}

Holds(w) == rows[slots[w].run].leaseToken = slots[w].leaseToken
OwnsRun(w) == Holds(w) /\ rows[slots[w].run].status = "RUNNING"
Is(w, kinds) == Kind[slots[w].run] \in kinds

Catch(w, failure) ==
  MoveSlot(w, [slots[w] EXCEPT !.pc = "caught", !.failure = failure])

\* Mutant: the result is inserted and the run settled later.
CommitWithoutSettling(t, status) ==
  Update(t, [rows[t] EXCEPT !.results = rows[t].results + 1])

\* The guarded terminal write of a result.
CommitResult(t, status) ==
  Update(t, [Released(rows[t], status) EXCEPT !.results = rows[t].results + 1])

\* The renewal timer: it does not look at whether the lease has run out.  That
\* a renewal was refused is read once more, on entry to the catch block.
Renew(w) ==
  /\ \/ /\ Working(w)
        /\ OwnsRun(w)
        /\ Update(slots[w].run, [rows[slots[w].run] EXCEPT !.lease = "live"])
        /\ UNCHANGED slots
     \/ /\ slots[w].pc \in {"work", "caught"}
        /\ ~ OwnsRun(w)
        /\ MoveSlot(w, [slots[w] EXCEPT !.leaseLost = TRUE])
        /\ UNCHANGED rows
  /\ UNCHANGED <<cancelRead, announced, crashes, dbFaults>>

\* The cancellation timer, or the check before finalization, aborts the work.
ObserveRevocation(w) ==
  /\ slots[w].pc = "work"
  /\ ~ Is(w, {"PERSONAL_RESEARCH"})
  /\ ~ OwnsRun(w)
  /\ Catch(w, "PERMANENT")
  /\ UNCHANGED <<rows, cancelRead, announced, crashes, dbFaults>>

\* A provider or model error, classified as retryable or not.
WorkFails(w) ==
  /\ slots[w].pc = "work"
  /\ \E failure \in {"RETRYABLE", "PERMANENT"} :
       /\ failure = "RETRYABLE" => ~ Is(w, {"PERSONAL_RESEARCH"})
       /\ Catch(w, failure)
  /\ UNCHANGED <<rows, cancelRead, announced, crashes, dbFaults>>

\* Mutant: the completion is announced although the guarded write matched no row.
CompleteConversationLoudly(w) ==
  /\ slots[w].pc = "work"
  /\ Is(w, {"CONVERSATION"})
  /\ IF OwnsRun(w) THEN CommitResult(slots[w].run, "COMPLETED") ELSE UNCHANGED rows
  /\ Goto(w, "announce")
  /\ UNCHANGED <<cancelRead, announced, crashes, dbFaults>>

CompleteConversation(w) ==
  /\ slots[w].pc = "work"
  /\ Is(w, {"CONVERSATION"})
  /\ IF OwnsRun(w)
       THEN /\ CommitResult(slots[w].run, "COMPLETED")
            /\ Goto(w, "announce")
       ELSE /\ GoIdle(w)
            /\ UNCHANGED rows
  /\ UNCHANGED <<cancelRead, announced, crashes, dbFaults>>

\* generatePlan for one destination: a plan or a research summary, and the
\* terminal write of the run, in one transaction that also wants the lease to
\* be unexpired.  Its own rejection is an error like any other to the Worker.
GeneratePlan(w) ==
  LET t == slots[w].run
      after == CASE Kind[t] = "PROPOSE_PLAN" -> "completeResearch"
                 [] slots[w].left > 1 -> "work"
                 [] OTHER -> "announce"
  IN /\ slots[w].pc = "work"
     /\ Is(w, PlanKinds \cup {"PROPOSE_PLAN"})
     /\ IF OwnsRun(w) /\ rows[t].lease = "live"
          THEN /\ \E status \in Completed : CommitResult(t, status)
               /\ MoveSlot(w, [slots[w] EXCEPT !.pc = after, !.left = slots[w].left - 1])
          ELSE /\ Catch(w, IF OwnsRun(w) THEN "LOST_LEASE" ELSE "PERMANENT")
               /\ UNCHANGED rows
     /\ UNCHANGED <<cancelRead, announced, crashes, dbFaults>>

\* A PROPOSE_PLAN run comes here from generatePlan, which has settled the run,
\* or straight from research that found no destination to plan for.
CompleteResearch(w) ==
  /\ \/ slots[w].pc = "work" /\ Is(w, ResearchKinds)
     \/ slots[w].pc = "completeResearch"
  /\ IF OwnsRun(w)
       THEN /\ \E status \in Completed : CommitResult(slots[w].run, status)
            /\ Goto(w, "announce")
       ELSE /\ GoIdle(w)
            /\ UNCHANGED rows
  /\ UNCHANGED <<cancelRead, announced, crashes, dbFaults>>

CompletePersonalResearch(w) ==
  /\ slots[w].pc = "work"
  /\ Is(w, {"PERSONAL_RESEARCH"})
  /\ IF OwnsRun(w)
       THEN /\ \E status \in Completed : CommitResult(slots[w].run, status)
            /\ Goto(w, "announce")
       ELSE /\ GoIdle(w)
            /\ UNCHANGED rows
  /\ UNCHANGED <<cancelRead, announced, crashes, dbFaults>>

\* Mutant: the failure is written without a guard.
FailPersonalUnguarded(w) ==
  /\ slots[w].pc = "work"
  /\ Is(w, {"PERSONAL_RESEARCH"})
  /\ Update(slots[w].run, Released(rows[slots[w].run], "QUEUED"))
  /\ Goto(w, "announce")
  /\ UNCHANGED <<cancelRead, announced, crashes, dbFaults>>

\* The personal handler settles its own failures, then returns normally to the
\* Worker, which announces the turn as completed.  The attempt is counted here
\* although the claim has counted it.
FailPersonalResearch(w) ==
  LET t == slots[w].run
      attempt == slots[w].attemptCount + 1
      Failed(status) == [Released(rows[t], status) EXCEPT !.attemptCount = attempt]
  IN /\ slots[w].pc = "work"
     /\ Is(w, {"PERSONAL_RESEARCH"})
     /\ IF OwnsRun(w)
          THEN /\ \E retryable \in BOOLEAN :
                    IF retryable /\ attempt < MaxAttempts
                      THEN /\ Update(t, Failed("QUEUED"))
                           /\ UNCHANGED announced
                      ELSE /\ Update(t, Failed("FAILED"))
                           /\ announced' = [announced EXCEPT ![t] = "failed"]
               /\ Goto(w, "announce")
          ELSE /\ GoIdle(w)
               /\ UNCHANGED <<rows, announced>>
     /\ UNCHANGED <<cancelRead, crashes, dbFaults>>

Announce(w) ==
  /\ slots[w].pc = "announce"
  /\ announced' = [announced EXCEPT ![slots[w].run] = "completed"]
  /\ GoIdle(w)
  /\ UNCHANGED <<rows, cancelRead, crashes, dbFaults>>

\* The reads and writes between the commit and the announcement can fail too.
FollowUpFails(w) ==
  /\ slots[w].pc = "announce"
  /\ Catch(w, "PERMANENT")
  /\ UNCHANGED <<rows, cancelRead, announced, crashes, dbFaults>>

-----------------------------------------------------------------------------
(* Worker slots: the catch block                                            *)

\* A slot that knows its lease is gone leaves without a write.
AbandonRun(w) ==
  /\ slots[w].pc = "caught"
  /\ slots[w].leaseLost
  /\ GoIdle(w)
  /\ UNCHANGED <<rows, cancelRead, announced, crashes, dbFaults>>

CheckCancellation(w) ==
  /\ slots[w].pc = "caught"
  /\ ~ slots[w].leaseLost
  /\ Goto(w, IF OwnsRun(w) THEN "failOrRetry" ELSE "finishCancel")
  /\ UNCHANGED <<rows, cancelRead, announced, crashes, dbFaults>>

FinishCancelledTask(w) ==
  LET t == slots[w].run
  IN /\ slots[w].pc = "finishCancel"
     /\ IF Holds(w) /\ rows[t].status = "CANCEL_REQUESTED"
          THEN /\ Update(t, Released(rows[t], "CANCELLED"))
               /\ announced' = [announced EXCEPT ![t] = "cancelled"]
          ELSE UNCHANGED <<rows, announced>>
     /\ GoIdle(w)
     /\ UNCHANGED <<cancelRead, crashes, dbFaults>>

\* Decided on the attempt count the slot read, guarded by its token.
FailOrRetryTask(w) ==
  LET t == slots[w].run
      canRetry == slots[w].failure = "RETRYABLE" /\ slots[w].attemptCount < MaxAttempts
  IN /\ slots[w].pc = "failOrRetry"
     /\ IF OwnsRun(w)
          THEN /\ Update(t, Released(rows[t], IF canRetry THEN "QUEUED" ELSE "FAILED"))
               /\ announced' = IF canRetry THEN announced
                                           ELSE [announced EXCEPT ![t] = "failed"]
          ELSE UNCHANGED <<rows, announced>>
     /\ GoIdle(w)
     /\ UNCHANGED <<cancelRead, crashes, dbFaults>>

-----------------------------------------------------------------------------
(* Faults                                                                   *)

\* The process of a slot dies and is started again.
Crash(w) ==
  /\ crashes < MaxCrashes
  /\ crashes' = crashes + 1
  /\ GoIdle(w)
  /\ UNCHANGED <<rows, cancelRead, announced, dbFaults>>

\* A database error outside the try block rejects the slot's promise: main()
\* records an exit code, nothing restarts the slot and the process lives on.
DbFault(w) ==
  /\ dbFaults < MaxDbFaults
  /\ slots[w].pc \notin {"work", "completeResearch", "announce", "dead"}
  /\ dbFaults' = dbFaults + 1
  /\ Goto(w, "dead")
  /\ UNCHANGED <<rows, cancelRead, announced, crashes>>

-----------------------------------------------------------------------------
Accept(t) ==
  \/ AcceptConversationTask(t)
  \/ AcceptPlan(t)
  \/ AcceptReplan(t)
  \/ \E origin \in Task : AcceptPersonalResearchTask(t, origin)

Recover(w) ==
  \/ RecoverCancelled(w)
  \/ RecoverExpired(w)
  \/ RecoverExhausted(w)
  \/ RecoverRetrying(w)

ClaimNext(w) == ClaimConversation(w) \/ ClaimPlanning(w) \/ ReadClaimed(w)

Execute(w) ==
  \/ ObserveRevocation(w)
  \/ WorkFails(w)
  \/ CompleteConversation(w)
  \/ GeneratePlan(w)
  \/ CompleteResearch(w)
  \/ CompletePersonalResearch(w)
  \/ FailPersonalResearch(w)
  \/ Announce(w)
  \/ FollowUpFails(w)

HandleError(w) ==
  \/ AbandonRun(w)
  \/ CheckCancellation(w)
  \/ FinishCancelledTask(w)
  \/ FailOrRetryTask(w)

\* What a live slot does of its own accord.
Progress(w) == Recover(w) \/ ClaimNext(w) \/ Execute(w) \/ HandleError(w)

Next ==
  \/ \E t \in Task : \/ Accept(t)
                     \/ ReadForCancellation(t)
                     \/ RequestCancellation(t)
                     \/ LeaseRunsOut(t)
                     \/ TimeToLivePasses(t)
  \/ \E trip \in Trip : InvalidateResearch(trip)
  \/ \E w \in Slot : Progress(w) \/ Renew(w) \/ Crash(w) \/ DbFault(w)

Spec == Init /\ [][Next]_vars

\* A slot that is alive keeps taking steps (its provider and model calls have
\* deadlines), a handler that has read the row writes it, and time passes.
\* Nothing is assumed of clients, timers that renew, crashes or faults.
Fairness ==
  /\ \A w \in Slot : WF_vars(Progress(w))
  /\ \A t \in Task : /\ WF_vars(RequestCancellation(t))
                     /\ WF_vars(LeaseRunsOut(t))
                     /\ WF_vars(TimeToLivePasses(t))

FairSpec == Spec /\ Fairness

-----------------------------------------------------------------------------
(* Properties                                                               *)

Busy == {"read", "work", "completeResearch", "announce", "caught", "finishCancel",
         "failOrRetry"}

SlotsOK ==
  /\ slots \in [Slot -> SlotState]
  /\ \A w \in Slot : /\ slots[w].pc \in Busy => slots[w].run \in Task
                     /\ slots[w].pc = "work" => slots[w].left > 0

\* Rows and slots have the shape of the columns and locals they stand for.
TypeOK ==
  /\ rows \in [Task -> Row]
  /\ SlotsOK
  /\ cancelRead \in [Task -> {"none"} \cup Active]
  /\ announced \in [Task -> {"none", "completed", "failed", "cancelled"}]
  /\ crashes \in 0 .. MaxCrashes
  /\ dbFaults \in 0 .. MaxDbFaults

\* Crashes, expired leases and late slots may repeat the work of a run, never
\* its effect: at most one result is committed, and only by a completed run.
ResultAtMostOnce ==
  \A t \in Task : /\ rows[t].results <= 1
                  /\ rows[t].results = 1 => rows[t].status \in Completed

\* A run is claimed at most max_attempts times, whichever of the recovery scan,
\* the catch block or the personal handler put it back in the queue.
ClaimsBounded == \A t \in Task : rows[t].generationAttempt <= MaxAttempts

\* A row waits in the queue only in a state the claim statement accepts: no
\* token of an earlier slot, which could still write with it, and an attempt
\* left, without which no claim and no scan but expiry would ever take it.
QueuedIsClaimable ==
  \A t \in Task : rows[t].status = "QUEUED" =>
    /\ rows[t].leaseToken = NoToken
    /\ rows[t].lease = "none"
    /\ rows[t].attemptCount < MaxAttempts

\* A running row always has a token and a lease: a NULL lease would be skipped
\* by every statement of the recovery scan, and the run lost for good.
RunningHasLease ==
  \A t \in Task : rows[t].status = "RUNNING" =>
    rows[t].leaseToken # NoToken /\ rows[t].lease # "none"

\* Two slots executing the same run never hold the same token, so at most one
\* of them can pass a guard on it.
NoSharedLease ==
  \A v, w \in Slot :
    v # w /\ Working(v) /\ Working(w) /\ slots[v].run = slots[w].run
      => slots[v].leaseToken # slots[w].leaseToken

\* One trip has at most one active planning run and one thread at most one
\* active run of its own, across accepts, supersession, retries and recovery.
OneActiveRun ==
  \A s, t \in Task :
    s # t /\ IsActive(s) /\ IsActive(t) =>
      /\ ~ ({Kind[s], Kind[t]} \subseteq PlanningKinds /\ TripOf[s] = TripOf[t])
      /\ ~ ({Kind[s], Kind[t]} \subseteq ThreadKinds /\ ThreadOf[s] = ThreadOf[t])

Revoked == {"CANCEL_REQUESTED", "CANCELLED", "STALE"}

\* Once a cancellation, supersession or invalidation has committed, no slot
\* commits a result of the run or puts it back in the queue.
RevocationWins ==
  [][\A t \in Task : rows[t].status \in Revoked =>
       /\ rows'[t].results = rows[t].results
       /\ rows'[t].status \notin {"QUEUED", "RUNNING"}]_vars

\* A settled run never changes again.  It holds as long as no personal research
\* is confirmed, which settles a conversation a second time.
TerminalIsFinal ==
  [][\A t \in Task : rows[t].status \in Terminal =>
       rows'[t] = [rows[t] EXCEPT !.expired = rows'[t].expired,
                                  !.lease = rows'[t].lease]]_vars

\* The last terminal event published for a run says what its row says.
AnnouncedOutcomeIsTrue ==
  \A t \in Task :
    /\ announced[t] = "completed" => rows[t].status \in Completed
    /\ announced[t] = "failed" => rows[t].status = "FAILED"
    /\ announced[t] = "cancelled" => rows[t].status = "CANCELLED"

-----------------------------------------------------------------------------
(* The promise of TaskLifecycle.  A run has taken effect when it committed a *)
(* result, and is void when it settled without one.                         *)

Phase(t) ==
  CASE rows[t].results > 0 -> "effective"
    [] rows[t].status = "ABSENT" -> "absent"
    [] rows[t].status \in Active /\ rows[t].results = 0 -> "open"
    [] OTHER -> "void"

Lifecycle == INSTANCE TaskLifecycle
  WITH phase <- [t \in Task |-> Phase(t)],
       tries <- [t \in Task |-> rows[t].generationAttempt]

\* The queue implements the promise, and under fair scheduling its liveness.
ImplementsLifecycle == Lifecycle!Spec
ImplementsFairLifecycle == Lifecycle!FairSpec

-----------------------------------------------------------------------------
(* A statement of the repository that the code does not keep, refuted by a  *)
(* run of its own.                                                          *)

\* "Generate one PROPOSED plan per destination candidate"
\* (planning-task-handler.ts:92): a completed plan run that no slot is working
\* on has committed one result per destination.
EveryCandidateProposed ==
  \A t \in Task :
    /\ Kind[t] \in PlanKinds
    /\ rows[t].status \in Completed
    /\ \A w \in Slot : slots[w].run # t
    => rows[t].results = Destinations

=============================================================================
