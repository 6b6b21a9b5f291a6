------------------------ MODULE TripConstraintsProofs ------------------------
(***************************************************************************)
(* Proofs about the constraint proposals: a confirmed proposal has one     *)
(* fact, a batch is handed off once, what is pending can be handed off,    *)
(* a request to propose is answered by one row, and all of it implements   *)
(* ConstraintAnswers.                                                      *)
(***************************************************************************)
EXTENDS TripConstraints, TLAPS

-----------------------------------------------------------------------------
(* The inductive invariant                                                  *)

\* An open transaction is that of a confirmation or a handoff, and the rows it
\* has locked stay PENDING and its own until it ends.
LocksHold ==
  /\ \A r \in Request : sessions[r] # NoSession =>
       Asks[r].op \in {"confirm", "handoff"} /\ r \notin answered
  /\ \A r \in Request : sessions[r].step = "trip" => Asks[r].op = "handoff"
  /\ \A r \in Request : \A p \in LockedRows(r) : proposals[p] = "PENDING"
  /\ \A r, s \in Request : LockedRows(r) \cap LockedRows(s) # {} => r = s

\* A handoff confirmed what it selected, of the batch it is counted for.
HandoffsConfirmed ==
  \A b \in Batch : \A r \in handoffs[b] :
    /\ Asks[r].rows # {} /\ Asks[r].rows \subseteq Rows(b)
    /\ \A p \in Asks[r].rows : proposals[p] = "CONFIRMED"

\* Only an answered request has written a row.
WritersAnswered ==
  \A p \in Proposal : \A r \in madeBy[p] : r \in answered

IInv ==
  /\ TypeOK
  /\ ConfirmedOnce
  /\ HandoffOnce
  /\ PendingHasThread
  /\ ProposedOnce
  /\ LocksHold
  /\ HandoffsConfirmed
  /\ WritersAnswered

-----------------------------------------------------------------------------
(* Lemmas about the operators                                               *)

\* A handoff is of one batch, which its candidates name.
LEMMA BatchOfHandoff ==
  ASSUME NEW r \in Request, Asks[r].op = "handoff"
  PROVE  /\ BatchOf(r) \in Batch
         /\ Asks[r].rows \subseteq Rows(BatchOf(r))
         /\ Asks[r].rows # {}
         /\ Asks[r].rows \subseteq Proposal
BY ConstraintAssumption DEF BatchOf

LEMMA LockedAreProposals ==
  ASSUME NEW r \in Request
  PROVE  LockedRows(r) \subseteq Proposal
BY ConstraintAssumption DEF LockedRows, Rows

LEMMA OpenSession ==
  ASSUME TypeOK, NEW r \in Request, NEW S \in SUBSET Proposal, NEW latest \in Readings(S)
  PROVE  [sessions EXCEPT ![r] = [step |-> "open", latest |-> latest]]
           \in [Request -> [step : {"idle", "trip", "open"}, latest : [Proposal -> 0..MaxRevision]]]
BY DEF TypeOK, Readings

LEMMA NoSessionType ==
  NoSession \in [step : {"idle", "trip", "open"}, latest : [Proposal -> 0..MaxRevision]]
BY ConstraintAssumption DEF NoSession

-----------------------------------------------------------------------------
(* What a step does to the facts                                            *)

\* Two versions of one row.
Same(a, b) == a.source = b.source /\ a.kind = b.kind /\ a.owner = b.owner /\ a.field = b.field

\* The fact a proposal has become.
IsFactOf(row, p) ==
  /\ row.source = p /\ row.kind = "MEMBER_CONSTRAINT"
  /\ row.owner = Content[p].owner /\ row.field = Content[p].field

\* The facts of proposals stay what they are, and one is added for each of S.
FactsStep(S) ==
  /\ facts' \in [Fact -> FactRow \cup {NoFact}]
  /\ \A f \in Fact : facts[f] # NoFact /\ facts[f].source # NoProposal =>
       facts'[f] # NoFact /\ Same(facts'[f], facts[f])
  /\ \A f \in Fact : facts'[f] # NoFact /\ facts'[f].source # NoProposal =>
       \/ facts[f] # NoFact /\ Same(facts'[f], facts[f])
       \/ facts[f] = NoFact /\ \E p \in S : IsFactOf(facts'[f], p)
  /\ \A p \in S : \E f \in Fact : facts'[f] # NoFact /\ facts'[f].source = p
  /\ \A f, g \in Fact :
       (/\ facts[f] = NoFact /\ facts'[f] # NoFact /\ facts[g] = NoFact /\ facts'[g] # NoFact
        /\ facts'[f].source = facts'[g].source /\ facts'[f].source # NoProposal)
       => f = g

\* Confirming S, or nothing, keeps the facts and the proposals in step.
LEMMA Confirming ==
  ASSUME TypeOK, ConfirmedOnce, NEW S \in SUBSET Proposal, FactsStep(S),
         \A p \in S : proposals[p] # "CONFIRMED",
         \A p \in Proposal : proposals'[p] = "CONFIRMED" <=> proposals[p] = "CONFIRMED" \/ p \in S
  PROVE  ConfirmedOnce'
<1> USE DEF Same, IsFactOf
<1>1. \A p \in Proposal : p # NoProposal
  BY ConstraintAssumption
<1>2. \A f \in Fact : facts[f] # NoFact =>
        facts[f] \in FactRow /\ facts[f].source \in Proposal \cup {NoProposal}
  BY DEF TypeOK, FactRow
<1>3. \A f \in Fact : facts'[f] # NoFact =>
        facts'[f].source \in Proposal \cup {NoProposal}
  BY DEF FactsStep, FactRow
<1>a. \A f, g \in Fact : (/\ facts[f] # NoFact /\ facts[g] # NoFact /\ facts[f].source # NoProposal
                           /\ facts[f].source = facts[g].source) => f = g
  BY DEF ConfirmedOnce
<1>4. ASSUME NEW p \in Proposal
      PROVE  proposals'[p] = "CONFIRMED" <=>
               \E f \in Fact : facts'[f] # NoFact /\ facts'[f].source = p
  <2>1. CASE p \in S
    BY <2>1 DEF FactsStep
  <2>2. CASE p \notin S
    <3>1. (\E f \in Fact : facts[f] # NoFact /\ facts[f].source = p) =>
          (\E f \in Fact : facts'[f] # NoFact /\ facts'[f].source = p)
      BY <1>1 DEF FactsStep
    <3>2. (\E f \in Fact : facts'[f] # NoFact /\ facts'[f].source = p) =>
          (\E f \in Fact : facts[f] # NoFact /\ facts[f].source = p)
      BY <1>1, <2>2 DEF FactsStep
    <3> QED
      BY <2>2, <3>1, <3>2 DEF ConfirmedOnce
  <2> QED
    BY <2>1, <2>2
<1>5. ASSUME NEW f \in Fact, NEW g \in Fact, facts'[f] # NoFact, facts'[g] # NoFact,
             facts'[f].source = facts'[g].source, facts'[f].source # NoProposal
      PROVE  f = g
  <2>1. CASE facts[f] # NoFact /\ facts[g] # NoFact
    <3>1. Same(facts'[f], facts[f]) /\ Same(facts'[g], facts[g])
      BY <1>5, <2>1 DEF FactsStep
    <3> QED
      BY <1>5, <1>a, <2>1, <3>1
  <2>2. CASE facts[f] = NoFact /\ facts[g] = NoFact
    BY <1>5, <2>2 DEF FactsStep
  <2>3. ASSUME NEW x \in Fact, NEW y \in Fact, facts[x] # NoFact, facts[y] = NoFact,
               facts'[x] # NoFact, facts'[y] # NoFact, facts'[x].source # NoProposal,
               facts'[x].source = facts'[y].source
        PROVE  FALSE
    <3>1. PICK p \in S : IsFactOf(facts'[y], p)
      BY <2>3 DEF FactsStep
    <3>2. Same(facts'[x], facts[x])
      BY <2>3 DEF FactsStep
    <3>3. proposals[p] = "CONFIRMED"
      BY <2>3, <3>1, <3>2 DEF ConfirmedOnce
    <3> QED
      BY <3>3
  <2> QED
    BY <1>5, <2>1, <2>2, <2>3
<1>6. ASSUME NEW f \in Fact, facts'[f] # NoFact, NEW p \in Proposal, facts'[f].source = p
      PROVE  IsFactOf(facts'[f], p)
  <2>1. CASE facts[f] # NoFact /\ Same(facts'[f], facts[f])
    BY <1>6, <2>1 DEF ConfirmedOnce
  <2>2. CASE \E q \in S : IsFactOf(facts'[f], q)
    BY <1>6, <2>2
  <2> QED
    BY <1>1, <1>6, <2>1, <2>2 DEF FactsStep
<1> QED
  BY <1>4, <1>5, <1>6 DEF ConfirmedOnce

\* A step that leaves the facts alone.
LEMMA SameFacts ==
  ASSUME TypeOK, facts' = facts
  PROVE  FactsStep({})
BY DEF FactsStep, TypeOK, Same

\* Superseding and revoking change a status only.
LEMMA RetiredRows ==
  ASSUME TypeOK, NEW F \in SUBSET {f \in Fact : facts[f] # NoFact},
         NEW status \in {"ACTIVE", "SUPERSEDED", "REVOKED"}
  PROVE  /\ Retired(F, status) \in [Fact -> FactRow \cup {NoFact}]
         /\ \A f \in Fact : /\ facts[f] = NoFact => Retired(F, status)[f] = NoFact
                            /\ facts[f] # NoFact => /\ Retired(F, status)[f] # NoFact
                                                    /\ Same(Retired(F, status)[f], facts[f])
<1>1. ASSUME NEW f \in Fact, facts[f] # NoFact
      PROVE  /\ [facts[f] EXCEPT !.status = status] \in FactRow
             /\ Same([facts[f] EXCEPT !.status = status], facts[f])
  BY <1>1 DEF TypeOK, FactRow, Same
<1>2. NoFact \notin FactRow
  BY ConstraintAssumption
<1> QED
  BY <1>1, <1>2 DEF TypeOK, Retired, Same

LEMMA WriteFactsStep ==
  ASSUME TypeOK, NEW S \in SUBSET Proposal, NEW latest \in [Proposal -> 0..MaxRevision],
         WriteFacts(S, latest)
  PROVE  FactsStep(S)
<1> DEFINE superseded == UNION {ActiveOf(Content[p].owner, Content[p].field) :
                                  p \in {q \in S : latest[q] # 0}}
           fresh == {f \in Fact : facts[f] = NoFact}
           made(p) == [kind |-> "MEMBER_CONSTRAINT", owner |-> Content[p].owner,
                       field |-> Content[p].field, status |-> "ACTIVE",
                       revision |-> latest[p] + 1, source |-> p]
<1>1. PICK id \in [S -> fresh] :
        /\ \A p, q \in S : id[p] = id[q] => p = q
        /\ \A p \in S : latest[p] < MaxRevision
        /\ facts' = [f \in Fact |-> IF \E p \in S : f = id[p]
                                      THEN made(CHOOSE q \in S : f = id[q])
                                      ELSE Retired(superseded, "SUPERSEDED")[f]]
  BY DEF WriteFacts
<1>2. superseded \in SUBSET {f \in Fact : facts[f] # NoFact}
  BY DEF ActiveOf, IsActive
<1>3. /\ Retired(superseded, "SUPERSEDED") \in [Fact -> FactRow \cup {NoFact}]
      /\ \A f \in Fact : /\ facts[f] = NoFact => Retired(superseded, "SUPERSEDED")[f] = NoFact
                         /\ facts[f] # NoFact =>
                              /\ Retired(superseded, "SUPERSEDED")[f] # NoFact
                              /\ Same(Retired(superseded, "SUPERSEDED")[f], facts[f])
  BY <1>2, RetiredRows
<1> HIDE DEF superseded
<1>4. \A p \in S : made(p) \in FactRow /\ IsFactOf(made(p), p)
  <2> TAKE p \in S
  <2>1. Content[p].owner \in Member /\ Content[p].field \in Field
    BY ConstraintAssumption
  <2>2. latest[p] + 1 \in 1..MaxRevision
    BY <1>1, ConstraintAssumption
  <2> QED
    BY <2>1, <2>2 DEF FactRow, IsFactOf
<1>5. NoFact \notin FactRow /\ NoProposal \notin Proposal
  BY ConstraintAssumption
<1> HIDE DEF made
<1>6. \A p \in S : id[p] \in Fact /\ facts[id[p]] = NoFact /\ facts'[id[p]] = made(p)
  <2> TAKE p \in S
  <2>1. id[p] \in fresh
    OBVIOUS
  <2>2. (CHOOSE q \in S : id[p] = id[q]) = p
    BY <1>1
  <2> QED
    BY <1>1, <2>1, <2>2
<1>7. \A f \in Fact : (\A p \in S : f # id[p]) => facts'[f] = Retired(superseded, "SUPERSEDED")[f]
  BY <1>1
<1>8. facts' \in [Fact -> FactRow \cup {NoFact}]
  <2>1. \A f \in Fact : facts'[f] \in FactRow \cup {NoFact}
    BY <1>3, <1>4, <1>6, <1>7
  <2>2. facts' = [f \in Fact |-> facts'[f]]
    BY <1>1
  <2> QED
    BY <2>1, <2>2
<1>9. \A f \in Fact : facts[f] # NoFact => facts'[f] # NoFact /\ Same(facts'[f], facts[f])
  BY <1>3, <1>6, <1>7
<1>10. \A f \in Fact : facts[f] = NoFact /\ facts'[f] # NoFact =>
         \E p \in S : f = id[p] /\ facts'[f] = made(p)
  BY <1>3, <1>6, <1>7
<1>11. \A p \in S : facts'[id[p]] # NoFact /\ IsFactOf(facts'[id[p]], p)
  BY <1>4, <1>5, <1>6
<1>12. \A f \in Fact : facts'[f] # NoFact =>
         \/ facts[f] # NoFact /\ Same(facts'[f], facts[f])
         \/ facts[f] = NoFact /\ \E p \in S : IsFactOf(facts'[f], p)
  BY <1>9, <1>10, <1>4
<1>13. \A f, g \in Fact :
         (/\ facts[f] = NoFact /\ facts'[f] # NoFact /\ facts[g] = NoFact /\ facts'[g] # NoFact
          /\ facts'[f].source = facts'[g].source)
         => f = g
  BY <1>4, <1>10 DEF IsFactOf
<1>14. \A p \in S : \E f \in Fact : facts'[f] # NoFact /\ facts'[f].source = p
  BY <1>6, <1>11 DEF IsFactOf
<1> QED
  BY <1>8, <1>9, <1>12, <1>13, <1>14 DEF FactsStep

\* A new version that no proposal stands for.
LEMMA ReplaceStep ==
  ASSUME TypeOK, NEW F \in SUBSET {f \in Fact : facts[f] # NoFact}, NEW f \in Fact, NEW row,
         row \in FactRow, row.source = NoProposal, Replace(F, f, row)
  PROVE  FactsStep({})
<1>1. /\ Retired(F, "SUPERSEDED") \in [Fact -> FactRow \cup {NoFact}]
      /\ \A x \in Fact : /\ facts[x] = NoFact => Retired(F, "SUPERSEDED")[x] = NoFact
                         /\ facts[x] # NoFact => /\ Retired(F, "SUPERSEDED")[x] # NoFact
                                                 /\ Same(Retired(F, "SUPERSEDED")[x], facts[x])
  BY RetiredRows
<1>2. facts[f] = NoFact /\ facts' = [Retired(F, "SUPERSEDED") EXCEPT ![f] = row]
  BY DEF Replace
<1>3. /\ facts' \in [Fact -> FactRow \cup {NoFact}]
      /\ facts'[f] = row
      /\ \A x \in Fact \ {f} : facts'[x] = Retired(F, "SUPERSEDED")[x]
  BY <1>1, <1>2
<1>4. \A x \in Fact : facts[x] # NoFact => facts'[x] # NoFact /\ Same(facts'[x], facts[x])
  BY <1>1, <1>2, <1>3
<1>5. \A x \in Fact : facts[x] = NoFact /\ facts'[x] # NoFact => facts'[x].source = NoProposal
  BY <1>1, <1>3
<1> QED
  BY <1>3, <1>4, <1>5 DEF FactsStep

LEMMA UpsertStep ==
  ASSUME TypeOK, NEW old \in Fact, NEW f \in Fact, Upsert(old, f)
  PROVE  FactsStep({})
<1> DEFINE row == [kind |-> "MEMBER_CONSTRAINT", owner |-> facts[old].owner,
                   field |-> facts[old].field, status |-> "ACTIVE",
                   revision |-> facts[old].revision + 1, source |-> NoProposal]
<1>1. facts[old] # NoFact /\ Replace({old}, f, row)
  BY DEF Upsert, IsActive
<1>2. facts[old] \in FactRow
  BY <1>1 DEF TypeOK
<1>3. facts[old].revision + 1 \in 1..MaxRevision
  BY <1>1, <1>2, ConstraintAssumption DEF Replace, FactRow
<1>4. row \in FactRow
  BY <1>2, <1>3 DEF FactRow
<1> QED
  BY <1>1, <1>4, ReplaceStep

LEMMA SaveStep ==
  ASSUME TypeOK, NEW kind \in MemoryKind, NEW m \in Member, NEW field \in MemoryField,
         NEW f \in Fact, Save(kind, m, field, f)
  PROVE  FactsStep({})
<1> DEFINE previous == {x \in Fact : IsActive(x) /\ InScope(x, kind, m, field)}
<1>1. PICK revision \in 1..MaxRevision :
        Replace(previous, f, [kind |-> kind, owner |-> m, field |-> field,
                              status |-> "ACTIVE", revision |-> revision,
                              source |-> NoProposal])
  BY DEF Save
<1>2. previous \in SUBSET {x \in Fact : facts[x] # NoFact}
  BY DEF IsActive
<1>3. [kind |-> kind, owner |-> m, field |-> field, status |-> "ACTIVE",
       revision |-> revision, source |-> NoProposal] \in FactRow
  BY ConstraintAssumption DEF FactRow
<1> QED
  BY <1>1, <1>2, <1>3, ReplaceStep

LEMMA RevokeStep ==
  ASSUME TypeOK, NEW f \in Fact, Revoke(f)
  PROVE  FactsStep({})
<1>1. {f} \in SUBSET {x \in Fact : facts[x] # NoFact} /\ facts' = Retired({f}, "REVOKED")
  BY DEF Revoke, IsActive
<1> QED
  BY <1>1, RetiredRows DEF FactsStep

\* Only facts that come from no proposal are deleted.
LEMMA DeleteStep ==
  ASSUME TypeOK, ConfirmedOnce, NEW f \in Fact, NEW m \in Member, DeleteMemory(f, m)
  PROVE  FactsStep({})
<1>1. \A x \in Fact : facts[x] # NoFact /\ facts[x].kind \in MemoryKind =>
                        facts[x].source = NoProposal
  BY DEF TypeOK, FactRow, ConfirmedOnce, MemoryKind
<1>2. \A x \in Fact : InScope(x, facts[f].kind, m, facts[f].field) =>
                        facts[x] # NoFact /\ facts[x].kind \in MemoryKind
  BY DEF InScope, DeleteMemory
<1>3. facts' = [x \in Fact |-> IF InScope(x, facts[f].kind, m, facts[f].field)
                                 THEN NoFact ELSE facts[x]]
  BY DEF DeleteMemory
<1> QED
  BY <1>1, <1>2, <1>3 DEF FactsStep, TypeOK, Same

-----------------------------------------------------------------------------
(* Locks                                                                    *)

\* A session that ends releases its rows.
LEMMA NothingLocked ==
  ASSUME NEW r \in Request, sessions'[r] = NoSession
  PROVE  LockedRows(r)' = {}
BY DEF LockedRows, NoSession

\* A step that changes no session, no locked row, and answers only requests
\* without a session.
LEMMA LocksUndisturbed ==
  ASSUME LocksHold, UNCHANGED sessions,
         \A p \in Proposal : proposals'[p] = proposals[p] \/ ~Locked(p),
         \A r \in Request : r \in answered' => r \in answered \/ sessions[r] = NoSession
  PROVE  LocksHold'
<1>1. \A r \in Request : LockedRows(r)' = LockedRows(r)
  BY DEF LockedRows
<1>2. \A r \in Request : \A p \in LockedRows(r) : p \in Proposal /\ proposals'[p] = proposals[p]
  BY LockedAreProposals DEF Locked
<1> QED
  BY <1>1, <1>2 DEF LocksHold

\* A step that ends a session, and confirms its rows or none.
LEMMA LocksReleased ==
  ASSUME TypeOK, LocksHold, NEW r \in Request, sessions' = [sessions EXCEPT ![r] = NoSession],
         \A p \in Proposal : proposals'[p] = proposals[p] \/ p \in LockedRows(r),
         answered' \subseteq answered \cup {r}
  PROVE  LocksHold'
<1>1. sessions'[r] = NoSession /\ \A s \in Request \ {r} : sessions'[s] = sessions[s]
  BY DEF TypeOK
<1>2. LockedRows(r)' = {} /\ \A s \in Request \ {r} : LockedRows(s)' = LockedRows(s)
  BY <1>1, NothingLocked DEF LockedRows
<1>3. \A s \in Request \ {r} : \A p \in LockedRows(s) : p \in Proposal /\ proposals'[p] = proposals[p]
  BY LockedAreProposals DEF LocksHold
<1>4. sessions'[r].step # "trip"
  BY <1>1 DEF NoSession
<1> QED
  BY <1>1, <1>2, <1>3, <1>4 DEF LocksHold

\* A step that opens a session on rows that are pending and free.
LEMMA LocksTaken ==
  ASSUME TypeOK, LocksHold, NEW r \in Request, NEW latest, r \notin answered,
         Asks[r].op \in {"confirm", "handoff"},
         sessions' = [sessions EXCEPT ![r] = [step |-> "open", latest |-> latest]],
         UNCHANGED <<proposals, answered>>,
         \A p \in LockedRows(r)' : proposals[p] = "PENDING" /\ ~Locked(p)
  PROVE  LocksHold'
<1>1. /\ sessions'[r] = [step |-> "open", latest |-> latest]
      /\ \A s \in Request \ {r} : sessions'[s] = sessions[s]
  BY DEF TypeOK
<1>2. \A s \in Request \ {r} : LockedRows(s)' = LockedRows(s)
  BY <1>1 DEF LockedRows
<1>3. \A s \in Request \ {r} : LockedRows(r)' \cap LockedRows(s)' = {}
  BY <1>2 DEF Locked
<1>4. \A s \in Request : sessions'[s] # NoSession =>
        Asks[s].op \in {"confirm", "handoff"} /\ s \notin answered'
  BY <1>1 DEF LocksHold
<1>5. \A s \in Request : sessions'[s].step = "trip" => Asks[s].op = "handoff"
  BY <1>1 DEF LocksHold
<1>6. \A s \in Request : \A p \in LockedRows(s)' : proposals'[p] = "PENDING"
  BY <1>1, <1>2 DEF LocksHold
<1>7. \A s, x \in Request : LockedRows(s)' \cap LockedRows(x)' # {} => s = x
  BY <1>2, <1>3 DEF LocksHold
<1> QED
  BY <1>4, <1>5, <1>6, <1>7 DEF LocksHold

-----------------------------------------------------------------------------
(* Initial states and steps                                                 *)

LEMMA InvInit == Init => IInv
<1> SUFFICES ASSUME Init PROVE IInv
  OBVIOUS
<1> USE DEF Init
<1>1. TypeOK
  BY NoSessionType DEF TypeOK
<1>2. ConfirmedOnce /\ PendingHasThread /\ ProposedOnce
  BY ConstraintAssumption DEF ConfirmedOnce, PendingHasThread, ProposedOnce, Rows
<1>3. \A r \in Request : LockedRows(r) = {}
  BY DEF LockedRows, NoSession
<1>4. LocksHold
  BY <1>3 DEF LocksHold, NoSession
<1>5. HandoffsConfirmed /\ HandoffOnce /\ WritersAnswered
  BY DEF HandoffsConfirmed, HandoffOnce, WritersAnswered
<1> QED
  BY <1>1, <1>2, <1>4, <1>5 DEF IInv

\* A step on the facts alone, and a stutter.
LEMMA FactsInv ==
  ASSUME IInv, FactsStep({}),
         UNCHANGED <<proposals, madeBy, threads, sessions, answered, handoffs>>
  PROVE  IInv'
<1> USE DEF IInv
<1>1. TypeOK'
  BY DEF TypeOK, FactsStep
<1>2. ConfirmedOnce'
  <2>1. {} \in SUBSET Proposal
    OBVIOUS
  <2> QED
    BY <2>1, Confirming
<1>3. PendingHasThread' /\ ProposedOnce'
  BY DEF PendingHasThread, ProposedOnce
<1>4. LocksHold'
  BY LocksUndisturbed
<1>5. HandoffsConfirmed' /\ HandoffOnce' /\ WritersAnswered'
  BY DEF HandoffsConfirmed, HandoffOnce, WritersAnswered
<1> QED
  BY <1>1, <1>2, <1>3, <1>4, <1>5

\* A step that leaves the facts, and what is confirmed.
LEMMA ConfirmedKept ==
  ASSUME IInv, facts' = facts,
         \A p \in Proposal : proposals'[p] = "CONFIRMED" <=> proposals[p] = "CONFIRMED"
  PROVE  ConfirmedOnce'
<1>1. FactsStep({}) /\ {} \in SUBSET Proposal
  BY SameFacts DEF IInv
<1> QED
  BY <1>1, Confirming DEF IInv

LEMMA HandoffsKept ==
  ASSUME IInv, handoffs' = handoffs,
         \A p \in Proposal : proposals[p] = "CONFIRMED" => proposals'[p] = "CONFIRMED"
  PROVE  HandoffsConfirmed' /\ HandoffOnce'
BY DEF IInv, HandoffsConfirmed, HandoffOnce, Rows

LEMMA InsertProposalInv ==
  ASSUME IInv, NEW r \in Request, NEW p \in Proposal, InsertProposal(r, p)
  PROVE  IInv'
<1> USE DEF InsertProposal, Claims
<1>1. TypeOK'
  BY DEF IInv, TypeOK
<1>2. /\ proposals'[p] = "PENDING" /\ \A q \in Proposal \ {p} : proposals'[q] = proposals[q]
      /\ madeBy'[p] = {r} /\ \A q \in Proposal \ {p} : madeBy'[q] = madeBy[q]
  BY DEF IInv, TypeOK
<1>3. ConfirmedOnce'
  BY <1>2, ConfirmedKept
<1>4. PendingHasThread'
  <2>1. \A b \in Batch : p \notin Rows(b)
    BY ConstraintAssumption DEF Rows
  <2>2. \A b \in Batch : Rows(b) \subseteq Proposal
    BY DEF Rows
  <2> QED
    BY <1>2, <2>1, <2>2 DEF IInv, PendingHasThread
<1>5. ProposedOnce' /\ WritersAnswered'
  BY <1>2 DEF IInv, ProposedOnce, WritersAnswered
<1>6. LocksHold'
  <2>1. ~Locked(p)
    BY DEF IInv, LocksHold, Locked
  <2> QED
    BY <1>2, <2>1, LocksUndisturbed DEF IInv
<1>7. HandoffsConfirmed' /\ HandoffOnce'
  BY <1>2, HandoffsKept
<1> QED
  BY <1>1, <1>3, <1>4, <1>5, <1>6, <1>7 DEF IInv

LEMMA FindProposalInv ==
  ASSUME IInv, NEW r \in Request, FindProposal(r)
  PROVE  IInv'
<1> USE DEF FindProposal, Claims
<1>1. TypeOK' /\ PendingHasThread' /\ ProposedOnce' /\ WritersAnswered'
  BY DEF IInv, TypeOK, PendingHasThread, ProposedOnce, WritersAnswered
<1>2. ConfirmedOnce' /\ HandoffsConfirmed' /\ HandoffOnce'
  BY ConfirmedKept, HandoffsKept
<1>3. LocksHold'
  BY LocksUndisturbed DEF IInv
<1> QED
  BY <1>1, <1>2, <1>3 DEF IInv

LEMMA PersistBatchInv ==
  ASSUME IInv, NEW b \in Batch, PersistBatch(b)
  PROVE  IInv'
<1> USE DEF PersistBatch
<1>1. TypeOK'
  BY DEF IInv, TypeOK
<1>2. \A p \in Proposal : proposals'[p] = IF p \in Rows(b) THEN "PENDING" ELSE proposals[p]
  OBVIOUS
<1>3. ConfirmedOnce' /\ HandoffsConfirmed' /\ HandoffOnce'
  BY <1>2, ConfirmedKept, HandoffsKept
<1>4. PendingHasThread'
  BY <1>2 DEF IInv, PendingHasThread, Rows
<1>5. ProposedOnce' /\ WritersAnswered'
  BY DEF IInv, ProposedOnce, WritersAnswered
<1>6. LocksHold'
  <2>1. \A p \in Rows(b) : ~Locked(p)
    BY DEF IInv, LocksHold, Locked
  <2> QED
    BY <1>2, <2>1, LocksUndisturbed DEF IInv
<1> QED
  BY <1>1, <1>3, <1>4, <1>5, <1>6 DEF IInv

LEMMA DismissInv ==
  ASSUME IInv, NEW r \in Request, NEW p \in Proposal, Dismiss(r, p)
  PROVE  IInv'
<1> USE DEF Dismiss, Claims
<1>1. TypeOK'
  BY DEF IInv, TypeOK
<1>2. proposals'[p] = "DISMISSED" /\ \A q \in Proposal \ {p} : proposals'[q] = proposals[q]
  BY DEF IInv, TypeOK
<1>3. ConfirmedOnce' /\ HandoffsConfirmed' /\ HandoffOnce'
  BY <1>2, ConfirmedKept, HandoffsKept
<1>4. PendingHasThread'
  BY <1>2 DEF IInv, PendingHasThread, Rows
<1>5. ProposedOnce' /\ WritersAnswered'
  BY DEF IInv, ProposedOnce, WritersAnswered
<1>6. LocksHold'
  BY <1>2, LocksUndisturbed DEF IInv
<1> QED
  BY <1>1, <1>3, <1>4, <1>5, <1>6 DEF IInv

LEMMA DeleteThreadInv ==
  ASSUME IInv, NEW t \in Thread, DeleteThread(t)
  PROVE  IInv'
<1> DEFINE pending == {p \in Proposal : \E b \in Batch : /\ ThreadOf[b] = t /\ p \in Rows(b)
                                                         /\ proposals[p] = "PENDING"}
<1>1. /\ \A p \in pending : ~Locked(p)
      /\ proposals' = [p \in Proposal |-> IF p \in pending THEN "DISMISSED" ELSE proposals[p]]
      /\ threads' = threads \ {t}
      /\ UNCHANGED <<madeBy, facts, sessions, answered, handoffs>>
  BY DEF DeleteThread
<1>2. TypeOK'
  BY <1>1 DEF IInv, TypeOK
<1>3. ConfirmedOnce' /\ HandoffsConfirmed' /\ HandoffOnce'
  <2>1. \A p \in Proposal : proposals'[p] = "CONFIRMED" <=> proposals[p] = "CONFIRMED"
    BY <1>1
  <2> QED
    BY <1>1, <2>1, ConfirmedKept, HandoffsKept
<1>4. PendingHasThread'
  BY <1>1 DEF IInv, PendingHasThread, Rows
<1>5. ProposedOnce' /\ WritersAnswered'
  BY <1>1 DEF IInv, ProposedOnce, WritersAnswered
<1>6. LocksHold'
  BY <1>1, LocksUndisturbed DEF IInv
<1> QED
  BY <1>2, <1>3, <1>4, <1>5, <1>6 DEF IInv

LEMMA LockProposalInv ==
  ASSUME IInv, NEW r \in Request, NEW p \in Proposal, LockProposal(r, p)
  PROVE  IInv'
<1> USE DEF LockProposal, Claims
<1>1. PICK latest \in Readings({p}) :
        sessions' = [sessions EXCEPT ![r] = [step |-> "open", latest |-> latest]]
  OBVIOUS
<1>2. sessions' \in [Request -> [step : {"idle", "trip", "open"},
                                 latest : [Proposal -> 0..MaxRevision]]]
  BY <1>1, OpenSession DEF IInv
<1>3. TypeOK'
  BY <1>2 DEF IInv, TypeOK
<1>4. ConfirmedOnce' /\ HandoffsConfirmed' /\ HandoffOnce'
  BY ConfirmedKept, HandoffsKept
<1>5. PendingHasThread' /\ ProposedOnce' /\ WritersAnswered'
  BY DEF IInv, PendingHasThread, ProposedOnce, WritersAnswered
<1>6. LocksHold'
  <2>1. LockedRows(r)' = {p}
    BY <1>1 DEF IInv, TypeOK, LockedRows
  <2> QED
    BY <1>1, <2>1, LocksTaken DEF IInv
<1> QED
  BY <1>3, <1>4, <1>5, <1>6 DEF IInv

LEMMA ConfirmInv ==
  ASSUME IInv, NEW r \in Request, Confirm(r)
  PROVE  IInv'
<1> USE DEF Confirm
<1>1. LockedRows(r) = Asks[r].rows /\ \A p \in Asks[r].rows : proposals[p] = "PENDING"
  BY DEF IInv, LocksHold, LockedRows
<1>2. Asks[r].rows \in SUBSET Proposal /\ sessions[r].latest \in [Proposal -> 0..MaxRevision]
  BY ConstraintAssumption DEF IInv, TypeOK
<1>3. FactsStep(Asks[r].rows)
  BY <1>2, WriteFactsStep DEF IInv
<1>4. \A p \in Proposal : proposals'[p] = IF p \in Asks[r].rows THEN "CONFIRMED" ELSE proposals[p]
  OBVIOUS
<1>5. TypeOK'
  BY <1>3, NoSessionType DEF IInv, TypeOK, FactsStep
<1>6. ConfirmedOnce'
  BY <1>1, <1>2, <1>3, <1>4, Confirming DEF IInv
<1>7. HandoffsConfirmed' /\ HandoffOnce'
  BY <1>4, HandoffsKept
<1>8. PendingHasThread' /\ ProposedOnce' /\ WritersAnswered'
  BY <1>4 DEF IInv, PendingHasThread, ProposedOnce, WritersAnswered, Rows
<1>9. LocksHold'
  BY <1>1, <1>4, LocksReleased DEF IInv
<1> QED
  BY <1>5, <1>6, <1>7, <1>8, <1>9 DEF IInv

LEMMA LockTripInv ==
  ASSUME IInv, NEW r \in Request, LockTrip(r)
  PROVE  IInv'
<1> USE DEF LockTrip, Claims
<1>1. /\ sessions'[r] = [NoSession EXCEPT !.step = "trip"]
      /\ \A s \in Request \ {r} : sessions'[s] = sessions[s]
  BY DEF IInv, TypeOK
<1>2. TypeOK'
  BY DEF IInv, TypeOK
<1>3. ConfirmedOnce' /\ HandoffsConfirmed' /\ HandoffOnce'
  BY ConfirmedKept, HandoffsKept
<1>4. PendingHasThread' /\ ProposedOnce' /\ WritersAnswered'
  BY DEF IInv, PendingHasThread, ProposedOnce, WritersAnswered
<1>5. LocksHold'
  <2>1. sessions'[r].step = "trip"
    BY <1>1 DEF NoSession
  <2>2. LockedRows(r)' = {} /\ \A s \in Request \ {r} : LockedRows(s)' = LockedRows(s)
    BY <1>1, <2>1 DEF LockedRows
  <2> QED
    BY <1>1, <2>1, <2>2 DEF IInv, LocksHold
<1> QED
  BY <1>2, <1>3, <1>4, <1>5 DEF IInv

LEMMA LockBatchInv ==
  ASSUME IInv, NEW r \in Request, LockBatch(r)
  PROVE  IInv'
<1>1. /\ Asks[r].op = "handoff" /\ sessions[r].step = "trip"
      /\ \A p \in Rows(BatchOf(r)) : proposals[p] = "PENDING" /\ ~Locked(p)
      /\ UNCHANGED <<proposals, madeBy, threads, facts, answered, handoffs>>
  BY DEF LockBatch
<1>2. PICK latest \in Readings(Asks[r].rows) :
        sessions' = [sessions EXCEPT ![r] = [step |-> "open", latest |-> latest]]
  BY DEF LockBatch
<1>3. Asks[r].rows \in SUBSET Proposal
  BY ConstraintAssumption
<1>4. TypeOK'
  BY <1>1, <1>2, <1>3, OpenSession DEF IInv, TypeOK
<1>5. ConfirmedOnce' /\ HandoffsConfirmed' /\ HandoffOnce'
  BY <1>1, ConfirmedKept, HandoffsKept
<1>6. PendingHasThread' /\ ProposedOnce' /\ WritersAnswered'
  BY <1>1 DEF IInv, PendingHasThread, ProposedOnce, WritersAnswered
<1>7. LocksHold'
  <2>1. LockedRows(r)' = Rows(BatchOf(r))
    BY <1>1, <1>2 DEF IInv, TypeOK, LockedRows, Rows, BatchOf
  <2>2. r \notin answered
    BY <1>1 DEF IInv, LocksHold, NoSession
  <2> QED
    BY <1>1, <1>2, <2>1, <2>2, LocksTaken DEF IInv
<1> QED
  BY <1>4, <1>5, <1>6, <1>7 DEF IInv

\* No handoff of the batch was accepted before: it would have confirmed a row of
\* the batch, and all of them are locked and pending.
LEMMA HandoffInv ==
  ASSUME IInv, NEW r \in Request, Handoff(r)
  PROVE  IInv'
<1> DEFINE b == BatchOf(r)
<1> USE DEF Handoff
<1>1. b \in Batch /\ Asks[r].rows \subseteq Rows(b) /\ Asks[r].rows # {}
      /\ Asks[r].rows \in SUBSET Proposal
  BY BatchOfHandoff
<1>2. LockedRows(r) = Rows(b) /\ \A p \in Rows(b) : proposals[p] = "PENDING"
  BY DEF IInv, LocksHold, LockedRows
<1>3. FactsStep(Asks[r].rows)
  BY <1>1, WriteFactsStep DEF IInv, TypeOK
<1> HIDE DEF b
<1>4. \A p \in Proposal : proposals'[p] = IF p \in Asks[r].rows THEN "CONFIRMED" ELSE proposals[p]
  OBVIOUS
<1>5. handoffs' = [handoffs EXCEPT ![b] = handoffs[b] \cup {r}]
  BY DEF b
<1>6. TypeOK'
  <2>1. proposals' \in [Proposal -> {"none", "PENDING", "CONFIRMED", "DISMISSED"}]
    BY DEF IInv, TypeOK
  <2>2. handoffs' \in [Batch -> SUBSET Request]
    <3>1. handoffs \in [Batch -> SUBSET Request]
      BY DEF IInv, TypeOK
    <3>2. handoffs[b] \cup {r} \in SUBSET Request
      BY <1>1, <3>1
    <3> HIDE DEF Handoff
    <3> QED
      BY <1>1, <1>5, <3>1, <3>2
  <2>3. sessions' \in [Request -> [step : {"idle", "trip", "open"},
                                    latest : [Proposal -> 0..MaxRevision]]]
    BY NoSessionType DEF IInv, TypeOK
  <2> QED
    BY <1>3, <2>1, <2>2, <2>3 DEF IInv, TypeOK, FactsStep
<1>7. ConfirmedOnce'
  BY <1>1, <1>2, <1>3, <1>4, Confirming DEF IInv
<1>8. handoffs[b] = {}
  BY <1>1, <1>2 DEF IInv, HandoffsConfirmed
<1>9. handoffs'[b] = {r} /\ \A c \in Batch \ {b} : handoffs'[c] = handoffs[c]
  BY <1>1, <1>5, <1>8 DEF IInv, TypeOK
<1>10. HandoffOnce'
  BY <1>9 DEF IInv, HandoffOnce
<1>11. HandoffsConfirmed'
  <2> SUFFICES ASSUME NEW c \in Batch, NEW s \in handoffs'[c]
               PROVE  /\ Asks[s].rows # {} /\ Asks[s].rows \subseteq Rows(c)
                      /\ \A p \in Asks[s].rows : proposals'[p] = "CONFIRMED"
    BY DEF HandoffsConfirmed, Rows
  <2>1. CASE c = b
    BY <1>1, <1>4, <1>9, <2>1
  <2>2. CASE c # b
    BY <1>4, <1>9, <2>2 DEF IInv, HandoffsConfirmed, Rows
  <2> QED
    BY <2>1, <2>2
<1>12. PendingHasThread' /\ ProposedOnce' /\ WritersAnswered'
  BY <1>4 DEF IInv, PendingHasThread, ProposedOnce, WritersAnswered, Rows
<1>13. LocksHold'
  BY <1>1, <1>2, <1>4, LocksReleased DEF IInv
<1> QED
  BY <1>6, <1>7, <1>10, <1>11, <1>12, <1>13 DEF IInv

LEMMA GiveUpInv ==
  ASSUME IInv, NEW r \in Request, GiveUp(r)
  PROVE  IInv'
<1> USE DEF GiveUp
<1>1. TypeOK'
  BY NoSessionType DEF IInv, TypeOK
<1>2. ConfirmedOnce' /\ HandoffsConfirmed' /\ HandoffOnce'
  BY ConfirmedKept, HandoffsKept
<1>3. PendingHasThread' /\ ProposedOnce' /\ WritersAnswered'
  BY DEF IInv, PendingHasThread, ProposedOnce, WritersAnswered
<1>4. LocksHold'
  BY LocksReleased DEF IInv
<1> QED
  BY <1>1, <1>2, <1>3, <1>4 DEF IInv

LEMMA InvStep == IInv /\ [Next]_vars => IInv'
<1> SUFFICES ASSUME IInv, [Next]_vars PROVE IInv'
  OBVIOUS
<1>1. CASE ProposalNext
  BY <1>1, InsertProposalInv, DismissInv, LockProposalInv, FindProposalInv, ConfirmInv,
     LockTripInv, LockBatchInv, HandoffInv, GiveUpInv, PersistBatchInv, DeleteThreadInv
  DEF ProposalNext
<1>2. CASE FactNext
  <2>1. TypeOK /\ ConfirmedOnce
    BY DEF IInv
  <2>2. CASE \E old, f \in Fact : Upsert(old, f)
    BY <2>1, <2>2, UpsertStep, FactsInv DEF Upsert
  <2>3. CASE \E f \in Fact : Revoke(f)
    BY <2>1, <2>3, RevokeStep, FactsInv DEF Revoke
  <2>4. CASE \E kind \in MemoryKind, m \in Member, field \in MemoryField, f \in Fact :
               Save(kind, m, field, f)
    <3>1. PICK kind \in MemoryKind, m \in Member, field \in MemoryField, f \in Fact :
                 Save(kind, m, field, f)
      BY <2>4
    <3>2. FactsStep({})
      BY <2>1, <3>1, SaveStep
    <3>3. UNCHANGED <<proposals, madeBy, threads, sessions, answered, handoffs>>
      BY <3>1 DEF Save
    <3> QED
      BY <3>2, <3>3, FactsInv
  <2>5. CASE \E f \in Fact, m \in Member : DeleteMemory(f, m)
    BY <2>1, <2>5, DeleteStep, FactsInv DEF DeleteMemory
  <2> QED
    BY <1>2, <2>2, <2>3, <2>4, <2>5 DEF FactNext
<1>3. CASE UNCHANGED vars
  <2>1. UNCHANGED <<proposals, madeBy, threads, facts, sessions, answered, handoffs>>
    BY <1>3 DEF vars
  <2>2. FactsStep({})
    BY <2>1, SameFacts DEF IInv
  <2> QED
    BY <2>1, <2>2, FactsInv
<1> QED
  BY <1>1, <1>2, <1>3 DEF Next

\* Whoever writes a status has found the row PENDING, or absent.
LEMMA AnswerStep ==
  ASSUME IInv, [Next]_vars, NEW p \in Proposal, proposals[p] \in {"CONFIRMED", "DISMISSED"}
  PROVE  proposals'[p] = proposals[p]
<1>1. ASSUME NEW r \in Request, NEW q \in Proposal,
             InsertProposal(r, q) \/ Dismiss(r, q) \/ LockProposal(r, q)
      PROVE  proposals'[p] = proposals[p]
  BY <1>1 DEF InsertProposal, Dismiss, LockProposal, IInv, TypeOK
<1>2. ASSUME NEW r \in Request, Confirm(r)
      PROVE  proposals'[p] = proposals[p]
  <2>1. \A q \in Asks[r].rows : proposals[q] = "PENDING"
    BY <1>2 DEF Confirm, IInv, LocksHold, LockedRows
  <2> QED
    BY <1>2, <2>1 DEF Confirm
<1>3. ASSUME NEW r \in Request, Handoff(r)
      PROVE  proposals'[p] = proposals[p]
  <2>1. Asks[r].rows \subseteq Rows(BatchOf(r)) /\ LockedRows(r) = Rows(BatchOf(r))
    BY <1>3, BatchOfHandoff DEF Handoff, LockedRows
  <2>2. \A q \in Asks[r].rows : proposals[q] = "PENDING"
    BY <2>1 DEF IInv, LocksHold
  <2> QED
    BY <1>3, <2>2 DEF Handoff
<1>4. ASSUME NEW r \in Request, FindProposal(r) \/ LockTrip(r) \/ LockBatch(r) \/ GiveUp(r)
      PROVE  proposals'[p] = proposals[p]
  BY <1>4 DEF FindProposal, LockTrip, LockBatch, GiveUp
<1>5. ASSUME NEW b \in Batch, PersistBatch(b)
      PROVE  proposals'[p] = proposals[p]
  BY <1>5 DEF PersistBatch
<1>6. ASSUME NEW t \in Thread, DeleteThread(t)
      PROVE  proposals'[p] = proposals[p]
  BY <1>6 DEF DeleteThread
<1>7. CASE FactNext
  BY <1>7 DEF FactNext, Upsert, Revoke, Save, DeleteMemory
<1>8. CASE UNCHANGED vars
  BY <1>8 DEF vars
<1> QED
  BY <1>1, <1>2, <1>3, <1>4, <1>5, <1>6, <1>7, <1>8 DEF Next, ProposalNext

-----------------------------------------------------------------------------
(* Theorems                                                                 *)

\* Proposals, facts, sessions and handoffs agree in every reachable state.
THEOREM ConstraintInvariant == Spec => []IInv
BY InvInit, InvStep, PTL DEF Spec

\* Every variable is a value its table may hold.
THEOREM ConstraintTypeCorrect == Spec => []TypeOK
<1>1. IInv => TypeOK
  BY DEF IInv
<1> QED
  BY <1>1, ConstraintInvariant, PTL

\* A confirmed proposal is the source of one fact that says what its owner was
\* shown, and nothing else is, whatever transactions meet on it.
THEOREM ConfirmedProposalsHaveOneFact == Spec => []ConfirmedOnce
<1>1. IInv => ConfirmedOnce
  BY DEF IInv
<1> QED
  BY <1>1, ConstraintInvariant, PTL

\* A batch starts planning at most once.
THEOREM HandoffsOnce == Spec => []HandoffOnce
<1>1. IInv => HandoffOnce
  BY DEF IInv
<1> QED
  BY <1>1, ConstraintInvariant, PTL

\* The thread of a pending candidate exists: deleting a thread, extracting from
\* it and handing off its batch never leave one behind.
THEOREM PendingKeepThreads == Spec => []PendingHasThread
<1>1. IInv => PendingHasThread
  BY DEF IInv
<1> QED
  BY <1>1, ConstraintInvariant, PTL

\* A request to propose, however often delivered, writes one row.
THEOREM ProposalsOnce == Spec => []ProposedOnce
<1>1. IInv => ProposedOnce
  BY DEF IInv
<1> QED
  BY <1>1, ConstraintInvariant, PTL

\* What has been confirmed stays confirmed and what has been dismissed stays
\* dismissed, whatever was under way when it was answered.
THEOREM AnswersFinal == Spec => AnswersAreFinal
<1>1. IInv /\ [Next]_vars => [\A p \in Proposal : proposals[p] \in {"CONFIRMED", "DISMISSED"} =>
                                proposals'[p] = proposals[p]]_vars
  BY AnswerStep
<1> QED
  BY <1>1, ConstraintInvariant, PTL DEF Spec, AnswersAreFinal

-----------------------------------------------------------------------------
(* The refinement                                                           *)

Stated == [p \in Proposal |-> {f \in Fact : facts[f] # NoFact /\ facts[f].source = p}]
Started == {b \in Batch : handoffs[b] # {}}

\* The facts that proposals have become are untouched, except that each of S
\* becomes one whose id was free.
LEMMA StatedStep ==
  ASSUME TypeOK, ConfirmedOnce, ConfirmedOnce', NEW S \in SUBSET Proposal, FactsStep(S),
         \A p \in S : proposals[p] # "CONFIRMED"
  PROVE  /\ \A p \in S : Stated[p] = {}
         /\ \E id \in [S -> Fact] :
              /\ \A p \in S, q \in Proposal : id[p] \notin Stated[q]
              /\ \A p, q \in S : id[p] = id[q] => p = q
              /\ Stated' = [p \in Proposal |-> IF p \in S THEN {id[p]} ELSE Stated[p]]
<1> DEFINE id == [p \in S |-> CHOOSE f \in Fact : facts'[f] # NoFact /\ facts'[f].source = p]
<1>1. \A p \in Proposal : p # NoProposal
  BY ConstraintAssumption
<1>2. \A p \in S : id[p] \in Fact /\ facts'[id[p]] # NoFact /\ facts'[id[p]].source = p
  BY DEF FactsStep
<1>3. id \in [S -> Fact]
  BY <1>2
<1> HIDE DEF id
<1>4. \A p \in S : Stated[p] = {}
  BY DEF ConfirmedOnce, Stated
<1>5. ASSUME NEW p \in S, NEW q \in Proposal PROVE id[p] \notin Stated[q]
  <2> SUFFICES ASSUME id[p] \in Stated[q] PROVE FALSE
    OBVIOUS
  <2>1. facts[id[p]] # NoFact /\ facts[id[p]].source = q
    BY DEF Stated
  <2>2. facts'[id[p]].source = q
    BY <1>1, <1>2, <2>1 DEF FactsStep, Same
  <2>3. p = q
    BY <1>2, <2>2
  <2> QED
    BY <1>4, <2>3
<1>6. \A p, q \in S : id[p] = id[q] => p = q
  BY <1>2
<1>7. ASSUME NEW p \in S PROVE Stated'[p] = {id[p]}
  <2>1. \A f \in Fact : facts'[f] # NoFact /\ facts'[f].source = p => f = id[p]
    BY <1>1, <1>2 DEF ConfirmedOnce
  <2> QED
    BY <1>2, <2>1 DEF Stated
<1>8. ASSUME NEW p \in Proposal, p \notin S PROVE Stated'[p] = Stated[p]
  <2>1. ASSUME NEW f \in Fact
        PROVE  (facts'[f] # NoFact /\ facts'[f].source = p)
                 <=> (facts[f] # NoFact /\ facts[f].source = p)
    <3>1. facts[f] # NoFact /\ facts[f].source = p => facts'[f] # NoFact /\ facts'[f].source = p
      BY <1>1 DEF FactsStep, Same
    <3>2. facts'[f] # NoFact /\ facts'[f].source = p => facts[f] # NoFact /\ facts[f].source = p
      BY <1>1, <1>8 DEF FactsStep, Same, IsFactOf
    <3> QED
      BY <3>1, <3>2
  <2> QED
    BY <2>1 DEF Stated
<1>9. Stated' = [p \in Proposal |-> IF p \in S THEN {id[p]} ELSE Stated[p]]
  BY <1>7, <1>8 DEF Stated
<1> QED
  BY <1>3, <1>4, <1>5, <1>6, <1>9

LEMMA StatedStays ==
  ASSUME TypeOK, ConfirmedOnce, ConfirmedOnce', FactsStep({})
  PROVE  Stated' = Stated
<1>1. Stated' = [p \in Proposal |-> Stated[p]]
  BY StatedStep
<1> QED
  BY <1>1 DEF Stated

\* Writing a status on the rows S.
LEMMA AnsweredRows ==
  ASSUME NEW S, NEW a, proposals' = [p \in Proposal |-> IF p \in S THEN a ELSE proposals[p]]
  PROVE  proposals' = Answers!Answered(S, a)
BY DEF Answers!Answered

\* What is written for a proposal is an open question of its own ...
LEMMA PutStep ==
  ASSUME TypeOK, NEW S \in SUBSET Proposal, UNCHANGED <<facts, handoffs>>,
         \A p \in S : proposals[p] = "none",
         proposals' = [p \in Proposal |-> IF p \in S THEN "PENDING" ELSE proposals[p]]
  PROVE  Answers!Next
<1>1. Answers!Put(S)
  BY AnsweredRows DEF Answers!Put
<1> QED
  BY <1>1 DEF Answers!Next

\* ... that a dismissal or the end of its thread declines.
LEMMA DeclineStep ==
  ASSUME TypeOK, NEW S \in SUBSET Proposal, UNCHANGED <<facts, handoffs>>,
         \A p \in S : proposals[p] = "PENDING",
         proposals' = [p \in Proposal |-> IF p \in S THEN "DISMISSED" ELSE proposals[p]]
  PROVE  Answers!Next
<1>1. Answers!Decline(S)
  BY AnsweredRows DEF Answers!Decline
<1> QED
  BY <1>1 DEF Answers!Next

\* Confirmation and handoff accept what they have locked.
LEMMA AcceptStep ==
  ASSUME IInv, ConfirmedOnce', NEW S \in SUBSET Proposal, FactsStep(S),
         \A p \in S : proposals[p] = "PENDING",
         proposals' = [p \in Proposal |-> IF p \in S THEN "CONFIRMED" ELSE proposals[p]]
  PROVE  Answers!Accept(S)
<1>1. /\ \A p \in S : Stated[p] = {}
      /\ \E id \in [S -> Fact] :
           /\ \A p \in S, q \in Proposal : id[p] \notin Stated[q]
           /\ \A p, q \in S : id[p] = id[q] => p = q
           /\ Stated' = [p \in Proposal |-> IF p \in S THEN {id[p]} ELSE Stated[p]]
  BY StatedStep DEF IInv
<1>2. proposals' = Answers!Answered(S, "CONFIRMED")
  BY AnsweredRows
<1> QED
  BY <1>1, <1>2 DEF Answers!Accept, Stated

LEMMA ConfirmAccepts ==
  ASSUME IInv, IInv', NEW r \in Request, Confirm(r)
  PROVE  Answers!Next
<1>1. PICK p \in Proposal : Asks[r].rows = {p}
  BY ConstraintAssumption DEF Confirm
<1>2. proposals[p] = "PENDING"
  BY <1>1 DEF Confirm, IInv, LocksHold, LockedRows
<1>3. FactsStep({p})
  <2>1. sessions[r].latest \in [Proposal -> 0..MaxRevision] /\ {p} \in SUBSET Proposal
    BY DEF IInv, TypeOK
  <2>2. WriteFacts({p}, sessions[r].latest)
    BY <1>1 DEF Confirm
  <2> QED
    BY <2>1, <2>2, WriteFactsStep DEF IInv
<1>4. proposals' = [q \in Proposal |-> IF q \in {p} THEN "CONFIRMED" ELSE proposals[q]]
  BY <1>1 DEF Confirm
<1>5. Answers!Accept({p})
  BY <1>2, <1>3, <1>4, AcceptStep DEF IInv
<1>6. Answers!AcceptOne(p)
  BY <1>5 DEF Answers!AcceptOne, Confirm
<1> QED
  BY <1>6 DEF Answers!Next

LEMMA HandoffStarts ==
  ASSUME IInv, IInv', NEW r \in Request, Handoff(r)
  PROVE  Answers!Next
<1>1. Asks[r].op = "handoff" /\ sessions[r].step = "open"
  BY DEF Handoff
<1>2. PICK b \in Batch : /\ b = BatchOf(r)
                         /\ Asks[r].rows \subseteq Rows(b)
                         /\ Asks[r].rows # {}
                         /\ Asks[r].rows \in SUBSET Proposal
  BY <1>1, BatchOfHandoff
<1>3. \A p \in Rows(b) : proposals[p] = "PENDING"
  BY <1>1, <1>2 DEF IInv, LocksHold, LockedRows
<1>4. FactsStep(Asks[r].rows)
  BY <1>2, WriteFactsStep DEF IInv, TypeOK, Handoff
<1>5. proposals' = [p \in Proposal |-> IF p \in Asks[r].rows THEN "CONFIRMED" ELSE proposals[p]]
  BY DEF Handoff
<1>6. Answers!Accept(Asks[r].rows)
  BY <1>2, <1>3, <1>4, <1>5, AcceptStep DEF IInv
<1>7. handoffs[b] = {}
  BY <1>2, <1>3 DEF IInv, HandoffsConfirmed
<1>8. Started' = Started \cup {b} /\ b \notin Started
  <2>1. handoffs' = [handoffs EXCEPT ![b] = @ \cup {r}]
    BY <1>2 DEF Handoff
  <2> QED
    BY <1>2, <1>7, <2>1 DEF IInv, TypeOK, Started
<1>9. Answers!Start(b, Asks[r].rows)
  BY <1>2, <1>3, <1>6, <1>8 DEF Answers!Start, Started
<1> QED
  BY <1>2, <1>9 DEF Answers!Next

LEMMA ProposalStepRefines ==
  ASSUME IInv, IInv', ProposalNext
  PROVE  [Answers!Next]_(Answers!vars)
<1>1. ASSUME NEW r \in Request, NEW p \in Proposal, InsertProposal(r, p)
      PROVE  Answers!Next
  <2>1. proposals' = [q \in Proposal |-> IF q \in {p} THEN "PENDING" ELSE proposals[q]]
    BY <1>1 DEF InsertProposal, IInv, TypeOK
  <2> QED
    BY <1>1, <2>1, PutStep DEF InsertProposal, IInv
<1>2. ASSUME NEW r \in Request, NEW p \in Proposal, Dismiss(r, p)
      PROVE  Answers!Next
  <2>1. proposals' = [q \in Proposal |-> IF q \in {p} THEN "DISMISSED" ELSE proposals[q]]
    BY <1>2 DEF Dismiss, IInv, TypeOK
  <2> QED
    BY <1>2, <2>1, DeclineStep DEF Dismiss, IInv
<1>3. ASSUME NEW b \in Batch, PersistBatch(b)
      PROVE  Answers!Next
  <2>1. Rows(b) \in SUBSET Proposal
    BY DEF Rows
  <2> QED
    BY <1>3, <2>1, PutStep DEF PersistBatch, IInv
<1>4. ASSUME NEW t \in Thread, DeleteThread(t)
      PROVE  Answers!Next
  <2> DEFINE pending == {p \in Proposal : \E b \in Batch : /\ ThreadOf[b] = t /\ p \in Rows(b)
                                                           /\ proposals[p] = "PENDING"}
  <2>1. /\ proposals' = [p \in Proposal |-> IF p \in pending THEN "DISMISSED" ELSE proposals[p]]
        /\ UNCHANGED <<facts, handoffs>>
    BY <1>4 DEF DeleteThread
  <2>2. pending \in SUBSET Proposal /\ \A p \in pending : proposals[p] = "PENDING"
    OBVIOUS
  <2> HIDE DEF pending
  <2> QED
    BY <2>1, <2>2, DeclineStep DEF IInv
<1>5. ASSUME UNCHANGED <<proposals, facts, handoffs>>
      PROVE  UNCHANGED Answers!vars
  BY <1>5 DEF Answers!vars
<1>6. ASSUME NEW r \in Request,
             \/ \E p \in Proposal : LockProposal(r, p)
             \/ FindProposal(r) \/ LockTrip(r) \/ LockBatch(r) \/ GiveUp(r)
      PROVE  UNCHANGED Answers!vars
  BY <1>5, <1>6 DEF LockProposal, FindProposal, LockTrip, LockBatch, GiveUp
<1>7. ASSUME NEW r \in Request, Confirm(r) \/ Handoff(r)
      PROVE  Answers!Next
  BY <1>7, ConfirmAccepts, HandoffStarts
<1> QED
  BY <1>1, <1>2, <1>3, <1>4, <1>6, <1>7 DEF ProposalNext

\* Edits, revocations and the trip memory never touch what a proposal has become.
LEMMA FactStepRefines ==
  ASSUME IInv, IInv', FactNext
  PROVE  UNCHANGED Answers!vars
<1>1. UNCHANGED <<proposals, handoffs>>
  BY DEF FactNext, Upsert, Revoke, Save, DeleteMemory
<1>2. FactsStep({})
  BY UpsertStep, RevokeStep, SaveStep, DeleteStep DEF FactNext, IInv
<1>3. UNCHANGED Stated
  BY <1>2, StatedStays DEF IInv
<1> QED
  BY <1>1, <1>3 DEF Answers!vars, Stated

\* Every behaviour of the proposals is one of ConstraintAnswers: put once,
\* answered once, and accepted in the same instant as the one fact each becomes
\* and the one planning run of its batch.
THEOREM ConstraintsImplementAnswers == Spec => ImplementsAnswers
<1>1. Init => Answers!Init
  BY DEF Init, Answers!Init
<1>2. IInv /\ IInv' /\ [Next]_vars => [Answers!Next]_(Answers!vars)
  <2> SUFFICES ASSUME IInv, IInv', [Next]_vars
               PROVE  [Answers!Next]_(Answers!vars)
    OBVIOUS
  <2>1. CASE UNCHANGED vars
    BY <2>1 DEF vars, Answers!vars
  <2> QED
    BY <2>1, ProposalStepRefines, FactStepRefines DEF Next
<1> QED
  BY <1>1, <1>2, ConstraintInvariant, PTL DEF Spec, ImplementsAnswers, Answers!Spec

=============================================================================
