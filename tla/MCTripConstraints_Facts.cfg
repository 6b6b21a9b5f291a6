\* Requests that meet on the same proposals, and the trip memory beside them.
CONSTANTS
  ann = ann bob = bob style = style budget = budget
  form1 = form1 form2 = form2 cand1 = cand1 cand2 = cand2
  batch = batch thread = thread
  send = send accept = accept keep = keep refuse = refuse take1 = take1 take2 = take2
  Proposal = {form1, form2, cand1, cand2}
  Content <- MCContent
  Batch = {batch}
  Thread = {thread}
  ThreadOf <- MCThreadOf
  Request = {send, accept, keep, refuse, take1, take2}
  Asks <- MCAsks
  Member = {ann, bob}
  Field = {style, budget}
  MemoryField = {style}
  Value = {"hotel", "low"}
  Fact = {f1, f2, f3}
  MaxRevision = 3
  NoBatch = NoBatch NoFact = NoFact NoProposal = NoProposal
SYMMETRY Symmetry
SPECIFICATION Spec
INVARIANTS TypeOK ConfirmedOnce HandoffOnce PendingHasThread ProposedOnce
PROPERTIES AnswersAreFinal ImplementsAnswers
CHECK_DEADLOCK FALSE
