\* A constraint is confirmed beside the trip memory on the same field.
CONSTANTS
  ann = ann bob = bob style = style budget = budget
  form1 = form1 form2 = form2 cand1 = cand1 cand2 = cand2
  batch = batch thread = thread
  send = send accept = accept keep = keep refuse = refuse take1 = take1 take2 = take2
  Proposal = {cand1, cand2}
  Content <- MCContent
  Batch = {batch}
  Thread = {thread}
  ThreadOf <- MCThreadOf
  Request = {accept, take1}
  Asks <- MCAsks
  Member = {ann, bob}
  Field = {style, budget}
  MemoryField = {style}
  Value = {"hotel", "low"}
  Fact = {f1, f2}
  MaxRevision = 2
  NoBatch = NoBatch NoFact = NoFact NoProposal = NoProposal
SPECIFICATION Spec
PROPERTY KindsAreSeparate
CHECK_DEADLOCK FALSE
