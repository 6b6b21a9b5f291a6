SPECIFICATION Spec
CHECK_DEADLOCK FALSE
CONSTANTS
  Plan = {"round", "replan"}
  Kind <- MCKind
  Member = {m1}
  m1 = m1
  Founder = {m1}
  Change = {c1}
  c1 = c1
  NoPlan = NoPlan
INVARIANTS
  LivePlansAreCurrent
