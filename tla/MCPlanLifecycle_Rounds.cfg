SPECIFICATION Spec
CHECK_DEADLOCK FALSE
CONSTANTS
  Plan = {"round", "replan"}
  Kind <- MCKind
  Member = {m1, m2}
  m1 = m1
  m2 = m2
  Founder = {m1}
  Change = {c1}
  c1 = c1
  NoPlan = NoPlan
INVARIANTS
  TypeOK
  AdoptionIsUnanimous
  DecisionsFollowAdoption
  VersionStaysFree
  
PROPERTIES
  ImplementsGroupDecision
