CONSTANTS
  p1 = p1
  p2 = p2
  p3 = p3
  f1 = f1
  f2 = f2
  f3 = f3
  Profiles = {p1, p2, p3}
  Runs <- SomeRuns
  Claims <- ThreeClaims
  InitialObjects <- AllObjects
  ForceRecreate = TRUE
  MaxChanges = 2
  Nil = Nil
SPECIFICATION Spec
CHECK_DEADLOCK FALSE
PROPERTY CRDDecisionsHold
