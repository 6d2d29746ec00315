\* The cache may show an older version of the groups, or not show them yet; no
\* failures, so that the only obstacle to progress is what this leads to.
CONSTANTS
  i1 = i1
  i2 = i2
  x1 = x1
  x2 = x2
  Requestors <- OneRequestor
  Indexes = {i1}
  Contents = {x1}
  Wants <- OneWant
  BundleNames = {b1, b2, b3}
  GroupNames = {g1, g2}
  Random <- OneName
  Styles = {"stage", "record"}
  MaxUnseen = 0
  MaxFailures = 0
  Nil = Nil
SPECIFICATION FairSpec
PROPERTIES DuplicatesGo StagingEnds
