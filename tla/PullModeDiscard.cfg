\* A requestor discards while its cache shows an older version of the group.
CONSTANTS
  i1 = i1
  i2 = i2
  x1 = x1
  x2 = x2
  Requestors <- OneRequestor
  Indexes = {i1}
  Contents = {x1}
  Wants <- OneWant
  BundleNames = {b1, b2, b3}
  GroupNames = {g1, g2}
  Random <- OneName
  Styles = {"stage"}
  MaxUnseen = 0
  MaxFailures = 0
  Nil = Nil
SPECIFICATION Spec
PROPERTY DiscardKeepsReferenced
