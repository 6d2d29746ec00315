\* One requestor that stages and commits; two indexes, two contents; the cache
\* may lag, up to the first time the requestor goes by what it does not show.
CONSTANTS
  i1 = i1
  i2 = i2
  x1 = x1
  x2 = x2
  Requestors <- OneRequestor
  Indexes = {i1, i2}
  Contents = {x1, x2}
  Wants <- SomeWants
  BundleNames = {b1, b2, b3, b4}
  GroupNames = {g1, g2}
  Random <- AnyName
  Styles = {"stage"}
  MaxUnseen = 1
  MaxFailures = 1
  Nil = Nil
CONSTRAINTS Followed OneLag
SPECIFICATION Spec
SYMMETRY Renamed
INVARIANTS TypeOK AvailableIsCommitted ProvisionedIsCommitted NoOrphans DuplicatesOnlyIfMisled
