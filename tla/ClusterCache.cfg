\* One SveltosCluster, two Secrets, all modes; a fair caller.
CONSTANTS
  s2 = s2
  Clusters = {c1}
  Secrets = {s1, s2}
  CapiSecret <- NoCapi
  Specs <- AllSpecs
  Callers = {g1}
  MaxVersion = 2
  MaxTokens = 1
  None = None
SPECIFICATION FairSpec
INVARIANTS TypeOK MapsAgree OutOfDateOnlyUntilEvent
PROPERTY CallsReturn
