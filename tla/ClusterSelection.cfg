\* A profile and a poller; one cluster at a time, of either kind.
CONSTANTS
  k1 = k1
  v1 = v1
  Clusters <- TwoClusters
  CapiClusters = {k1}
  Profiles = {p1}
  Pollers = {g1}
  SelectiveOnboarding = TRUE
  MaxClusters = 1
  Nil = Nil
SPECIFICATION Spec
INVARIANTS TypeOK NoClusterMissed OnlyUnreadyOrDeletedLinger
PROPERTY MisledOnlyByFirstCheck
