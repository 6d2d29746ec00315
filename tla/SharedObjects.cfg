\* Two processes on one of five objects.
CONSTANTS
  Processes = {p1, p2}
  TrackedClusters = {"c1", "c2"}
  ShardKeys = {"s1", "s2"}
  RoleRequests = {"r1", "r2"}
  Kubeconfigs = {"k1", "k2"}
  Versions = {"v1", "v2"}
  Sections = {"resources", "kustomize", "charts"}
  GivenSections = {{"resources", "kustomize"}, {"charts"}}
  Contents = {"x1", "x2"}
  Licenses = {"l1", "l2", "l3", "l4", "l5"}
  Payload <- SmallPayload
  Parts = {"shards", "secret", "version", "summary", "license"}
  CreateSteps = 2
  MaxTime = 4
  DefaultGracePeriod = 2
  Fingerprints = {"", "this", "other"}
  ThisCluster = "this"
  Nil = Nil
SPECIFICATION FairSpec
INVARIANTS TypeOK OkMeansDone LicenseSurvives VerdictAsDated
PROPERTIES OnlyOwnPart ChangeIsTold Settles
CHECK_DEADLOCK FALSE
