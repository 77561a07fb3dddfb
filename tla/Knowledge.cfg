SPECIFICATION SpecPart
CONSTANTS
  f1 = f1
  f2 = f2
  x = x
  y = y
  acme = acme
  globex = globex
  None = None
  Threads = {t1, t2}
  Facts = {f1, f2}
  Anchors = {x, y}
  Competitors = {acme}
  Claims = {claim1}
  Analysts = {analyst1}
  ClusterOf <- AnchorCluster
  Admitted = {x, y}
  ControllerOf <- AnchorController
  StoredStance <- FirstStance
  Stored = {f1}
  MaxRequests = 4
  Reports = {report1}
  Requested = {acme, globex}
  Untraced = {y}
  Contents <- Texts
  AutoPublish = TRUE
SYMMETRY ThreadSymmetry
INVARIANT PartsTypeOK
INVARIANT SupersededHasSuccessor
INVARIANT SupportedAfterActivation
INVARIANT PublishedWasReviewed
PROPERTY EvidenceIsKept
CHECK_DEADLOCK FALSE
