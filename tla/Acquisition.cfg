SPECIFICATION Spec
CONSTANTS
  Parts = {"uploads", "schedule", "limiter", "retention", "chunking", "search"}
  Workers = {w1, w2}
  d1 = d1
  d2 = d2
  None = None
  MaxTime = 3
  Blobs = {1, 2, 3}
  Rejected = {3}
  Empty = {2}
  MaxTasks = 2
  MaxFaults = 1
  Discovers = {1, 2}
  Base = 1
  Maximum = 3
  Threshold = 2
  Versions = 2
  Fetches = {1, 2}
  Rate = 1
  Capacity = 2
  Ttl = 3
  CoolDown = 2
  Candidates = {1, 2}
  Cleanups = {1}
  Life = 1
  Limit = 1
  MaxFiles = 2
  LastTime = 2
  Unnamed = {"***"}
  FooterTexts = {"Related"}
  PartOf <- Characters
  Titles = {"Doc", "***", "Related"}
  MaxLevel = 2
  Weight <- LineWeights
  Lines <- FileLines
  MaxLines = 4
  MaxChild = 8
  SoftChild = 6
  LeastBudget = 3
  Tiny = 5
  TargetParent = 13
  SoftParent = 15
  Overlap = 2
  Documents = {d1, d2}
  MaxVersion = 2
  ChildrenOf = {1, 2}
  Depth = 3
  TopK = 2
  RrfK = 2
  VectorWeight = 2
  KeywordWeight = 1
INVARIANT TypeOK
INVARIANT SucceededBatchIsIngested
INVARIANT LocksHold
INVARIANT RememberedIsSaved
INVARIANT StrictIsLimited
INVARIANT BodyIsKept
INVARIANT ChunkingKeepsText
INVARIANT ParentsCoverChildren
INVARIANT NormalizingIsStable
INVARIANT OneVersionPerAnswer
INVARIANT AnswersInOrder
PROPERTY EveryRunEnds
CHECK_DEADLOCK FALSE
