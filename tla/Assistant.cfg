SPECIFICATION SpecPart
SYMMETRY Alike
CONSTANTS
  Parts = {"components", "loop", "sessions", "memory", "webhooks", "rebuild",
           "facts", "competitors", "profiles", "search"}
  Threads = {t1, t2}
  Admins = {a1}
  Askers = {q1}
  Secrets = {s1, s2}
  MaxRequests = 3
  MaxCrashes = 1
  Wanted = {"query", "report"}
  Changes <- GroupsOfEdits
  MaxEdits = 2
  Tools <- ToolNeeds
  MaxSteps = 2
  MaxText = 5
  MaxSessionRequests = 2
  MaxFaults = 1
  c1 = c1
  Contents = {c1}
  MaxMemories = 2
  MaxRevisions = 3
  LastFile = 4
  Published = 2
  Silent = {1}
  Expand = 3
  Batches <- VersionBatches
  BareVersions = {2}
  MaxStarts = 4
  MaxDrafts = 2
  OfferedPieces <- PiecesOffered
  Extracted <- ExtractedPieces
  Stated = {"unverified", "corroborated"}
  MaxPosts = 4
  MaxFacts = 1
  MaxEvidence = 3
  Names = {"n1", "n2"}
  Aliases = {"n3"}
  FactNames = {"f1"}
  FactTexts <- TextsStated
  MaxCompetitors = 2
  MaxProducts = 1
  MaxClaims = 1
  Domains = {"a.com", "x.a.com", "local"}
  Parents <- DomainParents
  BareDomains = {"local"}
  Offers <- EngineOffers
  None = None
INVARIANT PartsTypeOK
INVARIANT ReloadReachesEveryHolder
INVARIANT ToolsComeBack
INVARIANT StreamedIsAnswered
INVARIANT CompletedHasReport
INVARIANT TierHasRevision
INVARIANT BestIsKept
INVARIANT EvidenceIsWeighed
INVARIANT LinkedByNameStaysNamed
INVARIANT RevisionIsServed
INVARIANT MaskIsNeverStored
INVARIANT RecordedIsDone
CHECK_DEADLOCK FALSE
