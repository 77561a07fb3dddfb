SPECIFICATION Spec
CONSTANTS
  a1 = a1
  a2 = a2
  a3 = a3
  u1 = u1
  u2 = u2
  x = x
  y = y
  Articles = {a1, a2, a3}
  Urls = {u1, u2}
  Bodies = {x, y}
  Bands = {1, 2}
  Workers = {w1, w2}
  UrlOf <- ArticleUrl
  BodyOf <- ArticleBody
  TierOf <- ArticleTier
  LengthOf <- BodyLength
  BandsOf <- BodyBands
  Similar <- NearBodies
  None = None
  MaxFaults = 2
SYMMETRY WorkerSymmetry
INVARIANT TypeOK
INVARIANT SameContentSameCluster
INVARIANT ActiveVersionIsComplete
PROPERTY ServedThroughout
PROPERTY ImplementsServing
