SPECIFICATION Spec
CONSTANTS
  Arts <- MCArts
  About <- MCAbout
  Sim <- MCSim
  Overlap <- MCOverlap
  Names <- MCNames
  Plans <- MCPlans
  NoText = noText
  NoPath = noPath
  Answers <- MCAnswers
  Unusable = unusable
  FanOut = 1
  TopK = 1
  SemanticTop = 1
  Models = {"m"}
  MaxJudged = 3
  noText = noText  noPath = noPath  ta = ta  tb = tb  tc = tc  td = td
  invented = invented  unusable = unusable
  Sources <- MCSources
  Origin <- MCSource
  Queries <- MCQueries
  Match <- MCMatch
  PathRank <- MCPathRank
  NoFile = noFile
  Nobody = nobody
  EdgeCap = 1
  BodyCap = 2
  MaxGen = 2  MaxEdits = 3  MaxBuilds = 3
  repoA = repoA  repoB = repoB  fx = fx  fd = fd  fz = fz  red = red  blue = blue
  noFile = noFile  nobody = nobody
  Prose = {doc1, doc2}
  Commits = {sha}
  Contents = {c1, c2}
  TextsOf <- MCTextsOf
  Absent = absent
  MaxChanges = 1  MaxFaults = 2  MaxRuns = 2
  doc1 = doc1  doc2 = doc2  sha = sha  c1 = c1  c2 = c2  t1 = t1  t2 = t2
  Blobs = {blob1, blob2}
  Pages = {page}
  Cards = {card1, card2}
  Shas <- MCShas
  FeedPlans <- MCFeedPlans
  Acls = {"open", "closed"}
  TreeCap = 1
  CardCap = 2
  Batch = 1
  Window = 1
  MaxRetries = 1
  MaxMoves = 1  MaxOutages = 2  MaxListings = 2
  blob1 = blob1  blob2 = blob2  page = page  card1 = card1  card2 = card2
  sha1 = sha1  sha2 = sha2
SYMMETRY Documents
INVARIANTS
  JudgeEdgesStand
  PairsArePaidOnce
  AliasesFollowTheirSources
  IndexFollowsRegistry
  CachesAreSound
  RowsMirrorTheSources
PROPERTIES
  RebuildsOnlyRestamp
  OnlyTheGoneAreSwept
CHECK_DEADLOCK FALSE
