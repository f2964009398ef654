\* Three runs of the review panel for one head, two at a time, which crash, overlap and resume, with
\* the row deleted by hand; change packs and ranked reads while versions move; runs of the agent
\* runner; an agent without a broker; the verification of answers by two clients at a time; task context.
SPECIFICATION ProgramSpec
CHECK_DEADLOCK FALSE
CONSTANTS
  Runs = {r1, r2}
  MaxAsks = 3
  None = None
  Lenses <- LensOrder
  Replies <- SomeReplies
  Faults = {"process_killed", "row_deleted", "model_fails"}
  CodeArts <- MCCodeArts
  CodeArt <- MCCodeArt
  Files <- MCFiles
  File <- MCFile
  CodeEdges <- MCCodeEdges
  Contracts = {"Client", "VaultError"}
  RowOrders <- MCRowOrders
  ChangeTasks <- MCTasks
  MaxTests = 2
  MaxDependencies = 2
  PointerTokens = 3
  MaxVersion = 2
  Contents <- MCContents
  Elided = {"elided"}
  Broken = {"broken"}
  Absent = "none"
  SizeOf <- MCSize
  Trees <- MCTrees
  Prompts <- MCPrompts
  Outside = "elsewhere"
  ModelTexts <- MCReplies
  HumanInputs = {"approve", "edit", "reject", "other", "eof"}
  PackCards <- MCPackCards
  MaxFiles = 2
  MaxFixes = 2
  MaxSpans = 2
  MaxCards = 5
  Nodes <- MCNodes
  NodeNo <- MCNodeNo
  Node <- MCNode
  Ties <- MCTies
  CardAsks <- MCCardAsks
  GraphAsks <- MCGraphAsks
  Builds <- MCBuilds
  NoIntent = "none"
  TopCards = 3
  NeighbourCap = 2
  MaxServed = 2
  RepoFiles = {"app", "new"}
  FirstRepos <- MCFirstRepos
  Fixable = {"import"}
  NoLine = "none"
  Turns <- MCTurns
  SearchBudget = 3
  KbTokenBudget = 9
  TopRows = 3
  AnswerTokens = 1
  RowTokens = 2
  MaxSteps = 2
  Calls = {v1, v2}
  MaxCalls = 2
  MaxSeq = 2
  Units <- MCUnits
  BadId = bad
  Found = {file, sym}
  Unit <- MCUnit
  Edges <- MCEdges
  MyTeams = {red}
  Requests <- MCRequests
  Clients = {ide, bot}
  Required = {ide, bot}
  Keys = {k1}
  NoKey = noKey
  NoQuote = noQuote
  NoAssertion = noAssertion
  file = file  sym = sym  mod = mod  secret = secret  bad = bad
  noQuote = noQuote  noAssertion = noAssertion
  red = red  blue = blue  k1 = k1  noKey = noKey  ide = ide  bot = bot  v1 = v1  v2 = v2
  Arts <- MCArts
  Art <- MCArt
  Links <- MCLinks
  AliasTargets <- MCAliasTargets
  AliasTier <- MCAliasTier
  Indexes <- MCIndexes
  Asks <- MCAsks
  SearchTop = 4
  BroadTop = 6
  MaxEntities = 2
  MaxConventions = 1
  MaxPrior = 1
  MaxNeighbors = 2
  MaxTaskAsks = 1
SYMMETRY ProgramSymmetry
INVARIANTS
  OneReviewPerLens
  AllReturnTheRow
  MergeLosesNothing
  ChangePackIsSound
  RunsAreGoverned
  RetrievalIsSound
  AgentIsBounded
  ReceiptsAreSound
  TaskAnswersAreSound
PROPERTIES
  NeverRepaid
  VerdictsAreKept
