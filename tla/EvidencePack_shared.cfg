\* One pack, two agents, two calls in flight, a second build, failing queries.
SPECIFICATION FairSpec
CONSTANTS
  c1 = c1
  c2 = c2
  a1 = a1
  a2 = a2
  k1 = k1
  k2 = k2
  q1 = q1
  q2 = q2
  Calls = {c1, c2}
  PackIds = {p1}
  Runs = {r1}
  Agents = {a1, a2}
  Questions = {q1, q2}
  Cards = {k1, k2}
  Tools = {"request_more", "open_evidence"}
  Faults = {"database_fails"}
  Nothing = Nothing
  Members <- SecondBuildAddsCard
  MaySee <- EveryoneSees
  Similar <- NothingSimilar
  SameWords <- NothingSimilar
  AskedTokens = {1, 2}
  AskedBudgets = {3}
  MaxRunBudget = 3
  MaxRequests <- OneRequest
  MaxTokens <- TwoTokens
  MaxPacks = 2
CHECK_DEADLOCK FALSE
INVARIANTS
  RunBudgetHolds
  LedgersAgree
  AnsweredQuestionsAreReused
  PackIsPinned
PROPERTIES
  CallsReturn
