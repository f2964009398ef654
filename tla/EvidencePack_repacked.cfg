\* A run re-packs beyond the limit of the pack store, one call at a time, which may
\* fail or be cancelled.
SPECIFICATION Spec
CONSTANTS
  c1 = c1
  c2 = c2
  a1 = a1
  a2 = a2
  k1 = k1
  k2 = k2
  q1 = q1
  q2 = q2
  Calls = {c1}
  PackIds = {p1, p2, p3}
  Runs = {r1}
  Agents = {a1}
  Questions = {q1}
  Cards = {k1}
  Tools = {"request_more", "expand"}
  Faults = {"database_fails", "call_cancelled"}
  Nothing = Nothing
  Members <- OneBuild
  MaySee <- EveryoneSees
  Similar <- NothingSimilar
  SameWords <- NothingSimilar
  AskedTokens = {1}
  AskedBudgets = {2}
  MaxRunBudget = 2
  MaxRequests <- OneRequest
  MaxTokens <- ThreeTokens
  MaxPacks = 2
CHECK_DEADLOCK FALSE
INVARIANTS
  OneMeterPerRun
