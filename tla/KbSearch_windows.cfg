\* Two sessions share a store of one window, so that each call evicts the other's;
\* calls fail and are cancelled.
SPECIFICATION FairSpec
CONSTANTS
  k1 = k1
  k2 = k2
  Calls = {c1, c2}
  Keys = {k1, k2}
  WindowIds = {w1, w2, w3}
  Nothing = Nothing
  MaxRequests <- Requests
  MaxTokens <- Tokens
  MaxAnswer = 2
  MaxWindows = 1
  Faults = {"query_fails", "call_cancelled"}
INVARIANTS
  WindowCapsHold
  MetersMatchLedger
  OneRowPerCall
PROPERTIES
  CallsReturn
