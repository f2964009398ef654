SPECIFICATION Spec
CONSTANTS
    Docs = {"guide"}
    Code = {"api", "util"}
    RepoOf <- OneRepo
    ContentsOf <- OwnContents
    Mentions = {}
    Calls <- GetCallsFmt
    Habits = {}
    Faults = {"source_failure"}
    MaxBuilds = 3
CHECK_DEADLOCK FALSE
INVARIANTS
  ListedIsServedOnce
  NoGhostEdges
PROPERTIES
  ServedEdgesStable
