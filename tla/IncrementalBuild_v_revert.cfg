SPECIFICATION Spec
CONSTANTS
    Docs = {"guide"}
    Code = {}
    RepoOf <- OneRepo
    ContentsOf <- OwnContents
    Mentions = {}
    Calls = {}
    Habits = {"revert"}
    Faults = {}
    MaxBuilds = 3
CHECK_DEADLOCK FALSE
INVARIANT EachSourceServedOnce
