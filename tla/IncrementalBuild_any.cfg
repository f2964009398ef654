\* Every habit and every fault; contents move and are copied between sources.
SPECIFICATION Spec
CONSTANTS
    Docs = {"copy"}
    Code = {"api", "util"}
    RepoOf <- OneRepo
    ContentsOf <- SharedContents
    Mentions <- GuideMentionsApi
    Calls <- GetCallsFmt
    Habits = {"revert", "readd"}
    Faults = {"source_failure", "graphify_failure", "interruption"}
    MaxBuilds = 3
CHECK_DEADLOCK FALSE
INVARIANTS
  CacheMapsWhatWasExtracted
PROPERTIES
  ServedRowsAreFrozen
