------------------------- MODULE MC_IncrementalBuild -------------------------
\* Instances of IncrementalBuild for TLC: up to two documents and two code files, and the
\* contents each may hold.
EXTENDS IncrementalBuild, TLC

OneRepo == [s \in Code |-> "repo"]

RepoEach == [s \in Code |-> s]

\* Every source has contents of its own; one document keeps a section.
OwnContents == [s \in Sources |->
    CASE s = "guide" -> {{"intro"}, {"intro", "howto"}}
      [] s = "notes" -> {{"log"}, {"log", "more"}}
      [] s = "api"   -> {{"get"}, {"put"}}
      [] s = "util"  -> {{"fmt"}}]

\* Contents move and are copied between the documents, and functions between
\* the code files.
SharedContents == [s \in Sources |->
    CASE s = "guide" -> {{"intro"}}
      [] s = "notes" -> {{"intro"}, {"howto"}}
      [] s = "copy" -> {{"intro"}, {"howto"}}
      [] s = "api"  -> {{"get"}, {"get", "put"}}
      [] s = "util" -> {{"get"}}]

\* A document names a function; one function calls another.
GuideMentionsApi == {<<"intro", "get">>}

GetCallsFmt == {<<"get", "fmt">>, <<"put", "fmt">>, <<"get", "put">>}
==============================================================================
