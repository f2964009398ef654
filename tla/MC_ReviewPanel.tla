---------------------------- MODULE MC_ReviewPanel ----------------------------
\* Two lenses, whose reports overlap in words.
EXTENDS ReviewPanel, TLC

Race == {"race", "in", "cache"}
RaceWrite == Race \cup {"write"}
Query == {"sql", "query"}

Finding(severity, text, evidence) ==
    [severity |-> severity, text |-> text, evidence |-> {evidence}]

LensOrder == <<"bug", "security">>

\* One lens reports a race once, as minor or as a blocker, or twice in other words
\* and a query besides.
SomeReplies ==
    [l \in ToSet(LensOrder) |->
       IF l = "bug"
         THEN {<<Finding(2, RaceWrite, "a")>>, <<Finding(0, RaceWrite, "a")>>,
               <<Finding(0, Race, "a"), Finding(3, Query, "d"), Finding(2, RaceWrite, "b")>>}
         ELSE {<<Finding(1, RaceWrite, "c")>>}]

Symmetry == Permutations(Runs)
===============================================================================
