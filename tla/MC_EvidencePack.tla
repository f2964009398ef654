--------------------------- MODULE MC_EvidencePack ---------------------------
\* Instances of EvidencePack for TLC.
EXTENDS EvidencePack, TLC

CONSTANTS c1, c2, a1, a2, k1, k2, q1, q2

\* One card from the first build on, one that the second build adds.
OneBuild == <<Cards>>
SecondBuildAddsCard == <<{k1}, {k1, k2}>>
SecondBuildDropsCard == <<{k1, k2}, {k1}>>

EveryoneSees == [a \in Agents |-> Cards]
OwnCard == (a1 :> {k1}) @@ (a2 :> {k2})

NothingSimilar == {}
AllSimilar == Questions \X Questions

OneRequest == [a \in Agents |-> 1]
TwoRequests == [a \in Agents |-> 2]
TwoTokens == [a \in Agents |-> 2]
ThreeTokens == [a \in Agents |-> 3]
==============================================================================
