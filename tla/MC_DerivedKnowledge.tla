-------------------------- MODULE MC_DerivedKnowledge --------------------------
(* The parts of a build whose models share no state, one per behaviour: what it *)
(* reads from its sources, and what it derives from them.                       *)
EXTENDS MC_RelationJudge, MC_AliasIndex, MC_IndexProjection, MC_SourceListing

VARIABLE part

vars == <<part, judgeVars, aliasVars, projectionVars, listingVars>>

\* The listing only varies where it matters.
Init ==
  /\ JudgeInit /\ AliasInit /\ ProjectionInit /\ ListingInit
  /\ part \in {"judge", "alias", "index", "sources"}
  /\ part # "index" => listing[doc1] = c1 /\ listing[doc2] = c1
  /\ part # "sources" =>
       /\ config.plan = <<"cards">> /\ \A b \in Blobs : CurrentTree[b] = 1

Next ==
  \/ part = "judge" /\ JudgeNext /\ UNCHANGED <<part, aliasVars, projectionVars, listingVars>>
  \/ part = "alias" /\ AliasNext /\ UNCHANGED <<part, judgeVars, projectionVars, listingVars>>
  \/ part = "index" /\ ProjectionNext /\ UNCHANGED <<part, judgeVars, aliasVars, listingVars>>
  \/ part = "sources" /\ ListingNext /\ UNCHANGED <<part, judgeVars, aliasVars, projectionVars>>

Spec == Init /\ [][Next]_vars

Documents == Permutations({doc1, doc2}) \union Permutations({blob1, blob2})
================================================================================
