---------------------------- MODULE MC_AgentRunner ----------------------------
(* A class, its test and a client next to it; the test of the class was never  *)
(* committed in one of the repositories; the model forgets, truncates, elides, *)
(* strays, refuses or answers without the protocol.                            *)
EXTENDS AgentRunner, MC_ChangeContext

MCContents == {"old", "new", "newer", "short", "elided", "broken"}
MCSize == [c \in MCContents |-> IF c = "short" THEN 1 ELSE 4]
All == [f \in MCFiles |-> "old"]
MCTrees == {[work |-> All, head |-> All],
            [work |-> All, head |-> [All EXCEPT !["tall"] = "none", !["trest"] = "none"]],
            [work |-> [All EXCEPT !["guess"] = "none", !["tall"] = "none"], head |-> All]}
MCPrompts == {[lead |-> TRUE, verb |-> TRUE], [lead |-> FALSE, verb |-> TRUE],
              [lead |-> FALSE, verb |-> FALSE]}

R_(files, fenced, refusal) == [files |-> files, fenced |-> fenced, refusal |-> refusal]
NoFences == [f \in {} |-> "none"]
MCReplies == {R_([rest |-> "new", trest |-> "new", tall |-> "new"], NoFences, FALSE),
              R_([rest |-> "newer", client |-> "new", elsewhere |-> "new"], NoFences, FALSE),
              R_([rest |-> "elided", tall |-> "short", trest |-> "broken"], NoFences, FALSE),
              R_([rest |-> "old", tall |-> "new"], [rest |-> "new"], FALSE),
              R_([elsewhere |-> "new"], [rest |-> "new"], FALSE),
              R_(NoFences, NoFences, TRUE), R_(NoFences, NoFences, FALSE)}

C_(id, f) == [id |-> id, file |-> f]
MCPackCards == {[cards |-> <<>>, more |-> <<>>],
                [cards |-> <<C_(FALSE, "rest")>>, more |-> <<>>],
                [cards |-> <<C_(TRUE, "rest"), C_(TRUE, "rest"), C_(FALSE, "api")>>,
                 more |-> <<C_(TRUE, "client"), C_(TRUE, "tool"), C_(TRUE, "rest")>>]}

OneTask == T_(<<"s1", "t2", "f1">>, <<"t3", "t2">>, {"Rest"}, {}, {"Rest"}, 99)
RunnerTasks == {OneTask,
                T_(<<"s1", "t3">>, <<"t3">>, {"Rest"}, {}, {"Rest"}, 99),
                T_(<<"t2">>, <<>>, {}, {"tall"}, {}, 99)}
================================================================================
