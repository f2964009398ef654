--------------------------- MODULE MC_RelationJudge ---------------------------
(* A document and its next generation, a card, a commit, two symbols of which one *)
(* has the text of the other, and a concept.                                      *)
EXTENDS RelationJudge, TLC

CONSTANTS noText, noPath, ta, tb, tc, td, invented, unusable

Art(t, k, s, x) == [type |-> t, kind |-> k, src |-> s, text |-> x, refs |-> {}, keys |-> {},
                    sha |-> <<>>, shas |-> {}, files |-> {}, path |-> noPath, dir |-> noPath]
MCAbout == (1 :> Art("summary", "doc", "d", ta)) @@
           (2 :> [Art("code_symbol", "code", "f", tb) EXCEPT !.path = "f", !.dir = "x"]) @@
           (3 :> Art("summary", "doc", "d", tc)) @@
           (4 :> [Art("code_symbol", "code", "g", tb) EXCEPT !.path = "g"]) @@
           (5 :> [Art("chunk", "card", "w", td) EXCEPT !.keys = {7}, !.refs = {}]) @@
           (6 :> [Art("commit", "git", "c", tc) EXCEPT !.refs = {7}, !.sha = <<1, 2>>, !.files = {"f"}]) @@
           (7 :> Art("concept", "doc", "d", noText)) @@
           (8 :> [Art("commit", "git", "c2", tc) EXCEPT !.shas = {<<1>>}, !.sha = <<3>>])
MCArts == DOMAIN MCAbout
Symm(s) == s \union {<<p[2], p[1]>> : p \in s}
MCSim == [p \in MCArts \X MCArts |->
            IF p \in Symm({<<7, 4>>, <<3, 4>>}) THEN 90 ELSE IF p \in Symm({<<1, 2>>}) THEN 80 ELSE 20]
MCOverlap == [p \in MCArts \X MCArts |-> IF p \in Symm({<<1, 2>>, <<5, 2>>}) THEN 30
                                         ELSE IF p \in Symm({<<1, 5>>}) THEN 12
                                         ELSE IF p \in Symm({<<3, 8>>, <<5, 6>>}) THEN 95 ELSE 0]
MCNames == {<<1, 4>>}
MCPlans == <<[adds |-> {1, 2}, closes |-> {}, removes |-> {}],
             [adds |-> {3, 4, 5, 7}, closes |-> {1}, removes |-> {}],
             [adds |-> {6, 8}, closes |-> {}, removes |-> {"f"}]>>
Ans(r, b, q) == [relation |-> r, bucket |-> b, quote |-> q]
MCAnswers == {Ans("documents", "INFERRED_LOW", tb), Ans("documents", "INFERRED_HIGH", invented),
              Ans("documents", "REJECTED", ta)}
================================================================================
