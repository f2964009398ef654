----------------------------- MODULE MC_AliasIndex -----------------------------
(* Commits of two repos that name a file of the same path, one that names more  *)
(* paths than a row lists, a document that is mined and is a target, and        *)
(* searches for one phrase of each kind.                                        *)
EXTENDS AliasIndex, TLC

CONSTANTS repoA, repoB, fx, fd, fz, red, blue, noFile, nobody

S(k, r, p, a, ph, n) == [kind |-> k, repo |-> r, path |-> p, acl |-> a, phrases |-> ph, rank |-> n]
MCSources == 1..5
MCSource == <<S("doc", repoA, fd, <<{}, {blue}>>, (2 :> {fd}), 1),
              S("commit", repoA, noFile, <<{}>>, (2 :> {fd}) @@ (3 :> {fx, fd, fz}), 2),
              S("commit", repoB, noFile, <<{}>>, (5 :> {fx}), 2),
              S("code", repoA, fx, <<{red}, {red, blue}>>, <<>>, 0),
              S("code", repoB, fx, <<{blue}, {}>>, <<>>, 0)>>
MCQueries == {2, 4}
MCMatch == [p \in MCQueries \X MCSources |-> IF p = <<4, 4>> THEN 100 ELSE IF p = <<2, 1>> THEN 50
                                             ELSE IF p = <<4, 1>> THEN 40 ELSE 0]
MCPathRank == (fx :> 1) @@ (fz :> 2) @@ (fd :> 3)
================================================================================
