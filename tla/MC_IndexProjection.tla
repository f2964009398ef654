--------------------------- MODULE MC_IndexProjection ---------------------------
(* Two documents and a commit; the contents have a text in common. *)
EXTENDS IndexProjection, TLC

CONSTANTS doc1, doc2, sha, c1, c2, t1, t2

MCTextsOf == (c1 :> <<t1>>) @@ (c2 :> <<t1, t2>>)
================================================================================
