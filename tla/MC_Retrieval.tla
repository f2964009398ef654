----------------------------- MODULE MC_Retrieval -----------------------------
(* A symbol, its file and a secret row between it and a helper; two docs whose *)
(* cards look alike, a third like only one of them; a diamond of edges of      *)
(* every class of trust.                                                       *)
EXTENDS Retrieval

W_(ty, so, ti, re, ba, au, ce, vi, al, bo) ==
  [type |-> ty, source |-> so, title |-> ti, refs |-> re, backed |-> ba, authority |-> au,
   centrality |-> ce, visible |-> vi, alike |-> al, born |-> bo]
Dotted == [whole |-> "util.helper", tail |-> "helper"]
Whole(n) == [whole |-> n, tail |-> n]
MCNode == [sym |-> W_("code_symbol", "github_code", "helper", {}, TRUE, 1, 1, TRUE, {}, 1),
          doc |-> W_("doc_chunk", "github_doc", "guide", {Dotted}, TRUE, 2, 0, TRUE, {"wiki", "vault"}, 1),
          wiki |-> W_("doc_chunk", "azure_wiki", "guide", {Whole("gone")}, FALSE, 2, 0, TRUE,
                      {"doc", "card"}, 1),
          card |-> W_("work_item", "ado_card", "guide card", {}, FALSE, 1, 0, TRUE, {"wiki"}, 1),
          vault |-> W_("doc_chunk", "github_doc", "guide", {}, TRUE, 3, 0, FALSE, {"doc"}, 1),
          late |-> W_("commit", "git_metadata", "fix", {}, TRUE, 1, 0, TRUE, {}, 2)]
MCNodes == DOMAIN MCNode
MCNodeNo == [sym |-> 3, doc |-> 5, wiki |-> 1, card |-> 6, vault |-> 2, late |-> 4]

L_(a, b, ty, tr, bo) == [a |-> a, b |-> b, type |-> ty, trust |-> tr, born |-> bo]
MCTies == <<L_("card", "sym", "implements", "INFERRED_HIGH", 1), L_("doc", "sym", "mentions", "EXTRACTED", 1),
            L_("doc", "wiki", "mentions", "AMBIGUOUS", 1), L_("late", "card", "touches", "EXTRACTED", 1),
            L_("sym", "vault", "mentions", "EXTRACTED", 1), L_("vault", "wiki", "mentions", "EXTRACTED", 1),
            L_("wiki", "card", "mentions", "INFERRED_LOW", 1), L_("wiki", "doc", "mentions", "EXTRACTED", 2)>>

Hits(sym, doc, wiki, card, vault, late) ==
  [sym |-> sym, doc |-> doc, wiki |-> wiki, card |-> card, vault |-> vault, late |-> late]
MCCardAsks == {[hits |-> Hits(9, 5, 5, 2, 9, 3), intent |-> i] :
                 i \in {"how_does_x_work", "why_was_x_changed", "none"}}
              \union {[hits |-> [wiki |-> 2, card |-> 3], intent |-> "who_owns_x"]}

B_(closed, lost, ties) == [rows |-> closed, gone |-> lost, ties |-> ties]
MCBuilds == {B_({}, {}, {}), B_({"doc", "vault"}, {}, {2}), B_({"sym"}, {"sym"}, {1, 2, 5}),
             B_({"card", "wiki"}, {"card"}, {6, 7})}

G_(r, d, ty, fl, inf) == [root |-> r, depth |-> d, types |-> ty, floor |-> fl, inferred |-> inf]
MCGraphAsks == {G_("sym", 2, {}, "EXTRACTED", FALSE), G_("sym", 2, {}, "EXTRACTED", TRUE),
                G_("sym", 2, {"mentions", "implements"}, "INFERRED_HIGH", TRUE),
                G_("vault", 2, {}, "EXTRACTED", TRUE)}
================================================================================
