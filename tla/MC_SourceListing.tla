--------------------------- MODULE MC_SourceListing ---------------------------
(* Two documents over a tree limit of one when both stand, a page, two cards in *)
(* batches of one, and a window of one commit out of two.                       *)
EXTENDS SourceListing

CONSTANTS blob1, blob2, page, card1, card2, sha1, sha2

MCShas == <<sha1, sha2>>
MCFeedPlans == {<<"docs">>, <<"wiki", "commits">>, <<"cards">>}

FeedSymmetry == Permutations({blob1, blob2}) \union Permutations({card1, card2})
================================================================================
