----------------------------- MODULE Selections -----------------------------
(***************************************************************************)
(* A part of a sequence, chosen by positions: what a comprehension with a  *)
(* condition, or a stable sort by a key, leaves of a list.  It is written  *)
(* without recursion, so that proofs can use it.                           *)
(***************************************************************************)
EXTENDS Integers, FiniteSets, Sequences, SequencesExt

\* The k-th smallest number of a finite set.
KthOf(places, k) == CHOOSE i \in places : Cardinality({j \in places : j <= i}) = k

\* The elements of s at these places, in order.
Picked(s, places) == [k \in 1 .. Cardinality(places) |-> s[KthOf(places, k)]]

\* The elements of s that are in S, in order.
Among(s, S) == Picked(s, {i \in DOMAIN s : s[i] \in S})

\* Each element of s once, where it comes first.
Firsts(s) == Picked(s, {i \in DOMAIN s : \A j \in 1 .. i - 1 : s[j] # s[i]})

\* The n with the smallest keys, in order; equal keys keep their order.
Ranked(s, keys, n) ==
  LET place == [i \in DOMAIN s |-> Cardinality({j \in DOMAIN s :
                  keys[j] < keys[i] \/ (keys[j] = keys[i] /\ j <= i)})]
  IN  [k \in {k \in DOMAIN s : k <= n} |-> s[CHOOSE i \in DOMAIN s : place[i] = k]]

\* The sum of a list of numbers.
Total(s) == FoldLeft(LAMBDA n, x : n + x, 0, s)
==============================================================================
