------------------------------ MODULE Reconcile ------------------------------
(***************************************************************************)
(* How the review panel merges what its lenses report (domain/reconcile.py).*)
(*                                                                         *)
(* A text is the set of its tokens, a severity its rank (0 = blocker).  A  *)
(* finding is a record of a severity, a text and a set of evidence ids; a  *)
(* review is the findings of one lens, in the order of the model's reply.  *)
(***************************************************************************)
EXTENDS Integers, SequencesExt, Selections

NoteRank == 3

Severities == 0 .. NoteRank

\* Token-set Jaccard similarity of at least 0.7.
IsDuplicate(a, b) ==
    a # {} /\ b # {} /\ 10 * Cardinality(a \cap b) >= 7 * Cardinality(a \cup b)

\* One merged finding under construction.  votes: severity by lens.
NewGroup(lens, f) == [tokens |-> f.text, votes |-> [l \in {lens} |-> f.severity],
                      strongest |-> f, evidence |-> f.evidence]

\* A lens that reports two duplicates overwrites its own vote.
Voted(votes, lens, severity) ==
    [l \in DOMAIN votes \cup {lens} |-> IF l = lens THEN severity ELSE votes[l]]

\* (mutant) The evidence of a duplicate is dropped.
EvidenceDropped(g, lens, f) ==
    [g EXCEPT !.tokens = @ \cup f.text, !.votes = Voted(@, lens, f.severity)]

Absorb(g, lens, f) ==
    [tokens |-> g.tokens \cup f.text,
     votes |-> Voted(g.votes, lens, f.severity),
     strongest |-> IF f.severity < g.strongest.severity THEN f ELSE g.strongest,
     evidence |-> g.evidence \cup f.evidence]

\* The first group that the finding duplicates absorbs it.
Place(groups, lens, f) ==
    LET same == {i \in DOMAIN groups : IsDuplicate(groups[i].tokens, f.text)}
    IN  IF same = {} THEN Append(groups, NewGroup(lens, f))
        ELSE [groups EXCEPT ![Min(same)] = Absorb(@, lens, f)]

Groups(reviews) ==
    FoldLeft(LAMBDA groups, review :
               FoldLeft(LAMBDA g, f : Place(g, review.lens, f), groups, review.findings),
             <<>>, reviews)

Votes(g) == Range(g.votes)

Merged(g) == [severity |-> Min(Votes(g)), text |-> g.strongest.text,
              evidence |-> g.evidence, lenses |-> DOMAIN g.votes,
              disputed |-> Cardinality(Votes(g)) > 1]

\* The merged findings, most severe first, in order of appearance.
Reconciled(reviews) ==
    LET groups == Groups(reviews)
        merged == [i \in DOMAIN groups |-> Merged(groups[i])]
        of(s) == Picked(merged, {i \in DOMAIN merged : merged[i].severity = s})
    IN  of(0) \o of(1) \o of(2) \o of(NoteRank)
==============================================================================
