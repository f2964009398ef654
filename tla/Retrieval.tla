------------------------------- MODULE Retrieval -------------------------------
(***************************************************************************)
(* The two reads of the graph that every answer rests on: ranked evidence  *)
(* cards of a query (retrieve_cards) and the neighbourhood of an artifact  *)
(* (graph.get_neighbors).  Both pin the version served when they begin and *)
(* then read in several statements, between which the builder commits what *)
(* the next version closes, deletes sources and activates.                 *)
(* Source: context_broker/{retrieval,temporal,graph,trust}.py and          *)
(* infrastructure/postgres/{artifacts,edges}.py of the mcp-server.         *)
(*                                                                         *)
(* Abstractions.  One requester, for whom a row is visible or not; near    *)
(* duplicates are a relation on the texts of cards, not transitive; the    *)
(* search answers one of the hits of a request; scores, authority and      *)
(* centrality are small integers, weights are hundredths.                  *)
(***************************************************************************)
EXTENDS Integers, FiniteSets, Sequences, SequencesExt, Selections

CONSTANTS
  Nodes,          \* artifact ids, ordered by NodeNo
  NodeNo,         \* NodeNo[r]: place of the id in the order of ids
  Node,           \* Node[r]: [type, source, title, refs, backed, authority, centrality, visible,
                 \*          alike, born]; refs: dotted names it quotes, each [whole, tail]
  Ties,          \* knowledge edges in the order of the query: [a, b, type, trust, born]
  Builds,        \* what a finalize closes: [rows, gone (subset of rows), ties]
  CardAsks,      \* [hits: Nodes -|-> score, intent]
  GraphAsks,     \* [root, depth, types, floor, inferred]
  NoIntent,
  TopCards, NeighbourCap

CONSTANT MaxServed     \* bound: versions activated

Open == MaxServed + 9     \* invalidated_at_seq is NULL

VARIABLES
  servedSeq,     \* build_seq of the active version; 0: none
  built,      \* build_seq of the last finalize
  until,      \* invalidated_at_seq of each row
  cut,        \* and of each tie
  gone,       \* rows whose source is marked deleted
  look,       \* the call in flight
  lookRows    \* retrieval_event rows of get_neighbors

lookVars == <<servedSeq, built, until, cut, gone, look, lookRows>>

TieIds == DOMAIN Ties

--------------------------------------------------------------------------------
(* Membership *)

OfVersion(born, closed, n) == born <= n /\ n < closed

MemberRows(ids, n) == {r \in ids : OfVersion(Node[r].born, until[r], n)}
Readable(ids) == {r \in ids : Node[r].visible}

TiesTouching(ids, types, n) ==
  Picked(Ties, {i \in TieIds : /\ OfVersion(Ties[i].born, cut[i], n)
                               /\ Ties[i].a \in ids \/ Ties[i].b \in ids
                               /\ types = {} \/ Ties[i].type \in types})

--------------------------------------------------------------------------------
(* Trust *)

TrustOrder == <<"REJECTED", "AMBIGUOUS", "INFERRED_LOW", "INFERRED_HIGH", "EXTRACTED">>
Known(trust) == IF trust \in ToSet(TrustOrder) THEN trust ELSE "AMBIGUOUS"
TrustRank(trust) == CHOOSE i \in DOMAIN TrustOrder : TrustOrder[i] = Known(trust)
Inferred == {"INFERRED_LOW", "INFERRED_HIGH"}

\* Only a floor among the inferred classes narrows these.
AdmitsTrust(trust, floor, inferred) ==
  /\ Known(trust) \notin {"REJECTED", "AMBIGUOUS"}
  /\ Known(trust) \in Inferred => inferred /\ (floor \in Inferred => TrustRank(trust) >= TrustRank(floor))

--------------------------------------------------------------------------------
(* Temporal weight *)

CodeArtifactTypes == {"code_file", "code_symbol", "endpoint", "test"}

SourceKind(type, source) ==
  CASE type \in CodeArtifactTypes \/ source = "github_code" -> "code"
    [] type \in {"adr", "decision"} -> "adr"
    [] source = "ado_card" \/ type \in {"card", "work_item"} -> "card"
    [] type \in {"commit", "pull_request", "pr"} \/ source = "git_metadata" -> "pr"
    [] source \in {"github_doc", "azure_wiki"}
       \/ type \in {"doc_chunk", "chunk", "summary", "concept", "doc"} -> "doc"
    [] OTHER -> "other"

Weights(code, doc, adr, pr, card) ==
  [code |-> code, doc |-> doc, adr |-> adr, pr |-> pr, card |-> card, other |-> 10]
KindWeight ==
  [how_does_x_work |-> Weights(15, 10, 9, 8, 7), why_was_x_changed |-> Weights(9, 10, 14, 15, 15),
   who_owns_x |-> Weights(11, 9, 10, 15, 13), what_calls_x |-> Weights(14, 9, 9, 9, 8)]

\* A quoted name counts whole and by its last segment.
Referenced(r) == UNION {{ref.whole, ref.tail} : ref \in Node[r].refs}

IsStale(r, kind, intent, symbols) ==
  /\ intent \in {"how_does_x_work", "what_calls_x"} /\ kind = "doc"
  /\ Referenced(r) \ symbols # {}

State(row) == IF row.gone \/ row.closed # Open THEN "superseded" ELSE "current"

Weight(kind, state, stale, intent) ==
  (IF intent = NoIntent THEN 10 ELSE KindWeight[intent][kind])
  * (IF state = "superseded" THEN 6 ELSE 10) * (IF stale THEN 25 ELSE 100)

--------------------------------------------------------------------------------
(* Ranking *)

\* Provenance, then authority, then weighted relevance, then the id.
Better(x, y) ==
  LET key(c) == <<IF Node[c.id].backed THEN 1 ELSE 0, Node[c.id].authority, c.relevance, NodeNo[c.id]>>
  IN  \E i \in 1..4 : key(x)[i] > key(y)[i] /\ \A j \in 1..(i - 1) : key(x)[j] = key(y)[j]

InRankOrder(cards) ==
  LET place(c) == 1 + Cardinality({d \in cards : Better(d, c)})
  IN  [i \in 1..Cardinality(cards) |-> CHOOSE c \in cards : place(c) = i]

Collapsed(cards) ==
  FoldLeft(LAMBDA kept, c : IF \E k \in ToSet(kept) : k.id \in Node[c.id].alike THEN kept
                            ELSE Append(kept, c), <<>>, cards)
Capped(cards) == SubSeq(cards, 1, IF Len(cards) < TopCards THEN Len(cards) ELSE TopCards)

\* What ids, ranks and requests are.
ASSUME RetrievalAssumption ==
  /\ IsFiniteSet(Nodes) /\ NodeNo \in [Nodes -> Int] /\ IsInjective(NodeNo)
  /\ \A r \in Nodes : /\ Node[r].visible \in BOOLEAN /\ Node[r].born \in Int
                      /\ Node[r].authority \in Int /\ Node[r].centrality \in Int
  /\ Ties \in Seq(ToSet(Ties))
  /\ \A t \in ToSet(Ties) : t.a \in Nodes /\ t.b \in Nodes /\ t.born \in Int
  /\ \A ask \in CardAsks : /\ DOMAIN ask.hits \subseteq Nodes
                           /\ \A r \in DOMAIN ask.hits : ask.hits[r] \in Int
                           /\ ask.intent \in {NoIntent} \union DOMAIN KindWeight
  /\ \A ask \in GraphAsks : ask.root \in Nodes /\ ask.depth \in Nat
  /\ TopCards \in Nat /\ NeighbourCap \in Nat /\ MaxServed \in Nat

--------------------------------------------------------------------------------
(* The builder (BuildLifecycle, IncrementalBuild), as a reader sees it *)

\* invalidated_at_seq IS NULL: a row is closed once.
LiveNow(born, closed) == born <= servedSeq /\ closed = Open

\* The finalize of the next version, one commit: it closes rows and edges and deletes sources.
Finalize ==
  /\ built = servedSeq /\ servedSeq < MaxServed
  /\ \E b \in Builds :
       /\ until' = [r \in Nodes |-> IF r \in b.rows /\ LiveNow(Node[r].born, until[r])
                                    THEN servedSeq + 1 ELSE until[r]]
       /\ cut' = [i \in TieIds |-> IF i \in b.ties /\ LiveNow(Ties[i].born, cut[i])
                                   THEN servedSeq + 1 ELSE cut[i]]
       /\ gone' = gone \union b.gone
  /\ built' = servedSeq + 1
  /\ UNCHANGED <<servedSeq, look, lookRows>>

Activates ==
  /\ built > servedSeq
  /\ servedSeq' = built
  /\ UNCHANGED <<built, until, cut, gone, look, lookRows>>

--------------------------------------------------------------------------------
(* The call *)

Goes(from, next) == look.pc = from /\ look' = next /\ UNCHANGED <<servedSeq, built, until, cut, gone, lookRows>>

Pin ==
  \/ \E ask \in CardAsks :
       Goes("idle", [look EXCEPT !.pc = IF servedSeq = 0 THEN "failed" ELSE "hydrate", !.version = servedSeq,
                                 !.ask = ask, !.hits = DOMAIN ask.hits])
  \/ \E ask \in GraphAsks :
       /\ look.pc = "idle"
       /\ look' = [look EXCEPT !.pc = IF servedSeq = 0 THEN "failed" ELSE "root", !.version = servedSeq,
                               !.ask = ask]
       /\ lookRows' = IF servedSeq = 0 THEN Append(lookRows, [version |-> 0, found |-> {}]) ELSE lookRows
       /\ UNCHANGED <<servedSeq, built, until, cut, gone>>

(* retrieve_cards *)

Hydrate ==
  LET members == MemberRows(look.hits, look.version)
  IN  Goes("hydrate", [look EXCEPT !.pc = IF look.ask.intent = NoIntent THEN "weigh" ELSE "symbols",
        !.rows = [r \in members |-> [closed |-> until[r], gone |-> r \in gone]]])

CurrentSymbols ==
  {Node[r].title : r \in {r \in MemberRows(Nodes, look.version) \ gone :
                          Node[r].type \in {"code_symbol", "code_file", "endpoint"}}}
FetchSymbols == Goes("symbols", [look EXCEPT !.pc = "weigh", !.symbols = CurrentSymbols])

Card(r, hits, intent) ==
  LET kind == SourceKind(Node[r].type, Node[r].source)
      state == State(look.rows[r])
      stale == IsStale(r, kind, intent, look.symbols)
  IN  [id |-> r, kind |-> kind, state |-> state, stale |-> stale,
       relevance |-> hits[r] * Weight(kind, state, stale, intent) * (100 + 25 * Node[r].centrality)]

Weigh ==
  Goes("weigh", [look EXCEPT !.pc = "rank",
    !.cards = {Card(r, look.ask.hits, look.ask.intent) : r \in Readable(DOMAIN look.rows)}])

Rank == Goes("rank", [look EXCEPT !.pc = "collapse", !.ranked = InRankOrder(look.cards)])
Collapse == Goes("collapse", [look EXCEPT !.pc = "cap", !.ranked = Collapsed(@)])
Cap == Goes("cap", [look EXCEPT !.pc = "cards", !.ranked = Capped(@)])

(* get_neighbors *)

\* A root that may not be read has no neighbours.
ReadRoot ==
  Goes("root", [look EXCEPT !.pc = "edges", !.seen = {look.ask.root}, !.hop = 1,
                            !.frontier = Readable(MemberRows({look.ask.root}, look.version))])

ReachedBy(acc, t, from, to, distance) ==
  [acc EXCEPT !.seen = @ \union {to},
              !.new = Append(@, [id |-> to, type |-> t.type, out |-> t.a = from, trust |-> t.trust,
                                 distance |-> distance])]

\* Each neighbour is reached by the first edge that is admitted.
Candidates(ties) ==
  FoldLeft(LAMBDA acc, t :
    IF ~ AdmitsTrust(t.trust, look.ask.floor, look.ask.inferred) THEN acc
    ELSE IF t.a \in look.frontier /\ t.b \notin acc.seen THEN ReachedBy(acc, t, t.a, t.b, look.hop)
    ELSE IF t.b \in look.frontier /\ t.a \notin acc.seen THEN ReachedBy(acc, t, t.b, t.a, look.hop)
    ELSE acc,
    [seen |-> look.seen, new |-> <<>>], ties)

NoMoreHops == look.hop > look.ask.depth \/ look.frontier = {} \/ Len(look.found) >= NeighbourCap

FollowEdges ==
  /\ look.pc = "edges" /\ ~ NoMoreHops
  /\ LET c == Candidates(TiesTouching(look.frontier, look.ask.types, look.version))
     IN  Goes("edges", [look EXCEPT !.pc = "filter", !.seen = c.seen, !.new = c.new])

AllOfThem(ids) == ids     \* (mutant) restricted candidates are kept
AclFiltered(ids) == Readable(ids)

\* The candidates that may be read, up to the cap, are the next frontier.
FilterHop ==
  /\ look.pc = "filter"
  /\ LET allowed == AclFiltered(MemberRows({n.id : n \in ToSet(look.new)}, look.version))
         kept == Picked(look.new, {i \in DOMAIN look.new : look.new[i].id \in allowed})
         room == NeighbourCap - Len(look.found)
         taken == SubSeq(kept, 1, IF Len(kept) < room THEN Len(kept) ELSE room)
     IN  Goes("filter", [look EXCEPT !.pc = "edges", !.hop = @ + 1, !.found = @ \o taken,
                                     !.frontier = {n.id : n \in ToSet(taken)}])

LogNeighbours ==
  /\ look.pc = "edges" /\ NoMoreHops
  /\ look' = [look EXCEPT !.pc = "neighbours"]
  /\ lookRows' = Append(lookRows, [version |-> look.version, found |-> {n.id : n \in ToSet(look.found)}])
  /\ UNCHANGED <<servedSeq, built, until, cut, gone>>

NoAsk == [root |-> "none"]
NoLook == [pc |-> "idle", version |-> 0, ask |-> NoAsk, hits |-> {}, rows |-> <<>>, symbols |-> {},
         cards |-> {}, ranked |-> <<>>, seen |-> {}, hop |-> 0, frontier |-> {}, new |-> <<>>,
         found |-> <<>>]

LookInit ==
  /\ servedSeq \in 0..1 /\ built = servedSeq
  /\ until = [r \in Nodes |-> Open]
  /\ cut = [i \in TieIds |-> Open]
  /\ gone = {}
  /\ look = NoLook
  /\ lookRows = <<>>

LookNext ==
  \/ Finalize \/ Activates
  \/ Pin \/ Hydrate \/ FetchSymbols \/ Weigh \/ Rank \/ Collapse \/ Cap
  \/ ReadRoot \/ FollowEdges \/ FilterHop \/ LogNeighbours

LookSpec == LookInit /\ [][LookNext]_lookVars

--------------------------------------------------------------------------------
(* Properties *)

InAnswer(r) == Node[r].visible /\ Node[r].born <= look.version /\ look.version < until[r]

\* However the builder commits between its statements, an answer of retrieve_cards holds readable
\* members of one version, no two of which are alike, best first; and a hit that could have been a
\* card and is none has a better card like it, or all the cards there are places for beat it.
CardsAreTheBest ==
  look.pc = "cards" =>
    LET ranked == look.ranked
        weighed == {c \in look.cards : c.id \in look.hits}
    IN  /\ Len(ranked) <= TopCards
        /\ \A c \in ToSet(ranked) : InAnswer(c.id) /\ c.id \in look.hits
        /\ \A i \in DOMAIN ranked, j \in DOMAIN ranked :
             i < j => Better(ranked[i], ranked[j]) /\ ranked[i].id \notin Node[ranked[j].id].alike
        /\ {c.id : c \in weighed} = {r \in look.hits : InAnswer(r)}
        /\ \A m \in weighed \ ToSet(ranked) :
             \/ \E c \in ToSet(ranked) : Better(c, m) /\ c.id \in Node[m.id].alike
             \/ Len(ranked) = TopCards /\ \A c \in ToSet(ranked) : Better(c, m)

\* Reference: what can be reached in at most n hops over admitted edges and readable rows, all
\* members of the version.
Linked(r, s) ==
  \E i \in TieIds :
    /\ {r, s} = {Ties[i].a, Ties[i].b} /\ Ties[i].born <= look.version /\ look.version < cut[i]
    /\ look.ask.types = {} \/ Ties[i].type \in look.ask.types
    /\ AdmitsTrust(Ties[i].trust, look.ask.floor, look.ask.inferred)
Ball[n \in Nat] ==
  IF n = 0 THEN {r \in {look.ask.root} : InAnswer(r)}
  ELSE Ball[n - 1] \union {s \in Nodes : InAnswer(s) /\ \E r \in Ball[n - 1] : Linked(r, s)}

\* The neighbours found are those, each once and at its distance; when the cap leaves some out, none
\* that is left out is nearer than one that was found.  One ledger row tells what was found.
NeighboursAreTheNearest ==
  look.pc = "neighbours" =>
    LET ids == {n.id : n \in ToSet(look.found)}
        within == [d \in 0..look.ask.depth |-> Ball[d]]
        left == within[look.ask.depth] \ (ids \union {look.ask.root})
    IN  /\ Len(look.found) = Cardinality(ids) /\ Len(look.found) <= NeighbourCap
        /\ \A n \in ToSet(look.found) : n.id \in within[n.distance] \ within[n.distance - 1]
        /\ left # {} => /\ Len(look.found) = NeighbourCap
                        /\ \A n \in ToSet(look.found) : left \cap within[n.distance - 1] = {}
        /\ lookRows = <<[version |-> look.version, found |-> ids]>>

\* What the two reads promise the tools built on them.
RetrievalIsSound == CardsAreTheBest /\ NeighboursAreTheNearest

\* Refuted (README, section 5): a row that a build in flight has closed is weighed as superseded.
ServedIsCurrent == look.pc = "cards" => \A c \in ToSet(look.ranked) : c.state = "current"

\* Refuted (README, section 5): the dotted form is looked up as well.
TailsAreEnough ==
  look.pc = "cards" => \A c \in ToSet(look.ranked) :
    c.stale => \E ref \in Node[c.id].refs : ref.tail \notin look.symbols

\* Refuted (README, section 5): provenance and authority come before the weight.
StaleIsNotTheHeadline ==
  look.pc = "cards" /\ look.ranked # <<>> =>
    (look.ranked[1].stale => \A c \in ToSet(look.ranked) : c.stale)

\* Refuted (README, section 5): a floor of EXTRACTED does not hold back the inferred classes.
FloorHolds ==
  look.pc = "neighbours" => \A n \in ToSet(look.found) : TrustRank(n.trust) >= TrustRank(look.ask.floor)
================================================================================
