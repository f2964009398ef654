----------------------------- MODULE TaskContext -----------------------------
(***************************************************************************)
(* get_task_context of the mcp-server: four retrieval nodes that run at    *)
(* once, a synthesis that filters, trims and meters, and one broadened     *)
(* retry.  Source: context_broker/task_context.py, task_context_nodes.py.  *)
(*                                                                         *)
(* Every node resolves the scope by itself, from the index as it is at     *)
(* that moment; the version is pinned once, the index is not versioned.    *)
(*                                                                         *)
(* Abstractions.  A query is a model value whose ranked hits are given;    *)
(* texts, captions and clocks are left out; the size of a response is the  *)
(* number of its entries and paths.                                        *)
(***************************************************************************)
EXTENDS Integers, FiniteSets, Sequences, FiniteSetsExt, SequencesExt, Selections

CONSTANTS
  Arts,          \* artifact ids of the pinned version
  Art,           \* Art[a]: [type, path, title, rank, visible, about]
  Links,         \* the EXTRACTED member edges, in the order of the query: [type, a, b]
  AliasTargets,  \* AliasTargets[a]: ranked targets of an alias_reference row
  AliasTier,     \* AliasTier[a]: its tier
  Indexes,       \* states of the index: query -> sequence of [id, score]
  Asks,          \* requests: [task, symbols, files: [query, paths], floor, cap]
  SearchTop, BroadTop, MaxEntities, MaxConventions, MaxPrior, MaxNeighbors,
  MaxTaskAsks    \* bound: calls started

IndexHits == [id : Arts, score : Nat]
Tiers == {"interpreted", "deterministic", "ground_truth"}

\* The index answers every query with hits of the version; edges join its members; an
\* alias has a list of targets, of this version or not.
ASSUME TaskAssumption ==
  /\ \A n \in {SearchTop, BroadTop, MaxEntities, MaxConventions, MaxPrior, MaxNeighbors} :
       n \in Nat \ {0}
  /\ MaxTaskAsks \in Nat
  /\ \A a \in Arts : /\ Art[a].rank \in Int
                     /\ Art[a].type = "alias_reference" => /\ AliasTargets[a] \in Seq(ToSet(AliasTargets[a]))
                                                          /\ AliasTier[a] \in Tiers
  /\ Links \in Seq(ToSet(Links)) /\ \A e \in ToSet(Links) : e.a \in Arts /\ e.b \in Arts
  /\ \A req \in Asks : /\ req.symbols \in Seq(ToSet(req.symbols)) /\ req.files \in Seq(ToSet(req.files))
                       /\ req.cap \in Int
                       /\ \A ix \in Indexes :
                            \A q \in {req.task} \union ToSet(req.symbols) \union {f.query : f \in ToSet(req.files)} :
                              ix[q] \in Seq(IndexHits)

VARIABLES
  index,     \* the state of the search index
  task,      \* the call in flight
  taskAsks,  \* calls started so far
  answers    \* answers with their ledger rows

taskVars == <<index, task, taskAsks, answers>>

--------------------------------------------------------------------------------
(* Retrieval *)

SymbolTypes == {"code_symbol", "endpoint"}
CodeTypes == SymbolTypes \union {"code_file", "test"}
TierRank == [interpreted |-> 0, deterministic |-> 1, ground_truth |-> 2]
AdmitsFloor(tier, floor) == TierRank[tier] >= TierRank[floor]

FirstN(s, n) == SubSeq(s, 1, Min({n, Len(s)}))
VisibleArts == {a \in Arts : Art[a].visible}

\* Hints of the index, hydrated and filtered, in rank order.
SearchRows(q, top) == Among(FirstN(index[q], top), {h \in IndexHits : h.id \in VisibleArts})

Ids(hits) == [i \in DOMAIN hits |-> hits[i].id]
OfType(hits, types) == Among(hits, {h \in ToSet(hits) : Art[h.id].type \in types})

\* A list by path and name; artifacts have a place in that order.
ByRank(s, ids) == Ranked(s, [i \in DOMAIN s |-> Art[ids[i]].rank], Len(s))

Entity(a, src, tier) == [id |-> a, src |-> src, tier |-> tier]
NoScope == [entities |-> <<>>, ambiguous |-> <<>>, questions |-> {}]
Unresolved(s) == s.entities = <<>> /\ s.ambiguous = <<>>

--------------------------------------------------------------------------------
(* The resolution chain: hints, then the alias index, then search *)

\* One hint: its definite match, or all its candidates, or neither.
SymbolMatches(sym) ==
  Among(Ids(SearchRows(sym, SearchTop)), {a \in Arts : Art[a].type \in SymbolTypes /\ Art[a].title = sym})

\* One artifact for every path the hint matches, its code_file if there is one.
FileMatches(file) ==
  LET rows == Among(Ids(SearchRows(file.query, SearchTop)), {a \in Arts : Art[a].path \in file.paths})
      first(a, i) == \A j \in DOMAIN rows : Art[rows[j]].path = Art[a].path =>
                       IF Art[a].type = "code_file"
                       THEN j >= i \/ Art[rows[j]].type # "code_file"
                       ELSE j >= i /\ Art[rows[j]].type # "code_file"
      kept == Picked(rows, {i \in DOMAIN rows : first(rows[i], i)})
  IN  ByRank(kept, kept)

HintScope(matches) ==
  LET definite == Among(matches, {m \in ToSet(matches) : Len(m) = 1})
  IN  [entities  |-> [i \in DOMAIN definite |-> Entity(definite[i][1], "hint", "deterministic")],
       ambiguous |-> Among(matches, {m \in ToSet(matches) : Len(m) > 1}),
       questions |-> {q \in {"which"} : \E m \in ToSet(matches) : Len(m) > 1} \union
                     {q \in {"not_found"} : <<>> \in ToSet(matches)}]

FromHints(req) ==
  HintScope([i \in DOMAIN req.symbols |-> SymbolMatches(req.symbols[i])] \o
            [i \in DOMAIN req.files |-> FileMatches(req.files[i])])

\* An alias that scores at least four fifths of the best one and points elsewhere
\* makes the phrase ambiguous.
FromAlias(rows) ==
  LET al == OfType(rows, {"alias_reference"})
      top == al[1].id
      differing == Among(Tail(al), {h \in ToSet(al) : /\ 10 * h.score >= 8 * al[1].score
                                                      /\ AliasTargets[h.id] # <<>>
                                                      /\ ToSet(AliasTargets[h.id]) #
                                                         ToSet(AliasTargets[top])})
      all == Firsts(AliasTargets[top] \o
                    FlattenSeq([i \in DOMAIN differing |-> AliasTargets[differing[i].id]]))
      known == Among(AliasTargets[top], VisibleArts)
  IN  IF al = <<>> THEN NoScope
      ELSE IF AliasTargets[top] = <<>> THEN NoScope
      ELSE IF differing # <<>>
      THEN [NoScope EXCEPT !.ambiguous = <<all>>, !.questions = {"which"}]
      ELSE [NoScope EXCEPT !.entities =
              FirstN([i \in DOMAIN known |-> Entity(known[i], "alias_index", AliasTier[top])],
                     MaxEntities)]

FromSearch(rows, broad) ==
  LET c == FirstN(Among(Ids(rows), {a \in Arts : IF broad
                                                 THEN Art[a].type \notin {"alias_reference", "commit"}
                                                 ELSE Art[a].type \in CodeTypes}), MaxEntities)
  IN  [NoScope EXCEPT !.entities = [i \in DOMAIN c |-> Entity(c[i], "search", "interpreted")]]

\* resolve_entities; ambiguity at a stage stops the chain.
Resolve(req, broad) ==
  LET hints == FromHints(req)
      rows  == SearchRows(req.task, IF broad THEN BroadTop ELSE SearchTop)
      alias == FromAlias(rows)
  IN  IF ~Unresolved(hints) THEN hints
      ELSE IF ~Unresolved(alias)
      THEN [alias EXCEPT !.questions = @ \union hints.questions]
      ELSE [FromSearch(rows, broad) EXCEPT !.questions = hints.questions]

SearchRan(req) == Unresolved(FromHints(req))

--------------------------------------------------------------------------------
(* The nodes *)

Touching(ids, types) ==
  Among(Links, {e \in ToSet(Links) : e.type \in types /\ (e.a \in ids \/ e.b \in ids)})

\* The first edges from elsewhere into the seeds, and out of them.
Into(links, seeds, types) ==
  FirstN(Among(links, {e \in ToSet(links) : e.type \in types /\ e.b \in seeds /\ e.a \notin seeds}), MaxNeighbors)
OutOf(links, seeds, types) ==
  FirstN(Among(links, {e \in ToSet(links) : e.type \in types /\ e.a \in seeds /\ e.b \notin seeds}), MaxNeighbors)

\* The file of each definition: the last row of the first hop, or the first one of the second.
DefiningFile(in1, in2) ==
  LET def(s, a) == {i \in DOMAIN s : s[i].a = a}
  IN  [a \in {e.a : e \in ToSet(in1) \union ToSet(in2)} |->
         IF def(in1, a) # {} THEN in1[Max(def(in1, a))].b ELSE in2[Min(def(in2, a))].b]

\* calls_edge_tier: a call is a fact only when the files of its ends corroborate it.
CallTier(fileOf, imports, e) ==
  IF /\ e.a \in DOMAIN fileOf /\ e.b \in DOMAIN fileOf
     /\ fileOf[e.a] = fileOf[e.b] \/ <<fileOf[e.a], fileOf[e.b]>> \in imports
  THEN "deterministic" ELSE "interpreted"

Entry(n, e, fileOf, imports) ==
  [id |-> n, edge |-> e,
   tier |-> IF e.type = "calls" THEN CallTier(fileOf, imports, e) ELSE "deterministic"]

\* The entries the requester may see, in order.
Shown(entries) ==
  LET seen == Among(entries, {x \in ToSet(entries) : x.id \in VisibleArts})
  IN  ByRank(seen, Ids(seen))

NoBlast == [callers |-> <<>>, callees |-> <<>>, tests |-> <<>>, queries |-> 0]

\* The edges of a scope and the second hop that corroborates them.
BlastOf(scope) ==
  LET seeds   == {e.id : e \in ToSet(scope.entities)}
      hop1    == Touching(seeds, {"calls", "imports", "tests", "defined_in"})
      callers == Into(hop1, seeds, {"calls", "imports"})
      callees == OutOf(hop1, seeds, {"calls", "imports"})
      tests   == Into(hop1, seeds, {"tests"})
      defs(hop) == Among(hop, {e \in ToSet(hop) : e.type = "defined_in"})
      near    == {e.a : e \in ToSet(callers) \union ToSet(tests)} \union {e.b : e \in ToSet(callees)}
                   \union {e.b : e \in ToSet(defs(hop1))}
      hop2    == Touching(near, {"defined_in", "imports"})
      fileOf  == DefiningFile(defs(hop1), defs(hop2))
      imports == {<<e.a, e.b>> : e \in {x \in ToSet(hop1) \union ToSet(hop2) : x.type = "imports"}}
      sources(es) == [i \in DOMAIN es |-> Entry(es[i].a, es[i], fileOf, imports)]
      targets(es) == [i \in DOMAIN es |-> Entry(es[i].b, es[i], fileOf, imports)]
  IN  IF seeds = {} THEN NoBlast
      ELSE [callers |-> Shown(sources(callers)), callees |-> Shown(targets(callees)),
            tests |-> Shown(sources(tests)), queries |-> IF near = {} THEN 1 ELSE 2]

\* The documents about one of these paths; all of them where none is.
Relevant(docs, near) ==
  LET relevant == Among(docs, {a \in Arts : Art[a].about \cap near # {}})
  IN  IF relevant # <<>> THEN relevant ELSE docs

ConventionsOf(req, broad) ==
  LET docs == Among(Ids(SearchRows(req.task, SearchTop)),
                {a \in Arts : Art[a].type \notin CodeTypes \union {"alias_reference", "commit"}})
  IN  FirstN(Relevant(docs, {Art[e.id].path : e \in ToSet(Resolve(req, broad).entities)}),
             MaxConventions)

PriorOf(req) == FirstN(Ids(OfType(SearchRows(req.task, BroadTop), {"commit"})), MaxPrior)

\* Searches and edge queries a node issues (meter.calls).
ResolveCalls(req) ==
  Len(req.symbols) + Len(req.files) + (IF SearchRan(req) THEN 1 ELSE 0)
ConventionCalls(req, broad) ==
  ResolveCalls(req) + (IF broad \/ ~SearchRan(req) THEN 1 ELSE 0)

--------------------------------------------------------------------------------
(* Synthesis *)

FloorEntries(es, floor) == Among(es, {e \in ToSet(es) : AdmitsFloor(e.tier, floor)})

\* What the nodes found, without what lies below the confidence floor.
Floored(t) ==
  LET f == t.req.floor
      low(s) == IF AdmitsFloor("interpreted", f) THEN s ELSE <<>>
  IN  [entities |-> FloorEntries(t.scope.entities, f), ambiguous |-> t.scope.ambiguous,
       prior |-> low(t.prior), conventions |-> low(t.conventions),
       callees |-> FloorEntries(t.blast.callees, f), callers |-> FloorEntries(t.blast.callers, f),
       tests |-> FloorEntries(t.blast.tests, f)]

Paths(r) == {Art[e.id].path : e \in ToSet(r.callers) \union ToSet(r.callees) \union ToSet(r.tests)}

Buckets == <<"prior", "conventions", "callees", "callers", "tests">>     \* cheapest first
Items(r) == Len(r.prior) + Len(r.conventions) + Len(r.callees) + Len(r.callers) + Len(r.tests)

\* The response has a fixed part and an entry per item and per path it refers to.
Size(r) == Len(r.entities) + Len(r.ambiguous) + Cardinality(Paths(r)) + Items(r)

\* What is left of a list when so many items are dropped, from its end, after those before it.
Without(s, dropped, before) ==
  SubSeq(s, 1, Len(s) - (IF dropped <= before THEN 0
                         ELSE IF dropped - before < Len(s) THEN dropped - before ELSE Len(s)))

\* A response without so many items, from the cheapest list on.
Dropping(r, n) ==
  LET p == Len(r.prior)  c == p + Len(r.conventions)
      o == c + Len(r.callees)  i == o + Len(r.callers)
  IN  [r EXCEPT !.prior = Without(@, n, 0), !.conventions = Without(@, n, p), !.callees = Without(@, n, c),
                !.callers = Without(@, n, o), !.tests = Without(@, n, i)]

Trimmable(r) == \E b \in ToSet(Buckets) : r[b] # <<>>

\* One item is dropped after another until the response fits or none is left.
Trim(r, cap) ==
  LET fits == {n \in 0 .. Items(r) : Size(Dropping(r, n)) <= cap}
  IN  Dropping(r, IF fits = {} THEN Items(r) ELSE Min(fits))

EvidenceBeforeTrim(r, full) ==     \* (mutant) the ids of what was trimmed are reported too
  {e.id : e \in ToSet(full.entities) \union ToSet(full.callers) \union ToSet(full.callees) \union ToSet(full.tests)}
  \union (UNION {ToSet(m) : m \in ToSet(full.ambiguous)}) \union ToSet(full.conventions)
  \union ToSet(full.prior)

\* evidence_ids: every id the response shows.
Evidence(r, full) ==
  {e.id : e \in ToSet(r.entities) \union ToSet(r.callers) \union ToSet(r.callees) \union ToSet(r.tests)}
  \union (UNION {ToSet(m) : m \in ToSet(r.ambiguous)}) \union ToSet(r.conventions) \union ToSet(r.prior)

Questions(t) ==
  t.scope.questions \union
  {q \in {"no_entity"} : FloorEntries(t.scope.entities, t.req.floor) = <<>>
                         /\ t.scope.ambiguous = <<>> /\ t.broad}

--------------------------------------------------------------------------------
(* The graph run *)

NoTask == [pc |-> "idle"]
GraphNodes == {"resolve_scope", "blast_radius", "conventions", "similar_prior_changes"}

BeginCall(req) ==
  /\ task = NoTask /\ taskAsks < MaxTaskAsks
  /\ taskAsks' = taskAsks + 1
  /\ task' = [pc |-> "fan_out", req |-> req, broad |-> FALSE, left |-> GraphNodes, calls |-> 0,
              passes |-> 0, scope |-> NoScope, blast |-> NoBlast, conventions |-> <<>>,
              prior |-> <<>>, first |-> NoScope]
  /\ UNCHANGED <<index, answers>>

\* The run with a neighbourhood and the queries it took, those of its own scope included.
Reached(t, bl) == [t EXCEPT !.blast = bl, !.calls = @ + ResolveCalls(t.req) + bl.queries]

\* A node writes its own key; the counter carries a reducer.
RunNode(n) ==
  LET r == task.req  b == task.broad
      done == [task EXCEPT !.left = @ \ {n}]
  IN  /\ task.pc = "fan_out" /\ n \in task.left
      /\ task' =
           CASE n = "resolve_scope" ->
                  [done EXCEPT !.scope = Resolve(r, b), !.calls = @ + ResolveCalls(r)]
             [] n = "blast_radius" -> Reached(done, BlastOf(Resolve(r, b)))
             [] n = "conventions" ->
                  [done EXCEPT !.conventions = ConventionsOf(r, b),
                               !.calls = @ + ConventionCalls(r, b)]
             [] n = "similar_prior_changes" -> [done EXCEPT !.prior = PriorOf(r), !.calls = @ + 1]
      /\ UNCHANGED <<index, taskAsks, answers>>

\* One retry, for a scope that is empty before the floor.
MustBroaden(t) == Unresolved(t.scope) /\ ~t.broad

Broaden ==
  /\ task.pc = "fan_out" /\ task.left = {} /\ MustBroaden(task)
  /\ task' = [task EXCEPT !.broad = TRUE, !.left = GraphNodes, !.passes = @ + 1, !.first = task.scope]
  /\ UNCHANGED <<index, taskAsks, answers>>

\* The last synthesis and the ledger row.
Synthesize ==
  LET full == Floored(task)
      r == Trim(full, task.req.cap)
  IN  /\ task.pc = "fan_out" /\ task.left = {} /\ ~MustBroaden(task)
      /\ answers' = answers \union
           {[req |-> task.req, full |-> full, resp |-> r, paths |-> Paths(r),
             questions |-> Questions(task), calls |-> task.calls,
             ledger |-> Evidence(r, full), retried |-> task.broad, first |-> task.first]}
      /\ task' = NoTask
      /\ UNCHANGED <<index, taskAsks>>

\* A query raises: the run ends without an answer.
NodeFails ==
  /\ task.pc = "fan_out" /\ task.left # {}
  /\ task' = NoTask
  /\ UNCHANGED <<index, taskAsks, answers>>

\* The builder changes the index, before it activates what it builds.
Reindex(i) ==
  /\ index # i
  /\ index' = i
  /\ UNCHANGED <<task, taskAsks, answers>>

TaskInit == index \in Indexes /\ task = NoTask /\ taskAsks = 0 /\ answers = {}

TaskNext ==
  \/ \E req \in Asks : BeginCall(req)
  \/ \E n \in GraphNodes : RunNode(n)
  \/ Broaden \/ Synthesize \/ NodeFails
  \/ \E i \in Indexes : Reindex(i)

TaskSpec == TaskInit /\ [][TaskNext]_taskVars

--------------------------------------------------------------------------------
(* Properties *)

\* Trimming spares the more valuable lists: a list is cut only when the cheaper ones
\* are empty, no more than the cap asks for, and the scope never (synthesize_node).
TrimSparesTheValuable ==
  \A x \in answers :
    LET cut(b) == Len(x.resp[b]) < Len(x.full[b])
    IN  /\ x.resp.entities = x.full.entities /\ x.resp.ambiguous = x.full.ambiguous
        /\ Size(x.resp) <= x.req.cap \/ ~Trimmable(x.resp)
        /\ \A i \in DOMAIN Buckets : /\ IsPrefix(x.resp[Buckets[i]], x.full[Buckets[i]])
                                     /\ cut(Buckets[i]) => \A j \in 1..(i - 1) : x.resp[Buckets[j]] = <<>>
        /\ \A b \in ToSet(Buckets) :
             cut(b) => Size([x.resp EXCEPT ![b] = SubSeq(x.full[b], 1, Len(@) + 1)]) > x.req.cap
                       \/ \E c \in ToSet(Buckets) \ {b} : cut(c)

\* The ledger row, on which a later verify_answer relies, names what the response
\* shows and nothing that was trimmed or filtered away (_collect_evidence).
LedgerCoversTheAnswer ==
  \A x \in answers :
    x.ledger = {e.id : e \in ToSet(x.resp.entities) \union ToSet(x.resp.callers)
                             \union ToSet(x.resp.callees) \union ToSet(x.resp.tests)}
               \union (UNION {ToSet(x.resp.ambiguous[i]) : i \in DOMAIN x.resp.ambiguous})
               \union ToSet(x.resp.prior) \union ToSet(x.resp.conventions)

\* Where every definition has one file, a call counts as deterministic exactly when
\* the graph itself puts both ends in one file or has the import (blast_radius_node).
DefinedFiles(a) == {e.b : e \in {x \in ToSet(Links) : x.type = "defined_in" /\ x.a = a}}
Corroborated(e) ==
  \E f \in DefinedFiles(e.a), g \in DefinedFiles(e.b) :
    f = g \/ \E x \in ToSet(Links) : x.type = "imports" /\ x.a = f /\ x.b = g

TiersMatchTheGraph ==
  \A x \in answers : \A n \in ToSet(x.full.callers) \union ToSet(x.full.callees) :
    n.edge.type = "calls"
    /\ Cardinality(DefinedFiles(n.edge.a)) <= 1 /\ Cardinality(DefinedFiles(n.edge.b)) <= 1
      => (n.tier = "deterministic") = Corroborated(n.edge)

\* A name with several definitions is never answered by one of them, nor a path that
\* fits several files by one, whatever the index did between the nodes: an entity of a
\* hint is all that one state of the index had of that name, or stands for the only path
\* that fits, by its code_file if that was found (_resolve_from_hints).
NothingIsGuessed ==
  \A x \in answers : \A e \in ToSet(x.resp.entities) :
    e.src = "hint" =>
      \E ix \in Indexes :
        LET found(q) == {h.id : h \in ToSet(FirstN(ix[q], SearchTop))} \cap VisibleArts
        IN  \/ \E s \in ToSet(x.req.symbols) :
                 {a \in found(s) : Art[a].type \in SymbolTypes /\ Art[a].title = s} = {e.id}
            \/ \E f \in ToSet(x.req.files) :
                 LET fitting == {a \in found(f.query) : Art[a].path \in f.paths}
                 IN  /\ e.id \in fitting
                     /\ \A a \in fitting : /\ Art[a].path = Art[e.id].path
                                           /\ Art[a].type = "code_file" => Art[e.id].type = "code_file"

\* The graph is run again only when the first pass found nothing, not even an
\* ambiguity, and an ambiguous answer asks its question (_route_after_synthesize).
RetryOnlyWhenEmpty ==
  \A x \in answers : /\ x.retried => Unresolved(x.first)
                     /\ x.resp.ambiguous # <<>> => "which" \in x.questions

\* An answer, its ledger row and its route agree with each other and with the graph.
TaskAnswersAreSound ==
  /\ TrimSparesTheValuable /\ LedgerCoversTheAnswer /\ TiersMatchTheGraph
  /\ NothingIsGuessed /\ RetryOnlyWhenEmpty

\* Two equal requests against one served build get one answer.
SameBuildSameAnswer ==
  \A x, y \in answers : x.req = y.req => x.resp = y.resp /\ x.questions = y.questions
================================================================================
