---------------------------- MODULE ChangeContext ----------------------------
(***************************************************************************)
(* context.create_change_pack of the mcp-server: which files a change      *)
(* needs.  Targets, then their tests, then the interfaces they import, at  *)
(* the version read first, in several transactions while another version   *)
(* may be activated.  Source: context_broker/change_context.py.            *)
(*                                                                         *)
(* Abstractions.  A text is the set of names it mentions; a search is its  *)
(* ranked hits; a path is a file with its directories and stem; scores     *)
(* and confidences are hundredths.  Rows without ORDER BY come in one of   *)
(* RowOrders, elements of a Python set in any order.                       *)
(***************************************************************************)
EXTENDS Integers, FiniteSets, Sequences, SequencesExt, Selections

CONSTANTS
  CodeArts,         \* artifact ids
  CodeArt,          \* CodeArt[u]: [type, file, title, mentions, chars, visible, from, until]
  Files, File,   \* File[f]: [service, shares (directories, by file), stem, holds (stems in its
                 \* name), test, utility, guesses]
  CodeEdges,         \* the knowledge edges, in the order of the query: [type, a, b, from, until]
  Contracts,     \* titles of errors, clients, configurations, ...
  RowOrders,     \* orders in which the database may return rows: sequences of CodeArts
  ChangeTasks,   \* [hits, testHits, classes, named (files), words, budget]
  MaxTests, MaxDependencies, PointerTokens

CONSTANT MaxVersion    \* bound: builds activated

\* Rows come in some order of all of them; what they name is there; sizes are numbers.
ASSUME ChangeAssumption ==
  /\ \A order \in RowOrders : order \in Seq(CodeArts) /\ ToSet(order) = CodeArts
  /\ \A u \in CodeArts : CodeArt[u].file \in Files /\ CodeArt[u].chars \in Nat
  /\ \A f \in Files : File[f].guesses \in Seq(Files) /\ \A g \in Files : File[f].shares[g] \in Nat
  /\ CodeEdges \in Seq(ToSet(CodeEdges))
  /\ \A e \in ToSet(CodeEdges) : e.a \in CodeArts /\ e.b \in CodeArts
  /\ \A task \in ChangeTasks : /\ task.hits \in Seq(CodeArts) /\ task.testHits \in Seq(CodeArts)
                               /\ task.budget \in Int
  /\ MaxTests \in Nat /\ MaxDependencies \in Nat /\ PointerTokens \in Nat /\ MaxVersion \in Nat

VARIABLES
  activeSeq,   \* sequence number of the active build; 0: none
  draft,     \* the call in flight
  packRows      \* its retrieval_event rows

changeVars == <<activeSeq, draft, packRows>>

--------------------------------------------------------------------------------
(* Paths *)

Elsewhere == "none"     \* no directory of a service
Service(f) == File[f].service
SameService(scope, f) == Elsewhere \in {scope, Service(f)} \/ Service(f) = scope

\* The service of the targets, if there is one only.
Scope(files) ==
  LET s == {Service(f) : f \in files} \ {Elsewhere}
  IN  IF Cardinality(s) = 1 THEN CHOOSE x \in s : TRUE ELSE Elsewhere

\* Directories a file shares with the first target.
Proximity(paths, f) == IF paths = <<>> THEN 0 ELSE File[paths[1]].shares[f]

--------------------------------------------------------------------------------
(* Rows of the pinned version *)

InVersionNow(x, n) == x.from <= activeSeq /\ activeSeq < x.until     \* (mutant) of the version served now
InVersion(x, n) == x.from <= n /\ n < x.until

Fetched(ids, n) == Among(draft.order, {u \in ids : InVersion(CodeArt[u], n)})
Visible(us) == Among(us, {u \in CodeArts : CodeArt[u].visible})
EdgesAt(ids, types, n) ==
  Among(CodeEdges, {e \in ToSet(CodeEdges) :
                      InVersion(e, n) /\ {e.a, e.b} \cap ids # {} /\ (types = {} \/ e.type \in types)})
OtherEnd(e, ids) == IF e.a \in ids THEN e.b ELSE e.a
FileOf(u) == CodeArt[u].file

\* Characters known of each file, and the estimate made of them when a file is selected.
Counting(chars, us) ==
  [f \in Files |-> chars[f] + Total([i \in DOMAIN us |-> IF FileOf(us[i]) = f THEN CodeArt[us[i]].chars ELSE 0])]
Estimate(chars, f) == IF chars[f] = 0 THEN PointerTokens ELSE (chars[f] + 3) \div 4
Ref(f, conf, chars) == [file |-> f, conf |-> conf, tokens |-> Estimate(chars, f)]
FilesIn(refs) == {refs[i].file : i \in DOMAIN refs}
Tokens(refs) == Total([i \in DOMAIN refs |-> refs[i].tokens])

\* The files of a list that are in ok and not selected yet join the selection, each once.
Selecting(refs, files, ok, conf, chars) ==
  LET new == Firsts(Among(files, ok \ FilesIn(refs)))
  IN  refs \o [i \in DOMAIN new |-> Ref(new[i], conf, chars)]
FilesOf(us) == [i \in DOMAIN us |-> FileOf(us[i])]

--------------------------------------------------------------------------------
(* Stage 2: targets *)

CodeKinds == {"code_symbol", "code_file", "endpoint", "test"}

AddTargets(found, us, conf) ==
  [found EXCEPT !.symbols = @ \o Among(us, {u \in CodeArts : CodeArt[u].type = "code_symbol"}),
                !.targets = Selecting(@, FilesOf(us), {f \in Files : ~ File[f].test}, conf, found.chars)]

Targets(code, chars) ==
  LET none == [symbols |-> <<>>, targets |-> <<>>, chars |-> chars]
      exact == AddTargets(none, Among(code, {u \in CodeArts : CodeArt[u].title \in draft.task.classes}), 96)
      named == AddTargets(exact, Among(code, {u \in CodeArts : FileOf(u) \in draft.task.named}), 85)
  IN  IF exact.targets # <<>> THEN exact
      ELSE IF named.targets # <<>> \/ code = <<>> THEN named
      ELSE AddTargets(named, <<code[1]>>, 55)

Hydrated(hits, n) ==
  LET allowed == Visible(Fetched(ToSet(hits), n))
  IN  [allowed |-> allowed,
       code |-> Among(hits, {u \in ToSet(allowed) : CodeArt[u].type \in CodeKinds})]

--------------------------------------------------------------------------------
(* Stage 3: tests *)

Titles(us) == {CodeArt[us[i]].title : i \in DOMAIN us}

AddTests(tests, files, conf, chars, scope) ==
  Selecting(tests, files, {f \in Files : SameService(scope, f)}, conf, chars)

\* From the edges, then from the hits that mention a symbol of a target.
KnownTests(p) ==
  LET linked == Among(p.edges, {e \in ToSet(p.edges) :
                                 e.type = "tests" /\ e.b \in ToSet(p.symbols) /\ e.a \in p.near})
      mentioning == Among(p.allowed, {u \in CodeArts :
                      File[FileOf(u)].test /\ CodeArt[u].mentions \cap Titles(p.symbols) # {}})
      byEdge == AddTests(<<>>, [i \in DOMAIN linked |-> FileOf(linked[i].a)], 90, p.chars, p.scope)
  IN  AddTests(byEdge, FilesOf(mentioning), 80, p.chars, p.scope)

\* A focused search; the characters of a row are counted before its file is added.
SearchedTests(p) ==
  LET rows == Among(Visible(Fetched(ToSet(p.task.testHits), p.version)), {u \in CodeArts : File[FileOf(u)].test})
      new == {i \in DOMAIN rows : /\ SameService(p.scope, FileOf(rows[i]))
                                  /\ \A j \in 1 .. i - 1 : FileOf(rows[j]) # FileOf(rows[i])}
  IN  [p EXCEPT !.chars = Counting(@, rows),
                !.tests = Picked([i \in DOMAIN rows |-> Ref(FileOf(rows[i]), 70, Counting(p.chars, SubSeq(rows, 1, i)))],
                                 new)]
\* By naming convention; nobody looked whether the files exist.
GuessedTests(p) ==
  AddTests(<<>>, FlattenSeq([i \in DOMAIN p.paths |-> File[p.paths[i]].guesses]), 50, p.chars, p.scope)

NamesATarget(p, f) == \E t \in FilesIn(p.targets) : File[t].stem \in File[f].holds
TestsRanked(p) ==
  Ranked(p.tests, [i \in DOMAIN p.tests |->
           (IF NamesATarget(p, p.tests[i].file) THEN 0 ELSE 100000)
           - 100 * Proximity(p.paths, p.tests[i].file) - p.tests[i].conf], MaxTests)

--------------------------------------------------------------------------------
(* Stage 4: dependencies *)

TargetFileIds(p) ==
  {e.b : e \in {e \in ToSet(p.edges) : e.type = "defined_in" /\ e.a \in ToSet(p.symbols)}} \union
  {u \in ToSet(p.code) : CodeArt[u].type = "code_file" /\ FileOf(u) \in FilesIn(p.targets)}

ImportedIds(p, own) == {OtherEnd(e, own) : e \in ToSet(EdgesAt(own, {"imports"}, p.version))} \ own

\* The symbols of the imported files, restricted ones too, each under the last of its edges.
DefinedIn(p) ==
  LET defs == EdgesAt(p.imported, {"defined_in"}, p.version)
      last(u) == CHOOSE i \in DOMAIN defs : defs[i].a = u /\ \A j \in DOMAIN defs : defs[j].a = u => j <= i
      syms == Fetched({e.a : e \in {e \in ToSet(defs) : e.b \in p.imported}}, p.version)
  IN  [i \in DOMAIN syms |-> [sym |-> syms[i], in |-> defs[last(syms[i])].b]]

Score(p, id) ==
  LET body == UNION {CodeArt[u].mentions : u \in ToSet(p.code) \cap ToSet(p.symbols)}
      worth(title) == (IF title \in p.task.words THEN 40 ELSE 0) + (IF title \in body THEN 45 ELSE 0)
                      + (IF title \in Contracts THEN 25 ELSE 0)
      used == Total([i \in DOMAIN p.defs |-> IF p.defs[i].in = id THEN worth(CodeArt[p.defs[i].sym].title) ELSE 0])
  IN  IF File[FileOf(id)].utility /\ File[FileOf(id)].stem \notin p.task.words THEN used - 50 ELSE used

Scored(p) ==
  LET imported == Visible(Fetched(p.imported, p.version))
      all == [i \in DOMAIN imported |-> [file |-> FileOf(imported[i]), score |-> Score(p, imported[i])]]
  IN  Among(all, {d \in ToSet(all) : ~ File[d.file].test /\ d.file \notin FilesIn(p.targets)
                                     /\ SameService(p.scope, d.file) /\ d.score > 0})

Dependencies(p) ==
  LET best == Ranked(p.scored, [i \in DOMAIN p.scored |->
                - 100 * p.scored[i].score - Proximity(p.paths, p.scored[i].file)], MaxDependencies)
      conf(n) == IF 55 + n \div 2 > 95 THEN 95 ELSE 55 + n \div 2
  IN  [i \in DOMAIN best |-> Ref(best[i].file, conf(best[i].score), p.chars)]

WithinBudget(essential, deps, budget) ==
  FoldLeft(LAMBDA kept, d : IF essential + Tokens(kept) + d.tokens > budget THEN kept ELSE Append(kept, d),
           <<>>, deps)
--------------------------------------------------------------------------------
(* The call *)

BeginPack ==
  /\ draft.pc = "start"
  /\ draft' = [draft EXCEPT !.pc = IF activeSeq = 0 THEN "done" ELSE "targets", !.version = activeSeq]
  /\ UNCHANGED <<activeSeq, packRows>>

SelectTargets ==
  /\ draft.pc = "targets"
  /\ LET h == Hydrated(draft.task.hits, draft.version)
         t == Targets(h.code, Counting([f \in Files |-> 0], h.allowed))
     IN  draft' = [draft EXCEPT !.pc = "neighbours", !.allowed = h.allowed, !.code = h.code,
                              !.symbols = t.symbols, !.targets = t.targets, !.chars = t.chars]
  /\ UNCHANGED <<activeSeq, packRows>>

ReadNeighbours ==
  /\ draft.pc = "neighbours"
  /\ LET seeds == ToSet(draft.symbols) \union {u \in ToSet(draft.code) : FileOf(u) \in FilesIn(draft.targets)}
         edges == EdgesAt(seeds, {}, draft.version)
         near == Visible(Fetched({OtherEnd(edges[i], seeds) : i \in DOMAIN edges}, draft.version))
     IN  draft' = [draft EXCEPT !.pc = "tests", !.edges = edges, !.near = ToSet(near),
                              !.chars = Counting(@, near)]
  /\ UNCHANGED <<activeSeq, packRows>>

Steps(from, next) == draft.pc = from /\ draft' = next /\ UNCHANGED <<activeSeq, packRows>>

\* target_paths is a Python set: its first element is any element.
FindKnownTests ==
  \E order \in SetToSeqs(FilesIn(draft.targets)) :
    LET p == [draft EXCEPT !.paths = order, !.scope = Scope(FilesIn(draft.targets)), !.pc = "search"]
    IN  Steps("tests", [p EXCEPT !.tests = KnownTests(p)])

SearchTests ==
  Steps("search", [(IF draft.tests = <<>> THEN SearchedTests(draft) ELSE draft) EXCEPT !.pc = "guess"])

GuessTests ==
  Steps("guess", [draft EXCEPT !.pc = "rank", !.tests = IF @ = <<>> THEN GuessedTests(draft) ELSE @])

RankTests == Steps("rank", [draft EXCEPT !.pc = "imports", !.tests = TestsRanked(draft)])

FollowImports ==
  Steps("imports", [draft EXCEPT !.pc = "definitions", !.imported = ImportedIds(draft, TargetFileIds(draft))])

FetchDefinitions == Steps("definitions", [draft EXCEPT !.pc = "score", !.defs = DefinedIn(draft)])

ScoreImports ==
  Steps("score", [draft EXCEPT !.pc = "choose", !.scored = Scored(draft),
                    !.chars = Counting(@, [i \in DOMAIN draft.defs |-> draft.defs[i].sym])])

ChooseDependencies == Steps("choose", [draft EXCEPT !.pc = "budget", !.found = Dependencies(draft)])

EnforceBudget ==
  Steps("budget", [draft EXCEPT !.pc = "ledger", !.deps =
    WithinBudget(Tokens(draft.targets) + Tokens(draft.tests), draft.found, draft.task.budget)])

RowOf(p) ==
  [version |-> p.version, files |-> <<FilesIn(p.targets), FilesIn(p.tests), FilesIn(p.deps)>>]
AnswerPack ==
  /\ draft.pc = "ledger"
  /\ packRows' = Append(packRows, RowOf(draft))
  /\ draft' = [draft EXCEPT !.pc = "done"]
  /\ UNCHANGED activeSeq

ActivateNewer ==
  /\ activeSeq < MaxVersion
  /\ activeSeq' = activeSeq + 1
  /\ UNCHANGED <<draft, packRows>>

Fresh(task, order) ==
  [pc |-> "start", task |-> task, order |-> order, version |-> 0, allowed |-> <<>>, code |-> <<>>,
   symbols |-> <<>>, targets |-> <<>>, chars |-> [f \in Files |-> 0], edges |-> <<>>, near |-> {},
   paths |-> <<>>, scope |-> Elsewhere, tests |-> <<>>, imported |-> {}, defs |-> <<>>,
   scored |-> <<>>, found |-> <<>>, deps |-> <<>>]

ChangeInit ==
  /\ activeSeq \in 0..MaxVersion
  /\ \E task \in ChangeTasks, order \in RowOrders : draft = Fresh(task, order)
  /\ packRows = <<>>

ChangeNext ==
  \/ BeginPack \/ SelectTargets \/ ReadNeighbours \/ FindKnownTests \/ SearchTests \/ GuessTests
  \/ RankTests \/ FollowImports \/ FetchDefinitions \/ ScoreImports \/ ChooseDependencies
  \/ EnforceBudget \/ AnswerPack
  \/ ActivateNewer

ChangeSpec == ChangeInit /\ [][ChangeNext]_changeVars

--------------------------------------------------------------------------------
(* Properties *)

Selected == FilesIn(draft.targets) \union FilesIn(draft.tests) \union FilesIn(draft.deps)
PackAnswered == draft.pc = "done" /\ draft.version # 0

\* Whatever is activated during the call, every file that was found, and not guessed,
\* has a readable artifact in the version that the row names.
PackIsOfOneVersion ==
  PackAnswered => \A f \in FilesIn(draft.targets) \union FilesIn(draft.deps) \union
                       {r.file : r \in {r \in ToSet(draft.tests) : r.conf > 50}} :
    \E u \in CodeArts : /\ FileOf(u) = f /\ CodeArt[u].visible
                        /\ CodeArt[u].from <= packRows[1].version
                        /\ packRows[1].version < CodeArt[u].until

\* Targets of one service get no test and no dependency of another service.
NothingIsBorrowed ==
  PackAnswered => LET own == {Service(f) : f \in FilesIn(draft.targets)} \ {Elsewhere}
              IN  Cardinality(own) = 1 =>
                    \A f \in FilesIn(draft.tests) \union FilesIn(draft.deps) :
                      Service(f) \in own \union {Elsewhere}

\* A test is guessed only when the graph, the hits and the focused search have none that is
\* readable, in this version and in the service of the targets.
GuessedAsLastResort ==
  PackAnswered /\ (\E r \in ToSet(draft.tests) : r.conf = 50) =>
    LET scope == Scope(FilesIn(draft.targets))
        inScope(u) == CodeArt[u].visible /\ InVersion(CodeArt[u], draft.version) /\ SameService(scope, FileOf(u))
    IN  /\ \A r \in ToSet(draft.tests) : r.conf = 50
        /\ ~ \E e \in ToSet(draft.edges) : /\ e.type = "tests" /\ e.b \in ToSet(draft.symbols) /\ inScope(e.a)
                                           /\ FileOf(e.a) \notin FilesIn(draft.targets)
                                           /\ e.a \notin ToSet(draft.symbols)
        /\ ~ \E u \in ToSet(draft.task.testHits) : inScope(u) /\ File[FileOf(u)].test
        /\ ~ \E u \in ToSet(draft.task.hits) :
               inScope(u) /\ File[FileOf(u)].test /\ CodeArt[u].mentions \cap Titles(draft.symbols) # {}

\* Dependencies never take an answer over its budget, and one that was dropped did not fit.
DependenciesFit ==
  PackAnswered => LET all == Tokens(draft.targets) + Tokens(draft.tests) + Tokens(draft.deps)
              IN  /\ draft.deps # <<>> => all <= draft.task.budget
                  /\ \A d \in ToSet(draft.found) \ ToSet(draft.deps) : all + d.tokens > draft.task.budget

\* One row for every answer that read a version, with the files of the answer; a file
\* is not a target and a dependency, and no target or dependency is a test.
RowIsTheAnswer ==
  draft.pc = "done" => IF draft.version = 0 THEN packRows = <<>> /\ Selected = {}
                      ELSE /\ Len(packRows) = 1
                           /\ packRows[1] = [version |-> draft.version,
                                             files |-> <<FilesIn(draft.targets), FilesIn(draft.tests),
                                                         FilesIn(draft.deps)>>]
                           /\ FilesIn(draft.targets) \cap FilesIn(draft.deps) = {}
                           /\ \A f \in FilesIn(draft.targets) \union FilesIn(draft.deps) : ~ File[f].test

\* What create_change_pack promises: one version, one service, real tests before guesses,
\* dependencies within the budget, and a ledger row that tells the selection.
ChangePackIsSound ==
  /\ PackIsOfOneVersion /\ NothingIsBorrowed /\ GuessedAsLastResort
  /\ DependenciesFit /\ RowIsTheAnswer

\* Refuted (README, section 5): edges of type imports are followed in both directions.
DependenciesAreImported ==
  PackAnswered => \A f \in FilesIn(draft.deps) : \E e \in ToSet(CodeEdges) :
    e.type = "imports" /\ FileOf(e.a) \in FilesIn(draft.targets) /\ FileOf(e.b) = f

\* Refuted (README, section 5): targets of two services switch the guard off.
TestsBelongToATarget ==
  PackAnswered => \A f \in FilesIn(draft.tests) :
    Service(f) = Elsewhere \/ \E t \in FilesIn(draft.targets) : Service(t) \in {Service(f), Elsewhere}
================================================================================
