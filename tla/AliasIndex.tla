------------------------------ MODULE AliasIndex ------------------------------
(***************************************************************************)
(* The alias index that a build reconciles at the end of its finalize      *)
(* transaction: phrases mined from commits and documents, their edges, and *)
(* phrases mined from the searches that found nothing.  Source: kb-builder *)
(* alias/run.py, alias/mining.py, alias/ledger_mining.py, alias/resolve.py *)
(* and domain/acl_intersection.py.                                         *)
(*                                                                         *)
(* A build first commits its sources one by one, then sweeps and runs the  *)
(* two passes in one transaction; when that one rolls back, the next build *)
(* no longer knows which sources had changed.                              *)
(*                                                                         *)
(* Abstractions.  A phrase is a number, in the order of its text; what is  *)
(* mined from a source, and how well a search matches a title, are given.  *)
(* A source never returns to an earlier content (see IncrementalBuild).    *)
(***************************************************************************)
EXTENDS Integers, FiniteSets, Functions, FiniteSetsExt

CONSTANTS
  Sources,    \* source_items, as numbers in the order of their keys
  Origin,      \* Origin[s]: [kind, repo, path, acl, phrases, rank]; acl by generation
  Queries,    \* phrases that are searched for
  Match,      \* Match[q, s]: similarity of a search to the title of s, in percent
  PathRank,   \* the preference among paths that are named equally often
  NoFile,     \* the path of a commit
  Nobody,     \* DENY_ALL_ACL: a team nobody is in
  EdgeCap,    \* MAX_EDGE_TARGETS
  BodyCap,    \* MAX_BODY_TARGETS: the paths of a phrase that its row lists
  MaxGen, MaxEdits, MaxBuilds    \* bounds: contents of a source, edits, builds

ASSUME AliasAssumption ==
  /\ Sources \subseteq Nat /\ IsFiniteSet(Sources) /\ Queries \subseteq Nat
  /\ EdgeCap \in Nat /\ BodyCap \in Nat /\ EdgeCap <= BodyCap /\ MaxGen \in Nat /\ MaxEdits \in Nat
  /\ IsFiniteSet(DOMAIN PathRank) /\ \A p \in DOMAIN PathRank : PathRank[p] \in Nat
  /\ \A p, q \in DOMAIN PathRank : PathRank[p] = PathRank[q] => p = q
  /\ \A s \in Sources :
       /\ Origin[s].kind = "commit" <=> Origin[s].path = NoFile
       /\ Origin[s].rank \in Nat
       /\ DOMAIN Origin[s].phrases \subseteq Nat /\ IsFiniteSet(DOMAIN Origin[s].phrases)
       /\ \A p \in DOMAIN Origin[s].phrases : Origin[s].phrases[p] \subseteq DOMAIN PathRank

VARIABLES
  tree,      \* the repositories: [gen, here] by source
  window,    \* phrases of the searches in the window that found nothing
  edits,     \* edits so far
  item,      \* source_item rows: [gen, deleted]; generation 0 is no row
  live,      \* live artifacts other than aliases: <<source, generation>>
  alias,     \* alias_reference rows, by id
  astamp,    \* their kb_version, by id: the build that last wrote the row
  aedges,    \* `aliases` edges: [alias, art, from, until]
  aseq,      \* build_seq of the last build
  abuild     \* its progress

aliasVars == <<tree, window, edits, item, live, alias, astamp, aedges, aseq, abuild>>

--------------------------------------------------------------------------------
(* Access *)

\* An empty ACL is public, so "nobody" needs a team of its own.
MergedAcl(acls) ==
  LET narrow == acls \ {{}}
      common == {t \in UNION narrow : \A a \in narrow : t \in a}
  IN  IF narrow = {} THEN {} ELSE IF common = {} THEN {Nobody} ELSE common

DerivedAcl(acls) == IF acls = {} THEN {Nobody} ELSE MergedAcl(acls)

AclOf(s, it) == Origin[s].acl[it[s].gen]

--------------------------------------------------------------------------------
(* The sweeps that ran before, in the same transaction *)

Stands(s, it) == it[s].gen > 0 /\ ~it[s].deleted

\* What a build closes: prior generations of what changed, and all of what vanished.
Swept(changed, vanished) ==
  {a \in live : a[1] \in vanished \/ (a[1] \in changed /\ a[2] # item[a[1]].gen)}

\* Alias rows hang on a source like any artifact.
RowsSwept(changed, vanished) ==
  [i \in DOMAIN alias |->
     LET r == alias[i]
     IN  IF r.until = 0 /\ (r.anchor \in vanished \/ (r.anchor \in changed /\ r.from < aseq))
         THEN [r EXCEPT !.until = aseq] ELSE r]

\* Then every live artifact of a source that this build saw gets the ACL of that source.
WithAnchorAcl(r, seen, it) ==
  IF r.until = 0 /\ r.anchor \in seen THEN [r EXCEPT !.acl = AclOf(r.anchor, it)] ELSE r

AclPropagated(rows, seen, it) == [i \in DOMAIN rows |-> WithAnchorAcl(rows[i], seen, it)]

EdgesSwept(dead, rows) ==
  {IF e.until = 0 /\ (e.art \in dead \/ (rows[e.alias].until = aseq))
   THEN [e EXCEPT !.until = aseq] ELSE e : e \in aedges}

--------------------------------------------------------------------------------
(* Mining: each source's phrases, replayed when its stored evidence is current *)

LiveOnly(rows) ==     \* (mutant) rows that the sweep of this build closed are not read
  {i \in DOMAIN rows : rows[i].until = 0}

\* Live rows, and those the sweeps of this build closed.
Readable(rows) == {i \in DOMAIN rows : rows[i].until \in {0, aseq}}

\* One row per title: a live one first; the others are closed.
Kept(rows) ==
  LET before(i, j) == \/ rows[i].until = 0 /\ rows[j].until # 0
                      \/ (rows[i].until = 0 <=> rows[j].until = 0) /\ i < j
  IN  {i \in Readable(rows) : \A j \in Readable(rows) \ {i} :
         rows[j].title = rows[i].title => before(i, j)}

\* What the rows remember of a source: <<phrase, generation, paths>>.
Remembered(s, rows) ==
  UNION {{<<rows[i].title, e.gen, e.paths>> : e \in {x \in rows[i].evidence : x.src = s}}
         : i \in Kept(rows)}

\* A source whose entries disagree is mined again.
IsUnchanged(s, rows, it) ==
  Remembered(s, rows) # {} /\ \A m \in Remembered(s, rows) : m[2] = it[s].gen

Inputs(it, arts) ==
  {s \in Sources : /\ Stands(s, it)
                   /\ \/ Origin[s].kind = "commit" /\ \E a \in arts : a[1] = s
                      \/ Origin[s].kind = "doc"}

\* <<source, phrase, paths>>
Contributions(rows, it, arts) ==
  UNION {IF IsUnchanged(s, rows, it)
         THEN {<<s, m[1], m[3]>> : m \in Remembered(s, rows)}
         ELSE {<<s, p, Origin[s].phrases[p]>> : p \in DOMAIN Origin[s].phrases}
         : s \in Inputs(it, arts)}

--------------------------------------------------------------------------------
(* The aggregate of a phrase, and where its paths lead *)

Titles(cs) == {c[2] : c \in cs}
Evidence(t, cs, it) == {[src |-> c[1], gen |-> it[c[1]].gen, paths |-> c[3]] : c \in {x \in cs : x[2] = t}}
Named(ev) == UNION {e.paths : e \in ev}
Count(p, ev) == Cardinality({e \in ev : p \in e.paths})

\* The paths that the evidence names most often, up to a cap.
Ranked(ev, cap) ==
  LET better(p, q) == \/ Count(p, ev) > Count(q, ev)
                      \/ Count(p, ev) = Count(q, ev) /\ PathRank[p] < PathRank[q]
  IN  {p \in Named(ev) : Cardinality({q \in Named(ev) : better(q, p)}) < cap}

\* The repos whose sources name the path, for whatever phrase.
Repos(p, cs) == {Origin[c[1]].repo : c \in {x \in cs : p \in x[3]}}

\* The source rows that stand for a path.
RowsOf(p, cs, it) ==
  {s \in Sources : Stands(s, it) /\ Origin[s].path = p /\ Origin[s].repo \in Repos(p, cs)}

\* code_file before summary, then by artifact id.
Preferred(arts) ==
  CHOOSE a \in arts : \A b \in arts :
    \/ Origin[a[1]].rank < Origin[b[1]].rank
    \/ Origin[a[1]].rank = Origin[b[1]].rank
       /\ (a[1] < b[1] \/ (a[1] = b[1] /\ a[2] <= b[2]))

ArtsOf(ss, arts) == {a \in arts : a[1] \in ss}

\* The listed paths that lead somewhere, with their artifacts.
Targets(ev, cap, cs, it, arts) ==
  {<<p, Preferred(ArtsOf(RowsOf(p, cs, it), arts))>> :
     p \in {q \in Ranked(ev, cap) : ArtsOf(RowsOf(q, cs, it), arts) # {}}}

\* The ACLs of the paths that the row lists; the evidence names the others as well.
PathAcls(ev, cs, it) ==
  {MergedAcl({AclOf(s, it) : s \in RowsOf(p, cs, it)})
     : p \in {q \in Ranked(ev, BodyCap) : RowsOf(q, cs, it) # {}}}

\* The row a phrase should have for its evidence, but for the interval.
Desired(t, ev, cs, it, arts) ==
  [title |-> t, prov |-> "mined", evidence |-> ev, targets |-> Targets(ev, BodyCap, cs, it, arts),
   acl |-> DerivedAcl(PathAcls(ev, cs, it)), anchor |-> Min({e.src : e \in ev})]

MinedWant(cs, it, arts) ==
  [t \in Titles(cs) |-> Desired(t, Evidence(t, cs, it), cs, it, arts)]

--------------------------------------------------------------------------------
(* The reconciling passes *)

With(d, from, until) ==
  [title |-> d.title, prov |-> d.prov, evidence |-> d.evidence, targets |-> d.targets,
   acl |-> d.acl, anchor |-> d.anchor, from |-> from, until |-> until]

\* Rows for `want` (a function from titles): the row of `own` with the title is refreshed
\* in place and keeps its valid_from_seq, the others are new, in the order of the titles.
RowsUpserted(rows, want, own) ==
  LET rowOf(t) == {i \in own : rows[i].title = t}
      new == {t \in DOMAIN want : rowOf(t) = {}}
      next == Cardinality(DOMAIN rows)
      idOf(t) == next + Cardinality({u \in new : u <= t})
  IN  [i \in DOMAIN rows \union {idOf(t) : t \in new} |->
         IF i \in own /\ rows[i].title \in DOMAIN want
         THEN With(want[rows[i].title], rows[i].from, 0)
         ELSE IF i \in DOMAIN rows THEN rows[i]
         ELSE With(want[CHOOSE t \in new : idOf(t) = i], aseq, 0)]

Closed(rows, which) ==
  [i \in DOMAIN rows |-> IF i \in which /\ rows[i].until = 0 THEN [rows[i] EXCEPT !.until = aseq]
                         ELSE rows[i]]

ClosesAll(rows, want) ==     \* (mutant) the rows of the other pass are closed as well
  Closed(rows, {i \in DOMAIN rows : rows[i].title \notin DOMAIN want \/ i \notin Kept(rows)})

\* Duplicates go, and rows that nothing confirms, but for those of the other pass.
Unconfirmed(rows, want) ==
  Closed(rows, {i \in DOMAIN rows : \/ i \notin Kept(rows)
                                    \/ rows[i].title \notin DOMAIN want /\ rows[i].prov = "mined"})

\* A row that is as it should be is not written (`same`).
Rewritten(before, after) ==
  {i \in DOMAIN after : after[i].until = 0 /\ (i \in DOMAIN before => after[i] # before[i])}

Stamped(which, rows) == [i \in DOMAIN rows |-> IF i \in which THEN aseq ELSE astamp[i]]

Reconciled(rows, want) == RowsUpserted(Unconfirmed(rows, want), want, Kept(rows))

\* Edges lead to the artifacts of the ranked paths, and to nothing that is not live.
WantedEdges(rows, cs, it, arts) ==
  UNION {{<<i, x[2]>> : x \in Targets(rows[i].evidence, EdgeCap, cs, it, arts)}
         : i \in {j \in DOMAIN rows : rows[j].until = 0 /\ rows[j].prov = "mined"}}

EdgesReconciled(edges, want) ==
  LET key(e) == <<e.alias, e.art>>
      readable == {e \in edges : e.until \in {0, aseq}}
      first(e) == \A x \in readable \ {e} : key(x) = key(e) => e.from <= x.from
      kept == {e \in readable : key(e) \in want /\ first(e)}
  IN  (edges \ readable)
      \union {[e EXCEPT !.until = 0] : e \in kept}
      \union {[e EXCEPT !.until = IF @ = 0 THEN aseq ELSE @] : e \in readable \ kept}
      \union {[alias |-> w[1], art |-> w[2], from |-> aseq, until |-> 0]
                : w \in {x \in want : \A e \in kept : key(e) # x}}

--------------------------------------------------------------------------------
(* Phrases of searches that found nothing *)

\* The best title of a live artifact with a path, at least 30 percent alike.
Found(q, it, arts) ==
  LET cands == {a[1] : a \in {x \in arts : Origin[x[1]].path # NoFile /\ Stands(x[1], it)
                                           /\ Match[q, x[1]] >= 30}}
  IN  {s \in cands : \A x \in cands : \/ Match[q, s] > Match[q, x]
                                      \/ Match[q, s] = Match[q, x] /\ s <= x}

\* The target is a path: its artifact is the preferred one of all repos.
LedgerWant(q, it, arts) ==
  LET p == Origin[CHOOSE s \in Found(q, it, arts) : TRUE].path
      a == Preferred({x \in arts : Origin[x[1]].path = p /\ Stands(x[1], it)})
  IN  [title |-> q, prov |-> "ledger", evidence |-> {}, targets |-> {<<p, a>>},
       acl |-> DerivedAcl({AclOf(a[1], it)}), anchor |-> a[1]]

\* A phrase that another row has already keeps that row.
Missing(rows, it, arts) ==
  {q \in window : /\ Found(q, it, arts) # {}
                  /\ \A i \in DOMAIN rows : rows[i].until = 0 /\ rows[i].title = q
                                              => rows[i].prov = "ledger"}

LedgerPass(rows, it, arts) ==
  LET want == [q \in Missing(rows, it, arts) |-> LedgerWant(q, it, arts)]
      own == {i \in DOMAIN rows : rows[i].until = 0 /\ rows[i].prov = "ledger"}
  IN  RowsUpserted(Closed(rows, {i \in own : rows[i].title \notin DOMAIN want}), want, own)

--------------------------------------------------------------------------------
(* A build *)

NoBuild == [pc |-> "idle", changed |-> {}, settled |-> <<>>]

\* The per-source commits.
ExtractSources ==
  LET present == {s \in Sources : tree[s].here}
      changed == {s \in present : item[s].gen # tree[s].gen}
  IN  /\ abuild.pc = "idle" /\ aseq < MaxBuilds
      /\ aseq' = aseq + 1
      /\ item' = [s \in Sources |-> IF s \in changed THEN [gen |-> tree[s].gen, deleted |-> FALSE]
                                    ELSE item[s]]
      /\ live' = live \union {<<s, tree[s].gen>> : s \in changed}
      /\ abuild' = [abuild EXCEPT !.pc = "extracted", !.changed = changed]
      /\ UNCHANGED <<tree, window, edits, alias, astamp, aedges>>

\* The finalize transaction: sweeps, the mining pass with its edges, the ledger pass.
FinalizeAliases ==
  LET vanished == {s \in Sources : Stands(s, item) /\ ~tree[s].here}
      it     == [s \in Sources |-> IF s \in vanished THEN [item[s] EXCEPT !.deleted = TRUE]
                                   ELSE item[s]]
      dead   == Swept(abuild.changed, vanished)
      arts   == live \ dead
      rows0  == AclPropagated(RowsSwept(abuild.changed, vanished), {s \in Sources : tree[s].here}, it)
      cs     == Contributions(rows0, it, arts)
      rows1  == Reconciled(rows0, MinedWant(cs, it, arts))
      rows2  == LedgerPass(rows1, it, arts)
  IN  /\ abuild.pc = "extracted"
      /\ item' = it /\ live' = arts
      /\ aedges' = EdgesReconciled(EdgesSwept(dead, rows0), WantedEdges(rows1, cs, it, arts))
      /\ alias' = rows2
      /\ astamp' = Stamped(Rewritten(rows0, rows1) \union Rewritten(rows1, alias'), alias')
      /\ abuild' = [pc |-> "idle", changed |-> {}, settled |-> <<it, window>>]
      /\ UNCHANGED <<tree, window, edits, aseq>>

\* A step raises: all of it rolls back, the sources stay committed.
FinalizeRollsBack ==
  /\ abuild.pc = "extracted"
  /\ abuild' = [NoBuild EXCEPT !.settled = abuild.settled]
  /\ UNCHANGED <<tree, window, edits, item, live, alias, astamp, aedges, aseq>>

--------------------------------------------------------------------------------
(* What happens between builds *)

EditSource(s) ==
  /\ abuild.pc = "idle" /\ edits < MaxEdits
  /\ Origin[s].kind = "commit" => tree[s].gen = 0
  /\ tree[s].gen < MaxGen
  /\ tree' = [tree EXCEPT ![s] = [gen |-> @.gen + 1, here |-> TRUE]]
  /\ edits' = edits + 1
  /\ UNCHANGED <<window, item, live, alias, astamp, aedges, aseq, abuild>>

DropSource(s) ==
  /\ abuild.pc = "idle" /\ edits < MaxEdits
  /\ tree[s].here
  /\ tree' = [tree EXCEPT ![s].here = FALSE]
  /\ edits' = edits + 1
  /\ UNCHANGED <<window, item, live, alias, astamp, aedges, aseq, abuild>>

\* A search finds nothing, or its rows leave the window.
Searched(q) ==
  /\ abuild.pc = "idle" /\ edits < MaxEdits
  /\ window' = IF q \in window THEN window \ {q} ELSE window \union {q}
  /\ edits' = edits + 1
  /\ UNCHANGED <<tree, item, live, alias, astamp, aedges, aseq, abuild>>

AliasInit ==
  /\ tree \in [Sources -> {[gen |-> 1, here |-> TRUE]}]
  /\ item = [s \in Sources |-> [gen |-> 0, deleted |-> FALSE]]
  /\ window = {} /\ edits = 0 /\ live = {} /\ alias = <<>> /\ astamp = <<>> /\ aedges = {} /\ aseq = 0
  /\ abuild = NoBuild

AliasNext ==
  \/ ExtractSources \/ FinalizeAliases \/ FinalizeRollsBack
  \/ \E s \in Sources : EditSource(s) \/ DropSource(s)
  \/ \E q \in Queries : Searched(q)

AliasSpec == AliasInit /\ [][AliasNext]_aliasVars
--------------------------------------------------------------------------------
(* Properties *)

LiveRows == {i \in DOMAIN alias : alias[i].until = 0}

\* Two passes, a sweep and a revival write rows of one phrase in one transaction: one live
\* row per phrase is left (_load_prior_alias_rows, _load_prior_state).
OneLiveRowPerPhrase ==
  \A i, j \in LiveRows : alias[i].title = alias[j].title => i = j

\* Replaying the evidence of unchanged sources gives what mining every live source again
\* would give, also after sweeps of half of a source's rows and after rolled-back builds
\* (_prior_extractions).
Settled == abuild.settled = <<item, window>>
AliasesMatchSources ==
  abuild.pc = "idle" /\ Settled =>
    UNION {{<<alias[i].title, e.src, e.paths>> : e \in alias[i].evidence} : i \in LiveRows}
    = UNION {{<<p, s, Origin[s].phrases[p]>> : p \in DOMAIN Origin[s].phrases}
             : s \in Inputs(item, live)}

\* The edges of an alias join live rows, lead to paths that its present evidence names and
\* stay within the cap, whatever it named before (_reconcile_edges).
EdgesFollowTheEvidence ==
  abuild.pc = "idle" /\ Settled =>
    LET open == {e \in aedges : e.until = 0}
    IN  \A e \in open :
          /\ e.alias \in LiveRows /\ e.art \in live
          /\ \E x \in alias[e.alias].evidence : Origin[e.art[1]].path \in x.paths
          /\ Cardinality({f \in open : f.alias = e.alias}) <= EdgeCap

\* Who may see the row of a phrase may see each file of the paths that stands in the repo of
\* the source that named it.
NoWiderThan(row, paths) ==
  LET standing(e) == {s \in Sources : Stands(s, item) /\ Origin[s].path \in e.paths \cap paths}
      named == UNION {{s \in standing(e) : Origin[s].repo = Origin[e.src].repo} : e \in row.evidence}
  IN  /\ (\A e \in row.evidence : standing(e) = {}) => row.acl # {}
      /\ row.acl = {} => \A s \in named : AclOf(s, item) = {}
      /\ row.acl # {Nobody} => \A s \in named : AclOf(s, item) = {} \/ row.acl \subseteq AclOf(s, item)

\* That holds of the paths that the row lists, also when the propagation of the build has just
\* given it the ACL of its anchor (_propagate_acl, _resolve_targets, commit_acl_intersection).
AliasesNeverWiden ==
  abuild.pc = "idle" /\ Settled =>
    \A i \in {j \in LiveRows : alias[j].prov = "mined"} :
      NoWiderThan(alias[i], Ranked(alias[i].evidence, BodyCap))

\* Rows, edges and access of the alias index are what its sources say now.
AliasesFollowTheirSources ==
  OneLiveRowPerPhrase /\ AliasesMatchSources /\ EdgesFollowTheEvidence /\ AliasesNeverWiden

\* A build that finds the sources as the last one left them, with the same searches.
Rebuilds == abuild.pc = "extracted" /\ abuild'.pc = "idle" /\ Settled /\ item' = item

\* It inserts and closes nothing and leaves every row and edge as it was.  What it writes again
\* are rows whose ACL is not that of their anchor: the propagation overwrites it, the reconcile
\* puts it back (_propagate_acl, _reconcile_artifacts).
RebuildsOnlyRestamp ==
  [][Rebuilds =>
       /\ alias' = alias /\ aedges' = aedges
       /\ \A i \in DOMAIN alias : astamp'[i] # astamp[i] =>
            /\ alias[i].until = 0 /\ alias[i].prov = "mined"
            /\ alias[i].acl # AclOf(alias[i].anchor, item)]_aliasVars

\* alias-reference.md: "Re-running a completed build inserts/refreshes/invalidates nothing."
RebuildsWriteNothing ==
  [][Rebuilds => alias' = alias /\ astamp' = astamp /\ aedges' = aedges]_aliasVars

\* And of every path that its evidence names: acl_intersection.py, "the teams authorised for EVERY
\* input path".  A path that BodyCap others outrank has no say.
AliasesNeverWidenAtAll ==
  abuild.pc = "idle" /\ Settled =>
    \A i \in {j \in LiveRows : alias[j].prov = "mined"} :
      NoWiderThan(alias[i], Named(alias[i].evidence))

\* The paths of a phrase are resolved in the repos of the sources that gave the phrase
\* its path: alias-reference.md, "Target resolution: (repo, path)".
EdgesStayInTheirRepo ==
  \A e \in aedges : e.until = 0 =>
    \E x \in alias[e.alias].evidence : /\ Origin[e.art[1]].path \in x.paths
                                       /\ Origin[e.art[1]].repo = Origin[x.src].repo
================================================================================
