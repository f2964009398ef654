---------------------------- MODULE RelationJudge ----------------------------
(***************************************************************************)
(* The cross-domain part of a build's finalize transaction: deterministic  *)
(* links from explicit references, candidate pairs from cheap signals, the *)
(* model that rules on each candidate behind its cache, and the judge      *)
(* edges it leaves.  Source: kb-builder linker/cross_domain.py, semantic.py*)
(* candidates.py, run_candidates.py, judge.py, judgment_cache.py and the   *)
(* judge's client.                                                         *)
(*                                                                         *)
(* `db` is what is committed, `work` what the build's session sees.  The   *)
(* artifacts of the build are committed before (IncrementalBuild); all of  *)
(* this is one transaction that a raised error rolls back whole.           *)
(*                                                                         *)
(* Abstractions.  Texts are model values; the references parsed from a     *)
(* text, its tokens' overlap (in percent) and whether it names another     *)
(* artifact are constants.                                                 *)
(***************************************************************************)
EXTENDS Integers, FiniteSets, Sequences, FiniteSetsExt, SequencesExt

CONSTANTS
  Arts,      \* artifact ids, as numbers: the order of ids and of insertion
  About,     \* About[a]: [type, kind, src, text, refs, keys, sha, shas, files, path, dir]
  Sim,       \* Sim[a, b]: cosine similarity, in percent
  Overlap,   \* Overlap[a, b]: token Jaccard, in percent
  Names,     \* <<a, b>>: the body of a contains the path or title of b
  Plans,     \* what builds find: sequence of [adds, closes, removes], by build_seq
  NoText, NoPath,
  Answers,   \* the model's answers: [relation, bucket, quote] or Unusable
  Unusable,
  FanOut, TopK, SemanticTop,
  Models,    \* names of the judge's model
  MaxJudged  \* bound: builds

ASSUME JudgeAssumption ==
  /\ Arts \subseteq Nat /\ FanOut \in Nat \ {0} /\ TopK \in Nat /\ SemanticTop \in Nat
  /\ MaxJudged \in Nat /\ MaxJudged <= Len(Plans)
  /\ \A n \in 1..MaxJudged : Plans[n].adds \subseteq Arts

VARIABLES
  db, work,  \* [in, out, removed, edges, cache]: committed, and in the session
  jseq,      \* build_seq of the build
  jserved,   \* build_seq of the active version
  jrun,      \* the progress of the pass
  asked,     \* calls of the model, per cache key
  rolled     \* builds rolled back

judgeVars == <<db, work, jseq, jserved, jrun, asked, rolled>>

Pairs == Arts \X Arts

--------------------------------------------------------------------------------
(* Deterministic links *)

\* Artifacts of sources that are not deleted, closed ones included.
Linkable(w) == {a \in w.in : About[a].src \notin w.removed}

LiveArts(w) == {a \in w.in : a \notin w.out}

\* The first work item that carries the key; the last code_file of a path.
WorkItem(A, k) == {a \in A : /\ About[a].kind = "card" /\ k \in About[a].keys
                             /\ \A b \in A : About[b].kind = "card" /\ k \in About[b].keys => a <= b}
CodeFile(A, p) == {a \in A : /\ About[a].type = "code_file" /\ About[a].path = p
                             /\ \A b \in A : About[b].type = "code_file" /\ About[b].path = p => b <= a}

\* An exact sha, or else the only commit whose sha starts so.
ShaTargets(A, s) ==
  LET commits == {a \in A : About[a].type = "commit"}
      exact == {a \in commits : About[a].sha = s}
      longer == {a \in commits : s # About[a].sha /\ IsPrefix(s, About[a].sha)}
  IN  IF exact # {} THEN exact ELSE IF Cardinality(longer) = 1 THEN longer ELSE {}

CrossLinks(A) ==
  UNION {LET c == About[a]
         IN  ({a} \X UNION {WorkItem(A, k) : k \in c.refs})
             \union (IF c.type = "commit"
                     THEN {a} \X ((UNION {ShaTargets(A, s) : s \in c.shas})
                                  \union UNION {CodeFile(A, p) : p \in c.files})
                     ELSE {})
         : a \in {x \in A : About[x].type = "commit" \/ About[x].kind = "doc"}}
  \ {<<a, a>> : a \in A}

\* The live code_symbols most similar to an artifact.
Nearest(w, a, n) ==
  LET syms == {s \in LiveArts(w) : About[s].type = "code_symbol" /\ s # a}
      closer(x, y) == Sim[a, x] > Sim[a, y] \/ (Sim[a, x] = Sim[a, y] /\ x < y)
  IN  IF a \in LiveArts(w) THEN {s \in syms : Cardinality({x \in syms : closer(x, s)}) < n} ELSE {}

\* A concept that no reference implements is linked by similarity.
SemanticLinks(w, det) ==
  UNION {{<<s, c>> : s \in {x \in Linkable(w) \intersect Nearest(w, c, SemanticTop) : Sim[c, x] >= 82}}
         : c \in {x \in Linkable(w) : About[x].type = "concept" /\ \A l \in det : l[2] # x}}

\* The pairs the linker leaves linked.
Facts(w) == LET det == CrossLinks(Linkable(w)) IN det \union SemanticLinks(w, det)

--------------------------------------------------------------------------------
(* Candidates *)

ArtifactDomain(a) ==
  LET d == About[a]
  IN  CASE d.kind = "git" -> "commit" [] d.kind = "card" -> "card" [] d.kind = "doc" -> "doc"
        [] d.type \in {"code_file", "code_symbol", "endpoint"} \/ d.path # NoPath -> "code"
        [] OTHER -> "other"

\* The signals that fire for an ordered pair, with their scores in percent.
Signals(near, a, b) ==
  {x \in {<<"embedding", Sim[a, b]>>} : b \in near[a] /\ x[2] >= 80}
  \union {x \in {<<"tokens", Overlap[a, b]>>} : x[2] >= 10}
  \union {x \in {<<"section", 60>>} : <<a, b>> \in Names}
  \union {x \in {<<"colocation", 40>>} : About[a].dir # NoPath /\ About[a].dir = About[b].dir}

\* The pairs that may be drafted: across domains, and not linked already.

Eligible(A, facts) ==
  {p \in A \X A : /\ p \notin facts /\ <<p[2], p[1]>> \notin facts
                  /\ ArtifactDomain(p[1]) # ArtifactDomain(p[2])}

\* Each pair for which a signal fires, with its strongest signal.
Drafts(w, facts) ==
  LET near == [a \in Linkable(w) |-> Nearest(w, a, TopK)]
      drafted == {p \in Eligible(Linkable(w), facts) : Signals(near, p[1], p[2]) # {}}
  IN  [p \in drafted |-> Max({s[2] : s \in Signals(near, p[1], p[2])})]

\* The strongest FanOut of each artifact, in the order of the ids.
Bounded(score) ==
  LET better(p, q) == score[p] > score[q] \/ (score[p] = score[q] /\ p[2] < q[2])
  IN  {p \in DOMAIN score :
         Cardinality({q \in DOMAIN score : q[1] = p[1] /\ better(q, p)}) < FanOut}

First(ps) == CHOOSE p \in ps : \A q \in ps : p[1] < q[1] \/ (p[1] = q[1] /\ p[2] <= q[2])

\* A pair whose body is missing is not shown to the judge.
Judgeable(ps) == {p \in ps : About[p[1]].text # NoText /\ About[p[2]].text # NoText}

--------------------------------------------------------------------------------
(* The verdict *)

Attempts == 3
Buckets == {"INFERRED_HIGH", "INFERRED_LOW", "AMBIGUOUS", "REJECTED"}
Inferred == {"INFERRED_HIGH", "INFERRED_LOW"}
Spans(p) == {About[p[1]].text, About[p[2]].text}

\* What is not in the judge's vocabulary is ambiguous.
Parsed(ans) ==
  [bucket |-> IF ans.relation = "documents" /\ ans.bucket \in Buckets THEN ans.bucket
              ELSE "AMBIGUOUS",
   quote |-> ans.quote]

Unguarded(v, p) == v     \* (mutant) the quote is not looked for in the texts

GuardQuote(v, p) ==
  IF v.bucket \in Inferred /\ v.quote \notin Spans(p) THEN [v EXCEPT !.bucket = "AMBIGUOUS"] ELSE v

\* The first usable answer of up to three, or none.
Usable(raw) == {i \in 1..Attempts : raw[i] # Unusable}
Verdict(raw, p) == GuardQuote(Parsed(raw[Min(Usable(raw))]), p)

CacheKey(p, m) == <<Spans(p), m>>

--------------------------------------------------------------------------------
(* The pass *)

Idle == [pc |-> "idle"]

JudgeBuild(m) ==
  LET plan == Plans[jseq + 1]
      w == [db EXCEPT !.in = @ \union plan.adds]
  IN  /\ jrun = Idle /\ jseq < MaxJudged
      /\ jseq' = jseq + 1
      /\ db' = w /\ work' = w
      /\ jrun' = [pc |-> "linked", model |-> m, plan |-> plan]
      /\ UNCHANGED <<jserved, asked, rolled>>

\* The linker reconciles its edges, then the candidates are written.
Generate ==
  LET facts == Facts(work)
      ps == Bounded(Drafts(work, facts))
  IN  /\ jrun.pc = "linked"
      /\ jrun' = [pc |-> "judge", model |-> jrun.model, plan |-> jrun.plan, facts |-> facts,
                  cands |-> Judgeable(ps), todo |-> Judgeable(ps), computed |-> {}]
      /\ UNCHANGED <<db, work, jseq, jserved, asked, rolled>>

\* Refreshed in place and revived; the original valid_from_seq is kept.
Upserted(edges, p, v) ==
  [q \in DOMAIN edges \union {p} |->
     IF q = p THEN [from |-> IF p \in DOMAIN edges THEN edges[p].from ELSE jseq, until |-> 0,
                    bucket |-> v.bucket, quote |-> v.quote]
     ELSE edges[q]]

\* A rejected pair leaves no edge.
Ruled(w, v, p) ==
  /\ work' = IF v.bucket = "REJECTED" THEN w ELSE [w EXCEPT !.edges = Upserted(@, p, v)]
  /\ jrun' = [jrun EXCEPT !.todo = @ \ {p},
                          !.computed = IF v.bucket = "REJECTED" THEN @ ELSE @ \union {p}]

Hit ==
  /\ jrun.pc = "judge" /\ jrun.todo # {}
  /\ LET p == First(jrun.todo)  ck == CacheKey(p, jrun.model)
     IN  ck \in DOMAIN work.cache /\ Ruled(work, GuardQuote(work.cache[ck], p), p)
  /\ UNCHANGED <<db, jseq, jserved, asked, rolled>>

KeepsPositive(cache, ck, v) ==     \* (mutant) a rejection is not cached
  IF v.bucket = "REJECTED" THEN cache
  ELSE [x \in DOMAIN cache \union {ck} |-> IF x = ck THEN v ELSE cache[x]]

Recorded(cache, ck, v) ==
  [x \in DOMAIN cache \union {ck} |-> IF x = ck THEN v ELSE cache[x]]

Judge(raw) ==
  LET p == First(jrun.todo)  ck == CacheKey(p, jrun.model)  v == Verdict(raw, p)
  IN  /\ jrun.pc = "judge" /\ jrun.todo # {} /\ ck \notin DOMAIN work.cache
      /\ Usable(raw) # {}
      /\ asked' = [x \in DOMAIN asked \union {ck} |->
                     IF x = ck THEN (IF ck \in DOMAIN asked THEN asked[ck] ELSE 0) + 1
                     ELSE asked[x]]
      /\ Ruled([work EXCEPT !.cache = Recorded(@, ck, v)], GuardQuote(v, p), p)
      /\ UNCHANGED <<db, jseq, jserved, rolled>>

\* Live judge edges that this run did not compute leave the version, unless
\* there was no candidate at all.
StaleSwept(edges) ==
  [p \in DOMAIN edges |->
     IF edges[p].until = 0 /\ jrun.cands # {} /\ p \notin jrun.computed
     THEN [edges[p] EXCEPT !.until = jseq] ELSE edges[p]]

\* The invalidation pass: closed artifacts of this build take their live edges along.
ClosedWith(edges, gone) ==
  [p \in DOMAIN edges |->
     IF edges[p].until = 0 /\ {p[1], p[2]} \cap gone # {}
     THEN [edges[p] EXCEPT !.until = jseq] ELSE edges[p]]

Gone == {a \in LiveArts(work) : a \in jrun.plan.closes \/ About[a].src \in jrun.plan.removes}

\* The sweep, the invalidation pass, and the commit.
CommitBuild ==
  LET w == [work EXCEPT !.edges = ClosedWith(StaleSwept(@), Gone), !.out = @ \union Gone,
                        !.removed = @ \union jrun.plan.removes]
  IN  /\ jrun.pc = "judge" /\ jrun.todo = {}
      /\ db' = w /\ work' = w
      /\ jrun' = [jrun EXCEPT !.pc = "completed"]
      /\ UNCHANGED <<jseq, jserved, asked, rolled>>

\* A query, the model or its last attempt raises: the verdicts of the run are lost.
RollBack ==
  /\ jrun.pc \in {"linked", "judge"}
  /\ work' = db
  /\ rolled' = rolled + 1
  /\ jrun' = Idle
  /\ UNCHANGED <<db, jseq, jserved, asked>>

\* The gates let the build through, or not.
PublishJudged(accepted) ==
  /\ jrun.pc = "completed"
  /\ jserved' = IF accepted THEN jseq ELSE jserved
  /\ jrun' = Idle
  /\ UNCHANGED <<db, work, jseq, asked, rolled>>

JudgeInit ==
  /\ db = [in |-> {}, out |-> {}, removed |-> {}, edges |-> <<>>, cache |-> <<>>]
  /\ work = db
  /\ jseq = 0 /\ jserved = 0 /\ jrun = Idle /\ asked = <<>> /\ rolled = 0

JudgeNext ==
  \/ \E m \in Models : JudgeBuild(m)
  \/ Generate \/ Hit \/ CommitBuild \/ RollBack
  \/ \E a \in Answers, lost \in {0, Attempts - 1} : Judge([i \in 1..Attempts |-> IF i <= lost THEN Unusable ELSE a])
  \/ \E acc \in BOOLEAN : PublishJudged(acc)

JudgeSpec == JudgeInit /\ [][JudgeNext]_judgeVars

--------------------------------------------------------------------------------
(* Properties *)

LiveEdges(w) == {p \in DOMAIN w.edges : w.edges[p].until = 0}

\* A model's claim becomes a hint only with a span of one of the two texts, by whatever
\* way it came: a new answer, a cached one, another artifact of the same text (guard_quote).
InferredIsGrounded ==
  \A p \in DOMAIN db.edges :
    /\ db.edges[p].bucket \in Buckets \ {"REJECTED"}
    /\ db.edges[p].bucket \in Inferred => db.edges[p].quote \in Spans(p)

\* The two directions of a pair are two candidates and get one verdict
\* (relationship_judgment_cache_parts sorts the hashes).
OneVerdictPerPair ==
  jrun.pc = "completed" =>
    \A p \in jrun.computed : <<p[2], p[1]>> \in jrun.cands =>
      /\ <<p[2], p[1]>> \in jrun.computed
      /\ db.edges[<<p[2], p[1]>>].bucket = db.edges[p].bucket

\* A pair of texts is paid for once per model, whatever was ruled, but for builds whose
\* transaction was rolled back (RelationshipJudgmentCacheGate).
PairsArePaidOnce == \A ck \in DOMAIN asked : asked[ck] <= 1 + rolled

\* After a build that had candidates, the live judge edges are those it computed between
\* artifacts it did not close, and none repeats a deterministic fact in either direction
\* (_invalidate_stale, existing_pairs).
JudgeEdgesFollowTheRun ==
  jrun.pc = "completed" /\ jrun.cands # {} =>
    /\ LiveEdges(db) \subseteq jrun.computed
    /\ \A p \in jrun.computed : p \notin LiveEdges(db) => {p[1], p[2]} \cap db.out # {}
    /\ \A p \in LiveEdges(db) : p \notin jrun.facts /\ <<p[2], p[1]>> \notin jrun.facts

\* The hints in the registry are those this build stands behind, grounded and undivided.
JudgeEdgesStand == InferredIsGrounded /\ OneVerdictPerPair /\ JudgeEdgesFollowTheRun

\* An edge keeps the build that introduced it, however often it is judged again
\* (_upsert_judge_edge).
IntroductionsAreKept ==
  [][\A p \in DOMAIN db.edges : p \in DOMAIN db'.edges /\ db'.edges[p].from = db.edges[p].from]_db

\* What a version contains, once it is served, stays as it was: version-membership.md.
JudgeMembers(w, n) == {<<p, w.edges[p].bucket>> :
                         p \in {q \in DOMAIN w.edges : w.edges[q].from <= n
                                  /\ (w.edges[q].until = 0 \/ w.edges[q].until > n)}}
PublishedHintsAreKept ==
  [][\A n \in 1..MaxJudged : n <= jserved => JudgeMembers(db', n) = JudgeMembers(db, n)]_db
================================================================================
