--------------------------- MODULE IncrementalBuild ---------------------------
(***************************************************************************)
(* What a build does to the registry: the listing of the sources, the      *)
(* generation cache, one commit per source, the whole-tree code graph, the *)
(* linker, the invalidation pass and the publish gates that read it.       *)
(*                                                                         *)
(* One builder at a time (BuildLifecycle).  A source's content is the set  *)
(* of pieces (document sections, code symbols) extracted from it; a piece  *)
(* stands for its text, so that equal pieces have equal content_hash.  The *)
(* empty set is a source that is absent, or a hash that was never stored.  *)
(***************************************************************************)
EXTENDS Integers, FiniteSets

CONSTANTS
    Docs,        \* prose sources: docify behind the generation cache
    Code,        \* github_code sources: one graphify pass per repo
    RepoOf,      \* the repo of each code source
    ContentsOf,  \* the contents a source may hold
    Mentions,    \* <<p, q>>: the text of piece p names the title of piece q
    Calls,       \* <<p, q>>: graphify finds an edge from p to q
    Habits,      \* what sources do beside fresh edits: "revert", "readd"
    Faults,      \* "source_failure", "graphify_failure", "interruption"
    MaxBuilds    \* bound on build_seq

Sources == Docs \cup Code

Pieces == UNION UNION {ContentsOf[s] : s \in Sources}

Contents == UNION {ContentsOf[s] : s \in Sources}

ASSUME ConstantsAssumption == /\ Docs \cap Code = {}
                              /\ MaxBuilds \in Nat
                              /\ \A s \in Sources : {} \notin ContentsOf[s]

VARIABLES
    world,       \* the content each source really has
    item,        \* source_item: the stored content_hash and is_deleted
    art,         \* knowledge_artifact: id |-> invalidated_at_seq
    edges,       \* knowledge_edge rows
    cache,       \* generation_cache: content |-> mapped artifact ids
    seq,         \* build_seq of the current or last build
    active,      \* build_seq served, 0 for none
    pc,          \* phase of the builder
    todo,        \* sources whose turn is still to come in this build
    seen,        \* seen_source_ids
    changed      \* changed_source_ids

registry == <<item, art, edges, cache>>
progress == <<todo, seen, changed>>
vars == <<world, registry, seq, active, pc, progress>>

Null == 0        \* invalidated_at_seq IS NULL; build_seq starts at 1

Ids == [src : Sources, piece : Pieces, from : 1..MaxBuilds]

Edges == [from : Ids, to : Ids, source : {"linker", "graphify"},
          since : 1..MaxBuilds, inv : 0..MaxBuilds]

NoRow == [cached |-> FALSE, ids |-> {}]

TypeOK == /\ world \in [Sources -> Contents \cup {{}}]
          /\ item \in [Sources -> [hash : Contents \cup {{}}, deleted : BOOLEAN]]
          /\ DOMAIN art \subseteq Ids
          /\ \A a \in DOMAIN art : art[a] \in 0..MaxBuilds
          /\ edges \subseteq Edges
          /\ cache \in [Contents -> [cached : BOOLEAN, ids : SUBSET DOMAIN art]]
          /\ seq \in 0..MaxBuilds
          /\ active \in 0..seq
          /\ pc \in {"idle", "sources", "finalize", "completed"}
          /\ todo \subseteq Sources /\ seen \subseteq Sources /\ changed \subseteq Sources

Live == {a \in DOMAIN art : art[a] = Null}

LivePieces(s) == {a.piece : a \in {x \in Live : x.src = s}}

\* The membership predicate both services share (version-membership.md).
Members(n) == {a \in DOMAIN art : a.from <= n /\ (art[a] = Null \/ art[a] > n)}

EdgeMembers(n) == {e \in edges : e.since <= n /\ (e.inv = Null \/ e.inv > n)}

Init == /\ world = [s \in Sources |-> {}]
        /\ item = [s \in Sources |-> [hash |-> {}, deleted |-> FALSE]]
        /\ art = [a \in {} |-> Null]
        /\ edges = {}
        /\ cache = [c \in Contents |-> NoRow]
        /\ seq = 0 /\ active = 0
        /\ pc = "idle"
        /\ todo = {} /\ seen = {} /\ changed = {}
------------------------------------------------------------------------------
\* The contents source s was extracted from so far.
Generations(s) == {{a.piece : a \in {x \in DOMAIN art : x.src = s /\ x.from = n}} : n \in 1..seq}

\* A source stays, disappears, gets a content it never had, or, out of habit,
\* an old one: a revert in place or a return after a deletion.
MayBecome(s) ==
    {world[s], {}} \cup {c \in ContentsOf[s] :
        \/ c \notin Generations(s)
        \/ (IF world[s] = {} THEN "readd" ELSE "revert") \in Habits}

\* The sources change and a build starts.  An edit while the build runs is an
\* edit before it or after it: each source is read once.
StartBuild == /\ pc = "idle"
              /\ seq < MaxBuilds
              /\ \E w \in [Sources -> Contents \cup {{}}] :
                    /\ \A s \in Sources : w[s] \in MayBecome(s)
                    /\ world' = w
              /\ seq' = seq + 1
              /\ pc' = "sources"
              /\ todo' = Sources /\ seen' = {} /\ changed' = {}
              /\ UNCHANGED <<registry, active>>

\* _is_unchanged compares hashes only: a deleted row answers, too.
IsUnchanged(s) == item[s].hash = world[s]

Stored(s) == item[s].hash # {}

\* _upsert_source_item
Upserted(S) == [s \in Sources |-> IF s \in S THEN [hash |-> world[s], deleted |-> FALSE]
                                             ELSE item[s]]

\* (mutant) Stamped with the version that is served.
NewIdsInServed(s) ==
    {[src |-> s, piece |-> p, from |-> IF active = 0 THEN seq ELSE active] : p \in world[s]}

NewIds(s) == {[src |-> s, piece |-> p, from |-> seq] : p \in world[s]}

WithNew(A) == [a \in DOMAIN art \cup A |-> IF a \in A THEN Null ELSE art[a]]

Turn(s) == pc = "sources" /\ s \in todo /\ todo' = todo \ {s}

\* The connector does not list the source, or lists it unchanged
\* (_touch_last_seen).
SkipDoc(s) == /\ Turn(s) /\ s \in Docs
              /\ \/ world[s] = {} /\ UNCHANGED seen
                 \/ world[s] # {} /\ IsUnchanged(s) /\ seen' = seen \cup {s}
              /\ UNCHANGED <<world, registry, seq, active, pc, changed>>

\* (mutant) The cache is written, never asked.
ExtractDocUngated(s) ==
    /\ Turn(s) /\ s \in Docs
    /\ world[s] # {} /\ ~IsUnchanged(s)
    /\ item' = Upserted({s})
    /\ art' = WithNew(NewIds(s))
    /\ cache' = [cache EXCEPT ![world[s]] = [cached |-> TRUE, ids |-> @.ids \cup NewIds(s)]]
    /\ seen' = seen \cup {s} /\ changed' = changed \cup {s}
    /\ UNCHANGED <<world, edges, seq, active, pc>>

\* _process_changed_source and its commit.  A generation-cache hit replays
\* the mapped ids and writes no artifact.
ExtractDoc(s) ==
    /\ Turn(s) /\ s \in Docs
    /\ world[s] # {} /\ ~IsUnchanged(s)
    /\ item' = Upserted({s})
    /\ IF cache[world[s]].cached
         THEN UNCHANGED <<art, cache>>
         ELSE /\ art' = WithNew(NewIds(s))
              /\ cache' = [cache EXCEPT ![world[s]] = [cached |-> TRUE, ids |-> NewIds(s)]]
    /\ seen' = seen \cup {s} /\ changed' = changed \cup {s}
    /\ UNCHANGED <<world, edges, seq, active, pc>>

\* (mutant) The hash advances before the extraction.
FailDocAfterHash(s) ==
    /\ "source_failure" \in Faults
    /\ Turn(s) /\ s \in Docs
    /\ world[s] # {} /\ ~IsUnchanged(s)
    /\ item' = Upserted({s})
    /\ seen' = IF Stored(s) THEN seen \cup {s} ELSE seen
    /\ UNCHANGED <<world, art, edges, cache, seq, active, pc, changed>>

\* Extraction raises: roll back to the last commit, keep the prior generation.
FailDoc(s) == /\ "source_failure" \in Faults
              /\ Turn(s) /\ s \in Docs
              /\ world[s] # {} /\ ~IsUnchanged(s)
              /\ seen' = IF Stored(s) THEN seen \cup {s} ELSE seen
              /\ UNCHANGED <<world, registry, seq, active, pc, changed>>
------------------------------------------------------------------------------
Units == {s \in Code : world[s] # {}}

\* The repos whose graphify pass raises; their sources are not marked seen.
Broken == IF "graphify_failure" \in Faults THEN SUBSET {RepoOf[s] : s \in Units} ELSE {{}}

CodeEdges(A) == {[from |-> x[1], to |-> x[2], source |-> "graphify", since |-> seq, inv |-> Null] :
                   x \in {y \in A \X A : /\ <<y[1].piece, y[2].piece>> \in Calls
                                         /\ RepoOf[y[1].src] = RepoOf[y[2].src]}}

\* _graphify_code_tree: one changed file rebuilds every file of every repo.
\* Only a changed file is upserted; the others are touched.
GraphifyTree ==
    /\ pc = "sources" /\ todo = Code
    /\ \E s \in Units : ~IsUnchanged(s)
    /\ \E broken \in Broken :
         LET built == {s \in Units : RepoOf[s] \notin broken}
             new == UNION {NewIds(s) : s \in built}
         IN  /\ item' = Upserted({s \in built : ~IsUnchanged(s)})
             /\ art' = WithNew(new)
             /\ edges' = edges \cup CodeEdges(new)
             /\ seen' = seen \cup built /\ changed' = changed \cup built
    /\ todo' = {} /\ pc' = "finalize"
    /\ UNCHANGED <<world, cache, seq, active>>

\* No code file changed: the prior code graph stands.
KeepTree == /\ pc = "sources" /\ todo = Code
            /\ \A s \in Units : IsUnchanged(s)
            /\ seen' = seen \cup Units
            /\ todo' = {} /\ pc' = "finalize"
            /\ UNCHANGED <<world, registry, seq, active, changed>>
------------------------------------------------------------------------------
\* run_linker loads every artifact of a source that is not deleted, also those
\* an earlier build invalidated, and reconciles the linker edges with the
\* links it computes: missing ones are inserted, existing ones revived, live
\* ones without evidence closed.
Linkable == {a \in DOMAIN art : ~item[a.src].deleted}

Links == {x \in Linkable \X Linkable : x[1] # x[2] /\ <<x[1].piece, x[2].piece>> \in Mentions}

Linker(E) == {e \in E : e.source = "linker"}

Linked ==
    LET known == {<<e.from, e.to>> : e \in Linker(edges)}
    IN  (edges \ Linker(edges))
        \cup {[e EXCEPT !.inv = IF <<e.from, e.to>> \in Links THEN Null
                                ELSE IF e.inv = Null THEN seq ELSE e.inv] : e \in Linker(edges)}
        \cup {[from |-> x[1], to |-> x[2], source |-> "linker", since |-> seq, inv |-> Null] :
                 x \in Links \ known}

\* _vanished_live_sources
Vanished == {s \in Sources : Stored(s) /\ ~item[s].deleted} \ seen

\* _detect_renames: for each content_hash the first old and the first new row
\* an unordered SELECT returns.
OldOf(p) == {a \in Live : a.piece = p /\ a.src \in Vanished}

NewOf(p) == {a \in DOMAIN art : a.piece = p /\ a.from = seq /\ a.src \notin Vanished}

Moved == {p \in Pieces : OldOf(p) # {} /\ NewOf(p) # {}}

Renamings == {r \in [Moved -> UNION {OldOf(p) \X NewOf(p) : p \in Moved}] :
                 \A p \in Moved : r[p] \in OldOf(p) \X NewOf(p)}

\* (mutant) Physical DELETE.
DeletedEdges(E, X) == {e \in E : {e.from, e.to} \cap X = {}}

\* (mutant) Only outgoing edges.
ClosedFrom(E, X) == {[e EXCEPT !.inv = IF @ = Null /\ e.from \in X THEN seq ELSE @] : e \in E}

\* The rows in X, and the edges that touch X, leave the KB in this build.
Closed(A, X) == [a \in DOMAIN A |-> IF a \in X /\ A[a] = Null THEN seq ELSE A[a]]

ClosedEdges(E, X) == {[e EXCEPT !.inv = IF @ = Null /\ {e.from, e.to} \cap X # {} THEN seq ELSE @] :
                         e \in E}

\* _reattach_edges: live edges follow the renamed artifacts; one that would
\* become a self-loop is closed instead.
Followed(e, pairs) ==
    LET follow(a) == IF \E x \in pairs : x[1] = a THEN (CHOOSE x \in pairs : x[1] = a)[2] ELSE a
    IN  IF e.inv # Null THEN e
        ELSE IF <<e.from, e.to>> \in pairs \/ <<e.to, e.from>> \in pairs
          THEN [e EXCEPT !.inv = seq]
          ELSE [e EXCEPT !.from = follow(e.from), !.to = follow(e.to)]

Reattached(E, r) == LET pairs == {r[p] : p \in Moved} IN {Followed(e, pairs) : e \in E}

\* uq_knowledge_edge_linker: one linker row per pair of artifacts.  Two rows that
\* follow into one pair meet it, also when nothing else tells them apart.
LinksStayApart(E, r) ==
    LET pairs == {r[p] : p \in Moved}
    IN  \A e, f \in Linker(E) :
          Followed(e, pairs).from = Followed(f, pairs).from
          /\ Followed(e, pairs).to = Followed(f, pairs).to => e = f

\* _supersession_sweep covers the prior generations of the changed sources.
Superseded == {a \in Live : a.src \in changed /\ a.from < seq}

\* The rename pass and the deletion sweep, as the ids and sources they close.
RenamedIds(r) == {r[p][1] : p \in Moved}

RenamedSources(r) == {a.src : a \in RenamedIds(r)}

SweptSources(r) == Vanished \ RenamedSources(r)

SweptIds(r) == {a \in Live : a.src \in SweptSources(r)}

\* _finalize_graph, _reconcile_index and _finish_run in one transaction: the
\* linker, then renames, deletions and supersessions.
Finalize ==
    /\ pc = "finalize"
    /\ \E r \in Renamings :
         LET moved == Reattached(Linked, r)
             swept == ClosedEdges(moved, SweptIds(r))
             gone == RenamedIds(r) \cup SweptIds(r) \cup Superseded
         IN  /\ LinksStayApart(Linked, r)
             /\ art' = Closed(art, gone)
             /\ edges' = ClosedEdges(swept, Superseded)
             /\ item' = [s \in Sources |-> IF s \in Vanished
                                             THEN [item[s] EXCEPT !.deleted = TRUE]
                                             ELSE item[s]]
             /\ cache' = [c \in Contents |-> [cache[c] EXCEPT !.ids = @ \ SweptIds(r)]]
    /\ pc' = "completed"
    /\ UNCHANGED <<world, seq, active, progress>>

\* The process ends and its in-memory sets are forgotten.
BuildEnds == pc' = "idle" /\ todo' = {} /\ seen' = {} /\ changed' = {}

\* The rename pass breaks the unique index: the build is recorded as failed.
FinalizeRaises == /\ pc = "finalize"
                  /\ \E r \in Renamings : ~LinksStayApart(Linked, r)
                  /\ BuildEnds
                  /\ UNCHANGED <<world, registry, seq, active>>

\* A crash, or an exception outside the per-source handler: what is committed
\* stays.
Interrupt == /\ "interruption" \in Faults
             /\ pc \in {"sources", "finalize"}
             /\ BuildEnds
             /\ UNCHANGED <<world, registry, seq, active>>
------------------------------------------------------------------------------
\* no_dangling_citations_gate and edge_evidence_integrity_gate.
Dangling(n) == {a \in Members(n) : item[a.src].deleted}

Ghosts(n) == {e \in EdgeMembers(n) : ~({e.from, e.to} \subseteq Members(n))}

Publish == /\ pc = "completed"
           /\ Dangling(seq) = {} /\ Ghosts(seq) = {}
           /\ active' = seq
           /\ BuildEnds
           /\ UNCHANGED <<world, registry, seq>>

\* A gate fails, one of these two or one that is not modelled here.
Reject == /\ pc = "completed"
          /\ BuildEnds
          /\ UNCHANGED <<world, registry, seq, active>>

Next == \/ StartBuild
        \/ \E s \in Sources : SkipDoc(s) \/ ExtractDoc(s) \/ FailDoc(s)
        \/ GraphifyTree
        \/ KeepTree
        \/ Finalize
        \/ FinalizeRaises
        \/ Interrupt
        \/ Publish
        \/ Reject

Spec == Init /\ [][Next]_vars
------------------------------------------------------------------------------
\* What readers of the served version see does not change under them, while later builds write,
\* fail, crash and invalidate (invariant 5): invalidated_at_seq goes from NULL to the running build
\* once, no artifact row is ever deleted, and the served set stays what it is.
ServedRowsAreFrozen ==
    [][/\ active' = active => Members(active)' = Members(active)
       /\ \A a \in DOMAIN art : /\ a \in DOMAIN art'
                                /\ art[a] # Null => art'[a] = art[a]
                                /\ art'[a] \in {art[a], seq}]_vars

\* ... and neither do the edges between them.
ServedEdgesStable ==
    [][active' = active =>
         {<<e.from, e.to>> : e \in EdgeMembers(active)'} =
         {<<e.from, e.to>> : e \in EdgeMembers(active)}]_vars

\* A stored hash means its knowledge is there: hash advance and artifacts
\* commit together, whatever fails or crashes around them.
CommittedKnowledgeIsLive ==
    \A s \in Sources : ~item[s].deleted => item[s].hash \subseteq LivePieces(s)

\* When a build completes, every source is represented by exactly the content
\* its row stands for: no second generation, nothing of a deleted source.
EachSourceServedOnce ==
    pc = "completed" =>
      \A s \in Sources :
        /\ LivePieces(s) = IF item[s].deleted THEN {} ELSE item[s].hash
        /\ \A a, b \in Live : a.src = s /\ b.src = s /\ a.piece = b.piece => a = b

\* When a build completes, a source that was listed with the content the
\* registry stores is alive; it is only behind when its extraction failed.
ListedSourcesAreKept ==
    pc = "completed" =>
      \A s \in Sources : world[s] # {} /\ item[s].hash = world[s] => ~item[s].deleted

\* When a build completes, a source that is alive in the registry is served exactly once and as it
\* was recorded, and a listed source is alive: the three above, which different faults threaten.
ListedIsServedOnce == CommittedKnowledgeIsLive /\ EachSourceServedOnce /\ ListedSourcesAreKept

\* When a build completes, the content of every listed source is served, be it
\* under another source the generation cache extracted it for.
ListedContentIsServed ==
    pc = "completed" =>
      \A s \in Sources : item[s].hash = world[s] => world[s] \subseteq {a.piece : a \in Live}

\* A completed build has no edge whose endpoints left the KB.
NoGhostEdges == pc = "completed" => Ghosts(seq) = {}

\* No artifact of a deleted source survives into a completed build.
NoDanglingCitations == pc = "completed" => Dangling(seq) = {}

\* The finalize never trips over its own rename pass.
RenameNeverAborts ==
    pc = "finalize" => \A r \in Renamings : LinksStayApart(Linked, r)

\* The generation cache maps a content to artifacts of exactly that content,
\* written together for one source.
CacheMapsWhatWasExtracted ==
    \A c \in Contents :
      /\ {a.piece : a \in cache[c].ids} \subseteq c
      /\ \A a, b \in cache[c].ids : a.src = b.src /\ a.from = b.from
===============================================================================
