---------------------------- MODULE IndexProjection ----------------------------
(***************************************************************************)
(* What a build pays for and what it writes outside of its transaction:    *)
(* the durable output cache, which commits on a connection of its own, and *)
(* the search index, which does not take part in any transaction.  Source: *)
(* kb-builder application/build_runner.py, application/cache_gates.py,     *)
(* infrastructure/postgres/durable_output_cache.py, indexing/*.            *)
(*                                                                         *)
(* Sources other than code are committed one by one, the finalize in one   *)
(* transaction.  Any step may fail, and the process may die anywhere.      *)
(*                                                                         *)
(* Abstractions.  Extraction is a function of the content, an embedding of *)
(* the text.  The alias index is one row, of the sources that stand; its   *)
(* sweeps and its revival are in AliasIndex, renames in IncrementalBuild.  *)
(***************************************************************************)
EXTENDS Integers, FiniteSets, Sequences, Functions, FiniteSetsExt, SequencesExt

CONSTANTS
  Prose, Commits,   \* sources: documents and cards, and commits
  Contents,         \* what documents can hold
  TextsOf,          \* TextsOf[c]: texts of the artifacts that are extracted from a content
  Absent,           \* the source is not listed; a row of it has no hash
  MaxChanges, MaxFaults, MaxRuns    \* bounds: edits, faults, builds

Places == Prose \union Commits

ASSUME ProjectionAssumption ==
  /\ Prose \intersect Commits = {} /\ Absent \notin Contents /\ "alias" \notin Places
  /\ \A c \in Contents : TextsOf[c] \in Seq(Range(TextsOf[c])) /\ TextsOf[c] # <<>>
  /\ MaxChanges \in Nat /\ MaxFaults \in Nat /\ MaxRuns \in Nat

VARIABLES
  listing,   \* what the connectors list: content by source
  reg, tx,   \* the registry: committed, and as the session sees it
  durable,   \* outputs in the durable cache
  docs,      \* the search index: artifact -> text
  bill,      \* calls of a model, per output
  wasted,    \* calls whose output was lost before it was recorded
  xrun,      \* the progress of the build
  minted,    \* artifact ids so far: they are random, none comes twice
  changes, faults, xseq

projectionVars == <<listing, reg, tx, durable, docs, bill, wasted, xrun, minted,
                    changes, faults, xseq>>

--------------------------------------------------------------------------------
(* The registry and its projection *)

\* rows: [src, text, from, until], by artifact id; gen: generation cache; vec: <<id, text>>.
EmptyRegistry ==
  [hash |-> [s \in Places |-> Absent], gone |-> {}, rows |-> [i \in {} |-> {}],
   gen |-> [c \in {} |-> {}], vec |-> {}]

IsAlias(r) == r.src = "alias"

\* What the index should hold: live rows of sources that stand.
Projectable(g) ==
  {i \in DOMAIN g.rows : g.rows[i].until = 0 /\ g.rows[i].src \notin g.gone}

\* An artifact_hash is compared; no row has one, so a document can only be absent.
Lacking(g) == Projectable(g) \ DOMAIN docs
Orphans(g) == DOMAIN docs \ Projectable(g)

\* validate_index_consistency
Consistent(g) == Lacking(g) = {} /\ Orphans(g) = {}

--------------------------------------------------------------------------------
(* Paid outputs *)

DocOutput(c) == <<"doc", c>>
VecOutput(t) == <<"vec", t>>

Outputs == {DocOutput(c) : c \in Contents}
           \union {VecOutput(t) : t \in (UNION {Range(TextsOf[c]) : c \in Contents}) \union Commits}

NeverRead(o) == FALSE     \* (mutant) the durable cache is written and not consulted

InDurable(o) == o \in durable

\* The vector is looked up by artifact and text.

NeedsVector(i) == i \in DOMAIN tx.rows /\ <<i, tx.rows[i].text>> \notin tx.vec

--------------------------------------------------------------------------------
(* The build *)

Resting ==
  [pc |-> "idle", todo |-> {}, src |-> Absent, seen |-> {}, changed |-> {}, queue |-> <<>>,
   all |-> {}, status |-> "none", spared |-> FALSE]

InBuild == xrun.pc \notin {"idle", "done"}
Quiet == ~InBuild

StartBuild ==
  /\ Quiet /\ xseq < MaxRuns
  /\ xseq' = xseq + 1
  /\ xrun' = [Resting EXCEPT !.pc = "list", !.status = "running",
                             !.todo = {s \in Places : listing[s] # Absent}]
  /\ UNCHANGED <<listing, reg, tx, durable, docs, bill, wasted, changes, faults, minted>>

\* Sources in any order; one whose hash is recorded is only touched.
Taken(s) == [xrun EXCEPT !.todo = @ \ {s}, !.src = s]

Unchanged(s) ==
  /\ xrun.pc = "list" /\ s \in xrun.todo
  /\ tx.hash[s] = listing[s]
  /\ xrun' = [Taken(s) EXCEPT !.seen = @ \union {s}]
  /\ UNCHANGED <<listing, reg, tx, durable, docs, bill, wasted, changes, faults, xseq, minted>>

NewRow(s, t) == [src |-> s, text |-> t, from |-> xseq, until |-> 0]

\* The ids of the next n artifacts; rows with them.
New(n) == minted + 1 .. minted + n

Added(g, rows) ==
  [g EXCEPT !.rows = [i \in DOMAIN g.rows \union New(Len(rows)) |->
                        IF i \in DOMAIN g.rows THEN g.rows[i] ELSE rows[i - minted]]]

ToEmbed(s, ids) == [Taken(s) EXCEPT !.pc = "embed", !.all = ids, !.queue = SetToSeq(ids)]

Upsert(g, s) == [g EXCEPT !.hash[s] = listing[s], !.gone = @ \ {s}]

\* A commit is one artifact, without a model.
TakeCommit(s) ==
  /\ xrun.pc = "list" /\ s \in xrun.todo \intersect Commits
  /\ tx.hash[s] # listing[s]
  /\ tx' = Upsert(Added(tx, <<NewRow(s, s)>>), s)
  /\ xrun' = ToEmbed(s, New(1))
  /\ minted' = minted + 1
  /\ UNCHANGED <<listing, reg, durable, docs, bill, wasted, changes, faults, xseq>>

\* Artifacts and their cache row, in the session.
Mapped(g, s, c) ==
  [Upsert(Added(g, [k \in 1..Len(TextsOf[c]) |-> NewRow(s, TextsOf[c][k])]), s)
     EXCEPT !.gen = [d \in DOMAIN g.gen \union {c} |->
                       IF d = c THEN New(Len(TextsOf[c])) ELSE g.gen[d]]]

\* A document: replayed from the generation cache, mapped from the durable cache, or paid.
TakeDocument(s) ==
  LET c == listing[s]
  IN  /\ xrun.pc = "list" /\ s \in xrun.todo \intersect Prose
      /\ tx.hash[s] # c
      /\ \/ /\ c \in DOMAIN tx.gen
            /\ tx' = Upsert(tx, s)
            /\ xrun' = ToEmbed(s, tx.gen[c])
            /\ UNCHANGED <<bill, minted>>
         \/ /\ c \notin DOMAIN tx.gen /\ InDurable(DocOutput(c))
            /\ tx' = Mapped(tx, s, c)
            /\ xrun' = ToEmbed(s, tx'.gen[c])
            /\ minted' = minted + Len(TextsOf[c])
            /\ UNCHANGED bill
         \/ /\ c \notin DOMAIN tx.gen /\ ~InDurable(DocOutput(c))
            /\ bill' = [bill EXCEPT ![DocOutput(c)] = @ + 1]
            /\ xrun' = [Taken(s) EXCEPT !.pc = "extracted"]
            /\ UNCHANGED <<tx, minted>>
  /\ UNCHANGED <<listing, reg, durable, docs, wasted, changes, faults, xseq>>

\* put_doc_extraction commits at once; when the store is down the build goes on without.
RecordExtraction(stored) ==
  LET s == xrun.src
      c == listing[s]
  IN  /\ xrun.pc = "extracted"
      /\ stored \/ faults < MaxFaults
      /\ durable' = IF stored THEN durable \union {DocOutput(c)} ELSE durable
      /\ wasted' = IF stored THEN wasted ELSE [wasted EXCEPT ![DocOutput(c)] = @ + 1]
      /\ faults' = IF stored THEN faults ELSE faults + 1
      /\ tx' = Mapped(tx, s, c)
      /\ minted' = minted + Len(TextsOf[c])
      /\ xrun' = ToEmbed(s, tx'.gen[c])
      /\ UNCHANGED <<listing, reg, docs, bill, changes, xseq>>

WithVector(g, i) == [g EXCEPT !.vec = @ \union {<<i, g.rows[i].text>>}]

\* The next artifact has its vector, gets a durable one, or pays for it.
Embed ==
  /\ xrun.pc = "embed" /\ xrun.queue # <<>>
  /\ LET i == Head(xrun.queue)
         o == VecOutput(tx.rows[i].text)
         rest == [xrun EXCEPT !.queue = Tail(@)]
     IN  \/ ~NeedsVector(i) /\ xrun' = rest /\ UNCHANGED <<tx, bill>>
         \/ /\ NeedsVector(i) /\ InDurable(o)
            /\ tx' = WithVector(tx, i) /\ xrun' = rest /\ UNCHANGED bill
         \/ /\ NeedsVector(i) /\ ~InDurable(o)
            /\ bill' = [bill EXCEPT ![o] = @ + 1]
            /\ xrun' = [xrun EXCEPT !.pc = "embedded"]
            /\ UNCHANGED tx
  /\ UNCHANGED <<listing, reg, durable, docs, wasted, changes, faults, xseq, minted>>

RecordVector(stored) ==
  /\ xrun.pc = "embedded"
  /\ stored \/ faults < MaxFaults
  /\ LET i == Head(xrun.queue)
         o == VecOutput(tx.rows[i].text)
     IN  /\ durable' = IF stored THEN durable \union {o} ELSE durable
         /\ wasted' = IF stored THEN wasted ELSE [wasted EXCEPT ![o] = @ + 1]
         /\ tx' = WithVector(tx, i)
  /\ faults' = IF stored THEN faults ELSE faults + 1
  /\ xrun' = [xrun EXCEPT !.pc = "embed", !.queue = Tail(@)]
  /\ UNCHANGED <<listing, reg, docs, bill, changes, xseq, minted>>

Written(ids) == [i \in DOMAIN docs \union ids |-> IF i \in ids THEN tx.rows[i].text ELSE docs[i]]

\* The index takes the documents of the source before its transaction commits.
UpsertDocuments ==
  /\ xrun.pc = "embed" /\ xrun.queue = <<>>
  /\ docs' = Written(xrun.all \intersect Projectable(tx))
  /\ xrun' = [xrun EXCEPT !.pc = "commit"]
  /\ UNCHANGED <<listing, reg, tx, durable, bill, wasted, changes, faults, xseq, minted>>

CommitSource ==
  /\ xrun.pc = "commit"
  /\ reg' = tx
  /\ xrun' = [xrun EXCEPT !.pc = "list", !.seen = @ \union {xrun.src},
                          !.changed = @ \union {xrun.src}, !.src = Absent, !.all = {}]
  /\ UNCHANGED <<listing, tx, durable, docs, bill, wasted, changes, faults, xseq, minted>>

\* The output that a paid call returned and nobody recorded yet.
InHand ==
  IF xrun.pc = "extracted" THEN {DocOutput(listing[xrun.src])}
  ELSE IF xrun.pc = "embedded" THEN {VecOutput(tx.rows[Head(xrun.queue)].text)}
  ELSE {}

Lost == [o \in Outputs |-> IF o \in InHand THEN wasted[o] + 1 ELSE wasted[o]]

\* Some of the documents of an upsert may have been taken.
Half(ids) == {docs} \union {Written({i}) : i \in ids}

RolledBack == reg

\* A step of a source raises: the source is rolled back, its earlier state stays seen.
SourceFails ==
  /\ xrun.pc \in {"extracted", "embed", "embedded", "commit"} /\ faults < MaxFaults
  /\ tx' = RolledBack
  /\ docs' \in IF xrun.pc = "embed" /\ xrun.queue = <<>>
               THEN Half(xrun.all \intersect Projectable(tx)) ELSE {docs}
  /\ wasted' = Lost
  /\ faults' = faults + 1
  /\ xrun' = [xrun EXCEPT !.pc = "list", !.src = Absent, !.all = {}, !.queue = <<>>,
                !.seen = IF reg.hash[xrun.src] # Absent THEN @ \union {xrun.src} ELSE @]
  /\ UNCHANGED <<listing, reg, durable, bill, changes, xseq, minted>>

--------------------------------------------------------------------------------
(* The finalize *)

\* The sweeps, then the alias row of the documents that stand, refreshed in place.
Finalized(g) ==
  LET vanished == {s \in Places : g.hash[s] # Absent /\ s \notin g.gone \union xrun.seen}
      closed(r) == ~IsAlias(r) /\ r.until = 0
                   /\ (r.src \in vanished \/ (r.src \in xrun.changed /\ r.from < xseq))
      rows == [i \in DOMAIN g.rows |-> IF closed(g.rows[i]) THEN [g.rows[i] EXCEPT !.until = xseq]
                                       ELSE g.rows[i]]
      stand == {s \in Prose : g.hash[s] # Absent /\ s \notin g.gone \union vanished}
      old == {i \in DOMAIN rows : IsAlias(rows[i]) /\ rows[i].until = 0}
      kept == [g EXCEPT !.gone = @ \union vanished,
                        !.rows = [i \in DOMAIN rows |->
                                    IF i \notin old THEN rows[i]
                                    ELSE IF stand = {} THEN [rows[i] EXCEPT !.until = xseq]
                                    ELSE [rows[i] EXCEPT !.text = stand]]]
  IN  IF old = {} /\ stand # {} THEN Added(kept, <<NewRow("alias", stand)>>) ELSE kept

Finalize ==
  /\ xrun.pc = "list" /\ xrun.todo = {}
  /\ tx' = Finalized(tx)
  /\ minted' = minted + Cardinality(DOMAIN tx'.rows) - Cardinality(DOMAIN tx.rows)
  /\ xrun' = [xrun EXCEPT !.pc = "orphans"]
  /\ UNCHANGED <<listing, reg, durable, docs, bill, wasted, changes, faults, xseq>>

Without(ids) == [i \in DOMAIN docs \ ids |-> docs[i]]

\* delete_orphaned: the number of documents removed is not looked at.
DeleteOrphaned ==
  /\ xrun.pc = "orphans"
  /\ \/ docs' = Without(Orphans(tx)) /\ xrun' = [xrun EXCEPT !.pc = "backfill"] /\ UNCHANGED faults
     \/ /\ faults < MaxFaults /\ faults' = faults + 1
        /\ \E i \in Orphans(tx) : docs' = Without(Orphans(tx) \ {i})
        /\ xrun' = [xrun EXCEPT !.pc = "backfill", !.spared = TRUE]
  /\ UNCHANGED <<listing, reg, tx, durable, bill, wasted, changes, xseq, minted>>

OfThisBuild(g) ==     \* (mutant) only rows of this build are looked for
  {i \in Lacking(g) : g.rows[i].from = xseq}

Backfill(g) == Lacking(g)

\* reconcile_missing
ReconcileMissing ==
  /\ xrun.pc = "backfill"
  /\ docs' = Written(Backfill(tx))
  /\ xrun' = [xrun EXCEPT !.pc = "finish"]
  /\ UNCHANGED <<listing, reg, tx, durable, bill, wasted, changes, faults, xseq, minted>>

Finish ==
  /\ xrun.pc = "finish"
  /\ reg' = tx
  /\ xrun' = [xrun EXCEPT !.pc = "gate", !.status = "completed"]
  /\ UNCHANGED <<listing, tx, durable, docs, bill, wasted, changes, faults, xseq, minted>>

\* A step of the finalize raises; what the index took stays.
FinalizeRaises ==
  /\ xrun.pc \in {"orphans", "backfill", "finish"} /\ faults < MaxFaults
  /\ tx' = RolledBack
  /\ docs' \in IF xrun.pc = "backfill" THEN Half(Lacking(tx)) ELSE {docs}
  /\ faults' = faults + 1
  /\ xrun' = [Resting EXCEPT !.pc = "done", !.status = "failed"]
  /\ UNCHANGED <<listing, reg, durable, bill, wasted, changes, xseq, minted>>

\* The process dies.
Dies ==
  /\ InBuild /\ faults < MaxFaults
  /\ tx' = RolledBack
  /\ wasted' = Lost
  /\ faults' = faults + 1
  /\ xrun' = [Resting EXCEPT !.pc = "done", !.status = xrun.status, !.spared = xrun.spared]
  /\ UNCHANGED <<listing, reg, durable, docs, bill, changes, xseq, minted>>

\* The consistency gate (the others are in BuildLifecycle).
ActivateIfConsistent ==
  /\ xrun.pc = "gate"
  /\ xrun' = [xrun EXCEPT !.pc = "done",
                !.status = IF Consistent(reg) THEN "active" ELSE "validation_failed"]
  /\ UNCHANGED <<listing, reg, tx, durable, docs, bill, wasted, changes, faults, xseq, minted>>

--------------------------------------------------------------------------------
(* Between builds *)

Change(s, c) ==
  /\ Quiet /\ changes < MaxChanges
  /\ listing[s] # c
  /\ listing' = [listing EXCEPT ![s] = c]
  /\ changes' = changes + 1
  /\ xrun' = [xrun EXCEPT !.pc = "idle", !.status = "none"]
  /\ UNCHANGED <<reg, tx, durable, docs, bill, wasted, faults, xseq, minted>>

\* The index file is lost, or cannot be read and counts as empty.
IndexLost ==
  /\ Quiet /\ faults < MaxFaults /\ DOMAIN docs # {}
  /\ docs' = Without(DOMAIN docs)
  /\ faults' = faults + 1
  /\ xrun' = [xrun EXCEPT !.pc = "idle", !.status = "none"]
  /\ UNCHANGED <<listing, reg, tx, durable, bill, wasted, changes, xseq, minted>>

ContentOf(s) == IF s \in Commits THEN {s} ELSE Contents

ProjectionInit ==
  /\ listing \in [Places -> Contents \union Commits] /\ \A s \in Places : listing[s] \in ContentOf(s)
  /\ reg = EmptyRegistry /\ tx = EmptyRegistry
  /\ durable = {} /\ docs = EmptyRegistry.rows /\ xrun = Resting
  /\ bill = [o \in Outputs |-> 0] /\ wasted = bill
  /\ minted = 0 /\ changes = 0 /\ faults = 0 /\ xseq = 0

ProjectionNext ==
  \/ StartBuild \/ Embed \/ UpsertDocuments \/ CommitSource \/ SourceFails
  \/ \E s \in Places : Unchanged(s) \/ TakeCommit(s) \/ TakeDocument(s)
  \/ \E b \in BOOLEAN : RecordExtraction(b) \/ RecordVector(b)
  \/ Finalize \/ DeleteOrphaned \/ ReconcileMissing \/ Finish \/ FinalizeRaises
  \/ Dies \/ ActivateIfConsistent \/ IndexLost
  \/ \E s \in Places : \E c \in ContentOf(s) \union {Absent} : Change(s, c)

ProjectionSpec == ProjectionInit /\ [][ProjectionNext]_projectionVars
--------------------------------------------------------------------------------
(* Properties *)

\* A completed build leaves the index with a document for every row that should have one and
\* no other, whatever earlier builds, rollbacks and losses did to it; only a delete that the
\* service refused may leave one, and then the version is not activated (_reconcile_index).
IndexHeals ==
  xrun.status \in {"completed", "active", "validation_failed"} =>
    /\ Projectable(reg) \subseteq DOMAIN docs
    /\ xrun.spared \/ DOMAIN docs \subseteq Projectable(reg)

\* A version is activated only over an index that mirrors its registry (make_consistency_validator).
ActiveIndexMirrors ==
  xrun.status = "active" => DOMAIN docs = Projectable(reg)

\* An output is paid for once, and again only when it was lost before it could be recorded,
\* through crashes, rollbacks and contents that come back (_docify_gated, _embed_gated).
OutputsArePaidOnce == \A o \in Outputs : bill[o] <= 1 + wasted[o]

\* A cached generation leads to committed artifacts of that content (GenerationCacheGate.record).
CacheRowsHaveArtifacts ==
  \A c \in DOMAIN reg.gen :
    /\ reg.gen[c] \subseteq DOMAIN reg.rows
    /\ {reg.rows[i].text : i \in reg.gen[c]} = Range(TextsOf[c])

\* Every indexed document but the aliases has a vector of its text, also when another artifact
\* has the same text (_embed_gated, _load_embeddings).
DocumentsHaveVectors ==
  xrun.status = "active" =>
    \A i \in DOMAIN docs : IsAlias(reg.rows[i]) \/ <<i, docs[i]>> \in reg.vec

\* What readers search is what the registry holds, each document with its vector.
IndexFollowsRegistry == IndexHeals /\ ActiveIndexMirrors /\ DocumentsHaveVectors

\* No output is paid for twice and no cached one leads nowhere.
CachesAreSound == OutputsArePaidOnce /\ CacheRowsHaveArtifacts

\* consistency.py:4, "a build whose index does not faithfully mirror the registry is marked
\* validation_failed": the text of a document is the text of its row.
ActiveIndexIsFaithful ==
  xrun.status = "active" => \A i \in DOMAIN docs : docs[i] = reg.rows[i].text
================================================================================
