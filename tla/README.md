# A TLA+ model of the agentic knowledge-base platform

This directory keeps a formal model beside the code of the platform: modules of
TLA+ for its stateful parts, configurations with which TLC checks them on small
instances, and theorems that the TLA+ proof system checks for instances of any
size. Paths in this document are relative to the root of the repository; `kb/`
stands for `services/kb-builder/src/agentic_kb_builder/` and `mcp/` for
`services/mcp-server/src/agentic_mcp_server/`.

Contents: [the system](#1-the-system), [the plan](#2-the-plan),
[the modules](#3-the-modules), [what is checked](#4-what-is-checked),
[where code and words differ](#5-where-the-code-differs-from-its-description),
[what is proved](#6-what-is-proved), [what is not modelled](#7-what-is-not-modelled),
[how to run it](#8-how-to-run-it).

## 1. The system

The platform turns repositories, work items and wiki pages into a versioned
knowledge base and serves it to coding agents under a budget. Three programs
share one PostgreSQL registry:

* **kb-builder** (`services/kb-builder`), a process started nightly or by hand.
  It lists the sources, extracts what changed, links it, closes what is gone,
  and, if the publish gates pass, *activates* the new version.
* **mcp-server** (`services/mcp-server`), a long-lived asyncio server. Its
  Context Broker answers tool calls of agents from the active version, meters
  them, and writes one `retrieval_event` row for each.
* **review-panel** (`services/review-panel`), a checkpointed graph of model
  calls that drafts one review for a pull request.

Two scripts drive a model with it: **agent_runner** (`scripts/agent_runner.py`)
through the broker's tools, **kb_agent** (`scripts/kb_agent.py`) with a loop and
seven tools of its own. Beside them are the evaluation harness (`evals`), the
agent definitions and the release tooling, which keep no state the services
share.

### 1.1 Components, their state and what makes them correct

| Component | State | Operations | Correct when |
|---|---|---|---|
| Builder lifecycle: `kb/application/builder_lock.py`, `build_runner.py` (`run`, `_start_run`, `_finish_run`), `active_version.py`, `publish_gates.py`, `kb/build.py` | the session-level advisory lock; `kb_build_run` rows; the sequence `kb_build_seq` | acquire and release the lock, start, finish, fail, gate, activate | one builder at a time; one active row; readers never go back; a verdict stays; the gated build is the promoted one |
| Incremental build: `build_runner.py` (`_process_sources`, `_docify_gated`, `_graphify_code_tree`, `_finalize_graph`), `invalidation.py`, `cache_gates.py`, `kb/linker`, `kb/graphify/write.py`, `kb/docify/write.py` | `source_item`, `knowledge_artifact`, `knowledge_edge`, `generation_cache`; in memory the sets *seen* and *changed* | skip, extract, fail a source; rebuild the code graph; link; detect renames; sweep; publish or reject | served rows do not change; a stored hash has its knowledge; one generation of each source is served; no ghost edges; validity intervals close once |
| Search index: `kb/indexing` | documents in Azure Search or a file, outside of every transaction | upsert, delete orphans, back-fill, check | the index holds exactly what the registry holds at activation, and heals after any loss |
| Caches of model output: `kb/infrastructure/postgres/durable_output_cache.py`, `kb/application/cache_gates.py`, `kb/embeddings` | rows on a connection of their own; the generation cache in the build's transaction | get, put | a model call is paid once across crashes; no cached id leads nowhere |
| Judge: `kb/linker/candidates.py`, `cross_domain.py`, `judge.py`, `judgment_cache.py` | `llm_judge` edges, verdicts | propose, rule, reconcile | a hint has a quote and one verdict per pair; what is no longer inferred is closed |
| Alias index: `kb/alias` | alias artifacts, `alias_miner` edges | mine, replay, reconcile, sweep | rows, edges and access are what the live sources say now |
| Connectors: `kb/connectors`, `build_runner.py`, the sweep of `invalidation.py` | `source_item`, attempts and pages of a listing | list, fetch, retry, touch, sweep | what was not listed is not taken for deleted; a row names the content, version and ACL it has |
| Evidence packs: `mcp/context_broker/state.py`, `pack.py`, `request_more.py`, `evidence.py`, `expand.py`, `budgets.py`, `dedupe.py` | `PackStore` (packs in LRU order, one meter per run), one `asyncio.Lock` per pack | create, read, request more, open, expand | budgets and allowances hold under interleaving; a failed call is refunded exactly; an answered question is reused; a pack serves one version |
| kb_search windows: `mcp/context_broker/kb_search.py`, `budgets.py` | one window per session and subject, LRU | search | both caps hold, a failed call is refunded |
| Reads of the graph: `mcp/context_broker/retrieval.py`, `temporal.py`, `graph.py`, `trust.py` | none; several statements over rows that a build closes | rank, collapse, cap; walk | readable members of one version, the best and the nearest |
| Task context: `mcp/context_broker/task_context.py`, `task_context_nodes.py` | the state of a graph of four nodes; an index that moves | resolve, expand, trim, broaden once | nothing is guessed, what is trimmed is the cheapest, the ledger row is the answer |
| Change packs: `mcp/context_broker/change_context.py` | none; several transactions | targets, tests, dependencies, budget | one version, one service, real tests before guesses |
| Verification: `mcp/context_broker/verify.py`, `entailment.py`, `receipt_signing.py`, `platform_trust.py` | entailment verdicts, receipts | adjudicate claims level by level, sign, trust | a passed claim stands on evidence the caller was given and could see; verdicts are kept and paid once |
| Ledger: `mcp/infrastructure/postgres/retrieval_events.py`, `mcp/mcp/tool_handlers.py`, `error_ledger.py`, `checkpoint.py` | `retrieval_event` | one row for each call | no call without a row, none with two |
| Review panel: `services/review-panel/src/review_panel` | checkpoints by thread, `draft` rows | compute or get, resume, reconcile | one draft for each head commit; no finding is lost or softened |
| Agent runner: `scripts/agent_runner.py` | a git worktree, the attempt, governance rows | answer, write, gate, test, correct, clean up | nothing runs before the gate; tests run on the change and nothing else; bounded spending |
| Agent without a broker: `scripts/kb_agent.py` | the transcript, two budgets, the files | search, read, edit, lint | budgets hold however calls come; every call is answered; nothing is overwritten |

### 1.2 How they interact

* Builder and broker meet only in the registry. The builder writes rows with
  `valid_from_seq` and `invalidated_at_seq`; the broker reads with the
  membership predicate `valid_from_seq <= N and (invalidated_at_seq is null or
  > N)` for the `build_seq` N of the active run. Activation is one transaction.
* A build commits every source on its own; linker, invalidation, index reconcile
  and the final status are one transaction at its end; the gates and the
  activation are another.
* The broker is single-threaded: a tool call runs until it awaits (a query, a
  lock). What it keeps in memory across an await may be stale afterwards.
* The builder's second connection holds the advisory lock; a third commits model
  outputs apart from the build. Nothing else ties either to the work.
* The search index takes part in no transaction: it is written before the registry
  commits and read by the broker whatever the version is.
* The scripts call the broker's tools (`agent_runner`) or read the registry
  (`kb_agent`) while builds run.

### 1.3 What is hard here

Two processes on one registry, and their crashes; state in memory (`seen`,
`changed`, meters, packs) beside state in the database; caches that outlive what
they refer to, or are filled apart from it; an index outside of the
transaction; services that move and fail while they are listed; sweeps whose
order matters; answers put together in several statements over moving versions;
a lock per pack over a meter per run; cancellation in the middle of a charge;
corrections written over a tree that holds an earlier attempt. `PROJECT.json`
lists each of these hazards at its line with the properties that watch it.

## 2. The plan

Order, most important behaviour first. All of these are written and checked; the
proofs that are planned stand at the end.

1. `ServedVersion`, `BuildLifecycle` - with proofs.
2. `IncrementalBuild` - with proofs.
3. `EvidencePack` - with proofs.
4. `KbSearch` - with proofs.
5. `Reconcile`, `ReviewPanel` - with proofs.
6. `IndexProjection` (index and output caches against the registry across
   rollbacks, crashes and activation), `SourceListing` (what a build lists, fetches,
   touches and sweeps), `RelationJudge` and `AliasIndex` (what it derives) - with proofs.
7. `AnswerVerification`, `TaskContext`, the two composed answers - with proofs.
8. `Retrieval`, `ChangeContext`, the reads in several statements over moving versions - with
   proofs.
9. `AgentRunner` (on `ChangeContext`), `KbAgent` (beside `Retrieval`) - with proofs.

What the plan has left, in order: a proof that `ReviewPanel` implements an abstract
write-once draft register while no row is deleted; a module for the centrality pass; one for
the ratio gates.

`BuildLifecycle` treats the work on sources as one step and `IncrementalBuild`
treats the lifecycle as one builder at a time; they meet in the interface
`seq`, `completed`, `active`. The modules of the finalize (judge, alias, index) take
a build's committed sources as given and keep its one transaction. The modules of
the server take from the builder what it exposes: `EvidencePack` the membership set of
each version, `KbSearch` whether one is active, the others validity intervals.

## 3. The modules

An action stands for the code between two points where somebody else can get in:
two commits or external calls of the builder, two awaits of the broker, two
checkpoints or database statements of the panel, two commands of a script. A
definition marked *(mutant)* is a plausible wrong version of the one below it. No
specification uses it: it is put in the place of the right one to see that a
property notices.

### 3.1 `ServedVersion`, `BuildLifecycle`, `BuildLifecycleProofs`

`BuildLifecycle` has any number of builder processes on one registry. `runs` are
the rows of `kb_build_run`, `lastSeq` the sequence, `lock` the holder of the
advisory lock, `pc` the place of each process in `kb/build.py` and
`BuildRunner.run`.

| Action | Code |
|---|---|
| `AcquireLock`, `ReleaseLock` | `acquire_builder_lock`, the `finally` of `_main` |
| `StartRun`, `AssertRunRowAlive`, `FinishRun`, `RunRaises` | `_start_run`, `_assert_run_row_alive`, `_finish_run` with the finalize transaction, the `except` of `run` |
| `LeaveCompleted` | `--no-activate`, and an exception between run and gates |
| `ValidatePasses`, `ValidateFails`, `Activate` | `compose_gates` over the latest completed run of the *label*, `activate_kb_version` on the *build_id* |
| `Crash`, `ReapSession`, `LoseLockConnection`, `WipeRegistry` | the environment: a kill, the server ending a dead session, a broken idle connection, an emptied or recreated database |

`ServedVersion` is what a reader may rely on: one served build, one that
completed, never one that was rejected, sequence numbers that only rise.

### 3.2 `IncrementalBuild`, `IncrementalBuildProofs`

One builder (section 3.1 says why that is enough), many builds. `world` is what
the sources really contain, `item` the `source_item` rows, `art` the artifacts
(identified by source, piece of content and first build) with their
`invalidated_at_seq`, `edges` the edge rows, `cache` the generation cache; `seen`
and `changed` are the two sets that live in the process.

| Action | Code |
|---|---|
| `StartBuild` | `_start_run` and the listing of the sources; the world may have changed since the last build |
| `SkipDoc`, `ExtractDoc`, `FailDoc` | one turn of the loop of `_process_sources`: `_is_unchanged`; `_docify_gated` with its cache hit or write; rollback |
| `GraphifyTree`, `KeepTree` | `_graphify_code_tree`: per repo rebuilt, or passed over when graphify fails; nothing changed |
| `Finalize`, `FinalizeRaises` | `_finalize_graph`: `Linked` (the deterministic linker), `Renamings` and `Reattached`, the sweeps `SweptIds` and `Superseded`, in the order of the code, one transaction |
| `Publish`, `Reject`, `Interrupt` | the gates `Dangling` and `Ghosts`; any other gate; a crash or an exception outside the per-source handler |

A source's content is the set of its pieces; a piece stands for its text and so
for its `content_hash`. Embeddings, judge, alias and the index do not touch these
rows; they are in sections 3.8 to 3.10.

### 3.3 `EvidencePack`, `EvidencePackProofs`

Coroutines on one event loop. `pack`, `stored`, `meterOf`, `usage` are the objects
of `PackStore`; `ledger` adds up the `retrieval_event` rows; `call` is where each
coroutine is suspended.

| Action | Code |
|---|---|
| `CreatePack`, `StorePack`, `ReadPack` | `create_pack` up to and after its queries, `PackStore.create` with eviction, `read_pack` |
| `ArriveMore`, `Reuse`, `RefuseMore`, `Retrieve`, `ChargeMore` | `request_more`: wait for the lock; dedupe; the allowance and the run budget; retrieval; charge |
| `ArriveOpen`, `ChargeOpen`, `RefuseOpen` | `open_evidence` |
| `ArriveExpand`, `ChargeExpand` | `expand` with a pack: the clamp before the awaits, the charge under the lock |
| `LedgerLands`, `CallRaises`, `Cancel` | `insert_event`; the `except Exception` with `restore`; a cancelled task |
| `ActivateNext` | the builder |

### 3.4 `KbSearch`, `KbSearchProofs`

The windows of `kb_search` and the wrapper around every tool. `stored` and
`windowOf` are the LRU store, `window` the window objects with their lock,
`ledger` the approved rows of each window. A window that neither the store nor a
call refers to is collected (`Garbage`).

| Action | Code |
|---|---|
| `Arrive`, `NoVersion`, `ErrorRowLands` | `fetch_active_version`; without one the handler writes its error row and raises `LedgeredToolError` |
| `FindWindow` (`OpenWindow`, `Touched`) | `KbSearchBudgetStore.window_for` |
| `Deny`, `ChargeCall`, `ChargeTokens`, `RowLands` | the critical section of the handler up to each await |
| `HandlerRaises`, `AuditLands`, `AuditFails` | the refund and `_ledgered` / `_write_unexpected_error` |
| `TurnAway` | `SchemaRejectionLedgerMiddleware`, and the scope check of the wrapper |
| `Cancel` | a cancelled task: the lock is released, nothing is refunded or audited |

Two assumptions: a commit that reports an error did not happen; and no handler
raises pydantic's own `ValidationError` (the middleware's docstring says so: it
would be audited twice).

### 3.5 `Reconcile`, `ReviewPanel`, `AgentProgramsProofs`

`Reconcile` is `domain/reconcile.py` as operators: texts are token sets, two are
duplicates at a Jaccard similarity of 0.7, the first group that a finding
duplicates absorbs it and grows. `Selections` says, without recursion, what a list's
comprehension or stable sort leaves of it (`Picked`, `Among`, `Firsts`, `Ranked`, `Total`); the
other modules that filter lists use it as well. `ReviewPanel` is one draft key: `row` the
`review_draft` row, `thread` the latest checkpoint with the writes of its step,
`run` the processes, each with the state it computes on in `memory`.

| Action | Code |
|---|---|
| `Ask`, `FindsDraft`, `Misses` | `get_stored_draft` |
| `Probe`, `ClearThread`, `Start`, `Resume`, `ResumeTooLate` | `compute_draft`: `aget_state`; `adelete_thread`; `ainvoke` with input or with `None` |
| `LoadPr`, `ReviewerReturns`, `BadReply`, `JoinReviews`, `ReconcileNode` | the graph's nodes, the one schema repair, the reducer of `panelist_reviews` |
| `StoreDraft`, `RereadDraft`, `DraftVanished` | `put_if_absent`: its INSERT and its SELECT |
| `Kill`, `DeleteRow` | the environment |

LangGraph is external. Taken from how the code and `test_crash_resume.py` use it:
a superstep ends with a checkpoint; a finished node's write is kept with the
checkpoint it started from; `ainvoke(None)` restores the latest checkpoint;
`ainvoke(input)` merges the input into it and drops the unfinished step. A
checkpoint is taken to be durable before the next node starts; if the saver lags,
a kill pays for one more step again.

### 3.6 `AnswerVerification`, `AnswerVerificationProofs`

`context.verify_answer`: several calls of one requester, each with three sessions,
while a build is prepared and activated. `retrieved` is what the ledger says the
requester was given under which version, `cache` the entailment cache, `receipts`
what was signed.

| Action | Code |
|---|---|
| `Begin`, `ReadFacts` | the pinned version; the facts of all claims, L0 to L2, in the same session |
| `LookUp`, `AskVerifier`, `AskFails`, `Record`, `Lose` | L3, claim by claim: `lookup_entailment`, the model, `record_entailment` with its `on conflict do nothing` and the re-read; a call that dies in between |
| `Issue` | reasons, receipt, signature, trust, the ledger row |
| `Retrieve`, `SourceGone`, `BuildBegins`, `Activate`, `SetKey` | the requester searches; the builder; the environment's key |

### 3.7 `TaskContext`, `AnswerVerificationProofs`

`get_task_context`: four nodes (`GraphNodes`) that run in any order, each resolving the
scope by itself from `index`, then a synthesis that filters, trims and meters.

| Action | Code |
|---|---|
| `BeginCall`, `RunNode`, `NodeFails` | the request; one node of the first superstep |
| `Synthesize`, `Broaden` | `synthesize_node` with trimming and its ledger row; `_route_after_synthesize` and the second pass |
| `Reindex` | a build changes the index |

The code trims in a loop, one item at a time from the cheapest list that has any, until the
response fits. `Trim` is that loop in closed form: the response without the least number of
items (`Dropping`) that fits, or without all of them.

### 3.8 `RelationJudge`, `DerivedKnowledgeProofs`

The cross-domain part of the finalize. `db` is what is committed, `work` what the
session sees, `asked` the calls of the model for each cache key.

| Action | Code |
|---|---|
| `JudgeBuild` | a build commits its artifacts; which model it judges with |
| `Generate` | `cross_domain.py`, `semantic.py`, `candidates.py`: deterministic links, signals, fan-out, top k |
| `Hit`, `Judge` | one candidate: the cached verdict; attempts, `guard_quote`, recording, the upserted edge |
| `CommitBuild`, `RollBack`, `PublishJudged` | the stale sweep with the commit; a raised error; the gates |

### 3.9 `AliasIndex`, `DerivedKnowledgeProofs`

`item`, `live` are the sources and their artifacts, `alias` and `aedges` what the two
miners keep, `astamp` the `kb_version` of each alias row, `window` the searches that found nothing.

| Action | Code |
|---|---|
| `ExtractSources` | the per-source commits of a build |
| `FinalizeAliases` | the sweep, `_propagate_acl`, `mine_aliases` and `mine_ledger_aliases` with resolution, reconciliation of rows and edges and their ACLs, one transaction |
| `FinalizeRollsBack` | the transaction is lost, the commits before it are not |
| `EditSource`, `DropSource`, `Searched` | the repositories and the requesters, between builds |

Evidence names every path that a source gave a phrase; the row lists, and takes its ACL from, the
`BodyCap` paths that are named most often (`MAX_BODY_TARGETS`), and edges lead to the first `EdgeCap`
of them. `_propagate_acl` gives each live row the ACL of its anchor source before the passes read
it; the reconcile then finds such a row changed and writes its own ACL back with a new `kb_version`.

### 3.10 `IndexProjection`, `DerivedKnowledgeProofs`

`reg` and `tx` are the registry as committed and as the session sees it, `durable` the
output cache, `docs` the index, `bill` and `wasted` what models were paid for.

| Action | Code |
|---|---|
| `StartBuild`, `Unchanged`, `TakeDocument`, `TakeCommit` | one source: unchanged; a cache hit at either level or a call; a commit source |
| `RecordExtraction`, `Embed`, `RecordVector` | `DurableOutputCache` on its own connection, `_embed_gated`; recording may fail |
| `UpsertDocuments`, `CommitSource`, `SourceFails` | the index before the commit; the commit; the rollback |
| `Finalize`, `DeleteOrphaned`, `ReconcileMissing`, `Finish`, `FinalizeRaises` | the finalize up to its commit, and `_reconcile_index` after and within it |
| `ActivateIfConsistent`, `Dies`, `IndexLost`, `Change` | the consistency gate and activation; the environment |

### 3.11 `SourceListing`, `IncrementalBuildProofs`

`remote` and `config` are the services and `sources.yaml`; `rows` and `sess` the
`source_item` rows as committed and as the session sees them; `lrun` the request, the
feed and the listed references; `other` a second builder's transaction.

| Action | Code |
|---|---|
| `Opened`, `Retry`, `RequestFails` | `_start_run`; the loop of `http_client.py` |
| `ResolveHead`, `ListTree`, `ListPages`, `ListIds`, `ListRevisions`, `ListCommits` | the requests of the connectors, with their limits and partial results |
| `FetchFindsNothing`, `FetchUnchanged`, `FetchChanged`, `FetchedSourceFails` | one turn of `_process_sources`, with what it touches and what its rollback takes along |
| `NextFeed`, `SweepVanished`, `BuildBreaks` | the next connector; `_vanished_live_sources` with its time fence and `_deletion_sweep`; a dead build |
| `Push`, `EditPage`, `EditCard`, `CommitLocally`, `Reconfigure` | the services and the operator, at any moment |
| `OtherBegins`, `OtherCommits`, `OtherFails` | a second writer, whose timestamps are fixed when it begins |

### 3.12 `ChangeContext`, `AgentRunner`, `KbSearchProofs`

`ChangeContext` is `create_change_pack`, one action for each read or ranking:
`BeginPack`, `SelectTargets`, `ReadNeighbours`, `FindKnownTests`, `SearchTests`,
`GuessTests`, `RankTests`, `FollowImports`, `FetchDefinitions`, `ScoreImports`,
`ChooseDependencies`, `EnforceBudget`, `AnswerPack`; `ActivateNewer` is the builder.
Only the budget of the dependencies is enforced, as in the code.

`AgentRunner` extends it: `lane` is the process (its lane, attempt, worktree, reply and
place), `checkpoints` the decisions of its `governance.checkpoint` rows.

| Action | Code |
|---|---|
| `Route` | `classify_intent` |
| `BrokerStep`, `ResolveFiles`, `ReadSelected` | the change pack and the selected files of the workspace |
| `Implement`, `Validate`, `AddWorktree`, `WriteAttempt`, `Fix` | model replies parsed and checked; `git worktree add`; the tree is reset and written; a correction |
| `ShowDiff`, `Gate`, `EndEdit`, `WriteCheckpoint` | the diff, what a human answers, its ledger row |
| `RunPytest`, `RemoveWorktree`, `Raise` | the test; the `finally`; an exception anywhere |
| `AskForCards`, `Expand`, `OpenSpan`, `EndOpen`, `AnswerQuestion`, `VerifyAnswer` | the lane of a question |

### 3.13 `Retrieval`, `KbAgent`, `AgentProgramsProofs`

`Retrieval` has the rows with their validity, a builder and one read in flight:
`Pin`, `Hydrate`, `FetchSymbols`, `Weigh`, `Rank`, `Collapse`, `Cap` for evidence cards;
`ReadRoot`, `FollowEdges`, `FilterHop`, `LogNeighbours` for neighbours; `Finalize` and
`Activates` for the builder, between any two statements. A row or an edge is closed once, while
its interval is open (`LiveNow`); the linker's reviving of closed edges is in
`IncrementalBuild` and `RelationJudge` (`PublishedHintsAreKept`, section 5), not here.

`KbAgent` extends it: `coder` is the process with its two budgets, `repo` the files,
`transcript` the turns.

| Action | Code |
|---|---|
| `StartTask`, `ReportRun` | pin or baseline; the report |
| `ModelReplies`, `ModelRejects`, `ModelFails` | a request with the tools offered at that moment, its one retry |
| `SearchKb`, `ReadFile`, `EditFile`, `LintFile`, `BadCall`, `ReturnResults` | one tool call of the answer; all results at once |
| `KbBuilder` | builds, as in `Retrieval` |

### 3.14 Composites

Parts that share no state with each other are checked side by side, one for each
behaviour, by a variable that is chosen in the initial state and never changes:
`MC_DerivedKnowledge` (judge, alias, index, listing), `MC_AgentPrograms` (panel, reads, change
packs, runner, agent without a broker, verification, task context).
Each instance is what it would be alone; nothing is claimed of an interaction that the code
does not have. Interactions the code does have are within a module or by extension:
`AgentRunner` drives `ChangeContext`, `KbAgent` reads beside the builder of `Retrieval`,
`ReviewPanel` computes with `Reconcile`, `BuildLifecycle` implements `ServedVersion`.

## 4. What is checked

| Run | Instance | Question |
|---|---|---|
| `builders_locked` | 2 builders, 3 builds, 2 labels; the registry may be emptied | Do lock, rows, gates and activation keep together through every crash, failure and reused label? Does the whole implement `ServedVersion`? |
| `builders_faults` | 2 builders, 2 builds, every fault | What is left when two builders do work at once: final verdicts, a lock that comes back |
| `incremental_orderly` | 1 document and 2 code files in one repo, 3 builds, failing sources | `ListedIsServedOnce`: does a completed build serve exactly one generation of every source, none lost? No ghost edge, no served edge moved |
| `incremental_any` | 1 document and 2 code files with shared contents, every habit and fault | What holds even then: the cache never mixes contents; `ServedRowsAreFrozen`: intervals close once, served artifacts are stable |
| `packs_shared` | 1 pack, 2 agents, 2 calls, 2 builds, failing queries | Budgets; `LedgersAgree`: packs, meters and allowances against the rows, through refunds; reuse; the pinned snapshot; every call returns |
| `packs_repacked` | 3 packs in a store of 2, 1 call, failures and cancellation | The limit of the store and the meter that outlives a pack |
| `kb_search_windows` | 2 sessions, 2 calls, a store of 1 window, failures and cancellation | Caps under a burst, free failures, one row for each call, every call returns |
| `derived_knowledge` | 3 builds of 8 artifacts with unusable answers; 3 builds of aliases with 3 edits; 2 builds of 2 documents and a commit with 2 faults; 2 listings of documents, a wiki, cards and commits with 2 outages and a move | `JudgeEdgesStand`, `PairsArePaidOnce`; `AliasesFollowTheirSources`, `RebuildsOnlyRestamp`; `IndexFollowsRegistry`, `CachesAreSound`; `RowsMirrorTheSources`, `OnlyTheGoneAreSwept` |
| `agent_programs` | 2 lenses, 3 asks of the panel, kills, failing models, a deleted row; reads over 2 served versions; change packs over 2; runs with 2 corrections; 2 steps of the agent; 2 verifications at once of requests of up to 3 claims, 2 versions, a key that changes, two clients; 1 task of each kind over an index that moves | Is a lens counted and paid once, do all return the one row with every finding in it (`MergeLosesNothing`)? `ChangePackIsSound`, `RetrievalIsSound`, `RunsAreGoverned`, `AgentIsBounded`; `ReceiptsAreSound`, `VerdictsAreKept`; `TaskAnswersAreSound` |
| `incremental_revert`, `listing_revocation`, `alias_rebuild` | the smallest instance that shows it | Section 5 |

A property of a composite is the conjunction of the named parts above it in its module,
one for each thing that can go wrong; its comment says which. They are conjoined since they
speak of one answer, one row or one table. `TypeOK`, `OneBuilderAtATime`, `ServedNeverRegresses`,
`PacksMatchLedger`, `SpentStaysSpent` and `IntroductionsAreKept` are proved (section 6) and not in
a run of their own.

What the parts of the grouped properties say:

* `ReceiptsAreSound`: a passed claim cites members of the receipt's version which the
  requester was given and may see; an adjudicated assertion is true there; failures and
  reasons agree; the model is asked only about what is unresolved, and once for each key
  but for races and lost answers; a client is trusted only with its own receipt.
* `TaskAnswersAreSound`: trimming takes the cheapest first and no more than needed; the
  row names what is shown; tiers match the graph; an ambiguous name is asked about, never
  guessed (the only candidate for a file hint may be one of its symbols, if its `code_file`
  was not found); the graph is run again only on nothing.
* `JudgeEdgesStand`: a hint quotes one of its texts, however it came; both directions of a
  pair get one verdict; live edges are those of the last build that had candidates.
* `AliasesFollowTheirSources`: one live row for each phrase; replaying old evidence gives
  what mining everything again would; edges follow the evidence; access is
  no wider than that of the paths the row lists.
* `RebuildsOnlyRestamp`: a build of what was built leaves every row and edge as it was, and writes
  again only rows whose ACL is not that of their anchor.
* `IndexFollowsRegistry`, `CachesAreSound`: a completed build heals the index; an activated
  one has it exact; every document has its vector; outputs are paid once but for what was
  lost before it could be recorded; cached generations exist.
* `RowsMirrorTheSources`: a version names the content recorded with it; what did not move or
  fail is mirrored, also after builds that broke; an ACL lands when nothing fails.
* `ChangePackIsSound`: one version through every transaction; one service; guesses as a last
  resort; dependencies within the budget; the row is the answer.
* `RunsAreGoverned`: no run before the gate; pytest sees `HEAD` and the last accepted blocks;
  spending, reading and writing are bounded; exit code 0 means passed or aborted, and the
  worktree is gone; a question only reads.
* `RetrievalIsSound`: the cards are the best that are not alike; the neighbours are those a
  reference closure gives, nearest first.
* `AgentIsBounded`: budgets hold however a turn bundles its searches; every call is answered
  in order; lines no edit named stay; searches are of one version.

**Bounds.** Two actors and one object they share are what an interleaving here
needs; a third build is what a gap between `N - 2` and `N` needs (an interrupted
build between two others); a store of one or two entries is full at once. Caps of
one request and two tokens are reached, overdrawn and refused within a few
calls. Two lenses with four findings make groups that grow, dispute and soften.
A listing of two requests is what can be partial; a graph of two hops is what can be
filtered between them; two corrections are what can be written over a first attempt.
`MaxBuilds`, `MaxAsks`, `MaxTaskAsks`, `MaxCalls`, `MaxSeq`, `MaxJudged`, `MaxGen`, `MaxEdits`, `MaxRuns`,
`MaxChanges`, `MaxFaults`, `MaxMoves`, `MaxOutages`, `MaxListings`, `MaxVersion`, `MaxServed`,
the id sets and `WindowIds` are bounds of the checking, not of the program; `TreeCap`,
`CardCap`, `EdgeCap`, `BodyCap`, `Batch`, `TopK`, `FanOut`, `MaxFiles`, `MaxFixes`, `MaxSteps` and their like are limits of
the program at a small value.

**Deadlock** is checked except where the bounds stop the system by design: no
build id, pack id, build, edit or run is left, or, in `builders_faults`,
nobody starts a builder.

**Fairness.** `builders_faults`: a live builder keeps executing and the server
reaps dead sessions (`WF` of each builder's `Progress`; crashes and starts are
not forced). `packs_shared`, `kb_search_windows`: an awaited query returns or
raises (`WF` of `Resume`), and `asyncio.Lock` wakes its waiters in the order they
came, so that a waiter is not passed over for ever (`SF` of `Acquire`).
The other modules state no liveness: a call or a build of theirs is a straight line of
bounded loops and takes no lock, so that it ends when its awaits do.

**Ghosts.** `ReviewPanel` remembers whether two runs worked on the thread at once
(`overlapped`) and whether the row was deleted; three properties speak of the
other behaviours, and section 5 says what happens in these. `KbSearch` remembers
which window a cancelled call left charged (`torn`). `RelationJudge` counts the rolled-back
builds, `AnswerVerification` the lost answers, `IndexProjection` what was wasted: what may be
paid again.

## 5. Where the code differs from its description

Three runs are expected to end in a counterexample; each quotes the statement it
refutes in `PROJECT.json`.

* `incremental_revert` - a document edited and edited back hits the generation
  cache, which replays ids of the superseded generation; the sweep of the same
  build leaves no live artifact, or both generations are served
  (`invalidation.py:22-26`).
* `listing_revocation` - the ACL of an unchanged source is written without a
  commit; a later source fails, its rollback takes the write along, and the build
  completes with the old ACL (`build_runner.py:550`).
* `alias_rebuild` - every build overwrites the ACL of an alias row with that of its anchor source
  (`invalidation.py:495-504`), and the mining pass, which derives it from the targets, writes the
  row again with a new `kb_version` (`alias/run.py:532-551`), where nothing should be refreshed
  (`docs/contracts/alias-reference.md:210`). `RebuildsOnlyRestamp` says that this is all.

More statements do not hold. Each is written down as a definition; put in the place of
the `INVARIANTS` (or `PROPERTIES`) of its module's configuration, with the instance
named here, it gives the counterexample. Where nothing is said of the instance, the
configuration of section 4 is the one.

| Definition | Instance | What happens | Statement |
|---|---|---|---|
| `BuildLifecycle!OneBuilderAtATime` | `Faults = {"lock_connection_lost"}` | the idle connection that holds the lock breaks, a second builder starts | `builder_lock.py:7-9` |
| `IncrementalBuild!EachSourceServedOnce` | `Code = {}`, `Faults = {"interruption"}` | a source committed by an interrupted build is "unchanged" for the next, which does not close its old generation | `build_runner.py:192-194` |
| `IncrementalBuild!ListedSourcesAreKept` | `Habits = {"readd"}` | a document that returns with its old content is skipped and stays deleted | `invalidation.py:453-458` against `build_runner.py:576-585` |
| the same | `Docs = {}`, `Faults = {"graphify_failure"}`, 2 builds | a failed graphify pass does not mark the repo's files as seen, so they are swept | `00-overview.md:225-229` |
| `ListedContentIsServed` | `Docs = {"notes", "copy"}`, `SharedContents` | a moved document reuses the old path's artifacts, which the sweep then closes | `tests/integration/test_invalidation.py:276-279` |
| `NoDanglingCitations` | `Docs = {}`, `SharedContents` | the other artifacts of a partly renamed source are not swept | `invalidation.py:272-273` against `295-300` |
| `ServedEdgesStable` | `Docs = {}`, `SharedContents` | edges of the served version are re-pointed in place | `version-membership.md:38-39` |
| `RenameNeverAborts` | `SharedContents`, `GuideMentionsApi`, 2 builds | re-pointing meets the partial unique index of linker edges, on every retry | `invalidation.py:358-359` |
| `NoGhostEdges` | `Code = {"api"}`, `GuideMentionsApi` | the linker also loads invalidated artifacts and revives their edges | `linker/run.py:60-90` against `invalidation.py:4-6` |
| `EvidencePack!RunBudgetHolds` | 2 calls, `Tools` with `"expand"` | `expand` clamps outside the lock and charges inside it | `expand.py:159-162`, `293-296` against `mcp-tools-contract.md:252-254` |
| `AllowanceHolds` | 2 packs | two packs of a run, two locks, one meter: both calls pass the check | `state.py:56-58` against `request_more.py:124-138` |
| `MetersMatchLedger` | 2 packs, `open_evidence` | `restore` writes absolute values over another call's charge | `mcp-tools-contract.md:508-513` against `state.py:84-95` |
| `OneMeterPerRun` | 2 runs, 3 packs | creating a pack evicts the meter of its own run | `state.py:118-127` |
| `PacksMatchLedger` | `Faults` with `"call_cancelled"` | a cancelled call is charged and has no row | `mcp-tools-contract.md:501-517` |
| `AnsweredQuestionsAreReused` | answers that one agent may not see | an answer the caller may not see hides a later one that it may | `request_more.py:5-7` against `dedupe.py:44-48` |
| `PackIsPinned` | `Tools` with `"expand"` | `expand` fills a pack from the build that is active now | `state.py:44-47` |
| `ReviewPanel!NeverEight` | | a run starts on a thread that another began after its probe: every lens is in the draft twice | `application.py:71-74` |
| `HighestKept` | | a lens that reports a blocker and then the same issue as minor overwrites its own vote; a draft of raced runs (`NeverEight`) does so with the two reviews of a lens | `reconcile.py:61` against `:76` |
| `SameWordsMeet` | 3 lenses, texts `1..7`, `1..10` and `1..14`, and `1..7` again | a group takes on the words of what it absorbs, until the words it began with are no duplicate of it | `reconcile.py:64`, `87` |
| `AliasIndex!AliasesNeverWidenAtAll` | | a phrase names more paths than `MAX_BODY_TARGETS`: its ACL is that of the first 50, its evidence lists all (`mining.py:357`, `run.py:472-475`, `500-501`) | `acl_intersection.py`: "EVERY input path" |
| `EdgesStayInTheirRepo` | | paths of all evidence are resolved in the repos of all evidence | `alias-reference.md`, "Target resolution" |
| `AnswerVerification!EveryPassedFactHolds` | `Requests <- MCTwins` | claims with one id: the verdict of the last stands for both | `verify.py` keys verdicts by `claim_id` |
| `StaleOnlyWhenGone` | | `is_deleted` has no version: a build that will not be activated makes served evidence stale | `L0_not_stale` |
| `TaskContext!SameBuildSameAnswer` | `MaxTaskAsks = 2` | the index moves between the nodes and between equal requests | the answer names one build |
| `RelationJudge!PublishedHintsAreKept` | | an edge judged again changes its bucket, and a revived one its interval, in place | `version-membership.md` |
| `IndexProjection!ActiveIndexIsFaithful` | | the gate compares which documents are there, not what they say | `consistency.py:4` |
| `SourceListing!CardVersionNamesContent` | `MaxMoves = 2` | the revision is of the listing, the text of the fetch after it | `ado_work_item_backend.py:13` |
| `OtherWritersAreSpared` | | a writer that began before the build commits while it runs, with a timestamp before the fence | `invalidation.py:202` |
| `ChangeContext!DependenciesAreImported` | | edges of type imports are followed in both directions | `change_context.py:9` |
| `TestsBelongToATarget` | | targets of two services switch the guard off | `change_context.py:68-71` |
| `Retrieval!ServedIsCurrent` | | a row that a build in flight has closed is weighed as superseded | `temporal.py:110-113` |
| `TailsAreEnough` | | the dotted form of a symbol is looked up as well as its tail | `temporal.py:239`, `251-252` |
| `StaleIsNotTheHeadline` | | provenance and authority come before the weight | `temporal.py:166-167` |
| `FloorHolds` | | a floor of `EXTRACTED` does not hold back the inferred classes | `docs/contracts/trust-buckets.md:26` |
| `KbAgent!KbTokensHold` | | the last answer may overrun the tokens | `kb_agent.py:82-83` |
| `ServedRowsAreFound` | | a build in flight takes the rows of a deleted source away at once | the search filters `is_deleted` |

Some words differ from the code without a property about it; the modules follow
the code:

* `create_change_pack` is called "deterministic, ranked": elements of a Python
  set and rows without `ORDER BY` leave ties open. "Lowest priority first" is first
  fit, and targets and tests alone may exceed the budget.
* `agent_runner`: diffs of later attempts are shown to nobody
  (`agent_runner.py:14-15`); the text of an edit is recorded and not used; untracked
  files are not in the approved diff; a correction replaces all blocks; the model
  reads the dirty workspace while the worktree is `HEAD`; "files written" lists the
  first attempt.
* `kb_agent`: `read_full` is "EXACT, full text" and cut at 16,000 characters;
  "read in ranges" has no tool; a model error ends with exit code 0.
* `work_item_types`, `states` and `tags` of an ADO source
  (`docs/contracts/source-config.md:149-151`) are parsed and not in the query. Two
  specs of one GitHub repo on two branches share a `source_uri`.

## 6. What is proved

`tlapm` checks every proof to its last leaf. The theorems hold for any number of
builders, builds, packs, calls and runs.

**`BuildLifecycleProofs`.** `Typing` and `VerdictsStay` need no assumption on
the faults: for `VerdictsAreFinal` it is enough that a builder at work drives a row of its own
(`DrivesItsOwn`), whoever holds the lock, and that only an active row is superseded. The others assume `LockIsSafe` (`Faults \cap LockLoss = {}`): nothing takes
the lock. Their inductive invariant is `RegistryIsOrderly`: the process between
acquire and release holds the lock; sequence numbers are unique; the row a
builder drives is in the state the builder thinks, and the newest; one row is
active; the gates measured the row to be promoted. "The newest" is what makes a
query by label find the run that activation will promote by id. From it follow
`OneBuilder`, `GatesMeasure`, `ServedMovesForward` and `Refinement`
(`Spec => Served!Spec`: `Init` maps to `Init`, each step to a step or a stutter).

**`EvidencePackProofs`.** `PackTyping` proves `TypeOK`, strengthened by "a stored or
used pack was created" (`Typed`). `RunBudget` proves `RunBudgetHolds` without
`expand` (`NoExpand`; with it the property fails, section 5). The invariant
`Budgeted` adds for each call the fact that its check established and its lock
protects: a call in `retrieving` or `writing` holds the pack's lock, what it
charged fits, and the snapshot it would restore is within the budget, too.

The next four theorems each name what they exclude, because section 5 shows the property
to fail there. `PackStaysPinned` (`NoExpand`: a walk reads the active build) keeps with every
call the cards a refund would put back, which are of the pack's build. `AnswersAreKept`
(`SameView`: all agents may see the same) needs `Remembered`: a question the ledger has
answered is in the history, and in the snapshot of every call that may still restore one.
`PacksAreExplained` (`NoCancel`: a cancelled call is charged and has no row) proves that spend
and cards of a pack are what its rows say; `Balanced` adds how far a charged pack is ahead of
them and where a refund puts it back, and that a pack in the making is nobody else's.
`LedgersStayTogether` adds the meters: it assumes `NoExpand`, `NoCancel` and that no run
packs twice (`[]OnePackPerRun`), since two packs of a run share a meter under two locks.

`RepackingKeepsTheMeter` proves `OneMeterPerRun` for a single run that may store more than one
pack: when an eviction drops the oldest pack, a newer pack of the run keeps the meter
(`EvictionSpares`). With two runs and three packs the property fails, section 5: a create has chosen
its meter and waits for its ledger row while another create evicts the meter. The invariant `Shared`
says that packs that are stored, or about to be, charge the meter of their run.

**`KbSearchProofs`.** `SearchTypes` proves `TypeOK`, strengthened by "a key with a
window is in the order of use" (`Typed`), without which an eviction or a touch could
not be typed. `CapsHold` proves `WindowCapsHold` from `WindowsAreInOrder`: a window
object serves one key, an object nobody refers to is new, what a call charged and the
snapshot it may restore are within the caps, and a call that has charged holds the
lock. "One key" is what keeps a call whose window was evicted from charging the fresh
window of another key. `OneRowEach` proves `OneRowPerCall`. `MetersMatch` proves
`MetersMatchLedger` from `MetersAreBalanced`: while a charge is under way it is the snapshot,
not the usage, that agrees with the rows; cancellation is not excluded but remembered
(`torn`). `SpentWindowsStaySpent` proves the action property `SpentStaysSpent`: a refund
only gives back what its own call took, so it never reopens a window that was spent before.

**`IncrementalBuildProofs`.** With every habit and fault: `ServedRowsSafety` proves
`ServedRowsAreFrozen` from `Typed`, whose `TodoIsFresh` (a source whose turn is still to come
has no row of this build) keeps a build from writing an id twice; `CacheSafety` proves
`CacheMapsWhatWasExtracted`, which is inductive once the cached ids are known to be rows.
Three theorems exclude what section 5 shows to break them. `NoGhostSafety` assumes
`Mentions = {}`: the edges are those of code, the linker that revives edges of closed rows
has nothing to link. Its invariant `EndsSound` says that live edges have live ends at every
moment, also between the commits of the sources and the finalize. `ServedEdgesSafety`
adds `OwnPiecesOnly`: no two sources share a piece, so that nothing is renamed and no served
edge re-pointed. `ServedOnceSafety` assumes `OrderlyBuilds` (contents do not return, nothing
fails but extractions) and `OwnPiecesOnly` and proves `ListedIsServedOnce`. Its invariant
`Orderly` relates what the build remembers in `seen` and `changed` to the rows
(`Halfway`), the stored hash to the live rows of every source the build has not changed
(`Recorded`), and hash and cache to the contents a source ever had (`History`,
`CacheHistory`), which is what makes a changed content new and a cached one unusable.

Of `SourceListing`, in the same module, `RowsSafety` proves `RowsMirrorTheSources`, `SweptOnlyGone`
the action property `OnlyTheGoneAreSwept`, for any sources, configurations, faults, moves and a
second writer. The heart of `ListingInv` is `NothingIsMissed`: what a build has to read has been
seen, has failed, or is still ahead of it - in a feed to come, in a listing under way, or among the
references listed. Beside it, a listing that is not outdated holds what the service has but for what
moved (`ListingsAreCurrent`), what was seen is recorded (`WhatIsSeenIsSo`), and the time stamps tell
this build's touches from earlier ones and from another writer's (`TouchesAreTimed`); the last is
what the time fence of the sweep rests on. `ListingAssumption` says that ids of the four kinds of
sources differ and that a workspace has a commit.

**`AnswerVerificationProofs`.** Of `AnswerVerification`, `ReceiptSafety` proves `ReceiptsAreSound`
for any ledger, requests and number of calls. `Sound` has three parts. `CallsAreSound`: the facts a
call read stay true of the ledger of the requester, which only grows, and what is still to be judged
is eligible. `ReceiptsKeep`: the part of the property that later steps could disturb.
`PaymentsKeep`: before a verdict is recorded every paid answer is held by a call that will record it
or was lost; afterwards only calls that had missed already ask. `FirstVerdictStays` proves
`VerdictsAreKept`. `VerificationAssumption` says that claims cite something and assertions are of
the three kinds that the schema has.

Of `TaskContext`, `TaskSafety` proves `TaskAnswersAreSound` for every graph, every set of index
states, every request and every order of the nodes. The invariant `TaskKeeps` says of the
call what each node leaves (`TaskHolds`) and of each answer what it promises (`AnswerHolds`). The
index moves between two nodes, so a scope is never said to be what the index has *now*: it is
what *some* state of the index gives, that state is the one the node read, and an entity of a hint
keeps the state that explains it (`ScopeHolds`). The blast radius needs no version: edges are those
of the pinned build, and whatever scope it began with, a call edge whose ends have one file each
gets the tier that the graph gives it, since a definition's file is fetched by the
first hop or by the second (`BlastHolds`). That trimming takes no more than needed rests on its
closed form: the number dropped is the least that fits, the size shrinks with each item, so
what one more item costs is over the cap (`Spared`). `TaskAssumption` says that the index answers
with a list of members, that edges join members, that an alias has a list of targets and a tier,
and that the limits are positive.

**`DerivedKnowledgeProofs`** needs no hypothesis beside the constants' assumptions. Of
`IndexProjection` it proves `CachesAreSound` (`CachesSafety`) and `IndexFollowsRegistry`
(`IndexSafety`). `ProjectionInv` carries what the two rest on: rows without a vector
are in the queue of the source at hand (`AllEmbedded`), session and committed registry can
replay their caches and agree on the rows they share (`RegistriesAgree`), an output in hand is not
recorded yet (`PaidOnce`), and how far the finalize has brought the index
(`IndexIsHealing`). Of `RelationJudge` it proves `PairsArePaidOnce`, `JudgeEdgesStand` and the
action property `IntroductionsAreKept`. `JudgeInv` says for each candidate that has had its
turn that its verdict is cached and that there is an edge with it unless it was rejected
(`TurnsAreTaken`); so the sweep at the end closes exactly what the last build did not infer.

Of `AliasIndex` it proves `AliasesFollowTheirSources` (`AliasSafety`) and the action property
`RebuildsOnlyRestamp` (`RebuildsRestampOnly`). The lemmas follow the transaction: what a sweep
closes (`SweptRows`, `SweptEdges`), that the propagation changes nothing of a row but its ACL
(`PropagatedRows`), what an upsert does to the rows (`UpsertedRows`), what the two passes leave
(`MinedRows`, `SearchedRows`, `BothPasses`), what the edges become (`ReconciledEdges`), how many a
row can want (`RankedFew`: the paths of a phrase are strictly ordered, so their positions are
distinct), whom a merged ACL lets in (`RowsNeverWiden`, of the paths that the row lists).
`AliasInv` holds two facts that the property does not show. `Remembering`: the live rows hold all
that some set of sources ever gave, never a part of it - so evidence that is replayed equals
evidence that is mined again (`Replayed`), also when the sweep has closed half of a source's rows
or a finalize rolled back. `Following`: while the source rows are those of the last finalize, rows
and edges are a fixed point of the passes; that generations only grow is what tells "unchanged
since" from "changed and back". `AliasAssumption` says that phrases and sources are finitely many
and ordered, that paths are ranked without ties, and that a commit has no path.

**`AgentProgramsProofs`.** Of `ReviewPanel`, `PanelTypes` proves `TypeOK` for any number of processes,
any panel of lenses and any replies. `OneDraftForAll` proves `AllReturnTheRow`; its
invariant `RowIsTheDraft` adds that a finished thread holds the row, which a run that
resumes too late returns. `OneReviewEach` and `AnswersArePaidOnce` prove
`OneReviewPerLens` and `NeverRepaid` from `RunOwnsTheThread`: while no two runs have
worked on the thread at once, the one that does computes on the latest checkpoint,
and the checkpoint's place in the graph (`ThreadIsInOrder`) says whether its list of
reviews is empty or complete. Emptiness before the join is what the deletion of a
finished thread is for: the reducer appends.

`MergeSafety` proves `MergeLosesNothing`, for every draft there can be. A fold of the library
is a function that `CHOOSE` picks; `FoldTable` shows that there is one, `FoldReaches` that what
the start of a fold has and each step carries over holds of its result (induction over data in
the form that the prover can instantiate: on a set, by its least element). `DraftCarries` lifts
this to both loops of `reconcile`: what each finding keeps up, one finding brings about and no
other undoes, holds of the groups. With it, a finding never leaves its group
(`FindingsSurvive`), and words that no other finding mixes with keep one group of their own
(`WordsApart`, `RatingsSurvive`). The two conditions in the property are what TLC found to be
needed: a lens that says one thing (`SaysOneThing`, without which it overwrites its own vote),
and words that are not mixed (`Unmixed`, without which a group grows out of its first words).
`PanelAssumption` says of a reply that it is a list, its severities are the four, and its
texts have finitely many words.

Of `Retrieval`, `RetrievalSafety` proves `RetrievalIsSound` for every graph, every ranking and
every order of commits between the statements of a read. `LookFollows` is inductive and has
three parts: what a call holds (`LookTypes`), and what it has established at each statement
of the cards (`CardsFollow`) and of the walk (`WalkFollows`). All of it rests on `MembersStay`: a
commit closes only what is open, and only from the next version on, so the members of a version
that was pinned never change; a deleted source changes only how a card is weighed. For the cards,
`RankingLists` shows that the order of ranks is strict and total and leaves no gap, and
`CollapsedKeeps` that a card dropped by the collapse is beaten by a kept one like it. Being alike is
not transitive, so this is an invariant of the fold and not of its result (`KeptOf`). For the
walk, the reference closure `Ball` is a recursive function; `BallIsThere` shows that there is one
(`CountingOn`), so that its equations may be used, and `BallStays` that no commit between two
hops changes it. `WalkFollows` says that before each hop the found rows are
the closure up to that depth, each at its distance, unless the cap is full, and during
a hop that what is passed over is reached from the frontier (`PassesOn`). `RetrievalAssumption`
says that rows are finitely many and numbered without ties, and that ranks are numbers.

Of `KbAgent`, `AgentSafety` proves `AgentIsBounded` for every model, every repository, every graph
and registry that a build changes meanwhile, and every budget. `AgentKeeps` has these parts beside
the types. `Balance`: what is left of each budget is what the answers in the transcript and in the
turn under way have not spent, and no budget opens again. `Paced`: which of the two requests of a
step a point of the loop may still make. `Turning`: the calls of a turn are those answered and those
pending, in order, and what each note is followed by. `FoundIsPinned`: what a search found is of the
pinned version, whatever a build closed since: a commit closes only what is open, and only from the
next version on. `NothingIsOverwritten` is inductive beside `Turning`: the edits that the transcript
says were made only grow (`EditsGrow`).

Of `ChangeContext`, in `KbSearchProofs`, `ChangePackSafety` proves `ChangePackIsSound` for every
service, every set of rows and edges, and every activation between two reads. `PackKeeps` says of
each step of the call what it found is and what it did not overlook (`CallHolds`): all that was
found can be read in the pinned version (`SourcesHold`), a readable hit or neighbour was found
(`NothingOverlooked`), a guess comes only when the edges, the hits and the search have no test
(`GuessesAreLast`), and a dependency that was left out would not have fitted (`KeptWithinBudget`).
The second half is what a guard at one step needs of the steps before it.

Of `AgentRunner`, which drives the pack, `RunnerSafety` proves `RunsAreGoverned` for every model,
human, workspace and test run. `RunKeeps` is `PackKeeps` with seven facts of the run at each of its
stages: what is selected is of the pack and in the workspace (`SelectionHolds`), the calls of the
model are bounded by the attempt (`SpendHolds`), nothing was tested before a decision that lets it
pass (`GateHolds`), the worktree is `HEAD` with the current blocks from an attempt to the end, and
the blocks are valid (`TreeHolds`), a good end was tested or aborted (`EndHolds`), a question has no
tree (`QuestionHolds`), spans are of different files (`SpansHold`). The tree is why a correction may
replace all blocks: it is written over `HEAD` again and not over the attempt before it.
`RunnerAssumption` says that files have contents, that a reply maps files to contents, and that
cards are lists.

**`SelectionsProofs`** is what these proofs share: that a selection by places has the chosen
elements, in order (`PickedHolds`, `PickedGrows`, `AmongFits`, `FirstsFit`), that the places in an
order leave no gap (`PlacesFill`) and a ranking lists elements of its list (`RankedFits`), what sums
and concatenations yield (`TotalGrows`, `FlattenGrows`), and the two forms of induction over data
that the prover can use (`CountUp`, `FoldReaches`).

Every property that a passing run checks, but for the liveness of `LockIsReturned` and
`CallsReturn`, is stated by a theorem, with the hypotheses named
above. Left to TLC: liveness (fairness and `ENABLED` are not supported by the prover);
the behaviours that hypotheses above
exclude, where a run allows them and the property still holds on its instance; and the
three runs of section 5 that are expected to end in a counterexample. No module that a proof reaches
declares a `RECURSIVE` operator.

## 7. What is not modelled

* Centrality (`kb/application/centrality.py`) and the arithmetic of the ratio gates: a
  gate that measures a ratio is a free choice to reject. They are next in the plan.
* Extraction by docify and graphify, prompts, rendering, parsing of what services
  answer: pure functions or model calls without shared state. Contents are sets
  of pieces, or numbers.
* How a text is searched, how near two embeddings or titles are: constants of
  `Retrieval`, `RelationJudge`, `AliasIndex`, `TaskContext` and `ChangeContext`.
* Authentication and scopes: stateless checks before a handler. What a requester may
  see is a constant. Of the ACLs of rows, `SourceListing` has those of the source rows and
  `AliasIndex` those of the alias rows, with the propagation onto them. The propagation onto other
  artifacts is not modelled, nor the ACL of a commit's artifact, which is derived from the files the
  commit names and which `_propagate_acl` overwrites as well.
* Checkpoints of the broker (`checkpoint.py`) beyond the row that `AgentRunner` writes,
  error rows beyond those of `KbSearch`, replay and telemetry: they write once and
  decide nothing.
* `check_parity.py`, the evaluation harness, migrations, release tooling and
  infrastructure: comparisons of texts, offline measurement and documents. The
  constraints that migrations create are in the guards of the modules.
* The servers' restart: packs and windows live in memory by design
  ("V1 in-memory limit"), and a restart is a fresh start. `expand` without a pack and
  calls with an unknown pack id change nothing.

## 8. How to run it

In this directory:

    tlc -workers 2 -config BuildLifecycle_locked.cfg MC_BuildLifecycle
    tlc -workers 2 -config KbSearch_windows.cfg MC_KbSearch
    tlapm BuildLifecycleProofs.tla

Each `X_name.cfg` belongs to `MC_X`, and `AgentPrograms.cfg` to `MC_AgentPrograms`; an `MC_` module
without a configuration of its own is an instance that a composite extends. The three `*_v_*`
configurations end with the counterexample of section 5. The longest run takes about three minutes
on two cores; delete `states/` and `*.tlaps/` afterwards. `PROJECT.json` names, for each run, its
properties, for each property the mutant that breaks it, for each definition the lines it models,
and for each hazard the properties that watch it.
