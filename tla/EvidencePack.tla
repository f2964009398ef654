----------------------------- MODULE EvidencePack -----------------------------
(***************************************************************************)
(* The Context Broker's run-scoped evidence packs: the in-memory PackStore, *)
(* the run budget and the per-agent allowance it enforces, and the tool     *)
(* calls that charge them.  Every call is a coroutine on one event loop: it *)
(* runs until it awaits, and each await is a step boundary here.  The pack's *)
(* asyncio.Lock is held across the ledger write; usage meters are shared by *)
(* the packs of a run, and have no lock.                                    *)
(*                                                                         *)
(* What a card says, how retrieval ranks and the token estimate are left    *)
(* out: a retrieval returns any cards the requester may see.                *)
(***************************************************************************)
EXTENDS Integers, Sequences, FiniteSets

CONSTANTS
    Calls,         \* coroutines that can be in flight at once
    PackIds,       \* context_pack_id values new_pack_id can draw (bounds packs)
    Runs,          \* run_id values
    Agents,        \* authenticated session subjects
    Questions,     \* normalized queries
    Cards,         \* evidence cards, one per artifact
    Tools,         \* the charging tools the clients call
    Faults,        \* which faults of the environment may occur
    Nothing,       \* no run, no pack, a free lock
    Members,       \* Members[n]: artifacts the n-th activated build serves
    MaySee,        \* MaySee[a]: artifacts the ACL shows to agent a
    Similar,       \* pairs of questions above semantic_reuse_threshold
    SameWords,     \* those of the same words in another order: cosine 1
    AskedTokens,   \* max_tokens / budget_tokens values a request carries
    AskedBudgets,  \* budget_tokens values create_pack is asked for
    MaxRunBudget,  \* settings.max_run_budget_tokens
    MaxRequests,   \* allowance_for(a).max_requests
    MaxTokens,     \* allowance_for(a).max_tokens
    MaxPacks       \* PackStore.max_packs

KnownTools == {"request_more", "open_evidence", "expand"}
KnownFaults == {"database_fails", "call_cancelled"}

ASSUME PackAssumption == /\ Nothing \notin PackIds \cup Runs \cup Calls
                         /\ Tools \subseteq KnownTools
                         /\ Faults \subseteq KnownFaults
                         /\ Agents # {} /\ Questions # {}
                         /\ Members \in Seq(SUBSET Cards) /\ Members # <<>>
                         /\ MaySee \in [Agents -> SUBSET Cards]
                         /\ AskedTokens \subseteq Nat
                         /\ AskedBudgets \subseteq Nat
                         /\ MaxRunBudget \in Nat
                         /\ MaxRequests \in [Agents -> Nat]
                         /\ MaxTokens \in [Agents -> Nat]
                         /\ MaxPacks \in Nat \ {0}

VARIABLES
    active,     \* index in Members of the active build
    pack,       \* EvidencePackState objects, by context_pack_id
    stored,     \* PackStore.packs: ids, least recently used first
    meterOf,    \* PackStore.run_usage: which usage dict a run has
    usage,      \* the usage dicts, named after the pack they were made for
    call,       \* the coroutines
    ledger      \* what the retrieval_event rows add up to

vars == <<active, pack, stored, meterOf, usage, call, ledger>>

Usage == [requests : Nat, tokens : Nat]

Answers == [question : Questions, ids : SUBSET Cards]

Packs == [run : Runs \cup {Nothing}, build : DOMAIN Members, meter : PackIds \cup {Nothing},
          budget : Nat, used : Nat, cards : SUBSET Cards, history : Seq(Answers),
          lock : Calls \cup {Nothing}]

Snapshots == [used : Nat, usage : Usage, cards : SUBSET Cards, history : Seq(Answers)]

Phases == {"idle", "creating", "waiting", "retrieving", "writing"}

CallStates == [at : Phases, tool : KnownTools, pack : PackIds \cup {Nothing}, agent : Agents,
               question : Questions, limit : Nat, found : SUBSET Cards, tokens : Nat,
               before : Snapshots]

Ledgers == [paid : [PackIds -> Nat], served : [PackIds -> SUBSET Cards],
            spent : [Runs -> [Agents -> Nat]],
            answered : SUBSET (PackIds \X Agents \X Questions)]

TypeOK == /\ active \in DOMAIN Members
          /\ pack \in [PackIds -> Packs]
          /\ stored \in Seq(PackIds) /\ Len(stored) <= MaxPacks
          /\ meterOf \in [Runs -> PackIds \cup {Nothing}]
          /\ usage \in [PackIds -> [Agents -> Usage]]
          /\ call \in [Calls -> CallStates]
          /\ ledger \in Ledgers

Unused == [requests |-> 0, tokens |-> 0]

NoPack == [run |-> Nothing, build |-> 1, meter |-> Nothing,
           budget |-> 0, used |-> 0, cards |-> {}, history |-> <<>>, lock |-> Nothing]

NoSnapshot == [used |-> 0, usage |-> Unused, cards |-> {}, history |-> <<>>]

Idle == [at |-> "idle", tool |-> CHOOSE t \in KnownTools : TRUE, pack |-> Nothing,
         agent |-> CHOOSE a \in Agents : TRUE, question |-> CHOOSE q \in Questions : TRUE,
         limit |-> 0, found |-> {}, tokens |-> 0, before |-> NoSnapshot]

Init == /\ active = 1
        /\ pack = [p \in PackIds |-> NoPack]
        /\ stored = <<>>
        /\ meterOf = [r \in Runs |-> Nothing]
        /\ usage = [m \in PackIds |-> [a \in Agents |-> Unused]]
        /\ call = [c \in Calls |-> Idle]
        /\ ledger = [paid |-> [p \in PackIds |-> 0], served |-> [p \in PackIds |-> {}],
                     spent |-> [r \in Runs |-> [a \in Agents |-> 0]], answered |-> {}]
------------------------------------------------------------------------------
Lesser(m, n) == IF m <= n THEN m ELSE n

Stored == {stored[i] : i \in DOMAIN stored}

Position(p) == CHOOSE i \in DOMAIN stored : stored[i] = p

\* PackStore.get: the touched pack moves to the back.
Touched(p) == [i \in DOMAIN stored |-> IF i < Position(p) THEN stored[i]
                                       ELSE IF i = Len(stored) THEN p ELSE stored[i + 1]]

\* EvidencePackState.run_remaining_tokens.
Remaining(p) == IF pack[p].used <= pack[p].budget THEN pack[p].budget - pack[p].used ELSE 0

PackOf(c) == pack[call[c].pack]

UsageOf(c) == usage[PackOf(c).meter][call[c].agent]

\* (mutant) Membership at the active build.
ServedAtActive(p) == Members[active]

\* Membership at the build the pack was created under.
ServedTo(p) == Members[pack[p].build]

\* A card costs at least one token, so only an empty answer is free.
Priced(found, tokens) == (found = {}) <=> (tokens = 0)

Return(c) == call' = [call EXCEPT ![c] = Idle]

\* (mutant) The lock is never released.
StillLocked(s) == s

\* The end of "async with pack.lock", however the call ends.
Unlocked(s) == [s EXCEPT !.lock = Nothing]
------------------------------------------------------------------------------
\* PackStore.usage_for_run: setdefault.
UsageForRun(r, p) == IF meterOf[r] = Nothing THEN p ELSE meterOf[r]

\* create_pack up to its ledger write: retrieve, trim to the clamped budget,
\* build a pack that is not in the store yet.
CreatePack(c) ==
    /\ call[c].at = "idle"
    /\ \E p \in PackIds, r \in Runs, a \in Agents, q \in Questions, asked \in AskedBudgets :
         /\ pack[p].run = Nothing
         /\ \E found \in SUBSET (Members[active] \cap MaySee[a]),
               used \in 0 .. Lesser(asked, MaxRunBudget) :
              /\ Priced(found, used)
              /\ pack' = [pack EXCEPT ![p] =
                            [run |-> r, build |-> active, meter |-> UsageForRun(r, p),
                             budget |-> Lesser(asked, MaxRunBudget), used |-> used,
                             cards |-> found, lock |-> Nothing,
                             history |-> <<[question |-> q, ids |-> found]>>]]
              /\ call' = [call EXCEPT ![c] = [Idle EXCEPT !.at = "creating", !.pack = p,
                                                          !.found = found, !.tokens = used]]
         /\ meterOf' = [meterOf EXCEPT ![r] = UsageForRun(r, p)]
    /\ UNCHANGED <<active, stored, usage, ledger>>

\* (mutant) An evicted pack always takes its run's meter along.
NeverReferenced(q) == TRUE

\* _evict_run_usage_if_unreferenced: no other stored pack belongs to q's run.
RunUnreferenced(q) == \A p \in Stored \ {q} : pack[p].run # pack[q].run

Full == Len(stored) >= MaxPacks

\* PackStore.create: evict the least recently used pack, and the meter of its
\* run with the run's last pack, before the new pack is inserted.
Create(p) ==
    /\ stored' = Append(IF Full THEN Tail(stored) ELSE stored, p)
    /\ meterOf' = IF Full /\ RunUnreferenced(Head(stored))
                    THEN [meterOf EXCEPT ![pack[Head(stored)].run] = Nothing]
                    ELSE meterOf

\* The create_pack row is committed: only now the pack can be found.
StorePack(c) ==
    /\ call[c].at = "creating"
    /\ Create(call[c].pack)
    /\ ledger' = [ledger EXCEPT !.paid = [@ EXCEPT ![call[c].pack] = call[c].tokens],
                                !.served = [@ EXCEPT ![call[c].pack] = call[c].found]]
    /\ Return(c)
    /\ UNCHANGED <<active, pack, usage>>

\* context.read_pack charges nothing and takes no lock; it touches the LRU.
ReadPack(p) == /\ p \in Stored
               /\ stored' = Touched(p)
               /\ UNCHANGED <<active, pack, meterOf, usage, call, ledger>>

\* Arrival of a charged call: PackStore.get, then wait for the pack's lock.
Arrive(c, p, t, a, q, limit, found, tokens) ==
    /\ t \in Tools
    /\ call[c].at = "idle"
    /\ p \in Stored
    /\ stored' = Touched(p)
    /\ call' = [call EXCEPT ![c] = [Idle EXCEPT !.at = "waiting", !.tool = t, !.pack = p,
                                                !.agent = a, !.question = q, !.limit = limit,
                                                !.found = found, !.tokens = tokens]]
    /\ UNCHANGED <<active, pack, meterOf, usage, ledger>>

ArriveMore(c) ==
    \E p \in PackIds, a \in Agents, q \in Questions, limit \in AskedTokens :
        Arrive(c, p, "request_more", a, q, limit, {}, 0)

\* open_evidence hydrates and prices the card before it takes the lock.
ArriveOpen(c) ==
    \E p \in PackIds, a \in Agents, cost \in AskedTokens :
        /\ pack[p].cards \cap ServedTo(p) \cap MaySee[a] # {}
        /\ Arrive(c, p, "open_evidence", a, Idle.question, cost, {}, 0)

\* expand clamps its budget to what remains of the run's, walks the graph of
\* the ACTIVE build, and takes the lock only after that.
ArriveExpand(c) ==
    \E p \in PackIds, a \in Agents, asked \in AskedTokens :
        LET effective == Lesser(Lesser(asked, MaxRunBudget), Remaining(p))
        IN  \E found \in SUBSET ((Members[active] \cap MaySee[a]) \ pack[p].cards),
               tokens \in 0 .. effective :
              /\ Priced(found, tokens)
              /\ Arrive(c, p, "expand", a, Idle.question, 0, found, tokens)
------------------------------------------------------------------------------
LockFree(c) == PackOf(c).lock = Nothing

\* Call c has acquired the lock of its pack.
Holds(c, t) == call[c].at = "waiting" /\ call[c].tool = t /\ LockFree(c)

\* _authorized_reuse: an answer whose every id is hidden from the caller is
\* no answer, an empty one is.
Answer(e, a) == e.ids = {} \/ e.ids \cap MaySee[a] # {}

Earliest(h, I) == {h[i] : i \in {j \in I : \A k \in I : j <= k}}

\* find_exact
Exact(h, q) == Earliest(h, {i \in DOMAIN h : h[i].question = q})

\* find_semantic: the most similar entry, the first of several.
Semantic(h, q) ==
    LET same == {i \in DOMAIN h : h[i].question = q \/ <<q, h[i].question>> \in SameWords}
    IN  IF same # {} THEN Earliest(h, same)
        ELSE {h[i] : i \in {j \in DOMAIN h : <<q, h[j].question>> \in Similar}}

\* The entries dedupe may settle on: the exact match where it answers the caller, else the
\* most similar entry.
Consulted(h, q, a) ==
    IF \E e \in Exact(h, q) : Answer(e, a) THEN Exact(h, q) ELSE Semantic(h, q)

ConsultedBy(c) == Consulted(PackOf(c).history, call[c].question, call[c].agent)

\* A 'reused' row: free.
Reuse(c) == /\ Holds(c, "request_more")
            /\ \E e \in ConsultedBy(c) : Answer(e, call[c].agent)
            /\ Return(c)
            /\ UNCHANGED <<active, pack, stored, meterOf, usage, ledger>>

NeedsRetrieval(c) == \/ ConsultedBy(c) = {}
                     \/ \E e \in ConsultedBy(c) : ~Answer(e, call[c].agent)

WithinAllowance(c) == UsageOf(c).tokens + call[c].limit <= MaxTokens[call[c].agent]

RequestLeft(c) == UsageOf(c).requests + 1 <= MaxRequests[call[c].agent]

\* (mutant) Something is left, never mind how much.
BudgetNotExhausted(c) == Remaining(call[c].pack) > 0

WithinRunBudget(c) == call[c].limit <= Remaining(call[c].pack)

\* A 'denied' or 'needs_human_approval' row: the pack is left alone.
RefuseMore(c) == /\ Holds(c, "request_more")
                 /\ NeedsRetrieval(c)
                 /\ ~(RequestLeft(c) /\ WithinAllowance(c) /\ WithinRunBudget(c))
                 /\ Return(c)
                 /\ UNCHANGED <<active, pack, stored, meterOf, usage, ledger>>

\* All checks passed: retrieve, holding the lock.
Retrieve(c) == /\ Holds(c, "request_more")
               /\ NeedsRetrieval(c)
               /\ RequestLeft(c) /\ WithinAllowance(c) /\ WithinRunBudget(c)
               /\ pack' = [pack EXCEPT ![call[c].pack].lock = c]
               /\ call' = [call EXCEPT ![c].at = "retrieving"]
               /\ UNCHANGED <<active, stored, meterOf, usage, ledger>>

\* (mutant) The answer is not remembered.
HistoryForgotten(c, found) == PackOf(c).history

\* QueryHistory.record.
Recorded(c, found) == Append(PackOf(c).history,
                             [question |-> call[c].question, ids |-> found])

\* EvidencePackState.charge and the cards that come with it.
Charged(c, found, tokens, history) ==
    [PackOf(c) EXCEPT !.used = PackOf(c).used + tokens, !.cards = PackOf(c).cards \cup found,
                      !.history = history, !.lock = c]

\* EvidencePackState.snapshot.
Snapshot(c) == [used |-> PackOf(c).used, usage |-> UsageOf(c), cards |-> PackOf(c).cards,
                history |-> PackOf(c).history]

\* snapshot, charge, register the cards; then await the ledger with the lock.
Charge(c, found, tokens, requests, history) ==
    /\ pack' = [pack EXCEPT ![call[c].pack] = Charged(c, found, tokens, history)]
    /\ usage' = [usage EXCEPT ![PackOf(c).meter][call[c].agent] =
                   [requests |-> @.requests + requests, tokens |-> @.tokens + tokens]]
    /\ call' = [call EXCEPT ![c] = [call[c] EXCEPT !.at = "writing", !.found = found,
                                                   !.tokens = tokens, !.before = Snapshot(c)]]
    /\ UNCHANGED <<active, stored, meterOf, ledger>>

ChargeMore(c) ==
    /\ call[c].at = "retrieving"
    /\ \E found \in SUBSET ((ServedTo(call[c].pack) \cap MaySee[call[c].agent]) \ PackOf(c).cards),
          tokens \in 0 .. call[c].limit :
         /\ Priced(found, tokens)
         /\ Charge(c, found, tokens, 1, Recorded(c, found))

ChargeOpen(c) == /\ Holds(c, "open_evidence")
                 /\ WithinRunBudget(c) /\ WithinAllowance(c)
                 /\ Charge(c, {}, call[c].limit, 0, PackOf(c).history)

RefuseOpen(c) == /\ Holds(c, "open_evidence")
                 /\ ~(WithinRunBudget(c) /\ WithinAllowance(c))
                 /\ Return(c)
                 /\ UNCHANGED <<active, pack, stored, meterOf, usage, ledger>>

\* expand charges what its walk cost, whatever remains by now.
ChargeExpand(c) == /\ Holds(c, "expand")
                   /\ Charge(c, call[c].found, call[c].tokens, 0, PackOf(c).history)
------------------------------------------------------------------------------
\* The 'approved' row of a charged call.
Rows(c) ==
    [paid |-> [ledger.paid EXCEPT ![call[c].pack] = @ + call[c].tokens],
     served |-> [ledger.served EXCEPT ![call[c].pack] = @ \cup call[c].found],
     spent |-> [ledger.spent EXCEPT ![PackOf(c).run][call[c].agent] = @ + call[c].tokens],
     answered |-> IF call[c].tool = "request_more"
                    THEN ledger.answered \cup {<<call[c].pack, call[c].agent, call[c].question>>}
                    ELSE ledger.answered]

LedgerLands(c) == /\ call[c].at = "writing"
                  /\ ledger' = Rows(c)
                  /\ pack' = [pack EXCEPT ![call[c].pack] = Unlocked(@)]
                  /\ Return(c)
                  /\ UNCHANGED <<active, stored, meterOf, usage>>

\* (mutant) A refund that leaves the cards in the pack.
CardsKept(c) == [PackOf(c) EXCEPT !.used = call[c].before.used,
                                  !.history = call[c].before.history]

\* EvidencePackState.restore, the pack's half and the meter's.
RestoredPack(c) == [PackOf(c) EXCEPT !.used = call[c].before.used,
                                     !.cards = call[c].before.cards,
                                     !.history = call[c].before.history]

RestoredUsage(c) == call[c].before.usage

\* A query of the call raises: the charge, if there is one, is refunded.  A
\* failed create_pack never stores its pack; a failed reuse or refusal leaves
\* no row and no trace.
CallRaises(c) ==
    /\ "database_fails" \in Faults
    /\ \/ /\ call[c].at = "writing"
          /\ pack' = [pack EXCEPT ![call[c].pack] = Unlocked(RestoredPack(c))]
          /\ usage' = [usage EXCEPT ![PackOf(c).meter][call[c].agent] = RestoredUsage(c)]
       \/ /\ \/ call[c].at \in {"creating", "retrieving"}
             \/ call[c].at = "waiting" /\ LockFree(c)
          /\ pack' = IF call[c].at = "retrieving"
                       THEN [pack EXCEPT ![call[c].pack] = Unlocked(@)] ELSE pack
          /\ UNCHANGED usage
    /\ Return(c)
    /\ UNCHANGED <<active, stored, meterOf, ledger>>

\* The client goes away: CancelledError is not an Exception, so the async with
\* releases the lock and nothing is refunded; the row may have been committed.
Cancel(c) ==
    /\ "call_cancelled" \in Faults
    /\ call[c].at # "idle"
    /\ pack' = IF call[c].at \in {"retrieving", "writing"}
                 THEN [pack EXCEPT ![call[c].pack] = Unlocked(@)] ELSE pack
    /\ ledger' \in {ledger} \cup (IF call[c].at = "writing" THEN {Rows(c)} ELSE {})
    /\ Return(c)
    /\ UNCHANGED <<active, stored, meterOf, usage>>

\* The builder activates its next build.
ActivateNext == /\ active + 1 \in DOMAIN Members
                /\ active' = active + 1
                /\ UNCHANGED <<pack, stored, meterOf, usage, call, ledger>>
------------------------------------------------------------------------------
\* The steps that need the lock, and those that only need the event loop.
Acquire(c) == Reuse(c) \/ RefuseMore(c) \/ Retrieve(c) \/ ChargeOpen(c) \/ RefuseOpen(c)
              \/ ChargeExpand(c)

Resume(c) == StorePack(c) \/ ChargeMore(c) \/ LedgerLands(c) \/ CallRaises(c)

Next == \/ \E c \in Calls : \/ CreatePack(c)
                            \/ ArriveMore(c)
                            \/ ArriveOpen(c)
                            \/ ArriveExpand(c)
                            \/ Acquire(c)
                            \/ Resume(c)
                            \/ Cancel(c)
        \/ \E p \in PackIds : ReadPack(p)
        \/ ActivateNext

Spec == Init /\ [][Next]_vars

\* An awaited query returns or raises; asyncio.Lock wakes its waiters in turn.
FairSpec == Spec /\ \A c \in Calls : WF_vars(Resume(c)) /\ SF_vars(Acquire(c))
------------------------------------------------------------------------------
Charging == {"retrieving", "writing"}

\* A pack never spends more than its run budget, however calls interleave,
\* fail or are cancelled: check and charge happen under one lock (state.py).
RunBudgetHolds == \A p \in PackIds : pack[p].used <= pack[p].budget

\* An agent is never served more follow-up tokens in a run than its allowance,
\* nor more requests (budgets.py), counted in the rows of the ledger.
AllowanceHolds ==
    /\ \A r \in Runs, a \in Agents : ledger.spent[r][a] <= MaxTokens[a]
    /\ \A m \in PackIds, a \in Agents : usage[m][a].requests <= MaxRequests[a]

\* No call holds the lock of a pack of run r.
Quiet(r) == \A p \in PackIds : pack[p].run = r => pack[p].lock = Nothing

\* Between calls a pack's spend and its cards are what the ledger explains: a
\* failed call leaves nothing behind (snapshot and restore in state.py).
PacksMatchLedger ==
    \A p \in Stored : pack[p].lock = Nothing => /\ pack[p].used = ledger.paid[p]
                                                /\ pack[p].cards = ledger.served[p]

\* Between calls a run's meter shows what its agents were served: the refund of
\* one call takes back its own charge and nobody else's.
MetersMatchLedger ==
    \A r \in Runs : meterOf[r] # Nothing /\ Quiet(r) =>
        \A a \in Agents : usage[meterOf[r]][a].tokens = ledger.spent[r][a]

\* Pack, meter and allowance alike: what a call charged is exactly what the ledger says it was
\* served, and no agent is served beyond its allowance.
LedgersAgree == PacksMatchLedger /\ MetersMatchLedger /\ AllowanceHolds

\* A question that was answered for an agent is reused, never charged or
\* refused, when the agent asks it again (request_more.py: dedupe first).
AnsweredQuestionsAreReused ==
    \A p \in PackIds, a \in Agents, q \in Questions :
        <<p, a, q>> \in ledger.answered =>
            /\ Consulted(pack[p].history, q, a) # {}
            /\ \A e \in Consulted(pack[p].history, q, a) : Answer(e, a)

\* A pack serves one membership snapshot for life (state.py, build_seq).
PackIsPinned == \A p \in PackIds : pack[p].cards \subseteq Members[pack[p].build]

\* Every pack that can be found meters its agents on the counters of its run,
\* which outlive any single pack (PackStore.run_usage).
OneMeterPerRun == \A p \in Stored : pack[p].meter = meterOf[pack[p].run]

\* Every call returns, and so frees the pack it may have locked.
CallsReturn == \A c \in Calls : (call[c].at # "idle") ~> (call[c].at = "idle")
==============================================================================
