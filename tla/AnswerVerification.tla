------------------------- MODULE AnswerVerification -------------------------
(***************************************************************************)
(* context.verify_answer of the mcp-server: the levels L0 to L3, the       *)
(* entailment cache in front of the model, the signed receipt and the      *)
(* platform-trust gate.  Source: context_broker/verify.py, claim_ledger.py,*)
(* entailment.py, receipt_signing.py, platform_trust.py and their queries  *)
(* under infrastructure/.                                                  *)
(*                                                                         *)
(* Several calls of one requester run at once, while the builder prepares  *)
(* and activates the next version.  A call opens one session, in which it  *)
(* pins the version and then reads the facts, a second one for L3, claim   *)
(* by claim (look up, ask, record), and a third one for its ledger row.    *)
(*                                                                         *)
(* Abstractions.  A unit is an artifact; its validity interval is a        *)
(* constant, since a row closed for a version stays a member of the        *)
(* earlier ones (IncrementalBuild).  A quote is the set of units whose     *)
(* text contains it.  Reasons are a set: their order is layout.            *)
(***************************************************************************)
EXTENDS Integers, FiniteSets, Sequences, FiniteSetsExt, SequencesExt

CONSTANTS
  Calls,          \* slots of concurrent verify_answer calls
  MaxCalls,       \* bound: calls started
  MaxSeq,         \* bound: the last build_seq
  Units,          \* artifact ids
  BadId,          \* an evidence id that is not a UUID
  Found,          \* the units the requester searches for
  Unit,           \* Unit[u]: [from, until, acl, type, title, path]
  Edges,          \* set of [type, a, b, trust, from, until]
  MyTeams,        \* the teams of the requester
  Requests,       \* [claims, levels, client, active]: active unless it pins another version
  Clients,        \* client identities
  Required,       \* the clients that opted into verification_required
  Keys,           \* values of the signing key
  NoKey, NoQuote, NoAssertion

Kinds == {"symbol_in_file", "file_imports_module", "edge_between"}

ASSUME VerificationAssumption ==
  /\ BadId \notin Units /\ NoKey \notin Keys
  /\ Required \subseteq Clients
  /\ MaxCalls \in Nat /\ MaxSeq \in Nat \ {0} /\ IsFiniteSet(Calls)
  /\ \A u \in Units : Unit[u].from \in Nat \ {0}
  /\ \A r \in Requests :
       /\ DOMAIN r.claims \subseteq Nat /\ DOMAIN r.claims # {} /\ r.client \in Clients
       /\ \A i \in DOMAIN r.claims :
            /\ ToSet(r.claims[i].cites) # {}
            /\ r.claims[i].assertion # NoAssertion => r.claims[i].assertion.kind \in Kinds

VARIABLES
  served,        \* build_seq of the active version
  writing,       \* build_seq the builder writes; = served when none runs
  deletedUnits,  \* units whose source_item row is marked deleted
  retrieved,     \* <<version, unit>> pairs of the requester's ledger rows
  cache,         \* entailment_cache: key -> verdict
  paid,          \* answers of the model, per key
  call,          \* the calls in flight
  started,       \* calls started so far
  lost,          \* calls that died between an answer and its record
  receipts,      \* the receipts issued
  key            \* the signing key of the server's environment

verifyVars == <<served, writing, deletedUnits, retrieved, cache, paid, call, started,
                lost, receipts, key>>

--------------------------------------------------------------------------------
(* The ledger *)

Member(r, s) == r.from <= s /\ s < r.until

\* acl_admits: an empty set is public to the organisation.
Admits(acl) == acl = {} \/ acl \cap MyTeams # {}

\* The effective ACL of an edge; two disjoint restrictions meet in the empty set.
EdgeAcl(e) ==
  LET l == Unit[e.a].acl  r == Unit[e.b].acl
  IN  CASE l = {} -> r [] r = {} -> l [] OTHER -> l \cap r

MemberEdges(s) == {e \in Edges : Member(e, s) /\ Member(Unit[e.a], s) /\ Member(Unit[e.b], s)}

Supporting(es) == {e \in es : Admits(EdgeAcl(e)) /\ e.trust = "EXTRACTED"}

\* Provenance counts the edges by their own interval alone.
Incident(u, s) == {e \in Edges : Member(e, s) /\ u \in {e.a, e.b}}

\* What one session finds: the version it pinned, the flags and ledger rows of now.
\* Nothing is a member of a version that is asked for but not the active one (0).
Facts(s, active) ==
  [seq |-> IF active THEN s ELSE 0, deleted |-> deletedUnits,
   exists |-> {u \in Units : Unit[u].from <= writing},
   retrieved |-> {u \in Units : <<s, u>> \in retrieved}]

--------------------------------------------------------------------------------
(* L0 *)

L0Keys == {"exists", "in_active_version", "acl_visible", "in_requester_ledger",
           "not_stale", "supporting_trust_ok"}

CheckEvidence(u, c) ==
  IF u = BadId THEN [k \in L0Keys |-> FALSE]
  ELSE LET in == Member(Unit[u], c.seq)
           inc == Incident(u, c.seq)
       IN  [exists              |-> in \/ u \in c.exists,
            in_active_version   |-> in,
            acl_visible         |-> in /\ Admits(Unit[u].acl),
            in_requester_ledger |-> u \in c.retrieved,
            not_stale           |-> in /\ u \notin c.deleted,
            supporting_trust_ok |-> in /\ (inc = {} \/ \E e \in inc : e.trust = "EXTRACTED")]

EvidenceReasons(u, c) ==
  IF u = BadId THEN {"bad_id"}
  ELSE LET ev == CheckEvidence(u, c)
           in == ev.in_active_version
       IN  {r \in {"not_found"} : ~ev.exists}
           \union {r \in {"wrong_version"} : ev.exists /\ ~in}
           \union {r \in {"acl_invisible"} : ~ev.acl_visible}
           \union {r \in {"not_retrieved"} : ~ev.in_requester_ledger}
           \union {r \in {"stale"} : in /\ ~ev.not_stale}
           \union {r \in {"trust"} : in /\ ~ev.supporting_trust_ok}

\* The claim's checks are the conjunction over its evidence.
MergedL0(claim, c) == [k \in L0Keys |-> \A u \in ToSet(claim.cites) : CheckEvidence(u, c)[k]]

Resolvable(u, c) ==
  LET ev == CheckEvidence(u, c)
  IN  ev.exists /\ ev.in_active_version /\ ev.acl_visible /\ ev.in_requester_ledger

\* The cited ids that parse and resolve: all that L1 to L3 may read.
Cited(claim, c) == {u \in ToSet(claim.cites) : Resolvable(u, c)}

--------------------------------------------------------------------------------
(* L1 and L2 *)

L1Reasons(claim, c) ==
  LET cited == Cited(claim, c) # {}
      q == claim.quote
  IN  {r \in {"uncited"} : ~cited}
      \union {r \in {"quote_over_cap"} : q # NoQuote /\ q.long}
      \union {r \in {"quote_not_found"} :
                q # NoQuote /\ ~q.long /\ cited /\ q.of \cap Cited(claim, c) = {}}

L1Coverage(claim, c) == L1Reasons(claim, c) = {}

SymbolUnits(a, s) ==
  {u \in Units : /\ Unit[u].type \in {"code_symbol", "test"}
                 /\ Unit[u].title = a.symbol /\ Unit[u].path = a.file
                 /\ Member(Unit[u], s)}

ImportEdges(a, s) ==
  {e \in MemberEdges(s) : /\ e.type = "imports"
                          /\ Unit[e.a].type = "code_file" /\ Unit[e.a].path = a.file
                          /\ Unit[e.b].title = a.module}

EdgesBetween(a, s) ==
  {e \in MemberEdges(s) : e.type = a.edge /\ {e.a, e.b} = {a.a, a.b}
                          /\ (e.a = a.a \/ e.a = a.b)}

\* adjudicate_typed_fact over the claim's own resolvable evidence.
Adjudicate(a, s, cited) ==
  CASE a.kind = "symbol_in_file" ->
         \E u \in SymbolUnits(a, s) : Admits(Unit[u].acl) /\ u \in cited
    [] a.kind = "file_imports_module" ->
         \E e \in Supporting(ImportEdges(a, s)) : e.a \in cited
    [] a.kind = "edge_between" ->
         /\ a.a \in cited /\ a.b \in cited
         /\ Supporting(EdgesBetween(a, s)) # {}

\* l2_verdicts is keyed by claim_id: of two claims with one id the later wins.
L2Verdicts(claims, c) ==
  LET typed == {i \in DOMAIN claims : claims[i].assertion # NoAssertion}
      last(id) == Max({i \in typed : claims[i].id = id})
  IN  [id \in {claims[i].id : i \in typed} |->
         Adjudicate(claims[last(id)].assertion, c.seq, Cited(claims[last(id)], c))]

\* A pass of every level that ran, and the reasons; v = no L2 verdict when absent.
Deterministic(claim, c, levels, l2) ==
  LET hasL2 == "L2" \in levels /\ claim.id \in DOMAIN l2
      l0    == UNION {EvidenceReasons(u, c) : u \in ToSet(claim.cites)}
      l1    == IF "L1" \in levels THEN L1Reasons(claim, c) ELSE {}
  IN  [reasons |-> l0 \union l1 \union {r \in {"typed_fact"} : hasL2 /\ ~l2[claim.id]},
       passed  |-> /\ \A k \in L0Keys : MergedL0(claim, c)[k]
                   /\ "L1" \in levels => L1Coverage(claim, c)
                   /\ hasL2 => l2[claim.id],
       typed   |-> hasL2]

L3Eligible(claim, c, levels, l2) ==
  LET d == Deterministic(claim, c, levels, l2)
  IN  d.passed /\ ~d.typed /\ Cited(claim, c) # {}

--------------------------------------------------------------------------------
(* The model behind L3: what check_entailment makes of up to three answers *)

Answers == {"true", "false", "not_boolean", "unusable"}
Attempts == 3

\* The first usable answer counts; a verdict that is not a boolean, and three
\* unusable answers, are read as not entailed.
VerdictOf(raw) ==
  LET usable == {i \in 1..Attempts : raw[i] # "unusable"}
  IN  usable # {} /\ raw[Min(usable)] = "true"

Verdicts == {VerdictOf(raw) : raw \in [1..Attempts -> Answers]}

CacheKey(claim, c) == <<claim.text, Cited(claim, c)>>

--------------------------------------------------------------------------------
(* Receipts *)

ClaimReceipt(claim, c, levels, l2, l3) ==
  LET d == Deterministic(claim, c, levels, l2)
      judged == claim.id \in DOMAIN l3
  IN  [passed  |-> d.passed /\ (judged => l3[claim.id].entailed),
       reasons |-> d.reasons \union
                   {r \in {"entailment"} : judged /\ ~l3[claim.id].entailed}]

Overall(rs) ==
  CASE \A i \in DOMAIN rs : rs[i].passed  -> "passed"
    [] \A i \in DOMAIN rs : ~rs[i].passed -> "failed"
    [] OTHER -> "partial"

\* The MAC covers the client and the claim results.
MacOf(r, k) == <<k, r.client, r.seq, r.results>>

AnyClientsReceipt(client, r) ==     \* (mutant) the receipt of another client counts
  IF client \notin Required THEN "not_required"
  ELSE IF r.mac # NoKey /\ key # NoKey /\ r.mac = MacOf(r, key) /\ r.overall = "passed"
       THEN "trusted" ELSE "denied"

\* evaluate_platform_trust for a client that shows a receipt.
Trust(client, r) ==
  IF client \notin Required THEN "not_required"
  ELSE IF /\ r.mac # NoKey /\ r.client = client
          /\ key # NoKey /\ r.mac = MacOf(r, key)
          /\ r.overall = "passed" THEN "trusted"
  ELSE "denied"

--------------------------------------------------------------------------------
(* The call *)

Idle == [pc |-> "idle"]

Begin(p, req) ==
  /\ call[p] = Idle /\ started < MaxCalls
  /\ started' = started + 1
  /\ call' = [call EXCEPT ![p] = [pc |-> "pinned", req |-> req.claims, seq |-> served,
                                  client |-> req.client, active |-> req.active,
                                  levels |-> req.levels \union {"L0"}]]
  /\ UNCHANGED <<served, writing, deletedUnits, retrieved, cache, paid, lost, receipts, key>>

\* The queries of the first session; the eligible claims wait for L3.
ReadFacts(p) ==
  LET k == call[p]  c == Facts(k.seq, k.active)
      l2 == IF "L2" \in k.levels /\ k.active THEN L2Verdicts(k.req, c) ELSE <<>>
      eligible(i) == "L3" \in k.levels /\ L3Eligible(k.req[i], c, k.levels, l2)
  IN  /\ k.pc = "pinned"
      /\ call' = [call EXCEPT ![p] =
           [pc |-> "l3", req |-> k.req, client |-> k.client, levels |-> k.levels, facts |-> c,
            l2 |-> l2, l3 |-> <<>>, asked |-> {},
            todo |-> {i \in DOMAIN k.req : eligible(i)}]]
      /\ UNCHANGED <<served, writing, deletedUnits, retrieved, cache, paid, started, lost,
                     receipts, key>>

\* The claim whose turn it is, in the order of the request.
Turn(k) == Min(k.todo)

Judged(k, entailed, hit) ==
  LET claim == k.req[Turn(k)]
  IN  [k EXCEPT !.pc = "l3", !.todo = @ \ {Turn(k)},
                !.l3 = [id \in DOMAIN k.l3 \union {claim.id} |->
                          IF id = claim.id
                          THEN [entailed |-> entailed, hit |-> hit, at |-> Turn(k)]
                          ELSE k.l3[id]]]

LookUp(p) ==
  LET k == call[p]  ck == CacheKey(k.req[Turn(k)], k.facts)
  IN  /\ k.pc = "l3" /\ k.todo # {}
      /\ call' = [call EXCEPT ![p] = IF ck \in DOMAIN cache THEN Judged(k, cache[ck], TRUE)
                                     ELSE [k EXCEPT !.pc = "ask"]]
      /\ UNCHANGED <<served, writing, deletedUnits, retrieved, cache, paid, started, lost,
                     receipts, key>>

\* The texts sent are those of the claim's own resolvable evidence.
AskVerifier(p, entailed) ==
  LET k == call[p]  claim == k.req[Turn(k)]  ck == CacheKey(claim, k.facts)
  IN  /\ k.pc = "ask"
      /\ call' = [call EXCEPT ![p] =
                    [k EXCEPT !.pc = IF entailed THEN "record_true" ELSE "record_false",
                              !.asked = @ \union {<<Turn(k), Cited(claim, k.facts)>>}]]
      /\ paid' = [paid EXCEPT ![ck] = @ + 1]
      /\ UNCHANGED <<served, writing, deletedUnits, retrieved, cache, started, lost, receipts, key>>

\* The endpoint raises: the tool call fails without a receipt.
AskFails(p) ==
  /\ call[p].pc = "ask"
  /\ call' = [call EXCEPT ![p] = Idle]
  /\ UNCHANGED <<served, writing, deletedUnits, retrieved, cache, paid, started, lost, receipts, key>>

Overwritten(ck, v) ==     \* (mutant) ON CONFLICT DO UPDATE
  [x \in DOMAIN cache \union {ck} |-> IF x = ck THEN v ELSE cache[x]]

\* ON CONFLICT DO NOTHING: the first verdict stays, and this call keeps its own.
Stored(ck, v) ==
  IF ck \in DOMAIN cache THEN cache
  ELSE [x \in DOMAIN cache \union {ck} |-> IF x = ck THEN v ELSE cache[x]]

Record(p) ==
  LET k == call[p]  v == k.pc = "record_true"
      ck == CacheKey(k.req[Turn(k)], k.facts)
  IN  /\ k.pc \in {"record_true", "record_false"}
      /\ cache' = Stored(ck, v)
      /\ call' = [call EXCEPT ![p] = Judged(k, v, FALSE)]
      /\ UNCHANGED <<served, writing, deletedUnits, retrieved, paid, started, lost, receipts, key>>

\* The call is cancelled, or the record fails, after the model answered.
Lose(p) ==
  /\ call[p].pc \in {"record_true", "record_false"}
  /\ lost' = lost + 1
  /\ call' = [call EXCEPT ![p] = Idle]
  /\ UNCHANGED <<served, writing, deletedUnits, retrieved, cache, paid, started, receipts, key>>

\* Pass 3: the results of the claims, in the order of the request.
ResultsOf(k) ==
  [i \in DOMAIN k.req |-> ClaimReceipt(k.req[i], k.facts, k.levels, k.l2, k.l3)]

\* The receipt of a call, before it is signed.
Unsigned(k, results) ==
  [client |-> k.client, seq |-> k.facts.seq, req |-> k.req, levels |-> k.levels,
   results |-> results, overall |-> Overall(results), l3 |-> k.l3, asked |-> k.asked,
   mac |-> NoKey]

\* Only a server with a key signs.
Signed(r) == [r EXCEPT !.mac = IF key = NoKey THEN NoKey ELSE MacOf(r, key)]

\* Pass 3, the ledger row and the signature.
Issue(p) ==
  LET k == call[p]
  IN  /\ k.pc = "l3" /\ k.todo = {}
      /\ receipts' = receipts \union {Signed(Unsigned(k, ResultsOf(k)))}
      /\ call' = [call EXCEPT ![p] = Idle]
      /\ UNCHANGED <<served, writing, deletedUnits, retrieved, cache, paid, started, lost, key>>

--------------------------------------------------------------------------------
(* The rest of the platform *)

\* kb_search or a pack returns a unit of the served version: a ledger row.
Retrieve(u) ==
  /\ Member(Unit[u], served) /\ Admits(Unit[u].acl) /\ <<served, u>> \notin retrieved
  /\ retrieved' = retrieved \union {<<served, u>>}
  /\ UNCHANGED <<served, writing, deletedUnits, cache, paid, call, started, lost, receipts, key>>

BuildBegins ==
  /\ writing = served /\ served < MaxSeq
  /\ writing' = served + 1
  /\ UNCHANGED <<served, deletedUnits, retrieved, cache, paid, call, started, lost, receipts, key>>

\* The deletion sweep of the running build marks the source of a unit it closes.
SourceGone(u) ==
  /\ writing > served /\ Unit[u].until = writing /\ u \notin deletedUnits
  /\ deletedUnits' = deletedUnits \union {u}
  /\ UNCHANGED <<served, writing, retrieved, cache, paid, call, started, lost, receipts, key>>

Activate ==
  /\ writing > served
  /\ served' = writing
  /\ UNCHANGED <<writing, deletedUnits, retrieved, cache, paid, call, started, lost, receipts, key>>

SetKey(k) ==
  /\ key # k /\ receipts # {}
  /\ key' = k
  /\ UNCHANGED <<served, writing, deletedUnits, retrieved, cache, paid, call, started, lost, receipts>>

Texts == UNION {{r.claims[i].text : i \in DOMAIN r.claims} : r \in Requests}
CacheKeys == Texts \X SUBSET Units

VerifyInit ==
  /\ served = 1 /\ writing = 1 /\ deletedUnits = {} /\ retrieved = {}
  /\ cache = <<>> /\ receipts = {} /\ started = 0 /\ lost = 0
  /\ paid = [ck \in CacheKeys |-> 0]
  /\ call = [p \in Calls |-> Idle]
  /\ key \in Keys

VerifyNext ==
  \/ \E p \in Calls : \/ \E r \in Requests : Begin(p, r)
                      \/ ReadFacts(p) \/ LookUp(p) \/ AskFails(p) \/ Record(p) \/ Lose(p)
                      \/ Issue(p)
                      \/ \E v \in Verdicts : AskVerifier(p, v)
  \/ \E u \in Found : Retrieve(u)
  \/ \E u \in Units : SourceGone(u)
  \/ BuildBegins \/ Activate
  \/ \E k \in Keys \union {NoKey} : SetKey(k)

VerifySpec == VerifyInit /\ [][VerifyNext]_verifyVars
--------------------------------------------------------------------------------
(* Properties *)

\* Whatever happened between the sessions of the call, a claim that passed cites
\* only members of the version named by its receipt, which this requester may see
\* and was given under that version (_check_evidence, fetch_subject_retrieved_ids).
ReceiptsStandOnEvidence ==
  \A r \in receipts : \A i \in DOMAIN r.req :
    r.results[i].passed =>
      \A u \in ToSet(r.req[i].cites) :
        /\ u \in Units /\ Member(Unit[u], r.seq)
        /\ <<r.seq, u>> \in retrieved /\ Admits(Unit[u].acl)

\* A definition found where the claim says, or a relation read off the code.
Holds(a, s) ==
  CASE a.kind = "symbol_in_file" -> \E u \in Units : Member(Unit[u], s) /\ Unit[u].title = a.symbol
                                                     /\ Unit[u].path = a.file
    [] a.kind = "file_imports_module" ->
         \E e \in Edges : /\ e.type = "imports" /\ e.trust = "EXTRACTED" /\ Member(e, s)
                          /\ Unit[e.a].path = a.file /\ Unit[e.b].title = a.module
    [] a.kind = "edge_between" ->
         \E e \in Edges : /\ e.type = a.edge /\ e.trust = "EXTRACTED" /\ Member(e, s)
                          /\ {e.a, e.b} = {a.a, a.b}

FactHolds(r, i) ==
  r.results[i].passed /\ "L2" \in r.levels /\ r.req[i].assertion # NoAssertion
    => Holds(r.req[i].assertion, r.seq)

\* A passed claim whose typed assertion was adjudicated is true in the version of
\* the receipt (adjudicate_typed_fact), when no two claims share an id.
PassedFactsHold ==
  \A r \in receipts :
    (\A i, j \in DOMAIN r.req : r.req[i].id = r.req[j].id => i = j)
      => \A i \in DOMAIN r.req : FactHolds(r, i)

\* The same for every request the schema accepts (verify_answer, l2_verdicts).
EveryPassedFactHolds == \A r \in receipts : \A i \in DOMAIN r.req : FactHolds(r, i)

\* The checks and the reasons are computed side by side and agree: a claim failed
\* exactly when its receipt says why (_deterministic_pass, _assemble_receipts).
FailuresAreExplained ==
  \A r \in receipts : \A i \in DOMAIN r.req : r.results[i].passed = (r.results[i].reasons = {})

\* The cost guard: the model is asked only about a claim that nothing before it
\* failed and that carries no assertion the ledger settled (_l3_eligible).
OnlyUnresolvedAreJudged ==
  \A r \in receipts : \A x \in r.asked :
    /\ r.results[x[1]].reasons \subseteq {"entailment"}
    /\ "L2" \in r.levels => r.req[x[1]].assertion = NoAssertion

\* Two calls that both missed disagree: the verdict recorded first stays.
VerdictsAreKept ==
  [][\A ck \in DOMAIN cache : ck \in DOMAIN cache' /\ cache'[ck] = cache[ck]]_cache

\* One question to the model per key, but for calls that missed at the same time
\* or lost their answer before it was recorded (lookup_entailment, record_entailment).
PaymentsAreBounded == \A ck \in CacheKeys : paid[ck] <= Cardinality(Calls) + lost

\* A client that opted in is trusted only with its own signed receipt in which every
\* claim passed, whatever the key was when it was signed (evaluate_platform_trust).
TrustIsEarned ==
  \A r \in receipts, cl \in Required :
    Trust(cl, r) = "trusted" => /\ r.client = cl /\ key # NoKey /\ r.mac[1] = key
                                /\ \A i \in DOMAIN r.results : r.results[i].passed

\* What a receipt says and what it is worth: the six above, one for each stage of verify_answer.
ReceiptsAreSound ==
  /\ ReceiptsStandOnEvidence /\ PassedFactsHold /\ FailuresAreExplained
  /\ OnlyUnresolvedAreJudged /\ PaymentsAreBounded /\ TrustIsEarned

\* Evidence of the served version counts as stale only when its source is gone in
\* that version (L0_not_stale reads source_item.is_deleted, which has no version).
StaleOnlyWhenGone ==
  \A r \in receipts : \A i \in DOMAIN r.req :
    "stale" \in r.results[i].reasons => \E u \in ToSet(r.req[i].cites) : Unit[u].until <= r.seq
================================================================================
