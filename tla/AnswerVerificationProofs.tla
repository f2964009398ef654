----------------------- MODULE AnswerVerificationProofs -----------------------
(***************************************************************************)
(* What the receipts of verify_answer are worth, for every ledger, every   *)
(* request, any number of concurrent calls and any interleaving of their   *)
(* sessions with retrievals, builds and changes of the signing key; and    *)
(* what an answer of get_task_context, whose ledger row verify_answer      *)
(* relies on, is worth, for every graph, every state of the index, and any *)
(* order of the nodes.                                                     *)
(***************************************************************************)
EXTENDS AnswerVerification, TaskContext, SelectionsProofs, FiniteSetTheorems, WellFoundedInduction, TLAPS

--------------------------------------------------------------------------------
(* Numbers *)

LEMMA MinExists ==
    ASSUME NEW S, S \subseteq Nat, S # {}
    PROVE  Min(S) \in S
<1> DEFINE R == OpToRel(<, Nat)
<1>1. \A x, y \in Nat : <<y, x>> \in R <=> y < x
  BY DEF OpToRel
<1>2. IsWellFoundedOn(R, Nat)
  BY NatLessThanWellFounded
<1> HIDE DEF R
<1>3. PICK x \in S : \A y \in S : ~ (<<y, x>> \in R)
  BY <1>2, WFMin, Zenon
<1>4. ASSUME NEW y \in S
      PROVE  x <= y
  <2>1. x \in Nat /\ y \in Nat
    OBVIOUS
  <2>2. ~(y < x)
    BY <1>1, <1>3, <2>1
  <2> QED
    BY <2>1, <2>2
<1> QED
  BY <1>4 DEF Min

LEMMA MaxOfOne ==
    ASSUME NEW i \in Nat
    PROVE  Max({i}) = i
  BY DEF Max

--------------------------------------------------------------------------------
(* L0: the checks and their reasons *)

LEMMA EvidenceExplained ==
    ASSUME NEW u, NEW c
    PROVE  (\A k \in L0Keys : CheckEvidence(u, c)[k]) <=> EvidenceReasons(u, c) = {}
<1>1. CASE u = BadId
  BY <1>1 DEF CheckEvidence, EvidenceReasons, L0Keys
<1>2. CASE u # BadId
  <2> DEFINE ev == CheckEvidence(u, c)
  <2>1. /\ ev.in_active_version => ev.exists
        /\ (\A k \in L0Keys : ev[k]) <=>
             /\ ev.exists /\ ev.in_active_version /\ ev.acl_visible
             /\ ev.in_requester_ledger /\ ev.not_stale /\ ev.supporting_trust_ok
    BY <1>2 DEF CheckEvidence, L0Keys
  <2> HIDE DEF ev
  <2>2. EvidenceReasons(u, c) =
             {r \in {"not_found"} : ~ev.exists}
             \union {r \in {"wrong_version"} : ev.exists /\ ~ev.in_active_version}
             \union {r \in {"acl_invisible"} : ~ev.acl_visible}
             \union {r \in {"not_retrieved"} : ~ev.in_requester_ledger}
             \union {r \in {"stale"} : ev.in_active_version /\ ~ev.not_stale}
             \union {r \in {"trust"} : ev.in_active_version /\ ~ev.supporting_trust_ok}
    BY <1>2 DEF EvidenceReasons, ev
  <2>3. EvidenceReasons(u, c) = {} <=>
             /\ ev.exists /\ ~(ev.exists /\ ~ev.in_active_version) /\ ev.acl_visible
             /\ ev.in_requester_ledger /\ ~(ev.in_active_version /\ ~ev.not_stale)
             /\ ~(ev.in_active_version /\ ~ev.supporting_trust_ok)
    BY <2>2
  <2> QED
    BY <2>1, <2>3 DEF ev
<1> QED
  BY <1>1, <1>2

\* A claim passes when no level that ran gave a reason.
LEMMA DeterministicExplained ==
    ASSUME NEW claim, NEW c, NEW levels, NEW l2
    PROVE  LET d == Deterministic(claim, c, levels, l2)
           IN  d.passed <=> d.reasons = {}
<1> DEFINE hasL2 == "L2" \in levels /\ claim.id \in DOMAIN l2
           l0 == UNION {EvidenceReasons(u, c) : u \in ToSet(claim.cites)}
           l1 == IF "L1" \in levels THEN L1Reasons(claim, c) ELSE {}
           d == Deterministic(claim, c, levels, l2)
<1>1. /\ d.reasons = l0 \union l1 \union {r \in {"typed_fact"} : hasL2 /\ ~l2[claim.id]}
      /\ d.passed <=> /\ \A k \in L0Keys : MergedL0(claim, c)[k]
                      /\ "L1" \in levels => L1Coverage(claim, c)
                      /\ hasL2 => l2[claim.id]
  BY DEF Deterministic
<1>2. (\A k \in L0Keys : MergedL0(claim, c)[k]) <=> l0 = {}
  <2>1. (\A k \in L0Keys : MergedL0(claim, c)[k])
          <=> \A u \in ToSet(claim.cites) : \A k \in L0Keys : CheckEvidence(u, c)[k]
    BY DEF MergedL0
  <2>2. (\A u \in ToSet(claim.cites) : \A k \in L0Keys : CheckEvidence(u, c)[k])
          <=> \A u \in ToSet(claim.cites) : EvidenceReasons(u, c) = {}
    BY EvidenceExplained
  <2>3. (\A u \in ToSet(claim.cites) : EvidenceReasons(u, c) = {}) <=> l0 = {}
    OBVIOUS
  <2> QED
    BY <2>1, <2>2, <2>3
<1>3. ("L1" \in levels => L1Coverage(claim, c)) <=> l1 = {}
  BY DEF L1Coverage
<1>4. (hasL2 => l2[claim.id]) <=> {r \in {"typed_fact"} : hasL2 /\ ~l2[claim.id]} = {}
  OBVIOUS
<1> HIDE DEF hasL2, l0, l1, d
<1>5. d.passed <=> d.reasons = {}
  BY <1>1, <1>2, <1>3, <1>4
<1> QED
  BY <1>5 DEF d

\* What the evidence of a claim that passed was found to be.
LEMMA PassedStands ==
    ASSUME NEW claim, NEW c, NEW levels, NEW l2,
           Deterministic(claim, c, levels, l2).passed, NEW u \in ToSet(claim.cites)
    PROVE  /\ Member(Unit[u], c.seq) /\ Admits(Unit[u].acl) /\ u \in c.retrieved
           /\ u \in Cited(claim, c)
<1>1. \A k \in L0Keys : CheckEvidence(u, c)[k]
  BY DEF Deterministic, MergedL0
<1>2. u # BadId
  BY <1>1 DEF CheckEvidence, L0Keys
<1>3. /\ CheckEvidence(u, c)["exists"] /\ CheckEvidence(u, c)["in_active_version"]
      /\ CheckEvidence(u, c)["acl_visible"] /\ CheckEvidence(u, c)["in_requester_ledger"]
  BY <1>1 DEF L0Keys
<1>4. Member(Unit[u], c.seq) /\ Admits(Unit[u].acl) /\ u \in c.retrieved
  BY <1>2, <1>3 DEF CheckEvidence
<1>5. Resolvable(u, c)
  BY <1>3 DEF Resolvable
<1> QED
  BY <1>4, <1>5 DEF Cited

--------------------------------------------------------------------------------
(* L2: what the ledger settles *)

RequestClaims == {r.claims : r \in Requests}
IdsDiffer(req) == \A i, j \in DOMAIN req : req[i].id = req[j].id => i = j

LEMMA ClaimFacts ==
    ASSUME NEW req \in RequestClaims, NEW i \in DOMAIN req
    PROVE  /\ i \in Nat /\ ToSet(req[i].cites) # {}
           /\ req[i].assertion # NoAssertion => req[i].assertion.kind \in Kinds
  BY VerificationAssumption DEF RequestClaims

LEMMA AdjudicatedHolds ==
    ASSUME NEW a, NEW s, NEW cited, a.kind \in Kinds, Adjudicate(a, s, cited)
    PROVE  Holds(a, s)
<1>1. CASE a.kind = "symbol_in_file"
  <2>1. PICK u \in SymbolUnits(a, s) : Admits(Unit[u].acl) /\ u \in cited
    BY <1>1 DEF Adjudicate
  <2>2. /\ u \in Units /\ Member(Unit[u], s) /\ Unit[u].title = a.symbol
        /\ Unit[u].path = a.file
    BY DEF SymbolUnits
  <2> QED
    BY <1>1, <2>2 DEF Holds
<1>2. CASE a.kind = "file_imports_module"
  <2>1. PICK e \in Supporting(ImportEdges(a, s)) : e.a \in cited
    BY <1>2 DEF Adjudicate
  <2>2. /\ e \in Edges /\ Member(e, s) /\ e.type = "imports" /\ e.trust = "EXTRACTED"
        /\ Unit[e.a].path = a.file /\ Unit[e.b].title = a.module
    BY DEF Supporting, ImportEdges, MemberEdges
  <2> QED
    BY <1>2, <2>2 DEF Holds
<1>3. CASE a.kind = "edge_between"
  <2>1. PICK e \in Supporting(EdgesBetween(a, s)) : TRUE
    BY <1>3 DEF Adjudicate
  <2>2. /\ e \in Edges /\ Member(e, s) /\ e.type = a.edge /\ e.trust = "EXTRACTED"
        /\ {e.a, e.b} = {a.a, a.b}
    BY DEF Supporting, EdgesBetween, MemberEdges
  <2> QED
    BY <1>3, <2>2 DEF Holds
<1> QED
  BY <1>1, <1>2, <1>3 DEF Kinds

\* Nothing is a member of the version 0 that a call reads when its own is not served.
LEMMA PassedHasVersion ==
    ASSUME NEW req \in RequestClaims, NEW i \in DOMAIN req, NEW c, NEW levels, NEW l2,
           c.retrieved \subseteq Units, Deterministic(req[i], c, levels, l2).passed
    PROVE  c.seq # 0
<1>1. PICK u \in ToSet(req[i].cites) : TRUE
  BY ClaimFacts
<1>2. Member(Unit[u], c.seq) /\ u \in Units
  BY PassedStands
<1>3. Unit[u].from \in Nat \ {0}
  BY <1>2, VerificationAssumption
<1> QED
  BY <1>2, <1>3 DEF Member

\* With ids of their own, the verdict kept under an id is that of its claim.
LEMMA SettledHolds ==
    ASSUME NEW req \in RequestClaims, IdsDiffer(req), NEW i \in DOMAIN req, NEW c, NEW levels,
           "L2" \in levels, req[i].assertion # NoAssertion,
           Deterministic(req[i], c, levels, L2Verdicts(req, c)).passed
    PROVE  Holds(req[i].assertion, c.seq)
<1> DEFINE typed == {j \in DOMAIN req : req[j].assertion # NoAssertion}
           l2 == L2Verdicts(req, c)
           last(id) == Max({j \in typed : req[j].id = id})
<1>1. l2 = [id \in {req[j].id : j \in typed} |->
              Adjudicate(req[last(id)].assertion, c.seq, Cited(req[last(id)], c))]
  BY DEF L2Verdicts
<1>2. {j \in typed : req[j].id = req[i].id} = {i}
  BY DEF IdsDiffer
<1>3. last(req[i].id) = i
  BY <1>2, ClaimFacts, MaxOfOne
<1>4. req[i].id \in {req[j].id : j \in typed}
  OBVIOUS
<1>5. l2[req[i].id]
  <2>1. req[i].id \in DOMAIN l2
    BY <1>1, <1>4
  <2> HIDE DEF l2
  <2>2. Deterministic(req[i], c, levels, l2).passed
    BY DEF l2
  <2> QED
    BY <2>1, <2>2 DEF Deterministic
<1>6. l2[req[i].id] = Adjudicate(req[last(req[i].id)].assertion, c.seq,
                                 Cited(req[last(req[i].id)], c))
  BY <1>1, <1>4
<1>7. Adjudicate(req[i].assertion, c.seq, Cited(req[i], c))
  BY <1>3, <1>5, <1>6
<1> QED
  BY <1>7, ClaimFacts, AdjudicatedHolds

\* The cost guard: an eligible claim passed so far and no assertion of it was settled.
LEMMA EligibleIsOpen ==
    ASSUME NEW req, NEW i \in DOMAIN req, NEW c, NEW levels, NEW l2,
           L3Eligible(req[i], c, levels, l2)
    PROVE  /\ Deterministic(req[i], c, levels, l2).passed
           /\ Deterministic(req[i], c, levels, l2).reasons = {}
           /\ "L2" \in levels /\ l2 = L2Verdicts(req, c) => req[i].assertion = NoAssertion
<1>1. /\ Deterministic(req[i], c, levels, l2).passed
      /\ ~Deterministic(req[i], c, levels, l2).typed
  BY DEF L3Eligible
<1>2. ~("L2" \in levels /\ req[i].id \in DOMAIN l2)
  BY <1>1 DEF Deterministic
<1>3. ASSUME req[i].assertion # NoAssertion
      PROVE  req[i].id \in DOMAIN L2Verdicts(req, c)
  BY <1>3 DEF L2Verdicts
<1> QED
  BY <1>1, <1>2, <1>3, DeterministicExplained

\* All that the model reads and the cache is asked for is made of units.
LEMMA CitedUnits ==
    ASSUME NEW claim, NEW c, c.retrieved \subseteq Units
    PROVE  Cited(claim, c) \subseteq Units
<1> SUFFICES ASSUME NEW u \in Cited(claim, c)
             PROVE  u \in Units
  OBVIOUS
<1>1. CheckEvidence(u, c).in_requester_ledger
  BY DEF Cited, Resolvable
<1>2. u # BadId => u \in c.retrieved
  BY <1>1 DEF CheckEvidence
<1>3. u # BadId
  BY <1>1 DEF CheckEvidence, L0Keys
<1> QED
  BY <1>2, <1>3

--------------------------------------------------------------------------------
(* What a call in flight may rely on *)

CallFields == {"pc", "req", "client", "levels", "facts", "l2", "l3", "asked", "todo"}
Judges     == {"l3", "ask", "record_true", "record_false"}

\* The facts of a session name rows that the ledger of the requester still has.
FactsAreKept(c) ==
  /\ c.seq \in Nat /\ c.retrieved \subseteq Units
  /\ c.seq # 0 => \A u \in c.retrieved : <<c.seq, u>> \in retrieved

\* The claims the model may be asked about.
Open(k) == {i \in DOMAIN k.req : L3Eligible(k.req[i], k.facts, k.levels, k.l2)}

Pinned(k) == k.pc = "pinned" /\ k.req \in RequestClaims /\ k.seq \in Nat

Judging(k) ==
  /\ DOMAIN k = CallFields /\ k.pc \in Judges
  /\ k.req \in RequestClaims /\ FactsAreKept(k.facts)
  /\ "L2" \in k.levels => k.facts.seq = 0 \/ k.l2 = L2Verdicts(k.req, k.facts)
  /\ k.todo \subseteq Open(k) /\ (k.pc # "l3" => k.todo # {})
  /\ \A x \in k.asked : x[1] \in Open(k)

CallsAreSound ==
  /\ served \in Nat /\ writing \in Nat
  /\ call = [p \in Calls |-> call[p]]
  /\ \A p \in Calls : call[p] = Idle \/ Pinned(call[p]) \/ Judging(call[p])

LEMMA CallReplaced ==
    ASSUME CallsAreSound, NEW p \in Calls, NEW k, call' = [call EXCEPT ![p] = k],
           k = Idle \/ Pinned(k) \/ Judging(k), UNCHANGED <<served, writing, retrieved>>
    PROVE  CallsAreSound'
<1>1. call' = [q \in Calls |-> call'[q]] /\ call'[p] = k
      /\ \A q \in Calls \ {p} : call'[q] = call[q]
  BY DEF CallsAreSound
<1>2. ASSUME NEW q \in Calls
      PROVE  (call[q] = Idle \/ Pinned(call[q]) \/ Judging(call[q]))'
  <2>1. \A c : FactsAreKept(c) => FactsAreKept(c)'
    BY DEF FactsAreKept
  <2>2. call'[q] = Idle \/ Pinned(call'[q]) \/ Judging(call'[q])
    BY <1>1 DEF CallsAreSound
  <2> QED
    BY <2>1, <2>2 DEF Judging, Open
<1> QED
  BY <1>1, <1>2 DEF CallsAreSound, Pinned

\* The claim whose turn it is is eligible.
LEMMA TurnIsOpen ==
    ASSUME NEW k, Judging(k), k.todo # {}
    PROVE  /\ Turn(k) \in k.todo /\ Turn(k) \in Open(k) /\ Turn(k) \in DOMAIN k.req
<1>1. k.todo \subseteq Nat
  BY ClaimFacts DEF Judging, Open
<1> QED
  BY <1>1, MinExists DEF Turn, Judging, Open

LEMMA JudgedIsSound ==
    ASSUME NEW k, Judging(k), NEW v, NEW hit
    PROVE  Judging(Judged(k, v, hit)) /\ Judged(k, v, hit).pc = "l3"
<1> DEFINE j == Judged(k, v, hit)
<1>1. /\ DOMAIN j = CallFields /\ j.pc = "l3" /\ j.req = k.req /\ j.facts = k.facts
      /\ j.levels = k.levels /\ j.l2 = k.l2 /\ j.asked = k.asked
      /\ j.todo \subseteq k.todo
  BY DEF Judged, Judging, CallFields
<1> HIDE DEF j
<1>2. Judging(j)
  BY <1>1 DEF Judging, Open, Judges
<1> QED
  BY <1>1, <1>2 DEF j

--------------------------------------------------------------------------------
(* What a receipt says *)

ReceiptKeeps(r) ==
  /\ r.overall = Overall(r.results)
  /\ \A i \in DOMAIN r.req : r.results[i].passed =>
       \A u \in ToSet(r.req[i].cites) : /\ u \in Units /\ Member(Unit[u], r.seq)
                                        /\ <<r.seq, u>> \in retrieved /\ Admits(Unit[u].acl)
  /\ IdsDiffer(r.req) => \A i \in DOMAIN r.req : FactHolds(r, i)
  /\ \A i \in DOMAIN r.req : r.results[i].passed = (r.results[i].reasons = {})
  /\ \A x \in r.asked : /\ r.results[x[1]].reasons \subseteq {"entailment"}
                        /\ "L2" \in r.levels => r.req[x[1]].assertion = NoAssertion

ReceiptsKeep == \A r \in receipts : ReceiptKeeps(r)

\* The two halves of a claim's receipt are computed apart and say the same.
LEMMA ClaimReceiptExplained ==
    ASSUME NEW claim, NEW c, NEW levels, NEW l2, NEW l3
    PROVE  /\ ClaimReceipt(claim, c, levels, l2, l3).passed
                = (ClaimReceipt(claim, c, levels, l2, l3).reasons = {})
           /\ ClaimReceipt(claim, c, levels, l2, l3).passed
                => Deterministic(claim, c, levels, l2).passed
           /\ Deterministic(claim, c, levels, l2).reasons = {}
                => ClaimReceipt(claim, c, levels, l2, l3).reasons \subseteq {"entailment"}
<1> DEFINE d == Deterministic(claim, c, levels, l2)
           x == ClaimReceipt(claim, c, levels, l2, l3)
           failed == claim.id \in DOMAIN l3 /\ ~l3[claim.id].entailed
<1>1. /\ x.passed = (d.passed /\ ~failed)
      /\ x.reasons = d.reasons \union {r \in {"entailment"} : failed}
  BY DEF ClaimReceipt
<1>2. d.passed <=> d.reasons = {}
  BY DeterministicExplained
<1> HIDE DEF failed, d, x
<1>3. /\ x.passed = (x.reasons = {})
      /\ x.passed => d.passed
      /\ d.reasons = {} => x.reasons \subseteq {"entailment"}
  BY <1>1, <1>2
<1> QED
  BY <1>3 DEF d, x

LEMMA IssuedKeeps ==
    ASSUME NEW k, Judging(k), NEW r,
           r.req = k.req, r.seq = k.facts.seq, r.levels = k.levels, r.asked = k.asked,
           r.results = [i \in DOMAIN k.req |->
                          ClaimReceipt(k.req[i], k.facts, k.levels, k.l2, k.l3)],
           r.overall = Overall(r.results)
    PROVE  ReceiptKeeps(r)
<1> DEFINE d(i) == Deterministic(k.req[i], k.facts, k.levels, k.l2)
<1>1. ASSUME NEW i \in DOMAIN r.req
      PROVE  /\ r.results[i].passed = (r.results[i].reasons = {})
             /\ r.results[i].passed => d(i).passed
             /\ d(i).reasons = {} => r.results[i].reasons \subseteq {"entailment"}
  <2> DEFINE x == ClaimReceipt(k.req[i], k.facts, k.levels, k.l2, k.l3)
  <2>1. r.results[i] = x
    OBVIOUS
  <2>2. /\ x.passed = (x.reasons = {})
        /\ x.passed => d(i).passed
        /\ d(i).reasons = {} => x.reasons \subseteq {"entailment"}
    BY ClaimReceiptExplained
  <2> HIDE DEF x, d
  <2> QED
    BY <2>1, <2>2
<1>2. k.req \in RequestClaims /\ FactsAreKept(k.facts)
  BY DEF Judging
<1>3. \A i \in DOMAIN r.req : d(i).passed => r.seq # 0
  BY <1>2, PassedHasVersion DEF FactsAreKept
<1>4. ASSUME NEW i \in DOMAIN r.req, r.results[i].passed, NEW u \in ToSet(r.req[i].cites)
      PROVE  /\ u \in Units /\ Member(Unit[u], r.seq)
             /\ <<r.seq, u>> \in retrieved /\ Admits(Unit[u].acl)
  <2>1. d(i).passed /\ r.seq # 0
    BY <1>1, <1>3, <1>4
  <2>2. Member(Unit[u], r.seq) /\ Admits(Unit[u].acl) /\ u \in k.facts.retrieved
    BY <2>1, PassedStands
  <2> QED
    BY <1>2, <2>1, <2>2 DEF FactsAreKept
<1>5. ASSUME IdsDiffer(r.req), NEW i \in DOMAIN r.req, r.results[i].passed,
             "L2" \in r.levels, r.req[i].assertion # NoAssertion
      PROVE  Holds(r.req[i].assertion, r.seq)
  <2>1. d(i).passed /\ r.seq # 0
    BY <1>1, <1>3, <1>5
  <2>2. k.l2 = L2Verdicts(k.req, k.facts)
    BY <1>5, <2>1 DEF Judging
  <2> QED
    BY <1>2, <1>5, <2>1, <2>2, SettledHolds
<1>6. ASSUME NEW x \in r.asked
      PROVE  /\ r.results[x[1]].reasons \subseteq {"entailment"}
             /\ "L2" \in r.levels => r.req[x[1]].assertion = NoAssertion
  <2>1. x[1] \in DOMAIN k.req /\ L3Eligible(k.req[x[1]], k.facts, k.levels, k.l2)
    BY DEF Judging, Open
  <2>2. d(x[1]).passed /\ d(x[1]).reasons = {}
    BY <2>1, EligibleIsOpen
  <2>3. r.results[x[1]].reasons \subseteq {"entailment"}
    BY <1>1, <2>1, <2>2
  <2>4. r.seq # 0
    BY <1>3, <2>1, <2>2
  <2>5. "L2" \in r.levels => r.req[x[1]].assertion = NoAssertion
    BY <2>1, <2>4, EligibleIsOpen DEF Judging
  <2> QED
    BY <2>3, <2>5
<1> QED
  BY <1>1, <1>4, <1>5, <1>6 DEF ReceiptKeeps, FactHolds

\* Rows of the ledger are only added, so what stood on them stands.
LEMMA ReceiptsStay ==
    ASSUME ReceiptsKeep, retrieved \subseteq retrieved', receipts' = receipts
    PROVE  ReceiptsKeep'
  BY DEF ReceiptsKeep, ReceiptKeeps, FactHolds

\* Only a receipt all of whose claims passed is worth trust.
LEMMA TrustFollows ==
    ASSUME ReceiptsKeep
    PROVE  TrustIsEarned
<1> SUFFICES ASSUME NEW r \in receipts, NEW cl \in Required, Trust(cl, r) = "trusted"
             PROVE  /\ r.client = cl /\ key # NoKey /\ r.mac[1] = key
                    /\ \A i \in DOMAIN r.results : r.results[i].passed
  BY DEF TrustIsEarned
<1>1. /\ r.client = cl /\ key # NoKey /\ r.mac = MacOf(r, key)
      /\ r.overall = "passed"
  BY DEF Trust
<1>2. r.mac[1] = key
  BY <1>1 DEF MacOf
<1>3. \A i \in DOMAIN r.results : r.results[i].passed
  BY <1>1 DEF ReceiptsKeep, ReceiptKeeps, Overall
<1> QED
  BY <1>1, <1>2, <1>3

--------------------------------------------------------------------------------
(* What the model is paid for *)

KeyOf(k)      == CacheKey(k.req[Turn(k)], k.facts)
Records       == {"record_true", "record_false"}
Asking(ck)    == {p \in Calls : call[p].pc = "ask" /\ KeyOf(call[p]) = ck}
Recording(ck) == {p \in Calls : call[p].pc \in Records /\ KeyOf(call[p]) = ck}

\* A recorded verdict stops all but the calls that had already missed; before
\* that, each answer is held by a call that will record it, or was lost.
PaymentKeeps(ck) ==
  IF ck \in DOMAIN cache
  THEN paid[ck] + Cardinality(Asking(ck)) <= Cardinality(Calls) + lost
  ELSE paid[ck] <= Cardinality(Recording(ck)) + lost

PaymentsKeep ==
  /\ paid \in [CacheKeys -> Nat] /\ lost \in Nat
  /\ \A ck \in CacheKeys : PaymentKeeps(ck)

\* The calls that ask and those that record are two disjoint sets of calls.
LEMMA Sides ==
    ASSUME NEW ck
    PROVE  /\ IsFiniteSet(Asking(ck)) /\ IsFiniteSet(Recording(ck)) /\ IsFiniteSet(Calls)
           /\ Cardinality(Asking(ck)) \in Nat /\ Cardinality(Recording(ck)) \in Nat
           /\ Cardinality(Calls) \in Nat
           /\ Cardinality(Asking(ck)) + Cardinality(Recording(ck)) <= Cardinality(Calls)
<1> DEFINE A == Asking(ck)  R == Recording(ck)
<1>1. A \in SUBSET Calls /\ R \in SUBSET Calls /\ A \cap R = {} /\ A \cup R \in SUBSET Calls
  BY DEF Asking, Recording, Records
<1>2. IsFiniteSet(Calls) /\ Cardinality(Calls) \in Nat
  BY VerificationAssumption, FS_CardinalityType
<1> HIDE DEF A, R
<1>3. IsFiniteSet(A) /\ IsFiniteSet(R) /\ Cardinality(A \cup R) <= Cardinality(Calls)
  BY <1>1, <1>2, FS_Subset
<1>4. Cardinality(A) \in Nat /\ Cardinality(R) \in Nat
  BY <1>3, FS_CardinalityType
<1>5. Cardinality(A \cup R) = Cardinality(A) + Cardinality(R) - Cardinality({})
  BY <1>1, <1>3, FS_Union
<1>6. Cardinality({}) = 0
  BY FS_EmptySet
<1> QED
  BY <1>2, <1>3, <1>4, <1>5, <1>6 DEF A, R

\* The claim of a call in flight has a key among those that are counted.
LEMMA KeysCounted ==
    ASSUME NEW k, Judging(k), k.todo # {}
    PROVE  KeyOf(k) \in CacheKeys
<1>1. Turn(k) \in DOMAIN k.req
  BY TurnIsOpen
<1>2. Cited(k.req[Turn(k)], k.facts) \subseteq Units
  BY CitedUnits DEF Judging, FactsAreKept
<1>3. k.req[Turn(k)].text \in Texts
  BY <1>1 DEF Judging, RequestClaims, Texts
<1> QED
  BY <1>2, <1>3 DEF KeyOf, CacheKey, CacheKeys

\* A step of one call moves at most that call between the two sets.
LEMMA SidesMove ==
    ASSUME CallsAreSound, NEW p \in Calls, NEW k, call' = [call EXCEPT ![p] = k], NEW ck
    PROVE  /\ Asking(ck)' = IF k.pc = "ask" /\ KeyOf(k) = ck THEN Asking(ck) \cup {p}
                            ELSE Asking(ck) \ {p}
           /\ Recording(ck)' = IF k.pc \in Records /\ KeyOf(k) = ck THEN Recording(ck) \cup {p}
                               ELSE Recording(ck) \ {p}
<1>1. call'[p] = k /\ \A q \in Calls \ {p} : call'[q] = call[q]
  BY DEF CallsAreSound
<1> QED
  BY <1>1 DEF Asking, Recording

LEMMA SidesCount ==
    ASSUME NEW ck, NEW p \in Calls, NEW S \in {Asking(ck), Recording(ck)}
    PROVE  /\ Cardinality(S \cup {p}) = IF p \in S THEN Cardinality(S) ELSE Cardinality(S) + 1
           /\ Cardinality(S \ {p}) = IF p \in S THEN Cardinality(S) - 1 ELSE Cardinality(S)
           /\ Cardinality(S) \in Nat /\ Cardinality(S \ {p}) \in Nat
<1>1. IsFiniteSet(S) /\ Cardinality(S) \in Nat
  BY Sides
<1>2. IsFiniteSet(S \ {p}) /\ Cardinality(S \ {p}) \in Nat
  BY <1>1, FS_RemoveElement, FS_CardinalityType
<1> QED
  BY <1>1, <1>2, FS_AddElement, FS_RemoveElement

LEMMA PaymentsFollow ==
    ASSUME PaymentsKeep
    PROVE  PaymentsAreBounded
<1> SUFFICES ASSUME NEW ck \in CacheKeys
             PROVE  paid[ck] <= Cardinality(Calls) + lost
  BY DEF PaymentsAreBounded
<1>1. PaymentKeeps(ck) /\ paid[ck] \in Nat /\ lost \in Nat
  BY DEF PaymentsKeep
<1>2. /\ Cardinality(Asking(ck)) \in Nat /\ Cardinality(Recording(ck)) \in Nat
      /\ Cardinality(Calls) \in Nat
      /\ Cardinality(Asking(ck)) + Cardinality(Recording(ck)) <= Cardinality(Calls)
  BY Sides
<1> QED
  BY <1>1, <1>2 DEF PaymentKeeps

--------------------------------------------------------------------------------
(* The inductive invariant, step by step *)

Sound == CallsAreSound /\ ReceiptsKeep /\ PaymentsKeep

\* A call that neither asks nor records, before and after, owes nothing.
LEMMA PaymentsStill ==
    ASSUME CallsAreSound, PaymentsKeep, NEW p \in Calls, NEW k, call' = [call EXCEPT ![p] = k],
           k.pc \notin {"ask"} \cup Records, call[p].pc \notin {"ask"} \cup Records,
           UNCHANGED <<cache, paid, lost>>
    PROVE  PaymentsKeep'
<1>1. ASSUME NEW ck \in CacheKeys
      PROVE  PaymentKeeps(ck)'
  <2>1. Asking(ck)' = Asking(ck) /\ Recording(ck)' = Recording(ck)
    BY SidesMove DEF Asking, Recording
  <2> QED
    BY <2>1 DEF PaymentsKeep, PaymentKeeps
<1> QED
  BY <1>1 DEF PaymentsKeep

LEMMA Phases ==
    ASSUME CallsAreSound, NEW p \in Calls
    PROVE  /\ call[p].pc \in {"idle", "pinned"} \cup Judges
           /\ call[p].pc = "pinned" => Pinned(call[p])
           /\ call[p].pc \in Judges => Judging(call[p])
           /\ Idle.pc = "idle"
  BY DEF CallsAreSound, Idle, Pinned, Judging, Judges

LEMMA BeginStep ==
    ASSUME Sound, NEW p \in Calls, NEW req \in Requests, Begin(p, req)
    PROVE  Sound'
<1> USE DEF Sound
<1> DEFINE k == [pc |-> "pinned", req |-> req.claims, seq |-> served,
                 client |-> req.client, active |-> req.active,
                 levels |-> req.levels \union {"L0"}]
<1>1. call[p] = Idle /\ call' = [call EXCEPT ![p] = k]
  BY DEF Begin
<1>2. Pinned(k) /\ k.pc = "pinned"
  BY DEF Pinned, RequestClaims, CallsAreSound
<1> HIDE DEF k
<1>3. CallsAreSound'
  BY <1>1, <1>2, CallReplaced DEF Begin
<1>4. ReceiptsKeep'
  BY ReceiptsStay DEF Begin
<1>5. PaymentsKeep'
  BY <1>1, <1>2, Phases, PaymentsStill DEF Begin, Records
<1> QED
  BY <1>3, <1>4, <1>5

LEMMA ReadFactsStep ==
    ASSUME Sound, NEW p \in Calls, ReadFacts(p)
    PROVE  Sound'
<1> USE DEF Sound
<1> DEFINE k == call[p]
           c == Facts(k.seq, k.active)
           l2 == IF "L2" \in k.levels /\ k.active THEN L2Verdicts(k.req, c) ELSE <<>>
           eligible(i) == "L3" \in k.levels /\ L3Eligible(k.req[i], c, k.levels, l2)
           n == [pc |-> "l3", req |-> k.req, client |-> k.client, levels |-> k.levels,
                 facts |-> c, l2 |-> l2, l3 |-> <<>>, asked |-> {},
                 todo |-> {i \in DOMAIN k.req : eligible(i)}]
<1>1. k.pc = "pinned" /\ call' = [call EXCEPT ![p] = n]
  BY DEF ReadFacts
<1>2. Pinned(k)
  BY <1>1, Phases
<1>3. FactsAreKept(c)
  BY <1>2 DEF FactsAreKept, Facts, Pinned
<1>4. "L2" \in k.levels => c.seq = 0 \/ l2 = L2Verdicts(k.req, c)
  BY DEF Facts
<1>5. /\ DOMAIN n = CallFields /\ n.pc = "l3" /\ n.req = k.req /\ n.facts = c
      /\ n.levels = k.levels /\ n.l2 = l2 /\ n.asked = {}
      /\ \A i \in n.todo : i \in DOMAIN k.req /\ L3Eligible(k.req[i], c, k.levels, l2)
  BY DEF CallFields
<1> HIDE DEF n, c, l2
<1>6. Judging(n)
  BY <1>2, <1>3, <1>4, <1>5 DEF Judging, Judges, Open, Pinned
<1>7. CallsAreSound'
  BY <1>1, <1>6, CallReplaced DEF ReadFacts
<1>8. ReceiptsKeep'
  BY ReceiptsStay DEF ReadFacts
<1>9. PaymentsKeep'
  BY <1>1, <1>5, PaymentsStill DEF ReadFacts, Records
<1> QED
  BY <1>7, <1>8, <1>9

LEMMA LookUpStep ==
    ASSUME Sound, NEW p \in Calls, LookUp(p)
    PROVE  Sound'
<1> USE DEF Sound
<1> DEFINE k == call[p]  ck == KeyOf(k)
<1>1. /\ k.pc = "l3" /\ k.todo # {} /\ UNCHANGED <<served, writing, retrieved, cache, paid, lost>>
      /\ call' = [call EXCEPT ![p] = IF ck \in DOMAIN cache THEN Judged(k, cache[ck], TRUE)
                                     ELSE [k EXCEPT !.pc = "ask"]]
  BY DEF LookUp, KeyOf
<1>2. Judging(k)
  BY <1>1, Phases DEF Judges
<1>3. ReceiptsKeep'
  BY ReceiptsStay DEF LookUp
<1>4. CASE ck \in DOMAIN cache
  <2> DEFINE n == Judged(k, cache[ck], TRUE)
  <2>1. Judging(n) /\ n.pc = "l3"
    BY <1>2, JudgedIsSound
  <2>2. call' = [call EXCEPT ![p] = n]
    BY <1>1, <1>4
  <2> HIDE DEF n
  <2>3. CallsAreSound'
    BY <1>1, <2>1, <2>2, CallReplaced
  <2>4. PaymentsKeep'
    BY <1>1, <2>1, <2>2, PaymentsStill DEF Records
  <2> QED
    BY <1>3, <2>3, <2>4
<1>5. CASE ck \notin DOMAIN cache
  <2> DEFINE n == [k EXCEPT !.pc = "ask"]
  <2>1. /\ DOMAIN n = CallFields /\ n.pc = "ask" /\ n.req = k.req /\ n.facts = k.facts
        /\ n.levels = k.levels /\ n.l2 = k.l2 /\ n.asked = k.asked /\ n.todo = k.todo
    BY <1>2 DEF Judging, CallFields
  <2>2. call' = [call EXCEPT ![p] = n]
    BY <1>1, <1>5
  <2> HIDE DEF n
  <2>3. Judging(n)
    BY <1>1, <1>2, <2>1 DEF Judging, Judges, Open
  <2>4. CallsAreSound'
    BY <1>1, <2>2, <2>3, CallReplaced
  <2>5. KeyOf(n) = ck
    BY <2>1 DEF KeyOf, Turn
  <2>6. ASSUME NEW x \in CacheKeys
        PROVE  PaymentKeeps(x)'
    <3>0. CallsAreSound
      OBVIOUS
    <3> HIDE DEF ck, k, Sound
    <3>1. /\ Asking(x)' = IF x = ck THEN Asking(x) \cup {p} ELSE Asking(x) \ {p}
          /\ Recording(x)' = Recording(x) \ {p}
      BY <2>1, <2>2, <2>5, <3>0, SidesMove DEF Records
    <3>2. p \notin Recording(x) /\ p \notin Asking(x)
      BY <1>1 DEF Recording, Asking, Records, k
    <3>3. Recording(x)' = Recording(x) /\ (x # ck => Asking(x)' = Asking(x))
      BY <3>1, <3>2
    <3> QED
      BY <1>1, <1>5, <3>3 DEF PaymentsKeep, PaymentKeeps, Sound
  <2>7. PaymentsKeep'
    BY <1>1, <2>6 DEF PaymentsKeep
  <2> QED
    BY <1>3, <2>4, <2>7
<1> QED
  BY <1>4, <1>5

LEMMA AskStep ==
    ASSUME Sound, NEW p \in Calls, NEW entailed, AskVerifier(p, entailed)
    PROVE  Sound'
<1> DEFINE k == call[p]  ck == KeyOf(k)
           n == [k EXCEPT !.pc = IF entailed THEN "record_true" ELSE "record_false",
                          !.asked = @ \union {<<Turn(k), Cited(k.req[Turn(k)], k.facts)>>}]
<1>0. CallsAreSound /\ ReceiptsKeep /\ PaymentsKeep
  BY DEF Sound
<1>1. /\ k.pc = "ask" /\ UNCHANGED <<served, writing, retrieved, receipts, cache, lost>>
      /\ call' = [call EXCEPT ![p] = n] /\ paid' = [paid EXCEPT ![ck] = @ + 1]
  BY DEF AskVerifier, KeyOf
<1>2. Judging(k) /\ k.todo # {}
  BY <1>0, <1>1, Phases DEF Judges, Judging
<1>3. Turn(k) \in Open(k)
  BY <1>2, TurnIsOpen
<1>4. /\ DOMAIN n = CallFields /\ n.pc \in Records /\ n.req = k.req /\ n.facts = k.facts
      /\ n.levels = k.levels /\ n.l2 = k.l2 /\ n.todo = k.todo
      /\ n.asked = k.asked \cup {<<Turn(k), Cited(k.req[Turn(k)], k.facts)>>}
  BY <1>2 DEF Judging, CallFields, Records
<1>5. ck \in CacheKeys
  BY <1>2, KeysCounted
<1>6. p \in Asking(ck) /\ \A x : p \notin Recording(x) /\ (x # ck => p \notin Asking(x))
  BY <1>1 DEF Asking, Recording, Records
<1> HIDE DEF n
<1>7. Judging(n)
  BY <1>2, <1>3, <1>4 DEF Judging, Judges, Records, Open
<1>8. KeyOf(n) = ck /\ n.pc # "ask"
  BY <1>4 DEF KeyOf, Turn, Records
<1> HIDE DEF k, ck
<1>9. CallsAreSound'
  BY <1>0, <1>1, <1>7, CallReplaced
<1>10. ReceiptsKeep'
  BY <1>0, <1>1, ReceiptsStay
<1>11. ASSUME NEW x \in CacheKeys
       PROVE  PaymentKeeps(x)'
  <2>0. call' = [call EXCEPT ![p] = n] /\ n.pc \in Records
    BY <1>1, <1>4
  <2>1. /\ Asking(x)' = Asking(x) \ {p}
        /\ Recording(x)' = IF x = ck THEN Recording(x) \cup {p} ELSE Recording(x) \ {p}
    BY <1>0, <1>8, <2>0, SidesMove
  <2>2. /\ Cardinality(Asking(x) \ {p}) = IF p \in Asking(x) THEN Cardinality(Asking(x)) - 1
                                         ELSE Cardinality(Asking(x))
        /\ Cardinality(Recording(x) \cup {p}) = IF p \in Recording(x)
                                                THEN Cardinality(Recording(x))
                                                ELSE Cardinality(Recording(x)) + 1
        /\ Cardinality(Asking(x)) \in Nat /\ Cardinality(Recording(x)) \in Nat
        /\ Cardinality(Calls) \in Nat
    BY SidesCount, Sides
  <2>3. PaymentKeeps(x) /\ paid[x] \in Nat /\ lost \in Nat
        /\ paid'[x] = IF x = ck THEN paid[x] + 1 ELSE paid[x]
    BY <1>0, <1>1 DEF PaymentsKeep
  <2>4. CASE x = ck
    <3>1. /\ Cardinality(Asking(x)') = Cardinality(Asking(x)) - 1
          /\ Cardinality(Recording(x)') = Cardinality(Recording(x)) + 1
          /\ paid'[x] = paid[x] + 1
      BY <1>6, <2>1, <2>2, <2>3, <2>4
    <3> QED
      BY <1>1, <2>2, <2>3, <3>1 DEF PaymentKeeps
  <2>5. CASE x # ck
    <3>1. /\ Asking(x)' = Asking(x) /\ Recording(x)' = Recording(x)
          /\ paid'[x] = paid[x]
      BY <1>6, <2>1, <2>3, <2>5
    <3> QED
      BY <1>1, <2>3, <3>1 DEF PaymentKeeps
  <2> QED
    BY <2>4, <2>5
<1>12. paid' \in [CacheKeys -> Nat] /\ lost' \in Nat
  BY <1>0, <1>1, <1>5 DEF PaymentsKeep
<1>13. PaymentsKeep'
  BY <1>11, <1>12 DEF PaymentsKeep
<1> QED
  BY <1>9, <1>10, <1>13 DEF Sound

\* A call that ends leaves both sets; only a lost answer is still owed.
LEMMA CallEnds ==
    ASSUME Sound, NEW p \in Calls, call' = [call EXCEPT ![p] = Idle],
           UNCHANGED <<served, writing, retrieved, cache, paid>>, lost' \in {lost, lost + 1},
           call[p].pc \in Records => lost' = lost + 1
    PROVE  CallsAreSound' /\ PaymentsKeep'
<1>0. CallsAreSound /\ PaymentsKeep
  BY DEF Sound
<1>i. Idle.pc # "ask" /\ Idle.pc \notin Records
  BY DEF Idle, Records
<1>1. CallsAreSound'
  BY <1>0, CallReplaced
<1>2. ASSUME NEW x \in CacheKeys
      PROVE  PaymentKeeps(x)'
  <2>1. Asking(x)' = Asking(x) \ {p} /\ Recording(x)' = Recording(x) \ {p}
    BY <1>0, <1>i, SidesMove
  <2>2. /\ Cardinality(Asking(x) \ {p}) = IF p \in Asking(x) THEN Cardinality(Asking(x)) - 1
                                         ELSE Cardinality(Asking(x))
        /\ Cardinality(Recording(x) \ {p}) = IF p \in Recording(x)
                                             THEN Cardinality(Recording(x)) - 1
                                             ELSE Cardinality(Recording(x))
        /\ Cardinality(Asking(x)) \in Nat /\ Cardinality(Recording(x)) \in Nat
        /\ Cardinality(Asking(x) \ {p}) \in Nat /\ Cardinality(Recording(x) \ {p}) \in Nat
        /\ Cardinality(Calls) \in Nat
    BY SidesCount, Sides
  <2>3. PaymentKeeps(x) /\ paid[x] \in Nat /\ lost \in Nat
    BY <1>0 DEF PaymentsKeep
  <2>4. p \in Recording(x) => lost' = lost + 1
    BY DEF Recording
  <2>5. /\ Cardinality(Asking(x)') <= Cardinality(Asking(x))
        /\ Cardinality(Asking(x)') \in Nat /\ Cardinality(Recording(x)') \in Nat
        /\ Cardinality(Recording(x)) + lost <= Cardinality(Recording(x)') + lost'
    BY <2>1, <2>2, <2>3, <2>4
  <2> QED
    BY <2>2, <2>3, <2>5 DEF PaymentKeeps
<1>3. PaymentsKeep'
  BY <1>0, <1>2 DEF PaymentsKeep
<1> QED
  BY <1>1, <1>3

LEMMA AskFailsStep ==
    ASSUME Sound, NEW p \in Calls, AskFails(p)
    PROVE  Sound'
<1>1. call[p].pc \notin Records
  BY DEF AskFails, Records
<1>2. lost' \in {lost, lost + 1}
  BY DEF AskFails
<1>3. CallsAreSound' /\ PaymentsKeep'
  BY <1>1, <1>2, CallEnds DEF AskFails
<1> QED
  BY <1>3, ReceiptsStay DEF AskFails, Sound

LEMMA LoseStep ==
    ASSUME Sound, NEW p \in Calls, Lose(p)
    PROVE  Sound'
<1>1. lost' \in {lost, lost + 1} /\ lost' = lost + 1
  BY DEF Lose
<1>2. CallsAreSound' /\ PaymentsKeep'
  BY <1>1, CallEnds DEF Lose
<1> QED
  BY <1>2, ReceiptsStay DEF Lose, Sound

LEMMA IssueStep ==
    ASSUME Sound, NEW p \in Calls, Issue(p)
    PROVE  Sound'
<1> DEFINE k == call[p]
           results == [i \in DOMAIN k.req |->
                         ClaimReceipt(k.req[i], k.facts, k.levels, k.l2, k.l3)]
           r == [client |-> k.client, seq |-> k.facts.seq, req |-> k.req, levels |-> k.levels,
                 results |-> results, overall |-> Overall(results), l3 |-> k.l3,
                 asked |-> k.asked, mac |-> NoKey]
           s == [r EXCEPT !.mac = IF key = NoKey THEN NoKey ELSE MacOf(r, key)]
<1>0. CallsAreSound /\ ReceiptsKeep /\ PaymentsKeep
  BY DEF Sound
<1>1. k.pc = "l3" /\ receipts' = receipts \union {s} /\ retrieved' = retrieved
  BY DEF Issue, ResultsOf, Unsigned, Signed
<1>2. Judging(k)
  BY <1>0, <1>1, Phases DEF Judges
<1>3. /\ s.req = k.req /\ s.seq = k.facts.seq /\ s.levels = k.levels /\ s.asked = k.asked
      /\ s.results = results /\ s.overall = Overall(s.results)
  OBVIOUS
<1> HIDE DEF s
<1>4. ReceiptKeeps(s)
  BY <1>2, <1>3, IssuedKeeps
<1>s. \A x : ReceiptKeeps(x) => ReceiptKeeps(x)'
  BY <1>1 DEF ReceiptKeeps, FactHolds
<1>5. ReceiptsKeep'
  BY <1>0, <1>1, <1>4, <1>s DEF ReceiptsKeep
<1>6. call[p].pc \notin Records /\ lost' \in {lost, lost + 1}
  BY <1>1 DEF Issue, Records
<1>7. CallsAreSound' /\ PaymentsKeep'
  BY <1>6, CallEnds DEF Issue
<1> QED
  BY <1>5, <1>7 DEF Sound

\* The first verdict under a key is there to stay.
LEMMA RecordStep ==
    ASSUME Sound, NEW p \in Calls, Record(p)
    PROVE  Sound'
<1> DEFINE k == call[p]  ck == KeyOf(k)  n == Judged(k, k.pc = "record_true", FALSE)
<1>0. CallsAreSound /\ ReceiptsKeep /\ PaymentsKeep
  BY DEF Sound
<1>1. /\ k.pc \in Records /\ UNCHANGED <<served, writing, retrieved, receipts, paid, lost>>
      /\ call' = [call EXCEPT ![p] = n] /\ cache' = Stored(ck, k.pc = "record_true")
  BY DEF Record, KeyOf, Records
<1>2. Judging(k)
  BY <1>0, <1>1, Phases DEF Judges, Records
<1>3. Judging(n) /\ n.pc = "l3"
  <2>1. \A v, hit : Judging(Judged(k, v, hit)) /\ Judged(k, v, hit).pc = "l3"
    BY <1>2, JudgedIsSound
  <2> QED
    BY <2>1
<1>4. DOMAIN cache' = DOMAIN cache \cup {ck}
  BY <1>1 DEF Stored
<1>5. \A x : p \notin Asking(x) /\ (x # ck => p \notin Recording(x))
  BY <1>1 DEF Asking, Recording, Records
<1> HIDE DEF k, ck, n
<1>6. CallsAreSound'
  BY <1>0, <1>1, <1>3, CallReplaced
<1>7. ReceiptsKeep'
  BY <1>0, <1>1, ReceiptsStay
<1>8. ASSUME NEW x \in CacheKeys
      PROVE  PaymentKeeps(x)'
  <2>1. call' = [call EXCEPT ![p] = n] /\ n.pc \notin {"ask"} \cup Records
    BY <1>1, <1>3 DEF Records
  <2>2. Asking(x)' = Asking(x) \ {p} /\ Recording(x)' = Recording(x) \ {p}
    BY <1>0, <2>1, SidesMove
  <2>3. Asking(x)' = Asking(x) /\ (x # ck => Recording(x)' = Recording(x))
    BY <1>5, <2>2
  <2>4. /\ Cardinality(Asking(x)) \in Nat /\ Cardinality(Recording(x)) \in Nat
        /\ Cardinality(Calls) \in Nat
        /\ Cardinality(Asking(x)) + Cardinality(Recording(x)) <= Cardinality(Calls)
    BY Sides
  <2>5. PaymentKeeps(x) /\ paid[x] \in Nat /\ lost \in Nat
    BY <1>0 DEF PaymentsKeep
  <2>6. CASE x = ck
    BY <1>1, <1>4, <2>3, <2>4, <2>5, <2>6 DEF PaymentKeeps
  <2>7. CASE x # ck
    BY <1>1, <1>4, <2>3, <2>5, <2>7 DEF PaymentKeeps
  <2> QED
    BY <2>6, <2>7
<1>9. PaymentsKeep'
  BY <1>0, <1>1, <1>8 DEF PaymentsKeep
<1> QED
  BY <1>6, <1>7, <1>9 DEF Sound

\* Steps of the platform around the calls.
LEMMA PlatformStep ==
    ASSUME Sound, UNCHANGED <<cache, paid, call, lost, receipts>>,
           served' \in Nat, writing' \in Nat, retrieved \subseteq retrieved'
    PROVE  Sound'
<1>0. CallsAreSound /\ ReceiptsKeep /\ PaymentsKeep
  BY DEF Sound
<1>1. \A c : FactsAreKept(c) => FactsAreKept(c)'
  BY DEF FactsAreKept
<1>2. CallsAreSound'
  BY <1>0, <1>1 DEF CallsAreSound, Pinned, Judging, Open
<1>3. ReceiptsKeep'
  BY <1>0, ReceiptsStay
<1>4. PaymentsKeep'
  BY <1>0 DEF PaymentsKeep, PaymentKeeps, Asking, Recording
<1> QED
  BY <1>2, <1>3, <1>4 DEF Sound

LEMMA SoundInit ==
    ASSUME VerifyInit
    PROVE  Sound
<1>1. CallsAreSound
  BY DEF VerifyInit, CallsAreSound
<1>2. ReceiptsKeep
  BY DEF VerifyInit, ReceiptsKeep
<1>3. ASSUME NEW ck \in CacheKeys
      PROVE  PaymentKeeps(ck)
  <2>1. paid[ck] = 0 /\ lost = 0 /\ ck \notin DOMAIN cache
    BY DEF VerifyInit
  <2>2. Cardinality(Recording(ck)) \in Nat
    BY Sides
  <2> QED
    BY <2>1, <2>2 DEF PaymentKeeps
<1>4. PaymentsKeep
  BY <1>3 DEF VerifyInit, PaymentsKeep
<1> QED
  BY <1>1, <1>2, <1>4 DEF Sound

LEMMA SoundStep ==
    ASSUME Sound, [VerifyNext]_verifyVars
    PROVE  Sound'
<1>0. served \in Nat /\ writing \in Nat
  BY DEF Sound, CallsAreSound
<1>1. ASSUME NEW p \in Calls,
             \/ \E r \in Requests : Begin(p, r)
             \/ ReadFacts(p) \/ LookUp(p) \/ AskFails(p) \/ Record(p) \/ Lose(p)
             \/ Issue(p)
             \/ \E v \in Verdicts : AskVerifier(p, v)
      PROVE  Sound'
  BY <1>1, BeginStep, ReadFactsStep, LookUpStep, AskFailsStep, RecordStep, LoseStep,
     IssueStep, AskStep
<1>2. ASSUME NEW u \in Found, Retrieve(u)
      PROVE  Sound'
  BY <1>0, <1>2, PlatformStep DEF Retrieve
<1>3. ASSUME NEW u \in Units, SourceGone(u)
      PROVE  Sound'
  BY <1>0, <1>3, PlatformStep DEF SourceGone
<1>4. CASE BuildBegins
  BY <1>0, <1>4, PlatformStep DEF BuildBegins
<1>5. CASE Activate
  BY <1>0, <1>5, PlatformStep DEF Activate
<1>6. ASSUME NEW k, SetKey(k)
      PROVE  Sound'
  BY <1>0, <1>6, PlatformStep DEF SetKey
<1>7. CASE UNCHANGED verifyVars
  BY <1>0, <1>7, PlatformStep DEF verifyVars
<1> QED
  BY <1>1, <1>2, <1>3, <1>4, <1>5, <1>6, <1>7 DEF VerifyNext

--------------------------------------------------------------------------------

\* Whatever the calls, the builder and the operator do, and in whatever order: a
\* claim passes only on evidence of the version of its receipt that the requester may
\* see and was given, an adjudicated assertion of a passed claim is true there, a
\* failure has its reason, the model is asked only about what is still open and is
\* paid once per key but for calls that missed together or lost its answer, and a
\* receipt is trusted only with the signature of the present key over a full pass.
THEOREM ReceiptSafety == VerifySpec => []ReceiptsAreSound
<1>1. VerifyInit => Sound
  BY SoundInit
<1>2. Sound /\ [VerifyNext]_verifyVars => Sound'
  BY SoundStep
<1>3. Sound => ReceiptsAreSound
  <2>1. Sound => ReceiptsStandOnEvidence
    BY DEF Sound, ReceiptsKeep, ReceiptKeeps, ReceiptsStandOnEvidence
  <2>2. Sound => PassedFactsHold
    BY DEF Sound, ReceiptsKeep, ReceiptKeeps, PassedFactsHold, IdsDiffer
  <2>3. Sound => FailuresAreExplained
    BY DEF Sound, ReceiptsKeep, ReceiptKeeps, FailuresAreExplained
  <2>4. Sound => OnlyUnresolvedAreJudged
    BY DEF Sound, ReceiptsKeep, ReceiptKeeps, OnlyUnresolvedAreJudged
  <2> QED
    BY <2>1, <2>2, <2>3, <2>4, PaymentsFollow, TrustFollows DEF Sound, ReceiptsAreSound
<1> QED
  BY <1>1, <1>2, <1>3, PTL DEF VerifySpec

\* The verdict recorded first under a key is the verdict of every later call
\* (ON CONFLICT DO NOTHING in record_entailment).
THEOREM FirstVerdictStays == VerifySpec => VerdictsAreKept
<1>1. [VerifyNext]_verifyVars
        => [\A ck \in DOMAIN cache : ck \in DOMAIN cache' /\ cache'[ck] = cache[ck]]_cache
  <2> SUFFICES ASSUME [VerifyNext]_verifyVars, cache' # cache
               PROVE  \A ck \in DOMAIN cache : ck \in DOMAIN cache' /\ cache'[ck] = cache[ck]
    OBVIOUS
  <2>1. PICK p \in Calls : Record(p)
    BY DEF VerifyNext, verifyVars, Begin, ReadFacts, LookUp, AskVerifier, AskFails, Lose, Issue,
           Retrieve, BuildBegins, SourceGone, Activate, SetKey
  <2>2. PICK ck, v : cache' = Stored(ck, v)
    BY <2>1 DEF Record
  <2> QED
    BY <2>2 DEF Stored
<1> QED
  BY <1>1, PTL DEF VerifySpec, VerdictsAreKept

--------------------------------------------------------------------------------
(* The task context: trimming *)

Sources == {"hint", "alias_index", "search"}
Founds == [id : Arts, src : Sources, tier : Tiers]
Entries == [id : Arts, edge : ToSet(Links), tier : Tiers]
\* What an alias or a hint may point at.
Pointed == Arts \union UNION {ToSet(AliasTargets[a]) : a \in {x \in Arts : Art[x].type = "alias_reference"}}
Responses == [entities : Seq(Founds), ambiguous : Seq(Seq(Pointed)), prior : Seq(Arts), conventions : Seq(Arts),
              callees : Seq(Entries), callers : Seq(Entries), tests : Seq(Entries)]

\* Responses are told apart by what they show.
LEMMA SameResponse ==
    ASSUME NEW r \in Responses, NEW q \in Responses,
           r.entities = q.entities, r.ambiguous = q.ambiguous, r.prior = q.prior, r.conventions = q.conventions,
           r.callees = q.callees, r.callers = q.callers, r.tests = q.tests
    PROVE  r = q
<1>1. r = [entities |-> r.entities, ambiguous |-> r.ambiguous, prior |-> r.prior, conventions |-> r.conventions,
           callees |-> r.callees, callers |-> r.callers, tests |-> r.tests]
  BY DEF Responses
<1>2. q = [entities |-> q.entities, ambiguous |-> q.ambiguous, prior |-> q.prior, conventions |-> q.conventions,
           callees |-> q.callees, callers |-> q.callers, tests |-> q.tests]
  BY DEF Responses
<1> QED
  BY <1>1, <1>2, Zenon

\* A sequence has finitely many elements.
LEMMA FewElements ==
    ASSUME NEW A, NEW s \in Seq(A)
    PROVE  IsFiniteSet(ToSet(s)) /\ ToSet(s) \subseteq A /\ Len(s) \in Nat /\ DOMAIN s = 1 .. Len(s)
<1>1. DOMAIN s = 1 .. Len(s) /\ Len(s) \in Nat /\ \A i \in DOMAIN s : s[i] \in A
  OBVIOUS
<1>2. IsFiniteSet(DOMAIN s)
  BY <1>1, FS_Interval
<1> DEFINE f == [i \in DOMAIN s |-> s[i]]
<1>3. f \in Surjection(DOMAIN s, ToSet(s))
  BY DEF ToSet, Surjection
<1> HIDE DEF f
<1>4. IsFiniteSet(ToSet(s))
  BY <1>2, <1>3, FS_Surjection
<1> QED
  BY <1>1, <1>4 DEF ToSet

\* Sums.
LEMMA Sums ==
    ASSUME NEW p \in Nat, NEW c \in Nat, NEW o \in Nat, NEW i \in Nat, NEW t \in Nat
    PROVE  p + c \in Nat /\ p + c + o \in Nat /\ p + c + o + i \in Nat /\ p + c + o + i + t \in Nat
  OBVIOUS

\* The size of a response is a number.
LEMMA SizeFits ==
    ASSUME NEW r \in Responses
    PROVE  /\ Size(r) \in Nat /\ Items(r) \in Nat
           /\ Len(r.prior) \in Nat /\ Len(r.conventions) \in Nat /\ Len(r.callees) \in Nat
           /\ Len(r.callers) \in Nat /\ Len(r.tests) \in Nat
<1>1. /\ r.entities \in Seq(Founds) /\ r.ambiguous \in Seq(Seq(Pointed)) /\ r.prior \in Seq(Arts)
      /\ r.conventions \in Seq(Arts) /\ r.callees \in Seq(Entries) /\ r.callers \in Seq(Entries)
      /\ r.tests \in Seq(Entries)
  BY DEF Responses
<1>2. /\ Len(r.entities) \in Nat /\ Len(r.ambiguous) \in Nat /\ Len(r.prior) \in Nat /\ Len(r.conventions) \in Nat
      /\ Len(r.callees) \in Nat /\ Len(r.callers) \in Nat /\ Len(r.tests) \in Nat
  BY <1>1, FewElements
<1> DEFINE S == ToSet(r.callers) \union ToSet(r.callees) \union ToSet(r.tests)
<1>3. IsFiniteSet(S)
  BY <1>1, FewElements, FS_Union
<1> DEFINE f == [e \in S |-> Art[e.id].path]
<1>4. f \in Surjection(S, Paths(r))
  BY DEF Paths, Surjection
<1> HIDE DEF f, S
<1>5. Cardinality(Paths(r)) \in Nat
  BY <1>3, <1>4, FS_Surjection, FS_CardinalityType
<1>6. Items(r) \in Nat
  <2> DEFINE a == Len(r.prior)
             b == Len(r.conventions)
             c == Len(r.callees)
             d == Len(r.callers)
             e == Len(r.tests)
  <2>1. Items(r) = a + b + c + d + e
    BY Zenon DEF Items
  <2>2. a \in Nat /\ b \in Nat /\ c \in Nat /\ d \in Nat /\ e \in Nat
    BY <1>2
  <2> HIDE DEF a, b, c, d, e
  <2> QED
    BY <2>1, <2>2
<1>7. Len(r.entities) + Len(r.ambiguous) \in Nat
  BY <1>2, Sums, Zenon
<1> DEFINE a == Len(r.entities) + Len(r.ambiguous)
           b == Cardinality(Paths(r))
           c == Items(r)
<1>8. a + b + c \in Nat
  <2>1. a \in Nat /\ b \in Nat /\ c \in Nat
    BY <1>5, <1>6, <1>7
  <2> HIDE DEF a, b, c
  <2> QED
    BY <2>1
<1>9. Size(r) = a + b + c
  BY Zenon DEF Size
<1> QED
  BY <1>2, <1>6, <1>8, <1>9, Zenon

\* How many of a list of n items remain when so many are dropped after those before it.
Remain(n, dropped, before) ==
  n - (IF dropped <= before THEN 0 ELSE IF dropped - before < n THEN dropped - before ELSE n)

\* A list without its end.
LEMMA WithoutFits ==
    ASSUME NEW A, NEW s \in Seq(A), NEW dropped \in Nat, NEW before \in Nat
    PROVE  /\ Remain(Len(s), dropped, before) \in 0 .. Len(s)
           /\ Without(s, dropped, before) \in Seq(A)
           /\ Len(Without(s, dropped, before)) = Remain(Len(s), dropped, before)
           /\ Without(s, dropped, before) = SubSeq(s, 1, Remain(Len(s), dropped, before))
<1>1. Remain(Len(s), dropped, before) \in 0 .. Len(s)
  BY DEF Remain
<1>2. Without(s, dropped, before) = SubSeq(s, 1, Remain(Len(s), dropped, before))
  BY DEF Without, Remain
<1> DEFINE m == Remain(Len(s), dropped, before)
<1>3. /\ SubSeq(s, 1, m) \in Seq(A) /\ Len(SubSeq(s, 1, m)) = m
  <2>1. m \in 0 .. Len(s)
    BY <1>1
  <2> HIDE DEF m
  <2> QED
    BY <2>1, PrefixFits
<1> QED
  BY <1>1, <1>2, <1>3, Zenon

\* What is left of a response.
LeftOf(q, r, n) ==
  /\ q \in Responses /\ q.entities = r.entities /\ q.ambiguous = r.ambiguous
  /\ q.prior = SubSeq(r.prior, 1, Remain(Len(r.prior), n, 0))
  /\ Len(q.prior) = Remain(Len(r.prior), n, 0)
  /\ q.conventions = SubSeq(r.conventions, 1, Remain(Len(r.conventions), n, Len(r.prior)))
  /\ Len(q.conventions) = Remain(Len(r.conventions), n, Len(r.prior))
  /\ q.callees = SubSeq(r.callees, 1, Remain(Len(r.callees), n, Len(r.prior) + Len(r.conventions)))
  /\ Len(q.callees) = Remain(Len(r.callees), n, Len(r.prior) + Len(r.conventions))
  /\ q.callers = SubSeq(r.callers, 1, Remain(Len(r.callers), n, Len(r.prior) + Len(r.conventions) + Len(r.callees)))
  /\ Len(q.callers) = Remain(Len(r.callers), n, Len(r.prior) + Len(r.conventions) + Len(r.callees))
  /\ q.tests = SubSeq(r.tests, 1, Remain(Len(r.tests), n,
                 Len(r.prior) + Len(r.conventions) + Len(r.callees) + Len(r.callers)))
  /\ Len(q.tests) = Remain(Len(r.tests), n, Len(r.prior) + Len(r.conventions) + Len(r.callees) + Len(r.callers))

\* A response without its cheapest items is one.
LEMMA DropFits ==
    ASSUME NEW r \in Responses, NEW n \in Nat
    PROVE  LeftOf(Dropping(r, n), r, n)
<1> DEFINE a == Len(r.prior)
           b == Len(r.prior) + Len(r.conventions)
           c == Len(r.prior) + Len(r.conventions) + Len(r.callees)
           d == Len(r.prior) + Len(r.conventions) + Len(r.callees) + Len(r.callers)
           sp == r.prior
           sc == r.conventions
           so == r.callees
           si == r.callers
           st == r.tests
           pr == Without(sp, n, 0)
           co == Without(sc, n, a)
           oe == Without(so, n, b)
           ie == Without(si, n, c)
           te == Without(st, n, d)
           q == [r EXCEPT !.prior = pr, !.conventions = co, !.callees = oe, !.callers = ie, !.tests = te]
<1>1. /\ sp \in Seq(Arts) /\ sc \in Seq(Arts) /\ so \in Seq(Entries) /\ si \in Seq(Entries)
      /\ st \in Seq(Entries)
  BY DEF Responses
<1>2. 0 \in Nat /\ a \in Nat /\ b \in Nat /\ c \in Nat /\ d \in Nat
  BY SizeFits, Sums, Zenon
<1>3. Dropping(r, n) = q
  BY Zenon DEF Dropping, q, pr, co, oe, ie, te, a, b, c, d, sp, sc, so, si, st
<1> HIDE DEF a, b, c, d, sp, sc, so, si, st
<1>4. /\ pr \in Seq(Arts) /\ pr = SubSeq(sp, 1, Remain(Len(sp), n, 0)) /\ Len(pr) = Remain(Len(sp), n, 0)
  <2>1. sp \in Seq(Arts) /\ n \in Nat /\ 0 \in Nat
    BY <1>1, <1>2
  <2>2. pr = Without(sp, n, 0)
    OBVIOUS
  <2> HIDE DEF pr
  <2> QED
    BY <2>1, <2>2, WithoutFits
<1>5. /\ co \in Seq(Arts) /\ co = SubSeq(sc, 1, Remain(Len(sc), n, a))
      /\ Len(co) = Remain(Len(sc), n, a)
  <2>1. sc \in Seq(Arts) /\ n \in Nat /\ a \in Nat
    BY <1>1, <1>2
  <2>2. co = Without(sc, n, a)
    OBVIOUS
  <2> HIDE DEF co
  <2> QED
    BY <2>1, <2>2, WithoutFits
<1>6. /\ oe \in Seq(Entries) /\ oe = SubSeq(so, 1, Remain(Len(so), n, b))
      /\ Len(oe) = Remain(Len(so), n, b)
  <2>1. so \in Seq(Entries) /\ n \in Nat /\ b \in Nat
    BY <1>1, <1>2
  <2>2. oe = Without(so, n, b)
    OBVIOUS
  <2> HIDE DEF oe
  <2> QED
    BY <2>1, <2>2, WithoutFits
<1>7. /\ ie \in Seq(Entries) /\ ie = SubSeq(si, 1, Remain(Len(si), n, c))
      /\ Len(ie) = Remain(Len(si), n, c)
  <2>1. si \in Seq(Entries) /\ n \in Nat /\ c \in Nat
    BY <1>1, <1>2
  <2>2. ie = Without(si, n, c)
    OBVIOUS
  <2> HIDE DEF ie
  <2> QED
    BY <2>1, <2>2, WithoutFits
<1>8. /\ te \in Seq(Entries) /\ te = SubSeq(st, 1, Remain(Len(st), n, d))
      /\ Len(te) = Remain(Len(st), n, d)
  <2>1. st \in Seq(Entries) /\ n \in Nat /\ d \in Nat
    BY <1>1, <1>2
  <2>2. te = Without(st, n, d)
    OBVIOUS
  <2> HIDE DEF te
  <2> QED
    BY <2>1, <2>2, WithoutFits
<1> HIDE DEF pr, co, oe, ie, te
<1>9. /\ q \in Responses /\ q.entities = r.entities /\ q.ambiguous = r.ambiguous /\ q.prior = pr /\ q.conventions = co
      /\ q.callees = oe /\ q.callers = ie /\ q.tests = te
  BY <1>4, <1>5, <1>6, <1>7, <1>8 DEF Responses
<1> HIDE DEF q
<1>10. LeftOf(q, r, n)
  BY <1>4, <1>5, <1>6, <1>7, <1>8, <1>9, Zenon DEF LeftOf, a, b, c, d, sp, sc, so, si, st
<1> QED
  BY <1>3, <1>10

--------------------------------------------------------------------------------
\* A response, trimmed, against what it is trimmed of.
Spared(q, f, cap) ==
  /\ q.entities = f.entities /\ q.ambiguous = f.ambiguous
  /\ Size(q) <= cap \/ ~Trimmable(q)
  /\ \A i \in DOMAIN Buckets :
       /\ IsPrefix(q[Buckets[i]], f[Buckets[i]])
       /\ Len(q[Buckets[i]]) < Len(f[Buckets[i]]) => \A j \in 1..(i - 1) : q[Buckets[j]] = <<>>
  /\ \A b \in ToSet(Buckets) :
       Len(q[b]) < Len(f[b]) => Size([q EXCEPT ![b] = SubSeq(f[b], 1, Len(@) + 1)]) > cap
                                \/ \E c \in ToSet(Buckets) \ {b} : Len(q[c]) < Len(f[c])

\* The lists, from the cheapest on.
LEMMA BucketsAre ==
    /\ DOMAIN Buckets = 1 .. 5 /\ Buckets[1] = "prior" /\ Buckets[2] = "conventions" /\ Buckets[3] = "callees"
    /\ Buckets[4] = "callers" /\ Buckets[5] = "tests"
    /\ ToSet(Buckets) = {"prior", "conventions", "callees", "callers", "tests"}
<1>1. Len(Buckets) = 5 /\ DOMAIN Buckets = 1 .. 5
  BY DEF Buckets
<1>2. /\ Buckets[1] = "prior" /\ Buckets[2] = "conventions" /\ Buckets[3] = "callees"
      /\ Buckets[4] = "callers" /\ Buckets[5] = "tests"
  BY DEF Buckets
<1>3. 1 .. 5 = {1, 2, 3, 4, 5}
  OBVIOUS
<1> QED
  BY <1>1, <1>2, <1>3 DEF ToSet

\* How many items are dropped.
LEMMA TrimStops ==
    ASSUME NEW r \in Responses, NEW cap \in Int
    PROVE  \E n \in 0 .. Items(r) :
             /\ Trim(r, cap) = Dropping(r, n)
             /\ Size(Dropping(r, n)) <= cap \/ n = Items(r)
             /\ n > 0 => Size(Dropping(r, n - 1)) > cap
<1> DEFINE fits == {n \in 0 .. Items(r) : Size(Dropping(r, n)) <= cap}
           m == IF fits = {} THEN Items(r) ELSE Min(fits)
<1>1. Items(r) \in Nat
  BY SizeFits
<1>2. Trim(r, cap) = Dropping(r, m)
  BY Zenon DEF Trim, m, fits
<1>3. fits # {} => Min(fits) \in fits /\ \A y \in fits : Min(fits) <= y
  <2>1. fits \in SUBSET (0 .. Items(r))
    OBVIOUS
  <2> HIDE DEF fits
  <2> QED
    BY <1>1, <2>1, MinOfSome
<1>4. \A n \in 0 .. Items(r) : Size(Dropping(r, n)) \in Nat
  <2>1. ASSUME NEW n \in 0 .. Items(r) PROVE Size(Dropping(r, n)) \in Nat
    <3>1. LeftOf(Dropping(r, n), r, n)
      BY <1>1, DropFits
    <3>2. Dropping(r, n) \in Responses
      BY <3>1 DEF LeftOf
    <3> HIDE DEF fits
    <3> QED
      BY <3>2, SizeFits, Zenon
  <2> QED
    BY <2>1
<1>5. m \in 0 .. Items(r) /\ (Size(Dropping(r, m)) <= cap \/ m = Items(r))
  BY <1>1, <1>3
<1>6. ASSUME m > 0 PROVE Size(Dropping(r, m - 1)) > cap
  <2>1. m - 1 \in 0 .. Items(r) /\ m - 1 < m
    BY <1>1, <1>5, <1>6
  <2>2. m - 1 \notin fits
    BY <1>1, <1>3, <1>5, <2>1
  <2>3. ~ (Size(Dropping(r, m - 1)) <= cap) /\ Size(Dropping(r, m - 1)) \in Nat
    BY <1>4, <2>1, <2>2
  <2> QED
    BY <2>3
<1> HIDE DEF m
<1> QED
  BY <1>2, <1>5, <1>6

\* A list cut to its own length is the list.
LEMMA UncutIsAll ==
    ASSUME NEW A, NEW s \in Seq(A)
    PROVE  SubSeq(s, 1, Len(s)) = s
  OBVIOUS

\* One item less dropped, where only the list of prior changes is cut.
LEMMA LongerBy_prior ==
    ASSUME NEW r \in Responses, NEW n \in 0 .. Items(r), NEW q, LeftOf(q, r, n), Len(q.prior) < Len(r.prior),
           Len(q.conventions) = Len(r.conventions), Len(q.callees) = Len(r.callees), Len(q.callers) = Len(r.callers), Len(q.tests) = Len(r.tests)
    PROVE  n > 0 /\ [q EXCEPT !.prior = SubSeq(r.prior, 1, Len(@) + 1)] = Dropping(r, n - 1)
<1> DEFINE p == Len(r.prior)
           c == Len(r.conventions)
           o == Len(r.callees)
           i == Len(r.callers)
           t == Len(r.tests)
           P == Len(q.prior)
           C == Len(q.conventions)
           O == Len(q.callees)
           I == Len(q.callers)
           T == Len(q.tests)
           d == Dropping(r, n - 1)
           x == [q EXCEPT !.prior = SubSeq(r.prior, 1, Len(q.prior) + 1)]
<1>1. p \in Nat /\ c \in Nat /\ o \in Nat /\ i \in Nat /\ t \in Nat /\ Items(r) = p + c + o + i + t
  BY SizeFits, Zenon DEF Items, p, c, o, i, t
<1>2. /\ P = Remain(p, n, 0) /\ C = Remain(c, n, p) /\ O = Remain(o, n, p + c) /\ I = Remain(i, n, p + c + o)
      /\ T = Remain(t, n, p + c + o + i)
  BY Zenon DEF LeftOf
<1>3. P < p /\ C = c /\ O = o /\ I = i /\ T = t
  OBVIOUS
<1> HIDE DEF p, c, o, i, t, P, C, O, I, T
<1>4. /\ n > 0 /\ Remain(p, n - 1, 0) = P + 1 /\ Remain(c, n - 1, p) = C /\ Remain(o, n - 1, p + c) = O
      /\ Remain(i, n - 1, p + c + o) = I /\ Remain(t, n - 1, p + c + o + i) = T
      /\ P \in 0 .. p
  <2>1. n \in 0 .. p + c + o + i + t
    BY <1>1
  <2> QED
    BY <1>1, <1>2, <1>3, <2>1 DEF Remain
<1>5. n - 1 \in Nat
  BY <1>1, <1>4
<1>6. LeftOf(d, r, n - 1)
  BY <1>5, DropFits
<1>7. /\ d \in Responses /\ q \in Responses /\ d.entities = q.entities /\ d.ambiguous = q.ambiguous
  BY <1>6, Zenon DEF LeftOf
<1>8. /\ d.conventions = SubSeq(r.conventions, 1, C) /\ d.callees = SubSeq(r.callees, 1, O) /\ d.callers = SubSeq(r.callers, 1, I) /\ d.tests = SubSeq(r.tests, 1, T)
  BY <1>4, <1>6, Zenon DEF LeftOf, p, c, o, i, t
<1>9. /\ q.conventions = SubSeq(r.conventions, 1, C) /\ q.callees = SubSeq(r.callees, 1, O) /\ q.callers = SubSeq(r.callers, 1, I) /\ q.tests = SubSeq(r.tests, 1, T)
  BY <1>2, <1>3, Zenon DEF LeftOf, p, c, o, i, t, P, C, O, I, T
<1>10. d.prior = SubSeq(r.prior, 1, P + 1)
  BY <1>4, <1>6, Zenon DEF LeftOf, p, c, o, i, t
<1>11. x = [q EXCEPT !.prior = d.prior]
  BY <1>10, Zenon DEF P
<1> HIDE DEF d, x
<1>12. /\ x \in Responses /\ x.prior = d.prior /\ x.entities = q.entities /\ x.ambiguous = q.ambiguous
       /\ x.conventions = q.conventions /\ x.callees = q.callees /\ x.callers = q.callers /\ x.tests = q.tests
  BY <1>7, <1>11 DEF Responses
<1>13. x = d
  BY <1>7, <1>8, <1>9, <1>12, SameResponse
<1>14. [q EXCEPT !.prior = SubSeq(r.prior, 1, Len(@) + 1)] = x
  BY Zenon DEF x
<1> QED
  BY <1>4, <1>13, <1>14 DEF d

\* One item less dropped, where only the list of conventions is cut.
LEMMA LongerBy_conventions ==
    ASSUME NEW r \in Responses, NEW n \in 0 .. Items(r), NEW q, LeftOf(q, r, n), Len(q.conventions) < Len(r.conventions),
           Len(q.prior) = Len(r.prior), Len(q.callees) = Len(r.callees), Len(q.callers) = Len(r.callers), Len(q.tests) = Len(r.tests)
    PROVE  n > 0 /\ [q EXCEPT !.conventions = SubSeq(r.conventions, 1, Len(@) + 1)] = Dropping(r, n - 1)
<1> DEFINE p == Len(r.prior)
           c == Len(r.conventions)
           o == Len(r.callees)
           i == Len(r.callers)
           t == Len(r.tests)
           P == Len(q.prior)
           C == Len(q.conventions)
           O == Len(q.callees)
           I == Len(q.callers)
           T == Len(q.tests)
           d == Dropping(r, n - 1)
           x == [q EXCEPT !.conventions = SubSeq(r.conventions, 1, Len(q.conventions) + 1)]
<1>1. p \in Nat /\ c \in Nat /\ o \in Nat /\ i \in Nat /\ t \in Nat /\ Items(r) = p + c + o + i + t
  BY SizeFits, Zenon DEF Items, p, c, o, i, t
<1>2. /\ P = Remain(p, n, 0) /\ C = Remain(c, n, p) /\ O = Remain(o, n, p + c) /\ I = Remain(i, n, p + c + o)
      /\ T = Remain(t, n, p + c + o + i)
  BY Zenon DEF LeftOf
<1>3. P = p /\ C < c /\ O = o /\ I = i /\ T = t
  OBVIOUS
<1> HIDE DEF p, c, o, i, t, P, C, O, I, T
<1>4. /\ n > 0 /\ Remain(p, n - 1, 0) = P /\ Remain(c, n - 1, p) = C + 1 /\ Remain(o, n - 1, p + c) = O
      /\ Remain(i, n - 1, p + c + o) = I /\ Remain(t, n - 1, p + c + o + i) = T
      /\ C \in 0 .. c
  <2>1. n \in 0 .. p + c + o + i + t
    BY <1>1
  <2> QED
    BY <1>1, <1>2, <1>3, <2>1 DEF Remain
<1>5. n - 1 \in Nat
  BY <1>1, <1>4
<1>6. LeftOf(d, r, n - 1)
  BY <1>5, DropFits
<1>7. /\ d \in Responses /\ q \in Responses /\ d.entities = q.entities /\ d.ambiguous = q.ambiguous
  BY <1>6, Zenon DEF LeftOf
<1>8. /\ d.prior = SubSeq(r.prior, 1, P) /\ d.callees = SubSeq(r.callees, 1, O) /\ d.callers = SubSeq(r.callers, 1, I) /\ d.tests = SubSeq(r.tests, 1, T)
  BY <1>4, <1>6, Zenon DEF LeftOf, p, c, o, i, t
<1>9. /\ q.prior = SubSeq(r.prior, 1, P) /\ q.callees = SubSeq(r.callees, 1, O) /\ q.callers = SubSeq(r.callers, 1, I) /\ q.tests = SubSeq(r.tests, 1, T)
  BY <1>2, <1>3, Zenon DEF LeftOf, p, c, o, i, t, P, C, O, I, T
<1>10. d.conventions = SubSeq(r.conventions, 1, C + 1)
  BY <1>4, <1>6, Zenon DEF LeftOf, p, c, o, i, t
<1>11. x = [q EXCEPT !.conventions = d.conventions]
  BY <1>10, Zenon DEF C
<1> HIDE DEF d, x
<1>12. /\ x \in Responses /\ x.conventions = d.conventions /\ x.entities = q.entities /\ x.ambiguous = q.ambiguous
       /\ x.prior = q.prior /\ x.callees = q.callees /\ x.callers = q.callers /\ x.tests = q.tests
  BY <1>7, <1>11 DEF Responses
<1>13. x = d
  BY <1>7, <1>8, <1>9, <1>12, SameResponse
<1>14. [q EXCEPT !.conventions = SubSeq(r.conventions, 1, Len(@) + 1)] = x
  BY Zenon DEF x
<1> QED
  BY <1>4, <1>13, <1>14 DEF d

\* One item less dropped, where only the list of callees is cut.
LEMMA LongerBy_callees ==
    ASSUME NEW r \in Responses, NEW n \in 0 .. Items(r), NEW q, LeftOf(q, r, n), Len(q.callees) < Len(r.callees),
           Len(q.prior) = Len(r.prior), Len(q.conventions) = Len(r.conventions), Len(q.callers) = Len(r.callers), Len(q.tests) = Len(r.tests)
    PROVE  n > 0 /\ [q EXCEPT !.callees = SubSeq(r.callees, 1, Len(@) + 1)] = Dropping(r, n - 1)
<1> DEFINE p == Len(r.prior)
           c == Len(r.conventions)
           o == Len(r.callees)
           i == Len(r.callers)
           t == Len(r.tests)
           P == Len(q.prior)
           C == Len(q.conventions)
           O == Len(q.callees)
           I == Len(q.callers)
           T == Len(q.tests)
           d == Dropping(r, n - 1)
           x == [q EXCEPT !.callees = SubSeq(r.callees, 1, Len(q.callees) + 1)]
<1>1. p \in Nat /\ c \in Nat /\ o \in Nat /\ i \in Nat /\ t \in Nat /\ Items(r) = p + c + o + i + t
  BY SizeFits, Zenon DEF Items, p, c, o, i, t
<1>2. /\ P = Remain(p, n, 0) /\ C = Remain(c, n, p) /\ O = Remain(o, n, p + c) /\ I = Remain(i, n, p + c + o)
      /\ T = Remain(t, n, p + c + o + i)
  BY Zenon DEF LeftOf
<1>3. P = p /\ C = c /\ O < o /\ I = i /\ T = t
  OBVIOUS
<1> HIDE DEF p, c, o, i, t, P, C, O, I, T
<1>4. /\ n > 0 /\ Remain(p, n - 1, 0) = P /\ Remain(c, n - 1, p) = C /\ Remain(o, n - 1, p + c) = O + 1
      /\ Remain(i, n - 1, p + c + o) = I /\ Remain(t, n - 1, p + c + o + i) = T
      /\ O \in 0 .. o
  <2>1. n \in 0 .. p + c + o + i + t
    BY <1>1
  <2> QED
    BY <1>1, <1>2, <1>3, <2>1 DEF Remain
<1>5. n - 1 \in Nat
  BY <1>1, <1>4
<1>6. LeftOf(d, r, n - 1)
  BY <1>5, DropFits
<1>7. /\ d \in Responses /\ q \in Responses /\ d.entities = q.entities /\ d.ambiguous = q.ambiguous
  BY <1>6, Zenon DEF LeftOf
<1>8. /\ d.prior = SubSeq(r.prior, 1, P) /\ d.conventions = SubSeq(r.conventions, 1, C) /\ d.callers = SubSeq(r.callers, 1, I) /\ d.tests = SubSeq(r.tests, 1, T)
  BY <1>4, <1>6, Zenon DEF LeftOf, p, c, o, i, t
<1>9. /\ q.prior = SubSeq(r.prior, 1, P) /\ q.conventions = SubSeq(r.conventions, 1, C) /\ q.callers = SubSeq(r.callers, 1, I) /\ q.tests = SubSeq(r.tests, 1, T)
  BY <1>2, <1>3, Zenon DEF LeftOf, p, c, o, i, t, P, C, O, I, T
<1>10. d.callees = SubSeq(r.callees, 1, O + 1)
  BY <1>4, <1>6, Zenon DEF LeftOf, p, c, o, i, t
<1>11. x = [q EXCEPT !.callees = d.callees]
  BY <1>10, Zenon DEF O
<1> HIDE DEF d, x
<1>12. /\ x \in Responses /\ x.callees = d.callees /\ x.entities = q.entities /\ x.ambiguous = q.ambiguous
       /\ x.prior = q.prior /\ x.conventions = q.conventions /\ x.callers = q.callers /\ x.tests = q.tests
  BY <1>7, <1>11 DEF Responses
<1>13. x = d
  BY <1>7, <1>8, <1>9, <1>12, SameResponse
<1>14. [q EXCEPT !.callees = SubSeq(r.callees, 1, Len(@) + 1)] = x
  BY Zenon DEF x
<1> QED
  BY <1>4, <1>13, <1>14 DEF d

\* One item less dropped, where only the list of callers is cut.
LEMMA LongerBy_callers ==
    ASSUME NEW r \in Responses, NEW n \in 0 .. Items(r), NEW q, LeftOf(q, r, n), Len(q.callers) < Len(r.callers),
           Len(q.prior) = Len(r.prior), Len(q.conventions) = Len(r.conventions), Len(q.callees) = Len(r.callees), Len(q.tests) = Len(r.tests)
    PROVE  n > 0 /\ [q EXCEPT !.callers = SubSeq(r.callers, 1, Len(@) + 1)] = Dropping(r, n - 1)
<1> DEFINE p == Len(r.prior)
           c == Len(r.conventions)
           o == Len(r.callees)
           i == Len(r.callers)
           t == Len(r.tests)
           P == Len(q.prior)
           C == Len(q.conventions)
           O == Len(q.callees)
           I == Len(q.callers)
           T == Len(q.tests)
           d == Dropping(r, n - 1)
           x == [q EXCEPT !.callers = SubSeq(r.callers, 1, Len(q.callers) + 1)]
<1>1. p \in Nat /\ c \in Nat /\ o \in Nat /\ i \in Nat /\ t \in Nat /\ Items(r) = p + c + o + i + t
  BY SizeFits, Zenon DEF Items, p, c, o, i, t
<1>2. /\ P = Remain(p, n, 0) /\ C = Remain(c, n, p) /\ O = Remain(o, n, p + c) /\ I = Remain(i, n, p + c + o)
      /\ T = Remain(t, n, p + c + o + i)
  BY Zenon DEF LeftOf
<1>3. P = p /\ C = c /\ O = o /\ I < i /\ T = t
  OBVIOUS
<1> HIDE DEF p, c, o, i, t, P, C, O, I, T
<1>4. /\ n > 0 /\ Remain(p, n - 1, 0) = P /\ Remain(c, n - 1, p) = C /\ Remain(o, n - 1, p + c) = O
      /\ Remain(i, n - 1, p + c + o) = I + 1 /\ Remain(t, n - 1, p + c + o + i) = T
      /\ I \in 0 .. i
  <2>1. n \in 0 .. p + c + o + i + t
    BY <1>1
  <2> QED
    BY <1>1, <1>2, <1>3, <2>1 DEF Remain
<1>5. n - 1 \in Nat
  BY <1>1, <1>4
<1>6. LeftOf(d, r, n - 1)
  BY <1>5, DropFits
<1>7. /\ d \in Responses /\ q \in Responses /\ d.entities = q.entities /\ d.ambiguous = q.ambiguous
  BY <1>6, Zenon DEF LeftOf
<1>8. /\ d.prior = SubSeq(r.prior, 1, P) /\ d.conventions = SubSeq(r.conventions, 1, C) /\ d.callees = SubSeq(r.callees, 1, O) /\ d.tests = SubSeq(r.tests, 1, T)
  BY <1>4, <1>6, Zenon DEF LeftOf, p, c, o, i, t
<1>9. /\ q.prior = SubSeq(r.prior, 1, P) /\ q.conventions = SubSeq(r.conventions, 1, C) /\ q.callees = SubSeq(r.callees, 1, O) /\ q.tests = SubSeq(r.tests, 1, T)
  BY <1>2, <1>3, Zenon DEF LeftOf, p, c, o, i, t, P, C, O, I, T
<1>10. d.callers = SubSeq(r.callers, 1, I + 1)
  BY <1>4, <1>6, Zenon DEF LeftOf, p, c, o, i, t
<1>11. x = [q EXCEPT !.callers = d.callers]
  BY <1>10, Zenon DEF I
<1> HIDE DEF d, x
<1>12. /\ x \in Responses /\ x.callers = d.callers /\ x.entities = q.entities /\ x.ambiguous = q.ambiguous
       /\ x.prior = q.prior /\ x.conventions = q.conventions /\ x.callees = q.callees /\ x.tests = q.tests
  BY <1>7, <1>11 DEF Responses
<1>13. x = d
  BY <1>7, <1>8, <1>9, <1>12, SameResponse
<1>14. [q EXCEPT !.callers = SubSeq(r.callers, 1, Len(@) + 1)] = x
  BY Zenon DEF x
<1> QED
  BY <1>4, <1>13, <1>14 DEF d

\* One item less dropped, where only the list of tests is cut.
LEMMA LongerBy_tests ==
    ASSUME NEW r \in Responses, NEW n \in 0 .. Items(r), NEW q, LeftOf(q, r, n), Len(q.tests) < Len(r.tests),
           Len(q.prior) = Len(r.prior), Len(q.conventions) = Len(r.conventions), Len(q.callees) = Len(r.callees), Len(q.callers) = Len(r.callers)
    PROVE  n > 0 /\ [q EXCEPT !.tests = SubSeq(r.tests, 1, Len(@) + 1)] = Dropping(r, n - 1)
<1> DEFINE p == Len(r.prior)
           c == Len(r.conventions)
           o == Len(r.callees)
           i == Len(r.callers)
           t == Len(r.tests)
           P == Len(q.prior)
           C == Len(q.conventions)
           O == Len(q.callees)
           I == Len(q.callers)
           T == Len(q.tests)
           d == Dropping(r, n - 1)
           x == [q EXCEPT !.tests = SubSeq(r.tests, 1, Len(q.tests) + 1)]
<1>1. p \in Nat /\ c \in Nat /\ o \in Nat /\ i \in Nat /\ t \in Nat /\ Items(r) = p + c + o + i + t
  BY SizeFits, Zenon DEF Items, p, c, o, i, t
<1>2. /\ P = Remain(p, n, 0) /\ C = Remain(c, n, p) /\ O = Remain(o, n, p + c) /\ I = Remain(i, n, p + c + o)
      /\ T = Remain(t, n, p + c + o + i)
  BY Zenon DEF LeftOf
<1>3. P = p /\ C = c /\ O = o /\ I = i /\ T < t
  OBVIOUS
<1> HIDE DEF p, c, o, i, t, P, C, O, I, T
<1>4. /\ n > 0 /\ Remain(p, n - 1, 0) = P /\ Remain(c, n - 1, p) = C /\ Remain(o, n - 1, p + c) = O
      /\ Remain(i, n - 1, p + c + o) = I /\ Remain(t, n - 1, p + c + o + i) = T + 1
      /\ T \in 0 .. t
  <2>1. n \in 0 .. p + c + o + i + t
    BY <1>1
  <2> QED
    BY <1>1, <1>2, <1>3, <2>1 DEF Remain
<1>5. n - 1 \in Nat
  BY <1>1, <1>4
<1>6. LeftOf(d, r, n - 1)
  BY <1>5, DropFits
<1>7. /\ d \in Responses /\ q \in Responses /\ d.entities = q.entities /\ d.ambiguous = q.ambiguous
  BY <1>6, Zenon DEF LeftOf
<1>8. /\ d.prior = SubSeq(r.prior, 1, P) /\ d.conventions = SubSeq(r.conventions, 1, C) /\ d.callees = SubSeq(r.callees, 1, O) /\ d.callers = SubSeq(r.callers, 1, I)
  BY <1>4, <1>6, Zenon DEF LeftOf, p, c, o, i, t
<1>9. /\ q.prior = SubSeq(r.prior, 1, P) /\ q.conventions = SubSeq(r.conventions, 1, C) /\ q.callees = SubSeq(r.callees, 1, O) /\ q.callers = SubSeq(r.callers, 1, I)
  BY <1>2, <1>3, Zenon DEF LeftOf, p, c, o, i, t, P, C, O, I, T
<1>10. d.tests = SubSeq(r.tests, 1, T + 1)
  BY <1>4, <1>6, Zenon DEF LeftOf, p, c, o, i, t
<1>11. x = [q EXCEPT !.tests = d.tests]
  BY <1>10, Zenon DEF T
<1> HIDE DEF d, x
<1>12. /\ x \in Responses /\ x.tests = d.tests /\ x.entities = q.entities /\ x.ambiguous = q.ambiguous
       /\ x.prior = q.prior /\ x.conventions = q.conventions /\ x.callees = q.callees /\ x.callers = q.callers
  BY <1>7, <1>11 DEF Responses
<1>13. x = d
  BY <1>7, <1>8, <1>9, <1>12, SameResponse
<1>14. [q EXCEPT !.tests = SubSeq(r.tests, 1, Len(@) + 1)] = x
  BY Zenon DEF x
<1> QED
  BY <1>4, <1>13, <1>14 DEF d

--------------------------------------------------------------------------------
\* A piece of a list from its start, as long as it says.
LEMMA PiecesStart ==
    ASSUME NEW A, NEW s \in Seq(A), NEW t \in Seq(A), NEW m \in 0 .. Len(s), t = SubSeq(s, 1, m), Len(t) = m
    PROVE  IsPrefix(t, s) /\ (m = 0 => t = <<>>)
<1>1. SubSeq(t, 1, Len(t)) = t
  BY UncutIsAll
<1>2. Len(t) <= Len(s) /\ SubSeq(t, 1, Len(t)) = SubSeq(s, 1, Len(t))
  BY <1>1
<1>3. m = 0 => t = <<>>
  OBVIOUS
<1> QED
  BY <1>2, <1>3 DEF IsPrefix

\* Trimming spares what is of more value, and drops no more than it has to.
LEMMA TrimFits ==
    ASSUME NEW r \in Responses, NEW cap \in Int
    PROVE  Spared(Trim(r, cap), r, cap) /\ Trim(r, cap) \in Responses
<1> DEFINE q == Trim(r, cap)
           p == Len(r.prior)
           c == Len(r.conventions)
           o == Len(r.callees)
           i == Len(r.callers)
           t == Len(r.tests)
           P == Len(q.prior)
           C == Len(q.conventions)
           O == Len(q.callees)
           I == Len(q.callers)
           T == Len(q.tests)
<1>1. PICK n \in 0 .. Items(r) :
        /\ q = Dropping(r, n)
        /\ Size(q) <= cap \/ n = Items(r)
        /\ n > 0 => Size(Dropping(r, n - 1)) > cap
  <2>1. \E n \in 0 .. Items(r) :
          /\ Trim(r, cap) = Dropping(r, n)
          /\ Size(Dropping(r, n)) <= cap \/ n = Items(r)
          /\ n > 0 => Size(Dropping(r, n - 1)) > cap
    BY TrimStops, Zenon
  <2> QED
    BY <2>1, Zenon
<1>2. p \in Nat /\ c \in Nat /\ o \in Nat /\ i \in Nat /\ t \in Nat /\ Items(r) = p + c + o + i + t /\ Items(r) \in Nat
  BY SizeFits, Zenon DEF Items, p, c, o, i, t
<1>3. LeftOf(q, r, n)
  <2>1. n \in Nat
    BY <1>2
  <2>2. LeftOf(Dropping(r, n), r, n)
    BY <2>1, DropFits
  <2> HIDE DEF q
  <2> QED
    BY <1>1, <2>2, Zenon
<1> HIDE DEF q
<1>4. /\ P = Remain(p, n, 0) /\ C = Remain(c, n, p) /\ O = Remain(o, n, p + c) /\ I = Remain(i, n, p + c + o)
      /\ T = Remain(t, n, p + c + o + i)
  BY <1>3, Zenon DEF LeftOf
<1>5. /\ q \in Responses /\ q.entities = r.entities /\ q.ambiguous = r.ambiguous
      /\ q.prior = SubSeq(r.prior, 1, P) /\ q.conventions = SubSeq(r.conventions, 1, C)
      /\ q.callees = SubSeq(r.callees, 1, O) /\ q.callers = SubSeq(r.callers, 1, I) /\ q.tests = SubSeq(r.tests, 1, T)
  BY <1>3, Zenon DEF LeftOf
<1> HIDE DEF p, c, o, i, t, P, C, O, I, T
<1>6. /\ P \in 0 .. p /\ C \in 0 .. c /\ O \in 0 .. o /\ I \in 0 .. i /\ T \in 0 .. t
      /\ (C < c => P = 0) /\ (O < o => P = 0 /\ C = 0) /\ (I < i => P = 0 /\ C = 0 /\ O = 0)
      /\ (T < t => P = 0 /\ C = 0 /\ O = 0 /\ I = 0)
      /\ n = p + c + o + i + t => P = 0 /\ C = 0 /\ O = 0 /\ I = 0 /\ T = 0
  <2>1. n \in 0 .. p + c + o + i + t
    BY <1>1, <1>2
  <2> QED
    BY <1>2, <1>4, <2>1 DEF Remain
<1>7. /\ IsPrefix(q.prior, r.prior) /\ (P = 0 => q.prior = <<>>)
  <2>1. r.prior \in Seq(Arts) /\ q.prior \in Seq(Arts)
    BY <1>5 DEF Responses
  <2>2. P \in 0 .. Len(r.prior) /\ Len(q.prior) = P
    BY <1>6, Zenon DEF p, P
  <2> QED
    BY <1>5, <2>1, <2>2, PiecesStart
<1>8. /\ IsPrefix(q.conventions, r.conventions) /\ (C = 0 => q.conventions = <<>>)
  <2>1. r.conventions \in Seq(Arts) /\ q.conventions \in Seq(Arts)
    BY <1>5 DEF Responses
  <2>2. C \in 0 .. Len(r.conventions) /\ Len(q.conventions) = C
    BY <1>6, Zenon DEF c, C
  <2> QED
    BY <1>5, <2>1, <2>2, PiecesStart
<1>9. /\ IsPrefix(q.callees, r.callees) /\ (O = 0 => q.callees = <<>>)
  <2>1. r.callees \in Seq(Entries) /\ q.callees \in Seq(Entries)
    BY <1>5 DEF Responses
  <2>2. O \in 0 .. Len(r.callees) /\ Len(q.callees) = O
    BY <1>6, Zenon DEF o, O
  <2> QED
    BY <1>5, <2>1, <2>2, PiecesStart
<1>10. /\ IsPrefix(q.callers, r.callers) /\ (I = 0 => q.callers = <<>>)
  <2>1. r.callers \in Seq(Entries) /\ q.callers \in Seq(Entries)
    BY <1>5 DEF Responses
  <2>2. I \in 0 .. Len(r.callers) /\ Len(q.callers) = I
    BY <1>6, Zenon DEF i, I
  <2> QED
    BY <1>5, <2>1, <2>2, PiecesStart
<1>11. /\ IsPrefix(q.tests, r.tests) /\ (T = 0 => q.tests = <<>>)
  <2>1. r.tests \in Seq(Entries) /\ q.tests \in Seq(Entries)
    BY <1>5 DEF Responses
  <2>2. T \in 0 .. Len(r.tests) /\ Len(q.tests) = T
    BY <1>6, Zenon DEF t, T
  <2> QED
    BY <1>5, <2>1, <2>2, PiecesStart
<1>12. Size(q) <= cap \/ ~ Trimmable(q)
  <2>1. ASSUME n = Items(r) PROVE ~ Trimmable(q)
    <3>1. P = 0 /\ C = 0 /\ O = 0 /\ I = 0 /\ T = 0
      BY <1>2, <1>6, <2>1
    <3>2. q.prior = <<>> /\ q.conventions = <<>> /\ q.callees = <<>> /\ q.callers = <<>> /\ q.tests = <<>>
      BY <1>7, <1>8, <1>9, <1>10, <1>11, <3>1
    <3> QED
      BY <3>2, BucketsAre DEF Trimmable
  <2> QED
    BY <1>1, <2>1, Zenon
<1>13. \A k \in DOMAIN Buckets :
         /\ IsPrefix(q[Buckets[k]], r[Buckets[k]])
         /\ Len(q[Buckets[k]]) < Len(r[Buckets[k]]) => \A j \in 1..(k - 1) : q[Buckets[j]] = <<>>
  <2>1. /\ IsPrefix(q[Buckets[1]], r[Buckets[1]])
        /\ Len(q[Buckets[1]]) < Len(r[Buckets[1]]) => \A j \in 1..(1 - 1) : q[Buckets[j]] = <<>>
    <3>1. q[Buckets[1]] = q.prior /\ r[Buckets[1]] = r.prior
      BY BucketsAre
    <3>2. 1 .. (1 - 1) = {}
      OBVIOUS
    <3> QED
      BY <1>7, <3>1, <3>2, Zenon
  <2>2. /\ IsPrefix(q[Buckets[2]], r[Buckets[2]])
        /\ Len(q[Buckets[2]]) < Len(r[Buckets[2]]) => \A j \in 1..(2 - 1) : q[Buckets[j]] = <<>>
    <3>1. q[Buckets[2]] = q.conventions /\ r[Buckets[2]] = r.conventions
      BY BucketsAre
    <3>2. ASSUME Len(q.conventions) < Len(r.conventions) PROVE q.prior = <<>>
      <4>1. C < c
        BY <3>2, Zenon DEF c, C
      <4> QED
        BY <1>6, <1>7, <4>1
    <3>3. ASSUME Len(q.conventions) < Len(r.conventions), NEW j \in 1..(2 - 1) PROVE q[Buckets[j]] = <<>>
      <4>1. j \in {1}
        BY <3>3
      <4> QED
        BY <3>2, <3>3, <4>1, BucketsAre
    <3> QED
      BY <1>8, <3>1, <3>3, Zenon
  <2>3. /\ IsPrefix(q[Buckets[3]], r[Buckets[3]])
        /\ Len(q[Buckets[3]]) < Len(r[Buckets[3]]) => \A j \in 1..(3 - 1) : q[Buckets[j]] = <<>>
    <3>1. q[Buckets[3]] = q.callees /\ r[Buckets[3]] = r.callees
      BY BucketsAre
    <3>2. ASSUME Len(q.callees) < Len(r.callees) PROVE q.prior = <<>> /\ q.conventions = <<>>
      <4>1. O < o
        BY <3>2, Zenon DEF o, O
      <4> QED
        BY <1>6, <1>7, <1>8, <4>1
    <3>3. ASSUME Len(q.callees) < Len(r.callees), NEW j \in 1..(3 - 1) PROVE q[Buckets[j]] = <<>>
      <4>1. j \in {1, 2}
        BY <3>3
      <4> QED
        BY <3>2, <3>3, <4>1, BucketsAre
    <3> QED
      BY <1>9, <3>1, <3>3, Zenon
  <2>4. /\ IsPrefix(q[Buckets[4]], r[Buckets[4]])
        /\ Len(q[Buckets[4]]) < Len(r[Buckets[4]]) => \A j \in 1..(4 - 1) : q[Buckets[j]] = <<>>
    <3>1. q[Buckets[4]] = q.callers /\ r[Buckets[4]] = r.callers
      BY BucketsAre
    <3>2. ASSUME Len(q.callers) < Len(r.callers) PROVE q.prior = <<>> /\ q.conventions = <<>> /\ q.callees = <<>>
      <4>1. I < i
        BY <3>2, Zenon DEF i, I
      <4> QED
        BY <1>6, <1>7, <1>8, <1>9, <4>1
    <3>3. ASSUME Len(q.callers) < Len(r.callers), NEW j \in 1..(4 - 1) PROVE q[Buckets[j]] = <<>>
      <4>1. j \in {1, 2, 3}
        BY <3>3
      <4> QED
        BY <3>2, <3>3, <4>1, BucketsAre
    <3> QED
      BY <1>10, <3>1, <3>3, Zenon
  <2>5. /\ IsPrefix(q[Buckets[5]], r[Buckets[5]])
        /\ Len(q[Buckets[5]]) < Len(r[Buckets[5]]) => \A j \in 1..(5 - 1) : q[Buckets[j]] = <<>>
    <3>1. q[Buckets[5]] = q.tests /\ r[Buckets[5]] = r.tests
      BY BucketsAre
    <3>2. ASSUME Len(q.tests) < Len(r.tests) PROVE q.prior = <<>> /\ q.conventions = <<>> /\ q.callees = <<>> /\ q.callers = <<>>
      <4>1. T < t
        BY <3>2, Zenon DEF t, T
      <4> QED
        BY <1>6, <1>7, <1>8, <1>9, <1>10, <4>1
    <3>3. ASSUME Len(q.tests) < Len(r.tests), NEW j \in 1..(5 - 1) PROVE q[Buckets[j]] = <<>>
      <4>1. j \in {1, 2, 3, 4}
        BY <3>3
      <4> QED
        BY <3>2, <3>3, <4>1, BucketsAre
    <3> QED
      BY <1>11, <3>1, <3>3, Zenon
  <2> QED
    <3>1. \A k \in DOMAIN Buckets : k \in {1, 2, 3, 4, 5}
      BY BucketsAre
    <3> QED
      BY <2>1, <2>2, <2>3, <2>4, <2>5, <3>1
<1>14. \A b \in ToSet(Buckets) :
         Len(q[b]) < Len(r[b]) => Size([q EXCEPT ![b] = SubSeq(r[b], 1, Len(@) + 1)]) > cap
                                  \/ \E c2 \in ToSet(Buckets) \ {b} : Len(q[c2]) < Len(r[c2])
  <2>1. ASSUME NEW b \in ToSet(Buckets), Len(q[b]) < Len(r[b]),
               \A c2 \in ToSet(Buckets) \ {b} : ~ (Len(q[c2]) < Len(r[c2]))
        PROVE  Size([q EXCEPT ![b] = SubSeq(r[b], 1, Len(@) + 1)]) > cap
    <3>1. \A c2 \in ToSet(Buckets) \ {b} : Len(q[c2]) = Len(r[c2])
      <4>1. /\ Len(q["prior"]) < Len(r["prior"]) \/ Len(q["prior"]) = Len(r["prior"])
            /\ Len(q["conventions"]) < Len(r["conventions"]) \/ Len(q["conventions"]) = Len(r["conventions"])
            /\ Len(q["callees"]) < Len(r["callees"]) \/ Len(q["callees"]) = Len(r["callees"])
            /\ Len(q["callers"]) < Len(r["callers"]) \/ Len(q["callers"]) = Len(r["callers"])
            /\ Len(q["tests"]) < Len(r["tests"]) \/ Len(q["tests"]) = Len(r["tests"])
        <5>1. /\ P < p \/ P = p
              /\ C < c \/ C = c
              /\ O < o \/ O = o
              /\ I < i \/ I = i
              /\ T < t \/ T = t
          BY <1>2, <1>6
        <5> QED
          BY <5>1, Zenon DEF p, c, o, i, t, P, C, O, I, T
      <4> QED
        BY <2>1, <4>1, BucketsAre, Zenon
    <3>2. CASE b = "prior"
      <4>1. /\ Len(q.prior) < Len(r.prior) /\ Len(q.conventions) = Len(r.conventions) /\ Len(q.callees) = Len(r.callees) /\ Len(q.callers) = Len(r.callers) /\ Len(q.tests) = Len(r.tests)
        BY <2>1, <3>1, <3>2, BucketsAre
      <4>2. n > 0 /\ [q EXCEPT !.prior = SubSeq(r.prior, 1, Len(@) + 1)] = Dropping(r, n - 1)
        BY <1>3, <4>1, LongerBy_prior
      <4>3. [q EXCEPT ![b] = SubSeq(r[b], 1, Len(@) + 1)] = [q EXCEPT !.prior = SubSeq(r.prior, 1, Len(@) + 1)]
        BY <3>2, Zenon
      <4> QED
        BY <1>1, <4>2, <4>3, Zenon
    <3>3. CASE b = "conventions"
      <4>1. /\ Len(q.conventions) < Len(r.conventions) /\ Len(q.prior) = Len(r.prior) /\ Len(q.callees) = Len(r.callees) /\ Len(q.callers) = Len(r.callers) /\ Len(q.tests) = Len(r.tests)
        BY <2>1, <3>1, <3>3, BucketsAre
      <4>2. n > 0 /\ [q EXCEPT !.conventions = SubSeq(r.conventions, 1, Len(@) + 1)] = Dropping(r, n - 1)
        BY <1>3, <4>1, LongerBy_conventions
      <4>3. [q EXCEPT ![b] = SubSeq(r[b], 1, Len(@) + 1)] = [q EXCEPT !.conventions = SubSeq(r.conventions, 1, Len(@) + 1)]
        BY <3>3, Zenon
      <4> QED
        BY <1>1, <4>2, <4>3, Zenon
    <3>4. CASE b = "callees"
      <4>1. /\ Len(q.callees) < Len(r.callees) /\ Len(q.prior) = Len(r.prior) /\ Len(q.conventions) = Len(r.conventions) /\ Len(q.callers) = Len(r.callers) /\ Len(q.tests) = Len(r.tests)
        BY <2>1, <3>1, <3>4, BucketsAre
      <4>2. n > 0 /\ [q EXCEPT !.callees = SubSeq(r.callees, 1, Len(@) + 1)] = Dropping(r, n - 1)
        BY <1>3, <4>1, LongerBy_callees
      <4>3. [q EXCEPT ![b] = SubSeq(r[b], 1, Len(@) + 1)] = [q EXCEPT !.callees = SubSeq(r.callees, 1, Len(@) + 1)]
        BY <3>4, Zenon
      <4> QED
        BY <1>1, <4>2, <4>3, Zenon
    <3>5. CASE b = "callers"
      <4>1. /\ Len(q.callers) < Len(r.callers) /\ Len(q.prior) = Len(r.prior) /\ Len(q.conventions) = Len(r.conventions) /\ Len(q.callees) = Len(r.callees) /\ Len(q.tests) = Len(r.tests)
        BY <2>1, <3>1, <3>5, BucketsAre
      <4>2. n > 0 /\ [q EXCEPT !.callers = SubSeq(r.callers, 1, Len(@) + 1)] = Dropping(r, n - 1)
        BY <1>3, <4>1, LongerBy_callers
      <4>3. [q EXCEPT ![b] = SubSeq(r[b], 1, Len(@) + 1)] = [q EXCEPT !.callers = SubSeq(r.callers, 1, Len(@) + 1)]
        BY <3>5, Zenon
      <4> QED
        BY <1>1, <4>2, <4>3, Zenon
    <3>6. CASE b = "tests"
      <4>1. /\ Len(q.tests) < Len(r.tests) /\ Len(q.prior) = Len(r.prior) /\ Len(q.conventions) = Len(r.conventions) /\ Len(q.callees) = Len(r.callees) /\ Len(q.callers) = Len(r.callers)
        BY <2>1, <3>1, <3>6, BucketsAre
      <4>2. n > 0 /\ [q EXCEPT !.tests = SubSeq(r.tests, 1, Len(@) + 1)] = Dropping(r, n - 1)
        BY <1>3, <4>1, LongerBy_tests
      <4>3. [q EXCEPT ![b] = SubSeq(r[b], 1, Len(@) + 1)] = [q EXCEPT !.tests = SubSeq(r.tests, 1, Len(@) + 1)]
        BY <3>6, Zenon
      <4> QED
        BY <1>1, <4>2, <4>3, Zenon
    <3> QED
      BY <2>1, <3>2, <3>3, <3>4, <3>5, <3>6, BucketsAre
  <2> QED
    BY <2>1
<1>15. Spared(q, r, cap)
  BY <1>5, <1>12, <1>13, <1>14 DEF Spared
<1> QED
  BY <1>5, <1>15 DEF q

--------------------------------------------------------------------------------
(* The task context: the scope *)

\* The first of a list.
LEMMA FirstNFits ==
    ASSUME NEW A, NEW s \in Seq(A), NEW n \in Nat
    PROVE  FirstN(s, n) \in Seq(A) /\ ToSet(FirstN(s, n)) \subseteq ToSet(s)
<1> DEFINE m == Min({n, Len(s)})
<1>1. Len(s) \in Nat /\ DOMAIN s = 1 .. Len(s)
  OBVIOUS
<1>2. m \in {n, Len(s)} /\ m <= n /\ m <= Len(s)
  <2> DEFINE top == IF n < Len(s) THEN Len(s) ELSE n
             S == {n, Len(s)}
  <2>1. top \in Nat /\ S \in SUBSET (0 .. top) /\ S # {}
    BY <1>1
  <2>2. Min(S) \in S /\ \A y \in S : Min(S) <= y
    <3> HIDE DEF top, S
    <3> QED
      BY <2>1, MinOfSome
  <2> QED
    BY <2>2
<1>3. m \in 0 .. Len(s)
  BY <1>1, <1>2
<1> HIDE DEF m
<1>4. /\ SubSeq(s, 1, m) \in Seq(A) /\ DOMAIN SubSeq(s, 1, m) = 1 .. m
      /\ \A i \in 1 .. m : SubSeq(s, 1, m)[i] = s[i] /\ i \in DOMAIN s
  BY <1>3, PrefixFits
<1>5. FirstN(s, n) = SubSeq(s, 1, m)
  BY Zenon DEF FirstN, m
<1> HIDE DEF FirstN
<1>6. ToSet(SubSeq(s, 1, m)) \subseteq ToSet(s)
  BY <1>4 DEF ToSet
<1> QED
  BY <1>4, <1>5, <1>6

\* The only element of a list of one.
LEMMA OnlyOne ==
    ASSUME NEW A, NEW s \in Seq(A), Len(s) = 1
    PROVE  s[1] \in A /\ ToSet(s) = {s[1]}
<1>1. DOMAIN s = {1} /\ s[1] \in A
  OBVIOUS
<1> QED
  BY <1>1 DEF ToSet

\* The artifacts of some hits.
LEMMA IdsFit ==
    ASSUME NEW A, NEW s \in Seq(A), \A x \in A : x.id \in Arts
    PROVE  /\ Ids(s) \in Seq(Arts) /\ ToSet(Ids(s)) = {h.id : h \in ToSet(s)} /\ Len(Ids(s)) = Len(s)
           /\ DOMAIN Ids(s) = DOMAIN s /\ \A i \in DOMAIN s : Ids(s)[i] = s[i].id
<1>1. DOMAIN s = 1 .. Len(s) /\ Len(s) \in Nat /\ \A i \in DOMAIN s : s[i].id \in Arts
  OBVIOUS
<1>2. Ids(s) \in Seq(Arts) /\ DOMAIN Ids(s) = DOMAIN s /\ (\A i \in DOMAIN s : Ids(s)[i] = s[i].id) /\ Len(Ids(s)) = Len(s)
  BY <1>1 DEF Ids
<1>3. ToSet(Ids(s)) = {h.id : h \in ToSet(s)}
  BY <1>2 DEF ToSet
<1> QED
  BY <1>2, <1>3

\* What a query finds.
FoundBy(ix, q, top) == {h.id : h \in ToSet(FirstN(ix[q], top))} \cap VisibleArts

LEMMA RowsFit ==
    ASSUME NEW q, index[q] \in Seq(IndexHits), NEW top \in Nat
    PROVE  /\ SearchRows(q, top) \in Seq(IndexHits) /\ Ids(SearchRows(q, top)) \in Seq(Arts)
           /\ ToSet(Ids(SearchRows(q, top))) = FoundBy(index, q, top)
<1> DEFINE s == FirstN(index[q], top)
           W == {h \in IndexHits : h.id \in VisibleArts}
           r == Among(s, W)
<1>1. s \in Seq(IndexHits)
  BY FirstNFits
<1>2. SearchRows(q, top) = r
  BY Zenon DEF SearchRows, s, W, r
<1> HIDE DEF s
<1>3. r \in Seq(IndexHits) /\ ToSet(r) = ToSet(s) \intersect W /\ ToSet(s) \subseteq IndexHits
  <2> HIDE DEF W
  <2> QED
    BY <1>1, AmongFits
<1>4. \A h \in IndexHits : h.id \in Arts
  BY DEF IndexHits
<1> HIDE DEF r
<1>5. Ids(r) \in Seq(Arts) /\ ToSet(Ids(r)) = {h.id : h \in ToSet(r)}
  BY <1>3, <1>4, IdsFit
<1>6. {h.id : h \in ToSet(r)} = {h.id : h \in ToSet(s)} \cap VisibleArts
  BY <1>3
<1> QED
  BY <1>2, <1>3, <1>5, <1>6 DEF FoundBy, s

\* The candidates of a name.
LEMMA SymbolFits ==
    ASSUME NEW sym, index[sym] \in Seq(IndexHits)
    PROVE  /\ SymbolMatches(sym) \in Seq(Arts)
           /\ ToSet(SymbolMatches(sym)) =
                {a \in FoundBy(index, sym, SearchTop) : Art[a].type \in SymbolTypes /\ Art[a].title = sym}
<1> DEFINE r == Ids(SearchRows(sym, SearchTop))
           W == {a \in Arts : Art[a].type \in SymbolTypes /\ Art[a].title = sym}
<1>1. SearchTop \in Nat
  BY TaskAssumption
<1>2. r \in Seq(Arts) /\ ToSet(r) = FoundBy(index, sym, SearchTop)
  BY <1>1, RowsFit
<1>3. SymbolMatches(sym) = Among(r, W)
  BY Zenon DEF SymbolMatches, r, W
<1> HIDE DEF r
<1>4. Among(r, W) \in Seq(Arts) /\ ToSet(Among(r, W)) = ToSet(r) \intersect W /\ ToSet(r) \subseteq Arts
  <2> HIDE DEF W
  <2> QED
    BY <1>2, AmongFits
<1>5. ToSet(r) \intersect W = {a \in ToSet(r) : Art[a].type \in SymbolTypes /\ Art[a].title = sym}
  BY <1>4
<1> QED
  BY <1>2, <1>3, <1>4, <1>5

\* A list in order.
LEMMA ByRankFits ==
    ASSUME NEW A, NEW s \in Seq(A), NEW ids \in Seq(Arts), Len(ids) = Len(s)
    PROVE  ByRank(s, ids) \in Seq(A) /\ ToSet(ByRank(s, ids)) \subseteq ToSet(s) /\ Len(ByRank(s, ids)) = Len(s)
<1> DEFINE keys == [i \in DOMAIN s |-> Art[ids[i]].rank]
           r == Ranked(s, keys, Len(s))
<1>1. DOMAIN s = 1 .. Len(s) /\ Len(s) \in Nat /\ \A i \in DOMAIN s : ids[i] \in Arts
  OBVIOUS
<1>2. \A a \in Arts : Art[a].rank \in Int
  BY TaskAssumption
<1>3. keys \in [DOMAIN s -> Int]
  BY <1>1, <1>2
<1> HIDE DEF keys
<1>4. r \in Seq(A) /\ ToSet(r) \subseteq ToSet(s)
  BY <1>1, <1>3, RankedFits
<1>5. DOMAIN r = {k \in DOMAIN s : k <= Len(s)}
  BY DEF Ranked
<1>6. {k \in DOMAIN s : k <= Len(s)} = 1 .. Len(s)
  BY <1>1
<1> HIDE DEF r
<1>7. Len(r) = Len(s)
  BY <1>1, <1>4, <1>5, <1>6
<1>8. ByRank(s, ids) = r
  BY Zenon DEF ByRank, keys, r
<1> QED
  BY <1>4, <1>7, <1>8

\* What stands for a path that is alone in fitting a hint.
LEMMA FileFits ==
    ASSUME NEW file, index[file.query] \in Seq(IndexHits)
    PROVE  /\ FileMatches(file) \in Seq(Arts)
           /\ Len(FileMatches(file)) = 1 =>
                LET fitting == {a \in FoundBy(index, file.query, SearchTop) : Art[a].path \in file.paths}
                    e == FileMatches(file)[1]
                IN  /\ e \in fitting
                    /\ \A a \in fitting : /\ Art[a].path = Art[e].path
                                          /\ Art[a].type = "code_file" => Art[e].type = "code_file"
<1> DEFINE r == Ids(SearchRows(file.query, SearchTop))
           W == {a \in Arts : Art[a].path \in file.paths}
           rows == Among(r, W)
           first(a, i) == \A j \in DOMAIN rows : Art[rows[j]].path = Art[a].path =>
                            IF Art[a].type = "code_file"
                            THEN j >= i \/ Art[rows[j]].type # "code_file"
                            ELSE j >= i /\ Art[rows[j]].type # "code_file"
           P == {i \in DOMAIN rows : first(rows[i], i)}
           kept == Picked(rows, P)
           m == ByRank(kept, kept)
           fitting == {a \in FoundBy(index, file.query, SearchTop) : Art[a].path \in file.paths}
<1>1. SearchTop \in Nat
  BY TaskAssumption
<1>2. r \in Seq(Arts) /\ ToSet(r) = FoundBy(index, file.query, SearchTop)
  BY <1>1, RowsFit
<1>3. FileMatches(file) = m
  BY Zenon DEF FileMatches, r, W, rows, first, P, kept, m
<1> HIDE DEF r
<1>4. rows \in Seq(Arts) /\ ToSet(rows) = ToSet(r) \intersect W /\ ToSet(r) \subseteq Arts
  <2> HIDE DEF W
  <2> QED
    BY <1>2, AmongFits
<1>5. ToSet(rows) = fitting
  BY <1>2, <1>4
<1> HIDE DEF rows, fitting
<1>6. DOMAIN rows = 1 .. Len(rows) /\ Len(rows) \in Nat /\ \A i \in DOMAIN rows : rows[i] \in fitting
  BY <1>4, <1>5 DEF ToSet
<1>7. P \in SUBSET DOMAIN rows /\ IsFiniteSet(P) /\ \A i \in P : i \in Int
  <2>1. P \in SUBSET DOMAIN rows /\ \A i \in P : i \in Int
    BY <1>6
  <2>2. IsFiniteSet(DOMAIN rows)
    BY <1>6, FS_Interval
  <2> HIDE DEF P
  <2> QED
    BY <2>1, <2>2, FS_Subset
<1>8. kept \in Seq(Arts) /\ ToSet(kept) = {rows[i] : i \in P} /\ Len(kept) = Cardinality(P)
  <2> HIDE DEF P
  <2>1. kept \in Seq(Arts) /\ ToSet(kept) = {rows[i] : i \in P}
    BY <1>4, <1>7, PickedOf
  <2>2. DOMAIN kept = 1 .. Cardinality(P) /\ Cardinality(P) \in Nat
    BY <1>7, PickedFits
  <2> HIDE DEF kept
  <2> QED
    BY <2>1, <2>2
<1> HIDE DEF kept
<1>9. m \in Seq(Arts) /\ ToSet(m) \subseteq ToSet(kept) /\ Len(m) = Len(kept)
  BY <1>8, ByRankFits
<1> HIDE DEF m
<1>10. ASSUME Len(m) = 1
       PROVE  /\ m[1] \in fitting
              /\ \A a \in fitting : /\ Art[a].path = Art[m[1]].path
                                    /\ Art[a].type = "code_file" => Art[m[1]].type = "code_file"
  <2>1. PICK k : P = {k}
    <3> HIDE DEF P
    <3> QED
      BY <1>7, <1>8, <1>9, <1>10, FS_Singleton
  <2>2. m[1] = rows[k] /\ k \in DOMAIN rows
    <3>1. m[1] \in ToSet(m)
      BY <1>9, <1>10, OnlyOne
    <3>2. m[1] \in {rows[i] : i \in P} /\ P \subseteq DOMAIN rows
      BY <1>7, <1>8, <1>9, <3>1
    <3> HIDE DEF P
    <3> QED
      BY <2>1, <3>2
  <2>3. ASSUME NEW a \in fitting
        PROVE  Art[a].path = Art[rows[k]].path /\ (Art[a].type = "code_file" => Art[rows[k]].type = "code_file")
    <3>1. PICK n \in DOMAIN rows : rows[n] = a
      BY <1>5 DEF ToSet
    <3> DEFINE J == {i \in DOMAIN rows : Art[rows[i]].path = Art[a].path}
               C == {i \in J : Art[rows[i]].type = "code_file"}
               K == IF C # {} THEN C ELSE J
               z == Min(K)
    <3>2. K # {} /\ K \in SUBSET (0 .. Len(rows))
      BY <1>6, <3>1
    <3>3. z \in K /\ \A y \in K : z <= y
      <4> HIDE DEF K
      <4> QED
        BY <1>6, <3>2, MinOfSome
    <3> HIDE DEF z
    <3>4. z \in DOMAIN rows /\ Art[rows[z]].path = Art[a].path /\ z \in Int
      BY <1>6, <3>3
    <3>5. Art[a].type = "code_file" => Art[rows[z]].type = "code_file"
      <4>1. ASSUME Art[a].type = "code_file" PROVE n \in C
        BY <3>1, <4>1
      <4> QED
        BY <3>3, <4>1
    <3>6. first(rows[z], z)
      <4>1. ASSUME NEW j \in DOMAIN rows, Art[rows[j]].path = Art[rows[z]].path
            PROVE  IF Art[rows[z]].type = "code_file"
                   THEN j >= z \/ Art[rows[j]].type # "code_file"
                   ELSE j >= z /\ Art[rows[j]].type # "code_file"
        <5>1. j \in J /\ j \in Int
          BY <1>6, <3>4, <4>1
        <5>2. CASE C # {}
          <6>1. z \in C /\ \A y \in C : z <= y
            BY <3>3, <5>2
          <6>2. Art[rows[z]].type = "code_file"
            BY <6>1
          <6>3. Art[rows[j]].type = "code_file" => j \in C
            BY <5>1
          <6>4. Art[rows[j]].type = "code_file" => j >= z
            <7> HIDE DEF C
            <7> QED
              BY <3>4, <5>1, <6>1, <6>3
          <6> QED
            BY <6>2, <6>4
        <5>3. CASE C = {}
          <6>1. z \in J /\ \A y \in J : z <= y
            BY <3>3, <5>3
          <6>2. Art[rows[z]].type # "code_file" /\ Art[rows[j]].type # "code_file"
            BY <5>1, <5>3, <6>1
          <6>3. j >= z
            <7> HIDE DEF J
            <7> QED
              BY <3>4, <5>1, <6>1
          <6> QED
            BY <6>2, <6>3
        <5> QED
          BY <5>2, <5>3
      <4> QED
        BY <4>1
    <3>7. z = k
      BY <2>1, <3>4, <3>6
    <3> QED
      BY <3>4, <3>5, <3>7
  <2>4. rows[k] \in fitting
    BY <1>6, <2>2
  <2> QED
    BY <2>2, <2>3, <2>4
<1>11. m \in Seq(Arts)
  BY <1>9
<1> QED
  BY <1>3, <1>10, <1>11 DEF fitting

--------------------------------------------------------------------------------
\* A hint's entity is explained by some state of the index.
Explained(req, e) ==
  \E ix \in Indexes :
    \/ \E s \in ToSet(req.symbols) :
         {a \in FoundBy(ix, s, SearchTop) : Art[a].type \in SymbolTypes /\ Art[a].title = s} = {e.id}
    \/ \E f \in ToSet(req.files) :
         LET fitting == {a \in FoundBy(ix, f.query, SearchTop) : Art[a].path \in f.paths}
         IN  /\ e.id \in fitting
             /\ \A a \in fitting : /\ Art[a].path = Art[e.id].path
                                   /\ Art[a].type = "code_file" => Art[e.id].type = "code_file"

\* What a scope may be.
ScopeHolds(req, s) ==
  /\ s.entities \in Seq(Founds) /\ s.ambiguous \in Seq(Seq(Pointed))
  /\ s.ambiguous # <<>> => "which" \in s.questions
  /\ \A e \in ToSet(s.entities) : e.src = "hint" => Explained(req, e)

\* A list that is not empty has elements.
LEMMA SomeElement ==
    ASSUME NEW A, NEW s \in Seq(A), s # <<>>
    PROVE  \E x \in A : x \in ToSet(s)
<1>1. 1 \in DOMAIN s /\ s[1] \in A
  OBVIOUS
<1> QED
  BY <1>1 DEF ToSet

\* A list of members of a set is one of a larger set.
LEMMA WiderSeq ==
    ASSUME NEW A, NEW B, A \subseteq B, NEW s \in Seq(A)
    PROVE  s \in Seq(B)
  OBVIOUS

\* The queries of a request are answered.
LEMMA AskFits ==
    ASSUME NEW req \in Asks, index \in Indexes
    PROVE  /\ req.symbols \in Seq(ToSet(req.symbols)) /\ req.files \in Seq(ToSet(req.files)) /\ req.cap \in Int
           /\ index[req.task] \in Seq(IndexHits) /\ \A s \in ToSet(req.symbols) : index[s] \in Seq(IndexHits)
           /\ \A f \in ToSet(req.files) : index[f.query] \in Seq(IndexHits)
<1>1. \A q \in {req.task} \union ToSet(req.symbols) \union {f.query : f \in ToSet(req.files)} : index[q] \in Seq(IndexHits)
  BY TaskAssumption
<1>2. /\ req.symbols \in Seq(ToSet(req.symbols)) /\ req.files \in Seq(ToSet(req.files)) /\ req.cap \in Int
  BY TaskAssumption
<1> QED
  BY <1>1, <1>2

\* The matches of the hints.
LEMMA MatchesFit ==
    ASSUME NEW req \in Asks, index \in Indexes, NEW matches,
           matches = [i \in DOMAIN req.symbols |-> SymbolMatches(req.symbols[i])] \o
                     [i \in DOMAIN req.files |-> FileMatches(req.files[i])]
    PROVE  /\ matches \in Seq(Seq(Arts))
           /\ \A m \in ToSet(matches) : \/ \E s \in ToSet(req.symbols) : m = SymbolMatches(s)
                                        \/ \E f \in ToSet(req.files) : m = FileMatches(f)
<1> DEFINE a == [i \in DOMAIN req.symbols |-> SymbolMatches(req.symbols[i])]
           b == [i \in DOMAIN req.files |-> FileMatches(req.files[i])]
<1>1. /\ req.symbols \in Seq(ToSet(req.symbols)) /\ req.files \in Seq(ToSet(req.files))
      /\ \A s \in ToSet(req.symbols) : index[s] \in Seq(IndexHits)
      /\ \A f \in ToSet(req.files) : index[f.query] \in Seq(IndexHits)
  BY AskFits
<1>2. \A s \in ToSet(req.symbols) : SymbolMatches(s) \in Seq(Arts)
  BY <1>1, SymbolFits
<1>3. \A f \in ToSet(req.files) : FileMatches(f) \in Seq(Arts)
  BY <1>1, FileFits
<1>4. a \in Seq(Seq(Arts)) /\ \A m \in ToSet(a) : \E s \in ToSet(req.symbols) : m = SymbolMatches(s)
  <2>1. DOMAIN req.symbols = 1 .. Len(req.symbols) /\ Len(req.symbols) \in Nat
        /\ \A i \in DOMAIN req.symbols : req.symbols[i] \in ToSet(req.symbols)
    BY <1>1 DEF ToSet
  <2>2. \A i \in DOMAIN req.symbols : a[i] = SymbolMatches(req.symbols[i]) /\ a[i] \in Seq(Arts)
    BY <1>2, <2>1
  <2>3. DOMAIN a = DOMAIN req.symbols
    OBVIOUS
  <2>4. a \in Seq(Seq(Arts))
    BY <1>2, <2>1
  <2> HIDE DEF a
  <2> QED
    BY <2>1, <2>2, <2>3, <2>4 DEF ToSet
<1>5. b \in Seq(Seq(Arts)) /\ \A m \in ToSet(b) : \E f \in ToSet(req.files) : m = FileMatches(f)
  <2>1. DOMAIN req.files = 1 .. Len(req.files) /\ Len(req.files) \in Nat
        /\ \A i \in DOMAIN req.files : req.files[i] \in ToSet(req.files)
    BY <1>1 DEF ToSet
  <2>2. \A i \in DOMAIN req.files : b[i] = FileMatches(req.files[i]) /\ b[i] \in Seq(Arts)
    BY <1>3, <2>1
  <2>3. DOMAIN b = DOMAIN req.files
    OBVIOUS
  <2>4. b \in Seq(Seq(Arts))
    BY <1>3, <2>1
  <2> HIDE DEF b
  <2> QED
    BY <2>1, <2>2, <2>3, <2>4 DEF ToSet
<1> HIDE DEF a, b
<1>6. a \o b \in Seq(Seq(Arts)) /\ ToSet(a \o b) = ToSet(a) \union ToSet(b)
  BY <1>4, <1>5, JoinFits
<1>7. matches = a \o b
  BY DEF a, b
<1> QED
  BY <1>4, <1>5, <1>6, <1>7

\* The scope of the hints.
LEMMA HintsFit ==
    ASSUME NEW req \in Asks, index \in Indexes
    PROVE  ScopeHolds(req, FromHints(req))
<1> DEFINE matches == [i \in DOMAIN req.symbols |-> SymbolMatches(req.symbols[i])] \o
                      [i \in DOMAIN req.files |-> FileMatches(req.files[i])]
           one == {m \in ToSet(matches) : Len(m) = 1}
           more == {m \in ToSet(matches) : Len(m) > 1}
           definite == Among(matches, one)
           ents == [i \in DOMAIN definite |-> Entity(definite[i][1], "hint", "deterministic")]
           amb == Among(matches, more)
           qs == {q \in {"which"} : \E m \in ToSet(matches) : Len(m) > 1} \union
                 {q \in {"not_found"} : <<>> \in ToSet(matches)}
           s == [entities |-> ents, ambiguous |-> amb, questions |-> qs]
<1>1. /\ matches \in Seq(Seq(Arts))
      /\ \A m \in ToSet(matches) : \/ \E y \in ToSet(req.symbols) : m = SymbolMatches(y)
                                   \/ \E f \in ToSet(req.files) : m = FileMatches(f)
  <2> HIDE DEF matches
  <2>1. matches = [i \in DOMAIN req.symbols |-> SymbolMatches(req.symbols[i])] \o
                  [i \in DOMAIN req.files |-> FileMatches(req.files[i])]
    BY DEF matches
  <2> QED
    BY <2>1, MatchesFit, Zenon
<1>2. FromHints(req) = s
  BY Zenon DEF FromHints, HintScope, matches, one, more, definite, ents, amb, qs, s
<1> HIDE DEF matches
<1>3. definite \in Seq(Seq(Arts)) /\ ToSet(definite) \subseteq one
  <2>1. definite \in Seq(Seq(Arts)) /\ ToSet(definite) = ToSet(matches) \intersect one
    <3> HIDE DEF one
    <3> QED
      BY <1>1, AmongFits
  <2> QED
    BY <2>1
<1>4. amb \in Seq(Seq(Arts)) /\ ToSet(amb) \subseteq more
  <2>1. amb \in Seq(Seq(Arts)) /\ ToSet(amb) = ToSet(matches) \intersect more
    <3> HIDE DEF more
    <3> QED
      BY <1>1, AmongFits
  <2> QED
    BY <2>1
<1>5. amb # <<>> => "which" \in qs
  <2>1. ASSUME amb # <<>> PROVE \E m \in ToSet(matches) : Len(m) > 1
    <3>1. PICK m : m \in ToSet(amb)
      <4> HIDE DEF amb
      <4> QED
        BY <1>4, <2>1, SomeElement
    <3> QED
      BY <1>4, <3>1
  <2> QED
    BY <2>1
<1>6. amb \in Seq(Seq(Pointed))
  <2>1. Arts \subseteq Pointed
    BY DEF Pointed
  <2>2. \A m \in Seq(Arts) : m \in Seq(Pointed)
    BY <2>1, WiderSeq
  <2>3. Seq(Arts) \subseteq Seq(Pointed)
    BY <2>2
  <2> HIDE DEF amb
  <2> QED
    BY <1>4, <2>3, WiderSeq
<1> HIDE DEF amb, qs, definite, more
<1>7. DOMAIN definite = 1 .. Len(definite) /\ Len(definite) \in Nat /\ \A i \in DOMAIN definite : definite[i] \in one
  BY <1>3 DEF ToSet
<1>8. \A m \in one : m \in Seq(Arts) /\ Len(m) = 1 /\ m[1] \in Arts /\ ToSet(m) = {m[1]}
  <2>1. ASSUME NEW m \in one PROVE m \in Seq(Arts) /\ Len(m) = 1
    <3>1. m \in ToSet(matches) /\ Len(m) = 1
      OBVIOUS
    <3>2. \A x \in ToSet(matches) : x \in Seq(Arts)
      BY <1>1 DEF ToSet
    <3> QED
      BY <3>1, <3>2
  <2> QED
    BY <2>1, OnlyOne
<1>9. \A m \in one : Entity(m[1], "hint", "deterministic") \in Founds
                     /\ Explained(req, Entity(m[1], "hint", "deterministic"))
  <2>1. ASSUME NEW m \in one
        PROVE  Entity(m[1], "hint", "deterministic") \in Founds /\ Explained(req, Entity(m[1], "hint", "deterministic"))
    <3> DEFINE e == Entity(m[1], "hint", "deterministic")
    <3>1. e \in Founds /\ e.id = m[1]
      BY <1>8, <2>1 DEF Entity, Founds, Sources, Tiers
    <3> HIDE DEF e
    <3>2. m \in ToSet(matches)
      BY <2>1
    <3>3. ASSUME NEW y \in ToSet(req.symbols), m = SymbolMatches(y) PROVE Explained(req, e)
      <4>1. ToSet(m) = {a \in FoundBy(index, y, SearchTop) : Art[a].type \in SymbolTypes /\ Art[a].title = y}
        BY <3>3, AskFits, SymbolFits
      <4>2. {a \in FoundBy(index, y, SearchTop) : Art[a].type \in SymbolTypes /\ Art[a].title = y} = {e.id}
        BY <1>8, <2>1, <3>1, <4>1
      <4> QED
        BY <4>2, <3>3, Zenon DEF Explained
    <3>4. ASSUME NEW f \in ToSet(req.files), m = FileMatches(f) PROVE Explained(req, e)
      <4> DEFINE fitting == {a \in FoundBy(index, f.query, SearchTop) : Art[a].path \in f.paths}
      <4>1. index[f.query] \in Seq(IndexHits) /\ Len(FileMatches(f)) = 1
        BY <1>8, <2>1, <3>4, AskFits
      <4>2. /\ FileMatches(f)[1] \in fitting
            /\ \A a \in fitting : /\ Art[a].path = Art[FileMatches(f)[1]].path
                                  /\ Art[a].type = "code_file" => Art[FileMatches(f)[1]].type = "code_file"
        BY <4>1, FileFits
      <4>3. /\ e.id \in fitting
            /\ \A a \in fitting : /\ Art[a].path = Art[e.id].path
                                  /\ Art[a].type = "code_file" => Art[e.id].type = "code_file"
        BY <3>1, <3>4, <4>2
      <4> QED
        BY <4>3, <3>4, Zenon DEF Explained
    <3> QED
      BY <1>1, <3>1, <3>2, <3>3, <3>4 DEF e
  <2> QED
    BY <2>1
<1> HIDE DEF one
<1>10. ents \in Seq(Founds) /\ \A e \in ToSet(ents) : Explained(req, e)
  <2>1. \A i \in DOMAIN definite : Entity(definite[i][1], "hint", "deterministic") \in Founds
                                   /\ Explained(req, Entity(definite[i][1], "hint", "deterministic"))
    BY <1>7, <1>9
  <2>2. ents \in Seq(Founds)
    BY <1>7, <2>1
  <2>3. \A e \in ToSet(ents) : Explained(req, e)
    BY <2>1 DEF ToSet
  <2> QED
    BY <2>2, <2>3
<1> HIDE DEF ents
<1>11. ScopeHolds(req, s)
  BY <1>5, <1>6, <1>10 DEF ScopeHolds
<1> QED
  BY <1>2, <1>11

--------------------------------------------------------------------------------
\* A list is one of any set that holds its elements.
LEMMA SeqOfElements ==
    ASSUME NEW A, NEW B, NEW s \in Seq(A), ToSet(s) \subseteq B
    PROVE  s \in Seq(B)
<1>1. DOMAIN s = 1 .. Len(s) /\ Len(s) \in Nat /\ \A i \in DOMAIN s : s[i] \in B
  BY DEF ToSet
<1> QED
  BY <1>1

\* A scope whose entities are not of hints.
LEMMA ScopeOf ==
    ASSUME NEW req, NEW s, s.entities \in Seq(Founds), s.ambiguous \in Seq(Seq(Pointed)),
           s.ambiguous # <<>> => "which" \in s.questions,
           \A e \in ToSet(s.entities) : e.src # "hint"
    PROVE  ScopeHolds(req, s)
  BY DEF ScopeHolds

\* Nothing found is a scope.
LEMMA NoScopeFits ==
    ASSUME NEW req
    PROVE  ScopeHolds(req, NoScope)
<1>1. NoScope.entities = <<>> /\ NoScope.ambiguous = <<>>
  BY DEF NoScope
<1>2. <<>> \in Seq(Founds) /\ <<>> \in Seq(Seq(Pointed)) /\ ToSet(<<>>) = {}
  BY DEF ToSet
<1> QED
  BY <1>1, <1>2, ScopeOf

\* Entities of some artifacts.
LEMMA EntitiesFit ==
    ASSUME NEW ids \in Seq(Arts), NEW src \in {"alias_index", "search"}, NEW tier \in Tiers, NEW n \in Nat
    PROVE  LET s == [i \in DOMAIN ids |-> Entity(ids[i], src, tier)]
           IN  /\ s \in Seq(Founds) /\ \A e \in ToSet(s) : e.src # "hint"
               /\ FirstN(s, n) \in Seq(Founds) /\ \A e \in ToSet(FirstN(s, n)) : e.src # "hint"
<1> DEFINE s == [i \in DOMAIN ids |-> Entity(ids[i], src, tier)]
<1>1. DOMAIN ids = 1 .. Len(ids) /\ Len(ids) \in Nat /\ \A i \in DOMAIN ids : ids[i] \in Arts
  OBVIOUS
<1>2. \A i \in DOMAIN ids : Entity(ids[i], src, tier) \in Founds /\ Entity(ids[i], src, tier).src = src
  BY <1>1 DEF Entity, Founds, Sources
<1>3. s \in Seq(Founds)
  BY <1>1, <1>2
<1>4. \A e \in ToSet(s) : e.src # "hint"
  BY <1>2 DEF ToSet
<1> HIDE DEF s
<1>5. FirstN(s, n) \in Seq(Founds) /\ ToSet(FirstN(s, n)) \subseteq ToSet(s)
  BY <1>3, FirstNFits
<1> QED
  BY <1>3, <1>4, <1>5 DEF s

\* The targets of an alias.
LEMMA TargetsFit ==
    ASSUME NEW a \in Arts, Art[a].type = "alias_reference"
    PROVE  AliasTargets[a] \in Seq(Pointed) /\ AliasTier[a] \in Tiers
<1>1. AliasTargets[a] \in Seq(ToSet(AliasTargets[a])) /\ AliasTier[a] \in Tiers
  BY TaskAssumption
<1>2. ToSet(AliasTargets[a]) \subseteq Pointed
  BY DEF Pointed
<1> DEFINE s == AliasTargets[a]
           A == ToSet(s)
<1>3. s \in Seq(A) /\ A \subseteq Pointed
  BY <1>1, <1>2
<1> HIDE DEF s, A
<1>4. s \in Seq(Pointed)
  BY <1>3, WiderSeq
<1> QED
  BY <1>1, <1>4 DEF s

\* The scope of the alias index.
LEMMA AliasFits ==
    ASSUME NEW req, NEW rows \in Seq(IndexHits)
    PROVE  ScopeHolds(req, FromAlias(rows))
<1> DEFINE W == {h \in ToSet(rows) : Art[h.id].type \in {"alias_reference"}}
           al == Among(rows, W)
           top == al[1].id
           V == {h \in ToSet(al) : /\ 10 * h.score >= 8 * al[1].score
                                   /\ AliasTargets[h.id] # <<>>
                                   /\ ToSet(AliasTargets[h.id]) # ToSet(AliasTargets[top])}
           differing == Among(Tail(al), V)
           lists == [i \in DOMAIN differing |-> AliasTargets[differing[i].id]]
           all == Firsts(AliasTargets[top] \o FlattenSeq(lists))
           known == Among(AliasTargets[top], VisibleArts)
           many == [NoScope EXCEPT !.ambiguous = <<all>>, !.questions = {"which"}]
           s == [i \in DOMAIN known |-> Entity(known[i], "alias_index", AliasTier[top])]
           few == [NoScope EXCEPT !.entities = FirstN(s, MaxEntities)]
<1>1. FromAlias(rows) = IF al = <<>> THEN NoScope
                        ELSE IF AliasTargets[top] = <<>> THEN NoScope
                        ELSE IF differing # <<>> THEN many ELSE few
  BY Zenon DEF FromAlias, OfType, W, al, top, V, differing, lists, all, known, many, s, few
<1>2. al \in Seq(IndexHits) /\ ToSet(al) \subseteq W
  <2>1. al \in Seq(IndexHits) /\ ToSet(al) = ToSet(rows) \intersect W
    <3> HIDE DEF W
    <3> QED
      BY AmongFits
  <2> QED
    BY <2>1
<1> HIDE DEF al
<1>3. \A h \in ToSet(al) : h \in IndexHits /\ h.id \in Arts /\ Art[h.id].type = "alias_reference"
  <2>1. \A h \in ToSet(rows) : h \in IndexHits
    BY DEF ToSet
  <2>2. \A h \in IndexHits : h.id \in Arts
    BY DEF IndexHits
  <2> QED
    BY <1>2, <2>1, <2>2
<1> HIDE DEF W
<1>4. \A h \in ToSet(al) : AliasTargets[h.id] \in Seq(Pointed) /\ AliasTier[h.id] \in Tiers
  BY <1>3, TargetsFit
<1>5. ASSUME al # <<>> PROVE ScopeHolds(req, many) /\ ScopeHolds(req, few)
  <2>1. /\ al[1] \in ToSet(al) /\ Tail(al) \in Seq(IndexHits) /\ ToSet(Tail(al)) \subseteq ToSet(al)
    <3>1. /\ Tail(al) \in Seq(IndexHits) /\ Len(al) > 0 /\ Len(al) \in Nat
          /\ \A k \in 1 .. Len(al) - 1 : Tail(al)[k] = al[k + 1]
          /\ DOMAIN Tail(al) = 1 .. Len(al) - 1 /\ DOMAIN al = 1 .. Len(al)
      BY <1>2, <1>5, TailFits
    <3>2. \A k \in 1 .. Len(al) - 1 : k + 1 \in DOMAIN al
      BY <3>1
    <3>3. 1 \in DOMAIN al
      BY <3>1
    <3> QED
      BY <3>1, <3>2, <3>3 DEF ToSet
  <2>2. AliasTargets[top] \in Seq(Pointed) /\ AliasTier[top] \in Tiers
    BY <1>4, <2>1
  <2>3. differing \in Seq(IndexHits) /\ ToSet(differing) \subseteq ToSet(al)
    <3>1. differing \in Seq(IndexHits) /\ ToSet(differing) = ToSet(Tail(al)) \intersect V
      <4> HIDE DEF V
      <4> QED
        BY <2>1, AmongFits
    <3> QED
      BY <2>1, <3>1
  <2> HIDE DEF differing, top
  <2>4. lists \in Seq(Seq(Pointed))
    <3>1. /\ DOMAIN differing = 1 .. Len(differing) /\ Len(differing) \in Nat
          /\ \A i \in DOMAIN differing : differing[i] \in ToSet(al)
      BY <2>3 DEF ToSet
    <3>2. \A i \in DOMAIN differing : AliasTargets[differing[i].id] \in Seq(Pointed)
      BY <1>4, <3>1
    <3> QED
      BY <3>1, <3>2
  <2> HIDE DEF lists
  <2>5. all \in Seq(Pointed)
    <3>1. FlattenSeq(lists) \in Seq(Pointed)
      <4>1. <<>> \in Seq(Pointed)
        OBVIOUS
      <4> QED
        BY <2>4, <4>1, FlattenGrows
    <3>2. AliasTargets[top] \o FlattenSeq(lists) \in Seq(Pointed)
      BY <2>2, <3>1, JoinHolds
    <3> QED
      BY <3>2, FirstsFit
  <2> HIDE DEF all
  <2>6. ScopeHolds(req, many)
    <3>1. many.entities = <<>> /\ many.ambiguous = <<all>> /\ many.questions = {"which"}
      BY DEF NoScope
    <3>2. <<>> \in Seq(Founds) /\ ToSet(<<>>) = {} /\ <<all>> \in Seq(Seq(Pointed))
      BY <2>5 DEF ToSet
    <3> HIDE DEF many
    <3> QED
      BY <3>1, <3>2, ScopeOf
  <2>7. known \in Seq(Arts)
    <3>1. known \in Seq(Pointed) /\ ToSet(known) = ToSet(AliasTargets[top]) \intersect VisibleArts
      BY <2>2, AmongFits
    <3>2. ToSet(known) \subseteq Arts
      BY <3>1 DEF VisibleArts
    <3> HIDE DEF known
    <3> QED
      BY <3>1, <3>2, SeqOfElements
  <2> HIDE DEF known
  <2>8. FirstN(s, MaxEntities) \in Seq(Founds) /\ \A e \in ToSet(FirstN(s, MaxEntities)) : e.src # "hint"
    <3>1. MaxEntities \in Nat /\ "alias_index" \in {"alias_index", "search"}
      BY TaskAssumption
    <3> QED
      BY <2>2, <2>7, <3>1, EntitiesFit
  <2>9. ScopeHolds(req, few)
    <3>1. few.entities = FirstN(s, MaxEntities) /\ few.ambiguous = <<>>
      BY DEF NoScope
    <3>2. <<>> \in Seq(Seq(Pointed))
      OBVIOUS
    <3> HIDE DEF few, s
    <3> QED
      BY <2>8, <3>1, <3>2, ScopeOf
  <2> QED
    BY <2>6, <2>9
<1> HIDE DEF many, few
<1> QED
  BY <1>1, <1>5, NoScopeFits

\* The scope of the search.
LEMMA SearchFits ==
    ASSUME NEW req, NEW rows \in Seq(IndexHits), NEW broad
    PROVE  ScopeHolds(req, FromSearch(rows, broad))
<1> DEFINE W == {a \in Arts : IF broad THEN Art[a].type \notin {"alias_reference", "commit"}
                              ELSE Art[a].type \in CodeTypes}
           m == Among(Ids(rows), W)
           c == FirstN(m, MaxEntities)
           s == [i \in DOMAIN c |-> Entity(c[i], "search", "interpreted")]
           q == [NoScope EXCEPT !.entities = s]
<1>1. FromSearch(rows, broad) = q
  BY Zenon DEF FromSearch, W, m, c, s, q
<1>2. Ids(rows) \in Seq(Arts)
  <2>1. \A h \in IndexHits : h.id \in Arts
    BY DEF IndexHits
  <2> QED
    BY <2>1, IdsFit
<1>3. m \in Seq(Arts)
  <2> HIDE DEF W
  <2> QED
    BY <1>2, AmongFits
<1>4. MaxEntities \in Nat /\ "search" \in {"alias_index", "search"} /\ "interpreted" \in Tiers
  BY TaskAssumption DEF Tiers
<1> HIDE DEF m
<1>5. c \in Seq(Arts)
  BY <1>3, <1>4, FirstNFits
<1> HIDE DEF c
<1>6. s \in Seq(Founds) /\ \A e \in ToSet(s) : e.src # "hint"
  BY <1>4, <1>5, EntitiesFit
<1> HIDE DEF s
<1>7. q.entities = s /\ q.ambiguous = <<>> /\ <<>> \in Seq(Seq(Pointed))
  BY DEF NoScope
<1> HIDE DEF q
<1>8. ScopeHolds(req, q)
  BY <1>6, <1>7, ScopeOf
<1> QED
  BY <1>1, <1>8

\* A scope with more questions.
LEMMA MoreQuestions ==
    ASSUME NEW req, NEW s, ScopeHolds(req, s), NEW Q, s.questions \subseteq Q,
           s = [entities |-> s.entities, ambiguous |-> s.ambiguous, questions |-> s.questions]
    PROVE  ScopeHolds(req, [s EXCEPT !.questions = Q])
<1> DEFINE q == [s EXCEPT !.questions = Q]
<1>1. q.entities = s.entities /\ q.ambiguous = s.ambiguous /\ q.questions = Q
  OBVIOUS
<1> HIDE DEF q
<1>2. ScopeHolds(req, q)
  BY <1>1 DEF ScopeHolds
<1> QED
  BY <1>2 DEF q

\* The scope that a node resolves, in whatever state it finds the index.
LEMMA ResolveFits ==
    ASSUME NEW req \in Asks, index \in Indexes, NEW broad
    PROVE  ScopeHolds(req, Resolve(req, broad))
<1> DEFINE hints == FromHints(req)
           rows == SearchRows(req.task, IF broad THEN BroadTop ELSE SearchTop)
           alias == FromAlias(rows)
           search == FromSearch(rows, broad)
           a == [alias EXCEPT !.questions = alias.questions \union hints.questions]
           b == [search EXCEPT !.questions = hints.questions]
<1>1. Resolve(req, broad) = IF ~Unresolved(hints) THEN hints
                            ELSE IF ~Unresolved(alias) THEN a ELSE b
  BY Zenon DEF Resolve, hints, rows, alias, search, a, b
<1>2. ScopeHolds(req, hints)
  BY HintsFit
<1>3. rows \in Seq(IndexHits)
  <2>1. index[req.task] \in Seq(IndexHits) /\ BroadTop \in Nat /\ SearchTop \in Nat
    BY AskFits, TaskAssumption
  <2> DEFINE top == IF broad THEN BroadTop ELSE SearchTop
  <2>2. top \in Nat
    BY <2>1
  <2> HIDE DEF top
  <2>3. SearchRows(req.task, top) \in Seq(IndexHits)
    BY <2>1, <2>2, RowsFit
  <2> QED
    BY <2>3 DEF top
<1> HIDE DEF rows, hints
<1>4. ScopeHolds(req, alias) /\ ScopeHolds(req, search)
  BY <1>3, AliasFits, SearchFits
<1>5. alias = [entities |-> alias.entities, ambiguous |-> alias.ambiguous, questions |-> alias.questions]
  BY DEF FromAlias, NoScope
<1>6. search.questions = {} /\ search = [entities |-> search.entities, ambiguous |-> search.ambiguous, questions |-> search.questions]
  <2>1. PICK x : search = [NoScope EXCEPT !.entities = x]
    <3>1. \E x : search = [NoScope EXCEPT !.entities = x]
      BY Zenon DEF FromSearch
    <3> QED
      BY <3>1
  <2> HIDE DEF search
  <2> QED
    BY <2>1 DEF NoScope
<1> HIDE DEF alias, search
<1>7. ScopeHolds(req, a)
  BY <1>4, <1>5, MoreQuestions
<1>8. ScopeHolds(req, b)
  BY <1>4, <1>6, MoreQuestions
<1> HIDE DEF a, b
<1> QED
  BY <1>1, <1>2, <1>7, <1>8

--------------------------------------------------------------------------------
(* The task context: the edges around a scope *)

\* The edges of the version.
LEMMA LinksFit ==
    /\ Links \in Seq(ToSet(Links)) /\ IsFiniteSet(ToSet(Links))
    /\ \A e \in ToSet(Links) : e.a \in Arts /\ e.b \in Arts
<1>1. Links \in Seq(ToSet(Links)) /\ \A e \in ToSet(Links) : e.a \in Arts /\ e.b \in Arts
  BY TaskAssumption
<1> DEFINE A == ToSet(Links)
<1>2. Links \in Seq(A)
  BY <1>1
<1> HIDE DEF A
<1>3. IsFiniteSet(ToSet(Links))
  BY <1>2, FewElements
<1> QED
  BY <1>1, <1>3

\* The edges of these types at these ends.
LEMMA TouchingFits ==
    ASSUME NEW ids, NEW types
    PROVE  /\ Touching(ids, types) \in Seq(ToSet(Links))
           /\ ToSet(Touching(ids, types)) =
                {e \in ToSet(Links) : e.type \in types /\ (e.a \in ids \/ e.b \in ids)}
<1> DEFINE W == {e \in ToSet(Links) : e.type \in types /\ (e.a \in ids \/ e.b \in ids)}
           A == ToSet(Links)
           t == Among(Links, W)
<1>1. Touching(ids, types) = t
  BY Zenon DEF Touching, t, W
<1>2. W \subseteq A /\ Links \in Seq(A)
  BY LinksFit
<1> HIDE DEF W, A
<1>3. t \in Seq(A) /\ ToSet(t) = ToSet(Links) \intersect W
  BY <1>2, AmongFits
<1>4. ToSet(t) = W
  BY <1>2, <1>3 DEF A
<1> HIDE DEF t
<1> QED
  BY <1>1, <1>3, <1>4 DEF A, W

\* The first edges into the seeds.
LEMMA IntoFits ==
    ASSUME NEW links \in Seq(ToSet(Links)), NEW seeds, NEW types
    PROVE  /\ Into(links, seeds, types) \in Seq(ToSet(Links))
           /\ \A e \in ToSet(Into(links, seeds, types)) :
                e \in ToSet(links) /\ e \in ToSet(Links) /\ e.type \in types /\ e.b \in seeds /\ e.a \notin seeds
<1> DEFINE W == {e \in ToSet(links) : e.type \in types /\ e.b \in seeds /\ e.a \notin seeds}
           A == ToSet(Links)
           t == Among(links, W)
           f == FirstN(t, MaxNeighbors)
<1>1. Into(links, seeds, types) = f
  BY Zenon DEF Into, f, t, W
<1>2. links \in Seq(A) /\ MaxNeighbors \in Nat
  BY TaskAssumption
<1> HIDE DEF A
<1>3. t \in Seq(A) /\ ToSet(t) \subseteq W
  <2>1. t \in Seq(A) /\ ToSet(t) = ToSet(links) \intersect W
    <3> HIDE DEF W
    <3> QED
      BY <1>2, AmongFits
  <2> QED
    BY <2>1
<1> HIDE DEF t
<1>4. f \in Seq(A) /\ ToSet(f) \subseteq ToSet(t)
  BY <1>2, <1>3, FirstNFits
<1>5. ToSet(links) \subseteq A
  BY <1>2 DEF ToSet
<1> HIDE DEF f
<1>6. \A e \in ToSet(f) : e \in ToSet(links) /\ e \in A /\ e.type \in types /\ e.b \in seeds /\ e.a \notin seeds
  BY <1>3, <1>4, <1>5
<1> QED
  BY <1>1, <1>4, <1>6 DEF A

\* The first edges out of the seeds.
LEMMA OutOfFits ==
    ASSUME NEW links \in Seq(ToSet(Links)), NEW seeds, NEW types
    PROVE  /\ OutOf(links, seeds, types) \in Seq(ToSet(Links))
           /\ \A e \in ToSet(OutOf(links, seeds, types)) :
                e \in ToSet(links) /\ e \in ToSet(Links) /\ e.type \in types /\ e.a \in seeds /\ e.b \notin seeds
<1> DEFINE W == {e \in ToSet(links) : e.type \in types /\ e.a \in seeds /\ e.b \notin seeds}
           A == ToSet(Links)
           t == Among(links, W)
           f == FirstN(t, MaxNeighbors)
<1>1. OutOf(links, seeds, types) = f
  BY Zenon DEF OutOf, f, t, W
<1>2. links \in Seq(A) /\ MaxNeighbors \in Nat
  BY TaskAssumption
<1> HIDE DEF A
<1>3. t \in Seq(A) /\ ToSet(t) \subseteq W
  <2>1. t \in Seq(A) /\ ToSet(t) = ToSet(links) \intersect W
    <3> HIDE DEF W
    <3> QED
      BY <1>2, AmongFits
  <2> QED
    BY <2>1
<1> HIDE DEF t
<1>4. f \in Seq(A) /\ ToSet(f) \subseteq ToSet(t)
  BY <1>2, <1>3, FirstNFits
<1>5. ToSet(links) \subseteq A
  BY <1>2 DEF ToSet
<1> HIDE DEF f
<1>6. \A e \in ToSet(f) : e \in ToSet(links) /\ e \in A /\ e.type \in types /\ e.a \in seeds /\ e.b \notin seeds
  BY <1>3, <1>4, <1>5
<1> QED
  BY <1>1, <1>4, <1>6 DEF A

\* Each definition's file is one that an edge gives.
LEMMA DefinedInFits ==
    ASSUME NEW A, NEW in1 \in Seq(A), NEW in2 \in Seq(A)
    PROVE  /\ \A e \in ToSet(in1) \union ToSet(in2) : e.a \in DOMAIN DefiningFile(in1, in2)
           /\ \A x \in DOMAIN DefiningFile(in1, in2) :
                \E e \in ToSet(in1) \union ToSet(in2) : e.a = x /\ DefiningFile(in1, in2)[x] = e.b
<1> DEFINE def(s, a) == {i \in DOMAIN s : s[i].a = a}
           D == {e.a : e \in ToSet(in1) \union ToSet(in2)}
           f == [a \in D |-> IF def(in1, a) # {} THEN in1[Max(def(in1, a))].b ELSE in2[Min(def(in2, a))].b]
<1>1. DefiningFile(in1, in2) = f
  BY Zenon DEF DefiningFile, f, D, def
<1>2. /\ DOMAIN in1 = 1 .. Len(in1) /\ Len(in1) \in Nat
      /\ DOMAIN in2 = 1 .. Len(in2) /\ Len(in2) \in Nat
  OBVIOUS
<1>3. ASSUME NEW x \in D PROVE \E e \in ToSet(in1) \union ToSet(in2) : e.a = x /\ f[x] = e.b
  <2>1. CASE def(in1, x) # {}
    <3> DEFINE S == def(in1, x)
               m == Max(S)
    <3>1. S \in SUBSET (1 .. Len(in1)) /\ S # {}
      BY <1>2, <2>1
    <3>2. m \in S
      <4> HIDE DEF S
      <4> QED
        BY <1>2, <3>1, MaxOfSome
    <3> HIDE DEF m
    <3>3. in1[m].a = x /\ in1[m] \in ToSet(in1)
      BY <3>2 DEF ToSet
    <3>4. f[x] = in1[m].b
      BY <2>1 DEF m
    <3> QED
      BY <3>3, <3>4
  <2>2. CASE def(in1, x) = {}
    <3> DEFINE S == def(in2, x)
               m == Min(S)
    <3>1. S \in SUBSET (0 .. Len(in2)) /\ S # {}
      BY <1>2, <2>2 DEF ToSet
    <3>2. m \in S
      <4> HIDE DEF S
      <4> QED
        BY <1>2, <3>1, MinOfSome
    <3> HIDE DEF m
    <3>3. in2[m].a = x /\ in2[m] \in ToSet(in2)
      BY <3>2 DEF ToSet
    <3>4. f[x] = in2[m].b
      BY <2>2 DEF m
    <3> QED
      BY <3>3, <3>4
  <2> QED
    BY <2>1, <2>2
<1>4. DOMAIN f = D
  OBVIOUS
<1> HIDE DEF f
<1> QED
  BY <1>1, <1>3, <1>4

\* The files of a definition, when there is one only.
LEMMA OneFile ==
    ASSUME NEW x, Cardinality(DefinedFiles(x)) <= 1, NEW f \in DefinedFiles(x)
    PROVE  DefinedFiles(x) = {f}
<1>1. IsFiniteSet(DefinedFiles(x))
  <2> DEFINE S == {e \in ToSet(Links) : e.type = "defined_in" /\ e.a = x}
             g == [e \in S |-> e.b]
  <2>1. IsFiniteSet(S)
    BY LinksFit, FS_Subset
  <2>2. g \in Surjection(S, DefinedFiles(x))
    BY DEF DefinedFiles, Surjection
  <2> HIDE DEF S, g
  <2> QED
    BY <2>1, <2>2, FS_Surjection
<1>2. {f} \in SUBSET DefinedFiles(x) /\ IsFiniteSet({f}) /\ Cardinality({f}) = 1
  BY FS_Singleton
<1>3. Cardinality({f}) <= Cardinality(DefinedFiles(x)) /\ (Cardinality(DefinedFiles(x)) = Cardinality({f}) => DefinedFiles(x) = {f})
  BY <1>1, <1>2, FS_Subset
<1>4. Cardinality(DefinedFiles(x)) \in Nat
  BY <1>1, FS_CardinalityType
<1> QED
  BY <1>2, <1>3, <1>4

\* What the two hops find around the seeds.
Around(seeds, near, F, imports) ==
  LET defs == {l \in ToSet(Links) : l.type = "defined_in" /\ {l.a, l.b} \intersect (seeds \union near) # {}}
  IN  /\ \A l \in defs : {l.a, l.b} \intersect seeds # {} => l.b \in near
      /\ \A l \in defs : l.a \in DOMAIN F
      /\ \A x \in DOMAIN F : \E l \in defs : l.a = x /\ F[x] = l.b
      /\ \A p \in imports : \E l \in ToSet(Links) : l.type = "imports" /\ p = <<l.a, l.b>>
      /\ \A l \in ToSet(Links) : l.type = "imports" /\ {l.a, l.b} \intersect near # {} => <<l.a, l.b>> \in imports

\* The tier of a call between the seeds and their neighbours is what the graph says of it.
LEMMA CallTierFits ==
    ASSUME NEW seeds, NEW near, NEW F, NEW imports, Around(seeds, near, F, imports),
           NEW e, e.a \in seeds \/ e.b \in seeds, e.a \in seeds \union near, e.b \in seeds \union near,
           Cardinality(DefinedFiles(e.a)) <= 1, Cardinality(DefinedFiles(e.b)) <= 1
    PROVE  (CallTier(F, imports, e) = "deterministic") = Corroborated(e)
<1> DEFINE defs == {l \in ToSet(Links) : l.type = "defined_in" /\ {l.a, l.b} \intersect (seeds \union near) # {}}
<1>1. /\ \A l \in defs : l.a \in seeds \/ l.b \in seeds => l.b \in near
      /\ \A l \in defs : l.a \in DOMAIN F
  BY DEF Around
<1>2. \A x \in DOMAIN F : \E l \in defs : l.a = x /\ F[x] = l.b
  BY Zenon DEF Around
<1>3. \A p \in imports : \E l \in ToSet(Links) : l.type = "imports" /\ p = <<l.a, l.b>>
  BY Zenon DEF Around
<1>4. \A l \in ToSet(Links) : l.type = "imports" /\ (l.a \in near \/ l.b \in near) => <<l.a, l.b>> \in imports
  BY DEF Around
<1> HIDE DEF defs
<1>5. /\ \A l \in defs : l \in ToSet(Links) /\ l.type = "defined_in"
      /\ \A l \in ToSet(Links) : l.type = "defined_in" /\ l.a \in seeds \union near => l \in defs
  BY DEF defs
<1>6. \A x \in {e.a, e.b} : (x \in DOMAIN F <=> DefinedFiles(x) # {}) /\ (x \in DOMAIN F => DefinedFiles(x) = {F[x]})
  <2>1. ASSUME NEW x \in {e.a, e.b}, DefinedFiles(x) # {} PROVE x \in DOMAIN F
    <3>1. PICK l \in ToSet(Links) : l.type = "defined_in" /\ l.a = x
      BY <2>1 DEF DefinedFiles
    <3> QED
      BY <1>1, <1>5, <3>1
  <2>2. ASSUME NEW x \in {e.a, e.b}, x \in DOMAIN F PROVE DefinedFiles(x) = {F[x]}
    <3>1. PICK l \in defs : l.a = x /\ F[x] = l.b
      BY <1>2, <2>2
    <3>2. F[x] \in DefinedFiles(x)
      BY <1>5, <3>1 DEF DefinedFiles
    <3>3. Cardinality(DefinedFiles(x)) <= 1
      BY <2>2
    <3> QED
      BY <3>2, <3>3, OneFile
  <2> QED
    BY <2>1, <2>2
<1>7. \A x \in {e.a, e.b} : x \in seeds /\ x \in DOMAIN F => F[x] \in near
  <2>1. ASSUME NEW x \in {e.a, e.b}, x \in seeds, x \in DOMAIN F PROVE F[x] \in near
    <3>1. F[x] \in DefinedFiles(x)
      BY <1>6, <2>1
    <3>2. PICK l \in ToSet(Links) : l.type = "defined_in" /\ l.a = x /\ l.b = F[x]
      BY <3>1 DEF DefinedFiles
    <3> QED
      BY <1>1, <1>5, <2>1, <3>2
  <2> QED
    BY <2>1
<1>8. ASSUME Corroborated(e) PROVE CallTier(F, imports, e) = "deterministic"
  <2>1. PICK f \in DefinedFiles(e.a), g \in DefinedFiles(e.b) :
               f = g \/ \E x \in ToSet(Links) : x.type = "imports" /\ x.a = f /\ x.b = g
    BY <1>8 DEF Corroborated
  <2>2. e.a \in DOMAIN F /\ e.b \in DOMAIN F /\ F[e.a] = f /\ F[e.b] = g
    BY <1>6, <2>1
  <2>3. f = g \/ <<f, g>> \in imports
    <3>1. f \in near \/ g \in near
      BY <1>7, <2>2
    <3> QED
      BY <1>4, <2>1, <3>1
  <2> QED
    BY <2>2, <2>3 DEF CallTier
<1>9. ASSUME CallTier(F, imports, e) = "deterministic" PROVE Corroborated(e)
  <2>1. e.a \in DOMAIN F /\ e.b \in DOMAIN F /\ (F[e.a] = F[e.b] \/ <<F[e.a], F[e.b]>> \in imports)
    BY <1>9 DEF CallTier
  <2>2. F[e.a] \in DefinedFiles(e.a) /\ F[e.b] \in DefinedFiles(e.b)
    BY <1>6, <2>1
  <2>3. F[e.a] = F[e.b] \/ \E x \in ToSet(Links) : x.type = "imports" /\ x.a = F[e.a] /\ x.b = F[e.b]
    BY <1>3, <2>1
  <2> QED
    BY <2>2, <2>3 DEF Corroborated
<1>10. (CallTier(F, imports, e) = "deterministic") \in BOOLEAN /\ Corroborated(e) \in BOOLEAN
  BY DEF Corroborated
<1> QED
  BY <1>8, <1>9, <1>10

--------------------------------------------------------------------------------
(* The task context: the blast radius *)

\* The tiers that an entry may have.
LEMMA EntryFits ==
    ASSUME NEW n \in Arts, NEW e \in ToSet(Links), NEW F, NEW imports
    PROVE  /\ Entry(n, e, F, imports) \in Entries /\ Entry(n, e, F, imports).edge = e
           /\ e.type = "calls" => Entry(n, e, F, imports).tier = CallTier(F, imports, e)
<1>1. CallTier(F, imports, e) \in Tiers /\ "deterministic" \in Tiers
  BY DEF CallTier, Tiers
<1> QED
  BY <1>1 DEF Entry, Entries

\* The entries a requester is shown are some of those there are.
LEMMA ShownFits ==
    ASSUME NEW entries \in Seq(Entries)
    PROVE  Shown(entries) \in Seq(Entries) /\ ToSet(Shown(entries)) \subseteq ToSet(entries)
<1> DEFINE W == {x \in ToSet(entries) : x.id \in VisibleArts}
           seen == Among(entries, W)
<1>1. Shown(entries) = ByRank(seen, Ids(seen))
  BY Zenon DEF Shown, W, seen
<1> HIDE DEF W
<1>2. seen \in Seq(Entries) /\ ToSet(seen) \subseteq ToSet(entries)
  BY AmongFits
<1> HIDE DEF seen
<1>3. \A x \in Entries : x.id \in Arts
  BY DEF Entries
<1>4. Ids(seen) \in Seq(Arts) /\ Len(Ids(seen)) = Len(seen)
  BY <1>2, <1>3, IdsFit
<1>5. ByRank(seen, Ids(seen)) \in Seq(Entries) /\ ToSet(ByRank(seen, Ids(seen))) \subseteq ToSet(seen)
  BY <1>2, <1>4, ByRankFits
<1> QED
  BY <1>1, <1>2, <1>5

\* A tier says what the graph says, where every definition has one file.
TierHolds(n) ==
  n.edge.type = "calls" /\ Cardinality(DefinedFiles(n.edge.a)) <= 1 /\ Cardinality(DefinedFiles(n.edge.b)) <= 1
    => (n.tier = "deterministic") = Corroborated(n.edge)

\* What a blast radius may be.
BlastHolds(bl) ==
  /\ bl.callers \in Seq(Entries) /\ bl.callees \in Seq(Entries) /\ bl.tests \in Seq(Entries) /\ bl.queries \in Nat
  /\ \A n \in ToSet(bl.callers) \union ToSet(bl.callees) : TierHolds(n)

\* A list of entries, one for every edge.
EntriesOf(s, es, F, imports) ==
  s = [i \in DOMAIN es |-> s[i]] /\ \A i \in DOMAIN es : \E n \in Arts : s[i] = Entry(n, es[i], F, imports)

\* The entries of some edges.
LEMMA EntriesFit ==
    ASSUME NEW es \in Seq(ToSet(Links)), NEW F, NEW imports, NEW s, EntriesOf(s, es, F, imports)
    PROVE  /\ s \in Seq(Entries)
           /\ \A n \in ToSet(s) : n.edge \in ToSet(es) /\ (n.edge.type = "calls" => n.tier = CallTier(F, imports, n.edge))
<1>1. DOMAIN es = 1 .. Len(es) /\ Len(es) \in Nat /\ \A i \in DOMAIN es : es[i] \in ToSet(Links) /\ es[i] \in ToSet(es)
  <2> DEFINE A == ToSet(Links)
  <2>1. es \in Seq(A)
    OBVIOUS
  <2> HIDE DEF A
  <2>2. DOMAIN es = 1 .. Len(es) /\ Len(es) \in Nat /\ \A i \in DOMAIN es : es[i] \in A
    BY <2>1
  <2> QED
    BY <2>2 DEF A, ToSet
<1>2. ASSUME NEW i \in DOMAIN es
      PROVE  s[i] \in Entries /\ s[i].edge = es[i] /\ (es[i].type = "calls" => s[i].tier = CallTier(F, imports, es[i]))
  <2>1. PICK n \in Arts : s[i] = Entry(n, es[i], F, imports)
    BY DEF EntriesOf
  <2> QED
    BY <1>1, <2>1, EntryFits
<1>3. DOMAIN s = 1 .. Len(es) /\ \A i \in 1 .. Len(es) : s[i] \in Entries
  BY <1>1, <1>2 DEF EntriesOf
<1>4. s \in Seq(Entries)
  <2>1. s = [i \in 1 .. Len(es) |-> s[i]]
    BY <1>1 DEF EntriesOf
  <2> QED
    BY <1>1, <1>3, <2>1
<1>5. ASSUME NEW n \in ToSet(s)
      PROVE  n.edge \in ToSet(es) /\ (n.edge.type = "calls" => n.tier = CallTier(F, imports, n.edge))
  <2>1. PICK i \in DOMAIN es : n = s[i]
    BY <1>1, <1>3 DEF ToSet
  <2> QED
    BY <1>1, <1>2, <2>1
<1> QED
  BY <1>4, <1>5

\* No blast radius is one.
LEMMA NoBlastFits == BlastHolds(NoBlast)
<1>1. ToSet(<<>>) = {}
  BY DEF ToSet
<1> QED
  BY <1>1 DEF BlastHolds, NoBlast

\* The blast radius of a scope.
LEMMA BlastFits ==
    ASSUME NEW scope, scope.entities \in Seq(Founds)
    PROVE  BlastHolds(BlastOf(scope))
<1> DEFINE seeds == {e.id : e \in ToSet(scope.entities)}
           hop1 == Touching(seeds, {"calls", "imports", "tests", "defined_in"})
           callers == Into(hop1, seeds, {"calls", "imports"})
           callees == OutOf(hop1, seeds, {"calls", "imports"})
           tests == Into(hop1, seeds, {"tests"})
           defs1 == Among(hop1, {e \in ToSet(hop1) : e.type = "defined_in"})
           near == {e.a : e \in ToSet(callers) \union ToSet(tests)} \union {e.b : e \in ToSet(callees)}
                     \union {e.b : e \in ToSet(defs1)}
           hop2 == Touching(near, {"defined_in", "imports"})
           defs2 == Among(hop2, {e \in ToSet(hop2) : e.type = "defined_in"})
           F == DefiningFile(defs1, defs2)
           imports == {<<e.a, e.b>> : e \in {x \in ToSet(hop1) \union ToSet(hop2) : x.type = "imports"}}
           from == [i \in DOMAIN callers |-> Entry(callers[i].a, callers[i], F, imports)]
           to == [i \in DOMAIN callees |-> Entry(callees[i].b, callees[i], F, imports)]
           testing == [i \in DOMAIN tests |-> Entry(tests[i].a, tests[i], F, imports)]
           bl == [callers |-> Shown(from), callees |-> Shown(to), tests |-> Shown(testing),
                  queries |-> IF near = {} THEN 1 ELSE 2]
           A == ToSet(Links)
           S1 == {l \in A : l.type = "defined_in" /\ (l.a \in seeds \/ l.b \in seeds)}
           S2 == {l \in A : l.type = "defined_in" /\ (l.a \in near \/ l.b \in near)}
<1>1. BlastOf(scope) = IF seeds = {} THEN NoBlast ELSE bl
  BY Zenon DEF BlastOf, seeds, hop1, callers, callees, tests, defs1, near, hop2, defs2, F, imports, from, to, testing, bl
<1>2. /\ hop1 \in Seq(ToSet(Links))
      /\ ToSet(hop1) = {e \in ToSet(Links) : e.type \in {"calls", "imports", "tests", "defined_in"}
                                              /\ (e.a \in seeds \/ e.b \in seeds)}
  <2> HIDE DEF seeds
  <2> QED
    BY TouchingFits
<1>3. /\ hop2 \in Seq(ToSet(Links))
      /\ ToSet(hop2) = {e \in ToSet(Links) : e.type \in {"defined_in", "imports"} /\ (e.a \in near \/ e.b \in near)}
  <2> HIDE DEF near
  <2> QED
    BY TouchingFits
<1> HIDE DEF seeds, hop1
<1>4. /\ callers \in Seq(ToSet(Links))
      /\ \A e \in ToSet(callers) : e \in ToSet(hop1) /\ e \in ToSet(Links) /\ e.type \in {"calls", "imports"}
                                   /\ e.b \in seeds /\ e.a \notin seeds
  BY <1>2, IntoFits
<1>5. /\ callees \in Seq(ToSet(Links))
      /\ \A e \in ToSet(callees) : e \in ToSet(hop1) /\ e \in ToSet(Links) /\ e.type \in {"calls", "imports"}
                                   /\ e.a \in seeds /\ e.b \notin seeds
  BY <1>2, OutOfFits
<1>6. tests \in Seq(ToSet(Links))
  BY <1>2, IntoFits
<1> HIDE DEF callers, callees, tests
<1>7. defs1 \in Seq(A) /\ ToSet(defs1) = S1
  <2> DEFINE W == {e \in ToSet(hop1) : e.type = "defined_in"}
  <2>1. W = S1
    BY <1>2
  <2> HIDE DEF W, A
  <2>2. hop1 \in Seq(A)
    BY <1>2 DEF A
  <2>3. Among(hop1, W) \in Seq(A) /\ ToSet(Among(hop1, W)) = ToSet(hop1) \intersect W
    BY <2>2, AmongFits
  <2>4. ToSet(hop1) \intersect W = W
    BY DEF W
  <2>5. defs1 = Among(hop1, W)
    BY Zenon DEF defs1, W
  <2> HIDE DEF defs1, S1
  <2> QED
    BY <2>1, <2>3, <2>4, <2>5
<1> HIDE DEF defs1
<1>8. \A l \in S1 : l.b \in near
  BY <1>7
<1>9. \A e \in ToSet(callers) : e.a \in near
  OBVIOUS
<1>10. \A e \in ToSet(callees) : e.b \in near
  OBVIOUS
<1> HIDE DEF near, hop2
<1>11. defs2 \in Seq(A) /\ ToSet(defs2) = S2
  <2> DEFINE W == {e \in ToSet(hop2) : e.type = "defined_in"}
  <2>1. W = S2
    BY <1>3
  <2> HIDE DEF W, A
  <2>2. hop2 \in Seq(A)
    BY <1>3 DEF A
  <2>3. Among(hop2, W) \in Seq(A) /\ ToSet(Among(hop2, W)) = ToSet(hop2) \intersect W
    BY <2>2, AmongFits
  <2>4. ToSet(hop2) \intersect W = W
    BY DEF W
  <2>5. defs2 = Among(hop2, W)
    BY Zenon DEF defs2, W
  <2> HIDE DEF defs2, S2
  <2> QED
    BY <2>1, <2>3, <2>4, <2>5
<1> HIDE DEF defs2
<1>12. /\ \A l \in S1 \union S2 : l.a \in DOMAIN F
       /\ \A x \in DOMAIN F : \E l \in S1 \union S2 : l.a = x /\ F[x] = l.b
  <2> HIDE DEF A, S1, S2
  <2>1. defs1 \in Seq(A) /\ defs2 \in Seq(A)
    BY <1>7, <1>11
  <2>2. /\ \A e \in ToSet(defs1) \union ToSet(defs2) : e.a \in DOMAIN F
        /\ \A x \in DOMAIN F : \E e \in ToSet(defs1) \union ToSet(defs2) : e.a = x /\ F[x] = e.b
    BY <2>1, DefinedInFits
  <2> HIDE DEF F
  <2> QED
    BY <1>7, <1>11, <2>2
<1> HIDE DEF F
<1>13. \A p \in imports : \E l \in ToSet(Links) : l.type = "imports" /\ p = <<l.a, l.b>>
  BY <1>2, <1>3
<1>14. \A l \in ToSet(Links) : l.type = "imports" /\ (l.a \in near \/ l.b \in near) => <<l.a, l.b>> \in imports
  BY <1>3
<1> HIDE DEF imports
<1>15. ASSUME NEW e \in ToSet(callers) \union ToSet(callees),
              Cardinality(DefinedFiles(e.a)) <= 1, Cardinality(DefinedFiles(e.b)) <= 1
       PROVE  (CallTier(F, imports, e) = "deterministic") = Corroborated(e)
  <2>1. /\ e.a \in seeds \/ e.b \in seeds
        /\ e.a \in seeds \union near /\ e.b \in seeds \union near
    BY <1>4, <1>5, <1>9, <1>10
  <2>2. Around(seeds, near, F, imports)
    BY <1>8, <1>12, <1>13, <1>14 DEF Around
  <2> QED
    BY <1>15, <2>1, <2>2, CallTierFits
<1>16. \A e \in ToSet(Links) : e.a \in Arts /\ e.b \in Arts
  BY LinksFit
<1>17. /\ from \in Seq(Entries)
       /\ \A n \in ToSet(from) : n.edge \in ToSet(callers)
                                 /\ (n.edge.type = "calls" => n.tier = CallTier(F, imports, n.edge))
  <2>1. from = [i \in DOMAIN callers |-> from[i]]
    OBVIOUS
  <2>2. \A i \in DOMAIN callers : \E n \in Arts : from[i] = Entry(n, callers[i], F, imports)
    <3>1. \A i \in DOMAIN callers : callers[i].a \in Arts
      BY <1>4, <1>16 DEF ToSet
    <3> QED
      BY <3>1
  <2> HIDE DEF from
  <2>3. EntriesOf(from, callers, F, imports)
    BY <2>1, <2>2 DEF EntriesOf
  <2>4. callers \in Seq(ToSet(Links))
    BY <1>4
  <2> QED
    BY <2>3, <2>4, EntriesFit, SMT
<1>18. /\ to \in Seq(Entries)
       /\ \A n \in ToSet(to) : n.edge \in ToSet(callees)
                               /\ (n.edge.type = "calls" => n.tier = CallTier(F, imports, n.edge))
  <2>1. to = [i \in DOMAIN callees |-> to[i]]
    OBVIOUS
  <2>2. \A i \in DOMAIN callees : \E n \in Arts : to[i] = Entry(n, callees[i], F, imports)
    <3>1. \A i \in DOMAIN callees : callees[i].b \in Arts
      BY <1>5, <1>16 DEF ToSet
    <3> QED
      BY <3>1
  <2> HIDE DEF to
  <2>3. EntriesOf(to, callees, F, imports)
    BY <2>1, <2>2 DEF EntriesOf
  <2>4. callees \in Seq(ToSet(Links))
    BY <1>5
  <2> QED
    BY <2>3, <2>4, EntriesFit, SMT
<1>19. testing \in Seq(Entries)
  <2>1. testing = [i \in DOMAIN tests |-> testing[i]]
    OBVIOUS
  <2>2. \A i \in DOMAIN tests : \E n \in Arts : testing[i] = Entry(n, tests[i], F, imports)
    <3>1. \A i \in DOMAIN tests : tests[i] \in ToSet(Links)
      BY <1>6
    <3> QED
      BY <1>16, <3>1
  <2> HIDE DEF testing
  <2>3. EntriesOf(testing, tests, F, imports)
    BY <2>1, <2>2 DEF EntriesOf
  <2>4. tests \in Seq(ToSet(Links))
    BY <1>6
  <2> QED
    BY <2>3, <2>4, EntriesFit, SMT
<1> HIDE DEF from, to, testing
<1>20. /\ Shown(from) \in Seq(Entries) /\ ToSet(Shown(from)) \subseteq ToSet(from)
       /\ Shown(to) \in Seq(Entries) /\ ToSet(Shown(to)) \subseteq ToSet(to)
       /\ Shown(testing) \in Seq(Entries)
  BY <1>17, <1>18, <1>19, ShownFits
<1>21. \A n \in ToSet(Shown(from)) \union ToSet(Shown(to)) : TierHolds(n)
  BY <1>15, <1>17, <1>18, <1>20 DEF TierHolds
<1>22. BlastHolds(bl)
  BY <1>20, <1>21 DEF BlastHolds
<1> HIDE DEF bl
<1> QED
  BY <1>1, <1>22, NoBlastFits

--------------------------------------------------------------------------------
(* The task context: the other nodes and the synthesis *)

\* A request's prior changes.
LEMMA PriorFits ==
    ASSUME NEW req \in Asks, index \in Indexes
    PROVE  PriorOf(req) \in Seq(Arts)
<1> DEFINE rows == SearchRows(req.task, BroadTop)
           W == {h \in ToSet(rows) : Art[h.id].type \in {"commit"}}
           s == Among(rows, W)
<1>1. index[req.task] \in Seq(IndexHits) /\ BroadTop \in Nat /\ MaxPrior \in Nat
  BY AskFits, TaskAssumption
<1>2. rows \in Seq(IndexHits)
  BY <1>1, RowsFit
<1>3. PriorOf(req) = FirstN(Ids(s), MaxPrior)
  BY Zenon DEF PriorOf, OfType, rows, W, s
<1> HIDE DEF rows
<1>4. s \in Seq(IndexHits)
  <2> HIDE DEF W
  <2> QED
    BY <1>2, AmongFits
<1>5. \A h \in IndexHits : h.id \in Arts
  BY DEF IndexHits
<1> HIDE DEF s
<1>6. Ids(s) \in Seq(Arts)
  BY <1>4, <1>5, IdsFit
<1>7. FirstN(Ids(s), MaxPrior) \in Seq(Arts)
  BY <1>1, <1>6, FirstNFits
<1> QED
  BY <1>3, <1>7

\* A request's conventions.
LEMMA ConventionsFit ==
    ASSUME NEW req \in Asks, index \in Indexes, NEW broad
    PROVE  ConventionsOf(req, broad) \in Seq(Arts)
<1> DEFINE ids == Ids(SearchRows(req.task, SearchTop))
           W == {a \in Arts : Art[a].type \notin CodeTypes \union {"alias_reference", "commit"}}
           docs == Among(ids, W)
           near == {Art[e.id].path : e \in ToSet(Resolve(req, broad).entities)}
           V == {a \in Arts : Art[a].about \cap near # {}}
           relevant == Among(docs, V)
           some == IF relevant # <<>> THEN relevant ELSE docs
<1>1. index[req.task] \in Seq(IndexHits) /\ SearchTop \in Nat /\ MaxConventions \in Nat
  BY AskFits, TaskAssumption
<1>2. ids \in Seq(Arts)
  BY <1>1, RowsFit
<1>3. ConventionsOf(req, broad) = FirstN(some, MaxConventions)
  BY Zenon DEF ConventionsOf, Relevant, ids, W, docs, near, V, relevant, some
<1> HIDE DEF ids, W, V
<1>4. docs \in Seq(Arts)
  BY <1>2, AmongFits
<1> HIDE DEF docs
<1>5. relevant \in Seq(Arts)
  BY <1>4, AmongFits
<1> HIDE DEF relevant
<1>6. some \in Seq(Arts)
  BY <1>4, <1>5
<1> HIDE DEF some
<1>7. FirstN(some, MaxConventions) \in Seq(Arts)
  BY <1>1, <1>6, FirstNFits
<1> QED
  BY <1>3, <1>7

\* The queries of a node are counted.
LEMMA CallsFit ==
    ASSUME NEW req \in Asks, index \in Indexes, NEW broad
    PROVE  ResolveCalls(req) \in Nat /\ ConventionCalls(req, broad) \in Nat
<1> DEFINE A == ToSet(req.symbols)  B == ToSet(req.files)
<1>1. req.symbols \in Seq(A) /\ req.files \in Seq(B)
  BY AskFits
<1> HIDE DEF A, B
<1>2. Len(req.symbols) \in Nat /\ Len(req.files) \in Nat
  BY <1>1, FewElements
<1> DEFINE s == Len(req.symbols)  f == Len(req.files)
<1>3. s \in Nat /\ f \in Nat
  BY <1>2
<1>4. ResolveCalls(req) = s + f + (IF SearchRan(req) THEN 1 ELSE 0)
  BY Zenon DEF ResolveCalls, s, f
<1> HIDE DEF s, f
<1>5. ResolveCalls(req) \in Nat
  BY <1>3, <1>4
<1> QED
  BY <1>5 DEF ConventionCalls

\* A run of the graph.
RunFields == {"pc", "req", "broad", "left", "calls", "passes", "scope", "blast", "conventions", "prior", "first"}
TaskHolds(t) ==
  /\ DOMAIN t = RunFields /\ t.pc = "fan_out"
  /\ t.req \in Asks /\ t.broad \in BOOLEAN /\ t.left \subseteq GraphNodes /\ t.calls \in Nat /\ t.passes \in Nat
  /\ ScopeHolds(t.req, t.scope) /\ BlastHolds(t.blast)
  /\ t.conventions \in Seq(Arts) /\ t.prior \in Seq(Arts)
  /\ t.broad => Unresolved(t.first)

\* What is left at the confidence floor.
LEMMA FloorFits ==
    ASSUME NEW A, NEW es \in Seq(A), NEW floor
    PROVE  FloorEntries(es, floor) \in Seq(A) /\ ToSet(FloorEntries(es, floor)) \subseteq ToSet(es)
<1> DEFINE W == {e \in ToSet(es) : AdmitsFloor(e.tier, floor)}
<1>1. FloorEntries(es, floor) = Among(es, W)
  BY Zenon DEF FloorEntries, W
<1> HIDE DEF W
<1> QED
  BY <1>1, AmongFits

\* What the nodes found is a response.
LEMMA FlooredFits ==
    ASSUME NEW t, TaskHolds(t)
    PROVE  /\ Floored(t) \in Responses
           /\ ToSet(Floored(t).entities) \subseteq ToSet(t.scope.entities)
           /\ Floored(t).ambiguous = t.scope.ambiguous
           /\ ToSet(Floored(t).callers) \subseteq ToSet(t.blast.callers)
           /\ ToSet(Floored(t).callees) \subseteq ToSet(t.blast.callees)
<1> DEFINE f == t.req.floor
           low(s) == IF AdmitsFloor("interpreted", f) THEN s ELSE <<>>
<1>1. /\ t.scope.entities \in Seq(Founds) /\ t.scope.ambiguous \in Seq(Seq(Pointed))
      /\ t.blast.callers \in Seq(Entries) /\ t.blast.callees \in Seq(Entries) /\ t.blast.tests \in Seq(Entries)
      /\ t.conventions \in Seq(Arts) /\ t.prior \in Seq(Arts)
  BY DEF TaskHolds, ScopeHolds, BlastHolds
<1>2. /\ FloorEntries(t.scope.entities, f) \in Seq(Founds)
      /\ ToSet(FloorEntries(t.scope.entities, f)) \subseteq ToSet(t.scope.entities)
      /\ FloorEntries(t.blast.callers, f) \in Seq(Entries)
      /\ ToSet(FloorEntries(t.blast.callers, f)) \subseteq ToSet(t.blast.callers)
      /\ FloorEntries(t.blast.callees, f) \in Seq(Entries)
      /\ ToSet(FloorEntries(t.blast.callees, f)) \subseteq ToSet(t.blast.callees)
      /\ FloorEntries(t.blast.tests, f) \in Seq(Entries)
  BY <1>1, FloorFits
<1>3. low(t.prior) \in Seq(Arts) /\ low(t.conventions) \in Seq(Arts)
  BY <1>1
<1>4. Floored(t) = [entities |-> FloorEntries(t.scope.entities, f), ambiguous |-> t.scope.ambiguous,
                    prior |-> low(t.prior), conventions |-> low(t.conventions),
                    callees |-> FloorEntries(t.blast.callees, f), callers |-> FloorEntries(t.blast.callers, f),
                    tests |-> FloorEntries(t.blast.tests, f)]
  BY Zenon DEF Floored, f, low
<1> HIDE DEF f, low
<1> QED
  BY <1>1, <1>2, <1>3, <1>4 DEF Responses

\* An answer.
AnswerHolds(x) ==
  /\ Spared(x.resp, x.full, x.req.cap)
  /\ x.ledger = Evidence(x.resp, x.full) /\ x.resp \in Responses
  /\ \A n \in ToSet(x.full.callers) \union ToSet(x.full.callees) : TierHolds(n)
  /\ \A e \in ToSet(x.resp.entities) : e.src = "hint" => Explained(x.req, e)
  /\ x.retried => Unresolved(x.first)
  /\ x.resp.ambiguous # <<>> => "which" \in x.questions

\* The answer of a run.
LEMMA AnswerFits ==
    ASSUME NEW t, TaskHolds(t),
           NEW x, x.req = t.req, x.full = Floored(t), x.resp = Trim(Floored(t), t.req.cap),
           x.questions = Questions(t), x.ledger = Evidence(x.resp, x.full), x.retried = t.broad, x.first = t.first
    PROVE  AnswerHolds(x)
<1>1. /\ x.full \in Responses /\ ToSet(x.full.entities) \subseteq ToSet(t.scope.entities)
      /\ x.full.ambiguous = t.scope.ambiguous
      /\ ToSet(x.full.callers) \subseteq ToSet(t.blast.callers)
      /\ ToSet(x.full.callees) \subseteq ToSet(t.blast.callees)
  BY FlooredFits
<1>2. t.req \in Asks /\ ScopeHolds(t.req, t.scope) /\ BlastHolds(t.blast) /\ (t.broad => Unresolved(t.first))
  BY DEF TaskHolds
<1>3. x.req.cap \in Int
  BY <1>2, TaskAssumption
<1>4. Spared(x.resp, x.full, x.req.cap) /\ x.resp \in Responses
  BY <1>1, <1>3, TrimFits
<1>5. x.resp.entities = x.full.entities /\ x.resp.ambiguous = x.full.ambiguous
  BY <1>4 DEF Spared
<1>6. \A n \in ToSet(x.full.callers) \union ToSet(x.full.callees) : TierHolds(n)
  BY <1>1, <1>2 DEF BlastHolds
<1>7. \A e \in ToSet(x.resp.entities) : e.src = "hint" => Explained(x.req, e)
  BY <1>1, <1>2, <1>5 DEF ScopeHolds
<1>8. x.resp.ambiguous # <<>> => "which" \in x.questions
  BY <1>1, <1>2, <1>5 DEF ScopeHolds, Questions
<1> QED
  BY <1>2, <1>4, <1>6, <1>7, <1>8 DEF AnswerHolds

--------------------------------------------------------------------------------
(* The task context: the invariant *)

\* What every step keeps.
TaskKeeps ==
  /\ index \in Indexes /\ taskAsks \in 0 .. MaxTaskAsks
  /\ task = NoTask \/ TaskHolds(task)
  /\ \A x \in answers : AnswerHolds(x)

\* A run in flight.
LEMMA InFlight ==
    ASSUME TaskKeeps, task.pc = "fan_out"
    PROVE  TaskHolds(task)
  BY DEF TaskKeeps, NoTask

\* It holds at first.
LEMMA TaskStarts == TaskInit => TaskKeeps
<1>1. MaxTaskAsks \in Nat
  BY TaskAssumption
<1> QED
  BY <1>1 DEF TaskInit, TaskKeeps

\* A call starts with nothing found.
LEMMA StartKeeps ==
    ASSUME TaskKeeps, NEW req \in Asks, BeginCall(req)
    PROVE  TaskKeeps'
<1>1. MaxTaskAsks \in Nat
  BY TaskAssumption
<1>2. taskAsks' \in 0 .. MaxTaskAsks
  BY <1>1 DEF TaskKeeps, BeginCall
<1>3. ScopeHolds(req, NoScope) /\ BlastHolds(NoBlast) /\ Unresolved(NoScope)
  BY NoScopeFits, NoBlastFits DEF Unresolved, NoScope
<1> DEFINE t == [pc |-> "fan_out", req |-> req, broad |-> FALSE, left |-> GraphNodes, calls |-> 0,
                 passes |-> 0, scope |-> NoScope, blast |-> NoBlast, conventions |-> <<>>,
                 prior |-> <<>>, first |-> NoScope]
<1>4. TaskHolds(t)
  BY <1>3 DEF TaskHolds, RunFields
<1>5. task' = t /\ index' = index /\ answers' = answers
  BY DEF BeginCall
<1> HIDE DEF t
<1>6. TaskHolds(task)'
  BY <1>4, <1>5
<1>7. (\A x \in answers : AnswerHolds(x))'
  BY <1>5 DEF TaskKeeps
<1> QED
  BY <1>2, <1>5, <1>6, <1>7 DEF TaskKeeps

\* The node of the scope changes it, and the counter.
ScopeChanged(u, t, x, y, z) ==
  u = [[t EXCEPT !.left = x] EXCEPT !.scope = y, !.calls = z]

\* The other fields stay.
LEMMA ScopeChange ==
    ASSUME NEW t, DOMAIN t = RunFields, NEW x, NEW y, NEW z,
           NEW u, ScopeChanged(u, t, x, y, z)
    PROVE  /\ DOMAIN u = RunFields /\ u.pc = t.pc /\ u.req = t.req /\ u.broad = t.broad /\ u.left = x /\ u.calls = z
           /\ u.passes = t.passes /\ u.scope = y /\ u.blast = t.blast /\ u.conventions = t.conventions /\ u.prior = t.prior /\ u.first = t.first
  BY DEF RunFields, ScopeChanged

\* The node of the blast radius changes that, and the counter.
BlastChanged(u, t, x, y, z) ==
  u = [[t EXCEPT !.left = x] EXCEPT !.blast = y, !.calls = z]

\* The other fields stay.
LEMMA BlastChange ==
    ASSUME NEW t, DOMAIN t = RunFields, NEW x, NEW y, NEW z,
           NEW u, BlastChanged(u, t, x, y, z)
    PROVE  /\ DOMAIN u = RunFields /\ u.pc = t.pc /\ u.req = t.req /\ u.broad = t.broad /\ u.left = x /\ u.calls = z
           /\ u.passes = t.passes /\ u.scope = t.scope /\ u.blast = y /\ u.conventions = t.conventions /\ u.prior = t.prior /\ u.first = t.first
  BY DEF RunFields, BlastChanged

\* The node of the conventions changes those, and the counter.
ConventionsChanged(u, t, x, y, z) ==
  u = [[t EXCEPT !.left = x] EXCEPT !.conventions = y, !.calls = z]

\* The other fields stay.
LEMMA ConventionsChange ==
    ASSUME NEW t, DOMAIN t = RunFields, NEW x, NEW y, NEW z,
           NEW u, ConventionsChanged(u, t, x, y, z)
    PROVE  /\ DOMAIN u = RunFields /\ u.pc = t.pc /\ u.req = t.req /\ u.broad = t.broad /\ u.left = x /\ u.calls = z
           /\ u.passes = t.passes /\ u.scope = t.scope /\ u.blast = t.blast /\ u.conventions = y /\ u.prior = t.prior /\ u.first = t.first
  BY DEF RunFields, ConventionsChanged

\* The node of the prior changes changes those, and the counter.
PriorChanged(u, t, x, y, z) ==
  u = [[t EXCEPT !.left = x] EXCEPT !.prior = y, !.calls = z]

\* The other fields stay.
LEMMA PriorChange ==
    ASSUME NEW t, DOMAIN t = RunFields, NEW x, NEW y, NEW z,
           NEW u, PriorChanged(u, t, x, y, z)
    PROVE  /\ DOMAIN u = RunFields /\ u.pc = t.pc /\ u.req = t.req /\ u.broad = t.broad /\ u.left = x /\ u.calls = z
           /\ u.passes = t.passes /\ u.scope = t.scope /\ u.blast = t.blast /\ u.conventions = t.conventions /\ u.prior = y /\ u.first = t.first
  BY DEF RunFields, PriorChanged

\* What the retry changes.
RetryChanged(u, t, x, y, z) ==
  u = [t EXCEPT !.broad = TRUE, !.left = x, !.passes = y, !.first = z]

\* The other fields stay.
LEMMA RetryChange ==
    ASSUME NEW t, DOMAIN t = RunFields, NEW x, NEW y, NEW z,
           NEW u, RetryChanged(u, t, x, y, z)
    PROVE  /\ DOMAIN u = RunFields /\ u.pc = t.pc /\ u.req = t.req /\ u.broad = TRUE /\ u.left = x /\ u.calls = t.calls
           /\ u.passes = y /\ u.scope = t.scope /\ u.blast = t.blast /\ u.conventions = t.conventions /\ u.prior = t.prior /\ u.first = z
  BY DEF RunFields, RetryChanged

\* A node that runs finds what it should, in whatever state it finds the index.
LEMMA RunNodeKeeps ==
    ASSUME TaskKeeps, NEW n \in GraphNodes, RunNode(n)
    PROVE  TaskKeeps'
<1> DEFINE t == task  r == t.req  b == t.broad
           bl == BlastOf(Resolve(r, b))
           done == [t EXCEPT !.left = t.left \ {n}]
           left == t.left \ {n}
           u == task'
<1>1. TaskHolds(t) /\ index \in Indexes
  BY InFlight DEF RunNode, TaskKeeps
<1>2. /\ DOMAIN t = RunFields /\ t.pc = "fan_out" /\ r \in Asks /\ b \in BOOLEAN /\ left \subseteq GraphNodes
      /\ t.calls \in Nat /\ t.passes \in Nat /\ ScopeHolds(r, t.scope) /\ BlastHolds(t.blast)
      /\ t.conventions \in Seq(Arts) /\ t.prior \in Seq(Arts) /\ (b => Unresolved(t.first))
  BY <1>1 DEF TaskHolds
<1>3. /\ ScopeHolds(r, Resolve(r, b)) /\ ConventionsOf(r, b) \in Seq(Arts) /\ PriorOf(r) \in Seq(Arts)
      /\ ResolveCalls(r) \in Nat /\ ConventionCalls(r, b) \in Nat
  <2> HIDE DEF r, b
  <2> QED
    BY <1>1, <1>2, ResolveFits, ConventionsFit, PriorFits, CallsFit
<1>4. BlastHolds(bl) /\ bl.queries \in Nat
  <2>1. Resolve(r, b).entities \in Seq(Founds)
    BY <1>3 DEF ScopeHolds
  <2>2. BlastHolds(bl)
    BY <2>1, BlastFits
  <2> HIDE DEF bl
  <2> QED
    BY <2>2 DEF BlastHolds
<1> HIDE DEF bl
<1>5. done.calls = t.calls
  BY <1>2 DEF RunFields
<1> DEFINE scoped == t.calls + ResolveCalls(r)
           reached == t.calls + ResolveCalls(r) + bl.queries
           convened == t.calls + ConventionCalls(r, b)
           prepared == t.calls + 1
<1>6. scoped \in Nat /\ reached \in Nat /\ convened \in Nat /\ prepared \in Nat
  <2> DEFINE c == t.calls  k == ResolveCalls(r)  l == ConventionCalls(r, b)  q == bl.queries
  <2>1. c \in Nat /\ k \in Nat /\ l \in Nat /\ q \in Nat
    BY <1>2, <1>3, <1>4
  <2> HIDE DEF c, k, l, q
  <2>2. c + k \in Nat /\ c + k + q \in Nat /\ c + l \in Nat /\ c + 1 \in Nat
    BY <2>1
  <2> QED
    BY <2>2 DEF c, k, l, q
<1>7. /\ index' = index /\ taskAsks' = taskAsks /\ answers' = answers
      /\ task' = CASE n = "resolve_scope" -> [done EXCEPT !.scope = Resolve(r, b), !.calls = scoped]
                   [] n = "blast_radius" -> [done EXCEPT !.blast = bl, !.calls = reached]
                   [] n = "conventions" -> [done EXCEPT !.conventions = ConventionsOf(r, b), !.calls = convened]
                   [] n = "similar_prior_changes" -> [done EXCEPT !.prior = PriorOf(r), !.calls = prepared]
  <2>1. /\ index' = index /\ taskAsks' = taskAsks /\ answers' = answers
        /\ task' = CASE n = "resolve_scope" ->
                          [done EXCEPT !.scope = Resolve(r, b), !.calls = done.calls + ResolveCalls(r)]
                     [] n = "blast_radius" ->
                          [done EXCEPT !.blast = bl, !.calls = done.calls + ResolveCalls(r) + bl.queries]
                     [] n = "conventions" ->
                          [done EXCEPT !.conventions = ConventionsOf(r, b),
                                       !.calls = done.calls + ConventionCalls(r, b)]
                     [] n = "similar_prior_changes" ->
                          [done EXCEPT !.prior = PriorOf(r), !.calls = done.calls + 1]
    <3>1. done.req = r
      BY <1>2 DEF RunFields
    <3> QED
      BY <3>1, Zenon DEF RunNode, Reached, t, r, b, bl, done
  <2> HIDE DEF done
  <2> QED
    BY <1>5, <2>1
<1> HIDE DEF scoped, reached, convened, prepared, u
<1>8. n \in {"resolve_scope", "blast_radius", "conventions", "similar_prior_changes"}
  BY DEF GraphNodes
<1>9. CASE n = "resolve_scope"
  <2>1. u = [[t EXCEPT !.left = left] EXCEPT !.scope = Resolve(r, b), !.calls = scoped]
    BY <1>7, <1>9 DEF u
  <2> HIDE DEF left
  <2>2. /\ DOMAIN u = RunFields /\ u.pc = t.pc /\ u.req = t.req /\ u.broad = t.broad /\ u.left = left /\ u.calls = scoped
        /\ u.passes = t.passes /\ u.scope = Resolve(r, b) /\ u.blast = t.blast /\ u.conventions = t.conventions /\ u.prior = t.prior /\ u.first = t.first
    <3>1. DOMAIN t = RunFields
      BY <1>2
    <3>2. ScopeChanged(u, t, left, Resolve(r, b), scoped)
      BY <2>1, Zenon DEF ScopeChanged
    <3> HIDE DEF t, r, b
    <3> QED
      BY <3>1, <3>2, ScopeChange
  <2>3. TaskHolds(u)
    BY <1>2, <1>3, <1>6, <2>2 DEF TaskHolds
  <2> QED
    BY <1>7, <2>3 DEF TaskKeeps, u
<1>10. CASE n = "blast_radius"
  <2>1. u = [[t EXCEPT !.left = left] EXCEPT !.blast = bl, !.calls = reached]
    BY <1>7, <1>10 DEF u
  <2> HIDE DEF left
  <2>2. /\ DOMAIN u = RunFields /\ u.pc = t.pc /\ u.req = t.req /\ u.broad = t.broad /\ u.left = left /\ u.calls = reached
        /\ u.passes = t.passes /\ u.scope = t.scope /\ u.blast = bl /\ u.conventions = t.conventions /\ u.prior = t.prior /\ u.first = t.first
    <3>1. DOMAIN t = RunFields
      BY <1>2
    <3>2. BlastChanged(u, t, left, bl, reached)
      BY <2>1, Zenon DEF BlastChanged
    <3> HIDE DEF t, r, b
    <3> QED
      BY <3>1, <3>2, BlastChange
  <2>3. TaskHolds(u)
    BY <1>2, <1>4, <1>6, <2>2 DEF TaskHolds
  <2> QED
    BY <1>7, <2>3 DEF TaskKeeps, u
<1>11. CASE n = "conventions"
  <2>1. u = [[t EXCEPT !.left = left] EXCEPT !.conventions = ConventionsOf(r, b), !.calls = convened]
    BY <1>7, <1>11 DEF u
  <2> HIDE DEF left
  <2>2. /\ DOMAIN u = RunFields /\ u.pc = t.pc /\ u.req = t.req /\ u.broad = t.broad /\ u.left = left /\ u.calls = convened
        /\ u.passes = t.passes /\ u.scope = t.scope /\ u.blast = t.blast /\ u.conventions = ConventionsOf(r, b) /\ u.prior = t.prior /\ u.first = t.first
    <3>1. DOMAIN t = RunFields
      BY <1>2
    <3>2. ConventionsChanged(u, t, left, ConventionsOf(r, b), convened)
      BY <2>1, Zenon DEF ConventionsChanged
    <3> HIDE DEF t, r, b
    <3> QED
      BY <3>1, <3>2, ConventionsChange
  <2>3. TaskHolds(u)
    BY <1>2, <1>3, <1>6, <2>2 DEF TaskHolds
  <2> QED
    BY <1>7, <2>3 DEF TaskKeeps, u
<1>12. CASE n = "similar_prior_changes"
  <2>1. u = [[t EXCEPT !.left = left] EXCEPT !.prior = PriorOf(r), !.calls = prepared]
    BY <1>7, <1>12 DEF u
  <2> HIDE DEF left
  <2>2. /\ DOMAIN u = RunFields /\ u.pc = t.pc /\ u.req = t.req /\ u.broad = t.broad /\ u.left = left /\ u.calls = prepared
        /\ u.passes = t.passes /\ u.scope = t.scope /\ u.blast = t.blast /\ u.conventions = t.conventions /\ u.prior = PriorOf(r) /\ u.first = t.first
    <3>1. DOMAIN t = RunFields
      BY <1>2
    <3>2. PriorChanged(u, t, left, PriorOf(r), prepared)
      BY <2>1, Zenon DEF PriorChanged
    <3> HIDE DEF t, r, b
    <3> QED
      BY <3>1, <3>2, PriorChange
  <2>3. TaskHolds(u)
    BY <1>2, <1>3, <1>6, <2>2 DEF TaskHolds
  <2> QED
    BY <1>7, <2>3 DEF TaskKeeps, u
<1> QED
  BY <1>8, <1>9, <1>10, <1>11, <1>12

\* The graph is run again for an empty scope only.
LEMMA BroadenKeeps ==
    ASSUME TaskKeeps, Broaden
    PROVE  TaskKeeps'
<1> DEFINE t == task
           u == task'
<1>1. TaskHolds(t) /\ Unresolved(t.scope)
  BY InFlight DEF Broaden, MustBroaden
<1>2. /\ DOMAIN t = RunFields /\ t.pc = "fan_out" /\ t.req \in Asks /\ t.calls \in Nat /\ t.passes + 1 \in Nat
      /\ ScopeHolds(t.req, t.scope) /\ BlastHolds(t.blast) /\ t.conventions \in Seq(Arts) /\ t.prior \in Seq(Arts)
  BY <1>1 DEF TaskHolds
<1>3. /\ index' = index /\ taskAsks' = taskAsks /\ answers' = answers
      /\ u = [t EXCEPT !.broad = TRUE, !.left = GraphNodes, !.passes = t.passes + 1, !.first = t.scope]
  BY DEF Broaden
<1> HIDE DEF u
<1>4. /\ DOMAIN u = RunFields /\ u.pc = t.pc /\ u.req = t.req /\ u.broad = TRUE /\ u.left = GraphNodes
      /\ u.calls = t.calls /\ u.passes = t.passes + 1 /\ u.scope = t.scope /\ u.blast = t.blast
      /\ u.conventions = t.conventions /\ u.prior = t.prior /\ u.first = t.scope
  <2>1. DOMAIN t = RunFields /\ u = [t EXCEPT !.broad = TRUE, !.left = GraphNodes, !.passes = t.passes + 1, !.first = t.scope]
    BY <1>2, <1>3
  <2>2. RetryChanged(u, t, GraphNodes, t.passes + 1, t.scope)
    BY <2>1, Zenon DEF RetryChanged
  <2> HIDE DEF t
  <2> QED
    BY <2>1, <2>2, RetryChange
<1>5. TaskHolds(u)
  BY <1>1, <1>2, <1>4 DEF TaskHolds
<1> QED
  BY <1>3, <1>5 DEF TaskKeeps, u

\* The synthesis adds one answer.
LEMMA SynthesizeKeeps ==
    ASSUME TaskKeeps, Synthesize
    PROVE  TaskKeeps'
<1>1. TaskHolds(task)
  BY InFlight DEF Synthesize
<1> DEFINE full == Floored(task)
           r == Trim(full, task.req.cap)
           x == [req |-> task.req, full |-> full, resp |-> r, paths |-> Paths(r),
                 questions |-> Questions(task), calls |-> task.calls,
                 ledger |-> Evidence(r, full), retried |-> task.broad, first |-> task.first]
<1>2. /\ index' = index /\ taskAsks' = taskAsks /\ task' = NoTask /\ answers' = answers \union {x}
  BY Zenon DEF Synthesize, full, r, x
<1>3. /\ x.req = task.req /\ x.full = Floored(task) /\ x.resp = Trim(Floored(task), task.req.cap)
      /\ x.questions = Questions(task) /\ x.ledger = Evidence(x.resp, x.full) /\ x.retried = task.broad
      /\ x.first = task.first
  OBVIOUS
<1> HIDE DEF x
<1>4. AnswerHolds(x)
  BY <1>1, <1>3, AnswerFits
<1> QED
  BY <1>2, <1>4 DEF TaskKeeps

\* Every step keeps the invariant.
LEMMA TaskStep ==
    ASSUME TaskKeeps, [TaskNext]_taskVars
    PROVE  TaskKeeps'
<1>1. ASSUME NEW req \in Asks, BeginCall(req) PROVE TaskKeeps'
  BY <1>1, StartKeeps
<1>2. ASSUME NEW n \in GraphNodes, RunNode(n) PROVE TaskKeeps'
  BY <1>2, RunNodeKeeps
<1>3. CASE Broaden
  BY <1>3, BroadenKeeps
<1>4. CASE Synthesize
  BY <1>4, SynthesizeKeeps
<1>5. CASE NodeFails
  BY <1>5 DEF NodeFails, TaskKeeps
<1>6. ASSUME NEW i \in Indexes, Reindex(i) PROVE TaskKeeps'
  BY <1>6 DEF Reindex, TaskKeeps
<1>7. CASE UNCHANGED taskVars
  BY <1>7 DEF taskVars, TaskKeeps
<1> QED
  BY <1>1, <1>2, <1>3, <1>4, <1>5, <1>6, <1>7 DEF TaskNext

\* Its answers are sound.
LEMMA TaskKeepsAnswers == TaskKeeps => TaskAnswersAreSound
<1> SUFFICES ASSUME TaskKeeps PROVE TaskAnswersAreSound
  OBVIOUS
<1>1. \A x \in answers : AnswerHolds(x)
  BY DEF TaskKeeps
<1>2. TrimSparesTheValuable
  <2> SUFFICES ASSUME NEW x \in answers
      PROVE  LET cut(b) == Len(x.resp[b]) < Len(x.full[b])
             IN  /\ x.resp.entities = x.full.entities /\ x.resp.ambiguous = x.full.ambiguous
                 /\ Size(x.resp) <= x.req.cap \/ ~Trimmable(x.resp)
                 /\ \A i \in DOMAIN Buckets :
                      /\ IsPrefix(x.resp[Buckets[i]], x.full[Buckets[i]])
                      /\ cut(Buckets[i]) => \A j \in 1..(i - 1) : x.resp[Buckets[j]] = <<>>
                 /\ \A b \in ToSet(Buckets) :
                      cut(b) => Size([x.resp EXCEPT ![b] = SubSeq(x.full[b], 1, Len(@) + 1)]) > x.req.cap
                                \/ \E c \in ToSet(Buckets) \ {b} : cut(c)
    BY Zenon DEF TrimSparesTheValuable
  <2>1. Spared(x.resp, x.full, x.req.cap)
    BY <1>1 DEF AnswerHolds
  <2> QED
    BY <2>1, Zenon DEF Spared
<1>3. LedgerCoversTheAnswer
  <2> SUFFICES ASSUME NEW x \in answers
      PROVE  x.ledger = {e.id : e \in ToSet(x.resp.entities) \union ToSet(x.resp.callers)
                                      \union ToSet(x.resp.callees) \union ToSet(x.resp.tests)}
                        \union (UNION {ToSet(x.resp.ambiguous[i]) : i \in DOMAIN x.resp.ambiguous})
                        \union ToSet(x.resp.prior) \union ToSet(x.resp.conventions)
    BY Zenon DEF LedgerCoversTheAnswer
  <2> DEFINE q == x.resp
             E == {e.id : e \in ToSet(q.entities) \union ToSet(q.callers) \union ToSet(q.callees) \union ToSet(q.tests)}
             M == UNION {ToSet(m) : m \in ToSet(q.ambiguous)}
             N == UNION {ToSet(q.ambiguous[i]) : i \in DOMAIN q.ambiguous}
  <2>1. x.ledger = E \union M \union ToSet(q.conventions) \union ToSet(q.prior)
    BY <1>1, Zenon DEF AnswerHolds, Evidence, E, M, q
  <2>2. M = N
    BY DEF ToSet
  <2> HIDE DEF E, M
  <2>3. x.ledger = E \union N \union ToSet(q.prior) \union ToSet(q.conventions)
    BY <2>1, <2>2
  <2> QED
    BY <2>3 DEF E
<1>4. TiersMatchTheGraph
  BY <1>1 DEF TiersMatchTheGraph, AnswerHolds, TierHolds
<1>5. NothingIsGuessed
  BY <1>1, Zenon DEF NothingIsGuessed, AnswerHolds, Explained, FoundBy
<1>6. RetryOnlyWhenEmpty
  BY <1>1 DEF RetryOnlyWhenEmpty, AnswerHolds
<1> QED
  BY <1>2, <1>3, <1>4, <1>5, <1>6 DEF TaskAnswersAreSound

\* get_task_context: an answer that is trimmed keeps what is of more value and drops no more
\* than it has to; its ledger row, on which a later verify_answer relies, names what it shows
\* and nothing else; a call counts as deterministic exactly when the graph itself has it so;
\* a hint with several answers is never given one of them; and the graph is run again only
\* for a scope that was empty (task_context.py, task_context_nodes.py). The nodes run in any
\* order, and the index may change between them.
THEOREM TaskSafety == TaskSpec => []TaskAnswersAreSound
<1>1. TaskInit => TaskKeeps
  BY TaskStarts
<1>2. TaskKeeps /\ [TaskNext]_taskVars => TaskKeeps'
  BY TaskStep
<1>3. TaskKeeps => TaskAnswersAreSound
  BY TaskKeepsAnswers
<1> QED
  BY <1>1, <1>2, <1>3, PTL DEF TaskSpec
================================================================================
