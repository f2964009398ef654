--------------------------- MODULE EvidencePackProofs ---------------------------
(***************************************************************************)
(* Theorems about EvidencePack for every number of calls, packs, runs and  *)
(* agents, every budget and every ACL.                                     *)
(***************************************************************************)
EXTENDS EvidencePack, SequenceTheorems, WellFoundedInduction, TLAPS

USE PackAssumption

\* A function from 1 .. n is a sequence of length n.
LEMMA FunctionIsSequence ==
  ASSUME NEW S, NEW n \in Nat, NEW f \in [1 .. n -> S]
  PROVE  f \in Seq(S) /\ Len(f) = n
OBVIOUS

\* Positions in the pack store survive a touch, and nothing new gets in.
LEMMA TouchKeepsPacks ==
  ASSUME stored \in Seq(PackIds), NEW p \in Stored
  PROVE  /\ Touched(p) \in Seq(PackIds)
         /\ Len(Touched(p)) = Len(stored)
         /\ \A i \in DOMAIN Touched(p) : Touched(p)[i] \in Stored
<1>1. PICK k \in DOMAIN stored : stored[k] = p
  BY DEF Stored
<1>2. DOMAIN stored = 1 .. Len(stored) /\ Len(stored) \in Nat
  OBVIOUS
<1>3. \A i \in 1 .. Len(stored) : stored[i] \in Stored
  BY <1>2 DEF Stored
<1>4. Stored \subseteq PackIds
  BY <1>2 DEF Stored
<1>5. \A i \in 1 .. Len(stored) : Touched(p)[i] \in Stored
  <2> SUFFICES ASSUME NEW i \in 1 .. Len(stored)
               PROVE  Touched(p)[i] \in Stored
    OBVIOUS
  <2>1. Touched(p)[i] = IF i < Position(p) THEN stored[i]
                        ELSE IF i = Len(stored) THEN p ELSE stored[i + 1]
    BY <1>2 DEF Touched
  <2>2. stored[i] \in Stored /\ (i # Len(stored) => stored[i + 1] \in Stored)
    BY <1>3
  <2> QED
    BY <2>1, <2>2
<1>6. DOMAIN Touched(p) = 1 .. Len(stored)
  BY <1>2 DEF Touched
<1>7. Touched(p) \in [1 .. Len(stored) -> PackIds]
  BY <1>2, <1>4, <1>5, <1>6 DEF Touched
<1>8. Touched(p) \in Seq(PackIds) /\ Len(Touched(p)) = Len(stored)
  BY <1>2, <1>7, FunctionIsSequence
<1> QED
  BY <1>2, <1>5, <1>6, <1>8

\* What Append makes of the store.
LEMMA AppendKeepsPacks ==
  ASSUME NEW s \in Seq(PackIds), NEW p \in PackIds, stored' = Append(s, p)
  PROVE  /\ stored' \in Seq(PackIds)
         /\ Len(stored') = Len(s) + 1
         /\ \A q \in Stored' : q = p \/ \E i \in 1 .. Len(s) : q = s[i]
<1>1. /\ stored' \in Seq(PackIds) /\ Len(stored') = Len(s) + 1 /\ Len(s) \in Nat
      /\ DOMAIN stored' = 1 .. Len(s) + 1
  OBVIOUS
<1>2. \A i \in 1 .. Len(s) + 1 : stored'[i] = IF i <= Len(s) THEN s[i] ELSE p
  OBVIOUS
<1>3. \A i \in 1 .. Len(s) + 1 : stored'[i] = p \/ \E j \in 1 .. Len(s) : stored'[i] = s[j]
  BY <1>1, <1>2
<1> QED
  BY <1>1, <1>3 DEF Stored

\* A create inserts its pack, and nothing else, within the limit.
LEMMA CreateKeepsLimit ==
  ASSUME stored \in Seq(PackIds), Len(stored) <= MaxPacks, NEW p \in PackIds, Create(p)
  PROVE  /\ stored' \in Seq(PackIds)
         /\ Len(stored') <= MaxPacks
         /\ Stored' \subseteq Stored \cup {p}
<1>0. \A i \in 1 .. Len(stored) : stored[i] \in Stored
  BY DEF Stored
<1>1. CASE Full
  <2>1. stored # <<>>
    BY <1>1 DEF Full
  <2>2. /\ Tail(stored) \in Seq(PackIds)
        /\ Len(Tail(stored)) = Len(stored) - 1
        /\ \A i \in 1 .. Len(Tail(stored)) : Tail(stored)[i] = stored[i + 1]
    BY <2>1, HeadTailProperties
  <2>3. stored' = Append(Tail(stored), p)
    BY <1>1 DEF Create
  <2>4. \A i \in 1 .. Len(Tail(stored)) : Tail(stored)[i] \in Stored
    BY <1>0, <2>2
  <2>5. /\ stored' \in Seq(PackIds) /\ Len(stored') = Len(Tail(stored)) + 1
        /\ \A q \in Stored' : q = p \/ \E i \in 1 .. Len(Tail(stored)) : q = Tail(stored)[i]
    <3> DEFINE rest == Tail(stored)
    <3>1. rest \in Seq(PackIds) /\ stored' = Append(rest, p)
      BY <2>2, <2>3
    <3> HIDE DEF rest
    <3>2. /\ stored' \in Seq(PackIds) /\ Len(stored') = Len(rest) + 1
          /\ \A q \in Stored' : q = p \/ \E i \in 1 .. Len(rest) : q = rest[i]
      BY <3>1, AppendKeepsPacks
    <3> QED
      BY <3>2 DEF rest
  <2>6. Len(stored') = Len(stored)
    BY <2>2, <2>5
  <2> QED
    BY <2>4, <2>5, <2>6
<1>2. CASE ~Full
  <2>1. stored' = Append(stored, p)
    BY <1>2 DEF Create
  <2>2. /\ stored' \in Seq(PackIds) /\ Len(stored') = Len(stored) + 1
        /\ \A q \in Stored' : q = p \/ \E i \in 1 .. Len(stored) : q = stored[i]
    BY <2>1, AppendKeepsPacks
  <2>3. Len(stored) + 1 <= MaxPacks
    BY <1>2 DEF Full
  <2> QED
    BY <1>0, <2>2, <2>3
<1> QED
  BY <1>1, <1>2
------------------------------------------------------------------------------
Created(p) == pack[p].run \in Runs /\ pack[p].meter \in PackIds

\* What TypeOK rests on: a call in flight has a pack, and a pack that can be
\* found has a meter.
PacksExist == /\ \A p \in Stored : Created(p)
              /\ \A c \in Calls : call[c].at # "idle" => call[c].pack \in PackIds
                                                         /\ Created(call[c].pack)

Typed == TypeOK /\ PacksExist

LEMMA Start == Init => Typed
<1> SUFFICES ASSUME Init PROVE Typed
  OBVIOUS
<1>1. Idle \in CallStates /\ Idle.at = "idle" /\ NoPack \in Packs
  BY DEF Idle, CallStates, Phases, KnownTools, NoSnapshot, Snapshots, Unused, Usage, NoPack,
     Packs, Answers
<1>2. TypeOK
  BY <1>1 DEF Init, TypeOK, Ledgers, Unused, Usage
<1>3. Stored = {}
  BY DEF Init, Stored
<1> QED
  BY <1>1, <1>2, <1>3 DEF Init, Typed, PacksExist

\* A step that leaves the store alone, or only touches it, and keeps the run
\* and the meter of every created pack, keeps PacksExist if it starts no call
\* without a pack.
LEMMA PacksExistKept ==
  ASSUME PacksExist, Stored' \subseteq Stored,
         \A p \in PackIds : Created(p) => Created(p)',
         Stored \subseteq PackIds,
         \A c \in Calls : call'[c].at # "idle" =>
            \/ call[c].at # "idle" /\ call'[c].pack = call[c].pack
            \/ (call[c].pack \in PackIds /\ Created(call[c].pack))'
  PROVE  PacksExist'
BY DEF PacksExist, Created

LEMMA IdleIsTyped == Idle \in CallStates /\ Idle.at = "idle"
BY DEF Idle, CallStates, Phases, KnownTools, NoSnapshot, Snapshots, Unused, Usage, Answers

LEMMA Returned ==
  ASSUME TypeOK, NEW c \in Calls, Return(c)
  PROVE  /\ call' \in [Calls -> CallStates]
         /\ call'[c].at = "idle"
         /\ \A d \in Calls : d # c => call'[d] = call[d]
BY IdleIsTyped DEF Return, TypeOK

\* A call that only returns, or returns and frees its pack.
LEMMA ReturnIsTyped ==
  ASSUME Typed, NEW c \in Calls, Return(c), active' = active,
         stored' = stored, meterOf' = meterOf,
         usage' \in [PackIds -> [Agents -> Usage]], ledger' \in Ledgers,
         pack' \in [PackIds -> Packs],
         \A p \in PackIds : pack'[p].run = pack[p].run /\ pack'[p].meter = pack[p].meter
  PROVE  Typed'
<1>1. TypeOK'
  BY Returned DEF Typed, TypeOK
<1>2. Stored' = Stored /\ Stored \subseteq PackIds
  BY DEF Stored, Typed, TypeOK
<1>3. PacksExist'
  BY <1>2, Returned, PacksExistKept DEF Typed, Created
<1> QED
  BY <1>1, <1>3 DEF Typed

\* Arrivals touch the store and remember their arguments.
LEMMA ArriveIsTyped ==
  ASSUME Typed, NEW c \in Calls, NEW p, NEW t \in KnownTools, NEW a \in Agents,
         NEW q \in Questions, NEW limit \in Nat, NEW found \in SUBSET Cards,
         NEW tokens \in Nat, Arrive(c, p, t, a, q, limit, found, tokens)
  PROVE  Typed'
<1>1. p \in Stored /\ stored \in Seq(PackIds)
  BY DEF Arrive, Typed, TypeOK
<1>2. Stored \subseteq PackIds
  BY <1>1 DEF Stored
<1>3. stored' \in Seq(PackIds) /\ Len(stored') = Len(stored) /\ Stored' \subseteq Stored
  <2>1. stored' = Touched(p)
    BY DEF Arrive
  <2> QED
    BY <1>1, <2>1, TouchKeepsPacks, SMTT(30) DEF Stored
<1>4. /\ call' \in [Calls -> CallStates] /\ call'[c].pack = p
      /\ \A d \in Calls : d # c => call'[d] = call[d]
  BY <1>1, <1>2, IdleIsTyped DEF Arrive, Typed, TypeOK, CallStates, Phases
<1>5. TypeOK'
  BY <1>3, <1>4 DEF Arrive, Typed, TypeOK
<1>6. Created(p) /\ p \in PackIds
  BY <1>1, <1>2 DEF Typed, PacksExist
<1>7. UNCHANGED pack
  BY DEF Arrive
<1>8. PacksExist'
  BY <1>2, <1>3, <1>4, <1>6, <1>7, PacksExistKept DEF Typed, Created
<1> QED
  BY <1>5, <1>8 DEF Typed

\* The charge of a call, and the snapshot it keeps.
LEMMA ChargeIsTyped ==
  ASSUME Typed, NEW c \in Calls, call[c].at # "idle", NEW found \in SUBSET Cards,
         NEW tokens \in Nat, NEW requests \in Nat, NEW history \in Seq(Answers),
         Charge(c, found, tokens, requests, history)
  PROVE  Typed'
<1>1. call[c].pack \in PackIds /\ Created(call[c].pack) /\ call[c].agent \in Agents
  BY DEF Typed, PacksExist, TypeOK, CallStates
<1>2. PackOf(c) \in Packs /\ PackOf(c).meter \in PackIds
  BY <1>1 DEF PackOf, Typed, TypeOK, Created
<1>3. UsageOf(c) \in Usage
  BY <1>1, <1>2 DEF UsageOf, Typed, TypeOK
<1> DEFINE charged == Charged(c, found, tokens, history)
           metered == [requests |-> UsageOf(c).requests + requests,
                       tokens |-> UsageOf(c).tokens + tokens]
           writing == [call[c] EXCEPT !.at = "writing", !.found = found, !.tokens = tokens,
                                      !.before = Snapshot(c)]
<1>4. /\ pack' \in [PackIds -> Packs]
      /\ \A p \in PackIds : pack'[p].run = pack[p].run /\ pack'[p].meter = pack[p].meter
  <2>1. charged \in Packs /\ charged.run = PackOf(c).run /\ charged.meter = PackOf(c).meter
    <3> DEFINE used == PackOf(c).used + tokens
               cards == PackOf(c).cards \cup found
    <3>1. used \in Nat /\ cards \in SUBSET Cards
      BY <1>2 DEF Packs
    <3>2. charged = [PackOf(c) EXCEPT !.used = used, !.cards = cards, !.history = history,
                                      !.lock = c]
      BY DEF Charged
    <3> HIDE DEF used, cards, charged
    <3> QED
      BY <1>2, <3>1, <3>2 DEF Packs
  <2>2. pack' = [pack EXCEPT ![call[c].pack] = charged]
    BY DEF Charge
  <2> HIDE DEF charged
  <2> QED
    BY <1>1, <2>1, <2>2 DEF PackOf, Typed, TypeOK
<1>5. usage' \in [PackIds -> [Agents -> Usage]]
  <2>1. metered \in Usage
    BY <1>3 DEF Usage
  <2>2. usage' = [usage EXCEPT ![PackOf(c).meter][call[c].agent] = metered]
    BY DEF Charge, UsageOf
  <2> HIDE DEF metered
  <2> QED
    BY <1>1, <1>2, <2>1, <2>2 DEF Typed, TypeOK
<1>7. /\ call' \in [Calls -> CallStates]
      /\ \A d \in Calls : call'[d].pack = call[d].pack
      /\ \A d \in Calls : d # c => call'[d].at = call[d].at
  <2>1. Snapshot(c) \in Snapshots
    BY <1>2, <1>3 DEF Packs, Snapshot, Snapshots
  <2>2. call[c] \in CallStates
    BY DEF Typed, TypeOK
  <2>3. writing \in CallStates /\ writing.pack = call[c].pack
    BY <2>1, <2>2 DEF CallStates, Phases
  <2>4. call' = [call EXCEPT ![c] = writing]
    BY DEF Charge
  <2> HIDE DEF writing
  <2> QED
    BY <2>3, <2>4 DEF Typed, TypeOK
<1>8. Stored' = Stored /\ Stored \subseteq PackIds
  BY DEF Stored, Charge, Typed, TypeOK
<1>9. PacksExist'
  BY <1>4, <1>7, <1>8, PacksExistKept DEF Typed, Created
<1>10. TypeOK'
  BY <1>4, <1>5, <1>7 DEF Charge, Typed, TypeOK
<1> QED
  BY <1>9, <1>10 DEF Typed

\* What a call in flight works on.
LEMMA InFlight ==
  ASSUME Typed, NEW c \in Calls, call[c].at # "idle"
  PROVE  /\ call[c] \in CallStates /\ call[c].pack \in PackIds
         /\ PackOf(c) \in Packs /\ PackOf(c).run \in Runs /\ PackOf(c).meter \in PackIds
         /\ PackOf(c) = pack[call[c].pack]
         /\ UsageOf(c) \in Usage /\ UsageOf(c) = usage[PackOf(c).meter][call[c].agent]
<1>1. call[c] \in CallStates /\ call[c].pack \in PackIds /\ Created(call[c].pack)
  BY DEF Typed, PacksExist, TypeOK
<1>2. PackOf(c) \in Packs /\ PackOf(c).run \in Runs /\ PackOf(c).meter \in PackIds
  BY <1>1 DEF PackOf, Created, Typed, TypeOK
<1>3. UsageOf(c) \in Usage
  BY <1>1, <1>2 DEF UsageOf, Typed, TypeOK, CallStates
<1> QED
  BY <1>1, <1>2, <1>3 DEF PackOf, UsageOf

\* What the write of k to the pack of call c does to the packs.
LEMMA PackWritten ==
  ASSUME Typed, NEW c \in Calls, call[c].at # "idle", NEW k \in Packs,
         k.run = PackOf(c).run, k.meter = PackOf(c).meter,
         pack' = [pack EXCEPT ![call[c].pack] = k]
  PROVE  /\ pack' \in [PackIds -> Packs]
         /\ \A p \in PackIds : pack'[p].run = pack[p].run /\ pack'[p].meter = pack[p].meter
BY InFlight DEF Typed, TypeOK

LEMMA UnlockedIsTyped ==
  ASSUME NEW k \in Packs
  PROVE  /\ Unlocked(k) \in Packs /\ Unlocked(k).run = k.run /\ Unlocked(k).meter = k.meter
         /\ Unlocked(k).used = k.used /\ Unlocked(k).cards = k.cards
         /\ Unlocked(k).budget = k.budget /\ Unlocked(k).build = k.build
         /\ Unlocked(k).lock = Nothing
BY DEF Unlocked, Packs

LEMMA RestoredIsTyped ==
  ASSUME Typed, NEW c \in Calls, call[c].at # "idle"
  PROVE  LET k == RestoredPack(c)
         IN  /\ k \in Packs /\ k.run = PackOf(c).run /\ k.meter = PackOf(c).meter
             /\ k.used = call[c].before.used /\ k.cards = call[c].before.cards
             /\ k.budget = PackOf(c).budget /\ k.build = PackOf(c).build
<1>1. call[c].before \in Snapshots
  BY InFlight DEF CallStates
<1> QED
  BY <1>1, InFlight, ZenonT(60) DEF RestoredPack, Packs, Snapshots

LEMMA SpentGrows ==
  ASSUME NEW f \in [Runs -> [Agents -> Nat]], NEW r \in Runs, NEW a \in Agents, NEW n \in Nat
  PROVE  [f EXCEPT ![r][a] = f[r][a] + n] \in [Runs -> [Agents -> Nat]]
<1>1. f[r][a] + n \in Nat
  OBVIOUS
<1> QED
  BY <1>1

LEMMA PaidGrows ==
  ASSUME NEW f \in [PackIds -> Nat], NEW p \in PackIds, NEW n \in Nat
  PROVE  [f EXCEPT ![p] = f[p] + n] \in [PackIds -> Nat]
<1>1. f[p] + n \in Nat
  OBVIOUS
<1> QED
  BY <1>1

LEMMA ServedGrows ==
  ASSUME NEW f \in [PackIds -> SUBSET Cards], NEW p \in PackIds, NEW s \in SUBSET Cards
  PROVE  [f EXCEPT ![p] = f[p] \cup s] \in [PackIds -> SUBSET Cards]
OBVIOUS

LEMMA RowsAreTyped ==
  ASSUME Typed, NEW c \in Calls, call[c].at # "idle"
  PROVE  Rows(c) \in Ledgers
<1>1. /\ call[c].pack \in PackIds /\ PackOf(c).run \in Runs /\ call[c].agent \in Agents
      /\ call[c].question \in Questions /\ call[c].tokens \in Nat
      /\ call[c].found \in SUBSET Cards /\ ledger \in Ledgers
  BY InFlight DEF CallStates, Typed, TypeOK
<1>2. /\ ledger.paid \in [PackIds -> Nat] /\ ledger.served \in [PackIds -> SUBSET Cards]
      /\ ledger.spent \in [Runs -> [Agents -> Nat]]
      /\ ledger.answered \in SUBSET (PackIds \X Agents \X Questions)
  BY <1>1 DEF Ledgers
<1> DEFINE asked == <<call[c].pack, call[c].agent, call[c].question>>
           paid == [ledger.paid EXCEPT ![call[c].pack] =
                      ledger.paid[call[c].pack] + call[c].tokens]
           served == [ledger.served EXCEPT ![call[c].pack] =
                        ledger.served[call[c].pack] \cup call[c].found]
           spent == [ledger.spent EXCEPT ![PackOf(c).run][call[c].agent] =
                       ledger.spent[PackOf(c).run][call[c].agent] + call[c].tokens]
           answered == IF call[c].tool = "request_more" THEN ledger.answered \cup {asked}
                       ELSE ledger.answered
<1>3. paid \in [PackIds -> Nat] /\ served \in [PackIds -> SUBSET Cards]
  BY <1>1, <1>2, PaidGrows, ServedGrows
<1>4. spent \in [Runs -> [Agents -> Nat]]
  BY <1>1, <1>2, SpentGrows
<1>5. answered \in SUBSET (PackIds \X Agents \X Questions)
  BY <1>1, <1>2
<1>6. Rows(c) = [paid |-> paid, served |-> served, spent |-> spent, answered |-> answered]
  BY DEF Rows
<1> HIDE DEF paid, served, spent, answered
<1> QED
  BY <1>3, <1>4, <1>5, <1>6 DEF Ledgers

LEMMA MembersServeCards == \A n \in DOMAIN Members : Members[n] \subseteq Cards
OBVIOUS

\* A pack that is born is new, keeps within its budget, and has a meter; the
\* call that makes it remembers what it cost and holds.
Born(c, p, k) ==
    /\ call[c].at = "idle" /\ pack[p].run = Nothing /\ pack' = [pack EXCEPT ![p] = k]
    /\ k.run \in Runs /\ k.meter \in PackIds /\ k.used <= k.budget /\ k.lock = Nothing
    /\ k.cards \subseteq Members[k.build]
    /\ \E a \in Agents, q \in Questions :
         k.cards \subseteq MaySee[a] /\ k.history = <<[question |-> q, ids |-> k.cards]>>
    /\ call' \in [Calls -> CallStates]
    /\ call'[c].at = "creating" /\ call'[c].pack = p
    /\ call'[c].tokens = k.used /\ call'[c].found = k.cards
    /\ \A d \in Calls : d # c => call'[d] = call[d]
    /\ k.meter = UsageForRun(k.run, p) /\ meterOf' = [meterOf EXCEPT ![k.run] = k.meter]
    /\ meterOf' \in [Runs -> PackIds \cup {Nothing}]
    /\ UNCHANGED <<active, stored, usage, ledger>>

LEMMA PackIsBorn ==
  ASSUME Typed, NEW c \in Calls, CreatePack(c)
  PROVE  \E p \in PackIds, k \in Packs : Born(c, p, k)
<1>1. PICK p \in PackIds, r \in Runs, a \in Agents, q \in Questions, asked \in AskedBudgets :
        /\ pack[p].run = Nothing
        /\ \E found \in SUBSET (Members[active] \cap MaySee[a]),
              used \in 0 .. Lesser(asked, MaxRunBudget) :
             /\ Priced(found, used)
             /\ pack' = [pack EXCEPT ![p] =
                           [run |-> r, build |-> active, meter |-> UsageForRun(r, p),
                            budget |-> Lesser(asked, MaxRunBudget), used |-> used,
                            cards |-> found, lock |-> Nothing,
                            history |-> <<[question |-> q, ids |-> found]>>]]
             /\ call' = [call EXCEPT ![c] = [Idle EXCEPT !.at = "creating", !.pack = p,
                                                         !.found = found, !.tokens = used]]
        /\ meterOf' = [meterOf EXCEPT ![r] = UsageForRun(r, p)]
  BY Zenon DEF CreatePack
<1>2. PICK found \in SUBSET (Members[active] \cap MaySee[a]),
           used \in 0 .. Lesser(asked, MaxRunBudget) :
        /\ pack' = [pack EXCEPT ![p] =
                      [run |-> r, build |-> active, meter |-> UsageForRun(r, p),
                       budget |-> Lesser(asked, MaxRunBudget), used |-> used,
                       cards |-> found, lock |-> Nothing,
                       history |-> <<[question |-> q, ids |-> found]>>]]
        /\ call' = [call EXCEPT ![c] = [Idle EXCEPT !.at = "creating", !.pack = p,
                                                    !.found = found, !.tokens = used]]
  BY <1>1, Zenon
<1>3. Lesser(asked, MaxRunBudget) \in Nat
  BY DEF Lesser
<1>4. found \in SUBSET Cards /\ used \in Nat /\ used <= Lesser(asked, MaxRunBudget)
  BY <1>3, MembersServeCards DEF Typed, TypeOK
<1>5. UsageForRun(r, p) \in PackIds
  BY DEF UsageForRun, Typed, TypeOK
<1>6. <<[question |-> q, ids |-> found]>> \in Seq(Answers)
  BY <1>4 DEF Answers
<1> DEFINE k == [run |-> r, build |-> active, meter |-> UsageForRun(r, p),
                 budget |-> Lesser(asked, MaxRunBudget), used |-> used,
                 cards |-> found, lock |-> Nothing,
                 history |-> <<[question |-> q, ids |-> found]>>]
           s == [Idle EXCEPT !.at = "creating", !.pack = p, !.found = found, !.tokens = used]
<1>7. /\ k \in Packs /\ k.run = r /\ k.meter = UsageForRun(r, p) /\ k.lock = Nothing
      /\ k.used = used /\ k.budget = Lesser(asked, MaxRunBudget) /\ k.cards = found
      /\ k.build = active /\ k.history = <<[question |-> q, ids |-> found]>>
  BY <1>3, <1>4, <1>5, <1>6 DEF Packs, Typed, TypeOK
<1>8. /\ s \in CallStates /\ s.at = "creating" /\ s.pack = p /\ s.tokens = used
      /\ s.found = found
  BY <1>4, IdleIsTyped DEF CallStates, Phases
<1>9. pack' = [pack EXCEPT ![p] = k] /\ call' = [call EXCEPT ![c] = s]
  BY <1>2
<1> HIDE DEF k, s
<1>10. /\ call' \in [Calls -> CallStates] /\ call'[c] = s
       /\ \A d \in Calls : d # c => call'[d] = call[d]
  BY <1>8, <1>9 DEF Typed, TypeOK
<1>11. meterOf' \in [Runs -> PackIds \cup {Nothing}]
  BY <1>1, <1>5 DEF Typed, TypeOK
<1>12. UNCHANGED <<active, stored, usage, ledger>> /\ call[c].at = "idle"
  BY DEF CreatePack
<1>13. k.used <= k.budget /\ k.cards \subseteq Members[k.build]
  BY <1>4, <1>7
<1>14. /\ call'[c].at = "creating" /\ call'[c].pack = p
       /\ call'[c].tokens = k.used /\ call'[c].found = k.cards
  BY <1>7, <1>8, <1>10
<1>15. /\ k \in Packs /\ k.run \in Runs /\ k.meter \in PackIds /\ k.lock = Nothing
       /\ pack[p].run = Nothing /\ pack' = [pack EXCEPT ![p] = k]
  BY <1>1, <1>5, <1>7, <1>9
<1>16. /\ k.cards \subseteq MaySee[a] /\ a \in Agents /\ q \in Questions
       /\ k.history = <<[question |-> q, ids |-> k.cards]>>
       /\ k.meter = UsageForRun(k.run, p) /\ meterOf' = [meterOf EXCEPT ![k.run] = k.meter]
  BY <1>1, <1>7
<1>17. Born(c, p, k)
  BY <1>10, <1>11, <1>12, <1>13, <1>14, <1>15, <1>16 DEF Born
<1> QED
  BY <1>15, <1>17, Zenon

LEMMA CreatePackIsTyped ==
  ASSUME Typed, NEW c \in Calls, CreatePack(c)
  PROVE  Typed'
<1> PICK p \in PackIds, k \in Packs : Born(c, p, k)
  BY PackIsBorn, Zenon
<1>1. /\ pack[p].run = Nothing /\ pack' = [pack EXCEPT ![p] = k]
      /\ k.run \in Runs /\ k.meter \in PackIds
      /\ call' \in [Calls -> CallStates] /\ call'[c].pack = p
      /\ \A d \in Calls : d # c => call'[d] = call[d]
      /\ meterOf' \in [Runs -> PackIds \cup {Nothing}]
      /\ UNCHANGED <<active, stored, usage, ledger>>
  BY DEF Born
<1>2. /\ pack' \in [PackIds -> Packs]
      /\ pack'[p].run \in Runs /\ pack'[p].meter \in PackIds
      /\ \A x \in PackIds : x # p => pack'[x] = pack[x]
  BY <1>1 DEF Typed, TypeOK
<1>3. Stored' = Stored /\ Stored \subseteq PackIds
  BY <1>1 DEF Stored, Typed, TypeOK
<1>4. \A x \in PackIds : Created(x) => Created(x)'
  BY <1>2 DEF Created
<1>5. (call[c].pack \in PackIds /\ Created(call[c].pack))'
  BY <1>1, <1>2 DEF Created
<1>6. PacksExist'
  BY <1>1, <1>3, <1>4, <1>5, PacksExistKept DEF Typed
<1>7. TypeOK'
  BY <1>1, <1>2 DEF Typed, TypeOK
<1> QED
  BY <1>6, <1>7 DEF Typed

LEMMA StorePackIsTyped ==
  ASSUME Typed, NEW c \in Calls, StorePack(c)
  PROVE  Typed'
<1>1. call[c].pack \in PackIds /\ Created(call[c].pack) /\ call[c] \in CallStates
  BY DEF StorePack, Typed, PacksExist, TypeOK
<1>2. /\ stored' \in Seq(PackIds) /\ Len(stored') <= MaxPacks
      /\ Stored' \subseteq Stored \cup {call[c].pack}
  BY <1>1, CreateKeepsLimit DEF StorePack, Typed, TypeOK
<1>3. meterOf' \in [Runs -> PackIds \cup {Nothing}]
  BY DEF StorePack, Create, Typed, TypeOK
<1>4. ledger' \in Ledgers
  <2>1. [ledger.paid EXCEPT ![call[c].pack] = call[c].tokens] \in [PackIds -> Nat]
    BY <1>1 DEF CallStates, Typed, TypeOK, Ledgers
  <2>2. [ledger.served EXCEPT ![call[c].pack] = call[c].found] \in [PackIds -> SUBSET Cards]
    BY <1>1 DEF CallStates, Typed, TypeOK, Ledgers
  <2> QED
    BY <2>1, <2>2 DEF StorePack, Typed, TypeOK, Ledgers
<1>5. TypeOK'
  BY <1>2, <1>3, <1>4, Returned DEF StorePack, Typed, TypeOK
<1>6. UNCHANGED pack
  BY DEF StorePack
<1>7. PacksExist'
  BY <1>1, <1>2, <1>6, Returned DEF StorePack, Typed, PacksExist, Created
<1> QED
  BY <1>5, <1>7 DEF Typed

LEMMA RetrieveIsTyped ==
  ASSUME Typed, NEW c \in Calls, Retrieve(c)
  PROVE  Typed'
<1>1. call[c].at # "idle"
  BY DEF Retrieve, Holds
<1> DEFINE k == [PackOf(c) EXCEPT !.lock = c]
           s == [call[c] EXCEPT !.at = "retrieving"]
<1>2. k \in Packs /\ k.run = PackOf(c).run /\ k.meter = PackOf(c).meter
  BY <1>1, InFlight, ZenonT(60) DEF Packs
<1>3. s \in CallStates /\ s.pack = call[c].pack
  <2>1. call[c] \in CallStates
    BY DEF Typed, TypeOK
  <2> QED
    BY <2>1 DEF CallStates, Phases
<1>4. pack' = [pack EXCEPT ![call[c].pack] = k] /\ call' = [call EXCEPT ![c] = s]
  BY DEF Retrieve, PackOf
<1> HIDE DEF k, s
<1>5. /\ pack' \in [PackIds -> Packs]
      /\ \A p \in PackIds : pack'[p].run = pack[p].run /\ pack'[p].meter = pack[p].meter
  BY <1>1, <1>2, <1>4, PackWritten
<1>6. TypeOK'
  <2>1. UNCHANGED <<active, stored, meterOf, usage, ledger>>
    BY DEF Retrieve
  <2>2. call' \in [Calls -> CallStates]
    BY <1>3, <1>4 DEF Typed, TypeOK
  <2> QED
    BY <1>5, <2>1, <2>2 DEF Typed, TypeOK
<1>7. Stored' = Stored /\ Stored \subseteq PackIds
  BY DEF Retrieve, Stored, Typed, TypeOK
<1>8. PacksExist'
  BY <1>1, <1>3, <1>4, <1>5, <1>7, PacksExistKept DEF Typed, TypeOK, Created
<1> QED
  BY <1>6, <1>8 DEF Typed

\* The pack of a call that returns is unlocked, or left alone.
LEMMA UnlockIsTyped ==
  ASSUME Typed, NEW c \in Calls, call[c].at # "idle",
         \/ pack' = pack
         \/ pack' = [pack EXCEPT ![call[c].pack] = Unlocked(@)]
  PROVE  /\ pack' \in [PackIds -> Packs]
         /\ \A p \in PackIds : pack'[p].run = pack[p].run /\ pack'[p].meter = pack[p].meter
<1>1. CASE pack' = pack
  BY <1>1 DEF Typed, TypeOK
<1>2. CASE pack' = [pack EXCEPT ![call[c].pack] = Unlocked(@)]
  <2> DEFINE k == Unlocked(PackOf(c))
  <2>1. k \in Packs /\ k.run = PackOf(c).run /\ k.meter = PackOf(c).meter
    BY InFlight, UnlockedIsTyped
  <2>2. pack' = [pack EXCEPT ![call[c].pack] = k]
    BY <1>2 DEF PackOf
  <2> HIDE DEF k
  <2> QED
    BY <2>1, <2>2, PackWritten
<1> QED
  BY <1>1, <1>2

LEMMA ReturningIsTyped ==
  ASSUME Typed, NEW c \in Calls,
         Reuse(c) \/ RefuseMore(c) \/ RefuseOpen(c) \/ LedgerLands(c) \/ Cancel(c)
  PROVE  Typed'
<1>1. call[c].at # "idle" /\ Return(c) /\ active' = active /\ stored' = stored
      /\ meterOf' = meterOf /\ usage' = usage
  BY DEF Reuse, RefuseMore, RefuseOpen, LedgerLands, Cancel, Holds
<1>2. pack' = pack \/ pack' = [pack EXCEPT ![call[c].pack] = Unlocked(@)]
  BY DEF Reuse, RefuseMore, RefuseOpen, LedgerLands, Cancel
<1>3. ledger' = ledger \/ ledger' = Rows(c)
  BY DEF Reuse, RefuseMore, RefuseOpen, LedgerLands, Cancel
<1>4. ledger' \in Ledgers
  BY <1>1, <1>3, RowsAreTyped DEF Typed, TypeOK
<1>5. usage' \in [PackIds -> [Agents -> Usage]]
  BY <1>1 DEF Typed, TypeOK
<1> QED
  BY <1>1, <1>2, <1>4, <1>5, UnlockIsTyped, ReturnIsTyped

LEMMA CallRaisesIsTyped ==
  ASSUME Typed, NEW c \in Calls, CallRaises(c)
  PROVE  Typed'
<1>1. call[c].at # "idle" /\ Return(c) /\ active' = active /\ stored' = stored
      /\ meterOf' = meterOf /\ ledger' = ledger
  BY DEF CallRaises
<1>2. ledger' \in Ledgers
  BY <1>1 DEF Typed, TypeOK
<1>3. CASE call[c].at = "writing"
  <2> DEFINE k == Unlocked(RestoredPack(c))
  <2>1. k \in Packs /\ k.run = PackOf(c).run /\ k.meter = PackOf(c).meter
    BY <1>1, RestoredIsTyped, UnlockedIsTyped
  <2>2. /\ pack' = [pack EXCEPT ![call[c].pack] = k]
        /\ usage' = [usage EXCEPT ![PackOf(c).meter][call[c].agent] = RestoredUsage(c)]
    BY <1>3 DEF CallRaises
  <2> HIDE DEF k
  <2>3. /\ pack' \in [PackIds -> Packs]
        /\ \A p \in PackIds : pack'[p].run = pack[p].run /\ pack'[p].meter = pack[p].meter
    BY <1>1, <2>1, <2>2, PackWritten
  <2>4. RestoredUsage(c) \in Usage
    BY <1>1, InFlight DEF RestoredUsage, CallStates, Snapshots
  <2>5. usage' \in [PackIds -> [Agents -> Usage]]
    BY <1>1, <2>2, <2>4, InFlight DEF Typed, TypeOK
  <2> QED
    BY <1>1, <1>2, <2>3, <2>5, ReturnIsTyped
<1>4. CASE call[c].at # "writing"
  <2>1. /\ pack' = pack \/ pack' = [pack EXCEPT ![call[c].pack] = Unlocked(@)]
        /\ usage' = usage
    BY <1>4 DEF CallRaises
  <2>2. usage' \in [PackIds -> [Agents -> Usage]]
    BY <2>1 DEF Typed, TypeOK
  <2> QED
    BY <1>1, <1>2, <2>1, <2>2, UnlockIsTyped, ReturnIsTyped
<1> QED
  BY <1>3, <1>4

LEMMA ArrivalsAreTyped ==
  ASSUME Typed, NEW c \in Calls, ArriveMore(c) \/ ArriveOpen(c) \/ ArriveExpand(c)
  PROVE  Typed'
<1>1. CASE ArriveMore(c)
  <2>1. PICK p \in PackIds, a \in Agents, q \in Questions, limit \in AskedTokens :
          Arrive(c, p, "request_more", a, q, limit, {}, 0)
    BY <1>1 DEF ArriveMore
  <2> QED
    BY <2>1, ArriveIsTyped DEF KnownTools
<1>2. CASE ArriveOpen(c)
  <2>1. PICK p \in PackIds, a \in Agents, cost \in AskedTokens :
          Arrive(c, p, "open_evidence", a, Idle.question, cost, {}, 0)
    BY <1>2 DEF ArriveOpen
  <2>2. Idle.question \in Questions
    BY DEF Idle
  <2> QED
    BY <2>1, <2>2, ArriveIsTyped DEF KnownTools
<1>3. CASE ArriveExpand(c)
  <2>1. PICK p \in PackIds, a \in Agents, asked \in AskedTokens :
          LET effective == Lesser(Lesser(asked, MaxRunBudget), Remaining(p))
          IN  \E found \in SUBSET ((Members[active] \cap MaySee[a]) \ pack[p].cards),
                 tokens \in 0 .. effective :
                /\ Priced(found, tokens)
                /\ Arrive(c, p, "expand", a, Idle.question, 0, found, tokens)
    BY <1>3, Zenon DEF ArriveExpand
  <2>2. PICK found \in SUBSET ((Members[active] \cap MaySee[a]) \ pack[p].cards),
             tokens \in 0 .. Lesser(Lesser(asked, MaxRunBudget), Remaining(p)) :
          Arrive(c, p, "expand", a, Idle.question, 0, found, tokens)
    BY <2>1
  <2>3. Idle.question \in Questions
    BY DEF Idle
  <2>4. found \in SUBSET Cards /\ tokens \in Nat
    BY MembersServeCards DEF Typed, TypeOK
  <2> QED
    BY <2>2, <2>3, <2>4, ArriveIsTyped DEF KnownTools
<1> QED
  BY <1>1, <1>2, <1>3

LEMMA ChargesAreTyped ==
  ASSUME Typed, NEW c \in Calls, ChargeMore(c) \/ ChargeOpen(c) \/ ChargeExpand(c)
  PROVE  Typed'
<1>1. call[c].at # "idle"
  BY DEF ChargeMore, ChargeOpen, ChargeExpand, Holds
<1>2. /\ PackOf(c) \in Packs /\ call[c] \in CallStates
      /\ PackOf(c).history \in Seq(Answers) /\ call[c].limit \in Nat
      /\ call[c].tokens \in Nat /\ call[c].found \in SUBSET Cards
      /\ call[c].question \in Questions
  BY <1>1, InFlight DEF Packs, CallStates
<1>3. CASE ChargeMore(c)
  <2>1. PICK found \in SUBSET ((ServedTo(call[c].pack) \cap MaySee[call[c].agent])
                                  \ PackOf(c).cards),
             tokens \in 0 .. call[c].limit :
          Charge(c, found, tokens, 1, Recorded(c, found))
    BY <1>3 DEF ChargeMore
  <2>2. found \in SUBSET Cards /\ tokens \in Nat
    <3>1. call[c].pack \in PackIds
      BY <1>1, InFlight
    <3> QED
      BY <1>2, <3>1, MembersServeCards DEF ServedTo, Typed, TypeOK, Packs
  <2>3. Recorded(c, found) \in Seq(Answers)
    <3>1. [question |-> call[c].question, ids |-> found] \in Answers
      BY <1>2, <2>2 DEF Answers
    <3> QED
      BY <1>2, <3>1 DEF Recorded
  <2> QED
    BY <1>1, <2>1, <2>2, <2>3, ChargeIsTyped
<1>4. CASE ChargeOpen(c)
  <2>1. Charge(c, {}, call[c].limit, 0, PackOf(c).history)
    BY <1>4 DEF ChargeOpen
  <2> QED
    BY <1>1, <1>2, <2>1, ChargeIsTyped
<1>5. CASE ChargeExpand(c)
  <2>1. Charge(c, call[c].found, call[c].tokens, 0, PackOf(c).history)
    BY <1>5 DEF ChargeExpand
  <2> QED
    BY <1>1, <1>2, <2>1, ChargeIsTyped
<1> QED
  BY <1>3, <1>4, <1>5

\* Reads and activations keep every pack, call and row.
LEMMA PassiveIsTyped ==
  ASSUME Typed, (\E p \in PackIds : ReadPack(p)) \/ ActivateNext \/ UNCHANGED vars
  PROVE  Typed'
<1>1. UNCHANGED <<pack, meterOf, usage, call, ledger>> /\ active' \in DOMAIN Members
  BY DEF ReadPack, ActivateNext, vars, Typed, TypeOK
<1>2. /\ stored' \in Seq(PackIds) /\ Len(stored') = Len(stored) /\ Stored' \subseteq Stored
  <2>1. CASE \E p \in PackIds : ReadPack(p)
    <3>1. PICK p \in Stored : stored' = Touched(p)
      BY <2>1 DEF ReadPack
    <3>2. stored \in Seq(PackIds)
      BY DEF Typed, TypeOK
    <3> QED
      BY <3>1, <3>2, TouchKeepsPacks DEF Stored
  <2>2. CASE stored' = stored
    BY <2>2 DEF Stored, Typed, TypeOK
  <2> QED
    BY <2>1, <2>2 DEF ActivateNext, vars
<1>3. TypeOK'
  BY <1>1, <1>2 DEF Typed, TypeOK
<1>4. PacksExist'
  BY <1>1, <1>2 DEF Typed, PacksExist, Created
<1> QED
  BY <1>3, <1>4 DEF Typed

LEMMA TypedStep == Typed /\ [Next]_vars => Typed'
<1> SUFFICES ASSUME Typed, [Next]_vars PROVE Typed'
  OBVIOUS
<1>1. ASSUME NEW c \in Calls, CreatePack(c) PROVE Typed'
  BY <1>1, CreatePackIsTyped
<1>2. ASSUME NEW c \in Calls, ArriveMore(c) \/ ArriveOpen(c) \/ ArriveExpand(c) PROVE Typed'
  BY <1>2, ArrivalsAreTyped
<1>3. ASSUME NEW c \in Calls, Acquire(c) PROVE Typed'
  BY <1>3, ReturningIsTyped, RetrieveIsTyped, ChargesAreTyped DEF Acquire
<1>4. ASSUME NEW c \in Calls, Resume(c) PROVE Typed'
  BY <1>4, StorePackIsTyped, ChargesAreTyped, ReturningIsTyped, CallRaisesIsTyped DEF Resume
<1>5. ASSUME NEW c \in Calls, Cancel(c) PROVE Typed'
  BY <1>5, ReturningIsTyped
<1>6. CASE (\E p \in PackIds : ReadPack(p)) \/ ActivateNext \/ UNCHANGED vars
  BY <1>6, PassiveIsTyped
<1> QED
  BY <1>1, <1>2, <1>3, <1>4, <1>5, <1>6 DEF Next

\* The pack store, the packs, the meters, the calls and the ledger stay in
\* their types, and the store within PackStore.max_packs, whatever fails, is
\* cancelled or evicted (state.py, PackStore.create).
THEOREM PackTyping == Spec => []TypeOK
<1>1. Typed => TypeOK
  BY DEF Typed
<1> QED
  BY <1>1, Start, TypedStep, PTL DEF Spec
------------------------------------------------------------------------------
NoExpand == "expand" \notin Tools

\* What call s knows about pack k: a charging call holds the lock of its pack,
\* its check still stands when it charges, and so does what a refund restores.
Sound(s, k, c) == /\ s.at = "waiting" => s.tool \in Tools
                  /\ s.at \in Charging => k.lock = c
                  /\ s.at = "retrieving" => k.used + s.limit <= k.budget
                  /\ s.at = "writing" => s.before.used <= k.budget

Budgeted == /\ RunBudgetHolds
            /\ \A c \in Calls : Sound(call[c], PackOf(c), c)

OnlyCall(c) == \A d \in Calls : d # c => call'[d] = call[d]

NobodyElseCharges(c, p) ==
    \A d \in Calls : d # c /\ call[d].at \in Charging => call[d].pack # p

\* While call c writes k to pack p, no other call may be charging p.
LEMMA WriteKeepsBudget ==
  ASSUME Typed, Budgeted, NEW c \in Calls, NEW p \in PackIds, NEW k \in Packs,
         pack' = [pack EXCEPT ![p] = k],
         OnlyCall(c), NobodyElseCharges(c, p),
         k.used <= k.budget, call'[c].pack = p \/ call'[c] = Idle, Sound(call'[c], k, c)
  PROVE  Budgeted'
<1>1. RunBudgetHolds'
  BY DEF Budgeted, RunBudgetHolds, Typed, TypeOK
<1>2. ASSUME NEW d \in Calls, d # c PROVE Sound(call'[d], PackOf(d)', d)
  <2>1. call'[d] = call[d] /\ Sound(call[d], PackOf(d), d)
    BY <1>2 DEF Budgeted, OnlyCall
  <2>2. CASE call[d].at \in Charging
    <3>1. call[d].pack \in PackIds /\ call[d].pack # p
      BY <1>2, <2>2, InFlight DEF Charging, NobodyElseCharges
    <3> QED
      BY <2>1, <3>1 DEF PackOf, Typed, TypeOK
  <2>3. CASE call[d].at \notin Charging
    BY <2>1, <2>3 DEF Sound, Charging
  <2> QED
    BY <2>2, <2>3
<1>3. Sound(call'[c], PackOf(c)', c)
  <2>1. CASE call'[c].pack = p
    BY <2>1 DEF PackOf, Typed, TypeOK
  <2>2. CASE call'[c] = Idle
    BY <2>2, IdleIsTyped DEF Sound, Charging
  <2> QED
    BY <2>1, <2>2
<1> QED
  BY <1>1, <1>2, <1>3 DEF Budgeted

\* A step that writes no pack keeps every call's knowledge.
LEMMA CallKeepsBudget ==
  ASSUME Typed, Budgeted, NEW c \in Calls, NEW s, pack' = pack,
         call' = [call EXCEPT ![c] = s],
         s.at \notin Charging, s.at = "waiting" => s.tool \in Tools
  PROVE  Budgeted'
<1>1. RunBudgetHolds'
  BY DEF Budgeted, RunBudgetHolds
<1>2. ASSUME NEW d \in Calls PROVE Sound(call'[d], PackOf(d)', d)
  BY <1>2 DEF Budgeted, PackOf, Sound, Charging, Typed, TypeOK
<1> QED
  BY <1>1, <1>2 DEF Budgeted

\* A charging call is alone on its pack, and a call that finds the lock free
\* finds nobody charging.
LEMMA Alone ==
  ASSUME Budgeted, NEW c \in Calls, NEW d \in Calls, d # c,
         call[d].at \in Charging, call[d].pack = call[c].pack,
         call[c].at \in Charging \/ LockFree(c)
  PROVE  FALSE
<1>1. PackOf(d).lock = d /\ PackOf(d) = PackOf(c)
  BY DEF Budgeted, Sound, PackOf
<1>2. d # Nothing
  OBVIOUS
<1>3. PackOf(c).lock = c \/ PackOf(c).lock = Nothing
  BY DEF Budgeted, Sound, LockFree
<1> QED
  BY <1>1, <1>2, <1>3

\* A charge within the budget keeps it, and the refund it may need.
LEMMA ChargeKeepsBudget ==
  ASSUME Typed, Budgeted, NEW c \in Calls, call[c].at # "idle",
         call[c].at \in Charging \/ LockFree(c),
         NEW found \in SUBSET Cards, NEW tokens \in Nat, NEW requests \in Nat,
         NEW history \in Seq(Answers), PackOf(c).used + tokens <= PackOf(c).budget,
         Charge(c, found, tokens, requests, history)
  PROVE  Budgeted'
<1> DEFINE k == Charged(c, found, tokens, history)
           s == [call[c] EXCEPT !.at = "writing", !.found = found, !.tokens = tokens,
                                !.before = Snapshot(c)]
<1>1. /\ call[c] \in CallStates /\ call[c].pack \in PackIds /\ PackOf(c) \in Packs
  BY InFlight
<1>2. /\ k \in Packs /\ k.used = PackOf(c).used + tokens /\ k.budget = PackOf(c).budget
      /\ k.lock = c
  <2> DEFINE used == PackOf(c).used + tokens
             cards == PackOf(c).cards \cup found
  <2>1. used \in Nat /\ cards \in SUBSET Cards
    BY <1>1 DEF Packs
  <2>2. k = [PackOf(c) EXCEPT !.used = used, !.cards = cards, !.history = history, !.lock = c]
    BY DEF Charged
  <2> HIDE DEF used, cards, k
  <2>3. k \in Packs /\ k.used = used /\ k.budget = PackOf(c).budget /\ k.lock = c
    BY <1>1, <2>1, <2>2 DEF Packs
  <2> QED
    BY <2>3 DEF used
<1>3. s.at = "writing" /\ s.pack = call[c].pack /\ s.before = Snapshot(c)
  BY <1>1 DEF CallStates
<1>4. pack' = [pack EXCEPT ![call[c].pack] = k] /\ call' = [call EXCEPT ![c] = s]
  BY DEF Charge
<1>5. Snapshot(c).used = PackOf(c).used /\ PackOf(c).used \in Nat /\ PackOf(c).budget \in Nat
  BY <1>1 DEF Snapshot, Packs
<1>6. PackOf(c).used <= PackOf(c).budget
  BY <1>5
<1> HIDE DEF k, s
<1>7. Sound(s, k, c)
  BY <1>2, <1>3, <1>5, <1>6 DEF Sound, Charging
<1>8. NobodyElseCharges(c, call[c].pack)
  BY Alone DEF NobodyElseCharges
<1>9. k.used <= k.budget
  BY <1>2
<1>10. call'[c] = s /\ OnlyCall(c)
  BY <1>4 DEF OnlyCall, Typed, TypeOK
<1>11. Sound(call'[c], k, c) /\ call'[c].pack = call[c].pack /\ k \in Packs
  BY <1>2, <1>3, <1>7, <1>10
<1> QED
  BY <1>1, <1>4, <1>8, <1>9, <1>10, <1>11, WriteKeepsBudget

LEMMA CreatePackKeepsBudget ==
  ASSUME Typed, Budgeted, NEW c \in Calls, CreatePack(c)
  PROVE  Budgeted'
<1> PICK p \in PackIds, k \in Packs : Born(c, p, k)
  BY PackIsBorn, Zenon
<1>1. /\ pack[p].run = Nothing /\ pack' = [pack EXCEPT ![p] = k]
      /\ k.used <= k.budget
      /\ call'[c].at = "creating" /\ call'[c].pack = p
      /\ OnlyCall(c)
  BY DEF Born, OnlyCall
<1>2. NobodyElseCharges(c, p)
  BY <1>1, InFlight DEF Charging, NobodyElseCharges
<1>3. Sound(call'[c], k, c)
  BY <1>1 DEF Sound, Charging
<1> QED
  BY <1>1, <1>2, <1>3, WriteKeepsBudget

LEMMA ArriveKeepsBudget ==
  ASSUME Typed, Budgeted, NEW c \in Calls, NEW p, NEW t, NEW a, NEW q, NEW limit,
         NEW found, NEW tokens, Arrive(c, p, t, a, q, limit, found, tokens)
  PROVE  Budgeted'
<1> DEFINE s == [Idle EXCEPT !.at = "waiting", !.tool = t, !.pack = p, !.agent = a,
                             !.question = q, !.limit = limit, !.found = found,
                             !.tokens = tokens]
<1>1. s.at = "waiting" /\ s.tool = t /\ t \in Tools
  BY IdleIsTyped DEF Arrive, CallStates
<1>2. pack' = pack /\ call' = [call EXCEPT ![c] = s]
  BY DEF Arrive
<1> HIDE DEF s
<1> QED
  BY <1>1, <1>2, CallKeepsBudget DEF Charging

LEMMA ReturnKeepsBudget ==
  ASSUME Typed, Budgeted, NEW c \in Calls, Return(c), pack' = pack
  PROVE  Budgeted'
BY CallKeepsBudget, IdleIsTyped DEF Return, Charging

\* A charging call gives its pack back as it was, or refunded.
LEMMA UnlockKeepsBudget ==
  ASSUME Typed, Budgeted, NEW c \in Calls, call[c].at \in Charging, Return(c),
         NEW k \in Packs, pack' = [pack EXCEPT ![call[c].pack] = Unlocked(k)],
         k.used <= k.budget
  PROVE  Budgeted'
<1>1. /\ call'[c] = Idle /\ Idle.at = "idle"
      /\ OnlyCall(c)
  BY IdleIsTyped DEF OnlyCall, Return, Typed, TypeOK
<1>2. call[c].pack \in PackIds
  BY InFlight DEF Charging
<1>3. NobodyElseCharges(c, call[c].pack)
  BY Alone DEF NobodyElseCharges
<1>4. Unlocked(k) \in Packs /\ Unlocked(k).used <= Unlocked(k).budget
  BY UnlockedIsTyped
<1>5. Sound(call'[c], Unlocked(k), c)
  BY <1>1 DEF Sound, Charging
<1> QED
  BY <1>1, <1>2, <1>3, <1>4, <1>5, WriteKeepsBudget

LEMMA RetrieveKeepsBudget ==
  ASSUME Typed, Budgeted, NEW c \in Calls, Retrieve(c)
  PROVE  Budgeted'
<1>1. call[c].at = "waiting" /\ LockFree(c) /\ WithinRunBudget(c)
  BY DEF Retrieve, Holds
<1>2. /\ call[c] \in CallStates /\ call[c].pack \in PackIds /\ PackOf(c) \in Packs
      /\ PackOf(c) = pack[call[c].pack]
  BY <1>1, InFlight
<1>3. PackOf(c).used + call[c].limit <= PackOf(c).budget
  <2>1. PackOf(c).used <= PackOf(c).budget
    BY <1>2 DEF Budgeted, RunBudgetHolds
  <2>2. PackOf(c).used \in Nat /\ PackOf(c).budget \in Nat /\ call[c].limit \in Nat
    BY <1>2 DEF Packs, CallStates
  <2> QED
    BY <1>1, <1>2, <2>1, <2>2 DEF WithinRunBudget, Remaining
<1> DEFINE k == [PackOf(c) EXCEPT !.lock = c]
           s == [call[c] EXCEPT !.at = "retrieving"]
<1>4. k \in Packs /\ k.used = PackOf(c).used /\ k.budget = PackOf(c).budget /\ k.lock = c
  BY <1>2 DEF Packs
<1>5. s.at = "retrieving" /\ s.pack = call[c].pack /\ s.limit = call[c].limit
  BY <1>2 DEF CallStates
<1>6. pack' = [pack EXCEPT ![call[c].pack] = k] /\ call' = [call EXCEPT ![c] = s]
  BY DEF Retrieve, PackOf
<1> HIDE DEF k, s
<1>7. call'[c] = s /\ OnlyCall(c)
  BY <1>6 DEF OnlyCall, Typed, TypeOK
<1>8. Sound(call'[c], k, c)
  BY <1>3, <1>4, <1>5, <1>7 DEF Sound, Charging
<1>9. NobodyElseCharges(c, call[c].pack)
  BY <1>1, Alone DEF NobodyElseCharges
<1>10. k.used <= k.budget
  BY <1>2, <1>4 DEF Budgeted, RunBudgetHolds
<1>11. call'[c].pack = call[c].pack
  BY <1>5, <1>7
<1> QED
  BY <1>2, <1>4, <1>6, <1>7, <1>8, <1>9, <1>10, <1>11, WriteKeepsBudget

LEMMA ChargesKeepBudget ==
  ASSUME NoExpand, Typed, Budgeted, NEW c \in Calls,
         ChargeMore(c) \/ ChargeOpen(c) \/ ChargeExpand(c)
  PROVE  Budgeted'
<1>1. call[c].at # "idle"
  BY DEF ChargeMore, ChargeOpen, ChargeExpand, Holds
<1>2. /\ PackOf(c).history \in Seq(Answers) /\ call[c].limit \in Nat
      /\ call[c].question \in Questions /\ PackOf(c) \in Packs
      /\ PackOf(c) = pack[call[c].pack] /\ call[c].pack \in PackIds
  BY <1>1, InFlight DEF Packs, CallStates
<1>3. PackOf(c).used \in Nat /\ PackOf(c).budget \in Nat
  BY <1>2 DEF Packs
<1>4. CASE ChargeMore(c)
  <2>1. PICK found \in SUBSET ((ServedTo(call[c].pack) \cap MaySee[call[c].agent])
                                  \ PackOf(c).cards),
             tokens \in 0 .. call[c].limit :
          Charge(c, found, tokens, 1, Recorded(c, found))
    BY <1>4 DEF ChargeMore
  <2>2. found \in SUBSET Cards /\ tokens \in Nat /\ tokens <= call[c].limit
    BY <1>2, MembersServeCards DEF ServedTo, Packs
  <2>3. Recorded(c, found) \in Seq(Answers)
    <3>1. [question |-> call[c].question, ids |-> found] \in Answers
      BY <1>2, <2>2 DEF Answers
    <3> QED
      BY <1>2, <3>1 DEF Recorded
  <2>4. call[c].at \in Charging /\ PackOf(c).used + call[c].limit <= PackOf(c).budget
    BY <1>4 DEF ChargeMore, Charging, Budgeted, Sound
  <2>5. PackOf(c).used + tokens <= PackOf(c).budget
    <3>1. call[c].limit \in Nat
      BY <1>2
    <3> QED
      BY <1>3, <2>2, <2>4, <3>1
  <2> QED
    BY <1>1, <2>1, <2>2, <2>3, <2>4, <2>5, ChargeKeepsBudget
<1>5. CASE ChargeOpen(c)
  <2>1. /\ Charge(c, {}, call[c].limit, 0, PackOf(c).history)
        /\ LockFree(c) /\ WithinRunBudget(c)
    BY <1>5 DEF ChargeOpen, Holds
  <2>2. PackOf(c).used <= PackOf(c).budget
    BY <1>2 DEF Budgeted, RunBudgetHolds
  <2>3. PackOf(c).used + call[c].limit <= PackOf(c).budget
    BY <1>2, <1>3, <2>1, <2>2 DEF WithinRunBudget, Remaining
  <2> QED
    BY <1>1, <1>2, <2>1, <2>3, ChargeKeepsBudget
<1>6. CASE ChargeExpand(c)
  BY <1>6 DEF ChargeExpand, Holds, Budgeted, Sound, NoExpand
<1> QED
  BY <1>4, <1>5, <1>6

LEMMA EndingsKeepBudget ==
  ASSUME Typed, Budgeted, NEW c \in Calls, LedgerLands(c) \/ CallRaises(c) \/ Cancel(c)
  PROVE  Budgeted'
<1>1. call[c].at # "idle" /\ Return(c)
  BY DEF LedgerLands, CallRaises, Cancel
<1>2. /\ call[c].pack \in PackIds /\ PackOf(c) \in Packs /\ PackOf(c) = pack[call[c].pack]
      /\ PackOf(c).used <= PackOf(c).budget
  BY <1>1, InFlight DEF Budgeted, RunBudgetHolds
<1>3. CASE pack' = pack
  BY <1>1, <1>3, ReturnKeepsBudget
<1>4. CASE call[c].at \in Charging /\ pack' = [pack EXCEPT ![call[c].pack] = Unlocked(@)]
  <2>1. pack' = [pack EXCEPT ![call[c].pack] = Unlocked(PackOf(c))]
    BY <1>4 DEF PackOf
  <2> QED
    BY <1>1, <1>2, <1>4, <2>1, UnlockKeepsBudget
<1>5. CASE /\ call[c].at = "writing"
           /\ pack' = [pack EXCEPT ![call[c].pack] = Unlocked(RestoredPack(c))]
  <2>1. /\ RestoredPack(c) \in Packs /\ RestoredPack(c).used = call[c].before.used
        /\ RestoredPack(c).budget = PackOf(c).budget
    BY <1>1, RestoredIsTyped
  <2>2. call[c].before.used <= PackOf(c).budget
    BY <1>5 DEF Budgeted, Sound
  <2>3. RestoredPack(c).used <= RestoredPack(c).budget /\ call[c].at \in Charging
    BY <1>5, <2>1, <2>2 DEF Charging
  <2> QED
    BY <1>1, <1>5, <2>1, <2>3, UnlockKeepsBudget
<1>6. \/ pack' = pack
      \/ call[c].at \in Charging /\ pack' = [pack EXCEPT ![call[c].pack] = Unlocked(@)]
      \/ /\ call[c].at = "writing"
         /\ pack' = [pack EXCEPT ![call[c].pack] = Unlocked(RestoredPack(c))]
  BY DEF LedgerLands, CallRaises, Cancel, Charging
<1> QED
  BY <1>3, <1>4, <1>5, <1>6

LEMMA PassiveKeepsBudget ==
  ASSUME Budgeted, (\E p \in PackIds : ReadPack(p)) \/ ActivateNext \/ UNCHANGED vars
  PROVE  Budgeted'
BY DEF ReadPack, ActivateNext, vars, Budgeted, RunBudgetHolds, PackOf

LEMMA BudgetedStep == NoExpand /\ Typed /\ Budgeted /\ [Next]_vars => Budgeted'
<1> SUFFICES ASSUME NoExpand, Typed, Budgeted, [Next]_vars PROVE Budgeted'
  OBVIOUS
<1>1. ASSUME NEW c \in Calls, CreatePack(c) PROVE Budgeted'
  BY <1>1, CreatePackKeepsBudget
<1>2. ASSUME NEW c \in Calls, ArriveMore(c) \/ ArriveOpen(c) \/ ArriveExpand(c) PROVE Budgeted'
  BY <1>2, ArriveKeepsBudget, Zenon DEF ArriveMore, ArriveOpen, ArriveExpand
<1>3. ASSUME NEW c \in Calls, Reuse(c) \/ RefuseMore(c) \/ RefuseOpen(c) PROVE Budgeted'
  BY <1>3, ReturnKeepsBudget DEF Reuse, RefuseMore, RefuseOpen
<1>4. ASSUME NEW c \in Calls, Acquire(c) PROVE Budgeted'
  BY <1>3, <1>4, RetrieveKeepsBudget, ChargesKeepBudget DEF Acquire
<1>5. ASSUME NEW c \in Calls, StorePack(c) PROVE Budgeted'
  BY <1>5, ReturnKeepsBudget DEF StorePack
<1>6. ASSUME NEW c \in Calls, Resume(c) \/ Cancel(c) PROVE Budgeted'
  BY <1>5, <1>6, ChargesKeepBudget, EndingsKeepBudget DEF Resume
<1>7. CASE (\E p \in PackIds : ReadPack(p)) \/ ActivateNext \/ UNCHANGED vars
  BY <1>7, PassiveKeepsBudget
<1> QED
  BY <1>1, <1>2, <1>4, <1>6, <1>7 DEF Next

LEMMA BudgetedStart == Init => Budgeted
<1> SUFFICES ASSUME Init PROVE Budgeted
  OBVIOUS
<1>1. RunBudgetHolds
  BY DEF Init, RunBudgetHolds, NoPack
<1>2. \A c \in Calls : call[c] = Idle
  BY DEF Init
<1>3. \A c \in Calls : Sound(call[c], PackOf(c), c)
  BY <1>2, IdleIsTyped DEF Sound, Charging
<1> QED
  BY <1>1, <1>3 DEF Budgeted

\* Where clients call request_more and open_evidence but not expand, a pack
\* never spends more than its run budget: the lock is held from the check to
\* the end of the ledger write (request_more.py, evidence.py, state.py).
THEOREM RunBudget == NoExpand => (Spec => []RunBudgetHolds)
<1> SUFFICES ASSUME NoExpand PROVE Spec => []RunBudgetHolds
  OBVIOUS
<1>1. Init => Typed /\ Budgeted
  BY Start, BudgetedStart
<1>2. Typed /\ Budgeted /\ [Next]_vars => Typed' /\ Budgeted'
  BY TypedStep, BudgetedStep
<1>3. Budgeted => RunBudgetHolds
  BY DEF Budgeted
<1> QED
  BY <1>1, <1>2, <1>3, PTL DEF Spec
------------------------------------------------------------------------------
\* What every step comes to, for the packs, the calls in flight and the ledger:
\* a call turns up or goes, takes the lock of its pack, charges it, gives it
\* back, or is refunded.
OnlyPack(p) == \A x \in PackIds : x # p => pack'[x] = pack[x]

\* A call arrives at a pack that can be found, or returns and leaves no trace.
Passes(c) == /\ UNCHANGED <<pack, meterOf, usage, ledger>>
             /\ Stored' \subseteq Stored /\ OnlyCall(c) /\ call[c].at \notin Charging
             /\ \/ call'[c].at = "idle"
                \/ /\ call'[c].at = "waiting" /\ call'[c].tool \in Tools
                   /\ call'[c].pack \in Stored

Locks(c) == /\ call[c].at = "waiting" /\ call[c].tool = "request_more" /\ LockFree(c)
            /\ RequestLeft(c) /\ WithinAllowance(c)
            /\ OnlyCall(c) /\ OnlyPack(call[c].pack)
            /\ UNCHANGED <<stored, meterOf, usage, ledger>>
            /\ pack'[call[c].pack] = [PackOf(c) EXCEPT !.lock = c]
            /\ call'[c] = [call[c] EXCEPT !.at = "retrieving"]

\* A charge is made by a call that holds the lock, or finds it free.
Charges(c, found, tokens, requests, history) ==
    /\ call[c].at = "retrieving" \/ (call[c].at = "waiting" /\ LockFree(c))
    /\ OnlyCall(c) /\ OnlyPack(call[c].pack) /\ UNCHANGED <<stored, meterOf, ledger>>
    /\ usage' = [usage EXCEPT ![PackOf(c).meter][call[c].agent] =
                   [requests |-> UsageOf(c).requests + requests,
                    tokens |-> UsageOf(c).tokens + tokens]]
    /\ pack'[call[c].pack].run = PackOf(c).run /\ pack'[call[c].pack].meter = PackOf(c).meter
    /\ pack'[call[c].pack].build = PackOf(c).build
    /\ pack'[call[c].pack].used = PackOf(c).used + tokens
    /\ pack'[call[c].pack].cards = PackOf(c).cards \cup found
    /\ pack'[call[c].pack].history = history
    /\ pack'[call[c].pack].lock = c
    /\ call'[c].at = "writing" /\ call'[c].tool = call[c].tool
    /\ call'[c].pack = call[c].pack /\ call'[c].question = call[c].question
    /\ call'[c].agent = call[c].agent
    /\ call'[c].found = found /\ call'[c].tokens = tokens
    /\ call'[c].before = Snapshot(c)

\* What the tools charge: only request_more adds to the history, and cards come
\* from the pack's own build but for an expansion.
ChargedFor(c, found, tokens, requests, history) ==
    \/ /\ call[c].at = "retrieving" /\ tokens <= call[c].limit /\ requests = 1
       /\ found \subseteq ServedTo(call[c].pack) \cap MaySee[call[c].agent]
       /\ history = Recorded(c, found)
    \/ /\ call[c].at = "waiting" /\ call[c].tool = "open_evidence" /\ WithinAllowance(c)
       /\ tokens = call[c].limit /\ requests = 0
       /\ found = {} /\ history = PackOf(c).history
    \/ /\ call[c].at = "waiting" /\ call[c].tool = "expand"
       /\ history = PackOf(c).history

\* The call returns with what it charged, and frees the pack.
Settles(c) ==
    /\ call[c].at \in Charging
    /\ OnlyCall(c) /\ OnlyPack(call[c].pack) /\ UNCHANGED <<stored, meterOf, usage>>
    /\ call'[c].at = "idle" /\ pack'[call[c].pack] = Unlocked(PackOf(c))
    /\ \/ ledger' = ledger /\ (call[c].at = "writing" => "call_cancelled" \in Faults)
       \/ ledger' = Rows(c) /\ call[c].at = "writing"

Refunds(c) ==
    /\ call[c].at = "writing"
    /\ OnlyCall(c) /\ OnlyPack(call[c].pack) /\ UNCHANGED <<stored, meterOf, ledger>>
    /\ usage' = [usage EXCEPT ![PackOf(c).meter][call[c].agent] = call[c].before.usage]
    /\ call'[c].at = "idle" /\ pack'[call[c].pack] = Unlocked(RestoredPack(c))

StandsStill == UNCHANGED <<pack, meterOf, usage, call, ledger>> /\ Stored' \subseteq Stored

LEMMA ArrivalsPass ==
  ASSUME Typed, NEW c \in Calls, ArriveMore(c) \/ ArriveOpen(c) \/ ArriveExpand(c)
  PROVE  Passes(c)
<1>1. ASSUME NEW p, NEW t, NEW a, NEW q, NEW limit, NEW found, NEW tokens,
             Arrive(c, p, t, a, q, limit, found, tokens)
      PROVE  Passes(c)
  <2> DEFINE s == [Idle EXCEPT !.at = "waiting", !.tool = t, !.pack = p, !.agent = a,
                               !.question = q, !.limit = limit, !.found = found,
                               !.tokens = tokens]
  <2>1. s.at = "waiting" /\ s.tool = t /\ s.pack = p /\ t \in Tools /\ p \in Stored
    BY <1>1, IdleIsTyped DEF Arrive, CallStates
  <2>2. /\ UNCHANGED <<pack, meterOf, usage, ledger>> /\ call' = [call EXCEPT ![c] = s]
        /\ call[c].at \notin Charging
    BY <1>1 DEF Arrive, Charging
  <2>3. Stored' \subseteq Stored
    <3>1. stored' = Touched(p) /\ stored \in Seq(PackIds)
      BY <1>1 DEF Arrive, Typed, TypeOK
    <3> QED
      BY <2>1, <3>1, TouchKeepsPacks DEF Stored
  <2> HIDE DEF s
  <2>4. call'[c] = s /\ OnlyCall(c)
    BY <2>2 DEF OnlyCall, Typed, TypeOK
  <2> QED
    BY <2>1, <2>2, <2>3, <2>4 DEF Passes
<1> QED
  BY <1>1, Zenon DEF ArriveMore, ArriveOpen, ArriveExpand

\* A call that returns and leaves no trace.
LEMMA ReturnsPass ==
  ASSUME Typed, NEW c \in Calls, Return(c), call[c].at \notin Charging,
         UNCHANGED <<pack, stored, meterOf, usage, ledger>>
  PROVE  Passes(c)
BY Returned DEF Passes, OnlyCall, Stored, Typed

LEMMA RetrieveLocks ==
  ASSUME Typed, NEW c \in Calls, Retrieve(c)
  PROVE  Locks(c)
<1>1. /\ call[c].at = "waiting" /\ call[c].tool = "request_more" /\ LockFree(c)
      /\ RequestLeft(c) /\ WithinAllowance(c)
  BY DEF Retrieve, Holds
<1>2. call[c].pack \in PackIds
  BY <1>1, InFlight
<1>3. /\ pack' = [pack EXCEPT ![call[c].pack] = [PackOf(c) EXCEPT !.lock = c]]
      /\ call' = [call EXCEPT ![c] = [call[c] EXCEPT !.at = "retrieving"]]
      /\ UNCHANGED <<stored, meterOf, usage, ledger>>
  BY DEF Retrieve, PackOf
<1>4. OnlyCall(c) /\ call'[c] = [call[c] EXCEPT !.at = "retrieving"]
  BY <1>3 DEF OnlyCall, Typed, TypeOK
<1>5. OnlyPack(call[c].pack) /\ pack'[call[c].pack] = [PackOf(c) EXCEPT !.lock = c]
  BY <1>2, <1>3 DEF OnlyPack, Typed, TypeOK
<1> QED
  BY <1>1, <1>3, <1>4, <1>5 DEF Locks

LEMMA ChargeCharges ==
  ASSUME Typed, NEW c \in Calls,
         call[c].at = "retrieving" \/ (call[c].at = "waiting" /\ LockFree(c)),
         NEW found \in SUBSET Cards, NEW tokens \in Nat, NEW requests \in Nat,
         NEW history \in Seq(Answers), Charge(c, found, tokens, requests, history)
  PROVE  Charges(c, found, tokens, requests, history)
<1> DEFINE k == Charged(c, found, tokens, history)
           s == [call[c] EXCEPT !.at = "writing", !.found = found, !.tokens = tokens,
                                !.before = Snapshot(c)]
<1>1. /\ call[c] \in CallStates /\ call[c].pack \in PackIds /\ PackOf(c) \in Packs
  BY InFlight
<1>2. /\ k.used = PackOf(c).used + tokens /\ k.cards = PackOf(c).cards \cup found
      /\ k.history = history /\ k.lock = c /\ k.build = PackOf(c).build
      /\ k.run = PackOf(c).run /\ k.meter = PackOf(c).meter
  <2> DEFINE used == PackOf(c).used + tokens
             cards == PackOf(c).cards \cup found
  <2>1. k = [PackOf(c) EXCEPT !.used = used, !.cards = cards, !.history = history, !.lock = c]
    BY DEF Charged
  <2> HIDE DEF used, cards, k
  <2>2. /\ k.used = used /\ k.cards = cards /\ k.history = history /\ k.lock = c
        /\ k.build = PackOf(c).build /\ k.run = PackOf(c).run /\ k.meter = PackOf(c).meter
    BY <1>1, <2>1 DEF Packs
  <2> QED
    BY <2>2 DEF used, cards
<1>3. /\ s.at = "writing" /\ s.pack = call[c].pack /\ s.before = Snapshot(c)
      /\ s.tool = call[c].tool /\ s.question = call[c].question /\ s.agent = call[c].agent
      /\ s.found = found /\ s.tokens = tokens
  BY <1>1 DEF CallStates
<1>4. /\ pack' = [pack EXCEPT ![call[c].pack] = k] /\ call' = [call EXCEPT ![c] = s]
      /\ UNCHANGED <<stored, meterOf, ledger>>
      /\ usage' = [usage EXCEPT ![PackOf(c).meter][call[c].agent] =
                     [requests |-> UsageOf(c).requests + requests,
                      tokens |-> UsageOf(c).tokens + tokens]]
  BY DEF Charge, UsageOf
<1> HIDE DEF k, s
<1>5. OnlyCall(c) /\ call'[c] = s
  BY <1>4 DEF OnlyCall, Typed, TypeOK
<1>6. OnlyPack(call[c].pack) /\ pack'[call[c].pack] = k
  BY <1>1, <1>4 DEF OnlyPack, Typed, TypeOK
<1> QED
  BY <1>2, <1>3, <1>4, <1>5, <1>6 DEF Charges

LEMMA ChargingCharges ==
  ASSUME Typed, NEW c \in Calls, ChargeMore(c) \/ ChargeOpen(c) \/ ChargeExpand(c)
  PROVE  \E found \in SUBSET Cards, tokens \in Nat, requests \in Nat, history \in Seq(Answers) :
           /\ Charges(c, found, tokens, requests, history)
           /\ ChargedFor(c, found, tokens, requests, history)
<1>1. call[c].at # "idle"
  BY DEF ChargeMore, ChargeOpen, ChargeExpand, Holds
<1>2. /\ PackOf(c) \in Packs /\ call[c] \in CallStates /\ call[c].pack \in PackIds
      /\ PackOf(c).history \in Seq(Answers) /\ call[c].limit \in Nat
      /\ call[c].tokens \in Nat /\ call[c].found \in SUBSET Cards
      /\ call[c].question \in Questions
  BY <1>1, InFlight DEF Packs, CallStates
<1>3. CASE ChargeMore(c)
  <2>1. PICK found \in SUBSET ((ServedTo(call[c].pack) \cap MaySee[call[c].agent])
                                  \ PackOf(c).cards),
             tokens \in 0 .. call[c].limit :
          Charge(c, found, tokens, 1, Recorded(c, found))
    BY <1>3 DEF ChargeMore
  <2>2. found \in SUBSET Cards /\ tokens \in Nat
    BY <1>2, MembersServeCards DEF ServedTo, Typed, TypeOK, Packs
  <2>3. Recorded(c, found) \in Seq(Answers)
    <3>1. [question |-> call[c].question, ids |-> found] \in Answers
      BY <1>2, <2>2 DEF Answers
    <3> QED
      BY <1>2, <3>1 DEF Recorded
  <2>4. call[c].at = "retrieving"
    BY <1>3 DEF ChargeMore
  <2>5. Charges(c, found, tokens, 1, Recorded(c, found))
    <3> DEFINE history == Recorded(c, found)
    <3>1. Charge(c, found, tokens, 1, history) /\ history \in Seq(Answers) /\ 1 \in Nat
      BY <2>1, <2>3
    <3> HIDE DEF history
    <3>2. Charges(c, found, tokens, 1, history)
      BY <2>2, <2>4, <3>1, ChargeCharges
    <3> QED
      BY <3>2 DEF history
  <2>6. ChargedFor(c, found, tokens, 1, Recorded(c, found))
    BY <1>2, <2>1, <2>4 DEF ChargedFor
  <2> QED
    BY <2>2, <2>3, <2>5, <2>6
<1>4. CASE ChargeOpen(c)
  <2>1. /\ Charge(c, {}, call[c].limit, 0, PackOf(c).history)
        /\ call[c].at = "waiting" /\ call[c].tool = "open_evidence" /\ LockFree(c)
        /\ WithinAllowance(c)
    BY <1>4 DEF ChargeOpen, Holds
  <2>2. Charges(c, {}, call[c].limit, 0, PackOf(c).history)
    BY <1>2, <2>1, ChargeCharges
  <2>3. ChargedFor(c, {}, call[c].limit, 0, PackOf(c).history)
    BY <2>1 DEF ChargedFor
  <2> QED
    BY <1>2, <2>2, <2>3
<1>5. CASE ChargeExpand(c)
  <2>1. /\ Charge(c, call[c].found, call[c].tokens, 0, PackOf(c).history)
        /\ call[c].at = "waiting" /\ call[c].tool = "expand" /\ LockFree(c)
    BY <1>5 DEF ChargeExpand, Holds
  <2>2. Charges(c, call[c].found, call[c].tokens, 0, PackOf(c).history)
    BY <1>2, <2>1, ChargeCharges
  <2>3. ChargedFor(c, call[c].found, call[c].tokens, 0, PackOf(c).history)
    BY <2>1 DEF ChargedFor
  <2> QED
    BY <1>2, <2>2, <2>3
<1> QED
  BY <1>3, <1>4, <1>5

LEMMA EndingsSettle ==
  ASSUME Typed, NEW c \in Calls, LedgerLands(c) \/ CallRaises(c) \/ Cancel(c)
  PROVE  Passes(c) \/ Settles(c) \/ Refunds(c)
<1>1. call[c].at # "idle" /\ Return(c) /\ UNCHANGED <<stored, meterOf>>
  BY DEF LedgerLands, CallRaises, Cancel
<1>2. /\ call[c].pack \in PackIds /\ PackOf(c) = pack[call[c].pack]
      /\ OnlyCall(c) /\ call'[c].at = "idle"
  BY <1>1, InFlight, Returned DEF OnlyCall, Typed
<1>3. CASE LedgerLands(c)
  <2>1. /\ pack' = [pack EXCEPT ![call[c].pack] = Unlocked(PackOf(c))]
        /\ call[c].at = "writing" /\ ledger' = Rows(c) /\ usage' = usage
    BY <1>2, <1>3 DEF LedgerLands
  <2>2. OnlyPack(call[c].pack) /\ pack'[call[c].pack] = Unlocked(PackOf(c))
    BY <1>2, <2>1 DEF OnlyPack, Typed, TypeOK
  <2> QED
    BY <1>1, <1>2, <2>1, <2>2 DEF Settles, Charging
<1>4. CASE CallRaises(c) /\ call[c].at = "writing"
  <2>1. /\ pack' = [pack EXCEPT ![call[c].pack] = Unlocked(RestoredPack(c))]
        /\ usage' = [usage EXCEPT ![PackOf(c).meter][call[c].agent] = call[c].before.usage]
        /\ ledger' = ledger
    BY <1>4 DEF CallRaises, RestoredUsage
  <2>2. OnlyPack(call[c].pack) /\ pack'[call[c].pack] = Unlocked(RestoredPack(c))
    BY <1>2, <2>1 DEF OnlyPack, Typed, TypeOK
  <2> QED
    BY <1>1, <1>2, <1>4, <2>1, <2>2 DEF Refunds
<1>5. CASE /\ (CallRaises(c) /\ call[c].at = "retrieving")
              \/ (Cancel(c) /\ call[c].at \in {"retrieving", "writing"})
  <2>1. pack' = [pack EXCEPT ![call[c].pack] = Unlocked(PackOf(c))] /\ usage' = usage
    BY <1>2, <1>5 DEF CallRaises, Cancel
  <2>2. OnlyPack(call[c].pack) /\ pack'[call[c].pack] = Unlocked(PackOf(c))
    BY <1>2, <2>1 DEF OnlyPack, Typed, TypeOK
  <2>3. \/ ledger' = ledger /\ (call[c].at = "writing" => "call_cancelled" \in Faults)
        \/ ledger' = Rows(c) /\ call[c].at = "writing"
    BY <1>5 DEF CallRaises, Cancel
  <2>4. call[c].at \in Charging
    BY <1>5 DEF Charging
  <2> QED
    BY <1>1, <1>2, <2>1, <2>2, <2>3, <2>4 DEF Settles
<1>6. CASE (CallRaises(c) \/ Cancel(c)) /\ call[c].at \notin {"retrieving", "writing"}
  <2>1. pack' = pack /\ ledger' = ledger /\ usage' = usage
    BY <1>6 DEF CallRaises, Cancel
  <2> QED
    BY <1>1, <1>6, <2>1, ReturnsPass DEF Charging
<1> QED
  BY <1>3, <1>4, <1>5, <1>6

Does(c) == \/ Passes(c)
           \/ \E p \in PackIds, k \in Packs : Born(c, p, k)
           \/ StorePack(c)
           \/ Locks(c)
           \/ \E found \in SUBSET Cards, tokens \in Nat, requests \in Nat, history \in Seq(Answers) :
                /\ Charges(c, found, tokens, requests, history)
                /\ ChargedFor(c, found, tokens, requests, history)
           \/ Settles(c)
           \/ Refunds(c)

LEMMA EveryStep ==
  ASSUME Typed, [Next]_vars
  PROVE  StandsStill \/ \E c \in Calls : Does(c)
<1>1. CASE (\E p \in PackIds : ReadPack(p)) \/ ActivateNext \/ UNCHANGED vars
  <2>1. Stored' \subseteq Stored
    <3>1. CASE \E p \in PackIds : ReadPack(p)
      <4>1. PICK p \in Stored : stored' = Touched(p)
        BY <3>1 DEF ReadPack
      <4>2. stored \in Seq(PackIds)
        BY DEF Typed, TypeOK
      <4> QED
        BY <4>1, <4>2, TouchKeepsPacks DEF Stored
    <3>2. CASE stored' = stored
      BY <3>2 DEF Stored
    <3> QED
      BY <1>1, <3>1, <3>2 DEF ActivateNext, vars
  <2> QED
    BY <1>1, <2>1 DEF ReadPack, ActivateNext, vars, StandsStill
<1>2. ASSUME NEW c \in Calls, CreatePack(c) PROVE Does(c)
  BY <1>2, PackIsBorn, Zenon DEF Does
<1>3. ASSUME NEW c \in Calls, ArriveMore(c) \/ ArriveOpen(c) \/ ArriveExpand(c) PROVE Does(c)
  BY <1>3, ArrivalsPass DEF Does
<1>4. ASSUME NEW c \in Calls, Reuse(c) \/ RefuseMore(c) \/ RefuseOpen(c) PROVE Does(c)
  BY <1>4, ReturnsPass DEF Does, Reuse, RefuseMore, RefuseOpen, Holds, Charging
<1>5. ASSUME NEW c \in Calls, ChargeMore(c) \/ ChargeOpen(c) \/ ChargeExpand(c) PROVE Does(c)
  BY <1>5, ChargingCharges, Zenon DEF Does
<1>6. ASSUME NEW c \in Calls, Retrieve(c) PROVE Does(c)
  BY <1>6, RetrieveLocks DEF Does
<1>7. ASSUME NEW c \in Calls, LedgerLands(c) \/ CallRaises(c) \/ Cancel(c) PROVE Does(c)
  BY <1>7, EndingsSettle, Zenon DEF Does
<1>8. ASSUME NEW c \in Calls, Acquire(c) \/ Resume(c) PROVE Does(c)
  <2>1. CASE StorePack(c)
    BY <2>1 DEF Does
  <2> QED
    BY <1>4, <1>5, <1>6, <1>7, <1>8, <2>1 DEF Acquire, Resume
<1> QED
  BY <1>1, <1>2, <1>3, <1>7, <1>8, Zenon DEF Next
------------------------------------------------------------------------------
\* The lock of a pack is held from the check of a charge to the end of its
\* ledger write: a call that charges a pack is the one its lock names.
LocksHold == \A c \in Calls : call[c].at \in Charging => PackOf(c).lock = c

\* A call that charges a pack, or finds its lock free, is alone on it: what it
\* writes to the pack does not concern the calls that charge other packs.
LEMMA OthersUndisturbed ==
  ASSUME Typed, LocksHold, NEW c \in Calls, NEW d \in Calls, d # c, call[d].at \in Charging,
         call[c].at \in Charging \/ (call[c].at # "idle" /\ LockFree(c)),
         OnlyCall(c), OnlyPack(call[c].pack)
  PROVE  /\ call'[d] = call[d] /\ call[d].pack # call[c].pack
         /\ PackOf(d)' = PackOf(d) /\ pack'[call[d].pack] = pack[call[d].pack]
<1>1. call[c].at # "idle" /\ call[d].at # "idle"
  BY DEF Charging
<1>2. /\ call[d].pack \in PackIds /\ PackOf(d) = pack[call[d].pack]
      /\ PackOf(c) = pack[call[c].pack]
  BY <1>1, InFlight
<1>3. call[d].pack # call[c].pack
  <2>1. PackOf(d).lock = d /\ d # Nothing
    BY DEF LocksHold
  <2>2. PackOf(c).lock = c \/ PackOf(c).lock = Nothing
    BY DEF LocksHold, LockFree
  <2> QED
    BY <1>2, <2>1, <2>2
<1>4. call'[d] = call[d]
  BY DEF OnlyCall
<1> QED
  BY <1>2, <1>3, <1>4 DEF OnlyPack, PackOf

\* No call in flight works on a pack that is just being made.
LEMMA BornAlone ==
  ASSUME Typed, NEW c \in Calls, NEW p \in PackIds, NEW k \in Packs, Born(c, p, k)
  PROVE  /\ \A d \in Calls : d # c => call'[d] = call[d]
         /\ \A d \in Calls : call[d].at # "idle" =>
              call[d].pack # p /\ PackOf(d) = pack'[call[d].pack]
         /\ \A x \in PackIds : x # p => pack'[x] = pack[x]
         /\ pack'[p] = k /\ p \notin Stored
<1>1. /\ pack[p].run = Nothing /\ pack' = [pack EXCEPT ![p] = k]
      /\ \A d \in Calls : d # c => call'[d] = call[d]
  BY DEF Born
<1>2. Nothing \notin Runs
  OBVIOUS
<1>3. p \notin Stored
  BY <1>1, <1>2 DEF Typed, PacksExist, Created
<1>4. (\A x \in PackIds : x # p => pack'[x] = pack[x]) /\ pack'[p] = k
  BY <1>1 DEF Typed, TypeOK
<1>5. ASSUME NEW d \in Calls, call[d].at # "idle"
      PROVE  call[d].pack # p /\ PackOf(d) = pack'[call[d].pack]
  <2>1. call[d].pack \in PackIds /\ PackOf(d).run \in Runs /\ PackOf(d) = pack[call[d].pack]
    BY <1>5, InFlight
  <2> QED
    BY <1>1, <1>2, <1>4, <2>1
<1> QED
  BY <1>1, <1>3, <1>4, <1>5

LEMMA LocksHoldStep == Typed /\ LocksHold /\ [Next]_vars => LocksHold'
<1> SUFFICES ASSUME Typed, LocksHold, [Next]_vars, NEW d \in Calls, call'[d].at \in Charging
             PROVE  PackOf(d)'.lock = d
  BY DEF LocksHold
<1>1. CASE StandsStill
  BY <1>1 DEF StandsStill, LocksHold, PackOf
<1>2. ASSUME NEW c \in Calls, Does(c) PROVE PackOf(d)'.lock = d
  <2>1. CASE Passes(c)
    BY <2>1 DEF Passes, OnlyCall, Charging, LocksHold, PackOf
  <2>2. CASE \E p \in PackIds, k \in Packs : Born(c, p, k)
    <3>1. PICK p \in PackIds, k \in Packs : Born(c, p, k)
      BY <2>2, Zenon
    <3>2. d # c
      BY <3>1 DEF Born, Charging
    <3> QED
      BY <3>1, <3>2, BornAlone DEF LocksHold, PackOf, Charging
  <2>3. CASE StorePack(c)
    <3>1. pack' = pack /\ Return(c)
      BY <2>3 DEF StorePack
    <3>2. d # c /\ call'[d] = call[d]
      BY <3>1, Returned DEF Typed, Charging
    <3> QED
      BY <3>1, <3>2 DEF LocksHold, PackOf
  <2>4. CASE Locks(c)
    <3>1. CASE d = c
      <4>1. /\ PackOf(c) \in Packs /\ call[c] \in CallStates
        BY <2>4, InFlight DEF Locks
      <4>2. call'[c].pack = call[c].pack /\ pack'[call[c].pack].lock = c
        BY <2>4, <4>1 DEF Locks, Packs, CallStates
      <4> QED
        BY <3>1, <4>2 DEF PackOf
    <3>2. CASE d # c
      <4>1. OnlyCall(c) /\ OnlyPack(call[c].pack) /\ LockFree(c) /\ call[c].at # "idle"
        BY <2>4 DEF Locks
      <4>2. call[d].at \in Charging
        BY <3>2, <4>1 DEF OnlyCall
      <4>3. PackOf(d)' = PackOf(d)
        BY <3>2, <4>1, <4>2, OthersUndisturbed
      <4> QED
        BY <4>2, <4>3 DEF LocksHold
    <3> QED
      BY <3>1, <3>2
  <2>5. CASE \E found \in SUBSET Cards, tokens \in Nat, requests \in Nat, history \in Seq(Answers) :
               /\ Charges(c, found, tokens, requests, history)
               /\ ChargedFor(c, found, tokens, requests, history)
    <3>1. PICK found \in SUBSET Cards, tokens \in Nat, requests \in Nat, history \in Seq(Answers) :
            Charges(c, found, tokens, requests, history)
      BY <2>5
    <3>2. CASE d = c
      BY <3>1, <3>2 DEF Charges, PackOf
    <3>3. CASE d # c
      <4>1. /\ OnlyCall(c) /\ OnlyPack(call[c].pack)
            /\ call[c].at \in Charging \/ (call[c].at # "idle" /\ LockFree(c))
        BY <3>1 DEF Charges, Charging
      <4>2. call[d].at \in Charging
        BY <3>3, <4>1 DEF OnlyCall
      <4>3. PackOf(d)' = PackOf(d)
        BY <3>3, <4>1, <4>2, OthersUndisturbed
      <4> QED
        BY <4>2, <4>3 DEF LocksHold
    <3> QED
      BY <3>2, <3>3
  <2>6. CASE Settles(c) \/ Refunds(c)
    <3>1. d # c
      BY <2>6 DEF Settles, Refunds, Charging
    <3>2. OnlyCall(c) /\ OnlyPack(call[c].pack) /\ call[c].at \in Charging
      BY <2>6 DEF Settles, Refunds, Charging
    <3>3. call[d].at \in Charging
      BY <3>1, <3>2 DEF OnlyCall
    <3>4. PackOf(d)' = PackOf(d)
      BY <3>1, <3>2, <3>3, OthersUndisturbed
    <3> QED
      BY <3>3, <3>4 DEF LocksHold
  <2> QED
    BY <1>2, <2>1, <2>2, <2>3, <2>4, <2>5, <2>6 DEF Does
<1> QED
  BY <1>1, <1>2, EveryStep

LEMMA LocksHoldStart == Init => LocksHold
BY IdleIsTyped DEF Init, LocksHold, Charging
------------------------------------------------------------------------------
\* Every card of a pack is of the pack's own build, and so are the cards a
\* refund puts back.
Pinned == /\ PackIsPinned
          /\ \A c \in Calls :
               /\ call[c].at = "waiting" => call[c].tool \in Tools
               /\ call[c].at = "writing" =>
                    call[c].before.cards \subseteq Members[PackOf(c).build]

\* A created pack keeps its build, so what a call keeps for a refund stays of
\* the build of its pack.
LEMMA PinnedKept ==
  ASSUME Typed, Pinned, NEW c \in Calls, OnlyCall(c),
         \A x \in PackIds : pack'[x].cards \subseteq Members[pack'[x].build],
         \A x \in PackIds : Created(x) => pack'[x].build = pack[x].build,
         call'[c].at = "waiting" => call'[c].tool \in Tools,
         call'[c].at = "writing" => call'[c].before.cards \subseteq Members[PackOf(c)'.build]
  PROVE  Pinned'
<1>1. PackIsPinned'
  BY DEF PackIsPinned
<1>2. ASSUME NEW d \in Calls, d # c, call'[d].at = "writing"
      PROVE  call'[d].before.cards \subseteq Members[PackOf(d)'.build]
  <2>1. call'[d] = call[d] /\ call[d].at = "writing"
    BY <1>2 DEF OnlyCall
  <2>2. call[d].pack \in PackIds /\ Created(call[d].pack) /\ PackOf(d) = pack[call[d].pack]
    BY <2>1, InFlight DEF Typed, PacksExist
  <2>3. PackOf(d)' = pack'[call[d].pack]
    BY <2>1 DEF PackOf
  <2> QED
    BY <2>1, <2>2, <2>3 DEF Pinned
<1>3. \A d \in Calls : d # c /\ call'[d].at = "waiting" => call'[d].tool \in Tools
  BY DEF OnlyCall, Pinned
<1> QED
  BY <1>1, <1>2, <1>3 DEF Pinned

LEMMA PinnedStep == NoExpand /\ Typed /\ Pinned /\ [Next]_vars => Pinned'
<1> SUFFICES ASSUME NoExpand, Typed, Pinned, [Next]_vars PROVE Pinned'
  OBVIOUS
<1>1. CASE StandsStill
  BY <1>1 DEF StandsStill, Pinned, PackIsPinned, PackOf
<1>2. ASSUME NEW c \in Calls, Does(c) PROVE Pinned'
  <2>1. CASE Passes(c)
    BY <2>1, PinnedKept DEF Passes, Pinned, PackIsPinned
  <2>2. CASE \E p \in PackIds, k \in Packs : Born(c, p, k)
    <3>1. PICK p \in PackIds, k \in Packs : Born(c, p, k)
      BY <2>2, Zenon
    <3>2. \A x \in PackIds : pack'[x].cards \subseteq Members[pack'[x].build]
      BY <3>1, BornAlone DEF Born, Pinned, PackIsPinned
    <3>3. \A x \in PackIds : Created(x) => pack'[x].build = pack[x].build
      <4>1. pack[p].run = Nothing /\ Nothing \notin Runs
        BY <3>1 DEF Born
      <4> QED
        BY <3>1, <4>1, BornAlone DEF Created
    <3>4. OnlyCall(c) /\ call'[c].at = "creating"
      BY <3>1 DEF Born, OnlyCall
    <3> QED
      BY <3>2, <3>3, <3>4, PinnedKept
  <2>3. CASE StorePack(c)
    <3>1. pack' = pack /\ Return(c)
      BY <2>3 DEF StorePack
    <3>2. OnlyCall(c) /\ call'[c].at = "idle"
      BY <3>1, Returned DEF Typed, OnlyCall
    <3> QED
      BY <3>1, <3>2, PinnedKept DEF Pinned, PackIsPinned
  <2>4. CASE Locks(c)
    <3>1. /\ PackOf(c) \in Packs /\ call[c] \in CallStates /\ call[c].pack \in PackIds
          /\ PackOf(c) = pack[call[c].pack]
      BY <2>4, InFlight DEF Locks
    <3>2. \A x \in PackIds : pack'[x].cards = pack[x].cards /\ pack'[x].build = pack[x].build
      <4> DEFINE k == [PackOf(c) EXCEPT !.lock = c]
      <4>1. k.cards = PackOf(c).cards /\ k.build = PackOf(c).build
        BY <3>1 DEF Packs
      <4>2. pack'[call[c].pack] = k
        BY <2>4 DEF Locks
      <4> HIDE DEF k
      <4> QED
        BY <2>4, <3>1, <4>1, <4>2 DEF Locks, OnlyPack
    <3>3. OnlyCall(c) /\ call'[c].at = "retrieving"
      BY <2>4, <3>1 DEF Locks, CallStates
    <3> QED
      BY <3>2, <3>3, PinnedKept DEF Pinned, PackIsPinned
  <2>5. CASE \E found \in SUBSET Cards, tokens \in Nat, requests \in Nat, history \in Seq(Answers) :
               /\ Charges(c, found, tokens, requests, history)
               /\ ChargedFor(c, found, tokens, requests, history)
    <3>1. PICK found \in SUBSET Cards, tokens \in Nat, requests \in Nat, history \in Seq(Answers) :
            /\ Charges(c, found, tokens, requests, history)
            /\ ChargedFor(c, found, tokens, requests, history)
      BY <2>5
    <3>2. /\ call[c].pack \in PackIds /\ PackOf(c) = pack[call[c].pack]
      BY <3>1, InFlight DEF Charges
    <3>3. found \subseteq Members[PackOf(c).build]
      BY <3>1, <3>2 DEF ChargedFor, ServedTo, Pinned, NoExpand
    <3>4. PackOf(c).cards \subseteq Members[PackOf(c).build]
      BY <3>2 DEF Pinned, PackIsPinned
    <3>5. /\ OnlyPack(call[c].pack) /\ OnlyCall(c)
          /\ pack'[call[c].pack].build = PackOf(c).build
          /\ pack'[call[c].pack].cards = PackOf(c).cards \cup found
          /\ call'[c].at = "writing" /\ call'[c].before = Snapshot(c)
          /\ call'[c].pack = call[c].pack
      BY <3>1 DEF Charges
    <3>6. \A x \in PackIds : pack'[x].build = pack[x].build
      BY <3>2, <3>5 DEF OnlyPack
    <3>7. \A x \in PackIds : pack'[x].cards \subseteq Members[pack'[x].build]
      BY <3>2, <3>3, <3>4, <3>5, <3>6 DEF OnlyPack, Pinned, PackIsPinned
    <3>8. call'[c].before.cards \subseteq Members[PackOf(c)'.build]
      BY <3>4, <3>5 DEF Snapshot, PackOf
    <3> QED
      BY <3>5, <3>6, <3>7, <3>8, PinnedKept
  <2>6. CASE Settles(c)
    <3>1. /\ PackOf(c) \in Packs /\ call[c].pack \in PackIds
          /\ PackOf(c) = pack[call[c].pack]
      BY <2>6, InFlight DEF Settles, Charging
    <3>2. \A x \in PackIds : pack'[x].cards = pack[x].cards /\ pack'[x].build = pack[x].build
      BY <2>6, <3>1, UnlockedIsTyped DEF Settles, OnlyPack
    <3> QED
      BY <2>6, <3>2, PinnedKept DEF Settles, Pinned, PackIsPinned
  <2>7. CASE Refunds(c)
    <3>1. /\ PackOf(c) \in Packs /\ call[c].pack \in PackIds
          /\ PackOf(c) = pack[call[c].pack]
      BY <2>7, InFlight DEF Refunds
    <3>2. /\ RestoredPack(c) \in Packs /\ RestoredPack(c).build = PackOf(c).build
          /\ RestoredPack(c).cards = call[c].before.cards
      BY <2>7, RestoredIsTyped DEF Refunds
    <3>3. /\ pack'[call[c].pack].build = PackOf(c).build
          /\ pack'[call[c].pack].cards = call[c].before.cards
      BY <2>7, <3>2, UnlockedIsTyped DEF Refunds
    <3>4. call[c].before.cards \subseteq Members[PackOf(c).build]
      BY <2>7 DEF Refunds, Pinned
    <3>5. \A x \in PackIds : pack'[x].build = pack[x].build
      BY <2>7, <3>1, <3>3 DEF Refunds, OnlyPack
    <3>6. \A x \in PackIds : pack'[x].cards \subseteq Members[pack'[x].build]
      BY <2>7, <3>3, <3>4, <3>5 DEF Refunds, OnlyPack, Pinned, PackIsPinned
    <3> QED
      BY <2>7, <3>5, <3>6, PinnedKept DEF Refunds
  <2> QED
    BY <1>2, <2>1, <2>2, <2>3, <2>4, <2>5, <2>6, <2>7 DEF Does
<1> QED
  BY <1>1, <1>2, EveryStep

LEMMA PinnedStart == Init => Pinned
BY IdleIsTyped DEF Init, Pinned, PackIsPinned, NoPack

\* Where clients do not call expand, whose walk is of the active build, every
\* card of a pack is of the build the pack was created under, whatever is
\* activated while its calls wait, fail or are refunded (state.py, build_seq;
\* request_more.py).
THEOREM PackStaysPinned == NoExpand => (Spec => []PackIsPinned)
<1> SUFFICES ASSUME NoExpand PROVE Spec => []PackIsPinned
  OBVIOUS
<1>1. Typed /\ Pinned /\ [Next]_vars => Typed' /\ Pinned'
  BY TypedStep, PinnedStep
<1>2. Pinned => PackIsPinned
  BY DEF Pinned
<1> QED
  BY <1>1, <1>2, Start, PinnedStart, PTL DEF Spec
------------------------------------------------------------------------------
\* Agents whose ACLs show the same artifacts.
SameView == \A a, b \in Agents : MaySee[a] = MaySee[b]

Seen(h) == \A i \in DOMAIN h, a \in Agents : h[i].ids \subseteq MaySee[a]

Asked(h, q) == \E i \in DOMAIN h : h[i].question = q

\* History h of pack p holds every question the ledger has answered in it.
Remembers(h, p) == /\ Seen(h)
                   /\ \A a \in Agents, q \in Questions :
                        <<p, a, q>> \in ledger.answered => Asked(h, q)

Remembered ==
    /\ \A p \in PackIds : Remembers(pack[p].history, p)
    /\ \A p \in PackIds, a \in Agents, q \in Questions :
         <<p, a, q>> \in ledger.answered => Created(p)
    /\ \A c \in Calls : call[c].at = "writing" =>
         /\ Remembers(call[c].before.history, call[c].pack)
         /\ call[c].tool = "request_more" => Asked(PackOf(c).history, call[c].question)

LEMMA LeastExists ==
  ASSUME NEW S, S \subseteq Nat, S # {}
  PROVE  \E i \in S : \A j \in S : i <= j
<1> DEFINE R == OpToRel(<, Nat)
<1>1. \A x, y \in Nat : <<y, x>> \in R <=> y < x
  BY DEF OpToRel
<1>2. IsWellFoundedOn(R, Nat)
  BY NatLessThanWellFounded
<1> HIDE DEF R
<1>3. PICK x \in S : \A y \in S : ~ (<<y, x>> \in R)
  BY <1>2, WFMin, Zenon
<1>4. ASSUME NEW y \in S PROVE x <= y
  <2>1. x \in Nat /\ y \in Nat
    OBVIOUS
  <2>2. ~(y < x)
    BY <1>1, <1>3, <2>1
  <2> QED
    BY <2>1, <2>2
<1> QED
  BY <1>4

\* Where every agent sees what the entries hold, dedupe settles on an entry for
\* every question it has recorded, and the entry answers.
LEMMA AskedIsReused ==
  ASSUME NEW h \in Seq(Answers), NEW q \in Questions, NEW a \in Agents, Seen(h), Asked(h, q)
  PROVE  /\ Consulted(h, q, a) # {}
         /\ \A e \in Consulted(h, q, a) : Answer(e, a)
<1> DEFINE exact == {i \in DOMAIN h : h[i].question = q}
<1>1. exact # {} /\ exact \subseteq Nat
  BY DEF Asked
<1>2. \E i \in exact : \A j \in exact : i <= j
  <2> HIDE DEF exact
  <2> QED
    BY <1>1, LeastExists
<1>3. Exact(h, q) # {}
  BY <1>2 DEF Exact, Earliest
<1>4. ASSUME NEW e \in Exact(h, q) PROVE Answer(e, a)
  <2>1. PICK i \in exact : e = h[i]
    BY <1>4 DEF Exact, Earliest
  <2>2. h[i].ids \subseteq MaySee[a]
    BY <2>1 DEF Seen
  <2> QED
    BY <2>1, <2>2 DEF Answer
<1> QED
  BY <1>3, <1>4 DEF Consulted

\* An answer that is recorded hides no question that was asked before it.
LEMMA RecordKeepsAsked ==
  ASSUME SameView, NEW h \in Seq(Answers), NEW q \in Questions, NEW found \in SUBSET Cards,
         NEW a \in Agents, Seen(h), found \subseteq MaySee[a]
  PROVE  /\ Seen(Append(h, [question |-> q, ids |-> found]))
         /\ Asked(Append(h, [question |-> q, ids |-> found]), q)
         /\ \A x \in Questions : Asked(h, x) => Asked(Append(h, [question |-> q, ids |-> found]), x)
<1> DEFINE e == [question |-> q, ids |-> found]
           g == Append(h, e)
<1>1. e \in Answers /\ e.question = q /\ e.ids = found
  BY DEF Answers
<1> HIDE DEF e
<1>2. /\ g \in Seq(Answers) /\ Len(g) = Len(h) + 1 /\ Len(h) \in Nat
      /\ g[Len(h) + 1] = e /\ \A i \in 1 .. Len(h) : g[i] = h[i]
      /\ DOMAIN g = 1 .. Len(h) + 1 /\ DOMAIN h = 1 .. Len(h)
  BY <1>1
<1> HIDE DEF g
<1>3. Seen(g)
  BY <1>1, <1>2 DEF Seen, SameView
<1>4. Asked(g, q)
  <2>1. Len(h) + 1 \in DOMAIN g /\ g[Len(h) + 1].question = q
    BY <1>1, <1>2
  <2> QED
    BY <2>1, Zenon DEF Asked
<1>5. \A x \in Questions : Asked(h, x) => Asked(g, x)
  BY <1>2 DEF Asked
<1> QED
  BY <1>3, <1>4, <1>5 DEF g, e

LEMMA RememberedKept ==
  ASSUME Typed, Remembered, NEW c \in Calls, OnlyCall(c),
         \A x \in PackIds : Seen(pack'[x].history),
         \A x \in PackIds, a \in Agents, q \in Questions :
           <<x, a, q>> \in ledger'.answered => Asked(pack'[x].history, q) /\ Created(x)',
         \A d \in Calls : d # c /\ call[d].at = "writing" =>
           /\ PackOf(d)' = PackOf(d)
           /\ \A a \in Agents, q \in Questions :
                <<call[d].pack, a, q>> \in ledger'.answered =>
                  <<call[d].pack, a, q>> \in ledger.answered,
         call'[c].at = "writing" =>
           /\ Seen(call'[c].before.history)
           /\ \A a \in Agents, q \in Questions :
                <<call'[c].pack, a, q>> \in ledger'.answered =>
                  Asked(call'[c].before.history, q)
           /\ call'[c].tool = "request_more" => Asked(PackOf(c)'.history, call'[c].question)
  PROVE  Remembered'
<1>1. (\A p \in PackIds : Remembers(pack[p].history, p))'
  BY DEF Remembers, Seen, Asked
<1>2. ASSUME NEW d \in Calls, d # c, call'[d].at = "writing"
      PROVE  /\ Remembers(call[d].before.history, call[d].pack)'
             /\ call'[d].tool = "request_more" => Asked(PackOf(d)'.history, call'[d].question)
  <2>1. call'[d] = call[d] /\ call[d].at = "writing"
    BY <1>2 DEF OnlyCall
  <2>2. /\ Remembers(call[d].before.history, call[d].pack)
        /\ call[d].tool = "request_more" => Asked(PackOf(d).history, call[d].question)
    BY <2>1 DEF Remembered
  <2> QED
    BY <1>2, <2>1, <2>2 DEF Remembers, Seen, Asked
<1>3. call'[c].at = "writing" => Remembers(call[c].before.history, call[c].pack)'
  BY DEF Remembers, Seen, Asked
<1>4. ASSUME NEW d \in Calls, call'[d].at = "writing"
      PROVE  /\ Remembers(call[d].before.history, call[d].pack)'
             /\ call'[d].tool = "request_more" => Asked(PackOf(d)'.history, call'[d].question)
  BY <1>2, <1>3, <1>4
<1>5. \A p \in PackIds, a \in Agents, q \in Questions :
        <<p, a, q>> \in ledger'.answered => Created(p)'
  OBVIOUS
<1> QED
  BY <1>1, <1>4, <1>5 DEF Remembered, Asked

\* The facts of Remembered about a call in flight and its pack.
LEMMA RememberedNow ==
  ASSUME Typed, Remembered
  PROVE  /\ \A x \in PackIds : Seen(pack[x].history)
         /\ \A x \in PackIds, a \in Agents, q \in Questions :
              <<x, a, q>> \in ledger.answered => Asked(pack[x].history, q) /\ Created(x)
BY DEF Remembered, Remembers

LEMMA QuietStepsRemember ==
  ASSUME Typed, Remembered, NEW c \in Calls, OnlyCall(c), pack' = pack,
         ledger'.answered = ledger.answered, call'[c].at # "writing"
  PROVE  Remembered'
<1>1. \A d \in Calls : d # c => PackOf(d)' = PackOf(d)
  BY DEF OnlyCall, PackOf
<1> QED
  BY <1>1, RememberedNow, RememberedKept DEF Created

LEMMA BirthRemembers ==
  ASSUME SameView, Typed, Remembered, NEW c \in Calls, NEW p \in PackIds, NEW k \in Packs,
         Born(c, p, k)
  PROVE  Remembered'
<1>1. PICK a \in Agents, q \in Questions :
        k.cards \subseteq MaySee[a] /\ k.history = <<[question |-> q, ids |-> k.cards]>>
  BY DEF Born
<1>2. Seen(k.history)
  <2> DEFINE e == [question |-> q, ids |-> k.cards]
  <2>1. e.ids = k.cards
    OBVIOUS
  <2> HIDE DEF e
  <2>2. k.history = <<e>>
    BY <1>1 DEF e
  <2> QED
    BY <1>1, <2>1, <2>2 DEF Seen, SameView
<1>3. /\ pack[p].run = Nothing /\ Nothing \notin Runs /\ ledger' = ledger
      /\ OnlyCall(c) /\ call'[c].at = "creating"
  BY DEF Born, OnlyCall
<1>4. /\ pack'[p] = k /\ \A x \in PackIds : x # p => pack'[x] = pack[x]
      /\ \A d \in Calls : call[d].at # "idle" =>
           call[d].pack # p /\ PackOf(d) = pack'[call[d].pack]
  BY BornAlone
<1>5. \A x \in PackIds : Seen(pack'[x].history)
  BY <1>2, <1>4, RememberedNow
<1>6. \A x \in PackIds, b \in Agents, r \in Questions :
        <<x, b, r>> \in ledger'.answered => Asked(pack'[x].history, r) /\ Created(x)'
  BY <1>3, <1>4, RememberedNow DEF Created
<1>7. ASSUME NEW d \in Calls, d # c, call[d].at = "writing" PROVE PackOf(d)' = PackOf(d)
  BY <1>3, <1>4, <1>7 DEF PackOf, OnlyCall
<1> QED
  BY <1>3, <1>5, <1>6, <1>7, RememberedKept

\* A step that writes the pack of its call, whose history keeps what was asked.
LEMMA WriteRemembers ==
  ASSUME Typed, LocksHold, Remembered, NEW c \in Calls,
         call[c].at \in Charging \/ (call[c].at # "idle" /\ LockFree(c)),
         OnlyCall(c), OnlyPack(call[c].pack), ledger'.answered = ledger.answered,
         Seen(pack'[call[c].pack].history),
         \A a \in Agents, q \in Questions :
           <<call[c].pack, a, q>> \in ledger.answered => Asked(pack'[call[c].pack].history, q),
         pack'[call[c].pack].run \in Runs /\ pack'[call[c].pack].meter \in PackIds,
         call'[c].at = "writing" =>
           /\ call'[c].before.history = PackOf(c).history /\ call'[c].pack = call[c].pack
           /\ call'[c].tool = "request_more" => Asked(PackOf(c)'.history, call'[c].question)
  PROVE  Remembered'
<1>1. call[c].pack \in PackIds /\ PackOf(c) = pack[call[c].pack]
  BY InFlight DEF Charging
<1>2. \A x \in PackIds : Seen(pack'[x].history)
  BY <1>1, RememberedNow DEF OnlyPack
<1>3. ASSUME NEW x \in PackIds, NEW a \in Agents, NEW q \in Questions,
             <<x, a, q>> \in ledger'.answered
      PROVE  Asked(pack'[x].history, q) /\ Created(x)'
  <2>1. CASE x = call[c].pack
    BY <1>3, <2>1 DEF Created
  <2>2. CASE x # call[c].pack
    <3>1. pack'[x] = pack[x]
      BY <2>2 DEF OnlyPack
    <3> QED
      BY <1>3, <3>1, RememberedNow DEF Created
  <2> QED
    BY <2>1, <2>2
<1>4. ASSUME NEW d \in Calls, d # c, call[d].at = "writing" PROVE PackOf(d)' = PackOf(d)
  BY <1>4, OthersUndisturbed DEF Charging
<1>5. call'[c].at = "writing" =>
        /\ Seen(call'[c].before.history)
        /\ \A a \in Agents, q \in Questions :
             <<call'[c].pack, a, q>> \in ledger'.answered => Asked(call'[c].before.history, q)
  BY <1>1, RememberedNow
<1> QED
  BY <1>2, <1>3, <1>4, <1>5, RememberedKept

LEMMA ChargeRemembers ==
  ASSUME SameView, Typed, LocksHold, Remembered, NEW c \in Calls,
         NEW found \in SUBSET Cards, NEW tokens \in Nat, NEW requests \in Nat,
         NEW history \in Seq(Answers), Charges(c, found, tokens, requests, history),
         ChargedFor(c, found, tokens, requests, history)
  PROVE  Remembered'
<1>1. /\ call[c].pack \in PackIds /\ PackOf(c) = pack[call[c].pack]
      /\ PackOf(c) \in Packs /\ PackOf(c).run \in Runs /\ PackOf(c).meter \in PackIds
      /\ PackOf(c).history \in Seq(Answers)
      /\ call[c].question \in Questions /\ call[c].agent \in Agents
  BY InFlight DEF Charges, CallStates, Packs
<1>2. /\ Seen(history)
      /\ \A q \in Questions : Asked(PackOf(c).history, q) => Asked(history, q)
      /\ call[c].tool = "request_more" => Asked(history, call[c].question)
  <2>1. Seen(PackOf(c).history)
    BY <1>1, RememberedNow
  <2>2. CASE history = Recorded(c, found) /\ found \subseteq MaySee[call[c].agent]
    <3>1. history = Append(PackOf(c).history, [question |-> call[c].question, ids |-> found])
      BY <2>2 DEF Recorded
    <3> DEFINE h == PackOf(c).history
               q == call[c].question
               a == call[c].agent
    <3>2. /\ h \in Seq(Answers) /\ q \in Questions /\ a \in Agents /\ Seen(h)
          /\ found \subseteq MaySee[a] /\ history = Append(h, [question |-> q, ids |-> found])
      BY <1>1, <2>1, <2>2, <3>1
    <3> HIDE DEF h, q, a
    <3>3. /\ Seen(history) /\ Asked(history, q)
          /\ \A x \in Questions : Asked(h, x) => Asked(history, x)
      BY <3>2, RecordKeepsAsked
    <3> QED
      BY <3>3 DEF h, q
  <2>3. CASE history = PackOf(c).history /\ call[c].tool # "request_more"
    BY <2>1, <2>3
  <2> QED
    BY <2>2, <2>3 DEF ChargedFor
<1>3. /\ call[c].at \in Charging \/ (call[c].at # "idle" /\ LockFree(c))
      /\ OnlyCall(c) /\ OnlyPack(call[c].pack) /\ ledger' = ledger
      /\ pack'[call[c].pack].history = history
      /\ pack'[call[c].pack].run = PackOf(c).run /\ pack'[call[c].pack].meter = PackOf(c).meter
      /\ call'[c].tool = call[c].tool /\ call'[c].pack = call[c].pack
      /\ call'[c].question = call[c].question /\ call'[c].before = Snapshot(c)
  BY DEF Charges, Charging
<1>4. \A a \in Agents, q \in Questions :
        <<call[c].pack, a, q>> \in ledger.answered => Asked(pack'[call[c].pack].history, q)
  BY <1>1, <1>2, <1>3, RememberedNow
<1>5. /\ call'[c].before.history = PackOf(c).history
      /\ PackOf(c)'.history = history
  BY <1>3 DEF Snapshot, PackOf
<1> QED
  BY <1>1, <1>2, <1>3, <1>4, <1>5, WriteRemembers

\* The row of an answer lands when its question is in the history already.
LEMMA LandingRemembers ==
  ASSUME Typed, LocksHold, Remembered, NEW c \in Calls, Settles(c), call[c].at = "writing",
         ledger' = Rows(c)
  PROVE  Remembered'
<1>1. /\ call[c].pack \in PackIds /\ PackOf(c) = pack[call[c].pack]
      /\ PackOf(c) \in Packs /\ PackOf(c).run \in Runs /\ PackOf(c).meter \in PackIds
  BY InFlight
<1>2. /\ OnlyCall(c) /\ OnlyPack(call[c].pack) /\ call'[c].at = "idle"
      /\ pack'[call[c].pack] = Unlocked(PackOf(c))
  BY DEF Settles
<1>3. /\ Unlocked(PackOf(c)).run = PackOf(c).run /\ Unlocked(PackOf(c)).meter = PackOf(c).meter
      /\ Unlocked(PackOf(c)).history = PackOf(c).history
  BY <1>1 DEF Unlocked, Packs
<1>4. \A x \in PackIds : /\ pack'[x].history = pack[x].history
                         /\ Created(x) => Created(x)'
  BY <1>1, <1>2, <1>3 DEF OnlyPack, Created
<1>5. /\ ledger'.answered \subseteq ledger.answered
                                      \cup {<<call[c].pack, call[c].agent, call[c].question>>}
      /\ call[c].tool # "request_more" => ledger'.answered = ledger.answered
  BY DEF Rows
<1>6. ASSUME NEW x \in PackIds, NEW a \in Agents, NEW q \in Questions,
             <<x, a, q>> \in ledger'.answered
      PROVE  Asked(pack'[x].history, q) /\ Created(x)'
  <2>1. CASE <<x, a, q>> \in ledger.answered
    BY <1>4, <2>1, RememberedNow
  <2>2. CASE <<x, a, q>> \notin ledger.answered
    <3>1. x = call[c].pack /\ q = call[c].question /\ call[c].tool = "request_more"
      BY <1>5, <1>6, <2>2
    <3>2. Asked(PackOf(c).history, q)
      BY <3>1 DEF Remembered
    <3> QED
      BY <1>1, <1>4, <3>1, <3>2 DEF Created
  <2> QED
    BY <2>1, <2>2
<1>7. ASSUME NEW d \in Calls, d # c, call[d].at = "writing"
      PROVE  /\ PackOf(d)' = PackOf(d)
             /\ \A a \in Agents, q \in Questions :
                  <<call[d].pack, a, q>> \in ledger'.answered =>
                    <<call[d].pack, a, q>> \in ledger.answered
  <2>1. PackOf(d)' = PackOf(d) /\ call[d].pack # call[c].pack
    BY <1>2, <1>7, OthersUndisturbed DEF Charging
  <2> QED
    BY <1>5, <2>1
<1>8. \A x \in PackIds : Seen(pack'[x].history)
  BY <1>4, RememberedNow
<1> QED
  BY <1>2, <1>6, <1>7, <1>8, RememberedKept

LEMMA RememberedStep == SameView /\ Typed /\ LocksHold /\ Remembered /\ [Next]_vars => Remembered'
<1> SUFFICES ASSUME SameView, Typed, LocksHold, Remembered, [Next]_vars PROVE Remembered'
  OBVIOUS
<1>1. CASE StandsStill
  BY <1>1 DEF StandsStill, Remembered, Remembers, Created, PackOf
<1>2. ASSUME NEW c \in Calls, Does(c) PROVE Remembered'
  <2>1. CASE Passes(c)
    BY <2>1, QuietStepsRemember DEF Passes
  <2>2. CASE \E p \in PackIds, k \in Packs : Born(c, p, k)
    BY <2>2, BirthRemembers, Zenon
  <2>3. CASE StorePack(c)
    <3>1. /\ Return(c) /\ pack' = pack
          /\ ledger' = [ledger EXCEPT !.paid = [@ EXCEPT ![call[c].pack] = call[c].tokens],
                                      !.served = [@ EXCEPT ![call[c].pack] = call[c].found]]
      BY <2>3 DEF StorePack
    <3>2. ledger'.answered = ledger.answered
      BY <3>1 DEF Typed, TypeOK, Ledgers
    <3>3. OnlyCall(c) /\ call'[c].at = "idle"
      BY <3>1, Returned DEF Typed, OnlyCall
    <3> QED
      BY <3>1, <3>2, <3>3, QuietStepsRemember
  <2>4. CASE Locks(c)
    <3>1. /\ PackOf(c) \in Packs /\ call[c] \in CallStates /\ call[c].pack \in PackIds
          /\ PackOf(c) = pack[call[c].pack]
          /\ PackOf(c).run \in Runs /\ PackOf(c).meter \in PackIds
      BY <2>4, InFlight DEF Locks
    <3> DEFINE k == [PackOf(c) EXCEPT !.lock = c]
    <3>2. k.history = PackOf(c).history /\ k.run = PackOf(c).run /\ k.meter = PackOf(c).meter
      BY <3>1 DEF Packs
    <3>3. pack'[call[c].pack] = k /\ ledger' = ledger
      BY <2>4 DEF Locks
    <3>4. call'[c].at = "retrieving"
      BY <2>4, <3>1 DEF Locks, CallStates
    <3> HIDE DEF k
    <3>5. /\ OnlyCall(c) /\ OnlyPack(call[c].pack)
          /\ call[c].at # "idle" /\ LockFree(c)
      BY <2>4 DEF Locks
    <3>6. /\ Seen(pack'[call[c].pack].history)
          /\ \A a \in Agents, q \in Questions : <<call[c].pack, a, q>> \in ledger.answered =>
               Asked(pack'[call[c].pack].history, q)
      BY <3>1, <3>2, <3>3, RememberedNow
    <3> QED
      BY <3>1, <3>2, <3>3, <3>4, <3>5, <3>6, WriteRemembers
  <2>5. CASE \E found \in SUBSET Cards, tokens \in Nat, requests \in Nat, history \in Seq(Answers) :
               /\ Charges(c, found, tokens, requests, history)
               /\ ChargedFor(c, found, tokens, requests, history)
    BY <2>5, ChargeRemembers, Zenon
  <2>6. CASE Settles(c) /\ ledger' = ledger
    <3>1. /\ PackOf(c) \in Packs /\ call[c].pack \in PackIds
          /\ PackOf(c) = pack[call[c].pack]
          /\ PackOf(c).run \in Runs /\ PackOf(c).meter \in PackIds
      BY <2>6, InFlight DEF Settles, Charging
    <3>2. /\ pack'[call[c].pack].history = PackOf(c).history
          /\ pack'[call[c].pack].run = PackOf(c).run
          /\ pack'[call[c].pack].meter = PackOf(c).meter
      BY <2>6, <3>1 DEF Settles, Unlocked, Packs
    <3>3. /\ Seen(pack'[call[c].pack].history)
          /\ \A a \in Agents, q \in Questions : <<call[c].pack, a, q>> \in ledger.answered =>
               Asked(pack'[call[c].pack].history, q)
      BY <3>1, <3>2, RememberedNow
    <3> QED
      BY <2>6, <3>1, <3>2, <3>3, WriteRemembers DEF Settles
  <2>7. CASE Settles(c) /\ ledger' = Rows(c) /\ call[c].at = "writing"
    BY <2>7, LandingRemembers
  <2>8. CASE Refunds(c)
    <3>1. /\ PackOf(c) \in Packs /\ call[c].pack \in PackIds /\ call[c] \in CallStates
          /\ PackOf(c).run \in Runs /\ PackOf(c).meter \in PackIds
      BY <2>8, InFlight DEF Refunds
    <3>2. /\ RestoredPack(c) \in Packs /\ RestoredPack(c).run = PackOf(c).run
          /\ RestoredPack(c).meter = PackOf(c).meter
      BY <2>8, RestoredIsTyped DEF Refunds
    <3>3. RestoredPack(c).history = call[c].before.history
      BY <3>1 DEF RestoredPack, Packs
    <3>4. /\ pack'[call[c].pack].history = call[c].before.history
          /\ pack'[call[c].pack].run = PackOf(c).run
          /\ pack'[call[c].pack].meter = PackOf(c).meter
      <4> DEFINE k == RestoredPack(c)
      <4>1. pack'[call[c].pack] = Unlocked(k)
        BY <2>8 DEF Refunds
      <4>2. /\ k \in Packs /\ k.history = call[c].before.history /\ k.run = PackOf(c).run
            /\ k.meter = PackOf(c).meter
        BY <3>2, <3>3
      <4> HIDE DEF k
      <4> QED
        BY <4>1, <4>2 DEF Unlocked, Packs
    <3>5. Remembers(call[c].before.history, call[c].pack)
      BY <2>8 DEF Refunds, Remembered
    <3>6. /\ Seen(pack'[call[c].pack].history)
          /\ \A a \in Agents, q \in Questions : <<call[c].pack, a, q>> \in ledger.answered =>
               Asked(pack'[call[c].pack].history, q)
      BY <3>4, <3>5 DEF Remembers
    <3>7. /\ call[c].at \in Charging /\ OnlyCall(c) /\ OnlyPack(call[c].pack)
          /\ ledger' = ledger /\ call'[c].at = "idle"
      BY <2>8 DEF Refunds, Charging
    <3> QED
      BY <3>1, <3>4, <3>6, <3>7, WriteRemembers
  <2> QED
    BY <1>2, <2>1, <2>2, <2>3, <2>4, <2>5, <2>6, <2>7, <2>8 DEF Does, Settles
<1> QED
  BY <1>1, <1>2, EveryStep

LEMMA RememberedStart == Init => Remembered
<1> SUFFICES ASSUME Init PROVE Remembered
  OBVIOUS
<1>1. \A c \in Calls : call[c].at = "idle"
  BY IdleIsTyped DEF Init
<1>2. \A p \in PackIds : pack[p].history = <<>>
  BY DEF Init, NoPack
<1>3. ledger.answered = {}
  BY DEF Init
<1> QED
  BY <1>1, <1>2, <1>3 DEF Remembered, Remembers, Seen

\* Agents that see the same artifacts never pay twice for a question: once the
\* ledger holds an answer, the dedupe of the pack settles on an entry that
\* answers it, whichever calls fail, are cancelled or are refunded around it
\* (request_more.py dedupes before it charges; state.py, snapshot and restore).
THEOREM AnswersAreKept == SameView => (Spec => []AnsweredQuestionsAreReused)
<1> SUFFICES ASSUME SameView PROVE Spec => []AnsweredQuestionsAreReused
  OBVIOUS
<1>1. Typed /\ LocksHold /\ Remembered /\ [Next]_vars => Typed' /\ LocksHold' /\ Remembered'
  BY TypedStep, LocksHoldStep, RememberedStep
<1>2. Typed /\ Remembered => AnsweredQuestionsAreReused
  <2> SUFFICES ASSUME Typed, Remembered, NEW p \in PackIds, NEW a \in Agents,
                      NEW q \in Questions, <<p, a, q>> \in ledger.answered
               PROVE  /\ Consulted(pack[p].history, q, a) # {}
                      /\ \A e \in Consulted(pack[p].history, q, a) : Answer(e, a)
    BY DEF AnsweredQuestionsAreReused
  <2>1. /\ pack[p].history \in Seq(Answers) /\ Seen(pack[p].history)
        /\ Asked(pack[p].history, q)
    BY RememberedNow DEF Typed, TypeOK, Packs
  <2> QED
    BY <2>1, AskedIsReused
<1> QED
  BY <1>1, <1>2, Start, LocksHoldStart, RememberedStart, PTL DEF Spec
------------------------------------------------------------------------------
NoCancel == "call_cancelled" \notin Faults

\* The spend and the cards of pack p are what the ledger explains.
Explained(p) == pack[p].used = ledger.paid[p] /\ pack[p].cards = ledger.served[p]

\* A pack that is being charged is ahead of the ledger by the charge, and what a
\* refund puts back is where the ledger stands.
Accounted(c) ==
    /\ call[c].at = "retrieving" => Explained(call[c].pack)
    /\ call[c].at = "writing" =>
         /\ call[c].before.used = ledger.paid[call[c].pack]
         /\ call[c].before.cards = ledger.served[call[c].pack]
         /\ PackOf(c).used = ledger.paid[call[c].pack] + call[c].tokens
         /\ PackOf(c).cards = ledger.served[call[c].pack] \cup call[c].found

\* A pack that is being made is nobody else's, and not in the store yet.
MadeAlone(c) ==
    call[c].at = "creating" =>
      /\ call[c].pack \notin Stored
      /\ PackOf(c).used = call[c].tokens /\ PackOf(c).cards = call[c].found
      /\ \A d \in Calls : d # c /\ call[d].at # "idle" => call[d].pack # call[c].pack

Balanced == /\ PacksMatchLedger
            /\ \A c \in Calls : MadeAlone(c) /\ (call[c].pack \in Stored => Accounted(c))

\* A call that only comes and goes leaves every account as it was.
LEMMA PassingBalances ==
  ASSUME Typed, Balanced, NEW c \in Calls, Passes(c)
  PROVE  Balanced'
<1>1. /\ pack' = pack /\ ledger' = ledger /\ Stored' \subseteq Stored
      /\ \A d \in Calls : d # c => call'[d] = call[d]
      /\ call'[c].at = "idle" \/ (call'[c].at = "waiting" /\ call'[c].pack \in Stored)
  BY DEF Passes, OnlyCall
<1>2. PacksMatchLedger'
  BY <1>1 DEF Balanced, PacksMatchLedger
<1>3. ASSUME NEW d \in Calls, call'[d].at = "creating"
      PROVE  MadeAlone(d)'
  <2>1. d # c /\ call'[d] = call[d]
    BY <1>1, <1>3
  <2>2. /\ call[d].pack \notin Stored
        /\ PackOf(d).used = call[d].tokens /\ PackOf(d).cards = call[d].found
        /\ \A e \in Calls : e # d /\ call[e].at # "idle" => call[e].pack # call[d].pack
    BY <1>3, <2>1 DEF Balanced, MadeAlone
  <2>3. PackOf(d)' = PackOf(d)
    BY <1>1, <2>1 DEF PackOf
  <2>4. \A e \in Calls : e # d /\ call'[e].at # "idle" => call'[e].pack # call[d].pack
    BY <1>1, <2>2
  <2> QED
    BY <1>1, <2>1, <2>2, <2>3, <2>4 DEF MadeAlone
<1>4. ASSUME NEW d \in Calls, call'[d].pack \in Stored'
      PROVE  Accounted(d)'
  <2>1. CASE d = c
    BY <1>1, <2>1 DEF Accounted
  <2>2. CASE d # c
    <3>1. call'[d] = call[d] /\ Accounted(d)
      BY <1>1, <1>4, <2>2 DEF Balanced
    <3> QED
      BY <1>1, <3>1 DEF Accounted, Explained, PackOf
  <2> QED
    BY <2>1, <2>2
<1>5. \A d \in Calls : MadeAlone(d)'
  BY <1>3 DEF MadeAlone
<1> QED
  BY <1>2, <1>4, <1>5 DEF Balanced

LEMMA BirthBalances ==
  ASSUME Typed, Balanced, NEW c \in Calls, NEW p \in PackIds, NEW k \in Packs, Born(c, p, k)
  PROVE  Balanced'
<1>1. /\ \A d \in Calls : d # c => call'[d] = call[d]
      /\ \A d \in Calls : call[d].at # "idle" =>
           call[d].pack # p /\ PackOf(d) = pack'[call[d].pack]
      /\ \A x \in PackIds : x # p => pack'[x] = pack[x]
      /\ pack'[p] = k /\ p \notin Stored
  BY BornAlone
<1>2. /\ call'[c].at = "creating" /\ call'[c].pack = p /\ ledger' = ledger
      /\ call'[c].tokens = k.used /\ call'[c].found = k.cards
      /\ stored' = stored
  BY DEF Born
<1>3. Stored' = Stored /\ Stored \subseteq PackIds
  BY <1>2 DEF Stored, Typed, TypeOK
<1>4. PacksMatchLedger'
  BY <1>1, <1>2, <1>3 DEF Balanced, PacksMatchLedger
<1>5. ASSUME NEW d \in Calls, call'[d].at = "creating"
      PROVE  MadeAlone(d)'
  <2>1. CASE d = c
    <3>1. \A e \in Calls : e # c /\ call'[e].at # "idle" => call'[e].pack # p
      BY <1>1
    <3> QED
      BY <1>1, <1>2, <1>3, <2>1, <3>1 DEF MadeAlone, PackOf
  <2>2. CASE d # c
    <3>1. call'[d] = call[d] /\ MadeAlone(d) /\ call[d].pack # p
      BY <1>1, <1>5, <2>2 DEF Balanced
    <3>2. PackOf(d)' = PackOf(d)
      BY <1>1, <1>5, <3>1 DEF PackOf
    <3>3. \A e \in Calls : e # d /\ call'[e].at # "idle" => call'[e].pack # call[d].pack
      BY <1>1, <1>2, <1>5, <3>1 DEF MadeAlone
    <3> QED
      BY <1>3, <3>1, <3>2, <3>3 DEF MadeAlone
  <2> QED
    BY <2>1, <2>2
<1>6. ASSUME NEW d \in Calls, call'[d].pack \in Stored', call'[d].at # "idle"
      PROVE  Accounted(d)'
  <2>1. CASE d = c
    BY <1>2, <2>1 DEF Accounted
  <2>2. CASE d # c
    <3>1. call'[d] = call[d] /\ Accounted(d) /\ PackOf(d) = pack'[call[d].pack]
      BY <1>1, <1>3, <1>6, <2>2 DEF Balanced
    <3>2. PackOf(d)' = PackOf(d) /\ PackOf(d) = pack[call[d].pack]
      BY <3>1 DEF PackOf
    <3> QED
      BY <1>2, <3>1, <3>2 DEF Accounted, Explained
  <2> QED
    BY <2>1, <2>2
<1>7. \A d \in Calls : MadeAlone(d)'
  BY <1>5 DEF MadeAlone
<1>8. \A d \in Calls : call'[d].at = "idle" => Accounted(d)'
  BY DEF Accounted
<1> QED
  BY <1>4, <1>6, <1>7, <1>8 DEF Balanced

\* A pack enters the store with the row that pays for it.
LEMMA StoringBalances ==
  ASSUME Typed, Balanced, NEW c \in Calls, StorePack(c)
  PROVE  Balanced'
<1> DEFINE p == call[c].pack
<1>1. /\ call[c].at = "creating" /\ Return(c) /\ pack' = pack
      /\ ledger' = [ledger EXCEPT !.paid = [@ EXCEPT ![p] = call[c].tokens],
                                  !.served = [@ EXCEPT ![p] = call[c].found]]
  BY DEF StorePack
<1>2. /\ p \in PackIds /\ p \notin Stored
      /\ pack[p].used = call[c].tokens /\ pack[p].cards = call[c].found
      /\ \A d \in Calls : d # c /\ call[d].at # "idle" => call[d].pack # p
  BY <1>1, InFlight DEF Balanced, MadeAlone, PackOf
<1>3. Stored' \subseteq Stored \cup {p}
  BY <1>2, CreateKeepsLimit DEF StorePack, Typed, TypeOK
<1>4. /\ ledger'.paid[p] = call[c].tokens /\ ledger'.served[p] = call[c].found
      /\ \A x \in PackIds : x # p => /\ ledger'.paid[x] = ledger.paid[x]
                                     /\ ledger'.served[x] = ledger.served[x]
  BY <1>1, <1>2 DEF Typed, TypeOK, Ledgers
<1>5. call'[c].at = "idle" /\ \A d \in Calls : d # c => call'[d] = call[d]
  BY <1>1, Returned DEF Typed
<1>6. Stored \subseteq PackIds
  BY DEF Stored, Typed, TypeOK
<1> HIDE DEF p
<1>7. PacksMatchLedger'
  BY <1>1, <1>2, <1>3, <1>4, <1>6 DEF Balanced, PacksMatchLedger
<1>8. ASSUME NEW d \in Calls, call'[d].at = "creating"
      PROVE  MadeAlone(d)'
  <2>1. d # c /\ call'[d] = call[d] /\ MadeAlone(d) /\ call[d].pack # p
    BY <1>2, <1>5, <1>8 DEF Balanced
  <2>2. \A e \in Calls : e # d /\ call'[e].at # "idle" => call'[e].pack # call[d].pack
    BY <1>5, <1>8, <2>1 DEF MadeAlone
  <2> QED
    BY <1>1, <1>3, <2>1, <2>2 DEF MadeAlone, PackOf
<1>9. ASSUME NEW d \in Calls, call'[d].pack \in Stored', call'[d].at # "idle"
      PROVE  Accounted(d)'
  <2>1. d # c /\ call'[d] = call[d] /\ call[d].pack # p
    BY <1>2, <1>5, <1>9
  <2>2. Accounted(d) /\ call[d].pack \in PackIds
    BY <1>3, <1>6, <1>9, <2>1 DEF Balanced
  <2> QED
    BY <1>1, <1>4, <2>1, <2>2 DEF Accounted, Explained, PackOf
<1>10. \A d \in Calls : MadeAlone(d)'
  BY <1>8 DEF MadeAlone
<1>11. \A d \in Calls : call'[d].at = "idle" => Accounted(d)'
  BY DEF Accounted
<1> QED
  BY <1>7, <1>9, <1>10, <1>11 DEF Balanced

\* A step that writes the pack of its call leaves the others' accounts alone.
LEMMA WriteBalances ==
  ASSUME Typed, LocksHold, Balanced, NEW c \in Calls,
         call[c].at \in Charging \/ (call[c].at = "waiting" /\ LockFree(c)),
         OnlyCall(c), OnlyPack(call[c].pack), stored' = stored,
         \A x \in PackIds : x # call[c].pack => /\ ledger'.paid[x] = ledger.paid[x]
                                               /\ ledger'.served[x] = ledger.served[x],
         \/ call'[c].at = "idle"
         \/ call'[c].at \in Charging /\ call'[c].pack = call[c].pack,
         call[c].pack \in Stored => Accounted(c)',
         call[c].pack \in Stored /\ pack'[call[c].pack].lock = Nothing =>
           /\ pack'[call[c].pack].used = ledger'.paid[call[c].pack]
           /\ pack'[call[c].pack].cards = ledger'.served[call[c].pack]
  PROVE  Balanced'
<1> DEFINE p == call[c].pack
<1>1. /\ p \in PackIds /\ call[c].at # "idle" /\ call[c].at # "creating"
      /\ \A d \in Calls : d # c => call'[d] = call[d]
      /\ \A x \in PackIds : x # p => pack'[x] = pack[x]
  BY InFlight DEF Charging, OnlyCall, OnlyPack
<1>2. Stored' = Stored /\ Stored \subseteq PackIds
  BY DEF Stored, Typed, TypeOK
<1>3. PacksMatchLedger'
  <2> SUFFICES ASSUME NEW x \in Stored, pack'[x].lock = Nothing
               PROVE  pack'[x].used = ledger'.paid[x] /\ pack'[x].cards = ledger'.served[x]
    BY <1>2 DEF PacksMatchLedger
  <2>1. CASE x = p
    BY <2>1
  <2>2. CASE x # p
    BY <1>1, <1>2, <2>2 DEF Balanced, PacksMatchLedger
  <2> QED
    BY <2>1, <2>2
<1>4. ASSUME NEW d \in Calls, call'[d].at = "creating"
      PROVE  MadeAlone(d)'
  <2>1. d # c /\ call'[d] = call[d] /\ MadeAlone(d)
    BY <1>1, <1>4 DEF Balanced, Charging
  <2>2. /\ call[d].pack \in PackIds /\ call[d].pack # p
        /\ \A e \in Calls : e # d /\ call[e].at # "idle" => call[e].pack # call[d].pack
    BY <1>1, <1>4, <2>1, InFlight DEF MadeAlone
  <2>3. PackOf(d)' = PackOf(d)
    BY <1>1, <2>1, <2>2 DEF PackOf
  <2>4. \A e \in Calls : e # d /\ call'[e].at # "idle" => call'[e].pack # call[d].pack
    BY <1>1, <2>2
  <2> QED
    BY <1>2, <1>4, <2>1, <2>3, <2>4 DEF MadeAlone
<1>5. ASSUME NEW d \in Calls, call'[d].pack \in Stored', call'[d].at \in Charging
      PROVE  Accounted(d)'
  <2>1. CASE d = c
    BY <1>2, <1>5, <2>1 DEF Charging
  <2>2. CASE d # c
    <3>1. /\ call'[d] = call[d] /\ Accounted(d) /\ call[d].pack \in PackIds
      BY <1>1, <1>2, <1>5, <2>2 DEF Balanced
    <3>2. /\ call[d].pack # p /\ PackOf(d)' = PackOf(d)
          /\ pack'[call[d].pack] = pack[call[d].pack]
      BY <1>1, <1>5, <2>2, <3>1, OthersUndisturbed
    <3>3. /\ ledger'.paid[call[d].pack] = ledger.paid[call[d].pack]
          /\ ledger'.served[call[d].pack] = ledger.served[call[d].pack]
      BY <3>1, <3>2
    <3> QED
      BY <3>1, <3>2, <3>3 DEF Accounted, Explained
  <2> QED
    BY <2>1, <2>2
<1>6. \A d \in Calls : MadeAlone(d)'
  BY <1>4 DEF MadeAlone
<1>7. \A d \in Calls : call'[d].at \notin Charging => Accounted(d)'
  BY DEF Accounted, Charging
<1> QED
  BY <1>3, <1>5, <1>6, <1>7 DEF Balanced

\* A call that finds the lock of a stored pack free, or holds it before its
\* charge, finds the pack where the ledger has it.
LEMMA UnchargedIsExplained ==
  ASSUME Typed, Balanced, NEW c \in Calls, call[c].pack \in Stored,
         call[c].at = "retrieving" \/ (call[c].at = "waiting" /\ LockFree(c))
  PROVE  PackOf(c).used = ledger.paid[call[c].pack] /\ PackOf(c).cards = ledger.served[call[c].pack]
BY DEF Balanced, PacksMatchLedger, Accounted, Explained, LockFree, PackOf

LEMMA LockBalances ==
  ASSUME Typed, LocksHold, Balanced, NEW c \in Calls, Locks(c)
  PROVE  Balanced'
<1>1. /\ PackOf(c) \in Packs /\ call[c] \in CallStates /\ call[c].pack \in PackIds
      /\ PackOf(c) = pack[call[c].pack]
  BY InFlight DEF Locks
<1> DEFINE k == [PackOf(c) EXCEPT !.lock = c]
<1>2. k.used = PackOf(c).used /\ k.cards = PackOf(c).cards /\ k.lock = c
  BY <1>1 DEF Packs
<1>3. /\ pack'[call[c].pack] = k /\ UNCHANGED <<stored, ledger>>
      /\ call[c].at = "waiting" /\ LockFree(c) /\ OnlyCall(c) /\ OnlyPack(call[c].pack)
  BY DEF Locks
<1>4. call'[c].at = "retrieving" /\ call'[c].pack = call[c].pack
  BY <1>1 DEF Locks, CallStates
<1> HIDE DEF k
<1>5. call[c].pack \in Stored => Accounted(c)'
  BY <1>2, <1>3, <1>4, UnchargedIsExplained DEF Accounted, Explained
<1>6. pack'[call[c].pack].lock # Nothing
  BY <1>2, <1>3
<1> QED
  BY <1>3, <1>4, <1>5, <1>6, WriteBalances DEF Charging

LEMMA ChargeBalances ==
  ASSUME Typed, LocksHold, Balanced, NEW c \in Calls,
         NEW found \in SUBSET Cards, NEW tokens \in Nat, NEW requests \in Nat,
         NEW history \in Seq(Answers), Charges(c, found, tokens, requests, history)
  PROVE  Balanced'
<1>1. /\ call[c].at = "retrieving" \/ (call[c].at = "waiting" /\ LockFree(c))
      /\ OnlyCall(c) /\ OnlyPack(call[c].pack) /\ UNCHANGED <<stored, ledger>>
      /\ pack'[call[c].pack].used = PackOf(c).used + tokens
      /\ pack'[call[c].pack].cards = PackOf(c).cards \cup found
      /\ pack'[call[c].pack].lock = c
      /\ call'[c].at = "writing" /\ call'[c].pack = call[c].pack
      /\ call'[c].found = found /\ call'[c].tokens = tokens /\ call'[c].before = Snapshot(c)
  BY DEF Charges
<1>2. call[c].pack \in Stored => Accounted(c)'
  BY <1>1, UnchargedIsExplained DEF Accounted, Snapshot, PackOf
<1>3. pack'[call[c].pack].lock # Nothing
  BY <1>1
<1> QED
  BY <1>1, <1>2, <1>3, WriteBalances DEF Charging

LEMMA SettlingBalances ==
  ASSUME NoCancel, Typed, LocksHold, Balanced, NEW c \in Calls, Settles(c)
  PROVE  Balanced'
<1>1. /\ PackOf(c) \in Packs /\ call[c].pack \in PackIds /\ call[c].tokens \in Nat
      /\ call[c].found \in SUBSET Cards /\ PackOf(c) = pack[call[c].pack]
  BY InFlight DEF Settles, Charging, CallStates
<1>2. /\ call[c].at \in Charging /\ OnlyCall(c) /\ OnlyPack(call[c].pack) /\ stored' = stored
      /\ call'[c].at = "idle" /\ pack'[call[c].pack] = Unlocked(PackOf(c))
      /\ \/ ledger' = ledger /\ call[c].at = "retrieving"
         \/ ledger' = Rows(c) /\ call[c].at = "writing"
  BY DEF Settles, NoCancel, Charging
<1>3. /\ pack'[call[c].pack].used = PackOf(c).used
      /\ pack'[call[c].pack].cards = PackOf(c).cards
  BY <1>1, <1>2, UnlockedIsTyped
<1>4. Accounted(c)'
  BY <1>2 DEF Accounted
<1>5. CASE ledger' = ledger /\ call[c].at = "retrieving"
  <2>1. call[c].pack \in Stored => /\ PackOf(c).used = ledger.paid[call[c].pack]
                                  /\ PackOf(c).cards = ledger.served[call[c].pack]
    BY <1>5, UnchargedIsExplained
  <2> QED
    BY <1>2, <1>3, <1>4, <1>5, <2>1, WriteBalances
<1>6. CASE ledger' = Rows(c) /\ call[c].at = "writing"
  <2>1. /\ ledger'.paid = [ledger.paid EXCEPT ![call[c].pack] = @ + call[c].tokens]
        /\ ledger'.served = [ledger.served EXCEPT ![call[c].pack] = @ \cup call[c].found]
    BY <1>6 DEF Rows
  <2>2. /\ ledger'.paid[call[c].pack] = ledger.paid[call[c].pack] + call[c].tokens
        /\ ledger'.served[call[c].pack] = ledger.served[call[c].pack] \cup call[c].found
        /\ \A x \in PackIds : x # call[c].pack => /\ ledger'.paid[x] = ledger.paid[x]
                                                 /\ ledger'.served[x] = ledger.served[x]
    BY <1>1, <2>1 DEF Typed, TypeOK, Ledgers
  <2>3. call[c].pack \in Stored =>
          /\ PackOf(c).used = ledger.paid[call[c].pack] + call[c].tokens
          /\ PackOf(c).cards = ledger.served[call[c].pack] \cup call[c].found
    BY <1>6 DEF Balanced, Accounted
  <2> QED
    BY <1>2, <1>3, <1>4, <2>2, <2>3, WriteBalances
<1> QED
  BY <1>2, <1>5, <1>6

LEMMA RefundBalances ==
  ASSUME Typed, LocksHold, Balanced, NEW c \in Calls, Refunds(c)
  PROVE  Balanced'
<1>1. /\ call[c].at = "writing" /\ OnlyCall(c) /\ OnlyPack(call[c].pack)
      /\ UNCHANGED <<stored, ledger>> /\ call'[c].at = "idle"
  BY DEF Refunds
<1>2. /\ pack'[call[c].pack].used = call[c].before.used
      /\ pack'[call[c].pack].cards = call[c].before.cards
  <2> DEFINE k == RestoredPack(c)
  <2>1. /\ k \in Packs /\ k.used = call[c].before.used /\ k.cards = call[c].before.cards
    BY <1>1, RestoredIsTyped
  <2>2. pack'[call[c].pack] = Unlocked(k)
    BY DEF Refunds
  <2> HIDE DEF k
  <2> QED
    BY <2>1, <2>2, UnlockedIsTyped
<1>3. call[c].pack \in Stored => /\ call[c].before.used = ledger.paid[call[c].pack]
                                /\ call[c].before.cards = ledger.served[call[c].pack]
  BY <1>1 DEF Balanced, Accounted
<1>4. Accounted(c)'
  BY <1>1 DEF Accounted
<1> QED
  BY <1>1, <1>2, <1>3, <1>4, WriteBalances DEF Charging

LEMMA BalancedStep == NoCancel /\ Typed /\ LocksHold /\ Balanced /\ [Next]_vars => Balanced'
<1> SUFFICES ASSUME NoCancel, Typed, LocksHold, Balanced, [Next]_vars PROVE Balanced'
  OBVIOUS
<1>1. CASE StandsStill
  BY <1>1 DEF StandsStill, Balanced, PacksMatchLedger, MadeAlone, Accounted, Explained, PackOf
<1>2. ASSUME NEW c \in Calls, Does(c) PROVE Balanced'
  <2>1. CASE Passes(c) \/ StorePack(c) \/ Locks(c) \/ Settles(c) \/ Refunds(c)
    BY <2>1, PassingBalances, StoringBalances, LockBalances, SettlingBalances, RefundBalances
  <2>2. CASE \E p \in PackIds, k \in Packs : Born(c, p, k)
    BY <2>2, BirthBalances, Zenon
  <2>3. CASE \E found \in SUBSET Cards, tokens \in Nat, requests \in Nat, history \in Seq(Answers) :
               /\ Charges(c, found, tokens, requests, history)
               /\ ChargedFor(c, found, tokens, requests, history)
    BY <2>3, ChargeBalances, Zenon
  <2> QED
    BY <1>2, <2>1, <2>2, <2>3, Zenon DEF Does
<1> QED
  BY <1>1, <1>2, EveryStep

LEMMA BalancedStart == Init => Balanced
<1> SUFFICES ASSUME Init PROVE Balanced
  OBVIOUS
<1>1. (\A c \in Calls : call[c].at = "idle") /\ Stored = {}
  BY IdleIsTyped DEF Init, Stored
<1> QED
  BY <1>1 DEF Balanced, PacksMatchLedger, MadeAlone, Accounted

\* Where no client goes away in the middle of a call, the spend and the cards of
\* every pack in the store are what the rows of the ledger explain whenever its
\* lock is free: a call whose ledger write fails leaves nothing behind, whoever
\* waits for the pack or evicts it meanwhile (state.py, snapshot and restore;
\* PackStore.create).
THEOREM PacksAreExplained == NoCancel => (Spec => []PacksMatchLedger)
<1> SUFFICES ASSUME NoCancel PROVE Spec => []PacksMatchLedger
  OBVIOUS
<1>1. Typed /\ LocksHold /\ Balanced /\ [Next]_vars => Typed' /\ LocksHold' /\ Balanced'
  BY TypedStep, LocksHoldStep, BalancedStep
<1>2. Balanced => PacksMatchLedger
  BY DEF Balanced
<1> QED
  BY <1>1, <1>2, Start, LocksHoldStart, BalancedStart, PTL DEF Spec
------------------------------------------------------------------------------
\* No run has packed twice.
OnePackPerRun == \A p, q \in PackIds : Created(p) /\ pack[q].run = pack[p].run => p = q

\* Pack p meters agent a where the ledger has it, but for the charge of a call
\* that waits for its ledger write.
MeterStands(p, a) ==
    \/ usage[p][a].tokens = ledger.spent[pack[p].run][a]
    \/ \E c \in Calls : call[c].at = "writing" /\ call[c].pack = p /\ call[c].agent = a

\* What a call in flight knows about its meter.
MeterKnown(c) ==
    /\ call[c].at = "waiting" => call[c].tool \in Tools
    /\ call[c].at = "retrieving" => RequestLeft(c) /\ WithinAllowance(c)
    /\ call[c].at = "writing" =>
         /\ call[c].before.usage.tokens = ledger.spent[PackOf(c).run][call[c].agent]
         /\ UsageOf(c).tokens = call[c].before.usage.tokens + call[c].tokens
         /\ call[c].before.usage.requests <= MaxRequests[call[c].agent]

\* A run's only pack keeps the run's meter, on which nobody is beyond its
\* allowance, and a run that has not packed has spent nothing.
Metered ==
    /\ \A r \in Runs : meterOf[r] # Nothing => pack[meterOf[r]].run = r
    /\ \A p \in PackIds : pack[p].run \in Runs => pack[p].meter = p
    /\ \A p \in PackIds, a \in Agents :
         IF Created(p) THEN MeterStands(p, a) ELSE usage[p][a].tokens = 0
    /\ \A r \in Runs, a \in Agents :
         (\A p \in PackIds : pack[p].run # r) => ledger.spent[r][a] = 0
    /\ \A p \in PackIds, a \in Agents : /\ usage[p][a].tokens <= MaxTokens[a]
                                        /\ usage[p][a].requests <= MaxRequests[a]
    /\ \A c \in Calls : MeterKnown(c)

\* What a call knows stays true while nobody else charges its pack.
LEMMA OthersMeter ==
  ASSUME Typed, Metered, NEW d \in Calls, call'[d] = call[d],
         call[d].at \in Charging =>
           /\ PackOf(d)'.run = PackOf(d).run /\ UsageOf(d)' = UsageOf(d)
           /\ ledger'.spent[PackOf(d).run][call[d].agent] = ledger.spent[PackOf(d).run][call[d].agent]
  PROVE  MeterKnown(d)'
<1>1. MeterKnown(d)
  BY DEF Metered
<1>2. CASE call[d].at = "retrieving"
  BY <1>1, <1>2 DEF MeterKnown, Charging, RequestLeft, WithinAllowance
<1>3. CASE call[d].at = "writing"
  BY <1>1, <1>3 DEF MeterKnown, Charging
<1>4. CASE call[d].at \notin Charging
  BY <1>1, <1>4 DEF MeterKnown, Charging
<1> QED
  BY <1>2, <1>3, <1>4 DEF Charging

LEMMA QuietStepsMeter ==
  ASSUME Typed, Metered, NEW c \in Calls, OnlyCall(c), pack' = pack, usage' = usage,
         ledger'.spent = ledger.spent, call[c].at # "writing",
         call'[c].at = "idle" \/ (call'[c].at = "waiting" /\ call'[c].tool \in Tools),
         \A r \in Runs : meterOf'[r] = meterOf[r] \/ meterOf'[r] = Nothing
  PROVE  Metered'
<1>1. \A p \in PackIds, a \in Agents : MeterStands(p, a) => MeterStands(p, a)'
  BY DEF MeterStands, OnlyCall
<1>2. ASSUME NEW d \in Calls PROVE MeterKnown(d)'
  <2>1. CASE d = c
    BY <2>1 DEF MeterKnown
  <2>2. CASE d # c
    BY <2>2, OthersMeter DEF OnlyCall, PackOf, UsageOf
  <2> QED
    BY <2>1, <2>2
<1>3. \A r \in Runs : meterOf'[r] # Nothing => pack'[meterOf'[r]].run = r
  BY DEF Metered
<1>4. \A p \in PackIds : Created(p)' <=> Created(p)
  BY DEF Created
<1>5. \A p \in PackIds, a \in Agents :
        IF Created(p)' THEN MeterStands(p, a)' ELSE usage'[p][a].tokens = 0
  BY <1>1, <1>4 DEF Metered
<1> QED
  BY <1>2, <1>3, <1>4, <1>5 DEF Metered

\* The first pack of a run starts the run's meter at nothing.
LEMMA BirthMeters ==
  ASSUME OnePackPerRun', Typed, Metered, NEW c \in Calls, NEW p \in PackIds, NEW k \in Packs,
         Born(c, p, k)
  PROVE  Metered'
<1>1. /\ \A d \in Calls : d # c => call'[d] = call[d]
      /\ \A d \in Calls : call[d].at # "idle" =>
           call[d].pack # p /\ PackOf(d) = pack'[call[d].pack]
      /\ \A x \in PackIds : x # p => pack'[x] = pack[x]
      /\ pack'[p] = k /\ p \notin Stored
  BY BornAlone
<1>2. /\ call'[c].at = "creating" /\ k.run \in Runs /\ k.meter \in PackIds
      /\ pack[p].run = Nothing /\ Nothing \notin Runs \cup PackIds
      /\ k.meter = UsageForRun(k.run, p) /\ meterOf' = [meterOf EXCEPT ![k.run] = k.meter]
      /\ UNCHANGED <<usage, ledger>>
      /\ call[c].at = "idle" /\ \A d \in Calls : d # c => call'[d] = call[d]
  BY DEF Born
<1>3. \A q \in PackIds : Created(q)' /\ pack'[q].run = k.run => q = p
  BY <1>1, <1>2 DEF OnePackPerRun, Created
<1>4. /\ k.meter = p /\ meterOf'[k.run] = p
      /\ \A x \in Runs : x # k.run => meterOf'[x] = meterOf[x]
  <2>1. ASSUME meterOf[k.run] # Nothing PROVE FALSE
    <3>1. meterOf[k.run] \in PackIds /\ pack[meterOf[k.run]].run = k.run
      BY <1>2, <2>1 DEF Metered, Typed, TypeOK
    <3>2. pack'[meterOf[k.run]].run = k.run
      BY <1>1, <1>2, <3>1
    <3>3. pack'[p].run = k.run /\ pack'[p].meter \in PackIds
      BY <1>1, <1>2
    <3>4. meterOf[k.run] = p
      BY <1>2, <3>1, <3>2, <3>3 DEF OnePackPerRun, Created
    <3> QED
      BY <1>2, <3>1, <3>4
  <2>2. k.meter = p
    BY <1>2, <2>1 DEF UsageForRun
  <2> QED
    BY <1>2, <2>2 DEF Typed, TypeOK
<1>5. \A x \in PackIds : pack[x].run # k.run
  <2> SUFFICES ASSUME NEW x \in PackIds, pack[x].run = k.run PROVE FALSE
    OBVIOUS
  <2>1. x # p /\ pack'[x].run = k.run
    BY <1>1, <1>2
  <2>2. pack'[p].run = k.run /\ pack'[p].meter \in PackIds
    BY <1>1, <1>2
  <2> QED
    BY <1>2, <2>1, <2>2 DEF OnePackPerRun, Created
<1>6. (\A r \in Runs : meterOf[r] # Nothing => pack[meterOf[r]].run = r)'
  <2> SUFFICES ASSUME NEW r \in Runs, meterOf'[r] # Nothing PROVE pack'[meterOf'[r]].run = r
    OBVIOUS
  <2>1. CASE r = k.run
    BY <1>1, <1>4, <2>1
  <2>2. CASE r # k.run
    <3>1. meterOf[r] \in PackIds /\ pack[meterOf[r]].run = r /\ meterOf'[r] = meterOf[r]
      BY <1>4, <2>2 DEF Metered, Typed, TypeOK
    <3> QED
      BY <1>1, <1>2, <3>1
  <2> QED
    BY <2>1, <2>2
<1>7. (\A x \in PackIds : pack[x].run \in Runs => pack[x].meter = x)'
  BY <1>1, <1>4 DEF Metered
<1>8. ASSUME NEW x \in PackIds, NEW a \in Agents
      PROVE  IF Created(x)' THEN MeterStands(x, a)' ELSE usage'[x][a].tokens = 0
  <2>1. CASE x = p
    <3>1. ~Created(p) /\ usage[p][a].tokens = 0 /\ ledger.spent[k.run][a] = 0
      BY <1>2, <1>5 DEF Metered, Created
    <3> QED
      BY <1>1, <1>2, <2>1, <3>1 DEF MeterStands, Created
  <2>2. CASE x # p
    <3>1. pack'[x] = pack[x] /\ (Created(x)' <=> Created(x))
      BY <1>1, <2>2 DEF Created
    <3>2. MeterStands(x, a) => MeterStands(x, a)'
      BY <1>2, <3>1 DEF MeterStands
    <3> QED
      BY <1>2, <3>1, <3>2 DEF Metered
  <2> QED
    BY <2>1, <2>2
<1>9. (\A r \in Runs, a \in Agents :
         (\A x \in PackIds : pack[x].run # r) => ledger.spent[r][a] = 0)'
  <2> SUFFICES ASSUME NEW r \in Runs, NEW a \in Agents, \A x \in PackIds : pack'[x].run # r
               PROVE  ledger.spent[r][a] = 0
    BY <1>2
  <2>1. \A x \in PackIds : pack[x].run # r
    BY <1>1, <1>2
  <2> QED
    BY <2>1 DEF Metered
<1>10. ASSUME NEW d \in Calls PROVE MeterKnown(d)'
  <2>1. CASE d = c
    BY <1>2, <2>1 DEF MeterKnown
  <2>2. CASE d # c
    <3>1. call'[d] = call[d]
      BY <1>1, <2>2
    <3>2. call[d].at \in Charging => PackOf(d)' = PackOf(d)
      BY <1>1, <3>1 DEF PackOf, Charging
    <3> QED
      BY <1>2, <3>1, <3>2, OthersMeter DEF UsageOf
  <2> QED
    BY <2>1, <2>2
<1> QED
  BY <1>2, <1>6, <1>7, <1>8, <1>9, <1>10 DEF Metered

\* A step that writes the pack of its call moves that pack's meter, and its
\* run's rows, for the agent of the call and for nobody else.
LEMMA WriteMeters ==
  ASSUME OnePackPerRun, Typed, LocksHold, Metered, NEW c \in Calls,
         call[c].at \in Charging \/ (call[c].at = "waiting" /\ LockFree(c)),
         OnlyCall(c), OnlyPack(call[c].pack), meterOf' = meterOf,
         pack'[call[c].pack].run = PackOf(c).run, pack'[call[c].pack].meter = PackOf(c).meter,
         \A x \in PackIds, b \in Agents :
           x # call[c].pack \/ b # call[c].agent => usage'[x][b] = usage[x][b],
         \A r \in Runs, b \in Agents :
           r # PackOf(c).run \/ b # call[c].agent => ledger'.spent[r][b] = ledger.spent[r][b],
         usage'[call[c].pack][call[c].agent].tokens <= MaxTokens[call[c].agent],
         usage'[call[c].pack][call[c].agent].requests <= MaxRequests[call[c].agent],
         \/ usage'[call[c].pack][call[c].agent].tokens = ledger'.spent[PackOf(c).run][call[c].agent]
         \/ /\ call'[c].at = "writing" /\ call'[c].pack = call[c].pack
            /\ call'[c].agent = call[c].agent,
         MeterKnown(c)'
  PROVE  Metered'
<1>12. PICK p \in PackIds, a \in Agents, run \in Runs :
         p = call[c].pack /\ a = call[c].agent /\ run = PackOf(c).run
  BY InFlight DEF Charging, CallStates
<1>1. Created(p) /\ pack[p].run = run /\ pack[p].meter = p
  BY <1>12, InFlight DEF Charging, CallStates, Created, Metered
<1>2. \A x \in PackIds : /\ pack'[x].run = pack[x].run /\ pack'[x].meter = pack[x].meter
                         /\ Created(x)' <=> Created(x)
  BY <1>1, <1>12 DEF OnlyPack, Created, PackOf
<1>3. \A d \in Calls : d # c => call'[d] = call[d]
  BY DEF OnlyCall
<1>4. \A d \in Calls : d # c /\ call[d].at \in Charging =>
        call[d].pack # p /\ PackOf(d)' = PackOf(d)
  BY <1>12, OthersUndisturbed
<1>11. /\ \A x \in PackIds, b \in Agents : x # p \/ b # a => usage'[x][b] = usage[x][b]
       /\ \A r \in Runs, b \in Agents :
            r # run \/ b # a => ledger'.spent[r][b] = ledger.spent[r][b]
       /\ usage'[p][a].tokens <= MaxTokens[a] /\ usage'[p][a].requests <= MaxRequests[a]
       /\ \/ usage'[p][a].tokens = ledger'.spent[run][a]
          \/ call'[c].at = "writing" /\ call'[c].pack = p /\ call'[c].agent = a
  BY <1>12
<1>5. \A x \in PackIds : x # p /\ Created(x) => pack[x].run # run
  BY <1>1 DEF OnePackPerRun
<1>6. ASSUME NEW x \in PackIds, NEW b \in Agents
      PROVE  IF Created(x)' THEN MeterStands(x, b)' ELSE usage'[x][b].tokens = 0
  <2>1. CASE x = p /\ b = a
    <3>1. MeterStands(p, a)'
      BY <1>1, <1>2, <1>11 DEF MeterStands
    <3> QED
      BY <1>1, <1>2, <2>1, <3>1
  <2>2. CASE x = p /\ b # a
    <3>1. MeterStands(p, b)
      BY <1>1 DEF Metered
    <3>2. ASSUME NEW d \in Calls, call[d].at = "writing", call[d].pack = p, call[d].agent = b
          PROVE  FALSE
      <4>1. d # c
        BY <1>12, <2>2, <3>2
      <4> QED
        BY <1>4, <3>2, <4>1 DEF Charging
    <3>3. usage[p][b].tokens = ledger.spent[run][b]
      BY <1>1, <3>1, <3>2 DEF MeterStands
    <3>4. usage'[p][b].tokens = ledger'.spent[run][b]
      BY <1>1, <1>11, <2>2, <3>3
    <3>5. MeterStands(p, b)'
      BY <1>1, <1>2, <3>4 DEF MeterStands
    <3> QED
      BY <1>1, <1>2, <2>2, <3>5
  <2>3. CASE x # p
    <3>1. usage'[x][b] = usage[x][b]
      BY <1>11, <2>3
    <3>2. CASE Created(x)
      <4>1. pack[x].run \in Runs /\ pack[x].run # run /\ MeterStands(x, b)
        BY <1>5, <2>3, <3>2 DEF Created, Metered
      <4>2. ledger'.spent[pack[x].run][b] = ledger.spent[pack[x].run][b]
        BY <1>11, <4>1
      <4>3. ASSUME usage[x][b].tokens = ledger.spent[pack[x].run][b] PROVE MeterStands(x, b)'
        BY <1>2, <3>1, <4>2, <4>3 DEF MeterStands
      <4>4. ASSUME \E d \in Calls : /\ call[d].at = "writing" /\ call[d].pack = x
                                    /\ call[d].agent = b
            PROVE  MeterStands(x, b)'
        <5>1. PICK d \in Calls : call[d].at = "writing" /\ call[d].pack = x /\ call[d].agent = b
          BY <4>4
        <5>2. call'[d] = call[d]
          BY <1>3, <1>12, <2>3, <5>1
        <5> QED
          BY <5>1, <5>2 DEF MeterStands
      <4>5. MeterStands(x, b)'
        BY <4>1, <4>3, <4>4 DEF MeterStands
      <4> QED
        BY <1>2, <3>2, <4>5
    <3>3. CASE ~Created(x)
      BY <1>2, <3>1, <3>3 DEF Metered
    <3> QED
      BY <3>2, <3>3
  <2> QED
    BY <2>1, <2>2, <2>3
<1>7. ASSUME NEW d \in Calls PROVE MeterKnown(d)'
  <2>1. CASE d # c /\ call[d].at \in Charging
    <3>1. /\ call'[d] = call[d] /\ PackOf(d)' = PackOf(d) /\ call[d].pack # p
      BY <1>3, <1>4, <2>1
    <3>2. /\ call[d].pack \in PackIds /\ PackOf(d) = pack[call[d].pack] /\ call[d].agent \in Agents
          /\ Created(call[d].pack) /\ PackOf(d).run \in Runs
      BY <2>1, InFlight DEF Charging, CallStates, Created
    <3>3. PackOf(d).meter = call[d].pack /\ PackOf(d).run # run
      BY <1>5, <3>1, <3>2 DEF Metered
    <3>4. usage'[call[d].pack][call[d].agent] = usage[call[d].pack][call[d].agent]
      BY <1>11, <3>1, <3>2
    <3>5. UsageOf(d)' = UsageOf(d)
      BY <3>1, <3>3, <3>4 DEF UsageOf
    <3>6. ledger'.spent[PackOf(d).run][call[d].agent] = ledger.spent[PackOf(d).run][call[d].agent]
      BY <1>11, <3>2, <3>3
    <3> QED
      BY <3>1, <3>5, <3>6, OthersMeter
  <2>2. CASE d # c /\ call[d].at \notin Charging
    BY <1>3, <2>2, OthersMeter
  <2>3. CASE d = c
    BY <2>3
  <2> QED
    BY <2>1, <2>2, <2>3
<1>8. (\A r \in Runs : meterOf[r] # Nothing => pack[meterOf[r]].run = r)'
  <2> SUFFICES ASSUME NEW r \in Runs, meterOf'[r] # Nothing PROVE pack'[meterOf'[r]].run = r
    OBVIOUS
  <2>1. meterOf[r] \in PackIds /\ pack[meterOf[r]].run = r
    BY DEF Metered, Typed, TypeOK
  <2> QED
    BY <1>2, <2>1
<1>9. (\A r \in Runs, b \in Agents :
         (\A x \in PackIds : pack[x].run # r) => ledger.spent[r][b] = 0)'
  <2> SUFFICES ASSUME NEW r \in Runs, NEW b \in Agents, \A x \in PackIds : pack'[x].run # r
               PROVE  ledger'.spent[r][b] = 0
    OBVIOUS
  <2>1. (\A x \in PackIds : pack[x].run # r) /\ r # run
    BY <1>1, <1>2
  <2>2. ledger.spent[r][b] = 0
    BY <2>1 DEF Metered
  <2> QED
    BY <1>11, <2>1, <2>2
<1>10. ASSUME NEW x \in PackIds, NEW b \in Agents
       PROVE  usage'[x][b].tokens <= MaxTokens[b] /\ usage'[x][b].requests <= MaxRequests[b]
  BY <1>11, SMTT(30) DEF Metered
<1>13. (\A x \in PackIds : pack[x].run \in Runs => pack[x].meter = x)'
  BY <1>2 DEF Metered
<1> QED
  BY <1>6, <1>7, <1>8, <1>9, <1>10, <1>13 DEF Metered

LEMMA LockMeters ==
  ASSUME OnePackPerRun, Typed, LocksHold, Metered, NEW c \in Calls, Locks(c)
  PROVE  Metered'
<1>1. /\ PackOf(c) \in Packs /\ call[c] \in CallStates /\ call[c].pack \in PackIds
      /\ PackOf(c) = pack[call[c].pack] /\ call[c].agent \in Agents
      /\ PackOf(c).run \in Runs /\ PackOf(c).meter = call[c].pack
  BY InFlight DEF Locks, CallStates, Metered, Created
<1>2. /\ call[c].at = "waiting" /\ LockFree(c) /\ RequestLeft(c) /\ WithinAllowance(c)
      /\ OnlyCall(c) /\ OnlyPack(call[c].pack) /\ UNCHANGED <<meterOf, usage, ledger>>
  BY DEF Locks
<1>3. /\ pack'[call[c].pack].run = PackOf(c).run /\ pack'[call[c].pack].meter = PackOf(c).meter
  <2> DEFINE k == [PackOf(c) EXCEPT !.lock = c]
  <2>1. k.run = PackOf(c).run /\ k.meter = PackOf(c).meter
    BY <1>1 DEF Packs
  <2>2. pack'[call[c].pack] = k
    BY DEF Locks
  <2> HIDE DEF k
  <2> QED
    BY <2>1, <2>2
<1>4. /\ call'[c].at = "retrieving" /\ call'[c].pack = call[c].pack
      /\ call'[c].agent = call[c].agent /\ call'[c].limit = call[c].limit
  BY <1>1 DEF Locks, CallStates
<1>5. UsageOf(c)' = UsageOf(c)
  BY <1>2, <1>3, <1>4 DEF UsageOf, PackOf
<1>6. MeterKnown(c)'
  BY <1>2, <1>4, <1>5 DEF MeterKnown, RequestLeft, WithinAllowance
<1>7. usage[call[c].pack][call[c].agent].tokens = ledger.spent[PackOf(c).run][call[c].agent]
  <2>1. MeterStands(call[c].pack, call[c].agent)
    BY <1>1 DEF Metered, Created
  <2>2. ASSUME NEW d \in Calls, call[d].at = "writing", call[d].pack = call[c].pack PROVE FALSE
    <3>1. d # c /\ call[c].at # "idle"
      BY <1>2, <2>2
    <3> QED
      BY <1>2, <2>2, <3>1, OthersUndisturbed DEF Charging
  <2> QED
    BY <1>1, <2>1, <2>2 DEF MeterStands
<1>8. /\ usage[call[c].pack][call[c].agent].tokens <= MaxTokens[call[c].agent]
      /\ usage[call[c].pack][call[c].agent].requests <= MaxRequests[call[c].agent]
  BY <1>1 DEF Metered
<1> QED
  BY <1>2, <1>3, <1>6, <1>7, <1>8, WriteMeters

LEMMA ChargeMeters ==
  ASSUME NoExpand, OnePackPerRun, Typed, LocksHold, Metered, NEW c \in Calls,
         NEW found \in SUBSET Cards, NEW tokens \in Nat, NEW requests \in Nat,
         NEW history \in Seq(Answers), Charges(c, found, tokens, requests, history),
         ChargedFor(c, found, tokens, requests, history)
  PROVE  Metered'
<1>1. /\ call[c].pack \in PackIds /\ call[c].agent \in Agents /\ call[c].limit \in Nat
      /\ PackOf(c) = pack[call[c].pack] /\ PackOf(c).run \in Runs
      /\ PackOf(c).meter = call[c].pack
      /\ UsageOf(c) = usage[call[c].pack][call[c].agent] /\ UsageOf(c) \in Usage
  BY InFlight DEF Charges, CallStates, Metered, Created
<1>2. /\ call[c].at = "retrieving" \/ (call[c].at = "waiting" /\ LockFree(c))
      /\ OnlyCall(c) /\ OnlyPack(call[c].pack) /\ UNCHANGED <<meterOf, ledger>>
      /\ pack'[call[c].pack].run = PackOf(c).run /\ pack'[call[c].pack].meter = PackOf(c).meter
      /\ call'[c].at = "writing" /\ call'[c].pack = call[c].pack
      /\ call'[c].agent = call[c].agent /\ call'[c].tokens = tokens
      /\ call'[c].before = Snapshot(c)
  BY DEF Charges
<1>3. UsageOf(c).requests + requests <= MaxRequests[call[c].agent]
  <2>1. CASE requests = 1 /\ call[c].at = "retrieving"
    BY <2>1 DEF Metered, MeterKnown, RequestLeft
  <2>2. CASE requests = 0
    <3>1. UsageOf(c).requests <= MaxRequests[call[c].agent] /\ UsageOf(c).requests \in Nat
      BY <1>1 DEF Metered, Usage
    <3> QED
      BY <2>2, <3>1
  <2> QED
    BY <2>1, <2>2 DEF ChargedFor, Metered, MeterKnown, NoExpand
<1>4. UsageOf(c).tokens + tokens <= MaxTokens[call[c].agent]
  <2>1. WithinAllowance(c) /\ tokens <= call[c].limit
    BY <1>1 DEF ChargedFor, Metered, MeterKnown, NoExpand
  <2>2. UsageOf(c).tokens \in Nat /\ MaxTokens[call[c].agent] \in Nat
    BY <1>1 DEF Usage
  <2>3. UsageOf(c).tokens + call[c].limit <= MaxTokens[call[c].agent]
    BY <2>1 DEF WithinAllowance
  <2>4. \A w, x, y, z \in Nat : w + y <= z /\ x <= y => w + x <= z
    OBVIOUS
  <2> QED
    BY <1>1, <2>1, <2>2, <2>3, <2>4
<1> DEFINE u == [requests |-> UsageOf(c).requests + requests, tokens |-> UsageOf(c).tokens + tokens]
<1>5. u.requests = UsageOf(c).requests + requests /\ u.tokens = UsageOf(c).tokens + tokens
  OBVIOUS
<1>6. usage' = [usage EXCEPT ![call[c].pack][call[c].agent] = u]
  BY <1>1 DEF Charges
<1> HIDE DEF u
<1>7. /\ usage'[call[c].pack][call[c].agent] = u
      /\ \A x \in PackIds, b \in Agents :
           x # call[c].pack \/ b # call[c].agent => usage'[x][b] = usage[x][b]
  BY <1>1, <1>6 DEF Typed, TypeOK
<1>8. usage[call[c].pack][call[c].agent].tokens = ledger.spent[PackOf(c).run][call[c].agent]
  <2>1. MeterStands(call[c].pack, call[c].agent)
    BY <1>1 DEF Metered, Created
  <2>2. ASSUME NEW d \in Calls, call[d].at = "writing", call[d].pack = call[c].pack PROVE FALSE
    <3>1. d # c /\ call[c].at # "idle"
      BY <1>2, <2>2
    <3> QED
      BY <1>2, <2>2, <3>1, OthersUndisturbed DEF Charging
  <2> QED
    BY <1>1, <2>1, <2>2 DEF MeterStands
<1>9. call'[c].before.usage = UsageOf(c)
  BY <1>2 DEF Snapshot
<1>10. UsageOf(c)' = u /\ PackOf(c)'.run = PackOf(c).run
  BY <1>1, <1>2, <1>7 DEF UsageOf, PackOf
<1>11. UsageOf(c).requests <= MaxRequests[call[c].agent]
  BY <1>1 DEF Metered
<1>12. MeterKnown(c)'
  BY <1>1, <1>2, <1>5, <1>8, <1>9, <1>10, <1>11 DEF MeterKnown
<1> QED
  BY <1>2, <1>3, <1>4, <1>5, <1>7, <1>12, WriteMeters DEF Charging

LEMMA SettlingMeters ==
  ASSUME NoCancel, OnePackPerRun, Typed, LocksHold, Metered, NEW c \in Calls, Settles(c)
  PROVE  Metered'
<1>1. /\ call[c].pack \in PackIds /\ call[c].agent \in Agents /\ call[c].tokens \in Nat
      /\ PackOf(c) \in Packs /\ PackOf(c) = pack[call[c].pack] /\ PackOf(c).run \in Runs
      /\ PackOf(c).meter = call[c].pack
      /\ UsageOf(c) = usage[call[c].pack][call[c].agent]
  BY InFlight DEF Settles, Charging, CallStates, Metered, Created
<1>2. /\ call[c].at \in Charging /\ OnlyCall(c) /\ OnlyPack(call[c].pack)
      /\ UNCHANGED <<meterOf, usage>>
      /\ call'[c].at = "idle" /\ pack'[call[c].pack] = Unlocked(PackOf(c))
      /\ \/ ledger' = ledger /\ call[c].at = "retrieving"
         \/ ledger' = Rows(c) /\ call[c].at = "writing"
  BY DEF Settles, NoCancel, Charging
<1>3. /\ pack'[call[c].pack].run = PackOf(c).run /\ pack'[call[c].pack].meter = PackOf(c).meter
  BY <1>1, <1>2, UnlockedIsTyped
<1>4. MeterKnown(c)'
  BY <1>2 DEF MeterKnown
<1>5. /\ usage[call[c].pack][call[c].agent].tokens <= MaxTokens[call[c].agent]
      /\ usage[call[c].pack][call[c].agent].requests <= MaxRequests[call[c].agent]
  BY <1>1 DEF Metered
<1>6. CASE ledger' = ledger /\ call[c].at = "retrieving"
  <2>1. MeterStands(call[c].pack, call[c].agent)
    BY <1>1 DEF Metered, Created
  <2>2. ASSUME NEW d \in Calls, call[d].at = "writing", call[d].pack = call[c].pack PROVE FALSE
    <3>1. d # c
      BY <1>6, <2>2
    <3> QED
      BY <1>2, <2>2, <3>1, OthersUndisturbed DEF Charging
  <2>3. usage[call[c].pack][call[c].agent].tokens = ledger.spent[PackOf(c).run][call[c].agent]
    BY <1>1, <2>1, <2>2 DEF MeterStands
  <2> QED
    BY <1>2, <1>3, <1>4, <1>5, <1>6, <2>3, WriteMeters
<1>7. CASE ledger' = Rows(c) /\ call[c].at = "writing"
  <2>1. ledger'.spent = [ledger.spent EXCEPT ![PackOf(c).run][call[c].agent] =
                           ledger.spent[PackOf(c).run][call[c].agent] + call[c].tokens]
    BY <1>7 DEF Rows
  <2>2. /\ ledger'.spent[PackOf(c).run][call[c].agent] =
              ledger.spent[PackOf(c).run][call[c].agent] + call[c].tokens
        /\ \A r \in Runs, b \in Agents :
             r # PackOf(c).run \/ b # call[c].agent => ledger'.spent[r][b] = ledger.spent[r][b]
    <3> DEFINE f == ledger.spent
               n == f[PackOf(c).run][call[c].agent] + call[c].tokens
    <3>1. f \in [Runs -> [Agents -> Nat]]
      BY DEF Typed, TypeOK, Ledgers
    <3>2. ledger'.spent = [f EXCEPT ![PackOf(c).run][call[c].agent] = n]
      BY <2>1
    <3> HIDE DEF f, n
    <3>3. /\ ledger'.spent[PackOf(c).run][call[c].agent] = n
          /\ \A r \in Runs, b \in Agents :
               r # PackOf(c).run \/ b # call[c].agent => ledger'.spent[r][b] = f[r][b]
      BY <1>1, <3>1, <3>2, SMTT(30)
    <3> QED
      BY <3>3 DEF f, n
  <2>3. usage[call[c].pack][call[c].agent].tokens
          = ledger.spent[PackOf(c).run][call[c].agent] + call[c].tokens
    BY <1>1, <1>7 DEF Metered, MeterKnown
  <2> QED
    BY <1>2, <1>3, <1>4, <1>5, <2>2, <2>3, WriteMeters
<1> QED
  BY <1>2, <1>6, <1>7

LEMMA RefundMeters ==
  ASSUME OnePackPerRun, Typed, LocksHold, Metered, NEW c \in Calls, Refunds(c)
  PROVE  Metered'
<1>1. /\ call[c].at = "writing" /\ OnlyCall(c) /\ OnlyPack(call[c].pack)
      /\ UNCHANGED <<meterOf, ledger>> /\ call'[c].at = "idle"
  BY DEF Refunds
<1>2. /\ call[c].pack \in PackIds /\ call[c].agent \in Agents /\ call[c].tokens \in Nat
      /\ PackOf(c) = pack[call[c].pack] /\ PackOf(c).run \in Runs
      /\ PackOf(c).meter = call[c].pack /\ call[c].before.usage \in Usage
      /\ UsageOf(c) = usage[call[c].pack][call[c].agent]
  BY <1>1, InFlight DEF CallStates, Snapshots, Metered, Created
<1>3. /\ pack'[call[c].pack].run = PackOf(c).run /\ pack'[call[c].pack].meter = PackOf(c).meter
  <2> DEFINE k == RestoredPack(c)
  <2>1. /\ k \in Packs /\ k.run = PackOf(c).run /\ k.meter = PackOf(c).meter
    BY <1>1, RestoredIsTyped
  <2>2. pack'[call[c].pack] = Unlocked(k)
    BY DEF Refunds
  <2> HIDE DEF k
  <2> QED
    BY <2>1, <2>2, UnlockedIsTyped
<1>4. usage' = [usage EXCEPT ![call[c].pack][call[c].agent] = call[c].before.usage]
  BY <1>2 DEF Refunds
<1>5. /\ usage'[call[c].pack][call[c].agent] = call[c].before.usage
      /\ \A x \in PackIds, b \in Agents :
           x # call[c].pack \/ b # call[c].agent => usage'[x][b] = usage[x][b]
  BY <1>2, <1>4 DEF Typed, TypeOK
<1>6. /\ call[c].before.usage.tokens = ledger.spent[PackOf(c).run][call[c].agent]
      /\ usage[call[c].pack][call[c].agent].tokens = call[c].before.usage.tokens + call[c].tokens
      /\ call[c].before.usage.requests <= MaxRequests[call[c].agent]
      /\ usage[call[c].pack][call[c].agent].tokens <= MaxTokens[call[c].agent]
  BY <1>1, <1>2 DEF Metered, MeterKnown
<1>7. call[c].before.usage.tokens <= MaxTokens[call[c].agent]
  <2>1. call[c].before.usage.tokens \in Nat /\ MaxTokens[call[c].agent] \in Nat
    BY <1>2 DEF Usage
  <2> QED
    BY <1>2, <1>6, <2>1, SMTT(30)
<1>8. MeterKnown(c)'
  BY <1>1 DEF MeterKnown
<1> QED
  BY <1>1, <1>3, <1>5, <1>6, <1>7, <1>8, WriteMeters DEF Charging

LEMMA MeteredStep ==
  NoExpand /\ NoCancel /\ Typed /\ LocksHold /\ Metered /\ OnePackPerRun /\ OnePackPerRun' /\ [Next]_vars
    => Metered'
<1> SUFFICES ASSUME NoExpand, NoCancel, Typed, LocksHold, Metered, OnePackPerRun,
                    OnePackPerRun', [Next]_vars
             PROVE  Metered'
  OBVIOUS
<1>1. CASE StandsStill
  <2>1. UNCHANGED <<pack, meterOf, usage, call, ledger>>
    BY <1>1 DEF StandsStill
  <2>2. \A p \in PackIds, a \in Agents : MeterStands(p, a) => MeterStands(p, a)'
    BY <2>1 DEF MeterStands
  <2>3. \A c \in Calls : MeterKnown(c) => MeterKnown(c)'
    BY <2>1 DEF MeterKnown, RequestLeft, WithinAllowance, UsageOf, PackOf
  <2>4. \A p \in PackIds : Created(p)' <=> Created(p)
    BY <2>1 DEF Created
  <2> QED
    BY <2>1, <2>2, <2>3, <2>4 DEF Metered
<1>2. ASSUME NEW c \in Calls, Does(c) PROVE Metered'
  <2>1. CASE Passes(c)
    BY <2>1, QuietStepsMeter DEF Passes, Charging
  <2>2. CASE \E p \in PackIds, k \in Packs : Born(c, p, k)
    BY <2>2, BirthMeters, Zenon
  <2>3. CASE StorePack(c)
    <3>1. /\ Return(c) /\ pack' = pack /\ usage' = usage /\ call[c].at # "writing"
          /\ ledger' = [ledger EXCEPT !.paid = [@ EXCEPT ![call[c].pack] = call[c].tokens],
                                      !.served = [@ EXCEPT ![call[c].pack] = call[c].found]]
          /\ \/ meterOf' = [meterOf EXCEPT ![pack[Head(stored)].run] = Nothing]
             \/ meterOf' = meterOf
      BY <2>3 DEF StorePack, Create
    <3>2. ledger'.spent = ledger.spent
      BY <3>1 DEF Typed, TypeOK, Ledgers
    <3>3. OnlyCall(c) /\ call'[c].at = "idle"
      BY <3>1, Returned DEF Typed, OnlyCall
    <3>4. \A r \in Runs : meterOf'[r] = meterOf[r] \/ meterOf'[r] = Nothing
      BY <3>1 DEF Typed, TypeOK
    <3> QED
      BY <3>1, <3>2, <3>3, <3>4, QuietStepsMeter
  <2>4. CASE Locks(c) \/ Settles(c) \/ Refunds(c)
    BY <2>4, LockMeters, SettlingMeters, RefundMeters
  <2>5. CASE \E found \in SUBSET Cards, tokens \in Nat, requests \in Nat, history \in Seq(Answers) :
               /\ Charges(c, found, tokens, requests, history)
               /\ ChargedFor(c, found, tokens, requests, history)
    BY <2>5, ChargeMeters, Zenon
  <2> QED
    BY <1>2, <2>1, <2>2, <2>3, <2>4, <2>5, Zenon DEF Does
<1> QED
  BY <1>1, <1>2, EveryStep

LEMMA MeteredStart == Init => Metered
<1> SUFFICES ASSUME Init PROVE Metered
  OBVIOUS
<1>1. /\ \A c \in Calls : call[c].at = "idle"
      /\ \A p \in PackIds : pack[p].run = Nothing
      /\ \A r \in Runs : meterOf[r] = Nothing
      /\ \A p \in PackIds, a \in Agents : usage[p][a].tokens = 0 /\ usage[p][a].requests = 0
      /\ \A r \in Runs, a \in Agents : ledger.spent[r][a] = 0
  BY IdleIsTyped DEF Init, NoPack, Unused
<1>2. \A p \in PackIds : ~Created(p)
  BY <1>1 DEF Created
<1>3. \A a \in Agents : 0 <= MaxTokens[a] /\ 0 <= MaxRequests[a]
  OBVIOUS
<1> QED
  BY <1>1, <1>2, <1>3 DEF Metered, MeterKnown

\* What a meter and the ledger say of a run, between its calls.
LEMMA MetersAgree == Typed /\ LocksHold /\ Metered => MetersMatchLedger /\ AllowanceHolds
<1> SUFFICES ASSUME Typed, LocksHold, Metered PROVE MetersMatchLedger /\ AllowanceHolds
  OBVIOUS
<1>1. ASSUME NEW r \in Runs, meterOf[r] # Nothing, Quiet(r), NEW a \in Agents
      PROVE  usage[meterOf[r]][a].tokens = ledger.spent[r][a]
  <2>1. PICK p \in PackIds : p = meterOf[r] /\ pack[p].run = r
    BY <1>1 DEF Metered, Typed, TypeOK
  <2>2. pack[p].lock = Nothing
    BY <1>1, <2>1 DEF Quiet
  <2>3. ASSUME NEW d \in Calls, call[d].at = "writing", call[d].pack = p PROVE FALSE
    <3>1. pack[p].lock = d /\ d # Nothing
      BY <2>3 DEF LocksHold, Charging, PackOf
    <3> QED
      BY <2>2, <3>1
  <2>4. MeterStands(p, a)
    BY <2>1 DEF Metered, Created
  <2> QED
    BY <2>1, <2>3, <2>4 DEF MeterStands
<1>2. ASSUME NEW r \in Runs, NEW a \in Agents PROVE ledger.spent[r][a] <= MaxTokens[a]
  <2>1. CASE \A p \in PackIds : pack[p].run # r
    BY <2>1 DEF Metered
  <2>2. ASSUME NEW p \in PackIds, pack[p].run = r PROVE ledger.spent[r][a] <= MaxTokens[a]
    <3>1. MeterStands(p, a) /\ usage[p][a].tokens <= MaxTokens[a] /\ pack[p].meter = p
      BY <2>2 DEF Metered, Created
    <3>2. CASE usage[p][a].tokens = ledger.spent[r][a]
      BY <3>1, <3>2
    <3>3. ASSUME NEW c \in Calls, call[c].at = "writing", call[c].pack = p, call[c].agent = a
          PROVE  ledger.spent[r][a] <= MaxTokens[a]
      <4>1. /\ call[c].before.usage.tokens = ledger.spent[r][a]
            /\ usage[p][a].tokens = call[c].before.usage.tokens + call[c].tokens
        BY <2>2, <3>1, <3>3 DEF Metered, MeterKnown, PackOf, UsageOf
      <4>2. /\ call[c].before.usage.tokens \in Nat /\ call[c].tokens \in Nat
            /\ MaxTokens[a] \in Nat
        BY <3>3, InFlight DEF CallStates, Snapshots, Usage
      <4> QED
        BY <3>1, <4>1, <4>2, SMTT(30)
    <3> QED
      BY <2>2, <3>1, <3>2, <3>3 DEF MeterStands
  <2> QED
    BY <2>1, <2>2
<1> QED
  BY <1>1, <1>2 DEF MetersMatchLedger, AllowanceHolds, Metered

\* Where clients call request_more and open_evidence, nobody goes away in the
\* middle of a call, and no run packs twice: what a call charged to its pack and
\* to its agent's meter is exactly what the ledger says it was served, and no
\* agent is served beyond its allowance, whichever calls of which agents
\* interleave, fail and are refunded (state.py, snapshot and restore; budgets.py).
THEOREM LedgersStayTogether ==
  NoExpand /\ NoCancel => (Spec /\ []OnePackPerRun => []LedgersAgree)
<1> SUFFICES ASSUME NoExpand, NoCancel PROVE Spec /\ []OnePackPerRun => []LedgersAgree
  OBVIOUS
<1> DEFINE I == Typed /\ LocksHold /\ Balanced /\ Metered
<1>1. Init => I
  BY Start, LocksHoldStart, BalancedStart, MeteredStart
<1>2. I /\ OnePackPerRun /\ OnePackPerRun' /\ [Next]_vars => I'
  BY TypedStep, LocksHoldStep, BalancedStep, MeteredStep
<1>3. I => LedgersAgree
  BY MetersAgree DEF Balanced, LedgersAgree
<1> HIDE DEF I
<1> QED
  BY <1>1, <1>2, <1>3, PTL DEF Spec
------------------------------------------------------------------------------
\* The store holds no pack twice.
NoTwice(s) == \A i, j \in DOMAIN s : s[i] = s[j] => i = j

\* A touch changes the order of the packs only.
LEMMA TouchKeepsOrder ==
  ASSUME stored \in Seq(PackIds), NEW p \in Stored, NoTwice(stored)
  PROVE  NoTwice(Touched(p))
<1> DEFINE n == Len(stored)
           k == Position(p)
           from(i) == IF i < k THEN i ELSE IF i = n THEN k ELSE i + 1
<1>1. n \in Nat /\ DOMAIN stored = 1 .. n
  OBVIOUS
<1>2. k \in 1 .. n /\ stored[k] = p
  BY <1>1 DEF Position, Stored
<1>3. DOMAIN Touched(p) = 1 .. n
  BY <1>1 DEF Touched
<1>4. ASSUME NEW i \in 1 .. n
      PROVE  from(i) \in 1 .. n /\ Touched(p)[i] = stored[from(i)]
  <2>1. Touched(p)[i] = IF i < k THEN stored[i] ELSE IF i = n THEN p ELSE stored[i + 1]
    BY <1>1 DEF Touched
  <2> HIDE DEF n, k
  <2> QED
    BY <1>1, <1>2, <2>1
<1>5. ASSUME NEW i \in 1 .. n, NEW j \in 1 .. n, from(i) = from(j)
      PROVE  i = j
  <2> HIDE DEF n, k
  <2> QED
    BY <1>1, <1>2, <1>5
<1> HIDE DEF n, k, from
<1>6. ASSUME NEW i \in 1 .. n, NEW j \in 1 .. n, Touched(p)[i] = Touched(p)[j]
      PROVE  i = j
  <2>1. stored[from(i)] = stored[from(j)] /\ from(i) \in 1 .. n /\ from(j) \in 1 .. n
    BY <1>4, <1>6
  <2>2. from(i) = from(j)
    BY <1>1, <2>1 DEF NoTwice
  <2> QED
    BY <1>5, <2>2
<1> QED
  BY <1>3, <1>6 DEF NoTwice

\* What a create leaves in the store: the new pack, and the packs it was not
\* full of, the least recently used one being the only pack to go.
LEMMA CreateKeepsOrder ==
  ASSUME stored \in Seq(PackIds), NoTwice(stored), NEW p \in PackIds, p \notin Stored, Create(p)
  PROVE  /\ NoTwice(stored')
         /\ \A q \in Stored' : q = p \/ (q \in Stored /\ (Full => q # Head(stored)))
<1>0. \A i \in 1 .. Len(stored) : stored[i] \in Stored
  BY DEF Stored
<1> DEFINE s == IF Full THEN Tail(stored) ELSE stored
<1>1. /\ s \in Seq(PackIds) /\ NoTwice(s)
      /\ \A i \in 1 .. Len(s) : s[i] \in Stored /\ (Full => s[i] # Head(stored))
  <2>1. CASE Full
    <3>1. stored # <<>>
      BY <2>1 DEF Full
    <3>2. /\ Tail(stored) \in Seq(PackIds)
          /\ Len(Tail(stored)) = Len(stored) - 1 /\ Head(stored) = stored[1]
          /\ \A i \in 1 .. Len(Tail(stored)) : Tail(stored)[i] = stored[i + 1]
      BY <3>1, HeadTailProperties
    <3> DEFINE t == Tail(stored)
    <3>3. Len(stored) \in Nat /\ DOMAIN stored = 1 .. Len(stored) /\ Len(stored) # 0
      BY <3>1
    <3>4. t \in Seq(PackIds) /\ Len(t) = Len(stored) - 1 /\ DOMAIN t = 1 .. Len(t)
          /\ \A i \in 1 .. Len(t) : t[i] = stored[i + 1]
      BY <3>2
    <3> HIDE DEF t
    <3>5. \A i \in 1 .. Len(t) : i + 1 \in 1 .. Len(stored) /\ i + 1 # 1
      BY <3>3, <3>4
    <3>6. \A i, j \in 1 .. Len(stored) : stored[i] = stored[j] => i = j
      BY <3>3 DEF NoTwice
    <3>7. ASSUME NEW i \in 1 .. Len(t), NEW j \in 1 .. Len(t), t[i] = t[j]
          PROVE  i = j
      <4>1. i + 1 = j + 1
        BY <3>4, <3>5, <3>6, <3>7
      <4> QED
        BY <3>3, <3>4, <4>1
    <3>8. \A i \in 1 .. Len(t) : t[i] \in Stored /\ t[i] # stored[1]
      <4>1. 1 \in 1 .. Len(stored)
        BY <3>3
      <4> QED
        BY <1>0, <3>4, <3>5, <3>6, <4>1
    <3>9. NoTwice(t)
      BY <3>4, <3>7 DEF NoTwice
    <3> QED
      BY <2>1, <3>2, <3>4, <3>8, <3>9 DEF t
  <2>2. CASE ~Full
    BY <1>0, <2>2
  <2> QED
    BY <2>1, <2>2
<1>2. stored' = Append(s, p)
  BY DEF Create
<1> HIDE DEF s
<1>3. /\ DOMAIN stored' = 1 .. Len(s) + 1 /\ DOMAIN s = 1 .. Len(s) /\ Len(s) \in Nat
      /\ \A i \in 1 .. Len(s) + 1 : stored'[i] = IF i <= Len(s) THEN s[i] ELSE p
  BY <1>1, <1>2
<1>4. \A i \in 1 .. Len(s) : s[i] # p
  BY <1>1
<1>5. NoTwice(stored')
  BY <1>1, <1>3, <1>4 DEF NoTwice
<1>6. \A q \in Stored' : q = p \/ \E i \in 1 .. Len(s) : q = s[i]
  BY <1>1, <1>2, AppendKeepsPacks
<1> QED
  BY <1>1, <1>5, <1>6

\* The store only changes by a touch or by a create.
LEMMA StoreStep ==
  ASSUME [Next]_vars
  PROVE  \/ stored' = stored
         \/ \E p \in Stored : stored' = Touched(p)
         \/ \E c \in Calls : StorePack(c)
<1>1. ASSUME NEW c \in Calls, NEW p, NEW t, NEW a, NEW q, NEW limit, NEW found, NEW tokens,
             Arrive(c, p, t, a, q, limit, found, tokens)
      PROVE  \E x \in Stored : stored' = Touched(x)
  BY <1>1 DEF Arrive
<1>2. ASSUME NEW c \in Calls, ArriveMore(c) \/ ArriveOpen(c) \/ ArriveExpand(c)
      PROVE  \E x \in Stored : stored' = Touched(x)
  BY <1>1, <1>2, Zenon DEF ArriveMore, ArriveOpen, ArriveExpand
<1>3. ASSUME NEW c \in Calls, CreatePack(c) \/ Acquire(c) \/ Cancel(c)
      PROVE  stored' = stored
  BY <1>3 DEF CreatePack, Acquire, Cancel, Reuse, RefuseMore, Retrieve, ChargeOpen, RefuseOpen,
     ChargeExpand, Charge
<1>4. ASSUME NEW c \in Calls, Resume(c)
      PROVE  stored' = stored \/ StorePack(c)
  BY <1>4 DEF Resume, ChargeMore, Charge, LedgerLands, CallRaises
<1> QED
  BY <1>2, <1>3, <1>4 DEF Next, ReadPack, ActivateNext, vars

\* A pack that is being made is not in the store yet, and nobody else works on it.
Apart(c) ==
    call[c].at = "creating" =>
      /\ call[c].pack \notin Stored
      /\ \A d \in Calls : d # c /\ call[d].at # "idle" => call[d].pack # call[c].pack

Arranged == NoTwice(stored) /\ \A c \in Calls : Apart(c)

LEMMA ArrangedStart == Init => Arranged
BY IdleIsTyped DEF Init, Arranged, NoTwice, Apart

\* Packs being made stay apart when another call only takes up a pack of the
\* store, stays at its own, or goes.
LEMMA ApartKept ==
  ASSUME Arranged, NEW c \in Calls, OnlyCall(c), call'[c].at # "creating",
         \A q \in Stored' : q \in Stored \/ (call[c].at = "creating" /\ q = call[c].pack),
         \/ call'[c].at = "idle"
         \/ call'[c].pack \in Stored
         \/ call[c].at # "idle" /\ call'[c].pack = call[c].pack
  PROVE  \A d \in Calls : Apart(d)'
<1> SUFFICES ASSUME NEW d \in Calls, call'[d].at = "creating"
             PROVE  /\ call'[d].pack \notin Stored'
                    /\ \A e \in Calls : e # d /\ call'[e].at # "idle" =>
                         call'[e].pack # call'[d].pack
  BY DEF Apart
<1>1. d # c /\ call'[d] = call[d]
  BY DEF OnlyCall
<1>2. /\ call[d].pack \notin Stored
      /\ \A e \in Calls : e # d /\ call[e].at # "idle" => call[e].pack # call[d].pack
  BY <1>1 DEF Arranged, Apart
<1>3. call'[d].pack \notin Stored'
  BY <1>1, <1>2
<1>4. call'[c].at # "idle" => call'[c].pack # call[d].pack
  BY <1>1, <1>2
<1>5. \A e \in Calls : e # c => call'[e] = call[e]
  BY DEF OnlyCall
<1> QED
  BY <1>1, <1>2, <1>3, <1>4, <1>5

LEMMA ArrangedStep == Typed /\ Arranged /\ [Next]_vars => Arranged'
<1> SUFFICES ASSUME Typed, Arranged, [Next]_vars PROVE Arranged'
  OBVIOUS
<1>0. stored \in Seq(PackIds) /\ Len(stored) <= MaxPacks
  BY DEF Typed, TypeOK
<1>1. NoTwice(stored')
  <2>1. CASE stored' = stored
    BY <2>1 DEF Arranged, NoTwice
  <2>2. ASSUME NEW p \in Stored, stored' = Touched(p) PROVE NoTwice(stored')
    BY <1>0, <2>2, TouchKeepsOrder DEF Arranged
  <2>3. ASSUME NEW c \in Calls, StorePack(c) PROVE NoTwice(stored')
    <3>1. call[c].at = "creating" /\ Create(call[c].pack)
      BY <2>3 DEF StorePack
    <3>2. call[c].pack \in PackIds /\ call[c].pack \notin Stored
      BY <3>1, InFlight DEF Arranged, Apart
    <3> QED
      BY <1>0, <3>1, <3>2, CreateKeepsOrder DEF Arranged
  <2> QED
    BY <2>1, <2>2, <2>3, StoreStep
<1>2. CASE StandsStill
  BY <1>1, <1>2 DEF StandsStill, Arranged, Apart
<1>3. ASSUME NEW c \in Calls, Does(c) PROVE \A d \in Calls : Apart(d)'
  <2>1. CASE Passes(c)
    BY <2>1, ApartKept DEF Passes
  <2>2. CASE \E p \in PackIds, k \in Packs : Born(c, p, k)
    <3>1. PICK p \in PackIds, k \in Packs : Born(c, p, k)
      BY <2>2, Zenon
    <3>2. /\ call'[c].at = "creating" /\ call'[c].pack = p /\ Stored' = Stored
          /\ p \notin Stored /\ \A d \in Calls : d # c => call'[d] = call[d]
          /\ \A d \in Calls : call[d].at # "idle" => call[d].pack # p
      <4>1. call'[c].at = "creating" /\ call'[c].pack = p /\ Stored' = Stored
        BY <3>1 DEF Born, Stored
      <4>2. p \notin Stored /\ \A d \in Calls : d # c => call'[d] = call[d]
        BY <3>1, BornAlone
      <4>3. \A d \in Calls : call[d].at # "idle" => call[d].pack # p
        BY <3>1, BornAlone
      <4> QED
        BY <4>1, <4>2, <4>3
    <3>3. Apart(c)'
      BY <3>2 DEF Apart
    <3>4. ASSUME NEW d \in Calls, d # c PROVE Apart(d)'
      BY <3>2, <3>4 DEF Arranged, Apart
    <3> QED
      BY <3>3, <3>4
  <2>3. CASE StorePack(c)
    <3>1. /\ call[c].at = "creating" /\ Create(call[c].pack) /\ call[c].pack \in PackIds
          /\ OnlyCall(c) /\ call'[c].at = "idle"
      BY <2>3, InFlight, Returned DEF StorePack, Typed, OnlyCall
    <3>2. Stored' \subseteq Stored \cup {call[c].pack}
      BY <1>0, <3>1, CreateKeepsLimit
    <3> QED
      BY <3>1, <3>2, ApartKept
  <2>4. CASE Locks(c)
    <3>1. /\ call[c] \in CallStates /\ call[c].at # "idle" /\ Stored' = Stored
          /\ call'[c] = [call[c] EXCEPT !.at = "retrieving"] /\ OnlyCall(c)
      BY <2>4, InFlight DEF Locks, Stored
    <3>2. call'[c].at = "retrieving" /\ call'[c].pack = call[c].pack
      BY <3>1 DEF CallStates
    <3> QED
      BY <3>1, <3>2, ApartKept
  <2>5. CASE \E found \in SUBSET Cards, tokens \in Nat, requests \in Nat, history \in Seq(Answers) :
               /\ Charges(c, found, tokens, requests, history)
               /\ ChargedFor(c, found, tokens, requests, history)
    <3>1. PICK found \in SUBSET Cards, tokens \in Nat, requests \in Nat, history \in Seq(Answers) :
            Charges(c, found, tokens, requests, history)
      BY <2>5
    <3>2. /\ call[c].at # "idle" /\ Stored' = Stored /\ OnlyCall(c)
          /\ call'[c].at = "writing" /\ call'[c].pack = call[c].pack
      BY <3>1 DEF Charges, Stored
    <3> QED
      BY <3>2, ApartKept
  <2>6. CASE Settles(c) \/ Refunds(c)
    <3>1. Stored' = Stored /\ OnlyCall(c) /\ call'[c].at = "idle"
      BY <2>6 DEF Settles, Refunds, Stored
    <3> QED
      BY <3>1, ApartKept
  <2> QED
    BY <1>3, <2>1, <2>2, <2>3, <2>4, <2>5, <2>6 DEF Does
<1> QED
  BY <1>1, <1>2, <1>3, EveryStep DEF Arranged

\* Pack p can be found, or is about to be.
Kept(p) == p \in Stored \/ \E c \in Calls : call[c].at = "creating" /\ call[c].pack = p

\* Packs that can be found, or are about to be, use the meter of their run.
Shared == \A p \in PackIds : Kept(p) => pack[p].meter = meterOf[pack[p].run]

\* A pack that is evicted with the meter of its run leaves no pack of that run
\* about to be stored: a create chose the meter before its ledger write.
EvictionSpares ==
    Full /\ RunUnreferenced(Head(stored)) =>
      \A c \in Calls : call[c].at = "creating" => PackOf(c).run # pack[Head(stored)].run

\* Only a create chooses a meter.
LEMMA MetersKept ==
  ASSUME Typed, NEW c \in Calls, Does(c), ~StorePack(c),
         ~ \E p \in PackIds, k \in Packs : Born(c, p, k)
  PROVE  /\ \A x \in PackIds : pack'[x].run = pack[x].run /\ pack'[x].meter = pack[x].meter
         /\ meterOf' = meterOf
         /\ Stored' \subseteq Stored /\ OnlyCall(c) /\ call'[c].at # "creating"
<1>1. CASE Passes(c)
  BY <1>1 DEF Passes
<1>2. CASE Locks(c)
  <2>1. /\ PackOf(c) \in Packs /\ call[c] \in CallStates /\ call[c].pack \in PackIds
        /\ PackOf(c) = pack[call[c].pack]
    BY <1>2, InFlight DEF Locks
  <2>2. /\ OnlyPack(call[c].pack) /\ pack'[call[c].pack] = [PackOf(c) EXCEPT !.lock = c]
        /\ OnlyCall(c) /\ call'[c] = [call[c] EXCEPT !.at = "retrieving"]
        /\ meterOf' = meterOf /\ Stored' = Stored
    BY <1>2 DEF Locks, Stored
  <2>3. /\ pack'[call[c].pack].run = pack[call[c].pack].run
        /\ pack'[call[c].pack].meter = pack[call[c].pack].meter
    BY <2>1, <2>2 DEF Packs
  <2> QED
    BY <2>1, <2>2, <2>3 DEF OnlyPack, CallStates
<1>3. CASE \E found \in SUBSET Cards, tokens \in Nat, requests \in Nat, history \in Seq(Answers) :
             /\ Charges(c, found, tokens, requests, history)
             /\ ChargedFor(c, found, tokens, requests, history)
  <2>1. PICK found \in SUBSET Cards, tokens \in Nat, requests \in Nat, history \in Seq(Answers) :
          Charges(c, found, tokens, requests, history)
    BY <1>3
  <2>2. PackOf(c) = pack[call[c].pack] /\ call[c].pack \in PackIds
    BY <2>1, InFlight DEF Charges
  <2> QED
    BY <2>1, <2>2 DEF Charges, OnlyPack, Stored
<1>4. CASE Settles(c) \/ Refunds(c)
  <2>1. /\ PackOf(c) \in Packs /\ call[c].pack \in PackIds /\ PackOf(c) = pack[call[c].pack]
    BY <1>4, InFlight DEF Settles, Refunds, Charging
  <2>2. \E k \in Packs : /\ k.run = PackOf(c).run /\ k.meter = PackOf(c).meter
                         /\ pack'[call[c].pack] = Unlocked(k)
    <3>1. CASE Settles(c)
      BY <2>1, <3>1 DEF Settles
    <3>2. CASE Refunds(c)
      BY <3>2, RestoredIsTyped DEF Refunds
    <3> QED
      BY <1>4, <3>1, <3>2
  <2>3. /\ pack'[call[c].pack].run = PackOf(c).run /\ pack'[call[c].pack].meter = PackOf(c).meter
    BY <2>2, UnlockedIsTyped
  <2>4. OnlyPack(call[c].pack) /\ OnlyCall(c) /\ UNCHANGED <<meterOf, stored>>
        /\ call'[c].at = "idle"
    BY <1>4 DEF Settles, Refunds
  <2> QED
    BY <2>1, <2>3, <2>4 DEF OnlyPack, Stored
<1> QED
  BY <1>1, <1>2, <1>3, <1>4 DEF Does

LEMMA SharedStep == Typed /\ Arranged /\ EvictionSpares /\ Shared /\ [Next]_vars => Shared'
<1> SUFFICES ASSUME Typed, Arranged, EvictionSpares, Shared, [Next]_vars,
                    NEW p \in PackIds, Kept(p)'
             PROVE  pack'[p].meter = meterOf'[pack'[p].run]
  BY DEF Shared
<1>0. stored \in Seq(PackIds) /\ Len(stored) <= MaxPacks /\ Stored \subseteq PackIds
  BY DEF Typed, TypeOK, Stored
<1>1. ASSUME Kept(p) PROVE /\ pack[p].meter = meterOf[pack[p].run]
                           /\ pack[p].run \in Runs /\ pack[p].meter \in PackIds
  BY <1>1 DEF Shared, Kept, Typed, PacksExist, Created
<1>2. CASE StandsStill
  <2>1. Kept(p)
    BY <1>2 DEF StandsStill, Kept
  <2> QED
    BY <1>1, <1>2, <2>1 DEF StandsStill
<1>3. ASSUME NEW c \in Calls, Does(c) PROVE pack'[p].meter = meterOf'[pack'[p].run]
  <2>1. CASE \E x \in PackIds, k \in Packs : Born(c, x, k)
    <3>1. PICK x \in PackIds, k \in Packs : Born(c, x, k)
      BY <2>1, Zenon
    <3>2. /\ k.run \in Runs /\ k.meter = UsageForRun(k.run, x)
          /\ meterOf' = [meterOf EXCEPT ![k.run] = k.meter]
          /\ call'[c].pack = x /\ Stored' = Stored /\ pack[x].run \notin Runs
      BY <3>1 DEF Born, Stored
    <3>3. /\ \A d \in Calls : d # c => call'[d] = call[d]
          /\ \A y \in PackIds : y # x => pack'[y] = pack[y]
          /\ pack'[x] = k
      BY <3>1, BornAlone
    <3>4. meterOf'[k.run] = k.meter /\ \A r \in Runs : r # k.run => meterOf'[r] = meterOf[r]
      BY <3>2 DEF Typed, TypeOK
    <3>5. CASE p = x
      BY <3>3, <3>4, <3>5
    <3>6. CASE p # x
      <4>1. Kept(p)
        BY <3>2, <3>3, <3>6 DEF Kept
      <4>2. pack'[p] = pack[p] /\ meterOf[pack[p].run] # Nothing
        BY <1>1, <3>3, <3>6, <4>1
      <4>3. pack[p].run = k.run => k.meter = meterOf[k.run]
        BY <3>2, <4>2 DEF UsageForRun
      <4> QED
        BY <1>1, <3>4, <4>1, <4>2, <4>3
    <3> QED
      BY <3>5, <3>6
  <2>2. CASE StorePack(c)
    <3> DEFINE q == call[c].pack
               h == Head(stored)
    <3>1. /\ call[c].at = "creating" /\ Create(q) /\ q \in PackIds /\ pack' = pack
          /\ \A d \in Calls : d # c => call'[d] = call[d]
          /\ call'[c].at = "idle"
      BY <2>2, InFlight, Returned DEF StorePack, Typed
    <3>2. q \notin Stored
      BY <3>1 DEF Arranged, Apart
    <3>3. \A x \in Stored' : x = q \/ (x \in Stored /\ (Full => x # h))
      BY <1>0, <3>1, <3>2, CreateKeepsOrder DEF Arranged
    <3>4. Kept(p)
      BY <3>1, <3>3 DEF Kept
    <3>5. CASE ~(Full /\ RunUnreferenced(h))
      <4>1. meterOf' = meterOf
        BY <3>1, <3>5 DEF Create
      <4> QED
        BY <1>1, <3>1, <3>4, <4>1
    <3>6. CASE Full /\ RunUnreferenced(h)
      <4>1. \A d \in Calls : call[d].at = "creating" => pack[call[d].pack].run # pack[h].run
        BY <3>6 DEF EvictionSpares, PackOf
      <4>2. \A x \in Stored : x # h => pack[x].run # pack[h].run
        BY <3>6 DEF RunUnreferenced
      <4>3. pack[p].run # pack[h].run
        BY <3>1, <3>3, <3>6, <4>1, <4>2 DEF Kept
      <4>4. h \in Stored
        <5>1. stored # <<>>
          BY <3>6 DEF Full
        <5> QED
          BY <5>1, <1>0 DEF Stored
      <4>5. meterOf' = [meterOf EXCEPT ![pack[h].run] = Nothing] /\ meterOf \in [Runs -> PackIds \cup {Nothing}]
        BY <3>1, <3>6 DEF Create, Typed, TypeOK
      <4> HIDE DEF h, q
      <4>6. meterOf'[pack[p].run] = meterOf[pack[p].run]
        BY <1>1, <3>4, <4>3, <4>5
      <4> QED
        BY <1>1, <3>1, <3>4, <4>6
    <3> QED
      BY <3>5, <3>6
  <2>3. CASE ~StorePack(c) /\ ~ \E x \in PackIds, k \in Packs : Born(c, x, k)
    <3>1. /\ pack'[p].run = pack[p].run /\ pack'[p].meter = pack[p].meter /\ meterOf' = meterOf
          /\ Stored' \subseteq Stored /\ OnlyCall(c) /\ call'[c].at # "creating"
      BY <1>3, <2>3, MetersKept
    <3>2. Kept(p)
      BY <3>1 DEF Kept, OnlyCall
    <3> QED
      BY <1>1, <3>1, <3>2
  <2> QED
    BY <2>1, <2>2, <2>3
<1> QED
  BY <1>2, <1>3, EveryStep

LEMMA SharedStart == Init => Shared
BY IdleIsTyped DEF Init, Shared, Kept, Stored

LEMMA SharedMeters == Typed /\ Shared => OneMeterPerRun
<1>1. Typed => Stored \subseteq PackIds
  BY DEF Typed, TypeOK, Stored
<1> QED
  BY <1>1 DEF Shared, Kept, OneMeterPerRun

\* A run that re-packs, in a store that no other run uses and that holds at least
\* two packs, keeps one meter: a full store always has another pack of the run.
THEOREM RepackingKeepsTheMeter ==
  MaxPacks > 1 /\ (\A r, s \in Runs : r = s) => (Spec => []OneMeterPerRun)
<1> SUFFICES ASSUME MaxPacks > 1, \A r, s \in Runs : r = s
             PROVE  Spec => []OneMeterPerRun
  OBVIOUS
<1>1. Typed /\ Arranged => EvictionSpares
  <2> SUFFICES ASSUME Typed, Arranged, Full PROVE ~RunUnreferenced(Head(stored))
    BY DEF EvictionSpares
  <2>1. /\ stored \in Seq(PackIds) /\ Len(stored) > 1 /\ DOMAIN stored = 1 .. Len(stored)
        /\ Len(stored) \in Nat /\ Head(stored) = stored[1]
    BY DEF Typed, TypeOK, Full
  <2>2. stored[1] \in Stored /\ stored[2] \in Stored /\ stored[1] # stored[2]
    <3>1. 1 \in DOMAIN stored /\ 2 \in DOMAIN stored /\ 1 # 2
      BY <2>1
    <3> QED
      BY <3>1, Zenon DEF Stored, Arranged, NoTwice
  <2>3. pack[stored[1]].run = pack[stored[2]].run
    BY <2>2 DEF Typed, PacksExist, Created
  <2> QED
    BY <2>1, <2>2, <2>3 DEF RunUnreferenced
<1>2. Typed /\ Arranged /\ Shared /\ [Next]_vars => Typed' /\ Arranged' /\ Shared'
  BY <1>1, TypedStep, ArrangedStep, SharedStep
<1> QED
  BY <1>2, Start, ArrangedStart, SharedStart, SharedMeters, PTL DEF Spec
==============================================================================
