------------------------ MODULE DerivedKnowledgeProofs ------------------------
(***************************************************************************)
(* What a build derives from its sources stays true to them, for every set *)
(* of sources, contents and texts, however many builds run, and wherever   *)
(* they fail: the outputs it pays for and the index it writes              *)
(* (IndexProjection), the edges a model rules on (RelationJudge), and the  *)
(* alias rows it mines (AliasIndex).                                       *)
(***************************************************************************)
EXTENDS IndexProjection, RelationJudge, AliasIndex, FiniteSetTheorems, TLAPS

--------------------------------------------------------------------------------
(* Sequences of sets *)

\* SetToSeq lists every element of a finite set: no artifact of a source is left out of the
\* queue of texts to embed (_embed_gated).
LEMMA ListsAll ==
  ASSUME NEW S, IsFiniteSet(S)
  PROVE  SetToSeq(S) \in Seq(S) /\ Range(SetToSeq(S)) = S
PROOF
<1> DEFINE n == Cardinality(S)
           f == SetToSeq(S)
<1>1. n \in Nat /\ ExistsBijection(1..n, S)
  BY FS_CardinalityType
<1>2. \E g \in [1..n -> S] : IsInjective(g)
  BY <1>1 DEF ExistsBijection, Bijection, Injection
<1>3. f \in [1..n -> S] /\ IsInjective(f)
  BY <1>2 DEF SetToSeq
<1> HIDE DEF f
<1>4. f \in Seq(S)
  BY <1>1, <1>3
<1>5. Range(f) \subseteq S /\ f \in Bijection(1..n, Range(f))
  BY <1>3 DEF Range, Bijection, Injection, Surjection
<1>6. IsFiniteSet(1..n) /\ Cardinality(1..n) = n
  BY <1>1, FS_Interval
<1>7. IsFiniteSet(Range(f)) /\ Cardinality(Range(f)) = n
  BY <1>5, <1>6, FS_Bijection DEF ExistsBijection
<1>8. Range(f) = S
  BY <1>5, <1>7, FS_Subset
<1> QED
  BY <1>4, <1>8 DEF f

--------------------------------------------------------------------------------
(* The index and the caches: what holds of a registry *)

Texts == (UNION {Range(TextsOf[c]) : c \in Contents}) \union Commits
Rows  == [src : Places \union {"alias"}, text : Texts \union SUBSET Prose,
          from : Nat, until : Nat]

\* Rows of ids handed out so far; a row that is not an alias has a text of a source.
RegistryTyped(g, m) ==
  /\ g = [hash |-> g.hash, gone |-> g.gone, rows |-> g.rows, gen |-> g.gen, vec |-> g.vec]
  /\ g.hash \in [Places -> Contents \union Commits \union {Absent}]
  /\ DOMAIN g.rows \subseteq 1..m /\ g.rows \in [DOMAIN g.rows -> Rows]
  /\ \A i \in DOMAIN g.rows : ~IsAlias(g.rows[i]) => g.rows[i].text \in Texts
  /\ DOMAIN g.gen \subseteq Contents

\* A cached generation leads to rows of its content.
Replayable(g) ==
  \A c \in DOMAIN g.gen :
    /\ g.gen[c] \subseteq DOMAIN g.rows
    /\ \A i \in g.gen[c] : ~IsAlias(g.rows[i])
    /\ {g.rows[i].text : i \in g.gen[c]} = Range(TextsOf[c])

Embedded(g, i) == IsAlias(g.rows[i]) \/ <<i, g.rows[i].text>> \in g.vec

\* The document of a row has the text of the row.
DocumentsMatch(g) ==
  \A i \in DOMAIN docs \intersect DOMAIN g.rows :
    ~IsAlias(g.rows[i]) => docs[i] = g.rows[i].text

\* Rows stay, and keep their source and their text, but for the alias row's.
RowsStay(g, h) ==
  /\ DOMAIN g.rows \subseteq DOMAIN h.rows
  /\ \A i \in DOMAIN g.rows :
       /\ h.rows[i].src = g.rows[i].src
       /\ ~IsAlias(g.rows[i]) => h.rows[i].text = g.rows[i].text

--------------------------------------------------------------------------------
(* The inductive invariant of the index and the caches *)

Phases   == {"idle", "list", "extracted", "embed", "embedded", "commit", "orphans", "backfill",
             "finish", "gate", "done"}
Statuses == {"none", "running", "completed", "active", "validation_failed", "failed"}

RunRecords ==
  [pc : Phases, todo : SUBSET Places, src : Places \union {Absent},
   seen : SUBSET (Places \union {Absent}), changed : SUBSET (Places \union {Absent}),
   queue : Seq(Nat), all : SUBSET Nat, status : Statuses, spared : BOOLEAN]

ProjectionTyped ==
  /\ listing \in [Places -> Contents \union Commits \union {Absent}]
  /\ \A s \in Places : listing[s] \in ContentOf(s) \union {Absent}
  /\ durable \subseteq Outputs
  /\ bill \in [Outputs -> Nat] /\ wasted \in [Outputs -> Nat]
  /\ minted \in Nat /\ xseq \in Nat
  /\ DOMAIN docs \subseteq 1..minted
  /\ xrun \in RunRecords
  /\ RegistryTyped(reg, minted) /\ RegistryTyped(tx, minted)

\* Where a build is.
Progress ==
  /\ InBuild => \A s \in xrun.todo : listing[s] # Absent
  /\ xrun.pc = "extracted" => xrun.src \in Prose /\ listing[xrun.src] \in Contents
  /\ xrun.pc \in {"embed", "embedded"} =>
       \A k \in 1..Len(xrun.queue) :
         xrun.queue[k] \in DOMAIN tx.rows /\ ~IsAlias(tx.rows[xrun.queue[k]])
  /\ xrun.pc = "embedded" => xrun.queue # <<>>
  /\ InBuild => xrun.status = IF xrun.pc = "gate" THEN "completed" ELSE "running"

\* Rows without a vector wait in the queue of the source at hand.
AllEmbedded ==
  /\ \A i \in DOMAIN reg.rows : Embedded(reg, i)
  /\ \A i \in DOMAIN tx.rows :
       \/ Embedded(tx, i)
       \/ xrun.pc \in {"embed", "embedded"} /\ \E k \in 1..Len(xrun.queue) : xrun.queue[k] = i

RegistriesAgree ==
  /\ Replayable(reg) /\ Replayable(tx) /\ RowsStay(reg, tx)
  /\ DocumentsMatch(reg) /\ DocumentsMatch(tx)

\* What a paid call returned is not recorded yet, and nothing was paid for beside what is
\* recorded, in hand or lost.
PaidOnce ==
  /\ InHand \intersect durable = {}
  /\ \A o \in Outputs : bill[o] <= wasted[o] + (IF o \in durable \union InHand THEN 1 ELSE 0)

\* How far the finalize has brought the index.
IndexIsHealing ==
  /\ xrun.pc \in {"backfill", "finish"} => xrun.spared \/ Orphans(tx) = {}
  /\ xrun.pc = "finish" => Lacking(tx) = {}
  /\ IndexHeals /\ ActiveIndexMirrors

ProjectionInv ==
  /\ ProjectionTyped /\ Progress /\ RegistriesAgree /\ AllEmbedded /\ PaidOnce /\ IndexIsHealing

--------------------------------------------------------------------------------
(* What the steps of a source do to a registry *)

\* New rows take the ids that follow, and the others stay as they are.
LEMMA AddedRows ==
  ASSUME minted \in Nat, NEW g, RegistryTyped(g, minted),
         NEW rows \in Seq(Rows), \A k \in 1..Len(rows) : ~IsAlias(rows[k]) => rows[k].text \in Texts
  PROVE  LET h == Added(g, rows)
         IN  /\ RegistryTyped(h, minted + Len(rows)) /\ RowsStay(g, h)
             /\ h = [hash |-> g.hash, gone |-> g.gone, rows |-> h.rows, gen |-> g.gen, vec |-> g.vec]
             /\ DOMAIN h.rows = DOMAIN g.rows \union New(Len(rows))
             /\ New(Len(rows)) \intersect DOMAIN g.rows = {}
             /\ \A i \in DOMAIN g.rows : h.rows[i] = g.rows[i]
             /\ \A k \in 1..Len(rows) : h.rows[minted + k] = rows[k]
PROOF
<1> DEFINE h == Added(g, rows)
           n == minted + Len(rows)
           R == [i \in DOMAIN g.rows \union New(Len(rows)) |->
                   IF i \in DOMAIN g.rows THEN g.rows[i] ELSE rows[i - minted]]
<1>1. g = [hash |-> g.hash, gone |-> g.gone, rows |-> g.rows, gen |-> g.gen, vec |-> g.vec]
  BY DEF RegistryTyped
<1>2. h = [g EXCEPT !.rows = R]
  BY DEF Added
<1> HIDE DEF R, h
<1>3. h = [hash |-> g.hash, gone |-> g.gone, rows |-> R, gen |-> g.gen, vec |-> g.vec]
  BY <1>1, <1>2
<1>4. Len(rows) \in Nat /\ n \in Nat
  OBVIOUS
<1>5. \A i \in New(Len(rows)) : i \in minted + 1 .. n /\ i - minted \in 1..Len(rows)
  BY <1>4 DEF New
<1>6. DOMAIN g.rows \subseteq 1..minted
  BY DEF RegistryTyped
<1>7. New(Len(rows)) \intersect DOMAIN g.rows = {}
  BY <1>4, <1>5, <1>6
<1>8. \A i \in DOMAIN g.rows : R[i] = g.rows[i]
  BY DEF R
<1>9. \A i \in New(Len(rows)) : R[i] = rows[i - minted]
  BY <1>7 DEF R
<1>10. \A k \in 1..Len(rows) : minted + k \in New(Len(rows)) /\ (minted + k) - minted = k
  BY <1>4 DEF New
<1>11. DOMAIN R = DOMAIN g.rows \union New(Len(rows))
  BY DEF R
<1>12. DOMAIN R \subseteq 1..n
  BY <1>4, <1>5, <1>6, <1>11
<1>13. R \in [DOMAIN R -> Rows]
  <2>1. \A i \in DOMAIN R : R[i] \in Rows
    BY <1>5, <1>8, <1>9, <1>11 DEF RegistryTyped
  <2>2. R = [i \in DOMAIN R |-> R[i]]
    BY DEF R
  <2> QED
    BY <2>1, <2>2
<1>14. \A i \in DOMAIN R : ~IsAlias(R[i]) => R[i].text \in Texts
  BY <1>5, <1>8, <1>9, <1>11 DEF RegistryTyped
<1>15. RegistryTyped(h, n)
  BY <1>3, <1>12, <1>13, <1>14 DEF RegistryTyped
<1>16. RowsStay(g, h)
  BY <1>3, <1>8, <1>11 DEF RowsStay
<1>17. \A k \in 1..Len(rows) : R[minted + k] = rows[k]
  BY <1>9, <1>10
<1>18. h.rows = R
  BY <1>3
<1> QED
  BY <1>3, <1>7, <1>8, <1>11, <1>15, <1>16, <1>17, <1>18 DEF h

\* The hash of a source, and its return from the dead, touch no row and no cache.
LEMMA UpsertedSource ==
  ASSUME NEW m, NEW g, RegistryTyped(g, m), NEW s \in Places,
         listing[s] \in Contents \union Commits \union {Absent}
  PROVE  LET h == Upsert(g, s)
         IN  /\ RegistryTyped(h, m) /\ RowsStay(g, h)
             /\ h.rows = g.rows /\ h.gen = g.gen /\ h.vec = g.vec
             /\ h = [hash |-> h.hash, gone |-> h.gone, rows |-> g.rows, gen |-> g.gen, vec |-> g.vec]
PROOF
<1> DEFINE h == Upsert(g, s)
           H == [g.hash EXCEPT ![s] = listing[s]]
<1>1. g = [hash |-> g.hash, gone |-> g.gone, rows |-> g.rows, gen |-> g.gen, vec |-> g.vec]
  BY DEF RegistryTyped
<1>2. h = [g EXCEPT !.hash = H, !.gone = g.gone \ {s}]
  BY <1>1 DEF Upsert
<1>3. H \in [Places -> Contents \union Commits \union {Absent}]
  BY DEF RegistryTyped
<1> HIDE DEF h, H
<1>4. h = [hash |-> H, gone |-> g.gone \ {s}, rows |-> g.rows, gen |-> g.gen, vec |-> g.vec]
  BY <1>1, <1>2
<1>5. RegistryTyped(h, m)
  BY <1>3, <1>4 DEF RegistryTyped
<1>6. RowsStay(g, h)
  BY <1>4 DEF RowsStay
<1> QED
  BY <1>4, <1>5, <1>6 DEF h

\* What holds of every row and cache entry still holds when rows stay and the entries do.
LEMMA StaysReplayable ==
  ASSUME NEW g, NEW h, RowsStay(g, h), Replayable(g), h.gen = g.gen
  PROVE  Replayable(h)
PROOF
<1> SUFFICES ASSUME NEW c \in DOMAIN g.gen
             PROVE  /\ h.gen[c] \subseteq DOMAIN h.rows
                    /\ \A i \in h.gen[c] : ~IsAlias(h.rows[i])
                    /\ {h.rows[i].text : i \in h.gen[c]} = Range(TextsOf[c])
  BY DEF Replayable
<1>1. /\ g.gen[c] \subseteq DOMAIN g.rows
      /\ \A i \in g.gen[c] : ~IsAlias(g.rows[i])
      /\ {g.rows[i].text : i \in g.gen[c]} = Range(TextsOf[c])
  BY DEF Replayable
<1>2. \A i \in g.gen[c] : h.rows[i].text = g.rows[i].text /\ h.rows[i].src = g.rows[i].src
  BY <1>1 DEF RowsStay
<1>3. {h.rows[i].text : i \in h.gen[c]} = {g.rows[i].text : i \in g.gen[c]}
  BY <1>2
<1> QED
  BY <1>1, <1>2, <1>3 DEF RowsStay, IsAlias

LEMMA RowsStayTrans ==
  ASSUME NEW f, NEW g, NEW h, RowsStay(f, g), RowsStay(g, h)
  PROVE  RowsStay(f, h)
BY DEF RowsStay, IsAlias

\* A document's extraction: its rows, in a cache entry of its content.
LEMMA MappedContent ==
  ASSUME minted \in Nat, NEW g, RegistryTyped(g, minted), Replayable(g), xseq \in Nat,
         NEW s \in Prose, NEW c \in Contents, listing[s] = c
  PROVE  LET h == Mapped(g, s, c)
             n == minted + Len(TextsOf[c])
         IN  /\ RegistryTyped(h, n) /\ RowsStay(g, h) /\ Replayable(h) /\ n \in Nat
             /\ h.vec = g.vec
             /\ DOMAIN h.rows = DOMAIN g.rows \union h.gen[c]
             /\ DOMAIN g.rows \intersect h.gen[c] = {}
             /\ h.gen[c] \subseteq DOMAIN h.rows
             /\ \A i \in h.gen[c] : i \notin 1..minted /\ ~IsAlias(h.rows[i])
             /\ c \in DOMAIN h.gen /\ h.gen[c] = New(Len(TextsOf[c]))
PROOF
<1> DEFINE h == Mapped(g, s, c)
           L == Len(TextsOf[c])
           rows == [k \in 1..L |-> NewRow(s, TextsOf[c][k])]
           a == Added(g, rows)
           u == Upsert(a, s)
           G == [d \in DOMAIN u.gen \union {c} |-> IF d = c THEN New(L) ELSE u.gen[d]]
           n == minted + L
<1>1. TextsOf[c] \in Seq(Range(TextsOf[c])) /\ L \in Nat /\ n \in Nat
  BY ProjectionAssumption
<1>2. \A k \in 1..L : TextsOf[c][k] \in Range(TextsOf[c]) /\ TextsOf[c][k] \in Texts
  BY <1>1 DEF Texts, Range
<1>3. \A k \in 1..L : NewRow(s, TextsOf[c][k]) \in Rows /\ ~IsAlias(NewRow(s, TextsOf[c][k]))
  BY <1>2, ProjectionAssumption DEF Rows, NewRow, IsAlias, Places
<1>4. rows \in Seq(Rows) /\ Len(rows) = L
  BY <1>1, <1>3
<1>5. \A k \in 1..Len(rows) : rows[k] = NewRow(s, TextsOf[c][k]) /\ rows[k].text = TextsOf[c][k]
                              /\ ~IsAlias(rows[k]) /\ rows[k].text \in Texts
  BY <1>2, <1>3, <1>4 DEF NewRow
<1> HIDE DEF rows
<1>6. /\ RegistryTyped(a, n) /\ RowsStay(g, a)
      /\ a.gen = g.gen /\ a.vec = g.vec
      /\ DOMAIN a.rows = DOMAIN g.rows \union New(L)
      /\ New(L) \intersect DOMAIN g.rows = {}
      /\ \A k \in 1..L : a.rows[minted + k] = rows[k]
  <2> HIDE DEF a, L
  <2>1. LET z == Added(g, rows)
        IN  /\ RegistryTyped(z, minted + Len(rows)) /\ RowsStay(g, z)
            /\ z = [hash |-> g.hash, gone |-> g.gone, rows |-> z.rows, gen |-> g.gen, vec |-> g.vec]
            /\ DOMAIN z.rows = DOMAIN g.rows \union New(Len(rows))
            /\ New(Len(rows)) \intersect DOMAIN g.rows = {}
            /\ \A i \in DOMAIN g.rows : z.rows[i] = g.rows[i]
            /\ \A k \in 1..Len(rows) : z.rows[minted + k] = rows[k]
    BY <1>4, <1>5, AddedRows
  <2>2. /\ RegistryTyped(a, minted + Len(rows)) /\ RowsStay(g, a)
        /\ a = [hash |-> g.hash, gone |-> g.gone, rows |-> a.rows, gen |-> g.gen, vec |-> g.vec]
        /\ DOMAIN a.rows = DOMAIN g.rows \union New(Len(rows))
        /\ New(Len(rows)) \intersect DOMAIN g.rows = {}
        /\ \A k \in 1..Len(rows) : a.rows[minted + k] = rows[k]
    BY <2>1 DEF a
  <2>3. a.gen = g.gen /\ a.vec = g.vec
    BY <2>2
  <2> QED
    BY <1>4, <2>2, <2>3
<1> HIDE DEF a
<1>7. listing[s] \in Contents \union Commits \union {Absent} /\ s \in Places
  BY DEF Places
<1>8. /\ RegistryTyped(u, n) /\ RowsStay(a, u) /\ u.rows = a.rows /\ u.gen = g.gen /\ u.vec = g.vec
      /\ u = [hash |-> u.hash, gone |-> u.gone, rows |-> u.rows, gen |-> u.gen, vec |-> u.vec]
  <2>1. LET z == Upsert(a, s)
        IN  /\ RegistryTyped(z, n) /\ RowsStay(a, z)
            /\ z.rows = a.rows /\ z.gen = a.gen /\ z.vec = a.vec
            /\ z = [hash |-> z.hash, gone |-> z.gone, rows |-> a.rows, gen |-> a.gen, vec |-> a.vec]
    BY <1>6, <1>7, UpsertedSource
  <2> QED
    BY <1>6, <2>1
<1> HIDE DEF u
<1>9. h = [u EXCEPT !.gen = G]
  BY <1>8 DEF Mapped, u, a, rows, G
<1> HIDE DEF h, G
<1>10. h = [hash |-> u.hash, gone |-> u.gone, rows |-> u.rows, gen |-> G, vec |-> u.vec]
  BY <1>8, <1>9
<1>11. DOMAIN G = DOMAIN g.gen \union {c} /\ G[c] = New(L)
       /\ \A d \in DOMAIN g.gen \ {c} : G[d] = g.gen[d]
  BY <1>8 DEF G
<1>12. RegistryTyped(h, n)
  <2>1. DOMAIN G \subseteq Contents
    BY <1>11 DEF RegistryTyped
  <2>2. /\ u.hash \in [Places -> Contents \union Commits \union {Absent}]
        /\ DOMAIN u.rows \subseteq 1..n /\ u.rows \in [DOMAIN u.rows -> Rows]
        /\ \A i \in DOMAIN u.rows : ~IsAlias(u.rows[i]) => u.rows[i].text \in Texts
    BY <1>8 DEF RegistryTyped
  <2> QED
    BY <1>10, <2>1, <2>2 DEF RegistryTyped
<1>13. RowsStay(g, h)
  BY <1>6, <1>8, <1>10 DEF RowsStay
<1>14. \A i \in New(L) : i - minted \in 1..L /\ i = minted + (i - minted) /\ i \notin 1..minted
  BY <1>1 DEF New
<1>15. \A k \in 1..L : minted + k \in New(L)
  BY <1>1 DEF New
<1>16. \A i \in New(L) : h.rows[i] = rows[i - minted] /\ ~IsAlias(h.rows[i])
                         /\ h.rows[i].text = TextsOf[c][i - minted]
  BY <1>4, <1>5, <1>6, <1>8, <1>10, <1>14
<1>17. {h.rows[i].text : i \in New(L)} = Range(TextsOf[c])
  <2>1. Range(TextsOf[c]) = {TextsOf[c][k] : k \in 1..L}
    BY <1>1 DEF Range
  <2>2. \A k \in 1..L : h.rows[minted + k].text = TextsOf[c][k]
    BY <1>4, <1>5, <1>6, <1>8, <1>10
  <2>3. \A i \in New(L) : h.rows[i].text \in Range(TextsOf[c])
    BY <1>14, <1>16, <2>1
  <2>4. \A k \in 1..L : TextsOf[c][k] \in {h.rows[i].text : i \in New(L)}
    BY <1>15, <2>2
  <2> QED
    BY <2>1, <2>3, <2>4
<1>18. h.gen = G /\ h.rows = a.rows /\ h.vec = g.vec
  BY <1>8, <1>10
<1>19. Replayable(h)
  <2> SUFFICES ASSUME NEW d \in DOMAIN G
               PROVE  /\ G[d] \subseteq DOMAIN h.rows
                      /\ \A i \in G[d] : ~IsAlias(h.rows[i])
                      /\ {h.rows[i].text : i \in G[d]} = Range(TextsOf[d])
    BY <1>18 DEF Replayable
  <2>1. CASE d = c
    BY <2>1, <1>6, <1>11, <1>16, <1>17, <1>18
  <2>2. ASSUME d # c
        PROVE  /\ G[d] \subseteq DOMAIN h.rows
               /\ \A i \in G[d] : ~IsAlias(h.rows[i])
               /\ {h.rows[i].text : i \in G[d]} = Range(TextsOf[d])
    <3>1. d \in DOMAIN g.gen /\ G[d] = g.gen[d]
      BY <2>2, <1>11
    <3>2. /\ g.gen[d] \subseteq DOMAIN g.rows
          /\ \A i \in g.gen[d] : ~IsAlias(g.rows[i])
          /\ {g.rows[i].text : i \in g.gen[d]} = Range(TextsOf[d])
      BY <3>1 DEF Replayable
    <3>3. \A i \in g.gen[d] : h.rows[i].text = g.rows[i].text /\ h.rows[i].src = g.rows[i].src
      BY <3>2, <1>13 DEF RowsStay
    <3>4. {h.rows[i].text : i \in g.gen[d]} = {g.rows[i].text : i \in g.gen[d]}
      BY <3>3
    <3> QED
      BY <3>1, <3>2, <3>3, <3>4, <1>13 DEF RowsStay, IsAlias
  <2> QED
    BY <2>1, <2>2
<1>20. DOMAIN h.rows = DOMAIN g.rows \union New(L) /\ h.gen[c] = New(L) /\ c \in DOMAIN h.gen
  BY <1>6, <1>11, <1>18
<1> QED
  BY <1>1, <1>6, <1>12, <1>13, <1>14, <1>16, <1>18, <1>19, <1>20 DEF h

LEMMA AddedVector ==
  ASSUME NEW m, NEW g, RegistryTyped(g, m), Replayable(g), NEW i
  PROVE  LET h == WithVector(g, i)
         IN  /\ RegistryTyped(h, m) /\ RowsStay(g, h) /\ Replayable(h)
             /\ h.rows = g.rows /\ h.vec = g.vec \union {<<i, g.rows[i].text>>}
PROOF
<1> DEFINE h == WithVector(g, i)
           V == g.vec \union {<<i, g.rows[i].text>>}
<1>1. g = [hash |-> g.hash, gone |-> g.gone, rows |-> g.rows, gen |-> g.gen, vec |-> g.vec]
  BY DEF RegistryTyped
<1>2. h = [g EXCEPT !.vec = V]
  BY <1>1 DEF WithVector
<1> HIDE DEF h, V
<1>3. h = [hash |-> g.hash, gone |-> g.gone, rows |-> g.rows, gen |-> g.gen, vec |-> V]
  BY <1>1, <1>2
<1>4. RegistryTyped(h, m)
  BY <1>3 DEF RegistryTyped
<1>5. RowsStay(g, h) /\ h.gen = g.gen
  BY <1>3 DEF RowsStay
<1>6. Replayable(h)
  BY <1>5, StaysReplayable
<1>7. h.rows = g.rows /\ h.vec = V
  BY <1>3
<1> QED
  BY <1>4, <1>5, <1>6, <1>7 DEF h, V

\* The finalize closes rows and rewrites the alias row; the only row it may add is an alias.
LEMMA FinalizedRows ==
  ASSUME minted \in Nat, xseq \in Nat, NEW g, RegistryTyped(g, minted), Replayable(g)
  PROVE  LET h == Finalized(g)
             n == minted + Cardinality(DOMAIN h.rows) - Cardinality(DOMAIN g.rows)
         IN  /\ n \in Nat /\ minted <= n
             /\ RegistryTyped(h, n) /\ RowsStay(g, h) /\ Replayable(h) /\ h.vec = g.vec
             /\ \A i \in DOMAIN h.rows \ DOMAIN g.rows : IsAlias(h.rows[i]) /\ i \notin 1..minted
PROOF
<1> DEFINE vanished == {s \in Places : g.hash[s] # Absent /\ s \notin g.gone \union xrun.seen}
           closed(r) == ~IsAlias(r) /\ r.until = 0
                        /\ (r.src \in vanished \/ (r.src \in xrun.changed /\ r.from < xseq))
           rows == [i \in DOMAIN g.rows |-> IF closed(g.rows[i])
                                            THEN [g.rows[i] EXCEPT !.until = xseq]
                                            ELSE g.rows[i]]
           stand == {s \in Prose : g.hash[s] # Absent /\ s \notin g.gone \union vanished}
           old == {i \in DOMAIN rows : IsAlias(rows[i]) /\ rows[i].until = 0}
           R == [i \in DOMAIN rows |->
                   IF i \notin old THEN rows[i]
                   ELSE IF stand = {} THEN [rows[i] EXCEPT !.until = xseq]
                   ELSE [rows[i] EXCEPT !.text = stand]]
           D == g.gone \union vanished
           kept == [g EXCEPT !.gone = D, !.rows = R]
           new == <<NewRow("alias", stand)>>
           h == Finalized(g)
           n == minted + Cardinality(DOMAIN h.rows) - Cardinality(DOMAIN g.rows)
<1>1. h = IF old = {} /\ stand # {} THEN Added(kept, new) ELSE kept
  BY DEF Finalized
<1>0. kept = [g EXCEPT !.gone = D, !.rows = R]
  OBVIOUS
<1>2. stand \in SUBSET Prose
  OBVIOUS
<1> HIDE DEF h, stand, vanished, kept, D
<1>3. \A i \in DOMAIN g.rows : g.rows[i] \in Rows
  BY DEF RegistryTyped
<1>4. DOMAIN rows = DOMAIN g.rows /\ DOMAIN R = DOMAIN g.rows /\ R = [i \in DOMAIN R |-> R[i]]
  OBVIOUS
<1>5. \A i \in DOMAIN g.rows : rows[i] \in Rows /\ rows[i].src = g.rows[i].src /\ rows[i].text = g.rows[i].text
  BY <1>3 DEF Rows
<1> HIDE DEF rows
<1>6. \A i \in DOMAIN g.rows : R[i] \in Rows
  BY <1>2, <1>4, <1>5 DEF Rows
<1>7. \A i \in DOMAIN g.rows : R[i].src = g.rows[i].src /\ (~IsAlias(g.rows[i]) => R[i].text = g.rows[i].text)
  BY <1>4, <1>5 DEF Rows, IsAlias
<1> HIDE DEF R
<1>8. g = [hash |-> g.hash, gone |-> g.gone, rows |-> g.rows, gen |-> g.gen, vec |-> g.vec]
  BY DEF RegistryTyped
<1>9. kept = [hash |-> g.hash, gone |-> D, rows |-> R, gen |-> g.gen, vec |-> g.vec]
  BY <1>8, <1>0
<1>10. RegistryTyped(kept, minted)
  <2>1. R \in [DOMAIN R -> Rows] /\ DOMAIN R \subseteq 1..minted
    BY <1>4, <1>6 DEF RegistryTyped
  <2>2. \A i \in DOMAIN R : ~IsAlias(R[i]) => R[i].text \in Texts
    BY <1>4, <1>7 DEF RegistryTyped, IsAlias
  <2> QED
    BY <1>9, <2>1, <2>2 DEF RegistryTyped
<1>11. RowsStay(g, kept) /\ kept.gen = g.gen /\ kept.vec = g.vec /\ kept.rows = R
  BY <1>4, <1>7, <1>9 DEF RowsStay
<1>12. Replayable(kept)
  BY <1>11, StaysReplayable
<1>13. new \in Seq(Rows) /\ Len(new) = 1 /\ new[1] = NewRow("alias", stand) /\ IsAlias(new[1])
  BY <1>2 DEF Rows, NewRow, IsAlias
<1> HIDE DEF new
<1>14. IsFiniteSet(DOMAIN g.rows) /\ Cardinality(DOMAIN g.rows) \in Nat
  <2>1. DOMAIN g.rows \in SUBSET (1..minted)
    BY DEF RegistryTyped
  <2>2. IsFiniteSet(1..minted)
    BY FS_Interval
  <2> QED
    BY <2>1, <2>2, FS_Subset, FS_CardinalityType
<1>15. CASE ~(old = {} /\ stand # {})
  <2>1. h = kept
    BY <1>1, <1>15
  <2>2. DOMAIN h.rows = DOMAIN g.rows
    BY <2>1, <1>4, <1>11
  <2>3. n = minted
    BY <2>2, <1>14
  <2> QED
    BY <2>1, <2>2, <2>3, <1>10, <1>11, <1>12 DEF h
<1>16. CASE old = {} /\ stand # {}
  <2>1. h = Added(kept, new)
    BY <1>1, <1>16
  <2>2. \A k \in 1..Len(new) : ~IsAlias(new[k]) => new[k].text \in Texts
    BY <1>13
  <2>3. LET z == Added(kept, new)
        IN  /\ RegistryTyped(z, minted + Len(new)) /\ RowsStay(kept, z)
            /\ z = [hash |-> kept.hash, gone |-> kept.gone, rows |-> z.rows, gen |-> kept.gen, vec |-> kept.vec]
            /\ DOMAIN z.rows = DOMAIN kept.rows \union New(Len(new))
            /\ New(Len(new)) \intersect DOMAIN kept.rows = {}
            /\ \A i \in DOMAIN kept.rows : z.rows[i] = kept.rows[i]
            /\ \A k \in 1..Len(new) : z.rows[minted + k] = new[k]
    BY <1>10, <1>13, <2>2, AddedRows, ZenonT(60)
  <2>4. New(Len(new)) = {minted + 1}
    BY <1>13 DEF New
  <2>5. /\ RegistryTyped(h, minted + 1) /\ RowsStay(kept, h)
        /\ h = [hash |-> kept.hash, gone |-> kept.gone, rows |-> h.rows, gen |-> kept.gen, vec |-> kept.vec]
        /\ DOMAIN h.rows = DOMAIN g.rows \union {minted + 1}
        /\ minted + 1 \notin DOMAIN g.rows
        /\ h.rows[minted + 1] = new[1]
    BY <2>1, <2>3, <2>4, <1>4, <1>11, <1>13
  <2>6. Cardinality(DOMAIN h.rows) = Cardinality(DOMAIN g.rows) + 1
    BY <2>5, <1>14, FS_AddElement
  <2>7. n = minted + 1
    BY <2>6, <1>14
  <2>8. h.gen = kept.gen /\ h.vec = g.vec
    BY <2>5, <1>11
  <2>9. Replayable(h)
    BY <2>5, <2>8, <1>12, StaysReplayable
  <2>10. RowsStay(g, h)
    BY <2>5, <1>11, RowsStayTrans
  <2>11. \A i \in DOMAIN h.rows \ DOMAIN g.rows : IsAlias(h.rows[i]) /\ i \notin 1..minted
    BY <2>5, <1>13
  <2> QED
    BY <2>5, <2>7, <2>8, <2>9, <2>10, <2>11 DEF h
<1> QED
  BY <1>15, <1>16

--------------------------------------------------------------------------------
(* What a step does to the registry and to the index *)

\* Rows are added in the session, with ids nobody has.
TxGrows ==
  /\ reg' = reg /\ docs' = docs
  /\ minted' \in Nat /\ minted <= minted'
  /\ RegistryTyped(tx', minted') /\ Replayable(tx') /\ RowsStay(tx, tx')
  /\ \A i \in DOMAIN tx'.rows \ DOMAIN tx.rows : i \notin 1..minted

\* The index loses documents, or takes texts of rows in the session.
DocsMove ==
  \A i \in DOMAIN docs' :
    \/ i \in DOMAIN docs /\ docs'[i] = docs[i]
    \/ i \in DOMAIN tx.rows /\ docs'[i] = tx.rows[i].text

DocsMoveAlone == DocsMove /\ UNCHANGED <<reg, tx, minted>>
Committed     == reg' = tx /\ UNCHANGED <<tx, docs, minted>>
RollsBack     == tx' = reg /\ DocsMove /\ UNCHANGED <<reg, minted>>

LEMMA WrittenMoves ==
  ASSUME NEW ids, ids \subseteq DOMAIN tx.rows
  PROVE  \A i \in DOMAIN Written(ids) :
           \/ i \in DOMAIN docs /\ Written(ids)[i] = docs[i]
           \/ i \in DOMAIN tx.rows /\ Written(ids)[i] = tx.rows[i].text
BY DEF Written

LEMMA WithoutMoves ==
  ASSUME NEW ids
  PROVE  \A i \in DOMAIN Without(ids) : i \in DOMAIN docs /\ Without(ids)[i] = docs[i]
BY DEF Without

LEMMA HalfMoves ==
  ASSUME NEW ids, ids \subseteq DOMAIN tx.rows, docs' \in Half(ids)
  PROVE  DocsMove
PROOF
<1>1. CASE docs' = docs
  BY <1>1 DEF DocsMove
<1>2. ASSUME NEW i \in ids, docs' = Written({i})
      PROVE  DocsMove
  BY <1>2, WrittenMoves DEF DocsMove
<1> QED
  BY <1>1, <1>2 DEF Half

\* The index is moved by the upsert of a source, the sweep and the backfill (_reconcile_index),
\* or by a failure half way.
LEMMA DocumentSteps ==
  ASSUME ProjectionInv,
         \/ UpsertDocuments \/ DeleteOrphaned \/ ReconcileMissing \/ IndexLost
  PROVE  DocsMoveAlone
PROOF
<1>1. CASE UpsertDocuments
  <2>1. xrun.all \intersect Projectable(tx) \subseteq DOMAIN tx.rows
    BY DEF Projectable
  <2>2. DocsMove
    BY <1>1, <2>1, WrittenMoves DEF UpsertDocuments, DocsMove
  <2> QED
    BY <1>1, <2>2 DEF UpsertDocuments, DocsMoveAlone
<1>2. CASE DeleteOrphaned
  <2>1. PICK ids : docs' = Without(ids)
    BY <1>2 DEF DeleteOrphaned
  <2>2. DocsMove
    BY <2>1, WithoutMoves DEF DocsMove
  <2> QED
    BY <1>2, <2>2 DEF DeleteOrphaned, DocsMoveAlone
<1>3. CASE ReconcileMissing
  <2>1. Lacking(tx) \subseteq DOMAIN tx.rows
    BY DEF Lacking, Projectable
  <2>2. DocsMove
    BY <1>3, <2>1, WrittenMoves DEF ReconcileMissing, Backfill, DocsMove
  <2> QED
    BY <1>3, <2>2 DEF ReconcileMissing, DocsMoveAlone
<1>4. CASE IndexLost
  <2>1. DocsMove
    BY <1>4, WithoutMoves DEF IndexLost, DocsMove
  <2> QED
    BY <1>4, <2>1 DEF IndexLost, DocsMoveAlone
<1> QED
  BY <1>1, <1>2, <1>3, <1>4

LEMMA RollBackSteps ==
  ASSUME ProjectionInv, SourceFails \/ FinalizeRaises \/ Dies
  PROVE  RollsBack
PROOF
<1>1. CASE SourceFails
  <2>1. xrun.all \intersect Projectable(tx) \subseteq DOMAIN tx.rows
    BY DEF Projectable
  <2>2. docs' \in Half(xrun.all \intersect Projectable(tx)) \/ docs' = docs
    BY <1>1 DEF SourceFails
  <2>3. DocsMove
    BY <2>1, <2>2, HalfMoves DEF DocsMove
  <2> QED
    BY <1>1, <2>3 DEF SourceFails, RolledBack, RollsBack
<1>2. CASE FinalizeRaises
  <2>1. Lacking(tx) \subseteq DOMAIN tx.rows
    BY DEF Lacking, Projectable
  <2>2. docs' \in Half(Lacking(tx)) \/ docs' = docs
    BY <1>2 DEF FinalizeRaises
  <2>3. DocsMove
    BY <2>1, <2>2, HalfMoves DEF DocsMove
  <2> QED
    BY <1>2, <2>3 DEF FinalizeRaises, RolledBack, RollsBack
<1>3. CASE Dies
  BY <1>3 DEF Dies, RolledBack, RollsBack, DocsMove
<1> QED
  BY <1>1, <1>2, <1>3

\* A commit is taken with one row, which is queued for its vector.
LEMMA CommitIsTaken ==
  ASSUME ProjectionInv, NEW s \in Places, TakeCommit(s)
  PROVE  /\ TxGrows /\ tx'.vec = tx.vec
         /\ DOMAIN tx'.rows = DOMAIN tx.rows \union New(1)
         /\ \A i \in New(1) : ~IsAlias(tx'.rows[i])
         /\ xrun' = ToEmbed(s, New(1)) /\ IsFiniteSet(New(1)) /\ New(1) \subseteq Nat
PROOF
<1> DEFINE rows == <<NewRow(s, s)>>
           a == Added(tx, rows)
<1>1. minted \in Nat /\ xseq \in Nat /\ RegistryTyped(tx, minted) /\ Replayable(tx)
  BY DEF ProjectionInv, ProjectionTyped, RegistriesAgree
<1>2. s \in Commits /\ listing[s] \in Contents \union Commits \union {Absent}
  BY DEF TakeCommit, ProjectionInv, ProjectionTyped, Places
<1>3. NewRow(s, s) \in Rows /\ ~IsAlias(NewRow(s, s)) /\ s \in Texts /\ NewRow(s, s).text = s
  BY <1>1, <1>2, ProjectionAssumption DEF NewRow, Rows, IsAlias, Texts
<1>4. rows \in Seq(Rows) /\ Len(rows) = 1 /\ rows[1] = NewRow(s, s)
  BY <1>3
<1> HIDE DEF rows
<1>5. \A k \in 1..Len(rows) : ~IsAlias(rows[k]) => rows[k].text \in Texts
  BY <1>3, <1>4
<1>6. LET z == Added(tx, rows)
      IN  /\ RegistryTyped(z, minted + Len(rows)) /\ RowsStay(tx, z)
          /\ z = [hash |-> tx.hash, gone |-> tx.gone, rows |-> z.rows, gen |-> tx.gen, vec |-> tx.vec]
          /\ DOMAIN z.rows = DOMAIN tx.rows \union New(Len(rows))
          /\ New(Len(rows)) \intersect DOMAIN tx.rows = {}
          /\ \A i \in DOMAIN tx.rows : z.rows[i] = tx.rows[i]
          /\ \A k \in 1..Len(rows) : z.rows[minted + k] = rows[k]
  BY <1>1, <1>4, <1>5, AddedRows
<1>7. /\ RegistryTyped(a, minted + 1) /\ RowsStay(tx, a)
      /\ a = [hash |-> tx.hash, gone |-> tx.gone, rows |-> a.rows, gen |-> tx.gen, vec |-> tx.vec]
      /\ DOMAIN a.rows = DOMAIN tx.rows \union New(1)
      /\ New(1) \intersect DOMAIN tx.rows = {}
      /\ a.rows[minted + 1] = NewRow(s, s)
  BY <1>4, <1>6
<1>8. New(1) = {minted + 1} /\ minted + 1 \notin 1..minted
  BY <1>1 DEF New
<1> HIDE DEF a
<1>9. LET z == Upsert(a, s)
      IN  /\ RegistryTyped(z, minted + 1) /\ RowsStay(a, z)
          /\ z.rows = a.rows /\ z.gen = a.gen /\ z.vec = a.vec
          /\ z = [hash |-> z.hash, gone |-> z.gone, rows |-> a.rows, gen |-> a.gen, vec |-> a.vec]
  BY <1>2, <1>7, UpsertedSource
<1>10. tx' = Upsert(a, s) /\ minted' = minted + 1
  BY DEF TakeCommit, a, rows
<1>11. /\ RegistryTyped(tx', minted') /\ RowsStay(a, tx')
       /\ tx'.rows = a.rows /\ tx'.gen = tx.gen /\ tx'.vec = tx.vec
  BY <1>7, <1>9, <1>10
<1>12. RowsStay(tx, tx')
  BY <1>7, <1>11, RowsStayTrans
<1>13. Replayable(tx')
  BY <1>1, <1>11, <1>12, StaysReplayable
<1>14. TxGrows
  <2>1. DOMAIN tx'.rows = DOMAIN tx.rows \union {minted + 1}
    BY <1>7, <1>8, <1>11
  <2>2. \A i \in DOMAIN tx'.rows \ DOMAIN tx.rows : i \notin 1..minted
    BY <1>8, <2>1
  <2>3. minted' \in Nat /\ minted <= minted'
    BY <1>1, <1>10
  <2>4. reg' = reg /\ docs' = docs
    BY DEF TakeCommit
  <2> QED
    BY <1>11, <1>12, <1>13, <2>2, <2>3, <2>4 DEF TxGrows
<1>15. IsFiniteSet(New(1)) /\ New(1) \subseteq Nat
  <2>1. IsFiniteSet({minted + 1})
    BY FS_Singleton
  <2> QED
    BY <1>1, <1>8, <2>1
<1> QED
  BY <1>3, <1>7, <1>8, <1>11, <1>14, <1>15 DEF TakeCommit

\* A document mapped from the durable cache or from the model's answer.
DocumentMapped(s) ==
  /\ tx' = Mapped(tx, s, listing[s]) /\ minted' = minted + Len(TextsOf[listing[s]])
  /\ xrun' = ToEmbed(s, tx'.gen[listing[s]]) /\ UNCHANGED <<reg, docs, listing>>

LEMMA DocumentIsMapped ==
  ASSUME ProjectionInv, NEW s \in Prose, listing[s] \in Contents, DocumentMapped(s)
  PROVE  LET ids == tx'.gen[listing[s]]
         IN  /\ TxGrows /\ tx'.vec = tx.vec
             /\ DOMAIN tx'.rows = DOMAIN tx.rows \union ids
             /\ \A i \in ids : ~IsAlias(tx'.rows[i])
             /\ xrun' = ToEmbed(s, ids) /\ IsFiniteSet(ids) /\ ids \subseteq Nat
PROOF
<1> DEFINE c == listing[s]
           ids == tx'.gen[c]
<1>1. minted \in Nat /\ xseq \in Nat /\ RegistryTyped(tx, minted) /\ Replayable(tx)
  BY DEF ProjectionInv, ProjectionTyped, RegistriesAgree
<1>0. c \in Contents /\ c = listing[s]
  OBVIOUS
<1> HIDE DEF c
<1>2. LET h == Mapped(tx, s, c)
          n == minted + Len(TextsOf[c])
      IN  /\ RegistryTyped(h, n) /\ RowsStay(tx, h) /\ Replayable(h) /\ n \in Nat
          /\ h.vec = tx.vec
          /\ DOMAIN h.rows = DOMAIN tx.rows \union h.gen[c]
          /\ DOMAIN tx.rows \intersect h.gen[c] = {}
          /\ h.gen[c] \subseteq DOMAIN h.rows
          /\ \A i \in h.gen[c] : i \notin 1..minted /\ ~IsAlias(h.rows[i])
          /\ c \in DOMAIN h.gen /\ h.gen[c] = New(Len(TextsOf[c]))
  BY <1>0, <1>1, MappedContent, ZenonT(60)
<1>3. /\ RegistryTyped(tx', minted') /\ RowsStay(tx, tx') /\ Replayable(tx') /\ minted' \in Nat
      /\ tx'.vec = tx.vec
      /\ DOMAIN tx'.rows = DOMAIN tx.rows \union ids
      /\ DOMAIN tx.rows \intersect ids = {}
      /\ \A i \in ids : i \notin 1..minted /\ ~IsAlias(tx'.rows[i])
      /\ ids = New(Len(TextsOf[c]))
  BY <1>0, <1>2 DEF DocumentMapped
<1>4. Len(TextsOf[c]) \in Nat
  BY <1>0, ProjectionAssumption
<1>5. minted <= minted'
  BY <1>0, <1>1, <1>4 DEF DocumentMapped
<1>6. IsFiniteSet(ids) /\ ids \subseteq Nat
  <2>1. ids = minted + 1 .. minted + Len(TextsOf[c])
    BY <1>3 DEF New
  <2>2. IsFiniteSet(minted + 1 .. minted + Len(TextsOf[c]))
    BY <1>1, <1>4, FS_Interval
  <2> QED
    BY <1>1, <1>4, <2>1, <2>2
<1>7. TxGrows
  BY <1>3, <1>5 DEF TxGrows, DocumentMapped
<1> QED
  BY <1>0, <1>3, <1>6, <1>7 DEF DocumentMapped

\* A document whose content is cached comes back with the ids of its rows.
LEMMA DocumentIsReplayed ==
  ASSUME ProjectionInv, NEW s \in Prose, NEW c \in DOMAIN tx.gen, c = listing[s],
         tx' = Upsert(tx, s), xrun' = ToEmbed(s, tx.gen[c]), UNCHANGED <<reg, docs, minted>>
  PROVE  /\ TxGrows /\ tx'.vec = tx.vec /\ tx'.rows = tx.rows
         /\ tx.gen[c] \subseteq DOMAIN tx.rows
         /\ \A i \in tx.gen[c] : ~IsAlias(tx.rows[i])
         /\ IsFiniteSet(tx.gen[c]) /\ tx.gen[c] \subseteq Nat
PROOF
<1>1. minted \in Nat /\ RegistryTyped(tx, minted) /\ Replayable(tx)
      /\ listing[s] \in Contents \union Commits \union {Absent} /\ s \in Places
  BY DEF ProjectionInv, ProjectionTyped, RegistriesAgree, Places
<1>2. LET z == Upsert(tx, s)
      IN  /\ RegistryTyped(z, minted) /\ RowsStay(tx, z)
          /\ z.rows = tx.rows /\ z.gen = tx.gen /\ z.vec = tx.vec
          /\ z = [hash |-> z.hash, gone |-> z.gone, rows |-> tx.rows, gen |-> tx.gen, vec |-> tx.vec]
  BY <1>1, UpsertedSource
<1>3. RegistryTyped(tx', minted) /\ RowsStay(tx, tx') /\ tx'.rows = tx.rows /\ tx'.gen = tx.gen
      /\ tx'.vec = tx.vec
  BY <1>2
<1>4. Replayable(tx')
  BY <1>1, <1>3, StaysReplayable
<1>5. TxGrows
  BY <1>1, <1>3, <1>4 DEF TxGrows
<1>6. tx.gen[c] \subseteq DOMAIN tx.rows /\ \A i \in tx.gen[c] : ~IsAlias(tx.rows[i])
  BY <1>1 DEF Replayable
<1>7. tx.gen[c] \in SUBSET (1..minted)
  BY <1>1, <1>6 DEF RegistryTyped
<1>8. IsFiniteSet(tx.gen[c]) /\ tx.gen[c] \subseteq Nat
  <2>1. IsFiniteSet(1..minted)
    BY <1>1, FS_Interval
  <2> QED
    BY <1>1, <1>7, <2>1, FS_Subset
<1> QED
  BY <1>3, <1>5, <1>6, <1>8

\* A document is taken from the session's cache, from the durable one, or paid for.
TakenFrom(s) ==
  \/ /\ listing[s] \in DOMAIN tx.gen
     /\ tx' = Upsert(tx, s) /\ xrun' = ToEmbed(s, tx.gen[listing[s]])
     /\ UNCHANGED <<reg, docs, bill, minted>>
  \/ DocumentMapped(s) /\ UNCHANGED bill
  \/ /\ ~InDurable(DocOutput(listing[s]))
     /\ bill' = [bill EXCEPT ![DocOutput(listing[s])] = @ + 1]
     /\ xrun' = [Taken(s) EXCEPT !.pc = "extracted"]
     /\ UNCHANGED <<tx, reg, docs, minted>>

LEMMA DocumentIsTaken ==
  ASSUME ProjectionInv, NEW s \in Places, TakeDocument(s)
  PROVE  /\ xrun.pc = "list" /\ s \in Prose /\ listing[s] \in Contents
         /\ TakenFrom(s) /\ UNCHANGED <<listing, durable, wasted, xseq>>
PROOF
<1>1. xrun.pc = "list" /\ s \in xrun.todo /\ s \in Prose
  BY DEF TakeDocument
<1>2. listing[s] \in ContentOf(s) \union {Absent} /\ listing[s] # Absent
  BY <1>1 DEF ProjectionInv, ProjectionTyped, Progress, InBuild
<1>3. listing[s] \in Contents
  BY <1>1, <1>2, ProjectionAssumption DEF ContentOf
<1>4. TakenFrom(s)
  BY DEF TakeDocument, TakenFrom, DocumentMapped
<1> QED
  BY <1>1, <1>3, <1>4 DEF TakeDocument

\* Every step adds rows in the session, moves documents, commits, or rolls back.
LEMMA ProjectionSteps ==
  ASSUME ProjectionInv, ProjectionNext
  PROVE  TxGrows \/ DocsMoveAlone \/ Committed \/ RollsBack
PROOF
<1> DEFINE Goal == TxGrows \/ DocsMoveAlone \/ Committed \/ RollsBack
<1>1. minted \in Nat /\ xseq \in Nat /\ RegistryTyped(tx, minted) /\ Replayable(tx)
  BY DEF ProjectionInv, ProjectionTyped, RegistriesAgree
<1>2. ASSUME UNCHANGED <<reg, tx, docs, minted>> PROVE Goal
  BY <1>2 DEF DocsMoveAlone, DocsMove
<1>3. CASE StartBuild \/ ActivateIfConsistent
  BY <1>2, <1>3 DEF StartBuild, ActivateIfConsistent
<1>4. ASSUME NEW s \in Places, Unchanged(s) \/ \E c \in ContentOf(s) \union {Absent} : Change(s, c)
      PROVE  Goal
  BY <1>2, <1>4 DEF Unchanged, Change
<1>5. ASSUME NEW s \in Places, TakeCommit(s) PROVE Goal
  BY <1>5, CommitIsTaken
<1>6. ASSUME NEW s \in Places, TakeDocument(s) PROVE Goal
  <2>1. s \in Prose /\ listing[s] \in Contents /\ TakenFrom(s) /\ UNCHANGED listing
    BY <1>6, DocumentIsTaken
  <2>2. CASE DocumentMapped(s)
    BY <2>1, <2>2, DocumentIsMapped
  <2>3. CASE /\ listing[s] \in DOMAIN tx.gen
             /\ tx' = Upsert(tx, s) /\ xrun' = ToEmbed(s, tx.gen[listing[s]])
             /\ UNCHANGED <<reg, docs, minted>>
    BY <2>1, <2>3, DocumentIsReplayed
  <2> QED
    BY <1>2, <2>1, <2>2, <2>3 DEF TakenFrom
<1>7. ASSUME NEW b \in BOOLEAN, RecordExtraction(b) PROVE Goal
  <2>1. xrun.src \in Prose /\ listing[xrun.src] \in Contents /\ DocumentMapped(xrun.src)
    BY <1>7 DEF RecordExtraction, ProjectionInv, Progress, DocumentMapped
  <2> QED
    BY <2>1, DocumentIsMapped
<1>8. ASSUME NEW i, tx' = WithVector(tx, i), UNCHANGED <<reg, docs, minted>> PROVE Goal
  <2>1. RegistryTyped(tx', minted) /\ RowsStay(tx, tx') /\ Replayable(tx') /\ tx'.rows = tx.rows
    BY <1>1, <1>8, AddedVector
  <2> QED
    BY <1>1, <1>8, <2>1 DEF TxGrows
<1>9. CASE Embed
  BY <1>2, <1>8, <1>9 DEF Embed
<1>10. ASSUME NEW b \in BOOLEAN, RecordVector(b) PROVE Goal
  BY <1>8, <1>10 DEF RecordVector
<1>11. CASE UpsertDocuments \/ DeleteOrphaned \/ ReconcileMissing \/ IndexLost
  BY <1>11, DocumentSteps
<1>12. CASE SourceFails \/ FinalizeRaises \/ Dies
  BY <1>12, RollBackSteps
<1>13. CASE CommitSource \/ Finish
  BY <1>13 DEF CommitSource, Finish, Committed
<1>14. CASE Finalize
  <2>1. LET h == Finalized(tx)
            n == minted + Cardinality(DOMAIN h.rows) - Cardinality(DOMAIN tx.rows)
        IN  /\ n \in Nat /\ minted <= n
            /\ RegistryTyped(h, n) /\ RowsStay(tx, h) /\ Replayable(h) /\ h.vec = tx.vec
            /\ \A i \in DOMAIN h.rows \ DOMAIN tx.rows : IsAlias(h.rows[i]) /\ i \notin 1..minted
    BY <1>1, FinalizedRows
  <2> QED
    BY <1>14, <2>1 DEF Finalize, TxGrows
<1> QED
  BY <1>3, <1>4, <1>5, <1>6, <1>7, <1>9, <1>10, <1>11, <1>12, <1>13, <1>14 DEF ProjectionNext

LEMMA StillTyped ==
  ASSUME NEW g, NEW m \in Nat, NEW n \in Nat, m <= n, RegistryTyped(g, m)
  PROVE  RegistryTyped(g, n)
BY DEF RegistryTyped

\* The registry, the session and the index keep agreeing on the texts of rows.
LEMMA AgreementStays ==
  ASSUME ProjectionInv, ProjectionNext
  PROVE  /\ RegistriesAgree' /\ minted' \in Nat /\ DOMAIN docs' \subseteq 1..minted'
         /\ RegistryTyped(reg', minted') /\ RegistryTyped(tx', minted')
PROOF
<1>1. /\ minted \in Nat /\ RegistryTyped(tx, minted) /\ RegistryTyped(reg, minted)
      /\ DOMAIN docs \subseteq 1..minted
      /\ Replayable(reg) /\ Replayable(tx) /\ RowsStay(reg, tx)
      /\ DocumentsMatch(reg) /\ DocumentsMatch(tx)
  BY DEF ProjectionInv, ProjectionTyped, RegistriesAgree
<1>2. RowsStay(reg, reg) /\ RowsStay(tx, tx)
  BY DEF RowsStay
<1>3. DOMAIN tx.rows \subseteq 1..minted
  BY <1>1 DEF RegistryTyped
<1>4. ASSUME DocsMove
      PROVE  /\ DOMAIN docs' \subseteq 1..minted
             /\ \A i \in DOMAIN docs' \intersect DOMAIN tx.rows :
                  ~IsAlias(tx.rows[i]) => docs'[i] = tx.rows[i].text
             /\ \A i \in DOMAIN docs' \intersect DOMAIN reg.rows :
                  ~IsAlias(reg.rows[i]) => docs'[i] = reg.rows[i].text
  <2>1. DOMAIN docs' \subseteq 1..minted
    BY <1>1, <1>3, <1>4 DEF DocsMove
  <2>2. \A i \in DOMAIN docs' \intersect DOMAIN tx.rows :
          ~IsAlias(tx.rows[i]) => docs'[i] = tx.rows[i].text
    BY <1>1, <1>4 DEF DocsMove, DocumentsMatch
  <2>3. \A i \in DOMAIN docs' \intersect DOMAIN reg.rows :
          ~IsAlias(reg.rows[i]) => docs'[i] = reg.rows[i].text
    BY <1>1, <1>4 DEF DocsMove, DocumentsMatch, RowsStay
  <2> QED
    BY <2>1, <2>2, <2>3
<1>5. CASE TxGrows
  <2>1. RegistryTyped(reg', minted') /\ minted' \in Nat
    BY <1>1, <1>5, StillTyped DEF TxGrows
  <2>2. DOMAIN docs' \subseteq 1..minted'
    BY <1>1, <1>5 DEF TxGrows
  <2>3. RowsStay(reg', tx')
    BY <1>1, <1>5, RowsStayTrans DEF TxGrows
  <2>4. \A i \in DOMAIN docs \intersect DOMAIN tx'.rows :
          ~IsAlias(tx'.rows[i]) => docs[i] = tx'.rows[i].text
    BY <1>1, <1>5 DEF TxGrows, RowsStay, DocumentsMatch, IsAlias
  <2> QED
    BY <1>1, <1>5, <2>1, <2>2, <2>3, <2>4 DEF TxGrows, RegistriesAgree, DocumentsMatch, Replayable
<1>6. CASE DocsMoveAlone
  <2>1. DocumentsMatch(reg)' /\ DocumentsMatch(tx)'
    BY <1>4, <1>6 DEF DocsMoveAlone, DocumentsMatch
  <2> QED
    BY <1>1, <1>4, <1>6, <2>1 DEF DocsMoveAlone, RegistriesAgree
<1>7. CASE Committed
  BY <1>1, <1>2, <1>7 DEF Committed, RegistriesAgree, DocumentsMatch, Replayable
<1>8. CASE RollsBack
  <2>1. DocumentsMatch(reg)' /\ DocumentsMatch(tx)'
    BY <1>4, <1>8 DEF RollsBack, DocumentsMatch
  <2> QED
    BY <1>1, <1>2, <1>4, <1>8, <2>1 DEF RollsBack, RegistriesAgree
<1> QED
  BY <1>5, <1>6, <1>7, <1>8, ProjectionSteps

--------------------------------------------------------------------------------
(* The progress of a build *)

\* The texts of a source wait for their vectors.
LEMMA TextsAreQueued ==
  ASSUME xrun \in RunRecords, NEW s \in Places, NEW ids \in SUBSET Nat, IsFiniteSet(ids),
         xrun' = ToEmbed(s, ids)
  PROVE  /\ xrun' \in RunRecords /\ xrun'.pc = "embed"
         /\ \A k \in 1..Len(xrun'.queue) : xrun'.queue[k] \in ids
         /\ \A i \in ids : \E k \in 1..Len(xrun'.queue) : xrun'.queue[k] = i
         /\ xrun'.todo \subseteq xrun.todo /\ xrun'.status = xrun.status
PROOF
<1> DEFINE q == SetToSeq(ids)
<1>1. q \in Seq(ids) /\ Range(q) = ids
  BY ListsAll
<1>2. xrun' = [xrun EXCEPT !.todo = xrun.todo \ {s}, !.src = s, !.pc = "embed", !.all = ids, !.queue = q]
  BY DEF ToEmbed, Taken, RunRecords
<1> HIDE DEF q
<1>3. q \in Seq(Nat)
  <2>1. Len(q) \in Nat /\ q = [k \in 1..Len(q) |-> q[k]]
    BY <1>1
  <2>2. \A k \in 1..Len(q) : q[k] \in ids
    BY <1>1
  <2>3. \A k \in 1..Len(q) : q[k] \in Nat
    BY <2>2
  <2> QED
    BY <2>1, <2>3
<1>4. xrun'.queue = q /\ xrun'.pc = "embed" /\ xrun'.todo = xrun.todo \ {s}
      /\ xrun'.status = xrun.status
  BY <1>2 DEF RunRecords
<1>5. xrun' \in RunRecords
  BY <1>2, <1>3, ZenonT(60) DEF RunRecords, Phases
<1>6. \A k \in 1..Len(q) : q[k] \in ids
  BY <1>1
<1>7. \A i \in ids : \E k \in 1..Len(q) : q[k] = i
  BY <1>1 DEF Range
<1> QED
  BY <1>4, <1>5, <1>6, <1>7

\* The next text of the queue is that of a row of a source.
LEMMA NextText ==
  ASSUME ProjectionInv, xrun.pc \in {"embed", "embedded"}, xrun.queue # <<>>
  PROVE  LET i == Head(xrun.queue)
         IN  /\ i = xrun.queue[1] /\ i \in DOMAIN tx.rows /\ ~IsAlias(tx.rows[i])
             /\ tx.rows[i].text \in Texts /\ VecOutput(tx.rows[i].text) \in Outputs
             /\ Tail(xrun.queue) \in Seq(Nat) /\ Len(Tail(xrun.queue)) = Len(xrun.queue) - 1
             /\ \A k \in 1..Len(Tail(xrun.queue)) : /\ Tail(xrun.queue)[k] = xrun.queue[k + 1]
                                                    /\ k + 1 \in 1..Len(xrun.queue)
             /\ \A k \in 1..Len(xrun.queue) :
                  \/ k = 1
                  \/ k - 1 \in 1..Len(Tail(xrun.queue)) /\ Tail(xrun.queue)[k - 1] = xrun.queue[k]
PROOF
<1> DEFINE q == xrun.queue
<1>1. q \in Seq(Nat) /\ q # <<>>
  BY DEF ProjectionInv, ProjectionTyped, RunRecords
<1>2. \A k \in 1..Len(q) : q[k] \in DOMAIN tx.rows /\ ~IsAlias(tx.rows[q[k]])
  BY DEF ProjectionInv, Progress
<1>3. Len(q) \in Nat /\ Len(q) # 0 /\ 1 \in 1..Len(q) /\ Head(q) = q[1]
  BY <1>1
<1>4. tx.rows[Head(q)].text \in Texts
  BY <1>2, <1>3 DEF ProjectionInv, ProjectionTyped, RegistryTyped
<1>5. VecOutput(tx.rows[Head(q)].text) \in Outputs
  BY <1>4 DEF Outputs, Texts
<1> HIDE DEF q
<1>6. Tail(q) \in Seq(Nat) /\ Len(Tail(q)) = Len(q) - 1
      /\ \A k \in 1..Len(Tail(q)) : Tail(q)[k] = q[k + 1]
  BY <1>1
<1>7. \A k \in 1..Len(Tail(q)) : k + 1 \in 1..Len(q)
  BY <1>3, <1>6
<1>8. \A k \in 1..Len(q) : k = 1 \/ (k - 1 \in 1..Len(Tail(q)) /\ Tail(q)[k - 1] = q[k])
  BY <1>3, <1>6
<1> QED
  BY <1>2, <1>3, <1>4, <1>5, <1>6, <1>7, <1>8 DEF q

LEMMA RunStaysTyped ==
  ASSUME ProjectionInv, ProjectionNext
  PROVE  xrun' \in RunRecords
PROOF
<1>1. xrun \in RunRecords /\ \A s \in Places : listing[s] \in ContentOf(s) \union {Absent}
  BY DEF ProjectionInv, ProjectionTyped
<1>0. <<>> \in Seq(Nat)
  OBVIOUS
<1>2. CASE StartBuild
  BY <1>0, <1>1, <1>2 DEF StartBuild, Resting, RunRecords, Phases, Statuses
<1>3. ASSUME NEW s \in Places, Unchanged(s) PROVE xrun' \in RunRecords
  BY <1>1, <1>3 DEF Unchanged, Taken, RunRecords
<1>4. ASSUME NEW s \in Places, TakeCommit(s) PROVE xrun' \in RunRecords
  BY <1>1, <1>4, CommitIsTaken, TextsAreQueued
<1>5. ASSUME NEW s \in Places, TakeDocument(s) PROVE xrun' \in RunRecords
  <2>1. s \in Prose /\ listing[s] \in Contents /\ TakenFrom(s)
    BY <1>5, DocumentIsTaken
  <2>2. CASE DocumentMapped(s)
    BY <1>1, <2>1, <2>2, DocumentIsMapped, TextsAreQueued
  <2>3. CASE /\ listing[s] \in DOMAIN tx.gen
             /\ tx' = Upsert(tx, s) /\ xrun' = ToEmbed(s, tx.gen[listing[s]])
             /\ UNCHANGED <<reg, docs, minted>>
    BY <1>1, <2>1, <2>3, DocumentIsReplayed, TextsAreQueued
  <2>4. CASE xrun' = [Taken(s) EXCEPT !.pc = "extracted"]
    BY <1>1, <2>4 DEF Taken, RunRecords, Phases
  <2> QED
    BY <2>1, <2>2, <2>3, <2>4 DEF TakenFrom
<1>6. ASSUME NEW b \in BOOLEAN, RecordExtraction(b) PROVE xrun' \in RunRecords
  <2>1. xrun.src \in Prose /\ listing[xrun.src] \in Contents /\ DocumentMapped(xrun.src)
    BY <1>6 DEF RecordExtraction, ProjectionInv, Progress, DocumentMapped
  <2> QED
    BY <1>1, <2>1, DocumentIsMapped, TextsAreQueued DEF Places
<1>7. CASE Embed
  <2>1. Tail(xrun.queue) \in Seq(Nat)
    BY <1>7, NextText DEF Embed
  <2> QED
    BY <1>1, <1>7, <2>1 DEF Embed, RunRecords, Phases
<1>8. ASSUME NEW b \in BOOLEAN, RecordVector(b) PROVE xrun' \in RunRecords
  <2>1. Tail(xrun.queue) \in Seq(Nat)
    BY <1>8, NextText DEF RecordVector, ProjectionInv, Progress
  <2> QED
    BY <1>1, <1>8, <2>1 DEF RecordVector, RunRecords, Phases
<1>9. CASE UpsertDocuments \/ CommitSource
  <2>1. CASE UpsertDocuments
    BY <1>1, <2>1 DEF UpsertDocuments, RunRecords, Phases
  <2>2. CASE CommitSource
    BY <1>1, <2>2 DEF CommitSource, RunRecords, Phases
  <2> QED
    BY <1>9, <2>1, <2>2
<1>10. CASE SourceFails
  BY <1>0, <1>1, <1>10 DEF SourceFails, RunRecords, Phases
<1>11. CASE Finalize \/ DeleteOrphaned \/ ReconcileMissing \/ Finish
  <2>1. CASE Finalize
    BY <1>1, <2>1 DEF Finalize, RunRecords, Phases
  <2>2. CASE DeleteOrphaned
    BY <1>1, <2>2 DEF DeleteOrphaned, RunRecords, Phases
  <2>3. CASE ReconcileMissing
    BY <1>1, <2>3 DEF ReconcileMissing, RunRecords, Phases
  <2>4. CASE Finish
    BY <1>1, <2>4 DEF Finish, RunRecords, Phases, Statuses
  <2> QED
    BY <1>11, <2>1, <2>2, <2>3, <2>4
<1>12. CASE FinalizeRaises \/ Dies
  <2>1. CASE FinalizeRaises
    BY <1>0, <1>1, <2>1 DEF FinalizeRaises, Resting, RunRecords, Phases, Statuses
  <2>2. CASE Dies
    BY <1>0, <1>1, <2>2 DEF Dies, Resting, RunRecords, Phases
  <2> QED
    BY <1>12, <2>1, <2>2
<1>13. CASE ActivateIfConsistent \/ IndexLost
  <2>1. CASE ActivateIfConsistent
    BY <1>1, <2>1 DEF ActivateIfConsistent, RunRecords, Phases, Statuses
  <2>2. CASE IndexLost
    BY <1>1, <2>2 DEF IndexLost, RunRecords, Phases, Statuses
  <2> QED
    BY <1>13, <2>1, <2>2
<1>14. ASSUME NEW s \in Places, NEW c \in ContentOf(s) \union {Absent}, Change(s, c)
       PROVE  xrun' \in RunRecords
  BY <1>1, <1>14 DEF Change, RunRecords, Phases, Statuses
<1> QED
  BY <1>2, <1>3, <1>4, <1>5, <1>6, <1>7, <1>8, <1>9, <1>10, <1>11, <1>12, <1>13, <1>14
  DEF ProjectionNext

LEMMA ProjectionStaysTyped ==
  ASSUME ProjectionInv, ProjectionNext
  PROVE  ProjectionTyped'
PROOF
<1>1. /\ minted' \in Nat /\ DOMAIN docs' \subseteq 1..minted'
      /\ RegistryTyped(reg', minted') /\ RegistryTyped(tx', minted')
  BY AgreementStays
<1>2. xrun' \in RunRecords
  BY RunStaysTyped
<1>3. /\ listing \in [Places -> Contents \union Commits \union {Absent}]
      /\ \A s \in Places : listing[s] \in ContentOf(s) \union {Absent}
      /\ durable \subseteq Outputs /\ xseq \in Nat
      /\ bill \in [Outputs -> Nat] /\ wasted \in [Outputs -> Nat]
  BY DEF ProjectionInv, ProjectionTyped
<1> DEFINE Rest == /\ listing' \in [Places -> Contents \union Commits \union {Absent}]
                   /\ \A s \in Places : listing'[s] \in ContentOf(s) \union {Absent}
                   /\ durable' \subseteq Outputs /\ xseq' \in Nat
                   /\ bill' \in [Outputs -> Nat] /\ wasted' \in [Outputs -> Nat]
<1>4. \A c \in Contents : DocOutput(c) \in Outputs
  BY DEF Outputs
<1>5. ASSUME UNCHANGED <<listing, durable, bill, wasted>>, xseq' \in Nat
      PROVE  Rest
  BY <1>3, <1>5
<1>0. ASSUME bill' \in [Outputs -> Nat], wasted' \in [Outputs -> Nat], durable' \subseteq Outputs,
           UNCHANGED <<listing, xseq>>
     PROVE  Rest
  BY <1>3, <1>0
<1> SUFFICES Rest
  BY <1>1, <1>2 DEF ProjectionTyped
<1> HIDE DEF Rest
<1>6. CASE StartBuild
  BY <1>3, <1>5, <1>6 DEF StartBuild
<1>7. ASSUME NEW s \in Places, Unchanged(s) \/ TakeCommit(s) PROVE Rest
  BY <1>3, <1>5, <1>7 DEF Unchanged, TakeCommit
<1>8. ASSUME NEW s \in Places, TakeDocument(s) PROVE Rest
  <2>1. listing[s] \in Contents /\ TakenFrom(s) /\ UNCHANGED <<listing, durable, wasted, xseq>>
    BY <1>8, DocumentIsTaken
  <2>2. CASE UNCHANGED bill
    BY <1>3, <1>5, <2>1, <2>2
  <2>3. CASE bill' = [bill EXCEPT ![DocOutput(listing[s])] = @ + 1]
    <3>1. bill' \in [Outputs -> Nat]
      BY <1>3, <1>4, <2>1, <2>3
    <3> QED
      BY <1>3, <1>0, <2>1, <3>1
  <2> QED
    BY <2>1, <2>2, <2>3 DEF TakenFrom
<1>9. ASSUME NEW b \in BOOLEAN, RecordExtraction(b) PROVE Rest
  <2>1. DocOutput(listing[xrun.src]) \in Outputs
    BY <1>4, <1>9 DEF RecordExtraction, ProjectionInv, Progress
  <2>2. wasted' \in [Outputs -> Nat]
    BY <1>3, <1>9, <2>1 DEF RecordExtraction
  <2>3. durable' \subseteq Outputs /\ bill' = bill /\ UNCHANGED <<listing, xseq>>
    BY <1>3, <1>9, <2>1 DEF RecordExtraction
  <2> QED
    BY <1>3, <1>0, <2>2, <2>3
<1>10. CASE Embed
  <2>1. VecOutput(tx.rows[Head(xrun.queue)].text) \in Outputs
    BY <1>10, NextText DEF Embed
  <2>2. \/ bill' = bill
        \/ bill' = [bill EXCEPT ![VecOutput(tx.rows[Head(xrun.queue)].text)] = @ + 1]
    BY <1>10 DEF Embed
  <2>3. bill' \in [Outputs -> Nat]
    BY <1>3, <2>1, <2>2
  <2> QED
    BY <1>3, <1>0, <1>10, <2>3 DEF Embed
<1>11. ASSUME NEW b \in BOOLEAN, RecordVector(b) PROVE Rest
  <2>1. VecOutput(tx.rows[Head(xrun.queue)].text) \in Outputs
    BY <1>11, NextText DEF RecordVector, ProjectionInv, Progress
  <2>2. wasted' \in [Outputs -> Nat]
    BY <1>3, <1>11, <2>1 DEF RecordVector
  <2>3. durable' \subseteq Outputs /\ bill' = bill /\ UNCHANGED <<listing, xseq>>
    BY <1>3, <1>11, <2>1 DEF RecordVector
  <2> QED
    BY <1>3, <1>0, <2>2, <2>3
<1>12. CASE UpsertDocuments \/ CommitSource \/ Finalize
  BY <1>3, <1>5, <1>12 DEF UpsertDocuments, CommitSource, Finalize
<1>13. CASE DeleteOrphaned \/ ReconcileMissing \/ Finish \/ FinalizeRaises
  BY <1>3, <1>5, <1>13 DEF DeleteOrphaned, ReconcileMissing, Finish, FinalizeRaises
<1>14. CASE ActivateIfConsistent \/ IndexLost
  BY <1>3, <1>5, <1>14 DEF ActivateIfConsistent, IndexLost
<1>15. CASE SourceFails \/ Dies
  <2>1. Lost \in [Outputs -> Nat]
    BY <1>3 DEF Lost
  <2>2. wasted' = Lost /\ UNCHANGED <<listing, durable, bill, xseq>>
    BY <1>15 DEF SourceFails, Dies
  <2> QED
    BY <1>3, <1>0, <2>1, <2>2
<1>16. ASSUME NEW s \in Places, NEW c \in ContentOf(s) \union {Absent}, Change(s, c)
       PROVE  Rest
  <2>1. c \in Contents \union Commits \union {Absent}
    BY DEF ContentOf
  <2> QED
    BY <1>3, <1>16, <2>1 DEF Change, Rest
<1> QED
  BY <1>6, <1>7, <1>8, <1>9, <1>10, <1>11, <1>12, <1>13, <1>14, <1>15, <1>16 DEF ProjectionNext

\* Where the build is after a step that leaves the queue alone.
LEMMA ProgressStays ==
  ASSUME ProjectionInv, ProjectionNext
  PROVE  Progress'
PROOF
<1>1. xrun \in RunRecords /\ Progress /\ \A s \in Places : listing[s] \in ContentOf(s) \union {Absent}
  BY DEF ProjectionInv, ProjectionTyped
<1>2. ASSUME xrun'.pc \notin {"extracted", "embed", "embedded"}, listing' = listing,
             InBuild' => \A s \in xrun'.todo : listing[s] # Absent,
             InBuild' => xrun'.status = IF xrun'.pc = "gate" THEN "completed" ELSE "running"
      PROVE  Progress'
  BY <1>2 DEF Progress, InBuild
<1>3. CASE StartBuild
  BY <1>1, <1>2, <1>3 DEF StartBuild, Resting, InBuild
<1>4. ASSUME NEW s \in Places, Unchanged(s) PROVE Progress'
  BY <1>1, <1>2, <1>4 DEF Unchanged, Taken, InBuild, Progress, RunRecords
<1>5. ASSUME NEW s \in Places, NEW ids \in SUBSET Nat, IsFiniteSet(ids), xrun' = ToEmbed(s, ids),
             xrun.pc \in {"list", "extracted"}, listing' = listing,
             ids \subseteq DOMAIN tx'.rows, \A i \in ids : ~IsAlias(tx'.rows[i])
      PROVE  Progress'
  <2>1. /\ xrun'.pc = "embed" /\ xrun'.todo \subseteq xrun.todo /\ xrun'.status = xrun.status
        /\ \A k \in 1..Len(xrun'.queue) : xrun'.queue[k] \in ids
    BY <1>1, <1>5, TextsAreQueued
  <2> QED
    BY <1>1, <1>5, <2>1 DEF Progress, InBuild
<1>6. ASSUME NEW s \in Places, TakeCommit(s) PROVE Progress'
  <2>1. /\ xrun' = ToEmbed(s, New(1)) /\ IsFiniteSet(New(1)) /\ New(1) \subseteq Nat
        /\ New(1) \subseteq DOMAIN tx'.rows /\ \A i \in New(1) : ~IsAlias(tx'.rows[i])
    BY <1>6, CommitIsTaken
  <2> QED
    BY <1>5, <1>6, <2>1 DEF TakeCommit
<1>7. ASSUME NEW s \in Places, TakeDocument(s) PROVE Progress'
  <2>1. /\ xrun.pc = "list" /\ s \in Prose /\ listing[s] \in Contents /\ TakenFrom(s)
        /\ listing' = listing
    BY <1>7, DocumentIsTaken
  <2>2. CASE DocumentMapped(s)
    BY <1>5, <2>1, <2>2, DocumentIsMapped
  <2>3. CASE /\ listing[s] \in DOMAIN tx.gen
             /\ tx' = Upsert(tx, s) /\ xrun' = ToEmbed(s, tx.gen[listing[s]])
             /\ UNCHANGED <<reg, docs, minted>>
    <3>1. /\ tx'.rows = tx.rows /\ tx.gen[listing[s]] \subseteq DOMAIN tx.rows
          /\ \A i \in tx.gen[listing[s]] : ~IsAlias(tx.rows[i])
          /\ IsFiniteSet(tx.gen[listing[s]]) /\ tx.gen[listing[s]] \subseteq Nat
      BY <2>1, <2>3, DocumentIsReplayed
    <3> QED
      BY <1>5, <2>1, <2>3, <3>1
  <2>4. CASE xrun' = [Taken(s) EXCEPT !.pc = "extracted"]
    <3>1. xrun'.pc = "extracted" /\ xrun'.src = s /\ xrun'.todo \subseteq xrun.todo
          /\ xrun'.status = xrun.status
      BY <1>1, <2>4 DEF Taken, RunRecords
    <3> QED
      BY <1>1, <2>1, <3>1 DEF Progress, InBuild
  <2> QED
    BY <2>1, <2>2, <2>3, <2>4 DEF TakenFrom
<1>8. ASSUME NEW b \in BOOLEAN, RecordExtraction(b) PROVE Progress'
  <2>1. xrun.src \in Prose /\ listing[xrun.src] \in Contents /\ DocumentMapped(xrun.src)
        /\ xrun.pc = "extracted"
    BY <1>8 DEF RecordExtraction, ProjectionInv, Progress, DocumentMapped
  <2>2. LET ids == tx'.gen[listing[xrun.src]]
        IN  /\ DOMAIN tx'.rows = DOMAIN tx.rows \union ids
            /\ \A i \in ids : ~IsAlias(tx'.rows[i])
            /\ xrun' = ToEmbed(xrun.src, ids) /\ IsFiniteSet(ids) /\ ids \subseteq Nat
    BY <2>1, DocumentIsMapped
  <2> QED
    BY <1>5, <2>1, <2>2 DEF Places, DocumentMapped
<1>9. ASSUME xrun.pc \in {"embed", "embedded"}, xrun.queue # <<>>, listing' = listing,
             xrun' = [xrun EXCEPT !.pc = "embed", !.queue = Tail(@)], tx'.rows = tx.rows
      PROVE  Progress'
  <2>1. \A k \in 1..Len(Tail(xrun.queue)) : /\ Tail(xrun.queue)[k] = xrun.queue[k + 1]
                                           /\ k + 1 \in 1..Len(xrun.queue)
    BY <1>9, NextText
  <2>2. xrun'.pc = "embed" /\ xrun'.queue = Tail(xrun.queue) /\ xrun'.todo = xrun.todo
        /\ xrun'.status = xrun.status
    BY <1>1, <1>9 DEF RunRecords
  <2> QED
    BY <1>1, <1>9, <2>1, <2>2 DEF Progress, InBuild
<1>10. ASSUME NEW i, RegistryTyped(tx, minted), Replayable(tx), tx' = WithVector(tx, i)
       PROVE  tx'.rows = tx.rows
  BY <1>10, AddedVector
<1>11. RegistryTyped(tx, minted) /\ Replayable(tx)
  BY DEF ProjectionInv, ProjectionTyped, RegistriesAgree
<1>12. CASE Embed
  <2>1. CASE xrun' = [xrun EXCEPT !.queue = Tail(@)]
    <3>1. xrun' = [xrun EXCEPT !.pc = "embed", !.queue = Tail(@)]
      BY <1>1, <1>12, <2>1 DEF Embed, RunRecords
    <3> QED
      BY <1>9, <1>10, <1>11, <1>12, <3>1 DEF Embed
  <2>2. CASE xrun' = [xrun EXCEPT !.pc = "embedded"] /\ tx' = tx
    <3>1. xrun'.pc = "embedded" /\ xrun'.queue = xrun.queue /\ xrun'.todo = xrun.todo
          /\ xrun'.status = xrun.status
      BY <1>1, <2>2 DEF RunRecords
    <3> QED
      BY <1>1, <1>12, <2>2, <3>1 DEF Progress, InBuild, Embed
  <2> QED
    BY <1>12, <2>1, <2>2 DEF Embed
<1>13. ASSUME NEW b \in BOOLEAN, RecordVector(b) PROVE Progress'
  BY <1>1, <1>9, <1>10, <1>11, <1>13 DEF RecordVector, Progress
<1>14. CASE UpsertDocuments
  BY <1>1, <1>2, <1>14 DEF UpsertDocuments, InBuild, Progress, RunRecords
<1>15. CASE CommitSource
  BY <1>1, <1>2, <1>15 DEF CommitSource, InBuild, Progress, RunRecords
<1>16. CASE SourceFails
  BY <1>1, <1>2, <1>16 DEF SourceFails, InBuild, Progress, RunRecords
<1>17. CASE Finalize
  BY <1>1, <1>2, <1>17 DEF Finalize, InBuild, Progress, RunRecords
<1>18. CASE DeleteOrphaned
  BY <1>1, <1>2, <1>18 DEF DeleteOrphaned, InBuild, Progress, RunRecords
<1>19. CASE ReconcileMissing
  BY <1>1, <1>2, <1>19 DEF ReconcileMissing, InBuild, Progress, RunRecords
<1>20. CASE Finish
  BY <1>1, <1>2, <1>20 DEF Finish, InBuild, Progress, RunRecords
<1>21. CASE FinalizeRaises \/ Dies
  BY <1>2, <1>21 DEF FinalizeRaises, Dies, Resting, InBuild
<1>22. CASE ActivateIfConsistent
  BY <1>1, <1>2, <1>22 DEF ActivateIfConsistent, InBuild, RunRecords
<1>23. CASE IndexLost
  BY <1>1, <1>2, <1>23 DEF IndexLost, InBuild, RunRecords
<1>24. ASSUME NEW s \in Places, NEW c \in ContentOf(s) \union {Absent}, Change(s, c)
       PROVE  Progress'
  <2>1. xrun'.pc = "idle"
    BY <1>1, <1>24 DEF Change, RunRecords
  <2> QED
    BY <2>1 DEF Progress, InBuild
<1> QED
  BY <1>3, <1>4, <1>6, <1>7, <1>8, <1>12, <1>13, <1>14, <1>15, <1>16, <1>17, <1>18, <1>19, <1>20,
     <1>21, <1>22, <1>23, <1>24 DEF ProjectionNext

--------------------------------------------------------------------------------
(* Vectors *)

\* Every row of a source has a vector of its text before its document is written
\* (_embed_gated), and what is rolled back takes its vectors along.
LEMMA VectorsStay ==
  ASSUME ProjectionInv, ProjectionNext
  PROVE  AllEmbedded'
PROOF
<1> DEFINE Waits(i) == xrun'.pc \in {"embed", "embedded"} /\ \E k \in 1..Len(xrun'.queue) : xrun'.queue[k] = i
<1>1. /\ xrun \in RunRecords /\ RegistryTyped(tx, minted) /\ Replayable(tx)
      /\ \A i \in DOMAIN reg.rows : Embedded(reg, i)
      /\ \A i \in DOMAIN tx.rows :
           \/ Embedded(tx, i)
           \/ xrun.pc \in {"embed", "embedded"} /\ \E k \in 1..Len(xrun.queue) : xrun.queue[k] = i
  BY DEF ProjectionInv, ProjectionTyped, RegistriesAgree, AllEmbedded
<1>2. ASSUME \A i \in DOMAIN reg'.rows : Embedded(reg', i),
             \A i \in DOMAIN tx'.rows : Embedded(tx', i) \/ Waits(i)
      PROVE  AllEmbedded'
  BY <1>2 DEF AllEmbedded, Embedded
<1> HIDE DEF Waits
<1>3. ASSUME xrun.pc \notin {"embed", "embedded"}, reg' \in {reg, tx}, tx' \in {reg, tx}
      PROVE  AllEmbedded'
  BY <1>1, <1>2, <1>3
<1>4. ASSUME reg' = reg, tx' = reg PROVE AllEmbedded'
  BY <1>1, <1>2, <1>4
<1>5. ASSUME xrun.pc \notin {"embed", "embedded"}, reg' = reg, RowsStay(tx, tx'), tx'.vec = tx.vec,
             \A i \in DOMAIN tx'.rows \ DOMAIN tx.rows : IsAlias(tx'.rows[i]) \/ Waits(i)
      PROVE  AllEmbedded'
  <2>1. \A i \in DOMAIN tx.rows : Embedded(tx', i)
    BY <1>1, <1>5 DEF Embedded, RowsStay, IsAlias
  <2>2. \A i \in DOMAIN tx'.rows : Embedded(tx', i) \/ Waits(i)
    BY <1>5, <2>1 DEF Embedded
  <2> QED
    BY <1>1, <1>2, <1>5, <2>2
<1>6. ASSUME NEW s \in Places, NEW ids \in SUBSET Nat, IsFiniteSet(ids), xrun' = ToEmbed(s, ids)
      PROVE  \A i \in ids : Waits(i)
  BY <1>1, <1>6, TextsAreQueued DEF Waits
<1>7. ASSUME NEW s \in Places, TakeCommit(s) PROVE AllEmbedded'
  <2>1. TxGrows /\ tx'.vec = tx.vec /\ DOMAIN tx'.rows = DOMAIN tx.rows \union New(1)
    BY <1>7, CommitIsTaken
  <2>2. \A i \in New(1) : Waits(i)
    BY <1>6, <1>7, CommitIsTaken
  <2> QED
    BY <1>5, <1>7, <2>1, <2>2 DEF TxGrows, TakeCommit
<1>8. ASSUME NEW s \in Prose, listing[s] \in Contents, DocumentMapped(s),
             xrun.pc \notin {"embed", "embedded"}
      PROVE  AllEmbedded'
  <2> DEFINE ids == tx'.gen[listing[s]]
  <2>1. TxGrows /\ tx'.vec = tx.vec /\ DOMAIN tx'.rows = DOMAIN tx.rows \union ids
        /\ xrun' = ToEmbed(s, ids) /\ IsFiniteSet(ids) /\ ids \subseteq Nat /\ s \in Places
    BY <1>8, DocumentIsMapped DEF Places
  <2>2. \A i \in ids : Waits(i)
    BY <1>6, <2>1
  <2> QED
    BY <1>5, <1>8, <2>1, <2>2 DEF TxGrows
<1>9. ASSUME NEW s \in Places, TakeDocument(s) PROVE AllEmbedded'
  <2>1. /\ xrun.pc = "list" /\ s \in Prose /\ listing[s] \in Contents /\ TakenFrom(s)
    BY <1>9, DocumentIsTaken
  <2>2. CASE DocumentMapped(s)
    BY <1>8, <2>1, <2>2
  <2>3. CASE /\ listing[s] \in DOMAIN tx.gen
             /\ tx' = Upsert(tx, s) /\ xrun' = ToEmbed(s, tx.gen[listing[s]])
             /\ UNCHANGED <<reg, docs, minted>>
    <3>1. TxGrows /\ tx'.vec = tx.vec /\ tx'.rows = tx.rows
      BY <2>1, <2>3, DocumentIsReplayed
    <3> QED
      BY <1>5, <2>1, <3>1 DEF TxGrows
  <2>4. CASE UNCHANGED <<tx, reg>>
    BY <1>3, <2>1, <2>4
  <2> QED
    BY <2>1, <2>2, <2>3, <2>4 DEF TakenFrom
<1>10. ASSUME NEW b \in BOOLEAN, RecordExtraction(b) PROVE AllEmbedded'
  <2>1. xrun.src \in Prose /\ listing[xrun.src] \in Contents /\ DocumentMapped(xrun.src)
        /\ xrun.pc = "extracted"
    BY <1>10 DEF RecordExtraction, ProjectionInv, Progress, DocumentMapped
  <2> QED
    BY <1>8, <2>1
<1>11. ASSUME xrun.pc \in {"embed", "embedded"}, xrun.queue # <<>>, reg' = reg,
              xrun' = [xrun EXCEPT !.pc = "embed", !.queue = Tail(@)],
              RowsStay(tx, tx'), DOMAIN tx'.rows = DOMAIN tx.rows, tx.vec \subseteq tx'.vec,
              Embedded(tx', Head(xrun.queue))
       PROVE  AllEmbedded'
  <2>1. xrun'.pc = "embed" /\ xrun'.queue = Tail(xrun.queue)
    BY <1>1, <1>11 DEF RunRecords
  <2>2. /\ Head(xrun.queue) = xrun.queue[1]
        /\ \A k \in 1..Len(xrun.queue) :
             \/ k = 1
             \/ k - 1 \in 1..Len(Tail(xrun.queue)) /\ Tail(xrun.queue)[k - 1] = xrun.queue[k]
    BY <1>11, NextText
  <2>3. ASSUME NEW k \in 1..Len(xrun.queue)
        PROVE  Embedded(tx', xrun.queue[k]) \/ Waits(xrun.queue[k])
    <3>1. CASE k = 1
      BY <1>11, <2>2, <3>1
    <3>2. CASE k - 1 \in 1..Len(Tail(xrun.queue)) /\ Tail(xrun.queue)[k - 1] = xrun.queue[k]
      BY <2>1, <3>2 DEF Waits
    <3> QED
      BY <2>2, <3>1, <3>2
  <2>4. \A i \in DOMAIN tx.rows : Embedded(tx, i) => Embedded(tx', i)
    BY <1>11 DEF Embedded, RowsStay, IsAlias
  <2>5. \A i \in DOMAIN tx'.rows : Embedded(tx', i) \/ Waits(i)
    BY <1>1, <1>11, <2>3, <2>4
  <2> QED
    BY <1>1, <1>2, <1>11, <2>5
<1>12. ASSUME tx' = WithVector(tx, Head(xrun.queue))
       PROVE  /\ RowsStay(tx, tx') /\ DOMAIN tx'.rows = DOMAIN tx.rows /\ tx.vec \subseteq tx'.vec
              /\ Embedded(tx', Head(xrun.queue))
  <2>1. /\ RowsStay(tx, tx') /\ tx'.rows = tx.rows
        /\ tx'.vec = tx.vec \union {<<Head(xrun.queue), tx.rows[Head(xrun.queue)].text>>}
    BY <1>1, <1>12, AddedVector
  <2> QED
    BY <2>1 DEF Embedded
<1>13. CASE Embed
  <2> DEFINE i == Head(xrun.queue)
  <2>1. xrun.pc = "embed" /\ xrun.queue # <<>> /\ reg' = reg /\ i \in DOMAIN tx.rows
    BY <1>13, NextText DEF Embed
  <2>2. CASE xrun' = [xrun EXCEPT !.queue = Tail(@)]
    <3>1. xrun' = [xrun EXCEPT !.pc = "embed", !.queue = Tail(@)]
      BY <1>1, <2>1, <2>2 DEF RunRecords
    <3>2. CASE ~NeedsVector(i) /\ tx' = tx
      <4>1. Embedded(tx', i) /\ RowsStay(tx, tx')
        BY <2>1, <3>2 DEF NeedsVector, Embedded, RowsStay
      <4> QED
        BY <1>11, <2>1, <3>1, <3>2, <4>1
    <3>3. CASE tx' = WithVector(tx, i)
      BY <1>11, <1>12, <2>1, <3>1, <3>3
    <3>4. \/ ~NeedsVector(i) /\ tx' = tx
          \/ tx' = WithVector(tx, i)
          \/ xrun' = [xrun EXCEPT !.pc = "embedded"]
      BY <1>13 DEF Embed
    <3>5. xrun' # [xrun EXCEPT !.pc = "embedded"]
      BY <1>1, <3>1 DEF RunRecords
    <3> QED
      BY <3>2, <3>3, <3>4, <3>5
  <2>3. CASE xrun' = [xrun EXCEPT !.pc = "embedded"] /\ tx' = tx
    <3>1. xrun'.pc = "embedded" /\ xrun'.queue = xrun.queue
      BY <1>1, <2>3 DEF RunRecords
    <3>2. \A j \in DOMAIN tx'.rows : Embedded(tx', j) \/ Waits(j)
      BY <1>1, <2>3, <3>1 DEF Waits
    <3> QED
      BY <1>1, <1>2, <2>1, <3>2
  <2> QED
    BY <1>13, <2>2, <2>3 DEF Embed
<1>14. ASSUME NEW b \in BOOLEAN, RecordVector(b) PROVE AllEmbedded'
  <2>1. /\ xrun.pc = "embedded" /\ xrun.queue # <<>> /\ reg' = reg
        /\ tx' = WithVector(tx, Head(xrun.queue))
        /\ xrun' = [xrun EXCEPT !.pc = "embed", !.queue = Tail(@)]
    BY <1>14 DEF RecordVector, ProjectionInv, Progress
  <2> QED
    BY <1>11, <1>12, <2>1
<1>15. CASE UpsertDocuments
  <2>1. xrun.queue = <<>> /\ UNCHANGED <<reg, tx>>
    BY <1>15 DEF UpsertDocuments
  <2>2. \A i \in DOMAIN tx.rows : Embedded(tx, i)
    BY <1>1, <2>1
  <2> QED
    BY <1>1, <1>2, <2>1, <2>2
<1>16. CASE SourceFails \/ FinalizeRaises \/ Dies
  <2>1. RollsBack
    BY <1>16, RollBackSteps
  <2> QED
    BY <1>4, <2>1 DEF RollsBack
<1>17. CASE CommitSource \/ Finish
  BY <1>3, <1>17 DEF CommitSource, Finish
<1>18. CASE StartBuild
  BY <1>3, <1>18 DEF StartBuild, Quiet, InBuild
<1>19. ASSUME NEW s \in Places, Unchanged(s) PROVE AllEmbedded'
  BY <1>3, <1>19 DEF Unchanged
<1>20. CASE DeleteOrphaned \/ ReconcileMissing \/ ActivateIfConsistent
  BY <1>3, <1>20 DEF DeleteOrphaned, ReconcileMissing, ActivateIfConsistent
<1>21. CASE IndexLost
  BY <1>3, <1>21 DEF IndexLost, Quiet, InBuild
<1>22. ASSUME NEW s \in Places, NEW c \in ContentOf(s) \union {Absent}, Change(s, c)
       PROVE  AllEmbedded'
  BY <1>3, <1>22 DEF Change, Quiet, InBuild
<1>23. CASE Finalize
  <2>1. minted \in Nat /\ xseq \in Nat
    BY DEF ProjectionInv, ProjectionTyped
  <2>2. LET h == Finalized(tx)
            n == minted + Cardinality(DOMAIN h.rows) - Cardinality(DOMAIN tx.rows)
        IN  /\ n \in Nat /\ minted <= n
            /\ RegistryTyped(h, n) /\ RowsStay(tx, h) /\ Replayable(h) /\ h.vec = tx.vec
            /\ \A i \in DOMAIN h.rows \ DOMAIN tx.rows : IsAlias(h.rows[i]) /\ i \notin 1..minted
    BY <1>1, <2>1, FinalizedRows
  <2> QED
    BY <1>5, <1>23, <2>2 DEF Finalize
<1> QED
  BY <1>7, <1>9, <1>10, <1>13, <1>14, <1>15, <1>16, <1>17, <1>18, <1>19, <1>20, <1>21, <1>22, <1>23
  DEF ProjectionNext

--------------------------------------------------------------------------------
(* What was paid for *)

Held(o) == IF o \in durable \union InHand THEN 1 ELSE 0

\* A call is made only for an output that is neither recorded nor in hand; when it is lost on the
\* way to the durable cache, that is counted (_docify_gated, _embed_gated).
LEMMA PaidOnceStays ==
  ASSUME ProjectionInv, ProjectionNext
  PROVE  PaidOnce'
PROOF
<1>1. /\ xrun \in RunRecords /\ InHand \intersect durable = {}
      /\ bill \in [Outputs -> Nat] /\ wasted \in [Outputs -> Nat] /\ durable \subseteq Outputs
      /\ \A o \in Outputs : bill[o] <= wasted[o] + Held(o)
  BY DEF ProjectionInv, ProjectionTyped, PaidOnce, Held
<1>2. ASSUME UNCHANGED <<durable, bill, wasted>>, InHand = {}, InHand' = {}
      PROVE  PaidOnce'
  BY <1>1, <1>2 DEF PaidOnce, Held
<1>3. xrun.pc \notin {"extracted", "embedded"} => InHand = {}
  BY DEF InHand
<1>4. xrun'.pc \notin {"extracted", "embedded"} => InHand' = {}
  BY DEF InHand
\* A call.
<1>5. ASSUME NEW o \in Outputs, o \notin durable, InHand = {}, InHand' = {o},
             bill' = [bill EXCEPT ![o] = @ + 1], UNCHANGED <<durable, wasted>>
      PROVE  PaidOnce'
  <2>1. InHand' \intersect durable' = {}
    BY <1>5
  <2>2. \A x \in Outputs : bill'[x] <= wasted'[x] + (IF x \in durable' \union InHand' THEN 1 ELSE 0)
    <3> SUFFICES ASSUME NEW x \in Outputs
                 PROVE  bill'[x] <= wasted'[x] + (IF x \in durable' \union InHand' THEN 1 ELSE 0)
      OBVIOUS
    <3>1. bill[x] \in Nat /\ wasted[x] \in Nat /\ bill[x] <= wasted[x] + Held(x)
      BY <1>1
    <3>2. CASE x = o
      BY <1>1, <1>5, <3>1, <3>2 DEF Held
    <3>3. CASE x # o
      BY <1>1, <1>5, <3>1, <3>3 DEF Held
    <3> QED
      BY <3>2, <3>3
  <2> QED
    BY <2>1, <2>2 DEF PaidOnce
\* The output is recorded, or lost.
<1>6. ASSUME NEW o \in Outputs, InHand = {o}, InHand' = {}, bill' = bill,
             \/ durable' = durable \union {o} /\ wasted' = wasted
             \/ durable' = durable /\ wasted' = [wasted EXCEPT ![o] = @ + 1]
      PROVE  PaidOnce'
  <2>1. InHand' \intersect durable' = {}
    BY <1>6
  <2>2. \A x \in Outputs : bill'[x] <= wasted'[x] + (IF x \in durable' \union InHand' THEN 1 ELSE 0)
    <3> SUFFICES ASSUME NEW x \in Outputs
                 PROVE  bill'[x] <= wasted'[x] + (IF x \in durable' \union InHand' THEN 1 ELSE 0)
      OBVIOUS
    <3>1. bill[x] \in Nat /\ wasted[x] \in Nat /\ bill[x] <= wasted[x] + Held(x)
      BY <1>1
    <3>2. CASE durable' = durable \union {o} /\ wasted' = wasted
      BY <1>1, <1>6, <3>1, <3>2 DEF Held
    <3>3. CASE durable' = durable /\ wasted' = [wasted EXCEPT ![o] = @ + 1]
      BY <1>1, <1>6, <3>1, <3>3 DEF Held
    <3> QED
      BY <1>6, <3>2, <3>3
  <2> QED
    BY <2>1, <2>2 DEF PaidOnce
<1>7. ASSUME NEW s \in Places, TakeDocument(s) PROVE PaidOnce'
  <2>1. /\ xrun.pc = "list" /\ s \in Prose /\ listing[s] \in Contents /\ TakenFrom(s)
        /\ UNCHANGED <<listing, durable, wasted>>
    BY <1>7, DocumentIsTaken
  <2>2. ASSUME NEW ids, xrun' = ToEmbed(s, ids), UNCHANGED bill PROVE PaidOnce'
    <3>1. xrun'.pc = "embed"
      BY <1>1, <2>2 DEF ToEmbed, Taken, RunRecords
    <3> QED
      BY <1>2, <1>3, <1>4, <2>1, <2>2, <3>1
  <2>3. CASE /\ ~InDurable(DocOutput(listing[s]))
             /\ bill' = [bill EXCEPT ![DocOutput(listing[s])] = @ + 1]
             /\ xrun' = [Taken(s) EXCEPT !.pc = "extracted"]
    <3>1. xrun'.pc = "extracted" /\ xrun'.src = s
      BY <1>1, <2>3 DEF Taken, RunRecords
    <3>2. InHand' = {DocOutput(listing[s])} /\ InHand = {}
      BY <2>1, <3>1 DEF InHand
    <3>3. DocOutput(listing[s]) \in Outputs
      BY <2>1 DEF Outputs
    <3> QED
      BY <1>5, <2>1, <2>3, <3>2, <3>3 DEF InDurable
  <2> QED
    BY <2>1, <2>2, <2>3 DEF TakenFrom, DocumentMapped
<1>8. ASSUME NEW b \in BOOLEAN, RecordExtraction(b) PROVE PaidOnce'
  <2> DEFINE o == DocOutput(listing[xrun.src])
  <2>1. xrun.pc = "extracted" /\ listing[xrun.src] \in Contents
    BY <1>8 DEF RecordExtraction, ProjectionInv, Progress
  <2>2. o \in Outputs /\ InHand = {o}
    BY <2>1 DEF Outputs, InHand
  <2>3. xrun'.pc = "embed"
    BY <1>1, <1>8 DEF RecordExtraction, ToEmbed, Taken, RunRecords
  <2>4. /\ bill' = bill
        /\ \/ durable' = durable \union {o} /\ wasted' = wasted
           \/ durable' = durable /\ wasted' = [wasted EXCEPT ![o] = @ + 1]
    BY <1>8 DEF RecordExtraction
  <2> QED
    BY <1>4, <1>6, <2>2, <2>3, <2>4
<1>9. CASE Embed
  <2> DEFINE o == VecOutput(tx.rows[Head(xrun.queue)].text)
  <2>1. xrun.pc = "embed" /\ o \in Outputs /\ UNCHANGED <<durable, wasted>>
    BY <1>9, NextText DEF Embed
  <2>2. CASE xrun' = [xrun EXCEPT !.queue = Tail(@)] /\ bill' = bill
    <3>1. xrun'.pc = "embed"
      BY <1>1, <2>1, <2>2 DEF RunRecords
    <3> QED
      BY <1>2, <1>3, <1>4, <2>1, <2>2, <3>1
  <2>3. CASE /\ ~InDurable(o) /\ bill' = [bill EXCEPT ![o] = @ + 1]
             /\ xrun' = [xrun EXCEPT !.pc = "embedded"] /\ tx' = tx
    <3>1. xrun'.pc = "embedded" /\ xrun'.queue = xrun.queue
      BY <1>1, <2>3 DEF RunRecords
    <3>2. InHand' = {o} /\ InHand = {}
      BY <2>1, <2>3, <3>1 DEF InHand
    <3> QED
      BY <1>5, <2>1, <2>3, <3>2 DEF InDurable
  <2> QED
    BY <1>9, <2>2, <2>3 DEF Embed
<1>10. ASSUME NEW b \in BOOLEAN, RecordVector(b) PROVE PaidOnce'
  <2> DEFINE o == VecOutput(tx.rows[Head(xrun.queue)].text)
  <2>1. xrun.pc = "embedded"
    BY <1>10 DEF RecordVector
  <2>2. o \in Outputs /\ InHand = {o}
    BY <2>1, NextText DEF InHand, ProjectionInv, Progress
  <2>3. xrun'.pc = "embed"
    BY <1>1, <1>10 DEF RecordVector, RunRecords
  <2>4. /\ bill' = bill
        /\ \/ durable' = durable \union {o} /\ wasted' = wasted
           \/ durable' = durable /\ wasted' = [wasted EXCEPT ![o] = @ + 1]
    BY <1>10 DEF RecordVector
  <2> QED
    BY <1>4, <1>6, <2>2, <2>3, <2>4
<1>11. CASE SourceFails \/ Dies
  <2>1. xrun'.pc \in {"list", "done"} /\ wasted' = Lost /\ UNCHANGED <<bill, durable>>
    <3>1. CASE SourceFails
      BY <1>1, <3>1 DEF SourceFails, RunRecords
    <3>2. CASE Dies
      BY <3>2 DEF Dies, Resting
    <3> QED
      BY <1>11, <3>1, <3>2
  <2>2. InHand' = {}
    BY <1>4, <2>1
  <2>3. \A x \in Outputs : bill'[x] <= wasted'[x] + (IF x \in durable' \union InHand' THEN 1 ELSE 0)
    <3> SUFFICES ASSUME NEW x \in Outputs
                 PROVE  bill'[x] <= wasted'[x] + (IF x \in durable' \union InHand' THEN 1 ELSE 0)
      OBVIOUS
    <3>1. bill[x] \in Nat /\ wasted[x] \in Nat /\ bill[x] <= wasted[x] + Held(x)
      BY <1>1
    <3>2. wasted'[x] = IF x \in InHand THEN wasted[x] + 1 ELSE wasted[x]
      BY <2>1 DEF Lost
    <3> QED
      BY <2>1, <3>1, <3>2 DEF Held
  <2> QED
    BY <2>2, <2>3 DEF PaidOnce
<1>12. ASSUME NEW s \in Places, Unchanged(s) PROVE PaidOnce'
  BY <1>1, <1>2, <1>3, <1>4, <1>12 DEF Unchanged, Taken, RunRecords
<1>13. ASSUME NEW s \in Places, TakeCommit(s) PROVE PaidOnce'
  <2>1. xrun'.pc = "embed"
    BY <1>1, <1>13 DEF TakeCommit, ToEmbed, Taken, RunRecords
  <2> QED
    BY <1>2, <1>3, <1>4, <1>13, <2>1 DEF TakeCommit
<1>14. ASSUME UNCHANGED <<durable, bill, wasted>>, xrun.pc \notin {"extracted", "embedded"},
              xrun'.pc \notin {"extracted", "embedded"}
       PROVE  PaidOnce'
  BY <1>2, <1>3, <1>4, <1>14
<1>15. CASE StartBuild
  BY <1>14, <1>15 DEF StartBuild, Quiet, InBuild, Resting
<1>16. CASE UpsertDocuments
  BY <1>1, <1>14, <1>16 DEF UpsertDocuments, RunRecords
<1>17. CASE CommitSource
  BY <1>1, <1>14, <1>17 DEF CommitSource, RunRecords
<1>18. CASE Finalize
  BY <1>1, <1>14, <1>18 DEF Finalize, RunRecords
<1>19. CASE DeleteOrphaned
  BY <1>1, <1>14, <1>19 DEF DeleteOrphaned, RunRecords
<1>20. CASE ReconcileMissing
  BY <1>1, <1>14, <1>20 DEF ReconcileMissing, RunRecords
<1>21. CASE Finish
  BY <1>1, <1>14, <1>21 DEF Finish, RunRecords
<1>22. CASE FinalizeRaises
  BY <1>14, <1>22 DEF FinalizeRaises, Resting
<1>23. CASE ActivateIfConsistent
  BY <1>1, <1>14, <1>23 DEF ActivateIfConsistent, RunRecords
<1>24. CASE IndexLost
  BY <1>1, <1>14, <1>24 DEF IndexLost, Quiet, InBuild, RunRecords
<1>25. ASSUME NEW s \in Places, NEW c \in ContentOf(s) \union {Absent}, Change(s, c)
       PROVE  PaidOnce'
  BY <1>1, <1>14, <1>25 DEF Change, Quiet, InBuild, RunRecords
<1> QED
  BY <1>7, <1>8, <1>9, <1>10, <1>11, <1>12, <1>13, <1>15, <1>16, <1>17, <1>18, <1>19, <1>20, <1>21,
     <1>22, <1>23, <1>24, <1>25 DEF ProjectionNext

--------------------------------------------------------------------------------
(* The index after a build *)

\* What the sweep and the backfill leave is what the registry commits next, and nothing moves
\* it before the gate looks (_reconcile_index, make_consistency_validator).
LEMMA HealingStays ==
  ASSUME ProjectionInv, ProjectionNext
  PROVE  IndexIsHealing'
PROOF
<1> DEFINE Ended == {"completed", "active", "validation_failed"}
<1>1. xrun \in RunRecords /\ Progress /\ IndexIsHealing
  BY DEF ProjectionInv, ProjectionTyped
<1>2. ASSUME xrun'.status \notin Ended, xrun'.pc \notin {"backfill", "finish"}
      PROVE  IndexIsHealing'
  BY <1>2 DEF IndexIsHealing, IndexHeals, ActiveIndexMirrors
<1> HIDE DEF Ended
<1>3. "running" \notin Ended /\ "failed" \notin Ended /\ "none" \notin Ended
  BY DEF Ended
<1>4. InBuild /\ xrun.pc # "gate" => xrun.status = "running"
  BY <1>1 DEF Progress
<1>5. CASE StartBuild
  BY <1>2, <1>3, <1>5 DEF StartBuild, Resting
<1>6. ASSUME NEW s \in Places, Unchanged(s) PROVE IndexIsHealing'
  BY <1>1, <1>2, <1>3, <1>4, <1>6 DEF Unchanged, Taken, InBuild, RunRecords
<1>7. ASSUME xrun'.pc \in {"embed", "extracted"}, InBuild, xrun.pc # "gate", xrun'.status = xrun.status
      PROVE  IndexIsHealing'
  BY <1>2, <1>3, <1>4, <1>7
<1>8. ASSUME NEW s, NEW ids, xrun' = ToEmbed(s, ids)
      PROVE  xrun'.pc = "embed" /\ xrun'.status = xrun.status
  BY <1>1, <1>8 DEF ToEmbed, Taken, RunRecords
<1>9. ASSUME NEW s \in Places, TakeCommit(s) PROVE IndexIsHealing'
  BY <1>7, <1>8, <1>9 DEF TakeCommit, InBuild
<1>10. ASSUME NEW s \in Places, TakeDocument(s) PROVE IndexIsHealing'
  <2>1. xrun.pc = "list" /\ TakenFrom(s)
    BY <1>10, DocumentIsTaken
  <2>2. ASSUME NEW ids, xrun' = ToEmbed(s, ids) PROVE IndexIsHealing'
    BY <1>7, <1>8, <2>1, <2>2 DEF InBuild
  <2>3. CASE xrun' = [Taken(s) EXCEPT !.pc = "extracted"]
    BY <1>1, <1>7, <2>1, <2>3 DEF Taken, InBuild, RunRecords
  <2> QED
    BY <2>1, <2>2, <2>3 DEF TakenFrom, DocumentMapped
<1>11. ASSUME NEW b \in BOOLEAN, RecordExtraction(b) PROVE IndexIsHealing'
  BY <1>7, <1>8, <1>11 DEF RecordExtraction, InBuild
<1>12. CASE Embed
  <2>1. xrun'.pc \in {"embed", "embedded"} /\ xrun'.status = xrun.status
    BY <1>1, <1>12 DEF Embed, RunRecords
  <2> QED
    BY <1>2, <1>3, <1>4, <1>12, <2>1 DEF Embed, InBuild
<1>13. ASSUME NEW b \in BOOLEAN, RecordVector(b) PROVE IndexIsHealing'
  BY <1>1, <1>7, <1>13 DEF RecordVector, InBuild, RunRecords
<1>14. CASE UpsertDocuments
  BY <1>1, <1>2, <1>3, <1>4, <1>14 DEF UpsertDocuments, InBuild, RunRecords
<1>15. CASE CommitSource
  BY <1>1, <1>2, <1>3, <1>4, <1>15 DEF CommitSource, InBuild, RunRecords
<1>16. CASE SourceFails
  BY <1>1, <1>2, <1>3, <1>4, <1>16 DEF SourceFails, InBuild, RunRecords
<1>17. CASE Finalize
  BY <1>1, <1>2, <1>3, <1>4, <1>17 DEF Finalize, InBuild, RunRecords
<1>18. CASE DeleteOrphaned
  <2>1. xrun'.pc = "backfill" /\ xrun'.status = "running" /\ tx' = tx
    BY <1>1, <1>4, <1>18 DEF DeleteOrphaned, InBuild, RunRecords
  <2>2. xrun'.spared \/ Orphans(tx)' = {}
    <3>1. CASE docs' = Without(Orphans(tx))
      BY <2>1, <3>1 DEF Without, Orphans, Projectable
    <3>2. CASE xrun' = [xrun EXCEPT !.pc = "backfill", !.spared = TRUE]
      BY <1>1, <3>2 DEF RunRecords
    <3> QED
      BY <1>18, <3>1, <3>2 DEF DeleteOrphaned
  <2> QED
    BY <1>3, <2>1, <2>2 DEF IndexIsHealing, IndexHeals, ActiveIndexMirrors, Ended
<1>19. CASE ReconcileMissing
  <2>1. xrun'.pc = "finish" /\ xrun'.status = "running" /\ xrun'.spared = xrun.spared /\ tx' = tx
        /\ xrun.pc = "backfill" /\ docs' = Written(Lacking(tx))
    BY <1>1, <1>4, <1>19 DEF ReconcileMissing, Backfill, InBuild, RunRecords
  <2>2. DOMAIN docs' = DOMAIN docs \union Lacking(tx)
    BY <2>1 DEF Written
  <2>3. Projectable(tx)' = Projectable(tx)
    BY <2>1 DEF Projectable
  <2>4. Lacking(tx)' = {}
    BY <2>2, <2>3 DEF Lacking
  <2>5. xrun'.spared \/ Orphans(tx)' = {}
    BY <1>1, <2>1, <2>2, <2>3 DEF IndexIsHealing, Orphans, Lacking
  <2> QED
    BY <1>3, <2>1, <2>4, <2>5 DEF IndexIsHealing, IndexHeals, ActiveIndexMirrors, Ended
<1>20. CASE Finish
  <2>1. /\ xrun.pc = "finish" /\ xrun'.pc = "gate" /\ xrun'.status = "completed"
        /\ xrun'.spared = xrun.spared /\ reg' = tx /\ docs' = docs
    BY <1>1, <1>20 DEF Finish, RunRecords
  <2>2. Lacking(tx) = {} /\ (xrun.spared \/ Orphans(tx) = {})
    BY <1>1, <2>1 DEF IndexIsHealing
  <2>3. Projectable(reg)' = Projectable(tx)
    BY <2>1 DEF Projectable
  <2>4. IndexHeals'
    BY <2>1, <2>2, <2>3 DEF IndexHeals, Lacking, Orphans
  <2> QED
    BY <2>1, <2>4 DEF IndexIsHealing, ActiveIndexMirrors
<1>21. CASE FinalizeRaises
  BY <1>2, <1>3, <1>21 DEF FinalizeRaises, Resting
<1>22. ASSUME xrun'.pc = "done", xrun'.spared = xrun.spared, xrun.status \in Ended,
              UNCHANGED <<reg, docs>>, xrun'.status = "active" => Consistent(reg)
       PROVE  IndexIsHealing'
  <2>1. Projectable(reg)' = Projectable(reg)
    BY <1>22 DEF Projectable
  <2>2. /\ Projectable(reg) \subseteq DOMAIN docs
        /\ xrun.spared \/ DOMAIN docs \subseteq Projectable(reg)
    BY <1>1, <1>22 DEF IndexIsHealing, IndexHeals, Ended
  <2>3. Consistent(reg) => DOMAIN docs = Projectable(reg)
    BY DEF Consistent, Lacking, Orphans
  <2> QED
    BY <1>22, <2>1, <2>2, <2>3 DEF IndexIsHealing, IndexHeals, ActiveIndexMirrors
<1>23. CASE ActivateIfConsistent
  <2>1. xrun.status = "completed"
    BY <1>1, <1>23 DEF ActivateIfConsistent, Progress, InBuild
  <2>2. /\ xrun'.pc = "done" /\ xrun'.spared = xrun.spared /\ UNCHANGED <<reg, docs>>
        /\ xrun'.status = "active" => Consistent(reg)
    BY <1>1, <1>23 DEF ActivateIfConsistent, RunRecords
  <2> QED
    BY <1>22, <2>1, <2>2 DEF Ended
<1>24. CASE Dies
  <2>1. /\ xrun'.pc = "done" /\ xrun'.spared = xrun.spared /\ xrun'.status = xrun.status
        /\ UNCHANGED <<reg, docs>>
    BY <1>24 DEF Dies, Resting
  <2>2. xrun.status \in {"completed", "running"}
    BY <1>1, <1>24 DEF Dies, Progress
  <2>3. CASE xrun.status = "running"
    BY <1>2, <1>3, <2>1, <2>3
  <2>4. CASE xrun.status = "completed"
    BY <1>22, <2>1, <2>4 DEF Ended
  <2> QED
    BY <2>2, <2>3, <2>4
<1>25. CASE IndexLost
  BY <1>1, <1>2, <1>3, <1>25 DEF IndexLost, RunRecords
<1>26. ASSUME NEW s \in Places, NEW c \in ContentOf(s) \union {Absent}, Change(s, c)
       PROVE  IndexIsHealing'
  BY <1>1, <1>2, <1>3, <1>26 DEF Change, RunRecords
<1> QED
  BY <1>5, <1>6, <1>9, <1>10, <1>11, <1>12, <1>13, <1>14, <1>15, <1>16, <1>17, <1>18, <1>19, <1>20,
     <1>21, <1>23, <1>24, <1>25, <1>26 DEF ProjectionNext

--------------------------------------------------------------------------------
(* The index and the caches *)

LEMMA ProjectionStarts == ProjectionInit => ProjectionInv
PROOF
<1> SUFFICES ASSUME ProjectionInit PROVE ProjectionInv
  OBVIOUS
<1>1. /\ reg = EmptyRegistry /\ tx = EmptyRegistry /\ docs = EmptyRegistry.rows
      /\ xrun = Resting /\ minted = 0 /\ xseq = 0 /\ durable = {}
  BY DEF ProjectionInit
<1>2. DOMAIN EmptyRegistry.rows = {} /\ DOMAIN EmptyRegistry.gen = {}
  BY DEF EmptyRegistry
<1>3. RegistryTyped(EmptyRegistry, 0)
  <2>1. EmptyRegistry = [hash |-> EmptyRegistry.hash, gone |-> EmptyRegistry.gone,
                         rows |-> EmptyRegistry.rows, gen |-> EmptyRegistry.gen,
                         vec |-> EmptyRegistry.vec]
    BY DEF EmptyRegistry
  <2>2. EmptyRegistry.hash \in [Places -> Contents \union Commits \union {Absent}]
    BY DEF EmptyRegistry
  <2>3. EmptyRegistry.rows \in [DOMAIN EmptyRegistry.rows -> Rows]
    BY <1>2 DEF EmptyRegistry
  <2> QED
    BY <1>2, <2>1, <2>2, <2>3 DEF RegistryTyped
<1>4. ProjectionTyped
  <2>1. /\ listing \in [Places -> Contents \union Commits \union {Absent}]
        /\ \A s \in Places : listing[s] \in ContentOf(s) \union {Absent}
    BY DEF ProjectionInit
  <2>2. bill \in [Outputs -> Nat] /\ wasted \in [Outputs -> Nat]
    BY DEF ProjectionInit
  <2>3. xrun \in RunRecords
    <3>1. <<>> \in Seq(Nat)
      OBVIOUS
    <3> QED
      BY <1>1, <3>1 DEF Resting, RunRecords, Phases, Statuses
  <2> QED
    BY <1>1, <1>2, <1>3, <2>1, <2>2, <2>3 DEF ProjectionTyped
<1>5. Progress
  BY <1>1 DEF Progress, InBuild, Resting
<1>6. RegistriesAgree
  BY <1>1, <1>2 DEF RegistriesAgree, Replayable, RowsStay, DocumentsMatch
<1>7. AllEmbedded
  BY <1>1, <1>2 DEF AllEmbedded
<1>8. PaidOnce
  <2>1. InHand = {}
    BY <1>1 DEF InHand, Resting
  <2>2. \A o \in Outputs : bill[o] = 0 /\ wasted[o] = 0
    BY DEF ProjectionInit
  <2> QED
    BY <2>1, <2>2 DEF PaidOnce
<1>9. IndexIsHealing
  BY <1>1 DEF IndexIsHealing, IndexHeals, ActiveIndexMirrors, Resting
<1> QED
  BY <1>4, <1>5, <1>6, <1>7, <1>8, <1>9 DEF ProjectionInv

LEMMA ProjectionInvariant == ProjectionSpec => []ProjectionInv
PROOF
<1>1. ProjectionInit => ProjectionInv
  BY ProjectionStarts
<1>2. ProjectionInv /\ [ProjectionNext]_projectionVars => ProjectionInv'
  <2> SUFFICES ASSUME ProjectionInv, [ProjectionNext]_projectionVars PROVE ProjectionInv'
    OBVIOUS
  <2>1. CASE ProjectionNext
    BY <2>1, ProjectionStaysTyped, ProgressStays, AgreementStays, VectorsStay, PaidOnceStays, HealingStays
    DEF ProjectionInv
  <2>2. CASE UNCHANGED projectionVars
    <3>1. /\ ProjectionTyped' /\ Progress'
      BY <2>2 DEF projectionVars, ProjectionInv, ProjectionTyped, Progress, InBuild
    <3>2. RegistriesAgree' /\ AllEmbedded'
      BY <2>2 DEF projectionVars, ProjectionInv, RegistriesAgree, DocumentsMatch, AllEmbedded
    <3>3. PaidOnce'
      BY <2>2 DEF projectionVars, ProjectionInv, PaidOnce, InHand
    <3>4. IndexIsHealing'
      BY <2>2 DEF projectionVars, ProjectionInv, IndexIsHealing, IndexHeals, ActiveIndexMirrors,
                  Orphans, Lacking, Projectable
    <3> QED
      BY <3>1, <3>2, <3>3, <3>4 DEF ProjectionInv
  <2> QED
    BY <2>1, <2>2
<1> QED
  BY <1>1, <1>2, PTL DEF ProjectionSpec

\* No output is paid for twice but for those lost before they were recorded, and a cached
\* generation leads to committed rows of its content, wherever builds fail or die
\* (_docify_gated, _embed_gated, GenerationCacheGate.record).
THEOREM CachesSafety == ProjectionSpec => []CachesAreSound
PROOF
<1>1. ProjectionInv => CachesAreSound
  <2> SUFFICES ASSUME ProjectionInv PROVE CachesAreSound
    OBVIOUS
  <2>1. OutputsArePaidOnce
    <3> SUFFICES ASSUME NEW o \in Outputs PROVE bill[o] <= 1 + wasted[o]
      BY DEF OutputsArePaidOnce
    <3>1. bill[o] \in Nat /\ wasted[o] \in Nat
      BY DEF ProjectionInv, ProjectionTyped
    <3>2. bill[o] <= wasted[o] + (IF o \in durable \union InHand THEN 1 ELSE 0)
      BY DEF ProjectionInv, PaidOnce
    <3> QED
      BY <3>1, <3>2
  <2>2. CacheRowsHaveArtifacts
    BY DEF ProjectionInv, RegistriesAgree, Replayable, CacheRowsHaveArtifacts
  <2> QED
    BY <2>1, <2>2 DEF CachesAreSound
<1> QED
  BY <1>1, ProjectionInvariant, PTL

\* After a build the index holds a document for every row that should have one, a version is
\* activated only over an index that mirrors its registry, and every document that readers find
\* has a vector of its text (_reconcile_index, make_consistency_validator, _embed_gated).
THEOREM IndexSafety == ProjectionSpec => []IndexFollowsRegistry
PROOF
<1>1. ProjectionInv => IndexFollowsRegistry
  <2> SUFFICES ASSUME ProjectionInv PROVE IndexFollowsRegistry
    OBVIOUS
  <2>1. IndexHeals /\ ActiveIndexMirrors
    BY DEF ProjectionInv, IndexIsHealing
  <2>2. DocumentsHaveVectors
    <3> SUFFICES ASSUME xrun.status = "active", NEW i \in DOMAIN docs
                 PROVE  IsAlias(reg.rows[i]) \/ <<i, docs[i]>> \in reg.vec
      BY DEF DocumentsHaveVectors
    <3>1. i \in DOMAIN reg.rows
      BY <2>1 DEF ActiveIndexMirrors, Projectable
    <3>2. Embedded(reg, i)
      BY <3>1 DEF ProjectionInv, AllEmbedded
    <3>3. ~IsAlias(reg.rows[i]) => docs[i] = reg.rows[i].text
      BY <3>1 DEF ProjectionInv, RegistriesAgree, DocumentsMatch
    <3> QED
      BY <3>2, <3>3 DEF Embedded
  <2> QED
    BY <2>1, <2>2 DEF IndexFollowsRegistry
<1> QED
  BY <1>1, ProjectionInvariant, PTL

--------------------------------------------------------------------------------
(* The judge: what holds of a registry of edges and of a run *)

Reversed(p) == <<p[2], p[1]>>

\* An edge the registry may show: a claim rests on a span of one of its two texts.
Hint(e, p) ==
  /\ e = [from |-> e.from, until |-> e.until, bucket |-> e.bucket, quote |-> e.quote]
  /\ e.bucket \in Buckets \ {"REJECTED"}
  /\ e.bucket \in Inferred => e.quote \in Spans(p)

\* Edges are not dropped, and keep the build that introduced them.
Keeps(old, new) == \A p \in DOMAIN old : p \in DOMAIN new /\ new[p].from = old[p].from

Ruling(v) == v = [bucket |-> v.bucket, quote |-> v.quote] /\ v.bucket \in Buckets

StoreTyped(w) ==
  /\ w = [in |-> w.in, out |-> w.out, removed |-> w.removed, edges |-> w.edges, cache |-> w.cache]
  /\ w.in \subseteq Arts
  /\ \A p \in DOMAIN w.edges : Hint(w.edges[p], p)
  /\ \A ck \in DOMAIN w.cache : Ruling(w.cache[ck])

\* The progress of a pass, as far as it has come.
PassTyped ==
  \/ jrun = Idle
  \/ jrun = [pc |-> "linked", model |-> jrun.model, plan |-> jrun.plan] /\ jseq > 0
  \/ /\ jrun = [pc |-> jrun.pc, model |-> jrun.model, plan |-> jrun.plan, facts |-> jrun.facts,
                cands |-> jrun.cands, todo |-> jrun.todo, computed |-> jrun.computed]
     /\ jrun.pc \in {"judge", "completed"} /\ jseq > 0

JudgeTyped ==
  /\ StoreTyped(db) /\ StoreTyped(work) /\ PassTyped
  /\ jseq \in 0..MaxJudged /\ rolled \in Nat

\* What the cache says of a candidate.
Cached(p) == GuardQuote(work.cache[CacheKey(p, jrun.model)], p).bucket

\* The verdict of a candidate that has had its turn is cached; unless it is a rejection there
\* is an edge with it.
TurnsAreTaken ==
  jrun.pc \in {"judge", "completed"} =>
    /\ jrun.cands \subseteq Pairs
    /\ \A p \in jrun.cands : p \notin jrun.facts /\ Reversed(p) \notin jrun.facts
    /\ jrun.todo \subseteq jrun.cands /\ jrun.computed \subseteq jrun.cands \ jrun.todo
    /\ \A p \in jrun.cands \ jrun.todo :
         /\ CacheKey(p, jrun.model) \in DOMAIN work.cache
         /\ p \in jrun.computed <=> Cached(p) # "REJECTED"
    /\ \A p \in jrun.computed : p \in DOMAIN work.edges /\ work.edges[p].bucket = Cached(p)
    /\ jrun.pc = "judge" => \A p \in jrun.computed : work.edges[p].until = 0
    /\ jrun.pc = "completed" => jrun.todo = {}

\* A call is either in the cache of the session or was lost with a transaction.
CallsAreCached ==
  \A ck \in DOMAIN asked :
    /\ asked[ck] \in Nat
    /\ asked[ck] <= rolled + (IF ck \in DOMAIN work.cache THEN 1 ELSE 0)

JudgeInv ==
  /\ JudgeTyped /\ TurnsAreTaken /\ CallsAreCached
  /\ jrun.pc \in {"idle", "completed"} => work = db
  /\ JudgeEdgesFollowTheRun

LEMMA LeastExists ==
  ASSUME NEW S, S \subseteq Nat, S # {}
  PROVE  \E x \in S : \A y \in S : x <= y
<1> DEFINE R == OpToRel(<, Nat)
<1>1. \A x, y \in Nat : <<y, x>> \in R <=> y < x
  BY DEF OpToRel
<1>2. IsWellFoundedOn(R, Nat)
  BY NatLessThanWellFounded
<1> HIDE DEF R
<1>3. PICK x \in S : \A y \in S : ~ (<<y, x>> \in R)
  BY <1>2, WFMin, Zenon
<1>4. ASSUME NEW y \in S
      PROVE  x <= y
  <2>1. x \in Nat /\ y \in Nat
    OBVIOUS
  <2>2. ~(y < x)
    BY <1>1, <1>3, <2>1
  <2> QED
    BY <2>1, <2>2
<1> QED
  BY <1>4

\* A run that has candidates left takes one of them up (`for candidate in candidates`).
LEMMA FirstIsOne ==
  ASSUME NEW ps, ps \subseteq Nat \X Nat, ps # {}
  PROVE  First(ps) \in ps
<1>1. PICK x \in {p[1] : p \in ps} : \A y \in {p[1] : p \in ps} : x <= y
  <2>1. {p[1] : p \in ps} \subseteq Nat /\ {p[1] : p \in ps} # {}
    OBVIOUS
  <2> QED
    BY <2>1, LeastExists
<1> DEFINE row == {p \in ps : p[1] = x}
<1>2. PICK z \in {p[2] : p \in row} : \A y \in {p[2] : p \in row} : z <= y
  <2>1. {p[2] : p \in row} \subseteq Nat /\ {p[2] : p \in row} # {}
    BY <1>1
  <2> QED
    BY <2>1, LeastExists
<1>3. PICK p \in row : p[2] = z
  BY <1>2
<1>4. ASSUME NEW q \in ps
      PROVE  p[1] < q[1] \/ (p[1] = q[1] /\ p[2] <= q[2])
  <2>1. p[1] \in Nat /\ q[1] \in Nat /\ p[1] <= q[1]
    BY <1>1, <1>3
  <2>2. CASE q[1] = p[1]
    BY <2>2, <1>2, <1>3
  <2> QED
    BY <2>1, <2>2
<1> QED
  BY <1>3, <1>4 DEF First

\* Both directions of a pair are looked up under the same key, and guarded alike.
LEMMA OneKeyPerPair ==
  ASSUME NEW p
  PROVE  /\ Spans(Reversed(p)) = Spans(p)
         /\ \A m : CacheKey(Reversed(p), m) = CacheKey(p, m)
         /\ \A v : GuardQuote(v, Reversed(p)) = GuardQuote(v, p)
<1>1. Spans(Reversed(p)) = Spans(p)
  BY DEF Spans, Reversed
<1> QED
  BY <1>1 DEF CacheKey, GuardQuote

\* What the guard lets through is grounded.
LEMMA GuardGrounds ==
  ASSUME NEW v, Ruling(v), NEW p
  PROVE  /\ Ruling(GuardQuote(v, p))
         /\ LET g == GuardQuote(v, p) IN g.bucket \in Inferred => g.quote \in Spans(p)
<1>1. CASE v.bucket \in Inferred /\ v.quote \notin Spans(p)
  <2>1. GuardQuote(v, p) = [bucket |-> "AMBIGUOUS", quote |-> v.quote]
    BY <1>1 DEF GuardQuote, Ruling
  <2> QED
    BY <2>1 DEF Ruling, Buckets, Inferred
<1>2. CASE ~(v.bucket \in Inferred /\ v.quote \notin Spans(p))
  BY <1>2 DEF GuardQuote, Ruling
<1> QED
  BY <1>1, <1>2

LEMMA VerdictRules ==
  ASSUME NEW raw, NEW p
  PROVE  Ruling(Verdict(raw, p))
<1>1. Ruling(Parsed(raw[Min(Usable(raw))]))
  BY DEF Ruling, Parsed, Buckets
<1> QED
  BY <1>1, GuardGrounds DEF Verdict

--------------------------------------------------------------------------------
(* A turn *)

\* A candidate's turn leaves the cache with its verdict, and the registry with its edge.
LEMMA TurnTaken ==
  ASSUME JudgeTyped, TurnsAreTaken, jrun.pc = "judge", NEW p \in jrun.todo, NEW c,
         \A ck \in DOMAIN c : Ruling(c[ck]),
         \A ck \in DOMAIN work.cache : ck \in DOMAIN c /\ c[ck] = work.cache[ck],
         CacheKey(p, jrun.model) \in DOMAIN c,
         Ruled([work EXCEPT !.cache = c], GuardQuote(c[CacheKey(p, jrun.model)], p), p),
         UNCHANGED <<db, jseq, rolled>>
  PROVE  /\ JudgeTyped' /\ TurnsAreTaken' /\ jrun'.pc = "judge" /\ work'.cache = c
         /\ Keeps(work.edges, work'.edges)
<1> DEFINE v == GuardQuote(c[CacheKey(p, jrun.model)], p)
           w == [work EXCEPT !.cache = c]
           edges == IF v.bucket = "REJECTED" THEN work.edges ELSE Upserted(work.edges, p, v)
           done == IF v.bucket = "REJECTED" THEN jrun.computed ELSE jrun.computed \union {p}
<1>1. w = [in |-> work.in, out |-> work.out, removed |-> work.removed,
           edges |-> work.edges, cache |-> c]
  BY DEF JudgeTyped, StoreTyped
<1>2. work' = [in |-> work.in, out |-> work.out, removed |-> work.removed,
               edges |-> edges, cache |-> c]
  <2>1. work' = IF v.bucket = "REJECTED" THEN w ELSE [w EXCEPT !.edges = Upserted(@, p, v)]
    BY DEF Ruled
  <2> HIDE DEF v, w
  <2> QED
    BY <1>1, <2>1
<1>3. /\ jrun = [pc |-> "judge", model |-> jrun.model, plan |-> jrun.plan, facts |-> jrun.facts,
                 cands |-> jrun.cands, todo |-> jrun.todo, computed |-> jrun.computed]
      /\ jseq > 0
  BY DEF JudgeTyped, PassTyped, Idle
<1>4. jrun' = [pc |-> "judge", model |-> jrun.model, plan |-> jrun.plan, facts |-> jrun.facts,
               cands |-> jrun.cands, todo |-> jrun.todo \ {p}, computed |-> done]
  <2>1. jrun' = [jrun EXCEPT !.todo = @ \ {p},
                             !.computed = IF v.bucket = "REJECTED" THEN @ ELSE @ \union {p}]
    BY DEF Ruled
  <2> HIDE DEF v
  <2> QED
    BY <1>3, <2>1
<1>5. Ruling(v) /\ (v.bucket \in Inferred => v.quote \in Spans(p))
  BY GuardGrounds
<1>6. /\ v.bucket # "REJECTED" => p \in DOMAIN edges /\ Hint(edges[p], p) /\ edges[p].until = 0
                                  /\ edges[p].bucket = v.bucket
      /\ DOMAIN work.edges \subseteq DOMAIN edges
      /\ DOMAIN edges \subseteq DOMAIN work.edges \union (IF v.bucket = "REJECTED" THEN {} ELSE {p})
      /\ \A q \in DOMAIN work.edges : q # p => edges[q] = work.edges[q]
      /\ p \in DOMAIN work.edges => edges[p].from = work.edges[p].from
      /\ v.bucket = "REJECTED" => edges = work.edges
  <2>1. v.bucket \in Buckets
    BY <1>5 DEF Ruling
  <2> HIDE DEF v
  <2> QED
    BY <1>5, <2>1 DEF Upserted, Hint
<1>7. JudgeTyped'
  <2>1. \A q \in DOMAIN edges : Hint(edges[q], q)
    BY <1>6 DEF JudgeTyped, StoreTyped
  <2> HIDE DEF edges, done
  <2>2. StoreTyped(work')
    BY <1>2, <2>1 DEF StoreTyped, JudgeTyped
  <2>3. PassTyped'
    BY <1>3, <1>4 DEF PassTyped
  <2> QED
    BY <2>2, <2>3 DEF JudgeTyped, StoreTyped
<1>8. TurnsAreTaken'
  <2> DEFINE ruled(q) == GuardQuote(c[CacheKey(q, jrun.model)], q).bucket
  <2>1. \A q \in jrun.cands \ jrun.todo :
          /\ CacheKey(q, jrun.model) \in DOMAIN c
          /\ ruled(q) = Cached(q)
    BY DEF TurnsAreTaken, Cached
  <2>2. /\ \A q \in jrun.cands \ (jrun.todo \ {p}) :
             /\ CacheKey(q, jrun.model) \in DOMAIN c
             /\ q \in done <=> ruled(q) # "REJECTED"
        /\ jrun.todo \ {p} \subseteq jrun.cands
        /\ done \subseteq jrun.cands \ (jrun.todo \ {p})
    <3>1. /\ jrun.todo \subseteq jrun.cands /\ jrun.computed \subseteq jrun.cands \ jrun.todo
          /\ \A q \in jrun.cands \ jrun.todo : q \in jrun.computed <=> ruled(q) # "REJECTED"
      BY <2>1 DEF TurnsAreTaken
    <3>2. ruled(p) = v.bucket
      OBVIOUS
    <3> HIDE DEF ruled, v
    <3> QED
      BY <2>1, <3>1, <3>2
  <2>3. \A q \in done : /\ q \in DOMAIN edges /\ edges[q].until = 0
                       /\ edges[q].bucket = ruled(q)
    <3>1. \A q \in jrun.computed : /\ q # p /\ q \in DOMAIN work.edges
                                   /\ work.edges[q].until = 0
                                   /\ work.edges[q].bucket = ruled(q)
      BY <2>1 DEF TurnsAreTaken
    <3>2. ruled(p) = v.bucket
      OBVIOUS
    <3> HIDE DEF ruled, v, edges
    <3> QED
      BY <1>6, <3>1, <3>2
  <2>4. \A q : Cached(q)' = ruled(q)
    <3> HIDE DEF edges, done
    <3> QED
      BY <1>2, <1>4 DEF Cached
  <2> HIDE DEF edges, done, ruled
  <2>5. /\ jrun.cands \subseteq Pairs
        /\ \A q \in jrun.cands : q \notin jrun.facts /\ Reversed(q) \notin jrun.facts
    BY DEF TurnsAreTaken
  <2>6. /\ jrun'.pc = "judge" /\ jrun'.cands = jrun.cands /\ jrun'.facts = jrun.facts
        /\ jrun'.todo = jrun.todo \ {p} /\ jrun'.computed = done /\ jrun'.model = jrun.model
        /\ work'.edges = edges /\ work'.cache = c
    BY <1>2, <1>4
  <2> QED
    BY <2>2, <2>3, <2>4, <2>5, <2>6 DEF TurnsAreTaken
<1>9. Keeps(work.edges, edges)
  BY <1>6 DEF Keeps
<1> HIDE DEF edges
<1> QED
  BY <1>2, <1>4, <1>7, <1>8, <1>9

--------------------------------------------------------------------------------
(* Each step keeps the invariant *)

LEMMA TakesUp ==
  ASSUME JudgeAssumption, TurnsAreTaken, jrun.pc = "judge", jrun.todo # {}
  PROVE  First(jrun.todo) \in jrun.todo
<1>1. jrun.todo \subseteq Nat \X Nat
  BY DEF JudgeAssumption, TurnsAreTaken, Pairs
<1> QED
  BY <1>1, FirstIsOne

LEMMA BuildStep ==
  ASSUME JudgeAssumption, JudgeInv, NEW m \in Models, JudgeBuild(m)
  PROVE  JudgeInv'
<1> DEFINE w == [db EXCEPT !.in = @ \union Plans[jseq + 1].adds]
<1>1. w = [in |-> db.in \union Plans[jseq + 1].adds, out |-> db.out, removed |-> db.removed,
           edges |-> db.edges, cache |-> db.cache]
  <2>1. db = [in |-> db.in, out |-> db.out, removed |-> db.removed, edges |-> db.edges,
              cache |-> db.cache]
    BY DEF JudgeInv, JudgeTyped, StoreTyped
  <2> DEFINE all == db.in \union Plans[jseq + 1].adds
  <2> HIDE DEF all
  <2>2. [db EXCEPT !.in = all]
          = [in |-> all, out |-> db.out, removed |-> db.removed, edges |-> db.edges,
             cache |-> db.cache]
    BY <2>1
  <2> QED
    BY <2>2 DEF all
<1>2. /\ db' = w /\ work' = w /\ jseq' = jseq + 1 /\ jseq < MaxJudged /\ jrun.pc = "idle"
      /\ jrun' = [pc |-> "linked", model |-> m, plan |-> Plans[jseq + 1]]
      /\ UNCHANGED <<asked, rolled>>
  BY DEF JudgeBuild, Idle
<1>3. jseq + 1 \in 1..MaxJudged /\ Plans[jseq + 1].adds \subseteq Arts
  BY <1>2 DEF JudgeAssumption, JudgeInv, JudgeTyped
<1> HIDE DEF w
<1>4. StoreTyped(w)
  BY <1>1, <1>3 DEF StoreTyped, JudgeInv, JudgeTyped
<1>5. JudgeTyped'
  <2>1. StoreTyped(db') /\ StoreTyped(work')
    BY <1>2, <1>4
  <2>2. PassTyped'
    BY <1>2, <1>3 DEF PassTyped
  <2> QED
    BY <1>2, <1>3, <2>1, <2>2 DEF JudgeTyped, StoreTyped, JudgeInv, JudgeAssumption
<1>6. CallsAreCached'
  <2>1. work'.cache = work.cache
    BY <1>1, <1>2 DEF JudgeInv
  <2> QED
    BY <1>2, <2>1 DEF CallsAreCached, JudgeInv
<1>7. jrun'.pc = "linked"
  BY <1>2
<1> QED
  BY <1>5, <1>6, <1>7 DEF JudgeInv, TurnsAreTaken, JudgeEdgesFollowTheRun

LEMMA CandidatesAreEligible ==
  ASSUME NEW w, NEW facts
  PROVE  Judgeable(Bounded(Drafts(w, facts))) \subseteq Eligible(Linkable(w), facts)
<1>1. DOMAIN Drafts(w, facts) \subseteq Eligible(Linkable(w), facts)
  BY DEF Drafts
<1> QED
  BY <1>1 DEF Judgeable, Bounded

LEMMA GenerateStep ==
  ASSUME JudgeAssumption, JudgeInv, Generate
  PROVE  JudgeInv'
<1> DEFINE facts == Facts(work)
           ps == Judgeable(Bounded(Drafts(work, facts)))
<1>1. /\ jrun.pc = "linked"
      /\ jrun' = [pc |-> "judge", model |-> jrun.model, plan |-> jrun.plan, facts |-> facts,
                  cands |-> ps, todo |-> ps, computed |-> {}]
      /\ UNCHANGED <<db, work, jseq, asked, rolled>>
  BY DEF Generate
<1>2. ps \subseteq Eligible(Linkable(work), facts)
  BY CandidatesAreEligible
<1> HIDE DEF facts, ps
<1>3. /\ ps \subseteq Pairs
      /\ \A p \in ps : p \notin facts /\ Reversed(p) \notin facts
  BY <1>2 DEF Eligible, Linkable, Pairs, Reversed, JudgeInv, JudgeTyped, StoreTyped
<1>4. JudgeTyped'
  <2>1. jseq > 0
    BY <1>1 DEF JudgeInv, JudgeTyped, PassTyped, Idle
  <2>2. PassTyped'
    BY <1>1, <2>1 DEF PassTyped
  <2> QED
    BY <1>1, <2>2 DEF JudgeInv, JudgeTyped, StoreTyped
<1>5. /\ jrun'.pc = "judge" /\ jrun'.facts = facts /\ jrun'.cands = ps /\ jrun'.todo = ps
      /\ jrun'.computed = {}
  BY <1>1
<1>6. TurnsAreTaken'
  BY <1>3, <1>5 DEF TurnsAreTaken
<1>7. CallsAreCached'
  BY <1>1 DEF JudgeInv, CallsAreCached
<1> QED
  BY <1>4, <1>5, <1>6, <1>7 DEF JudgeInv, JudgeEdgesFollowTheRun

LEMMA HitStep ==
  ASSUME JudgeAssumption, JudgeInv, Hit
  PROVE  JudgeInv' /\ Keeps(work.edges, work'.edges)
<1> DEFINE p == First(jrun.todo)
           ck == CacheKey(p, jrun.model)
<1>1. /\ jrun.pc = "judge" /\ jrun.todo # {} /\ ck \in DOMAIN work.cache
      /\ Ruled(work, GuardQuote(work.cache[ck], p), p)
      /\ UNCHANGED <<db, jseq, asked, rolled>>
  BY DEF Hit
<1>2. p \in jrun.todo
  BY <1>1, TakesUp DEF JudgeInv
<1>3. work = [work EXCEPT !.cache = work.cache]
  BY DEF JudgeInv, JudgeTyped, StoreTyped
<1> HIDE DEF p
<1>4. /\ JudgeTyped' /\ TurnsAreTaken' /\ jrun'.pc = "judge" /\ work'.cache = work.cache
      /\ Keeps(work.edges, work'.edges)
  <2>1. Ruled([work EXCEPT !.cache = work.cache],
              GuardQuote(work.cache[CacheKey(p, jrun.model)], p), p)
    BY <1>1, <1>3
  <2>2. \A k \in DOMAIN work.cache : Ruling(work.cache[k])
    BY DEF JudgeInv, JudgeTyped, StoreTyped
  <2> QED
    BY <1>1, <1>2, <2>1, <2>2, TurnTaken DEF JudgeInv
<1>5. CallsAreCached'
  BY <1>1, <1>4 DEF JudgeInv, CallsAreCached
<1> QED
  BY <1>4, <1>5 DEF JudgeInv, JudgeEdgesFollowTheRun

LEMMA JudgeStep ==
  ASSUME JudgeAssumption, JudgeInv, NEW raw, Judge(raw)
  PROVE  JudgeInv' /\ Keeps(work.edges, work'.edges)
<1> DEFINE p == First(jrun.todo)
           ck == CacheKey(p, jrun.model)
           v == Verdict(raw, p)
           c == Recorded(work.cache, ck, v)
<1>1. /\ jrun.pc = "judge" /\ jrun.todo # {} /\ ck \notin DOMAIN work.cache
      /\ asked' = [x \in DOMAIN asked \union {ck} |->
                     IF x = ck THEN (IF ck \in DOMAIN asked THEN asked[ck] ELSE 0) + 1
                     ELSE asked[x]]
      /\ Ruled([work EXCEPT !.cache = Recorded(@, ck, v)], GuardQuote(v, p), p)
      /\ UNCHANGED <<db, jseq, rolled>>
  BY DEF Judge
<1>2. p \in jrun.todo
  BY <1>1, TakesUp DEF JudgeInv
<1>3. Ruling(v)
  BY VerdictRules
<1>4. [work EXCEPT !.cache = Recorded(@, ck, v)] = [work EXCEPT !.cache = c]
  OBVIOUS
<1> HIDE DEF p, v
<1>5. /\ DOMAIN c = DOMAIN work.cache \union {ck} /\ c[ck] = v
      /\ \A k \in DOMAIN work.cache : c[k] = work.cache[k]
  BY <1>1 DEF Recorded
<1> HIDE DEF c
<1>6. /\ JudgeTyped' /\ TurnsAreTaken' /\ jrun'.pc = "judge" /\ work'.cache = c
      /\ Keeps(work.edges, work'.edges)
  <2>1. Ruled([work EXCEPT !.cache = c], GuardQuote(c[CacheKey(p, jrun.model)], p), p)
    BY <1>1, <1>4, <1>5
  <2>2. \A k \in DOMAIN c : Ruling(c[k])
    BY <1>3, <1>5 DEF JudgeInv, JudgeTyped, StoreTyped
  <2>3. CacheKey(p, jrun.model) \in DOMAIN c
    BY <1>5
  <2> QED
    BY <1>1, <1>2, <1>5, <2>1, <2>2, <2>3, TurnTaken DEF JudgeInv
<1> HIDE DEF ck
<1>7. CallsAreCached'
  BY <1>1, <1>5, <1>6 DEF JudgeInv, JudgeTyped, CallsAreCached
<1> QED
  BY <1>6, <1>7 DEF JudgeInv, JudgeEdgesFollowTheRun

LEMMA RollBackStep ==
  ASSUME JudgeInv, RollBack
  PROVE  JudgeInv'
<1>1. /\ jrun' = Idle /\ work' = db /\ rolled' = rolled + 1 /\ UNCHANGED <<db, jseq, asked>>
  BY DEF RollBack
<1>2. jrun'.pc = "idle"
  BY <1>1 DEF Idle
<1>3. JudgeTyped'
  <2>1. PassTyped'
    BY <1>1 DEF PassTyped
  <2> QED
    BY <1>1, <2>1 DEF JudgeInv, JudgeTyped, StoreTyped
<1>4. CallsAreCached'
  BY <1>1 DEF JudgeInv, JudgeTyped, CallsAreCached
<1> QED
  BY <1>1, <1>2, <1>3, <1>4 DEF JudgeInv, TurnsAreTaken, JudgeEdgesFollowTheRun

LEMMA PublishStep ==
  ASSUME JudgeInv, NEW acc \in BOOLEAN, PublishJudged(acc)
  PROVE  JudgeInv'
<1>1. jrun.pc = "completed" /\ jrun' = Idle /\ UNCHANGED <<db, work, jseq, asked, rolled>>
  BY DEF PublishJudged
<1>2. jrun'.pc = "idle"
  BY <1>1 DEF Idle
<1>3. JudgeTyped'
  <2>1. PassTyped'
    BY <1>1 DEF PassTyped
  <2> QED
    BY <1>1, <2>1 DEF JudgeInv, JudgeTyped, StoreTyped
<1>4. CallsAreCached'
  BY <1>1 DEF JudgeInv, CallsAreCached
<1> QED
  BY <1>1, <1>2, <1>3, <1>4 DEF JudgeInv, TurnsAreTaken, JudgeEdgesFollowTheRun

\* What the sweep and the invalidation pass leave of the edges: nothing but the end of an edge
\* changes, and a computed edge ends only with one of its artifacts.
LEMMA EdgesAfterSweep ==
  ASSUME JudgeTyped, TurnsAreTaken, jrun.pc = "judge"
  PROVE  LET edges == ClosedWith(StaleSwept(work.edges), Gone)
         IN  /\ DOMAIN edges = DOMAIN work.edges
             /\ \A p \in DOMAIN edges : /\ Hint(edges[p], p)
                                        /\ edges[p].from = work.edges[p].from
                                        /\ edges[p].bucket = work.edges[p].bucket
             /\ jrun.cands # {} =>
                  \A p \in DOMAIN edges : edges[p].until = 0 => p \in jrun.computed
             /\ \A p \in jrun.computed : edges[p].until # 0 => {p[1], p[2]} \cap Gone # {}
<1> DEFINE swept == StaleSwept(work.edges)
           edges == ClosedWith(swept, Gone)
<1>1. jseq # 0
  BY DEF JudgeTyped, PassTyped, Idle
<1>2. \A p \in DOMAIN work.edges : Hint(work.edges[p], p)
  BY DEF JudgeTyped, StoreTyped
<1>3. \A p \in jrun.computed : p \in DOMAIN work.edges /\ work.edges[p].until = 0
  BY DEF TurnsAreTaken
<1>4. ASSUME NEW e, NEW p, Hint(e, p)
      PROVE  [e EXCEPT !.until = jseq]
               = [from |-> e.from, until |-> jseq, bucket |-> e.bucket, quote |-> e.quote]
  BY <1>4 DEF Hint
<1>5. /\ DOMAIN swept = DOMAIN work.edges
      /\ \A p \in DOMAIN swept :
           swept[p] = IF work.edges[p].until = 0 /\ jrun.cands # {} /\ p \notin jrun.computed
                      THEN [work.edges[p] EXCEPT !.until = jseq] ELSE work.edges[p]
  BY DEF StaleSwept
<1> HIDE DEF swept
<1>6. \A p \in DOMAIN swept :
        /\ Hint(swept[p], p) /\ swept[p].from = work.edges[p].from
        /\ swept[p].bucket = work.edges[p].bucket
        /\ jrun.cands # {} /\ swept[p].until = 0 => p \in jrun.computed
        /\ p \in jrun.computed => swept[p].until = 0
  <2> SUFFICES ASSUME NEW p \in DOMAIN swept
               PROVE  /\ Hint(swept[p], p) /\ swept[p].from = work.edges[p].from
                      /\ swept[p].bucket = work.edges[p].bucket
                      /\ jrun.cands # {} /\ swept[p].until = 0 => p \in jrun.computed
                      /\ p \in jrun.computed => swept[p].until = 0
    OBVIOUS
  <2>1. CASE work.edges[p].until = 0 /\ jrun.cands # {} /\ p \notin jrun.computed
    <3>1. swept[p] = [from |-> work.edges[p].from, until |-> jseq,
                      bucket |-> work.edges[p].bucket, quote |-> work.edges[p].quote]
      BY <1>2, <1>4, <1>5, <2>1
    <3> QED
      BY <1>1, <1>2, <1>5, <2>1, <3>1 DEF Hint
  <2>2. CASE ~(work.edges[p].until = 0 /\ jrun.cands # {} /\ p \notin jrun.computed)
    <3>1. swept[p] = work.edges[p]
      BY <1>5, <2>2
    <3> QED
      BY <1>2, <1>3, <1>5, <2>2, <3>1
  <2> QED
    BY <2>1, <2>2
<1>7. /\ DOMAIN edges = DOMAIN swept
      /\ \A p \in DOMAIN edges :
           edges[p] = IF swept[p].until = 0 /\ {p[1], p[2]} \cap Gone # {}
                      THEN [swept[p] EXCEPT !.until = jseq] ELSE swept[p]
  BY DEF ClosedWith
<1> HIDE DEF edges
<1>8. \A p \in DOMAIN edges :
        /\ Hint(edges[p], p) /\ edges[p].from = swept[p].from /\ edges[p].bucket = swept[p].bucket
        /\ edges[p].until = 0 => swept[p].until = 0
        /\ swept[p].until = 0 /\ edges[p].until # 0 => {p[1], p[2]} \cap Gone # {}
  <2> SUFFICES ASSUME NEW p \in DOMAIN edges
               PROVE  /\ Hint(edges[p], p) /\ edges[p].from = swept[p].from
                      /\ edges[p].bucket = swept[p].bucket
                      /\ edges[p].until = 0 => swept[p].until = 0
                      /\ swept[p].until = 0 /\ edges[p].until # 0 => {p[1], p[2]} \cap Gone # {}
    OBVIOUS
  <2>1. CASE swept[p].until = 0 /\ {p[1], p[2]} \cap Gone # {}
    <3>1. edges[p] = [from |-> swept[p].from, until |-> jseq,
                      bucket |-> swept[p].bucket, quote |-> swept[p].quote]
      BY <1>4, <1>6, <1>7, <2>1
    <3> QED
      BY <1>6, <1>7, <2>1, <3>1 DEF Hint
  <2>2. CASE ~(swept[p].until = 0 /\ {p[1], p[2]} \cap Gone # {})
    <3>1. edges[p] = swept[p]
      BY <1>7, <2>2
    <3> QED
      BY <1>6, <1>7, <2>2, <3>1
  <2> QED
    BY <2>1, <2>2
<1>9. /\ DOMAIN edges = DOMAIN work.edges
      /\ \A p \in DOMAIN edges : /\ Hint(edges[p], p)
                                 /\ edges[p].from = work.edges[p].from
                                 /\ edges[p].bucket = work.edges[p].bucket
      /\ jrun.cands # {} =>
           \A p \in DOMAIN edges : edges[p].until = 0 => p \in jrun.computed
      /\ \A p \in jrun.computed : edges[p].until # 0 => {p[1], p[2]} \cap Gone # {}
  BY <1>3, <1>5, <1>6, <1>7, <1>8
<1> QED
  BY <1>9 DEF edges, swept

LEMMA CommitStep ==
  ASSUME JudgeInv, CommitBuild
  PROVE  JudgeInv' /\ Keeps(work.edges, db'.edges)
<1> DEFINE edges == ClosedWith(StaleSwept(work.edges), Gone)
           gone == work.out \union Gone
           removed == work.removed \union jrun.plan.removes
           w == [in |-> work.in, out |-> gone, removed |-> removed, edges |-> edges,
                 cache |-> work.cache]
<1>1. jrun.pc = "judge" /\ jrun.todo = {} /\ UNCHANGED <<jseq, asked, rolled>>
  BY DEF CommitBuild
<1>2. db' = w /\ work' = w
  <2>1. work = [in |-> work.in, out |-> work.out, removed |-> work.removed,
                edges |-> work.edges, cache |-> work.cache]
    BY DEF JudgeInv, JudgeTyped, StoreTyped
  <2>2. /\ db' = [work EXCEPT !.edges = edges, !.out = gone, !.removed = removed]
        /\ work' = [work EXCEPT !.edges = edges, !.out = gone, !.removed = removed]
    BY DEF CommitBuild
  <2> HIDE DEF edges, gone, removed
  <2> QED
    BY <2>1, <2>2
<1>3. jrun' = [pc |-> "completed", model |-> jrun.model, plan |-> jrun.plan,
               facts |-> jrun.facts, cands |-> jrun.cands, todo |-> {},
               computed |-> jrun.computed]
  <2>1. jrun = [pc |-> "judge", model |-> jrun.model, plan |-> jrun.plan, facts |-> jrun.facts,
                cands |-> jrun.cands, todo |-> {}, computed |-> jrun.computed]
    BY <1>1 DEF JudgeInv, JudgeTyped, PassTyped, Idle
  <2>2. jrun' = [jrun EXCEPT !.pc = "completed"]
    BY DEF CommitBuild
  <2> QED
    BY <2>1, <2>2
<1>4. /\ DOMAIN edges = DOMAIN work.edges
      /\ \A p \in DOMAIN edges : /\ Hint(edges[p], p)
                                 /\ edges[p].from = work.edges[p].from
                                 /\ edges[p].bucket = work.edges[p].bucket
      /\ jrun.cands # {} =>
           \A p \in DOMAIN edges : edges[p].until = 0 => p \in jrun.computed
      /\ \A p \in jrun.computed : edges[p].until # 0 => {p[1], p[2]} \cap Gone # {}
  BY <1>1, EdgesAfterSweep DEF JudgeInv
<1> HIDE DEF edges
<1>5. /\ jrun'.pc = "completed" /\ jrun'.facts = jrun.facts /\ jrun'.cands = jrun.cands
      /\ jrun'.todo = {} /\ jrun'.computed = jrun.computed /\ jrun'.model = jrun.model
  BY <1>3
<1>6. /\ work'.edges = edges /\ work'.cache = work.cache /\ db'.edges = edges /\ db'.out = gone
      /\ work' = db' /\ db'.in = work.in
  BY <1>2
<1>7. JudgeTyped'
  <2> HIDE DEF gone, removed
  <2>1. StoreTyped(w)
    BY <1>4 DEF StoreTyped, JudgeInv, JudgeTyped
  <2>2. PassTyped'
    <3>1. jseq > 0
      BY <1>1 DEF JudgeInv, JudgeTyped, PassTyped, Idle
    <3> QED
      BY <1>1, <1>3, <3>1 DEF PassTyped
  <2>3. StoreTyped(db') /\ StoreTyped(work')
    BY <1>2, <2>1
  <2> QED
    BY <1>1, <2>2, <2>3 DEF JudgeInv, JudgeTyped, StoreTyped
<1>8. TurnsAreTaken'
  <2>1. \A p : Cached(p)' = Cached(p)
    BY <1>5, <1>6 DEF Cached
  <2> QED
    BY <1>1, <1>4, <1>5, <1>6, <2>1 DEF JudgeInv, TurnsAreTaken
<1>9. CallsAreCached'
  BY <1>1, <1>6 DEF JudgeInv, CallsAreCached
<1>10. JudgeEdgesFollowTheRun'
  <2> SUFFICES ASSUME jrun.cands # {}
               PROVE  /\ LiveEdges(db)' \subseteq jrun.computed
                      /\ \A p \in jrun.computed : p \notin LiveEdges(db)' => {p[1], p[2]} \cap gone # {}
                      /\ \A p \in LiveEdges(db)' : p \notin jrun.facts /\ <<p[2], p[1]>> \notin jrun.facts
    BY <1>5, <1>6 DEF JudgeEdgesFollowTheRun
  <2>1. LiveEdges(db)' = {p \in DOMAIN edges : edges[p].until = 0}
    BY <1>6 DEF LiveEdges
  <2>2. /\ jrun.computed \subseteq DOMAIN edges
        /\ \A p \in jrun.computed : p \notin jrun.facts /\ <<p[2], p[1]>> \notin jrun.facts
    BY <1>1, <1>4 DEF JudgeInv, TurnsAreTaken, Reversed
  <2> QED
    BY <1>4, <2>1, <2>2
<1> QED
  BY <1>4, <1>6, <1>7, <1>8, <1>9, <1>10 DEF JudgeInv, Keeps

--------------------------------------------------------------------------------
(* The theorems about the judge *)

LEMMA JudgeBegins == JudgeInit /\ JudgeAssumption => JudgeInv
<1> SUFFICES ASSUME JudgeInit, JudgeAssumption
             PROVE  JudgeInv
  OBVIOUS
<1>1. StoreTyped(db) /\ work = db
  BY DEF JudgeInit, StoreTyped
<1>2. JudgeTyped /\ jrun.pc = "idle"
  BY <1>1 DEF JudgeInit, JudgeTyped, PassTyped, Idle, JudgeAssumption
<1>3. CallsAreCached
  BY DEF JudgeInit, CallsAreCached
<1> QED
  BY <1>1, <1>2, <1>3 DEF JudgeInv, TurnsAreTaken, JudgeEdgesFollowTheRun

LEMMA JudgeKeeps == JudgeAssumption /\ JudgeInv /\ [JudgeNext]_judgeVars => JudgeInv'
<1> SUFFICES ASSUME JudgeAssumption, JudgeInv, [JudgeNext]_judgeVars
             PROVE  JudgeInv'
  OBVIOUS
<1>1. ASSUME NEW m \in Models, JudgeBuild(m)
      PROVE  JudgeInv'
  BY <1>1, BuildStep
<1>2. CASE Generate
  BY <1>2, GenerateStep
<1>3. CASE Hit
  BY <1>3, HitStep
<1>4. CASE CommitBuild
  BY <1>4, CommitStep
<1>5. CASE RollBack
  BY <1>5, RollBackStep
<1>6. ASSUME NEW a \in Answers, NEW lost \in {0, Attempts - 1},
             Judge([i \in 1..Attempts |-> IF i <= lost THEN Unusable ELSE a])
      PROVE  JudgeInv'
  BY <1>6, JudgeStep
<1>7. ASSUME NEW acc \in BOOLEAN, PublishJudged(acc)
      PROVE  JudgeInv'
  BY <1>7, PublishStep
<1>8. CASE UNCHANGED judgeVars
  BY <1>8 DEF judgeVars, JudgeInv, JudgeTyped, StoreTyped, PassTyped, TurnsAreTaken, Cached,
              CallsAreCached, JudgeEdgesFollowTheRun, LiveEdges
<1> QED
  BY <1>1, <1>2, <1>3, <1>4, <1>5, <1>6, <1>7, <1>8 DEF JudgeNext

LEMMA JudgeInvariant == JudgeSpec => []JudgeInv
<1>1. JudgeInit => JudgeInv
  BY JudgeBegins, JudgeAssumption
<1>2. JudgeInv /\ [JudgeNext]_judgeVars => JudgeInv'
  BY JudgeKeeps, JudgeAssumption
<1> QED
  BY <1>1, <1>2, PTL DEF JudgeSpec

\* Whatever the model answers and however often a build's transaction is lost, a pair of texts
\* is paid for once per model, but for the calls of lost transactions
\* (RelationshipJudgmentCacheGate).
THEOREM PairsSafety == JudgeSpec => []PairsArePaidOnce
<1>1. JudgeInv => PairsArePaidOnce
  BY DEF JudgeInv, JudgeTyped, CallsAreCached, PairsArePaidOnce
<1> QED
  BY <1>1, JudgeInvariant, PTL

\* The hints in the registry rest on the words of their texts, are the same in both directions
\* of a pair, and are those the last build stands behind (guard_quote, _invalidate_stale).
THEOREM JudgeSafety == JudgeSpec => []JudgeEdgesStand
<1>1. JudgeInv => InferredIsGrounded
  BY DEF JudgeInv, JudgeTyped, StoreTyped, Hint, InferredIsGrounded
<1>2. JudgeInv => OneVerdictPerPair
  <2> SUFFICES ASSUME JudgeInv, jrun.pc = "completed", NEW p \in jrun.computed,
                      <<p[2], p[1]>> \in jrun.cands
               PROVE  /\ <<p[2], p[1]>> \in jrun.computed
                      /\ db.edges[<<p[2], p[1]>>].bucket = db.edges[p].bucket
    BY DEF OneVerdictPerPair
  <2>1. Cached(Reversed(p)) = Cached(p)
    BY OneKeyPerPair DEF Cached
  <2>2. Reversed(p) \in jrun.cands /\ jrun.todo = {} /\ p \in jrun.cands /\ work = db
    BY DEF JudgeInv, TurnsAreTaken, Reversed
  <2>3. Reversed(p) \in jrun.computed
    BY <2>1, <2>2 DEF JudgeInv, TurnsAreTaken
  <2> QED
    BY <2>1, <2>2, <2>3 DEF JudgeInv, TurnsAreTaken, Reversed
<1>3. JudgeInv => JudgeEdgesFollowTheRun
  BY DEF JudgeInv
<1> QED
  BY <1>1, <1>2, <1>3, JudgeInvariant, PTL DEF JudgeEdgesStand

\* The session keeps what is committed, so a build's commit never moves the introduction of an
\* edge, nor drops one: a version's membership is read from it (_upsert_judge_edge).
THEOREM IntroductionsStay == JudgeSpec => IntroductionsAreKept
<1> DEFINE SessionKeeps == Keeps(db.edges, work.edges)
           Introduced == \A p \in DOMAIN db.edges :
                           p \in DOMAIN db'.edges /\ db'.edges[p].from = db.edges[p].from
<1>1. JudgeInit => SessionKeeps
  BY DEF JudgeInit, Keeps
<1>2. ASSUME JudgeAssumption, JudgeInv, SessionKeeps, [JudgeNext]_judgeVars
      PROVE  SessionKeeps' /\ Keeps(db.edges, db'.edges)
  <2>1. ASSUME NEW m \in Models, JudgeBuild(m)
        PROVE  db'.edges = db.edges /\ work' = db'
    <3>1. db = [in |-> db.in, out |-> db.out, removed |-> db.removed, edges |-> db.edges,
                cache |-> db.cache]
      BY <1>2 DEF JudgeInv, JudgeTyped, StoreTyped
    <3> DEFINE all == db.in \union Plans[jseq + 1].adds
    <3>2. db' = [db EXCEPT !.in = all] /\ work' = db'
      BY <2>1 DEF JudgeBuild
    <3> HIDE DEF all
    <3> QED
      BY <3>1, <3>2
  <2>2. ASSUME db' = db, Keeps(work.edges, work'.edges)
        PROVE  SessionKeeps' /\ Keeps(db.edges, db'.edges)
    BY <1>2, <2>2 DEF Keeps
  <2>3. ASSUME db' = db, work' = work \/ work' = db
        PROVE  SessionKeeps' /\ Keeps(db.edges, db'.edges)
    BY <1>2, <2>3 DEF Keeps
  <2>4. CASE Hit
    BY <1>2, <2>2, <2>4, HitStep DEF Hit
  <2>5. ASSUME NEW a \in Answers, NEW lost \in {0, Attempts - 1},
               Judge([i \in 1..Attempts |-> IF i <= lost THEN Unusable ELSE a])
        PROVE  SessionKeeps' /\ Keeps(db.edges, db'.edges)
    <3> DEFINE raw == [i \in 1..Attempts |-> IF i <= lost THEN Unusable ELSE a]
    <3>1. Judge(raw)
      BY <2>5
    <3> HIDE DEF raw
    <3>2. db' = db
      BY <3>1 DEF Judge
    <3> QED
      BY <1>2, <2>2, <3>1, <3>2, JudgeStep
  <2>6. CASE CommitBuild
    <3>1. Keeps(work.edges, db'.edges) /\ work' = db'
      BY <1>2, <2>6, CommitStep DEF CommitBuild
    <3> QED
      BY <1>2, <3>1 DEF Keeps
  <2>7. CASE Generate \/ RollBack \/ (\E acc \in BOOLEAN : PublishJudged(acc))
             \/ UNCHANGED judgeVars
    BY <2>3, <2>7 DEF Generate, RollBack, PublishJudged, judgeVars
  <2> QED
    BY <1>2, <2>1, <2>4, <2>5, <2>6, <2>7 DEF JudgeNext, Keeps
<1>3. ASSUME JudgeAssumption, JudgeInv, SessionKeeps, [JudgeNext]_judgeVars
      PROVE  SessionKeeps' /\ [Introduced]_db
  BY <1>2, <1>3 DEF Keeps
<1>4. JudgeInv /\ SessionKeeps /\ [JudgeNext]_judgeVars => SessionKeeps' /\ [Introduced]_db
  BY <1>3, JudgeAssumption
<1> HIDE DEF SessionKeeps
<1> QED
  BY <1>1, <1>4, JudgeInvariant, PTL DEF JudgeSpec, IntroductionsAreKept

--------------------------------------------------------------------------------
(* Alias rows *)

Live(rows) == {i \in DOMAIN rows : rows[i].until = 0}

OneLive(rows) == \A i, j \in Live(rows) : rows[i].title = rows[j].title => i = j

IsRow(r) == /\ r = With(r, r.from, r.until) /\ r.title \in Nat /\ r.from \in Nat /\ r.until \in Nat

\* Ids are given in order, and none twice.
RowsTyped(rows) ==
  /\ IsFiniteSet(DOMAIN rows) /\ DOMAIN rows \subseteq 1..Cardinality(DOMAIN rows)
  /\ rows = [i \in DOMAIN rows |-> rows[i]]
  /\ \A i \in DOMAIN rows : IsRow(rows[i])

LEMMA WithFields ==
  ASSUME NEW d, NEW f, NEW u
  PROVE  /\ With(d, f, u).title = d.title /\ With(d, f, u).prov = d.prov
         /\ With(d, f, u).evidence = d.evidence /\ With(d, f, u).acl = d.acl
         /\ With(d, f, u).from = f /\ With(d, f, u).until = u
         /\ With(With(d, f, u), f, u) = With(d, f, u)
BY DEF With

\* The numbers of phrases in the order of their text differ (RowsUpserted numbers its new rows so).
LEMMA NumbersDiffer ==
  ASSUME NEW S, IsFiniteSet(S), S \subseteq Nat, NEW t \in S, NEW u \in S, t < u
  PROVE  Cardinality({x \in S : x <= t}) < Cardinality({x \in S : x <= u})
<1> DEFINE A == {x \in S : x <= t}
           B == {x \in S : x <= u}
<1>0. t \in Nat /\ u \in Nat /\ \A x \in S : x \in Nat
  OBVIOUS
<1>1. A \subseteq B /\ u \in B /\ u \notin A
  <2>1. /\ \A x \in S : x <= t => x <= u
        /\ u <= u /\ ~(u <= t)
    BY <1>0
  <2> QED
    BY <2>1, Zenon
<1>2. IsFiniteSet(A) /\ IsFiniteSet(B)
  BY FS_Subset
<1> HIDE DEF A, B
<1>3. Cardinality(A) <= Cardinality(B) /\ Cardinality(A) # Cardinality(B)
  <2>1. A \in SUBSET B /\ A # B
    BY <1>1
  <2> QED
    BY <1>2, <2>1, FS_Subset
<1>4. Cardinality(A) \in Nat /\ Cardinality(B) \in Nat
  BY <1>2, FS_CardinalityType
<1>5. Cardinality(A) < Cardinality(B)
  BY <1>3, <1>4
<1> QED
  BY <1>5 DEF A, B

LEMMA NumbersBounded ==
  ASSUME NEW S, IsFiniteSet(S), S \subseteq Nat, NEW t \in S
  PROVE  Cardinality({x \in S : x <= t}) \in 1..Cardinality(S)
<1> DEFINE A == {x \in S : x <= t}
<1>1. A \subseteq S /\ t \in A
  OBVIOUS
<1> HIDE DEF A
<1>2. IsFiniteSet(A) /\ Cardinality(A) <= Cardinality(S)
  BY <1>1, FS_Subset
<1>3. Cardinality(A) \in Nat /\ Cardinality(S) \in Nat /\ Cardinality(A) # 0
  BY <1>1, <1>2, FS_CardinalityType, FS_EmptySet
<1>4. Cardinality(A) \in 1..Cardinality(S)
  BY <1>2, <1>3
<1> QED
  BY <1>4 DEF A

\* What an upsert does: rows of its own with a wanted title are refreshed and live, each title
\* without one gets a row, and nothing else changes (reconcile_alias_rows).
LEMMA UpsertedRows ==
  ASSUME NEW rows, NEW want, NEW own, NEW R, R = RowsUpserted(rows, want, own),
         IsFiniteSet(DOMAIN rows), DOMAIN rows \subseteq 1..Cardinality(DOMAIN rows),
         IsFiniteSet(DOMAIN want), DOMAIN want \subseteq Nat, own \subseteq DOMAIN rows,
         \A t \in DOMAIN want : want[t].title = t
  PROVE  /\ R = [i \in DOMAIN R |-> R[i]]
         /\ IsFiniteSet(DOMAIN R) /\ DOMAIN R \subseteq 1..Cardinality(DOMAIN R)
         /\ DOMAIN rows \subseteq DOMAIN R
         /\ \A i \in DOMAIN rows :
              R[i] = IF i \in own /\ rows[i].title \in DOMAIN want
                     THEN With(want[rows[i].title], rows[i].from, 0) ELSE rows[i]
         /\ \A i \in DOMAIN R \ DOMAIN rows : \E t \in DOMAIN want :
              /\ \A j \in own : rows[j].title # t
              /\ R[i] = With(want[t], aseq, 0)
         /\ \A i, j \in DOMAIN R \ DOMAIN rows : R[i].title = R[j].title => i = j
         /\ \A t \in DOMAIN want : (\A j \in own : rows[j].title # t) =>
              \E i \in DOMAIN R \ DOMAIN rows : R[i] = With(want[t], aseq, 0)
<1> DEFINE rowOf(t) == {i \in own : rows[i].title = t}
           new == {t \in DOMAIN want : rowOf(t) = {}}
           next == Cardinality(DOMAIN rows)
           idOf(t) == next + Cardinality({u \in new : u <= t})
           ids == {idOf(t) : t \in new}
<1>1. IsFiniteSet(new) /\ new \subseteq Nat /\ new \subseteq DOMAIN want
  BY FS_Subset
<1>2. next \in Nat /\ Cardinality(new) \in Nat
  BY <1>1, FS_CardinalityType
<1>3. R = [i \in DOMAIN rows \union ids |->
             IF i \in own /\ rows[i].title \in DOMAIN want
             THEN With(want[rows[i].title], rows[i].from, 0)
             ELSE IF i \in DOMAIN rows THEN rows[i]
             ELSE With(want[CHOOSE t \in new : idOf(t) = i], aseq, 0)]
  BY Zenon DEF RowsUpserted
<1>4. \A t \in DOMAIN want : t \in new <=> \A j \in own : rows[j].title # t
  OBVIOUS
<1>5. \A t \in new : idOf(t) \in next + 1 .. next + Cardinality(new)
  <2> TAKE t \in new
  <2> DEFINE k == Cardinality({u \in new : u <= t})
  <2>1. k \in 1..Cardinality(new)
    <3> HIDE DEF new
    <3> QED
      BY <1>1, NumbersBounded
  <2> HIDE DEF k, new, next
  <2>2. next + k \in next + 1 .. next + Cardinality(new)
    BY <1>2, <2>1
  <2> QED
    BY <2>2 DEF k
<1>6. \A t, u \in new : idOf(t) = idOf(u) => t = u
  <2> SUFFICES ASSUME NEW t \in new, NEW u \in new, t # u PROVE idOf(t) # idOf(u)
    OBVIOUS
  <2> DEFINE k(x) == Cardinality({y \in new : y <= x})
  <2>1. k(t) \in Nat /\ k(u) \in Nat
    <3> HIDE DEF new
    <3> QED
      BY <1>1, NumbersBounded
  <2>2. t < u \/ u < t
    BY <1>1
  <2>3. k(t) # k(u)
    <3> HIDE DEF new
    <3>1. t < u => k(t) < k(u)
      BY <1>1, NumbersDiffer
    <3>2. u < t => k(u) < k(t)
      BY <1>1, NumbersDiffer
    <3> HIDE DEF k
    <3> QED
      BY <2>1, <2>2, <3>1, <3>2
  <2>4. idOf(t) = next + k(t) /\ idOf(u) = next + k(u)
    OBVIOUS
  <2> HIDE DEF k, new, next, idOf
  <2> QED
    BY <1>2, <2>1, <2>3, <2>4
<1> HIDE DEF new, next, idOf
<1>7. /\ IsFiniteSet(ids) /\ Cardinality(ids) = Cardinality(new) /\ ids \cap DOMAIN rows = {}
      /\ ids \subseteq 1 .. next + Cardinality(new)
  <2>1. [t \in new |-> idOf(t)] \in Bijection(new, ids)
    BY <1>6 DEF Bijection, Injection, Surjection, IsInjective
  <2>2. IsFiniteSet(ids) /\ Cardinality(ids) = Cardinality(new)
    <3> HIDE DEF ids
    <3> QED
      BY <1>1, <2>1, FS_Bijection DEF ExistsBijection
  <2>3. \A i \in ids : i \in next + 1 .. next + Cardinality(new)
    BY <1>5
  <2>4. DOMAIN rows \subseteq 1..next
    BY DEF next
  <2> HIDE DEF ids
  <2> QED
    BY <1>2, <2>2, <2>3, <2>4
<1>8. DOMAIN R = DOMAIN rows \union ids
  BY <1>3
<1>9. IsFiniteSet(DOMAIN R) /\ DOMAIN R \subseteq 1..Cardinality(DOMAIN R)
  <2> HIDE DEF ids
  <2>1. IsFiniteSet(DOMAIN rows \union ids) /\ DOMAIN rows \cap ids = {}
    BY <1>7, FS_Union
  <2>2. Cardinality(DOMAIN rows \union ids) = next + Cardinality(new) - 0
    BY <1>7, FS_Union, FS_EmptySet DEF next
  <2>3. Cardinality(DOMAIN R) = next + Cardinality(new)
    BY <1>2, <1>8, <2>2
  <2>4. DOMAIN rows \subseteq 1..next
    BY DEF next
  <2> DEFINE k == Cardinality(new)
  <2>5. k \in Nat /\ next \in Nat /\ ids \subseteq 1..next + k
    BY <1>2, <1>7
  <2> HIDE DEF next, new, k
  <2>6. \A i \in 1..next : i \in 1..next + k
    BY <2>5
  <2>7. DOMAIN rows \union ids \subseteq 1..next + k
    BY <2>4, <2>5, <2>6
  <2> QED
    BY <1>8, <2>1, <2>3, <2>7 DEF k
<1>10. \A t \in new : /\ idOf(t) \in DOMAIN R \ DOMAIN rows
                      /\ R[idOf(t)] = With(want[t], aseq, 0) /\ R[idOf(t)].title = t
  <2> TAKE t \in new
  <2>1. idOf(t) \in ids /\ idOf(t) \in DOMAIN R /\ idOf(t) \notin DOMAIN rows
    BY <1>7, <1>8
  <2>2. (CHOOSE u \in new : idOf(u) = idOf(t)) = t
    BY <1>6
  <2>3. R[idOf(t)] = With(want[CHOOSE u \in new : idOf(u) = idOf(t)], aseq, 0)
    BY <1>3, <1>8, <2>1
  <2>4. want[t].title = t
    BY <1>1
  <2>5. R[idOf(t)] = With(want[t], aseq, 0)
    BY <2>2, <2>3
  <2>6. R[idOf(t)].title = t
    BY <2>4, <2>5, WithFields
  <2> QED
    BY <2>1, <2>5, <2>6
<1>11. \A i \in DOMAIN R \ DOMAIN rows : \E t \in new : i = idOf(t)
  BY <1>8
<1>12. R = [i \in DOMAIN R |-> R[i]] /\ DOMAIN rows \subseteq DOMAIN R
  BY <1>3, <1>8
<1>13. \A i \in DOMAIN rows :
         R[i] = IF i \in own /\ rows[i].title \in DOMAIN want
                THEN With(want[rows[i].title], rows[i].from, 0) ELSE rows[i]
  BY <1>3, <1>8
<1>14. \A i \in DOMAIN R \ DOMAIN rows : \E t \in DOMAIN want :
         (\A j \in own : rows[j].title # t) /\ R[i] = With(want[t], aseq, 0)
  BY <1>1, <1>4, <1>10, <1>11
<1>15. \A i, j \in DOMAIN R \ DOMAIN rows : R[i].title = R[j].title => i = j
  BY <1>10, <1>11
<1>16. \A t \in DOMAIN want : (\A j \in own : rows[j].title # t) =>
         \E i \in DOMAIN R \ DOMAIN rows : R[i] = With(want[t], aseq, 0)
  BY <1>4, <1>10
<1> QED
  BY <1>9, <1>12, <1>13, <1>14, <1>15, <1>16

LEMMA RowClosed ==
  ASSUME NEW r, IsRow(r), NEW u \in Nat
  PROVE  /\ [r EXCEPT !.until = u] = With(r, r.from, u)
         /\ IsRow(With(r, r.from, u))
<1>1. r = With(r, r.from, r.until) /\ r.title \in Nat /\ r.from \in Nat
  BY DEF IsRow
<1>2. [With(r, r.from, r.until) EXCEPT !.until = u] = With(r, r.from, u)
  BY DEF With
<1>3. [r EXCEPT !.until = u] = With(r, r.from, u)
  BY <1>1, <1>2, Zenon
<1>4. IsRow(With(r, r.from, u))
  BY <1>1 DEF IsRow, With
<1> QED
  BY <1>3, <1>4

LEMMA RowGranted ==
  ASSUME NEW r, IsRow(r), NEW a
  PROVE  LET g == [r EXCEPT !.acl = a]
         IN  /\ IsRow(g) /\ g.title = r.title /\ g.prov = r.prov /\ g.evidence = r.evidence
             /\ g.from = r.from /\ g.until = r.until /\ r.acl = a => g = r
<1>1. r = With(r, r.from, r.until) /\ r.title \in Nat /\ r.from \in Nat /\ r.until \in Nat
  BY DEF IsRow
<1>2. r = [title |-> r.title, prov |-> r.prov, evidence |-> r.evidence, targets |-> r.targets,
           acl |-> r.acl, anchor |-> r.anchor, from |-> r.from, until |-> r.until]
  BY <1>1 DEF With
<1> DEFINE g == [r EXCEPT !.acl = a]
<1>3. g = [title |-> r.title, prov |-> r.prov, evidence |-> r.evidence, targets |-> r.targets,
           acl |-> a, anchor |-> r.anchor, from |-> r.from, until |-> r.until]
  BY <1>2
<1> HIDE DEF g
<1>4. /\ g.title = r.title /\ g.prov = r.prov /\ g.evidence = r.evidence
      /\ g.targets = r.targets /\ g.acl = a /\ g.anchor = r.anchor
      /\ g.from = r.from /\ g.until = r.until
  BY <1>3
<1>5. g = With(g, g.from, g.until)
  BY <1>3, <1>4, Zenon DEF With
<1>6. IsRow(g)
  BY <1>1, <1>4, <1>5 DEF IsRow
<1>7. r.acl = a => g = r
  BY <1>2, <1>3
<1> QED
  BY <1>4, <1>6, <1>7 DEF g

LEMMA ClosedRows ==
  ASSUME NEW rows, RowsTyped(rows), NEW which, aseq \in Nat
  PROVE  /\ RowsTyped(Closed(rows, which)) /\ DOMAIN Closed(rows, which) = DOMAIN rows
         /\ \A i \in DOMAIN rows :
              Closed(rows, which)[i] = IF i \in which /\ rows[i].until = 0
                                       THEN With(rows[i], rows[i].from, aseq) ELSE rows[i]
<1> DEFINE C == Closed(rows, which)
<1>1. C = [i \in DOMAIN rows |-> IF i \in which /\ rows[i].until = 0
                                 THEN [rows[i] EXCEPT !.until = aseq] ELSE rows[i]]
  BY DEF Closed
<1> HIDE DEF C
<1>2. DOMAIN C = DOMAIN rows
  BY <1>1
<1>3. \A i \in DOMAIN rows : C[i] = IF i \in which /\ rows[i].until = 0
                                    THEN [rows[i] EXCEPT !.until = aseq] ELSE rows[i]
  BY <1>1
<1>4. \A i \in DOMAIN rows : IsRow(rows[i])
  BY DEF RowsTyped
<1>5. \A i \in DOMAIN rows : C[i] = IF i \in which /\ rows[i].until = 0
                                    THEN With(rows[i], rows[i].from, aseq) ELSE rows[i]
  BY <1>3, <1>4, RowClosed
<1>6. \A i \in DOMAIN rows : IsRow(C[i])
  BY <1>4, <1>5, RowClosed
<1>7. C = [i \in DOMAIN C |-> C[i]]
  BY <1>1, <1>2
<1>8. RowsTyped(C)
  BY <1>2, <1>6, <1>7 DEF RowsTyped
<1> QED
  BY <1>2, <1>5, <1>8 DEF C

\* One row per title is kept (_load_prior_alias_rows).
LEMMA KeptOncePerTitle ==
  ASSUME NEW rows, DOMAIN rows \subseteq Nat, NEW i \in Kept(rows), NEW j \in Kept(rows),
         rows[i].title = rows[j].title
  PROVE  i = j
<1> DEFINE before(x, y) == \/ rows[x].until = 0 /\ rows[y].until # 0
                           \/ (rows[x].until = 0 <=> rows[y].until = 0) /\ x < y
<1>1. SUFFICES ASSUME i # j PROVE FALSE
  OBVIOUS
<1>2. /\ i \in Readable(rows) /\ j \in Readable(rows)
      /\ \A x \in Readable(rows) \ {i} : rows[x].title = rows[i].title => before(i, x)
      /\ \A x \in Readable(rows) \ {j} : rows[x].title = rows[j].title => before(j, x)
  BY DEF Kept
<1>3. before(i, j) /\ before(j, i)
  BY <1>1, <1>2
<1>4. i \in Nat /\ j \in Nat
  BY <1>2 DEF Readable
<1> QED
  BY <1>3, <1>4

\* The row that phrase t should have.
MinedFor(t, cs, it, arts) == Desired(t, Evidence(t, cs, it), cs, it, arts)

LEMMA MinedFields ==
  ASSUME NEW t, NEW cs, NEW it, NEW arts
  PROVE  /\ MinedFor(t, cs, it, arts).title = t /\ MinedFor(t, cs, it, arts).prov = "mined"
         /\ MinedFor(t, cs, it, arts).evidence = Evidence(t, cs, it)
         /\ MinedFor(t, cs, it, arts).acl = DerivedAcl(PathAcls(Evidence(t, cs, it), cs, it))
<1> DEFINE ev == Evidence(t, cs, it)
           acl == DerivedAcl(PathAcls(ev, cs, it))
           anchor == Min({e.src : e \in ev})
           targets == Targets(ev, BodyCap, cs, it, arts)
           d == MinedFor(t, cs, it, arts)
<1>1. d = [title |-> t, prov |-> "mined", evidence |-> ev, targets |-> targets,
           acl |-> acl, anchor |-> anchor]
  BY Zenon DEF Desired, MinedFor
<1> HIDE DEF ev, acl, anchor, targets, d
<1>2. d.title = t /\ d.prov = "mined" /\ d.evidence = ev /\ d.acl = acl
  BY <1>1
<1> QED
  BY <1>2 DEF ev, acl, d

MinedRow(r, cs, it, arts) ==
  r.title \in Titles(cs) /\ r.prov = "mined" /\ r = With(MinedFor(r.title, cs, it, arts), r.from, 0)

\* After the mining pass each phrase of the sources has one live row, which is as it should be;
\* the other live rows are of the other pass (_reconcile_alias_rows).
LEMMA MinedRows ==
  ASSUME NEW rows, RowsTyped(rows), aseq \in Nat \ {0}, NEW cs, NEW it, NEW arts,
         IsFiniteSet(Titles(cs)), Titles(cs) \subseteq Nat,
         NEW R, R = Reconciled(rows, MinedWant(cs, it, arts))
  PROVE  /\ RowsTyped(R) /\ OneLive(R) /\ DOMAIN rows \subseteq DOMAIN R
         /\ \A i \in DOMAIN R : R[i].until \in {0, aseq} \/ (i \in DOMAIN rows /\ R[i] = rows[i])
         /\ \A i \in Live(R) : \/ MinedRow(R[i], cs, it, arts)
                               \/ /\ i \in Live(rows) /\ R[i] = rows[i]
                                  /\ R[i].title \notin Titles(cs) /\ R[i].prov # "mined"
         /\ \A t \in Titles(cs) : \E i \in Live(R) : R[i].title = t /\ MinedRow(R[i], cs, it, arts)
<1> DEFINE want == MinedWant(cs, it, arts)
           own == Kept(rows)
           which == {i \in DOMAIN rows : \/ i \notin Kept(rows)
                                         \/ rows[i].title \notin DOMAIN want /\ rows[i].prov = "mined"}
           U == Closed(rows, which)
<1>1. DOMAIN want = Titles(cs) /\ \A t \in Titles(cs) : want[t] = MinedFor(t, cs, it, arts)
  BY DEF MinedWant, MinedFor
<1>2. \A t \in Titles(cs) : want[t].title = t /\ want[t].prov = "mined"
  BY <1>1, MinedFields
<1>3. own \subseteq DOMAIN rows /\ DOMAIN rows \subseteq Nat
  BY DEF Kept, Readable, RowsTyped
<1>4. /\ RowsTyped(U) /\ DOMAIN U = DOMAIN rows
      /\ \A i \in DOMAIN rows : U[i] = IF i \in which /\ rows[i].until = 0
                                       THEN With(rows[i], rows[i].from, aseq) ELSE rows[i]
  <2> HIDE DEF which
  <2> QED
    BY ClosedRows
<1>5. R = RowsUpserted(U, want, own)
  BY Zenon DEF Reconciled, Unconfirmed
<1>6. \A i \in DOMAIN rows : U[i].title = rows[i].title /\ U[i].from = rows[i].from
  BY <1>4, WithFields
<1>7. \A i \in DOMAIN rows : U[i].until = 0 => /\ U[i] = rows[i] /\ i \in own
                                               /\ rows[i].title \in Titles(cs) \/ rows[i].prov # "mined"
  BY <1>1, <1>4, WithFields
<1>8. \A i \in DOMAIN rows : U[i].until = aseq \/ U[i] = rows[i]
  BY <1>4, WithFields
<1> HIDE DEF U, want, own, which
<1>9. /\ IsFiniteSet(DOMAIN U) /\ DOMAIN U \subseteq 1..Cardinality(DOMAIN U)
      /\ IsFiniteSet(DOMAIN want) /\ DOMAIN want \subseteq Nat /\ own \subseteq DOMAIN U
      /\ \A t \in DOMAIN want : want[t].title = t
  BY <1>1, <1>2, <1>3, <1>4 DEF RowsTyped
<1>10. /\ R = [i \in DOMAIN R |-> R[i]]
       /\ IsFiniteSet(DOMAIN R) /\ DOMAIN R \subseteq 1..Cardinality(DOMAIN R)
       /\ DOMAIN rows \subseteq DOMAIN R
       /\ \A i \in DOMAIN rows :
            R[i] = IF i \in own /\ U[i].title \in DOMAIN want
                   THEN With(want[U[i].title], U[i].from, 0) ELSE U[i]
       /\ \A i \in DOMAIN R \ DOMAIN rows : \E t \in DOMAIN want :
            /\ \A j \in own : U[j].title # t
            /\ R[i] = With(want[t], aseq, 0)
       /\ \A i, j \in DOMAIN R \ DOMAIN rows : R[i].title = R[j].title => i = j
       /\ \A t \in DOMAIN want : (\A j \in own : U[j].title # t) =>
            \E i \in DOMAIN R \ DOMAIN rows : R[i] = With(want[t], aseq, 0)
  BY <1>4, <1>5, <1>9, UpsertedRows
<1>11. \A i \in DOMAIN rows : i \in own /\ rows[i].title \in Titles(cs) =>
         R[i] = With(want[rows[i].title], rows[i].from, 0)
  BY <1>1, <1>6, <1>10
<1>12. \A i \in DOMAIN rows : ~(i \in own /\ rows[i].title \in Titles(cs)) => R[i] = U[i]
  BY <1>1, <1>6, <1>10
<1>13. \A i \in DOMAIN R \ DOMAIN rows : \E t \in Titles(cs) :
         (\A j \in own : rows[j].title # t) /\ R[i] = With(want[t], aseq, 0)
  BY <1>1, <1>3, <1>6, <1>10
<1>14. \A t \in Titles(cs) : \A f \in Nat :
         /\ IsRow(With(want[t], f, 0)) /\ MinedRow(With(want[t], f, 0), cs, it, arts)
         /\ With(want[t], f, 0).until = 0 /\ With(want[t], f, 0).title = t
  <2> TAKE t \in Titles(cs)
  <2> TAKE f \in Nat
  <2> DEFINE r == With(want[t], f, 0)
  <2>1. r.title = t /\ r.prov = "mined" /\ r.from = f /\ r.until = 0 /\ r = With(r, f, 0)
    BY <1>2, WithFields
  <2>2. r = With(MinedFor(r.title, cs, it, arts), r.from, 0)
    BY <1>1, <2>1
  <2> HIDE DEF r
  <2>3. IsRow(r) /\ MinedRow(r, cs, it, arts) /\ r.until = 0 /\ r.title = t
    BY <2>1, <2>2 DEF IsRow, MinedRow
  <2> QED
    BY <2>3 DEF r
<1>15. ASSUME NEW i \in Live(R)
       PROVE  \/ MinedRow(R[i], cs, it, arts)
              \/ /\ i \in Live(rows) /\ R[i] = rows[i] /\ i \in own
                 /\ R[i].title \notin Titles(cs) /\ R[i].prov # "mined"
  <2>1. CASE i \in DOMAIN rows /\ i \in own /\ rows[i].title \in Titles(cs)
    <3>1. rows[i].from \in Nat
      BY <2>1 DEF RowsTyped, IsRow
    <3> QED
      BY <1>11, <1>14, <2>1, <3>1
  <2>2. CASE i \in DOMAIN rows /\ ~(i \in own /\ rows[i].title \in Titles(cs))
    <3>1. R[i] = U[i] /\ U[i].until = 0
      BY <1>12, <2>2 DEF Live
    <3>2. U[i] = rows[i] /\ i \in own /\ (rows[i].title \in Titles(cs) \/ rows[i].prov # "mined")
      BY <1>7, <2>2, <3>1
    <3> QED
      BY <2>2, <3>1, <3>2 DEF Live
  <2>3. CASE i \notin DOMAIN rows
    BY <1>13, <1>14, <2>3 DEF Live
  <2> QED
    BY <2>1, <2>2, <2>3
<1>16. \A i \in DOMAIN R : IsRow(R[i])
  <2> TAKE i \in DOMAIN R
  <2>1. CASE i \in DOMAIN rows /\ i \in own /\ rows[i].title \in Titles(cs)
    <3>1. rows[i].from \in Nat
      BY <2>1 DEF RowsTyped, IsRow
    <3> QED
      BY <1>11, <1>14, <2>1, <3>1
  <2>2. CASE i \in DOMAIN rows /\ ~(i \in own /\ rows[i].title \in Titles(cs))
    BY <1>4, <1>12, <2>2 DEF RowsTyped
  <2>3. CASE i \notin DOMAIN rows
    BY <1>13, <1>14, <2>3
  <2> QED
    BY <2>1, <2>2, <2>3
<1>17. RowsTyped(R)
  BY <1>10, <1>16 DEF RowsTyped
<1>18. ASSUME NEW i \in Live(R), NEW j \in Live(R), R[i].title = R[j].title
       PROVE  i = j
  <2>1. ASSUME NEW k \in Live(R), k \in DOMAIN rows PROVE k \in own /\ rows[k].title = R[k].title
    <3>1. CASE k \in own /\ rows[k].title \in Titles(cs)
      <4>1. rows[k].from \in Nat
        BY <2>1 DEF RowsTyped, IsRow
      <4> QED
        BY <1>11, <1>14, <2>1, <3>1, <4>1
    <3>2. CASE ~(k \in own /\ rows[k].title \in Titles(cs))
      <4>1. R[k] = U[k] /\ U[k].until = 0
        BY <1>12, <2>1, <3>2 DEF Live
      <4> QED
        BY <1>7, <2>1, <4>1
    <3> QED
      BY <3>1, <3>2
  <2>2. ASSUME NEW k \in Live(R), k \notin DOMAIN rows, NEW l \in Live(R), l \in DOMAIN rows
        PROVE  R[k].title # R[l].title
    <3>1. PICK t \in Titles(cs) : (\A m \in own : rows[m].title # t) /\ R[k] = With(want[t], aseq, 0)
      BY <1>13, <2>2 DEF Live
    <3>2. R[k].title = t
      BY <1>14, <3>1
    <3> QED
      BY <2>1, <2>2, <3>1, <3>2
  <2>3. CASE i \in DOMAIN rows /\ j \in DOMAIN rows
    <3>1. i \in Kept(rows) /\ j \in Kept(rows) /\ rows[i].title = rows[j].title
      BY <1>18, <2>1, <2>3 DEF own
    <3> QED
      BY <1>3, <3>1, KeptOncePerTitle
  <2>4. CASE i \notin DOMAIN rows /\ j \notin DOMAIN rows
    BY <1>10, <1>18, <2>4 DEF Live
  <2> QED
    BY <1>18, <2>2, <2>3, <2>4
<1>19. ASSUME NEW t \in Titles(cs)
       PROVE  \E i \in Live(R) : R[i].title = t /\ MinedRow(R[i], cs, it, arts)
  <2>1. CASE \E j \in own : rows[j].title = t
    <3>1. PICK j \in own : rows[j].title = t
      BY <2>1
    <3>2. j \in DOMAIN rows /\ rows[j].from \in Nat /\ j \in DOMAIN R
      BY <1>3, <1>10 DEF RowsTyped, IsRow
    <3>3. R[j] = With(want[t], rows[j].from, 0)
      BY <1>11, <3>1, <3>2
    <3>4. j \in Live(R)
      BY <1>14, <3>2, <3>3 DEF Live
    <3> QED
      BY <1>14, <3>2, <3>3, <3>4
  <2>2. CASE \A j \in own : rows[j].title # t
    <3>1. PICK i \in DOMAIN R : R[i] = With(want[t], aseq, 0)
      BY <1>1, <1>3, <1>6, <1>10, <2>2
    <3>2. i \in Live(R)
      BY <1>14, <3>1 DEF Live
    <3> QED
      BY <1>14, <3>1, <3>2
  <2> QED
    BY <2>1, <2>2
<1>20. \A i \in DOMAIN R : R[i].until \in {0, aseq} \/ (i \in DOMAIN rows /\ R[i] = rows[i])
  <2> TAKE i \in DOMAIN R
  <2>1. CASE i \in DOMAIN rows /\ i \in own /\ rows[i].title \in Titles(cs)
    <3>1. rows[i].from \in Nat
      BY <2>1 DEF RowsTyped, IsRow
    <3> QED
      BY <1>11, <1>14, <2>1, <3>1
  <2>2. CASE i \in DOMAIN rows /\ ~(i \in own /\ rows[i].title \in Titles(cs))
    BY <1>8, <1>12, <2>2
  <2>3. CASE i \notin DOMAIN rows
    BY <1>13, <1>14, <2>3
  <2> QED
    BY <2>1, <2>2, <2>3
<1> QED
  BY <1>10, <1>15, <1>17, <1>18, <1>19, <1>20 DEF OneLive

LEMMA LedgerWantFields ==
  ASSUME NEW q, NEW it, NEW arts
  PROVE  /\ LedgerWant(q, it, arts).title = q /\ LedgerWant(q, it, arts).prov = "ledger"
         /\ LedgerWant(q, it, arts).evidence = {}
<1>1. \E a, b, c : LedgerWant(q, it, arts) = [title |-> q, prov |-> "ledger", evidence |-> {},
                                              targets |-> a, acl |-> b, anchor |-> c]
  BY Zenon DEF LedgerWant
<1> QED
  BY <1>1

SearchedRow(r, it, arts) ==
  r.prov = "ledger" /\ r = With(LedgerWant(r.title, it, arts), r.from, 0)

SearchedWant(rows, it, arts) == [q \in Missing(rows, it, arts) |-> LedgerWant(q, it, arts)]

\* The ledger pass leaves the rows of the mining pass alone, has one row for every phrase that
\* it found a file for, and closes its other rows (reconcile_ledger_aliases).
LEMMA SearchedRows ==
  ASSUME NEW rows, RowsTyped(rows), OneLive(rows), aseq \in Nat \ {0},
         window \subseteq Queries, IsFiniteSet(window), Queries \subseteq Nat,
         NEW it, NEW arts, NEW R, R = LedgerPass(rows, it, arts)
  PROVE  /\ RowsTyped(R) /\ OneLive(R) /\ DOMAIN rows \subseteq DOMAIN R
         /\ \A i \in DOMAIN R : R[i].until \in {0, aseq} \/ (i \in DOMAIN rows /\ R[i] = rows[i])
         /\ \A i \in Live(rows) : rows[i].prov # "ledger" => R[i] = rows[i]
         /\ \A i \in Live(R) : \/ i \in Live(rows) /\ R[i] = rows[i] /\ rows[i].prov # "ledger"
                               \/ R[i].title \in Missing(rows, it, arts) /\ SearchedRow(R[i], it, arts)
         /\ \A q \in Missing(rows, it, arts) : \E i \in Live(R) : R[i].title = q
<1> DEFINE want == SearchedWant(rows, it, arts)
           own == {i \in DOMAIN rows : rows[i].until = 0 /\ rows[i].prov = "ledger"}
           which == {i \in own : rows[i].title \notin DOMAIN want}
           U == Closed(rows, which)
           missing == Missing(rows, it, arts)
<1>1. DOMAIN want = missing /\ \A q \in missing : want[q] = LedgerWant(q, it, arts)
  BY DEF SearchedWant
<1>2. \A q \in missing : want[q].title = q /\ want[q].prov = "ledger"
  BY <1>1, LedgerWantFields
<1>3. /\ missing \subseteq window /\ IsFiniteSet(missing) /\ missing \subseteq Nat
      /\ \A q \in missing : \A i \in DOMAIN rows : rows[i].until = 0 /\ rows[i].title = q => i \in own
  <2>1. /\ missing \subseteq window
        /\ \A q \in missing : \A i \in DOMAIN rows : rows[i].until = 0 /\ rows[i].title = q
                                                       => rows[i].prov = "ledger"
    BY Zenon DEF Missing
  <2> HIDE DEF missing
  <2> QED
    BY <2>1, FS_Subset
<1>4. /\ RowsTyped(U) /\ DOMAIN U = DOMAIN rows
      /\ \A i \in DOMAIN rows : U[i] = IF i \in which /\ rows[i].until = 0
                                       THEN With(rows[i], rows[i].from, aseq) ELSE rows[i]
  <2> HIDE DEF which
  <2> QED
    BY ClosedRows
<1>5. R = RowsUpserted(U, want, own)
  BY Zenon DEF LedgerPass, SearchedWant
<1>6. \A i \in DOMAIN rows : U[i].title = rows[i].title /\ U[i].from = rows[i].from
  BY <1>4, WithFields
<1>7. \A i \in DOMAIN rows : U[i].until = 0 =>
        U[i] = rows[i] /\ (rows[i].prov # "ledger" \/ (i \in own /\ rows[i].title \in missing))
  BY <1>1, <1>4, WithFields
<1>8. \A i \in DOMAIN rows : U[i].until = aseq \/ U[i] = rows[i]
  BY <1>4, WithFields
<1>9. \A i \in DOMAIN rows : i \notin own => U[i] = rows[i]
  BY <1>4
<1>10. \A i \in own : i \in DOMAIN rows /\ i \in Live(rows)
  BY DEF Live
<1>11. \A i \in DOMAIN rows : i \in own => rows[i].until = 0 /\ rows[i].prov = "ledger"
  OBVIOUS
<1> HIDE DEF U, want, own, which, missing
<1>12. /\ IsFiniteSet(DOMAIN U) /\ DOMAIN U \subseteq 1..Cardinality(DOMAIN U)
       /\ IsFiniteSet(DOMAIN want) /\ DOMAIN want \subseteq Nat /\ own \subseteq DOMAIN U
       /\ \A t \in DOMAIN want : want[t].title = t
  BY <1>1, <1>2, <1>3, <1>4, <1>10 DEF RowsTyped
<1>13. /\ R = [i \in DOMAIN R |-> R[i]]
       /\ IsFiniteSet(DOMAIN R) /\ DOMAIN R \subseteq 1..Cardinality(DOMAIN R)
       /\ DOMAIN rows \subseteq DOMAIN R
       /\ \A i \in DOMAIN rows :
            R[i] = IF i \in own /\ U[i].title \in DOMAIN want
                   THEN With(want[U[i].title], U[i].from, 0) ELSE U[i]
       /\ \A i \in DOMAIN R \ DOMAIN rows : \E t \in DOMAIN want :
            /\ \A j \in own : U[j].title # t
            /\ R[i] = With(want[t], aseq, 0)
       /\ \A i, j \in DOMAIN R \ DOMAIN rows : R[i].title = R[j].title => i = j
       /\ \A t \in DOMAIN want : (\A j \in own : U[j].title # t) =>
            \E i \in DOMAIN R \ DOMAIN rows : R[i] = With(want[t], aseq, 0)
  BY <1>4, <1>5, <1>12, UpsertedRows
<1>14. \A i \in DOMAIN rows : i \in own /\ rows[i].title \in missing =>
         R[i] = With(want[rows[i].title], rows[i].from, 0)
  BY <1>1, <1>6, <1>13
<1>15. \A i \in DOMAIN rows : ~(i \in own /\ rows[i].title \in missing) => R[i] = U[i]
  BY <1>1, <1>6, <1>13
<1>16. \A i \in DOMAIN R \ DOMAIN rows : \E t \in missing :
         (\A j \in own : rows[j].title # t) /\ R[i] = With(want[t], aseq, 0)
  BY <1>1, <1>6, <1>10, <1>13
<1>17. \A t \in missing : \A f \in Nat :
         /\ IsRow(With(want[t], f, 0)) /\ SearchedRow(With(want[t], f, 0), it, arts)
         /\ With(want[t], f, 0).until = 0 /\ With(want[t], f, 0).title = t
  <2> TAKE t \in missing
  <2> TAKE f \in Nat
  <2> DEFINE r == With(want[t], f, 0)
  <2>1. r.title = t /\ r.prov = "ledger" /\ r.from = f /\ r.until = 0 /\ r = With(r, f, 0)
    BY <1>2, WithFields
  <2>2. r = With(LedgerWant(r.title, it, arts), r.from, 0)
    BY <1>1, <2>1
  <2> HIDE DEF r
  <2>3. IsRow(r) /\ SearchedRow(r, it, arts) /\ r.until = 0 /\ r.title = t
    BY <1>3, <2>1, <2>2 DEF IsRow, SearchedRow
  <2> QED
    BY <2>3 DEF r
<1>18. \A i \in DOMAIN rows : rows[i].from \in Nat
  BY DEF RowsTyped, IsRow
<1>19. ASSUME NEW i \in Live(R)
       PROVE  \/ i \in Live(rows) /\ R[i] = rows[i] /\ rows[i].prov # "ledger"
              \/ R[i].title \in missing /\ SearchedRow(R[i], it, arts)
  <2>1. CASE i \in DOMAIN rows /\ i \in own /\ rows[i].title \in missing
    BY <1>14, <1>17, <1>18, <2>1
  <2>2. CASE i \in DOMAIN rows /\ ~(i \in own /\ rows[i].title \in missing)
    BY <1>7, <1>15, <2>2 DEF Live
  <2>3. CASE i \notin DOMAIN rows
    BY <1>16, <1>17, <2>3 DEF Live
  <2> QED
    BY <2>1, <2>2, <2>3
<1>20. \A i \in DOMAIN R : IsRow(R[i]) /\ (R[i].until \in {0, aseq} \/ (i \in DOMAIN rows /\ R[i] = rows[i]))
  <2> TAKE i \in DOMAIN R
  <2>1. CASE i \in DOMAIN rows /\ i \in own /\ rows[i].title \in missing
    BY <1>14, <1>17, <1>18, <2>1
  <2>2. CASE i \in DOMAIN rows /\ ~(i \in own /\ rows[i].title \in missing)
    BY <1>4, <1>8, <1>15, <2>2 DEF RowsTyped
  <2>3. CASE i \notin DOMAIN rows
    BY <1>16, <1>17, <2>3
  <2> QED
    BY <2>1, <2>2, <2>3
<1>21. RowsTyped(R)
  BY <1>13, <1>20 DEF RowsTyped
<1>22. ASSUME NEW k \in Live(R), k \in DOMAIN rows PROVE k \in Live(rows) /\ rows[k].title = R[k].title
  <2>1. CASE k \in own /\ rows[k].title \in missing
    BY <1>10, <1>14, <1>17, <1>18, <1>22, <2>1
  <2>2. CASE ~(k \in own /\ rows[k].title \in missing)
    BY <1>7, <1>15, <1>22, <2>2 DEF Live
  <2> QED
    BY <2>1, <2>2
<1>23. ASSUME NEW k \in Live(R), k \notin DOMAIN rows, NEW l \in Live(R), l \in DOMAIN rows
       PROVE  R[k].title # R[l].title
  <2>1. PICK t \in missing : (\A m \in own : rows[m].title # t) /\ R[k] = With(want[t], aseq, 0)
    BY <1>16, <1>23 DEF Live
  <2>2. R[k].title = t
    BY <1>17, <2>1
  <2>3. l \in Live(rows) /\ rows[l].title = R[l].title
    BY <1>22, <1>23
  <2>4. rows[l].title = t => l \in own
    BY <1>3, <2>3 DEF Live
  <2> QED
    BY <2>1, <2>2, <2>3, <2>4
<1>24. ASSUME NEW i \in Live(R), NEW j \in Live(R), R[i].title = R[j].title
       PROVE  i = j
  <2>1. CASE i \in DOMAIN rows /\ j \in DOMAIN rows
    BY <1>22, <1>24, <2>1 DEF OneLive
  <2>2. CASE i \notin DOMAIN rows /\ j \notin DOMAIN rows
    BY <1>13, <1>24, <2>2 DEF Live
  <2> QED
    BY <1>23, <1>24, <2>1, <2>2
<1>25. ASSUME NEW t \in missing
       PROVE  \E i \in Live(R) : R[i].title = t
  <2>1. CASE \E j \in own : rows[j].title = t
    <3>1. PICK j \in own : rows[j].title = t
      BY <2>1
    <3>2. j \in DOMAIN rows /\ j \in DOMAIN R
      BY <1>10, <1>13
    <3>3. R[j] = With(want[t], rows[j].from, 0)
      BY <1>14, <3>1, <3>2
    <3> QED
      BY <1>17, <1>18, <3>2, <3>3 DEF Live
  <2>2. CASE \A j \in own : rows[j].title # t
    <3>1. PICK i \in DOMAIN R : R[i] = With(want[t], aseq, 0)
      BY <1>1, <1>6, <1>10, <1>13, <2>2
    <3> QED
      BY <1>17, <3>1 DEF Live
  <2> QED
    BY <2>1, <2>2
<1>26. \A i \in Live(rows) : rows[i].prov # "ledger" => R[i] = rows[i]
  BY <1>9, <1>11, <1>15 DEF Live
<1> QED
  BY <1>13, <1>19, <1>20, <1>21, <1>24, <1>25, <1>26 DEF OneLive, missing

--------------------------------------------------------------------------------
(* What the rows remember *)

\* What the sources S give: <<source, phrase, paths>>.
Full(S) == UNION {{<<s, p, Origin[s].phrases[p]>> : p \in DOMAIN Origin[s].phrases} : s \in S}

\* What the live rows say the sources gave.
Gist(rows) == UNION {{<<e.src, rows[i].title, e.paths>> : e \in rows[i].evidence} : i \in Live(rows)}

LEMMA FullMembers ==
  ASSUME NEW S, NEW c
  PROVE  c \in Full(S) <=> \E s \in S : \E p \in DOMAIN Origin[s].phrases : c = <<s, p, Origin[s].phrases[p]>>
BY DEF Full

LEMMA GistMembers ==
  ASSUME NEW rows, NEW c
  PROVE  c \in Gist(rows) <=>
           \E i \in Live(rows) : \E e \in rows[i].evidence : c = <<e.src, rows[i].title, e.paths>>
BY DEF Gist

LEMMA FullTitles ==
  ASSUME NEW S \in SUBSET Sources
  PROVE  IsFiniteSet(Titles(Full(S))) /\ Titles(Full(S)) \subseteq Nat
<1> DEFINE D == {DOMAIN Origin[s].phrases : s \in S}
<1>1. IsFiniteSet(S) /\ \A s \in S : DOMAIN Origin[s].phrases \subseteq Nat /\ IsFiniteSet(DOMAIN Origin[s].phrases)
  BY AliasAssumption, FS_Subset
<1>2. IsFiniteSet(D) /\ \A d \in D : IsFiniteSet(d) /\ d \subseteq Nat
  <2>1. [s \in S |-> DOMAIN Origin[s].phrases] \in Surjection(S, D)
    BY DEF Surjection
  <2>2. IsFiniteSet(D)
    <3> HIDE DEF D
    <3> QED
      BY <1>1, <2>1, FS_Surjection
  <2> QED
    BY <1>1, <2>2
<1>3. Titles(Full(S)) \subseteq UNION D
  <2> SUFFICES ASSUME NEW c \in Full(S) PROVE c[2] \in UNION D
    BY DEF Titles
  <2>1. PICK s \in S : \E p \in DOMAIN Origin[s].phrases : c = <<s, p, Origin[s].phrases[p]>>
    BY FullMembers
  <2> QED
    BY <2>1
<1> HIDE DEF D
<1>4. IsFiniteSet(UNION D) /\ UNION D \subseteq Nat
  BY <1>2, FS_UNION
<1> QED
  BY <1>3, <1>4, FS_Subset

\* The sweep closes rows, and the mining pass still reads those (_load_prior_alias_rows).
LEMMA SweptRows ==
  ASSUME RowsTyped(alias), OneLive(alias), aseq \in Nat \ {0},
         \A i \in DOMAIN alias : alias[i].until < aseq,
         NEW changed, NEW vanished, NEW R, R = RowsSwept(changed, vanished)
  PROVE  /\ RowsTyped(R) /\ DOMAIN R = DOMAIN alias
         /\ \A i \in DOMAIN alias : /\ R[i].title = alias[i].title /\ R[i].prov = alias[i].prov
                                    /\ R[i].evidence = alias[i].evidence
                                    /\ R[i] = alias[i] \/ R[i].until = aseq
         /\ Kept(R) = Live(alias) /\ Live(R) \subseteq Live(alias)
<1> DEFINE hit(r) == r.until = 0 /\ (r.anchor \in vanished \/ (r.anchor \in changed /\ r.from < aseq))
<1>1. R = [i \in DOMAIN alias |-> IF hit(alias[i]) THEN [alias[i] EXCEPT !.until = aseq] ELSE alias[i]]
  BY Zenon DEF RowsSwept
<1>2. \A i \in DOMAIN alias : IsRow(alias[i]) /\ alias[i].until \in Nat
  BY DEF RowsTyped, IsRow
<1>3. \A i \in DOMAIN alias : hit(alias[i]) => alias[i].until = 0
  OBVIOUS
<1> HIDE DEF hit
<1>4. ASSUME NEW i \in DOMAIN alias
      PROVE  /\ IsRow(R[i]) /\ R[i].title = alias[i].title /\ R[i].prov = alias[i].prov
             /\ R[i].evidence = alias[i].evidence
             /\ R[i] = alias[i] \/ (R[i].until = aseq /\ alias[i].until = 0)
  <2>1. CASE hit(alias[i])
    <3>1. R[i] = With(alias[i], alias[i].from, aseq) /\ IsRow(R[i])
      BY <1>1, <1>2, <2>1, RowClosed
    <3> QED
      BY <1>3, <2>1, <3>1, WithFields
  <2>2. CASE ~hit(alias[i])
    BY <1>1, <1>2, <2>2
  <2> QED
    BY <2>1, <2>2
<1>5. DOMAIN R = DOMAIN alias /\ R = [i \in DOMAIN R |-> R[i]]
  BY <1>1
<1>6. RowsTyped(R)
  BY <1>4, <1>5 DEF RowsTyped
<1>7. \A i \in DOMAIN alias : R[i].until \in {0, aseq} <=> alias[i].until = 0
  <2> TAKE i \in DOMAIN alias
  <2>1. alias[i].until \in Nat /\ alias[i].until < aseq
    BY <1>2
  <2> QED
    BY <1>4, <2>1
<1>8. Readable(R) = Live(alias)
  BY <1>5, <1>7 DEF Readable, Live
<1>9. Kept(R) = Live(alias)
  <2>1. \A i, j \in Live(alias) : R[j].title = R[i].title => i = j
    BY <1>4 DEF OneLive, Live
  <2> QED
    BY <1>8, <2>1 DEF Kept
<1>10. Live(R) \subseteq Live(alias)
  BY <1>5, <1>7 DEF Live
<1> QED
  BY <1>4, <1>5, <1>6, <1>9, <1>10

\* The propagation writes the ACL of live rows, and nothing else (_propagate_acl).
LEMMA PropagatedRows ==
  ASSUME NEW rows, RowsTyped(rows), NEW seen, NEW it, NEW R, R = AclPropagated(rows, seen, it)
  PROVE  /\ RowsTyped(R) /\ DOMAIN R = DOMAIN rows
         /\ \A i \in DOMAIN rows :
              /\ R[i].title = rows[i].title /\ R[i].prov = rows[i].prov
              /\ R[i].evidence = rows[i].evidence
              /\ R[i].from = rows[i].from /\ R[i].until = rows[i].until
              /\ R[i] # rows[i] => rows[i].until = 0 /\ rows[i].acl # AclOf(rows[i].anchor, it)
         /\ Kept(R) = Kept(rows) /\ Live(R) = Live(rows)
<1>1. R = [i \in DOMAIN rows |-> WithAnchorAcl(rows[i], seen, it)]
  BY Zenon DEF AclPropagated
<1>2. DOMAIN R = DOMAIN rows /\ R = [i \in DOMAIN R |-> R[i]]
  BY <1>1
<1>3. ASSUME NEW i \in DOMAIN rows
      PROVE  /\ IsRow(R[i]) /\ R[i].title = rows[i].title /\ R[i].prov = rows[i].prov
             /\ R[i].evidence = rows[i].evidence
             /\ R[i].from = rows[i].from /\ R[i].until = rows[i].until
             /\ R[i] # rows[i] => rows[i].until = 0 /\ rows[i].acl # AclOf(rows[i].anchor, it)
  <2> DEFINE r == rows[i]
             a == AclOf(rows[i].anchor, it)
  <2>1. IsRow(r)
    BY DEF RowsTyped
  <2>2. R[i] = IF r.until = 0 /\ r.anchor \in seen THEN [r EXCEPT !.acl = a] ELSE r
    BY <1>1 DEF WithAnchorAcl
  <2> HIDE DEF r, a
  <2>3. /\ IsRow(R[i]) /\ R[i].title = r.title /\ R[i].prov = r.prov /\ R[i].evidence = r.evidence
        /\ R[i].from = r.from /\ R[i].until = r.until
        /\ R[i] # r => r.until = 0 /\ r.acl # a
    BY <2>1, <2>2, RowGranted
  <2> QED
    BY <2>3 DEF r, a
<1>4. RowsTyped(R)
  BY <1>2, <1>3 DEF RowsTyped
<1>5. Readable(R) = Readable(rows) /\ Live(R) = Live(rows)
  BY <1>2, <1>3 DEF Readable, Live
<1>6. Kept(R) = Kept(rows)
  <2> DEFINE before(x, i, j) == \/ x[i].until = 0 /\ x[j].until # 0
                                \/ (x[i].until = 0 <=> x[j].until = 0) /\ i < j
  <2>1. \A x : Kept(x) = {i \in Readable(x) : \A j \in Readable(x) \ {i} :
                             x[j].title = x[i].title => before(x, i, j)}
    BY Zenon DEF Kept
  <2>2. \A i \in Readable(rows) : R[i].title = rows[i].title /\ R[i].until = rows[i].until
    BY <1>3 DEF Readable
  <2>3. \A i, j \in Readable(rows) :
          (R[j].title = R[i].title => before(R, i, j))
          <=> (rows[j].title = rows[i].title => before(rows, i, j))
    BY <2>2
  <2> HIDE DEF before
  <2>4. \A i : i \in Kept(R) <=> i \in Kept(rows)
    BY <1>5, <2>1, <2>3
  <2>5. Kept(R) \subseteq Readable(rows) /\ Kept(rows) \subseteq Readable(rows)
    BY <1>5, <2>1
  <2> QED
    BY <2>4, <2>5
<1> QED
  BY <1>2, <1>3, <1>4, <1>5, <1>6

\* The rows that the passes of a build find, after its sweep and its propagation.
RowsFound(changed, vanished, seen, it) == AclPropagated(RowsSwept(changed, vanished), seen, it)

LEMMA FoundRows ==
  ASSUME RowsTyped(alias), OneLive(alias), aseq \in Nat \ {0},
         \A i \in DOMAIN alias : alias[i].until < aseq,
         NEW changed, NEW vanished, NEW seen, NEW it,
         NEW R, R = RowsFound(changed, vanished, seen, it)
  PROVE  /\ RowsTyped(R) /\ DOMAIN R = DOMAIN alias
         /\ \A i \in DOMAIN alias : /\ R[i].title = alias[i].title /\ R[i].prov = alias[i].prov
                                    /\ R[i].evidence = alias[i].evidence
                                    /\ R[i].until = alias[i].until \/ R[i].until = aseq
         /\ Kept(R) = Live(alias) /\ Live(R) \subseteq Live(alias)
<1> DEFINE W == RowsSwept(changed, vanished)
<1>1. /\ RowsTyped(W) /\ DOMAIN W = DOMAIN alias
      /\ \A i \in DOMAIN alias : /\ W[i].title = alias[i].title /\ W[i].prov = alias[i].prov
                                 /\ W[i].evidence = alias[i].evidence
                                 /\ W[i] = alias[i] \/ W[i].until = aseq
      /\ Kept(W) = Live(alias) /\ Live(W) \subseteq Live(alias)
  BY SweptRows
<1>2. R = AclPropagated(W, seen, it)
  BY Zenon DEF RowsFound
<1> HIDE DEF W
<1>3. /\ RowsTyped(R) /\ DOMAIN R = DOMAIN W
      /\ \A i \in DOMAIN W : /\ R[i].title = W[i].title /\ R[i].prov = W[i].prov
                             /\ R[i].evidence = W[i].evidence /\ R[i].until = W[i].until
      /\ Kept(R) = Kept(W) /\ Live(R) = Live(W)
  BY <1>1, <1>2, PropagatedRows
<1> QED
  BY <1>1, <1>3

\* What is replayed from the rows and what is mined again come to the same (_prior_extractions).
LEMMA Replayed ==
  ASSUME RowsTyped(alias), OneLive(alias), aseq \in Nat \ {0},
         \A i \in DOMAIN alias : alias[i].until < aseq,
         NEW S \in SUBSET Sources, Gist(alias) = Full(S),
         NEW changed, NEW vanished, NEW seen, NEW it, NEW arts
  PROVE  Contributions(RowsFound(changed, vanished, seen, it), it, arts) = Full(Inputs(it, arts))
<1> DEFINE R == RowsFound(changed, vanished, seen, it)
           mined(s) == {<<s, p, Origin[s].phrases[p]>> : p \in DOMAIN Origin[s].phrases}
           replayed(s) == {<<s, m[1], m[3]>> : m \in Remembered(s, R)}
<1>1. /\ \A i \in Live(alias) : R[i].title = alias[i].title /\ R[i].evidence = alias[i].evidence
      /\ Kept(R) = Live(alias)
  BY FoundRows DEF Live
<1> HIDE DEF R
<1>2. ASSUME NEW s, Remembered(s, R) # {} PROVE replayed(s) = mined(s)
  <2>1. \A m : m \in Remembered(s, R) <=>
          \E i \in Live(alias) : \E e \in alias[i].evidence :
            e.src = s /\ m = <<alias[i].title, e.gen, e.paths>>
    BY <1>1 DEF Remembered
  <2>2. \A c : c \in replayed(s) <=>
          \E i \in Live(alias) : \E e \in alias[i].evidence :
            e.src = s /\ c = <<s, alias[i].title, e.paths>>
    <3> TAKE c
    <3>1. ASSUME NEW m \in Remembered(s, R), c = <<s, m[1], m[3]>>
          PROVE  \E i \in Live(alias) : \E e \in alias[i].evidence :
                   e.src = s /\ c = <<s, alias[i].title, e.paths>>
      <4>1. PICK i \in Live(alias) : \E e \in alias[i].evidence :
              e.src = s /\ m = <<alias[i].title, e.gen, e.paths>>
        BY <2>1
      <4>2. PICK e \in alias[i].evidence : e.src = s /\ m = <<alias[i].title, e.gen, e.paths>>
        BY <4>1
      <4>3. c = <<s, alias[i].title, e.paths>>
        BY <3>1, <4>2
      <4> QED
        BY <4>2, <4>3
    <3>2. ASSUME NEW i \in Live(alias), NEW e \in alias[i].evidence,
                 e.src = s, c = <<s, alias[i].title, e.paths>>
          PROVE  c \in replayed(s)
      <4> DEFINE m == <<alias[i].title, e.gen, e.paths>>
      <4>1. m \in Remembered(s, R)
        BY <2>1, <3>2
      <4>2. c = <<s, m[1], m[3]>>
        BY <3>2
      <4> QED
        BY <4>1, <4>2
    <3> QED
      BY <3>1, <3>2
  <2>3. \A c : c \in replayed(s) <=> c \in Gist(alias) /\ c[1] = s
    <3> TAKE c
    <3>1. ASSUME c \in replayed(s) PROVE c \in Gist(alias) /\ c[1] = s
      <4>1. PICK i \in Live(alias) : \E e \in alias[i].evidence :
              e.src = s /\ c = <<s, alias[i].title, e.paths>>
        BY <2>2, <3>1
      <4>2. \E e \in alias[i].evidence : c = <<e.src, alias[i].title, e.paths>>
        BY <4>1
      <4>3. c[1] = s
        BY <4>1
      <4> QED
        BY <4>2, <4>3, GistMembers
    <3>2. ASSUME c \in Gist(alias), c[1] = s PROVE c \in replayed(s)
      <4>1. PICK i \in Live(alias) : \E e \in alias[i].evidence :
              c = <<e.src, alias[i].title, e.paths>>
        BY <3>2, GistMembers
      <4>2. PICK e \in alias[i].evidence : c = <<e.src, alias[i].title, e.paths>>
        BY <4>1
      <4>3. e.src = s
        BY <3>2, <4>2
      <4>4. c = <<s, alias[i].title, e.paths>>
        BY <4>2, <4>3
      <4> QED
        BY <2>2, <4>3, <4>4
    <3> QED
      BY <3>1, <3>2
  <2>4. s \in S
    <3>1. PICK m : m \in Remembered(s, R)
      BY <1>2
    <3>2. <<s, m[1], m[3]>> \in replayed(s)
      BY <3>1
    <3> HIDE DEF replayed
    <3>3. PICK c : c \in Full(S) /\ c[1] = s
      BY <2>3, <3>2
    <3>4. PICK t \in S : \E p \in DOMAIN Origin[t].phrases : c = <<t, p, Origin[t].phrases[p]>>
      BY <3>3, FullMembers
    <3>5. t = s
      BY <3>3, <3>4
    <3> QED
      BY <3>5
  <2>5. \A c : c \in mined(s) <=> c \in Full(S) /\ c[1] = s
    <3> TAKE c
    <3>1. ASSUME c \in mined(s) PROVE c \in Full(S) /\ c[1] = s
      <4>1. PICK p \in DOMAIN Origin[s].phrases : c = <<s, p, Origin[s].phrases[p]>>
        BY <3>1
      <4> QED
        BY <2>4, <4>1, FullMembers
    <3>2. ASSUME c \in Full(S), c[1] = s PROVE c \in mined(s)
      <4>1. PICK t \in S : \E p \in DOMAIN Origin[t].phrases : c = <<t, p, Origin[t].phrases[p]>>
        BY <3>2, FullMembers
      <4>2. t = s
        BY <3>2, <4>1
      <4> QED
        BY <4>1, <4>2
    <3> QED
      BY <3>1, <3>2
  <2> HIDE DEF mined, replayed
  <2> QED
    BY <2>3, <2>5
<1>3. \A s : (IF IsUnchanged(s, R, it) THEN replayed(s) ELSE mined(s)) = mined(s)
  BY <1>2 DEF IsUnchanged
<1>4. Contributions(R, it, arts) =
        UNION {IF IsUnchanged(s, R, it) THEN replayed(s) ELSE mined(s) : s \in Inputs(it, arts)}
  BY DEF Contributions
<1>5. Full(Inputs(it, arts)) = UNION {mined(s) : s \in Inputs(it, arts)}
  BY DEF Full
<1> HIDE DEF mined, replayed
<1>6. Contributions(R, it, arts) = Full(Inputs(it, arts))
  BY <1>3, <1>4, <1>5
<1> QED
  BY <1>6 DEF R

--------------------------------------------------------------------------------
(* Rows that follow the sources *)

Given(it, arts) == Full(Inputs(it, arts))

\* Missing, for the searches w of an earlier window.
MissingOf(w, rows, it, arts) ==
  {q \in w : /\ Found(q, it, arts) # {}
             /\ \A i \in DOMAIN rows : rows[i].until = 0 /\ rows[i].title = q => rows[i].prov = "ledger"}

\* The live rows are those of the phrases of the sources, and of the searches w.
RowsFollow(rows, it, arts, w) ==
  /\ \A i \in Live(rows) : \/ MinedRow(rows[i], Given(it, arts), it, arts)
                           \/ /\ rows[i].title \in MissingOf(w, rows, it, arts)
                              /\ SearchedRow(rows[i], it, arts)
  /\ \A t \in Titles(Given(it, arts)) : \E i \in Live(rows) :
       rows[i].title = t /\ MinedRow(rows[i], Given(it, arts), it, arts)
  /\ \A q \in MissingOf(w, rows, it, arts) : \E i \in Live(rows) : rows[i].title = q

TwoKinds(rows) == \A i \in Live(rows) : rows[i].prov \in {"mined", "ledger"}

LEMMA MissingInWindow ==
  ASSUME NEW rows, NEW it, NEW arts
  PROVE  Missing(rows, it, arts) = MissingOf(window, rows, it, arts)
BY Zenon DEF Missing, MissingOf

LEMMA InputsAreSources ==
  ASSUME NEW it, NEW arts
  PROVE  Inputs(it, arts) \in SUBSET Sources
BY DEF Inputs

\* The two passes, one after the other.
LEMMA BothPasses ==
  ASSUME NEW rows, RowsTyped(rows), TwoKinds(rows), aseq \in Nat \ {0},
         window \subseteq Queries, IsFiniteSet(window), NEW it, NEW arts,
         NEW R1, R1 = Reconciled(rows, MinedWant(Given(it, arts), it, arts)),
         NEW R2, R2 = LedgerPass(R1, it, arts)
  PROVE  /\ RowsTyped(R2) /\ OneLive(R2) /\ TwoKinds(R2) /\ DOMAIN rows \subseteq DOMAIN R2
         /\ \A i \in DOMAIN R2 : R2[i].until \in {0, aseq} \/ (i \in DOMAIN rows /\ R2[i] = rows[i])
         /\ RowsFollow(R2, it, arts, window)
         /\ \A i : i \in Live(R1) /\ R1[i].prov = "mined" <=> i \in Live(R2) /\ R2[i].prov = "mined"
         /\ \A i \in Live(R1) : R1[i].prov = "mined" => R2[i] = R1[i]
<1> DEFINE cs == Given(it, arts)
           missing == Missing(R1, it, arts)
<1>1. IsFiniteSet(Titles(cs)) /\ Titles(cs) \subseteq Nat
  BY InputsAreSources, FullTitles DEF Given
<1>2. Queries \subseteq Nat
  BY AliasAssumption
<1> HIDE DEF cs, missing
<1>3. /\ RowsTyped(R1) /\ OneLive(R1) /\ DOMAIN rows \subseteq DOMAIN R1
      /\ \A i \in DOMAIN R1 : R1[i].until \in {0, aseq} \/ (i \in DOMAIN rows /\ R1[i] = rows[i])
      /\ \A i \in Live(R1) : \/ MinedRow(R1[i], cs, it, arts)
                             \/ /\ i \in Live(rows) /\ R1[i] = rows[i]
                                /\ R1[i].title \notin Titles(cs) /\ R1[i].prov # "mined"
      /\ \A t \in Titles(cs) : \E i \in Live(R1) : R1[i].title = t /\ MinedRow(R1[i], cs, it, arts)
  <2>1. R1 = Reconciled(rows, MinedWant(cs, it, arts))
    BY DEF cs
  <2> QED
    BY <1>1, <2>1, MinedRows
<1>4. /\ RowsTyped(R2) /\ OneLive(R2) /\ DOMAIN R1 \subseteq DOMAIN R2
      /\ \A i \in DOMAIN R2 : R2[i].until \in {0, aseq} \/ (i \in DOMAIN R1 /\ R2[i] = R1[i])
      /\ \A i \in Live(R1) : R1[i].prov # "ledger" => R2[i] = R1[i]
      /\ \A i \in Live(R2) : \/ i \in Live(R1) /\ R2[i] = R1[i] /\ R1[i].prov # "ledger"
                             \/ R2[i].title \in missing /\ SearchedRow(R2[i], it, arts)
      /\ \A q \in missing : \E i \in Live(R2) : R2[i].title = q
  BY <1>2, <1>3, SearchedRows DEF missing
<1>5. \A r : (MinedRow(r, cs, it, arts) => r.prov = "mined") /\ (SearchedRow(r, it, arts) => r.prov = "ledger")
  BY DEF MinedRow, SearchedRow
<1>6. \A i \in Live(R1) : MinedRow(R1[i], cs, it, arts) \/ R1[i].prov = "ledger"
  BY <1>3 DEF TwoKinds
<1>7. \A i \in Live(R2) :
        \/ i \in Live(R1) /\ R2[i] = R1[i] /\ MinedRow(R2[i], cs, it, arts)
        \/ R2[i].title \in missing /\ SearchedRow(R2[i], it, arts)
  BY <1>4, <1>6
<1>8. \A i \in Live(R1) : R1[i].prov = "mined" => i \in Live(R2) /\ R2[i] = R1[i]
  BY <1>4 DEF Live
<1>9. \A i : i \in Live(R1) /\ R1[i].prov = "mined" <=> i \in Live(R2) /\ R2[i].prov = "mined"
  BY <1>5, <1>7, <1>8
<1>10. missing = MissingOf(window, R2, it, arts)
  <2>1. missing = MissingOf(window, R1, it, arts)
    BY MissingInWindow DEF missing
  <2>2. ASSUME NEW q
        PROVE  (\A i \in Live(R1) : R1[i].title = q => R1[i].prov = "ledger")
               <=> (\A i \in Live(R2) : R2[i].title = q => R2[i].prov = "ledger")
    <3>1. \A i \in Live(R1) : R1[i].prov # "ledger" => i \in Live(R2) /\ R2[i] = R1[i]
      BY <1>5, <1>6, <1>8
    <3>2. \A i \in Live(R2) : R2[i].prov # "ledger" => i \in Live(R1) /\ R2[i] = R1[i]
      BY <1>5, <1>7
    <3> QED
      BY <3>1, <3>2
  <2>3. \A rs : MissingOf(window, rs, it, arts) =
          {q \in window : /\ Found(q, it, arts) # {}
                          /\ \A i \in Live(rs) : rs[i].title = q => rs[i].prov = "ledger"}
    <3> TAKE rs
    <3>1. \A q : (\A i \in DOMAIN rs : rs[i].until = 0 /\ rs[i].title = q => rs[i].prov = "ledger")
                 <=> (\A i \in Live(rs) : rs[i].title = q => rs[i].prov = "ledger")
      BY DEF Live
    <3> QED
      BY <3>1 DEF MissingOf
  <2>4. \A q : q \in MissingOf(window, R1, it, arts) <=> q \in MissingOf(window, R2, it, arts)
    BY <2>2, <2>3
  <2>5. MissingOf(window, R1, it, arts) \subseteq window /\ MissingOf(window, R2, it, arts) \subseteq window
    BY DEF MissingOf
  <2> QED
    BY <2>1, <2>4, <2>5
<1>11. \A t \in Titles(cs) : \E i \in Live(R2) : R2[i].title = t /\ MinedRow(R2[i], cs, it, arts)
  BY <1>3, <1>5, <1>8
<1>12. RowsFollow(R2, it, arts, window)
  BY <1>4, <1>7, <1>10, <1>11 DEF RowsFollow, cs
<1>13. TwoKinds(R2)
  BY <1>5, <1>7 DEF TwoKinds
<1>14. \A i \in DOMAIN R2 : R2[i].until \in {0, aseq} \/ (i \in DOMAIN rows /\ R2[i] = rows[i])
  BY <1>3, <1>4
<1> QED
  BY <1>3, <1>4, <1>8, <1>9, <1>12, <1>13, <1>14

\* Rows that follow the sources remember what those give, and no more.
LEMMA FollowersRemember ==
  ASSUME NEW rows, NEW it, NEW arts, NEW w, RowsFollow(rows, it, arts, w)
  PROVE  Gist(rows) = Given(it, arts)
<1> DEFINE cs == Given(it, arts)
<1>1. \A c \in cs : c = <<c[1], c[2], c[3]>>
  <2> TAKE c \in cs
  <2>1. PICK s \in Inputs(it, arts) : \E p \in DOMAIN Origin[s].phrases : c = <<s, p, Origin[s].phrases[p]>>
    BY FullMembers DEF Given
  <2> QED
    BY <2>1
<1>2. ASSUME NEW i \in Live(rows), MinedRow(rows[i], cs, it, arts)
      PROVE  rows[i].evidence = Evidence(rows[i].title, cs, it) /\ rows[i].title \in Titles(cs)
  <2>1. rows[i].evidence = MinedFor(rows[i].title, cs, it, arts).evidence
    <3> DEFINE d == MinedFor(rows[i].title, cs, it, arts)
    <3>1. rows[i] = With(d, rows[i].from, 0)
      BY <1>2 DEF MinedRow
    <3> HIDE DEF d
    <3>2. rows[i].evidence = d.evidence
      BY <3>1, WithFields
    <3> QED
      BY <3>2 DEF d
  <2> QED
    BY <1>2, <2>1, MinedFields DEF MinedRow
<1>3. ASSUME NEW i \in Live(rows), SearchedRow(rows[i], it, arts)
      PROVE  rows[i].evidence = {}
  <2> DEFINE d == LedgerWant(rows[i].title, it, arts)
  <2>1. rows[i] = With(d, rows[i].from, 0) /\ d.evidence = {}
    BY <1>3, LedgerWantFields DEF SearchedRow
  <2> HIDE DEF d
  <2> QED
    BY <2>1, WithFields
<1>4. /\ \A i \in Live(rows) : MinedRow(rows[i], cs, it, arts) \/ SearchedRow(rows[i], it, arts)
      /\ \A t \in Titles(cs) : \E i \in Live(rows) : rows[i].title = t /\ MinedRow(rows[i], cs, it, arts)
  BY DEF RowsFollow
<1> HIDE DEF cs
<1>5. ASSUME NEW c \in Gist(rows) PROVE c \in cs
  <2>1. PICK i \in Live(rows) : \E e \in rows[i].evidence : c = <<e.src, rows[i].title, e.paths>>
    BY GistMembers
  <2>2. PICK e \in rows[i].evidence : c = <<e.src, rows[i].title, e.paths>>
    BY <2>1
  <2>3. MinedRow(rows[i], cs, it, arts)
    BY <1>3, <1>4
  <2>4. e \in Evidence(rows[i].title, cs, it)
    BY <1>2, <2>3
  <2>5. PICK x \in cs : x[2] = rows[i].title /\ e = [src |-> x[1], gen |-> it[x[1]].gen, paths |-> x[3]]
    BY <2>4 DEF Evidence
  <2>6. e.src = x[1] /\ e.paths = x[3]
    BY <2>5
  <2>7. c = <<x[1], x[2], x[3]>>
    BY <2>2, <2>5, <2>6
  <2> QED
    BY <1>1, <2>7
<1>6. ASSUME NEW c \in cs PROVE c \in Gist(rows)
  <2>1. c[2] \in Titles(cs)
    BY DEF Titles
  <2>2. PICK i \in Live(rows) : rows[i].title = c[2] /\ MinedRow(rows[i], cs, it, arts)
    BY <1>4, <2>1
  <2> DEFINE e == [src |-> c[1], gen |-> it[c[1]].gen, paths |-> c[3]]
  <2>3. e \in Evidence(c[2], cs, it)
    BY DEF Evidence
  <2>4. e \in rows[i].evidence
    BY <1>2, <2>2, <2>3
  <2>5. e.src = c[1] /\ e.paths = c[3]
    OBVIOUS
  <2> HIDE DEF e
  <2>6. c = <<e.src, rows[i].title, e.paths>>
    BY <1>1, <2>2, <2>5
  <2> QED
    BY <2>4, <2>6, GistMembers
<1> QED
  BY <1>5, <1>6 DEF cs

--------------------------------------------------------------------------------
(* Edges *)

\* There is one artifact that a path prefers (_resolve_targets).
LEMMA PreferredIsOne ==
  ASSUME NEW A, A \subseteq Sources \X Nat, A # {}
  PROVE  Preferred(A) \in A
<1> DEFINE rank(a) == Origin[a[1]].rank
<1>1. \A a \in A : rank(a) \in Nat /\ a[1] \in Nat /\ a[2] \in Nat
  BY AliasAssumption
<1> DEFINE Better(a, b) == \/ rank(a) < rank(b)
                           \/ rank(a) = rank(b) /\ (a[1] < b[1] \/ (a[1] = b[1] /\ a[2] <= b[2]))
<1> HIDE DEF rank
<1>2. PICK r \in {rank(a) : a \in A} : \A y \in {rank(a) : a \in A} : r <= y
  <2>1. {rank(a) : a \in A} \subseteq Nat /\ {rank(a) : a \in A} # {}
    BY <1>1
  <2> QED
    BY <2>1, LeastExists
<1> DEFINE B == {a \in A : rank(a) = r}
<1>3. PICK s \in {a[1] : a \in B} : \A y \in {a[1] : a \in B} : s <= y
  <2>1. {a[1] : a \in B} \subseteq Nat /\ {a[1] : a \in B} # {}
    BY <1>1, <1>2
  <2> QED
    BY <2>1, LeastExists
<1> DEFINE C == {a \in B : a[1] = s}
<1>4. PICK g \in {a[2] : a \in C} : \A y \in {a[2] : a \in C} : g <= y
  <2>1. {a[2] : a \in C} \subseteq Nat /\ {a[2] : a \in C} # {}
    BY <1>1, <1>3
  <2> QED
    BY <2>1, LeastExists
<1>5. PICK a \in C : a[2] = g
  BY <1>4
<1>6. a \in A /\ rank(a) = r /\ a[1] = s /\ a[2] = g
  BY <1>5
<1>7. ASSUME NEW b \in A PROVE Better(a, b)
  <2>1. r <= rank(b) /\ r \in Nat /\ rank(b) \in Nat
    BY <1>1, <1>2
  <2>2. CASE rank(b) = r
    <3>1. b \in B /\ s <= b[1] /\ s \in Nat /\ b[1] \in Nat
      BY <1>1, <1>3, <1>6, <2>2
    <3>2. CASE b[1] = s
      <4>1. g <= b[2]
        BY <1>4, <3>1, <3>2
      <4> QED
        BY <1>6, <2>2, <3>2, <4>1
    <3>3. CASE b[1] # s
      <4>1. s < b[1]
        BY <3>1, <3>3
      <4> QED
        BY <1>6, <2>2, <4>1
    <3> QED
      BY <3>2, <3>3
  <2>3. CASE rank(b) # r
    <3>1. r < rank(b)
      BY <2>1, <2>3
    <3> QED
      BY <1>6, <3>1
  <2> QED
    BY <2>2, <2>3
<1>8. \E x \in A : \A b \in A : Better(x, b)
  BY <1>6, <1>7
<1>9. Preferred(A) = CHOOSE x \in A : \A b \in A : Better(x, b)
  BY Zenon DEF Preferred, rank
<1> HIDE DEF Better
<1> QED
  BY <1>8, <1>9

IsEdge(e) == /\ e = [alias |-> e.alias, art |-> e.art, from |-> e.from, until |-> e.until]
             /\ e.from \in Nat /\ e.until \in Nat

EdgesFollow(edges, want) ==
  /\ \A e \in edges : e.until = 0 => <<e.alias, e.art>> \in want
  /\ \A w \in want : \E e \in edges : e.until = 0 /\ w = <<e.alias, e.art>>
  /\ \A e, f \in edges : e.until = 0 /\ f.until = 0 /\ e.alias = f.alias /\ e.art = f.art => e = f

\* Reconciling the edges leaves one open edge for each that is wanted, and no other
\* (_reconcile_edges).
LEMMA ReconciledEdges ==
  ASSUME NEW edges, \A e \in edges : IsEdge(e), aseq \in Nat \ {0},
         NEW want, \A w \in want : w = <<w[1], w[2]>>,
         NEW E, E = EdgesReconciled(edges, want)
  PROVE  /\ EdgesFollow(E, want)
         /\ \A e \in E : /\ IsEdge(e) /\ (e.until \in {0, aseq} \/ e \in edges)
                         /\ (\E x \in edges : e.alias = x.alias) \/ (\E w \in want : e.alias = w[1])
<1> DEFINE key(e) == <<e.alias, e.art>>
           readable == {e \in edges : e.until \in {0, aseq}}
           first(e) == \A x \in readable \ {e} : key(x) = key(e) => e.from <= x.from
           kept == {e \in readable : key(e) \in want /\ first(e)}
           opened(e) == [e EXCEPT !.until = 0]
           shut(e) == [e EXCEPT !.until = IF @ = 0 THEN aseq ELSE @]
           fresh(w) == [alias |-> w[1], art |-> w[2], from |-> aseq, until |-> 0]
           new == {w \in want : \A e \in kept : key(e) # w}
<1>1. E = (edges \ readable) \union {opened(e) : e \in kept} \union {shut(e) : e \in readable \ kept}
            \union {fresh(w) : w \in new}
  BY Zenon DEF EdgesReconciled
<1>2. \A e \in edges : /\ IsEdge(opened(e)) /\ opened(e).until = 0 /\ opened(e).from = e.from
                       /\ key(opened(e)) = key(e) /\ opened(e).alias = e.alias /\ opened(e).art = e.art
  BY DEF IsEdge
<1>3. \A e \in readable : IsEdge(shut(e)) /\ shut(e).until = aseq /\ shut(e).alias = e.alias
  <2> SUFFICES ASSUME NEW e \in readable
               PROVE  IsEdge(shut(e)) /\ shut(e).until = aseq /\ shut(e).alias = e.alias
    OBVIOUS
  <2>1. IsEdge(e) /\ (e.until = 0 \/ e.until = aseq)
    OBVIOUS
  <2>2. e = [alias |-> e.alias, art |-> e.art, from |-> e.from, until |-> e.until] /\ e.from \in Nat
    BY <2>1 DEF IsEdge
  <2>3. shut(e) = [alias |-> e.alias, art |-> e.art, from |-> e.from, until |-> aseq]
    BY <2>1, <2>2
  <2> HIDE DEF shut
  <2> QED
    BY <2>2, <2>3 DEF IsEdge
<1>4. \A w \in want : /\ IsEdge(fresh(w)) /\ fresh(w).until = 0 /\ fresh(w).alias = w[1]
                      /\ fresh(w).art = w[2] /\ key(fresh(w)) = w
  BY DEF IsEdge
<1>5. \A e \in kept : e \in edges /\ e \in readable /\ key(e) \in want /\ first(e)
  OBVIOUS
<1>6. \A e, x \in readable : key(x) = key(e) /\ first(e) /\ e # x => e.from <= x.from
  OBVIOUS
<1>7. /\ \A e \in readable : e \in edges
      /\ \A e \in edges \ readable : e.until # 0
      /\ \A w \in new : w \in want /\ \A e \in kept : key(e) # w
      /\ \A w \in want : w \in new \/ \E e \in kept : key(e) = w
  OBVIOUS
<1> HIDE DEF opened, shut, fresh, kept, readable, new, first
<1>8. \A e, f \in kept : key(e) = key(f) => opened(e) = opened(f)
  <2> SUFFICES ASSUME NEW e \in kept, NEW f \in kept, key(e) = key(f), e # f
               PROVE  opened(e) = opened(f)
    OBVIOUS
  <2>1. e.from <= f.from /\ f.from <= e.from
    BY <1>5, <1>6
  <2>2. IsEdge(e) /\ IsEdge(f)
    BY <1>5
  <2>3. e.from = f.from
    BY <2>1, <2>2 DEF IsEdge
  <2>4. e.alias = f.alias /\ e.art = f.art
    OBVIOUS
  <2>5. IsEdge(opened(e)) /\ IsEdge(opened(f)) /\ opened(e).until = 0 /\ opened(f).until = 0
        /\ opened(e).from = e.from /\ opened(f).from = f.from
        /\ opened(e).alias = e.alias /\ opened(f).alias = f.alias
        /\ opened(e).art = e.art /\ opened(f).art = f.art
    BY <1>2, <1>5
  <2> QED
    BY <2>3, <2>4, <2>5 DEF IsEdge
<1>9. ASSUME NEW e \in E, e.until = 0
      PROVE  \/ \E x \in kept : e = opened(x)
             \/ \E w \in new : e = fresh(w)
  <2>1. CASE e \in edges \ readable
    BY <1>7, <1>9, <2>1
  <2>2. CASE e \in {shut(x) : x \in readable \ kept}
    BY <1>3, <1>9, <2>2
  <2> QED
    BY <1>1, <2>1, <2>2
<1>10. ASSUME NEW e \in E, e.until = 0 PROVE key(e) \in want
  <2>1. CASE \E x \in kept : e = opened(x)
    <3>1. PICK x \in kept : e = opened(x)
      BY <2>1
    <3>2. key(opened(x)) = key(x) /\ key(x) \in want
      BY <1>2, <1>5
    <3> QED
      BY <3>1, <3>2
  <2>2. CASE \E w \in new : e = fresh(w)
    <3>1. PICK w \in new : e = fresh(w)
      BY <2>2
    <3>2. key(fresh(w)) = w /\ w \in want
      BY <1>4, <1>7
    <3> QED
      BY <3>1, <3>2
  <2> QED
    BY <1>9, <1>10, <2>1, <2>2
<1>11. \A w \in want : \E e \in E : e.until = 0 /\ w = key(e)
  <2> TAKE w \in want
  <2>1. CASE w \in new
    BY <1>1, <1>4, <2>1
  <2>2. CASE \E e \in kept : key(e) = w
    <3>1. PICK e \in kept : key(e) = w
      BY <2>2
    <3>2. opened(e) \in E
      BY <1>1
    <3>3. opened(e).until = 0 /\ key(opened(e)) = w
      BY <1>2, <1>5, <3>1
    <3> QED
      BY <3>2, <3>3
  <2> QED
    BY <1>7, <2>1, <2>2
<1>12. ASSUME NEW e \in E, NEW f \in E, e.until = 0, f.until = 0, key(e) = key(f)
       PROVE  e = f
  <2>1. CASE \E x \in kept : \E y \in kept : e = opened(x) /\ f = opened(y)
    <3>1. PICK x \in kept, y \in kept : e = opened(x) /\ f = opened(y)
      BY <2>1
    <3>2. key(x) = key(y)
      <4>1. key(opened(x)) = key(x) /\ key(opened(y)) = key(y)
        BY <1>2, <1>5
      <4> QED
        BY <1>12, <3>1, <4>1
    <3> QED
      BY <1>8, <3>1, <3>2
  <2>2. CASE \E x \in new : \E y \in new : e = fresh(x) /\ f = fresh(y)
    <3>1. PICK x \in new, y \in new : e = fresh(x) /\ f = fresh(y)
      BY <2>2
    <3>2. key(fresh(x)) = x /\ key(fresh(y)) = y
      BY <1>4, <1>7
    <3>3. x = y
      BY <1>12, <3>1, <3>2
    <3> QED
      BY <3>1, <3>3
  <2>3. ASSUME NEW x \in kept, NEW w \in new PROVE key(opened(x)) # key(fresh(w))
    <3>1. key(opened(x)) = key(x) /\ key(fresh(w)) = w /\ key(x) # w
      BY <1>2, <1>4, <1>5, <1>7
    <3> QED
      BY <3>1
  <2> HIDE DEF key
  <2>4. /\ (\E x \in kept : e = opened(x)) \/ (\E w \in new : e = fresh(w))
        /\ (\E x \in kept : f = opened(x)) \/ (\E w \in new : f = fresh(w))
    BY <1>9, <1>12
  <2> QED
    BY <1>12, <2>1, <2>2, <2>3, <2>4
<1>13. EdgesFollow(E, want)
  BY <1>10, <1>11, <1>12 DEF EdgesFollow
<1>14. ASSUME NEW e \in E
       PROVE  /\ IsEdge(e) /\ (e.until \in {0, aseq} \/ e \in edges)
              /\ (\E x \in edges : e.alias = x.alias) \/ (\E w \in want : e.alias = w[1])
  <2>1. CASE e \in edges \ readable
    BY <2>1
  <2>2. CASE \E x \in kept : e = opened(x)
    BY <1>2, <1>5, <2>2
  <2>3. CASE \E x \in readable \ kept : e = shut(x)
    BY <1>3, <1>7, <2>3
  <2>4. CASE \E w \in new : e = fresh(w)
    BY <1>4, <1>7, <2>4
  <2> QED
    BY <1>1, <2>1, <2>2, <2>3, <2>4
<1> QED
  BY <1>13, <1>14

\* Where they follow already, nothing is written.
LEMMA EdgesStay ==
  ASSUME NEW edges, \A e \in edges : IsEdge(e) /\ e.until # aseq,
         NEW want, EdgesFollow(edges, want), \A w \in want : w = <<w[1], w[2]>>
  PROVE  EdgesReconciled(edges, want) = edges
<1> DEFINE key(e) == <<e.alias, e.art>>
           readable == {e \in edges : e.until \in {0, aseq}}
           first(e) == \A x \in readable \ {e} : key(x) = key(e) => e.from <= x.from
           kept == {e \in readable : key(e) \in want /\ first(e)}
           opened(e) == [e EXCEPT !.until = 0]
           shut(e) == [e EXCEPT !.until = IF @ = 0 THEN aseq ELSE @]
           fresh(w) == [alias |-> w[1], art |-> w[2], from |-> aseq, until |-> 0]
           new == {w \in want : \A e \in kept : key(e) # w}
<1>1. EdgesReconciled(edges, want) =
        (edges \ readable) \union {opened(e) : e \in kept} \union {shut(e) : e \in readable \ kept}
            \union {fresh(w) : w \in new}
  BY Zenon DEF EdgesReconciled
<1>2. \A e \in readable : e.until = 0 /\ e \in edges
  OBVIOUS
<1>3. \A e \in readable : key(e) \in want
  BY <1>2 DEF EdgesFollow
<1>4. \A e, x \in readable : key(x) = key(e) => x = e
  <2> SUFFICES ASSUME NEW e \in readable, NEW x \in readable, key(x) = key(e) PROVE x = e
    OBVIOUS
  <2>1. e.alias = x.alias /\ e.art = x.art
    OBVIOUS
  <2> QED
    BY <1>2, <2>1 DEF EdgesFollow
<1>5. \A e \in readable : first(e)
  BY <1>4
<1> HIDE DEF first
<1>6. kept = readable
  BY <1>3, <1>5
<1>7. \A e \in edges : e.until = 0 => e \in readable
  OBVIOUS
<1>8. new = {}
  BY <1>6, <1>7 DEF EdgesFollow
<1>9. \A e \in readable : opened(e) = e
  <2> TAKE e \in readable
  <2>1. IsEdge(e) /\ e.until = 0
    BY <1>2
  <2> QED
    BY <2>1 DEF IsEdge
<1>10. readable \subseteq edges
  OBVIOUS
<1> HIDE DEF opened, shut, fresh, kept, readable, new
<1>11. {opened(e) : e \in kept} = readable
  BY <1>6, <1>9
<1>12. {shut(e) : e \in readable \ kept} = {} /\ {fresh(w) : w \in new} = {}
  BY <1>6, <1>8
<1> QED
  BY <1>1, <1>10, <1>11, <1>12

\* The live artifacts that stand for a path, and the one it prefers.
Reached(p, cs, it, arts) == ArtsOf(RowsOf(p, cs, it), arts)
Goal(p, cs, it, arts) == Preferred(Reached(p, cs, it, arts))

\* Row i wants an edge that leads to the artifact of one of its ranked paths.
Wants(i, row, cs, it, arts, w) ==
  \E p \in Ranked(row.evidence, EdgeCap) : Reached(p, cs, it, arts) # {} /\ w = <<i, Goal(p, cs, it, arts)>>

LEMMA WantedMembers ==
  ASSUME NEW rows, NEW cs, NEW it, NEW arts, NEW w
  PROVE  w \in WantedEdges(rows, cs, it, arts) <=>
           \E i \in Live(rows) : rows[i].prov = "mined" /\ Wants(i, rows[i], cs, it, arts, w)
<1> DEFINE to(p) == Reached(p, cs, it, arts)
           best(p) == Goal(p, cs, it, arts)
           few(i) == Ranked(rows[i].evidence, EdgeCap)
           leads(i) == Targets(rows[i].evidence, EdgeCap, cs, it, arts)
<1>1. WantedEdges(rows, cs, it, arts) =
        UNION {{<<i, x[2]>> : x \in leads(i)}
               : i \in {j \in DOMAIN rows : rows[j].until = 0 /\ rows[j].prov = "mined"}}
  BY Zenon DEF WantedEdges
<1>2. \A i : leads(i) = {<<p, best(p)>> : p \in {q \in few(i) : to(q) # {}}}
  BY Zenon DEF Targets, Reached, Goal
<1>3. \A i : Wants(i, rows[i], cs, it, arts, w) <=> \E p \in few(i) : to(p) # {} /\ w = <<i, best(p)>>
  BY Zenon DEF Wants
<1> HIDE DEF best, to, few, leads
<1>4. \A i : (\E x \in leads(i) : w = <<i, x[2]>>) <=> \E p \in few(i) : to(p) # {} /\ w = <<i, best(p)>>
  <2> TAKE i
  <2>1. \A x \in leads(i) : \E p \in few(i) : to(p) # {} /\ x = <<p, best(p)>>
    BY <1>2
  <2>2. \A p \in few(i) : to(p) # {} => <<p, best(p)>> \in leads(i)
    BY <1>2
  <2>3. \A p : <<p, best(p)>>[2] = best(p)
    OBVIOUS
  <2> QED
    BY <2>1, <2>2, <2>3
<1> QED
  BY <1>1, <1>3, <1>4 DEF Live

\* Only the rows of the mining pass have edges.
LEMMA WantedOfMined ==
  ASSUME NEW rows, NEW other, NEW cs, NEW it, NEW arts,
         \A i : i \in Live(rows) /\ rows[i].prov = "mined" <=> i \in Live(other) /\ other[i].prov = "mined",
         \A i \in Live(rows) : rows[i].prov = "mined" => other[i] = rows[i]
  PROVE  WantedEdges(rows, cs, it, arts) = WantedEdges(other, cs, it, arts)
<1>1. \A w : w \in WantedEdges(rows, cs, it, arts) <=>
        \E i \in Live(rows) : rows[i].prov = "mined" /\ Wants(i, rows[i], cs, it, arts, w)
  BY WantedMembers
<1>2. \A w : w \in WantedEdges(other, cs, it, arts) <=>
        \E i \in Live(other) : other[i].prov = "mined" /\ Wants(i, other[i], cs, it, arts, w)
  BY WantedMembers
<1>3. \A w : w \in WantedEdges(rows, cs, it, arts) <=> w \in WantedEdges(other, cs, it, arts)
  BY <1>1, <1>2
<1> QED
  BY <1>3

LEMMA FullIsFinite ==
  ASSUME NEW S \in SUBSET Sources
  PROVE  IsFiniteSet(Full(S)) /\ \A c \in Full(S) : c[3] \subseteq DOMAIN PathRank
<1> DEFINE mined(s) == {<<s, p, Origin[s].phrases[p]>> : p \in DOMAIN Origin[s].phrases}
           M == {mined(s) : s \in S}
<1>1. IsFiniteSet(S) /\ \A s \in S : IsFiniteSet(DOMAIN Origin[s].phrases)
  BY AliasAssumption, FS_Subset
<1>2. \A s \in S : IsFiniteSet(mined(s))
  <2> TAKE s \in S
  <2> DEFINE D == DOMAIN Origin[s].phrases
             m == mined(s)
  <2>1. [p \in D |-> <<s, p, Origin[s].phrases[p]>>] \in Surjection(D, m)
    BY DEF Surjection
  <2>2. IsFiniteSet(D)
    BY <1>1
  <2> HIDE DEF D, m
  <2>3. IsFiniteSet(m)
    BY <2>1, <2>2, FS_Surjection
  <2> QED
    BY <2>3 DEF m
<1>3. Full(S) = UNION M
  BY DEF Full
<1> HIDE DEF mined
<1>4. [s \in S |-> mined(s)] \in Surjection(S, M)
  BY DEF Surjection
<1>5. \A m \in M : IsFiniteSet(m)
  BY <1>2
<1> HIDE DEF M
<1>6. IsFiniteSet(M)
  BY <1>1, <1>4, FS_Surjection
<1>7. IsFiniteSet(Full(S))
  BY <1>3, <1>5, <1>6, FS_UNION
<1>8. ASSUME NEW c \in Full(S) PROVE c[3] \subseteq DOMAIN PathRank
  <2>1. PICK s \in S : \E p \in DOMAIN Origin[s].phrases : c = <<s, p, Origin[s].phrases[p]>>
    BY FullMembers
  <2>2. PICK p \in DOMAIN Origin[s].phrases : c = <<s, p, Origin[s].phrases[p]>>
    BY <2>1
  <2>3. Origin[s].phrases[p] \subseteq DOMAIN PathRank
    BY AliasAssumption
  <2> QED
    BY <2>2, <2>3
<1> QED
  BY <1>7, <1>8

\* The evidence of a phrase is as finite as what the sources give, and names their paths.
LEMMA EvidenceIsFinite ==
  ASSUME NEW S \in SUBSET Sources, NEW t, NEW it
  PROVE  LET ev == Evidence(t, Full(S), it)
         IN  IsFiniteSet(ev) /\ \A e \in ev : e.paths \subseteq DOMAIN PathRank
<1> DEFINE C == {x \in Full(S) : x[2] = t}
           made(c) == [src |-> c[1], gen |-> it[c[1]].gen, paths |-> c[3]]
           ev == Evidence(t, Full(S), it)
<1>1. IsFiniteSet(C) /\ \A c \in C : c[3] \subseteq DOMAIN PathRank
  BY FullIsFinite, FS_Subset
<1>2. ev = {made(c) : c \in C}
  BY Zenon DEF Evidence
<1>3. \A c : made(c).paths = c[3]
  OBVIOUS
<1> HIDE DEF C, made, ev
<1>4. [c \in C |-> made(c)] \in Surjection(C, ev)
  BY <1>2 DEF Surjection
<1>5. IsFiniteSet(ev)
  BY <1>1, <1>4, FS_Surjection
<1> QED
  BY <1>1, <1>2, <1>3, <1>5 DEF ev

\* No more paths are ranked than the cap: they are ordered, none like another
\* (MAX_EDGE_TARGETS, MAX_BODY_TARGETS).
LEMMA RankedFew ==
  ASSUME NEW ev, IsFiniteSet(ev), \A e \in ev : e.paths \subseteq DOMAIN PathRank, NEW cap \in Nat
  PROVE  IsFiniteSet(Ranked(ev, cap)) /\ Cardinality(Ranked(ev, cap)) <= cap
<1> DEFINE N == Named(ev)
           count(p) == Count(p, ev)
           better(p, q) == \/ count(p) > count(q)
                           \/ count(p) = count(q) /\ PathRank[p] < PathRank[q]
           above(p) == {q \in N : better(q, p)}
           pos(p) == Cardinality(above(p))
           T == Ranked(ev, cap)
<1>2. N \subseteq DOMAIN PathRank
  BY DEF Named
<1>3. IsFiniteSet(N)
  BY <1>2, AliasAssumption, FS_Subset
<1>4. \A p : count(p) \in Nat
  <2> TAKE p
  <2> DEFINE C == {e \in ev : p \in e.paths}
  <2>1. C \in SUBSET ev
    OBVIOUS
  <2>2. count(p) = Cardinality(C)
    BY Zenon DEF Count
  <2> HIDE DEF C, count
  <2> QED
    BY <2>1, <2>2, FS_Subset, FS_CardinalityType
<1>5. /\ \A p \in N : PathRank[p] \in Nat
      /\ \A p, q \in N : PathRank[p] = PathRank[q] => p = q
  BY <1>2, AliasAssumption
<1>6. T = {p \in N : pos(p) < cap}
  BY Zenon DEF Ranked
<1> HIDE DEF N, count
<1>7. /\ \A p, q \in N : p # q => better(p, q) \/ better(q, p)
      /\ \A p, q, r \in N : better(p, q) /\ better(q, r) => better(p, r)
      /\ \A p \in N : ~better(p, p)
  <2>1. \A p, q \in N : p # q => better(p, q) \/ better(q, p)
    <3> SUFFICES ASSUME NEW p \in N, NEW q \in N, p # q PROVE better(p, q) \/ better(q, p)
      OBVIOUS
    <3>1. count(p) \in Nat /\ count(q) \in Nat /\ PathRank[p] \in Nat /\ PathRank[q] \in Nat
          /\ PathRank[p] # PathRank[q]
      BY <1>4, <1>5
    <3> QED
      BY <3>1
  <2>2. \A p, q, r \in N : better(p, q) /\ better(q, r) => better(p, r)
    <3> SUFFICES ASSUME NEW p \in N, NEW q \in N, NEW r \in N, better(p, q), better(q, r)
                 PROVE  better(p, r)
      OBVIOUS
    <3>1. count(p) \in Nat /\ count(q) \in Nat /\ count(r) \in Nat
          /\ PathRank[p] \in Nat /\ PathRank[q] \in Nat /\ PathRank[r] \in Nat
      BY <1>4, <1>5
    <3> QED
      BY <3>1
  <2>3. \A p \in N : ~better(p, p)
    <3> TAKE p \in N
    <3>1. count(p) \in Nat /\ PathRank[p] \in Nat
      BY <1>4, <1>5
    <3> QED
      BY <3>1
  <2> QED
    BY <2>1, <2>2, <2>3
<1> HIDE DEF better
<1>8. \A p : IsFiniteSet(above(p)) /\ pos(p) \in Nat
  <2> TAKE p
  <2>1. above(p) \in SUBSET N
    OBVIOUS
  <2> HIDE DEF above
  <2> QED
    BY <1>3, <2>1, FS_Subset, FS_CardinalityType
<1>9. ASSUME NEW p \in N, NEW q \in N, better(p, q) PROVE pos(p) # pos(q)
  <2>1. above(p) \in SUBSET above(q) /\ p \in above(q) /\ p \notin above(p)
    BY <1>7, <1>9
  <2> HIDE DEF above
  <2> QED
    BY <1>8, <2>1, FS_Subset
<1>10. \A p, q \in N : pos(p) = pos(q) => p = q
  BY <1>7, <1>9
<1>11. \A p \in T : p \in N /\ pos(p) \in Nat /\ pos(p) < cap
  BY <1>6, <1>8
<1>12. cap \in Nat
  OBVIOUS
<1> HIDE DEF pos, T
<1>13. [p \in T |-> pos(p)] \in Injection(T, 0 .. cap - 1)
  <2>1. \A p \in T : pos(p) \in 0 .. cap - 1
    BY <1>11, <1>12
  <2> QED
    BY <1>10, <1>11, <2>1 DEF Injection, IsInjective
<1>14. IsFiniteSet(0 .. cap - 1) /\ Cardinality(0 .. cap - 1) = cap
  <2>1. cap - 1 \in Int /\ 0 \in Int
    BY <1>12
  <2>2. Cardinality(0 .. cap - 1) = IF 0 > cap - 1 THEN 0 ELSE (cap - 1) - 0 + 1
    BY <2>1, FS_Interval
  <2> QED
    BY <1>12, <2>1, <2>2, FS_Interval
<1>15. IsFiniteSet(T) /\ Cardinality(T) <= cap
  BY <1>13, <1>14, FS_Injection
<1> QED
  BY <1>15 DEF T

\* Edges that follow the sources lead from a live row to a live artifact of a path that the
\* evidence of the row names, and from no row more than the cap.
LEMMA FollowingEdges ==
  ASSUME NEW edges, NEW rows, NEW it, NEW arts, NEW w,
         arts \subseteq Sources \X Nat, RowsFollow(rows, it, arts, w),
         EdgesFollow(edges, WantedEdges(rows, Given(it, arts), it, arts)),
         NEW e \in edges, e.until = 0
  PROVE  /\ e.alias \in Live(rows) /\ e.art \in arts
         /\ \E x \in rows[e.alias].evidence : Origin[e.art[1]].path \in x.paths
         /\ LET open == {f \in edges : f.until = 0}
            IN  Cardinality({f \in open : f.alias = e.alias}) <= EdgeCap
<1> DEFINE cs == Given(it, arts)
           want == WantedEdges(rows, cs, it, arts)
           to(p) == Reached(p, cs, it, arts)
           best(p) == Goal(p, cs, it, arts)
           ev == rows[e.alias].evidence
           T == Ranked(ev, EdgeCap)
           mine == {f \in edges : f.until = 0 /\ f.alias = e.alias}
<1>1. ASSUME NEW f \in mine
      PROVE  /\ f.alias \in Live(rows) /\ rows[f.alias].prov = "mined"
             /\ \E p \in T : to(p) # {} /\ f.art = best(p)
  <2>1. <<f.alias, f.art>> \in want
    BY DEF EdgesFollow
  <2>2. PICK i \in Live(rows) : rows[i].prov = "mined" /\ Wants(i, rows[i], cs, it, arts, <<f.alias, f.art>>)
    BY <2>1, WantedMembers
  <2>3. PICK p \in Ranked(rows[i].evidence, EdgeCap) : to(p) # {} /\ <<f.alias, f.art>> = <<i, best(p)>>
    BY <2>2 DEF Wants
  <2> HIDE DEF best, to
  <2>4. i = f.alias /\ i = e.alias /\ f.art = best(p)
    BY <2>3
  <2> QED
    BY <2>2, <2>3, <2>4
<1>2. e.alias \in Live(rows) /\ rows[e.alias].prov = "mined"
  BY <1>1
<1>3. ASSUME NEW p, to(p) # {} PROVE best(p) \in arts /\ Origin[best(p)[1]].path = p
  <2>1. to(p) \subseteq arts /\ \A a \in to(p) : a[1] \in RowsOf(p, cs, it)
    BY DEF Reached, ArtsOf
  <2>2. best(p) \in to(p)
    <3> HIDE DEF to
    <3>1. to(p) \subseteq Sources \X Nat
      BY <2>1
    <3> QED
      BY <1>3, <3>1, PreferredIsOne DEF Goal, to
  <2> HIDE DEF best, to
  <2>3. best(p)[1] \in RowsOf(p, cs, it)
    BY <2>1, <2>2
  <2> QED
    BY <2>1, <2>2, <2>3 DEF RowsOf
<1>4. IsFiniteSet(T) /\ Cardinality(T) <= EdgeCap
  <2>1. MinedRow(rows[e.alias], cs, it, arts)
    <3>1. MinedRow(rows[e.alias], cs, it, arts) \/ SearchedRow(rows[e.alias], it, arts)
      BY <1>2 DEF RowsFollow
    <3> QED
      BY <1>2, <3>1 DEF SearchedRow
  <2> DEFINE t == rows[e.alias].title
             d == MinedFor(t, cs, it, arts)
  <2>2. rows[e.alias] = With(d, rows[e.alias].from, 0) /\ d.evidence = Evidence(t, cs, it)
    BY <2>1, MinedFields DEF MinedRow
  <2> HIDE DEF d, t
  <2>3. ev = Evidence(t, cs, it)
    BY <2>2, WithFields
  <2>4. IsFiniteSet(ev) /\ \A x \in ev : x.paths \subseteq DOMAIN PathRank
    BY <2>3, InputsAreSources, EvidenceIsFinite DEF Given
  <2> HIDE DEF ev
  <2> QED
    BY <2>4, RankedFew, AliasAssumption
<1>5. e \in mine
  OBVIOUS
<1>6. \A f, g \in mine : f.art = g.art => f = g
  BY DEF EdgesFollow
<1> HIDE DEF best, to, T, mine, want
<1>7. Cardinality(mine) <= EdgeCap
  <2> DEFINE h == [f \in mine |-> CHOOSE p \in T : f.art = best(p)]
  <2>1. \A f \in mine : h[f] \in T /\ f.art = best(h[f])
    BY <1>1
  <2>2. \A f, g \in mine : h[f] = h[g] => f = g
    BY <1>6, <2>1
  <2>3. h \in Injection(mine, T)
    <3>1. DOMAIN h = mine /\ h = [f \in mine |-> h[f]]
      OBVIOUS
    <3> HIDE DEF h
    <3> QED
      BY <2>1, <2>2, <3>1 DEF Injection, IsInjective
  <2> HIDE DEF h
  <2>4. IsFiniteSet(mine) /\ Cardinality(mine) <= Cardinality(T)
    BY <1>4, <2>3, FS_Injection
  <2> QED
    BY <1>4, <2>4, FS_CardinalityType, AliasAssumption
<1>8. {f \in {g \in edges : g.until = 0} : f.alias = e.alias} = mine
  BY DEF mine
<1>9. PICK p \in T : to(p) # {} /\ e.art = best(p)
  BY <1>1, <1>5
<1>10. e.art \in arts /\ Origin[e.art[1]].path = p
  BY <1>3, <1>9
<1>11. \E x \in rows[e.alias].evidence : p \in x.paths
  <2>1. p \in Named(ev)
    BY <1>9 DEF T, Ranked
  <2> QED
    BY <2>1 DEF Named
<1> QED
  BY <1>2, <1>7, <1>8, <1>10, <1>11

--------------------------------------------------------------------------------
(* Access *)

\* A merged ACL is public only if all were, and lets nobody in whom one of them keeps out
\* (commit_acl_intersection).
LEMMA MergedNarrows ==
  ASSUME NEW acls, NEW m, m = MergedAcl(acls)
  PROVE  /\ m = {} <=> \A a \in acls : a = {}
         /\ m = {Nobody} \/ \A a \in acls : a = {} \/ m \subseteq a
<1> DEFINE narrow == acls \ {{}}
           common == {t \in UNION narrow : \A a \in narrow : t \in a}
<1>1. m = IF narrow = {} THEN {} ELSE IF common = {} THEN {Nobody} ELSE common
  BY Zenon DEF MergedAcl
<1>2. \A a \in acls : a = {} \/ a \in narrow
  OBVIOUS
<1>3. \A a \in narrow : a \in acls /\ a # {} /\ common \subseteq a
  OBVIOUS
<1> HIDE DEF narrow, common
<1>4. {Nobody} # {}
  OBVIOUS
<1>5. CASE narrow = {}
  BY <1>1, <1>2, <1>5
<1>6. CASE narrow # {} /\ common = {}
  BY <1>1, <1>3, <1>4, <1>6
<1>7. CASE narrow # {} /\ common # {}
  BY <1>1, <1>2, <1>3, <1>7
<1> QED
  BY <1>5, <1>6, <1>7

\* Who sees the row of a phrase sees each file that it lists and that stands.
LEMMA RowsNeverWiden ==
  ASSUME NEW ev, NEW cs, NEW it, NEW acl, acl = DerivedAcl(PathAcls(ev, cs, it)),
         NEW listed, listed = Ranked(ev, BodyCap)
  PROVE  /\ (\A p \in listed : RowsOf(p, cs, it) = {}) => acl # {}
         /\ acl = {} => \A p \in listed : \A s \in RowsOf(p, cs, it) : AclOf(s, it) = {}
         /\ acl # {Nobody} => \A p \in listed : \A s \in RowsOf(p, cs, it) :
              AclOf(s, it) = {} \/ acl \subseteq AclOf(s, it)
<1> DEFINE ofPath(p) == {AclOf(s, it) : s \in RowsOf(p, cs, it)}
           acls == PathAcls(ev, cs, it)
<1>1. \A m : m \in acls <=> \E p \in listed : RowsOf(p, cs, it) # {} /\ m = MergedAcl(ofPath(p))
  BY DEF PathAcls
<1>2. \A p \in listed : \A s \in RowsOf(p, cs, it) :
        AclOf(s, it) \in ofPath(p) /\ MergedAcl(ofPath(p)) \in acls
  BY <1>1
<1>3. acl = IF acls = {} THEN {Nobody} ELSE MergedAcl(acls)
  BY DEF DerivedAcl
<1> HIDE DEF ofPath, acls
<1>4. (\A p \in listed : RowsOf(p, cs, it) = {}) => acls = {}
  BY <1>1
<1>5. {Nobody} # {}
  OBVIOUS
<1>6. ASSUME NEW p \in listed, NEW s \in RowsOf(p, cs, it)
      PROVE  /\ acl = {} => AclOf(s, it) = {}
             /\ acl # {Nobody} => AclOf(s, it) = {} \/ acl \subseteq AclOf(s, it)
  <2> DEFINE m == MergedAcl(ofPath(p))
             a == AclOf(s, it)
  <2>1. a \in ofPath(p) /\ m \in acls
    BY <1>2
  <2>2. acl = MergedAcl(acls)
    BY <1>3, <2>1
  <2>3. /\ m = {} <=> \A x \in ofPath(p) : x = {}
        /\ m = {Nobody} \/ \A x \in ofPath(p) : x = {} \/ m \subseteq x
    BY MergedNarrows
  <2>4. /\ acl = {} <=> \A x \in acls : x = {}
        /\ acl = {Nobody} \/ \A x \in acls : x = {} \/ acl \subseteq x
    BY <2>2, MergedNarrows
  <2> HIDE DEF m, a
  <2>5. acl = {} => a = {}
    BY <2>1, <2>3, <2>4
  <2>6. ASSUME acl # {Nobody}, a # {} PROVE acl \subseteq a
    <3>1. m # {} /\ acl \subseteq m
      BY <2>1, <2>3, <2>4, <2>6
    <3>2. m = {Nobody} => acl = {}
      BY <2>6, <3>1
    <3> QED
      BY <2>1, <2>3, <2>6, <3>1, <3>2
  <2> QED
    BY <2>5, <2>6 DEF a
<1> QED
  BY <1>3, <1>4, <1>5, <1>6

--------------------------------------------------------------------------------
(* The invariant of the alias index *)

AliasTyped ==
  /\ tree \in [Sources -> [gen : Nat, here : BOOLEAN]]
  /\ item \in [Sources -> [gen : Nat, deleted : BOOLEAN]]
  /\ \A s \in Sources : item[s].gen <= tree[s].gen
  /\ window \subseteq Queries /\ IsFiniteSet(window)
  /\ live \subseteq Sources \X Nat /\ aseq \in Nat
  /\ RowsTyped(alias) /\ OneLive(alias) /\ TwoKinds(alias)
  /\ \A e \in aedges : IsEdge(e) /\ e.alias \in DOMAIN alias

\* No row and no edge is closed by a build that has not finished.
InTime ==
  /\ abuild = [pc |-> abuild.pc, changed |-> abuild.changed, settled |-> abuild.settled]
  /\ abuild.pc \in {"idle", "extracted"} /\ abuild.changed \subseteq Sources
  /\ abuild.pc = "idle" => /\ abuild.changed = {}
                           /\ \A i \in DOMAIN alias : alias[i].until <= aseq
                           /\ \A e \in aedges : e.until <= aseq
  /\ abuild.pc = "extracted" => /\ aseq # 0
                                /\ \A i \in DOMAIN alias : alias[i].until < aseq
                                /\ \A e \in aedges : e.until < aseq

\* The rows remember all that some sources gave: those of the last finalize.
Remembering == \E S \in SUBSET Sources : Gist(alias) = Full(S)

\* While the source rows are those of the last finalize, the index follows them.
Following ==
  LET last == abuild.settled
  IN  last # <<>> =>
        /\ last[1] \in [Sources -> [gen : Nat, deleted : BOOLEAN]]
        /\ \A s \in Sources : last[1][s].gen <= item[s].gen
        /\ \A s \in abuild.changed : last[1][s].gen < item[s].gen
        /\ last[1] = item =>
             /\ RowsFollow(alias, item, live, last[2])
             /\ EdgesFollow(aedges, WantedEdges(alias, Given(item, live), item, live))

AliasInv == AliasTyped /\ InTime /\ Remembering /\ Following

LEMMA SweptEdges ==
  ASSUME \A e \in aedges : IsEdge(e), aseq \in Nat, NEW dead, NEW rows,
         NEW E, E = EdgesSwept(dead, rows)
  PROVE  \A e \in E : /\ IsEdge(e) /\ (e.until = aseq \/ e \in aedges)
                      /\ \E x \in aedges : e.alias = x.alias
<1> DEFINE hit(e) == e.until = 0 /\ (e.art \in dead \/ (rows[e.alias].until = aseq))
<1>1. E = {IF hit(e) THEN [e EXCEPT !.until = aseq] ELSE e : e \in aedges}
  BY Zenon DEF EdgesSwept
<1> HIDE DEF hit
<1> SUFFICES ASSUME NEW e \in E
             PROVE  /\ IsEdge(e) /\ (e.until = aseq \/ e \in aedges)
                    /\ \E x \in aedges : e.alias = x.alias
  OBVIOUS
<1>2. PICK x \in aedges : e = IF hit(x) THEN [x EXCEPT !.until = aseq] ELSE x
  BY <1>1
<1>3. [x EXCEPT !.until = aseq] = [alias |-> x.alias, art |-> x.art, from |-> x.from, until |-> aseq]
      /\ x.from \in Nat /\ IsEdge(x)
  BY DEF IsEdge
<1>4. CASE hit(x)
  <2>1. e = [alias |-> x.alias, art |-> x.art, from |-> x.from, until |-> aseq]
    BY <1>2, <1>3, <1>4
  <2>2. IsEdge(e) /\ e.until = aseq /\ e.alias = x.alias
    BY <1>3, <2>1 DEF IsEdge
  <2> QED
    BY <2>2
<1>5. CASE ~hit(x)
  BY <1>2, <1>3, <1>5
<1> QED
  BY <1>4, <1>5

\* The finalize transaction, as the steps above describe it.
LEMMA FinalizeResult ==
  ASSUME AliasInv, FinalizeAliases
  PROVE  \E it, vanished, seen, E0 :
           LET arts == live \ Swept(abuild.changed, vanished)
               rows0 == RowsFound(abuild.changed, vanished, seen, it)
               cs == Given(it, arts)
               rows1 == Reconciled(rows0, MinedWant(cs, it, arts))
           IN  /\ vanished = {s \in Sources : Stands(s, item) /\ ~tree[s].here}
               /\ it = [s \in Sources |-> IF s \in vanished THEN [item[s] EXCEPT !.deleted = TRUE]
                                          ELSE item[s]]
               /\ E0 = EdgesSwept(Swept(abuild.changed, vanished), rows0)
               /\ item' = it /\ live' = arts
               /\ alias' = LedgerPass(rows1, it, arts)
               /\ aedges' = EdgesReconciled(E0, WantedEdges(rows1, cs, it, arts))
               /\ astamp' = Stamped(Rewritten(rows0, rows1) \union Rewritten(rows1, alias'), alias')
<1> DEFINE vanished == {s \in Sources : Stands(s, item) /\ ~tree[s].here}
           it == [s \in Sources |-> IF s \in vanished THEN [item[s] EXCEPT !.deleted = TRUE]
                                    ELSE item[s]]
           seen == {s \in Sources : tree[s].here}
           arts == live \ Swept(abuild.changed, vanished)
           rows0 == RowsFound(abuild.changed, vanished, seen, it)
           E0 == EdgesSwept(Swept(abuild.changed, vanished), rows0)
           cs == Contributions(rows0, it, arts)
           rows1 == Reconciled(rows0, MinedWant(cs, it, arts))
<1>1. /\ item' = it /\ live' = arts
      /\ alias' = LedgerPass(rows1, it, arts)
      /\ aedges' = EdgesReconciled(E0, WantedEdges(rows1, cs, it, arts))
      /\ astamp' = Stamped(Rewritten(rows0, rows1) \union Rewritten(rows1, alias'), alias')
      /\ abuild.pc = "extracted"
  BY Zenon DEF FinalizeAliases, RowsFound
<1>2. cs = Given(it, arts)
  <2> HIDE DEF it, arts, vanished, seen
  <2>1. /\ RowsTyped(alias) /\ OneLive(alias) /\ aseq \in Nat \ {0}
        /\ \A i \in DOMAIN alias : alias[i].until < aseq
    BY <1>1 DEF AliasInv, AliasTyped, InTime
  <2>2. PICK S \in SUBSET Sources : Gist(alias) = Full(S)
    BY DEF AliasInv, Remembering
  <2> QED
    BY <2>1, <2>2, Replayed DEF Given
<1> HIDE DEF cs
<1>3. LET given == Reconciled(rows0, MinedWant(Given(it, arts), it, arts))
      IN  /\ alias' = LedgerPass(given, it, arts)
          /\ aedges' = EdgesReconciled(E0, WantedEdges(given, Given(it, arts), it, arts))
          /\ astamp' = Stamped(Rewritten(rows0, given) \union Rewritten(given, alias'), alias')
  BY <1>1, <1>2
<1> QED
  BY <1>1, <1>3, Zenon

LEMMA FinalizeStep ==
  ASSUME AliasInv, FinalizeAliases
  PROVE  AliasInv'
<1>1. PICK it, vanished, seen, E0 :
           LET arts == live \ Swept(abuild.changed, vanished)
               rows0 == RowsFound(abuild.changed, vanished, seen, it)
               cs == Given(it, arts)
               rows1 == Reconciled(rows0, MinedWant(cs, it, arts))
           IN  /\ vanished = {s \in Sources : Stands(s, item) /\ ~tree[s].here}
               /\ it = [s \in Sources |-> IF s \in vanished THEN [item[s] EXCEPT !.deleted = TRUE]
                                          ELSE item[s]]
               /\ E0 = EdgesSwept(Swept(abuild.changed, vanished), rows0)
               /\ item' = it /\ live' = arts
               /\ alias' = LedgerPass(rows1, it, arts)
               /\ aedges' = EdgesReconciled(E0, WantedEdges(rows1, cs, it, arts))
               /\ astamp' = Stamped(Rewritten(rows0, rows1) \union Rewritten(rows1, alias'), alias')
  BY FinalizeResult
<1> DEFINE arts == live \ Swept(abuild.changed, vanished)
           rows0 == RowsFound(abuild.changed, vanished, seen, it)
           cs == Given(it, arts)
           rows1 == Reconciled(rows0, MinedWant(cs, it, arts))
           want == WantedEdges(rows1, cs, it, arts)
<1>2. /\ it = [s \in Sources |-> IF s \in vanished THEN [item[s] EXCEPT !.deleted = TRUE]
                                 ELSE item[s]]
      /\ E0 = EdgesSwept(Swept(abuild.changed, vanished), rows0)
      /\ item' = it /\ live' = arts
      /\ alias' = LedgerPass(rows1, it, arts)
      /\ aedges' = EdgesReconciled(E0, want)
  BY <1>1, Zenon
<1>3. /\ abuild.pc = "extracted" /\ abuild' = [pc |-> "idle", changed |-> {}, settled |-> <<it, window>>]
      /\ tree' = tree /\ window' = window /\ aseq' = aseq
  <2>1. /\ abuild.pc = "extracted" /\ UNCHANGED <<tree, window, edits, aseq>>
        /\ abuild' = [pc |-> "idle", changed |-> {}, settled |-> <<item', window>>]
    BY Zenon DEF FinalizeAliases
  <2> QED
    BY <1>2, <2>1
<1>4. /\ RowsTyped(alias) /\ OneLive(alias) /\ TwoKinds(alias) /\ aseq \in Nat \ {0}
      /\ \A i \in DOMAIN alias : alias[i].until < aseq
      /\ \A e \in aedges : IsEdge(e) /\ e.alias \in DOMAIN alias /\ e.until < aseq
      /\ window \subseteq Queries /\ IsFiniteSet(window) /\ live \subseteq Sources \X Nat
      /\ tree \in [Sources -> [gen : Nat, here : BOOLEAN]]
      /\ item \in [Sources -> [gen : Nat, deleted : BOOLEAN]]
      /\ \A s \in Sources : item[s].gen <= tree[s].gen
  BY <1>3 DEF AliasInv, AliasTyped, InTime
<1>5. /\ it \in [Sources -> [gen : Nat, deleted : BOOLEAN]]
      /\ \A s \in Sources : it[s].gen = item[s].gen
  <2>1. ASSUME NEW s \in Sources PROVE it[s] \in [gen : Nat, deleted : BOOLEAN] /\ it[s].gen = item[s].gen
    <3>1. item[s] \in [gen : Nat, deleted : BOOLEAN]
      BY <1>4
    <3>2. [item[s] EXCEPT !.deleted = TRUE] \in [gen : Nat, deleted : BOOLEAN]
          /\ [item[s] EXCEPT !.deleted = TRUE].gen = item[s].gen
      BY <3>1
    <3> QED
      BY <1>2, <3>1, <3>2
  <2> QED
    BY <1>2, <2>1
<1> HIDE DEF arts, want, rows1
<1>6. /\ RowsTyped(rows0) /\ DOMAIN rows0 = DOMAIN alias
      /\ \A i \in DOMAIN alias : /\ rows0[i].prov = alias[i].prov
                                 /\ rows0[i].until = alias[i].until \/ rows0[i].until = aseq
      /\ Live(rows0) \subseteq Live(alias)
  BY <1>4, FoundRows
<1>7. TwoKinds(rows0)
  BY <1>4, <1>6 DEF TwoKinds, Live
<1> HIDE DEF rows0
<1>8. /\ RowsTyped(alias') /\ OneLive(alias') /\ TwoKinds(alias') /\ DOMAIN rows0 \subseteq DOMAIN alias'
      /\ \A i \in DOMAIN alias' : alias'[i].until \in {0, aseq} \/ (i \in DOMAIN rows0 /\ alias'[i] = rows0[i])
      /\ RowsFollow(alias', it, arts, window)
      /\ \A i : i \in Live(rows1) /\ rows1[i].prov = "mined" <=> i \in Live(alias') /\ alias'[i].prov = "mined"
      /\ \A i \in Live(rows1) : rows1[i].prov = "mined" => alias'[i] = rows1[i]
  BY <1>2, <1>4, <1>6, <1>7, BothPasses DEF rows1
<1> HIDE DEF cs
<1>9. want = WantedEdges(alias', cs, it, arts)
  BY <1>8, WantedOfMined DEF want
<1>10. \A w \in want : w = <<w[1], w[2]>> /\ w[1] \in DOMAIN alias'
  <2> TAKE w \in want
  <2>1. PICK i \in Live(alias') : Wants(i, alias'[i], cs, it, arts, w)
    BY <1>9, WantedMembers
  <2>2. PICK p : w = <<i, Goal(p, cs, it, arts)>>
    BY <2>1 DEF Wants
  <2> QED
    BY <2>2 DEF Live
<1>11. \A e \in E0 : /\ IsEdge(e) /\ (e.until = aseq \/ e \in aedges)
                     /\ \E x \in aedges : e.alias = x.alias
  BY <1>2, <1>4, SweptEdges
<1>12. /\ EdgesFollow(aedges', want)
       /\ \A e \in aedges' : /\ IsEdge(e) /\ (e.until \in {0, aseq} \/ e \in E0)
                             /\ (\E x \in E0 : e.alias = x.alias) \/ (\E w \in want : e.alias = w[1])
  <2>1. aedges' = EdgesReconciled(E0, want) /\ aseq \in Nat \ {0}
    BY <1>2, <1>4
  <2>2. (\A e \in E0 : IsEdge(e)) /\ (\A w \in want : w = <<w[1], w[2]>>)
    BY <1>10, <1>11
  <2> QED
    BY <2>1, <2>2, ReconciledEdges
<1>13. \A e \in aedges' : IsEdge(e) /\ e.alias \in DOMAIN alias' /\ e.until <= aseq
  <2> TAKE e \in aedges'
  <2>1. e.alias \in DOMAIN alias'
    BY <1>4, <1>6, <1>8, <1>10, <1>11, <1>12
  <2>2. e.until \in {0, aseq} \/ e \in aedges
    BY <1>11, <1>12
  <2>3. e.until <= aseq
    <3>1. e \in aedges => e.until < aseq /\ e.until \in Nat
      BY <1>4 DEF IsEdge
    <3> QED
      BY <1>4, <2>2, <3>1
  <2> QED
    BY <1>12, <2>1, <2>3
<1>14. \A i \in DOMAIN alias' : alias'[i].until <= aseq
  <2> TAKE i \in DOMAIN alias'
  <2>1. alias'[i].until \in {0, aseq} \/ (i \in DOMAIN alias /\ alias'[i].until = alias[i].until)
    BY <1>6, <1>8
  <2>2. i \in DOMAIN alias => alias[i].until < aseq /\ alias[i].until \in Nat
    BY <1>4 DEF RowsTyped, IsRow
  <2> QED
    BY <1>4, <2>1, <2>2
<1>15. AliasTyped'
  <2>1. arts \subseteq Sources \X Nat
    BY <1>4 DEF arts
  <2> QED
    BY <1>2, <1>3, <1>4, <1>5, <1>8, <1>13, <2>1 DEF AliasTyped
<1>16. InTime'
  BY <1>3, <1>13, <1>14 DEF InTime
<1>17. Remembering'
  <2>1. Gist(alias') = Full(Inputs(it, arts))
    BY <1>8, FollowersRemember DEF Given
  <2>2. Inputs(it, arts) \in SUBSET Sources
    BY InputsAreSources
  <2> QED
    BY <2>1, <2>2 DEF Remembering
<1>18. Following'
  <2>1. abuild'.settled = <<it, window>> /\ abuild'.changed = {}
    BY <1>3
  <2>2. abuild'.settled[1] = it /\ abuild'.settled[2] = window
    BY <2>1
  <2>3. EdgesFollow(aedges', WantedEdges(alias', Given(it, arts), it, arts))
    BY <1>9, <1>12 DEF cs
  <2>4. \A s \in Sources : it[s].gen <= it[s].gen
    BY <1>5
  <2> QED
    BY <1>2, <1>5, <1>8, <2>1, <2>2, <2>3, <2>4 DEF Following
<1> QED
  BY <1>15, <1>16, <1>17, <1>18 DEF AliasInv

\* The sources are committed one by one: what changed is newer than at the last finalize.
LEMMA ExtractStep ==
  ASSUME AliasInv, ExtractSources
  PROVE  AliasInv'
<1> DEFINE changed == {s \in {x \in Sources : tree[x].here} : item[s].gen # tree[s].gen}
           last == abuild.settled
<1>1. /\ abuild.pc = "idle" /\ aseq' = aseq + 1
      /\ item' = [s \in Sources |-> IF s \in changed THEN [gen |-> tree[s].gen, deleted |-> FALSE]
                                    ELSE item[s]]
      /\ live' = live \union {<<s, tree[s].gen>> : s \in changed}
      /\ abuild' = [abuild EXCEPT !.pc = "extracted", !.changed = changed]
      /\ tree' = tree /\ window' = window /\ alias' = alias /\ aedges' = aedges
  BY Zenon DEF ExtractSources
<1>2. AliasTyped /\ InTime /\ Remembering /\ Following
  BY DEF AliasInv
<1>3. abuild' = [pc |-> "extracted", changed |-> changed, settled |-> last]
  BY <1>1, <1>2 DEF InTime
<1>4. /\ tree \in [Sources -> [gen : Nat, here : BOOLEAN]]
      /\ item \in [Sources -> [gen : Nat, deleted : BOOLEAN]] /\ aseq \in Nat
  BY <1>2 DEF AliasTyped
<1>5. \A s \in Sources : /\ tree[s].gen \in Nat /\ item[s].gen \in Nat /\ item[s].gen <= tree[s].gen
                         /\ item[s] \in [gen : Nat, deleted : BOOLEAN]
  BY <1>2, <1>4 DEF AliasTyped
<1>6. changed \subseteq Sources /\ \A s \in changed : item[s].gen # tree[s].gen
  OBVIOUS
<1> HIDE DEF changed, last
<1>7. \A s \in Sources : /\ item'[s] \in [gen : Nat, deleted : BOOLEAN]
                         /\ s \in changed => item'[s].gen = tree[s].gen
                         /\ s \notin changed => item'[s] = item[s]
  <2> TAKE s \in Sources
  <2>1. CASE s \in changed
    <3>1. item'[s] = [gen |-> tree[s].gen, deleted |-> FALSE] /\ tree[s].gen \in Nat
      BY <1>1, <1>5, <2>1
    <3> QED
      BY <2>1, <3>1
  <2>2. CASE s \notin changed
    BY <1>1, <1>5, <2>2
  <2> QED
    BY <2>1, <2>2
<1>8. item' \in [Sources -> [gen : Nat, deleted : BOOLEAN]]
  <2>1. item' = [s \in Sources |-> item'[s]]
    BY <1>1
  <2> QED
    BY <1>7, <2>1
<1>9. \A s \in Sources : item'[s].gen <= tree[s].gen /\ item[s].gen <= item'[s].gen
  <2> TAKE s \in Sources
  <2>1. CASE s \in changed
    BY <1>5, <1>7, <2>1
  <2>2. CASE s \notin changed
    BY <1>5, <1>7, <2>2
  <2> QED
    BY <2>1, <2>2
<1>10. \A s \in changed : item[s].gen < item'[s].gen
  <2> TAKE s \in changed
  <2>1. /\ item[s].gen \in Nat /\ tree[s].gen \in Nat /\ item[s].gen <= tree[s].gen
        /\ item[s].gen # tree[s].gen /\ item'[s].gen = tree[s].gen
    BY <1>5, <1>6, <1>7
  <2> QED
    BY <2>1
<1>11. AliasTyped'
  <2>1. live' \subseteq Sources \X Nat
    <3>1. {<<s, tree[s].gen>> : s \in changed} \subseteq Sources \X Nat
      BY <1>5, <1>6
    <3> QED
      BY <1>1, <1>2, <3>1 DEF AliasTyped
  <2>2. aseq' \in Nat
    BY <1>1, <1>4
  <2> QED
    BY <1>1, <1>2, <1>4, <1>8, <1>9, <2>1, <2>2 DEF AliasTyped
<1>12. InTime'
  <2>1. \A i \in DOMAIN alias : alias[i].until <= aseq /\ alias[i].until \in Nat
    BY <1>1, <1>2 DEF InTime, AliasTyped, RowsTyped, IsRow
  <2>2. \A e \in aedges : e.until <= aseq /\ e.until \in Nat
    BY <1>1, <1>2 DEF InTime, AliasTyped, IsEdge
  <2>3. \A u \in Nat : u <= aseq => u < aseq'
    BY <1>1, <1>4
  <2>4. aseq' # 0
    BY <1>1, <1>4
  <2>5. abuild'.pc = "extracted" /\ abuild'.changed = changed /\ abuild'.settled = last
    BY <1>3
  <2> QED
    BY <1>1, <1>3, <1>6, <2>1, <2>2, <2>3, <2>4, <2>5 DEF InTime
<1>13. Remembering'
  BY <1>1, <1>2 DEF Remembering
<1>14. Following'
  <2>1. abuild'.settled = last /\ abuild'.changed = changed
    BY <1>3
  <2>2. SUFFICES ASSUME last # <<>>
                 PROVE  /\ last[1] \in [Sources -> [gen : Nat, deleted : BOOLEAN]]
                        /\ \A s \in Sources : last[1][s].gen <= item'[s].gen
                        /\ \A s \in changed : last[1][s].gen < item'[s].gen
                        /\ last[1] = item' =>
                             /\ RowsFollow(alias, item', live', last[2])
                             /\ EdgesFollow(aedges, WantedEdges(alias, Given(item', live'), item', live'))
    BY <1>1, <2>1, Zenon DEF Following
  <2>3. /\ last[1] \in [Sources -> [gen : Nat, deleted : BOOLEAN]]
        /\ \A s \in Sources : last[1][s].gen <= item[s].gen
        /\ last[1] = item =>
             /\ RowsFollow(alias, item, live, last[2])
             /\ EdgesFollow(aedges, WantedEdges(alias, Given(item, live), item, live))
    BY <1>2, <2>2 DEF Following, last
  <2>4. \A s \in Sources : last[1][s].gen \in Nat /\ item'[s].gen \in Nat
    BY <1>8, <2>3
  <2>5. \A s \in Sources : last[1][s].gen <= item'[s].gen
    <3> TAKE s \in Sources
    <3>1. last[1][s].gen <= item[s].gen /\ item[s].gen <= item'[s].gen
      BY <1>9, <2>3
    <3> QED
      BY <1>5, <2>4, <3>1
  <2>6. \A s \in changed : last[1][s].gen < item'[s].gen
    <3> TAKE s \in changed
    <3>1. s \in Sources /\ last[1][s].gen <= item[s].gen /\ item[s].gen < item'[s].gen
      BY <1>6, <1>10, <2>3
    <3> QED
      BY <1>5, <2>4, <3>1
  <2>7. CASE changed = {}
    <3>1. item' = item
      BY <1>4, <1>7, <1>8, <2>7
    <3>2. live' = live
      BY <1>1, <2>7
    <3> QED
      BY <2>3, <2>5, <2>6, <3>1, <3>2
  <2>8. CASE changed # {}
    <3>1. PICK s \in changed : TRUE
      BY <2>8
    <3>2. last[1][s].gen < item'[s].gen /\ item'[s].gen \in Nat
      BY <1>6, <2>4, <2>6
    <3>3. last[1] # item'
      BY <3>2
    <3> QED
      BY <2>3, <2>5, <2>6, <3>3
  <2> QED
    BY <2>7, <2>8
<1> QED
  BY <1>11, <1>12, <1>13, <1>14 DEF AliasInv

\* Nothing but the working trees and the searches changes between builds.
LEMMA WorldStep ==
  ASSUME AliasInv,
         UNCHANGED <<item, live, alias, aedges, aseq, abuild>>,
         tree' \in [Sources -> [gen : Nat, here : BOOLEAN]],
         \A s \in Sources : tree[s].gen <= tree'[s].gen,
         window' \subseteq Queries, IsFiniteSet(window')
  PROVE  AliasInv'
<1>1. AliasTyped'
  <2>1. \A s \in Sources : item[s].gen <= tree'[s].gen
    <3> TAKE s \in Sources
    <3>1. item[s].gen \in Nat /\ tree[s].gen \in Nat /\ tree'[s].gen \in Nat /\ item[s].gen <= tree[s].gen
      BY DEF AliasInv, AliasTyped
    <3> QED
      BY <3>1
  <2> QED
    BY <2>1 DEF AliasInv, AliasTyped
<1>2. InTime' /\ Remembering' /\ Following'
  <2>1. InTime'
    BY DEF AliasInv, InTime
  <2>2. Remembering'
    BY DEF AliasInv, Remembering
  <2>3. Following'
    <3>1. Following
      BY DEF AliasInv
    <3> QED
      BY <3>1 DEF Following
  <2> QED
    BY <2>1, <2>2, <2>3
<1> QED
  BY <1>1, <1>2 DEF AliasInv

LEMMA EditStep ==
  ASSUME AliasInv, NEW s \in Sources, EditSource(s) \/ DropSource(s)
  PROVE  AliasInv'
<1>1. /\ tree \in [Sources -> [gen : Nat, here : BOOLEAN]] /\ window \subseteq Queries /\ IsFiniteSet(window)
  BY DEF AliasInv, AliasTyped
<1>2. UNCHANGED <<window, item, live, alias, aedges, aseq, abuild>>
  BY DEF EditSource, DropSource
<1>3. tree' \in [Sources -> [gen : Nat, here : BOOLEAN]] /\ \A x \in Sources : tree[x].gen <= tree'[x].gen
  <2>1. CASE EditSource(s)
    <3>1. tree' = [tree EXCEPT ![s] = [gen |-> tree[s].gen + 1, here |-> TRUE]]
      BY <2>1 DEF EditSource
    <3>2. tree[s].gen \in Nat /\ [gen |-> tree[s].gen + 1, here |-> TRUE] \in [gen : Nat, here : BOOLEAN]
      BY <1>1
    <3> QED
      BY <1>1, <3>1, <3>2
  <2>2. CASE DropSource(s)
    <3>1. tree' = [tree EXCEPT ![s] = [tree[s] EXCEPT !.here = FALSE]]
      BY <2>2 DEF DropSource
    <3>2. /\ [tree[s] EXCEPT !.here = FALSE] \in [gen : Nat, here : BOOLEAN]
          /\ [tree[s] EXCEPT !.here = FALSE].gen = tree[s].gen /\ tree[s].gen \in Nat
      BY <1>1
    <3> QED
      BY <1>1, <3>1, <3>2
  <2> QED
    BY <2>1, <2>2
<1> QED
  BY <1>1, <1>2, <1>3, WorldStep

LEMMA SearchStep ==
  ASSUME AliasInv, NEW q \in Queries, Searched(q)
  PROVE  AliasInv'
<1>1. /\ tree \in [Sources -> [gen : Nat, here : BOOLEAN]] /\ window \subseteq Queries /\ IsFiniteSet(window)
  BY DEF AliasInv, AliasTyped
<1>2. /\ UNCHANGED <<tree, item, live, alias, aedges, aseq, abuild>>
      /\ window' = window \ {q} \/ window' = window \union {q}
  BY DEF Searched
<1>3. IsFiniteSet(window \ {q}) /\ IsFiniteSet(window \union {q})
  BY <1>1, FS_AddElement, FS_RemoveElement
<1>4. \A s \in Sources : tree[s].gen <= tree[s].gen
  BY <1>1
<1> QED
  BY <1>1, <1>2, <1>3, <1>4, WorldStep

LEMMA RollBackKeeps ==
  ASSUME AliasInv, FinalizeRollsBack
  PROVE  AliasInv'
<1>1. /\ abuild.pc = "extracted" /\ abuild' = [pc |-> "idle", changed |-> {}, settled |-> abuild.settled]
      /\ UNCHANGED <<tree, window, edits, item, live, alias, aedges, aseq>>
  BY DEF FinalizeRollsBack, NoBuild
<1>2. AliasTyped /\ InTime /\ Remembering /\ Following
  BY DEF AliasInv
<1>3. abuild'.pc = "idle" /\ abuild'.changed = {} /\ abuild'.settled = abuild.settled
  BY <1>1
<1>4. AliasTyped' /\ Remembering'
  BY <1>1, <1>2 DEF AliasTyped, Remembering
<1>5. InTime'
  <2>1. \A i \in DOMAIN alias : alias[i].until <= aseq
    <3> TAKE i \in DOMAIN alias
    <3>1. alias[i].until < aseq /\ alias[i].until \in Nat /\ aseq \in Nat
      BY <1>1, <1>2 DEF InTime, AliasTyped, RowsTyped, IsRow
    <3> QED
      BY <3>1
  <2>2. \A e \in aedges : e.until <= aseq
    <3> TAKE e \in aedges
    <3>1. e.until < aseq /\ e.until \in Nat /\ aseq \in Nat
      BY <1>1, <1>2 DEF InTime, AliasTyped, IsEdge
    <3> QED
      BY <3>1
  <2> QED
    BY <1>1, <1>3, <2>1, <2>2 DEF InTime
<1>6. Following'
  BY <1>1, <1>2, <1>3 DEF Following
<1> QED
  BY <1>4, <1>5, <1>6 DEF AliasInv

LEMMA AliasBegins == AliasInit => AliasInv
<1> SUFFICES ASSUME AliasInit PROVE AliasInv
  OBVIOUS
<1>1. /\ tree \in [Sources -> {[gen |-> 1, here |-> TRUE]}]
      /\ item = [s \in Sources |-> [gen |-> 0, deleted |-> FALSE]]
      /\ window = {} /\ live = {} /\ alias = <<>> /\ aedges = {} /\ aseq = 0
      /\ abuild = [pc |-> "idle", changed |-> {}, settled |-> <<>>]
  BY DEF AliasInit, NoBuild
<1>2. \A s \in Sources : tree[s] = [gen |-> 1, here |-> TRUE] /\ item[s] = [gen |-> 0, deleted |-> FALSE]
  BY <1>1
<1>3. /\ tree \in [Sources -> [gen : Nat, here : BOOLEAN]]
      /\ item \in [Sources -> [gen : Nat, deleted : BOOLEAN]]
      /\ \A s \in Sources : item[s].gen <= tree[s].gen
  <2>1. \A s \in Sources : /\ tree[s] \in [gen : Nat, here : BOOLEAN]
                            /\ item[s] \in [gen : Nat, deleted : BOOLEAN]
                            /\ item[s].gen = 0 /\ tree[s].gen = 1
    <3> TAKE s \in Sources
    <3>1. /\ [gen |-> 1, here |-> TRUE] \in [gen : Nat, here : BOOLEAN]
          /\ [gen |-> 0, deleted |-> FALSE] \in [gen : Nat, deleted : BOOLEAN]
          /\ [gen |-> 1, here |-> TRUE].gen = 1 /\ [gen |-> 0, deleted |-> FALSE].gen = 0
      OBVIOUS
    <3>2. tree[s] = [gen |-> 1, here |-> TRUE] /\ item[s] = [gen |-> 0, deleted |-> FALSE]
      BY <1>2
    <3> QED
      BY <3>1, <3>2
  <2>2. item \in [Sources -> [gen : Nat, deleted : BOOLEAN]]
    BY <1>1, <2>1
  <2>3. tree \in [Sources -> [gen : Nat, here : BOOLEAN]]
    <3>1. tree = [s \in Sources |-> tree[s]]
      BY <1>1
    <3> QED
      BY <2>1, <3>1
  <2> QED
    BY <2>1, <2>2, <2>3
<1>4. DOMAIN alias = {} /\ alias = [i \in DOMAIN alias |-> alias[i]]
  BY <1>1
<1>5. IsFiniteSet({}) /\ Cardinality({}) = 0
  BY FS_EmptySet
<1>6. RowsTyped(alias) /\ OneLive(alias) /\ TwoKinds(alias) /\ Live(alias) = {}
  BY <1>4, <1>5 DEF RowsTyped, OneLive, TwoKinds, Live
<1>7. AliasTyped
  BY <1>1, <1>3, <1>5, <1>6 DEF AliasTyped
<1>8. abuild.pc = "idle" /\ abuild.changed = {} /\ abuild.settled = <<>>
  BY <1>1
<1>9. InTime
  BY <1>1, <1>4, <1>8 DEF InTime
<1>10. Remembering
  <2>1. Gist(alias) = {} /\ Full({}) = {}
    BY <1>6 DEF Gist, Full
  <2> QED
    BY <2>1 DEF Remembering
<1>11. Following
  BY <1>8 DEF Following
<1> QED
  BY <1>7, <1>9, <1>10, <1>11 DEF AliasInv

LEMMA AliasKeeps == AliasInv /\ [AliasNext]_aliasVars => AliasInv'
<1> SUFFICES ASSUME AliasInv, [AliasNext]_aliasVars PROVE AliasInv'
  OBVIOUS
<1>1. CASE ExtractSources
  BY <1>1, ExtractStep
<1>2. CASE FinalizeAliases
  BY <1>2, FinalizeStep
<1>3. CASE FinalizeRollsBack
  BY <1>3, RollBackKeeps
<1>4. CASE \E s \in Sources : EditSource(s) \/ DropSource(s)
  BY <1>4, EditStep
<1>5. CASE \E q \in Queries : Searched(q)
  BY <1>5, SearchStep
<1>6. CASE UNCHANGED aliasVars
  <2>1. UNCHANGED <<tree, window, item, live, alias, aedges, aseq, abuild>>
    BY <1>6 DEF aliasVars
  <2>2. /\ tree \in [Sources -> [gen : Nat, here : BOOLEAN]] /\ window \subseteq Queries /\ IsFiniteSet(window)
        /\ \A s \in Sources : tree[s].gen <= tree[s].gen
    BY DEF AliasInv, AliasTyped
  <2> QED
    BY <2>1, <2>2, WorldStep
<1> QED
  BY <1>1, <1>2, <1>3, <1>4, <1>5, <1>6 DEF AliasNext

LEMMA AliasInvariant == AliasSpec => []AliasInv
<1>1. AliasInit => AliasInv
  BY AliasBegins
<1>2. AliasInv /\ [AliasNext]_aliasVars => AliasInv'
  BY AliasKeeps
<1> QED
  BY <1>1, <1>2, PTL DEF AliasSpec

--------------------------------------------------------------------------------
(* What the alias index promises *)

LEMMA SettledFollows ==
  ASSUME AliasInv, Settled
  PROVE  /\ RowsFollow(alias, item, live, window)
         /\ EdgesFollow(aedges, WantedEdges(alias, Given(item, live), item, live))
<1>1. abuild.settled = <<item, window>>
  BY DEF Settled
<1>2. abuild.settled # <<>> /\ abuild.settled[1] = item /\ abuild.settled[2] = window
  BY <1>1
<1> QED
  BY <1>2 DEF AliasInv, Following

LEMMA SourcesMatched == AliasInv => AliasesMatchSources
<1> SUFFICES ASSUME AliasInv, Settled
             PROVE  UNION {{<<alias[i].title, e.src, e.paths>> : e \in alias[i].evidence} : i \in LiveRows}
                    = UNION {{<<p, s, Origin[s].phrases[p]>> : p \in DOMAIN Origin[s].phrases}
                             : s \in Inputs(item, live)}
  BY DEF AliasesMatchSources
<1> DEFINE A == UNION {{<<alias[i].title, e.src, e.paths>> : e \in alias[i].evidence} : i \in LiveRows}
           B == UNION {{<<p, s, Origin[s].phrases[p]>> : p \in DOMAIN Origin[s].phrases}
                       : s \in Inputs(item, live)}
<1>1. Gist(alias) = Full(Inputs(item, live))
  BY SettledFollows, FollowersRemember DEF Given
<1>2. LiveRows = Live(alias)
  BY DEF LiveRows, Live
<1>3. ASSUME NEW x \in A PROVE x \in B
  <2>1. PICK i \in Live(alias) : \E e \in alias[i].evidence : x = <<alias[i].title, e.src, e.paths>>
    BY <1>2
  <2>2. PICK e \in alias[i].evidence : x = <<alias[i].title, e.src, e.paths>>
    BY <2>1
  <2> DEFINE c == <<e.src, alias[i].title, e.paths>>
  <2>3. c \in Full(Inputs(item, live))
    BY <1>1, GistMembers
  <2>4. PICK s \in Inputs(item, live) : \E p \in DOMAIN Origin[s].phrases : c = <<s, p, Origin[s].phrases[p]>>
    BY <2>3, FullMembers
  <2>5. PICK p \in DOMAIN Origin[s].phrases : c = <<s, p, Origin[s].phrases[p]>>
    BY <2>4
  <2>6. x = <<p, s, Origin[s].phrases[p]>>
    BY <2>2, <2>5
  <2> QED
    BY <2>6
<1>4. ASSUME NEW x \in B PROVE x \in A
  <2>1. PICK s \in Inputs(item, live) : \E p \in DOMAIN Origin[s].phrases : x = <<p, s, Origin[s].phrases[p]>>
    OBVIOUS
  <2>2. PICK p \in DOMAIN Origin[s].phrases : x = <<p, s, Origin[s].phrases[p]>>
    BY <2>1
  <2> DEFINE c == <<s, p, Origin[s].phrases[p]>>
  <2>3. c \in Gist(alias)
    BY <1>1, FullMembers
  <2>4. PICK i \in Live(alias) : \E e \in alias[i].evidence : c = <<e.src, alias[i].title, e.paths>>
    BY <2>3, GistMembers
  <2>5. PICK e \in alias[i].evidence : c = <<e.src, alias[i].title, e.paths>>
    BY <2>4
  <2>6. x = <<alias[i].title, e.src, e.paths>>
    BY <2>2, <2>5
  <2> QED
    BY <1>2, <2>6
<1> HIDE DEF A, B
<1>5. A = B
  BY <1>3, <1>4
<1> QED
  BY <1>5 DEF A, B

LEMMA EdgesMatched == AliasInv => EdgesFollowTheEvidence
<1> SUFFICES ASSUME AliasInv, Settled, NEW e \in aedges, e.until = 0
             PROVE  LET open == {f \in aedges : f.until = 0}
                    IN  /\ e.alias \in LiveRows /\ e.art \in live
                        /\ \E x \in alias[e.alias].evidence : Origin[e.art[1]].path \in x.paths
                        /\ Cardinality({f \in open : f.alias = e.alias}) <= EdgeCap
  BY Zenon DEF EdgesFollowTheEvidence
<1>1. live \subseteq Sources \X Nat
  BY DEF AliasInv, AliasTyped
<1>2. /\ e.alias \in Live(alias) /\ e.art \in live
      /\ \E x \in alias[e.alias].evidence : Origin[e.art[1]].path \in x.paths
      /\ LET open == {f \in aedges : f.until = 0}
         IN  Cardinality({f \in open : f.alias = e.alias}) <= EdgeCap
  BY <1>1, SettledFollows, FollowingEdges
<1> QED
  BY <1>2 DEF LiveRows, Live

LEMMA AccessKept == AliasInv => AliasesNeverWiden
<1> SUFFICES ASSUME AliasInv, Settled, NEW i \in LiveRows, alias[i].prov = "mined"
             PROVE  NoWiderThan(alias[i], Ranked(alias[i].evidence, BodyCap))
  BY Zenon DEF AliasesNeverWiden
<1> DEFINE acl == alias[i].acl
           ev == alias[i].evidence
           listed == Ranked(ev, BodyCap)
           standing(e) == {s \in Sources : Stands(s, item) /\ Origin[s].path \in e.paths \cap listed}
           named == UNION {{s \in standing(e) : Origin[s].repo = Origin[e.src].repo} : e \in ev}
           t == alias[i].title
           cs == Given(item, live)
           d == MinedFor(t, cs, item, live)
<1>1. MinedRow(alias[i], cs, item, live)
  <2>1. i \in Live(alias)
    BY DEF LiveRows, Live
  <2>2. MinedRow(alias[i], cs, item, live) \/ SearchedRow(alias[i], item, live)
    BY <2>1, SettledFollows DEF RowsFollow
  <2> QED
    BY <2>2 DEF SearchedRow
<1>2. alias[i] = With(d, alias[i].from, 0) /\ d.evidence = Evidence(t, cs, item)
      /\ d.acl = DerivedAcl(PathAcls(Evidence(t, cs, item), cs, item))
  BY <1>1, MinedFields DEF MinedRow
<1> HIDE DEF d, cs, t
<1>3. ev = Evidence(t, cs, item) /\ acl = DerivedAcl(PathAcls(ev, cs, item))
  BY <1>2, WithFields
<1>4. /\ (\A p \in listed : RowsOf(p, cs, item) = {}) => acl # {}
      /\ acl = {} => \A p \in listed : \A s \in RowsOf(p, cs, item) : AclOf(s, item) = {}
      /\ acl # {Nobody} => \A p \in listed : \A s \in RowsOf(p, cs, item) :
           AclOf(s, item) = {} \/ acl \subseteq AclOf(s, item)
  BY <1>3, RowsNeverWiden
<1>5. ASSUME \A e \in ev : standing(e) = {}, NEW p \in listed
      PROVE  RowsOf(p, cs, item) = {}
  <2>1. PICK e \in ev : p \in e.paths
    BY DEF Ranked, Named
  <2>2. standing(e) = {}
    BY <1>5
  <2> QED
    BY <2>1, <2>2 DEF RowsOf
<1>6. ASSUME NEW s \in named
      PROVE  \E p \in listed : s \in RowsOf(p, cs, item)
  <2>1. PICK e \in ev : /\ s \in Sources /\ Stands(s, item) /\ Origin[s].path \in e.paths \cap listed
                        /\ Origin[s].repo = Origin[e.src].repo
    OBVIOUS
  <2>2. PICK c \in cs : c[2] = t /\ e = [src |-> c[1], gen |-> item[c[1]].gen, paths |-> c[3]]
    BY <1>3 DEF Evidence
  <2>3. e.src = c[1] /\ e.paths = c[3]
    BY <2>2
  <2> DEFINE p == Origin[s].path
  <2>4. p \in listed /\ p \in c[3]
    BY <2>1, <2>3
  <2>5. Origin[s].repo \in Repos(p, cs)
    BY <2>1, <2>3, <2>4 DEF Repos
  <2>6. s \in RowsOf(p, cs, item)
    BY <2>1, <2>5 DEF RowsOf
  <2> QED
    BY <2>4, <2>6
<1> HIDE DEF acl, standing, named
<1>7. /\ (\A e \in ev : standing(e) = {}) => acl # {}
      /\ acl = {} => \A s \in named : AclOf(s, item) = {}
      /\ acl # {Nobody} => \A s \in named : AclOf(s, item) = {} \/ acl \subseteq AclOf(s, item)
  BY <1>4, <1>5, <1>6
<1> QED
  BY <1>7, Zenon DEF NoWiderThan, acl, standing, named

\* Whatever was edited, dropped, searched or rolled back: one live row per phrase, rows that
\* say what mining all live sources again would say, edges that follow the present evidence
\* within the cap, and access no wider than that of the files it lists, whatever the propagation
\* wrote before (reconcile_alias_rows, _reconcile_edges, commit_acl_intersection).
THEOREM AliasSafety == AliasSpec => []AliasesFollowTheirSources
<1>1. AliasInv => AliasesFollowTheirSources
  <2>1. AliasInv => OneLiveRowPerPhrase
    BY DEF AliasInv, AliasTyped, OneLive, OneLiveRowPerPhrase, LiveRows, Live
  <2> QED
    BY <2>1, SourcesMatched, EdgesMatched, AccessKept DEF AliasesFollowTheirSources
<1> QED
  BY <1>1, AliasInvariant, PTL

\* An upsert that finds a row of its own for every title refreshes those, and that is all.
LEMMA UpsertsRefresh ==
  ASSUME NEW rows, NEW goal, RowsTyped(goal), DOMAIN goal = DOMAIN rows,
         NEW want, NEW own, own \subseteq DOMAIN rows,
         \A t \in DOMAIN want : \E i \in own : rows[i].title = t,
         \A i \in DOMAIN rows : goal[i] = IF i \in own /\ rows[i].title \in DOMAIN want
                                          THEN With(want[rows[i].title], rows[i].from, 0)
                                          ELSE rows[i]
  PROVE  RowsUpserted(rows, want, own) = goal
<1> DEFINE rowOf(t) == {i \in own : rows[i].title = t}
           new == {t \in DOMAIN want : rowOf(t) = {}}
           next == Cardinality(DOMAIN rows)
           idOf(t) == next + Cardinality({u \in new : u <= t})
<1>1. RowsUpserted(rows, want, own) =
        [i \in DOMAIN rows \union {idOf(t) : t \in new} |->
           IF i \in own /\ rows[i].title \in DOMAIN want
           THEN With(want[rows[i].title], rows[i].from, 0)
           ELSE IF i \in DOMAIN rows THEN rows[i]
           ELSE With(want[CHOOSE t \in new : idOf(t) = i], aseq, 0)]
  BY Zenon DEF RowsUpserted
<1>2. new = {}
  OBVIOUS
<1> HIDE DEF new, next, idOf
<1>3. DOMAIN rows \union {idOf(t) : t \in new} = DOMAIN rows
  BY <1>2
<1>4. RowsUpserted(rows, want, own) = [i \in DOMAIN rows |-> goal[i]]
  BY <1>1, <1>3
<1> QED
  BY <1>4 DEF RowsTyped

LEMMA ClosesNothing ==
  ASSUME NEW rows, RowsTyped(rows), NEW which, \A i \in Live(rows) : i \notin which
  PROVE  Closed(rows, which) = rows
<1>1. Closed(rows, which) = [i \in DOMAIN rows |-> rows[i]]
  BY DEF Closed, Live
<1> QED
  BY <1>1 DEF RowsTyped

LEMMA AclOfOne ==
  ASSUME NEW a
  PROVE  DerivedAcl({a}) = a
<1> DEFINE narrow == {a} \ {{}}
           common == {t \in UNION narrow : \A x \in narrow : t \in x}
<1>1. DerivedAcl({a}) = IF narrow = {} THEN {} ELSE IF common = {} THEN {Nobody} ELSE common
  BY DEF DerivedAcl, MergedAcl
<1>2. CASE a = {}
  BY <1>1, <1>2
<1>3. CASE a # {}
  <2>1. narrow = {a}
    BY <1>3
  <2>2. common = a
    BY <2>1
  <2> QED
    BY <1>1, <1>3, <2>1, <2>2
<1> QED
  BY <1>2, <1>3

\* Rows that follow the sources: what the propagation made of them is undone by the mining pass,
\* and the ledger pass, whose rows have the ACL of their anchor, finds nothing to write.
LEMMA PassesStay ==
  ASSUME RowsTyped(alias), OneLive(alias), aseq \in Nat \ {0},
         \A i \in DOMAIN alias : alias[i].until < aseq,
         NEW it, NEW arts, RowsFollow(alias, it, arts, window),
         NEW seen, NEW rows, rows = AclPropagated(alias, seen, it)
  PROVE  /\ Reconciled(rows, MinedWant(Given(it, arts), it, arts)) = alias
         /\ LedgerPass(alias, it, arts) = alias
         /\ \A i \in DOMAIN alias : rows[i] # alias[i] =>
              /\ alias[i].until = 0 /\ alias[i].prov = "mined"
              /\ alias[i].acl # AclOf(alias[i].anchor, it)
<1> DEFINE cs == Given(it, arts)
           want == MinedWant(cs, it, arts)
<1>1. RowsSwept({}, {}) = alias
  <2>1. RowsSwept({}, {}) = [i \in DOMAIN alias |-> alias[i]]
    BY DEF RowsSwept
  <2> QED
    BY <2>1 DEF RowsTyped
<1>2. Kept(alias) = Live(alias)
  <2>1. Kept(RowsSwept({}, {})) = Live(alias)
    BY SweptRows
  <2> QED
    BY <1>1, <2>1
<1>3. DOMAIN want = Titles(cs) /\ \A t \in Titles(cs) : want[t] = MinedFor(t, cs, it, arts)
  BY DEF MinedWant, MinedFor
<1>4. /\ \A i \in Live(alias) : \/ MinedRow(alias[i], cs, it, arts)
                                \/ /\ alias[i].title \in Missing(alias, it, arts)
                                   /\ SearchedRow(alias[i], it, arts)
      /\ \A t \in Titles(cs) : \E i \in Live(alias) : alias[i].title = t /\ MinedRow(alias[i], cs, it, arts)
      /\ \A q \in Missing(alias, it, arts) : \E i \in Live(alias) : alias[i].title = q
  BY MissingInWindow DEF RowsFollow
<1>5. \A r : (MinedRow(r, cs, it, arts) => r.prov = "mined" /\ r.title \in Titles(cs))
             /\ (SearchedRow(r, it, arts) => r.prov = "ledger")
  BY DEF MinedRow, SearchedRow
<1>6. \A i \in Live(alias) : alias[i].title \in Titles(cs) => MinedRow(alias[i], cs, it, arts)
  BY <1>4 DEF OneLive
<1>7. \A i \in Live(alias) : alias[i].title \in Titles(cs) =>
        alias[i] = With(want[alias[i].title], alias[i].from, 0)
  BY <1>3, <1>6 DEF MinedRow
<1>8. Live(alias) \subseteq DOMAIN alias
  BY DEF Live
<1> HIDE DEF cs, want
<1>propagated. /\ RowsTyped(rows) /\ DOMAIN rows = DOMAIN alias
      /\ \A i \in DOMAIN alias :
           /\ rows[i].title = alias[i].title /\ rows[i].prov = alias[i].prov
           /\ rows[i].from = alias[i].from
           /\ rows[i] # alias[i] => alias[i].until = 0 /\ alias[i].acl # AclOf(alias[i].anchor, it)
      /\ Kept(rows) = Live(alias) /\ Live(rows) = Live(alias)
  BY <1>2, PropagatedRows
<1>same. Kept(rows) = Live(alias) /\ Live(rows) = Live(alias)
  BY <1>2, PropagatedRows
<1>searched. ASSUME NEW i \in Live(alias), SearchedRow(alias[i], it, arts)
      PROVE  alias[i].acl = AclOf(alias[i].anchor, it)
  <2> DEFINE want1 == LedgerWant(alias[i].title, it, arts)
  <2>1. alias[i] = With(want1, alias[i].from, 0)
    BY <1>searched DEF SearchedRow
  <2>2. \E a, b, c : want1 = [title |-> alias[i].title, prov |-> "ledger", evidence |-> {},
                              targets |-> a, acl |-> DerivedAcl({AclOf(c, it)}), anchor |-> c]
    BY Zenon DEF LedgerWant
  <2> HIDE DEF want1
  <2>3. \E c : want1.acl = DerivedAcl({AclOf(c, it)}) /\ want1.anchor = c
    BY <2>2
  <2>4. alias[i].acl = want1.acl /\ alias[i].anchor = want1.anchor
    BY <2>1 DEF With
  <2> QED
    BY <2>3, <2>4, AclOfOne
<1>restored. \A i \in DOMAIN alias : rows[i] # alias[i] =>
        /\ alias[i].until = 0 /\ alias[i].prov = "mined" /\ alias[i].title \in DOMAIN want
        /\ alias[i].acl # AclOf(alias[i].anchor, it)
  BY <1>3, <1>4, <1>5, <1>propagated, <1>searched DEF Live
<1>9. Unconfirmed(rows, want) = rows
  <2> DEFINE which == {i \in DOMAIN rows : \/ i \notin Kept(rows)
                                           \/ rows[i].title \notin DOMAIN want /\ rows[i].prov = "mined"}
  <2>1. \A i \in Live(rows) : i \notin which
    <3> TAKE i \in Live(rows)
    <3>1. i \in Live(alias) /\ i \in DOMAIN alias
      BY Zenon, <1>8, <1>same
    <3>2. rows[i].prov = "mined" => rows[i].title \in DOMAIN want
      BY <1>3, <1>4, <1>5, <1>propagated, <3>1
    <3> QED
      BY Zenon, <1>same, <3>1, <3>2
  <2>2. Unconfirmed(rows, want) = Closed(rows, which)
    BY Zenon DEF Unconfirmed
  <2> HIDE DEF which
  <2> QED
    BY <1>propagated, <2>1, <2>2, ClosesNothing
<1>10. Reconciled(rows, want) = alias
  <2>1. Reconciled(rows, want) = RowsUpserted(rows, want, Live(alias))
    BY Zenon, <1>9, <1>same DEF Reconciled
  <2>2. \A t \in DOMAIN want : \E i \in Live(alias) : rows[i].title = t
    BY <1>3, <1>4, <1>8, <1>propagated
  <2>3. \A i \in DOMAIN rows : alias[i] = IF i \in Live(alias) /\ rows[i].title \in DOMAIN want
                                          THEN With(want[rows[i].title], rows[i].from, 0)
                                          ELSE rows[i]
    <3> TAKE i \in DOMAIN rows
    <3>1. CASE i \in Live(alias) /\ rows[i].title \in DOMAIN want
      BY <1>3, <1>7, <1>propagated, <3>1
    <3>2. CASE ~(i \in Live(alias) /\ rows[i].title \in DOMAIN want)
      BY <1>propagated, <1>restored, <3>2 DEF Live
    <3> QED
      BY <3>1, <3>2
  <2> QED
    BY <1>8, <1>propagated, <2>1, <2>2, <2>3, UpsertsRefresh
<1> DEFINE found == SearchedWant(alias, it, arts)
           own == {i \in DOMAIN alias : alias[i].until = 0 /\ alias[i].prov = "ledger"}
           which == {i \in own : alias[i].title \notin DOMAIN found}
<1>11. LedgerPass(alias, it, arts) = RowsUpserted(Closed(alias, which), found, own)
  BY Zenon DEF LedgerPass, SearchedWant
<1>12. DOMAIN found = Missing(alias, it, arts)
       /\ \A q \in Missing(alias, it, arts) : found[q] = LedgerWant(q, it, arts)
  BY DEF SearchedWant
<1> HIDE DEF found
<1>13. /\ own \subseteq Live(alias) /\ own \subseteq DOMAIN alias
       /\ \A i \in own : alias[i].prov = "ledger"
       /\ \A i \in Live(alias) : alias[i].prov = "ledger" => i \in own
  BY DEF Live
<1>14. \A i \in own : alias[i].title \in DOMAIN found /\ SearchedRow(alias[i], it, arts)
  <2> TAKE i \in own
  <2>1. i \in Live(alias) /\ alias[i].prov # "mined"
    BY <1>13
  <2> QED
    BY <1>4, <1>5, <1>12, <2>1
<1>15. \A i \in Live(alias) : i \notin which
  BY <1>14
<1>16. \A t \in DOMAIN found : \E i \in own : alias[i].title = t
  <2> TAKE t \in DOMAIN found
  <2>1. PICK i \in Live(alias) : alias[i].title = t
    BY <1>4, <1>12
  <2>2. alias[i].prov = "ledger"
    <3>1. \A j \in DOMAIN alias : alias[j].until = 0 /\ alias[j].title = t => alias[j].prov = "ledger"
      BY <1>12, Zenon DEF Missing
    <3> QED
      BY <2>1, <3>1 DEF Live
  <2> QED
    BY <1>13, <2>1, <2>2
<1> HIDE DEF which, own
<1>17. \A i \in own : alias[i].title \in DOMAIN found =>
         alias[i] = With(found[alias[i].title], alias[i].from, 0)
  BY <1>12, <1>14 DEF SearchedRow
<1>18. LedgerPass(alias, it, arts) = alias
  <2>1. Closed(alias, which) = alias
    BY <1>15, ClosesNothing
  <2> QED
    BY <1>11, <1>13, <1>16, <1>17, <2>1, UpsertsRefresh
<1> QED
  BY <1>10, <1>18, <1>restored DEF cs, want

\* A finalize that finds the sources as the last one left them had nothing to sweep.
LEMMA FinalizeRepeats ==
  ASSUME AliasInv, FinalizeAliases, Settled, item' = item
  PROVE  /\ alias' = alias /\ aedges' = aedges
         /\ \A i \in DOMAIN alias : astamp'[i] # astamp[i] =>
              /\ alias[i].until = 0 /\ alias[i].prov = "mined"
              /\ alias[i].acl # AclOf(alias[i].anchor, item)
<1>1. PICK it, vanished, seen, E0 :
           LET arts == live \ Swept(abuild.changed, vanished)
               rows0 == RowsFound(abuild.changed, vanished, seen, it)
               cs == Given(it, arts)
               rows1 == Reconciled(rows0, MinedWant(cs, it, arts))
           IN  /\ vanished = {s \in Sources : Stands(s, item) /\ ~tree[s].here}
               /\ it = [s \in Sources |-> IF s \in vanished THEN [item[s] EXCEPT !.deleted = TRUE]
                                          ELSE item[s]]
               /\ E0 = EdgesSwept(Swept(abuild.changed, vanished), rows0)
               /\ item' = it /\ live' = arts
               /\ alias' = LedgerPass(rows1, it, arts)
               /\ aedges' = EdgesReconciled(E0, WantedEdges(rows1, cs, it, arts))
               /\ astamp' = Stamped(Rewritten(rows0, rows1) \union Rewritten(rows1, alias'), alias')
  BY FinalizeResult
<1> DEFINE arts == live \ Swept(abuild.changed, vanished)
           rows0 == RowsFound(abuild.changed, vanished, seen, it)
           cs == Given(it, arts)
           rows1 == Reconciled(rows0, MinedWant(cs, it, arts))
<1>2. /\ vanished = {s \in Sources : Stands(s, item) /\ ~tree[s].here}
      /\ it = [s \in Sources |-> IF s \in vanished THEN [item[s] EXCEPT !.deleted = TRUE]
                                 ELSE item[s]]
      /\ E0 = EdgesSwept(Swept(abuild.changed, vanished), rows0)
      /\ it = item
      /\ alias' = LedgerPass(rows1, it, arts)
      /\ aedges' = EdgesReconciled(E0, WantedEdges(rows1, cs, it, arts))
      /\ astamp' = Stamped(Rewritten(rows0, rows1) \union Rewritten(rows1, alias'), alias')
  BY <1>1, Zenon
<1>3. /\ RowsTyped(alias) /\ OneLive(alias) /\ aseq \in Nat \ {0}
      /\ \A i \in DOMAIN alias : alias[i].until < aseq
      /\ \A e \in aedges : IsEdge(e) /\ e.alias \in DOMAIN alias /\ e.until < aseq
      /\ item \in [Sources -> [gen : Nat, deleted : BOOLEAN]]
      /\ abuild.changed \subseteq Sources
  BY DEF FinalizeAliases, AliasInv, AliasTyped, InTime
<1>4. RowsFollow(alias, item, live, window) /\ EdgesFollow(aedges, WantedEdges(alias, Given(item, live), item, live))
  BY SettledFollows
<1>5. vanished = {}
  <2> SUFFICES ASSUME NEW s \in vanished PROVE FALSE
    OBVIOUS
  <2>1. s \in Sources /\ ~item[s].deleted
    BY <1>2 DEF Stands
  <2>2. item[s] = [item[s] EXCEPT !.deleted = TRUE] /\ item[s] \in [gen : Nat, deleted : BOOLEAN]
    BY <1>2, <1>3, <2>1
  <2>3. item[s].deleted = TRUE
    BY <2>2
  <2> QED
    BY <2>1, <2>3
<1>6. abuild.changed = {}
  <2> SUFFICES ASSUME NEW s \in abuild.changed PROVE FALSE
    OBVIOUS
  <2>1. abuild.settled # <<>> /\ abuild.settled[1] = item
    BY DEF Settled
  <2>2. abuild.settled[1][s].gen < item[s].gen
    BY <2>1 DEF AliasInv, Following
  <2>3. item[s].gen \in Nat
    BY <1>3
  <2> QED
    BY <2>1, <2>2, <2>3
<1>7. Swept({}, {}) = {} /\ RowsSwept({}, {}) = alias
  <2>1. Swept({}, {}) = {}
    BY DEF Swept
  <2>2. RowsSwept({}, {}) = [i \in DOMAIN alias |-> alias[i]]
    BY DEF RowsSwept
  <2> QED
    BY <1>3, <2>1, <2>2 DEF RowsTyped
<1>9. arts = live /\ rows0 = AclPropagated(alias, seen, item)
  BY <1>2, <1>5, <1>6, <1>7 DEF RowsFound
<1> HIDE DEF arts, rows0
<1>10. /\ rows1 = alias /\ LedgerPass(alias, item, live) = alias
       /\ \A i \in DOMAIN alias : rows0[i] # alias[i] =>
            /\ alias[i].until = 0 /\ alias[i].prov = "mined"
            /\ alias[i].acl # AclOf(alias[i].anchor, item)
  BY <1>2, <1>3, <1>4, <1>9, PassesStay
<1>found. DOMAIN rows0 = DOMAIN alias /\ \A i \in DOMAIN alias : rows0[i].until = alias[i].until
  BY <1>3, <1>9, PropagatedRows
<1>8. E0 = aedges
  <2>1. E0 = EdgesSwept({}, rows0)
    BY <1>2, <1>5, <1>6, <1>7
  <2>2. \A e \in aedges : rows0[e.alias].until # aseq
    <3> TAKE e \in aedges
    <3>1. e.alias \in DOMAIN alias
      BY <1>3
    <3>2. rows0[e.alias].until < aseq /\ rows0[e.alias].until \in Nat
      BY <1>3, <1>found, <3>1 DEF RowsTyped, IsRow
    <3> QED
      BY <1>3, <3>2
  <2>3. EdgesSwept({}, rows0) = {e : e \in aedges}
    BY <2>2 DEF EdgesSwept
  <2> QED
    BY <2>1, <2>3
<1>11. alias' = alias
  BY <1>2, <1>9, <1>10
<1>stamped. \A i \in DOMAIN alias : astamp'[i] # astamp[i] => rows0[i] # alias[i]
  <2> DEFINE which == Rewritten(rows0, alias) \union Rewritten(alias, alias)
  <2>1. astamp' = [i \in DOMAIN alias |-> IF i \in which THEN aseq ELSE astamp[i]]
    BY <1>2, <1>10, <1>11 DEF Stamped
  <2>2. \A i \in which : rows0[i] # alias[i]
    BY <1>found DEF Rewritten
  <2> HIDE DEF which
  <2> QED
    BY <2>1, <2>2
<1> DEFINE want == WantedEdges(alias, Given(item, live), item, live)
<1>12. \A w \in want : w = <<w[1], w[2]>>
  <2> TAKE w \in want
  <2>1. PICK i \in Live(alias) : Wants(i, alias[i], Given(item, live), item, live, w)
    BY WantedMembers
  <2>2. PICK p : w = <<i, Goal(p, Given(item, live), item, live)>>
    BY <2>1 DEF Wants
  <2> QED
    BY <2>2
<1>13. aedges' = EdgesReconciled(aedges, want)
  BY <1>2, <1>8, <1>9, <1>10
<1>14. \A e \in aedges : IsEdge(e) /\ e.until # aseq
  <2> TAKE e \in aedges
  <2>1. IsEdge(e) /\ e.until < aseq /\ e.until \in Nat /\ aseq \in Nat
    BY <1>3 DEF IsEdge
  <2> QED
    BY <2>1
<1> HIDE DEF want
<1>15. EdgesReconciled(aedges, want) = aedges
  BY <1>4, <1>12, <1>14, EdgesStay DEF want
<1> QED
  BY <1>10, <1>11, <1>13, <1>15, <1>stamped

\* Building again what was built, with the same searches, leaves every row and edge as it was:
\* the rows that are written again at all are mined ones whose ACL is not that of their anchor,
\* which the propagation overwrites and the reconcile restores (_propagate_acl,
\* _reconcile_artifacts).
THEOREM RebuildsRestampOnly == AliasSpec => RebuildsOnlyRestamp
<1> DEFINE Kept1 == /\ alias' = alias /\ aedges' = aedges
                    /\ \A i \in DOMAIN alias : astamp'[i] # astamp[i] =>
                         /\ alias[i].until = 0 /\ alias[i].prov = "mined"
                         /\ alias[i].acl # AclOf(alias[i].anchor, item)
<1>1. AliasInv /\ [AliasNext]_aliasVars => [Rebuilds => Kept1]_aliasVars
  <2> SUFFICES ASSUME AliasInv, [AliasNext]_aliasVars,
                      abuild.pc = "extracted", abuild'.pc = "idle", Settled, item' = item
               PROVE  Kept1
    BY Zenon DEF Rebuilds
  <2>1. CASE ExtractSources
    BY <2>1 DEF ExtractSources
  <2>2. CASE FinalizeAliases
    BY <2>2, FinalizeRepeats
  <2>3. CASE FinalizeRollsBack
    BY <2>3 DEF FinalizeRollsBack
  <2>4. CASE \E s \in Sources : EditSource(s) \/ DropSource(s)
    BY <2>4 DEF EditSource, DropSource
  <2>5. CASE \E q \in Queries : Searched(q)
    BY <2>5 DEF Searched
  <2>6. CASE UNCHANGED aliasVars
    BY <2>6 DEF aliasVars
  <2> QED
    BY <2>1, <2>2, <2>3, <2>4, <2>5, <2>6 DEF AliasNext
<1>2. AliasInv /\ [AliasNext]_aliasVars =>
        [Rebuilds => /\ alias' = alias /\ aedges' = aedges
                     /\ \A i \in DOMAIN alias : astamp'[i] # astamp[i] =>
                          /\ alias[i].until = 0 /\ alias[i].prov = "mined"
                          /\ alias[i].acl # AclOf(alias[i].anchor, item)]_aliasVars
  BY <1>1
<1> QED
  BY <1>2, AliasInvariant, PTL DEF AliasSpec, RebuildsOnlyRestamp
================================================================================
